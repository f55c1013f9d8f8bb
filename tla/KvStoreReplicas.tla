---------------------------- MODULE KvStoreReplicas ----------------------------
(***************************************************************************)
(* One key on several stores.  Writers produce entries; every store merges *)
(* the entries it receives one at a time, in any order and as often as     *)
(* they arrive (flooding repeats and reorders them), and ttl updates, which *)
(* carry no value, arrive in between.  This is the promise the rest of     *)
(* KvStore rests on: which entry a store ends with depends on what it      *)
(* received and not on the order it received it in.                        *)
(***************************************************************************)
EXTENDS KvStoreMerge, FiniteSets

CONSTANTS Stores,       \* the stores
          Writable,     \* the entries a writer may produce
          MaxWrites     \* bound: how many entries are ever written

ASSUME WritableAssumption ==
  Writable \subseteq {e \in Entry : e.hasValue /\ e.version > 0 /\ isValidTtl(e)}

VARIABLES written,      \* entries produced so far
          received,     \* received[s]: the entries store s was handed
          store         \* store[s]: the entry store s holds, or Absent

vars == <<written, received, store>>

TypeOK ==
  /\ written \subseteq Writable
  /\ received \in [Stores -> SUBSET written]
  /\ store \in [Stores -> StoredEntry]

Init ==
  /\ written = {}
  /\ received = [s \in Stores |-> {}]
  /\ store = [s \in Stores |-> Absent]

Write(e) ==
  /\ Cardinality(written) < MaxWrites
  /\ written' = written \cup {e}
  /\ UNCHANGED <<received, store>>

(* mergeKeyValues on a publication that carries the entry. *)
Deliver(s, e) ==
  /\ store' = [store EXCEPT ![s] = MergeEntry(@, e, NoNode)]
  /\ received' = [received EXCEPT ![s] = @ \cup {e}]
  /\ UNCHANGED written

(* mergeKeyValues on a ttl update of the entry, relayed by `sender'. *)
DeliverTtl(s, e, sender) ==
  /\ store' = [store EXCEPT ![s] = MergeEntry(@, [e EXCEPT !.hasValue = FALSE], sender)]
  /\ UNCHANGED <<written, received>>

Next ==
  \/ \E e \in Writable : Write(e)
  \/ \E s \in Stores, e \in written : Deliver(s, e)
  \/ \E s \in Stores, e \in written : \E sender \in {NoNode, e.originatorId} : DeliverTtl(s, e, sender)

Spec == Init /\ [][Next]_vars

-----------------------------------------------------------------------------
(***************************************************************************)
(* getMergeType (KvStoreUtil.cpp): whatever the order and however often    *)
(* entries arrive, the store holds one of the entries it received, and     *)
(* none it received has newer content.                                     *)
(***************************************************************************)
HoldsTheNewest ==
  \A s \in Stores :
    /\ received[s] = {} => store[s] = Absent
    /\ received[s] # {} => \E e \in received[s] : content(store[s]) = content(e)
    /\ \A e \in received[s] : AtLeast(store[s], e)

(***************************************************************************)
(* getMergeType (KvStoreUtil.cpp), the remark at its third tie-breaker:    *)
(* without a deterministic choice "local store can have new value while    *)
(* other stores have old value and they never sync".  Two stores that were *)
(* handed the same entries hold the same value of the same writer.         *)
(***************************************************************************)
SameEntriesSameContent ==
  \A s, t \in Stores : received[s] = received[t] => content(store[s]) = content(store[t])

(***************************************************************************)
(* mergeKeyValues (KvStoreUtil.cpp): a store never goes back to an older   *)
(* entry, and a ttl update never touches the value, version or originator. *)
(***************************************************************************)
NeverGoesBack ==
  [][\A s \in Stores : store'[s] = store[s] \/ Newer(store'[s], store[s])]_vars

=============================================================================
