------------------------- MODULE KvStoreEntriesProofs -------------------------
(***************************************************************************)
(* Proofs about the entries of a KvStore, for any stores, keys and         *)
(* entries: the merge of openr/kvstore/KvStoreUtil.cpp keeps the newest    *)
(* entry a store was handed (KvStoreReplicas), and a node keeps the keys   *)
(* it originates in its store (KvStoreSelfOriginated).                     *)
(***************************************************************************)
EXTENDS KvStoreReplicas, KvStoreSelfOriginated, KvStoreMergeProofs

(***************************************************************************)
(* For any set of stores and of entries, a store holds the newest of the   *)
(* entries it was handed, whatever the order.                              *)
(***************************************************************************)
IInv == TypeOK /\ HoldsTheNewest

LEMMA InitIInv == Init => IInv
BY StoredEntryIsEntry DEF Init, IInv, TypeOK, HoldsTheNewest

LEMMA NextIInv ==
  IInv /\ [Next]_vars => IInv' /\ \A s \in Stores : store'[s] = store[s] \/ Newer(store'[s], store[s])
<1> SUFFICES ASSUME IInv, [Next]_vars
             PROVE  IInv' /\ \A s \in Stores : store'[s] = store[s] \/ Newer(store'[s], store[s])
  OBVIOUS
<1> USE WritableAssumption DEF IInv
<1>1. CASE UNCHANGED vars
  BY <1>1 DEF vars, TypeOK, HoldsTheNewest
<1>2. ASSUME NEW e \in Writable, Write(e)
      PROVE  IInv' /\ \A s \in Stores : store'[s] = store[s] \/ Newer(store'[s], store[s])
  BY <1>2 DEF Write, TypeOK, HoldsTheNewest
<1>3. ASSUME NEW r \in Stores, NEW e \in written, Deliver(r, e)
      PROVE  IInv' /\ \A s \in Stores : store'[s] = store[s] \/ Newer(store'[s], store[s])
  <2> DEFINE m == MergeEntry(store[r], e, NoNode)
  <2>1. e \in Entry /\ e.hasValue /\ e.version > 0 /\ isValidTtl(e) /\ store[r] \in StoredEntry
    BY DEF TypeOK
  <2>2. /\ m \in StoredEntry /\ AtLeast(m, e) /\ AtLeast(m, store[r])
        /\ content(m) \in {content(store[r]), content(e)}
        /\ m = store[r] \/ Newer(m, store[r])
    BY <2>1, MergeValueEntry
  <2> HIDE DEF m
  <2>3. /\ store' = [store EXCEPT ![r] = m]
        /\ received' = [received EXCEPT ![r] = @ \cup {e}]
        /\ written' = written
    BY <1>3 DEF Deliver, m
  <2>4. TypeOK'
    BY <2>2, <2>3 DEF TypeOK
  <2>5. ASSUME NEW s \in Stores
        PROVE  /\ received'[s] = {} => store'[s] = Absent
               /\ received'[s] # {} => \E x \in received'[s] : content(store'[s]) = content(x)
               /\ \A x \in received'[s] : AtLeast(store'[s], x)
    <3>1. CASE s # r
      BY <2>3, <3>1 DEF TypeOK, HoldsTheNewest
    <3>2. CASE s = r
      <4>1. received'[s] = received[r] \cup {e} /\ store'[s] = m
        BY <2>3, <3>2 DEF TypeOK
      <4>2. \E x \in received'[s] : content(store'[s]) = content(x)
        <5>1. CASE received[r] = {}
          <6>1. store[r] = Absent
            BY <5>1 DEF HoldsTheNewest
          <6>2. content(m) # content(Absent)
            BY <2>1, <2>2, <6>1, StoredEntryIsEntry DEF AtLeast, NewerContent, content, Absent, Entry
          <6> QED
            BY <2>2, <4>1, <6>1, <6>2
        <5>2. CASE received[r] # {}
          BY <2>2, <4>1, <5>2 DEF HoldsTheNewest
        <5> QED
          BY <5>1, <5>2
      <4>3. ASSUME NEW x \in received[r]
            PROVE  AtLeast(m, x)
        <5>1. x \in Entry /\ AtLeast(store[r], x)
          BY DEF TypeOK, HoldsTheNewest
        <5> QED
          BY <2>1, <2>2, <5>1, AtLeastTransitive, StoredEntryIsEntry
      <4> QED
        BY <2>2, <4>1, <4>2, <4>3
    <3> QED
      BY <3>1, <3>2
  <2>6. \A s \in Stores : store'[s] = store[s] \/ Newer(store'[s], store[s])
    BY <2>2, <2>3 DEF TypeOK
  <2> QED
    BY <2>4, <2>5, <2>6 DEF HoldsTheNewest
<1>4. ASSUME NEW r \in Stores, NEW e \in written, NEW sender \in {NoNode, e.originatorId},
             DeliverTtl(r, e, sender)
      PROVE  IInv' /\ \A s \in Stores : store'[s] = store[s] \/ Newer(store'[s], store[s])
  <2> DEFINE u == [e EXCEPT !.hasValue = FALSE]
             m == MergeEntry(store[r], u, sender)
  <2>1. u \in Entry /\ ~u.hasValue /\ store[r] \in StoredEntry
    BY DEF TypeOK, Entry
  <2>2. /\ m \in StoredEntry /\ content(m) = content(store[r])
        /\ m = store[r] \/ Newer(m, store[r])
        /\ store[r] = Absent => m = Absent
    BY <2>1, MergeTtlEntry
  <2>3. store' = [store EXCEPT ![r] = m] /\ UNCHANGED <<received, written>>
    BY <1>4 DEF DeliverTtl
  <2> HIDE DEF m, u
  <2>4. TypeOK'
    BY <2>2, <2>3 DEF TypeOK
  <2>5. ASSUME NEW s \in Stores
        PROVE  /\ received'[s] = {} => store'[s] = Absent
               /\ received'[s] # {} => \E x \in received'[s] : content(store'[s]) = content(x)
               /\ \A x \in received'[s] : AtLeast(store'[s], x)
    <3>1. CASE s # r
      BY <2>3, <3>1 DEF TypeOK, HoldsTheNewest
    <3>2. CASE s = r
      <4>1. received'[s] = received[r] /\ store'[s] = m
        BY <2>3, <3>2 DEF TypeOK
      <4>2. ASSUME NEW x \in received[r]
            PROVE  AtLeast(m, x)
        <5>1. AtLeast(store[r], x)
          BY DEF HoldsTheNewest
        <5> QED
          BY <2>2, <5>1 DEF AtLeast, NewerContent, content
      <4> QED
        BY <2>2, <4>1, <4>2 DEF HoldsTheNewest
    <3> QED
      BY <3>1, <3>2
  <2>6. \A s \in Stores : store'[s] = store[s] \/ Newer(store'[s], store[s])
    BY <2>2, <2>3 DEF TypeOK
  <2> QED
    BY <2>4, <2>5, <2>6 DEF HoldsTheNewest
<1> QED
  BY <1>1, <1>2, <1>3, <1>4 DEF Next

(***************************************************************************)
(* Type correctness and the main invariant: a store holds an entry it was  *)
(* handed and nothing newer was handed to it (mergeKeyValues).             *)
(***************************************************************************)
THEOREM Invariance == Spec => [](TypeOK /\ HoldsTheNewest)
<1>1. Init => IInv
  BY InitIInv
<1>2. IInv /\ [Next]_vars => IInv'
  BY NextIInv
<1> QED
  BY <1>1, <1>2, PTL DEF Spec, IInv

(***************************************************************************)
(* Stores that were handed the same entries agree (the deterministic       *)
(* tie-breaking getMergeType asks for).                                    *)
(***************************************************************************)
THEOREM Convergence == Spec => []SameEntriesSameContent
<1>1. TypeOK /\ HoldsTheNewest => SameEntriesSameContent
  <2> SUFFICES ASSUME TypeOK, HoldsTheNewest, NEW s \in Stores, NEW t \in Stores,
                      received[s] = received[t]
               PROVE  content(store[s]) = content(store[t])
    BY DEF SameEntriesSameContent
  <2>1. CASE received[s] = {}
    BY <2>1 DEF HoldsTheNewest
  <2>2. CASE received[s] # {}
    <3>1. PICK x \in received[s] : content(store[s]) = content(x)
      BY <2>2 DEF HoldsTheNewest
    <3>2. PICK y \in received[s] : content(store[t]) = content(y)
      BY <2>2 DEF HoldsTheNewest
    <3>3. AtLeast(store[s], y) /\ AtLeast(store[t], x)
      BY <3>1, <3>2 DEF HoldsTheNewest
    <3>4. AtLeast(store[s], store[t]) /\ AtLeast(store[t], store[s])
      BY <3>1, <3>2, <3>3 DEF AtLeast, NewerContent, content
    <3> QED
      BY <3>4, AtLeastAntisymmetric, StoredEntryIsEntry DEF TypeOK
  <2> QED
    BY <2>1, <2>2
<1> QED
  BY <1>1, Invariance, PTL

(* No store ever goes back to an older entry (mergeKeyValues). *)
THEOREM Monotonicity == Spec => NeverGoesBack
<1>1. IInv /\ [Next]_vars => [\A s \in Stores : store'[s] = store[s] \/ Newer(store'[s], store[s])]_vars
  BY NextIInv
<1>2. Spec => []IInv
  BY Invariance DEF IInv
<1> QED
  BY <1>1, <1>2, PTL DEF Spec, NeverGoesBack

(* From here on most steps are first-order; the ones with arithmetic or records say SMT. *)
USE Zenon

-----------------------------------------------------------------------------
(***************************************************************************)
(* A node's own keys.  With a flood rate limiter and several keys the      *)
(* invariant is false: advertiseSelfOriginatedKeys takes the keys it       *)
(* collected off the list after a flood that may have put one of them back *)
(* on it.                                                                  *)
(***************************************************************************)
OneKeyIfLimited == FloodLimited => \A j, k \in OwnKeys : j = k

OwnStores == {s \in [OwnKeys -> StoredEntry] : \A k \in OwnKeys : s[k] # Absent => isValidTtl(s[k])}

Caches == [self : OwnStores, advertise : SUBSET OwnKeys, timer : BOOLEAN,
           buffer : SUBSET OwnKeys, bufferTimer : BOOLEAN]

(* The cache of selfOriginatedKeyVals_ and what waits for its timers. *)
Scheduled(c) ==
  /\ c \in Caches
  /\ c.advertise \subseteq KeysOf(c.self)
  /\ c.buffer # {} => c.bufferTimer /\ FloodLimited

Due(c) == c.advertise # {} => c.timer

(* A key that does not wait to be advertised is in the store in its version or a newer one. *)
Advertised(c, held) ==
  \A k \in KeysOf(c.self) :
    /\ c.self[k].originatorId = Me
    /\ k \notin c.advertise => held[k].version >= c.self[k].version

(* What overrides a key in the store has been answered, or waits to be flooded. *)
Answered(c, held, pending) ==
  \A k \in KeysOf(c.self) \ pending : ~ Overrides(held[k], c.self[k])

(* The inductive invariant. *)
SelfInv ==
  /\ ownStore \in OwnStores
  /\ Scheduled(Cache) /\ Due(Cache)
  /\ Advertised(Cache, ownStore)
  /\ Answered(Cache, ownStore, publicationBuffer)
  /\ keyBackoff \subseteq KeysOf(selfOriginated)
  /\ keysToUnset \in [OwnKeys -> StoredEntry]
  /\ KeysOf(keysToUnset) # {} => unsetTimer
  /\ unsetTimer \in BOOLEAN /\ aborted \in BOOLEAN

(* What the callbacks read of a cache. *)
LEMMA CacheFields ==
  ASSUME NEW c, Scheduled(c)
  PROVE  /\ c.self \in [OwnKeys -> StoredEntry] /\ c.self \in OwnStores
         /\ KeysOf(c.self) = {k \in OwnKeys : c.self[k] # Absent}
         /\ \A k \in KeysOf(c.self) :
              /\ k \in OwnKeys /\ c.self[k] \in Entry /\ c.self[k].hasValue /\ c.self[k].version > 0
              /\ isValidTtl(c.self[k])
<1>1. c.self \in OwnStores
  BY DEF Scheduled, Caches
<1>2. c.self \in [OwnKeys -> StoredEntry] /\ \A k \in OwnKeys : c.self[k] # Absent => isValidTtl(c.self[k])
  BY <1>1 DEF OwnStores
<1>3. KeysOf(c.self) = {k \in OwnKeys : c.self[k] # Absent}
  BY <1>2 DEF KeysOf
<1>4. QED
  BY <1>1, <1>2, <1>3 DEF StoredEntry

(* The ways the callbacks change an entry: a new version, ... *)
LEMMA NewVersionOf ==
  ASSUME NEW e \in Entry, NEW v \in Nat
  PROVE  LET f == [e EXCEPT !.version = v, !.ttlVersion = 0]
         IN  /\ f \in Entry /\ f.version = v /\ f.originatorId = e.originatorId
             /\ f.hasValue = e.hasValue /\ f.ttl = e.ttl
<1>1. 0 \in Nat
  BY SMT
<1>2. QED
  BY <1>1 DEF Entry

(* ... a new ttl version, ... *)
LEMMA NewTtlVersionOf ==
  ASSUME NEW e \in Entry, NEW t \in Nat
  PROVE  LET f == [e EXCEPT !.ttlVersion = t]
         IN  /\ f \in Entry /\ f.version = e.version /\ f.originatorId = e.originatorId
             /\ f.value = e.value /\ f.hasValue = e.hasValue /\ f.ttl = e.ttl
BY DEF Entry

(* ... and a ttl update without its value. *)
LEMMA TtlUpdateOf ==
  ASSUME NEW e \in Entry
  PROVE  [e EXCEPT !.hasValue = FALSE] \in Entry
BY DEF Entry

(* An entry with a value is one a store may hold. *)
LEMMA IsStored ==
  ASSUME NEW e \in Entry, e.hasValue, e.version > 0
  PROVE  e \in StoredEntry /\ e # Absent
<1>1. ~ Absent.hasValue
  BY DEF Absent
<1>2. QED
  BY <1>1 DEF StoredEntry

(* And what a store holds has a value. *)
LEMMA StoredFields ==
  ASSUME NEW e \in StoredEntry, e # Absent
  PROVE  e \in Entry /\ e.hasValue /\ e.version > 0
BY DEF StoredEntry

(* Overrides compares versions, originators and values. *)
LEMMA OverridesByContent ==
  ASSUME NEW a \in Entry, NEW b \in Entry, NEW c \in Entry, content(a) = content(b), b.hasValue, Overrides(a, c)
  PROVE  Overrides(b, c)
<1>1. a.version = b.version /\ a.originatorId = b.originatorId /\ a.value = b.value
  BY SMT DEF content
<1>2. QED
  BY <1>1 DEF Overrides

(* An entry neither overrides one of the same content of this node nor one of a higher version. *)
LEMMA SameContentNoOverride ==
  ASSUME NEW a \in Entry, NEW c \in Entry, c.originatorId = Me, content(a) = content(c)
  PROVE  ~ Overrides(a, c)
BY SMT DEF Overrides, content, Entry

(* processPublicationForSelfOriginatedKey, given a publication that says what the store holds. *)
LEMMA ProcessPublication ==
  ASSUME NEW c, Scheduled(c), NEW held \in OwnStores, Advertised(c, held),
         NEW pub \in [OwnKeys -> Entry],
         \A k \in KeysOf(c.self) : IF pub[k].hasValue THEN content(pub[k]) = content(held[k])
                                   ELSE ~ Overrides(held[k], c.self[k]),
         NEW d, d = processPublicationForSelfOriginatedKey(c, pub)
  PROVE  /\ Scheduled(d) /\ Advertised(d, held) /\ Answered(d, held, {}) /\ (Due(c) => Due(d))
         /\ KeysOf(d.self) = KeysOf(c.self) /\ d.buffer = c.buffer /\ d.bufferTimer = c.bufferTimer
         /\ \A k \in KeysOf(c.self) :
              k \notin d.advertise \ c.advertise \/ (pub[k].hasValue /\ Overrides(held[k], c.self[k]))
         /\ \A k \in KeysOf(c.self) :
              d.self[k].version = c.self[k].version \/ (pub[k].hasValue /\ Overrides(held[k], c.self[k]))
<1> DEFINE overridden == {k \in OwnKeys : Overrides(pub[k], c.self[k])}
           refreshed == {k \in KeysOf(c.self) \ overridden :
                           /\ pub[k].hasValue
                           /\ pub[k].version = c.self[k].version
                           /\ pub[k].ttlVersion > c.self[k].ttlVersion}
           self == [k \in OwnKeys |->
                      CASE k \in overridden -> [c.self[k] EXCEPT !.version = pub[k].version + 1,
                                                                 !.ttlVersion = 0]
                        [] k \in refreshed  -> [c.self[k] EXCEPT !.ttlVersion = pub[k].ttlVersion]
                        [] OTHER            -> c.self[k]]
<1>1. /\ c.self \in [OwnKeys -> StoredEntry] /\ c.self \in OwnStores /\ c \in Caches
      /\ KeysOf(c.self) = {k \in OwnKeys : c.self[k] # Absent}
      /\ \A k \in KeysOf(c.self) :
           /\ k \in OwnKeys /\ c.self[k] \in Entry /\ c.self[k].hasValue /\ c.self[k].version > 0
           /\ isValidTtl(c.self[k])
  BY CacheFields DEF Scheduled
<1>2. \A k \in OwnKeys : held[k] \in Entry /\ pub[k] \in Entry
  BY StoredEntryIsEntry DEF OwnStores
<1>3. CASE KeysOf(c.self) = {}
  <2>1. d = c
    BY <1>3 DEF processPublicationForSelfOriginatedKey
  <2>2. QED
    BY <1>3, <2>1 DEF Answered, Advertised
<1>4. CASE KeysOf(c.self) # {}
  <2>1. d = [c EXCEPT !.self = self, !.advertise = c.advertise \cup overridden, !.timer = TRUE]
    BY <1>4 DEF processPublicationForSelfOriginatedKey
  <2>2. overridden \subseteq KeysOf(c.self)
    BY <1>1 DEF Overrides
  <2>3. ASSUME NEW k \in overridden
        PROVE  /\ self[k] = [c.self[k] EXCEPT !.version = pub[k].version + 1, !.ttlVersion = 0]
               /\ self[k] \in Entry /\ self[k].hasValue /\ self[k].version = pub[k].version + 1
               /\ self[k].version > 0 /\ self[k].originatorId = c.self[k].originatorId
               /\ self[k].ttl = c.self[k].ttl
    <3>1. k \in OwnKeys /\ c.self[k] \in Entry /\ c.self[k].hasValue /\ pub[k] \in Entry
      BY <1>1, <1>2, <2>2
    <3>2. self[k] = [c.self[k] EXCEPT !.version = pub[k].version + 1, !.ttlVersion = 0]
      BY <3>1
    <3> HIDE DEF self
    <3>3. pub[k].version + 1 \in Nat /\ pub[k].version + 1 > 0
      BY SMT, <3>1 DEF Entry
    <3>4. QED
      <4>1. PICK f : f = self[k]
        OBVIOUS
      <4>2. PICK e \in Entry : e = c.self[k]
        BY <3>1
      <4>3. f = [e EXCEPT !.version = pub[k].version + 1, !.ttlVersion = 0]
        BY <3>2, <4>1, <4>2
      <4>4. /\ f \in Entry /\ f.version = pub[k].version + 1 /\ f.originatorId = e.originatorId
            /\ f.hasValue = e.hasValue /\ f.ttl = e.ttl
        BY <3>3, <4>3, NewVersionOf
      <4>5. QED
        BY <3>1, <3>2, <3>3, <4>1, <4>2, <4>4
  <2>4. ASSUME NEW k \in OwnKeys \ overridden
        PROVE  /\ self[k].version = c.self[k].version /\ self[k].originatorId = c.self[k].originatorId
               /\ self[k].value = c.self[k].value /\ self[k].hasValue = c.self[k].hasValue
               /\ self[k].ttl = c.self[k].ttl
               /\ self[k] \in StoredEntry /\ (self[k] = Absent <=> c.self[k] = Absent)
    <3>1. c.self[k] \in StoredEntry /\ c.self[k] \in Entry /\ pub[k] \in Entry
      BY <1>1, <1>2, StoredEntryIsEntry
    <3>2. CASE k \in refreshed
      <4>1. self[k] = [c.self[k] EXCEPT !.ttlVersion = pub[k].ttlVersion]
        BY <3>2
      <4>2. pub[k].ttlVersion > c.self[k].ttlVersion
        BY <3>2
      <4>3. c.self[k] # Absent
        BY <1>1, <3>2
      <4> HIDE DEF self
      <4>4. pub[k].ttlVersion \in Nat
        BY SMT, <3>1 DEF Entry
      <4>5. /\ self[k] \in Entry /\ self[k].version = c.self[k].version /\ self[k].originatorId = c.self[k].originatorId
            /\ self[k].value = c.self[k].value /\ self[k].hasValue = c.self[k].hasValue
            /\ self[k].ttl = c.self[k].ttl
        BY SMT, <3>1, <4>1, <4>4, NewTtlVersionOf
      <4>6. self[k] \in StoredEntry /\ self[k] # Absent
        BY <3>1, <4>3, <4>5, StoredFields, IsStored
      <4>7. QED
        BY <4>3, <4>5, <4>6
    <3>3. CASE k \notin refreshed
      <4>1. self[k] = c.self[k]
        BY <3>3
      <4>2. QED
        BY <3>1, <4>1
    <3>4. QED
      BY <3>2, <3>3
  <2> HIDE DEF overridden, refreshed
  <2>5. self = [k \in OwnKeys |-> self[k]]
    BY SMT
  <2> HIDE DEF self
  <2>6. \A k \in OwnKeys : self[k] \in StoredEntry /\ (self[k] = Absent <=> c.self[k] = Absent)
                           /\ (self[k] # Absent => isValidTtl(self[k]))
    <3>1. SUFFICES ASSUME NEW k \in OwnKeys
                   PROVE  self[k] \in StoredEntry /\ (self[k] = Absent <=> c.self[k] = Absent)
                          /\ (self[k] # Absent => isValidTtl(self[k]))
      OBVIOUS
    <3>2. CASE k \in overridden
      <4>1. self[k] \in StoredEntry /\ self[k] # Absent
        BY <2>3, <3>2, IsStored
      <4>2. c.self[k] # Absent /\ isValidTtl(c.self[k])
        BY <1>1, <2>2, <3>2
      <4>3. isValidTtl(self[k])
        BY <2>3, <3>2, <4>2 DEF isValidTtl
      <4>4. QED
        BY <4>1, <4>2, <4>3
    <3>3. CASE k \notin overridden
      <4>1. c.self[k] # Absent => isValidTtl(c.self[k])
        BY <1>1
      <4>2. QED
        BY <2>4, <3>3, <4>1 DEF isValidTtl
    <3>4. QED
      BY <3>2, <3>3
  <2>7. self \in OwnStores /\ KeysOf(self) = KeysOf(c.self)
    <3>1. self \in [OwnKeys -> StoredEntry]
      BY <2>5, <2>6
    <3>2. KeysOf(self) = {k \in OwnKeys : self[k] # Absent}
      BY <3>1 DEF KeysOf
    <3>3. QED
      BY <1>1, <2>6, <3>1, <3>2 DEF OwnStores
  <2>8. /\ d \in Caches /\ d.self = self /\ d.advertise = c.advertise \cup overridden /\ d.timer
        /\ d.buffer = c.buffer /\ d.bufferTimer = c.bufferTimer
    BY <1>1, <2>1, <2>2, <2>7 DEF Caches
  <2>9. Scheduled(d)
    BY <2>2, <2>7, <2>8 DEF Scheduled
  <2>10. \A k \in overridden : pub[k].hasValue /\ content(pub[k]) = content(held[k])
                               /\ Overrides(held[k], c.self[k])
    <3>1. SUFFICES ASSUME NEW k \in overridden
                   PROVE  pub[k].hasValue /\ content(pub[k]) = content(held[k])
                          /\ Overrides(held[k], c.self[k])
      OBVIOUS
    <3>2. k \in OwnKeys /\ k \in KeysOf(c.self) /\ Overrides(pub[k], c.self[k]) /\ pub[k].hasValue
      BY <2>2 DEF overridden, Overrides
    <3>3. content(pub[k]) = content(held[k])
      BY <3>2
    <3>4. held[k].hasValue
      <4>1. held[k] \in StoredEntry
        BY <3>2 DEF OwnStores
      <4>2. held[k] # Absent
        BY SMT, <1>1, <1>2, <3>2, <3>3 DEF content, Overrides, Absent, Entry
      <4>3. QED
        BY <4>1, <4>2 DEF StoredEntry
    <3>5. QED
      BY <1>1, <1>2, <3>2, <3>3, <3>4, OverridesByContent
  <2>11. Advertised(d, held)
    <3>1. SUFFICES ASSUME NEW k \in KeysOf(c.self)
                   PROVE  /\ self[k].originatorId = Me
                          /\ k \notin d.advertise => held[k].version >= self[k].version
      BY <2>7, <2>8 DEF Advertised
    <3>2. c.self[k].originatorId = Me /\ (k \notin c.advertise => held[k].version >= c.self[k].version)
      BY DEF Advertised
    <3>3. CASE k \in overridden
      BY <2>3, <2>8, <3>2, <3>3
    <3>4. CASE k \notin overridden
      BY <1>1, <2>4, <2>8, <3>2, <3>4
    <3>5. QED
      BY <3>3, <3>4
  <2>12. Answered(d, held, {})
    <3>1. SUFFICES ASSUME NEW k \in KeysOf(c.self) PROVE ~ Overrides(held[k], self[k])
      BY <2>7, <2>8 DEF Answered
    <3>2. k \in OwnKeys /\ held[k] \in Entry /\ pub[k] \in Entry /\ c.self[k] \in Entry
      BY <1>1, <1>2
    <3>3. CASE k \in overridden
      <4>1. self[k].version = pub[k].version + 1
        BY <2>3, <3>3
      <4>2. held[k].version = pub[k].version
        BY SMT, <2>10, <3>3 DEF content
      <4>3. QED
        BY SMT, <3>2, <4>1, <4>2 DEF Overrides, Entry
    <3>4. CASE k \notin overridden
      <4>1. /\ self[k].version = c.self[k].version /\ self[k].value = c.self[k].value
            /\ c.self[k] # Absent
        BY <1>1, <2>4, <3>2, <3>4
      <4>2. ~ Overrides(held[k], c.self[k])
        <5>1. CASE pub[k].hasValue
          BY <3>2, <3>4, <5>1, OverridesByContent DEF overridden
        <5>2. CASE ~pub[k].hasValue
          BY <5>2
        <5>3. QED
          BY <5>1, <5>2
      <4>3. QED
        BY <4>1, <4>2 DEF Overrides
    <3>5. QED
      BY <3>3, <3>4
  <2>13. \A k \in KeysOf(c.self) : k \notin overridden => self[k].version = c.self[k].version
    BY <1>1, <2>4
  <2>14. QED
    BY <2>7, <2>8, <2>9, <2>10, <2>11, <2>12, <2>13 DEF Due
<1>5. QED
  BY <1>3, <1>4

(* floodBufferedUpdates: a publication of what the store holds of the buffered keys. *)
LEMMA FloodBuffered ==
  ASSUME NEW c, Scheduled(c), NEW held \in OwnStores, Advertised(c, held), Answered(c, held, c.buffer),
         NEW d, d = floodBufferedUpdates(c, held)
  PROVE  /\ Scheduled(d) /\ Advertised(d, held) /\ Answered(d, held, {}) /\ d.buffer = {} /\ (Due(c) => Due(d))
         /\ KeysOf(d.self) = KeysOf(c.self)
         /\ \A k \in KeysOf(c.self) :
              \/ k \notin d.advertise \ c.advertise /\ d.self[k].version = c.self[k].version
              \/ Overrides(held[k], c.self[k])
<1> DEFINE e == [c EXCEPT !.buffer = {}]
           all == [k \in OwnKeys |-> IF k \in c.buffer THEN held[k] ELSE Absent]
<1>1. c \in Caches /\ KeysOf(c.self) \subseteq OwnKeys
  BY CacheFields DEF Scheduled
<1>2. (\A k \in OwnKeys : held[k] \in Entry) /\ ~ Absent.hasValue /\ Absent \in Entry
  BY StoredEntryIsEntry DEF OwnStores, Absent
<1>3. d = processPublicationForSelfOriginatedKey(e, all)
  BY DEF floodBufferedUpdates
<1>4. /\ e \in Caches /\ e.self = c.self /\ e.advertise = c.advertise /\ e.timer = c.timer
      /\ e.buffer = {} /\ e.bufferTimer = c.bufferTimer
  BY SMT, <1>1 DEF Caches
<1>5. /\ all \in [OwnKeys -> Entry]
      /\ \A k \in OwnKeys : all[k] = IF k \in c.buffer THEN held[k] ELSE Absent
  BY <1>2
<1> HIDE DEF e, all
<1>6. Scheduled(e) /\ Advertised(e, held)
  BY <1>4 DEF Scheduled, Advertised
<1>7. \A k \in KeysOf(e.self) : IF all[k].hasValue THEN content(all[k]) = content(held[k])
                                ELSE ~ Overrides(held[k], e.self[k])
  <2>1. SUFFICES ASSUME NEW k \in KeysOf(c.self)
                 PROVE  IF all[k].hasValue THEN content(all[k]) = content(held[k])
                        ELSE ~ Overrides(held[k], c.self[k])
    BY <1>4
  <2>2. CASE k \in c.buffer
    <3>1. all[k] = held[k]
      BY <1>1, <1>5, <2>2
    <3>2. QED
      BY <3>1 DEF Overrides
  <2>3. CASE k \notin c.buffer
    <3>1. all[k] = Absent
      BY <1>1, <1>5, <2>3
    <3>2. QED
      BY <1>2, <2>3, <3>1 DEF Answered
  <2>4. QED
    BY <2>2, <2>3
<1>8. /\ Scheduled(d) /\ Advertised(d, held) /\ Answered(d, held, {}) /\ (Due(e) => Due(d))
      /\ KeysOf(d.self) = KeysOf(e.self) /\ d.buffer = e.buffer
      /\ \A k \in KeysOf(e.self) :
           k \notin d.advertise \ e.advertise \/ (all[k].hasValue /\ Overrides(held[k], e.self[k]))
      /\ \A k \in KeysOf(e.self) :
           d.self[k].version = e.self[k].version \/ (all[k].hasValue /\ Overrides(held[k], e.self[k]))
  BY SMT, <1>3, <1>5, <1>6, <1>7, ProcessPublication
<1>9. QED
  BY <1>4, <1>8 DEF Due

(* A publication that says what the store holds, and misses nothing that overrides an own key. *)
Reports(pub, c, held) ==
  /\ \A k \in OwnKeys : pub[k].hasValue => content(pub[k]) = content(held[k])
  /\ \A k \in KeysOf(c.self) \ c.buffer : pub[k].hasValue \/ ~ Overrides(held[k], c.self[k])

(* What flooding it makes of the cache c. *)
Flooded(c, held, pub, d) ==
  /\ Scheduled(d) /\ Advertised(d, held) /\ Answered(d, held, d.buffer)
  /\ KeysOf(d.self) = KeysOf(c.self) /\ (Due(c) => Due(d))
  /\ \A k \in KeysOf(c.self) :
       \/ k \notin d.advertise \ c.advertise /\ d.self[k].version = c.self[k].version
       \/ Overrides(held[k], c.self[k]) /\ (k \in c.buffer \/ pub[k].hasValue)

(* floodPublication with its rate limiter: what it looks at is what the store holds. *)
LEMMA FloodOwnPublication ==
  ASSUME NEW c, Scheduled(c), NEW held \in OwnStores, Advertised(c, held),
         NEW pub \in [OwnKeys -> Entry], NEW expired \in SUBSET OwnKeys, NEW token \in Tokens,
         Reports(pub, c, held)
  PROVE  Flooded(c, held, pub, floodOwnPublication(c, held, pub, expired, token))
<1>0. PICK d : d = floodOwnPublication(c, held, pub, expired, token)
  OBVIOUS
<1>a. /\ \A k \in OwnKeys : pub[k].hasValue => content(pub[k]) = content(held[k])
      /\ \A k \in KeysOf(c.self) \ c.buffer : pub[k].hasValue \/ ~ Overrides(held[k], c.self[k])
  BY DEF Reports
<1>b. SUFFICES /\ Scheduled(d) /\ Advertised(d, held) /\ Answered(d, held, d.buffer)
               /\ KeysOf(d.self) = KeysOf(c.self) /\ (Due(c) => Due(d))
               /\ \A k \in KeysOf(c.self) :
                    \/ k \notin d.advertise \ c.advertise /\ d.self[k].version = c.self[k].version
                    \/ Overrides(held[k], c.self[k]) /\ (k \in c.buffer \/ pub[k].hasValue)
  BY <1>0 DEF Flooded
<1> DEFINE keys == KeysOf(pub) \cup expired
           b == bufferPublication(c, keys)
<1>1. /\ c \in Caches /\ KeysOf(c.self) = {k \in OwnKeys : c.self[k] # Absent}
      /\ \A k \in KeysOf(c.self) : k \in OwnKeys /\ c.self[k] \in Entry
  BY CacheFields DEF Scheduled
<1>2. /\ KeysOf(pub) = {k \in OwnKeys : pub[k] # Absent} /\ keys \in SUBSET OwnKeys
      /\ \A k \in OwnKeys : held[k] \in Entry
  BY StoredEntryIsEntry DEF KeysOf, OwnStores
<1>3. ~ Absent.hasValue /\ Absent \in Entry
  BY StoredEntryIsEntry DEF Absent
<1>4. \A k \in KeysOf(c.self) \ (c.buffer \cup keys) : ~ Overrides(held[k], c.self[k])
  BY <1>a, <1>1, <1>2, <1>3
<1>5. b = [c EXCEPT !.buffer = c.buffer \cup keys]
  BY DEF bufferPublication
<1> HIDE DEF keys
<1>6. /\ b \in Caches /\ b.self = c.self /\ b.advertise = c.advertise /\ b.timer = c.timer
      /\ b.buffer = c.buffer \cup keys /\ b.bufferTimer = c.bufferTimer
  BY SMT, <1>1, <1>2, <1>5 DEF Caches
<1> HIDE DEF b
<1>7. CASE FloodLimited /\ ~token
  <2>1. d = [b EXCEPT !.bufferTimer = TRUE]
    BY <1>0, <1>7 DEF floodOwnPublication, b, keys
  <2>2. /\ d \in Caches /\ d.self = c.self /\ d.advertise = c.advertise /\ d.timer = c.timer
        /\ d.buffer = c.buffer \cup keys /\ d.bufferTimer
    BY <1>6, <2>1 DEF Caches
  <2>3. Scheduled(d)
    BY <1>7, <2>2 DEF Scheduled
  <2>4. Advertised(d, held)
    BY <2>2 DEF Advertised
  <2>5. Answered(d, held, d.buffer)
    BY <1>4, <2>2 DEF Answered
  <2>6. QED
    BY <2>2, <2>3, <2>4, <2>5 DEF Due
<1>8. CASE ~ (FloodLimited /\ ~token) /\ c.buffer # {}
  <2>1. d = floodBufferedUpdates(b, held)
    BY <1>0, <1>8 DEF floodOwnPublication, b, keys
  <2>2. Scheduled(b) /\ Advertised(b, held) /\ Answered(b, held, b.buffer)
    BY <1>4, <1>6, <1>8 DEF Scheduled, Advertised, Answered
  <2>3. /\ Scheduled(d) /\ Advertised(d, held) /\ Answered(d, held, {}) /\ d.buffer = {}
        /\ KeysOf(d.self) = KeysOf(b.self) /\ (Due(b) => Due(d))
        /\ \A k \in KeysOf(b.self) :
             \/ k \notin d.advertise \ b.advertise /\ d.self[k].version = b.self[k].version
             \/ Overrides(held[k], b.self[k])
    BY <2>1, <2>2, FloodBuffered
  <2>4. \A k \in KeysOf(c.self) : Overrides(held[k], c.self[k]) => k \in c.buffer \/ pub[k].hasValue
    BY <1>a
  <2>5. QED
    BY <1>6, <2>3, <2>4 DEF Due
<1>9. CASE ~ (FloodLimited /\ ~token) /\ c.buffer = {}
  <2>1. d = processPublicationForSelfOriginatedKey(c, pub)
    BY <1>0, <1>9 DEF floodOwnPublication
  <2>2. \A k \in KeysOf(c.self) : IF pub[k].hasValue THEN content(pub[k]) = content(held[k])
                                  ELSE ~ Overrides(held[k], c.self[k])
    BY <1>a, <1>1, <1>9
  <2>3. /\ Scheduled(d) /\ Advertised(d, held) /\ Answered(d, held, {})
        /\ KeysOf(d.self) = KeysOf(c.self) /\ d.buffer = c.buffer /\ (Due(c) => Due(d))
        /\ \A k \in KeysOf(c.self) :
             k \notin d.advertise \ c.advertise \/ (pub[k].hasValue /\ Overrides(held[k], c.self[k]))
        /\ \A k \in KeysOf(c.self) :
             d.self[k].version = c.self[k].version \/ (pub[k].hasValue /\ Overrides(held[k], c.self[k]))
    BY SMT, <2>1, <2>2, ProcessPublication
  <2>4. QED
    BY <1>9, <2>3
<1>10. QED
  BY <1>7, <1>8, <1>9

(* What is announced after a merge is what the store then holds. *)
LEMMA MergedContent ==
  ASSUME NEW cur \in StoredEntry, NEW e \in Entry, NEW sender, e.hasValue, IsMerged(cur, e, sender)
  PROVE  content(MergeEntry(cur, e, sender)) = content(e)
BY SMT, StoredEntryIsEntry DEF MergeEntry, IsMerged, getMergeType, isTtlUpdate, valueMergeType, isValidVersion,
       updateKvStoreTtl, content, Entry

(* Nothing with an invalid ttl is merged. *)
LEMMA MergeKeepsTtlValid ==
  ASSUME NEW cur \in StoredEntry, NEW e \in Entry, NEW sender, cur # Absent => isValidTtl(cur),
         MergeEntry(cur, e, sender) # Absent
  PROVE  isValidTtl(MergeEntry(cur, e, sender))
<1>1. cur \in Entry
  BY StoredEntryIsEntry
<1>2. CASE ~ IsMerged(cur, e, sender)
  BY <1>2 DEF MergeEntry
<1>3. CASE IsMerged(cur, e, sender)
  <2>1. isValidTtl(e)
    BY <1>3 DEF IsMerged
  <2>2. MergeEntry(cur, e, sender) = e \/ MergeEntry(cur, e, sender) = [cur EXCEPT !.ttl = e.ttl, !.ttlVersion = e.ttlVersion]
    BY <1>3 DEF MergeEntry, updateKvStoreTtl
  <2>3. [cur EXCEPT !.ttl = e.ttl, !.ttlVersion = e.ttlVersion].ttl = e.ttl
    BY <1>1 DEF Entry
  <2>4. QED
    BY <2>1, <2>2, <2>3 DEF isValidTtl
<1>4. QED
  BY <1>2, <1>3

(* mergeKeyValues, key by key. *)
LEMMA MergeOwn ==
  ASSUME ownStore \in OwnStores, NEW pub \in [OwnKeys -> Entry],
         NEW r, r = mergeKeyValues(ownStore, pub, NoNode)
  PROVE  /\ r.store \in OwnStores /\ r.keyVals \in [OwnKeys -> Entry]
         /\ KeysOf(r.keyVals) = {k \in OwnKeys : r.keyVals[k] # Absent}
         /\ \A k \in OwnKeys :
              /\ r.store[k] \in Entry /\ ownStore[k] \in Entry
              /\ r.store[k].version >= ownStore[k].version
              /\ r.keyVals[k] \in {Absent, pub[k]}
              /\ k \notin KeysOf(r.keyVals) => r.store[k] = ownStore[k]
              /\ r.keyVals[k].hasValue => content(r.keyVals[k]) = content(r.store[k])
              /\ ~pub[k].hasValue => /\ content(r.store[k]) = content(ownStore[k])
                                     /\ r.store[k].hasValue => ownStore[k].hasValue
              /\ pub[k].hasValue /\ pub[k].version > 0 /\ isValidTtl(pub[k]) => AtLeast(r.store[k], pub[k])
<1>1. ownStore \in [OwnKeys -> StoredEntry] /\ \A k \in OwnKeys : ownStore[k] # Absent => isValidTtl(ownStore[k])
  BY DEF OwnStores
<1>2. /\ r.store = [k \in OwnKeys |-> MergeEntry(ownStore[k], pub[k], NoNode)]
      /\ r.keyVals = [k \in OwnKeys |-> IF IsMerged(ownStore[k], pub[k], NoNode) THEN pub[k] ELSE Absent]
  BY <1>1 DEF mergeKeyValues
<1>3. \A k \in OwnKeys :
        /\ r.store[k] = MergeEntry(ownStore[k], pub[k], NoNode)
        /\ r.keyVals[k] = IF IsMerged(ownStore[k], pub[k], NoNode) THEN pub[k] ELSE Absent
        /\ ownStore[k] \in StoredEntry /\ ownStore[k] \in Entry /\ pub[k] \in Entry /\ Absent \in Entry
  BY <1>1, <1>2, StoredEntryIsEntry
<1>4. \A k \in OwnKeys : r.store[k] \in StoredEntry /\ (r.store[k] # Absent => isValidTtl(r.store[k]))
  BY <1>1, <1>3, MergeAnyEntry, MergeKeepsTtlValid
<1>5. r.store \in [OwnKeys -> StoredEntry] /\ r.keyVals \in [OwnKeys -> Entry]
  BY <1>2, <1>3, <1>4
<1>6. r.store \in OwnStores /\ KeysOf(r.keyVals) = {k \in OwnKeys : r.keyVals[k] # Absent}
  BY <1>4, <1>5 DEF OwnStores, KeysOf
<1>7. ASSUME NEW k \in OwnKeys
      PROVE  /\ r.store[k] \in Entry
             /\ r.store[k].version >= ownStore[k].version
             /\ r.keyVals[k] \in {Absent, pub[k]}
             /\ k \notin KeysOf(r.keyVals) => r.store[k] = ownStore[k]
             /\ r.keyVals[k].hasValue => content(r.keyVals[k]) = content(r.store[k])
             /\ ~pub[k].hasValue => /\ content(r.store[k]) = content(ownStore[k])
                                    /\ r.store[k].hasValue => ownStore[k].hasValue
             /\ pub[k].hasValue /\ pub[k].version > 0 /\ isValidTtl(pub[k]) => AtLeast(r.store[k], pub[k])
  <2>1. r.store[k] \in Entry
    BY <1>4, StoredEntryIsEntry
  <2>2. r.store[k] = ownStore[k] \/ Newer(r.store[k], ownStore[k])
    BY <1>3, MergeAnyEntry
  <2>3. r.store[k].version >= ownStore[k].version
    BY SMT, <1>3, <2>1, <2>2 DEF Newer, NewerContent, content, Entry
  <2>4. k \notin KeysOf(r.keyVals) => r.store[k] = ownStore[k]
    <3>1. SUFFICES ASSUME r.keyVals[k] = Absent PROVE r.store[k] = ownStore[k]
      BY <1>6
    <3>2. ~ IsMerged(ownStore[k], pub[k], NoNode)
      BY <1>3, <3>1 DEF IsMerged
    <3>3. QED
      BY <1>3, <3>2 DEF MergeEntry
  <2>5. r.keyVals[k].hasValue => content(r.keyVals[k]) = content(r.store[k])
    <3>1. SUFFICES ASSUME r.keyVals[k].hasValue PROVE content(r.keyVals[k]) = content(r.store[k])
      OBVIOUS
    <3>2. IsMerged(ownStore[k], pub[k], NoNode) /\ r.keyVals[k] = pub[k]
      BY SMT, <1>3, <3>1 DEF Absent
    <3>3. QED
      BY SMT, <1>3, <3>1, <3>2, MergedContent
  <2>6. ASSUME ~pub[k].hasValue
        PROVE  content(r.store[k]) = content(ownStore[k]) /\ (r.store[k].hasValue => ownStore[k].hasValue)
    <3>1. content(r.store[k]) = content(ownStore[k]) /\ (ownStore[k] = Absent => r.store[k] = Absent)
      BY SMT, <1>3, <2>6, MergeTtlEntry
    <3>2. ownStore[k] # Absent => ownStore[k].hasValue
      BY <1>3 DEF StoredEntry
    <3>3. ~ Absent.hasValue
      BY DEF Absent
    <3>4. QED
      BY <3>1, <3>2, <3>3
  <2>7. ASSUME pub[k].hasValue, pub[k].version > 0, isValidTtl(pub[k]) PROVE AtLeast(r.store[k], pub[k])
    BY <1>3, <2>7, MergeValueEntry
  <2>8. QED
    BY <1>3, <2>1, <2>3, <2>4, <2>5, <2>6, <2>7
<1>8. QED
  BY <1>3, <1>5, <1>6, <1>7

(* What is left, m, when a publication that merges into r is merged and flooded with the cache c. *)
MergedAndFlooded(c, r, m) ==
  /\ m.store = r.store /\ m.store \in OwnStores
  /\ Scheduled(m.cache) /\ Advertised(m.cache, m.store) /\ Answered(m.cache, m.store, m.cache.buffer)
  /\ KeysOf(m.cache.self) = KeysOf(c.self) /\ (Due(c) => Due(m.cache))
  /\ \A k \in KeysOf(c.self) :
       \/ k \notin m.cache.advertise \ c.advertise /\ m.cache.self[k].version = c.self[k].version
       \/ /\ Overrides(r.store[k], c.self[k]) /\ KeysOf(r.keyVals) # {}
          /\ k \in c.buffer \/ r.keyVals[k].hasValue

(* mergePublication: what an own or a received publication does to store and cache. *)
LEMMA MergeOwnPublication ==
  ASSUME ownStore \in OwnStores, NEW c, Scheduled(c), NEW pub \in [OwnKeys -> Entry], NEW token \in Tokens,
         Advertised(c, mergeKeyValues(ownStore, pub, NoNode).store), Answered(c, ownStore, c.buffer)
  PROVE  MergedAndFlooded(c, mergeKeyValues(ownStore, pub, NoNode), mergeOwnPublication(c, pub, token))
<1>r. PICK r : r = mergeKeyValues(ownStore, pub, NoNode)
  OBVIOUS
<1>m. PICK m : m = mergeOwnPublication(c, pub, token)
  OBVIOUS
<1>a. Advertised(c, r.store)
  BY <1>r
<1>g. SUFFICES
        /\ m.store = r.store /\ m.store \in OwnStores
        /\ Scheduled(m.cache) /\ Advertised(m.cache, m.store) /\ Answered(m.cache, m.store, m.cache.buffer)
        /\ KeysOf(m.cache.self) = KeysOf(c.self) /\ (Due(c) => Due(m.cache))
        /\ \A k \in KeysOf(c.self) :
             \/ k \notin m.cache.advertise \ c.advertise /\ m.cache.self[k].version = c.self[k].version
             \/ /\ Overrides(r.store[k], c.self[k]) /\ KeysOf(r.keyVals) # {}
                /\ k \in c.buffer \/ r.keyVals[k].hasValue
  BY <1>r, <1>m DEF MergedAndFlooded
<1>1. /\ r.store \in OwnStores /\ r.keyVals \in [OwnKeys -> Entry]
      /\ KeysOf(r.keyVals) = {k \in OwnKeys : r.keyVals[k] # Absent}
      /\ \A k \in OwnKeys :
              /\ r.store[k] \in Entry /\ ownStore[k] \in Entry
              /\ r.keyVals[k] \in {Absent, pub[k]}
              /\ k \notin KeysOf(r.keyVals) => r.store[k] = ownStore[k]
              /\ r.keyVals[k].hasValue => content(r.keyVals[k]) = content(r.store[k])
              /\ ~pub[k].hasValue => /\ content(r.store[k]) = content(ownStore[k])
                                     /\ r.store[k].hasValue => ownStore[k].hasValue
  BY SMT, <1>r, MergeOwn
<1>2. /\ m.store = r.store
      /\ m.cache = IF KeysOf(r.keyVals) = {} THEN c ELSE floodOwnPublication(c, r.store, r.keyVals, {}, token)
  BY <1>r, <1>m DEF mergeOwnPublication
<1>3. KeysOf(c.self) \subseteq OwnKeys /\ \A k \in KeysOf(c.self) : c.self[k] \in Entry
  BY CacheFields
<1>4. \A k \in KeysOf(c.self) \ c.buffer : r.keyVals[k].hasValue \/ ~ Overrides(r.store[k], c.self[k])
  <2>1. SUFFICES ASSUME NEW k \in KeysOf(c.self) \ c.buffer, ~ r.keyVals[k].hasValue, Overrides(r.store[k], c.self[k])
                 PROVE  FALSE
    OBVIOUS
  <2>2. k \in OwnKeys /\ ~ Overrides(ownStore[k], c.self[k]) /\ r.store[k].hasValue
    BY <1>3, <2>1 DEF Answered, Overrides
  <2>3. CASE r.keyVals[k] = Absent
    BY <1>1, <2>1, <2>2, <2>3
  <2>4. CASE r.keyVals[k] = pub[k]
    <3>1. content(r.store[k]) = content(ownStore[k]) /\ ownStore[k].hasValue
      BY <1>1, <2>1, <2>2, <2>4
    <3>2. QED
      BY <1>1, <1>3, <2>1, <2>2, <3>1, OverridesByContent
  <2>5. QED
    BY <1>1, <2>2, <2>3, <2>4
<1>5. CASE KeysOf(r.keyVals) = {}
  <2>1. m.cache = c /\ \A k \in OwnKeys : r.store[k] = ownStore[k]
    BY <1>1, <1>2, <1>5
  <2>2. Answered(c, r.store, c.buffer)
    BY <1>3, <2>1 DEF Answered
  <2>3. QED
    BY <1>1, <1>2, <1>a, <2>1, <2>2
<1>6. CASE KeysOf(r.keyVals) # {}
  <2> DEFINE d == floodOwnPublication(c, r.store, r.keyVals, {}, token)
  <2>1. m.cache = d
    BY <1>2, <1>6
  <2>a. Reports(r.keyVals, c, r.store)
    BY <1>1, <1>4 DEF Reports
  <2>b. {} \in SUBSET OwnKeys
    OBVIOUS
  <2>c. Flooded(c, r.store, r.keyVals, d)
    BY <1>1, <1>a, <2>a, <2>b, FloodOwnPublication
  <2>2. /\ Scheduled(d) /\ Advertised(d, r.store) /\ Answered(d, r.store, d.buffer)
        /\ KeysOf(d.self) = KeysOf(c.self) /\ (Due(c) => Due(d))
        /\ \A k \in KeysOf(c.self) :
              \/ k \notin d.advertise \ c.advertise /\ d.self[k].version = c.self[k].version
              \/ Overrides(r.store[k], c.self[k]) /\ (k \in c.buffer \/ r.keyVals[k].hasValue)
    BY <2>c DEF Flooded
  <2> HIDE DEF d
  <2>3. QED
    BY <1>1, <1>2, <1>6, <2>1, <2>2
<1>7. QED
  BY <1>5, <1>6

-----------------------------------------------------------------------------
(* What a callback leaves behind. *)
LEMMA Committed ==
  ASSUME NEW d \in Caches, Commit(d)
  PROVE  Cache' = d
BY SMT DEF Commit, Cache, Caches

(* The parts of the cache. *)
LEMMA CacheParts ==
  /\ Cache.self = selfOriginated /\ Cache.advertise = keysToAdvertise /\ Cache.timer = advertiseTimer
  /\ Cache.buffer = publicationBuffer /\ Cache.bufferTimer = publicationTimer
BY DEF Cache

(* Values this node writes. *)
LEMMA OwnValue ==
  ASSUME NEW version \in Nat, NEW value \in Nat
  PROVE  /\ Value(version + 1, value) \in Entry /\ Value(version + 1, value) \in StoredEntry
         /\ Value(version + 1, value) # Absent /\ isValidTtl(Value(version + 1, value))
         /\ Value(version + 1, value).version = version + 1
         /\ Value(version + 1, value).originatorId = Me /\ Value(version + 1, value).hasValue
<1>1. Me \in Nat
  BY OwnNodesAssumption
<1>2. QED
  BY SMT, <1>1 DEF Value, Entry, StoredEntry, Absent, isValidTtl, TtlInfinity

(* A step that leaves a sound store and cache, and does not touch what is to be unset. *)
LEMMA StepOfCache ==
  ASSUME SelfInv, NEW d, Cache' = d, ownStore' \in OwnStores,
         Scheduled(d), Due(d), Advertised(d, ownStore'), Answered(d, ownStore', d.buffer),
         keyBackoff' \subseteq KeysOf(d.self), UNCHANGED <<keysToUnset, unsetTimer>>, aborted' \in BOOLEAN
  PROVE  SelfInv'
<1>1. selfOriginated' = d.self /\ publicationBuffer' = d.buffer
  BY DEF Cache
<1>2. keysToUnset' = keysToUnset /\ unsetTimer' = unsetTimer
  OBVIOUS
<1>3. QED
  BY SMT, <1>1, <1>2 DEF SelfInv

(* A publication about one key. *)
LEMMA OneKeyPublication ==
  ASSUME NEW k \in OwnKeys, NEW e \in Entry
  PROVE  /\ [NoOwnKeyVals EXCEPT ![k] = e] \in [OwnKeys -> Entry]
         /\ [NoOwnKeyVals EXCEPT ![k] = e][k] = e
BY StoredEntryIsEntry DEF NoOwnKeyVals

(* persistSelfOriginatedKey. *)
LEMMA PersistStep ==
  ASSUME SelfInv, NEW k \in OwnKeys, NEW value \in Values, PersistSelfOriginatedKey(k, value)
  PROVE  SelfInv'
<1> DEFINE cached == selfOriginated[k]
           known == IF cached # Absent THEN cached ELSE ownStore[k]
           override == known = Absent \/ known.originatorId # Me \/ known.value # value
           new == IF override THEN Value(known.version + 1, value) ELSE known
           unchanged == cached # Absent /\ cached.value = value
           d == [Cache EXCEPT !.self = [selfOriginated EXCEPT ![k] = new],
                              !.advertise = keysToAdvertise \cup (IF override THEN {k} ELSE {}),
                              !.timer = TRUE]
<1>1. /\ ownStore' = ownStore /\ keysToUnset' = keysToUnset /\ unsetTimer' = unsetTimer /\ aborted' = aborted
      /\ publicationBuffer' = publicationBuffer /\ publicationTimer' = publicationTimer
  BY DEF PersistSelfOriginatedKey
<1>2. /\ Scheduled(Cache) /\ Due(Cache) /\ Advertised(Cache, ownStore) /\ Answered(Cache, ownStore, publicationBuffer)
      /\ aborted \in BOOLEAN /\ keyBackoff \subseteq KeysOf(selfOriginated)
  BY DEF SelfInv
<1>3. CASE unchanged
  <2>1. UNCHANGED <<selfOriginated, keyBackoff, keysToAdvertise, advertiseTimer>>
    BY <1>3 DEF PersistSelfOriginatedKey
  <2>2. Cache' = Cache
    BY <1>1, <2>1 DEF Cache
  <2>3. QED
    BY <1>1, <1>2, <2>1, <2>2, StepOfCache, CacheParts DEF SelfInv
<1>4. CASE ~unchanged
  <2>1. /\ selfOriginated' = [selfOriginated EXCEPT ![k] = new] /\ keyBackoff' = keyBackoff \cup {k}
        /\ keysToAdvertise' = keysToAdvertise \cup (IF override THEN {k} ELSE {}) /\ advertiseTimer' = TRUE
    BY <1>4 DEF PersistSelfOriginatedKey
  <2>2. /\ selfOriginated \in [OwnKeys -> StoredEntry] /\ ownStore \in [OwnKeys -> StoredEntry]
        /\ \A j \in OwnKeys : /\ selfOriginated[j] # Absent => isValidTtl(selfOriginated[j])
                              /\ ownStore[j] # Absent => isValidTtl(ownStore[j])
    BY CacheFields, CacheParts DEF SelfInv, OwnStores
  <2>3. /\ known \in StoredEntry /\ known \in Entry /\ known.version \in Nat /\ value \in Nat
        /\ ownStore[k] \in StoredEntry /\ ownStore[k] \in Entry /\ cached \in StoredEntry /\ cached \in Entry
    BY SMT, <2>2, StoredEntryIsEntry, ValuesAssumption DEF Entry
  <2>4. ASSUME ~override PROVE new = ownStore[k] /\ ownStore[k] # Absent /\ ownStore[k].originatorId = Me
    BY <1>4, <2>4
  <2>5. ASSUME override PROVE new = Value(known.version + 1, value)
    BY <2>5
  <2>6. new \in StoredEntry /\ new # Absent /\ isValidTtl(new) /\ new.originatorId = Me /\ new \in Entry
    <3>1. CASE override
      BY <2>3, <2>5, <3>1, OwnValue
    <3>2. CASE ~override
      BY <2>2, <2>3, <2>4, <3>2
    <3>3. QED
      BY <3>1, <3>2
  <2>7. k \in publicationBuffer \/ ~ Overrides(ownStore[k], new)
    <3>1. SUFFICES ASSUME k \notin publicationBuffer PROVE ~ Overrides(ownStore[k], new)
      OBVIOUS
    <3>2. CASE override
      <4>1. new.version = known.version + 1
        BY <2>3, <2>5, <3>2, OwnValue
      <4>2. CASE cached # Absent
        <5>1. k \in KeysOf(selfOriginated)
          BY <2>2, <4>2 DEF KeysOf
        <5>2. ~ Overrides(ownStore[k], cached)
          BY <1>2, <3>1, <5>1, CacheParts DEF Answered
        <5>3. known = cached
          BY <4>2
        <5> HIDE DEF known, new, override, unchanged, d
        <5>4. QED
          BY SMT, <2>3, <4>1, <4>2, <5>2, <5>3 DEF Overrides, Entry
      <4>3. CASE cached = Absent
        <5>1. known = ownStore[k]
          BY <4>3
        <5> HIDE DEF known, new, override, unchanged, d, cached
        <5>2. QED
          BY SMT, <2>3, <2>6, <4>1, <5>1 DEF Overrides, Entry
      <4>4. QED
        BY <4>2, <4>3
    <3>3. CASE ~override
      BY <2>3, <2>4, <3>3, SameContentNoOverride
    <3>4. QED
      BY <3>2, <3>3
  <2> HIDE DEF new, override, known, unchanged, cached
  <2>8. [selfOriginated EXCEPT ![k] = new] \in OwnStores
        /\ KeysOf([selfOriginated EXCEPT ![k] = new]) = KeysOf(selfOriginated) \cup {k}
    BY <2>2, <2>6 DEF OwnStores, KeysOf
  <2>9. /\ d \in Caches /\ d.self = selfOriginated' /\ d.advertise = keysToAdvertise' /\ d.timer
        /\ d.buffer = publicationBuffer /\ d.bufferTimer = publicationTimer /\ Cache' = d
    <3>1. Cache \in Caches /\ keysToAdvertise \subseteq OwnKeys
      BY SMT, <1>2, CacheParts DEF Scheduled, Caches
    <3>2. keysToAdvertise \cup (IF override THEN {k} ELSE {}) \in SUBSET OwnKeys
      BY <3>1
    <3>3. /\ d \in Caches /\ d.self = selfOriginated' /\ d.advertise = keysToAdvertise' /\ d.timer = TRUE
          /\ d.buffer = publicationBuffer /\ d.bufferTimer = publicationTimer
      BY <2>1, <2>8, <3>1, <3>2, CacheParts DEF Caches
    <3>4. Commit(d)
      BY <1>1, <2>1, <3>3 DEF Commit
    <3>5. QED
      BY <3>3, <3>4, Committed
  <2> HIDE DEF d
  <2>10. Scheduled(d) /\ Due(d)
    BY <1>2, <2>1, <2>8, <2>9, CacheParts DEF Scheduled, Due
  <2>11. Advertised(d, ownStore)
    <3>1. SUFFICES ASSUME NEW j \in KeysOf(selfOriginated) \cup {k}
                   PROVE  /\ selfOriginated'[j].originatorId = Me
                          /\ j \notin keysToAdvertise' => ownStore[j].version >= selfOriginated'[j].version
      BY <2>1, <2>8, <2>9 DEF Advertised
    <3>2. CASE j = k
      <4>1. selfOriginated'[j] = new
        BY <2>1, <2>2, <3>2
      <4>2. override => j \in keysToAdvertise'
        BY <2>1, <3>2
      <4>3. ~override => ownStore[j].version >= selfOriginated'[j].version
        BY SMT, <2>3, <2>4, <3>2, <4>1 DEF Entry
      <4>4. QED
        BY <2>6, <4>1, <4>2, <4>3
    <3>3. CASE j # k
      <4>1. selfOriginated'[j] = selfOriginated[j] /\ j \in KeysOf(selfOriginated)
        BY <2>1, <2>2, <3>1, <3>3 DEF KeysOf
      <4>2. QED
        BY <1>2, <2>1, <4>1, CacheParts DEF Advertised
    <3>4. QED
      BY <3>2, <3>3
  <2>12. Answered(d, ownStore, d.buffer)
    <3>1. SUFFICES ASSUME NEW j \in (KeysOf(selfOriginated) \cup {k}) \ publicationBuffer
                   PROVE  ~ Overrides(ownStore[j], selfOriginated'[j])
      BY <2>1, <2>8, <2>9 DEF Answered
    <3>2. CASE j = k
      BY <2>1, <2>2, <2>7, <3>2
    <3>3. CASE j # k
      <4>1. selfOriginated'[j] = selfOriginated[j] /\ j \in KeysOf(selfOriginated)
        BY <2>1, <2>2, <3>1, <3>3 DEF KeysOf
      <4>2. QED
        BY <1>2, <4>1, CacheParts DEF Answered
    <3>4. QED
      BY <3>2, <3>3
  <2>13. keyBackoff' \subseteq KeysOf(d.self)
    BY <1>2, <2>1, <2>8, <2>9
  <2>14. ownStore' \in OwnStores
    BY <1>1 DEF SelfInv
  <2>15. QED
    BY <1>1, <1>2, <2>9, <2>10, <2>11, <2>12, <2>13, <2>14, StepOfCache
<1>5. QED
  BY <1>3, <1>4

(* setSelfOriginatedKey. *)
LEMMA SetStep ==
  ASSUME SelfInv, NEW k \in OwnKeys, NEW value \in Values, NEW token \in Tokens,
         SetSelfOriginatedKey(k, value, token)
  PROVE  SelfInv'
<1> DEFINE e == Value(ownStore[k].version + 1, value)
           c == [Cache EXCEPT !.self[k] = e]
           pub == [NoOwnKeyVals EXCEPT ![k] = e]
           r == mergeKeyValues(ownStore, pub, NoNode)
           m == mergeOwnPublication(c, pub, token)
<1>1. /\ ownStore' = m.store /\ Commit(m.cache) /\ keyBackoff' = keyBackoff \ {k}
      /\ UNCHANGED <<keysToUnset, unsetTimer>> /\ aborted' = aborted
  BY DEF SetSelfOriginatedKey
<1>2. /\ Scheduled(Cache) /\ Due(Cache) /\ Advertised(Cache, ownStore) /\ Answered(Cache, ownStore, publicationBuffer)
      /\ aborted \in BOOLEAN /\ keyBackoff \subseteq KeysOf(selfOriginated) /\ ownStore \in OwnStores
  BY DEF SelfInv
<1>3. /\ selfOriginated \in [OwnKeys -> StoredEntry] /\ ownStore \in [OwnKeys -> StoredEntry]
      /\ \A j \in OwnKeys : selfOriginated[j] # Absent => isValidTtl(selfOriginated[j])
      /\ Cache \in Caches
  BY <1>2, CacheFields, CacheParts DEF OwnStores, Scheduled
<1>4. ownStore[k] \in Entry /\ ownStore[k].version \in Nat /\ value \in Nat
  BY SMT, <1>3, StoredEntryIsEntry, ValuesAssumption DEF Entry
<1>5. /\ e \in Entry /\ e \in StoredEntry /\ e # Absent /\ isValidTtl(e)
      /\ e.version = ownStore[k].version + 1 /\ e.originatorId = Me /\ e.hasValue
  BY <1>4, OwnValue
<1> HIDE DEF e
<1>6. pub \in [OwnKeys -> Entry] /\ pub[k] = e
  BY <1>5, OneKeyPublication
<1>7. /\ c = [Cache EXCEPT !.self = [selfOriginated EXCEPT ![k] = e]]
      /\ [selfOriginated EXCEPT ![k] = e] \in OwnStores
      /\ KeysOf([selfOriginated EXCEPT ![k] = e]) = KeysOf(selfOriginated) \cup {k}
  BY <1>3, <1>5, CacheParts DEF OwnStores, KeysOf
<1>8. /\ c \in Caches /\ c.self = [selfOriginated EXCEPT ![k] = e] /\ c.advertise = keysToAdvertise
      /\ c.timer = advertiseTimer /\ c.buffer = publicationBuffer /\ c.bufferTimer = publicationTimer
  BY <1>3, <1>7, CacheParts DEF Caches
<1> HIDE DEF c, pub, r
<1>9. Scheduled(c) /\ Due(c)
  BY <1>2, <1>7, <1>8, CacheParts DEF Scheduled, Due
<1>10. \A j \in OwnKeys : r.store[j] \in Entry /\ ownStore[j] \in Entry /\ r.store[j].version >= ownStore[j].version
  BY <1>2, <1>6, MergeOwn DEF r
<1>11. r.store[k].version >= e.version
  <2>1. e.version > 0
    BY SMT, <1>4, <1>5
  <2>2. AtLeast(r.store[k], e)
    BY <1>2, <1>5, <1>6, <2>1, MergeOwn DEF r
  <2>3. QED
    BY SMT, <1>5, <1>10, <2>2 DEF AtLeast, NewerContent, content, Entry
<1>12. Advertised(c, r.store)
  <2>1. SUFFICES ASSUME NEW j \in KeysOf(selfOriginated) \cup {k}
                 PROVE  /\ c.self[j].originatorId = Me
                        /\ j \notin keysToAdvertise => r.store[j].version >= c.self[j].version
    BY <1>7, <1>8 DEF Advertised
  <2>2. CASE j = k
    BY <1>3, <1>5, <1>8, <1>11, <2>2
  <2>3. CASE j # k
    <3>1. c.self[j] = selfOriginated[j] /\ j \in KeysOf(selfOriginated) /\ j \in OwnKeys /\ selfOriginated[j] \in Entry
      BY <1>3, <1>8, <2>1, <2>3, StoredEntryIsEntry DEF KeysOf
    <3>2. c.self[j].originatorId = Me /\ (j \notin keysToAdvertise => ownStore[j].version >= c.self[j].version)
      BY <1>2, <3>1, CacheParts DEF Advertised
    <3>3. r.store[j].version >= ownStore[j].version
      BY <1>10, <3>1
    <3>4. QED
      BY SMT, <1>10, <3>1, <3>2, <3>3 DEF Entry
  <2>4. QED
    BY <2>2, <2>3
<1>13. Answered(c, ownStore, c.buffer)
  <2>1. SUFFICES ASSUME NEW j \in (KeysOf(selfOriginated) \cup {k}) \ publicationBuffer
                 PROVE  ~ Overrides(ownStore[j], c.self[j])
    BY <1>7, <1>8 DEF Answered
  <2>2. CASE j = k
    <3>1. c.self[j] = e
      BY <1>3, <1>8, <2>2
    <3>2. QED
      BY SMT, <1>4, <1>5, <2>2, <3>1 DEF Overrides, Entry
  <2>3. CASE j # k
    <3>1. c.self[j] = selfOriginated[j] /\ j \in KeysOf(selfOriginated)
      BY <1>3, <1>8, <2>1, <2>3 DEF KeysOf
    <3>2. QED
      BY <1>2, <2>1, <3>1, CacheParts DEF Answered
  <2>4. QED
    BY <2>2, <2>3
<1>14. /\ m.store \in OwnStores
       /\ Scheduled(m.cache) /\ Advertised(m.cache, m.store) /\ Answered(m.cache, m.store, m.cache.buffer)
       /\ KeysOf(m.cache.self) = KeysOf(c.self) /\ Due(m.cache)
  <2>1. MergedAndFlooded(c, r, m)
    BY <1>2, <1>6, <1>9, <1>12, <1>13, MergeOwnPublication DEF r, m
  <2>2. QED
    BY <1>9, <2>1 DEF MergedAndFlooded
<1> HIDE DEF m
<1>15. Cache' = m.cache
  BY <1>1, <1>14, Committed DEF Scheduled
<1>16. keyBackoff' \subseteq KeysOf(m.cache.self)
  BY <1>1, <1>2, <1>7, <1>8, <1>14
<1>17. QED
  BY <1>1, <1>2, <1>14, <1>15, <1>16, StepOfCache

(* eraseSelfOriginatedKey, and unsetSelfOriginatedKey with the value to unset. *)
LEMMA EraseStep ==
  ASSUME SelfInv, NEW k \in OwnKeys, EraseSelfOriginatedKey(k) \/ UnsetSelfOriginatedKey(k)
  PROVE  SelfInv'
<1> DEFINE self == [selfOriginated EXCEPT ![k] = Absent]
           d == [Cache EXCEPT !.self = self, !.advertise = keysToAdvertise \ {k}]
<1>1. /\ selfOriginated' = self /\ keyBackoff' = keyBackoff \ {k} /\ keysToAdvertise' = keysToAdvertise \ {k}
      /\ ownStore' = ownStore /\ advertiseTimer' = advertiseTimer /\ publicationBuffer' = publicationBuffer
      /\ publicationTimer' = publicationTimer /\ aborted' = aborted
  BY DEF EraseSelfOriginatedKey, UnsetSelfOriginatedKey, eraseSelfOriginatedKey
<1>2. /\ Scheduled(Cache) /\ Due(Cache) /\ Advertised(Cache, ownStore) /\ Answered(Cache, ownStore, publicationBuffer)
      /\ aborted \in BOOLEAN /\ keyBackoff \subseteq KeysOf(selfOriginated) /\ ownStore \in OwnStores
  BY DEF SelfInv
<1>3. /\ selfOriginated \in [OwnKeys -> StoredEntry] /\ ownStore \in [OwnKeys -> StoredEntry]
      /\ \A j \in OwnKeys : selfOriginated[j] # Absent => isValidTtl(selfOriginated[j])
      /\ Cache \in Caches
  BY <1>2, CacheFields, CacheParts DEF OwnStores, Scheduled
<1>4. /\ self \in OwnStores /\ KeysOf(self) = KeysOf(selfOriginated) \ {k}
      /\ \A j \in KeysOf(self) : self[j] = selfOriginated[j]
  BY <1>3, StoredEntryIsEntry DEF OwnStores, KeysOf
<1> HIDE DEF self
<1>5. keysToAdvertise \subseteq KeysOf(selfOriginated) /\ keysToAdvertise \in SUBSET OwnKeys
  BY <1>2, <1>3, CacheParts DEF Scheduled, KeysOf
<1>6. keysToAdvertise \ {k} \in SUBSET OwnKeys
  BY <1>5
<1>7. /\ d \in Caches /\ d.self = self /\ d.advertise = keysToAdvertise \ {k} /\ d.timer = advertiseTimer
      /\ d.buffer = publicationBuffer /\ d.bufferTimer = publicationTimer
  BY <1>3, <1>4, <1>6, CacheParts DEF Caches
<1> HIDE DEF d
<1>8. Cache' = d
  <2>1. Commit(d)
    BY <1>1, <1>7 DEF Commit
  <2>2. QED
    BY <1>7, <2>1, Committed
<1>9. Scheduled(d) /\ Due(d)
  BY <1>2, <1>4, <1>5, <1>7, CacheParts DEF Scheduled, Due
<1>10. Advertised(d, ownStore)
  BY <1>2, <1>4, <1>7, CacheParts DEF Advertised
<1>11. Answered(d, ownStore, d.buffer)
  BY <1>2, <1>4, <1>7, CacheParts DEF Answered
<1>12. keysToUnset' \in [OwnKeys -> StoredEntry] /\ unsetTimer' \in BOOLEAN
       /\ (KeysOf(keysToUnset') # {} => unsetTimer')
  <2>1. /\ keysToUnset \in [OwnKeys -> StoredEntry] /\ unsetTimer \in BOOLEAN
        /\ KeysOf(keysToUnset) # {} => unsetTimer
    BY DEF SelfInv
  <2>2. CASE UNCHANGED <<keysToUnset, unsetTimer>>
    BY <2>1, <2>2
  <2>3. CASE ~ UNCHANGED <<keysToUnset, unsetTimer>>
    <3>1. /\ keysToUnset' = [keysToUnset EXCEPT ![k] =
                               IF keysToUnset[k] # Absent THEN keysToUnset[k]
                               ELSE Value(ownStore[k].version + 1, Marker)]
          /\ unsetTimer' = TRUE
      BY <2>1, <2>3 DEF EraseSelfOriginatedKey, UnsetSelfOriginatedKey
    <3>2. ownStore[k].version \in Nat /\ Marker \in Nat
      BY SMT, <1>3, StoredEntryIsEntry, ValuesAssumption DEF Entry
    <3>3. Value(ownStore[k].version + 1, Marker) \in StoredEntry
      BY <3>2, OwnValue
    <3>4. QED
      BY <2>1, <3>1, <3>3
  <2>4. QED
    BY <2>2, <2>3
<1>13. selfOriginated' = d.self /\ publicationBuffer' = d.buffer
  BY <1>1, <1>7
<1>14. keyBackoff' \subseteq KeysOf(d.self)
  BY <1>1, <1>2, <1>4, <1>7
<1>15. QED
  BY <1>1, <1>2, <1>8, <1>9, <1>10, <1>11, <1>12, <1>13, <1>14 DEF SelfInv

(* The store only moves to higher versions, so what was advertised stays so. *)
LEMMA StaysAdvertised ==
  ASSUME ownStore \in OwnStores, NEW c, Scheduled(c), Advertised(c, ownStore),
         NEW pub \in [OwnKeys -> Entry], NEW r, r = mergeKeyValues(ownStore, pub, NoNode)
  PROVE  Advertised(c, r.store)
<1>1. SUFFICES ASSUME NEW k \in KeysOf(c.self)
               PROVE  c.self[k].originatorId = Me /\ (k \notin c.advertise => r.store[k].version >= c.self[k].version)
  BY DEF Advertised
<1>2. c.self[k].originatorId = Me /\ (k \notin c.advertise => ownStore[k].version >= c.self[k].version)
  BY DEF Advertised
<1>3. k \in OwnKeys /\ c.self[k] \in Entry
  BY CacheFields
<1>4. r.store[k] \in Entry /\ ownStore[k] \in Entry /\ r.store[k].version >= ownStore[k].version
  BY <1>3, MergeOwn
<1>5. QED
  BY SMT, <1>2, <1>3, <1>4 DEF Entry

(* A publication that leaves the cache to mergePublication: from the network, or of keys to unset. *)
LEMMA PublicationMerged ==
  ASSUME SelfInv, NEW pub \in [OwnKeys -> Entry], NEW token \in Tokens,
         NEW m, m = mergeOwnPublication(Cache, pub, token), ownStore' = m.store, Commit(m.cache)
  PROVE  /\ Cache' = m.cache /\ ownStore' \in OwnStores /\ Scheduled(m.cache) /\ Due(m.cache)
         /\ Advertised(m.cache, ownStore') /\ Answered(m.cache, ownStore', m.cache.buffer)
         /\ KeysOf(m.cache.self) = KeysOf(selfOriginated)
<1> DEFINE r == mergeKeyValues(ownStore, pub, NoNode)
<1>1. /\ Scheduled(Cache) /\ Due(Cache) /\ Advertised(Cache, ownStore) /\ ownStore \in OwnStores
      /\ Answered(Cache, ownStore, Cache.buffer)
  BY CacheParts DEF SelfInv
<1>2. Advertised(Cache, r.store)
  BY <1>1, StaysAdvertised
<1>3. /\ m.store \in OwnStores
      /\ Scheduled(m.cache) /\ Advertised(m.cache, m.store) /\ Answered(m.cache, m.store, m.cache.buffer)
      /\ KeysOf(m.cache.self) = KeysOf(Cache.self) /\ (Due(Cache) => Due(m.cache))
  <2>1. MergedAndFlooded(Cache, r, m)
    BY <1>1, <1>2, MergeOwnPublication
  <2>2. QED
    BY <2>1 DEF MergedAndFlooded
<1>4. Cache' = m.cache
  BY <1>3, Committed DEF Scheduled
<1>5. QED
  BY <1>1, <1>3, <1>4, CacheParts

(* A publication from the network. *)
LEMMA ReceiveStep ==
  ASSUME SelfInv, NEW k \in OwnKeys, NEW e \in RemoteEntries, NEW token \in Tokens, ReceivePublication(k, e, token)
  PROVE  SelfInv'
<1> DEFINE pub == [NoOwnKeyVals EXCEPT ![k] = e]
           m == mergeOwnPublication(Cache, pub, token)
<1>1. /\ ownStore' = m.store /\ Commit(m.cache) /\ keyBackoff' = keyBackoff
      /\ UNCHANGED <<keysToUnset, unsetTimer>> /\ aborted' = aborted
  BY DEF ReceivePublication
<1>2. e \in Entry
  BY RemoteAssumption, StoredEntryIsEntry
<1>3. pub \in [OwnKeys -> Entry]
  BY <1>2, OneKeyPublication
<1> HIDE DEF pub
<1>4. /\ Cache' = m.cache /\ ownStore' \in OwnStores /\ Scheduled(m.cache) /\ Due(m.cache)
      /\ Advertised(m.cache, ownStore') /\ Answered(m.cache, ownStore', m.cache.buffer)
      /\ KeysOf(m.cache.self) = KeysOf(selfOriginated)
  BY <1>1, <1>3, PublicationMerged
<1> HIDE DEF m
<1>5. aborted \in BOOLEAN /\ keyBackoff \subseteq KeysOf(selfOriginated)
  BY DEF SelfInv
<1>6. QED
  BY <1>1, <1>4, <1>5, StepOfCache

(* unsetPendingSelfOriginatedKeys. *)
LEMMA UnsetPendingStep ==
  ASSUME SelfInv, UnsetPending
  PROVE  SelfInv'
<1> DEFINE pub == [k \in OwnKeys |-> IF selfOriginated[k] = Absent THEN keysToUnset[k] ELSE Absent]
<1>1. PICK token \in Tokens : UnsetPendingSelfOriginatedKeys(token)
  BY DEF UnsetPending
<1> DEFINE m == mergeOwnPublication(Cache, pub, token)
<1>2. /\ ownStore' = m.store /\ Commit(m.cache) /\ keyBackoff' = keyBackoff
      /\ keysToUnset' = NoOwnKeyVals /\ unsetTimer' = FALSE /\ aborted' = aborted
  BY <1>1 DEF UnsetPendingSelfOriginatedKeys
<1>3. pub \in [OwnKeys -> Entry]
  <2>1. keysToUnset \in [OwnKeys -> StoredEntry]
    BY DEF SelfInv
  <2>2. QED
    BY <2>1, StoredEntryIsEntry
<1> HIDE DEF pub
<1>4. /\ Cache' = m.cache /\ ownStore' \in OwnStores /\ Scheduled(m.cache) /\ Due(m.cache)
      /\ Advertised(m.cache, ownStore') /\ Answered(m.cache, ownStore', m.cache.buffer)
      /\ KeysOf(m.cache.self) = KeysOf(selfOriginated)
  BY <1>2, <1>3, PublicationMerged
<1> HIDE DEF m
<1>5. aborted \in BOOLEAN /\ keyBackoff \subseteq KeysOf(selfOriginated)
  BY DEF SelfInv
<1>6. selfOriginated' = m.cache.self /\ publicationBuffer' = m.cache.buffer
  BY SMT, <1>4 DEF Cache
<1>7. NoOwnKeyVals \in [OwnKeys -> StoredEntry] /\ KeysOf(NoOwnKeyVals) = {}
  BY StoredEntryIsEntry DEF NoOwnKeyVals, KeysOf
<1>8. QED
  BY <1>2, <1>4, <1>5, <1>6, <1>7 DEF SelfInv

(* advertiseSelfOriginatedKeys: a key that is ready is in the store afterwards; only with a    *)
(* rate limiter and another key could the flood find it overridden.                            *)
LEMMA AdvertiseStep ==
  ASSUME OneKeyIfLimited, SelfInv, NEW ready \in SUBSET keysToAdvertise, NEW token \in Tokens,
         AdvertiseSelfOriginatedKeys(ready, token)
  PROVE  SelfInv'
<1>1. /\ Scheduled(Cache) /\ Due(Cache) /\ Advertised(Cache, ownStore) /\ Answered(Cache, ownStore, publicationBuffer)
      /\ aborted \in BOOLEAN /\ keyBackoff \subseteq KeysOf(selfOriginated) /\ ownStore \in OwnStores
  BY DEF SelfInv
<1>2. UNCHANGED <<keysToUnset, unsetTimer>> /\ keyBackoff' = keyBackoff
  BY DEF AdvertiseSelfOriginatedKeys
<1>3. CASE keysToAdvertise = {}
  <2> DEFINE d == [Cache EXCEPT !.timer = FALSE]
  <2>1. /\ advertiseTimer' = FALSE /\ ownStore' = ownStore /\ selfOriginated' = selfOriginated
        /\ keysToAdvertise' = keysToAdvertise /\ publicationBuffer' = publicationBuffer
        /\ publicationTimer' = publicationTimer /\ aborted' = aborted
    BY <1>3 DEF AdvertiseSelfOriginatedKeys
  <2>2. Cache \in Caches
    BY <1>1 DEF Scheduled
  <2>3. /\ d \in Caches /\ d.self = selfOriginated /\ d.advertise = keysToAdvertise /\ d.timer = FALSE
        /\ d.buffer = publicationBuffer /\ d.bufferTimer = publicationTimer
    BY <2>2, CacheParts DEF Caches
  <2> HIDE DEF d
  <2>4. Cache' = d
    <3>1. Commit(d)
      BY <2>1, <2>3 DEF Commit
    <3>2. QED
      BY <2>3, <3>1, Committed
  <2>5. Scheduled(d) /\ Due(d) /\ Advertised(d, ownStore) /\ Answered(d, ownStore, d.buffer)
    BY <1>1, <1>3, <2>3, CacheParts DEF Scheduled, Due, Advertised, Answered
  <2>6. QED
    BY <1>1, <1>2, <2>1, <2>3, <2>4, <2>5, StepOfCache
<1>4. CASE keysToAdvertise # {} /\ ~ (keysToAdvertise \subseteq keyBackoff)
  <2>1. /\ aborted' = TRUE /\ ownStore' = ownStore /\ selfOriginated' = selfOriginated
        /\ keysToAdvertise' = keysToAdvertise /\ advertiseTimer' = advertiseTimer
        /\ publicationBuffer' = publicationBuffer /\ publicationTimer' = publicationTimer
    BY <1>4 DEF AdvertiseSelfOriginatedKeys
  <2>2. Cache' = Cache
    BY <2>1 DEF Cache
  <2>3. QED
    BY <1>1, <1>2, <2>1, <2>2, StepOfCache, CacheParts
<1>5. CASE keysToAdvertise # {} /\ keysToAdvertise \subseteq keyBackoff
  <2> DEFINE c == [Cache EXCEPT !.timer = FALSE]
             pub == [k \in OwnKeys |-> IF k \in ready THEN selfOriginated[k] ELSE Absent]
             r == mergeKeyValues(ownStore, pub, NoNode)
             m == mergeOwnPublication(c, pub, token)
             d == [m.cache EXCEPT !.advertise = m.cache.advertise \ ready, !.timer = TRUE]
  <2>1. ownStore' = m.store /\ Commit(d) /\ aborted' = aborted
    BY <1>5 DEF AdvertiseSelfOriginatedKeys
  <2>2. Cache \in Caches
    BY <1>1 DEF Scheduled
  <2>3. /\ c \in Caches /\ c.self = selfOriginated /\ c.advertise = keysToAdvertise
        /\ c.buffer = publicationBuffer /\ c.bufferTimer = publicationTimer
    BY <2>2, CacheParts DEF Caches
  <2> HIDE DEF c
  <2>4. Scheduled(c) /\ Advertised(c, ownStore) /\ Answered(c, ownStore, c.buffer)
    BY <1>1, <2>3, CacheParts DEF Scheduled, Advertised, Answered
  <2>5. /\ KeysOf(c.self) \subseteq OwnKeys /\ ready \subseteq KeysOf(c.self)
        /\ c.self \in [OwnKeys -> StoredEntry]
        /\ \A k \in KeysOf(c.self) : /\ c.self[k] \in Entry /\ c.self[k].hasValue /\ c.self[k].version > 0
                                     /\ isValidTtl(c.self[k]) /\ c.self[k].originatorId = Me
    BY <2>3, <2>4, CacheFields DEF Scheduled, Advertised
  <2>6. pub \in [OwnKeys -> Entry] /\ \A k \in ready : pub[k] = c.self[k]
    BY <2>3, <2>5, StoredEntryIsEntry
  <2> HIDE DEF pub, r, m
  <2>7. /\ KeysOf(r.keyVals) = {k \in OwnKeys : r.keyVals[k] # Absent}
        /\ \A k \in OwnKeys :
             /\ r.store[k] \in Entry /\ r.keyVals[k] \in {Absent, pub[k]}
             /\ r.keyVals[k].hasValue => content(r.keyVals[k]) = content(r.store[k])
             /\ pub[k].hasValue /\ pub[k].version > 0 /\ isValidTtl(pub[k]) => AtLeast(r.store[k], pub[k])
    BY <1>1, <2>6, MergeOwn DEF r
  <2>8. Advertised(c, r.store)
    BY <1>1, <2>4, <2>6, StaysAdvertised DEF r
  <2>9. /\ m.store = r.store /\ m.store \in OwnStores
        /\ Scheduled(m.cache) /\ Advertised(m.cache, m.store) /\ Answered(m.cache, m.store, m.cache.buffer)
        /\ KeysOf(m.cache.self) = KeysOf(c.self)
        /\ \A k \in KeysOf(c.self) :
              \/ k \notin m.cache.advertise \ c.advertise /\ m.cache.self[k].version = c.self[k].version
              \/ /\ Overrides(r.store[k], c.self[k]) /\ KeysOf(r.keyVals) # {}
                 /\ k \in c.buffer \/ r.keyVals[k].hasValue
    <3>1. MergedAndFlooded(c, r, m)
      BY <1>1, <2>4, <2>6, <2>8, MergeOwnPublication DEF r, m
    <3>2. QED
      BY <3>1 DEF MergedAndFlooded
  <2>10. ASSUME NEW k \in ready
         PROVE  m.cache.self[k].version = c.self[k].version /\ r.store[k].version >= c.self[k].version
    <3>1. k \in OwnKeys /\ k \in KeysOf(c.self) /\ pub[k] = c.self[k] /\ c.self[k] \in Entry /\ r.store[k] \in Entry
      BY <2>5, <2>6, <2>7
    <3>2. AtLeast(r.store[k], c.self[k])
      BY <2>5, <2>7, <3>1
    <3>3. r.store[k].version >= c.self[k].version
      BY SMT, <3>1, <3>2 DEF AtLeast, NewerContent, content, Entry
    <3>4. ~ Absent.hasValue
      BY DEF Absent
    <3>5. ASSUME r.keyVals[k].hasValue PROVE ~ Overrides(r.store[k], c.self[k])
      <4>1. r.keyVals[k] = c.self[k]
        BY <2>7, <3>1, <3>4, <3>5
      <4>2. content(r.store[k]) = content(c.self[k])
        BY <2>7, <3>1, <3>5, <4>1
      <4>3. QED
        BY <2>5, <3>1, <4>2, SameContentNoOverride
    <3>6. ASSUME KeysOf(r.keyVals) # {}, k \in c.buffer PROVE r.keyVals[k].hasValue
      <4>1. FloodLimited
        BY <2>4, <3>6 DEF Scheduled
      <4>2. PICK j \in OwnKeys : r.keyVals[j] # Absent
        BY <2>7, <3>6
      <4>3. j = k
        BY <3>1, <4>1, <4>2 DEF OneKeyIfLimited
      <4>4. r.keyVals[k] = c.self[k]
        BY <2>7, <3>1, <4>2, <4>3
      <4>5. QED
        BY <2>5, <3>1, <4>4
    <3>7. QED
      BY <2>9, <3>1, <3>3, <3>5, <3>6
  <2>11. /\ d \in Caches /\ d.self = m.cache.self /\ d.advertise = m.cache.advertise \ ready /\ d.timer = TRUE
         /\ d.buffer = m.cache.buffer /\ d.bufferTimer = m.cache.bufferTimer
    <3>1. m.cache \in Caches
      BY <2>9 DEF Scheduled
    <3>2. QED
      BY <3>1 DEF Caches
  <2> HIDE DEF d
  <2>12. Cache' = d
    BY <2>1, <2>11, Committed
  <2>13. Scheduled(d) /\ Due(d)
    BY <2>9, <2>11 DEF Scheduled, Due
  <2>14. Advertised(d, m.store)
    <3>1. SUFFICES ASSUME NEW k \in KeysOf(m.cache.self)
                   PROVE  /\ m.cache.self[k].originatorId = Me
                          /\ k \notin d.advertise => m.store[k].version >= m.cache.self[k].version
      BY <2>11 DEF Advertised
    <3>2. m.cache.self[k].originatorId = Me
          /\ (k \notin m.cache.advertise => m.store[k].version >= m.cache.self[k].version)
      BY <2>9 DEF Advertised
    <3>3. CASE k \in ready
      BY <2>9, <2>10, <3>2, <3>3
    <3>4. CASE k \notin ready
      BY <2>11, <3>2, <3>4
    <3>5. QED
      BY <3>3, <3>4
  <2>15. Answered(d, m.store, d.buffer)
    BY <2>9, <2>11 DEF Answered
  <2>16. keyBackoff' \subseteq KeysOf(d.self)
    BY <1>1, <1>2, <2>3, <2>9, <2>11
  <2>17. QED
    BY <1>1, <1>2, <2>1, <2>9, <2>12, <2>13, <2>14, <2>15, <2>16, StepOfCache
<1>6. QED
  BY <1>3, <1>4, <1>5

(* advertiseTtlUpdates: neither the cache nor the store changes content. *)
LEMMA OwnTtlUpdatesStep ==
  ASSUME SelfInv, NEW keys \in SUBSET OwnKeys, NEW token \in Tokens, advertiseTtlUpdates(keys, token)
  PROVE  SelfInv'
<1> DEFINE self == [k \in OwnKeys |-> IF k \in keys THEN [selfOriginated[k] EXCEPT !.ttlVersion = @ + 1]
                                      ELSE selfOriginated[k]]
           c == [Cache EXCEPT !.self = self]
           pub == [k \in OwnKeys |-> IF k \in keys THEN [self[k] EXCEPT !.hasValue = FALSE] ELSE Absent]
           r == mergeKeyValues(ownStore, pub, NoNode)
           m == mergeOwnPublication(c, pub, token)
<1>1. /\ ownStore' = m.store /\ Commit(m.cache) /\ keyBackoff' = keyBackoff
      /\ UNCHANGED <<keysToUnset, unsetTimer>> /\ aborted' = aborted
      /\ \A k \in keys : selfOriginated[k] # Absent
  BY DEF advertiseTtlUpdates
<1>2. /\ Scheduled(Cache) /\ Due(Cache) /\ Advertised(Cache, ownStore) /\ Answered(Cache, ownStore, publicationBuffer)
      /\ aborted \in BOOLEAN /\ keyBackoff \subseteq KeysOf(selfOriginated) /\ ownStore \in OwnStores
  BY DEF SelfInv
<1>3. /\ selfOriginated \in [OwnKeys -> StoredEntry]
      /\ \A j \in OwnKeys : selfOriginated[j] # Absent => isValidTtl(selfOriginated[j])
      /\ Cache \in Caches
  BY <1>2, CacheFields, CacheParts DEF OwnStores, Scheduled
<1>4. ASSUME NEW k \in OwnKeys
      PROVE  /\ self[k] \in StoredEntry /\ (self[k] = Absent <=> selfOriginated[k] = Absent)
             /\ self[k].version = selfOriginated[k].version /\ self[k].value = selfOriginated[k].value
             /\ self[k].originatorId = selfOriginated[k].originatorId
             /\ self[k].ttl = selfOriginated[k].ttl
  <2>1. selfOriginated[k] \in StoredEntry /\ selfOriginated[k] \in Entry
    BY <1>3, StoredEntryIsEntry
  <2>2. CASE k \notin keys
    <3>1. self[k] = selfOriginated[k]
      BY <2>2
    <3>2. QED
      BY <2>1, <3>1
  <2>3. CASE k \in keys
    <3>1. self[k] = [selfOriginated[k] EXCEPT !.ttlVersion = selfOriginated[k].ttlVersion + 1]
      BY <2>3
    <3>2. selfOriginated[k] # Absent
      BY <1>1, <2>3
    <3> HIDE DEF self
    <3>3. QED
      <4>1. selfOriginated[k].ttlVersion + 1 \in Nat
        BY SMT, <2>1 DEF Entry
      <4>2. QED
        <5>1. /\ self[k] \in Entry /\ self[k].hasValue = selfOriginated[k].hasValue
              /\ self[k].version = selfOriginated[k].version /\ self[k].value = selfOriginated[k].value
              /\ self[k].originatorId = selfOriginated[k].originatorId
              /\ self[k].ttl = selfOriginated[k].ttl
          BY SMT, <2>1, <3>1, <4>1, NewTtlVersionOf
        <5>2. selfOriginated[k].hasValue /\ selfOriginated[k].version > 0
          BY <2>1, <3>2, StoredFields
        <5>3. self[k] \in StoredEntry /\ self[k] # Absent
          BY <5>1, <5>2, IsStored
        <5>4. QED
          BY <3>2, <5>1, <5>3
  <2>4. QED
    BY <2>2, <2>3
<1>5. pub \in [OwnKeys -> Entry]
  <2>1. \A k \in OwnKeys : self[k] \in Entry /\ Absent \in Entry
    BY <1>4, StoredEntryIsEntry
  <2> HIDE DEF self
  <2>2. \A k \in OwnKeys : [self[k] EXCEPT !.hasValue = FALSE] \in Entry
    BY <2>1, TtlUpdateOf
  <2>3. QED
    BY <2>1, <2>2
<1>6. self = [k \in OwnKeys |-> self[k]]
  OBVIOUS
<1> HIDE DEF self, pub
<1>7. self \in OwnStores /\ KeysOf(self) = KeysOf(selfOriginated)
  <2>1. self \in [OwnKeys -> StoredEntry]
    BY <1>4, <1>6
  <2>2. \A k \in OwnKeys : self[k] # Absent => isValidTtl(self[k])
    BY <1>3, <1>4 DEF isValidTtl
  <2>3. KeysOf(self) = {k \in OwnKeys : self[k] # Absent}
        /\ KeysOf(selfOriginated) = {k \in OwnKeys : selfOriginated[k] # Absent}
    BY <1>3, <2>1 DEF KeysOf
  <2>4. QED
    BY <1>4, <2>1, <2>2, <2>3 DEF OwnStores
<1>8. /\ c \in Caches /\ c.self = self /\ c.advertise = keysToAdvertise /\ c.timer = advertiseTimer
      /\ c.buffer = publicationBuffer /\ c.bufferTimer = publicationTimer
  BY SMT, <1>3, <1>7, CacheParts DEF Caches
<1> HIDE DEF c
<1>9. KeysOf(selfOriginated) \subseteq OwnKeys
  BY <1>3 DEF KeysOf
<1>10. Scheduled(c) /\ Due(c)
  BY <1>2, <1>7, <1>8, CacheParts DEF Scheduled, Due
<1>11. Advertised(c, ownStore)
  BY <1>2, <1>4, <1>7, <1>8, <1>9, CacheParts DEF Advertised
<1>12. Answered(c, ownStore, c.buffer)
  <2>1. SUFFICES ASSUME NEW k \in KeysOf(selfOriginated) \ publicationBuffer
                 PROVE  ~ Overrides(ownStore[k], self[k])
    BY <1>7, <1>8 DEF Answered
  <2>2. ~ Overrides(ownStore[k], selfOriginated[k])
    BY <1>2, CacheParts DEF Answered
  <2>3. self[k].version = selfOriginated[k].version /\ self[k].value = selfOriginated[k].value
        /\ selfOriginated[k] # Absent
    BY <1>4, <1>9, <2>1 DEF KeysOf
  <2>4. QED
    BY <2>2, <2>3 DEF Overrides
<1>13. Advertised(c, r.store)
  BY <1>2, <1>5, <1>10, <1>11, StaysAdvertised
<1>14. /\ m.store \in OwnStores
       /\ Scheduled(m.cache) /\ Advertised(m.cache, m.store) /\ Answered(m.cache, m.store, m.cache.buffer)
       /\ KeysOf(m.cache.self) = KeysOf(c.self) /\ Due(m.cache)
  <2>1. MergedAndFlooded(c, r, m)
    BY <1>2, <1>5, <1>10, <1>12, <1>13, MergeOwnPublication
  <2>2. QED
    BY <1>10, <2>1 DEF MergedAndFlooded
<1> HIDE DEF m, r
<1>15. Cache' = m.cache
  BY <1>1, <1>14, Committed DEF Scheduled
<1>16. keyBackoff' \subseteq KeysOf(m.cache.self)
  BY <1>1, <1>2, <1>7, <1>8, <1>14
<1>17. QED
  BY <1>1, <1>2, <1>14, <1>15, <1>16, StepOfCache

(* floodBufferedUpdates from its timer. *)
LEMMA FloodBufferedStep ==
  ASSUME SelfInv, FloodBufferedUpdates
  PROVE  SelfInv'
<1> DEFINE f == floodBufferedUpdates(Cache, ownStore)
           d == [f EXCEPT !.bufferTimer = FALSE]
<1>1. /\ Commit(d) /\ ownStore' = ownStore /\ keyBackoff' = keyBackoff
      /\ UNCHANGED <<keysToUnset, unsetTimer>> /\ aborted' = aborted
  BY DEF FloodBufferedUpdates
<1>2. /\ Scheduled(Cache) /\ Due(Cache) /\ Advertised(Cache, ownStore) /\ Answered(Cache, ownStore, Cache.buffer)
      /\ aborted \in BOOLEAN /\ keyBackoff \subseteq KeysOf(selfOriginated) /\ ownStore \in OwnStores
  BY CacheParts DEF SelfInv
<1>3. /\ Scheduled(f) /\ Advertised(f, ownStore) /\ Answered(f, ownStore, {}) /\ f.buffer = {} /\ Due(f)
      /\ KeysOf(f.self) = KeysOf(Cache.self)
  BY <1>2, FloodBuffered
<1> HIDE DEF f
<1>4. f \in Caches
  BY <1>3 DEF Scheduled
<1>5. /\ d \in Caches /\ d.self = f.self /\ d.advertise = f.advertise /\ d.timer = f.timer /\ d.buffer = f.buffer
  BY <1>4 DEF Caches
<1> HIDE DEF d
<1>6. Scheduled(d) /\ Due(d) /\ Advertised(d, ownStore) /\ Answered(d, ownStore, d.buffer)
  BY <1>3, <1>5 DEF Scheduled, Due, Advertised, Answered
<1>7. Cache' = d
  BY <1>1, <1>5, Committed
<1>8. keyBackoff' \subseteq KeysOf(d.self)
  BY <1>1, <1>2, <1>3, <1>5, CacheParts
<1>9. QED
  BY <1>1, <1>2, <1>6, <1>7, <1>8, StepOfCache

(* cleanupTtlCountdownQueue: only keys this node does not originate expire. *)
LEMMA ExpireStep ==
  ASSUME SelfInv, NEW k \in OwnKeys, NEW token \in Tokens, ExpireKey(k, token)
  PROVE  SelfInv'
<1> DEFINE d == floodOwnPublication(Cache, ownStore', NoOwnKeyVals, {k}, token)
<1>1. /\ Commit(d) /\ ownStore' = [ownStore EXCEPT ![k] = Absent] /\ keyBackoff' = keyBackoff
      /\ UNCHANGED <<keysToUnset, unsetTimer>> /\ aborted' = aborted /\ selfOriginated[k] = Absent
  BY DEF ExpireKey
<1>2. /\ Scheduled(Cache) /\ Due(Cache) /\ Advertised(Cache, ownStore) /\ Answered(Cache, ownStore, Cache.buffer)
      /\ aborted \in BOOLEAN /\ keyBackoff \subseteq KeysOf(selfOriginated) /\ ownStore \in OwnStores
  BY CacheParts DEF SelfInv
<1>3. ownStore' \in OwnStores
  BY <1>1, <1>2, StoredEntryIsEntry DEF OwnStores
<1>4. \A j \in KeysOf(Cache.self) : ownStore'[j] = ownStore[j]
  BY <1>1, <1>2, CacheFields, CacheParts DEF OwnStores, KeysOf
<1>5. Advertised(Cache, ownStore') /\ Answered(Cache, ownStore', Cache.buffer)
  BY <1>2, <1>4 DEF Advertised, Answered
<1>6. NoOwnKeyVals \in [OwnKeys -> Entry] /\ \A j \in OwnKeys : ~ NoOwnKeyVals[j].hasValue
  BY StoredEntryIsEntry DEF NoOwnKeyVals, Absent
<1>7. \A j \in KeysOf(Cache.self) \ Cache.buffer : ~ Overrides(ownStore'[j], Cache.self[j])
  BY <1>5 DEF Answered
<1>8. {k} \in SUBSET OwnKeys /\ Reports(NoOwnKeyVals, Cache, ownStore')
  BY <1>6, <1>7 DEF Reports
<1>a. Flooded(Cache, ownStore', NoOwnKeyVals, d)
  BY <1>2, <1>3, <1>5, <1>6, <1>8, FloodOwnPublication
<1>9. /\ Scheduled(d) /\ Advertised(d, ownStore') /\ Answered(d, ownStore', d.buffer)
      /\ KeysOf(d.self) = KeysOf(Cache.self) /\ Due(d)
  BY <1>2, <1>a DEF Flooded
<1> HIDE DEF d
<1>10. Cache' = d
  BY <1>1, <1>9, Committed DEF Scheduled
<1>11. keyBackoff' \subseteq KeysOf(d.self)
  BY <1>1, <1>2, <1>9, CacheParts
<1>12. QED
  BY <1>1, <1>2, <1>3, <1>9, <1>10, <1>11, StepOfCache

(* Before the first request. *)
LEMMA SelfInitInv == SelfInit => SelfInv
<1> SUFFICES ASSUME SelfInit PROVE SelfInv
  OBVIOUS
<1>1. NoOwnKeyVals \in OwnStores /\ NoOwnKeyVals \in [OwnKeys -> StoredEntry] /\ KeysOf(NoOwnKeyVals) = {}
  BY StoredEntryIsEntry DEF NoOwnKeyVals, KeysOf, OwnStores
<1>2. /\ selfOriginated = NoOwnKeyVals /\ keysToAdvertise = {} /\ advertiseTimer = FALSE
      /\ publicationBuffer = {} /\ publicationTimer = FALSE
  BY DEF SelfInit
<1>3. Cache \in Caches
  BY <1>1, <1>2 DEF Cache, Caches
<1>4. Scheduled(Cache) /\ Due(Cache) /\ Advertised(Cache, ownStore) /\ Answered(Cache, ownStore, publicationBuffer)
  BY <1>1, <1>2, <1>3, CacheParts DEF Scheduled, Due, Advertised, Answered
<1>5. QED
  BY <1>1, <1>4 DEF SelfInit, SelfInv

(* Every callback keeps the invariant. *)
LEMMA SelfNextInv ==
  ASSUME OneKeyIfLimited, SelfInv, [SelfNext]_selfVars
  PROVE  SelfInv'
<1>1. CASE UNCHANGED selfVars
  <2>1. /\ ownStore' = ownStore /\ keyBackoff' = keyBackoff /\ UNCHANGED <<keysToUnset, unsetTimer>>
        /\ aborted' = aborted /\ Cache' = Cache
    BY <1>1 DEF selfVars, Cache
  <2>2. QED
    BY <2>1, StepOfCache, CacheParts DEF SelfInv
<1>2. CASE SelfNext
  BY <1>2, PersistStep, SetStep, EraseStep, AdvertiseStep, OwnTtlUpdatesStep, UnsetPendingStep,
     FloodBufferedStep, ReceiveStep, ExpireStep DEF SelfNext
<1>3. QED
  BY <1>1, <1>2

(* A key whose stored version is its own, and which nothing overrides, is stored as it is cached. *)
LEMMA SelfInvImplies == SelfInv => SelfInvariant
<1> SUFFICES ASSUME SelfInv PROVE SelfInvariant
  OBVIOUS
<1>1. /\ Scheduled(Cache) /\ Due(Cache) /\ Advertised(Cache, ownStore) /\ Answered(Cache, ownStore, publicationBuffer)
      /\ ownStore \in [OwnKeys -> StoredEntry]
  BY DEF SelfInv, OwnStores
<1>2. /\ selfOriginated \in [OwnKeys -> StoredEntry] /\ keysToAdvertise \subseteq KeysOf(selfOriginated)
      /\ publicationBuffer \subseteq OwnKeys /\ advertiseTimer \in BOOLEAN /\ publicationTimer \in BOOLEAN
  <2>1. Cache \in Caches /\ Cache.advertise \subseteq KeysOf(Cache.self)
    BY <1>1 DEF Scheduled
  <2>2. /\ Cache.buffer \in SUBSET OwnKeys /\ Cache.timer \in BOOLEAN /\ Cache.bufferTimer \in BOOLEAN
        /\ Cache.self \in OwnStores
    BY <2>1 DEF Caches
  <2>3. QED
    BY <2>1, <2>2, CacheParts DEF OwnStores
<1>3. SelfTypeOK
  BY <1>1, <1>2 DEF SelfTypeOK, SelfInv
<1>4. StoredOrPending
  <2>1. SUFFICES ASSUME NEW k \in KeysOf(selfOriginated) \ publicationBuffer, k \notin keysToAdvertise
                 PROVE  content(ownStore[k]) = content(selfOriginated[k])
    BY DEF StoredOrPending
  <2>2. /\ ownStore[k].version >= selfOriginated[k].version /\ selfOriginated[k].originatorId = Me
        /\ ~ Overrides(ownStore[k], selfOriginated[k])
    BY <1>1, <2>1, CacheParts DEF Advertised, Answered
  <2>3. /\ k \in OwnKeys /\ selfOriginated[k] # Absent /\ selfOriginated[k] \in StoredEntry
        /\ ownStore[k] \in StoredEntry
    BY <1>1, <1>2, <2>1 DEF KeysOf
  <2>4. QED
    BY SMT, <2>2, <2>3 DEF Overrides, StoredEntry, Entry, Absent, content
<1>5. NothingWaitsForNoTimer
  BY <1>1, CacheParts DEF NothingWaitsForNoTimer, SelfInv, Scheduled, Due
<1>6. QED
  BY <1>3, <1>4, <1>5 DEF SelfInvariant

(***************************************************************************)
(* Whatever requests, publications of other nodes, backoffs, expiries and  *)
(* decisions of the rate limiter interleave, a key this node originates is *)
(* stored as it is cached, or waits to be advertised or flooded, and what  *)
(* waits has its timer (advertiseSelfOriginatedKeys,                       *)
(* processPublicationForSelfOriginatedKey).  With a rate limiter this      *)
(* needs a single key.                                                     *)
(***************************************************************************)
THEOREM OwnKeysStoredOrPending ==
  ASSUME OneKeyIfLimited
  PROVE  SelfSpec => []SelfInvariant
<1>1. SelfInit => SelfInv
  BY SelfInitInv
<1>2. SelfInv /\ [SelfNext]_selfVars => SelfInv'
  BY SelfNextInv
<1>3. SelfInv => SelfInvariant
  BY SelfInvImplies
<1>4. QED
  BY <1>1, <1>2, <1>3, PTL DEF SelfSpec

=============================================================================
