------------------------------ MODULE KvStoreTtl ------------------------------
(***************************************************************************)
(* Expiry of keys (openr/kvstore/KvStore-inl.h: ttlCountdownQueue_,        *)
(* updateTtlCountdownQueue, cleanupTtlCountdownQueue; KvStoreUtil.cpp:     *)
(* updatePublicationTtl).  Originators advertise the keys and refresh them *)
(* with ttl updates until they die; the stores of the other nodes count    *)
(* the keys down, forward what they learn to their neighbours and sync     *)
(* with each other and with the originators at any time.                   *)
(*                                                                         *)
(* Time passes in ticks.  A queue entry holds the ticks left instead of an *)
(* expiry time, so equal situations at different times are one state.  The *)
(* ttl of a message does not count down while the message is in flight.    *)
(***************************************************************************)
EXTENDS KvStoreMerge, FiniteSets

CONSTANTS Nodes,           \* the nodes that only store the keys; positive numbers
          Originators,     \* the nodes that advertise the keys; not in Nodes
          OriginatorPeers,       \* the members of Nodes that have the originators as peers
          Keys,
          KeyTtl,          \* kvParams_.keyTtl, in ticks
          TtlDecr,         \* Constants::kTtlDecrement, taken off at every hop
          TtlThreshold,    \* Constants::kTtlThreshold
          RefreshedTogether,  \* the sets of keys an originator refreshes in one ttl update
          MaxVersion, MaxTtlVersion,  \* bounds on what the originators advertise
          MaxMsgs          \* bound on the publications in flight when a new one is started

ASSUME NodesAssumption == Nodes \cup Originators \subseteq Nat \ {NoNode} /\ Nodes \cap Originators = {}
ASSUME OriginatorPeersAssumption == OriginatorPeers \subseteq Nodes
ASSUME TtlAssumption == KeyTtl \in Nat /\ TtlDecr \in 0..KeyTtl /\ TtlThreshold \in Nat
ASSUME RefreshAssumption == RefreshedTogether \subseteq SUBSET Keys

VARIABLES kvStore,         \* kvStore[n][k]
          queue,           \* queue[n]: ttlCountdownQueue_
          life,            \* life[n][k]: ticks the stored entry has left to live, by its ttl
          owner,           \* owner[o][k]: the originator's own copy, or Absent
          alive,           \* the originators that are up
          msgs             \* publications in flight

ttlVars == <<kvStore, queue, life, owner, alive, msgs>>

KeyVals == [Keys -> Entry]
NoKeyVals == [k \in Keys |-> Absent]

QueueEntry == [key : Keys, originatorId : Nat, version : Nat, ttlVersion : Nat, left : 0..KeyTtl]

TtlTypeOK ==
  /\ kvStore \in [Nodes -> [Keys -> StoredEntry]]
  /\ \A n \in Nodes : queue[n] \subseteq QueueEntry
  /\ life \in [Nodes -> [Keys -> 0..KeyTtl]]
  /\ owner \in [Originators -> [Keys -> StoredEntry]]
  /\ alive \subseteq Originators
  /\ \A msg \in msgs : msg.dst \in Nodes /\ msg.keyVals \in KeyVals

TtlInit ==
  /\ kvStore = [n \in Nodes |-> NoKeyVals]
  /\ queue = [n \in Nodes |-> {}]
  /\ life = [n \in Nodes |-> [k \in Keys |-> 0]]
  /\ owner = [o \in Originators |-> NoKeyVals]
  /\ alive = Originators
  /\ msgs = {}

-----------------------------------------------------------------------------
Matches(q, k, e) ==
  /\ q.key = k
  /\ q.version = e.version
  /\ q.originatorId = e.originatorId
  /\ q.ttlVersion = e.ttlVersion

(* The entries of a publication that expire, as updateTtlCountdownQueue records them. *)
CountdownOf(keyVals) ==
  {[key |-> k, originatorId |-> keyVals[k].originatorId, version |-> keyVals[k].version,
    ttlVersion |-> keyVals[k].ttlVersion, left |-> keyVals[k].ttl] :
      k \in {x \in KeysOf(keyVals) : keyVals[x].ttl # TtlInfinity}}

(* Mutant: the queue has one entry per key, whoever originated it, and keeps the old one. *)
updateTtlCountdownQueue_KeepOld(q, keyVals) ==
  q \cup {y \in CountdownOf(keyVals) : \A x \in q : x.key # y.key}

(* The queue holds one entry per key and originator (ttlCountdownHandleMap_). *)
updateTtlCountdownQueue(q, keyVals) ==
  {x \in q : \A y \in CountdownOf(keyVals) : x.key # y.key \/ x.originatorId # y.originatorId}
  \cup CountdownOf(keyVals)

(* Mutant: a publication carries the ttl it was received with. *)
updatePublicationTtl_AsReceived(q, keyVals) == keyVals

(* Drop what is about to expire, and send on the time that is left less the decrement. *)
updatePublicationTtl(q, keyVals) ==
  LET counted(k) == {x \in q : Matches(x, k, keyVals[k])}
      dropped(k) == \E x \in counted(k) : x.left <= TtlDecr \/ x.left < TtlThreshold
  IN  [k \in Keys |->
         IF keyVals[k] = Absent \/ dropped(k) THEN Absent
         ELSE IF counted(k) = {} THEN keyVals[k]
         ELSE [keyVals[k] EXCEPT !.ttl = (CHOOSE x \in counted(k) : TRUE).left - TtlDecr]]

(* Every store has every other one as a peer, and some have the originators. *)
Peers(n) == (Nodes \ {n}) \cup (IF n \in OriginatorPeers THEN Originators ELSE {})

Flood(n, keyVals, to, nodeIds) ==
  IF KeysOf(keyVals) = {} THEN {}
  ELSE {[dst |-> m, from |-> n, keyVals |-> keyVals, nodeIds |-> nodeIds] : m \in to}

(***************************************************************************)
(* An originator: advertiseSelfOriginatedKeys with a version above its     *)
(* last one, advertiseTtlUpdates, both flooded to its neighbours (its own  *)
(* floodPublication takes the decrement off); and its end.                 *)
(***************************************************************************)
AdvertiseKey(o, k, version) ==
  LET e == [version |-> version, originatorId |-> o, value |-> 1,
            hasValue |-> TRUE, ttlVersion |-> 0, ttl |-> KeyTtl - TtlDecr]
  IN  /\ o \in alive
      /\ Cardinality(msgs) < MaxMsgs
      /\ owner[o][k].version < version
      /\ owner' = [owner EXCEPT ![o][k] = e]
      /\ msgs' = msgs \cup Flood(o, [NoKeyVals EXCEPT ![k] = e], OriginatorPeers, {o})
      /\ UNCHANGED <<kvStore, queue, life, alive>>

AdvertiseTtlUpdates(o, keys) ==
  LET refreshed(k) == [owner[o][k] EXCEPT !.ttlVersion = @ + 1]
      update == [k \in Keys |-> IF k \in keys THEN [refreshed(k) EXCEPT !.hasValue = FALSE] ELSE Absent]
  IN  /\ o \in alive
      /\ Cardinality(msgs) < MaxMsgs
      /\ \A k \in keys : owner[o][k] # Absent /\ owner[o][k].ttlVersion < MaxTtlVersion
      /\ owner' = [owner EXCEPT ![o] = [k \in Keys |-> IF k \in keys THEN refreshed(k) ELSE @[k]]]
      /\ msgs' = msgs \cup Flood(o, update, OriginatorPeers, {o})
      /\ UNCHANGED <<kvStore, queue, life, alive>>

(* An originator goes away; what it sent may still arrive. *)
Die(o) ==
  /\ o \in alive
  /\ alive' = alive \ {o}
  /\ UNCHANGED <<kvStore, queue, life, owner, msgs>>

(***************************************************************************)
(* mergePublication at a store.  When a ttl update reveals an              *)
(* inconsistency with its originator, the peer is disconnected and the     *)
(* function returns before the queue is updated and the delta is flooded;  *)
(* the full-sync that follows is a FullSync from the originator.  The      *)
(* delta is not sent back to the sender: after a full-sync the code does   *)
(* so, which FullSync the other way round stands for.                      *)
(***************************************************************************)
MergePublication(msg) ==
  \E result \in {mergeKeyValues(kvStore[msg.dst], msg.keyVals, msg.from)} :
  \E newQueue \in {updateTtlCountdownQueue(queue[msg.dst], result.keyVals)} :
  LET n == msg.dst
      resync == result.inconsistent /\ msg.from \in Peers(n)
      delta == updatePublicationTtl(newQueue, result.keyVals)
      visited == n \in msg.nodeIds
  IN  /\ kvStore' = [kvStore EXCEPT ![n] = IF visited THEN @ ELSE result.store]
      /\ life' = [life EXCEPT ![n] =
                    [k \in Keys |-> IF ~visited /\ result.keyVals[k] # Absent
                                    THEN result.keyVals[k].ttl ELSE @[k]]]
      /\ queue' = [queue EXCEPT ![n] = IF visited \/ resync THEN @ ELSE newQueue]
      /\ msgs' = (msgs \ {msg})
                 \cup (IF visited \/ resync THEN {}
                       ELSE Flood(n, delta, Nodes \ {n, msg.from}, msg.nodeIds \cup {n}))
      /\ UNCHANGED <<owner, alive>>

(***************************************************************************)
(* A full-sync, at any time: m sends n what n lacks or has older           *)
(* (dumpKvStoreKeysImpl); it is merged when it arrives.                    *)
(***************************************************************************)
FullSync(n, m) ==
  LET mine == IF m \in Originators THEN owner[m] ELSE kvStore[m]
      countdown == IF m \in Originators THEN {} ELSE queue[m]
      diff == dumpDifference(mine, dumpHashWithFilters(kvStore[n])).keyVals
  IN  /\ m \in Originators => m \in alive
      /\ Cardinality(msgs) < MaxMsgs
      /\ msgs' = msgs \cup Flood(m, updatePublicationTtl(countdown, diff), {n}, {})
      /\ UNCHANGED <<kvStore, queue, life, owner, alive>>

(* Mutant: a due entry takes the key away whatever version is stored. *)
CleanupTtlCountdownQueue_AnyVersion(n) ==
  LET due == {q \in queue[n] : q.left = 0}
      expired == {q.key : q \in due}
  IN  /\ due # {}
      /\ kvStore' = [kvStore EXCEPT ![n] = [k \in Keys |-> IF k \in expired THEN Absent ELSE @[k]]]
      /\ queue' = [queue EXCEPT ![n] = @ \ due]
      /\ UNCHANGED <<life, owner, alive, msgs>>

(* cleanupTtlCountdownQueue, when ttlCountdownTimer_ fires. *)
CleanupTtlCountdownQueue(n) ==
  LET due == {q \in queue[n] : q.left = 0}
      expired == {k \in KeysOf(kvStore[n]) : \E q \in due : Matches(q, k, kvStore[n][k])}
  IN  /\ due # {}
      /\ kvStore' = [kvStore EXCEPT ![n] = [k \in Keys |-> IF k \in expired THEN Absent ELSE @[k]]]
      /\ queue' = [queue EXCEPT ![n] = @ \ due]
      /\ UNCHANGED <<life, owner, alive, msgs>>

(* A timer that is due fires before the next tick. *)
Tick ==
  /\ \A n \in Nodes : \A q \in queue[n] : q.left > 0
  /\ \E n \in Nodes : queue[n] # {} \/ KeysOf(kvStore[n]) # {}
  /\ queue' = [n \in Nodes |-> {[q EXCEPT !.left = @ - 1] : q \in queue[n]}]
  /\ life' = [n \in Nodes |-> [k \in Keys |-> IF life[n][k] > 0 THEN life[n][k] - 1 ELSE 0]]
  /\ UNCHANGED <<kvStore, owner, alive, msgs>>

Deliver == \E msg \in msgs : MergePublication(msg)

Cleanup == \E n \in Nodes : CleanupTtlCountdownQueue(n)

TtlNext ==
  \/ \E o \in Originators, k \in Keys, version \in 1..MaxVersion : AdvertiseKey(o, k, version)
  \/ \E o \in Originators, keys \in RefreshedTogether : AdvertiseTtlUpdates(o, keys)
  \/ \E o \in Originators : Die(o)
  \/ Deliver
  \/ \E n \in Nodes : \E m \in Peers(n) : FullSync(n, m)
  \/ Cleanup
  \/ Tick

TtlSpec == TtlInit /\ [][TtlNext]_ttlVars

(* Messages arrive, timers fire and time passes; nobody has to start a full-sync. *)
TtlFairSpec == TtlSpec /\ WF_ttlVars(Deliver) /\ WF_ttlVars(Cleanup) /\ WF_ttlVars(Tick)

-----------------------------------------------------------------------------
(***************************************************************************)
(* updateTtlCountdownQueue, cleanupTtlCountdownQueue: every stored key     *)
(* that has a ttl is being counted down by an entry that will match it, so *)
(* it goes when its ttl has passed.  docs/Protocol_Guide/KvStore.md: "If   *)
(* the `ttl` drops below `0`, the key is removed from the local store".    *)
(***************************************************************************)
EveryKeyIsCountedDown ==
  \A n \in Nodes : \A k \in KeysOf(kvStore[n]) :
    \E q \in queue[n] : Matches(q, k, kvStore[n][k]) /\ q.left <= life[n][k]

(***************************************************************************)
(* cleanupTtlCountdownQueue: a key is erased only when the ttl it was last *)
(* refreshed with has passed; an older countdown never takes it away.      *)
(***************************************************************************)
NeverExpiresEarly ==
  [][\A n \in Nodes, k \in Keys :
       kvStore[n][k] # Absent /\ kvStore'[n][k] = Absent => life[n][k] = 0]_ttlVars

(***************************************************************************)
(* updateTtlCountdownQueue: one countdown per key and originator.          *)
(***************************************************************************)
OneCountdownPerKey ==
  \A n \in Nodes : \A p, q \in queue[n] :
    p.key = q.key /\ p.originatorId = q.originatorId => p = q

(***************************************************************************)
(* updatePublicationTtl takes the decrement off at every exchange so that  *)
(* a key whose originators are gone dies out, however often the stores     *)
(* that still hold it give it back to those that dropped it.               *)
(* docs/Protocol_Guide/KvStore.md: "Since every node does the same         *)
(* operation, the key is deleted from all stores".                         *)
(***************************************************************************)
AbandonedKeysDieOut ==
  [](alive = {} => <>[](\A n \in Nodes : KeysOf(kvStore[n]) = {}))

=============================================================================
