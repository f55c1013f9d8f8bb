--------------------------- MODULE KvStoreSyncProofs ---------------------------
(***************************************************************************)
(* Proofs about the replication of openr/kvstore/KvStore-inl.h, for any    *)
(* network, keys and writes, and whatever fails, is delayed or overtakes:  *)
(* the state machine of a peer is only ever used where it is defined, a    *)
(* peer that waits for a full-sync has a timer, stores never go back, and  *)
(* what a peer in sync lacks is on its way or will be asked for.           *)
(***************************************************************************)
EXTENDS KvStoreSync, KvStoreMergeProofs

(* Most steps are first-order; the ones with arithmetic or records say SMT. *)
USE Zenon

(* The answer of a full-sync carries values, never ttl updates (dumpDifference). *)
RepliesCarryValues ==
  \A rpc \in rpcs : rpc.type = "reply" =>
    \A k \in Keys : rpc.keyVals[k] # Absent => rpc.keyVals[k].hasValue

(* The inductive invariant. *)
IInv ==
  /\ TypeOK
  /\ NoUndefinedTransition
  /\ NoStrandedPeer
  /\ RepliesCarryValues

(* What mergePublication yields at a node. *)
Outcome == [store : [Keys -> StoredEntry], peers : [Nodes -> PeerStates],
            pending : [Nodes -> SUBSET Keys], timer : BOOLEAN,
            known : [Keys -> StoredEntry], sent : SUBSET Rpc]

NotReplies(calls) == \A rpc \in calls : rpc.type # "reply"

(* A store that replaced s never holds an older entry. *)
Advanced(s, t) == \A k \in Keys : t[k] = s[k] \/ Newer(t[k], s[k])

NodeTypes(n) ==
  /\ kvStore[n] \in [Keys -> StoredEntry]
  /\ peerState[n] \in [Nodes -> PeerStates]
  /\ pendingKeys[n] \in [Nodes -> SUBSET Keys]
  /\ syncTimer[n] \in BOOLEAN
  /\ subscriber[n] \in [Keys -> StoredEntry]
  /\ syncLimit[n] \in 1..MaxSyncLimit

LEMMA NodeTyping ==
  ASSUME IInv, NEW n \in Nodes
  PROVE  NodeTypes(n)
<1>1. \A m \in Nodes : peerState[n][m] \in PeerStates
  BY SMT DEF IInv, TypeOK, NoUndefinedTransition
<1>2. peerState[n] \in [Nodes -> PeerStates]
  BY <1>1 DEF IInv, TypeOK
<1> QED
  BY <1>2 DEF IInv, TypeOK, NodeTypes

(* mergeKeyValues keeps a store well formed and announces what may be stored or refreshes it. *)
LEMMA MergeKeyValuesTypes ==
  ASSUME NEW s \in [Keys -> StoredEntry], NEW kv \in KeyVals, NEW sender
  PROVE  /\ mergeKeyValues(s, kv, sender).store \in [Keys -> StoredEntry]
         /\ Advanced(s, mergeKeyValues(s, kv, sender).store)
         /\ mergeKeyValues(s, kv, sender).keyVals \in KeyVals
         /\ \A k \in Keys : mergeKeyValues(s, kv, sender).keyVals[k].hasValue
              => mergeKeyValues(s, kv, sender).keyVals[k] \in StoredEntry
<1> DEFINE r == mergeKeyValues(s, kv, sender)
<1>1. /\ r.store = [k \in Keys |-> MergeEntry(s[k], kv[k], sender)]
      /\ r.keyVals = [k \in Keys |-> IF IsMerged(s[k], kv[k], sender) THEN kv[k] ELSE Absent]
  BY DEF mergeKeyValues
<1> HIDE DEF r
<1>2. ASSUME NEW k \in Keys
      PROVE  /\ r.store[k] \in StoredEntry /\ (r.store[k] = s[k] \/ Newer(r.store[k], s[k]))
             /\ r.keyVals[k] \in Entry
             /\ r.keyVals[k].hasValue => r.keyVals[k] \in StoredEntry
  <2>1. kv[k] \in Entry /\ s[k] \in StoredEntry
    BY DEF KeyVals
  <2>2. r.store[k] = MergeEntry(s[k], kv[k], sender)
    BY <1>1
  <2>3. r.keyVals[k] = IF IsMerged(s[k], kv[k], sender) THEN kv[k] ELSE Absent
    BY <1>1
  <2>4. Absent \in Entry /\ ~Absent.hasValue
    BY StoredEntryIsEntry DEF Absent
  <2> QED
    BY <2>1, <2>2, <2>3, <2>4, MergeAnyEntry, MergedValueIsStored
<1>3. r.store \in [Keys -> StoredEntry] /\ r.keyVals \in KeyVals
  BY <1>1, <1>2 DEF KeyVals
<1> QED
  BY <1>2, <1>3 DEF r, Advanced

(* A reader goes on knowing proper entries. *)
LEMMA NotifyTypes ==
  ASSUME NEW known \in [Keys -> StoredEntry], NEW kv \in KeyVals,
         \A k \in Keys : kv[k].hasValue => kv[k] \in StoredEntry
  PROVE  notifySubscriber(known, kv) \in [Keys -> StoredEntry]
<1>1. ASSUME NEW k \in Keys, ~kv[k].hasValue, known[k] # Absent
      PROVE  updateKvStoreTtl(known[k], kv[k]) \in StoredEntry
  <2>1. known[k] \in Entry /\ known[k].hasValue /\ known[k].version > 0
    BY <1>1 DEF StoredEntry
  <2>2. kv[k] \in Entry
    BY DEF KeyVals
  <2> QED
    BY <2>1, <2>2 DEF updateKvStoreTtl, Entry, StoredEntry
<1> QED
  BY <1>1 DEF notifySubscriber

-----------------------------------------------------------------------------
LEMMA SetTypes ==
  ASSUME NEW n \in Nodes, NEW m \in Nodes, NEW kv \in KeyVals, NEW ids \in SUBSET Nodes
  PROVE  Set(n, m, kv, ids) \in Rpc /\ Set(n, m, kv, ids).type = "set"
BY DEF Set, Rpc

LEMMA FinalizeFullSyncTypes ==
  ASSUME NEW n \in Nodes, NEW sender \in Nodes, NEW store \in [Keys -> StoredEntry], NEW peers, NEW keys
  PROVE  /\ finalizeFullSync(n, store, peers, keys, sender) \in SUBSET Rpc
         /\ NotReplies(finalizeFullSync(n, store, peers, keys, sender))
<1> DEFINE updates == [k \in Keys |-> IF k \in keys THEN store[k] ELSE Absent]
<1>1. updates \in KeyVals
  BY StoredEntryIsEntry DEF KeyVals
<1>2. finalizeFullSync(n, store, peers, keys, sender) \subseteq {Set(n, sender, updates, {n})}
  BY DEF finalizeFullSync
<1> HIDE DEF updates
<1> QED
  BY SMT, <1>1, <1>2, SetTypes DEF NotReplies

LEMMA FloodPublicationTypes ==
  ASSUME NEW n \in Nodes, NEW kv \in KeyVals, NEW ids \in SUBSET Nodes, NEW peers, NEW from
  PROVE  /\ floodPublication(n, kv, ids, peers, from) \in SUBSET Rpc
         /\ NotReplies(floodPublication(n, kv, ids, peers, from))
<1>1. FloodPeers(n, peers, from) \subseteq Nodes
  BY DEF FloodPeers
<1>2. \A m \in Nodes : Set(n, m, kv, ids \cup {n}) \in Rpc /\ Set(n, m, kv, ids \cup {n}).type = "set"
  BY SetTypes
<1> QED
  BY <1>1, <1>2 DEF floodPublication, NotReplies

(***************************************************************************)
(* mergePublication: whatever is merged, the node stays well formed, only  *)
(* sends calls, its store advances, and a peer it sends back to IDLE finds *)
(* the timer running.  Values alone never send a peer back to IDLE.        *)
(***************************************************************************)
LEMMA MergePublicationOutcome ==
  ASSUME IInv, NEW n \in Nodes, NEW pub,
         pub.keyVals \in KeyVals, pub.nodeIds \in SUBSET Nodes, pub.tobeUpdatedKeys \in SUBSET Keys,
         NEW from \in Nodes \cup {NoNode}, NEW syncedWith \in Nodes \cup {NoNode}
  PROVE  /\ mergePublication(n, pub, from, syncedWith) \in Outcome
         /\ NotReplies(mergePublication(n, pub, from, syncedWith).sent)
         /\ Advanced(kvStore[n], mergePublication(n, pub, from, syncedWith).store)
         /\ IdlePeers(mergePublication(n, pub, from, syncedWith).peers) # {}
              => mergePublication(n, pub, from, syncedWith).timer
         /\ (\A k \in Keys : pub.keyVals[k] # Absent => pub.keyVals[k].hasValue)
              => mergePublication(n, pub, from, syncedWith).peers = peerState[n]
<1> DEFINE r == mergePublication(n, pub, from, syncedWith)
           back == IF syncedWith = NoNode THEN {} ELSE pub.tobeUpdatedKeys \cup pendingKeys[n][syncedWith]
           pending == [m \in Nodes |-> IF m = syncedWith THEN {} ELSE pendingKeys[n][m]]
           sender == IF syncedWith # NoNode THEN syncedWith ELSE from
           result == mergeKeyValues(kvStore[n], pub.keyVals, sender)
           delta == result.keyVals
           resync == result.inconsistent /\ sender \in Nodes /\ peerState[n][sender] # "NONE"
           flood == IF KeysOf(delta) = {} THEN {}
                    ELSE floodPublication(n, delta, pub.nodeIds, peerState[n], from)
           final == IF back = {} THEN {}
                    ELSE finalizeFullSync(n, result.store, peerState[n], back, syncedWith)
           ignored == n \in pub.nodeIds \/ (KeysOf(pub.keyVals) = {} /\ back = {})
<1>1. /\ ignored => r = [store |-> kvStore[n], peers |-> peerState[n], pending |-> pendingKeys[n],
                         timer |-> syncTimer[n], known |-> subscriber[n], sent |-> {}]
      /\ ~ignored /\ resync =>
           r = [store |-> result.store, pending |-> pending,
                peers |-> [peerState[n] EXCEPT ![sender] = getNextState(@, "INCONSISTENCY_DETECTED")],
                timer |-> TRUE, known |-> subscriber[n], sent |-> {}]
      /\ ~ignored /\ ~resync =>
           r = [store |-> result.store, peers |-> peerState[n],
                pending |-> IF KeysOf(delta) = {} THEN pending
                            ELSE pendPublication(delta, peerState[n], pending, from),
                timer |-> syncTimer[n], known |-> notifySubscriber(subscriber[n], delta),
                sent |-> flood \cup final]
  BY DEF mergePublication
<1>2. NodeTypes(n)
  BY NodeTyping
<1>3. /\ result.store \in [Keys -> StoredEntry] /\ Advanced(kvStore[n], result.store)
      /\ delta \in KeyVals /\ \A k \in Keys : delta[k].hasValue => delta[k] \in StoredEntry
  BY <1>2, MergeKeyValuesTypes DEF NodeTypes
<1>4. ASSUME \A k \in Keys : pub.keyVals[k] # Absent => pub.keyVals[k].hasValue
      PROVE  ~result.inconsistent
  <2>1. \A k \in KeysOf(pub.keyVals) : getMergeType(pub.keyVals[k], kvStore[n][k], sender) # "RESYNC_NEEDED"
    BY <1>4, ValuesAreConsistent DEF KeysOf, KeyVals
  <2> QED
    BY <2>1 DEF mergeKeyValues
<1>5. pending \in [Nodes -> SUBSET Keys]
  BY <1>2 DEF NodeTypes
<1>6. pendPublication(delta, peerState[n], pending, from) \in [Nodes -> SUBSET Keys]
  <2>1. KeysOf(delta) \subseteq Keys
    BY <1>3 DEF KeysOf, KeyVals
  <2> QED
    BY <1>5, <2>1 DEF pendPublication
<1>7. flood \in SUBSET Rpc /\ NotReplies(flood)
  BY <1>3, FloodPublicationTypes DEF NotReplies
<1>8. final \in SUBSET Rpc /\ NotReplies(final)
  BY <1>3, FinalizeFullSyncTypes DEF NotReplies
<1>9. notifySubscriber(subscriber[n], delta) \in [Keys -> StoredEntry]
  BY <1>2, <1>3, NotifyTypes DEF NodeTypes
<1>10. IdlePeers(peerState[n]) # {} => syncTimer[n]
  BY DEF IInv, NoStrandedPeer
<1> HIDE DEF r, back, pending, sender, result, delta, resync, flood, final, ignored
<1>11. CASE ignored
  <2>1. r = [store |-> kvStore[n], peers |-> peerState[n], pending |-> pendingKeys[n],
             timer |-> syncTimer[n], known |-> subscriber[n], sent |-> {}]
    BY <1>1, <1>11
  <2>2. r \in Outcome
    BY <1>2, <2>1 DEF NodeTypes, Outcome
  <2>3. r.store = kvStore[n] /\ r.peers = peerState[n] /\ r.timer = syncTimer[n] /\ r.sent = {}
    BY <2>1
  <2> QED
    BY <1>10, <2>2, <2>3 DEF r, NotReplies, Advanced
<1>12. CASE ~ignored /\ resync
  <2>1. sender \in Nodes /\ result.inconsistent
    BY <1>12 DEF resync
  <2>2. [peerState[n] EXCEPT ![sender] = getNextState(@, "INCONSISTENCY_DETECTED")] \in [Nodes -> PeerStates]
    BY <1>2, <2>1 DEF NodeTypes, getNextState, PeerStates
  <2>3. r = [store |-> result.store, pending |-> pending,
             peers |-> [peerState[n] EXCEPT ![sender] = getNextState(@, "INCONSISTENCY_DETECTED")],
             timer |-> TRUE, known |-> subscriber[n], sent |-> {}]
    BY <1>1, <1>12
  <2>4. r \in Outcome
    BY <1>2, <1>3, <1>5, <2>2, <2>3 DEF NodeTypes, Outcome
  <2>5. r.store = result.store /\ r.timer = TRUE /\ r.sent = {}
    BY <2>3
  <2> QED
    BY <1>3, <1>4, <2>1, <2>4, <2>5 DEF r, NotReplies
<1>13. CASE ~ignored /\ ~resync
  <2>1. flood \cup final \in SUBSET Rpc /\ NotReplies(flood \cup final)
    BY <1>7, <1>8 DEF NotReplies
  <2> DEFINE pend == IF KeysOf(delta) = {} THEN pending
                     ELSE pendPublication(delta, peerState[n], pending, from)
  <2>2. r = [store |-> result.store, peers |-> peerState[n], pending |-> pend, timer |-> syncTimer[n],
             known |-> notifySubscriber(subscriber[n], delta), sent |-> flood \cup final]
    BY <1>1, <1>13
  <2>3. pend \in [Nodes -> SUBSET Keys]
    BY <1>5, <1>6
  <2> HIDE DEF pend
  <2>4. r \in Outcome
    BY <1>2, <1>3, <1>9, <2>1, <2>2, <2>3 DEF NodeTypes, Outcome
  <2>5. r.store = result.store /\ r.peers = peerState[n] /\ r.timer = syncTimer[n] /\ r.sent = flood \cup final
    BY <2>2
  <2> QED
    BY <1>3, <1>10, <2>1, <2>4, <2>5 DEF r
<1> QED
  BY <1>11, <1>12, <1>13 DEF r

-----------------------------------------------------------------------------
(* What a step may do to the stores. *)
StoreStep == \A n \in Nodes : Advanced(kvStore[n], kvStore'[n])

LEMMA ApplyPreserves ==
  ASSUME IInv, NEW n \in Nodes, NEW r \in Outcome, NEW done, NEW more \in SUBSET Rpc,
         NotReplies(r.sent), NotReplies(more), Advanced(kvStore[n], r.store),
         IdlePeers(r.peers) # {} => r.timer,
         Apply(n, r, done, more),
         syncLimit' \in [Nodes -> 1..MaxSyncLimit], failures' \in Nat, peerEvents' \in Nat
  PROVE  IInv' /\ StoreStep
<1> DEFINE rs == r.store
           rp == r.peers
           rq == r.pending
           rt == r.timer
           rk == r.known
           rc == r.sent
<1>1. /\ rs \in [Keys -> StoredEntry] /\ rp \in [Nodes -> PeerStates] /\ rq \in [Nodes -> SUBSET Keys]
      /\ rt \in BOOLEAN /\ rk \in [Keys -> StoredEntry] /\ rc \in SUBSET Rpc
  BY DEF Outcome
<1>2. /\ kvStore' = [kvStore EXCEPT ![n] = rs]
      /\ peerState' = [peerState EXCEPT ![n] = rp]
      /\ pendingKeys' = [pendingKeys EXCEPT ![n] = rq]
      /\ syncTimer' = [syncTimer EXCEPT ![n] = rt]
      /\ subscriber' = [subscriber EXCEPT ![n] = rk]
      /\ rpcs' = (rpcs \ done) \cup rc \cup more
  BY DEF Apply
<1>3. NotReplies(rc) /\ Advanced(kvStore[n], rs) /\ (IdlePeers(rp) # {} => rt)
  OBVIOUS
<1> HIDE DEF rs, rp, rq, rt, rk, rc
<1>4. TypeOK'
  <2>1. /\ kvStore' \in [Nodes -> [Keys -> StoredEntry]]
        /\ pendingKeys' \in [Nodes -> [Nodes -> SUBSET Keys]]
        /\ syncTimer' \in [Nodes -> BOOLEAN]
        /\ subscriber' \in [Nodes -> [Keys -> StoredEntry]]
    BY <1>1, <1>2 DEF IInv, TypeOK
  <2>2. peerState' \in [Nodes -> [Nodes -> PeerStates \cup {"UNDEFINED"}]]
    <3>1. rp \in [Nodes -> PeerStates \cup {"UNDEFINED"}]
      BY <1>1
    <3> QED
      BY <1>2, <3>1 DEF IInv, TypeOK
  <2>3. rpcs' \subseteq Rpc
    BY <1>1, <1>2 DEF IInv, TypeOK
  <2> QED
    BY <2>1, <2>2, <2>3 DEF TypeOK
<1>5. NoUndefinedTransition'
  <2> SUFFICES ASSUME NEW a \in Nodes, NEW b \in Nodes
               PROVE  peerState'[a][b] # "UNDEFINED"
    BY DEF NoUndefinedTransition
  <2>1. CASE a = n
    BY <1>1, <1>2, <2>1 DEF IInv, TypeOK, PeerStates
  <2>2. CASE a # n
    BY <1>2, <2>2 DEF IInv, TypeOK, NoUndefinedTransition
  <2> QED
    BY <2>1, <2>2
<1>6. NoStrandedPeer'
  <2> SUFFICES ASSUME NEW a \in Nodes, IdlePeers(peerState'[a]) # {}
               PROVE  syncTimer'[a]
    BY DEF NoStrandedPeer
  <2>1. CASE a = n
    <3>1. peerState'[a] = rp /\ syncTimer'[a] = rt
      BY <1>2, <2>1 DEF IInv, TypeOK
    <3> QED
      BY <1>3, <3>1
  <2>2. CASE a # n
    <3>1. peerState'[a] = peerState[a] /\ syncTimer'[a] = syncTimer[a]
      BY <1>2, <2>2 DEF IInv, TypeOK
    <3> QED
      BY <3>1 DEF IInv, NoStrandedPeer
  <2> QED
    BY <2>1, <2>2
<1>7. RepliesCarryValues'
  BY <1>2, <1>3 DEF IInv, RepliesCarryValues, NotReplies
<1>8. StoreStep
  BY <1>2, <1>3 DEF IInv, TypeOK, StoreStep, Advanced
<1> QED
  BY <1>4, <1>5, <1>6, <1>7, <1>8 DEF IInv

(* Steps that leave the stores alone and move one peer of a node, or none. *)
LEMMA UnchangedStores == ASSUME UNCHANGED kvStore PROVE StoreStep
BY DEF StoreStep, Advanced

LEMMA InitIInv == Init => IInv
<1> SUFFICES ASSUME Init PROVE IInv
  OBVIOUS
<1>1. NoKeyVals \in [Keys -> StoredEntry]
  BY StoredEntryIsEntry DEF NoKeyVals
<1>2. TypeOK
  BY SMT, <1>1, LimitAssumption DEF Init, TypeOK, PeerStates
<1> QED
  BY <1>2 DEF Init, IInv, NoUndefinedTransition, NoStrandedPeer, RepliesCarryValues

-----------------------------------------------------------------------------
LEMMA SetKeyValsStep == ASSUME IInv, NEW w \in Writes, SetKeyVals(w) PROVE IInv' /\ StoreStep
<1> DEFINE e == [version |-> w.version, originatorId |-> w.node, value |-> w.value, hasValue |-> TRUE,
                 ttlVersion |-> 0, ttl |-> TtlInfinity]
           pub == [keyVals |-> [NoKeyVals EXCEPT ![w.key] = e], nodeIds |-> {}, tobeUpdatedKeys |-> {}]
           r == mergePublication(w.node, pub, NoNode, NoNode)
<1>1. w.node \in Nodes /\ w.key \in Keys /\ w.version \in Nat /\ w.value \in Nat /\ w.node \in Nat
  BY WritesAssumption, NodesAssumption
<1>2. e \in Entry
  BY SMT, <1>1 DEF Entry, TtlInfinity
<1>3. pub.keyVals \in KeyVals /\ pub.nodeIds \in SUBSET Nodes /\ pub.tobeUpdatedKeys \in SUBSET Keys
  BY <1>2, StoredEntryIsEntry DEF NoKeyVals, KeyVals
<1>4. /\ Apply(w.node, r, {}, {})
      /\ UNCHANGED <<syncLimit, failures, peerEvents>>
  BY DEF SetKeyVals
<1> HIDE DEF pub
<1>5. /\ r \in Outcome /\ NotReplies(r.sent) /\ Advanced(kvStore[w.node], r.store)
      /\ IdlePeers(r.peers) # {} => r.timer
  BY <1>1, <1>3, MergePublicationOutcome
<1> HIDE DEF r
<1>6. syncLimit' \in [Nodes -> 1..MaxSyncLimit] /\ failures' \in Nat /\ peerEvents' \in Nat
  BY <1>4 DEF IInv, TypeOK
<1>7. NotReplies({})
  BY DEF NotReplies
<1> QED
  BY <1>1, <1>4, <1>5, <1>6, <1>7, ApplyPreserves

LEMMA RefreshTypes ==
  ASSUME NEW e \in Entry
  PROVE  [e EXCEPT !.hasValue = FALSE, !.value = 0, !.ttlVersion = @ + 1] \in Entry
<1>1. [e EXCEPT !.hasValue = FALSE] \in Entry
  BY DEF Entry
<1>2. \A f \in Entry : [f EXCEPT !.value = 0] \in Entry
  BY DEF Entry
<1>3. \A f \in Entry : [f EXCEPT !.ttlVersion = @ + 1] \in Entry
  BY SMT DEF Entry
<1>4. [e EXCEPT !.hasValue = FALSE, !.value = 0, !.ttlVersion = @ + 1]
        = [[[e EXCEPT !.hasValue = FALSE] EXCEPT !.value = 0] EXCEPT !.ttlVersion = @ + 1]
  BY DEF Entry
<1> QED
  BY <1>1, <1>2, <1>3, <1>4

LEMMA AdvertiseTtlUpdatesStep ==
  ASSUME IInv, NEW n \in Nodes, NEW keys \in SUBSET Keys, AdvertiseTtlUpdates(n, keys)
  PROVE  IInv' /\ StoreStep
<1> DEFINE refreshed(k) == [kvStore[n][k] EXCEPT !.hasValue = FALSE, !.value = 0, !.ttlVersion = @ + 1]
           pub == [keyVals |-> [k \in Keys |-> IF k \in keys THEN refreshed(k) ELSE Absent],
                   nodeIds |-> {}, tobeUpdatedKeys |-> {}]
           r == mergePublication(n, pub, NoNode, NoNode)
<1>1. \A k \in Keys : refreshed(k) \in Entry
  <2> SUFFICES ASSUME NEW k \in Keys PROVE refreshed(k) \in Entry
    OBVIOUS
  <2>1. kvStore[n][k] \in Entry
    BY SMT, StoredEntryIsEntry DEF IInv, TypeOK
  <2> QED
    BY <2>1, RefreshTypes
<1>2. pub.keyVals \in KeyVals /\ pub.nodeIds \in SUBSET Nodes /\ pub.tobeUpdatedKeys \in SUBSET Keys
  BY <1>1, StoredEntryIsEntry DEF KeyVals
<1>3. /\ Apply(n, r, {}, {})
      /\ UNCHANGED <<syncLimit, failures, peerEvents>>
  BY DEF AdvertiseTtlUpdates
<1> HIDE DEF pub
<1>4. /\ r \in Outcome /\ NotReplies(r.sent) /\ Advanced(kvStore[n], r.store)
      /\ IdlePeers(r.peers) # {} => r.timer
  BY <1>2, MergePublicationOutcome
<1> HIDE DEF r
<1>5. syncLimit' \in [Nodes -> 1..MaxSyncLimit] /\ failures' \in Nat /\ peerEvents' \in Nat
  BY <1>3 DEF IInv, TypeOK
<1>6. NotReplies({})
  BY DEF NotReplies
<1> QED
  BY <1>3, <1>4, <1>5, <1>6, ApplyPreserves

LEMMA RpcTypes ==
  ASSUME IInv, NEW rpc \in rpcs
  PROVE  /\ rpc.src \in Nodes /\ rpc.dst \in Nodes /\ rpc.keyVals \in KeyVals
         /\ rpc.tobeUpdatedKeys \in SUBSET Keys /\ rpc.nodeIds \in SUBSET Nodes
BY DEF IInv, TypeOK, Rpc

LEMMA ErrorTypes ==
  ASSUME NEW n \in Nodes, NEW m \in Nodes
  PROVE  Error(n, m) \in Rpc /\ Error(n, m).type = "error"
BY StoredEntryIsEntry DEF Error, Rpc, KeyVals, NoKeyVals

LEMMA ProcessSetStep ==
  ASSUME IInv, NEW rpc \in rpcs, NEW answered \in BOOLEAN, ProcessSet(rpc, answered)
  PROVE  IInv' /\ StoreStep
<1> DEFINE r == mergePublication(rpc.dst, rpc, rpc.src, NoNode)
           more == IF answered THEN {} ELSE {Error(rpc.dst, rpc.src)}
<1>1. /\ Apply(rpc.dst, r, {rpc}, more)
      /\ failures' \in Nat /\ UNCHANGED <<syncLimit, peerEvents>>
  BY SMT DEF ProcessSet, IInv, TypeOK
<1>2. more \in SUBSET Rpc /\ NotReplies(more)
  BY RpcTypes, ErrorTypes DEF NotReplies
<1>3. /\ r \in Outcome /\ NotReplies(r.sent) /\ Advanced(kvStore[rpc.dst], r.store)
      /\ IdlePeers(r.peers) # {} => r.timer
  BY RpcTypes, MergePublicationOutcome
<1> HIDE DEF r, more
<1> QED
  BY <1>1, <1>2, <1>3, RpcTypes, ApplyPreserves DEF IInv, TypeOK

(* The transition SYNC_RESP_RCVD is taken in SYNCING and INITIALIZED only. *)
LEMMA ProcessThriftSuccessStep ==
  ASSUME IInv, NEW rpc \in rpcs, ProcessThriftSuccess(rpc)
  PROVE  IInv' /\ StoreStep
<1> DEFINE n == rpc.dst
           m == rpc.src
           r == mergePublication(n, rpc, NoNode, m)
           peers == [r.peers EXCEPT ![m] = getNextState(@, "SYNC_RESP_RCVD")]
           after == [r EXCEPT !.peers = peers, !.timer = IdlePeers(peers) # {}]
           ignored == peerState[n][m] \in {"NONE", "IDLE"}
<1>1. n \in Nodes /\ m \in Nodes
  BY RpcTypes
<1>2. CASE ignored /\ rpcs' = rpcs \ {rpc} /\ UNCHANGED <<kvStore, peerState, pendingKeys, syncTimer,
                                                         syncLimit, subscriber, failures, peerEvents>>
  BY <1>2 DEF IInv, TypeOK, NoUndefinedTransition, NoStrandedPeer, RepliesCarryValues, StoreStep, Advanced
<1>3. CASE /\ ~ignored
           /\ Apply(n, after, {rpc}, {})
           /\ syncLimit' = [syncLimit EXCEPT ![n] = IF 2 * syncLimit[n] < MaxSyncLimit
                                                    THEN 2 * syncLimit[n] ELSE MaxSyncLimit]
           /\ UNCHANGED <<failures, peerEvents>>
           /\ rpc.type = "reply"
  <2>1. \A k \in Keys : rpc.keyVals[k] # Absent => rpc.keyVals[k].hasValue
    BY <1>3 DEF IInv, RepliesCarryValues
  <2>2. r \in Outcome /\ NotReplies(r.sent) /\ Advanced(kvStore[n], r.store) /\ r.peers = peerState[n]
    <3>1. /\ rpc.keyVals \in KeyVals /\ rpc.tobeUpdatedKeys \in SUBSET Keys /\ rpc.nodeIds \in SUBSET Nodes
          /\ NoNode \in Nodes \cup {NoNode} /\ m \in Nodes \cup {NoNode}
      BY <1>1, RpcTypes
    <3> HIDE DEF n, m
    <3> QED
      BY <1>1, <2>1, <3>1, MergePublicationOutcome
  <2> HIDE DEF r
  <2>3. peerState[n][m] \in {"SYNCING", "INITIALIZED"} /\ peerState[n] \in [Nodes -> PeerStates]
    BY <1>1, <1>3, NodeTyping DEF NodeTypes, PeerStates
  <2>4. peers \in [Nodes -> PeerStates]
    BY <1>1, <2>2, <2>3 DEF getNextState, PeerStates
  <2> HIDE DEF peers
  <2>5. after \in Outcome /\ after.sent = r.sent /\ after.store = r.store
        /\ after.peers = peers /\ after.timer = (IdlePeers(peers) # {})
    BY <2>2, <2>4 DEF Outcome
  <2>6. syncLimit' \in [Nodes -> 1..MaxSyncLimit]
    BY SMT, <1>1, <1>3, LimitAssumption DEF IInv, TypeOK
  <2> HIDE DEF after, n, m
  <2>7. failures' \in Nat /\ peerEvents' \in Nat /\ NotReplies({})
    BY <1>3 DEF NotReplies, IInv, TypeOK
  <2> QED
    BY <1>1, <1>3, <2>2, <2>5, <2>6, <2>7, ApplyPreserves
<1> QED
  BY <1>2, <1>3 DEF ProcessThriftSuccess

(* The answer of a full-sync is taken from the store, so it carries values. *)
LEMMA ProcessDumpStep ==
  ASSUME IInv, NEW rpc \in rpcs, ProcessDump(rpc)
  PROVE  IInv' /\ StoreStep
<1> DEFINE diff == dumpDifference(kvStore[rpc.dst], rpc.keyVals)
           reply == Reply(rpc.dst, rpc.src, diff)
<1>1. kvStore[rpc.dst] \in [Keys -> StoredEntry]
  BY RpcTypes, NodeTyping DEF NodeTypes
<1>2. /\ diff.keyVals \in KeyVals /\ diff.tobeUpdatedKeys \in SUBSET Keys
      /\ \A k \in Keys : diff.keyVals[k] # Absent => diff.keyVals[k] \in StoredEntry
  BY <1>1, StoredEntryIsEntry DEF dumpDifference, KeyVals
<1>3. \A k \in Keys : diff.keyVals[k] # Absent => diff.keyVals[k].hasValue
  BY <1>2 DEF StoredEntry
<1> HIDE DEF diff
<1>4. reply \in Rpc /\ reply.keyVals = diff.keyVals
  BY <1>2, RpcTypes DEF Reply, Rpc
<1> HIDE DEF reply
<1>5. /\ rpcs' = (rpcs \ {rpc}) \cup {reply}
      /\ UNCHANGED <<kvStore, peerState, pendingKeys, syncTimer, syncLimit, subscriber, failures, peerEvents>>
  BY DEF ProcessDump, reply, diff
<1>6. TypeOK' /\ NoUndefinedTransition' /\ NoStrandedPeer'
  BY <1>4, <1>5 DEF IInv, TypeOK, NoUndefinedTransition, NoStrandedPeer
<1>7. RepliesCarryValues'
  BY <1>3, <1>4, <1>5 DEF IInv, RepliesCarryValues
<1> QED
  BY <1>5, <1>6, <1>7, UnchangedStores DEF IInv

LEMMA FailRpcStep ==
  ASSUME IInv, NEW rpc \in rpcs, FailRpc(rpc)
  PROVE  IInv' /\ StoreStep
<1>1. PICK a \in Nodes, b \in Nodes : rpcs' = (rpcs \ {rpc}) \cup {Error(a, b)}
  BY RpcTypes DEF FailRpc
<1>2. /\ failures' \in Nat
      /\ UNCHANGED <<kvStore, peerState, pendingKeys, syncTimer, syncLimit, subscriber, peerEvents>>
  BY SMT DEF FailRpc, IInv, TypeOK
<1>3. TypeOK' /\ NoUndefinedTransition' /\ NoStrandedPeer'
  BY <1>1, <1>2, ErrorTypes DEF IInv, TypeOK, NoUndefinedTransition, NoStrandedPeer
<1>4. RepliesCarryValues'
  BY <1>1, ErrorTypes DEF IInv, RepliesCarryValues
<1> QED
  BY <1>2, <1>3, <1>4, UnchangedStores DEF IInv

(***************************************************************************)
(* A step that changes the states of the peers of one node and its timer.  *)
(***************************************************************************)
LEMMA PeersStep ==
  ASSUME IInv, NEW n \in Nodes, NEW peers \in [Nodes -> PeerStates], NEW timer \in BOOLEAN,
         IdlePeers(peers) # {} => timer,
         peerState' = [peerState EXCEPT ![n] = peers],
         syncTimer' = [syncTimer EXCEPT ![n] = timer],
         pendingKeys' \in [Nodes -> [Nodes -> SUBSET Keys]],
         rpcs' \subseteq Rpc, \A rpc \in rpcs' : rpc \in rpcs \/ rpc.type # "reply",
         peerEvents' \in Nat,
         UNCHANGED <<kvStore, syncLimit, subscriber, failures>>
  PROVE  IInv' /\ StoreStep
<1>1. TypeOK'
  <2>1. peers \in [Nodes -> PeerStates \cup {"UNDEFINED"}]
    OBVIOUS
  <2>2. peerState' \in [Nodes -> [Nodes -> PeerStates \cup {"UNDEFINED"}]]
    BY <2>1 DEF IInv, TypeOK
  <2>3. syncTimer' \in [Nodes -> BOOLEAN]
    BY DEF IInv, TypeOK
  <2> QED
    BY <2>2, <2>3 DEF IInv, TypeOK
<1>2. \A a \in Nodes : /\ a = n => peerState'[a] = peers /\ syncTimer'[a] = timer
                       /\ a # n => peerState'[a] = peerState[a] /\ syncTimer'[a] = syncTimer[a]
  BY DEF IInv, TypeOK
<1>3. NoUndefinedTransition'
  BY SMT, <1>2 DEF IInv, NoUndefinedTransition, PeerStates
<1>4. NoStrandedPeer'
  <2> SUFFICES ASSUME NEW a \in Nodes, IdlePeers(peerState'[a]) # {}
               PROVE  syncTimer'[a]
    BY DEF NoStrandedPeer
  <2>1. CASE a = n
    BY <1>2, <2>1
  <2>2. CASE a # n
    BY <1>2, <2>2 DEF IInv, NoStrandedPeer
  <2> QED
    BY <2>1, <2>2
<1>5. RepliesCarryValues'
  BY DEF IInv, RepliesCarryValues
<1> QED
  BY <1>1, <1>3, <1>4, <1>5, UnchangedStores DEF IInv

LEMMA ProcessThriftFailureStep ==
  ASSUME IInv, NEW rpc \in rpcs, ProcessThriftFailure(rpc)
  PROVE  IInv' /\ StoreStep
<1> DEFINE n == rpc.dst
           m == rpc.src
<1>1. n \in Nodes /\ m \in Nodes /\ NodeTypes(n)
  BY RpcTypes, NodeTyping
<1>2. /\ rpcs' = rpcs \ {rpc}
      /\ UNCHANGED <<kvStore, pendingKeys, syncLimit, subscriber, failures, peerEvents>>
  BY DEF ProcessThriftFailure
<1>3. CASE peerState[n][m] = "NONE"
  <2>1. UNCHANGED <<peerState, syncTimer>>
    BY <1>3 DEF ProcessThriftFailure
  <2> QED
    BY <1>2, <2>1, UnchangedStores
    DEF IInv, TypeOK, NoUndefinedTransition, NoStrandedPeer, RepliesCarryValues
<1>4. CASE peerState[n][m] # "NONE"
  <2> DEFINE peers == [peerState[n] EXCEPT ![m] = "IDLE"]
  <2>1. peerState' = [peerState EXCEPT ![n] = peers] /\ syncTimer' = [syncTimer EXCEPT ![n] = TRUE]
    BY <1>1, <1>4 DEF ProcessThriftFailure, getNextState, IInv, TypeOK
  <2>2. peers \in [Nodes -> PeerStates]
    BY <1>1 DEF NodeTypes, PeerStates
  <2> HIDE DEF peers, n, m
  <2>3. /\ pendingKeys' \in [Nodes -> [Nodes -> SUBSET Keys]] /\ rpcs' \subseteq Rpc
        /\ peerEvents' \in Nat
    BY <1>2 DEF IInv, TypeOK
  <2> QED
    BY <1>1, <1>2, <2>1, <2>2, <2>3, PeersStep
<1> QED
  BY <1>3, <1>4

(* The peers left IDLE by requestThriftPeerSync keep thriftSyncTimer_ scheduled. *)
LEMMA RequestThriftPeerSyncStep ==
  ASSUME IInv, NEW n \in Nodes, NEW chosen \in SUBSET Nodes, RequestThriftPeerSync(n, chosen)
  PROVE  IInv' /\ StoreStep
<1> DEFINE idle == IdlePeers(peerState[n])
           syncing == {m \in Nodes : peerState[n][m] = "SYNCING"}
           peers == [m \in Nodes |-> IF m \in chosen THEN getNextState(peerState[n][m], "PEER_ADD")
                                     ELSE peerState[n][m]]
           timer == idle # chosen \/ Cardinality(syncing \cup chosen) > syncLimit[n]
           dumps == {Dump(n, m, dumpHashWithFilters(kvStore[n])) : m \in chosen}
<1>1. NodeTypes(n)
  BY NodeTyping
<1>2. /\ peerState' = [peerState EXCEPT ![n] = peers]
      /\ syncTimer' = [syncTimer EXCEPT ![n] = timer]
      /\ rpcs' = rpcs \cup dumps
      /\ UNCHANGED <<kvStore, pendingKeys, syncLimit, subscriber, failures, peerEvents>>
      /\ chosen \subseteq idle
  BY DEF RequestThriftPeerSync, IInv, TypeOK
<1>3. peers \in [Nodes -> PeerStates]
  <2> SUFFICES ASSUME NEW m \in Nodes PROVE peers[m] \in PeerStates
    OBVIOUS
  <2>1. CASE m \in chosen
    BY <1>2, <2>1 DEF IdlePeers, getNextState, PeerStates
  <2>2. CASE m \notin chosen
    BY <1>1, <2>2 DEF NodeTypes
  <2> QED
    BY <2>1, <2>2
<1>4. IdlePeers(peers) # {} => timer
  <2> SUFFICES ASSUME NEW m \in IdlePeers(peers) PROVE idle # chosen
    OBVIOUS
  <2>1. m \in Nodes /\ peers[m] = "IDLE"
    BY DEF IdlePeers
  <2>2. m \notin chosen
    BY <1>2, <2>1 DEF IdlePeers, getNextState
  <2>3. m \in idle
    BY <2>1, <2>2 DEF IdlePeers
  <2> QED
    BY <2>2, <2>3
<1>5. dumps \subseteq Rpc /\ \A rpc \in dumps : rpc.type # "reply"
  <2>1. dumpHashWithFilters(kvStore[n]) \in KeyVals
    <3>1. \A k \in Keys : kvStore[n][k] \in Entry
      BY <1>1, StoredEntryIsEntry DEF NodeTypes
    <3>2. \A e \in Entry : [e EXCEPT !.hasValue = FALSE] \in Entry
      BY DEF Entry
    <3> QED
      BY <1>1, <3>1, <3>2 DEF dumpHashWithFilters, KeyVals, NodeTypes
  <2>2. \A m \in Nodes : Dump(n, m, dumpHashWithFilters(kvStore[n])) \in Rpc
                        /\ Dump(n, m, dumpHashWithFilters(kvStore[n])).type = "dump"
    BY <2>1 DEF Dump, Rpc
  <2> QED
    BY <2>2
<1>6. timer \in BOOLEAN
  OBVIOUS
<1> HIDE DEF peers, timer, dumps
<1>7. /\ pendingKeys' \in [Nodes -> [Nodes -> SUBSET Keys]] /\ rpcs' \subseteq Rpc
      /\ peerEvents' \in Nat /\ \A rpc \in rpcs' : rpc \in rpcs \/ rpc.type # "reply"
  BY <1>2, <1>5 DEF IInv, TypeOK
<1> QED
  BY <1>2, <1>3, <1>4, <1>6, <1>7, PeersStep

LEMMA AddThriftPeersStep ==
  ASSUME IInv, NEW n \in Nodes, NEW m \in Nodes, AddThriftPeers(n, m)
  PROVE  IInv' /\ StoreStep
<1> DEFINE peers == [peerState[n] EXCEPT ![m] = "IDLE"]
<1>1. peers \in [Nodes -> PeerStates]
  BY NodeTyping DEF NodeTypes, PeerStates
<1>2. /\ peerState' = [peerState EXCEPT ![n] = peers]
      /\ syncTimer' = [syncTimer EXCEPT ![n] = TRUE]
      /\ UNCHANGED <<kvStore, pendingKeys, syncLimit, subscriber, rpcs, failures>>
      /\ peerEvents' \in Nat
  BY SMT DEF AddThriftPeers, IInv, TypeOK
<1> HIDE DEF peers
<1>3. pendingKeys' \in [Nodes -> [Nodes -> SUBSET Keys]] /\ rpcs' \subseteq Rpc
  BY <1>2 DEF IInv, TypeOK
<1> QED
  BY <1>1, <1>2, <1>3, PeersStep

LEMMA DelThriftPeersStep ==
  ASSUME IInv, NEW n \in Nodes, NEW m \in Nodes, DelThriftPeers(n, m)
  PROVE  IInv' /\ StoreStep
<1> DEFINE peers == [peerState[n] EXCEPT ![m] = "NONE"]
<1>1. peers \in [Nodes -> PeerStates] /\ syncTimer[n] \in BOOLEAN
  BY NodeTyping DEF NodeTypes, PeerStates
<1>2. IdlePeers(peers) # {} => syncTimer[n]
  <2>1. IdlePeers(peers) \subseteq IdlePeers(peerState[n])
    BY NodeTyping DEF NodeTypes, IdlePeers
  <2> QED
    BY <2>1 DEF IInv, NoStrandedPeer
<1>3. /\ peerState' = [peerState EXCEPT ![n] = peers]
      /\ syncTimer' = [syncTimer EXCEPT ![n] = syncTimer[n]]
      /\ UNCHANGED <<kvStore, syncLimit, subscriber, rpcs, failures>>
      /\ peerEvents' \in Nat
  BY SMT DEF DelThriftPeers, IInv, TypeOK
<1>4. pendingKeys' \in [Nodes -> [Nodes -> SUBSET Keys]]
  <2> DEFINE row == [pendingKeys[n] EXCEPT ![m] = {}]
  <2>1. row \in [Nodes -> SUBSET Keys]
    BY NodeTyping DEF NodeTypes
  <2>2. pendingKeys' = [pendingKeys EXCEPT ![n] = row]
    BY DEF DelThriftPeers, IInv, TypeOK
  <2> HIDE DEF row
  <2> QED
    BY <2>1, <2>2 DEF IInv, TypeOK
<1> HIDE DEF peers
<1>5. rpcs' \subseteq Rpc
  BY <1>3 DEF IInv, TypeOK
<1> QED
  BY <1>1, <1>2, <1>3, <1>4, <1>5, PeersStep

-----------------------------------------------------------------------------
LEMMA NextIInv == IInv /\ [Next]_vars => IInv' /\ StoreStep
<1> SUFFICES ASSUME IInv, [Next]_vars PROVE IInv' /\ StoreStep
  OBVIOUS
<1>1. CASE UNCHANGED vars
  BY <1>1, UnchangedStores
  DEF vars, IInv, TypeOK, NoUndefinedTransition, NoStrandedPeer, RepliesCarryValues
<1>2. CASE System
  BY <1>2, ProcessSetStep, ProcessDumpStep, ProcessThriftSuccessStep, ProcessThriftFailureStep,
     RequestThriftPeerSyncStep DEF System
<1>3. CASE Environment
  BY <1>3, SetKeyValsStep, AdvertiseTtlUpdatesStep, ProcessSetStep, FailRpcStep, AddThriftPeersStep,
     DelThriftPeersStep DEF Environment
<1> QED
  BY <1>1, <1>2, <1>3 DEF Next

LEMMA IInvInvariant == Spec => []IInv
<1>1. Init => IInv
  BY InitIInv
<1>2. IInv /\ [Next]_vars => IInv'
  BY NextIInv
<1> QED
  BY <1>1, <1>2, PTL DEF Spec

(***************************************************************************)
(* KvStoreDb keeps its tables well formed: stores hold proper entries, and *)
(* what readers of kvStoreUpdatesQueue know is a proper entry too.         *)
(***************************************************************************)
THEOREM TypeCorrectness == Spec => []TypeOK
<1>1. IInv => TypeOK
  BY DEF IInv
<1> QED
  BY <1>1, IInvInvariant, PTL

(***************************************************************************)
(* getNextState: its CHECK never fails, in no network and under no order   *)
(* of answers, failures, inconsistencies and peer updates.                 *)
(***************************************************************************)
THEOREM DefinedTransitions == Spec => []NoUndefinedTransition
<1>1. IInv => NoUndefinedTransition
  BY DEF IInv
<1> QED
  BY <1>1, IInvInvariant, PTL

(***************************************************************************)
(* requestThriftPeerSync, disconnectPeer, addThriftPeers: no peer is ever  *)
(* left waiting for a full-sync without thriftSyncTimer_ scheduled.        *)
(***************************************************************************)
THEOREM TimersRun == Spec => []NoStrandedPeer
<1>1. IInv => NoStrandedPeer
  BY DEF IInv
<1> QED
  BY <1>1, IInvInvariant, PTL

(***************************************************************************)
(* mergePublication: in no network and under no order of floods, answers   *)
(* and ttl updates does a store replace an entry by an older one.          *)
(***************************************************************************)
THEOREM StoresAdvance == Spec => StoresOnlyAdvance
<1>1. IInv /\ [Next]_vars =>
        [\A n \in Nodes, k \in Keys : kvStore'[n][k] = kvStore[n][k] \/ Newer(kvStore'[n][k], kvStore[n][k])]_vars
  BY NextIInv DEF StoreStep, Advanced
<1> QED
  BY <1>1, IInvInvariant, PTL DEF Spec, StoresOnlyAdvance

-----------------------------------------------------------------------------
(***************************************************************************)
(* Nothing is lost.  A publication holds values or ttl updates, never      *)
(* both; whoever it has passed holds what it carries, or something newer.  *)
(***************************************************************************)
AllValues(kv) == \A k \in Keys : kv[k] # Absent => kv[k].hasValue
NoValues(kv) == \A k \in Keys : ~kv[k].hasValue

(* Ttls are infinite, and what carries a value carries a version. *)
Lasting(e) == (e # Absent => e.ttl = TtlInfinity) /\ (e.hasValue => e.version > 0)

Holds(x, kv) == \A k \in Keys : kv[k].hasValue => AtLeast(kvStore[x][k], kv[k])

Sound(rpc) ==
  /\ rpc.type \in {"set", "reply"} => \A k \in Keys : Lasting(rpc.keyVals[k])
  /\ rpc.type = "reply" => rpc.nodeIds = {} /\ AllValues(rpc.keyVals) /\ Holds(rpc.src, rpc.keyVals)
  /\ rpc.type = "set" => /\ rpc.src \in rpc.nodeIds /\ \A x \in rpc.nodeIds : Holds(x, rpc.keyVals)
                         /\ AllValues(rpc.keyVals) \/ NoValues(rpc.keyVals)

WireInv ==
  /\ \A n \in Nodes, k \in Keys : Lasting(kvStore[n][k])
  /\ \A rpc \in rpcs : Sound(rpc)

LossInv == IInv /\ WireInv /\ NothingLost

(* A call on its way that makes up for what peer m lacks of `mine', n's entry of key k. *)
Covers(rpc, mine, n, m, k) ==
  \/ /\ rpc.type = "set" /\ rpc.src = n /\ rpc.dst = m
     /\ rpc.keyVals[k].hasValue /\ AtLeast(rpc.keyVals[k], mine) /\ m \notin rpc.nodeIds
  \/ /\ rpc.type = "dump" /\ rpc.src = n /\ rpc.dst = m /\ AtLeast(rpc.keyVals[k], mine)
  \/ /\ rpc.type = "reply" /\ rpc.src = m /\ rpc.dst = n /\ k \in rpc.tobeUpdatedKeys
  \/ /\ rpc.type = "error" /\ rpc.src = m /\ rpc.dst = n

LEMMA CoveredDef ==
  ASSUME NEW n, NEW m, NEW k
  PROVE  /\ Covered(n, m, k) <=> \/ AtLeast(kvStore[m][k], kvStore[n][k])
                                 \/ \E rpc \in rpcs : Covers(rpc, kvStore[n][k], n, m, k)
         /\ Covered(n, m, k)' <=> \/ AtLeast(kvStore'[m][k], kvStore'[n][k])
                                  \/ \E rpc \in rpcs' : Covers(rpc, kvStore'[n][k], n, m, k)
BY DEF Covered, Covers

LEMMA AtLeastReflexive == ASSUME NEW a PROVE AtLeast(a, a)
BY DEF AtLeast

(* Only content counts. *)
LEMMA SameContent ==
  ASSUME NEW a \in Entry, NEW b \in Entry, NEW c \in Entry, content(b) = content(c), AtLeast(a, b)
  PROVE  AtLeast(a, c)
BY DEF AtLeast, NewerContent, content, Entry

LEMMA CoversSame ==
  ASSUME NEW rpc \in Rpc, NEW a \in Entry, NEW b \in Entry, content(a) = content(b),
         NEW n, NEW m, NEW k \in Keys, Covers(rpc, a, n, m, k)
  PROVE  Covers(rpc, b, n, m, k)
<1>1. rpc.keyVals[k] \in Entry
  BY DEF Rpc, KeyVals
<1>2. AtLeast(rpc.keyVals[k], a) => AtLeast(rpc.keyVals[k], b)
  BY <1>1, SameContent
<1> QED
  BY <1>2 DEF Covers

LEMMA Advances ==
  ASSUME IInv, IInv', StoreStep, NEW n \in Nodes, NEW k \in Keys
  PROVE  /\ kvStore[n][k] \in StoredEntry /\ kvStore[n][k] \in Entry
         /\ kvStore'[n][k] \in StoredEntry /\ kvStore'[n][k] \in Entry
         /\ AtLeast(kvStore'[n][k], kvStore[n][k])
<1>1. /\ kvStore[n][k] \in StoredEntry /\ kvStore[n][k] \in Entry
      /\ kvStore'[n][k] \in StoredEntry /\ kvStore'[n][k] \in Entry
  BY StoredEntryIsEntry DEF IInv, TypeOK
<1>2. kvStore'[n][k] = kvStore[n][k] \/ Newer(kvStore'[n][k], kvStore[n][k])
  BY DEF StoreStep, Advanced
<1> QED
  BY <1>1, <1>2 DEF Newer, AtLeast

(* Whoever holds what a call carries goes on holding it. *)
LEMMA HoldsOn ==
  ASSUME IInv, IInv', StoreStep, NEW n \in Nodes, NEW kv \in KeyVals, Holds(n, kv)
  PROVE  Holds(n, kv)'
<1> SUFFICES ASSUME NEW k \in Keys, kv[k].hasValue PROVE AtLeast(kvStore'[n][k], kv[k])
  BY DEF Holds
<1>1. kv[k] \in Entry /\ AtLeast(kvStore[n][k], kv[k])
  BY DEF KeyVals, Holds
<1> QED
  BY <1>1, Advances, AtLeastTransitive

LEMMA SoundStays ==
  ASSUME IInv, IInv', StoreStep, NEW rpc \in Rpc, Sound(rpc)
  PROVE  Sound(rpc)'
<1>1. rpc.src \in Nodes /\ rpc.keyVals \in KeyVals /\ rpc.nodeIds \in SUBSET Nodes
  BY DEF Rpc
<1>2. rpc.type = "reply" => Holds(rpc.src, rpc.keyVals)'
  BY <1>1, HoldsOn DEF Sound
<1>3. rpc.type = "set" => \A x \in rpc.nodeIds : Holds(x, rpc.keyVals)'
  BY <1>1, HoldsOn DEF Sound
<1> QED
  BY <1>2, <1>3 DEF Sound, Lasting, AllValues, NoValues

(* What covered a key goes on covering it as long as the call it rests on is in flight. *)
LEMMA CoverageStays ==
  ASSUME IInv, IInv', StoreStep, NEW a \in Nodes, NEW b \in Nodes, NEW k \in Keys,
         Covered(a, b, k), content(kvStore'[a][k]) = content(kvStore[a][k]),
         \A rpc \in rpcs : Covers(rpc, kvStore[a][k], a, b, k) => rpc \in rpcs' \/ Covered(a, b, k)'
  PROVE  Covered(a, b, k)'
<1>1. /\ kvStore[a][k] \in Entry /\ kvStore'[a][k] \in Entry
      /\ kvStore[b][k] \in Entry /\ kvStore'[b][k] \in Entry
      /\ AtLeast(kvStore'[b][k], kvStore[b][k])
  BY Advances
<1>2. CASE AtLeast(kvStore[b][k], kvStore[a][k])
  <2>1. AtLeast(kvStore'[b][k], kvStore[a][k])
    BY <1>1, <1>2, AtLeastTransitive
  <2>2. AtLeast(kvStore'[b][k], kvStore'[a][k])
    BY <1>1, <2>1, SameContent
  <2> QED
    BY <2>2, CoveredDef
<1>3. CASE \E rpc \in rpcs : Covers(rpc, kvStore[a][k], a, b, k)
  <2>1. PICK rpc \in rpcs : Covers(rpc, kvStore[a][k], a, b, k)
    BY <1>3
  <2>2. rpc \in Rpc
    BY DEF IInv, TypeOK
  <2>3. Covers(rpc, kvStore'[a][k], a, b, k)
    BY <1>1, <2>1, <2>2, CoversSame
  <2> QED
    BY <2>1, <2>3, CoveredDef
<1> QED
  BY <1>2, <1>3, CoveredDef

(* What a merge does to one entry: its content stays, or it is the update itself. *)
LEMMA MergedContent ==
  ASSUME NEW cur \in StoredEntry, NEW e \in Entry, NEW sender, Lasting(cur), Lasting(e)
  PROVE  /\ Lasting(MergeEntry(cur, e, sender))
         /\ \/ content(MergeEntry(cur, e, sender)) = content(cur)
            \/ IsMerged(cur, e, sender) /\ MergeEntry(cur, e, sender) = e /\ e.hasValue
         /\ e.hasValue => AtLeast(MergeEntry(cur, e, sender), e)
         /\ ~e.hasValue => content(MergeEntry(cur, e, sender)) = content(cur)
<1>1. cur \in Entry
  BY StoredEntryIsEntry
<1>2. CASE ~IsMerged(cur, e, sender)
  <2>1. MergeEntry(cur, e, sender) = cur
    BY <1>2 DEF MergeEntry
  <2>2. e.hasValue => AtLeast(MergeEntry(cur, e, sender), e)
    <3> SUFFICES ASSUME e.hasValue PROVE AtLeast(MergeEntry(cur, e, sender), e)
      OBVIOUS
    <3>1. e # Absent
      BY SMT DEF Absent
    <3>2. isValidTtl(e) /\ e.version > 0
      BY <3>1 DEF Lasting, isValidTtl
    <3> QED
      BY <3>2, MergeValueEntry
  <2> QED
    BY <2>1, <2>2
<1>3. CASE IsMerged(cur, e, sender) /\ getMergeType(e, cur, sender) = "UPDATE_ALL_NEEDED"
  <2>1. MergeEntry(cur, e, sender) = e
    BY <1>3 DEF MergeEntry
  <2>2. e.hasValue
    BY <1>3 DEF getMergeType, isTtlUpdate, ttlMergeType
  <2> QED
    BY <1>3, <2>1, <2>2, AtLeastReflexive
<1>4. CASE IsMerged(cur, e, sender) /\ getMergeType(e, cur, sender) # "UPDATE_ALL_NEEDED"
  <2>1. MergeEntry(cur, e, sender) = updateKvStoreTtl(cur, e)
    BY <1>4 DEF MergeEntry
  <2>2. content(MergeEntry(cur, e, sender)) = content(cur)
    BY <1>1, <2>1 DEF updateKvStoreTtl, content, Entry
  <2>3. e # Absent /\ isValidTtl(e)
    BY <1>4 DEF IsMerged
  <2>4. Lasting(MergeEntry(cur, e, sender))
    BY <1>1, <2>1, <2>3 DEF updateKvStoreTtl, Lasting, Entry, StoredEntry, Absent
  <2>5. e.hasValue => AtLeast(MergeEntry(cur, e, sender), e)
    BY <2>3, MergeValueEntry DEF Lasting
  <2> QED
    BY <2>2, <2>4, <2>5
<1> QED
  BY <1>2, <1>3, <1>4

(* A call that node n makes: it and everybody on the way hold what it carries. *)
SoundFrom(rpc, n, store) ==
  /\ rpc.type = "set" /\ rpc.src = n /\ n \in rpc.nodeIds
  /\ \A k \in Keys : Lasting(rpc.keyVals[k])
  /\ AllValues(rpc.keyVals) \/ NoValues(rpc.keyVals)
  /\ \A x \in rpc.nodeIds : x # n => Holds(x, rpc.keyVals)
  /\ \A k \in Keys : rpc.keyVals[k].hasValue => AtLeast(store[k], rpc.keyVals[k])

(* finalizeFullSync sends what the store holds. *)
LEMMA FinalizeCovers ==
  ASSUME NEW n \in Nodes, NEW sender \in Nodes, NEW store \in [Keys -> StoredEntry],
         \A k \in Keys : Lasting(store[k]), NEW peers, NEW keys
  PROVE  /\ \A rpc \in finalizeFullSync(n, store, peers, keys, sender) : SoundFrom(rpc, n, store)
         /\ \A k \in Keys :
              /\ k \in keys /\ store[k] # Absent /\ peers[sender] \notin {"NONE", "IDLE"} /\ sender # n
              => \E rpc \in finalizeFullSync(n, store, peers, keys, sender) :
                   Covers(rpc, store[k], n, sender, k)
<1> DEFINE updates == [k \in Keys |-> IF k \in keys THEN store[k] ELSE Absent]
           call == Set(n, sender, updates, {n})
           calls == finalizeFullSync(n, store, peers, keys, sender)
<1>1. /\ calls \subseteq {call}
      /\ KeysOf(updates) # {} /\ peers[sender] \notin {"NONE", "IDLE"} => call \in calls
  BY DEF finalizeFullSync
<1>2. /\ call.type = "set" /\ call.src = n /\ call.dst = sender
      /\ call.keyVals = updates /\ call.nodeIds = {n}
  BY DEF Set
<1>3. /\ \A k \in Keys : updates[k] \in {store[k], Absent}
      /\ \A k \in Keys : k \in keys => updates[k] = store[k]
      /\ DOMAIN updates = Keys
  OBVIOUS
<1> HIDE DEF updates, call, calls
<1>4. ~Absent.hasValue /\ Lasting(Absent)
  BY DEF Absent, Lasting
<1>5. \A k \in Keys : store[k] # Absent => store[k].hasValue
  BY DEF StoredEntry
<1>6. AllValues(updates)
  BY <1>3, <1>5 DEF AllValues
<1>7. SoundFrom(call, n, store)
  BY <1>2, <1>3, <1>4, <1>6, AtLeastReflexive DEF SoundFrom
<1>8. ASSUME NEW k \in Keys, k \in keys, store[k] # Absent,
             peers[sender] \notin {"NONE", "IDLE"}, sender # n
      PROVE  call \in calls /\ Covers(call, store[k], n, sender, k)
  <2>1. call \in calls
    BY <1>1, <1>3, <1>8 DEF KeysOf
  <2> QED
    BY <1>2, <1>3, <1>5, <1>8, <2>1, AtLeastReflexive DEF Covers
<1> QED
  BY <1>1, <1>7, <1>8 DEF calls

(* floodPublication passes on what was merged. *)
LEMMA FloodCovers ==
  ASSUME NEW n \in Nodes, NEW kv \in KeyVals, NEW ids \in SUBSET Nodes, NEW peers, NEW from, NEW store,
         \A k \in Keys : Lasting(kv[k]), AllValues(kv) \/ NoValues(kv),
         \A x \in ids : Holds(x, kv), \A k \in Keys : kv[k].hasValue => AtLeast(store[k], kv[k])
  PROVE  /\ \A rpc \in floodPublication(n, kv, ids, peers, from) : SoundFrom(rpc, n, store)
         /\ \A m \in Nodes, k \in Keys :
              /\ peers[m] = "INITIALIZED" /\ m # from /\ m # n /\ m \notin ids /\ kv[k].hasValue
              => \E rpc \in floodPublication(n, kv, ids, peers, from) : Covers(rpc, kv[k], n, m, k)
<1> DEFINE call(m) == Set(n, m, kv, ids \cup {n})
<1>1. floodPublication(n, kv, ids, peers, from) = {call(m) : m \in FloodPeers(n, peers, from)}
  BY DEF floodPublication
<1>2. \A m : /\ call(m).type = "set" /\ call(m).src = n /\ call(m).dst = m
             /\ call(m).keyVals = kv /\ call(m).nodeIds = ids \cup {n}
  BY DEF Set
<1> HIDE DEF call
<1>3. \A m : SoundFrom(call(m), n, store)
  BY <1>2 DEF SoundFrom
<1>4. ASSUME NEW m \in Nodes, NEW k \in Keys, peers[m] = "INITIALIZED", m # from, m # n, m \notin ids, kv[k].hasValue
      PROVE  Covers(call(m), kv[k], n, m, k) /\ m \in FloodPeers(n, peers, from)
  BY <1>2, <1>4, AtLeastReflexive DEF Covers, FloodPeers
<1> QED
  BY <1>1, <1>3, <1>4

(* After the outcome r of a merge, peer m has n's entry of k or a call brings it. *)
Reached(r, n, m, k) ==
  \/ AtLeast(kvStore[m][k], r.store[k])
  \/ \E rpc \in r.sent : Covers(rpc, r.store[k], n, m, k)

Merged(r, n, pub, syncedWith) ==
  /\ \A k \in Keys : Lasting(r.store[k])
  /\ \A rpc \in r.sent : SoundFrom(rpc, n, r.store)
  /\ n \notin pub.nodeIds => \A k \in Keys : pub.keyVals[k].hasValue => AtLeast(r.store[k], pub.keyVals[k])
  /\ \A m \in Nodes : r.peers[m] \in {peerState[n][m], "IDLE"}
  /\ \A m \in Nodes : m # syncedWith => pendingKeys[n][m] \subseteq r.pending[m]
  /\ \A m \in Nodes, k \in Keys :
       \/ m = n
       \/ content(r.store[k]) = content(kvStore[n][k])
       \/ Reached(r, n, m, k)
       \/ m # syncedWith /\ r.peers[m] # "INITIALIZED" /\ (r.peers[m] = "SYNCING" => k \in r.pending[m])
  /\ syncedWith \in Nodes \ {n} =>
       \A k \in pub.tobeUpdatedKeys \cup pendingKeys[n][syncedWith] : Reached(r, n, syncedWith, k)

(* A publication as a node may receive it. *)
Proper(n, pub, from, syncedWith) ==
  /\ pub.keyVals \in KeyVals /\ pub.nodeIds \in SUBSET Nodes /\ pub.tobeUpdatedKeys \in SUBSET Keys
  /\ \A k \in Keys : Lasting(pub.keyVals[k])
  /\ AllValues(pub.keyVals) \/ NoValues(pub.keyVals)
  /\ \A x \in Nodes : x \in pub.nodeIds \/ x = from \/ x = syncedWith => Holds(x, pub.keyVals)
  /\ syncedWith # NoNode => /\ AllValues(pub.keyVals) /\ pub.nodeIds = {}
                            /\ peerState[n][syncedWith] \in {"SYNCING", "INITIALIZED"}

(* Each entry of the result of a merge. *)
LEMMA MergeKeyValuesContent ==
  ASSUME NEW s \in [Keys -> StoredEntry], NEW kv \in KeyVals, NEW sender,
         \A k \in Keys : Lasting(s[k]), \A k \in Keys : Lasting(kv[k])
  PROVE  \A k \in Keys :
           /\ Lasting(mergeKeyValues(s, kv, sender).store[k])
           /\ mergeKeyValues(s, kv, sender).keyVals[k] \in {kv[k], Absent}
           /\ kv[k].hasValue => AtLeast(mergeKeyValues(s, kv, sender).store[k], kv[k])
           /\ ~kv[k].hasValue => content(mergeKeyValues(s, kv, sender).store[k]) = content(s[k])
           /\ \/ content(mergeKeyValues(s, kv, sender).store[k]) = content(s[k])
              \/ /\ mergeKeyValues(s, kv, sender).keyVals[k] = kv[k] /\ kv[k].hasValue
                 /\ mergeKeyValues(s, kv, sender).store[k] = kv[k]
<1> TAKE k \in Keys
<1>1. kv[k] \in Entry /\ s[k] \in StoredEntry
  BY DEF KeyVals
<1>2. /\ mergeKeyValues(s, kv, sender).store[k] = MergeEntry(s[k], kv[k], sender)
      /\ mergeKeyValues(s, kv, sender).keyVals[k] = IF IsMerged(s[k], kv[k], sender) THEN kv[k] ELSE Absent
  BY DEF mergeKeyValues
<1> QED
  BY SMT, <1>1, <1>2, MergedContent

LEMMA MergeCovers ==
  ASSUME IInv, WireInv, NEW n \in Nodes, NEW pub,
         NEW from \in Nodes \cup {NoNode}, NEW syncedWith \in Nodes \cup {NoNode},
         Proper(n, pub, from, syncedWith)
  PROVE  Merged(mergePublication(n, pub, from, syncedWith), n, pub, syncedWith)
<1> DEFINE r == mergePublication(n, pub, from, syncedWith)
           kv == pub.keyVals
           back == IF syncedWith = NoNode THEN {} ELSE pub.tobeUpdatedKeys \cup pendingKeys[n][syncedWith]
           pending == [m \in Nodes |-> IF m = syncedWith THEN {} ELSE pendingKeys[n][m]]
           sender == IF syncedWith # NoNode THEN syncedWith ELSE from
           result == mergeKeyValues(kvStore[n], kv, sender)
           delta == result.keyVals
           resync == result.inconsistent /\ sender \in Nodes /\ peerState[n][sender] # "NONE"
           flood == IF KeysOf(delta) = {} THEN {}
                    ELSE floodPublication(n, delta, pub.nodeIds, peerState[n], from)
           final == IF back = {} THEN {}
                    ELSE finalizeFullSync(n, result.store, peerState[n], back, syncedWith)
           pend == IF KeysOf(delta) = {} THEN pending
                   ELSE pendPublication(delta, peerState[n], pending, from)
           ignored == n \in pub.nodeIds \/ (KeysOf(kv) = {} /\ back = {})
<1>1. /\ ignored => r = [store |-> kvStore[n], peers |-> peerState[n], pending |-> pendingKeys[n],
                         timer |-> syncTimer[n], known |-> subscriber[n], sent |-> {}]
      /\ ~ignored /\ resync =>
           r = [store |-> result.store, pending |-> pending,
                peers |-> [peerState[n] EXCEPT ![sender] = getNextState(@, "INCONSISTENCY_DETECTED")],
                timer |-> TRUE, known |-> subscriber[n], sent |-> {}]
      /\ ~ignored /\ ~resync =>
           r = [store |-> result.store, peers |-> peerState[n], pending |-> pend,
                timer |-> syncTimer[n], known |-> notifySubscriber(subscriber[n], delta),
                sent |-> flood \cup final]
  BY DEF mergePublication
<1>2. NodeTypes(n) /\ kv \in KeyVals /\ pub.nodeIds \in SUBSET Nodes /\ pub.tobeUpdatedKeys \in SUBSET Keys
  BY NodeTyping DEF Proper
<1>3. /\ \A k \in Keys : Lasting(kvStore[n][k]) /\ Lasting(kv[k])
      /\ kvStore[n] \in [Keys -> StoredEntry]
  BY <1>2 DEF WireInv, Proper, NodeTypes
<1>4. result.store \in [Keys -> StoredEntry] /\ delta \in KeyVals
  BY <1>2, <1>3, MergeKeyValuesTypes
<1> HIDE DEF kv, sender
<1>5. \A k \in Keys :
        /\ Lasting(result.store[k]) /\ delta[k] \in {kv[k], Absent}
        /\ kv[k].hasValue => AtLeast(result.store[k], kv[k])
        /\ ~kv[k].hasValue => content(result.store[k]) = content(kvStore[n][k])
        /\ \/ content(result.store[k]) = content(kvStore[n][k])
           \/ delta[k] = kv[k] /\ kv[k].hasValue /\ result.store[k] = kv[k]
  <2>1. (\A k \in Keys : Lasting(kvStore[n][k])) /\ (\A k \in Keys : Lasting(kv[k]))
    BY <1>3
  <2> QED
    BY <1>2, <1>3, <2>1, MergeKeyValuesContent
<1>6. ASSUME AllValues(kv) PROVE ~resync
  <2>1. \A k \in KeysOf(kv) : getMergeType(kv[k], kvStore[n][k], sender) # "RESYNC_NEEDED"
    BY <1>2, <1>6, ValuesAreConsistent DEF KeysOf, KeyVals, AllValues
  <2> QED
    BY <2>1 DEF mergeKeyValues
<1>7. pending \in [Nodes -> SUBSET Keys] /\ \A m \in Nodes : m # syncedWith => pending[m] = pendingKeys[n][m]
  BY <1>2 DEF NodeTypes
<1>8. ~Absent.hasValue /\ Lasting(Absent)
  BY DEF Absent, Lasting
<1>9. KeysOf(kv) = {k \in Keys : kv[k] # Absent} /\ KeysOf(delta) = {k \in Keys : delta[k] # Absent}
  BY <1>2, <1>4 DEF KeysOf, KeyVals
<1>10. /\ back \subseteq Keys
       /\ syncedWith \in Nodes => back = pub.tobeUpdatedKeys \cup pendingKeys[n][syncedWith]
       /\ syncedWith \notin Nodes => back = {}
  BY <1>2, NodesAssumption DEF NodeTypes
<1> HIDE DEF r, kv, back, pending, sender, result, delta, resync, flood, final, pend, ignored
<1>11. CASE ignored
  <2>1. r.store = kvStore[n] /\ r.peers = peerState[n] /\ r.pending = pendingKeys[n] /\ r.sent = {}
    BY SMT, <1>1, <1>11
  <2>2. n \notin pub.nodeIds => KeysOf(kv) = {} /\ back = {}
    BY <1>11 DEF ignored
  <2>3. syncedWith \in Nodes => pub.tobeUpdatedKeys \cup pendingKeys[n][syncedWith] = {}
    BY <1>10, <2>2, NodesAssumption DEF Proper
  <2>4. n \notin pub.nodeIds => \A k \in Keys : ~kv[k].hasValue
    BY <1>8, <1>9, <2>2
  <2> QED
    BY <1>3, <2>1, <2>3, <2>4 DEF Merged, r, kv
<1>12. CASE ~ignored /\ resync
  <2>1. NoValues(kv) /\ syncedWith = NoNode
    BY <1>6, <1>12 DEF Proper, kv
  <2>2. /\ r.store = result.store /\ r.pending = pending /\ r.sent = {}
        /\ r.peers = [peerState[n] EXCEPT ![sender] = getNextState(@, "INCONSISTENCY_DETECTED")]
    BY SMT, <1>1, <1>12
  <2>3. \A m \in Nodes : r.peers[m] \in {peerState[n][m], "IDLE"}
    BY <1>2, <2>2 DEF getNextState, NodeTypes
  <2>4. \A k \in Keys : ~kv[k].hasValue /\ content(r.store[k]) = content(kvStore[n][k])
    BY <1>5, <2>1, <2>2 DEF NoValues
  <2>5. syncedWith \notin Nodes
    BY <2>1, NodesAssumption
  <2> QED
    BY <1>5, <1>7, <2>2, <2>3, <2>4, <2>5 DEF Merged, r, kv
<1>13. CASE ~ignored /\ ~resync
  <2>1. /\ r.store = result.store /\ r.peers = peerState[n] /\ r.pending = pend /\ r.sent = flood \cup final
    BY SMT, <1>1, <1>13
  <2>2. n \notin pub.nodeIds
    BY <1>13 DEF ignored
  <2>3. /\ AllValues(delta) \/ NoValues(delta)
        /\ \A k \in Keys : Lasting(delta[k])
        /\ \A k \in Keys : delta[k].hasValue => kv[k].hasValue /\ delta[k] = kv[k]
    <3>1. \A k \in Keys : delta[k] = kv[k] \/ delta[k] = Absent
      BY <1>5
    <3>2. AllValues(kv) \/ NoValues(kv)
      BY DEF Proper, kv
    <3> QED
      BY <1>3, <1>8, <3>1, <3>2 DEF AllValues, NoValues
  <2>4. \A x \in Nodes : x \in pub.nodeIds \/ x = from \/ x = syncedWith => Holds(x, delta) /\ Holds(x, kv)
    BY <2>3 DEF Proper, kv, Holds
  <2>5. \A k \in Keys : delta[k].hasValue => AtLeast(result.store[k], delta[k])
    BY <1>5, <2>3
  <2>6. \A x \in pub.nodeIds : Holds(x, delta)
    BY <1>2, <2>4
  <2>7. /\ \A rpc \in flood : SoundFrom(rpc, n, result.store)
        /\ \A m \in Nodes, k \in Keys :
             /\ peerState[n][m] = "INITIALIZED" /\ m # from /\ m # n /\ m \notin pub.nodeIds /\ delta[k].hasValue
             => \E rpc \in flood : Covers(rpc, delta[k], n, m, k)
    <3>1. CASE KeysOf(delta) = {}
      <4>1. flood = {}
        BY <3>1 DEF flood
      <4>2. \A k \in Keys : ~delta[k].hasValue
        BY <1>8, <1>9, <3>1
      <4> QED
        BY <4>1, <4>2
    <3>2. CASE KeysOf(delta) # {}
      <4>1. flood = floodPublication(n, delta, pub.nodeIds, peerState[n], from)
        BY <3>2 DEF flood
      <4> QED
        BY <1>2, <1>4, <2>3, <2>5, <2>6, <4>1, FloodCovers
    <3> QED
      BY <3>1, <3>2
  <2>8. /\ \A rpc \in final : SoundFrom(rpc, n, result.store)
        /\ syncedWith \in Nodes \ {n} => \A k \in back :
              result.store[k] # Absent => \E rpc \in final : Covers(rpc, result.store[k], n, syncedWith, k)
    <3>1. CASE back = {}
      BY <3>1 DEF final
    <3>2. CASE back # {}
      <4>1. final = finalizeFullSync(n, result.store, peerState[n], back, syncedWith)
        BY <3>2 DEF final
      <4>2. syncedWith \in Nodes /\ peerState[n][syncedWith] \notin {"NONE", "IDLE"}
        BY <1>10, <3>2, NodesAssumption DEF Proper
      <4> QED
        BY <1>4, <1>5, <1>10, <4>1, <4>2, FinalizeCovers
    <3> QED
      BY <3>1, <3>2
  <2>9. \A m \in Nodes : m # syncedWith => pendingKeys[n][m] \subseteq pend[m]
    BY <1>7 DEF pend, pendPublication
  <2>10. ASSUME NEW m \in Nodes, NEW k \in Keys, m # n, content(result.store[k]) # content(kvStore[n][k])
         PROVE  \/ Reached(r, n, m, k)
                \/ m # syncedWith /\ peerState[n][m] # "INITIALIZED" /\ (peerState[n][m] = "SYNCING" => k \in pend[m])
    <3>1. delta[k] = kv[k] /\ kv[k].hasValue /\ result.store[k] = kv[k]
      BY <1>5, <2>10
    <3>2. CASE m \in pub.nodeIds \/ m = from \/ m = syncedWith
      <4>1. AtLeast(kvStore[m][k], kv[k])
        BY <2>4, <3>1, <3>2 DEF Holds
      <4> QED
        BY <2>1, <3>1, <4>1 DEF Reached
    <3>3. CASE ~(m \in pub.nodeIds \/ m = from \/ m = syncedWith)
      <4>1. CASE peerState[n][m] = "INITIALIZED"
        <5>1. \E rpc \in flood : Covers(rpc, result.store[k], n, m, k)
          BY <2>7, <2>10, <3>1, <3>3, <4>1
        <5> QED
          BY <2>1, <5>1 DEF Reached
      <4>2. CASE peerState[n][m] = "SYNCING"
        <5>1. k \in KeysOf(delta)
          BY <1>8, <1>9, <3>1
        <5>2. k \in pend[m]
          BY <3>3, <4>2, <5>1 DEF pend, pendPublication
        <5> QED
          BY <3>3, <4>2, <5>2
      <4> QED
        BY <3>3, <4>1, <4>2
    <3> QED
      BY <3>2, <3>3
  <2>11. ASSUME syncedWith \in Nodes \ {n}, NEW k \in back
         PROVE  Reached(r, n, syncedWith, k)
    <3>1. k \in Keys
      BY <1>10
    <3>2. CASE result.store[k] = Absent
      <4>1. kvStore[syncedWith][k] \in Entry
        BY SMT, <2>11, <3>1, StoredEntryIsEntry DEF IInv, TypeOK
      <4>2. AtLeast(kvStore[syncedWith][k], Absent)
        BY SMT, <4>1 DEF AtLeast, NewerContent, content, Absent, Entry
      <4> QED
        BY <2>1, <3>2, <4>2 DEF Reached
    <3>3. CASE result.store[k] # Absent
      BY <2>1, <2>8, <2>11, <3>3 DEF Reached
    <3> QED
      BY <3>2, <3>3
  <2>12. \A rpc \in r.sent : SoundFrom(rpc, n, r.store)
    BY <2>1, <2>7, <2>8
  <2>13. syncedWith \in Nodes \ {n} =>
           \A k \in pub.tobeUpdatedKeys \cup pendingKeys[n][syncedWith] : Reached(r, n, syncedWith, k)
    BY <1>10, <2>11
  <2> QED
    BY <1>5, <2>1, <2>2, <2>9, <2>10, <2>12, <2>13 DEF Merged, r, kv
<1> QED
  BY <1>11, <1>12, <1>13 DEF r

(***************************************************************************)
(* What node n hands over when it takes over an outcome r: sound calls,    *)
(* and for every key that rested on a call of `done', or changed, a place  *)
(* where it is found.                                                      *)
(***************************************************************************)
HandsOver(n, r, done) ==
  /\ \A k \in Keys : Lasting(r.store[k])
  /\ \A rpc \in r.sent : SoundFrom(rpc, n, r.store)
  /\ \A m \in Nodes, k \in Keys :
       \/ m = n
       \/ Reached(r, n, m, k)
       \/ content(r.store[k]) = content(kvStore[n][k]) /\ Covered(n, m, k)
       \/ r.peers[m] # "INITIALIZED" /\ (r.peers[m] = "SYNCING" => k \in r.pending[m])
  /\ \A rpc \in done : \A a, b \in Nodes, k \in Keys : Covers(rpc, kvStore[a][k], a, b, k) =>
       \/ a = b
       \/ a = n /\ Reached(r, n, b, k)
       \/ a # n /\ b = n /\ AtLeast(r.store[k], kvStore[a][k])

LEMMA ApplyCovers ==
  ASSUME LossInv, IInv', StoreStep, NEW n \in Nodes, NEW r \in Outcome, NEW done, NEW more \in SUBSET Rpc,
         Apply(n, r, done, more), \A rpc \in more : rpc.type = "error", HandsOver(n, r, done)
  PROVE  LossInv'
<1> DEFINE rs == r.store
           rp == r.peers
           rq == r.pending
           rc == r.sent
<1>1. rs \in [Keys -> StoredEntry] /\ rp \in [Nodes -> PeerStates] /\ rq \in [Nodes -> SUBSET Keys] /\ rc \in SUBSET Rpc
  BY DEF Outcome
<1>2. /\ kvStore' = [kvStore EXCEPT ![n] = rs]
      /\ peerState' = [peerState EXCEPT ![n] = rp]
      /\ pendingKeys' = [pendingKeys EXCEPT ![n] = rq]
      /\ rpcs' = (rpcs \ done) \cup rc \cup more
  BY DEF Apply
<1>3. IInv /\ WireInv /\ NothingLost
  BY DEF LossInv
<1>4. /\ kvStore'[n] = rs /\ peerState'[n] = rp /\ pendingKeys'[n] = rq
      /\ \A a \in Nodes : a # n => /\ kvStore'[a] = kvStore[a] /\ peerState'[a] = peerState[a]
                                   /\ pendingKeys'[a] = pendingKeys[a]
  BY <1>2, <1>3 DEF IInv, TypeOK
<1>5. /\ \A k \in Keys : Lasting(rs[k])
      /\ \A rpc \in rc : SoundFrom(rpc, n, rs)
      /\ \A m \in Nodes, k \in Keys : Reached(r, n, m, k) <=>
           AtLeast(kvStore[m][k], rs[k]) \/ \E rpc \in rc : Covers(rpc, rs[k], n, m, k)
      /\ \A m \in Nodes, k \in Keys :
           \/ m = n
           \/ Reached(r, n, m, k)
           \/ content(rs[k]) = content(kvStore[n][k]) /\ Covered(n, m, k)
           \/ rp[m] # "INITIALIZED" /\ (rp[m] = "SYNCING" => k \in rq[m])
      /\ \A rpc \in done : \A a, b \in Nodes, k \in Keys : Covers(rpc, kvStore[a][k], a, b, k) =>
           a = b \/ (a = n /\ Reached(r, n, b, k)) \/ (a # n /\ b = n /\ AtLeast(rs[k], kvStore[a][k]))
  BY DEF Reached, HandsOver
<1> HIDE DEF rs, rp, rq, rc
<1>6. \A a \in Nodes, k \in Keys : Covered(a, a, k)'
  BY CoveredDef, AtLeastReflexive
<1>7. \A m \in Nodes, k \in Keys : m # n /\ Reached(r, n, m, k) => Covered(n, m, k)'
  <2> SUFFICES ASSUME NEW m \in Nodes, NEW k \in Keys, m # n, Reached(r, n, m, k) PROVE Covered(n, m, k)'
    OBVIOUS
  <2>1. kvStore'[n] = rs /\ kvStore'[m] = kvStore[m] /\ rc \subseteq rpcs'
    BY <1>2, <1>4
  <2>2. AtLeast(kvStore[m][k], rs[k]) \/ \E rpc \in rc : Covers(rpc, rs[k], n, m, k)
    BY <1>5
  <2>3. AtLeast(kvStore'[m][k], kvStore'[n][k]) \/ \E rpc \in rpcs' : Covers(rpc, kvStore'[n][k], n, m, k)
    BY <2>1, <2>2
  <2> QED
    BY <2>3, CoveredDef
<1>8. \A a, b \in Nodes, k \in Keys :
        Covered(a, b, k) /\ content(kvStore'[a][k]) = content(kvStore[a][k]) => Covered(a, b, k)'
  <2> SUFFICES ASSUME NEW a \in Nodes, NEW b \in Nodes, NEW k \in Keys, Covered(a, b, k),
                      content(kvStore'[a][k]) = content(kvStore[a][k])
               PROVE  Covered(a, b, k)'
    OBVIOUS
  <2>1. CASE a = b
    BY <1>6, <2>1
  <2>2. CASE a # b
    <3>1. ASSUME NEW rpc \in rpcs, Covers(rpc, kvStore[a][k], a, b, k), rpc \notin rpcs'
          PROVE  Covered(a, b, k)'
      <4>1. rpc \in done
        BY <1>2, <3>1
      <4>2. (a = n /\ Reached(r, n, b, k)) \/ (a # n /\ b = n /\ AtLeast(rs[k], kvStore[a][k]))
        BY <1>5, <2>2, <3>1, <4>1
      <4>3. CASE a = n /\ Reached(r, n, b, k)
        BY <1>7, <2>2, <4>3
      <4>4. CASE a # n /\ b = n /\ AtLeast(rs[k], kvStore[a][k])
        <5>1. AtLeast(kvStore'[b][k], kvStore'[a][k])
          BY <1>4, <4>4
        <5> QED
          BY <5>1, CoveredDef
      <4> QED
        BY <4>2, <4>3, <4>4
    <3>2. \A rpc \in rpcs : Covers(rpc, kvStore[a][k], a, b, k) => rpc \in rpcs' \/ Covered(a, b, k)'
      BY <3>1
    <3> QED
      BY <1>3, <3>2, CoverageStays
  <2> QED
    BY <2>1, <2>2
<1>9. NothingLost'
  <2> SUFFICES ASSUME NEW a \in Nodes, NEW b \in Nodes, NEW k \in Keys
               PROVE  /\ peerState'[a][b] = "INITIALIZED" => Covered(a, b, k)'
                      /\ peerState'[a][b] = "SYNCING" => Covered(a, b, k)' \/ k \in pendingKeys'[a][b]
    BY DEF NothingLost
  <2>1. CASE a = b
    BY <1>6, <2>1
  <2>2. CASE a # b /\ a = n
    <3>1. \/ Reached(r, n, b, k)
          \/ content(rs[k]) = content(kvStore[n][k]) /\ Covered(n, b, k)
          \/ rp[b] # "INITIALIZED" /\ (rp[b] = "SYNCING" => k \in rq[b])
      BY <1>5, <2>2
    <3>2. content(rs[k]) = content(kvStore[n][k]) /\ Covered(n, b, k) => Covered(n, b, k)'
      BY <1>4, <1>8
    <3>3. peerState'[a][b] = rp[b] /\ pendingKeys'[a][b] = rq[b]
      BY <1>4, <2>2
    <3> QED
      BY <1>7, <2>2, <3>1, <3>2, <3>3
  <2>3. CASE a # n
    <3>1. peerState'[a] = peerState[a] /\ pendingKeys'[a] = pendingKeys[a] /\ kvStore'[a] = kvStore[a]
      BY <1>4, <2>3
    <3>2. Covered(a, b, k) => Covered(a, b, k)'
      BY <1>8, <3>1
    <3> QED
      BY <1>3, <3>1, <3>2 DEF NothingLost
  <2> QED
    BY <2>1, <2>2, <2>3
<1>10. WireInv'
  <2>1. \A a \in Nodes, k \in Keys : Lasting(kvStore'[a][k])
    BY <1>3, <1>4, <1>5 DEF WireInv
  <2>2. ASSUME NEW rpc \in rpcs' PROVE Sound(rpc)'
    <3>1. rpc \in Rpc
      BY DEF IInv, TypeOK
    <3>2. CASE rpc \in rpcs
      BY <1>3, <3>1, <3>2, SoundStays DEF WireInv
    <3>3. CASE rpc \in rc
      <4>1. SoundFrom(rpc, n, rs)
        BY <1>5, <3>3
      <4>2. rpc.nodeIds \in SUBSET Nodes /\ rpc.type = "set"
        BY <3>1, <4>1 DEF Rpc, SoundFrom
      <4>3. \A x \in rpc.nodeIds : Holds(x, rpc.keyVals)'
        <5> SUFFICES ASSUME NEW x \in rpc.nodeIds, NEW k \in Keys, rpc.keyVals[k].hasValue
                     PROVE  AtLeast(kvStore'[x][k], rpc.keyVals[k])
          BY DEF Holds
        <5>1. CASE x = n
          BY <1>4, <4>1, <5>1 DEF SoundFrom
        <5>2. CASE x # n
          <6>1. AtLeast(kvStore[x][k], rpc.keyVals[k])
            BY <4>1, <5>2 DEF SoundFrom, Holds
          <6> QED
            BY <1>4, <4>2, <5>2, <6>1
        <5> QED
          BY <5>1, <5>2
      <4>4. rpc.src \in rpc.nodeIds /\ (\A k \in Keys : Lasting(rpc.keyVals[k]))
            /\ (AllValues(rpc.keyVals) \/ NoValues(rpc.keyVals))
        BY <4>1 DEF SoundFrom
      <4> QED
        BY <4>2, <4>3, <4>4 DEF Sound, Lasting, AllValues, NoValues
    <3>4. CASE rpc \in more
      BY <3>4 DEF Sound
    <3> QED
      BY <1>2, <3>2, <3>3, <3>4
  <2> QED
    BY <2>1, <2>2 DEF WireInv
<1> QED
  BY <1>9, <1>10 DEF LossInv

(* A publication that is merged as it comes: local, or from a call `done'. *)
LEMMA MergeKeeps ==
  ASSUME LossInv, IInv', StoreStep, NEW n \in Nodes, NEW pub, NEW from \in Nodes \cup {NoNode},
         NEW done, NEW more \in SUBSET Rpc, \A rpc \in more : rpc.type = "error",
         Proper(n, pub, from, NoNode),
         Apply(n, mergePublication(n, pub, from, NoNode), done, more),
         \A rpc \in done : \A a, b \in Nodes, k \in Keys : Covers(rpc, kvStore[a][k], a, b, k) =>
           /\ b = n /\ n \notin pub.nodeIds /\ pub.keyVals[k].hasValue
           /\ AtLeast(pub.keyVals[k], kvStore[a][k])
  PROVE  LossInv'
<1> DEFINE r == mergePublication(n, pub, from, NoNode)
<1>1. IInv /\ WireInv /\ NothingLost /\ NoNode \notin Nodes
  BY NodesAssumption DEF LossInv
<1>2. r \in Outcome
  BY <1>1, MergePublicationOutcome DEF Proper
<1>3. Merged(r, n, pub, NoNode)
  BY <1>1, MergeCovers
<1>4. Apply(n, r, done, more)
  OBVIOUS
<1> HIDE DEF r
<1>5. /\ \A k \in Keys : Lasting(r.store[k])
      /\ \A rpc \in r.sent : SoundFrom(rpc, n, r.store)
  BY <1>3 DEF Merged
<1>6. ASSUME NEW m \in Nodes, NEW k \in Keys
      PROVE  \/ m = n
             \/ Reached(r, n, m, k)
             \/ content(r.store[k]) = content(kvStore[n][k]) /\ Covered(n, m, k)
             \/ r.peers[m] # "INITIALIZED" /\ (r.peers[m] = "SYNCING" => k \in r.pending[m])
  <2>1. r.peers[m] = peerState[n][m] \/ r.peers[m] = "IDLE"
    BY <1>3 DEF Merged
  <2>2. pendingKeys[n][m] \subseteq r.pending[m]
    BY <1>1, <1>3 DEF Merged
  <2>3. \/ m = n
        \/ content(r.store[k]) = content(kvStore[n][k])
        \/ Reached(r, n, m, k)
        \/ r.peers[m] # "INITIALIZED" /\ (r.peers[m] = "SYNCING" => k \in r.pending[m])
    BY <1>3 DEF Merged
  <2>4. /\ peerState[n][m] = "INITIALIZED" => Covered(n, m, k)
        /\ peerState[n][m] = "SYNCING" => Covered(n, m, k) \/ k \in pendingKeys[n][m]
    BY <1>1 DEF NothingLost
  <2> QED
    BY <2>1, <2>2, <2>3, <2>4
<1>7. ASSUME NEW rpc \in done, NEW a \in Nodes, NEW b \in Nodes, NEW k \in Keys,
             Covers(rpc, kvStore[a][k], a, b, k), a # b
      PROVE  a # n /\ b = n /\ AtLeast(r.store[k], kvStore[a][k])
  <2>1. /\ b = n /\ n \notin pub.nodeIds /\ pub.keyVals[k].hasValue
        /\ AtLeast(pub.keyVals[k], kvStore[a][k])
    BY <1>7
  <2>2. AtLeast(r.store[k], pub.keyVals[k])
    BY <1>3, <2>1 DEF Merged
  <2>3. r.store[k] \in Entry /\ pub.keyVals[k] \in Entry /\ kvStore[a][k] \in Entry
    <3>1. r.store \in [Keys -> StoredEntry] /\ pub.keyVals \in KeyVals /\ kvStore[a] \in [Keys -> StoredEntry]
      BY <1>1, <1>2 DEF Outcome, Proper, IInv, TypeOK
    <3> QED
      BY <3>1, StoredEntryIsEntry DEF KeyVals
  <2> QED
    BY <1>7, <2>1, <2>2, <2>3, AtLeastTransitive
<1>8. HandsOver(n, r, done)
  BY <1>5, <1>6, <1>7 DEF HandsOver
<1> QED
  BY <1>2, <1>4, <1>8, ApplyCovers

(* A step that leaves the stores alone. *)
LEMMA QuietStep ==
  ASSUME LossInv, IInv', UNCHANGED kvStore, \A rpc \in rpcs' : rpc \in rpcs \/ Sound(rpc),
         \A a, b \in Nodes, k \in Keys : peerState'[a][b] \in {"INITIALIZED", "SYNCING"} =>
           \/ /\ peerState'[a][b] = peerState[a][b] /\ pendingKeys'[a][b] = pendingKeys[a][b]
              /\ \A rpc \in rpcs : Covers(rpc, kvStore[a][k], a, b, k) => rpc \in rpcs' \/ Covered(a, b, k)'
           \/ Covered(a, b, k)'
  PROVE  LossInv'
<1>1. IInv /\ WireInv /\ NothingLost /\ StoreStep
  BY UnchangedStores DEF LossInv
<1>2. WireInv'
  <2>1. ASSUME NEW rpc \in rpcs' PROVE Sound(rpc)'
    <3>1. rpc \in Rpc /\ Sound(rpc)
      BY <1>1 DEF IInv, TypeOK, WireInv
    <3> QED
      BY <1>1, <3>1, SoundStays
  <2> QED
    BY <1>1, <2>1 DEF WireInv
<1>3. NothingLost'
  <2> SUFFICES ASSUME NEW a \in Nodes, NEW b \in Nodes, NEW k \in Keys,
                      peerState'[a][b] \in {"INITIALIZED", "SYNCING"}
               PROVE  \/ Covered(a, b, k)'
                      \/ peerState'[a][b] = "SYNCING" /\ k \in pendingKeys'[a][b]
    BY DEF NothingLost
  <2>1. CASE /\ peerState'[a][b] = peerState[a][b] /\ pendingKeys'[a][b] = pendingKeys[a][b]
             /\ \A rpc \in rpcs : Covers(rpc, kvStore[a][k], a, b, k) => rpc \in rpcs' \/ Covered(a, b, k)'
    <3>1. Covered(a, b, k) => Covered(a, b, k)'
      BY <1>1, <2>1, CoverageStays
    <3> QED
      BY <1>1, <2>1, <3>1 DEF NothingLost
  <2> QED
    BY <2>1
<1> QED
  BY <1>2, <1>3 DEF LossInv

LEMMA SetKeyValsKeeps == ASSUME LossInv, NEW w \in Writes, SetKeyVals(w) PROVE LossInv'
<1> DEFINE e == [version |-> w.version, originatorId |-> w.node, value |-> w.value, hasValue |-> TRUE,
                 ttlVersion |-> 0, ttl |-> TtlInfinity]
           pub == [keyVals |-> [NoKeyVals EXCEPT ![w.key] = e], nodeIds |-> {}, tobeUpdatedKeys |-> {}]
<1>1. /\ w.node \in Nodes /\ w.key \in Keys /\ w.version \in Nat \ {0} /\ w.value \in Nat /\ w.node \in Nat
      /\ NoNode \notin Nodes
  BY WritesAssumption, NodesAssumption
<1>2. e \in Entry /\ Lasting(e) /\ e.hasValue
  BY SMT, <1>1 DEF Entry, TtlInfinity, Lasting
<1>3. Absent \in Entry /\ Lasting(Absent)
  BY StoredEntryIsEntry DEF Lasting, Absent
<1> HIDE DEF e
<1>4. Proper(w.node, pub, NoNode, NoNode)
  BY <1>1, <1>2, <1>3 DEF Proper, NoKeyVals, KeyVals, AllValues
<1>5. Apply(w.node, mergePublication(w.node, pub, NoNode, NoNode), {}, {})
  BY DEF SetKeyVals, e
<1> HIDE DEF pub
<1>6. IInv' /\ StoreStep
  BY SetKeyValsStep DEF LossInv
<1> QED
  BY SMT, <1>1, <1>4, <1>5, <1>6, MergeKeeps

LEMMA AdvertiseTtlUpdatesKeeps ==
  ASSUME LossInv, NEW n \in Nodes, NEW keys \in SUBSET Keys, AdvertiseTtlUpdates(n, keys)
  PROVE  LossInv'
<1> DEFINE refreshed(k) == [kvStore[n][k] EXCEPT !.hasValue = FALSE, !.value = 0, !.ttlVersion = @ + 1]
           pub == [keyVals |-> [k \in Keys |-> IF k \in keys THEN refreshed(k) ELSE Absent],
                   nodeIds |-> {}, tobeUpdatedKeys |-> {}]
<1>1. NoNode \notin Nodes /\ IInv /\ WireInv
  BY NodesAssumption DEF LossInv
<1>2. ASSUME NEW k \in keys
      PROVE  refreshed(k) \in Entry /\ Lasting(refreshed(k)) /\ ~refreshed(k).hasValue
  <2>1. kvStore[n][k] \in Entry
    BY SMT, <1>1, StoredEntryIsEntry DEF IInv, TypeOK
  <2>2. refreshed(k) \in Entry
    BY <2>1, RefreshTypes
  <2>3. refreshed(k).hasValue = FALSE /\ refreshed(k).ttl = kvStore[n][k].ttl
    BY <2>1 DEF Entry
  <2>4. kvStore[n][k] # Absent
    <3>1. kvStore[n][k].originatorId = n /\ n # 0
      BY <1>1 DEF AdvertiseTtlUpdates, NoNode
    <3> QED
      BY SMT, <3>1 DEF Absent
  <2>5. kvStore[n][k].ttl = TtlInfinity
    BY <1>1, <2>4 DEF WireInv, Lasting
  <2> HIDE DEF refreshed
  <2> QED
    BY <2>2, <2>3, <2>5 DEF Lasting
<1>3. Absent \in Entry /\ Lasting(Absent) /\ ~Absent.hasValue
  BY StoredEntryIsEntry DEF Lasting, Absent
<1>4. Apply(n, mergePublication(n, pub, NoNode, NoNode), {}, {})
  BY DEF AdvertiseTtlUpdates
<1> HIDE DEF refreshed
<1>5. Proper(n, pub, NoNode, NoNode)
  BY <1>1, <1>2, <1>3 DEF Proper, KeyVals, NoValues
<1> HIDE DEF pub
<1>6. IInv' /\ StoreStep
  BY <1>1, AdvertiseTtlUpdatesStep
<1>7. {} \in SUBSET Rpc /\ NoNode \in Nodes \cup {NoNode} /\ \A rpc \in {} : rpc.type = "error"
  OBVIOUS
<1> QED
  BY SMT, <1>4, <1>5, <1>6, <1>7, MergeKeeps

LEMMA ProcessSetKeeps ==
  ASSUME LossInv, NEW rpc \in rpcs, NEW answered \in BOOLEAN, ProcessSet(rpc, answered)
  PROVE  LossInv'
<1> DEFINE more == IF answered THEN {} ELSE {Error(rpc.dst, rpc.src)}
<1>1. /\ Apply(rpc.dst, mergePublication(rpc.dst, rpc, rpc.src, NoNode), {rpc}, more)
      /\ rpc.type = "set"
  BY DEF ProcessSet
<1>2. NoNode \notin Nodes /\ IInv /\ WireInv
  BY NodesAssumption DEF LossInv
<1>3. /\ rpc.src \in Nodes /\ rpc.dst \in Nodes /\ rpc.keyVals \in KeyVals
      /\ rpc.tobeUpdatedKeys \in SUBSET Keys /\ rpc.nodeIds \in SUBSET Nodes
  BY <1>2, RpcTypes
<1>4. more \in SUBSET Rpc /\ \A c \in more : c.type = "error"
  BY <1>3, ErrorTypes
<1>5. Sound(rpc)
  BY <1>2 DEF WireInv
<1>6. Proper(rpc.dst, rpc, rpc.src, NoNode)
  BY <1>1, <1>2, <1>3, <1>5 DEF Proper, Sound
<1>7. IInv' /\ StoreStep
  BY <1>2, ProcessSetStep
<1>8. \A a, b \in Nodes, k \in Keys : Covers(rpc, kvStore[a][k], a, b, k) =>
        /\ b = rpc.dst /\ rpc.dst \notin rpc.nodeIds /\ rpc.keyVals[k].hasValue
        /\ AtLeast(rpc.keyVals[k], kvStore[a][k])
  BY <1>1 DEF Covers
<1> HIDE DEF more
<1> QED
  BY SMT, <1>1, <1>3, <1>4, <1>6, <1>7, <1>8, MergeKeeps

(***************************************************************************)
(* The answer of a full-sync: the keys the peer asked for and the ones     *)
(* that changed meanwhile are sent back before the peer is INITIALIZED.    *)
(***************************************************************************)
LEMMA ProcessThriftSuccessKeeps ==
  ASSUME LossInv, NEW rpc \in rpcs, ProcessThriftSuccess(rpc)
  PROVE  LossInv'
<1> DEFINE n == rpc.dst
           m == rpc.src
           r == mergePublication(n, rpc, NoNode, m)
           peers == [r.peers EXCEPT ![m] = getNextState(@, "SYNC_RESP_RCVD")]
           after == [r EXCEPT !.peers = peers, !.timer = IdlePeers(peers) # {}]
           ignored == peerState[n][m] \in {"NONE", "IDLE"}
<1>1. /\ n \in Nodes /\ m \in Nodes /\ NoNode \notin Nodes /\ rpc.type = "reply"
      /\ rpc.keyVals \in KeyVals /\ rpc.tobeUpdatedKeys \in SUBSET Keys /\ rpc.nodeIds \in SUBSET Nodes
  BY RpcTypes, NodesAssumption DEF LossInv, ProcessThriftSuccess
<1>2. IInv /\ WireInv /\ NothingLost /\ NodeTypes(n)
  BY <1>1, NodeTyping DEF LossInv
<1>3. IInv' /\ StoreStep
  BY <1>2, ProcessThriftSuccessStep
<1>4. \A a, b \in Nodes, k \in Keys :
        Covers(rpc, kvStore[a][k], a, b, k) => a = n /\ b = m /\ k \in rpc.tobeUpdatedKeys
  BY <1>1 DEF Covers
<1>5. CASE ignored /\ rpcs' = rpcs \ {rpc} /\ UNCHANGED <<kvStore, peerState, pendingKeys>>
  <2> HIDE DEF n, m
  <2>1. \A a, b \in Nodes, k \in Keys : peerState'[a][b] \in {"INITIALIZED", "SYNCING"} =>
          \A c \in rpcs : Covers(c, kvStore[a][k], a, b, k) => c \in rpcs'
    BY <1>4, <1>5
  <2>2. \A c \in rpcs' : c \in rpcs
    BY <1>5
  <2> QED
    BY <1>3, <1>5, <2>1, <2>2, QuietStep
<1>6. CASE ~ignored /\ Apply(n, after, {rpc}, {})
  <2>1. Sound(rpc) /\ peerState[n][m] \in {"SYNCING", "INITIALIZED"}
    BY <1>1, <1>2, <1>6 DEF WireInv, NodeTypes, PeerStates
  <2>2. Proper(n, rpc, NoNode, m)
    BY <1>1, <2>1 DEF Proper, Sound
  <2>3. Merged(r, n, rpc, m)
    <3> HIDE DEF n, m
    <3> QED
      BY <1>1, <1>2, <2>2, MergeCovers
  <2>4. r \in Outcome /\ r.peers = peerState[n]
    <3>1. \A k \in Keys : rpc.keyVals[k] # Absent => rpc.keyVals[k].hasValue
      BY <1>1, <2>1 DEF Sound, AllValues
    <3> HIDE DEF n, m
    <3> QED
      BY <1>1, <1>2, <3>1, MergePublicationOutcome
  <2> HIDE DEF r
  <2>5. peers \in [Nodes -> PeerStates] /\ \A x \in Nodes : x # m => peers[x] = peerState[n][x]
    BY <1>1, <1>2, <2>1, <2>4 DEF getNextState, PeerStates, NodeTypes
  <2> HIDE DEF peers
  <2>6. /\ after \in Outcome /\ after.sent = r.sent /\ after.store = r.store
        /\ after.peers = peers /\ after.pending = r.pending
    BY <2>4, <2>5 DEF Outcome
  <2> HIDE DEF after, n, m
  <2>7. \A x \in Nodes, k \in Keys : Reached(after, n, x, k) <=> Reached(r, n, x, k)
    BY <2>6 DEF Reached
  <2>8. /\ \A k \in Keys : Lasting(after.store[k])
        /\ \A c \in after.sent : SoundFrom(c, n, after.store)
    BY <2>3, <2>6 DEF Merged
  <2>9. \A k \in Keys : m # n /\ k \in rpc.tobeUpdatedKeys \cup pendingKeys[n][m] => Reached(after, n, m, k)
    BY <1>1, <2>3, <2>7 DEF Merged
  <2>10. ASSUME NEW x \in Nodes, NEW k \in Keys
         PROVE  \/ x = n
                \/ Reached(after, n, x, k)
                \/ content(after.store[k]) = content(kvStore[n][k]) /\ Covered(n, x, k)
                \/ after.peers[x] # "INITIALIZED" /\ (after.peers[x] = "SYNCING" => k \in after.pending[x])
    <3>1. \/ x = n
          \/ content(after.store[k]) = content(kvStore[n][k])
          \/ Reached(after, n, x, k)
          \/ x # m /\ r.peers[x] # "INITIALIZED" /\ (r.peers[x] = "SYNCING" => k \in r.pending[x])
      BY <2>3, <2>6, <2>7 DEF Merged
    <3>2. /\ peerState[n][x] = "INITIALIZED" => Covered(n, x, k)
          /\ peerState[n][x] = "SYNCING" => Covered(n, x, k) \/ k \in pendingKeys[n][x]
      BY <1>1, <1>2 DEF NothingLost
    <3>3. CASE x = m
      BY <2>1, <2>9, <3>1, <3>2, <3>3
    <3>4. CASE x # m
      <4>1. after.peers[x] = peerState[n][x] /\ r.peers[x] = peerState[n][x] /\ pendingKeys[n][x] \subseteq after.pending[x]
            /\ after.pending = r.pending
        BY <2>3, <2>4, <2>5, <2>6, <3>4 DEF Merged
      <4> QED
        BY <3>1, <3>2, <4>1
    <3> QED
      BY <3>3, <3>4
  <2>11. \A c \in {rpc} : \A a, b \in Nodes, k \in Keys : Covers(c, kvStore[a][k], a, b, k) =>
           \/ a = b
           \/ a = n /\ Reached(after, n, b, k)
           \/ a # n /\ b = n /\ AtLeast(after.store[k], kvStore[a][k])
    BY <1>4, <2>9
  <2>12. n \in Nodes /\ after \in Outcome /\ {} \in SUBSET Rpc /\ \A c \in {} : c.type = "error"
    BY <1>1, <2>6
  <2>13. Apply(n, after, {rpc}, {})
    BY <1>6
  <2>14. HandsOver(n, after, {rpc})
    BY <2>8, <2>10, <2>11 DEF HandsOver
  <2> QED
    BY <1>3, <2>12, <2>13, <2>14, ApplyCovers
<1> QED
  BY <1>5, <1>6 DEF ProcessThriftSuccess

(* dumpKvStoreKeysImpl asks for every key of which the caller's hash dump has the newer content. *)
LEMMA DumpAsksForMore ==
  ASSUME NEW s \in [Keys -> StoredEntry], NEW hashes \in KeyVals, NEW k \in Keys,
         ~AtLeast(s[k], hashes[k])
  PROVE  k \in dumpDifference(s, hashes).tobeUpdatedKeys
<1>1. s[k] \in Entry /\ hashes[k] \in Entry
  BY StoredEntryIsEntry DEF KeyVals
<1>2. NewerContent(hashes[k], s[k])
  BY SMT, <1>1 DEF AtLeast, NewerContent, content, Entry
<1>3. hashes[k] # Absent
  BY SMT, <1>1, <1>2 DEF NewerContent, Absent, Entry
<1>4. compareValues(s[k], hashes[k]) \in {"SECOND", "UNKNOWN"}
  BY SMT, <1>1, <1>2 DEF compareValues, NewerContent, Entry
<1> QED
  BY <1>3, <1>4 DEF dumpDifference

LEMMA ProcessDumpKeeps == ASSUME LossInv, NEW rpc \in rpcs, ProcessDump(rpc) PROVE LossInv'
<1> DEFINE n == rpc.dst
           diff == dumpDifference(kvStore[n], rpc.keyVals)
           reply == Reply(n, rpc.src, diff)
<1>1. IInv /\ WireInv /\ n \in Nodes /\ rpc.src \in Nodes /\ rpc.keyVals \in KeyVals
  BY RpcTypes DEF LossInv
<1>2. kvStore[n] \in [Keys -> StoredEntry] /\ \A k \in Keys : Lasting(kvStore[n][k])
  BY <1>1 DEF IInv, TypeOK, WireInv
<1>3. \A k \in Keys : diff.keyVals[k] \in {kvStore[n][k], Absent}
  BY <1>2 DEF dumpDifference
<1>4. \A k \in Keys : ~AtLeast(kvStore[n][k], rpc.keyVals[k]) => k \in diff.tobeUpdatedKeys
  BY <1>1, <1>2, DumpAsksForMore
<1>5. /\ rpcs' = (rpcs \ {rpc}) \cup {reply} /\ rpc.type = "dump"
      /\ UNCHANGED <<kvStore, peerState, pendingKeys>>
  BY DEF ProcessDump
<1> HIDE DEF diff
<1>6. /\ reply.type = "reply" /\ reply.src = n /\ reply.dst = rpc.src /\ reply.nodeIds = {}
      /\ reply.keyVals = diff.keyVals /\ reply.tobeUpdatedKeys = diff.tobeUpdatedKeys
  BY DEF Reply
<1> HIDE DEF reply, n
<1>7. ~Absent.hasValue /\ Lasting(Absent)
  BY DEF Absent, Lasting
<1>8. \A k \in Keys : kvStore[n][k] # Absent => kvStore[n][k].hasValue
  BY <1>2 DEF StoredEntry
<1>9. /\ \A k \in Keys : Lasting(reply.keyVals[k])
      /\ AllValues(reply.keyVals) /\ Holds(n, reply.keyVals)
  BY <1>2, <1>3, <1>6, <1>7, <1>8, AtLeastReflexive DEF AllValues, Holds
<1>10. Sound(reply)
  BY <1>6, <1>9 DEF Sound
<1>11. ASSUME NEW a \in Nodes, NEW b \in Nodes, NEW k \in Keys, Covers(rpc, kvStore[a][k], a, b, k)
       PROVE  Covered(a, b, k)'
  <2>1. a = rpc.src /\ b = n /\ AtLeast(rpc.keyVals[k], kvStore[a][k])
    BY <1>5, <1>11 DEF Covers, n
  <2>2. CASE AtLeast(kvStore[b][k], rpc.keyVals[k])
    <3>1. kvStore[a][k] \in Entry /\ kvStore[b][k] \in Entry /\ rpc.keyVals[k] \in Entry
      BY <1>1, StoredEntryIsEntry DEF IInv, TypeOK, KeyVals
    <3>2. AtLeast(kvStore[b][k], kvStore[a][k])
      BY <2>1, <2>2, <3>1, AtLeastTransitive
    <3>3. AtLeast(kvStore'[b][k], kvStore'[a][k])
      BY <1>5, <3>2
    <3> QED
      BY <3>3, CoveredDef
  <2>3. CASE ~AtLeast(kvStore[b][k], rpc.keyVals[k])
    <3>1. reply \in rpcs' /\ Covers(reply, kvStore'[a][k], a, b, k)
      BY <1>4, <1>5, <1>6, <2>1, <2>3 DEF Covers
    <3> QED
      BY <3>1, CoveredDef
  <2> QED
    BY <2>2, <2>3
<1>12. IInv'
  BY <1>1, ProcessDumpStep
<1> QED
  BY <1>5, <1>10, <1>11, <1>12, QuietStep

(* The failure a caller is told of stands for the call that failed. *)
LEMMA FailRpcKeeps == ASSUME LossInv, NEW rpc \in rpcs, FailRpc(rpc) PROVE LossInv'
<1> DEFINE caller == IF rpc.type = "reply" THEN rpc.dst ELSE rpc.src
           server == IF rpc.type = "reply" THEN rpc.src ELSE rpc.dst
           error == Error(server, caller)
<1>1. /\ rpcs' = (rpcs \ {rpc}) \cup {error} /\ UNCHANGED <<kvStore, peerState, pendingKeys>>
      /\ rpc.type # "error"
  BY DEF FailRpc
<1>2. error.type = "error" /\ error.src = server /\ error.dst = caller
  BY DEF Error
<1> HIDE DEF error
<1>3. \A a, b \in Nodes, k \in Keys : Covers(rpc, kvStore[a][k], a, b, k) => caller = a /\ server = b
  BY <1>1 DEF Covers
<1>4. \A a, b \in Nodes, k \in Keys : Covers(rpc, kvStore[a][k], a, b, k) => Covered(a, b, k)'
  <2> SUFFICES ASSUME NEW a \in Nodes, NEW b \in Nodes, NEW k \in Keys, Covers(rpc, kvStore[a][k], a, b, k)
               PROVE  Covered(a, b, k)'
    OBVIOUS
  <2>1. error \in rpcs' /\ Covers(error, kvStore'[a][k], a, b, k)
    BY <1>1, <1>2, <1>3 DEF Covers
  <2> QED
    BY <2>1, CoveredDef
<1>5. Sound(error)
  BY <1>2 DEF Sound
<1>6. IInv'
  BY FailRpcStep DEF LossInv
<1> QED
  BY <1>1, <1>4, <1>5, <1>6, QuietStep

(* The failure is consumed when its peer is sent back to IDLE. *)
LEMMA ProcessThriftFailureKeeps == ASSUME LossInv, NEW rpc \in rpcs, ProcessThriftFailure(rpc) PROVE LossInv'
<1>1. /\ rpcs' = rpcs \ {rpc} /\ UNCHANGED <<kvStore, pendingKeys>> /\ rpc.type = "error"
      /\ rpc.dst \in Nodes /\ rpc.src \in Nodes /\ IInv
  BY RpcTypes DEF ProcessThriftFailure, LossInv
<1>2. /\ peerState'[rpc.dst][rpc.src] \in {"NONE", "IDLE"}
      /\ \A a, b \in Nodes : a # rpc.dst \/ b # rpc.src => peerState'[a][b] = peerState[a][b]
  BY <1>1 DEF ProcessThriftFailure, getNextState, IInv, TypeOK
<1>3. \A a, b \in Nodes, k \in Keys : Covers(rpc, kvStore[a][k], a, b, k) => a = rpc.dst /\ b = rpc.src
  BY <1>1 DEF Covers
<1>4. IInv'
  BY <1>1, ProcessThriftFailureStep
<1>5. \A a, b \in Nodes, k \in Keys : peerState'[a][b] \in {"INITIALIZED", "SYNCING"} =>
        /\ peerState'[a][b] = peerState[a][b]
        /\ \A c \in rpcs : Covers(c, kvStore[a][k], a, b, k) => c \in rpcs'
  BY SMT, <1>1, <1>2, <1>3
<1> QED
  BY <1>1, <1>4, <1>5, QuietStep

(* The hash dump that starts a full-sync is taken from the store as it is now. *)
LEMMA RequestThriftPeerSyncKeeps ==
  ASSUME LossInv, NEW n \in Nodes, NEW chosen \in SUBSET Nodes, RequestThriftPeerSync(n, chosen)
  PROVE  LossInv'
<1> DEFINE dump(m) == Dump(n, m, dumpHashWithFilters(kvStore[n]))
<1>1. IInv /\ kvStore[n] \in [Keys -> StoredEntry]
  BY DEF LossInv, IInv, TypeOK
<1>2. /\ rpcs' = rpcs \cup {dump(m) : m \in chosen} /\ UNCHANGED <<kvStore, pendingKeys>>
      /\ \A a, b \in Nodes : a # n \/ b \notin chosen => peerState'[a][b] = peerState[a][b]
  BY <1>1 DEF RequestThriftPeerSync, IInv, TypeOK
<1>3. \A k \in Keys : AtLeast(dumpHashWithFilters(kvStore[n])[k], kvStore[n][k])
  <2> SUFFICES ASSUME NEW k \in Keys PROVE AtLeast(dumpHashWithFilters(kvStore[n])[k], kvStore[n][k])
    OBVIOUS
  <2>1. kvStore[n][k] \in Entry
    BY <1>1, StoredEntryIsEntry
  <2>2. dumpHashWithFilters(kvStore[n])[k] = [kvStore[n][k] EXCEPT !.hasValue = FALSE]
    BY <1>1 DEF dumpHashWithFilters
  <2> QED
    BY <2>1, <2>2 DEF AtLeast, content, Entry
<1>4. \A m : /\ dump(m).type = "dump" /\ dump(m).src = n /\ dump(m).dst = m
             /\ dump(m).keyVals = dumpHashWithFilters(kvStore[n])
  BY DEF Dump
<1> HIDE DEF dump
<1>5. ASSUME NEW m \in chosen, NEW k \in Keys PROVE Covered(n, m, k)'
  <2>1. dump(m) \in rpcs' /\ Covers(dump(m), kvStore'[n][k], n, m, k)
    BY <1>2, <1>3, <1>4 DEF Covers
  <2> QED
    BY <2>1, CoveredDef
<1>6. \A m \in chosen : Sound(dump(m))
  BY <1>4 DEF Sound
<1>7. IInv'
  BY <1>1, RequestThriftPeerSyncStep
<1>8. \A rpc \in rpcs' : rpc \in rpcs \/ Sound(rpc)
  BY <1>2, <1>6
<1> QED
  BY <1>2, <1>5, <1>7, <1>8, QuietStep

LEMMA AddThriftPeersKeeps ==
  ASSUME LossInv, NEW n \in Nodes, NEW m \in Nodes, AddThriftPeers(n, m) PROVE LossInv'
<1>1. UNCHANGED <<kvStore, pendingKeys, rpcs>>
  BY DEF AddThriftPeers
<1>2. \A a, b \in Nodes : peerState'[a][b] \in {peerState[a][b], "IDLE"}
  BY DEF AddThriftPeers, LossInv, IInv, TypeOK
<1>3. IInv'
  BY AddThriftPeersStep DEF LossInv
<1> QED
  BY <1>1, <1>2, <1>3, QuietStep

LEMMA DelThriftPeersKeeps ==
  ASSUME LossInv, NEW n \in Nodes, NEW m \in Nodes, DelThriftPeers(n, m) PROVE LossInv'
<1>1. UNCHANGED <<kvStore, rpcs>>
  BY DEF DelThriftPeers
<1>2. \A a, b \in Nodes : \/ peerState'[a][b] = "NONE"
                          \/ peerState'[a][b] = peerState[a][b] /\ pendingKeys'[a][b] = pendingKeys[a][b]
  BY DEF DelThriftPeers, LossInv, IInv, TypeOK
<1>3. IInv'
  BY DelThriftPeersStep DEF LossInv
<1> QED
  BY <1>1, <1>2, <1>3, QuietStep

-----------------------------------------------------------------------------
LEMMA NextLossInv == LossInv /\ [Next]_vars => LossInv'
<1> SUFFICES ASSUME LossInv, [Next]_vars PROVE LossInv'
  OBVIOUS
<1>1. CASE UNCHANGED vars
  <2>1. IInv' /\ UNCHANGED <<kvStore, peerState, pendingKeys, rpcs>>
    BY <1>1, NextIInv DEF vars, LossInv
  <2> QED
    BY <2>1, QuietStep
<1>2. CASE System
  BY <1>2, ProcessSetKeeps, ProcessDumpKeeps, ProcessThriftSuccessKeeps, ProcessThriftFailureKeeps,
     RequestThriftPeerSyncKeeps DEF System
<1>3. CASE Environment
  BY <1>3, SetKeyValsKeeps, AdvertiseTtlUpdatesKeeps, ProcessSetKeeps, FailRpcKeeps, AddThriftPeersKeeps,
     DelThriftPeersKeeps DEF Environment
<1> QED
  BY <1>1, <1>2, <1>3 DEF Next

LEMMA InitLossInv == Init => LossInv
<1> SUFFICES ASSUME Init PROVE LossInv
  OBVIOUS
<1>1. IInv
  BY InitIInv
<1>2. \A n, m \in Nodes : peerState[n][m] \in {"IDLE", "NONE"}
  BY DEF Init
<1>3. NothingLost
  BY <1>2 DEF NothingLost
<1>4. WireInv
  BY DEF Init, WireInv, NoKeyVals, Lasting, Absent
<1> QED
  BY <1>1, <1>3, <1>4 DEF LossInv

(***************************************************************************)
(* mergePublication, floodPublication, finalizeFullSync: in no network and *)
(* under no order of calls, failures and peer updates is a value lost      *)
(* between the snapshot a full-sync starts from and the floods that follow *)
(* it.                                                                     *)
(***************************************************************************)
THEOREM NothingIsLost == Spec => []NothingLost
<1>1. Init => LossInv
  BY InitLossInv
<1>2. LossInv /\ [Next]_vars => LossInv'
  BY NextLossInv
<1>3. LossInv => NothingLost
  BY DEF LossInv
<1> QED
  BY <1>1, <1>2, <1>3, PTL DEF Spec
=============================================================================
