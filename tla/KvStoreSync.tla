------------------------------ MODULE KvStoreSync ------------------------------
(***************************************************************************)
(* Replication of the key-values of one area between the KvStores of a     *)
(* network (openr/kvstore/KvStore-inl.h, class KvStoreDb): local writes,   *)
(* flooding, the state machine of a peer, the three-way full-sync, ttl     *)
(* updates with the resync they may trigger, peers that come and go, and   *)
(* thrift calls that fail before or after they took effect.                *)
(*                                                                         *)
(* An RPC in flight is a record in `rpcs'.  Calls of different handlers    *)
(* may overtake each other: the server dispatches them to its own threads. *)
(* A failed call becomes an "error" that its caller will process.  Ttls    *)
(* are infinite here (expiry is the subject of KvStoreTtl), and neither    *)
(* the flood rate limit nor pre-compression is configured (KvStoreFlood).  *)
(***************************************************************************)
EXTENDS KvStoreMerge, FiniteSets

CONSTANTS Nodes,           \* node names; positive numbers, compared as originator ids
          Keys,
          Writes,          \* what clients write: [node, key, version, value]
          Links,           \* sets {n, m}: who may become a peer of whom
          MaxSyncLimit,    \* Constants::kMaxFullSyncPendingCountThreshold
          MaxTtlVersion,   \* bound on the ttl updates of an entry
          MaxFailures,     \* bound on failed RPCs
          MaxPeerEvents,   \* bound on peer additions and deletions
          MaxTroubles      \* bound on both together

ASSUME NodesAssumption == Nodes \subseteq Nat \ {NoNode}
ASSUME WritesAssumption ==
  Writes \subseteq [node : Nodes, key : Keys, version : Nat \ {0}, value : Nat]
ASSUME LimitAssumption == MaxSyncLimit \in Nat /\ MaxSyncLimit >= 2

VARIABLES kvStore,         \* kvStore[n][k]: kvStore_ of node n
          peerState,       \* peerState[n][m]: state of m in thriftPeers_ of n, or "NONE"
          pendingKeys,     \* pendingKeys[n][m]: pendingKeysDuringInitialization
          syncTimer,       \* syncTimer[n]: thriftSyncTimer_ is scheduled
          syncLimit,       \* syncLimit[n]: parallelSyncLimitOverThrift_
          subscriber,      \* subscriber[n][k]: what readers of kvStoreUpdatesQueue know
          rpcs,            \* RPCs in flight
          failures, peerEvents   \* how much of the two bounds is used

vars == <<kvStore, peerState, pendingKeys, syncTimer, syncLimit, subscriber, rpcs,
          failures, peerEvents>>

PeerStates == {"NONE", "IDLE", "SYNCING", "INITIALIZED"}

KeyVals == [Keys -> Entry]
NoKeyVals == [k \in Keys |-> Absent]

Rpc == [type : {"dump", "reply", "set", "error"}, src : Nodes, dst : Nodes,
        keyVals : KeyVals, tobeUpdatedKeys : SUBSET Keys, nodeIds : SUBSET Nodes]

TypeOK ==
  /\ kvStore \in [Nodes -> [Keys -> StoredEntry]]
  /\ peerState \in [Nodes -> [Nodes -> PeerStates \cup {"UNDEFINED"}]]
  /\ pendingKeys \in [Nodes -> [Nodes -> SUBSET Keys]]
  /\ syncTimer \in [Nodes -> BOOLEAN]
  /\ syncLimit \in [Nodes -> 1..MaxSyncLimit]
  /\ subscriber \in [Nodes -> [Keys -> StoredEntry]]
  /\ rpcs \subseteq Rpc
  /\ failures \in Nat
  /\ peerEvents \in Nat

(* Every node has just been told its peers (addThriftPeers) and holds nothing. *)
Init ==
  /\ kvStore = [n \in Nodes |-> NoKeyVals]
  /\ peerState = [n \in Nodes |-> [m \in Nodes |-> IF {n, m} \in Links THEN "IDLE" ELSE "NONE"]]
  /\ pendingKeys = [n \in Nodes |-> [m \in Nodes |-> {}]]
  /\ syncTimer = [n \in Nodes |-> TRUE]
  /\ syncLimit = [n \in Nodes |-> 2]
  /\ subscriber = [n \in Nodes |-> NoKeyVals]
  /\ rpcs = {}
  /\ failures = 0
  /\ peerEvents = 0

-----------------------------------------------------------------------------
(* The transition matrix of a peer; "UNDEFINED" is where its CHECK aborts the process. *)
getNextState(state, event) ==
  CASE state = "IDLE" /\ event = "PEER_ADD" -> "SYNCING"
    [] state \in {"SYNCING", "INITIALIZED"} /\ event = "SYNC_RESP_RCVD" -> "INITIALIZED"
    [] event \in {"THRIFT_API_ERROR", "INCONSISTENCY_DETECTED"} -> "IDLE"
    [] OTHER -> "UNDEFINED"

IdlePeers(peers) == {m \in Nodes : peers[m] = "IDLE"}

Dump(n, m, hashes) ==
  [type |-> "dump", src |-> n, dst |-> m, keyVals |-> hashes, tobeUpdatedKeys |-> {}, nodeIds |-> {}]

Reply(n, m, diff) ==
  [type |-> "reply", src |-> n, dst |-> m, keyVals |-> diff.keyVals,
   tobeUpdatedKeys |-> diff.tobeUpdatedKeys, nodeIds |-> {}]

Set(n, m, keyVals, nodeIds) ==
  [type |-> "set", src |-> n, dst |-> m, keyVals |-> keyVals, tobeUpdatedKeys |-> {}, nodeIds |-> nodeIds]

Error(n, m) ==
  [type |-> "error", src |-> n, dst |-> m, keyVals |-> NoKeyVals, tobeUpdatedKeys |-> {}, nodeIds |-> {}]

(***************************************************************************)
(* finalizeFullSync: the calls that send the keys back to the node we      *)
(* synced with, unless it is gone or IDLE or there is nothing to send.     *)
(***************************************************************************)
finalizeFullSync(n, store, peers, keys, sender) ==
  LET updates == [k \in Keys |-> IF k \in keys THEN store[k] ELSE Absent]
  IN  IF KeysOf(updates) = {} \/ peers[sender] \in {"NONE", "IDLE"} THEN {}
      ELSE {Set(n, sender, updates, {n})}

(***************************************************************************)
(* floodPublication to peers: never towards the node the publication came  *)
(* from, and a peer that is not INITIALIZED gets the keys later.           *)
(***************************************************************************)
FloodPeers(n, peers, from) ==
  {m \in Nodes : peers[m] = "INITIALIZED" /\ m # from}

floodPublication(n, keyVals, nodeIds, peers, from) ==
  {Set(n, m, keyVals, nodeIds \cup {n}) : m \in FloodPeers(n, peers, from)}

(* Mutant: a peer that is not INITIALIZED is skipped for good. *)
pendPublication_Forget(keyVals, peers, pending, from) == pending

pendPublication(keyVals, peers, pending, from) ==
  [m \in Nodes |-> IF peers[m] \in {"IDLE", "SYNCING"} /\ m # from
                   THEN pending[m] \cup KeysOf(keyVals) ELSE pending[m]]

(* What a local subscriber knows after the publication is pushed to its queue. *)
notifySubscriber(known, keyVals) ==
  [k \in Keys |-> IF keyVals[k].hasValue THEN keyVals[k]
                  ELSE IF keyVals[k] = Absent \/ known[k] = Absent THEN known[k]
                  ELSE updateKvStoreTtl(known[k], keyVals[k])]

(***************************************************************************)
(* mergePublication: what it makes of node n's store, peers, pending keys, *)
(* timer and subscribers, and the calls it sends.  `syncedWith' is the     *)
(* senderId of a full-sync response, or NoNode; `from' is the last of      *)
(* nodeIds, or NoNode for a local update and for a full-sync response.     *)
(***************************************************************************)
mergePublication(n, pub, from, syncedWith) ==
  LET keysToSendBack == IF syncedWith = NoNode THEN {}
                        ELSE pub.tobeUpdatedKeys \cup pendingKeys[n][syncedWith]
      pending == [m \in Nodes |-> IF m = syncedWith THEN {} ELSE pendingKeys[n][m]]
      sender == IF syncedWith # NoNode THEN syncedWith ELSE from
      result == mergeKeyValues(kvStore[n], pub.keyVals, sender)
      resync == result.inconsistent /\ sender \in Nodes /\ peerState[n][sender] # "NONE"
      delta == result.keyVals
      unchanged == [store |-> kvStore[n], peers |-> peerState[n], pending |-> pendingKeys[n],
                    timer |-> syncTimer[n], known |-> subscriber[n], sent |-> {}]
      disconnected == [store |-> result.store, pending |-> pending,
                       peers |-> [peerState[n] EXCEPT ![sender] =
                                    getNextState(@, "INCONSISTENCY_DETECTED")],
                       timer |-> TRUE, known |-> subscriber[n], sent |-> {}]
      flooded == [store |-> result.store, peers |-> peerState[n],
                  pending |-> IF KeysOf(delta) = {} THEN pending
                              ELSE pendPublication(delta, peerState[n], pending, from),
                  timer |-> syncTimer[n],
                  known |-> notifySubscriber(subscriber[n], delta),
                  sent |-> (IF KeysOf(delta) = {} THEN {}
                            ELSE floodPublication(n, delta, pub.nodeIds, peerState[n], from))
                           \cup (IF keysToSendBack = {} THEN {}
                                 ELSE finalizeFullSync(n, result.store, peerState[n],
                                                       keysToSendBack, syncedWith))]
  IN  IF n \in pub.nodeIds \/ (KeysOf(pub.keyVals) = {} /\ keysToSendBack = {}) THEN unchanged
      ELSE IF resync THEN disconnected
      ELSE flooded

(* Node n takes over the outcome of mergePublication; `done' are the RPCs it consumed. *)
Apply(n, outcome, done, more) ==
  \E r \in {outcome} :
    /\ kvStore' = [kvStore EXCEPT ![n] = r.store]
    /\ peerState' = [peerState EXCEPT ![n] = r.peers]
    /\ pendingKeys' = [pendingKeys EXCEPT ![n] = r.pending]
    /\ syncTimer' = [syncTimer EXCEPT ![n] = r.timer]
    /\ subscriber' = [subscriber EXCEPT ![n] = r.known]
    /\ rpcs' = (rpcs \ done) \cup r.sent \cup more

-----------------------------------------------------------------------------
(* setKeyVals by a client of node w.node, with a version of its own choosing. *)
SetKeyVals(w) ==
  LET n == w.node
      e == [version |-> w.version, originatorId |-> n, value |-> w.value, hasValue |-> TRUE,
            ttlVersion |-> 0, ttl |-> TtlInfinity]
      pub == [keyVals |-> [NoKeyVals EXCEPT ![w.key] = e], nodeIds |-> {}, tobeUpdatedKeys |-> {}]
  IN  /\ Apply(n, mergePublication(n, pub, NoNode, NoNode), {}, {})
      /\ UNCHANGED <<syncLimit, failures, peerEvents>>

(* advertiseTtlUpdates: one publication refreshes several of the node's own keys. *)
AdvertiseTtlUpdates(n, keys) ==
  LET refreshed(k) == [kvStore[n][k] EXCEPT !.hasValue = FALSE, !.value = 0, !.ttlVersion = @ + 1]
      pub == [keyVals |-> [k \in Keys |-> IF k \in keys THEN refreshed(k) ELSE Absent],
              nodeIds |-> {}, tobeUpdatedKeys |-> {}]
  IN  /\ \A k \in keys : /\ kvStore[n][k].originatorId = n
                         /\ kvStore[n][k].ttlVersion < MaxTtlVersion
      /\ Apply(n, mergePublication(n, pub, NoNode, NoNode), {}, {})
      /\ UNCHANGED <<syncLimit, failures, peerEvents>>

(* setKvStoreKeyVals called by a peer; its answer may be lost on the way back. *)
ProcessSet(rpc, answered) ==
  LET n == rpc.dst
  IN  /\ rpc.type = "set"
      /\ answered \/ (failures < MaxFailures /\ failures + peerEvents < MaxTroubles)
      /\ failures' = IF answered THEN failures ELSE failures + 1
      /\ Apply(n, mergePublication(n, rpc, rpc.src, NoNode), {rpc},
               IF answered THEN {} ELSE {Error(n, rpc.src)})
      /\ UNCHANGED <<syncLimit, peerEvents>>

(* dumpKvStoreKeysImpl: the responder of a full-sync. *)
ProcessDump(rpc) ==
  /\ rpc.type = "dump"
  /\ rpcs' = (rpcs \ {rpc})
             \cup {Reply(rpc.dst, rpc.src, dumpDifference(kvStore[rpc.dst], rpc.keyVals))}
  /\ UNCHANGED <<kvStore, peerState, pendingKeys, syncTimer, syncLimit, subscriber, failures, peerEvents>>

(***************************************************************************)
(* processThriftSuccess: the initiator of a full-sync gets the answer.     *)
(***************************************************************************)
ProcessThriftSuccess(rpc) ==
  LET n == rpc.dst
      m == rpc.src
      r == mergePublication(n, rpc, NoNode, m)
      peers == [r.peers EXCEPT ![m] = getNextState(@, "SYNC_RESP_RCVD")]
      after == [r EXCEPT !.peers = peers, !.timer = IdlePeers(peers) # {}]
      double == IF 2 * syncLimit[n] < MaxSyncLimit THEN 2 * syncLimit[n] ELSE MaxSyncLimit
      ignored == peerState[n][m] \in {"NONE", "IDLE"}
  IN  /\ rpc.type = "reply"
      /\ \/ /\ ignored
            /\ rpcs' = rpcs \ {rpc}
            /\ UNCHANGED <<kvStore, peerState, pendingKeys, syncTimer, syncLimit, subscriber>>
         \/ /\ ~ignored
            /\ Apply(n, after, {rpc}, {})
            /\ syncLimit' = [syncLimit EXCEPT ![n] = double]
      /\ UNCHANGED <<failures, peerEvents>>

(* A call fails: it never reached its server, or its answer was lost. *)
FailRpc(rpc) ==
  LET caller == IF rpc.type = "reply" THEN rpc.dst ELSE rpc.src
      server == IF rpc.type = "reply" THEN rpc.src ELSE rpc.dst
  IN  /\ failures < MaxFailures /\ failures + peerEvents < MaxTroubles
      /\ rpc.type # "error"
      /\ failures' = failures + 1
      /\ rpcs' = (rpcs \ {rpc}) \cup {Error(server, caller)}
      /\ UNCHANGED <<kvStore, peerState, pendingKeys, syncTimer, syncLimit, subscriber, peerEvents>>

(* Mutant: the failure does not start the timer. *)
ProcessThriftFailure_NoTimer(rpc) ==
  /\ rpc.type = "error"
  /\ rpcs' = rpcs \ {rpc}
  /\ peerState' = IF peerState[rpc.dst][rpc.src] = "NONE" THEN peerState
                  ELSE [peerState EXCEPT ![rpc.dst][rpc.src] = "IDLE"]
  /\ UNCHANGED <<kvStore, pendingKeys, syncTimer, syncLimit, subscriber, failures, peerEvents>>

(* processThriftFailure, then disconnectPeer. *)
ProcessThriftFailure(rpc) ==
  LET n == rpc.dst
      m == rpc.src
      known == peerState[n][m] # "NONE"
  IN  /\ rpc.type = "error"
      /\ rpcs' = rpcs \ {rpc}
      /\ peerState' = IF known THEN [peerState EXCEPT ![n][m] = getNextState(@, "THRIFT_API_ERROR")]
                      ELSE peerState
      /\ syncTimer' = IF known THEN [syncTimer EXCEPT ![n] = TRUE] ELSE syncTimer
      /\ UNCHANGED <<kvStore, pendingKeys, syncLimit, subscriber, failures, peerEvents>>

(***************************************************************************)
(* requestThriftPeerSync, when thriftSyncTimer_ fires: hash dumps go to    *)
(* the IDLE peers `chosen'; the loop stops once more than the limit are    *)
(* syncing, and the peers left out are in backoff or beyond the limit.     *)
(***************************************************************************)
RequestThriftPeerSync(n, chosen) ==
  LET idle == IdlePeers(peerState[n])
      syncing == {m \in Nodes : peerState[n][m] = "SYNCING"}
      inSync == Cardinality(syncing \cup chosen)
      room == syncLimit[n] + 1 - Cardinality(syncing)
  IN  /\ syncTimer[n]
      /\ chosen \subseteq idle
      /\ chosen # {} \/ idle = {}
      /\ Cardinality(chosen) <= IF room < 1 THEN 1 ELSE room
      /\ peerState' = [peerState EXCEPT ![n] =
                         [m \in Nodes |-> IF m \in chosen THEN getNextState(@[m], "PEER_ADD") ELSE @[m]]]
      /\ rpcs' = rpcs \cup {Dump(n, m, dumpHashWithFilters(kvStore[n])) : m \in chosen}
      /\ syncTimer' = [syncTimer EXCEPT ![n] = idle # chosen \/ inSync > syncLimit[n]]
      /\ UNCHANGED <<kvStore, pendingKeys, syncLimit, subscriber, failures, peerEvents>>

(* addThriftPeers: a new peer, or one whose specification is refreshed. *)
AddThriftPeers(n, m) ==
  /\ peerEvents < MaxPeerEvents /\ failures + peerEvents < MaxTroubles
  /\ peerEvents' = peerEvents + 1
  /\ {n, m} \in Links
  /\ peerState' = [peerState EXCEPT ![n][m] = "IDLE"]
  /\ syncTimer' = [syncTimer EXCEPT ![n] = TRUE]
  /\ UNCHANGED <<kvStore, pendingKeys, syncLimit, subscriber, rpcs, failures>>

(* delThriftPeers: everything known of the peer goes; calls in flight stay in flight. *)
DelThriftPeers(n, m) ==
  /\ peerEvents < MaxPeerEvents /\ failures + peerEvents < MaxTroubles
  /\ peerEvents' = peerEvents + 1
  /\ peerState[n][m] # "NONE"
  /\ peerState' = [peerState EXCEPT ![n][m] = "NONE"]
  /\ pendingKeys' = [pendingKeys EXCEPT ![n][m] = {}]
  /\ UNCHANGED <<kvStore, syncTimer, syncLimit, subscriber, rpcs, failures>>

(* What the nodes do of their own accord, and what happens to them. *)
System ==
  \/ \E rpc \in rpcs : ProcessSet(rpc, TRUE)
  \/ \E rpc \in rpcs : ProcessDump(rpc)
  \/ \E rpc \in rpcs : ProcessThriftSuccess(rpc)
  \/ \E rpc \in rpcs : ProcessThriftFailure(rpc)
  \/ \E n \in Nodes : \E chosen \in SUBSET Nodes : RequestThriftPeerSync(n, chosen)

Environment ==
  \/ \E w \in Writes : SetKeyVals(w)
  \/ \E n \in Nodes : \E keys \in SUBSET Keys \ {{}} : AdvertiseTtlUpdates(n, keys)
  \/ \E rpc \in rpcs : ProcessSet(rpc, FALSE)
  \/ \E rpc \in rpcs : FailRpc(rpc)
  \/ \E n, m \in Nodes : AddThriftPeers(n, m)
  \/ \E n, m \in Nodes : DelThriftPeers(n, m)

Next == System \/ Environment

Spec == Init /\ [][Next]_vars

(***************************************************************************)
(* Calls are delivered or fail, and timers fire: the event loop of a node  *)
(* runs every callback that is ready, and the backoff of a peer is bounded *)
(* (Constants::kMaxBackoff).                                               *)
(***************************************************************************)
FairSpec == Spec /\ WF_vars(System)

-----------------------------------------------------------------------------
(***************************************************************************)
(* getNextState CHECKs that the transition it takes is defined: no         *)
(* interleaving of responses, failures, inconsistencies and peer updates   *)
(* runs into the undefined entries of the matrix.                          *)
(***************************************************************************)
NoUndefinedTransition == \A n, m \in Nodes : peerState[n][m] # "UNDEFINED"

(***************************************************************************)
(* Key k of node n is safe with respect to peer m: m has it, it is on its  *)
(* way, an unanswered full-sync request or its answer will ask for it, or  *)
(* the failure that will restart the full-sync is known to be coming.      *)
(***************************************************************************)
Covered(n, m, k) ==
  LET mine == kvStore[n][k]
  IN  \/ AtLeast(kvStore[m][k], mine)
      \/ \E rpc \in rpcs :
           \/ /\ rpc.type = "set" /\ rpc.src = n /\ rpc.dst = m
              /\ rpc.keyVals[k].hasValue /\ AtLeast(rpc.keyVals[k], mine) /\ m \notin rpc.nodeIds
           \/ /\ rpc.type = "dump" /\ rpc.src = n /\ rpc.dst = m
              /\ AtLeast(rpc.keyVals[k], mine)
           \/ /\ rpc.type = "reply" /\ rpc.src = m /\ rpc.dst = n /\ k \in rpc.tobeUpdatedKeys
           \/ /\ rpc.type = "error" /\ rpc.src = m /\ rpc.dst = n

(***************************************************************************)
(* mergePublication, floodPublication, finalizeFullSync: no update is lost *)
(* between the snapshot a full-sync starts from and the moment the peer is *)
(* INITIALIZED and receives the floods, whatever fails or is delayed.      *)
(***************************************************************************)
NothingLost ==
  \A n, m \in Nodes, k \in Keys :
    /\ peerState[n][m] = "INITIALIZED" => Covered(n, m, k)
    /\ peerState[n][m] = "SYNCING" => Covered(n, m, k) \/ k \in pendingKeys[n][m]

(***************************************************************************)
(* requestThriftPeerSync, processThriftSuccess, disconnectPeer: a peer     *)
(* that waits for a full-sync has the timer running that will start it.    *)
(***************************************************************************)
NoStrandedPeer == \A n \in Nodes : IdlePeers(peerState[n]) # {} => syncTimer[n]

(***************************************************************************)
(* floodPublication pushes every change to kvStoreUpdatesQueue: readers    *)
(* (Decision, PrefixManager, streaming clients) see the store as it is.    *)
(* docs/Protocol_Guide/KvStore.md: "All incremental changes in local       *)
(* KvStore are published".                                                 *)
(***************************************************************************)
SubscribersSeeTheStore == subscriber = kvStore

(***************************************************************************)
(* mergePublication: a store never replaces an entry by an older one.      *)
(***************************************************************************)
StoresOnlyAdvance ==
  [][\A n \in Nodes, k \in Keys : kvStore'[n][k] = kvStore[n][k] \/ Newer(kvStore'[n][k], kvStore[n][k])]_vars

(***************************************************************************)
(* Eventual consistency: once writes, failures and peer changes stop, every *)
(* node has what its neighbour, which considers it a peer, has.            *)
(***************************************************************************)
EventuallyConsistent ==
  <>[](\A n, m \in Nodes : peerState[n][m] # "NONE" =>
         /\ peerState[n][m] = "INITIALIZED"
         /\ \A k \in Keys : AtLeast(kvStore[m][k], kvStore[n][k]))

=============================================================================
