----------------------------- MODULE KvStoreFlood -----------------------------
(***************************************************************************)
(* The memory budget of flooding (KvStoreDb of kvstore/KvStore-inl.h, with *)
(* enable_flood_pub_pre_compression).  A publication is serialized once    *)
(* for the peers of the fabric and once for the others; a buffer is        *)
(* charged to the area until its last send has resolved.  At or above the  *)
(* budget the keys of a publication wait in pendingFloodKeys_ and are      *)
(* flooded, with the values of the day, when the budget frees; a timer     *)
(* repairs the budget when a completion was lost.                          *)
(*                                                                         *)
(* One area of one node runs on one event base: fdDb is its KvStoreDb and  *)
(* the handlers map a KvStoreDb to the next.  A value is the number of the *)
(* update that wrote it, which stands for its version; 0 is an absent key. *)
(* Peers merge by version (mergeKeyValues).  The full sync of a peer, of   *)
(* which KvStoreSync has the detail, is one exchange here.                 *)
(***************************************************************************)
EXTENDS Integers, FiniteSets, FiniteSetsExt

CONSTANTS
  FloodKeys, FloodPeers,
  NoSender,        \* the publication is the node's own
  FloodScenes      \* [external peers, fabric keys (adj, prefix), drain-status keys,
                   \*   budget, and bounds: updates, expiries, failures, losses]

VARIABLES
  fdScene,
  fdDb,     \* [store : key -> value,
            \*  peers : peer -> [state, pending (keys during initialization), hashes],
            \*  bytes, outstanding, pending, since, timer,
            \*  rpcs : calls in flight [peer, kv, charge (0: none), stuck],
            \*  buffers : number of buffers made,
            \*  reconciled : a charge was dropped by the wedge recovery]
  fdHas,    \* peer -> key -> value
  fdCounts  \* [updates, expiries, failures, losses]

fdVars == <<fdScene, fdDb, fdHas, fdCounts>>

IsFabricExternal(p) == p \in fdScene.external
MayHave(p, k) == IsFabricExternal(p) => k \notin fdScene.fabric \cup fdScene.drain
Present(kv) == {k \in FloodKeys : kv[k] > 0}
Only(kv, keys) == [k \in FloodKeys |-> IF k \in keys THEN kv[k] ELSE 0]
InState(db, state) == {p \in FloodPeers : db.peers[p].state = state}

makeFabricParam(kv) == Only(kv, FloodKeys \ (fdScene.fabric \cup fdScene.drain))

(***************************************************************************)
(* A round of flooding: one charged buffer for the peers of the fabric,    *)
(* one for the others, each shared by the calls to its peers.              *)
(***************************************************************************)
FloodRound(db, targets, params) ==
  LET buffer(p) == db.buffers + (IF IsFabricExternal(p) THEN 2 ELSE 1)
  IN  [db EXCEPT !.rpcs = @ \cup {[peer |-> p, kv |-> params[p], charge |-> buffer(p),
                                   stuck |-> FALSE] : p \in targets},
                 !.bytes = @ + Cardinality({buffer(p) : p \in targets}),
                 !.outstanding = @ + Cardinality(targets),
                 !.buffers = @ + 2]

floodPublication(db, keys, sender) ==
  LET others == FloodPeers \ {sender}
      kv == Only(db.store, keys)
      params == [p \in FloodPeers |-> IF IsFabricExternal(p) THEN makeFabricParam(kv) ELSE kv]
      noted == [db EXCEPT !.peers = [p \in FloodPeers |->
                  IF p \in others /\ @[p].state # "INITIALIZED"
                  THEN [@[p] EXCEPT !.pending = @ \cup keys] ELSE @[p]]]
  IN  IF db.bytes < fdScene.budget
      THEN FloodRound(noted, others \cap InState(db, "INITIALIZED"), params)
      ELSE [noted EXCEPT !.pending = @ \cup keys,
                         !.since = IF db.pending = {} THEN "fresh" ELSE @,
                         !.timer = TRUE]

buildCoalescedFloodParams(db, isFabricExternal) ==
  Only(db.store, db.pending \ (IF isFabricExternal THEN fdScene.fabric ELSE {}))

\* Mutant: the keys are forgotten when there is no budget for them.
drainPendingFloods_Forgets(db) ==
  IF db.pending = {} THEN db
  ELSE LET params == [p \in FloodPeers |-> buildCoalescedFloodParams(db, IsFabricExternal(p))]
           targets == {p \in InState(db, "INITIALIZED") : Present(params[p]) # {}}
       IN  [FloodRound(db, IF db.bytes >= fdScene.budget THEN {} ELSE targets, params)
              EXCEPT !.pending = {}, !.since = "none", !.timer = FALSE]

drainPendingFloods(db) ==
  IF db.bytes >= fdScene.budget \/ db.pending = {} THEN db
  ELSE LET params == [p \in FloodPeers |-> buildCoalescedFloodParams(db, IsFabricExternal(p))]
           targets == {p \in InState(db, "INITIALIZED") : Present(params[p]) # {}}
       IN  [FloodRound(db, targets, params)
              EXCEPT !.pending = {}, !.since = "none", !.timer = FALSE]

releaseFloodBytes(db, bytes) == [db EXCEPT !.bytes = IF @ >= bytes THEN @ - bytes ELSE 0]

\* The continuation of a send: its reference on the charge goes first.
OnFloodResolved(db, rpc, failed) ==
  LET rest == db.rpcs \ {rpc}
      dropped == [db EXCEPT !.rpcs = rest]
      released == IF rpc.charge = 0 \/ \E r \in rest : r.charge = rpc.charge THEN dropped
                  ELSE releaseFloodBytes(dropped, 1)
      settled == [released EXCEPT !.outstanding =
                    IF @ > 0 /\ rpc.charge # 0 THEN @ - 1 ELSE @]
      after == IF failed THEN [settled EXCEPT !.peers[rpc.peer].state = "IDLE"] ELSE settled
  IN  IF rpc.charge = 0 THEN after ELSE drainPendingFloods(after)

reconcileAndDrainPendingFloods(db) ==
  IF db.pending = {} THEN db
  ELSE drainPendingFloods(
         IF db.bytes >= fdScene.budget /\ db.since = "old"
         THEN [db EXCEPT !.bytes = 0, !.outstanding = 0, !.since = "fresh",
                         !.reconciled = TRUE]
         ELSE db)

(***************************************************************************)
(* Steps                                                                   *)
(***************************************************************************)
FloodInit ==
  /\ fdScene \in FloodScenes
  /\ fdDb = [store |-> [k \in FloodKeys |-> 0],
             peers |-> [p \in FloodPeers |-> [state |-> "INITIALIZED", pending |-> {},
                                              hashes |-> [k \in FloodKeys |-> 0]]],
             bytes |-> 0, outstanding |-> 0, pending |-> {}, since |-> "none",
             timer |-> FALSE, rpcs |-> {}, buffers |-> 0, reconciled |-> FALSE]
  /\ fdHas = [p \in FloodPeers |-> [k \in FloodKeys |-> 0]]
  /\ fdCounts = [updates |-> 0, expiries |-> 0, failures |-> 0, losses |-> 0]

Count(what, bound) ==
  /\ fdCounts[what] < bound
  /\ fdCounts' = [fdCounts EXCEPT ![what] = @ + 1]

Merged(p, kv) == [k \in FloodKeys |-> IF kv[k] > fdHas[p][k] THEN kv[k] ELSE fdHas[p][k]]
Receives(p, kv) == fdHas' = [fdHas EXCEPT ![p] = Merged(p, kv)]

\* A publication, the node's own or of a peer, changed a key of the store.
StoreChanges(k, sender) ==
  LET value == fdCounts.updates + 1
  IN  /\ Count("updates", fdScene.updates)
      /\ sender # NoSender => MayHave(sender, k)
      /\ fdDb' = floodPublication([fdDb EXCEPT !.store[k] = value], {k}, sender)
      /\ fdHas' = IF sender = NoSender THEN fdHas
                  ELSE [fdHas EXCEPT ![sender][k] = value]
      /\ UNCHANGED fdScene

\* A key expires: expired keys are not flooded.
KeyExpires(k) ==
  /\ Count("expiries", fdScene.expiries)
  /\ fdDb.store[k] > 0
  /\ fdDb' = [fdDb EXCEPT !.store[k] = 0]
  /\ UNCHANGED <<fdScene, fdHas>>

\* The call returns.
FloodReturns(rpc) ==
  /\ Receives(rpc.peer, rpc.kv)
  /\ fdDb' = OnFloodResolved(fdDb, rpc, FALSE)
  /\ UNCHANGED <<fdScene, fdCounts>>

\* The call fails, before or after the peer has merged it.
FloodFails(rpc) ==
  /\ Count("failures", fdScene.failures)
  /\ Receives(rpc.peer, rpc.kv) \/ UNCHANGED fdHas
  /\ fdDb' = OnFloodResolved(fdDb, rpc, TRUE)
  /\ UNCHANGED fdScene

\* The peer has merged the call, whose completion is lost or very late.
CompletionIsLost(rpc) ==
  /\ Count("losses", fdScene.losses)
  /\ rpc.charge # 0 /\ ~rpc.stuck
  /\ Receives(rpc.peer, rpc.kv)
  /\ fdDb' = [fdDb EXCEPT !.rpcs = (@ \ {rpc}) \cup {[rpc EXCEPT !.stuck = TRUE]}]
  /\ UNCHANGED fdScene

\* requestThriftPeerSync sends the hashes to an IDLE peer.
SyncPeer(p) ==
  /\ fdDb.peers[p].state = "IDLE"
  /\ fdDb' = [fdDb EXCEPT !.peers[p].state = "SYNCING",
                !.peers[p].hashes = IF IsFabricExternal(p)
                                    THEN makeFabricParam(fdDb.store) ELSE fdDb.store]
  /\ UNCHANGED <<fdScene, fdHas, fdCounts>>

\* The peer answers with the keys it lacks; finalizeFullSync sends them, and
\* those that changed meanwhile, outside the budget.
PeerSynced(p) ==
  LET peer == fdDb.peers[p]
      keys == {k \in FloodKeys : peer.hashes[k] > fdHas[p][k]} \cup peer.pending
      kv == IF IsFabricExternal(p) THEN makeFabricParam(Only(fdDb.store, keys))
            ELSE Only(fdDb.store, keys)
  IN  /\ peer.state = "SYNCING"
      /\ fdDb' = [fdDb EXCEPT
                    !.peers[p] = [state |-> "INITIALIZED", pending |-> {},
                                  hashes |-> [k \in FloodKeys |-> 0]],
                    !.rpcs = IF Present(Only(fdDb.store, keys)) = {} THEN @
                             ELSE @ \cup {[peer |-> p, kv |-> kv, charge |-> 0,
                                           stuck |-> FALSE]}]
      /\ UNCHANGED <<fdScene, fdHas, fdCounts>>

\* floodDrainReconcileThreshold has passed since the keys began to wait: a call
\* that was in flight then has resolved or never will (kServiceProcTimeout is
\* far below the threshold), and none was sent meanwhile.
ThresholdPasses ==
  /\ fdDb.since = "fresh"
  /\ \A rpc \in fdDb.rpcs : rpc.charge = 0 \/ rpc.stuck
  /\ fdDb' = [fdDb EXCEPT !.since = "old"]
  /\ UNCHANGED <<fdScene, fdHas, fdCounts>>

\* floodDrainTimer_: armed until the threshold.
FloodDrainTimer ==
  /\ fdDb.timer /\ fdDb.since = "old"
  /\ fdDb' = LET done == reconcileAndDrainPendingFloods([fdDb EXCEPT !.timer = FALSE])
             IN  IF done.pending # {} THEN [done EXCEPT !.timer = TRUE] ELSE done
  /\ UNCHANGED <<fdScene, fdHas, fdCounts>>

FloodNext ==
  \/ \E k \in FloodKeys, sender \in FloodPeers \cup {NoSender} : StoreChanges(k, sender)
  \/ \E k \in FloodKeys : KeyExpires(k)
  \/ \E rpc \in fdDb.rpcs : FloodReturns(rpc) \/ FloodFails(rpc) \/ CompletionIsLost(rpc)
  \/ \E p \in FloodPeers : SyncPeer(p) \/ PeerSynced(p)
  \/ ThresholdPasses
  \/ FloodDrainTimer

FloodSpec == FloodInit /\ [][FloodNext]_fdVars

(***************************************************************************)
(* Properties                                                              *)
(***************************************************************************)
Charged == {rpc.charge : rpc \in {r \in fdDb.rpcs : r.charge # 0}}

\* Types; the unsigned byte count stays a natural number, also when a late
\* completion credits bytes that the wedge recovery had already dropped.
FloodTypeOK ==
  /\ fdDb.store \in [FloodKeys -> Nat] /\ fdHas \in [FloodPeers -> [FloodKeys -> Nat]]
  /\ fdDb.peers \in [FloodPeers -> [state : {"IDLE", "SYNCING", "INITIALIZED"},
                                    pending : SUBSET FloodKeys,
                                    hashes : [FloodKeys -> Nat]]]
  /\ fdDb.bytes \in Nat /\ fdDb.outstanding \in Nat /\ fdDb.timer \in BOOLEAN
  /\ fdDb.pending \subseteq FloodKeys /\ fdDb.since \in {"none", "fresh", "old"}

\* The area is charged for the distinct buffers in flight, whichever way and in
\* whichever order their sends resolve; after a wedge recovery, for no more.
ChargedOncePerBuffer ==
  /\ fdDb.bytes <= Cardinality(Charged)
  /\ ~fdDb.reconciled => /\ fdDb.bytes = Cardinality(Charged)
                         /\ fdDb.outstanding =
                              Cardinality({rpc \in fdDb.rpcs : rpc.charge # 0})

\* The budget is exceeded by the buffers of one round at the most.
BudgetIsKept == fdDb.bytes < fdScene.budget + 2

\* Keys are held back only while the area is at its budget, and then the
\* drain timer is armed: no completion that frees the budget leaves them.
HeldBackOnlyOverBudget ==
  IF fdDb.pending = {} THEN fdDb.since = "none" /\ ~fdDb.timer
  ELSE fdDb.bytes >= fdScene.budget /\ fdDb.since # "none" /\ fdDb.timer

\* What of the store a peer lacks is on its way, held back, or will come with
\* its full sync: no deferral, failure, lost completion or expiry forgets it.
NoFloodForgotten ==
  \A p \in FloodPeers, k \in FloodKeys :
    LET peer == fdDb.peers[p]
        value == fdDb.store[k]
    IN  MayHave(p, k) /\ fdHas[p][k] < value =>
          \/ \E rpc \in fdDb.rpcs : rpc.peer = p /\ rpc.kv[k] = value /\ ~rpc.stuck
          \/ peer.state = "INITIALIZED" /\ k \in fdDb.pending
          \/ peer.state = "SYNCING" /\ (k \in peer.pending \/ peer.hashes[k] = value)
          \/ peer.state = "IDLE"

\* A wedge does not last: whatever completions were lost, once the threshold
\* has passed the next firing of the timer sends what was held back.
WedgeIsRepaired ==
  fdDb.timer /\ fdDb.since = "old" => reconcileAndDrainPendingFloods(fdDb).pending = {}

\* "A fabric node should not send a fabric key to a non-fabric node": adjacency,
\* prefix and drain-status keys of the fabric do not reach external peers.
FabricKeysStayInside ==
  \A p \in FloodPeers, k \in FloodKeys : fdHas[p][k] > 0 => MayHave(p, k)

\* Flooding under a byte budget, between two callbacks: the charge is that of the buffers in
\* flight, keys are held back only over budget and never for good, nothing a peer lacks is
\* forgotten and nothing goes where it must not (floodPublication, drainPendingFloods).
FloodInvariant ==
  /\ FloodTypeOK
  /\ ChargedOncePerBuffer
  /\ BudgetIsKept
  /\ HeldBackOnlyOverBudget
  /\ WedgeIsRepaired
  /\ NoFloodForgotten
  /\ FabricKeysStayInside

===============================================================================
