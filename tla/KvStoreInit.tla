------------------------------ MODULE KvStoreInit ------------------------------
(***************************************************************************)
(* The KVSTORE_SYNCED stage of initialization: LinkMonitor's peer events   *)
(* (LinkMonitorPeers) composed with the part of KvStore that follows them  *)
(* (openr/kvstore/KvStore-inl.h: processPeerUpdates, addThriftPeers,       *)
(* delThriftPeers, processThriftSuccess, processThriftFailure,             *)
(* processInitializationEvent, initZeroPeersKvStores,                      *)
(* initialKvStoreDbSynced).                                                *)
(*                                                                         *)
(* What is synced, and how, is in KvStoreSync; here a full-sync is just    *)
(* started and answered or not.                                            *)
(***************************************************************************)
EXTENDS LinkMonitorPeers

CONSTANTS SyncTimeouts,           \* whether kvstore_sync_timeout_ms is configured: a set of BOOLEANs
          MaxPeerFailures             \* bound on failing calls

ASSUME TimeoutsAssumption == SyncTimeouts \subseteq BOOLEAN

VARIABLES thriftPeers,            \* thriftPeers[area][node]: [state, spec, failed]
          initialSyncCompleted,   \* area -> BOOLEAN
          initialSyncSignalSent,
          kvStoreSyncTimer,       \* kvStoreSyncTimer_ is scheduled
          synced,                 \* how often KVSTORE_SYNCED was published
          settled,                \* history: peers that were synced, failed or removed
          timedOut,               \* history: kvStoreSyncTimer_ has fired
          peerFailures                \* counter for the bound

kvVars == <<thriftPeers, initialSyncCompleted, initialSyncSignalSent, kvStoreSyncTimer,
            synced, settled, timedOut, peerFailures>>

startVars == <<lmVars, kvVars>>

NoThriftPeer == [state |-> "NONE", spec |-> NoAdjacency, failed |-> FALSE]

PeerState == {"NONE", "IDLE", "SYNCING", "INITIALIZED"}

StartTypeOK ==
  /\ LMTypeOK
  /\ thriftPeers \in [Areas -> [Neighbors -> [state : PeerState, spec : Adjacencies \cup {NoAdjacency},
                                              failed : BOOLEAN]]]
  /\ initialSyncCompleted \in [Areas -> BOOLEAN]
  /\ initialSyncSignalSent \in BOOLEAN
  /\ kvStoreSyncTimer \in BOOLEAN
  /\ synced \in 0..1
  /\ settled \subseteq Areas \X Neighbors
  /\ timedOut \in BOOLEAN

StartInit ==
  /\ LMInit
  /\ thriftPeers = [a \in Areas |-> [n \in Neighbors |-> NoThriftPeer]]
  /\ initialSyncCompleted = [a \in Areas |-> FALSE]
  /\ initialSyncSignalSent = FALSE
  /\ kvStoreSyncTimer \in SyncTimeouts
  /\ synced = 0
  /\ settled = {}
  /\ timedOut = FALSE
  /\ peerFailures = 0

PeersIn(tp, a) == {n \in Neighbors : tp[a][n].state # "NONE"}

-----------------------------------------------------------------------------
(* processInitializationEvent: nobody is left to wait for. *)
SyncedOrFailed(tp, a) ==
  \A n \in PeersIn(tp, a) : tp[a][n].state = "INITIALIZED" \/ tp[a][n].failed

(* Mutant: the signal does not wait for the other areas. *)
initialKvStoreDbSynced_AnyArea(completed) ==
  LET send == (\E a \in Areas : completed[a]) /\ ~initialSyncSignalSent
  IN  /\ initialSyncSignalSent' = (initialSyncSignalSent \/ send)
      /\ synced' = IF send THEN synced + 1 ELSE synced

initialKvStoreDbSynced(completed) ==
  LET send == (\A a \in Areas : completed[a]) /\ ~initialSyncSignalSent
  IN  /\ initialSyncSignalSent' = (initialSyncSignalSent \/ send)
      /\ synced' = IF send THEN synced + 1 ELSE synced

(* processInitializationEvent in each of the given areas, then the callback. *)
processInitializationEvent(tp, areas) ==
  LET completed == [a \in Areas |-> initialSyncCompleted[a] \/ (a \in areas /\ SyncedOrFailed(tp, a))]
  IN  /\ initialSyncCompleted' = completed
      /\ initialKvStoreDbSynced(completed)

(* addThriftPeers: a known peer gets the new specification and starts over. *)
addThriftPeers(tp, a, toAdd) ==
  [n \in Neighbors |->
     IF \E adj \in toAdd : adj.node = n
     THEN [state |-> "IDLE", spec |-> CHOOSE adj \in toAdd : adj.node = n, failed |-> tp[a][n].failed]
     ELSE tp[a][n]]

delThriftPeers(areaPeers, toDel) ==
  [n \in Neighbors |-> IF n \in toDel THEN NoThriftPeer ELSE areaPeers[n]]

processEvent(tp, event) ==
  [a \in Areas |-> delThriftPeers(addThriftPeers(tp, a, event[a].peersToAdd), event[a].peersToDel)]

(* Mutant: an area without peers is not taken as synced. *)
ProcessPeerUpdates_NoZeroPeers ==
  LET event == Head(peerUpdatesQueue)
  IN  /\ peerUpdatesQueue # <<>>
      /\ peerUpdatesQueue' = Tail(peerUpdatesQueue)
      /\ thriftPeers' = processEvent(thriftPeers, event)
      /\ kvStoreSyncTimer' =
           (kvStoreSyncTimer /\ \A a \in Areas : event[a].peersToAdd = {} /\ event[a].peersToDel = {})
      /\ settled' = settled \cup {p \in Areas \X Neighbors : p[2] \in event[p[1]].peersToDel}
      /\ UNCHANGED <<initialSyncCompleted, initialSyncSignalSent, synced>>
      /\ UNCHANGED <<adjacencies, peers, initialNeighborsReceived, initialPeers, ups, downs,
                     timedOut, peerFailures>>

(* Any peer in the event cancels the timer; without it, areas without peers are done. *)
ProcessPeerUpdates ==
  LET event == Head(peerUpdatesQueue)
      timer == kvStoreSyncTimer /\ \A a \in Areas : event[a].peersToAdd = {} /\ event[a].peersToDel = {}
  IN  peerUpdatesQueue # <<>> /\ \E tp \in {processEvent(thriftPeers, event)} :
        /\ peerUpdatesQueue' = Tail(peerUpdatesQueue)
        /\ thriftPeers' = tp
        /\ kvStoreSyncTimer' = timer
        /\ settled' = settled \cup {p \in Areas \X Neighbors : p[2] \in event[p[1]].peersToDel}
        /\ IF ~initialSyncSignalSent /\ ~timer
             THEN processInitializationEvent(tp, {a \in Areas : PeersIn(tp, a) = {}})
             ELSE UNCHANGED <<initialSyncCompleted, initialSyncSignalSent, synced>>
        /\ UNCHANGED <<adjacencies, peers, initialNeighborsReceived, initialPeers, ups, downs,
                       timedOut, peerFailures>>

KvStoreSyncTimeout ==
  /\ kvStoreSyncTimer
  /\ kvStoreSyncTimer' = FALSE
  /\ timedOut' = TRUE
  /\ processInitializationEvent(thriftPeers, {a \in Areas : PeersIn(thriftPeers, a) = {}})
  /\ UNCHANGED <<lmVars, thriftPeers, settled, peerFailures>>

requestThriftPeerSync(a, n) ==
  /\ thriftPeers[a][n].state = "IDLE"
  /\ thriftPeers' = [thriftPeers EXCEPT ![a][n].state = "SYNCING"]
  /\ UNCHANGED <<lmVars, initialSyncCompleted, initialSyncSignalSent, kvStoreSyncTimer, synced,
                 settled, timedOut, peerFailures>>

(* A peer has settled: the area checks whether its initial sync is complete. *)
Settle(new, a, n) ==
  \E tp \in {new} :
    /\ thriftPeers' = tp
    /\ settled' = settled \cup {<<a, n>>}
    /\ IF ~initialSyncCompleted[a] THEN processInitializationEvent(tp, {a})
       ELSE UNCHANGED <<initialSyncCompleted, initialSyncSignalSent, synced>>
    /\ UNCHANGED <<lmVars, kvStoreSyncTimer, timedOut>>

processThriftSuccess(a, n) ==
  /\ thriftPeers[a][n].state = "SYNCING"
  /\ Settle([thriftPeers EXCEPT ![a][n].state = "INITIALIZED"], a, n)
  /\ UNCHANGED peerFailures

(* Any call to the peer fails; a late failure may find the peer IDLE again. *)
processThriftFailure(a, n) ==
  /\ peerFailures < MaxPeerFailures
  /\ thriftPeers[a][n].state # "NONE"
  /\ Settle([thriftPeers EXCEPT ![a][n].state = "IDLE", ![a][n].failed = TRUE], a, n)
  /\ peerFailures' = peerFailures + 1

StartNext ==
  \/ LMNext /\ UNCHANGED kvVars
  \/ ProcessPeerUpdates
  \/ KvStoreSyncTimeout
  \/ \E a \in Areas, n \in Neighbors : requestThriftPeerSync(a, n)
  \/ \E a \in Areas, n \in Neighbors : processThriftSuccess(a, n)
  \/ \E a \in Areas, n \in Neighbors : processThriftFailure(a, n)

StartSpec == StartInit /\ [][StartNext]_startVars

(***************************************************************************)
(* Spark ends neighbour discovery, queues are read, timers fire, idle      *)
(* peers are picked up and a call is answered or fails; nobody has to come *)
(* or go.                                                                  *)
(***************************************************************************)
StartFairSpec ==
  /\ StartSpec
  /\ WF_startVars(NeighborDiscovered /\ UNCHANGED kvVars)
  /\ WF_startVars(ProcessPeerUpdates)
  /\ WF_startVars(KvStoreSyncTimeout)
  /\ \A a \in Areas, n \in Neighbors :
       /\ WF_startVars(requestThriftPeerSync(a, n))
       /\ WF_startVars(processThriftSuccess(a, n))

-----------------------------------------------------------------------------
(* An event is about a neighbour, and leaves KvStore with this specification of it. *)
Mentions(event, a, n) ==
  n \in event[a].peersToDel \/ \E adj \in event[a].peersToAdd : adj.node = n

Says(event, a, n, spec) ==
  IF n \in event[a].peersToDel THEN spec = NoAdjacency
  ELSE {adj \in event[a].peersToAdd : adj.node = n} = {spec}

(* The last event that is about the neighbour says spec; without one KvStore has it already. *)
LeadsTo(events, known, a, n, spec) ==
  /\ (\A i \in 1..Len(events) : ~Mentions(events[i], a, n)) => known = spec
  /\ \A i \in 1..Len(events) :
       /\ Mentions(events[i], a, n)
       /\ \A j \in (i + 1)..Len(events) : ~Mentions(events[j], a, n)
       => Says(events[i], a, n, spec)

(***************************************************************************)
(* processPeerUpdates and LinkMonitor's peer events: once the initial      *)
(* event is on its way, KvStore has, as soon as it has read its queue,     *)
(* exactly the peers LinkMonitor means it to have, each over the same      *)
(* adjacency.                                                              *)
(***************************************************************************)
KvStoreFollowsLinkMonitor ==
  \A a \in Areas, n \in Neighbors :
    /\ thriftPeers[a][n].state = "NONE" <=> thriftPeers[a][n].spec = NoAdjacency
    /\ initialNeighborsReceived =>
         LeadsTo(peerUpdatesQueue, thriftPeers[a][n].spec, a, n, peers[a][n].spec)

(***************************************************************************)
(* processInitializationEvent (docs/Protocol_Guide/                        *)
(* Initialization_Process.md: "All the KvStore peers are synchronized"):   *)
(* when KVSTORE_SYNCED is published, LinkMonitor has announced the peers   *)
(* of all areas (or the configured time without peers has passed).         *)
(***************************************************************************)
SyncedAfterDiscovery ==
  synced > 0 => initialNeighborsReceived \/ timedOut

(***************************************************************************)
(* processInitializationEvent: KVSTORE_SYNCED waits for every peer of the  *)
(* initial event, in every area, until it was synced with, failed or was   *)
(* removed (or the configured time without peers has passed).              *)
(***************************************************************************)
SyncedWithInitialPeers ==
  synced > 0 => initialPeers \subseteq settled \/ timedOut

(***************************************************************************)
(* initZeroPeersKvStores (comment: "Otherwise, 'initialKvStoreDbSynced()'  *)
(* will not publish kvStoreSynced signal, and downstream modules cannot    *)
(* proceed to complete initialization"): KVSTORE_SYNCED is published.      *)
(***************************************************************************)
EventuallySynced == <>(synced > 0)

(***************************************************************************)
(* processPeerUpdates, processInitializationEvent: if no neighbour goes    *)
(* down, KVSTORE_SYNCED is published, with or without peers, with calls    *)
(* that fail, and with or without the configured time limit.               *)
(***************************************************************************)
SyncedUnlessNeighborsGo == <>(synced > 0 \/ downs > 0)

=============================================================================
