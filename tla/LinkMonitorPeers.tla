---------------------------- MODULE LinkMonitorPeers ----------------------------
(***************************************************************************)
(* How LinkMonitor turns the neighbours Spark reports into KvStore peers   *)
(* (openr/link-monitor/LinkMonitor.cpp: neighborUpEvent,                   *)
(* neighborDownEvent, neighborRestartingEvent, updateKvStorePeerNeighborUp *)
(* and ...Down, the handler of NEIGHBOR_DISCOVERED).                       *)
(*                                                                         *)
(* An adjacency is a record of an area, a neighbour and the interface it   *)
(* was found on, and stands for its peer specification (address and port). *)
(* Several adjacencies may lead to one neighbour; the KvStore session of   *)
(* the neighbour uses one of them.  Metrics, labels and the advertisement  *)
(* of the adjacency database are left out.                                 *)
(***************************************************************************)
EXTENDS Sequences, Integers, FiniteSets

CONSTANTS Areas, Neighbors,
          Adjacencies,     \* a set of records [area, node, iface]
          NoAdjacency,     \* not an adjacency
          EarlyDowns,      \* neighbours may go before discovery ends
          MaxUps, MaxDowns \* bounds on the events of neighbours that come and go

ASSUME AdjacenciesAssumption ==
  /\ \A adj \in Adjacencies : adj.area \in Areas /\ adj.node \in Neighbors
  /\ NoAdjacency \notin Adjacencies

VARIABLES adjacencies,              \* adjacency -> "NONE", "UP", "RESTARTING"
          peers,                    \* peers_[area][node]: [spec, established]
          initialNeighborsReceived,
          peerUpdatesQueue,         \* a sequence of events to KvStore
          initialPeers,             \* history: the pairs <<area, node>> of the initial event
          ups, downs                \* counters for the bounds

lmVars == <<adjacencies, peers, initialNeighborsReceived, peerUpdatesQueue, initialPeers, ups, downs>>

NoPeer == [spec |-> NoAdjacency, established |-> {}]

(* PeerEvent: for every area the peers to add, by their specification, and to delete. *)
PeerEvent == [Areas -> [peersToAdd : SUBSET Adjacencies, peersToDel : SUBSET Neighbors]]

Event(area, toAdd, toDel) ==
  [a \in Areas |-> IF a = area THEN [peersToAdd |-> toAdd, peersToDel |-> toDel]
                   ELSE [peersToAdd |-> {}, peersToDel |-> {}]]

LMTypeOK ==
  /\ adjacencies \in [Adjacencies -> {"NONE", "UP", "RESTARTING"}]
  /\ peers \in [Areas -> [Neighbors -> [spec : Adjacencies \cup {NoAdjacency},
                                        established : SUBSET Adjacencies]]]
  /\ initialNeighborsReceived \in BOOLEAN
  /\ peerUpdatesQueue \in Seq(PeerEvent)
  /\ initialPeers \subseteq Areas \X Neighbors

LMInit ==
  /\ adjacencies = [adj \in Adjacencies |-> "NONE"]
  /\ peers = [a \in Areas |-> [n \in Neighbors |-> NoPeer]]
  /\ initialNeighborsReceived = FALSE
  /\ peerUpdatesQueue = <<>>
  /\ initialPeers = {}
  /\ ups = 0
  /\ downs = 0

-----------------------------------------------------------------------------
(* Mutant: a parallel adjacency of a known peer is not recorded. *)
updateKvStorePeerNeighborUp_First(adj) ==
  LET peer == peers[adj.area][adj.node]
  IN  IF peer # NoPeer THEN UNCHANGED <<peers, peerUpdatesQueue>>
      ELSE /\ peers' = [peers EXCEPT ![adj.area][adj.node] = [spec |-> adj, established |-> {adj}]]
           /\ peerUpdatesQueue' = IF initialNeighborsReceived
                                  THEN Append(peerUpdatesQueue, Event(adj.area, {adj}, {}))
                                  ELSE peerUpdatesQueue

(* The first adjacency makes the neighbour a peer; no event before the initial one. *)
updateKvStorePeerNeighborUp(adj) ==
  LET peer == peers[adj.area][adj.node]
  IN  IF peer # NoPeer
      THEN /\ peers' = [peers EXCEPT ![adj.area][adj.node].established = @ \cup {adj}]
           /\ UNCHANGED peerUpdatesQueue
      ELSE /\ peers' = [peers EXCEPT ![adj.area][adj.node] = [spec |-> adj, established |-> {adj}]]
           /\ peerUpdatesQueue' = IF initialNeighborsReceived
                                  THEN Append(peerUpdatesQueue, Event(adj.area, {adj}, {}))
                                  ELSE peerUpdatesQueue

(* Mutant: KvStore is not told that the session moves to another adjacency. *)
updateKvStorePeerNeighborDown_Silent(adj) ==
  LET peer == peers[adj.area][adj.node]
      left == peer.established \ {adj}
  IN  CASE peer = NoPeer -> UNCHANGED <<peers, peerUpdatesQueue>>
        [] peer # NoPeer /\ left = {} ->
             /\ peers' = [peers EXCEPT ![adj.area][adj.node] = NoPeer]
             /\ peerUpdatesQueue' = Append(peerUpdatesQueue, Event(adj.area, {}, {adj.node}))
        [] OTHER ->
             \E other \in left :
               /\ peers' = [peers EXCEPT ![adj.area][adj.node] = [spec |-> other, established |-> left]]
               /\ UNCHANGED peerUpdatesQueue

(* The last adjacency takes the peer away; if the session used this one, it moves. *)
updateKvStorePeerNeighborDown(adj) ==
  LET peer == peers[adj.area][adj.node]
      left == peer.established \ {adj}
  IN  CASE peer = NoPeer -> UNCHANGED <<peers, peerUpdatesQueue>>
        [] peer # NoPeer /\ left = {} ->
             /\ peers' = [peers EXCEPT ![adj.area][adj.node] = NoPeer]
             /\ peerUpdatesQueue' = Append(peerUpdatesQueue, Event(adj.area, {}, {adj.node}))
        [] peer # NoPeer /\ left # {} /\ peer.spec # adj ->
             /\ peers' = [peers EXCEPT ![adj.area][adj.node].established = left]
             /\ UNCHANGED peerUpdatesQueue
        [] OTHER ->
             \E other \in left :
               /\ peers' = [peers EXCEPT ![adj.area][adj.node] = [spec |-> other, established |-> left]]
               /\ peerUpdatesQueue' = Append(peerUpdatesQueue, Event(adj.area, {other}, {}))

(* NEIGHBOR_UP and NEIGHBOR_RESTARTED. *)
NeighborUpEvent(adj) ==
  /\ ups < MaxUps
  /\ adjacencies[adj] # "UP"
  /\ adjacencies' = [adjacencies EXCEPT ![adj] = "UP"]
  /\ updateKvStorePeerNeighborUp(adj)
  /\ ups' = ups + 1
  /\ UNCHANGED <<initialNeighborsReceived, initialPeers, downs>>

NeighborDownEvent(adj) ==
  /\ downs < MaxDowns /\ (EarlyDowns \/ initialNeighborsReceived)
  /\ adjacencies[adj] # "NONE"
  /\ adjacencies' = [adjacencies EXCEPT ![adj] = "NONE"]
  /\ updateKvStorePeerNeighborDown(adj)
  /\ downs' = downs + 1
  /\ UNCHANGED <<initialNeighborsReceived, initialPeers, ups>>

NeighborRestartingEvent(adj) ==
  /\ downs < MaxDowns /\ (EarlyDowns \/ initialNeighborsReceived)
  /\ adjacencies[adj] = "UP"
  /\ adjacencies' = [adjacencies EXCEPT ![adj] = "RESTARTING"]
  /\ updateKvStorePeerNeighborDown(adj)
  /\ downs' = downs + 1
  /\ UNCHANGED <<initialNeighborsReceived, initialPeers, ups>>

(* Spark has reported all neighbours it could find: all peers of all areas go out in one event. *)
NeighborDiscovered ==
  /\ ~initialNeighborsReceived
  /\ initialNeighborsReceived' = TRUE
  /\ peerUpdatesQueue' =
       Append(peerUpdatesQueue,
              [a \in Areas |-> [peersToAdd |-> {peers[a][n].spec : n \in {m \in Neighbors : peers[a][m] # NoPeer}},
                                peersToDel |-> {}]])
  /\ initialPeers' = {p \in Areas \X Neighbors : peers[p[1]][p[2]] # NoPeer}
  /\ UNCHANGED <<adjacencies, peers, ups, downs>>

LMNext ==
  \/ \E adj \in Adjacencies : NeighborUpEvent(adj)
  \/ \E adj \in Adjacencies : NeighborDownEvent(adj)
  \/ \E adj \in Adjacencies : NeighborRestartingEvent(adj)
  \/ NeighborDiscovered

(* LinkMonitor with any reader of its queue; KvStoreInit puts KvStore in its place. *)
LMSpec ==
  LMInit /\ [][\/ LMNext
              \/ /\ peerUpdatesQueue # <<>>
                 /\ peerUpdatesQueue' = Tail(peerUpdatesQueue)
                 /\ UNCHANGED <<adjacencies, peers, initialNeighborsReceived, initialPeers, ups, downs>>]_lmVars

-----------------------------------------------------------------------------
UpAdjacencies(a, n) == {adj \in Adjacencies : adj.area = a /\ adj.node = n /\ adjacencies[adj] = "UP"}

(***************************************************************************)
(* updateKvStorePeerNeighborUp, ...Down: a neighbour is a peer exactly     *)
(* while one of its adjacencies is up, and its KvStore session uses an     *)
(* adjacency that is up.                                                   *)
(***************************************************************************)
PeersFollowAdjacencies ==
  \A a \in Areas, n \in Neighbors :
    /\ peers[a][n].established = UpAdjacencies(a, n)
    /\ UpAdjacencies(a, n) = {} => peers[a][n] = NoPeer
    /\ UpAdjacencies(a, n) # {} => peers[a][n].spec \in UpAdjacencies(a, n)

=============================================================================
