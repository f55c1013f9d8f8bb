--------------------------------- MODULE Dual ---------------------------------
(***************************************************************************)
(* DUAL, the diffusing update algorithm of kvstore/Dual.{h,cpp}: every      *)
(* node keeps a loop-free shortest path to each flooding root.  A DualNode  *)
(* holds one Dual object per root it has heard of; peer events and message  *)
(* packets are handled one at a time on the node's event base.  What the    *)
(* handlers of one Dual do is written as operators from a context to a      *)
(* context: c.me, c.root (its identity), c.local (localDistances_), c.info  *)
(* (info_), c.out (msgsToSend) and c.aborted (a CHECK failed).              *)
(*                                                                         *)
(* The network is external: sendDualMessages is virtual.  A packet travels  *)
(* a FIFO channel; the link under it goes down and comes back, each end     *)
(* learning of it at its own time, with the packets then in flight          *)
(* delivered or lost; a link comes back only after both ends saw it go      *)
(* down and the old packets are gone.  A node may restart without its       *)
(* neighbours seeing the link go down.                                      *)
(***************************************************************************)
EXTENDS Integers, FiniteSets, Sequences, SequencesExt

CONSTANTS
  DualNodes,    \* node ids, numbers: std::map iterates roots in their order
  NoHop,        \* an optional node id without a value
  DualScenes    \* [roots, cost : link -> cost, fails : the links that may fail,
                \*  downs, restarts : how often links and nodes may, late] each

VARIABLES
  dlScene,      \* the topology, chosen once
  dlNode,       \* node -> [local, duals, aborted]
  dlChannel,    \* <<from, to>> -> packets in flight
  dlUp,         \* the links that are up
  dlPending,    \* <<node, neighbour>> -> the peer event it has yet to handle
  dlDowns,      \* link failures so far
  dlRestarts    \* node restarts so far

dlVars == <<dlScene, dlNode, dlChannel, dlUp, dlPending, dlDowns, dlRestarts>>

DualPairs == {p \in DualNodes \X DualNodes : p[1] # p[2]}
DualLinks == DOMAIN dlScene.cost
NeighborsOf(n) == {m \in DualNodes : {n, m} \in DualLinks /\ m # n}

Far == 1000     \* numeric_limits<int64_t>::max()

addDistances(d1, d2) == IF d1 = Far \/ d2 = Far THEN Far ELSE d1 + d2

(***************************************************************************)
(* State machine                                                           *)
(***************************************************************************)
processEvent(state, event, fc) ==
  CASE state = "PASSIVE" ->
         IF fc THEN "PASSIVE"
         ELSE IF event = "QUERY_FROM_SUCCESSOR" THEN "ACTIVE3" ELSE "ACTIVE1"
    [] state = "ACTIVE0" /\ event = "LAST_REPLY" ->
         IF fc THEN "PASSIVE" ELSE "ACTIVE2"
    [] state = "ACTIVE1" /\ event = "INCREASE_D" -> "ACTIVE0"
    [] state = "ACTIVE1" /\ event = "LAST_REPLY" -> "PASSIVE"
    [] state = "ACTIVE1" /\ event = "QUERY_FROM_SUCCESSOR" -> "ACTIVE2"
    [] state = "ACTIVE2" /\ event = "LAST_REPLY" ->
         IF fc THEN "PASSIVE" ELSE "ACTIVE3"
    [] state = "ACTIVE3" /\ event = "LAST_REPLY" -> "PASSIVE"
    [] state = "ACTIVE3" /\ event = "INCREASE_D" -> "ACTIVE2"
    [] OTHER -> state

(***************************************************************************)
(* One Dual object                                                         *)
(***************************************************************************)
NeighborInfo == [reportDistance |-> Far, expectReply |-> FALSE,
                 needToReply |-> FALSE]

NewDual(me, root) ==
  LET d == IF me = root THEN 0 ELSE Far
  IN  [distance |-> d, reportDistance |-> d, feasibleDistance |-> d,
       nexthop |-> IF me = root THEN me ELSE NoHop,
       state |-> "PASSIVE", cornet |-> <<>>,
       neighbor |-> [m \in DualNodes |-> NeighborInfo]]

neighborUp(c, m) == m \in DOMAIN c.local /\ c.local[m] # Far

Through(c, m) == addDistances(c.local[m], c.info.neighbor[m].reportDistance)

getMinDistance(c) ==
  IF c.me = c.root THEN 0
  ELSE Min({Far} \cup {Through(c, m) : m \in DOMAIN c.local})

routeAffected(c) ==
  LET dmin == getMinDistance(c)
  IN  /\ DOMAIN c.local # {}
      /\ c.info.nexthop # c.me
      /\ \/ c.info.distance # dmin
         \/ dmin # Far /\ Through(c, c.info.nexthop) # dmin

\* routeAffected's CHECK: a node with a finite distance has a nexthop.
LacksHop(c) ==
  /\ DOMAIN c.local # {}
  /\ c.info.nexthop = NoHop
  /\ c.info.distance = getMinDistance(c)
  /\ c.info.distance # Far

Feasible_Bellman(c) ==
  {m \in DOMAIN c.local : neighborUp(c, m) /\ Through(c, m) = getMinDistance(c)
                          /\ getMinDistance(c) # Far}

\* The neighbours meetFeasibleCondition may return.
Feasible(c) ==
  {m \in DOMAIN c.local :
     /\ neighborUp(c, m)
     /\ c.info.neighbor[m].reportDistance < c.info.feasibleDistance
     /\ Through(c, m) = getMinDistance(c)}

\* The element of S met first in the iteration of the hash map.
First(S, first) == IF first \in S THEN first ELSE CHOOSE m \in S : TRUE

Message(c, type) ==
  [dstId |-> c.root, distance |-> c.info.reportDistance, type |-> type]

SendTo(c, S, type) ==
  [c EXCEPT !.out = [m \in DualNodes |->
     IF m \in S THEN Append(@[m], Message(c, type)) ELSE @[m]]]

UpNeighbors(c) == {m \in DOMAIN c.local : neighborUp(c, m)}

floodUpdates(c) == SendTo(c, UpNeighbors(c), "UPDATE")

\* distance, reportDistance and feasibleDistance move together.
SetDistances(c, d) ==
  [c EXCEPT !.info.distance = d, !.info.reportDistance = d,
            !.info.feasibleDistance = d]

\* localComputation and the tail of processReply: adopt and report.
Adopt(c, hop, d) ==
  LET moved == [SetDistances(c, d) EXCEPT !.info.nexthop = hop]
  IN  IF d = c.info.reportDistance THEN moved ELSE floodUpdates(moved)

sendReply(c) ==
  LET dst == Last(c.info.cornet)
      popped == [c EXCEPT !.info.cornet = Front(@)]
  IN  IF c.info.cornet = <<>> THEN [c EXCEPT !.aborted = TRUE]
      ELSE IF neighborUp(c, dst) THEN SendTo(popped, {dst}, "REPLY")
      ELSE [popped EXCEPT !.info.neighbor[dst].needToReply = TRUE]

diffusingComputation(c) ==
  LET moved == SetDistances(c, Through(c, c.info.nexthop))
      asked == SendTo(moved, UpNeighbors(c), "QUERY")
  IN  [asked EXCEPT !.info.neighbor =
         [m \in DualNodes |-> IF m \in UpNeighbors(c)
                              THEN [@[m] EXCEPT !.expectReply = TRUE]
                              ELSE @[m]]]

StartDiffusing(c, event) ==
  LET asked == diffusingComputation(c)
      moved == IF UpNeighbors(c) = {} THEN asked
               ELSE [asked EXCEPT !.info.state = processEvent(@, event, FALSE)]
  IN  IF neighborUp(c, c.info.nexthop) THEN moved
      ELSE [moved EXCEPT !.info.nexthop = NoHop]

ReplyIf(c, needReply) == IF needReply THEN sendReply(c) ELSE c

tryLocalOrDiffusing(c, event, needReply, first) ==
  IF LacksHop(c) THEN [c EXCEPT !.aborted = TRUE]
  ELSE IF ~routeAffected(c) THEN ReplyIf(c, needReply)
  ELSE IF Feasible(c) # {}
  THEN ReplyIf(Adopt(c, First(Feasible(c), first), getMinDistance(c)), needReply)
  ELSE IF c.info.nexthop = NoHop THEN [c EXCEPT !.aborted = TRUE]
  ELSE StartDiffusing(
         ReplyIf(c, needReply /\ event # "QUERY_FROM_SUCCESSOR"), event)

\* All replies are in: the node is free to pick the best neighbour, and
\* owes a reply to the query that made it active, if one did.
Conclude(c, first) ==
  LET best    == Min({Far} \cup {Through(c, m) : m \in DOMAIN c.local})
      hops    == {m \in DOMAIN c.local : Through(c, m) = best}
      hop     == IF best = Far THEN NoHop ELSE First(hops, first)
      settled == Adopt([c EXCEPT !.info.state =
                                   processEvent(@, "LAST_REPLY", TRUE)],
                       hop, best)
  IN  CASE c.info.cornet = <<>>     -> settled
        [] Len(c.info.cornet) = 1   -> sendReply(settled)
        [] OTHER                    -> [settled EXCEPT !.aborted = TRUE]

processReply(c, m, distance, first) ==
  LET heard == [c EXCEPT !.info.neighbor[m].reportDistance = distance,
                         !.info.neighbor[m].expectReply = FALSE]
  IN  IF ~c.info.neighbor[m].expectReply THEN c
      ELSE IF \E k \in DualNodes : heard.info.neighbor[k].expectReply
      THEN heard
      ELSE Conclude(heard, first)

\* While active only the distance through the current successor follows.
FollowSuccessor(c, m) ==
  IF c.info.nexthop # m THEN c
  ELSE [c EXCEPT !.info.distance =
          addDistances(c.local[m], c.info.neighbor[m].reportDistance)]

processUpdate(c, m, distance, first) ==
  LET heard == [c EXCEPT !.info.neighbor[m].reportDistance = distance]
  IN  IF m \notin DOMAIN c.local THEN heard
      ELSE IF c.info.state = "PASSIVE"
      THEN tryLocalOrDiffusing(heard, "OTHERS", FALSE, first)
      ELSE [FollowSuccessor(heard, m) EXCEPT
              !.info.state = processEvent(@, "OTHERS", TRUE)]

processQuery(c, m, distance, first) ==
  LET heard == [c EXCEPT !.info.neighbor[m].reportDistance = distance,
                         !.info.cornet = Append(@, m)]
      event == IF c.info.nexthop = m THEN "QUERY_FROM_SUCCESSOR" ELSE "OTHERS"
  IN  IF c.info.state = "PASSIVE"
      THEN tryLocalOrDiffusing(heard, event, TRUE, first)
      ELSE sendReply([FollowSuccessor(heard, m) EXCEPT
                        !.info.state = processEvent(@, event, TRUE)])

\* Dual::peerUp; c.local already holds the neighbour's cost.
dualPeerUp(c, m, first) ==
  LET reset == IF c.info.nexthop = m
               THEN [c EXCEPT !.info.nexthop = NoHop, !.info.distance = Far]
               ELSE c
      moved == IF c.info.state = "PASSIVE"
               THEN tryLocalOrDiffusing(reset, "OTHERS", FALSE, first)
               ELSE processReply(reset, m,
                      reset.info.neighbor[m].reportDistance, first)
      told  == SendTo(moved, {m}, "UPDATE")
  IN  IF ~told.info.neighbor[m].needToReply THEN told
      ELSE SendTo([told EXCEPT !.info.neighbor[m].needToReply = FALSE],
                  {m}, "REPLY")

dualPeerDown_StillWaits(c, m, first) ==
  LET lost == [c EXCEPT !.info.neighbor[m].reportDistance = Far]
  IN  IF c.info.state = "PASSIVE"
      THEN tryLocalOrDiffusing(lost, "INCREASE_D", FALSE, first)
      ELSE [lost EXCEPT !.info.state = processEvent(@, "INCREASE_D", TRUE)]

\* Dual::peerDown; c.local already holds Far for the neighbour.
dualPeerDown(c, m, first) ==
  LET lost == [c EXCEPT !.info.neighbor[m].reportDistance = Far]
  IN  IF c.info.state = "PASSIVE"
      THEN tryLocalOrDiffusing(lost, "INCREASE_D", FALSE, first)
      ELSE processReply([lost EXCEPT
                           !.info.state = processEvent(@, "INCREASE_D", TRUE)],
                        m, Far, first)

(***************************************************************************)
(* The node: its Duals, and the packets of one handler                     *)
(***************************************************************************)
NoOutput == [m \in DualNodes |-> <<>>]

NewNode(n, roots) ==
  [local |-> [m \in {} |-> Far], aborted |-> FALSE,
   duals |-> [r \in {n} \cap roots |-> NewDual(n, r)]]

Context(n, node, r, out) ==
  [me |-> n, root |-> r, local |-> node.local, out |-> out,
   info |-> node.duals[r], aborted |-> node.aborted]

\* A handler's effect on Dual r of the node, with the messages so far.
On(n, state, r, F(_)) ==
  LET c == F(Context(n, state.node, r, state.out))
  IN  [node |-> [state.node EXCEPT !.duals[r] = c.info, !.aborted = c.aborted],
       out  |-> c.out]

addDual(n, node, r) ==
  IF r \in DOMAIN node.duals THEN node
  ELSE [node EXCEPT !.duals =
          [s \in DOMAIN @ \cup {r} |-> IF s = r THEN NewDual(n, r) ELSE @[s]]]

\* The peer event m up or down at every Dual of the node.
ForEachDual(n, node, F(_)) ==
  FoldLeft(LAMBDA state, r : On(n, state, r, F),
           [node |-> node, out |-> NoOutput], SetToSeq(DOMAIN node.duals))

WithDistance(node, m, cost) ==
  [node EXCEPT !.local = [k \in DOMAIN @ \cup {m} |->
                            IF k = m THEN cost ELSE @[k]]]

nodePeerUp(n, m, first) ==
  ForEachDual(n, WithDistance(dlNode[n], m, dlScene.cost[{n, m}]),
              LAMBDA c : dualPeerUp(c, m, first))

nodePeerDown(n, m, first) ==
  ForEachDual(n, WithDistance(dlNode[n], m, Far),
              LAMBDA c : dualPeerDown(c, m, first))

Handle(c, m, msg, first) ==
  CASE msg.type = "UPDATE" -> processUpdate(c, m, msg.distance, first)
    [] msg.type = "QUERY"  -> processQuery(c, m, msg.distance, first)
    [] msg.type = "REPLY"  -> processReply(c, m, msg.distance, first)

processDualMessages(n, m, packet, first) ==
  FoldLeft(LAMBDA state, msg :
             On(n, [state EXCEPT !.node = addDual(n, @, msg.dstId)], msg.dstId,
                LAMBDA c : Handle(c, m, msg, first)),
           [node |-> dlNode[n], out |-> NoOutput], packet)

\* The channels after sendAllDualMessages: one packet per neighbour.
sendAllDualMessages(n, out, channel) ==
  [p \in DualPairs |->
     IF p[1] = n /\ out[p[2]] # <<>> THEN Append(channel[p], out[p[2]])
     ELSE channel[p]]

hasValidRoute(info) ==
  info.state = "PASSIVE" /\ info.distance # Far /\ info.nexthop # NoHop

\* The flooding root the node uses: the smallest with a valid route.
getSptRootId(n) ==
  LET valid == {r \in DOMAIN dlNode[n].duals : hasValidRoute(dlNode[n].duals[r])}
  IN  IF valid = {} THEN NoHop ELSE Min(valid)

(***************************************************************************)
(* Steps                                                                   *)
(***************************************************************************)
DualInit ==
  /\ dlScene \in DualScenes
  /\ dlNode = [n \in DualNodes |-> NewNode(n, dlScene.roots)]
  /\ dlChannel = [p \in DualPairs |-> <<>>]
  /\ dlUp = DualLinks
  /\ dlPending = [p \in DualPairs |-> IF {p[1], p[2]} \in DualLinks
                                      THEN "up" ELSE "none"]
  /\ dlDowns = 0
  /\ dlRestarts = 0

After(n, result, channel) ==
  /\ dlNode' = [dlNode EXCEPT ![n] = result.node]
  /\ dlChannel' = sendAllDualMessages(n, result.out, channel)

PeerUp(n, m) ==
  /\ dlPending[<<n, m>>] = "up"
  /\ \E first \in NeighborsOf(n) : After(n, nodePeerUp(n, m, first), dlChannel)
  /\ dlPending' = [dlPending EXCEPT ![<<n, m>>] = "none"]
  /\ UNCHANGED <<dlScene, dlUp, dlDowns, dlRestarts>>

PeerDown(n, m) ==
  /\ dlPending[<<n, m>>] = "down"
  /\ \E first \in NeighborsOf(n) : After(n, nodePeerDown(n, m, first), dlChannel)
  /\ dlPending' = [dlPending EXCEPT ![<<n, m>>] = "none"]
  /\ UNCHANGED <<dlScene, dlUp, dlDowns, dlRestarts>>

Receive(n, m) ==
  /\ dlChannel[<<m, n>>] # <<>>
  /\ dlScene.late \/ {n, m} \in dlUp \/ dlPending[<<n, m>>] = "down"
  /\ \E first \in NeighborsOf(n) :
       After(n, processDualMessages(n, m, Head(dlChannel[<<m, n>>]), first),
             [dlChannel EXCEPT ![<<m, n>>] = Tail(@)])
  /\ UNCHANGED <<dlScene, dlUp, dlPending, dlDowns, dlRestarts>>

Settled(l) == \A n, m \in l : n # m => dlPending[<<n, m>>] = "none"
Drained(l) == \A n, m \in l : n # m => dlChannel[<<n, m>>] = <<>>

LinkDown(l) ==
  /\ l \in dlUp \cap dlScene.fails /\ Settled(l)
  /\ dlDowns < dlScene.downs
  /\ dlUp' = dlUp \ {l}
  /\ dlPending' = [p \in DualPairs |-> IF {p[1], p[2]} = l THEN "down"
                                       ELSE dlPending[p]]
  /\ dlDowns' = dlDowns + 1
  /\ UNCHANGED <<dlScene, dlNode, dlChannel, dlRestarts>>

LinkUp(l) ==
  /\ l \in DualLinks \ dlUp /\ Settled(l) /\ Drained(l)
  /\ dlUp' = dlUp \cup {l}
  /\ dlPending' = [p \in DualPairs |-> IF {p[1], p[2]} = l THEN "up"
                                       ELSE dlPending[p]]
  /\ UNCHANGED <<dlScene, dlNode, dlChannel, dlDowns, dlRestarts>>

\* The packets in flight on a link that is down are lost.
Lose(l) ==
  /\ l \in DualLinks \ dlUp /\ ~Drained(l)
  /\ dlChannel' = [p \in DualPairs |-> IF {p[1], p[2]} = l THEN <<>>
                                       ELSE dlChannel[p]]
  /\ UNCHANGED <<dlScene, dlNode, dlUp, dlPending, dlDowns, dlRestarts>>

\* The node comes back empty before its neighbours saw the links go down.
Restart(n) ==
  /\ dlRestarts < dlScene.restarts
  /\ \A m \in NeighborsOf(n) : {n, m} \in dlUp /\ Settled({n, m})
  /\ dlNode' = [dlNode EXCEPT ![n] = NewNode(n, dlScene.roots)]
  /\ dlChannel' = [p \in DualPairs |-> IF n \in {p[1], p[2]} THEN <<>>
                                       ELSE dlChannel[p]]
  /\ dlPending' = [p \in DualPairs |-> IF n \in {p[1], p[2]} /\ {p[1], p[2]} \in dlUp
                                       THEN "up" ELSE dlPending[p]]
  /\ dlRestarts' = dlRestarts + 1
  /\ UNCHANGED <<dlScene, dlUp, dlDowns>>

DualNext ==
  \/ \E n, m \in DualNodes : n # m /\ (PeerUp(n, m) \/ PeerDown(n, m) \/ Receive(n, m))
  \/ \E l \in DualLinks : LinkDown(l) \/ LinkUp(l) \/ Lose(l)
  \/ \E n \in DualNodes : Restart(n)

DualSpec == DualInit /\ [][DualNext]_dlVars

(***************************************************************************)
(* Properties                                                              *)
(***************************************************************************)
Knows(n, r) == r \in DOMAIN dlNode[n].duals

\* Types of a node's state, of the packets and of the peer events.
DualTypeOK ==
  LET Distances == 0 .. Far
      Infos == [distance : Distances, reportDistance : Distances,
                feasibleDistance : Distances,
                nexthop : DualNodes \cup {NoHop},
                state : {"PASSIVE", "ACTIVE0", "ACTIVE1", "ACTIVE2", "ACTIVE3"},
                cornet : Seq(DualNodes),
                neighbor : [DualNodes -> [reportDistance : Distances,
                              expectReply : BOOLEAN, needToReply : BOOLEAN]]]
      Messages == [dstId : dlScene.roots, distance : Distances,
                   type : {"UPDATE", "QUERY", "REPLY"}]
  IN  /\ dlScene \in DualScenes
      /\ dlUp \subseteq DualLinks
      /\ dlPending \in [DualPairs -> {"none", "up", "down"}]
      /\ dlChannel \in [DualPairs -> Seq(Seq(Messages))]
      /\ \A n \in DualNodes :
           /\ DOMAIN dlNode[n].local \subseteq NeighborsOf(n)
           /\ \A r \in DOMAIN dlNode[n].duals : dlNode[n].duals[r] \in Infos

\* No CHECK of Dual.cpp ever fails: a node whose nexthop is gone always
\* meets the feasible condition, a reply is sent only for a query received,
\* and a node that concludes owes at most one reply.
DualChecksHold == \A n \in DualNodes : ~dlNode[n].aborted

NoLoopTo(r) ==
  \A S \in SUBSET {n \in DualNodes \ {r} : Knows(n, r)} \ {{}} :
    \E n \in S : dlNode[n].duals[r].nexthop \notin S

\* The nexthops towards a root form no loop, not even between two steps of
\* a diffusing computation, however links fail and come back: no set of
\* nodes forwards only within itself.
DualLoopFree == \A r \in dlScene.roots : NoLoopTo(r)

\* A finite distance never exceeds the cost of all links together: a node
\* cut off from the root finds out, instead of counting up with a neighbour
\* that counts up with it.
DualNoCountingUp ==
  LET total == FoldFunction(LAMBDA a, b : a + b, 0, dlScene.cost)
  IN  \A n \in DualNodes : \A r \in DOMAIN dlNode[n].duals :
        dlNode[n].duals[r].distance \in 0 .. total \cup {Far}

\* The length of the shortest path from n to r over the links that are up.
ShortestTo(r) ==
  LET Round[k \in 0 .. Cardinality(DualNodes)] ==
        [n \in DualNodes |->
          IF k = 0 THEN IF n = r THEN 0 ELSE Far
          ELSE Min({Round[k - 1][n]} \cup
                   {addDistances(dlScene.cost[{n, m}], Round[k - 1][m]) :
                      m \in {m \in NeighborsOf(n) : {n, m} \in dlUp}})]
  IN  Round[Cardinality(DualNodes)]

DualQuiet ==
  \A p \in DualPairs : dlPending[p] = "none" /\ dlChannel[p] = <<>>

\* When no packet and no peer event is left, no node still waits for a
\* reply, every node that can reach a root knows it, and its distance and
\* nexthop are those of a shortest path: what DualTest's validateOnRoot
\* waits 500 ms to see.
DualQuietIsShortest ==
  DualQuiet =>
    \A r \in dlScene.roots, n \in DualNodes :
      LET info == dlNode[n].duals[r]
          best == ShortestTo(r)
      IN  IF ~Knows(n, r) THEN best[n] = Far
          ELSE /\ info.state = "PASSIVE"
               /\ info.distance = best[n]
               /\ (info.nexthop = NoHop) = (best[n] = Far)
               /\ info.nexthop \notin {n, NoHop} =>
                    best[n] = dlScene.cost[{n, info.nexthop}] + best[info.nexthop]

\* When nothing is in flight every node floods along the tree of the
\* smallest root it can reach, and so along the same tree as everyone it is
\* connected to.
DualQuietOneTree ==
  DualQuiet =>
    \A n \in DualNodes :
      LET near == {r \in dlScene.roots : ShortestTo(r)[n] # Far}
      IN  getSptRootId(n) = IF near = {} THEN NoHop ELSE Min(near)

\* At every moment of every diffusing computation: no CHECK failed, no loop, and no distance
\* counts up (Dual.cpp).
DualInvariant ==
  /\ DualTypeOK
  /\ DualChecksHold
  /\ DualLoopFree
  /\ DualNoCountingUp

\* When the network comes to rest, the computations ended in shortest paths and in one
\* flooding tree that everybody uses (Dual.cpp, getSptRootId).
DualSettles == DualQuietIsShortest /\ DualQuietOneTree

===============================================================================
