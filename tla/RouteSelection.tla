----------------------------- MODULE RouteSelection -----------------------------
(***************************************************************************)
(* Best route selection (SpfSolver.cpp, LsdbUtil.cpp) and the RibPolicy     *)
(* statements (RibPolicy.cpp), for one prefix.                             *)
(*                                                                         *)
(* The entries of the prefix, the areas and the next hops are unordered    *)
(* hash containers: their loops visit the elements in any order.  Each     *)
(* loop is modelled step by step over a set of elements still to visit,    *)
(* with the accumulator the code keeps, and the result is compared with a  *)
(* definition that does not mention an order.                              *)
(***************************************************************************)
EXTENDS Integers, FiniteSets, Sequences

CONSTANTS RsMe,           \* this node
          RsNodeAreas,    \* pairs <<node, area>> that may announce the prefix
          RsEntries,      \* <<node, area>> -> its possible entries, NoEntry among them;
                          \* an entry is [drain, path, source, distance, minNexthop, node],
                          \* node the drain state of the announcer: none, soft or hard
          RsDistance,     \* <<node, area>> -> SPF distance, 0 when unreachable
          RsHops,         \* <<node, area>> -> next hops <<neighbour, area>> on the shortest paths
          RsPolicies      \* sequences of policy statements

VARIABLES selection       \* the computation: its input, what is left of a loop, its accumulators

RouteSelectionVars == <<selection>>

NoEntry == [absent |-> TRUE]
Infinity == 1000          \* above every distance and preference of RsEntries
NoNexthops == [nexthop \in {} |-> 0]
MinTuple == <<-Infinity, -Infinity, -Infinity>>

Announcers(s) == {na \in RsNodeAreas : s.entries[na] # NoEntry}

StartSelection(entries, policy) ==
  [entries |-> entries, policy |-> policy, phase |-> "start", candidates |-> {}, todo |-> {},
   best |-> MinTuple, chosen |-> {}, shortest |-> Infinity, hops |-> {}, nexthops |-> NoNexthops,
   drainMetric |-> 0]

RouteSelectionInit ==
  \E entries \in {f \in [RsNodeAreas -> UNION {RsEntries[na] : na \in RsNodeAreas}] :
                    \A na \in RsNodeAreas : f[na] \in RsEntries[na]},
     policy \in RsPolicies : selection = StartSelection(entries, policy)

--------------------------------------------------------------------------------
\* Candidates

\* getReachablePrefixEntries: entries of nodes the SPF of their area reaches.
getReachablePrefixEntries(s) == {na \in Announcers(s) : RsDistance[na] > 0 \/ na[1] = RsMe}

\* filterHardDrainedNodes: a hard drained node is a candidate only if all are.
filterHardDrainedNodes(s, nas) ==
  LET filtered == {na \in nas : s.entries[na].node # "hard"}
  IN IF filtered = {} THEN nas ELSE filtered

createRouteForPrefix ==
  /\ selection.phase = "start"
  /\ LET reachable == getReachablePrefixEntries(selection)
         candidates == filterHardDrainedNodes(selection, reachable)
     IN selection' = IF reachable = {} THEN [selection EXCEPT !.phase = "none"]
                     ELSE [selection EXCEPT !.phase = "metrics", !.candidates = candidates,
                                            !.todo = candidates]

--------------------------------------------------------------------------------
\* selectRoutes, part 1: drained state, path preference, source preference

Less(s, t) ==
  \/ s[1] < t[1]
  \/ s[1] = t[1] /\ s[2] < t[2]
  \/ s[1] = t[1] /\ s[2] = t[2] /\ s[3] < t[3]

\* getSoftDrainedNodes and the drain_metric of a redistributed path: -1 or 0.
MetricsTuple(s, na) ==
  LET e == s.entries[na]
  IN <<IF e.drain # 0 \/ s.entries[na].node = "soft" THEN -1 ELSE 0, e.path, e.source>>

VisitMetrics_KeepOld(s, na) ==
  LET t == MetricsTuple(s, na)
  IN IF Less(t, s.best) THEN s ELSE [s EXCEPT !.best = t, !.chosen = @ \cup {na}]
VisitMetrics(s, na) ==
  LET t == MetricsTuple(s, na)
  IN IF Less(t, s.best) THEN s
     ELSE [s EXCEPT !.best = t, !.chosen = IF Less(s.best, t) THEN {na} ELSE @ \cup {na}]

selectRoutes(na) ==
  /\ selection.phase = "metrics"
  /\ na \in selection.todo
  /\ selection' = [VisitMetrics(selection, na) EXCEPT !.todo = @ \ {na}]

\* selectRoutes, part 2: the shortest distance (a std::set, visited in its order;
\* any order gives the same set).
selectShortestDistance(s) ==
  {na \in s.chosen : \A other \in s.chosen : s.entries[na].distance <= s.entries[other].distance}

\* selectBestNodeArea: this node if it is chosen, else the first of the set.
selectBestNodeArea(s) ==
  IF \E na \in s.chosen : na[1] = RsMe THEN CHOOSE na \in s.chosen : na[1] = RsMe
  ELSE CHOOSE na \in s.chosen : TRUE

isNodeDrained(s, na) == s.entries[na].node # "none"

\* The route is skipped when nothing is left or this node is among the best;
\* otherwise each area with a best entry is visited.
selectBestRoutes ==
  /\ selection.phase = "metrics" /\ selection.todo = {}
  /\ LET s == [selection EXCEPT !.chosen = selectShortestDistance(selection)]
     IN selection' =
          IF s.chosen = {} \/ \E na \in s.chosen : na[1] = RsMe THEN [s EXCEPT !.phase = "none"]
          ELSE [s EXCEPT !.phase = "areas", !.todo = {na[2] : na \in s.chosen},
                         !.drainMetric = IF isNodeDrained(s, selectBestNodeArea(s)) THEN 1 ELSE 0]

--------------------------------------------------------------------------------
\* Route computation: the next hops of the areas with the shortest metric

\* getNextHopsWithMetric of an area: the closest of the best nodes in it, whatever
\* area they announced the prefix in.
AreaNodes(s, area) == {na \in RsNodeAreas : na[2] = area /\ RsDistance[na] > 0
                                            /\ \E best \in s.chosen : best[1] = na[1]}
AreaMetric(s, area) ==
  LET near == AreaNodes(s, area)
  IN RsDistance[CHOOSE na \in near : \A other \in near : RsDistance[na] <= RsDistance[other]]
AreaHops(s, area) ==
  UNION {RsHops[na] : na \in {n \in AreaNodes(s, area) : RsDistance[n] = AreaMetric(s, area)}}

VisitArea(s, area) ==
  LET metric == AreaMetric(s, area)
  IN IF s.shortest < metric THEN s
     ELSE [s EXCEPT !.shortest = metric,
                    !.hops = IF s.shortest > metric THEN AreaHops(s, area) ELSE @ \cup AreaHops(s, area)]

selectBestPathsSpf(area) ==
  /\ selection.phase = "areas"
  /\ area \in selection.todo
  /\ selection' = [VisitArea(selection, area) EXCEPT !.todo = @ \ {area}]

\* getMinNextHopThreshold: the largest requirement of the chosen entries; 0 is none.
MinNextHop(s) ==
  LET required == {s.entries[na].minNexthop : na \in s.chosen}
  IN CHOOSE n \in required : \A other \in required : other <= n

addBestPaths ==
  /\ selection.phase = "areas" /\ selection.todo = {}
  /\ selection' =
       IF selection.hops = {} \/ MinNextHop(selection) > Cardinality(selection.hops)
       THEN [selection EXCEPT !.phase = "none"]
       ELSE [selection EXCEPT !.phase = "policy",
                              !.nexthops = [hop \in selection.hops |-> 0]]

--------------------------------------------------------------------------------
\* RibPolicy

\* RibPolicyStatement::applyAction: neighbour weight, else area weight, else the
\* default; a next hop of weight 0 goes, unless all of them would.
Weight(statement, hop) ==
  IF hop[1] \in DOMAIN statement.neighbor THEN statement.neighbor[hop[1]]
  ELSE IF hop[2] \in DOMAIN statement.area THEN statement.area[hop[2]]
  ELSE statement.default
Weighted(statement, nexthops) ==
  [hop \in {h \in DOMAIN nexthops : Weight(statement, h) > 0} |-> Weight(statement, hop)]

\* The first statement that matches and leaves a next hop is the only one applied.
applyAction ==
  /\ selection.phase = "policy"
  /\ selection' =
       IF selection.policy = <<>> THEN [selection EXCEPT !.phase = "route"]
       ELSE LET statement == Head(selection.policy)
                weighted == Weighted(statement, selection.nexthops)
            IN IF statement.match /\ DOMAIN weighted # {}
               THEN [selection EXCEPT !.phase = "route", !.nexthops = weighted]
               ELSE [selection EXCEPT !.policy = Tail(@)]

RouteSelectionNext ==
  \/ createRouteForPrefix
  \/ \E na \in selection.todo : selectRoutes(na)
  \/ selectBestRoutes
  \/ \E area \in selection.todo : selectBestPathsSpf(area)
  \/ addBestPaths
  \/ applyAction

RouteSelectionSpec == RouteSelectionInit /\ [][RouteSelectionNext]_RouteSelectionVars

--------------------------------------------------------------------------------
\* Properties

\* Types of the accumulators of the loops of selectRoutes and getNextHopsWithMetric.
RouteSelectionTypeOK ==
  /\ selection.phase \in {"start", "metrics", "areas", "policy", "route", "none"}
  /\ selection.chosen \subseteq RsNodeAreas
  /\ selection.drainMetric \in {0, 1}
  /\ \A hop \in DOMAIN selection.nexthops : \E na \in RsNodeAreas : hop \in RsHops[na]

\* The entries the code's ordering prefers, as one comparison of whole entries.
Drained(s, na) == s.entries[na].drain # 0 \/ s.entries[na].node = "soft"
Preferred(s, na, other) ==
  LET d == Drained(s, na)  e == Drained(s, other)  m == s.entries[na]  n == s.entries[other]
  IN \/ ~d /\ e
     \/ d = e /\ m.path > n.path
     \/ d = e /\ m.path = n.path /\ m.source > n.source
     \/ d = e /\ m.path = n.path /\ m.source = n.source /\ m.distance < n.distance
Reference(s) ==
  LET reachable == getReachablePrefixEntries(s)
      eligible == {na \in reachable : s.entries[na].node # "hard" \/ \A o \in reachable : s.entries[o].node = "hard"}
  IN {na \in eligible : \A other \in eligible : ~Preferred(s, other, na)}

\* Whatever order the hash maps are visited in, the chosen announcers are the ones
\* no other reachable announcer is preferred to (selectRoutes).
BestAnnouncersChosen ==
  selection.phase \in {"areas", "policy", "route"} => selection.chosen = Reference(selection)

\* A prefix that somebody reachable announces is not given up because of drains:
\* the computation ends without a route only if this node itself is among the
\* best, or a minimum number of next hops is required.
DrainNeverUnroutes ==
  selection.phase = "none" /\ getReachablePrefixEntries(selection) # {} =>
    \/ \E na \in Reference(selection) : na[1] = RsMe
    \/ \E na \in Reference(selection) : selection.entries[na].minNexthop > 0

\* Every next hop is on a shortest path to one of the chosen announcers, over all
\* the areas, and the requirement of each of them is met before a policy applies.
NextHopsAreShortest ==
  selection.phase = "policy" =>
    LET near == UNION {AreaNodes(selection, na[2]) : na \in selection.chosen}
        closest == {na \in near : \A other \in near : RsDistance[na] <= RsDistance[other]}
    IN /\ DOMAIN selection.nexthops = UNION {RsHops[na] : na \in closest}
       /\ \A na \in selection.chosen :
            selection.entries[na].minNexthop <= Cardinality(DOMAIN selection.nexthops)

\* A policy never empties a route and never leaves a next hop of weight 0 beside
\* weighted ones (applyAction, "Retain existing next-hops if new next-hops is empty").
PolicyKeepsRoute ==
  selection.phase = "route" =>
    LET weights == {selection.nexthops[hop] : hop \in DOMAIN selection.nexthops}
    IN weights # {} /\ (weights = {0} \/ 0 \notin weights)

\* Every stage of a route's computation hands on what it should: the best announcers, the next
\* hops nearest to them, a route a policy has not emptied, and a route whenever there is one
\* (selectBestRoutes, getNextHopsWithMetric, applyAction).
RouteSelectionInvariant ==
  /\ RouteSelectionTypeOK
  /\ BestAnnouncersChosen
  /\ DrainNeverUnroutes
  /\ NextHopsAreShortest
  /\ PolicyKeepsRoute

================================================================================
