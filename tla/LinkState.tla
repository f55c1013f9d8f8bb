------------------------------- MODULE LinkState -------------------------------
(***************************************************************************)
(* The link state of one area as Decision keeps it                         *)
(* (openr/decision/LinkState.cpp, Link.cpp) and the shortest paths computed*)
(* from it (runSpf, and the next hops of openr/decision/SpfSolver.cpp).    *)
(*                                                                         *)
(* adjacencyDatabases_ is what the nodes advertise.  allLinks_ is derived  *)
(* from it step by step: an adjacency database that arrives is compared    *)
(* with the links already there, and every Link is changed in place, on    *)
(* the side of the advertising node only.  SPF results are memoized until  *)
(* an update reports topologyChanged.                                      *)
(*                                                                         *)
(* An interface pair is a cable: the names an adjacency carries (ifName,   *)
(* otherIfName, otherNodeName) match exactly when both ends speak of the   *)
(* same cable.                                                             *)
(***************************************************************************)
EXTENDS Integers, FiniteSets, FiniteSetsExt, SequencesExt

CONSTANTS LsNodes,        \* node names
          LsMe,           \* myNodeName_
          Cables,         \* interface pairs
          CableEnds,      \* cable -> set of its two nodes
          AdjacencyValues,\* cable -> node -> set of adjacencies that end may advertise
          NodeValues      \* node -> set of records [overload, increment]

VARIABLES adjacencyDatabases,      \* node -> AdjacencyDatabase or NoDatabase
          allLinks,                \* cable -> Link or NoLink: linkMap_ and allLinks_
          nodeOverloads,           \* node -> "yes", "no" or "none" (no entry)
          nodeMetricIncrementVals, \* node -> Nat
          spfResults,              \* the memoized result of getSpfResult(me), or NoResult
          rebuilt                  \* the routes of the last rebuild; NoRebuild while a full
                                   \* rebuild is pending (DecisionPendingUpdates)

LinkStateVars == <<adjacencyDatabases, allLinks, nodeOverloads, nodeMetricIncrementVals,
                   spfResults, rebuilt>>

NoDatabase == [adjs |-> {}, overload |-> FALSE, increment |-> 0, present |-> FALSE]
NoLink == [none |-> TRUE]
NoResult == [none |-> TRUE]
NoRebuild == [none |-> TRUE]

\* The cables a node has an interface on.
CablesOf(n) == {c \in Cables : n \in CableEnds[c]}
OtherNode(c, n) == CHOOSE o \in CableEnds[c] : o # n

\* Databases a node may advertise: a partial map from its cables to adjacencies.
DatabasesOf(n) ==
  {[adjs |-> {<<c, f[c]>> : c \in S}, overload |-> v.overload,
    increment |-> v.increment, present |-> TRUE] :
     S \in SUBSET CablesOf(n),
     f \in {g \in [CablesOf(n) -> UNION {AdjacencyValues[c][n] : c \in CablesOf(n)}] :
              \A c \in CablesOf(n) : g[c] \in AdjacencyValues[c][n]},
     v \in NodeValues[n]}

Advertises(db, c) == \E a \in db.adjs : a[1] = c
Adjacency(db, c) == (CHOOSE a \in db.adjs : a[1] = c)[2]

--------------------------------------------------------------------------------
\* Links (Link.cpp)

\* An adjacency marked adjOnlyUsedByOtherNode serves only the node it leads to.
adjUsable(adj, other) == ~adj.onlyOther \/ other = LsMe

\* The link both ends advertise, or none: maybeMakeLink.
maybeMakeLink(dbs, c) ==
  LET ends == CableEnds[c]
      adj(n) == Adjacency(dbs[n], c)
  IN IF \E n \in ends : ~Advertises(dbs[n], c) THEN NoLink
     ELSE [metric |-> [n \in ends |-> adj(n).metric],
           overload |-> [n \in ends |-> adj(n).overload],
           nextHop |-> [n \in ends |-> adj(n).nextHop],
           usable |-> \A n \in ends : adjUsable(adj(n), OtherNode(c, n))]

IsUp(link) == link # NoLink /\ link.usable /\ \A n \in DOMAIN link.overload : ~link.overload[n]

MaxMetric(link) == Max({link.metric[n] : n \in DOMAIN link.metric})

\* A link that was there and still is, changed in place from node n's side: its
\* metric, its usability if isUp() differs, its overload, its next hop.
UpdatedLink(old, new, n) ==
  [old EXCEPT !.metric[n] = new.metric[n],
              !.usable = IF IsUp(new) # IsUp(old) THEN new.usable ELSE old.usable,
              !.overload[n] = new.overload[n],
              !.nextHop[n] = new.nextHop[n]]

\* Whether the comparison of one old and one new link reports topologyChanged.
LinkChangesTopology(old, new, n) ==
  IF old = NoLink \/ new = NoLink THEN IsUp(old) \/ IsUp(new)
  ELSE \/ old.metric[n] # new.metric[n]
       \/ IsUp(old) # IsUp(UpdatedLink(old, new, n))

LinkChangesAttributes_Never(old, new, n) == FALSE
LinkChangesAttributes(old, new, n) ==
  old # NoLink /\ new # NoLink /\ old.nextHop[n] # new.nextHop[n]

--------------------------------------------------------------------------------
\* Operations

LinkStateInit ==
  /\ adjacencyDatabases = [n \in LsNodes |-> NoDatabase]
  /\ allLinks = [c \in Cables |-> NoLink]
  /\ nodeOverloads = [n \in LsNodes |-> "none"]
  /\ nodeMetricIncrementVals = [n \in LsNodes |-> 0]
  /\ spfResults = NoResult
  /\ rebuilt = NoRebuild

\* A node's overload bit: a first value is not a change.
OverloadChanges(n, overload) ==
  nodeOverloads[n] # "none" /\ nodeOverloads[n] # (IF overload THEN "yes" ELSE "no")

\* What the comparison of a node's new database with its old one reports.
TopologyChanged(n, db, dbs) ==
  \/ OverloadChanges(n, db.overload)
  \/ adjacencyDatabases[n].increment # db.increment
  \/ \E c \in CablesOf(n) : LinkChangesTopology(allLinks[c], maybeMakeLink(dbs, c), n)

\* Decision rebuilds all routes for a new topology, and for new attributes of
\* this node's own links: applyLinkStateChange.
NeedsFullRebuild(n, db, dbs) ==
  \/ TopologyChanged(n, db, dbs)
  \/ /\ n = LsMe
     /\ \E c \in CablesOf(n) : LinkChangesAttributes(allLinks[c], maybeMakeLink(dbs, c), n)

\* adj:<node> arrives: the database is replaced, links are added, removed and
\* updated, the memoized results go if the topology changed.
UpdateAdjacencyDatabase(n, db) ==
  LET dbs == [adjacencyDatabases EXCEPT ![n] = db]
      new(c) == maybeMakeLink(dbs, c)
  IN /\ adjacencyDatabases' = dbs
     /\ allLinks' = [c \in Cables |->
          IF c \notin CablesOf(n) THEN allLinks[c]
          ELSE IF allLinks[c] = NoLink \/ new(c) = NoLink THEN new(c)
          ELSE UpdatedLink(allLinks[c], new(c), n)]
     /\ nodeOverloads' = [nodeOverloads EXCEPT ![n] = IF db.overload THEN "yes" ELSE "no"]
     /\ nodeMetricIncrementVals' = [nodeMetricIncrementVals EXCEPT ![n] = db.increment]
     /\ spfResults' = IF TopologyChanged(n, db, dbs) THEN NoResult ELSE spfResults
     /\ rebuilt' = IF NeedsFullRebuild(n, db, dbs) THEN NoRebuild ELSE rebuilt

\* adj:<node> expires.  removeNode forgets the links and the overload bit, but
\* only of a node that ever had a link; the metric increment stays.
HadLinks(n) == \E c \in CablesOf(n) : allLinks[c] # NoLink
DeleteAdjacencyDatabase(n) ==
  /\ adjacencyDatabases[n].present
  /\ adjacencyDatabases' = [adjacencyDatabases EXCEPT ![n] = NoDatabase]
  /\ allLinks' = [c \in Cables |-> IF c \in CablesOf(n) THEN NoLink ELSE allLinks[c]]
  /\ \E keeps \in (IF HadLinks(n) THEN {FALSE} ELSE BOOLEAN) :
       nodeOverloads' = [nodeOverloads EXCEPT ![n] = IF keeps THEN @ ELSE "none"]
  /\ spfResults' = NoResult
  /\ rebuilt' = NoRebuild
  /\ UNCHANGED nodeMetricIncrementVals

--------------------------------------------------------------------------------
\* Shortest paths

isNodeOverloaded(n) == nodeOverloads[n] = "yes"

\* One pass of Dijkstra's loop over a link c of the node just recorded.
Relax(st, node, c) ==
  LET other == OtherNode(c, node)
      rec == st.result[node]
      m == rec.metric + MaxMetric(allLinks[c])
      cur == IF other \in DOMAIN st.q THEN st.q[other] ELSE [metric |-> m, nextHops |-> {}]
      nh == (IF cur.metric > m THEN {} ELSE cur.nextHops) \cup rec.nextHops
  IN IF ~IsUp(allLinks[c]) \/ other \in DOMAIN st.result \/ cur.metric < m THEN st
     ELSE [st EXCEPT !.q = (other :> [metric |-> m,
                                      nextHops |-> IF nh = {} THEN {other} ELSE nh]) @@ @]

\* extractMin, record, and relax every link unless the node carries no transit.
Extract(st) ==
  LET node == CHOOSE n \in DOMAIN st.q : \A o \in DOMAIN st.q : st.q[n].metric <= st.q[o].metric
      rec == [q |-> [n \in DOMAIN st.q \ {node} |-> st.q[n]],
              result |-> (node :> st.q[node]) @@ st.result]
  IN IF isNodeOverloaded(node) /\ node # LsMe THEN rec
     ELSE FoldLeft(LAMBDA acc, c : Relax(acc, node, c), rec, SetToSeq(CablesOf(node)))

\* The result maps every node reached to its distance and its next-hop nodes.
runSpf ==
  LET start == [q |-> LsMe :> [metric |-> 0, nextHops |-> {}], result |-> <<>>]
      run[k \in 0..Cardinality(LsNodes)] ==
        IF k = 0 THEN start
        ELSE LET st == run[k - 1] IN IF DOMAIN st.q = {} THEN st ELSE Extract(st)
  IN run[Cardinality(LsNodes)].result

\* Next hops towards the closest of the nodes dsts: the neighbours on a shortest
\* path, each with what is left of the way behind it.
getNextHopsWithMetric(res, dsts) ==
  LET reached == dsts \cap DOMAIN res
      shortest == Min({res[d].metric : d \in reached})
      closest == {d \in reached : res[d].metric = shortest}
      names == UNION {res[d].nextHops : d \in closest}
  IN [metric |-> shortest, left |-> [n \in names |-> shortest - res[n].metric]]

\* The links to program: up, to one of these neighbours, and no longer than need be.
getNextHopsThrift(best) ==
  {c \in CablesOf(LsMe) : /\ IsUp(allLinks[c])
                          /\ OtherNode(c, LsMe) \in DOMAIN best.left
                          /\ MaxMetric(allLinks[c]) + best.left[OtherNode(c, LsMe)] = best.metric}

\* The routes towards every set of announcing nodes, as a rebuild computes them.
DestinationSets == SUBSET (LsNodes \ {LsMe}) \ {{}}
RoutesFrom(res) ==
  [dsts \in {d \in DestinationSets : d \cap DOMAIN res # {}} |->
     LET best == getNextHopsWithMetric(res, dsts)
     IN [metric |-> best.metric,
         hops |-> {<<c, allLinks[c].nextHop[LsMe]>> : c \in getNextHopsThrift(best)},
         drained |-> {n \in dsts \cap DOMAIN res : isNodeOverloaded(n) \/ nodeMetricIncrementVals[n] # 0}]]

\* The debounced rebuild: getSpfResult computes what is not memoized.
Rebuild ==
  /\ rebuilt = NoRebuild
  /\ LET res == IF spfResults = NoResult THEN runSpf ELSE spfResults
     IN spfResults' = res /\ rebuilt' = RoutesFrom(res)
  /\ UNCHANGED <<adjacencyDatabases, allLinks, nodeOverloads, nodeMetricIncrementVals>>

\* The databases as computed: what is advertised of the links that exist, each
\* marked overloaded if either end is.
getAdjacencyDatabasesComputed(n) ==
  {<<c, Adjacency(adjacencyDatabases[n], c).overload \/ allLinks[c].overload[OtherNode(c, n)]>> :
     c \in {d \in CablesOf(n) : allLinks[d] # NoLink}}

LinkStateNext ==
  \/ \E n \in LsNodes : \E db \in DatabasesOf(n) : UpdateAdjacencyDatabase(n, db)
  \/ \E n \in LsNodes : DeleteAdjacencyDatabase(n)
  \/ Rebuild

LinkStateSpec == LinkStateInit /\ [][LinkStateNext]_LinkStateVars

--------------------------------------------------------------------------------
\* Reference: what the adjacency databases mean, with no history

RefLink(c) == maybeMakeLink(adjacencyDatabases, c)

\* Sequences of links that lead from this node over nodes that carry transit, with
\* the node each ends at and its metric.
Walk(p) ==
  LET at[i \in 0..Len(p)] == IF i = 0 THEN LsMe
                             ELSE IF at[i - 1] \in CableEnds[p[i]] THEN OtherNode(p[i], at[i - 1])
                             ELSE "off"
  IN at
Paths ==
  LET up == {c \in Cables : IsUp(RefLink(c))}
      ok(p) == LET at == Walk(p)
               IN /\ at[Len(p)] \in LsNodes
                  /\ \A i \in 1..(Len(p) - 1) : at[i] # LsMe /\ ~adjacencyDatabases[at[i]].overload
  IN {[first |-> p[1], to |-> Walk(p)[Len(p)],
       metric |-> MapThenSumSet(LAMBDA i : MaxMetric(RefLink(p[i])), 1..Len(p))] :
        p \in {q \in UNION {[1..k -> up] : k \in 1..(Cardinality(LsNodes) - 1)} : ok(q)}}
Shortest(paths) == {p \in paths : \A q \in paths : p.metric <= q.metric}

--------------------------------------------------------------------------------
\* Properties

\* Types of the databases, links, overloads and results (LinkState.h).
LinkStateTypeOK ==
  /\ \A n \in LsNodes : \A a \in adjacencyDatabases[n].adjs : a[1] \in CablesOf(n) /\ a[2] \in AdjacencyValues[a[1]][n]
  /\ \A c \in Cables : allLinks[c] # NoLink =>
       /\ DOMAIN allLinks[c].metric = CableEnds[c]
       /\ \A n \in CableEnds[c] : allLinks[c].metric[n] \in {v.metric : v \in AdjacencyValues[c][n]}
       /\ allLinks[c].usable \in BOOLEAN
  /\ nodeOverloads \in [LsNodes -> {"yes", "no", "none"}]
  /\ nodeMetricIncrementVals \in [LsNodes -> Nat]
  /\ spfResults # NoResult => DOMAIN spfResults \subseteq LsNodes
  /\ rebuilt # NoRebuild => DOMAIN rebuilt \subseteq DestinationSets

\* The links Decision routes over are the ones the adjacency databases describe:
\* however the databases changed, a link that was updated in place says what a
\* link made anew from both databases would say of who may use it, at which
\* metric and over which next hop (updateAdjacencyDatabase, Link.cpp).
LinksFollowDatabases ==
  \A c \in Cables : /\ (allLinks[c] = NoLink) = (RefLink(c) = NoLink)
                    /\ allLinks[c] # NoLink => /\ allLinks[c].metric = RefLink(c).metric
                                               /\ allLinks[c].nextHop = RefLink(c).nextHop
                                               /\ IsUp(allLinks[c]) = IsUp(RefLink(c))

\* A memoized SPF result is never stale: it holds the nodes, the distances and
\* the next-hop nodes of the shortest paths in the databases as they are now, no
\* path leading through an overloaded node (runSpf, spfResults_.clear()).
SpfResultFresh ==
  spfResults # NoResult =>
    LET paths == Paths
        to(n) == Shortest({p \in paths : p.to = n})
    IN /\ DOMAIN spfResults = {LsMe} \cup {p.to : p \in paths}
       /\ \A n \in DOMAIN spfResults \ {LsMe} :
            /\ \A p \in to(n) : spfResults[n].metric = p.metric
            /\ spfResults[n].nextHops = {OtherNode(p.first, LsMe) : p \in to(n)}

\* The routes are never stale unless a full rebuild is pending: for whatever set
\* of nodes announces a prefix, the links programmed are the first links of the
\* shortest paths to the closest of them, with the next hops advertised now, also
\* over parallel links of different metrics.  No change of the link state that
\* matters escapes the flags of LinkStateChange (applyLinkStateChange,
\* getNextHopsWithMetric, getNextHopsThrift).
RoutesFresh ==
  rebuilt # NoRebuild =>
    LET paths == Paths
    IN \A dsts \in DestinationSets :
         LET best == Shortest({p \in paths : p.to \in dsts})
         IN IF best = {} THEN dsts \notin DOMAIN rebuilt
            ELSE /\ dsts \in DOMAIN rebuilt
                 /\ \A p \in best : rebuilt[dsts].metric = p.metric
                 /\ rebuilt[dsts].hops = {<<p.first, RefLink(p.first).nextHop[LsMe]>> : p \in best}
                 /\ rebuilt[dsts].drained =
                      {n \in dsts \cap {p.to : p \in paths} :
                         adjacencyDatabases[n].overload \/ adjacencyDatabases[n].increment # 0}

\* The projection shown to operators is symmetric: both ends of a link list it,
\* and both say overloaded if one of them is (getAdjacencyDatabasesComputed).
ComputedSymmetric ==
  \A n \in LsNodes : \A entry \in getAdjacencyDatabasesComputed(n) :
    entry \in getAdjacencyDatabasesComputed(OtherNode(entry[1], n))

\* LinkState between two calls: links, memoized paths and routes are those of the databases as
\* they are now, however they came about (updateAdjacencyDatabase, runSpf, applyLinkStateChange).
LinkStateInvariant ==
  /\ LinkStateTypeOK
  /\ LinksFollowDatabases
  /\ SpfResultFresh
  /\ RoutesFresh
  /\ ComputedSymmetric

================================================================================
