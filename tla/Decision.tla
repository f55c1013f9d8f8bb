-------------------------------- MODULE Decision --------------------------------
(***************************************************************************)
(* Decision (openr/decision/Decision.cpp): when routes are computed, from  *)
(* what, and what of them is published.                                    *)
(*                                                                         *)
(* Decision is one event base; every handler runs to its end, and several  *)
(* of them rebuild routes in their middle.  Its state is therefore one     *)
(* record, and a handler is an operator from that record to the next.      *)
(* The initial rebuild waits for static routes, KvStore, the persisted     *)
(* policy and the adjacencies with the peers LinkMonitor found, or for a   *)
(* timeout.  Later ones are full or touch only the prefixes that changed,  *)
(* and are debounced.  A RibPolicy changes the routes of a rebuild while   *)
(* it is valid; it is saved to a file and read back after a restart.       *)
(*                                                                         *)
(* Link state and route selection are modules of their own (LinkState,     *)
(* RouteSelection).  Here a peer is reachable when both ends advertise the *)
(* adjacency, and a route is the set of reachable nodes that announce the  *)
(* prefix.                                                                 *)
(***************************************************************************)
EXTENDS Integers, FiniteSets

CONSTANTS DcMe,          \* myNodeName_
          DcPeers,       \* other nodes
          DcPrefixes,    \* prefixes
          DcConfigs,     \* configurations: what may arrive, and the options that matter
          MaxDcRestarts  \* bound: restarts in a behaviour

VARIABLES decision,      \* the state of the Decision object
          policyFile,    \* FLAGS_rib_policy_file: the saved policy, 0 if none
          alivePolicies, \* policies whose validity has not ended
          dcConfig,      \* what the environment may send, a member of DcConfigs
          dcRestarts     \* restarts so far

DecisionVars == <<decision, policyFile, alivePolicies, dcConfig, dcRestarts>>

DcNodes == {DcMe} \cup DcPeers
NoRoute == [hops |-> {}, policy |-> 0]
StaticHop == "static"

\* A Decision as the constructor leaves it.
FreshDecision ==
  [peersReceived |-> FALSE,      \* initialPeersReceivedBaton_
   pendingAdj |-> {},            \* areaToPendingAdjacency_
   initialPeers |-> {},          \* the initial peers that did not go down since
   kvSynced |-> FALSE,           \* initialKvStoreSynced_
   adjSynced |-> FALSE,          \* initialSelfAdjSynced_
   policyRead |-> FALSE,         \* initialRibPolicyRead_
   unreceived |-> dcConfig.static # {}, \* unreceivedRouteTypes_ holds CONFIG
   unblocked |-> FALSE,          \* unblockInitialRoutes_
   timeout |-> FALSE,            \* unblockInitialRoutesTimeout_ is scheduled
   forced |-> FALSE,             \* it fired
   known |-> {}, adj |-> [n \in DcNodes |-> {}],        \* adjacency databases
   announced |-> [n \in DcNodes |-> {}],                \* prefixState_
   static |-> {},                \* staticUnicastRoutes_
   full |-> FALSE, updated |-> {}, debounce |-> FALSE,  \* pendingUpdates_, rebuildRoutesDebounced_
   routeDb |-> [p \in DcPrefixes |-> NoRoute],
   sawMe |-> TRUE,               \* the last full rebuild found this node
   computed |-> FALSE,           \* RIB_COMPUTED was logged
   policy |-> 0, policyTimer |-> 0, save |-> FALSE]     \* ribPolicy_ and its timers

DecisionInit ==
  /\ dcConfig \in DcConfigs
  /\ decision = FreshDecision
  /\ policyFile = 0
  /\ alivePolicies = dcConfig.policies
  /\ dcRestarts = 0

--------------------------------------------------------------------------------
\* Route computation

Reachable(d, n) == n = DcMe \/ (n \in d.adj[DcMe] /\ DcMe \in d.adj[n])
UpLinks(d) == {n \in DcPeers : Reachable(d, n)}

\* createRouteForPrefixOrGetStaticRoute: a prefix this node announces itself gets
\* no route from the prefix state, and a static route is second to one from there.
RouteFor(d, p) ==
  LET from == {n \in DcNodes : p \in d.announced[n] /\ Reachable(d, n)}
  IN IF from # {} /\ DcMe \notin from THEN [hops |-> from, policy |-> 0]
     ELSE IF p \in d.static THEN [hops |-> {StaticHop}, policy |-> 0]
     ELSE NoRoute

\* A policy that is still valid transforms the routes it is given.
applyPolicy(d, route) ==
  IF d.policy \in alivePolicies /\ route # NoRoute THEN [route EXCEPT !.policy = d.policy] ELSE route

\* buildRouteDb: without an adjacency database of this node there are no routes,
\* static ones included.
buildRouteDb(d) ==
  [p \in DcPrefixes |-> IF DcMe \in d.known THEN RouteFor(d, p) ELSE NoRoute]

needsRouteUpdate(d) == d.full \/ d.updated # {}

--------------------------------------------------------------------------------
\* The gate in front of the initial routes

unblockSelfAdjSync(d) == ~dcConfig.initOptimization \/ d.adjSynced

InitialConditions(d) ==
  /\ ~d.unreceived
  /\ d.kvSynced
  /\ unblockSelfAdjSync(d)
  /\ d.policyRead
  /\ d.peersReceived
  /\ d.pendingAdj = {}

unblockInitialRoutesBuild(d) ==
  IF ~d.unblocked /\ InitialConditions(d)
    THEN [d EXCEPT !.unblocked = TRUE, !.timeout = FALSE]
    ELSE d

\* The routes of a rebuild: all of them, or those of the updated prefixes.
RebuiltDb(d) ==
  IF d.full THEN [p \in DcPrefixes |-> applyPolicy(d, buildRouteDb(d)[p])]
  ELSE [p \in DcPrefixes |->
          IF p \in d.updated THEN applyPolicy(d, RouteFor(d, p)) ELSE d.routeDb[p]]

\* rebuildRoutes: returns while the gate is closed; the pending updates stay.
rebuildRoutes(e) ==
  LET d == unblockInitialRoutesBuild(e)
  IN IF ~d.unblocked THEN d
     ELSE [d EXCEPT !.routeDb = RebuiltDb(d),
                    !.sawMe = IF d.full THEN DcMe \in d.known ELSE @,
                    !.full = FALSE, !.updated = {}]

triggerInitialBuildRoutes(e) ==
  LET d == unblockInitialRoutesBuild(e)
      r == rebuildRoutes([d EXCEPT !.debounce = FALSE, !.full = TRUE])
  IN IF ~d.unblocked THEN d
     ELSE [r EXCEPT !.computed = TRUE]

--------------------------------------------------------------------------------
\* Handlers

\* LinkMonitor's first PeerEvent names the peers to wait for, in both directions.
InitialPeers(peers) ==
  /\ ~decision.peersReceived
  /\ decision' = [decision EXCEPT !.peersReceived = TRUE, !.initialPeers = peers,
                                  !.pendingAdj = ({DcMe} \X peers) \cup (peers \X {DcMe})]
  /\ UNCHANGED <<policyFile, alivePolicies, dcConfig, dcRestarts>>

\* A peer goes down later.  The second direction is erased only if the first was
\* still there.
WithoutPeer(d, n) ==
  IF <<n, DcMe>> \in d.pendingAdj THEN d.pendingAdj \ {<<n, DcMe>>, <<DcMe, n>>} ELSE d.pendingAdj

PeerDown(n) ==
  /\ decision.peersReceived
  /\ n \in decision.initialPeers
  /\ LET d == [decision EXCEPT !.initialPeers = @ \ {n}, !.pendingAdj = WithoutPeer(decision, n)]
     IN decision' = IF decision.pendingAdj # {} /\ d.pendingAdj = {}
                    THEN triggerInitialBuildRoutes(d) ELSE d
  /\ UNCHANGED <<policyFile, alivePolicies, dcConfig, dcRestarts>>

\* The publication is processed to its end, then a rebuild is scheduled if needed.
Published(d) == [d EXCEPT !.debounce = @ \/ needsRouteUpdate(d)]

\* updatePendingAdjacency: the last adjacency waited for starts the initial build.
updatePendingAdjacency(d, n, nbrs) ==
  LET left == d.pendingAdj \ ({n} \X nbrs)
      e == [d EXCEPT !.pendingAdj = left]
  IN IF d.pendingAdj # {} /\ left = {} THEN triggerInitialBuildRoutes(e) ELSE e

\* adj:<n> arrives: first the list of awaited adjacencies, then the link state.
AdjacencyKey(n, nbrs) ==
  /\ decision.peersReceived
  /\ LET d == updatePendingAdjacency(decision, n, nbrs)
         e == [d EXCEPT !.known = @ \cup {n}, !.adj[n] = nbrs]
     IN decision' = Published([e EXCEPT !.full = @ \/ UpLinks(e) # UpLinks(d)])
  /\ UNCHANGED <<policyFile, alivePolicies, dcConfig, dcRestarts>>

AdjacencyExpired(n) ==
  /\ decision.peersReceived
  /\ n \in decision.known
  /\ decision' = Published([decision EXCEPT !.known = @ \ {n}, !.adj[n] = {}, !.full = TRUE])
  /\ UNCHANGED <<policyFile, alivePolicies, dcConfig, dcRestarts>>

\* prefixState_.updatePrefix and deletePrefix report the prefix if its entry changed.
WithPrefix_SilentWithdrawal(d, n, p, present) ==
  IF present THEN [d EXCEPT !.announced[n] = @ \cup {p}, !.updated = @ \cup {p}]
  ELSE [d EXCEPT !.announced[n] = @ \ {p}]
WithPrefix(d, n, p, present) ==
  IF (p \in d.announced[n]) = present THEN d
  ELSE [d EXCEPT !.announced[n] = IF present THEN @ \cup {p} ELSE @ \ {p},
                 !.updated = @ \cup {p}]

\* prefix:<n>:<p> arrives, is withdrawn or expires.  This node's own entry for a
\* prefix it redistributed between areas is ignored: reflected.
PrefixKey(n, p, present, reflected) ==
  /\ decision.peersReceived
  /\ <<n, p>> \in dcConfig.announce
  /\ reflected => n = DcMe /\ present
  /\ decision' = Published(IF reflected THEN decision ELSE WithPrefix(decision, n, p, present))
  /\ UNCHANGED <<policyFile, alivePolicies, dcConfig, dcRestarts>>

\* KvStore's initialization events, in the same queue as its publications.
KvStoreSynced_NoTimeout ==
  /\ decision.peersReceived /\ ~decision.kvSynced
  /\ LET d == [decision EXCEPT !.kvSynced = TRUE]
     IN decision' = IF unblockSelfAdjSync(d) /\ ~d.unblocked THEN triggerInitialBuildRoutes(d) ELSE d
  /\ UNCHANGED <<policyFile, alivePolicies, dcConfig, dcRestarts>>
KvStoreSynced ==
  /\ decision.peersReceived /\ ~decision.kvSynced
  /\ LET d == [decision EXCEPT !.kvSynced = TRUE, !.timeout = TRUE]
     IN decision' = IF unblockSelfAdjSync(d) /\ ~d.unblocked THEN triggerInitialBuildRoutes(d) ELSE d
  /\ UNCHANGED <<policyFile, alivePolicies, dcConfig, dcRestarts>>

AdjacencyDbSynced ==
  /\ decision.peersReceived /\ ~decision.adjSynced
  /\ LET d == [decision EXCEPT !.adjSynced = TRUE]
     IN decision' = IF d.kvSynced /\ ~d.unblocked THEN triggerInitialBuildRoutes(d) ELSE d
  /\ UNCHANGED <<policyFile, alivePolicies, dcConfig, dcRestarts>>

\* PrefixManager's static routes; the update may be marked as the CONFIG routes.
StaticRoutesUpdate(p, present, isConfig) ==
  /\ p \in dcConfig.static
  /\ LET d == [decision EXCEPT !.static = IF present THEN @ \cup {p} ELSE @ \ {p},
                               !.updated = @ \cup {p}, !.debounce = TRUE]
     IN decision' = IF isConfig /\ d.unreceived
                    THEN triggerInitialBuildRoutes([d EXCEPT !.unreceived = FALSE]) ELSE d
  /\ UNCHANGED <<policyFile, alivePolicies, dcConfig, dcRestarts>>

\* Timers: the debounced rebuild, and the end of the wait for the initial routes.
RebuildRoutesDebounced ==
  /\ decision.debounce
  /\ decision' = rebuildRoutes([decision EXCEPT !.debounce = FALSE])
  /\ UNCHANGED <<policyFile, alivePolicies, dcConfig, dcRestarts>>

ForceInitialRoutesBuild ==
  /\ decision.timeout
  /\ decision' = LET d == [decision EXCEPT !.timeout = FALSE]
                 IN IF d.unblocked THEN d
                    ELSE triggerInitialBuildRoutes([d EXCEPT !.unblocked = TRUE, !.forced = TRUE])
  /\ UNCHANGED <<policyFile, alivePolicies, dcConfig, dcRestarts>>

--------------------------------------------------------------------------------
\* RibPolicy

\* The fiber that reads the saved policy runs before any request is served; an
\* expired policy is skipped.  The timer of a policy read here is not scheduled.
ReadRibPolicy ==
  /\ ~decision.policyRead
  /\ decision' = triggerInitialBuildRoutes(
       [decision EXCEPT !.policyRead = TRUE,
                        !.policy = IF policyFile \in alivePolicies THEN policyFile ELSE @])
  /\ UNCHANGED <<policyFile, alivePolicies, dcConfig, dcRestarts>>

\* setRibPolicy; a policy that is not valid any more is ignored.
SetRibPolicy(id) ==
  /\ decision.policyRead
  /\ id \in alivePolicies
  /\ decision' = [rebuildRoutes([decision EXCEPT !.policy = id, !.policyTimer = id, !.full = TRUE])
                    EXCEPT !.save = TRUE]
  /\ UNCHANGED <<policyFile, alivePolicies, dcConfig, dcRestarts>>

ClearRibPolicy ==
  /\ decision.policyRead
  /\ decision.policy # 0
  /\ decision' = rebuildRoutes([decision EXCEPT !.policy = 0, !.save = FALSE, !.full = TRUE])
  /\ UNCHANGED <<policyFile, alivePolicies, dcConfig, dcRestarts>>

SaveRibPolicy ==
  /\ decision.save
  /\ policyFile' = decision.policy
  /\ decision' = [decision EXCEPT !.save = FALSE]
  /\ UNCHANGED <<alivePolicies, dcConfig, dcRestarts>>

\* The validity of a policy ends with the clock; ribPolicyTimer_ fires then.
PolicyExpires(id) ==
  /\ id \in alivePolicies
  /\ alivePolicies' = alivePolicies \ {id}
  /\ UNCHANGED <<decision, policyFile, dcConfig, dcRestarts>>

RibPolicyTimer ==
  /\ decision.policyTimer # 0 /\ decision.policyTimer \notin alivePolicies
  /\ decision' = rebuildRoutes([decision EXCEPT !.policyTimer = 0, !.full = TRUE])
  /\ UNCHANGED <<policyFile, alivePolicies, dcConfig, dcRestarts>>

\* The process restarts; the file stays.
RestartDecision ==
  /\ dcConfig.restarts /\ dcRestarts < MaxDcRestarts
  /\ dcRestarts' = dcRestarts + 1
  /\ decision' = FreshDecision
  /\ UNCHANGED <<policyFile, alivePolicies, dcConfig>>

DecisionNext ==
  \/ \E peers \in dcConfig.peers : InitialPeers(peers)
  \/ \E n \in DcPeers : PeerDown(n)
  \/ \E n \in DcPeers : \E nbrs \in SUBSET {DcMe} : AdjacencyKey(n, nbrs)
  \/ \E nbrs \in SUBSET DcPeers : AdjacencyKey(DcMe, nbrs)
  \/ \E n \in DcNodes : AdjacencyExpired(n)
  \/ \E n \in DcNodes, p \in DcPrefixes, present, reflected \in BOOLEAN :
       PrefixKey(n, p, present, reflected)
  \/ KvStoreSynced
  \/ AdjacencyDbSynced
  \/ \E p \in DcPrefixes, present, isConfig \in BOOLEAN : StaticRoutesUpdate(p, present, isConfig)
  \/ RebuildRoutesDebounced
  \/ ForceInitialRoutesBuild
  \/ ReadRibPolicy
  \/ \E id \in alivePolicies : SetRibPolicy(id) \/ PolicyExpires(id)
  \/ ClearRibPolicy
  \/ SaveRibPolicy
  \/ RibPolicyTimer
  \/ RestartDecision

DecisionSpec == DecisionInit /\ [][DecisionNext]_DecisionVars

--------------------------------------------------------------------------------
\* Properties

\* Types of what Decision keeps of nodes, prefixes and policies (Decision.h).
DecisionTypeOK ==
  /\ decision.pendingAdj \subseteq DcNodes \X DcNodes
  /\ decision.known \subseteq DcNodes
  /\ decision.adj \in [DcNodes -> SUBSET DcNodes]
  /\ decision.announced \in [DcNodes -> SUBSET DcPrefixes]
  /\ decision.updated \subseteq DcPrefixes
  /\ \A p \in DcPrefixes : /\ decision.routeDb[p].hops \subseteq DcPeers \cup {StaticHop}
                           /\ decision.routeDb[p].policy \in {0} \cup dcConfig.policies
  /\ decision.policy \in {0} \cup dcConfig.policies
  /\ policyFile \in {0} \cup dcConfig.policies
  /\ dcRestarts \in 0..MaxDcRestarts

\* When nothing is pending, the routes are the ones a full computation from the
\* current databases gives, under the policy that is valid: the shortcut over the
\* updated prefixes, and every update that was skipped while the initial routes
\* were blocked, lose nothing (rebuildRoutes, DecisionPendingUpdates).
RouteDbFresh ==
  decision.unblocked /\ ~needsRouteUpdate(decision) /\ decision.sawMe =>
    \A p \in DcPrefixes :
      LET r == RouteFor(decision, p)
      IN /\ decision.routeDb[p].hops = r.hops
         /\ decision.policy \in alivePolicies /\ r # NoRoute =>
              decision.routeDb[p].policy = decision.policy

\* After the initial routes, no update waits without a timer that will process
\* it: whatever handler set pendingUpdates_ either rebuilt at once or left
\* rebuildRoutesDebounced_ scheduled.
NothingForgotten ==
  decision.unblocked /\ needsRouteUpdate(decision) => decision.debounce

\* Before the initial routes, once KvStore is synced the wait has an end: the
\* timeout is armed, so that a peer whose adjacency never comes cannot hold the
\* routes back for ever (unblockInitialRoutesTimeout_).
BlockedIsTimed ==
  decision.kvSynced /\ ~decision.unblocked => decision.timeout

\* Nothing is published before every condition holds or the timeout fired, and
\* from the first routes on RIB_COMPUTED has been announced
\* (unblockInitialRoutesBuild, triggerInitialBuildRoutes).
InitialRibGated ==
  /\ ~decision.unblocked => \A p \in DcPrefixes : decision.routeDb[p] = NoRoute
  /\ decision.unblocked => /\ decision.forced \/ (InitialConditions(decision) /\ decision.pendingAdj = {})
                           /\ decision.computed

\* Decision between two callbacks: no update and no start waits without a timer that ends the
\* wait, and no route is out before the initial conditions (processPublication,
\* triggerInitialBuildRoutes, rebuildRoutes).
DecisionInvariant ==
  /\ DecisionTypeOK
  /\ NothingForgotten
  /\ BlockedIsTimed
  /\ InitialRibGated

================================================================================
