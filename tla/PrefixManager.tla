----------------------------- MODULE PrefixManager -----------------------------
(***************************************************************************)
(* PrefixManager (openr/prefix-manager): which prefixes this node          *)
(* announces, in which areas, and which static routes it asks Decision to  *)
(* program.                                                                *)
(*                                                                         *)
(* Entries come from plugins and the API, from routes that Fib programmed  *)
(* (announced again into the other areas) and from the configuration       *)
(* (aggregates, announced while enough programmed routes support them).    *)
(* Handlers change the map of entries and note the prefix as pending; a    *)
(* throttled task later writes the best entry of each pending prefix to    *)
(* KvStore.  An entry with next hops is first sent to Decision as a static *)
(* route, and announced when Fib reports the route as programmed.          *)
(*                                                                         *)
(* The event base runs one handler at a time, so the state is one record   *)
(* and a handler an operator on it.  KvStore's answer (the node's own keys *)
(* come back as publications, late) and Fib's reports are the environment. *)
(***************************************************************************)
EXTENDS Integers, FiniteSetsExt

CONSTANTS PmPrefixes,     \* prefixes
          PmAreas,        \* areaToPolicy_: the configured areas
          PmOriginated,   \* aggregates: prefix -> [install, min]
          PmCovers,       \* aggregate -> prefixes inside it
          PmScenes        \* what the environment may do: a set of records
                          \*   events: entries plugins and the API announce, [p, t, e, policy]
                          \*   learned: prefix -> routes of other nodes that Fib programs
                          \*   oldKeys: keys of the previous incarnation, <<prefix, area>>

VARIABLES pm,             \* the PrefixManager object, and the effect of what it sent
          pmScene,        \* the environment, a member of PmScenes
          pmFibSynced     \* Fib sent its first, full update

PrefixManagerVars == <<pm, pmScene, pmFibSynced>>

\* PrefixType, in the order of the enumeration that breaks ties.
PmTypes == {"BGP", "RIB", "CONFIG"}
PmTypeRank == [BGP |-> 3, RIB |-> 6, CONFIG |-> 7]

PmNoEntry == [cost |-> -1, stack |-> {}, dst |-> {}, nh |-> "none", preferred |-> FALSE]
PmNoRoute == [type |-> "none", cost |-> -1, nh |-> "none"]
PmNoStatus == [known |-> FALSE, areas |-> {}, route |-> PmNoRoute, best |-> PmNoEntry]
PmAggregates == DOMAIN PmOriginated

PrefixManagerInit ==
  /\ pmScene \in PmScenes
  /\ pm = [map |-> [k \in PmPrefixes \X PmTypes |-> PmNoEntry],       \* prefixMap_
           status |-> [p \in PmPrefixes |-> PmNoStatus],              \* advertiseStatus_
           pending |-> {}, throttle |-> FALSE,      \* pendingUpdates_, syncKvStoreThrottled_
           uninit |-> {"RIB"} \cup (IF PmAggregates = {} THEN {} ELSE {"CONFIG"}),
           programmed |-> {},                       \* programmedPrefixes_
           policed |-> {},                          \* originatedPrefixMap_, its keys
           rib |-> {},                              \* ribPrefixDb_
           supports |-> [c \in PmAggregates |-> {}],
           advertised |-> {},                       \* aggregates with isAdvertised
           synced |-> 0,                            \* PREFIX_DB_SYNCED events
           keys |-> pmScene.oldKeys,                      \* this node's keys in KvStore
           pubs |-> pmScene.oldKeys,                      \* their publications still to be processed
           static |-> [p \in PmPrefixes |-> PmNoRoute]] \* Decision's static routes
  /\ pmFibSynced = FALSE

--------------------------------------------------------------------------------
\* Entries

PmPresent(d, p) == {t \in PmTypes : d.map[p, t] # PmNoEntry}

\* PrefixEntry::operator== looks at neither the next hops nor the preference.
SameEntry(e, f) == e.cost = f.cost /\ e.stack = f.stack /\ e.dst = f.dst

\* The entry Decision preferred over the local ones, else the best metric, and
\* the lowest type among equals.
getBestPrefixEntry(d, p) ==
  IF d.map[p, "RIB"].preferred THEN "RIB"
  ELSE CHOOSE t \in PmPresent(d, p) : \A u \in PmPresent(d, p) :
         \/ d.map[p, t].cost < d.map[p, u].cost
         \/ d.map[p, t].cost = d.map[p, u].cost /\ PmTypeRank[t] <= PmTypeRank[u]

prefixEntryReadyToBeAdvertised(d, p, e) == e.nh = "none" \/ p \in d.programmed

StaticRoute(t, e) == [type |-> t, cost |-> e.cost, nh |-> e.nh]

\* addKvStoreKeyHelper: never back into an area the route came through; the
\* policy of an area accepts everything (PolicyManager::applyPolicy).
AdvertisedAreas(e) == e.dst \ e.stack

--------------------------------------------------------------------------------
\* syncKvStore: what becomes of one prefix, and of the keys and the route of it

PmWithKeys(d, p, set, clear) ==
  [d EXCEPT !.keys = (@ \ ({p} \X clear)) \cup ({p} \X set), !.pubs = @ \cup ({p} \X set)]

deletePrefixKeysInKvStore(d, p) ==
  [PmWithKeys(d, p, {}, d.status[p].areas) EXCEPT
     !.status[p] = PmNoStatus,
     !.static[p] = IF d.status[p].route # PmNoRoute THEN PmNoRoute ELSE @]

\* A route is sent if it differs from the one sent last, and deleted if the best
\* entry has no next hops any more.
populateRouteUpdates(d, p, t) ==
  LET e == d.map[p, t]
      route == IF e.nh = "none" THEN PmNoRoute ELSE StaticRoute(t, e)
  IN [d EXCEPT !.status[p].known = TRUE, !.status[p].route = route,
               !.static[p] = IF route = d.status[p].route THEN @ ELSE route]

\* Keys are set in the areas of the entry and cleared in the other ones of the
\* last round.
updatePrefixKeysInKvStore(d, p, e) ==
  [PmWithKeys(d, p, AdvertisedAreas(e), d.status[p].areas \ AdvertisedAreas(e)) EXCEPT
     !.status[p] = [@ EXCEPT !.known = TRUE, !.areas = AdvertisedAreas(e), !.best = e]]

SyncPrefix(p, d) ==
  LET t == getBestPrefixEntry(d, p)
      e == d.map[p, t]
      pending == p \in d.pending
      f == IF pending THEN populateRouteUpdates(d, p, t) ELSE d
  IN IF PmPresent(d, p) = {} THEN IF pending THEN deletePrefixKeysInKvStore(d, p) ELSE d
     ELSE IF prefixEntryReadyToBeAdvertised(d, p, e)
       THEN IF pending THEN updatePrefixKeysInKvStore(f, p, e) ELSE d
     ELSE IF f.status[p].known /\ ~prefixEntryReadyToBeAdvertised(d, p, f.status[p].best)
       THEN deletePrefixKeysInKvStore(f, p)
     ELSE f

\* The prefixes are independent of one another.
syncKvStore(d) == [FoldSet(SyncPrefix, d, PmPrefixes) EXCEPT !.pending = {}]

triggerInitialPrefixDbSync(d) ==
  IF d.uninit = {} THEN syncKvStore([d EXCEPT !.synced = @ + 1]) ELSE d

--------------------------------------------------------------------------------
\* Entries come and go

\* advertisePrefixesImpl: batch is a set of [p, t, e].
Changed(d, batch) ==
  {x \in batch : d.map[x.p, x.t] = PmNoEntry \/ ~SameEntry(d.map[x.p, x.t], x.e)}
advertisePrefixesImpl_NewOnly(d, batch) ==
  LET changed == Changed(d, batch)
      new == {x \in changed : d.map[x.p, x.t] = PmNoEntry}
  IN [d EXCEPT !.map = [k \in DOMAIN @ |->
                          IF \E x \in changed : <<x.p, x.t>> = k
                          THEN (CHOOSE x \in changed : <<x.p, x.t>> = k).e ELSE @[k]],
               !.pending = @ \cup {x.p : x \in new},
               !.throttle = @ \/ new # {}]
advertisePrefixesImpl(d, batch) ==
  LET changed == Changed(d, batch)
  IN [d EXCEPT !.map = [k \in DOMAIN @ |->
                          IF \E x \in changed : <<x.p, x.t>> = k
                          THEN (CHOOSE x \in changed : <<x.p, x.t>> = k).e ELSE @[k]],
               !.pending = @ \cup {x.p : x \in changed},
               !.throttle = @ \/ changed # {}]

\* withdrawPrefixesImpl, withdrawPrefixEntriesImpl: keys is a set of <<p, t>>.
withdrawPrefixesImpl(d, keys) ==
  LET gone == {k \in keys : d.map[k] # PmNoEntry}
  IN [d EXCEPT !.map = [k \in DOMAIN @ |-> IF k \in gone THEN PmNoEntry ELSE @[k]],
               !.policed = @ \ keys,
               !.pending = @ \cup {k[1] : k \in gone},
               !.throttle = @ \/ gone # {}]

\* applyOriginationPolicy: entries that came with a policy are remembered as they
\* were before it; the policy itself accepts them as they are.
applyOriginationPolicy(d, batch) ==
  [d EXCEPT !.policed = @ \cup {<<x.p, x.t>> : x \in {y \in batch : y.policy}}]

getPrefixes(d) == {k \in DOMAIN d.map : d.map[k] # PmNoEntry}
OfType(d, t) == {k \in getPrefixes(d) : k[2] = t}

withdrawPrefixesByTypeImpl(d, t) == withdrawPrefixesImpl(d, OfType(d, t))

syncPrefixesByTypeImpl(d, t, batch) ==
  withdrawPrefixesImpl(advertisePrefixesImpl(applyOriginationPolicy(d, batch), batch),
                       OfType(d, t) \ {<<x.p, x.t>> : x \in batch})

--------------------------------------------------------------------------------
\* Aggregates

\* buildOriginatedPrefixes: the entry of an aggregate, a drop route if installed.
AggregateEntry(c) ==
  [cost |-> 0, stack |-> {}, dst |-> PmAreas, preferred |-> FALSE,
   nh |-> IF PmOriginated[c].install THEN "drop" ELSE "none"]

Supported(d, c) == Cardinality(d.supports[c]) >= PmOriginated[c].min

\* Aggregates gain and lose support; one that never was announced gives up the
\* static route sent at start-up.
processOriginatedPrefixes(d) ==
  LET start == {c \in PmAggregates : c \notin d.advertised /\ Supported(d, c)}
      stop == {c \in d.advertised : ~Supported(d, c)}
      never == {c \in PmAggregates \ d.advertised : ~Supported(d, c) /\ d.status[c].route # PmNoRoute}
      e == [d EXCEPT !.advertised = (@ \cup start) \ stop,
                     !.status = [p \in PmPrefixes |->
                                   IF p \in never THEN [@[p] EXCEPT !.route = PmNoRoute] ELSE @[p]],
                     !.static = [p \in PmPrefixes |-> IF p \in never THEN PmNoRoute ELSE @[p]]]
      f == advertisePrefixesImpl(e, {[p |-> c, t |-> "CONFIG", e |-> AggregateEntry(c)] : c \in start})
  IN withdrawPrefixesImpl(f, stop \X {"CONFIG"})

--------------------------------------------------------------------------------
\* Fib's reports: upd is a set of [p, route], del a set of prefixes

storeProgrammedRoutes(d, full, upd, del) ==
  LET base == IF full THEN {} ELSE d.programmed
      added == {x.p : x \in upd}
  IN [d EXCEPT !.programmed = (base \cup added) \ del,
               !.pending = @ \cup (d.programmed \ base) \cup (added \ base)
                             \cup (del \cap (base \cup added)),
               !.throttle = TRUE]

\* The entry announced for a programmed route: it went through one more area and
\* one more hop, and is not sent to the areas of its next hops.
Redistributed(route) ==
  [cost |-> route.cost + 1, stack |-> route.stack \cup route.bestArea,
   dst |-> PmAreas \ route.hopAreas, nh |-> "none", preferred |-> route.considered]

\* aggregatesToAdvertise, aggregatesToWithdraw
WithSupport(d, added, gone) ==
  [d EXCEPT !.rib = (@ \cup added) \ gone,
            !.supports = [c \in PmAggregates |->
                            (@[c] \cup (((added \ d.rib) \cap PmCovers[c]))) \ (gone \cap (d.rib \cup added))]]

redistributePrefixesAcrossAreas(d, upd, del) ==
  LET foreign == {x \in upd : ~(x.route.type = "CONFIG" /\ x.p \in PmAggregates)}
      gone == del \ PmAggregates
      e == processOriginatedPrefixes(WithSupport(d, {x.p : x \in foreign}, gone))
      batch == {[p |-> x.p, t |-> "RIB", e |-> Redistributed(x.route)] : x \in foreign}
  IN IF Cardinality(PmAreas) > 1
       THEN withdrawPrefixesImpl(advertisePrefixesImpl(e, batch), gone \X {"RIB"})
       ELSE e

processFibRouteUpdates(d, full, upd, del) ==
  LET e == redistributePrefixesAcrossAreas(storeProgrammedRoutes(d, full, upd, del), upd, del)
  IN IF full /\ "RIB" \in e.uninit
       THEN triggerInitialPrefixDbSync([e EXCEPT !.uninit = @ \ {"RIB"}])
       ELSE e

--------------------------------------------------------------------------------
\* Steps

\* The first fiber: aggregates to install are sent to Decision at once.
Built == "CONFIG" \notin pm.uninit
BuildOriginatedPrefixes ==
  /\ ~Built
  /\ LET installed == {c \in PmAggregates : PmOriginated[c].install}
         route(c) == StaticRoute("CONFIG", AggregateEntry(c))
     IN pm' = triggerInitialPrefixDbSync(
          [pm EXCEPT !.status = [p \in PmPrefixes |->
                                   IF p \in installed THEN [@[p] EXCEPT !.known = TRUE, !.route = route(p)] ELSE @[p]],
                     !.static = [p \in PmPrefixes |-> IF p \in installed THEN route(p) ELSE @[p]],
                     !.uninit = @ \ {"CONFIG"}])
  /\ UNCHANGED <<pmScene, pmFibSynced>>

\* ADD_PREFIXES, WITHDRAW_PREFIXES, WITHDRAW_PREFIXES_BY_TYPE and
\* SYNC_PREFIXES_BY_TYPE, from the queue or the API.
AdvertisePrefixes(x) ==
  /\ Built
  /\ pm' = advertisePrefixesImpl(applyOriginationPolicy(pm, {x}), {x})
  /\ UNCHANGED <<pmScene, pmFibSynced>>

WithdrawPrefixes(x) ==
  /\ Built
  /\ pm' = withdrawPrefixesImpl(pm, {<<x.p, x.t>>})
  /\ UNCHANGED <<pmScene, pmFibSynced>>

WithdrawPrefixesByType(t) ==
  /\ Built
  /\ pm' = withdrawPrefixesByTypeImpl(pm, t)
  /\ UNCHANGED <<pmScene, pmFibSynced>>

SyncPrefixesByType(t, batch) ==
  /\ Built
  /\ pm' = syncPrefixesByTypeImpl(pm, t, batch)
  /\ UNCHANGED <<pmScene, pmFibSynced>>

\* A key of this node is published by KvStore.  It is noted as advertised unless
\* something is already known of the prefix, and checked by the next round.
ProcessPublication(p, a) ==
  /\ <<p, a>> \in pm.pubs
  /\ pm' = IF pm.status[p].known THEN [pm EXCEPT !.pubs = @ \ {<<p, a>>}]
           ELSE [pm EXCEPT !.pubs = @ \ {<<p, a>>},
                           !.status[p].known = TRUE, !.status[p].areas = {a},
                           !.pending = @ \cup {p}, !.throttle = TRUE]
  /\ UNCHANGED <<pmScene, pmFibSynced>>

\* syncKvStoreThrottled_ fires: it waits for the first entries of every type.
SyncNow(d) == IF d.uninit = {} THEN syncKvStore(d) ELSE d
SyncKvStoreThrottled ==
  /\ pm.throttle
  /\ pm' = SyncNow([pm EXCEPT !.throttle = FALSE])
  /\ UNCHANGED <<pmScene, pmFibSynced>>

\* What Fib may program for a prefix: a route of another node, or the static one.
FibRoutes(p) ==
  pmScene.learned[p] \cup
  (IF pm.static[p] = PmNoRoute THEN {}
   ELSE {[type |-> pm.static[p].type, cost |-> pm.static[p].cost, stack |-> {},
          bestArea |-> {}, hopAreas |-> {}, considered |-> FALSE]})

\* Fib's first sync; Decision computed it after KvStore published what it had.
FibFullSync ==
  /\ Built /\ ~pmFibSynced
  /\ pm.pubs = {}
  /\ \E ps \in SUBSET PmPrefixes : \E f \in [ps -> UNION {FibRoutes(p) : p \in ps}] :
       /\ \A p \in ps : f[p] \in FibRoutes(p)
       /\ pm' = processFibRouteUpdates(pm, TRUE, {[p |-> p, route |-> f[p]] : p \in ps}, {})
  /\ pmFibSynced' = TRUE
  /\ UNCHANGED pmScene

FibUpdate(p) ==
  /\ pmFibSynced
  /\ \E route \in FibRoutes(p) :
       pm' = processFibRouteUpdates(pm, FALSE, {[p |-> p, route |-> route]}, {})
  /\ UNCHANGED <<pmScene, pmFibSynced>>

\* The route is gone, or Fib failed to program a change of it.
FibDelete(p) ==
  /\ pmFibSynced /\ p \in pm.programmed
  /\ pm' = processFibRouteUpdates(pm, FALSE, {}, {p})
  /\ UNCHANGED <<pmScene, pmFibSynced>>

PrefixManagerNext ==
  \/ BuildOriginatedPrefixes
  \/ \E x \in pmScene.events : AdvertisePrefixes(x) \/ WithdrawPrefixes(x)
  \/ \E x \in pmScene.events : SyncPrefixesByType(x.t, {x})
  \/ \E t \in {x.t : x \in pmScene.events} : WithdrawPrefixesByType(t)
  \/ \E p \in PmPrefixes, a \in PmAreas : ProcessPublication(p, a)
  \/ SyncKvStoreThrottled
  \/ FibFullSync
  \/ \E p \in PmPrefixes : FibUpdate(p) \/ FibDelete(p)

PrefixManagerSpec == PrefixManagerInit /\ [][PrefixManagerNext]_PrefixManagerVars

--------------------------------------------------------------------------------
\* What the API reports

\* getAreaAdvertisedRoutes, for one prefix: the areas of its best entry.
filterAndAddAreaRoute(d, p) ==
  IF PmPresent(d, p) = {} THEN {} ELSE d.map[p, getBestPrefixEntry(d, p)].dst

co_getPublishedStaticRoutes(d) == [p \in PmPrefixes |-> d.status[p].route]

getAdvertisedRoutesWithOriginationPolicy(d) == d.policed

getOriginatedPrefixes(d) == {c \in PmAggregates : Supported(d, c)}

--------------------------------------------------------------------------------
\* Properties

PmInitialized == pm.uninit = {}
PmAreasOf(p, keys) == {a \in PmAreas : <<p, a>> \in keys}

\* The state of PrefixManager is well formed, and it reports the end of its
\* initialization once, when the last awaited type arrived.
PrefixManagerTypeOK ==
  /\ pm.pending \subseteq PmPrefixes /\ pm.programmed \subseteq PmPrefixes /\ pm.rib \subseteq PmPrefixes
  /\ pm.keys \subseteq PmPrefixes \X PmAreas /\ pm.pubs \subseteq PmPrefixes \X PmAreas
  /\ \A p \in PmPrefixes : pm.status[p].areas \subseteq PmAreas
  /\ pm.uninit \subseteq {"RIB", "CONFIG"}
  /\ pm.synced = IF PmInitialized THEN 1 ELSE 0

\* Every key this node has in KvStore is one PrefixManager can find again when it
\* withdraws the prefix (advertiseStatus_), or one whose publication is still on
\* its way: whatever is announced, re-announced into other areas, withdrawn and
\* left over from before a restart.
NoOrphanKey ==
  \A p \in PmPrefixes : PmAreasOf(p, pm.keys \ pm.pubs) \subseteq pm.status[p].areas

\* The static routes PrefixManager believes it published (publishedRoute) are the
\* net effect of all updates it sent to Decision.
StaticIsNetEffect == pm.static = co_getPublishedStaticRoutes(pm)

\* A prefix whose announced entry needs a route is announced only while Fib has
\* the route, except until the change is written.
AnnouncedIsProgrammed ==
  \A p \in PmPrefixes :
    (PmInitialized /\ p \notin pm.pending /\ pm.status[p].areas # {} /\ pm.status[p].best.nh # "none")
      => p \in pm.programmed

\* Once the first entries of all types are there, a change that is not written
\* yet has a scheduled task that will write it (pendingUpdates_ and the throttle).
ChangesAreScheduled == PmInitialized /\ pm.pending # {} => pm.throttle

\* A prefix with no change pending is settled: withdrawn everywhere when no entry
\* is left, and otherwise, if its best entry may be announced, in KvStore with
\* that entry, in the areas the API reports but for those it came from, and with
\* the static route the entry asks for.
SettledKeys ==
  \A p \in PmPrefixes :
    PmInitialized /\ p \notin pm.pending =>
      IF PmPresent(pm, p) = {}
        THEN PmAreasOf(p, pm.keys \ pm.pubs) = {} /\ pm.static[p] = PmNoRoute
        ELSE LET t == getBestPrefixEntry(pm, p)
                 e == pm.map[p, t]
             IN prefixEntryReadyToBeAdvertised(pm, p, e) =>
                  /\ PmAreasOf(p, pm.keys) = filterAndAddAreaRoute(pm, p) \ e.stack
                  /\ SameEntry(pm.status[p].best, e)
                  /\ pm.static[p].nh = e.nh

\* An aggregate is announced exactly while enough routes inside it are
\* programmed, as reported by Fib (supportingRoutes, isAdvertised).
AggregatesFollowSupport ==
  \A c \in PmAggregates :
    /\ pm.supports[c] = (pm.programmed \ PmAggregates) \cap PmCovers[c]
    /\ pmFibSynced => ((c \in getOriginatedPrefixes(pm)) <=> pm.map[c, "CONFIG"] # PmNoEntry)

\* Nothing is written to KvStore and nothing withdrawn from it before the first
\* entries of every awaited type arrived: keys of the previous incarnation live on.
KeysWaitForInitialization == ~PmInitialized => pm.keys = pmScene.oldKeys

\* The pre-policy entries kept for the API are those of entries still announced.
PolicedIsAnnounced == getAdvertisedRoutesWithOriginationPolicy(pm) \subseteq getPrefixes(pm)

\* PrefixManager between two callbacks: what is in KvStore, what is told to Decision and what
\* the API answers follow the entries and the programmed routes, or a task that makes them
\* follow is scheduled (syncKvStore, PrefixManager.cpp).
PrefixManagerInvariant ==
  /\ PrefixManagerTypeOK
  /\ NoOrphanKey
  /\ StaticIsNetEffect
  /\ AnnouncedIsProgrammed
  /\ ChangesAreScheduled
  /\ SettledKeys
  /\ AggregatesFollowSupport
  /\ KeysWaitForInitialization
  /\ PolicedIsAnnounced

================================================================================
