------------------------------ MODULE MCServices -------------------------------
(***************************************************************************)
(* What the other modules rest on: the order of merges and the flood       *)
(* budget of KvStore, the queues between modules, PrefixManager and the    *)
(* configuration store.  `part` says which a behaviour is about; the       *)
(* others stay as they start.                                              *)
(***************************************************************************)
EXTENDS PrefixManager, PersistentStore, KvStoreFlood, KvStoreReplicas, RouteStream,
        SuppressionQueue, ReplicateQueue

-----------------------------------------------------------------------------
\* An aggregate c over b and r, a prefix b a plugin announces with and without next hops
\* and another node announces too, a prefix r of another node; two areas.
MCOriginated == [c |-> [install |-> TRUE, min |-> 1]]
MCCovers == [c |-> {"b", "c", "r"}]

PmEntry(cost, dst, nh) == [cost |-> cost, stack |-> {}, dst |-> dst, nh |-> nh, preferred |-> FALSE]
Event(p, e, policy) == [p |-> p, t |-> "BGP", e |-> e, policy |-> policy]
Route(cost, stack, area, considered) ==
  [type |-> "BGP", cost |-> cost, stack |-> stack, bestArea |-> {area}, hopAreas |-> {area},
   considered |-> considered]
NothingLearned == [p \in PmPrefixes |-> {}]

\* A plugin's prefix that another node announces too; an aggregate and the route
\* inside it; keys left from before a restart, in one area or in both.
Plugin(keys) ==
  [events |-> {Event("b", PmEntry(0, {1, 2}, "via"), FALSE), Event("b", PmEntry(2, {1}, "none"), TRUE)},
   learned |-> [NothingLearned EXCEPT !["b"] = {Route(0, {}, 2, TRUE)}],
   oldKeys |-> keys]
Aggregate(keys) ==
  [events |-> {Event("r", PmEntry(2, {1}, "none"), FALSE)},
   learned |-> [NothingLearned EXCEPT !["r"] = {Route(0, {}, 1, FALSE), Route(1, {1}, 2, FALSE)}],
   oldKeys |-> keys]
MCScenes == {Plugin({}), Plugin({<<"b", 2>>}), Aggregate({}), Aggregate({<<"r", 1>>})}
-----------------------------------------------------------------------------
\* PersistentStore: with and without a flush period, in dry runs, and with torn writes.
Periodic == [periodic |-> TRUE, dryrun |-> FALSE, faults |-> {"rewrite"}]
MCStoreScenes ==
  {Periodic, [Periodic EXCEPT !.periodic = FALSE], [Periodic EXCEPT !.dryrun = TRUE],
   [Periodic EXCEPT !.faults = {"torn"}]}
-----------------------------------------------------------------------------
(* Two peers of the fabric with a failing call, the same with a lost        *)
(* completion, and an external peer beside one of the fabric.               *)
CONSTANTS k1, k2, q1, q2

FloodScene(external, fabric, drain, budget, updates, expiries, failures, losses) ==
  [external |-> external, fabric |-> fabric, drain |-> drain, budget |-> budget,
   updates |-> updates, expiries |-> expiries, failures |-> failures, losses |-> losses]
MCFloodScenes ==
  {FloodScene({}, {}, {}, 1, 3, 0, 1, 0), FloodScene({}, {}, {}, 1, 3, 1, 0, 1),
   FloodScene({q2}, {k1}, {}, 2, 4, 0, 0, 1)}
-----------------------------------------------------------------------------
CONSTANTS MaxVersion, Originators, Values, MaxTtlVersion

(* Every value-carrying entry over the small sets, with an infinite ttl; later versions *)
(* have one author and one value.                                                       *)
MCWritable ==
  {e \in [version : 1..MaxVersion, originatorId : Originators, value : Values, hasValue : {TRUE},
          ttlVersion : 0..MaxTtlVersion, ttl : {TtlInfinity}] :
     e.version > 1 => e.originatorId = 1 /\ e.value = 1}
-----------------------------------------------------------------------------
\* Two keys, changed one at a time or replaced as a whole table.
Upd(type, p, q, types) == [type |-> type, routes |-> [p |-> p, q |-> q], types |-> types]
MCOffers ==
  {Upd("INCREMENTAL", p, "keep", {}) : p \in {"r1", "r2", "delete"}}
  \cup {Upd("INCREMENTAL", "keep", q, {"CONFIG"}) : q \in {"r1", "delete"}}
  \cup {Upd("FULL_SYNC", p, q, {}) : p \in {"r1", "keep"}, q \in {"r1", "keep"}}
MCSnapshots == {[table |-> [p |-> "r1", q |-> "none"], types |-> {}, synced |-> FALSE]}
-----------------------------------------------------------------------------
\* Two areas, one with two keys; two request keys; two prefixes.
MCAreaKeys == [a |-> {"k", "l"}, b |-> {"k"}]
QScene(source, suppress, filter, threshold, max) ==
  [source |-> source, suppress |-> suppress, filter |-> filter, threshold |-> threshold, max |-> max]
MCQueueScenes ==
  {QScene("publications", TRUE, {}, 0, 4), QScene("publications", TRUE, {"k"}, 0, 3),
   QScene("requests", TRUE, {}, 1, 3), QScene("requests", FALSE, {}, 0, 2),
   QScene("prefixes", TRUE, {}, 0, 3)}
-----------------------------------------------------------------------------
VARIABLE part

kvStoreVars == <<fdVars, vars>>
queueVars == <<rsVars, sqVars, rqVars>>
servicesVars == <<PrefixManagerVars, psVars, kvStoreVars, queueVars, part>>

SomeScene(scenes) == CHOOSE s \in scenes : TRUE

ServicesInit ==
  /\ part \in {"prefixes", "config", "flood", "merge", "routes", "queue", "replicate"}
  /\ PrefixManagerInit /\ (part # "prefixes" => pmScene = SomeScene(PmScenes))
  /\ StoreInit /\ (part # "config" => psScene = SomeScene(StoreScenes))
  /\ FloodInit /\ (part # "flood" => fdScene = SomeScene(FloodScenes))
  /\ Init
  /\ RouteStreamInit /\ (part # "routes" => rsReader = "fifo")
  /\ QueueInit /\ (part # "queue" => sqScene = SomeScene(QueueScenes))
  /\ ReplicateInit

ServicesNext ==
  \/ part = "prefixes" /\ PrefixManagerNext /\ UNCHANGED <<psVars, kvStoreVars, queueVars, part>>
  \/ part = "config" /\ StoreNext /\ UNCHANGED <<PrefixManagerVars, kvStoreVars, queueVars, part>>
  \/ part = "flood" /\ FloodNext /\ UNCHANGED <<PrefixManagerVars, psVars, vars, queueVars, part>>
  \/ part = "merge" /\ Next /\ UNCHANGED <<PrefixManagerVars, psVars, fdVars, queueVars, part>>
  \/ /\ \/ part = "routes" /\ RouteStreamNext /\ UNCHANGED <<sqVars, rqVars>>
        \/ part = "queue" /\ QueueNext /\ UNCHANGED <<rsVars, rqVars>>
        \/ part = "replicate" /\ ReplicateNext /\ UNCHANGED <<rsVars, sqVars>>
     /\ UNCHANGED <<PrefixManagerVars, psVars, kvStoreVars, part>>

ServicesSpec == ServicesInit /\ [][ServicesNext]_servicesVars
================================================================================
