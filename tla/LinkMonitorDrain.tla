---------------------------- MODULE LinkMonitorDrain ----------------------------
(***************************************************************************)
(* The adjacency databases LinkMonitor advertises and the drain state they *)
(* are built from (openr/link-monitor/LinkMonitor.cpp: the constructor, the *)
(* neighbour events, advertiseAdjacencies, buildAdjacencyDatabase and the  *)
(* semifuture_set... commands).                                            *)
(*                                                                         *)
(* The handlers run in one thread and are operators on a record, m:        *)
(*   state     LinkMonitorState: overload bits, metric increments and      *)
(*             overrides (an override of 0 is none; a key without entry)   *)
(*   adjs      adjacencies_: its metric and whether only others may use it *)
(*   known     the names in interfaces_                                    *)
(*   hold      adjHoldTimer_ is scheduled                                  *)
(*   throttle  areas whose throttled advertisement is scheduled            *)
(*   db        what was last persisted in KvStore, by area                 *)
(*   sent      the state last handed to PersistentStore, none after a start*)
(* Peers are in LinkMonitorPeers; link status records, perf events and     *)
(* counters are left out.                                                  *)
(***************************************************************************)
EXTENDS Integers, FiniteSetsExt

CONSTANTS DrAreas, DrIfs,
          DrAdjs,            \* records [area, node, iface]
          DrMetrics,         \* metrics Spark's round-trip times lead to
          DrIncrements,      \* increments and overrides the operator sets
          DrScenes,          \* a configuration, the commands used, and how many neighbour
                             \* events and restarts there are
          NoDb, NoState,
          MaxCommands

VARIABLES drMon, drScene, drSaved, drHist

drVars == <<drMon, drScene, drSaved, drHist>>
drConfig == drScene.config

(* A configuration: soft-drain, assume_drained, the drainer's flag file ("unused", "undrained", *)
(* "drained"), the increment of a soft drain, use_rtt_metric, enable_init_optimization, and the *)
(* static and the maximal metric by interface, 0 for none. *)
DrConfig == [soft : BOOLEAN, assumeDrained : BOOLEAN, flag : {"unused", "undrained", "drained"},
             nodeInc : Nat, useRtt : BOOLEAN, initOptimization : BOOLEAN,
             static : [DrIfs -> Nat], max : [DrIfs -> Nat]]

ASSUME SceneAssumption == \A scene \in DrScenes : scene.config \in DrConfig

AdjKeys == {[node |-> a.node, iface |-> a.iface] : a \in DrAdjs}
KeyOf(a) == [node |-> a.node, iface |-> a.iface]
NotUp == [metric |-> 0, other |-> FALSE]

NewState == [overloaded |-> FALSE, nodeInc |-> 0, overloadedLinks |-> {},
             linkInc |-> [i \in DrIfs |-> 0], linkOverride |-> [i \in DrIfs |-> 0],
             adjOverride |-> [k \in AdjKeys |-> 0]]

(* getMetric: a static metric, else the one derived from the round-trip time, else 1. *)
getMetric(c, i, rttMetric) ==
  IF c.static[i] # 0 THEN c.static[i] ELSE IF c.useRtt THEN rttMetric ELSE 1

(* The final metric: base or link override, plus the increments, unless overridden for the *)
(* adjacency, and never above the maximum of the interface. *)
finalMetric(c, st, a, base) ==
  LET i == a.iface
      link == IF st.linkOverride[i] # 0 THEN st.linkOverride[i] ELSE base
      sum == link + st.nodeInc + st.linkInc[i]
      metric == IF st.adjOverride[KeyOf(a)] # 0 THEN st.adjOverride[KeyOf(a)] ELSE sum
  IN IF c.max[i] # 0 THEN Min({metric, c.max[i]}) ELSE metric

buildAdjacencyDatabase(c, m, area) ==
  [overloaded |-> m.state.overloaded,
   nodeInc |-> m.state.nodeInc,
   adjs |-> {[adj |-> a, metric |-> finalMetric(c, m.state, a, m.adjs[a].metric),
              overloaded |-> a.iface \in m.state.overloadedLinks,
              linkInc |-> m.state.linkInc[a.iface], other |-> m.adjs[a].other]
             : a \in {a \in DrAdjs : a.area = area /\ m.adjs[a] # NotUp}}]

advertiseAdjacencies(c, m, area) ==
  IF m.hold THEN m
  ELSE [m EXCEPT !.throttle = @ \ {area},
                 !.db[area] = buildAdjacencyDatabase(c, m, area),
                 !.sent = m.state]
advertiseAll(c, m) == FoldSet(LAMBDA a, t : advertiseAdjacencies(c, t, a), m, DrAreas)
scheduleAdvertise(m, areas) == [m EXCEPT !.throttle = @ \cup areas]

--------------------------------------------------------------------------------
(* The constructor: the state of the previous incarnation, or a guess when it cannot be read, *)
(* and the drainer's flag file above both. *)
Undrained(st) == [st EXCEPT !.overloaded = FALSE, !.nodeInc = 0]
StartDrained(c, st) ==
  IF c.soft THEN [st EXCEPT !.overloaded = FALSE, !.nodeInc = c.nodeInc]
  ELSE [st EXCEPT !.overloaded = TRUE, !.nodeInc = 0]
loadState_NotSaved(c, saved) ==
  IF c.assumeDrained THEN StartDrained(c, NewState) ELSE Undrained(NewState)
loadState(c, saved) ==
  LET st == IF saved # NoState THEN saved
            ELSE IF c.assumeDrained THEN StartDrained(c, NewState) ELSE Undrained(NewState)
  IN CASE c.flag = "unused" -> st
       [] c.flag = "undrained" -> Undrained(st)
       [] c.flag = "drained" -> StartDrained(c, st)

Started(c, saved, db) ==
  [state |-> loadState(c, saved), adjs |-> [a \in DrAdjs |-> NotUp], known |-> {},
   hold |-> TRUE, throttle |-> {}, db |-> db, sent |-> NoState]

DrainInit ==
  /\ drScene \in DrScenes
  /\ drSaved = NoState
  /\ drMon = Started(drConfig, NoState, [a \in DrAreas |-> NoDb])
  /\ drHist = [promised |-> FALSE, commands |-> 0, events |-> 0, restarts |-> 0]

(* Handlers that may bring the node back into service end the promise that it stays drained. *)
Step(m, promised) == drMon' = m /\ drHist' = [drHist EXCEPT !.promised = promised]

(* Neighbour events from Spark. *)
NeighborStep(m) ==
  /\ drHist.events < drScene.events
  /\ drMon' = m
  /\ drHist' = [drHist EXCEPT !.events = @ + 1]
  /\ UNCHANGED <<drScene, drSaved>>

LearnInterface(i) ==
  /\ i \notin drMon.known
  /\ Step([drMon EXCEPT !.known = @ \cup {i}], drHist.promised)
  /\ UNCHANGED <<drScene, drSaved>>

NeighborUpEvent(a, isGracefulRestart) ==
  \E rtt \in DrMetrics, other \in BOOLEAN :
    NeighborStep(scheduleAdvertise(
      [drMon EXCEPT !.adjs[a] = [metric |-> getMetric(drConfig, a.iface, rtt),
                                 other |-> ~isGracefulRestart /\ other]], {a.area}))

NeighborAdjSyncedEvent(a) ==
  /\ drMon.adjs[a] # NotUp
  /\ NeighborStep(advertiseAdjacencies(drConfig, [drMon EXCEPT !.adjs[a].other = FALSE], a.area))

NeighborDownEvent(a) ==
  /\ drMon.adjs[a] # NotUp
  /\ NeighborStep(advertiseAdjacencies(drConfig, [drMon EXCEPT !.adjs[a] = NotUp], a.area))

(* A change of the round-trip time is ignored with hop counts or with a static metric. *)
rttChange_Unscheduled(m, a, rtt) == [m EXCEPT !.adjs[a].metric = rtt]
rttChange(m, a, rtt) == scheduleAdvertise([m EXCEPT !.adjs[a].metric = rtt], {a.area})
NeighborRttChangeEvent(a) ==
  /\ drMon.adjs[a] # NotUp
  /\ drConfig.useRtt /\ drConfig.static[a.iface] = 0
  /\ \E rtt \in DrMetrics : NeighborStep(rttChange(drMon, a, rtt))

(* The hold timer, or KVSTORE_SYNCED with init optimization, starts the advertisement. *)
AdjHoldTimerExpires ==
  /\ drMon.hold
  /\ Step(advertiseAll(drConfig, [drMon EXCEPT !.hold = FALSE]), drHist.promised)
  /\ UNCHANGED <<drScene, drSaved>>
KvStoreSynced == drConfig.initOptimization /\ AdjHoldTimerExpires

ThrottleExpires(area) ==
  /\ area \in drMon.throttle
  /\ Step(advertiseAdjacencies(drConfig, [drMon EXCEPT !.throttle = @ \ {area}], area), drHist.promised)
  /\ UNCHANGED <<drScene, drSaved>>

--------------------------------------------------------------------------------
(* Commands of the operator.  One that asks for what is already set, or names an unknown *)
(* interface or adjacency, is answered and changes nothing. *)
CommandStep(cmd, m, promised) ==
  /\ cmd \in drScene.commands /\ drHist.commands < MaxCommands
  /\ m # drMon
  /\ drMon' = m
  /\ drHist' = [drHist EXCEPT !.commands = @ + 1, !.promised = promised]
  /\ UNCHANGED <<drScene, drSaved>>

AfterCommand(m, st) == scheduleAdvertise([m EXCEPT !.state = st], DrAreas)

SetNodeOverload(isOverloaded) ==
  /\ drMon.state.overloaded # isOverloaded
  /\ CommandStep("overload", advertiseAll(drConfig, [drMon EXCEPT !.state.overloaded = isOverloaded]),
                 drHist.promised /\ isOverloaded)

SetInterfaceOverload(i, isOverloaded) ==
  /\ i \in drMon.known
  /\ isOverloaded # (i \in drMon.state.overloadedLinks)
  /\ CommandStep("linkOverload", AfterCommand(drMon, [drMon.state EXCEPT !.overloadedLinks =
                                   IF isOverloaded THEN @ \cup {i} ELSE @ \ {i}]), drHist.promised)

SetLinkMetric(i, metric) ==
  /\ i \in drMon.known
  /\ drMon.state.linkOverride[i] # metric
  /\ CommandStep("linkMetric", AfterCommand(drMon, [drMon.state EXCEPT !.linkOverride[i] = metric]), drHist.promised)

SetAdjacencyMetric(k, metric) ==
  /\ \E a \in DrAdjs : KeyOf(a) = k /\ drMon.adjs[a] # NotUp
  /\ drMon.state.adjOverride[k] # metric
  /\ CommandStep("adjMetric", AfterCommand(drMon, [drMon.state EXCEPT !.adjOverride[k] = metric]), drHist.promised)

SetNodeInterfaceMetricIncrement(v) ==
  /\ v > 0 /\ v # drMon.state.nodeInc
  /\ CommandStep("nodeInc", AfterCommand(drMon, [drMon.state EXCEPT !.nodeInc = v]), drHist.promised)

UnsetNodeInterfaceMetricIncrement ==
  /\ drMon.state.nodeInc # 0
  /\ CommandStep("nodeInc", AfterCommand(drMon, [drMon.state EXCEPT !.nodeInc = 0]), FALSE)

(* For several interfaces: all of them known, or nothing is done; 0 removes the increment. *)
setInterfaceMetricIncrementHelper(m, is, v) ==
  IF \E i \in is : m.state.linkInc[i] # v
  THEN AfterCommand(m, [m.state EXCEPT !.linkInc = [i \in DrIfs |-> IF i \in is THEN v ELSE @[i]]])
  ELSE m
SetInterfaceMetricIncrementMulti(is, v) ==
  /\ is \subseteq drMon.known
  /\ v >= 0
  /\ CommandStep("multi", setInterfaceMetricIncrementHelper(drMon, is, v), drHist.promised)
SetInterfaceMetricIncrement(i, v) ==
  /\ v > 0
  /\ i \in drMon.known
  /\ drMon.state.linkInc[i] # v
  /\ CommandStep("linkInc", AfterCommand(drMon, [drMon.state EXCEPT !.linkInc[i] = v]), drHist.promised)
UnsetInterfaceMetricIncrement(i) ==
  /\ i \in drMon.known
  /\ drMon.state.linkInc[i] # 0
  /\ CommandStep("linkInc", AfterCommand(drMon, [drMon.state EXCEPT !.linkInc[i] = 0]), drHist.promised)

(* PersistentStore writes the state it was handed; from then on a drain outlives the process. *)
StoreWrites ==
  /\ drMon.sent \notin {NoState, drSaved}
  /\ drSaved' = drMon.sent
  /\ Step(drMon, drConfig.flag = "unused" /\ drMon.sent.overloaded /\ drMon.state.overloaded)
  /\ UNCHANGED drScene

(* The process ends and starts again; the stored state may turn out to be unreadable. *)
RestartMonitor ==
  /\ drHist.restarts < drScene.restarts
  /\ \E saved \in {drSaved, NoState} :
       /\ drMon' = Started(drConfig, saved, drMon.db)
       /\ drSaved' = saved
       /\ drHist' = [drHist EXCEPT !.restarts = @ + 1, !.events = 0, !.promised = @ /\ saved # NoState]
  /\ UNCHANGED drScene

DrainNext ==
  \/ \E i \in DrIfs :
       \/ LearnInterface(i)
       \/ UnsetInterfaceMetricIncrement(i)
       \/ \E v \in DrIncrements : SetInterfaceMetricIncrement(i, v)
       \/ \E v \in DrIncrements \cup {0} : SetLinkMetric(i, v)
       \/ \E b \in BOOLEAN : SetInterfaceOverload(i, b)
  \/ \E is \in SUBSET DrIfs, v \in DrIncrements \cup {0} : SetInterfaceMetricIncrementMulti(is, v)
  \/ \E k \in AdjKeys, v \in DrIncrements \cup {0} : SetAdjacencyMetric(k, v)
  \/ \E b \in BOOLEAN : SetNodeOverload(b)
  \/ \E v \in DrIncrements : SetNodeInterfaceMetricIncrement(v)
  \/ UnsetNodeInterfaceMetricIncrement
  \/ \E a \in DrAdjs :
       \/ \E gr \in BOOLEAN : NeighborUpEvent(a, gr)
       \/ NeighborAdjSyncedEvent(a) \/ NeighborDownEvent(a) \/ NeighborRttChangeEvent(a)
  \/ AdjHoldTimerExpires \/ KvStoreSynced
  \/ \E area \in DrAreas : ThrottleExpires(area)
  \/ StoreWrites \/ RestartMonitor

DrainSpec == DrainInit /\ [][DrainNext]_drVars

--------------------------------------------------------------------------------
(* Types; a metric is never zero and never above the maximum of its interface. *)
DrainTypeOK ==
  /\ drMon.throttle \subseteq DrAreas
  /\ drMon.known \subseteq DrIfs
  /\ \A area \in DrAreas : drMon.db[area] # NoDb =>
       \A d \in drMon.db[area].adjs :
         /\ d.metric > 0
         /\ drConfig.max[d.adj.iface] # 0 => d.metric <= drConfig.max[d.adj.iface]

(* The database other nodes compute with is the one buildAdjacencyDatabase would give now, *)
(* unless its advertisement is held back or scheduled; no drain, metric or neighbour is forgotten. *)
DatabaseFollowsState ==
  \A area \in DrAreas :
    drMon.hold \/ area \in drMon.throttle \/ drMon.db[area] = buildAdjacencyDatabase(drConfig, drMon, area)

(* A command that was answered is stored, or will be: the state handed to PersistentStore is the *)
(* current one unless an advertisement, which hands it over, is pending. *)
StateIsStoredOrPending ==
  drMon.hold \/ drMon.throttle # {} \/ drMon.sent = drMon.state

(* A drain outlives the process: once an overload bit was written and until it is taken back, the *)
(* file is lost or a flag file overrides it, no database is advertised without it, restarts included. *)
DrainSurvivesRestart ==
  [][drHist.promised /\ drHist'.promised =>
       \A area \in DrAreas : drMon'.db[area] # drMon.db[area] => drMon'.db[area].overloaded]_drVars

(* LinkMonitor's drain state between two events: the database and the stored state follow it, *)
(* or are about to (advertiseAdjacencies, buildAdjacencyDatabase).                            *)
DrainInvariant ==
  /\ DrainTypeOK
  /\ DatabaseFollowsState
  /\ StateIsStoredOrPending

================================================================================
