------------------------------ MODULE MCNeighbors ------------------------------
(***************************************************************************)
(* Links and neighbours: Spark, and LinkMonitor with the interfaces below  *)
(* and the adjacencies above.  `part` says which a behaviour is about; the *)
(* others stay as they start.                                              *)
(***************************************************************************)
EXTENDS MCSpark, LinkMonitorInterfaces, LinkMonitorDrain

-----------------------------------------------------------------------------
\* Two interfaces with an address each in one subnet, redistributed into different areas.
MCSubnet == [a1 |-> "n", a2 |-> "n", ll |-> "none"]
MCRedist == [e1 |-> {1}, e2 |-> {1, 2}]
MCHomes == [e1 |-> {"a1"}, e2 |-> {"a2"}]
\* An interface that flaps twice takes four changes.
MCIfScenes ==
  {[links |-> {"e1"}, addrs |-> {}, changes |-> 4], [links |-> {"e1", "e2"}, addrs |-> {}, changes |-> 3],
   [links |-> {"e1"}, addrs |-> {"e1"}, changes |-> 3], [links |-> {"e1"}, addrs |-> {"e2"}, changes |-> 3]}
-----------------------------------------------------------------------------
\* Two links to one neighbour in an area and one in another; round-trip times or a static metric.
MCAdjs == {[area |-> 1, node |-> "n", iface |-> "e1"], [area |-> 2, node |-> "n", iface |-> "e2"]}
Conf(soft, assume, flag, rtt) ==
  [soft |-> soft, assumeDrained |-> assume, flag |-> flag, nodeInc |-> 2, useRtt |-> rtt,
   initOptimization |-> TRUE, static |-> [i \in DrIfs |-> IF i = "e2" THEN 2 ELSE 0],
   max |-> [i \in DrIfs |-> IF i = "e2" THEN 3 ELSE 0]]
Scene(config, commands, events, reboots) ==
  [config |-> config, commands |-> commands, events |-> events, restarts |-> reboots]
MCDrScenes ==
  {Scene(Conf(FALSE, TRUE, "unused", TRUE), {"linkMetric", "adjMetric"}, 2, 0),
   Scene(Conf(TRUE, FALSE, "unused", FALSE), {"linkInc", "multi", "linkOverload"}, 2, 0),
   Scene(Conf(FALSE, FALSE, "unused", FALSE), {"overload", "linkOverload"}, 1, 1),
   Scene(Conf(TRUE, TRUE, "drained", TRUE), {"overload", "nodeInc"}, 1, 1),
   Scene(Conf(FALSE, TRUE, "undrained", FALSE), {"overload", "nodeInc"}, 1, 1)}
-----------------------------------------------------------------------------
VARIABLE part

NeighborsInit ==
  /\ part \in {"spark", "interfaces", "drain"}
  /\ SparkInit /\ (part # "spark" => Compatible)
  /\ InterfacesInit /\ (part # "interfaces" => ifHist.scene = CHOOSE s \in IfScenes : TRUE)
  /\ DrainInit /\ (part # "drain" => drScene = CHOOSE s \in DrScenes : TRUE)

NeighborsNext ==
  \/ part = "spark" /\ SparkNext /\ UNCHANGED <<ifVars, drVars, part>>
  \/ part = "interfaces" /\ InterfacesNext /\ UNCHANGED <<sparkVars, drVars, part>>
  \/ part = "drain" /\ DrainNext /\ UNCHANGED <<sparkVars, ifVars, part>>

NeighborsSpec == NeighborsInit /\ [][NeighborsNext]_<<sparkVars, ifVars, drVars, part>>
================================================================================
