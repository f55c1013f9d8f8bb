------------------------------- MODULE MCPeering -------------------------------
(***************************************************************************)
(* A store and its peers: full syncs and floods between two stores, what   *)
(* is read from the connections of peers, and the flooding trees.  `part`  *)
(* says which a behaviour is about; the others stay as they start.         *)
(***************************************************************************)
EXTENDS MCKvStoreSync, PeerIngress, Dual

-----------------------------------------------------------------------------
(* Two connections of one peer while the server stops, two of different     *)
(* peers with requests of two sizes, and one connection paused twice.       *)
CONSTANTS c1, c2, p1, p2

OnePeer  == [c \in Connections |-> p1]
TwoPeers == [c \in Connections |-> IF c = c1 THEN p1 ELSE p2]
Limits(senders, sizes, requests, pauses, stops) ==
  [sender |-> senders, pauseAbove |-> 1, resumeBelow |-> 1, queuedLimit |-> 2,
   sizes |-> sizes, requests |-> requests, pauses |-> pauses, stops |-> stops]
MCIngressScenes ==
  {Limits(OnePeer, {2}, 2, 1, TRUE), Limits(TwoPeers, {1, 2}, 3, 0, FALSE),
   Limits(TwoPeers, {2}, 2, 2, FALSE)}
-----------------------------------------------------------------------------
\* A triangle whose direct link to the root is the long way: two failures along the short
\* way, or one anywhere when the ways are equal.
DualTriangle == [roots |-> {1}, fails |-> {{1, 2}, {2, 3}}, downs |-> 2, restarts |-> 0, late |-> FALSE,
  cost |-> [l \in {{1, 2}, {2, 3}, {1, 3}} |-> IF l = {1, 3} THEN 3 ELSE 1]]
DualEqual == [DualTriangle EXCEPT !.fails = DOMAIN DualTriangle.cost, !.downs = 1,
                                  !.cost = [l \in DOMAIN @ |-> 1]]
DualLine == [DualTriangle EXCEPT !.cost = [l \in {{1, 2}, {2, 3}} |-> 1]]
\* Two roots; packets may arrive late and a node may restart unnoticed.
DualPair == [roots |-> {1, 2}, fails |-> {{1, 2}}, downs |-> 2, restarts |-> 1, late |-> TRUE,
  cost |-> [l \in {{1, 2}} |-> 1]]

MCDualScenes == {DualTriangle, DualEqual, DualLine, DualPair}
-----------------------------------------------------------------------------
VARIABLE part

PeeringInit ==
  /\ part \in {"sync", "ingress", "trees"}
  /\ Init
  /\ IngressInit /\ (part # "ingress" => igScene = CHOOSE s \in IngressScenes : TRUE)
  /\ DualInit /\ (part # "trees" => dlScene = CHOOSE s \in DualScenes : TRUE)

PeeringNext ==
  \/ part = "sync" /\ Next /\ UNCHANGED <<igVars, dlVars, part>>
  \/ part = "ingress" /\ IngressNext /\ UNCHANGED <<vars, dlVars, part>>
  \/ part = "trees" /\ DualNext /\ UNCHANGED <<vars, igVars, part>>

PeeringSpec == PeeringInit /\ [][PeeringNext]_<<vars, igVars, dlVars, part>>
================================================================================
