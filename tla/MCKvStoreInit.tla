----------------------------- MODULE MCKvStoreInit -----------------------------
EXTENDS KvStoreInit

CONSTANTS a1, a2, n1, n2, i1, i2

Adj(area, node, iface) == [area |-> area, node |-> node, iface |-> iface]

(* Two parallel links to one neighbour, and a neighbour in another area. *)
ParallelLinks == {Adj(a1, n1, i1), Adj(a1, n1, i2), Adj(a2, n2, i1)}

(* Two neighbours in one area. *)
TwoNeighbors == {Adj(a1, n1, i1), Adj(a1, n2, i2)}

=============================================================================
