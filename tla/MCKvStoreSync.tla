----------------------------- MODULE MCKvStoreSync -----------------------------
EXTENDS KvStoreSync

CONSTANTS k1, k2

Write(n, k, v, x) == [node |-> n, key |-> k, version |-> v, value |-> x]

(* Two nodes originate the same key with the same version. *)
ConflictingWrites == {Write(1, k1, 1, 1), Write(2, k1, 1, 1)}

(* A node updates its key. *)
UpdateWrites == {Write(1, k1, 1, 1), Write(1, k1, 2, 1)}

(* Node 1 originates two keys; node 2 overrides one of them. *)
TwoKeyWrites == {Write(1, k1, 1, 1), Write(1, k2, 1, 1), Write(2, k1, 2, 1)}

=============================================================================
