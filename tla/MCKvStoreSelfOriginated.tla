------------------------ MODULE MCKvStoreSelfOriginated ------------------------
EXTENDS KvStoreSelfOriginated

CONSTANTS o1, o2

Remote(version, originator, value, ttlVersion) ==
  [version |-> version, originatorId |-> originator, value |-> value, hasValue |-> TRUE,
   ttlVersion |-> ttlVersion, ttl |-> 1]

(* Another node's value, and one this node left behind before it restarted. *)
Conflicts == {Remote(1, Other, 1, 0), Remote(2, Other, 3, 0), Remote(2, Me, 1, 1), Remote(3, Me, 2, 0)}

OneConflict == {Remote(2, Other, 3, 0)}

=============================================================================
