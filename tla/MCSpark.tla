-------------------------------- MODULE MCSpark --------------------------------
(***************************************************************************)
(* Two nodes on a link.                                                    *)
(***************************************************************************)
EXTENDS Spark

(* Both accept each other, or one rejects the other's subnet. *)
MCPolicies == {{<<1, 2>>, <<2, 1>>}, {<<1, 2>>}}
MCCompatible == {{<<1, 2>>, <<2, 1>>}}

(* What a node may believe of a neighbour in its second incarnation, heard of or not: *)
(* every record the invariants of Spark allow.                                        *)
Beliefs ==
  {NoNeighbor} \cup
  {[state |-> s, seqNum |-> seq, negotiateTimer |-> s = "NEGOTIATE", negotiateHoldTimer |-> s = "NEGOTIATE",
    heartbeatHoldTimer |-> s = "ESTABLISHED",
    grHoldTimer |-> s = "RESTART" \/ (gr /\ s \in {"WARM", "NEGOTIATE"}),
    transportAddress |-> TRUE, adjOnlyUsedByOtherNode |-> TRUE] :
      s \in {"WARM", "NEGOTIATE", "ESTABLISHED", "RESTART"}, seq \in {1, 2}, gr \in BOOLEAN}

Active(nbr) == nbr.state = "ESTABLISHED" \/ nbr.grHoldTimer

(* The trouble is over, and left each node with some belief about the other. *)
AfterTroubleInit ==
  /\ incarnation = [n \in SparkNodes |-> 2]
  /\ tracked = [n \in SparkNodes |-> TRUE]
  /\ helloTimer = [n \in SparkNodes |-> "slow"]
  /\ \E b \in [SparkNodes -> Beliefs] :
       /\ sparkNeighbors = [n \in SparkNodes |-> [m \in SparkNodes |-> IF m = n THEN NoNeighbor ELSE b[n]]]
       /\ activeNeighbors = [n \in SparkNodes |-> IF Active(b[n]) THEN SparkNodes \ {n} ELSE {}]
       /\ reported = [n \in SparkNodes |-> [m \in SparkNodes |->
                        IF m = n THEN "down"
                        ELSE IF b[n].grHoldTimer THEN "restarting"
                        ELSE IF Active(b[n]) THEN "up" ELSE "down"]]
  /\ initialized = [n \in SparkNodes |-> n \notin Starting]
  /\ minTimer = [n \in SparkNodes |-> FALSE]
  /\ maxTimer = [n \in SparkNodes |-> "off"]
  /\ discovered = [n \in SparkNodes |-> 1]
  /\ net = [n \in SparkNodes |-> [m \in SparkNodes |-> <<>>]]
  /\ accepts \in Policies
  /\ restarts = MaxRestarts
  /\ flaps = MaxFlaps
  /\ sparkAborted = FALSE

================================================================================
