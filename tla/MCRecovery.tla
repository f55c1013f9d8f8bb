------------------------------ MODULE MCRecovery -------------------------------
(***************************************************************************)
(* What is put right in the end, under the fairness of each part: keys     *)
(* nobody refreshes die out, a node's own keys win over what others store  *)
(* under them, and neighbours find each other again whatever trouble left  *)
(* them with.  `part` says which a behaviour is about; the other parts     *)
(* stay as they start.                                                     *)
(***************************************************************************)
EXTENDS KvStoreTtl, MCKvStoreSelfOriginated, MCSpark

VARIABLE part

recoveryVars == <<ttlVars, selfVars, sparkVars, part>>

RecoveryInit ==
  /\ part \in {"ttl", "own", "spark"}
  /\ TtlInit
  /\ SelfInit
  /\ AfterTroubleInit
  /\ part # "spark" => \A n, m \in SparkNodes : sparkNeighbors[n][m] = NoNeighbor

RecoveryNext ==
  \/ part = "ttl" /\ TtlNext /\ UNCHANGED <<selfVars, sparkVars, part>>
  \/ part = "own" /\ SelfNext /\ UNCHANGED <<ttlVars, sparkVars, part>>
  \/ part = "spark" /\ SparkNext /\ UNCHANGED <<ttlVars, selfVars, part>>

InTtl(A) == part = "ttl" /\ A
InOwn(A) == part = "own" /\ A
InSpark(A) == part = "spark" /\ A

(* TtlFairSpec, SelfFairSpec and SparkFairness, each of its part. *)
RecoverySpec ==
  /\ RecoveryInit
  /\ [][RecoveryNext]_recoveryVars
  /\ WF_ttlVars(InTtl(Deliver)) /\ WF_ttlVars(InTtl(Cleanup)) /\ WF_ttlVars(InTtl(Tick))
  /\ WF_selfVars(InOwn(Advertise)) /\ WF_selfVars(InOwn(UnsetPending))
  /\ WF_selfVars(InOwn(FloodBufferedUpdates))
  /\ \A n \in SparkNodes :
       /\ WF_sparkVars(InSpark(AddInterface(n)))
       /\ WF_sparkVars(InSpark(ProcessInitializationEvent(n)))
       /\ SF_sparkVars(InSpark(SendHello(n, "slow")))
       /\ SF_sparkVars(InSpark(SendHeartbeat(n)))
       /\ \A m \in Others(n) :
            /\ WF_sparkVars(InSpark(Receive(n, m)))
            /\ SF_sparkVars(InSpark(SendHandshake(n, m)))
            /\ WF_sparkVars(InSpark(HeartbeatTimeout(n, m)))
            /\ WF_sparkVars(InSpark(NegotiateTimeout(n, m)))
            /\ WF_sparkVars(InSpark(GRTimeout(n, m)))

(* Converges, of the neighbours: hellos, handshakes, heartbeats and hold timers bring two   *)
(* compatible nodes to a usable adjacency from whatever each believed of the other.        *)
NeighborsConverge == part = "spark" => Converges
================================================================================
