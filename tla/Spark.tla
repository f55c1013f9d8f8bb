--------------------------------- MODULE Spark ---------------------------------
(***************************************************************************)
(* Neighbour discovery (openr/spark/Spark.cpp): nodes on one link exchange *)
(* hello, handshake and heartbeat packets, each node runs a state machine  *)
(* per neighbour, and reports to LinkMonitor who is up, down, restarting   *)
(* or back.                                                                *)
(*                                                                         *)
(* Every packet carries the sender's sequence number, which starts again   *)
(* at 1 with the process.  Packets of one incarnation arrive in order, so  *)
(* a number is represented by the incarnation it belongs to; how numbers   *)
(* of different incarnations compare depends on how much each of them had  *)
(* sent, and is left open (parameter lower of the handlers).               *)
(***************************************************************************)
EXTENDS Integers, Sequences, FiniteSets

CONSTANTS SparkNodes,
          Starting,        \* nodes that start; the others have been running for long
          Restarting,      \* nodes that may restart
          Reliable,        \* nothing is lost, and hold times are long against the link's delay
          Policies,        \* sets of pairs <<n, m>>: n accepts the area and subnet of m
          MaxInFlight,     \* bound: packets under way from one node to another
          MaxRestarts,     \* bound: restarts in a behaviour
          MaxFlaps,        \* bound: interface and address events in a behaviour
          MaxTroubles      \* bound: restarts and those events together

VARIABLES incarnation,     \* node -> Nat: identifies the range of mySeqNum_
          tracked,         \* node -> BOOLEAN: the interface is in interfaceDb_
          helloTimer,      \* node -> "off", "fast" or "slow": ifNameToHelloTimers_
          sparkNeighbors,  \* node -> neighbour -> SparkNeighbor
          activeNeighbors, \* node -> set: ifNameToActiveNeighbors_
          initialized,     \* node -> BOOLEAN: initialized_
          minTimer,        \* node -> BOOLEAN: minNeighborDiscoveryIntervalTimer_ is scheduled
          maxTimer,        \* node -> "new", "on" or "off": maxNeighborDiscoveryIntervalTimer_
          discovered,      \* node -> how often NEIGHBOR_DISCOVERED was published
          reported,        \* node -> neighbour -> what the last NeighborEvent says of it
          net,             \* net[n][m]: packets under way from n to m
          accepts,         \* the configuration, a member of Policies
          restarts, flaps, \* counters for the bounds
          sparkAborted          \* a CHECK failed

sparkVars == <<incarnation, tracked, helloTimer, sparkNeighbors, activeNeighbors, initialized,
          minTimer, maxTimer, discovered, reported, net, accepts, restarts,
          flaps, sparkAborted>>

NeighState == {"NONE", "IDLE", "WARM", "NEGOTIATE", "ESTABLISHED", "RESTART"}

(* A neighbour nothing is known of: it has no entry in sparkNeighbors_. *)
NoNeighbor == [state |-> "NONE", seqNum |-> 0, negotiateTimer |-> FALSE, negotiateHoldTimer |-> FALSE,
               heartbeatHoldTimer |-> FALSE, grHoldTimer |-> FALSE, transportAddress |-> FALSE,
               adjOnlyUsedByOtherNode |-> FALSE]

Others(n) == SparkNodes \ {n}

(* Spark::getNextState: the transitions stateMap_ defines; the others abort. *)
StateMap ==
  [s \in {"IDLE", "WARM", "NEGOTIATE", "ESTABLISHED", "RESTART"} |->
     CASE s = "IDLE"        -> [HELLO_RCVD_INFO |-> "WARM", HELLO_RCVD_NO_INFO |-> "WARM"]
       [] s = "WARM"        -> [HELLO_RCVD_INFO |-> "NEGOTIATE", GR_TIMER_EXPIRE |-> "IDLE"]
       [] s = "NEGOTIATE"   -> [HANDSHAKE_RCVD |-> "ESTABLISHED", NEGOTIATE_TIMER_EXPIRE |-> "WARM",
                                GR_TIMER_EXPIRE |-> "IDLE", NEGOTIATION_FAILURE |-> "WARM"]
       [] s = "ESTABLISHED" -> [HELLO_RCVD_NO_INFO |-> "IDLE", HELLO_RCVD_RESTART |-> "RESTART",
                                HEARTBEAT_RCVD |-> "ESTABLISHED", HEARTBEAT_TIMER_EXPIRE |-> "IDLE"]
       [] s = "RESTART"     -> [HELLO_RCVD_INFO |-> "NEGOTIATE", GR_TIMER_EXPIRE |-> "IDLE"]]

Defined(state, event) == state \in DOMAIN StateMap /\ event \in DOMAIN StateMap[state]

getNextSparkState(state, event) == IF Defined(state, event) THEN StateMap[state][event] ELSE state

-----------------------------------------------------------------------------
(* Packets. *)

HelloMsg(n, nbrs, solicit, restarting) ==
  [type |-> "hello", seqNum |-> incarnation[n],
   neighborInfos |-> [m \in SparkNodes |-> nbrs[m].seqNum],      \* 0: not listed
   solicitResponse |-> solicit, restarting |-> restarting]

HandshakeMsg(established) == [type |-> "handshake", isAdjEstablished |-> established]

HeartbeatMsg(hold) == [type |-> "heartbeat", holdAdjacency |-> hold]

(* The link is faster than the periodic senders, which find it idle; an answer queues, *)
(* and is lost when the queue is full.                                                 *)
Idle(n) == \A m \in SparkNodes : net[n][m] = <<>>

Sent(queue, packet) == IF Len(queue) < MaxInFlight THEN Append(queue, packet) ELSE queue

(* Multicast from n, and a packet meant for m only (the others ignore it). *)
Multicast(links, n, packet) ==
  [links EXCEPT ![n] = [m \in SparkNodes |-> IF m = n THEN <<>> ELSE Sent(@[m], packet)]]

SendTo(links, n, m, packet) == [links EXCEPT ![n][m] = Sent(@, packet)]

Received(n, m) == [net EXCEPT ![m][n] = Tail(@)]

(* Spark::sendHelloMsg: nothing is sent on an interface that is not tracked. *)
sendHelloMsg(links, n, nbrs, solicit, restarting) ==
  IF tracked[n] THEN Multicast(links, n, HelloMsg(n, nbrs, solicit, restarting)) ELSE links

(* Spark::sendHeartbeatMsg: only on an interface with active neighbours. *)
sendHeartbeatMsg(links, n, active, isInitialized) ==
  IF active[n] # {} THEN Multicast(links, n, HeartbeatMsg(~isInitialized)) ELSE links

-----------------------------------------------------------------------------
(* What the handlers share. *)

TrackedNeighbors(nbrs, n) == {m \in Others(n) : nbrs[n][m].state # "NONE"}

(* Spark::allNeighborsDiscovered, on numTotalNeighbors_ and numActiveNeighbors_. *)
allNeighborsDiscovered(nbrs, active, n) ==
  active[n] # {} /\ Cardinality(active[n]) = Cardinality(TrackedNeighbors(nbrs, n))

(* Spark::processNegotiation: the handshake timer and the timer that gives up. *)
processNegotiation(nbr) == [nbr EXCEPT !.negotiateTimer = TRUE, !.negotiateHoldTimer = TRUE]

(* Spark::neighborUpWrapper: NEIGHBOR_RESTARTED when the restart timer is still       *)
(* there, NEIGHBOR_UP otherwise; the neighbour may be the last one discovery waits for. *)
neighborUpWrapper(n, m, nbr) ==
  LET restarted == nbr.grHoldTimer
      up == [nbr EXCEPT !.negotiateTimer = FALSE, !.negotiateHoldTimer = FALSE,
                        !.heartbeatHoldTimer = TRUE, !.grHoldTimer = FALSE,
                        !.adjOnlyUsedByOtherNode = IF restarted THEN @ ELSE @ \/ initialized[n]]
      nbrs == [sparkNeighbors EXCEPT ![n][m] = up]
      active == [activeNeighbors EXCEPT ![n] = @ \cup {m}]
      complete == maxTimer[n] = "on" /\ ~minTimer[n] /\ allNeighborsDiscovered(nbrs, active, n)
  IN  /\ sparkNeighbors' = nbrs
      /\ activeNeighbors' = active
      /\ reported' = [reported EXCEPT ![n][m] = "up"]
      /\ discovered' = [discovered EXCEPT ![n] = IF complete THEN @ + 1 ELSE @]
      /\ maxTimer' = [maxTimer EXCEPT ![n] = IF complete THEN "off" ELSE @]

(* Mutant: only the active list is updated, nobody is told. *)
neighborDownWrapper_Silent(n, gone) ==
  /\ activeNeighbors' = [activeNeighbors EXCEPT ![n] = @ \ gone]
  /\ UNCHANGED reported

(* Spark::neighborDownWrapper, for each of gone: a report only while the interface has *)
(* an active neighbour, then also for one that is not active itself.                   *)
neighborDownWrapper(n, gone) ==
  /\ activeNeighbors' = [activeNeighbors EXCEPT ![n] = @ \ gone]
  /\ reported' = IF activeNeighbors[n] = {} THEN reported
                 ELSE [reported EXCEPT ![n] = [m \in SparkNodes |-> IF m \in gone THEN "down" ELSE @[m]]]

(* The end of an adjacency: reported, and erased by eraseSparkNeighbor. *)
Lost(n, gone) ==
  /\ neighborDownWrapper(n, gone)
  /\ sparkNeighbors' = [sparkNeighbors EXCEPT
                          ![n] = [m \in SparkNodes |-> IF m \in gone THEN NoNeighbor ELSE @[m]]]

Update(n, m, nbr) == sparkNeighbors' = [sparkNeighbors EXCEPT ![n][m] = nbr]

Check(cond) == sparkAborted' = (sparkAborted \/ ~cond)

discoveryVars == <<minTimer, maxTimer, discovered>>
envVars == <<incarnation, accepts, restarts, flaps>>

(* Types of a node's neighbours, timers and reports (Spark.h). *)
SparkTypeOK ==
  /\ incarnation \in [SparkNodes -> 1..(MaxRestarts + 1)]
  /\ tracked \in [SparkNodes -> BOOLEAN]
  /\ helloTimer \in [SparkNodes -> {"off", "fast", "slow"}]
  /\ sparkNeighbors \in [SparkNodes -> [SparkNodes ->
       [state : NeighState, seqNum : 0..(MaxRestarts + 1), negotiateTimer : BOOLEAN,
        negotiateHoldTimer : BOOLEAN, heartbeatHoldTimer : BOOLEAN, grHoldTimer : BOOLEAN,
        transportAddress : BOOLEAN, adjOnlyUsedByOtherNode : BOOLEAN]]]
  /\ activeNeighbors \in [SparkNodes -> SUBSET SparkNodes]
  /\ initialized \in [SparkNodes -> BOOLEAN]
  /\ minTimer \in [SparkNodes -> BOOLEAN]
  /\ maxTimer \in [SparkNodes -> {"new", "on", "off"}]
  /\ discovered \in [SparkNodes -> 0..1]
  /\ reported \in [SparkNodes -> [SparkNodes -> {"down", "up", "restarting"}]]
  /\ \A n, m \in SparkNodes : Len(net[n][m]) <= MaxInFlight
  /\ sparkAborted \in BOOLEAN

(* A node that has been running has its interface and its discovery behind it; *)
(* one that starts waits for LinkMonitor's first interface update.             *)
SparkInit ==
  /\ incarnation = [n \in SparkNodes |-> 1]
  /\ tracked = [n \in SparkNodes |-> n \notin Starting]
  /\ helloTimer = [n \in SparkNodes |-> IF n \in Starting THEN "off" ELSE "slow"]
  /\ sparkNeighbors = [n \in SparkNodes |-> [m \in SparkNodes |-> NoNeighbor]]
  /\ activeNeighbors = [n \in SparkNodes |-> {}]
  /\ initialized = [n \in SparkNodes |-> n \notin Starting]
  /\ minTimer = [n \in SparkNodes |-> FALSE]
  /\ maxTimer = [n \in SparkNodes |-> IF n \in Starting THEN "new" ELSE "off"]
  /\ discovered = [n \in SparkNodes |-> IF n \in Starting THEN 0 ELSE 1]
  /\ reported = [n \in SparkNodes |-> [m \in SparkNodes |-> "down"]]
  /\ net = [n \in SparkNodes |-> [m \in SparkNodes |-> <<>>]]
  /\ accepts \in Policies
  /\ restarts = 0
  /\ flaps = 0
  /\ sparkAborted = FALSE

-----------------------------------------------------------------------------
(* Received packets. *)

Arrives(n, m, type) == net[m][n] # <<>> /\ Head(net[m][n]).type = type

(* Spark::sanityCheckMsg: a packet on an interface that is not tracked is dropped. *)
DropUntracked(n, m) ==
  /\ net[m][n] # <<>>
  /\ ~tracked[n]
  /\ net' = Received(n, m)
  /\ UNCHANGED <<tracked, helloTimer, sparkNeighbors, activeNeighbors, initialized, discoveryVars,
                 reported, envVars, sparkAborted>>

(* The neighbour a hello is about; an unknown one is added in IDLE. *)
HelloNeighbor(n, m, hello) ==
  IF sparkNeighbors[n][m].state = "NONE"
  THEN [NoNeighbor EXCEPT !.state = "IDLE", !.seqNum = hello.seqNum]
  ELSE sparkNeighbors[n][m]

(* Is the number stored for the neighbour lower than the hello's? *)
OlderThan(nbr, hello, lower) == IF nbr.seqNum = hello.seqNum THEN TRUE ELSE lower

(* Does the hello list a number of this incarnation, or one that is lower? *)
SeesMe(n, hello, lower) ==
  hello.neighborInfos[n] # 0 /\ (hello.neighborInfos[n] = incarnation[n] \/ lower)

(* processHelloMsg, up to the state machine: a solicited answer lists the neighbour. *)
AnswerHello(n, m, hello) ==
  LET nbrs == [sparkNeighbors[n] EXCEPT ![m] = HelloNeighbor(n, m, hello)]
  IN  net' = IF hello.solicitResponse
             THEN sendHelloMsg(Received(n, m), n, nbrs, FALSE, FALSE)
             ELSE Received(n, m)

HelloInIdle(n, m, nbr) ==
  /\ nbr.state = "IDLE"
  /\ Check(Defined(nbr.state, "HELLO_RCVD_NO_INFO"))
  /\ Update(n, m, [nbr EXCEPT !.state = getNextSparkState(@, "HELLO_RCVD_NO_INFO")])
  /\ UNCHANGED <<activeNeighbors, reported>>

HelloInWarm(n, m, hello, lower, nbr) ==
  LET seen == [nbr EXCEPT !.seqNum = hello.seqNum]
  IN  /\ nbr.state = "WARM"
      /\ Check(Defined(nbr.state, "HELLO_RCVD_INFO"))
      /\ Update(n, m, IF SeesMe(n, hello, lower)
                      THEN [processNegotiation(seen) EXCEPT !.state = getNextSparkState(@, "HELLO_RCVD_INFO")]
                      ELSE seen)
      /\ UNCHANGED <<activeNeighbors, reported>>

(* Spark::processGRMsg: the neighbour stays active while it restarts. *)
processGRMsg(n, m, nbr) ==
  /\ Check(Defined(nbr.state, "HELLO_RCVD_RESTART"))
  /\ Update(n, m, [nbr EXCEPT !.state = getNextSparkState(@, "HELLO_RCVD_RESTART"),
                              !.grHoldTimer = TRUE, !.heartbeatHoldTimer = FALSE])
  /\ reported' = [reported EXCEPT ![n][m] = "restarting"]
  /\ UNCHANGED activeNeighbors

HelloInEstablished(n, m, hello, lower, nbr) ==
  LET seen == [nbr EXCEPT !.seqNum = hello.seqNum]
      notListed == hello.neighborInfos[n] = 0 /\ OlderThan(nbr, hello, lower)
  IN  /\ nbr.state = "ESTABLISHED"
      /\ \/ hello.restarting /\ processGRMsg(n, m, seen)
         \/ /\ ~hello.restarting /\ notListed
            /\ Check(Defined(nbr.state, "HELLO_RCVD_NO_INFO"))
            /\ Lost(n, {m})
         \/ /\ ~hello.restarting /\ ~notListed
            /\ Update(n, m, seen)
            /\ UNCHANGED <<activeNeighbors, reported, sparkAborted>>

HelloInRestart(n, m, hello, lower, nbr) ==
  /\ nbr.state = "RESTART"
  /\ IF hello.neighborInfos[n] = 0 \/ OlderThan(nbr, hello, lower)
     THEN UNCHANGED <<sparkNeighbors, sparkAborted>>
     ELSE /\ Check(Defined(nbr.state, "HELLO_RCVD_INFO"))
          /\ Update(n, m, [processNegotiation(nbr) EXCEPT !.seqNum = hello.seqNum,
                                                          !.state = getNextSparkState(@, "HELLO_RCVD_INFO")])
  /\ UNCHANGED <<activeNeighbors, reported>>

(* Spark::processHelloMsg *)
ProcessHelloMsg(n, m, lower) ==
  LET hello == Head(net[m][n])
      nbr == HelloNeighbor(n, m, hello)
  IN  /\ tracked[n]
      /\ Arrives(n, m, "hello")
      /\ AnswerHello(n, m, hello)
      /\ \/ HelloInIdle(n, m, nbr)
         \/ HelloInWarm(n, m, hello, lower, nbr)
         \/ HelloInEstablished(n, m, hello, lower, nbr)
         \/ HelloInRestart(n, m, hello, lower, nbr)
         \/ nbr.state = "NEGOTIATE" /\ UNCHANGED <<sparkNeighbors, activeNeighbors, reported, sparkAborted>>
      /\ UNCHANGED <<tracked, helloTimer, initialized, discoveryVars, envVars>>

(* processHandshakeMsg answers a neighbour that is negotiating, in any state. *)
AnswerHandshake(n, m, handshake) ==
  net' = IF handshake.isAdjEstablished THEN Received(n, m)
         ELSE SendTo(Received(n, m), n, m, HandshakeMsg(sparkNeighbors[n][m].state # "NEGOTIATE"))

(* A neighbour in WARM is promoted by the handshake itself. *)
Promoted(nbr) ==
  IF nbr.state = "WARM"
  THEN [processNegotiation(nbr) EXCEPT !.state = getNextSparkState(@, "HELLO_RCVD_INFO")]
  ELSE nbr

Negotiated(n, m, nbr) ==
  LET known == [nbr EXCEPT !.transportAddress = TRUE]
  IN  \/ /\ <<n, m>> \notin accepts
         /\ Check(Defined(nbr.state, "NEGOTIATION_FAILURE"))
         /\ Update(n, m, [known EXCEPT !.state = getNextSparkState(@, "NEGOTIATION_FAILURE"),
                                       !.negotiateTimer = FALSE, !.negotiateHoldTimer = FALSE])
         /\ UNCHANGED <<activeNeighbors, reported, maxTimer, discovered>>
      \/ /\ <<n, m>> \in accepts
         /\ Check(Defined(nbr.state, "HANDSHAKE_RCVD"))
         /\ neighborUpWrapper(n, m, [known EXCEPT !.state = getNextSparkState(@, "HANDSHAKE_RCVD")])

(* Mutant: a handshake is only taken in NEGOTIATE. *)
ProcessHandshakeMsg_NoPromotion(n, m) ==
  LET nbr == sparkNeighbors[n][m]
  IN  /\ tracked[n]
      /\ Arrives(n, m, "handshake")
      /\ IF nbr.state = "NONE" THEN net' = Received(n, m)
                               ELSE AnswerHandshake(n, m, Head(net[m][n]))
      /\ IF nbr.state = "NEGOTIATE" THEN Negotiated(n, m, nbr)
         ELSE UNCHANGED <<sparkNeighbors, activeNeighbors, reported, maxTimer, discovered, sparkAborted>>
      /\ UNCHANGED <<tracked, helloTimer, initialized, minTimer, envVars>>

(* Spark::processHandshakeMsg *)
ProcessHandshakeMsg(n, m) ==
  LET nbr == sparkNeighbors[n][m]
  IN  /\ tracked[n]
      /\ Arrives(n, m, "handshake")
      /\ IF nbr.state = "NONE" THEN net' = Received(n, m)
                               ELSE AnswerHandshake(n, m, Head(net[m][n]))
      /\ IF nbr.state \in {"WARM", "NEGOTIATE"} THEN Negotiated(n, m, Promoted(nbr))
         ELSE UNCHANGED <<sparkNeighbors, activeNeighbors, reported, maxTimer, discovered, sparkAborted>>
      /\ UNCHANGED <<tracked, helloTimer, initialized, minTimer, envVars>>

(* Spark::processHeartbeatMsg: solicits a hello in WARM; in ESTABLISHED it restarts the *)
(* hold timer, and clears the flag (NEIGHBOR_ADJ_SYNCED) once the sender is initialized. *)
ProcessHeartbeatMsg(n, m) ==
  LET nbr == sparkNeighbors[n][m]
  IN  /\ tracked[n]
      /\ Arrives(n, m, "heartbeat")
      /\ net' = IF nbr.state = "WARM"
                THEN sendHelloMsg(Received(n, m), n, sparkNeighbors[n], TRUE, FALSE)
                ELSE Received(n, m)
      /\ Update(n, m, [nbr EXCEPT !.adjOnlyUsedByOtherNode =
                         @ /\ (nbr.state = "ESTABLISHED" => Head(net[m][n]).holdAdjacency)])
      /\ UNCHANGED <<tracked, helloTimer, activeNeighbors, initialized, discoveryVars, reported,
                     envVars, sparkAborted>>

-----------------------------------------------------------------------------
(* Timers. *)

(* The hello timer is fast, and solicits answers, for a while after it is set up. *)
SendHello(n, next) ==
  /\ helloTimer[n] # "off"
  /\ Idle(n)
  /\ next \in IF helloTimer[n] = "fast" THEN {"fast", "slow"} ELSE {"slow"}
  /\ helloTimer' = [helloTimer EXCEPT ![n] = next]
  /\ net' = sendHelloMsg(net, n, sparkNeighbors[n], helloTimer[n] = "fast", FALSE)
  /\ UNCHANGED <<tracked, sparkNeighbors, activeNeighbors, initialized, discoveryVars, reported,
                 envVars, sparkAborted>>

(* The heartbeat timer of an interface runs as long as the interface is tracked. *)
SendHeartbeat(n) ==
  /\ tracked[n]
  /\ activeNeighbors[n] # {}
  /\ Idle(n)
  /\ net' = sendHeartbeatMsg(net, n, activeNeighbors, initialized[n])
  /\ UNCHANGED <<tracked, helloTimer, sparkNeighbors, activeNeighbors, initialized, discoveryVars,
                 reported, envVars, sparkAborted>>

(* negotiateTimer: Spark::sendHandshakeMsg until the negotiation ends. *)
SendHandshake(n, m) ==
  /\ sparkNeighbors[n][m].negotiateTimer
  /\ Idle(n)
  /\ net' = SendTo(net, n, m, HandshakeMsg(FALSE))
  /\ UNCHANGED <<tracked, helloTimer, sparkNeighbors, activeNeighbors, initialized, discoveryVars,
                 reported, envVars, sparkAborted>>

(* On a reliable link no packet is under way for as long as a hold time. *)
Quiet(n, m) == net[n][m] = <<>> /\ net[m][n] = <<>>

(* Spark::processHeartbeatTimeout.  On a reliable link the hold time passes only when *)
(* the neighbour sends no heartbeats, and is not about to: it repeats its handshake   *)
(* many times within a hold time, and each one is answered.                           *)
HeartbeatTimeout(n, m) ==
  /\ sparkNeighbors[n][m].heartbeatHoldTimer
  /\ Reliable => /\ Quiet(n, m)
                 /\ n \notin activeNeighbors[m]
                 /\ sparkNeighbors[m][n].state # "NEGOTIATE"
  /\ Check(sparkNeighbors[n][m].state = "ESTABLISHED")
  /\ Lost(n, {m})
  /\ UNCHANGED <<tracked, helloTimer, initialized, discoveryVars, net, envVars>>

(* Spark::processNegotiateTimeout.  On a reliable link only a neighbour that does not *)
(* know this node leaves all handshakes of the hold time unanswered.                  *)
NegotiateTimeout(n, m) ==
  LET nbr == sparkNeighbors[n][m]
  IN  /\ nbr.negotiateHoldTimer
      /\ Reliable => Quiet(n, m) /\ sparkNeighbors[m][n].state = "NONE"
      /\ Check(nbr.state = "NEGOTIATE" /\ Defined(nbr.state, "NEGOTIATE_TIMER_EXPIRE"))
      /\ Update(n, m, [nbr EXCEPT !.state = getNextSparkState(@, "NEGOTIATE_TIMER_EXPIRE"),
                                  !.negotiateTimer = FALSE, !.negotiateHoldTimer = FALSE])
      /\ UNCHANGED <<tracked, helloTimer, activeNeighbors, initialized, discoveryVars, reported, net,
                     envVars>>

(* Spark::processGRTimeout *)
GRTimeout(n, m) ==
  /\ sparkNeighbors[n][m].grHoldTimer
  /\ Check(Defined(sparkNeighbors[n][m].state, "GR_TIMER_EXPIRE"))
  /\ Lost(n, {m})
  /\ UNCHANGED <<tracked, helloTimer, initialized, discoveryVars, net, envVars>>

(* minNeighborDiscoveryIntervalTimer_ *)
MinDiscoveryTimer(n) ==
  LET complete == allNeighborsDiscovered(sparkNeighbors, activeNeighbors, n)
  IN  /\ minTimer[n]
      /\ minTimer' = [minTimer EXCEPT ![n] = FALSE]
      /\ maxTimer' = [maxTimer EXCEPT ![n] = IF complete THEN "off" ELSE @]
      /\ discovered' = [discovered EXCEPT ![n] = IF complete THEN @ + 1 ELSE @]
      /\ UNCHANGED <<tracked, helloTimer, sparkNeighbors, activeNeighbors, initialized, reported, net,
                     envVars, sparkAborted>>

(* maxNeighborDiscoveryIntervalTimer_, which is longer (a CHECK of the constructor). *)
MaxDiscoveryTimer(n) ==
  /\ maxTimer[n] = "on"
  /\ ~minTimer[n]
  /\ maxTimer' = [maxTimer EXCEPT ![n] = "off"]
  /\ discovered' = [discovered EXCEPT ![n] = @ + 1]
  /\ UNCHANGED <<tracked, helloTimer, sparkNeighbors, activeNeighbors, initialized, minTimer, reported,
                 net, envVars, sparkAborted>>

-----------------------------------------------------------------------------
(* Events of other modules. *)

flapUnchanged == UNCHANGED <<incarnation, accepts, restarts>>

(* The first interface update starts the discovery timers; Spark::addInterface. *)
AddInterface(n) ==
  /\ ~tracked[n]
  /\ tracked' = [tracked EXCEPT ![n] = TRUE]
  /\ helloTimer' = [helloTimer EXCEPT ![n] = "fast"]
  /\ minTimer' = [minTimer EXCEPT ![n] = @ \/ maxTimer[n] = "new"]
  /\ maxTimer' = [maxTimer EXCEPT ![n] = IF @ = "new" THEN "on" ELSE @]
  /\ UNCHANGED <<sparkNeighbors, activeNeighbors, initialized, discovered, reported, net, envVars,
                 sparkAborted>>

(* Spark::deleteInterface declares the neighbours down whose address is known. *)
DeleteInterface(n) ==
  /\ tracked[n]
  /\ flaps < MaxFlaps /\ restarts + flaps < MaxTroubles
  /\ flaps' = flaps + 1
  /\ neighborDownWrapper(n, {m \in Others(n) : sparkNeighbors[n][m].transportAddress})
  /\ sparkNeighbors' = [sparkNeighbors EXCEPT ![n] = [m \in SparkNodes |-> NoNeighbor]]
  /\ tracked' = [tracked EXCEPT ![n] = FALSE]
  /\ helloTimer' = [helloTimer EXCEPT ![n] = "off"]
  /\ flapUnchanged
  /\ UNCHANGED <<initialized, discoveryVars, net, sparkAborted>>

(* Spark::updateInterface: a changed address deletes the interface and adds it again. *)
UpdateInterface(n) ==
  /\ tracked[n]
  /\ flaps < MaxFlaps /\ restarts + flaps < MaxTroubles
  /\ flaps' = flaps + 1
  /\ neighborDownWrapper(n, {m \in Others(n) : sparkNeighbors[n][m].transportAddress})
  /\ sparkNeighbors' = [sparkNeighbors EXCEPT ![n] = [m \in SparkNodes |-> NoNeighbor]]
  /\ helloTimer' = [helloTimer EXCEPT ![n] = "fast"]
  /\ flapUnchanged
  /\ UNCHANGED <<tracked, initialized, discoveryVars, net, sparkAborted>>

(* Spark::processAddressEvent: the neighbour goes in whatever state it is. *)
AddressEvent(n, m, resolvable) ==
  /\ flaps < MaxFlaps /\ restarts + flaps < MaxTroubles
  /\ flaps' = flaps + 1
  /\ IF resolvable
     THEN /\ helloTimer' = [helloTimer EXCEPT ![n] = "fast"]
          /\ UNCHANGED <<sparkNeighbors, activeNeighbors, reported>>
     ELSE /\ sparkNeighbors[n][m].transportAddress
          /\ Lost(n, {m})
          /\ UNCHANGED helloTimer
  /\ flapUnchanged
  /\ UNCHANGED <<tracked, initialized, discoveryVars, net, sparkAborted>>

(* Spark::processInitializationEvent, after NEIGHBOR_DISCOVERED and what follows it. *)
ProcessInitializationEvent(n) ==
  /\ ~initialized[n]
  /\ discovered[n] > 0
  /\ initialized' = [initialized EXCEPT ![n] = TRUE]
  /\ net' = IF tracked[n] THEN sendHeartbeatMsg(net, n, activeNeighbors, TRUE) ELSE net
  /\ UNCHANGED <<tracked, helloTimer, sparkNeighbors, activeNeighbors, discoveryVars, reported,
                 envVars, sparkAborted>>

(* The process ends, and announces it (Spark::stop, floodRestartingMsg) or not, and starts *)
(* again; its sequence numbers, and LinkMonitor's adjacencies, start over with it.         *)
Restart(n, graceful) ==
  /\ n \in Restarting
  /\ restarts < MaxRestarts /\ restarts + flaps < MaxTroubles
  /\ restarts' = restarts + 1
  /\ net' = IF graceful THEN sendHelloMsg(net, n, sparkNeighbors[n], FALSE, TRUE) ELSE net
  /\ incarnation' = [incarnation EXCEPT ![n] = @ + 1]
  /\ tracked' = [tracked EXCEPT ![n] = FALSE]
  /\ helloTimer' = [helloTimer EXCEPT ![n] = "off"]
  /\ sparkNeighbors' = [sparkNeighbors EXCEPT ![n] = [m \in SparkNodes |-> NoNeighbor]]
  /\ activeNeighbors' = [activeNeighbors EXCEPT ![n] = {}]
  /\ initialized' = [initialized EXCEPT ![n] = FALSE]
  /\ minTimer' = [minTimer EXCEPT ![n] = FALSE]
  /\ maxTimer' = [maxTimer EXCEPT ![n] = "new"]
  /\ discovered' = [discovered EXCEPT ![n] = 0]
  /\ reported' = [reported EXCEPT ![n] = [m \in SparkNodes |-> "down"]]
  /\ UNCHANGED <<accepts, flaps, sparkAborted>>

(* The link loses a packet. *)
Lose(n, m) ==
  /\ ~Reliable
  /\ net[m][n] # <<>>
  /\ net' = Received(n, m)
  /\ UNCHANGED <<tracked, helloTimer, sparkNeighbors, activeNeighbors, initialized, discoveryVars,
                 reported, envVars, sparkAborted>>

Receive(n, m) ==
  \/ DropUntracked(n, m)
  \/ \E lower \in BOOLEAN : ProcessHelloMsg(n, m, lower)
  \/ ProcessHandshakeMsg(n, m)
  \/ ProcessHeartbeatMsg(n, m)

SparkNext ==
  \E n \in SparkNodes :
     \/ \E m \in Others(n) :
          \/ Receive(n, m)
          \/ SendHandshake(n, m)
          \/ HeartbeatTimeout(n, m)
          \/ NegotiateTimeout(n, m)
          \/ GRTimeout(n, m)
          \/ \E resolvable \in BOOLEAN : AddressEvent(n, m, resolvable)
          \/ Lose(n, m)
     \/ \E next \in {"fast", "slow"} : SendHello(n, next)
     \/ SendHeartbeat(n)
     \/ MinDiscoveryTimer(n)
     \/ MaxDiscoveryTimer(n)
     \/ AddInterface(n)
     \/ DeleteInterface(n)
     \/ UpdateInterface(n)
     \/ ProcessInitializationEvent(n)
     \/ \E graceful \in BOOLEAN : Restart(n, graceful)

(* Timers fire and packets are read.  A periodic sender gets a packet through again *)
(* and again although the link is often full.                                       *)
SparkFairness ==
  \A n \in SparkNodes :
    /\ WF_sparkVars(AddInterface(n))
    /\ WF_sparkVars(ProcessInitializationEvent(n))
    /\ SF_sparkVars(SendHello(n, "slow"))
    /\ SF_sparkVars(SendHeartbeat(n))
    /\ \A m \in Others(n) :
         /\ WF_sparkVars(Receive(n, m))
         /\ SF_sparkVars(SendHandshake(n, m))
         /\ WF_sparkVars(HeartbeatTimeout(n, m))
         /\ WF_sparkVars(NegotiateTimeout(n, m))
         /\ WF_sparkVars(GRTimeout(n, m))

SparkSpec == SparkInit /\ [][SparkNext]_sparkVars

-----------------------------------------------------------------------------
(* Properties *)

(* No CHECK of the state machine fails (Spark.cpp:176 getNextState, 1176             *)
(* checkNeighborState): no timer and no packet meets a state it has no transition in. *)
SparkChecksHold == ~sparkAborted

(* A neighbour is never stuck: in every state that waits for something there is the     *)
(* timer that ends the wait, and no timer survives the state it was started for, except *)
(* the restart timer, which covers the negotiation after a restart                      *)
(* (Spark.cpp:1303 neighborUpWrapper, 1494 processNegotiateTimeout, 1552 processGRMsg). *)
TimersFollowState ==
  \A n \in SparkNodes : \A m \in Others(n) :
    LET nbr == sparkNeighbors[n][m]
    IN  /\ nbr.negotiateHoldTimer <=> nbr.state = "NEGOTIATE"
        /\ nbr.negotiateTimer <=> nbr.state = "NEGOTIATE"
        /\ nbr.heartbeatHoldTimer <=> nbr.state = "ESTABLISHED"
        /\ nbr.state = "RESTART" => nbr.grHoldTimer
        /\ nbr.grHoldTimer => nbr.state \in {"WARM", "NEGOTIATE", "RESTART"}
        /\ nbr.state = "NONE" \/ helloTimer[n] # "off"

(* LinkMonitor, which only sees the neighbour events, believes exactly the active      *)
(* neighbours to be up or restarting, and a neighbour counts as active exactly from    *)
(* its establishment to its end, restarts included (Spark.cpp:1303, 1394; the second   *)
(* conjunct is what updateGlobalCounters at 2767 CHECKs).                              *)
ReportedIsActive ==
  \A n \in SparkNodes : \A m \in Others(n) :
    LET nbr == sparkNeighbors[n][m]
    IN  /\ reported[n][m] # "down" <=> m \in activeNeighbors[n]
        /\ m \in activeNeighbors[n] <=> (nbr.state = "ESTABLISHED" \/ nbr.grHoldTimer)
        /\ reported[n][m] = "restarting" <=> nbr.grHoldTimer

(* NEIGHBOR_DISCOVERED is published once per start, when one of the discovery timers   *)
(* or the last neighbour ends the wait (Spark.cpp:465, 1386).                          *)
DiscoveredOnce ==
  \A n \in SparkNodes :
    /\ discovered[n] = IF maxTimer[n] = "off" THEN 1 ELSE 0
    /\ minTimer[n] => maxTimer[n] = "on"

(* Ordered initialization (Spark.cpp:1303, 2165): the adjacency to a node that starts  *)
(* is kept from everybody else's routes until a heartbeat of an initialized process    *)
(* clears it, unless the neighbour restarted gracefully or without this node noticing. *)
HeldUntilInitialized ==
  \A n \in SparkNodes : \A m \in Others(n) :
    (/\ sparkNeighbors[n][m].state = "ESTABLISHED"
     /\ ~sparkNeighbors[n][m].adjOnlyUsedByOtherNode
     /\ n \notin Starting
     /\ incarnation[n] = 1 /\ incarnation[m] = 1)
    => initialized[m]

Adjacent(n, m) == sparkNeighbors[n][m].state = "ESTABLISHED"

Compatible == \A n \in SparkNodes : \A m \in Others(n) : <<n, m>> \in accepts

(* On a reliable link, nodes that accept each other become neighbours of each   *)
(* other, stay so, and use the adjacency, whatever states the trouble before left them *)
(* in: the deadlock described at Spark.cpp:1996 does not happen.                       *)
Converges ==
  Compatible => <>[](\A n \in SparkNodes : \A m \in Others(n) :
                       Adjacent(n, m) /\ ~sparkNeighbors[n][m].adjOnlyUsedByOtherNode)

(* Spark between two events: no CHECK failed, every wait has its timer, LinkMonitor knows of *)
(* exactly the active neighbours, and a starting neighbour is held back (Spark.cpp).         *)
SparkInvariant ==
  /\ SparkTypeOK
  /\ SparkChecksHold
  /\ TimersFollowState
  /\ ReportedIsActive
  /\ DiscoveredOnce
  /\ HeldUntilInitialized

================================================================================
