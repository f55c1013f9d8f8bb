------------------------------ MODULE RouteStream ------------------------------
(***************************************************************************)
(* A queue of route updates from one module to another (Decision to Fib,   *)
(* PrefixManager to Decision, Fib to PrefixManager, Fib to its snoopers):  *)
(* openr/messaging/Queue-inl.h (RWQueue with a push-time coalescer) with   *)
(* the coalescers of openr/decision/RouteUpdate.h, as openr/Main.cpp wires *)
(* them.                                                                   *)
(*                                                                         *)
(* A key stands for a unicast prefix or an MPLS label.  An update gives    *)
(* every key a route, "delete" or "keep" (not mentioned).  A FULL_SYNC     *)
(* replaces the reader's table.  A snooper starts from a snapshot of Fib's *)
(* routes and cannot tell the two types apart (RouteDatabaseDelta has no   *)
(* type); Fib sends it FULL_SYNC only as the first update, and the model   *)
(* assumes that it still has the routes of the snapshot.  synced and the   *)
(* types of prefixes are what the initialization of the reader waits for.  *)
(***************************************************************************)
EXTENDS Integers, Sequences

CONSTANTS Keys, Routes, PrefixTypes,
          Offers,          \* the updates producers push
          Readers,         \* of "fifo", "coalescing", "snoop"
          Snapshots,       \* the states a snooper may start from
          NoUpdate,        \* not an update
          MaxPublished     \* bound

Update == [type : {"FULL_SYNC", "INCREMENTAL"},
           routes : [Keys -> Routes \cup {"keep", "delete"}], types : SUBSET PrefixTypes]
RouteState == [table : [Keys -> Routes \cup {"none"}], types : SUBSET PrefixTypes, synced : BOOLEAN]
NoRoutes == [table |-> [k \in Keys |-> "none"], types |-> {}, synced |-> FALSE]

FirstViews == {NoRoutes} \cup Snapshots

ASSUME RouteStreamAssumption ==
  /\ Offers \subseteq Update
  /\ Readers \subseteq {"fifo", "coalescing", "snoop"}
  /\ Snapshots \subseteq RouteState
  /\ NoUpdate \notin [u : Update, upto : Nat]
  /\ {"keep", "delete", "none"} \cap Routes = {}
  /\ MaxPublished \in Nat

VARIABLES rsReader,     \* which reader this is
          rsQueue,      \* queue_: pending updates, with the position they bring the reader to
          rsWaiting,    \* pendingReads_: the reader waits for the next push
          rsHand,       \* the update handed to the reader
          rsClosed,     \* closed_
          rsPublished, rsSeen, rsView   \* the states published, and the reader's

rsVars == <<rsReader, rsQueue, rsWaiting, rsHand, rsClosed, rsPublished, rsSeen, rsView>>

(* The state after an update: what the producer means, and what the reader makes of it. *)
Apply(reader, u, s) ==
  [table |-> [k \in Keys |->
                IF u.routes[k] \in Routes THEN u.routes[k]
                ELSE IF u.routes[k] = "delete" \/ (u.type = "FULL_SYNC" /\ reader # "snoop") THEN "none"
                ELSE s.table[k]],
   types |-> s.types \cup u.types,
   synced |-> s.synced \/ u.type = "FULL_SYNC"]

(* A later update wins; a whole table stays one, and forgets the keys that are deleted. *)
mergeInPlace(u, v) ==
  [u EXCEPT !.routes = [k \in Keys |-> IF v.routes[k] = "keep" THEN u.routes[k]
                                       ELSE IF v.routes[k] = "delete" /\ u.type = "FULL_SYNC" THEN "keep"
                                       ELSE v.routes[k]],
            !.types = u.types \cup v.types]

coalesceDecisionRouteUpdates(u, v) ==
  IF v.type = "FULL_SYNC" THEN [v EXCEPT !.types = v.types \cup u.types] ELSE mergeInPlace(u, v)

(* Whether the coalescer takes the incoming update, and what becomes of the pending one. *)
Coalesces_Snoop(reader, u, v) == reader \in {"coalescing", "snoop"}
Coalesces(reader, u, v) ==
  \/ reader = "coalescing"
  \/ reader = "snoop" /\ u.type = "INCREMENTAL" /\ v.type = "INCREMENTAL"
Coalesced(u, v) == coalesceDecisionRouteUpdates(u, v)

--------------------------------------------------------------------------------
RouteStreamInit ==
  /\ rsReader \in Readers
  /\ rsQueue = <<>> /\ rsWaiting = FALSE /\ rsHand = NoUpdate /\ rsClosed = FALSE
  /\ rsView \in IF rsReader = "snoop" THEN FirstViews ELSE {NoRoutes}
  /\ rsPublished = <<rsView>> /\ rsSeen = 1

Push(u) ==
  /\ ~rsClosed
  /\ Len(rsPublished) < MaxPublished
  /\ rsReader = "snoop" /\ u.type = "FULL_SYNC" =>
       /\ Len(rsPublished) = 1
       /\ \A k \in Keys : rsPublished[1].table[k] # "none" => u.routes[k] \in Routes
  /\ LET e == [u |-> u, upto |-> Len(rsPublished) + 1]
         n == Len(rsQueue)
     IN \/ /\ rsWaiting
           /\ rsHand' = e /\ rsWaiting' = FALSE
           /\ UNCHANGED rsQueue
        \/ /\ ~rsWaiting
           /\ n > 0 /\ Coalesces(rsReader, rsQueue[n].u, u)
           /\ rsQueue' = [rsQueue EXCEPT ![n] = [u |-> Coalesced(rsQueue[n].u, u), upto |-> e.upto]]
           /\ UNCHANGED <<rsWaiting, rsHand>>
        \/ /\ ~rsWaiting
           /\ n > 0 => ~Coalesces(rsReader, rsQueue[n].u, u)
           /\ rsQueue' = Append(rsQueue, e)
           /\ UNCHANGED <<rsWaiting, rsHand>>
  /\ rsPublished' = Append(rsPublished, Apply("fifo", u, rsPublished[Len(rsPublished)]))
  /\ UNCHANGED <<rsReader, rsClosed, rsSeen, rsView>>

(* get: take the head, or wait for the next push. *)
Get ==
  /\ ~rsClosed /\ ~rsWaiting /\ rsHand = NoUpdate
  /\ IF rsQueue = <<>>
     THEN rsWaiting' = TRUE /\ UNCHANGED <<rsQueue, rsHand>>
     ELSE rsHand' = Head(rsQueue) /\ rsQueue' = Tail(rsQueue) /\ UNCHANGED rsWaiting
  /\ UNCHANGED <<rsReader, rsClosed, rsPublished, rsSeen, rsView>>

(* The reader applies what it was handed. *)
Consume ==
  /\ rsHand # NoUpdate
  /\ rsView' = Apply(rsReader, rsHand.u, rsView)
  /\ rsSeen' = rsHand.upto
  /\ rsHand' = NoUpdate
  /\ UNCHANGED <<rsReader, rsQueue, rsWaiting, rsClosed, rsPublished>>

Close ==
  /\ ~rsClosed
  /\ rsClosed' = TRUE /\ rsQueue' = <<>> /\ rsWaiting' = FALSE
  /\ UNCHANGED <<rsReader, rsHand, rsPublished, rsSeen, rsView>>

RouteStreamNext == (\E u \in Offers : Push(u)) \/ Get \/ Consume \/ Close

RouteStreamSpec == RouteStreamInit /\ [][RouteStreamNext]_rsVars

--------------------------------------------------------------------------------
OneLane(x) == [l \in {"routes"} |-> x]
Stream == INSTANCE StateStream WITH StreamLanes <- {"routes"}, States <- RouteState, FirstStates <- FirstViews,
            published <- OneLane(rsPublished), seen <- OneLane(rsSeen), view <- OneLane(rsView)

(* Coalescing is invisible: whatever a reader missed while it was slow, its table, the prefix types *)
(* and the sync it was told of are always those of one update pushed, and move only forward. *)
RefinesStream == Stream!StreamSpec

(* The state the reader will have reached when the i-th pending update comes. *)
Before(i) == IF i > 1 THEN rsQueue[i - 1].upto ELSE IF rsHand # NoUpdate THEN rsHand.upto ELSE rsSeen

(* A pending update leads from the state before it to a published one, and the last one to the *)
(* latest: what the queue holds is exactly what the reader still has to learn. *)
QueueLeadsToLatest ==
  /\ \A i \in 1..Len(rsQueue) :
       Apply(rsReader, rsQueue[i].u, rsPublished[Before(i)]) = rsPublished[rsQueue[i].upto]
  /\ ~rsClosed => Before(Len(rsQueue) + 1) = Len(rsPublished)

(* A stalled reader costs no memory: at most one update waits for a coalescing reader, and two *)
(* for a snooper, the FULL_SYNC and one merged update. *)
BacklogIsBounded ==
  /\ rsReader = "coalescing" => Len(rsQueue) <= 1
  /\ rsReader = "snoop" => Len(rsQueue) <= 2

(* Types of the queue, of what its reader has in hand and of what was pushed (RWQueue). *)
RouteStreamTypeOK ==
  /\ rsReader \in Readers
  /\ rsQueue \in Seq([u : Update, upto : Nat])
  /\ rsHand \in [u : Update, upto : Nat] \cup {NoUpdate}
  /\ rsWaiting \in BOOLEAN /\ rsClosed \in BOOLEAN
  /\ rsPublished \in Seq(RouteState)
  /\ rsSeen \in Nat /\ rsView \in RouteState
================================================================================
