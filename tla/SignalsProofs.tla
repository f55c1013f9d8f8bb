------------------------------ MODULE SignalsProofs ------------------------------
(***************************************************************************)
(* Proofs about what one module tells another: the route updates, which    *)
(* are coalesced while their reader is behind (RouteStream), and the peers *)
(* and the signals of the initialization (LinkMonitorPeers, KvStoreInit).  *)
(***************************************************************************)
EXTENDS KvStoreInit, RouteStream, TLAPS

(* Most steps are first-order; the ones with arithmetic or records say SMT. *)
USE Zenon

(***************************************************************************)
(* For every set of keys and routes, every reader and every sequence of    *)
(* updates: coalescing route updates implements StateStream.               *)
(***************************************************************************)
Element == [u : Update, upto : Nat]

(* The inductive invariant: a chain of updates leads from the reader's view, over the update in *)
(* its hand and those pending, to the latest state. *)
HandLeadsOn ==
  rsHand # NoUpdate => /\ rsHand.upto \in (rsSeen + 1)..Len(rsPublished)
                       /\ Apply(rsReader, rsHand.u, rsView) = rsPublished[rsHand.upto]
ChainAdvances ==
  \A i \in 1..Len(rsQueue) :
    /\ Before(i) \in 1..Len(rsPublished)
    /\ rsQueue[i].upto \in (Before(i) + 1)..Len(rsPublished)
WaitsForNothing == rsWaiting => rsQueue = <<>> /\ rsHand = NoUpdate
SnoopedTypes ==
  rsReader = "snoop" /\ Len(rsQueue) > 1 =>
    /\ rsQueue[1].u.type = "FULL_SYNC"
    /\ \A i \in 2..Len(rsQueue) : rsQueue[i].u.type = "INCREMENTAL"
ChainInv ==
  /\ RouteStreamTypeOK
  /\ rsSeen \in 1..Len(rsPublished) /\ rsView = rsPublished[rsSeen]
  /\ HandLeadsOn /\ ChainAdvances /\ QueueLeadsToLatest /\ WaitsForNothing
  /\ SnoopedTypes /\ BacklogIsBounded

--------------------------------------------------------------------------------
(* Applying an update to a state gives a state (Fib::RouteState::update). *)
LEMMA ApplyType ==
  ASSUME NEW reader, NEW u \in Update, NEW s \in RouteState
  PROVE  Apply(reader, u, s) \in RouteState
<1>1. [k \in Keys |->
         IF u.routes[k] \in Routes THEN u.routes[k]
         ELSE IF u.routes[k] = "delete" \/ (u.type = "FULL_SYNC" /\ reader # "snoop") THEN "none"
         ELSE s.table[k]] \in [Keys -> Routes \cup {"none"}]
  BY DEF Update, RouteState
<1>2. s.types \cup u.types \in SUBSET PrefixTypes
  BY DEF Update, RouteState
<1>3. (s.synced \/ u.type = "FULL_SYNC") \in BOOLEAN
  OBVIOUS
<1> QED BY <1>1, <1>2, <1>3 DEF Apply, RouteState

(* Merging two updates gives an update (mergeInPlace, coalesceDecisionRouteUpdates). *)
LEMMA CoalescedType ==
  ASSUME NEW u \in Update, NEW v \in Update
  PROVE  Coalesced(u, v) \in Update
<1>1. CASE v.type = "FULL_SYNC"
  BY <1>1 DEF Coalesced, coalesceDecisionRouteUpdates, Update
<1>2. CASE v.type # "FULL_SYNC"
  <2>1. [k \in Keys |-> IF v.routes[k] = "keep" THEN u.routes[k]
                        ELSE IF v.routes[k] = "delete" /\ u.type = "FULL_SYNC" THEN "keep"
                        ELSE v.routes[k]] \in [Keys -> Routes \cup {"keep", "delete"}]
    BY DEF Update
  <2>2. u.types \cup v.types \in SUBSET PrefixTypes
    BY DEF Update
  <2> QED BY <1>2, <2>1, <2>2 DEF Coalesced, coalesceDecisionRouteUpdates, mergeInPlace, Update
<1> QED BY <1>1, <1>2

(* Reading a coalesced update is reading the two one after the other. *)
LEMMA CoalescingIsSequential ==
  ASSUME NEW reader \in {"fifo", "coalescing", "snoop"}, NEW u \in Update, NEW v \in Update,
         NEW s \in RouteState, Coalesces(reader, u, v)
  PROVE  Apply(reader, Coalesced(u, v), s) = Apply(reader, v, Apply(reader, u, s))
<1> DEFINE c == Coalesced(u, v)
           one == Apply(reader, c, s)
           two == Apply(reader, v, Apply(reader, u, s))
<1>0. /\ c \in Update
      /\ u.routes \in [Keys -> Routes \cup {"keep", "delete"}]
      /\ v.routes \in [Keys -> Routes \cup {"keep", "delete"}]
  BY CoalescedType DEF Update
<1>1. c.types = u.types \cup v.types
  BY DEF Coalesced, coalesceDecisionRouteUpdates, mergeInPlace, Update
<1>2. c.type = "FULL_SYNC" <=> u.type = "FULL_SYNC" \/ v.type = "FULL_SYNC"
  BY DEF Coalesced, coalesceDecisionRouteUpdates, mergeInPlace, Update
<1>3. ASSUME NEW k \in Keys PROVE one.table[k] = two.table[k]
  <2>1. CASE v.type = "FULL_SYNC"
    <3>1. c.routes = v.routes /\ reader # "snoop"
      BY <2>1 DEF Coalesced, coalesceDecisionRouteUpdates, Coalesces, Update
    <3> QED BY <2>1, <3>1, <1>2, <1>3 DEF Apply
  <2>2. CASE v.type # "FULL_SYNC"
    <3>1. c.routes[k] = IF v.routes[k] = "keep" THEN u.routes[k]
                        ELSE IF v.routes[k] = "delete" /\ u.type = "FULL_SYNC" THEN "keep"
                        ELSE v.routes[k]
      BY <2>2, <1>3 DEF Coalesced, coalesceDecisionRouteUpdates, mergeInPlace, Update
    <3>2. u.type = "FULL_SYNC" => reader # "snoop"
      BY DEF Coalesces
    <3>3. {"keep", "delete", "none"} \cap Routes = {}
      BY RouteStreamAssumption
    <3> QED BY <2>2, <3>1, <3>2, <3>3, <1>0, <1>2, <1>3 DEF Apply
  <2> QED BY <2>1, <2>2
<1>4. one.table = two.table
  BY <1>3 DEF Apply
<1>5. one.types = two.types
  BY <1>1 DEF Apply
<1>6. one.synced = two.synced
  BY <1>2 DEF Apply
<1> QED BY <1>4, <1>5, <1>6 DEF Apply
(* A reader makes of an update what its producer means: a snooper never sees a FULL_SYNC that drops *)
(* a route it has (Fib sends FULL_SYNC only first). *)
LEMMA ReaderAgrees ==
  ASSUME NEW reader, NEW u \in Update, NEW s \in RouteState,
         reader = "snoop" /\ u.type = "FULL_SYNC" =>
           \A k \in Keys : s.table[k] # "none" => u.routes[k] \in Routes
  PROVE  Apply(reader, u, s) = Apply("fifo", u, s)
<1>1. ASSUME NEW k \in Keys PROVE Apply(reader, u, s).table[k] = Apply("fifo", u, s).table[k]
  BY <1>1 DEF Apply, RouteState, Update
<1>2. Apply(reader, u, s).table = Apply("fifo", u, s).table
  BY <1>1 DEF Apply
<1> QED BY <1>2 DEF Apply

--------------------------------------------------------------------------------
LEMMA ChainInit == RouteStreamInit => ChainInv
<1> SUFFICES ASSUME RouteStreamInit PROVE ChainInv
  OBVIOUS
<1>1. NoRoutes \in RouteState
  BY DEF NoRoutes, RouteState
<1>2. rsView \in RouteState
  BY <1>1, RouteStreamAssumption DEF RouteStreamInit, FirstViews
<1>3. RouteStreamTypeOK
  <2>1. <<rsView>> \in Seq(RouteState) /\ rsQueue \in Seq([u : Update, upto : Nat])
    BY SMT, <1>2 DEF RouteStreamInit
  <2> QED BY <1>2, <2>1 DEF RouteStreamInit, RouteStreamTypeOK
<1> QED
  BY SMT, <1>2, <1>3 DEF RouteStreamInit, ChainInv, HandLeadsOn, ChainAdvances, QueueLeadsToLatest, Before,
                    WaitsForNothing, SnoopedTypes, BacklogIsBounded

(* The reader takes the head of the queue or waits (RWQueue::get). *)
LEMMA GetKeepsChain == ChainInv /\ Get => ChainInv'
<1> SUFFICES ASSUME ChainInv, Get PROVE ChainInv'
  OBVIOUS
<1> USE DEF ChainInv
<1>1. CASE rsQueue = <<>>
  BY <1>1 DEF Get, RouteStreamTypeOK, HandLeadsOn, ChainAdvances, QueueLeadsToLatest, Before,
              WaitsForNothing, SnoopedTypes, BacklogIsBounded
<1>2. CASE rsQueue # <<>>
  <2>0. rsQueue \in Seq(Element) /\ rsPublished \in Seq(RouteState)
    BY DEF RouteStreamTypeOK, Element
  <2>1. /\ Len(rsQueue) \in Nat \ {0} /\ Head(rsQueue) = rsQueue[1]
        /\ rsHand = NoUpdate /\ rsHand' = rsQueue[1] /\ rsQueue' = Tail(rsQueue)
        /\ rsQueue[1] \in Element /\ rsHand' # NoUpdate
        /\ UNCHANGED <<rsReader, rsWaiting, rsClosed, rsPublished, rsSeen, rsView>>
    <3>1. Len(rsQueue) \in Nat \ {0} /\ Head(rsQueue) = rsQueue[1] /\ rsQueue[1] \in Element
      BY SMT, <1>2, <2>0
    <3>2. NoUpdate \notin Element
      BY RouteStreamAssumption DEF Element
    <3> QED BY <1>2, <3>1, <3>2 DEF Get
  <2>2. /\ Len(rsQueue') = Len(rsQueue) - 1
        /\ \A i \in 1..Len(rsQueue') : rsQueue'[i] = rsQueue[i + 1]
    BY SMT, <2>1
  <2>3. Before(1) = rsSeen
    BY SMT, <2>1 DEF Before
  <2>5. RouteStreamTypeOK'
    BY SMT, <2>1 DEF RouteStreamTypeOK, Element
  <2>6. HandLeadsOn'
    BY SMT, <2>1, <2>3 DEF HandLeadsOn, ChainAdvances, QueueLeadsToLatest
  <2>7. ChainAdvances'
    BY SMT, <2>0, <2>1, <2>2 DEF ChainAdvances, Before
  <2>8. QueueLeadsToLatest'
    <3>1. ASSUME NEW i \in 1..Len(rsQueue')
          PROVE  (Apply(rsReader, rsQueue[i].u, rsPublished[Before(i)]) = rsPublished[rsQueue[i].upto])'
      <4>1. i + 1 \in 1..Len(rsQueue)
        BY SMT, <2>1, <2>2, <3>1
      <4>2. Apply(rsReader, rsQueue[i + 1].u, rsPublished[Before(i + 1)]) = rsPublished[rsQueue[i + 1].upto]
        BY <4>1 DEF QueueLeadsToLatest
      <4>3. Before(i)' = Before(i + 1)
        BY SMT, <2>0, <2>1, <2>2, <3>1 DEF Before
      <4> QED BY <2>1, <2>2, <3>1, <4>2, <4>3
    <3>2. ASSUME ~rsClosed PROVE (Before(Len(rsQueue) + 1) = Len(rsPublished))'
      <4>1. Before(Len(rsQueue) + 1) = Len(rsPublished)
        BY <3>2 DEF QueueLeadsToLatest
      <4>2. Before(Len(rsQueue) + 1)' = Before(Len(rsQueue) + 1)
        BY SMT, <2>0, <2>1, <2>2 DEF Before
      <4> QED BY <2>1, <4>1, <4>2
    <3> QED BY <2>1, <3>1, <3>2 DEF QueueLeadsToLatest
  <2>9. WaitsForNothing' /\ SnoopedTypes' /\ BacklogIsBounded'
    BY SMT, <2>1, <2>2 DEF Get, WaitsForNothing, SnoopedTypes, BacklogIsBounded
  <2> QED BY <2>1, <2>5, <2>6, <2>7, <2>8, <2>9
<1> QED BY <1>1, <1>2

(* The reader applies the update in its hand. *)
LEMMA ConsumeKeepsChain == ChainInv /\ Consume => ChainInv'
<1> SUFFICES ASSUME ChainInv, Consume PROVE ChainInv'
  OBVIOUS
<1> USE DEF ChainInv
<1>1. /\ rsHand # NoUpdate /\ rsHand' = NoUpdate
      /\ rsSeen' = rsHand.upto /\ rsView' = rsPublished[rsHand.upto]
      /\ rsHand.upto \in 1..Len(rsPublished)
      /\ UNCHANGED <<rsReader, rsQueue, rsWaiting, rsClosed, rsPublished>>
  BY SMT DEF Consume, HandLeadsOn, RouteStreamTypeOK
<1>3. RouteStreamTypeOK'
  BY SMT, <1>1 DEF RouteStreamTypeOK
<1>4. ChainAdvances'
  BY <1>1 DEF ChainAdvances, Before
<1>5. QueueLeadsToLatest'
  BY <1>1 DEF QueueLeadsToLatest, Before
<1> QED BY <1>1, <1>3, <1>4, <1>5 DEF HandLeadsOn, WaitsForNothing, SnoopedTypes, BacklogIsBounded

LEMMA CloseKeepsChain == ChainInv /\ Close => ChainInv'
<1> SUFFICES ASSUME ChainInv, Close PROVE ChainInv'
  OBVIOUS
<1>1. rsQueue' = <<>> /\ rsWaiting' = FALSE /\ rsClosed' = TRUE
      /\ UNCHANGED <<rsReader, rsHand, rsPublished, rsSeen, rsView>>
  BY DEF Close
<1>2. RouteStreamTypeOK'
  <2>1. <<>> \in Seq([u : Update, upto : Nat])
    BY SMT
  <2> QED BY <1>1, <2>1 DEF ChainInv, RouteStreamTypeOK
<1>3. ChainAdvances' /\ SnoopedTypes' /\ BacklogIsBounded'
  BY SMT, <1>1 DEF ChainInv, ChainAdvances, SnoopedTypes, BacklogIsBounded
<1>4. QueueLeadsToLatest'
  BY SMT, <1>1 DEF QueueLeadsToLatest
<1> QED BY <1>1, <1>2, <1>3, <1>4 DEF ChainInv, HandLeadsOn, WaitsForNothing

(* A push hands the update to a waiting reader, folds it into the last one pending, or appends it *)
(* (RWQueue::push). *)
LEMMA PushKeepsChain ==
  ASSUME NEW u \in Offers, ChainInv, Push(u)
  PROVE  ChainInv'
<1> DEFINE N == Len(rsPublished)
           n == Len(rsQueue)
           new == Apply("fifo", u, rsPublished[N])
           e == [u |-> u, upto |-> N + 1]
<1>1. /\ u \in Update /\ rsReader \in {"fifo", "coalescing", "snoop"}
      /\ rsPublished \in Seq(RouteState) /\ rsQueue \in Seq(Element)
      /\ N \in Nat /\ N >= 1 /\ n \in Nat
      /\ rsSeen \in 1..N /\ rsView = rsPublished[rsSeen] /\ rsView \in RouteState
  BY SMT, RouteStreamAssumption DEF ChainInv, RouteStreamTypeOK, Element
<1>2. rsPublished[N] \in RouteState /\ new \in RouteState
  BY SMT, <1>1, ApplyType
<1>3. /\ rsPublished' = Append(rsPublished, new) /\ Len(rsPublished') = N + 1
      /\ \A i \in 1..N : rsPublished'[i] = rsPublished[i]
      /\ rsPublished'[N + 1] = new
      /\ rsPublished' \in Seq(RouteState)
  BY SMT, <1>1, <1>2 DEF Push
<1>4. Apply(rsReader, u, rsPublished[N]) = new
  <2>1. rsReader = "snoop" /\ u.type = "FULL_SYNC" =>
          \A k \in Keys : rsPublished[N].table[k] # "none" => u.routes[k] \in Routes
    BY DEF Push
  <2> QED BY <1>1, <1>2, <2>1, ReaderAgrees
<1>5. Before(n + 1) = N /\ ~rsClosed /\ UNCHANGED <<rsReader, rsClosed, rsSeen, rsView>>
  BY DEF ChainInv, QueueLeadsToLatest, Push
<1>6. e \in Element /\ e # NoUpdate /\ e.u = u /\ e.upto = N + 1
  BY SMT, <1>1, RouteStreamAssumption DEF Element
<1>7. CASE rsWaiting
  <2>1. rsQueue = <<>> /\ rsHand = NoUpdate /\ rsSeen = N /\ n = 0
    BY SMT, <1>1, <1>5, <1>7 DEF ChainInv, WaitsForNothing, Before
  <2>2. rsHand' = e /\ rsWaiting' = FALSE /\ rsQueue' = rsQueue
    BY <1>7 DEF Push
  <2>3. RouteStreamTypeOK'
    BY <1>1, <1>3, <1>5, <1>6, <2>2 DEF ChainInv, RouteStreamTypeOK, Element
  <2>4. HandLeadsOn'
    BY SMT, <1>1, <1>3, <1>4, <1>5, <1>6, <2>1, <2>2 DEF HandLeadsOn
  <2>5. ChainAdvances' /\ SnoopedTypes' /\ BacklogIsBounded' /\ WaitsForNothing'
    BY SMT, <2>1, <2>2 DEF ChainAdvances, SnoopedTypes, BacklogIsBounded, WaitsForNothing
  <2>6. QueueLeadsToLatest'
    BY SMT, <1>3, <1>6, <2>1, <2>2 DEF QueueLeadsToLatest, Before
  <2> QED BY SMT, <1>1, <1>3, <1>5, <2>3, <2>4, <2>5, <2>6 DEF ChainInv
<1>8. HandLeadsOn' \/ rsWaiting
  <2>1. rsWaiting \/ rsHand' = rsHand
    BY DEF Push
  <2> QED BY SMT, <1>1, <1>3, <1>5, <2>1 DEF ChainInv, HandLeadsOn
<1>9. CASE ~rsWaiting /\ n > 0 /\ Coalesces(rsReader, rsQueue[n].u, u)
  <2> DEFINE c == Coalesced(rsQueue[n].u, u)
             f == [u |-> c, upto |-> N + 1]
  <2>1. /\ rsQueue' = [rsQueue EXCEPT ![n] = f]
        /\ rsWaiting' = rsWaiting /\ rsHand' = rsHand
    BY <1>9 DEF Push
  <2>2. rsQueue[n] \in Element /\ c \in Update /\ f \in Element
    <3>1. rsQueue[n] \in Element
      BY SMT, <1>1, <1>9
    <3>2. rsQueue[n].u \in Update
      BY <3>1 DEF Element
    <3>3. c \in Update
      BY <1>1, <3>2, CoalescedType
    <3> QED BY SMT, <1>1, <3>1, <3>3 DEF Element
  <2>3. /\ Len(rsQueue') = n /\ rsQueue'[n] = f /\ rsQueue' \in Seq(Element)
        /\ \A i \in 1..(n - 1) : rsQueue'[i] = rsQueue[i]
    BY SMT, <1>1, <1>9, <2>1, <2>2
  <2>4. rsQueue[n].upto = N
    BY SMT, <1>1, <1>5, <1>9 DEF Before
  <2>5. ASSUME NEW i \in 1..n PROVE Before(i)' = Before(i)
    <3>1. CASE i = 1
      BY SMT, <1>5, <2>1, <3>1 DEF Before
    <3>2. CASE i # 1
      <4>1. i - 1 \in 1..(n - 1) /\ i > 1
        BY SMT, <1>1, <3>2
      <4> QED BY <2>3, <4>1 DEF Before
    <3> QED BY <3>1, <3>2
  <2>6. \A i \in 1..n : Before(i) \in 1..N /\ rsQueue[i].upto \in (Before(i) + 1)..N
    BY DEF ChainInv, ChainAdvances
  <2>7. Apply(rsReader, c, rsPublished[Before(n)]) = new
    <3>1. rsPublished[Before(n)] \in RouteState
      BY SMT, <1>1, <1>9, <2>6
    <3>2. Apply(rsReader, rsQueue[n].u, rsPublished[Before(n)]) = rsPublished[N]
      BY SMT, <1>1, <1>9, <2>4 DEF ChainInv, QueueLeadsToLatest
    <3>3. rsQueue[n].u \in Update
      BY <2>2 DEF Element
    <3> QED BY SMT, <1>1, <1>4, <1>9, <3>1, <3>2, <3>3, CoalescingIsSequential
  <2>8. RouteStreamTypeOK'
    BY <1>1, <1>3, <1>5, <2>1, <2>3 DEF ChainInv, RouteStreamTypeOK, Element
  <2>9. ChainAdvances'
    <3> SUFFICES ASSUME NEW i \in 1..n
                 PROVE  /\ Before(i)' \in 1..(N + 1)
                        /\ rsQueue'[i].upto \in (Before(i)' + 1)..(N + 1)
      BY <1>3, <2>3 DEF ChainAdvances
    <3>1. Before(i)' = Before(i) /\ Before(i) \in 1..N /\ rsQueue[i].upto \in (Before(i) + 1)..N
      BY <2>5, <2>6
    <3>2. CASE i = n
      <4>1. rsQueue'[i].upto = N + 1
        BY SMT, <2>3, <3>2
      <4> QED BY SMT, <1>1, <3>1, <4>1
    <3>3. CASE i # n
      <4>1. rsQueue'[i] = rsQueue[i]
        BY SMT, <1>1, <2>3, <3>3
      <4> QED BY SMT, <1>1, <3>1, <4>1
    <3> QED BY <3>2, <3>3
  <2>10. QueueLeadsToLatest'
    <3>1. ASSUME NEW i \in 1..n
          PROVE  (Apply(rsReader, rsQueue[i].u, rsPublished[Before(i)]) = rsPublished[rsQueue[i].upto])'
      <4>1. Before(i)' = Before(i) /\ Before(i) \in 1..N /\ rsQueue[i].upto \in 1..N
        BY SMT, <1>1, <2>5, <2>6
      <4>2. CASE i = n
        BY SMT, <1>3, <1>5, <2>3, <2>7, <4>1, <4>2
      <4>3. CASE i # n
        <5>1. rsQueue'[i] = rsQueue[i]
          BY SMT, <1>1, <2>3, <4>3
        <5>2. Apply(rsReader, rsQueue[i].u, rsPublished[Before(i)]) = rsPublished[rsQueue[i].upto]
          BY DEF ChainInv, QueueLeadsToLatest
        <5> QED BY <1>3, <1>5, <4>1, <5>1, <5>2
      <4> QED BY <4>2, <4>3
    <3>2. (Before(Len(rsQueue) + 1) = Len(rsPublished))'
      BY SMT, <1>1, <1>3, <1>9, <2>3 DEF Before
    <3> QED BY <2>3, <3>1, <3>2 DEF QueueLeadsToLatest
  <2>11. SnoopedTypes' /\ BacklogIsBounded'
    <3>1. c.type = "INCREMENTAL" \/ rsReader # "snoop"
      BY SMT, <1>9 DEF Coalesces, Coalesced, coalesceDecisionRouteUpdates, mergeInPlace, Update
    <3>2. rsReader = "snoop" => rsQueue[n].u.type = "INCREMENTAL"
      BY <1>9 DEF Coalesces
    <3> QED BY SMT, <1>1, <1>5, <1>9, <2>3, <3>1, <3>2 DEF ChainInv, SnoopedTypes, BacklogIsBounded
  <2>12. WaitsForNothing'
    BY <1>9, <2>1 DEF WaitsForNothing
  <2> QED BY SMT, <1>1, <1>3, <1>5, <1>8, <1>9, <2>8, <2>9, <2>10, <2>11, <2>12 DEF ChainInv
<1>10. CASE ~rsWaiting /\ (n > 0 => ~Coalesces(rsReader, rsQueue[n].u, u))
  <2>1. rsQueue' = Append(rsQueue, e) /\ rsWaiting' = rsWaiting /\ rsHand' = rsHand
    BY <1>10 DEF Push
  <2>2. /\ Len(rsQueue') = n + 1 /\ rsQueue'[n + 1] = e /\ rsQueue' \in Seq(Element)
        /\ \A i \in 1..n : rsQueue'[i] = rsQueue[i]
    BY SMT, <1>1, <1>6, <2>1
  <2>3. \A i \in 1..(n + 1) : Before(i)' = Before(i)
    BY SMT, <1>1, <1>5, <2>1, <2>2 DEF Before
  <2>4. RouteStreamTypeOK'
    BY <1>1, <1>3, <1>5, <2>1, <2>2 DEF ChainInv, RouteStreamTypeOK, Element
  <2>5. ChainAdvances'
    <3> SUFFICES ASSUME NEW i \in 1..(n + 1)
                 PROVE  /\ Before(i)' \in 1..(N + 1)
                        /\ rsQueue'[i].upto \in (Before(i)' + 1)..(N + 1)
      BY <1>3, <2>2 DEF ChainAdvances
    <3>1. CASE i = n + 1
      BY SMT, <1>1, <1>5, <1>6, <2>2, <2>3, <3>1
    <3>2. CASE i \in 1..n
      <4>1. Before(i) \in 1..N /\ rsQueue[i].upto \in (Before(i) + 1)..N
        BY <3>2 DEF ChainInv, ChainAdvances
      <4>2. Before(i)' = Before(i) /\ rsQueue'[i].upto = rsQueue[i].upto /\ N \in Nat
        BY SMT, <1>1, <2>2, <2>3, <3>2
      <4> QED BY SMT, <4>1, <4>2
    <3> QED BY SMT, <1>1, <3>1, <3>2
  <2>6. QueueLeadsToLatest'
    <3>1. ASSUME NEW i \in 1..(n + 1)
          PROVE  (Apply(rsReader, rsQueue[i].u, rsPublished[Before(i)]) = rsPublished[rsQueue[i].upto])'
      <4>1. CASE i = n + 1
        BY SMT, <1>1, <1>3, <1>4, <1>5, <1>6, <2>2, <2>3, <4>1
      <4>2. CASE i \in 1..n
        <5>1. Apply(rsReader, rsQueue[i].u, rsPublished[Before(i)]) = rsPublished[rsQueue[i].upto]
          BY <4>2 DEF ChainInv, QueueLeadsToLatest
        <5>2. Before(i) \in 1..N /\ rsQueue[i].upto \in 1..N
          BY SMT, <1>1, <4>2 DEF ChainInv, ChainAdvances
        <5> QED BY <1>3, <1>5, <2>2, <2>3, <4>2, <5>1, <5>2
      <4> QED BY SMT, <1>1, <4>1, <4>2
    <3>2. (Before(Len(rsQueue) + 1) = Len(rsPublished))'
      BY SMT, <1>1, <1>3, <1>6, <2>2 DEF Before
    <3> QED BY <2>2, <3>1, <3>2 DEF QueueLeadsToLatest
  <2>7. SnoopedTypes' /\ BacklogIsBounded'
    <3>1. CASE rsReader # "snoop"
      BY SMT, <1>1, <1>5, <1>10, <2>2, <3>1 DEF ChainInv, SnoopedTypes, BacklogIsBounded, Coalesces
    <3>2. CASE rsReader = "snoop" /\ n = 0
      BY SMT, <1>1, <1>5, <2>2, <3>2 DEF SnoopedTypes, BacklogIsBounded
    <3>3. CASE rsReader = "snoop" /\ n > 0
      <4>1. N > 1
        BY SMT, <1>1, <3>3 DEF ChainInv, ChainAdvances
      <4>2. u.type = "INCREMENTAL" /\ rsQueue[n].u.type = "FULL_SYNC"
        <5>1. u.type = "INCREMENTAL"
          BY SMT, <1>1, <3>3, <4>1 DEF Push, Update
        <5>2. rsQueue[n] \in Element
          BY SMT, <1>1, <3>3
        <5> QED BY <1>10, <3>3, <5>1, <5>2 DEF Coalesces, Update, Element
      <4>3. n = 1
        <5>1. n > 1 => n \in 2..n /\ rsQueue[n].u.type = "INCREMENTAL"
          BY SMT, <1>1, <3>3 DEF ChainInv, SnoopedTypes
        <5>2. ~(n > 1)
          BY <4>2, <5>1
        <5>3. n \in Nat /\ n > 0
          BY <1>1, <3>3
        <5> HIDE DEF n
        <5> QED BY SMT, <5>2, <5>3
      <4> QED BY SMT, <1>5, <1>6, <2>2, <3>3, <4>2, <4>3 DEF SnoopedTypes, BacklogIsBounded
    <3> QED BY SMT, <1>1, <3>1, <3>2, <3>3
  <2>8. WaitsForNothing'
    BY <1>10, <2>1 DEF WaitsForNothing
  <2> QED BY SMT, <1>1, <1>3, <1>5, <1>8, <1>10, <2>4, <2>5, <2>6, <2>7, <2>8 DEF ChainInv
<1> QED BY <1>7, <1>9, <1>10 DEF Push

--------------------------------------------------------------------------------
(* The chain invariant holds of every reader of route updates. *)
LEMMA ChainIsInvariant == RouteStreamSpec => []ChainInv
<1>1. RouteStreamInit => ChainInv
  BY ChainInit
<1>2. ChainInv /\ [RouteStreamNext]_rsVars => ChainInv'
  <2> SUFFICES ASSUME ChainInv, [RouteStreamNext]_rsVars PROVE ChainInv'
    OBVIOUS
  <2>1. ASSUME NEW u \in Offers, Push(u) PROVE ChainInv'
    BY <2>1, PushKeepsChain
  <2>2. CASE Get
    BY <2>2, GetKeepsChain
  <2>3. CASE Consume
    BY <2>3, ConsumeKeepsChain
  <2>4. CASE Close
    BY <2>4, CloseKeepsChain
  <2>5. CASE UNCHANGED rsVars
    BY <2>5 DEF rsVars, ChainInv, RouteStreamTypeOK, HandLeadsOn, ChainAdvances, QueueLeadsToLatest, Before,
                WaitsForNothing, SnoopedTypes, BacklogIsBounded
  <2> QED BY <2>1, <2>2, <2>3, <2>4, <2>5 DEF RouteStreamNext
<1> QED BY <1>1, <1>2, PTL DEF RouteStreamSpec

(* What the queue of route updates holds is exactly what its reader still has to learn, and a *)
(* coalescing reader's backlog is one update, a snooper's two. *)
THEOREM QueueHoldsTheRest == RouteStreamSpec => [](QueueLeadsToLatest /\ BacklogIsBounded)
<1>1. ChainInv => QueueLeadsToLatest /\ BacklogIsBounded
  BY DEF ChainInv
<1> QED BY <1>1, ChainIsInvariant, PTL

(* Coalescing route updates (coalesceDecisionRouteUpdates, coalesceIncrementalRouteUpdates) is *)
(* invisible: the reader's routes, prefix types and sync are always those after some update *)
(* pushed, and only move forward. *)
THEOREM CoalescingImplementsStream == RouteStreamSpec => RefinesStream
<1>1. RouteStreamInit => Stream!StreamInit
  BY DEF RouteStreamInit, Stream!StreamInit, OneLane, FirstViews
<1>2. ChainInv /\ ChainInv' /\ [RouteStreamNext]_rsVars => [Stream!StreamNext]_(Stream!streamVars)
  <2> SUFFICES ASSUME ChainInv, ChainInv', [RouteStreamNext]_rsVars
               PROVE  [Stream!StreamNext]_(Stream!streamVars)
    OBVIOUS
  <2> USE DEF Stream!StreamNext, Stream!streamVars, OneLane
  <2>1. ASSUME NEW u \in Offers, Push(u) PROVE Stream!StreamNext
    <3>1. /\ rsPublished \in Seq(RouteState) /\ rsPublished' \in Seq(RouteState)
          /\ rsPublished' = Append(rsPublished, Apply("fifo", u, rsPublished[Len(rsPublished)]))
          /\ UNCHANGED <<rsSeen, rsView>>
      BY <2>1 DEF Push, ChainInv, RouteStreamTypeOK
    <3>2. /\ Len(rsPublished') = Len(rsPublished) + 1
          /\ rsPublished' = Append(rsPublished, rsPublished'[Len(rsPublished) + 1])
          /\ rsPublished'[Len(rsPublished) + 1] \in RouteState
      BY SMT, <3>1
    <3> QED BY <3>1, <3>2 DEF Stream!PublishIn
  <2>2. CASE Get
    BY <2>2 DEF Get, Stream!SameIn
  <2>3. CASE Consume
    <3>1. /\ rsSeen' \in (rsSeen + 1)..Len(rsPublished) /\ rsView' = rsPublished[rsSeen']
          /\ rsPublished' = rsPublished
      BY <2>3 DEF Consume, ChainInv, HandLeadsOn
    <3> QED BY <3>1 DEF Stream!ObserveIn
  <2>4. CASE Close
    BY <2>4 DEF Close, Stream!SameIn
  <2>5. CASE UNCHANGED rsVars
    BY <2>5 DEF rsVars
  <2> QED BY <2>1, <2>2, <2>3, <2>4, <2>5 DEF RouteStreamNext
<1> QED BY <1>1, <1>2, ChainIsInvariant, PTL DEF RouteStreamSpec, RefinesStream, Stream!StreamSpec

--------------------------------------------------------------------------------
(***************************************************************************)
(* For any areas, neighbours and adjacencies, and whatever the order in    *)
(* which adjacencies come, restart and go: LinkMonitor keeps a neighbour   *)
(* as a peer exactly while one of its adjacencies is up, KvStore is told   *)
(* of it, and KVSTORE_SYNCED waits for the peers of the initial event.     *)
(***************************************************************************)
Peer == [spec : Adjacencies \cup {NoAdjacency}, established : SUBSET Adjacencies]

(* What of the state the argument is about. *)
Tables ==
  /\ adjacencies \in [Adjacencies -> {"NONE", "UP", "RESTARTING"}]
  /\ peers \in [Areas -> [Neighbors -> Peer]]

IInv == Tables /\ PeersFollowAdjacencies

(* The three conjuncts of PeersFollowAdjacencies for one peer. *)
Follows(peer, up) ==
  /\ peer.established = up
  /\ up = {} => peer = NoPeer
  /\ up # {} => peer.spec \in up

LEMMA FollowsDef ==
  /\ PeersFollowAdjacencies <=>
       \A a \in Areas, n \in Neighbors : Follows(peers[a][n], UpAdjacencies(a, n))
  /\ PeersFollowAdjacencies' <=>
       \A a \in Areas, n \in Neighbors : Follows(peers'[a][n], UpAdjacencies(a, n)')
BY DEF PeersFollowAdjacencies, Follows

(* One adjacency changes, and its peer with it: only that peer has to be looked at. *)
LEMMA OnePeer ==
  ASSUME IInv, NEW adj \in Adjacencies, NEW s \in {"NONE", "UP", "RESTARTING"}, NEW peer \in Peer,
         adjacencies' = [adjacencies EXCEPT ![adj] = s],
         peers' = [peers EXCEPT ![adj.area][adj.node] = peer],
         Follows(peer, UpAdjacencies(adj.area, adj.node)')
  PROVE  IInv'
<1>1. adj.area \in Areas /\ adj.node \in Neighbors
  BY AdjacenciesAssumption
<1>2. \A a \in Areas, n \in Neighbors :
        peers'[a][n] = IF a = adj.area /\ n = adj.node THEN peer ELSE peers[a][n]
  BY <1>1 DEF IInv, Tables
<1>3. peers' \in [Areas -> [Neighbors -> Peer]]
  <2> DEFINE row == [peers[adj.area] EXCEPT ![adj.node] = peer]
  <2>1. peers' = [peers EXCEPT ![adj.area] = row]
    OBVIOUS
  <2>2. row \in [Neighbors -> Peer]
    BY <1>1 DEF IInv, Tables
  <2> QED BY <2>1, <2>2 DEF IInv, Tables
<1>4. \A a \in Areas, n \in Neighbors :
        ~(a = adj.area /\ n = adj.node) => UpAdjacencies(a, n)' = UpAdjacencies(a, n)
  BY DEF IInv, Tables, UpAdjacencies
<1>5. PeersFollowAdjacencies'
  <2> SUFFICES ASSUME NEW a \in Areas, NEW n \in Neighbors
               PROVE  Follows(peers'[a][n], UpAdjacencies(a, n)')
    BY FollowsDef
  <2>1. Follows(peers[a][n], UpAdjacencies(a, n))
    BY FollowsDef DEF IInv
  <2>2. CASE a = adj.area /\ n = adj.node
    BY <1>2, <2>2
  <2>3. CASE ~(a = adj.area /\ n = adj.node)
    BY SMT, <1>2, <1>4, <2>1, <2>3
  <2> QED BY <2>2, <2>3
<1> QED BY <1>3, <1>5 DEF IInv, Tables

(* A parallel adjacency or a first one. *)
LEMMA UpStep ==
  ASSUME IInv, NEW adj \in Adjacencies, NeighborUpEvent(adj)
  PROVE  IInv'
<1>1. adjacencies' = [adjacencies EXCEPT ![adj] = "UP"]
  BY DEF NeighborUpEvent
<1>2. adj.area \in Areas /\ adj.node \in Neighbors
  BY AdjacenciesAssumption
<1> DEFINE old == peers[adj.area][adj.node]
<1>3. old \in Peer
  BY <1>2 DEF IInv, Tables
<1>4. UpAdjacencies(adj.area, adj.node)' = UpAdjacencies(adj.area, adj.node) \cup {adj}
  BY <1>1 DEF IInv, Tables, UpAdjacencies
<1>5. Follows(old, UpAdjacencies(adj.area, adj.node))
  BY <1>2, FollowsDef DEF IInv
<1>6. CASE old = NoPeer
  <2> DEFINE new == [spec |-> adj, established |-> {adj}]
  <2>1. peers' = [peers EXCEPT ![adj.area][adj.node] = new]
    BY <1>6 DEF NeighborUpEvent, updateKvStorePeerNeighborUp
  <2>2. UpAdjacencies(adj.area, adj.node) = {}
    BY SMT, <1>5, <1>6 DEF Follows, NoPeer
  <2>3. new \in Peer
    BY DEF Peer
  <2>4. Follows(new, UpAdjacencies(adj.area, adj.node)')
    BY <1>4, <2>2 DEF Follows
  <2> HIDE DEF new
  <2> QED BY <1>1, <2>1, <2>3, <2>4, OnePeer
<1>7. CASE old # NoPeer
  <2> DEFINE new == [old EXCEPT !.established = @ \cup {adj}]
  <2>1. peers' = [peers EXCEPT ![adj.area][adj.node] = new]
    BY <1>7 DEF NeighborUpEvent, updateKvStorePeerNeighborUp
  <2>2. new \in Peer
    BY <1>3 DEF Peer
  <2>3. new.established = old.established \cup {adj} /\ new.spec = old.spec
    BY <1>3 DEF Peer
  <2>4. Follows(new, UpAdjacencies(adj.area, adj.node)')
    BY <1>4, <1>5, <1>7, <2>3 DEF Follows
  <2> HIDE DEF new
  <2> QED BY <1>1, <2>1, <2>2, <2>4, OnePeer
<1> QED BY <1>6, <1>7

(* An adjacency that was up or restarting is so no longer. *)
LEMMA DownStep ==
  ASSUME IInv, NEW adj \in Adjacencies, NEW s \in {"NONE", "RESTARTING"},
         adjacencies' = [adjacencies EXCEPT ![adj] = s],
         updateKvStorePeerNeighborDown(adj)
  PROVE  IInv'
<1>2. adj.area \in Areas /\ adj.node \in Neighbors
  BY AdjacenciesAssumption
<1> DEFINE old == peers[adj.area][adj.node]
           left == old.established \ {adj}
<1>3. old \in Peer
  BY <1>2 DEF IInv, Tables
<1>5. Follows(old, UpAdjacencies(adj.area, adj.node))
  BY <1>2, FollowsDef DEF IInv
<1>6. UpAdjacencies(adj.area, adj.node)' = UpAdjacencies(adj.area, adj.node) \ {adj}
  BY DEF IInv, Tables, UpAdjacencies
<1>4. UpAdjacencies(adj.area, adj.node)' = left
  BY <1>5, <1>6 DEF Follows
<1>7. CASE old = NoPeer
  <2>1. peers' = peers
    BY <1>7 DEF updateKvStorePeerNeighborDown
  <2>2. peers' = [peers EXCEPT ![adj.area][adj.node] = old]
    BY <1>2, <2>1 DEF IInv, Tables
  <2>3. Follows(old, UpAdjacencies(adj.area, adj.node)')
    BY SMT, <1>4, <1>7 DEF Follows, NoPeer
  <2> HIDE DEF old
  <2> QED BY <1>3, <2>2, <2>3, OnePeer
<1>8. CASE old # NoPeer /\ left = {}
  <2>1. peers' = [peers EXCEPT ![adj.area][adj.node] = NoPeer]
    BY <1>8 DEF updateKvStorePeerNeighborDown
  <2>2. NoPeer \in Peer
    BY DEF Peer, NoPeer
  <2>3. Follows(NoPeer, UpAdjacencies(adj.area, adj.node)')
    BY <1>4, <1>8 DEF Follows, NoPeer
  <2> QED BY <2>1, <2>2, <2>3, OnePeer
<1>9. CASE old # NoPeer /\ left # {} /\ old.spec # adj
  <2> DEFINE new == [old EXCEPT !.established = left]
  <2>1. peers' = [peers EXCEPT ![adj.area][adj.node] = new]
    BY <1>9 DEF updateKvStorePeerNeighborDown
  <2>2. new \in Peer
    BY <1>3 DEF Peer
  <2>3. new.established = left /\ new.spec = old.spec
    BY <1>3 DEF Peer
  <2>4. Follows(new, UpAdjacencies(adj.area, adj.node)')
    BY <1>4, <1>5, <1>6, <1>9, <2>3 DEF Follows
  <2> HIDE DEF new
  <2> QED BY <2>1, <2>2, <2>4, OnePeer
<1>10. CASE old # NoPeer /\ left # {} /\ old.spec = adj
  <2>1. PICK other \in left :
          peers' = [peers EXCEPT ![adj.area][adj.node] = [spec |-> other, established |-> left]]
    BY <1>10 DEF updateKvStorePeerNeighborDown
  <2> DEFINE new == [spec |-> other, established |-> left]
  <2>2. new \in Peer
    BY <1>3 DEF Peer
  <2>3. Follows(new, UpAdjacencies(adj.area, adj.node)')
    BY <1>4, <2>1 DEF Follows
  <2> HIDE DEF new
  <2> QED BY <2>1, <2>2, <2>3, OnePeer DEF new
<1> QED BY <1>7, <1>8, <1>9, <1>10

(* IInv is about the adjacencies and the peers. *)
LEMMA PeersUnchanged ==
  ASSUME IInv, UNCHANGED <<adjacencies, peers>>
  PROVE  IInv'
BY SMT DEF IInv, Tables, PeersFollowAdjacencies, UpAdjacencies

LEMMA PeersInit == LMInit => IInv
<1> SUFFICES ASSUME LMInit PROVE IInv
  OBVIOUS
<1>1. Tables
  BY DEF LMInit, Tables, NoPeer, Peer
<1>2. PeersFollowAdjacencies
  <2> SUFFICES ASSUME NEW a \in Areas, NEW n \in Neighbors
               PROVE  Follows(peers[a][n], UpAdjacencies(a, n))
    BY FollowsDef
  <2>1. UpAdjacencies(a, n) = {}
    BY DEF LMInit, UpAdjacencies
  <2>2. peers[a][n] = NoPeer
    BY DEF LMInit
  <2> QED BY SMT, <2>1, <2>2 DEF Follows, NoPeer
<1> QED BY <1>1, <1>2 DEF IInv

LEMMA PeersNext == IInv /\ LMNext => IInv'
<1> SUFFICES ASSUME IInv, LMNext PROVE IInv'
  OBVIOUS
<1>1. CASE \E adj \in Adjacencies : NeighborUpEvent(adj)
  BY <1>1, UpStep
<1>2. CASE \E adj \in Adjacencies : NeighborDownEvent(adj)
  BY <1>2, DownStep DEF NeighborDownEvent
<1>3. CASE \E adj \in Adjacencies : NeighborRestartingEvent(adj)
  BY <1>3, DownStep DEF NeighborRestartingEvent
<1>4. CASE NeighborDiscovered
  BY <1>4, PeersUnchanged DEF NeighborDiscovered
<1> QED BY <1>1, <1>2, <1>3, <1>4 DEF LMNext

(***************************************************************************)
(* LinkMonitor.cpp, neighborUpEvent, neighborDownEvent,                    *)
(* neighborRestartingEvent: at all times, for every network, a neighbour   *)
(* is a peer exactly while one of its adjacencies is up, and its KvStore   *)
(* session uses an adjacency that is up.  So it is with any reader of the  *)
(* peer events.                                                            *)
(***************************************************************************)
THEOREM PeersInvariance == LMSpec => []PeersFollowAdjacencies
<1> DEFINE Read == /\ peerUpdatesQueue # <<>>
                   /\ peerUpdatesQueue' = Tail(peerUpdatesQueue)
                   /\ UNCHANGED <<adjacencies, peers, initialNeighborsReceived, initialPeers, ups, downs>>
<1>1. ASSUME IInv, [LMNext \/ Read]_lmVars
      PROVE  IInv'
  <2>1. CASE Read
    BY <1>1, <2>1, PeersUnchanged
  <2>2. CASE UNCHANGED lmVars
    BY <1>1, <2>2, PeersUnchanged DEF lmVars
  <2> QED BY <1>1, <2>1, <2>2, PeersNext
<1>2. IInv => PeersFollowAdjacencies
  BY DEF IInv
<1> QED BY PeersInit, <1>1, <1>2, PTL DEF LMSpec

-----------------------------------------------------------------------------
(***************************************************************************)
(* What the events that wait for KvStore lead to.                          *)
(***************************************************************************)

(* An event that is about the neighbour has the last word, any other changes nothing. *)
LEMMA LeadsAfterAppend ==
  ASSUME NEW q \in Seq(PeerEvent), NEW e \in PeerEvent, NEW known, NEW a, NEW n, NEW spec,
         IF Mentions(e, a, n) THEN Says(e, a, n, spec) ELSE LeadsTo(q, known, a, n, spec)
  PROVE  LeadsTo(Append(q, e), known, a, n, spec)
<1>1. PICK r : r = Append(q, e)
  OBVIOUS
<1>2. /\ Len(q) \in Nat /\ Len(r) = Len(q) + 1
      /\ \A i \in 1..Len(q) : r[i] = q[i]
      /\ r[Len(q) + 1] = e
  BY SMT, <1>1
<1>3. CASE Mentions(e, a, n)
  <2>1. Says(e, a, n, spec)
    BY <1>3
  <2>2. ~\A i \in 1..Len(r) : ~Mentions(r[i], a, n)
    BY SMT, <1>2, <1>3
  <2>3. ASSUME NEW i \in 1..Len(r), \A j \in (i + 1)..Len(r) : ~Mentions(r[j], a, n)
        PROVE  i = Len(q) + 1
    BY SMT, <1>2, <1>3, <2>3
  <2> QED
    BY <1>1, <1>2, <2>1, <2>2, <2>3 DEF LeadsTo
<1>4. CASE ~Mentions(e, a, n)
  <2>1. LeadsTo(q, known, a, n, spec)
    BY <1>4
  <2>2. ASSUME \A i \in 1..Len(r) : ~Mentions(r[i], a, n)
        PROVE  known = spec
    <3>1. \A i \in 1..Len(q) : ~Mentions(q[i], a, n)
      BY SMT, <1>2, <2>2
    <3> QED
      BY <2>1, <3>1 DEF LeadsTo
  <2>3. ASSUME NEW i \in 1..Len(r), Mentions(r[i], a, n),
               \A j \in (i + 1)..Len(r) : ~Mentions(r[j], a, n)
        PROVE  Says(r[i], a, n, spec)
    <3>1. i \in 1..Len(q) /\ r[i] = q[i]
      BY SMT, <1>2, <1>4, <2>3
    <3>2. \A j \in (i + 1)..Len(q) : ~Mentions(q[j], a, n)
      BY SMT, <1>2, <2>3, <3>1
    <3> QED
      BY <2>1, <2>3, <3>1, <3>2 DEF LeadsTo
  <2> QED
    BY <1>1, <2>2, <2>3 DEF LeadsTo
<1> QED
  BY <1>3, <1>4

(* The event that is read does what it says. *)
LEMMA LeadsAfterTail ==
  ASSUME NEW q \in Seq(PeerEvent), q # <<>>, NEW known, NEW a, NEW n, NEW spec,
         LeadsTo(q, known, a, n, spec),
         NEW after, Mentions(Head(q), a, n) /\ Says(Head(q), a, n, spec) => after = spec,
         ~Mentions(Head(q), a, n) => after = known
  PROVE  LeadsTo(Tail(q), after, a, n, spec)
<1>1. PICK r : r = Tail(q)
  OBVIOUS
<1>2. /\ Len(q) \in Nat /\ Len(q) > 0 /\ Len(r) = Len(q) - 1
      /\ \A i \in 1..Len(r) : r[i] = q[i + 1]
      /\ Head(q) = q[1]
  BY SMT, <1>1
<1>3. ASSUME \A i \in 1..Len(r) : ~Mentions(r[i], a, n)
      PROVE  after = spec
  <2>1. \A j \in 2..Len(q) : ~Mentions(q[j], a, n)
    <3> SUFFICES ASSUME NEW j \in 2..Len(q) PROVE ~Mentions(q[j], a, n)
      OBVIOUS
    <3>1. j - 1 \in 1..Len(r) /\ r[j - 1] = q[j]
      BY SMT, <1>2
    <3> QED
      BY <1>3, <3>1
  <2>2. CASE Mentions(q[1], a, n)
    <3>1. Says(q[1], a, n, spec)
      BY SMT, <1>2, <2>1, <2>2 DEF LeadsTo
    <3> QED
      BY <1>2, <2>2, <3>1
  <2>3. CASE ~Mentions(q[1], a, n)
    <3>1. \A i \in 1..Len(q) : ~Mentions(q[i], a, n)
      BY SMT, <1>2, <2>1, <2>3
    <3>2. known = spec
      BY <3>1 DEF LeadsTo
    <3> QED
      BY <1>2, <2>3, <3>2
  <2> QED
    BY <2>2, <2>3
<1>4. ASSUME NEW i \in 1..Len(r), Mentions(r[i], a, n),
             \A j \in (i + 1)..Len(r) : ~Mentions(r[j], a, n)
      PROVE  Says(r[i], a, n, spec)
  <2>1. i + 1 \in 1..Len(q) /\ r[i] = q[i + 1]
    BY SMT, <1>2
  <2>2. ASSUME NEW j \in (i + 2)..Len(q) PROVE ~Mentions(q[j], a, n)
    <3>1. j - 1 \in (i + 1)..Len(r) /\ j - 1 \in 1..Len(r) /\ r[j - 1] = q[j]
      BY SMT, <1>2
    <3> QED
      BY <1>4, <3>1
  <2>3. \A j \in ((i + 1) + 1)..Len(q) : ~Mentions(q[j], a, n)
    BY SMT, <1>2, <2>2
  <2> QED
    BY <1>4, <2>1, <2>3 DEF LeadsTo
<1> QED
  BY <1>1, <1>3, <1>4 DEF LeadsTo

(* addThriftPeers, delThriftPeers: what becomes of one peer. *)
ThriftPeer == [state : PeerState, spec : Adjacencies \cup {NoAdjacency}, failed : BOOLEAN]

(* A peer is known exactly when there is a specification of it. *)
Proper(peer) == peer.state = "NONE" <=> peer.spec = NoAdjacency

LEMMA ProcessEvent ==
  ASSUME NEW tp \in [Areas -> [Neighbors -> ThriftPeer]], NEW e \in PeerEvent,
         NEW new, new = processEvent(tp, e)
  PROVE  /\ new \in [Areas -> [Neighbors -> ThriftPeer]]
         /\ \A a \in Areas, n \in Neighbors :
              /\ ~Mentions(e, a, n) => new[a][n] = tp[a][n]
              /\ n \in e[a].peersToDel => new[a][n] = NoThriftPeer
              /\ Mentions(e, a, n) /\ n \notin e[a].peersToDel =>
                   /\ new[a][n].state = "IDLE" /\ new[a][n].failed = tp[a][n].failed
                   /\ new[a][n].spec \in {adj \in e[a].peersToAdd : adj.node = n}
<1> DEFINE added(a) == addThriftPeers(tp, a, e[a].peersToAdd)
<1>1. \A a \in Areas : e[a].peersToAdd \in SUBSET Adjacencies /\ e[a].peersToDel \in SUBSET Neighbors
  BY DEF PeerEvent
<1>2. ASSUME NEW a \in Areas, NEW n \in Neighbors
      PROVE  /\ new[a][n] \in ThriftPeer
             /\ ~Mentions(e, a, n) => new[a][n] = tp[a][n]
             /\ n \in e[a].peersToDel => new[a][n] = NoThriftPeer
             /\ Mentions(e, a, n) /\ n \notin e[a].peersToDel =>
                  /\ new[a][n].state = "IDLE" /\ new[a][n].failed = tp[a][n].failed
                  /\ new[a][n].spec \in {adj \in e[a].peersToAdd : adj.node = n}
  <2>1. new[a][n] = IF n \in e[a].peersToDel THEN NoThriftPeer ELSE added(a)[n]
    BY DEF processEvent, delThriftPeers
  <2>2. tp[a][n] \in ThriftPeer
    OBVIOUS
  <2>3. CASE n \in e[a].peersToDel
    BY SMT, <2>1, <2>3 DEF Mentions, NoThriftPeer, ThriftPeer, PeerState
  <2>4. CASE n \notin e[a].peersToDel /\ \E adj \in e[a].peersToAdd : adj.node = n
    <3> DEFINE chosen == CHOOSE adj \in e[a].peersToAdd : adj.node = n
    <3>1. chosen \in e[a].peersToAdd /\ chosen.node = n
      BY <2>4
    <3>2. new[a][n] = [state |-> "IDLE", spec |-> chosen, failed |-> tp[a][n].failed]
      BY <2>1, <2>4 DEF addThriftPeers
    <3> HIDE DEF chosen
    <3> QED
      BY SMT, <1>1, <2>2, <2>4, <3>1, <3>2 DEF Mentions, ThriftPeer, PeerState
  <2>5. CASE n \notin e[a].peersToDel /\ ~\E adj \in e[a].peersToAdd : adj.node = n
    <3>1. new[a][n] = tp[a][n]
      BY <2>1, <2>5 DEF addThriftPeers
    <3> QED
      BY <2>2, <2>5, <3>1 DEF Mentions
  <2> QED
    BY <2>3, <2>4, <2>5
<1>3. new = [a \in Areas |-> [n \in Neighbors |-> new[a][n]]]
  BY DEF processEvent, delThriftPeers
<1> QED
  BY SMT, <1>2, <1>3

-----------------------------------------------------------------------------
(***************************************************************************)
(* Before the initial event only neighbours that went away are accounted   *)
(* for: those that are there are not announced yet.                        *)
(***************************************************************************)
Accounted(a, n) == initialNeighborsReceived \/ peers[a][n].spec = NoAdjacency

KvTyped ==
  /\ initialNeighborsReceived \in BOOLEAN
  /\ peerUpdatesQueue \in Seq(PeerEvent)
  /\ thriftPeers \in [Areas -> [Neighbors -> ThriftPeer]]

FollowInv ==
  /\ IInv
  /\ KvTyped
  /\ \A a \in Areas, n \in Neighbors : Proper(thriftPeers[a][n])
  /\ \A a \in Areas, n \in Neighbors : Accounted(a, n) =>
       LeadsTo(peerUpdatesQueue, thriftPeers[a][n].spec, a, n, peers[a][n].spec)

(* A peer's adjacencies are of its area and lead to it. *)
LEMMA PeerSpecs ==
  ASSUME IInv, NEW a \in Areas, NEW n \in Neighbors
  PROVE  /\ peers[a][n] \in Peer
         /\ peers[a][n] = NoPeer => peers[a][n].spec = NoAdjacency
         /\ peers[a][n] # NoPeer => peers[a][n].spec \in Adjacencies /\ peers[a][n].spec.node = n
         /\ \A adj \in peers[a][n].established : adj \in Adjacencies /\ adj.node = n
<1>1. peers[a][n] \in Peer
  BY DEF IInv, Tables
<1>2. Follows(peers[a][n], UpAdjacencies(a, n))
  BY FollowsDef DEF IInv
<1> QED
  BY SMT, <1>1, <1>2 DEF Follows, UpAdjacencies, NoPeer

(* LinkMonitor keeps it to itself: no specification changes that is accounted for. *)
LEMMA Untold ==
  ASSUME FollowInv, IInv', UNCHANGED <<peerUpdatesQueue, thriftPeers, initialNeighborsReceived>>,
         \A a \in Areas, n \in Neighbors :
           \/ peers'[a][n].spec = peers[a][n].spec
           \/ ~initialNeighborsReceived /\ peers'[a][n].spec # NoAdjacency
  PROVE  FollowInv'
<1>1. KvTyped'
  BY DEF FollowInv, KvTyped
<1>2. \A a \in Areas, n \in Neighbors : Proper(thriftPeers'[a][n])
  BY DEF FollowInv
<1>3. ASSUME NEW a \in Areas, NEW n \in Neighbors, Accounted(a, n)'
      PROVE  LeadsTo(peerUpdatesQueue', thriftPeers'[a][n].spec, a, n, peers'[a][n].spec)
  <2>1. peers'[a][n].spec = peers[a][n].spec /\ Accounted(a, n)
    BY <1>3 DEF Accounted
  <2> QED
    BY <2>1 DEF FollowInv
<1> QED
  BY <1>1, <1>2, <1>3 DEF FollowInv

(* LinkMonitor tells KvStore of one neighbour. *)
LEMMA Told ==
  ASSUME FollowInv, IInv', UNCHANGED <<thriftPeers, initialNeighborsReceived>>,
         NEW adj \in Adjacencies,
         NEW toAdd \in SUBSET {x \in Adjacencies : x.node = adj.node}, NEW toDel \in SUBSET {adj.node},
         peerUpdatesQueue' = Append(peerUpdatesQueue, Event(adj.area, toAdd, toDel)),
         \A a \in Areas, n \in Neighbors :
           ~(a = adj.area /\ n = adj.node) => peers'[a][n].spec = peers[a][n].spec,
         IF toDel = {} THEN toAdd = {peers'[adj.area][adj.node].spec}
         ELSE peers'[adj.area][adj.node].spec = NoAdjacency
  PROVE  FollowInv'
<1>1. PICK e : e = Event(adj.area, toAdd, toDel)
  OBVIOUS
<1>2. adj.area \in Areas /\ adj.node \in Neighbors
  BY AdjacenciesAssumption
<1>3. /\ e \in PeerEvent
      /\ e[adj.area].peersToAdd = toAdd /\ e[adj.area].peersToDel = toDel
      /\ \A a \in Areas \ {adj.area} : e[a].peersToAdd = {} /\ e[a].peersToDel = {}
  BY <1>1, <1>2 DEF Event, PeerEvent
<1>4. KvTyped'
  BY SMT, <1>1, <1>3 DEF FollowInv, KvTyped
<1>5. \A a \in Areas, n \in Neighbors : Proper(thriftPeers'[a][n])
  BY DEF FollowInv
<1>6. ASSUME NEW a \in Areas, NEW n \in Neighbors, Accounted(a, n)'
      PROVE  LeadsTo(peerUpdatesQueue', thriftPeers'[a][n].spec, a, n, peers'[a][n].spec)
  <2>1. peerUpdatesQueue \in Seq(PeerEvent) /\ peerUpdatesQueue' = Append(peerUpdatesQueue, e)
    BY <1>1 DEF FollowInv, KvTyped
  <2>2. CASE a = adj.area /\ n = adj.node
    <3>1. Mentions(e, a, n) /\ Says(e, a, n, peers'[a][n].spec)
      <4>1. CASE toDel = {}
        <5>1. toAdd = {peers'[a][n].spec}
          BY <2>2, <4>1
        <5>2. {x \in toAdd : x.node = n} = {peers'[a][n].spec}
          BY <2>2, <5>1
        <5> QED
          BY <1>3, <2>2, <4>1, <5>1, <5>2 DEF Mentions, Says
      <4>2. CASE toDel # {}
        BY <1>3, <2>2, <4>2 DEF Mentions, Says
      <4> QED
        BY <4>1, <4>2
    <3> QED
      BY SMT, <1>3, <2>1, <3>1, LeadsAfterAppend
  <2>3. CASE ~(a = adj.area /\ n = adj.node)
    <3>1. ~Mentions(e, a, n)
      BY <1>3, <2>3 DEF Mentions
    <3>2. peers'[a][n].spec = peers[a][n].spec /\ Accounted(a, n)
      BY <1>6, <2>3 DEF Accounted
    <3>3. LeadsTo(peerUpdatesQueue, thriftPeers[a][n].spec, a, n, peers[a][n].spec)
      BY <3>2 DEF FollowInv
    <3> QED
      BY SMT, <1>3, <2>1, <3>1, <3>2, <3>3, LeadsAfterAppend
  <2> QED
    BY <2>2, <2>3
<1> QED
  BY <1>4, <1>5, <1>6 DEF FollowInv

(* One entry of the table changes. *)
LEMMA OneEntry ==
  ASSUME IInv, NEW adj \in Adjacencies, NEW peer,
         peers' = [peers EXCEPT ![adj.area][adj.node] = peer]
  PROVE  /\ adj.area \in Areas /\ adj.node \in Neighbors
         /\ \A a \in Areas, n \in Neighbors :
              peers'[a][n] = IF a = adj.area /\ n = adj.node THEN peer ELSE peers[a][n]
<1>1. adj.area \in Areas /\ adj.node \in Neighbors
  BY AdjacenciesAssumption
<1> QED
  BY <1>1 DEF IInv, Tables

(* updateKvStorePeerNeighborUp *)
LEMMA UpTells ==
  ASSUME FollowInv, NEW adj \in Adjacencies, NeighborUpEvent(adj), UNCHANGED thriftPeers
  PROVE  FollowInv'
<1> DEFINE old == peers[adj.area][adj.node]
<1>1. IInv /\ IInv'
  BY UpStep DEF FollowInv
<1>2. initialNeighborsReceived' = initialNeighborsReceived /\ initialNeighborsReceived \in BOOLEAN
  BY DEF NeighborUpEvent, FollowInv, KvTyped
<1>3. adj.area \in Areas /\ adj.node \in Neighbors /\ adj # NoAdjacency
  BY AdjacenciesAssumption
<1>4. old \in Peer
  BY <1>1, <1>3, PeerSpecs
<1>5. CASE old # NoPeer
  <2> DEFINE new == [old EXCEPT !.established = @ \cup {adj}]
  <2>1. peers' = [peers EXCEPT ![adj.area][adj.node] = new] /\ peerUpdatesQueue' = peerUpdatesQueue
    BY <1>5 DEF NeighborUpEvent, updateKvStorePeerNeighborUp
  <2>2. new.spec = old.spec
    BY <1>4 DEF Peer
  <2> HIDE DEF new
  <2>3. \A a \in Areas, n \in Neighbors : peers'[a][n].spec = peers[a][n].spec
    BY SMT, <1>1, <2>1, <2>2, OneEntry
  <2> QED
    BY <1>1, <1>2, <2>1, <2>3, Untold
<1>6. CASE old = NoPeer
  <2> DEFINE new == [spec |-> adj, established |-> {adj}]
  <2>1. peers' = [peers EXCEPT ![adj.area][adj.node] = new]
    BY <1>6 DEF NeighborUpEvent, updateKvStorePeerNeighborUp
  <2>2. new.spec = adj
    OBVIOUS
  <2> HIDE DEF new
  <2>3. \A a \in Areas, n \in Neighbors :
          peers'[a][n] = IF a = adj.area /\ n = adj.node THEN new ELSE peers[a][n]
    BY <1>1, <1>3, <2>1 DEF IInv, Tables
  <2>4. CASE initialNeighborsReceived
    <3>1. peerUpdatesQueue' = Append(peerUpdatesQueue, Event(adj.area, {adj}, {}))
      BY <1>6, <2>4 DEF NeighborUpEvent, updateKvStorePeerNeighborUp
    <3>2. {adj} \in SUBSET {x \in Adjacencies : x.node = adj.node} /\ {} \in SUBSET {adj.node}
      OBVIOUS
    <3>3. peers'[adj.area][adj.node].spec = adj
      BY <1>3, <2>2, <2>3
    <3> QED
      BY <1>1, <1>2, <2>3, <3>1, <3>2, <3>3, Told
  <2>5. CASE ~initialNeighborsReceived
    <3>1. peerUpdatesQueue' = peerUpdatesQueue
      BY <1>6, <2>5 DEF NeighborUpEvent, updateKvStorePeerNeighborUp
    <3> QED
      BY <1>1, <1>2, <1>3, <2>2, <2>3, <2>5, <3>1, Untold
  <2> QED
    BY <1>2, <2>4, <2>5
<1> QED
  BY <1>5, <1>6

(* updateKvStorePeerNeighborDown *)
LEMMA DownTells ==
  ASSUME FollowInv, IInv', NEW adj \in Adjacencies, updateKvStorePeerNeighborDown(adj),
         UNCHANGED <<thriftPeers, initialNeighborsReceived>>
  PROVE  FollowInv'
<1> DEFINE old == peers[adj.area][adj.node]
           left == old.established \ {adj}
<1>1. IInv /\ IInv'
  BY DEF FollowInv
<1>2. adj.area \in Areas /\ adj.node \in Neighbors
  BY AdjacenciesAssumption
<1>3. old \in Peer /\ \A x \in left : x \in Adjacencies /\ x.node = adj.node
  BY SMT, <1>1, <1>2, PeerSpecs
<1>4. CASE old = NoPeer
  <2>1. peers' = peers /\ peerUpdatesQueue' = peerUpdatesQueue
    BY <1>4 DEF updateKvStorePeerNeighborDown
  <2> QED
    BY <1>1, <2>1, Untold
<1>5. CASE old # NoPeer /\ left = {}
  <2>1. /\ peers' = [peers EXCEPT ![adj.area][adj.node] = NoPeer]
        /\ peerUpdatesQueue' = Append(peerUpdatesQueue, Event(adj.area, {}, {adj.node}))
    BY <1>5 DEF updateKvStorePeerNeighborDown
  <2>2. \A a \in Areas, n \in Neighbors :
          peers'[a][n] = IF a = adj.area /\ n = adj.node THEN NoPeer ELSE peers[a][n]
    BY <1>1, <1>2, <2>1 DEF IInv, Tables
  <2>3. peers'[adj.area][adj.node].spec = NoAdjacency
    BY SMT, <1>2, <2>2 DEF NoPeer
  <2>4. {} \in SUBSET {x \in Adjacencies : x.node = adj.node} /\ {adj.node} \in SUBSET {adj.node}
    OBVIOUS
  <2>5. IF {adj.node} = {} THEN {} = {peers'[adj.area][adj.node].spec}
        ELSE peers'[adj.area][adj.node].spec = NoAdjacency
    BY <2>3
  <2>6. \A a \in Areas, n \in Neighbors :
          ~(a = adj.area /\ n = adj.node) => peers'[a][n].spec = peers[a][n].spec
    BY <2>2
  <2> QED
    BY <1>1, <2>1, <2>4, <2>5, <2>6, Told
<1>6. CASE old # NoPeer /\ left # {} /\ old.spec # adj
  <2> DEFINE new == [old EXCEPT !.established = left]
  <2>1. peers' = [peers EXCEPT ![adj.area][adj.node] = new] /\ peerUpdatesQueue' = peerUpdatesQueue
    BY <1>6 DEF updateKvStorePeerNeighborDown
  <2>2. new.spec = old.spec
    BY <1>3 DEF Peer
  <2> HIDE DEF new
  <2>3. \A a \in Areas, n \in Neighbors : peers'[a][n].spec = peers[a][n].spec
    BY SMT, <1>1, <2>1, <2>2, OneEntry
  <2> QED
    BY <1>1, <2>1, <2>3, Untold
<1>7. CASE old # NoPeer /\ left # {} /\ old.spec = adj
  <2>1. PICK other \in left :
          /\ peers' = [peers EXCEPT ![adj.area][adj.node] = [spec |-> other, established |-> left]]
          /\ peerUpdatesQueue' = Append(peerUpdatesQueue, Event(adj.area, {other}, {}))
    BY <1>7 DEF updateKvStorePeerNeighborDown
  <2> DEFINE new == [spec |-> other, established |-> left]
  <2>2. new.spec = other
    OBVIOUS
  <2>3. peers' = [peers EXCEPT ![adj.area][adj.node] = new]
    BY <2>1
  <2> HIDE DEF new
  <2>4. \A a \in Areas, n \in Neighbors :
          peers'[a][n] = IF a = adj.area /\ n = adj.node THEN new ELSE peers[a][n]
    BY <1>1, <1>2, <2>3 DEF IInv, Tables
  <2>5. {other} \in SUBSET {x \in Adjacencies : x.node = adj.node} /\ {} \in SUBSET {adj.node}
    BY <1>3
  <2>6. peers'[adj.area][adj.node].spec = other
    BY <1>2, <2>2, <2>4
  <2>7. \A a \in Areas, n \in Neighbors :
          ~(a = adj.area /\ n = adj.node) => peers'[a][n].spec = peers[a][n].spec
    BY <2>4
  <2> QED
    BY <1>1, <2>1, <2>5, <2>6, <2>7, Told
<1> QED
  BY <1>4, <1>5, <1>6, <1>7

(* The initial event speaks of every peer; the others are accounted for already. *)
LEMMA DiscoveryTells ==
  ASSUME FollowInv, NeighborDiscovered, UNCHANGED thriftPeers
  PROVE  FollowInv'
<1> DEFINE all == [a \in Areas |->
                     [peersToAdd |-> {peers[a][n].spec : n \in {m \in Neighbors : peers[a][m] # NoPeer}},
                      peersToDel |-> {}]]
<1>1. PICK e : e = all
  OBVIOUS
<1>2. /\ peers' = peers /\ adjacencies' = adjacencies /\ initialNeighborsReceived' = TRUE
      /\ peerUpdatesQueue' = Append(peerUpdatesQueue, e)
  BY <1>1 DEF NeighborDiscovered
<1>3. IInv /\ IInv'
  BY <1>2, PeersUnchanged DEF FollowInv
<1>4. \A a \in Areas :
        /\ e[a].peersToAdd = {peers[a][n].spec : n \in {m \in Neighbors : peers[a][m] # NoPeer}}
        /\ e[a].peersToDel = {}
  BY <1>1
<1>5. e \in PeerEvent
  <2>1. \A a \in Areas, n \in Neighbors : peers[a][n] # NoPeer => peers[a][n].spec \in Adjacencies
    BY <1>3, PeerSpecs
  <2> QED
    BY <1>1, <2>1 DEF PeerEvent
<1>6. KvTyped'
  BY SMT, <1>2, <1>5 DEF FollowInv, KvTyped
<1>7. \A a \in Areas, n \in Neighbors : Proper(thriftPeers'[a][n])
  BY DEF FollowInv
<1>8. ASSUME NEW a \in Areas, NEW n \in Neighbors
      PROVE  LeadsTo(peerUpdatesQueue', thriftPeers'[a][n].spec, a, n, peers'[a][n].spec)
  <2>1. peerUpdatesQueue \in Seq(PeerEvent)
    BY DEF FollowInv, KvTyped
  <2>2. \A m \in Neighbors : peers[a][m] # NoPeer => peers[a][m].spec.node = m
    BY <1>3, PeerSpecs
  <2>3. CASE peers[a][n] # NoPeer
    <3>1. {x \in e[a].peersToAdd : x.node = n} = {peers[a][n].spec}
      BY SMT, <1>4, <2>2, <2>3
    <3>2. Mentions(e, a, n) /\ Says(e, a, n, peers[a][n].spec)
      BY <1>4, <3>1 DEF Mentions, Says
    <3> QED
      BY <1>2, <1>5, <2>1, <3>2, LeadsAfterAppend
  <2>4. CASE peers[a][n] = NoPeer
    <3>1. ~Mentions(e, a, n)
      BY SMT, <1>4, <2>2, <2>4 DEF Mentions
    <3>2. Accounted(a, n)
      BY <1>3, <2>4, PeerSpecs DEF Accounted
    <3>3. LeadsTo(peerUpdatesQueue, thriftPeers[a][n].spec, a, n, peers[a][n].spec)
      BY <3>2 DEF FollowInv
    <3> QED
      BY <1>2, <1>5, <2>1, <3>1, <3>3, LeadsAfterAppend
  <2> QED
    BY <2>3, <2>4
<1> QED
  BY <1>3, <1>6, <1>7, <1>8 DEF FollowInv

(* processPeerUpdates *)
LEMMA UpdateFollows ==
  ASSUME FollowInv, ProcessPeerUpdates
  PROVE  FollowInv'
<1>1. PICK e : e = Head(peerUpdatesQueue)
  OBVIOUS
<1>2. /\ peerUpdatesQueue # <<>> /\ peerUpdatesQueue' = Tail(peerUpdatesQueue)
      /\ thriftPeers' = processEvent(thriftPeers, e)
      /\ UNCHANGED <<adjacencies, peers, initialNeighborsReceived>>
  BY <1>1 DEF ProcessPeerUpdates
<1>3. /\ peerUpdatesQueue \in Seq(PeerEvent) /\ initialNeighborsReceived \in BOOLEAN
      /\ thriftPeers \in [Areas -> [Neighbors -> ThriftPeer]]
  BY DEF FollowInv, KvTyped
<1>4. e \in PeerEvent /\ peerUpdatesQueue' \in Seq(PeerEvent)
  BY SMT, <1>1, <1>2, <1>3
<1>5. /\ thriftPeers' \in [Areas -> [Neighbors -> ThriftPeer]]
      /\ \A a \in Areas, n \in Neighbors :
           /\ ~Mentions(e, a, n) => thriftPeers'[a][n] = thriftPeers[a][n]
           /\ n \in e[a].peersToDel => thriftPeers'[a][n] = NoThriftPeer
           /\ Mentions(e, a, n) /\ n \notin e[a].peersToDel =>
                /\ thriftPeers'[a][n].state = "IDLE" /\ thriftPeers'[a][n].failed = thriftPeers[a][n].failed
                /\ thriftPeers'[a][n].spec \in {adj \in e[a].peersToAdd : adj.node = n}
  BY SMT, <1>2, <1>3, <1>4, ProcessEvent
<1>6. IInv'
  BY <1>2, PeersUnchanged DEF FollowInv
<1>7. KvTyped'
  BY <1>2, <1>3, <1>4, <1>5 DEF KvTyped
<1>8. ASSUME NEW a \in Areas, NEW n \in Neighbors
      PROVE  Proper(thriftPeers'[a][n])
  <2>1. Proper(thriftPeers[a][n]) /\ Proper(NoThriftPeer)
    BY DEF FollowInv, Proper, NoThriftPeer
  <2>2. e[a].peersToAdd \in SUBSET Adjacencies
    BY <1>4 DEF PeerEvent
  <2> QED
    BY <1>5, <2>1, <2>2, AdjacenciesAssumption DEF Proper
<1>9. ASSUME NEW a \in Areas, NEW n \in Neighbors, Accounted(a, n)'
      PROVE  LeadsTo(peerUpdatesQueue', thriftPeers'[a][n].spec, a, n, peers'[a][n].spec)
  <2>1. LeadsTo(peerUpdatesQueue, thriftPeers[a][n].spec, a, n, peers[a][n].spec)
    BY <1>2, <1>9 DEF FollowInv, Accounted
  <2>2. Mentions(e, a, n) /\ Says(e, a, n, peers[a][n].spec) => thriftPeers'[a][n].spec = peers[a][n].spec
    BY SMT, <1>5 DEF Says, NoThriftPeer
  <2>3. ~Mentions(e, a, n) => thriftPeers'[a][n].spec = thriftPeers[a][n].spec
    BY <1>5
  <2> QED
    BY <1>1, <1>2, <1>3, <2>1, <2>2, <2>3, LeadsAfterTail
<1> QED
  BY <1>6, <1>7, <1>8, <1>9 DEF FollowInv

(* The state of one known peer changes; what is known of it does not. *)
LEMMA PeerMoves ==
  ASSUME FollowInv, UNCHANGED lmVars, NEW a \in Areas, NEW n \in Neighbors, NEW new \in ThriftPeer,
         thriftPeers[a][n].state # "NONE", new.state # "NONE", new.spec = thriftPeers[a][n].spec,
         thriftPeers' = [thriftPeers EXCEPT ![a][n] = new]
  PROVE  /\ FollowInv'
         /\ \A b \in Areas, m \in Neighbors :
              thriftPeers'[b][m] = IF b = a /\ m = n THEN new ELSE thriftPeers[b][m]
<1>1. thriftPeers \in [Areas -> [Neighbors -> ThriftPeer]]
  BY DEF FollowInv, KvTyped
<1>2. \A b \in Areas, m \in Neighbors :
        thriftPeers'[b][m] = IF b = a /\ m = n THEN new ELSE thriftPeers[b][m]
  BY <1>1
<1>3. thriftPeers' \in [Areas -> [Neighbors -> ThriftPeer]]
  <2> DEFINE row == [thriftPeers[a] EXCEPT ![n] = new]
  <2>1. thriftPeers' = [thriftPeers EXCEPT ![a] = row]
    OBVIOUS
  <2>2. row \in [Neighbors -> ThriftPeer]
    BY <1>1
  <2> QED BY <1>1, <2>1, <2>2
<1>4. /\ adjacencies' = adjacencies /\ peers' = peers /\ peerUpdatesQueue' = peerUpdatesQueue
      /\ initialNeighborsReceived' = initialNeighborsReceived
  BY DEF lmVars
<1>5. IInv'
  BY <1>4, PeersUnchanged DEF FollowInv
<1>6. KvTyped'
  BY <1>3, <1>4 DEF FollowInv, KvTyped
<1>7. \A b \in Areas, m \in Neighbors : thriftPeers'[b][m].spec = thriftPeers[b][m].spec
  BY SMT, <1>2
<1>8. \A b \in Areas, m \in Neighbors : Proper(thriftPeers'[b][m])
  BY SMT, <1>2 DEF FollowInv, Proper
<1>9. ASSUME NEW b \in Areas, NEW m \in Neighbors, Accounted(b, m)'
      PROVE  LeadsTo(peerUpdatesQueue', thriftPeers'[b][m].spec, b, m, peers'[b][m].spec)
  BY <1>4, <1>7, <1>9 DEF FollowInv, Accounted
<1> QED
  BY <1>2, <1>5, <1>6, <1>8, <1>9 DEF FollowInv

LEMMA FollowUnchanged ==
  ASSUME FollowInv, UNCHANGED <<lmVars, thriftPeers>>
  PROVE  FollowInv'
<1>1. /\ adjacencies' = adjacencies /\ peers' = peers /\ peerUpdatesQueue' = peerUpdatesQueue
      /\ initialNeighborsReceived' = initialNeighborsReceived /\ thriftPeers' = thriftPeers
  BY DEF lmVars
<1>2. IInv'
  BY <1>1, PeersUnchanged DEF FollowInv
<1> QED
  BY <1>1, <1>2, Untold DEF FollowInv

LEMMA LinkMonitorTells ==
  ASSUME FollowInv, LMNext, UNCHANGED thriftPeers
  PROVE  FollowInv'
<1>1. IInv'
  BY PeersNext DEF FollowInv
<1>2. CASE \E adj \in Adjacencies : NeighborUpEvent(adj)
  BY <1>2, UpTells
<1>3. CASE \E adj \in Adjacencies : NeighborDownEvent(adj)
  BY <1>1, <1>3, DownTells DEF NeighborDownEvent
<1>4. CASE \E adj \in Adjacencies : NeighborRestartingEvent(adj)
  BY <1>1, <1>4, DownTells DEF NeighborRestartingEvent
<1>5. CASE NeighborDiscovered
  BY <1>5, DiscoveryTells
<1> QED
  BY <1>2, <1>3, <1>4, <1>5 DEF LMNext

-----------------------------------------------------------------------------
(***************************************************************************)
(* The signal: sent once, when the initial sync of all areas is complete.  *)
(***************************************************************************)
Flags ==
  /\ initialPeers \in SUBSET (Areas \X Neighbors)
  /\ settled \in SUBSET (Areas \X Neighbors)
  /\ initialSyncCompleted \in [Areas -> BOOLEAN]
  /\ initialSyncSignalSent \in BOOLEAN
  /\ kvStoreSyncTimer \in BOOLEAN
  /\ timedOut \in BOOLEAN

Signalled ==
  /\ synced = IF initialSyncSignalSent THEN 1 ELSE 0
  /\ initialSyncSignalSent => \A a \in Areas : initialSyncCompleted[a]

(* Who was synced with, or failed, has settled. *)
Reached ==
  \A a \in Areas, n \in Neighbors :
    thriftPeers[a][n].state = "INITIALIZED" \/ thriftPeers[a][n].failed => <<a, n>> \in settled

StartInv == FollowInv /\ Flags /\ Signalled /\ Reached

(* KvStore has not read an event yet. *)
Quiet ==
  /\ \A a \in Areas, n \in Neighbors : thriftPeers[a][n].state = "NONE"
  /\ \A a \in Areas : ~initialSyncCompleted[a]
  /\ ~initialSyncSignalSent

(* Each peer of the initial event has settled or is a peer. *)
UnderWay == \A p \in initialPeers : p \in settled \/ thriftPeers[p[1]][p[2]].state # "NONE"

(* Without departures before discovery has ended, the initial event is the first of all. *)
Stage ==
  \/ ~initialNeighborsReceived /\ peerUpdatesQueue = <<>> /\ Quiet /\ initialPeers = {}
  \/ /\ initialNeighborsReceived /\ peerUpdatesQueue # <<>> /\ Quiet
     /\ \A p \in initialPeers : Mentions(Head(peerUpdatesQueue), p[1], p[2])
  \/ initialNeighborsReceived /\ UnderWay

CompletedSettled == \A p \in initialPeers : initialSyncCompleted[p[1]] => p \in settled

WaitInv == timedOut \/ (Stage /\ CompletedSettled)

(* processInitializationEvent, initialKvStoreDbSynced *)
LEMMA InitializationEvent ==
  ASSUME Flags, Signalled, NEW tp, NEW areas, processInitializationEvent(tp, areas)
  PROVE  /\ initialSyncCompleted' \in [Areas -> BOOLEAN] /\ initialSyncSignalSent' \in BOOLEAN
         /\ Signalled'
         /\ \A a \in Areas : initialSyncCompleted'[a] =>
              initialSyncCompleted[a] \/ (a \in areas /\ SyncedOrFailed(tp, a))
<1>1. /\ initialSyncCompleted' =
           [a \in Areas |-> initialSyncCompleted[a] \/ (a \in areas /\ SyncedOrFailed(tp, a))]
      /\ initialKvStoreDbSynced(initialSyncCompleted')
  BY DEF processInitializationEvent
<1>2. initialSyncCompleted' \in [Areas -> BOOLEAN]
  <2>1. \A a \in Areas :
          (initialSyncCompleted[a] \/ (a \in areas /\ SyncedOrFailed(tp, a))) \in BOOLEAN
    OBVIOUS
  <2> QED
    BY <1>1, <2>1
<1>3. \A a \in Areas : initialSyncCompleted'[a] <=>
        (initialSyncCompleted[a] \/ (a \in areas /\ SyncedOrFailed(tp, a)))
  BY <1>1
<1> DEFINE send == (\A a \in Areas : initialSyncCompleted'[a]) /\ ~initialSyncSignalSent
<1>4. /\ initialSyncSignalSent' = (initialSyncSignalSent \/ send)
      /\ synced' = IF send THEN synced + 1 ELSE synced
  BY <1>1 DEF initialKvStoreDbSynced
<1>5. initialSyncSignalSent \in BOOLEAN
  BY DEF Flags
<1>6. initialSyncSignalSent' \in BOOLEAN
  BY <1>4, <1>5
<1>7. initialSyncSignalSent' => \A a \in Areas : initialSyncCompleted'[a]
  BY <1>3, <1>4 DEF Signalled
<1>8. synced' = IF initialSyncSignalSent' THEN 1 ELSE 0
  <2> HIDE DEF send
  <2>1. CASE send
    <3>1. synced = 0 /\ ~initialSyncSignalSent
      BY <2>1 DEF Signalled, send
    <3>2. synced' = synced + 1
      BY <1>4, <2>1
    <3>3. initialSyncSignalSent'
      BY <1>4, <2>1, Zenon
    <3> QED
      BY SMT, <3>1, <3>2, <3>3
  <2>2. CASE ~send
    <3>1. synced' = synced /\ (initialSyncSignalSent' <=> initialSyncSignalSent)
      BY <1>4, <2>2
    <3>2. synced = IF initialSyncSignalSent THEN 1 ELSE 0
      BY DEF Signalled
    <3> QED
      BY <3>1, <3>2
  <2> QED
    BY <2>1, <2>2
<1> QED
  BY <1>2, <1>3, <1>6, <1>7, <1>8 DEF Signalled

(* The initial sync of an area completes only with what it waited for. *)
LEMMA CompletedAfterSettled ==
  ASSUME CompletedSettled, Flags, Flags', Reached', UnderWay',
         initialPeers' = initialPeers, settled \subseteq settled',
         \A a \in Areas : initialSyncCompleted'[a] =>
           initialSyncCompleted[a] \/ SyncedOrFailed(thriftPeers', a)
  PROVE  CompletedSettled'
<1> SUFFICES ASSUME NEW p \in initialPeers, initialSyncCompleted'[p[1]], p \notin settled'
             PROVE  FALSE
  BY DEF CompletedSettled
<1>1. p[1] \in Areas /\ p[2] \in Neighbors /\ p = <<p[1], p[2]>>
  BY SMT DEF Flags
<1>2. SyncedOrFailed(thriftPeers', p[1])
  BY <1>1 DEF CompletedSettled
<1>3. thriftPeers'[p[1]][p[2]].state # "NONE"
  BY DEF UnderWay
<1>4. thriftPeers'[p[1]][p[2]].state = "INITIALIZED" \/ thriftPeers'[p[1]][p[2]].failed
  BY <1>1, <1>2, <1>3 DEF SyncedOrFailed, PeersIn
<1> QED
  BY <1>1, <1>4 DEF Reached

LEMMA StartInitInv == StartInit => StartInv /\ WaitInv
<1> SUFFICES ASSUME StartInit PROVE StartInv /\ WaitInv
  OBVIOUS
<1>1. \A a \in Areas, n \in Neighbors : thriftPeers[a][n] = NoThriftPeer /\ peers[a][n] = NoPeer
  BY DEF StartInit, LMInit
<1>2. peerUpdatesQueue = <<>> /\ initialPeers = {} /\ initialNeighborsReceived = FALSE
  BY DEF StartInit, LMInit
<1>3. KvTyped
  <2>1. NoThriftPeer \in ThriftPeer
    BY DEF NoThriftPeer, ThriftPeer, PeerState
  <2>2. thriftPeers \in [Areas -> [Neighbors -> ThriftPeer]]
    BY <2>1 DEF StartInit
  <2>3. <<>> \in Seq(PeerEvent)
    BY SMT
  <2> QED
    BY <1>2, <2>2, <2>3 DEF KvTyped
<1>4. ASSUME NEW a \in Areas, NEW n \in Neighbors
      PROVE  Proper(thriftPeers[a][n]) /\
             LeadsTo(peerUpdatesQueue, thriftPeers[a][n].spec, a, n, peers[a][n].spec)
  BY SMT, <1>1, <1>2 DEF Proper, LeadsTo, NoThriftPeer, NoPeer
<1>5. FollowInv
  BY <1>3, <1>4, PeersInit DEF FollowInv, StartInit
<1>6. Flags /\ Signalled
  BY <1>2, TimeoutsAssumption DEF StartInit, Flags, Signalled
<1>7. Reached
  BY SMT, <1>1 DEF Reached, NoThriftPeer
<1>8. Quiet
  BY <1>1 DEF Quiet, StartInit, NoThriftPeer
<1> QED
  BY <1>2, <1>5, <1>6, <1>7, <1>8 DEF StartInv, WaitInv, Stage, CompletedSettled

(* A step of LinkMonitor: KvStore's part stays, and events queue up behind the first. *)
LEMMA LinkMonitorStarts ==
  ASSUME StartInv, LMNext, UNCHANGED kvVars
  PROVE  StartInv' /\ (~EarlyDowns /\ WaitInv => WaitInv')
<1>1. /\ thriftPeers' = thriftPeers /\ initialSyncCompleted' = initialSyncCompleted
      /\ initialSyncSignalSent' = initialSyncSignalSent /\ kvStoreSyncTimer' = kvStoreSyncTimer
      /\ synced' = synced /\ settled' = settled /\ timedOut' = timedOut
  BY DEF kvVars
<1>2. FollowInv'
  BY <1>1, LinkMonitorTells DEF StartInv
<1>3. Signalled' /\ Reached'
  BY <1>1 DEF StartInv, Signalled, Reached
<1>4. peerUpdatesQueue \in Seq(PeerEvent)
  BY DEF StartInv, FollowInv, KvTyped
<1>5. CASE NeighborDiscovered
  <2>1. initialPeers' = {p \in Areas \X Neighbors : peers[p[1]][p[2]] # NoPeer}
    BY <1>5 DEF NeighborDiscovered
  <2>2. Flags'
    BY <1>1, <2>1 DEF StartInv, Flags
  <2>3. ASSUME WaitInv, ~timedOut
        PROVE  Stage' /\ CompletedSettled'
    <3>1. peerUpdatesQueue = <<>> /\ Quiet
      BY <1>5, <2>3 DEF WaitInv, Stage, NeighborDiscovered
    <3>2. PICK e : /\ peerUpdatesQueue' = <<e>> /\ initialNeighborsReceived' = TRUE
                   /\ e = [a \in Areas |->
                        [peersToAdd |-> {peers[a][n].spec : n \in {m \in Neighbors : peers[a][m] # NoPeer}},
                         peersToDel |-> {}]]
      BY SMT, <1>5, <3>1 DEF NeighborDiscovered
    <3>3. Quiet'
      BY <1>1, <3>1 DEF Quiet
    <3>4. ASSUME NEW p \in initialPeers'
          PROVE  Mentions(e, p[1], p[2])
      <4>1. p[1] \in Areas /\ p[2] \in Neighbors /\ peers[p[1]][p[2]] # NoPeer
        BY <2>1
      <4>2. peers[p[1]][p[2]].spec.node = p[2]
        BY <4>1, PeerSpecs DEF StartInv, FollowInv
      <4>3. peers[p[1]][p[2]].spec \in e[p[1]].peersToAdd
        BY <3>2, <4>1
      <4> QED
        BY <4>2, <4>3 DEF Mentions
    <3>5. Head(peerUpdatesQueue') = e /\ peerUpdatesQueue' # <<>>
      BY SMT, <3>2
    <3>6. Stage'
      BY <3>2, <3>3, <3>4, <3>5 DEF Stage
    <3>7. CompletedSettled'
      BY <2>2, <3>3 DEF CompletedSettled, Quiet, Flags
    <3> QED
      BY <3>6, <3>7
  <2> QED
    BY <1>1, <1>2, <1>3, <2>2, <2>3 DEF StartInv, WaitInv
<1>6. CASE \E adj \in Adjacencies : \/ NeighborUpEvent(adj)
                                    \/ NeighborDownEvent(adj) \/ NeighborRestartingEvent(adj)
  <2>1. initialPeers' = initialPeers /\ initialNeighborsReceived' = initialNeighborsReceived
    BY <1>6 DEF NeighborUpEvent, NeighborDownEvent, NeighborRestartingEvent
  <2>2. Flags'
    BY <1>1, <2>1 DEF StartInv, Flags
  <2>3. \/ peerUpdatesQueue' = peerUpdatesQueue
        \/ \E e : peerUpdatesQueue' = Append(peerUpdatesQueue, e)
    BY <1>6 DEF NeighborUpEvent, NeighborDownEvent, NeighborRestartingEvent,
                updateKvStorePeerNeighborUp, updateKvStorePeerNeighborDown
  <2>4. ~EarlyDowns /\ ~initialNeighborsReceived => peerUpdatesQueue' = peerUpdatesQueue
    BY <1>6 DEF NeighborUpEvent, NeighborDownEvent, NeighborRestartingEvent, updateKvStorePeerNeighborUp
  <2>5. peerUpdatesQueue # <<>> =>
          peerUpdatesQueue' # <<>> /\ Head(peerUpdatesQueue') = Head(peerUpdatesQueue)
    BY SMT, <1>4, <2>3
  <2>6. (Quiet <=> Quiet') /\ (UnderWay <=> UnderWay') /\ (CompletedSettled <=> CompletedSettled')
    BY <1>1, <2>1 DEF Quiet, UnderWay, CompletedSettled
  <2>7. ~EarlyDowns /\ Stage => Stage'
    BY <2>1, <2>4, <2>5, <2>6 DEF Stage
  <2> QED
    BY <1>1, <1>2, <1>3, <2>2, <2>6, <2>7 DEF StartInv, WaitInv
<1> QED
  BY <1>5, <1>6 DEF LMNext

(* processPeerUpdates: a peer it takes away has settled, any other it names is a peer. *)
LEMMA UpdateStarts ==
  ASSUME StartInv, ProcessPeerUpdates
  PROVE  StartInv' /\ (WaitInv => WaitInv')
<1>1. PICK e : e = Head(peerUpdatesQueue)
  OBVIOUS
<1>2. /\ peerUpdatesQueue # <<>>
      /\ thriftPeers' = processEvent(thriftPeers, e)
      /\ kvStoreSyncTimer' =
           (kvStoreSyncTimer /\ \A a \in Areas : e[a].peersToAdd = {} /\ e[a].peersToDel = {})
      /\ settled' = settled \cup {p \in Areas \X Neighbors : p[2] \in e[p[1]].peersToDel}
      /\ \/ processInitializationEvent(thriftPeers', {a \in Areas : PeersIn(thriftPeers', a) = {}})
         \/ UNCHANGED <<initialSyncCompleted, initialSyncSignalSent, synced>>
      /\ initialNeighborsReceived' = initialNeighborsReceived /\ initialPeers' = initialPeers
      /\ timedOut' = timedOut
  BY <1>1 DEF ProcessPeerUpdates
<1>3. thriftPeers \in [Areas -> [Neighbors -> ThriftPeer]] /\ e \in PeerEvent
  BY SMT, <1>1, <1>2 DEF StartInv, FollowInv, KvTyped
<1>4. \A a \in Areas, n \in Neighbors :
        /\ ~Mentions(e, a, n) => thriftPeers'[a][n] = thriftPeers[a][n]
        /\ n \in e[a].peersToDel => thriftPeers'[a][n] = NoThriftPeer
        /\ Mentions(e, a, n) /\ n \notin e[a].peersToDel =>
             thriftPeers'[a][n].state = "IDLE" /\ thriftPeers'[a][n].failed = thriftPeers[a][n].failed
  BY SMT, <1>2, <1>3, ProcessEvent
<1>5. FollowInv'
  BY UpdateFollows DEF StartInv
<1>6. /\ initialSyncCompleted' \in [Areas -> BOOLEAN] /\ initialSyncSignalSent' \in BOOLEAN
      /\ Signalled'
      /\ \A a \in Areas : initialSyncCompleted'[a] =>
           initialSyncCompleted[a] \/ SyncedOrFailed(thriftPeers', a)
  <2>1. CASE processInitializationEvent(thriftPeers', {a \in Areas : PeersIn(thriftPeers', a) = {}})
    BY <2>1, InitializationEvent DEF StartInv
  <2>2. CASE UNCHANGED <<initialSyncCompleted, initialSyncSignalSent, synced>>
    BY <2>2 DEF StartInv, Flags, Signalled
  <2> QED
    BY <1>2, <2>1, <2>2
<1>7. settled' \in SUBSET (Areas \X Neighbors)
  BY <1>2 DEF StartInv, Flags
<1>8. kvStoreSyncTimer' \in BOOLEAN
  BY <1>2
<1>9. Flags'
  BY <1>2, <1>6, <1>7, <1>8 DEF StartInv, Flags
<1>10. Reached'
  <2> SUFFICES ASSUME NEW a \in Areas, NEW n \in Neighbors,
                      thriftPeers'[a][n].state = "INITIALIZED" \/ thriftPeers'[a][n].failed
               PROVE  <<a, n>> \in settled'
    BY DEF Reached
  <2>1. n \notin e[a].peersToDel
    BY SMT, <1>4 DEF NoThriftPeer
  <2>2. thriftPeers[a][n].state = "INITIALIZED" \/ thriftPeers[a][n].failed
    BY SMT, <1>4, <2>1
  <2> QED
    BY <1>2, <2>2 DEF StartInv, Reached
<1>11. ASSUME WaitInv, ~timedOut
       PROVE  Stage' /\ CompletedSettled'
  <2>1. initialNeighborsReceived /\ CompletedSettled
    BY <1>2, <1>11 DEF WaitInv, Stage
  <2>2. \A p \in initialPeers :
          p \in settled \/ Mentions(e, p[1], p[2]) \/ thriftPeers[p[1]][p[2]].state # "NONE"
    BY <1>1, <1>2, <1>11 DEF WaitInv, Stage, UnderWay
  <2>3. UnderWay'
    <3> SUFFICES ASSUME NEW p \in initialPeers, p \notin settled'
                 PROVE  thriftPeers'[p[1]][p[2]].state # "NONE"
      BY <1>2 DEF UnderWay
    <3>1. p \in Areas \X Neighbors /\ p[1] \in Areas /\ p[2] \in Neighbors
      BY DEF StartInv, Flags
    <3>2. p \notin settled /\ p[2] \notin e[p[1]].peersToDel
      BY <1>2, <3>1
    <3>3. CASE Mentions(e, p[1], p[2])
      BY <1>4, <3>1, <3>2, <3>3
    <3>4. CASE ~Mentions(e, p[1], p[2])
      BY <1>4, <2>2, <3>1, <3>2, <3>4
    <3> QED
      BY <3>3, <3>4
  <2>4. settled \subseteq settled'
    BY <1>2
  <2>5. CompletedSettled'
    BY <1>2, <1>6, <1>9, <1>10, <2>1, <2>3, <2>4, CompletedAfterSettled DEF StartInv
  <2> QED
    BY <1>2, <2>1, <2>3, <2>5 DEF Stage
<1> QED
  BY <1>2, <1>5, <1>6, <1>9, <1>10, <1>11 DEF StartInv, WaitInv

LEMMA TimeoutStarts ==
  ASSUME StartInv, KvStoreSyncTimeout
  PROVE  StartInv' /\ WaitInv'
<1>1. /\ processInitializationEvent(thriftPeers, {a \in Areas : PeersIn(thriftPeers, a) = {}})
      /\ kvStoreSyncTimer' = FALSE /\ timedOut' = TRUE
      /\ UNCHANGED <<lmVars, thriftPeers>> /\ settled' = settled
  BY DEF KvStoreSyncTimeout
<1>2. FollowInv'
  BY <1>1, FollowUnchanged DEF StartInv
<1>3. /\ initialSyncCompleted' \in [Areas -> BOOLEAN] /\ initialSyncSignalSent' \in BOOLEAN
      /\ Signalled'
  BY <1>1, InitializationEvent DEF StartInv
<1>4. Flags' /\ Reached'
  BY <1>1, <1>3 DEF StartInv, Flags, Reached, lmVars
<1> QED
  BY <1>1, <1>2, <1>3, <1>4 DEF StartInv, WaitInv

(* A known peer moves, and if it was reached or has failed it has settled. *)
LEMMA PeerStarts ==
  ASSUME StartInv, NEW a \in Areas, NEW n \in Neighbors, NEW new \in ThriftPeer,
         thriftPeers[a][n].state # "NONE", new.state # "NONE", new.spec = thriftPeers[a][n].spec,
         thriftPeers' = [thriftPeers EXCEPT ![a][n] = new],
         UNCHANGED <<lmVars, kvStoreSyncTimer, timedOut>>,
         settled' = settled \/ settled' = settled \cup {<<a, n>>},
         new.state = "INITIALIZED" \/ new.failed => <<a, n>> \in settled',
         \/ processInitializationEvent(thriftPeers', {a})
         \/ UNCHANGED <<initialSyncCompleted, initialSyncSignalSent, synced>>
  PROVE  StartInv' /\ (WaitInv => WaitInv')
<1>1. /\ initialNeighborsReceived' = initialNeighborsReceived /\ initialPeers' = initialPeers
      /\ kvStoreSyncTimer' = kvStoreSyncTimer /\ timedOut' = timedOut
  BY DEF lmVars
<1>2. /\ FollowInv'
      /\ \A b \in Areas, m \in Neighbors :
           thriftPeers'[b][m] = IF b = a /\ m = n THEN new ELSE thriftPeers[b][m]
  BY PeerMoves DEF StartInv
<1>3. settled \subseteq settled' /\ settled' \in SUBSET (Areas \X Neighbors)
  BY SMT DEF StartInv, Flags
<1>4. /\ initialSyncCompleted' \in [Areas -> BOOLEAN] /\ initialSyncSignalSent' \in BOOLEAN
      /\ Signalled'
      /\ \A b \in Areas : initialSyncCompleted'[b] =>
           initialSyncCompleted[b] \/ SyncedOrFailed(thriftPeers', b)
  <2>1. CASE processInitializationEvent(thriftPeers', {a})
    BY <2>1, InitializationEvent DEF StartInv
  <2>2. CASE UNCHANGED <<initialSyncCompleted, initialSyncSignalSent, synced>>
    BY <2>2 DEF StartInv, Flags, Signalled
  <2> QED
    BY <2>1, <2>2
<1>5. Flags'
  BY <1>1, <1>3, <1>4 DEF StartInv, Flags
<1>6. Reached'
  BY SMT, <1>2, <1>3 DEF StartInv, Reached
<1>7. ASSUME WaitInv, ~timedOut
      PROVE  Stage' /\ CompletedSettled'
  <2>1. initialNeighborsReceived /\ UnderWay /\ CompletedSettled
    BY <1>7 DEF WaitInv, Stage, Quiet
  <2>2. UnderWay'
    <3> SUFFICES ASSUME NEW p \in initialPeers, p \notin settled'
                 PROVE  thriftPeers'[p[1]][p[2]].state # "NONE"
      BY <1>1 DEF UnderWay
    <3>1. p[1] \in Areas /\ p[2] \in Neighbors
      BY DEF StartInv, Flags
    <3>2. thriftPeers[p[1]][p[2]].state # "NONE"
      BY <1>3, <2>1 DEF UnderWay
    <3> QED
      BY SMT, <1>2, <3>1, <3>2
  <2>3. CompletedSettled'
    BY <1>1, <1>3, <1>4, <1>5, <1>6, <2>1, <2>2, CompletedAfterSettled DEF StartInv
  <2> QED
    BY <1>1, <2>1, <2>2, <2>3 DEF Stage
<1> QED
  BY SMT, <1>1, <1>2, <1>4, <1>5, <1>6, <1>7 DEF StartInv, WaitInv

(* The three steps of a session. *)
LEMMA SessionStarts ==
  ASSUME StartInv, NEW a \in Areas, NEW n \in Neighbors,
         requestThriftPeerSync(a, n) \/ processThriftSuccess(a, n) \/ processThriftFailure(a, n)
  PROVE  StartInv' /\ (WaitInv => WaitInv')
<1>1. PICK peer : peer = thriftPeers[a][n]
  OBVIOUS
<1>2. peer \in ThriftPeer /\ thriftPeers \in [Areas -> [Neighbors -> ThriftPeer]]
  BY <1>1 DEF StartInv, FollowInv, KvTyped
<1>3. CASE requestThriftPeerSync(a, n)
  <2>1. PICK new : new = [peer EXCEPT !.state = "SYNCING"]
    OBVIOUS
  <2>2. new \in ThriftPeer /\ new.state = "SYNCING" /\ new.spec = peer.spec /\ new.failed = peer.failed
    BY <1>2, <2>1 DEF ThriftPeer, PeerState
  <2>3. thriftPeers' = [thriftPeers EXCEPT ![a][n] = new]
    BY <1>1, <1>3, <2>1 DEF requestThriftPeerSync
  <2>4. /\ peer.state = "IDLE" /\ settled' = settled
        /\ UNCHANGED <<lmVars, kvStoreSyncTimer, timedOut>>
        /\ UNCHANGED <<initialSyncCompleted, initialSyncSignalSent, synced>>
    BY <1>1, <1>3 DEF requestThriftPeerSync
  <2>5. new.state = "INITIALIZED" \/ new.failed => <<a, n>> \in settled'
    BY <1>1, <2>2, <2>4 DEF StartInv, Reached
  <2>6. thriftPeers[a][n].state # "NONE" /\ new.state # "NONE" /\ new.spec = thriftPeers[a][n].spec
    BY <1>1, <2>2, <2>4
  <2> QED
    BY <2>2, <2>3, <2>4, <2>5, <2>6, PeerStarts
<1>4. ASSUME NEW new \in ThriftPeer, NEW tp, Settle(tp, a, n), tp = [thriftPeers EXCEPT ![a][n] = new],
             thriftPeers[a][n].state # "NONE", new.state # "NONE", new.spec = thriftPeers[a][n].spec
      PROVE  StartInv' /\ (WaitInv => WaitInv')
  <2>1. /\ thriftPeers' = [thriftPeers EXCEPT ![a][n] = new]
        /\ settled' = settled \cup {<<a, n>>}
        /\ UNCHANGED <<lmVars, kvStoreSyncTimer, timedOut>>
        /\ \/ processInitializationEvent(thriftPeers', {a})
           \/ UNCHANGED <<initialSyncCompleted, initialSyncSignalSent, synced>>
    BY <1>4 DEF Settle
  <2> QED
    BY <1>4, <2>1, PeerStarts
<1>5. CASE processThriftSuccess(a, n)
  <2>1. PICK new : new = [peer EXCEPT !.state = "INITIALIZED"]
    OBVIOUS
  <2>2. PICK tp : tp = [thriftPeers EXCEPT ![a][n].state = "INITIALIZED"]
    OBVIOUS
  <2>3. new \in ThriftPeer /\ new.state = "INITIALIZED" /\ new.spec = peer.spec
    BY <1>2, <2>1 DEF ThriftPeer, PeerState
  <2>4. tp = [thriftPeers EXCEPT ![a][n] = new]
    BY <1>1, <2>1, <2>2
  <2>5. peer.state = "SYNCING" /\ Settle(tp, a, n)
    BY <1>1, <1>5, <2>2 DEF processThriftSuccess
  <2> QED
    BY <1>1, <1>4, <2>3, <2>4, <2>5
<1>6. CASE processThriftFailure(a, n)
  <2>1. PICK new : new = [peer EXCEPT !.state = "IDLE", !.failed = TRUE]
    OBVIOUS
  <2>2. PICK tp : tp = [thriftPeers EXCEPT ![a][n].state = "IDLE", ![a][n].failed = TRUE]
    OBVIOUS
  <2>3. new \in ThriftPeer /\ new.state = "IDLE" /\ new.spec = peer.spec
    BY <1>2, <2>1 DEF ThriftPeer, PeerState
  <2>4. tp = [thriftPeers EXCEPT ![a][n] = new]
    BY <1>1, <1>2, <2>1, <2>2
  <2>5. peer.state # "NONE" /\ Settle(tp, a, n)
    BY <1>1, <1>6, <2>2 DEF processThriftFailure
  <2> QED
    BY <1>1, <1>4, <2>3, <2>4, <2>5
<1> QED
  BY <1>3, <1>5, <1>6

LEMMA StartSteps ==
  ASSUME StartInv, [StartNext]_startVars
  PROVE  StartInv' /\ (~EarlyDowns /\ WaitInv => WaitInv')
<1>1. CASE LMNext /\ UNCHANGED kvVars
  BY <1>1, LinkMonitorStarts
<1>2. CASE ProcessPeerUpdates
  BY <1>2, UpdateStarts
<1>3. CASE KvStoreSyncTimeout
  BY <1>3, TimeoutStarts
<1>4. CASE \E a \in Areas, n \in Neighbors :
             requestThriftPeerSync(a, n) \/ processThriftSuccess(a, n) \/ processThriftFailure(a, n)
  BY <1>4, SessionStarts
<1>5. CASE UNCHANGED startVars
  <2>1. UNCHANGED lmVars /\ UNCHANGED kvVars
    BY <1>5 DEF startVars
  <2>2. FollowInv'
    BY <2>1, FollowUnchanged DEF StartInv, kvVars
  <2>3. Flags' /\ Signalled' /\ Reached'
    BY <2>1 DEF lmVars, kvVars, StartInv, Flags, Signalled, Reached
  <2>4. WaitInv => WaitInv'
    BY <2>1 DEF lmVars, kvVars, WaitInv, Stage, Quiet, UnderWay, CompletedSettled
  <2> QED
    BY <2>2, <2>3, <2>4 DEF StartInv
<1> QED
  BY <1>1, <1>2, <1>3, <1>4, <1>5 DEF StartNext

(***************************************************************************)
(* LinkMonitor and KvStore together keep their types; KVSTORE_SYNCED is    *)
(* published at most once (initialKvStoreDbSynced).                        *)
(***************************************************************************)
THEOREM StartTyped == StartSpec => []StartTypeOK
<1>1. StartInit => StartInv
  BY StartInitInv
<1>2. StartInv /\ [StartNext]_startVars => StartInv'
  BY StartSteps
<1>3. StartInv => StartTypeOK
  <2> SUFFICES ASSUME StartInv PROVE StartTypeOK
    OBVIOUS
  <2>1. LMTypeOK
    BY DEF StartInv, FollowInv, KvTyped, Flags, LMTypeOK, IInv, Tables, Peer
  <2>2. synced \in 0..1
    BY SMT DEF StartInv, Signalled
  <2> QED
    BY <2>1, <2>2 DEF StartTypeOK, StartInv, FollowInv, KvTyped, Flags, ThriftPeer
<1> QED
  BY <1>1, <1>2, <1>3, PTL DEF StartSpec

(***************************************************************************)
(* processPeerUpdates, updateKvStorePeerNeighborUp and ...Down: also with   *)
(* KvStore reading the queue at its own pace, with peers that fail and     *)
(* with neighbours that go before discovery has ended, what is queued      *)
(* leads KvStore to the peers LinkMonitor has.                             *)
(***************************************************************************)
THEOREM KvStoreFollows == StartSpec => []KvStoreFollowsLinkMonitor
<1>1. StartInit => StartInv
  BY StartInitInv
<1>2. StartInv /\ [StartNext]_startVars => StartInv'
  BY StartSteps
<1>3. StartInv => KvStoreFollowsLinkMonitor
  BY DEF StartInv, FollowInv, Proper, Accounted, KvStoreFollowsLinkMonitor
<1> QED
  BY <1>1, <1>2, <1>3, PTL DEF StartSpec

(***************************************************************************)
(* If no neighbour goes before discovery has ended, KVSTORE_SYNCED waits   *)
(* for every peer of the initial event, for any number of areas, peers,    *)
(* failures and later departures (processInitializationEvent).             *)
(***************************************************************************)
THEOREM SyncedWaits ==
  ASSUME ~EarlyDowns
  PROVE  StartSpec => []SyncedWithInitialPeers
<1>1. StartInit => StartInv /\ WaitInv
  BY StartInitInv
<1>2. StartInv /\ WaitInv /\ [StartNext]_startVars => StartInv' /\ WaitInv'
  BY StartSteps
<1>3. StartInv /\ WaitInv => SyncedWithInitialPeers
  <2> SUFFICES ASSUME StartInv, WaitInv, synced > 0, ~timedOut
               PROVE  initialPeers \subseteq settled
    BY DEF SyncedWithInitialPeers
  <2>1. \A a \in Areas : initialSyncCompleted[a]
    BY SMT DEF StartInv, Signalled
  <2> QED
    BY <2>1 DEF WaitInv, CompletedSettled, StartInv, Flags
<1> QED
  BY <1>1, <1>2, <1>3, PTL DEF StartSpec

(***************************************************************************)
(* Under the same condition KVSTORE_SYNCED follows NEIGHBOR_DISCOVERED     *)
(* (processInitializationEvent).  Without it this is false: a neighbour    *)
(* that goes early makes LinkMonitor send an event, and KvStore takes its  *)
(* areas, still without peers, for synced.                                 *)
(***************************************************************************)
THEOREM SyncedFollowsDiscovery ==
  ASSUME ~EarlyDowns
  PROVE  StartSpec => []SyncedAfterDiscovery
<1>1. StartInit => StartInv /\ WaitInv
  BY StartInitInv
<1>2. StartInv /\ WaitInv /\ [StartNext]_startVars => StartInv' /\ WaitInv'
  BY StartSteps
<1>3. StartInv /\ WaitInv => SyncedAfterDiscovery
  <2> SUFFICES ASSUME StartInv, WaitInv, synced > 0, ~timedOut
               PROVE  initialNeighborsReceived
    BY DEF SyncedAfterDiscovery
  <2>1. initialSyncSignalSent
    BY SMT DEF StartInv, Signalled
  <2> QED
    BY <2>1 DEF WaitInv, Stage, Quiet
<1> QED
  BY <1>1, <1>2, <1>3, PTL DEF StartSpec

================================================================================
