---------------------------- MODULE SuppressionQueue ----------------------------
(***************************************************************************)
(* A reader queue with keyed state suppression: RWQueue and its            *)
(* StateSuppressionQueue (openr/messaging/Queue.h, Queue-inl.h), with the  *)
(* three policies the code gives it:                                       *)
(*   "publications"  KvStore publications behind the Dispatcher's filter   *)
(*                   (openr/dispatcher), merged per area;                  *)
(*   "requests"      requests to KvStore (KvStoreRequestQueue.h), replaced *)
(*                   per key once the backlog passes a threshold;          *)
(*   "prefixes"      the prefixes LinkMonitor redistributes                *)
(*                   (PrefixUpdatesQueue.h), a withdrawal purging the      *)
(*                   additions before it; no other kind of prefix event is *)
(*                   pushed, and the policy would drop it.                 *)
(*                                                                         *)
(* A lane is what must stay in order: an area, a request key, a prefix.    *)
(* The state of a lane after each message is recorded; a pending value     *)
(* carries the position, in every lane, that it brings the reader to.      *)
(***************************************************************************)
EXTENDS Integers, Sequences, SequencesExt, FiniteSets, TLC

CONSTANTS StoreKeys,     \* keys of a KvStore
          AreaKeys,      \* [area -> the keys that change in it]
          RequestKeys, RedistPrefixes,
          RequestValues, \* what is requested, or the areas a prefix goes to
          QueueScenes,   \* [source, suppress, filter, threshold, max]; max bounds what is produced
          NoValue        \* no value

ASSUME QueueSceneAssumption ==
  \A s \in QueueScenes :
    /\ s.source \in {"publications", "requests", "prefixes"} /\ s.suppress \in BOOLEAN
    /\ s.filter \subseteq StoreKeys /\ s.threshold \in Nat /\ s.max \in Nat
    /\ s.source # "requests" => s.threshold = 0

Areas == DOMAIN AreaKeys
Lanes == Areas \cup RequestKeys \cup RedistPrefixes

VARIABLES sqScene,
          sqQueue,       \* queue_: [msg, key, action, indexed, upto]; indexed: pendingStateByKey_ names it
          sqActive,      \* suppressionActive_
          sqWaiting,     \* pendingReads_
          sqHand,        \* the value handed to the reader
          sqClosed,      \* closed_
          sqProducer,    \* the producer: [db, redist, todo, pushed]
          sqPublished, sqSeen, sqView   \* per lane: the states published, and the reader's

sqVars == <<sqScene, sqQueue, sqActive, sqWaiting, sqHand, sqClosed, sqProducer,
            sqPublished, sqSeen, sqView>>

--------------------------------------------------------------------------------
(* What a message means to a reader, lane by lane. *)
Concerns(m, lane) ==
  CASE m.kind = "publication" -> lane = m.area
    [] m.kind = "initialization" -> lane \in Areas
    [] m.kind \in {"persist", "clear", "set"} -> lane = m.key
    [] m.kind = "add" -> lane \in DOMAIN m.prefixes
    [] m.kind = "withdraw" -> lane \in m.prefixes

isTtlOnlyUpdate(v) == ~v.payload

(* A reader's copy of an area: a refresh needs the value it refreshes; expiries come last. *)
ReadPublication(db, m) ==
  [k \in StoreKeys |->
    IF k \in m.expired THEN NoValue
    ELSE IF k \notin DOMAIN m.keyVals THEN db[k]
    ELSE LET v == m.keyVals[k] IN
         IF ~isTtlOnlyUpdate(v) THEN <<v.version, v.ttlVersion>>
         ELSE IF db[k] # NoValue /\ db[k][1] = v.version THEN <<v.version, v.ttlVersion>>
         ELSE db[k]]

ApplyMessage(m, lane, s) ==
  CASE m.kind = "publication" -> [s EXCEPT !.db = ReadPublication(@, m)]
    [] m.kind = "initialization" -> [s EXCEPT !.events = @ + 1]
    [] m.kind = "persist" -> [s EXCEPT !.value = m.value]
    [] m.kind = "clear" -> [s EXCEPT !.value = NoValue]
    [] m.kind = "set" -> [s EXCEPT !.value = m.value, !.sets = @ + 1]
    [] m.kind = "add" -> [s EXCEPT !.value = m.prefixes[lane]]
    [] m.kind = "withdraw" -> [s EXCEPT !.value = NoValue]

NothingYet == [db |-> [k \in StoreKeys |-> NoValue], events |-> 0, value |-> NoValue, sets |-> 0]
LaneState == [db : [StoreKeys -> {NoValue} \cup (Nat \X Nat)], events : Nat,
              value : RequestValues \cup {NoValue}, sets : Nat]

--------------------------------------------------------------------------------
(* The policies. *)
ClassifyRequest(m) ==
  [key |-> m.key, action |-> IF m.kind = "set" THEN "KEY_BARRIER" ELSE "REPLACE_PENDING"]
ClassifyPrefixEvent(m) ==
  IF m.kind = "add" THEN [key |-> "", action |-> "PURGEABLE"]
  ELSE [key |-> "withdraw", action |-> "MERGE_PENDING_AND_PURGE"]
Classify(m) ==
  CASE m.kind = "publication" -> [key |-> m.area, action |-> "MERGE_PENDING"]
    [] m.kind = "initialization" -> [key |-> "", action |-> "KEY_BARRIER"]
    [] m.kind \in {"persist", "clear", "set"} -> ClassifyRequest(m)
    [] m.kind \in {"add", "withdraw"} -> ClassifyPrefixEvent(m)

refreshesPendingValue(p, v) == isTtlOnlyUpdate(v) /\ ~isTtlOnlyUpdate(p) /\ p.version = v.version

mergeKeyVal_Assign(p, v) == v
mergeKeyVal(p, v) ==
  IF refreshesPendingValue(p, v)
  THEN IF v.ttlVersion > p.ttlVersion THEN [p EXCEPT !.ttlVersion = v.ttlVersion] ELSE p
  ELSE v

mergePublicationInPlace(pending, incoming) ==
  LET fresh == {k \in DOMAIN incoming.keyVals :
                  k \in pending.expired => ~isTtlOnlyUpdate(incoming.keyVals[k])}
      kept == (DOMAIN pending.keyVals \cup fresh) \ incoming.expired
  IN [pending EXCEPT
       !.keyVals = [k \in kept |->
          IF k \notin fresh THEN pending.keyVals[k]
          ELSE IF k \notin DOMAIN pending.keyVals THEN incoming.keyVals[k]
          ELSE mergeKeyVal(pending.keyVals[k], incoming.keyVals[k])],
       !.expired = (pending.expired \ fresh) \cup incoming.expired]

mergePrefixWithdrawIntoPending(pending, incoming) ==
  [pending EXCEPT !.prefixes = @ \cup incoming.prefixes]

mergeIntoPending(pending, incoming) ==
  IF pending.kind = "publication" THEN mergePublicationInPlace(pending, incoming)
  ELSE mergePrefixWithdrawIntoPending(pending, incoming)

(* DispatcherQueue::filterKeys: a reader with filters gets no refreshes. *)
filterKeys(m, filter) ==
  IF filter = {} \/ m.kind # "publication" THEN m
  ELSE LET kept == {k \in DOMAIN m.keyVals : k \in filter /\ ~isTtlOnlyUpdate(m.keyVals[k])}
       IN [m EXCEPT !.keyVals = [k \in kept |-> m.keyVals[k]], !.expired = @ \cap filter]
IsEmptyPublication(m) == m.kind = "publication" /\ DOMAIN m.keyVals = {} /\ m.expired = {}

--------------------------------------------------------------------------------
(* indexPendingState: a node joins the nodes before it. *)
LaneMax(f, g) == [l \in DOMAIN f |-> IF f[l] > g[l] THEN f[l] ELSE g[l]]

indexPendingState_InPlace(q, n) ==
  IF n.action \in {"MERGE_PENDING", "REPLACE_PENDING"} /\ \E i \in 1..Len(q) : q[i].key = n.key
  THEN [i \in 1..Len(q) |-> IF q[i].key # n.key THEN q[i]
                            ELSE IF n.action = "REPLACE_PENDING" THEN n
                            ELSE [q[i] EXCEPT !.msg = mergeIntoPending(@, n.msg), !.upto = LaneMax(@, n.upto)]]
  ELSE Append(q, [n EXCEPT !.indexed = TRUE])
indexPendingState(q, n) ==
  LET names(x) == x.indexed /\ x.key = n.key
      old == SelectSeq(q, names)
      others == SelectSeq(q, LAMBDA x : ~names(x))
      merged == IF old = <<>> THEN n
                ELSE [n EXCEPT !.msg = mergeIntoPending(old[1].msg, n.msg),
                               !.upto = LaneMax(old[1].upto, n.upto)]
  IN CASE n.action = "KEY_BARRIER" ->
            Append([i \in 1..Len(q) |-> IF n.key \in {"", q[i].key}
                                        THEN [q[i] EXCEPT !.indexed = FALSE] ELSE q[i]], n)
       [] n.action = "PURGEABLE" -> Append(q, n)
       [] n.action = "REPLACE_PENDING" -> Append(others, [n EXCEPT !.indexed = TRUE])
       [] n.action = "MERGE_PENDING" -> Append(others, [merged EXCEPT !.indexed = TRUE])
       [] n.action = "MERGE_PENDING_AND_PURGE" ->
            Append(SelectSeq(others, LAMBDA x : x.action # "PURGEABLE"), [merged EXCEPT !.indexed = TRUE])

activateSuppression(q) == FoldLeft(indexPendingState, <<>>, q)

(* StateSuppressionQueue::push: FIFO up to the threshold, then suppression until drained. *)
SuppressingPush(q, n) ==
  IF ~sqScene.suppress THEN Append(q, n)
  ELSE IF sqActive THEN indexPendingState(q, n)
  ELSE IF Len(q) + 1 > sqScene.threshold THEN activateSuppression(Append(q, n))
  ELSE Append(q, n)
ActiveAfterPush(q) == sqActive \/ Len(q) + 1 > sqScene.threshold

--------------------------------------------------------------------------------
QueueInit ==
  /\ sqScene \in QueueScenes
  /\ sqQueue = <<>> /\ sqActive = (sqScene.threshold = 0)
  /\ sqWaiting = FALSE /\ sqHand = NoValue /\ sqClosed = FALSE
  /\ sqProducer = [db |-> [a \in Areas |-> [k \in StoreKeys |-> NoValue]],
                   redist |-> [p \in RedistPrefixes |-> NoValue], todo |-> <<>>, pushed |-> 0]
  /\ sqPublished = [l \in Lanes |-> <<NothingYet>>]
  /\ sqSeen = [l \in Lanes |-> 1] /\ sqView = [l \in Lanes |-> NothingYet]

(* RWQueue::push of one message: to a waiting reader, or into the queue. *)
PushMessage(m) ==
  LET concerned == {l \in Lanes : Concerns(m, l)}
      c == Classify(m)
      n == [msg |-> m, key |-> c.key, action |-> c.action, indexed |-> FALSE,
            upto |-> [l \in Lanes |-> IF l \in concerned THEN Len(sqPublished[l]) + 1 ELSE 0]]
  IN /\ IF sqWaiting
        THEN sqHand' = n /\ sqWaiting' = FALSE /\ UNCHANGED <<sqQueue, sqActive>>
        ELSE /\ sqQueue' = SuppressingPush(sqQueue, n)
             /\ sqActive' = ActiveAfterPush(sqQueue)
             /\ UNCHANGED <<sqHand, sqWaiting>>
     /\ sqPublished' = [l \in Lanes |->
          IF l \notin concerned THEN sqPublished[l]
          ELSE Append(sqPublished[l], ApplyMessage(m, l, Last(sqPublished[l])))]

Ready(source) ==
  /\ ~sqClosed /\ sqScene.source = source
  /\ sqProducer.todo = <<>> /\ sqProducer.pushed < sqScene.max

(* KvStore publishes a new value, a refresh or an expiry, through the Dispatcher's filter. *)
Publication(a, k, v) ==
  [kind |-> "publication", area |-> a,
   keyVals |-> IF v = NoValue THEN <<>> ELSE k :> v, expired |-> IF v = NoValue THEN {k} ELSE {}]

Dispatch(m) ==
  LET f == filterKeys(m, sqScene.filter)
  IN IF IsEmptyPublication(f)
     THEN UNCHANGED <<sqQueue, sqActive, sqWaiting, sqHand, sqPublished>>
     ELSE PushMessage(f)

KvStorePublishes(a, k) ==
  /\ Ready("publications")
  /\ LET cur == sqProducer.db[a][k] IN
     \E v \in {NoValue, [version |-> 1, ttlVersion |-> 0, payload |-> TRUE]} \cup
              (IF cur = NoValue THEN {} ELSE {[version |-> cur[1] + 1, ttlVersion |-> 0, payload |-> TRUE],
                                             [version |-> cur[1], ttlVersion |-> cur[2] + 1, payload |-> FALSE]}) :
       /\ v = NoValue => cur # NoValue
       /\ v # NoValue /\ cur # NoValue => v.version > cur[1] \/ ~v.payload
       /\ sqProducer' = [sqProducer EXCEPT
            !.db[a][k] = IF v = NoValue THEN NoValue ELSE <<v.version, v.ttlVersion>>,
            !.pushed = @ + 1]
       /\ Dispatch(Publication(a, k, v))
  /\ UNCHANGED <<sqScene, sqClosed, sqSeen, sqView>>

Initialized ==
  /\ Ready("publications")
  /\ sqProducer' = [sqProducer EXCEPT !.pushed = @ + 1]
  /\ Dispatch([kind |-> "initialization"])
  /\ UNCHANGED <<sqScene, sqClosed, sqSeen, sqView>>

Request(kind, k, v) ==
  /\ Ready("requests")
  /\ sqProducer' = [sqProducer EXCEPT !.pushed = @ + 1]
  /\ PushMessage([kind |-> kind, key |-> k, value |-> v])
  /\ UNCHANGED <<sqScene, sqClosed, sqSeen, sqView>>

(* LinkMonitor::advertiseRedistAddrs: one withdrawal, then the additions, one per set of areas; *)
(* each is a push of its own. *)
AdvertiseRedistAddrs(redist) ==
  /\ Ready("prefixes")
  /\ LET now == {p \in RedistPrefixes : redist[p] # NoValue}
         gone == {p \in RedistPrefixes \ now : sqProducer.redist[p] # NoValue}
         adds == {[kind |-> "add", prefixes |-> [p \in {q \in now : redist[q] = v} |-> v]] :
                    v \in {redist[p] : p \in now}}
     IN sqProducer' = [sqProducer EXCEPT !.redist = redist, !.pushed = @ + 1,
                         !.todo = <<[kind |-> "withdraw", prefixes |-> gone]>> \o SetToSeq(adds)]
  /\ UNCHANGED <<sqScene, sqQueue, sqActive, sqWaiting, sqHand, sqClosed, sqPublished, sqSeen, sqView>>

PushNextEvent ==
  /\ ~sqClosed /\ sqProducer.todo # <<>>
  /\ PushMessage(Head(sqProducer.todo))
  /\ sqProducer' = [sqProducer EXCEPT !.todo = Tail(@)]
  /\ UNCHANGED <<sqScene, sqClosed, sqSeen, sqView>>

(* getAnyImpl and pop: take the head, or wait; a drained queue is FIFO again. *)
Read ==
  /\ ~sqClosed /\ ~sqWaiting /\ sqHand = NoValue
  /\ IF sqQueue = <<>>
     THEN sqWaiting' = TRUE /\ UNCHANGED <<sqQueue, sqHand, sqActive>>
     ELSE /\ sqHand' = Head(sqQueue) /\ sqQueue' = Tail(sqQueue)
          /\ sqActive' = (sqActive /\ (Len(sqQueue) > 1 \/ sqScene.threshold = 0))
          /\ UNCHANGED sqWaiting
  /\ UNCHANGED <<sqScene, sqClosed, sqProducer, sqPublished, sqSeen, sqView>>

(* The reader processes the value. *)
Process ==
  /\ sqHand # NoValue
  /\ sqView' = [l \in Lanes |-> IF Concerns(sqHand.msg, l) THEN ApplyMessage(sqHand.msg, l, sqView[l])
                                 ELSE sqView[l]]
  /\ sqSeen' = LaneMax(sqSeen, sqHand.upto)
  /\ sqHand' = NoValue
  /\ UNCHANGED <<sqScene, sqQueue, sqActive, sqWaiting, sqClosed, sqProducer, sqPublished>>

CloseQueue ==
  /\ ~sqClosed
  /\ sqClosed' = TRUE /\ sqQueue' = <<>> /\ sqWaiting' = FALSE /\ sqActive' = (sqScene.threshold = 0)
  /\ UNCHANGED <<sqScene, sqHand, sqProducer, sqPublished, sqSeen, sqView>>

QueueNext ==
  \/ \E a \in Areas : \E k \in AreaKeys[a] : KvStorePublishes(a, k)
  \/ Initialized
  \/ \E k \in RequestKeys, v \in RequestValues : Request("persist", k, v) \/ Request("set", k, v)
  \/ \E k \in RequestKeys : Request("clear", k, NoValue)
  \/ \E redist \in [RedistPrefixes -> RequestValues \cup {NoValue}] : AdvertiseRedistAddrs(redist)
  \/ PushNextEvent \/ Read \/ Process \/ CloseQueue

QueueSpec == QueueInit /\ [][QueueNext]_sqVars

--------------------------------------------------------------------------------
LaneStream == INSTANCE StateStream WITH StreamLanes <- Lanes, States <- LaneState, FirstStates <- {NothingYet},
                published <- sqPublished, seen <- sqSeen, view <- sqView

(* Suppression is invisible within a lane: what the reader knows of an area (with the initialization *)
(* events), of a requested key or of a prefix is always a state that existed, and never an older one. *)
LanesMoveForward == LaneStream!StreamSpec

(* What the reader will know once it has read all that is pending. *)
Pending == (IF sqHand = NoValue THEN <<>> ELSE <<sqHand>>) \o sqQueue
Eventual(l) ==
  FoldLeft(LAMBDA s, n : IF Concerns(n.msg, l) THEN ApplyMessage(n.msg, l, s) ELSE s, sqView[l], Pending)

(* Nothing is lost: whatever was dropped, replaced, merged or purged, a reader that drains the queue *)
(* ends with the store's keys (their versions, behind a filter), the last request of every key with *)
(* every Set counted, and the prefixes LinkMonitor redistributes. *)
DrainedReaderIsCurrent ==
  ~sqClosed /\ sqProducer.todo = <<>> =>
    CASE sqScene.source = "publications" ->
           \A a \in Areas : \A k \in AreaKeys[a] :
             LET got == Eventual(a).db[k]
                 has == sqProducer.db[a][k]
             IN IF sqScene.filter = {} THEN got = has
                ELSE k \in sqScene.filter =>
                       IF has = NoValue THEN got = NoValue ELSE got # NoValue /\ got[1] = has[1]
      [] sqScene.source = "requests" -> \A k \in RequestKeys : Eventual(k) = Last(sqPublished[k])
      [] sqScene.source = "prefixes" -> \A p \in RedistPrefixes : Eventual(p).value = sqProducer.redist[p]

(* A stalled reader's backlog is bounded: while suppression is active, two values of one key are both *)
(* pending only when a barrier stands between them. *)
SuppressionBoundsBacklog ==
  sqScene.suppress /\ sqActive =>
    \A i, j \in 1..Len(sqQueue) :
      /\ i < j /\ sqQueue[i].key = sqQueue[j].key
      /\ {sqQueue[i].action, sqQueue[j].action} \cap {"PURGEABLE", "KEY_BARRIER"} = {}
      => \E b \in i..j : sqQueue[b].action = "KEY_BARRIER" /\ sqQueue[b].key \in {"", sqQueue[i].key}

(* A suppressing queue loses nothing that counts and keeps a stalled reader's backlog bounded *)
(* (Queue.h, push and activateSuppression).                                                   *)
SuppressionInvariant ==
  /\ DrainedReaderIsCurrent
  /\ SuppressionBoundsBacklog

================================================================================
