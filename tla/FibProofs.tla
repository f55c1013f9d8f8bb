------------------------------- MODULE FibProofs -------------------------------
(***************************************************************************)
(* For all prefixes and routes, however many updates, failures and         *)
(* restarts: Fib's fibers lose no wake-up, a sync ends in SYNCING, and     *)
(* what is not marked dirty is programmed and published.                   *)
(***************************************************************************)
EXTENDS Fib, TLAPS

(* Most steps are first-order; the ones with arithmetic or records say SMT. *)
USE Zenon

(* Who has the lock is in a call or about to resume; only the retry fiber  *)
(* syncs, and Fib stays in SYNCING from its decision to the sync's end.    *)
LockInv ==
  /\ op.call = "none" <=> op = NoOp
  /\ \A f \in Fibers : /\ lock = f => (op = NoOp <=> want[f] # NoRequest)
                       /\ want[f].kind = "none" <=> want[f] = NoRequest
  /\ want["update"].kind \in {"none", "update"}
  /\ want["retry"].kind \in {"none", "retry", "sync"}
  /\ op.call = "sync" => lock = "retry" /\ state = "SYNCING"
  /\ want["retry"].kind = "sync" => state = "SYNCING"
  /\ state = "AWAITING" => lock = "free" /\ unicastRoutes = EmptyTable
                           /\ \A p \in Prefixes : dirtyPrefixes[p] = "clean"

(* An update of Decision that waits for the lock, or is in a call, is proper: *)
(* no prefix is both updated and deleted, and the routes are those stored. *)
UpdateInv ==
  /\ want["update"].update.type = "INCREMENTAL"
  /\ want["update"].update.toDelete \cap ToUpdate(want["update"].update) = {}
  /\ op.call \in {"delete", "add"} =>
       /\ \A p \in ToUpdate(op.update) : unicastRoutes[p] = op.update.toUpdate[p]
       /\ \A p \in op.update.toDelete : unicastRoutes[p] = NoRoute
       /\ op.update.type = "INCREMENTAL"
  /\ op.call = "sync" =>
       /\ op.table = unicastRoutes
       /\ \A p \in ToUpdate(op.update) : op.update.toUpdate[p] = op.table[p]

(* The prefixes the call in progress is still to program. *)
Unprogrammed ==
  CASE op.call = "delete" -> op.update.toDelete \cup ToUpdate(op.update)
    [] op.call = "add" -> ToUpdate(op.update)
    [] OTHER -> {}

(* A synced Fib that knows of every restart: a clean prefix is programmed, *)
(* unless the call in progress is about it. *)
ProgrammedInv ==
  /\ latestAliveSince <= aliveSince
  /\ state = "SYNCED" /\ latestAliveSince \in {0, aliveSince} =>
       \A p \in Prefixes \ Unprogrammed :
         dirtyPrefixes[p] = "clean" => agent[p] = unicastRoutes[p]

(* Until SYNCED is left for the first time a sync is the first one, and    *)
(* clean prefixes are published, unless the call in progress will do it.   *)
PublishedInv ==
  /\ state = "SYNCED" => isInitialSynced
  /\ resyncs = 0 =>
       /\ isInitialSynced => state = "SYNCED"
       /\ op.call = "sync" =>
            op.update = [type |-> "FULL_SYNC", toUpdate |-> unicastRoutes, toDelete |-> {}]
       /\ state = "SYNCED" =>
            \A p \in Prefixes :
              /\ dirtyPrefixes[p] = "clean"
              /\ op.call \in {"delete", "add"} => p \notin op.update.toDelete \cup ToUpdate(op.update)
              => published[p] = unicastRoutes[p]

-----------------------------------------------------------------------------
(* What the operators on route tables return. *)
Marks == [Prefixes -> {"clean", "waiting", "due"}]

(* RouteState::update gives a table of routes. *)
LEMMA ApplyType ==
  ASSUME NEW table \in Table, NEW update \in Update
  PROVE  Apply(table, update) \in Table
BY DEF Apply, Table, Update, ToUpdate

(* Some routes of a table are a table. *)
LEMMA OnlyType ==
  ASSUME NEW table \in Table, NEW S
  PROVE  Only(table, S) \in Table
BY DEF Only, Table

(* Nothing is a table and an update. *)
LEMMA EmptyTypes == EmptyTable \in Table /\ NoUpdate \in Update /\ NoRequest \in Request /\ NoOp \in Op
<1>1. EmptyTable \in Table
  BY DEF EmptyTable, Table
<1>2. NoUpdate \in Update
  BY <1>1 DEF NoUpdate, Incremental, Update
<1>3. QED
  BY <1>1, <1>2 DEF NoRequest, Request, NoOp, Op

(* Marking prefixes as dirty or clean (addDirty). *)
LEMMA MarkType ==
  ASSUME NEW dirty \in Marks, NEW S, NEW mark \in {"clean", "waiting", "due"}
  PROVE  Mark(dirty, S, mark) \in Marks
BY DEF Mark, Marks

(* createUpdate gives an update, and takes prefixes out of dirtyPrefixes. *)
LEMMA CreateUpdateType ==
  ASSUME unicastRoutes \in Table, dirtyPrefixes \in Marks
  PROVE  createUpdate \in Update /\ dirtyAfterCreateUpdate \in Marks
<1>1. Only(unicastRoutes, Due) \in Table
  BY OnlyType
<1>2. Mark(dirtyPrefixes, Due, "clean") \in Marks
  BY MarkType
<1>3. QED
  BY <1>1, <1>2 DEF createUpdate, dirtyAfterCreateUpdate, Update, Incremental, Due

(* processFibUpdateError turns an update into an update. *)
LEMMA ErrorType ==
  ASSUME NEW update \in Update, NEW failed \in SUBSET Prefixes
  PROVE  processFibUpdateError(update, failed) \in Update
<1>1. Only(update.toUpdate, Prefixes \ failed) \in Table
  BY OnlyType DEF Update
<1>2. QED
  BY <1>1 DEF processFibUpdateError, Update

-----------------------------------------------------------------------------
(* How a fiber gives the lock back: to the other one if it waits. *)
Released(f) ==
  /\ op' = NoOp
  /\ lock' = IF want[OtherFiber(f)] = NoRequest THEN "free" ELSE OtherFiber(f)

(* What a step may leave behind: a signal, a running timer or a fiber at work. *)
WillRetry ==
  needsRetry(state', dirtyPrefixes') => retrySignals' > 0 \/ retryTimer' \/ lock' # "free"

(* The end of updateRoutes and syncRoutes wakes whoever has to retry. *)
LEMMA FinishEffect ==
  ASSUME NEW f \in Fibers, NEW signals \in Nat, retryTimer \in BOOLEAN, Finish(f, signals)
  PROVE  /\ Released(f) /\ WillRetry
         /\ retrySignals' \in Nat /\ retryTimer' \in BOOLEAN /\ op' \in Op
<1>1. op' \in Op
  BY EmptyTypes DEF Finish
<1>2. retryTimer' \in BOOLEAN
  BY DEF Finish
<1>3. retrySignals' \in Nat
  BY SMT DEF Finish
<1>4. WillRetry
  <2>1. SUFFICES ASSUME needsRetry(state', dirtyPrefixes') PROVE retrySignals' > 0 \/ retryTimer'
    BY DEF WillRetry
  <2>2. CASE f = "update"
    BY SMT, <2>1, <2>2 DEF Finish
  <2>3. CASE f = "retry"
    BY <2>1, <2>3 DEF Finish
  <2>4. QED
    BY <2>2, <2>3 DEF Fibers
<1>5. QED
  BY <1>1, <1>2, <1>3, <1>4 DEF Finish, Released

(* A call is made by the fiber that has the lock. *)
LEMMA CallEffect ==
  ASSUME TypeOK, NEW f \in Fibers, NEW call \in {"delete", "add", "sync"}, NEW update \in Update,
         NEW table \in Table, Call(f, call, update, table)
  PROVE  /\ op' \in Op /\ op' # NoOp /\ lock' = f /\ lock' # "free"
         /\ op'.call = call /\ op'.update = update /\ op'.table = table /\ op'.to = aliveSince
<1>1. aliveSince \in Nat
  BY SMT, ConfigAssumption DEF TypeOK, Incarnations
<1>2. op'.call = call /\ op'.update = update /\ op'.table = table /\ op'.to = aliveSince
  BY DEF Call
<1>3. op' # NoOp
  BY SMT, <1>2 DEF NoOp
<1>4. QED
  BY <1>1, <1>2, <1>3 DEF Call, Op, Fibers

(* updateRoutes, up to its end or its first call. *)
LEMMA UpdateRoutesEffect ==
  ASSUME TypeOK, NEW f \in Fibers, NEW update \in Update, NEW table \in Table, NEW dirty \in Marks,
         NEW delay \in BOOLEAN, NEW signals \in Nat,
         updateRoutes(f, update, table, dirty, delay, signals)
  PROVE  /\ unicastRoutes' = Apply(table, update) /\ unicastRoutes' \in Table
         /\ dirtyPrefixes' \in Marks /\ published' \in Table /\ op' \in Op
         /\ retrySignals' \in Nat /\ retryTimer' \in BOOLEAN
         /\ WillRetry
         /\ \/ Released(f)
            \/ /\ op' # NoOp /\ lock' = f /\ lock' # "free"
               /\ op'.call \in {"delete", "add"} /\ op'.update = update
               /\ state' # "SYNCING" /\ ~IsEmpty(update)
<1> DEFINE delayed == delay /\ delayedDeletionEnabled
           deletes == IF delayed THEN {} ELSE update.toDelete
           call == IF deletes # {} THEN "delete" ELSE "add"
<1>1. unicastRoutes' = Apply(table, update)
  BY DEF updateRoutes
<1>2. unicastRoutes' \in Table
  BY <1>1, ApplyType
<1>3. dirtyPrefixes' \in Marks
  <2>1. Mark(dirty, update.toDelete, "waiting") \in Marks
    BY MarkType
  <2>2. QED
    BY <2>1 DEF updateRoutes
<1>4. retryTimer \in BOOLEAN /\ published \in Table
  BY DEF TypeOK
<1>5. CASE Finish(f, signals) /\ (published' = published \/ published' = Apply(published, update))
  BY <1>1, <1>2, <1>3, <1>4, <1>5, FinishEffect, ApplyType
<1>6. CASE /\ ~IsEmpty(update) /\ state' # "SYNCING"
           /\ Call(f, call, update, EmptyTable)
           /\ retrySignals' = signals /\ UNCHANGED <<retryTimer, published>>
  <2>1. call \in {"delete", "add"}
    OBVIOUS
  <2>2. /\ op' \in Op /\ op' # NoOp /\ lock' = f /\ lock' # "free"
        /\ op'.call = call /\ op'.update = update
    BY <1>6, <2>1, EmptyTypes, CallEffect
  <2>3. QED
    BY <1>1, <1>2, <1>3, <1>4, <1>6, <2>1, <2>2 DEF WillRetry
<1>7. QED
  BY <1>5, <1>6 DEF updateRoutes

-----------------------------------------------------------------------------
(* The lock, its waiters and the call in progress go together. *)
Locked(l, o, w) ==
  /\ l \in Fibers \cup {"free"}
  /\ l = "free" <=> o = NoOp /\ \A f \in Fibers : w[f] = NoRequest
  /\ o.call = "none" <=> o = NoOp
  /\ \A f \in Fibers : l = f => (o = NoOp <=> w[f] # NoRequest)

(* Giving the lock back keeps them together (updateRoutesSemaphore_). *)
LEMMA ReleasedLock ==
  ASSUME NEW f \in Fibers, Released(f), want'[f] = NoRequest,
         want'[OtherFiber(f)] = want[OtherFiber(f)]
  PROVE  Locked(lock', op', want')
<1>1. op'.call = "none"
  BY DEF Released, NoOp
<1>2. CASE f = "update"
  BY <1>1, <1>2 DEF Locked, Released, Fibers, OtherFiber
<1>3. CASE f = "retry"
  BY <1>1, <1>3 DEF Locked, Released, Fibers, OtherFiber
<1>4. QED
  BY <1>2, <1>3 DEF Fibers

(* So does making a call with it. *)
LEMMA CallingLock ==
  ASSUME NEW f \in Fibers, lock' = f, op' # NoOp, op'.call # "none", want'[f] = NoRequest
  PROVE  Locked(lock', op', want')
BY DEF Locked, Fibers

(* Types, the lock and the wake-ups: what the fibers agree on. *)
FiberInv == TypeOK /\ LockInv /\ NoLostWakeup

(* It holds when Fib starts. *)
LEMMA FiberInvInit == Init => FiberInv
<1> SUFFICES ASSUME Init PROVE FiberInv
  OBVIOUS
<1>1. \A p \in Prefixes : EmptyTable[p] = NoRoute
  BY DEF EmptyTable
<1>2. TypeOK
  <2>1. agent \in Table
    BY EmptyTypes, NoRouteAssumption DEF Init, Table
  <2>2. 1 \in Incarnations
    BY SMT, ConfigAssumption DEF Incarnations
  <2>3. delayedDeletionEnabled \in BOOLEAN
    BY ConfigAssumption DEF Init
  <2>4. QED
    BY EmptyTypes, <2>1, <2>2, <2>3 DEF Init, TypeOK, Fibers
<1>3. LockInv
  BY DEF Init, LockInv, Fibers, NoOp, NoRequest
<1>4. NoLostWakeup
  BY SMT DEF Init, NoLostWakeup
<1>5. QED
  BY <1>2, <1>3, <1>4 DEF FiberInv

(* When the update fiber works with the lock: the rest of the invariant. *)
LEMMA FiberInvUpdate ==
  ASSUME FiberInv, NEW update \in DecisionUpdates, ProcessDecisionRouteUpdate(update)
  PROVE  FiberInv'
<1> DEFINE table == IF state = "AWAITING" THEN EmptyTable ELSE unicastRoutes
<1> USE DEF FiberInv
<1>1. update \in Update /\ table \in Table /\ dirtyPrefixes \in Marks
  BY EmptyTypes DEF DecisionUpdates, Update, TypeOK, Marks
<1>2. rib' \in Table /\ updates' \in Nat
  BY SMT, <1>1, ApplyType DEF ProcessDecisionRouteUpdate, TypeOK
<1>3. state' \in {"SYNCING", "SYNCED"} /\ (state = "SYNCING" => state' = "SYNCING")
  BY DEF ProcessDecisionRouteUpdate, transitionRouteState, TypeOK
<1>4. CASE lock = "free"
  <2>1. updateRoutes("update", update, table, dirtyPrefixes, TRUE, retrySignals)
    BY <1>4 DEF ProcessDecisionRouteUpdate
  <2>2. want' = want /\ \A f \in Fibers : want[f] = NoRequest
    BY <1>4 DEF ProcessDecisionRouteUpdate, TypeOK
  <2>3. retrySignals \in Nat /\ "update" \in Fibers
    BY DEF TypeOK, Fibers
  <2>4. /\ unicastRoutes' \in Table /\ dirtyPrefixes' \in Marks /\ published' \in Table /\ op' \in Op
        /\ retrySignals' \in Nat /\ retryTimer' \in BOOLEAN
        /\ WillRetry
        /\ \/ Released("update")
           \/ /\ op' # NoOp /\ lock' = "update" /\ lock' # "free"
              /\ op'.call \in {"delete", "add"}
    BY <1>1, <2>1, <2>3, UpdateRoutesEffect
  <2>5. Locked(lock', op', want') /\ op'.call # "sync"
    BY SMT, <2>2, <2>3, <2>4, ReleasedLock, CallingLock DEF Released, NoOp, OtherFiber, Fibers
  <2>6. TypeOK'
    BY <1>2, <1>3, <2>2, <2>4, <2>5 DEF TypeOK, Locked, Marks, ProcessDecisionRouteUpdate
  <2>7. LockInv'
    BY <1>3, <2>2, <2>5 DEF LockInv, Locked, NoRequest, Fibers
  <2>8. NoLostWakeup'
    BY <2>4 DEF NoLostWakeup, WillRetry
  <2>9. QED
    BY <2>6, <2>7, <2>8
<1>5. CASE lock # "free"
  <2>1. /\ want' = [want EXCEPT !["update"] = [kind |-> "update", update |-> update]]
        /\ unicastRoutes' = table
        /\ UNCHANGED <<dirtyPrefixes, lock, op, retrySignals, retryTimer, published>>
    BY <1>5 DEF ProcessDecisionRouteUpdate
  <2>2. lock = "retry" /\ want["update"] = NoRequest
    BY <1>5 DEF ProcessDecisionRouteUpdate, Idle, LockInv, TypeOK, Fibers
  <2>3. [kind |-> "update", update |-> update] \in Request
    BY <1>1 DEF Request
  <2>4. /\ want' \in [Fibers -> Request] /\ want'["retry"] = want["retry"]
        /\ want'["update"].kind = "update" /\ want'["update"] # NoRequest
    BY <2>1, <2>3 DEF TypeOK, Fibers, NoRequest
  <2>5. TypeOK'
    BY <1>1, <1>2, <1>3, <1>5, <2>1, <2>4 DEF TypeOK, ProcessDecisionRouteUpdate, Fibers
  <2>6. LockInv'
    BY <1>3, <2>1, <2>2, <2>4 DEF LockInv, Fibers
  <2>7. NoLostWakeup'
    BY <1>5, <2>1 DEF NoLostWakeup
  <2>8. QED
    BY <2>5, <2>6, <2>7
<1>6. QED
  BY <1>4, <1>5

(* Retrying stores nothing new: createUpdate repeats routes of routeState_. *)
LEMMA CreateUpdateIsStored ==
  ASSUME unicastRoutes \in Table
  PROVE  /\ Apply(unicastRoutes, createUpdate) = unicastRoutes
         /\ \A p \in ToUpdate(createUpdate) : createUpdate.toUpdate[p] = unicastRoutes[p]
         /\ \A p \in createUpdate.toDelete : unicastRoutes[p] = NoRoute
<1>1. CASE FirstSync
  <2>1. /\ createUpdate.type = "FULL_SYNC" /\ createUpdate.toUpdate = unicastRoutes
        /\ createUpdate.toDelete = {}
    BY <1>1 DEF createUpdate
  <2>2. \A p \in Prefixes : Apply(unicastRoutes, createUpdate)[p] = unicastRoutes[p]
    BY <2>1 DEF Apply, ToUpdate
  <2>3. QED
    BY <2>1, <2>2 DEF Apply, Table
<1>2. CASE ~FirstSync
  <2>1. /\ createUpdate.type = "INCREMENTAL" /\ createUpdate.toUpdate = Only(unicastRoutes, Due)
        /\ createUpdate.toDelete = {p \in Due : unicastRoutes[p] = NoRoute}
    BY <1>2 DEF createUpdate, Incremental
  <2>2. \A p \in Prefixes : Only(unicastRoutes, Due)[p] \in {unicastRoutes[p], NoRoute}
    BY DEF Only
  <2>3. \A p \in Prefixes : Apply(unicastRoutes, createUpdate)[p] = unicastRoutes[p]
    BY <2>1, <2>2 DEF Apply, ToUpdate
  <2>4. QED
    BY <2>1, <2>2, <2>3 DEF Apply, Table, ToUpdate
<1>3. QED
  BY <1>1, <1>2

(* In AWAITING there is nothing to retry. *)
LEMMA NothingToRetry ==
  ASSUME state = "AWAITING", \A p \in Prefixes : dirtyPrefixes[p] = "clean", dirtyPrefixes \in Marks
  PROVE  IsEmpty(createUpdate) /\ dirtyAfterCreateUpdate = dirtyPrefixes
<1>1. Due = {} /\ ~FirstSync
  BY DEF Due, FirstSync
<1>2. createUpdate.toDelete = {} /\ createUpdate.toUpdate = Only(unicastRoutes, {})
  BY <1>1 DEF createUpdate, Incremental
<1>3. QED
  BY <1>1, <1>2 DEF IsEmpty, ToUpdate, Only, dirtyAfterCreateUpdate, Mark, Marks

(* The retry fiber works with the lock. *)
LEMMA FiberInvRetryDirty ==
  ASSUME FiberInv, NEW signals \in Nat, retryDirty(signals), state' = state,
         want' \in [Fibers -> Request], want'["retry"] = NoRequest, want'["update"] = want["update"],
         UNCHANGED <<delayedDeletionEnabled, rib, isInitialSynced, latestAliveSince, agent, aliveSince,
                     resyncs, updates, failures>>
  PROVE  FiberInv'
<1> USE DEF FiberInv
<1>1. "retry" \in Fibers /\ OtherFiber("retry") = "update" /\ "update" \in Fibers
  BY DEF Fibers, OtherFiber
<1>2. unicastRoutes \in Table /\ dirtyPrefixes \in Marks
  BY DEF TypeOK, Marks
<1>3. createUpdate \in Update /\ dirtyAfterCreateUpdate \in Marks
  BY <1>2, CreateUpdateType
<1>4. /\ unicastRoutes' = Apply(unicastRoutes, createUpdate) /\ unicastRoutes' \in Table
      /\ dirtyPrefixes' \in Marks /\ published' \in Table /\ op' \in Op
      /\ retrySignals' \in Nat /\ retryTimer' \in BOOLEAN
      /\ WillRetry
      /\ \/ Released("retry")
         \/ /\ op' # NoOp /\ lock' = "retry" /\ lock' # "free"
            /\ op'.call \in {"delete", "add"}
            /\ ~IsEmpty(createUpdate)
  BY <1>1, <1>2, <1>3, UpdateRoutesEffect DEF retryDirty
<1>5. unicastRoutes' = unicastRoutes
  BY <1>2, <1>4, CreateUpdateIsStored
<1>6. Locked(lock', op', want') /\ op'.call # "sync"
  BY SMT, <1>1, <1>4, ReleasedLock, CallingLock DEF Released, NoOp
<1>7. TypeOK'
  BY <1>4, <1>6 DEF TypeOK, Locked, Marks
<1>8. ASSUME state = "AWAITING"
      PROVE  lock' = "free" /\ \A p \in Prefixes : dirtyPrefixes'[p] = "clean"
  <2>1. IsEmpty(createUpdate) /\ dirtyAfterCreateUpdate = dirtyPrefixes
    BY <1>2, <1>8, NothingToRetry DEF LockInv
  <2>2. dirtyPrefixes' = dirtyPrefixes
    BY <2>1 DEF retryDirty, updateRoutes
  <2>3. want["update"] = NoRequest
    BY <1>1, <1>8 DEF LockInv, TypeOK
  <2>4. QED
    BY <1>1, <1>4, <1>8, <2>1, <2>2, <2>3 DEF LockInv, Released
<1>9. LockInv'
  BY SMT, <1>1, <1>5, <1>6, <1>8 DEF LockInv, Locked, NoRequest, Fibers
<1>10. NoLostWakeup'
  BY <1>4 DEF NoLostWakeup, WillRetry
<1>11. QED
  BY <1>7, <1>9, <1>10

(* The retry fiber starts a sync with the lock. *)
LEMMA FiberInvSyncRoutes ==
  ASSUME FiberInv, NEW signals \in Nat, syncRoutes(signals), state' = state, state = "SYNCING",
         want' \in [Fibers -> Request], want'["retry"] = NoRequest, want'["update"] = want["update"],
         UNCHANGED <<delayedDeletionEnabled, rib, isInitialSynced, latestAliveSince, agent, aliveSince,
                     resyncs, updates, failures>>
  PROVE  FiberInv'
<1> USE DEF FiberInv
<1>1. "retry" \in Fibers /\ "update" \in Fibers
  BY DEF Fibers
<1>2. unicastRoutes \in Table /\ dirtyPrefixes \in Marks
  BY DEF TypeOK, Marks
<1>3. createUpdate \in Update /\ dirtyAfterCreateUpdate \in Marks
  BY <1>2, CreateUpdateType
<1>4. /\ op' \in Op /\ op' # NoOp /\ lock' = "retry" /\ lock' # "free" /\ op'.call = "sync"
  BY <1>1, <1>2, <1>3, CallEffect DEF syncRoutes
<1>5. Locked(lock', op', want')
  BY <1>1, <1>4, CallingLock
<1>6. TypeOK'
  BY <1>3, <1>4, <1>5 DEF TypeOK, Locked, Marks, syncRoutes
<1>7. LockInv'
  BY SMT, <1>4, <1>5 DEF LockInv, Locked, NoRequest, Fibers
<1>8. NoLostWakeup'
  BY <1>4 DEF NoLostWakeup
<1>9. QED
  BY <1>6, <1>7, <1>8

(* retryRoutes, with the lock or waiting for it. *)
LEMMA FiberInvRetry ==
  ASSUME FiberInv, RetryRoutes
  PROVE  FiberInv'
<1> USE DEF FiberInv
<1>1. "retry" \in Fibers /\ "update" \in Fibers /\ retrySignals \in Nat
  BY DEF Fibers, TypeOK
<1>2. retrySignals - 1 \in Nat
  BY SMT, <1>1 DEF RetryRoutes
<1>3. CASE lock = "free"
  <2>1. want' = want /\ want["retry"] = NoRequest /\ want \in [Fibers -> Request]
    BY <1>1, <1>3 DEF RetryRoutes, TypeOK
  <2>2. CASE state = "SYNCING"
    BY <1>2, <1>3, <2>1, <2>2, FiberInvSyncRoutes DEF RetryRoutes
  <2>3. CASE state # "SYNCING"
    BY <1>2, <1>3, <2>1, <2>3, FiberInvRetryDirty DEF RetryRoutes
  <2>4. QED
    BY <2>2, <2>3
<1>4. CASE lock # "free"
  <2> DEFINE kind == IF state = "SYNCING" THEN "sync" ELSE "retry"
  <2>1. /\ want' = [want EXCEPT !["retry"] = [kind |-> kind, update |-> NoUpdate]]
        /\ retrySignals' = retrySignals - 1
        /\ UNCHANGED <<unicastRoutes, dirtyPrefixes, lock, op, retryTimer, published>>
    BY <1>4 DEF RetryRoutes
  <2>2. lock = "update" /\ want["retry"] = NoRequest
    BY <1>4 DEF RetryRoutes, Idle, LockInv, TypeOK, Fibers
  <2>3. [kind |-> kind, update |-> NoUpdate] \in Request
    BY EmptyTypes DEF Request
  <2>4. /\ want' \in [Fibers -> Request] /\ want'["update"] = want["update"]
        /\ want'["retry"].kind = kind /\ want'["retry"] # NoRequest
    BY <1>1, <2>1, <2>3 DEF TypeOK, NoRequest
  <2>5. TypeOK'
    BY <1>1, <1>2, <1>4, <2>1, <2>4 DEF TypeOK, RetryRoutes
  <2>6. LockInv'
    BY <2>1, <2>2, <2>4 DEF LockInv, Fibers, RetryRoutes
  <2>7. NoLostWakeup'
    BY <1>4, <2>1 DEF NoLostWakeup
  <2>8. QED
    BY <2>5, <2>6, <2>7
<1>5. QED
  BY <1>3, <1>4

(* A fiber goes on with the lock it waited for. *)
LEMMA FiberInvResume ==
  ASSUME FiberInv, NEW f \in Fibers, Resume(f)
  PROVE  FiberInv'
<1> USE DEF FiberInv
<1>1. /\ want' \in [Fibers -> Request] /\ want'[f] = NoRequest
      /\ \A g \in Fibers : g # f => want'[g] = want[g]
  BY EmptyTypes DEF Resume, TypeOK
<1>2. retrySignals \in Nat /\ unicastRoutes \in Table /\ dirtyPrefixes \in Marks /\ want[f].update \in Update
  BY DEF TypeOK, Marks, Request
<1>3. state # "AWAITING" /\ state' = state
  BY DEF Resume, LockInv, Fibers
<1>4. CASE f = "retry"
  <2>1. want'["retry"] = NoRequest /\ want'["update"] = want["update"]
    BY <1>1, <1>4 DEF Fibers
  <2>2. CASE want[f].kind = "retry" /\ retryDirty(retrySignals)
    BY <1>1, <1>2, <1>3, <2>1, <2>2, FiberInvRetryDirty DEF Resume
  <2>3. CASE want[f].kind = "sync" /\ syncRoutes(retrySignals)
    <3>1. state = "SYNCING"
      BY <1>4, <2>3 DEF LockInv
    <3>2. QED
      BY <1>1, <1>2, <1>3, <2>1, <2>3, <3>1, FiberInvSyncRoutes DEF Resume
  <2>4. want[f].kind \in {"none", "retry", "sync"}
    BY <1>4 DEF LockInv
  <2>5. QED
    BY <2>2, <2>3, <2>4 DEF Resume
<1>5. CASE f = "update"
  <2>1. OtherFiber(f) = "retry" /\ "retry" \in Fibers /\ want'["retry"] = want["retry"]
    BY <1>1, <1>5 DEF OtherFiber, Fibers
  <2>2. updateRoutes(f, want[f].update, unicastRoutes, dirtyPrefixes, TRUE, retrySignals)
    BY <1>5 DEF Resume, LockInv
  <2>3. /\ unicastRoutes' \in Table /\ dirtyPrefixes' \in Marks /\ published' \in Table /\ op' \in Op
        /\ retrySignals' \in Nat /\ retryTimer' \in BOOLEAN
        /\ WillRetry
        /\ \/ Released(f)
           \/ /\ op' # NoOp /\ lock' = f /\ lock' # "free"
              /\ op'.call \in {"delete", "add"}
    BY <1>2, <2>2, UpdateRoutesEffect
  <2>4. Locked(lock', op', want') /\ op'.call # "sync"
    BY SMT, <1>1, <2>1, <2>3, ReleasedLock, CallingLock DEF Released, NoOp
  <2>5. TypeOK'
    BY <1>1, <2>3, <2>4 DEF TypeOK, Locked, Marks, Resume
  <2>6. LockInv'
    BY SMT, <1>1, <1>3, <1>5, <2>1, <2>4 DEF LockInv, Locked, NoRequest, Fibers
  <2>7. NoLostWakeup'
    BY <2>3 DEF NoLostWakeup, WillRetry
  <2>8. QED
    BY <2>5, <2>6, <2>7
<1>6. QED
  BY <1>4, <1>5 DEF Fibers

(* The last call of a fiber ends: it publishes and gives the lock back. *)
LEMMA FiberInvPublish ==
  ASSUME FiberInv, op # NoOp, lock \in Fibers, NEW update \in Update, Publish(lock, update),
         state' \in {"SYNCING", "SYNCED"}, state' # state => op.call = "sync",
         dirtyPrefixes' \in Marks, agent' \in Table, failures' \in Nat, isInitialSynced' \in BOOLEAN,
         UNCHANGED <<delayedDeletionEnabled, rib, unicastRoutes, want, latestAliveSince, aliveSince,
                     resyncs, updates>>
  PROVE  FiberInv'
<1> USE DEF FiberInv
<1>1. want[lock] = NoRequest
  BY DEF LockInv
<1>2. retrySignals \in Nat /\ retryTimer \in BOOLEAN /\ published \in Table
  BY DEF TypeOK
<1>3. /\ Released(lock) /\ WillRetry
      /\ retrySignals' \in Nat /\ retryTimer' \in BOOLEAN /\ op' \in Op
  BY <1>2, FinishEffect DEF Publish
<1>4. published' \in Table
  BY <1>2, ApplyType DEF Publish
<1>5. Locked(lock', op', want') /\ op'.call # "sync"
  BY <1>1, <1>3, ReleasedLock DEF Released, NoOp
<1>6. TypeOK'
  BY <1>3, <1>4, <1>5 DEF TypeOK, Locked, Marks
<1>7. want'["retry"].kind = "sync" => state' = "SYNCING"
  <2>1. CASE op.call = "sync"
    BY <1>1, <2>1 DEF LockInv, NoRequest
  <2>2. CASE op.call # "sync"
    BY <2>2 DEF LockInv
  <2>3. QED
    BY <2>1, <2>2
<1>8. LockInv'
  BY <1>5, <1>7 DEF LockInv, Locked, Fibers
<1>9. NoLostWakeup'
  BY <1>3 DEF NoLostWakeup, WillRetry
<1>10. QED
  BY <1>6, <1>8, <1>9

(* The call in progress, and who made it. *)
LEMMA InACall ==
  ASSUME FiberInv, op.call \in {"delete", "add", "sync"}
  PROVE  /\ op # NoOp /\ lock \in Fibers /\ state \in {"SYNCING", "SYNCED"}
         /\ op.update \in Update /\ op.table \in Table
         /\ ToUpdate(op.update) \subseteq Prefixes /\ op.update.toDelete \subseteq Prefixes
         /\ dirtyPrefixes \in Marks /\ agent \in Table /\ failures \in Nat /\ isInitialSynced \in BOOLEAN
<1>1. op # NoOp
  BY SMT DEF NoOp
<1>2. lock \in Fibers /\ state \in {"SYNCING", "SYNCED"}
  BY <1>1 DEF FiberInv, TypeOK, LockInv
<1>3. op \in Op
  BY DEF FiberInv, TypeOK
<1>4. op.update \in Update /\ op.table \in Table
  BY <1>3 DEF Op
<1>5. QED
  BY <1>1, <1>2, <1>4 DEF FiberInv, TypeOK, Marks, Update, ToUpdate

(* The counter of failed calls. *)
LEMMA FailsType ==
  ASSUME Fails, failures \in Nat
  PROVE  failures' \in Nat
BY SMT DEF Fails, Count

(* deleteUnicastRoutes ends. *)
LEMMA FiberInvDelete ==
  ASSUME FiberInv, DeleteUnicastRoutes
  PROVE  FiberInv'
<1> USE DEF FiberInv
<1>1. op.call = "delete"
  BY DEF DeleteUnicastRoutes
<1>2. /\ op # NoOp /\ lock \in Fibers /\ state \in {"SYNCING", "SYNCED"}
      /\ op.update \in Update
      /\ dirtyPrefixes \in Marks /\ agent \in Table /\ failures \in Nat /\ isInitialSynced \in BOOLEAN
  BY <1>1, InACall
<1>3. agent' \in Table
  BY <1>2, OnlyType DEF DeleteUnicastRoutes, Unclear
<1>4. dirtyPrefixes' \in Marks /\ failures' \in Nat
  BY <1>2, MarkType, FailsType DEF DeleteUnicastRoutes
<1>5. CASE ToUpdate(op.update) = {}
  BY <1>1, <1>2, <1>3, <1>4, <1>5, FiberInvPublish DEF DeleteUnicastRoutes, AfterDelete
<1>6. CASE ToUpdate(op.update) # {}
  <2>1. /\ Call(lock, "add", op.update, EmptyTable)
        /\ UNCHANGED <<retrySignals, retryTimer, published>>
    BY <1>6 DEF DeleteUnicastRoutes, AfterDelete
  <2>2. /\ op' \in Op /\ op' # NoOp /\ lock' = lock /\ lock' # "free" /\ op'.call = "add"
    BY <1>2, <2>1, EmptyTypes, CallEffect
  <2>3. want' = want /\ want[lock] = NoRequest
    BY <1>2 DEF DeleteUnicastRoutes, LockInv
  <2>4. Locked(lock', op', want')
    BY <1>2, <2>2, <2>3, CallingLock
  <2>5. TypeOK'
    BY <1>2, <1>3, <1>4, <2>1, <2>2, <2>4 DEF TypeOK, Locked, Marks, DeleteUnicastRoutes
  <2>6. LockInv'
    BY <1>2, <2>2, <2>3, <2>4 DEF LockInv, Locked, Fibers, DeleteUnicastRoutes
  <2>7. NoLostWakeup'
    BY <2>2 DEF NoLostWakeup
  <2>8. QED
    BY <2>5, <2>6, <2>7
<1>7. QED
  BY <1>5, <1>6

(* addUnicastRoutes ends: as it should, for some prefixes, or with an exception. *)
LEMMA FiberInvAdd ==
  ASSUME FiberInv, AddUnicastRoutes
  PROVE  FiberInv'
<1> DEFINE adds == ToUpdate(op.update)
           table(S) == [p \in Prefixes |-> IF p \in S THEN op.update.toUpdate[p] ELSE agent[p]]
<1>1. op.call = "add" /\ state' = state
  BY DEF AddUnicastRoutes
<1>2. /\ op # NoOp /\ lock \in Fibers /\ state \in {"SYNCING", "SYNCED"}
      /\ op.update \in Update /\ adds \subseteq Prefixes
      /\ dirtyPrefixes \in Marks /\ agent \in Table /\ failures \in Nat /\ isInitialSynced \in BOOLEAN
  BY <1>1, InACall
<1>3. \A S : table(S) \in Table
  BY <1>2 DEF Table, Update
<1>4. SUFFICES \E update \in Update : /\ Publish(lock, update)
                                      /\ dirtyPrefixes' \in Marks /\ agent' \in Table /\ failures' \in Nat
  BY <1>1, <1>2, FiberInvPublish DEF AddUnicastRoutes
<1>5. CASE /\ Connected /\ agent' = table(adds) /\ UNCHANGED <<dirtyPrefixes, failures>>
           /\ Publish(lock, op.update)
  BY <1>2, <1>3, <1>5
<1>6. CASE \E failed \in SUBSET adds \ {{}} :
              /\ Connected /\ Fails
              /\ agent' = table(adds \ failed)
              /\ dirtyPrefixes' = Mark(dirtyPrefixes, failed, "waiting")
              /\ Publish(lock, processFibUpdateError(op.update, failed))
  <2>1. PICK failed \in SUBSET adds \ {{}} :
              /\ Connected /\ Fails
              /\ agent' = table(adds \ failed)
              /\ dirtyPrefixes' = Mark(dirtyPrefixes, failed, "waiting")
              /\ Publish(lock, processFibUpdateError(op.update, failed))
    BY <1>6
  <2>2. processFibUpdateError(op.update, failed) \in Update
    BY <1>2, ErrorType
  <2>3. dirtyPrefixes' \in Marks /\ agent' \in Table /\ failures' \in Nat
    BY <1>2, <1>3, <2>1, MarkType, FailsType
  <2>4. QED
    BY <2>1, <2>2, <2>3
<1>7. CASE /\ Fails
           /\ agent' \in Unclear(table(adds))
           /\ dirtyPrefixes' = Mark(dirtyPrefixes, adds, "waiting")
           /\ Publish(lock, processFibUpdateError(op.update, adds))
  BY <1>2, <1>3, <1>7, MarkType, FailsType, ErrorType DEF Unclear
<1>8. QED
  BY <1>5, <1>6, <1>7 DEF AddUnicastRoutes

(* syncFib ends; only now may the state be SYNCED again. *)
LEMMA FiberInvSync ==
  ASSUME FiberInv, SyncFib
  PROVE  FiberInv'
<1>1. op.call = "sync"
  BY DEF SyncFib
<1>2. lock = "retry" /\ state = "SYNCING"
  BY <1>1 DEF FiberInv, LockInv
<1>3. /\ op # NoOp /\ lock \in Fibers
      /\ op.update \in Update /\ op.table \in Table
      /\ dirtyPrefixes \in Marks /\ agent \in Table /\ failures \in Nat /\ isInitialSynced \in BOOLEAN
  BY <1>1, InACall
<1>4. ASSUME NEW update \in Update, FibSynced(update), dirtyPrefixes' \in Marks, agent' \in Table,
             failures' \in Nat
      PROVE  FiberInv'
  <2>1. state' = "SYNCED" /\ isInitialSynced' = TRUE /\ Publish(lock, update)
    BY <1>2, <1>4 DEF FibSynced, transitionRouteState
  <2>2. QED
    BY <1>1, <1>3, <1>4, <2>1, FiberInvPublish DEF SyncFib
<1>5. CASE Connected /\ agent' = op.table /\ UNCHANGED <<dirtyPrefixes, failures>> /\ FibSynced(op.update)
  BY <1>3, <1>4, <1>5
<1>6. CASE \E failed \in SUBSET {p \in Prefixes : agent[p] # op.table[p]} \ {{}} :
             /\ Connected /\ Fails
             /\ agent' = [p \in Prefixes |-> IF p \in failed THEN agent[p] ELSE op.table[p]]
             /\ dirtyPrefixes' = Mark(dirtyPrefixes, failed, "waiting")
             /\ FibSynced(processFibUpdateError(op.update, {p \in failed : op.table[p] # NoRoute}))
  <2>1. PICK failed \in SUBSET {p \in Prefixes : agent[p] # op.table[p]} \ {{}} :
             /\ Connected /\ Fails
             /\ agent' = [p \in Prefixes |-> IF p \in failed THEN agent[p] ELSE op.table[p]]
             /\ dirtyPrefixes' = Mark(dirtyPrefixes, failed, "waiting")
             /\ FibSynced(processFibUpdateError(op.update, {p \in failed : op.table[p] # NoRoute}))
    BY <1>6
  <2>2. agent' \in Table
    BY <1>3, <2>1 DEF Table
  <2>3. processFibUpdateError(op.update, {p \in failed : op.table[p] # NoRoute}) \in Update
    BY <1>3, ErrorType
  <2>4. QED
    BY <1>3, <1>4, <2>1, <2>2, <2>3, MarkType, FailsType
<1>7. CASE /\ Fails /\ agent' \in Unclear(op.table) /\ state' = state
           /\ UNCHANGED <<dirtyPrefixes, isInitialSynced, published>>
           /\ Finish("retry", retrySignals)
  <2> USE DEF FiberInv
  <2>1. agent' \in Table /\ failures' \in Nat
    BY <1>3, <1>7, FailsType DEF Unclear
  <2>2. /\ Released(lock) /\ WillRetry
        /\ retrySignals' \in Nat /\ retryTimer' \in BOOLEAN /\ op' \in Op
    <3>1. retrySignals \in Nat /\ retryTimer \in BOOLEAN
      BY DEF TypeOK
    <3>2. QED
      BY <1>2, <1>3, <1>7, <3>1, FinishEffect
  <2>3. want' = want /\ want[lock] = NoRequest
    BY <1>3 DEF LockInv, SyncFib
  <2>4. Locked(lock', op', want') /\ op'.call # "sync"
    BY <1>3, <2>2, <2>3, ReleasedLock DEF Released, NoOp
  <2>5. TypeOK'
    BY <1>3, <1>7, <2>1, <2>2, <2>4 DEF TypeOK, Locked, Marks, SyncFib
  <2>6. LockInv'
    BY <1>2, <1>7, <2>3, <2>4 DEF LockInv, Locked, Fibers
  <2>7. NoLostWakeup'
    BY <2>2 DEF NoLostWakeup, WillRetry
  <2>8. QED
    BY <2>5, <2>6, <2>7
<1>8. QED
  BY <1>5, <1>6, <1>7 DEF SyncFib

(* The keep-alive fiber, timers and the agent itself. *)
LEMMA FiberInvOthers ==
  ASSUME FiberInv,
         \/ \E seen \in {0, aliveSince} : KeepAlive(seen)
         \/ RetryTimeout
         \/ \E p \in Prefixes : BecomeDue(p)
         \/ AgentRestart
  PROVE  FiberInv'
<1> USE DEF FiberInv
<1>1. ASSUME NEW seen \in {0, aliveSince}, KeepAlive(seen) PROVE FiberInv'
  <2>1. /\ state' \in {"AWAITING", "SYNCING", "SYNCED"}
        /\ state = "SYNCING" => state' = "SYNCING"
        /\ state' = "AWAITING" => state = "AWAITING"
        /\ state' # state => retrySignals' = retrySignals + 1
    BY <1>1 DEF KeepAlive, transitionRouteState, TypeOK
  <2>2. retrySignals' \in Nat /\ (state' # state => retrySignals' > 0) /\ (retrySignals > 0 => retrySignals' > 0)
    BY SMT, <1>1, <2>1 DEF KeepAlive, TypeOK
  <2>3. failures' \in Nat /\ resyncs' \in Nat /\ latestAliveSince' \in Incarnations \cup {0}
    BY SMT, <1>1 DEF KeepAlive, Count, TypeOK
  <2>4. TypeOK'
    BY <1>1, <2>1, <2>2, <2>3 DEF KeepAlive, TypeOK
  <2>5. LockInv'
    BY <1>1, <2>1 DEF KeepAlive, LockInv
  <2>6. NoLostWakeup'
    BY <1>1, <2>2 DEF KeepAlive, NoLostWakeup
  <2>7. QED
    BY <2>4, <2>5, <2>6
<1>2. CASE RetryTimeout
  <2>1. retrySignals' \in Nat /\ retrySignals' > 0
    BY SMT, <1>2 DEF RetryTimeout, TypeOK
  <2>2. QED
    BY <1>2, <2>1 DEF RetryTimeout, TypeOK, LockInv, NoLostWakeup, routeState
<1>3. ASSUME NEW p \in Prefixes, BecomeDue(p) PROVE FiberInv'
  <2>1. dirtyPrefixes' \in [Prefixes -> {"clean", "waiting", "due"}]
    BY <1>3 DEF BecomeDue, TypeOK
  <2>2. state # "AWAITING"
    BY <1>3 DEF BecomeDue, LockInv
  <2>3. TypeOK'
    BY <1>3, <2>1 DEF BecomeDue, TypeOK
  <2>4. LockInv'
    BY <1>3, <2>2 DEF BecomeDue, LockInv
  <2>5. needsRetry(state, dirtyPrefixes)
    BY <1>3 DEF BecomeDue, needsRetry
  <2>6. QED
    BY <1>3, <2>3, <2>4, <2>5 DEF BecomeDue, NoLostWakeup
<1>4. CASE AgentRestart
  <2>1. aliveSince' \in Incarnations
    BY SMT, <1>4, ConfigAssumption DEF AgentRestart, TypeOK, Incarnations
  <2>2. QED
    BY SMT, <1>4, <2>1, EmptyTypes DEF AgentRestart, TypeOK, LockInv, NoLostWakeup, routeState
<1>5. QED
  BY <1>1, <1>2, <1>3, <1>4

(* No step breaks it. *)
LEMMA FiberInvNext == FiberInv /\ [Next]_vars => FiberInv'
<1> SUFFICES ASSUME FiberInv, [Next]_vars PROVE FiberInv'
  OBVIOUS
<1>1. CASE UNCHANGED vars
  BY SMT, <1>1 DEF vars, routeState, FiberInv, TypeOK, LockInv, NoLostWakeup
<1>2. CASE Next
  BY <1>2, FiberInvUpdate, FiberInvRetry, FiberInvResume, FiberInvDelete, FiberInvAdd, FiberInvSync,
     FiberInvOthers DEF Next
<1>3. QED
  BY <1>1, <1>2

(***************************************************************************)
(* Fib's state is well formed, the lock is held exactly while a fiber is   *)
(* in a call or about to resume, and while routes need programming a fiber *)
(* is at work, signalled or timed (retryRoutesTask, updateRoutesSemaphore_).*)
(***************************************************************************)
THEOREM FibersAgree == Spec => [](TypeOK /\ NoLostWakeup)
<1>1. FiberInv => TypeOK /\ NoLostWakeup
  BY DEF FiberInv
<1>2. QED
  BY <1>1, FiberInvInit, FiberInvNext, PTL DEF Spec

(* transitionRouteState never fails its CHECK: when a sync ends, Fib is in *)
(* SYNCING, whatever updates and reconnects came meanwhile. *)
THEOREM SyncsAreNotOvertaken == Spec => []SyncEndsInSyncing
<1>1. FiberInv => SyncEndsInSyncing
  BY DEF FiberInv, LockInv, SyncEndsInSyncing
<1>2. QED
  BY <1>1, FiberInvInit, FiberInvNext, PTL DEF Spec

-----------------------------------------------------------------------------
(* An update whose prefixes are not both updated and deleted is stored as it is. *)
LEMMA UpdateIsStored ==
  ASSUME NEW table \in Table, NEW update \in Update, update.toDelete \cap ToUpdate(update) = {}
  PROVE  /\ \A p \in ToUpdate(update) : Apply(table, update)[p] = update.toUpdate[p]
         /\ \A p \in update.toDelete : Apply(table, update)[p] = NoRoute
BY DEF Apply, ToUpdate, Update

(* What updateRoutes does with a prefix it leaves clean: nothing, or it is *)
(* the subject of the call it makes. *)
LEMMA UpdateRoutesPrefix ==
  ASSUME TypeOK, NEW f \in Fibers, NEW update \in Update, NEW table \in Table, NEW dirty \in Marks,
         NEW delay \in BOOLEAN, NEW signals \in Nat,
         updateRoutes(f, update, table, dirty, delay, signals),
         state' # "SYNCING", update.type = "INCREMENTAL",
         NEW p \in Prefixes, dirtyPrefixes'[p] = "clean"
  PROVE  \/ /\ p \notin update.toDelete \cup ToUpdate(update)
            /\ dirty[p] = "clean" /\ unicastRoutes'[p] = table[p] /\ published'[p] = published[p]
         \/ /\ op'.call \in {"delete", "add"} /\ op'.update = update
            /\ p \in update.toDelete \cup ToUpdate(update) /\ p \in Unprogrammed'
<1> DEFINE delayed == delay /\ delayedDeletionEnabled
           deletes == IF delayed THEN {} ELSE update.toDelete
           call == IF deletes # {} THEN "delete" ELSE "add"
<1>1. CASE p \notin update.toDelete \cup ToUpdate(update)
  <2>1. \A t : Apply(t, update)[p] = t[p]
    BY <1>1 DEF Apply
  <2>2. Mark(dirty, update.toDelete, "waiting")[p] = dirty[p]
    BY <1>1 DEF Mark
  <2>3. dirty[p] = "clean"
    BY <2>2 DEF updateRoutes
  <2>4. published'[p] = published[p]
    BY <2>1 DEF updateRoutes
  <2>5. QED
    BY <1>1, <2>1, <2>3, <2>4 DEF updateRoutes
<1>2. CASE p \in update.toDelete \cup ToUpdate(update)
  <2>1. ~IsEmpty(update)
    BY <1>2 DEF IsEmpty
  <2>2. dirtyPrefixes' = IF delayed THEN Mark(dirty, update.toDelete, "waiting") ELSE dirty
    BY <2>1 DEF updateRoutes
  <2>3. p \in deletes \cup ToUpdate(update)
    BY <1>2, <2>2 DEF Mark
  <2>4. Call(f, call, update, EmptyTable)
    BY <2>1, <2>3 DEF updateRoutes
  <2>5. op'.call = call /\ op'.update = update
    BY <2>4 DEF Call
  <2>6. p \in Unprogrammed'
    <3>1. CASE deletes # {}
      BY <1>2, <2>5, <3>1 DEF Unprogrammed, ToUpdate
    <3>2. CASE deletes = {}
      BY <2>3, <2>5, <3>2 DEF Unprogrammed, ToUpdate
    <3>3. QED
      BY <3>1, <3>2
  <2>7. QED
    BY <1>2, <2>5, <2>6
<1>3. QED
  BY <1>1, <1>2

(* A retry takes exactly the prefixes of its update out of dirtyPrefixes. *)
LEMMA RetriedPrefix ==
  ASSUME ~FirstSync, unicastRoutes \in Table, dirtyPrefixes \in Marks,
         NEW p \in Prefixes, dirtyAfterCreateUpdate[p] = "clean",
         p \notin createUpdate.toDelete \cup ToUpdate(createUpdate)
  PROVE  dirtyPrefixes[p] = "clean"
<1>1. /\ createUpdate.toUpdate = Only(unicastRoutes, Due)
      /\ createUpdate.toDelete = {q \in Due : unicastRoutes[q] = NoRoute}
      /\ dirtyAfterCreateUpdate = Mark(dirtyPrefixes, Due, "clean")
  BY DEF createUpdate, Incremental, dirtyAfterCreateUpdate
<1>2. p \notin Due
  BY <1>1 DEF ToUpdate, Only
<1>3. QED
  BY <1>1, <1>2 DEF Mark

(* The updates in hand stay proper (processDecisionRouteUpdate, updateRoutes). *)
LEMMA UpdateInvNext == FiberInv /\ UpdateInv /\ [Next]_vars => UpdateInv'
<1> SUFFICES ASSUME FiberInv, UpdateInv, [Next]_vars PROVE UpdateInv'
  OBVIOUS
<1> DEFINE Proper(u) == u.type = "INCREMENTAL" /\ u.toDelete \cap ToUpdate(u) = {}
<1>1. TypeOK /\ LockInv /\ unicastRoutes \in Table /\ dirtyPrefixes \in Marks /\ retrySignals \in Nat
  BY DEF FiberInv, TypeOK, Marks
<1>2. Proper(NoRequest.update)
  BY DEF NoRequest, NoUpdate, Incremental, ToUpdate, EmptyTable
<1>3. NoOp.call = "none"
  BY DEF NoOp
<1>4. ASSUME NEW f \in Fibers, NEW update \in Update, NEW table \in Table, NEW dirty \in Marks,
             NEW delay \in BOOLEAN, NEW signals \in Nat,
             updateRoutes(f, update, table, dirty, delay, signals), Proper(want'["update"].update),
             state' # "SYNCING" => Proper(update)
      PROVE  UpdateInv'
  <2>1. /\ unicastRoutes' = Apply(table, update)
        /\ \/ Released(f)
           \/ /\ op'.call \in {"delete", "add"} /\ op'.update = update /\ state' # "SYNCING"
    BY SMT, <1>1, <1>4, UpdateRoutesEffect
  <2>2. CASE Released(f)
    BY <1>3, <1>4, <2>2 DEF Released, UpdateInv, ToUpdate
  <2>3. CASE op'.call \in {"delete", "add"} /\ op'.update = update /\ state' # "SYNCING"
    <3>1. Proper(update)
      BY <1>4, <2>3
    <3>2. /\ \A p \in ToUpdate(update) : unicastRoutes'[p] = update.toUpdate[p]
          /\ \A p \in update.toDelete : unicastRoutes'[p] = NoRoute
      BY <2>1, <3>1, UpdateIsStored
    <3>3. QED
      BY <1>4, <2>3, <3>1, <3>2 DEF UpdateInv, ToUpdate
  <2>4. QED
    BY <2>1, <2>2, <2>3
<1>5. ASSUME NEW signals \in Nat, retryDirty(signals), state' = state, Proper(want'["update"].update)
      PROVE  UpdateInv'
  <2>1. createUpdate \in Update /\ dirtyAfterCreateUpdate \in Marks
    BY <1>1, CreateUpdateType
  <2>2. state # "SYNCING" => Proper(createUpdate)
    <3>1. createUpdate.toDelete \cap ToUpdate(createUpdate) = {}
      BY <1>1, CreateUpdateIsStored DEF ToUpdate
    <3>2. QED
      BY <3>1 DEF createUpdate, FirstSync, Incremental
  <2>3. QED
    BY <1>1, <1>4, <1>5, <2>1, <2>2 DEF retryDirty, Fibers
<1>6. ASSUME NEW signals \in Nat, syncRoutes(signals), Proper(want'["update"].update)
      PROVE  UpdateInv'
  <2>1. /\ op'.call = "sync" /\ op'.update = createUpdate /\ op'.table = unicastRoutes
        /\ unicastRoutes' = unicastRoutes
    BY <1>6 DEF syncRoutes, Call
  <2>2. QED
    BY <1>1, <1>6, <2>1, CreateUpdateIsStored DEF UpdateInv, ToUpdate
<1>7. ASSUME NEW update \in DecisionUpdates, ProcessDecisionRouteUpdate(update) PROVE UpdateInv'
  <2> DEFINE table == IF state = "AWAITING" THEN EmptyTable ELSE unicastRoutes
  <2>1. update \in Update /\ Proper(update) /\ table \in Table
    BY <1>1, EmptyTypes DEF DecisionUpdates, Update
  <2>2. CASE lock = "free"
    <3>1. updateRoutes("update", update, table, dirtyPrefixes, TRUE, retrySignals) /\ want' = want
      BY <1>7, <2>2 DEF ProcessDecisionRouteUpdate
    <3>2. Proper(want'["update"].update)
      BY <3>1 DEF UpdateInv
    <3>3. QED
      BY <1>1, <1>4, <2>1, <3>1, <3>2 DEF Fibers
  <2>3. CASE lock # "free"
    <3>1. /\ want'["update"].update = update
          /\ UNCHANGED <<op, unicastRoutes>>
      BY SMT, <1>1, <1>7, <2>3 DEF ProcessDecisionRouteUpdate, LockInv, TypeOK, Fibers
    <3>2. QED
      BY <2>1, <3>1 DEF UpdateInv, ToUpdate
  <2>4. QED
    BY <2>2, <2>3
<1>8. CASE RetryRoutes
  <2>1. retrySignals - 1 \in Nat /\ state' = state
    BY SMT, <1>1, <1>8 DEF RetryRoutes
  <2>2. want'["update"] = want["update"]
    BY <1>1, <1>8 DEF RetryRoutes, TypeOK, Fibers
  <2>3. Proper(want'["update"].update)
    BY <2>2 DEF UpdateInv
  <2>4. CASE lock = "free"
    BY <1>5, <1>6, <1>8, <2>1, <2>3, <2>4 DEF RetryRoutes
  <2>5. CASE lock # "free"
    <3>1. UNCHANGED <<op, unicastRoutes>>
      BY <1>8, <2>5 DEF RetryRoutes
    <3>2. QED
      BY <2>3, <3>1 DEF UpdateInv, ToUpdate
  <2>6. QED
    BY <2>4, <2>5
<1>9. ASSUME NEW f \in Fibers, Resume(f) PROVE UpdateInv'
  <2>1. state' = state /\ want'["update"] \in {want["update"], NoRequest}
    BY <1>1, <1>9 DEF Resume, TypeOK, Fibers
  <2>2. Proper(want'["update"].update)
    BY <1>2, <2>1 DEF UpdateInv
  <2>3. CASE want[f].kind = "update" /\ updateRoutes(f, want[f].update, unicastRoutes, dirtyPrefixes, TRUE, retrySignals)
    <3>1. f = "update"
      BY <1>1, <2>3 DEF LockInv, Fibers
    <3>2. Proper(want[f].update) /\ want[f].update \in Update
      BY <1>1, <3>1 DEF UpdateInv, TypeOK, Request
    <3>3. QED
      BY <1>1, <1>4, <2>2, <2>3, <3>2
  <2>4. CASE retryDirty(retrySignals)
    BY <1>1, <1>5, <2>1, <2>2, <2>4
  <2>5. CASE syncRoutes(retrySignals)
    BY <1>1, <1>6, <2>2, <2>5
  <2>6. QED
    BY <1>9, <2>3, <2>4, <2>5 DEF Resume
<1>10. CASE DeleteUnicastRoutes
  <2>1. UNCHANGED <<want, unicastRoutes>> /\ op.call = "delete"
    BY <1>10 DEF DeleteUnicastRoutes
  <2>2. \/ op' = NoOp
        \/ op'.call = "add" /\ op'.update = op.update
    BY SMT, <1>10 DEF DeleteUnicastRoutes, AfterDelete, Call, Publish, Finish
  <2>3. QED
    BY <1>3, <2>1, <2>2 DEF UpdateInv, ToUpdate
<1>11. CASE AddUnicastRoutes \/ SyncFib
  <2>1. UNCHANGED <<want, unicastRoutes>> /\ op' = NoOp
    BY <1>11 DEF AddUnicastRoutes, SyncFib, FibSynced, Publish, Finish
  <2>2. QED
    BY <1>3, <2>1 DEF UpdateInv, ToUpdate
<1>12. CASE \/ UNCHANGED vars
            \/ \E seen \in {0, aliveSince} : KeepAlive(seen)
            \/ RetryTimeout
            \/ \E p \in Prefixes : BecomeDue(p)
            \/ AgentRestart
  <2>1. UNCHANGED <<want, unicastRoutes, op>>
    BY <1>12 DEF vars, routeState, KeepAlive, RetryTimeout, BecomeDue, AgentRestart
  <2>2. QED
    BY <2>1 DEF UpdateInv, ToUpdate
<1>13. QED
  BY <1>7, <1>8, <1>9, <1>10, <1>11, <1>12 DEF Next

-----------------------------------------------------------------------------
(* The fibers agree and the updates in hand are proper: what the steps below rest on. *)
RouteInv == FiberInv /\ UpdateInv

(* A synced Fib that works with the lock: clean prefixes stay programmed (updateRoutes). *)
LEMMA ProgrammedUpdate ==
  ASSUME TypeOK, NEW f \in Fibers, NEW update \in Update, NEW dirty \in Marks,
         NEW delay \in BOOLEAN, NEW signals \in Nat,
         updateRoutes(f, update, unicastRoutes, dirty, delay, signals),
         ProgrammedInv, op = NoOp, state' = "SYNCED" => state = "SYNCED" /\ update.type = "INCREMENTAL",
         \A p \in Prefixes \ (update.toDelete \cup ToUpdate(update)) :
            state = "SYNCED" /\ dirty[p] = "clean" => dirtyPrefixes[p] = "clean",
         UNCHANGED <<latestAliveSince, aliveSince, agent>>
  PROVE  ProgrammedInv'
<1> SUFFICES ASSUME state' = "SYNCED", latestAliveSince \in {0, aliveSince},
                    NEW p \in Prefixes \ Unprogrammed', dirtyPrefixes'[p] = "clean"
             PROVE  agent'[p] = unicastRoutes'[p]
  BY DEF ProgrammedInv
<1>1. Unprogrammed = {}
  BY DEF Unprogrammed, NoOp
<1>2. unicastRoutes \in Table
  BY DEF TypeOK
<1>3. /\ p \notin update.toDelete \cup ToUpdate(update)
      /\ dirty[p] = "clean" /\ unicastRoutes'[p] = unicastRoutes[p]
  BY SMT, <1>2, UpdateRoutesPrefix
<1>4. QED
  BY <1>1, <1>3 DEF ProgrammedInv

(* The same of the retry fiber. *)
LEMMA ProgrammedRetry ==
  ASSUME FiberInv, ProgrammedInv, op = NoOp, NEW signals \in Nat, retryDirty(signals), state' = state,
         UNCHANGED <<latestAliveSince, aliveSince, agent>>
  PROVE  ProgrammedInv'
<1>1. TypeOK /\ unicastRoutes \in Table /\ dirtyPrefixes \in Marks /\ "retry" \in Fibers
  BY DEF FiberInv, TypeOK, Marks, Fibers
<1>2. createUpdate \in Update /\ dirtyAfterCreateUpdate \in Marks
  BY <1>1, CreateUpdateType
<1>3. state = "SYNCED" => ~FirstSync /\ createUpdate.type = "INCREMENTAL"
  BY DEF FirstSync, createUpdate, Incremental
<1>4. \A p \in Prefixes \ (createUpdate.toDelete \cup ToUpdate(createUpdate)) :
        state = "SYNCED" /\ dirtyAfterCreateUpdate[p] = "clean" => dirtyPrefixes[p] = "clean"
  BY <1>1, <1>3, RetriedPrefix
<1>5. QED
  BY <1>1, <1>2, <1>3, <1>4, ProgrammedUpdate DEF retryDirty

(* No step leaves a clean prefix unprogrammed, if restarts of the agent are noticed. *)
LEMMA ProgrammedNext ==
  ASSUME ~RestartAnyTime, RouteInv, ProgrammedInv, [Next]_vars
  PROVE  ProgrammedInv'
<1> USE DEF RouteInv
<1>1. /\ TypeOK /\ LockInv /\ unicastRoutes \in Table /\ dirtyPrefixes \in Marks /\ retrySignals \in Nat
      /\ agent \in Table /\ aliveSince \in Nat
  BY SMT, ConfigAssumption DEF FiberInv, TypeOK, Marks, Incarnations
<1>2. ASSUME NEW signals \in Nat, syncRoutes(signals), state' = state, state = "SYNCING",
             UNCHANGED <<latestAliveSince, aliveSince>>
      PROVE  ProgrammedInv'
  BY <1>2 DEF ProgrammedInv
<1>3. ASSUME NEW update \in DecisionUpdates, ProcessDecisionRouteUpdate(update) PROVE ProgrammedInv'
  <2>1. update \in Update /\ update.type = "INCREMENTAL"
    BY DEF DecisionUpdates, Update
  <2>2. state' = "SYNCED" => state = "SYNCED"
    BY <1>1, <1>3 DEF ProcessDecisionRouteUpdate, transitionRouteState, TypeOK
  <2>3. UNCHANGED <<latestAliveSince, aliveSince, agent>>
    BY <1>3 DEF ProcessDecisionRouteUpdate
  <2>4. CASE state = "AWAITING"
    BY <2>2, <2>3, <2>4 DEF ProgrammedInv
  <2>5. CASE state # "AWAITING" /\ lock = "free"
    <3>1. /\ updateRoutes("update", update, unicastRoutes, dirtyPrefixes, TRUE, retrySignals)
          /\ op = NoOp
      BY <1>1, <1>3, <2>5 DEF ProcessDecisionRouteUpdate, TypeOK
    <3>2. QED
      BY <1>1, <2>1, <2>2, <2>3, <3>1, ProgrammedUpdate DEF Fibers
  <2>6. CASE state # "AWAITING" /\ lock # "free"
    <3>1. UNCHANGED <<unicastRoutes, dirtyPrefixes, op>>
      BY <1>3, <2>6 DEF ProcessDecisionRouteUpdate
    <3>2. QED
      BY <2>2, <2>3, <3>1 DEF ProgrammedInv, Unprogrammed, ToUpdate
  <2>7. QED
    BY <2>4, <2>5, <2>6
<1>4. CASE RetryRoutes
  <2>1. retrySignals - 1 \in Nat /\ state' = state /\ UNCHANGED <<latestAliveSince, aliveSince, agent>>
    BY SMT, <1>1, <1>4 DEF RetryRoutes
  <2>2. CASE lock = "free"
    <3>1. op = NoOp
      BY <1>1, <2>2 DEF TypeOK
    <3>2. CASE state = "SYNCING" /\ syncRoutes(retrySignals - 1)
      BY <1>2, <2>1, <3>2
    <3>3. CASE retryDirty(retrySignals - 1)
      BY <2>1, <3>1, <3>3, ProgrammedRetry
    <3>4. QED
      BY <1>4, <2>2, <3>2, <3>3 DEF RetryRoutes
  <2>3. CASE lock # "free"
    <3>1. UNCHANGED <<unicastRoutes, dirtyPrefixes, op>>
      BY <1>4, <2>3 DEF RetryRoutes
    <3>2. QED
      BY <2>1, <3>1 DEF ProgrammedInv, Unprogrammed, ToUpdate
  <2>4. QED
    BY <2>2, <2>3
<1>5. ASSUME NEW f \in Fibers, Resume(f) PROVE ProgrammedInv'
  <2>1. state' = state /\ op = NoOp /\ UNCHANGED <<latestAliveSince, aliveSince, agent>>
    BY <1>1, <1>5 DEF Resume, LockInv
  <2>2. CASE want[f].kind = "update" /\ updateRoutes(f, want[f].update, unicastRoutes, dirtyPrefixes, TRUE, retrySignals)
    <3>1. f = "update"
      BY <1>1, <2>2 DEF LockInv, Fibers
    <3>2. want[f].update.type = "INCREMENTAL" /\ want[f].update \in Update
      BY <1>1, <3>1 DEF UpdateInv, TypeOK, Request
    <3>3. QED
      BY <1>1, <2>1, <2>2, <3>2, ProgrammedUpdate
  <2>3. CASE retryDirty(retrySignals)
    BY <1>1, <2>1, <2>3, ProgrammedRetry
  <2>4. CASE want[f].kind = "sync" /\ syncRoutes(retrySignals)
    <3>1. state = "SYNCING"
      BY <1>1, <2>4 DEF LockInv, Fibers
    <3>2. QED
      BY <1>1, <1>2, <2>1, <2>4, <3>1
  <2>5. QED
    BY <1>5, <2>2, <2>3, <2>4 DEF Resume
<1>6. CASE DeleteUnicastRoutes
  <2> DEFINE table == Only(agent, Prefixes \ op.update.toDelete)
  <2>1. op.call = "delete" /\ UNCHANGED <<latestAliveSince, aliveSince, unicastRoutes, state>>
    BY <1>6 DEF DeleteUnicastRoutes
  <2>2. SUFFICES ASSUME state = "SYNCED", latestAliveSince \in {0, aliveSince},
                        NEW p \in Prefixes \ Unprogrammed', dirtyPrefixes'[p] = "clean"
                 PROVE  agent'[p] = unicastRoutes[p]
    BY <2>1 DEF ProgrammedInv
  <2>3. p \notin ToUpdate(op.update)
    <3>1. CASE ToUpdate(op.update) # {}
      <4>1. op'.call = "add" /\ op'.update = op.update
        BY SMT, <1>6, <3>1 DEF DeleteUnicastRoutes, AfterDelete, Call
      <4>2. QED
        BY <4>1 DEF Unprogrammed, ToUpdate
    <3>2. QED
      BY <3>1
  <2>4. CASE p \in op.update.toDelete
    <3>1. dirtyPrefixes' # Mark(dirtyPrefixes, op.update.toDelete, "waiting")
      BY <2>2, <2>4 DEF Mark
    <3>2. agent' = table
      BY <1>6, <3>1 DEF DeleteUnicastRoutes
    <3>3. agent'[p] = NoRoute
      BY <2>4, <3>2 DEF Only
    <3>4. QED
      BY <2>1, <2>4, <3>3 DEF UpdateInv
  <2>5. CASE p \notin op.update.toDelete
    <3>1. agent' \in {agent, table}
      BY <1>6 DEF DeleteUnicastRoutes, Unclear
    <3>2. agent'[p] = agent[p]
      BY <2>5, <3>1 DEF Only
    <3>3. dirtyPrefixes[p] = "clean"
      BY <1>6, <2>2, <2>5 DEF DeleteUnicastRoutes, Mark
    <3>4. p \notin Unprogrammed
      BY <2>1, <2>3, <2>5 DEF Unprogrammed
    <3>5. QED
      BY <2>2, <3>2, <3>3, <3>4 DEF ProgrammedInv
  <2>6. QED
    BY <2>4, <2>5
<1>7. CASE AddUnicastRoutes
  <2> DEFINE adds == ToUpdate(op.update)
             table(S) == [p \in Prefixes |-> IF p \in S THEN op.update.toUpdate[p] ELSE agent[p]]
  <2>1. op.call = "add" /\ UNCHANGED <<latestAliveSince, aliveSince, unicastRoutes, state>>
    BY <1>7 DEF AddUnicastRoutes
  <2>2. SUFFICES ASSUME state = "SYNCED", latestAliveSince \in {0, aliveSince},
                        NEW p \in Prefixes, dirtyPrefixes'[p] = "clean"
                 PROVE  agent'[p] = unicastRoutes[p]
    BY <2>1 DEF ProgrammedInv
  <2>3. PICK failed \in SUBSET adds : /\ agent' \in {agent, table(adds \ failed)} \cup {table(adds)}
                                      /\ failed # adds => agent' = table(adds \ failed)
                                      /\ dirtyPrefixes' = Mark(dirtyPrefixes, failed, "waiting")
    <3>1. CASE Connected /\ agent' = table(adds) /\ UNCHANGED dirtyPrefixes
      <4>1. dirtyPrefixes' = Mark(dirtyPrefixes, {}, "waiting") /\ adds \ {} = adds
        BY <1>1, <3>1 DEF Mark, Marks
      <4>2. QED
        BY <3>1, <4>1
    <3>2. CASE \E failed \in SUBSET adds \ {{}} :
                 /\ agent' = table(adds \ failed)
                 /\ dirtyPrefixes' = Mark(dirtyPrefixes, failed, "waiting")
      BY <3>2
    <3>3. CASE /\ agent' \in Unclear(table(adds))
               /\ dirtyPrefixes' = Mark(dirtyPrefixes, adds, "waiting")
      BY <3>3 DEF Unclear
    <3>4. QED
      BY <1>7, <3>1, <3>2, <3>3 DEF AddUnicastRoutes
  <2>4. p \notin failed /\ dirtyPrefixes[p] = "clean"
    BY <2>2, <2>3 DEF Mark
  <2>5. CASE p \in adds
    <3>1. agent'[p] = op.update.toUpdate[p]
      BY <2>3, <2>4, <2>5
    <3>2. QED
      BY <2>1, <2>5, <3>1 DEF UpdateInv
  <2>6. CASE p \notin adds
    <3>1. agent'[p] = agent[p] /\ p \notin Unprogrammed
      BY <2>1, <2>3, <2>6 DEF Unprogrammed
    <3>2. QED
      BY <2>2, <2>4, <3>1 DEF ProgrammedInv
  <2>7. QED
    BY <2>5, <2>6
<1>8. CASE SyncFib
  <2>1. op.call = "sync" /\ UNCHANGED <<latestAliveSince, aliveSince, unicastRoutes>>
    BY <1>8 DEF SyncFib
  <2>2. state = "SYNCING" /\ op.table = unicastRoutes
    BY <1>1, <2>1 DEF LockInv, UpdateInv
  <2>3. SUFFICES ASSUME state' = "SYNCED", NEW p \in Prefixes, dirtyPrefixes'[p] = "clean"
                 PROVE  agent'[p] = unicastRoutes[p]
    BY <2>1 DEF ProgrammedInv
  <2>4. \/ agent' = op.table
        \/ \E failed \in SUBSET Prefixes :
             /\ agent' = [q \in Prefixes |-> IF q \in failed THEN agent[q] ELSE op.table[q]]
             /\ dirtyPrefixes' = Mark(dirtyPrefixes, failed, "waiting")
    BY <1>8, <2>2, <2>3 DEF SyncFib
  <2>5. QED
    BY <2>2, <2>3, <2>4 DEF Mark
<1>9. ASSUME NEW seen \in {0, aliveSince}, KeepAlive(seen) PROVE ProgrammedInv'
  <2>1. /\ latestAliveSince' = seen
        /\ UNCHANGED <<unicastRoutes, dirtyPrefixes, op, agent, aliveSince>>
    BY <1>9 DEF KeepAlive
  <2>2. state' = "SYNCED" => state = "SYNCED" /\ latestAliveSince \in {0, aliveSince}
    BY <1>1, <1>9 DEF KeepAlive, transitionRouteState, TypeOK
  <2>3. QED
    BY SMT, <1>1, <2>1, <2>2 DEF ProgrammedInv, Unprogrammed, ToUpdate
<1>10. ASSUME NEW q \in Prefixes, BecomeDue(q) PROVE ProgrammedInv'
  <2>1. \A p \in Prefixes : dirtyPrefixes'[p] = "clean" => dirtyPrefixes[p] = "clean"
    BY <1>1, <1>10 DEF BecomeDue, Marks
  <2>2. QED
    BY <1>10, <2>1 DEF BecomeDue, ProgrammedInv, Unprogrammed, ToUpdate
<1>11. CASE AgentRestart
  <2>1. latestAliveSince # 0 /\ latestAliveSince \in Nat
    BY SMT, <1>1, <1>11, ConfigAssumption DEF AgentRestart, TypeOK, Incarnations
  <2>2. latestAliveSince' \notin {0, aliveSince'} /\ latestAliveSince' <= aliveSince'
    BY SMT, <1>1, <1>11, <2>1 DEF AgentRestart, ProgrammedInv
  <2>3. QED
    BY <2>2 DEF ProgrammedInv
<1>12. CASE RetryTimeout \/ UNCHANGED vars
  BY <1>12 DEF RetryTimeout, vars, routeState, ProgrammedInv, Unprogrammed, ToUpdate
<1>13. QED
  BY <1>3, <1>4, <1>5, <1>6, <1>7, <1>8, <1>9, <1>10, <1>11, <1>12 DEF Next

-----------------------------------------------------------------------------
(* The prefixes of an update of which a reader is told something. *)
Named(update) == update.toDelete \cup ToUpdate(update)

(* A publication without the routes that failed says of a prefix that did not *)
(* fail what the update says (processFibUpdateError). *)
LEMMA PublishedPrefix ==
  ASSUME NEW table, NEW update \in Update, NEW failed \in SUBSET Prefixes, NEW p \in Prefixes \ failed
  PROVE  Apply(table, processFibUpdateError(update, failed))[p] = Apply(table, update)[p]
<1>1. /\ processFibUpdateError(update, failed).type = update.type
      /\ processFibUpdateError(update, failed).toUpdate[p] = update.toUpdate[p]
      /\ p \in processFibUpdateError(update, failed).toDelete <=> p \in update.toDelete
  BY DEF processFibUpdateError, Only, Update
<1>2. QED
  BY <1>1 DEF Apply, ToUpdate

(* Nothing is removed when nothing failed. *)
LEMMA NothingFailed ==
  ASSUME NEW update \in Update
  PROVE  processFibUpdateError(update, {}) = update
<1>1. Only(update.toUpdate, Prefixes \ {}) = update.toUpdate
  BY DEF Only, Update, Table
<1>2. update.toDelete \cup {} = update.toDelete
  OBVIOUS
<1>3. processFibUpdateError(update, {}) =
        [update EXCEPT !.toUpdate = update.toUpdate, !.toDelete = update.toDelete]
  BY <1>1, <1>2 DEF processFibUpdateError
<1>4. QED
  BY <1>3 DEF Update

(* How the additions end: the routes that did not fail are in the agent and *)
(* published, those that failed are dirty and published as deleted. *)
LEMMA AddEffect ==
  ASSUME TypeOK, AddUnicastRoutes
  PROVE  \E failed \in SUBSET ToUpdate(op.update) :
           /\ published' = Apply(published, processFibUpdateError(op.update, failed))
           /\ dirtyPrefixes' = Mark(dirtyPrefixes, failed, "waiting")
           /\ \A p \in ToUpdate(op.update) \ failed : agent'[p] = op.update.toUpdate[p]
<1> DEFINE adds == ToUpdate(op.update)
           table(S) == [p \in Prefixes |-> IF p \in S THEN op.update.toUpdate[p] ELSE agent[p]]
<1>1. op.update \in Update /\ adds \subseteq Prefixes
  BY DEF TypeOK, Op, ToUpdate
<1>2. CASE agent' = table(adds) /\ UNCHANGED dirtyPrefixes /\ Publish(lock, op.update)
  <2>1. dirtyPrefixes' = Mark(dirtyPrefixes, {}, "waiting")
    BY <1>2 DEF Mark, TypeOK
  <2>2. published' = Apply(published, processFibUpdateError(op.update, {}))
    BY <1>1, <1>2, NothingFailed DEF Publish
  <2>3. \A p \in adds \ {} : agent'[p] = op.update.toUpdate[p]
    BY <1>1, <1>2
  <2>4. {} \in SUBSET adds
    OBVIOUS
  <2>5. QED
    BY <2>1, <2>2, <2>3, <2>4
<1>3. CASE \E failed \in SUBSET adds \ {{}} :
             /\ agent' = table(adds \ failed)
             /\ dirtyPrefixes' = Mark(dirtyPrefixes, failed, "waiting")
             /\ Publish(lock, processFibUpdateError(op.update, failed))
  <2>1. PICK failed \in SUBSET adds :
             /\ agent' = table(adds \ failed)
             /\ dirtyPrefixes' = Mark(dirtyPrefixes, failed, "waiting")
             /\ Publish(lock, processFibUpdateError(op.update, failed))
    BY <1>3
  <2>2. \A p \in adds \ failed : agent'[p] = op.update.toUpdate[p]
    BY <1>1, <2>1
  <2>3. QED
    BY <2>1, <2>2 DEF Publish
<1>4. CASE /\ dirtyPrefixes' = Mark(dirtyPrefixes, adds, "waiting")
           /\ Publish(lock, processFibUpdateError(op.update, adds))
  BY <1>4 DEF Publish
<1>5. QED
  BY <1>2, <1>3, <1>4 DEF AddUnicastRoutes

(* How a sync that succeeded ends, for the prefixes that did not fail. *)
LEMMA SyncEffect ==
  ASSUME TypeOK, SyncFib, state' # state
  PROVE  \E failed \in SUBSET Prefixes :
           /\ published' = Apply(published,
                processFibUpdateError(op.update, {p \in failed : op.table[p] # NoRoute}))
           /\ dirtyPrefixes' = Mark(dirtyPrefixes, failed, "waiting")
           /\ \A p \in Prefixes \ failed : agent'[p] = op.table[p]
<1>1. op.update \in Update
  BY DEF TypeOK, Op
<1>2. CASE agent' = op.table /\ UNCHANGED dirtyPrefixes /\ FibSynced(op.update)
  <2>1. dirtyPrefixes' = Mark(dirtyPrefixes, {}, "waiting")
    BY <1>2 DEF Mark, TypeOK
  <2>2. {p \in {} : op.table[p] # NoRoute} = {} /\ {} \in SUBSET Prefixes
    OBVIOUS
  <2>3. published' = Apply(published, processFibUpdateError(op.update, {p \in {} : op.table[p] # NoRoute}))
    BY <1>1, <1>2, <2>2, NothingFailed DEF FibSynced, Publish
  <2>4. QED
    BY <1>2, <2>1, <2>2, <2>3
<1>3. CASE \E failed \in SUBSET {p \in Prefixes : agent[p] # op.table[p]} \ {{}} :
             /\ agent' = [p \in Prefixes |-> IF p \in failed THEN agent[p] ELSE op.table[p]]
             /\ dirtyPrefixes' = Mark(dirtyPrefixes, failed, "waiting")
             /\ FibSynced(processFibUpdateError(op.update, {p \in failed : op.table[p] # NoRoute}))
  <2>1. PICK failed \in SUBSET Prefixes :
             /\ agent' = [p \in Prefixes |-> IF p \in failed THEN agent[p] ELSE op.table[p]]
             /\ dirtyPrefixes' = Mark(dirtyPrefixes, failed, "waiting")
             /\ FibSynced(processFibUpdateError(op.update, {p \in failed : op.table[p] # NoRoute}))
    BY <1>3
  <2>2. \A p \in Prefixes \ failed : agent'[p] = op.table[p]
    BY <2>1
  <2>3. QED
    BY <2>1, <2>2 DEF FibSynced, Publish
<1>4. QED
  BY <1>2, <1>3 DEF SyncFib

(* What updateRoutes itself publishes, before any call, is deletions. *)
LEMMA UpdatePublishes ==
  ASSUME NEW f, NEW update \in Update, NEW table, NEW dirty, NEW delay, NEW signals,
         update.type = "INCREMENTAL",
         updateRoutes(f, update, table, dirty, delay, signals), NEW p \in Prefixes
  PROVE  published'[p] = published[p] \/ published'[p] = NoRoute
<1>1. CASE published' = published
  BY <1>1
<1>2. CASE published' = Apply(published, update) /\ ToUpdate(update) = {}
  BY <1>2 DEF Apply
<1>3. QED
  BY <1>1, <1>2 DEF updateRoutes

(* The retry fiber: the first sync is the only one whose update is a FULL_SYNC. *)
LEMMA RetryPublishes ==
  ASSUME unicastRoutes \in Table, dirtyPrefixes \in Marks, NEW signals, retryDirty(signals), state' = state,
         NEW p \in Prefixes
  PROVE  published'[p] = published[p] \/ published'[p] = NoRoute
<1>1. CASE state = "SYNCING"
  <2>1. published' = published
    BY <1>1 DEF retryDirty, updateRoutes
  <2>2. QED
    BY <2>1
<1>2. CASE state # "SYNCING"
  <2>1. createUpdate \in Update /\ createUpdate.type = "INCREMENTAL"
    BY <1>2, CreateUpdateType DEF createUpdate, FirstSync, Incremental
  <2>2. QED
    BY <2>1, UpdatePublishes DEF retryDirty
<1>3. QED
  BY <1>1, <1>2

(* A step that publishes a new route for a prefix is one in which the agent took it. *)
LEMMA PublishesConfirmed ==
  ASSUME RouteInv, Next, NEW p \in Prefixes
  PROVE  published'[p] \in {published[p], NoRoute, agent'[p]}
<1> USE DEF RouteInv
<1>1. /\ TypeOK /\ LockInv /\ unicastRoutes \in Table /\ dirtyPrefixes \in Marks
      /\ op.update \in Update
  BY DEF FiberInv, TypeOK, Marks, Op
<1>2. ASSUME NEW update \in DecisionUpdates, ProcessDecisionRouteUpdate(update)
      PROVE  published'[p] \in {published[p], NoRoute}
  <2>1. update \in Update /\ update.type = "INCREMENTAL"
    BY DEF DecisionUpdates, Update
  <2>2. QED
    BY <1>2, <2>1, UpdatePublishes DEF ProcessDecisionRouteUpdate
<1>3. CASE RetryRoutes
  <2>1. CASE lock = "free"
    BY <1>1, <1>3, <2>1, RetryPublishes DEF RetryRoutes, syncRoutes
  <2>2. CASE lock # "free"
    BY <1>3, <2>2 DEF RetryRoutes
  <2>3. QED
    BY <2>1, <2>2
<1>4. ASSUME NEW f \in Fibers, Resume(f) PROVE published'[p] \in {published[p], NoRoute}
  <2>1. CASE want[f].kind = "update" /\ updateRoutes(f, want[f].update, unicastRoutes, dirtyPrefixes, TRUE, retrySignals)
    <3>1. f = "update"
      BY <1>1, <2>1 DEF LockInv, Fibers
    <3>2. want[f].update.type = "INCREMENTAL" /\ want[f].update \in Update
      BY <1>1, <3>1 DEF UpdateInv, TypeOK, Request
    <3>3. QED
      BY <2>1, <3>2, UpdatePublishes
  <2>2. CASE retryDirty(retrySignals)
    BY <1>1, <1>4, <2>2, RetryPublishes DEF Resume
  <2>3. CASE syncRoutes(retrySignals)
    BY <2>3 DEF syncRoutes
  <2>4. QED
    BY <1>4, <2>1, <2>2, <2>3 DEF Resume
<1>5. CASE DeleteUnicastRoutes
  <2>1. op.update.type = "INCREMENTAL"
    BY <1>5 DEF DeleteUnicastRoutes, UpdateInv
  <2>2. CASE ToUpdate(op.update) # {}
    BY <1>5, <2>2 DEF DeleteUnicastRoutes, AfterDelete
  <2>3. CASE ToUpdate(op.update) = {}
    <3>1. published' = Apply(published, op.update)
      BY <1>5, <2>3 DEF DeleteUnicastRoutes, AfterDelete, Publish
    <3>2. QED
      BY <2>1, <2>3, <3>1 DEF Apply
  <2>4. QED
    BY <2>2, <2>3
<1>6. CASE AddUnicastRoutes
  <2>1. PICK failed \in SUBSET ToUpdate(op.update) :
           /\ published' = Apply(published, processFibUpdateError(op.update, failed))
           /\ dirtyPrefixes' = Mark(dirtyPrefixes, failed, "waiting")
           /\ \A q \in ToUpdate(op.update) \ failed : agent'[q] = op.update.toUpdate[q]
    BY <1>1, <1>6, AddEffect
  <2>2. op.update.type = "INCREMENTAL" /\ failed \in SUBSET Prefixes
    BY <1>6, <2>1 DEF AddUnicastRoutes, UpdateInv, ToUpdate
  <2>3. CASE p \in failed
    <3>1. p \in processFibUpdateError(op.update, failed).toDelete
      BY <1>1, <2>3 DEF processFibUpdateError, Update
    <3>2. QED
      BY <2>1, <3>1 DEF Apply
  <2>4. CASE p \notin failed
    <3>1. published'[p] = Apply(published, op.update)[p]
      BY SMT, <1>1, <2>1, <2>2, <2>4, PublishedPrefix
    <3>2. QED
      BY <2>1, <2>2, <2>4, <3>1 DEF Apply
  <2>5. QED
    BY <2>3, <2>4
<1>7. CASE SyncFib
  <2>1. CASE state' = state
    <3>1. state = "SYNCING"
      BY <1>1, <1>7 DEF SyncFib, LockInv
    <3>2. ~ (state' = transitionRouteState(state, "FIB_SYNCED"))
      BY <2>1, <3>1 DEF transitionRouteState
    <3>3. published' = published
      BY <1>7, <3>2 DEF SyncFib, FibSynced
    <3>4. QED
      BY <3>3
  <2>2. CASE state' # state
    <3>1. PICK failed \in SUBSET Prefixes :
           /\ published' = Apply(published,
                processFibUpdateError(op.update, {q \in failed : op.table[q] # NoRoute}))
           /\ dirtyPrefixes' = Mark(dirtyPrefixes, failed, "waiting")
           /\ \A q \in Prefixes \ failed : agent'[q] = op.table[q]
      BY <1>1, <1>7, <2>2, SyncEffect
    <3> DEFINE removed == {q \in failed : op.table[q] # NoRoute}
    <3>2. removed \in SUBSET Prefixes
      OBVIOUS
    <3>3. CASE p \in removed
      <4>1. p \in processFibUpdateError(op.update, removed).toDelete
        BY <1>1, <3>3 DEF processFibUpdateError, Update
      <4>2. QED
        BY <3>1, <4>1 DEF Apply
    <3>4. CASE p \notin removed
      <4>1. published'[p] = Apply(published, op.update)[p]
        BY SMT, <1>1, <3>1, <3>2, <3>4, PublishedPrefix
      <4>2. CASE p \in ToUpdate(op.update)
        <5>1. op.update.toUpdate[p] = op.table[p] /\ op.table[p] # NoRoute
          BY <1>7, <4>2 DEF SyncFib, UpdateInv, ToUpdate
        <5>2. QED
          BY <3>1, <3>4, <4>1, <4>2, <5>1 DEF Apply
      <4>3. CASE p \notin ToUpdate(op.update)
        BY <4>1, <4>3 DEF Apply
      <4>4. QED
        BY <4>2, <4>3
    <3>5. QED
      BY <3>3, <3>4
  <2>3. QED
    BY <2>1, <2>2
<1>8. CASE \/ \E seen \in {0, aliveSince} : KeepAlive(seen)
           \/ RetryTimeout
           \/ \E q \in Prefixes : BecomeDue(q)
           \/ AgentRestart
  BY <1>8 DEF KeepAlive, RetryTimeout, BecomeDue, AgentRestart
<1>9. QED
  BY <1>2, <1>3, <1>4, <1>5, <1>6, <1>7, <1>8 DEF Next

-----------------------------------------------------------------------------
(* A clean prefix that updateRoutes does not name stays published. *)
LEMMA PublishedUpdate ==
  ASSUME TypeOK, NEW f \in Fibers, NEW update \in Update, NEW dirty \in Marks,
         NEW delay \in BOOLEAN, NEW signals \in Nat,
         updateRoutes(f, update, unicastRoutes, dirty, delay, signals),
         PublishedInv, op = NoOp, state' # "SYNCED" => state # "SYNCED",
         state' = "SYNCED" => state = "SYNCED" /\ update.type = "INCREMENTAL",
         \A p \in Prefixes \ Named(update) :
            state = "SYNCED" /\ dirty[p] = "clean" => dirtyPrefixes[p] = "clean",
         UNCHANGED <<isInitialSynced, resyncs>>
  PROVE  PublishedInv'
<1>1. unicastRoutes \in Table /\ op.call = "none"
  BY DEF TypeOK, NoOp
<1>2. op'.call # "sync"
  BY UpdateRoutesEffect, <1>1 DEF Released, NoOp
<1>3. ASSUME state' = "SYNCED", resyncs' = 0,
             NEW p \in Prefixes, dirtyPrefixes'[p] = "clean",
             op'.call \in {"delete", "add"} => p \notin Named(op'.update)
      PROVE  published'[p] = unicastRoutes'[p]
  <2>1. /\ p \notin Named(update) /\ dirty[p] = "clean"
        /\ unicastRoutes'[p] = unicastRoutes[p] /\ published'[p] = published[p]
    BY SMT, <1>1, <1>3, UpdateRoutesPrefix DEF Named
  <2>2. QED
    BY <1>1, <1>3, <2>1 DEF PublishedInv
<1>4. QED
  BY <1>2, <1>3 DEF PublishedInv, Named, ToUpdate

(* The same of the retry fiber. *)
LEMMA PublishedRetry ==
  ASSUME FiberInv, PublishedInv, op = NoOp, NEW signals \in Nat, retryDirty(signals), state' = state,
         UNCHANGED <<isInitialSynced, resyncs>>
  PROVE  PublishedInv'
<1>1. TypeOK /\ unicastRoutes \in Table /\ dirtyPrefixes \in Marks /\ "retry" \in Fibers
  BY DEF FiberInv, TypeOK, Marks, Fibers
<1>2. createUpdate \in Update /\ dirtyAfterCreateUpdate \in Marks
  BY <1>1, CreateUpdateType
<1>3. state = "SYNCED" => ~FirstSync /\ createUpdate.type = "INCREMENTAL"
  BY DEF FirstSync, createUpdate, Incremental
<1>4. \A p \in Prefixes \ Named(createUpdate) :
        state = "SYNCED" /\ dirtyAfterCreateUpdate[p] = "clean" => dirtyPrefixes[p] = "clean"
  BY <1>1, <1>3, RetriedPrefix DEF Named
<1>5. QED
  BY <1>1, <1>2, <1>3, <1>4, PublishedUpdate DEF retryDirty

(* A sync made before SYNCED was ever left is the first one, with every route. *)
LEMMA PublishedSyncRoutes ==
  ASSUME PublishedInv, NEW signals, syncRoutes(signals), state = "SYNCING", state' = state,
         UNCHANGED <<isInitialSynced, resyncs>>
  PROVE  PublishedInv'
<1>1. op'.call = "sync" /\ op'.update = createUpdate /\ unicastRoutes' = unicastRoutes
  BY DEF syncRoutes, Call
<1>2. resyncs = 0 => createUpdate = [type |-> "FULL_SYNC", toUpdate |-> unicastRoutes, toDelete |-> {}]
  BY DEF PublishedInv, createUpdate, FirstSync
<1>3. QED
  BY <1>1, <1>2 DEF PublishedInv

(* No step leaves a clean prefix unpublished, until SYNCED is left. *)
LEMMA PublishedNext ==
  ASSUME RouteInv, PublishedInv, [Next]_vars
  PROVE  PublishedInv'
<1> USE DEF RouteInv
<1>1. /\ TypeOK /\ LockInv /\ unicastRoutes \in Table /\ dirtyPrefixes \in Marks /\ retrySignals \in Nat
      /\ published \in Table /\ op.update \in Update /\ NoOp.call = "none" /\ resyncs \in Nat
  BY DEF FiberInv, TypeOK, Marks, Op, NoOp
<1>2. ASSUME UNCHANGED <<unicastRoutes, dirtyPrefixes, op, published, isInitialSynced, resyncs>>,
             state' = state
      PROVE  PublishedInv'
  BY <1>2 DEF PublishedInv, ToUpdate
<1>3. ASSUME NEW update \in DecisionUpdates, ProcessDecisionRouteUpdate(update) PROVE PublishedInv'
  <2>1. update \in Update /\ update.type = "INCREMENTAL"
    BY DEF DecisionUpdates, Update
  <2>2. /\ state' = IF state = "AWAITING" THEN "SYNCING" ELSE state
        /\ UNCHANGED <<isInitialSynced, resyncs>>
    BY <1>3 DEF ProcessDecisionRouteUpdate, transitionRouteState
  <2>3. CASE lock = "free"
    <3>1. unicastRoutes = IF state = "AWAITING" THEN EmptyTable ELSE unicastRoutes
      BY <1>1 DEF LockInv
    <3>2. /\ updateRoutes("update", update, unicastRoutes, dirtyPrefixes, TRUE, retrySignals)
          /\ op = NoOp
      BY <1>1, <1>3, <2>3, <3>1 DEF ProcessDecisionRouteUpdate, TypeOK
    <3>3. /\ state' # "SYNCED" => state # "SYNCED"
          /\ state' = "SYNCED" => state = "SYNCED"
      BY <1>1, <2>2 DEF TypeOK
    <3>4. QED
      BY <1>1, <2>1, <2>2, <3>2, <3>3, PublishedUpdate DEF Fibers
  <2>4. CASE lock # "free"
    <3>1. state # "AWAITING"
      BY <1>1, <2>4 DEF LockInv
    <3>2. UNCHANGED <<unicastRoutes, dirtyPrefixes, op, published>>
      BY <1>3, <2>4, <3>1 DEF ProcessDecisionRouteUpdate
    <3>3. QED
      BY <1>2, <2>2, <3>1, <3>2
  <2>5. QED
    BY <2>3, <2>4
<1>4. CASE RetryRoutes
  <2>1. retrySignals - 1 \in Nat /\ state' = state /\ UNCHANGED <<isInitialSynced, resyncs>>
    BY SMT, <1>1, <1>4 DEF RetryRoutes
  <2>2. CASE lock = "free"
    <3>1. op = NoOp
      BY <1>1, <2>2 DEF TypeOK
    <3>2. CASE state = "SYNCING" /\ syncRoutes(retrySignals - 1)
      BY <2>1, <3>2, PublishedSyncRoutes
    <3>3. CASE retryDirty(retrySignals - 1)
      BY <2>1, <3>1, <3>3, PublishedRetry
    <3>4. QED
      BY <1>4, <2>2, <3>2, <3>3 DEF RetryRoutes
  <2>3. CASE lock # "free"
    BY <1>2, <1>4, <2>1, <2>3 DEF RetryRoutes
  <2>4. QED
    BY <2>2, <2>3
<1>5. ASSUME NEW f \in Fibers, Resume(f) PROVE PublishedInv'
  <2>1. state' = state /\ op = NoOp /\ UNCHANGED <<isInitialSynced, resyncs>>
    BY <1>1, <1>5 DEF Resume, LockInv
  <2>2. CASE want[f].kind = "update" /\ updateRoutes(f, want[f].update, unicastRoutes, dirtyPrefixes, TRUE, retrySignals)
    <3>1. f = "update"
      BY <1>1, <2>2 DEF LockInv, Fibers
    <3>2. want[f].update.type = "INCREMENTAL" /\ want[f].update \in Update
      BY <1>1, <3>1 DEF UpdateInv, TypeOK, Request
    <3>3. QED
      BY <1>1, <2>1, <2>2, <3>2, PublishedUpdate
  <2>3. CASE retryDirty(retrySignals)
    BY <1>1, <2>1, <2>3, PublishedRetry
  <2>4. CASE want[f].kind = "sync" /\ syncRoutes(retrySignals)
    <3>1. state = "SYNCING"
      BY <1>1, <2>4 DEF LockInv, Fibers
    <3>2. QED
      BY <2>1, <2>4, <3>1, PublishedSyncRoutes
  <2>5. QED
    BY <1>5, <2>2, <2>3, <2>4 DEF Resume
<1>6. ASSUME op.call \in {"delete", "add"}, op' = NoOp, state' = state,
             UNCHANGED <<unicastRoutes, isInitialSynced, resyncs>>,
             NEW failed \in SUBSET ToUpdate(op.update),
             published' = Apply(published, processFibUpdateError(op.update, failed)),
             \A p \in Prefixes : dirtyPrefixes'[p] = "clean" => p \notin failed /\ dirtyPrefixes[p] = "clean"
      PROVE  PublishedInv'
  <2>1. ASSUME state = "SYNCED", resyncs = 0, NEW p \in Prefixes, dirtyPrefixes'[p] = "clean"
        PROVE  published'[p] = unicastRoutes[p]
    <3>1. p \notin failed /\ dirtyPrefixes[p] = "clean" /\ failed \in SUBSET Prefixes
      BY <1>6, <2>1 DEF ToUpdate
    <3>2. published'[p] = Apply(published, op.update)[p]
      BY SMT, <1>1, <1>6, <3>1, PublishedPrefix
    <3>3. CASE p \in Named(op.update)
      BY <1>6, <3>2, <3>3 DEF Apply, Named, UpdateInv
    <3>4. CASE p \notin Named(op.update)
      <4>1. published'[p] = published[p]
        BY <1>6, <3>2, <3>4 DEF Apply, Named, UpdateInv
      <4>2. QED
        BY <2>1, <3>1, <3>4, <4>1 DEF PublishedInv, Named
    <3>5. QED
      BY <3>3, <3>4
  <2>2. QED
    BY <1>1, <1>6, <2>1 DEF PublishedInv
<1>7. CASE DeleteUnicastRoutes
  <2>1. /\ op.call = "delete" /\ state' = state /\ UNCHANGED <<unicastRoutes, isInitialSynced, resyncs>>
        /\ \A p \in Prefixes : dirtyPrefixes'[p] = "clean" => dirtyPrefixes[p] = "clean"
    BY <1>7 DEF DeleteUnicastRoutes, Mark
  <2>2. CASE ToUpdate(op.update) # {}
    <3>1. op'.call = "add" /\ op'.update = op.update /\ published' = published
      BY SMT, <1>7, <2>2 DEF DeleteUnicastRoutes, AfterDelete, Call
    <3>2. QED
      BY <2>1, <3>1 DEF PublishedInv, ToUpdate
  <2>3. CASE ToUpdate(op.update) = {}
    <3>1. op' = NoOp /\ published' = Apply(published, op.update)
      BY <1>7, <2>3 DEF DeleteUnicastRoutes, AfterDelete, Publish, Finish
    <3>2. published' = Apply(published, processFibUpdateError(op.update, {}))
      BY <1>1, <3>1, NothingFailed
    <3>3. {} \in SUBSET ToUpdate(op.update) /\ \A p \in Prefixes : p \notin {}
      OBVIOUS
    <3>4. QED
      BY <1>6, <2>1, <3>1, <3>2, <3>3
  <2>4. QED
    BY <2>2, <2>3
<1>8. CASE AddUnicastRoutes
  <2>1. PICK failed \in SUBSET ToUpdate(op.update) :
           /\ published' = Apply(published, processFibUpdateError(op.update, failed))
           /\ dirtyPrefixes' = Mark(dirtyPrefixes, failed, "waiting")
    BY <1>1, <1>8, AddEffect
  <2>2. \A p \in Prefixes : dirtyPrefixes'[p] = "clean" => p \notin failed /\ dirtyPrefixes[p] = "clean"
    BY <2>1 DEF Mark
  <2>3. op.call = "add" /\ op' = NoOp /\ state' = state /\ UNCHANGED <<unicastRoutes, isInitialSynced, resyncs>>
    BY <1>8 DEF AddUnicastRoutes, Publish, Finish
  <2>4. QED
    BY <1>6, <2>1, <2>2, <2>3
<1>9. CASE SyncFib
  <2>1. op.call = "sync" /\ op' = NoOp /\ state = "SYNCING" /\ UNCHANGED <<unicastRoutes, resyncs>>
    BY <1>1, <1>9 DEF SyncFib, FibSynced, Publish, Finish, LockInv
  <2>2. CASE state' = state
    <3>1. ~ (state' = transitionRouteState(state, "FIB_SYNCED"))
      BY <2>1, <2>2 DEF transitionRouteState
    <3>2. UNCHANGED isInitialSynced
      BY <1>9, <3>1 DEF SyncFib, FibSynced
    <3>3. QED
      BY <1>1, <2>1, <2>2, <3>2 DEF PublishedInv
  <2>3. CASE state' # state
    <3>1. PICK failed \in SUBSET Prefixes :
           /\ published' = Apply(published,
                processFibUpdateError(op.update, {q \in failed : op.table[q] # NoRoute}))
           /\ dirtyPrefixes' = Mark(dirtyPrefixes, failed, "waiting")
      BY <1>1, <1>9, <2>3, SyncEffect
    <3>2. state' = "SYNCED" /\ isInitialSynced' = TRUE
      BY <1>9, <2>1, <2>3 DEF SyncFib, FibSynced, transitionRouteState
    <3>3. ASSUME resyncs = 0, NEW p \in Prefixes, dirtyPrefixes'[p] = "clean"
          PROVE  published'[p] = unicastRoutes[p]
      <4> DEFINE removed == {q \in failed : op.table[q] # NoRoute}
      <4>1. p \notin removed /\ removed \in SUBSET Prefixes
        BY <3>1, <3>3 DEF Mark
      <4>2. published'[p] = Apply(published, op.update)[p]
        BY SMT, <1>1, <3>1, <4>1, PublishedPrefix
      <4>3. op.update.type = "FULL_SYNC" /\ op.update.toUpdate = unicastRoutes /\ op.update.toDelete = {}
        BY SMT, <2>1, <3>3 DEF PublishedInv
      <4>4. QED
        BY <4>2, <4>3 DEF Apply, ToUpdate
    <3>4. QED
      BY <1>1, <2>1, <3>2, <3>3 DEF PublishedInv
  <2>4. QED
    BY <2>2, <2>3
<1>10. ASSUME NEW seen \in {0, aliveSince}, KeepAlive(seen) PROVE PublishedInv'
  <2>1. UNCHANGED <<unicastRoutes, dirtyPrefixes, op, published, isInitialSynced>>
    BY <1>10 DEF KeepAlive
  <2>2. CASE state' = state
    <3>1. resyncs' = resyncs
      BY <1>10, <2>2 DEF KeepAlive
    <3>2. QED
      BY <1>2, <2>1, <2>2, <3>1
  <2>3. CASE state' # state
    <3>1. state = "SYNCED" /\ state' = "SYNCING"
      BY <1>1, <1>10, <2>3 DEF KeepAlive, transitionRouteState, TypeOK
    <3>2. resyncs' = resyncs + 1
      BY <1>10, <3>1 DEF KeepAlive
    <3>3. QED
      BY SMT, <1>1, <3>1, <3>2 DEF PublishedInv
  <2>4. QED
    BY <2>2, <2>3
<1>11. ASSUME NEW q \in Prefixes, BecomeDue(q) PROVE PublishedInv'
  <2>1. \A p \in Prefixes : dirtyPrefixes'[p] = "clean" => dirtyPrefixes[p] = "clean"
    BY <1>1, <1>11 DEF BecomeDue, Marks
  <2>2. QED
    BY <1>11, <2>1 DEF BecomeDue, PublishedInv, ToUpdate
<1>12. CASE RetryTimeout \/ AgentRestart \/ UNCHANGED vars
  BY <1>2, <1>12 DEF RetryTimeout, AgentRestart, vars, routeState
<1>13. QED
  BY <1>3, <1>4, <1>5, <1>7, <1>8, <1>9, <1>10, <1>11, <1>12 DEF Next

-----------------------------------------------------------------------------
(* Initially nothing is in hand, nothing is programmed and nothing published. *)
LEMMA RouteInvInit == Init => RouteInv /\ ProgrammedInv /\ PublishedInv
<1> SUFFICES ASSUME Init PROVE RouteInv /\ ProgrammedInv /\ PublishedInv
  OBVIOUS
<1>1. FiberInv
  BY FiberInvInit
<1>2. want["update"].update = NoUpdate /\ op.call = "none"
  BY DEF Init, Fibers, NoRequest, NoOp
<1>3. UpdateInv
  BY SMT, <1>2 DEF UpdateInv, NoUpdate, Incremental, ToUpdate, EmptyTable
<1>4. ProgrammedInv /\ PublishedInv
  BY SMT, <1>2 DEF Init, ProgrammedInv, PublishedInv
<1>5. QED
  BY <1>1, <1>3, <1>4 DEF RouteInv

(* Every step keeps the fibers in agreement and the updates proper. *)
LEMMA RouteInvNext == RouteInv /\ [Next]_vars => RouteInv'
BY FiberInvNext, UpdateInvNext DEF RouteInv

(* updateRoutes, syncRoutes, retryRoutes: whatever calls failed, a synced   *)
(* Fib whose agent restarts only while Fib watches it has programmed every *)
(* prefix that is not marked dirty. *)
THEOREM CleanIsProgrammed ==
  ASSUME ~RestartAnyTime
  PROVE  Spec => []ProgrammedOrDirty
<1>1. Init => RouteInv /\ ProgrammedInv
  BY RouteInvInit
<1>2. (RouteInv /\ ProgrammedInv) /\ [Next]_vars => (RouteInv /\ ProgrammedInv)'
  BY RouteInvNext, ProgrammedNext
<1>3. RouteInv /\ ProgrammedInv => ProgrammedOrDirty
  BY SMT DEF ProgrammedInv, ProgrammedOrDirty, Settled, Unprogrammed, NoOp
<1>4. QED
  BY <1>1, <1>2, <1>3, PTL DEF Spec

(* Fib.h, "FIB publishes the updates after successful programming": as long *)
(* as SYNCED has not been left, readers have been told of every clean prefix. *)
THEOREM CleanIsPublished == Spec => []PublishedUntilResync
<1>1. Init => RouteInv /\ PublishedInv
  BY RouteInvInit
<1>2. (RouteInv /\ PublishedInv) /\ [Next]_vars => (RouteInv /\ PublishedInv)'
  BY RouteInvNext, PublishedNext
<1>3. RouteInv /\ PublishedInv => PublishedUntilResync
  BY SMT DEF PublishedInv, PublishedUntilResync, PublishedIsProgrammed, Settled, NoOp
<1>4. QED
  BY <1>1, <1>2, <1>3, PTL DEF Spec

(* Fib.h, the same sentence, of a step: readers are told of a route only in *)
(* the step in which the agent confirms it. *)
THEOREM PublishesAfterProgramming == Spec => PublishedWasConfirmed
<1> DEFINE Confirmed ==
      \A p \in Prefixes :
        published'[p] # published[p] /\ published'[p] # NoRoute => agent'[p] = published'[p]
<1>1. Init => RouteInv
  BY RouteInvInit
<1>2. RouteInv /\ [Next]_vars => [Confirmed]_vars
  BY PublishesConfirmed
<1>3. QED
  BY <1>1, <1>2, RouteInvNext, PTL DEF Spec, PublishedWasConfirmed

=============================================================================
