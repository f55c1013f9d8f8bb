---------------------------------- MODULE Fib ----------------------------------
(***************************************************************************)
(* Route programming (openr/fib/Fib.cpp).  Three fibers share routeState_: *)
(* one reads Decision's route updates, one retries (failed routes, delayed *)
(* deletions and full syncs), one watches the agent for restarts.  A fiber *)
(* gives way to the others only while it waits for updateRoutesSemaphore_, *)
(* for retryRoutesSemaphore_ or for the answer of the agent, so an action  *)
(* is what a fiber does between two such points.                           *)
(*                                                                         *)
(* The agent (FibService) is external: it loses its routes when it         *)
(* restarts, a call may fail as a whole, with or without having taken      *)
(* effect, or for some prefixes, and a call made before a restart fails.   *)
(* MPLS routes (no longer programmed), dryrun and performance events are   *)
(* left out, and doNotInstall, which SpfSolver never sets.                 *)
(***************************************************************************)
EXTENDS Naturals, FiniteSets

CONSTANTS Prefixes,
          Routes,           \* what Decision may compute for a prefix
          NoRoute,
          OldRoutes,        \* what the agent may have for every prefix when Fib starts
          DeleteDelays,     \* whether route_delete_delay_ms > 0: a set of BOOLEANs
          RestartAnyTime,   \* FALSE: the agent restarts only while Fib knows its aliveSince
          MaxUpdates, MaxFailures, MaxRestarts   \* bounds

ASSUME NoRouteAssumption == NoRoute \notin Routes /\ OldRoutes \subseteq Routes
ASSUME ConfigAssumption == DeleteDelays \subseteq BOOLEAN /\ MaxRestarts \in Nat

VARIABLES rib,               \* history: the routes Decision has asked for
          unicastRoutes, dirtyPrefixes, state, isInitialSynced,  \* routeState_
          lock,              \* who has updateRoutesSemaphore_
          want,              \* want[f]: what fiber f will do when it gets the lock
          op,                \* the call the holder of the lock waits for
          retrySignals,      \* retryRoutesSemaphore_
          retryTimer,        \* the timeout of retryRoutesTask is scheduled
          latestAliveSince,
          delayedDeletionEnabled,  \* the configuration; never changes
          agent, aliveSince, \* external: the routes of the agent, its incarnation
          published,         \* the routes a reader of fibRouteUpdatesQueue_ has been told of
          resyncs,           \* history: how often SYNCED was left
          updates, failures  \* counters for the bounds

routeState == <<unicastRoutes, dirtyPrefixes, state, isInitialSynced>>
vars == <<rib, routeState, lock, want, op, retrySignals, retryTimer, latestAliveSince,
          delayedDeletionEnabled, agent, aliveSince, published, resyncs, updates, failures>>

Fibers == {"update", "retry"}
OtherFiber(f) == IF f = "update" THEN "retry" ELSE "update"

Table == [Prefixes -> Routes \cup {NoRoute}]
EmptyTable == [p \in Prefixes |-> NoRoute]

(* DecisionRouteUpdate; what is NoRoute in toUpdate is not in the update. *)
Update == [type : {"INCREMENTAL", "FULL_SYNC"}, toUpdate : Table, toDelete : SUBSET Prefixes]
Incremental(table, deletes) == [type |-> "INCREMENTAL", toUpdate |-> table, toDelete |-> deletes]
NoUpdate == Incremental(EmptyTable, {})

(* What a fiber waits for the lock to do: program an update, retry, or sync. *)
NoRequest == [kind |-> "none", update |-> NoUpdate]
Request == [kind : {"none", "update", "retry", "sync"}, update : Update]

(* The agent's incarnation at the other end of the connection is `to'. *)
NoOp == [call |-> "none", update |-> NoUpdate, table |-> EmptyTable, to |-> 0]
Op == [call : {"none", "delete", "add", "sync"}, update : Update, table : Table, to : Nat]

Incarnations == 1..(MaxRestarts + 1)

(* The lock belongs to a fiber that is in a call or about to resume. *)
TypeOK ==
  /\ rib \in Table /\ unicastRoutes \in Table /\ agent \in Table /\ published \in Table
  /\ dirtyPrefixes \in [Prefixes -> {"clean", "waiting", "due"}]
  /\ state \in {"AWAITING", "SYNCING", "SYNCED"}
  /\ delayedDeletionEnabled \in BOOLEAN /\ isInitialSynced \in BOOLEAN /\ retryTimer \in BOOLEAN
  /\ lock \in Fibers \cup {"free"}
  /\ want \in [Fibers -> Request]
  /\ op \in Op
  /\ retrySignals \in Nat /\ resyncs \in Nat /\ updates \in Nat /\ failures \in Nat
  /\ aliveSince \in Incarnations /\ latestAliveSince \in Incarnations \cup {0}
  /\ lock = "free" <=> op = NoOp /\ \A f \in Fibers : want[f] = NoRequest

Init ==
  /\ rib = EmptyTable
  /\ unicastRoutes = EmptyTable
  /\ dirtyPrefixes = [p \in Prefixes |-> "clean"]
  /\ state = "AWAITING"
  /\ isInitialSynced = FALSE
  /\ lock = "free"
  /\ want = [f \in Fibers |-> NoRequest]
  /\ op = NoOp
  /\ retrySignals = 1
  /\ retryTimer = FALSE
  /\ latestAliveSince = 0
  /\ delayedDeletionEnabled \in DeleteDelays
  /\ agent \in {EmptyTable} \cup {[p \in Prefixes |-> r] : r \in OldRoutes}
  /\ aliveSince = 1
  /\ published = EmptyTable
  /\ resyncs = 0
  /\ updates = 0
  /\ failures = 0

-----------------------------------------------------------------------------
(* FIB_SYNCED is undefined (a failing CHECK) unless s = "SYNCING". *)
transitionRouteState(s, event) ==
  CASE event = "RIB_UPDATE"    -> IF s = "AWAITING" THEN "SYNCING" ELSE s
    [] event = "FIB_CONNECTED" -> IF s = "AWAITING" THEN "AWAITING" ELSE "SYNCING"
    [] event = "FIB_SYNCED"    -> "SYNCED"

ToUpdate(update) == {p \in Prefixes : update.toUpdate[p] # NoRoute}
IsEmpty(update) == ToUpdate(update) = {} /\ update.toDelete = {}

(* RouteState::update, and how a reader applies a publication. *)
Apply(table, update) ==
  [p \in Prefixes |-> IF p \in update.toDelete THEN NoRoute
                      ELSE IF p \in ToUpdate(update) THEN update.toUpdate[p]
                      ELSE IF update.type = "FULL_SYNC" THEN NoRoute
                      ELSE table[p]]

Only(table, S) == [p \in Prefixes |-> IF p \in S THEN table[p] ELSE NoRoute]
Mark(dirty, S, mark) == [p \in Prefixes |-> IF p \in S THEN mark ELSE dirty[p]]
Due == {p \in Prefixes : dirtyPrefixes[p] = "due"}

FirstSync == state = "SYNCING" /\ ~isInitialSynced

createUpdate ==
  IF FirstSync
  THEN [type |-> "FULL_SYNC", toUpdate |-> unicastRoutes, toDelete |-> {}]
  ELSE Incremental(Only(unicastRoutes, Due), {p \in Due : unicastRoutes[p] = NoRoute})

(* createUpdate takes the prefixes it returns out of dirtyPrefixes. *)
dirtyAfterCreateUpdate ==
  IF FirstSync THEN dirtyPrefixes ELSE Mark(dirtyPrefixes, Due, "clean")

(* Mutant: routes that failed stay in the publication. *)
processFibUpdateError_Keep(update, failed) == update

(* DecisionRouteUpdate::processFibUpdateError: routes that failed are published as deleted. *)
processFibUpdateError(update, failed) ==
  [update EXCEPT !.toUpdate = Only(update.toUpdate, Prefixes \ failed), !.toDelete = @ \cup failed]

needsRetry(s, dirty) == s = "SYNCING" \/ \E p \in Prefixes : dirty[p] # "clean"

(* Mutant: an update that leaves dirty prefixes does not wake the retry fiber. *)
Finish_NoSignal(f, signals) ==
  /\ op' = NoOp
  /\ lock' = IF want[OtherFiber(f)] = NoRequest THEN "free" ELSE OtherFiber(f)
  /\ retrySignals' = signals
  /\ retryTimer' = (retryTimer \/ (f = "retry" /\ needsRetry(state', dirtyPrefixes')))

(* The lock goes to the fiber that waits; then needsRetry is handled. *)
Finish(f, signals) ==
  LET again == needsRetry(state', dirtyPrefixes')
  IN  /\ op' = NoOp
      /\ lock' = IF want[OtherFiber(f)] = NoRequest THEN "free" ELSE OtherFiber(f)
      /\ retrySignals' = IF f = "update" /\ again THEN signals + 1 ELSE signals
      /\ retryTimer' = (retryTimer \/ (f = "retry" /\ again))

Publish(f, update) ==
  /\ published' = Apply(published, update)
  /\ Finish(f, retrySignals)

(* Fiber f makes a call to the agent, connecting to it if need be. *)
Call(f, call, update, table) ==
  /\ lock' = f
  /\ op' = [call |-> call, update |-> update, table |-> table, to |-> aliveSince]

(* updateRoutes with the lock, up to the first call; in SYNCING syncRoutes does the work. *)
updateRoutes(f, update, table, dirty, useDeleteDelay, signals) ==
  LET delayed == useDeleteDelay /\ delayedDeletionEnabled
      deletes == IF delayed THEN {} ELSE update.toDelete
  IN  IF IsEmpty(update) \/ state' = "SYNCING"
      THEN /\ unicastRoutes' = Apply(table, update)
           /\ dirtyPrefixes' = dirty
           /\ Finish(f, signals)
           /\ UNCHANGED published
      ELSE /\ unicastRoutes' = Apply(table, update)
           /\ dirtyPrefixes' = IF delayed THEN Mark(dirty, update.toDelete, "waiting") ELSE dirty
           /\ IF deletes \cup ToUpdate(update) = {}
              THEN /\ published' = Apply(published, update)
                   /\ Finish(f, signals)
              ELSE /\ Call(f, IF deletes # {} THEN "delete" ELSE "add", update, EmptyTable)
                   /\ retrySignals' = signals
                   /\ UNCHANGED <<retryTimer, published>>

(* syncRoutes with the lock, up to its call. *)
syncRoutes(signals) ==
  /\ Call("retry", "sync", createUpdate, unicastRoutes)
  /\ dirtyPrefixes' = dirtyAfterCreateUpdate
  /\ retrySignals' = signals
  /\ UNCHANGED <<unicastRoutes, retryTimer, published>>

(* updateRoutes without an update to program: whatever is due. *)
retryDirty(signals) ==
  updateRoutes("retry", createUpdate, unicastRoutes, dirtyAfterCreateUpdate, FALSE, signals)

-----------------------------------------------------------------------------
Idle(f) == want[f] = NoRequest /\ (op = NoOp \/ lock # f)

(* The updates Decision may send: deletions are of routes it has sent before. *)
DecisionUpdates ==
  {u \in [type : {"INCREMENTAL"}, toUpdate : Table, toDelete : SUBSET Prefixes] :
     /\ u.toDelete \cap ToUpdate(u) = {}
     /\ \A p \in u.toDelete : rib[p] # NoRoute}

(* processDecisionRouteUpdate: the state changes before the lock is taken. *)
ProcessDecisionRouteUpdate(update) ==
  LET table == IF state = "AWAITING" THEN EmptyTable ELSE unicastRoutes
  IN  /\ Idle("update")
      /\ updates < MaxUpdates
      /\ updates' = updates + 1
      /\ rib' = Apply(rib, update)
      /\ state' = transitionRouteState(state, "RIB_UPDATE")
      /\ IF lock = "free"
         THEN /\ updateRoutes("update", update, table, dirtyPrefixes, TRUE, retrySignals)
              /\ UNCHANGED want
         ELSE /\ want' = [want EXCEPT !["update"] = [kind |-> "update", update |-> update]]
              /\ unicastRoutes' = table
              /\ UNCHANGED <<dirtyPrefixes, lock, op, retrySignals, retryTimer, published>>
      /\ UNCHANGED <<delayedDeletionEnabled, isInitialSynced, latestAliveSince, agent, aliveSince,
                     resyncs, failures>>

(* retryRoutes: what to do is decided before the lock is taken. *)
RetryRoutes ==
  /\ Idle("retry")
  /\ retrySignals > 0
  /\ state' = state
  /\ IF lock = "free"
     THEN /\ IF state = "SYNCING" THEN syncRoutes(retrySignals - 1) ELSE retryDirty(retrySignals - 1)
          /\ UNCHANGED want
     ELSE /\ want' = [want EXCEPT !["retry"] =
                        [kind |-> IF state = "SYNCING" THEN "sync" ELSE "retry", update |-> NoUpdate]]
          /\ retrySignals' = retrySignals - 1
          /\ UNCHANGED <<unicastRoutes, dirtyPrefixes, lock, op, retryTimer, published>>
  /\ UNCHANGED <<delayedDeletionEnabled, rib, isInitialSynced, latestAliveSince, agent, aliveSince,
                 resyncs, updates, failures>>

(* A fiber that waited goes on with the lock. *)
Resume(f) ==
  /\ lock = f /\ want[f] # NoRequest
  /\ want' = [want EXCEPT ![f] = NoRequest]
  /\ state' = state
  /\ \/ /\ want[f].kind = "update"
        /\ updateRoutes(f, want[f].update, unicastRoutes, dirtyPrefixes, TRUE, retrySignals)
     \/ want[f].kind = "retry" /\ retryDirty(retrySignals)
     \/ want[f].kind = "sync" /\ syncRoutes(retrySignals)
  /\ UNCHANGED <<delayedDeletionEnabled, rib, isInitialSynced, latestAliveSince, agent, aliveSince,
                 resyncs, updates, failures>>

-----------------------------------------------------------------------------
(* How a call ends: no error, an error for some prefixes, or an exception. *)
Connected == op.to = aliveSince

Count ==
  /\ failures < MaxFailures
  /\ failures' = failures + 1

Fails == IF Connected THEN Count ELSE UNCHANGED failures

(* What a call that failed as a whole may have left in the agent. *)
Unclear(table) == IF Connected THEN {agent, table} ELSE {agent}

(* updateUnicastRoutes: after the deletions come the additions, if any. *)
AfterDelete ==
  IF ToUpdate(op.update) # {}
  THEN Call(lock, "add", op.update, EmptyTable) /\ UNCHANGED <<retrySignals, retryTimer, published>>
  ELSE Publish(lock, op.update)

DeleteUnicastRoutes ==
  LET table == Only(agent, Prefixes \ op.update.toDelete)
  IN  /\ op.call = "delete"
      /\ \/ /\ Connected
            /\ agent' = table
            /\ UNCHANGED <<dirtyPrefixes, failures>>
         \/ /\ Fails
            /\ agent' \in Unclear(table)
            /\ dirtyPrefixes' = Mark(dirtyPrefixes, op.update.toDelete, "waiting")
      /\ state' = state
      /\ AfterDelete
      /\ UNCHANGED <<delayedDeletionEnabled, rib, unicastRoutes, isInitialSynced, want,
                     latestAliveSince, aliveSince, resyncs, updates>>

(* Mutant: routes are not marked when the call as a whole failed. *)
AddUnicastRoutes_NotDirty ==
  LET adds == ToUpdate(op.update)
      table(S) == [p \in Prefixes |-> IF p \in S THEN op.update.toUpdate[p] ELSE agent[p]]
  IN  /\ op.call = "add"
      /\ state' = state
      /\ \/ /\ Connected
            /\ agent' = table(adds)
            /\ UNCHANGED <<dirtyPrefixes, failures>>
            /\ Publish(lock, op.update)
         \/ \E failed \in SUBSET adds \ {{}} :
              /\ Connected /\ Fails
              /\ agent' = table(adds \ failed)
              /\ dirtyPrefixes' = Mark(dirtyPrefixes, failed, "waiting")
              /\ Publish(lock, processFibUpdateError(op.update, failed))
         \/ /\ Fails
            /\ agent' \in Unclear(table(adds))
            /\ UNCHANGED dirtyPrefixes
            /\ Publish(lock, processFibUpdateError(op.update, adds))
      /\ UNCHANGED <<delayedDeletionEnabled, rib, unicastRoutes, isInitialSynced, want,
                     latestAliveSince, aliveSince, resyncs, updates>>

AddUnicastRoutes ==
  LET adds == ToUpdate(op.update)
      table(S) == [p \in Prefixes |-> IF p \in S THEN op.update.toUpdate[p] ELSE agent[p]]
  IN  /\ op.call = "add"
      /\ state' = state
      /\ \/ /\ Connected
            /\ agent' = table(adds)
            /\ UNCHANGED <<dirtyPrefixes, failures>>
            /\ Publish(lock, op.update)
         \/ \E failed \in SUBSET adds \ {{}} :
              /\ Connected /\ Fails
              /\ agent' = table(adds \ failed)
              /\ dirtyPrefixes' = Mark(dirtyPrefixes, failed, "waiting")
              /\ Publish(lock, processFibUpdateError(op.update, failed))
         \/ /\ Fails
            /\ agent' \in Unclear(table(adds))
            /\ dirtyPrefixes' = Mark(dirtyPrefixes, adds, "waiting")
            /\ Publish(lock, processFibUpdateError(op.update, adds))
      /\ UNCHANGED <<delayedDeletionEnabled, rib, unicastRoutes, isInitialSynced, want,
                     latestAliveSince, aliveSince, resyncs, updates>>

(* A sync that succeeded, perhaps but for some routes. *)
FibSynced(update) ==
  /\ state' = transitionRouteState(state, "FIB_SYNCED")
  /\ isInitialSynced' = TRUE
  /\ Publish("retry", update)

(* syncFib replaces the agent's table; an exception leaves Fib in SYNCING. *)
SyncFib ==
  /\ op.call = "sync"
  /\ \/ /\ Connected
        /\ agent' = op.table
        /\ UNCHANGED <<dirtyPrefixes, failures>>
        /\ FibSynced(op.update)
     \/ \E failed \in SUBSET {p \in Prefixes : agent[p] # op.table[p]} \ {{}} :
          /\ Connected /\ Fails
          /\ agent' = [p \in Prefixes |-> IF p \in failed THEN agent[p] ELSE op.table[p]]
          /\ dirtyPrefixes' = Mark(dirtyPrefixes, failed, "waiting")
          /\ FibSynced(processFibUpdateError(op.update, {p \in failed : op.table[p] # NoRoute}))
     \/ /\ Fails
        /\ agent' \in Unclear(op.table)
        /\ state' = state
        /\ UNCHANGED <<dirtyPrefixes, isInitialSynced, published>>
        /\ Finish("retry", retrySignals)
  /\ UNCHANGED <<delayedDeletionEnabled, rib, unicastRoutes, want, latestAliveSince, aliveSince,
                 resyncs, updates>>

-----------------------------------------------------------------------------
(* keepAlive; seen = 0: the agent could not be asked. *)
KeepAlive(seen) ==
  LET reconnect == latestAliveSince # 0 /\ seen # latestAliveSince
  IN  /\ seen = 0 => Count
      /\ seen # 0 => UNCHANGED failures
      /\ latestAliveSince' = seen
      /\ state' = IF reconnect THEN transitionRouteState(state, "FIB_CONNECTED") ELSE state
      /\ retrySignals' = IF reconnect THEN retrySignals + 1 ELSE retrySignals
      /\ resyncs' = IF state = "SYNCED" /\ state' = "SYNCING" THEN resyncs + 1 ELSE resyncs
      /\ UNCHANGED <<delayedDeletionEnabled, rib, unicastRoutes, dirtyPrefixes, isInitialSynced,
                     lock, want, op, retryTimer, agent, aliveSince, published, updates>>

(* Mutant: the time dirty prefixes are due is not looked at. *)
RetryTimeout_SyncOnly ==
  /\ retryTimer
  /\ state = "SYNCING" \/ ~needsRetry(state, dirtyPrefixes)
  /\ retryTimer' = FALSE
  /\ retrySignals' = retrySignals + 1
  /\ UNCHANGED <<delayedDeletionEnabled, rib, routeState, lock, want, op, latestAliveSince, agent,
                 aliveSince, published, resyncs, updates, failures>>

(* nextRetryDuration: in SYNCING the backoff, else the time the first prefix is due. *)
RetryTimeout ==
  /\ retryTimer
  /\ state = "SYNCING" \/ Due # {} \/ ~needsRetry(state, dirtyPrefixes)
  /\ retryTimer' = FALSE
  /\ retrySignals' = retrySignals + 1
  /\ UNCHANGED <<delayedDeletionEnabled, rib, routeState, lock, want, op, latestAliveSince, agent,
                 aliveSince, published, resyncs, updates, failures>>

(* The backoff or the deletion delay of a prefix has passed. *)
BecomeDue(p) ==
  /\ dirtyPrefixes[p] = "waiting"
  /\ dirtyPrefixes' = [dirtyPrefixes EXCEPT ![p] = "due"]
  /\ UNCHANGED <<delayedDeletionEnabled, rib, unicastRoutes, state, isInitialSynced, lock, want, op,
                 retrySignals, retryTimer, latestAliveSince, agent, aliveSince, published, resyncs,
                 updates, failures>>

AgentRestart ==
  /\ aliveSince <= MaxRestarts
  /\ RestartAnyTime \/ latestAliveSince # 0
  /\ aliveSince' = aliveSince + 1
  /\ agent' = EmptyTable
  /\ UNCHANGED <<delayedDeletionEnabled, rib, routeState, lock, want, op, retrySignals, retryTimer,
                 latestAliveSince, published, resyncs, updates, failures>>

Next ==
  \/ \E update \in DecisionUpdates : ProcessDecisionRouteUpdate(update)
  \/ RetryRoutes
  \/ \E f \in Fibers : Resume(f)
  \/ DeleteUnicastRoutes
  \/ AddUnicastRoutes
  \/ SyncFib
  \/ \E seen \in {0, aliveSince} : KeepAlive(seen)
  \/ RetryTimeout
  \/ \E p \in Prefixes : BecomeDue(p)
  \/ AgentRestart

Spec == Init /\ [][Next]_vars

(***************************************************************************)
(* Every fiber that can run runs in the end, timers fire, calls end, and   *)
(* the agent is asked for its aliveSince again and again.                  *)
(***************************************************************************)
FairSpec ==
  /\ Spec
  /\ WF_vars(RetryRoutes)
  /\ \A f \in Fibers : WF_vars(Resume(f))
  /\ WF_vars(DeleteUnicastRoutes) /\ WF_vars(AddUnicastRoutes) /\ WF_vars(SyncFib)
  /\ WF_vars(KeepAlive(aliveSince))
  /\ WF_vars(RetryTimeout)
  /\ \A p \in Prefixes : WF_vars(BecomeDue(p))

-----------------------------------------------------------------------------
(* Nothing is under way and every restart of the agent has been noticed. *)
Settled == state = "SYNCED" /\ op = NoOp /\ latestAliveSince \in {0, aliveSince}

(***************************************************************************)
(* updateRoutes, syncRoutes, retryRoutes: once Fib is synced, the agent    *)
(* has for every prefix the route of routeState_, or none if there is      *)
(* none, unless the prefix is marked dirty, whatever calls failed, wholly  *)
(* or for some prefixes, and whichever fiber made them.                    *)
(***************************************************************************)
ProgrammedOrDirty ==
  Settled => \A p \in Prefixes : dirtyPrefixes[p] = "clean" => agent[p] = unicastRoutes[p]

(***************************************************************************)
(* retryRoutesTask, processDecisionRouteUpdate, keepAlive: while routes    *)
(* need programming (needsRetry), a fiber is at work, the retry fiber has  *)
(* been signalled or its timer is running.                                 *)
(***************************************************************************)
NoLostWakeup ==
  needsRetry(state, dirtyPrefixes) =>
    retrySignals > 0 \/ retryTimer \/ lock # "free"

(***************************************************************************)
(* transitionRouteState (CHECK: "Next state is 'UNDEFINED'"): when a sync  *)
(* ends, Fib is still in SYNCING, although updates and reconnects change   *)
(* the state without taking the lock.                                      *)
(***************************************************************************)
SyncEndsInSyncing == op.call = "sync" => state = "SYNCING"

(***************************************************************************)
(* Fib.h: "FIB publishes the updates after successful programming".  A     *)
(* route is published as programmed only in the step in which the agent    *)
(* confirms it.                                                            *)
(***************************************************************************)
PublishedWasConfirmed ==
  [][\A p \in Prefixes :
       published'[p] # published[p] /\ published'[p] # NoRoute => agent'[p] = published'[p]]_vars

(***************************************************************************)
(* Fib.h: "FIB publishes the updates after successful programming".  What  *)
(* readers of fibRouteUpdatesQueue_ (PrefixManager) were told is what is   *)
(* programmed, but for dirty prefixes.                                     *)
(***************************************************************************)
PublishedIsProgrammed ==
  Settled => \A p \in Prefixes : dirtyPrefixes[p] = "clean" => published[p] = unicastRoutes[p]

(***************************************************************************)
(* updateRoutes, syncRoutes: the same, as long as the agent has not been   *)
(* lost or restarted since the first sync.                                 *)
(***************************************************************************)
PublishedUntilResync == resyncs = 0 => PublishedIsProgrammed

(***************************************************************************)
(* Fib.h: "It'll take care of re-programming routes under the failure      *)
(* cases".  When Decision, the agent and the network come to rest, the     *)
(* agent ends up with the routes of Decision and no others.                *)
(***************************************************************************)
EventuallyProgrammed == <>[](updates > 0 => agent = rib)

=============================================================================
