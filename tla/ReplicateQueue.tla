----------------------------- MODULE ReplicateQueue -----------------------------
(***************************************************************************)
(* The queue that copies every message to all its readers:                 *)
(* openr/messaging/ReplicateQueue-inl.h, whose shape DispatcherQueue::push *)
(* shares.  push copies the list of readers under the lock and hands the   *)
(* message to them one by one without it, so other writers, new readers,   *)
(* destructed readers and close() come in between.                         *)
(***************************************************************************)
EXTENDS Integers, Sequences, SequencesExt, FiniteSets

CONSTANTS QueueWriters, QueueReaders, MaxPushes

ASSUME PushesAssumption == MaxPushes \in Nat

VARIABLES rqReaders,    \* readers_, in order
          rqHolders,    \* readers whose owner still holds the RQueue
          rqEver,       \* readers ever created
          rqCopies,     \* [writer -> the readers its push in progress copied]
          rqNext,       \* [writer -> the position in rqCopies it pushes to next; 0 when no push is in progress]
          rqSent,       \* [writer -> messages it began to push]
          rqBox,        \* [reader -> [open, got: messages <<writer, number>> in arrival order]]
          rqJoined,     \* [reader -> [writer -> messages begun before the reader joined]]
          rqClosed      \* closed_

rqVars == <<rqReaders, rqHolders, rqEver, rqCopies, rqNext, rqSent, rqBox, rqJoined, rqClosed>>

(* shared_ptr::use_count: the list, the owner and the copies of pushes in progress. *)
useCount(r) ==
  1 + (IF r \in rqHolders THEN 1 ELSE 0) + Cardinality({w \in QueueWriters : r \in Range(rqCopies[w])})
Stale(r) == useCount(r) = 1

(* Readers nobody uses are closed and erased. *)
Kept == SelectSeq(rqReaders, LAMBDA r : ~Stale(r))
BoxesAfterPrune == [r \in QueueReaders |->
  IF r \in Range(rqReaders) /\ Stale(r) THEN [rqBox[r] EXCEPT !.open = FALSE] ELSE rqBox[r]]

ReplicateInit ==
  /\ rqReaders = <<>> /\ rqHolders = {} /\ rqEver = {} /\ rqClosed = FALSE
  /\ rqCopies = [w \in QueueWriters |-> <<>>] /\ rqNext = [w \in QueueWriters |-> 0]
  /\ rqSent = [w \in QueueWriters |-> 0]
  /\ rqBox = [r \in QueueReaders |-> [open |-> FALSE, got |-> <<>>]]
  /\ rqJoined = [r \in QueueReaders |-> [w \in QueueWriters |-> 0]]

getReader(r) ==
  /\ ~rqClosed /\ r \notin rqEver
  /\ rqReaders' = Append(rqReaders, r)
  /\ rqHolders' = rqHolders \cup {r} /\ rqEver' = rqEver \cup {r}
  /\ rqBox' = [rqBox EXCEPT ![r].open = TRUE]
  /\ rqJoined' = [rqJoined EXCEPT ![r] = rqSent]
  /\ UNCHANGED <<rqCopies, rqNext, rqSent, rqClosed>>

DestructReader(r) ==
  /\ r \in rqHolders
  /\ rqHolders' = rqHolders \ {r}
  /\ UNCHANGED <<rqReaders, rqEver, rqCopies, rqNext, rqSent, rqBox, rqJoined, rqClosed>>

PushBegins(w) ==
  /\ rqNext[w] = 0 /\ ~rqClosed /\ rqSent[w] < MaxPushes
  /\ rqReaders' = Kept /\ rqBox' = BoxesAfterPrune
  /\ rqCopies' = [rqCopies EXCEPT ![w] = Kept]
  /\ rqNext' = [rqNext EXCEPT ![w] = 1]
  /\ rqSent' = [rqSent EXCEPT ![w] = @ + 1]
  /\ UNCHANGED <<rqHolders, rqEver, rqJoined, rqClosed>>

(* One reader's push, which a closed reader refuses; the copies go when the push returns. *)
PushNext_LiveList(w) ==
  /\ rqNext[w] \in 1..Len(rqReaders)
  /\ LET r == rqReaders[rqNext[w]]
     IN rqBox' = IF rqBox[r].open THEN [rqBox EXCEPT ![r].got = Append(@, <<w, rqSent[w]>>)] ELSE rqBox
  /\ rqNext' = [rqNext EXCEPT ![w] = @ + 1]
  /\ UNCHANGED <<rqReaders, rqHolders, rqEver, rqCopies, rqSent, rqJoined, rqClosed>>
PushNext(w) ==
  /\ rqNext[w] \in 1..Len(rqCopies[w])
  /\ LET r == rqCopies[w][rqNext[w]]
     IN rqBox' = IF rqBox[r].open THEN [rqBox EXCEPT ![r].got = Append(@, <<w, rqSent[w]>>)] ELSE rqBox
  /\ rqNext' = [rqNext EXCEPT ![w] = @ + 1]
  /\ UNCHANGED <<rqReaders, rqHolders, rqEver, rqCopies, rqSent, rqJoined, rqClosed>>

PushReturns(w) ==
  /\ rqNext[w] > Len(rqCopies[w])
  /\ rqNext' = [rqNext EXCEPT ![w] = 0]
  /\ rqCopies' = [rqCopies EXCEPT ![w] = <<>>]
  /\ UNCHANGED <<rqReaders, rqHolders, rqEver, rqSent, rqBox, rqJoined, rqClosed>>

(* getNumReaders and getReplicationStats drop stale readers too. *)
getNumReaders ==
  /\ rqReaders' = Kept /\ rqBox' = BoxesAfterPrune
  /\ UNCHANGED <<rqHolders, rqEver, rqCopies, rqNext, rqSent, rqJoined, rqClosed>>

CloseAll ==
  /\ ~rqClosed
  /\ rqClosed' = TRUE /\ rqReaders' = <<>>
  /\ rqBox' = [r \in QueueReaders |->
                IF r \in Range(rqReaders) THEN [rqBox[r] EXCEPT !.open = FALSE] ELSE rqBox[r]]
  /\ UNCHANGED <<rqHolders, rqEver, rqCopies, rqNext, rqSent, rqJoined>>

ReplicateNext ==
  \/ \E r \in QueueReaders : getReader(r) \/ DestructReader(r)
  \/ \E w \in QueueWriters : PushBegins(w) \/ PushNext(w) \/ PushReturns(w)
  \/ getNumReaders \/ CloseAll

ReplicateSpec == ReplicateInit /\ [][ReplicateNext]_rqVars

--------------------------------------------------------------------------------
(* Where the reader is among those the push in progress copied. *)
Position(w, r) == {i \in 1..Len(rqCopies[w]) : rqCopies[w][i] = r}

(* ReplicateQueue::push: what an open reader has of a writer is exactly the messages whose *)
(* push began after it joined, each once and in the writer's order, up to the push in *)
(* progress that has not come to it yet. *)
EveryReaderInOrder ==
  \A r \in QueueReaders, w \in QueueWriters :
    rqBox[r].open =>
      LET due == IF \E i \in Position(w, r) : rqNext[w] <= i THEN rqSent[w] - 1 ELSE rqSent[w]
          got == SelectSeq(rqBox[r].got, LAMBDA m : m[1] = w)
      IN got = [n \in 1..(due - rqJoined[r][w]) |-> <<w, rqJoined[r][w] + n>>]

(* Only a reader whose owner is gone, or all of them together, are ever closed: a push in progress *)
(* keeps the readers it copied, and no reader in use loses its queue. *)
OpenWhileHeld ==
  \A r \in rqEver : ~rqClosed =>
    /\ r \in rqHolders => rqBox[r].open
    /\ \A w \in QueueWriters : r \in Range(rqCopies[w]) => rqBox[r].open
================================================================================
