----------------------------- MODULE PeerIngress ------------------------------
(***************************************************************************)
(* Backpressure on what KvStore peers send                                 *)
(* (kvstore/KvStorePeerIngressLimit.{h,cpp}).  The bytes of a peer's        *)
(* requests are counted while they wait for the Thrift CPU worker (queued)  *)
(* and until KvStore has merged them (pending merge); above a limit a       *)
(* connection whose peer holds more than its share is not read any more,    *)
(* and is read again when the bytes have dropped, after a while, or when    *)
(* the server stops.                                                        *)
(*                                                                         *)
(* Threads: an IO thread per connection, the CPU worker, the KvStore        *)
(* thread and the one that stops the server.  A step is one section under   *)
(* the peerBytes_ or the pausedConnections_ lock, or one update or test of  *)
(* the atomics; igPc says where a thread is in between.  Rocket and the     *)
(* request pile are external: pause() stops the reading of a connection and *)
(* resume() turns it on again, whatever else holds a pause.                 *)
(***************************************************************************)
EXTENDS Integers, FiniteSets, Sequences, FiniteSetsExt

CONSTANTS
  Connections, IngressPeers,
  NoPeer,          \* a connection whose sender is not known yet
  Worker, KvStoreThread, MainThread,
  IngressScenes    \* [sender : connection -> peer, pauseAbove, resumeBelow,
                   \*   queuedLimit, sizes of a request, and the bounds: requests
                   \*   read, pauses begun, whether the server stops]

ASSUME ScenesAssumption ==
  \A s \in IngressScenes :
    /\ s.sender \in [Connections -> IngressPeers] /\ s.queuedLimit \in Nat \ {0}
    /\ s.sizes \subseteq Nat /\ IsFiniteSet(s.sizes) /\ s.sizes # {}
    /\ s.pauseAbove \in Int /\ s.resumeBelow \in Int /\ s.resumeBelow <= s.pauseAbove

ASSUME PeersAssumption ==
  IsFiniteSet(Connections) /\ IsFiniteSet(IngressPeers) /\ NoPeer \notin IngressPeers

ASSUME ThreadsAssumption ==
  /\ {Worker, KvStoreThread, MainThread} \cap Connections = {}
  /\ Worker # KvStoreThread /\ MainThread # KvStoreThread /\ Worker # MainThread

VARIABLES
  igScene,
  igBooks,      \* peerBytes_ and the slots: [sender, queued (per connection),
                \*   held, pending (per peer), unknown]
  igPending,    \* openrIngressKvStorePendingMergeGlobalBytes_
  igQueued,     \* openrIngressKvStoreQueuedGlobalBytes_
  igStopped,    \* isPausingStopped_
  igPaused,     \* pausedConnections_: [id, conn]
  igNextId,     \* nextPauseId_
  igTimers,     \* maxPauseDuration timers: [id, conn]
  igPosted,     \* resumes posted to the connections' event bases
  igReading,    \* connection -> Rocket reads it
  igPile,       \* connection -> sizes of its requests waiting for the worker
  igMerges,     \* requests waiting for the KvStore thread: [peer, bytes]
  igPc,         \* thread -> [at, conn, bytes]
  igRequests

igVars == <<igScene, igBooks, igPending, igQueued, igStopped, igPaused, igNextId,
            igTimers, igPosted, igReading, igPile, igMerges, igPc, igRequests>>

IngressThreads == Connections \cup {Worker, KvStoreThread, MainThread}
Idle == [at |-> "idle", conn |-> NoPeer, bytes |-> 0]
At(t, where) == igPc[t].at = where
Go(t, where) == igPc' = [igPc EXCEPT ![t].at = where]
Rest(t) == igPc' = [igPc EXCEPT ![t] = Idle]

(***************************************************************************)
(* PeerBytes                                                               *)
(***************************************************************************)
addQueuedBytes(b, c, before, bytes) ==
  IF bytes = 0 THEN b
  ELSE IF b.sender[c] # NoPeer THEN [b EXCEPT !.held[b.sender[c]] = @ + bytes]
  ELSE IF before = 0 THEN [b EXCEPT !.unknown = @ + 1]
  ELSE b

releaseQueuedBytes(b, c, before, bytes) ==
  IF bytes = 0 THEN b
  ELSE IF b.sender[c] # NoPeer
  THEN [b EXCEPT !.held[b.sender[c]] = @ - Min({bytes, @})]
  ELSE IF before = bytes THEN [b EXCEPT !.unknown = @ - 1]
  ELSE b

getNumPeersHoldingBytes(b) ==
  Cardinality({p \in IngressPeers : b.held[p] > 0}) + b.unknown

isOverFairShare(b, c) ==
  LET held == IF b.sender[c] = NoPeer THEN b.queued[c] ELSE b.held[b.sender[c]]
  IN  held > 0 /\ held > igScene.pauseAbove \div getNumPeersHoldingBytes(b)

\* Mutant: the queued bytes do not move with the connection.
recordSenderId_BytesStay(b, c, p) == [b EXCEPT !.sender[c] = p]

recordSenderId(b, c, p) ==
  IF b.sender[c] = p THEN b
  ELSE LET freed == releaseQueuedBytes(b, c, b.queued[c], b.queued[c])
       IN  addQueuedBytes([freed EXCEPT !.sender[c] = p], c, 0, b.queued[c])

HeldGlobally == igPending + igQueued

(***************************************************************************)
(* Steps                                                                   *)
(***************************************************************************)
IngressInit ==
  /\ igScene \in IngressScenes
  /\ igBooks = [sender |-> [c \in Connections |-> NoPeer],
                queued |-> [c \in Connections |-> 0],
                held |-> [p \in IngressPeers |-> 0],
                pending |-> [p \in IngressPeers |-> 0], unknown |-> 0]
  /\ igPending = 0 /\ igQueued = 0 /\ igStopped = FALSE
  /\ igPaused = {} /\ igNextId = 0 /\ igTimers = {} /\ igPosted = {}
  /\ igReading = [c \in Connections |-> TRUE]
  /\ igPile = [c \in Connections |-> <<>>] /\ igMerges = <<>>
  /\ igPc = [t \in IngressThreads |-> Idle]
  /\ igRequests = 0

igPauses == <<igStopped, igPaused, igNextId, igTimers, igPosted, igReading>>
igTotals == <<igPending, igQueued>>
igWork   == <<igPile, igMerges>>

\* The pile's filter: the request is counted, or rejected when its peer has
\* already reached the limit.
admitOpenrIngressKvStoreQueuedRequest(c, bytes) ==
  /\ At(c, "idle") /\ igReading[c] /\ igRequests < igScene.requests
  /\ igRequests' = igRequests + 1
  /\ IF igBooks.queued[c] >= igScene.queuedLimit
     THEN UNCHANGED <<igBooks, igPc>>
     ELSE /\ igBooks' = [addQueuedBytes(igBooks, c, igBooks.queued[c], bytes)
                           EXCEPT !.queued[c] = @ + bytes]
          /\ igPc' = [igPc EXCEPT ![c] = [at |-> "admitted", conn |-> c,
                                          bytes |-> bytes]]
  /\ UNCHANGED <<igScene, igTotals, igPauses, igWork>>

\* The admitted request enters the total, then the pile.
Enqueue(c) ==
  /\ At(c, "admitted")
  /\ igQueued' = igQueued + igPc[c].bytes
  /\ igPile' = [igPile EXCEPT ![c] = Append(@, igPc[c].bytes)]
  /\ Rest(c)
  /\ UNCHANGED <<igScene, igBooks, igPending, igPauses, igMerges, igRequests>>

\* The worker takes a request: the dequeue observer releases its bytes.
releaseOpenrIngressKvStoreQueuedRequest(c) ==
  LET bytes == Head(igPile[c])
  IN  /\ At(Worker, "idle") /\ igPile[c] # <<>>
      /\ igPile' = [igPile EXCEPT ![c] = Tail(@)]
      /\ igBooks' = [releaseQueuedBytes(igBooks, c, igBooks.queued[c], bytes)
                       EXCEPT !.queued[c] = @ - bytes]
      /\ igPc' = [igPc EXCEPT ![Worker] = [at |-> "released", conn |-> c,
                                           bytes |-> bytes]]
      /\ UNCHANGED <<igScene, igTotals, igPauses, igMerges, igRequests>>

\* The worker or the KvStore thread lowers the total its bytes are part of.
Subtract(t) ==
  /\ At(t, "released")
  /\ IF t = Worker
     THEN igQueued' = igQueued - igPc[t].bytes /\ UNCHANGED igPending
     ELSE igPending' = igPending - igPc[t].bytes /\ UNCHANGED igQueued
  /\ Go(t, "check")
  /\ UNCHANGED <<igScene, igBooks, igPauses, igWork, igRequests>>

\* Where a thread goes once it has resumed the connections, or need not.
AfterResume(t) == IF t = Worker THEN Go(t, "handle") ELSE Rest(t)

resumeAllIfBelowResumeBelowGlobalBytes(t) ==
  /\ At(t, "check")
  /\ IF HeldGlobally < igScene.resumeBelow /\ igPaused # {}
     THEN Go(t, "resume") ELSE AfterResume(t)
  /\ UNCHANGED <<igScene, igBooks, igTotals, igPauses, igWork, igRequests>>

resumeAll(t) ==
  /\ At(t, "resume")
  /\ igPaused' = {}
  /\ igPosted' = igPosted \cup igPaused
  /\ AfterResume(t)
  /\ UNCHANGED <<igScene, igBooks, igTotals, igStopped, igNextId, igTimers,
                 igReading, igWork, igRequests>>

\* The handler learns the sender; a request that expired has no handler.
HandleRequest ==
  /\ At(Worker, "handle")
  /\ \/ /\ LET c == igPc[Worker].conn
           IN  igBooks' = recordSenderId(igBooks, c, igScene.sender[c])
        /\ Go(Worker, "track")
     \/ /\ Rest(Worker)
        /\ UNCHANGED igBooks
  /\ UNCHANGED <<igScene, igTotals, igPauses, igWork, igRequests>>

\* The guard's constructor, in two steps.
addOpenrIngressKvStorePendingMergeBytes ==
  LET p == igScene.sender[igPc[Worker].conn]
      bytes == igPc[Worker].bytes
  IN  \/ /\ At(Worker, "track")
         /\ igBooks' = [igBooks EXCEPT !.pending[p] = @ + bytes,
                                       !.held[p] = @ + bytes]
         /\ Go(Worker, "tracked")
         /\ UNCHANGED <<igScene, igTotals, igPauses, igWork, igRequests>>
      \/ /\ At(Worker, "tracked")
         /\ igPending' = igPending + bytes
         /\ igMerges' = Append(igMerges, [peer |-> p, bytes |-> bytes])
         /\ Rest(Worker)
         /\ UNCHANGED <<igScene, igBooks, igQueued, igPauses, igPile, igRequests>>

\* The guard's destructor, once KvStore has merged the request.
releaseOpenrIngressKvStorePendingMergeBytes ==
  LET m == Head(igMerges)
      released == Min({m.bytes, igBooks.pending[m.peer]})
  IN  /\ At(KvStoreThread, "idle") /\ igMerges # <<>>
      /\ igMerges' = Tail(igMerges)
      /\ igBooks' = [igBooks EXCEPT !.pending[m.peer] = @ - released,
                                    !.held[m.peer] = @ - Min({released, @})]
      /\ igPc' = [igPc EXCEPT ![KvStoreThread] =
                    [at |-> "released", conn |-> NoPeer, bytes |-> released]]
      /\ UNCHANGED <<igScene, igTotals, igPauses, igPile, igRequests>>

\* The connection's writes have drained: is it to be paused?
onWriteQuiescence(c) ==
  /\ At(c, "idle")
  /\ ~igStopped
  /\ HeldGlobally > igScene.pauseAbove
  /\ isOverFairShare(igBooks, c)
  /\ igNextId < igScene.pauses
  /\ Go(c, "pause")
  /\ UNCHANGED <<igScene, igBooks, igTotals, igPauses, igWork, igRequests>>

\* Under the pausedConnections_ lock: each connection at most once.
PauseConnection(c) ==
  LET pause == [id |-> igNextId, conn |-> c]
  IN  /\ At(c, "pause")
      /\ igNextId' = igNextId + 1
      /\ IF \E p \in igPaused : p.conn = c
         THEN /\ Rest(c)
              /\ UNCHANGED <<igPaused, igReading, igTimers>>
         ELSE /\ igPaused' = igPaused \cup {pause}
              /\ igReading' = [igReading EXCEPT ![c] = FALSE]
              /\ igTimers' = igTimers \cup {pause}
              /\ Go(c, "recheck")
      /\ UNCHANGED <<igScene, igBooks, igTotals, igStopped, igPosted, igWork,
                     igRequests>>

\* Mutant: a pause is not rechecked.
Recheck_None(c) ==
  /\ At(c, "recheck")
  /\ Rest(c)
  /\ UNCHANGED <<igScene, igBooks, igTotals, igPauses, igWork, igRequests>>

\* The bytes may have dropped, or stopPausing run, before the connection
\* was in the list: nothing else would resume it then.
Recheck(c) ==
  /\ At(c, "recheck")
  /\ IF igStopped THEN Go(c, "resume") ELSE Go(c, "check")
  /\ UNCHANGED <<igScene, igBooks, igTotals, igPauses, igWork, igRequests>>

\* The timer of one pause: a later pause of the connection is not its own.
resume(c) ==
  /\ At(c, "idle")
  /\ \E pause \in igTimers :
       /\ pause.conn = c
       /\ igTimers' = igTimers \ {pause}
       /\ igPaused' = igPaused \ {pause}
       /\ igPosted' = igPosted \cup (igPaused \cap {pause})
  /\ UNCHANGED <<igScene, igBooks, igTotals, igStopped, igNextId, igReading,
                 igWork, igPc, igRequests>>

\* The posted resume runs on the connection's event base.
resumeOnEventBase(c) ==
  /\ At(c, "idle")
  /\ \E pause \in igPosted : pause.conn = c /\ igPosted' = igPosted \ {pause}
  /\ igReading' = [igReading EXCEPT ![c] = TRUE]
  /\ UNCHANGED <<igScene, igBooks, igTotals, igStopped, igPaused, igNextId,
                 igTimers, igWork, igPc, igRequests>>

stopPausing ==
  /\ At(MainThread, "idle") /\ ~igStopped /\ igScene.stops
  /\ igStopped' = TRUE
  /\ Go(MainThread, "resume")
  /\ UNCHANGED <<igScene, igBooks, igTotals, igPaused, igNextId, igTimers,
                 igPosted, igReading, igWork, igRequests>>

IngressNext ==
  \/ \E c \in Connections :
       \/ \E b \in igScene.sizes : admitOpenrIngressKvStoreQueuedRequest(c, b)
       \/ Enqueue(c)
       \/ releaseOpenrIngressKvStoreQueuedRequest(c)
       \/ onWriteQuiescence(c) \/ PauseConnection(c) \/ Recheck(c)
       \/ resume(c) \/ resumeOnEventBase(c)
  \/ \E t \in IngressThreads :
       Subtract(t) \/ resumeAllIfBelowResumeBelowGlobalBytes(t) \/ resumeAll(t)
  \/ HandleRequest
  \/ addOpenrIngressKvStorePendingMergeBytes
  \/ releaseOpenrIngressKvStorePendingMergeBytes
  \/ stopPausing

IngressSpec == IngressInit /\ [][IngressNext]_igVars

(***************************************************************************)
(* Properties                                                              *)
(***************************************************************************)
\* Types; the unsigned totals and counts never wrap below zero.
IngressTypeOK ==
  LET Pauses == [id : 0 .. igNextId - 1, conn : Connections]
  IN  /\ igBooks \in [sender : [Connections -> IngressPeers \cup {NoPeer}],
                      queued : [Connections -> Nat], held : [IngressPeers -> Nat],
                      pending : [IngressPeers -> Nat], unknown : Nat]
      /\ igPending \in Nat /\ igQueued \in Nat
      /\ igNextId \in Nat /\ igPaused \cup igTimers \cup igPosted \subseteq Pauses
      /\ igStopped \in BOOLEAN /\ igReading \in [Connections -> BOOLEAN]

\* The sum of what f gives for the members of S.
SumOver(f, S) == MapThenSumSet(LAMBDA x : f[x], S)

\* Under the lock the books agree: what a peer holds is its pending bytes and
\* what its connections have queued, and the connections of unknown senders
\* that hold bytes are as many as are counted, whatever requests arrive while
\* a sender is being recorded.  With all threads at rest the totals are the
\* sums of the books.
BooksBalance ==
  /\ \A p \in IngressPeers :
       igBooks.held[p] = igBooks.pending[p] +
         SumOver(igBooks.queued, {c \in Connections : igBooks.sender[c] = p})
  /\ igBooks.unknown = Cardinality({c \in Connections :
         igBooks.sender[c] = NoPeer /\ igBooks.queued[c] > 0})
  /\ (\A t \in IngressThreads : At(t, "idle")) =>
       /\ igPending = SumOver(igBooks.pending, IngressPeers)
       /\ igQueued = SumOver(igBooks.queued, Connections)

\* A connection that is not read is in the list or its resume is posted.
UnreadWillBeRead ==
  \A c \in Connections :
    ~igReading[c] => \E p \in igPaused \cup igPosted : p.conn = c

\* Once the threads rest, a connection stays in the list only while the bytes
\* are at or above the lower limit and the server is not stopping: the pause
\* that raced with the drop, or with stopPausing, is undone by its own
\* recheck and need not wait for its timer.
NobodyLeftPaused ==
  /\ \A t \in IngressThreads : At(t, "idle")
  /\ igStopped \/ HeldGlobally < igScene.resumeBelow
  => igPaused = {}

\* A connection's queue never exceeds its limit by more than one request.
QueueStaysWithinLimit ==
  \A c \in Connections :
    igBooks.queued[c] < igScene.queuedLimit + Max(igScene.sizes)

\* Whatever the threads interleave, the books balance under the lock, a queue keeps to its
\* limit and a connection that is not read will be (KvStorePeerIngressLimit.cpp).
IngressInvariant ==
  /\ IngressTypeOK
  /\ BooksBalance
  /\ UnreadWillBeRead
  /\ QueueStaysWithinLimit

===============================================================================
