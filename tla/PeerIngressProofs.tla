--------------------------- MODULE PeerIngressProofs ---------------------------
(***************************************************************************)
(* Proofs about the backpressure on KvStore requests of peers, for any     *)
(* number of connections, peers and requests and whatever the limits:      *)
(* no connection is left paused, and the books of queued and pending       *)
(* bytes always balance.                                                   *)
(***************************************************************************)
EXTENDS PeerIngress, FiniteSetTheorems, TLAPS

(* Most steps are first-order; the ones with arithmetic or records say SMT. *)
USE Zenon

(* The first element of a sequence and the rest of it. *)
LEMMA HeadAndTail ==
  ASSUME NEW S, NEW q \in Seq(S), q # <<>>
  PROVE  Head(q) \in S /\ Tail(q) \in Seq(S)
BY SMT

(***************************************************************************)
(* For every number of connections, peers and requests, and whatever the   *)
(* limits: no connection is left paused.                                   *)
(***************************************************************************)
Places == {"idle", "admitted", "released", "check", "resume", "handle", "track",
           "tracked", "pause", "recheck"}
Books == [sender : [Connections -> IngressPeers \cup {NoPeer}],
          queued : [Connections -> Int], held : [IngressPeers -> Int],
          pending : [IngressPeers -> Nat], unknown : Int]

(* Types, as far as the totals need them. *)
IngressTypes ==
  /\ igScene \in IngressScenes
  /\ igBooks \in Books
  /\ igPending \in Int /\ igQueued \in Int
  /\ igPile \in [Connections -> Seq(Nat)]
  /\ igMerges \in Seq([peer : IngressPeers, bytes : Nat])
  /\ igPc \in [IngressThreads -> [at : Places, conn : Connections \cup {NoPeer},
                                  bytes : Nat]]
  /\ igPc[Worker].at # "idle" => igPc[Worker].conn \in Connections

(* A pause that the drop of the bytes, or the stop, would leave is still in somebody's hand. *)
StopWillResume ==
  igStopped /\ igPaused # {} =>
    \/ At(MainThread, "resume")
    \/ \E c \in Connections : At(c, "recheck") \/ At(c, "resume")
DropWillResume ==
  HeldGlobally < igScene.resumeBelow /\ igPaused # {} =>
    \E t \in IngressThreads : At(t, "recheck") \/ At(t, "check") \/ At(t, "resume")

IngressInv == IngressTypes /\ StopWillResume /\ DropWillResume

--------------------------------------------------------------------------------
(* The smaller of two natural numbers (std::min in the release functions). *)
LEMMA MinOfTwo ==
  ASSUME NEW a \in Int, NEW b \in Int
  PROVE  Min({a, b}) = IF a <= b THEN a ELSE b
<1>1. PICK m \in {a, b} : \A y \in {a, b} : m <= y
  BY SMT
<1>2. \A m1, m2 \in {a, b} : (\A y \in {a, b} : m1 <= y) /\ (\A y \in {a, b} : m2 <= y)
                              => m1 = m2
  BY SMT
<1> QED BY SMT, <1>1, <1>2 DEF Min

(* The functions of PeerBytes keep the books of their type (addQueuedBytes). *)
LEMMA AddType ==
  ASSUME NEW b \in Books, NEW c \in Connections, NEW before \in Int, NEW bytes \in Int
  PROVE  addQueuedBytes(b, c, before, bytes) \in Books
BY SMT DEF addQueuedBytes, Books

(* The same of releaseQueuedBytes. *)
LEMMA ReleaseType ==
  ASSUME NEW b \in Books, NEW c \in Connections, NEW before \in Int, NEW bytes \in Int
  PROVE  releaseQueuedBytes(b, c, before, bytes) \in Books
<1>1. CASE b.sender[c] # NoPeer
  <2>1. b.sender[c] \in IngressPeers /\ b.held[b.sender[c]] \in Int
    BY <1>1 DEF Books
  <2>2. Min({bytes, b.held[b.sender[c]]}) \in Int
    BY <2>1, MinOfTwo
  <2> QED BY SMT, <1>1, <2>1, <2>2 DEF releaseQueuedBytes, Books
<1>2. CASE b.sender[c] = NoPeer
  BY SMT, <1>2 DEF releaseQueuedBytes, Books
<1> QED BY <1>1, <1>2

(* A connection's own count changes with them. *)
LEMMA QueuedType ==
  ASSUME NEW b \in Books, NEW c \in Connections, NEW n \in Int
  PROVE  /\ [b EXCEPT !.queued[c] = @ + n] \in Books
         /\ [b EXCEPT !.queued[c] = @ - n] \in Books
BY SMT DEF Books

(* What is pending changes together with what is held. *)
LEMMA PendingType ==
  ASSUME NEW b \in Books, NEW p \in IngressPeers, NEW x \in Nat, NEW y \in Int
  PROVE  [b EXCEPT !.pending[p] = x, !.held[p] = y] \in Books
BY DEF Books

(* The same of recordSenderId. *)
LEMMA RecordType ==
  ASSUME NEW b \in Books, NEW c \in Connections, NEW p \in IngressPeers
  PROVE  recordSenderId(b, c, p) \in Books
<1>1. b.queued[c] \in Int
  BY DEF Books
<1> DEFINE freed == releaseQueuedBytes(b, c, b.queued[c], b.queued[c])
<1>2. freed \in Books
  BY <1>1, ReleaseType
<1> DEFINE moved == [freed EXCEPT !.sender[c] = p]
<1>3. moved \in Books
  BY <1>2 DEF Books
<1>4. addQueuedBytes(moved, c, 0, b.queued[c]) \in Books
  <2> HIDE DEF moved
  <2> QED BY SMT, <1>1, <1>3, AddType
<1> QED BY <1>4 DEF recordSenderId

(* The first state: everybody rests and nobody is paused. *)
LEMMA InitImplies == IngressInit => IngressInv
BY SMT, ThreadsAssumption
   DEF IngressInit, IngressInv, IngressTypes, StopWillResume, DropWillResume, Books, Places,
       Idle, IngressThreads, HeldGlobally

(* A step of one thread that changes no pause, no stop and no total keeps the *)
(* thread that is to resume in place, unless it is the one that moves.        *)
LEMMA OthersStay ==
  ASSUME IngressInv, NEW t \in IngressThreads, NEW q,
         igPc' = [igPc EXCEPT ![t] = q],
         igPc[t].at \notin {"recheck", "check", "resume"},
         UNCHANGED <<igScene, igStopped, igPaused>>,
         HeldGlobally' < igScene.resumeBelow => HeldGlobally < igScene.resumeBelow
  PROVE  StopWillResume' /\ DropWillResume'
<1>1. \A u \in IngressThreads : igPc[u].at \in {"recheck", "check", "resume"}
                                  => igPc'[u] = igPc[u]
  BY DEF IngressInv, IngressTypes
<1>2. MainThread \in IngressThreads /\ Connections \subseteq IngressThreads
  BY DEF IngressThreads
<1>3. StopWillResume'
  BY <1>1, <1>2 DEF IngressInv, StopWillResume, At
<1>4. DropWillResume'
  BY <1>1 DEF IngressInv, DropWillResume, At
<1> QED BY <1>3, <1>4

(* Moving a thread to a place keeps the types of the program counters. *)
LEMMA GoType ==
  ASSUME IngressTypes, NEW t \in IngressThreads, NEW w \in Places, Go(t, w),
         w = "idle" \/ t # Worker \/ igPc[Worker].at # "idle"
  PROVE  /\ igPc' = [igPc EXCEPT ![t] = [igPc[t] EXCEPT !.at = w]]
         /\ igPc' \in [IngressThreads -> [at : Places, conn : Connections \cup {NoPeer},
                                          bytes : Nat]]
         /\ igPc'[Worker].at # "idle" => igPc'[Worker].conn \in Connections
         /\ igPc'[t].at = w /\ \A u \in IngressThreads \ {t} : igPc'[u] = igPc[u]
BY DEF Go, IngressTypes, IngressThreads

(* So does ending its handler. *)
LEMMA RestType ==
  ASSUME IngressTypes, NEW t \in IngressThreads, Rest(t)
  PROVE  /\ igPc' = [igPc EXCEPT ![t] = Idle]
         /\ igPc' \in [IngressThreads -> [at : Places, conn : Connections \cup {NoPeer},
                                          bytes : Nat]]
         /\ igPc'[Worker].at # "idle" => igPc'[Worker].conn \in Connections
         /\ igPc'[t].at = "idle" /\ \A u \in IngressThreads \ {t} : igPc'[u] = igPc[u]
BY DEF Rest, Idle, Places, IngressTypes, IngressThreads

(* A request is read: counted under the lock, or rejected. *)
LEMMA AdmitStep ==
  ASSUME IngressInv, NEW c \in Connections, NEW b \in igScene.sizes,
         admitOpenrIngressKvStoreQueuedRequest(c, b)
  PROVE  IngressInv'
<1>1. b \in Nat /\ igBooks.queued[c] \in Int /\ c \in IngressThreads /\ c # Worker
  BY ScenesAssumption, ThreadsAssumption DEF IngressInv, IngressTypes, Books, IngressThreads
<1>2. CASE igBooks.queued[c] >= igScene.queuedLimit
  BY <1>2 DEF admitOpenrIngressKvStoreQueuedRequest, igTotals, igPauses, igWork, IngressInv,
       IngressTypes, StopWillResume, DropWillResume, At, HeldGlobally
<1>3. CASE ~(igBooks.queued[c] >= igScene.queuedLimit)
  <2> DEFINE added == addQueuedBytes(igBooks, c, igBooks.queued[c], b)
  <2>1. added \in Books
    BY SMT, <1>1, AddType DEF IngressInv, IngressTypes
  <2>2. igBooks' = [added EXCEPT !.queued[c] = @ + b]
    BY <1>3 DEF admitOpenrIngressKvStoreQueuedRequest
  <2>3. igBooks' \in Books
    <3>1. b \in Int
      BY SMT, <1>1
    <3> HIDE DEF added
    <3> QED BY <3>1, <2>1, <2>2, QueuedType
  <2>4. igPc' = [igPc EXCEPT ![c] = [at |-> "admitted", conn |-> c, bytes |-> b]]
    BY <1>3 DEF admitOpenrIngressKvStoreQueuedRequest
  <2>5. IngressTypes'
    BY <1>1, <2>3, <2>4 DEF IngressInv, IngressTypes, admitOpenrIngressKvStoreQueuedRequest,
         igTotals, igWork, Places, IngressThreads
  <2>6. StopWillResume' /\ DropWillResume'
    BY <1>1, <2>4, OthersStay DEF admitOpenrIngressKvStoreQueuedRequest, At, igTotals,
         igPauses, HeldGlobally
  <2> QED BY <2>5, <2>6 DEF IngressInv
<1> QED BY <1>2, <1>3

(* The admitted request enters the total and the pile. *)
LEMMA EnqueueStep ==
  ASSUME IngressInv, NEW c \in Connections, Enqueue(c)
  PROVE  IngressInv'
<1>1. c \in IngressThreads /\ igPc[c].bytes \in Nat /\ igPc[c].at = "admitted"
  BY DEF IngressInv, IngressTypes, IngressThreads, Enqueue, At
<1>2. igPile' \in [Connections -> Seq(Nat)]
  BY SMT, <1>1 DEF Enqueue, IngressInv, IngressTypes
<1>3. IngressTypes'
  BY SMT, <1>1, <1>2, RestType DEF Enqueue, IngressInv, IngressTypes
<1>4. HeldGlobally' < igScene.resumeBelow => HeldGlobally < igScene.resumeBelow
  BY SMT, <1>1, ScenesAssumption DEF Enqueue, HeldGlobally, IngressInv, IngressTypes
<1>5. StopWillResume' /\ DropWillResume'
  BY <1>1, <1>4, OthersStay DEF Enqueue, Rest, igPauses
<1> QED BY <1>3, <1>5 DEF IngressInv

(* The worker takes a request from the pile. *)
LEMMA TakeStep ==
  ASSUME IngressInv, NEW c \in Connections, releaseOpenrIngressKvStoreQueuedRequest(c)
  PROVE  IngressInv'
<1> DEFINE bytes == Head(igPile[c])
           released == releaseQueuedBytes(igBooks, c, igBooks.queued[c], bytes)
<1>1. /\ bytes \in Nat /\ Tail(igPile[c]) \in Seq(Nat)
      /\ Worker \in IngressThreads /\ igPc[Worker].at = "idle" /\ igBooks.queued[c] \in Int
  BY SMT DEF IngressInv, IngressTypes, IngressThreads, Books,
         releaseOpenrIngressKvStoreQueuedRequest, At
<1>2. released \in Books
  BY SMT, <1>1, ReleaseType DEF IngressInv, IngressTypes
<1>3. igBooks' = [released EXCEPT !.queued[c] = @ - bytes]
  BY DEF releaseOpenrIngressKvStoreQueuedRequest
<1>4. igBooks' \in Books
  <2>1. bytes \in Int
    BY SMT, <1>1
  <2> HIDE DEF released, bytes
  <2> QED BY <2>1, <1>2, <1>3, QueuedType
<1>5. igPc' = [igPc EXCEPT ![Worker] = [at |-> "released", conn |-> c, bytes |-> bytes]]
  BY DEF releaseOpenrIngressKvStoreQueuedRequest
<1>6. IngressTypes'
  <2>1. igPile' \in [Connections -> Seq(Nat)]
    BY <1>1 DEF releaseOpenrIngressKvStoreQueuedRequest, IngressInv, IngressTypes
  <2> QED BY SMT, <1>1, <1>4, <1>5, <2>1 DEF releaseOpenrIngressKvStoreQueuedRequest, IngressInv,
       IngressTypes, Places, igTotals
<1>7. StopWillResume' /\ DropWillResume'
  BY <1>1, <1>5, OthersStay DEF releaseOpenrIngressKvStoreQueuedRequest, igTotals, igPauses,
       HeldGlobally
<1> QED BY <1>6, <1>7 DEF IngressInv

(* A total is lowered: the thread that did it tests it next. *)
LEMMA SubtractStep ==
  ASSUME IngressInv, NEW t \in IngressThreads, Subtract(t)
  PROVE  IngressInv'
<1>1. igPc[t].at = "released" /\ igPc[t].bytes \in Nat /\ Go(t, "check") /\ "check" \in Places
  BY DEF Subtract, At, IngressInv, IngressTypes, Places
<1>2. igPending' \in Int /\ igQueued' \in Int
  BY SMT, <1>1 DEF Subtract, IngressInv, IngressTypes
<1>3. t # Worker \/ igPc[Worker].at # "idle"
  BY <1>1
<1>4. IngressTypes
  BY DEF IngressInv
<1>5. IngressTypes'
  BY <1>1, <1>2, <1>3, <1>4, GoType DEF IngressTypes, Subtract, igWork
<1>6. igPc'[t].at = "check" /\ \A u \in IngressThreads \ {t} : igPc'[u] = igPc[u]
  BY <1>1, <1>3, <1>4, GoType
<1>7. DropWillResume'
  BY <1>6 DEF DropWillResume, At
<1>8. StopWillResume'
  <2>1. MainThread \in IngressThreads /\ Connections \subseteq IngressThreads
    BY DEF IngressThreads
  <2> QED BY <1>1, <1>6, <2>1 DEF StopWillResume, At, Subtract, igPauses, IngressInv
<1> QED BY <1>5, <1>7, <1>8 DEF IngressInv

(* The test: the connections are resumed, or the total is too high for it. *)
LEMMA CheckStep ==
  ASSUME IngressInv, NEW t \in IngressThreads, resumeAllIfBelowResumeBelowGlobalBytes(t)
  PROVE  IngressInv'
<1> USE DEF resumeAllIfBelowResumeBelowGlobalBytes
<1>1. igPc[t].at = "check" /\ (t # Worker \/ igPc[Worker].at # "idle") /\ IngressTypes
  BY DEF At, IngressInv
<1>2. \E w \in {"resume", "handle", "idle"} :
        /\ Go(t, w) \/ (w = "idle" /\ Rest(t))
        /\ HeldGlobally < igScene.resumeBelow /\ igPaused # {} => w = "resume"
  BY DEF AfterResume
<1>3. PICK w \in {"resume", "handle", "idle"} :
        /\ igPc'[t].at = w /\ \A u \in IngressThreads \ {t} : igPc'[u] = igPc[u]
        /\ HeldGlobally < igScene.resumeBelow /\ igPaused # {} => w = "resume"
  BY <1>1, <1>2, GoType, RestType DEF Places
<1>4. IngressTypes'
  <2>1. /\ igPc' \in [IngressThreads -> [at : Places, conn : Connections \cup {NoPeer},
                                         bytes : Nat]]
        /\ igPc'[Worker].at # "idle" => igPc'[Worker].conn \in Connections
    BY <1>1, <1>2, GoType, RestType DEF Places
  <2> QED BY <1>1, <2>1 DEF IngressTypes, igTotals, igWork
<1>5. DropWillResume'
  BY <1>3 DEF DropWillResume, At, HeldGlobally, igTotals, igPauses
<1>6. StopWillResume'
  <2>1. MainThread \in IngressThreads /\ Connections \subseteq IngressThreads
    BY DEF IngressThreads
  <2> QED BY <1>1, <1>3, <2>1 DEF StopWillResume, At, igPauses, IngressInv
<1> QED BY <1>4, <1>5, <1>6 DEF IngressInv

(* resumeAll empties the list. *)
LEMMA ResumeAllStep ==
  ASSUME IngressInv, NEW t \in IngressThreads, resumeAll(t)
  PROVE  IngressInv'
<1>1. (t # Worker \/ igPc[Worker].at # "idle") /\ IngressTypes /\ igPaused' = {}
  BY DEF resumeAll, At, IngressInv
<1>2. /\ igPc' \in [IngressThreads -> [at : Places, conn : Connections \cup {NoPeer},
                                       bytes : Nat]]
      /\ igPc'[Worker].at # "idle" => igPc'[Worker].conn \in Connections
  BY <1>1, GoType, RestType DEF resumeAll, AfterResume, Places
<1> QED BY <1>1, <1>2 DEF IngressInv, IngressTypes, StopWillResume, DropWillResume, resumeAll,
     igTotals, igWork

(* The handler records the sender, or the request had expired. *)
LEMMA HandleStep ==
  ASSUME IngressInv, HandleRequest
  PROVE  IngressInv'
<1>1. /\ igPc[Worker].at = "handle" /\ igPc[Worker].conn \in Connections
      /\ Worker \in IngressThreads /\ igBooks \in Books /\ IngressTypes
  BY DEF HandleRequest, At, IngressInv, IngressTypes, IngressThreads
<1>2. igScene.sender[igPc[Worker].conn] \in IngressPeers
  BY <1>1, ScenesAssumption DEF IngressInv, IngressTypes
<1>3. igBooks' \in Books
  BY <1>1, <1>2, RecordType DEF HandleRequest
<1>4. Go(Worker, "track") \/ Rest(Worker)
  BY DEF HandleRequest
<1>5. IngressTypes'
  <2>1. /\ igPc' \in [IngressThreads -> [at : Places, conn : Connections \cup {NoPeer},
                                         bytes : Nat]]
        /\ igPc'[Worker].at # "idle" => igPc'[Worker].conn \in Connections
    BY <1>1, <1>4, GoType, RestType DEF Places
  <2> QED BY <1>1, <1>3, <2>1 DEF IngressTypes, HandleRequest, igTotals, igWork
<1>6. \E q : igPc' = [igPc EXCEPT ![Worker] = q]
  BY <1>1, <1>4, GoType, RestType DEF Places
<1>7. StopWillResume' /\ DropWillResume'
  BY <1>1, <1>6, OthersStay DEF HandleRequest, igTotals, igPauses, HeldGlobally
<1> QED BY <1>5, <1>7 DEF IngressInv

(* The guard's constructor: the books, then the total. *)
LEMMA TrackStep ==
  ASSUME IngressInv, addOpenrIngressKvStorePendingMergeBytes
  PROVE  IngressInv'
<1> DEFINE p == igScene.sender[igPc[Worker].conn]
           bytes == igPc[Worker].bytes
<1>1. Worker \in IngressThreads /\ IngressTypes /\ bytes \in Nat
  BY DEF IngressInv, IngressTypes, IngressThreads
<1>2. igPc[Worker].at \in {"track", "tracked"}
  BY DEF addOpenrIngressKvStorePendingMergeBytes, At
<1>3. p \in IngressPeers
  BY <1>1, <1>2, ScenesAssumption DEF IngressTypes
<1>4. CASE /\ Go(Worker, "tracked")
           /\ igBooks' = [igBooks EXCEPT !.pending[p] = @ + bytes, !.held[p] = @ + bytes]
           /\ UNCHANGED <<igScene, igTotals, igPauses, igWork, igRequests>>
  <2>1. igBooks' \in Books
    <3>1. igBooks \in Books
      BY <1>1 DEF IngressTypes
    <3>2. igBooks.pending[p] + bytes \in Nat /\ igBooks.held[p] + bytes \in Int
      BY SMT, <1>1, <1>3, <3>1 DEF Books
    <3>3. igBooks' = [igBooks EXCEPT !.pending[p] = igBooks.pending[p] + bytes,
                                     !.held[p] = igBooks.held[p] + bytes]
      BY <1>4, <3>1 DEF Books
    <3> HIDE DEF p, bytes
    <3> QED BY <1>3, <3>1, <3>2, <3>3, PendingType
  <2>2. /\ igPc' \in [IngressThreads -> [at : Places, conn : Connections \cup {NoPeer},
                                         bytes : Nat]]
        /\ igPc'[Worker].at # "idle" => igPc'[Worker].conn \in Connections
        /\ igPc' = [igPc EXCEPT ![Worker] = [igPc[Worker] EXCEPT !.at = "tracked"]]
    BY <1>1, <1>2, <1>4, GoType DEF Places
  <2>3. IngressTypes'
    BY <1>1, <1>4, <2>1, <2>2 DEF IngressTypes, igTotals, igWork
  <2>4. StopWillResume' /\ DropWillResume'
    BY <1>1, <1>2, <1>4, <2>2, OthersStay DEF igTotals, igPauses, HeldGlobally
  <2> QED BY <2>3, <2>4 DEF IngressInv
<1>5. CASE /\ Rest(Worker)
           /\ igPending' = igPending + bytes
           /\ igMerges' = Append(igMerges, [peer |-> p, bytes |-> bytes])
           /\ UNCHANGED <<igScene, igBooks, igQueued, igPauses, igPile, igRequests>>
  <2>1. igMerges' \in Seq([peer : IngressPeers, bytes : Nat])
    BY SMT, <1>1, <1>3, <1>5 DEF IngressTypes
  <2>2. igPending' \in Int /\ (HeldGlobally' < igScene.resumeBelow
                                 => HeldGlobally < igScene.resumeBelow)
    BY SMT, <1>1, <1>5, ScenesAssumption DEF IngressTypes, HeldGlobally
  <2>3. IngressTypes'
    BY <1>1, <1>5, <2>1, <2>2, RestType DEF IngressTypes
  <2>4. StopWillResume' /\ DropWillResume'
    BY <1>1, <1>2, <1>5, <2>2, RestType, OthersStay DEF igPauses
  <2> QED BY <2>3, <2>4 DEF IngressInv
<1> QED BY <1>4, <1>5 DEF addOpenrIngressKvStorePendingMergeBytes

(* The guard's destructor: the books of the merged request. *)
LEMMA MergedStep ==
  ASSUME IngressInv, releaseOpenrIngressKvStorePendingMergeBytes
  PROVE  IngressInv'
<1> DEFINE m == Head(igMerges)
           released == Min({m.bytes, igBooks.pending[m.peer]})
           less == Min({released, igBooks.held[m.peer]})
<1>1. /\ m \in [peer : IngressPeers, bytes : Nat]
      /\ Tail(igMerges) \in Seq([peer : IngressPeers, bytes : Nat])
      /\ KvStoreThread \in IngressThreads /\ igPc[KvStoreThread].at = "idle"
      /\ IngressTypes /\ igBooks \in Books /\ KvStoreThread # Worker
  <2>1. igMerges \in Seq([peer : IngressPeers, bytes : Nat]) /\ igMerges # <<>>
    BY DEF releaseOpenrIngressKvStorePendingMergeBytes, IngressInv, IngressTypes
  <2>2. m \in [peer : IngressPeers, bytes : Nat]
    BY <2>1, HeadAndTail
  <2>3. Tail(igMerges) \in Seq([peer : IngressPeers, bytes : Nat])
    BY <2>1, HeadAndTail
  <2> QED BY <2>2, <2>3, ThreadsAssumption DEF releaseOpenrIngressKvStorePendingMergeBytes,
       At, IngressInv, IngressTypes, IngressThreads
<1>2. m.bytes \in Nat /\ igBooks.pending[m.peer] \in Nat /\ igBooks.held[m.peer] \in Int
  BY <1>1 DEF Books
<1>3. released \in Nat /\ igBooks.pending[m.peer] - released \in Nat
  BY SMT, <1>2, MinOfTwo
<1>4. less \in Int
  BY SMT, <1>2, <1>3, MinOfTwo
<1>5. igBooks' = [igBooks EXCEPT !.pending[m.peer] = igBooks.pending[m.peer] - released,
                                 !.held[m.peer] = igBooks.held[m.peer] - less]
  BY <1>1 DEF releaseOpenrIngressKvStorePendingMergeBytes, Books
<1>6. igBooks' \in Books
  <2>1. m.peer \in IngressPeers /\ igBooks.held[m.peer] - less \in Int
    BY SMT, <1>1, <1>2, <1>4
  <2> HIDE DEF m, released, less
  <2> QED BY <1>1, <1>3, <1>5, <2>1, PendingType
<1>7. igPc' = [igPc EXCEPT ![KvStoreThread] = [at |-> "released", conn |-> NoPeer,
                                               bytes |-> released]]
  BY DEF releaseOpenrIngressKvStorePendingMergeBytes
<1>8. IngressTypes'
  <2> HIDE DEF m, released, less
  <2>1. igMerges' \in Seq([peer : IngressPeers, bytes : Nat])
    BY <1>1 DEF releaseOpenrIngressKvStorePendingMergeBytes
  <2> QED BY SMT, <1>1, <1>3, <1>6, <1>7, <2>1 DEF IngressTypes, Places, igTotals,
       releaseOpenrIngressKvStorePendingMergeBytes
<1>9. StopWillResume' /\ DropWillResume'
  BY <1>1, <1>7, OthersStay DEF releaseOpenrIngressKvStorePendingMergeBytes, igTotals,
       igPauses, HeldGlobally
<1> QED BY <1>8, <1>9 DEF IngressInv

(* A connection is found to hold too much: it is about to be paused. *)
LEMMA QuiescenceStep ==
  ASSUME IngressInv, NEW c \in Connections, onWriteQuiescence(c)
  PROVE  IngressInv'
<1>1. c \in IngressThreads /\ c # Worker /\ igPc[c].at = "idle" /\ IngressTypes
  BY ThreadsAssumption DEF onWriteQuiescence, At, IngressInv, IngressThreads
<1>2. /\ igPc' = [igPc EXCEPT ![c] = [igPc[c] EXCEPT !.at = "pause"]]
      /\ igPc' \in [IngressThreads -> [at : Places, conn : Connections \cup {NoPeer},
                                       bytes : Nat]]
      /\ igPc'[Worker].at # "idle" => igPc'[Worker].conn \in Connections
  BY <1>1, GoType DEF onWriteQuiescence, Places
<1>3. IngressTypes'
  BY <1>1, <1>2 DEF onWriteQuiescence, IngressTypes, igTotals, igWork
<1>4. StopWillResume' /\ DropWillResume'
  BY <1>1, <1>2, OthersStay DEF onWriteQuiescence, igTotals, igPauses, HeldGlobally
<1> QED BY <1>3, <1>4 DEF IngressInv

(* The pause: a connection that joins the list rechecks. *)
LEMMA PauseStep ==
  ASSUME IngressInv, NEW c \in Connections, PauseConnection(c)
  PROVE  IngressInv'
<1>1. c \in IngressThreads /\ c # Worker /\ igPc[c].at = "pause" /\ IngressTypes
  BY ThreadsAssumption DEF PauseConnection, At, IngressInv, IngressThreads
<1>2. CASE Rest(c) /\ igPaused' = igPaused
  <2>1. IngressTypes'
    BY <1>1, <1>2, RestType DEF PauseConnection, IngressTypes, igTotals, igWork
  <2>2. StopWillResume' /\ DropWillResume'
    BY <1>1, <1>2, RestType, OthersStay DEF PauseConnection, igTotals, HeldGlobally
  <2> QED BY <2>1, <2>2 DEF IngressInv
<1>3. CASE Go(c, "recheck")
  <2>1. /\ igPc' \in [IngressThreads -> [at : Places, conn : Connections \cup {NoPeer},
                                         bytes : Nat]]
        /\ igPc'[Worker].at # "idle" => igPc'[Worker].conn \in Connections
        /\ igPc'[c].at = "recheck"
    BY <1>1, <1>3, GoType DEF Places
  <2>2. IngressTypes'
    BY <1>1, <2>1 DEF PauseConnection, IngressTypes, igTotals, igWork
  <2>3. StopWillResume' /\ DropWillResume'
    BY <1>1, <2>1 DEF StopWillResume, DropWillResume, At
  <2> QED BY <2>2, <2>3 DEF IngressInv
<1> QED BY <1>2, <1>3 DEF PauseConnection

(* The recheck: with the server stopping, everybody is resumed. *)
LEMMA RecheckStep ==
  ASSUME IngressInv, NEW c \in Connections, Recheck(c)
  PROVE  IngressInv'
<1>1. c \in IngressThreads /\ c # Worker /\ igPc[c].at = "recheck" /\ IngressTypes
  BY ThreadsAssumption DEF Recheck, At, IngressInv, IngressThreads
<1>2. PICK w \in {"resume", "check"} : Go(c, w) /\ (igStopped => w = "resume")
  BY DEF Recheck
<1>3. /\ igPc' \in [IngressThreads -> [at : Places, conn : Connections \cup {NoPeer},
                                       bytes : Nat]]
      /\ igPc'[Worker].at # "idle" => igPc'[Worker].conn \in Connections
      /\ igPc'[c].at = w
  BY <1>1, <1>2, GoType DEF Places
<1>4. IngressTypes'
  BY <1>1, <1>3 DEF Recheck, IngressTypes, igTotals, igWork
<1>5. DropWillResume'
  BY <1>1, <1>3 DEF DropWillResume, At
<1>6. StopWillResume'
  BY <1>2, <1>3 DEF StopWillResume, At, Recheck, igPauses
<1> QED BY <1>4, <1>5, <1>6 DEF IngressInv

(* Timers and posted resumes only take connections off the list. *)
LEMMA ResumeStep ==
  ASSUME IngressInv, NEW c \in Connections, resume(c) \/ resumeOnEventBase(c)
  PROVE  IngressInv'
<1>1. /\ UNCHANGED <<igScene, igBooks, igTotals, igStopped, igWork, igPc>>
      /\ igPaused' \subseteq igPaused
  BY DEF resume, resumeOnEventBase
<1> QED BY <1>1 DEF IngressInv, IngressTypes, StopWillResume, DropWillResume, At, HeldGlobally,
     igTotals, igWork

(* stopPausing raises the flag, then resumes. *)
LEMMA StopStep ==
  ASSUME IngressInv, stopPausing
  PROVE  IngressInv'
<1>1. MainThread \in IngressThreads /\ MainThread # Worker /\ IngressTypes
      /\ igPc[MainThread].at = "idle"
  BY ThreadsAssumption DEF IngressThreads, IngressInv, stopPausing, At
<1>2. /\ igPc' \in [IngressThreads -> [at : Places, conn : Connections \cup {NoPeer},
                                       bytes : Nat]]
      /\ igPc'[Worker].at # "idle" => igPc'[Worker].conn \in Connections
      /\ igPc'[MainThread].at = "resume"
  BY <1>1, GoType DEF stopPausing, Places
<1>3. IngressTypes'
  BY <1>1, <1>2 DEF stopPausing, IngressTypes, igTotals, igWork
<1>4. StopWillResume' /\ DropWillResume'
  BY <1>1, <1>2 DEF StopWillResume, DropWillResume, At
<1> QED BY <1>3, <1>4 DEF IngressInv

(* Every step keeps all of it. *)
LEMMA IngressStep == IngressInv /\ [IngressNext]_igVars => IngressInv'
<1> SUFFICES ASSUME IngressInv, [IngressNext]_igVars PROVE IngressInv'
  OBVIOUS
<1>1. CASE UNCHANGED igVars
  BY <1>1 DEF igVars, IngressInv, IngressTypes, StopWillResume, DropWillResume, At, HeldGlobally
<1>2. CASE IngressNext
  BY <1>2, AdmitStep, EnqueueStep, TakeStep, SubtractStep, CheckStep, ResumeAllStep,
     HandleStep, TrackStep, MergedStep, QuiescenceStep, PauseStep, RecheckStep, ResumeStep,
     StopStep DEF IngressNext
<1> QED BY <1>1, <1>2

(* When the threads of the backpressure rest and the bytes are below the lower *)
(* limit, or stopPausing was called, no connection is paused: whatever the     *)
(* number of connections and however pauses, drops and the stop interleave     *)
(* (onWriteQuiescence, resumeAllIfBelowResumeBelowGlobalBytes, stopPausing).   *)
THEOREM NobodyIsLeftPaused == IngressSpec => []NobodyLeftPaused
<1>1. IngressInv => NobodyLeftPaused
  <2> SUFFICES ASSUME IngressInv, \A t \in IngressThreads : At(t, "idle"),
                      igStopped \/ HeldGlobally < igScene.resumeBelow
               PROVE  igPaused = {}
    BY DEF NobodyLeftPaused
  <2>1. MainThread \in IngressThreads /\ Connections \subseteq IngressThreads
    BY DEF IngressThreads
  <2> QED BY <2>1 DEF IngressInv, StopWillResume, DropWillResume, At
<1> QED BY <1>1, IngressStep, InitImplies, PTL DEF IngressSpec

--------------------------------------------------------------------------------
(* A set of natural numbers has a least element. *)
LEMMA LeastNat ==
  ASSUME NEW T \in SUBSET Nat, T # {}
  PROVE  \E n \in T : \A m \in T : n <= m
<1>1. PICK n \in T : \A m \in T : ~ (<<m, n>> \in OpToRel(<, Nat))
  BY NatLessThanWellFounded, WFMin
<1>2. ASSUME NEW m \in T PROVE n <= m
  <2>1. m \in Nat /\ n \in Nat
    OBVIOUS
  <2>2. ~ (m < n)
    BY <1>1, <2>1 DEF OpToRel
  <2>3. QED BY SMT, <2>1, <2>2
<1>3. QED BY <1>2

(* Induction: a set of numbers with 0 and with the successor of each of its members. *)
LEMMA AllNat ==
  ASSUME NEW T \in SUBSET Nat, 0 \in T, \A n \in T : n + 1 \in T
  PROVE  T = Nat
<1>1. SUFFICES ASSUME Nat \ T # {} PROVE FALSE
  OBVIOUS
<1>2. PICK n \in Nat \ T : \A m \in Nat \ T : n <= m
  BY <1>1, LeastNat
<1>3. n # 0 /\ n - 1 \in Nat /\ ~ (n <= n - 1) /\ (n - 1) + 1 = n
  BY SMT, <1>2
<1>4. n - 1 \in T
  BY <1>2, <1>3
<1>5. QED BY <1>2, <1>3, <1>4

--------------------------------------------------------------------------------
(* Sums over finite sets, by induction on them; FiniteSetsExt defines them with CHOOSE. *)
Any(S) == CHOOSE x \in S : TRUE

(* What the fold over a set computes from what it computes of the rest. *)
SumRule(g, s, f) == IF s = {} THEN 0 ELSE f[Any(s)] + g[s \ {Any(s)}]
(* Two functions of sets agree up to R; a function follows the rule everywhere. *)
Agree(g, h, R) == \A s \in SUBSET R : g[s] = h[s]
Folds(g, S, f) == g = [s \in SUBSET S |-> SumRule(g, s, f)]

(* The element a fold takes next is one of the set. *)
LEMMA AnyOf == ASSUME NEW S, S # {} PROVE Any(S) \in S
BY DEF Any

(* Taking an element away leaves a finite set with one element less. *)
LEMMA RestIsSmaller ==
  ASSUME NEW S, IsFiniteSet(S), NEW x \in S
  PROVE  /\ IsFiniteSet(S \ {x}) /\ Cardinality(S \ {x}) \in Nat /\ Cardinality(S) \in Nat
         /\ Cardinality(S) = Cardinality(S \ {x}) + 1
<1>1. IsFiniteSet(S \ {x}) /\ Cardinality(S \ {x}) = Cardinality(S) - 1
  BY FS_RemoveElement
<1>2. Cardinality(S) \in Nat /\ Cardinality(S \ {x}) \in Nat
  BY <1>1, FS_CardinalityType
<1>3. QED BY SMT, <1>1, <1>2

(* The fold is defined: there is a function that follows the rule. *)
LEMMA SumExists ==
  ASSUME NEW S, IsFiniteSet(S), NEW f \in [S -> Int]
  PROVE  \E g \in [SUBSET S -> Int] : g = [s \in SUBSET S |-> SumRule(g, s, f)]
<1> DEFINE Follows(g, n) == \A s \in SUBSET S : Cardinality(s) <= n => g[s] = SumRule(g, s, f)
           T == {n \in Nat : \E g \in [SUBSET S -> Int] : Follows(g, n)}
<1>1. \A s \in SUBSET S : IsFiniteSet(s) /\ Cardinality(s) \in Nat /\
        Cardinality(s) <= Cardinality(S)
  BY FS_Subset, FS_CardinalityType
<1>2. \A s \in SUBSET S : s # {} => /\ Any(s) \in s /\ s \ {Any(s)} \in SUBSET S /\
                                        f[Any(s)] \in Int
                                    /\ Cardinality(s) = Cardinality(s \ {Any(s)}) + 1
  <2>1. SUFFICES ASSUME NEW s \in SUBSET S, s # {}
                 PROVE  /\ Any(s) \in s /\ s \ {Any(s)} \in SUBSET S /\ f[Any(s)] \in Int
                        /\ Cardinality(s) = Cardinality(s \ {Any(s)}) + 1
    OBVIOUS
  <2>2. Any(s) \in s
    BY <2>1, AnyOf
  <2>3. QED
    BY <1>1, <2>2, RestIsSmaller
<1>3. 0 \in T
  <2> DEFINE g == [s \in SUBSET S |-> 0]
  <2>1. g \in [SUBSET S -> Int]
    BY SMT
  <2>2. ASSUME NEW s \in SUBSET S, Cardinality(s) <= 0, s # {} PROVE FALSE
    <3>1. /\ Cardinality(s) = Cardinality(s \ {Any(s)}) + 1
          /\ Cardinality(s \ {Any(s)}) \in Nat
      BY <1>1, <1>2, <2>2
    <3>2. QED BY SMT, <2>2, <3>1
  <2>3. Follows(g, 0)
    BY <2>2 DEF SumRule
  <2>4. 0 \in Nat
    BY SMT
  <2>5. QED
    BY <2>1, <2>3, <2>4
<1>4. ASSUME NEW n \in T PROVE n + 1 \in T
  <2>1. PICK g \in [SUBSET S -> Int] : Follows(g, n)
    OBVIOUS
  <2> DEFINE h == [s \in SUBSET S |-> IF Cardinality(s) <= n THEN g[s] ELSE SumRule(g, s, f)]
  <2>2. n \in Nat /\ n + 1 \in Nat
    BY SMT
  <2>3. ASSUME NEW s \in SUBSET S PROVE SumRule(g, s, f) \in Int
    <3>1. CASE s = {}
      BY SMT, <3>1 DEF SumRule
    <3>2. CASE s # {}
      <4>1. f[Any(s)] \in Int /\ g[s \ {Any(s)}] \in Int
        BY <1>2, <3>2
      <4>2. QED
        BY SMT, <3>2, <4>1 DEF SumRule
    <3>3. QED BY <3>1, <3>2
  <2>4. h \in [SUBSET S -> Int]
    BY <2>3
  <2>5. ASSUME NEW s \in SUBSET S, Cardinality(s) <= n + 1 PROVE h[s] = SumRule(h, s, f)
    <3>1. h[s] = SumRule(g, s, f)
      BY <2>1
    <3>2. CASE s = {}
      BY <3>1, <3>2 DEF SumRule
    <3>3. CASE s # {}
      <4>1. /\ s \ {Any(s)} \in SUBSET S /\ Cardinality(s) = Cardinality(s \ {Any(s)}) + 1
            /\ Cardinality(s) \in Nat /\ Cardinality(s \ {Any(s)}) \in Nat
        BY <1>1, <1>2, <3>3
      <4>2. Cardinality(s \ {Any(s)}) <= n
        BY SMT, <2>2, <2>5, <4>1
      <4>3. h[s \ {Any(s)}] = g[s \ {Any(s)}]
        BY <4>1, <4>2
      <4>4. QED
        BY <3>1, <3>3, <4>3 DEF SumRule
    <3>4. QED BY <3>2, <3>3
  <2>6. QED
    BY <2>2, <2>4, <2>5
<1>5. T \in SUBSET Nat
  OBVIOUS
<1>6. Cardinality(S) \in T
  <2> HIDE DEF T
  <2>1. T = Nat
    BY <1>3, <1>4, <1>5, AllNat
  <2>2. QED
    BY <2>1, FS_CardinalityType
<1>7. PICK g \in [SUBSET S -> Int] : Follows(g, Cardinality(S))
  BY <1>6
<1>8. \A s \in SUBSET S : g[s] = SumRule(g, s, f)
  BY <1>1, <1>7
<1>9. g = [s \in SUBSET S |-> g[s]]
  OBVIOUS
<1>10. QED
  BY <1>8, <1>9

(* Induction over the subsets of a finite set, from a set to its supersets by one element. *)
LEMMA FiniteInduction ==
  ASSUME NEW S, IsFiniteSet(S), NEW B \in SUBSET SUBSET S, {} \in B,
         \A s \in SUBSET S : s # {} /\ (\A x \in s : s \ {x} \in B) => s \in B
  PROVE  \A s \in SUBSET S : s \in B
<1> DEFINE T == {n \in Nat : \A s \in SUBSET S : Cardinality(s) = n => s \in B}
<1>1. \A s \in SUBSET S : IsFiniteSet(s) /\ Cardinality(s) \in Nat
  BY FS_Subset, FS_CardinalityType
<1>2. 0 \in T
  <2>1. ASSUME NEW s \in SUBSET S, Cardinality(s) = 0 PROVE s \in B
    <3>1. s = {}
      BY <1>1, <2>1, FS_EmptySet
    <3>2. QED BY <3>1
  <2>2. 0 \in Nat
    BY SMT
  <2>3. QED BY <2>1, <2>2
<1>3. ASSUME NEW n \in T PROVE n + 1 \in T
  <2>1. n \in Nat /\ n + 1 \in Nat /\ n + 1 # 0
    BY SMT
  <2>2. ASSUME NEW s \in SUBSET S, Cardinality(s) = n + 1 PROVE s \in B
    <3>1. s # {}
      BY <2>1, <2>2, FS_EmptySet
    <3>2. ASSUME NEW x \in s PROVE s \ {x} \in B
      <4>1. Cardinality(s) = Cardinality(s \ {x}) + 1 /\ Cardinality(s \ {x}) \in Nat
        BY <1>1, RestIsSmaller
      <4>2. Cardinality(s \ {x}) = n
        BY SMT, <2>1, <2>2, <4>1
      <4>3. s \ {x} \in SUBSET S
        OBVIOUS
      <4>4. QED BY <4>2, <4>3
    <3>3. QED BY <3>1, <3>2
  <2>3. QED BY <2>1, <2>2
<1>4. T = Nat
  <2>1. T \in SUBSET Nat
    OBVIOUS
  <2> HIDE DEF T
  <2>2. QED BY <1>2, <1>3, <2>1, AllNat
<1>5. QED BY <1>1, <1>4

(* Two functions that follow the rule agree where both are defined. *)
LEMMA SumsAgree ==
  ASSUME NEW S, NEW R, IsFiniteSet(S), R \subseteq S, NEW f, NEW g, NEW h,
         Folds(g, S, f), Folds(h, R, f)
  PROVE  Agree(g, h, R)
<1> DEFINE B == {s \in SUBSET R : g[s] = h[s]}
<1>1. \A s \in SUBSET R : g[s] = SumRule(g, s, f) /\ h[s] = SumRule(h, s, f)
  BY DEF Folds
<1>2. {} \in B
  BY <1>1 DEF SumRule
<1>3. ASSUME NEW s \in SUBSET R, s # {}, \A x \in s : s \ {x} \in B PROVE s \in B
  BY <1>1, <1>3, AnyOf DEF SumRule
<1>4. IsFiniteSet(R) /\ B \in SUBSET SUBSET R
  BY FS_Subset
<1>5. \A s \in SUBSET R : s \in B
  <2> HIDE DEF B
  <2>1. QED BY <1>2, <1>3, <1>4, FiniteInduction
<1>6. QED BY <1>5 DEF Agree

(* The sum is the value at the set of the function that follows the rule. *)
LEMMA SumIs ==
  ASSUME NEW S, NEW f
  PROVE  SumOver(f, S) = (CHOOSE g : g = [s \in SUBSET S |-> SumRule(g, s, f)])[S]
BY DEF SumOver, MapThenSumSet, MapThenFoldSet, SumRule, Any

(* There is one function that follows the rule, so the sum of a finite set is its value. *)
LEMMA SumFollows ==
  ASSUME NEW S, IsFiniteSet(S), NEW f, \A x \in S : f[x] \in Int
  PROVE  \E g \in [SUBSET S -> Int] : Folds(g, S, f) /\ SumOver(f, S) = g[S]
<1> DEFINE k == [x \in S |-> f[x]]
<1>1. PICK e \in [SUBSET S -> Int] : e = [s \in SUBSET S |-> SumRule(e, s, k)]
  <2>1. k \in [S -> Int]
    OBVIOUS
  <2> HIDE DEF k
  <2>2. QED BY <2>1, SumExists
<1>2. \A s \in SUBSET S : SumRule(e, s, k) = SumRule(e, s, f)
  BY AnyOf DEF SumRule
<1>3. Folds(e, S, f)
  BY <1>1, <1>2 DEF Folds
<1> DEFINE g == CHOOSE g : Folds(g, S, f)
<1>4. Folds(g, S, f)
  BY <1>3
<1>5. SumOver(f, S) = g[S]
  BY SumIs DEF Folds
<1> HIDE DEF g
<1>6. \A s \in SUBSET S : g[s] = e[s]
  <2>1. S \subseteq S
    OBVIOUS
  <2>2. Agree(g, e, S)
    BY <1>3, <1>4, <2>1, SumsAgree
  <2>3. QED BY <2>2 DEF Agree
<1>7. g \in [SUBSET S -> Int]
  BY <1>4, <1>6 DEF Folds
<1>8. QED BY <1>4, <1>5, <1>7

(* The sum over a set from the sum over the rest, and its type. *)
LEMMA SumUnfolds ==
  ASSUME NEW S, IsFiniteSet(S), NEW f, \A x \in S : f[x] \in Int
  PROVE  /\ SumOver(f, S) \in Int
         /\ S = {} => SumOver(f, S) = 0
         /\ S # {} => SumOver(f, S) = f[Any(S)] + SumOver(f, S \ {Any(S)})
<1>1. PICK g \in [SUBSET S -> Int] : Folds(g, S, f) /\ SumOver(f, S) = g[S]
  BY SumFollows
<1>2. SumOver(f, S) = SumRule(g, S, f) /\ SumOver(f, S) \in Int
  BY <1>1 DEF Folds
<1>3. ASSUME S # {} PROVE SumOver(f, S) = f[Any(S)] + SumOver(f, S \ {Any(S)})
  <2> DEFINE R == S \ {Any(S)}
  <2>1. R \subseteq S /\ IsFiniteSet(R) /\ (\A x \in R : f[x] \in Int)
    BY FS_Subset
  <2> HIDE DEF R
  <2>2. PICK h \in [SUBSET R -> Int] : Folds(h, R, f) /\ SumOver(f, R) = h[R]
    BY <2>1, SumFollows
  <2>3. \A s \in SUBSET R : g[s] = h[s]
    <3>1. Folds(g, S, f) /\ Folds(h, R, f) /\ R \subseteq S
      BY <1>1, <2>1, <2>2
    <3>2. Agree(g, h, R)
      BY <3>1, SumsAgree
    <3>3. QED BY <3>2 DEF Agree
  <2>4. SumOver(f, R) = g[R]
    BY <2>2, <2>3
  <2>5. QED BY <1>2, <1>3, <2>4 DEF SumRule, R
<1>4. QED BY <1>2, <1>3 DEF SumRule

(* Any element may be taken out first. *)
LEMMA SumTakes ==
  ASSUME NEW S, IsFiniteSet(S), NEW f, \A x \in S : f[x] \in Int, NEW x \in S
  PROVE  SumOver(f, S) = f[x] + SumOver(f, S \ {x})
<1> DEFINE Splits(s) == \A y \in s : SumOver(f, s) = f[y] + SumOver(f, s \ {y})
           B == {s \in SUBSET S : Splits(s)}
<1>1. {} \in B
  OBVIOUS
<1>2. ASSUME NEW s \in SUBSET S, s # {}, \A y \in s : s \ {y} \in B PROVE s \in B
  <2>1. \A r \in SUBSET S : IsFiniteSet(r) /\ \A y \in r : f[y] \in Int
    BY FS_Subset
  <2>2. Any(s) \in s /\ SumOver(f, s) = f[Any(s)] + SumOver(f, s \ {Any(s)})
    BY <1>2, <2>1, SumUnfolds, AnyOf
  <2>3. ASSUME NEW y \in s, y # Any(s) PROVE SumOver(f, s) = f[y] + SumOver(f, s \ {y})
    <3>1. SumOver(f, s \ {y}) = f[Any(s)] + SumOver(f, (s \ {y}) \ {Any(s)})
      BY <1>2, <2>2, <2>3
    <3>2. SumOver(f, s \ {Any(s)}) = f[y] + SumOver(f, (s \ {Any(s)}) \ {y})
      BY <1>2, <2>2, <2>3
    <3>3. (s \ {y}) \ {Any(s)} = (s \ {Any(s)}) \ {y}
      OBVIOUS
    <3>4. f[y] \in Int /\ f[Any(s)] \in Int /\ SumOver(f, (s \ {y}) \ {Any(s)}) \in Int
      <4>1. (s \ {y}) \ {Any(s)} \in SUBSET S
        OBVIOUS
      <4>2. QED BY <2>1, <2>2, <2>3, <4>1, SumUnfolds
    <3>5. \A a, b, r \in Int : a + (b + r) = b + (a + r)
      BY SMT
    <3>6. SumOver(f, s) = f[Any(s)] + (f[y] + SumOver(f, (s \ {y}) \ {Any(s)}))
      BY <2>2, <3>2, <3>3
    <3>7. SumOver(f, s) = f[y] + (f[Any(s)] + SumOver(f, (s \ {y}) \ {Any(s)}))
      BY <3>4, <3>5, <3>6
    <3>8. QED BY <3>1, <3>7
  <2>4. QED BY <2>2, <2>3
<1>3. B \in SUBSET SUBSET S
  OBVIOUS
<1>4. \A s \in SUBSET S : s \in B
  <2> HIDE DEF B
  <2>1. QED BY <1>1, <1>2, <1>3, FiniteInduction
<1>5. Splits(S)
  BY <1>4
<1>6. QED BY <1>5

(* Sums of the same numbers are the same. *)
LEMMA SumSame ==
  ASSUME NEW S, IsFiniteSet(S), NEW f, NEW g, \A x \in S : f[x] \in Int /\ f[x] = g[x]
  PROVE  SumOver(f, S) = SumOver(g, S)
<1> DEFINE B == {s \in SUBSET S : SumOver(f, s) = SumOver(g, s)}
<1>1. \A s \in SUBSET S : IsFiniteSet(s) /\ \A y \in s : f[y] \in Int /\ g[y] \in Int
  BY FS_Subset
<1>2. {} \in B
  BY <1>1, SumUnfolds
<1>3. ASSUME NEW s \in SUBSET S, s # {}, \A y \in s : s \ {y} \in B PROVE s \in B
  <2>1. Any(s) \in s
    BY <1>3, AnyOf
  <2>2. /\ SumOver(f, s) = f[Any(s)] + SumOver(f, s \ {Any(s)})
        /\ SumOver(g, s) = g[Any(s)] + SumOver(g, s \ {Any(s)})
    BY <1>1, <1>3, SumUnfolds
  <2>3. QED BY <1>3, <2>1, <2>2
<1>4. B \in SUBSET SUBSET S
  OBVIOUS
<1>5. \A s \in SUBSET S : s \in B
  <2> HIDE DEF B
  <2>1. QED BY <1>2, <1>3, <1>4, FiniteInduction
<1>6. QED BY <1>5

(* A sum of natural numbers is one, and none of them exceeds it. *)
LEMMA SumNat ==
  ASSUME NEW S, IsFiniteSet(S), NEW f, \A x \in S : f[x] \in Nat
  PROVE  SumOver(f, S) \in Nat /\ \A x \in S : f[x] <= SumOver(f, S)
<1> DEFINE B == {s \in SUBSET S : SumOver(f, s) \in Nat}
<1>1. \A s \in SUBSET S : IsFiniteSet(s) /\ \A y \in s : f[y] \in Int /\ f[y] \in Nat
  <2>1. \A n \in Nat : n \in Int
    BY SMT
  <2>2. QED BY <2>1, FS_Subset
<1>2. {} \in B
  <2>1. SumOver(f, {}) = 0
    BY <1>1, SumUnfolds
  <2>2. 0 \in Nat
    BY SMT
  <2>3. QED BY <2>1, <2>2
<1>3. ASSUME NEW s \in SUBSET S, s # {}, \A y \in s : s \ {y} \in B PROVE s \in B
  <2>1. Any(s) \in s
    BY <1>3, AnyOf
  <2>2. SumOver(f, s) = f[Any(s)] + SumOver(f, s \ {Any(s)})
    BY <1>1, <1>3, SumUnfolds
  <2>3. f[Any(s)] \in Nat /\ SumOver(f, s \ {Any(s)}) \in Nat
    BY <1>1, <1>3, <2>1
  <2>4. SumOver(f, s) \in Nat
    BY SMT, <2>2, <2>3
  <2>5. QED BY <2>4
<1>4. B \in SUBSET SUBSET S
  OBVIOUS
<1>5. \A s \in SUBSET S : SumOver(f, s) \in Nat
  <2>1. \A s \in SUBSET S : s \in B
    <3> HIDE DEF B
    <3>1. QED BY <1>2, <1>3, <1>4, FiniteInduction
  <2>2. QED BY <2>1
<1>6. ASSUME NEW x \in S PROVE f[x] <= SumOver(f, S)
  <2>1. SumOver(f, S) = f[x] + SumOver(f, S \ {x})
    BY <1>1, SumTakes
  <2>2. SumOver(f, S \ {x}) \in Nat /\ f[x] \in Nat
    <3>1. S \ {x} \in SUBSET S
      OBVIOUS
    <3>2. QED BY <1>5, <3>1
  <2>3. QED BY SMT, <2>1, <2>2
<1>7. QED BY <1>5, <1>6

ChangesAt(f, g, S, x) == SumOver(g, S) = SumOver(f, S) + (g[x] - f[x])

(* What changing one of the numbers does to the sum. *)
LEMMA SumChanges ==
  ASSUME NEW S, IsFiniteSet(S), NEW f, NEW g, NEW x \in S, \A y \in S : f[y] \in Int,
         g[x] \in Int, \A y \in S \ {x} : g[y] = f[y]
  PROVE  ChangesAt(f, g, S, x)
<1>1. IsFiniteSet(S \ {x})
  BY FS_Subset
<1>2. SumOver(f, S \ {x}) = SumOver(g, S \ {x})
  BY <1>1, SumSame
<1>3. SumOver(f, S) = f[x] + SumOver(f, S \ {x})
  BY SumTakes
<1>4. SumOver(g, S) = g[x] + SumOver(g, S \ {x})
  <2>1. \A y \in S : g[y] \in Int
    OBVIOUS
  <2>2. QED BY <2>1, SumTakes
<1>5. SumOver(f, S \ {x}) \in Int
  <2>1. \A y \in S \ {x} : f[y] \in Int
    OBVIOUS
  <2>2. QED BY <1>1, <2>1, SumUnfolds
<1>6. SumOver(g, S) = SumOver(f, S) + (g[x] - f[x])
  BY SMT, <1>2, <1>3, <1>4, <1>5
<1>7. QED BY <1>6 DEF ChangesAt

--------------------------------------------------------------------------------
(* Sums of sequences, and the sum of a set split in an element and the rest. *)
Ints(f, S) == \A x \in S : f[x] \in Int
Without(S, x, R) == IsFiniteSet(S) /\ x \in S /\ R = S \ {x}
Splits(f, S, x, R) == SumOver(f, S) = f[x] + SumOver(f, R)
SumSeq(s) == SumOver(s, DOMAIN s)

(* The indices of a sequence are a finite set, and the next index is the one that is added. *)
LEMMA Upto ==
  ASSUME NEW n \in Nat
  PROVE  IsFiniteSet(1 .. n) /\ (1 .. n + 1) \ {n + 1} = 1 .. n /\ n + 1 \in 1 .. n + 1
<1>1. IsFiniteSet(1 .. n)
  BY FS_Interval, SMT
<1>2. (1 .. n + 1) \ {n + 1} = 1 .. n /\ n + 1 \in 1 .. n + 1
  BY SMT
<1>3. QED BY <1>1, <1>2

(* The sizes in a pile add up to a natural number, none larger than the sum. *)
LEMMA SumSeqType ==
  ASSUME NEW s \in Seq(Nat)
  PROVE  SumSeq(s) \in Nat /\ \A i \in DOMAIN s : s[i] <= SumSeq(s)
<1>1. DOMAIN s = 1 .. Len(s) /\ Len(s) \in Nat /\ \A i \in DOMAIN s : s[i] \in Nat
  BY SMT
<1>2. IsFiniteSet(DOMAIN s)
  BY <1>1, Upto
<1>3. QED BY <1>1, <1>2, SumNat DEF SumSeq

(* SumTakes, stated with predicates so that it can be cited for any term. *)
LEMMA SumTakesTo ==
  ASSUME NEW S, NEW R, NEW x, NEW f, Without(S, x, R), Ints(f, S)
  PROVE  Splits(f, S, x, R)
<1>1. \A y \in S : f[y] \in Int
  BY DEF Ints
<1>2. SumOver(f, S) = f[x] + SumOver(f, S \ {x})
  BY <1>1, SumTakes DEF Without
<1>3. QED BY <1>2 DEF Without, Splits

(* An empty pile holds no bytes. *)
LEMMA SumSeqEmpty == SumSeq(<<>>) = 0
<1>1. DOMAIN <<>> = {}
  BY SMT
<1>2. IsFiniteSet({})
  BY FS_EmptySet
<1>3. QED BY <1>1, <1>2, SumUnfolds DEF SumSeq

(* A request at the end of a pile adds its bytes. *)
LEMMA SumSeqAppend ==
  ASSUME NEW s \in Seq(Nat), NEW x \in Nat
  PROVE  SumSeq(Append(s, x)) = SumSeq(s) + x
<1> DEFINE n == Len(s)
           a == Append(s, x)
<1>1. /\ n \in Nat /\ DOMAIN s = 1 .. n /\ DOMAIN a = 1 .. n + 1 /\ a[n + 1] = x
      /\ (\A i \in 1 .. n : s[i] \in Int /\ s[i] = a[i]) /\ \A i \in 1 .. n + 1 : a[i] \in Int
  BY SMT
<1>2. n + 1 \in Nat
  BY SMT, <1>1
<1>3. IsFiniteSet(1 .. n + 1) /\ IsFiniteSet(1 .. n) /\ (1 .. n + 1) \ {n + 1} = 1 .. n /\
        n + 1 \in 1 .. n + 1
  BY <1>1, <1>2, Upto
<1> HIDE DEF n, a
<1>4. SumOver(a, 1 .. n + 1) = x + SumOver(a, 1 .. n)
  <2>1. Ints(a, 1 .. n + 1)
    BY <1>1 DEF Ints
  <2>2. SumOver(a, 1 .. n + 1) = a[n + 1] + SumOver(a, 1 .. n)
    <3>1. Without(1 .. n + 1, n + 1, 1 .. n)
      BY <1>3 DEF Without
    <3>2. Splits(a, 1 .. n + 1, n + 1, 1 .. n)
      BY <2>1, <3>1, SumTakesTo
    <3>3. QED BY <3>2 DEF Splits
  <2>3. QED BY <1>1, <2>2
<1>5. SumOver(a, 1 .. n) = SumOver(s, 1 .. n)
  BY <1>1, <1>3, SumSame
<1>6. SumOver(s, 1 .. n) \in Int
  BY <1>1, <1>3, SumUnfolds
<1>7. x + SumOver(s, 1 .. n) = SumOver(s, 1 .. n) + x
  BY SMT, <1>6
<1>8. QED BY <1>1, <1>4, <1>5, <1>7 DEF SumSeq, a

(* Sums of shifted numbers. *)
LEMMA SumShift ==
  ASSUME NEW n \in Nat, NEW f, NEW g, \A i \in 1 .. n : g[i] \in Int /\ g[i] = f[i + 1]
  PROVE  SumOver(g, 1 .. n) = SumOver(f, 2 .. n + 1)
<1> DEFINE T == {k \in Nat : k <= n => SumOver(g, 1 .. k) = SumOver(f, 2 .. k + 1)}
<1>1. 0 \in T
  <2>1. 1 .. 0 = {} /\ 2 .. 0 + 1 = {} /\ 0 \in Nat
    BY SMT
  <2>2. IsFiniteSet({})
    BY FS_EmptySet
  <2>3. SumOver(g, {}) = 0 /\ SumOver(f, {}) = 0
    BY <2>2, SumUnfolds
  <2>4. QED BY <2>1, <2>3
<1>2. ASSUME NEW k \in T PROVE k + 1 \in T
  <2>1. k \in Nat /\ k + 1 \in Nat
    BY SMT
  <2>2. ASSUME k + 1 <= n PROVE SumOver(g, 1 .. k + 1) = SumOver(f, 2 .. (k + 1) + 1)
    <3>1. /\ k <= n /\ (2 .. (k + 1) + 1) \ {(k + 1) + 1} = 2 .. k + 1
          /\ (k + 1) + 1 \in 2 .. (k + 1) + 1 /\ k + 1 \in 1 .. n
          /\ \A i \in 1 .. k + 1 : i \in 1 .. n
      BY SMT, <2>1, <2>2
    <3>2. \A i \in 2 .. (k + 1) + 1 : i - 1 \in 1 .. n /\ (i - 1) + 1 = i
      BY SMT, <2>1, <2>2
    <3>3. \A i \in 2 .. (k + 1) + 1 : f[i] \in Int
      BY <3>2
    <3>4. IsFiniteSet(2 .. (k + 1) + 1)
      BY FS_Interval, SMT, <2>1
    <3>5. IsFiniteSet(1 .. k + 1) /\ (1 .. k + 1) \ {k + 1} = 1 .. k /\ k + 1 \in 1 .. k + 1
      BY <2>1, Upto
    <3>6. SumOver(g, 1 .. k + 1) = g[k + 1] + SumOver(g, 1 .. k)
      <4>1. Ints(g, 1 .. k + 1)
        BY <3>1 DEF Ints
      <4>2. Without(1 .. k + 1, k + 1, 1 .. k)
        BY <3>5 DEF Without
      <4>3. Splits(g, 1 .. k + 1, k + 1, 1 .. k)
        BY <4>1, <4>2, SumTakesTo
      <4>4. QED BY <4>3 DEF Splits
    <3>7. SumOver(f, 2 .. (k + 1) + 1) = f[(k + 1) + 1] + SumOver(f, 2 .. k + 1)
      <4>1. Ints(f, 2 .. (k + 1) + 1)
        BY <3>3 DEF Ints
      <4>2. Without(2 .. (k + 1) + 1, (k + 1) + 1, 2 .. k + 1)
        BY <3>1, <3>4 DEF Without
      <4>3. Splits(f, 2 .. (k + 1) + 1, (k + 1) + 1, 2 .. k + 1)
        BY <4>1, <4>2, SumTakesTo
      <4>4. QED BY <4>3 DEF Splits
    <3>8. SumOver(g, 1 .. k) = SumOver(f, 2 .. k + 1) /\ g[k + 1] = f[(k + 1) + 1]
      BY <3>1
    <3>9. QED BY <3>6, <3>7, <3>8
  <2>3. QED BY <2>1, <2>2
<1>3. T = Nat
  <2>1. T \in SUBSET Nat
    OBVIOUS
  <2> HIDE DEF T
  <2>2. QED BY <1>1, <1>2, <2>1, AllNat
<1>4. n \in T /\ n <= n
  BY <1>3, SMT
<1>5. QED BY <1>4

(* Taking the first request of a pile takes its bytes. *)
LEMMA SumSeqTail ==
  ASSUME NEW s \in Seq(Nat), s # <<>>
  PROVE  SumSeq(s) = Head(s) + SumSeq(Tail(s))
<1> DEFINE n == Len(s) - 1
           t == Tail(s)
<1>1. /\ n \in Nat /\ DOMAIN s = 1 .. n + 1 /\ DOMAIN t = 1 .. n /\ s[1] = Head(s)
      /\ (\A i \in 1 .. n : t[i] \in Int /\ t[i] = s[i + 1]) /\ \A i \in 1 .. n + 1 : s[i] \in Int
  BY SMT
<1>2. /\ n + 1 \in Nat /\ 1 \in 1 .. n + 1 /\ (1 .. n + 1) \ {1} = 2 .. n + 1
  BY SMT, <1>1
<1>3. IsFiniteSet(1 .. n + 1)
  BY <1>2, Upto
<1> HIDE DEF n, t
<1>4. SumOver(s, 1 .. n + 1) = s[1] + SumOver(s, 2 .. n + 1)
  <2>1. Ints(s, 1 .. n + 1)
    BY <1>1 DEF Ints
  <2>2. Without(1 .. n + 1, 1, 2 .. n + 1)
    BY <1>2, <1>3 DEF Without
  <2>3. Splits(s, 1 .. n + 1, 1, 2 .. n + 1)
    BY <2>1, <2>2, SumTakesTo
  <2>4. QED BY <2>3 DEF Splits
<1>5. SumOver(t, 1 .. n) = SumOver(s, 2 .. n + 1)
  BY <1>1, SumShift
<1>6. QED BY <1>1, <1>4, <1>5 DEF SumSeq, t

--------------------------------------------------------------------------------
(***************************************************************************)
(* The accounts.  Each update of the books and of a total is a step of its *)
(* own, so between them the bytes are in the hand of a thread: every count *)
(* is the sum of what waits, up to what a thread carries at one place.     *)
(***************************************************************************)
Carried(pc, t, where) == IF pc[t].at = where THEN pc[t].bytes ELSE 0
TrackedFor(pc, sender, p) ==
  IF pc[Worker].at = "tracked" /\ sender[pc[Worker].conn] = p THEN pc[Worker].bytes ELSE 0
OfPeer(q, p) == [i \in DOMAIN q |-> IF q[i].peer = p THEN q[i].bytes ELSE 0]
SendersOf(b, p) == {c \in Connections : b.sender[c] = p}
UnknownHolders(b) == {c \in Connections : b.sender[c] = NoPeer /\ b.queued[c] > 0}
PileSums(pile) == [c \in Connections |-> SumSeq(pile[c])]

(* Books and totals against the piles, the merges that wait and the bytes in hand. *)
QueuedFits(b, pile, pc) ==
  \A c \in Connections : b.queued[c] = SumSeq(pile[c]) + Carried(pc, c, "admitted")
QueuedTotal(total, pile, pc) ==
  total = SumOver(PileSums(pile), Connections) + Carried(pc, Worker, "released")
PendingFits(b, merges, pc, sender) ==
  \A p \in IngressPeers : b.pending[p] = SumSeq(OfPeer(merges, p)) + TrackedFor(pc, sender, p)
PendingTotal(total, b, pc) ==
  total + Carried(pc, Worker, "tracked")
    = SumOver(b.pending, IngressPeers) + Carried(pc, KvStoreThread, "released")
HeldFits(b) ==
  \A p \in IngressPeers : b.held[p] = b.pending[p] + SumOver(b.queued, SendersOf(b, p))
UnknownFits(b) == b.unknown = Cardinality(UnknownHolders(b))
SendersFit(b, sender) == \A c \in Connections : b.sender[c] \in {NoPeer, sender[c]}

(* Where the code of each thread can be. *)
Placed(pc) ==
  /\ \A c \in Connections :
       pc[c].at \in {"idle", "admitted", "pause", "recheck", "check", "resume"}
  /\ pc[KvStoreThread].at \in {"idle", "released", "check", "resume"}
  /\ pc[MainThread].at \in {"idle", "resume"}
  /\ pc[Worker].at \in {"idle", "released", "check", "resume", "handle", "track", "tracked"}

Accounts ==
  /\ Placed(igPc)
  /\ QueuedFits(igBooks, igPile, igPc)
  /\ QueuedTotal(igQueued, igPile, igPc)
  /\ PendingFits(igBooks, igMerges, igPc, igScene.sender)
  /\ PendingTotal(igPending, igBooks, igPc)
  /\ HeldFits(igBooks)
  /\ UnknownFits(igBooks)
  /\ SendersFit(igBooks, igScene.sender)

(* The program counters. *)
Pcs == [IngressThreads -> [at : Places, conn : Connections \cup {NoPeer}, bytes : Nat]]

(* The places at which a thread carries bytes. *)
Busy == {"admitted", "released", "tracked"}

(* Everybody carries the same. *)
SameLoads(qc, pc) ==
  /\ \A u \in IngressThreads, w \in Busy : Carried(qc, u, w) = Carried(pc, u, w)
  /\ \A s, p : TrackedFor(qc, s, p) = TrackedFor(pc, s, p)

(* A thread that goes from a place without bytes to another changes no load. *)
LEMMA QuietPlaces ==
  ASSUME NEW pc, NEW qc, NEW t, NEW q,
    pc \in [IngressThreads -> [at : Places, conn : Connections \cup {NoPeer}, bytes : Nat]],
         t \in IngressThreads, qc = [pc EXCEPT ![t] = q], pc[t].at \notin Busy, q.at \notin Busy
  PROVE  SameLoads(qc, pc)
<1>1. Worker \in IngressThreads
  BY DEF IngressThreads
<1>2. ASSUME NEW u \in IngressThreads, NEW w \in Busy PROVE Carried(qc, u, w) = Carried(pc, u, w)
  BY <1>2 DEF Carried
<1>3. \A s, p : TrackedFor(qc, s, p) = TrackedFor(pc, s, p)
  BY <1>1 DEF TrackedFor, Busy
<1>4. QED BY <1>2, <1>3 DEF SameLoads

(* The same of the bytes that are tracked for a peer. *)
SameTracked(pc, qc) == \A s, p : TrackedFor(qc, s, p) = TrackedFor(pc, s, p)

(* What is pending fits as long as neither the books nor what is tracked change. *)
LEMMA PendingFitsStays ==
  ASSUME NEW b, NEW a, NEW m, NEW pc, NEW qc, NEW s, PendingFits(b, m, pc, s),
    a.pending = b.pending,
         SameTracked(pc, qc)
  PROVE  PendingFits(a, m, qc, s)
<1>1. ASSUME NEW p \in IngressPeers PROVE a.pending[p] = SumSeq(OfPeer(m, p)) + TrackedFor(qc, s, p)
  <2>1. TrackedFor(qc, s, p) = TrackedFor(pc, s, p)
    BY DEF SameTracked
  <2>2. b.pending[p] = SumSeq(OfPeer(m, p)) + TrackedFor(pc, s, p)
    BY DEF PendingFits
  <2>3. QED BY <2>1, <2>2
<1>2. QED BY <1>1 DEF PendingFits

(* The part of the accounts that a thread with nothing in hand cannot change. *)
Quiet ==
  /\ QueuedTotal(igQueued, igPile, igPc)
  /\ QueuedFits(igBooks, igPile, igPc)
  /\ PendingFits(igBooks, igMerges, igPc, igScene.sender)
  /\ PendingTotal(igPending, igBooks, igPc)

(* A step of a thread with nothing in hand leaves queues, merges and totals as they are. *)
LEMMA QuietStep ==
  ASSUME IngressTypes, Accounts, NEW t \in IngressThreads, NEW q,
         igPc' = [igPc EXCEPT ![t] = q], igPc[t].at \notin Busy, q.at \notin Busy,
         UNCHANGED <<igScene, igTotals, igWork>>,
         igBooks'.queued = igBooks.queued, igBooks'.pending = igBooks.pending
  PROVE  Quiet'
<1>1. /\ Worker \in IngressThreads /\ KvStoreThread \in IngressThreads
      /\ Connections \subseteq IngressThreads
  BY DEF IngressThreads
<1>2. /\ \A u \in IngressThreads, w \in Busy : Carried(igPc', u, w) = Carried(igPc, u, w)
      /\ SameTracked(igPc, igPc')
  <2>1. igPc \in [IngressThreads -> [at : Places, conn : Connections \cup {NoPeer}, bytes : Nat]]
    BY DEF IngressTypes
  <2>2. SameLoads(igPc', igPc)
    BY <2>1, QuietPlaces
  <2>3. QED BY <2>2 DEF SameLoads, SameTracked
<1>3. /\ \A c \in Connections : Carried(igPc', c, "admitted") = Carried(igPc, c, "admitted")
      /\ Carried(igPc', Worker, "released") = Carried(igPc, Worker, "released")
      /\ Carried(igPc', Worker, "tracked") = Carried(igPc, Worker, "tracked")
      /\ Carried(igPc', KvStoreThread, "released") = Carried(igPc, KvStoreThread, "released")
  BY <1>1, <1>2 DEF Busy
<1>4. /\ igScene' = igScene /\ igPending' = igPending /\ igQueued' = igQueued
      /\ igPile' = igPile /\ igMerges' = igMerges
  BY DEF igTotals, igWork
<1>5. QueuedTotal(igQueued', igPile', igPc')
  BY <1>3, <1>4 DEF QueuedTotal, Accounts
<1>6. QueuedFits(igBooks', igPile', igPc')
  BY <1>3, <1>4 DEF QueuedFits, Accounts
<1>7. PendingFits(igBooks', igMerges', igPc', igScene'.sender)
  <2>1. PendingFits(igBooks, igMerges, igPc, igScene.sender)
    BY DEF Accounts
  <2>2. PendingFits(igBooks', igMerges, igPc', igScene.sender)
    BY <1>2, <2>1, PendingFitsStays
  <2>3. QED BY <1>4, <2>2
<1>8. PendingTotal(igPending', igBooks', igPc')
  BY <1>3, <1>4 DEF PendingTotal, Accounts
<1>9. QED BY <1>5, <1>6, <1>7, <1>8 DEF Quiet
--------------------------------------------------------------------------------
(* The books with n bytes more (or less) queued on a connection. *)
Shifted(b, a, c, d) ==
  /\ a \in Books /\ a.sender = b.sender /\ a.pending = b.pending
  /\ a.queued[c] = b.queued[c] + d /\ \A e \in Connections \ {c} : a.queued[e] = b.queued[e]
  /\ \A p \in IngressPeers : a.held[p] = b.held[p] + (IF b.sender[c] = p THEN d ELSE 0)
  /\ a.unknown = b.unknown + (IF c \in UnknownHolders(a) THEN 1 ELSE 0)
                           - (IF c \in UnknownHolders(b) THEN 1 ELSE 0)

(* What a queue that grows or shrinks does to the books. *)
LEMMA HeldAfter ==
  ASSUME NEW b \in Books, NEW a, NEW c \in Connections, NEW d \in Int,
         Shifted(b, a, c, d), HeldFits(b)
  PROVE  HeldFits(a)
<1>0. /\ a \in Books /\ a.sender = b.sender /\ a.pending = b.pending
      /\ a.queued[c] = b.queued[c] + d /\ \A e \in Connections \ {c} : a.queued[e] = b.queued[e]
      /\ \A p \in IngressPeers : a.held[p] = b.held[p] + (IF b.sender[c] = p THEN d ELSE 0)
  BY DEF Shifted
<1> SUFFICES ASSUME NEW p \in IngressPeers
             PROVE  a.held[p] = a.pending[p] + SumOver(a.queued, SendersOf(a, p))
  BY DEF HeldFits
<1>1. /\ SendersOf(a, p) = SendersOf(b, p) /\ IsFiniteSet(SendersOf(b, p))
      /\ \A e \in SendersOf(b, p) : e \in Connections /\ b.queued[e] \in Int /\ a.queued[e] \in Int
  BY <1>0, PeersAssumption, FS_Subset DEF SendersOf, Books
<1>2. b.held[p] = b.pending[p] + SumOver(b.queued, SendersOf(b, p))
  BY DEF HeldFits
<1>3. SumOver(b.queued, SendersOf(b, p)) \in Int /\ b.pending[p] \in Int /\ b.held[p] \in Int
  <2>1. SumOver(b.queued, SendersOf(b, p)) \in Int
    BY <1>1, SumUnfolds
  <2>2. b.pending[p] \in Nat /\ b.held[p] \in Int
    BY DEF Books
  <2>3. QED BY SMT, <2>1, <2>2
<1>4. CASE b.sender[c] = p
  <2>1. c \in SendersOf(b, p)
    BY <1>4 DEF SendersOf
  <2>2. SumOver(a.queued, SendersOf(b, p)) = SumOver(b.queued, SendersOf(b, p)) +
          (a.queued[c] - b.queued[c])
    <3>1. ChangesAt(b.queued, a.queued, SendersOf(b, p), c)
      BY <1>0, <1>1, <2>1, SumChanges
    <3>2. QED BY <3>1 DEF ChangesAt
  <2>3. a.queued[c] \in Int /\ b.queued[c] \in Int
    BY <1>1, <2>1
  <2>4. a.held[p] = b.held[p] + d
    BY <1>0, <1>4
  <2>5. a.pending[p] = b.pending[p]
    BY <1>0
  <2>6. QED BY SMT, <1>0, <1>1, <1>2, <1>3, <2>2, <2>3, <2>4, <2>5
<1>5. CASE b.sender[c] # p
  <2>1. c \notin SendersOf(b, p)
    BY <1>5 DEF SendersOf
  <2>2. \A e \in SendersOf(b, p) : b.queued[e] \in Int /\ b.queued[e] = a.queued[e]
    BY <1>0, <1>1, <2>1
  <2>3. SumOver(a.queued, SendersOf(b, p)) = SumOver(b.queued, SendersOf(b, p))
    BY <1>1, <2>2, SumSame
  <2>4. a.held[p] = b.held[p] + 0
    BY <1>0, <1>5
  <2>5. QED BY SMT, <1>0, <1>1, <1>2, <1>3, <2>3, <2>4
<1>6. QED BY <1>4, <1>5

(* One more, one less, or as many connections of unknown senders that hold bytes. *)
LEMMA UnknownAfter ==
  ASSUME NEW b \in Books, NEW a \in Books, NEW c \in Connections, UnknownFits(b),
         \A e \in Connections \ {c} : (e \in UnknownHolders(a) <=> e \in UnknownHolders(b)),
         a.unknown = b.unknown + (IF c \in UnknownHolders(a) THEN 1 ELSE 0)
                               - (IF c \in UnknownHolders(b) THEN 1 ELSE 0)
  PROVE  UnknownFits(a)
<1>1. /\ IsFiniteSet(UnknownHolders(a)) /\ IsFiniteSet(UnknownHolders(b))
      /\ UnknownHolders(a) \subseteq Connections /\ UnknownHolders(b) \subseteq Connections
  BY PeersAssumption, FS_Subset DEF UnknownHolders
<1>2. Cardinality(UnknownHolders(a)) \in Nat /\ Cardinality(UnknownHolders(b)) \in Nat
  BY <1>1, FS_CardinalityType
<1>3. b.unknown = Cardinality(UnknownHolders(b)) /\ b.unknown \in Int
  BY DEF UnknownFits, Books
<1>4. CASE c \in UnknownHolders(a) /\ c \notin UnknownHolders(b)
  <2>1. UnknownHolders(a) \ {c} = UnknownHolders(b)
    BY <1>1, <1>4
  <2>2. Cardinality(UnknownHolders(a)) = Cardinality(UnknownHolders(a) \ {c}) + 1
    BY <1>1, <1>4, RestIsSmaller
  <2>3. a.unknown = b.unknown + 1 - 0
    BY <1>4
  <2>4. Cardinality(UnknownHolders(a)) = Cardinality(UnknownHolders(b)) + 1
    BY <2>1, <2>2
  <2>5. a.unknown = Cardinality(UnknownHolders(a))
    BY SMT, <1>2, <1>3, <2>3, <2>4
  <2>6. QED BY <2>5 DEF UnknownFits
<1>5. CASE c \notin UnknownHolders(a) /\ c \in UnknownHolders(b)
  <2>1. UnknownHolders(b) \ {c} = UnknownHolders(a)
    BY <1>1, <1>5
  <2>2. Cardinality(UnknownHolders(b)) = Cardinality(UnknownHolders(b) \ {c}) + 1
    BY <1>1, <1>5, RestIsSmaller
  <2>3. a.unknown = b.unknown + 0 - 1
    BY <1>5
  <2>4. Cardinality(UnknownHolders(b)) = Cardinality(UnknownHolders(a)) + 1
    BY <2>1, <2>2
  <2>5. a.unknown = Cardinality(UnknownHolders(a))
    BY SMT, <1>2, <1>3, <2>3, <2>4
  <2>6. QED BY <2>5 DEF UnknownFits
<1>6. CASE c \in UnknownHolders(a) <=> c \in UnknownHolders(b)
  <2>1. UnknownHolders(b) = UnknownHolders(a)
    <3>1. \A e \in Connections : e \in UnknownHolders(a) <=> e \in UnknownHolders(b)
      BY <1>6
    <3>2. QED BY <1>1, <3>1
  <2>2. a.unknown = b.unknown
    <3>1. a.unknown = b.unknown + 1 - 1 \/ a.unknown = b.unknown + 0 - 0
      BY <1>6
    <3>2. QED BY SMT, <1>3, <3>1
  <2>3. QED BY <1>3, <2>1, <2>2 DEF UnknownFits
<1>7. QED BY <1>4, <1>5, <1>6

--------------------------------------------------------------------------------
(* Books shifted by the queued bytes of one connection fit again. *)
LEMMA ShiftedFits ==
  ASSUME NEW b \in Books, NEW a, NEW c \in Connections, NEW d \in Int,
         Shifted(b, a, c, d), HeldFits(b), UnknownFits(b)
  PROVE  HeldFits(a) /\ UnknownFits(a)
<1>1. HeldFits(a)
  BY HeldAfter
<1>2. \A e \in Connections \ {c} : (e \in UnknownHolders(a) <=> e \in UnknownHolders(b))
  BY DEF Shifted, UnknownHolders
<1>3. UnknownFits(a)
  BY <1>2, UnknownAfter DEF Shifted
<1>4. QED BY <1>1, <1>3

(* The books after n bytes are queued on a connection, or taken from it. *)
Plus(b, c, n) == [addQueuedBytes(b, c, b.queued[c], n) EXCEPT !.queued[c] = @ + n]
Minus(b, c, n) == [releaseQueuedBytes(b, c, b.queued[c], n) EXCEPT !.queued[c] = @ - n]

(* addQueuedBytes and the count of the connection shift the books up. *)
LEMMA PlusShifts ==
  ASSUME NEW b \in Books, NEW c \in Connections, NEW n \in Nat, b.queued[c] \in Nat
  PROVE  Shifted(b, Plus(b, c, n), c, n)
<1> DEFINE a == Plus(b, c, n)
<1>0. n \in Int /\ b.queued[c] \in Int
  BY SMT
<1>1. a \in Books
  BY <1>0, AddType, QueuedType DEF Plus
<1>2. /\ a.sender = b.sender /\ a.pending = b.pending
      /\ a.queued = [b.queued EXCEPT ![c] = @ + n]
  BY SMT DEF Plus, addQueuedBytes, Books
<1>3. \A p \in IngressPeers : a.held[p] = b.held[p] + (IF b.sender[c] = p THEN n ELSE 0)
  BY SMT, PeersAssumption DEF Plus, addQueuedBytes, Books
<1>4. a.unknown = b.unknown + (IF n > 0 /\ b.sender[c] = NoPeer /\ b.queued[c] = 0 THEN 1 ELSE 0)
  BY SMT DEF Plus, addQueuedBytes, Books
<1>5. a.queued[c] = b.queued[c] + n /\ \A e \in Connections \ {c} : a.queued[e] = b.queued[e]
  BY <1>2 DEF Books
<1>6. /\ c \in UnknownHolders(a) <=> (b.sender[c] = NoPeer /\ b.queued[c] + n > 0)
      /\ c \in UnknownHolders(b) <=> (b.sender[c] = NoPeer /\ b.queued[c] > 0)
  BY <1>2, <1>5 DEF UnknownHolders
<1>7. a.unknown = b.unknown + (IF c \in UnknownHolders(a) THEN 1 ELSE 0)
                            - (IF c \in UnknownHolders(b) THEN 1 ELSE 0)
  <2>1. b.unknown \in Int
    BY DEF Books
  <2> HIDE DEF a
  <2>2. QED BY SMT, <1>4, <1>6, <2>1
<1>8. QED BY <1>1, <1>2, <1>3, <1>5, <1>7 DEF Shifted

(* releaseQueuedBytes and the count shift them down, when the bytes were there (its std::min *)
(* never cuts off).                                                                          *)
LEMMA MinusShifts ==
  ASSUME NEW b \in Books, NEW c \in Connections, NEW n \in Nat, b.queued[c] \in Nat,
         n <= b.queued[c], b.sender[c] # NoPeer => b.queued[c] <= b.held[b.sender[c]]
  PROVE  Shifted(b, Minus(b, c, n), c, 0 - n)
<1> DEFINE a == Minus(b, c, n)
<1>0. n \in Int /\ b.queued[c] \in Int /\ 0 - n \in Int
  BY SMT
<1>1. a \in Books
  BY <1>0, ReleaseType, QueuedType DEF Minus
<1>m. b.sender[c] # NoPeer => /\ b.sender[c] \in IngressPeers /\ b.held[b.sender[c]] \in Int
                              /\ Min({n, b.held[b.sender[c]]}) = n
  <2>1. SUFFICES ASSUME b.sender[c] # NoPeer
                 PROVE  /\ b.sender[c] \in IngressPeers /\ b.held[b.sender[c]] \in Int
                        /\ Min({n, b.held[b.sender[c]]}) = n
    OBVIOUS
  <2>2. b.sender[c] \in IngressPeers /\ b.held[b.sender[c]] \in Int
    BY <2>1 DEF Books
  <2>3. n <= b.held[b.sender[c]]
    BY SMT, <1>0, <2>1, <2>2
  <2>4. QED BY <1>0, <2>2, <2>3, MinOfTwo
<1>r. releaseQueuedBytes(b, c, b.queued[c], n) =
        IF n = 0 THEN b
        ELSE IF b.sender[c] # NoPeer THEN [b EXCEPT !.held[b.sender[c]] = @ - n]
        ELSE IF b.queued[c] = n THEN [b EXCEPT !.unknown = @ - 1] ELSE b
  BY <1>m DEF releaseQueuedBytes, Books
<1>2. /\ a.sender = b.sender /\ a.pending = b.pending
      /\ a.queued = [b.queued EXCEPT ![c] = @ - n]
  BY SMT, <1>r DEF Minus, Books
<1>3. \A p \in IngressPeers : a.held[p] = b.held[p] + (IF b.sender[c] = p THEN 0 - n ELSE 0)
  BY SMT, <1>r, PeersAssumption DEF Minus, Books
<1>4. a.unknown = b.unknown - (IF n > 0 /\ b.sender[c] = NoPeer /\ b.queued[c] = n THEN 1 ELSE 0)
  BY SMT, <1>r DEF Minus, Books
<1>5. a.queued[c] = b.queued[c] - n /\ \A e \in Connections \ {c} : a.queued[e] = b.queued[e]
  BY <1>2 DEF Books
<1>s. a.queued[c] = b.queued[c] + (0 - n)
  BY SMT, <1>0, <1>5
<1>6. /\ c \in UnknownHolders(a) <=> (b.sender[c] = NoPeer /\ b.queued[c] - n > 0)
      /\ c \in UnknownHolders(b) <=> (b.sender[c] = NoPeer /\ b.queued[c] > 0)
  BY <1>2, <1>5 DEF UnknownHolders
<1>7. a.unknown = b.unknown + (IF c \in UnknownHolders(a) THEN 1 ELSE 0)
                            - (IF c \in UnknownHolders(b) THEN 1 ELSE 0)
  <2>1. b.unknown \in Int
    BY DEF Books
  <2> HIDE DEF a
  <2>2. QED BY SMT, <1>4, <1>6, <2>1
<1>8. QED BY <1>1, <1>2, <1>3, <1>5, <1>s, <1>7 DEF Shifted

(* A peer holds at least what is pending and what one of its connections has queued. *)
LEMMA HeldAtLeast ==
  ASSUME NEW b \in Books, HeldFits(b), \A c \in Connections : b.queued[c] \in Nat,
    NEW p \in IngressPeers
  PROVE  b.pending[p] <= b.held[p] /\ \A c \in Connections : b.sender[c] = p =>
    b.queued[c] <= b.held[p]
<1>1. IsFiniteSet(SendersOf(b, p)) /\ \A c \in SendersOf(b, p) : b.queued[c] \in Nat
  BY PeersAssumption, FS_Subset DEF SendersOf
<1>2. /\ SumOver(b.queued, SendersOf(b, p)) \in Nat
      /\ \A c \in SendersOf(b, p) : b.queued[c] <= SumOver(b.queued, SendersOf(b, p))
  BY <1>1, SumNat
<1>3. b.held[p] = b.pending[p] + SumOver(b.queued, SendersOf(b, p)) /\ b.pending[p] \in Nat
  BY DEF HeldFits, Books
<1>4. b.pending[p] <= b.held[p]
  BY SMT, <1>2, <1>3
<1>5. ASSUME NEW c \in Connections, b.sender[c] = p PROVE b.queued[c] <= b.held[p]
  <2>1. c \in SendersOf(b, p)
    BY <1>5 DEF SendersOf
  <2>2. b.queued[c] <= SumOver(b.queued, SendersOf(b, p)) /\ b.queued[c] \in Nat
    BY <1>1, <1>2, <2>1
  <2>3. QED BY SMT, <1>2, <1>3, <2>2
<1>6. QED BY <1>4, <1>5

(* The books after the sender of a connection is known. *)
Recorded(b, a, c, p) ==
  /\ a.sender = [b.sender EXCEPT ![c] = p] /\ a.queued = b.queued /\ a.pending = b.pending
  /\ HeldFits(a) /\ UnknownFits(a)

(* The sender of a connection is recorded: its queued bytes move to the peer. *)
LEMMA RecordFits ==
  ASSUME NEW b \in Books, NEW c \in Connections, NEW p \in IngressPeers, b.queued[c] \in Nat,
         b.sender[c] = NoPeer, HeldFits(b), UnknownFits(b), NEW a, a = recordSenderId(b, c, p)
  PROVE  Recorded(b, a, c, p)
<1>0. a \in Books /\ NoPeer # p
  BY RecordType, PeersAssumption
<1>r. a = IF b.queued[c] = 0 THEN [b EXCEPT !.sender[c] = p]
          ELSE [b EXCEPT !.unknown = @ - 1, !.sender[c] = p, !.held[p] = @ + b.queued[c]]
  <2>1. CASE b.queued[c] = 0
    BY <1>0, <2>1 DEF recordSenderId, releaseQueuedBytes, addQueuedBytes
  <2>2. CASE b.queued[c] # 0
    <3>1. releaseQueuedBytes(b, c, b.queued[c], b.queued[c]) = [b EXCEPT !.unknown = @ - 1]
      BY <2>2 DEF releaseQueuedBytes
    <3>2. PICK m : m = [[b EXCEPT !.unknown = @ - 1] EXCEPT !.sender[c] = p]
      OBVIOUS
    <3>3. m = [b EXCEPT !.unknown = @ - 1, !.sender[c] = p] /\ m.sender[c] = p
      BY <3>2 DEF Books
    <3>4. addQueuedBytes(m, c, 0, b.queued[c]) = [m EXCEPT !.held[p] = @ + b.queued[c]]
      BY <1>0, <2>2, <3>3 DEF addQueuedBytes
    <3>5. a = addQueuedBytes(m, c, 0, b.queued[c])
      BY <1>0, <3>1, <3>2 DEF recordSenderId
    <3>6. QED BY <2>2, <3>3, <3>4, <3>5
  <2>3. QED BY <2>1, <2>2
<1>1. a.sender = [b.sender EXCEPT ![c] = p] /\ a.queued = b.queued /\ a.pending = b.pending
  BY SMT, <1>r DEF Books
<1>2. \A q \in IngressPeers : a.held[q] = b.held[q] + (IF q = p THEN b.queued[c] ELSE 0)
  BY SMT, <1>r DEF Books
<1>3. a.unknown = b.unknown - (IF b.queued[c] > 0 THEN 1 ELSE 0)
  BY SMT, <1>r DEF Books
<1>4. HeldFits(a)
  <2> SUFFICES ASSUME NEW q \in IngressPeers
               PROVE  a.held[q] = a.pending[q] + SumOver(a.queued, SendersOf(a, q))
    BY DEF HeldFits
  <2>1. b.held[q] = b.pending[q] + SumOver(b.queued, SendersOf(b, q))
    BY DEF HeldFits
  <2>2. IsFiniteSet(SendersOf(b, q)) /\ IsFiniteSet(SendersOf(a, q)) /\
          \A e \in Connections : b.queued[e] \in Int
    BY PeersAssumption, FS_Subset DEF SendersOf, Books
  <2>3. b.pending[q] \in Int /\ b.held[q] \in Int /\ SumOver(b.queued, SendersOf(b, q)) \in Int
    <3>1. SumOver(b.queued, SendersOf(b, q)) \in Int
      BY <2>2, SumUnfolds DEF SendersOf
    <3>2. b.pending[q] \in Nat /\ b.held[q] \in Int
      BY DEF Books
    <3>3. QED BY SMT, <3>1, <3>2
  <2>4. CASE q = p
    <3>1. Without(SendersOf(a, p), c, SendersOf(b, p)) /\ Ints(b.queued, SendersOf(a, p))
      BY <1>0, <1>1, <2>2, <2>4 DEF Without, Ints, SendersOf, Books
    <3>2. Splits(b.queued, SendersOf(a, p), c, SendersOf(b, p))
      BY <3>1, SumTakesTo
    <3>3. SumOver(a.queued, SendersOf(a, q)) = b.queued[c] + SumOver(b.queued, SendersOf(b, q))
      BY <1>1, <2>4, <3>2 DEF Splits
    <3>4. a.held[q] = b.held[q] + b.queued[c] /\ a.pending[q] = b.pending[q]
      BY <1>1, <1>2, <2>4
    <3>5. QED BY SMT, <2>1, <2>3, <3>3, <3>4
  <2>5. CASE q # p
    <3>1. SendersOf(a, q) = SendersOf(b, q)
      BY <1>0, <1>1, <2>5, PeersAssumption DEF SendersOf, Books
    <3>2. a.held[q] = b.held[q] + 0 /\ a.pending[q] = b.pending[q]
      BY <1>1, <1>2, <2>5
    <3>3. a.held[q] = b.held[q]
      BY SMT, <2>3, <3>2
    <3>4. QED BY <1>1, <2>1, <3>1, <3>2, <3>3
  <2>6. QED BY <2>4, <2>5
<1>5. UnknownFits(a)
  <2>1. \A e \in Connections \ {c} : (e \in UnknownHolders(a) <=> e \in UnknownHolders(b))
    BY <1>1 DEF UnknownHolders, Books
  <2>2. c \notin UnknownHolders(a) /\ (c \in UnknownHolders(b) <=> b.queued[c] > 0)
    BY <1>0, <1>1 DEF UnknownHolders, Books
  <2>3. a.unknown = b.unknown + (IF c \in UnknownHolders(a) THEN 1 ELSE 0)
                              - (IF c \in UnknownHolders(b) THEN 1 ELSE 0)
    <3>1. b.unknown \in Int
      BY DEF Books
    <3>2. QED BY SMT, <1>3, <2>2, <3>1
  <2>4. QED BY <1>0, <2>1, <2>3, UnknownAfter
<1>6. QED BY <1>1, <1>4, <1>5 DEF Recorded

--------------------------------------------------------------------------------
(* The merges that wait in KvStore's queue. *)
Requests == [peer : IngressPeers, bytes : Nat]

(* The bytes of one peer in the merges that wait are a sequence of naturals. *)
LEMMA OfPeerType ==
  ASSUME NEW q \in Seq(Requests), NEW p
  PROVE  OfPeer(q, p) \in Seq(Nat) /\ (q # <<>> => OfPeer(q, p) # <<>>)
<1>1. Len(q) \in Nat /\ DOMAIN q = 1 .. Len(q) /\ \A i \in 1 .. Len(q) : q[i] \in Requests
  BY SMT
<1>2. \A r \in Requests : (IF r.peer = p THEN r.bytes ELSE 0) \in Nat
  BY SMT DEF Requests
<1>3. OfPeer(q, p) \in [1 .. Len(q) -> Nat]
  BY <1>1, <1>2 DEF OfPeer
<1>4. OfPeer(q, p) \in Seq(Nat)
  BY SMT, <1>1, <1>3
<1>5. q # <<>> => OfPeer(q, p) # <<>>
  <2>1. DOMAIN OfPeer(q, p) = DOMAIN q
    BY DEF OfPeer
  <2> QED BY SMT, <2>1
<1>6. QED BY <1>4, <1>5

(* A merge that is added counts for its peer only. *)
LEMMA PeerSumAppend ==
  ASSUME NEW q \in Seq(Requests), NEW r \in Requests, NEW p
  PROVE  SumSeq(OfPeer(Append(q, r), p)) = SumSeq(OfPeer(q, p)) +
    (IF r.peer = p THEN r.bytes ELSE 0)
<1> DEFINE x == IF r.peer = p THEN r.bytes ELSE 0
<1>1. x \in Nat
  BY SMT DEF Requests
<1>2. OfPeer(q, p) \in Seq(Nat)
  BY OfPeerType
<1>3. OfPeer(Append(q, r), p) = Append(OfPeer(q, p), x)
  BY SMT DEF OfPeer, Requests
<1>4. SumSeq(Append(OfPeer(q, p), x)) = SumSeq(OfPeer(q, p)) + x
  <2> HIDE DEF x
  <2>1. QED BY <1>1, <1>2, SumSeqAppend
<1>5. QED BY <1>3, <1>4

(* So does the merge that is taken. *)
LEMMA PeerSumTail ==
  ASSUME NEW q \in Seq(Requests), q # <<>>, NEW p
  PROVE  SumSeq(OfPeer(q, p)) = (IF Head(q).peer = p THEN Head(q).bytes ELSE 0) +
    SumSeq(OfPeer(Tail(q), p))
<1>1. OfPeer(q, p) \in Seq(Nat) /\ OfPeer(q, p) # <<>>
  BY OfPeerType
<1>2. OfPeer(Tail(q), p) = Tail(OfPeer(q, p))
  BY SMT DEF OfPeer, Requests
<1>3. Head(OfPeer(q, p)) = IF Head(q).peer = p THEN Head(q).bytes ELSE 0
  BY SMT DEF OfPeer, Requests
<1>4. SumSeq(OfPeer(q, p)) = Head(OfPeer(q, p)) + SumSeq(Tail(OfPeer(q, p)))
  BY <1>1, SumSeqTail
<1>5. QED BY <1>2, <1>3, <1>4

(* What is counted is never negative. *)
LEMMA Counted ==
  ASSUME IngressTypes, Accounts
  PROVE  /\ \A c \in Connections : /\ SumSeq(igPile[c]) \in Nat /\ igBooks.queued[c] \in Nat
                                   /\ Carried(igPc, c, "admitted") \in Nat
                                   /\ igBooks.queued[c] = SumSeq(igPile[c]) +
                                        Carried(igPc, c, "admitted")
         /\ \A p \in IngressPeers : /\ SumSeq(OfPeer(igMerges, p)) \in Nat
                                    /\ TrackedFor(igPc, igScene.sender, p) \in Nat
<1>1. ASSUME NEW c \in Connections
      PROVE  /\ SumSeq(igPile[c]) \in Nat /\ igBooks.queued[c] \in Nat
             /\ Carried(igPc, c, "admitted") \in Nat
             /\ igBooks.queued[c] = SumSeq(igPile[c]) + Carried(igPc, c, "admitted")
  <2>1. igPile[c] \in Seq(Nat) /\ igPc[c].bytes \in Nat
    BY DEF IngressTypes, IngressThreads
  <2>2. SumSeq(igPile[c]) \in Nat
    BY <2>1, SumSeqType
  <2>3. Carried(igPc, c, "admitted") \in Nat
    BY SMT, <2>1 DEF Carried
  <2>4. igBooks.queued[c] = SumSeq(igPile[c]) + Carried(igPc, c, "admitted")
    BY DEF Accounts, QueuedFits
  <2>5. QED BY SMT, <2>2, <2>3, <2>4
<1>2. ASSUME NEW p \in IngressPeers
      PROVE  SumSeq(OfPeer(igMerges, p)) \in Nat /\ TrackedFor(igPc, igScene.sender, p) \in Nat
  <2>1. OfPeer(igMerges, p) \in Seq(Nat)
    BY OfPeerType DEF IngressTypes, Requests
  <2>2. SumSeq(OfPeer(igMerges, p)) \in Nat
    BY <2>1, SumSeqType
  <2>3. igPc[Worker].bytes \in Nat
    BY DEF IngressTypes, IngressThreads
  <2>4. TrackedFor(igPc, igScene.sender, p) \in Nat
    BY SMT, <2>3 DEF TrackedFor
  <2>5. QED BY <2>2, <2>4
<1>3. QED BY <1>1, <1>2

(* A step of one thread leaves what the others carry. *)
Moved(pc, qc, t, q) ==
  /\ \A u \in IngressThreads \ {t}, w \in Busy : Carried(qc, u, w) = Carried(pc, u, w)
  /\ \A w \in Busy : Carried(qc, t, w) = IF q.at = w THEN q.bytes ELSE 0
  /\ t # Worker => \A s, p : TrackedFor(qc, s, p) = TrackedFor(pc, s, p)

(* A step of one thread changes what this one carries and nothing else. *)
LEMMA OthersCarry ==
  ASSUME NEW pc \in Pcs, NEW qc, NEW t \in IngressThreads, NEW q, qc = [pc EXCEPT ![t] = q]
  PROVE  Moved(pc, qc, t, q)
<1>1. qc[t] = q /\ \A u \in IngressThreads \ {t} : qc[u] = pc[u]
  BY DEF Pcs
<1>2. Worker \in IngressThreads
  BY DEF IngressThreads
<1>3. ASSUME NEW u \in IngressThreads \ {t}, NEW w \in Busy
        PROVE Carried(qc, u, w) = Carried(pc, u, w)
  <2>1. qc[u] = pc[u]
    BY <1>1
  <2>2. QED BY SMT, <2>1 DEF Carried
<1>4. ASSUME NEW w \in Busy PROVE Carried(qc, t, w) = IF q.at = w THEN q.bytes ELSE 0
  <2>1. qc[t] = q
    BY <1>1
  <2>2. QED BY SMT, <2>1 DEF Carried
<1>5. ASSUME t # Worker, NEW s, NEW p PROVE TrackedFor(qc, s, p) = TrackedFor(pc, s, p)
  <2>1. qc[Worker] = pc[Worker]
    BY <1>1, <1>2, <1>5
  <2>2. QED BY SMT, <2>1 DEF TrackedFor
<1>6. QED BY <1>3, <1>4, <1>5 DEF Moved

(* The piles together, when one of them grows or shrinks. *)
PilesShift(pile, npile, n) ==
  /\ SumOver(PileSums(pile), Connections) \in Int
  /\ SumOver(PileSums(npile), Connections) = SumOver(PileSums(pile), Connections) + n

(* When one pile changes by n bytes, so do all together. *)
LEMMA PilesAfter ==
  ASSUME NEW pile, NEW npile, NEW c \in Connections, NEW n \in Int,
         \A e \in Connections : SumSeq(pile[e]) \in Nat, SumSeq(npile[c]) = SumSeq(pile[c]) + n,
         \A e \in Connections \ {c} : npile[e] = pile[e]
  PROVE  PilesShift(pile, npile, n)
<1>1. \A e \in Connections : PileSums(pile)[e] \in Int /\ PileSums(pile)[e] = SumSeq(pile[e])
  <2>1. \A x \in Nat : x \in Int
    BY SMT
  <2>2. QED BY <2>1 DEF PileSums
<1>2. \A e \in Connections \ {c} : PileSums(npile)[e] = PileSums(pile)[e]
  BY DEF PileSums
<1>3. PileSums(npile)[c] = PileSums(pile)[c] + n
  BY DEF PileSums
<1>4. PileSums(npile)[c] \in Int /\ PileSums(pile)[c] \in Int /\
        PileSums(npile)[c] - PileSums(pile)[c] = n
  <2>1. PileSums(pile)[c] \in Int
    BY <1>1
  <2>2. QED BY SMT, <1>3, <2>1
<1>5. ChangesAt(PileSums(pile), PileSums(npile), Connections, c)
  BY <1>1, <1>2, <1>4, SumChanges, PeersAssumption
<1>6. SumOver(PileSums(pile), Connections) \in Int
  BY <1>1, SumUnfolds, PeersAssumption
<1>7. QED BY <1>4, <1>5, <1>6 DEF ChangesAt, PilesShift

--------------------------------------------------------------------------------
(* A request is read: its bytes are on the connection and in the thread's hand, or it is *)
(* rejected (admitOpenrIngressKvStoreQueuedRequest).                                     *)
LEMMA AdmitBalances ==
  ASSUME IngressTypes, Accounts, NEW c \in Connections, NEW n \in igScene.sizes,
         admitOpenrIngressKvStoreQueuedRequest(c, n)
  PROVE  Accounts'
<1> USE DEF admitOpenrIngressKvStoreQueuedRequest
<1>1. CASE igBooks.queued[c] >= igScene.queuedLimit
  BY <1>1 DEF Accounts, igTotals, igWork
<1>2. CASE ~(igBooks.queued[c] >= igScene.queuedLimit)
  <2> DEFINE q == [at |-> "admitted", conn |-> c, bytes |-> n]
  <2>1. /\ n \in Nat /\ igBooks \in Books /\ igPc \in Pcs /\ c \in IngressThreads
        /\ Worker \in IngressThreads \ {c} /\ KvStoreThread \in IngressThreads \ {c}
        /\ MainThread \in IngressThreads \ {c} /\ igPc[c].at = "idle"
        /\ \A e \in Connections \ {c} : e \in IngressThreads \ {c}
    BY ScenesAssumption, ThreadsAssumption DEF IngressTypes, IngressThreads, Pcs, At
  <2>2. /\ igBooks' = Plus(igBooks, c, n) /\ igPc' = [igPc EXCEPT ![c] = q]
        /\ igScene' = igScene /\ igPending' = igPending /\ igQueued' = igQueued
        /\ igPile' = igPile /\ igMerges' = igMerges
    BY <1>2 DEF Plus, igTotals, igWork
  <2>3. Moved(igPc, igPc', c, q)
    BY <2>1, <2>2, OthersCarry
  <2>4. /\ Carried(igPc', c, "admitted") = n /\ Carried(igPc, c, "admitted") = 0
        /\ \A e \in Connections \ {c} : Carried(igPc', e, "admitted") = Carried(igPc, e, "admitted")
        /\ Carried(igPc', Worker, "released") = Carried(igPc, Worker, "released")
        /\ Carried(igPc', Worker, "tracked") = Carried(igPc, Worker, "tracked")
        /\ Carried(igPc', KvStoreThread, "released") = Carried(igPc, KvStoreThread, "released")
        /\ \A s, p : TrackedFor(igPc', s, p) = TrackedFor(igPc, s, p)
    <3>1. Carried(igPc, c, "admitted") = 0
      BY <2>1 DEF Carried
    <3>2. c # Worker
      BY <2>1
    <3>3. QED BY <2>1, <2>3, <3>1, <3>2 DEF Moved, Busy
  <2>5. Shifted(igBooks, igBooks', c, n)
    <3>1. igBooks.queued[c] \in Nat
      BY Counted
    <3>2. QED BY <2>1, <2>2, <3>1, PlusShifts
  <2>6. HeldFits(igBooks') /\ UnknownFits(igBooks')
    <3>1. n \in Int
      BY SMT, <2>1
    <3>2. QED BY <2>1, <2>5, <3>1, ShiftedFits DEF Accounts
  <2>7. Placed(igPc')
    <3>1. /\ igPc'[c].at = "admitted" /\ igPc'[Worker] = igPc[Worker] /\
               igPc'[KvStoreThread] = igPc[KvStoreThread]
          /\ igPc'[MainThread] = igPc[MainThread] /\ \A e \in Connections \ {c} : igPc'[e] = igPc[e]
      BY <2>1, <2>2 DEF Pcs
    <3>2. QED BY <3>1 DEF Placed, Accounts
  <2>8. QueuedFits(igBooks', igPile', igPc')
    <3>1. igBooks'.queued[c] = SumSeq(igPile'[c]) + Carried(igPc', c, "admitted")
      <4>1. igBooks'.queued[c] = igBooks.queued[c] + n
        BY <2>5 DEF Shifted
      <4>2. igBooks.queued[c] = SumSeq(igPile[c]) + 0 /\ SumSeq(igPile[c]) \in Nat
        BY <2>4, Counted
      <4>3. igBooks'.queued[c] = SumSeq(igPile[c]) + n
        BY SMT, <2>1, <4>1, <4>2
      <4>4. QED BY <2>2, <2>4, <4>3
    <3>2. \A e \in Connections \ {c} : igBooks'.queued[e] = igBooks.queued[e]
      BY <2>5 DEF Shifted
    <3>3. QED BY <2>2, <2>4, <3>1, <3>2 DEF QueuedFits, Accounts
  <2>9. igBooks'.pending = igBooks.pending /\ igBooks'.sender = igBooks.sender
    BY <2>5 DEF Shifted
  <2>10. /\ QueuedTotal(igQueued', igPile', igPc')
         /\ PendingFits(igBooks', igMerges', igPc', igScene'.sender)
         /\ PendingTotal(igPending', igBooks', igPc') /\ SendersFit(igBooks', igScene'.sender)
    <3>1. QueuedTotal(igQueued', igPile', igPc')
      BY <2>2, <2>4 DEF QueuedTotal, Accounts
    <3>2. PendingFits(igBooks', igMerges', igPc', igScene'.sender)
      <4>1. PendingFits(igBooks, igMerges, igPc, igScene.sender) /\ SameTracked(igPc, igPc')
        BY <2>4 DEF Accounts, SameTracked
      <4>2. PendingFits(igBooks', igMerges, igPc', igScene.sender)
        BY <2>9, <4>1, PendingFitsStays
      <4>3. QED BY <2>2, <4>2
    <3>3. PendingTotal(igPending', igBooks', igPc')
      BY <2>2, <2>4, <2>9 DEF PendingTotal, Accounts
    <3>4. SendersFit(igBooks', igScene'.sender)
      BY <2>2, <2>9 DEF SendersFit, Accounts
    <3>5. QED BY <3>1, <3>2, <3>3, <3>4
  <2>11. QED BY <2>6, <2>7, <2>8, <2>10 DEF Accounts
<1>3. QED BY <1>1, <1>2

(* The total and the pile take the bytes over from the thread. *)
LEMMA EnqueueBalances ==
  ASSUME IngressTypes, Accounts, NEW c \in Connections, Enqueue(c)
  PROVE  Accounts'
<1> USE DEF Enqueue
<1> DEFINE n == igPc[c].bytes
<1>1. /\ n \in Nat /\ igPc \in Pcs /\ c \in IngressThreads /\ igPile[c] \in Seq(Nat)
      /\ Worker \in IngressThreads \ {c} /\ KvStoreThread \in IngressThreads \ {c}
      /\ MainThread \in IngressThreads \ {c} /\ igPc[c].at = "admitted"
      /\ \A e \in Connections \ {c} : e \in IngressThreads \ {c}
  BY ThreadsAssumption DEF IngressTypes, IngressThreads, Pcs, At
<1>2. /\ igBooks' = igBooks /\ igPc' = [igPc EXCEPT ![c] = Idle] /\ Idle.at = "idle" /\
           Idle.bytes = 0
      /\ igScene' = igScene /\ igPending' = igPending /\ igQueued' = igQueued + n
      /\ igMerges' = igMerges /\ igPile'[c] = Append(igPile[c], n)
      /\ \A e \in Connections \ {c} : igPile'[e] = igPile[e]
  BY DEF Rest, Idle, IngressTypes
<1>3. Moved(igPc, igPc', c, Idle)
  BY <1>1, <1>2, OthersCarry
<1>4. /\ Carried(igPc', c, "admitted") = 0 /\ Carried(igPc, c, "admitted") = n
      /\ \A e \in Connections \ {c} : Carried(igPc', e, "admitted") = Carried(igPc, e, "admitted")
      /\ Carried(igPc', Worker, "released") = Carried(igPc, Worker, "released")
      /\ Carried(igPc', Worker, "tracked") = Carried(igPc, Worker, "tracked")
      /\ Carried(igPc', KvStoreThread, "released") = Carried(igPc, KvStoreThread, "released")
      /\ \A s, p : TrackedFor(igPc', s, p) = TrackedFor(igPc, s, p)
  <2>1. Carried(igPc, c, "admitted") = n
    BY <1>1 DEF Carried
  <2>2. c # Worker
    BY <1>1
  <2>3. QED BY <1>1, <1>2, <1>3, <2>1, <2>2 DEF Moved, Busy
<1>5. Placed(igPc')
  <2>1. /\ igPc'[c].at = "idle" /\ igPc'[Worker] = igPc[Worker] /\
             igPc'[KvStoreThread] = igPc[KvStoreThread]
        /\ igPc'[MainThread] = igPc[MainThread] /\ \A e \in Connections \ {c} : igPc'[e] = igPc[e]
    BY <1>1, <1>2 DEF Pcs
  <2>2. QED BY <2>1 DEF Placed, Accounts
<1>6. SumSeq(igPile'[c]) = SumSeq(igPile[c]) + n /\ SumSeq(igPile[c]) \in Nat
  BY <1>1, <1>2, SumSeqAppend, SumSeqType
<1>7. QueuedFits(igBooks', igPile', igPc')
  <2>1. igBooks.queued[c] = SumSeq(igPile[c]) + n
    BY <1>4, Counted
  <2>2. igBooks.queued[c] = SumSeq(igPile'[c]) + 0
    BY SMT, <1>1, <1>6, <2>1
  <2>3. \A e \in Connections \ {c} : igBooks.queued[e] = SumSeq(igPile'[e]) +
          Carried(igPc', e, "admitted")
    BY <1>2, <1>4, Counted
  <2>4. QED BY <1>2, <1>4, <2>2, <2>3 DEF QueuedFits
<1>8. QueuedTotal(igQueued', igPile', igPc')
  <2>1. PilesShift(igPile, igPile', n)
    <3>1. n \in Int /\ \A e \in Connections : SumSeq(igPile[e]) \in Nat
      BY SMT, <1>1, Counted
    <3> HIDE DEF n
    <3>2. QED BY <1>2, <1>6, <3>1, PilesAfter
  <2>2. Carried(igPc, Worker, "released") \in Int
    <3>1. igPc[Worker].bytes \in Nat
      BY <1>1 DEF Pcs
    <3>2. QED BY SMT, <3>1 DEF Carried
  <2>3. igQueued = SumOver(PileSums(igPile), Connections) + Carried(igPc, Worker, "released")
    BY DEF Accounts, QueuedTotal
  <2>4. igQueued' = igQueued + n
    BY <1>2
  <2>5. igQueued' = SumOver(PileSums(igPile'), Connections) + Carried(igPc, Worker, "released")
    <3> HIDE DEF n
    <3>1. QED BY SMT, <1>1, <2>1, <2>2, <2>3, <2>4 DEF PilesShift
  <2>6. QED BY <1>4, <2>5 DEF QueuedTotal
<1>9. PendingFits(igBooks', igMerges', igPc', igScene'.sender)
  <2>1. PendingFits(igBooks, igMerges, igPc, igScene.sender) /\ SameTracked(igPc, igPc')
    BY <1>4 DEF Accounts, SameTracked
  <2>2. PendingFits(igBooks', igMerges, igPc', igScene.sender)
    BY <1>2, <2>1, PendingFitsStays
  <2>3. QED BY <1>2, <2>2
<1>10. PendingTotal(igPending', igBooks', igPc')
  BY <1>2, <1>4 DEF PendingTotal, Accounts
<1>11. QED BY <1>2, <1>5, <1>7, <1>8, <1>9, <1>10 DEF Accounts

(* The worker takes a request: its bytes leave the books and are in the worker's hand until *)
(* the total follows (releaseOpenrIngressKvStoreQueuedRequest).                             *)
LEMMA TakeBalances ==
  ASSUME IngressTypes, Accounts, NEW c \in Connections, releaseOpenrIngressKvStoreQueuedRequest(c)
  PROVE  Accounts'
<1> DEFINE n == Head(igPile[c])
           q == [at |-> "released", conn |-> c, bytes |-> n]
<1>1. /\ igPc \in Pcs /\ igBooks \in Books /\ Worker \in IngressThreads /\
           igPile[c] \in Seq(Nat) /\ igPile[c] # <<>>
      /\ c \in IngressThreads \ {Worker} /\ KvStoreThread \in IngressThreads \ {Worker}
      /\ MainThread \in IngressThreads \ {Worker} /\ igPc[Worker].at = "idle"
      /\ \A e \in Connections : e \in IngressThreads \ {Worker}
  BY ThreadsAssumption DEF IngressTypes, IngressThreads, Pcs, At,
       releaseOpenrIngressKvStoreQueuedRequest
<1>n. n \in Nat /\ 0 - n \in Int
  <2>1. n \in Nat
    BY <1>1, HeadAndTail
  <2> HIDE DEF n
  <2>2. QED BY SMT, <2>1
<1>2. /\ igBooks' = Minus(igBooks, c, n) /\ igPc' = [igPc EXCEPT ![Worker] = q]
      /\ igScene' = igScene /\ igPending' = igPending /\ igQueued' = igQueued
      /\ igMerges' = igMerges /\ igPile'[c] = Tail(igPile[c])
      /\ \A e \in Connections \ {c} : igPile'[e] = igPile[e]
  BY DEF IngressTypes, Minus, igTotals, releaseOpenrIngressKvStoreQueuedRequest
<1>q. q.at = "released" /\ q.bytes = n
  OBVIOUS
<1> HIDE DEF q
<1>3. Moved(igPc, igPc', Worker, q)
  BY <1>1, <1>2, OthersCarry
<1>4. /\ \A e \in Connections : Carried(igPc', e, "admitted") = Carried(igPc, e, "admitted")
      /\ Carried(igPc', Worker, "released") = n /\ Carried(igPc, Worker, "released") = 0
      /\ Carried(igPc', Worker, "tracked") = Carried(igPc, Worker, "tracked")
      /\ Carried(igPc', KvStoreThread, "released") = Carried(igPc, KvStoreThread, "released")
  <2>1. Carried(igPc, Worker, "released") = 0 /\ Carried(igPc, Worker, "tracked") = 0
    BY <1>1 DEF Carried
  <2>2. QED BY <1>1, <1>q, <1>3, <2>1 DEF Moved, Busy
<1>5. SameTracked(igPc, igPc')
  <2>1. igPc'[Worker].at = "released"
    BY <1>1, <1>2, <1>q DEF Pcs
  <2>2. QED BY <1>1, <2>1 DEF SameTracked, TrackedFor
<1>6. Placed(igPc')
  <2>1. /\ igPc'[Worker].at = "released" /\ igPc'[KvStoreThread] = igPc[KvStoreThread]
        /\ igPc'[MainThread] = igPc[MainThread] /\ \A e \in Connections : igPc'[e] = igPc[e]
    BY <1>1, <1>2, <1>q DEF Pcs
  <2>2. QED BY <2>1 DEF Placed, Accounts
<1>7. /\ SumSeq(igPile[c]) = n + SumSeq(igPile'[c]) /\ SumSeq(igPile'[c]) \in Nat /\
           SumSeq(igPile[c]) \in Nat
  <2>1. Tail(igPile[c]) \in Seq(Nat)
    BY <1>1, HeadAndTail
  <2>2. QED BY <1>1, <1>2, <2>1, SumSeqTail, SumSeqType
<1>8. /\ igBooks.queued[c] \in Nat /\ Carried(igPc, c, "admitted") \in Nat
      /\ igBooks.queued[c] = SumSeq(igPile[c]) + Carried(igPc, c, "admitted")
  BY Counted
<1>9. Shifted(igBooks, igBooks', c, 0 - n)
  <2>1. n <= igBooks.queued[c]
    <3> HIDE DEF n
    <3>1. QED BY SMT, <1>n, <1>7, <1>8
  <2>2. igBooks.sender[c] # NoPeer => igBooks.queued[c] <= igBooks.held[igBooks.sender[c]]
    <3>1. igBooks.sender[c] # NoPeer => igBooks.sender[c] \in IngressPeers
      BY <1>1 DEF Books
    <3>2. HeldFits(igBooks) /\ \A e \in Connections : igBooks.queued[e] \in Nat
      BY Counted DEF Accounts
    <3>3. QED BY <1>1, <3>1, <3>2, HeldAtLeast
  <2> HIDE DEF n
  <2>3. Shifted(igBooks, Minus(igBooks, c, n), c, 0 - n)
    BY <1>1, <1>n, <1>8, <2>1, <2>2, MinusShifts
  <2>4. QED BY <1>2, <2>3
<1> HIDE DEF n
<1>10. HeldFits(igBooks') /\ UnknownFits(igBooks')
  BY <1>1, <1>n, <1>9, ShiftedFits DEF Accounts
<1>11. QueuedFits(igBooks', igPile', igPc')
  <2>1. igBooks'.queued[c] = igBooks.queued[c] + (0 - n) /\
          \A e \in Connections \ {c} : igBooks'.queued[e] = igBooks.queued[e]
    BY <1>9 DEF Shifted
  <2>2. igBooks'.queued[c] = SumSeq(igPile'[c]) + Carried(igPc, c, "admitted")
    BY SMT, <1>n, <1>7, <1>8, <2>1
  <2>3. \A e \in Connections \ {c} : igBooks'.queued[e] = SumSeq(igPile'[e]) +
          Carried(igPc', e, "admitted")
    BY <1>2, <1>4, <2>1, Counted
  <2>4. QED BY <1>4, <2>2, <2>3 DEF QueuedFits
<1>12. QueuedTotal(igQueued', igPile', igPc')
  <2>1. PilesShift(igPile, igPile', 0 - n)
    <3>1. SumSeq(igPile'[c]) = SumSeq(igPile[c]) + (0 - n)
      BY SMT, <1>n, <1>7
    <3>2. \A e \in Connections : SumSeq(igPile[e]) \in Nat
      BY Counted
    <3>3. QED BY <1>n, <1>2, <3>1, <3>2, PilesAfter
  <2>2. igQueued = SumOver(PileSums(igPile), Connections) + 0
    BY <1>4 DEF Accounts, QueuedTotal
  <2>3. igQueued = SumOver(PileSums(igPile'), Connections) + n
    BY SMT, <1>n, <2>1, <2>2 DEF PilesShift
  <2>4. QED BY <1>2, <1>4, <2>3 DEF QueuedTotal
<1>13. igBooks'.pending = igBooks.pending /\ igBooks'.sender = igBooks.sender
  BY <1>9 DEF Shifted
<1>14. PendingFits(igBooks', igMerges', igPc', igScene'.sender)
  <2>1. PendingFits(igBooks, igMerges, igPc, igScene.sender)
    BY DEF Accounts
  <2>2. PendingFits(igBooks', igMerges, igPc', igScene.sender)
    BY <1>5, <1>13, <2>1, PendingFitsStays
  <2>3. QED BY <1>2, <2>2
<1>15. PendingTotal(igPending', igBooks', igPc')
  BY <1>2, <1>4, <1>13 DEF PendingTotal, Accounts
<1>16. SendersFit(igBooks', igScene'.sender)
  BY <1>2, <1>13 DEF SendersFit, Accounts
<1>17. QED BY <1>6, <1>10, <1>11, <1>12, <1>14, <1>15, <1>16 DEF Accounts

(* The total follows: queued bytes in the worker, pending ones in KvStore's thread. *)
LEMMA SubtractBalances ==
  ASSUME IngressTypes, Accounts, NEW t \in IngressThreads, Subtract(t)
  PROVE  Accounts'
<1> USE DEF Subtract
<1> DEFINE n == igPc[t].bytes
           q == [igPc[t] EXCEPT !.at = "check"]
<1>1. /\ igPc \in Pcs /\ igPc[t].at = "released" /\ n \in Nat /\ q.at = "check"
      /\ Worker \in IngressThreads /\ KvStoreThread \in IngressThreads /\
           MainThread \in IngressThreads
      /\ \A e \in Connections : e \in IngressThreads
      /\ Worker \notin Connections /\ KvStoreThread \notin Connections /\
           MainThread \notin Connections
      /\ KvStoreThread # Worker /\ MainThread # Worker /\ MainThread # KvStoreThread
  BY ThreadsAssumption DEF IngressTypes, IngressThreads, Pcs, At
<1>2. t = Worker \/ t = KvStoreThread
  BY <1>1 DEF Accounts, Placed, IngressThreads
<1>3. /\ igPc' = [igPc EXCEPT ![t] = q] /\ igBooks' = igBooks /\ igScene' = igScene /\
           igPile' = igPile
      /\ igMerges' = igMerges
      /\ t = Worker => igQueued' = igQueued - n /\ igPending' = igPending
      /\ t # Worker => igPending' = igPending - n /\ igQueued' = igQueued
  BY <1>1 DEF Go, Pcs, igWork
<1>4. Moved(igPc, igPc', t, q)
  BY <1>1, <1>3, OthersCarry
<1>5. /\ \A e \in Connections : Carried(igPc', e, "admitted") = Carried(igPc, e, "admitted")
      /\ Carried(igPc', t, "released") = 0 /\ Carried(igPc, t, "released") = n
      /\ \A u \in IngressThreads \ {t} : Carried(igPc', u, "released") =
           Carried(igPc, u, "released")
      /\ Carried(igPc', Worker, "tracked") = Carried(igPc, Worker, "tracked")
  <2>1. Carried(igPc, t, "released") = n /\ Carried(igPc, t, "tracked") = 0
    BY <1>1 DEF Carried
  <2>2. Carried(igPc', t, "released") = 0 /\ Carried(igPc', t, "tracked") = 0
    BY <1>1, <1>4 DEF Moved, Busy
  <2>3. QED BY <1>1, <1>2, <1>4, <2>1, <2>2 DEF Moved, Busy
<1>6. SameTracked(igPc, igPc')
  <2>1. CASE t = Worker
    <3>1. igPc'[Worker].at = "check"
      BY <1>1, <1>3, <2>1 DEF Pcs
    <3>2. QED BY <1>1, <2>1, <3>1 DEF SameTracked, TrackedFor
  <2>2. CASE t # Worker
    BY <1>4, <2>2 DEF Moved, SameTracked
  <2>3. QED BY <2>1, <2>2
<1>7. Placed(igPc')
  <2>1. igPc'[t].at = "check" /\ \A u \in IngressThreads \ {t} : igPc'[u] = igPc[u]
    BY <1>1, <1>3 DEF Pcs
  <2>2. Placed(igPc)
    BY DEF Accounts
  <2>3. CASE t = Worker
    BY <1>1, <2>1, <2>2, <2>3 DEF Placed
  <2>4. CASE t = KvStoreThread
    BY <1>1, <2>1, <2>2, <2>4 DEF Placed
  <2>5. QED BY <1>2, <2>3, <2>4
<1> HIDE DEF n, q
<1>8. QueuedFits(igBooks', igPile', igPc')
  BY <1>3, <1>5 DEF QueuedFits, Accounts
<1>9. PendingFits(igBooks', igMerges', igPc', igScene'.sender)
  <2>1. PendingFits(igBooks, igMerges, igPc, igScene.sender)
    BY DEF Accounts
  <2>2. PendingFits(igBooks', igMerges, igPc', igScene.sender)
    BY <1>3, <1>6, <2>1, PendingFitsStays
  <2>3. QED BY <1>3, <2>2
<1>10. SumOver(PileSums(igPile), Connections) \in Int /\
         SumOver(igBooks.pending, IngressPeers) \in Int
       /\ igPending \in Int /\ Carried(igPc, Worker, "tracked") \in Int
  <2>1. \A x \in Nat : x \in Int
    BY SMT
  <2>2. \A e \in Connections : PileSums(igPile)[e] \in Int
    BY <2>1, Counted DEF PileSums
  <2>3. \A p \in IngressPeers : igBooks.pending[p] \in Int
    BY <2>1 DEF IngressTypes, Books
  <2>4. Carried(igPc, Worker, "tracked") \in Int
    <3>1. igPc[Worker].bytes \in Nat
      BY <1>1 DEF Pcs
    <3>2. QED BY SMT, <3>1 DEF Carried
  <2>5. igPending \in Int
    BY DEF IngressTypes
  <2>6. QED BY <2>2, <2>3, <2>4, <2>5, SumUnfolds, PeersAssumption
<1>11. QueuedTotal(igQueued', igPile', igPc')
  <2>1. CASE t = Worker
    <3>1. igQueued = SumOver(PileSums(igPile), Connections) + n
      BY <1>5, <2>1 DEF Accounts, QueuedTotal
    <3>2. igQueued - n = SumOver(PileSums(igPile), Connections) + 0
      BY SMT, <1>1, <1>10, <3>1
    <3>3. QED BY <1>3, <1>5, <2>1, <3>2 DEF QueuedTotal
  <2>2. CASE t # Worker
    BY <1>1, <1>3, <1>5, <2>2 DEF Accounts, QueuedTotal
  <2>3. QED BY <2>1, <2>2
<1>12. PendingTotal(igPending', igBooks', igPc')
  <2>1. CASE t = Worker
    BY <1>1, <1>3, <1>5, <2>1 DEF Accounts, PendingTotal
  <2>2. CASE t = KvStoreThread
    <3>1. igPending + Carried(igPc, Worker, "tracked") = SumOver(igBooks.pending, IngressPeers) + n
      BY <1>5, <2>2 DEF Accounts, PendingTotal
    <3>2. (igPending - n) + Carried(igPc, Worker, "tracked") =
            SumOver(igBooks.pending, IngressPeers) + 0
      BY SMT, <1>1, <1>10, <3>1
    <3>3. QED BY <1>1, <1>3, <1>5, <2>2, <3>2 DEF PendingTotal
  <2>3. QED BY <1>2, <2>1, <2>2
<1>13. QED BY <1>3, <1>7, <1>8, <1>9, <1>11, <1>12 DEF Accounts

(* Going to a place and ending a handler both set one program counter. *)
LEMMA MoveTo ==
  ASSUME IngressTypes, NEW t \in IngressThreads, NEW w \in Places,
    Go(t, w) \/ (Rest(t) /\ w = "idle")
  PROVE  \E q : igPc' = [igPc EXCEPT ![t] = q] /\ q.at = w
<1>1. CASE Go(t, w)
  <2>1. igPc' = [igPc EXCEPT ![t] = [igPc[t] EXCEPT !.at = w]]
    BY <1>1 DEF Go
  <2>2. [igPc[t] EXCEPT !.at = w].at = w
    BY DEF IngressTypes
  <2>3. QED BY <2>1, <2>2
<1>2. CASE Rest(t) /\ w = "idle"
  <2>1. igPc' = [igPc EXCEPT ![t] = Idle] /\ Idle.at = w
    BY <1>2 DEF Rest, Idle
  <2>2. QED BY <2>1
<1>3. QED BY <1>1, <1>2

(* Where each thread may be. *)
PlaceOf(t) ==
  CASE t \in Connections -> {"idle", "admitted", "pause", "recheck", "check", "resume"}
    [] t = KvStoreThread -> {"idle", "released", "check", "resume"}
    [] t = MainThread    -> {"idle", "resume"}
    [] OTHER -> {"idle", "released", "check", "resume", "handle", "track", "tracked"}

(* A thread that moves to one of its places leaves everybody in place. *)
LEMMA PlacedBy ==
  ASSUME IngressTypes, Placed(igPc), NEW t \in IngressThreads, NEW q,
         igPc' = [igPc EXCEPT ![t] = q], q.at \in PlaceOf(t)
  PROVE  Placed(igPc')
<1>1. igPc'[t] = q /\ \A u \in IngressThreads \ {t} : igPc'[u] = igPc[u]
  BY DEF IngressTypes
<1>2. \A u \in IngressThreads : u # t => igPc'[u].at = igPc[u].at
  BY <1>1
<1>3. CASE t \in Connections
  <2>1. igPc'[t].at \in {"idle", "admitted", "pause", "recheck", "check", "resume"}
    BY <1>1, <1>3, ThreadsAssumption DEF PlaceOf
  <2>2. QED BY <1>2, <1>3, <2>1, ThreadsAssumption DEF Placed, IngressThreads
<1>4. CASE t = KvStoreThread
  <2>1. igPc'[t].at \in {"idle", "released", "check", "resume"}
    BY <1>1, <1>4, ThreadsAssumption DEF PlaceOf
  <2>2. QED BY <1>2, <1>4, <2>1, ThreadsAssumption DEF Placed, IngressThreads
<1>5. CASE t = MainThread
  <2>1. igPc'[t].at \in {"idle", "resume"}
    BY <1>1, <1>5, ThreadsAssumption DEF PlaceOf
  <2>2. QED BY <1>2, <1>5, <2>1, ThreadsAssumption DEF Placed, IngressThreads
<1>6. CASE t = Worker
  <2>1. igPc'[t].at \in {"idle", "released", "check", "resume", "handle", "track", "tracked"}
    BY <1>1, <1>6, ThreadsAssumption DEF PlaceOf
  <2>2. QED BY <1>2, <1>6, <2>1, ThreadsAssumption DEF Placed, IngressThreads
<1>7. QED BY <1>3, <1>4, <1>5, <1>6 DEF IngressThreads

(* A step that moves a thread with nothing in its hand and touches no book. *)
LEMMA QuietBalances ==
  ASSUME IngressTypes, Accounts, NEW t \in IngressThreads, NEW w \in PlaceOf(t),
    w \in Places \ Busy,
         igPc[t].at \notin Busy, Go(t, w) \/ (Rest(t) /\ w = "idle"),
         UNCHANGED <<igScene, igBooks, igTotals, igWork>>
  PROVE  Accounts'
<1>1. PICK q : igPc' = [igPc EXCEPT ![t] = q] /\ q.at = w
  BY MoveTo
<1>2. UNCHANGED <<igScene, igTotals, igWork>> /\ igBooks' = igBooks /\ igScene' = igScene
  OBVIOUS
<1>3. Quiet'
  BY <1>1, <1>2, QuietStep
<1>4. Placed(igPc')
  BY <1>1, PlacedBy DEF Accounts
<1>5. QED BY <1>2, <1>3, <1>4 DEF Accounts, Quiet

(* The handler records the sender: bytes queued on the connection move to the peer. *)
LEMMA HandleBalances ==
  ASSUME IngressTypes, Accounts, HandleRequest
  PROVE  Accounts'
<1> DEFINE c == igPc[Worker].conn
           p == igScene.sender[c]
<1>1. /\ igPc \in Pcs /\ igBooks \in Books /\ Worker \in IngressThreads /\
           igPc[Worker].at = "handle"
      /\ c \in Connections /\ p \in IngressPeers
  BY ScenesAssumption DEF IngressTypes, IngressThreads, Pcs, At, HandleRequest
<1>2. PICK q : igPc' = [igPc EXCEPT ![Worker] = q] /\ q.at \in {"track", "idle"}
  <2>1. CASE Go(Worker, "track")
    <3>1. \E q : igPc' = [igPc EXCEPT ![Worker] = q] /\ q.at = "track"
      BY <1>1, <2>1, MoveTo DEF Places
    <3>2. QED BY <3>1
  <2>2. CASE Rest(Worker)
    <3>1. \E q : igPc' = [igPc EXCEPT ![Worker] = q] /\ q.at = "idle"
      BY <1>1, <2>2, MoveTo DEF Places
    <3>2. QED BY <3>1
  <2>3. QED BY <2>1, <2>2 DEF HandleRequest
<1>3. /\ UNCHANGED <<igScene, igTotals, igWork>>
      /\ igBooks' = igBooks \/ igBooks' = recordSenderId(igBooks, c, p)
  BY DEF HandleRequest
<1>s. igScene' = igScene
  BY <1>3
<1> HIDE DEF c, p
<1>4. /\ igPc[Worker].at \notin Busy /\ q.at \notin Busy
  BY <1>1, <1>2 DEF Busy
<1>5. Placed(igPc')
  <2>1. igPc'[Worker] = q /\ \A u \in IngressThreads \ {Worker} : igPc'[u] = igPc[u]
    BY <1>1, <1>2 DEF Pcs
  <2>2. /\ KvStoreThread \in IngressThreads \ {Worker} /\ MainThread \in IngressThreads \ {Worker}
        /\ \A e \in Connections : e \in IngressThreads \ {Worker}
    BY ThreadsAssumption DEF IngressThreads
  <2>3. QED BY <1>2, <2>1, <2>2 DEF Placed, Accounts
<1>6. /\ igBooks'.queued = igBooks.queued /\ igBooks'.pending = igBooks.pending
      /\ HeldFits(igBooks') /\ UnknownFits(igBooks') /\ SendersFit(igBooks', igScene.sender)
  <2>0. HeldFits(igBooks) /\ UnknownFits(igBooks) /\ SendersFit(igBooks, igScene.sender)
    BY DEF Accounts
  <2>1. CASE igBooks' = igBooks
    BY <2>0, <2>1
  <2>2. CASE igBooks' = recordSenderId(igBooks, c, p) /\ igBooks.sender[c] = p
    <3>1. igBooks' = igBooks
      BY <2>2 DEF recordSenderId
    <3>2. QED BY <2>0, <3>1
  <2>3. CASE igBooks' = recordSenderId(igBooks, c, p) /\ igBooks.sender[c] # p
    <3>1. igBooks.sender[c] = NoPeer /\ igBooks.queued[c] \in Nat
      BY <1>1, <2>0, <2>3, Counted DEF SendersFit, p
    <3>2. Recorded(igBooks, igBooks', c, p)
      BY <1>1, <2>0, <2>3, <3>1, RecordFits
    <3>3. SendersFit(igBooks', igScene.sender)
      <4>1. igBooks'.sender = [igBooks.sender EXCEPT ![c] = p]
        BY <3>2 DEF Recorded
      <4>2. igBooks.sender \in [Connections -> IngressPeers \cup {NoPeer}]
        BY <1>1 DEF Books
      <4>3. QED BY <1>1, <2>0, <4>1, <4>2 DEF SendersFit, p
    <3>4. QED BY <3>2, <3>3 DEF Recorded
  <2>4. QED BY <1>3, <2>1, <2>2, <2>3
<1>7. Quiet'
  BY <1>1, <1>2, <1>3, <1>4, <1>6, QuietStep
<1>8. QED BY <1>s, <1>5, <1>6, <1>7 DEF Accounts, Quiet

(* Bytes of a request that KvStore is to merge become pending, first in the books and then in *)
(* the total (addOpenrIngressKvStorePendingMergeBytes).                                       *)
LEMMA TrackBalances ==
  ASSUME IngressTypes, Accounts, addOpenrIngressKvStorePendingMergeBytes
  PROVE  Accounts'
<1> DEFINE p == igScene.sender[igPc[Worker].conn]
           n == igPc[Worker].bytes
<1>1. /\ igPc \in Pcs /\ igBooks \in Books /\ Worker \in IngressThreads /\ n \in Nat
      /\ igPc[Worker].at \in {"track", "tracked"} /\ igMerges \in Seq(Requests)
      /\ KvStoreThread \in IngressThreads \ {Worker} /\
           \A e \in Connections : e \in IngressThreads \ {Worker}
  BY ThreadsAssumption DEF IngressTypes, IngressThreads, Pcs, Requests, At,
    addOpenrIngressKvStorePendingMergeBytes
<1>2. p \in IngressPeers
  BY <1>1, ScenesAssumption DEF IngressTypes
<1>3. \A r \in IngressPeers : igBooks.pending[r] \in Nat /\ igBooks.held[r] \in Int
  BY <1>1 DEF Books
<1>4. SumOver(igBooks.pending, IngressPeers) \in Int /\
        \A r \in IngressPeers : igBooks.pending[r] \in Int
  <2>1. \A x \in Nat : x \in Int
    BY SMT
  <2>2. QED BY <1>3, <2>1, SumUnfolds, PeersAssumption
<1>5. igPending \in Int /\ Carried(igPc, KvStoreThread, "released") \in Int
  <2>1. igPc[KvStoreThread].bytes \in Nat
    BY <1>1 DEF Pcs
  <2>2. Carried(igPc, KvStoreThread, "released") \in Int
    BY SMT, <2>1 DEF Carried
  <2>3. QED BY <2>2 DEF IngressTypes
<1>6. CASE /\ igPc[Worker].at = "track" /\ Go(Worker, "tracked")
           /\ igBooks' = [igBooks EXCEPT !.pending[p] = @ + n, !.held[p] = @ + n]
           /\ UNCHANGED <<igScene, igTotals, igPauses, igWork, igRequests>>
  <2> DEFINE q == [igPc[Worker] EXCEPT !.at = "tracked"]
  <2>1. /\ igPc' = [igPc EXCEPT ![Worker] = q] /\ q.at = "tracked" /\ q.bytes = n /\
             q.conn = igPc[Worker].conn
    BY <1>1, <1>6 DEF Go, Pcs
  <2>2. /\ igScene' = igScene /\ igPending' = igPending /\ igQueued' = igQueued
        /\ igPile' = igPile /\ igMerges' = igMerges
    BY <1>6 DEF igTotals, igWork
  <2>3. /\ igBooks'.sender = igBooks.sender /\ igBooks'.queued = igBooks.queued /\
             igBooks'.unknown = igBooks.unknown
        /\ igBooks'.pending[p] = igBooks.pending[p] + n /\ igBooks'.held[p] = igBooks.held[p] + n
        /\ \A r \in IngressPeers \ {p} : igBooks'.pending[r] = igBooks.pending[r] /\
             igBooks'.held[r] = igBooks.held[r]
    BY <1>1, <1>2, <1>6 DEF Books
  <2> HIDE DEF q
  <2>4. Moved(igPc, igPc', Worker, q)
    BY <1>1, <2>1, OthersCarry
  <2>5. /\ \A e \in Connections : Carried(igPc', e, "admitted") = Carried(igPc, e, "admitted")
        /\ Carried(igPc', Worker, "released") = Carried(igPc, Worker, "released")
        /\ Carried(igPc', Worker, "tracked") = n /\ Carried(igPc, Worker, "tracked") = 0
        /\ Carried(igPc', KvStoreThread, "released") = Carried(igPc, KvStoreThread, "released")
    <3>1. Carried(igPc, Worker, "released") = 0 /\ Carried(igPc, Worker, "tracked") = 0
      BY <1>6 DEF Carried
    <3>2. QED BY <1>1, <2>1, <2>4, <3>1 DEF Moved, Busy
  <2>6. igPc'[Worker] = q
    BY <1>1, <2>1 DEF Pcs
  <2>7. /\ TrackedFor(igPc', igScene.sender, p) = n
        /\ \A r \in IngressPeers : TrackedFor(igPc, igScene.sender, r) = 0
        /\ \A r \in IngressPeers \ {p} : TrackedFor(igPc', igScene.sender, r) = 0
    <3>1. \A r \in IngressPeers : TrackedFor(igPc, igScene.sender, r) = 0
      BY <1>6 DEF TrackedFor
    <3>2. TrackedFor(igPc', igScene.sender, p) = n
      BY <2>1, <2>6 DEF TrackedFor
    <3>3. \A r \in IngressPeers \ {p} : TrackedFor(igPc', igScene.sender, r) = 0
      BY <2>1, <2>6 DEF TrackedFor
    <3>4. QED BY <3>1, <3>2, <3>3
  <2> HIDE DEF n, p
  <2>8. Placed(igPc')
    <3>1. q.at \in PlaceOf(Worker)
      BY <2>1, ThreadsAssumption DEF PlaceOf
    <3>2. QED BY <1>1, <2>1, <3>1, PlacedBy DEF Accounts
  <2>9. QueuedFits(igBooks', igPile', igPc')
    BY <2>2, <2>3, <2>5 DEF QueuedFits, Accounts
  <2>10. QueuedTotal(igQueued', igPile', igPc')
    BY <2>2, <2>5 DEF QueuedTotal, Accounts
  <2>11. PendingFits(igBooks', igMerges', igPc', igScene'.sender)
    <3>1. ASSUME NEW r \in IngressPeers
          PROVE  igBooks'.pending[r] = SumSeq(OfPeer(igMerges, r)) +
            TrackedFor(igPc', igScene.sender, r)
      <4>1. igBooks.pending[r] = SumSeq(OfPeer(igMerges, r)) + 0 /\
              SumSeq(OfPeer(igMerges, r)) \in Nat
        BY <2>7, Counted DEF PendingFits, Accounts
      <4>2. CASE r = p
        <5>1. igBooks'.pending[r] = igBooks.pending[r] + n
          BY <2>3, <4>2
        <5>2. igBooks'.pending[r] = SumSeq(OfPeer(igMerges, r)) + n
          BY SMT, <1>1, <4>1, <5>1
        <5>3. QED BY <2>7, <4>2, <5>2
      <4>3. CASE r # p
        BY <2>3, <2>7, <4>1, <4>3
      <4>4. QED BY <4>2, <4>3
    <3>2. QED BY <2>2, <3>1 DEF PendingFits
  <2>12. PendingTotal(igPending', igBooks', igPc')
    <3>1. igBooks'.pending[p] \in Int /\ igBooks'.pending[p] - igBooks.pending[p] = n
      <4>1. igBooks.pending[p] \in Int
        BY <1>2, <1>4
      <4>2. QED BY SMT, <1>1, <2>3, <4>1
    <3>2. ChangesAt(igBooks.pending, igBooks'.pending, IngressPeers, p)
      BY <1>2, <1>4, <2>3, <3>1, SumChanges, PeersAssumption
    <3>3. SumOver(igBooks'.pending, IngressPeers) = SumOver(igBooks.pending, IngressPeers) + n
      BY <3>1, <3>2 DEF ChangesAt
    <3>4. igPending + 0 = SumOver(igBooks.pending, IngressPeers) +
            Carried(igPc, KvStoreThread, "released")
      BY <2>5 DEF PendingTotal, Accounts
    <3>5. igPending + n = SumOver(igBooks'.pending, IngressPeers) +
            Carried(igPc, KvStoreThread, "released")
      BY SMT, <1>1, <1>4, <1>5, <3>3, <3>4
    <3>6. QED BY <2>2, <2>5, <3>5 DEF PendingTotal
  <2>13. HeldFits(igBooks')
    <3>1. ASSUME NEW r \in IngressPeers
          PROVE  igBooks'.held[r] = igBooks'.pending[r] +
            SumOver(igBooks'.queued, SendersOf(igBooks', r))
      <4>1. SendersOf(igBooks', r) = SendersOf(igBooks, r)
        BY <2>3 DEF SendersOf
      <4>2. igBooks.held[r] = igBooks.pending[r] + SumOver(igBooks.queued, SendersOf(igBooks, r))
        BY DEF HeldFits, Accounts
      <4>3. SumOver(igBooks.queued, SendersOf(igBooks, r)) \in Int
        <5>1. IsFiniteSet(SendersOf(igBooks, r)) /\
                \A e \in SendersOf(igBooks, r) : igBooks.queued[e] \in Int
          BY <1>1, PeersAssumption, FS_Subset DEF SendersOf, Books
        <5>2. QED BY <5>1, SumUnfolds
      <4>4. CASE r = p
        <5>1. igBooks'.held[r] = igBooks.held[r] + n /\ igBooks'.pending[r] = igBooks.pending[r] + n
          BY <2>3, <4>4
        <5>2. igBooks.pending[r] \in Int
          BY <1>4
        <5>3. igBooks'.held[r] = igBooks'.pending[r] +
                SumOver(igBooks.queued, SendersOf(igBooks, r))
          BY SMT, <1>1, <4>2, <4>3, <5>1, <5>2
        <5>4. QED BY <2>3, <4>1, <5>3
      <4>5. CASE r # p
        BY <2>3, <4>1, <4>2, <4>5
      <4>6. QED BY <4>4, <4>5
    <3>2. QED BY <3>1 DEF HeldFits
  <2>14. UnknownFits(igBooks')
    BY <2>3 DEF UnknownFits, UnknownHolders, Accounts
  <2>15. SendersFit(igBooks', igScene'.sender)
    BY <2>2, <2>3 DEF SendersFit, Accounts
  <2>16. QED BY <2>8, <2>9, <2>10, <2>11, <2>12, <2>13, <2>14, <2>15 DEF Accounts
<1>7. CASE /\ igPc[Worker].at = "tracked" /\ Rest(Worker)
           /\ igPending' = igPending + n
           /\ igMerges' = Append(igMerges, [peer |-> p, bytes |-> n])
           /\ UNCHANGED <<igScene, igBooks, igQueued, igPauses, igPile, igRequests>>
  <2>1. igPc' = [igPc EXCEPT ![Worker] = Idle] /\ Idle.at = "idle" /\ Idle.bytes = 0
    BY <1>7 DEF Rest, Idle
  <2>2. Moved(igPc, igPc', Worker, Idle)
    BY <1>1, <2>1, OthersCarry
  <2>3. /\ \A e \in Connections : Carried(igPc', e, "admitted") = Carried(igPc, e, "admitted")
        /\ Carried(igPc', Worker, "released") = Carried(igPc, Worker, "released")
        /\ Carried(igPc', Worker, "tracked") = 0 /\ Carried(igPc, Worker, "tracked") = n
        /\ Carried(igPc', KvStoreThread, "released") = Carried(igPc, KvStoreThread, "released")
    <3>1. Carried(igPc, Worker, "released") = 0 /\ Carried(igPc, Worker, "tracked") = n
      BY <1>7 DEF Carried
    <3>2. QED BY <1>1, <2>1, <2>2, <3>1 DEF Moved, Busy
  <2>4. igPc'[Worker] = Idle
    BY <1>1, <2>1 DEF Pcs
  <2>5. \A r \in IngressPeers : /\ TrackedFor(igPc, igScene.sender, r) = IF p = r THEN n ELSE 0
                                /\ TrackedFor(igPc', igScene.sender, r) = 0
    <3>1. \A r \in IngressPeers : TrackedFor(igPc, igScene.sender, r) = IF p = r THEN n ELSE 0
      BY <1>7 DEF TrackedFor
    <3>2. \A r \in IngressPeers : TrackedFor(igPc', igScene.sender, r) = 0
      BY <2>1, <2>4 DEF TrackedFor
    <3>3. QED BY <3>1, <3>2
  <2>6. Placed(igPc')
    <3>1. Idle.at \in PlaceOf(Worker)
      BY <2>1, ThreadsAssumption DEF PlaceOf
    <3>2. QED BY <1>1, <2>1, <3>1, PlacedBy DEF Accounts
  <2>7. [peer |-> p, bytes |-> n] \in Requests
    BY <1>1, <1>2 DEF Requests
  <2>8. igScene' = igScene /\ igBooks' = igBooks /\ igQueued' = igQueued /\ igPile' = igPile
    BY <1>7
  <2> HIDE DEF n, p
  <2>9. PendingFits(igBooks', igMerges', igPc', igScene'.sender)
    <3>1. ASSUME NEW r \in IngressPeers
          PROVE  igBooks.pending[r] = SumSeq(OfPeer(igMerges', r)) + 0
      <4>1. /\ igBooks.pending[r] = SumSeq(OfPeer(igMerges, r)) + (IF p = r THEN n ELSE 0)
            /\ SumSeq(OfPeer(igMerges, r)) \in Nat
        BY <2>5, Counted DEF PendingFits, Accounts
      <4>2. SumSeq(OfPeer(igMerges', r)) = SumSeq(OfPeer(igMerges, r)) + (IF p = r THEN n ELSE 0)
        <5>1. PICK x \in Requests : x = [peer |-> p, bytes |-> n]
          BY <2>7
        <5>2. x.peer = p /\ x.bytes = n
          BY <5>1
        <5>3. SumSeq(OfPeer(Append(igMerges, x), r)) = SumSeq(OfPeer(igMerges, r)) +
                (IF x.peer = r THEN x.bytes ELSE 0)
          BY <1>1, PeerSumAppend
        <5>4. QED BY <1>7, <5>1, <5>2, <5>3
      <4>3. (IF p = r THEN n ELSE 0) \in Nat
        BY SMT, <1>1
      <4>4. SumSeq(OfPeer(igMerges', r)) = SumSeq(OfPeer(igMerges', r)) + 0
        BY SMT, <4>1, <4>2, <4>3
      <4>5. QED BY <4>1, <4>2, <4>4
    <3>2. QED BY <2>5, <2>8, <3>1 DEF PendingFits
  <2>10. PendingTotal(igPending', igBooks', igPc')
    <3>1. igPending + n = SumOver(igBooks.pending, IngressPeers) +
            Carried(igPc, KvStoreThread, "released")
      BY <2>3 DEF PendingTotal, Accounts
    <3>2. igPending' + 0 = igPending + n
      <4>1. igPending' = igPending + n
        BY <1>7
      <4>2. QED BY SMT, <1>1, <1>5, <4>1
    <3>3. QED BY <2>3, <2>8, <3>1, <3>2 DEF PendingTotal
  <2>11. QueuedFits(igBooks', igPile', igPc')
    BY <2>3, <2>8 DEF QueuedFits, Accounts
  <2>12. QueuedTotal(igQueued', igPile', igPc')
    BY <2>3, <2>8 DEF QueuedTotal, Accounts
  <2>13. QED BY <2>6, <2>8, <2>9, <2>10, <2>11, <2>12 DEF Accounts
<1>8. QED BY <1>6, <1>7 DEF addOpenrIngressKvStorePendingMergeBytes, At

(* A merge is done: its bytes leave the books, then the total *)
(* (releaseOpenrIngressKvStorePendingMergeBytes).             *)
LEMMA MergedBalances ==
  ASSUME IngressTypes, Accounts, releaseOpenrIngressKvStorePendingMergeBytes
  PROVE  Accounts'
<1> DEFINE m == Head(igMerges)
           released == Min({m.bytes, igBooks.pending[m.peer]})
           less == Min({released, igBooks.held[m.peer]})
           n == m.bytes
           p == m.peer
           q == [at |-> "released", conn |-> NoPeer, bytes |-> n]
<1>1. /\ igPc \in Pcs /\ igBooks \in Books /\ igMerges \in Seq(Requests) /\ igMerges # <<>>
      /\ KvStoreThread \in IngressThreads /\ igPc[KvStoreThread].at = "idle"
      /\ Worker \in IngressThreads \ {KvStoreThread} /\ Worker \in IngressThreads
      /\ \A e \in Connections : e \in IngressThreads \ {KvStoreThread}
  BY ThreadsAssumption DEF IngressTypes, IngressThreads, Pcs, Requests, At,
       releaseOpenrIngressKvStorePendingMergeBytes
<1>2. m \in Requests /\ n \in Nat /\ p \in IngressPeers
  <2>1. m \in Requests
    BY <1>1, HeadAndTail
  <2> HIDE DEF m
  <2>2. QED BY <2>1 DEF Requests
<1>3. \A r \in IngressPeers : SumSeq(OfPeer(igMerges, r)) =
                                (IF p = r THEN n ELSE 0) + SumSeq(OfPeer(igMerges', r))
  <2>1. igMerges' = Tail(igMerges)
    BY DEF releaseOpenrIngressKvStorePendingMergeBytes
  <2>2. QED BY <1>1, <2>1, PeerSumTail
<1>t. \A r \in IngressPeers : SumSeq(OfPeer(igMerges', r)) \in Nat
  <2>1. Tail(igMerges) \in Seq(Requests)
    BY <1>1, HeadAndTail
  <2>2. igMerges' \in Seq(Requests)
    BY <2>1 DEF releaseOpenrIngressKvStorePendingMergeBytes
  <2>3. QED BY <2>2, OfPeerType, SumSeqType
<1>4. /\ igBooks.pending[p] = SumSeq(OfPeer(igMerges, p)) + TrackedFor(igPc, igScene.sender, p)
      /\ TrackedFor(igPc, igScene.sender, p) \in Nat /\ igBooks.pending[p] \in Nat /\
           igBooks.held[p] \in Int
      /\ SumSeq(OfPeer(igMerges, p)) = n + SumSeq(OfPeer(igMerges', p)) /\
           SumSeq(OfPeer(igMerges', p)) \in Nat
  <2> HIDE DEF n, p, m
  <2>1. igBooks.pending[p] = SumSeq(OfPeer(igMerges, p)) + TrackedFor(igPc, igScene.sender, p)
    BY <1>2 DEF Accounts, PendingFits
  <2>2. QED BY <1>1, <1>2, <1>3, <1>t, <2>1, Counted DEF Books
<1>5. n <= igBooks.pending[p]
  <2> HIDE DEF n, p
  <2>1. QED BY SMT, <1>2, <1>4
<1>6. released = n
  <2>1. \A x, y \in Int : x <= y => Min({x, y}) = x
    BY MinOfTwo
  <2>2. m.bytes \in Int /\ igBooks.pending[m.peer] \in Int
    BY SMT, <1>2, <1>4
  <2> HIDE DEF m
  <2>3. QED BY <1>5, <2>1, <2>2
<1>7. igBooks.pending[p] <= igBooks.held[p]
  <2>1. HeldFits(igBooks) /\ \A c \in Connections : igBooks.queued[c] \in Nat
    BY Counted DEF Accounts
  <2> HIDE DEF p
  <2>2. QED BY <1>1, <1>2, <2>1, HeldAtLeast
<1>8. less = n
  <2>1. \A x, y \in Int : x <= y => Min({x, y}) = x
    BY MinOfTwo
  <2>2. n \in Int /\ igBooks.held[p] \in Int /\ n <= igBooks.held[p]
    <3> HIDE DEF n, p
    <3>1. QED BY SMT, <1>2, <1>4, <1>5, <1>7
  <2> HIDE DEF m, released
  <2>3. QED BY <1>6, <2>1, <2>2
<1>9. /\ igBooks' = [igBooks EXCEPT !.pending[p] = @ - n, !.held[p] = @ - n]
      /\ igPc' = [igPc EXCEPT ![KvStoreThread] = q]
      /\ igScene' = igScene /\ igPending' = igPending /\ igQueued' = igQueued /\ igPile' = igPile
  <2>1. /\ igBooks' = [igBooks EXCEPT !.pending[m.peer] = igBooks.pending[m.peer] - released,
                                      !.held[m.peer] = igBooks.held[m.peer] - less]
        /\ igPc' = [igPc EXCEPT ![KvStoreThread] =
             [at |-> "released", conn |-> NoPeer, bytes |-> released]]
        /\ igScene' = igScene /\ igPending' = igPending /\ igQueued' = igQueued /\ igPile' = igPile
    BY <1>1, <1>2 DEF releaseOpenrIngressKvStorePendingMergeBytes, Books, igTotals
  <2> HIDE DEF m, released, less
  <2>2. QED BY <1>1, <1>2, <1>6, <1>8, <2>1 DEF Books
<1>q. q.at = "released" /\ q.bytes = n
  OBVIOUS
<1> HIDE DEF m, released, less, n, p, q
<1>10. /\ igBooks'.sender = igBooks.sender /\ igBooks'.queued = igBooks.queued /\
            igBooks'.unknown = igBooks.unknown
       /\ igBooks'.pending[p] = igBooks.pending[p] - n /\ igBooks'.held[p] = igBooks.held[p] - n
       /\ \A r \in IngressPeers \ {p} : igBooks'.pending[r] = igBooks.pending[r] /\
            igBooks'.held[r] = igBooks.held[r]
  BY <1>1, <1>2, <1>9 DEF Books
<1>11. Moved(igPc, igPc', KvStoreThread, q)
  BY <1>1, <1>9, OthersCarry
<1>12. /\ \A e \in Connections : Carried(igPc', e, "admitted") = Carried(igPc, e, "admitted")
       /\ Carried(igPc', Worker, "released") = Carried(igPc, Worker, "released")
       /\ Carried(igPc', Worker, "tracked") = Carried(igPc, Worker, "tracked")
       /\ Carried(igPc', KvStoreThread, "released") = n /\
            Carried(igPc, KvStoreThread, "released") = 0
       /\ SameTracked(igPc, igPc')
  <2>1. Carried(igPc, KvStoreThread, "released") = 0
    BY <1>1 DEF Carried
  <2>2. QED BY <1>1, <1>q, <1>11, <2>1 DEF Moved, Busy, SameTracked
<1>13. Placed(igPc')
  <2>1. q.at \in PlaceOf(KvStoreThread)
    BY <1>q, ThreadsAssumption DEF PlaceOf
  <2>2. QED BY <1>1, <1>9, <2>1, PlacedBy DEF Accounts
<1>14. QueuedFits(igBooks', igPile', igPc')
  BY <1>9, <1>10, <1>12 DEF QueuedFits, Accounts
<1>15. QueuedTotal(igQueued', igPile', igPc')
  BY <1>9, <1>12 DEF QueuedTotal, Accounts
<1>16. PendingFits(igBooks', igMerges', igPc', igScene'.sender)
  <2>1. ASSUME NEW r \in IngressPeers
        PROVE  igBooks'.pending[r] = SumSeq(OfPeer(igMerges', r)) +
          TrackedFor(igPc, igScene.sender, r)
    <3>1. /\ igBooks.pending[r] = SumSeq(OfPeer(igMerges, r)) + TrackedFor(igPc, igScene.sender, r)
          /\ TrackedFor(igPc, igScene.sender, r) \in Nat /\ SumSeq(OfPeer(igMerges', r)) \in Nat
      BY <1>t, Counted DEF PendingFits, Accounts
    <3>2. CASE r = p
      <4>1. igBooks'.pending[p] = SumSeq(OfPeer(igMerges', p)) + TrackedFor(igPc, igScene.sender, p)
        BY SMT, <1>2, <1>4, <1>10
      <4>2. QED BY <3>2, <4>1
    <3>3. CASE r # p
      <4>1. SumSeq(OfPeer(igMerges, r)) = 0 + SumSeq(OfPeer(igMerges', r))
        BY <1>3, <3>3
      <4>2. SumSeq(OfPeer(igMerges, r)) = SumSeq(OfPeer(igMerges', r))
        BY SMT, <3>1, <4>1
      <4>3. igBooks'.pending[r] = igBooks.pending[r]
        BY <1>10, <3>3
      <4>4. QED BY <3>1, <4>2, <4>3
    <3>4. QED BY <3>2, <3>3
  <2>2. \A r \in IngressPeers : TrackedFor(igPc', igScene.sender, r) =
          TrackedFor(igPc, igScene.sender, r)
    BY <1>12 DEF SameTracked
  <2>3. QED BY <1>9, <2>1, <2>2 DEF PendingFits
<1>17. PendingTotal(igPending', igBooks', igPc')
  <2>0. SumOver(igBooks.pending, IngressPeers) \in Int /\
          \A r \in IngressPeers : igBooks.pending[r] \in Int
    <3>1. \A x \in Nat : x \in Int
      BY SMT
    <3>2. \A r \in IngressPeers : igBooks.pending[r] \in Int
      BY <1>1, <3>1 DEF Books
    <3>3. QED BY <3>2, SumUnfolds, PeersAssumption
  <2>1. igBooks'.pending[p] \in Int /\ igBooks'.pending[p] - igBooks.pending[p] = 0 - n
    BY SMT, <1>2, <1>4, <1>10
  <2>2. ChangesAt(igBooks.pending, igBooks'.pending, IngressPeers, p)
    BY <1>2, <1>10, <2>0, <2>1, SumChanges, PeersAssumption
  <2>3. SumOver(igBooks'.pending, IngressPeers) = SumOver(igBooks.pending, IngressPeers) + (0 - n)
    BY <2>1, <2>2 DEF ChangesAt
  <2>4. igPending + Carried(igPc, Worker, "tracked") = SumOver(igBooks.pending, IngressPeers) + 0
    BY <1>12 DEF PendingTotal, Accounts
  <2>5. SumOver(igBooks.pending, IngressPeers) + 0 = SumOver(igBooks'.pending, IngressPeers) + n
    BY SMT, <1>2, <2>0, <2>3
  <2>6. QED BY <1>9, <1>12, <2>4, <2>5 DEF PendingTotal
<1>18. HeldFits(igBooks')
  <2>1. ASSUME NEW r \in IngressPeers
        PROVE  igBooks'.held[r] = igBooks'.pending[r] +
          SumOver(igBooks'.queued, SendersOf(igBooks', r))
    <3>1. SendersOf(igBooks', r) = SendersOf(igBooks, r)
      BY <1>10 DEF SendersOf
    <3>2. igBooks.held[r] = igBooks.pending[r] + SumOver(igBooks.queued, SendersOf(igBooks, r))
      BY DEF HeldFits, Accounts
    <3>3. SumOver(igBooks.queued, SendersOf(igBooks, r)) \in Int
      <4>1. IsFiniteSet(SendersOf(igBooks, r)) /\
              \A e \in SendersOf(igBooks, r) : igBooks.queued[e] \in Int
        BY <1>1, PeersAssumption, FS_Subset DEF SendersOf, Books
      <4>2. QED BY <4>1, SumUnfolds
    <3>4. CASE r = p
      <4>1. igBooks'.held[r] = igBooks.held[r] - n /\ igBooks'.pending[r] = igBooks.pending[r] - n
            /\ igBooks.pending[r] \in Nat
        BY <1>4, <1>10, <3>4
      <4>2. igBooks'.held[r] = igBooks'.pending[r] + SumOver(igBooks.queued, SendersOf(igBooks, r))
        BY SMT, <1>2, <3>2, <3>3, <4>1
      <4>3. QED BY <1>10, <3>1, <4>2
    <3>5. CASE r # p
      BY <1>10, <3>1, <3>2, <3>5
    <3>6. QED BY <3>4, <3>5
  <2>2. QED BY <2>1 DEF HeldFits
<1>19. UnknownFits(igBooks')
  BY <1>10 DEF UnknownFits, UnknownHolders, Accounts
<1>20. SendersFit(igBooks', igScene'.sender)
  BY <1>9, <1>10 DEF SendersFit, Accounts
<1>21. QED BY <1>13, <1>14, <1>15, <1>16, <1>17, <1>18, <1>19, <1>20 DEF Accounts

--------------------------------------------------------------------------------
(* The other steps touch no book. *)
LEMMA OthersBalance ==
  ASSUME IngressTypes, Accounts,
         \/ \E t \in IngressThreads : resumeAllIfBelowResumeBelowGlobalBytes(t) \/ resumeAll(t)
         \/ \E c \in Connections : onWriteQuiescence(c) \/ PauseConnection(c) \/ Recheck(c)
         \/ stopPausing
  PROVE  Accounts'
<1>0. Connections \subseteq IngressThreads /\ MainThread \in IngressThreads
  BY DEF IngressThreads
<1>p. \A t \in IngressThreads : "resume" \in PlaceOf(t) /\ "idle" \in PlaceOf(t)
  BY ThreadsAssumption DEF PlaceOf, IngressThreads
<1>w. "handle" \in PlaceOf(Worker) /\
        \A c \in Connections : {"pause", "recheck", "check"} \subseteq PlaceOf(c)
  BY ThreadsAssumption DEF PlaceOf
<1>b. {"resume", "idle", "handle", "pause", "recheck", "check"} \subseteq Places \ Busy
  BY DEF Places, Busy
<1>1. ASSUME NEW t \in IngressThreads, resumeAllIfBelowResumeBelowGlobalBytes(t) \/ resumeAll(t)
      PROVE  Accounts'
  <2>1. /\ UNCHANGED <<igScene, igBooks, igTotals, igWork>> /\ igPc[t].at \in {"check", "resume"}
        /\ (Go(t, "resume") \/ Rest(t) \/ (t = Worker /\ Go(t, "handle")))
    BY <1>1 DEF resumeAllIfBelowResumeBelowGlobalBytes, resumeAll, AfterResume, At
  <2>2. igPc[t].at \notin Busy
    BY <2>1 DEF Busy
  <2>3. QED BY <1>p, <1>w, <1>b, <2>1, <2>2, QuietBalances
<1>2. ASSUME NEW c \in Connections, onWriteQuiescence(c) \/ PauseConnection(c) \/ Recheck(c)
      PROVE  Accounts'
  <2>1. /\ UNCHANGED <<igScene, igBooks, igTotals, igWork>> /\
             igPc[c].at \in {"idle", "pause", "recheck"}
        /\ (Go(c, "pause") \/ Rest(c) \/ Go(c, "recheck") \/ Go(c, "resume") \/ Go(c, "check"))
    BY <1>2 DEF onWriteQuiescence, PauseConnection, Recheck, At
  <2>2. igPc[c].at \notin Busy /\ c \in IngressThreads
    BY <1>0, <2>1 DEF Busy
  <2>3. QED BY <1>p, <1>w, <1>b, <2>1, <2>2, QuietBalances
<1>3. ASSUME stopPausing PROVE Accounts'
  <2>1. /\ UNCHANGED <<igScene, igBooks, igTotals, igWork>> /\ igPc[MainThread].at \notin Busy
        /\ Go(MainThread, "resume")
    BY <1>3 DEF stopPausing, At, Busy
  <2>2. QED BY <1>0, <1>p, <1>b, <2>1, QuietBalances
<1>4. QED BY <1>1, <1>2, <1>3

(* Timers and posted resumes touch no bytes. *)
LEMMA ResumeBalances ==
  ASSUME Accounts, NEW c \in Connections, resume(c) \/ resumeOnEventBase(c)
  PROVE  Accounts'
BY DEF resume, resumeOnEventBase, Accounts, igTotals, igWork

(* Zeros add up to zero. *)
LEMMA SumZero ==
  ASSUME NEW S, IsFiniteSet(S), NEW f, \A x \in S : f[x] = 0
  PROVE  SumOver(f, S) = 0
<1> DEFINE B == {s \in SUBSET S : SumOver(f, s) = 0}
<1>1. \A s \in SUBSET S : IsFiniteSet(s) /\ \A y \in s : f[y] \in Int /\ f[y] = 0
  <2>1. 0 \in Int
    BY SMT
  <2>2. QED BY <2>1, FS_Subset
<1>2. {} \in B
  BY <1>1, SumUnfolds
<1>3. ASSUME NEW s \in SUBSET S, s # {}, \A y \in s : s \ {y} \in B PROVE s \in B
  <2>1. Any(s) \in s
    BY <1>3, AnyOf
  <2>2. SumOver(f, s) = f[Any(s)] + SumOver(f, s \ {Any(s)})
    BY <1>1, <1>3, SumUnfolds
  <2>3. f[Any(s)] = 0 /\ SumOver(f, s \ {Any(s)}) = 0 /\ 0 + 0 = 0
    BY SMT, <1>1, <1>3, <2>1
  <2>4. QED BY <2>2, <2>3
<1>4. B \in SUBSET SUBSET S
  OBVIOUS
<1>5. \A s \in SUBSET S : s \in B
  <2> HIDE DEF B
  <2>1. QED BY <1>2, <1>3, <1>4, FiniteInduction
<1>6. QED BY <1>5

(* At the start there is nothing to count. *)
LEMMA InitBalances == IngressInit => Accounts
<1> SUFFICES ASSUME IngressInit PROVE Accounts
  OBVIOUS
<1>1. /\ \A t \in IngressThreads : igPc[t].at = "idle"
      /\ \A c \in Connections : igBooks.queued[c] = 0 /\ igBooks.sender[c] = NoPeer /\
           igPile[c] = <<>>
      /\ \A p \in IngressPeers : igBooks.held[p] = 0 /\ igBooks.pending[p] = 0
      /\ igBooks.unknown = 0 /\ igPending = 0 /\ igQueued = 0 /\ igMerges = <<>>
  BY DEF IngressInit, Idle
<1>2. /\ \A t \in IngressThreads : /\ Carried(igPc, t, "admitted") = 0 /\
                                       Carried(igPc, t, "released") = 0
                                   /\ Carried(igPc, t, "tracked") = 0
      /\ \A s, p : TrackedFor(igPc, s, p) = 0
      /\ Worker \in IngressThreads /\ KvStoreThread \in IngressThreads /\
           MainThread \in IngressThreads
      /\ \A c \in Connections : c \in IngressThreads
  BY <1>1 DEF Carried, TrackedFor, IngressThreads
<1>3. Placed(igPc)
  BY <1>1, <1>2 DEF Placed
<1>z. 0 + 0 = 0
  BY SMT
<1>4. QueuedFits(igBooks, igPile, igPc)
  BY <1>1, <1>2, <1>z, SumSeqEmpty DEF QueuedFits
<1>5. QueuedTotal(igQueued, igPile, igPc)
  <2>1. \A c \in Connections : PileSums(igPile)[c] = 0
    BY <1>1, SumSeqEmpty DEF PileSums
  <2>2. SumOver(PileSums(igPile), Connections) = 0
    BY <2>1, SumZero, PeersAssumption
  <2>3. QED BY <1>1, <1>2, <1>z, <2>2 DEF QueuedTotal
<1>6. PendingFits(igBooks, igMerges, igPc, igScene.sender)
  <2>1. \A p \in IngressPeers : SumSeq(OfPeer(<<>>, p)) = 0
    <3>1. \A p \in IngressPeers : OfPeer(<<>>, p) = <<>>
      BY SMT DEF OfPeer
    <3>2. QED BY <3>1, SumSeqEmpty
  <2>2. QED BY <1>1, <1>2, <1>z, <2>1 DEF PendingFits
<1>7. PendingTotal(igPending, igBooks, igPc)
  <2>1. SumOver(igBooks.pending, IngressPeers) = 0
    BY <1>1, SumZero, PeersAssumption
  <2>2. QED BY <1>1, <1>2, <1>z, <2>1 DEF PendingTotal
<1>8. HeldFits(igBooks)
  <2>1. ASSUME NEW p \in IngressPeers PROVE SumOver(igBooks.queued, SendersOf(igBooks, p)) = 0
    <3>1. IsFiniteSet(SendersOf(igBooks, p)) /\
            \A c \in SendersOf(igBooks, p) : igBooks.queued[c] = 0
      BY <1>1, PeersAssumption, FS_Subset DEF SendersOf
    <3>2. QED BY <3>1, SumZero
  <2>2. QED BY <1>1, <1>z, <2>1 DEF HeldFits
<1>9. UnknownFits(igBooks)
  <2>1. ~ (0 > 0)
    BY SMT
  <2>2. UnknownHolders(igBooks) = {}
    BY <1>1, <2>1 DEF UnknownHolders
  <2>3. QED BY <1>1, <2>2, FS_EmptySet DEF UnknownFits
<1>10. SendersFit(igBooks, igScene.sender)
  BY <1>1 DEF SendersFit
<1>11. QED BY <1>3, <1>4, <1>5, <1>6, <1>7, <1>8, <1>9, <1>10 DEF Accounts
--------------------------------------------------------------------------------
(* A finite set of sizes has a largest one. *)
LEMMA Largest ==
  ASSUME NEW S, IsFiniteSet(S), S # {}, S \subseteq Nat
  PROVE  Max(S) \in S /\ \A x \in S : x <= Max(S)
<1> DEFINE B == {s \in SUBSET S : s = {} \/ \E m \in s : \A y \in s : m >= y}
<1>1. {} \in B /\ B \in SUBSET SUBSET S
  OBVIOUS
<1>2. ASSUME NEW s \in SUBSET S, s # {}, \A y \in s : s \ {y} \in B PROVE s \in B
  <2>1. PICK a \in s : TRUE
    BY <1>2
  <2>2. a \in Nat /\ s \subseteq Nat
    OBVIOUS
  <2>3. CASE s \ {a} = {}
    <3>1. s = {a}
      BY <2>1, <2>3
    <3>2. a >= a
      BY SMT, <2>2
    <3>3. QED BY <3>1, <3>2
  <2>4. CASE s \ {a} # {}
    <3>1. PICK m \in s \ {a} : \A y \in s \ {a} : m >= y
      BY <1>2, <2>1, <2>4
    <3>2. CASE m >= a
      <4>1. \A y \in s : m >= y
        BY <3>1, <3>2
      <4>2. QED BY <4>1
    <3>3. CASE ~(m >= a)
      <4>1. ASSUME NEW y \in s PROVE a >= y
        <5>1. m \in Nat /\ y \in Nat /\ (y = a \/ m >= y)
          BY <2>2, <3>1
        <5>2. QED BY SMT, <2>2, <3>3, <5>1
      <4>2. QED BY <4>1
    <3>4. QED BY <3>2, <3>3
  <2>5. QED BY <2>3, <2>4
<1>3. S \in B
  <2> HIDE DEF B
  <2>1. QED BY <1>1, <1>2, FiniteInduction
<1>4. \E m \in S : \A y \in S : m >= y
  BY <1>3
<1>5. Max(S) \in S /\ \A y \in S : Max(S) >= y
  BY <1>4 DEF Max
<1>6. QED BY SMT, <1>5

(* The list of pauses, the reading and the limit of a queue. *)
PauseIds == [id : 0 .. igNextId - 1, conn : Connections]
Reads ==
  /\ igNextId \in Nat /\ igPaused \cup igTimers \cup igPosted \subseteq PauseIds
  /\ igStopped \in BOOLEAN /\ igReading \in [Connections -> BOOLEAN]
  /\ UnreadWillBeRead

(* Reads depends on the pauses and the reading only. *)
LEMMA ReadsStay ==
  ASSUME Reads, UNCHANGED <<igNextId, igPaused, igTimers, igPosted, igStopped, igReading>>
  PROVE  Reads'
BY DEF Reads, PauseIds, UnreadWillBeRead

(* Whoever stops the reading of a connection puts it in the list, and whoever takes it off    *)
(* the list resumes it or posts its resume (PauseConnection, resume, resumeAll, stopPausing). *)
LEMMA ReadsStep ==
  ASSUME Reads, IngressNext
  PROVE  Reads'
<1>1. ASSUME NEW c \in Connections,
             \/ \E b \in igScene.sizes : admitOpenrIngressKvStoreQueuedRequest(c, b)
             \/ Enqueue(c) \/ releaseOpenrIngressKvStoreQueuedRequest(c)
             \/ onWriteQuiescence(c) \/ Recheck(c)
      PROVE  Reads'
  <2>1. UNCHANGED <<igNextId, igPaused, igTimers, igPosted, igStopped, igReading>>
    BY <1>1 DEF admitOpenrIngressKvStoreQueuedRequest, Enqueue,
      releaseOpenrIngressKvStoreQueuedRequest,
         onWriteQuiescence, Recheck, igPauses
  <2>2. QED BY <2>1, ReadsStay
<1>2. ASSUME NEW t \in IngressThreads, Subtract(t) \/ resumeAllIfBelowResumeBelowGlobalBytes(t)
      PROVE  Reads'
  BY <1>2, ReadsStay DEF Subtract, resumeAllIfBelowResumeBelowGlobalBytes, igPauses
<1>3. ASSUME HandleRequest \/ addOpenrIngressKvStorePendingMergeBytes
               \/ releaseOpenrIngressKvStorePendingMergeBytes
      PROVE  Reads'
  BY <1>3, ReadsStay DEF HandleRequest, addOpenrIngressKvStorePendingMergeBytes,
       releaseOpenrIngressKvStorePendingMergeBytes, igPauses
<1>4. ASSUME NEW c \in Connections, PauseConnection(c) PROVE Reads'
  <2> DEFINE pause == [id |-> igNextId, conn |-> c]
  <2>1. /\ igNextId' \in Nat /\ 0 .. igNextId - 1 \subseteq 0 .. igNextId' - 1 /\
             igNextId \in 0 .. igNextId' - 1
    BY SMT, <1>4 DEF Reads, PauseConnection
  <2>2. PauseIds \subseteq PauseIds' /\ pause \in PauseIds'
    BY <2>1 DEF PauseIds
  <2>3. igStopped' = igStopped /\ igPosted' = igPosted
    BY <1>4 DEF PauseConnection
  <2>4. CASE UNCHANGED <<igPaused, igReading, igTimers>>
    BY <2>1, <2>2, <2>3, <2>4 DEF Reads, UnreadWillBeRead
  <2>5. CASE /\ igPaused' = igPaused \cup {pause} /\ igTimers' = igTimers \cup {pause}
             /\ igReading' = [igReading EXCEPT ![c] = FALSE]
    <3>1. igPaused' \cup igTimers' \cup igPosted' \subseteq PauseIds'
      BY <2>2, <2>3, <2>5 DEF Reads
    <3>2. igReading' \in [Connections -> BOOLEAN]
      BY <2>5 DEF Reads
    <3>3. UnreadWillBeRead'
      <4>1. pause.conn = c /\ pause \in igPaused'
        BY <2>5
      <4>2. \A e \in Connections \ {c} : igReading'[e] = igReading[e]
        BY <2>5 DEF Reads
      <4>3. igPaused \cup igPosted \subseteq igPaused' \cup igPosted'
        BY <2>3, <2>5
      <4> HIDE DEF pause
      <4>4. QED BY <4>1, <4>2, <4>3 DEF Reads, UnreadWillBeRead
    <3>4. QED BY <2>1, <2>3, <3>1, <3>2, <3>3 DEF Reads
  <2>6. QED BY <1>4, <2>4, <2>5 DEF PauseConnection
<1>5. ASSUME NEW c \in Connections, resume(c) PROVE Reads'
  <2>1. PICK pause \in igTimers : /\ igTimers' = igTimers \ {pause} /\
                                      igPaused' = igPaused \ {pause}
                                  /\ igPosted' = igPosted \cup (igPaused \cap {pause})
    BY <1>5 DEF resume
  <2>2. igStopped' = igStopped /\ igNextId' = igNextId /\ igReading' = igReading
    BY <1>5 DEF resume
  <2>3. /\ igPaused' \cup igPosted' = igPaused \cup igPosted
        /\ igPaused' \cup igTimers' \cup igPosted' \subseteq igPaused \cup igTimers \cup igPosted
    BY <2>1
  <2>4. QED BY <2>2, <2>3 DEF Reads, PauseIds, UnreadWillBeRead
<1>6. ASSUME NEW c \in Connections, resumeOnEventBase(c) PROVE Reads'
  <2>1. PICK pause \in igPosted : pause.conn = c /\ igPosted' = igPosted \ {pause}
    BY <1>6 DEF resumeOnEventBase
  <2>2. /\ igStopped' = igStopped /\ igNextId' = igNextId /\ igPaused' = igPaused /\
             igTimers' = igTimers
        /\ igReading' = [igReading EXCEPT ![c] = TRUE]
    BY <1>6 DEF resumeOnEventBase
  <2>3. igReading' \in [Connections -> BOOLEAN] /\ igReading'[c] = TRUE
        /\ \A e \in Connections \ {c} : igReading'[e] = igReading[e]
    BY <2>2 DEF Reads
  <2>4. UnreadWillBeRead'
    <3>1. SUFFICES ASSUME NEW e \in Connections, ~igReading'[e]
                   PROVE  \E p \in igPaused' \cup igPosted' : p.conn = e
      BY DEF UnreadWillBeRead
    <3>2. e # c /\ ~igReading[e]
      BY <2>3, <3>1
    <3>3. PICK p \in igPaused \cup igPosted : p.conn = e
      BY <3>2 DEF Reads, UnreadWillBeRead
    <3>4. p # pause
      BY <2>1, <3>2, <3>3
    <3>5. QED BY <2>1, <2>2, <3>3, <3>4
  <2>5. igPaused' \cup igTimers' \cup igPosted' \subseteq igPaused \cup igTimers \cup igPosted
    BY <2>1, <2>2
  <2>6. QED BY <2>2, <2>3, <2>4, <2>5 DEF Reads, PauseIds
<1>7. ASSUME NEW t \in IngressThreads, resumeAll(t) PROVE Reads'
  <2>1. /\ igPaused' = {} /\ igPosted' = igPosted \cup igPaused
        /\ igStopped' = igStopped /\ igNextId' = igNextId /\ igTimers' = igTimers /\
             igReading' = igReading
    BY <1>7 DEF resumeAll
  <2>2. QED BY <2>1 DEF Reads, PauseIds, UnreadWillBeRead
<1>8. ASSUME stopPausing PROVE Reads'
  <2>1. /\ igStopped' = TRUE
        /\ igPaused' = igPaused /\ igPosted' = igPosted /\ igNextId' = igNextId
        /\ igTimers' = igTimers /\ igReading' = igReading
    BY <1>8 DEF stopPausing
  <2>2. QED BY <2>1 DEF Reads, PauseIds, UnreadWillBeRead
<1>9. QED BY <1>1, <1>2, <1>3, <1>4, <1>5, <1>6, <1>7, <1>8 DEF IngressNext

(* The books' functions leave what is queued. *)
LEMMA QueuedStays ==
  ASSUME NEW b \in Books, NEW c \in Connections, NEW p \in IngressPeers
  PROVE  recordSenderId(b, c, p).queued = b.queued
BY SMT DEF recordSenderId, releaseQueuedBytes, addQueuedBytes, Books

(* QueueStaysWithinLimit, with the slack of the largest request. *)
Within == \A c \in Connections : igBooks.queued[c] < igScene.queuedLimit + Max(igScene.sizes)

(* A connection below its limit is admitted one request more, and only then grows. *)
LEMMA LimitStep ==
  ASSUME IngressTypes, Accounts, Within, IngressNext
  PROVE  Within'
<1>0. /\ igScene' = igScene /\ igScene \in IngressScenes /\ igBooks \in Books
      /\ igScene.queuedLimit \in Nat \ {0} /\ Max(igScene.sizes) \in Nat /\
           igScene.sizes \subseteq Nat
      /\ \A x \in igScene.sizes : x <= Max(igScene.sizes)
  <2>1. igScene' = igScene
    BY DEF IngressNext, admitOpenrIngressKvStoreQueuedRequest, Enqueue,
      releaseOpenrIngressKvStoreQueuedRequest,
         onWriteQuiescence, PauseConnection, Recheck, resume, resumeOnEventBase, Subtract,
         resumeAllIfBelowResumeBelowGlobalBytes, resumeAll, HandleRequest, stopPausing,
         addOpenrIngressKvStorePendingMergeBytes, releaseOpenrIngressKvStorePendingMergeBytes
  <2>2. igScene \in IngressScenes /\ igBooks \in Books
    BY DEF IngressTypes
  <2>3. /\ igScene.queuedLimit \in Nat \ {0} /\ igScene.sizes \subseteq Nat
        /\ IsFiniteSet(igScene.sizes) /\ igScene.sizes # {}
    BY <2>2, ScenesAssumption
  <2>4. Max(igScene.sizes) \in igScene.sizes /\ \A x \in igScene.sizes : x <= Max(igScene.sizes)
    BY <2>3, Largest
  <2>5. QED BY <2>1, <2>2, <2>3, <2>4
<1>1. CASE igBooks'.queued = igBooks.queued
  BY <1>0, <1>1 DEF Within
<1>2. ASSUME NEW c \in Connections, NEW n \in igScene.sizes,
        admitOpenrIngressKvStoreQueuedRequest(c, n)
      PROVE  Within'
  <2>1. CASE igBooks.queued[c] >= igScene.queuedLimit
    <3>1. igBooks' = igBooks
      BY <1>2, <2>1 DEF admitOpenrIngressKvStoreQueuedRequest
    <3>2. QED BY <1>1, <3>1
  <2>2. CASE ~(igBooks.queued[c] >= igScene.queuedLimit)
    <3>1. igBooks' = Plus(igBooks, c, n) /\ n \in Nat /\ igBooks.queued[c] \in Nat
      BY <1>0, <1>2, <2>2, Counted DEF admitOpenrIngressKvStoreQueuedRequest, Plus
    <3>2. Shifted(igBooks, Plus(igBooks, c, n), c, n)
      BY <1>0, <3>1, PlusShifts
    <3>3. igBooks'.queued[c] = igBooks.queued[c] + n /\
            \A e \in Connections \ {c} : igBooks'.queued[e] = igBooks.queued[e]
      BY <3>1, <3>2 DEF Shifted
    <3>4. n <= Max(igScene.sizes)
      BY <1>0
    <3>5. igBooks'.queued[c] < igScene.queuedLimit + Max(igScene.sizes)
      BY SMT, <1>0, <2>2, <3>1, <3>3, <3>4
    <3>6. QED BY <1>0, <3>3, <3>5 DEF Within
  <2>3. QED BY <2>1, <2>2
<1>3. ASSUME NEW c \in Connections, releaseOpenrIngressKvStoreQueuedRequest(c) PROVE Within'
  <2> DEFINE n == Head(igPile[c])
  <2>1. igPile[c] \in Seq(Nat) /\ igPile[c] # <<>> /\ igBooks' = Minus(igBooks, c, n)
    BY <1>3 DEF releaseOpenrIngressKvStoreQueuedRequest, Minus, IngressTypes
  <2>2. n \in Nat
    BY <2>1, HeadAndTail
  <2> HIDE DEF n
  <2>3. igBooks.queued[c] \in Nat /\ n \in Int /\ igBooks.queued[c] \in Int
    <3>1. igBooks.queued[c] \in Nat
      BY Counted
    <3>2. QED BY SMT, <2>2, <3>1
  <2>4. releaseQueuedBytes(igBooks, c, igBooks.queued[c], n).queued = igBooks.queued
        /\ releaseQueuedBytes(igBooks, c, igBooks.queued[c], n) \in Books
    BY <1>0, <2>3, ReleaseType DEF releaseQueuedBytes, Books
  <2>5. igBooks'.queued = [igBooks.queued EXCEPT ![c] = @ - n]
    BY <1>0, <2>1, <2>4 DEF Minus, Books
  <2>6. igBooks'.queued[c] = igBooks.queued[c] - n /\
          \A e \in Connections \ {c} : igBooks'.queued[e] = igBooks.queued[e]
    BY <1>0, <2>5 DEF Books
  <2>7. igBooks'.queued[c] < igScene.queuedLimit + Max(igScene.sizes)
    <3>1. igBooks.queued[c] < igScene.queuedLimit + Max(igScene.sizes)
      BY DEF Within
    <3>2. QED BY SMT, <1>0, <2>2, <2>3, <2>6, <3>1
  <2>8. QED BY <1>0, <2>6, <2>7 DEF Within
<1>4. ASSUME HandleRequest PROVE Within'
  <2>1. CASE igBooks' = igBooks
    BY <1>1, <2>1
  <2>2. CASE igBooks' =
          recordSenderId(igBooks, igPc[Worker].conn, igScene.sender[igPc[Worker].conn])
    <3>1. igPc[Worker].conn \in Connections
      BY <1>4 DEF HandleRequest, At, IngressTypes
    <3>2. igScene.sender[igPc[Worker].conn] \in IngressPeers
      BY <1>0, <3>1, ScenesAssumption
    <3>3. QED BY <1>0, <1>1, <2>2, <3>1, <3>2, QueuedStays
  <2>3. QED BY <1>4, <2>1, <2>2 DEF HandleRequest
<1>5. ASSUME addOpenrIngressKvStorePendingMergeBytes \/ releaseOpenrIngressKvStorePendingMergeBytes
      PROVE  Within'
  <2>1. igBooks'.queued = igBooks.queued
    BY <1>0, <1>5 DEF addOpenrIngressKvStorePendingMergeBytes,
      releaseOpenrIngressKvStorePendingMergeBytes, Books
  <2>2. QED BY <1>1, <2>1
<1>6. ASSUME NEW c \in Connections,
        \/ Enqueue(c) \/ onWriteQuiescence(c) \/ PauseConnection(c) \/ Recheck(c)
                                    \/ resume(c) \/ resumeOnEventBase(c)
      PROVE  Within'
  <2>1. igBooks' = igBooks
    BY <1>6 DEF Enqueue, onWriteQuiescence, PauseConnection, Recheck, resume, resumeOnEventBase
  <2>2. QED BY <1>1, <2>1
<1>7. ASSUME stopPausing \/ \E t \in IngressThreads :
               Subtract(t) \/ resumeAllIfBelowResumeBelowGlobalBytes(t) \/ resumeAll(t)
      PROVE  Within'
  <2>1. igBooks' = igBooks
    BY <1>7 DEF stopPausing, Subtract, resumeAllIfBelowResumeBelowGlobalBytes, resumeAll
  <2>2. QED BY <1>1, <2>1
<1>8. QED BY <1>2, <1>3, <1>4, <1>5, <1>6, <1>7 DEF IngressNext

(* Every step keeps the accounts. *)
LEMMA AccountsStep ==
  ASSUME IngressTypes, Accounts, IngressNext
  PROVE  Accounts'
BY AdmitBalances, EnqueueBalances, TakeBalances, SubtractBalances, HandleBalances, TrackBalances,
   MergedBalances, OthersBalance, ResumeBalances DEF IngressNext

(* The inductive invariant. *)
LedgerInv == IngressInv /\ Accounts /\ Reads /\ Within

(* The first state. *)
LEMMA LedgerInit == IngressInit => LedgerInv
<1> SUFFICES ASSUME IngressInit PROVE LedgerInv
  OBVIOUS
<1>1. IngressInv /\ Accounts
  BY InitImplies, InitBalances
<1>2. Reads
  <2>1. /\ igNextId = 0 /\ igPaused = {} /\ igTimers = {} /\ igPosted = {} /\ igStopped = FALSE
        /\ igReading = [c \in Connections |-> TRUE]
    BY DEF IngressInit
  <2>2. 0 \in Nat
    BY SMT
  <2>3. QED BY <2>1, <2>2 DEF Reads, UnreadWillBeRead
<1>3. Within
  <2>1. /\ igScene.queuedLimit \in Nat \ {0} /\ igScene.sizes \subseteq Nat
        /\ IsFiniteSet(igScene.sizes) /\ igScene.sizes # {}
    BY ScenesAssumption DEF IngressInit
  <2>2. Max(igScene.sizes) \in Nat
    BY <2>1, Largest
  <2>3. \A c \in Connections : igBooks.queued[c] = 0
    BY DEF IngressInit
  <2>4. 0 < igScene.queuedLimit + Max(igScene.sizes)
    BY SMT, <2>1, <2>2
  <2>5. QED BY <2>3, <2>4 DEF Within
<1>4. QED BY <1>1, <1>2, <1>3 DEF LedgerInv

(* Every step keeps all of it. *)
LEMMA LedgerStep == LedgerInv /\ [IngressNext]_igVars => LedgerInv'
<1> SUFFICES ASSUME LedgerInv, [IngressNext]_igVars PROVE LedgerInv'
  OBVIOUS
<1>0. IngressInv /\ IngressTypes /\ Accounts /\ Reads /\ Within
  BY DEF LedgerInv, IngressInv
<1>1. IngressInv'
  BY <1>0, IngressStep
<1>2. CASE IngressNext
  BY <1>0, <1>1, <1>2, AccountsStep, ReadsStep, LimitStep DEF LedgerInv
<1>3. CASE UNCHANGED igVars
  <2>1. Accounts'
    BY <1>0, <1>3 DEF igVars, Accounts
  <2>2. Reads'
    BY <1>0, <1>3, ReadsStay DEF igVars
  <2>3. Within'
    BY <1>0, <1>3 DEF igVars, Within
  <2>4. QED BY <1>1, <2>1, <2>2, <2>3 DEF LedgerInv
<1>4. QED BY <1>2, <1>3

(* It says what the properties of PeerIngress say: a total can only differ from its books by *)
(* what a thread carries, and with everybody at rest nothing is carried.                     *)
LEMMA LedgerImplies == LedgerInv => IngressInvariant
<1> SUFFICES ASSUME LedgerInv PROVE IngressInvariant
  OBVIOUS
<1>0. /\ IngressTypes /\ Accounts /\ Reads /\ Within /\ igBooks \in Books
      /\ HeldFits(igBooks) /\ UnknownFits(igBooks) /\ igPc \in Pcs
  BY DEF LedgerInv, IngressInv, IngressTypes, Accounts, Pcs
<1>1. \A c \in Connections : igBooks.queued[c] \in Nat
  BY <1>0, Counted
<1>2. \A p \in IngressPeers : igBooks.pending[p] \in Nat /\ igBooks.held[p] \in Nat
  <2>1. ASSUME NEW p \in IngressPeers PROVE igBooks.pending[p] \in Nat /\ igBooks.held[p] \in Nat
    <3>1. igBooks.pending[p] \in Nat /\ igBooks.held[p] \in Int
      BY <1>0 DEF Books
    <3>2. igBooks.pending[p] <= igBooks.held[p]
      BY <1>0, <1>1, HeldAtLeast
    <3>3. QED BY SMT, <3>1, <3>2
  <2>2. QED BY <2>1
<1>3. igBooks.unknown \in Nat
  <2>1. IsFiniteSet(UnknownHolders(igBooks))
    BY PeersAssumption, FS_Subset DEF UnknownHolders
  <2>2. QED BY <1>0, <2>1, FS_CardinalityType DEF UnknownFits
<1>4. \A t \in IngressThreads, w \in Busy : Carried(igPc, t, w) \in Nat
  <2>1. ASSUME NEW t \in IngressThreads, NEW w \in Busy PROVE Carried(igPc, t, w) \in Nat
    <3>1. igPc[t].bytes \in Nat
      BY <1>0 DEF Pcs
    <3>2. QED BY SMT, <3>1 DEF Carried
  <2>2. QED BY <2>1
<1>5. /\ Worker \in IngressThreads /\ KvStoreThread \in IngressThreads /\
           Connections \subseteq IngressThreads
  BY DEF IngressThreads
<1>6. igQueued \in Nat
  <2>1. \A c \in Connections : PileSums(igPile)[c] \in Nat
    BY <1>0, Counted DEF PileSums
  <2>2. SumOver(PileSums(igPile), Connections) \in Nat
    BY <2>1, SumNat, PeersAssumption
  <2>3. Carried(igPc, Worker, "released") \in Nat
    BY <1>4, <1>5 DEF Busy
  <2>4. igQueued = SumOver(PileSums(igPile), Connections) + Carried(igPc, Worker, "released")
    BY <1>0 DEF Accounts, QueuedTotal
  <2>5. QED BY SMT, <2>2, <2>3, <2>4
<1>7. igPending \in Nat
  <2>1. /\ SumOver(igBooks.pending, IngressPeers) \in Nat
        /\ \A p \in IngressPeers : igBooks.pending[p] <= SumOver(igBooks.pending, IngressPeers)
    BY <1>2, SumNat, PeersAssumption
  <2>2. Carried(igPc, KvStoreThread, "released") \in Nat /\ Carried(igPc, Worker, "tracked") \in Nat
    BY <1>4, <1>5 DEF Busy
  <2>3. Carried(igPc, Worker, "tracked") <= SumOver(igBooks.pending, IngressPeers)
    <3>1. CASE igPc[Worker].at = "tracked"
      <4>1. PICK p \in IngressPeers : p = igScene.sender[igPc[Worker].conn]
        BY <1>0, <3>1, ScenesAssumption DEF IngressTypes
      <4>2. TrackedFor(igPc, igScene.sender, p) = Carried(igPc, Worker, "tracked")
        BY <3>1, <4>1 DEF TrackedFor, Carried
      <4>3. igBooks.pending[p] = SumSeq(OfPeer(igMerges, p)) + Carried(igPc, Worker, "tracked")
        BY <1>0, <4>2 DEF Accounts, PendingFits
      <4>4. SumSeq(OfPeer(igMerges, p)) \in Nat /\
              igBooks.pending[p] <= SumOver(igBooks.pending, IngressPeers)
            /\ igBooks.pending[p] \in Nat
        BY <1>0, <1>2, <2>1, Counted
      <4>5. QED BY SMT, <2>1, <2>2, <4>3, <4>4
    <3>2. CASE igPc[Worker].at # "tracked"
      <4>1. Carried(igPc, Worker, "tracked") = 0
        BY <3>2 DEF Carried
      <4>2. QED BY SMT, <2>1, <4>1
    <3>3. QED BY <3>1, <3>2
  <2>4. igPending \in Int
    BY <1>0 DEF IngressTypes
  <2>5. igPending + Carried(igPc, Worker, "tracked")
          = SumOver(igBooks.pending, IngressPeers) + Carried(igPc, KvStoreThread, "released")
    BY <1>0 DEF Accounts, PendingTotal
  <2>6. QED BY SMT, <2>1, <2>2, <2>3, <2>4, <2>5
<1>8. IngressTypeOK
  <2>1. igBooks \in [sender : [Connections -> IngressPeers \cup {NoPeer}],
                     queued : [Connections -> Nat], held : [IngressPeers -> Nat],
                     pending : [IngressPeers -> Nat], unknown : Nat]
    BY <1>0, <1>1, <1>2, <1>3 DEF Books
  <2>2. QED BY <1>0, <1>6, <1>7, <2>1 DEF IngressTypeOK, Reads, PauseIds
<1>9. BooksBalance
  <2>1. \A p \in IngressPeers : igBooks.held[p] = igBooks.pending[p] +
            SumOver(igBooks.queued, {c \in Connections : igBooks.sender[c] = p})
    BY <1>0 DEF HeldFits, SendersOf
  <2>2. igBooks.unknown =
          Cardinality({c \in Connections : igBooks.sender[c] = NoPeer /\ igBooks.queued[c] > 0})
    BY <1>0 DEF UnknownFits, UnknownHolders
  <2>3. ASSUME \A t \in IngressThreads : At(t, "idle")
        PROVE  igPending = SumOver(igBooks.pending, IngressPeers) /\
          igQueued = SumOver(igBooks.queued, Connections)
    <3>1. /\ Carried(igPc, Worker, "tracked") = 0 /\ Carried(igPc, Worker, "released") = 0
          /\ Carried(igPc, KvStoreThread, "released") = 0
          /\ \A c \in Connections : Carried(igPc, c, "admitted") = 0
      BY <1>5, <2>3 DEF At, Carried
    <3>2. igPending = SumOver(igBooks.pending, IngressPeers)
      <4>1. igPending + 0 = SumOver(igBooks.pending, IngressPeers) + 0
        BY <1>0, <3>1 DEF Accounts, PendingTotal
      <4>2. SumOver(igBooks.pending, IngressPeers) \in Nat
        BY <1>2, SumNat, PeersAssumption
      <4>3. QED BY SMT, <1>7, <4>1, <4>2
    <3>3. \A c \in Connections : igBooks.queued[c] \in Int /\
            igBooks.queued[c] = PileSums(igPile)[c]
      <4>1. ASSUME NEW c \in Connections
              PROVE igBooks.queued[c] \in Int /\ igBooks.queued[c] = PileSums(igPile)[c]
        <5>1. igBooks.queued[c] = SumSeq(igPile[c]) + 0 /\ SumSeq(igPile[c]) \in Nat
          BY <1>0, <3>1, Counted
        <5>2. igBooks.queued[c] = SumSeq(igPile[c]) /\ igBooks.queued[c] \in Int
          BY SMT, <5>1
        <5>3. QED BY <5>2 DEF PileSums
      <4>2. QED BY <4>1
    <3>4. SumOver(igBooks.queued, Connections) = SumOver(PileSums(igPile), Connections)
      BY <3>3, SumSame, PeersAssumption
    <3>5. igQueued = SumOver(PileSums(igPile), Connections) + 0
      BY <1>0, <3>1 DEF Accounts, QueuedTotal
    <3>6. SumOver(igBooks.queued, Connections) \in Int
      BY <3>3, SumUnfolds, PeersAssumption
    <3>7. igQueued = SumOver(igBooks.queued, Connections)
      BY SMT, <3>4, <3>5, <3>6
    <3>8. QED BY <3>2, <3>7
  <2>4. QED BY <2>1, <2>2, <2>3 DEF BooksBalance
<1>10. QueueStaysWithinLimit
  BY <1>0 DEF Within, QueueStaysWithinLimit
<1>11. QED BY <1>0, <1>8, <1>9, <1>10 DEF IngressInvariant, Reads

(* The books of the backpressure always balance, for any number of connections, peers and     *)
(* requests: what a peer holds is what is pending for it and queued on its connections, with  *)
(* all threads at rest the totals are the sums of the books, no count is ever negative, a     *)
(* connection queues less than its limit and one request more, and one that is not read is in *)
(* the list of the paused or its resume is posted (KvStorePeerIngressLimit: PeerBytes,        *)
(* queuedBytes_, pendingMergeBytes_, pausedConnections_).                                     *)
THEOREM BooksAlwaysBalance == IngressSpec => []IngressInvariant
BY LedgerInit, LedgerStep, LedgerImplies, PTL DEF IngressSpec

================================================================================
