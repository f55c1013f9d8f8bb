# Open/R: a TLA+ verification project

Open/R is a link-state routing daemon.  This directory holds TLA+ modules that
model the parts of it in which the hard behaviour lies (replication of the
key-value store between nodes, neighbour discovery, link state and route
selection, route programming, the queues between modules), the TLC
configurations that check them on small instances, and theorems that TLAPS
proves for every instance.  Paths are relative to the repository; `KvStore-inl.h`
is `openr/kvstore/KvStore-inl.h`, `Fib.cpp` is `openr/fib/Fib.cpp`, and so on.

Contents: [1 The system](#1-the-system) · [2 The modules](#2-the-modules) ·
[3 The runs](#3-the-runs) · [4 Fairness](#4-fairness) · [5 Proofs](#5-proofs) ·
[6 Where code and documentation disagree](#6-where-code-and-documentation-disagree) ·
[7 Observations](#7-observations) · [8 What is not modelled](#8-what-is-not-modelled)

## 1 The system

One process per node.  Every module below runs in an event base of its own (a
thread that runs callbacks and fibers one at a time) and talks to the others
through in-process queues, to the KvStores of other nodes through thrift calls,
to neighbours through UDP multicast, and to the forwarding agent through thrift.

```
 kernel ──netlink──> LinkMonitor <──neighbour events── Spark <──UDP──> Spark of neighbours
                        │  │
          peer updates ─┘  └─ adjacencies, addresses (key-value requests)
                │                 │
                v                 v
             KvStore <──thrift──> KvStore of peers
                │ publications
                ├──────────> Dispatcher ──> Decision ──route updates──> Fib ──thrift──> agent
                └──────────> PrefixManager <──────── programmed routes ──┘
                                 └── prefixes (key-value requests) ──> KvStore
```

| part | state | operations | what is hard |
|---|---|---|---|
| KvStore, merging (`KvStoreUtil.cpp`) | an entry per key: version, originator, value, ttl version, ttl | `mergeKeyValues`, `compareValues`, `dumpDifference` | stores see updates in different orders and must agree |
| KvStore, replication (`KvStore-inl.h`) | `kvStore_`, `thriftPeers_` with a state machine each, pending keys, `thriftSyncTimer_` | set, flood, three-way full-sync, peers added and removed, failures | full-sync against flooding; late answers; lost answers |
| KvStore, ttl | `ttlCountdownQueue_` | merge, refresh, expire | stale countdowns; keys that circulate for ever |
| KvStore, self-originated keys | `selfOriginatedKeyVals_`, `keysToAdvertise_`, `keysToUnset_`, `publicationBuffer_` | persist, set, unset, erase, throttled advertisement, rate limiter | conflicting advertisements; state kept across a nested call |
| KvStore, initialization | peers per area, `initialSyncCompleted_`, sync timer | peer updates, sync done or failed, timeout | everything downstream waits for `KVSTORE_SYNCED` |
| KvStore, flood pipeline | buffers, outstanding bytes, deferred keys | compress, charge, release, drain | budget accounting, overtaking |
| KvStore, peer ingress limit | bytes by peer and connection, paused connections | admit, release, pause, resume, stop | four kinds of threads; a pause that races with its reason to end |
| DUAL | distances, reports and queries by root | peer up and down, update, query, reply | no loop at any moment; diffusing computations that cross |
| LinkMonitor | `adjacencies_`, `peers_`, `interfaces_`, drain state | neighbour up, down, restarting, rtt; links; drain | parallel adjacencies, order of announcements, flap backoff |
| Spark | a state machine per neighbour and interface, timers, sequence numbers | hello, handshake, heartbeat, graceful restart | lossy, reordered messages between two state machines |
| Decision | link states, prefix states, pending adjacencies, static routes | publications, debounce, rebuild, SPF, RIB policy | initial build gate, incremental against full result |
| PrefixManager | prefixes by type, originated prefixes, advertise status | advertise, withdraw, sync, redistribute, aggregate | waits for Fib, which waits for it |
| Fib | `routeState_`, two semaphores, three fibers | update, sync, retry, delayed deletion, keep-alive | state changes while a fiber waits; agent fails or restarts |
| Messaging, Dispatcher | queues of readers, suppression index | push, get, close, coalesce | coalescing must not change the final state |
| PersistentStore | map, log file | store, erase, save, load | crashes in the middle of a write |
| netlink, platform, watchdog, ctrl server, configuration | | | see section 8 |

What each part promises, and where that is checked, is in sections 2 and 3 for
the parts modelled; `PROJECT.json` lists the hazards line by line.

## 2 The modules

| module | models | extends |
|---|---|---|
| `KvStoreMerge` | the pure functions of `KvStoreUtil.cpp` | |
| `KvStoreReplicas` | one key on several stores: what merging promises | `KvStoreMerge` |
| `KvStoreSync` | replication between nodes | `KvStoreMerge` |
| `KvStoreTtl` | expiry | `KvStoreMerge` |
| `KvStoreSelfOriginated` | a node's own keys, and the rate limiter | `KvStoreMerge` |
| `LinkMonitorPeers` | LinkMonitor's table of KvStore peers | |
| `KvStoreInit` | KvStore's initialization, composed with LinkMonitor through the queue of peer updates | `LinkMonitorPeers` |
| `KvStoreFlood` | the flood pipeline with its byte budget | |
| `PeerIngress` | backpressure on what peers send | |
| `Dual` | the flooding trees | |
| `LinkMonitorInterfaces` | links, addresses and flap damping | |
| `LinkMonitorDrain` | adjacency databases and drain state | |
| `Spark` | neighbour discovery between nodes on a link | |
| `Decision` | when routes are computed and from what | |
| `LinkState` | the graph of an area, SPF and next hops | |
| `RouteSelection` | best routes and RIB policies, over unordered containers | |
| `PrefixManager` | what is announced, where, and with which static routes | |
| `Fib` | route programming, with the agent as environment | |
| `PersistentStore` | the configuration store, its log and its crashes | |
| `StateStream` | what a queue that combines messages promises (abstract) | |
| `RouteStream` | the coalescing queue of route updates | instantiates `StateStream` |
| `SuppressionQueue` | the queue with keyed state suppression and its three policies | instantiates `StateStream` |
| `ReplicateQueue` | the queue that copies to all readers | |
| `...Proofs` | lemmas and theorems about the module named | the module named |
| `MC...` | constants of the instances TLC checks, and the sum of several parts (section 3) | the modules named |

**Entries (`KvStoreMerge`).**  `thrift::Value` becomes a record of numbers, since
only equality and order of originators and values matter.  `hasValue` is false
in ttl updates and hash dumps.  The hash is assumed free of collisions, so
`value` stands for both.  A key that is not in a map is `Absent`.  The operators
keep the names of the functions; `NewerContent`, `Newer` and `AtLeast` define
the intended order independently of them.

**Replication (`KvStoreSync`).**  `mergePublication` is one operator with the
whole effect of the function (merge, early returns, disconnect on
inconsistency, subscribers, flooding, finalization of the full-sync), applied by
local writes, ttl updates, incoming calls and answers of full-syncs.  An RPC is
a record in `rpcs`; any of them may be processed next, because the thrift
servers run handlers in several threads.  A call may fail before or after it
took effect.  Ttls are infinite, and neither rate limiter nor pre-compression
is configured.

**Expiry (`KvStoreTtl`).**  A queue entry holds the ticks it has left, and
`life` records how long a store may keep an entry by the ttl it came with.  The
originators are not modelled as stores; they advertise, refresh, answer syncs
and die.

**Own keys (`KvStoreSelfOriginated`).**  One node; publications of other nodes
are its input.  An action is one callback.  A backoff is abstracted to the set
of keys that may be tried now, the rate limiter to a token that is or is not
there, and the ttl to the fact that a key nobody refreshes may expire.

**Initialization (`LinkMonitorPeers`, `KvStoreInit`).**  LinkMonitor's handlers
of neighbour events and its announcement at `NEIGHBOR_DISCOVERED` push to a
queue (a sequence) that KvStore reads.  A full-sync succeeds or fails as
`KvStoreSync` describes in detail.  `EarlyDowns` says whether neighbours may go
before discovery has ended.

**Flooding under a budget (`KvStoreFlood`).**  One area of one node.  A buffer is
charged until its last send has resolved (`OnFloodResolved`); at the budget keys
wait in `pendingFloodKeys_` and go out later with the values of the day
(`drainPendingFloods` and the repair of a wedged budget).  A value is the number
of the update that wrote it.

**Ingress limit (`PeerIngress`).**  Threads with a program counter (`igPc`): a
step is one section under a lock, or one update or test of the atomics.  Thrift
is external: `pause` and `resume` switch the reading of a connection.

**DUAL (`Dual`).**  The handlers of one `Dual` object are operators on a context;
packets travel in FIFO channels, links fail and come back, and each end learns
of it at its own time.  A failed CHECK is `aborted`.

**Links (`LinkMonitorInterfaces`, `LinkMonitorDrain`).**  Time is counted in
ticks; a timer is the number of ticks it has left.  The snapshot of netlink is
read in two parts with events handled in between.  Drain commands change
`state_`, the adjacency databases are built from it, and it is saved and read
back (or lost) over a restart.

**Neighbours (`Spark`).**  Nodes on one link.  A sequence number is represented
by the incarnation it belongs to; how numbers of different incarnations compare
is left open.  Hold timers may expire whenever they run.

**Routes (`Decision`, `LinkState`, `RouteSelection`).**  The event base of
Decision runs one handler at a time, several of which rebuild in their middle:
its state is a record and a handler an operator on it.  `LinkState` changes links
in place as the code does, and its properties compare them, the memoized SPF
results and the programmed next hops with definitions over all paths of the
databases.  `RouteSelection` visits hash containers in any order and compares
with a definition that has none.

**Prefixes (`PrefixManager`).**  As `Decision`: a record and operators.  KvStore
returns the node's own keys late; Fib reports routes programmed or deleted.

**Route programming (`Fib`).**  Fibers yield only while they wait for
`updateRoutesSemaphore_`, `retryRoutesSemaphore_` or a call, so an action is
what happens between two such points: `ProcessDecisionRouteUpdate` and
`RetryRoutes` run up to the lock or the first call, `Resume` goes on with the
lock, and `DeleteUnicastRoutes`, `AddUnicastRoutes` and `SyncFib` are the
answers.  `KeepAlive` changes the state without the lock, as the code does.  A
call to an incarnation of the agent that is gone fails.

**Queues (`RouteStream`, `SuppressionQueue`, `ReplicateQueue`).**  The first two
define the state of a lane after each message and are shown to implement
`StateStream` (`RefinesStream`, `LanesMoveForward`): the mapping gives the
sequence of states published and the position the reader has reached.
`ReplicateQueue` has the steps of a push, which copies the list of readers under
the lock and pushes without it.

**Storage (`PersistentStore`).**  The file is a sequence of the marker and of
objects; a write may fail, a crash may cut an append in two, and a file that
does not decode loads as empty.

Configuration that does not change while the program runs is a CONSTANT, or is
chosen in `Init` from a CONSTANT set of alternatives (`...Scenes`).

## 3 The runs

`tlc -config <cfg> <module>`.  Bounds are CONSTANTS named `Max...` or fields of
a scene; each instance is the smallest in which the case it is about happens.
Most passing runs check several components at once: the module of the run is a
sum, whose variable `part`, chosen in `Init`, says which component a behaviour is
about.  Only that component takes steps, the others stay in one of their
initial states, so that the run checks each of them separately; parts that
really interact (LinkMonitor's peers and KvStore, the nodes of `KvStoreSync`,
`Spark` and `Dual`, the threads of `PeerIngress` and `Fib`) are composed inside
their modules.

| run | part | instance | shows |
|---|---|---|---|
| `bringup` | stores | 3 stores in a line, 1 key written twice, a failing call | an update crosses the middle node; nothing is lost; eventually all stores agree |
| | start | 2 areas, 2 neighbours, one over parallel links; ups, downs, restarts, a failing sync, with and without the sync timeout | peers follow adjacencies; KvStore follows LinkMonitor; `KVSTORE_SYNCED` comes once, after discovery and after the initial peers, and it comes |
| `recovery` | ttl | 2 stores, 2 originators that contest a key, ttl 3 ticks, decrement 1 | every key has its countdown, one per originator; no early expiry; abandoned keys die out |
| | own | 1 key, 3 requests of all kinds, 2 foreign publications, rate limiter | cache and store agree or the key waits; what waits has a timer; a persisted value wins |
| | spark | 2 nodes, each with any belief about the other that the invariants allow | they end up adjacent |
| `decision` | decision | a start with 1 peer and static routes; a running node with two policies and a restart | routes are fresh when nothing is pending; nothing is forgotten; the initial build is gated, and not for ever |
| | linkstate | 3 nodes, 4 cables of which 2 parallel, metrics, overloads, increments, next hops change | links updated in place are those of the databases; SPF results and routes are never stale |
| | selection | 5 announcers in 2 areas, all drains and metrics, 2 policies, any order of visits | the result is that of an order-free definition; drains unroute nothing; policies empty nothing |
| `neighbors` | spark | 2 nodes, loss, 1 restart, 1 flap, compatible or not | no failed CHECK, timers match states, reports match neighbours, discovery announced once |
| | interfaces | 2 interfaces in a subnet, 4 changes, a lost event, a snapshot | changes are scheduled; snapshots repair; flaps are damped |
| | drain | 5 scenes of configuration and commands, a restart | the database follows the state; a drain survives a restart |
| `peering` | sync | 2 nodes, 1 key, conflicting writes of one version, a ttl update, a failing call, a peer event | nothing is lost between full-sync and flooding, no undefined transition, no stranded peer, subscribers see the store, stores advance |
| | ingress | 2 connections of 1 or 2 peers, requests of 2 sizes, pauses, the stop | the books balance; nobody is left paused; queues stay within the limit |
| | trees | a pair with a restart, a line, 2 triangles, failing links | no CHECK fails; no loop; no counting up; when quiet, shortest paths on one tree |
| `services` | prefixes | an aggregate, a plugin's prefix, a redistributed one, 2 areas, keys left over | keys, static routes and aggregates follow the entries and Fib |
| | config | 2 keys, 4 changes, 2 ends of the process, failing rewrites, torn appends | a start restores the last save |
| | flood | 2 keys, 2 peers, budget 1 or 2, a failure or a lost completion | the budget is kept and repaired; no flood is forgotten |
| | merge | 2 stores; 3 writes of any version 1..2, originator, value, ttl version; any order, repetition, ttl updates in between | stores hold the newest entry they were handed; equal inputs give equal contents; nothing goes back |
| | routes, queue, replicate | 2 keys, 4 updates; 3 policies, up to 4 messages; 2 writers, 2 readers | coalescing and suppression implement `StateStream` and bound the backlog; all readers see one order |
| `fib` | | 2 prefixes, 2 routes, 2 updates, 1 failure, 1 restart of the agent, with and without delayed deletion | what is not dirty is programmed; work has a waker; a sync ends in SYNCING; only confirmed routes are published; the agent ends with Decision's routes |
| `sync_resync` | | 2 nodes, 2 keys | *violation*, see 6.1 |
| `self_limited` | | 2 keys | *violation*, see 6.2 |
| `init_early`, `init_stuck` | | 1 area, 2 neighbours | *violations*, see 6.3 and 6.4 |
| `fib_resync` | | 1 prefix, 1 route | *violation*, see 6.5 |

Why the bounds suffice.  The merge compares two entries at a time, and three
writes give every order of two conflicting ones with a third in between.  The
hazards of replication concern one link and one update in flight against one
full-sync (`peering`), and forwarding by a node that is itself syncing
(`bringup`); one failure already puts a late answer, a repeated full-sync and an
update next to each other.  `MaxSyncLimit` is 32 in the code; with at most two
peers a limit of 2 or more is never reached.  A ttl of three ticks and a
decrement of one leave room for one exchange after the originator's death and
for a refresh before it.  One failure and one restart of the agent interrupt any
call of any fiber; two updates overlap with both.  Three nodes with two parallel
links have every shape a path of two hops can have: equal cost, a tie broken by
a parallel link, a detour around an overloaded node.  A triangle is the smallest
network in which DUAL diffuses around a failure and in which nodes could count
up together.  Thresholds that are large in the code (64 pending requests, the
flush ratio, the byte budget) are 1 or 2, so that both sides of them are
reached; the models do not otherwise depend on them.

What passes only within a restriction.  These parts exclude a case in which a
property is known to fail; outside it the result does not hold.

| part | restriction | without it |
|---|---|---|
| sync, stores | one key | `SubscribersSeeTheStore` fails with two keys in one ttl update (`sync_resync`) |
| ttl | one key | `EveryKeyIsCountedDown` fails with `Keys = {k1, k2}`, for the same reason |
| own | one key; `PersistedWins` assumes that the process does not abort | fails with two keys (`self_limited`) |
| start | `EarlyDowns = FALSE`; the liveness property allows for neighbours that go | `SyncedAfterDiscovery` and `EventuallySynced` fail (`init_early`, `init_stuck`) |
| `fib` | `RestartAnyTime = FALSE`: the agent restarts only while Fib knows its `aliveSince` | `ProgrammedOrDirty` and `EventuallyProgrammed` fail (section 7) |
| config | appends do not fail, unless the process ends | `ChangesAreSavedOrDue` and `MarkerIsWrittenOnce` fail with the fault `"append"` (section 7) |
| trees | a node restarts unnoticed in the pair only | `DualNoCountingUp` fails in a triangle (section 7) |
| flood | no drain-status keys | `FabricKeysStayInside` fails (section 7) |

Deadlock checking is switched off where the bounds on inputs, or an idle
system, legitimately end a behaviour; the progress that matters there is stated
as a property (`NoStrandedPeer`, `NothingWaitsForNoTimer`, `NoLostWakeup`,
`ChangesAreScheduled`, `NothingForgotten`, `UnreadWillBeRead` and so on, and the
liveness properties).

Every property has a mutant: a definition changed as a plausible mistake in the
code would change it (`<definition>_<what>`, defined before the definition),
with which TLC finds the property violated.

## 4 Fairness

Liveness is checked in `bringup`, `recovery` and `fib`; each part has the
fairness of its own module.

* `KvStoreSync!FairSpec`: weak fairness of the nodes' own steps (processing of
  calls, answers, errors and the timer).  An event base runs every callback that
  is ready; thrift answers or times out; the backoff of a peer is bounded.  No
  fairness for writes, failures and peer changes, which are finitely many.
* `KvStoreTtl!TtlFairSpec`: messages arrive, timers fire, time passes.  Nobody
  has to start a full-sync.
* `KvStoreSelfOriginated!SelfFairSpec`: the throttle, the unset timer and the
  publication timer fire.  When the advertising timer fires again and again,
  some firing finds every backoff passed.  A token of the rate limiter is not
  guaranteed at any particular attempt, but the bucket fills, so what is
  buffered is flooded in the end.
* `KvStoreInit!StartFairSpec`: discovery ends (Spark sends `NEIGHBOR_DISCOVERED`
  after a timeout at the latest), queues are read, timers fire, calls end.
  Nobody has to come or go.
* `Spark!SparkFairness`: interfaces are added, packets are received, hold timers
  expire.  Packets are sent again and again by periodic timers, and a packet
  sent often enough gets through: strong fairness of the sends, since a full
  channel disables them now and then.  No restart or flap happens for ever.
* `Fib!FairSpec`: fibers run, a fiber that waits for the lock gets it (the
  semaphore is released by `SCOPE_EXIT`), calls end, timers fire and keep-alive
  succeeds in the end.

## 5 Proofs

| module | theorem | what it says, for every value of the constants |
|---|---|---|
| `KvStoreReplicasProofs` | `Invariance` | a store holds an entry it was handed, and none it was handed is newer |
| | `Convergence` | stores that were handed the same entries hold the same value of the same writer |
| | `Monotonicity` | a store never goes back; a ttl update never changes content |
| `KvStoreSyncProofs` | `TypeCorrectness` | tables and calls are well formed |
| | `DefinedTransitions` | the CHECK of `getNextState` never fails |
| | `TimersRun` | a peer that waits for a full-sync has a timer |
| | `StoresAdvance` | no step of any node replaces an entry by an older one |
| `LinkMonitorPeersProofs` | `PeersInvariance` | peers are exactly the neighbours with an adjacency up, with exactly those adjacencies |
| `FibProofs` | `FibersAgree` | types, and no lost wake-up |
| | `SyncsAreNotOvertaken` | when a sync ends Fib is in SYNCING |
| | `CleanIsProgrammed` | a clean prefix is programmed (for `~RestartAnyTime`) |
| | `CleanIsPublished` | a clean prefix is published, until Fib first has to sync again |
| | `PublishesAfterProgramming` | a route is published only in the step in which the agent confirms it |
| `RouteStreamProofs` | `QueueHoldsTheRest` | reading the queue leads to the latest table, and the backlog of a coalescing queue is bounded |
| | `CoalescingImplementsStream` | the queue implements `StateStream` |
| `PeerIngressProofs` | `NobodyIsLeftPaused` | with the threads at rest, a connection is paused only while the bytes justify it and the server is not stopping |

Assumptions are those of the modules (`NodesAssumption`, `WritesAssumption`,
`LimitAssumption`, `ConfigAssumption` and so on): ids are positive numbers,
written entries are well formed, limits are natural numbers, special values are
no ordinary ones.

*The merge* (`KvStoreMergeProofs`).  `AtLeast` is transitive, and antisymmetric up
to content.  `MergeValueEntry` and `MergeTtlEntry` go through the results of
`getMergeType` and show that the outcome is the newer of the two entries, or the
old one with a higher ttl version.  `HoldsTheNewest` is inductive together with
the types, and `Convergence` follows by antisymmetry: the newest of a set is
unique up to content.

*Replication* (`KvStoreSyncProofs`).  `MergePublicationOutcome` states once what
any call of `mergePublication` yields; `ApplyPreserves` carries that over to the
state; one lemma per action supplies the premises.  The invariant adds
`RepliesCarryValues`: the answer of a full-sync is cut out of a store, so it
holds values and no ttl updates.  It is needed because `processThriftSuccess`
takes `SYNC_RESP_RCVD` after the merge, and a merge that met an inconsistency
would have sent the peer to IDLE, where that transition is undefined; only ttl
updates reveal inconsistencies (`ValuesAreConsistent`).

*LinkMonitor* (`LinkMonitorPeersProofs`).  `PeersFollowAdjacencies` is inductive
with the types and the keys of the tables.  `OnePeer` isolates the change to
one neighbour; `UpStep` and `DownStep` are the two handlers.

*Fib* (`FibProofs`).  Four invariants in layers.  `FiberInv` is the discipline of
the fibers: whoever holds `updateRoutesSemaphore_` is in a call or about to
resume, only the retry fiber syncs, and `state` stays SYNCING from its decision
to sync until the sync ends, although updates and the keep-alive change the state
without the lock.  `NoLostWakeup` is inductive with it, because every path that
releases the semaphore signals the retry fiber when something is left to do.
`UpdateInv` says that an update in hand is proper: no prefix is updated and
deleted, and what a call carries is what `routeState_` holds, which is what makes
the answer of a call applicable to the state it meets.  `ProgrammedInv` weakens
`ProgrammedOrDirty` by the prefixes the call in progress is about
(`Unprogrammed`), and holds also while the agent is down.  `PublishedInv` does
the same for what was published, and knows that before the first resync the only
sync is the first one, whose update is the whole table.  Each layer has one lemma
per action; the operators on tables and marks have lemmas of their own.

*Queues* (`RouteStreamProofs`).  `CoalescingIsSequential`: applying a coalesced
update is applying the two it was made of, for every mix of incremental updates
and full syncs the queue merges.  `ChainInv` says that the queue is a chain of
updates that leads from the reader's table, through a table that was published
for every element, to the latest; pushing, merging and reading keep it.  The
refinement maps the reader's position to the last published state its table
stems from.

*Ingress limit* (`PeerIngressProofs`).  `IngressInv` adds where each thread is in its
handler: a thread that changed the bytes has still to check them, and one that
paused a connection has still to recheck.  One lemma per step.

Only model-checked, and why:

* liveness (`StoresAgree`, `StartCompletes`, `AbandonedKeysDieOut`,
  `PersistedWins`, `NeighborsConverge`, `EventuallyProgrammed`) rests on fairness,
  which TLAPS does not reach;
* `NothingLost` and `SubscribersSeeTheStore` do not hold with several keys in a
  publication (6.1), so that there is no general theorem to prove;
* `LinkState`, `RouteSelection` and `PersistentStore` compare what folds over
  sequences and sets compute with a reference, and `BooksBalance` compares sums
  over sets: proofs need induction over data, which the installed provers cannot
  instantiate;
* `Spark`, `Dual`, `Decision`, `PrefixManager`, `LinkMonitorInterfaces`,
  `LinkMonitorDrain`, `KvStoreTtl`, `KvStoreSelfOriginated`, `KvStoreFlood`,
  `SuppressionQueue` and `ReplicateQueue` have no proofs yet.

## 6 Where code and documentation disagree

1. **A resync swallows the other keys of a publication** (`sync_resync`,
   `KvStore-inl.h:4477`).  When one key of a ttl update is inconsistent with its
   originator, `mergePublication` returns after the merge and before publishing,
   flooding and updating the countdown of the other keys.  Full-syncs do not
   repair it, since the entries compare equal afterwards.
2. **A lost override under the rate limiter** (`self_limited`,
   `KvStore-inl.h:2359`).  `advertiseSelfOriginatedKeys` erases the keys it
   collected before `setKeyVals`, which may have put one back.
3. **`KVSTORE_SYNCED` before discovery** (`init_early`, `LinkMonitor.cpp:802`).
   Deletions are pushed before the initial peers are announced.
4. **`KVSTORE_SYNCED` is not published** (`init_stuck`, `KvStore-inl.h:3208`) when
   the last unsynced peer is deleted, until another peer event comes.
5. **Updates during a resync are not published** (`fib_resync`, `Fib.cpp:711`).

`PROJECT.json` quotes the lines they disagree with.

## 7 Observations

Met while modelling, kept in the models as the code has them, and without a run
of their own.

KvStore:

* `requestThriftPeerSync` compares with `>` (`KvStore-inl.h:2778`), so one more
  full-sync than `parallelSyncLimitOverThrift_` may run.
* A key that was *set* has no `keyBackoff`; if another node overrides it, the
  CHECK in `advertiseSelfOriginatedKeys` (2325) fails.  The model has the abort
  (`aborted`), and `PersistedWins` is about processes that keep running.  No
  module sends `SetKeyValueRequest` at present.
* `unsetSelfOriginatedKey` keeps a marker that is already waiting (2393), whose
  version may be too low when it is written at last.
* A key refreshed in the situation of 6.1 keeps a countdown that no longer
  matches it (`EveryKeyIsCountedDown` fails in `KvStoreTtl` with two keys), and
  so may outlive its originator.
* `buildCoalescedFloodParams` (4034, "mirrors makeFabricParam") filters adjacency
  and prefix keys of the fabric, but not the drain-status keys `makeFabricParam`
  (4234) filters too: deferred, such a key reaches an external peer.
* Deferred keys are sent with the stored ttl, not the remaining one.
* A connection taken out of the paused list and not yet resumed may be paused
  again (`KvStorePeerIngressLimit.cpp:398`, `574`); the resume on its way then
  undoes the second pause.
* In DUAL a neighbour that restarts without a peerDown (`Dual.cpp:430`) leaves
  reports of its earlier life with its neighbours, which can then count up
  together; packets that arrive after the own peerDown are stored as reports.

LinkMonitor, Spark, Decision, PrefixManager:

* `getRetryTimeOnUnstableInterfaces` (`LinkMonitor.cpp:1073`) overwrites the
  minimum it should accumulate: an interface may be advertised later than its
  backoff asks for.  An older link snapshot overwrites newer events until the
  next one (1265), and interfaces that are gone stay in the table.
* A drain command is acknowledged before the state is stored.  A node can be
  soft- and hard-drained at once, by commands in either order.  Commands for an
  unknown interface are acknowledged and skipped (1485).
* Two directions of a pending adjacency are erased with `&&` (`Decision.cpp:685`):
  when one is gone already the other stays, and the initial build waits for its
  timeout.  Peers that are announced after the first event are not waited for.
* The timer that reverts a RIB policy is not scheduled for a policy that was read
  back from its file (`Decision.cpp:776`; `Decision.h:330` says the timer reverts
  its effects): it stays in the routes until the next rebuild.  A policy that was
  cleared is read back after a restart.
* A neighbour with a larger hold time overwrites the keep-alive timer of the
  interface (`Spark.cpp:2078`).
* PrefixManager compares entries without their next hops, and a prefix whose
  programming failed is reported by Fib like one that was deleted.

Fib, queues, storage:

* A restart of the agent is noticed only if Fib knows its previous `aliveSince`
  (`Fib.cpp:971`).  It does not before the first answer and after a keep-alive
  that failed (which resets it to 0).  With `RestartAnyTime = TRUE` TLC finds a
  restart between a successful sync and the next answer, after which Fib stays
  SYNCED and the agent without the routes.
* A snooper whose snapshot is older than Fib's first sync keeps a route that the
  sync removed, since deltas do not say that they are full.
* The suppression of prefix events would drop events other than those of
  LinkMonitor; nothing else is pushed to that queue.
* `savePersistentObjectToDisk` moves `pObjects_` out, and sets
  `tlvMarkerWritten_`, before an append whose result it does not look at
  (`PersistentStore.cpp:142`, `152`).  After a failed append the changes are in
  memory only until the next rewrite, and the file may lack its marker.  A torn
  append makes the whole file unreadable, and the store starts empty.

## 8 What is not modelled

Byte layout and parsing (thrift, netlink messages, UDP packets), logging,
counters, performance events and streams: no state of the protocols depends on
them.  Configuration and policy are static.  The control server forwards
requests that appear here as inputs.  Hash collisions, clock jumps and
exhaustion of memory are assumed away.  MPLS routes are not programmed by this
version of Fib.  Of Spark, several neighbours on an interface, rtt measurement
and rate limits; of DUAL, children and flooding peers; of Decision, KSP2 paths,
UCMP weights and label allocation; of PrefixManager, the policy engine (which
allows everything here) and the filtered getters.  The watchdog, the netlink
library, the platform handler, start-up and shutdown, and the command line tools
are left out; `PROJECT.json` gives the reason for each.
