--------------------------- MODULE PersistentStore ----------------------------
(***************************************************************************)
(* The configuration store of config-store/PersistentStore.{h,cpp}: a map   *)
(* in memory, and a file that is a log of the additions and deletions made  *)
(* to it.  The log starts with a marker, is appended to from a timer, is    *)
(* rewritten whole every kDbFlushRatio appends and when the process ends,   *)
(* and is replayed when it starts.                                          *)
(*                                                                         *)
(* The file is a sequence of the marker and of objects, empty if there is   *)
(* none.  A file that does not begin with the marker, has another one       *)
(* further on, or ends in the middle of an object does not decode: the      *)
(* decoder takes the bytes it finds there for lengths and runs past the     *)
(* end.                                                                     *)
(***************************************************************************)
EXTENDS Integers, FiniteSets, Sequences, Functions

CONSTANTS
  StoreNames,     \* keys
  StoredValues,   \* values
  kDbFlushRatio,  \* appends between two rewrites of the file
  MaxStoreChanges, \* bound: calls of store and erase
  MaxStops,       \* bound: ends of the process
  StoreScenes     \* [periodic, dryrun, faults : the I/O failures that can happen]

ASSUME FlushRatioAssumption == kDbFlushRatio \in Nat \ {0}

VARIABLES
  psScene,        \* how the store was built and what the disk can do to it
  psStore,        \* the store and its file, a record:
                  \*   up       the process runs
                  \*   db       database_
                  \*   objects  pObjects_
                  \*   marked   tlvMarkerWritten_
                  \*   appends  numOfNewWritesToDisk_
                  \*   timer    saveDbTimer_ is scheduled
                  \*   file     the storage file
                  \*   durable  history: db when the file last took all of it
                  \*   failed   the last save returned false
  psChanges, psStops

psVars == <<psScene, psStore, psChanges, psStops>>

Marker == [type |-> "MARKER"]
Torn   == [type |-> "TORN"]       \* the first bytes of an object
Adding(k, v) == [type |-> "ADD", key |-> k, data |-> v]
Deleting(k)  == [type |-> "DEL", key |-> k]

EmptyDb == [k \in {} |-> k]
Change(db, object) ==
  LET k == object.key
  IN  IF object.type = "ADD"
      THEN [j \in DOMAIN db \cup {k} |-> IF j = k THEN object.data ELSE db[j]]
      ELSE [j \in DOMAIN db \ {k} |-> db[j]]

StoreObjects == {Adding(k, v) : k \in StoreNames, v \in StoredValues}
                \cup {Deleting(k) : k \in StoreNames}
Databases == UNION {[K -> StoredValues] : K \in SUBSET StoreNames}

\* Object i is the last one about its key.
IsLast(objects, i) == \A j \in i + 1 .. Len(objects) : objects[j].key # objects[i].key

Replay_FirstAdds(objects) ==
  LET adds == {i \in DOMAIN objects : objects[i].type = "ADD"}
  IN  [k \in {objects[i].key : i \in adds} |-> objects[CHOOSE i \in adds : objects[i].key = k].data]

\* The database after a log: the last object about a key decides.
Replay(objects) ==
  LET adds == {i \in DOMAIN objects : objects[i].type = "ADD" /\ IsLast(objects, i)}
  IN  [k \in {objects[i].key : i \in adds} |-> objects[CHOOSE i \in adds : objects[i].key = k].data]

\* loadDatabaseTlvFormat reaches the end of the file without an error.
Decodes(file) ==
  /\ file # <<>>
  /\ Head(file) = Marker
  /\ \A i \in 2 .. Len(file) : file[i].type \in {"ADD", "DEL"}

(***************************************************************************)
(* Saving: operators from a store to the set of stores it may become       *)
(***************************************************************************)
Fault(f) == f \in psScene.faults

If(condition, set) == IF condition THEN set ELSE {}

\* The database as additions, in an order that is the hash map's.
Logs(db) ==
  LET adds == {Adding(k, db[k]) : k \in DOMAIN db}
  IN  Bijection(1 .. Cardinality(adds), adds)

\* The file is replaced whole (writeFileAtomic), or the call throws.
saveDatabaseToDisk(s) ==
  {[s EXCEPT !.file = <<Marker>> \o log, !.marked = TRUE, !.durable = s.db] : log \in Logs(s.db)}
  \cup If(Fault("rewrite"), {[s EXCEPT !.failed = TRUE]})

\* What writeFile with O_APPEND leaves in the file: all items, or when the
\* write fails none of them.  A failure is its result, which
\* writeIoBufToDisk does not look at.
Appended(file, items) ==
  {file \o items} \cup If(Fault("append"), {file})

ButLast(items) == SubSeq(items, 1, Len(items) - 1)
NewItems(s) == (IF s.marked THEN <<>> ELSE <<Marker>>) \o s.objects

\* The store once f is the file its append left.
AfterAppend(s, f) ==
  [s EXCEPT !.file = f, !.objects = <<>>, !.marked = TRUE,
            !.appends = @ + 1, !.failed = FALSE,
            !.durable = IF f = s.file \o NewItems(s) THEN s.db ELSE @]

\* With nothing to append (a retry after a rewrite that failed) the queue has
\* no buffer, and writing it ends the process.
savePersistentObjectToDisk(s) ==
  IF psScene.dryrun THEN {s}
  ELSE IF NewItems(s) = <<>> THEN {[s EXCEPT !.up = FALSE]}
  ELSE UNION {LET t == AfterAppend(s, f)
              IN  IF t.appends < kDbFlushRatio THEN {t}
                  ELSE saveDatabaseToDisk([t EXCEPT !.appends = 0]) :
                f \in Appended(s.file, NewItems(s))}

maybeSaveObjectToDisk(s) ==
  IF psScene.periodic THEN {[s EXCEPT !.timer = TRUE]}
  ELSE savePersistentObjectToDisk(s)

(***************************************************************************)
(* Starting: loadDatabaseFromDisk                                          *)
(***************************************************************************)
NewStore(file, durable) ==
  [up |-> TRUE, db |-> EmptyDb, objects |-> <<>>, marked |-> FALSE,
   appends |-> 0, timer |-> FALSE, failed |-> FALSE,
   file |-> file, durable |-> durable]

loadDatabaseFromDisk(s) ==
  IF Decodes(s.file)
  THEN [NewStore(s.file, s.durable) EXCEPT
          !.db = Replay(Tail(s.file)), !.marked = TRUE]
  ELSE NewStore(s.file, s.durable)

(***************************************************************************)
(* Steps                                                                   *)
(***************************************************************************)
StoreInit ==
  /\ psScene \in StoreScenes
  /\ psStore = NewStore(<<>>, EmptyDb)
  /\ psChanges = 0
  /\ psStops = 0

\* The database changes by the object, which then waits to be appended.
Make(object) ==
  /\ psStore' \in maybeSaveObjectToDisk(
                    [psStore EXCEPT !.db = Change(@, object),
                                    !.objects = Append(@, object)])
  /\ psChanges' = psChanges + 1
  /\ UNCHANGED <<psScene, psStops>>

storeKey(k, v) ==
  /\ psStore.up /\ psChanges < MaxStoreChanges
  /\ Make(Adding(k, v))

erase_MemoryOnly(k) ==
  /\ psStore.up /\ psChanges < MaxStoreChanges
  /\ k \in DOMAIN psStore.db
  /\ psStore' = [psStore EXCEPT !.db = Change(@, Deleting(k))]
  /\ psChanges' = psChanges + 1
  /\ UNCHANGED <<psScene, psStops>>

erase(k) ==
  /\ psStore.up /\ psChanges < MaxStoreChanges
  /\ k \in DOMAIN psStore.db
  /\ Make(Deleting(k))

\* saveDbTimer_ fires; a save that failed is tried again after a backoff.
SaveTimeout ==
  /\ psStore.up /\ psStore.timer
  /\ \E t \in savePersistentObjectToDisk(psStore) :
       psStore' = [t EXCEPT !.timer = t.failed]
  /\ UNCHANGED <<psScene, psChanges, psStops>>

\* The destructor saves the database whole; what it returns is ignored.
Stop ==
  /\ psStore.up /\ psStops < MaxStops
  /\ \E t \in saveDatabaseToDisk(psStore) : psStore' = [t EXCEPT !.up = FALSE]
  /\ psStops' = psStops + 1
  /\ UNCHANGED <<psScene, psChanges>>

\* The process ends between two steps.
Crash ==
  /\ psStore.up /\ psStops < MaxStops
  /\ psStore' = [psStore EXCEPT !.up = FALSE]
  /\ psStops' = psStops + 1
  /\ UNCHANGED <<psScene, psChanges>>

\* The process, or the machine, ends while an append is under way.
CrashInAppend ==
  /\ psStore.up /\ psStore.timer /\ psStops < MaxStops
  /\ Fault("torn") /\ psStore.objects # <<>>
  /\ psStore' = [psStore EXCEPT !.up = FALSE,
        !.file = @ \o ButLast(NewItems(psStore)) \o <<Torn>>]
  /\ psStops' = psStops + 1
  /\ UNCHANGED <<psScene, psChanges>>

Start ==
  /\ ~psStore.up
  /\ psStore' = loadDatabaseFromDisk(psStore)
  /\ UNCHANGED <<psScene, psChanges, psStops>>

StoreNext ==
  \/ \E k \in StoreNames : erase(k) \/ \E v \in StoredValues : storeKey(k, v)
  \/ SaveTimeout
  \/ Stop \/ Crash \/ CrashInAppend \/ Start

StoreSpec == StoreInit /\ [][StoreNext]_psVars

(***************************************************************************)
(* Properties                                                              *)
(***************************************************************************)
\* Types of the store and of its file.
StoreTypeOK ==
  /\ psScene \in StoreScenes
  /\ psStore \in [up : BOOLEAN, db : Databases, objects : Seq(StoreObjects), marked : BOOLEAN,
                  appends : 0 .. kDbFlushRatio - 1, timer : BOOLEAN, failed : BOOLEAN,
                  file : Seq(StoreObjects \cup {Marker, Torn}), durable : Databases]

\* A store that starts has exactly what the last save wrote, however the
\* process ended and whatever mix of appends and rewrites made the file; a
\* file cut off in the middle of an append is the exception.
StartRestoresLastSave ==
  [][~psStore.up /\ psStore'.up =>
       \/ psStore'.db = psStore.durable
       \/ Torn \in Range(psStore.file)]_psVars

\* Every change acknowledged to a caller is in the file or a save of it is
\* due: no order of changes, saves that failed and restarts leaves one that
\* only memory has and nothing will write.
ChangesAreSavedOrDue ==
  psStore.up /\ ~psScene.dryrun =>
    \/ psStore.db = psStore.durable
    \/ psStore.timer
    \/ Torn \in Range(psStore.file)

\* tlvMarkerWritten_ is what its comment says, "Whether the TlvFormatMarker
\* has been written to the file": with it the file begins with the marker,
\* and never has a second one where objects are expected.
MarkerIsWrittenOnce ==
  /\ psStore.up /\ psStore.marked =>
       psStore.file # <<>> /\ Head(psStore.file) = Marker
  /\ Torn \notin Range(psStore.file) =>
       \A i \in 2 .. Len(psStore.file) : psStore.file[i] # Marker

\* The store between two callbacks: changes are in the file or due, and the file has its
\* marker once and first (PersistentStore.cpp).
StoreInvariant ==
  /\ StoreTypeOK
  /\ ChangesAreSavedOrDue
  /\ MarkerIsWrittenOnce

===============================================================================
