------------------------- MODULE PersistentStoreProofs -------------------------
(***************************************************************************)
(* For all keys and values, any number of changes and ends of the process  *)
(* and every kDbFlushRatio, rewrites that fail and appends cut in two      *)
(* included: the file has its marker once and first, a change is in the    *)
(* file or a save of it is due, and a start restores the last save.        *)
(***************************************************************************)
EXTENDS PersistentStore, SequenceTheorems, FiniteSetTheorems, TLAPS

(* Most steps are first-order; the ones with arithmetic or records say SMT. *)
USE Zenon

(* writeIoBufToDisk does not look at the result of an append; they succeed. *)
AppendsSucceed == \A s \in StoreScenes : "append" \notin s.faults

StoreItems == StoreObjects \cup {Marker, Torn}

StoreRecords ==
  [up : BOOLEAN, db : Databases, objects : Seq(StoreObjects), marked : BOOLEAN,
   appends : 0 .. kDbFlushRatio - 1, timer : BOOLEAN, failed : BOOLEAN,
   file : Seq(StoreItems), durable : Databases]

(* The objects of a file: what follows the marker. *)
Items(file) == IF file = <<>> THEN <<>> ELSE Tail(file)

Clean(file) == Torn \notin Range(file)

(* The file begins with the marker and, unless an append was cut in two,   *)
(* has but objects after it, those of what was last saved.                 *)
FileSound(file, durable) ==
  /\ file # <<>> => Head(file) = Marker
  /\ Clean(file) => Items(file) \in Seq(StoreObjects) /\ durable = Replay(Items(file))

(* The database is what the file and the objects to append amount to. *)
MemorySound(s) ==
  /\ s.marked => s.file # <<>>
  /\ Clean(s.file) => /\ s.file # <<>> => s.marked
                      /\ s.db = Replay(Items(s.file) \o s.objects)

(* What holds whether or not the process runs. *)
Kept(s) == s \in StoreRecords /\ IsFiniteSet(DOMAIN s.db) /\ FileSound(s.file, s.durable)

Sound(s) == Kept(s) /\ (s.up => MemorySound(s))

(* The inductive invariant: what waits to be appended has a timer. *)
LogInv ==
  /\ psScene \in StoreScenes
  /\ Sound(psStore)
  /\ psStore.up /\ ~psScene.dryrun => psStore.objects = <<>> \/ psStore.timer

-----------------------------------------------------------------------------
(* Objects, and the databases they make. *)
LEMMA ObjectFields ==
  ASSUME NEW o \in StoreObjects
  PROVE  /\ o.key \in StoreNames /\ o.type \in {"ADD", "DEL"}
         /\ o.type = "ADD" => o.data \in StoredValues
         /\ o # Marker /\ o # Torn
BY SMT DEF StoreObjects, Adding, Deleting, Marker, Torn

(* The database of a store that has nothing. *)
LEMMA EmptyDbType == EmptyDb \in Databases /\ DOMAIN EmptyDb = {}
<1>1. EmptyDb \in [{} -> StoredValues]
  BY DEF EmptyDb
<1>2. {} \in SUBSET StoreNames
  OBVIOUS
<1>3. QED
  BY <1>1, <1>2 DEF Databases

(* A database is a function of some of the keys. *)
LEMMA DatabaseType ==
  ASSUME NEW db \in Databases
  PROVE  /\ DOMAIN db \subseteq StoreNames /\ db = [k \in DOMAIN db |-> db[k]]
         /\ \A k \in DOMAIN db : db[k] \in StoredValues
BY DEF Databases

(* And every such function is one. *)
LEMMA IsDatabase ==
  ASSUME NEW db, NEW K \in SUBSET StoreNames, db \in [K -> StoredValues]
  PROVE  db \in Databases
BY DEF Databases

(* insert_or_assign and erase. *)
LEMMA ChangeType ==
  ASSUME NEW db \in Databases, NEW o \in StoreObjects, IsFiniteSet(DOMAIN db)
  PROVE  Change(db, o) \in Databases /\ IsFiniteSet(DOMAIN Change(db, o))
<1>1. o.key \in StoreNames /\ (o.type = "ADD" => o.data \in StoredValues)
  BY ObjectFields
<1>2. CASE o.type = "ADD"
  <2>1. Change(db, o) = [j \in DOMAIN db \cup {o.key} |-> IF j = o.key THEN o.data ELSE db[j]]
    BY <1>2 DEF Change
  <2>2. DOMAIN Change(db, o) = DOMAIN db \cup {o.key}
    BY <2>1
  <2>3. DOMAIN db \cup {o.key} \in SUBSET StoreNames
    BY <1>1, DatabaseType
  <2>4. Change(db, o) \in [DOMAIN db \cup {o.key} -> StoredValues]
    BY <1>1, <1>2, <2>1, DatabaseType
  <2>5. QED
    BY SMT, <2>2, <2>3, <2>4, IsDatabase, FS_AddElement
<1>3. CASE o.type # "ADD"
  <2>1. Change(db, o) = [j \in DOMAIN db \ {o.key} |-> db[j]]
    BY <1>3 DEF Change
  <2>2. DOMAIN Change(db, o) = DOMAIN db \ {o.key}
    BY <2>1
  <2>3. DOMAIN db \ {o.key} \in SUBSET StoreNames
    BY DatabaseType
  <2>4. Change(db, o) \in [DOMAIN db \ {o.key} -> StoredValues]
    BY <2>1, DatabaseType
  <2>5. QED
    BY SMT, <2>2, <2>3, <2>4, IsDatabase, FS_RemoveElement
<1>4. QED
  BY <1>2, <1>3

-----------------------------------------------------------------------------
(* loadDatabaseTlvFormat: the additions that nothing later overrides. *)
Adds(s) == {i \in DOMAIN s : s[i].type = "ADD" /\ IsLast(s, i)}

(* There is one for each key. *)
LEMMA LastIsUnique ==
  ASSUME NEW s \in Seq(StoreObjects), NEW i \in Adds(s), NEW j \in Adds(s), s[i].key = s[j].key
  PROVE  i = j
<1>1. /\ Len(s) \in Nat /\ i \in 1 .. Len(s) /\ j \in 1 .. Len(s)
      /\ IsLast(s, i) /\ IsLast(s, j)
  BY LenProperties DEF Adds
<1>2. ~ (i < j)
  <2>1. SUFFICES ASSUME i < j PROVE FALSE
    OBVIOUS
  <2>2. j \in i + 1 .. Len(s)
    BY SMT, <1>1, <2>1
  <2>3. QED
    BY <1>1, <2>2 DEF IsLast
<1>3. ~ (j < i)
  <2>1. SUFFICES ASSUME j < i PROVE FALSE
    OBVIOUS
  <2>2. i \in j + 1 .. Len(s)
    BY SMT, <1>1, <2>1
  <2>3. QED
    BY <1>1, <2>2 DEF IsLast
<1>4. QED
  BY SMT, <1>1, <1>2, <1>3

(* So the replay is the one database that agrees with them. *)
LEMMA ReplayIs ==
  ASSUME NEW s \in Seq(StoreObjects), NEW db,
         db = [k \in DOMAIN db |-> db[k]],
         \A i \in Adds(s) : s[i].key \in DOMAIN db /\ db[s[i].key] = s[i].data,
         \A k \in DOMAIN db : \E i \in Adds(s) : s[i].key = k
  PROVE  Replay(s) = db
<1> DEFINE pick(k) == CHOOSE i \in Adds(s) : s[i].key = k
<1>1. Replay(s) = [k \in {s[i].key : i \in Adds(s)} |-> s[pick(k)].data]
  BY DEF Replay, Adds
<1>2. {s[i].key : i \in Adds(s)} = DOMAIN db
  OBVIOUS
<1>3. \A k \in DOMAIN db : s[pick(k)].data = db[k]
  <2>1. SUFFICES ASSUME NEW k \in DOMAIN db PROVE s[pick(k)].data = db[k]
    OBVIOUS
  <2>2. pick(k) \in Adds(s) /\ s[pick(k)].key = k
    OBVIOUS
  <2>3. QED
    BY <2>2
<1>4. QED
  BY <1>1, <1>2, <1>3

(* It agrees with them. *)
LEMMA ReplayAgrees ==
  ASSUME NEW s \in Seq(StoreObjects)
  PROVE  /\ Replay(s) = [k \in DOMAIN Replay(s) |-> Replay(s)[k]]
         /\ \A i \in Adds(s) : s[i].key \in DOMAIN Replay(s) /\ Replay(s)[s[i].key] = s[i].data
         /\ \A k \in DOMAIN Replay(s) : \E i \in Adds(s) : s[i].key = k
<1> DEFINE pick(k) == CHOOSE i \in Adds(s) : s[i].key = k
<1>1. Replay(s) = [k \in {s[i].key : i \in Adds(s)} |-> s[pick(k)].data]
  BY DEF Replay, Adds
<1>2. ASSUME NEW i \in Adds(s)
      PROVE  s[i].key \in DOMAIN Replay(s) /\ Replay(s)[s[i].key] = s[i].data
  <2>1. pick(s[i].key) \in Adds(s) /\ s[pick(s[i].key)].key = s[i].key
    OBVIOUS
  <2>2. pick(s[i].key) = i
    BY <2>1, LastIsUnique
  <2>3. s[i].key \in {s[j].key : j \in Adds(s)}
    OBVIOUS
  <2>4. QED
    BY <1>1, <2>2, <2>3
<1>3. QED
  BY <1>1, <1>2

(* Replaying nothing gives nothing. *)
LEMMA ReplayNothing == Replay(<<>>) = EmptyDb
<1>1. <<>> \in Seq(StoreObjects) /\ Len(<<>>) = 0
  BY EmptySeq
<1>2. Adds(<<>>) = {}
  BY SMT, <1>1, LenProperties DEF Adds
<1>3. EmptyDb = [k \in DOMAIN EmptyDb |-> EmptyDb[k]] /\ DOMAIN EmptyDb = {}
  BY DEF EmptyDb
<1>4. QED
  BY <1>1, <1>2, <1>3, ReplayIs

(* The keys it gives are finitely many. *)
LEMMA ReplayFinite ==
  ASSUME NEW s \in Seq(StoreObjects)
  PROVE  IsFiniteSet(DOMAIN Replay(s))
<1> DEFINE f == [i \in Adds(s) |-> s[i].key]
<1>1. Len(s) \in Nat /\ DOMAIN s = 1 .. Len(s)
  BY LenProperties
<1>2. IsFiniteSet(1 .. Len(s))
  BY SMT, <1>1, FS_Interval
<1>3. Adds(s) \in SUBSET (1 .. Len(s))
  BY <1>1 DEF Adds
<1>4. IsFiniteSet(Adds(s))
  BY <1>2, <1>3, FS_Subset
<1>5. f \in Surjection(Adds(s), DOMAIN Replay(s))
  BY ReplayAgrees DEF Surjection
<1>6. QED
  BY <1>4, <1>5, FS_Surjection

(* One object more changes the database by it: replaying a log repeats what *)
(* store and erase did, in their order. *)
LEMMA ReplayAppend ==
  ASSUME NEW s \in Seq(StoreObjects), NEW o \in StoreObjects
  PROVE  Replay(Append(s, o)) = Change(Replay(s), o)
<1> DEFINE t == Append(s, o)
           n == Len(s) + 1
           db == Change(Replay(s), o)
<1>1. /\ Len(s) \in Nat /\ DOMAIN s = 1 .. Len(s) /\ t \in Seq(StoreObjects)
      /\ Len(t) = n /\ DOMAIN t = 1 .. n /\ t[n] = o
      /\ \A i \in 1 .. Len(s) : t[i] = s[i]
  BY SMT, LenProperties, AppendProperties
<1> HIDE DEF t
<1>2. \A i \in Adds(t) : i # n => i \in Adds(s) /\ t[i] = s[i] /\ t[i].key # o.key
  <2>1. SUFFICES ASSUME NEW i \in Adds(t), i # n
                 PROVE  i \in Adds(s) /\ t[i] = s[i] /\ t[i].key # o.key
    OBVIOUS
  <2>2. i \in 1 .. Len(s) /\ t[i].type = "ADD" /\ IsLast(t, i)
    BY SMT, <1>1, <2>1 DEF Adds
  <2>3. t[i] = s[i]
    BY <1>1, <2>2
  <2>4. n \in i + 1 .. Len(t)
    BY SMT, <1>1, <2>2
  <2>5. t[i].key # o.key
    BY <1>1, <2>2, <2>4 DEF IsLast
  <2>6. IsLast(s, i)
    <3>1. SUFFICES ASSUME NEW j \in i + 1 .. Len(s) PROVE s[j].key # s[i].key
      BY DEF IsLast
    <3>2. j \in i + 1 .. Len(t) /\ t[j] = s[j]
      BY SMT, <1>1, <2>2
    <3>3. QED
      BY <2>2, <2>3, <3>2 DEF IsLast
  <2>7. QED
    BY <1>1, <2>2, <2>3, <2>5, <2>6 DEF Adds
<1>3. \A i \in Adds(s) : s[i].key # o.key => i \in Adds(t) /\ t[i] = s[i]
  <2>1. SUFFICES ASSUME NEW i \in Adds(s), s[i].key # o.key PROVE i \in Adds(t) /\ t[i] = s[i]
    OBVIOUS
  <2>2. i \in 1 .. Len(s) /\ s[i].type = "ADD" /\ IsLast(s, i) /\ t[i] = s[i]
    BY <1>1 DEF Adds
  <2>3. IsLast(t, i)
    <3>1. SUFFICES ASSUME NEW j \in i + 1 .. Len(t) PROVE t[j].key # t[i].key
      BY DEF IsLast
    <3>2. CASE j = n
      BY <1>1, <2>1, <2>2, <3>2
    <3>3. CASE j # n
      <4>1. j \in i + 1 .. Len(s) /\ t[j] = s[j]
        BY SMT, <1>1, <2>2, <3>3
      <4>2. QED
        BY <2>2, <4>1 DEF IsLast
    <3>4. QED
      BY <3>2, <3>3
  <2>4. i \in 1 .. n
    BY SMT, <1>1, <2>2
  <2>5. QED
    BY <1>1, <2>2, <2>3, <2>4 DEF Adds
<1>4. n \in Adds(t) <=> o.type = "ADD"
  <2>1. n \in 1 .. n /\ IsLast(t, n)
    BY SMT, <1>1 DEF IsLast
  <2>2. QED
    BY <1>1, <2>1 DEF Adds
<1>5. CASE o.type = "ADD"
  <2>1. db = [j \in DOMAIN Replay(s) \cup {o.key} |-> IF j = o.key THEN o.data ELSE Replay(s)[j]]
    BY <1>5 DEF Change
  <2> HIDE DEF db
  <2>2. db = [k \in DOMAIN db |-> db[k]] /\ DOMAIN db = DOMAIN Replay(s) \cup {o.key}
    BY <2>1
  <2>3. \A i \in Adds(t) : t[i].key \in DOMAIN db /\ db[t[i].key] = t[i].data
    <3>1. SUFFICES ASSUME NEW i \in Adds(t) PROVE t[i].key \in DOMAIN db /\ db[t[i].key] = t[i].data
      OBVIOUS
    <3>2. CASE i = n
      BY <1>1, <2>1, <3>2
    <3>3. CASE i # n
      BY SMT, <1>2, <2>1, <3>3, ReplayAgrees
    <3>4. QED
      BY <3>2, <3>3
  <2>4. \A k \in DOMAIN db : \E i \in Adds(t) : t[i].key = k
    <3>1. SUFFICES ASSUME NEW k \in DOMAIN db PROVE \E i \in Adds(t) : t[i].key = k
      OBVIOUS
    <3>2. CASE k = o.key
      BY <1>1, <1>4, <1>5, <3>2
    <3>3. CASE k # o.key
      <4>1. PICK i \in Adds(s) : s[i].key = k
        BY <2>2, <3>3, ReplayAgrees
      <4>2. QED
        BY <1>3, <3>3, <4>1
    <3>4. QED
      BY <3>2, <3>3
  <2>5. Replay(t) = db
    BY <1>1, <2>2, <2>3, <2>4, ReplayIs
  <2>6. QED
    BY <2>5 DEF t, db
<1>6. CASE o.type # "ADD"
  <2>1. db = [j \in DOMAIN Replay(s) \ {o.key} |-> Replay(s)[j]]
    BY <1>6 DEF Change
  <2> HIDE DEF db
  <2>2. db = [k \in DOMAIN db |-> db[k]] /\ DOMAIN db = DOMAIN Replay(s) \ {o.key}
    BY <2>1
  <2>3. \A i \in Adds(t) : t[i].key \in DOMAIN db /\ db[t[i].key] = t[i].data
    BY SMT, <1>2, <1>4, <1>6, <2>1, ReplayAgrees
  <2>4. \A k \in DOMAIN db : \E i \in Adds(t) : t[i].key = k
    <3>1. SUFFICES ASSUME NEW k \in DOMAIN db PROVE \E i \in Adds(t) : t[i].key = k
      OBVIOUS
    <3>2. PICK i \in Adds(s) : s[i].key = k
      BY <2>2, ReplayAgrees
    <3>3. QED
      BY <1>3, <2>2, <3>2
  <2>5. Replay(t) = db
    BY <1>1, <2>2, <2>3, <2>4, ReplayIs
  <2>6. QED
    BY <2>5 DEF t, db
<1>7. QED
  BY <1>5, <1>6

-----------------------------------------------------------------------------
(* A log of a whole database lists its additions, each once. *)
LEMMA LogLists ==
  ASSUME NEW S, IsFiniteSet(S), NEW f \in Bijection(1 .. Cardinality(S), S)
  PROVE  /\ f \in Seq(S)
         /\ \A x \in S : \E i \in 1 .. Len(f) : f[i] = x
         /\ \A i, j \in 1 .. Len(f) : f[i] = f[j] => i = j
<1> DEFINE n == Cardinality(S)
<1>1. n \in Nat
  BY FS_CardinalityType
<1>2. /\ f \in [1 .. n -> S]
      /\ \A x \in S : \E i \in 1 .. n : f[i] = x
      /\ \A i, j \in 1 .. n : f[i] = f[j] => i = j
  <2>1. f \in [1 .. n -> S] /\ IsInjective(f) /\ \A x \in S : \E i \in 1 .. n : f[i] = x
    BY DEF Bijection, Injection, Surjection
  <2>2. DOMAIN f = 1 .. n
    BY <2>1
  <2>3. QED
    BY <2>1, <2>2 DEF IsInjective
<1> HIDE DEF n
<1>3. f \in Seq(S)
  <2>1. f \in UNION {[1 .. m -> S] : m \in Nat}
    BY <1>1, <1>2
  <2>2. QED
    BY <2>1, SeqDef
<1>4. Len(f) = n
  BY SMT, <1>1, <1>2, <1>3, LenProperties
<1>5. QED
  BY <1>2, <1>3, <1>4

(* Replaying it gives the database back. *)
LEMMA ReplayLog ==
  ASSUME NEW db \in Databases, IsFiniteSet(DOMAIN db), NEW s \in Logs(db)
  PROVE  s \in Seq(StoreObjects) /\ Replay(s) = db
<1> DEFINE S == {Adding(k, db[k]) : k \in DOMAIN db}
           f == [k \in DOMAIN db |-> Adding(k, db[k])]
<1>1. f \in Surjection(DOMAIN db, S)
  BY DEF Surjection
<1>2. IsFiniteSet(S)
  BY <1>1, FS_Surjection
<1>3. S \subseteq StoreObjects
  BY SMT, DatabaseType DEF StoreObjects
<1>4. /\ s \in Seq(S) /\ s \in Seq(StoreObjects)
      /\ \A x \in S : \E i \in 1 .. Len(s) : s[i] = x
      /\ \A i, j \in 1 .. Len(s) : s[i] = s[j] => i = j
  <2>1. s \in Bijection(1 .. Cardinality(S), S)
    BY DEF Logs
  <2>2. QED
    <3>1. /\ s \in Seq(S)
          /\ \A x \in S : \E i \in 1 .. Len(s) : s[i] = x
          /\ \A i, j \in 1 .. Len(s) : s[i] = s[j] => i = j
      BY <1>2, <2>1, LogLists
    <3>2. s \in Seq(StoreObjects)
      BY <1>3, <3>1, SeqMonotonic
    <3>3. QED
      BY <3>1, <3>2
<1>5. DOMAIN s = 1 .. Len(s) /\ Len(s) \in Nat /\ \A i \in 1 .. Len(s) : s[i] \in S
  BY <1>4, LenProperties, ElementOfSeq
<1>6. \A x \in S : x.key \in DOMAIN db /\ x = Adding(x.key, db[x.key]) /\ x.type = "ADD" /\ x.data = db[x.key]
  BY SMT DEF Adding
<1>7. Adds(s) = 1 .. Len(s)
  <2>1. ASSUME NEW i \in 1 .. Len(s) PROVE IsLast(s, i)
    <3>1. SUFFICES ASSUME NEW j \in i + 1 .. Len(s), s[j].key = s[i].key PROVE FALSE
      BY DEF IsLast
    <3>2. j \in 1 .. Len(s) /\ i # j
      BY SMT, <1>5, <2>1
    <3>3. s[i] = s[j]
      BY <1>5, <1>6, <2>1, <3>1, <3>2
    <3>4. QED
      BY <1>4, <2>1, <3>2, <3>3
  <2>2. QED
    BY <1>5, <1>6, <2>1 DEF Adds
<1>8. \A i \in Adds(s) : s[i].key \in DOMAIN db /\ db[s[i].key] = s[i].data
  BY <1>5, <1>6, <1>7
<1>9. \A k \in DOMAIN db : \E i \in Adds(s) : s[i].key = k
  <2>1. SUFFICES ASSUME NEW k \in DOMAIN db PROVE \E i \in Adds(s) : s[i].key = k
    OBVIOUS
  <2>2. Adding(k, db[k]) \in S
    OBVIOUS
  <2>3. PICK i \in 1 .. Len(s) : s[i] = Adding(k, db[k])
    BY <1>4, <2>2
  <2>4. QED
    BY SMT, <1>7, <2>3 DEF Adding
<1>10. Replay(s) = db
  BY <1>4, <1>8, <1>9, DatabaseType, ReplayIs
<1>11. QED
  BY <1>4, <1>10

-----------------------------------------------------------------------------
(* Files: what an append does to the marker and to the objects after it. *)
LEMMA ItemsType ==
  ASSUME NEW file \in Seq(StoreItems)
  PROVE  Items(file) \in Seq(StoreItems)
BY EmptySeq, HeadTailProperties DEF Items

(* Items added to a file with a marker leave the marker first. *)
LEMMA AppendItems ==
  ASSUME NEW file \in Seq(StoreItems), NEW items \in Seq(StoreItems), file # <<>>
  PROVE  /\ file \o items \in Seq(StoreItems) /\ file \o items # <<>>
         /\ Head(file \o items) = Head(file)
         /\ Items(file \o items) = Items(file) \o items
         /\ Torn \in Range(file) => Torn \in Range(file \o items)
<1> DEFINE t == file \o items
<1>1. /\ Len(file) \in Nat /\ Len(items) \in Nat /\ Len(file) > 0
      /\ DOMAIN file = 1 .. Len(file) /\ DOMAIN items = 1 .. Len(items)
  BY SMT, LenProperties, EmptySeq
<1>2. /\ t \in Seq(StoreItems) /\ Len(t) = Len(file) + Len(items)
      /\ \A i \in 1 .. Len(file) + Len(items) :
           t[i] = IF i <= Len(file) THEN file[i] ELSE items[i - Len(file)]
  BY ConcatProperties
<1>3. t # <<>> /\ DOMAIN t = 1 .. Len(t)
  BY SMT, <1>1, <1>2, ConcatEqualIffEmpty, LenProperties
<1> HIDE DEF t
<1>4. Head(t) = Head(file)
  BY SMT, <1>1, <1>2, <1>3
<1>5. Tail(t) = Tail(file) \o items
  <2> DEFINE u == Tail(file) \o items
  <2>1. /\ Tail(file) \in Seq(StoreItems) /\ Len(Tail(file)) = Len(file) - 1
        /\ \A i \in 1 .. Len(Tail(file)) : Tail(file)[i] = file[i + 1]
        /\ Tail(t) \in Seq(StoreItems) /\ Len(Tail(t)) = Len(t) - 1
        /\ \A i \in 1 .. Len(Tail(t)) : Tail(t)[i] = t[i + 1]
    BY <1>2, <1>3, HeadTailProperties
  <2>2. /\ u \in Seq(StoreItems) /\ Len(u) = Len(Tail(file)) + Len(items)
        /\ \A i \in 1 .. Len(Tail(file)) + Len(items) :
             u[i] = IF i <= Len(Tail(file)) THEN Tail(file)[i] ELSE items[i - Len(Tail(file))]
    BY <2>1, ConcatProperties
  <2> HIDE DEF u
  <2>3. Len(u) = Len(Tail(t))
    BY SMT, <1>1, <1>2, <2>1, <2>2
  <2>4. \A i \in 1 .. Len(u) : u[i] = Tail(t)[i]
    <3>1. SUFFICES ASSUME NEW i \in 1 .. Len(u) PROVE u[i] = Tail(t)[i]
      OBVIOUS
    <3>2. i \in Nat /\ i >= 1 /\ i <= Len(file) - 1 + Len(items) /\ i + 1 \in 1 .. Len(t)
      BY SMT, <1>1, <1>2, <2>1, <2>2
    <3>3. Tail(t)[i] = t[i + 1]
      BY <2>1, <2>3
    <3>4. CASE i <= Len(file) - 1
      <4>1. i \in 1 .. Len(Tail(file)) /\ i + 1 <= Len(file)
        BY SMT, <1>1, <2>1, <3>2, <3>4
      <4>2. u[i] = file[i + 1] /\ t[i + 1] = file[i + 1]
        BY SMT, <1>1, <1>2, <2>1, <2>2, <3>2, <4>1
      <4>3. QED
        BY <3>3, <4>2
    <3>5. CASE i > Len(file) - 1
      <4>1. /\ ~ (i <= Len(Tail(file))) /\ ~ (i + 1 <= Len(file))
            /\ i - Len(Tail(file)) = (i + 1) - Len(file)
        BY SMT, <1>1, <2>1, <3>2, <3>5
      <4>2. u[i] = items[i - Len(Tail(file))] /\ t[i + 1] = items[(i + 1) - Len(file)]
        BY <1>1, <1>2, <2>1, <2>2, <3>2, <4>1
      <4>3. QED
        BY <3>3, <4>1, <4>2
    <3>6. QED
      BY SMT, <1>1, <3>2, <3>4, <3>5
  <2>5. u = Tail(t)
    BY <2>1, <2>2, <2>3, <2>4, SeqEqual
  <2>6. QED
    BY <2>5 DEF u
<1>6. Torn \in Range(file) => Torn \in Range(t)
  <2>1. SUFFICES ASSUME Torn \in Range(file) PROVE Torn \in Range(t)
    OBVIOUS
  <2>2. PICK i \in 1 .. Len(file) : file[i] = Torn
    BY <1>1, <2>1 DEF Range
  <2>3. i \in 1 .. Len(t) /\ t[i] = Torn
    BY SMT, <1>1, <1>2, <2>2
  <2>4. QED
    BY <1>3, <2>3 DEF Range
<1>7. QED
  BY <1>2, <1>3, <1>4, <1>5, <1>6 DEF t, Items

(* A new file: the marker, then objects. *)
LEMMA MarkedFile ==
  ASSUME NEW objects \in Seq(StoreItems)
  PROVE  /\ <<Marker>> \o objects \in Seq(StoreItems) /\ <<Marker>> \o objects # <<>>
         /\ Head(<<Marker>> \o objects) = Marker
         /\ Items(<<Marker>> \o objects) = objects
         /\ objects \in Seq(StoreObjects) => Clean(<<Marker>> \o objects)
<1> DEFINE file == <<Marker>>
           t == file \o objects
<1>1. file \in Seq(StoreItems) /\ file # <<>> /\ Head(file) = Marker /\ Tail(file) = <<>> /\ Len(file) = 1
      /\ file[1] = Marker
  BY SMT DEF StoreItems
<1>2. Items(file) = <<>>
  BY <1>1 DEF Items
<1>3. <<>> \o objects = objects
  BY ConcatEmptySeq
<1>4. /\ t \in Seq(StoreItems) /\ t # <<>> /\ Head(t) = Marker /\ Items(t) = objects
  BY <1>1, <1>2, <1>3, AppendItems
<1>5. ASSUME objects \in Seq(StoreObjects) PROVE Clean(t)
  <2>1. SUFFICES ASSUME Torn \in Range(t) PROVE FALSE
    BY DEF Clean
  <2>2. PICK i \in DOMAIN t : t[i] = Torn
    BY <2>1 DEF Range
  <2>3. Len(objects) \in Nat /\ Len(t) = 1 + Len(objects) /\ i \in 1 .. Len(t)
    BY <1>1, <1>4, ConcatProperties, LenProperties
  <2>4. t[i] = IF i <= 1 THEN file[i] ELSE objects[i - 1]
    BY <1>1, <2>3, ConcatProperties
  <2>5. CASE i = 1
    BY SMT, <1>1, <2>2, <2>4, <2>5 DEF Marker, Torn
  <2>6. CASE i # 1
    <3>1. i - 1 \in 1 .. Len(objects) /\ ~ (i <= 1)
      BY SMT, <2>3, <2>6
    <3>2. objects[i - 1] \in StoreObjects
      BY <1>5, <3>1, ElementOfSeq
    <3>3. QED
      BY <2>2, <2>4, <3>1, <3>2, ObjectFields
  <2>7. QED
    BY <2>5, <2>6
<1>6. QED
  BY <1>4, <1>5

(* push_back on pObjects_, seen from the whole log. *)
LEMMA AppendToConcat ==
  ASSUME NEW a \in Seq(StoreObjects), NEW b \in Seq(StoreObjects), NEW o \in StoreObjects
  PROVE  Append(a \o b, o) = a \o Append(b, o)
BY SMT

(* An append cut in two leaves a prefix of the items... *)
LEMMA FrontType ==
  ASSUME NEW items \in Seq(StoreItems), items # <<>>
  PROVE  /\ ButLast(items) \in Seq(StoreItems) /\ Len(ButLast(items)) = Len(items) - 1
         /\ \A i \in 1 .. Len(items) - 1 : ButLast(items)[i] = items[i]
<1>1. Len(items) \in Nat /\ Len(items) > 0
  BY SMT, LenProperties, EmptySeq
<1> DEFINE n == Len(items) - 1
<1>2. n \in Int /\ 1 \in Int /\ \A i \in 1 .. n : items[i] \in StoreItems
  BY SMT, <1>1, ElementOfSeq
<1>3. /\ SubSeq(items, 1, n) \in Seq(StoreItems)
      /\ Len(SubSeq(items, 1, n)) = IF 1 <= n THEN n - 1 + 1 ELSE 0
      /\ \A i \in 1 .. n - 1 + 1 : SubSeq(items, 1, n)[i] = items[1 + i - 1]
  BY SMT, <1>2, SubSeqProperties
<1>4. ButLast(items) = SubSeq(items, 1, n)
  BY DEF ButLast
<1>5. n \in Nat /\ (n = 0 \/ n >= 1)
  <2>1. \A k \in Nat : k > 0 => k - 1 \in Nat /\ (k - 1 = 0 \/ k - 1 >= 1)
    BY SMT
  <2>2. QED
    BY <1>1, <2>1, Zenon
<1> HIDE DEF n
<1>6. Len(ButLast(items)) = n
  BY SMT, <1>3, <1>4, <1>5
<1>7. \A i \in 1 .. n : ButLast(items)[i] = items[i]
  <2>1. SUFFICES ASSUME NEW i \in 1 .. n PROVE ButLast(items)[i] = items[i]
    OBVIOUS
  <2>2. i \in 1 .. n - 1 + 1 /\ 1 + i - 1 = i
    BY SMT, <1>5
  <2>3. QED
    BY <1>3, <1>4, <2>2
<1>8. QED
  BY <1>3, <1>4, <1>6, <1>7 DEF n

(* ... which in a new file has the marker first... *)
LEMMA FrontOfMarked ==
  ASSUME NEW objects \in Seq(StoreItems), objects # <<>>
  PROVE  /\ ButLast(<<Marker>> \o objects) # <<>>
         /\ Head(ButLast(<<Marker>> \o objects)) = Marker
<1> DEFINE t == <<Marker>> \o objects
<1>1. Len(objects) \in Nat /\ Len(objects) > 0
  BY SMT, LenProperties, EmptySeq
<1>2. t \in Seq(StoreItems) /\ t # <<>> /\ Head(t) = Marker
  BY MarkedFile
<1>3. Len(t) = 1 + Len(objects)
  <2>1. <<Marker>> \in Seq(StoreItems) /\ Len(<<Marker>>) = 1
    BY SMT DEF StoreItems
  <2>2. QED
    BY <2>1, ConcatProperties
<1> HIDE DEF t
<1>4. Head(t) = t[1]
  BY SMT, <1>2
<1>5. /\ ButLast(t) \in Seq(StoreItems) /\ Len(ButLast(t)) = Len(objects)
      /\ \A i \in 1 .. Len(t) - 1 : ButLast(t)[i] = t[i]
  <2>1. /\ ButLast(t) \in Seq(StoreItems) /\ Len(ButLast(t)) = Len(t) - 1
        /\ \A i \in 1 .. Len(t) - 1 : ButLast(t)[i] = t[i]
    BY <1>2, FrontType
  <2>2. Len(t) - 1 = Len(objects)
    BY SMT, <1>1, <1>3
  <2>3. QED
    BY <2>1, <2>2
<1>6. ButLast(t)[1] = Marker
  BY SMT, <1>1, <1>2, <1>3, <1>4, <1>5
<1>7. ButLast(t) # <<>>
  BY <1>1, <1>5, EmptySeq
<1>8. Head(ButLast(t)) = Marker
  BY SMT, <1>5, <1>6, <1>7
<1>9. QED
  BY <1>7, <1>8 DEF t

(* ... and the first bytes of the next object. *)
LEMMA EndsTorn ==
  ASSUME NEW file \in Seq(StoreItems)
  PROVE  /\ file \o <<Torn>> \in Seq(StoreItems)
         /\ Torn \in Range(file \o <<Torn>>)
<1> DEFINE t == file \o <<Torn>>
<1>1. <<Torn>> \in Seq(StoreItems) /\ Len(<<Torn>>) = 1 /\ <<Torn>>[1] = Torn
  BY SMT DEF StoreItems
<1>2. /\ t \in Seq(StoreItems) /\ Len(t) = Len(file) + 1 /\ Len(file) \in Nat
      /\ \A i \in 1 .. Len(file) + 1 : t[i] = IF i <= Len(file) THEN file[i] ELSE <<Torn>>[i - Len(file)]
  BY <1>1, ConcatProperties, LenProperties
<1> HIDE DEF t
<1>3. DOMAIN t = 1 .. Len(t)
  BY <1>2, LenProperties
<1>4. Len(t) \in 1 .. Len(t) /\ t[Len(t)] = Torn
  BY SMT, <1>1, <1>2
<1>5. QED
  BY <1>2, <1>3, <1>4 DEF t, Range

(* loadDatabaseTlvFormat reads what FileSound says of a file that is clean. *)
LEMMA CleanDecodes ==
  ASSUME NEW file \in Seq(StoreItems), NEW durable, FileSound(file, durable)
  PROVE  /\ Clean(file) /\ file # <<>> => Decodes(file)
         /\ Decodes(file) => Clean(file)
<1>1. Len(file) \in Nat /\ DOMAIN file = 1 .. Len(file)
  BY LenProperties
<1>2. ASSUME Clean(file), file # <<>> PROVE Decodes(file)
  <2>1. Head(file) = Marker /\ Tail(file) \in Seq(StoreObjects)
    BY <1>2 DEF FileSound, Items
  <2>2. Len(Tail(file)) = Len(file) - 1 /\ \A i \in 1 .. Len(Tail(file)) : Tail(file)[i] = file[i + 1]
    BY <1>2, HeadTailProperties
  <2>3. ASSUME NEW i \in 2 .. Len(file) PROVE file[i].type \in {"ADD", "DEL"}
    <3>1. i - 1 \in 1 .. Len(Tail(file)) /\ (i - 1) + 1 = i
      BY SMT, <1>1, <2>2
    <3>2. Tail(file)[i - 1] = file[i] /\ Tail(file)[i - 1] \in StoreObjects
      BY <2>1, <2>2, <3>1, ElementOfSeq
    <3>3. QED
      BY <3>2, ObjectFields
  <2>4. QED
    BY <1>2, <2>1, <2>3 DEF Decodes
<1>3. ASSUME Decodes(file), Torn \in Range(file) PROVE FALSE
  <2>1. PICK i \in 1 .. Len(file) : file[i] = Torn
    BY <1>1, <1>3 DEF Range
  <2>2. i # 1
    BY SMT, <1>1, <1>3, <2>1 DEF Decodes, Marker, Torn
  <2>3. i \in 2 .. Len(file)
    BY SMT, <1>1, <2>1, <2>2
  <2>4. QED
    BY SMT, <1>3, <2>1, <2>3 DEF Decodes, Torn
<1>4. QED
  BY <1>2, <1>3 DEF Clean

-----------------------------------------------------------------------------
(* store, erase: the database and the objects to append change together. *)
LEMMA ChangedSound ==
  ASSUME NEW s, Sound(s), s.up, NEW o \in StoreObjects
  PROVE  Sound([s EXCEPT !.db = Change(s.db, o), !.objects = Append(s.objects, o)])
<1> DEFINE t == [s EXCEPT !.db = Change(s.db, o), !.objects = Append(s.objects, o)]
<1>1. s \in StoreRecords /\ s.db \in Databases /\ s.objects \in Seq(StoreObjects) /\ s.file \in Seq(StoreItems)
  BY DEF Sound, Kept, StoreRecords
<1>2. Change(s.db, o) \in Databases /\ IsFiniteSet(DOMAIN Change(s.db, o))
  BY <1>1, ChangeType DEF Sound, Kept
<1>3. Append(s.objects, o) \in Seq(StoreObjects)
  BY <1>1, AppendProperties
<1>4. /\ t \in StoreRecords /\ t.db = Change(s.db, o) /\ t.objects = Append(s.objects, o)
      /\ t.up = s.up /\ t.file = s.file /\ t.durable = s.durable /\ t.marked = s.marked
  BY <1>1, <1>2, <1>3 DEF StoreRecords
<1> HIDE DEF t
<1>5. Kept(t)
  BY <1>2, <1>4 DEF Sound, Kept
<1>6. ASSUME Clean(s.file) PROVE t.db = Replay(Items(t.file) \o t.objects)
  <2> DEFINE log == Items(s.file) \o s.objects
  <2>1. Items(s.file) \in Seq(StoreObjects) /\ s.db = Replay(log)
    BY <1>6 DEF Sound, Kept, FileSound, MemorySound
  <2>2. log \in Seq(StoreObjects)
    BY <1>1, <2>1, ConcatProperties
  <2>3. Append(log, o) = Items(s.file) \o Append(s.objects, o)
    BY <1>1, <2>1, AppendToConcat
  <2>4. Replay(Append(log, o)) = Change(Replay(log), o)
    BY <2>2, ReplayAppend
  <2>5. QED
    BY <1>4, <2>1, <2>3, <2>4
<1>7. MemorySound(t)
  BY <1>4, <1>6 DEF Sound, MemorySound
<1>8. QED
  BY <1>5, <1>7 DEF Sound, t

(* saveDatabaseToDisk: the file is the log of the database, or stays. *)
LEMMA RewriteSound ==
  ASSUME NEW s, Kept(s), NEW t \in saveDatabaseToDisk(s)
  PROVE  /\ Kept(t) /\ t.up = s.up /\ t.objects = s.objects /\ t.timer = s.timer
         /\ s.objects = <<>> /\ MemorySound(s) => MemorySound(t)
<1> DEFINE saved(l) == [s EXCEPT !.file = <<Marker>> \o l, !.marked = TRUE, !.durable = s.db]
           failed == [s EXCEPT !.failed = TRUE]
<1>1. s \in StoreRecords /\ s.db \in Databases /\ IsFiniteSet(DOMAIN s.db)
  BY DEF Kept, StoreRecords
<1>2. (\E l \in Logs(s.db) : t = saved(l)) \/ t = failed
  BY DEF saveDatabaseToDisk, If
<1>3. CASE \E l \in Logs(s.db) : t = saved(l)
  <2>1. PICK l \in Logs(s.db) : t = saved(l)
    BY <1>3
  <2> DEFINE log == <<Marker>> \o l
  <2>2. l \in Seq(StoreObjects) /\ Replay(l) = s.db
    BY <1>1, ReplayLog
  <2>3. l \in Seq(StoreItems)
    BY <2>2, SeqMonotonic DEF StoreItems
  <2>4. /\ log \in Seq(StoreItems) /\ log # <<>> /\ Head(log) = Marker
        /\ Items(log) = l /\ Clean(log)
    BY <2>2, <2>3, MarkedFile
  <2>5. t = [s EXCEPT !.file = log, !.marked = TRUE, !.durable = s.db]
    BY <2>1
  <2> HIDE DEF log
  <2>6. /\ t \in StoreRecords /\ t.file = log /\ t.marked /\ t.durable = s.db /\ t.db = s.db
        /\ t.up = s.up /\ t.objects = s.objects /\ t.timer = s.timer
    BY <1>1, <2>4, <2>5 DEF StoreRecords
  <2>7. FileSound(t.file, t.durable)
    BY <2>2, <2>4, <2>6 DEF FileSound
  <2>8. ASSUME s.objects = <<>> PROVE MemorySound(t)
    <3>1. Items(log) \o <<>> = Items(log)
      BY <2>2, <2>4, ConcatEmptySeq
    <3>2. QED
      BY <2>2, <2>4, <2>6, <2>8, <3>1 DEF MemorySound
  <2>9. QED
    BY <1>1, <2>6, <2>7, <2>8 DEF Kept
<1>4. CASE t = failed
  <2>1. /\ t \in StoreRecords /\ t.file = s.file /\ t.marked = s.marked /\ t.durable = s.durable
        /\ t.db = s.db /\ t.up = s.up /\ t.objects = s.objects /\ t.timer = s.timer
    BY <1>1, <1>4 DEF StoreRecords
  <2>2. QED
    BY <2>1 DEF Kept, MemorySound
<1>5. QED
  BY <1>2, <1>3, <1>4

(* An append that succeeds: the file then holds every change. *)
LEMMA AppendSound ==
  ASSUME NEW s, Sound(s), s.up, NewItems(s) # <<>>, NEW appends \in 0 .. kDbFlushRatio - 1
  PROVE  LET t == [AfterAppend(s, s.file \o NewItems(s)) EXCEPT !.appends = appends]
         IN  Sound(t) /\ t.objects = <<>> /\ t.up
<1> DEFINE file == s.file \o NewItems(s)
           t == [AfterAppend(s, file) EXCEPT !.appends = appends]
<1>1. /\ s \in StoreRecords /\ s.db \in Databases /\ s.objects \in Seq(StoreObjects)
      /\ s.file \in Seq(StoreItems) /\ s.objects \in Seq(StoreItems)
  BY SeqMonotonic DEF Sound, Kept, StoreRecords, StoreItems
<1>2. /\ file \in Seq(StoreItems) /\ file # <<>> /\ Head(file) = Marker
      /\ Clean(file) => Clean(s.file) /\ Items(file) = Items(s.file) \o s.objects
  <2>1. CASE s.file # <<>>
    <3>1. NewItems(s) \in Seq(StoreItems)
      BY <1>1, MarkedFile, ConcatEmptySeq DEF NewItems
    <3>2. /\ file \in Seq(StoreItems) /\ file # <<>> /\ Head(file) = Head(s.file)
          /\ Items(file) = Items(s.file) \o NewItems(s)
          /\ Torn \in Range(s.file) => Torn \in Range(file)
      BY <1>1, <2>1, <3>1, AppendItems
    <3>3. Head(s.file) = Marker
      BY <2>1 DEF Sound, Kept, FileSound
    <3>4. ASSUME Clean(file) PROVE Clean(s.file) /\ NewItems(s) = s.objects
      <4>1. Clean(s.file)
        BY <3>2, <3>4 DEF Clean
      <4>2. s.marked
        BY <2>1, <4>1 DEF Sound, MemorySound
      <4>3. QED
        BY <1>1, <4>1, <4>2, ConcatEmptySeq DEF NewItems
    <3>5. QED
      BY <3>2, <3>3, <3>4
  <2>2. CASE s.file = <<>>
    <3>1. ~ s.marked
      BY <2>2 DEF Sound, MemorySound
    <3>2. NewItems(s) = <<Marker>> \o s.objects
      BY <3>1 DEF NewItems
    <3>3. NewItems(s) \in Seq(StoreItems)
      BY <1>1, <3>2, MarkedFile
    <3>4. file = <<Marker>> \o s.objects
      BY <2>2, <3>2, <3>3, ConcatEmptySeq
    <3>5. Items(s.file) \o s.objects = s.objects
      BY <1>1, <2>2, ConcatEmptySeq DEF Items
    <3>6. Clean(s.file)
      <4>1. DOMAIN s.file = {}
        BY SMT, <2>2
      <4>2. QED
        BY <4>1 DEF Clean, Range
    <3>7. QED
      BY <1>1, <3>4, <3>5, <3>6, MarkedFile
  <2>3. QED
    BY <2>1, <2>2
<1> HIDE DEF file
<1>3. <<>> \in Seq(StoreObjects)
  BY EmptySeq
<1>4. AfterAppend(s, file) = [s EXCEPT !.file = file, !.objects = <<>>, !.marked = TRUE,
                                       !.appends = s.appends + 1, !.failed = FALSE, !.durable = s.db]
  BY DEF AfterAppend, file
<1>5. /\ t \in StoreRecords /\ t.file = file /\ t.marked /\ t.durable = s.db /\ t.db = s.db
      /\ t.up = s.up /\ t.objects = <<>>
  BY <1>1, <1>2, <1>3, <1>4 DEF StoreRecords
<1> HIDE DEF t
<1>6. ASSUME Clean(file) PROVE Items(file) \in Seq(StoreObjects) /\ s.db = Replay(Items(file))
  <2>1. Items(file) = Items(s.file) \o s.objects /\ Clean(s.file)
    BY <1>2, <1>6
  <2>2. Items(s.file) \in Seq(StoreObjects) /\ s.db = Replay(Items(s.file) \o s.objects)
    BY <2>1 DEF Sound, Kept, FileSound, MemorySound
  <2>3. QED
    BY <1>1, <2>1, <2>2, ConcatProperties
<1>7. FileSound(t.file, t.durable)
  BY <1>2, <1>5, <1>6 DEF FileSound
<1>8. MemorySound(t)
  <2>1. ASSUME Clean(file) PROVE Items(file) \o <<>> = Items(file)
    BY <1>6, <2>1, ConcatEmptySeq
  <2>2. QED
    BY <1>2, <1>5, <1>6, <2>1 DEF MemorySound
<1>9. IsFiniteSet(DOMAIN t.db)
  BY <1>5 DEF Sound, Kept
<1>10. QED
  BY <1>5, <1>7, <1>8, <1>9 DEF Sound, Kept, t, file

(* numOfNewWritesToDisk_ counts the appends. *)
LEMMA AppendIsCounted ==
  ASSUME NEW s \in StoreRecords, NEW f
  PROVE  /\ s.appends \in Nat /\ AfterAppend(s, f).appends = s.appends + 1
         /\ AfterAppend(s, f) = [AfterAppend(s, f) EXCEPT !.appends = s.appends + 1]
<1> DEFINE d == IF f = s.file \o NewItems(s) THEN s.db ELSE s.durable
<1>1. kDbFlushRatio \in Nat
  BY FlushRatioAssumption
<1>2. s.appends \in Nat
  BY SMT, <1>1 DEF StoreRecords
<1>3. AfterAppend(s, f) = [s EXCEPT !.file = f, !.objects = <<>>, !.marked = TRUE,
            !.appends = s.appends + 1, !.failed = FALSE,
            !.durable = d]
  BY SMT DEF AfterAppend
<1> HIDE DEF d
<1>4. AfterAppend(s, f).appends = s.appends + 1
  BY <1>3 DEF StoreRecords
<1>5. AfterAppend(s, f) = [AfterAppend(s, f) EXCEPT !.appends = s.appends + 1]
  BY <1>3 DEF StoreRecords
<1>6. QED
  BY <1>2, <1>4, <1>5

(* savePersistentObjectToDisk: append, and now and then rewrite. *)
LEMMA SaveSound ==
  ASSUME AppendsSucceed, psScene \in StoreScenes, NEW s, Sound(s), s.up,
         NEW t \in savePersistentObjectToDisk(s)
  PROVE  /\ Sound(t)
         /\ psScene.dryrun => t = s
         /\ ~psScene.dryrun /\ t.up => t.objects = <<>>
<1> DEFINE file == s.file \o NewItems(s)
           a == AfterAppend(s, file)
<1>1. s \in StoreRecords /\ kDbFlushRatio \in Nat \ {0}
  BY FlushRatioAssumption DEF Sound, Kept
<1>2. CASE psScene.dryrun
  BY <1>2 DEF savePersistentObjectToDisk
<1>3. CASE ~psScene.dryrun /\ NewItems(s) = <<>>
  <2>1. t = [s EXCEPT !.up = FALSE]
    BY <1>3 DEF savePersistentObjectToDisk
  <2>2. /\ t \in StoreRecords /\ ~t.up /\ t.db = s.db /\ t.file = s.file /\ t.durable = s.durable
    BY <1>1, <2>1 DEF StoreRecords
  <2>3. QED
    BY <1>3, <2>2 DEF Sound, Kept
<1>4. CASE ~psScene.dryrun /\ NewItems(s) # <<>>
  <2>1. Appended(s.file, NewItems(s)) = {file}
    BY DEF Appended, If, Fault, AppendsSucceed
  <2>2. t \in IF a.appends < kDbFlushRatio THEN {a} ELSE saveDatabaseToDisk([a EXCEPT !.appends = 0])
    BY <1>4, <2>1 DEF savePersistentObjectToDisk
  <2>3. \A n \in 0 .. kDbFlushRatio - 1 :
          Sound([a EXCEPT !.appends = n]) /\ [a EXCEPT !.appends = n].objects = <<>> /\ [a EXCEPT !.appends = n].up
    BY <1>4, AppendSound
  <2>4. /\ s.appends \in Nat /\ a.appends = s.appends + 1
        /\ a = [a EXCEPT !.appends = s.appends + 1]
    BY <1>1, AppendIsCounted
  <2> HIDE DEF a
  <2>5. CASE a.appends < kDbFlushRatio
    <3>1. a.appends \in 0 .. kDbFlushRatio - 1
      BY SMT, <1>1, <2>4, <2>5
    <3>2. a = [a EXCEPT !.appends = a.appends]
      BY <2>4
    <3>3. Sound(a) /\ a.objects = <<>>
      BY <2>3, <3>1, <3>2
    <3>4. QED
      BY <1>4, <2>2, <2>5, <3>3
  <2>6. CASE ~ (a.appends < kDbFlushRatio)
    <3> DEFINE b == [a EXCEPT !.appends = 0]
    <3>1. 0 \in 0 .. kDbFlushRatio - 1
      BY SMT, <1>1
    <3>2. Sound(b) /\ b.objects = <<>> /\ b.up
      BY <2>3, <3>1
    <3>3. t \in saveDatabaseToDisk(b)
      BY <2>2, <2>6
    <3> HIDE DEF b
    <3>4. Kept(t) /\ t.objects = <<>> /\ MemorySound(t)
      BY <3>2, <3>3, RewriteSound DEF Sound
    <3>5. QED
      BY <1>4, <3>4 DEF Sound
  <2>7. QED
    BY <2>5, <2>6
<1>5. QED
  BY <1>2, <1>3, <1>4

-----------------------------------------------------------------------------
(* A store and its file when nothing has been saved yet. *)
LEMMA InitLogInv == StoreInit => LogInv
<1> SUFFICES ASSUME StoreInit PROVE LogInv
  OBVIOUS
<1>1. EmptyDb \in Databases /\ DOMAIN EmptyDb = {} /\ IsFiniteSet({})
  BY EmptyDbType, FS_EmptySet
<1>2. <<>> \in Seq(StoreObjects) /\ <<>> \in Seq(StoreItems) /\ <<>> \o <<>> = <<>>
  BY EmptySeq, ConcatEmptySeq
<1>3. 0 \in 0 .. kDbFlushRatio - 1
  BY SMT, FlushRatioAssumption
<1>4. /\ psStore \in StoreRecords /\ psStore.file = <<>> /\ psStore.durable = EmptyDb
      /\ psStore.db = EmptyDb /\ psStore.objects = <<>> /\ ~psStore.marked
  BY <1>1, <1>2, <1>3 DEF StoreInit, NewStore, StoreRecords
<1>5. FileSound(<<>>, EmptyDb)
  BY <1>2, ReplayNothing DEF FileSound, Items
<1>6. MemorySound(psStore)
  BY <1>2, <1>4, ReplayNothing DEF MemorySound, Items
<1>7. QED
  BY <1>1, <1>4, <1>5, <1>6 DEF StoreInit, LogInv, Sound, Kept

(* Changes: appended at once, or when the timer fires. *)
LEMMA MakeKeeps ==
  ASSUME AppendsSucceed, LogInv, psStore.up, NEW o \in StoreObjects, Make(o)
  PROVE  LogInv'
<1> DEFINE s == [psStore EXCEPT !.db = Change(psStore.db, o), !.objects = Append(psStore.objects, o)]
<1>1. psScene' = psScene /\ psScene \in StoreScenes /\ psStore' \in maybeSaveObjectToDisk(s)
  BY DEF Make, LogInv
<1>2. psStore \in StoreRecords
  BY DEF LogInv, Sound, Kept
<1>3. Sound(s) /\ s.up
  BY <1>2, ChangedSound DEF LogInv, StoreRecords
<1> HIDE DEF s
<1>4. CASE psScene.periodic
  <2>1. psStore' = [s EXCEPT !.timer = TRUE]
    BY <1>1, <1>4 DEF maybeSaveObjectToDisk
  <2>2. s \in StoreRecords
    BY <1>3 DEF Sound, Kept
  <2>3. /\ psStore' \in StoreRecords /\ psStore'.timer /\ psStore'.up = s.up /\ psStore'.db = s.db
        /\ psStore'.file = s.file /\ psStore'.durable = s.durable /\ psStore'.marked = s.marked
        /\ psStore'.objects = s.objects
    BY <2>1, <2>2 DEF StoreRecords
  <2>4. Sound(psStore')
    BY <1>3, <2>3 DEF Sound, Kept, MemorySound
  <2>5. QED
    BY <1>1, <2>3, <2>4 DEF LogInv
<1>5. CASE ~psScene.periodic
  <2>1. psStore' \in savePersistentObjectToDisk(s)
    BY <1>1, <1>5 DEF maybeSaveObjectToDisk
  <2>2. Sound(psStore') /\ (~psScene.dryrun /\ psStore'.up => psStore'.objects = <<>>)
    BY <1>1, <1>3, <2>1, SaveSound
  <2>3. QED
    BY <1>1, <2>2 DEF LogInv
<1>6. QED
  BY <1>4, <1>5

(* saveDbTimer_. *)
LEMMA SaveTimeoutKeeps ==
  ASSUME AppendsSucceed, LogInv, SaveTimeout
  PROVE  LogInv'
<1>1. PICK t \in savePersistentObjectToDisk(psStore) : psStore' = [t EXCEPT !.timer = t.failed]
  BY DEF SaveTimeout
<1>2. psScene' = psScene /\ psScene \in StoreScenes /\ psStore.up /\ Sound(psStore)
  BY DEF SaveTimeout, LogInv
<1>3. /\ Sound(t) /\ (~psScene.dryrun /\ t.up => t.objects = <<>>)
  BY <1>1, <1>2, SaveSound
<1>4. t \in StoreRecords
  BY <1>3 DEF Sound, Kept
<1>5. /\ psStore' \in StoreRecords /\ psStore'.up = t.up /\ psStore'.db = t.db
      /\ psStore'.file = t.file /\ psStore'.durable = t.durable /\ psStore'.marked = t.marked
      /\ psStore'.objects = t.objects
  BY <1>1, <1>4 DEF StoreRecords
<1>6. Sound(psStore')
  BY <1>3, <1>5 DEF Sound, Kept, MemorySound
<1>7. QED
  BY <1>2, <1>3, <1>5, <1>6 DEF LogInv

(* The ends of the process: with a rewrite, without, and in an append. *)
LEMMA EndsKeep ==
  ASSUME LogInv, Stop \/ Crash \/ CrashInAppend
  PROVE  LogInv'
<1>1. psScene' = psScene /\ psScene \in StoreScenes /\ psStore.up /\ Sound(psStore) /\ Kept(psStore)
  BY DEF Stop, Crash, CrashInAppend, LogInv, Sound
<1>2. psStore \in StoreRecords
  BY <1>1 DEF Kept
<1>3. SUFFICES Kept(psStore') /\ ~psStore'.up
  BY <1>1 DEF LogInv, Sound
<1>4. CASE Stop
  <2>1. PICK t \in saveDatabaseToDisk(psStore) : psStore' = [t EXCEPT !.up = FALSE]
    BY <1>4 DEF Stop
  <2>2. Kept(t)
    BY <1>1, <2>1, RewriteSound
  <2>3. t \in StoreRecords
    BY <2>2 DEF Kept
  <2>4. /\ psStore' \in StoreRecords /\ ~psStore'.up /\ psStore'.db = t.db
        /\ psStore'.file = t.file /\ psStore'.durable = t.durable
    BY <2>1, <2>3 DEF StoreRecords
  <2>5. QED
    BY <2>2, <2>4 DEF Kept
<1>5. CASE Crash
  <2>1. /\ psStore' \in StoreRecords /\ ~psStore'.up /\ psStore'.db = psStore.db
        /\ psStore'.file = psStore.file /\ psStore'.durable = psStore.durable
    BY <1>2, <1>5 DEF Crash, StoreRecords
  <2>2. QED
    BY <1>1, <2>1 DEF Kept
<1>6. CASE CrashInAppend
  <2> DEFINE file == psStore.file \o ButLast(NewItems(psStore)) \o <<Torn>>
  <2>1. /\ psStore.objects # <<>> /\ psStore.objects \in Seq(StoreObjects)
        /\ psStore.file \in Seq(StoreItems)
    BY <1>2, <1>6 DEF CrashInAppend, StoreRecords
  <2>2. file \in Seq(StoreItems) /\ file # <<>> /\ Head(file) = Marker /\ ~Clean(file)
    <3>1. psStore.objects \in Seq(StoreItems) /\ <<Torn>> \in Seq(StoreItems)
      BY SMT, <2>1, SeqMonotonic DEF StoreItems
    <3>2. NewItems(psStore) \in Seq(StoreItems)
      BY <3>1, MarkedFile, ConcatEmptySeq DEF NewItems
    <3>3. ButLast(NewItems(psStore)) \in Seq(StoreItems)
      <4>1. NewItems(psStore) # <<>>
        BY <2>1, <3>1, MarkedFile, ConcatEmptySeq DEF NewItems
      <4>2. QED
        BY <3>2, <4>1, FrontType
    <3>4. psStore.file \o ButLast(NewItems(psStore)) \in Seq(StoreItems)
      BY <2>1, <3>3, ConcatProperties
    <3>5. /\ psStore.file \o ButLast(NewItems(psStore)) # <<>>
          /\ Head(psStore.file \o ButLast(NewItems(psStore))) = Marker
      <4>1. CASE psStore.file # <<>>
        BY <1>1, <2>1, <3>3, <4>1, AppendItems DEF Kept, FileSound
      <4>2. CASE psStore.file = <<>>
        <5>1. NewItems(psStore) = <<Marker>> \o psStore.objects
          BY <1>1, <4>2 DEF Sound, MemorySound, NewItems
        <5>2. /\ ButLast(NewItems(psStore)) # <<>>
              /\ Head(ButLast(NewItems(psStore))) = Marker
          BY <2>1, <3>1, <5>1, FrontOfMarked
        <5>3. psStore.file \o ButLast(NewItems(psStore)) = ButLast(NewItems(psStore))
          BY <3>3, <4>2, ConcatEmptySeq
        <5>4. QED
          BY <5>2, <5>3
      <4>3. QED
        BY <4>1, <4>2
    <3>6. file \in Seq(StoreItems) /\ file # <<>> /\ Head(file) = Marker
      BY <3>1, <3>4, <3>5, AppendItems
    <3>7. Torn \in Range(file)
      BY <3>4, EndsTorn
    <3>8. QED
      BY <3>6, <3>7 DEF Clean
  <2>3. psStore' = [psStore EXCEPT !.up = FALSE, !.file = file]
    BY <1>6 DEF CrashInAppend
  <2> HIDE DEF file
  <2>4. /\ psStore' \in StoreRecords /\ ~psStore'.up /\ psStore'.db = psStore.db
        /\ psStore'.file = file /\ psStore'.durable = psStore.durable
    BY <1>2, <2>2, <2>3 DEF StoreRecords
  <2>5. FileSound(file, psStore.durable)
    BY <2>2 DEF FileSound
  <2>6. QED
    BY <1>1, <2>4, <2>5 DEF Kept
<1>7. QED
  BY <1>4, <1>5, <1>6

(* loadDatabaseFromDisk: a file that is clean is read back; others are not. *)
LEMMA StartKeeps ==
  ASSUME LogInv, Start
  PROVE  /\ LogInv'
         /\ psStore'.db = psStore.durable \/ Torn \in Range(psStore.file)
<1> DEFINE s == psStore
<1>1. psScene' = psScene /\ psScene \in StoreScenes /\ Kept(s) /\ psStore' = loadDatabaseFromDisk(s)
  BY DEF Start, LogInv, Sound
<1>2. s \in StoreRecords /\ s.file \in Seq(StoreItems) /\ s.durable \in Databases /\ FileSound(s.file, s.durable)
  BY <1>1 DEF Kept, StoreRecords
<1>3. <<>> \in Seq(StoreObjects) /\ 0 \in 0 .. kDbFlushRatio - 1
  BY SMT, EmptySeq, FlushRatioAssumption
<1>4. CASE Decodes(s.file)
  <2>1. Clean(s.file) /\ s.file # <<>>
    BY <1>2, <1>4, CleanDecodes DEF Decodes
  <2>2. Items(s.file) = Tail(s.file) /\ Tail(s.file) \in Seq(StoreObjects) /\ s.durable = Replay(Tail(s.file))
    BY <1>2, <2>1 DEF FileSound, Items
  <2>3. psStore' = [NewStore(s.file, s.durable) EXCEPT !.db = Replay(Tail(s.file)), !.marked = TRUE]
    BY <1>1, <1>4 DEF loadDatabaseFromDisk
  <2>4. /\ psStore' \in StoreRecords /\ psStore'.up /\ psStore'.db = s.durable /\ psStore'.marked
        /\ psStore'.objects = <<>> /\ psStore'.file = s.file /\ psStore'.durable = s.durable
    BY <1>2, <1>3, <2>2, <2>3 DEF NewStore, StoreRecords
  <2>5. MemorySound(psStore')
    <3>1. Tail(s.file) \o <<>> = Tail(s.file)
      BY <2>2, ConcatEmptySeq
    <3>2. QED
      BY <2>1, <2>2, <2>4, <3>1 DEF MemorySound
  <2>6. IsFiniteSet(DOMAIN psStore'.db)
    BY <2>2, <2>4, ReplayFinite
  <2>7. QED
    BY <1>1, <1>2, <2>4, <2>5, <2>6 DEF LogInv, Sound, Kept
<1>5. CASE ~Decodes(s.file)
  <2>1. psStore' = NewStore(s.file, s.durable)
    BY <1>1, <1>5 DEF loadDatabaseFromDisk
  <2>2. EmptyDb \in Databases /\ IsFiniteSet(DOMAIN EmptyDb)
    BY EmptyDbType, FS_EmptySet
  <2>3. /\ psStore' \in StoreRecords /\ psStore'.up /\ psStore'.db = EmptyDb /\ ~psStore'.marked
        /\ psStore'.objects = <<>> /\ psStore'.file = s.file /\ psStore'.durable = s.durable
    BY <1>2, <1>3, <2>1, <2>2 DEF NewStore, StoreRecords
  <2>4. Clean(s.file) => s.file = <<>>
    BY <1>2, <1>5, CleanDecodes
  <2>5. <<>> \o <<>> = <<>> /\ Items(<<>>) = <<>>
    BY <1>3, ConcatEmptySeq DEF Items
  <2>6. Clean(s.file) => s.durable = EmptyDb
    BY <1>2, <2>4, <2>5, ReplayNothing DEF FileSound
  <2>7. MemorySound(psStore')
    BY <2>3, <2>4, <2>5, ReplayNothing DEF MemorySound
  <2>8. QED
    BY <1>1, <1>2, <2>2, <2>3, <2>6, <2>7 DEF LogInv, Sound, Kept, Clean
<1>6. QED
  BY <1>4, <1>5

-----------------------------------------------------------------------------
(* Every step keeps the invariant, and only a start starts the store. *)
LEMMA NextKeeps ==
  ASSUME AppendsSucceed, LogInv, [StoreNext]_psVars
  PROVE  /\ LogInv'
         /\ ~psStore.up /\ psStore'.up => psStore'.db = psStore.durable \/ Torn \in Range(psStore.file)
<1>1. CASE UNCHANGED psVars
  BY <1>1 DEF psVars, LogInv
<1>2. ASSUME NEW k \in StoreNames, erase(k)
      PROVE  LogInv' /\ psStore.up
  <2>1. Deleting(k) \in StoreObjects
    BY SMT DEF StoreObjects
  <2>2. psStore.up /\ Make(Deleting(k))
    BY <1>2 DEF erase
  <2>3. QED
    BY <2>1, <2>2, MakeKeeps
<1>3. ASSUME NEW k \in StoreNames, NEW v \in StoredValues, storeKey(k, v)
      PROVE  LogInv' /\ psStore.up
  <2>1. Adding(k, v) \in StoreObjects
    BY SMT DEF StoreObjects
  <2>2. psStore.up /\ Make(Adding(k, v))
    BY <1>3 DEF storeKey
  <2>3. QED
    BY <2>1, <2>2, MakeKeeps
<1>4. CASE SaveTimeout
  <2>1. psStore.up
    BY <1>4 DEF SaveTimeout
  <2>2. QED
    BY <1>4, <2>1, SaveTimeoutKeeps
<1>5. CASE Stop \/ Crash \/ CrashInAppend
  <2>1. psStore.up
    BY <1>5 DEF Stop, Crash, CrashInAppend
  <2>2. QED
    BY <1>5, <2>1, EndsKeep
<1>6. CASE Start
  BY <1>6, StartKeeps
<1>7. QED
  BY <1>1, <1>2, <1>3, <1>4, <1>5, <1>6 DEF StoreNext

(* What the invariant says of the file, in the words of StoreInvariant. *)
LEMMA LogInvImplies == LogInv => StoreInvariant
<1> SUFFICES ASSUME LogInv PROVE StoreInvariant
  OBVIOUS
<1>1. /\ psStore \in StoreRecords /\ psStore.file \in Seq(StoreItems)
      /\ FileSound(psStore.file, psStore.durable) /\ (psStore.up => MemorySound(psStore))
  BY DEF LogInv, Sound, Kept, StoreRecords
<1>2. StoreTypeOK
  BY <1>1 DEF LogInv, StoreTypeOK, StoreRecords, StoreItems
<1>3. ChangesAreSavedOrDue
  <2>1. SUFFICES ASSUME psStore.up, ~psScene.dryrun, ~psStore.timer, Clean(psStore.file)
                 PROVE  psStore.db = psStore.durable
    BY DEF ChangesAreSavedOrDue, Clean
  <2>2. psStore.objects = <<>>
    BY <2>1 DEF LogInv
  <2>3. /\ Items(psStore.file) \in Seq(StoreObjects) /\ psStore.durable = Replay(Items(psStore.file))
        /\ psStore.db = Replay(Items(psStore.file) \o psStore.objects)
    BY <1>1, <2>1 DEF FileSound, MemorySound
  <2>4. Items(psStore.file) \o <<>> = Items(psStore.file)
    BY <2>3, ConcatEmptySeq
  <2>5. QED
    BY <2>2, <2>3, <2>4
<1>4. psStore.up /\ psStore.marked => psStore.file # <<>> /\ Head(psStore.file) = Marker
  BY <1>1 DEF MemorySound, FileSound
<1>5. ASSUME Torn \notin Range(psStore.file), NEW i \in 2 .. Len(psStore.file)
      PROVE  psStore.file[i] # Marker
  <2>1. Len(psStore.file) \in Nat /\ psStore.file # <<>>
    BY SMT, <1>1, <1>5, LenProperties, EmptySeq
  <2>2. Decodes(psStore.file)
    BY <1>1, <1>5, <2>1, CleanDecodes DEF Clean
  <2>3. psStore.file[i].type \in {"ADD", "DEL"}
    BY <1>5, <2>2 DEF Decodes
  <2>4. QED
    BY SMT, <2>3 DEF Marker
<1>6. MarkerIsWrittenOnce
  BY <1>4, <1>5 DEF MarkerIsWrittenOnce
<1>7. QED
  BY <1>2, <1>3, <1>6 DEF StoreInvariant

(* However changes, saves, failed rewrites, crashes, torn appends and       *)
(* restarts of PersistentStore interleave, the file has its marker once and *)
(* first, and a change the file lacks has a save due.                       *)
THEOREM StoreIsSound ==
  ASSUME AppendsSucceed
  PROVE  StoreSpec => []StoreInvariant
<1>1. StoreInit => LogInv
  BY InitLogInv
<1>2. LogInv /\ [StoreNext]_psVars => LogInv'
  BY NextKeeps
<1>3. LogInv => StoreInvariant
  BY LogInvImplies
<1>4. QED
  BY <1>1, <1>2, <1>3, PTL DEF StoreSpec

(* loadDatabaseFromDisk restores what the last save wrote, whatever mix of  *)
(* appends and rewrites made the file, unless an append was cut in two.     *)
THEOREM RestoresLastSave ==
  ASSUME AppendsSucceed
  PROVE  StoreSpec => StartRestoresLastSave
<1>1. StoreInit => LogInv
  BY InitLogInv
<1>2. LogInv /\ [StoreNext]_psVars => LogInv'
  BY NextKeeps
<1>3. LogInv /\ [StoreNext]_psVars =>
        [~psStore.up /\ psStore'.up =>
           \/ psStore'.db = psStore.durable
           \/ Torn \in Range(psStore.file)]_psVars
  BY NextKeeps
<1>4. QED
  BY <1>1, <1>2, <1>3, PTL DEF StoreSpec, StartRestoresLastSave

================================================================================
