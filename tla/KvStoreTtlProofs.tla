--------------------------- MODULE KvStoreTtlProofs ---------------------------
(***************************************************************************)
(* For every number of stores, originators and keys, whatever the ttl and  *)
(* the decrement: a store counts each key of an originator down once, no   *)
(* key goes before its time, and, as long as ttl updates refresh one key   *)
(* each, no key is left without a countdown.                               *)
(***************************************************************************)
EXTENDS KvStoreTtl, KvStoreMergeProofs

(* Most steps are first-order; the ones with arithmetic or records say SMT. *)
USE Zenon

(* Entries with a ttl of at most KeyTtl; none is TtlInfinity. *)
Timed == {e \in Entry : e.ttl \in 0..KeyTtl}
TimedStored == {e \in StoredEntry : e.ttl \in 0..KeyTtl}

(* A publication carries values or refreshes, never both. *)
Unmixed(keyVals) ==
  \A j, k \in KeysOf(keyVals) : keyVals[j].hasValue = keyVals[k].hasValue

(* A ttl update refreshes one key. *)
RefreshesOne(keyVals) ==
  \A j, k \in KeysOf(keyVals) : ~keyVals[k].hasValue => j = k

(* updateTtlCountdownQueue: at most one countdown per key and originator. *)
OneEach(q) == \A x, y \in q : x.key = y.key /\ x.originatorId = y.originatorId => x = y

(* The countdown of the stored entry's originator is that of the stored     *)
(* entry, with no less time than its ttl grants, or of an older ttl update. *)
NotAhead(q, k, e, time) ==
  \A x \in q : x.key = k /\ x.originatorId = e.originatorId =>
    /\ x.version = e.version
    /\ \/ x.ttlVersion = e.ttlVersion /\ time <= x.left
       \/ x.ttlVersion < e.ttlVersion

Publication(msg) == msg.dst \in Nodes /\ msg.keyVals \in [Keys -> Timed] /\ Unmixed(msg.keyVals)

(***************************************************************************)
(* What every step preserves, whatever is refreshed together.  A countdown *)
(* may be missing or belong to an older ttl update, but one that matches   *)
(* the stored entry never has less time than the entry.                    *)
(***************************************************************************)
Typed ==
  /\ kvStore \in [Nodes -> [Keys -> TimedStored]]
  /\ queue \in [Nodes -> SUBSET QueueEntry]
  /\ life \in [Nodes -> [Keys -> 0..KeyTtl]]
  /\ owner \in [Originators -> [Keys -> TimedStored]]
  /\ alive \subseteq Originators
  /\ \A msg \in msgs : Publication(msg)

TtlInv ==
  /\ Typed
  /\ \A n \in Nodes : OneEach(queue[n])
  /\ \A n \in Nodes : \A k \in KeysOf(kvStore[n]) :
       NotAhead(queue[n], k, kvStore[n][k], life[n][k])

(* With ttl updates of one key each, a publication that is inconsistent changes nothing, *)
(* so no key is merged without its countdown.                                            *)
CountedInv ==
  /\ \A msg \in msgs : RefreshesOne(msg.keyVals)
  /\ EveryKeyIsCountedDown

-----------------------------------------------------------------------------
(* Absent is a proper entry of both kinds. *)
LEMMA TimedTypes == Absent \in TimedStored /\ Absent \in Timed /\ TimedStored \subseteq Timed
<1>1. Absent \in StoredEntry /\ StoredEntry \subseteq Entry /\ Absent.ttl = 0
  BY StoredEntryIsEntry DEF Absent
<1> QED
  BY SMT, <1>1, TtlAssumption DEF Timed, TimedStored

(* What the store and the announcement hold for one key after a merge (mergeKeyValues). *)
LEMMA MergeTimedEntry ==
  ASSUME NEW cur \in TimedStored, NEW e \in Timed, NEW sender
  PROVE  /\ MergeEntry(cur, e, sender) \in TimedStored
         /\ ~IsMerged(cur, e, sender) => MergeEntry(cur, e, sender) = cur
         /\ IsMerged(cur, e, sender) =>
              /\ e # Absent
              /\ MergeEntry(cur, e, sender) # Absent
              /\ MergeEntry(cur, e, sender).version = e.version
              /\ MergeEntry(cur, e, sender).originatorId = e.originatorId
              /\ MergeEntry(cur, e, sender).ttlVersion = e.ttlVersion
              /\ ~e.hasValue => /\ cur # Absent
                                /\ cur.version = e.version
                                /\ cur.originatorId = e.originatorId
                                /\ cur.ttlVersion < e.ttlVersion
<1>1. cur \in StoredEntry /\ e \in Entry /\ cur \in Entry
  BY StoredEntryIsEntry DEF TimedStored, Timed
<1>2. MergeEntry(cur, e, sender) \in StoredEntry
  BY <1>1, MergeAnyEntry
<1>3. CASE ~IsMerged(cur, e, sender)
  BY <1>3 DEF MergeEntry
<1>4. CASE IsMerged(cur, e, sender)
  <2>1. e # Absent /\ getMergeType(e, cur, sender) \in {"UPDATE_ALL_NEEDED", "UPDATE_TTL_NEEDED"}
    BY <1>4 DEF IsMerged
  <2>2. CASE getMergeType(e, cur, sender) = "UPDATE_ALL_NEEDED"
    <3>1. MergeEntry(cur, e, sender) = e
      BY <1>4, <2>2 DEF MergeEntry
    <3>2. e.hasValue
      BY <2>2 DEF getMergeType, isTtlUpdate, ttlMergeType
    <3> QED
      BY <1>1, <1>2, <1>4, <2>1, <3>1, <3>2 DEF Timed, TimedStored
  <2>3. CASE getMergeType(e, cur, sender) = "UPDATE_TTL_NEEDED"
    <3>1. MergeEntry(cur, e, sender) = updateKvStoreTtl(cur, e)
      BY <1>4, <2>3 DEF MergeEntry
    <3>2. /\ cur.version = e.version /\ cur.originatorId = e.originatorId
          /\ cur.ttlVersion < e.ttlVersion
          /\ ~e.hasValue => cur # Absent
      <4>1. CASE ~e.hasValue
        BY <1>1, <2>3, <4>1 DEF getMergeType, isTtlUpdate, ttlMergeType, isResyncNeeded, Entry
      <4>2. CASE e.hasValue
        BY <1>1, <2>3, <4>2 DEF getMergeType, isTtlUpdate, valueMergeType, isValidVersion, Entry
      <4> QED
        BY <1>1, <4>1, <4>2 DEF Entry
    <3>3. /\ updateKvStoreTtl(cur, e).version = cur.version
          /\ updateKvStoreTtl(cur, e).originatorId = cur.originatorId
          /\ updateKvStoreTtl(cur, e).ttlVersion = e.ttlVersion
          /\ updateKvStoreTtl(cur, e).ttl = e.ttl
      BY <1>1 DEF updateKvStoreTtl, Entry
    <3>4. e.ttlVersion # Absent.ttlVersion
      BY SMT, <1>1, <3>2 DEF Entry, Absent
    <3> QED
      BY <1>2, <1>4, <2>1, <3>1, <3>2, <3>3, <3>4 DEF Timed, TimedStored
  <2> QED
    BY <2>1, <2>2, <2>3
<1> QED
  BY <1>3, <1>4

(* mergeKeyValues, key by key: the store changes only where the announcement says so, and there *)
(* it holds what the announcement holds; only a ttl update that is not merged is inconsistent.   *)
LEMMA MergeTimedKeyVals ==
  ASSUME NEW s \in [Keys -> TimedStored], NEW kv \in [Keys -> Timed], NEW sender,
         NEW r, r = mergeKeyValues(s, kv, sender)
  PROVE  /\ r.store \in [Keys -> TimedStored]
         /\ r.keyVals \in [Keys -> Timed]
         /\ \A k \in Keys : r.keyVals[k] = Absent => r.store[k] = s[k]
         /\ \A k \in Keys : r.keyVals[k] # Absent =>
              /\ r.keyVals[k] = kv[k]
              /\ r.store[k] # Absent
              /\ r.store[k].version = kv[k].version
              /\ r.store[k].originatorId = kv[k].originatorId
              /\ r.store[k].ttlVersion = kv[k].ttlVersion
              /\ ~kv[k].hasValue => /\ s[k] # Absent
                                    /\ s[k].version = kv[k].version
                                    /\ s[k].originatorId = kv[k].originatorId
                                    /\ s[k].ttlVersion < kv[k].ttlVersion
         /\ r.inconsistent => \E j \in KeysOf(kv) : ~kv[j].hasValue /\ r.keyVals[j] = Absent
<1>1. /\ DOMAIN s = Keys /\ DOMAIN kv = Keys
      /\ r.store = [k \in Keys |-> MergeEntry(s[k], kv[k], sender)]
      /\ r.keyVals = [k \in Keys |-> IF IsMerged(s[k], kv[k], sender) THEN kv[k] ELSE Absent]
      /\ r.inconsistent = \E k \in KeysOf(kv) : /\ isValidTtl(kv[k])
                                                /\ getMergeType(kv[k], s[k], sender) = "RESYNC_NEEDED"
  BY DEF mergeKeyValues
<1>2. \A k \in Keys : s[k] \in TimedStored /\ kv[k] \in Timed
  OBVIOUS
<1>3. r.store \in [Keys -> TimedStored]
  BY SMT, <1>1, <1>2, MergeTimedEntry
<1>4. r.keyVals \in [Keys -> Timed]
  BY <1>1, <1>2, TimedTypes
<1>5. ASSUME NEW k \in Keys, r.keyVals[k] = Absent
      PROVE  r.store[k] = s[k] /\ ~IsMerged(s[k], kv[k], sender)
  <2>1. ~IsMerged(s[k], kv[k], sender)
    BY <1>1, <1>2, <1>5, MergeTimedEntry
  <2> QED
    BY SMT, <2>1, <1>1, <1>2, MergeTimedEntry
<1>6. ASSUME NEW k \in Keys, r.keyVals[k] # Absent
      PROVE  r.keyVals[k] = kv[k] /\ IsMerged(s[k], kv[k], sender)
  BY <1>1, <1>6
<1>7. ASSUME r.inconsistent
      PROVE  \E j \in KeysOf(kv) : ~kv[j].hasValue /\ r.keyVals[j] = Absent
  <2>1. PICK j \in KeysOf(kv) : getMergeType(kv[j], s[j], sender) = "RESYNC_NEEDED"
    BY <1>1, <1>7
  <2>2. j \in Keys /\ ~IsMerged(s[j], kv[j], sender)
    BY <1>1, <2>1 DEF IsMerged, KeysOf
  <2>3. kv[j].hasValue \in BOOLEAN
    BY <1>2, <2>2 DEF Timed, Entry
  <2> QED
    BY SMT, <1>1, <2>1, <2>2, <2>3, ValuesAreConsistent
<1>8. ASSUME NEW k \in Keys, r.keyVals[k] # Absent
      PROVE  /\ r.store[k] # Absent
             /\ r.store[k].version = kv[k].version
             /\ r.store[k].originatorId = kv[k].originatorId
             /\ r.store[k].ttlVersion = kv[k].ttlVersion
             /\ ~kv[k].hasValue => /\ s[k] # Absent
                                   /\ s[k].version = kv[k].version
                                   /\ s[k].originatorId = kv[k].originatorId
                                   /\ s[k].ttlVersion < kv[k].ttlVersion
  <2>1. r.store[k] = MergeEntry(s[k], kv[k], sender)
    BY <1>1
  <2> QED
    BY SMT, <1>2, <1>6, <1>8, <2>1, MergeTimedEntry
<1> QED
  BY <1>3, <1>4, <1>5, <1>6, <1>7, <1>8

(* updateTtlCountdownQueue puts one countdown for every entry, in the place of the old one. *)
LEMMA QueueUpdated ==
  ASSUME NEW q \in SUBSET QueueEntry, OneEach(q), NEW kv \in [Keys -> Timed],
         NEW nq, nq = updateTtlCountdownQueue(q, kv)
  PROVE  /\ nq \in SUBSET QueueEntry
         /\ OneEach(nq)
         /\ \A x \in nq : x.key \in KeysOf(kv) /\ x.originatorId = kv[x.key].originatorId =>
              /\ x.version = kv[x.key].version
              /\ x.ttlVersion = kv[x.key].ttlVersion
              /\ x.left = kv[x.key].ttl
         /\ \A x \in nq : x.key \notin KeysOf(kv) => x \in q
         /\ \A x \in q : x.key \notin KeysOf(kv) => x \in nq
         /\ \A k \in KeysOf(kv) : \E x \in nq : Matches(x, k, kv[k]) /\ x.left = kv[k].ttl
<1> DEFINE c(k) == [key |-> k, originatorId |-> kv[k].originatorId, version |-> kv[k].version,
                    ttlVersion |-> kv[k].ttlVersion, left |-> kv[k].ttl]
<1>1. KeysOf(kv) \subseteq Keys
  BY DEF KeysOf
<1>2. \A k \in KeysOf(kv) : kv[k] \in Timed /\ kv[k].ttl # TtlInfinity
  BY SMT, <1>1, TtlAssumption DEF Timed, TtlInfinity
<1>3. CountdownOf(kv) = {c(k) : k \in KeysOf(kv)}
  BY <1>2 DEF CountdownOf
<1>4. \A k \in KeysOf(kv) : c(k) \in QueueEntry
  BY <1>1, <1>2 DEF Timed, Entry, QueueEntry
<1> HIDE DEF c
<1>5. \A k \in KeysOf(kv) : /\ c(k).key = k /\ c(k).originatorId = kv[k].originatorId
                            /\ c(k).version = kv[k].version /\ c(k).ttlVersion = kv[k].ttlVersion
                            /\ c(k).left = kv[k].ttl
  BY DEF c
<1>6. nq = {x \in q : \A k \in KeysOf(kv) : x.key # k \/ x.originatorId # kv[k].originatorId}
           \cup {c(k) : k \in KeysOf(kv)}
  BY SMT, <1>3, <1>5 DEF updateTtlCountdownQueue
<1>7. nq \in SUBSET QueueEntry
  BY <1>4, <1>6
<1>8. OneEach(nq)
  BY SMT, <1>5, <1>6 DEF OneEach
<1>9. \A x \in nq : x.key \in KeysOf(kv) /\ x.originatorId = kv[x.key].originatorId =>
              /\ x.version = kv[x.key].version
              /\ x.ttlVersion = kv[x.key].ttlVersion
              /\ x.left = kv[x.key].ttl
  BY SMT, <1>5, <1>6
<1>10. \A k \in KeysOf(kv) : \E x \in nq : Matches(x, k, kv[k]) /\ x.left = kv[k].ttl
  BY <1>5, <1>6 DEF Matches
<1> QED
  BY <1>5, <1>6, <1>7, <1>8, <1>9, <1>10

(* updatePublicationTtl keeps or drops entries and changes nothing but ttls. *)
LEMMA PublicationTimed ==
  ASSUME NEW q \in SUBSET QueueEntry, NEW kv \in [Keys -> Timed],
         NEW u, u = updatePublicationTtl(q, kv)
  PROVE  /\ u \in [Keys -> Timed]
         /\ \A k \in KeysOf(u) : k \in KeysOf(kv) /\ u[k].hasValue = kv[k].hasValue
<1> DEFINE counted(k) == {x \in q : Matches(x, k, kv[k])}
           dropped(k) == \E x \in counted(k) : x.left <= TtlDecr \/ x.left < TtlThreshold
           first(k) == CHOOSE x \in counted(k) : TRUE
<1>1. u = [k \in Keys |->
             IF kv[k] = Absent \/ dropped(k) THEN Absent
             ELSE IF counted(k) = {} THEN kv[k]
             ELSE [kv[k] EXCEPT !.ttl = first(k).left - TtlDecr]]
  BY DEF updatePublicationTtl
<1>2. DOMAIN kv = Keys /\ DOMAIN u = Keys
  BY <1>1
<1>3. ASSUME NEW k \in Keys
      PROVE  u[k] \in Timed /\ (u[k] # Absent => kv[k] # Absent /\ u[k].hasValue = kv[k].hasValue)
  <2>1. kv[k] \in Timed
    OBVIOUS
  <2>2. CASE kv[k] = Absent \/ dropped(k)
    BY <1>1, <2>2, TimedTypes
  <2>3. CASE ~(kv[k] = Absent \/ dropped(k)) /\ counted(k) = {}
    <3>1. u[k] = kv[k]
      BY <1>1, <2>3
    <3> QED
      BY <2>1, <2>3, <3>1
  <2>4. CASE ~(kv[k] = Absent \/ dropped(k)) /\ counted(k) # {}
    <3>1. first(k) \in counted(k)
      BY <2>4
    <3>2. first(k) \in QueueEntry /\ ~(first(k).left <= TtlDecr)
      BY <2>4, <3>1
    <3>3. first(k).left - TtlDecr \in 0..KeyTtl
      BY SMT, <3>2, TtlAssumption DEF QueueEntry
    <3>4. u[k] = [kv[k] EXCEPT !.ttl = first(k).left - TtlDecr]
      BY <1>1, <2>4
    <3> HIDE DEF first, counted, dropped
    <3>5. u[k] \in Entry /\ u[k].ttl = first(k).left - TtlDecr /\ u[k].hasValue = kv[k].hasValue
      BY SMT, <2>1, <3>3, <3>4 DEF Timed, Entry
    <3> QED
      BY <2>4, <3>3, <3>5 DEF Timed
  <2> QED
    BY <2>2, <2>3, <2>4
<1> QED
  BY <1>1, <1>2, <1>3 DEF KeysOf

(* What is flooded is a publication again, and refreshes one key if what was received did. *)
LEMMA FloodedPublications ==
  ASSUME NEW from, NEW kv \in [Keys -> Timed], NEW to \in SUBSET Nodes, NEW ids
  PROVE  /\ Unmixed(kv) => \A msg \in Flood(from, kv, to, ids) : Publication(msg)
         /\ RefreshesOne(kv) => \A msg \in Flood(from, kv, to, ids) : RefreshesOne(msg.keyVals)
<1>1. \A msg \in Flood(from, kv, to, ids) : msg.dst \in to /\ msg.keyVals = kv
  BY SMT DEF Flood
<1> QED
  BY <1>1 DEF Publication

(* Dropping entries and changing ttls keeps a publication what it is. *)
LEMMA SubPublication ==
  ASSUME NEW u, NEW kv, \A k \in KeysOf(u) : k \in KeysOf(kv) /\ u[k].hasValue = kv[k].hasValue
  PROVE  (Unmixed(kv) => Unmixed(u)) /\ (RefreshesOne(kv) => RefreshesOne(u))
BY DEF Unmixed, RefreshesOne

-----------------------------------------------------------------------------
LEMMA TtlInitInv == TtlInit => TtlInv /\ CountedInv
<1> SUFFICES ASSUME TtlInit PROVE TtlInv /\ CountedInv
  OBVIOUS
<1>1. NoKeyVals \in [Keys -> TimedStored] /\ KeysOf(NoKeyVals) = {}
  BY TimedTypes DEF NoKeyVals, KeysOf
<1>2. Typed
  BY SMT, <1>1, TtlAssumption DEF TtlInit, Typed
<1>3. \A n \in Nodes : KeysOf(kvStore[n]) = {} /\ queue[n] = {}
  BY <1>1 DEF TtlInit
<1>4. msgs = {}
  BY DEF TtlInit
<1> QED
  BY <1>2, <1>3, <1>4 DEF TtlInv, CountedInv, OneEach, EveryKeyIsCountedDown

(* AdvertiseKey: a value for one key goes out. *)
LEMMA AdvertiseKeyStep ==
  ASSUME TtlInv, NEW o \in Originators, NEW k \in Keys, NEW version \in 1..MaxVersion,
         AdvertiseKey(o, k, version)
  PROVE  TtlInv' /\ (CountedInv => CountedInv')
<1> DEFINE e == [version |-> version, originatorId |-> o, value |-> 1,
                 hasValue |-> TRUE, ttlVersion |-> 0, ttl |-> KeyTtl - TtlDecr]
           kv == [NoKeyVals EXCEPT ![k] = e]
<1>1. /\ owner' = [owner EXCEPT ![o][k] = e]
      /\ msgs' = msgs \cup Flood(o, kv, OriginatorPeers, {o})
      /\ UNCHANGED <<kvStore, queue, life, alive>>
  BY DEF AdvertiseKey
<1>2. e \in Entry /\ e.hasValue /\ e.version > 0 /\ e.ttl \in 0..KeyTtl
  BY SMT, NodesAssumption, TtlAssumption DEF Entry
<1>3. e \in TimedStored /\ e \in Timed
  BY <1>2 DEF TimedStored, Timed, StoredEntry
<1>4. e.hasValue
  OBVIOUS
<1> HIDE DEF e
<1>5. kv \in [Keys -> Timed] /\ KeysOf(kv) \subseteq {k} /\ kv[k] = e
  BY <1>3, TimedTypes DEF NoKeyVals, KeysOf
<1> HIDE DEF kv
<1>6. Unmixed(kv) /\ RefreshesOne(kv)
  BY <1>4, <1>5 DEF Unmixed, RefreshesOne
<1>7. owner' \in [Originators -> [Keys -> TimedStored]]
  BY <1>1, <1>3 DEF TtlInv, Typed
<1>8. \A msg \in msgs' : Publication(msg)
  BY <1>1, <1>5, <1>6, FloodedPublications, OriginatorPeersAssumption DEF TtlInv, Typed
<1>9. CountedInv => \A msg \in msgs' : RefreshesOne(msg.keyVals)
  BY <1>1, <1>5, <1>6, FloodedPublications, OriginatorPeersAssumption DEF CountedInv
<1>10. TtlInv'
  BY <1>1, <1>7, <1>8 DEF TtlInv, Typed
<1>11. CountedInv => EveryKeyIsCountedDown'
  BY <1>1 DEF CountedInv, EveryKeyIsCountedDown
<1> QED
  BY <1>9, <1>10, <1>11 DEF CountedInv

(* AdvertiseTtlUpdates: the entries of some keys go out without their values. *)
LEMMA AdvertiseTtlUpdatesStep ==
  ASSUME TtlInv, NEW o \in Originators, NEW keys \in RefreshedTogether,
         AdvertiseTtlUpdates(o, keys)
  PROVE  /\ TtlInv'
         /\ CountedInv /\ (\A j, k \in keys : j = k) => CountedInv'
<1> DEFINE refreshed(k) == [owner[o][k] EXCEPT !.ttlVersion = @ + 1]
           bare(k) == [refreshed(k) EXCEPT !.hasValue = FALSE]
           kv == [k \in Keys |-> IF k \in keys THEN bare(k) ELSE Absent]
<1>1. /\ \A k \in keys : owner[o][k] # Absent
      /\ owner' = [owner EXCEPT ![o] = [k \in Keys |-> IF k \in keys THEN refreshed(k) ELSE owner[o][k]]]
      /\ msgs' = msgs \cup Flood(o, kv, OriginatorPeers, {o})
      /\ UNCHANGED <<kvStore, queue, life, alive>>
  BY DEF AdvertiseTtlUpdates, TtlInv, Typed
<1>2. ASSUME NEW k \in keys
      PROVE  refreshed(k) \in TimedStored /\ bare(k) \in Timed /\ ~bare(k).hasValue
  <2>1. k \in Keys /\ owner[o][k] \in TimedStored /\ owner[o][k] # Absent
    BY <1>1, RefreshAssumption DEF TtlInv, Typed
  <2>2. owner[o][k] \in Entry /\ owner[o][k].hasValue /\ owner[o][k].version > 0
        /\ owner[o][k].ttl \in 0..KeyTtl
    BY <2>1 DEF TimedStored, StoredEntry
  <2>3. /\ refreshed(k) \in Entry /\ refreshed(k).hasValue /\ refreshed(k).version > 0
        /\ refreshed(k).ttl \in 0..KeyTtl
    BY SMT, <2>2 DEF Entry
  <2>4. bare(k) \in Entry /\ ~bare(k).hasValue /\ bare(k).ttl \in 0..KeyTtl
    BY <2>3 DEF Entry
  <2> QED
    BY <2>3, <2>4 DEF TimedStored, StoredEntry, Timed
<1> HIDE DEF refreshed, bare
<1>3. kv \in [Keys -> Timed] /\ (\A k \in KeysOf(kv) : k \in keys /\ ~kv[k].hasValue)
  BY <1>2, TimedTypes DEF KeysOf
<1> HIDE DEF kv
<1>4. Unmixed(kv)
  <2>1. \A k \in KeysOf(kv) : kv[k].hasValue \in BOOLEAN
    BY <1>3 DEF KeysOf, Timed, Entry
  <2> QED
    BY <1>3, <2>1 DEF Unmixed
<1>5. owner' \in [Originators -> [Keys -> TimedStored]]
  BY <1>1, <1>2 DEF TtlInv, Typed
<1>6. \A msg \in msgs' : Publication(msg)
  BY <1>1, <1>3, <1>4, FloodedPublications, OriginatorPeersAssumption DEF TtlInv, Typed
<1>7. TtlInv'
  BY <1>1, <1>5, <1>6 DEF TtlInv, Typed
<1>8. ASSUME CountedInv, \A j, k \in keys : j = k
      PROVE  CountedInv'
  <2>1. RefreshesOne(kv)
    BY <1>3, <1>8 DEF RefreshesOne
  <2>2. \A msg \in msgs' : RefreshesOne(msg.keyVals)
    BY <1>1, <1>3, <1>8, <2>1, FloodedPublications, OriginatorPeersAssumption DEF CountedInv
  <2>3. EveryKeyIsCountedDown'
    BY <1>1, <1>8 DEF CountedInv, EveryKeyIsCountedDown
  <2> QED
    BY <2>2, <2>3 DEF CountedInv
<1> QED
  BY <1>7, <1>8

(* FullSync: stored entries go out, and these carry their values. *)
LEMMA FullSyncStep ==
  ASSUME TtlInv, NEW n \in Nodes, NEW m \in Peers(n), FullSync(n, m)
  PROVE  TtlInv' /\ (CountedInv => CountedInv')
<1> DEFINE mine == IF m \in Originators THEN owner[m] ELSE kvStore[m]
           countdown == IF m \in Originators THEN {} ELSE queue[m]
           diff == dumpDifference(mine, dumpHashWithFilters(kvStore[n])).keyVals
           kv == updatePublicationTtl(countdown, diff)
<1>1. /\ msgs' = msgs \cup Flood(m, kv, {n}, {})
      /\ UNCHANGED <<kvStore, queue, life, owner, alive>>
  BY DEF FullSync
<1>2. mine \in [Keys -> TimedStored] /\ countdown \in SUBSET QueueEntry
  BY DEF Peers, TtlInv, Typed
<1> HIDE DEF mine, countdown
<1>3. /\ DOMAIN diff = Keys
      /\ \A k \in Keys : diff[k] \in {mine[k], Absent}
      /\ diff = [k \in Keys |-> diff[k]]
  BY <1>2 DEF dumpDifference
<1> HIDE DEF diff
<1>4. diff \in [Keys -> TimedStored]
  <2>1. \A k \in Keys : diff[k] \in TimedStored
    BY <1>2, <1>3, TimedTypes
  <2> QED
    BY <1>3, <2>1
<1>5. diff \in [Keys -> Timed] /\ \A k \in KeysOf(diff) : diff[k].hasValue = TRUE
  <2>1. ASSUME NEW k \in KeysOf(diff)
        PROVE  diff[k].hasValue = TRUE
    <3>1. diff[k] \in StoredEntry /\ diff[k] # Absent
      BY <1>4, <2>1 DEF KeysOf, TimedStored
    <3> QED
      BY <3>1 DEF StoredEntry, Entry
  <2> QED
    BY <1>4, <2>1, TimedTypes
<1>6. Unmixed(diff) /\ RefreshesOne(diff)
  BY <1>5 DEF Unmixed, RefreshesOne
<1>7. /\ kv \in [Keys -> Timed]
      /\ \A k \in KeysOf(kv) : k \in KeysOf(diff) /\ kv[k].hasValue = diff[k].hasValue
  BY <1>2, <1>5, PublicationTimed
<1> HIDE DEF kv
<1>8. Unmixed(kv) /\ RefreshesOne(kv)
  BY <1>6, <1>7, SubPublication
<1>9. \A msg \in msgs' : Publication(msg)
  BY <1>1, <1>7, <1>8, FloodedPublications DEF TtlInv, Typed
<1>10. CountedInv => \A msg \in msgs' : RefreshesOne(msg.keyVals)
  BY <1>1, <1>7, <1>8, FloodedPublications DEF CountedInv
<1>11. TtlInv'
  BY <1>1, <1>9 DEF TtlInv, Typed
<1>12. CountedInv => EveryKeyIsCountedDown'
  BY <1>1 DEF CountedInv, EveryKeyIsCountedDown
<1> QED
  BY <1>10, <1>11, <1>12 DEF CountedInv

(* cleanupTtlCountdownQueue, Tick: time passes and what is due goes. *)
Expiry == \A n \in Nodes, k \in Keys :
            kvStore[n][k] # Absent /\ kvStore'[n][k] = Absent => life[n][k] = 0

LEMMA CleanupStep ==
  ASSUME TtlInv, NEW n \in Nodes, CleanupTtlCountdownQueue(n)
  PROVE  TtlInv' /\ (CountedInv => CountedInv') /\ Expiry
<1> DEFINE due == {q \in queue[n] : q.left = 0}
           expired == {k \in KeysOf(kvStore[n]) : \E q \in due : Matches(q, k, kvStore[n][k])}
<1>1. /\ kvStore' = [kvStore EXCEPT ![n] = [k \in Keys |-> IF k \in expired THEN Absent ELSE kvStore[n][k]]]
      /\ queue' = [queue EXCEPT ![n] = queue[n] \ due]
      /\ UNCHANGED <<life, owner, alive, msgs>>
  BY DEF CleanupTtlCountdownQueue, TtlInv, Typed
<1>2. /\ \A m \in Nodes \ {n} : kvStore'[m] = kvStore[m] /\ queue'[m] = queue[m]
      /\ \A k \in Keys : kvStore'[n][k] = IF k \in expired THEN Absent ELSE kvStore[n][k]
      /\ queue'[n] = queue[n] \ due
  BY <1>1 DEF TtlInv, Typed
<1>3. kvStore' \in [Nodes -> [Keys -> TimedStored]]
  BY <1>1, TimedTypes DEF TtlInv, Typed
<1>4. queue' \in [Nodes -> SUBSET QueueEntry]
  BY <1>1 DEF TtlInv, Typed
<1>5. Typed'
  BY <1>1, <1>3, <1>4 DEF TtlInv, Typed
<1>6. \A m \in Nodes : /\ queue'[m] \subseteq queue[m]
                       /\ KeysOf(kvStore'[m]) \subseteq KeysOf(kvStore[m])
                       /\ \A k \in KeysOf(kvStore'[m]) : k \in Keys /\ kvStore'[m][k] = kvStore[m][k]
  <2>1. \A m \in Nodes : DOMAIN kvStore[m] = Keys /\ DOMAIN kvStore'[m] = Keys
    BY <1>3 DEF TtlInv, Typed
  <2>2. \A m \in Nodes, k \in Keys : kvStore'[m][k] \in {kvStore[m][k], Absent}
    BY <1>2
  <2> HIDE DEF due, expired
  <2> QED
    BY <1>2, <2>1, <2>2 DEF KeysOf
<1>7. \A m \in Nodes : OneEach(queue'[m])
  BY <1>6 DEF TtlInv, OneEach
<1>8. ASSUME NEW m \in Nodes, NEW k \in KeysOf(kvStore'[m])
      PROVE  NotAhead(queue'[m], k, kvStore'[m][k], life'[m][k])
  <2>1. /\ k \in KeysOf(kvStore[m]) /\ kvStore'[m][k] = kvStore[m][k]
        /\ queue'[m] \subseteq queue[m] /\ life' = life
    BY <1>1, <1>6
  <2>2. NotAhead(queue[m], k, kvStore[m][k], life[m][k])
    BY <2>1 DEF TtlInv
  <2> QED
    BY SMT, <2>1, <2>2 DEF NotAhead
<1>9. Expiry
  <2> SUFFICES ASSUME NEW m \in Nodes, NEW k \in Keys, kvStore[m][k] # Absent, kvStore'[m][k] = Absent
               PROVE  life[m][k] = 0
    BY DEF Expiry
  <2>1. m = n /\ k \in expired
    BY <1>2
  <2>2. PICK q \in queue[n] : q.left = 0 /\ Matches(q, k, kvStore[n][k])
    BY <2>1
  <2>3. NotAhead(queue[n], k, kvStore[n][k], life[n][k])
    BY <2>1 DEF TtlInv
  <2>4. q \in QueueEntry /\ life[n][k] \in 0..KeyTtl /\ q.ttlVersion \in Nat
    BY SMT DEF TtlInv, Typed, QueueEntry
  <2>5. life[n][k] <= q.left
    BY SMT, <2>2, <2>3, <2>4 DEF NotAhead, Matches
  <2> QED
    BY SMT, <2>1, <2>2, <2>4, <2>5
<1>10. ASSUME CountedInv
       PROVE  EveryKeyIsCountedDown'
  <2> SUFFICES ASSUME NEW m \in Nodes, NEW k \in KeysOf(kvStore'[m])
               PROVE  \E q \in queue'[m] : Matches(q, k, kvStore'[m][k]) /\ q.left <= life'[m][k]
    BY DEF EveryKeyIsCountedDown
  <2>1. k \in KeysOf(kvStore[m]) /\ kvStore'[m][k] = kvStore[m][k] /\ k \in Keys /\ kvStore'[m][k] # Absent
    BY <1>6 DEF KeysOf
  <2>2. PICK q \in queue[m] : Matches(q, k, kvStore[m][k]) /\ q.left <= life[m][k]
    BY <1>10, <2>1 DEF CountedInv, EveryKeyIsCountedDown
  <2>3. q \in queue'[m]
    BY <1>2, <2>1, <2>2
  <2> QED
    BY <1>1, <2>1, <2>2, <2>3
<1> QED
  BY <1>1, <1>5, <1>7, <1>8, <1>9, <1>10 DEF TtlInv, CountedInv

LEMMA TickStep ==
  ASSUME TtlInv, Tick
  PROVE  TtlInv' /\ (CountedInv => CountedInv') /\ Expiry
<1> DEFINE older(q) == [q EXCEPT !.left = @ - 1]
<1>1. /\ \A n \in Nodes : \A q \in queue[n] : q.left > 0
      /\ queue' = [n \in Nodes |-> {older(q) : q \in queue[n]}]
      /\ life' = [n \in Nodes |-> [k \in Keys |-> IF life[n][k] > 0 THEN life[n][k] - 1 ELSE 0]]
      /\ UNCHANGED <<kvStore, owner, alive, msgs>>
  BY DEF Tick
<1>2. ASSUME NEW n \in Nodes, NEW q \in queue[n]
      PROVE  /\ q \in QueueEntry
             /\ older(q) \in QueueEntry
             /\ older(q).key = q.key /\ older(q).originatorId = q.originatorId
             /\ older(q).version = q.version /\ older(q).ttlVersion = q.ttlVersion
             /\ older(q).left = q.left - 1 /\ q.left \in 1..KeyTtl
  <2>1. q \in QueueEntry /\ q.left > 0
    BY <1>1 DEF TtlInv, Typed
  <2> QED
    BY SMT, <2>1, TtlAssumption DEF QueueEntry
<1> HIDE DEF older
<1>3. ASSUME NEW n \in Nodes, NEW k \in Keys
      PROVE  /\ life[n][k] \in 0..KeyTtl /\ life'[n][k] \in 0..KeyTtl
             /\ life'[n][k] = IF life[n][k] > 0 THEN life[n][k] - 1 ELSE 0
  BY SMT, <1>1, TtlAssumption DEF TtlInv, Typed
<1>4. life' \in [Nodes -> [Keys -> 0..KeyTtl]]
  BY SMT, <1>1, TtlAssumption DEF TtlInv, Typed
<1>5. queue' \in [Nodes -> SUBSET QueueEntry]
  BY SMT, <1>1, <1>2
<1>6. Typed'
  BY <1>1, <1>4, <1>5 DEF TtlInv, Typed
<1>7. ASSUME NEW n \in Nodes
      PROVE  OneEach(queue'[n])
  BY SMT, <1>1, <1>2 DEF TtlInv, OneEach
<1>8. ASSUME NEW n \in Nodes, NEW k \in KeysOf(kvStore'[n])
      PROVE  NotAhead(queue'[n], k, kvStore'[n][k], life'[n][k])
  <2>1. k \in KeysOf(kvStore[n]) /\ k \in Keys /\ kvStore' = kvStore
    BY <1>1 DEF KeysOf, TtlInv, Typed
  <2>2. NotAhead(queue[n], k, kvStore[n][k], life[n][k])
    BY <2>1 DEF TtlInv
  <2> SUFFICES ASSUME NEW q \in queue[n], q.key = k, q.originatorId = kvStore[n][k].originatorId
               PROVE  /\ q.version = kvStore[n][k].version
                      /\ \/ q.ttlVersion = kvStore[n][k].ttlVersion /\ life'[n][k] <= q.left - 1
                         \/ q.ttlVersion < kvStore[n][k].ttlVersion
    BY SMT, <1>1, <1>2, <2>1 DEF NotAhead
  <2>3. /\ q.version = kvStore[n][k].version
        /\ \/ q.ttlVersion = kvStore[n][k].ttlVersion /\ life[n][k] <= q.left
           \/ q.ttlVersion < kvStore[n][k].ttlVersion
    BY <2>2 DEF NotAhead
  <2> QED
    BY SMT, <1>2, <1>3, <2>1, <2>3
<1>9. Expiry
  BY <1>1 DEF Expiry
<1>10. ASSUME CountedInv
       PROVE  EveryKeyIsCountedDown'
  <2> SUFFICES ASSUME NEW n \in Nodes, NEW k \in KeysOf(kvStore'[n])
               PROVE  \E q \in queue'[n] : Matches(q, k, kvStore'[n][k]) /\ q.left <= life'[n][k]
    BY DEF EveryKeyIsCountedDown
  <2>1. k \in KeysOf(kvStore[n]) /\ k \in Keys /\ kvStore' = kvStore
    BY <1>1 DEF KeysOf, TtlInv, Typed
  <2>2. PICK q \in queue[n] : Matches(q, k, kvStore[n][k]) /\ q.left <= life[n][k]
    BY <1>10, <2>1 DEF CountedInv, EveryKeyIsCountedDown
  <2>3. older(q) \in queue'[n] /\ Matches(older(q), k, kvStore'[n][k])
    BY <1>1, <1>2, <2>1, <2>2 DEF Matches
  <2>4. older(q).left <= life'[n][k]
    BY SMT, <1>2, <1>3, <2>1, <2>2
  <2> QED
    BY <2>3, <2>4
<1> QED
  BY <1>1, <1>6, <1>7, <1>8, <1>9, <1>10 DEF TtlInv, CountedInv

(* MergePublication, when the store has not seen the publication yet. *)
LEMMA MergePublicationStep ==
  ASSUME TtlInv, NEW msg \in msgs, MergePublication(msg)
  PROVE  TtlInv' /\ (CountedInv => CountedInv') /\ Expiry
<1> DEFINE n == msg.dst
           s == kvStore[n]
           kv == msg.keyVals
           visited == n \in msg.nodeIds
<1>r. PICK r : r = mergeKeyValues(s, kv, msg.from)
  OBVIOUS
<1>k. PICK rk : rk = r.keyVals
  OBVIOUS
<1>o. PICK old : old = queue[n]
  OBVIOUS
<1>q. PICK nq : nq = updateTtlCountdownQueue(old, rk)
  OBVIOUS
<1>d. PICK delta : delta = updatePublicationTtl(nq, rk)
  OBVIOUS
<1> DEFINE resync == r.inconsistent /\ msg.from \in Peers(n)
<1>0. /\ kvStore' = [kvStore EXCEPT ![n] = IF visited THEN @ ELSE r.store]
      /\ life' = [life EXCEPT ![n] = [k \in Keys |-> IF ~visited /\ rk[k] # Absent
                                                     THEN rk[k].ttl ELSE @[k]]]
      /\ queue' = [queue EXCEPT ![n] = IF visited \/ resync THEN @ ELSE nq]
      /\ msgs' = (msgs \ {msg}) \cup (IF visited \/ resync THEN {}
                   ELSE Flood(n, delta, Nodes \ {n, msg.from}, msg.nodeIds \cup {n}))
      /\ UNCHANGED <<owner, alive>>
  BY SMT, <1>r, <1>k, <1>o, <1>q, <1>d DEF MergePublication
<1>1. /\ kvStore' = [kvStore EXCEPT ![n] = IF visited THEN s ELSE r.store]
      /\ life' = [life EXCEPT ![n] = [k \in Keys |-> IF ~visited /\ rk[k] # Absent
                                                     THEN rk[k].ttl ELSE life[n][k]]]
      /\ queue' = [queue EXCEPT ![n] = IF visited \/ resync THEN queue[n] ELSE nq]
      /\ msgs' = (msgs \ {msg}) \cup (IF visited \/ resync THEN {}
                   ELSE Flood(n, delta, Nodes \ {n, msg.from}, msg.nodeIds \cup {n}))
      /\ UNCHANGED <<owner, alive>>
      /\ resync => r.inconsistent
  BY <1>0 DEF TtlInv, Typed
<1>2. n \in Nodes /\ kv \in [Keys -> Timed] /\ Unmixed(kv) /\ s \in [Keys -> TimedStored]
      /\ old = queue[n] /\ old \in SUBSET QueueEntry /\ OneEach(old)
  BY <1>o DEF TtlInv, Typed, Publication
<1> HIDE DEF n, s, kv, visited, resync
<1>3. /\ r.store \in [Keys -> TimedStored]
      /\ rk \in [Keys -> Timed]
      /\ \A k \in Keys : rk[k] = Absent => r.store[k] = s[k]
      /\ \A k \in Keys : rk[k] # Absent =>
           /\ rk[k] = kv[k]
           /\ r.store[k] # Absent
           /\ r.store[k].version = kv[k].version
           /\ r.store[k].originatorId = kv[k].originatorId
           /\ r.store[k].ttlVersion = kv[k].ttlVersion
           /\ ~kv[k].hasValue => /\ s[k] # Absent
                                 /\ s[k].version = kv[k].version
                                 /\ s[k].originatorId = kv[k].originatorId
                                 /\ s[k].ttlVersion < kv[k].ttlVersion
      /\ r.inconsistent => \E j \in KeysOf(kv) : ~kv[j].hasValue /\ rk[j] = Absent
  BY SMT, <1>r, <1>k, <1>2, MergeTimedKeyVals
<1>4. /\ nq \in SUBSET QueueEntry
      /\ OneEach(nq)
      /\ \A x \in nq : x.key \in KeysOf(rk) /\ x.originatorId = rk[x.key].originatorId =>
           /\ x.version = rk[x.key].version
           /\ x.ttlVersion = rk[x.key].ttlVersion
           /\ x.left = rk[x.key].ttl
      /\ \A x \in nq : x.key \notin KeysOf(rk) => x \in old
      /\ \A x \in old : x.key \notin KeysOf(rk) => x \in nq
      /\ \A k \in KeysOf(rk) : \E x \in nq : Matches(x, k, rk[k]) /\ x.left = rk[k].ttl
  BY SMT, <1>q, <1>2, <1>3, QueueUpdated
<1>5. /\ delta \in [Keys -> Timed]
      /\ \A k \in KeysOf(delta) : k \in KeysOf(rk) /\ delta[k].hasValue = rk[k].hasValue
  <2>1. nq \in SUBSET QueueEntry /\ rk \in [Keys -> Timed]
    BY <1>3, <1>4
  <2> QED
    BY <1>d, <2>1, PublicationTimed
<1>6. \A k \in KeysOf(rk) : k \in Keys /\ k \in KeysOf(kv) /\ rk[k] = kv[k]
  BY <1>2, <1>3 DEF KeysOf
<1>7. Unmixed(delta) /\ (RefreshesOne(kv) => RefreshesOne(delta))
  BY <1>2, <1>5, <1>6, SubPublication
<1>8. \A m \in msgs' : Publication(m)
  BY <1>1, <1>5, <1>7, FloodedPublications DEF TtlInv, Typed
<1>9. CountedInv => \A m \in msgs' : RefreshesOne(m.keyVals)
  BY <1>1, <1>5, <1>7, FloodedPublications DEF CountedInv, kv
<1>10. kvStore' \in [Nodes -> [Keys -> TimedStored]]
  BY <1>1, <1>2, <1>3 DEF TtlInv, Typed
<1>11. queue' \in [Nodes -> SUBSET QueueEntry]
  BY <1>1, <1>4 DEF TtlInv, Typed
<1>12. life' \in [Nodes -> [Keys -> 0..KeyTtl]]
  <2>1. [k \in Keys |-> IF ~visited /\ rk[k] # Absent THEN rk[k].ttl ELSE life[n][k]]
          \in [Keys -> 0..KeyTtl]
    BY <1>2, <1>3 DEF TtlInv, Typed, Timed
  <2> QED
    BY <1>1, <2>1 DEF TtlInv, Typed
<1>13. Typed'
  BY <1>1, <1>8, <1>10, <1>11, <1>12 DEF TtlInv, Typed
<1>14. \A m \in Nodes : OneEach(queue'[m])
  BY <1>1, <1>4 DEF TtlInv, Typed
<1>15. /\ \A m \in Nodes \ {n} : kvStore'[m] = kvStore[m] /\ queue'[m] = queue[m] /\ life'[m] = life[m]
       /\ visited => kvStore'[n] = s /\ queue'[n] = queue[n] /\ \A k \in Keys : life'[n][k] = life[n][k]
       /\ ~visited => /\ kvStore'[n] = r.store
                      /\ queue'[n] = IF resync THEN queue[n] ELSE nq
                      /\ \A k \in Keys : life'[n][k] = IF rk[k] # Absent
                                                       THEN rk[k].ttl ELSE life[n][k]
  BY <1>1, <1>2 DEF TtlInv, Typed, s
<1>16. \A m \in Nodes : DOMAIN kvStore[m] = Keys /\ DOMAIN kvStore'[m] = Keys
  BY <1>10 DEF TtlInv, Typed
<1>17. ASSUME NEW m \in Nodes, NEW k \in KeysOf(kvStore'[m])
       PROVE  NotAhead(queue'[m], k, kvStore'[m][k], life'[m][k])
  <2>1. k \in Keys /\ kvStore'[m][k] # Absent
    BY <1>16, <1>17 DEF KeysOf
  <2>2. CASE m # n \/ visited
    <3>1. kvStore'[m] = kvStore[m] /\ queue'[m] = queue[m] /\ life'[m][k] = life[m][k]
      BY <1>15, <2>1, <2>2 DEF s
    <3> QED
      BY <1>17, <3>1 DEF TtlInv
  <2>3. CASE m = n /\ ~visited /\ rk[k] = Absent
    <3>1. kvStore'[n][k] = s[k] /\ life'[n][k] = life[n][k] /\ k \in KeysOf(s)
      BY <1>3, <1>15, <1>16, <2>1, <2>3 DEF KeysOf, s
    <3>2. \A x \in queue'[n] : x.key = k => x \in queue[n]
      BY <1>2, <1>4, <1>15, <2>3 DEF KeysOf
    <3>3. NotAhead(queue[n], k, s[k], life[n][k])
      BY <1>2, <3>1 DEF TtlInv, s
    <3> QED
      BY <2>3, <3>1, <3>2, <3>3 DEF NotAhead
  <2>4. CASE m = n /\ ~visited /\ rk[k] # Absent /\ ~resync
    <3>1. k \in KeysOf(rk) /\ rk[k] = kv[k]
      BY <1>3, <2>1, <2>4 DEF KeysOf
    <3>2. life'[n][k] = kv[k].ttl /\ kvStore'[n][k] = r.store[k] /\ queue'[n] = nq
      BY <1>15, <2>1, <2>4, <3>1
    <3>3. kv[k].ttl \in 0..KeyTtl
      BY <1>2, <2>1 DEF Timed
    <3> QED
      BY SMT, <1>3, <1>4, <2>1, <2>4, <3>1, <3>2, <3>3 DEF NotAhead
  <2>5. CASE m = n /\ ~visited /\ rk[k] # Absent /\ resync
    <3>1. PICK j \in KeysOf(kv) : ~kv[j].hasValue
      BY <1>1, <1>3, <2>5
    <3>2. k \in KeysOf(kv) /\ ~kv[k].hasValue
      BY <1>2, <1>3, <2>1, <2>5, <3>1 DEF KeysOf, Unmixed
    <3>3. /\ s[k] # Absent /\ s[k].version = kv[k].version
          /\ s[k].originatorId = kv[k].originatorId /\ s[k].ttlVersion < kv[k].ttlVersion
      BY <1>3, <2>1, <2>5, <3>2
    <3>4. NotAhead(queue[n], k, s[k], life[n][k])
      BY <1>2, <1>16, <2>1, <3>3 DEF TtlInv, s, KeysOf
    <3>5. queue'[n] = queue[n] /\ kvStore'[n][k] = r.store[k]
      BY <1>15, <2>5
    <3>6. \A x \in queue[n] : x.ttlVersion \in Nat
      BY <1>2 DEF QueueEntry
    <3>7. s[k].ttlVersion \in Nat /\ kv[k].ttlVersion \in Nat
      BY SMT, <1>2, <2>1, TimedTypes DEF Timed, Entry
    <3> QED
      BY SMT, <1>3, <2>1, <2>5, <3>3, <3>4, <3>5, <3>6, <3>7 DEF NotAhead
  <2> QED
    BY <2>2, <2>3, <2>4, <2>5
<1>18. Expiry
  BY SMT, <1>3, <1>15 DEF Expiry, s
<1>19. ASSUME CountedInv
       PROVE  EveryKeyIsCountedDown'
  <2> SUFFICES ASSUME NEW m \in Nodes, NEW k \in KeysOf(kvStore'[m])
               PROVE  \E q \in queue'[m] : Matches(q, k, kvStore'[m][k]) /\ q.left <= life'[m][k]
    BY DEF EveryKeyIsCountedDown
  <2>1. k \in Keys /\ kvStore'[m][k] # Absent
    BY <1>16 DEF KeysOf
  <2>2. RefreshesOne(kv)
    BY <1>19 DEF CountedInv, kv
  <2>3. CASE m # n \/ visited
    <3>1. kvStore'[m] = kvStore[m] /\ queue'[m] = queue[m] /\ life'[m][k] = life[m][k]
      BY <1>15, <2>1, <2>3 DEF s
    <3> QED
      BY <1>19, <3>1 DEF CountedInv, EveryKeyIsCountedDown
  <2>4. CASE m = n /\ ~visited /\ rk[k] = Absent
    <3>1. kvStore'[n][k] = kvStore[n][k] /\ life'[n][k] = life[n][k] /\ k \in KeysOf(kvStore[n])
      BY <1>2, <1>3, <1>15, <1>16, <2>1, <2>4 DEF KeysOf, s
    <3>2. PICK q \in queue[n] : Matches(q, k, kvStore[n][k]) /\ q.left <= life[n][k]
      BY <1>2, <1>19, <3>1 DEF CountedInv, EveryKeyIsCountedDown
    <3>3. q \in queue'[n]
      BY <1>2, <1>4, <1>15, <2>4, <3>2 DEF Matches, KeysOf
    <3> QED
      BY <2>4, <3>1, <3>2, <3>3
  <2>5. CASE m = n /\ ~visited /\ rk[k] # Absent
    <3>1. k \in KeysOf(kv) /\ k \in KeysOf(rk) /\ rk[k] = kv[k]
      BY <1>3, <1>6, <2>1, <2>5 DEF KeysOf
    <3>2. ~resync
      BY <1>1, <1>3, <2>2, <2>5, <3>1 DEF RefreshesOne
    <3>3. life'[n][k] = kv[k].ttl /\ kvStore'[n][k] = r.store[k] /\ queue'[n] = nq
      BY <1>15, <2>1, <2>5, <3>1, <3>2
    <3>4. PICK q \in nq : Matches(q, k, kv[k]) /\ q.left = kv[k].ttl
      BY <1>4, <3>1
    <3>5. Matches(q, k, r.store[k])
      BY <1>3, <2>1, <2>5, <3>4 DEF Matches
    <3>6. kv[k].ttl \in 0..KeyTtl
      BY <1>2, <2>1 DEF Timed
    <3> QED
      BY SMT, <2>5, <3>3, <3>4, <3>5, <3>6
  <2> QED
    BY <2>3, <2>4, <2>5
<1> QED
  BY <1>9, <1>13, <1>14, <1>17, <1>18, <1>19 DEF TtlInv, CountedInv

(* Die changes none of what the invariants speak about. *)
LEMMA DieStep ==
  ASSUME TtlInv, NEW o \in Originators, Die(o)
  PROVE  TtlInv' /\ (CountedInv => CountedInv') /\ Expiry
<1>1. /\ alive' \subseteq alive
      /\ kvStore' = kvStore /\ queue' = queue /\ life' = life /\ owner' = owner /\ msgs' = msgs
  BY DEF Die
<1>2. Typed'
  BY <1>1 DEF TtlInv, Typed
<1> QED
  BY <1>1, <1>2 DEF TtlInv, CountedInv, EveryKeyIsCountedDown, Expiry

(* A step of another part of the system changes nothing here. *)
LEMMA TtlStuttering ==
  ASSUME TtlInv, UNCHANGED ttlVars
  PROVE  TtlInv' /\ (CountedInv => CountedInv') /\ Expiry
<1>1. /\ kvStore' = kvStore /\ queue' = queue /\ life' = life
      /\ owner' = owner /\ alive' = alive /\ msgs' = msgs
  BY DEF ttlVars
<1>2. Typed'
  BY <1>1 DEF TtlInv, Typed
<1> QED
  BY <1>1, <1>2 DEF TtlInv, CountedInv, EveryKeyIsCountedDown, Expiry

(* What an originator may refresh with one ttl update is one key. *)
OneKeyEach == \A keys \in RefreshedTogether : \A j, k \in keys : j = k

(* Every step keeps the invariant, and removes no key early. *)
LEMMA TtlNextInv ==
  ASSUME TtlInv, [TtlNext]_ttlVars
  PROVE  TtlInv' /\ (OneKeyEach /\ CountedInv => CountedInv') /\ Expiry
<1>1. ASSUME NEW o \in Originators, NEW k \in Keys, NEW version \in 1..MaxVersion,
             AdvertiseKey(o, k, version)
      PROVE  TtlInv' /\ (CountedInv => CountedInv') /\ Expiry
  <2>1. kvStore' = kvStore
    BY <1>1 DEF AdvertiseKey
  <2> QED
    BY <1>1, <2>1, AdvertiseKeyStep DEF Expiry
<1>2. ASSUME NEW o \in Originators, NEW keys \in RefreshedTogether, AdvertiseTtlUpdates(o, keys)
      PROVE  TtlInv' /\ (OneKeyEach /\ CountedInv => CountedInv') /\ Expiry
  <2>1. kvStore' = kvStore
    BY <1>2 DEF AdvertiseTtlUpdates
  <2>2. keys \in SUBSET Keys
    BY RefreshAssumption
  <2>3. OneKeyEach => \A j, k \in keys : j = k
    BY DEF OneKeyEach
  <2> QED
    BY <1>2, <2>1, <2>2, <2>3, AdvertiseTtlUpdatesStep DEF Expiry
<1>3. ASSUME NEW o \in Originators, Die(o)
      PROVE  TtlInv' /\ (CountedInv => CountedInv') /\ Expiry
  BY <1>3, DieStep
<1>4. ASSUME Deliver
      PROVE  TtlInv' /\ (CountedInv => CountedInv') /\ Expiry
  BY <1>4, MergePublicationStep DEF Deliver
<1>5. ASSUME NEW n \in Nodes, NEW m \in Peers(n), FullSync(n, m)
      PROVE  TtlInv' /\ (CountedInv => CountedInv') /\ Expiry
  <2>1. kvStore' = kvStore
    BY <1>5 DEF FullSync
  <2> QED
    BY <1>5, <2>1, FullSyncStep DEF Expiry
<1>6. ASSUME Cleanup
      PROVE  TtlInv' /\ (CountedInv => CountedInv') /\ Expiry
  BY <1>6, CleanupStep DEF Cleanup
<1>7. ASSUME Tick
      PROVE  TtlInv' /\ (CountedInv => CountedInv') /\ Expiry
  BY <1>7, TickStep
<1> QED
  BY <1>1, <1>2, <1>3, <1>4, <1>5, <1>6, <1>7, TtlStuttering DEF TtlNext

-----------------------------------------------------------------------------
(* The invariant gives the types and the single countdown. *)
LEMMA TtlInvImplies == TtlInv => TtlTypeOK /\ OneCountdownPerKey
<1> SUFFICES ASSUME TtlInv PROVE TtlTypeOK /\ OneCountdownPerKey
  OBVIOUS
<1>1. TimedStored \subseteq StoredEntry /\ Timed \subseteq Entry
  BY DEF TimedStored, Timed
<1>2. kvStore \in [Nodes -> [Keys -> StoredEntry]] /\ owner \in [Originators -> [Keys -> StoredEntry]]
  BY <1>1 DEF TtlInv, Typed
<1>3. \A msg \in msgs : msg.dst \in Nodes /\ msg.keyVals \in KeyVals
  BY <1>1 DEF TtlInv, Typed, Publication, KeyVals
<1> QED
  BY <1>2, <1>3 DEF TtlInv, Typed, TtlTypeOK, OneCountdownPerKey, OneEach

(***************************************************************************)
(* updateTtlCountdownQueue: the stores, the queues and the publications in *)
(* flight keep their types; no ttl in any of them leaves 0..KeyTtl, at     *)
(* however many hops the decrement was taken off.                          *)
(***************************************************************************)
THEOREM TtlTyped == TtlSpec => []TtlTypeOK
<1>1. TtlInv /\ [TtlNext]_ttlVars => TtlInv'
  BY TtlNextInv
<1> QED
  BY TtlInitInv, <1>1, TtlInvImplies, PTL DEF TtlSpec

(***************************************************************************)
(* updateTtlCountdownQueue (ttlCountdownHandleMap_): a store counts a key  *)
(* of an originator down once, whatever arrives in whatever order.         *)
(***************************************************************************)
THEOREM CountedOnce == TtlSpec => []OneCountdownPerKey
<1>1. TtlInv /\ [TtlNext]_ttlVars => TtlInv'
  BY TtlNextInv
<1> QED
  BY TtlInitInv, <1>1, TtlInvImplies, PTL DEF TtlSpec

(***************************************************************************)
(* cleanupTtlCountdownQueue: whatever is refreshed together, lost to a     *)
(* resynchronisation or given back by a neighbour, a key is erased only    *)
(* when the ttl it was last refreshed with has passed.                     *)
(***************************************************************************)
THEOREM NoEarlyExpiry == TtlSpec => NeverExpiresEarly
<1>1. TtlInv /\ [TtlNext]_ttlVars => TtlInv'
  BY TtlNextInv
<1>2. TtlInv /\ [TtlNext]_ttlVars =>
        [\A n \in Nodes, k \in Keys :
           kvStore[n][k] # Absent /\ kvStore'[n][k] = Absent => life[n][k] = 0]_ttlVars
  BY TtlNextInv DEF Expiry
<1> QED
  BY TtlInitInv, <1>1, <1>2, PTL DEF TtlSpec, NeverExpiresEarly

(***************************************************************************)
(* updateTtlCountdownQueue, mergePublication: as long as a ttl update      *)
(* refreshes one key, every stored key is counted down by an entry that    *)
(* matches it and is due no later than its ttl.  Without the restriction   *)
(* mergePublication can return, for the sake of one key, before it has     *)
(* queued the others it merged.                                            *)
(***************************************************************************)
THEOREM AlwaysCountedDown ==
  ASSUME OneKeyEach
  PROVE  TtlSpec => []EveryKeyIsCountedDown
<1>1. TtlInv /\ CountedInv /\ [TtlNext]_ttlVars => TtlInv' /\ CountedInv'
  BY TtlNextInv
<1>2. CountedInv => EveryKeyIsCountedDown
  BY DEF CountedInv
<1> QED
  BY TtlInitInv, <1>1, <1>2, PTL DEF TtlSpec

=============================================================================
