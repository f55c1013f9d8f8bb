----------------------------- MODULE KvStoreMerge -----------------------------
(***************************************************************************)
(* Conflict resolution between key-value stores: what                      *)
(* openr/kvstore/KvStoreUtil.cpp computes when a publication is merged     *)
(* into a store, and when two stores are compared during a full-sync.      *)
(*                                                                         *)
(* A store and the key-values of a publication are both functions from     *)
(* keys to entries.  An entry abstracts thrift::Value: originator ids and  *)
(* binary values are strings of which only the order matters, so both are  *)
(* numbers.  The hash of (version, originatorId, value) is taken to be     *)
(* collision free, so the number in `value' stands for the value and for   *)
(* its hash, and `hasValue' tells whether the value itself is carried (a   *)
(* ttl update and a hash dump carry none).                                 *)
(***************************************************************************)
EXTENDS Integers

Entry == [version : Nat, originatorId : Nat, value : Nat, hasValue : BOOLEAN,
          ttlVersion : Nat, ttl : Int]

(* A key that is not in the map; its version is Constants::kUndefinedVersion. *)
Absent == [version |-> 0, originatorId |-> 0, value |-> 0, hasValue |-> FALSE,
           ttlVersion |-> 0, ttl |-> 0]

(* The originator id of nobody: std::nullopt, or the empty string. *)
NoNode == 0

(* Constants::kTtlInfinity, a negative number as in the code (INT32_MIN). *)
TtlInfinity == -1

KeysOf(keyVals) == {k \in DOMAIN keyVals : keyVals[k] # Absent}

(* An entry a store holds always carries a value. *)
StoredEntry == {Absent} \cup {e \in Entry : e.hasValue /\ e.version > 0}

isTtlUpdate(v) == ~v.hasValue

isResyncNeeded(v, cur) ==
  \/ cur = Absent
  \/ v.version # cur.version
  \/ v.originatorId # cur.originatorId

isValidTtl(v) == v.ttl = TtlInfinity \/ v.ttl > 0

isValidVersion(myVersion, v) == v.version > 0 /\ v.version >= myVersion

(***************************************************************************)
(* getMergeType, its two halves: a ttl update, and an update that carries  *)
(* a value.                                                                *)
(***************************************************************************)
ttlMergeType(v, cur, sender) ==
  CASE isResyncNeeded(v, cur) /\ sender = v.originatorId -> "RESYNC_NEEDED"
    [] ~isResyncNeeded(v, cur) /\ v.ttlVersion > cur.ttlVersion -> "UPDATE_TTL_NEEDED"
    [] OTHER -> "NO_UPDATE_NEEDED"

(* Mutant: at the same version the last update wins. *)
valueMergeType_LastWins(v, cur) ==
  IF isValidVersion(cur.version, v) THEN "UPDATE_ALL_NEEDED" ELSE "NO_UPDATE_NEEDED"

valueMergeType(v, cur) ==
  LET sameOriginator == v.version = cur.version /\ v.originatorId = cur.originatorId
      sameValue == sameOriginator /\ v.value = cur.value
  IN  IF ~isValidVersion(cur.version, v) THEN "NO_UPDATE_NEEDED"
      ELSE IF \/ v.version > cur.version
              \/ v.version = cur.version /\ v.originatorId > cur.originatorId
              \/ sameOriginator /\ v.value > cur.value
        THEN "UPDATE_ALL_NEEDED"
      ELSE IF sameValue /\ v.ttlVersion > cur.ttlVersion THEN "UPDATE_TTL_NEEDED"
      ELSE "NO_UPDATE_NEEDED"

getMergeType(v, cur, sender) ==
  IF isTtlUpdate(v) THEN ttlMergeType(v, cur, sender) ELSE valueMergeType(v, cur)

updateKvStoreTtl(cur, v) == [cur EXCEPT !.ttl = v.ttl, !.ttlVersion = v.ttlVersion]

IsMerged(cur, v, sender) ==
  /\ v # Absent
  /\ isValidTtl(v)
  /\ getMergeType(v, cur, sender) \in {"UPDATE_ALL_NEEDED", "UPDATE_TTL_NEEDED"}

(* What merging entry v does to the entry cur of its key. *)
MergeEntry(cur, v, sender) ==
  IF ~IsMerged(cur, v, sender) THEN cur
  ELSE IF getMergeType(v, cur, sender) = "UPDATE_ALL_NEEDED" THEN v
  ELSE updateKvStoreTtl(cur, v)

(***************************************************************************)
(* mergeKeyValues: the new store, the key-values to announce, and whether  *)
(* an inconsistency with the originator was met.                           *)
(***************************************************************************)
mergeKeyValues(store, keyVals, sender) ==
  [store |-> [k \in DOMAIN store |-> MergeEntry(store[k], keyVals[k], sender)],
   keyVals |-> [k \in DOMAIN store |->
                  IF IsMerged(store[k], keyVals[k], sender) THEN keyVals[k] ELSE Absent],
   inconsistent |-> \E k \in KeysOf(keyVals) :
                      /\ isValidTtl(keyVals[k])
                      /\ getMergeType(keyVals[k], store[k], sender) = "RESYNC_NEEDED"]

(***************************************************************************)
(* compareValues: which of two entries a full-sync considers better.  The  *)
(* hashes of both are always present; they are equal when the values are.  *)
(***************************************************************************)
compareValues(v1, v2) ==
  LET Prefer(a, b) == IF a > b THEN "FIRST" ELSE "SECOND"
  IN  IF v1.version # v2.version THEN Prefer(v1.version, v2.version)
      ELSE IF v1.originatorId # v2.originatorId THEN Prefer(v1.originatorId, v2.originatorId)
      ELSE IF v1.value = v2.value
           THEN IF v1.ttlVersion = v2.ttlVersion THEN "TIED" ELSE Prefer(v1.ttlVersion, v2.ttlVersion)
      ELSE IF v1.hasValue /\ v2.hasValue THEN Prefer(v1.value, v2.value) ELSE "UNKNOWN"

(***************************************************************************)
(* The hash dump that opens a full-sync, and the responder's answer: what  *)
(* it has to offer and which keys it wants.                                *)
(***************************************************************************)
dumpHashWithFilters(store) == [k \in DOMAIN store |-> [store[k] EXCEPT !.hasValue = FALSE]]

dumpDifference(myKeyVal, reqKeyVal) ==
  LET rc(k) == compareValues(myKeyVal[k], reqKeyVal[k])
      offered(k) == /\ myKeyVal[k] # Absent
                    /\ reqKeyVal[k] = Absent \/ rc(k) \in {"FIRST", "UNKNOWN"}
      wanted(k) == /\ reqKeyVal[k] # Absent
                   /\ myKeyVal[k] = Absent \/ rc(k) \in {"SECOND", "UNKNOWN"}
  IN  [keyVals |-> [k \in DOMAIN myKeyVal |-> IF offered(k) THEN myKeyVal[k] ELSE Absent],
       tobeUpdatedKeys |-> {k \in DOMAIN myKeyVal : wanted(k)}]

(***************************************************************************)
(* The order the tie-breakers are meant to define, stated independently of *)
(* the code above.  `content' leaves the ttl version out: two entries with *)
(* the same content carry the same value of the same writer.               *)
(***************************************************************************)
content(e) == <<e.version, e.originatorId, e.value>>

NewerContent(a, b) ==
  \/ a.version > b.version
  \/ a.version = b.version /\ a.originatorId > b.originatorId
  \/ a.version = b.version /\ a.originatorId = b.originatorId /\ a.value > b.value

Newer(a, b) == NewerContent(a, b) \/ (content(a) = content(b) /\ a.ttlVersion > b.ttlVersion)

AtLeast(a, b) == NewerContent(a, b) \/ content(a) = content(b)

=============================================================================
