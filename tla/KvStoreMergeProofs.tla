-------------------------- MODULE KvStoreMergeProofs --------------------------
(***************************************************************************)
(* What merging one entry does (openr/kvstore/KvStoreUtil.cpp,             *)
(* getMergeType and mergeKeyValues), for any two entries.                  *)
(***************************************************************************)
EXTENDS KvStoreMerge, TLAPS

(* A store's entry is an entry, and a key a store does not have is in its type. *)
LEMMA StoredEntryIsEntry == Absent \in StoredEntry /\ StoredEntry \subseteq Entry
<1>1. Absent \in Entry
  BY DEF Absent, Entry
<1> QED
  BY <1>1 DEF StoredEntry

(* AtLeast is a total preorder on entries whose ties have the same content. *)
LEMMA AtLeastTransitive ==
  ASSUME NEW a \in Entry, NEW b \in Entry, NEW c \in Entry, AtLeast(a, b), AtLeast(b, c)
  PROVE  AtLeast(a, c)
BY DEF AtLeast, NewerContent, content, Entry

LEMMA AtLeastAntisymmetric ==
  ASSUME NEW a \in Entry, NEW b \in Entry, AtLeast(a, b), AtLeast(b, a)
  PROVE  content(a) = content(b)
BY DEF AtLeast, NewerContent, content, Entry

(* Merging an entry that carries a value (getMergeType's four tie-breakers) keeps the newer content. *)
LEMMA MergeValueEntry ==
  ASSUME NEW cur \in StoredEntry, NEW e \in Entry, NEW sender,
         e.hasValue, e.version > 0, isValidTtl(e)
  PROVE  /\ MergeEntry(cur, e, sender) \in StoredEntry
         /\ AtLeast(MergeEntry(cur, e, sender), e)
         /\ AtLeast(MergeEntry(cur, e, sender), cur)
         /\ content(MergeEntry(cur, e, sender)) \in {content(cur), content(e)}
         /\ MergeEntry(cur, e, sender) = cur \/ Newer(MergeEntry(cur, e, sender), cur)
<1> DEFINE m == MergeEntry(cur, e, sender)
<1>1. e # Absent /\ cur \in Entry
  BY StoredEntryIsEntry DEF Absent
<1>2. getMergeType(e, cur, sender) = valueMergeType(e, cur)
  BY DEF getMergeType, isTtlUpdate
<1>3. CASE valueMergeType(e, cur) = "UPDATE_ALL_NEEDED"
  <2>1. m = e
    BY <1>1, <1>2, <1>3 DEF MergeEntry, IsMerged
  <2>2. NewerContent(e, cur)
    BY <1>1, <1>3 DEF valueMergeType, isValidVersion, NewerContent, Entry
  <2> QED
    BY <2>1, <2>2 DEF AtLeast, Newer, content, StoredEntry
<1>4. CASE valueMergeType(e, cur) = "UPDATE_TTL_NEEDED"
  <2>1. m = updateKvStoreTtl(cur, e)
    BY <1>1, <1>2, <1>4 DEF MergeEntry, IsMerged
  <2>2. content(cur) = content(e) /\ e.ttlVersion > cur.ttlVersion
    BY <1>1, <1>4 DEF valueMergeType, isValidVersion, content, Entry
  <2>3. m \in StoredEntry /\ content(m) = content(cur) /\ m.ttlVersion = e.ttlVersion
    <3>1. cur.hasValue /\ cur.version > 0
      BY <2>2 DEF StoredEntry, content, Absent
    <3> QED
      BY <1>1, <2>1, <3>1 DEF updateKvStoreTtl, Entry, StoredEntry, content
  <2> QED
    BY <2>2, <2>3 DEF AtLeast, Newer, content
<1>5. CASE valueMergeType(e, cur) = "NO_UPDATE_NEEDED"
  <2>1. m = cur
    BY <1>2, <1>5 DEF MergeEntry, IsMerged
  <2>2. NewerContent(cur, e) \/ content(cur) = content(e)
    BY <1>1, <1>5 DEF valueMergeType, isValidVersion, NewerContent, content, Entry
  <2> QED
    BY <2>1, <2>2 DEF AtLeast
<1> QED
  BY <1>3, <1>4, <1>5 DEF valueMergeType

(* Merging a ttl update (no value) leaves the content alone and never lowers the ttl version. *)
LEMMA MergeTtlEntry ==
  ASSUME NEW cur \in StoredEntry, NEW e \in Entry, NEW sender, ~e.hasValue
  PROVE  /\ MergeEntry(cur, e, sender) \in StoredEntry
         /\ content(MergeEntry(cur, e, sender)) = content(cur)
         /\ MergeEntry(cur, e, sender) = cur \/ Newer(MergeEntry(cur, e, sender), cur)
         /\ cur = Absent => MergeEntry(cur, e, sender) = Absent
<1>1. getMergeType(e, cur, sender) = ttlMergeType(e, cur, sender)
  BY DEF getMergeType, isTtlUpdate
<1>2. ttlMergeType(e, cur, sender) # "UPDATE_ALL_NEEDED"
  BY DEF ttlMergeType
<1>3. CASE IsMerged(cur, e, sender)
  <2>1. MergeEntry(cur, e, sender) = updateKvStoreTtl(cur, e)
    BY <1>1, <1>2, <1>3 DEF MergeEntry
  <2>2. cur # Absent /\ e.ttlVersion > cur.ttlVersion
    BY <1>1, <1>2, <1>3 DEF IsMerged, ttlMergeType, isResyncNeeded
  <2>3. cur \in Entry /\ cur.hasValue /\ cur.version > 0
    BY <2>2 DEF StoredEntry
  <2> QED
    BY <2>1, <2>2, <2>3 DEF updateKvStoreTtl, Entry, StoredEntry, content, Newer
<1>4. CASE ~IsMerged(cur, e, sender)
  BY <1>4 DEF MergeEntry
<1> QED
  BY <1>3, <1>4

(* Whatever arrives, a store goes on holding a proper entry, and never an older one. *)
LEMMA MergeAnyEntry ==
  ASSUME NEW cur \in StoredEntry, NEW e \in Entry, NEW sender
  PROVE  /\ MergeEntry(cur, e, sender) \in StoredEntry
         /\ MergeEntry(cur, e, sender) = cur \/ Newer(MergeEntry(cur, e, sender), cur)
<1>1. CASE ~e.hasValue
  BY <1>1, MergeTtlEntry
<1>2. CASE e.hasValue /\ e.version > 0 /\ isValidTtl(e)
  BY <1>2, MergeValueEntry
<1>3. CASE e.hasValue /\ ~(e.version > 0)
  <2>1. getMergeType(e, cur, sender) = "NO_UPDATE_NEEDED"
    BY <1>3 DEF getMergeType, isTtlUpdate, valueMergeType, isValidVersion
  <2> QED
    BY <2>1 DEF MergeEntry, IsMerged
<1>4. CASE ~isValidTtl(e)
  BY <1>4 DEF MergeEntry, IsMerged
<1> QED
  BY <1>1, <1>2, <1>3, <1>4 DEF Entry

(* An update that carries a value is announced only if it is one a store may hold. *)
LEMMA MergedValueIsStored ==
  ASSUME NEW cur, NEW e \in Entry, NEW sender, IsMerged(cur, e, sender), e.hasValue
  PROVE  e \in StoredEntry
BY DEF IsMerged, getMergeType, isTtlUpdate, valueMergeType, isValidVersion, StoredEntry, Entry

(* Only ttl updates reveal an inconsistency (isResyncNeeded). *)
LEMMA ValuesAreConsistent ==
  ASSUME NEW cur, NEW e, NEW sender, e.hasValue
  PROVE  getMergeType(e, cur, sender) # "RESYNC_NEEDED"
BY DEF getMergeType, isTtlUpdate, valueMergeType

=============================================================================
