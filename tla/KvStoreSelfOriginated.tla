------------------------- MODULE KvStoreSelfOriginated -------------------------
(***************************************************************************)
(* Keys a node originates itself (openr/kvstore/KvStore-inl.h:             *)
(* persistSelfOriginatedKey, setSelfOriginatedKey, unsetSelfOriginatedKey, *)
(* eraseSelfOriginatedKey, advertiseSelfOriginatedKeys,                    *)
(* unsetPendingSelfOriginatedKeys, advertiseTtlUpdates,                    *)
(* processPublicationForSelfOriginatedKey) and the flood rate limiter      *)
(* (floodPublication, bufferPublication, floodBufferedUpdates).            *)
(*                                                                         *)
(* One store; the rest of the network appears as publications received for *)
(* the same keys.  Everything runs in the store's event base, so an action *)
(* is one callback.  The ttl is abstracted to the fact that a key nobody   *)
(* refreshes may expire, and a backoff to the keys that may be tried now.  *)
(***************************************************************************)
EXTENDS KvStoreMerge

CONSTANTS Me, Other,        \* node ids, positive numbers
          OwnKeys,
          Values,           \* values that are persisted or set, numbers
          Marker,           \* the value unset writes, a number
          RemoteEntries,    \* the entries the rest of the network may send
          Requests,         \* which of "persist", "set", "unset", "erase" are made
          FloodLimited,     \* flood_rate is configured
          MaxRequests, MaxRemote, MaxOwnTtlVersion   \* bounds

ASSUME OwnNodesAssumption == Me \in Nat \ {NoNode} /\ Other \in Nat \ {NoNode, Me}
ASSUME ValuesAssumption == Values \subseteq Nat /\ Marker \in Nat \ Values
ASSUME RemoteAssumption == RemoteEntries \subseteq StoredEntry \ {Absent}

VARIABLES ownStore,
          selfOriginated,      \* selfOriginatedKeyVals_: the value, or Absent
          keyBackoff,          \* the self-originated keys that have a keyBackoff
          keysToAdvertise,
          advertiseTimer,      \* the throttle or advertiseKeyValsTimer_ is scheduled
          keysToUnset,         \* key -> the value to set, or Absent
          unsetTimer,          \* unsetSelfOriginatedKeysThrottled_ is scheduled
          publicationBuffer,   \* keys whose flooding the rate limiter put off
          publicationTimer,    \* pendingPublicationTimer_ is scheduled
          aborted,             \* a CHECK has failed
          wanted,              \* history: the last request made for a key
          requests, remote     \* counters for the bounds

selfVars == <<ownStore, selfOriginated, keyBackoff, keysToAdvertise, advertiseTimer, keysToUnset,
          unsetTimer, publicationBuffer, publicationTimer, aborted, wanted, requests, remote>>

NoOwnKeyVals == [k \in OwnKeys |-> Absent]

NoRequest == [kind |-> "none", value |-> 0]

SelfTypeOK ==
  /\ ownStore \in [OwnKeys -> StoredEntry]
  /\ selfOriginated \in [OwnKeys -> StoredEntry]
  /\ keysToUnset \in [OwnKeys -> StoredEntry]
  /\ keysToAdvertise \subseteq KeysOf(selfOriginated)
  /\ keyBackoff \subseteq KeysOf(selfOriginated)
  /\ publicationBuffer \subseteq OwnKeys
  /\ advertiseTimer \in BOOLEAN /\ unsetTimer \in BOOLEAN /\ publicationTimer \in BOOLEAN
  /\ aborted \in BOOLEAN

SelfInit ==
  /\ ownStore = NoOwnKeyVals
  /\ selfOriginated = NoOwnKeyVals
  /\ keyBackoff = {}
  /\ keysToAdvertise = {}
  /\ advertiseTimer = FALSE
  /\ keysToUnset = NoOwnKeyVals
  /\ unsetTimer = FALSE
  /\ publicationBuffer = {}
  /\ publicationTimer = FALSE
  /\ aborted = FALSE
  /\ wanted = [k \in OwnKeys |-> NoRequest]
  /\ requests = 0
  /\ remote = 0

Value(version, value) ==
  [version |-> version, originatorId |-> Me, value |-> value, hasValue |-> TRUE,
   ttlVersion |-> 0, ttl |-> 1]

-----------------------------------------------------------------------------
(***************************************************************************)
(* The effects of a publication on the cache of self-originated keys, the  *)
(* keys to advertise and the rate limiter's buffer, as a record.           *)
(***************************************************************************)
Cache == [self |-> selfOriginated, advertise |-> keysToAdvertise, timer |-> advertiseTimer,
          buffer |-> publicationBuffer, bufferTimer |-> publicationTimer]

(* Mutant: a value of the same version does not contradict. *)
Overrides_HigherOnly(rcvd, curr) ==
  rcvd.hasValue /\ curr # Absent /\ curr.version < rcvd.version

(* The received value beats or contradicts the one this node originates. *)
Overrides(rcvd, curr) ==
  /\ rcvd.hasValue
  /\ curr # Absent
  /\ \/ curr.version < rcvd.version
     \/ /\ curr.version = rcvd.version
        /\ rcvd.originatorId # Me \/ curr.value # rcvd.value

(* Mutant: an overridden key is put among the keys to advertise, but nothing is scheduled. *)
processPublicationForSelfOriginatedKey_NoTimer(cache, pub) ==
  LET overridden == {k \in OwnKeys : Overrides(pub[k], cache.self[k])}
  IN  [cache EXCEPT
         !.self = [k \in OwnKeys |-> IF k \in overridden
                                  THEN [@[k] EXCEPT !.version = pub[k].version + 1, !.ttlVersion = 0]
                                  ELSE @[k]],
         !.advertise = @ \cup overridden]

processPublicationForSelfOriginatedKey(cache, pub) ==
  LET overridden == {k \in OwnKeys : Overrides(pub[k], cache.self[k])}
      refreshed == {k \in KeysOf(cache.self) \ overridden :
                      /\ pub[k].hasValue
                      /\ pub[k].version = cache.self[k].version
                      /\ pub[k].ttlVersion > cache.self[k].ttlVersion}
  IN  IF KeysOf(cache.self) = {} THEN cache
      ELSE [cache EXCEPT
              !.self = [k \in OwnKeys |->
                          CASE k \in overridden -> [@[k] EXCEPT !.version = pub[k].version + 1,
                                                                !.ttlVersion = 0]
                            [] k \in refreshed  -> [@[k] EXCEPT !.ttlVersion = pub[k].ttlVersion]
                            [] OTHER            -> @[k]],
              !.advertise = @ \cup overridden,
              !.timer = TRUE]

(* What was buffered is flooded as it now is in the store. *)
floodBufferedUpdates(cache, store) ==
  processPublicationForSelfOriginatedKey(
    [cache EXCEPT !.buffer = {}],
    [k \in OwnKeys |-> IF k \in cache.buffer THEN store[k] ELSE Absent])

bufferPublication(cache, keys) == [cache EXCEPT !.buffer = @ \cup keys]

(* token: the rate limiter lets this publication through. *)
floodOwnPublication(cache, store, pub, expiredKeys, token) ==
  IF FloodLimited /\ ~token
    THEN [bufferPublication(cache, KeysOf(pub) \cup expiredKeys) EXCEPT !.bufferTimer = TRUE]
  ELSE IF cache.buffer # {}
    THEN floodBufferedUpdates(bufferPublication(cache, KeysOf(pub) \cup expiredKeys), store)
  ELSE processPublicationForSelfOriginatedKey(cache, pub)

(* mergePublication: the new store and cache. *)
mergeOwnPublication(cache, pub, token) ==
  LET result == mergeKeyValues(ownStore, pub, NoNode)
  IN  [store |-> result.store,
       cache |-> IF KeysOf(result.keyVals) = {} THEN cache
                 ELSE floodOwnPublication(cache, result.store, result.keyVals, {}, token)]

Commit(cache) ==
  \E c \in {cache} :
    /\ selfOriginated' = c.self
    /\ keysToAdvertise' = c.advertise
    /\ advertiseTimer' = c.timer
    /\ publicationBuffer' = c.buffer
    /\ publicationTimer' = c.bufferTimer

Request(kind, k, value) ==
  /\ ~aborted
  /\ kind \in Requests
  /\ requests < MaxRequests
  /\ requests' = requests + 1
  /\ wanted' = [wanted EXCEPT ![k] = [kind |-> kind, value |-> value]]

-----------------------------------------------------------------------------
(***************************************************************************)
(* Key-value requests (processKeyValueRequest).                            *)
(***************************************************************************)
PersistSelfOriginatedKey(k, value) ==
  LET cached == selfOriginated[k]
      known == IF cached # Absent THEN cached ELSE ownStore[k]
      override == known = Absent \/ known.originatorId # Me \/ known.value # value
      new == IF override THEN Value(known.version + 1, value) ELSE known
      unchanged == cached # Absent /\ cached.value = value
  IN  /\ Request("persist", k, value)
      /\ IF unchanged
           THEN UNCHANGED <<selfOriginated, keyBackoff, keysToAdvertise, advertiseTimer>>
           ELSE /\ selfOriginated' = [selfOriginated EXCEPT ![k] = new]
                /\ keyBackoff' = keyBackoff \cup {k}
                /\ keysToAdvertise' = keysToAdvertise \cup (IF override THEN {k} ELSE {})
                /\ advertiseTimer' = TRUE
      /\ UNCHANGED <<ownStore, keysToUnset, unsetTimer, publicationBuffer, publicationTimer, aborted, remote>>

(* The request asks for version 0: one more than the latest known. *)
SetSelfOriginatedKey(k, value, token) ==
  LET e == Value(ownStore[k].version + 1, value)
      merged == mergeOwnPublication([Cache EXCEPT !.self[k] = e], [NoOwnKeyVals EXCEPT ![k] = e], token)
  IN  /\ Request("set", k, value)
      /\ ownStore' = merged.store
      /\ Commit(merged.cache)
      /\ keyBackoff' = keyBackoff \ {k}
      /\ UNCHANGED <<keysToUnset, unsetTimer, aborted, remote>>

eraseSelfOriginatedKey(k) ==
  /\ selfOriginated' = [selfOriginated EXCEPT ![k] = Absent]
  /\ keyBackoff' = keyBackoff \ {k}
  /\ keysToAdvertise' = keysToAdvertise \ {k}

EraseSelfOriginatedKey(k) ==
  /\ Request("erase", k, 0)
  /\ eraseSelfOriginatedKey(k)
  /\ UNCHANGED <<ownStore, advertiseTimer, keysToUnset, unsetTimer, publicationBuffer,
                 publicationTimer, aborted, remote>>

(* A marker that is waiting already is kept (emplace). *)
UnsetSelfOriginatedKey(k) ==
  /\ Request("unset", k, Marker)
  /\ eraseSelfOriginatedKey(k)
  /\ IF ownStore[k] = Absent
       THEN UNCHANGED <<keysToUnset, unsetTimer>>
       ELSE /\ keysToUnset' = [keysToUnset EXCEPT ![k] =
                                IF @ # Absent THEN @ ELSE Value(ownStore[k].version + 1, Marker)]
            /\ unsetTimer' = TRUE
  /\ UNCHANGED <<ownStore, advertiseTimer, publicationBuffer, publicationTimer, aborted, remote>>

(***************************************************************************)
(* Timers.                                                                 *)
(***************************************************************************)
(* ready: the keys whose backoff has passed. *)
AdvertiseSelfOriginatedKeys(ready, token) ==
  /\ ~aborted
  /\ advertiseTimer
  /\ ready \subseteq keysToAdvertise
  /\ IF keysToAdvertise = {}
       THEN /\ advertiseTimer' = FALSE
            /\ UNCHANGED <<ownStore, selfOriginated, keysToAdvertise, publicationBuffer,
                           publicationTimer, aborted>>
     ELSE IF ~ (keysToAdvertise \subseteq keyBackoff)
       THEN /\ aborted' = TRUE
            /\ UNCHANGED <<ownStore, selfOriginated, keysToAdvertise, advertiseTimer,
                           publicationBuffer, publicationTimer>>
       ELSE \E merged \in {mergeOwnPublication([Cache EXCEPT !.timer = FALSE],
                [k \in OwnKeys |-> IF k \in ready THEN selfOriginated[k] ELSE Absent], token)} :
              /\ ownStore' = merged.store
              /\ Commit([merged.cache EXCEPT !.advertise = @ \ ready, !.timer = TRUE])
              /\ UNCHANGED aborted
  /\ UNCHANGED <<keyBackoff, keysToUnset, unsetTimer, wanted, requests, remote>>

(* keys: the self-originated keys whose ttl is to be refreshed. *)
advertiseTtlUpdates(keys, token) ==
  LET self == [k \in OwnKeys |-> IF k \in keys THEN [selfOriginated[k] EXCEPT !.ttlVersion = @ + 1]
                                 ELSE selfOriginated[k]]
      merged == mergeOwnPublication([Cache EXCEPT !.self = self],
                                    [k \in OwnKeys |-> IF k \in keys THEN [self[k] EXCEPT !.hasValue = FALSE]
                                                       ELSE Absent], token)
  IN  /\ ~aborted
      /\ keys # {}
      /\ \A k \in keys : selfOriginated[k] # Absent /\ selfOriginated[k].ttlVersion < MaxOwnTtlVersion
      /\ ownStore' = merged.store
      /\ Commit(merged.cache)
      /\ UNCHANGED <<keyBackoff, keysToUnset, unsetTimer, aborted, wanted, requests, remote>>

UnsetPendingSelfOriginatedKeys(token) ==
  LET pub == [k \in OwnKeys |-> IF selfOriginated[k] = Absent THEN keysToUnset[k] ELSE Absent]
  IN  /\ ~aborted
      /\ unsetTimer
      /\ unsetTimer' = FALSE
      /\ keysToUnset' = NoOwnKeyVals
      /\ \E merged \in {mergeOwnPublication(Cache, pub, token)} :
           ownStore' = merged.store /\ Commit(merged.cache)
      /\ UNCHANGED <<keyBackoff, aborted, wanted, requests, remote>>

(* pendingPublicationTimer_; without a token it is scheduled again. *)
FloodBufferedUpdates ==
  /\ ~aborted
  /\ publicationTimer
  /\ Commit([floodBufferedUpdates(Cache, ownStore) EXCEPT !.bufferTimer = FALSE])
  /\ UNCHANGED <<ownStore, keyBackoff, keysToUnset, unsetTimer, aborted, wanted, requests, remote>>

(***************************************************************************)
(* The network: a publication for a key arrives, and a key that nobody     *)
(* refreshes expires (cleanupTtlCountdownQueue).                           *)
(***************************************************************************)
ReceivePublication(k, e, token) ==
  LET merged == mergeOwnPublication(Cache, [NoOwnKeyVals EXCEPT ![k] = e], token)
  IN  /\ ~aborted
      /\ remote < MaxRemote
      /\ remote' = remote + 1
      /\ ownStore' = merged.store
      /\ Commit(merged.cache)
      /\ UNCHANGED <<keyBackoff, keysToUnset, unsetTimer, aborted, wanted, requests>>

ExpireKey(k, token) ==
  /\ ~aborted
  /\ ownStore[k] # Absent
  /\ selfOriginated[k] = Absent
  /\ ownStore' = [ownStore EXCEPT ![k] = Absent]
  /\ Commit(floodOwnPublication(Cache, ownStore', NoOwnKeyVals, {k}, token))
  /\ UNCHANGED <<keyBackoff, keysToUnset, unsetTimer, aborted, wanted, requests, remote>>

Tokens == IF FloodLimited THEN BOOLEAN ELSE {TRUE}

Advertise == \E token \in Tokens : AdvertiseSelfOriginatedKeys(keysToAdvertise, token)

UnsetPending == \E token \in Tokens : UnsetPendingSelfOriginatedKeys(token)

SelfNext ==
  \/ \E k \in OwnKeys, value \in Values : PersistSelfOriginatedKey(k, value)
  \/ \E k \in OwnKeys, value \in Values, token \in Tokens : SetSelfOriginatedKey(k, value, token)
  \/ \E k \in OwnKeys : EraseSelfOriginatedKey(k)
  \/ \E k \in OwnKeys : UnsetSelfOriginatedKey(k)
  \/ \E ready \in SUBSET keysToAdvertise, token \in Tokens : AdvertiseSelfOriginatedKeys(ready, token)
  \/ \E keys \in SUBSET OwnKeys, token \in Tokens : advertiseTtlUpdates(keys, token)
  \/ UnsetPending
  \/ FloodBufferedUpdates
  \/ \E k \in OwnKeys, e \in RemoteEntries, token \in Tokens : ReceivePublication(k, e, token)
  \/ \E k \in OwnKeys, token \in Tokens : ExpireKey(k, token)

SelfSpec == SelfInit /\ [][SelfNext]_selfVars

(* Timers fire, and a backoff passes; the bucket of the rate limiter fills. *)
SelfFairSpec == SelfSpec /\ WF_selfVars(Advertise) /\ WF_selfVars(UnsetPending) /\ WF_selfVars(FloodBufferedUpdates)

-----------------------------------------------------------------------------
(***************************************************************************)
(* processPublicationForSelfOriginatedKey, advertiseSelfOriginatedKeys:    *)
(* between callbacks, a key this node originates is in the store as it is  *)
(* in the cache, or is waiting to be advertised or to be flooded.          *)
(***************************************************************************)
StoredOrPending ==
  \A k \in KeysOf(selfOriginated) \ publicationBuffer :
    k \in keysToAdvertise \/ content(ownStore[k]) = content(selfOriginated[k])

(***************************************************************************)
(* persistSelfOriginatedKey, unsetSelfOriginatedKey, bufferPublication:    *)
(* whatever waits for a timer has one scheduled.                           *)
(***************************************************************************)
NothingWaitsForNoTimer ==
  /\ keysToAdvertise # {} => advertiseTimer
  /\ KeysOf(keysToUnset) # {} => unsetTimer
  /\ publicationBuffer # {} => publicationTimer

(***************************************************************************)
(* persistSelfOriginatedKey (KvStore.h: "This is an authoritative call -   *)
(* if someone else advertises the same key, KvStore will try to win over   *)
(* it by setting key-value with higher version"): a value that stays       *)
(* persisted while the process runs ends up in the store, whatever the     *)
(* network sends meanwhile.                                                *)
(***************************************************************************)
PersistedWins ==
  \A k \in OwnKeys, value \in Values :
    <>[](~aborted /\ wanted[k] = [kind |-> "persist", value |-> value])
      => <>[](ownStore[k].value = value /\ ownStore[k].originatorId = Me)

(***************************************************************************)
(* The node's own keys between two callbacks: each is stored as wanted or  *)
(* waits for a timer that is scheduled (persistSelfOriginatedKey,          *)
(* processPublicationForSelfOriginatedKey).                                *)
(***************************************************************************)
SelfInvariant ==
  /\ SelfTypeOK
  /\ StoredOrPending
  /\ NothingWaitsForNoTimer

=============================================================================
