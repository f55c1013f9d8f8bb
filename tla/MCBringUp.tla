------------------------------- MODULE MCBringUp -------------------------------
(***************************************************************************)
(* What a node waits for when it comes up, under the fairness of each      *)
(* part: the stores of three nodes in a line agree, and the initial sync   *)
(* with the peers LinkMonitor announces is signalled.  `part` says which a *)
(* behaviour is about; the other part stays as it starts.                  *)
(***************************************************************************)
EXTENDS MCKvStoreSync, MCKvStoreInit

VARIABLE part

bringUpVars == <<vars, startVars, part>>

BringUpInit ==
  /\ part \in {"stores", "start"}
  /\ Init
  /\ StartInit
  /\ part = "stores" => kvStoreSyncTimer

BringUpNext ==
  \/ part = "stores" /\ Next /\ UNCHANGED <<startVars, part>>
  \/ part = "start" /\ StartNext /\ UNCHANGED <<vars, part>>

Starting(A) == part = "start" /\ A

(* FairSpec and StartFairSpec, each of its part. *)
BringUpSpec ==
  /\ BringUpInit
  /\ [][BringUpNext]_bringUpVars
  /\ WF_vars(part = "stores" /\ System)
  /\ WF_startVars(Starting(NeighborDiscovered /\ UNCHANGED kvVars))
  /\ WF_startVars(Starting(ProcessPeerUpdates))
  /\ WF_startVars(Starting(KvStoreSyncTimeout))
  /\ \A a \in Areas, n \in Neighbors :
       /\ WF_startVars(Starting(requestThriftPeerSync(a, n)))
       /\ WF_startVars(Starting(processThriftSuccess(a, n)))

(* EventuallyConsistent, of the stores: requestThriftPeerSync, finalizeFullSync and flooding *)
(* bring every store to what its neighbours have once writes and failures stop.              *)
StoresAgree == part = "stores" => EventuallyConsistent

(* SyncedUnlessNeighborsGo, of the start: initialKvStoreDbSynced signals KVSTORE_SYNCED,  *)
(* with or without peers, with calls that fail and with or without the configured limit.  *)
StartCompletes == part = "start" => SyncedUnlessNeighborsGo
================================================================================
