-------------------------- MODULE ProvisionProofs --------------------------
(***************************************************************************)
(* What the steps of CreateVolume and DeleteVolume keep, whatever fails    *)
(* between two API calls.  SharedProofs and VolumeLifeProofs build on it.  *)
(***************************************************************************)
EXTENDS Provision, TLAPS

\* Where a call is says what is asked for and what became of it so far.
CallInv ==
  /\ pc \in CreatePCs => pv = "none"
  /\ pc \in DeletePCs => pv = "released"
  /\ pc \in {"getVRR", "createVRR", "checkVRR"} => kind = "restore"
  /\ pc \in {"build", "createPVC", "waitName", "createNetFS"} => kind # "restore"
  /\ pc \in {"waitName", "createNetFS", "getNetFS", "deleteNetFS"} => kind \in Shares
  /\ pc = "waitName" => pvc \in {"pending", "bound"}
  /\ pc = "createNetFS" => pvc = "bound"
  /\ pc = "created" =>
       /\ pvc \in {"pending", "bound"}
       /\ kind \in Shares \cup {"restore"} => pvc = "bound"
       /\ kind = "restore" => vrr = "ready"
       /\ kind \in Shares => netfs # "none"
  /\ pc \in {"getPVC", "getNetFS", "deleteNetFS", "deletePVC", "deleted"} =>
       vrr = "none"
  /\ pc \in {"deletePVC", "deleted"} => netfs = "none"
  /\ pc = "deleted" => pvc \in {"none", "deleting"} \/ kind = "restore"

\* Which host objects a volume has, besides.
ObjectInv ==
  /\ kind # "restore" => vrr = "none"
  /\ kind \notin Shares => netfs = "none"
  /\ kind = "restore" /\ pv \in {"none", "provisioned"} =>
       (vrr = "ready" /\ pvc = "bound") \/ (vrr # "ready" /\ pvc = "none")
  /\ pv = "none" => pvc # "deleting"
  /\ pv = "released" => vrr # "restoring"
  /\ pv = "released" /\ pvc \in {"none", "deleting"} => netfs = "none"

\* What concerns the volume alone.
VolumeInv ==
  ProvisionTypeOK /\ CallInv /\ ObjectInv /\ ProvisionedIsBacked /\ DeletedLeavesNothing

\* The invariant holds of a claim that nothing was done for.
LEMMA VolumeInit == ProvisionInit => VolumeInv
  BY DEF ProvisionInit, VolumeInv, ProvisionTypeOK, CallInv, ObjectInv,
    ProvisionedIsBacked, DeletedLeavesNothing, Kinds, Shares, CreatePCs, DeletePCs

----------------------------------------------------------------------------
(* CreateVolume and DeleteVolume                                           *)

\* Every step of CreateVolume keeps VolumeInv, whatever earlier calls have left.
LEMMA CreateKeeps ==
  ASSUME VolumeInv, StorageClassReadable, CreateVolume \/ CreateStep
  PROVE  VolumeInv'
<1> USE DEF VolumeInv, ProvisionTypeOK, CallInv, ObjectInv, ProvisionedIsBacked,
      DeletedLeavesNothing, Kinds, Shares, CreatePCs, DeletePCs, guest, host, Goto, End
<1>1. CASE CreateVolume
  BY <1>1 DEF CreateVolume
<1>2. CASE BuildHostPVCFromScratch
  BY <1>2 DEF BuildHostPVCFromScratch
<1>3. CASE BuildHostPVCFromSnap
  BY <1>3 DEF BuildHostPVCFromSnap
<1>4. CASE CreateHostPVC
  BY <1>4 DEF CreateHostPVC, IsLHRWXVolume
<1>5. CASE WaitForLHVolumeName
  BY <1>5 DEF WaitForLHVolumeName
<1>6. CASE CreateNetworkFilesystem
  BY <1>6 DEF CreateNetworkFilesystem
<1>7. CASE GetVolumeRemoteRestore
  BY <1>7 DEF GetVolumeRemoteRestore
<1>8. CASE CreateVolumeRemoteRestore
  BY <1>8 DEF CreateVolumeRemoteRestore
<1>9. CASE CheckVolumeRemoteRestoreReadiness
  BY <1>9 DEF CheckVolumeRemoteRestoreReadiness
<1>10. CASE Created
  BY <1>10 DEF Created
<1> QED
  BY <1>1, <1>2, <1>3, <1>4, <1>5, <1>6, <1>7, <1>8, <1>9, <1>10, Zenon DEF CreateStep

\* So does every step of DeleteVolume.
LEMMA DeleteKeeps ==
  ASSUME VolumeInv, StorageClassReadable, DeleteVolume \/ DeleteStep
  PROVE  VolumeInv'
<1> USE DEF VolumeInv, ProvisionTypeOK, CallInv, ObjectInv, ProvisionedIsBacked,
      DeletedLeavesNothing, Kinds, Shares, CreatePCs, DeletePCs, guest, host, Goto, End
<1>1. CASE DeleteVolume
  BY <1>1 DEF DeleteVolume
<1>2. CASE FindVolumeRemoteRestore
  BY <1>2 DEF FindVolumeRemoteRestore
<1>3. CASE DeleteVolumeRemoteRestore
  BY <1>3 DEF DeleteVolumeRemoteRestore
<1>4. CASE GetHostPVC
  BY <1>4 DEF GetHostPVC, IsLHRWXVolume
<1>5. CASE GetNetworkFilesystem
  BY <1>5 DEF GetNetworkFilesystem
<1>6. CASE DeleteNetworkFilesystem
  BY <1>6 DEF DeleteNetworkFilesystem
<1>7. CASE DeleteHostPVC
  BY <1>7 DEF DeleteHostPVC
<1>8. CASE Deleted
  BY <1>8 DEF Deleted
<1> QED
  BY <1>1, <1>2, <1>3, <1>4, <1>5, <1>6, <1>7, <1>8, Zenon DEF DeleteStep

\* A failure, the guest cluster and the host's controllers keep it as well.
LEMMA OthersKeep ==
  ASSUME VolumeInv, ProvisionFail \/ DeleteClaim \/ Release \/ HostStep
  PROVE  VolumeInv'
<1> USE DEF VolumeInv, ProvisionTypeOK, CallInv, ObjectInv, ProvisionedIsBacked,
      DeletedLeavesNothing, Kinds, Shares, CreatePCs, DeletePCs, guest, host, End
<1>1. CASE ProvisionFail
  <2>1. inDoubt' \in BOOLEAN
    BY <1>1, Zenon DEF ProvisionFail
  <2>2. pc' = "idle" /\ UNCHANGED <<guest, host>>
    BY <1>1, Zenon DEF ProvisionFail
  <2> QED
    BY <2>1, <2>2
<1>2. CASE DeleteClaim
  <2>1. claim' \in BOOLEAN /\ UNCHANGED <<kind, pv, inDoubt, host, pc>>
    BY <1>2, Zenon DEF DeleteClaim
  <2> QED
    BY <2>1
<1>3. CASE Release
  BY <1>3 DEF Release
<1>4. CASE BindPVC
  BY <1>4 DEF BindPVC
<1>5. CASE RemovePVC
  BY <1>5 DEF RemovePVC
<1>6. CASE RestorePVC
  BY <1>6 DEF RestorePVC
<1> QED
  BY <1>1, <1>2, <1>3, <1>4, <1>5, <1>6, Zenon DEF HostStep

----------------------------------------------------------------------------
(* Types, which need no assumption                                         *)

\* Every step of CreateVolume and DeleteVolume keeps the types, even when the
\* StorageClass cannot be read.
LEMMA ProvisionTypes ==
  ASSUME ProvisionTypeOK, CreateVolume \/ CreateStep \/ DeleteVolume \/ DeleteStep
  PROVE  ProvisionTypeOK'
<1> USE DEF ProvisionTypeOK, Kinds, CreatePCs, DeletePCs, guest, host, Goto, End
<1>1. CASE CreateVolume \/ BuildHostPVCFromScratch \/ BuildHostPVCFromSnap
  BY <1>1 DEF CreateVolume, BuildHostPVCFromScratch, BuildHostPVCFromSnap
<1>2. CASE CreateHostPVC
  BY <1>2 DEF CreateHostPVC
<1>3. CASE WaitForLHVolumeName \/ CreateNetworkFilesystem \/ Created
  BY <1>3 DEF WaitForLHVolumeName, CreateNetworkFilesystem, Created
<1>4. CASE GetVolumeRemoteRestore \/ CreateVolumeRemoteRestore
  BY <1>4 DEF GetVolumeRemoteRestore, CreateVolumeRemoteRestore
<1>5. CASE CheckVolumeRemoteRestoreReadiness
  BY <1>5 DEF CheckVolumeRemoteRestoreReadiness
<1>6. CASE DeleteVolume \/ FindVolumeRemoteRestore \/ DeleteVolumeRemoteRestore
  BY <1>6 DEF DeleteVolume, FindVolumeRemoteRestore, DeleteVolumeRemoteRestore
<1>7. CASE GetHostPVC \/ GetNetworkFilesystem
  BY <1>7 DEF GetHostPVC, GetNetworkFilesystem
<1>8. CASE DeleteNetworkFilesystem \/ DeleteHostPVC \/ Deleted
  BY <1>8 DEF DeleteNetworkFilesystem, DeleteHostPVC, Deleted
<1> QED
  BY <1>1, <1>2, <1>3, <1>4, <1>5, <1>6, <1>7, <1>8, Zenon DEF CreateStep, DeleteStep

\* So do failures, the guest cluster and the host's controllers.
LEMMA ProvisionTypesOthers ==
  ASSUME ProvisionTypeOK, ProvisionFail \/ DeleteClaim \/ Release \/ HostStep
  PROVE  ProvisionTypeOK'
<1> USE DEF ProvisionTypeOK, guest, host, End
<1>1. CASE ProvisionFail
  <2>1. inDoubt' \in BOOLEAN /\ pc' = "idle" /\ UNCHANGED <<guest, host>>
    BY <1>1, Zenon DEF ProvisionFail
  <2> QED
    BY <2>1
<1>2. CASE DeleteClaim
  <2>1. claim' \in BOOLEAN /\ UNCHANGED <<kind, pv, inDoubt, host, pc>>
    BY <1>2, Zenon DEF DeleteClaim
  <2> QED
    BY <2>1
<1>3. CASE Release
  BY <1>3 DEF Release
<1>4. CASE BindPVC \/ RemovePVC \/ RestorePVC
  BY <1>4 DEF BindPVC, RemovePVC, RestorePVC
<1> QED
  BY <1>1, <1>2, <1>3, <1>4, Zenon DEF HostStep
----------------------------------------------------------------------------
(* VolumeContract                                                          *)

\* A claim that nothing was done for has no host object.
LEMMA ContractInit == ProvisionInit => Contract!Init
  BY DEF ProvisionInit, Contract!Init, Objects

\* CreateVolume only adds what the kind of volume needs, and answers OK when it
\* is all there.
LEMMA CreateContract ==
  ASSUME VolumeInv, StorageClassReadable, CreateVolume \/ CreateStep
  PROVE  [Contract!Next]_(Contract!vars)
<1> USE DEF VolumeInv, ProvisionTypeOK, CallInv, ObjectInv, CreatePCs, guest, host,
      Goto, End, Objects, Shares, Contract!Shares
<1>1. CASE \/ CreateVolume \/ BuildHostPVCFromScratch \/ BuildHostPVCFromSnap
           \/ WaitForLHVolumeName \/ GetVolumeRemoteRestore
           \/ CheckVolumeRemoteRestoreReadiness
  BY <1>1 DEF CreateVolume, BuildHostPVCFromScratch, BuildHostPVCFromSnap,
    WaitForLHVolumeName, GetVolumeRemoteRestore, CheckVolumeRemoteRestoreReadiness,
    Contract!vars
<1>2. CASE CreateHostPVC
  BY <1>2 DEF CreateHostPVC, Contract!vars, Contract!Next, Contract!Add, Contract!Needed
<1>3. CASE CreateNetworkFilesystem
  BY <1>3 DEF CreateNetworkFilesystem, Contract!Next, Contract!Add, Contract!Needed
<1>4. CASE CreateVolumeRemoteRestore
  BY <1>4 DEF CreateVolumeRemoteRestore, Contract!vars, Contract!Next, Contract!Add,
    Contract!Needed
<1>5. CASE Created
  BY <1>5 DEF Created, Contract!Next, Contract!Provision, Contract!Needed, Kinds
<1> QED
  BY <1>1, <1>2, <1>3, <1>4, <1>5, Zenon DEF CreateStep

\* DeleteVolume only removes, and answers OK when nothing is left but what the
\* host removes by itself.
LEMMA DeleteContract ==
  ASSUME VolumeInv, DeleteVolume \/ DeleteStep
  PROVE  [Contract!Next]_(Contract!vars)
<1> USE DEF VolumeInv, ProvisionTypeOK, CallInv, ObjectInv, DeletePCs, guest, host,
      Goto, End, Objects
<1>1. CASE DeleteVolume \/ FindVolumeRemoteRestore \/ GetHostPVC \/ GetNetworkFilesystem
  BY <1>1 DEF DeleteVolume, FindVolumeRemoteRestore, GetHostPVC, GetNetworkFilesystem,
    Contract!vars
<1>2. CASE DeleteVolumeRemoteRestore \/ DeleteNetworkFilesystem \/ DeleteHostPVC
  BY <1>2 DEF DeleteVolumeRemoteRestore, DeleteNetworkFilesystem, DeleteHostPVC,
    Contract!Next, Contract!Remove
<1>3. CASE Deleted
  BY <1>3 DEF Deleted, Contract!Next, Contract!Delete, Contract!LeftToHost
<1> QED
  BY <1>1, <1>2, <1>3, Zenon DEF DeleteStep

\* Failures and the guest cluster leave the host objects alone; the host's
\* controllers restore a PVC before there is a PV, and remove one after it.
LEMMA OthersContract ==
  ASSUME VolumeInv, ProvisionFail \/ DeleteClaim \/ Release \/ HostStep
  PROVE  [Contract!Next]_(Contract!vars)
<1> USE DEF VolumeInv, ProvisionTypeOK, ObjectInv, ProvisionedIsBacked,
      DeletedLeavesNothing, guest, host, Objects
<1>1. CASE ProvisionFail
  <2>1. UNCHANGED <<guest, host>>
    BY <1>1, Zenon DEF ProvisionFail
  <2> QED
    BY <2>1 DEF Contract!vars
<1>2. CASE DeleteClaim
  <2>1. UNCHANGED <<kind, pv, host>>
    BY <1>2, Zenon DEF DeleteClaim
  <2> QED
    BY <2>1 DEF Contract!vars
<1>3. CASE Release
  BY <1>3 DEF Release, Contract!Next, Contract!Release
<1>4. CASE BindPVC
  BY <1>4 DEF BindPVC, Contract!vars
<1>5. CASE RemovePVC
  BY <1>5 DEF RemovePVC, Contract!vars, Contract!Next, Contract!Remove
<1>6. CASE RestorePVC
  BY <1>6 DEF RestorePVC, Contract!Next, Contract!Add, Contract!Needed, Shares,
    Contract!Shares
<1> QED
  BY <1>1, <1>2, <1>3, <1>4, <1>5, <1>6, Zenon DEF HostStep
============================================================================
