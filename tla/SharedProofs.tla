---------------------------- MODULE SharedProofs ----------------------------
(***************************************************************************)
(* Proofs about CreateVolume and DeleteVolume, together with all that      *)
(* nodes do with a shared volume: whatever fails between two API calls, a  *)
(* PV has its volume and a deleted one leaves nothing behind.  They hold   *)
(* for every number of nodes.                                              *)
(***************************************************************************)
EXTENDS SharedVolume, ProvisionProofs

\* Nodes deal with the volume as long as it is provisioned.
UseInv ==
  \A n \in Nodes :
    /\ pod[n] # "none" => claim
    /\ call[n] # "idle" => va[n] # "none"
    /\ pod[n] # "none" \/ va[n] # "none" => kind = "share" /\ pv = "provisioned"

SharedInv == TypeOK /\ VolumeInv /\ UseInv

\* There is nothing but the claim in the beginning.
LEMMA SharedInit == Init => SharedInv
  BY VolumeInit DEF Init, ProvisionInit, SharedInv, TypeOK, VolumeInv, UseInv, Calls

----------------------------------------------------------------------------
(* Types                                                                   *)

\* Every step keeps the types, whether StorageClasses can be read or not.
LEMMA SharedTypeStep ==
  ASSUME TypeOK, [Next]_vars PROVE TypeOK'
<1>0. /\ ProvisionTypeOK /\ netfs \in {"none", "Disabled", "Enabled"}
      /\ UNCHANGED volumeVars => ProvisionTypeOK'
      /\ UNCHANGED <<guest, inDoubt, pvc, vrr, pc>>
           /\ netfs' \in {"none", "Disabled", "Enabled"} => ProvisionTypeOK'
  BY DEF TypeOK, ProvisionTypeOK, volumeVars, guest
<1>1. CASE UNCHANGED vars
  BY <1>0, <1>1 DEF vars, nodeVars, TypeOK
<1>2. CASE ProvisionStep \/ GuestStep \/ (ProvisionFail /\ UNCHANGED nodeVars)
  <2>1. ProvisionTypeOK'
    BY <1>0, <1>2, ProvisionTypes, ProvisionTypesOthers, Zenon DEF ProvisionStep, GuestStep
  <2>2. UNCHANGED <<pod, va, call, indexed, fresh>> /\ (state' = state \/ state' = "Disabled")
    BY <1>2, Zenon DEF ProvisionStep, GuestStep, nodeVars
  <2> QED
    BY <2>1, <2>2 DEF TypeOK
<1>3. ASSUME NEW n \in Nodes,
             \/ ControllerPublishVolume(n) \/ ControllerUnpublishVolume(n)
             \/ CallStep(n) \/ Fail(n)
      PROVE  TypeOK'
  <2> USE <1>0 DEF TypeOK, Calls, Proceed, Write, Others
  <2>1. CASE ControllerPublishVolume(n) \/ ControllerUnpublishVolume(n) \/ Fail(n)
    BY <2>1 DEF ControllerPublishVolume, ControllerUnpublishVolume, Fail
  <2>2. CASE PublishRWXVolume(n) \/ RecreateNetworkFilesystem(n)
    BY <2>2 DEF PublishRWXVolume, RecreateNetworkFilesystem
  <2>3. CASE Enable(n) \/ Disable(n)
    BY <2>3 DEF Enable, Disable
  <2>4. CASE UnpublishRWXVolume(n) \/ CheckPods(n)
    BY <2>4 DEF UnpublishRWXVolume, CheckPods
  <2>5. CASE Published(n) \/ Unpublished(n)
    BY <2>5 DEF Published, Unpublished
  <2> QED
    BY <1>3, <2>1, <2>2, <2>3, <2>4, <2>5, Zenon DEF CallStep
<1>4. ASSUME NEW n \in Nodes,
             \/ CreatePod(n) \/ CreateVA(n) \/ DeleteVA(n)
             \/ NodeStageVolume(n) \/ NodeUnstageVolume(n) \/ IndexPodByPVC(n)
      PROVE  TypeOK'
  BY <1>0, <1>4 DEF TypeOK, CreatePod, CreateVA, DeleteVA, NodeStageVolume,
    NodeUnstageVolume, IndexPodByPVC, Guest
<1>5. CASE SwitchState \/ LoseNetworkFilesystem
  BY <1>0, <1>5 DEF TypeOK, SwitchState, LoseNetworkFilesystem, NetFS
<1> QED
  BY <1>1, <1>2, <1>3, <1>4, <1>5, Zenon DEF Next

\* The variables of Provision and SharedVolume have their types, for every
\* number of nodes and even if StorageClasses cannot be read.
THEOREM SharedTypeCorrect == Spec => []TypeOK
<1>1. Init => TypeOK
  BY DEF Init, ProvisionInit, TypeOK, ProvisionTypeOK, Kinds, Calls
<1> QED
  BY <1>1, SharedTypeStep, PTL DEF Spec

----------------------------------------------------------------------------
(* Nodes that share the volume                                             *)

\* The calls for the nodes switch the NetworkFilesystem, or create it again,
\* while the volume is provisioned; nothing else of the volume changes.
LEMMA UseKeepsVolume ==
  ASSUME SharedInv, UNCHANGED <<guest, inDoubt, pvc, vrr, pc>>,
         netfs' \in {"none", "Disabled", "Enabled"},
         netfs' = netfs \/ (kind \in Shares /\ pv = "provisioned")
  PROVE  VolumeInv'
<1> USE DEF SharedInv, VolumeInv, guest
<1>1. ProvisionTypeOK'
  BY DEF ProvisionTypeOK
<1>2. ObjectInv' /\ ProvisionedIsBacked' /\ DeletedLeavesNothing'
  BY DEF ObjectInv, ProvisionedIsBacked, DeletedLeavesNothing
<1>3. CallInv'
  BY DEF CallInv, CreatePCs, DeletePCs
<1> QED
  BY <1>1, <1>2, <1>3

\* A step of the volume's life keeps UseInv: a claim stays while pods use it, a
\* PV while it is attached.
LEMMA VolumeKeepsUse ==
  ASSUME SharedInv, VolumeInv', UNCHANGED <<pod, va, call, kind>>,
         UNCHANGED <<claim, pv>> \/ (UNCHANGED claim /\ pv # "provisioned") \/ GuestStep
  PROVE  UseInv'
<1> USE DEF SharedInv, UseInv
<1>1. CASE UNCHANGED <<claim, pv>>
  BY <1>1
<1>2. CASE UNCHANGED claim /\ pv # "provisioned"
  BY <1>2
<1>3. CASE GuestStep
  <2>1. CASE DeleteClaim /\ \A n \in Nodes : pod[n] = "none"
    BY <2>1 DEF DeleteClaim
  <2>2. CASE Release /\ \A n \in Nodes : va[n] = "none"
    BY <2>2 DEF Release, VolumeInv, ProvisionTypeOK
  <2> QED
    BY <1>3, <2>1, <2>2, Zenon DEF GuestStep
<1> QED
  BY <1>1, <1>2, <1>3

\* A call for a node that goes on or ends keeps the types and UseInv.
LEMMA CallKeeps ==
  ASSUME SharedInv, NEW n \in Nodes, call[n] # "idle" \/ va[n] # "none",
         NEW l \in Calls, call' = [call EXCEPT ![n] = l],
         UNCHANGED <<guest, inDoubt, pvc, vrr, pc, pod, indexed, va>>,
         UNCHANGED state, netfs' \in {"none", "Disabled", "Enabled"},
         fresh' \subseteq Nodes
  PROVE  SharedInv'
<1>1. kind = "share" /\ pv = "provisioned" /\ va[n] # "none"
  BY DEF SharedInv, UseInv
<1>2. VolumeInv'
  BY <1>1, UseKeepsVolume DEF Shares
<1>3. TypeOK'
  BY <1>2 DEF SharedInv, TypeOK, VolumeInv
<1>4. UseInv'
  BY <1>1 DEF SharedInv, TypeOK, UseInv, guest
<1> QED
  BY <1>2, <1>3, <1>4 DEF SharedInv

\* The calls of publish and unpublish keep SharedInv.
LEMMA PublishKeeps ==
  ASSUME SharedInv, NEW n \in Nodes,
         \/ ControllerPublishVolume(n) \/ ControllerUnpublishVolume(n)
         \/ CallStep(n) \/ Fail(n)
  PROVE  SharedInv'
<1>0. /\ netfs \in {"none", "Disabled", "Enabled"} /\ fresh \subseteq Nodes
      /\ va \in [Nodes -> {"none", "new", "attached", "deleting"}]
      /\ call \in [Nodes -> Calls]
  BY DEF SharedInv, TypeOK, ProvisionTypeOK
<1> USE <1>0 DEF Proceed, Write, Others, Calls
<1>1. CASE ControllerPublishVolume(n) \/ ControllerUnpublishVolume(n)
  <2>1. PICK l \in {"publish", "published", "unpublish", "unpublished"} :
          va[n] # "none" /\ Proceed(n, l, {})
    BY <1>1, Zenon DEF ControllerPublishVolume, ControllerUnpublishVolume
  <2> QED
    BY <1>1, <2>1, CallKeeps DEF ControllerPublishVolume, ControllerUnpublishVolume
<1>2. CASE PublishRWXVolume(n)
  BY <1>2, CallKeeps DEF PublishRWXVolume
<1>3. CASE RecreateNetworkFilesystem(n)
  BY <1>3, CallKeeps DEF RecreateNetworkFilesystem
<1>4. CASE Enable(n) \/ Disable(n)
  BY <1>4, CallKeeps DEF Enable, Disable
<1>5. CASE UnpublishRWXVolume(n)
  BY <1>5, CallKeeps DEF UnpublishRWXVolume
<1>6. CASE CheckPods(n)
  BY <1>6, CallKeeps DEF CheckPods
<1>7. CASE Fail(n)
  BY <1>7, CallKeeps DEF Fail
<1>8. CASE Published(n) \/ Unpublished(n)
  <2>1. VolumeInv'
    BY <1>8, UseKeepsVolume DEF Published, Unpublished
  <2>2. TypeOK'
    BY <1>8, <2>1 DEF Published, Unpublished, SharedInv, TypeOK, VolumeInv
  <2>3. UseInv'
    BY <1>8 DEF Published, Unpublished, SharedInv, UseInv, guest
  <2> QED
    BY <2>1, <2>2, <2>3 DEF SharedInv
<1> QED
  BY <1>1, <1>2, <1>3, <1>4, <1>5, <1>6, <1>7, <1>8, Zenon DEF CallStep

\* Pods, VolumeAttachments, kubelets, the informer and the host's
\* networkfs-manager keep it.
LEMMA GuestKeeps ==
  ASSUME SharedInv,
         \/ \E n \in Nodes :
              \/ CreatePod(n) \/ CreateVA(n) \/ DeleteVA(n) \/ NodeStageVolume(n)
              \/ NodeUnstageVolume(n) \/ IndexPodByPVC(n)
         \/ SwitchState \/ LoseNetworkFilesystem
  PROVE  SharedInv'
<1>0. netfs \in {"none", "Disabled", "Enabled"}
  BY DEF SharedInv, TypeOK, ProvisionTypeOK
<1>1. /\ UNCHANGED <<guest, inDoubt, pvc, vrr, pc>>
      /\ \/ netfs' = netfs
         \/ pv = "provisioned" /\ netfs # "none" /\ netfs' = "none"
  BY Zenon DEF CreatePod, CreateVA, DeleteVA, NodeStageVolume, NodeUnstageVolume,
    IndexPodByPVC, SwitchState, LoseNetworkFilesystem, Guest, NetFS, volumeVars, guest
<1>2. VolumeInv'
  <2>1. netfs # "none" => kind \in Shares
    BY DEF SharedInv, VolumeInv, ObjectInv
  <2> QED
    BY <1>0, <1>1, <2>1, UseKeepsVolume
<1> USE DEF SharedInv, TypeOK, UseInv, VolumeInv, Guest, NetFS, volumeVars, guest
<1>3. ASSUME NEW n \in Nodes, CreatePod(n) PROVE SharedInv'
  BY <1>2, <1>3 DEF CreatePod
<1>4. ASSUME NEW n \in Nodes, CreateVA(n) PROVE SharedInv'
  BY <1>2, <1>4 DEF CreateVA
<1>5. ASSUME NEW n \in Nodes, DeleteVA(n) PROVE SharedInv'
  BY <1>2, <1>5 DEF DeleteVA
<1>6. ASSUME NEW n \in Nodes, NodeStageVolume(n) \/ NodeUnstageVolume(n) PROVE SharedInv'
  BY <1>2, <1>6 DEF NodeStageVolume, NodeUnstageVolume
<1>7. ASSUME NEW n \in Nodes, IndexPodByPVC(n) PROVE SharedInv'
  BY <1>2, <1>7 DEF IndexPodByPVC
<1>8. CASE SwitchState \/ LoseNetworkFilesystem
  BY <1>2, <1>8 DEF SwitchState, LoseNetworkFilesystem
<1> QED
  BY <1>3, <1>4, <1>5, <1>6, <1>7, <1>8

----------------------------------------------------------------------------
\* Every step keeps SharedInv.
LEMMA SharedStep ==
  ASSUME StorageClassReadable, SharedInv, [Next]_vars PROVE SharedInv'
<1>1. CASE UNCHANGED vars
  BY <1>1 DEF vars, volumeVars, nodeVars, SharedInv, TypeOK, VolumeInv, UseInv,
    ProvisionTypeOK, CallInv, ObjectInv, ProvisionedIsBacked, DeletedLeavesNothing
<1>2. CASE ProvisionStep \/ GuestStep \/ (ProvisionFail /\ UNCHANGED nodeVars)
  <2>1. VolumeInv'
    BY <1>2, CreateKeeps, DeleteKeeps, OthersKeep, Zenon
    DEF SharedInv, ProvisionStep, GuestStep
  <2>2. UNCHANGED <<pod, va, call, indexed, fresh>> /\ (state' = state \/ state' = "Disabled")
    BY <1>2, Zenon DEF ProvisionStep, GuestStep, nodeVars
  <2>3. TypeOK'
    BY <2>1, <2>2 DEF SharedInv, TypeOK, VolumeInv
  <2>4. UNCHANGED kind
    BY <1>2, ZenonT(30) DEF ProvisionStep, GuestStep, ProvisionFail, CreateVolume, CreateStep,
      DeleteVolume, DeleteStep, HostStep, BuildHostPVCFromScratch, BuildHostPVCFromSnap,
      CreateHostPVC, WaitForLHVolumeName, CreateNetworkFilesystem, GetVolumeRemoteRestore,
      CreateVolumeRemoteRestore, CheckVolumeRemoteRestoreReadiness, Created,
      FindVolumeRemoteRestore, DeleteVolumeRemoteRestore, GetHostPVC,
      GetNetworkFilesystem, DeleteNetworkFilesystem, DeleteHostPVC, Deleted,
      DeleteClaim, Release, BindPVC, RemovePVC, RestorePVC, guest
  <2>5. \/ UNCHANGED <<claim, pv>> \/ GuestStep
        \/ Created \/ Deleted
    BY <1>2, ZenonT(30) DEF ProvisionStep, ProvisionFail, CreateVolume, CreateStep,
      DeleteVolume, DeleteStep, HostStep, BuildHostPVCFromScratch, BuildHostPVCFromSnap,
      CreateHostPVC, WaitForLHVolumeName, CreateNetworkFilesystem, GetVolumeRemoteRestore,
      CreateVolumeRemoteRestore, CheckVolumeRemoteRestoreReadiness,
      FindVolumeRemoteRestore, DeleteVolumeRemoteRestore, GetHostPVC,
      GetNetworkFilesystem, DeleteNetworkFilesystem, DeleteHostPVC,
      BindPVC, RemovePVC, RestorePVC, guest
  <2>6. Created \/ Deleted => UNCHANGED claim /\ pv # "provisioned"
    BY DEF Created, Deleted, SharedInv, VolumeInv, CallInv, CreatePCs, DeletePCs
  <2>7. UseInv'
    BY <2>1, <2>2, <2>4, <2>5, <2>6, VolumeKeepsUse
  <2> QED
    BY <2>1, <2>3, <2>7 DEF SharedInv
<1> QED
  BY <1>1, <1>2, PublishKeeps, GuestKeeps, Zenon DEF Next

\* SharedInv holds in every state while StorageClasses can be read.
LEMMA SharedInvariant ==
  ASSUME StorageClassReadable PROVE Spec => []SharedInv
  BY SharedInit, SharedStep, PTL DEF Spec

\* A PV has the volume that CreateVolume has answered for, whichever calls
\* failed where, were repeated, and meet publish calls of however many nodes.
THEOREM Backed ==
  ASSUME StorageClassReadable PROVE Spec => []ProvisionedIsBacked
  BY SharedInvariant, PTL DEF SharedInv, VolumeInv

\* When DeleteVolume has answered OK, neither a failed call of CreateVolume or
\* DeleteVolume nor a publish that created the NetworkFilesystem again has left
\* anything behind.
THEOREM NothingLeft ==
  ASSUME StorageClassReadable PROVE Spec => []DeletedLeavesNothing
  BY SharedInvariant, PTL DEF SharedInv, VolumeInv
----------------------------------------------------------------------------
(* VolumeContract                                                          *)

\* As long as the volume is used its NetworkFilesystem may go and come back;
\* the rest of its host objects stay.
LEMMA UseContract ==
  ASSUME VolumeInv, UNCHANGED <<guest, pvc, vrr>>,
         netfs' = netfs \/ (kind \in Shares /\ pv = "provisioned")
  PROVE  [Contract!Next]_(Contract!vars)
<1>1. CASE netfs' = netfs
  BY <1>1 DEF guest, Objects, Contract!vars
<1>2. CASE kind \in Shares /\ pv = "provisioned"
  BY <1>2 DEF VolumeInv, ProvisionTypeOK, ObjectInv, ProvisionedIsBacked, guest, Objects,
    Contract!Next, Contract!Use, Contract!Needed, Contract!Shares, Shares
<1> QED
  BY <1>1, <1>2

\* Every step is one that VolumeContract allows.
LEMMA ContractStep ==
  ASSUME StorageClassReadable, SharedInv, [Next]_vars
  PROVE  [Contract!Next]_(Contract!vars)
<1>0. VolumeInv
  BY DEF SharedInv
<1>1. CASE UNCHANGED vars
  BY <1>0, <1>1, UseContract DEF vars, volumeVars, guest
<1>2. CASE ProvisionStep \/ GuestStep \/ (ProvisionFail /\ UNCHANGED nodeVars)
  BY <1>0, <1>2, CreateContract, DeleteContract, OthersContract, Zenon
  DEF ProvisionStep, GuestStep
<1>3. ASSUME NEW n \in Nodes,
             \/ ControllerPublishVolume(n) \/ ControllerUnpublishVolume(n)
             \/ CallStep(n) \/ Fail(n)
      PROVE  [Contract!Next]_(Contract!vars)
  <2>1. call[n] # "idle" \/ netfs' = netfs
    BY <1>3, Zenon DEF ControllerPublishVolume, ControllerUnpublishVolume, Proceed, Fail,
      CallStep, PublishRWXVolume, RecreateNetworkFilesystem, Enable, Published,
      UnpublishRWXVolume, CheckPods, Disable, Unpublished
  <2>2. UNCHANGED <<guest, pvc, vrr>>
    BY <1>3, Zenon DEF ControllerPublishVolume, ControllerUnpublishVolume, Fail, Others,
      CallStep, PublishRWXVolume, RecreateNetworkFilesystem, Enable, Published,
      UnpublishRWXVolume, CheckPods, Disable, Unpublished
  <2>3. netfs' = netfs \/ (kind \in Shares /\ pv = "provisioned")
    BY <2>1 DEF SharedInv, UseInv, Shares
  <2> QED
    BY <1>0, <2>2, <2>3, UseContract
<1>4. ASSUME \/ \E n \in Nodes :
                  \/ CreatePod(n) \/ CreateVA(n) \/ DeleteVA(n) \/ NodeStageVolume(n)
                  \/ NodeUnstageVolume(n) \/ IndexPodByPVC(n)
             \/ SwitchState \/ LoseNetworkFilesystem
      PROVE  [Contract!Next]_(Contract!vars)
  <2>1. /\ UNCHANGED <<guest, pvc, vrr>>
        /\ netfs' = netfs \/ (pv = "provisioned" /\ netfs # "none")
    BY <1>4, Zenon DEF CreatePod, CreateVA, DeleteVA, NodeStageVolume, NodeUnstageVolume,
      IndexPodByPVC, SwitchState, LoseNetworkFilesystem, Guest, NetFS, volumeVars, guest
  <2>2. netfs # "none" => kind \in Shares
    BY <1>0 DEF VolumeInv, ObjectInv
  <2> QED
    BY <1>0, <2>1, <2>2, UseContract
<1> QED
  BY <1>1, <1>2, <1>3, <1>4, Zenon DEF Next

\* The volume of however many nodes implements VolumeContract: CreateVolume only
\* adds host objects and answers OK when all are there, nothing but the
\* NetworkFilesystem is ever lost under a PV, and DeleteVolume only removes and
\* answers OK when nothing is left, whichever calls fail where.
THEOREM ContractKept ==
  ASSUME StorageClassReadable PROVE Spec => ImplementsContract
<1>1. Init => Contract!Init
  BY ContractInit DEF Init
<1>2. SharedInv /\ [Next]_vars => [Contract!Next]_(Contract!vars)
  BY ContractStep
<1> QED
  BY <1>1, <1>2, SharedInvariant, PTL DEF Spec, ImplementsContract, Contract!Spec
============================================================================
