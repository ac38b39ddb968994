-------------------------- MODULE VolumeLifeProofs --------------------------
(***************************************************************************)
(* Proofs about the life of a volume: its mounts, its expansion and the    *)
(* snapshot it is made from.  They hold for every size, alignment and      *)
(* number of layers of mounts.                                             *)
(***************************************************************************)
EXTENDS VolumeLife, ProvisionProofs

----------------------------------------------------------------------------
(* Mounts and sizes                                                        *)

\* What the arguments need of the types.
UsageTypes ==
  /\ access \in {"block", "mount", "share"}
  /\ attached \in BOOLEAN /\ path \in BOOLEAN
  /\ staged \in {"no", "maybe", "yes"} /\ published \in {"no", "maybe", "yes"}
  /\ target \in Nat
  /\ want \in Nat /\ request \in Nat /\ capacity \in Nat /\ disk \in Nat
  /\ size \in Nat /\ fs \in Nat /\ unresized \in BOOLEAN
  /\ nodePC \in NodePCs /\ expandPC \in ExpandPCs

\* The kubelet knows what may be mounted, and lets go only when nothing is.
MountInv ==
  /\ ~attached => staged = "no" /\ published = "no" /\ nodePC = "idle"
  /\ published = "no" => target = 0 /\ ~path
  /\ published # "no" => staged = "yes"
  /\ published = "yes" => target > 0 /\ nodePC \in {"idle", "grow", "grown"}
  /\ nodePC \in {"device", "makeFile", "bind", "isMounted", "format", "mount",
                 "resize", "published", "unmount", "cleanup", "unpublished"}
       => published = "maybe"
  /\ nodePC \in {"resize", "published"} => target > 0
  /\ nodePC \in {"cleanup", "unpublished"} => target = 0
  /\ nodePC = "unpublished" => ~path
  /\ nodePC \in {"makeFile", "bind"} => access # "mount"
  /\ nodePC \in {"unstage", "unstaged"} => published = "no"
  /\ target = 0 => ~unresized

\* The file system is mounted and was given the chance to grow.
Resized == access = "mount" /\ target > 0 /\ nodePC # "resize" /\ ~unresized

\* The host has what the resizer has recorded, and before: what it will record.
\* A disk that was attached since has it, and so has the file system on it.
SizeInv ==
  /\ size <= capacity
  /\ expandPC # "idle" => size < want
  /\ expandPC \in {"inUse", "online", "offline"} => want <= capacity
  /\ attached /\ ~online => size <= disk
  /\ attached /\ ~online /\ Resized => size <= fs
  /\ attached /\ expandPC = "offline" => want <= disk
  /\ attached /\ expandPC = "offline" /\ Resized => want <= fs

----------------------------------------------------------------------------
(* The snapshot                                                            *)

\* Where a call is says what the guest and the host have of the snapshot.
SnapInv ==
  /\ SnapTypeOK
  /\ snapPC \in SnapCreatePCs => content = "new"
  /\ snapPC \in {"delete", "removed"} => content = "ready" /\ ~wanted
  /\ snapPC \in {"fetch", "fetchNew", "taken"} => snap = "ready" \/ lost
  /\ content = "new" /\ snap = "deleting" => lost
  /\ snapPC \in {"fetch", "fetchNew", "taken"} \/ content = "ready"
       => snap \in {"ready", "deleting", "none"}
  /\ snapPC = "removed" =>
       snap = "none" \/ (snapType = "backup" /\ snap = "deleting")
  /\ ReadySnapshotExists /\ DeletedSnapshotGone

UsageInv == UsageTypes /\ MountInv /\ SizeInv
LifeInv == SnapInv /\ UsageInv

----------------------------------------------------------------------------
(* Sizes of host PVCs                                                      *)

\* What % and \div have to do with each other.
LEMMA Division ==
  \A n \in Int : \A a \in Int : a > 0 => n % a = n - a * (n \div a) /\ n \div a \in Int
  BY SMTT(60)

\* Multiples of a number are that far apart.
LEMMA Multiples ==
  ASSUME NEW a \in Nat \ {0}, NEW k \in Int, NEW m \in Int
  PROVE  /\ (a * k) % a = 0
         /\ a * k < a * m => a * (k + 1) <= a * m
         /\ a * (k + 1) = a * k + a
<1>1. (a * k) % a = 0
  OBVIOUS
<1>2. a * (k + 1) = a * k + a
  OBVIOUS
<1>3. ASSUME a * k < a * m PROVE a * (k + 1) <= a * m
  <2>1. ~ (m <= k)
    BY <1>3
  <2>2. k + 1 <= m
    BY <2>1
  <2> QED
    BY <2>2
<1> QED
  BY <1>1, <1>2, <1>3

\* For every alignment, and for sizes that are zero or negative as well:
\* RoundUpSize returns the least positive multiple of the alignment that is not
\* smaller than its argument.
THEOREM LeastMultiple ==
  ASSUME NEW n \in Int
  PROVE  /\ RoundUpSize(n) % SizeAlignment = 0
         /\ RoundUpSize(n) > 0 /\ RoundUpSize(n) >= n
         /\ \A m \in Int : m > 0 /\ m >= n /\ m % SizeAlignment = 0 => RoundUpSize(n) <= m
<1> DEFINE a == SizeAlignment
           q == n \div a
<1>0. a \in Nat \ {0} /\ a \in Int /\ a > 0
  BY NodeAssumption
<1> HIDE DEF a
<1>1. q \in Int /\ n % a = n - a * q /\ n % a \in 0..(a - 1)
  BY <1>0, Division
<1>2. ASSUME NEW m \in Int, m % a = 0
      PROVE  m \div a \in Int /\ m = a * (m \div a)
  BY <1>0, <1>2, Division
<1> HIDE DEF q
<1>3. CASE n <= 0
  <2>1. RoundUpSize(n) = a /\ a % a = 0
    BY <1>0, <1>3 DEF RoundUpSize, a
  <2>2. ASSUME NEW m \in Int, m > 0, m % a = 0 PROVE a <= m
    <3>1. PICK k \in Int : m = a * k
      BY <1>2, <2>2
    <3>2. a * 0 = 0 /\ a * (0 + 1) = a
      BY <1>0
    <3>3. a * 0 < a * k => a * (0 + 1) <= a * k
      BY <1>0, Multiples
    <3> QED
      BY <2>2, <3>1, <3>2, <3>3
  <2> QED
    BY <1>0, <1>3, <2>1, <2>2 DEF a
<1>4. CASE n > 0 /\ n % a = 0
  <2>1. RoundUpSize(n) = n
    BY <1>4 DEF RoundUpSize, a
  <2> QED
    BY <1>4, <2>1 DEF a
<1>5. CASE n > 0 /\ n % a # 0
  <2>1. RoundUpSize(n) = n - (n % a) + a
    BY <1>5 DEF RoundUpSize, a
  <2>2. a * q \in Int /\ a * (q + 1) = a * q + a /\ (a * (q + 1)) % a = 0
    BY <1>0, <1>1, Multiples
  <2>3. RoundUpSize(n) = a * (q + 1) /\ a * q < n /\ n <= a * (q + 1)
    BY <1>0, <1>1, <1>5, <2>1, <2>2
  <2>4. ASSUME NEW m \in Int, m >= n, m % a = 0 PROVE a * (q + 1) <= m
    <3>1. PICK k \in Int : m = a * k
      BY <1>2, <2>4
    <3>2. a * q < a * k => a * (q + 1) <= a * k
      BY <1>0, <1>1, Multiples
    <3> QED
      BY <2>2, <2>3, <2>4, <3>1, <3>2
  <2>5. RoundUpSize(n) % a = 0
    BY <2>2, <2>3
  <2>6. RoundUpSize(n) > 0 /\ RoundUpSize(n) >= n
    <3> DEFINE r == a * (q + 1)
    <3>1. r \in Int /\ n <= r
      BY <1>0, <1>1, <2>2, <2>3
    <3> HIDE DEF r
    <3>2. r > 0 /\ r >= n
      BY <1>5, <3>1
    <3> QED
      BY <2>3, <3>2 DEF r
  <2> QED
    BY <2>3, <2>4, <2>5, <2>6 DEF a
<1> QED
  BY <1>3, <1>4, <1>5

\* RoundUpSize never makes a volume smaller.
LEMMA RoundedUp ==
  ASSUME NEW n \in Nat PROVE RoundUpSize(n) \in Nat /\ n <= RoundUpSize(n)
  BY NodeAssumption DEF RoundUpSize

----------------------------------------------------------------------------
(* Snapshots, mounts and sizes                                             *)

\* Nothing is attached, and what is provisioned is large enough.
LEMMA LifeInit == Init => LifeInv
<1> SUFFICES ASSUME Init PROVE LifeInv
  OBVIOUS
<1>1. SnapInv
  BY DEF Init, SnapInit, SnapInv, SnapTypeOK, SnapCreatePCs, SnapPCs, HostStates,
    ReadySnapshotExists, DeletedSnapshotGone, FromSnapshot
<1>2. want \in Nat /\ request \in Nat /\ want <= request
  BY RoundedUp, NodeAssumption DEF Init, NodeInit
<1>3. UsageInv
  BY <1>2 DEF Init, NodeInit, UsageInv, UsageTypes, MountInv, SizeInv, Resized,
    NodePCs, ExpandPCs
<1> QED
  BY <1>1, <1>3 DEF LifeInv

----------------------------------------------------------------------------
(* Steps of the snapshot                                                   *)

\* Every step of CreateSnapshot and DeleteSnapshot keeps SnapInv.
LEMMA SnapStepKeeps ==
  ASSUME SnapInv, SnapStep PROVE SnapInv'
<1> USE DEF SnapInv, SnapTypeOK, SnapCreatePCs, SnapPCs, HostStates,
      ReadySnapshotExists, DeletedSnapshotGone, snapGuest, snapHost, SnapGoto, SnapEnd,
      ToCreate
<1>1. CASE CreateSnapshot
  BY <1>1 DEF CreateSnapshot
<1>2. CASE HandleExistingSnap
  BY <1>2 DEF HandleExistingSnap
<1>3. CASE GetHostSnapClass
  BY <1>3 DEF GetHostSnapClass
<1>4. CASE GenerateHostSnap
  BY <1>4 DEF GenerateHostSnap, CreateHost
<1>5. CASE CheckSnapsReadiness
  BY <1>5 DEF CheckSnapsReadiness
<1>6. CASE PrepareSnapshotResponse
  BY <1>6 DEF PrepareSnapshotResponse
<1>7. CASE Taken
  BY <1>7 DEF Taken
<1>8. CASE DeleteSnapshot
  BY <1>8 DEF DeleteSnapshot
<1>9. CASE HandleBackupSnapDeletion
  BY <1>9 DEF HandleBackupSnapDeletion
<1>10. CASE HandleLocalSnapDeletion
  BY <1>10 DEF HandleLocalSnapDeletion
<1>11. CASE Removed
  BY <1>11 DEF Removed
<1>12. CASE GenerateHostVolumeRemoteBackup
  BY <1>12 DEF GenerateHostVolumeRemoteBackup, CreateHost
<1>13. CASE PrepareBackupSnapResponse
  BY <1>13 DEF PrepareBackupSnapResponse
<1> QED
  BY <1>1, <1>2, <1>3, <1>4, <1>5, <1>6, <1>7, <1>8, <1>9, <1>10, <1>11, <1>12,
     <1>13, Zenon DEF SnapStep

\* So do failures, the guest's user and the host.
LEMMA SnapOthersKeep ==
  ASSUME SnapInv,
         \/ SnapFail \/ DeleteVolumeSnapshot \/ DropContent
         \/ TakeSnap \/ FailSnap \/ LoseSnap \/ RemoveSnap
  PROVE  SnapInv'
<1> USE DEF SnapInv, SnapTypeOK, SnapCreatePCs, SnapPCs, HostStates,
      ReadySnapshotExists, DeletedSnapshotGone, snapGuest, snapHost, SnapEnd
<1>1. CASE SnapFail
  <2>1. snapDoubt' \in BOOLEAN /\ snapPC' = "idle" /\ UNCHANGED <<snapGuest, snapHost>>
    BY <1>1, Zenon DEF SnapFail
  <2> QED
    BY <2>1
<1>2. CASE DeleteVolumeSnapshot
  <2>1. wanted' \in BOOLEAN /\ ~wanted' /\ wanted
        /\ UNCHANGED <<snapType, content, snapDoubt, snapHost, snapPC>>
    BY <1>2, Zenon DEF DeleteVolumeSnapshot
  <2> QED
    BY <2>1
<1>3. CASE DropContent
  BY <1>3 DEF DropContent
<1>4. CASE TakeSnap \/ FailSnap
  BY <1>4 DEF TakeSnap, FailSnap
<1>5. CASE LoseSnap
  <2>1. lost' \in BOOLEAN /\ lost' /\ UNCHANGED <<snapGuest, snapDoubt, snapPC>>
    BY <1>5, Zenon DEF LoseSnap
  <2>2. snap \notin {"none", "deleting"} /\ snap' \in {"deleting", "none"}
    BY <1>5 DEF LoseSnap
  <2> QED
    BY <2>1, <2>2
<1>6. CASE RemoveSnap
  BY <1>6 DEF RemoveSnap
<1> QED
  BY <1>1, <1>2, <1>3, <1>4, <1>5, <1>6

----------------------------------------------------------------------------
(* Steps of the node and of the expansion                                  *)

\* Every step of the node server keeps UsageInv, whatever earlier calls have left.
LEMMA NodeStepKeeps ==
  ASSUME UsageInv, NodeStep
  PROVE  UsageInv'
<1> USE DEF UsageInv, UsageTypes, MountInv, SizeInv, Resized, NodePCs, ExpandPCs,
      kubelet, fileSystem, mounts, asked, hostPVC, sizes, NodeGoto
<1>1. CASE NodeStageVolume
  BY <1>1 DEF NodeStageVolume
<1>2. CASE NodeStageRWXVolume
  BY <1>2 DEF NodeStageRWXVolume
<1>3. CASE Staged
  BY <1>3 DEF Staged
<1>4. CASE NodeUnstageVolume
  BY <1>4 DEF NodeUnstageVolume
<1>5. CASE Umount
  BY <1>5 DEF Umount
<1>6. CASE Unstaged
  BY <1>6 DEF Unstaged
<1>7. CASE NodePublishVolume
  BY <1>7 DEF NodePublishVolume
<1>8. CASE GetDevicePathByVolumeID
  BY <1>8 DEF GetDevicePathByVolumeID
<1>9. CASE MakeFile
  BY <1>9 DEF MakeFile
<1>10. CASE BindMount
  BY <1>10 DEF BindMount
<1>11. CASE IsMountPoint
  BY <1>11 DEF IsMountPoint
<1>12. CASE Format
  BY <1>12 DEF Format
<1>13. CASE Mount
  BY <1>13 DEF Mount
<1>14. CASE ResizeFilesystem
  BY <1>14 DEF ResizeFilesystem
<1>15. CASE Published
  BY <1>15 DEF Published
<1>16. CASE NodeUnpublishVolume
  BY <1>16 DEF NodeUnpublishVolume
<1>17. CASE Unmount
  <2>1. unresized' \in BOOLEAN /\ (unresized' => unresized /\ target > 1)
    BY <1>17, Zenon DEF Unmount
  <2> QED
    BY <1>17, <2>1 DEF Unmount
<1>18. CASE CleanupMountPoint
  BY <1>18 DEF CleanupMountPoint
<1>19. CASE Unpublished
  BY <1>19 DEF Unpublished
<1>20. CASE NodeExpandVolume
  BY <1>20 DEF NodeExpandVolume
<1>21. CASE Grown
  BY <1>21 DEF Grown
<1> QED
  BY <1>1, <1>2, <1>3, <1>4, <1>5, <1>6, <1>7, <1>8, <1>9, <1>10, <1>11, <1>12,
     <1>13, <1>14, <1>15, <1>16, <1>17, <1>18, <1>19, <1>20, <1>21, Zenon DEF NodeStep

\* So does every step of ControllerExpandVolume.
LEMMA ExpandStepKeeps ==
  ASSUME UsageInv, ControllerExpandVolume \/ ExpandStep
  PROVE  UsageInv'
<1> USE DEF UsageInv, UsageTypes, MountInv, SizeInv, Resized, NodePCs, ExpandPCs,
      kubelet, fileSystem, mounts, asked, hostPVC, sizes, Expanding
<1>1. CASE ControllerExpandVolume
  BY <1>1 DEF ControllerExpandVolume
<1>2. CASE ValidateOnlineExpansion
  BY <1>2 DEF ValidateOnlineExpansion
<1>3. CASE UpdatePVCSize
  BY <1>3 DEF UpdatePVCSize
<1>4. CASE WaitForPVCState
  BY <1>4 DEF WaitForPVCState
<1>5. CASE IsVolumeInUse
  BY <1>5 DEF IsVolumeInUse
<1>6. CASE Expanded
  BY <1>6 DEF Expanded
<1> QED
  BY <1>1, <1>2, <1>3, <1>4, <1>5, <1>6, Zenon DEF ExpandStep

\* Failures keep it.
LEMMA FailuresKeep ==
  ASSUME UsageInv, NodeFail \/ RemoveTarget \/ IgnoreMountPointError \/ ExpandFail
  PROVE  UsageInv'
<1> USE DEF UsageInv, UsageTypes, MountInv, SizeInv, Resized, NodePCs, ExpandPCs,
      kubelet, fileSystem, mounts, asked, hostPVC, sizes, NodeGoto, Expanding
<1>1. CASE NodeFail
  BY <1>1 DEF NodeFail
<1>2. CASE RemoveTarget
  <2>1. nodePC = "bind" /\ nodePC' = "idle"
        /\ UNCHANGED <<kubelet, staging, target, fileSystem, sizes>>
    BY <1>2, Zenon DEF RemoveTarget
  <2>2. path' \in BOOLEAN
    BY <1>2 DEF RemoveTarget
  <2> QED
    BY <2>1, <2>2
<1>3. CASE ExpandFail
  BY <1>3 DEF ExpandFail
<1>4. CASE IgnoreMountPointError
  BY <1>4 DEF IgnoreMountPointError
<1> QED
  BY <1>1, <1>2, <1>3, <1>4

\* Users, the attacher, the host's resizer and KubeVirt keep it.
LEMMA UsersKeep ==
  ASSUME UsageInv,
         \/ \E p \in BOOLEAN : SetPod(p)
         \/ Attach \/ Detach \/ AskForMore \/ ExpandPVC \/ ResizeDisk
  PROVE  UsageInv'
<1> USE DEF UsageInv, UsageTypes, MountInv, SizeInv, Resized, NodePCs, ExpandPCs,
      kubelet, fileSystem, mounts, asked, hostPVC, sizes
<1>1. CASE \E p \in BOOLEAN : SetPod(p)
  <2>1. UNCHANGED <<access, attached, staged, published, mounts, sizes, nodePC>>
    BY <1>1, Zenon DEF SetPod
  <2> QED
    BY <2>1
<1>2. CASE Attach
  BY <1>2 DEF Attach
<1>3. CASE Detach
  BY <1>3 DEF Detach
<1>4. CASE AskForMore
  BY <1>4, NodeAssumption DEF AskForMore
<1>5. CASE ExpandPVC
  BY <1>5 DEF ExpandPVC
<1>6. CASE ResizeDisk
  BY <1>6 DEF ResizeDisk
<1> QED
  BY <1>1, <1>2, <1>3, <1>4, <1>5, <1>6

----------------------------------------------------------------------------
\* Every step keeps LifeInv: the parts of the life do not meet in it.
LEMMA LifeStep ==
  ASSUME LifeInv, [Next]_vars PROVE LifeInv'
<1>1. UNCHANGED snapVars => SnapInv'
  BY DEF LifeInv, snapVars, SnapInv, SnapTypeOK, ReadySnapshotExists, DeletedSnapshotGone
<1>2. UNCHANGED usageVars => UsageInv'
  BY DEF LifeInv, usageVars, UsageInv, UsageTypes, MountInv, SizeInv, Resized,
    kubelet, fileSystem, mounts, asked, hostPVC, sizes
<1>3. \/ UNCHANGED snapVars \/ SnapStep \/ SnapFail \/ DeleteVolumeSnapshot
      \/ DropContent \/ TakeSnap \/ FailSnap \/ LoseSnap \/ RemoveSnap
  BY Zenon DEF Next, vars, ProvisionStep, HostVolumeStep, HostSnapStep, Expand,
    HostUsageStep, UserStep, GuestStep, Fault
<1>4. \/ UNCHANGED usageVars \/ NodeStep \/ ControllerExpandVolume \/ ExpandStep
      \/ NodeFail \/ RemoveTarget \/ IgnoreMountPointError \/ ExpandFail
      \/ (\E p \in BOOLEAN : SetPod(p))
      \/ Attach \/ Detach \/ AskForMore \/ ExpandPVC \/ ResizeDisk
  BY Zenon DEF Next, vars, ProvisionStep, HostVolumeStep, HostSnapStep, Expand,
    HostUsageStep, UserStep, GuestStep, Fault
<1>5. SnapInv'
  BY <1>1, <1>3, SnapStepKeeps, SnapOthersKeep, Zenon DEF LifeInv
<1>6. UsageInv'
  BY <1>2, <1>4, NodeStepKeeps, ExpandStepKeeps, FailuresKeep, UsersKeep, Zenon
  DEF LifeInv
<1> QED
  BY <1>5, <1>6 DEF LifeInv

\* LifeInv holds in every state.
LEMMA LifeInvariant == Spec => []LifeInv
  BY LifeInit, LifeStep, PTL DEF Spec

\* Whatever number of layers repeated calls have piled up on the target path,
\* nothing is mounted there when the device leaves the VM.
THEOREM UnmountedFirst == Spec => []UnmountedBeforeDetach
<1>1. LifeInv => UnmountedBeforeDetach
  BY DEF LifeInv, UsageInv, MountInv, UnmountedBeforeDetach
<1> QED
  BY <1>1, LifeInvariant, PTL

\* For every size and alignment, and wherever calls fail: an expansion, however it
\* interleaves with the attachment of the volume, never leaves a file system
\* behind that is smaller than the guest was told, but for one whose volume was
\* expanded in use or whose NodePublishVolume has failed after its mount.
THEOREM Grows == Spec => []FilesystemGrown
<1>1. LifeInv => FilesystemGrown
  BY DEF LifeInv, UsageInv, UsageTypes, MountInv, SizeInv, Resized, FilesystemGrown
<1> QED
  BY <1>1, LifeInvariant, PTL

\* What the guest takes for a ready snapshot is one on the host.
THEOREM ReadyExists == Spec => []ReadySnapshotExists
  BY LifeInvariant, PTL DEF LifeInv, SnapInv

\* What DeleteSnapshot has answered OK for is gone, or a backup on its way out.
THEOREM SnapshotGone == Spec => []DeletedSnapshotGone
  BY LifeInvariant, PTL DEF LifeInv, SnapInv

----------------------------------------------------------------------------
(* Types                                                                   *)

\* Other Boolean variables of NodeVolume.
UsageFlags == pod \in BOOLEAN /\ pending \in BOOLEAN /\ online \in BOOLEAN

\* Where one more layer may be mounted there is room for it: a pod comes only
\* when there is, and a call that has taken the last room does not fail.
LayerInv ==
  /\ staging \in 0..MaxLayers /\ target \in 0..MaxLayers
  /\ nodePC = "stage" => staging < MaxLayers
  /\ pod /\ staged # "yes" /\ nodePC # "staged" => staging < MaxLayers
  /\ nodePC \in {"stage", "staged", "unstage", "unstaged"} => staged = "maybe"
  /\ access # "mount" /\ pod /\ published # "yes" /\ nodePC # "published"
       => target < MaxLayers
  /\ access # "mount" /\ nodePC \in {"device", "makeFile", "isMounted", "bind"}
       => target < MaxLayers
  /\ pod \/ nodePC \in {"device", "isMounted", "format", "mount"} => 0 < MaxLayers
  /\ nodePC \in {"format", "mount"} => access = "mount" /\ target = 0
  /\ nodePC = "isMounted" => access # "block"

\* Every step of the node server keeps LayerInv.
LEMMA LayersKept ==
  ASSUME UsageInv, LayerInv, NodeStep
  PROVE  LayerInv'
<1> USE NodeAssumption DEF UsageInv, UsageTypes, MountInv, LayerInv, NodePCs,
      kubelet, mounts, NodeGoto
<1>1. CASE NodeStageVolume
  BY <1>1 DEF NodeStageVolume
<1>2. CASE NodeStageRWXVolume
  BY <1>2 DEF NodeStageRWXVolume
<1>3. CASE Staged
  BY <1>3 DEF Staged
<1>4. CASE NodeUnstageVolume
  BY <1>4 DEF NodeUnstageVolume
<1>5. CASE Umount
  BY <1>5 DEF Umount
<1>6. CASE Unstaged
  BY <1>6 DEF Unstaged
<1>7. CASE NodePublishVolume
  BY <1>7 DEF NodePublishVolume
<1>8. CASE GetDevicePathByVolumeID
  BY <1>8 DEF GetDevicePathByVolumeID
<1>9. CASE MakeFile
  BY <1>9 DEF MakeFile
<1>10. CASE BindMount
  BY <1>10 DEF BindMount
<1>11. CASE IsMountPoint
  BY <1>11 DEF IsMountPoint
<1>12. CASE Format
  BY <1>12 DEF Format
<1>13. CASE Mount
  BY <1>13 DEF Mount
<1>14. CASE ResizeFilesystem
  BY <1>14 DEF ResizeFilesystem
<1>15. CASE Published
  BY <1>15 DEF Published
<1>16. CASE NodeUnpublishVolume
  BY <1>16 DEF NodeUnpublishVolume
<1>17. CASE Unmount
  BY <1>17 DEF Unmount
<1>18. CASE CleanupMountPoint
  BY <1>18 DEF CleanupMountPoint
<1>19. CASE Unpublished
  BY <1>19 DEF Unpublished
<1>20. CASE NodeExpandVolume
  BY <1>20 DEF NodeExpandVolume
<1>21. CASE Grown
  BY <1>21 DEF Grown
<1> QED
  BY <1>1, <1>2, <1>3, <1>4, <1>5, <1>6, <1>7, <1>8, <1>9, <1>10, <1>11, <1>12,
     <1>13, <1>14, <1>15, <1>16, <1>17, <1>18, <1>19, <1>20, <1>21, Zenon DEF NodeStep

\* So do failures and pods; nothing else touches the mounts.
LEMMA LayersKeptByOthers ==
  ASSUME UsageInv, LayerInv,
         \/ NodeFail \/ RemoveTarget \/ IgnoreMountPointError
         \/ \E p \in BOOLEAN : SetPod(p)
         \/ UNCHANGED <<access, pod, staged, published, mounts, nodePC>>
  PROVE  LayerInv'
<1> USE NodeAssumption DEF UsageInv, UsageTypes, MountInv, LayerInv, NodePCs,
      kubelet, mounts, NodeGoto
<1>1. CASE NodeFail
  BY <1>1 DEF NodeFail
<1>2. CASE RemoveTarget
  BY <1>2 DEF RemoveTarget
<1>3. CASE IgnoreMountPointError
  BY <1>3 DEF IgnoreMountPointError
<1>4. CASE \E p \in BOOLEAN : SetPod(p)
  BY <1>4 DEF SetPod
<1>5. CASE UNCHANGED <<access, pod, staged, published, mounts, nodePC>>
  BY <1>5
<1> QED
  BY <1>1, <1>2, <1>3, <1>4, <1>5

\* The types, and what bounds the layers.
UsedTypes == ProvisionTypeOK /\ UsageFlags /\ LayerInv

\* What a step of VolumeLife does to the volume of Provision.
LEMMA VolumeSteps ==
  ASSUME [Next]_vars
  PROVE  \/ CreateVolume \/ CreateStep \/ DeleteVolume \/ DeleteStep
         \/ ProvisionFail \/ DeleteClaim \/ Release \/ HostStep
         \/ (SourceNotFound /\ UNCHANGED usageVars)
         \/ UNCHANGED volumeVars
  BY Zenon DEF Next, vars, ProvisionStep, HostVolumeStep, HostSnapStep, Expand,
    HostUsageStep, UserStep, GuestStep, Fault, HostStep

\* Every step keeps them.
LEMMA UsedTypesStep ==
  ASSUME UsageInv, UsedTypes, [Next]_vars PROVE UsedTypes'
<1>1. ProvisionTypeOK'
  <2>1. CASE SourceNotFound
    <3>1. inDoubt' \in BOOLEAN /\ pc' = "idle" /\ UNCHANGED <<guest, host>>
      BY <2>1, Zenon DEF SourceNotFound, End, UsedTypes, ProvisionTypeOK
    <3> QED
      BY <3>1 DEF UsedTypes, ProvisionTypeOK, guest, host
  <2>2. CASE UNCHANGED volumeVars
    BY <2>2 DEF volumeVars, UsedTypes, ProvisionTypeOK
  <2> QED
    BY <2>1, <2>2, VolumeSteps, ProvisionTypes, ProvisionTypesOthers, Zenon DEF UsedTypes
<1>2. \/ UNCHANGED usageVars \/ NodeStep \/ ControllerExpandVolume \/ ExpandStep
      \/ NodeFail \/ RemoveTarget \/ IgnoreMountPointError \/ ExpandFail
      \/ (\E p \in BOOLEAN : SetPod(p))
      \/ Attach \/ Detach \/ AskForMore \/ ExpandPVC \/ ResizeDisk
  BY Zenon DEF Next, vars, ProvisionStep, HostVolumeStep, HostSnapStep, Expand,
    HostUsageStep, UserStep, GuestStep, Fault
<1>3. UsageFlags'
  <2> USE DEF UsageFlags, kubelet, mounts, asked, sizes, usageVars, NodeGoto, Expanding
  <2>1. CASE NodeStep
    BY <2>1, Zenon DEF UsedTypes, NodeStep, NodeStageVolume, NodeStageRWXVolume, Staged,
      NodeUnstageVolume, Umount, Unstaged, NodePublishVolume, GetDevicePathByVolumeID,
      MakeFile, BindMount, IsMountPoint, Format, Mount, ResizeFilesystem, Published,
      NodeUnpublishVolume, Unmount, CleanupMountPoint, Unpublished, NodeExpandVolume, Grown
  <2>2. CASE ControllerExpandVolume \/ ExpandStep \/ ExpandFail
    BY <2>2, Zenon DEF UsedTypes, ControllerExpandVolume, ExpandStep, ExpandFail,
      ValidateOnlineExpansion, UpdatePVCSize, WaitForPVCState, IsVolumeInUse, Expanded
  <2>3. CASE \/ UNCHANGED usageVars \/ NodeFail \/ RemoveTarget \/ IgnoreMountPointError
             \/ (\E p \in BOOLEAN : SetPod(p))
             \/ Attach \/ Detach \/ AskForMore \/ ExpandPVC \/ ResizeDisk
    BY <2>3, Zenon DEF UsedTypes, NodeFail, RemoveTarget, IgnoreMountPointError, SetPod,
      Attach, Detach, AskForMore, ExpandPVC, ResizeDisk
  <2> QED
    BY <1>2, <2>1, <2>2, <2>3
<1>4. LayerInv'
  <2>1. CASE \/ UNCHANGED usageVars \/ ControllerExpandVolume \/ ExpandStep \/ ExpandFail
             \/ Attach \/ Detach \/ AskForMore \/ ExpandPVC \/ ResizeDisk
    <3>1. UNCHANGED <<access, pod, staged, published, mounts, nodePC>>
      BY <2>1, Zenon DEF usageVars, kubelet, ControllerExpandVolume, ExpandStep, ExpandFail,
        ValidateOnlineExpansion, UpdatePVCSize, WaitForPVCState, IsVolumeInUse, Expanded,
        Expanding, Attach, Detach, AskForMore, ExpandPVC, ResizeDisk
    <3> QED
      BY <3>1, LayersKeptByOthers DEF UsedTypes
  <2> QED
    BY <1>2, <2>1, LayersKept, LayersKeptByOthers, Zenon DEF UsedTypes
<1> QED
  BY <1>1, <1>3, <1>4 DEF UsedTypes

\* The types hold in every state.
LEMMA UsedTypesInvariant == Spec => []UsedTypes
<1>1. Init => UsedTypes
  <2> SUFFICES ASSUME Init PROVE UsedTypes
    OBVIOUS
  <2>1. ProvisionTypeOK
    BY DEF Init, ProvisionInit, ProvisionTypeOK, Kinds
  <2>2. UsageFlags
    BY Zenon DEF Init, NodeInit, UsageFlags
  <2>3. LayerInv
    BY NodeAssumption DEF Init, NodeInit, LayerInv
  <2> QED
    BY <2>1, <2>2, <2>3 DEF UsedTypes
<1>2. LifeInv /\ UsedTypes /\ [Next]_vars => UsedTypes'
  BY UsedTypesStep DEF LifeInv
<1> QED
  BY <1>1, <1>2, LifeInvariant, PTL DEF Spec

\* The variables of Provision, Snapshots and NodeVolume have their types: among
\* them, that repeated calls pile up at most MaxLayers layers of mounts.
THEOREM LifeTypes == Spec => []TypeOK
<1>1. LifeInv /\ UsedTypes => TypeOK
  BY DEF LifeInv, SnapInv, UsageInv, UsageTypes, UsedTypes, UsageFlags, LayerInv,
    TypeOK, NodeTypeOK
<1> QED
  BY <1>1, LifeInvariant, UsedTypesInvariant, PTL

----------------------------------------------------------------------------
(* The volume behind its mounts                                            *)

\* A volume that is used exists: claims stay while pods use them, PVs while they
\* are attached.
BackInv ==
  /\ attached => pv = "provisioned" /\ pvc = "bound"
  /\ pod => claim /\ pv = "provisioned"

\* Every step keeps what CreateVolume and DeleteVolume promise, also of a volume
\* whose snapshot is deleted, fails or is lost in the meantime.
LEMMA LifeVolumeStep ==
  ASSUME VolumeInv, StorageClassReadable, [Next]_vars PROVE VolumeInv'
<1>1. CASE SourceNotFound
  <2>1. ProvisionFail
    BY <1>1, Zenon DEF SourceNotFound, GetsSource, ProvisionFail
  <2> QED
    BY <2>1, OthersKeep
<1>2. CASE UNCHANGED volumeVars
  BY <1>2 DEF volumeVars, VolumeInv, ProvisionTypeOK, CallInv, ObjectInv,
    ProvisionedIsBacked, DeletedLeavesNothing
<1> QED
  BY <1>1, <1>2, VolumeSteps, CreateKeeps, DeleteKeeps, OthersKeep, Zenon

\* Every step keeps BackInv.
LEMMA BackStep ==
  ASSUME VolumeInv, BackInv, [Next]_vars PROVE BackInv'
<1> USE DEF BackInv
<1>1. CASE UNCHANGED <<claim, pv, pvc>>
  <2>1. UNCHANGED <<pod, attached>> \/ Detach \/ (Attach /\ pvc = "bound")
        \/ (\E p \in BOOLEAN : SetPod(p) /\ claim /\ pv = "provisioned")
    BY ZenonT(30) DEF Next, vars, ProvisionStep, HostVolumeStep, HostSnapStep, Expand,
      HostUsageStep, UserStep, GuestStep, Fault, usageVars, kubelet,
      NodeStep, NodeStageVolume, NodeStageRWXVolume, Staged,
      NodeUnstageVolume, Umount, Unstaged, NodePublishVolume, GetDevicePathByVolumeID,
      MakeFile, BindMount, IsMountPoint, Format, Mount, ResizeFilesystem, Published,
      NodeUnpublishVolume, Unmount, CleanupMountPoint, Unpublished, NodeExpandVolume, Grown,
      ControllerExpandVolume, ExpandStep, ExpandFail, Expanding,
      ValidateOnlineExpansion, UpdatePVCSize, WaitForPVCState, IsVolumeInUse, Expanded,
      NodeFail, RemoveTarget, IgnoreMountPointError, AskForMore, ExpandPVC, ResizeDisk
  <2>2. CASE UNCHANGED <<pod, attached>>
    BY <1>1, <2>2
  <2>3. CASE Detach
    BY <1>1, <2>3 DEF Detach
  <2>4. CASE Attach /\ pvc = "bound"
    BY <1>1, <2>4 DEF Attach
  <2>5. CASE \E p \in BOOLEAN : SetPod(p) /\ claim /\ pv = "provisioned"
    BY <1>1, <2>5 DEF SetPod
  <2> QED
    BY <2>1, <2>2, <2>3, <2>4, <2>5
<1>2. CASE UNCHANGED <<pod, attached>>
  <2>1. \/ UNCHANGED <<claim, pv, pvc>>
        \/ CreateHostPVC \/ Created \/ DeleteHostPVC \/ Deleted
        \/ BindPVC \/ RemovePVC \/ RestorePVC
        \/ DeleteClaim /\ ~pod
        \/ Release /\ ~attached
    BY ZenonT(30) DEF Next, vars, ProvisionStep, HostVolumeStep, HostSnapStep, Expand,
      HostUsageStep, UserStep, GuestStep, Fault, volumeVars, guest, host,
      SourceNotFound, ProvisionFail, CreateVolume, CreateStep, DeleteVolume, DeleteStep,
      BuildHostPVCFromScratch, BuildHostPVCFromSnap, WaitForLHVolumeName,
      CreateNetworkFilesystem, GetVolumeRemoteRestore, CreateVolumeRemoteRestore,
      CheckVolumeRemoteRestoreReadiness, FindVolumeRemoteRestore,
      DeleteVolumeRemoteRestore, GetHostPVC, GetNetworkFilesystem, DeleteNetworkFilesystem
  <2>2. CASE UNCHANGED <<claim, pv, pvc>>
    BY <1>2, <2>2
  <2>3. CASE CreateHostPVC \/ Created \/ DeleteHostPVC \/ Deleted
    BY <1>2, <2>3 DEF CreateHostPVC, Created, DeleteHostPVC, Deleted, guest, host,
      VolumeInv, CallInv, CreatePCs, DeletePCs
  <2>4. CASE BindPVC \/ RemovePVC \/ RestorePVC
    BY <1>2, <2>4 DEF BindPVC, RemovePVC, RestorePVC, guest, VolumeInv, ObjectInv
  <2>5. CASE (DeleteClaim /\ ~pod) \/ (Release /\ ~attached)
    BY <1>2, <2>5 DEF DeleteClaim, Release, host
  <2> QED
    BY <2>1, <2>2, <2>3, <2>4, <2>5
<1> QED
  <2>1. UNCHANGED volumeVars \/ UNCHANGED usageVars
    BY Zenon DEF Next, vars, ProvisionStep, HostVolumeStep, HostSnapStep, Expand,
      HostUsageStep, UserStep, GuestStep, Fault
  <2> QED
    BY <1>1, <1>2, <2>1, Zenon DEF volumeVars, usageVars, kubelet

\* Both hold in every state while StorageClasses can be read.
LEMMA BackInvariant ==
  ASSUME StorageClassReadable PROVE Spec => [](VolumeInv /\ BackInv)
<1>1. Init => VolumeInv /\ BackInv
  BY VolumeInit DEF Init, NodeInit, BackInv
<1>2. VolumeInv /\ BackInv /\ [Next]_vars => VolumeInv' /\ BackInv'
  BY LifeVolumeStep, BackStep
<1> QED
  BY <1>1, <1>2, PTL DEF Spec

\* A PV has the volume that CreateVolume has answered for, also one that is made
\* from a snapshot or a backup that goes away before, between or after the calls.
THEOREM LifeBacked ==
  ASSUME StorageClassReadable PROVE Spec => []ProvisionedIsBacked
  BY BackInvariant, PTL DEF VolumeInv

\* A deleted volume leaves nothing behind, whatever it was made from and however
\* it was used.
THEOREM LifeNothingLeft ==
  ASSUME StorageClassReadable PROVE Spec => []DeletedLeavesNothing
  BY BackInvariant, PTL DEF VolumeInv

\* No DeleteVolume, and no host controller, takes the host PVC away from a
\* volume that is attached, mounted or being mounted.
THEOREM InUseIsBacked ==
  ASSUME StorageClassReadable
  PROVE  Spec => [](attached \/ target > 0 \/ path \/ nodePC # "idle"
                      => pv = "provisioned" /\ pvc = "bound")
<1>1. LifeInv /\ BackInv =>
        (attached \/ target > 0 \/ path \/ nodePC # "idle"
           => pv = "provisioned" /\ pvc = "bound")
  BY DEF LifeInv, UsageInv, UsageTypes, MountInv, BackInv
<1> QED
  BY <1>1, LifeInvariant, BackInvariant, PTL
\* A volume implements VolumeContract whatever it is made from, also when the
\* snapshot goes away between two calls of CreateVolume, and while it is mounted
\* and expanded.
THEOREM LifeContractKept ==
  ASSUME StorageClassReadable PROVE Spec => ImplementsContract
<1>1. Init => Contract!Init
  BY ContractInit DEF Init
<1>2. ASSUME VolumeInv, [Next]_vars PROVE [Contract!Next]_(Contract!vars)
  <2>1. SourceNotFound => ProvisionFail
    BY Zenon DEF SourceNotFound, GetsSource, ProvisionFail
  <2>2. CASE UNCHANGED volumeVars
    BY <2>2 DEF volumeVars, Objects, Contract!vars
  <2> QED
    BY <1>2, <2>1, <2>2, VolumeSteps, CreateContract, DeleteContract, OthersContract, Zenon
<1> QED
  BY <1>1, <1>2, BackInvariant, PTL DEF Spec, ImplementsContract, Contract!Spec
============================================================================
