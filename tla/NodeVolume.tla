----------------------------- MODULE NodeVolume -----------------------------
(***************************************************************************)
(* A volume on its guest node: the mounts of the node server               *)
(* (src/pkg/csi/node_server.go), and an expansion of the volume by         *)
(* ControllerExpandVolume of the controller server and NodeExpandVolume,   *)
(* called by the kubelet and by the external-resizer.                      *)
(*                                                                         *)
(* The volume is expanded once.  Mounts on one path pile up; the model     *)
(* counts the layers.  A call fails between two steps when a command or an *)
(* API call does, when its answer is lost and when the driver restarts.    *)
(***************************************************************************)
EXTENDS Integers

CONSTANTS
  SizeAlignment,   \* sizes of host PVCs are multiples of it
  Sizes,           \* sizes the guest asks for at first
  LargerSizes,     \* and when it expands the volume
  MaxLayers        \* bound: layers of mounts on one path (in NodeFail, SetPod)

ASSUME NodeAssumption ==
  /\ SizeAlignment \in Nat \ {0} /\ MaxLayers \in Nat
  /\ Sizes \subseteq Nat \ {0} /\ LargerSizes \subseteq Nat

VARIABLES
  access,      \* "block", "mount" (a file system on the device), "share"
  pod,         \* a pod of the node uses the volume
  attached,    \* the VM has the volume: the device is there
  staged,      \* has NodeStageVolume succeeded, as the kubelet knows: "no",
  published,   \* "maybe", "yes"; and NodePublishVolume
  staging,     \* layers of mounts on the staging path
  target,      \* layers of mounts on the target path
  path,        \* the target path exists
  want,        \* the size the guest asks for
  request,     \* the size the host PVC requests
  capacity,    \* the capacity in the host PVC's status
  disk,        \* the size of the VM's disk
  fs,          \* the size of the file system, 0 if there is none
  size,        \* the size the resizer has recorded
  pending,     \* a NodeExpandVolume is due
  online,      \* history: the volume was expanded since it was attached
  unresized,   \* history: a NodePublishVolume has failed between the mount that
               \* is in place and the resize after it
  nodePC,      \* where the kubelet's call is
  expandPC     \* where the resizer's call is

kubelet == <<access, pod, attached, staged, published>>
fileSystem == <<fs, unresized>>
mounts == <<staging, target, path, fileSystem>>
asked == <<want, size, pending, online>>
hostPVC == <<request, capacity, disk>>
sizes == <<asked, hostPVC, expandPC>>
usageVars == <<kubelet, mounts, sizes, nodePC>>

NodePCs ==
  {"idle", "stage", "staged", "device", "makeFile", "bind", "isMounted",
   "format", "mount", "resize", "published", "unmount", "cleanup",
   "unpublished", "unstage", "unstaged", "grow", "grown"}
ExpandPCs == {"idle", "validate", "update", "wait", "inUse", "online", "offline"}

RoundUpSize(n) ==
  IF n <= 0 THEN SizeAlignment
  ELSE IF n % SizeAlignment = 0 THEN n
  ELSE n - (n % SizeAlignment) + SizeAlignment

\* The answer of CreateVolume has the size that was asked for; the host PVC of a
\* new volume is larger by the rounding.
NodeInit ==
  /\ access \in {"block", "mount", "share"}
  /\ pod = FALSE /\ attached = FALSE /\ staged = "no" /\ published = "no"
  /\ staging = 0 /\ target = 0 /\ path = FALSE /\ fs = 0
  /\ want \in Sizes /\ size = want
  /\ request \in {want, RoundUpSize(want)} /\ capacity = request /\ disk = request
  /\ pending = FALSE /\ online = FALSE /\ unresized = FALSE
  /\ nodePC = "idle" /\ expandPC = "idle"

NodeGoto(l) == nodePC' = l

----------------------------------------------------------------------------
(* NodeStageVolume and NodeUnstageVolume                                   *)

NodeStageVolume ==
  /\ nodePC = "idle" /\ pod /\ attached /\ staged # "yes"
  /\ staged' = "maybe"
  /\ NodeGoto(IF access = "share" THEN "stage" ELSE "staged")
  /\ UNCHANGED <<access, pod, attached, published, mounts, sizes>>

\* The NetworkFilesystem is ready (or NodeFail); the share is mounted without a
\* look at what is mounted already.
NodeStageRWXVolume ==
  /\ nodePC = "stage"
  /\ staging' = staging + 1
  /\ NodeGoto("staged")
  /\ UNCHANGED <<kubelet, target, path, fileSystem, sizes>>

Staged ==
  /\ nodePC = "staged"
  /\ staged' = "yes"
  /\ NodeGoto("idle")
  /\ UNCHANGED <<access, pod, attached, published, mounts, sizes>>

NodeUnstageVolume ==
  /\ nodePC = "idle" /\ ~pod /\ published = "no" /\ staged # "no"
  /\ staged' = "maybe"
  /\ NodeGoto("unstage")
  /\ UNCHANGED <<access, pod, attached, published, mounts, sizes>>

\* Mutant: nobody looks whether the path is a mount point.
Umount_Unchecked ==
  /\ nodePC = "unstage"
  /\ staging' = staging - 1
  /\ NodeGoto("unstaged")
  /\ UNCHANGED <<kubelet, target, path, fileSystem, sizes>>

\* One layer is taken off, if there is one.
Umount ==
  /\ nodePC = "unstage"
  /\ staging' = IF staging > 0 THEN staging - 1 ELSE 0
  /\ NodeGoto("unstaged")
  /\ UNCHANGED <<kubelet, target, path, fileSystem, sizes>>

Unstaged ==
  /\ nodePC = "unstaged"
  /\ staged' = "no"
  /\ NodeGoto("idle")
  /\ UNCHANGED <<access, pod, attached, published, mounts, sizes>>

----------------------------------------------------------------------------
(* NodePublishVolume                                                       *)

NodePublishVolume ==
  /\ nodePC = "idle" /\ pod /\ staged = "yes" /\ published # "yes"
  /\ published' = "maybe"
  /\ NodeGoto(IF access = "share" THEN "isMounted" ELSE "device")
  /\ UNCHANGED <<access, pod, attached, staged, mounts, sizes>>

\* nodePublishRWOVolume: the VMI's volume is ready and the device is there (or
\* NodeFail).
GetDevicePathByVolumeID ==
  /\ nodePC = "device" /\ attached
  /\ NodeGoto(IF access = "block" THEN "makeFile" ELSE "isMounted")
  /\ UNCHANGED <<kubelet, mounts, sizes>>

MakeFile ==
  /\ nodePC = "makeFile"
  /\ path' = TRUE
  /\ NodeGoto("bind")
  /\ UNCHANGED <<kubelet, staging, target, fileSystem, sizes>>

\* The device, or the staged share, is bound to the target path.
BindMount ==
  /\ nodePC = "bind"
  /\ target' = target + 1
  /\ NodeGoto("published")
  /\ UNCHANGED <<kubelet, staging, path, fileSystem, sizes>>

\* The mount of a device fails: its file goes, unless it is a mount point.
RemoveTarget ==
  /\ nodePC = "bind" /\ access = "block"
  /\ path' = (target > 0)
  /\ NodeGoto("idle")
  /\ UNCHANGED <<kubelet, staging, target, fileSystem, sizes>>

\* Mutant: a path that is mounted already is an error.
IsMountPoint_Error ==
  /\ nodePC = "isMounted"
  /\ path' = TRUE
  /\ NodeGoto(IF target > 0 THEN "idle"
              ELSE IF access = "share" THEN "bind" ELSE "format")
  /\ UNCHANGED <<kubelet, staging, target, fileSystem, sizes>>

\* isLikelyNotMountPointAttach, or IsMountPoint for a share: the directory is
\* created, and a mount on it is what is asked for.
IsMountPoint ==
  /\ nodePC = "isMounted"
  /\ path' = TRUE
  /\ NodeGoto(IF target > 0 THEN "published"
              ELSE IF access = "share" THEN "bind" ELSE "format")
  /\ UNCHANGED <<kubelet, staging, target, fileSystem, sizes>>

\* Any other error of the look at a share's target path (a stale handle, say) is
\* ignored, and the share is bound once more.
IgnoreMountPointError ==
  /\ nodePC = "isMounted" /\ access = "share" /\ path
  /\ NodeGoto("bind")
  /\ UNCHANGED <<kubelet, mounts, sizes>>

\* FormatAndMount, in two steps.
Format ==
  /\ nodePC = "format"
  /\ fs' = IF fs = 0 THEN disk ELSE fs
  /\ NodeGoto("mount")
  /\ UNCHANGED <<kubelet, staging, target, path, unresized, sizes>>

Mount ==
  /\ nodePC = "mount"
  /\ target' = target + 1
  /\ NodeGoto("resize")
  /\ UNCHANGED <<kubelet, staging, path, fileSystem, sizes>>

\* The file system fills the disk.  NodeExpandVolume needs it mounted.
ResizeFilesystem ==
  /\ nodePC \in {"resize", "grow"} /\ target > 0 /\ attached
  /\ fs' = disk /\ unresized' = FALSE
  /\ NodeGoto(IF nodePC = "resize" THEN "published" ELSE "grown")
  /\ UNCHANGED <<kubelet, staging, target, path, sizes>>

Published ==
  /\ nodePC = "published"
  /\ published' = "yes"
  /\ NodeGoto("idle")
  /\ UNCHANGED <<access, pod, attached, staged, mounts, sizes>>

----------------------------------------------------------------------------
(* NodeUnpublishVolume                                                     *)

NodeUnpublishVolume ==
  /\ nodePC = "idle" /\ ~pod /\ published # "no"
  /\ published' = "maybe"
  /\ NodeGoto("unmount")
  /\ UNCHANGED <<access, pod, attached, staged, mounts, sizes>>

\* Mutant: one layer is unmounted, and the path is left.
Unmount_Once ==
  /\ nodePC = "unmount"
  /\ target' = IF target > 0 THEN target - 1 ELSE 0
  /\ NodeGoto("unpublished")
  /\ UNCHANGED <<kubelet, staging, path, fileSystem, sizes>>

\* Mutant: "not mounted" is an error.
Unmount_NotMounted ==
  /\ nodePC = "unmount"
  /\ target' = IF target > 0 THEN target - 1 ELSE 0
  /\ NodeGoto(IF target > 1 THEN "unmount" ELSE IF target = 1 THEN "cleanup"
              ELSE "idle")
  /\ UNCHANGED <<kubelet, staging, path, fileSystem, sizes>>

\* The loop unmounts until nothing is mounted.
Unmount ==
  /\ nodePC = "unmount"
  /\ target' = IF target > 0 THEN target - 1 ELSE 0
  /\ unresized' = (unresized /\ target > 1)
  /\ NodeGoto(IF target > 1 THEN "unmount" ELSE "cleanup")
  /\ UNCHANGED <<kubelet, staging, path, fs, sizes>>

CleanupMountPoint ==
  /\ nodePC = "cleanup"
  /\ path' = FALSE
  /\ NodeGoto("unpublished")
  /\ UNCHANGED <<kubelet, staging, target, fileSystem, sizes>>

Unpublished ==
  /\ nodePC = "unpublished"
  /\ published' = "no"
  /\ NodeGoto("idle")
  /\ UNCHANGED <<access, pod, attached, staged, mounts, sizes>>

\* A command or an API call fails, the answer is lost or the driver restarts.
\* A call that is repeated after a failed resize finds the path mounted and does
\* not get to the resize again (IsMountPoint).
NodeFail ==
  /\ nodePC # "idle"
  /\ nodePC = "staged" => staging < MaxLayers
  /\ nodePC = "published" => target < MaxLayers
  /\ unresized' = (unresized \/ nodePC = "resize")
  /\ NodeGoto("idle")
  /\ UNCHANGED <<kubelet, staging, target, path, fs, sizes>>

----------------------------------------------------------------------------
(* ControllerExpandVolume                                                  *)

Expanding(l) ==
  /\ expandPC' = l
  /\ UNCHANGED <<kubelet, mounts, asked, hostPVC, nodePC>>

\* Mutant: a request for the size the host PVC has is refused.
ControllerExpandVolume_Same ==
  /\ expandPC = "idle" /\ size < want
  /\ request < want
  /\ Expanding("validate")

\* A request that is smaller than the host PVC's is refused.
ControllerExpandVolume ==
  /\ expandPC = "idle" /\ size < want
  /\ request <= want
  /\ Expanding("validate")

\* A volume in use needs the host's setting for online expansion (or
\* ExpandFail).
ValidateOnlineExpansion ==
  /\ expandPC = "validate"
  /\ Expanding("update")

UpdatePVCSize ==
  /\ expandPC = "update"
  /\ request' = want
  /\ expandPC' = "wait"
  /\ UNCHANGED <<kubelet, mounts, asked, capacity, disk, nodePC>>

\* Mutant: the volume's use is checked before the wait.
WaitForPVCState_UseFirst ==
  /\ expandPC = "wait"
  /\ Expanding(IF attached THEN "online" ELSE "offline")

\* The PVC has the capacity, or the handler gives up with DeadlineExceeded.
WaitForPVCState ==
  /\ expandPC = "wait"
  /\ Expanding(IF capacity >= want THEN "inUse" ELSE "idle")

\* The volume is in use if a pod of the host has it: the pod that attaches it.
IsVolumeInUse ==
  /\ expandPC = "inUse"
  /\ Expanding(IF attached THEN "online" ELSE "offline")

\* The resizer gets the answer.
Expanded ==
  /\ expandPC \in {"online", "offline"}
  /\ size' = want
  /\ pending' = (expandPC = "online")
  /\ online' = (expandPC = "online" /\ attached)
  /\ expandPC' = "idle"
  /\ UNCHANGED <<kubelet, mounts, want, hostPVC, nodePC>>

ExpandFail ==
  /\ expandPC # "idle"
  /\ Expanding("idle")

----------------------------------------------------------------------------
(* NodeExpandVolume                                                        *)

\* Nothing is done for a device.
NodeExpandVolume ==
  /\ nodePC = "idle" /\ pod /\ pending /\ published = "yes"
  /\ NodeGoto(IF access = "mount" THEN "grow" ELSE "grown")
  /\ UNCHANGED <<kubelet, mounts, sizes>>

Grown ==
  /\ nodePC = "grown"
  /\ pending' = FALSE
  /\ NodeGoto("idle")
  /\ UNCHANGED <<kubelet, mounts, want, size, online, hostPVC, expandPC>>

NodeStep ==
  \/ NodeStageVolume \/ NodeStageRWXVolume \/ Staged
  \/ NodeUnstageVolume \/ Umount \/ Unstaged
  \/ NodePublishVolume \/ GetDevicePathByVolumeID \/ MakeFile \/ BindMount
  \/ IsMountPoint \/ Format \/ Mount \/ ResizeFilesystem \/ Published
  \/ NodeUnpublishVolume \/ Unmount \/ CleanupMountPoint \/ Unpublished
  \/ NodeExpandVolume \/ Grown

ExpandStep ==
  \/ ValidateOnlineExpansion \/ UpdatePVCSize \/ WaitForPVCState
  \/ IsVolumeInUse \/ Expanded

----------------------------------------------------------------------------
(* The guest cluster's users and attacher, the host's resizer and KubeVirt *)

SetPod(p) ==
  /\ pod # p
  /\ p => staging < MaxLayers /\ target < MaxLayers
  /\ pod' = p
  /\ UNCHANGED <<access, attached, staged, published, mounts, sizes, nodePC>>

Attach ==
  /\ pod /\ ~attached
  /\ attached' = TRUE /\ disk' = capacity /\ online' = FALSE
  /\ UNCHANGED <<access, pod, staged, published, mounts, want, size, pending,
                 request, capacity, nodePC, expandPC>>

\* The kubelet lets the volume go when no call may have left it mounted.
Detach ==
  /\ attached /\ ~pod /\ published = "no" /\ staged = "no" /\ nodePC = "idle"
  /\ attached' = FALSE
  /\ UNCHANGED <<access, pod, staged, published, mounts, sizes, nodePC>>

AskForMore ==
  /\ access # "share" /\ want = size /\ want \in Sizes
  /\ want' \in {n \in LargerSizes : n > want}
  /\ UNCHANGED <<kubelet, mounts, hostPVC, size, pending, online, nodePC,
                 expandPC>>

ExpandPVC ==
  /\ capacity < request
  /\ capacity' = request
  /\ disk' = IF attached THEN disk ELSE request
  /\ UNCHANGED <<kubelet, mounts, asked, request, nodePC, expandPC>>

\* KubeVirt shows a running VM the larger disk.
ResizeDisk ==
  /\ attached /\ disk < capacity
  /\ disk' = capacity
  /\ UNCHANGED <<kubelet, mounts, asked, request, capacity, nodePC, expandPC>>

----------------------------------------------------------------------------
(* Properties                                                              *)

\* The variables have their types.
NodeTypeOK ==
  /\ access \in {"block", "mount", "share"}
  /\ pod \in BOOLEAN /\ attached \in BOOLEAN /\ path \in BOOLEAN
  /\ pending \in BOOLEAN /\ online \in BOOLEAN /\ unresized \in BOOLEAN
  /\ staged \in {"no", "maybe", "yes"} /\ published \in {"no", "maybe", "yes"}
  /\ staging \in 0..MaxLayers /\ target \in 0..MaxLayers
  /\ {want, request, capacity, disk, size, fs} \subseteq Nat
  /\ nodePC \in NodePCs /\ expandPC \in ExpandPCs

\* A device leaves the VM only when nothing is mounted on the target path and
\* the path is gone, however many layers repeated calls of NodePublishVolume
\* have piled up: NodeUnpublishVolume takes off all of them.
UnmountedBeforeDetach == ~attached => target = 0 /\ ~path

\* A pod that runs has its volume mounted, and its file system is as large as
\* the resizer has recorded ("If the block device is bigger than the filesystem,
\* grow the filesystem"), with two exceptions: the volume was expanded while
\* attached as it is, or the NodePublishVolume that has mounted it has failed
\* before its resize, which no repeated call makes up for.  Otherwise an offline
\* expansion is caught up with by the next NodePublishVolume, whichever of its
\* calls fail elsewhere, and none falls between the two, whenever the volume is
\* attached and detached while ControllerExpandVolume runs.
FilesystemGrown ==
  published = "yes" =>
    /\ target > 0
    /\ access = "mount" /\ ~online /\ ~unresized => fs >= size
============================================================================
