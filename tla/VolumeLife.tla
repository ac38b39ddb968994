----------------------------- MODULE VolumeLife -----------------------------
(***************************************************************************)
(* The life of one volume: it may be made from a snapshot or a backup      *)
(* (Snapshots), is provisioned and deleted (Provision), and in between is  *)
(* attached to a node, mounted and expanded (NodeVolume).                  *)
(*                                                                         *)
(* The guest cluster's rules tie the parts together: a volume is made only *)
(* from a ready snapshot, a snapshot stays while a claim waits for a       *)
(* volume made from it, a claim stays while a pod uses it, and a PV is     *)
(* released when it is detached.                                           *)
(***************************************************************************)
EXTENDS Provision, Snapshots, NodeVolume

CONSTANT UsedKinds    \* bound: the kinds of volumes that pods use

vars == <<volumeVars, snapVars, usageVars>>

FromSnapshot == kind \in Clones \cup {"restore"}

Init ==
  /\ ProvisionInit /\ NodeInit
  /\ (access = "share") <=> (kind = "share")
  /\ kind \notin UsedKinds => access # "mount"
  /\ request = IF FromSnapshot THEN want ELSE RoundUpSize(want)
  /\ \/ /\ FromSnapshot
        /\ SnapInit
        /\ snapType = IF kind \in Clones THEN "local" ELSE "backup"
     \/ /\ ~FromSnapshot
        /\ snapType = "local" /\ wanted = FALSE /\ content = "gone"
        /\ snapDoubt = FALSE /\ snap = "none" /\ lost = FALSE /\ snapPC = "idle"

----------------------------------------------------------------------------
\* The GET of the source, a VolumeSnapshot or a VolumeRemoteBackup.
GetsSource == (pc = "build" /\ kind \in Clones) \/ pc = "getVRR"

SourceNotFound ==
  /\ GetsSource /\ snap = "none"
  /\ End(TRUE)
  /\ UNCHANGED <<guest, host>>

ProvisionStep ==
  /\ \/ CreateVolume /\ (FromSnapshot => content = "ready" /\ wanted)
     \/ CreateStep /\ (GetsSource => snap # "none")
     \/ SourceNotFound
     \/ DeleteVolume
     \/ DeleteStep
  /\ UNCHANGED <<snapVars, usageVars>>

\* The host keeps a snapshot while a PVC that is made from it is pending.
HostVolumeStep ==
  /\ \/ BindPVC /\ (kind \in Clones => snap \in {"ready", "deleting"})
     \/ RemovePVC
     \/ RestorePVC /\ snap \in {"ready", "deleting"}
  /\ UNCHANGED <<snapVars, usageVars>>

HostSnapStep ==
  /\ TakeSnap \/ (RemoveSnap /\ ~(kind \in Clones /\ pvc = "pending"))
  /\ UNCHANGED <<volumeVars, usageVars>>

\* The resizer works on claims with a PV.
Expand ==
  /\ \/ ControllerExpandVolume /\ claim /\ pv = "provisioned" /\ pvc = "bound"
     \/ ExpandStep
  /\ UNCHANGED <<volumeVars, snapVars>>

HostUsageStep ==
  /\ \/ Attach /\ pvc = "bound"
     \/ Detach
     \/ ExpandPVC /\ pvc = "bound"
     \/ ResizeDisk
  /\ UNCHANGED <<volumeVars, snapVars>>

\* What the users of the guest cluster do.
UserStep ==
  \/ /\ DeleteClaim /\ ~pod
     /\ UNCHANGED <<snapVars, usageVars>>
  \/ /\ DeleteVolumeSnapshot /\ ~(claim /\ pv = "none")
     /\ UNCHANGED <<volumeVars, usageVars>>
  \/ /\ kind \in UsedKinds /\ claim /\ pv = "provisioned"
     /\ SetPod(TRUE) \/ SetPod(FALSE) \/ AskForMore
     /\ UNCHANGED <<volumeVars, snapVars>>

GuestStep ==
  \/ Release /\ ~attached /\ UNCHANGED <<snapVars, usageVars>>
  \/ DropContent /\ UNCHANGED <<volumeVars, usageVars>>

\* What goes wrong.
Fault ==
  \/ ProvisionFail /\ UNCHANGED <<snapVars, usageVars>>
  \/ (SnapFail \/ FailSnap \/ LoseSnap) /\ UNCHANGED <<volumeVars, usageVars>>
  \/ /\ NodeFail \/ RemoveTarget \/ IgnoreMountPointError \/ ExpandFail
     /\ UNCHANGED <<volumeVars, snapVars>>

Next ==
  \/ ProvisionStep \/ HostVolumeStep
  \/ SnapStep /\ UNCHANGED <<volumeVars, usageVars>>
  \/ HostSnapStep
  \/ NodeStep /\ UNCHANGED <<volumeVars, snapVars>>
  \/ Expand \/ HostUsageStep \/ UserStep \/ GuestStep \/ Fault

Spec == Init /\ [][Next]_vars

\* In the end calls fail only when a handler gives up by itself, and the host's
\* snapshots neither fail nor are lost.
Calm ==
  /\ ProvisionFail => ProvisionStep
  /\ SnapFail => SnapStep
  /\ ExpandFail => Expand
  /\ NodeFail => NodeStep
  /\ IgnoreMountPointError => NodeStep
  /\ ~RemoveTarget /\ ~FailSnap /\ ~LoseSnap

\* The sidecars and the kubelet repeat their calls, handlers run, the host and
\* the guest cluster's controllers work.
Fairness ==
  /\ WF_vars(ProvisionStep) /\ WF_vars(HostVolumeStep)
  /\ WF_vars(SnapStep /\ UNCHANGED <<volumeVars, usageVars>>)
  /\ WF_vars(HostSnapStep)
  /\ WF_vars(NodeStep /\ UNCHANGED <<volumeVars, snapVars>>)
  /\ WF_vars(Expand)
  /\ WF_vars(Attach /\ HostUsageStep) /\ WF_vars(Detach /\ HostUsageStep)
  /\ WF_vars(ExpandPVC /\ HostUsageStep) /\ WF_vars(ResizeDisk /\ HostUsageStep)
  /\ WF_vars(GuestStep)
  /\ <>[][Calm]_vars

FairSpec == Spec /\ Fairness

----------------------------------------------------------------------------
(* Properties                                                              *)

\* The variables have their types.
TypeOK == ProvisionTypeOK /\ SnapTypeOK /\ NodeTypeOK

\* A pod gets its volume mounted unless it goes away first: no failed or
\* repeated call leaves a mount, a directory or a file that is in the way.
MountCompletes == pod ~> published = "yes" \/ ~pod

\* When the pod has gone the volume is detached in the end.
UnmountCompletes == ~pod ~> ~attached \/ pod

\* An expansion that is asked for is recorded in the end, unless the host PVC was
\* made larger than that, and the kubelet of a running pod is done with it.
ExpandCompletes ==
  /\ size < want /\ request <= want ~> size = want \/ ~claim
  /\ pending /\ published = "yes" ~> ~pending \/ published # "yes"
============================================================================
