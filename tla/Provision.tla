----------------------------- MODULE Provision -----------------------------
(***************************************************************************)
(* The life of one volume: CreateVolume and DeleteVolume of the controller *)
(* server (src/pkg/csi/controller_server.go), the host objects they create *)
(* and delete, and the external-provisioner that calls them.               *)
(*                                                                         *)
(* All the host objects of a volume are named after it, so volumes do not  *)
(* meet.  Every call of an API server is a step of its own, and may fail;  *)
(* a failure after a step stands for a lost answer and for a restart of    *)
(* the driver as well.                                                     *)
(***************************************************************************)
CONSTANT
  StorageClassReadable    \* GETs of the host StorageClass do not fail

ASSUME ReadableAssumption == StorageClassReadable \in BOOLEAN

VARIABLES
  kind,     \* what is asked for, one of Kinds
  claim,    \* the guest PVC exists
  pv,       \* the guest PV: "none", "provisioned", "released", "gone"
  inDoubt,  \* the last CreateVolume may have left something behind
  pvc,      \* the host PVC: "none", "pending", "bound", "deleting"
  netfs,    \* the NetworkFilesystem: "none", or its desired state
  vrr,      \* the VolumeRemoteRestore: "none", "restoring", "ready"
  pc        \* where the call of CreateVolume or DeleteVolume is

guest == <<kind, claim, pv>>
host == <<pvc, netfs, vrr>>
volumeVars == <<kind, claim, pv, inDoubt, pvc, netfs, vrr, pc>>

\* A new Block volume, a new Filesystem volume of Longhorn, the same two from a
\* snapshot of one, a volume from a backup.
Kinds == {"block", "share", "clone", "shareClone", "restore"}
Shares == {"share", "shareClone"}
Clones == {"clone", "shareClone"}

CreatePCs ==
  {"build", "createPVC", "waitName", "createNetFS", "getVRR", "createVRR",
   "checkVRR", "created"}
DeletePCs ==
  {"findVRR", "deleteVRR", "getPVC", "getNetFS", "deleteNetFS", "deletePVC",
   "deleted"}

ProvisionInit ==
  /\ kind \in Kinds
  /\ claim = TRUE /\ pv = "none" /\ inDoubt = FALSE
  /\ pvc = "none" /\ netfs = "none" /\ vrr = "none"
  /\ pc = "idle"

----------------------------------------------------------------------------
(* CreateVolume                                                            *)

Goto(l) == pc' = l /\ UNCHANGED inDoubt

\* The call ends with an error.  The provisioner takes a code like
\* DeadlineExceeded to mean that the volume may yet come to be; after any
\* other, a final one, it forgets the volume unless the claim asks for it.
End(final) ==
  /\ pc' = "idle"
  /\ inDoubt' = IF pc \in CreatePCs THEN ~final ELSE inDoubt

\* What isLHRWXVolume may return: an error of the GET is logged, and the empty
\* StorageClass that comes with it is not Longhorn's.
IsLHRWXVolume ==
  {kind \in Shares} \cup (IF StorageClassReadable THEN {} ELSE {FALSE})

\* validateCreateVolReq accepts; a backup snapshot as the source makes it a
\* restore, anything else needs a host PVC.
CreateVolume ==
  /\ pc = "idle" /\ pv = "none" /\ (claim \/ inDoubt)
  /\ Goto(IF kind = "restore" THEN "getVRR" ELSE "build")
  /\ UNCHANGED <<guest, host>>

\* buildHostPVC looks the StorageClass up, and first the snapshot if there is
\* one; neither may be found (ProvisionFail).
BuildHostPVCFromScratch ==
  /\ pc = "build" /\ kind \notin Clones
  /\ Goto("createPVC")
  /\ UNCHANGED <<guest, host>>

\* The snapshot's labels say whether it is a Block or a Filesystem volume.
BuildHostPVCFromSnap ==
  /\ pc = "build" /\ kind \in Clones
  /\ Goto("createPVC")
  /\ UNCHANGED <<guest, host>>

\* createHostPVC; an existing PVC is an Internal error.
CreateHostPVC ==
  /\ pc = "createPVC"
  /\ \/ /\ pvc = "none"
        /\ pvc' = "pending"
        /\ \E lhrwx \in IsLHRWXVolume :
             Goto(IF lhrwx THEN "waitName" ELSE "created")
     \/ /\ pvc # "none"
        /\ End(TRUE)
        /\ UNCHANGED pvc
  /\ UNCHANGED <<guest, netfs, vrr>>

\* Mutant: the result of the wait is ignored.
WaitForLHVolumeName_Ignored ==
  /\ pc = "waitName"
  /\ Goto("createNetFS")
  /\ UNCHANGED <<guest, host>>

\* Mutant: no NetworkFilesystem is created.
WaitForLHVolumeName_NoShare ==
  /\ pc = "waitName"
  /\ IF pvc \in {"bound", "deleting"} THEN Goto("created") ELSE End(FALSE)
  /\ UNCHANGED <<guest, host>>

\* The PVC gets its volume's name, or the handler gives up with
\* DeadlineExceeded.
WaitForLHVolumeName ==
  /\ pc = "waitName"
  /\ IF pvc \in {"bound", "deleting"} THEN Goto("createNetFS") ELSE End(FALSE)
  /\ UNCHANGED <<guest, host>>

\* The NetworkFilesystem is created disabled; it may exist already.
CreateNetworkFilesystem ==
  /\ pc = "createNetFS"
  /\ netfs' = IF netfs = "none" THEN "Disabled" ELSE netfs
  /\ Goto("created")
  /\ UNCHANGED <<guest, pvc, vrr>>

\* Mutant: no GET precedes the creation.
GetVolumeRemoteRestore_None ==
  /\ pc = "getVRR"
  /\ Goto("createVRR")
  /\ UNCHANGED <<guest, host>>

\* buildHostVolumeRemoteRestore: the backup is there; is the restore, too?
GetVolumeRemoteRestore ==
  /\ pc = "getVRR"
  /\ Goto(IF vrr = "none" THEN "createVRR" ELSE "checkVRR")
  /\ UNCHANGED <<guest, host>>

CreateVolumeRemoteRestore ==
  /\ pc = "createVRR"
  /\ IF vrr = "none"
       THEN vrr' = "restoring" /\ Goto("checkVRR")
       ELSE UNCHANGED vrr /\ End(TRUE)
  /\ UNCHANGED <<guest, pvc, netfs>>

\* One look, not a poll: a restore under way is an Internal error.
CheckVolumeRemoteRestoreReadiness ==
  /\ pc = "checkVRR"
  /\ IF vrr = "ready" THEN Goto("created") ELSE End(TRUE)
  /\ UNCHANGED <<guest, host>>

\* The provisioner gets the answer and creates the PV.
Created ==
  /\ pc = "created"
  /\ pc' = "idle" /\ inDoubt' = FALSE
  /\ pv' = "provisioned"
  /\ UNCHANGED <<kind, claim, host>>

CreateStep ==
  \/ BuildHostPVCFromScratch \/ BuildHostPVCFromSnap \/ CreateHostPVC
  \/ WaitForLHVolumeName \/ CreateNetworkFilesystem
  \/ GetVolumeRemoteRestore \/ CreateVolumeRemoteRestore
  \/ CheckVolumeRemoteRestoreReadiness \/ Created

----------------------------------------------------------------------------
(* DeleteVolume                                                            *)

DeleteVolume ==
  /\ pc = "idle" /\ pv = "released"
  /\ Goto("findVRR")
  /\ UNCHANGED <<guest, host>>

FindVolumeRemoteRestore ==
  /\ pc = "findVRR"
  /\ Goto(IF vrr = "none" THEN "getPVC" ELSE "deleteVRR")
  /\ UNCHANGED <<guest, host>>

\* With the VolumeRemoteRestore deleted the answer is OK; the host deletes the
\* PVC it made.
DeleteVolumeRemoteRestore ==
  /\ pc = "deleteVRR"
  /\ IF vrr = "none" THEN End(TRUE) ELSE Goto("deleted")
  /\ vrr' = "none"
  /\ UNCHANGED <<guest, pvc, netfs>>

\* Mutant: a volume that is gone is an error.
GetHostPVC_NotFound ==
  /\ pc = "getPVC"
  /\ \/ pvc = "none" /\ End(TRUE)
     \/ /\ pvc # "none"
        /\ \E lhrwx \in IsLHRWXVolume :
             Goto(IF lhrwx THEN "getNetFS" ELSE "deletePVC")
  /\ UNCHANGED <<guest, host>>

GetHostPVC ==
  /\ pc = "getPVC"
  /\ \/ pvc = "none" /\ Goto("deleted")
     \/ /\ pvc # "none"
        /\ \E lhrwx \in IsLHRWXVolume :
             Goto(IF lhrwx THEN "getNetFS" ELSE "deletePVC")
  /\ UNCHANGED <<guest, host>>

\* Mutant: the NetworkFilesystem is left behind.
GetNetworkFilesystem_Kept ==
  /\ pc = "getNetFS"
  /\ Goto("deletePVC")
  /\ UNCHANGED <<guest, host>>

\* A PVC that has no volume yet names no NetworkFilesystem, and the client
\* refuses the GET.
GetNetworkFilesystem ==
  /\ pc = "getNetFS"
  /\ \/ pvc = "pending" /\ End(TRUE)
     \/ /\ pvc # "pending"
        /\ Goto(IF netfs = "none" THEN "deletePVC" ELSE "deleteNetFS")
  /\ UNCHANGED <<guest, host>>

DeleteNetworkFilesystem ==
  /\ pc = "deleteNetFS"
  /\ IF netfs = "none" THEN End(TRUE) ELSE Goto("deletePVC")
  /\ netfs' = "none"
  /\ UNCHANGED <<guest, pvc, vrr>>

DeleteHostPVC ==
  /\ pc = "deletePVC"
  /\ pvc' = IF pvc = "none" THEN "none" ELSE "deleting"
  /\ Goto("deleted")
  /\ UNCHANGED <<guest, netfs, vrr>>

\* The provisioner gets the answer and deletes the PV.
Deleted ==
  /\ pc = "deleted"
  /\ Goto("idle")
  /\ pv' = "gone"
  /\ UNCHANGED <<kind, claim, host>>

DeleteStep ==
  \/ FindVolumeRemoteRestore \/ DeleteVolumeRemoteRestore \/ GetHostPVC
  \/ GetNetworkFilesystem \/ DeleteNetworkFilesystem \/ DeleteHostPVC \/ Deleted

\* An API call fails, an answer is lost or the driver restarts.
ProvisionFail ==
  /\ pc # "idle"
  /\ \E final \in BOOLEAN : End(final)
  /\ UNCHANGED <<guest, host>>

----------------------------------------------------------------------------
(* The guest cluster's user and the host cluster's controllers             *)

DeleteClaim ==
  /\ claim
  /\ claim' = FALSE
  /\ UNCHANGED <<kind, pv, inDoubt, host, pc>>

Release ==
  /\ pv = "provisioned" /\ ~claim
  /\ pv' = "released"
  /\ UNCHANGED <<kind, claim, inDoubt, host, pc>>

BindPVC ==
  /\ pvc = "pending"
  /\ pvc' = "bound"
  /\ UNCHANGED <<guest, inDoubt, netfs, vrr, pc>>

RemovePVC ==
  /\ pvc = "deleting" \/ (kind = "restore" /\ vrr = "none" /\ pvc # "none")
  /\ pvc' = "none"
  /\ UNCHANGED <<guest, inDoubt, netfs, vrr, pc>>

RestorePVC ==
  /\ vrr = "restoring" /\ pvc = "none"
  /\ vrr' = "ready" /\ pvc' = "bound"
  /\ UNCHANGED <<guest, inDoubt, netfs, pc>>

HostStep == BindPVC \/ RemovePVC \/ RestorePVC

----------------------------------------------------------------------------
(* Properties                                                              *)

\* The variables have their types.
ProvisionTypeOK ==
  /\ kind \in Kinds
  /\ claim \in BOOLEAN /\ inDoubt \in BOOLEAN
  /\ pv \in {"none", "provisioned", "released", "gone"}
  /\ pvc \in {"none", "pending", "bound", "deleting"}
  /\ netfs \in {"none", "Disabled", "Enabled"}
  /\ vrr \in {"none", "restoring", "ready"}
  /\ pc \in {"idle"} \cup CreatePCs \cup DeletePCs

\* Until its claim is given up, a PV has what CreateVolume answered OK for: a
\* host PVC that nobody deletes and that is bound if it was restored or shared.
\* No sequence of failed and repeated calls ends in a PV without a volume.
ProvisionedIsBacked ==
  pv = "provisioned" =>
    /\ pvc \in {"pending", "bound"}
    /\ kind = "restore" => vrr = "ready"
    /\ kind \in Shares \cup {"restore"} => pvc = "bound"

\* DeleteVolume answers OK ("required to be idempotent") only when nothing of
\* the volume is left but what the host is removing by itself, whichever steps
\* earlier calls have taken before they failed.
DeletedLeavesNothing ==
  pv = "gone" =>
    /\ vrr = "none" /\ netfs = "none"
    /\ pvc \in {"none", "deleting"} \/ kind = "restore"

\* The host objects that are not being deleted.
Objects ==
  (IF pvc \in {"pending", "bound"} THEN {"PVC"} ELSE {})
    \cup (IF netfs # "none" THEN {"NetworkFilesystem"} ELSE {})
    \cup (IF vrr # "none" THEN {"VolumeRemoteRestore"} ELSE {})

Contract == INSTANCE VolumeContract WITH objects <- Objects

\* CreateVolume and DeleteVolume implement VolumeContract: no call, however
\* calls before it have failed, takes away what an earlier CreateVolume has
\* made, answers OK before all of it is there, brings back what DeleteVolume has
\* removed, or answers OK before the rest is.
ImplementsContract == Contract!Spec

\* A released volume is deleted in the end: no failure between two steps of
\* DeleteVolume leaves a state that a repeated call cannot finish.
DeleteCompletes == pv = "released" ~> pv = "gone"

\* A volume that is restored from a backup is provisioned in the end, for
\* getOrCreateVolumeRemoteRestore accepts the VolumeRemoteRestore of an earlier
\* call.
RestoreCompletes == kind = "restore" /\ claim ~> pv # "none" \/ ~claim

\* A claim that stays is provisioned in the end: after a failure the provisioner
\* calls CreateVolume "again, with the same name, to ensure the volume exists"
\* (CreateVolumeRequest), and the call takes up what the failed one has left.
CreateCompletes == claim ~> pv # "none" \/ ~claim
============================================================================
