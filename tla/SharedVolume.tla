---------------------------- MODULE SharedVolume ----------------------------
(***************************************************************************)
(* A volume that pods on several guest nodes share: publishRWXVolume and   *)
(* unpublishRWXVolume of the controller server, nodeStageRWXVolume of the  *)
(* node server and the NetworkFilesystem of the host, whose desired state  *)
(* the former two switch.  CreateVolume and DeleteVolume, which create and *)
(* delete the NetworkFilesystem, are those of Provision.                   *)
(*                                                                         *)
(* A node has at most one pod that uses the volume.  The external-attacher *)
(* has one call per VolumeAttachment, that is per node, under way.  A copy *)
(* of the NetworkFilesystem is "fresh" until the object is written: an     *)
(* Update with another copy is refused, for its resourceVersion.           *)
(***************************************************************************)
EXTENDS Provision

CONSTANTS
  Nodes,          \* guest nodes
  InformersRun    \* the controller server's process leads the node monitor's
                  \* lease: only then start.All starts its informers

ASSUME InformersAssumption == InformersRun \in BOOLEAN

VARIABLES
  state,    \* the state in the status of the NetworkFilesystem
  pod,      \* the phase of each node's pod: "none", "pending", "running"
  indexed,  \* the nodes whose pod the informer's index has, i.e. saw Running
  va,       \* the VolumeAttachments: "none", "new", "attached", "deleting"
  call,     \* where the call for each node is
  fresh     \* the nodes whose call has a copy that is up to date

nodeVars == <<state, pod, indexed, va, call, fresh>>
vars == <<volumeVars, nodeVars>>

Calls ==
  {"idle", "publish", "create", "enable", "published",
   "unpublish", "pods", "disable", "unpublished"}

Init ==
  /\ ProvisionInit
  /\ state = "Disabled"
  /\ pod = [n \in Nodes |-> "none"]
  /\ indexed = {}
  /\ va = [n \in Nodes |-> "none"]
  /\ call = [n \in Nodes |-> "idle"]
  /\ fresh = {}

----------------------------------------------------------------------------
(* The handlers                                                            *)

\* The call for node n goes on at l, leaving the NetworkFilesystem alone; it
\* holds on to a copy of it only if keep is {n}.
Proceed(n, l, keep) ==
  /\ call' = [call EXCEPT ![n] = l]
  /\ fresh' = (fresh \ {n}) \cup keep
  /\ UNCHANGED <<netfs, state>>

\* The call for node n writes the desired state d and goes on at l.
Write(n, d, l) ==
  /\ netfs' = d
  /\ fresh' = {}
  /\ call' = [call EXCEPT ![n] = l]
  /\ UNCHANGED state

Others == <<guest, inDoubt, pvc, vrr, pc, pod, indexed, va>>

\* The calls read the host PVC first.  Its volume is not released, let alone
\* deleted, while a VolumeAttachment exists.  If isLHRWXVolume is mistaken,
\* there is nothing to do: to publish is a no-op, and no VM has the volume.
ControllerPublishVolume(n) ==
  /\ call[n] = "idle" /\ va[n] = "new"
  /\ pvc = "bound"
  /\ \E lhrwx \in IsLHRWXVolume :
       Proceed(n, IF lhrwx THEN "publish" ELSE "published", {})
  /\ UNCHANGED Others

ControllerUnpublishVolume(n) ==
  /\ call[n] = "idle" /\ va[n] = "deleting"
  /\ pvc = "bound"
  /\ \E lhrwx \in IsLHRWXVolume :
       Proceed(n, IF lhrwx THEN "unpublish" ELSE "unpublished", {})
  /\ UNCHANGED Others

\* Mutant: a NetworkFilesystem that is not found is an error.
PublishRWXVolume_NotFound(n) ==
  /\ call[n] = "publish"
  /\ IF netfs = "none" THEN Proceed(n, "idle", {})
     ELSE IF netfs = "Enabled" \/ state = "Enabling"
       THEN Proceed(n, "published", {})
       ELSE Proceed(n, "enable", {n})
  /\ UNCHANGED Others

\* publishRWXVolume reads the NetworkFilesystem.
PublishRWXVolume(n) ==
  /\ call[n] = "publish"
  /\ IF netfs = "none" THEN Proceed(n, "create", {})
     ELSE IF netfs = "Enabled" \/ state = "Enabling"
       THEN Proceed(n, "published", {})
       ELSE Proceed(n, "enable", {n})
  /\ UNCHANGED Others

\* It gives "a chance to create the networkfilesystem if not found", and asks
\* for another call.
RecreateNetworkFilesystem(n) ==
  /\ call[n] = "create"
  /\ IF netfs = "none"
       THEN Write(n, "Disabled", "idle")
       ELSE Proceed(n, "idle", {})
  /\ UNCHANGED Others

\* Mutant: a state that nobody may desire.
Enable_Enabling(n) ==
  /\ call[n] = "enable"
  /\ n \in fresh
  /\ Write(n, "Enabling", "published")
  /\ UNCHANGED Others

Enable(n) ==
  /\ call[n] = "enable"
  /\ IF n \in fresh
       THEN Write(n, "Enabled", "published")
       ELSE Proceed(n, "idle", {})
  /\ UNCHANGED Others

\* The attacher gets the answer.
Published(n) ==
  /\ call[n] = "published"
  /\ Proceed(n, "idle", {})
  /\ va' = [va EXCEPT ![n] = IF @ = "new" THEN "attached" ELSE @]
  /\ UNCHANGED <<guest, inDoubt, pvc, vrr, pc, pod, indexed>>

\* unpublishRWXVolume reads the NetworkFilesystem; that there is none is an
\* error like any other.
UnpublishRWXVolume(n) ==
  /\ call[n] = "unpublish"
  /\ IF netfs = "none" THEN Proceed(n, "idle", {})
     ELSE IF netfs = "Disabled" \/ state = "Disabling"
       THEN Proceed(n, "unpublished", {})
       ELSE Proceed(n, "pods", {n})
  /\ UNCHANGED Others

\* Mutant: pods that use the share make the call fail.
CheckPods_Error(n) ==
  /\ call[n] = "pods"
  /\ IF indexed = {}
       THEN Proceed(n, "disable", fresh \cap {n})
       ELSE Proceed(n, "idle", {})
  /\ UNCHANGED Others

\* It then looks for pods in the informer's index, which has Running ones only.
CheckPods(n) ==
  /\ call[n] = "pods"
  /\ IF indexed = {}
       THEN Proceed(n, "disable", fresh \cap {n})
       ELSE Proceed(n, "unpublished", {})
  /\ UNCHANGED Others

Disable(n) ==
  /\ call[n] = "disable"
  /\ IF n \in fresh
       THEN Write(n, "Disabled", "unpublished")
       ELSE Proceed(n, "idle", {})
  /\ UNCHANGED Others

\* The attacher gets the answer and lets the VolumeAttachment go.
Unpublished(n) ==
  /\ call[n] = "unpublished"
  /\ Proceed(n, "idle", {})
  /\ va' = [va EXCEPT ![n] = "none"]
  /\ UNCHANGED <<guest, inDoubt, pvc, vrr, pc, pod, indexed>>

CallStep(n) ==
  \/ PublishRWXVolume(n) \/ RecreateNetworkFilesystem(n) \/ Enable(n)
  \/ Published(n) \/ UnpublishRWXVolume(n) \/ CheckPods(n) \/ Disable(n)
  \/ Unpublished(n)

Fail(n) ==
  /\ call[n] # "idle"
  /\ Proceed(n, "idle", {})
  /\ UNCHANGED Others

----------------------------------------------------------------------------
(* The guest cluster: pods, VolumeAttachments, kubelets and the informer   *)

Guest == <<volumeVars, state, call, fresh>>

CreatePod(n) ==
  /\ kind = "share" /\ claim /\ pv = "provisioned"
  /\ pod[n] = "none"
  /\ pod' = [pod EXCEPT ![n] = "pending"]
  /\ UNCHANGED <<Guest, indexed, va>>

CreateVA(n) ==
  /\ pod[n] # "none" /\ va[n] = "none"
  /\ va' = [va EXCEPT ![n] = "new"]
  /\ UNCHANGED <<Guest, pod, indexed>>

\* nodeStageRWXVolume mounts the share once its endpoint is ready.
NodeStageVolume(n) ==
  /\ pod[n] = "pending" /\ va[n] = "attached"
  /\ netfs # "none" /\ state = "Enabled"
  /\ pod' = [pod EXCEPT ![n] = "running"]
  /\ UNCHANGED <<Guest, indexed, va>>

\* The pod ends and NodeUnstageVolume unmounts the share.
NodeUnstageVolume(n) ==
  /\ pod[n] # "none"
  /\ pod' = [pod EXCEPT ![n] = "none"]
  /\ UNCHANGED <<Guest, indexed, va>>

DeleteVA(n) ==
  /\ pod[n] = "none" /\ va[n] \in {"new", "attached"}
  /\ va' = [va EXCEPT ![n] = "deleting"]
  /\ UNCHANGED <<Guest, pod, indexed>>

IndexPodByPVC(n) ==
  /\ InformersRun
  /\ indexed' = IF pod[n] = "running" THEN indexed \cup {n} ELSE indexed \ {n}
  /\ indexed' # indexed
  /\ UNCHANGED <<Guest, pod, va>>

----------------------------------------------------------------------------
(* The host cluster's networkfs-manager                                    *)

NetFS == <<guest, inDoubt, pvc, vrr, pc, pod, indexed, va, call>>

SwitchState ==
  /\ \/ netfs = "Enabled" /\ state = "Enabling" /\ state' = "Enabled"
     \/ netfs = "Enabled" /\ state \in {"Disabled", "Disabling"}
        /\ state' = "Enabling"
     \/ netfs = "Disabled" /\ state = "Disabling" /\ state' = "Disabled"
     \/ netfs = "Disabled" /\ state \in {"Enabled", "Enabling"}
        /\ state' = "Disabling"
  /\ fresh' = {}
  /\ UNCHANGED <<NetFS, netfs>>

\* The NetworkFilesystem is deleted on the host.
LoseNetworkFilesystem ==
  /\ pv = "provisioned" /\ netfs # "none"
  /\ netfs' = "none" /\ state' = "Disabled" /\ fresh' = {}
  /\ UNCHANGED NetFS

----------------------------------------------------------------------------
\* A claim is deleted when no pod uses it, a PV when no VolumeAttachment does.
ProvisionStep ==
  \/ CreateVolume /\ UNCHANGED nodeVars
  \/ CreateStep /\ UNCHANGED nodeVars
  \/ DeleteVolume /\ UNCHANGED nodeVars
  \/ DeleteStep
     /\ state' = (IF netfs' = "none" THEN "Disabled" ELSE state)
     /\ UNCHANGED <<pod, indexed, va, call, fresh>>
  \/ HostStep /\ UNCHANGED nodeVars

GuestStep ==
  \/ DeleteClaim /\ (\A n \in Nodes : pod[n] = "none") /\ UNCHANGED nodeVars
  \/ Release /\ (\A n \in Nodes : va[n] = "none") /\ UNCHANGED nodeVars

Next ==
  \/ ProvisionStep \/ GuestStep
  \/ ProvisionFail /\ UNCHANGED nodeVars
  \/ \E n \in Nodes :
       \/ ControllerPublishVolume(n) \/ ControllerUnpublishVolume(n)
       \/ CallStep(n) \/ Fail(n)
       \/ CreatePod(n) \/ CreateVA(n) \/ DeleteVA(n)
       \/ NodeStageVolume(n) \/ NodeUnstageVolume(n) \/ IndexPodByPVC(n)
  \/ SwitchState \/ LoseNetworkFilesystem

Spec == Init /\ [][Next]_vars

\* In the end calls fail only when a handler gives up by itself, no pod comes or
\* goes, and the NetworkFilesystem is left to the driver.
Calm ==
  /\ ProvisionFail => CreateStep \/ DeleteStep
  /\ ~LoseNetworkFilesystem
  /\ \A n \in Nodes :
       (Fail(n) => CallStep(n)) /\ ~CreatePod(n) /\ ~NodeUnstageVolume(n)

\* The provisioner and the attacher repeat their calls, handlers run, the host
\* works.
Fairness ==
  /\ WF_vars(ProvisionStep)
  /\ WF_vars(HostStep /\ UNCHANGED nodeVars)
  /\ WF_vars(SwitchState)
  /\ \A n \in Nodes :
       /\ WF_vars(ControllerPublishVolume(n) \/ ControllerUnpublishVolume(n))
       /\ WF_vars(CallStep(n))
       /\ WF_vars(IndexPodByPVC(n))
  /\ <>[][Calm]_vars

FairSpec == Spec /\ Fairness

----------------------------------------------------------------------------
(* Properties                                                              *)

\* The variables have their types.
TypeOK ==
  /\ ProvisionTypeOK
  /\ state \in {"Disabled", "Enabling", "Enabled", "Disabling"}
  /\ pod \in [Nodes -> {"none", "pending", "running"}]
  /\ indexed \subseteq Nodes
  /\ va \in [Nodes -> {"none", "new", "attached", "deleting"}]
  /\ call \in [Nodes -> Calls]
  /\ fresh \subseteq Nodes

\* A new VolumeAttachment becomes attached unless it is deleted first, also
\* when the NetworkFilesystem has been lost and publishRWXVolume must create it,
\* and when others write it between its read and its update.
PublishCompletes ==
  \A n \in Nodes : va[n] = "new" ~> va[n] # "new"

\* A VolumeAttachment that is being deleted goes away if the NetworkFilesystem
\* stays: unpublishRWXVolume is refused or sees other pods only so often.
UnpublishCompletes ==
  <>[](netfs # "none") =>
    \A n \in Nodes : va[n] = "deleting" ~> va[n] # "deleting"

\* "do nothing if the networkfilesystem is already deleted": a VolumeAttachment
\* that is being deleted goes away whatever became of the NetworkFilesystem.
UnpublishWithoutShare ==
  \A n \in Nodes : va[n] = "deleting" ~> va[n] # "deleting"

\* "if other pods are still using this network filesystem, we cannot disable
\* it": no step of unpublishRWXVolume disables it under a running pod.
NotDisabledInUse ==
  [][netfs = "Enabled" /\ netfs' = "Disabled" =>
       \A n \in Nodes : pod[n] # "running"]_vars
============================================================================
