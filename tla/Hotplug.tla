------------------------------ MODULE Hotplug ------------------------------
(***************************************************************************)
(* Attaching and detaching ReadWriteOnce volumes: ControllerPublishVolume  *)
(* and ControllerUnpublishVolume of pkg/csi/controller_server.go, and the  *)
(* node controller's removal of all hotplug volumes of a dead VM           *)
(* (pkg/controller/node/controller.go), around the objects they share: the *)
(* host cluster's VM and VMI of each guest node, the VolumeAttachments of  *)
(* the guest and of the host cluster.                                      *)
(*                                                                         *)
(* Every API call of a handler is a step of its own, because other         *)
(* handlers, KubeVirt and the attach/detach controllers run in between.    *)
(*                                                                         *)
(* Abstractions.  A volume and its disk are one entry of spec: both lists  *)
(* are written by the same patch.  The resourceVersion of a VM is not      *)
(* counted: a reader's copy is fresh until the VM is written, which is     *)
(* what the patch's test of the resourceVersion finds out.  The host PVC   *)
(* of a volume is Bound; a handler that finds otherwise returns an error   *)
(* before it has any effect, which is Fail.                                *)
(***************************************************************************)
EXTENDS FiniteSets

CONSTANTS
  Vols,                   \* hotpluggable volumes (host PVC = guest PV name)
  BlockVols,              \* those whose host PVC has volumeMode Block
  Fixed,                  \* volumes a VM is created with, e.g. its root disk
  Nodes,                  \* guest nodes; each is a VM of the host cluster
  Hosts,                  \* host cluster nodes
  HostOf,                 \* where the VMI of a guest node runs
  Calls,                  \* handlers the driver runs at the same time
  None,                   \* no volume, no node
  UseDeclarativeHotplug,  \* cs.useDeclarativeHotplug
  ListMayFail,            \* may a List of the host's VolumeAttachments fail?
  FailingNodes,           \* nodes that may be lost together with their VM
  StoppingNodes,          \* nodes whose VMI may disappear and come back
  MayAbandon              \* may the attacher stop waiting for a handler?

ASSUME HotplugAssumption ==
  /\ BlockVols \subseteq Vols
  /\ Fixed \cap Vols = {}
  /\ HostOf \in [Nodes -> Hosts]
  /\ None \notin Vols \cup Nodes
  /\ UseDeclarativeHotplug \in BOOLEAN
  /\ ListMayFail \in BOOLEAN
  /\ MayAbandon \in BOOLEAN
  /\ FailingNodes \subseteq Nodes
  /\ StoppingNodes \subseteq Nodes

VARIABLES
  spec,     \* VM.spec.template.spec.volumes (and disks) of each node's VM
  want,     \* hotplug volumes in the VMI's spec, what KubeVirt works towards
  hot,      \* entries of VMI.status.volumeStatus with HotplugVolume set
  running,  \* nodes whose VMI exists
  hostVA,   \* host cluster VolumeAttachments: <<volume, host>>
  va,       \* guest cluster VolumeAttachment of each <<volume, node>>
  down,     \* nodes that are lost: node not Ready and VM not Ready
  \* the controller server's handlers
  pc,       \* the next step
  vol,      \* the request: its volume
  node,     \* and its node
  seen,     \* handlers whose first of two reads has found the volume
  copy,     \* the list of volumes of the VM the handler has read
  fresh,    \* handlers whose VM still has the resourceVersion it had then
  live,     \* handlers whose answer the attacher still waits for
  \* the node controller's removeAllHotplugVolumes of each node
  purge,    \* the next step
  listed,   \* the list of volumes of the VM, or what is left of it to remove
  current   \* nodes whose VM still has the resourceVersion it had then

objects == <<spec, want, hot, running, hostVA, va, down>>
handlers == <<pc, vol, node, seen, copy, fresh, live>>
purges == <<purge, listed, current>>
vars == <<objects, handlers, purges>>

VAs == Vols \X Nodes

\* A VolumeAttachment is absent, or present with Status.Attached or not and
\* with a deletionTimestamp ("Del") or not.
VAStates == {"none", "new", "newDel", "attached", "attachedDel"}
IsAttached(s) == s \in {"attached", "attachedDel"}
IsDeleting(s) == s \in {"newDel", "attachedDel"}

PublishPCs ==
  {"hostVA", "guestVA", "isVM", "isVMI", "add", "addPatch", "waitVM", "waitVMI"}
UnpublishPCs == {"unVMI", "unVM", "remove", "removePatch"}

Init ==
  /\ spec = [n \in Nodes |-> Fixed]
  /\ want = [n \in Nodes |-> {}]
  /\ hot = [n \in Nodes |-> {}]
  /\ running = Nodes
  /\ hostVA = {}
  /\ va = [a \in VAs |-> "none"]
  /\ down = {}
  /\ pc = [c \in Calls |-> "idle"]
  /\ vol = [c \in Calls |-> None]
  /\ node = [c \in Calls |-> None]
  /\ seen = {}
  /\ copy = [c \in Calls |-> {}]
  /\ fresh = {}
  /\ live = {}
  /\ purge = [n \in Nodes |-> "idle"]
  /\ listed = [n \in Nodes |-> {}]
  /\ current = {}

----------------------------------------------------------------------------
(* Writes of a VM.                                                         *)

\* A write gives the VM a new resourceVersion: every copy of it is outdated.
Outdate(n) ==
  /\ fresh' = {c \in fresh : node[c] # n}
  /\ current' = current \ {n}

\* Declarative hotplug: KubeVirt carries the new list over to the VMI's spec.
WriteSpec(n, volumes) ==
  /\ spec' = [spec EXCEPT ![n] = volumes]
  /\ want' = [want EXCEPT ![n] = IF n \in running THEN volumes \ Fixed ELSE {}]
  /\ Outdate(n)

\* Subresources of the VM: add and remove one volume in the VM and in its VMI.
SubresourceAdd(n, v) ==
  /\ v \notin spec[n]
  /\ spec' = [spec EXCEPT ![n] = @ \cup {v}]
  /\ want' = [want EXCEPT ![n] = IF n \in running THEN @ \cup {v} ELSE @]
  /\ Outdate(n)

SubresourceRemove(n, v) ==
  /\ v \in spec[n]
  /\ spec' = [spec EXCEPT ![n] = @ \ {v}]
  /\ want' = [want EXCEPT ![n] = @ \ {v}]
  /\ Outdate(n)

----------------------------------------------------------------------------
(* ControllerPublishVolume                                                 *)

Goto(c, step) == pc' = [pc EXCEPT ![c] = step]

\* The handler has returned.
End(c) ==
  /\ pc' = [pc EXCEPT ![c] = "idle"]
  /\ vol' = [vol EXCEPT ![c] = None]
  /\ node' = [node EXCEPT ![c] = None]
  /\ seen' = seen \ {c}
  /\ copy' = [copy EXCEPT ![c] = {}]
  /\ live' = live \ {c}

\* Mutant: any VolumeAttachment of the volume blocks, that of its own host too.
CheckHostVA_OwnHost(c) ==
  /\ pc[c] = "hostVA"
  /\ node[c] \in running
  /\ \A h \in Hosts : <<vol[c], h>> \notin hostVA
  /\ Goto(c, "guestVA")
  /\ UNCHANGED <<objects, vol, node, seen, copy, fresh, live, purges>>

\* waitForVASettled, up to the check of the host's VolumeAttachments.  If this
\* List of them fails, for whatever reason and whichever have succeeded before,
\* or if the volume is not a block volume, nothing is checked.  Without a VMI the
\* poll ends with an error (Fail); while a VolumeAttachment of another host is
\* there it goes on.
CheckHostVA(c) ==
  LET v == vol[c]
      n == node[c] IN
  /\ pc[c] = "hostVA"
  /\ \/ /\ ListMayFail \/ v \notin BlockVols
        /\ Goto(c, "isVM")
     \/ /\ v \in BlockVols
        /\ n \in running
        /\ \A h \in Hosts : <<v, h>> \in hostVA => h = HostOf[n]
        /\ Goto(c, "guestVA")
  /\ UNCHANGED <<objects, vol, node, seen, copy, fresh, live, purges>>

\* Mutant: the guest's VolumeAttachments are not looked at.
CheckGuestVA_Skipped(c) ==
  /\ pc[c] = "guestVA"
  /\ Goto(c, "isVM")
  /\ UNCHANGED <<objects, vol, node, seen, copy, fresh, live, purges>>

\* checkGuestVA: a VolumeAttachment of another guest node that is Attached
\* sends the poll back to its start.
CheckGuestVA(c) ==
  /\ pc[c] = "guestVA"
  /\ Goto(c, IF \E m \in Nodes \ {node[c]} : IsAttached(va[<<vol[c], m>>])
               THEN "hostVA" ELSE "isVM")
  /\ UNCHANGED <<objects, vol, node, seen, copy, fresh, live, purges>>

\* isVolAttached reads the VM, then the VMI; it is called once before the
\* hotplug and polled after it (waitForVolumeAttached).
CheckVolumeInVM(c) ==
  /\ pc[c] \in {"isVM", "waitVM"}
  /\ Goto(c, IF pc[c] = "isVM" THEN "isVMI" ELSE "waitVMI")
  /\ seen' = IF vol[c] \in spec[node[c]] THEN seen \cup {c} ELSE seen \ {c}
  /\ UNCHANGED <<objects, vol, node, copy, fresh, live, purges>>

\* Mutant: a volume that is not in the VM is taken for an attached one.
CheckVolumeInVMI_Inverted(c) ==
  /\ pc[c] \in {"isVMI", "waitVMI"}
  /\ \/ /\ c \notin seen /\ c \in live
        /\ va' = [va EXCEPT ![<<vol[c], node[c]>>] = "attached"]
        /\ End(c)
     \/ /\ c \in seen
        /\ Goto(c, IF pc[c] = "isVMI" THEN "add" ELSE "waitVM")
        /\ UNCHANGED <<va, vol, node, seen, copy, live>>
  /\ UNCHANGED <<spec, want, hot, running, hostVA, down, fresh, purges>>

\* Mutant: the volume's entry in the VM is enough.
CheckVolumeInVMI_Listed(c) ==
  LET a == <<vol[c], node[c]>> IN
  /\ pc[c] \in {"isVMI", "waitVMI"}
  /\ \/ /\ c \in seen /\ c \in live
        /\ va' = [va EXCEPT ![a] = IF IsDeleting(@) THEN "attachedDel" ELSE "attached"]
        /\ End(c)
     \/ /\ c \notin seen
        /\ Goto(c, IF pc[c] = "isVMI" THEN "add" ELSE "waitVM")
        /\ UNCHANGED <<va, vol, node, seen, copy, live>>
  /\ UNCHANGED <<spec, want, hot, running, hostVA, down, fresh, purges>>

\* Found in both: the call returns OK, which the attacher records.
CheckVolumeInVMI(c) ==
  LET a == <<vol[c], node[c]>> IN
  /\ pc[c] \in {"isVMI", "waitVMI"}
  /\ \/ /\ c \in seen /\ vol[c] \in hot[node[c]]
        /\ va' = IF c \in live
                   THEN [va EXCEPT ![a] = IF IsDeleting(@) THEN "attachedDel"
                                                           ELSE "attached"]
                   ELSE va
        /\ End(c)
     \/ /\ ~(c \in seen /\ vol[c] \in hot[node[c]])
        /\ Goto(c, IF pc[c] = "isVMI" THEN "add" ELSE "waitVM")
        /\ UNCHANGED <<va, vol, node, seen, copy, live>>
  /\ UNCHANGED <<spec, want, hot, running, hostVA, down, fresh, purges>>

\* hotplugVolumeToVM: addVolumeToVM's GET, which skips the patch when the
\* volume is already there, or the legacy AddVolume subresource.
HotplugVolumeToVM(c) ==
  LET v == vol[c]
      n == node[c] IN
  /\ pc[c] = "add"
  /\ \/ /\ UseDeclarativeHotplug /\ v \in spec[n]
        /\ Goto(c, "waitVM")
        /\ UNCHANGED <<spec, want, copy, fresh, current>>
     \/ /\ UseDeclarativeHotplug /\ v \notin spec[n]
        /\ Goto(c, "addPatch")
        /\ copy' = [copy EXCEPT ![c] = spec[n]]
        /\ fresh' = fresh \cup {c}
        /\ UNCHANGED <<spec, want, current>>
     \/ /\ ~UseDeclarativeHotplug
        /\ SubresourceAdd(n, v)
        /\ Goto(c, "waitVM")
        /\ UNCHANGED copy
  /\ UNCHANGED <<hot, running, hostVA, va, down, vol, node, seen, live,
                 purge, listed>>

\* Mutant: the request's node and volume are swapped.
AddVolumePatch_Swapped(c) ==
  /\ pc[c] = "addPatch"
  /\ c \in fresh
  /\ WriteSpec(node[c], spec[node[c]] \cup {node[c]})
  /\ Goto(c, "waitVM")
  /\ copy' = [copy EXCEPT ![c] = {}]
  /\ UNCHANGED <<hot, running, hostVA, va, down, vol, node, seen, live,
                 purge, listed>>

\* addVolumeToVM's PATCH: test the resourceVersion, append the volume.
AddVolumePatch(c) ==
  /\ pc[c] = "addPatch"
  /\ c \in fresh
  /\ WriteSpec(node[c], spec[node[c]] \cup {vol[c]})
  /\ Goto(c, "waitVM")
  /\ copy' = [copy EXCEPT ![c] = {}]
  /\ UNCHANGED <<hot, running, hostVA, va, down, vol, node, seen, live,
                 purge, listed>>

----------------------------------------------------------------------------
(* ControllerUnpublishVolume                                               *)

\* removeVolumeFromHostVM reads the VMI first, then the VM.
RemoveCheckVMI(c) ==
  /\ pc[c] = "unVMI"
  /\ Goto(c, "unVM")
  /\ seen' = IF vol[c] \in hot[node[c]] THEN seen \cup {c} ELSE seen \ {c}
  /\ UNCHANGED <<objects, vol, node, copy, fresh, live, purges>>

\* Mutants: one of the two reads decides.
RemoveCheckVM_VMOnly(c) ==
  /\ pc[c] = "unVM"
  /\ \/ /\ vol[c] \in spec[node[c]]
        /\ Goto(c, "remove")
        /\ UNCHANGED <<va, vol, node, seen, copy, live>>
     \/ /\ vol[c] \notin spec[node[c]] /\ c \in live
        /\ va' = [va EXCEPT ![<<vol[c], node[c]>>] = "none"]
        /\ End(c)
  /\ UNCHANGED <<spec, want, hot, running, hostVA, down, fresh, purges>>

RemoveCheckVM_VMIOnly(c) ==
  /\ pc[c] = "unVM"
  /\ \/ /\ c \in seen
        /\ Goto(c, "remove")
        /\ UNCHANGED <<va, vol, node, seen, copy, live>>
     \/ /\ c \notin seen /\ c \in live
        /\ va' = [va EXCEPT ![<<vol[c], node[c]>>] = "none"]
        /\ End(c)
  /\ UNCHANGED <<spec, want, hot, running, hostVA, down, fresh, purges>>

\* Found in neither: the volume is detached and the call returns OK, on which
\* the attacher lets the VolumeAttachment go.
RemoveCheckVM(c) ==
  LET a == <<vol[c], node[c]>> IN
  /\ pc[c] = "unVM"
  /\ \/ /\ vol[c] \in spec[node[c]] \/ c \in seen
        /\ Goto(c, "remove")
        /\ UNCHANGED <<va, vol, node, seen, copy, live>>
     \/ /\ vol[c] \notin spec[node[c]] /\ c \notin seen
        /\ va' = IF c \in live THEN [va EXCEPT ![a] = "none"] ELSE va
        /\ End(c)
  /\ UNCHANGED <<spec, want, hot, running, hostVA, down, fresh, purges>>

\* Mutant: only the VMI is asked to remove the volume, never the VM.
UnplugVolumeFromVM_VMIOnly(c) ==
  /\ pc[c] = "remove"
  /\ vol[c] \in want[node[c]]
  /\ want' = [want EXCEPT ![node[c]] = @ \ {vol[c]}]
  /\ End(c)
  /\ UNCHANGED <<spec, hot, running, hostVA, va, down, fresh, purges>>

\* unplugVolumeFromVM: removeVolumeFromVM's GET, or the legacy RemoveVolume
\* subresource of the VMI if the VMI had the volume, else of the VM.  A legacy
\* request that was sent ends the call with Aborted.
UnplugVolumeFromVM(c) ==
  LET v == vol[c]
      n == node[c] IN
  /\ pc[c] = "remove"
  /\ \/ /\ UseDeclarativeHotplug
        /\ Goto(c, "removePatch")
        /\ copy' = [copy EXCEPT ![c] = spec[n]]
        /\ fresh' = fresh \cup {c}
        /\ UNCHANGED <<spec, want, vol, node, seen, live, current>>
     \/ /\ ~UseDeclarativeHotplug /\ c \in seen
        /\ v \in want[n]
        /\ want' = [want EXCEPT ![n] = @ \ {v}]
        /\ End(c)
        /\ UNCHANGED <<spec, fresh, current>>
     \/ /\ ~UseDeclarativeHotplug /\ c \notin seen
        /\ SubresourceRemove(n, v)
        /\ End(c)
  /\ UNCHANGED <<hot, running, hostVA, va, down, purge, listed>>

\* Mutants: the patch does not test the resourceVersion; it keeps the volume.
RemoveVolumePatch_NoTest(c) ==
  /\ pc[c] = "removePatch"
  /\ WriteSpec(node[c], copy[c] \ {vol[c]})
  /\ End(c)
  /\ UNCHANGED <<hot, running, hostVA, va, down, purge, listed>>

RemoveVolumePatch_Keeps(c) ==
  /\ pc[c] = "removePatch"
  /\ c \in fresh
  /\ WriteSpec(node[c], copy[c])
  /\ End(c)
  /\ UNCHANGED <<hot, running, hostVA, va, down, purge, listed>>

\* removeVolumeFromVM's PATCH: test the resourceVersion, then replace the
\* whole list by the copy without the volume.  The call ends with Aborted.
RemoveVolumePatch(c) ==
  /\ pc[c] = "removePatch"
  /\ c \in fresh
  /\ WriteSpec(node[c], copy[c] \ {vol[c]})
  /\ End(c)
  /\ UNCHANGED <<hot, running, hostVA, va, down, purge, listed>>

\* Any handler may end with an error after any of its steps: an API call
\* failed, the resourceVersion test of its patch failed, a poll timed out, or
\* the driver was restarted.  Nothing it has written is undone.
Fail(c) ==
  /\ pc[c] # "idle"
  /\ End(c)
  /\ fresh' = fresh \ {c}
  /\ UNCHANGED <<objects, purges>>

----------------------------------------------------------------------------
(* The node controller's removeAllHotplugVolumes of a tainted, lost node   *)

\* OnNodesChange has seen the node and its VM unhealthy.
PurgeStart(n) ==
  /\ n \in down
  /\ purge[n] = "idle"
  /\ purge' = [purge EXCEPT ![n] = "refetch"]
  /\ UNCHANGED <<objects, handlers, listed, current>>

PurgeEnd(n) ==
  /\ purge' = [purge EXCEPT ![n] = "idle"]
  /\ listed' = [listed EXCEPT ![n] = {}]

\* The latest VM is fetched; without hotplug volumes there is nothing to do.
PurgeRefetch(n) ==
  /\ purge[n] = "refetch"
  /\ \/ /\ spec[n] \subseteq Fixed
        /\ PurgeEnd(n)
        /\ UNCHANGED current
     \/ /\ ~(spec[n] \subseteq Fixed)
        /\ purge' = [purge EXCEPT ![n] = "remove"]
        /\ listed' = [listed EXCEPT ![n] = spec[n]]
        /\ current' = current \cup {n}
  /\ UNCHANGED <<objects, handlers>>

\* removeAllHotplugVolumesByPatch: replaces the list by the volumes that are
\* not hotpluggable.
PurgeByPatch(n) ==
  /\ UseDeclarativeHotplug
  /\ purge[n] = "remove"
  /\ n \in current
  /\ WriteSpec(n, listed[n] \cap Fixed)
  /\ PurgeEnd(n)
  /\ UNCHANGED <<hot, running, hostVA, va, down, pc, vol, node, seen, copy, live>>

\* Mutant: every volume of the VM is removed, not only the hotplugged ones.
PurgeBySubresource_All(n) ==
  /\ ~UseDeclarativeHotplug
  /\ purge[n] = "remove"
  /\ \E v \in listed[n] :
       /\ SubresourceRemove(n, v)
       /\ listed' = [listed EXCEPT ![n] = @ \ {v}]
       /\ UNCHANGED purge
  /\ UNCHANGED <<hot, running, hostVA, va, down, pc, vol, node, seen, copy, live>>

\* removeAllHotplugVolumesBySubresource: one request per name, in any order;
\* it stops at the first that fails (PurgeFail).
PurgeBySubresource(n) ==
  /\ ~UseDeclarativeHotplug
  /\ purge[n] = "remove"
  /\ \E v \in listed[n] \ Fixed :
       /\ SubresourceRemove(n, v)
       /\ IF listed[n] \ {v} \subseteq Fixed
            THEN PurgeEnd(n)
            ELSE /\ listed' = [listed EXCEPT ![n] = @ \ {v}]
                 /\ UNCHANGED purge
  /\ UNCHANGED <<hot, running, hostVA, va, down, pc, vol, node, seen, copy, live>>

PurgeFail(n) ==
  /\ purge[n] # "idle"
  /\ PurgeEnd(n)
  /\ current' = current \ {n}
  /\ UNCHANGED <<objects, handlers>>

----------------------------------------------------------------------------
(* The environment: the guest's attach/detach controller and external      *)
(* attacher, KubeVirt, the host's attach/detach controller, failures.      *)

\* The attach/detach controller wants v on n.  It may do so while the volume
\* is still attached elsewhere, but begins one attachment at a time.
CreateVA(v, n) ==
  /\ va[<<v, n>>] = "none"
  /\ \A m \in Nodes : va[<<v, m>>] \notin {"new", "newDel"}
  /\ va' = [va EXCEPT ![<<v, n>>] = "new"]
  /\ UNCHANGED <<spec, want, hot, running, hostVA, down, handlers, purges>>

DeleteVA(v, n) ==
  /\ va[<<v, n>>] \in {"new", "attached"}
  /\ va' = [va EXCEPT ![<<v, n>>] =
              IF @ = "new" THEN "newDel" ELSE "attachedDel"]
  /\ UNCHANGED <<spec, want, hot, running, hostVA, down, handlers, purges>>

Serves(c, v, n) == vol[c] = v /\ node[c] = n

\* The attacher handles one VolumeAttachment at a time: attach when it is new,
\* detach when it is being deleted, again and again until the answer is OK.
StartCall(c, v, n, step) ==
  /\ pc[c] = "idle"
  /\ \A d \in live : ~Serves(d, v, n)
  /\ pc' = [pc EXCEPT ![c] = step]
  /\ vol' = [vol EXCEPT ![c] = v]
  /\ node' = [node EXCEPT ![c] = n]
  /\ live' = live \cup {c}
  /\ UNCHANGED <<objects, seen, copy, fresh, purges>>

ControllerPublishVolume(c, v, n) ==
  /\ va[<<v, n>>] = "new"
  /\ StartCall(c, v, n, "hostVA")

ControllerUnpublishVolume(c, v, n) ==
  /\ IsDeleting(va[<<v, n>>])
  /\ StartCall(c, v, n, "unVMI")

\* The RPC's deadline passes or the attacher restarts.  The handlers ignore
\* the request's context: the call goes on and nobody reads its answer.
Abandon(c) ==
  /\ MayAbandon
  /\ c \in live
  /\ live' = live \ {c}
  /\ UNCHANGED <<objects, pc, vol, node, seen, copy, fresh, purges>>

\* KubeVirt plugs what the VMI's spec has and unplugs what it no longer has.
Plug(v, n) ==
  /\ n \in running
  /\ v \in want[n] \ hot[n]
  /\ hot' = [hot EXCEPT ![n] = @ \cup {v}]
  /\ UNCHANGED <<spec, want, running, hostVA, va, down, handlers, purges>>

Unplug(v, n) ==
  /\ v \in hot[n] \ want[n]
  /\ hot' = [hot EXCEPT ![n] = @ \ {v}]
  /\ UNCHANGED <<spec, want, running, hostVA, va, down, handlers, purges>>

\* KubeVirt writes the VM's status.
TouchVM(n) ==
  /\ n \in current \/ \E c \in fresh : node[c] = n
  /\ Outdate(n)
  /\ UNCHANGED <<objects, pc, vol, node, seen, copy, live, purge, listed>>

StopVMI(n) ==
  /\ n \in running \cap StoppingNodes
  /\ running' = running \ {n}
  /\ want' = [want EXCEPT ![n] = {}]
  /\ hot' = [hot EXCEPT ![n] = {}]
  /\ Outdate(n)
  /\ UNCHANGED <<spec, hostVA, va, down, pc, vol, node, seen, copy, live,
                 purge, listed>>

StartVMI(n) ==
  /\ n \notin running
  /\ running' = running \cup {n}
  /\ want' = [want EXCEPT ![n] = spec[n] \ Fixed]
  /\ Outdate(n)
  /\ UNCHANGED <<spec, hot, hostVA, va, down, pc, vol, node, seen, copy, live,
                 purge, listed>>

\* The host's attach/detach controller follows the plugged volumes.
HostAttach(v, h) ==
  /\ <<v, h>> \notin hostVA
  /\ \E n \in Nodes : HostOf[n] = h /\ v \in hot[n]
  /\ hostVA' = hostVA \cup {<<v, h>>}
  /\ UNCHANGED <<spec, want, hot, running, va, down, handlers, purges>>

HostDetach(v, h) ==
  /\ <<v, h>> \in hostVA
  /\ \A n \in Nodes : HostOf[n] = h => v \notin hot[n]
  /\ hostVA' = hostVA \ {<<v, h>>}
  /\ UNCHANGED <<spec, want, hot, running, va, down, handlers, purges>>

NodeLost(n) ==
  /\ n \in FailingNodes \ down
  /\ down' = down \cup {n}
  /\ UNCHANGED <<spec, want, hot, running, hostVA, va, handlers, purges>>

NodeBack(n) ==
  /\ n \in down
  /\ down' = down \ {n}
  /\ UNCHANGED <<spec, want, hot, running, hostVA, va, handlers, purges>>

----------------------------------------------------------------------------
CallStep(c) ==
  \/ CheckHostVA(c) \/ CheckGuestVA(c) \/ CheckVolumeInVM(c)
  \/ CheckVolumeInVMI(c) \/ HotplugVolumeToVM(c) \/ AddVolumePatch(c)
  \/ RemoveCheckVMI(c) \/ RemoveCheckVM(c)
  \/ UnplugVolumeFromVM(c) \/ RemoveVolumePatch(c)

PurgeStep(n) == PurgeRefetch(n) \/ PurgeByPatch(n) \/ PurgeBySubresource(n)

Next ==
  \/ \E c \in Calls : CallStep(c) \/ Fail(c) \/ Abandon(c)
  \/ \E c \in Calls, v \in Vols, n \in Nodes :
       ControllerPublishVolume(c, v, n) \/ ControllerUnpublishVolume(c, v, n)
  \/ \E v \in Vols, n \in Nodes :
       CreateVA(v, n) \/ DeleteVA(v, n) \/ Plug(v, n) \/ Unplug(v, n)
  \/ \E v \in Vols, h \in Hosts : HostAttach(v, h) \/ HostDetach(v, h)
  \/ \E n \in Nodes :
       \/ PurgeStart(n) \/ PurgeStep(n) \/ PurgeFail(n)
       \/ TouchVM(n) \/ StopVMI(n) \/ StartVMI(n) \/ NodeLost(n) \/ NodeBack(n)

Spec == Init /\ [][Next]_vars

(* A handler that cannot go on: its poll finds nothing settled or plugged,  *)
(* or its request would be refused.  All it can do is to end with an error. *)
Stuck(c) ==
  LET v == vol[c]
      n == node[c] IN
  \/ /\ pc[c] \in {"hostVA", "guestVA"}
     /\ \/ n \notin running
        \/ \E h \in Hosts \ {HostOf[n]} : <<v, h>> \in hostVA
        \/ \E m \in Nodes \ {n} : IsAttached(va[<<v, m>>])
  \/ pc[c] \in {"addPatch", "removePatch"} /\ c \notin fresh
  \/ pc[c] \in {"waitVM", "waitVMI"} /\ v \notin hot[n]
  \/ pc[c] = "add" /\ ~UseDeclarativeHotplug /\ v \in spec[n]
  \/ pc[c] = "remove" /\ ~UseDeclarativeHotplug
     /\ v \notin (IF c \in seen THEN want[n] ELSE spec[n])

\* What the liveness properties assume in the end: handlers fail only for the
\* reasons above (a step of theirs may look like Fail and be none), the attacher
\* waits for them, VMs are left alone and stay up, no node is lost.
Calm ==
  /\ \A c \in Calls : (Fail(c) => Stuck(c) \/ CallStep(c)) /\ ~Abandon(c)
  /\ \A n \in Nodes : ~TouchVM(n) /\ ~StopVMI(n) /\ ~PurgeStart(n)

\* The attacher retries, handlers run, KubeVirt and the host's attach/detach
\* controller do their work, and the disturbances cease.
Fairness ==
  /\ \A v \in Vols, n \in Nodes :
       /\ WF_vars(\E c \in Calls : ControllerPublishVolume(c, v, n))
       /\ WF_vars(\E c \in Calls : ControllerUnpublishVolume(c, v, n))
       /\ WF_vars(\E c \in Calls : Serves(c, v, n) /\ CallStep(c))
       /\ WF_vars(\E c \in Calls : Serves(c, v, n) /\ Stuck(c) /\ Fail(c))
       /\ WF_vars(Plug(v, n))
       /\ WF_vars(Unplug(v, n))
  /\ \A v \in Vols, h \in Hosts : WF_vars(HostDetach(v, h))
  /\ \A n \in Nodes : WF_vars(StartVMI(n))
  /\ <>[][Calm]_vars

FairSpec == Spec /\ Fairness

----------------------------------------------------------------------------
(* Properties                                                              *)

\* The variables have their types.
TypeOK ==
  /\ spec \in [Nodes -> SUBSET (Vols \cup Fixed)]
  /\ want \in [Nodes -> SUBSET Vols]
  /\ hot \in [Nodes -> SUBSET Vols]
  /\ running \subseteq Nodes
  /\ hostVA \subseteq Vols \X Hosts
  /\ va \in [VAs -> VAStates]
  /\ down \subseteq Nodes
  /\ pc \in [Calls -> {"idle"} \cup PublishPCs \cup UnpublishPCs]
  /\ vol \in [Calls -> Vols \cup {None}]
  /\ node \in [Calls -> Nodes \cup {None}]
  /\ seen \subseteq Calls
  /\ copy \in [Calls -> SUBSET (Vols \cup Fixed)]
  /\ fresh \subseteq Calls
  /\ live \subseteq Calls
  /\ purge \in [Nodes -> {"idle", "refetch", "remove"}]
  /\ listed \in [Nodes -> SUBSET (Vols \cup Fixed)]
  /\ current \subseteq Nodes

\* A volume is never plugged into two VMs.  The host PVC of a volume is
\* ReadWriteMany (buildHostPVCFromScratch), so only waitForVASettled and
\* removeVolumeFromHostVM stand between a failover and two writers of a disk.
SingleWriter ==
  \A v \in BlockVols, n, m \in Nodes : v \in hot[n] /\ v \in hot[m] => n = m

\* A VM's list of volumes holds only volumes some VolumeAttachment accounts
\* for: when ControllerUnpublishVolume has answered OK, and the attacher has
\* let the VolumeAttachment go, no handler has left or brought back an entry.
NoOrphanVolume ==
  \A v \in Vols, n \in Nodes : v \in spec[n] => va[<<v, n>>] # "none"

\* ControllerUnpublishVolume answers OK only for a volume that "doesn't exist
\* in VM/VMI" (removeVolumeFromHostVM): without a VolumeAttachment the VMI
\* does not have the volume.
DetachedMeansGone ==
  \A v \in Vols, n \in Nodes : v \in hot[n] => va[<<v, n>>] # "none"

\* While a VolumeAttachment says Attached and is not being deleted, the volume
\* is in the VM: no other handler has taken it away.
AttachedMeansListed ==
  \A v \in Vols, n \in Nodes : va[<<v, n>>] = "attached" => v \in spec[n]

\* No update of a VM is lost and none comes back: whatever the interleaving of
\* the handlers, which rewrite whole lists, a volume enters a VM's list only by
\* a publish of that volume to that node, and leaves it only by an unpublish of
\* it or by the node controller, which never takes a volume of the VM's own.
OwnChange ==
  \A n \in Nodes, v \in Vols \cup Fixed :
    /\ v \notin spec[n] /\ v \in spec'[n] =>
         \E c \in Calls : Serves(c, v, n) /\ pc[c] \in {"add", "addPatch"}
    /\ v \in spec[n] /\ v \notin spec'[n] =>
         \/ \E c \in Calls : Serves(c, v, n) /\ pc[c] \in {"remove", "removePatch"}
         \/ v \in Vols /\ purge[n] = "remove" /\ v \in listed[n]

\* OwnChange, of every step.
OnlyOwnChanges == [][OwnChange]_vars

\* waitForVASettled "ensures the host and guest VAs are cleaned up before we
\* attach the volume": when a block volume enters a VM's list, it is not
\* Attached to another guest node.
SettledAttach ==
  \A v \in BlockVols, n, m \in Nodes :
    v \notin spec[n] /\ v \in spec'[n] /\ m # n => ~IsAttached(va[<<v, m>>])

\* SettledAttach, of every step.
SettledBeforeAttach == [][SettledAttach]_vars

\* The handler has passed waitForVASettled.
Settled(c) == pc[c] \in PublishPCs \ {"hostVA", "guestVA"}

\* The volume is in the VM or the VMI of the node, or on its way there.
Holds(v, n) ==
  \/ v \in spec[n] \cup hot[n]
  \/ IsAttached(va[<<v, n>>])
  \/ \E c \in Calls : Settled(c) /\ Serves(c, v, n)

\* The attachments of one volume as Attachment has them.
Promise(v) ==
  INSTANCE Attachment WITH
    va <- [n \in Nodes |-> va[<<v, n>>]],
    hold <- {n \in Nodes : Holds(v, n)},
    disk <- {n \in Nodes : v \in hot[n]}

\* A step of the handlers is a step of the promise, or none, for each volume.
PromisedStep ==
  \A v \in BlockVols : Promise(v)!Next \/ UNCHANGED Promise(v)!vars

\* The handlers keep the promise of Attachment, Promise(v)!Spec, for every block
\* volume v: checks and writes that are steps apart (waitForVASettled,
\* isVolAttached, the patches, the two reads of removeVolumeFromHostVM) work as
\* one lock on the volume.
ImplementsAttachment ==
  (\A v \in BlockVols : Promise(v)!Init) /\ [][PromisedStep]_vars

\* A VolumeAttachment that is being deleted goes away: ControllerUnpublishVolume
\* answers Aborted or Internal only finitely often.
DetachCompletes ==
  \A a \in VAs : IsDeleting(va[a]) ~> va[a] = "none"

\* A new VolumeAttachment becomes attached, unless it is deleted first or the
\* volume has another VolumeAttachment: stale VolumeAttachments of a former host
\* delay ControllerPublishVolume but do not block it for ever.
AttachCompletes ==
  \A v \in Vols, n \in Nodes :
    va[<<v, n>>] = "new" ~>
      \/ va[<<v, n>>] # "new"
      \/ \E m \in Nodes \ {n} : va[<<v, m>>] # "none"
============================================================================
