# A TLA+ model of the Harvester CSI driver

The driver gives the pods of a guest Kubernetes cluster, whose nodes are virtual
machines of a Harvester (host) cluster, volumes of that host cluster. Every guest
volume is a *host PVC* of the same name. A volume with a single writer is
hotplugged into the VM of the node that uses it; a volume with many writers is
exported by a `NetworkFilesystem` of the host and mounted over NFS. The driver
keeps no state of its own: everything it knows it reads from two API servers,
and everything it does it does by single API calls, between which other handlers,
sidecars and controllers run. That is what the modules model.

## Inventory

| Part of the system | Source | Modules |
|---|---|---|
| Attach and detach of block volumes | `controller_server.go` 669-1122 | `Hotplug`; abstract: `Attachment` |
| Node controller: out-of-service taint, removal of volumes | `controller/node/controller.go` | `NodeController`, `Hotplug` |
| CreateVolume, DeleteVolume, restore from backup | `controller_server.go` 223-633, 2081-2248 | `Provision`; abstract: `VolumeContract` |
| Shared volumes: `NetworkFilesystem`, staging | `controller_server.go` 1939-2009, `node_server.go` 71-170 | `SharedVolume` |
| Snapshots and remote backups | `controller_server.go` 1132-1618 | `Snapshots` (without ListSnapshots) |
| Mount points of the node server | `node_server.go` 71-390 | `NodeVolume` |
| Expansion, size of volumes | `controller_server.go` 1862-1937, `node_server.go` 468-538, `utils/util.go` | `NodeVolume` |
| The life of a volume, from its snapshot to its deletion | | `VolumeLife` = `Provision`, `Snapshots`, `NodeVolume` |
| Choice of the hotplug mechanism, leader election | `manager.go` | partly, in `NodeController` |
| ListSnapshots, versions, identifiers, VMI discovery | `controller_server.go` 1620-1856, `utils`, `csi/util.go`, `manager.go` 242-289 | not modelled |
| Statistics, capabilities, gRPC and identity server | | not modelled: no state |

`PROJECT.json` has the same list with the reasons, the correspondence between
definitions and source lines (`map`) and the hazards of the code.

## How code and model correspond

Every API call is one step. A handler is a program counter with the values it
holds from one call to the next. Wherever it stands, it may end with an error:
that is an API error, a lost answer, a poll that timed out or a restart of the
driver, and undoes nothing. Calls start when the sidecar (attacher, provisioner,
snapshotter, resizer) or the kubelet would make them, and are repeated until the answer is OK.

A `resourceVersion` is not counted. A copy of an object is *fresh* (`fresh`,
`current`, `vmCurrent`) from the GET to the next write of the object by
anyone; a write that tests the version is refused if the copy is not.

* **`Hotplug`** - `spec[n]` is the list of volumes in the VM of node `n` (volumes
  and disks are written together), `want[n]` the VMI's spec, `hot[n]` its
  status, `va` and `hostVA` the VolumeAttachments of guest and host. `pc`, `vol`,
  `node`, `seen`, `copy`, `fresh` are the handlers. `ControllerPublishVolume`
  runs through `CheckHostVA`, `CheckGuestVA` (waitForVASettled),
  `CheckVolumeInVM`, `CheckVolumeInVMI` (isVolAttached), `HotplugVolumeToVM`,
  `AddVolumePatch` and the reads again (waitForVolumeAttached);
  `ControllerUnpublishVolume` through `RemoveCheckVMI`, `RemoveCheckVM`,
  `UnplugVolumeFromVM`, `RemoveVolumePatch`. `Purge...` is the node controller's
  removeAllHotplugVolumes. `live` has the handlers whose caller still waits: the
  handlers ignore the request's context, so an abandoned one goes on.
* **`NodeController`** - one guest node (the work queue handles them one by one,
  and they share nothing) with its taints, the informer's `cache` of it, the
  `queued` flag, the handler, and the VM's health and hotplug volumes.
* **`Provision`** - one volume (all its objects have its name) of each kind:
  new block volume, new share, either of them from a snapshot, volume from a
  backup. (A Filesystem volume from a snapshot gets a NetworkFilesystem although
  the request is for a single writer, which is what `Shares` says.) Host
  PVC, NetworkFilesystem, VolumeRemoteRestore, the guest's claim and PV, and the
  one call that the provisioner has under way.
* **`SharedVolume`** extends it with the pods, VolumeAttachments and publish and
  unpublish calls of several nodes, the pod index, and the networkfs-manager of
  the host, which is external: it follows the desired state by way of
  `Enabling` and `Disabling`.
* **`Snapshots`** - one snapshot of a volume, local (a host VolumeSnapshot) or a
  backup (a VolumeRemoteBackup): the guest's content, the host's object, and the
  call of CreateSnapshot (find, class, create, check, fetch) or DeleteSnapshot
  under way. The snapshotter tells *final* errors from others: after one that is
  not, it keeps calling (`snapDoubt`). An administrator of the host may delete the
  object at any time (`lost`); while it goes, a ready one says that it is ready.
* **`NodeVolume`** - a volume on its node. `staging` and `target` count the layers
  of mounts on the two paths, `path` says whether the target path exists, and
  `staged` and `published` are what the kubelet knows ("maybe" after a call that
  failed). Along with them go the sizes: what the guest asks for (`want`), what
  the host PVC requests and has (`request`, `capacity`), the VM's disk, the file
  system on it (`fs`), and what the resizer has recorded (`size`). Only the host PVC
  of a new volume is rounded up; one from a snapshot is not. `online` and
  `unresized` are history, read by `FilesystemGrown` alone. The device, the block
  PVC's resizer and KubeVirt are external.
* **`VolumeLife`** puts `Provision`, `Snapshots` and `NodeVolume` together by the
  rules of the guest cluster: a volume is made only from a ready snapshot, a
  snapshot stays while a claim waits for a volume made from it, a claim while a
  pod uses it, and a PV is released only when it is detached.
* **`Attachment`** is no code but the promise behind it: a node *holds* a block
  volume before it may get its disk, one node at a time, and "attached" and
  "detached" are said truly. `Hotplug` implements it for every block volume:
  `Promise(v)` maps the VolumeAttachments of `v`, the VMIs that have it, and the
  nodes that hold it, which are those that list or have it, have it Attached, or
  have a publish call past waitForVASettled. TLC takes no quantified
  specification for a property, so `ImplementsAttachment` says the same by
  initial states and steps.

* **`VolumeContract`** is the promise of CreateVolume and DeleteVolume: until there is a
  PV they only add host objects, and only such as the kind of volume needs; the PV
  comes when all are there; while it is in use nothing is lost but, on the host, a
  NetworkFilesystem; when it is released they only remove, and it goes when nothing
  is left that the host does not remove by itself. `Contract` maps `Provision` to
  it: `Objects` are the host objects that are not being deleted.

The definitions with an underscore (`CheckGuestVA_Skipped`) are faulty variants of
the definition they precede. They belong to no specification; put in place of
the original, each makes a property of a run fail.

## Runs

| Run | Instance | Shows |
|---|---|---|
| `hotplug_failover` | 1 volume, 2 nodes whose VMs restart, 2 calls, patches | `SingleWriter`, `DetachedMeansGone`, `AttachedMeansListed`, `SettledBeforeAttach`, `ImplementsAttachment` |
| `hotplug_shared_vm` | 2 volumes, 1 VM, whose node may be lost; Lists of VolumeAttachments may fail | `TypeOK`, `OnlyOwnChanges` |
| `hotplug_legacy` | subresources, 1 volume, 1 VM that restarts and whose node may be lost, abandoned calls, failing Lists | `OnlyOwnChanges`, `DetachCompletes` |
| `hotplug_live` | 2 nodes, one of which is lost | `NoOrphanVolume`, `DetachCompletes`, `AttachCompletes` |
| `node_controller` | 2 volumes, 1 other taint | `TypeOK`, `TaintedBeforeRemoval`, `OtherTaintsKept`, `LostNodeEmptied`, `RecoveredNodeUntainted` |
| `shared_volume` | every kind, 2 nodes | `TypeOK`, `ProvisionedIsBacked`, `DeletedLeavesNothing`, `ImplementsContract`, `DeleteCompletes`, `RestoreCompletes`, `PublishCompletes`, `UnpublishCompletes` |
| `volume_life` | every kind; pods use new block volumes, raw or with a file system, and shares; sizes 1 and 3 with alignment 3, expanded to 2 or 4 | `TypeOK`, `ReadySnapshotExists`, `DeletedSnapshotGone`, `UnmountedBeforeDetach`, `FilesystemGrown`, `SnapshotCompletes`, `SnapshotDeleteCompletes`, `MountCompletes`, `UnmountCompletes`, `ExpandCompletes` |

Five runs show that the code does not do what a comment says of it (`findings` in
`PROJECT.json` quotes the comments):

* `hotplug_unpublish_race`: removeVolumeFromHostVM reads the VMI, then the VM.
  If KubeVirt plugs the volume after the first read and the node controller
  removes it from the VM before the second, it is found in neither, and the
  detach answers OK while the VMI has the volume.
* `hotplug_abandoned`: a publish call that outlives its request adds the volume
  to its VM after the volume was attached to another node. Together with the host
  PVC's access mode ReadWriteMany, nothing then prevents two writers.
* `provision_retry`: CreateVolume does not take up the host PVC that an earlier
  call has created. One failure behind its creation, for instance a time-out of
  waitForLHVolumeName, and the claim is never provisioned. A restore from a backup
  does not have the problem (`RestoreCompletes`).
* `shared_unpublish`: unpublishRWXVolume's branch for a NetworkFilesystem that is
  gone cannot be reached; the detach fails for ever.
* `shared_disable`: between the look into the pod index and the update, a pod of
  another node starts, and loses its share. With `InformersRun = FALSE` (the
  process does not lead the lease behind which the informers are started) the
  index stays empty and no race is needed.

### Bounds

The only counters are the layers of mounts in `NodeVolume`; the constants are all
other bounds. Two nodes and one volume
have every pair of calls that can meet over a volume; two volumes and one node
every pair that can meet over a VM. Two calls at once are enough for a call and
the one that is in its way, be it of another node, of another volume or its own
abandoned predecessor; the theorems below need no such argument. A second volume
matters to the node controller because the subresource removes them one by one.
`ByHand` lets an administrator set the out-of-service taint with the documented
effect only. `Permutations` of nodes, volumes and calls are used as symmetry in
runs without liveness; hosts are named like the nodes for that.

`MaxLayers = 3` caps the layers of mounts: a call whose layer would be one too
many does not fail after it. Two layers are enough for "all, not one", the third
leaves room for a failure in between. The sizes are a multiple of the alignment
and one that is not, and larger ones that lie below, at and above what the host PVC
was rounded to. A volume is expanded once. `UsedKinds` leaves clones and restored
volumes without pods: they are mounted and expanded like new ones (but for the
last point under "beyond the runs"), and would multiply the states. The proofs
have none of these bounds on layers, sizes and kinds.

`ListMayFail` lets any List of the host's VolumeAttachments fail, after which
waitForVASettled checks nothing more. It is `FALSE` where a property rests on these
checks (`hotplug_failover`) and, to keep the run short, in `hotplug_live`, whose
properties hold with `TRUE` as well.

`StorageClassReadable = TRUE` assumes that the GET of the host's StorageClass
never fails. isLHRWXVolume takes a failure for "not a share"; with `FALSE`,
`DeletedLeavesNothing` and `ProvisionedIsBacked` do not hold.

### Fairness

Liveness assumes weak fairness of what runs by itself: the sidecars repeat a call
that failed, a handler goes on, KubeVirt plugs and unplugs, the host's controllers
bind, detach, restore and remove, informers deliver and resync (every ten hours).
No strong fairness is used. Instead `<>[][Calm]_vars` says that the disturbances
cease: after some point no call fails for a reason outside of the model, nobody
else writes the objects, no VM stops. A handler that is refused or finds its poll
unsettled may still fail, again and again; the properties say that it does so
finitely often. A VolumeAttachment needs some handler of its own for progress, so
fairness is per volume and node.

In `VolumeLife` the disturbances that cease are failed calls, and failures and
losses of the host's snapshots. A failure may look like a step of a handler that gives
up by itself (a poll that ends, a snapshot that is not ready), which is why `Calm`
says `Fail => Step` and not that no call fails. KubeVirt's resize of a disk, the
host's resizer and the attacher have fairness of their own, for none of them waits
for another.

Deadlock is checked except in `SharedVolume` and `VolumeLife`, where a deleted
volume is the end.

## Proofs

Checked by TLAPS for every value of the constants that the named assumptions
allow: any number of nodes, volumes, taints, hosts and concurrent calls, any sizes.

`HotplugProofs`
* `TypeCorrect`: `Spec => []TypeOK`. The invariant is `TypeOK` with the fact that a
  handler at work has a volume and a node.
* `NoLostUpdate`: `Spec => OnlyOwnChanges`. `OwnChange` does not follow from the
  types: removeVolumeFromVM writes back a whole copy. `CopyInv` says that a fresh
  copy equals the VM's list, for handlers as for the node controller; with it the
  write differs from the list by the handler's own volume.

`ServiceProofs`
* `NoOrphan`: `Spec => []NoOrphanVolume`, if no call is abandoned. `ListInv` adds that a
  handler serves a VolumeAttachment in the state for which it was called, alone,
  and that at most one attachment of a volume is being started.

`FailoverProofs`
* `OneWriter`, `DetachedIsGone`, `AttachedIsListed`, `SettledFirst`: if no call is
  abandoned, no List of the host's VolumeAttachments fails and no node is lost. The
  invariant `FailoverInv` has five parts beside `Steady`: KubeVirt wants
  nothing that is not listed; what the first of a handler's two reads has found
  still holds (`ReadsHold`); a detached volume is gone; an attached one is listed;
  and one node at most *holds* a block volume (`OneHolder`), that is, lists it,
  has it plugged, has it Attached, or has a publish call past waitForVASettled.
  The last is the argument for a single writer: a publish passes only when all
  other attachments are neither Attached nor new, hence absent, hence without
  volume or handler. The assumptions are needed: the runs
  `hotplug_unpublish_race` and `hotplug_abandoned` violate the conclusions without
  two of them, `hotplug_failover` with `ListMayFail = TRUE` without the third.

`RefinementProofs`
* `Refinement`: `Spec => Promise(v)!Spec` for every block volume `v`, under the
  assumptions of `FailoverProofs`; `PromiseKept` states it as `ImplementsAttachment`.
  The proof goes by the three variables of `Attachment`: a lemma says for
  each variable which steps change it and how (`DiskStep`, `VAStep`, `HoldsFrame`),
  another that such a change is one `Attachment` allows (`DiskKept`, `VAKept`,
  `HoldKept`). `FailoverInv` supplies what the guards of `Attachment` ask for.

`NodeControllerProofs`
* `NodeTypes`, `OutOfServiceFirst`, `OthersTaintsSafe`: `TypeOK`,
  `TaintedBeforeRemoval` and `OtherTaintsKept` for every set of taints and volumes and
  taint lists of every length. The invariant `NodeInv` is about stale copies. `Fresh`:
  a copy that is said to be the latest is the node, so that an update that is not
  refused rewrites the list it has read. `TaintInv`: a copy, however old, that shows
  a lost node with the taint is right about the taint: it is removed only of a ready
  node and by an update that is not refused, at which moment the cache, too, shows
  the node as ready. Hence the handler that goes on to the volumes does so on a
  tainted node.
* `TaintsCleared`: removeTaint takes all taints with the out-of-service key off the
  node itself and no other.
* The loop of removeTaint is a recursive function over the positions of the list.
  What it collects (`OthersKept`: the members; `OthersAppend`: order) is proved by
  induction in the form of a least counterexample (`LeastNatural`), for which
  well-foundedness of the naturals suffices. The configuration of TLC compares the
  loop with a filter as well (`OthersFilters`).

`ProvisionProofs` has what the next two share: `VolumeInv` ties the program counter of
the call under way to what the call has done and found (where a deletion stands,
which objects are gone for good), and every step of CreateVolume, DeleteVolume,
the guest and the host keeps it and is one that `VolumeContract` allows.

`SharedProofs`
* `SharedTypeCorrect`: `TypeOK`, without further assumptions.
* `Backed`, `NothingLeft`: `ProvisionedIsBacked` and `DeletedLeavesNothing` for any
  number of nodes, if StorageClasses are readable. What makes it more than a proof
  about `Provision` is that publishRWXVolume may create the NetworkFilesystem again.
  `UseInv` says that nodes deal with the volume only while it is provisioned, hence
  never when it is being deleted.
* `ContractKept`: `ImplementsContract` under the same assumption. The publish and
  unpublish calls of the nodes are `Use` steps of the contract or change nothing it
  sees.

`VolumeLifeProofs`
* `LifeTypes`: `TypeOK`. That the layers of mounts stay within `MaxLayers` is not a
  matter of types: `LayerInv` says where a call may still add a layer, and that
  there is room for it then.
* `UnmountedFirst`: `UnmountedBeforeDetach`. `MountInv` says that what the kubelet
  does not suspect is not mounted, so that it always comes back to unmount it.
* `Grows`: `FilesystemGrown`, without assumptions: failures between any two steps of
  NodePublishVolume, that between mount and resize included, are steps of the model,
  and the latter is the exception the property names. `SizeInv` orders the sizes:
  recorded, capacity, disk, file system; the case that matters is an expansion that was answered "offline" (isVolumeInUse said no *after* the
  host PVC had grown) and whose volume is attached before the resizer gets the
  answer.
* `LeastMultiple`: RoundUpSize returns the least positive multiple of the alignment
  that is not below its argument, for every integer and every alignment.
* `ReadyExists`, `SnapshotGone`: `ReadySnapshotExists` and `DeletedSnapshotGone`,
  from what the program counter of a call says about the host's object (`SnapInv`):
  at each point behind the check it is ready, or an administrator has deleted it.
* `LifeBacked`, `LifeNothingLeft`, `LifeContractKept`: what `SharedProofs` shows of a
  share, for volumes made from a snapshot or a backup that may vanish between two
  steps, while they are mounted and expanded.
* `InUseIsBacked`: a volume that is attached, mounted or being mounted has a PV and a
  bound host PVC, from `BackInv` (what is attached is provisioned and bound, what has
  a pod has its claim) and `MountInv`. The two composed models meet here: mounts are
  the business of `NodeVolume`, the PVC is that of `Provision`.

Every safety invariant and action property of the passing runs is a theorem. Only
model-checked is liveness (the properties named `...Completes`, `LostNodeEmptied` and
`RecoveredNodeUntainted`): it needs fairness and ENABLED, which the provers do not
handle.

## What the model shows beyond the runs

These came up while modelling. The first two are at odds with comments in the
code; the properties name them as exceptions or assumptions. `hazards` has the
lines.

* NodePublishVolume mounts, then resizes ("If the block device is bigger than the
  filesystem, grow the filesystem.", `node_server.go:329`). If the resize fails, or
  the driver restarts before it, the repeated call finds the path mounted, answers
  OK, and the file system stays small until the next mount. `FilesystemGrown` says
  so by `~unresized`; without this conjunct `volume_life` violates it.
* waitForVASettled "ensures the host and guest VAs are cleaned up before we attach"
  (`controller_server.go:788`), but takes every error of its List for a cluster
  without the permission (`:792`). One time-out of the API server and a volume
  is attached that another node still has: `SettledBeforeAttach` fails with
  `ListMayFail = TRUE` and two nodes.
* CreateVolume rounds a new host PVC up but answers the size that was asked for. An
  expansion to a size in between is refused as a shrink, for ever; for this reason
  `ExpandCompletes` speaks of sizes that the host PVC does not exceed.
* NodeExpandVolume answers OK whether or not KubeVirt has enlarged the disk
  yet; `FilesystemGrown` leaves volumes expanded in use out.
* Repeated NodeStageVolume calls stack mounts of a share; NodeUnstageVolume takes
  off one.
* CreateSnapshot answers a snapshot under way with a final error. If the guest's
  snapshot is deleted at that moment, nobody calls DeleteSnapshot and the host's
  object stays.
* checkSnapsReadiness looks at ReadyToUse only, so that a snapshot which is being
  deleted on the host is answered as ready (`lost` in `ReadySnapshotExists`).
* CreateVolume answers OK for a clone whose host PVC is pending. If the snapshot has
  gone by the time the host looks for it, the PVC is never bound and a pod
  waits for ever: `MountCompletes` fails with "clone" in `UsedKinds`.

## Not modelled

* ListSnapshots: it changes no state; its pages depend on the host API's
  continuation tokens, which the driver passes through.
* The names of VMs, VMIs and nodes (one model value stands for all three), and the
  discovery of the VMI by MAC address: it runs once, at start-up.
* IsVersionAtLeast and the text of snapshot identifiers: strings taken apart, no
  state. `NodeController` starts with either hotplug mechanism.
* Calls of CreateVolume, and of the kubelet, that run on after their caller has
  given up. (Those of the attacher are modelled.)
* Volumes for which the access mode of the request and the mode of the host PVC
  disagree; validation of requests; the host on which a VMI runs is constant.
* Statistics, capabilities, the gRPC and the identity server; construction of clients.

`hazards` in `PROJECT.json` notes what each of these could hide.
