--------------------------- MODULE FailoverProofs ---------------------------
(***************************************************************************)
(* Proofs about a failover: a volume that moves from one node to another   *)
(* has one writer.  They hold for every set of volumes, nodes, hosts and   *)
(* handlers and for both ways of hotplugging; what a theorem assumes about *)
(* the environment is in its statement.                                    *)
(***************************************************************************)
EXTENDS ServiceProofs

----------------------------------------------------------------------------
(* One writer                                                              *)

\* No node is lost, so the node controller has nothing to remove.
Steady == down = {} /\ \A n \in Nodes : purge[n] = "idle"

\* KubeVirt works towards nothing that the VM does not list.
WantListed == \A n \in Nodes : want[n] \subseteq spec[n]

\* What a handler has found by the first of its two reads is still of use: the
\* second one misses nothing that was plugged in the meantime.
ReadsHold ==
  \A c \in Calls :
    /\ pc[c] = "unVM" /\ c \notin seen /\ vol[c] \in hot[node[c]]
         => vol[c] \in spec[node[c]]
    /\ pc[c] \in {"isVMI", "waitVMI"} /\ c \in seen => vol[c] \in spec[node[c]]

\* One node at most holds a block volume.
OneHolder ==
  \A v \in BlockVols, n, m \in Nodes : Holds(v, n) /\ Holds(v, m) => n = m

FailoverInv ==
  Steady /\ WantListed /\ ReadsHold /\ DetachedMeansGone /\ AttachedMeansListed
  /\ OneHolder

\* Nothing is attached, wanted or plugged in the beginning.
LEMMA FailoverInit == Init => FailoverInv
  BY HotplugAssumption
  DEF Init, FailoverInv, Steady, WantListed, ReadsHold, DetachedMeansGone,
      AttachedMeansListed, OneHolder, Holds, Settled, PublishPCs, VAs, IsAttached

----------------------------------------------------------------------------
(* What one step may do                                                    *)

\* KubeVirt plugs what it works towards.
LEMMA PlugsWanted ==
  ASSUME TypeInv, [Next]_vars, NEW n \in Nodes PROVE hot'[n] \subseteq hot[n] \cup want[n]
<1> USE DEF TypeInv, TypeOK, objects, handlers, purges
<1>1. ASSUME NEW v \in Vols, NEW m \in Nodes, Plug(v, m) \/ Unplug(v, m)
      PROVE  hot'[n] \subseteq hot[n] \cup want[n]
  BY <1>1 DEF Plug, Unplug
<1>2. ASSUME NEW m \in Nodes, StopVMI(m) PROVE hot'[n] \subseteq hot[n] \cup want[n]
  BY <1>2 DEF StopVMI
<1>3. \/ UNCHANGED hot
      \/ \E v \in Vols, m \in Nodes : Plug(v, m) \/ Unplug(v, m)
      \/ \E m \in Nodes : StopVMI(m)
  BY ZenonT(30) DEF Next, CallStep, PurgeStep, CheckHostVA, CheckGuestVA, CheckVolumeInVM,
    CheckVolumeInVMI, HotplugVolumeToVM, AddVolumePatch, RemoveCheckVMI,
    RemoveCheckVM, UnplugVolumeFromVM, RemoveVolumePatch, Fail, Abandon,
    ControllerPublishVolume, ControllerUnpublishVolume, StartCall, CreateVA,
    DeleteVA, HostAttach, HostDetach, PurgeStart, PurgeRefetch, PurgeByPatch,
    PurgeBySubresource, PurgeFail, TouchVM, StartVMI, NodeLost, NodeBack, vars
<1> QED
  BY <1>1, <1>2, <1>3

\* A VolumeAttachment becomes attached by a publish that has found the volume
\* in the VM and the VMI, and goes away by an unpublish that has not.
Answered(v, n) ==
  \E c \in Calls :
    /\ Serves(c, v, n)
    /\ UNCHANGED <<spec, hot>>
    /\ \/ pc[c] \in {"isVMI", "waitVMI"} /\ c \in seen /\ IsAttached(va'[<<v, n>>])
       \/ /\ pc[c] = "unVM" /\ c \notin seen /\ v \notin spec[n]
          /\ va'[<<v, n>>] = "none"

\* A VolumeAttachment changes state by the guest's controllers or by an answer.
LEMMA AttachmentStep ==
  ASSUME TypeInv, [Next]_vars, NEW v \in Vols, NEW n \in Nodes
  PROVE  \/ Answered(v, n)
         \/ /\ va'[<<v, n>>] = "none" => va[<<v, n>>] = "none"
            /\ va'[<<v, n>>] = "attached" => va[<<v, n>>] = "attached"
            /\ IsAttached(va'[<<v, n>>]) => IsAttached(va[<<v, n>>])
<1> DEFINE Goal == \/ Answered(v, n)
                   \/ /\ va'[<<v, n>>] = "none" => va[<<v, n>>] = "none"
                      /\ va'[<<v, n>>] = "attached" => va[<<v, n>>] = "attached"
                      /\ IsAttached(va'[<<v, n>>]) => IsAttached(va[<<v, n>>])
<1> USE DEF TypeInv, TypeOK, Busy, VAs, IsAttached, objects, handlers, purges
<1>1. ASSUME NEW c \in Calls, CheckVolumeInVMI(c) PROVE Goal
  <2>1. CASE vol[c] = v /\ node[c] = n
    BY <1>1, <2>1 DEF CheckVolumeInVMI, Answered, Serves
  <2>2. CASE ~(vol[c] = v /\ node[c] = n)
    BY <1>1, <2>2 DEF CheckVolumeInVMI
  <2> QED
    BY <2>1, <2>2
<1>2. ASSUME NEW c \in Calls, RemoveCheckVM(c) PROVE Goal
  <2>1. CASE vol[c] = v /\ node[c] = n
    BY <1>2, <2>1 DEF RemoveCheckVM, Answered, Serves
  <2>2. CASE ~(vol[c] = v /\ node[c] = n)
    BY <1>2, <2>2 DEF RemoveCheckVM
  <2> QED
    BY <2>1, <2>2
<1>3. ASSUME NEW w \in Vols, NEW m \in Nodes, CreateVA(w, m) \/ DeleteVA(w, m)
      PROVE  Goal
  BY <1>3, Zenon DEF CreateVA, DeleteVA
<1>4. \/ UNCHANGED va
      \/ \E c \in Calls : CheckVolumeInVMI(c) \/ RemoveCheckVM(c)
      \/ \E w \in Vols, m \in Nodes : CreateVA(w, m) \/ DeleteVA(w, m)
  BY ZenonT(30) DEF Next, CallStep, PurgeStep, CheckHostVA, CheckGuestVA, CheckVolumeInVM,
    HotplugVolumeToVM, AddVolumePatch, RemoveCheckVMI,
    UnplugVolumeFromVM, RemoveVolumePatch, Fail, Abandon,
    ControllerPublishVolume, ControllerUnpublishVolume, StartCall,
    Plug, Unplug, HostAttach, HostDetach, PurgeStart, PurgeRefetch, PurgeByPatch,
    PurgeBySubresource, PurgeFail, TouchVM, StopVMI, StartVMI, NodeLost, NodeBack, vars
<1> QED
  BY <1>1, <1>2, <1>3, <1>4

\* How a handler gets where what it has read counts.
Progress(c) ==
  /\ vol'[c] = vol[c] /\ node'[c] = node[c]
  /\ pc'[c] = "unVM" =>
       \/ pc[c] = "unVM" /\ (c \in seen' <=> c \in seen)
       \/ pc[c] = "unVMI" /\ UNCHANGED <<spec, hot>>
          /\ (c \notin seen' => vol[c] \notin hot[node[c]])
  /\ pc'[c] \in {"isVMI", "waitVMI"} =>
       \/ pc[c] \in {"isVMI", "waitVMI"} /\ (c \in seen' <=> c \in seen)
       \/ UNCHANGED spec /\ (c \in seen' => vol[c] \in spec[node[c]])
  /\ Settled(c)' =>
       \/ Settled(c)
       \/ pc[c] = "hostVA" /\ (ListMayFail \/ vol[c] \notin BlockVols)
       \/ /\ pc[c] = "guestVA"
          /\ \A m \in Nodes \ {node[c]} : ~IsAttached(va[<<vol[c], m>>])

\* Every handler makes progress as its code has it, or stays where it is.
LEMMA HandlerStep ==
  ASSUME TypeInv, [Next]_vars, NEW c \in Calls
  PROVE  pc'[c] \in {"idle", "hostVA", "unVMI"} \/ Progress(c)
<1> DEFINE Goal == pc'[c] \in {"idle", "hostVA", "unVMI"} \/ Progress(c)
<1> USE DEF TypeInv, TypeOK, Settled, PublishPCs, objects, handlers, purges
<1>1. ASSUME NEW d \in Calls, CheckHostVA(d) \/ CheckGuestVA(d) PROVE Goal
  BY <1>1, Zenon DEF CheckHostVA, CheckGuestVA, Goto, Progress
<1>2. ASSUME NEW d \in Calls, CheckVolumeInVM(d) PROVE Goal
  BY <1>2 DEF CheckVolumeInVM, Goto, Progress
<1>3. ASSUME NEW d \in Calls, RemoveCheckVMI(d) PROVE Goal
  BY <1>3 DEF RemoveCheckVMI, Goto, Progress
<1>4. ASSUME NEW d \in Calls, CheckVolumeInVMI(d) PROVE Goal
  BY <1>4 DEF CheckVolumeInVMI, Goto, End, Progress
<1>5. ASSUME NEW d \in Calls, RemoveCheckVM(d) PROVE Goal
  BY <1>5 DEF RemoveCheckVM, Goto, End, Progress
<1>6. ASSUME NEW d \in Calls, HotplugVolumeToVM(d) \/ AddVolumePatch(d) PROVE Goal
  BY <1>6 DEF HotplugVolumeToVM, AddVolumePatch, Goto, Progress
<1>7. ASSUME NEW d \in Calls, UnplugVolumeFromVM(d) PROVE Goal
  BY <1>7, ZenonT(30) DEF UnplugVolumeFromVM, Goto, End, Progress
<1>8. ASSUME NEW d \in Calls, RemoveVolumePatch(d) \/ Fail(d) PROVE Goal
  BY <1>8 DEF RemoveVolumePatch, Fail, End, Progress
<1>9. ASSUME NEW d \in Calls, NEW v \in Vols, NEW n \in Nodes,
             \/ ControllerPublishVolume(d, v, n)
             \/ ControllerUnpublishVolume(d, v, n)
      PROVE  Goal
  BY <1>9 DEF ControllerPublishVolume, ControllerUnpublishVolume, StartCall, Progress
<1>10. CASE UNCHANGED <<pc, vol, node, seen>>
  BY <1>10 DEF Progress
<1>11. \/ \E d \in Calls : CallStep(d) \/ Fail(d)
       \/ \E d \in Calls, v \in Vols, n \in Nodes :
            ControllerPublishVolume(d, v, n) \/ ControllerUnpublishVolume(d, v, n)
       \/ UNCHANGED <<pc, vol, node, seen>>
  BY ZenonT(30) DEF Next, PurgeStep, Abandon, CreateVA, DeleteVA, Plug, Unplug, HostAttach,
    HostDetach, PurgeStart, PurgeRefetch, PurgeByPatch, PurgeBySubresource,
    PurgeFail, TouchVM, StopVMI, StartVMI, NodeLost, NodeBack, vars
<1> QED
  BY <1>1, <1>2, <1>3, <1>4, <1>5, <1>6, <1>7, <1>8, <1>9, <1>10, <1>11 DEF CallStep

\* Nothing is lost and nothing is purged.
LEMMA SteadyStep ==
  ASSUME FailingNodes = {}, TypeInv, Steady, [Next]_vars PROVE Steady'
<1> USE DEF TypeInv, TypeOK, Steady, objects, handlers, purges
<1>1. UNCHANGED <<down, purge>>
  BY ZenonT(30) DEF Next, CallStep, PurgeStep, CheckHostVA, CheckGuestVA, CheckVolumeInVM,
    CheckVolumeInVMI, HotplugVolumeToVM, AddVolumePatch, RemoveCheckVMI,
    RemoveCheckVM, UnplugVolumeFromVM, RemoveVolumePatch, Fail, Abandon,
    ControllerPublishVolume, ControllerUnpublishVolume, StartCall, CreateVA,
    DeleteVA, Plug, Unplug, HostAttach, HostDetach, PurgeStart, PurgeRefetch,
    PurgeByPatch, PurgeBySubresource, PurgeFail, TouchVM, StopVMI, StartVMI,
    NodeLost, NodeBack, vars
<1> QED
  BY <1>1

\* A VMI is told nothing that its VM does not list.
LEMMA WantStep ==
  ASSUME TypeInv, WantListed, [Next]_vars PROVE WantListed'
<1> USE DEF TypeInv, TypeOK, Busy, WantListed, objects, handlers, purges
<1>1. ASSUME NEW c \in Calls, HotplugVolumeToVM(c) PROVE WantListed'
  BY <1>1 DEF HotplugVolumeToVM, SubresourceAdd
<1>2. ASSUME NEW c \in Calls, AddVolumePatch(c) PROVE WantListed'
  BY <1>2 DEF AddVolumePatch, WriteSpec
<1>3. ASSUME NEW c \in Calls, UnplugVolumeFromVM(c) PROVE WantListed'
  BY <1>3 DEF UnplugVolumeFromVM, SubresourceRemove
<1>4. ASSUME NEW c \in Calls, RemoveVolumePatch(c) PROVE WantListed'
  BY <1>4 DEF RemoveVolumePatch, WriteSpec
<1>5. ASSUME NEW n \in Nodes, PurgeByPatch(n) PROVE WantListed'
  BY <1>5 DEF PurgeByPatch, WriteSpec
<1>6. ASSUME NEW n \in Nodes, PurgeBySubresource(n) PROVE WantListed'
  BY <1>6 DEF PurgeBySubresource, SubresourceRemove
<1>7. ASSUME NEW n \in Nodes, StopVMI(n) \/ StartVMI(n) PROVE WantListed'
  BY <1>7 DEF StopVMI, StartVMI
<1>8. \/ UNCHANGED <<spec, want>>
      \/ \E c \in Calls : \/ HotplugVolumeToVM(c) \/ AddVolumePatch(c)
                          \/ UnplugVolumeFromVM(c) \/ RemoveVolumePatch(c)
      \/ \E n \in Nodes : \/ PurgeByPatch(n) \/ PurgeBySubresource(n)
                          \/ StopVMI(n) \/ StartVMI(n)
  BY ZenonT(30) DEF Next, CallStep, PurgeStep, CheckHostVA, CheckGuestVA, CheckVolumeInVM,
    CheckVolumeInVMI, RemoveCheckVMI, RemoveCheckVM, Fail, Abandon,
    ControllerPublishVolume, ControllerUnpublishVolume, StartCall, CreateVA,
    DeleteVA, Plug, Unplug, HostAttach, HostDetach, PurgeStart, PurgeRefetch,
    PurgeFail, TouchVM, NodeLost, NodeBack, vars
<1> QED
  BY <1>1, <1>2, <1>3, <1>4, <1>5, <1>6, <1>7, <1>8

----------------------------------------------------------------------------
(* The invariant is inductive                                              *)

\* Of a volume that leaves a VM there is an unpublish at work.
LEMMA RemovalStep ==
  ASSUME TypeInv, CopyInv, ListInv, Steady, [Next]_vars,
         NEW v \in Vols, NEW n \in Nodes, v \in spec[n], v \notin spec'[n]
  PROVE  /\ \E c \in Calls : Serves(c, v, n) /\ pc[c] \in {"remove", "removePatch"}
         /\ va[<<v, n>>] # "attached"
<1>1. OwnChange
  BY OwnChangeStep DEF vars, objects
<1>2. PICK c \in Calls : Serves(c, v, n) /\ pc[c] \in {"remove", "removePatch"}
  BY <1>1 DEF OwnChange, Steady
<1> QED
  BY <1>2 DEF ListInv, ServiceInv, UnpublishPCs, IsDeleting, Serves

\* What the first read of a handler has found is still so at the second.
LEMMA ReadsStep ==
  ASSUME TypeInv, CopyInv, ListInv, FailoverInv, [Next]_vars PROVE ReadsHold'
<1> SUFFICES ASSUME NEW c \in Calls,
                    \/ pc'[c] = "unVM" /\ c \notin seen' /\ vol'[c] \in hot'[node'[c]]
                    \/ pc'[c] \in {"isVMI", "waitVMI"} /\ c \in seen'
             PROVE  vol'[c] \in spec'[node'[c]]
  BY DEF ReadsHold
<1> DEFINE v == vol[c]
           n == node[c]
<1>1. Progress(c)
  BY HandlerStep
<1>2. v \in Vols /\ n \in Nodes /\ vol'[c] = v /\ node'[c] = n
  BY <1>1 DEF Progress, TypeInv, Busy, Settled, PublishPCs
<1>3. CASE UNCHANGED spec /\ v \in spec[n]
  BY <1>2, <1>3
<1>4. CASE pc[c] \in {"unVM", "isVMI", "waitVMI"} /\ v \in spec[n]
  <2>1. \A d \in Calls : Serves(d, v, n) => pc[d] \notin {"remove", "removePatch"}
    BY <1>4 DEF ListInv, ServiceInv, Serves
  <2> QED
    BY <1>2, <1>4, <2>1, RemovalStep, Zenon DEF FailoverInv
<1>5. v \in hot'[n] => v \in hot[n] \cup spec[n]
  BY <1>2, PlugsWanted DEF FailoverInv, WantListed
<1> QED
  BY <1>1, <1>2, <1>3, <1>4, <1>5 DEF Progress, FailoverInv, ReadsHold

\* Every step keeps DetachedMeansGone: unpublish answers OK after its two reads.
LEMMA GoneStep ==
  ASSUME TypeInv, CopyInv, ListInv, FailoverInv, [Next]_vars
  PROVE  DetachedMeansGone' /\ AttachedMeansListed'
<1> USE DEF FailoverInv
<1>1. ASSUME NEW v \in Vols, NEW n \in Nodes, v \in hot'[n] PROVE va'[<<v, n>>] # "none"
  <2>1. v \in hot[n] \cup spec[n]
    BY <1>1, PlugsWanted DEF WantListed
  <2>2. va[<<v, n>>] # "none"
    BY <2>1 DEF DetachedMeansGone, ListInv, NoOrphanVolume
  <2>3. CASE Answered(v, n)
    BY <1>1, <2>3 DEF Answered, ReadsHold, Serves, IsAttached
  <2> QED
    BY <2>2, <2>3, AttachmentStep
<1>2. ASSUME NEW v \in Vols, NEW n \in Nodes, va'[<<v, n>>] = "attached"
      PROVE  v \in spec'[n]
  <2>1. CASE Answered(v, n)
    BY <1>2, <2>1 DEF Answered, ReadsHold, Serves
  <2>2. CASE va[<<v, n>>] = "attached"
    BY <2>2, RemovalStep DEF AttachedMeansListed
  <2> QED
    BY <1>2, <2>1, <2>2, AttachmentStep
<1> QED
  BY <1>1, <1>2 DEF DetachedMeansGone, AttachedMeansListed

\* A publish of the volume that passes checkGuestVA now.
Passes(v, n) ==
  \E c \in Calls :
    /\ Serves(c, v, n)
    /\ pc[c] = "guestVA"
    /\ \A m \in Nodes \ {n} : ~IsAttached(va[<<v, m>>])

\* Then no other node holds the volume: its VolumeAttachments are neither
\* attached nor new, so there is none.
LEMMA PassesAlone ==
  ASSUME TypeInv, ListInv, DetachedMeansGone,
         NEW v \in Vols, NEW n \in Nodes, NEW m \in Nodes \ {n}, Passes(v, n)
  PROVE  ~Holds(v, m) /\ ~Passes(v, m)
<1> USE DEF ListInv, ServiceInv, TypeInv, TypeOK, PublishPCs
<1>1. va[<<v, n>>] \in {"new", "newDel"} /\ ~IsAttached(va[<<v, m>>])
  BY DEF Passes, Serves
<1>2. va[<<v, m>>] = "none"
  BY <1>1 DEF VAs, VAStates, IsAttached
<1>3. \A c \in Calls : Serves(c, v, m) => pc[c] \notin PublishPCs
  BY <1>2 DEF Serves
<1> QED
  BY <1>1, <1>2, <1>3 DEF Holds, Passes, Settled, DetachedMeansGone, NoOrphanVolume

\* A node comes to hold a block volume only by such a publish.
LEMMA HoldsStep ==
  ASSUME ~ListMayFail, TypeInv, CopyInv, ListInv, FailoverInv, [Next]_vars,
         NEW v \in BlockVols, NEW n \in Nodes, Holds(v, n)'
  PROVE  Holds(v, n) \/ Passes(v, n)
<1>1. v \in Vols
  BY HotplugAssumption
<1>2. CASE v \in spec'[n]
  <2>1. v \notin spec[n] =>
          \E c \in Calls : Serves(c, v, n) /\ pc[c] \in {"add", "addPatch"}
    BY <1>1, <1>2, OwnChangeStep DEF OwnChange, vars, objects
  <2> QED
    BY <2>1 DEF Holds, Settled, PublishPCs
<1>3. CASE v \in hot'[n]
  BY <1>3, PlugsWanted DEF Holds, FailoverInv, WantListed
<1>4. CASE IsAttached(va'[<<v, n>>])
  <2>1. CASE Answered(v, n)
    BY <1>4, <2>1 DEF Answered, Holds, Settled, PublishPCs, IsAttached
  <2> QED
    BY <1>1, <1>4, <2>1, AttachmentStep DEF Holds
<1>5. ASSUME NEW c \in Calls, Settled(c)', Serves(c, v, n)'
      PROVE  Holds(v, n) \/ Passes(v, n)
  <2>1. Progress(c)
    BY <1>5, HandlerStep DEF Settled, PublishPCs
  <2> QED
    BY <1>5, <2>1 DEF Progress, Holds, Passes, Serves
<1> QED
  BY <1>2, <1>3, <1>4, <1>5 DEF Holds

\* Every step keeps FailoverInv.
LEMMA FailoverStep ==
  ASSUME ~ListMayFail, FailingNodes = {},
         TypeInv, CopyInv, ListInv, FailoverInv, [Next]_vars
  PROVE  FailoverInv'
<1>1. OneHolder'
  <2> SUFFICES ASSUME NEW v \in BlockVols, NEW n \in Nodes, NEW m \in Nodes \ {n},
                      Holds(v, n)', Holds(v, m)'
               PROVE  FALSE
    BY DEF OneHolder
  <2>1. v \in Vols
    BY HotplugAssumption
  <2>2. (Holds(v, n) \/ Passes(v, n)) /\ (Holds(v, m) \/ Passes(v, m))
    BY HoldsStep
  <2> QED
    BY <2>1, <2>2, PassesAlone DEF FailoverInv, OneHolder
<1> QED
  BY <1>1, SteadyStep, WantStep, ReadsStep, GoneStep DEF FailoverInv

\* FailoverInv holds in every state, under the assumptions of the theorems below.
LEMMA FailoverInvariant ==
  ASSUME ~MayAbandon, ~ListMayFail, FailingNodes = {}
  PROVE  Spec => []FailoverInv
  BY TypeInvariant, CopyInvariant, ListInvariant, FailoverInit, FailoverStep, PTL
  DEF Spec

\* In a failover a block volume is never plugged into two VMs, although its
\* host PVC would let it: while no node is lost, the attacher waits for every
\* answer and no List of the host's VolumeAttachments fails, waitForVASettled and
\* removeVolumeFromHostVM are enough.
THEOREM OneWriter ==
  ASSUME ~MayAbandon, ~ListMayFail, FailingNodes = {}
  PROVE  Spec => []SingleWriter
<1>1. FailoverInv => SingleWriter
  BY Zenon DEF FailoverInv, OneHolder, Holds, SingleWriter
<1> QED
  BY <1>1, FailoverInvariant, PTL

\* Under the same assumptions ControllerUnpublishVolume answers OK only when
\* the volume has left the VMI.
THEOREM DetachedIsGone ==
  ASSUME ~MayAbandon, ~ListMayFail, FailingNodes = {}
  PROVE  Spec => []DetachedMeansGone
  BY FailoverInvariant, PTL DEF FailoverInv

\* Under the same assumptions what ControllerPublishVolume has answered stays
\* true until the VolumeAttachment is deleted.
THEOREM AttachedIsListed ==
  ASSUME ~MayAbandon, ~ListMayFail, FailingNodes = {}
  PROVE  Spec => []AttachedMeansListed
  BY FailoverInvariant, PTL DEF FailoverInv

\* Under the same assumptions waitForVASettled keeps its promise until the
\* write of the VM: no step adds a block volume that is Attached elsewhere.
THEOREM SettledFirst ==
  ASSUME ~MayAbandon, ~ListMayFail, FailingNodes = {}
  PROVE  Spec => SettledBeforeAttach
<1>1. ASSUME TypeInv, CopyInv, ListInv, FailoverInv, [Next]_vars
      PROVE  [SettledAttach]_vars
  <2>1. [OwnChange]_vars
    BY <1>1, OwnChangeStep
  <2>2. ASSUME NEW v \in BlockVols, NEW n \in Nodes, NEW m \in Nodes,
               v \notin spec[n], v \in spec'[n], m # n
        PROVE  ~IsAttached(va[<<v, m>>])
    <3>1. PICK c \in Calls : Serves(c, v, n) /\ pc[c] \in {"add", "addPatch"}
      BY <2>1, <2>2, HotplugAssumption DEF OwnChange, vars, objects
    <3>2. Holds(v, n)
      BY <3>1 DEF Holds, Settled, PublishPCs
    <3>3. ~Holds(v, m)
      BY <1>1, <2>2, <3>2 DEF FailoverInv, OneHolder
    <3> QED
      BY <3>3 DEF Holds
  <2> QED
    BY <2>2 DEF SettledAttach
<1> QED
  BY <1>1, TypeInvariant, CopyInvariant, ListInvariant, FailoverInvariant, PTL
  DEF Spec, SettledBeforeAttach
============================================================================
