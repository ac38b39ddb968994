-------------------------- MODULE RefinementProofs --------------------------
(***************************************************************************)
(* Hotplug implements Attachment: the proof that every step of a handler,  *)
(* of KubeVirt or of the guest cluster is a step of the promise or none.   *)
(* The invariants are those of FailoverProofs.                             *)
(***************************************************************************)
EXTENDS FailoverProofs

\* The invariants the steps start from, and FailoverInv after the step.
Invs == TypeInv /\ CopyInv /\ ListInv /\ FailoverInv

\* Nothing is held, plugged or attached in the beginning.
LEMMA PromiseInit ==
  ASSUME NEW v \in BlockVols, Init PROVE Promise(v)!Init
<1>1. v \in Vols
  BY HotplugAssumption
<1>2. \A n \in Nodes : ~Holds(v, n) /\ v \notin hot[n] /\ va[<<v, n>>] = "none"
  BY <1>1, HotplugAssumption
  DEF Init, Holds, Settled, PublishPCs, VAs, IsAttached
<1> QED
  BY <1>2 DEF Promise!Init

----------------------------------------------------------------------------
(* What one step does to a volume                                          *)

\* A disk comes or goes in one VM, and nothing else happens.
LEMMA DiskStep ==
  ASSUME TypeInv, [Next]_vars, NEW v \in Vols, NEW n \in Nodes,
         ~(v \in hot'[n] <=> v \in hot[n])
  PROVE  /\ UNCHANGED <<spec, va, pc, vol, node>>
         /\ \A m \in Nodes \ {n} : v \in hot'[m] <=> v \in hot[m]
<1> DEFINE Goal == /\ UNCHANGED <<spec, va, pc, vol, node>>
                   /\ \A m \in Nodes \ {n} : v \in hot'[m] <=> v \in hot[m]
<1> USE DEF TypeInv, TypeOK, objects, handlers, purges
<1>1. ASSUME NEW w \in Vols, NEW m \in Nodes, Plug(w, m) \/ Unplug(w, m) PROVE Goal
  BY <1>1 DEF Plug, Unplug
<1>2. ASSUME NEW m \in Nodes, StopVMI(m) PROVE Goal
  BY <1>2 DEF StopVMI
<1>3. \/ UNCHANGED hot
      \/ \E w \in Vols, m \in Nodes : Plug(w, m) \/ Unplug(w, m)
      \/ \E m \in Nodes : StopVMI(m)
  BY ZenonT(30) DEF Next, CallStep, PurgeStep, CheckHostVA, CheckGuestVA, CheckVolumeInVM,
    CheckVolumeInVMI, HotplugVolumeToVM, AddVolumePatch, RemoveCheckVMI,
    RemoveCheckVM, UnplugVolumeFromVM, RemoveVolumePatch, Fail, Abandon,
    ControllerPublishVolume, ControllerUnpublishVolume, StartCall, CreateVA,
    DeleteVA, HostAttach, HostDetach, PurgeStart, PurgeRefetch, PurgeByPatch,
    PurgeBySubresource, PurgeFail, TouchVM, StartVMI, NodeLost, NodeBack, vars
<1> QED
  BY <1>1, <1>2, <1>3

\* The handler ends and no other one moves.
Ends(c) ==
  /\ pc'[c] = "idle"
  /\ \A d \in Calls \ {c} : pc'[d] = pc[d] /\ vol'[d] = vol[d] /\ node'[d] = node[d]

\* The four ways in which a VolumeAttachment changes.
Requested(v, n) ==
  /\ UNCHANGED <<pc, vol, node>>
  /\ va[<<v, n>>] = "none" /\ va'[<<v, n>>] = "new"
  /\ \A m \in Nodes : va[<<v, m>>] \notin {"new", "newDel"}

Dropped(v, n) ==
  /\ UNCHANGED <<pc, vol, node>>
  /\ \/ va[<<v, n>>] = "new" /\ va'[<<v, n>>] = "newDel"
     \/ va[<<v, n>>] = "attached" /\ va'[<<v, n>>] = "attachedDel"

AnsweredAttached(v, n) ==
  \E c \in Calls :
    /\ Serves(c, v, n) /\ Ends(c)
    /\ pc[c] \in {"isVMI", "waitVMI"} /\ v \in hot[n]
    /\ va'[<<v, n>>] = IF IsDeleting(va[<<v, n>>]) THEN "attachedDel" ELSE "attached"

AnsweredDetached(v, n) ==
  \E c \in Calls :
    /\ Serves(c, v, n) /\ Ends(c)
    /\ pc[c] = "unVM" /\ c \notin seen /\ v \notin spec[n]
    /\ va'[<<v, n>>] = "none"

\* A VolumeAttachment changes in one of them, and no other one does.
LEMMA VAStep ==
  ASSUME TypeInv, [Next]_vars, NEW v \in Vols, NEW n \in Nodes,
         va'[<<v, n>>] # va[<<v, n>>]
  PROVE  /\ UNCHANGED <<spec, hot>>
         /\ \A m \in Nodes \ {n} : va'[<<v, m>>] = va[<<v, m>>]
         /\ \/ Requested(v, n) \/ Dropped(v, n)
            \/ AnsweredAttached(v, n) \/ AnsweredDetached(v, n)
<1> DEFINE Goal == /\ UNCHANGED <<spec, hot>>
                   /\ \A m \in Nodes \ {n} : va'[<<v, m>>] = va[<<v, m>>]
                   /\ \/ Requested(v, n) \/ Dropped(v, n)
                      \/ AnsweredAttached(v, n) \/ AnsweredDetached(v, n)
<1> USE DEF TypeInv, TypeOK, Busy, VAs, objects, handlers, purges
<1>1. ASSUME NEW c \in Calls, CheckVolumeInVMI(c) PROVE Goal
  <2>1. vol[c] = v /\ node[c] = n
    BY <1>1 DEF CheckVolumeInVMI
  <2>2. UNCHANGED <<spec, hot>> /\ Ends(c)
    BY <1>1, <2>1 DEF CheckVolumeInVMI, End, Ends
  <2>3. AnsweredAttached(v, n)
    BY <1>1, <2>1, <2>2 DEF CheckVolumeInVMI, AnsweredAttached, Serves
  <2> QED
    BY <1>1, <2>1, <2>2, <2>3 DEF CheckVolumeInVMI
<1>2. ASSUME NEW c \in Calls, RemoveCheckVM(c) PROVE Goal
  <2>1. vol[c] = v /\ node[c] = n
    BY <1>2 DEF RemoveCheckVM
  <2>2. UNCHANGED <<spec, hot>> /\ Ends(c)
    BY <1>2, <2>1 DEF RemoveCheckVM, End, Ends
  <2>3. AnsweredDetached(v, n)
    BY <1>2, <2>1, <2>2 DEF RemoveCheckVM, AnsweredDetached, Serves
  <2> QED
    BY <1>2, <2>1, <2>2, <2>3 DEF RemoveCheckVM
<1>3. ASSUME NEW w \in Vols, NEW m \in Nodes, CreateVA(w, m) PROVE Goal
  BY <1>3 DEF CreateVA, Requested
<1>4. ASSUME NEW w \in Vols, NEW m \in Nodes, DeleteVA(w, m) PROVE Goal
  BY <1>4 DEF DeleteVA, Dropped
<1>5. \/ UNCHANGED va
      \/ \E c \in Calls : CheckVolumeInVMI(c) \/ RemoveCheckVM(c)
      \/ \E w \in Vols, m \in Nodes : CreateVA(w, m) \/ DeleteVA(w, m)
  BY ZenonT(30) DEF Next, CallStep, PurgeStep, CheckHostVA, CheckGuestVA, CheckVolumeInVM,
    HotplugVolumeToVM, AddVolumePatch, RemoveCheckVMI,
    UnplugVolumeFromVM, RemoveVolumePatch, Fail, Abandon,
    ControllerPublishVolume, ControllerUnpublishVolume, StartCall,
    Plug, Unplug, HostAttach, HostDetach, PurgeStart, PurgeRefetch, PurgeByPatch,
    PurgeBySubresource, PurgeFail, TouchVM, StopVMI, StartVMI, NodeLost, NodeBack, vars
<1> QED
  BY <1>1, <1>2, <1>3, <1>4, <1>5

----------------------------------------------------------------------------
(* Every step keeps the promise                                            *)

\* The mapped state of a volume.
Held(v) == {n \in Nodes : Holds(v, n)}
Disks(v) == {n \in Nodes : v \in hot[n]}
VAof(v) == [n \in Nodes |-> va[<<v, n>>]]

\* A node that lists the volume, has it plugged or Attached holds it; with the
\* same handlers nothing else matters.
LEMMA HoldsFrame ==
  ASSUME TypeInv, NEW v \in Vols, NEW n \in Nodes, UNCHANGED <<pc, vol, node>>,
         v \in spec'[n] <=> v \in spec[n],
         IsAttached(va'[<<v, n>>]) <=> IsAttached(va[<<v, n>>])
  PROVE  /\ (v \in hot'[n] <=> v \in hot[n]) => (Holds(v, n)' <=> Holds(v, n))
         /\ Holds(v, n)' /\ ~Holds(v, n) => v \in hot'[n]
  BY DEF Holds, Settled, Serves, TypeInv, TypeOK

\* KubeVirt plugs a volume that is listed, and unplugs any.
LEMMA DiskKept ==
  ASSUME Invs, [Next]_vars, NEW v \in BlockVols, NEW n \in Nodes,
         ~(v \in hot'[n] <=> v \in hot[n])
  PROVE  Promise(v)!Next
<1>1. v \in Vols
  BY HotplugAssumption
<1>2. /\ UNCHANGED <<spec, va, pc, vol, node>>
      /\ \A m \in Nodes \ {n} : v \in hot'[m] <=> v \in hot[m]
  BY <1>1, DiskStep DEF Invs
<1>3. \A m \in Nodes \ {n} : Holds(v, m)' <=> Holds(v, m)
  BY <1>1, <1>2, HoldsFrame DEF Invs
<1>4. VAof(v)' = VAof(v)
  BY <1>2 DEF VAof
<1>5. CASE v \in hot'[n]
  <2>1. Holds(v, n) /\ Holds(v, n)'
    BY <1>2, <1>5, PlugsWanted DEF Invs, FailoverInv, WantListed, Holds
  <2>2. Held(v)' = Held(v) /\ n \in Held(v) \ Disks(v) /\ Disks(v)' = Disks(v) \cup {n}
    BY <1>2, <1>3, <1>5, <2>1 DEF Held, Disks
  <2> QED
    BY <1>4, <2>2 DEF Promise!Next, Promise!Plug, Held, Disks, VAof
<1>6. CASE v \notin hot'[n]
  <2>1. Holds(v, n)
    BY <1>6 DEF Holds
  <2>2. Disks(v)' = Disks(v) \ {n} /\ n \in Disks(v)
    BY <1>2, <1>6 DEF Disks
  <2>3. \/ Held(v)' = Held(v)
        \/ Held(v)' = Held(v) \ {n} /\ ~IsAttached(va[<<v, n>>])
    BY <1>2, <1>3, <2>1 DEF Held, Holds
  <2> QED
    BY <1>4, <2>2, <2>3
    DEF Promise!Next, Promise!Unplug, Promise!Attached, Held, Disks, VAof, IsAttached
<1> QED
  BY <1>5, <1>6

\* The guest's controllers and the answers of the handlers keep the promise.
LEMMA VAKept ==
  ASSUME Invs, [Next]_vars, NEW v \in BlockVols, NEW n \in Nodes,
         va'[<<v, n>>] # va[<<v, n>>]
  PROVE  Promise(v)!Next
<1>1. v \in Vols
  BY HotplugAssumption
<1>2. /\ UNCHANGED <<spec, hot>>
      /\ \A m \in Nodes \ {n} : va'[<<v, m>>] = va[<<v, m>>]
      /\ \/ Requested(v, n) \/ Dropped(v, n)
         \/ AnsweredAttached(v, n) \/ AnsweredDetached(v, n)
  BY <1>1, VAStep DEF Invs
<1>3. Disks(v)' = Disks(v)
  BY <1>2 DEF Disks
<1>4. VAof(v)' = [VAof(v) EXCEPT ![n] = va'[<<v, n>>]]
  <2>1. \A m \in Nodes :
          va'[<<v, m>>] = IF m = n THEN va'[<<v, n>>] ELSE va[<<v, m>>]
    BY <1>2, Zenon
  <2> QED
    BY <2>1 DEF VAof
<1>5. CASE Requested(v, n)
  <2>1. \A m \in Nodes : Holds(v, m)' <=> Holds(v, m)
    BY <1>1, <1>2, <1>5, HoldsFrame DEF Invs, Requested, IsAttached
  <2>2. Held(v)' = Held(v)
    BY <2>1 DEF Held
  <2> QED
    BY <1>3, <1>4, <1>5, <2>2
    DEF Requested, Promise!Next, Promise!Request, Promise!Starting, Held, Disks, VAof
<1>6. CASE Dropped(v, n)
  <2>1. \A m \in Nodes : Holds(v, m)' <=> Holds(v, m)
    BY <1>1, <1>2, <1>6, HoldsFrame DEF Invs, Dropped, IsAttached
  <2>2. Held(v)' = Held(v)
    BY <2>1 DEF Held
  <2> QED
    BY <1>3, <1>4, <1>6, <2>2
    DEF Dropped, Promise!Next, Promise!Delete, Held, Disks, VAof
<1>7. CASE AnsweredAttached(v, n)
  <2>1. PICK c \in Calls :
          /\ Serves(c, v, n) /\ Ends(c)
          /\ pc[c] \in {"isVMI", "waitVMI"} /\ v \in hot[n]
          /\ va'[<<v, n>>] =
               IF IsDeleting(va[<<v, n>>]) THEN "attachedDel" ELSE "attached"
    BY <1>7 DEF AnsweredAttached
  <2>2. va[<<v, n>>] \in {"new", "newDel"}
    BY <2>1 DEF Invs, ListInv, ServiceInv, Serves, PublishPCs
  <2>3. \A m \in Nodes \ {n} : Holds(v, m)' <=> Holds(v, m)
    BY <1>2, <2>1 DEF Holds, Settled, PublishPCs, Serves, Ends
  <2>4. Holds(v, n) /\ Holds(v, n)'
    BY <1>2, <2>1 DEF Holds
  <2>5. Held(v)' = Held(v)
    BY <2>3, <2>4 DEF Held
  <2> QED
    BY <1>3, <1>4, <2>1, <2>2, <2>5
    DEF Promise!Next, Promise!Attach, Promise!Starting, IsDeleting, Held, Disks, VAof
<1>8. CASE AnsweredDetached(v, n)
  <2>1. PICK c \in Calls :
          /\ Serves(c, v, n) /\ Ends(c)
          /\ pc[c] = "unVM" /\ c \notin seen /\ v \notin spec[n]
          /\ va'[<<v, n>>] = "none"
    BY <1>8 DEF AnsweredDetached
  <2>2. v \notin hot[n]
    BY <2>1 DEF Invs, FailoverInv, ReadsHold, Serves
  <2>3. IsDeleting(va[<<v, n>>])
    BY <2>1 DEF Invs, ListInv, ServiceInv, Serves, UnpublishPCs
  <2>4. \A m \in Nodes \ {n} : Holds(v, m)' <=> Holds(v, m)
    BY <1>2, <2>1 DEF Holds, Settled, PublishPCs, Serves, Ends
  <2>5. \A d \in Calls \ {c} : Serves(d, v, n) => pc[d] = "idle"
    BY <2>1 DEF Invs, ListInv, ServiceInv, Serves
  <2>6. ~Holds(v, n)'
    BY <1>2, <2>1, <2>2, <2>5 DEF Holds, Settled, PublishPCs, Serves, Ends, IsAttached
  <2>7. Held(v)' = Held(v) \ {n} /\ n \notin Disks(v)
    BY <2>2, <2>4, <2>6 DEF Held, Disks
  <2> QED
    BY <1>3, <1>4, <2>1, <2>3, <2>7
    DEF Promise!Next, Promise!Detach, Promise!Deleting, IsDeleting, Held, Disks, VAof
<1> QED
  BY <1>2, <1>5, <1>6, <1>7, <1>8

\* What is left: a publish passes waitForVASettled, or the last that held the
\* volume for a node goes away.
LEMMA HoldKept ==
  ASSUME Invs, FailoverInv', ~ListMayFail, [Next]_vars, NEW v \in BlockVols,
         \A n \in Nodes : v \in hot'[n] <=> v \in hot[n],
         \A n \in Nodes : va'[<<v, n>>] = va[<<v, n>>]
  PROVE  Promise(v)!Next \/ UNCHANGED Promise(v)!vars
<1>1. v \in Vols
  BY HotplugAssumption
<1>2. Disks(v)' = Disks(v) /\ VAof(v)' = VAof(v)
  BY DEF Disks, VAof
<1>3. CASE \A n \in Nodes : Holds(v, n)' <=> Holds(v, n)
  <2>1. Held(v)' = Held(v)
    BY <1>3 DEF Held
  <2> QED
    BY <1>2, <2>1 DEF Promise!vars, Held, Disks, VAof
<1>4. ASSUME NEW n \in Nodes, Holds(v, n)', ~Holds(v, n) PROVE Promise(v)!Next
  <2>1. Passes(v, n)
    BY <1>4, HoldsStep DEF Invs
  <2>2. \A m \in Nodes : ~Holds(v, m)
    BY <1>1, <1>4, <2>1, PassesAlone DEF Invs, FailoverInv
  <2>3. \A m \in Nodes \ {n} : ~Holds(v, m)'
    BY <1>4 DEF FailoverInv, OneHolder
  <2>4. Held(v) = {} /\ Held(v)' = {n}
    BY <1>4, <2>2, <2>3 DEF Held
  <2>5. va[<<v, n>>] \in {"new", "newDel"}
    BY <2>1 DEF Passes, Invs, ListInv, ServiceInv, Serves, PublishPCs
  <2> QED
    BY <1>2, <2>4, <2>5
    DEF Promise!Next, Promise!Acquire, Promise!Starting, Held, Disks, VAof
<1>5. ASSUME NEW n \in Nodes, Holds(v, n), ~Holds(v, n)',
             \A m \in Nodes : Holds(v, m)' => Holds(v, m)
      PROVE  Promise(v)!Next
  <2>1. \A m \in Nodes : ~Holds(v, m)' /\ (Holds(v, m) => m = n)
    BY <1>5 DEF Invs, FailoverInv, OneHolder
  <2>2. v \notin hot[n] /\ ~IsAttached(va[<<v, n>>])
    BY <1>5 DEF Holds
  <2>3. Held(v)' = Held(v) \ {n} /\ n \in Held(v) \ Disks(v)
    BY <1>5, <2>1, <2>2 DEF Held, Disks
  <2> QED
    BY <1>2, <2>2, <2>3
    DEF Promise!Next, Promise!Release, Promise!Attached, IsAttached, Held, Disks, VAof
<1> QED
  BY <1>3, <1>4, <1>5, Zenon

\* Every step of Hotplug is one of the promise of each volume, or none.
LEMMA PromiseStep ==
  ASSUME ~ListMayFail, Invs, FailoverInv', [Next]_vars, NEW v \in BlockVols
  PROVE  Promise(v)!Next \/ UNCHANGED Promise(v)!vars
<1>1. CASE \E n \in Nodes : ~(v \in hot'[n] <=> v \in hot[n])
  BY <1>1, DiskKept
<1>2. CASE \E n \in Nodes : va'[<<v, n>>] # va[<<v, n>>]
  BY <1>2, VAKept
<1>3. CASE /\ \A n \in Nodes : v \in hot'[n] <=> v \in hot[n]
           /\ \A n \in Nodes : va'[<<v, n>>] = va[<<v, n>>]
  BY <1>3, HoldKept
<1> QED
  BY <1>1, <1>2, <1>3

\* Hotplug implements Attachment for every block volume, however many nodes,
\* volumes and concurrent calls there are and in whichever way volumes are
\* hotplugged, as long as no node is lost, the attacher waits for every answer
\* and no List of the host's VolumeAttachments fails.
THEOREM Refinement ==
  ASSUME ~MayAbandon, ~ListMayFail, FailingNodes = {}, NEW v \in BlockVols
  PROVE  Spec => Promise(v)!Spec
<1>1. Init => Promise(v)!Init
  BY PromiseInit
<1>2. ASSUME TypeInv, CopyInv, ListInv, FailoverInv, FailoverInv', [Next]_vars
      PROVE  [Promise(v)!Next]_(Promise(v)!vars)
  BY <1>2, PromiseStep DEF Invs
<1> QED
  BY <1>1, <1>2, TypeInvariant, CopyInvariant, ListInvariant, FailoverInvariant, PTL
  DEF Spec, Promise!Spec

\* The same, as the run hotplug_failover checks it: the handlers of
\* ControllerPublishVolume and ControllerUnpublishVolume work as one lock.
THEOREM PromiseKept ==
  ASSUME ~MayAbandon, ~ListMayFail, FailingNodes = {}
  PROVE  Spec => ImplementsAttachment
<1>1. Init => \A v \in BlockVols : Promise(v)!Init
  BY PromiseInit
<1>2. ASSUME TypeInv, CopyInv, ListInv, FailoverInv, FailoverInv', [Next]_vars
      PROVE  [PromisedStep]_vars
  BY <1>2, PromiseStep DEF Invs, PromisedStep
<1> QED
  BY <1>1, <1>2, TypeInvariant, CopyInvariant, ListInvariant, FailoverInvariant, PTL
  DEF Spec, ImplementsAttachment
============================================================================
