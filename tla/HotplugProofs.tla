--------------------------- MODULE HotplugProofs ---------------------------
(***************************************************************************)
(* The types of Hotplug, and that no update of a VM is lost: for every set *)
(* of volumes, nodes, hosts and handlers and for both ways of hotplugging. *)
(***************************************************************************)
EXTENDS Hotplug, TLAPS

\* A handler at work has a request: needed to show that what it writes into a
\* VM is a volume.
Busy ==
  \A c \in Calls : pc[c] # "idle" => vol[c] \in Vols /\ node[c] \in Nodes

TypeInv == TypeOK /\ Busy

\* Init establishes the types.
LEMMA TypeInit == Init => TypeInv
  BY HotplugAssumption DEF Init, TypeInv, TypeOK, Busy, VAs, VAStates

\* Every step keeps the types.
LEMMA TypeStep == TypeInv /\ [Next]_vars => TypeInv'
<1> SUFFICES ASSUME TypeOK, Busy, [Next]_vars PROVE TypeOK' /\ Busy'
  BY DEF TypeInv
<1> USE HotplugAssumption DEF TypeOK, Busy, objects, handlers, purges
<1>1. ASSUME NEW c \in Calls, CheckHostVA(c) PROVE TypeOK' /\ Busy'
  BY <1>1 DEF CheckHostVA, Goto, PublishPCs
<1>2. ASSUME NEW c \in Calls, CheckGuestVA(c) PROVE TypeOK' /\ Busy'
  BY <1>2 DEF CheckGuestVA, Goto, PublishPCs
<1>3. ASSUME NEW c \in Calls, CheckVolumeInVM(c) PROVE TypeOK' /\ Busy'
  BY <1>3 DEF CheckVolumeInVM, Goto, PublishPCs
<1>4. ASSUME NEW c \in Calls, CheckVolumeInVMI(c) PROVE TypeOK' /\ Busy'
  <2>1. va' \in [VAs -> VAStates]
    BY <1>4, Zenon DEF CheckVolumeInVMI, VAs, VAStates
  <2>2. CASE End(c)
    BY <1>4, <2>1, <2>2 DEF CheckVolumeInVMI, End
  <2>3. CASE ~End(c)
    BY <1>4, <2>1, <2>3 DEF CheckVolumeInVMI, Goto, PublishPCs
  <2> QED
    BY <2>2, <2>3
<1>5. ASSUME NEW c \in Calls, HotplugVolumeToVM(c) PROVE TypeOK' /\ Busy'
  <2>1. vol[c] \in Vols /\ node[c] \in Nodes
    BY <1>5 DEF HotplugVolumeToVM
  <2>2. CASE UseDeclarativeHotplug
    BY <1>5, <2>1, <2>2 DEF HotplugVolumeToVM, Goto, PublishPCs
  <2>3. CASE ~UseDeclarativeHotplug
    BY <1>5, <2>1, <2>3
    DEF HotplugVolumeToVM, SubresourceAdd, Outdate, Goto, PublishPCs
  <2> QED
    BY <2>2, <2>3
<1>6. ASSUME NEW c \in Calls, AddVolumePatch(c) PROVE TypeOK' /\ Busy'
  BY <1>6 DEF AddVolumePatch, WriteSpec, Outdate, Goto, PublishPCs
<1>7. ASSUME NEW c \in Calls, RemoveCheckVMI(c) PROVE TypeOK' /\ Busy'
  BY <1>7 DEF RemoveCheckVMI, Goto, UnpublishPCs
<1>8. ASSUME NEW c \in Calls, RemoveCheckVM(c) PROVE TypeOK' /\ Busy'
  <2>1. va' \in [VAs -> VAStates]
    BY <1>8, Zenon DEF RemoveCheckVM, VAs, VAStates
  <2>2. CASE End(c)
    BY <1>8, <2>1, <2>2 DEF RemoveCheckVM, End
  <2>3. CASE ~End(c)
    BY <1>8, <2>1, <2>3 DEF RemoveCheckVM, Goto, UnpublishPCs
  <2> QED
    BY <2>2, <2>3
<1>9. ASSUME NEW c \in Calls, UnplugVolumeFromVM(c) PROVE TypeOK' /\ Busy'
  <2>1. CASE UseDeclarativeHotplug
    BY <1>9, <2>1 DEF UnplugVolumeFromVM, Goto, UnpublishPCs
  <2>2. CASE ~UseDeclarativeHotplug /\ c \in seen
    BY <1>9, <2>2 DEF UnplugVolumeFromVM, End
  <2>3. CASE ~UseDeclarativeHotplug /\ c \notin seen
    BY <1>9, <2>3 DEF UnplugVolumeFromVM, SubresourceRemove, Outdate, End
  <2> QED
    BY <2>1, <2>2, <2>3
<1>10. ASSUME NEW c \in Calls, RemoveVolumePatch(c) PROVE TypeOK' /\ Busy'
  BY <1>10 DEF RemoveVolumePatch, WriteSpec, Outdate, End
<1>11. ASSUME NEW c \in Calls, Fail(c) \/ Abandon(c) PROVE TypeOK' /\ Busy'
  BY <1>11 DEF Fail, Abandon, End
<1>12. ASSUME NEW c \in Calls, NEW v \in Vols, NEW n \in Nodes,
              \/ ControllerPublishVolume(c, v, n)
              \/ ControllerUnpublishVolume(c, v, n)
       PROVE  TypeOK' /\ Busy'
  BY <1>12 DEF ControllerPublishVolume, ControllerUnpublishVolume, StartCall,
    PublishPCs, UnpublishPCs
<1>13. ASSUME NEW v \in Vols, NEW n \in Nodes, CreateVA(v, n) \/ DeleteVA(v, n)
       PROVE  TypeOK' /\ Busy'
  BY <1>13, Zenon DEF CreateVA, DeleteVA, VAs, VAStates
<1>14. ASSUME NEW v \in Vols, NEW n \in Nodes, Plug(v, n) \/ Unplug(v, n)
       PROVE  TypeOK' /\ Busy'
  BY <1>14 DEF Plug, Unplug
<1>15. ASSUME NEW v \in Vols, NEW h \in Hosts, HostAttach(v, h) \/ HostDetach(v, h)
       PROVE  TypeOK' /\ Busy'
  BY <1>15 DEF HostAttach, HostDetach
<1>16. ASSUME NEW n \in Nodes, PurgeStart(n) \/ PurgeFail(n) \/ PurgeRefetch(n)
       PROVE  TypeOK' /\ Busy'
  BY <1>16 DEF PurgeStart, PurgeFail, PurgeRefetch, PurgeEnd
<1>17. ASSUME NEW n \in Nodes, PurgeByPatch(n) PROVE TypeOK' /\ Busy'
  BY <1>17 DEF PurgeByPatch, WriteSpec, Outdate, PurgeEnd
<1>18. ASSUME NEW n \in Nodes, PurgeBySubresource(n) PROVE TypeOK' /\ Busy'
  BY <1>18 DEF PurgeBySubresource, SubresourceRemove, Outdate, PurgeEnd
<1>19. ASSUME NEW n \in Nodes, TouchVM(n) \/ StopVMI(n) \/ StartVMI(n)
       PROVE  TypeOK' /\ Busy'
  BY <1>19 DEF TouchVM, StopVMI, StartVMI, Outdate
<1>20. ASSUME NEW n \in Nodes, NodeLost(n) \/ NodeBack(n) PROVE TypeOK' /\ Busy'
  BY <1>20 DEF NodeLost, NodeBack
<1>21. CASE UNCHANGED vars
  BY <1>21 DEF vars
<1> QED
  BY <1>1, <1>2, <1>3, <1>4, <1>5, <1>6, <1>7, <1>8, <1>9, <1>10, <1>11,
     <1>12, <1>13, <1>14, <1>15, <1>16, <1>17, <1>18, <1>19, <1>20, <1>21,
     ZenonT(30) DEF Next, CallStep, PurgeStep

\* The types hold in every state.
LEMMA TypeInvariant == Spec => []TypeInv
  BY TypeInit, TypeStep, PTL DEF Spec

\* The variables of Hotplug always have their types.
THEOREM TypeCorrect == Spec => []TypeOK
  BY TypeInvariant, PTL DEF TypeInv

----------------------------------------------------------------------------
(* No update of a VM is lost                                               *)

\* The inductive invariant behind the resourceVersion test: as long as a VM
\* has not been written since a handler, or the node controller, has read it,
\* the copy that will replace its list is its list.
CopyInv ==
  /\ \A c \in fresh : /\ copy[c] = spec[node[c]]
                      /\ pc[c] \in {"addPatch", "removePatch"}
  /\ \A n \in current : listed[n] = spec[n] /\ purge[n] = "remove"

\* No handler has a copy in the beginning.
LEMMA CopyInit == Init => CopyInv
  BY DEF Init, CopyInv

\* Every step keeps CopyInv: whoever writes a VM outdates all copies of it.
LEMMA CopyStep == TypeInv /\ CopyInv /\ [Next]_vars => CopyInv'
<1> SUFFICES ASSUME TypeOK, Busy, CopyInv, [Next]_vars PROVE CopyInv'
  BY DEF TypeInv
<1> USE DEF TypeOK, Busy, CopyInv, objects, handlers, purges
<1>1. ASSUME NEW c \in Calls,
             CheckHostVA(c) \/ CheckGuestVA(c) \/ CheckVolumeInVM(c) \/ RemoveCheckVMI(c)
      PROVE  CopyInv'
  BY <1>1 DEF CheckHostVA, CheckGuestVA, CheckVolumeInVM, RemoveCheckVMI, Goto
<1>2. ASSUME NEW c \in Calls, CheckVolumeInVMI(c) \/ RemoveCheckVM(c) PROVE CopyInv'
  BY <1>2 DEF CheckVolumeInVMI, RemoveCheckVM, Goto, End
<1>3. ASSUME NEW c \in Calls, HotplugVolumeToVM(c) PROVE CopyInv'
  BY <1>3 DEF HotplugVolumeToVM, SubresourceAdd, Outdate, Goto
<1>4. ASSUME NEW c \in Calls, AddVolumePatch(c) PROVE CopyInv'
  BY <1>4 DEF AddVolumePatch, WriteSpec, Outdate, Goto
<1>5. ASSUME NEW c \in Calls, UnplugVolumeFromVM(c) PROVE CopyInv'
  <2>1. CASE UseDeclarativeHotplug
    BY <1>5, <2>1 DEF UnplugVolumeFromVM, Goto
  <2>2. CASE ~UseDeclarativeHotplug
    <3>1. End(c) /\ c \notin fresh /\ UNCHANGED <<purge, listed>>
      BY <1>5, <2>2 DEF UnplugVolumeFromVM
    <3>2. CASE UNCHANGED <<spec, fresh, current>>
      BY <3>1, <3>2 DEF End
    <3>3. CASE SubresourceRemove(node[c], vol[c])
      BY <3>1, <3>3 DEF SubresourceRemove, Outdate, End
    <3> QED
      BY <1>5, <2>2, <3>2, <3>3 DEF UnplugVolumeFromVM
  <2> QED
    BY <2>1, <2>2
<1>6. ASSUME NEW c \in Calls, RemoveVolumePatch(c) PROVE CopyInv'
  BY <1>6 DEF RemoveVolumePatch, WriteSpec, Outdate, End
<1>7. ASSUME NEW c \in Calls, Fail(c) \/ Abandon(c) PROVE CopyInv'
  BY <1>7 DEF Fail, Abandon, End
<1>8. ASSUME NEW c \in Calls, NEW v \in Vols, NEW n \in Nodes,
             \/ ControllerPublishVolume(c, v, n)
             \/ ControllerUnpublishVolume(c, v, n)
      PROVE  CopyInv'
  BY <1>8 DEF ControllerPublishVolume, ControllerUnpublishVolume, StartCall
<1>9. ASSUME NEW v \in Vols, NEW n \in Nodes,
             CreateVA(v, n) \/ DeleteVA(v, n) \/ Plug(v, n) \/ Unplug(v, n)
      PROVE  CopyInv'
  BY <1>9 DEF CreateVA, DeleteVA, Plug, Unplug
<1>10. ASSUME NEW v \in Vols, NEW h \in Hosts, HostAttach(v, h) \/ HostDetach(v, h)
       PROVE  CopyInv'
  BY <1>10 DEF HostAttach, HostDetach
<1>11. ASSUME NEW n \in Nodes, PurgeStart(n) \/ PurgeFail(n) \/ PurgeRefetch(n)
       PROVE  CopyInv'
  BY <1>11 DEF PurgeStart, PurgeFail, PurgeRefetch, PurgeEnd
<1>12. ASSUME NEW n \in Nodes, PurgeByPatch(n) PROVE CopyInv'
  BY <1>12 DEF PurgeByPatch, WriteSpec, Outdate, PurgeEnd
<1>13. ASSUME NEW n \in Nodes, PurgeBySubresource(n) PROVE CopyInv'
  BY <1>13 DEF PurgeBySubresource, SubresourceRemove, Outdate, PurgeEnd
<1>14. ASSUME NEW n \in Nodes, TouchVM(n) \/ StopVMI(n) \/ StartVMI(n)
       PROVE  CopyInv'
  BY <1>14 DEF TouchVM, StopVMI, StartVMI, Outdate
<1>15. ASSUME NEW n \in Nodes, NodeLost(n) \/ NodeBack(n) PROVE CopyInv'
  BY <1>15 DEF NodeLost, NodeBack
<1>16. CASE UNCHANGED vars
  BY <1>16 DEF vars
<1> QED
  BY <1>1, <1>2, <1>3, <1>4, <1>5, <1>6, <1>7, <1>8, <1>9, <1>10, <1>11,
     <1>12, <1>13, <1>14, <1>15, <1>16, ZenonT(30) DEF Next, CallStep, PurgeStep

\* Every copy that passes the resourceVersion test is that of the VM.
LEMMA CopyInvariant == Spec => []CopyInv
  BY TypeInvariant, CopyInit, CopyStep, PTL DEF Spec

\* With CopyInv, a step changes a VM's list by the volume of its own request
\* or by the removal of the hotplug volumes the node controller has listed.
LEMMA OwnChangeStep == TypeInv /\ CopyInv /\ [Next]_vars => [OwnChange]_vars
<1> SUFFICES ASSUME TypeOK, Busy, CopyInv, Next PROVE OwnChange
  BY DEF TypeInv
<1> USE DEF TypeOK, Busy, CopyInv, OwnChange, Serves, objects, handlers, purges
<1>1. CASE UNCHANGED spec
  BY <1>1
<1>2. ASSUME NEW c \in Calls, HotplugVolumeToVM(c) PROVE OwnChange
  BY <1>2 DEF HotplugVolumeToVM, SubresourceAdd
<1>3. ASSUME NEW c \in Calls, AddVolumePatch(c) PROVE OwnChange
  BY <1>3 DEF AddVolumePatch, WriteSpec
<1>4. ASSUME NEW c \in Calls, UnplugVolumeFromVM(c) PROVE OwnChange
  BY <1>4 DEF UnplugVolumeFromVM, SubresourceRemove
<1>5. ASSUME NEW c \in Calls, RemoveVolumePatch(c) PROVE OwnChange
  BY <1>5 DEF RemoveVolumePatch, WriteSpec
<1>6. ASSUME NEW n \in Nodes, PurgeByPatch(n) PROVE OwnChange
  BY <1>6 DEF PurgeByPatch, WriteSpec
<1>7. ASSUME NEW n \in Nodes, PurgeBySubresource(n) PROVE OwnChange
  BY <1>7, HotplugAssumption DEF PurgeBySubresource, SubresourceRemove
<1>8. UNCHANGED spec \/ (\E c \in Calls : \/ HotplugVolumeToVM(c)
                                          \/ AddVolumePatch(c)
                                          \/ UnplugVolumeFromVM(c)
                                          \/ RemoveVolumePatch(c))
                     \/ (\E n \in Nodes : PurgeByPatch(n) \/ PurgeBySubresource(n))
  BY ZenonT(30) DEF Next, CallStep, PurgeStep, CheckHostVA, CheckGuestVA, CheckVolumeInVM,
    CheckVolumeInVMI, RemoveCheckVMI, RemoveCheckVM, Fail, Abandon,
    ControllerPublishVolume, ControllerUnpublishVolume, StartCall, CreateVA,
    DeleteVA, Plug, Unplug, HostAttach, HostDetach, PurgeStart, PurgeRefetch,
    PurgeFail, TouchVM, StopVMI, StartVMI, NodeLost, NodeBack
<1> QED
  BY <1>1, <1>2, <1>3, <1>4, <1>5, <1>6, <1>7, <1>8, ZenonT(30)

\* Concurrent handlers and the node controller never undo or repeat each
\* other's changes of a VM, although each replaces the whole list of volumes.
THEOREM NoLostUpdate == Spec => OnlyOwnChanges
  BY TypeInvariant, CopyInvariant, OwnChangeStep, PTL DEF Spec, OnlyOwnChanges
============================================================================
