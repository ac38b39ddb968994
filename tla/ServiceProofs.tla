--------------------------- MODULE ServiceProofs ---------------------------
(***************************************************************************)
(* Which handlers serve which VolumeAttachments, and what a VM may list.   *)
(* What a theorem assumes about the environment is in its statement.       *)
(***************************************************************************)
EXTENDS HotplugProofs

\* What holds as long as the attacher waits for every answer: a handler at
\* work belongs to a VolumeAttachment of its own that it is there to attach
\* or to detach, and at most one attachment of a volume has begun.
ServiceInv ==
  /\ \A c \in Calls : pc[c] # "idle" => c \in live
  /\ \A c, d \in Calls :
       pc[c] # "idle" /\ pc[d] # "idle" /\ vol[c] = vol[d] /\ node[c] = node[d]
         => c = d
  /\ \A c \in Calls : pc[c] \in PublishPCs => va[<<vol[c], node[c]>>] \in {"new", "newDel"}
  /\ \A c \in Calls : pc[c] \in UnpublishPCs => IsDeleting(va[<<vol[c], node[c]>>])
  /\ \A v \in Vols, n, m \in Nodes :
       va[<<v, n>>] \in {"new", "newDel"} /\ va[<<v, m>>] \in {"new", "newDel"} => n = m

\* With NoOrphanVolume it is inductive.
ListInv == ServiceInv /\ NoOrphanVolume

\* No VM lists a hotplug volume in the beginning.
LEMMA ListInit == Init => ListInv
  BY HotplugAssumption
  DEF Init, ListInv, ServiceInv, NoOrphanVolume, PublishPCs, UnpublishPCs, VAs

\* The handler ends, or goes on with its request, and its VolumeAttachment
\* still asks for that request.
Keeps(c) ==
  \/ pc'[c] = "idle"
  \/ /\ vol'[c] = vol[c] /\ node'[c] = node[c]
     /\ c \in live => c \in live'
     /\ \/ /\ pc[c] \in PublishPCs /\ pc'[c] \in PublishPCs
           /\ va[<<vol[c], node[c]>>] \in {"new", "newDel"}
                => va'[<<vol[c], node[c]>>] \in {"new", "newDel"}
        \/ /\ pc[c] \in UnpublishPCs /\ pc'[c] \in UnpublishPCs
           /\ IsDeleting(va[<<vol[c], node[c]>>])
                => IsDeleting(va'[<<vol[c], node[c]>>])

\* A step in which every handler does, and which begins no attachment, keeps
\* ServiceInv.
LEMMA ServiceFrame ==
  ASSUME TypeInv, TypeInv', ServiceInv,
         \A c \in Calls : Keeps(c),
         \A a \in VAs : va'[a] \in {"new", "newDel"} => va[a] \in {"new", "newDel"}
  PROVE  ServiceInv'
<1> USE DEF ServiceInv, Keeps, TypeInv, TypeOK, Busy
<1>1. \A c \in Calls : pc'[c] # "idle" =>
        pc[c] # "idle" /\ vol'[c] = vol[c] /\ node'[c] = node[c]
  BY Zenon DEF PublishPCs, UnpublishPCs
<1>2. \A c \in Calls : pc'[c] # "idle" => c \in live'
  BY <1>1, Zenon
<1>3. \A c, d \in Calls :
        pc'[c] # "idle" /\ pc'[d] # "idle" /\ vol'[c] = vol'[d] /\ node'[c] = node'[d]
          => c = d
  BY <1>1
<1>4. ASSUME NEW c \in Calls, pc'[c] \in PublishPCs
      PROVE  va'[<<vol'[c], node'[c]>>] \in {"new", "newDel"}
  BY <1>4, Zenon DEF PublishPCs, UnpublishPCs
<1>5. ASSUME NEW c \in Calls, pc'[c] \in UnpublishPCs
      PROVE  IsDeleting(va'[<<vol'[c], node'[c]>>])
  BY <1>5, Zenon DEF PublishPCs, UnpublishPCs
<1>6. \A v \in Vols, n, m \in Nodes :
        va'[<<v, n>>] \in {"new", "newDel"} /\ va'[<<v, m>>] \in {"new", "newDel"}
          => n = m
  BY DEF VAs
<1> QED
  BY <1>2, <1>3, <1>4, <1>5, <1>6 DEF IsDeleting

\* Every step keeps ListInv.
LEMMA ListStep ==
  ASSUME ~MayAbandon, TypeInv, CopyInv, ListInv, [Next]_vars
  PROVE  ListInv'
<1>0. TypeInv'
  BY TypeStep
<1> USE HotplugAssumption
    DEF TypeInv, TypeOK, Busy, ListInv, objects, handlers, purges
\* A handler steps on and the VolumeAttachments stay as they are.
<1>a. ASSUME NEW c \in Calls, UNCHANGED <<vol, node, live, va>>,
             \E step : Goto(c, step) /\ \/ pc[c] \in PublishPCs /\ step \in PublishPCs
                                        \/ pc[c] \in UnpublishPCs /\ step \in UnpublishPCs
      PROVE  ServiceInv'
  <2>1. \A d \in Calls : Keeps(d)
    BY <1>a DEF Goto, Keeps
  <2> QED
    BY <1>0, <1>a, <2>1, ServiceFrame
\* A handler ends and the VolumeAttachments of the others stay as they are.
<1>b. ASSUME NEW c \in Calls, End(c), pc[c] # "idle",
             \A a \in VAs : \/ va'[a] = va[a]
                            \/ /\ a = <<vol[c], node[c]>>
                               /\ va'[a] \notin {"new", "newDel"}
      PROVE  ServiceInv'
  <2>1. \A d \in Calls : Keeps(d)
    <3> SUFFICES ASSUME NEW d \in Calls, pc[d] # "idle", d # c PROVE Keeps(d)
      BY <1>b DEF End, Keeps
    <3>1. va'[<<vol[d], node[d]>>] = va[<<vol[d], node[d]>>]
      BY <1>b DEF ServiceInv, VAs
    <3>2. UNCHANGED <<pc[d], vol[d], node[d]>> /\ (d \in live => d \in live')
      BY <1>b DEF End
    <3> QED
      BY <3>1, <3>2 DEF Keeps
  <2> QED
    BY <1>0, <1>b, <2>1, ServiceFrame
\* Neither does anything.
<1>c. ASSUME UNCHANGED <<pc, vol, node, live, va>> PROVE ServiceInv'
  <2>1. \A d \in Calls : Keeps(d)
    BY <1>c DEF Keeps
  <2> QED
    BY <1>0, <1>c, <2>1, ServiceFrame
<1> USE DEF NoOrphanVolume
<1>1. ASSUME NEW c \in Calls, CheckHostVA(c) PROVE ListInv'
  BY <1>1, <1>a DEF CheckHostVA, PublishPCs, UnpublishPCs
<1>2. ASSUME NEW c \in Calls, CheckGuestVA(c) PROVE ListInv'
  BY <1>2, <1>a DEF CheckGuestVA, PublishPCs, UnpublishPCs
<1>3. ASSUME NEW c \in Calls, CheckVolumeInVM(c) PROVE ListInv'
  BY <1>3, <1>a DEF CheckVolumeInVM, PublishPCs, UnpublishPCs
<1>4. ASSUME NEW c \in Calls, RemoveCheckVMI(c) PROVE ListInv'
  BY <1>4, <1>a DEF RemoveCheckVMI, PublishPCs, UnpublishPCs
<1>5. ASSUME NEW c \in Calls, CheckVolumeInVMI(c) PROVE ListInv'
  <2>0. \A a \in VAs : \/ va'[a] = va[a]
                       \/ /\ a = <<vol[c], node[c]>>
                          /\ va'[a] \in {"attached", "attachedDel"}
    BY <1>5 DEF CheckVolumeInVMI
  <2>1. NoOrphanVolume'
    BY <1>5, <2>0 DEF CheckVolumeInVMI, VAs
  <2>2. CASE End(c)
    <3>2. pc[c] # "idle"
      BY <1>5 DEF CheckVolumeInVMI
    <3> QED
      BY <2>0, <2>1, <2>2, <3>2, <1>b
  <2>3. CASE ~End(c)
    BY <1>5, <1>a, <2>1, <2>3 DEF CheckVolumeInVMI, PublishPCs
  <2> QED
    BY <2>2, <2>3
<1>6. ASSUME NEW c \in Calls, RemoveCheckVM(c) PROVE ListInv'
  <2>1. NoOrphanVolume'
    BY <1>6 DEF RemoveCheckVM, VAs
  <2>2. CASE End(c)
    <3>1. \A a \in VAs : \/ va'[a] = va[a]
                         \/ a = <<vol[c], node[c]>> /\ va'[a] = "none"
      BY <1>6 DEF RemoveCheckVM
    <3>2. pc[c] # "idle"
      BY <1>6 DEF RemoveCheckVM
    <3> QED
      BY <2>1, <2>2, <3>1, <3>2, <1>b
  <2>3. CASE ~End(c)
    BY <1>6, <1>a, <2>1, <2>3 DEF RemoveCheckVM, UnpublishPCs
  <2> QED
    BY <2>2, <2>3
<1>7. ASSUME NEW c \in Calls, HotplugVolumeToVM(c) PROVE ListInv'
  <2>1. va[<<vol[c], node[c]>>] # "none"
    BY <1>7 DEF HotplugVolumeToVM, ServiceInv, PublishPCs
  <2>2. NoOrphanVolume'
    BY <1>7, <2>1 DEF HotplugVolumeToVM, SubresourceAdd
  <2> QED
    BY <1>7, <1>a, <2>2 DEF HotplugVolumeToVM, PublishPCs
<1>8. ASSUME NEW c \in Calls, AddVolumePatch(c) PROVE ListInv'
  <2>1. va[<<vol[c], node[c]>>] # "none"
    BY <1>8 DEF AddVolumePatch, ServiceInv, PublishPCs
  <2>2. NoOrphanVolume'
    BY <1>8, <2>1 DEF AddVolumePatch, WriteSpec
  <2> QED
    BY <1>8, <1>a, <2>2 DEF AddVolumePatch, PublishPCs
<1>9. ASSUME NEW c \in Calls, UnplugVolumeFromVM(c) PROVE ListInv'
  <2>1. NoOrphanVolume'
    BY <1>9 DEF UnplugVolumeFromVM, SubresourceRemove
  <2>2. CASE End(c)
    <3>1. pc[c] # "idle" /\ UNCHANGED va
      BY <1>9 DEF UnplugVolumeFromVM
    <3> QED
      BY <2>1, <2>2, <3>1, <1>b
  <2>3. CASE ~End(c)
    BY <1>9, <1>a, <2>1, <2>3 DEF UnplugVolumeFromVM, UnpublishPCs
  <2> QED
    BY <2>2, <2>3
<1>10. ASSUME NEW c \in Calls, RemoveVolumePatch(c) PROVE ListInv'
  <2>1. End(c) /\ pc[c] # "idle" /\ UNCHANGED va
    BY <1>10 DEF RemoveVolumePatch
  <2>2. NoOrphanVolume'
    BY <1>10 DEF RemoveVolumePatch, WriteSpec, CopyInv
  <2> QED
    BY <2>1, <2>2, <1>b
<1>11. ASSUME NEW c \in Calls, Fail(c) PROVE ListInv'
  <2>1. End(c) /\ pc[c] # "idle" /\ UNCHANGED <<va, spec>>
    BY <1>11 DEF Fail
  <2> QED
    BY <2>1, <1>b
<1>12. ASSUME NEW c \in Calls, NEW v \in Vols, NEW n \in Nodes, NEW step,
             StartCall(c, v, n, step),
             \/ step \in PublishPCs /\ va[<<v, n>>] = "new"
             \/ step \in UnpublishPCs /\ IsDeleting(va[<<v, n>>])
      PROVE  ListInv'
  <2>1. \A d \in Calls : pc[d] # "idle" => ~(vol[d] = v /\ node[d] = n)
    BY <1>12 DEF StartCall, Serves, ServiceInv
  <2>2. \A d \in Calls \ {c} : UNCHANGED <<pc[d], vol[d], node[d]>>
    BY <1>12 DEF StartCall
  <2>3. pc'[c] = step /\ vol'[c] = v /\ node'[c] = n /\ live' = live \cup {c} /\ va' = va /\ spec' = spec
    BY <1>12 DEF StartCall
  <2>4. \A d \in Calls : pc'[d] # "idle" => d \in live'
    BY <2>2, <2>3 DEF ServiceInv
  <2>5. \A d, e \in Calls :
          pc'[d] # "idle" /\ pc'[e] # "idle" /\ vol'[d] = vol'[e] /\ node'[d] = node'[e]
            => d = e
    BY <2>1, <2>2, <2>3 DEF ServiceInv
  <2>6. ASSUME NEW d \in Calls
        PROVE  /\ pc'[d] \in PublishPCs => va'[<<vol'[d], node'[d]>>] \in {"new", "newDel"}
               /\ pc'[d] \in UnpublishPCs => IsDeleting(va'[<<vol'[d], node'[d]>>])
    BY <1>12, <2>2, <2>3, Zenon DEF ServiceInv, PublishPCs, UnpublishPCs
  <2> QED
    <3>1. NoOrphanVolume'
      BY <2>3
    <3>2. \A w \in Vols, k, m \in Nodes :
            va'[<<w, k>>] \in {"new", "newDel"} /\ va'[<<w, m>>] \in {"new", "newDel"}
              => k = m
      BY <2>3 DEF ServiceInv
    <3>3. ServiceInv'
      BY ONLY <2>4, <2>5, <2>6, <3>2 DEF ServiceInv, IsDeleting
    <3> QED
      BY ONLY <3>1, <3>3 DEF ListInv
<1>13. ASSUME NEW v \in Vols, NEW n \in Nodes, CreateVA(v, n) PROVE ListInv'
  <2>1. /\ va[<<v, n>>] = "none" /\ va'[<<v, n>>] = "new"
        /\ \A m \in Nodes : va[<<v, m>>] \notin {"new", "newDel"}
        /\ \A a \in VAs \ {<<v, n>>} : va'[a] = va[a]
        /\ UNCHANGED <<spec, pc, vol, node, live>>
    BY <1>13 DEF CreateVA, VAs
  <2>2. NoOrphanVolume'
    BY <2>1 DEF VAs
  <2>3. ASSUME NEW d \in Calls, pc[d] \in PublishPCs \cup UnpublishPCs
        PROVE  va'[<<vol[d], node[d]>>] = va[<<vol[d], node[d]>>]
    <3>1. <<vol[d], node[d]>> \in VAs /\ va[<<vol[d], node[d]>>] # "none"
      BY <2>3 DEF ServiceInv, PublishPCs, UnpublishPCs, IsDeleting, VAs
    <3> QED
      BY <2>1, <3>1
  <2>4. \A w \in Vols, k, m \in Nodes :
          va'[<<w, k>>] \in {"new", "newDel"} /\ va'[<<w, m>>] \in {"new", "newDel"}
            => k = m
    <3> SUFFICES ASSUME NEW w \in Vols, NEW k \in Nodes, NEW m \in Nodes,
                        va'[<<w, k>>] \in {"new", "newDel"},
                        va'[<<w, m>>] \in {"new", "newDel"}
                 PROVE  k = m
      OBVIOUS
    <3>1. CASE w = v
      BY <2>1, <3>1 DEF VAs
    <3>2. CASE w # v
      BY <2>1, <3>2 DEF VAs, ServiceInv
    <3> QED
      BY <3>1, <3>2
  <2>5. \A d \in Calls :
          /\ pc'[d] \in PublishPCs => va'[<<vol'[d], node'[d]>>] \in {"new", "newDel"}
          /\ pc'[d] \in UnpublishPCs => IsDeleting(va'[<<vol'[d], node'[d]>>])
    BY <2>1, <2>3, Zenon DEF ServiceInv
  <2>6. ServiceInv'
    BY <2>1, <2>4, <2>5 DEF ServiceInv, IsDeleting
  <2> QED
    BY <2>2, <2>6
<1>14. ASSUME NEW v \in Vols, NEW n \in Nodes, DeleteVA(v, n) PROVE ListInv'
  <2>1. \A d \in Calls : Keeps(d)
    BY <1>14, Zenon DEF DeleteVA, Keeps, VAs, IsDeleting
  <2> QED
    BY <1>14, <1>0, <2>1, ServiceFrame, Zenon DEF DeleteVA, VAs
<1>15. ASSUME NEW n \in Nodes, PurgeByPatch(n) PROVE ListInv'
  BY <1>15, <1>c, ZenonT(30) DEF PurgeByPatch, WriteSpec, CopyInv
<1>16. ASSUME NEW n \in Nodes, PurgeBySubresource(n) PROVE ListInv'
  <2>1. ServiceInv'
    BY <1>16, <1>c DEF PurgeBySubresource
  <2>2. PICK v \in Vols \cup Fixed : SubresourceRemove(n, v)
    BY <1>16 DEF PurgeBySubresource
  <2>3. UNCHANGED va
    BY <1>16 DEF PurgeBySubresource
  <2>4. NoOrphanVolume'
    BY <2>2, <2>3 DEF SubresourceRemove
  <2> QED
    BY <2>1, <2>4
<1>17. CASE UNCHANGED <<pc, vol, node, live, va, spec>>
  BY <1>17, <1>c
<1>18. \/ \E c \in Calls : CallStep(c) \/ Fail(c) \/ Abandon(c)
       \/ \E c \in Calls, v \in Vols, n \in Nodes :
            ControllerPublishVolume(c, v, n) \/ ControllerUnpublishVolume(c, v, n)
       \/ \E v \in Vols, n \in Nodes : CreateVA(v, n) \/ DeleteVA(v, n)
       \/ \E n \in Nodes : PurgeByPatch(n) \/ PurgeBySubresource(n)
       \/ UNCHANGED <<pc, vol, node, live, va, spec>>
  BY ZenonT(30) DEF Next, PurgeStep, Plug, Unplug, HostAttach, HostDetach, PurgeStart,
         PurgeRefetch, PurgeFail, TouchVM, StopVMI, StartVMI, NodeLost, NodeBack, vars
<1> QED
  BY <1>1, <1>2, <1>3, <1>4, <1>5, <1>6, <1>7, <1>8, <1>9, <1>10, <1>11,
     <1>12, <1>13, <1>14, <1>15, <1>16, <1>17, <1>18, Zenon
  DEF CallStep, Abandon, ControllerPublishVolume, ControllerUnpublishVolume,
      PublishPCs, UnpublishPCs

\* ListInv holds in every state if no handler is abandoned.
LEMMA ListInvariant ==
  ASSUME ~MayAbandon PROVE Spec => []ListInv
  BY TypeInvariant, CopyInvariant, ListInit, ListStep, PTL DEF Spec

\* As long as the attacher waits for every answer, no handler leaves a volume
\* in a VM, or brings one back, after its VolumeAttachment has gone: whatever
\* fails, whoever else writes the VM, and although nodes may be lost.
THEOREM NoOrphan ==
  ASSUME ~MayAbandon PROVE Spec => []NoOrphanVolume
  BY ListInvariant, PTL DEF ListInv
============================================================================
