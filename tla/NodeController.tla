--------------------------- MODULE NodeController ---------------------------
(***************************************************************************)
(* The node controller of pkg/controller/node/controller.go, for one guest *)
(* node: it taints a node that is lost together with its VM as             *)
(* out-of-service, so that Kubernetes moves its pods away, takes the       *)
(* hotplug volumes out of the VM, and removes the taint when both are      *)
(* back.  Nodes do not interact: a work queue hands one node at a time to  *)
(* the handler, so one node is enough.                                     *)
(*                                                                         *)
(* The handler works on the informer's copy of the node, which may be out  *)
(* of date.  As in Hotplug, a resourceVersion is not counted: a copy is    *)
(* current until the object is written.                                    *)
(***************************************************************************)
EXTENDS Sequences, FiniteSets, SequencesExt

CONSTANTS
  Vols,                   \* volumes that may be hotplugged into the VM
  OtherTaints,            \* taints with other keys
  ByHand                  \* out-of-service taints an administrator may add

\* The out-of-service taints; their key is nonGracefulTaintKey.
NoExecute == "out-of-service:NoExecute"
NoSchedule == "out-of-service:NoSchedule"
OutOfService == {NoExecute, NoSchedule}

ASSUME NodeControllerAssumption ==
  /\ OtherTaints \cap OutOfService = {}
  /\ ByHand \subseteq OutOfService

VARIABLES
  declarative,  \* c.useDeclarativeHotplug, set at start-up
  node,         \* the node: its Ready condition, taints and deletionTimestamp
  vm,           \* the VM: "healthy", "unhealthy" or without a Ready condition
  plugged,      \* hotpluggable volumes in the VM's list
  cache,        \* the informer's copy of the node
  synced,       \* it is the node's latest version
  queued,       \* the node is in the controller's work queue
  pc,           \* the handler's next step
  mine,         \* the copy of the node it works on
  current,      \* which is the latest version
  names,        \* hotpluggable volumes it has found in the VM
  vmCurrent     \* whose resourceVersion is still that of then

object == <<node, vm, plugged>>
informer == <<cache, synced, queued>>
handler == <<pc, mine, current, names, vmCurrent>>
vars == <<declarative, object, informer, handler>>

Conditions == {"True", "notTrue", "missing"}
Node(ready, taints, deleting) ==
  [ready |-> ready, taints |-> taints, deleting |-> deleting]

IsOther(t) == t \notin OutOfService

Init ==
  /\ declarative \in BOOLEAN
  /\ node \in {Node(r, <<>>, FALSE) : r \in {"True", "missing"}}
  /\ vm = "healthy"
  /\ plugged = {}
  /\ cache = node
  /\ synced = TRUE
  /\ queued = TRUE
  /\ pc = "idle"
  /\ mine = node
  /\ current = FALSE
  /\ names = {}
  /\ vmCurrent = FALSE

----------------------------------------------------------------------------
(* The handler                                                             *)

\* getNodeTaint returns the first taint with the key; taintWithNoExecute looks
\* at its effect.
TaHasNoExecute(taints) ==
  \E i \in 1..Len(taints) :
    /\ taints[i] = NoExecute
    /\ \A j \in 1..(i - 1) : IsOther(taints[j])

\* The handler returns; an error puts the node back into the queue.
Return == pc' = "idle" /\ names' = {} /\ UNCHANGED queued
ReturnError == pc' = "idle" /\ names' = {} /\ queued' = TRUE

\* OnNodesChange of the cached node; a node that is being deleted is left alone.
OnNodesChange ==
  /\ pc = "idle" /\ queued
  /\ queued' = FALSE
  /\ pc' = IF cache.deleting THEN "idle" ELSE "health"
  /\ mine' = cache
  /\ current' = synced
  /\ UNCHANGED <<declarative, object, cache, synced, names, vmCurrent>>

\* Mutants: the volumes of a lost node are removed without a taint; a tainted
\* node is left alone.
HandleNodeAndVMHealth_NoTaint ==
  /\ pc = "health"
  /\ mine.ready = "notTrue" /\ vm = "unhealthy"
  /\ pc' = "refetch"
  /\ UNCHANGED <<declarative, object, informer, mine, current, names, vmCurrent>>

HandleNodeAndVMHealth_TaintOnly ==
  /\ pc = "health"
  /\ IF mine.ready = "notTrue" /\ vm = "unhealthy" /\ ~TaHasNoExecute(mine.taints)
       THEN pc' = "addTaint" /\ UNCHANGED <<queued, names>>
       ELSE Return
  /\ UNCHANGED <<declarative, object, cache, synced, mine, current, vmCurrent>>

\* getNodeAndVMHealth reads the VM, handleNodeAndVMHealth decides.
HandleNodeAndVMHealth ==
  LET nodeHealthy == mine.ready = "True"
      vmHealthy == vm = "healthy"
      tainted == TaHasNoExecute(mine.taints) IN
  /\ pc = "health"
  /\ \/ /\ mine.ready = "missing" \/ vm = "missing"
        /\ ReturnError
     \/ /\ mine.ready # "missing" /\ vm # "missing"
        /\ \/ /\ nodeHealthy /\ vmHealthy /\ tainted
              /\ pc' = "removeTaint" /\ UNCHANGED <<queued, names>>
           \/ /\ ~nodeHealthy /\ ~vmHealthy /\ ~tainted
              /\ pc' = "addTaint" /\ UNCHANGED <<queued, names>>
           \/ /\ ~nodeHealthy /\ ~vmHealthy /\ tainted
              /\ pc' = "refetch" /\ UNCHANGED <<queued, names>>
           \/ /\ nodeHealthy # vmHealthy \/ (nodeHealthy /\ ~tainted)
              /\ Return
  /\ UNCHANGED <<declarative, object, cache, synced, mine, current, vmCurrent>>

\* Mutant: the update does not carry the resourceVersion.
Update_NoVersion(taints) ==
  /\ node' = Node(mine.ready, taints, mine.deleting)
  /\ synced' = FALSE
  /\ current' = FALSE
  /\ Return

\* Nodes.Update: the API server refuses an outdated resourceVersion and a
\* second taint with the same key and effect.
Update(taints) ==
  /\ current
  /\ Cardinality(ToSet(taints)) = Len(taints)
  /\ node' = Node(mine.ready, taints, mine.deleting)
  /\ synced' = FALSE
  /\ current' = FALSE
  /\ Return

\* The taints with other keys, as the loop of removeTaint collects them.
Others(taints) ==
  LET newTaints[i \in 0..Len(taints)] ==
        IF i = 0 THEN <<>>
        ELSE IF IsOther(taints[i]) THEN Append(newTaints[i - 1], taints[i])
        ELSE newTaints[i - 1]
  IN  newTaints[Len(taints)]

\* Mutant: the filter keeps the taint as well.
RemoveTaint_Kept ==
  /\ pc = "removeTaint"
  /\ Update(mine.taints)
  /\ UNCHANGED <<declarative, vm, plugged, cache, mine, vmCurrent>>

RemoveTaint ==
  /\ pc = "removeTaint"
  /\ Update(Others(mine.taints))
  /\ UNCHANGED <<declarative, vm, plugged, cache, mine, vmCurrent>>

\* Mutant: the new taint has no key.
AddTaint_NoKey ==
  /\ pc = "addTaint"
  /\ Update(Append(mine.taints, "NoExecute"))
  /\ UNCHANGED <<declarative, vm, plugged, cache, mine, vmCurrent>>

AddTaint ==
  /\ pc = "addTaint"
  /\ Update(Append(mine.taints, NoExecute))
  /\ UNCHANGED <<declarative, vm, plugged, cache, mine, vmCurrent>>

\* removeAllHotplugVolumes fetches the VM again; its health is not looked at.
RefetchVM ==
  /\ pc = "refetch"
  /\ \/ plugged = {} /\ Return /\ UNCHANGED vmCurrent
     \/ /\ plugged # {}
        /\ pc' = "remove" /\ names' = plugged /\ vmCurrent' = TRUE
        /\ UNCHANGED queued
  /\ UNCHANGED <<declarative, object, cache, synced, mine, current>>

\* All at once by a patch that tests the VM's resourceVersion.
RemoveByPatch ==
  /\ declarative
  /\ pc = "remove"
  /\ vmCurrent
  /\ plugged' = plugged \ names
  /\ vmCurrent' = FALSE
  /\ Return
  /\ UNCHANGED <<declarative, node, vm, cache, synced, mine, current>>

\* One by one with the RemoveVolume subresource, which refuses a volume that
\* is no longer there.
RemoveBySubresource ==
  /\ ~declarative
  /\ pc = "remove"
  /\ \E v \in names \cap plugged :
       /\ plugged' = plugged \ {v}
       /\ IF names = {v} THEN Return
                         ELSE names' = names \ {v} /\ UNCHANGED <<pc, queued>>
  /\ vmCurrent' = FALSE
  /\ UNCHANGED <<declarative, node, vm, cache, synced, mine, current>>

\* An API call fails: the node is handled again.
Error ==
  /\ pc # "idle"
  /\ ReturnError
  /\ UNCHANGED <<declarative, object, cache, synced, mine, current, vmCurrent>>

----------------------------------------------------------------------------
(* The environment                                                         *)

WriteNode(ready, taints, deleting) ==
  /\ node' = Node(ready, taints, deleting)
  /\ synced' = FALSE
  /\ current' = FALSE
  /\ UNCHANGED <<declarative, vm, plugged, cache, queued, pc, mine, names, vmCurrent>>

\* The kubelet or the node lifecycle controller sets the Ready condition.
SetReady ==
  \E r \in {"True", "notTrue"} \ {node.ready} :
    WriteNode(r, node.taints, node.deleting)

\* Others add and remove their taints, an administrator an out-of-service one.
AddOtherTaint ==
  \E t \in (OtherTaints \cup ByHand) \ ToSet(node.taints) :
    WriteNode(node.ready, Append(node.taints, t), node.deleting)

RemoveOtherTaint ==
  \E i \in 1..Len(node.taints) :
    /\ node.taints[i] \in OtherTaints
    /\ WriteNode(node.ready, RemoveAt(node.taints, i), node.deleting)

DeleteNode == ~node.deleting /\ WriteNode(node.ready, node.taints, TRUE)

\* KubeVirt sets the VM's status; no event of the node comes with it.
SetVM ==
  /\ vm' \in {"healthy", "unhealthy", "missing"} \ {vm}
  /\ vmCurrent' = FALSE
  /\ UNCHANGED <<declarative, node, plugged, informer, pc, mine, current, names>>

\* ControllerPublishVolume adds a volume.
PlugVolume ==
  /\ \E v \in Vols \ plugged : plugged' = plugged \cup {v}
  /\ vmCurrent' = FALSE
  /\ UNCHANGED <<declarative, node, vm, informer, pc, mine, current, names>>

\* The watch brings the informer up to date and queues the node.
Watch ==
  /\ ~synced
  /\ cache' = node /\ synced' = TRUE /\ queued' = TRUE
  /\ UNCHANGED <<declarative, object, handler>>

\* Every ten hours the informer queues every node.
Resync ==
  /\ ~queued
  /\ queued' = TRUE
  /\ UNCHANGED <<declarative, object, cache, synced, handler>>

\* The leader stops and another replica of the driver takes over, perhaps
\* after an upgrade of the host cluster.
Restart ==
  /\ declarative' \in {declarative, TRUE}
  /\ pc' = "idle" /\ names' = {}
  /\ cache' = node /\ synced' = TRUE /\ queued' = TRUE
  /\ UNCHANGED <<object, mine, current, vmCurrent>>

----------------------------------------------------------------------------
HandlerStep ==
  \/ OnNodesChange \/ HandleNodeAndVMHealth \/ RemoveTaint \/ AddTaint
  \/ RefetchVM \/ RemoveByPatch \/ RemoveBySubresource

Disturbance ==
  \/ SetReady \/ AddOtherTaint \/ RemoveOtherTaint \/ DeleteNode
  \/ SetVM \/ PlugVolume \/ Restart

Next == HandlerStep \/ Error \/ Disturbance \/ Watch \/ Resync

Spec == Init /\ [][Next]_vars

\* The handler cannot go on: what it would write is refused.
Refused ==
  \/ pc \in {"addTaint", "removeTaint"} /\ ~current
  \/ pc = "remove" /\ IF declarative THEN ~vmCurrent
                                     ELSE names \cap plugged = {}

\* In the end nothing else writes the node and the VM, and API calls fail only
\* when they are refused.
Calm == HandlerStep \/ (Refused /\ Error) \/ Watch \/ Resync

Fairness ==
  /\ WF_vars(HandlerStep)
  /\ WF_vars(Refused /\ Error)
  /\ WF_vars(Watch)
  /\ WF_vars(Resync)
  /\ <>[][Calm]_vars

FairSpec == Spec /\ Fairness

----------------------------------------------------------------------------
(* Properties                                                              *)

Nodes == [ready : Conditions, taints : Seq(OtherTaints \cup OutOfService),
          deleting : BOOLEAN]

\* The variables have their types.
TypeOK ==
  /\ declarative \in BOOLEAN
  /\ node \in Nodes /\ cache \in Nodes /\ mine \in Nodes
  /\ vm \in {"healthy", "unhealthy", "missing"}
  /\ plugged \subseteq Vols /\ names \subseteq Vols
  /\ synced \in BOOLEAN /\ queued \in BOOLEAN
  /\ current \in BOOLEAN /\ vmCurrent \in BOOLEAN
  /\ pc \in {"idle", "health", "removeTaint", "addTaint", "refetch", "remove"}

\* A lost node is out of service before its volumes are taken away: whenever
\* removeAllHotplugVolumes is at work, the node itself, and not only the copy
\* that the handler has seen, has the NoExecute taint.  (Nobody else removes
\* it.)
TaintedBeforeRemoval ==
  pc \in {"refetch", "remove"} => NoExecute \in ToSet(node.taints)

\* addTaint and removeTaint write a whole list of taints that was read from a
\* cache; still, no step of the handler adds, removes or reorders the taints of
\* others.
KeepsOtherTaints ==
  pc' # pc => Others(node'.taints) = Others(node.taints)

\* KeepsOtherTaints, of every step.
OtherTaintsKept == [][KeepsOtherTaints]_vars

Lost == node.ready = "notTrue" /\ vm = "unhealthy" /\ ~node.deleting
Recovered == node.ready = "True" /\ vm = "healthy" /\ ~node.deleting

\* A node that stays lost is tainted in the end and its VM has no hotplug
\* volume left, in whatever order the node and the VM became unhealthy, although
\* the VM's health alone does not call OnNodesChange.
LostNodeEmptied ==
  <>[]Lost => <>[](NoExecute \in ToSet(node.taints) /\ plugged = {})

\* A node that stays well together with its VM loses the out-of-service taint.
RecoveredNodeUntainted ==
  <>[]Recovered => <>[](ToSet(node.taints) \cap OutOfService = {})
============================================================================
