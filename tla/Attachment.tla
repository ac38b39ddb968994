----------------------------- MODULE Attachment -----------------------------
(***************************************************************************)
(* What the driver promises about the attachments of one block volume,     *)
(* whatever handlers, VMs and API calls it takes.  A node holds the volume *)
(* before it may get its disk, and only one node holds it.  Attached is    *)
(* said of a node that has the disk, detached of one that has not.         *)
(***************************************************************************)
CONSTANT Nodes      \* guest nodes

VARIABLES
  va,       \* the VolumeAttachment of each node
  hold,     \* the nodes that hold the volume
  disk      \* the nodes whose VM has the volume's disk

vars == <<va, hold, disk>>

Attached(n) == va[n] \in {"attached", "attachedDel"}
Deleting(n) == va[n] \in {"newDel", "attachedDel"}
Starting(n) == va[n] \in {"new", "newDel"}

Init == va = [n \in Nodes |-> "none"] /\ hold = {} /\ disk = {}

\* The guest cluster asks for an attachment, one at a time, and for its end.
Request(n) ==
  /\ va[n] = "none" /\ \A m \in Nodes : ~Starting(m)
  /\ va' = [va EXCEPT ![n] = "new"]
  /\ UNCHANGED <<hold, disk>>

Delete(n) ==
  /\ va[n] \in {"new", "attached"}
  /\ va' = [va EXCEPT ![n] = IF @ = "new" THEN "newDel" ELSE "attachedDel"]
  /\ UNCHANGED <<hold, disk>>

\* ControllerPublishVolume finds the volume settled.
Acquire(n) ==
  /\ Starting(n) /\ hold = {}
  /\ hold' = {n}
  /\ UNCHANGED <<va, disk>>

\* A node that has not been told that it has the volume may lose it again.
Release(n) ==
  /\ n \in hold \ disk /\ ~Attached(n)
  /\ hold' = hold \ {n}
  /\ UNCHANGED <<va, disk>>

Plug(n) ==
  /\ n \in hold \ disk
  /\ disk' = disk \cup {n}
  /\ UNCHANGED <<va, hold>>

Unplug(n) ==
  /\ n \in disk
  /\ disk' = disk \ {n}
  /\ hold' = hold \/ (hold' = hold \ {n} /\ ~Attached(n))
  /\ UNCHANGED va

\* ControllerPublishVolume answers OK.
Attach(n) ==
  /\ n \in disk /\ Starting(n)
  /\ va' = [va EXCEPT ![n] = IF @ = "new" THEN "attached" ELSE "attachedDel"]
  /\ UNCHANGED <<hold, disk>>

\* ControllerUnpublishVolume answers OK.
Detach(n) ==
  /\ n \notin disk /\ Deleting(n)
  /\ va' = [va EXCEPT ![n] = "none"]
  /\ hold' = hold \ {n}
  /\ UNCHANGED disk

Next ==
  \E n \in Nodes :
    \/ Request(n) \/ Delete(n) \/ Acquire(n) \/ Release(n)
    \/ Plug(n) \/ Unplug(n) \/ Attach(n) \/ Detach(n)

Spec == Init /\ [][Next]_vars
============================================================================
