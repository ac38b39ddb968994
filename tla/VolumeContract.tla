--------------------------- MODULE VolumeContract ---------------------------
(***************************************************************************)
(* What CreateVolume and DeleteVolume promise about the host objects of    *)
(* one volume, whatever calls fail and are repeated: until there is a PV   *)
(* they only add, as long as it is in use they take nothing away, when it  *)
(* is released they only remove.  A PV comes when all is there that its    *)
(* kind of volume needs, and goes when nothing is left.                    *)
(***************************************************************************)
VARIABLES
  kind,     \* "block", "share", "clone", "shareClone" or "restore"
  pv,       \* the guest PV: "none", "provisioned", "released", "gone"
  objects   \* the host objects of the volume that are not being deleted

vars == <<kind, pv, objects>>

Shares == {"share", "shareClone"}

Needed ==
  {"PVC"} \cup (IF kind \in Shares THEN {"NetworkFilesystem"}
                ELSE IF kind = "restore" THEN {"VolumeRemoteRestore"} ELSE {})

\* The host deletes the PVC of a VolumeRemoteRestore by itself.
LeftToHost == IF kind = "restore" THEN {"PVC"} ELSE {}

Init == pv = "none" /\ objects = {}

Add ==
  /\ pv = "none"
  /\ objects \subseteq objects' /\ objects' \subseteq Needed
  /\ UNCHANGED <<kind, pv>>

Provision ==
  /\ pv = "none" /\ objects = Needed
  /\ pv' = "provisioned"
  /\ UNCHANGED <<kind, objects>>

\* A NetworkFilesystem may get lost on the host, and is created again.
Use ==
  /\ pv = "provisioned" /\ kind \in Shares
  /\ objects' \in {Needed, Needed \ {"NetworkFilesystem"}}
  /\ UNCHANGED <<kind, pv>>

Release ==
  /\ pv = "provisioned"
  /\ pv' = "released"
  /\ UNCHANGED <<kind, objects>>

Remove ==
  /\ pv \in {"released", "gone"}
  /\ objects' \subseteq objects
  /\ UNCHANGED <<kind, pv>>

Delete ==
  /\ pv = "released" /\ objects \subseteq LeftToHost
  /\ pv' = "gone"
  /\ UNCHANGED <<kind, objects>>

Next == Add \/ Provision \/ Use \/ Release \/ Remove \/ Delete

Spec == Init /\ [][Next]_vars
============================================================================
