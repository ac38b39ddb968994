----------------------------- MODULE Snapshots -----------------------------
(***************************************************************************)
(* The life of one snapshot: CreateSnapshot and DeleteSnapshot of the      *)
(* controller server (src/pkg/csi/controller_server.go), the host's        *)
(* VolumeSnapshot or VolumeRemoteBackup behind it, and the                 *)
(* external-snapshotter that calls them.                                   *)
(*                                                                         *)
(* The host object is named after the guest's snapshot content, so that    *)
(* snapshots do not meet.  Every call of an API server is a step of its    *)
(* own, and may fail; a failure after a step stands for a lost answer and  *)
(* for a restart of the driver as well.                                    *)
(***************************************************************************)
VARIABLES
  snapType,    \* the parameter "type": "local" or "backup"
  wanted,      \* the guest's VolumeSnapshot exists
  content,     \* the guest's content: "new", "ready" (it has an ID), "dropped"
               \* (without an ID), "gone" (DeleteSnapshot answered OK)
  snapDoubt,   \* the last CreateSnapshot may yet succeed
  snap,        \* the host object, one of HostStates
  lost,        \* history: an administrator has deleted the host object
  snapPC       \* where the call of CreateSnapshot or DeleteSnapshot is

snapGuest == <<snapType, wanted, content>>
snapHost == <<snap, lost>>
snapVars == <<snapType, wanted, content, snapDoubt, snap, lost, snapPC>>

\* "new" has no status yet, "failed" one with an error; a VolumeRemoteBackup
\* only says whether it succeeded.  What is "deleting" still says it is ready.
HostStates == {"none", "new", "pending", "failed", "ready", "deleting"}

SnapCreatePCs ==
  {"find", "class", "create", "check", "fetch", "checkNew", "fetchNew", "taken"}
SnapPCs == {"idle", "delete", "removed"} \cup SnapCreatePCs

SnapInit ==
  /\ snapType \in {"local", "backup"}
  /\ wanted = TRUE /\ content = "new" /\ snapDoubt = FALSE
  /\ snap = "none" /\ lost = FALSE /\ snapPC = "idle"

----------------------------------------------------------------------------
(* CreateSnapshot                                                          *)

SnapGoto(l) == snapPC' = l /\ UNCHANGED snapDoubt

\* The call ends with an error.  The snapshotter keeps calling after a code
\* like DeadlineExceeded; after any other, a final one, it calls again only if
\* the snapshot is still wanted.
SnapEnd(final) ==
  /\ snapPC' = "idle"
  /\ snapDoubt' = IF snapPC \in SnapCreatePCs THEN ~final ELSE snapDoubt

CreateSnapshot ==
  /\ snapPC = "idle" /\ content = "new" /\ (wanted \/ snapDoubt)
  /\ SnapGoto("find")
  /\ UNCHANGED <<snapGuest, snapHost>>

\* A new VolumeSnapshot needs the source's class, a VolumeRemoteBackup nothing.
ToCreate == IF snapType = "local" THEN "class" ELSE "create"

\* Mutant: no GET precedes the creation.
HandleExistingSnap_None ==
  /\ snapPC = "find"
  /\ SnapGoto(ToCreate)
  /\ UNCHANGED <<snapGuest, snapHost>>

\* The object of an earlier call is taken up.
HandleExistingSnap ==
  /\ snapPC = "find"
  /\ SnapGoto(IF snap = "none" THEN ToCreate ELSE "check")
  /\ UNCHANGED <<snapGuest, snapHost>>

\* The host PVC and its snapshot class are looked up; neither may be found
\* (SnapFail).
GetHostSnapClass ==
  /\ snapPC = "class"
  /\ SnapGoto("create")
  /\ UNCHANGED <<snapGuest, snapHost>>

\* The API server refuses an object that exists.
CreateHost(state) ==
  /\ snapPC = "create"
  /\ IF snap = "none"
       THEN snap' = state /\ lost' = FALSE /\ SnapGoto("checkNew")
       ELSE UNCHANGED snapHost /\ SnapEnd(TRUE)
  /\ UNCHANGED snapGuest

GenerateHostSnap == snapType = "local" /\ CreateHost("new")
GenerateHostVolumeRemoteBackup == snapType = "backup" /\ CreateHost("pending")

\* Mutant: a snapshot that is not ready is answered as well.
CheckSnapsReadiness_Any ==
  /\ snapPC \in {"check", "checkNew"}
  /\ SnapGoto(IF snapPC = "check" THEN "fetch" ELSE "fetchNew")
  /\ UNCHANGED <<snapGuest, snapHost>>

\* One look, not a poll: a snapshot under way is an Internal error, which the
\* snapshotter takes for a final one.  Nobody looks whether it is being deleted.
CheckSnapsReadiness ==
  /\ snapPC \in {"check", "checkNew"}
  /\ IF snap \in {"ready", "deleting"}
       THEN SnapGoto(IF snapPC = "check" THEN "fetch" ELSE "fetchNew")
       ELSE SnapEnd(TRUE)
  /\ UNCHANGED <<snapGuest, snapHost>>

\* The object is read again for the answer.  If it is gone, handleLocalSnap
\* takes the error of the existing snapshot's path for a snapshot that was
\* never there; handleBackupSnap does not.
PrepareSnapshotResponse ==
  /\ snapPC \in {"fetch", "fetchNew"} /\ snapType = "local"
  /\ IF snap # "none" THEN SnapGoto("taken")
     ELSE IF snapPC = "fetch" THEN SnapGoto("class")
     ELSE SnapEnd(TRUE)
  /\ UNCHANGED <<snapGuest, snapHost>>

PrepareBackupSnapResponse ==
  /\ snapPC \in {"fetch", "fetchNew"} /\ snapType = "backup"
  /\ IF snap # "none" THEN SnapGoto("taken") ELSE SnapEnd(TRUE)
  /\ UNCHANGED <<snapGuest, snapHost>>

\* The snapshotter gets the answer, with the ID and ready to use.
Taken ==
  /\ snapPC = "taken"
  /\ snapPC' = "idle" /\ snapDoubt' = FALSE
  /\ content' = "ready"
  /\ UNCHANGED <<snapType, wanted, snapHost>>

----------------------------------------------------------------------------
(* DeleteSnapshot                                                          *)

DeleteSnapshot ==
  /\ snapPC = "idle" /\ content = "ready" /\ ~wanted
  /\ SnapGoto("delete")
  /\ UNCHANGED <<snapGuest, snapHost>>

HandleBackupSnapDeletion ==
  /\ snapPC = "delete" /\ snapType = "backup"
  /\ snap' = IF snap = "none" THEN "none" ELSE "deleting"
  /\ SnapGoto("removed")
  /\ UNCHANGED <<snapGuest, lost>>

\* Mutant: the deletion need not be confirmed.
HandleLocalSnapDeletion_Unconfirmed ==
  /\ snapPC = "delete" /\ snapType = "local"
  /\ snap' = IF snap = "none" THEN "none" ELSE "deleting"
  /\ SnapGoto("removed")
  /\ UNCHANGED <<snapGuest, lost>>

\* Mutant: a snapshot that is not found is an error.
HandleLocalSnapDeletion_NotFound ==
  /\ snapPC = "delete" /\ snapType = "local"
  /\ snap' = IF snap = "none" THEN "none" ELSE "deleting"
  /\ SnapEnd(TRUE)
  /\ UNCHANGED <<snapGuest, lost>>

\* The answer is OK only when there is nothing to delete; having deleted, the
\* call fails, "deletion not confirmed", and is repeated.
HandleLocalSnapDeletion ==
  /\ snapPC = "delete" /\ snapType = "local"
  /\ IF snap = "none"
       THEN SnapGoto("removed") /\ UNCHANGED snap
       ELSE SnapEnd(TRUE) /\ snap' = "deleting"
  /\ UNCHANGED <<snapGuest, lost>>

\* The snapshotter gets the answer.
Removed ==
  /\ snapPC = "removed"
  /\ SnapGoto("idle")
  /\ content' = "gone"
  /\ UNCHANGED <<snapType, wanted, snapHost>>

SnapStep ==
  \/ CreateSnapshot \/ HandleExistingSnap \/ GetHostSnapClass
  \/ GenerateHostSnap \/ GenerateHostVolumeRemoteBackup
  \/ CheckSnapsReadiness
  \/ PrepareSnapshotResponse \/ PrepareBackupSnapResponse \/ Taken
  \/ DeleteSnapshot \/ HandleBackupSnapDeletion \/ HandleLocalSnapDeletion
  \/ Removed

\* An API call fails, an answer is lost or the driver restarts.
SnapFail ==
  /\ snapPC # "idle"
  /\ \E final \in BOOLEAN : SnapEnd(final)
  /\ UNCHANGED <<snapGuest, snapHost>>

----------------------------------------------------------------------------
(* The guest cluster's user and the host cluster's controllers             *)

DeleteVolumeSnapshot ==
  /\ wanted
  /\ wanted' = FALSE
  /\ UNCHANGED <<snapType, content, snapDoubt, snapHost, snapPC>>

\* Without an ID the snapshotter has nothing to delete.
DropContent ==
  /\ snapPC = "idle" /\ content = "new" /\ ~wanted /\ ~snapDoubt
  /\ content' = "dropped"
  /\ UNCHANGED <<snapType, wanted, snapDoubt, snapHost, snapPC>>

\* The host takes the snapshot, or fails at first; a backup just takes longer.
TakeSnap ==
  /\ \/ snap = "new" /\ snap' = "pending"
     \/ snap \in {"pending", "failed"} /\ snap' = "ready"
  /\ UNCHANGED <<snapGuest, lost, snapDoubt, snapPC>>

FailSnap ==
  /\ snap = "pending" /\ snapType = "local"
  /\ snap' = "failed"
  /\ UNCHANGED <<snapGuest, lost, snapDoubt, snapPC>>

\* An administrator of the host deletes the object.  Until it is gone, a ready one
\* says that it is ready, and any other is as good as not deleted yet.
LoseSnap ==
  /\ snap \notin {"none", "deleting"}
  /\ snap' = IF snap = "ready" THEN "deleting" ELSE "none"
  /\ lost' = TRUE
  /\ UNCHANGED <<snapGuest, snapDoubt, snapPC>>

RemoveSnap ==
  /\ snap = "deleting"
  /\ snap' = "none"
  /\ UNCHANGED <<snapGuest, lost, snapDoubt, snapPC>>

----------------------------------------------------------------------------
(* Properties                                                              *)

\* The variables have their types.
SnapTypeOK ==
  /\ snapType \in {"local", "backup"}
  /\ wanted \in BOOLEAN /\ snapDoubt \in BOOLEAN /\ lost \in BOOLEAN
  /\ content \in {"new", "ready", "dropped", "gone"}
  /\ snap \in HostStates
  /\ snapPC \in SnapPCs

\* A snapshot the guest takes for ready is on the host and ready there until
\* the guest gives it up or an administrator of the host deletes it, whichever
\* calls of CreateSnapshot failed before and whatever became of the objects they
\* have made: one that is created in the place of a deleted one included.
ReadySnapshotExists ==
  content = "ready" /\ wanted /\ ~lost => snap = "ready"

\* When DeleteSnapshot has answered OK, a local snapshot is gone from the host
\* ("deletion not confirmed" otherwise); a backup is at least being removed.
DeletedSnapshotGone ==
  content = "gone" => snap = "none" \/ (snapType = "backup" /\ snap = "deleting")

\* A snapshot that stays wanted gets ready: a repeated CreateSnapshot takes up
\* what an earlier one has left, whether the host was done with it or not.
SnapshotCompletes == wanted /\ content = "new" ~> content # "new" \/ ~wanted

\* A snapshot that is no longer wanted leaves the guest in the end.
SnapshotDeleteCompletes == ~wanted ~> content \in {"gone", "dropped"}
============================================================================
