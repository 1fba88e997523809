----------------------------- MODULE UploadStore -----------------------------
(***************************************************************************)
(* The uploads of api/server.py over the ownership ledger: an upload is    *)
(* staged in a hidden file, tried by the pipeline, promoted to its final   *)
(* name in the same step that puts it into the configuration, and settled. *)
(* Every system call may fail, the process may die between any two of      *)
(* them, and a user may put files of his own under the same names, or take *)
(* the store's away.                                                       *)
(*                                                                         *)
(* One step is one durable write or one rename.  The store's lock keeps    *)
(* two uploads from interleaving inside a method; they share no name and   *)
(* no record, so the model lets them.  The process may die; the machine    *)
(* does not lose what it has written.                                      *)
(***************************************************************************)
EXTENDS OwnershipLedger

CONSTANTS MaxCrashes,   \* bound on the deaths of the process
          MaxUser       \* bound on the files users make

ASSUME StoreAssumption == /\ MaxCrashes \in Nat /\ MaxUser \in Nat
                          /\ None \notin Uploads

VARIABLES
  uploadAt,   \* where the transaction of an upload is
  moving,     \* which rename it is in
  move,       \* the names of that rename, and whether it undoes one
  active,     \* the upload the configuration names as background, or None
  activated,  \* history: uploads whose activation has been settled, or tried to
  made,       \* history: the inode an upload made, or its record was bound to
  taken,      \* history: uploads whose file a user has taken away
  late,       \* history: where a user's file came after the last look before an unlink
  up,         \* the process runs
  crashes,
  users

store == <<uploadAt, moving, move, active, activated, made, taken, late, up, crashes, users>>
uploadVars == <<ledger, store>>

Stages == {"none", "commit", "promote", "rollback", "quarantine"}
Labels == {"new", "unmarked", "reserved", "created", "bound",
           "prepare", "rename", "finish", "harden", "undo", "raised",
           "staged", "promoted", "rollback", "settle", "forget", "discard",
           "cleanup", "reconcile", "putback", "remove", "unlink", "drop", "dropped",
           "unlisted", "failing", "recover", "adopt", "rest"}
Move == [from : Places, to : Places, undo : BOOLEAN]

UploadTypes ==
  /\ LedgerTypeOK
  /\ uploadAt \in [Uploads -> Labels]
  /\ moving \in [Uploads -> Stages]
  /\ move \in [Uploads -> Move]
  /\ active \in Uploads \cup {None}
  /\ activated \subseteq Uploads
  /\ made \in [Uploads -> Inodes \cup {None}] /\ taken \subseteq Uploads /\ late \subseteq Uploads
  /\ up \in BOOLEAN
  /\ crashes \in 0..MaxCrashes /\ users \in 0..MaxUser

NoMove == [from |-> "part", to |-> "staged", undo |-> FALSE]

InitUploads ==
  /\ LedgerInit
  /\ uploadAt = [u \in Uploads |-> "new"]
  /\ moving = [u \in Uploads |-> "none"]
  /\ move = [u \in Uploads |-> NoMove]
  /\ active = None
  /\ activated = {}
  /\ made = [u \in Uploads |-> None] /\ taken = {} /\ late = {}
  /\ up = TRUE
  /\ crashes = 0
  /\ users = 0

\* create_app() recovers every record before the first request is served.
Served == up /\ \A u \in Uploads : uploadAt[u] \notin {"recover", "adopt"}

\* The step of upload u from label `from` to label `to`.
At(u, from) == up /\ uploadAt[u] = from
Goes(u, to) == uploadAt' = [uploadAt EXCEPT ![u] = to]
Rest(u) == UNCHANGED <<moving, move, active, activated, made, taken, late, up, crashes, users>>

-----------------------------------------------------------------------------
(* save(): reserve, create, bind, validate.                                *)

\* _reserve_file(): the staging name is free and its record is written.
Reserve(u) ==
  /\ Served /\ At(u, "new") /\ dir[u]["part"] = None
  /\ \/ Saved(u, Begun) /\ Goes(u, "reserved")
     \/ SaveFails(u, None, Begun) /\ Goes(u, "unmarked")
  /\ UNCHANGED <<dir, owner>> /\ Rest(u)

\* The staging name is taken: FileExistsError, before any record.
ReserveRaises(u) ==
  /\ Served /\ At(u, "new") /\ dir[u]["part"] # None
  /\ Goes(u, "unmarked")
  /\ UNCHANGED ledger /\ Rest(u)

\* _cleanup_save() without a record unlinks by name, and if that fails
\* _retry_pending_cleanup() does, before the next upload.
UnlinkUnmarked(u) ==
  /\ At(u, "unmarked")
  /\ \/ /\ IF dir[u]["part"] = None THEN UNCHANGED <<dir, owner>> ELSE Unlinked(u, "part")
        /\ Goes(u, "rest") /\ UNCHANGED faults
     \/ Fault /\ UNCHANGED <<dir, owner, uploadAt>>
  /\ UNCHANGED <<mem, disk>> /\ Rest(u)

\* _open_private_file(): O_EXCL makes a new inode; hardening it may raise.
Create(u, i) ==
  /\ At(u, "reserved")
  /\ Made(u, "part", i, "store")
  /\ made' = [made EXCEPT ![u] = i]
  /\ \/ Goes(u, "created") /\ UNCHANGED faults
     \/ Goes(u, "cleanup") /\ Fault
  /\ UNCHANGED <<mem, disk, moving, move, active, activated, taken, late, up, crashes, users>>

\* The file could not be made at all.
CreateRaises(u) ==
  /\ At(u, "reserved") /\ Fault
  /\ Goes(u, "cleanup")
  /\ UNCHANGED <<dir, owner, mem, disk>> /\ Rest(u)

\* The name was taken after it was reserved: _abandon_unbound().
CreateCollides(u) ==
  /\ At(u, "reserved") /\ dir[u]["part"] # None
  /\ \/ Saved(u, Committed(mem[u])) /\ Goes(u, "forget")
     \/ SaveFails(u, mem[u], Committed(mem[u])) /\ Goes(u, "cleanup")
  /\ UNCHANGED <<dir, owner>> /\ Rest(u)

\* _bind_created() records the inode it finds under the name, whoever made it; a
\* failed write leaves it bound in memory.
Bind(u) ==
  LET bound == [mem[u] EXCEPT !.paths = {"part"}, !.inode = dir[u]["part"]]
  IN  /\ At(u, "created") /\ dir[u]["part"] # None
      /\ \/ Saved(u, bound) /\ Goes(u, "bound")
         \/ SaveFails(u, bound, bound) /\ Goes(u, "cleanup")
      /\ made' = [made EXCEPT ![u] = dir[u]["part"]]
      /\ UNCHANGED <<dir, owner, moving, move, active, activated, taken, late, up, crashes, users>>

\* The file is gone by then: FileNotFoundError, with the record unbound.
BindRaises(u) ==
  /\ At(u, "created") /\ dir[u]["part"] = None
  /\ Goes(u, "cleanup")
  /\ UNCHANGED ledger /\ Rest(u)

Starts(u, s, from, to) ==
  /\ moving' = [moving EXCEPT ![u] = s]
  /\ move' = [move EXCEPT ![u] = [from |-> from, to |-> to, undo |-> FALSE]]
  /\ Goes(u, "prepare")

\* The body is complete and decodes: _commit() moves it to its hidden name.
CommitStaged(u) ==
  /\ At(u, "bound")
  /\ Starts(u, "commit", "part", "staged")
  /\ UNCHANGED <<ledger, active, activated, made, taken, late, up, crashes, users>>

\* A malformed, oversized, cancelled or undecodable upload.
Reject(u) ==
  /\ At(u, "bound")
  /\ Goes(u, "cleanup")
  /\ UNCHANGED ledger /\ Rest(u)

-----------------------------------------------------------------------------
(* _rename_private_owned() and the rename of _quarantine().                *)

\* Where a rename goes on when one of its calls raises.
AfterRaise(u) ==
  IF moving[u] = "quarantine" THEN "putback"
  ELSE IF move[u].undo THEN "raised" ELSE "undo"

\* Mutant: only the destination is recorded.
PrepareDestination(u) ==
  LET both == [mem[u] EXCEPT !.paths = {move[u].to}]
  IN  /\ At(u, "prepare")
      /\ \/ Saved(u, both) /\ Goes(u, "rename")
         \/ /\ SaveFails(u, mem[u], both)
            /\ Goes(u, IF moving[u] = "quarantine" THEN "failing" ELSE "raised")
      /\ UNCHANGED <<dir, owner>> /\ Rest(u)

\* Both names are durable before the rename; a failed write restores the old
\* ones in memory.  In _quarantine() this call is not guarded.
PrepareRename(u) ==
  LET both == [mem[u] EXCEPT !.paths = {move[u].from, move[u].to}]
  IN  /\ At(u, "prepare")
      /\ \/ Saved(u, both) /\ Goes(u, "rename")
         \/ /\ SaveFails(u, mem[u], both)
            /\ Goes(u, IF moving[u] = "quarantine" THEN "failing" ELSE "raised")
      /\ UNCHANGED <<dir, owner>> /\ Rest(u)

\* rename_noreplace(), outside the try of _rename_private_owned().
Rename(u) ==
  /\ At(u, "rename")
  /\ CanMove(u, move[u].from, move[u].to)
  /\ Moved(u, move[u].from, move[u].to)
  /\ Goes(u, "finish")
  /\ UNCHANGED <<owner, mem, disk, faults>> /\ Rest(u)

\* It raises, without or (the directory's fsync) after renaming.
RenameRaises(u) ==
  /\ At(u, "rename")
  /\ \/ /\ ~CanMove(u, move[u].from, move[u].to)
        /\ UNCHANGED <<dir, faults>>
     \/ /\ Fault
        /\ \/ UNCHANGED dir
           \/ /\ CanMove(u, move[u].from, move[u].to)
              /\ Moved(u, move[u].from, move[u].to)
  /\ Goes(u, IF moving[u] = "quarantine" THEN "putback" ELSE "raised")
  /\ UNCHANGED <<owner, mem, disk>> /\ Rest(u)

\* Mutant: whatever was renamed is the record's inode from now on.
FinishTrusting(u) ==
  LET here == [mem[u] EXCEPT !.paths = {move[u].to}, !.inode = dir[u][move[u].to]]
  IN  /\ At(u, "finish")
      /\ \/ Saved(u, here) /\ Goes(u, "harden")
         \/ SaveFails(u, mem[u], here) /\ Goes(u, AfterRaise(u))
      /\ UNCHANGED <<dir, owner>> /\ Rest(u)

\* finish_rename() looks at what was really renamed.
FinishRename(u) ==
  LET here == [mem[u] EXCEPT !.paths = {move[u].to}]
  IN  /\ At(u, "finish")
      /\ \/ /\ dir[u][move[u].to] = mem[u].inode
            /\ \/ Saved(u, here) /\ Goes(u, "harden")
               \/ SaveFails(u, mem[u], here) /\ Goes(u, AfterRaise(u))
         \/ /\ dir[u][move[u].to] # mem[u].inode
            /\ Goes(u, AfterRaise(u))
            /\ UNCHANGED <<mem, disk, faults>>
      /\ UNCHANGED <<dir, owner>> /\ Rest(u)

\* Where the exception of each rename is handled.
RaisedTo(u) == CASE moving[u] = "commit" -> "cleanup"
                 [] moving[u] = "promote" -> "rollback"
                 [] OTHER -> "discard"

HardenedTo(u) == CASE moving[u] = "commit" -> "staged"
                   [] moving[u] = "promote" -> "promoted"
                   [] moving[u] = "rollback" -> "discard"
                   [] OTHER -> "remove"

\* _secure_private_file().  An undone rename raises what made it necessary.
Harden(u) ==
  /\ At(u, "harden")
  /\ \/ /\ ~move[u].undo /\ moving[u] # "quarantine"
        /\ Fault /\ Goes(u, "undo")
     \/ UNCHANGED faults /\ Goes(u, IF move[u].undo THEN RaisedTo(u) ELSE HardenedTo(u))
  /\ UNCHANGED <<dir, owner, mem, disk>> /\ Rest(u)

\* The inode is at the destination: rename it back.  If it is not, or if the
\* reconciled record cannot be written, it stays where it is.
Undo(u) ==
  /\ At(u, "undo")
  /\ IF move[u].to \in Matches(u)
       THEN \/ /\ ReconcileSaves(u)
               /\ move' = [move EXCEPT ![u] =
                             [from |-> move[u].to, to |-> move[u].from, undo |-> TRUE]]
               /\ Goes(u, "prepare")
            \/ ReconcileFails(u) /\ Goes(u, "raised") /\ UNCHANGED move
       ELSE Goes(u, "raised") /\ UNCHANGED <<mem, disk, faults, move>>
  /\ UNCHANGED <<dir, owner, moving, active, activated, made, taken, late, up, crashes, users>>

\* An undo that failed reconciles the record once more, whatever comes of it.
Raised(u) ==
  /\ At(u, "raised")
  /\ IF move[u].undo THEN ReconcileSaves(u) \/ ReconcileFails(u)
                     ELSE UNCHANGED <<mem, disk, faults>>
  /\ Goes(u, RaisedTo(u))
  /\ UNCHANGED <<dir, owner>> /\ Rest(u)

-----------------------------------------------------------------------------
(* upload(): activation by the pipeline, and who settles it.               *)

\* The trial fails, the version is stale or the pipeline does not answer.
ApplyFails(u) ==
  /\ At(u, "staged") /\ Goes(u, "discard")
  /\ UNCHANGED ledger /\ Rest(u)

\* promote(), called at the commit boundary.
Promote(u) ==
  /\ At(u, "staged")
  /\ IF CanMove(u, "staged", "final")
       THEN Starts(u, "promote", "staged", "final")
       ELSE Goes(u, "rollback") /\ UNCHANGED <<moving, move>>
  /\ UNCHANGED <<ledger, active, activated, made, taken, late, up, crashes, users>>

\* The configuration that names the final file is installed.
ActivateUpload(u) ==
  /\ At(u, "promoted")
  /\ active' = u
  /\ Goes(u, "settle")
  /\ UNCHANGED <<ledger, moving, move, activated, made, taken, late, up, crashes, users>>

\* Installing it raises after the promotion.
ActivationRaises(u) ==
  /\ At(u, "promoted") /\ Goes(u, "rollback")
  /\ UNCHANGED ledger /\ Rest(u)

\* rollback_promotion(), which may raise before it renames; the pipeline does
\* not reach it when its own fence times out.
RollbackPromotion(u) ==
  /\ At(u, "rollback")
  /\ \/ CanMove(u, "final", "staged") /\ Starts(u, "rollback", "final", "staged")
     \/ Goes(u, "discard") /\ UNCHANGED <<moving, move>>
  /\ UNCHANGED <<ledger, active, activated, made, taken, late, up, crashes, users>>

\* _finish_transaction(), tried by the future's callback and by the request.
SettleUpload(u) ==
  /\ At(u, "settle")
  /\ \/ Saved(u, Committed(mem[u])) /\ Goes(u, "forget")
     \/ /\ SaveFails(u, mem[u], Committed(mem[u]))
        /\ Goes(u, "settle") \/ Goes(u, "rest")
  /\ activated' = activated \cup {u}
  /\ UNCHANGED <<dir, owner, moving, move, active, made, taken, late, up, crashes, users>>

\* A committed record's file is unlinked.
Forget(u) ==
  /\ At(u, "forget")
  /\ Forgotten(u) \/ ForgetFails(u)
  /\ Goes(u, "rest")
  /\ UNCHANGED <<dir, owner>> /\ Rest(u)

\* discard_failed_upload() on the cleanup queue, which repeats it when it raises.
Discard(u) ==
  /\ At(u, "discard")
  /\ IF mem[u].paths \cap {"staged", "final"} = {}
       THEN Goes(u, "rest") /\ UNCHANGED <<mem, disk, faults>>
       ELSE \/ /\ ReconcileSaves(u)
               /\ Goes(u, IF active = u /\ "final" \in Matches(u) THEN "settle" ELSE "cleanup")
            \/ ReconcileFails(u) /\ Goes(u, "discard")
  /\ UNCHANGED <<dir, owner>> /\ Rest(u)

-----------------------------------------------------------------------------
(* cleanup(): move the owned inode aside, look again, remove it, forget.   *)

Cleanup(u) ==
  LET marked == [mem[u] EXCEPT !.state = "cleanup"]
  IN  /\ At(u, "cleanup")
      /\ \/ Saved(u, marked) /\ Goes(u, "reconcile")
         \/ SaveFails(u, marked, marked) /\ Goes(u, "failing")
      /\ UNCHANGED <<dir, owner>> /\ Rest(u)

\* The loop of cleanup(): the next name that holds the inode.
Reconcile(u) ==
  /\ At(u, "reconcile")
  /\ \/ /\ ReconcileSaves(u)
        /\ \/ /\ Matches(u) = {}
              /\ Goes(u, "drop") /\ UNCHANGED <<moving, move>>
           \/ /\ "quarantine" \in Matches(u)
              /\ Goes(u, "remove") /\ UNCHANGED <<moving, move>>
           \/ \E p \in Matches(u) \ {"quarantine"} : Starts(u, "quarantine", p, "quarantine")
     \/ ReconcileFails(u) /\ Goes(u, "failing") /\ UNCHANGED <<moving, move>>
  /\ UNCHANGED <<dir, owner, active, activated, made, taken, late, up, crashes, users>>

\* _quarantine() caught something else: put it back where it was.
PutBack(u) ==
  /\ At(u, "putback")
  /\ \/ /\ dir[u]["quarantine"] # mem[u].inode
        /\ CanMove(u, "quarantine", move[u].from)
        /\ \/ Moved(u, "quarantine", move[u].from) /\ UNCHANGED faults
           \/ Fault /\ UNCHANGED dir
     \/ /\ dir[u]["quarantine"] = mem[u].inode \/ ~CanMove(u, "quarantine", move[u].from)
        /\ UNCHANGED <<dir, faults>>
  /\ Goes(u, "failing")
  /\ UNCHANGED <<owner, mem, disk>> /\ Rest(u)

\* The last look at the private name before it is removed.
Remove(u) ==
  /\ At(u, "remove")
  /\ Goes(u, IF dir[u]["quarantine"] = mem[u].inode THEN "unlink" ELSE "failing")
  /\ late' = late \ {u}
  /\ UNCHANGED <<ledger, moving, move, active, activated, made, taken, up, crashes, users>>

\* Whatever is under that name now is removed; the directory's fsync may raise
\* when it already is.
Unlink(u) ==
  /\ At(u, "unlink")
  /\ \/ /\ dir[u]["quarantine"] # None
        /\ \/ Unlinked(u, "quarantine") /\ Goes(u, "reconcile") /\ UNCHANGED faults
           \/ /\ Fault /\ Goes(u, "failing")
              /\ Unlinked(u, "quarantine") \/ UNCHANGED <<dir, owner>>
     \/ /\ dir[u]["quarantine"] = None
        /\ Goes(u, "failing") /\ UNCHANGED <<dir, owner, faults>>
  /\ UNCHANGED <<mem, disk>> /\ Rest(u)

\* _drop_empty(): the terminal record, then none.
Drop(u) ==
  /\ At(u, "drop")
  /\ \/ Saved(u, Emptied(mem[u])) /\ Goes(u, "dropped")
     \/ SaveFails(u, Emptied(mem[u]), Emptied(mem[u])) /\ Goes(u, "failing")
  /\ UNCHANGED <<dir, owner>> /\ Rest(u)

\* A concurrent _retry_pending_cleanup() may have listed the record's names before.
Dropped(u) ==
  /\ At(u, "dropped")
  /\ \/ Forgotten(u) /\ (Goes(u, "rest") \/ Goes(u, "unlisted"))
     \/ ForgetFails(u) /\ Goes(u, "failing")
  /\ UNCHANGED <<dir, owner>> /\ Rest(u)

\* It then finds no record for them, and unlinks them by name.
UnlinkListed(u, p) ==
  /\ At(u, "unlisted")
  /\ IF dir[u][p] = None THEN UNCHANGED <<dir, owner>> ELSE Unlinked(u, p)
  /\ Goes(u, "rest") \/ Goes(u, "unlisted")
  /\ UNCHANGED <<mem, disk, faults>> /\ Rest(u)

\* What cleanup() writes before it reports that it has failed: to the cleanup
\* queue, which tries again, or to a caller that leaves it to the next retry.
Failing(u) ==
  /\ At(u, "failing")
  /\ Saved(u, Reconciled(u)) \/ SaveFails(u, Reconciled(u), Reconciled(u))
  /\ Goes(u, "rest") \/ Goes(u, "discard")
  /\ UNCHANGED <<dir, owner>> /\ Rest(u)

\* _retry_pending_cleanup(), before every upload.
Retry(u) ==
  /\ At(u, "rest") /\ mem[u] # None
  /\ \/ mem[u].state = "cleanup" /\ Goes(u, "cleanup")
     \/ mem[u].state = "committed" /\ Goes(u, "forget")
  /\ UNCHANGED ledger /\ Rest(u)

-----------------------------------------------------------------------------
(* The death of the process and the start of the next.                     *)

Dies ==
  /\ up' = FALSE
  /\ mem' = [u \in Uploads |-> None]

Crash ==
  /\ up /\ crashes < MaxCrashes
  /\ crashes' = crashes + 1
  /\ Dies
  /\ UNCHANGED <<dir, owner, disk, faults, uploadAt, moving, move, active, activated, made, taken, late, users>>

\* _load().  Patches are not written to the configuration file: it names the
\* upload only if its owner has put it there.
Restart ==
  /\ ~up
  /\ up' = TRUE
  /\ mem' = [u \in Uploads |-> Recovered(disk[u])]
  /\ active' \in {active, None}
  /\ uploadAt' = [u \in Uploads |-> IF disk[u] # None THEN "recover"
                                   ELSE IF uploadAt[u] = "new" THEN "new" ELSE "rest"]
  /\ UNCHANGED <<dir, owner, disk, faults, moving, move, activated, made, taken, late, crashes, users>>

\* A write that start-up does not survive.
StartFails(r, u) ==
  /\ Fault
  /\ disk' \in {disk, [disk EXCEPT ![u] = r]}
  /\ Dies
  /\ UNCHANGED <<dir, owner, uploadAt, moving, move, active, activated, made, taken, late, crashes, users>>

\* Mutant: start-up does not ask which upload is active.
RecoverAll(u) ==
  /\ At(u, "recover")
  /\ \/ /\ ReconcileSaves(u)
        /\ Goes(u, IF mem[u].state = "committed" THEN "adopt" ELSE "cleanup")
        /\ UNCHANGED <<dir, owner>> /\ Rest(u)
     \/ Reconciled(u) # mem[u] /\ StartFails(Reconciled(u), u)

\* cleanup_staged().
Recover(u) ==
  /\ At(u, "recover")
  /\ \/ /\ ReconcileSaves(u)
        /\ Goes(u, IF mem[u].state = "committed" \/ (active = u /\ "final" \in Matches(u))
                     THEN "adopt" ELSE "cleanup")
        /\ UNCHANGED <<dir, owner>> /\ Rest(u)
     \/ Reconciled(u) # mem[u] /\ StartFails(Reconciled(u), u)

Adopt(u) ==
  /\ At(u, "adopt")
  /\ \/ /\ Saved(u, Committed(mem[u])) /\ Goes(u, "forget")
        /\ UNCHANGED <<dir, owner>> /\ Rest(u)
     \/ StartFails(Committed(mem[u]), u)

-----------------------------------------------------------------------------
(* What users do, through the API and behind its back.                     *)

\* PATCH to another background, or back to a listed upload.
Deactivate ==
  /\ Served /\ active' = None /\ active # None
  /\ UNCHANGED <<ledger, uploadAt, moving, move, activated, made, taken, late, up, crashes, users>>

\* (the store's own; what users do to their files is their business)
Listed(u) == /\ made[u] # None /\ owner[made[u]] = "store"
             /\ dir[u]["final"] = made[u]
             /\ ~(Owns(mem[u]) /\ "final" \in Matches(u))

Switch(u) ==
  /\ Served /\ At(u, "rest") /\ Listed(u) /\ active # u
  /\ active' = u
  /\ UNCHANGED <<ledger, uploadAt, moving, move, activated, made, taken, late, up, crashes, users>>

\* remove().
Delete(u) ==
  /\ Served /\ At(u, "rest") /\ Listed(u) /\ active # u
  /\ Unlinked(u, "final")
  /\ activated' = activated \ {u}
  /\ UNCHANGED <<mem, disk, faults, uploadAt, moving, move, active, made, taken, late, up, crashes, users>>

UserMakes == users < MaxUser /\ users' = users + 1

\* A user's file under a free name.
UserCreates(u, p, i) ==
  /\ UserMakes /\ Made(u, p, i, "user")
  /\ late' = IF p = "quarantine" /\ uploadAt[u] = "unlink" THEN late \cup {u} ELSE late
  /\ UNCHANGED <<mem, disk, faults, uploadAt, moving, move, active, activated, made, taken,
                 up, crashes>>

\* A user deletes the store's file, or moves it elsewhere: the next file made,
\* under the same name or another, may get its number or not.
UserTakes(u, p) ==
  /\ made[u] # None /\ owner[made[u]] = "store" /\ dir[u][p] = made[u]
  /\ Unlinked(u, p)
  /\ taken' = taken \cup {u}
  /\ UNCHANGED <<mem, disk, faults, uploadAt, moving, move, active, activated, made, late,
                 up, crashes, users>>

Upload(u) ==
  \/ Reserve(u) \/ ReserveRaises(u) \/ UnlinkUnmarked(u)
  \/ \E i \in Inodes : Create(u, i)
  \/ CreateRaises(u) \/ CreateCollides(u) \/ Bind(u) \/ BindRaises(u) \/ CommitStaged(u)
  \/ Reject(u)
  \/ PrepareRename(u) \/ Rename(u) \/ RenameRaises(u) \/ FinishRename(u)
  \/ Harden(u) \/ Undo(u) \/ Raised(u)
  \/ ApplyFails(u) \/ Promote(u) \/ ActivateUpload(u) \/ ActivationRaises(u)
  \/ RollbackPromotion(u) \/ SettleUpload(u) \/ Forget(u) \/ Discard(u)

Cleans(u) ==
  \/ Cleanup(u) \/ Reconcile(u) \/ PutBack(u) \/ Remove(u) \/ Unlink(u)
  \/ Drop(u) \/ Dropped(u) \/ Failing(u) \/ Retry(u)
  \/ \E p \in Places : UnlinkListed(u, p)

User(u) ==
  \/ Switch(u) \/ Delete(u)
  \/ \E p \in Places : UserTakes(u, p) \/ \E i \in Inodes : UserCreates(u, p, i)

NextUploads ==
  \/ \E u \in Uploads : Upload(u) \/ Cleans(u) \/ Recover(u) \/ Adopt(u) \/ User(u)
  \/ Deactivate \/ Crash \/ Restart

SpecUploads == InitUploads /\ [][NextUploads]_uploadVars

-----------------------------------------------------------------------------
(* Properties.                                                             *)

\* Where the store removes whatever is there:
\*  - by name, where there is no record: after a failed reservation, and in a retry
\*    that listed the names of a record which was dropped meanwhile;
\*  - under the private name, a file that came between the last look at that name and
\*    the unlink, or that carries the number of the record: bind() found it where the
\*    store's file had been, or that file has gone (a user took it, or the call that
\*    unlinked it raised) and left its number free.
Exposed(i) ==
  \E u \in Uploads : \/ uploadAt[u] = "unmarked" /\ dir[u]["part"] = i
                     \/ uploadAt[u] = "unlisted" /\ \E p \in Places : dir[u][p] = i
                     \/ /\ uploadAt[u] = "unlink" /\ dir[u]["quarantine"] = i
                        /\ u \in late \/ made[u] = i

\* No file a user has put under a name of the store is removed by it, whatever
\* rename, failed call, retry or death of the process it raced, except where the code
\* cannot tell it from the store's (Exposed).
\* (DELETE is a user's own request: the model lets it name the store's files only.)
UserDataKept ==
  [][\A i \in Inodes : owner[i] = "user" => owner'[i] = "user" \/ Exposed(i)]_uploadVars

\* The upload the configuration names is there, unless a user took it away:
\* neither a cleanup nor a recovery takes the active background.
ActiveKept ==
  active # None => \/ dir[active]["final"] = made[active]
                   \/ active \in taken

\* The durable record of upload u owns a file that is still the store's. (Its inode
\* number may be that of another upload's file by now: it has to be u's.)
Holds(u) == Owns(disk[u]) /\ owner[disk[u].inode] = "store"
                          /\ \E p \in Places : dir[u][p] = disk[u].inode

\* Wherever a rename, its undo or a failed write left an owned inode, the
\* record a new process would load names that place.
NamesIt ==
  \A u \in Uploads : Holds(u) =>
    \A p \in Places : dir[u][p] = disk[u].inode => p \in disk[u].paths

\* A file of a failed upload never loses its durable owner: the record of an
\* inode stops owning it only when the upload is active or has been.
NeverForgotten ==
  [][\A u \in Uploads : Holds(u) =>
       \/ Owns(disk'[u]) /\ disk'[u].inode = disk[u].inode
       \/ owner'[disk[u].inode] # "store"
       \/ active = u \/ u \in activated']_uploadVars

\* "The active config remains authoritative.  Its durable ownership record is
\* charged and startup recovery will adopt it": an upload that was activated
\* keeps its file until somebody deletes it.
ActivatedKept ==
  \A u \in activated : \/ dir[u]["final"] = made[u]
                       \/ u \in taken
=============================================================================
