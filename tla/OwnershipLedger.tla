--------------------------- MODULE OwnershipLedger ---------------------------
(***************************************************************************)
(* The durable ownership records of storage_tx.py, and the directory they  *)
(* describe.  A store owns an inode, not a name: before it renames a file  *)
(* it writes a record with both names, so that a later process finds the   *)
(* inode under one of them.  A record is replaced atomically; a call that  *)
(* raises may still have replaced it (the directory's fsync failed).       *)
(*                                                                         *)
(* Each upload has its own transaction, its own record and its own names;  *)
(* no name of one is ever a name of another (they carry a uuid).           *)
(***************************************************************************)
EXTENDS Naturals, FiniteSets

CONSTANTS Uploads,    \* the transactions
          Inodes,     \* inode numbers
          None,       \* no inode, no record
          MaxFaults   \* bound on the system calls that fail

ASSUME LedgerAssumption == /\ None \notin Inodes
                           /\ MaxFaults \in Nat

\* ".upload-<id>.part", ".upload-<id>.png", "<id>.png", ".custback-cleanup-<tx>"
Places == {"part", "staged", "final", "quarantine"}

VARIABLES
  dir,     \* the inode under each name of each upload
  owner,   \* who made the file with an inode number: nobody, the store or a user
  mem,     \* OwnershipLedger._records
  disk,    \* the records in the metadata directory
  faults   \* how many calls have failed

ledger == <<dir, owner, mem, disk, faults>>

\* What _load() accepts: one or two names, an inode once bound.
Record == [paths : {ps \in SUBSET Places : Cardinality(ps) \in {1, 2}},
           inode : Inodes \cup {None},
           state : {"active", "cleanup", "committed"}]

ASSUME NoneIsNoRecord == None \notin Record

LedgerTypeOK ==
  /\ dir \in [Uploads -> [Places -> Inodes \cup {None}]]
  /\ owner \in [Inodes -> {"free", "store", "user"}]
  /\ mem \in [Uploads -> Record \cup {None}]
  /\ disk \in [Uploads -> Record \cup {None}]
  /\ faults \in 0..MaxFaults

LedgerInit ==
  /\ dir = [u \in Uploads |-> [p \in Places |-> None]]
  /\ owner = [i \in Inodes |-> "free"]
  /\ mem = [u \in Uploads |-> None]
  /\ disk = [u \in Uploads |-> None]
  /\ faults = 0

-----------------------------------------------------------------------------
(* What the methods compute.                                               *)

Fault == faults < MaxFaults /\ faults' = faults + 1

\* The record of begin().
Begun == [paths |-> {"part"}, inode |-> None, state |-> "active"]

\* An owned record: neither absent nor committed nor unbound.
Owns(r) == r # None /\ r.state # "committed" /\ r.inode # None

\* reconcile(): the recorded names that still name the owned inode.
Matches(u) == {p \in mem[u].paths : mem[u].inode # None /\ dir[u][p] = mem[u].inode}

Reconciled(u) == IF Matches(u) = {} THEN mem[u] ELSE [mem[u] EXCEPT !.paths = Matches(u)]

Committed(r) == [r EXCEPT !.state = "committed"]

\* The terminal record of _drop_empty().
Emptied(r) == [Committed(r) EXCEPT !.inode = None, !.paths = {CHOOSE p \in @ : TRUE}]

\* Mutant: only an upload already being cleaned up is cleaned up.
RecoveredActive(r) == IF r # None /\ r.state = "active" THEN Committed(r) ELSE r

\* What a restarted process makes of a record.
Recovered(r) ==
  IF r = None \/ r.state = "committed" THEN r ELSE [r EXCEPT !.state = "cleanup"]

-----------------------------------------------------------------------------
(* _persist() and the system calls.                                        *)

Saved(u, r) ==
  /\ mem' = [mem EXCEPT ![u] = r]
  /\ disk' = [disk EXCEPT ![u] = r]
  /\ UNCHANGED faults

\* It raises: the caller keeps `kept` in memory, and on disk is the old record
\* or the new one.
SaveFails(u, kept, r) ==
  /\ Fault
  /\ mem' = [mem EXCEPT ![u] = kept]
  /\ disk' \in {disk, [disk EXCEPT ![u] = r]}

\* reconcile() persists only what it changed.
ReconcileSaves(u) ==
  IF Reconciled(u) = mem[u] THEN UNCHANGED <<mem, disk, faults>> ELSE Saved(u, Reconciled(u))

ReconcileFails(u) ==
  Reconciled(u) # mem[u] /\ SaveFails(u, Reconciled(u), Reconciled(u))

\* rename_noreplace() succeeds only when the name is free.
CanMove(u, from, to) == dir[u][from] # None /\ dir[u][to] = None

Moved(u, from, to) ==
  dir' = [dir EXCEPT ![u][from] = None, ![u][to] = dir[u][from]]

\* unlink() of the file under a name; its number may be used again.
Unlinked(u, p) ==
  /\ dir' = [dir EXCEPT ![u][p] = None]
  /\ owner' = [owner EXCEPT ![dir[u][p]] = "free"]

\* A file of a new inode.
Made(u, p, i, who) ==
  /\ owner[i] = "free" /\ dir[u][p] = None
  /\ dir' = [dir EXCEPT ![u][p] = i]
  /\ owner' = [owner EXCEPT ![i] = who]

\* The record's own file goes: metadata unlinked, transaction forgotten.
Forgotten(u) ==
  /\ mem' = [mem EXCEPT ![u] = None]
  /\ disk' = [disk EXCEPT ![u] = None]
  /\ UNCHANGED faults

\* The unlink or its fsync raises; the record stays in memory.
ForgetFails(u) ==
  /\ Fault
  /\ disk' \in {disk, [disk EXCEPT ![u] = None]}
  /\ UNCHANGED mem
=============================================================================
