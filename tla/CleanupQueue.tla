---------------------------- MODULE CleanupQueue ---------------------------
(* _StagedCleanupQueue in api/server.py: request threads queue the discard  *)
(* of a failed upload and make sure that a worker thread is there; the      *)
(* worker leaves after an idle second.  The queue has a lock of its own,    *)
(* the reference to the worker another.  A discard that is refused (the     *)
(* pipeline is busy, or the file system failed) goes to the back.           *)
(* What a discard does to the files is UploadStore's.                       *)
EXTENDS Naturals, Sequences, SequencesExt

CONSTANT Discards        \* the discards that are submitted

VARIABLES
  submitAt,    \* [discard -> where its request thread is in submit]
  tasks,       \* _tasks, a FIFO queue
  cleanerAt,   \* where the referenced worker is; "none" when _worker is None
  cleaning,    \* the discards the worker holds
  cleaned      \* discards whose done event is set

cleanupVars == <<submitAt, tasks, cleanerAt, cleaning, cleaned>>

InitCleanup ==
  /\ submitAt = [d \in Discards |-> "new"]
  /\ tasks = <<>> /\ cleanerAt = "none" /\ cleaning = {} /\ cleaned = {}

\* submit: the queue first, then the look at the worker under the lock.
PutTask(d) ==
  /\ submitAt[d] = "new"
  /\ tasks' = Append(tasks, d) /\ submitAt' = [submitAt EXCEPT ![d] = "put"]
  /\ UNCHANGED <<cleanerAt, cleaning, cleaned>>

EnsureWorker(d) ==
  /\ submitAt[d] = "put" /\ submitAt' = [submitAt EXCEPT ![d] = "returned"]
  /\ cleanerAt' = IF cleanerAt = "none" THEN "get" ELSE cleanerAt
  /\ UNCHANGED <<tasks, cleaning, cleaned>>

\* _run: take the oldest task, or find none for a second.
GetTask ==
  /\ cleanerAt = "get" /\ tasks # <<>>
  /\ cleaning' = {Head(tasks)} /\ tasks' = Tail(tasks) /\ cleanerAt' = "attempt"
  /\ UNCHANGED <<submitAt, cleaned>>

GetTimesOut ==
  /\ cleanerAt = "get" /\ tasks = <<>> /\ cleanerAt' = "idle"
  /\ UNCHANGED <<submitAt, tasks, cleaning, cleaned>>

\* Mutant: the idle worker leaves without looking again.
LeaveAnyway ==
  /\ cleanerAt = "idle" /\ cleanerAt' = "none"
  /\ UNCHANGED <<submitAt, tasks, cleaning, cleaned>>

\* The idle worker looks again under the lock before it leaves.
LeaveIfEmpty ==
  /\ cleanerAt = "idle" /\ cleanerAt' = IF tasks = <<>> THEN "none" ELSE "get"
  /\ UNCHANGED <<submitAt, tasks, cleaning, cleaned>>

\* _attempt: through the coordinator, or inline when no pipeline runs.
AttemptSucceeds ==
  /\ cleanerAt = "attempt" /\ cleaned' = cleaned \cup cleaning
  /\ cleaning' = {} /\ cleanerAt' = "get"
  /\ UNCHANGED <<submitAt, tasks>>

AttemptRefused ==
  /\ cleanerAt = "attempt" /\ cleanerAt' = "backoff"
  /\ UNCHANGED <<submitAt, tasks, cleaning, cleaned>>

\* Mutant: a refused discard is dropped.
RequeueForgets ==
  /\ cleanerAt = "backoff" /\ cleaning' = {} /\ cleanerAt' = "get"
  /\ UNCHANGED <<submitAt, tasks, cleaned>>

Requeue ==
  /\ cleanerAt = "backoff"
  /\ tasks' = tasks \o SetToSeq(cleaning) /\ cleaning' = {} /\ cleanerAt' = "get"
  /\ UNCHANGED <<submitAt, cleaned>>

Cleaner == GetTask \/ GetTimesOut \/ LeaveIfEmpty \/ AttemptSucceeds \/ AttemptRefused \/ Requeue
NextCleanup == Cleaner \/ \E d \in Discards : PutTask(d) \/ EnsureWorker(d)

\* Threads go on; a discard tried again and again succeeds in the end, each one
\* for itself.
CleanupFairness ==
  /\ WF_cleanupVars(Cleaner)
  /\ \A d \in Discards : /\ WF_cleanupVars(EnsureWorker(d))
                         /\ SF_cleanupVars(d \in cleaning /\ AttemptSucceeds)

SpecCleanup == InitCleanup /\ [][NextCleanup]_cleanupVars
FairCleanup == SpecCleanup /\ CleanupFairness

CleanupTypes ==
  /\ submitAt \in [Discards -> {"new", "put", "returned"}]
  /\ ToSet(tasks) \subseteq Discards /\ cleaning \subseteq Discards
  /\ cleaned \subseteq Discards
  /\ cleanerAt \in {"none", "get", "idle", "attempt", "backoff"}

\* A discard whose request thread has queued it is in the queue, in the worker's hands or
\* done, in one of the three and once; and until it is done there is a worker, or a thread
\* that is about to look for one.
DiscardsKept ==
  /\ IsInjective(tasks)
  /\ cleaning \cap cleaned = {} /\ ToSet(tasks) \cap (cleaning \cup cleaned) = {}
  /\ ToSet(tasks) \cup cleaning \cup cleaned = {d \in Discards : submitAt[d] # "new"}
  /\ ToSet(tasks) \cup cleaning # {} =>
       cleanerAt # "none" \/ \E d \in Discards : submitAt[d] = "put"

\* A queued discard is carried out in the end: whichever of the idle worker
\* and the submitting thread is first, one of them sees the other.  (A discard
\* that is done stays done and there are finitely many, so "again and again all
\* of them" says that each is done in the end.)
EveryDiscardDone == []<>(\A d \in Discards : submitAt[d] # "new" => d \in cleaned)
=============================================================================
