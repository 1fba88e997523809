--------------------------- MODULE StreamShutdown --------------------------
(* StreamLifecycleRegistry in api/streaming.py: long-lived streams register *)
(* on the event loop, release themselves in any order, and are interrupted  *)
(* by a shutdown that the main thread requests, that the application's      *)
(* lifespan runs, or both at once.                                          *)
(*                                                                          *)
(* A shutdown looks at the registry once, closes what has a closer for a    *)
(* grace period, cancels the tasks and waits until its deadline.  A stream  *)
(* may take its time to end, or suppress its cancellation.                  *)
EXTENDS Naturals, FiniteSets

CONSTANTS
  Streams,        \* stream tasks
  Shutdowns       \* the shutdown coroutines: the main thread's and the lifespan's

VARIABLES
  refusing,       \* _closing
  entries,        \* registered streams
  closers,        \* those with a close callback installed
  streamAt,       \* [stream -> "new", "live", "done" or "gone"]: done callback owed in "done"
  interrupted,    \* streams whose task was cancelled or whose closer ran
  shutdownAt,     \* [shutdown -> its step]
  targets,        \* [shutdown -> its snapshot of the entries]
  reported        \* [shutdown -> the number of entries it found left]

registryVars == <<refusing, entries, closers>>
shutdownVars == <<shutdownAt, targets, reported>>
lifecycleVars == <<registryVars, streamAt, interrupted, shutdownVars>>

InitLifecycle ==
  /\ refusing = FALSE /\ entries = {} /\ closers = {}
  /\ streamAt = [s \in Streams |-> "new"] /\ interrupted = {}
  /\ shutdownAt = [x \in Shutdowns |-> "idle"]
  /\ targets = [x \in Shutdowns |-> {}] /\ reported = [x \in Shutdowns |-> 0]

StreamGoes(s, step) == streamAt' = [streamAt EXCEPT ![s] = step]
ShutdownGoes(x, step) == shutdownAt' = [shutdownAt EXCEPT ![x] = step]

\* Mutant: a stream may register during a shutdown.
RegisterAlways(s) ==
  /\ streamAt[s] = "new"
  /\ StreamGoes(s, "live") /\ entries' = entries \cup {s}
  /\ UNCHANGED <<refusing, closers, interrupted, shutdownVars>>

\* register: refused during a shutdown, and the route ends at once.
Register(s) ==
  /\ streamAt[s] = "new"
  /\ IF refusing THEN StreamGoes(s, "gone") /\ UNCHANGED entries
     ELSE StreamGoes(s, "live") /\ entries' = entries \cup {s}
  /\ UNCHANGED <<refusing, closers, interrupted, shutdownVars>>

\* set_close, once an upstream resource is there; too late after a release.
SetClose(s) ==
  /\ streamAt[s] = "live" /\ s \in entries
  /\ closers' = closers \cup {s}
  /\ UNCHANGED <<refusing, entries, streamAt, interrupted, shutdownVars>>

\* The response's finally releases; the task's done callback does it again.
ReleaseEntry(s) ==
  /\ s \in entries \/ streamAt[s] = "done"
  /\ entries' = entries \ {s} /\ closers' = closers \ {s}
  /\ IF streamAt[s] = "done" THEN StreamGoes(s, "gone") ELSE UNCHANGED streamAt
  /\ UNCHANGED <<refusing, interrupted, shutdownVars>>

\* The task ends, by itself or because it was interrupted.
TaskEnds(s) ==
  /\ streamAt[s] = "live" /\ StreamGoes(s, "done")
  /\ UNCHANGED <<registryVars, interrupted, shutdownVars>>

\* request_shutdown refuses streams from here on, before the loop runs the
\* coroutine; a second request gets the first one's future.
RequestShutdown(x) ==
  /\ shutdownAt[x] = "idle" /\ refusing' = TRUE /\ ShutdownGoes(x, "scheduled")
  /\ UNCHANGED <<entries, closers, streamAt, interrupted, targets, reported>>

\* shutdown up to its first await: the lifespan enters here without a request.
BeginShutdown(x) ==
  /\ shutdownAt[x] \in {"idle", "scheduled"}
  /\ refusing' = TRUE /\ targets' = [targets EXCEPT ![x] = entries]
  /\ interrupted' = interrupted \cup closers
  /\ ShutdownGoes(x, "closing")
  /\ UNCHANGED <<entries, closers, streamAt, reported>>

\* The grace period is over: cancel every task of the snapshot that still runs.
CancelTasks(x) ==
  /\ shutdownAt[x] = "closing"
  /\ interrupted' = interrupted \cup {s \in targets[x] : streamAt[s] = "live"}
  /\ ShutdownGoes(x, "joining")
  /\ UNCHANGED <<registryVars, streamAt, targets, reported>>

\* All have ended, or the deadline has passed.
FinishShutdown(x) ==
  /\ shutdownAt[x] = "joining" /\ ShutdownGoes(x, "returned")
  /\ reported' = [reported EXCEPT ![x] = Cardinality(entries)]
  /\ UNCHANGED <<registryVars, streamAt, interrupted, targets>>

NextLifecycle ==
  \/ \E s \in Streams : Register(s) \/ SetClose(s) \/ ReleaseEntry(s) \/ TaskEnds(s)
  \/ \E x \in Shutdowns : RequestShutdown(x) \/ BeginShutdown(x) \/ CancelTasks(x) \/ FinishShutdown(x)

SpecLifecycle == InitLifecycle /\ [][NextLifecycle]_lifecycleVars

LifecycleTypes ==
  /\ refusing \in BOOLEAN /\ entries \subseteq Streams /\ closers \subseteq Streams
  /\ streamAt \in [Streams -> {"new", "live", "done", "gone"}] /\ interrupted \subseteq Streams
  /\ shutdownAt \in [Shutdowns -> {"idle", "scheduled", "closing", "joining", "returned"}]
  /\ targets \in [Shutdowns -> SUBSET Streams]
  /\ reported \in [Shutdowns -> 0..Cardinality(Streams)]

\* No stream outlives a shutdown unasked: once one has returned, whatever is
\* still registered and running has been interrupted, and it was counted.
ShutdownReachesAll ==
  \A x \in Shutdowns : shutdownAt[x] = "returned" =>
    /\ \A s \in entries : streamAt[s] = "live" => s \in interrupted
    /\ Cardinality(entries) <= reported[x]
=============================================================================
