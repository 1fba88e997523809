------------------------ MODULE PublisherTelemetry ------------------------
(***************************************************************************)
(* Who reports the publisher's counters to RuntimePerformanceTracker.      *)
(*                                                                         *)
(* The worker takes a snapshot under the publisher's _condition when the   *)
(* sink has accepted a frame, and reports it later, in the on_send         *)
(* callback, once it has bridge.lock (_publish_output_receipt).  The       *)
(* processing thread takes and reports snapshots of its own when the run   *)
(* stops (_publish_publisher_state).  update_publisher rejects a report    *)
(* whose counters went down.                                               *)
(*                                                                         *)
(* Modelled counters: overwrites, moved by the processing thread, and      *)
(* sends, moved by the worker (it stands for the missed slots and slates). *)
(* The sink never fails here: the only failures are rejected reports.      *)
(***************************************************************************)
EXTENDS Naturals

CONSTANTS
  None,       \* no snapshot taken
  MaxCount    \* bound: each counter is reported up to MaxCount

VARIABLES
  counts,   \* the publisher's counters, [overwrites, sends]
  stop,     \* the publisher was asked to stop
  tracker,  \* the counters of tracker._publisher
  mode,     \* the state of tracker._publisher
  worker,   \* where the worker is
  receipt,  \* the snapshot of the receipt being delivered
  error,    \* the pipeline's _error, set by _publisher_failure
  proc,     \* where the processing thread is in its shutdown
  snap      \* the snapshot the processing thread is about to report

vars == <<counts, stop, tracker, mode, worker, receipt, error, proc, snap>>

Counts == [overwrites: 0..MaxCount, sends: 0..MaxCount]
Zero == [overwrites |-> 0, sends |-> 0]

Init ==
  /\ counts = Zero /\ stop = FALSE
  /\ tracker = Zero /\ mode = "starting"
  /\ worker = "sending" /\ receipt = None
  /\ error = FALSE
  /\ proc = "running" /\ snap = None

\* update_publisher: "publisher lifetime counters cannot decrease".
Monotonic(s) == s.overwrites >= tracker.overwrites /\ s.sends >= tracker.sends

-----------------------------------------------------------------------------
\* The worker.

\* _record_receipt, under _condition.
SinkAccepts ==
  /\ worker = "sending" /\ counts.sends < MaxCount
  /\ counts' = [counts EXCEPT !.sends = @ + 1]
  /\ receipt' = counts'
  /\ worker' = "delivering"
  /\ UNCHANGED <<stop, tracker, mode, error, proc, snap>>

\* on_send = _publish_output_receipt; the state reported is the one the snapshot
\* saw, before or after the stop.
Deliver ==
  /\ worker = "delivering" /\ Monotonic(receipt)
  /\ tracker' = receipt
  /\ mode' \in {"running"} \cup (IF stop THEN {"stopped"} ELSE {})
  /\ receipt' = None
  /\ worker' = "sending"
  /\ UNCHANGED <<counts, stop, error, proc, snap>>

\* The ValueError ends the worker, whose _publisher_failure fails the pipeline.
DeliverRaises ==
  /\ worker = "delivering" /\ ~Monotonic(receipt)
  /\ error' = TRUE
  /\ stop' = TRUE
  /\ receipt' = counts
  /\ worker' = "failing"
  /\ UNCHANGED <<counts, tracker, mode, proc, snap>>

\* _publish_publisher_state("failed") in the worker; a rejection is swallowed.
ReportFailure ==
  /\ worker = "failing"
  /\ IF Monotonic(receipt)
       THEN tracker' = receipt /\ mode' = "failed"
       ELSE UNCHANGED <<tracker, mode>>
  /\ receipt' = None
  /\ worker' = "done"
  /\ UNCHANGED <<counts, stop, error, proc, snap>>

WorkerStops ==
  /\ worker = "sending" /\ stop
  /\ worker' = "done"
  /\ UNCHANGED <<counts, stop, tracker, mode, receipt, error, proc, snap>>

-----------------------------------------------------------------------------
\* The processing thread.

\* submit() overwrites a base that was not adopted.
Overwrite ==
  /\ proc = "running" /\ ~stop /\ counts.overwrites < MaxCount
  /\ counts' = [counts EXCEPT !.overwrites = @ + 1]
  /\ UNCHANGED <<stop, tracker, mode, worker, receipt, error, proc, snap>>

RequestStop ==
  /\ proc = "running"
  /\ stop' = TRUE
  /\ proc' = "stopping"
  /\ UNCHANGED <<counts, tracker, mode, worker, receipt, error, snap>>

\* publisher.snapshot() and tracker.snapshot(), before the report...
TakeSnapshot ==
  /\ \/ proc = "stopping" /\ proc' = "reporting"
     \/ proc = "terminal" /\ proc' = "reportingTerminal"
  /\ snap' = counts
  /\ UNCHANGED <<counts, stop, tracker, mode, worker, receipt, error>>

\* ..., which is logged and dropped when it is rejected.
Report ==
  /\ \/ proc = "reporting" /\ proc' = "closing"
     \/ proc = "reportingTerminal" /\ proc' = "done"
  /\ IF Monotonic(snap)
       THEN /\ tracker' = snap
            /\ mode' = IF proc = "reportingTerminal" /\ error THEN "failed" ELSE "stopped"
       ELSE UNCHANGED <<tracker, mode>>
  /\ snap' = None
  /\ UNCHANGED <<counts, stop, worker, receipt, error>>

\* Mutant: the terminal report does not wait for the worker.
CloseWithoutJoin ==
  /\ proc = "closing"
  /\ proc' = "terminal"
  /\ UNCHANGED <<counts, stop, tracker, mode, worker, receipt, error, snap>>

\* publisher.close(), and wait_terminated as long as the worker lives.
Close ==
  /\ proc = "closing" /\ worker = "done"
  /\ proc' = "terminal"
  /\ UNCHANGED <<counts, stop, tracker, mode, worker, receipt, error, snap>>

\* The thread has ended, or is inside a call that has not returned.
Over == proc # "running" /\ UNCHANGED vars

Next ==
  \/ SinkAccepts \/ Deliver \/ DeliverRaises \/ ReportFailure \/ WorkerStops
  \/ Overwrite \/ RequestStop \/ TakeSnapshot \/ Report \/ Close
  \/ Over

Spec == Init /\ [][Next]_vars

-----------------------------------------------------------------------------
\* Properties.

\* What the tracker shows at the end are the publisher's final counters and a
\* terminal state, whatever reports crossed each other on the way. ("failed" is one:
\* a report that the tracker rejects fails the run, and the end is still exact.)
FinalReportExact == proc = "done" => tracker = counts /\ mode \in {"stopped", "failed"}
=============================================================================
