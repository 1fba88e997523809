--------------------------- MODULE CaptureWorker ---------------------------
(* OpenCVCapture in capture.py: a controller thread that owns the camera    *)
(* device and its recovery, one reader thread per opened device             *)
(* (generation), the pipeline's non-blocking read(), and close().           *)
(*                                                                          *)
(* Native calls (open, VideoCapture.read, release) may fail or never        *)
(* return.  Time is a set of flags: frameOld, outageOld, generationOld and  *)
(* reopenAt = "due" say that the deadline counted from the last frame, the  *)
(* outage, the start of the generation or the back-off has passed.          *)
(* Left out: the frames themselves (publishing one ends a recovery, which   *)
(* is all that matters here), the measured rate and the negotiated mode     *)
(* (their errors are FrameRejected), the counters and the timing ring.      *)
EXTENDS Naturals

CONSTANTS
  MaxGenerations     \* bound: devices opened

ASSUME CaptureAssumption == MaxGenerations \in Nat

VARIABLES
  closing,           \* _closed
  fatal,             \* _fatal_error: "none" or what failed
  controllerStop,    \* _controller_stop
  generation,        \* _generation; 0 before the first device
  owned,             \* the generation whose device and reader are referenced, or 0
  readerStop,        \* generations whose stop event is set
  readerAt,          \* [generation -> step of its reader thread]
  device,            \* [generation -> "none", "open" or "released"]
  generationHasFrame, recovering,
  reopenAt,          \* _next_reopen_at: "none", "later" or "due"
  frameOld, outageOld, generationOld,
  controllerAt,      \* the controller's step, those of _stop_current_worker included
  stopFor,           \* what _stop_current_worker was called for
  consumerAt, closerAt

timeVars == <<frameOld, outageOld, generationOld>>
readerVars_ == <<readerStop, readerAt, device>>
captureVars == <<closing, fatal, controllerStop, generation, owned, readerVars_,
  generationHasFrame, recovering, reopenAt, timeVars,
  controllerAt, stopFor, consumerAt, closerAt>>

Generations == 1..MaxGenerations
Ended == closing \/ fatal # "none"
Alive(g) == g \in Generations /\ readerAt[g] # "dead"

InitCapture ==
  /\ closing = FALSE /\ fatal = "none" /\ controllerStop = FALSE
  /\ generation = 0 /\ owned = 0 /\ readerStop = {}
  /\ readerAt = [g \in Generations |-> "dead"] /\ device = [g \in Generations |-> "none"]
  /\ generationHasFrame = FALSE /\ recovering = TRUE /\ reopenAt = "due"
  /\ frameOld = FALSE /\ outageOld = FALSE /\ generationOld = FALSE
  /\ controllerAt = "unborn" /\ stopFor = "exit" /\ consumerAt = "idle" /\ closerAt = "idle"

\* _set_fatal: the first error stays, the recovery is over, the controller wakes.
SetFatal(kind) ==
  /\ fatal' = IF fatal = "none" THEN kind ELSE fatal
  /\ recovering' = FALSE /\ controllerStop' = TRUE

NoFatal == UNCHANGED <<fatal, recovering, controllerStop>>

-----------------------------------------------------------------------------
(* Time.                                                                    *)

timeKeeps == <<closing, fatal, controllerStop, generation, owned, readerVars_,
  generationHasFrame, recovering, controllerAt, stopFor, consumerAt, closerAt>>

FrameStalls ==
  /\ controllerAt # "unborn" /\ ~frameOld /\ frameOld' = TRUE
  /\ UNCHANGED <<timeKeeps, outageOld, generationOld, reopenAt>>

OutageDeadline ==
  /\ controllerAt # "unborn" /\ recovering /\ ~outageOld /\ outageOld' = TRUE
  /\ UNCHANGED <<timeKeeps, frameOld, generationOld, reopenAt>>

GenerationStalls ==
  /\ owned # 0 /\ ~generationOld /\ generationOld' = TRUE
  /\ UNCHANGED <<timeKeeps, frameOld, outageOld, reopenAt>>

BackoffPasses ==
  /\ reopenAt = "later" /\ reopenAt' = "due"
  /\ UNCHANGED <<timeKeeps, timeVars>>

-----------------------------------------------------------------------------
(* One reader thread: _reader_loop.                                         *)

readerKeeps == <<closing, generation, owned, readerStop, device, outageOld, generationOld,
                 controllerAt, stopFor, consumerAt, closerAt>>
Unpublished == UNCHANGED <<generationHasFrame, reopenAt, frameOld>>

ReaderGoes(g, step) == readerAt' = [readerAt EXCEPT ![g] = step]

\* The top of the loop, then cap.read().
CallRead(g) ==
  /\ readerAt[g] = "loop"
  /\ ReaderGoes(g, IF g \in readerStop THEN "dead" ELSE "calling")
  /\ NoFatal /\ Unpublished /\ UNCHANGED readerKeeps

\* cap.read() raised: the reader ends and leaves the rest to the controller.
ReadRaises(g) ==
  /\ readerAt[g] = "calling" /\ ReaderGoes(g, "dead")
  /\ NoFatal /\ Unpublished /\ UNCHANGED readerKeeps

\* cap.read() gave no frame: count it and try again, unless stopped or replaced.
ReadFails(g) ==
  /\ readerAt[g] = "calling"
  /\ ReaderGoes(g, IF g \in readerStop \/ g # generation \/ closing THEN "dead" ELSE "loop")
  /\ NoFatal /\ Unpublished /\ UNCHANGED readerKeeps

\* cap.read() gave a frame.
ReadReturns(g) ==
  /\ readerAt[g] = "calling"
  /\ ReaderGoes(g, IF g \in readerStop THEN "dead" ELSE "frame")
  /\ NoFatal /\ Unpublished /\ UNCHANGED readerKeeps

\* Validation, mode negotiation or conversion failed for good; or a V4L2
\* negotiation wants one clean reopen.
FrameRejected(g) ==
  /\ readerAt[g] = "frame" /\ ReaderGoes(g, "dead")
  /\ NoFatal \/ SetFatal("mode")
  /\ Unpublished /\ UNCHANGED readerKeeps

\* Publish under the lock, and with it end the recovery; a frame of an older
\* generation or of a closed source is dropped.
PublishFrame(g) ==
  /\ readerAt[g] = "frame"
  /\ IF g # generation \/ closing
       THEN ReaderGoes(g, "dead") /\ NoFatal /\ Unpublished
       ELSE /\ generationHasFrame' = TRUE /\ frameOld' = FALSE
            /\ recovering' = FALSE /\ reopenAt' = IF recovering THEN "none" ELSE reopenAt
            /\ ReaderGoes(g, "loop") /\ UNCHANGED <<fatal, controllerStop>>
  /\ UNCHANGED readerKeeps

Reader_(g) ==
  CallRead(g) \/ ReadRaises(g) \/ ReadFails(g) \/ ReadReturns(g) \/ FrameRejected(g)
  \/ PublishFrame(g)

-----------------------------------------------------------------------------
(* The controller thread: _controller_loop and _controller_step.            *)

controllerKeeps == <<closing, frameOld, consumerAt, closerAt>>
Goes(step) == controllerAt' = step /\ UNCHANGED stopFor
StopsWorkerFor(reason) == controllerAt' = "stop" /\ stopFor' = reason
SameDevice == UNCHANGED <<generation, owned, readerVars_, generationHasFrame, generationOld>>

\* OpenCVCapture.__init__ starts the thread; the first device is due at once.
StartController ==
  /\ controllerAt = "unborn" /\ Goes("loop")
  /\ NoFatal /\ SameDevice /\ UNCHANGED <<controllerKeeps, reopenAt, outageOld>>

\* The outage that _expire_recovery judges over.
OutageExpired == ~Ended /\ recovering /\ outageOld

\* The top of the loop and the first check of a step.
ControllerLoop ==
  /\ controllerAt = "loop"
  /\ IF controllerStop THEN StopsWorkerFor("exit")
     ELSE ~Ended /\ Goes(IF OutageExpired THEN "expired" ELSE "decide")
  /\ NoFatal /\ SameDevice /\ UNCHANGED <<controllerKeeps, reopenAt, outageOld>>

\* _expire_recovery declares the outage after it has let the lock go.
ControllerExpires ==
  /\ controllerAt = "expired" /\ Goes("loop") /\ SetFatal("outage")
  /\ SameDevice /\ UNCHANGED <<controllerKeeps, reopenAt, outageOld>>

\* Mutant: nobody watches a generation that has delivered its first frame.
DecideUnwatched ==
  /\ controllerAt = "decide"
  /\ CASE Ended \/ ~recovering -> Goes("loop")
       [] ~Ended /\ recovering /\ Alive(owned) ->
            IF ~generationHasFrame /\ generationOld THEN StopsWorkerFor("schedule")
            ELSE Goes("loop")
       [] OTHER -> IF owned # 0 THEN StopsWorkerFor("reopen") ELSE Goes("reopen")
  /\ NoFatal /\ SameDevice /\ UNCHANGED <<controllerKeeps, reopenAt, outageOld>>

\* What the step has to do, judged from one look at the state.
Decide ==
  /\ controllerAt = "decide"
  /\ CASE Ended -> Goes("loop")
       [] ~Ended /\ ~recovering -> Goes(IF frameOld THEN "recover" ELSE "loop")
       [] ~Ended /\ recovering /\ Alive(owned) ->
            IF ~generationHasFrame /\ generationOld THEN StopsWorkerFor("schedule")
            ELSE Goes("loop")
       [] OTHER -> IF owned # 0 THEN StopsWorkerFor("reopen") ELSE Goes("reopen")
  /\ NoFatal /\ SameDevice /\ UNCHANGED <<controllerKeeps, reopenAt, outageOld>>

\* _begin_recovery.
BeginRecovery ==
  /\ controllerAt = "recover"
  /\ IF recovering \/ closing
       THEN Goes("loop") /\ UNCHANGED <<recovering, outageOld>>
       ELSE StopsWorkerFor("schedule") /\ recovering' = TRUE /\ outageOld' = FALSE
  /\ SameDevice /\ UNCHANGED <<controllerKeeps, reopenAt, fatal, controllerStop>>

\* The back-off before the next attempt.
Schedule ==
  /\ controllerAt = "schedule" /\ Goes("loop") /\ reopenAt' = "later"
  /\ NoFatal /\ SameDevice /\ UNCHANGED <<controllerKeeps, outageOld>>

\* Is the next attempt due?  A missing back-off is started here.
Reopen ==
  /\ controllerAt = "reopen"
  /\ IF ~Ended /\ reopenAt = "due" THEN Goes("open") /\ reopenAt' = "none"
     ELSE Goes("loop") /\ reopenAt' = IF ~Ended /\ reopenAt = "none" THEN "later" ELSE reopenAt
  /\ NoFatal /\ SameDevice /\ UNCHANGED <<controllerKeeps, outageOld>>

\* _open_configured_capture returned a configured device.
DeviceOpened ==
  /\ controllerAt = "open" /\ generation < MaxGenerations
  /\ device' = [device EXCEPT ![generation + 1] = "open"]
  /\ Goes("install")
  /\ NoFatal
  /\ UNCHANGED <<controllerKeeps, generation, owned, readerStop, readerAt,
                 generationHasFrame, generationOld, reopenAt, outageOld>>

\* It failed: for good when the mode was refused, else after another back-off.
OpenFails ==
  /\ controllerAt = "open" /\ Goes("loop")
  /\ \/ SetFatal("mode") /\ UNCHANGED reopenAt
     \/ NoFatal /\ reopenAt' = IF Ended THEN reopenAt ELSE "later"
  /\ SameDevice /\ UNCHANGED <<controllerKeeps, outageOld>>

\* Mutant: a device is installed although the source has ended.
InstallAnyway ==
  /\ controllerAt = "install" /\ Goes("loop")
  /\ LET g == generation + 1 IN
       /\ generation' = g /\ owned' = IF Ended THEN 0 ELSE g
       /\ ReaderGoes(g, IF Ended THEN "dead" ELSE "loop")
  /\ generationHasFrame' = FALSE /\ generationOld' = FALSE /\ reopenAt' = "none"
  /\ UNCHANGED <<readerStop, device>>
  /\ NoFatal /\ UNCHANGED <<controllerKeeps, outageOld>>

\* _start_generation under the lock: a source that ended while the device was
\* being opened gives it back.
StartGeneration ==
  /\ controllerAt = "install" /\ Goes("loop")
  /\ LET g == generation + 1 IN
     IF Ended
       THEN /\ device' = [device EXCEPT ![g] = "released"]
            /\ UNCHANGED <<generation, owned, readerStop, readerAt, generationHasFrame,
                           generationOld, reopenAt>>
       ELSE /\ generation' = g /\ owned' = g /\ ReaderGoes(g, "loop")
            /\ generationHasFrame' = FALSE /\ generationOld' = FALSE /\ reopenAt' = "none"
            /\ UNCHANGED <<readerStop, device>>
  /\ NoFatal /\ UNCHANGED <<controllerKeeps, outageOld>>

\* _stop_current_worker: the stop event, then cap.release(), which may not return.
StopReader ==
  /\ controllerAt = "stop"
  /\ readerStop' = readerStop \cup ({owned} \ {0}) /\ Goes("release")
  /\ NoFatal
  /\ UNCHANGED <<controllerKeeps, generation, owned, readerAt, device, generationHasFrame,
                 generationOld, reopenAt, outageOld>>

ReleaseDevice ==
  /\ controllerAt = "release"
  /\ device' = [g \in Generations |-> IF g = owned THEN "released" ELSE device[g]]
  /\ Goes("join")
  /\ NoFatal
  /\ UNCHANGED <<controllerKeeps, generation, owned, readerStop, readerAt,
                 generationHasFrame, generationOld, reopenAt, outageOld>>

Stopped == CASE stopFor = "exit" -> "exited" [] stopFor = "close" -> "closed" [] OTHER -> stopFor

\* Mutant: the join's outcome is not looked at.
ForgetReader ==
  /\ controllerAt = "join"
  /\ NoFatal /\ owned' = 0 /\ Goes(Stopped)
  /\ UNCHANGED <<controllerKeeps, generation, readerVars_, generationHasFrame,
                 generationOld, reopenAt, outageOld>>

\* The join: a reader that has ended is forgotten; one that is still blocked
\* after a second is fatal, and the device stays referenced.
JoinReader ==
  /\ controllerAt = "join"
  /\ IF Alive(owned)
       THEN /\ SetFatal("reader") /\ UNCHANGED owned
            /\ Goes(CASE stopFor = "exit" -> "exited" [] stopFor = "close" -> "stuck"
                      [] OTHER -> "loop")
       ELSE NoFatal /\ owned' = 0 /\ Goes(Stopped)
  /\ UNCHANGED <<controllerKeeps, generation, readerVars_, generationHasFrame,
                 generationOld, reopenAt, outageOld>>

\* The steps that depend on no native call.
ControllerOwn ==
  ControllerLoop \/ ControllerExpires \/ Decide \/ BeginRecovery \/ Schedule \/ Reopen
  \/ StartGeneration \/ StopReader \/ JoinReader

-----------------------------------------------------------------------------
(* The pipeline: read() and close().                                        *)

callersKeep == <<generation, owned, readerVars_, generationHasFrame, reopenAt, timeVars, stopFor>>

\* Mutant: read() leaves the deadline to the controller.
ReadOnly ==
  /\ consumerAt = "idle" /\ controllerAt # "unborn" /\ closerAt = "idle"
  /\ consumerAt' = "take"
  /\ NoFatal /\ UNCHANGED <<callersKeep, closing, controllerAt, closerAt>>

\* read(): the deadline first, so that a controller stuck in native code
\* cannot hold it up.
ReadChecksOutage ==
  /\ consumerAt = "idle" /\ controllerAt # "unborn" /\ closerAt = "idle"
  /\ consumerAt' = IF OutageExpired THEN "expired" ELSE "take"
  /\ NoFatal /\ UNCHANGED <<callersKeep, closing, controllerAt, closerAt>>

ReadExpires ==
  /\ consumerAt = "expired" /\ consumerAt' = "take" /\ SetFatal("outage")
  /\ UNCHANGED <<callersKeep, closing, controllerAt, closerAt>>

ReadTakes ==
  /\ consumerAt = "take" /\ consumerAt' = "idle"
  /\ NoFatal /\ UNCHANGED <<callersKeep, closing, controllerAt, closerAt>>

\* close(): no more frames, then wake the controller.
Close ==
  /\ closerAt = "idle" /\ controllerAt # "unborn" /\ consumerAt = "idle"
  /\ closing' = TRUE /\ closerAt' = "signal"
  /\ NoFatal /\ UNCHANGED <<callersKeep, controllerAt, consumerAt>>

CloseSignals ==
  /\ closerAt = "signal" /\ controllerStop' = TRUE /\ closerAt' = "join"
  /\ UNCHANGED <<callersKeep, closing, fatal, recovering, controllerAt, consumerAt>>

\* The bounded join of the controller: blocked is an error; ended, close()
\* runs _stop_current_worker once more, and raises if the reader is still there.
CloseTimesOut ==
  /\ closerAt = "join" /\ controllerAt \notin {"exited", "closed", "stuck"}
  /\ SetFatal("controller") /\ closerAt' = "raised"
  /\ UNCHANGED <<callersKeep, closing, controllerAt, consumerAt>>

CloseStopsWorker ==
  /\ closerAt = "join" /\ controllerAt = "exited"
  /\ controllerAt' = "stop" /\ stopFor' = "close" /\ closerAt' = "stopping"
  /\ NoFatal
  /\ UNCHANGED <<generation, owned, readerVars_, generationHasFrame, reopenAt, timeVars,
                 closing, consumerAt>>

CloseReturns ==
  /\ closerAt = "stopping" /\ controllerAt \in {"closed", "stuck"}
  /\ closerAt' = IF controllerAt = "closed" THEN "done" ELSE "raised"
  /\ NoFatal /\ UNCHANGED <<callersKeep, closing, controllerAt, consumerAt>>

Consumer == ReadChecksOutage \/ ReadExpires \/ ReadTakes
Closer == Close \/ CloseSignals \/ CloseTimesOut \/ CloseStopsWorker \/ CloseReturns

NextCapture ==
  \/ FrameStalls \/ OutageDeadline \/ GenerationStalls \/ BackoffPasses
  \/ StartController \/ ControllerOwn
  \/ DeviceOpened \/ OpenFails \/ ReleaseDevice
  \/ Consumer \/ Closer
  \/ \E g \in Generations : Reader_(g)

\* Deadlines pass, the pipeline keeps reading, and the controller keeps taking
\* the steps that are its own.  Nothing is assumed of a native call or a reader.
CaptureFairness ==
  /\ WF_captureVars(FrameStalls) /\ WF_captureVars(OutageDeadline)
  /\ WF_captureVars(GenerationStalls) /\ WF_captureVars(BackoffPasses)
  /\ WF_captureVars(Consumer) /\ WF_captureVars(ControllerOwn)

SpecCapture == InitCapture /\ [][NextCapture]_captureVars
FairCapture == SpecCapture /\ CaptureFairness

-----------------------------------------------------------------------------
CaptureTypes ==
  /\ closing \in BOOLEAN /\ controllerStop \in BOOLEAN
  /\ fatal \in {"none", "mode", "outage", "reader", "controller"}
  /\ generation \in 0..MaxGenerations /\ owned \in 0..MaxGenerations
  /\ readerStop \subseteq Generations
  /\ readerAt \in [Generations -> {"dead", "loop", "calling", "frame"}]
  /\ device \in [Generations -> {"none", "open", "released"}]
  /\ generationHasFrame \in BOOLEAN /\ recovering \in BOOLEAN
  /\ reopenAt \in {"none", "later", "due"}
  /\ frameOld \in BOOLEAN /\ outageOld \in BOOLEAN /\ generationOld \in BOOLEAN
  /\ controllerAt \in {"unborn", "loop", "expired", "decide", "recover", "schedule", "reopen",
       "open", "install", "stop", "release", "join", "exited", "closed", "stuck"}
  /\ stopFor \in {"schedule", "reopen", "exit", "close"}
  /\ consumerAt \in {"idle", "expired", "take"}
  /\ closerAt \in {"idle", "signal", "join", "stopping", "done", "raised"}

\* "A stalled reader is released and joined before any replacement is created,
\* ensuring that two readers never access the device concurrently": while a
\* reader lives, no other device is open and no other reader lives.
OneReader ==
  \A g, h \in Generations : Alive(g) /\ (Alive(h) \/ device[h] = "open") => g = h

\* A controller that has ended leaves no device open, whatever was being
\* opened when the source was closed or failed; and a close() that returns
\* without an error leaves no reader behind.
DevicesReturned ==
  /\ controllerAt \in {"exited", "closed", "stuck"} => \A g \in Generations : device[g] # "open"
  /\ closerAt = "done" => \A g \in Generations : ~Alive(g)

\* An outage ends, by a frame, by an error or by close(), even when every
\* native call blocks for ever.
OutageEnds == recovering /\ controllerAt # "unborn" ~> ~recovering \/ Ended

LostReader == controllerAt # "unborn" /\ ~Alive(owned)

\* A source that has lost its reader gets another one, unless it fails or is
\* closed: no exit of a reader is left unnoticed, as long as a device that is
\* released lets go.
ReaderReplaced ==
  WF_captureVars(ReleaseDevice) => (LostReader ~> Alive(owned) \/ Ended)

\* The promise made at read(): it "lets the pipeline fail at the configured
\* outage boundary even while the controller is stuck in native code".  A
\* late frame of the reader being stopped ends the recovery and with it the
\* deadline; if the release then never returns, nothing ends the outage.
FailsAtBoundary == LostReader ~> Alive(owned) \/ Ended
=============================================================================
