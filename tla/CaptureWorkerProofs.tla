------------------------ MODULE CaptureWorkerProofs -------------------------
(***************************************************************************)
(* Proofs about the camera's threads for every number of opened devices.   *)
(*                                                                         *)
(* Neither property is inductive: that two readers never share the device  *)
(* follows from who may be alive (OnlyOwnedReads), from the device being   *)
(* open only while it is referenced or about to be (OpenIsReferenced), and *)
(* from the controller referencing none while it opens the next one        *)
(* (OpensAlone).                                                           *)
(***************************************************************************)
EXTENDS CaptureWorker, TLAPS

CaptureNumbers ==
  /\ generation \in 0..MaxGenerations /\ owned \in 0..MaxGenerations
  /\ readerAt = [g \in Generations |-> readerAt[g]]
  /\ device = [g \in Generations |-> device[g]]
  /\ stopFor \in {"schedule", "reopen", "exit", "close"}

OnlyOwnedReads == \A g \in Generations : readerAt[g] # "dead" => g = owned

OpenIsReferenced ==
  \A g \in Generations :
    device[g] = "open" => g = owned \/ (controllerAt = "install" /\ g = generation + 1)

OpensAlone ==
  /\ controllerAt \in {"reopen", "open", "install", "closed"} => owned = 0
  /\ controllerAt = "install" => generation < MaxGenerations

Released ==
  /\ controllerAt \in {"join", "exited", "closed", "stuck"} =>
       \A g \in Generations : device[g] # "open"
  /\ closerAt = "done" => controllerAt = "closed"

CaptureInv == CaptureNumbers /\ OnlyOwnedReads /\ OpenIsReferenced /\ OpensAlone /\ Released

LEMMA InitCaptureInv == InitCapture => CaptureInv
  BY CaptureAssumption DEF InitCapture, CaptureInv, CaptureNumbers, OnlyOwnedReads,
     OpenIsReferenced, OpensAlone, Released, Generations

-----------------------------------------------------------------------------
(* Steps that leave the devices and their readers alone.                   *)

\* Only the step of the controller or of close() changes; where they may go
\* without touching a device.
LEMMA DevicesKept ==
  ASSUME CaptureInv, UNCHANGED <<generation, owned, readerAt, device>>,
         controllerAt' \in {"reopen", "open", "install", "closed"} =>
           owned = 0 /\ (controllerAt' = "install" => controllerAt = "install"),
         controllerAt' \in {"join", "exited", "closed", "stuck"} =>
           controllerAt \in {"join", "exited", "closed", "stuck"},
         controllerAt = "install" => controllerAt' = "install",
         closerAt' = "done" => controllerAt' = "closed",
         stopFor' \in {"schedule", "reopen", "exit", "close"}
  PROVE  CaptureInv'
  BY DEF CaptureInv, CaptureNumbers, OnlyOwnedReads, OpenIsReferenced, OpensAlone, Released

LEMMA TimeKeeps ==
  CaptureInv /\ (FrameStalls \/ OutageDeadline \/ GenerationStalls \/ BackoffPasses) => CaptureInv'
  BY DEF FrameStalls, OutageDeadline, GenerationStalls, BackoffPasses, timeKeeps, readerVars_,
         CaptureInv, CaptureNumbers, OnlyOwnedReads, OpenIsReferenced, OpensAlone, Released

LEMMA CallersKeep == CaptureInv /\ (Consumer \/ Closer) => CaptureInv'
  <1> SUFFICES ASSUME CaptureInv, Consumer \/ Closer PROVE CaptureInv'
    OBVIOUS
  <1>1. UNCHANGED <<generation, owned, readerAt, device>>
    BY DEF Consumer, Closer, ReadChecksOutage, ReadExpires, ReadTakes, Close, CloseSignals,
           CloseTimesOut, CloseStopsWorker, CloseReturns, callersKeep, readerVars_
  <1>2. /\ controllerAt' = controllerAt \/ (controllerAt = "exited" /\ controllerAt' = "stop"
                                             /\ closerAt = "join")
        /\ closerAt' = closerAt \/ closerAt = "stopping" \/ closerAt' # "done"
        /\ closerAt' = "done" /\ closerAt = "stopping" => controllerAt' = "closed"
    BY DEF Consumer, Closer, ReadChecksOutage, ReadExpires, ReadTakes, Close, CloseSignals,
           CloseTimesOut, CloseStopsWorker, CloseReturns, callersKeep
  <1>3. closerAt' = "done" => controllerAt' = "closed"
    BY <1>2 DEF CaptureInv, Released
  <1>4. stopFor' \in {"schedule", "reopen", "exit", "close"}
    BY DEF Consumer, Closer, ReadChecksOutage, ReadExpires, ReadTakes, Close, CloseSignals,
           CloseTimesOut, CloseStopsWorker, CloseReturns, callersKeep, CaptureInv, CaptureNumbers
  <1> QED
    BY <1>1, <1>2, <1>3, <1>4, DevicesKept DEF CaptureInv, OpensAlone

\* The controller's steps that judge and wait.
LEMMA JudgesKeep ==
  CaptureInv /\ (StartController \/ ControllerLoop \/ ControllerExpires \/ Decide
                  \/ BeginRecovery \/ Schedule \/ Reopen \/ OpenFails) => CaptureInv'
  <1> SUFFICES ASSUME CaptureInv,
                      StartController \/ ControllerLoop \/ ControllerExpires \/ Decide
                      \/ BeginRecovery \/ Schedule \/ Reopen \/ OpenFails
               PROVE  CaptureInv'
    OBVIOUS
  <1>1. UNCHANGED <<generation, owned, readerAt, device, closerAt>>
    BY DEF StartController, ControllerLoop, ControllerExpires, Decide, BeginRecovery, Schedule,
           Reopen, OpenFails, SameDevice, readerVars_, controllerKeeps
  <1>2. /\ controllerAt \notin {"join", "exited", "closed", "stuck", "install"}
        /\ controllerAt' \notin {"install", "join", "exited", "closed", "stuck"}
        /\ controllerAt' \in {"reopen", "open"} => owned = 0
    BY DEF StartController, ControllerLoop, ControllerExpires, Decide, BeginRecovery, Schedule,
           Reopen, OpenFails, Goes, StopsWorkerFor, CaptureInv, OpensAlone
  <1>3. stopFor' \in {"schedule", "reopen", "exit", "close"}
    BY DEF StartController, ControllerLoop, ControllerExpires, Decide, BeginRecovery, Schedule,
           Reopen, OpenFails, Goes, StopsWorkerFor, CaptureInv, CaptureNumbers
  <1> QED
    BY <1>1, <1>2, <1>3, DevicesKept DEF CaptureInv, Released

\* A reader's steps concern one that is alive, and so the referenced one.
LEMMA ReaderKeeps == \A g \in Generations : CaptureInv /\ Reader_(g) => CaptureInv'
  <1> SUFFICES ASSUME NEW g \in Generations, CaptureInv, Reader_(g) PROVE CaptureInv'
    OBVIOUS
  <1>1. PICK step : ReaderGoes(g, step)
    BY DEF Reader_, CallRead, ReadRaises, ReadFails, ReadReturns, FrameRejected, PublishFrame
  <1>2. readerAt[g] # "dead" /\ UNCHANGED readerKeeps
    BY DEF Reader_, CallRead, ReadRaises, ReadFails, ReadReturns, FrameRejected, PublishFrame
  <1> QED
    BY <1>1, <1>2 DEF ReaderGoes, readerKeeps, CaptureInv, CaptureNumbers, OnlyOwnedReads,
                      OpenIsReferenced, OpensAlone, Released

-----------------------------------------------------------------------------
(* Steps that open, install, stop and return a device.                     *)

LEMMA DeviceOpenedKeeps == CaptureInv /\ DeviceOpened => CaptureInv'
  BY DEF DeviceOpened, Goes, controllerKeeps, CaptureInv, CaptureNumbers, OnlyOwnedReads,
         OpenIsReferenced, OpensAlone, Released, Generations

LEMMA StartGenerationKeeps == CaptureInv /\ StartGeneration => CaptureInv'
  <1> SUFFICES ASSUME CaptureInv, StartGeneration PROVE CaptureInv'
    OBVIOUS
  <1>1. owned = 0 /\ controllerAt = "install" /\ generation + 1 \in Generations
    BY CaptureAssumption DEF StartGeneration, CaptureInv, OpensAlone, CaptureNumbers, Generations
  <1>2. CASE Ended
    BY <1>1, <1>2 DEF StartGeneration, Goes, controllerKeeps, CaptureInv, CaptureNumbers,
                      OnlyOwnedReads, OpenIsReferenced, OpensAlone, Released, Generations
  <1>3. CASE ~Ended
    <2>1. /\ generation' = generation + 1 /\ owned' = generation + 1 /\ device' = device
          /\ readerAt' = [readerAt EXCEPT ![generation + 1] = "loop"]
          /\ controllerAt' = "loop" /\ stopFor' = stopFor /\ closerAt' = closerAt
      BY <1>3 DEF StartGeneration, Goes, ReaderGoes, controllerKeeps
    <2>2. CaptureNumbers'
      <3>1. /\ readerAt' = [g \in Generations |-> readerAt'[g]]
            /\ device' = [g \in Generations |-> device'[g]]
        BY <2>1 DEF CaptureInv, CaptureNumbers
      <3>2. generation + 1 \in 0..MaxGenerations
        BY <1>1, CaptureAssumption DEF Generations
      <3> QED
        BY <2>1, <3>1, <3>2 DEF CaptureInv, CaptureNumbers
    <2>3. OnlyOwnedReads'
      <3> SUFFICES ASSUME NEW g \in Generations, g # generation + 1
                   PROVE  readerAt'[g] = "dead"
        BY <2>1 DEF OnlyOwnedReads
      <3>1. readerAt'[g] = readerAt[g]
        BY <2>1 DEF CaptureInv, CaptureNumbers
      <3> QED
        BY <1>1, <3>1 DEF CaptureInv, OnlyOwnedReads, Generations
    <2>4. OpenIsReferenced' /\ OpensAlone' /\ Released'
      BY <1>1, <2>1 DEF CaptureInv, OpenIsReferenced, OpensAlone, Released, Generations
    <2> QED
      BY <2>2, <2>3, <2>4 DEF CaptureInv
  <1> QED
    BY <1>2, <1>3

LEMMA StopReaderKeeps == CaptureInv /\ StopReader => CaptureInv'
  <1> SUFFICES ASSUME CaptureInv, StopReader PROVE CaptureInv'
    OBVIOUS
  <1> QED
    BY DevicesKept DEF StopReader, Goes, controllerKeeps, CaptureInv, CaptureNumbers, Released

LEMMA ReleaseDeviceKeeps == CaptureInv /\ ReleaseDevice => CaptureInv'
  BY DEF ReleaseDevice, Goes, controllerKeeps, CaptureInv, CaptureNumbers, OnlyOwnedReads,
         OpenIsReferenced, OpensAlone, Released

\* Only a reader that has ended is forgotten, after its device was returned.
LEMMA JoinReaderKeeps == CaptureInv /\ JoinReader => CaptureInv'
  <1> SUFFICES ASSUME CaptureInv, JoinReader PROVE CaptureInv'
    OBVIOUS
  <1>1. /\ controllerAt = "join" /\ \A g \in Generations : device[g] # "open"
        /\ UNCHANGED <<generation, readerAt, device, closerAt>>
    BY DEF JoinReader, readerVars_, controllerKeeps, CaptureInv, Released
  <1>2. CASE Alive(owned)
    <2>1. owned' = owned /\ controllerAt' \in {"exited", "stuck", "loop"}
          /\ stopFor' = stopFor
      BY <1>2 DEF JoinReader, Goes
    <2> QED
      BY <1>1, <2>1 DEF CaptureInv, CaptureNumbers, OnlyOwnedReads, OpenIsReferenced,
                        OpensAlone, Released
  <1>3. CASE ~Alive(owned)
    <2>1. owned' = 0 /\ controllerAt' # "install" /\ stopFor' = stopFor
      BY <1>3 DEF JoinReader, Goes, Stopped, CaptureInv, CaptureNumbers
    <2>2. \A g \in Generations : readerAt[g] = "dead"
      BY <1>3 DEF Alive, CaptureInv, OnlyOwnedReads
    <2> QED
      BY <1>1, <2>1, <2>2, CaptureAssumption DEF CaptureInv, CaptureNumbers, OnlyOwnedReads,
                        OpenIsReferenced, OpensAlone, Released
  <1> QED
    BY <1>2, <1>3

LEMMA CaptureInvariant == SpecCapture => []CaptureInv
  <1>1. CaptureInv /\ [NextCapture]_captureVars => CaptureInv'
    <2> SUFFICES ASSUME CaptureInv, [NextCapture]_captureVars PROVE CaptureInv'
      OBVIOUS
    <2>1. CASE UNCHANGED captureVars
      BY <2>1 DEF captureVars, readerVars_, CaptureInv, CaptureNumbers, OnlyOwnedReads,
                  OpenIsReferenced, OpensAlone, Released
    <2>2. CASE NextCapture
      BY <2>2, TimeKeeps, CallersKeep, JudgesKeep, ReaderKeeps, DeviceOpenedKeeps,
         StartGenerationKeeps, StopReaderKeeps, ReleaseDeviceKeeps, JoinReaderKeeps
         DEF NextCapture, ControllerOwn
    <2> QED
      BY <2>1, <2>2
  <1> QED
    BY InitCaptureInv, <1>1, PTL DEF SpecCapture

\* A stalled reader is released and joined before any replacement is created:
\* two readers never access the device (_stop_current_worker, _start_generation).
THEOREM TwoReadersNever == SpecCapture => []OneReader
  <1>1. CaptureInv => OneReader
    BY DEF CaptureInv, CaptureNumbers, OnlyOwnedReads, OpenIsReferenced, OpensAlone, OneReader,
           Alive, Generations
  <1> QED
    BY CaptureInvariant, <1>1, PTL

\* A controller that has ended leaves no device open, and a close() that
\* returns without an error no reader.
THEOREM EveryDeviceReturned == SpecCapture => []DevicesReturned
  <1>1. CaptureInv => DevicesReturned
    BY DEF CaptureInv, OnlyOwnedReads, OpensAlone, Released, DevicesReturned, Alive, Generations
  <1> QED
    BY CaptureInvariant, <1>1, PTL
=============================================================================
