----------------------------- MODULE MCServices ----------------------------
(* Four helpers at the edges of the program, each with threads of its own:  *)
(* the camera (CaptureWorker), the delivery of frames to viewers            *)
(* (StreamDelivery), the end of their streams (StreamShutdown) and the      *)
(* thread that retries discards (CleanupQueue).  They share no variable, so *)
(* a behaviour is one of a single part; `part` says which, the others stay  *)
(* where they start.                                                        *)
EXTENDS CaptureWorker, StreamDelivery, StreamShutdown, CleanupQueue

VARIABLE part

MCInit ==
  /\ part \in {"camera", "delivery", "shutdown", "cleanup"}
  /\ InitCapture /\ InitStream /\ InitLifecycle /\ InitCleanup

MCNext ==
  \/ /\ part = "camera" /\ NextCapture
     /\ UNCHANGED <<part, streamVars, lifecycleVars, cleanupVars>>
  \/ /\ part = "delivery" /\ NextStream
     /\ UNCHANGED <<part, captureVars, lifecycleVars, cleanupVars>>
  \/ /\ part = "shutdown" /\ NextLifecycle
     /\ UNCHANGED <<part, captureVars, streamVars, cleanupVars>>
  \/ /\ part = "cleanup" /\ NextCleanup
     /\ UNCHANGED <<part, captureVars, streamVars, lifecycleVars>>

MCSpec ==
  /\ MCInit /\ [][MCNext]_<<part, captureVars, streamVars, lifecycleVars, cleanupVars>>
  /\ CaptureFairness /\ StreamFairness /\ CleanupFairness
=============================================================================
