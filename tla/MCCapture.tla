----------------------------- MODULE MCCapture -----------------------------
(* An instance of CaptureWorker for TLC; its bounds are in the cfg.         *)
EXTENDS CaptureWorker
=============================================================================
