------------------------------- MODULE MCRing ------------------------------
(* An instance of FrameRing for TLC; its bounds are in the cfg.             *)
EXTENDS FrameRing
=============================================================================
