------------------------------ MODULE MCCamera -----------------------------
(* What a consumer of the virtual camera receives, in two parts that share  *)
(* no variable: the publisher's worker (OutputPublisher) and the ring its   *)
(* native sink writes (FrameRing).  A behaviour is one of a single part;    *)
(* `part` says which, the other stays where it starts.                      *)
EXTENDS MCOutputPublisher, FrameRing

VARIABLE part

MCInit ==
  /\ part \in {"publisher", "ring"}
  /\ Init /\ InitRing
  /\ part = "ring" => policy = CHOOSE p \in Policies : TRUE

MCNext ==
  \/ part = "publisher" /\ Next /\ UNCHANGED <<part, ringVars>>
  \/ part = "ring" /\ NextRing /\ UNCHANGED <<part, vars>>

MCSpec == MCInit /\ [][MCNext]_<<part, vars, ringVars>>
=============================================================================
