----------------------------- MODULE MCPatches -----------------------------
(* What a change of the configuration sets in motion, in three parts that   *)
(* share no variable: the policy a patch fences (PolicyRollback), the life  *)
(* of its request (PatchRequests) and the files of an upload (UploadStore). *)
(* A behaviour is one of a single part; `part` says which, the others stay  *)
(* where they start.                                                        *)
EXTENDS PolicyRollback, PatchRequests, UploadStore

VARIABLE part

MCInit ==
  /\ part \in {"policy", "request", "upload"}
  /\ Init /\ InitPatches /\ InitUploads
  /\ part # "policy" => mode = "local"    \* one initial state of a part at rest is enough

MCNext ==
  \/ part = "policy" /\ Next /\ UNCHANGED <<part, patchVars, uploadVars>>
  \/ part = "request" /\ NextPatches /\ UNCHANGED <<part, vars, uploadVars>>
  \/ part = "upload" /\ NextUploads /\ UNCHANGED <<part, vars, patchVars>>

MCSpec ==
  /\ MCInit /\ [][MCNext]_<<part, vars, patchVars, uploadVars>>
  /\ PatchFairness
=============================================================================
