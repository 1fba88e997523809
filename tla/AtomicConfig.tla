---------------------------- MODULE AtomicConfig ----------------------------
(***************************************************************************)
(* What apply_config_patch, apply_staged_config_patch and                  *)
(* apply_storage_mutation promise their callers, without threads,          *)
(* candidates, time-outs, stops and restarts.  A patch is a compare-and-   *)
(* swap: it is carried out at one moment between its call and its return,  *)
(* and only on the configuration and the storage it was asked for.  A      *)
(* mutation is carried out at one such moment, too.  A call is answered    *)
(* with a success if it was carried out, and with an error if it was not   *)
(* and never will be.                                                      *)
(***************************************************************************)
EXTENDS Naturals

CONSTANTS
  Patches,      \* calls that patch the configuration
  Mutations     \* calls that change what is stored

Calls == Patches \cup Mutations

VARIABLES
  version,  \* of the configuration
  epoch,    \* of what is stored
  based,    \* the version and the epoch that a patch was asked for
  call      \* what became of each call

vars == <<version, epoch, based, call>>

Init ==
  /\ version = 0 /\ epoch = 0
  /\ based = [r \in Patches |-> <<0, 0>>]
  /\ call = [r \in Calls |-> "idle"]

Becomes(r, from, to) == call[r] = from /\ call' = [call EXCEPT ![r] = to]

Ask(r) ==
  /\ Becomes(r, "idle", "open")
  /\ based' = [p \in Patches |-> IF p = r THEN <<version, epoch>> ELSE based[p]]
  /\ UNCHANGED <<version, epoch>>

Patch(r) ==
  /\ Becomes(r, "open", "done")
  /\ based[r] = <<version, epoch>>
  /\ version' = version + 1
  /\ UNCHANGED <<epoch, based>>

Mutate(r) ==
  /\ Becomes(r, "open", "done")
  /\ epoch' = epoch + 1
  /\ UNCHANGED <<version, based>>

Accept(r) == Becomes(r, "done", "ok") /\ UNCHANGED <<version, epoch, based>>

Refuse(r) == Becomes(r, "open", "error") /\ UNCHANGED <<version, epoch, based>>

Next ==
  \/ \E r \in Calls : Ask(r) \/ Accept(r) \/ Refuse(r)
  \/ \E r \in Patches : Patch(r)
  \/ \E r \in Mutations : Mutate(r)

Spec == Init /\ [][Next]_vars
=============================================================================
