--------------------------- MODULE PolicyRollback ---------------------------
(***************************************************************************)
(* The publication policy across configuration patches                     *)
(* (_handle_patch_request, _publisher_policy_transition and                *)
(* _remote_lifecycle_changed, src/custback/pipeline.py).                   *)
(*                                                                         *)
(* A patch that involves remote mode first fences the publisher into the   *)
(* candidate's policy, then installs the candidate; when that fails, the   *)
(* old policy is fenced back and assigned.  A renderer may connect or      *)
(* leave at any of these steps, and its notification fences as well.  The  *)
(* transitions hold _publisher_policy_lock, the rollback does not.         *)
(*                                                                         *)
(* Left out: the sink (a fence is one step, or times out), the raw epochs  *)
(* of RemoteOutput, and what a patch changes besides the mode.             *)
(***************************************************************************)
EXTENDS Naturals

CONSTANTS
  Nothing,         \* nobody, nothing
  MaxSession,   \* bound: lease ids
  MaxEpoch,     \* bound: policy epochs
  MaxPatches    \* bound: so many patches are applied

ASSUME PatchBounds == MaxSession \in Nat /\ MaxEpoch \in Nat /\ MaxPatches \in Nat

Threads == {"processor", "loop"}
Modes == {"local", "remote"}
Policies == [epoch: 0..MaxEpoch, mode: Modes, session: 0..(MaxSession + 1)]

ASSUME NothingIsNoThread == Nothing \notin Threads

VARIABLES
  session,    \* the hub's lease id
  connected,  \* a renderer holds it
  mode,       \* resources.cfg.background.mode
  policy,     \* _publisher_policy
  counter,    \* _publisher_policy_epoch
  lock,       \* the owner of _publisher_policy_lock, or Nothing
  stage,      \* where each thread is in a transition
  target,     \* the policy each thread is installing
  gate,       \* the publisher's policy
  pc,         \* where the processing thread is
  patches,    \* how many patches were handled
  old,        \* old_publication_policy
  candidate,  \* the candidate's mode
  fenced,     \* publication_fenced
  rolledBack, \* history: a rollback was made
  base,       \* the base being made: its mode and the lease of its proof
  held,       \* the base the publisher holds, or Nothing
  failed      \* the run failed

hub == <<session, connected>>
fencing == <<policy, counter, lock, stage, target, gate>>
patch == <<patches, old, candidate, fenced, rolledBack>>
lane == <<pc, mode, base>>
vars == <<hub, fencing, patch, lane, held, failed>>

ActiveSession == IF connected THEN session ELSE 0

Init ==
  /\ session = 0 /\ connected = FALSE
  /\ mode \in Modes
  /\ policy = [epoch |-> 0, mode |-> mode, session |-> 0] /\ counter = 0 /\ gate = policy
  /\ lock = Nothing
  /\ stage = [t \in Threads |-> "none"] /\ target = [t \in Threads |-> Nothing]
  /\ pc = "idle" /\ patches = 0 /\ old = Nothing /\ candidate = Nothing
  /\ fenced = FALSE /\ rolledBack = FALSE
  /\ base = Nothing /\ held = Nothing /\ failed = FALSE

-----------------------------------------------------------------------------
\* _publisher_policy_transition(m) of thread t, once it has the lock.

NewPolicy(m) ==
  [epoch |-> counter + 1, mode |-> m, session |-> IF m = "remote" THEN ActiveSession ELSE 0]

Begin(t, m) ==
  /\ stage[t] = "lock" /\ lock = Nothing /\ counter < MaxEpoch
  /\ lock' = t
  /\ counter' = counter + 1
  /\ target' = [target EXCEPT ![t] = NewPolicy(m)]
  /\ stage' = [stage EXCEPT ![t] = "fence"]
  /\ UNCHANGED <<hub, policy, gate, patch, lane, held, failed>>

BeginTransition == Begin("processor", candidate)

\* The listener fences only a publisher in remote mode.
BeginNotification == policy.mode = "remote" /\ Begin("loop", "remote")

IgnoreNotification ==
  /\ stage["loop"] = "lock" /\ lock = Nothing /\ policy.mode # "remote"
  /\ stage' = [stage EXCEPT !["loop"] = "none"]
  /\ UNCHANGED <<hub, policy, counter, lock, target, gate, patch, lane, held, failed>>

Fence(t) ==
  /\ stage[t] = "fence"
  /\ gate' = target[t]
  /\ held' = Nothing
  /\ stage' = [stage EXCEPT ![t] = "assign"]
  /\ UNCHANGED <<hub, policy, counter, lock, target, patch, lane, failed>>

\* A timeout fails the run, except in a patch, which fails alone.
FenceTimesOut(t) ==
  /\ stage[t] = "fence"
  /\ lock' = Nothing
  /\ stage' = [stage EXCEPT ![t] = IF t = "processor" /\ pc = "activate" THEN "raised" ELSE "none"]
  /\ target' = [target EXCEPT ![t] = Nothing]
  /\ failed' = (failed \/ stage'[t] = "none")
  /\ UNCHANGED <<hub, policy, counter, gate, patch, lane, held>>

Assign(t) ==
  /\ stage[t] = "assign"
  /\ policy' = target[t]
  /\ lock' = Nothing
  /\ stage' = [stage EXCEPT ![t] = IF t = "loop" THEN "none" ELSE "done"]
  /\ target' = [target EXCEPT ![t] = Nothing]
  /\ UNCHANGED <<hub, counter, gate, patch, lane, held, failed>>

-----------------------------------------------------------------------------
\* The event loop: a lease begins or ends, and is notified.

Connect ==
  /\ stage["loop"] = "none" /\ session < MaxSession
  /\ session' = session + 1 /\ connected' = TRUE
  /\ stage' = [stage EXCEPT !["loop"] = "lock"]
  /\ UNCHANGED <<policy, counter, lock, target, gate, patch, lane, held, failed>>

Disconnect ==
  /\ stage["loop"] = "none" /\ connected
  /\ connected' = FALSE
  /\ stage' = [stage EXCEPT !["loop"] = "lock"]
  /\ UNCHANGED <<session, policy, counter, lock, target, gate, patch, lane, held, failed>>

-----------------------------------------------------------------------------
\* The processing thread: bases and raw epochs between patches.

Ready == pc = "idle" /\ stage["processor"] = "none" /\ ~failed

\* A local composite, or a renderer's frame that matches the policy.
Compose ==
  /\ Ready
  /\ base' = [mode |-> mode, proof |-> IF mode = "remote" THEN policy.session ELSE 0]
  /\ pc' = "submit"
  /\ UNCHANGED <<hub, fencing, patch, mode, held, failed>>

\* The envelope gets the policy's epoch; the policy is kept beside it as history.
SubmitBase ==
  /\ pc = "submit"
  /\ held' = [mode |-> base.mode, proof |-> base.proof, made |-> policy]
  /\ base' = Nothing
  /\ pc' = "idle"
  /\ UNCHANGED <<hub, fencing, patch, mode, failed>>

\* In remote mode the loop moves to the next raw epoch, now and then.
RotateRaw ==
  /\ Ready /\ mode = "remote"
  /\ stage' = [stage EXCEPT !["processor"] = "lock"]
  /\ candidate' = "remote"
  /\ UNCHANGED <<hub, policy, counter, lock, target, gate, patches, old, fenced, rolledBack,
                 lane, held, failed>>

Rotated ==
  /\ pc = "idle" /\ stage["processor"] = "done"
  /\ stage' = [stage EXCEPT !["processor"] = "none"]
  /\ UNCHANGED <<hub, policy, counter, lock, target, gate, patch, lane, held, failed>>

-----------------------------------------------------------------------------
\* _handle_patch_request.

\* Mutant: only the mode that is left matters.
InvolvedNow(m) == mode = "remote"

Involved(m) == mode = "remote" \/ m = "remote" \/ mode # m

StartPatch(m) ==
  /\ Ready /\ patches < MaxPatches
  /\ patches' = patches + 1
  /\ old' = policy
  /\ candidate' = m
  /\ fenced' = FALSE
  /\ IF Involved(m)
       THEN stage' = [stage EXCEPT !["processor"] = "lock"] /\ pc' = "activate"
       ELSE UNCHANGED stage /\ pc' = "install"
  /\ UNCHANGED <<hub, policy, counter, lock, target, gate, rolledBack, mode, base, held, failed>>

\* The publisher is fenced; before_activate and _install_activation are next.
Activate ==
  /\ pc = "activate" /\ stage["processor"] = "done"
  /\ stage' = [stage EXCEPT !["processor"] = "none"]
  /\ fenced' = TRUE
  /\ pc' = "install"
  /\ UNCHANGED <<hub, policy, counter, lock, target, gate, patches, old, candidate, rolledBack,
                 mode, base, held, failed>>

\* The fence timed out: nothing to roll back.
ActivateRaises ==
  /\ pc = "activate" /\ stage["processor"] = "raised"
  /\ stage' = [stage EXCEPT !["processor"] = "none"]
  /\ pc' = "idle"
  /\ UNCHANGED <<hub, policy, counter, lock, target, gate, patch, mode, base, held, failed>>

Install ==
  /\ pc = "install"
  /\ mode' = candidate
  /\ pc' = IF mode = candidate THEN "idle" ELSE "installed"
  /\ UNCHANGED <<hub, fencing, patch, base, held, failed>>

InstallRaises ==
  /\ pc = "install"
  /\ pc' = IF fenced THEN "rollback" ELSE "idle"
  /\ UNCHANGED <<hub, fencing, patch, mode, base, held, failed>>

\* "config-rollback", without the policy lock.
RollbackFence ==
  /\ pc = "rollback"
  /\ gate' = old
  /\ held' = Nothing
  /\ rolledBack' = TRUE
  /\ pc' = "restore"
  /\ UNCHANGED <<hub, policy, counter, lock, stage, target, patches, old, candidate, fenced,
                 mode, base, failed>>

\* The rollback is tried twice; a single time-out is a delay, the second one
\* ends the run.
RollbackTimesOut ==
  /\ pc = "rollback"
  /\ failed' = TRUE
  /\ pc' = "idle"
  /\ UNCHANGED <<hub, fencing, patch, mode, base, held>>

\* Mutant: the epochs after the old policy are given out again.
RestoreCounter ==
  /\ pc = "restore"
  /\ policy' = old
  /\ counter' = old.epoch
  /\ fenced' = FALSE
  /\ pc' = "idle"
  /\ UNCHANGED <<hub, lock, stage, target, gate, patches, old, candidate, rolledBack,
                 mode, base, held, failed>>

RestorePolicy ==
  /\ pc = "restore"
  /\ policy' = old
  /\ fenced' = FALSE
  /\ pc' = "idle"
  /\ UNCHANGED <<hub, counter, lock, stage, target, gate, patches, old, candidate, rolledBack,
                 mode, base, held, failed>>

\* Mutant: the lease ends without a notification.
InvalidateQuietly ==
  /\ pc = "installed"
  /\ session' = IF connected THEN session + 1 ELSE session
  /\ connected' = FALSE
  /\ pc' = "idle"
  /\ UNCHANGED <<fencing, patch, mode, base, held, failed>>

\* _post_install_activation: every lease ends with a change of mode, and this
\* thread notifies itself.
InvalidateLease ==
  /\ pc = "installed"
  /\ session' = IF connected THEN session + 1 ELSE session
  /\ connected' = FALSE
  /\ IF connected /\ mode = "remote"
       THEN stage' = [stage EXCEPT !["processor"] = "lock"]
       ELSE UNCHANGED stage
  /\ pc' = "idle"
  /\ UNCHANGED <<policy, counter, lock, target, gate, patch, mode, base, held, failed>>

-----------------------------------------------------------------------------
Next ==
  \/ BeginTransition \/ BeginNotification \/ IgnoreNotification
  \/ \E t \in Threads : Fence(t) \/ FenceTimesOut(t) \/ Assign(t)
  \/ Connect \/ Disconnect
  \/ Compose \/ SubmitBase \/ RotateRaw \/ Rotated
  \/ \E m \in Modes : StartPatch(m)
  \/ Activate \/ ActivateRaises \/ Install \/ InstallRaises
  \/ RollbackFence \/ RollbackTimesOut \/ RestorePolicy \/ InvalidateLease

Spec == Init /\ [][Next]_vars

-----------------------------------------------------------------------------
\* Properties.

TypeOK ==
  /\ mode \in Modes /\ policy \in Policies /\ gate \in Policies /\ counter \in 0..MaxEpoch
  /\ lock \in Threads \cup {Nothing} /\ target \in [Threads -> Policies \cup {Nothing}]
  /\ stage \in [Threads -> {"none", "lock", "fence", "assign", "done", "raised"}]
  /\ \A t \in Threads : stage[t] \in {"fence", "assign"} <=> lock = t

\* What the publisher compares: the epoch, and the proof a remote policy asks for.
Admitted(b) ==
  /\ b.made.epoch = gate.epoch
  /\ IF gate.mode = "local" THEN b.proof = 0 ELSE b.proof # 0 /\ b.proof = gate.session

\* Whatever patches, rollbacks and lease events cross each other, no frame
\* composed for one mode is admitted in the other.
ComposedForGate == held # Nothing /\ Admitted(held) => held.mode = gate.mode

\* An epoch names one policy: a base that compares equal was made under it.
EpochNamesPolicy ==
  /\ policy.epoch = gate.epoch => policy = gate
  /\ held # Nothing /\ held.made.epoch = gate.epoch => held.made = gate

Settled == pc = "idle" /\ ~failed /\ \A t \in Threads : stage[t] = "none"

InForce == gate = policy /\ gate.mode = mode /\ (mode = "remote" => gate.session = ActiveSession)

\* Without a rollback, the publisher has the policy of the committed
\* configuration and of the lease in force whenever nothing is under way.
CommittedPolicyInForce == Settled /\ ~rolledBack => InForce

\* A patch that fails "applies nothing and keeps the previous live generation":
\* the publisher goes on under the policy of the configuration.
FailedPatchKeepsPolicy == Settled => gate = policy /\ gate.mode = mode
=============================================================================
