---------------------------- MODULE PatchProofs ----------------------------
(***************************************************************************)
(* Proofs about a configuration patch, for any number of leases, epochs,   *)
(* patches, calls and stops, from the two sides it is modelled from: how   *)
(* the lane, the publisher and the renderers agree on the new policy or go *)
(* back to the old one (PolicyRollback), and what becomes of the call, of  *)
(* its request and of the candidate built for it, whatever gives up or     *)
(* stops meanwhile (PatchRequests).                                        *)
(***************************************************************************)
EXTENDS PolicyRollback, PatchRequests, FiniteSetTheorems, TLAPS

-----------------------------------------------------------------------------
(* The policy.  What the properties rest on:                                *)
(*   TransitionTurns  one thread at a time is in a transition, and the      *)
(*                    processing thread only where its code says so;        *)
(*   EpochsDiffer     two policies in use with one epoch are one policy,    *)
(*                    because an epoch is never given out again;            *)
(*   RemoteStays      remote mode has a remote policy, so that what is      *)
(*                    composed for one mode carries the proof of the other  *)
(*                    under no gate;                                        *)
(*   PolicyTracks     until a rollback or a failure, the policy is the one  *)
(*                    of the configuration and, unless somebody has yet to  *)
(*                    look, of the lease in force.                          *)

BaseRecords == [mode : Modes, proof : Nat]
HeldRecords == [mode : Modes, proof : Nat, made : Policies]

Fencing(t) == stage[t] \in {"fence", "assign"}
Patching == {"activate", "install", "rollback", "restore"}

PolicyShape ==
  /\ session \in 0..(MaxSession + 1) /\ connected \in BOOLEAN /\ mode \in Modes
  /\ connected => session <= MaxSession
  /\ policy \in Policies /\ gate \in Policies /\ counter \in 0..MaxEpoch
       /\ lock \in Threads \cup {Nothing}
  /\ stage \in [Threads -> {"none", "lock", "fence", "assign", "done", "raised"}]
  /\ target = [t \in Threads |-> target[t]]
  /\ \A t \in Threads : IF Fencing(t) THEN target[t] \in Policies ELSE target[t] = Nothing
  /\ pc \in Patching \cup {"installed"} \/ stage["processor"] # "none" => candidate \in Modes
  /\ pc \in Patching => old \in Policies
  /\ pc = "submit" => base \in BaseRecords
  /\ held # Nothing => held \in HeldRecords

TransitionTurns ==
  /\ \A t \in Threads : Fencing(t) <=> lock = t
  /\ pc \notin {"idle", "activate"} => stage["processor"] = "none"
  /\ pc = "activate" => stage["processor"] # "none"
  /\ stage["loop"] \in {"none", "lock", "fence", "assign"}
  /\ pc = "idle" => stage["processor"] # "raised"

\* The policies that are in force, being installed, or may come back.
InUse == {policy, gate} \cup {target[t] : t \in {s \in Threads : Fencing(s)}}
         \cup {p \in {old} : pc \in Patching}
         \cup {h.made : h \in {held} \ {Nothing}}

EpochsDiffer ==
  /\ \A p \in InUse : p.epoch <= counter
  /\ \A p, q \in InUse : p.epoch = q.epoch => p = q

RemoteStays ==
  /\ mode = "remote" /\ ~failed =>
       /\ pc \in {"idle", "submit", "installed"} => policy.mode = "remote"
       /\ pc = "activate" /\ stage["processor"] # "done" => policy.mode = "remote"
       /\ pc \in Patching => old.mode = "remote"
  /\ candidate = "remote" /\ (pc = "install" \/ (pc = "activate"
       /\ stage["processor"] = "done"))
       => policy.mode = "remote"
  /\ pc = "submit" => IF base.mode = "remote" THEN policy.mode = "remote" ELSE base.proof = 0
  /\ held # Nothing => IF held.mode = "remote" THEN held.made.mode = "remote"
       ELSE held.proof = 0

Targets ==
  /\ Fencing("processor") => target["processor"].mode = candidate
  /\ Fencing("loop") => target["loop"].mode = "remote"
  /\ pc = "idle" /\ stage["processor"] \in {"lock", "fence", "assign"} => candidate = "remote"
  /\ pc = "installed" => candidate = mode
  /\ pc = "install" /\ ~fenced => candidate = mode

\* The mode of the policy, while a patch is between its fence and its end.
Expected ==
  IF pc \in {"install", "rollback"} \/ (pc = "activate" /\ stage["processor"] = "done")
    THEN candidate ELSE mode

\* Somebody has been told of a lease and has not looked yet.
Notifying == stage["loop"] = "lock" \/ (pc # "activate" /\ stage["processor"] = "lock")

NamesLease(p) == p.mode = "remote" => p.session = ActiveSession

PolicyTracks ==
  ~failed /\ ~rolledBack =>
    /\ pc # "restore" /\ policy.mode = Expected
    /\ lock = Nothing => gate = policy
    /\ \A t \in Threads : /\ stage[t] = "fence" => gate = policy
                          /\ stage[t] = "assign" => gate = target[t]
    /\ Fencing("loop") => policy.mode = "remote"
    /\ pc = "idle" /\ stage["processor"] \in {"lock", "fence", "assign"} => mode = "remote"
    /\ ~Notifying =>
         /\ lock = Nothing => NamesLease(policy)
         /\ \A t \in Threads : lock = t => NamesLease(target[t])
         /\ pc = "activate" /\ stage["processor"] = "fence" => NamesLease(policy)

PolicyInv ==
  PolicyShape /\ TransitionTurns /\ EpochsDiffer /\ RemoteStays /\ Targets /\ PolicyTracks

Stages == {"none", "lock", "fence", "assign", "done", "raised"}

LEMMA StageSet ==
  ASSUME PolicyShape, NEW t \in Threads, NEW v \in Stages, stage' = [stage EXCEPT ![t] = v]
  PROVE  /\ stage' \in [Threads -> Stages]
         /\ \A s \in Threads : stage'[s] = IF s = t THEN v ELSE stage[s]
  BY DEF PolicyShape, Stages

LEMMA TargetSet ==
  ASSUME PolicyShape, NEW t \in Threads, NEW v, target' = [target EXCEPT ![t] = v]
  PROVE  /\ target' = [s \in Threads |-> target'[s]]
         /\ \A s \in Threads : target'[s] = IF s = t THEN v ELSE target[s]
  BY DEF PolicyShape

\* What the two ends of a transition do.
Begun(t, m) ==
  /\ lock = Nothing /\ lock' = t /\ stage[t] = "lock"
  /\ counter' = counter + 1 /\ counter < MaxEpoch
  /\ NewPolicy(m) \in Policies
  /\ target' = [s \in Threads |-> target'[s]]
  /\ stage' \in [Threads -> Stages]
  /\ \A s \in Threads : stage'[s] = IF s = t THEN "fence" ELSE stage[s]
  /\ \A s \in Threads : target'[s] = IF s = t THEN NewPolicy(m) ELSE target[s]
  /\ UNCHANGED <<hub, policy, gate, patch, lane, held, failed>>

LEMMA BeginSteps ==
  ASSUME PolicyShape, NEW t \in Threads, NEW m \in Modes, Begin(t, m)
  PROVE  Begun(t, m)
  <1>1. NewPolicy(m) \in Policies
    BY PatchBounds DEF NewPolicy, ActiveSession, PolicyShape, Policies, Begin
  <1>2. /\ lock = Nothing /\ lock' = t /\ stage[t] = "lock"
        /\ counter' = counter + 1 /\ counter < MaxEpoch
        /\ stage' = [stage EXCEPT ![t] = "fence"]
        /\ target' = [target EXCEPT ![t] = NewPolicy(m)]
        /\ UNCHANGED <<hub, policy, gate, patch, lane, held, failed>>
    BY DEF Begin
  <1> QED
    BY <1>1, <1>2, StageSet, TargetSet, Zenon DEF Stages, Begun

LEMMA Begins ==
  ASSUME PolicyShape, BeginTransition \/ BeginNotification
  PROVE  \E t \in Threads, m \in Modes :
           /\ IF t = "processor" THEN m = candidate ELSE m = "remote" /\ policy.mode = "remote"
           /\ Begun(t, m)
  <1>1. CASE BeginTransition
    <2>1. stage["processor"] = "lock" /\ "processor" \in Threads
              /\ Begin("processor", candidate)
      BY <1>1 DEF BeginTransition, Begin, Threads
    <2>2. candidate \in Modes
      BY <2>1 DEF PolicyShape
    <2> QED
      BY <2>1, <2>2, BeginSteps
  <1>2. CASE BeginNotification
    <2>1. "remote" \in Modes /\ "loop" \in Threads /\ policy.mode = "remote"
              /\ Begin("loop", "remote")
      BY <1>2 DEF BeginNotification, Threads, Modes
    <2> QED
      BY <2>1, BeginSteps
  <1> QED
    BY <1>1, <1>2

LEMMA TimesOut ==
  ASSUME PolicyShape, NEW t \in Threads, FenceTimesOut(t)
  PROVE  LET ends == IF t = "processor" /\ pc = "activate" THEN "raised" ELSE "none"
         IN  /\ stage[t] = "fence" /\ lock' = Nothing
             /\ target' = [s \in Threads |-> target'[s]] /\ stage' \in [Threads -> Stages]
             /\ \A s \in Threads : stage'[s] = IF s = t THEN ends ELSE stage[s]
             /\ \A s \in Threads : target'[s] = IF s = t THEN Nothing ELSE target[s]
             /\ ends = "none" => failed'
             /\ ~failed' => ~failed
             /\ UNCHANGED <<hub, policy, counter, gate, patch, lane, held>>
  <1> DEFINE ends == IF t = "processor" /\ pc = "activate" THEN "raised" ELSE "none"
  <1>1. stage[t] = "fence" /\ lock' = Nothing /\ target' = [target EXCEPT ![t] = Nothing]
        /\ stage' = [stage EXCEPT ![t] = ends] /\ failed' = (failed \/ stage'[t] = "none")
        /\ UNCHANGED <<hub, policy, counter, gate, patch, lane, held>>
    BY DEF FenceTimesOut
  <1>2. ends \in Stages
    BY DEF Stages
  <1>3. stage' \in [Threads -> Stages] /\ \A s \in Threads : stage'[s] = IF s = t
            THEN ends ELSE stage[s]
    BY <1>1, <1>2, StageSet
  <1>4. target' = [s \in Threads |-> target'[s]]
        /\ \A s \in Threads : target'[s] = IF s = t THEN Nothing ELSE target[s]
    BY <1>1, TargetSet
  <1> QED
    BY <1>1, <1>3, <1>4

LEMMA Assigns ==
  ASSUME PolicyShape, NEW t \in Threads, Assign(t)
  PROVE  /\ stage[t] = "assign" /\ lock' = Nothing /\ policy' = target[t]
         /\ target' = [s \in Threads |-> target'[s]] /\ stage' \in [Threads -> Stages]
         /\ \A s \in Threads :
              stage'[s] = IF s # t THEN stage[s] ELSE IF t = "loop" THEN "none" ELSE "done"
         /\ \A s \in Threads : target'[s] = IF s = t THEN Nothing ELSE target[s]
         /\ UNCHANGED <<hub, counter, gate, patch, lane, held, failed>>
  <1> DEFINE ends == IF t = "loop" THEN "none" ELSE "done"
  <1>1. stage[t] = "assign" /\ lock' = Nothing /\ target' = [target EXCEPT ![t] = Nothing]
        /\ stage' = [stage EXCEPT ![t] = ends] /\ policy' = target[t]
        /\ UNCHANGED <<hub, counter, gate, patch, lane, held, failed>>
    BY DEF Assign
  <1>2. ends \in Stages
    BY DEF Stages
  <1>3. stage' \in [Threads -> Stages] /\ \A s \in Threads : stage'[s] = IF s = t
            THEN ends ELSE stage[s]
    BY <1>1, <1>2, StageSet
  <1>4. target' = [s \in Threads |-> target'[s]]
        /\ \A s \in Threads : target'[s] = IF s = t THEN Nothing ELSE target[s]
    BY <1>1, TargetSet
  <1> QED
    BY <1>1, <1>3, <1>4

LEMMA ShapeKept == PolicyInv /\ [Next]_vars => PolicyShape'
  <1> SUFFICES ASSUME PolicyInv, [Next]_vars PROVE PolicyShape'
    OBVIOUS
  <1> USE DEF PolicyInv, PolicyShape, TransitionTurns, Fencing, Patching, Threads, Modes, hub,
    fencing, patch, lane, BaseRecords, HeldRecords
  <1> USE PatchBounds
  <1>1. CASE BeginTransition \/ BeginNotification
    <2>1. PICK t \in Threads, m \in Modes :
            /\ IF t = "processor" THEN m = candidate ELSE m = "remote"
                 /\ policy.mode = "remote"
            /\ Begun(t, m)
      BY <1>1, Begins DEF PolicyInv
    <2> QED
      BY <2>1, NothingIsNoThread DEF Begun, Stages
  <1>2. CASE IgnoreNotification
    BY <1>2 DEF IgnoreNotification
  <1>3. CASE Connect
    BY <1>3 DEF Connect
  <1>4. CASE Disconnect
    BY <1>4 DEF Disconnect
  <1>5. CASE Compose
    BY <1>5 DEF Compose, Ready, Policies
  <1>6. CASE SubmitBase
    BY <1>6 DEF SubmitBase
  <1>7. CASE RotateRaw
    BY <1>7 DEF RotateRaw, Ready
  <1>8. CASE Rotated
    BY <1>8 DEF Rotated
  <1>9. CASE Activate
    BY <1>9 DEF Activate
  <1>10. CASE ActivateRaises
    BY <1>10 DEF ActivateRaises
  <1>11. CASE Install
    BY <1>11 DEF Install
  <1>12. CASE InstallRaises
    BY <1>12 DEF InstallRaises
  <1>13. CASE RollbackFence
    BY <1>13 DEF RollbackFence
  <1>14. CASE RollbackTimesOut
    BY <1>14 DEF RollbackTimesOut
  <1>15. CASE RestorePolicy
    BY <1>15 DEF RestorePolicy
  <1>16. CASE InvalidateLease
    <2>1. session' \in 0..(MaxSession + 1) /\ connected' = FALSE
      BY <1>16 DEF InvalidateLease
    <2>2. stage' \in [Threads -> Stages] /\ stage'["loop"] = stage["loop"]
          /\ stage'["processor"] \in {"lock", "none"}
      BY <1>16 DEF InvalidateLease, Stages
    <2> QED
      BY <1>16, <2>1, <2>2 DEF InvalidateLease, Stages
  <1>17. ASSUME NEW t \in Threads, Fence(t) PROVE PolicyShape'
    BY <1>17 DEF Fence
  <1>18. ASSUME NEW t \in Threads, FenceTimesOut(t) PROVE PolicyShape'
    BY <1>18, TimesOut, NothingIsNoThread DEF Stages
  <1>19. ASSUME NEW t \in Threads, Assign(t) PROVE PolicyShape'
    BY <1>19, Assigns, NothingIsNoThread DEF Stages
  <1>20. ASSUME NEW m \in Modes, StartPatch(m) PROVE PolicyShape'
    BY <1>20 DEF StartPatch, Ready, Involved
  <1>21. CASE UNCHANGED vars
    BY <1>21 DEF vars
  <1> QED
    BY <1>1, <1>2, <1>3, <1>4, <1>5, <1>6, <1>7, <1>8, <1>9, <1>10, <1>11, <1>12, <1>13, <1>14,
      <1>15, <1>16, <1>17, <1>18, <1>19, <1>20, <1>21 DEF Next

LEMMA TurnsKept == PolicyInv /\ [Next]_vars => TransitionTurns'
  <1> SUFFICES ASSUME PolicyInv, [Next]_vars PROVE TransitionTurns'
    OBVIOUS
  <1> USE DEF PolicyInv, PolicyShape, TransitionTurns, Fencing, Patching, Threads, Modes, hub,
    fencing, patch, lane
  <1>1. CASE BeginTransition \/ BeginNotification
    <2>1. PICK t \in Threads, m \in Modes :
            /\ IF t = "processor" THEN m = candidate ELSE m = "remote"
                 /\ policy.mode = "remote"
            /\ Begun(t, m)
      BY <1>1, Begins DEF PolicyInv
    <2> QED
      BY <2>1, NothingIsNoThread DEF Begun, Stages
  <1>2. CASE IgnoreNotification
    BY <1>2 DEF IgnoreNotification
  <1>3. CASE Connect
    BY <1>3 DEF Connect
  <1>4. CASE Disconnect
    BY <1>4 DEF Disconnect
  <1>5. CASE Compose
    BY <1>5 DEF Compose, Ready
  <1>6. CASE SubmitBase
    BY <1>6 DEF SubmitBase
  <1>7. CASE RotateRaw
    BY <1>7 DEF RotateRaw, Ready
  <1>8. CASE Rotated
    BY <1>8 DEF Rotated
  <1>9. CASE Activate
    BY <1>9 DEF Activate
  <1>10. CASE ActivateRaises
    BY <1>10 DEF ActivateRaises
  <1>11. CASE Install
    BY <1>11 DEF Install
  <1>12. CASE InstallRaises
    BY <1>12 DEF InstallRaises
  <1>13. CASE RollbackFence
    BY <1>13 DEF RollbackFence
  <1>14. CASE RollbackTimesOut
    BY <1>14 DEF RollbackTimesOut
  <1>15. CASE RestorePolicy
    BY <1>15 DEF RestorePolicy
  <1>16. CASE InvalidateLease
    BY <1>16 DEF InvalidateLease
  <1>17. ASSUME NEW t \in Threads, Fence(t) PROVE TransitionTurns'
    BY <1>17 DEF Fence
  <1>18. ASSUME NEW t \in Threads, FenceTimesOut(t) PROVE TransitionTurns'
    BY <1>18, TimesOut, NothingIsNoThread DEF Stages
  <1>19. ASSUME NEW t \in Threads, Assign(t) PROVE TransitionTurns'
    BY <1>19, Assigns, NothingIsNoThread DEF Stages
  <1>20. ASSUME NEW m \in Modes, StartPatch(m) PROVE TransitionTurns'
    BY <1>20 DEF StartPatch, Ready, Involved
  <1>21. CASE UNCHANGED vars
    BY <1>21 DEF vars
  <1> QED
    BY <1>1, <1>2, <1>3, <1>4, <1>5, <1>6, <1>7, <1>8, <1>9, <1>10, <1>11, <1>12, <1>13, <1>14,
      <1>15, <1>16, <1>17, <1>18, <1>19, <1>20, <1>21 DEF Next

LEMMA EpochsFollow ==
  ASSUME EpochsDiffer, InUse' \subseteq InUse, counter' = counter
  PROVE  EpochsDiffer'
  BY DEF EpochsDiffer

LEMMA EpochsAreNat ==
  ASSUME PolicyShape
  PROVE  \A p \in InUse : p.epoch \in Nat
  BY PatchBounds DEF PolicyShape, InUse, Fencing, Policies, HeldRecords, Patching

LEMMA EpochsKept == PolicyInv /\ [Next]_vars => EpochsDiffer'
  <1> SUFFICES ASSUME PolicyInv, [Next]_vars PROVE EpochsDiffer'
    OBVIOUS
  <1> USE DEF Threads, hub, fencing, patch, lane
  <1>1. CASE BeginTransition \/ BeginNotification
    <2>0. PolicyShape /\ EpochsDiffer
      BY DEF PolicyInv
    <2>1. PICK t \in Threads, m \in Modes : Begun(t, m)
      BY <1>1, <2>0, Begins
    <2>2. InUse' \subseteq InUse \cup {NewPolicy(m)}
      BY <2>1 DEF InUse, Fencing, Begun
    <2>3. NewPolicy(m).epoch = counter + 1
      BY DEF NewPolicy
    <2>4. counter \in Nat /\ \A p \in InUse : p.epoch \in Nat
      BY <2>0, EpochsAreNat DEF PolicyShape
    <2> QED
      BY <2>0, <2>1, <2>2, <2>3, <2>4 DEF EpochsDiffer, Begun
  <1>2. CASE IgnoreNotification
    <2>1. InUse' \subseteq InUse /\ counter' = counter
      BY <1>2 DEF IgnoreNotification, InUse, Fencing, Patching, PolicyInv, PolicyShape,
        TransitionTurns
    <2> QED
      BY <2>1, EpochsFollow DEF PolicyInv
  <1>3. CASE Connect
    <2>1. InUse' \subseteq InUse /\ counter' = counter
      BY <1>3 DEF Connect, InUse, Fencing, Patching, PolicyInv, PolicyShape, TransitionTurns
    <2> QED
      BY <2>1, EpochsFollow DEF PolicyInv
  <1>4. CASE Disconnect
    <2>1. InUse' \subseteq InUse /\ counter' = counter
      BY <1>4 DEF Disconnect, InUse, Fencing, Patching, PolicyInv, PolicyShape, TransitionTurns
    <2> QED
      BY <2>1, EpochsFollow DEF PolicyInv
  <1>5. CASE Compose
    <2>1. InUse' \subseteq InUse /\ counter' = counter
      BY <1>5 DEF Compose, Ready, InUse, Fencing, Patching, PolicyInv, PolicyShape,
        TransitionTurns
    <2> QED
      BY <2>1, EpochsFollow DEF PolicyInv
  <1>6. CASE SubmitBase
    <2>1. InUse' \subseteq InUse /\ counter' = counter
      BY <1>6 DEF SubmitBase, InUse, Fencing, Patching, PolicyInv, PolicyShape, TransitionTurns
    <2> QED
      BY <2>1, EpochsFollow DEF PolicyInv
  <1>7. CASE RotateRaw
    <2>1. InUse' \subseteq InUse /\ counter' = counter
      BY <1>7 DEF RotateRaw, Ready, InUse, Fencing, Patching, PolicyInv, PolicyShape,
        TransitionTurns
    <2> QED
      BY <2>1, EpochsFollow DEF PolicyInv
  <1>8. CASE Rotated
    <2>1. InUse' \subseteq InUse /\ counter' = counter
      BY <1>8 DEF Rotated, InUse, Fencing, Patching, PolicyInv, PolicyShape, TransitionTurns
    <2> QED
      BY <2>1, EpochsFollow DEF PolicyInv
  <1>9. CASE Activate
    <2>1. InUse' \subseteq InUse /\ counter' = counter
      BY <1>9 DEF Activate, InUse, Fencing, Patching, PolicyInv, PolicyShape, TransitionTurns
    <2> QED
      BY <2>1, EpochsFollow DEF PolicyInv
  <1>10. CASE ActivateRaises
    <2>1. InUse' \subseteq InUse /\ counter' = counter
      BY <1>10 DEF ActivateRaises, InUse, Fencing, Patching, PolicyInv, PolicyShape,
        TransitionTurns
    <2> QED
      BY <2>1, EpochsFollow DEF PolicyInv
  <1>11. CASE Install
    <2>1. InUse' \subseteq InUse /\ counter' = counter
      BY <1>11 DEF Install, InUse, Fencing, Patching, PolicyInv, PolicyShape, TransitionTurns
    <2> QED
      BY <2>1, EpochsFollow DEF PolicyInv
  <1>12. CASE InstallRaises
    <2>1. InUse' \subseteq InUse /\ counter' = counter
      BY <1>12 DEF InstallRaises, InUse, Fencing, Patching, PolicyInv, PolicyShape,
        TransitionTurns
    <2> QED
      BY <2>1, EpochsFollow DEF PolicyInv
  <1>13. CASE RollbackFence
    <2>1. InUse' \subseteq InUse /\ counter' = counter
      BY <1>13 DEF RollbackFence, InUse, Fencing, Patching, PolicyInv, PolicyShape,
        TransitionTurns
    <2> QED
      BY <2>1, EpochsFollow DEF PolicyInv
  <1>14. CASE RollbackTimesOut
    <2>1. InUse' \subseteq InUse /\ counter' = counter
      BY <1>14 DEF RollbackTimesOut, InUse, Fencing, Patching, PolicyInv, PolicyShape,
        TransitionTurns
    <2> QED
      BY <2>1, EpochsFollow DEF PolicyInv
  <1>15. CASE RestorePolicy
    <2>1. InUse' \subseteq InUse /\ counter' = counter
      BY <1>15 DEF RestorePolicy, InUse, Fencing, Patching, PolicyInv, PolicyShape,
        TransitionTurns
    <2> QED
      BY <2>1, EpochsFollow DEF PolicyInv
  <1>16. CASE InvalidateLease
    <2>1. InUse' \subseteq InUse /\ counter' = counter
      BY <1>16 DEF InvalidateLease, InUse, Fencing, Patching, PolicyInv, PolicyShape,
        TransitionTurns
    <2> QED
      BY <2>1, EpochsFollow DEF PolicyInv
  <1>17. ASSUME NEW t \in Threads, Fence(t) PROVE EpochsDiffer'
    <2>1. InUse' \subseteq InUse /\ counter' = counter
      BY <1>17 DEF Fence, InUse, Fencing, Patching, PolicyInv, PolicyShape, TransitionTurns
    <2> QED
      BY <2>1, EpochsFollow DEF PolicyInv
  <1>18. ASSUME NEW t \in Threads, FenceTimesOut(t) PROVE EpochsDiffer'
    <2>1. InUse' \subseteq InUse /\ counter' = counter
      BY <1>18, TimesOut, NothingIsNoThread DEF InUse, Fencing, Patching, PolicyInv,
        PolicyShape, TransitionTurns
    <2> QED
      BY <2>1, EpochsFollow DEF PolicyInv
  <1>19. ASSUME NEW t \in Threads, Assign(t) PROVE EpochsDiffer'
    <2>1. InUse' \subseteq InUse /\ counter' = counter
      BY <1>19, Assigns, NothingIsNoThread DEF InUse, Fencing, Patching, PolicyInv,
        PolicyShape, TransitionTurns
    <2> QED
      BY <2>1, EpochsFollow DEF PolicyInv
  <1>20. ASSUME NEW m \in Modes, StartPatch(m) PROVE EpochsDiffer'
    <2>1. InUse' \subseteq InUse /\ counter' = counter
      BY <1>20 DEF StartPatch, Ready, Involved, InUse, Fencing, Patching, PolicyInv,
        PolicyShape, TransitionTurns
    <2> QED
      BY <2>1, EpochsFollow DEF PolicyInv
  <1>21. CASE UNCHANGED vars
    <2>1. InUse' \subseteq InUse /\ counter' = counter
      BY <1>21 DEF vars, InUse, Fencing, Patching, PolicyInv, PolicyShape, TransitionTurns
    <2> QED
      BY <2>1, EpochsFollow DEF PolicyInv
  <1> QED
    BY <1>1, <1>2, <1>3, <1>4, <1>5, <1>6, <1>7, <1>8, <1>9, <1>10, <1>11, <1>12, <1>13, <1>14,
      <1>15, <1>16, <1>17, <1>18, <1>19, <1>20, <1>21 DEF Next

LEMMA RemoteKept == PolicyInv /\ [Next]_vars => RemoteStays'
  <1> SUFFICES ASSUME PolicyInv, [Next]_vars PROVE RemoteStays'
    OBVIOUS
  <1> USE DEF PolicyInv, PolicyShape, TransitionTurns, Fencing, Patching, Threads, Modes, hub,
    fencing, patch, lane, Targets, RemoteStays, Stages
  <1>1. CASE BeginTransition \/ BeginNotification
    <2>1. PICK t \in Threads, m \in Modes :
            /\ IF t = "processor" THEN m = candidate ELSE m = "remote"
                 /\ policy.mode = "remote"
            /\ Begun(t, m)
      BY <1>1, Begins
    <2> QED
      BY <2>1, NothingIsNoThread DEF Begun, NewPolicy
  <1>2. CASE IgnoreNotification
    BY <1>2 DEF IgnoreNotification
  <1>3. CASE Connect
    BY <1>3 DEF Connect
  <1>4. CASE Disconnect
    BY <1>4 DEF Disconnect
  <1>5. CASE Compose
    BY <1>5 DEF Compose, Ready
  <1>6. CASE SubmitBase
    BY <1>6 DEF SubmitBase
  <1>7. CASE RotateRaw
    BY <1>7 DEF RotateRaw, Ready
  <1>8. CASE Rotated
    BY <1>8 DEF Rotated
  <1>9. CASE Activate
    BY <1>9 DEF Activate
  <1>10. CASE ActivateRaises
    BY <1>10 DEF ActivateRaises
  <1>11. CASE Install
    BY <1>11 DEF Install
  <1>12. CASE InstallRaises
    BY <1>12 DEF InstallRaises
  <1>13. CASE RollbackFence
    BY <1>13 DEF RollbackFence
  <1>14. CASE RollbackTimesOut
    BY <1>14 DEF RollbackTimesOut
  <1>15. CASE RestorePolicy
    BY <1>15 DEF RestorePolicy
  <1>16. CASE InvalidateLease
    BY <1>16 DEF InvalidateLease
  <1>17. ASSUME NEW t \in Threads, Fence(t) PROVE RemoteStays'
    BY <1>17 DEF Fence
  <1>18. ASSUME NEW t \in Threads, FenceTimesOut(t) PROVE RemoteStays'
    BY <1>18, TimesOut, NothingIsNoThread DEF Stages
  <1>19. ASSUME NEW t \in Threads, Assign(t) PROVE RemoteStays'
    BY <1>19, Assigns, NothingIsNoThread DEF Stages
  <1>20. ASSUME NEW m \in Modes, StartPatch(m) PROVE RemoteStays'
    BY <1>20 DEF StartPatch, Ready, Involved
  <1>21. CASE UNCHANGED vars
    BY <1>21 DEF vars
  <1> QED
    BY <1>1, <1>2, <1>3, <1>4, <1>5, <1>6, <1>7, <1>8, <1>9, <1>10, <1>11, <1>12, <1>13, <1>14,
      <1>15, <1>16, <1>17, <1>18, <1>19, <1>20, <1>21 DEF Next

LEMMA TargetsKept == PolicyInv /\ [Next]_vars => Targets'
  <1> SUFFICES ASSUME PolicyInv, [Next]_vars PROVE Targets'
    OBVIOUS
  <1> USE DEF PolicyInv, PolicyShape, TransitionTurns, Fencing, Patching, Threads, Modes, hub,
    fencing, patch, lane, Targets, RemoteStays, Stages
  <1>1. CASE BeginTransition \/ BeginNotification
    <2>1. PICK t \in Threads, m \in Modes :
            /\ IF t = "processor" THEN m = candidate ELSE m = "remote"
                 /\ policy.mode = "remote"
            /\ Begun(t, m)
      BY <1>1, Begins
    <2> QED
      BY <2>1, NothingIsNoThread DEF Begun, NewPolicy
  <1>2. CASE IgnoreNotification
    BY <1>2 DEF IgnoreNotification
  <1>3. CASE Connect
    BY <1>3 DEF Connect
  <1>4. CASE Disconnect
    BY <1>4 DEF Disconnect
  <1>5. CASE Compose
    BY <1>5 DEF Compose, Ready
  <1>6. CASE SubmitBase
    BY <1>6 DEF SubmitBase
  <1>7. CASE RotateRaw
    BY <1>7 DEF RotateRaw, Ready
  <1>8. CASE Rotated
    BY <1>8 DEF Rotated
  <1>9. CASE Activate
    BY <1>9 DEF Activate
  <1>10. CASE ActivateRaises
    BY <1>10 DEF ActivateRaises
  <1>11. CASE Install
    BY <1>11 DEF Install
  <1>12. CASE InstallRaises
    BY <1>12 DEF InstallRaises
  <1>13. CASE RollbackFence
    BY <1>13 DEF RollbackFence
  <1>14. CASE RollbackTimesOut
    BY <1>14 DEF RollbackTimesOut
  <1>15. CASE RestorePolicy
    BY <1>15 DEF RestorePolicy
  <1>16. CASE InvalidateLease
    BY <1>16 DEF InvalidateLease
  <1>17. ASSUME NEW t \in Threads, Fence(t) PROVE Targets'
    BY <1>17 DEF Fence
  <1>18. ASSUME NEW t \in Threads, FenceTimesOut(t) PROVE Targets'
    BY <1>18, TimesOut, NothingIsNoThread DEF Stages
  <1>19. ASSUME NEW t \in Threads, Assign(t) PROVE Targets'
    BY <1>19, Assigns, NothingIsNoThread DEF Stages
  <1>20. ASSUME NEW m \in Modes, StartPatch(m) PROVE Targets'
    BY <1>20 DEF StartPatch, Ready, Involved
  <1>21. CASE UNCHANGED vars
    BY <1>21 DEF vars
  <1> QED
    BY <1>1, <1>2, <1>3, <1>4, <1>5, <1>6, <1>7, <1>8, <1>9, <1>10, <1>11, <1>12, <1>13, <1>14,
      <1>15, <1>16, <1>17, <1>18, <1>19, <1>20, <1>21 DEF Next

LEMMA TracksKept == PolicyInv /\ [Next]_vars => PolicyTracks'
  <1> SUFFICES ASSUME PolicyInv, [Next]_vars PROVE PolicyTracks'
    OBVIOUS
  <1> USE DEF PolicyInv, PolicyShape, TransitionTurns, Fencing, Patching, Threads, Modes, hub,
    fencing, patch, lane, Targets, PolicyTracks, RemoteStays, Stages, Expected, Notifying,
    NamesLease, ActiveSession
  <1>1. CASE BeginTransition \/ BeginNotification
    <2>1. PICK t \in Threads, m \in Modes :
            /\ IF t = "processor" THEN m = candidate ELSE m = "remote"
                 /\ policy.mode = "remote"
            /\ Begun(t, m)
      BY <1>1, Begins
    <2> QED
      BY <2>1, NothingIsNoThread DEF Begun, NewPolicy
  <1>2. CASE IgnoreNotification
    <2>1. /\ stage["loop"] = "lock" /\ lock = Nothing /\ policy.mode # "remote"
          /\ stage' = [stage EXCEPT !["loop"] = "none"]
          /\ UNCHANGED <<hub, policy, counter, lock, target, gate, patch, lane, held, failed>>
      BY <1>2 DEF IgnoreNotification
    <2>2. stage'["processor"] = stage["processor"] /\ stage'["loop"] = "none"
      BY <2>1
    <2> QED
      BY <2>1, <2>2, NothingIsNoThread
  <1>3. CASE Connect
    BY <1>3 DEF Connect
  <1>4. CASE Disconnect
    BY <1>4 DEF Disconnect
  <1>5. CASE Compose
    BY <1>5 DEF Compose, Ready
  <1>6. CASE SubmitBase
    BY <1>6 DEF SubmitBase
  <1>7. CASE RotateRaw
    BY <1>7 DEF RotateRaw, Ready
  <1>8. CASE Rotated
    BY <1>8 DEF Rotated
  <1>9. CASE Activate
    BY <1>9 DEF Activate
  <1>10. CASE ActivateRaises
    BY <1>10 DEF ActivateRaises
  <1>11. CASE Install
    BY <1>11 DEF Install
  <1>12. CASE InstallRaises
    BY <1>12 DEF InstallRaises
  <1>13. CASE RollbackFence
    BY <1>13 DEF RollbackFence
  <1>14. CASE RollbackTimesOut
    BY <1>14 DEF RollbackTimesOut
  <1>15. CASE RestorePolicy
    BY <1>15 DEF RestorePolicy
  <1>16. CASE InvalidateLease
    BY <1>16 DEF InvalidateLease
  <1>17. ASSUME NEW t \in Threads, Fence(t) PROVE PolicyTracks'
    <2>1. stage[t] = "fence" /\ gate' = target[t] /\ stage' = [stage EXCEPT ![t] = "assign"]
          /\ UNCHANGED <<hub, policy, counter, lock, target, patch, lane, failed>>
      BY <1>17 DEF Fence
    <2>2. \A s \in Threads : stage'[s] = IF s = t THEN "assign" ELSE stage[s]
      BY <2>1
    <2>3. lock = t /\ lock # Nothing
      BY <2>1, NothingIsNoThread
    <2> QED
      BY <2>1, <2>2, <2>3
  <1>18. ASSUME NEW t \in Threads, FenceTimesOut(t) PROVE PolicyTracks'
    BY <1>18, TimesOut, NothingIsNoThread DEF Stages
  <1>19. ASSUME NEW t \in Threads, Assign(t) PROVE PolicyTracks'
    BY <1>19, Assigns, NothingIsNoThread DEF Stages
  <1>20. ASSUME NEW m \in Modes, StartPatch(m) PROVE PolicyTracks'
    BY <1>20 DEF StartPatch, Ready, Involved
  <1>21. CASE UNCHANGED vars
    BY <1>21 DEF vars
  <1> QED
    BY <1>1, <1>2, <1>3, <1>4, <1>5, <1>6, <1>7, <1>8, <1>9, <1>10, <1>11, <1>12, <1>13, <1>14,
      <1>15, <1>16, <1>17, <1>18, <1>19, <1>20, <1>21 DEF Next

LEMMA InitPolicyInv == Init => PolicyInv
  <1> SUFFICES ASSUME Init PROVE PolicyInv
    OBVIOUS
  <1> USE DEF Init, Threads, Fencing, Patching
  <1>1. PolicyShape
    <2>1. policy \in Policies /\ gate \in Policies
      BY PatchBounds DEF Policies
    <2>2. session \in 0..(MaxSession + 1) /\ counter \in 0..MaxEpoch
      BY PatchBounds
    <2> QED
      BY <2>1, <2>2 DEF PolicyShape
  <1>2. TransitionTurns
    BY NothingIsNoThread DEF TransitionTurns
  <1>3. EpochsDiffer
    BY DEF EpochsDiffer, InUse
  <1>4. RemoteStays /\ Targets
    BY DEF RemoteStays, Targets
  <1>5. PolicyTracks
    BY NothingIsNoThread DEF PolicyTracks, Expected, Notifying, NamesLease, ActiveSession
  <1> QED
    BY <1>1, <1>2, <1>3, <1>4, <1>5 DEF PolicyInv

LEMMA PolicyInvariant == Spec => []PolicyInv
  <1>1. PolicyInv /\ [Next]_vars => PolicyInv'
    BY ShapeKept, TurnsKept, EpochsKept, RemoteKept, TargetsKept, TracksKept DEF PolicyInv
  <1> QED
    BY <1>1, InitPolicyInv, PTL DEF Spec

\* The variables keep their types, and who holds the policy lock is the one
\* thread that is between its fence and its assignment
\* (_publisher_policy_transition, src/custback/pipeline.py).
THEOREM PolicyTypes == Spec => []TypeOK
  <1>1. PolicyInv => TypeOK
    BY DEF PolicyInv, PolicyShape, TransitionTurns, TypeOK, Fencing
  <1> QED
    BY <1>1, PolicyInvariant, PTL

\* Whatever fences, patches, rollbacks and notifications cross each other, two
\* policies with one epoch are the same policy: a base that the publisher finds
\* equal by its epoch was composed under the publisher's policy
\* (_publisher_policy_epoch, src/custback/pipeline.py).
THEOREM OneEpochOnePolicy == Spec => []EpochNamesPolicy
  <1>1. PolicyInv => EpochNamesPolicy
    BY DEF PolicyInv, EpochsDiffer, InUse, EpochNamesPolicy
  <1> QED
    BY <1>1, PolicyInvariant, PTL

\* No base composed for one mode is admitted by a publisher in the other, also
\* while a patch is half done or was rolled back (_handle_patch_request,
\* src/custback/pipeline.py).
THEOREM ModesNeverMix == Spec => []ComposedForGate
  <1>1. ASSUME PolicyInv, held # Nothing, Admitted(held)
        PROVE  held.mode = gate.mode
    <2>1. held.made = gate
      BY <1>1 DEF PolicyInv, EpochsDiffer, InUse, Admitted
    <2>2. gate.mode \in Modes /\ held.mode \in Modes
      BY <1>1 DEF PolicyInv, PolicyShape, Policies, HeldRecords
    <2>3. IF held.mode = "remote" THEN gate.mode = "remote" ELSE held.proof = 0
      BY <1>1, <2>1 DEF PolicyInv, RemoteStays
    <2> QED
      BY <1>1, <2>2, <2>3 DEF Admitted, Modes
  <1>2. PolicyInv => ComposedForGate
    BY <1>1 DEF ComposedForGate
  <1> QED
    BY <1>2, PolicyInvariant, PTL

\* As long as no patch was rolled back, a run with nothing under way has its
\* publisher in the policy of the committed configuration and of the lease in
\* force, however leases came and went meanwhile (_remote_lifecycle_changed and
\* _handle_patch_request, src/custback/pipeline.py).
THEOREM SettledPolicyInForce == Spec => []CommittedPolicyInForce
  <1>1. ASSUME PolicyInv, Settled, ~rolledBack
        PROVE  InForce
    <2>1. lock = Nothing /\ ~Notifying
      BY <1>1 DEF PolicyInv, PolicyShape, TransitionTurns, Fencing, Notifying, Settled, Threads
    <2>2. gate = policy /\ policy.mode = mode /\ NamesLease(policy)
      BY <1>1, <2>1 DEF PolicyInv, PolicyTracks, Settled, Expected
    <2> QED
      BY <2>2 DEF InForce, NamesLease
  <1>2. PolicyInv => CommittedPolicyInForce
    BY <1>1 DEF CommittedPolicyInForce
  <1> QED
    BY <1>2, PolicyInvariant, PTL

-----------------------------------------------------------------------------
(* The requests.  What the properties rest on:                              *)
(*   Lanes       a request is with the lane while it is tried or failed,    *)
(*               and its candidate only while it is tried;                  *)
(*   Pending     a request in the queue or with the lane has no answer yet, *)
(*               and its caller, if gone, has left word in `cancelled`;     *)
(*   Decided     what a caller returns is the outcome, and the outcome is   *)
(*               what was done;                                             *)
(*   OneOwner    the owners of a candidate and the times it was closed are  *)
(*               together one once it is built, and none before;            *)
(*   Preparing   a caller and its future are in step, and the future stays  *)
(*               registered until its candidate is closed or handed on;     *)
(*   BuiltBetween  a candidate was built no earlier than its request was    *)
(*               made;                                                      *)
(*   Stopped     after the drain nothing is queued, and a clean stop found  *)
(*               the lane off.                                              *)

InQueue(r) == \E i \in 1..Len(queue) : queue[i] = r

Lanes ==
  /\ laneAt \in {"trial", "failing"} <=> laneReq # NoCall
  /\ laneReq \in Patches \cup {NoCall}
  /\ laneAct # NoCall => laneAt = "trial" /\ laneAct = laneReq
  /\ replaced # NoCall => laneAt = "replace"
  /\ laneAt = "off" => live = NoCall
  /\ laneAt = "trial" => seen[laneReq] = storageEpoch
  /\ laneAt = "failing" => outcome[laneReq] = "error"
  /\ laneAt # "off" \/ dropped # {} => starts >= 1
  /\ dropped # {} => laneAt \in {"ending", "draining", "closing", "off"} \/ starts > 1

NoneTwice == \A i, j \in 1..Len(queue) : queue[i] = queue[j] => i = j

Pends(r) ==
  /\ InQueue(r) \/ laneReq = r => /\ ~done[r]
                                  /\ callAt[r] \in {"waiting", "timedOut", "returned"}
                                  /\ callAt[r] = "returned" => cancelled[r]
  /\ InQueue(r) => outcome[r] = "none" /\ laneReq # r /\ callAt[r] # "timedOut"

Pending ==
  /\ NoneTwice
  /\ laneAt = "trial" => outcome[laneReq] = "none"
  /\ \A r \in Calls : Pends(r)

Decides(r) ==
  /\ cancelled[r] => callAt[r] = "returned"
  /\ callAt[r] \in {"waiting", "timedOut"} /\ done[r] => outcome[r] # "none"
  /\ callAt[r] \in {"idle", "created", "awaiting", "took", "kept", "refused", "discarding",
                    "prepared"} => outcome[r] = "none" /\ ~done[r]
  /\ callAt[r] = "timedOut" => outcome[r] # "none"
  /\ callAt[r] = "returned" => (answer[r] = "ok" <=> outcome[r] = "result")
  /\ outcome[r] = "result" <=> r \in committed \cup performed

Decided == \A r \in Calls : Decides(r)

Count(b) == IF b THEN 1 ELSE 0

Owners(r) ==
  Count(future[r] = "built") + Count(callAt[r] = "took") + Count(prepared[r])
  + Count(laneAct = r) + Count(live = r) + Count(replaced = r)
  + Count(r \in teardown) + Count(r \in deferred) + Count(r \in dropped)

Owned(r) == Owners(r) + closes[r] = Count(future[r] \in {"built", "taken"})

OneOwner == \A r \in Patches : Owned(r)

InStep(r) ==
  /\ callAt[r] \in {"idle", "created"} => future[r] = "none"
  /\ future[r] \in {"queued", "running", "built"} => r \in tracked
  /\ callAt[r] \in {"awaiting", "took", "kept", "refused", "discarding"} => r \in tracked
  /\ callAt[r] \in {"took", "kept", "refused"}
       => future[r] \in {"taken", "raised", "cancelled"}
  /\ callAt[r] = "discarding" => future[r] \in {"built", "raised", "taken"}
  /\ r \in armed => callAt[r] = "returned"
  /\ prepared[r] => callAt[r] \in {"kept", "prepared"} \/ (callAt[r] = "waiting" /\ InQueue(r))

Preparing ==
  /\ executor # "open" => pool = <<>>
  /\ worker # NoCall /\ future[worker] # "running" => worker \in armed
  /\ \A r \in Mutations : callAt[r] \in {"idle", "waiting", "timedOut", "returned"}
  /\ \A r \in Patches : InStep(r)

BuiltBetween ==
  /\ assets = storageEpoch
  /\ \A r \in Patches :
       /\ seen[r] <= storageEpoch
       /\ future[r] \in {"running", "built", "taken"} =>
            builtOn[r] \in Nat /\ seen[r] <= builtOn[r] /\ builtOn[r] <= assets

Draining == {"joining", "survivors", "preparation", "executor", "executorLate", "stopped",
             "late"}

Stopped ==
  /\ stopper # "idle" => stopping
  /\ stopper \in Draining => queue = <<>>
  /\ stopper \in {"preparation", "executor", "stopped"} => laneAt = "off"
  /\ stopper \in {"executor", "executorLate"} => executor # "open"
  /\ stopper = "stopped" => executor = "none" /\ tracked = {} /\ worker = NoCall

RequestInv ==
  PatchTypes /\ Lanes /\ Pending /\ Decided /\ OneOwner /\ Preparing /\ BuiltBetween /\ Stopped

CallerTypes ==
  /\ callAt \in [Calls -> CallerPC]
  /\ answer \in [Calls -> {"none", "ok", "error"}]
  /\ baseVersion \in [Patches -> Nat]
  /\ seen \in [Patches -> Nat]

RequestTypes ==
  /\ prepared \in [Patches -> BOOLEAN]
  /\ cancelled \in [Calls -> BOOLEAN]
  /\ done \in [Calls -> BOOLEAN]
  /\ outcome \in [Calls -> {"none", "result", "error"}]

ExecutorTypes ==
  /\ executor \in {"none", "open", "shut"}
  /\ pool \in Seq(Patches)
  /\ worker \in Patches \cup {NoCall}
  /\ future \in [Patches -> {"none", "queued", "running", "built", "raised",
                             "cancelled", "taken"}]
  /\ armed \subseteq Patches
  /\ tracked \subseteq Patches

LaneTypes ==
  /\ queue \in Seq(Calls)
  /\ laneAt \in LanePC
  /\ laneReq \in Calls \cup {NoCall}
  /\ {laneAct, replaced, live} \subseteq Patches \cup {NoCall}
  /\ laneFailed \in BOOLEAN

CloseTypes ==
  /\ teardown \subseteq Patches
  /\ deferred \subseteq Patches
  /\ dropped \subseteq Patches
  /\ closes \in [Patches -> Nat]

ConfigTypes ==
  /\ version \in Nat
  /\ storageEpoch \in Nat
  /\ assets \in Nat
  /\ builtOn \in [Patches -> Nat \cup {NoCall}]
  /\ committed \subseteq Patches
  /\ performed \subseteq Mutations

StopTypes ==
  /\ stopping \in BOOLEAN
  /\ publisherUp \in BOOLEAN
  /\ enqueueLock \in {NoCall, "stop", "lane"}
  /\ stopper \in StopPC
  /\ starts \in Nat
  /\ stops \in Nat

LEMMA TypeParts ==
  PatchTypes <=> CallerTypes /\ RequestTypes /\ ExecutorTypes /\ LaneTypes /\ CloseTypes
    /\ ConfigTypes /\ StopTypes
  BY DEF PatchTypes, CallerTypes, RequestTypes, ExecutorTypes, LaneTypes, CloseTypes,
    ConfigTypes, StopTypes

LEMMA CloseNowSteps ==
  ASSUME closes \in [Patches -> Nat], NEW S, CloseNow(S)
  PROVE  /\ closes' \in [Patches -> Nat] /\ UNCHANGED <<teardown, deferred, dropped>>
         /\ \A q \in Patches : closes'[q] = IF q \in S THEN closes[q] + 1 ELSE closes[q]
  BY DEF CloseNow

LEMMA CallerTypesKept == RequestInv /\ [NextPatches]_patchVars => CallerTypes'
  <1> SUFFICES ASSUME RequestInv, [NextPatches]_patchVars PROVE CallerTypes'
    OBVIOUS
  <1> CallerTypes /\ ConfigTypes
    BY TypeParts DEF RequestInv
  <1>1. CASE UNCHANGED patchVars \/ StartBuild \/ PassOver \/ FinishBuild \/ CallbackDiscards
    \/ CallbackUntracks \/ TakePatch \/ TrialFails \/ FailPublished \/ CommitCancelled \/
    Commit \/ ActivationFails \/ RollbackRaises \/ CloseReplaced \/ Mutate \/ LeaveLoop \/
    LaneStops \/ FailHead \/ LaneDrained \/ LaneCloses \/ RequestStop \/ StopTakesLock \/
    StopDrained \/ StopJoins \/ ShutDownExecutor \/ StopReturns \/ StopTimesOut \/ Start \/
    PublisherFails \/ NotificationFails \/ (\E r \in Patches : CloseResource(r))
    <2>1. UNCHANGED <<callerVars>>
      BY <1>1 DEF patchVars, callerVars, requestVars, executorVars, laneVars, closeVars,
        configVars, stopVars, StartBuild, PassOver, FinishBuild, CallbackDiscards,
        CallbackUntracks, TakePatch, TrialFails, FailPublished, CommitCancelled, Commit,
        ActivationFails, RollbackRaises, CloseReplaced, Mutate, LeaveLoop, LaneStops, FailHead,
        LaneDrained, LaneCloses, RequestStop, StopTakesLock, StopDrained, StopJoins,
        ShutDownExecutor, StopReturns, StopTimesOut, Start, PublisherFails, NotificationFails,
        CloseResource
    <2> QED
      BY <2>1 DEF CallerTypes, callerVars
  <1>2. ASSUME NEW r \in Calls, CreateRequest(r) PROVE CallerTypes'
    BY <1>2, CallsAssumption DEF CreateRequest, MayCall, Running, CallerTypes, ConfigTypes,
      callerVars, requestVars, executorVars, laneVars, closeVars, configVars, stopVars, Calls,
      CallerPC
  <1>3. ASSUME NEW r \in Calls, SubmitPreparation(r) PROVE CallerTypes'
    BY <1>3, CallsAssumption DEF SubmitPreparation, Return, CallerTypes, ConfigTypes,
      callerVars, requestVars, executorVars, laneVars, closeVars, configVars, stopVars, Calls,
      CallerPC
  <1>4. ASSUME NEW r \in Calls, TakeResult(r) PROVE CallerTypes'
    BY <1>4, CallsAssumption DEF TakeResult, CallerTypes, ConfigTypes, callerVars, requestVars,
      executorVars, laneVars, closeVars, configVars, stopVars, Calls, CallerPC
  <1>5. ASSUME NEW r \in Calls, KeepOrDiscard(r) PROVE CallerTypes'
    BY <1>5, CallsAssumption DEF KeepOrDiscard, Running, CloseNow, CallerTypes, ConfigTypes,
      callerVars, requestVars, executorVars, laneVars, closeVars, configVars, stopVars, Calls,
      CallerPC
  <1>6. ASSUME NEW r \in Calls, PreparationRaised(r) PROVE CallerTypes'
    BY <1>6, CallsAssumption DEF PreparationRaised, CallerTypes, ConfigTypes, callerVars,
      requestVars, executorVars, laneVars, closeVars, configVars, stopVars, Calls, CallerPC
  <1>7. ASSUME NEW r \in Calls, Untrack(r) PROVE CallerTypes'
    BY <1>7, CallsAssumption DEF Untrack, Return, CallerTypes, ConfigTypes, callerVars,
      requestVars, executorVars, laneVars, closeVars, configVars, stopVars, Calls, CallerPC
  <1>8. ASSUME NEW r \in Calls, Abandon(r) PROVE CallerTypes'
    BY <1>8, CallsAssumption DEF Abandon, Return, CallerTypes, ConfigTypes, callerVars,
      requestVars, executorVars, laneVars, closeVars, configVars, stopVars, Calls, CallerPC
  <1>9. ASSUME NEW r \in Calls, DiscardDoneFuture(r) PROVE CallerTypes'
    BY <1>9, CallsAssumption DEF DiscardDoneFuture, CloseNow, CallerTypes, ConfigTypes,
      callerVars, requestVars, executorVars, laneVars, closeVars, configVars, stopVars, Calls,
      CallerPC
  <1>10. ASSUME NEW r \in Calls, DeadlineBeforeQueue(r) PROVE CallerTypes'
    BY <1>10, CallsAssumption DEF DeadlineBeforeQueue, ScheduleClose, Held, Return,
      CallerTypes, ConfigTypes, callerVars, requestVars, executorVars, laneVars, closeVars,
      configVars, stopVars, Calls, CallerPC
  <1>11. ASSUME NEW r \in Calls, Enqueue(r) PROVE CallerTypes'
    BY <1>11, CallsAssumption DEF Enqueue, MayCall, Accepting, Running, CallerTypes,
      ConfigTypes, callerVars, requestVars, executorVars, laneVars, closeVars, configVars,
      stopVars, Calls, CallerPC
  <1>12. ASSUME NEW r \in Calls, EnqueueRefused(r) PROVE CallerTypes'
    BY <1>12, CallsAssumption DEF EnqueueRefused, Accepting, Running, CloseNow, Held, Return,
      CallerTypes, ConfigTypes, callerVars, requestVars, executorVars, laneVars, closeVars,
      configVars, stopVars, Calls, CallerPC
  <1>13. ASSUME NEW r \in Calls, Cancel(r) PROVE CallerTypes'
    BY <1>13, CallsAssumption DEF Cancel, Return, Answered, ScheduleClose, Held, CallerTypes,
      ConfigTypes, callerVars, requestVars, executorVars, laneVars, closeVars, configVars,
      stopVars, Calls, CallerPC
  <1>14. ASSUME NEW r \in Calls, Acknowledged(r) PROVE CallerTypes'
    BY <1>14, CallsAssumption DEF Acknowledged, Return, CallerTypes, ConfigTypes, callerVars,
      requestVars, executorVars, laneVars, closeVars, configVars, stopVars, Calls, CallerPC
  <1> QED
    BY <1>1, <1>2, <1>3, <1>4, <1>5, <1>6, <1>7, <1>8, <1>9, <1>10, <1>11, <1>12, <1>13, <1>14
      DEF NextPatches, Caller, PrepareWorker, Lane, LaneFailsPending, Stopper, StopFailsPending

LEMMA RequestTypesKept == RequestInv /\ [NextPatches]_patchVars => RequestTypes'
  <1> SUFFICES ASSUME RequestInv, [NextPatches]_patchVars PROVE RequestTypes'
    OBVIOUS
  <1> RequestTypes /\ LaneTypes /\ Lanes
    BY TypeParts DEF RequestInv
  <1>1. CASE UNCHANGED patchVars \/ (\E r \in Calls : CreateRequest(r)) \/ (\E r \in Calls :
    SubmitPreparation(r)) \/ (\E r \in Calls : TakeResult(r)) \/ (\E r \in Calls :
    PreparationRaised(r)) \/ (\E r \in Calls : Untrack(r)) \/ (\E r \in Calls : Abandon(r)) \/
    (\E r \in Calls : DiscardDoneFuture(r)) \/ (\E r \in Calls : Enqueue(r)) \/ (\E r \in
    Calls : Acknowledged(r)) \/ StartBuild \/ PassOver \/ FinishBuild \/ CallbackDiscards \/
    CallbackUntracks \/ RollbackRaises \/ CloseReplaced \/ LeaveLoop \/ LaneStops \/
    LaneDrained \/ LaneCloses \/ RequestStop \/ StopTakesLock \/ StopDrained \/ StopJoins \/
    ShutDownExecutor \/ StopReturns \/ StopTimesOut \/ Start \/ PublisherFails \/
    NotificationFails \/ (\E r \in Patches : CloseResource(r))
    <2>1. UNCHANGED <<requestVars>>
      BY <1>1 DEF patchVars, callerVars, requestVars, executorVars, laneVars, closeVars,
        configVars, stopVars, CreateRequest, SubmitPreparation, TakeResult, PreparationRaised,
        Untrack, Abandon, DiscardDoneFuture, Enqueue, Acknowledged, StartBuild, PassOver,
        FinishBuild, CallbackDiscards, CallbackUntracks, RollbackRaises, CloseReplaced,
        LeaveLoop, LaneStops, LaneDrained, LaneCloses, RequestStop, StopTakesLock, StopDrained,
        StopJoins, ShutDownExecutor, StopReturns, StopTimesOut, Start, PublisherFails,
        NotificationFails, CloseResource
    <2> QED
      BY <2>1 DEF RequestTypes, requestVars
  <1>2. ASSUME NEW r \in Calls, KeepOrDiscard(r) PROVE RequestTypes'
    BY <1>2, CallsAssumption DEF KeepOrDiscard, Running, CloseNow, RequestTypes, LaneTypes,
      Lanes, callerVars, requestVars, executorVars, laneVars, closeVars, configVars, stopVars,
      Calls
  <1>3. ASSUME NEW r \in Calls, DeadlineBeforeQueue(r) PROVE RequestTypes'
    BY <1>3, CallsAssumption DEF DeadlineBeforeQueue, ScheduleClose, Held, Return,
      RequestTypes, LaneTypes, Lanes, callerVars, requestVars, executorVars, laneVars,
      closeVars, configVars, stopVars, Calls
  <1>4. ASSUME NEW r \in Calls, EnqueueRefused(r) PROVE RequestTypes'
    BY <1>4, CallsAssumption DEF EnqueueRefused, Accepting, Running, CloseNow, Held, Return,
      RequestTypes, LaneTypes, Lanes, callerVars, requestVars, executorVars, laneVars,
      closeVars, configVars, stopVars, Calls
  <1>5. ASSUME NEW r \in Calls, Cancel(r) PROVE RequestTypes'
    BY <1>5, CallsAssumption DEF Cancel, Return, Answered, ScheduleClose, Held, RequestTypes,
      LaneTypes, Lanes, callerVars, requestVars, executorVars, laneVars, closeVars, configVars,
      stopVars, Calls
  <1>6. CASE TakePatch
    BY <1>6, CallsAssumption DEF TakePatch, ScheduleClose, Held, Settle, Answered, Fresh,
      RequestTypes, LaneTypes, Lanes, callerVars, requestVars, executorVars, laneVars,
      closeVars, configVars, stopVars, Calls
  <1>7. CASE TrialFails
    BY <1>7, CallsAssumption DEF TrialFails, ScheduleClose, Settle, Answered, RequestTypes,
      LaneTypes, Lanes, callerVars, requestVars, executorVars, laneVars, closeVars, configVars,
      stopVars, Calls
  <1>8. CASE FailPublished
    BY <1>8, CallsAssumption DEF FailPublished, RequestTypes, LaneTypes, Lanes, callerVars,
      requestVars, executorVars, laneVars, closeVars, configVars, stopVars, Calls
  <1>9. CASE CommitCancelled
    BY <1>9, CallsAssumption DEF CommitCancelled, StillWanted, ScheduleClose, RequestTypes,
      LaneTypes, Lanes, callerVars, requestVars, executorVars, laneVars, closeVars, configVars,
      stopVars, Calls
  <1>10. CASE Commit
    BY <1>10, CallsAssumption DEF Commit, StillWanted, Settle, Answered, RequestTypes,
      LaneTypes, Lanes, callerVars, requestVars, executorVars, laneVars, closeVars, configVars,
      stopVars, Calls
  <1>11. CASE ActivationFails
    BY <1>11, CallsAssumption DEF ActivationFails, StillWanted, ScheduleClose, Settle,
      Answered, RequestTypes, LaneTypes, Lanes, callerVars, requestVars, executorVars,
      laneVars, closeVars, configVars, stopVars, Calls
  <1>12. CASE Mutate
    BY <1>12, CallsAssumption DEF Mutate, Settle, Answered, RequestTypes, LaneTypes, Lanes,
      callerVars, requestVars, executorVars, laneVars, closeVars, configVars, stopVars, Calls
  <1>13. CASE FailHead
    BY <1>13, CallsAssumption DEF FailHead, Settle, Answered, ScheduleClose, Held,
      RequestTypes, LaneTypes, Lanes, callerVars, requestVars, executorVars, laneVars,
      closeVars, configVars, stopVars, Calls
  <1> QED
    BY <1>1, <1>2, <1>3, <1>4, <1>5, <1>6, <1>7, <1>8, <1>9, <1>10, <1>11, <1>12, <1>13 DEF
      NextPatches, Caller, PrepareWorker, Lane, LaneFailsPending, Stopper, StopFailsPending

LEMMA ExecutorTypesKept == RequestInv /\ [NextPatches]_patchVars => ExecutorTypes'
  <1> SUFFICES ASSUME RequestInv, [NextPatches]_patchVars PROVE ExecutorTypes'
    OBVIOUS
  <1> ExecutorTypes /\ CallerTypes /\ Preparing
    BY TypeParts DEF RequestInv
  <1>1. CASE UNCHANGED patchVars \/ (\E r \in Calls : CreateRequest(r)) \/ (\E r \in Calls :
    KeepOrDiscard(r)) \/ (\E r \in Calls : PreparationRaised(r)) \/ (\E r \in Calls :
    DeadlineBeforeQueue(r)) \/ (\E r \in Calls : Enqueue(r)) \/ (\E r \in Calls :
    EnqueueRefused(r)) \/ (\E r \in Calls : Cancel(r)) \/ (\E r \in Calls : Acknowledged(r))
    \/ TakePatch \/ TrialFails \/ FailPublished \/ CommitCancelled \/ Commit \/
    ActivationFails \/ RollbackRaises \/ CloseReplaced \/ Mutate \/ LeaveLoop \/ LaneStops \/
    FailHead \/ LaneDrained \/ LaneCloses \/ RequestStop \/ StopTakesLock \/ StopDrained \/
    StopJoins \/ StopTimesOut \/ PublisherFails \/ NotificationFails \/ (\E r \in Patches :
    CloseResource(r))
    <2>1. UNCHANGED <<executorVars>>
      BY <1>1 DEF patchVars, callerVars, requestVars, executorVars, laneVars, closeVars,
        configVars, stopVars, CreateRequest, KeepOrDiscard, PreparationRaised,
        DeadlineBeforeQueue, Enqueue, EnqueueRefused, Cancel, Acknowledged, TakePatch,
        TrialFails, FailPublished, CommitCancelled, Commit, ActivationFails, RollbackRaises,
        CloseReplaced, Mutate, LeaveLoop, LaneStops, FailHead, LaneDrained, LaneCloses,
        RequestStop, StopTakesLock, StopDrained, StopJoins, StopTimesOut, PublisherFails,
        NotificationFails, CloseResource
    <2> QED
      BY <2>1 DEF ExecutorTypes, executorVars
  <1>2. ASSUME NEW r \in Calls, SubmitPreparation(r) PROVE ExecutorTypes'
    <2>1. r \in Patches
      BY <1>2, CallsAssumption DEF SubmitPreparation, Preparing, Calls
    <2>2. \/ /\ pool' = Append(pool, r) /\ future' = [future EXCEPT ![r] = "queued"]
             /\ tracked' = tracked \cup {r} /\ UNCHANGED <<executor, worker, armed>>
          \/ UNCHANGED executorVars
      BY <1>2 DEF SubmitPreparation, executorVars
    <2>3. Append(pool, r) \in Seq(Patches)
      BY <2>1 DEF ExecutorTypes
    <2> QED
      BY <2>1, <2>2, <2>3 DEF ExecutorTypes, executorVars
  <1>3. ASSUME NEW r \in Calls, TakeResult(r) PROVE ExecutorTypes'
    BY <1>3, CallsAssumption DEF TakeResult, ExecutorTypes, CallerTypes, Preparing, callerVars,
      requestVars, executorVars, laneVars, closeVars, configVars, stopVars, Calls
  <1>4. ASSUME NEW r \in Calls, Untrack(r) PROVE ExecutorTypes'
    BY <1>4, CallsAssumption DEF Untrack, Return, ExecutorTypes, CallerTypes, Preparing,
      callerVars, requestVars, executorVars, laneVars, closeVars, configVars, stopVars, Calls
  <1>5. ASSUME NEW r \in Calls, Abandon(r) PROVE ExecutorTypes'
    BY <1>5, CallsAssumption DEF Abandon, Return, ExecutorTypes, CallerTypes, Preparing,
      callerVars, requestVars, executorVars, laneVars, closeVars, configVars, stopVars, Calls
  <1>6. ASSUME NEW r \in Calls, DiscardDoneFuture(r) PROVE ExecutorTypes'
    BY <1>6, CallsAssumption DEF DiscardDoneFuture, CloseNow, ExecutorTypes, CallerTypes,
      Preparing, callerVars, requestVars, executorVars, laneVars, closeVars, configVars,
      stopVars, Calls
  <1>7. CASE StartBuild
    BY <1>7, CallsAssumption DEF StartBuild, ExecutorTypes, CallerTypes, Preparing, callerVars,
      requestVars, executorVars, laneVars, closeVars, configVars, stopVars, Calls
  <1>8. CASE PassOver
    BY <1>8, CallsAssumption DEF PassOver, ExecutorTypes, CallerTypes, Preparing, callerVars,
      requestVars, executorVars, laneVars, closeVars, configVars, stopVars, Calls
  <1>9. CASE FinishBuild
    BY <1>9, CallsAssumption DEF FinishBuild, ExecutorTypes, CallerTypes, Preparing,
      callerVars, requestVars, executorVars, laneVars, closeVars, configVars, stopVars, Calls
  <1>10. CASE CallbackDiscards
    BY <1>10, CallsAssumption DEF CallbackDiscards, CloseNow, ExecutorTypes, CallerTypes,
      Preparing, callerVars, requestVars, executorVars, laneVars, closeVars, configVars,
      stopVars, Calls
  <1>11. CASE CallbackUntracks
    BY <1>11, CallsAssumption DEF CallbackUntracks, ExecutorTypes, CallerTypes, Preparing,
      callerVars, requestVars, executorVars, laneVars, closeVars, configVars, stopVars, Calls
  <1>12. CASE ShutDownExecutor
    <2>1. /\ executor' \in {executor, "shut"} /\ pool' \in {pool, <<>>}
          /\ UNCHANGED <<worker, armed, tracked>>
      BY <1>12 DEF ShutDownExecutor
    <2>2. \/ future' = future
          \/ future' = [r \in Patches |-> IF future[r] = "queued" THEN "cancelled"
               ELSE future[r]]
      BY <1>12 DEF ShutDownExecutor
    <2>3. future' \in [Patches -> {"none", "queued", "running", "built", "raised",
                                   "cancelled", "taken"}]
      BY <2>2 DEF ExecutorTypes
    <2>4. <<>> \in Seq(Patches) /\ pool \in Seq(Patches)
      BY DEF ExecutorTypes
    <2> QED
      BY <2>1, <2>3, <2>4 DEF ExecutorTypes
  <1>13. CASE StopReturns
    BY <1>13, CallsAssumption DEF StopReturns, ExecutorTypes, CallerTypes, Preparing,
      callerVars, requestVars, executorVars, laneVars, closeVars, configVars, stopVars, Calls
  <1>14. CASE Start
    BY <1>14, CallsAssumption DEF Start, ExecutorTypes, CallerTypes, Preparing, callerVars,
      requestVars, executorVars, laneVars, closeVars, configVars, stopVars, Calls
  <1> QED
    BY <1>1, <1>2, <1>3, <1>4, <1>5, <1>6, <1>7, <1>8, <1>9, <1>10, <1>11, <1>12, <1>13, <1>14
      DEF NextPatches, Caller, PrepareWorker, Lane, LaneFailsPending, Stopper, StopFailsPending

LEMMA LaneTypesKept == RequestInv /\ [NextPatches]_patchVars => LaneTypes'
  <1> SUFFICES ASSUME RequestInv, [NextPatches]_patchVars PROVE LaneTypes'
    OBVIOUS
  <1> LaneTypes /\ Lanes
    BY TypeParts DEF RequestInv
  <1>1. CASE UNCHANGED patchVars \/ (\E r \in Calls : CreateRequest(r)) \/ (\E r \in Calls :
    SubmitPreparation(r)) \/ (\E r \in Calls : TakeResult(r)) \/ (\E r \in Calls :
    KeepOrDiscard(r)) \/ (\E r \in Calls : PreparationRaised(r)) \/ (\E r \in Calls :
    Untrack(r)) \/ (\E r \in Calls : Abandon(r)) \/ (\E r \in Calls : DiscardDoneFuture(r)) \/
    (\E r \in Calls : DeadlineBeforeQueue(r)) \/ (\E r \in Calls : EnqueueRefused(r)) \/ (\E r
    \in Calls : Cancel(r)) \/ (\E r \in Calls : Acknowledged(r)) \/ StartBuild \/ PassOver \/
    FinishBuild \/ CallbackDiscards \/ CallbackUntracks \/ RequestStop \/ StopTakesLock \/
    StopDrained \/ StopJoins \/ ShutDownExecutor \/ StopReturns \/ StopTimesOut \/
    PublisherFails \/ (\E r \in Patches : CloseResource(r))
    <2>1. UNCHANGED <<laneVars>>
      BY <1>1 DEF patchVars, callerVars, requestVars, executorVars, laneVars, closeVars,
        configVars, stopVars, CreateRequest, SubmitPreparation, TakeResult, KeepOrDiscard,
        PreparationRaised, Untrack, Abandon, DiscardDoneFuture, DeadlineBeforeQueue,
        EnqueueRefused, Cancel, Acknowledged, StartBuild, PassOver, FinishBuild,
        CallbackDiscards, CallbackUntracks, RequestStop, StopTakesLock, StopDrained, StopJoins,
        ShutDownExecutor, StopReturns, StopTimesOut, PublisherFails, CloseResource
    <2> QED
      BY <2>1 DEF LaneTypes, laneVars
  <1>2. ASSUME NEW r \in Calls, Enqueue(r) PROVE LaneTypes'
    BY <1>2, CallsAssumption DEF Enqueue, MayCall, Accepting, Running, LaneTypes, Lanes,
      callerVars, requestVars, executorVars, laneVars, closeVars, configVars, stopVars, Calls,
      LanePC
  <1>3. CASE TakePatch
    BY <1>3, CallsAssumption DEF TakePatch, ScheduleClose, Held, Settle, Answered, Fresh,
      LaneTypes, Lanes, callerVars, requestVars, executorVars, laneVars, closeVars, configVars,
      stopVars, Calls, LanePC
  <1>4. CASE TrialFails
    BY <1>4, CallsAssumption DEF TrialFails, ScheduleClose, Settle, Answered, LaneTypes, Lanes,
      callerVars, requestVars, executorVars, laneVars, closeVars, configVars, stopVars, Calls,
      LanePC
  <1>5. CASE FailPublished
    BY <1>5, CallsAssumption DEF FailPublished, LaneTypes, Lanes, callerVars, requestVars,
      executorVars, laneVars, closeVars, configVars, stopVars, Calls, LanePC
  <1>6. CASE CommitCancelled
    BY <1>6, CallsAssumption DEF CommitCancelled, StillWanted, ScheduleClose, LaneTypes, Lanes,
      callerVars, requestVars, executorVars, laneVars, closeVars, configVars, stopVars, Calls,
      LanePC
  <1>7. CASE Commit
    BY <1>7, CallsAssumption DEF Commit, StillWanted, Settle, Answered, LaneTypes, Lanes,
      callerVars, requestVars, executorVars, laneVars, closeVars, configVars, stopVars, Calls,
      LanePC
  <1>8. CASE ActivationFails
    BY <1>8, CallsAssumption DEF ActivationFails, StillWanted, ScheduleClose, Settle, Answered,
      LaneTypes, Lanes, callerVars, requestVars, executorVars, laneVars, closeVars, configVars,
      stopVars, Calls, LanePC
  <1>9. CASE RollbackRaises
    BY <1>9, CallsAssumption DEF RollbackRaises, StillWanted, LaneTypes, Lanes, callerVars,
      requestVars, executorVars, laneVars, closeVars, configVars, stopVars, Calls, LanePC
  <1>10. CASE CloseReplaced
    BY <1>10, CallsAssumption DEF CloseReplaced, ScheduleClose, LaneTypes, Lanes, callerVars,
      requestVars, executorVars, laneVars, closeVars, configVars, stopVars, Calls, LanePC
  <1>11. CASE Mutate
    BY <1>11, CallsAssumption DEF Mutate, Settle, Answered, LaneTypes, Lanes, callerVars,
      requestVars, executorVars, laneVars, closeVars, configVars, stopVars, Calls, LanePC
  <1>12. CASE LeaveLoop
    BY <1>12, CallsAssumption DEF LeaveLoop, LaneTypes, Lanes, callerVars, requestVars,
      executorVars, laneVars, closeVars, configVars, stopVars, Calls, LanePC
  <1>13. CASE LaneStops
    BY <1>13, CallsAssumption DEF LaneStops, LaneTypes, Lanes, callerVars, requestVars,
      executorVars, laneVars, closeVars, configVars, stopVars, Calls, LanePC
  <1>14. CASE FailHead
    BY <1>14, CallsAssumption DEF FailHead, Settle, Answered, ScheduleClose, Held, LaneTypes,
      Lanes, callerVars, requestVars, executorVars, laneVars, closeVars, configVars, stopVars,
      Calls, LanePC
  <1>15. CASE LaneDrained
    BY <1>15, CallsAssumption DEF LaneDrained, LaneTypes, Lanes, callerVars, requestVars,
      executorVars, laneVars, closeVars, configVars, stopVars, Calls, LanePC
  <1>16. CASE LaneCloses
    BY <1>16, CallsAssumption DEF LaneCloses, LaneTypes, Lanes, callerVars, requestVars,
      executorVars, laneVars, closeVars, configVars, stopVars, Calls, LanePC
  <1>17. CASE Start
    BY <1>17, CallsAssumption DEF Start, LaneTypes, Lanes, callerVars, requestVars,
      executorVars, laneVars, closeVars, configVars, stopVars, Calls, LanePC
  <1>18. CASE NotificationFails
    BY <1>18, CallsAssumption DEF NotificationFails, LaneTypes, Lanes, callerVars, requestVars,
      executorVars, laneVars, closeVars, configVars, stopVars, Calls, LanePC
  <1> QED
    BY <1>1, <1>2, <1>3, <1>4, <1>5, <1>6, <1>7, <1>8, <1>9, <1>10, <1>11, <1>12, <1>13,
      <1>14, <1>15, <1>16, <1>17, <1>18 DEF NextPatches, Caller, PrepareWorker, Lane,
      LaneFailsPending, Stopper, StopFailsPending

LEMMA CloseTypesKept == RequestInv /\ [NextPatches]_patchVars => CloseTypes'
  <1> SUFFICES ASSUME RequestInv, [NextPatches]_patchVars PROVE CloseTypes'
    OBVIOUS
  <1> CloseTypes /\ LaneTypes /\ CallerTypes /\ Preparing
    BY TypeParts DEF RequestInv
  <1>1. CASE UNCHANGED patchVars \/ (\E r \in Calls : CreateRequest(r)) \/ (\E r \in Calls :
    SubmitPreparation(r)) \/ (\E r \in Calls : TakeResult(r)) \/ (\E r \in Calls :
    PreparationRaised(r)) \/ (\E r \in Calls : Untrack(r)) \/ (\E r \in Calls : Abandon(r)) \/
    (\E r \in Calls : Enqueue(r)) \/ (\E r \in Calls : Acknowledged(r)) \/ StartBuild \/
    PassOver \/ FinishBuild \/ CallbackUntracks \/ FailPublished \/ Commit \/ Mutate \/
    LeaveLoop \/ LaneStops \/ LaneDrained \/ RequestStop \/ StopTakesLock \/ StopDrained \/
    StopJoins \/ ShutDownExecutor \/ StopReturns \/ StopTimesOut \/ Start \/ PublisherFails \/
    NotificationFails
    <2>1. UNCHANGED <<closeVars>>
      BY <1>1 DEF patchVars, callerVars, requestVars, executorVars, laneVars, closeVars,
        configVars, stopVars, CreateRequest, SubmitPreparation, TakeResult, PreparationRaised,
        Untrack, Abandon, Enqueue, Acknowledged, StartBuild, PassOver, FinishBuild,
        CallbackUntracks, FailPublished, Commit, Mutate, LeaveLoop, LaneStops, LaneDrained,
        RequestStop, StopTakesLock, StopDrained, StopJoins, ShutDownExecutor, StopReturns,
        StopTimesOut, Start, PublisherFails, NotificationFails
    <2> QED
      BY <2>1 DEF CloseTypes, closeVars
  <1>2. ASSUME NEW r \in Calls, KeepOrDiscard(r) PROVE CloseTypes'
    <2>1. (\E S : CloseNow(S)) \/ UNCHANGED closeVars
      BY <1>2 DEF KeepOrDiscard
    <2> QED
      BY <2>1, CloseNowSteps DEF CloseTypes, closeVars
  <1>3. ASSUME NEW r \in Calls, DiscardDoneFuture(r) PROVE CloseTypes'
    <2>1. PICK S : CloseNow(S)
      BY <1>3 DEF DiscardDoneFuture
    <2> QED
      BY <2>1, CloseNowSteps DEF CloseTypes
  <1>4. ASSUME NEW r \in Calls, DeadlineBeforeQueue(r) PROVE CloseTypes'
    BY <1>4, CallsAssumption DEF DeadlineBeforeQueue, ScheduleClose, Held, Return, CloseTypes,
      LaneTypes, CallerTypes, Preparing, callerVars, requestVars, executorVars, laneVars,
      closeVars, configVars, stopVars, Calls
  <1>5. ASSUME NEW r \in Calls, EnqueueRefused(r) PROVE CloseTypes'
    <2>1. PICK S : CloseNow(S)
      BY <1>5 DEF EnqueueRefused
    <2> QED
      BY <2>1, CloseNowSteps DEF CloseTypes
  <1>6. ASSUME NEW r \in Calls, Cancel(r) PROVE CloseTypes'
    <2>1. Held(r) \subseteq {r}
      BY DEF Held
    <2>2. UNCHANGED closeVars \/ (r \in Patches /\ ScheduleClose(Held(r)))
      BY <1>6 DEF Cancel, closeVars
    <2> QED
      BY <2>1, <2>2 DEF CloseTypes, closeVars, ScheduleClose
  <1>7. CASE CallbackDiscards
    <2>1. PICK S : CloseNow(S)
      BY <1>7 DEF CallbackDiscards
    <2> QED
      BY <2>1, CloseNowSteps DEF CloseTypes
  <1>8. CASE TakePatch
    BY <1>8, CallsAssumption DEF TakePatch, ScheduleClose, Held, Settle, Answered, Fresh,
      CloseTypes, LaneTypes, CallerTypes, Preparing, callerVars, requestVars, executorVars,
      laneVars, closeVars, configVars, stopVars, Calls
  <1>9. CASE TrialFails
    BY <1>9, CallsAssumption DEF TrialFails, ScheduleClose, Settle, Answered, CloseTypes,
      LaneTypes, CallerTypes, Preparing, callerVars, requestVars, executorVars, laneVars,
      closeVars, configVars, stopVars, Calls
  <1>10. CASE CommitCancelled
    BY <1>10, CallsAssumption DEF CommitCancelled, StillWanted, ScheduleClose, CloseTypes,
      LaneTypes, CallerTypes, Preparing, callerVars, requestVars, executorVars, laneVars,
      closeVars, configVars, stopVars, Calls
  <1>11. CASE ActivationFails
    BY <1>11, CallsAssumption DEF ActivationFails, StillWanted, ScheduleClose, Settle,
      Answered, CloseTypes, LaneTypes, CallerTypes, Preparing, callerVars, requestVars,
      executorVars, laneVars, closeVars, configVars, stopVars, Calls
  <1>12. CASE RollbackRaises
    BY <1>12, CallsAssumption DEF RollbackRaises, StillWanted, CloseTypes, LaneTypes,
      CallerTypes, Preparing, callerVars, requestVars, executorVars, laneVars, closeVars,
      configVars, stopVars, Calls
  <1>13. CASE CloseReplaced
    BY <1>13, CallsAssumption DEF CloseReplaced, ScheduleClose, CloseTypes, LaneTypes,
      CallerTypes, Preparing, callerVars, requestVars, executorVars, laneVars, closeVars,
      configVars, stopVars, Calls
  <1>14. CASE FailHead
    BY <1>14, CallsAssumption DEF FailHead, Settle, Answered, ScheduleClose, Held, CloseTypes,
      LaneTypes, CallerTypes, Preparing, callerVars, requestVars, executorVars, laneVars,
      closeVars, configVars, stopVars, Calls
  <1>15. CASE LaneCloses
    <2>1. /\ deferred' = {} /\ UNCHANGED <<teardown, dropped>>
          /\ closes' = [q \in Patches |-> IF q = live \/ q \in deferred THEN closes[q] + 1
                                          ELSE closes[q]]
      BY <1>15 DEF LaneCloses
    <2>2. closes' \in [Patches -> Nat]
      BY <2>1 DEF CloseTypes
    <2> QED
      BY <2>1, <2>2 DEF CloseTypes
  <1>16. ASSUME NEW r \in Patches, CloseResource(r) PROVE CloseTypes'
    <2>1. /\ teardown' = teardown \ {r} /\ UNCHANGED <<deferred, dropped>>
          /\ closes' = [closes EXCEPT ![r] = closes[r] + 1]
      BY <1>16 DEF CloseResource
    <2>2. closes' \in [Patches -> Nat] /\ teardown' \subseteq Patches
      BY <2>1 DEF CloseTypes
    <2> QED
      BY <2>1, <2>2 DEF CloseTypes
  <1> QED
    BY <1>1, <1>2, <1>3, <1>4, <1>5, <1>6, <1>7, <1>8, <1>9, <1>10, <1>11, <1>12, <1>13,
      <1>14, <1>15, <1>16 DEF NextPatches, Caller, PrepareWorker, Lane, LaneFailsPending,
      Stopper, StopFailsPending

LEMMA ConfigTypesKept == RequestInv /\ [NextPatches]_patchVars => ConfigTypes'
  <1> SUFFICES ASSUME RequestInv, [NextPatches]_patchVars PROVE ConfigTypes'
    OBVIOUS
  <1> ConfigTypes /\ LaneTypes /\ ExecutorTypes /\ Lanes
    BY TypeParts DEF RequestInv
  <1>1. CASE UNCHANGED patchVars \/ (\E r \in Calls : CreateRequest(r)) \/ (\E r \in Calls :
    SubmitPreparation(r)) \/ (\E r \in Calls : TakeResult(r)) \/ (\E r \in Calls :
    KeepOrDiscard(r)) \/ (\E r \in Calls : PreparationRaised(r)) \/ (\E r \in Calls :
    Untrack(r)) \/ (\E r \in Calls : Abandon(r)) \/ (\E r \in Calls : DiscardDoneFuture(r)) \/
    (\E r \in Calls : DeadlineBeforeQueue(r)) \/ (\E r \in Calls : Enqueue(r)) \/ (\E r \in
    Calls : EnqueueRefused(r)) \/ (\E r \in Calls : Cancel(r)) \/ (\E r \in Calls :
    Acknowledged(r)) \/ PassOver \/ FinishBuild \/ CallbackDiscards \/ CallbackUntracks \/
    TakePatch \/ TrialFails \/ FailPublished \/ CommitCancelled \/ ActivationFails \/
    RollbackRaises \/ CloseReplaced \/ LeaveLoop \/ LaneStops \/ FailHead \/ LaneDrained \/
    LaneCloses \/ RequestStop \/ StopTakesLock \/ StopDrained \/ StopJoins \/ ShutDownExecutor
    \/ StopReturns \/ StopTimesOut \/ Start \/ PublisherFails \/ NotificationFails \/ (\E r
    \in Patches : CloseResource(r))
    <2>1. UNCHANGED <<configVars>>
      BY <1>1 DEF patchVars, callerVars, requestVars, executorVars, laneVars, closeVars,
        configVars, stopVars, CreateRequest, SubmitPreparation, TakeResult, KeepOrDiscard,
        PreparationRaised, Untrack, Abandon, DiscardDoneFuture, DeadlineBeforeQueue, Enqueue,
        EnqueueRefused, Cancel, Acknowledged, PassOver, FinishBuild, CallbackDiscards,
        CallbackUntracks, TakePatch, TrialFails, FailPublished, CommitCancelled,
        ActivationFails, RollbackRaises, CloseReplaced, LeaveLoop, LaneStops, FailHead,
        LaneDrained, LaneCloses, RequestStop, StopTakesLock, StopDrained, StopJoins,
        ShutDownExecutor, StopReturns, StopTimesOut, Start, PublisherFails, NotificationFails,
        CloseResource
    <2> QED
      BY <2>1 DEF ConfigTypes, configVars
  <1>2. CASE StartBuild
    BY <1>2, CallsAssumption DEF StartBuild, ConfigTypes, LaneTypes, ExecutorTypes, Lanes,
      callerVars, requestVars, executorVars, laneVars, closeVars, configVars, stopVars, Calls
  <1>3. CASE Commit
    BY <1>3, CallsAssumption DEF Commit, StillWanted, Settle, Answered, ConfigTypes, LaneTypes,
      ExecutorTypes, Lanes, callerVars, requestVars, executorVars, laneVars, closeVars,
      configVars, stopVars, Calls
  <1>4. CASE Mutate
    <2>1. PICK r : r = Head(queue)
      OBVIOUS
    <2>2. r \in Mutations /\ UNCHANGED <<version, builtOn, committed>>
      BY <1>4, <2>1 DEF Mutate
    <2>3. \/ UNCHANGED <<assets, storageEpoch, performed>>
          \/ /\ assets' = assets + 1 /\ storageEpoch' = storageEpoch + 1
             /\ performed' = performed \cup {r}
      BY <1>4, <2>1 DEF Mutate
    <2> QED
      BY <2>2, <2>3 DEF ConfigTypes
  <1> QED
    BY <1>1, <1>2, <1>3, <1>4 DEF NextPatches, Caller, PrepareWorker, Lane, LaneFailsPending,
      Stopper, StopFailsPending

LEMMA StopTypesKept == RequestInv /\ [NextPatches]_patchVars => StopTypes'
  <1> SUFFICES ASSUME RequestInv, [NextPatches]_patchVars PROVE StopTypes'
    OBVIOUS
  <1> StopTypes
    BY TypeParts DEF RequestInv
  <1>1. CASE UNCHANGED patchVars \/ (\E r \in Calls : CreateRequest(r)) \/ (\E r \in Calls :
    SubmitPreparation(r)) \/ (\E r \in Calls : TakeResult(r)) \/ (\E r \in Calls :
    KeepOrDiscard(r)) \/ (\E r \in Calls : PreparationRaised(r)) \/ (\E r \in Calls :
    Untrack(r)) \/ (\E r \in Calls : Abandon(r)) \/ (\E r \in Calls : DiscardDoneFuture(r)) \/
    (\E r \in Calls : DeadlineBeforeQueue(r)) \/ (\E r \in Calls : Enqueue(r)) \/ (\E r \in
    Calls : EnqueueRefused(r)) \/ (\E r \in Calls : Cancel(r)) \/ (\E r \in Calls :
    Acknowledged(r)) \/ StartBuild \/ PassOver \/ FinishBuild \/ CallbackDiscards \/
    CallbackUntracks \/ TakePatch \/ TrialFails \/ FailPublished \/ CommitCancelled \/ Commit
    \/ ActivationFails \/ RollbackRaises \/ CloseReplaced \/ Mutate \/ LeaveLoop \/ FailHead
    \/ (\E r \in Patches : CloseResource(r))
    <2>1. UNCHANGED <<stopVars>>
      BY <1>1 DEF patchVars, callerVars, requestVars, executorVars, laneVars, closeVars,
        configVars, stopVars, CreateRequest, SubmitPreparation, TakeResult, KeepOrDiscard,
        PreparationRaised, Untrack, Abandon, DiscardDoneFuture, DeadlineBeforeQueue, Enqueue,
        EnqueueRefused, Cancel, Acknowledged, StartBuild, PassOver, FinishBuild,
        CallbackDiscards, CallbackUntracks, TakePatch, TrialFails, FailPublished,
        CommitCancelled, Commit, ActivationFails, RollbackRaises, CloseReplaced, Mutate,
        LeaveLoop, FailHead, CloseResource
    <2> QED
      BY <2>1 DEF StopTypes, stopVars
  <1>2. CASE LaneStops
    BY <1>2, CallsAssumption DEF LaneStops, StopTypes, callerVars, requestVars, executorVars,
      laneVars, closeVars, configVars, stopVars, Calls, StopPC
  <1>3. CASE LaneDrained
    BY <1>3, CallsAssumption DEF LaneDrained, StopTypes, callerVars, requestVars, executorVars,
      laneVars, closeVars, configVars, stopVars, Calls, StopPC
  <1>4. CASE LaneCloses
    BY <1>4, CallsAssumption DEF LaneCloses, StopTypes, callerVars, requestVars, executorVars,
      laneVars, closeVars, configVars, stopVars, Calls, StopPC
  <1>5. CASE RequestStop
    <2>1. stops' \in Nat
      BY <1>5 DEF RequestStop, StopTypes
    <2>2. /\ stopping' = TRUE /\ publisherUp' = FALSE /\ stopper' = "requested"
          /\ UNCHANGED <<enqueueLock, starts>>
      BY <1>5 DEF RequestStop
    <2> QED
      BY <2>1, <2>2 DEF StopTypes, StopPC
  <1>6. CASE StopTakesLock
    BY <1>6, CallsAssumption DEF StopTakesLock, StopTypes, callerVars, requestVars,
      executorVars, laneVars, closeVars, configVars, stopVars, Calls, StopPC
  <1>7. CASE StopDrained
    BY <1>7, CallsAssumption DEF StopDrained, StopTypes, callerVars, requestVars, executorVars,
      laneVars, closeVars, configVars, stopVars, Calls, StopPC
  <1>8. CASE StopJoins
    BY <1>8, CallsAssumption DEF StopJoins, StopTypes, callerVars, requestVars, executorVars,
      laneVars, closeVars, configVars, stopVars, Calls, StopPC
  <1>9. CASE ShutDownExecutor
    BY <1>9, CallsAssumption DEF ShutDownExecutor, StopTypes, callerVars, requestVars,
      executorVars, laneVars, closeVars, configVars, stopVars, Calls, StopPC
  <1>10. CASE StopReturns
    BY <1>10, CallsAssumption DEF StopReturns, StopTypes, callerVars, requestVars,
      executorVars, laneVars, closeVars, configVars, stopVars, Calls, StopPC
  <1>11. CASE StopTimesOut
    BY <1>11, CallsAssumption DEF StopTimesOut, StopTypes, callerVars, requestVars,
      executorVars, laneVars, closeVars, configVars, stopVars, Calls, StopPC
  <1>12. CASE Start
    <2>1. starts' \in Nat
      BY <1>12 DEF Start, StopTypes
    <2>2. /\ stopping' = FALSE /\ publisherUp' = TRUE /\ stopper' = "idle"
          /\ UNCHANGED <<enqueueLock, stops>>
      BY <1>12 DEF Start
    <2> QED
      BY <2>1, <2>2 DEF StopTypes, StopPC
  <1>13. CASE PublisherFails
    BY <1>13, CallsAssumption DEF PublisherFails, StopTypes, callerVars, requestVars,
      executorVars, laneVars, closeVars, configVars, stopVars, Calls, StopPC
  <1>14. CASE NotificationFails
    BY <1>14, CallsAssumption DEF NotificationFails, StopTypes, callerVars, requestVars,
      executorVars, laneVars, closeVars, configVars, stopVars, Calls, StopPC
  <1> QED
    BY <1>1, <1>2, <1>3, <1>4, <1>5, <1>6, <1>7, <1>8, <1>9, <1>10, <1>11, <1>12, <1>13, <1>14
      DEF NextPatches, Caller, PrepareWorker, Lane, LaneFailsPending, Stopper, StopFailsPending

LEMMA TypesKept == RequestInv /\ [NextPatches]_patchVars => PatchTypes'
  <1> SUFFICES ASSUME RequestInv, [NextPatches]_patchVars PROVE PatchTypes'
    OBVIOUS
  <1> QED
    BY CallerTypesKept, RequestTypesKept, ExecutorTypesKept, LaneTypesKept, CloseTypesKept,
      ConfigTypesKept, StopTypesKept DEF PatchTypes, CallerTypes, RequestTypes, ExecutorTypes,
      LaneTypes, CloseTypes, ConfigTypes, StopTypes

LEMMA Dequeued ==
  ASSUME PatchTypes, Pending, queue # <<>>, queue' = Tail(queue)
  PROVE  /\ Head(queue) \in Calls /\ InQueue(Head(queue)) /\ NoneTwice'
         /\ \A q : InQueue(q)' <=> InQueue(q) /\ q # Head(queue)
  <1>1. queue \in Seq(Calls) /\ Len(queue) >= 1 /\ Head(queue) = queue[1]
    BY DEF PatchTypes
  <1>2. Len(Tail(queue)) = Len(queue) - 1
            /\ \A i \in 1..(Len(queue) - 1) : Tail(queue)[i] = queue[i + 1]
    BY <1>1
  <1>3. ASSUME NEW q, InQueue(q)' PROVE InQueue(q) /\ q # Head(queue)
    <2>1. PICK i \in 1..(Len(queue) - 1) : queue[i + 1] = q
      BY <1>1, <1>2, <1>3 DEF InQueue
    <2>2. 1 \in 1..Len(queue) /\ i + 1 \in 1..Len(queue) /\ i + 1 # 1
      BY <1>1
    <2> QED
      BY <1>1, <2>1, <2>2 DEF InQueue, Pending, NoneTwice
  <1>4. ASSUME NEW q, InQueue(q), q # Head(queue) PROVE InQueue(q)'
    <2>1. PICK i \in 1..Len(queue) : queue[i] = q
      BY <1>4 DEF InQueue
    <2>2. i - 1 \in 1..(Len(queue) - 1) /\ Tail(queue)[i - 1] = q
      BY <1>1, <1>2, <1>4, <2>1
    <2> QED
      BY <1>1, <1>2, <2>2 DEF InQueue
  <1>5. Head(queue) \in Calls /\ InQueue(Head(queue))
    BY <1>1 DEF InQueue
  <1>6. NoneTwice'
    <2> SUFFICES ASSUME NEW i \in 1..(Len(queue) - 1), NEW j \in 1..(Len(queue) - 1),
                        queue[i + 1] = queue[j + 1]
                 PROVE  i = j
      BY <1>1, <1>2 DEF NoneTwice
    <2>1. i + 1 \in 1..Len(queue) /\ j + 1 \in 1..Len(queue)
      BY <1>1
    <2> QED
      BY <1>1, <2>1 DEF Pending, NoneTwice
  <1> QED
    BY <1>3, <1>4, <1>5, <1>6

LEMMA Enqueued ==
  ASSUME PatchTypes, NEW r \in Calls, queue' = Append(queue, r)
  PROVE  /\ \A q : InQueue(q)' <=> InQueue(q) \/ q = r
         /\ NoneTwice /\ ~InQueue(r) => NoneTwice'
  <1>1. queue \in Seq(Calls) /\ Len(queue) \in Nat
    BY DEF PatchTypes
  <1>2. Len(queue') = Len(queue) + 1 /\ queue'[Len(queue) + 1] = r
        /\ \A i \in 1..Len(queue) : queue'[i] = queue[i]
    BY <1>1
  <1> QED
    BY <1>1, <1>2 DEF InQueue, NoneTwice


\* A caller's step touches its own request and its own candidate only.
Untouched(q) ==
  /\ callAt'[q] = callAt[q] /\ answer'[q] = answer[q] /\ cancelled'[q] = cancelled[q]
  /\ outcome'[q] = outcome[q] /\ done'[q] = done[q] /\ (InQueue(q)' <=> InQueue(q))
  /\ q \in Patches =>
       /\ prepared'[q] = prepared[q] /\ future'[q] = future[q] /\ seen'[q] = seen[q]
       /\ q \in tracked' <=> q \in tracked
       /\ q \in armed' <=> q \in armed
       /\ q \in teardown' <=> q \in teardown
       /\ q \in deferred' <=> q \in deferred
       /\ closes'[q] = closes[q]

LEMMA CallerFrame ==
  ASSUME PatchTypes, NEW r \in Calls, Caller(r), NEW q \in Calls, q # r
  PROVE  /\ Untouched(q)
         /\ UNCHANGED <<executor, worker, laneAt, laneReq, laneAct, replaced, live, dropped,
                        configVars, stopVars>>
  <1> USE DEF CallerTypes, RequestTypes, ExecutorTypes, CloseTypes, Untouched
  <1> CallerTypes /\ RequestTypes /\ ExecutorTypes /\ CloseTypes
    BY TypeParts
  <1>1. CASE CreateRequest(r)
    BY <1>1, CallsAssumption DEF CreateRequest, MayCall, Running, InQueue, callerVars,
      requestVars, executorVars, laneVars, closeVars, configVars, stopVars
  <1>2. CASE SubmitPreparation(r)
    BY <1>2, CallsAssumption DEF SubmitPreparation, Return, InQueue, callerVars, requestVars,
      executorVars, laneVars, closeVars, configVars, stopVars
  <1>3. CASE TakeResult(r)
    BY <1>3, CallsAssumption DEF TakeResult, InQueue, callerVars, requestVars, executorVars,
      laneVars, closeVars, configVars, stopVars
  <1>4. CASE KeepOrDiscard(r)
    BY <1>4, CallsAssumption DEF KeepOrDiscard, Running, CloseNow, InQueue, callerVars,
      requestVars, executorVars, laneVars, closeVars, configVars, stopVars
  <1>5. CASE PreparationRaised(r)
    BY <1>5, CallsAssumption DEF PreparationRaised, InQueue, callerVars, requestVars,
      executorVars, laneVars, closeVars, configVars, stopVars
  <1>6. CASE Untrack(r)
    BY <1>6, CallsAssumption DEF Untrack, Return, InQueue, callerVars, requestVars,
      executorVars, laneVars, closeVars, configVars, stopVars
  <1>7. CASE Abandon(r)
    BY <1>7, CallsAssumption DEF Abandon, Return, InQueue, callerVars, requestVars,
      executorVars, laneVars, closeVars, configVars, stopVars
  <1>8. CASE DiscardDoneFuture(r)
    BY <1>8, CallsAssumption DEF DiscardDoneFuture, CloseNow, InQueue, callerVars, requestVars,
      executorVars, laneVars, closeVars, configVars, stopVars
  <1>9. CASE DeadlineBeforeQueue(r)
    BY <1>9, CallsAssumption DEF DeadlineBeforeQueue, ScheduleClose, Held, Return, InQueue,
      callerVars, requestVars, executorVars, laneVars, closeVars, configVars, stopVars
  <1>10. CASE Enqueue(r)
    <2>1. InQueue(q)' <=> InQueue(q)
      BY <1>10, Enqueued DEF Enqueue
    <2> QED
      BY <1>10, <2>1, CallsAssumption DEF Enqueue, executorVars, requestVars, closeVars,
        configVars, stopVars
  <1>11. CASE EnqueueRefused(r)
    BY <1>11, CallsAssumption DEF EnqueueRefused, Accepting, Running, CloseNow, Held, Return,
      InQueue, callerVars, requestVars, executorVars, laneVars, closeVars, configVars, stopVars
  <1>12. CASE Cancel(r)
    <2>1. UNCHANGED <<queue, laneAt, laneReq, laneAct, replaced, live, dropped, seen, outcome, done,
                      executorVars, configVars, stopVars>>
      BY <1>12 DEF Cancel, laneVars, ScheduleClose, closeVars
    <2>2. callAt'[q] = callAt[q] /\ answer'[q] = answer[q] /\ cancelled'[q] = cancelled[q]
      BY <1>12 DEF Cancel, Return
    <2>3. q \in Patches => /\ prepared'[q] = prepared[q] /\ closes'[q] = closes[q]
                           /\ q \in teardown' <=> q \in teardown
                           /\ q \in deferred' <=> q \in deferred
      BY <1>12 DEF Cancel, ScheduleClose, Held, closeVars
    <2> QED
      BY <2>1, <2>2, <2>3 DEF InQueue, executorVars, configVars
  <1>13. CASE Acknowledged(r)
    BY <1>13, CallsAssumption DEF Acknowledged, Return, InQueue, callerVars, requestVars,
      executorVars, laneVars, closeVars, configVars, stopVars
  <1> QED
    BY <1>1, <1>2, <1>3, <1>4, <1>5, <1>6, <1>7, <1>8, <1>9, <1>10, <1>11, <1>12, <1>13 DEF
      Caller


\* What a caller's step does to the caller and to the future of its own candidate.
LEMMA CallerInStep ==
  ASSUME RequestInv, NEW r \in Calls, Caller(r)
  PROVE  /\ executor # "open" => pool' = <<>>
         /\ worker # NoCall /\ future'[worker] # "running" => worker \in armed'
         /\ r \in Mutations => callAt'[r] \in {"idle", "waiting", "timedOut", "returned"}
         /\ r \in Patches => InStep(r)'
  <1> USE DEF CallerTypes, RequestTypes, ExecutorTypes, InStep
  <1>0. CallerTypes /\ RequestTypes /\ ExecutorTypes /\ Preparing /\ (r \in Patches
            => InStep(r))
        /\ (r \in Mutations => callAt[r] \in {"idle", "waiting", "timedOut", "returned"})
        /\ (r \in Patches \/ r \in Mutations) /\ (r \in Patches => r \notin Mutations)
    BY TypeParts, CallsAssumption DEF RequestInv, Preparing, Calls
  <1>1. CASE CreateRequest(r)
    BY <1>0, <1>1 DEF CreateRequest, MayCall, Running, Preparing, requestVars, executorVars
  <1>2. CASE SubmitPreparation(r)
    BY <1>0, <1>2 DEF SubmitPreparation, Return, Preparing, requestVars, executorVars
  <1>3. CASE TakeResult(r)
    BY <1>0, <1>3 DEF TakeResult, Preparing, requestVars, executorVars
  <1>4. CASE KeepOrDiscard(r)
    BY <1>0, <1>4 DEF KeepOrDiscard, Running, CloseNow, Preparing, requestVars, executorVars
  <1>5. CASE PreparationRaised(r)
    BY <1>0, <1>5 DEF PreparationRaised, Preparing, requestVars, executorVars
  <1>6. CASE Untrack(r)
    BY <1>0, <1>6 DEF Untrack, Return, Preparing, requestVars, executorVars
  <1>7. CASE Abandon(r)
    BY <1>0, <1>7 DEF Abandon, Return, Preparing, requestVars, executorVars
  <1>8. CASE DiscardDoneFuture(r)
    BY <1>0, <1>8 DEF DiscardDoneFuture, CloseNow, Preparing, requestVars, executorVars
  <1>9. CASE DeadlineBeforeQueue(r)
    BY <1>0, <1>9 DEF DeadlineBeforeQueue, ScheduleClose, Held, Return, Preparing, requestVars,
      executorVars
  <1>10. CASE Enqueue(r)
    <2>1. InQueue(r)'
      BY <1>10, Enqueued, TypeParts DEF Enqueue, RequestInv
    <2> QED
      BY <1>0, <1>10, <2>1 DEF Enqueue, Preparing, requestVars, executorVars
  <1>11. CASE EnqueueRefused(r)
    BY <1>0, <1>11 DEF EnqueueRefused, Accepting, Running, CloseNow, Held, Return, Preparing,
      requestVars, executorVars
  <1>12. CASE Cancel(r)
    <2>1. callAt[r] = "waiting" /\ UNCHANGED executorVars
      BY <1>12 DEF Cancel
    <2>2. callAt'[r] \in {"timedOut", "returned"}
      BY <1>0, <1>12 DEF Cancel, Return
    <2>3. ASSUME r \in Patches PROVE ~prepared'[r]
      <3>1. CASE Answered(r)
        <4>1. ~InQueue(r)
          BY <3>1 DEF Answered, RequestInv, Pending, Pends, Calls
        <4> QED
          BY <1>0, <1>12, <2>1, <2>3, <3>1, <4>1 DEF Cancel
      <3>2. CASE ~Answered(r)
        BY <1>0, <1>12, <2>3, <3>2 DEF Cancel
      <3> QED
        BY <3>1, <3>2
    <2> QED
      BY <1>0, <2>1, <2>2, <2>3 DEF Preparing, executorVars
  <1>13. CASE Acknowledged(r)
    <2>1. callAt[r] \in {"waiting", "timedOut"} /\ done[r] /\ callAt'[r] = "returned"
          /\ UNCHANGED <<prepared, executorVars>>
      BY <1>0, <1>13 DEF Acknowledged, Return, requestVars
    <2>2. ~InQueue(r)
      BY <2>1 DEF RequestInv, Pending, Pends, Calls
    <2> QED
      BY <1>0, <2>1, <2>2 DEF Preparing, executorVars
  <1> QED
    BY <1>1, <1>2, <1>3, <1>4, <1>5, <1>6, <1>7, <1>8, <1>9, <1>10, <1>11, <1>12, <1>13 DEF
      Caller

LEMMA PreparingKept == RequestInv /\ [NextPatches]_patchVars => Preparing'
  <1> SUFFICES ASSUME RequestInv, [NextPatches]_patchVars PROVE Preparing'
    OBVIOUS
  <1> USE DEF InStep
  <1> CallerTypes /\ RequestTypes /\ ExecutorTypes /\ LaneTypes /\ Preparing /\ Lanes
          /\ PatchTypes /\ Pending
    BY TypeParts DEF RequestInv
  <1>1. ASSUME NEW r \in Calls, Caller(r) PROVE Preparing'
    <2>1. \A q \in Calls : q # r => Untouched(q)
      BY <1>1, CallerFrame
    <2>2. /\ executor # "open" => pool' = <<>>
          /\ worker # NoCall /\ future'[worker] # "running" => worker \in armed'
          /\ r \in Mutations => callAt'[r] \in {"idle", "waiting", "timedOut", "returned"}
          /\ r \in Patches => InStep(r)'
      BY <1>1, CallerInStep
    <2>3. \A q \in Patches : q # r => InStep(q)'
      BY <2>1 DEF Preparing, Untouched, Calls
    <2>4. \A q \in Mutations : q # r => callAt'[q] = callAt[q]
      BY <2>1 DEF Untouched, Calls
    <2>5. executor' = executor /\ worker' = worker
      BY <1>1 DEF Caller, CreateRequest, SubmitPreparation, TakeResult, KeepOrDiscard,
        PreparationRaised, Untrack, Abandon, DiscardDoneFuture, DeadlineBeforeQueue, Enqueue,
        EnqueueRefused, Cancel, Acknowledged, executorVars
    <2> QED
      BY <2>2, <2>3, <2>4, <2>5 DEF Preparing
  <1>2. CASE UNCHANGED patchVars \/ TrialFails \/ FailPublished \/ CommitCancelled \/ Commit
    \/ ActivationFails \/ RollbackRaises \/ CloseReplaced \/ LeaveLoop \/ LaneStops \/
    LaneDrained \/ LaneCloses \/ RequestStop \/ StopTakesLock \/ StopDrained \/ StopJoins \/
    StopTimesOut \/ PublisherFails \/ NotificationFails \/ (\E r \in Patches :
    CloseResource(r))
    <2>1. UNCHANGED <<callAt, prepared, executorVars, queue>>
      BY <1>2 DEF patchVars, callerVars, requestVars, executorVars, laneVars, closeVars,
        configVars, stopVars, TrialFails, FailPublished, CommitCancelled, Commit,
        ActivationFails, RollbackRaises, CloseReplaced, LeaveLoop, LaneStops, LaneDrained,
        LaneCloses, RequestStop, StopTakesLock, StopDrained, StopJoins, StopTimesOut,
        PublisherFails, NotificationFails, CloseResource
    <2> QED
      BY <2>1 DEF Preparing, InQueue, executorVars
  <1>3. CASE StartBuild
    BY <1>3 DEF StartBuild, Preparing, InQueue, Calls, CallerTypes, RequestTypes,
      ExecutorTypes, LaneTypes, Lanes, callerVars, requestVars, executorVars, laneVars
  <1>4. CASE PassOver
    BY <1>4 DEF PassOver, Preparing, InQueue, Calls, CallerTypes, RequestTypes, ExecutorTypes,
      LaneTypes, Lanes, callerVars, requestVars, executorVars, laneVars
  <1>5. CASE FinishBuild
    BY <1>5 DEF FinishBuild, Preparing, InQueue, Calls, CallerTypes, RequestTypes,
      ExecutorTypes, LaneTypes, Lanes, callerVars, requestVars, executorVars, laneVars
  <1>6. CASE CallbackDiscards
    BY <1>6 DEF CallbackDiscards, CloseNow, Preparing, InQueue, Calls, CallerTypes,
      RequestTypes, ExecutorTypes, LaneTypes, Lanes, callerVars, requestVars, executorVars,
      laneVars
  <1>7. CASE CallbackUntracks
    BY <1>7 DEF CallbackUntracks, Preparing, InQueue, Calls, CallerTypes, RequestTypes,
      ExecutorTypes, LaneTypes, Lanes, callerVars, requestVars, executorVars, laneVars
  <1>8. CASE TakePatch
    <2>1. queue # <<>> /\ queue' = Tail(queue) /\ UNCHANGED <<callAt, executorVars>>
          /\ (Head(queue) \in Mutations => prepared' = prepared)
      BY <1>8, CallsAssumption DEF TakePatch, callerVars
    <2>2. /\ Head(queue) \in Calls
          /\ \A q : InQueue(q)' <=> InQueue(q) /\ q # Head(queue)
      BY <2>1, Dequeued
    <2>3. Head(queue) \in Patches => prepared' = [prepared EXCEPT ![Head(queue)] = FALSE]
      BY <1>8, CallsAssumption DEF TakePatch
    <2>4. \A q \in Patches : InStep(q)'
      BY <2>1, <2>2, <2>3, CallsAssumption DEF Preparing, RequestTypes, Calls, executorVars
    <2> QED
      BY <2>1, <2>4 DEF Preparing, executorVars
  <1>9. CASE Mutate
    <2>1. queue # <<>> /\ queue' = Tail(queue) /\ UNCHANGED <<callAt, executorVars>>
          /\ (Head(queue) \in Mutations => prepared' = prepared)
      BY <1>9, CallsAssumption DEF Mutate, callerVars
    <2>2. /\ Head(queue) \in Calls
          /\ \A q : InQueue(q)' <=> InQueue(q) /\ q # Head(queue)
      BY <2>1, Dequeued
    <2>3. Head(queue) \in Patches => prepared' = [prepared EXCEPT ![Head(queue)] = FALSE]
      BY <1>9, CallsAssumption DEF Mutate
    <2>4. \A q \in Patches : InStep(q)'
      BY <2>1, <2>2, <2>3, CallsAssumption DEF Preparing, RequestTypes, Calls, executorVars
    <2> QED
      BY <2>1, <2>4 DEF Preparing, executorVars
  <1>10. CASE FailHead
    <2>1. queue # <<>> /\ queue' = Tail(queue) /\ UNCHANGED <<callAt, executorVars>>
          /\ (Head(queue) \in Mutations => prepared' = prepared)
      BY <1>10, CallsAssumption DEF FailHead, callerVars
    <2>2. /\ Head(queue) \in Calls
          /\ \A q : InQueue(q)' <=> InQueue(q) /\ q # Head(queue)
      BY <2>1, Dequeued
    <2>3. Head(queue) \in Patches => prepared' = [prepared EXCEPT ![Head(queue)] = FALSE]
      BY <1>10, CallsAssumption DEF FailHead
    <2>4. \A q \in Patches : InStep(q)'
      BY <2>1, <2>2, <2>3, CallsAssumption DEF Preparing, RequestTypes, Calls, executorVars
    <2> QED
      BY <2>1, <2>4 DEF Preparing, executorVars
  <1>11. CASE ShutDownExecutor
    BY <1>11 DEF ShutDownExecutor, Preparing, InQueue, Calls, CallerTypes, RequestTypes,
      ExecutorTypes, LaneTypes, Lanes, callerVars, requestVars, executorVars, laneVars
  <1>12. CASE StopReturns
    <2>1. executor # "open"
              /\ UNCHANGED <<callAt, prepared, pool, worker, future, armed, tracked, queue>>
      BY <1>12 DEF StopReturns, RequestInv, Stopped, callerVars, requestVars, laneVars
    <2>2. executor' = "none"
      BY <1>12 DEF StopReturns
    <2> QED
      BY <2>1, <2>2 DEF Preparing, InQueue
  <1>13. CASE Start
    BY <1>13 DEF Start, Preparing, InQueue, Calls, CallerTypes, RequestTypes, ExecutorTypes,
      LaneTypes, Lanes, callerVars, requestVars, executorVars, laneVars
  <1> QED
    BY <1>1, <1>2, <1>3, <1>4, <1>5, <1>6, <1>7, <1>8, <1>9, <1>10, <1>11, <1>12, <1>13 DEF
      NextPatches, PrepareWorker, Lane, LaneFailsPending, Stopper, StopFailsPending

LEMMA StoppedKept == RequestInv /\ [NextPatches]_patchVars => Stopped'
  <1> SUFFICES ASSUME RequestInv, [NextPatches]_patchVars PROVE Stopped'
    OBVIOUS
  <1> Stopped /\ Lanes /\ (executor # "open" => pool = <<>>) /\ ExecutorTypes /\ StopTypes
          /\ LaneTypes
    BY TypeParts DEF RequestInv, Preparing
  <1>1. CASE UNCHANGED patchVars \/ (\E r \in Calls : CreateRequest(r)) \/ (\E r \in Calls :
    TakeResult(r)) \/ (\E r \in Calls : KeepOrDiscard(r)) \/ (\E r \in Calls :
    PreparationRaised(r)) \/ (\E r \in Calls : DiscardDoneFuture(r)) \/ (\E r \in Calls :
    DeadlineBeforeQueue(r)) \/ (\E r \in Calls : EnqueueRefused(r)) \/ (\E r \in Calls :
    Cancel(r)) \/ (\E r \in Calls : Acknowledged(r)) \/ PassOver \/ CallbackDiscards \/
    PublisherFails \/ (\E r \in Patches : CloseResource(r))
    <2>1. UNCHANGED <<stopper, stopping, queue, laneAt, executor, tracked, worker>>
      BY <1>1 DEF patchVars, callerVars, requestVars, executorVars, laneVars, closeVars,
        configVars, stopVars, CreateRequest, TakeResult, KeepOrDiscard, PreparationRaised,
        DiscardDoneFuture, DeadlineBeforeQueue, EnqueueRefused, Cancel, Acknowledged, PassOver,
        CallbackDiscards, PublisherFails, CloseResource
    <2> QED
      BY <2>1 DEF Stopped
  <1>2. ASSUME NEW r \in Calls, SubmitPreparation(r) PROVE Stopped'
    BY <1>2, CallsAssumption DEF SubmitPreparation, Return, Stopped, Lanes, Draining,
      ExecutorTypes, StopTypes, LaneTypes, callerVars, requestVars, executorVars, laneVars,
      closeVars, configVars, stopVars
  <1>3. ASSUME NEW r \in Calls, Untrack(r) PROVE Stopped'
    BY <1>3, CallsAssumption DEF Untrack, Return, Stopped, Lanes, Draining, ExecutorTypes,
      StopTypes, LaneTypes, callerVars, requestVars, executorVars, laneVars, closeVars,
      configVars, stopVars
  <1>4. ASSUME NEW r \in Calls, Abandon(r) PROVE Stopped'
    BY <1>4, CallsAssumption DEF Abandon, Return, Stopped, Lanes, Draining, ExecutorTypes,
      StopTypes, LaneTypes, callerVars, requestVars, executorVars, laneVars, closeVars,
      configVars, stopVars
  <1>5. ASSUME NEW r \in Calls, Enqueue(r) PROVE Stopped'
    BY <1>5, CallsAssumption DEF Enqueue, MayCall, Accepting, Running, Stopped, Lanes,
      Draining, ExecutorTypes, StopTypes, LaneTypes, callerVars, requestVars, executorVars,
      laneVars, closeVars, configVars, stopVars
  <1>6. CASE StartBuild
    BY <1>6, CallsAssumption DEF StartBuild, Stopped, Lanes, Draining, ExecutorTypes,
      StopTypes, LaneTypes, callerVars, requestVars, executorVars, laneVars, closeVars,
      configVars, stopVars
  <1>7. CASE FinishBuild
    BY <1>7, CallsAssumption DEF FinishBuild, Stopped, Lanes, Draining, ExecutorTypes,
      StopTypes, LaneTypes, callerVars, requestVars, executorVars, laneVars, closeVars,
      configVars, stopVars
  <1>8. CASE CallbackUntracks
    BY <1>8, CallsAssumption DEF CallbackUntracks, Stopped, Lanes, Draining, ExecutorTypes,
      StopTypes, LaneTypes, callerVars, requestVars, executorVars, laneVars, closeVars,
      configVars, stopVars
  <1>9. CASE TakePatch
    BY <1>9, CallsAssumption DEF TakePatch, ScheduleClose, Held, Settle, Answered, Fresh,
      Stopped, Lanes, Draining, ExecutorTypes, StopTypes, LaneTypes, callerVars, requestVars,
      executorVars, laneVars, closeVars, configVars, stopVars
  <1>10. CASE TrialFails
    BY <1>10, CallsAssumption DEF TrialFails, ScheduleClose, Settle, Answered, Stopped, Lanes,
      Draining, ExecutorTypes, StopTypes, LaneTypes, callerVars, requestVars, executorVars,
      laneVars, closeVars, configVars, stopVars
  <1>11. CASE FailPublished
    BY <1>11, CallsAssumption DEF FailPublished, Stopped, Lanes, Draining, ExecutorTypes,
      StopTypes, LaneTypes, callerVars, requestVars, executorVars, laneVars, closeVars,
      configVars, stopVars
  <1>12. CASE CommitCancelled
    BY <1>12, CallsAssumption DEF CommitCancelled, StillWanted, ScheduleClose, Stopped, Lanes,
      Draining, ExecutorTypes, StopTypes, LaneTypes, callerVars, requestVars, executorVars,
      laneVars, closeVars, configVars, stopVars
  <1>13. CASE Commit
    BY <1>13, CallsAssumption DEF Commit, StillWanted, Settle, Answered, Stopped, Lanes,
      Draining, ExecutorTypes, StopTypes, LaneTypes, callerVars, requestVars, executorVars,
      laneVars, closeVars, configVars, stopVars
  <1>14. CASE ActivationFails
    BY <1>14, CallsAssumption DEF ActivationFails, StillWanted, ScheduleClose, Settle,
      Answered, Stopped, Lanes, Draining, ExecutorTypes, StopTypes, LaneTypes, callerVars,
      requestVars, executorVars, laneVars, closeVars, configVars, stopVars
  <1>15. CASE RollbackRaises
    BY <1>15, CallsAssumption DEF RollbackRaises, StillWanted, Stopped, Lanes, Draining,
      ExecutorTypes, StopTypes, LaneTypes, callerVars, requestVars, executorVars, laneVars,
      closeVars, configVars, stopVars
  <1>16. CASE CloseReplaced
    BY <1>16, CallsAssumption DEF CloseReplaced, ScheduleClose, Stopped, Lanes, Draining,
      ExecutorTypes, StopTypes, LaneTypes, callerVars, requestVars, executorVars, laneVars,
      closeVars, configVars, stopVars
  <1>17. CASE Mutate
    BY <1>17, CallsAssumption DEF Mutate, Settle, Answered, Stopped, Lanes, Draining,
      ExecutorTypes, StopTypes, LaneTypes, callerVars, requestVars, executorVars, laneVars,
      closeVars, configVars, stopVars
  <1>18. CASE LeaveLoop
    BY <1>18, CallsAssumption DEF LeaveLoop, Stopped, Lanes, Draining, ExecutorTypes,
      StopTypes, LaneTypes, callerVars, requestVars, executorVars, laneVars, closeVars,
      configVars, stopVars
  <1>19. CASE LaneStops
    BY <1>19, CallsAssumption DEF LaneStops, Stopped, Lanes, Draining, ExecutorTypes,
      StopTypes, LaneTypes, callerVars, requestVars, executorVars, laneVars, closeVars,
      configVars, stopVars
  <1>20. CASE FailHead
    BY <1>20, CallsAssumption DEF FailHead, Settle, Answered, ScheduleClose, Held, Stopped,
      Lanes, Draining, ExecutorTypes, StopTypes, LaneTypes, callerVars, requestVars,
      executorVars, laneVars, closeVars, configVars, stopVars
  <1>21. CASE LaneDrained
    BY <1>21, CallsAssumption DEF LaneDrained, Stopped, Lanes, Draining, ExecutorTypes,
      StopTypes, LaneTypes, callerVars, requestVars, executorVars, laneVars, closeVars,
      configVars, stopVars
  <1>22. CASE LaneCloses
    BY <1>22, CallsAssumption DEF LaneCloses, Stopped, Lanes, Draining, ExecutorTypes,
      StopTypes, LaneTypes, callerVars, requestVars, executorVars, laneVars, closeVars,
      configVars, stopVars
  <1>23. CASE RequestStop
    BY <1>23, CallsAssumption DEF RequestStop, Stopped, Lanes, Draining, ExecutorTypes,
      StopTypes, LaneTypes, callerVars, requestVars, executorVars, laneVars, closeVars,
      configVars, stopVars
  <1>24. CASE StopTakesLock
    BY <1>24, CallsAssumption DEF StopTakesLock, Stopped, Lanes, Draining, ExecutorTypes,
      StopTypes, LaneTypes, callerVars, requestVars, executorVars, laneVars, closeVars,
      configVars, stopVars
  <1>25. CASE StopDrained
    BY <1>25, CallsAssumption DEF StopDrained, Stopped, Lanes, Draining, ExecutorTypes,
      StopTypes, LaneTypes, callerVars, requestVars, executorVars, laneVars, closeVars,
      configVars, stopVars
  <1>26. CASE StopJoins
    BY <1>26, CallsAssumption DEF StopJoins, Stopped, Lanes, Draining, ExecutorTypes,
      StopTypes, LaneTypes, callerVars, requestVars, executorVars, laneVars, closeVars,
      configVars, stopVars
  <1>27. CASE ShutDownExecutor
    BY <1>27, CallsAssumption DEF ShutDownExecutor, Stopped, Lanes, Draining, ExecutorTypes,
      StopTypes, LaneTypes, callerVars, requestVars, executorVars, laneVars, closeVars,
      configVars, stopVars
  <1>28. CASE StopReturns
    BY <1>28, CallsAssumption DEF StopReturns, Stopped, Lanes, Draining, ExecutorTypes,
      StopTypes, LaneTypes, callerVars, requestVars, executorVars, laneVars, closeVars,
      configVars, stopVars
  <1>29. CASE StopTimesOut
    BY <1>29, CallsAssumption DEF StopTimesOut, Stopped, Lanes, Draining, ExecutorTypes,
      StopTypes, LaneTypes, callerVars, requestVars, executorVars, laneVars, closeVars,
      configVars, stopVars
  <1>30. CASE Start
    BY <1>30, CallsAssumption DEF Start, Stopped, Lanes, Draining, ExecutorTypes, StopTypes,
      LaneTypes, callerVars, requestVars, executorVars, laneVars, closeVars, configVars,
      stopVars
  <1>31. CASE NotificationFails
    BY <1>31, CallsAssumption DEF NotificationFails, Stopped, Lanes, Draining, ExecutorTypes,
      StopTypes, LaneTypes, callerVars, requestVars, executorVars, laneVars, closeVars,
      configVars, stopVars
  <1> QED
    BY <1>1, <1>2, <1>3, <1>4, <1>5, <1>6, <1>7, <1>8, <1>9, <1>10, <1>11, <1>12, <1>13,
      <1>14, <1>15, <1>16, <1>17, <1>18, <1>19, <1>20, <1>21, <1>22, <1>23, <1>24, <1>25,
      <1>26, <1>27, <1>28, <1>29, <1>30, <1>31 DEF NextPatches, Caller, PrepareWorker, Lane,
      LaneFailsPending, Stopper, StopFailsPending

LEMMA BuiltKept == RequestInv /\ [NextPatches]_patchVars => BuiltBetween'
  <1> SUFFICES ASSUME RequestInv, [NextPatches]_patchVars PROVE BuiltBetween'
    OBVIOUS
  <1> BuiltBetween /\ Preparing /\ CallerTypes /\ ExecutorTypes /\ ConfigTypes
    BY TypeParts DEF RequestInv
  <1>1. CASE UNCHANGED patchVars \/ (\E r \in Calls : KeepOrDiscard(r)) \/ (\E r \in Calls :
    PreparationRaised(r)) \/ (\E r \in Calls : Untrack(r)) \/ (\E r \in Calls :
    DeadlineBeforeQueue(r)) \/ (\E r \in Calls : Enqueue(r)) \/ (\E r \in Calls :
    EnqueueRefused(r)) \/ (\E r \in Calls : Cancel(r)) \/ (\E r \in Calls : Acknowledged(r))
    \/ PassOver \/ CallbackUntracks \/ TakePatch \/ TrialFails \/ FailPublished \/
    CommitCancelled \/ Commit \/ ActivationFails \/ RollbackRaises \/ CloseReplaced \/
    LeaveLoop \/ LaneStops \/ FailHead \/ LaneDrained \/ LaneCloses \/ RequestStop \/
    StopTakesLock \/ StopDrained \/ StopJoins \/ StopReturns \/ StopTimesOut \/ Start \/
    PublisherFails \/ NotificationFails \/ (\E r \in Patches : CloseResource(r))
    <2>1. UNCHANGED <<assets, storageEpoch, seen, future, builtOn>>
      BY <1>1 DEF patchVars, callerVars, requestVars, executorVars, laneVars, closeVars,
        configVars, stopVars, KeepOrDiscard, PreparationRaised, Untrack, DeadlineBeforeQueue,
        Enqueue, EnqueueRefused, Cancel, Acknowledged, PassOver, CallbackUntracks, TakePatch,
        TrialFails, FailPublished, CommitCancelled, Commit, ActivationFails, RollbackRaises,
        CloseReplaced, LeaveLoop, LaneStops, FailHead, LaneDrained, LaneCloses, RequestStop,
        StopTakesLock, StopDrained, StopJoins, StopReturns, StopTimesOut, Start,
        PublisherFails, NotificationFails, CloseResource
    <2> QED
      BY <2>1 DEF BuiltBetween
  <1>2. ASSUME NEW r \in Calls, CreateRequest(r) PROVE BuiltBetween'
    <2>1. r \in Patches /\ callAt[r] = "idle" /\ future[r] = "none"
      BY <1>2 DEF CreateRequest, Preparing, InStep
    <2>2. /\ seen' = [seen EXCEPT ![r] = storageEpoch]
          /\ UNCHANGED <<assets, storageEpoch, future, builtOn>>
      BY <1>2 DEF CreateRequest, executorVars, configVars
    <2> QED
      BY <2>1, <2>2 DEF BuiltBetween, CallerTypes, ConfigTypes
  <1>3. ASSUME NEW r \in Calls, SubmitPreparation(r) PROVE BuiltBetween'
    BY <1>3 DEF SubmitPreparation, Return, BuiltBetween, Preparing, CallerTypes, ExecutorTypes,
      ConfigTypes, callerVars, requestVars, executorVars, laneVars, closeVars, configVars,
      stopVars
  <1>4. ASSUME NEW r \in Calls, TakeResult(r) PROVE BuiltBetween'
    BY <1>4 DEF TakeResult, BuiltBetween, Preparing, CallerTypes, ExecutorTypes, ConfigTypes,
      callerVars, requestVars, executorVars, laneVars, closeVars, configVars, stopVars
  <1>5. ASSUME NEW r \in Calls, Abandon(r) PROVE BuiltBetween'
    BY <1>5 DEF Abandon, Return, BuiltBetween, Preparing, CallerTypes, ExecutorTypes,
      ConfigTypes, callerVars, requestVars, executorVars, laneVars, closeVars, configVars,
      stopVars
  <1>6. ASSUME NEW r \in Calls, DiscardDoneFuture(r) PROVE BuiltBetween'
    BY <1>6 DEF DiscardDoneFuture, CloseNow, BuiltBetween, Preparing, CallerTypes,
      ExecutorTypes, ConfigTypes, callerVars, requestVars, executorVars, laneVars, closeVars,
      configVars, stopVars
  <1>7. CASE StartBuild
    BY <1>7 DEF StartBuild, BuiltBetween, Preparing, CallerTypes, ExecutorTypes, ConfigTypes,
      callerVars, requestVars, executorVars, laneVars, closeVars, configVars, stopVars
  <1>8. CASE FinishBuild
    BY <1>8 DEF FinishBuild, BuiltBetween, Preparing, CallerTypes, ExecutorTypes, ConfigTypes,
      callerVars, requestVars, executorVars, laneVars, closeVars, configVars, stopVars
  <1>9. CASE CallbackDiscards
    BY <1>9 DEF CallbackDiscards, CloseNow, BuiltBetween, Preparing, CallerTypes,
      ExecutorTypes, ConfigTypes, callerVars, requestVars, executorVars, laneVars, closeVars,
      configVars, stopVars
  <1>10. CASE Mutate
    BY <1>10 DEF Mutate, Settle, Answered, BuiltBetween, Preparing, CallerTypes, ExecutorTypes,
      ConfigTypes, callerVars, requestVars, executorVars, laneVars, closeVars, configVars,
      stopVars
  <1>11. CASE ShutDownExecutor
    BY <1>11 DEF ShutDownExecutor, BuiltBetween, Preparing, CallerTypes, ExecutorTypes,
      ConfigTypes, callerVars, requestVars, executorVars, laneVars, closeVars, configVars,
      stopVars
  <1> QED
    BY <1>1, <1>2, <1>3, <1>4, <1>5, <1>6, <1>7, <1>8, <1>9, <1>10, <1>11 DEF NextPatches,
      Caller, PrepareWorker, Lane, LaneFailsPending, Stopper, StopFailsPending

LEMMA LanesKept == RequestInv /\ [NextPatches]_patchVars => Lanes'
  <1> SUFFICES ASSUME RequestInv, [NextPatches]_patchVars PROVE Lanes'
    OBVIOUS
  <1> Lanes /\ Pending /\ CallerTypes /\ RequestTypes /\ LaneTypes /\ StopTypes
    BY TypeParts DEF RequestInv
  <1>1. CASE UNCHANGED patchVars \/ (\E r \in Calls : SubmitPreparation(r)) \/ (\E r \in Calls
    : TakeResult(r)) \/ (\E r \in Calls : PreparationRaised(r)) \/ (\E r \in Calls :
    Untrack(r)) \/ (\E r \in Calls : Abandon(r)) \/ (\E r \in Calls : Enqueue(r)) \/ (\E r \in
    Calls : Acknowledged(r)) \/ StartBuild \/ PassOver \/ FinishBuild \/ CallbackUntracks \/
    RequestStop \/ StopTakesLock \/ StopDrained \/ StopJoins \/ ShutDownExecutor \/
    StopReturns \/ StopTimesOut \/ PublisherFails \/ NotificationFails \/ (\E r \in Patches :
    CloseResource(r))
    <2>1. UNCHANGED <<laneAt, laneReq, laneAct, replaced, live, seen, outcome, dropped,
      starts, storageEpoch>>
      BY <1>1 DEF patchVars, callerVars, requestVars, executorVars, laneVars, closeVars,
        configVars, stopVars, SubmitPreparation, TakeResult, PreparationRaised, Untrack,
        Abandon, Enqueue, Acknowledged, StartBuild, PassOver, FinishBuild, CallbackUntracks,
        RequestStop, StopTakesLock, StopDrained, StopJoins, ShutDownExecutor, StopReturns,
        StopTimesOut, PublisherFails, NotificationFails, CloseResource
    <2> QED
      BY <2>1 DEF Lanes
  <1>2. ASSUME NEW r \in Calls, CreateRequest(r) PROVE Lanes'
    <2>1. laneReq # r
      BY <1>2 DEF CreateRequest, Pending, Pends, Calls
    <2>2. seen' = [seen EXCEPT ![r] = storageEpoch]
          /\ UNCHANGED <<laneAt, laneReq, laneAct, replaced, live, outcome, dropped, starts,
                         storageEpoch>>
      BY <1>2 DEF CreateRequest, requestVars, laneVars, closeVars, configVars, stopVars
    <2> QED
      BY <2>1, <2>2 DEF Lanes, CallerTypes
  <1>3. ASSUME NEW r \in Calls, KeepOrDiscard(r) PROVE Lanes'
    BY <1>3, CallsAssumption DEF KeepOrDiscard, Running, CloseNow, Lanes, CallerTypes,
      RequestTypes, LaneTypes, StopTypes, Calls, callerVars, requestVars, executorVars,
      laneVars, closeVars, configVars, stopVars
  <1>4. ASSUME NEW r \in Calls, DiscardDoneFuture(r) PROVE Lanes'
    BY <1>4, CallsAssumption DEF DiscardDoneFuture, CloseNow, Lanes, CallerTypes, RequestTypes,
      LaneTypes, StopTypes, Calls, callerVars, requestVars, executorVars, laneVars, closeVars,
      configVars, stopVars
  <1>5. ASSUME NEW r \in Calls, DeadlineBeforeQueue(r) PROVE Lanes'
    BY <1>5, CallsAssumption DEF DeadlineBeforeQueue, ScheduleClose, Held, Return, Lanes,
      CallerTypes, RequestTypes, LaneTypes, StopTypes, Calls, callerVars, requestVars,
      executorVars, laneVars, closeVars, configVars, stopVars
  <1>6. ASSUME NEW r \in Calls, EnqueueRefused(r) PROVE Lanes'
    BY <1>6, CallsAssumption DEF EnqueueRefused, Accepting, Running, CloseNow, Held, Return,
      Lanes, CallerTypes, RequestTypes, LaneTypes, StopTypes, Calls, callerVars, requestVars,
      executorVars, laneVars, closeVars, configVars, stopVars
  <1>7. ASSUME NEW r \in Calls, Cancel(r) PROVE Lanes'
    BY <1>7, CallsAssumption DEF Cancel, Return, Answered, ScheduleClose, Held, Lanes,
      CallerTypes, RequestTypes, LaneTypes, StopTypes, Calls, callerVars, requestVars,
      executorVars, laneVars, closeVars, configVars, stopVars
  <1>8. CASE CallbackDiscards
    BY <1>8, CallsAssumption DEF CallbackDiscards, CloseNow, Lanes, CallerTypes, RequestTypes,
      LaneTypes, StopTypes, Calls, callerVars, requestVars, executorVars, laneVars, closeVars,
      configVars, stopVars
  <1>9. CASE TakePatch
    <2> DEFINE r == Head(queue)
    <2>1. r \in Patches /\ r # NoCall /\ outcome[r] = "none" /\ laneAt = "loop"
              /\ laneReq = NoCall
      <3>1. queue # <<>> /\ queue' = Tail(queue)
        BY <1>9 DEF TakePatch
      <3>2. InQueue(r)
        BY <3>1, Dequeued, TypeParts DEF RequestInv
      <3> QED
        BY <1>9, <3>2, CallsAssumption DEF TakePatch, Lanes, Pending, Pends, Calls
    <2>2. UNCHANGED <<replaced, live, seen, starts, storageEpoch>> /\ dropped' = dropped
      BY <1>9 DEF TakePatch, ScheduleClose, callerVars, configVars, stopVars, closeVars
    <2>3. \/ UNCHANGED <<laneAt, laneReq, laneAct, outcome>>
          \/ /\ laneAt' = "trial" /\ laneReq' = r /\ laneAct' \in {r, NoCall}
             /\ outcome' = outcome /\ seen[r] = storageEpoch
          \/ /\ laneAt' = "failing" /\ laneReq' = r /\ laneAct' = laneAct
             /\ outcome' = [outcome EXCEPT ![r] = "error"]
      BY <1>9, <2>1 DEF TakePatch, Settle, Answered, Fresh
    <2> HIDE DEF r
    <2>4. outcome' = [outcome EXCEPT ![r] = "error"] => outcome'[r] = "error"
      BY <2>1 DEF RequestTypes, Calls
    <2> QED
      BY <2>1, <2>2, <2>3, <2>4 DEF Lanes
  <1>10. CASE TrialFails
    <2>1. laneReq \in Patches /\ laneReq # NoCall /\ outcome[laneReq] = "none"
      BY <1>10, CallsAssumption DEF TrialFails, Lanes, Pending
    <2>2. /\ laneAt = "trial" /\ laneAt' = "failing" /\ laneAct' = NoCall
          /\ outcome' = [outcome EXCEPT ![laneReq] = "error"]
          /\ UNCHANGED <<laneReq, replaced, live, seen, dropped, starts,
                         storageEpoch>>
      BY <1>10, <2>1 DEF TrialFails, Settle, Answered, ScheduleClose, callerVars, stopVars,
        configVars
    <2>3. outcome'[laneReq] = "error"
      BY <2>1, <2>2 DEF RequestTypes, Calls
    <2> QED
      BY <2>1, <2>2, <2>3 DEF Lanes
  <1>11. CASE FailPublished
    BY <1>11, CallsAssumption DEF FailPublished, Lanes, CallerTypes, RequestTypes, LaneTypes,
      StopTypes, Calls, callerVars, requestVars, executorVars, laneVars, closeVars, configVars,
      stopVars
  <1>12. CASE CommitCancelled
    BY <1>12, CallsAssumption DEF CommitCancelled, StillWanted, ScheduleClose, Lanes,
      CallerTypes, RequestTypes, LaneTypes, StopTypes, Calls, callerVars, requestVars,
      executorVars, laneVars, closeVars, configVars, stopVars
  <1>13. CASE Commit
    BY <1>13, CallsAssumption DEF Commit, StillWanted, Settle, Answered, Lanes, CallerTypes,
      RequestTypes, LaneTypes, StopTypes, Calls, callerVars, requestVars, executorVars,
      laneVars, closeVars, configVars, stopVars
  <1>14. CASE ActivationFails
    BY <1>14, CallsAssumption DEF ActivationFails, StillWanted, ScheduleClose, Settle,
      Answered, Lanes, CallerTypes, RequestTypes, LaneTypes, StopTypes, Calls, callerVars,
      requestVars, executorVars, laneVars, closeVars, configVars, stopVars
  <1>15. CASE RollbackRaises
    BY <1>15, CallsAssumption DEF RollbackRaises, StillWanted, Lanes, CallerTypes,
      RequestTypes, LaneTypes, StopTypes, Calls, callerVars, requestVars, executorVars,
      laneVars, closeVars, configVars, stopVars
  <1>16. CASE CloseReplaced
    BY <1>16, CallsAssumption DEF CloseReplaced, ScheduleClose, Lanes, CallerTypes,
      RequestTypes, LaneTypes, StopTypes, Calls, callerVars, requestVars, executorVars,
      laneVars, closeVars, configVars, stopVars
  <1>17. CASE Mutate
    BY <1>17, CallsAssumption DEF Mutate, Settle, Answered, Lanes, CallerTypes, RequestTypes,
      LaneTypes, StopTypes, Calls, callerVars, requestVars, executorVars, laneVars, closeVars,
      configVars, stopVars
  <1>18. CASE LeaveLoop
    BY <1>18, CallsAssumption DEF LeaveLoop, Lanes, CallerTypes, RequestTypes, LaneTypes,
      StopTypes, Calls, callerVars, requestVars, executorVars, laneVars, closeVars, configVars,
      stopVars
  <1>19. CASE LaneStops
    BY <1>19, CallsAssumption DEF LaneStops, Lanes, CallerTypes, RequestTypes, LaneTypes,
      StopTypes, Calls, callerVars, requestVars, executorVars, laneVars, closeVars, configVars,
      stopVars
  <1>20. CASE FailHead
    BY <1>20, CallsAssumption DEF FailHead, Settle, Answered, ScheduleClose, Held, Lanes,
      CallerTypes, RequestTypes, LaneTypes, StopTypes, Calls, callerVars, requestVars,
      executorVars, laneVars, closeVars, configVars, stopVars
  <1>21. CASE LaneDrained
    BY <1>21, CallsAssumption DEF LaneDrained, Lanes, CallerTypes, RequestTypes, LaneTypes,
      StopTypes, Calls, callerVars, requestVars, executorVars, laneVars, closeVars, configVars,
      stopVars
  <1>22. CASE LaneCloses
    BY <1>22, CallsAssumption DEF LaneCloses, Lanes, CallerTypes, RequestTypes, LaneTypes,
      StopTypes, Calls, callerVars, requestVars, executorVars, laneVars, closeVars, configVars,
      stopVars
  <1>23. CASE Start
    BY <1>23, CallsAssumption DEF Start, Lanes, CallerTypes, RequestTypes, LaneTypes,
      StopTypes, Calls, callerVars, requestVars, executorVars, laneVars, closeVars, configVars,
      stopVars
  <1> QED
    BY <1>1, <1>2, <1>3, <1>4, <1>5, <1>6, <1>7, <1>8, <1>9, <1>10, <1>11, <1>12, <1>13,
      <1>14, <1>15, <1>16, <1>17, <1>18, <1>19, <1>20, <1>21, <1>22, <1>23 DEF NextPatches,
      Caller, PrepareWorker, Lane, LaneFailsPending, Stopper, StopFailsPending


\* What a caller's step does to its own request.
LEMMA CallerDecides ==
  ASSUME RequestInv, NEW r \in Calls, Caller(r)
  PROVE  Decides(r)' /\ Pends(r)' /\ NoneTwice'
  <1> USE DEF Decides, Pends
  <1>0. /\ CallerTypes /\ RequestTypes /\ ConfigTypes /\ PatchTypes /\ Decides(r) /\ Pends(r)
        /\ NoneTwice /\ laneReq' = laneReq
    <2>1. PatchTypes /\ Decides(r) /\ Pends(r) /\ NoneTwice
      BY DEF RequestInv, Decided, Pending
    <2>2. laneReq' = laneReq
      BY DEF Caller, CreateRequest, SubmitPreparation, TakeResult, KeepOrDiscard,
        PreparationRaised, Untrack, Abandon, DiscardDoneFuture, DeadlineBeforeQueue, Enqueue,
        EnqueueRefused, Cancel, Acknowledged, laneVars
    <2> QED
      BY <2>1, <2>2, TypeParts
  <1>1. CASE CreateRequest(r)
    <2>1. NoneTwice' /\ (InQueue(r)' <=> InQueue(r))
      BY <1>0, <1>1 DEF CreateRequest, laneVars, InQueue, NoneTwice
    <2> QED
      BY <1>0, <1>1, <2>1 DEF CreateRequest, MayCall, Running, CallerTypes, RequestTypes,
        requestVars, configVars
  <1>2. CASE SubmitPreparation(r)
    <2>1. NoneTwice' /\ (InQueue(r)' <=> InQueue(r))
      BY <1>0, <1>2 DEF SubmitPreparation, laneVars, InQueue, NoneTwice
    <2> QED
      BY <1>0, <1>2, <2>1 DEF SubmitPreparation, Return, CallerTypes, RequestTypes,
        requestVars, configVars
  <1>3. CASE TakeResult(r)
    <2>1. NoneTwice' /\ (InQueue(r)' <=> InQueue(r))
      BY <1>0, <1>3 DEF TakeResult, laneVars, InQueue, NoneTwice
    <2> QED
      BY <1>0, <1>3, <2>1 DEF TakeResult, CallerTypes, RequestTypes, requestVars, configVars
  <1>4. CASE KeepOrDiscard(r)
    <2>1. NoneTwice' /\ (InQueue(r)' <=> InQueue(r))
      BY <1>0, <1>4 DEF KeepOrDiscard, laneVars, InQueue, NoneTwice
    <2> QED
      BY <1>0, <1>4, <2>1 DEF KeepOrDiscard, Running, CloseNow, CallerTypes, RequestTypes,
        requestVars, configVars
  <1>5. CASE PreparationRaised(r)
    <2>1. NoneTwice' /\ (InQueue(r)' <=> InQueue(r))
      BY <1>0, <1>5 DEF PreparationRaised, laneVars, InQueue, NoneTwice
    <2> QED
      BY <1>0, <1>5, <2>1 DEF PreparationRaised, CallerTypes, RequestTypes, requestVars,
        configVars
  <1>6. CASE Untrack(r)
    <2>1. NoneTwice' /\ (InQueue(r)' <=> InQueue(r))
      BY <1>0, <1>6 DEF Untrack, laneVars, InQueue, NoneTwice
    <2> QED
      BY <1>0, <1>6, <2>1 DEF Untrack, Return, CallerTypes, RequestTypes, requestVars,
        configVars
  <1>7. CASE Abandon(r)
    <2>1. NoneTwice' /\ (InQueue(r)' <=> InQueue(r))
      BY <1>0, <1>7 DEF Abandon, laneVars, InQueue, NoneTwice
    <2> QED
      BY <1>0, <1>7, <2>1 DEF Abandon, Return, CallerTypes, RequestTypes, requestVars,
        configVars
  <1>8. CASE DiscardDoneFuture(r)
    <2>1. NoneTwice' /\ (InQueue(r)' <=> InQueue(r))
      BY <1>0, <1>8 DEF DiscardDoneFuture, laneVars, InQueue, NoneTwice
    <2> QED
      BY <1>0, <1>8, <2>1 DEF DiscardDoneFuture, CloseNow, CallerTypes, RequestTypes,
        requestVars, configVars
  <1>9. CASE DeadlineBeforeQueue(r)
    <2>1. NoneTwice' /\ (InQueue(r)' <=> InQueue(r))
      BY <1>0, <1>9 DEF DeadlineBeforeQueue, laneVars, InQueue, NoneTwice
    <2> QED
      BY <1>0, <1>9, <2>1 DEF DeadlineBeforeQueue, ScheduleClose, Held, Return, CallerTypes,
        RequestTypes, requestVars, configVars
  <1>10. CASE Enqueue(r)
    <2>1. ~InQueue(r) /\ laneReq # r
      BY <1>0, <1>10 DEF Enqueue
    <2>2. NoneTwice' /\ InQueue(r)'
      BY <1>0, <1>10, <2>1, Enqueued DEF Enqueue
    <2>3. callAt'[r] = "waiting" /\ callAt[r] \in {"idle", "prepared"}
          /\ UNCHANGED <<answer, cancelled, outcome, done, committed, performed>>
      BY <1>0, <1>10 DEF Enqueue, CallerTypes, requestVars, configVars
    <2> QED
      BY <1>0, <2>1, <2>2, <2>3
  <1>11. CASE EnqueueRefused(r)
    <2>1. NoneTwice' /\ (InQueue(r)' <=> InQueue(r))
      BY <1>0, <1>11 DEF EnqueueRefused, laneVars, InQueue, NoneTwice
    <2> QED
      BY <1>0, <1>11, <2>1 DEF EnqueueRefused, Accepting, Running, CloseNow, Held, Return,
        CallerTypes, RequestTypes, requestVars, configVars
  <1>12. CASE Cancel(r)
    <2>1. callAt[r] = "waiting" /\ ~done[r]
              /\ UNCHANGED <<outcome, done, queue, committed, performed>>
      BY <1>12 DEF Cancel, laneVars, configVars
    <2>2. NoneTwice' /\ (InQueue(r)' <=> InQueue(r))
      BY <1>0, <2>1 DEF InQueue, NoneTwice
    <2>3. CASE Answered(r)
      <3>1. callAt'[r] = "timedOut" /\ UNCHANGED <<answer, cancelled>>
        BY <1>0, <1>12, <2>3 DEF Cancel, CallerTypes
      <3> QED
        BY <1>0, <2>1, <2>2, <2>3, <3>1 DEF Answered
    <2>4. CASE ~Answered(r)
      <3>1. callAt'[r] = "returned" /\ answer'[r] = "error" /\ cancelled'[r] = TRUE
        BY <1>0, <1>12, <2>4 DEF Cancel, Return, CallerTypes, RequestTypes
      <3> QED
        BY <1>0, <2>1, <2>2, <2>4, <3>1 DEF Answered
    <2> QED
      BY <2>3, <2>4
  <1>13. CASE Acknowledged(r)
    <2>1. NoneTwice' /\ (InQueue(r)' <=> InQueue(r))
      BY <1>0, <1>13 DEF Acknowledged, laneVars, InQueue, NoneTwice
    <2> QED
      BY <1>0, <1>13, <2>1 DEF Acknowledged, Return, CallerTypes, RequestTypes, requestVars,
        configVars
  <1> QED
    BY <1>1, <1>2, <1>3, <1>4, <1>5, <1>6, <1>7, <1>8, <1>9, <1>10, <1>11, <1>12, <1>13 DEF
      Caller


\* What settling a request does to the truth of the answers.
Settling(x) ==
  /\ UNCHANGED <<callAt, answer, cancelled>>
  /\ \A q \in Calls : q # x => /\ outcome'[q] = outcome[q] /\ done'[q] = done[q]
                               /\ q \in committed' \cup performed' <=>
                                    q \in committed \cup performed
  /\ outcome'[x] \in {"none", "error"} \/ (outcome'[x] = "result" /\ ~cancelled[x])
  /\ outcome'[x] = "result" <=> x \in committed' \cup performed'
  /\ done'[x] => outcome'[x] # "none" \/ cancelled[x]

LEMMA SettledDecides ==
  ASSUME Decided, Pending, NEW x \in Calls, InQueue(x) \/ laneReq = x, outcome[x] = "none",
         Settling(x)
  PROVE  Decided'
  <1>1. ASSUME NEW q \in Calls, q # x PROVE Decides(q)'
    BY <1>1 DEF Settling, Decided, Decides
  <1>2. Decides(x) /\ Pends(x)
    BY DEF Decided, Pending
  <1>3. Decides(x)'
    BY <1>2 DEF Settling, Decides, Pends
  <1> QED
    BY <1>1, <1>3 DEF Decided

LEMMA Settles ==
  ASSUME RequestTypes, NEW x \in Calls, outcome[x] = "none", NEW o, Settle(x, o)
  PROVE  outcome'[x] = o /\ \A q \in Calls : q # x => outcome'[q] = outcome[q]
  BY DEF RequestTypes, Settle, Answered

LEMMA DecidedKept == RequestInv /\ [NextPatches]_patchVars => Decided'
  <1> SUFFICES ASSUME RequestInv, [NextPatches]_patchVars PROVE Decided'
    OBVIOUS
  <1> CallerTypes /\ RequestTypes /\ LaneTypes /\ ConfigTypes /\ Lanes /\ Pending
          /\ Decided /\ PatchTypes
    BY TypeParts DEF RequestInv
  <1>1. ASSUME NEW r \in Calls, Caller(r) PROVE Decided'
    <2>1. \A q \in Calls : q # r => Untouched(q)
      BY <1>1, CallerFrame
    <2>2. UNCHANGED <<committed, performed>>
      BY <1>1 DEF Caller, CreateRequest, SubmitPreparation, TakeResult, KeepOrDiscard,
        PreparationRaised, Untrack, Abandon, DiscardDoneFuture, DeadlineBeforeQueue, Enqueue,
        EnqueueRefused, Cancel, Acknowledged, configVars
    <2>3. \A q \in Calls : q # r => Decides(q)'
      BY <2>1, <2>2 DEF Decided, Decides, Untouched
    <2> QED
      BY <1>1, <2>3, CallerDecides DEF Decided
  <1>2. CASE UNCHANGED patchVars \/ StartBuild \/ PassOver \/ FinishBuild \/ CallbackDiscards
    \/ CallbackUntracks \/ RollbackRaises \/ CloseReplaced \/ LeaveLoop \/ LaneStops \/
    LaneDrained \/ LaneCloses \/ RequestStop \/ StopTakesLock \/ StopDrained \/ StopJoins \/
    ShutDownExecutor \/ StopReturns \/ StopTimesOut \/ Start \/ PublisherFails \/
    NotificationFails \/ (\E r \in Patches : CloseResource(r))
    <2>1. UNCHANGED <<callAt, answer, cancelled, outcome, done, committed, performed>>
      BY <1>2 DEF patchVars, callerVars, requestVars, executorVars, laneVars, closeVars,
        configVars, stopVars, StartBuild, PassOver, FinishBuild, CallbackDiscards,
        CallbackUntracks, RollbackRaises, CloseReplaced, LeaveLoop, LaneStops, LaneDrained,
        LaneCloses, RequestStop, StopTakesLock, StopDrained, StopJoins, ShutDownExecutor,
        StopReturns, StopTimesOut, Start, PublisherFails, NotificationFails, CloseResource
    <2> QED
      BY <2>1 DEF Decided, Decides
  <1>3. CASE TakePatch
    <2> DEFINE x == Head(queue)
    <2>0. queue # <<>> /\ queue' = Tail(queue)
      BY <1>3 DEF TakePatch
    <2>1. x \in Calls /\ InQueue(x) /\ outcome[x] = "none" /\ ~done[x]
              /\ x \notin committed \cup performed
      BY <2>0, Dequeued DEF Pending, Pends, Decided, Decides
    <2>2. Settling(x)
      <3>1. UNCHANGED <<callAt, answer, cancelled, committed, performed>>
        BY <1>3 DEF TakePatch, callerVars, configVars
      <3>2. \A q \in Calls : q # x => done'[q] = done[q]
        BY <1>3 DEF TakePatch, RequestTypes
      <3>3. \/ outcome' = outcome /\ (done'[x] => cancelled[x])
            \/ done' = done /\ Settle(x, "error")
        BY <1>3, <2>1 DEF TakePatch
      <3>4. Settle(x, "error") => outcome'[x] = "error" /\ \A q \in Calls : q # x
                => outcome'[q] = outcome[q]
        BY <2>1, Settles
      <3> QED
        BY <2>1, <3>1, <3>2, <3>3, <3>4 DEF Settling
    <2> QED
      BY <2>1, <2>2, SettledDecides
  <1>4. CASE TrialFails
    <2> DEFINE x == laneReq
    <2>1. x \in Patches /\ x \in Calls /\ laneReq = x /\ outcome[x] = "none"
              /\ x \notin committed \cup performed
          /\ ~done[x]
      BY <1>4, CallsAssumption DEF TrialFails, Lanes, Pending, Pends, Decided, Decides, Calls
    <2>2. Settling(x)
      <3>1. outcome'[x] = "error" /\ \A q \in Calls : q # x => outcome'[q] = outcome[q]
        BY <1>4, <2>1, Settles DEF TrialFails
      <3>2. UNCHANGED <<callAt, answer, cancelled, done, committed, performed>>
        BY <1>4 DEF TrialFails, callerVars, configVars
      <3> QED
        BY <2>1, <3>1, <3>2 DEF Settling
    <2> QED
      BY <2>1, <2>2, SettledDecides
  <1>5. CASE FailPublished
    BY <1>5, CallsAssumption DEF FailPublished, Decided, Decides, Lanes, CallerTypes,
      RequestTypes, LaneTypes, ConfigTypes, Calls, callerVars, requestVars, executorVars,
      laneVars, closeVars, configVars, stopVars
  <1>6. CASE CommitCancelled
    BY <1>6, CallsAssumption DEF CommitCancelled, StillWanted, ScheduleClose, Decided, Decides,
      Lanes, CallerTypes, RequestTypes, LaneTypes, ConfigTypes, Calls, callerVars, requestVars,
      executorVars, laneVars, closeVars, configVars, stopVars
  <1>7. CASE Commit
    <2> DEFINE x == laneReq
    <2>1. x \in Patches /\ x \in Calls /\ laneReq = x /\ outcome[x] = "none"
              /\ x \notin committed \cup performed
          /\ ~done[x]
      BY <1>7, CallsAssumption DEF Commit, Lanes, Pending, Pends, Decided, Decides, Calls
    <2>2. Settling(x)
      <3>1. outcome'[x] = "result" /\ \A q \in Calls : q # x => outcome'[q] = outcome[q]
        BY <1>7, <2>1, Settles DEF Commit
      <3>2. UNCHANGED <<callAt, answer, cancelled, performed>>
                /\ committed' = committed \cup {x}
            /\ ~cancelled[x] /\ \A q \in Calls : q # x => done'[q] = done[q]
        BY <1>7 DEF Commit, StillWanted, callerVars, configVars, RequestTypes
      <3> QED
        BY <2>1, <3>1, <3>2 DEF Settling
    <2> QED
      BY <2>1, <2>2, SettledDecides
  <1>8. CASE ActivationFails
    <2> DEFINE x == laneReq
    <2>1. x \in Patches /\ x \in Calls /\ laneReq = x /\ outcome[x] = "none"
              /\ x \notin committed \cup performed
          /\ ~done[x]
      BY <1>8, CallsAssumption DEF ActivationFails, Lanes, Pending, Pends, Decided, Decides,
        Calls
    <2>2. Settling(x)
      <3>1. outcome'[x] = "error" /\ \A q \in Calls : q # x => outcome'[q] = outcome[q]
        BY <1>8, <2>1, Settles DEF ActivationFails
      <3>2. UNCHANGED <<callAt, answer, cancelled, committed, performed>>
            /\ \A q \in Calls : q # x => done'[q] = done[q]
        BY <1>8 DEF ActivationFails, callerVars, configVars, RequestTypes
      <3> QED
        BY <2>1, <3>1, <3>2 DEF Settling
    <2> QED
      BY <2>1, <2>2, SettledDecides
  <1>9. CASE Mutate
    <2> DEFINE x == Head(queue)
    <2>0. queue # <<>> /\ queue' = Tail(queue)
      BY <1>9 DEF Mutate
    <2>1. x \in Calls /\ InQueue(x) /\ outcome[x] = "none" /\ ~done[x]
              /\ x \notin committed \cup performed
      BY <2>0, Dequeued DEF Pending, Pends, Decided, Decides
    <2>2. Settling(x)
      <3>1. UNCHANGED <<callAt, answer, cancelled, committed>>
            /\ \A q \in Calls : q # x => done'[q] = done[q]
        BY <1>9 DEF Mutate, callerVars, RequestTypes
      <3>2. \/ cancelled[x] /\ UNCHANGED <<outcome, performed>>
            \/ ~cancelled[x] /\ Settle(x, "result") /\ performed' = performed \cup {x}
            \/ Settle(x, "error") /\ UNCHANGED performed
        BY <1>9 DEF Mutate
      <3>3. \A o \in {"result", "error"} : Settle(x, o) =>
              outcome'[x] = o /\ \A q \in Calls : q # x => outcome'[q] = outcome[q]
        BY <2>1, Settles
      <3> QED
        BY <2>1, <3>1, <3>2, <3>3 DEF Settling
    <2> QED
      BY <2>1, <2>2, SettledDecides
  <1>10. CASE FailHead
    <2> DEFINE x == Head(queue)
    <2>0. queue # <<>> /\ queue' = Tail(queue)
      BY <1>10 DEF FailHead
    <2>1. x \in Calls /\ InQueue(x) /\ outcome[x] = "none" /\ ~done[x]
              /\ x \notin committed \cup performed
      BY <2>0, Dequeued DEF Pending, Pends, Decided, Decides
    <2>2. Settling(x)
      <3>1. UNCHANGED <<callAt, answer, cancelled, committed, performed>>
            /\ \A q \in Calls : q # x => done'[q] = done[q]
        BY <1>10 DEF FailHead, callerVars, configVars, RequestTypes
      <3>2. outcome'[x] = "error" /\ \A q \in Calls : q # x => outcome'[q] = outcome[q]
        BY <1>10, <2>1, Settles DEF FailHead
      <3> QED
        BY <2>1, <3>1, <3>2 DEF Settling
    <2> QED
      BY <2>1, <2>2, SettledDecides
  <1> QED
    BY <1>1, <1>2, <1>3, <1>4, <1>5, <1>6, <1>7, <1>8, <1>9, <1>10 DEF NextPatches,
      PrepareWorker, Lane, LaneFailsPending, Stopper, StopFailsPending

LEMMA PendingKept == RequestInv /\ [NextPatches]_patchVars => Pending'
  <1> SUFFICES ASSUME RequestInv, [NextPatches]_patchVars PROVE Pending'
    OBVIOUS
  <1> CallerTypes /\ RequestTypes /\ LaneTypes /\ ConfigTypes /\ Lanes /\ Pending
          /\ Decided /\ PatchTypes
    BY TypeParts DEF RequestInv
  <1>1. ASSUME NEW r \in Calls, Caller(r) PROVE Pending'
    <2>1. \A q \in Calls : q # r => Untouched(q)
      BY <1>1, CallerFrame
    <2>2. UNCHANGED <<laneReq, laneAt, outcome>>
      BY <1>1 DEF Caller, CreateRequest, SubmitPreparation, TakeResult, KeepOrDiscard,
        PreparationRaised, Untrack, Abandon, DiscardDoneFuture, DeadlineBeforeQueue, Enqueue,
        EnqueueRefused, Cancel, Acknowledged, laneVars, requestVars
    <2>3. \A q \in Calls : q # r => Pends(q)'
      BY <2>1, <2>2 DEF Pending, Pends, Untouched
    <2> QED
      BY <1>1, <2>2, <2>3, CallerDecides DEF Pending
  <1>2. CASE UNCHANGED patchVars \/ StartBuild \/ PassOver \/ FinishBuild \/ CallbackDiscards
    \/ CallbackUntracks \/ RequestStop \/ StopTakesLock \/ StopDrained \/ StopJoins \/
    ShutDownExecutor \/ StopReturns \/ StopTimesOut \/ PublisherFails \/ NotificationFails \/
    (\E r \in Patches : CloseResource(r))
    <2>1. UNCHANGED <<queue, laneReq, laneAt, done, callAt, cancelled, outcome>>
      BY <1>2 DEF patchVars, callerVars, requestVars, executorVars, laneVars, closeVars,
        configVars, stopVars, StartBuild, PassOver, FinishBuild, CallbackDiscards,
        CallbackUntracks, RequestStop, StopTakesLock, StopDrained, StopJoins, ShutDownExecutor,
        StopReturns, StopTimesOut, PublisherFails, NotificationFails, CloseResource
    <2> QED
      BY <2>1 DEF Pending, Pends, NoneTwice, InQueue
  <1>3. CASE TakePatch
    BY <1>3, CallsAssumption DEF TakePatch, ScheduleClose, Held, Settle, Answered, Fresh,
      Pending, Pends, NoneTwice, InQueue, Lanes, CallerTypes, RequestTypes, LaneTypes, Calls,
      callerVars, requestVars, executorVars, laneVars, closeVars, configVars, stopVars
  <1>4. CASE TrialFails
    BY <1>4, CallsAssumption DEF TrialFails, ScheduleClose, Settle, Answered, Pending, Pends,
      NoneTwice, InQueue, Lanes, CallerTypes, RequestTypes, LaneTypes, Calls, callerVars,
      requestVars, executorVars, laneVars, closeVars, configVars, stopVars
  <1>5. CASE FailPublished
    BY <1>5, CallsAssumption DEF FailPublished, Pending, Pends, NoneTwice, InQueue, Lanes,
      CallerTypes, RequestTypes, LaneTypes, Calls, callerVars, requestVars, executorVars,
      laneVars, closeVars, configVars, stopVars
  <1>6. CASE CommitCancelled
    BY <1>6, CallsAssumption DEF CommitCancelled, StillWanted, ScheduleClose, Pending, Pends,
      NoneTwice, InQueue, Lanes, CallerTypes, RequestTypes, LaneTypes, Calls, callerVars,
      requestVars, executorVars, laneVars, closeVars, configVars, stopVars
  <1>7. CASE Commit
    BY <1>7, CallsAssumption DEF Commit, StillWanted, Settle, Answered, Pending, Pends,
      NoneTwice, InQueue, Lanes, CallerTypes, RequestTypes, LaneTypes, Calls, callerVars,
      requestVars, executorVars, laneVars, closeVars, configVars, stopVars
  <1>8. CASE ActivationFails
    BY <1>8, CallsAssumption DEF ActivationFails, StillWanted, ScheduleClose, Settle, Answered,
      Pending, Pends, NoneTwice, InQueue, Lanes, CallerTypes, RequestTypes, LaneTypes, Calls,
      callerVars, requestVars, executorVars, laneVars, closeVars, configVars, stopVars
  <1>9. CASE RollbackRaises
    BY <1>9, CallsAssumption DEF RollbackRaises, StillWanted, Pending, Pends, NoneTwice,
      InQueue, Lanes, CallerTypes, RequestTypes, LaneTypes, Calls, callerVars, requestVars,
      executorVars, laneVars, closeVars, configVars, stopVars
  <1>10. CASE CloseReplaced
    BY <1>10, CallsAssumption DEF CloseReplaced, ScheduleClose, Pending, Pends, NoneTwice,
      InQueue, Lanes, CallerTypes, RequestTypes, LaneTypes, Calls, callerVars, requestVars,
      executorVars, laneVars, closeVars, configVars, stopVars
  <1>11. CASE Mutate
    BY <1>11, CallsAssumption DEF Mutate, Settle, Answered, Pending, Pends, NoneTwice, InQueue,
      Lanes, CallerTypes, RequestTypes, LaneTypes, Calls, callerVars, requestVars,
      executorVars, laneVars, closeVars, configVars, stopVars
  <1>12. CASE LeaveLoop
    BY <1>12, CallsAssumption DEF LeaveLoop, Pending, Pends, NoneTwice, InQueue, Lanes,
      CallerTypes, RequestTypes, LaneTypes, Calls, callerVars, requestVars, executorVars,
      laneVars, closeVars, configVars, stopVars
  <1>13. CASE LaneStops
    BY <1>13, CallsAssumption DEF LaneStops, Pending, Pends, NoneTwice, InQueue, Lanes,
      CallerTypes, RequestTypes, LaneTypes, Calls, callerVars, requestVars, executorVars,
      laneVars, closeVars, configVars, stopVars
  <1>14. CASE FailHead
    BY <1>14, CallsAssumption DEF FailHead, Settle, Answered, ScheduleClose, Held, Pending,
      Pends, NoneTwice, InQueue, Lanes, CallerTypes, RequestTypes, LaneTypes, Calls,
      callerVars, requestVars, executorVars, laneVars, closeVars, configVars, stopVars
  <1>15. CASE LaneDrained
    BY <1>15, CallsAssumption DEF LaneDrained, Pending, Pends, NoneTwice, InQueue, Lanes,
      CallerTypes, RequestTypes, LaneTypes, Calls, callerVars, requestVars, executorVars,
      laneVars, closeVars, configVars, stopVars
  <1>16. CASE LaneCloses
    BY <1>16, CallsAssumption DEF LaneCloses, Pending, Pends, NoneTwice, InQueue, Lanes,
      CallerTypes, RequestTypes, LaneTypes, Calls, callerVars, requestVars, executorVars,
      laneVars, closeVars, configVars, stopVars
  <1>17. CASE Start
    BY <1>17, CallsAssumption DEF Start, Pending, Pends, NoneTwice, InQueue, Lanes,
      CallerTypes, RequestTypes, LaneTypes, Calls, callerVars, requestVars, executorVars,
      laneVars, closeVars, configVars, stopVars
  <1> QED
    BY <1>1, <1>2, <1>3, <1>4, <1>5, <1>6, <1>7, <1>8, <1>9, <1>10, <1>11, <1>12, <1>13,
      <1>14, <1>15, <1>16, <1>17 DEF NextPatches, PrepareWorker, Lane, LaneFailsPending,
      Stopper, StopFailsPending


\* A step that leaves candidate q where it is.
Keeps(q) ==
  /\ closes'[q] = closes[q] /\ future'[q] = future[q]
  /\ (callAt'[q] = "took" <=> callAt[q] = "took") /\ prepared'[q] = prepared[q]
  /\ (laneAct' = q <=> laneAct = q) /\ (live' = q <=> live = q)
  /\ (replaced' = q <=> replaced = q) /\ (q \in teardown' <=> q \in teardown)
  /\ (q \in deferred' <=> q \in deferred) /\ (q \in dropped' <=> q \in dropped)

LEMMA KeptOwned ==
  ASSUME NEW q, Owned(q), Keeps(q)
  PROVE  Owned(q)'
  BY DEF Owned, Owners, Count, Keeps

\* A close that is scheduled moves the candidates it is for, and no other.
LEMMA Scheduled ==
  ASSUME NEW S, ScheduleClose(S)
  PROVE  /\ UNCHANGED <<closes, dropped>>
         /\ \A q : q \notin S => /\ q \in teardown' <=> q \in teardown
                                 /\ q \in deferred' <=> q \in deferred
         /\ \A q \in S : \/ q \in teardown' /\ (q \in deferred' <=> q \in deferred)
                         \/ q \in deferred' /\ (q \in teardown' <=> q \in teardown)
  BY DEF ScheduleClose

LEMMA CallerOwns ==
  ASSUME RequestInv, NEW r \in Patches, Caller(r)
  PROVE  Owned(r)'
  <1>0. /\ CallerTypes /\ RequestTypes /\ ExecutorTypes /\ CloseTypes /\ InStep(r) /\ Owned(r)
        /\ UNCHANGED <<laneAct, live, replaced, dropped>> /\ closes[r] \in Nat
             /\ r \notin Mutations /\ r \in Calls
    <2>1. InStep(r) /\ Owned(r)
      BY DEF RequestInv, Preparing, OneOwner
    <2>2. UNCHANGED <<laneAct, live, replaced, dropped>>
      BY DEF Caller, CreateRequest, SubmitPreparation, TakeResult, KeepOrDiscard,
        PreparationRaised, Untrack, Abandon, DiscardDoneFuture, DeadlineBeforeQueue, Enqueue,
        EnqueueRefused, Cancel, Acknowledged, laneVars, closeVars, ScheduleClose, CloseNow
    <2>3. CallerTypes /\ RequestTypes /\ ExecutorTypes /\ CloseTypes
      BY TypeParts DEF RequestInv
    <2> QED
      BY <2>1, <2>2, <2>3, CallsAssumption DEF CloseTypes, Calls
  <1>1. CASE CreateRequest(r)
    BY <1>0, <1>1 DEF CreateRequest, MayCall, Running, Owned, Owners, Count, InStep,
      CallerTypes, RequestTypes, ExecutorTypes, CloseTypes, requestVars, executorVars,
      closeVars
  <1>2. CASE SubmitPreparation(r)
    BY <1>0, <1>2 DEF SubmitPreparation, Return, Owned, Owners, Count, InStep, CallerTypes,
      RequestTypes, ExecutorTypes, CloseTypes, requestVars, executorVars, closeVars
  <1>3. CASE TakeResult(r)
    <2>1. future[r] = "built" /\ future'[r] = "taken" /\ callAt[r] = "awaiting"
              /\ callAt'[r] = "took"
          /\ UNCHANGED <<prepared, teardown, deferred, closes>>
      BY <1>0, <1>3 DEF TakeResult, CallerTypes, ExecutorTypes, requestVars, closeVars
    <2> QED
      BY <1>0, <2>1 DEF Owned, Owners, Count
  <1>4. CASE KeepOrDiscard(r)
    <2>1. callAt[r] = "took" /\ callAt'[r] \in {"kept", "refused"}
              /\ UNCHANGED <<future, teardown, deferred>>
      BY <1>0, <1>4 DEF KeepOrDiscard, CallerTypes, executorVars, closeVars, CloseNow
    <2>2. \/ prepared'[r] = TRUE /\ closes' = closes
          \/ prepared' = prepared /\ closes'[r] = closes[r] + 1
      BY <1>0, <1>4, CloseNowSteps DEF KeepOrDiscard, RequestTypes, CloseTypes, closeVars
    <2> QED
      BY <1>0, <2>1, <2>2 DEF Owned, Owners, Count
  <1>5. CASE PreparationRaised(r)
    BY <1>0, <1>5 DEF PreparationRaised, Owned, Owners, Count, InStep, CallerTypes,
      RequestTypes, ExecutorTypes, CloseTypes, requestVars, executorVars, closeVars
  <1>6. CASE Untrack(r)
    BY <1>0, <1>6 DEF Untrack, Return, Owned, Owners, Count, InStep, CallerTypes, RequestTypes,
      ExecutorTypes, CloseTypes, requestVars, executorVars, closeVars
  <1>7. CASE Abandon(r)
    <2>1. callAt[r] = "awaiting" /\ callAt'[r] \in {"returned", "discarding"}
          /\ UNCHANGED <<prepared, teardown, deferred, closes>>
      BY <1>0, <1>7 DEF Abandon, Return, CallerTypes, requestVars, closeVars
    <2>2. future'[r] = future[r] \/ (future[r] = "queued" /\ future'[r] = "cancelled")
      BY <1>0, <1>7 DEF Abandon, ExecutorTypes
    <2> QED
      BY <1>0, <2>1, <2>2 DEF Owned, Owners, Count
  <1>8. CASE DiscardDoneFuture(r)
    <2>1. /\ callAt[r] = "discarding" /\ callAt'[r] = "refused" /\ r \in Patches
          /\ UNCHANGED <<prepared, teardown, deferred>>
      BY <1>0, <1>8 DEF DiscardDoneFuture, CloseNow, CallerTypes, requestVars
    <2>2. CASE future[r] = "built"
      <3>1. future'[r] = "taken" /\ CloseNow({r})
        BY <1>0, <1>8, <2>1, <2>2 DEF DiscardDoneFuture, ExecutorTypes
      <3>2. closes'[r] = closes[r] + 1
        BY <1>0, <2>1, <3>1 DEF CloseNow
      <3> QED
        BY <1>0, <2>1, <2>2, <3>1, <3>2 DEF Owned, Owners, Count
    <2>3. CASE future[r] # "built"
      <3>1. future'[r] = future[r] /\ CloseNow({})
        BY <1>0, <1>8, <2>1, <2>3 DEF DiscardDoneFuture, ExecutorTypes
      <3>2. closes'[r] = closes[r]
        BY <1>0, <2>1, <3>1 DEF CloseNow
      <3> QED
        BY <1>0, <2>1, <3>1, <3>2 DEF Owned, Owners, Count
    <2> QED
      BY <2>2, <2>3
  <1>9. CASE DeadlineBeforeQueue(r)
    <2>1. /\ callAt[r] = "prepared" /\ callAt'[r] = "returned" /\ future' = future
          /\ prepared'[r] = FALSE /\ ScheduleClose(Held(r))
      BY <1>0, <1>9 DEF DeadlineBeforeQueue, Return, CallerTypes, RequestTypes, executorVars
    <2>2. Held(r) = IF prepared[r] THEN {r} ELSE {}
      BY DEF Held
    <2> QED
      BY <1>0, <2>1, <2>2, Scheduled DEF Owned, Owners, Count
  <1>10. CASE Enqueue(r)
    BY <1>0, <1>10 DEF Enqueue, MayCall, Accepting, Running, Owned, Owners, Count, InStep,
      CallerTypes, RequestTypes, ExecutorTypes, CloseTypes, requestVars, executorVars,
      closeVars
  <1>11. CASE EnqueueRefused(r)
    BY <1>0, <1>11 DEF EnqueueRefused, Accepting, Running, CloseNow, Held, Return, Owned,
      Owners, Count, InStep, CallerTypes, RequestTypes, ExecutorTypes, CloseTypes, requestVars,
      executorVars, closeVars
  <1>12. CASE Cancel(r)
    <2>1. callAt[r] = "waiting" /\ callAt'[r] \in {"timedOut", "returned"} /\ future' = future
      BY <1>0, <1>12 DEF Cancel, Return, CallerTypes, executorVars
    <2>2. CASE Answered(r)
      <3>1. UNCHANGED <<prepared, teardown, deferred, closes>>
        BY <1>12, <2>2 DEF Cancel, closeVars
      <3> QED
        BY <1>0, <2>1, <3>1 DEF Owned, Owners, Count
    <2>3. CASE ~Answered(r)
      <3>1. ScheduleClose(Held(r)) /\ prepared'[r] = FALSE
        BY <1>0, <1>12, <2>3 DEF Cancel, RequestTypes
      <3>2. Held(r) = IF prepared[r] THEN {r} ELSE {}
        BY DEF Held
      <3> QED
        BY <1>0, <2>1, <3>1, <3>2, Scheduled DEF Owned, Owners, Count
    <2> QED
      BY <2>2, <2>3
  <1>13. CASE Acknowledged(r)
    BY <1>0, <1>13 DEF Acknowledged, Return, Owned, Owners, Count, InStep, CallerTypes,
      RequestTypes, ExecutorTypes, CloseTypes, requestVars, executorVars, closeVars
  <1> QED
    BY <1>1, <1>2, <1>3, <1>4, <1>5, <1>6, <1>7, <1>8, <1>9, <1>10, <1>11, <1>12, <1>13 DEF
      Caller

LEMMA OwnerKept == RequestInv /\ [NextPatches]_patchVars => OneOwner'
  <1> SUFFICES ASSUME RequestInv, [NextPatches]_patchVars PROVE OneOwner'
    OBVIOUS
  <1> /\ CallerTypes /\ RequestTypes /\ ExecutorTypes /\ LaneTypes /\ CloseTypes /\ Lanes
             /\ Preparing
      /\ OneOwner /\ PatchTypes
    BY TypeParts DEF RequestInv
  <1>1. ASSUME NEW r \in Calls, Caller(r) PROVE OneOwner'
    <2>1. \A q \in Calls : q # r => Untouched(q)
      BY <1>1, CallerFrame
    <2>2. UNCHANGED <<laneAct, live, replaced, dropped>>
      BY <1>1 DEF Caller, CreateRequest, SubmitPreparation, TakeResult, KeepOrDiscard,
        PreparationRaised, Untrack, Abandon, DiscardDoneFuture, DeadlineBeforeQueue, Enqueue,
        EnqueueRefused, Cancel, Acknowledged, laneVars, closeVars, ScheduleClose, CloseNow
    <2>3. ASSUME NEW q \in Patches, q # r PROVE Keeps(q)
      BY <2>1, <2>2, <2>3 DEF Untouched, Keeps, Calls
    <2>4. r \in Patches => Owned(r)'
      BY <1>1, CallerOwns
    <2> QED
      BY <2>3, <2>4, KeptOwned DEF OneOwner
  <1>2. CASE UNCHANGED patchVars \/ PassOver \/ CallbackUntracks \/ FailPublished \/ Mutate \/
    LeaveLoop \/ LaneStops \/ LaneDrained \/ RequestStop \/ StopTakesLock \/ StopDrained \/
    StopJoins \/ StopReturns \/ StopTimesOut \/ Start \/ PublisherFails \/ NotificationFails
    <2>1. UNCHANGED <<callAt, future, prepared, laneAct, live, replaced, closeVars>>
      BY <1>2 DEF patchVars, callerVars, requestVars, executorVars, laneVars, closeVars,
        configVars, stopVars, PassOver, CallbackUntracks, FailPublished, Mutate, LeaveLoop,
        LaneStops, LaneDrained, RequestStop, StopTakesLock, StopDrained, StopJoins,
        StopReturns, StopTimesOut, Start, PublisherFails, NotificationFails
    <2> QED
      BY <2>1 DEF OneOwner, Owned, Owners, Count, closeVars
  <1>3. CASE StartBuild
    <2>0. PICK x : x = Head(pool)
      OBVIOUS
    <2>1. x \in Patches /\ future[x] = "queued" /\ future' = [future EXCEPT ![x] = "running"]
          /\ UNCHANGED <<callAt, prepared, laneAct, live, replaced, closeVars>>
      BY <1>3, <2>0 DEF StartBuild, ExecutorTypes, callerVars, requestVars, laneVars
    <2>2. future'[x] = "running" /\ \A q \in Patches : q # x => future'[q] = future[q]
      BY <2>1 DEF ExecutorTypes
    <2>8. ASSUME NEW q \in Patches, q # x PROVE Keeps(q)
      BY <2>1, <2>2, <2>8 DEF Keeps, closeVars
    <2>9. Owned(x)'
      <3>1. Owned(x) /\ closes[x] \in Nat
        BY <2>1 DEF OneOwner, Owned, CloseTypes
      <3> QED
        BY <2>1, <2>2, <3>1 DEF Owned, Owners, Count, closeVars
    <2> QED
      BY <2>8, <2>9, KeptOwned DEF OneOwner, Owned
  <1>4. CASE FinishBuild
    <2>0. PICK x : x = worker
      OBVIOUS
    <2>1. x \in Patches /\ future[x] = "running"
              /\ (\E f \in {"built", "raised"} : future' = [future EXCEPT ![x] = f])
          /\ UNCHANGED <<callAt, prepared, laneAct, live, replaced, closeVars>>
      BY <1>4, <2>0 DEF FinishBuild, ExecutorTypes, callerVars, requestVars, laneVars
    <2>2. future'[x] \in {"built", "raised"} /\ \A q \in Patches : q # x
              => future'[q] = future[q]
      BY <2>1 DEF ExecutorTypes
    <2>8. ASSUME NEW q \in Patches, q # x PROVE Keeps(q)
      BY <2>1, <2>2, <2>8 DEF Keeps, closeVars
    <2>9. Owned(x)'
      <3>1. Owned(x) /\ closes[x] \in Nat
        BY <2>1 DEF OneOwner, Owned, CloseTypes
      <3> QED
        BY <2>1, <2>2, <3>1 DEF Owned, Owners, Count, closeVars
    <2> QED
      BY <2>8, <2>9, KeptOwned DEF OneOwner, Owned
  <1>5. CASE CallbackDiscards
    <2>0. PICK x : x = worker
      OBVIOUS
    <2>1. /\ x \in Patches /\ future[x] = "built" /\ future' = [future EXCEPT ![x] = "taken"]
          /\ CloseNow({x}) /\ UNCHANGED <<callAt, prepared, laneAct, live, replaced>>
      BY <1>5, <2>0 DEF CallbackDiscards, ExecutorTypes, callerVars, requestVars, laneVars
    <2>2. future'[x] = "taken" /\ \A q \in Patches : q # x => future'[q] = future[q]
      BY <2>1 DEF ExecutorTypes
    <2>3. /\ UNCHANGED <<teardown, deferred, dropped>> /\ closes'[x] = closes[x] + 1
          /\ \A q \in Patches : q # x => closes'[q] = closes[q]
      BY <2>1 DEF CloseNow
    <2>8. ASSUME NEW q \in Patches, q # x PROVE Keeps(q)
      BY <2>1, <2>2, <2>3, <2>8 DEF Keeps
    <2>9. Owned(x)'
      <3>1. Owned(x) /\ closes[x] \in Nat
        BY <2>1 DEF OneOwner, Owned, CloseTypes
      <3> QED
        BY <2>1, <2>2, <2>3, <3>1 DEF Owned, Owners, Count
    <2> QED
      BY <2>8, <2>9, KeptOwned DEF OneOwner, Owned
  <1>6. CASE TakePatch
    <2>0. PICK x : x = Head(queue)
      OBVIOUS
    <2>1. /\ queue # <<>> /\ queue' = Tail(queue) /\ x \in Patches /\ laneAct = NoCall
          /\ UNCHANGED <<callAt, future, live, replaced>>
      BY <1>6, <2>0 DEF TakePatch, Lanes, callerVars, executorVars
    <2>2. prepared'[x] = FALSE /\ \A q \in Patches : q # x => prepared'[q] = prepared[q]
      BY <1>6, <2>0 DEF TakePatch, RequestTypes
    <2>3. \/ ScheduleClose(Held(x)) /\ laneAct' = laneAct
          \/ laneAct' = (IF prepared[x] THEN x ELSE NoCall) /\ UNCHANGED closeVars
      BY <1>6, <2>0 DEF TakePatch
    <2>4. Held(x) = IF prepared[x] THEN {x} ELSE {}
      BY DEF Held
    <2>8. ASSUME NEW q \in Patches, q # x PROVE Keeps(q)
      BY <2>1, <2>2, <2>3, <2>4, <2>8, Scheduled, CallsAssumption DEF Keeps, closeVars
    <2>9. Owned(x)'
      <3>1. Owned(x) /\ closes[x] \in Nat /\ x # NoCall
        BY <2>1, CallsAssumption DEF OneOwner, Owned, CloseTypes
      <3>2. CASE ScheduleClose(Held(x)) /\ laneAct' = laneAct
        BY <2>1, <2>2, <2>4, <3>1, <3>2, Scheduled DEF Owned, Owners, Count
      <3>3. CASE laneAct' = (IF prepared[x] THEN x ELSE NoCall) /\ UNCHANGED closeVars
        BY <2>1, <2>2, <3>1, <3>3 DEF Owned, Owners, Count, closeVars
      <3> QED
        BY <2>3, <3>2, <3>3
    <2> QED
      BY <2>8, <2>9, KeptOwned DEF OneOwner, Owned
  <1>7. CASE TrialFails
    <2>0. PICK x : x = laneAct
      OBVIOUS
    <2>1. laneAt = "trial" /\ laneAct' = NoCall
              /\ UNCHANGED <<callAt, future, prepared, live, replaced>>
      BY <1>7, <2>0 DEF TrialFails, callerVars, executorVars, requestVars, closeVars
    <2>2. /\ UNCHANGED <<closes, dropped>>
          /\ \A q \in Patches : q # x => (/\ q \in teardown' <=> q \in teardown
                                          /\ q \in deferred' <=> q \in deferred)
          /\ x # NoCall => \/ x \in teardown' /\ (x \in deferred' <=> x \in deferred)
                           \/ x \in deferred' /\ (x \in teardown' <=> x \in teardown)
      <3>1. ScheduleClose({x} \ {NoCall})
        BY <1>7, <2>0 DEF TrialFails
      <3> QED
        BY <3>1, Scheduled
    <2>8. ASSUME NEW q \in Patches, q # x PROVE Keeps(q)
      BY <2>0, <2>1, <2>2, <2>8, CallsAssumption DEF Keeps
    <2>9. ASSUME x \in Patches PROVE Owned(x)'
      <3>1. Owned(x) /\ closes[x] \in Nat /\ x # NoCall
        BY <2>9, CallsAssumption DEF OneOwner, Owned, CloseTypes
      <3> QED
        BY <2>0, <2>1, <2>2, <2>9, <3>1 DEF Owned, Owners, Count
    <2> QED
      BY <2>8, <2>9, KeptOwned DEF OneOwner, Owned
  <1>8. CASE CommitCancelled
    <2>0. PICK x : x = laneAct
      OBVIOUS
    <2>1. laneAt = "trial" /\ laneAct' = NoCall
              /\ UNCHANGED <<callAt, future, prepared, live, replaced>>
      BY <1>8, <2>0 DEF CommitCancelled, callerVars, executorVars, requestVars, closeVars
    <2>2. /\ UNCHANGED <<closes, dropped>>
          /\ \A q \in Patches : q # x => (/\ q \in teardown' <=> q \in teardown
                                          /\ q \in deferred' <=> q \in deferred)
          /\ x # NoCall => \/ x \in teardown' /\ (x \in deferred' <=> x \in deferred)
                           \/ x \in deferred' /\ (x \in teardown' <=> x \in teardown)
      <3>1. ScheduleClose({x} \ {NoCall})
        BY <1>8, <2>0 DEF CommitCancelled
      <3> QED
        BY <3>1, Scheduled
    <2>8. ASSUME NEW q \in Patches, q # x PROVE Keeps(q)
      BY <2>0, <2>1, <2>2, <2>8, CallsAssumption DEF Keeps
    <2>9. ASSUME x \in Patches PROVE Owned(x)'
      <3>1. Owned(x) /\ closes[x] \in Nat /\ x # NoCall
        BY <2>9, CallsAssumption DEF OneOwner, Owned, CloseTypes
      <3> QED
        BY <2>0, <2>1, <2>2, <2>9, <3>1 DEF Owned, Owners, Count
    <2> QED
      BY <2>8, <2>9, KeptOwned DEF OneOwner, Owned
  <1>9. CASE Commit
    BY <1>9, CallsAssumption DEF Commit, StillWanted, Settle, Answered, OneOwner, Owned,
      Owners, Count, Lanes, CallerTypes, RequestTypes, ExecutorTypes, LaneTypes, CloseTypes,
      callerVars, requestVars, executorVars, laneVars, closeVars, configVars, stopVars
  <1>10. CASE ActivationFails
    <2>0. PICK x : x = laneAct
      OBVIOUS
    <2>1. laneAt = "trial" /\ laneAct' = NoCall
              /\ UNCHANGED <<callAt, future, prepared, live, replaced>>
      BY <1>10, <2>0 DEF ActivationFails, callerVars, executorVars, requestVars, closeVars
    <2>2. /\ UNCHANGED <<closes, dropped>>
          /\ \A q \in Patches : q # x => (/\ q \in teardown' <=> q \in teardown
                                          /\ q \in deferred' <=> q \in deferred)
          /\ x # NoCall => \/ x \in teardown' /\ (x \in deferred' <=> x \in deferred)
                           \/ x \in deferred' /\ (x \in teardown' <=> x \in teardown)
      <3>1. ScheduleClose({x} \ {NoCall})
        BY <1>10, <2>0 DEF ActivationFails
      <3> QED
        BY <3>1, Scheduled
    <2>8. ASSUME NEW q \in Patches, q # x PROVE Keeps(q)
      BY <2>0, <2>1, <2>2, <2>8, CallsAssumption DEF Keeps
    <2>9. ASSUME x \in Patches PROVE Owned(x)'
      <3>1. Owned(x) /\ closes[x] \in Nat /\ x # NoCall
        BY <2>9, CallsAssumption DEF OneOwner, Owned, CloseTypes
      <3> QED
        BY <2>0, <2>1, <2>2, <2>9, <3>1 DEF Owned, Owners, Count
    <2> QED
      BY <2>8, <2>9, KeptOwned DEF OneOwner, Owned
  <1>11. CASE RollbackRaises
    <2>0. PICK x : x = laneAct
      OBVIOUS
    <2>1. laneAt = "trial" /\ laneAct' = NoCall
              /\ UNCHANGED <<callAt, future, prepared, live, replaced>>
      BY <1>11, <2>0 DEF RollbackRaises, callerVars, executorVars, requestVars, closeVars
    <2>2. dropped' = dropped \cup ({x} \ {NoCall}) /\ UNCHANGED <<closes, teardown, deferred>>
      BY <1>11, <2>0 DEF RollbackRaises
    <2>8. ASSUME NEW q \in Patches, q # x PROVE Keeps(q)
      BY <2>0, <2>1, <2>2, <2>8, CallsAssumption DEF Keeps
    <2>9. ASSUME x \in Patches PROVE Owned(x)'
      <3>1. Owned(x) /\ closes[x] \in Nat /\ x # NoCall
        BY <2>9, CallsAssumption DEF OneOwner, Owned, CloseTypes
      <3> QED
        BY <2>0, <2>1, <2>2, <2>9, <3>1 DEF Owned, Owners, Count
    <2> QED
      BY <2>8, <2>9, KeptOwned DEF OneOwner, Owned
  <1>12. CASE CloseReplaced
    <2>0. PICK x : x = replaced
      OBVIOUS
    <2>1. replaced' = NoCall /\ UNCHANGED <<callAt, future, prepared, live, laneAct>>
      BY <1>12, <2>0 DEF CloseReplaced, callerVars, executorVars, requestVars, closeVars
    <2>2. /\ UNCHANGED <<closes, dropped>>
          /\ \A q \in Patches : q # x => (/\ q \in teardown' <=> q \in teardown
                                          /\ q \in deferred' <=> q \in deferred)
          /\ x # NoCall => \/ x \in teardown' /\ (x \in deferred' <=> x \in deferred)
                           \/ x \in deferred' /\ (x \in teardown' <=> x \in teardown)
      <3>1. ScheduleClose({x} \ {NoCall})
        BY <1>12, <2>0 DEF CloseReplaced
      <3> QED
        BY <3>1, Scheduled
    <2>8. ASSUME NEW q \in Patches, q # x PROVE Keeps(q)
      BY <2>0, <2>1, <2>2, <2>8, CallsAssumption DEF Keeps
    <2>9. ASSUME x \in Patches PROVE Owned(x)'
      <3>1. Owned(x) /\ closes[x] \in Nat /\ x # NoCall
        BY <2>9, CallsAssumption DEF OneOwner, Owned, CloseTypes
      <3> QED
        BY <2>0, <2>1, <2>2, <2>9, <3>1 DEF Owned, Owners, Count
    <2> QED
      BY <2>8, <2>9, KeptOwned DEF OneOwner, Owned
  <1>13. CASE FailHead
    <2>0. PICK x : x = Head(queue)
      OBVIOUS
    <2>1. queue # <<>> /\ queue' = Tail(queue)
              /\ UNCHANGED <<callAt, future, live, replaced, laneAct>>
      BY <1>13, <2>0 DEF FailHead, callerVars, executorVars
    <2>2. IF x \in Patches THEN prepared' = [prepared EXCEPT ![x] = FALSE]
              /\ ScheduleClose(Held(x))
                           ELSE UNCHANGED <<prepared, closeVars>>
      BY <1>13, <2>0 DEF FailHead
    <2>4. Held(x) = IF prepared[x] THEN {x} ELSE {}
      BY DEF Held
    <2>5. x \in Patches => prepared'[x] = FALSE /\ \A q \in Patches : q # x
              => prepared'[q] = prepared[q]
      BY <2>2 DEF RequestTypes
    <2>8. ASSUME NEW q \in Patches, q # x PROVE Keeps(q)
      BY <2>1, <2>2, <2>4, <2>5, <2>8, Scheduled DEF Keeps, closeVars
    <2>9. ASSUME x \in Patches PROVE Owned(x)'
      <3>1. Owned(x) /\ closes[x] \in Nat
        BY <2>9 DEF OneOwner, Owned, CloseTypes
      <3> QED
        BY <2>1, <2>2, <2>4, <2>5, <2>9, <3>1, Scheduled DEF Owned, Owners, Count
    <2> QED
      BY <2>8, <2>9, KeptOwned DEF OneOwner, Owned
  <1>14. CASE LaneCloses
    <2>1. /\ UNCHANGED <<callAt, future, prepared, laneAct, replaced, teardown, dropped>>
          /\ live' = NoCall /\ deferred' = {}
          /\ \A q \in Patches : closes'[q] = IF q = live \/ q \in deferred
               THEN closes[q] + 1 ELSE closes[q]
      BY <1>14 DEF LaneCloses, callerVars, executorVars, requestVars, CloseTypes
    <2>2. ASSUME NEW q \in Patches PROVE Owned(q)'
      <3>1. Owned(q) /\ closes[q] \in Nat /\ q # NoCall
        BY CallsAssumption DEF OneOwner, Owned, CloseTypes
      <3> QED
        BY <2>1, <3>1 DEF Owned, Owners, Count
    <2> QED
      BY <2>2 DEF OneOwner, Owned
  <1>15. CASE ShutDownExecutor
    <2>1. UNCHANGED <<callAt, prepared, laneAct, live, replaced, closeVars>>
          /\ \A q \in Patches : future'[q] = future[q] \/ (future[q] = "queued"
               /\ future'[q] = "cancelled")
      BY <1>15 DEF ShutDownExecutor, callerVars, requestVars, laneVars
    <2>2. ASSUME NEW q \in Patches PROVE Owned(q)'
      <3>1. Owned(q) /\ closes[q] \in Nat /\ (future'[q] = future[q]
                \/ (future[q] = "queued" /\ future'[q] = "cancelled"))
        BY <2>1 DEF OneOwner, Owned, CloseTypes
      <3> QED
        BY <2>1, <3>1 DEF Owned, Owners, Count, closeVars
    <2> QED
      BY <2>2 DEF OneOwner, Owned
  <1>16. ASSUME NEW r \in Patches, CloseResource(r) PROVE OneOwner'
    <2>1. r \in teardown /\ teardown' = teardown \ {r}
          /\ UNCHANGED <<callAt, future, prepared, laneAct, live, replaced, deferred, dropped>>
      BY <1>16 DEF CloseResource, callerVars, executorVars, requestVars, laneVars
    <2>2. closes'[r] = closes[r] + 1 /\ \A q \in Patches : q # r => closes'[q] = closes[q]
      BY <1>16 DEF CloseResource, CloseTypes
    <2>8. ASSUME NEW q \in Patches, q # r PROVE Keeps(q)
      BY <2>1, <2>2, <2>8 DEF Keeps
    <2>9. Owned(r)'
      <3>1. Owned(r) /\ closes[r] \in Nat
        BY DEF OneOwner, Owned, CloseTypes
      <3> QED
        BY <2>1, <2>2, <3>1 DEF Owned, Owners, Count
    <2> QED
      BY <2>8, <2>9, KeptOwned DEF OneOwner, Owned
  <1> QED
    BY <1>1, <1>2, <1>3, <1>4, <1>5, <1>6, <1>7, <1>8, <1>9, <1>10, <1>11, <1>12, <1>13,
      <1>14, <1>15, <1>16 DEF NextPatches, PrepareWorker, Lane, LaneFailsPending, Stopper,
      StopFailsPending


LEMMA RequestsInit == InitPatches => RequestInv
  <1> SUFFICES ASSUME InitPatches PROVE RequestInv
    OBVIOUS
  <1>1. PatchTypes
    <2>1. CallerTypes /\ RequestTypes
      BY DEF InitPatches, CallerTypes, RequestTypes, CallerPC, Calls
    <2>2. ExecutorTypes
      BY DEF InitPatches, ExecutorTypes
    <2>5. LaneTypes
      <3>1. queue \in Seq(Calls) /\ laneAt \in LanePC
        BY DEF InitPatches, LanePC
      <3>2. laneReq = NoCall /\ laneAct = NoCall /\ replaced = NoCall /\ live = NoCall
        BY DEF InitPatches
      <3>3. laneFailed = FALSE
        BY DEF InitPatches
      <3> QED
        BY <3>1, <3>2, <3>3 DEF LaneTypes
    <2>3. CloseTypes /\ ConfigTypes
      BY DEF InitPatches, CloseTypes, ConfigTypes
    <2>4. StopTypes
      BY DEF InitPatches, StopTypes, StopPC
    <2> QED
      BY <2>1, <2>2, <2>3, <2>4, <2>5, TypeParts
  <1>2. Lanes /\ Stopped
    BY DEF InitPatches, Lanes, Stopped, Draining
  <1>3. Pending
    BY CallsAssumption DEF InitPatches, Pending, NoneTwice, Pends, InQueue, Calls
  <1>4. Decided
    BY DEF InitPatches, Decided, Decides
  <1>5. OneOwner
    BY CallsAssumption DEF InitPatches, OneOwner, Owned, Owners, Count, Calls
  <1>6. Preparing
    BY DEF InitPatches, Preparing, InStep, Calls
  <1>7. BuiltBetween
    BY DEF InitPatches, BuiltBetween
  <1> QED
    BY <1>1, <1>2, <1>3, <1>4, <1>5, <1>6, <1>7 DEF RequestInv

LEMMA RequestStep == RequestInv /\ [NextPatches]_patchVars => RequestInv'
  BY TypesKept, LanesKept, PendingKept, DecidedKept, OwnerKept, PreparingKept, BuiltKept,
    StoppedKept DEF RequestInv

\* A request is in one place of its way from its caller through the executor to the lane:
\* its outcome is decided once, its candidate has one owner, and a stop has emptied what it
\* has passed (_PatchRequest, Pipeline.stop, src/custback/pipeline.py).
THEOREM RequestInvariant == SpecPatches => []RequestInv
  BY RequestsInit, RequestStep, PTL DEF SpecPatches

\* What a caller is told is what happened and will happen, for any number of callers,
\* stops and restarts (AnswerTruthful): the outcome of a request is decided once, under its
\* lock, and a caller that gave up before left word there.
THEOREM AnswersAreTrue == SpecPatches => []AnswerTruthful
  <1>1. RequestInv => AnswerTruthful
    BY DEF RequestInv, Decided, Decides, AnswerTruthful
  <1> QED
    BY <1>1, RequestInvariant, PTL

\* The count of a candidate's owners is the number of places that hold it.
LEMMA HoldersCounted ==
  ASSUME NEW r, Owners(r) <= 1
  PROVE  Cardinality(Holders(r)) = Owners(r) /\ (Owners(r) = 0 => Holders(r) = {})
  <1>1. CASE Owners(r) = 0
    <2>1. Holders(r) = {}
      BY <1>1 DEF Holders, Owners, Count
    <2> QED
      BY <1>1, <2>1, FS_EmptySet
  <1>2. CASE Owners(r) = 1
    <2>1. \E h : Holders(r) = {h}
      <3>1. CASE future[r] = "built"
        <4>1. Holders(r) = {"future"}
          BY <1>2, <3>1 DEF Holders, Owners, Count
        <4> QED
          BY <4>1
      <3>2. CASE callAt[r] = "took"
        <4>1. Holders(r) = {"caller"}
          BY <1>2, <3>2 DEF Holders, Owners, Count
        <4> QED
          BY <4>1
      <3>3. CASE prepared[r]
        <4>1. Holders(r) = {"request"}
          BY <1>2, <3>3 DEF Holders, Owners, Count
        <4> QED
          BY <4>1
      <3>4. CASE laneAct = r
        <4>1. Holders(r) = {"lane"}
          BY <1>2, <3>4 DEF Holders, Owners, Count
        <4> QED
          BY <4>1
      <3>5. CASE live = r
        <4>1. Holders(r) = {"live"}
          BY <1>2, <3>5 DEF Holders, Owners, Count
        <4> QED
          BY <4>1
      <3>6. CASE replaced = r
        <4>1. Holders(r) = {"replaced"}
          BY <1>2, <3>6 DEF Holders, Owners, Count
        <4> QED
          BY <4>1
      <3>7. CASE r \in teardown
        <4>1. Holders(r) = {"teardown"}
          BY <1>2, <3>7 DEF Holders, Owners, Count
        <4> QED
          BY <4>1
      <3>8. CASE r \in deferred
        <4>1. Holders(r) = {"deferred"}
          BY <1>2, <3>8 DEF Holders, Owners, Count
        <4> QED
          BY <4>1
      <3>9. CASE r \in dropped
        <4>1. Holders(r) = {"dropped"}
          BY <1>2, <3>9 DEF Holders, Owners, Count
        <4> QED
          BY <4>1
      <3>10. CASE /\ future[r] # "built" /\ callAt[r] # "took" /\ ~prepared[r] /\ laneAct # r
                  /\ live # r /\ replaced # r /\ r \notin teardown \cup deferred \cup dropped
        <4>1. /\ Count(future[r] = "built") = 0 /\ Count(callAt[r] = "took") = 0
              /\ Count(prepared[r]) = 0 /\ Count(laneAct = r) = 0 /\ Count(live = r) = 0
              /\ Count(replaced = r) = 0 /\ Count(r \in teardown) = 0
              /\ Count(r \in deferred) = 0 /\ Count(r \in dropped) = 0
          BY <3>10 DEF Count
        <4> QED
          BY <1>2, <4>1 DEF Owners
      <3> QED
        BY <3>1, <3>2, <3>3, <3>4, <3>5, <3>6, <3>7, <3>8, <3>9, <3>10
    <2>2. PICK h : Holders(r) = {h}
      BY <2>1
    <2>3. Cardinality({h}) = 1
      BY FS_Singleton
    <2> QED
      BY <1>2, <2>2, <2>3
  <1> QED
    BY <1>1, <1>2 DEF Owners, Count

\* A candidate that was built is with one owner, or was closed, once (CandidateCustody).
THEOREM OneOwnerOrClosedOnce == SpecPatches => []CandidateCustody
  <1>1. ASSUME RequestInv PROVE CandidateCustody
    <2>1. ASSUME NEW r \in Patches
          PROVE  IF future[r] \in {"built", "taken"}
                 THEN Cardinality(Holders(r)) + closes[r] = 1
                 ELSE Holders(r) = {} /\ closes[r] = 0
      <3>1. Owned(r) /\ closes[r] \in Nat
        BY <1>1, TypeParts DEF RequestInv, OneOwner, CloseTypes
      <3>2. Owners(r) \in Nat
        BY DEF Owners, Count
      <3>3. CASE future[r] \in {"built", "taken"}
        <4>1. Owners(r) + closes[r] = 1 /\ Owners(r) <= 1
          BY <3>1, <3>2, <3>3 DEF Owned, Count
        <4> QED
          BY <3>3, <4>1, HoldersCounted
      <3>4. CASE future[r] \notin {"built", "taken"}
        <4>1. Owners(r) = 0 /\ closes[r] = 0
          BY <3>1, <3>2, <3>4 DEF Owned, Count
        <4> QED
          BY <3>4, <4>1, HoldersCounted
      <3> QED
        BY <3>3, <3>4
    <2>2. dropped # {} => laneAt \in {"ending", "draining", "closing", "off"} \/ starts > 1
      BY <1>1 DEF RequestInv, Lanes
    <2> QED
      BY <2>1, <2>2 DEF CandidateCustody
  <1> QED
    BY <1>1, RequestInvariant, PTL

\* A stop() that returned has ended the lane and every preparation, and what is still open
\* is about to be refused or is being closed (StopLeavesNothing).
THEOREM StopIsComplete == SpecPatches => []StopLeavesNothing
  <1>1. ASSUME RequestInv, stopper = "stopped" PROVE StopLeavesNothing
    <2>1. laneAt = "off" /\ queue = <<>> /\ tracked = {} /\ worker = NoCall
      BY <1>1 DEF RequestInv, Stopped, Draining
    <2>2. laneAct = NoCall /\ replaced = NoCall /\ live = NoCall
      BY <1>1, <2>1 DEF RequestInv, Lanes
    <2>3. ASSUME NEW r \in Patches
          PROVE  /\ Holders(r) \subseteq {"request", "teardown", "deferred", "dropped"}
                 /\ prepared[r] => callAt[r] = "prepared"
      <3>1. InStep(r) /\ r # NoCall /\ ~InQueue(r)
        BY <1>1, <2>1, CallsAssumption DEF RequestInv, Preparing, InQueue
      <3>2. future[r] # "built" /\ callAt[r] \notin {"took", "kept"}
        BY <2>1, <3>1 DEF InStep
      <3> QED
        BY <2>2, <3>1, <3>2 DEF InStep, Holders
    <2> QED
      BY <2>1, <2>3 DEF StopLeavesNothing
  <1>2. RequestInv => StopLeavesNothing
    BY <1>1 DEF StopLeavesNothing
  <1> QED
    BY <1>2, RequestInvariant, PTL

\* No candidate goes live that was built before the last deletion of an asset
\* (CommitsCurrentAssets): the storage epoch is read before the build and compared again
\* by the lane, and only the lane, which commits, deletes.
THEOREM OnlyCurrentAssets == SpecPatches => CommitsCurrentAssets
  <1>1. ASSUME RequestInv, [NextPatches]_patchVars
        PROVE  \A r \in committed' \ committed : builtOn[r] = assets
    <2>1. CASE Commit
      <3>1. PICK r : r = laneReq
        OBVIOUS
      <3>2. r \in Patches /\ laneAct = r /\ committed' = committed \cup {r}
                /\ seen[r] = storageEpoch
        BY <1>1, <2>1, <3>1, CallsAssumption DEF Commit, RequestInv, Lanes
      <3>3. future[r] \in {"built", "taken"}
        <4>1. Owned(r) /\ closes[r] \in Nat
          BY <1>1, <3>2, TypeParts DEF RequestInv, OneOwner, CloseTypes
        <4> QED
          BY <3>2, <4>1 DEF Owned, Owners, Count
      <3>4. /\ assets = storageEpoch /\ builtOn[r] \in Nat /\ seen[r] <= builtOn[r]
            /\ builtOn[r] <= assets /\ assets \in Nat
        BY <1>1, <3>2, <3>3 DEF RequestInv, BuiltBetween, PatchTypes
      <3> QED
        BY <3>2, <3>4
    <2>2. ASSUME ~Commit PROVE committed' = committed
      BY <1>1, <2>2 DEF NextPatches, Caller, PrepareWorker, Lane, LaneFailsPending, Stopper,
        StopFailsPending, patchVars, configVars, CreateRequest, SubmitPreparation, TakeResult,
        KeepOrDiscard, PreparationRaised, Untrack, Abandon, DiscardDoneFuture,
        DeadlineBeforeQueue, Enqueue, EnqueueRefused, Cancel, Acknowledged, StartBuild,
        PassOver, FinishBuild, CallbackDiscards, CallbackUntracks, TakePatch, TrialFails,
        FailPublished, CommitCancelled, ActivationFails, RollbackRaises, CloseReplaced, Mutate,
        LeaveLoop, LaneStops, FailHead, LaneDrained, LaneCloses, RequestStop, StopTakesLock,
        StopDrained, StopJoins, ShutDownExecutor, StopReturns, StopTimesOut, Start,
        PublisherFails, NotificationFails, CloseResource
    <2> QED
      BY <2>1, <2>2
  <1> QED
    BY <1>1, RequestInvariant, PTL DEF SpecPatches, CommitsCurrentAssets

-----------------------------------------------------------------------------
(* A patch is a compare-and-swap (AtomicConfig).  In addition to RequestInv: *)
(* a patch on trial is still based on the version it would replace.         *)

BasedOn == laneAt = "trial" => baseVersion[laneReq] = version

AtomicInv == RequestInv /\ BasedOn

\* A call is seen to move when its caller, or its outcome, does.
LEMMA StaysSeen ==
  ASSUME NEW q \in Calls, callAt[q] = "returned" => answer'[q] = answer[q],
         callAt'[q] = "returned" <=> callAt[q] = "returned",
         callAt'[q] = "idle" <=> callAt[q] = "idle",
         outcome'[q] = "result" <=> outcome[q] = "result"
  PROVE  CallState(q)' = CallState(q)
  BY DEF CallState

LEMMA NothingSeen ==
  ASSUME UNCHANGED <<version, storageEpoch, baseVersion, seen>>,
         \A q \in Calls : CallState(q)' = CallState(q)
  PROVE  UNCHANGED Atomic!vars
  BY DEF Atomic!vars

LEMMA OneMoves ==
  ASSUME NEW r \in Calls, NEW to, CallState(r)' = to,
         \A q \in Calls : q # r => CallState(q)' = CallState(q)
  PROVE  Atomic!Becomes(r, CallState(r), to)
  BY DEF Atomic!Becomes

LEMMA CallerRefines ==
  ASSUME RequestInv, NEW r \in Calls, Caller(r)
  PROVE  [Atomic!Next]_Atomic!vars
  <1>0. /\ CallerTypes /\ RequestTypes /\ PatchTypes /\ Decides(r)
        /\ \A q \in Calls : q # r => CallState(q)' = CallState(q)
    <2>1. PatchTypes /\ Decides(r)
      BY DEF RequestInv, Decided
    <2>2. ASSUME NEW q \in Calls, q # r PROVE CallState(q)' = CallState(q)
      BY <2>1, <2>2, CallerFrame, StaysSeen DEF Untouched
    <2> QED
      BY <2>1, <2>2, TypeParts
  <1> USE DEF CallerTypes, RequestTypes
  <1>1. ASSUME UNCHANGED <<version, storageEpoch, baseVersion, seen, outcome>>,
               callAt[r] \notin {"idle", "returned"}, callAt'[r] \notin {"idle", "returned"}
        PROVE  UNCHANGED Atomic!vars
    <2>1. CallState(r)' = CallState(r)
      BY <1>1, StaysSeen
    <2> QED
      BY <1>0, <1>1, <2>1, NothingSeen
  <1>2. ASSUME UNCHANGED <<version, storageEpoch, baseVersion, seen>>, Return(r, "error"),
               callAt[r] \notin {"idle", "returned"}, outcome[r] # "result"
        PROVE  Atomic!Next
    <2>1. CallState(r) = "open" /\ CallState(r)' = "error"
      BY <1>0, <1>2 DEF Return, CallState
    <2>2. Atomic!Refuse(r)
      BY <1>0, <1>2, <2>1, OneMoves DEF Atomic!Refuse
    <2> QED
      BY <2>2 DEF Atomic!Next, Atomic!Calls, Calls
  <1>3. ASSUME callAt[r] = "idle", callAt'[r] \notin {"idle", "returned"},
               UNCHANGED <<version, storageEpoch, outcome>>,
               \A p \in Patches : IF p = r
                                  THEN baseVersion'[p] = version /\ seen'[p] = storageEpoch
                                  ELSE baseVersion'[p] = baseVersion[p] /\ seen'[p] = seen[p]
        PROVE  Atomic!Next
    <2>1. CallState(r) = "idle" /\ CallState(r)' = "open"
      BY <1>0, <1>3 DEF Decides, CallState
    <2>2. Atomic!Becomes(r, "idle", "open")
      BY <1>0, <2>1, OneMoves
    <2>3. Atomic!Ask(r)
      BY <1>3, <2>2 DEF Atomic!Ask
    <2> QED
      BY <2>3 DEF Atomic!Next, Atomic!Calls, Calls
  <1>4. CASE CreateRequest(r)
    BY <1>0, <1>3, <1>4 DEF CreateRequest, requestVars, configVars
  <1>5. CASE Enqueue(r)
    <2>1. UNCHANGED <<version, storageEpoch, baseVersion, seen, outcome>>
      BY <1>5 DEF Enqueue, requestVars, configVars
    <2>2. callAt'[r] = "waiting"
      BY <1>0, <1>5 DEF Enqueue
    <2>3. CASE r \in Patches
      <3>1. callAt[r] = "prepared"
        BY <1>5, <2>3, CallsAssumption DEF Enqueue
      <3> QED
        BY <1>1, <2>1, <2>2, <3>1
    <2>4. CASE r \in Mutations
      <3>1. callAt[r] = "idle" /\ \A p \in Patches : p # r
        BY <1>5, <2>4, CallsAssumption DEF Enqueue
      <3> QED
        BY <1>3, <2>1, <2>2, <3>1
    <2> QED
      BY <2>3, <2>4 DEF Calls
  <1>6. CASE SubmitPreparation(r) \/ Untrack(r) \/ Abandon(r)
    <2>1. UNCHANGED <<version, storageEpoch, baseVersion, seen, outcome>>
      BY <1>6 DEF SubmitPreparation, Untrack, Abandon, requestVars, configVars
    <2>2. callAt[r] \in {"created", "kept", "refused", "awaiting"}
      BY <1>6 DEF SubmitPreparation, Untrack, Abandon
    <2>3. Return(r, "error") \/ callAt'[r] \in {"awaiting", "prepared", "discarding"}
      BY <1>0, <1>6 DEF SubmitPreparation, Untrack, Abandon
    <2>4. outcome[r] = "none"
      BY <1>0, <2>2 DEF Decides
    <2> QED
      BY <1>1, <1>2, <2>1, <2>2, <2>3, <2>4
  <1>7. CASE TakeResult(r) \/ KeepOrDiscard(r) \/ PreparationRaised(r) \/ DiscardDoneFuture(r)
    BY <1>0, <1>1, <1>7 DEF TakeResult, KeepOrDiscard, PreparationRaised, DiscardDoneFuture,
                            requestVars, configVars
  <1>8. CASE DeadlineBeforeQueue(r) \/ EnqueueRefused(r)
    <2>1. /\ UNCHANGED <<version, storageEpoch, baseVersion, seen>>
          /\ Return(r, "error") /\ callAt[r] = "prepared"
      BY <1>8 DEF DeadlineBeforeQueue, EnqueueRefused, configVars
    <2> QED
      BY <1>0, <1>2, <2>1 DEF Decides
  <1>9. CASE Cancel(r)
    <2>1. /\ UNCHANGED <<version, storageEpoch, baseVersion, seen, outcome>>
          /\ callAt[r] = "waiting"
          /\ callAt'[r] = "timedOut" \/ (Return(r, "error") /\ outcome[r] = "none")
      BY <1>0, <1>9 DEF Cancel, Answered, configVars
    <2> QED
      BY <1>1, <1>2, <2>1
  <1>10. CASE Acknowledged(r)
    <2>1. /\ UNCHANGED <<version, storageEpoch, baseVersion, seen, outcome>>
          /\ callAt[r] \in {"waiting", "timedOut"}
      BY <1>10 DEF Acknowledged, requestVars, configVars
    <2>2. CASE outcome[r] # "result"
      BY <1>2, <1>10, <2>1, <2>2 DEF Acknowledged
    <2>3. CASE outcome[r] = "result"
      <3>1. CallState(r) = "done" /\ CallState(r)' = "ok"
        BY <1>0, <1>10, <2>1, <2>3 DEF Acknowledged, Return, CallState
      <3>2. Atomic!Accept(r)
        BY <1>0, <2>1, <3>1, OneMoves DEF Atomic!Accept
      <3> QED
        BY <3>2 DEF Atomic!Next, Atomic!Calls, Calls
    <2> QED
      BY <2>2, <2>3
  <1> QED
    BY <1>4, <1>5, <1>6, <1>7, <1>8, <1>9, <1>10 DEF Caller

\* Setting an error says nothing until the caller looks.
LEMMA ErrorUnseen ==
  ASSUME RequestTypes, NEW x \in Calls, outcome[x] = "none", Settle(x, "error"),
         UNCHANGED <<callAt, answer, version, storageEpoch, baseVersion, seen>>
  PROVE  UNCHANGED Atomic!vars
  <1>1. outcome'[x] = "error" /\ \A q \in Calls : q # x => outcome'[q] = outcome[q]
    BY Settles
  <1>2. ASSUME NEW q \in Calls PROVE CallState(q)' = CallState(q)
    BY <1>1, StaysSeen
  <1> QED
    BY <1>2, NothingSeen

LEMMA SameOutcomes ==
  ASSUME UNCHANGED <<callAt, answer, outcome, version, storageEpoch, baseVersion, seen>>
  PROVE  UNCHANGED Atomic!vars
  BY StaysSeen, NothingSeen

LEMMA CommitRefines ==
  ASSUME AtomicInv, Commit PROVE Atomic!Next
  <1>1. PICK r : r = laneReq
    OBVIOUS
  <1>2. /\ r \in Patches /\ laneAt = "trial" /\ ~cancelled[r] /\ outcome[r] = "none"
        /\ baseVersion[r] = version /\ seen[r] = storageEpoch
        /\ Settle(r, "result") /\ version' = version + 1
        /\ UNCHANGED <<callAt, answer, baseVersion, seen, storageEpoch>>
    BY <1>1, CallsAssumption DEF Commit, StillWanted, AtomicInv, BasedOn, RequestInv, Lanes,
                                 Pending, callerVars
  <1>3. RequestTypes /\ r \in Calls /\ callAt[r] \in {"waiting", "timedOut"}
    BY <1>1, <1>2, TypeParts DEF AtomicInv, RequestInv, Pending, Pends, Calls
  <1>4. outcome'[r] = "result" /\ \A q \in Calls : q # r => outcome'[q] = outcome[q]
    BY <1>2, <1>3, Settles
  <1>5. CallState(r) = "open" /\ CallState(r)' = "done"
    BY <1>2, <1>3, <1>4 DEF CallState
  <1>6. \A q \in Calls : q # r => CallState(q)' = CallState(q)
    BY <1>2, <1>4, StaysSeen
  <1>7. Atomic!Patch(r)
    BY <1>2, <1>3, <1>5, <1>6, OneMoves DEF Atomic!Patch
  <1> QED
    BY <1>2, <1>7 DEF Atomic!Next

LEMMA MutateRefines ==
  ASSUME RequestInv, Mutate PROVE [Atomic!Next]_Atomic!vars
  <1>1. PICK r : r = Head(queue)
    OBVIOUS
  <1>2. /\ r \in Mutations /\ queue # <<>> /\ queue' = Tail(queue)
        /\ UNCHANGED <<callAt, answer, baseVersion, seen, version>>
        /\ \/ UNCHANGED <<outcome, storageEpoch>>
           \/ Settle(r, "error") /\ UNCHANGED storageEpoch
           \/ ~cancelled[r] /\ Settle(r, "result") /\ storageEpoch' = storageEpoch + 1
    BY <1>1 DEF Mutate, callerVars
  <1>3. r \in Calls /\ InQueue(r) /\ RequestTypes
    BY <1>1, <1>2, Dequeued, TypeParts DEF RequestInv
  <1>4. /\ outcome[r] = "none"
        /\ ~cancelled[r] => callAt[r] = "waiting"
    BY <1>3 DEF RequestInv, Pending, Pends
  <1>5. CASE UNCHANGED <<outcome, storageEpoch>>
    BY <1>2, <1>5, SameOutcomes
  <1>6. CASE Settle(r, "error") /\ UNCHANGED storageEpoch
    BY <1>2, <1>3, <1>4, <1>6, ErrorUnseen
  <1>7. CASE ~cancelled[r] /\ Settle(r, "result") /\ storageEpoch' = storageEpoch + 1
    <2>1. outcome'[r] = "result" /\ \A q \in Calls : q # r => outcome'[q] = outcome[q]
      BY <1>3, <1>4, <1>7, Settles
    <2>2. CallState(r) = "open" /\ CallState(r)' = "done"
      BY <1>2, <1>4, <1>7, <2>1 DEF CallState
    <2>3. \A q \in Calls : q # r => CallState(q)' = CallState(q)
      BY <1>2, <2>1, StaysSeen
    <2>4. Atomic!Mutate(r)
      BY <1>2, <1>3, <1>7, <2>2, <2>3, OneMoves DEF Atomic!Mutate
    <2> QED
      BY <1>2, <2>4 DEF Atomic!Next
  <1> QED
    BY <1>2, <1>5, <1>6, <1>7

LEMMA TakeRefines ==
  ASSUME RequestInv, TakePatch PROVE UNCHANGED Atomic!vars
  <1>1. PICK r : r = Head(queue)
    OBVIOUS
  <1>2. /\ queue # <<>> /\ queue' = Tail(queue)
        /\ UNCHANGED <<callAt, answer, baseVersion, seen, version, storageEpoch>>
        /\ UNCHANGED outcome \/ Settle(r, "error")
    BY <1>1 DEF TakePatch, callerVars, configVars
  <1>3. r \in Calls /\ InQueue(r) /\ RequestTypes
    BY <1>1, <1>2, Dequeued, TypeParts DEF RequestInv
  <1>4. outcome[r] = "none"
    BY <1>3 DEF RequestInv, Pending, Pends
  <1> QED
    BY <1>2, <1>3, <1>4, SameOutcomes, ErrorUnseen

LEMMA FailsUnseen ==
  ASSUME RequestInv, FailHead PROVE UNCHANGED Atomic!vars
  <1>1. PICK r : r = Head(queue)
    OBVIOUS
  <1>2. /\ queue # <<>> /\ queue' = Tail(queue) /\ Settle(r, "error")
        /\ UNCHANGED <<callAt, answer, baseVersion, seen, version, storageEpoch>>
    BY <1>1 DEF FailHead, callerVars, configVars
  <1>3. r \in Calls /\ InQueue(r) /\ RequestTypes
    BY <1>1, <1>2, Dequeued, TypeParts DEF RequestInv
  <1>4. outcome[r] = "none"
    BY <1>3 DEF RequestInv, Pending, Pends
  <1> QED
    BY <1>2, <1>3, <1>4, ErrorUnseen

LEMMA LaneRefines ==
  ASSUME AtomicInv, Lane PROVE [Atomic!Next]_Atomic!vars
  <1>0. RequestInv
    BY DEF AtomicInv
  <1>1. CASE TrialFails \/ ActivationFails
    <2>1. PICK r : r = laneReq
      OBVIOUS
    <2>2. /\ laneAt = "trial" /\ Settle(r, "error")
          /\ UNCHANGED <<callAt, answer, baseVersion, seen, version, storageEpoch>>
      BY <1>1, <2>1 DEF TrialFails, ActivationFails, callerVars, configVars
    <2>3. r \in Calls /\ outcome[r] = "none" /\ RequestTypes
      BY <1>0, <2>1, <2>2, TypeParts, CallsAssumption DEF RequestInv, Lanes, Pending, Calls
    <2> QED
      BY <2>2, <2>3, ErrorUnseen
  <1>2. CASE LaneFailsPending
    BY <1>0, <1>2, FailsUnseen DEF LaneFailsPending
  <1>3. CASE \/ FailPublished \/ CommitCancelled \/ RollbackRaises \/ CloseReplaced
             \/ LeaveLoop \/ LaneStops \/ LaneDrained \/ LaneCloses
    <2>1. UNCHANGED <<callAt, answer, outcome, version, storageEpoch, baseVersion, seen>>
      BY <1>3 DEF FailPublished, CommitCancelled, RollbackRaises, CloseReplaced, LeaveLoop,
        LaneStops, LaneDrained, LaneCloses, callerVars, requestVars, configVars
    <2> QED
      BY <2>1, SameOutcomes
  <1> QED
    BY <1>0, <1>1, <1>2, <1>3, CommitRefines, MutateRefines, TakeRefines DEF Lane

LEMMA OthersUnseen ==
  ASSUME RequestInv,
         \/ PrepareWorker \/ Stopper \/ Start \/ PublisherFails \/ NotificationFails
         \/ (\E r \in Patches : CloseResource(r)) \/ UNCHANGED patchVars
  PROVE  UNCHANGED Atomic!vars
  <1>1. CASE StopFailsPending
    BY <1>1, FailsUnseen DEF StopFailsPending
  <1>2. CASE PrepareWorker
    BY <1>2, SameOutcomes DEF PrepareWorker, StartBuild, PassOver, FinishBuild,
      CallbackDiscards, CallbackUntracks, callerVars, requestVars, configVars
  <1>3. CASE \/ RequestStop \/ StopTakesLock \/ StopDrained \/ StopJoins \/ ShutDownExecutor
             \/ StopReturns \/ StopTimesOut \/ Start
    BY <1>3, SameOutcomes DEF RequestStop, StopTakesLock, StopDrained, StopJoins,
      ShutDownExecutor, StopReturns, StopTimesOut, Start, callerVars, requestVars, configVars
  <1>4. CASE \/ PublisherFails \/ NotificationFails
             \/ (\E r \in Patches : CloseResource(r)) \/ UNCHANGED patchVars
    BY <1>4, SameOutcomes DEF PublisherFails, NotificationFails, CloseResource, patchVars,
      callerVars, requestVars, configVars
  <1> QED
    BY <1>1, <1>2, <1>3, <1>4 DEF Stopper

\* A version on trial stays the current one: the lane, which alone commits, is busy with it.
LEMMA BasedKept == AtomicInv /\ [NextPatches]_patchVars => BasedOn'
  <1> SUFFICES ASSUME AtomicInv, [NextPatches]_patchVars PROVE BasedOn'
    OBVIOUS
  <1>0. RequestInv /\ PatchTypes /\ BasedOn
    BY DEF AtomicInv, RequestInv
  <1>1. ASSUME UNCHANGED <<laneAt, laneReq, version, baseVersion>> PROVE BasedOn'
    BY <1>0, <1>1 DEF BasedOn
  <1>2. ASSUME laneAt' # "trial" PROVE BasedOn'
    BY <1>2 DEF BasedOn
  <1>3. ASSUME NEW r \in Calls, Caller(r) PROVE BasedOn'
    <2>1. UNCHANGED <<laneAt, laneReq, version>>
      BY <1>3 DEF Caller, CreateRequest, SubmitPreparation, TakeResult, KeepOrDiscard,
        PreparationRaised, Untrack, Abandon, DiscardDoneFuture, DeadlineBeforeQueue, Enqueue,
        EnqueueRefused, Cancel, Acknowledged, laneVars, configVars
    <2>2. CASE CreateRequest(r)
      <3>1. /\ callAt[r] = "idle"
            /\ baseVersion' = [baseVersion EXCEPT ![r] = version]
        BY <2>2 DEF CreateRequest
      <3>2. PICK t : t = laneReq
        OBVIOUS
      <3>3. CASE laneAt = "trial"
        <4>1. t \in Calls /\ t \in Patches /\ callAt[t] # "idle"
          BY <1>0, <3>2, <3>3, CallsAssumption DEF RequestInv, Lanes, Pending, Pends, Calls
        <4>2. baseVersion'[t] = baseVersion[t]
          BY <1>0, <3>1, <4>1, TypeParts DEF RequestTypes, CallerTypes
        <4> QED
          BY <1>0, <2>1, <3>2, <3>3, <4>2 DEF BasedOn
      <3> QED
        BY <1>2, <2>1, <3>3
    <2>3. CASE ~CreateRequest(r)
      <3>1. UNCHANGED baseVersion
        BY <1>3, <2>3 DEF Caller, SubmitPreparation, TakeResult, KeepOrDiscard,
          PreparationRaised, Untrack, Abandon, DiscardDoneFuture, DeadlineBeforeQueue, Enqueue,
          EnqueueRefused, Cancel, Acknowledged
      <3> QED
        BY <1>1, <2>1, <3>1
    <2> QED
      BY <2>2, <2>3
  <1>4. CASE TakePatch
    <2>1. PICK r : r = Head(queue)
      OBVIOUS
    <2>2. /\ UNCHANGED <<version, baseVersion>>
          /\ laneAt' # "trial" \/ (laneReq' = r /\ Fresh(r))
      BY <1>4, <2>1 DEF TakePatch, callerVars, configVars
    <2> QED
      BY <2>2 DEF Fresh, BasedOn
  <1>5. CASE \/ TrialFails \/ FailPublished \/ CommitCancelled \/ Commit \/ ActivationFails
             \/ RollbackRaises \/ CloseReplaced \/ LeaveLoop \/ LaneStops \/ LaneDrained
             \/ LaneCloses \/ Start
    BY <1>2, <1>5 DEF TrialFails, FailPublished, CommitCancelled, Commit, ActivationFails,
      RollbackRaises, CloseReplaced, LeaveLoop, LaneStops, LaneDrained, LaneCloses, Start
  <1>6. CASE Mutate \/ LaneFailsPending \/ StopFailsPending
    BY <1>1, <1>6 DEF Mutate, LaneFailsPending, StopFailsPending, FailHead, callerVars,
      configVars
  <1>7. CASE PrepareWorker
    BY <1>1, <1>7 DEF PrepareWorker, StartBuild, PassOver, FinishBuild, CallbackDiscards,
      CallbackUntracks, callerVars, laneVars, configVars
  <1>8. CASE \/ RequestStop \/ StopTakesLock \/ StopDrained \/ StopJoins \/ ShutDownExecutor
             \/ StopReturns \/ StopTimesOut \/ PublisherFails \/ NotificationFails
             \/ (\E r \in Patches : CloseResource(r)) \/ UNCHANGED patchVars
    BY <1>1, <1>8 DEF RequestStop, StopTakesLock, StopDrained, StopJoins, ShutDownExecutor,
      StopReturns, StopTimesOut, PublisherFails, NotificationFails, CloseResource, patchVars,
      callerVars, laneVars, configVars
  <1> QED
    BY <1>3, <1>4, <1>5, <1>6, <1>7, <1>8 DEF NextPatches, Lane, Stopper

LEMMA AtomicInit == InitPatches => BasedOn /\ Atomic!Init
  <1> SUFFICES ASSUME InitPatches PROVE BasedOn /\ Atomic!Init
    OBVIOUS
  <1>1. /\ laneAt = "off" /\ version = 0 /\ storageEpoch = 0
        /\ baseVersion = [r \in Patches |-> 0] /\ seen = [r \in Patches |-> 0]
        /\ callAt = [r \in Calls |-> "idle"] /\ outcome = [r \in Calls |-> "none"]
    BY DEF InitPatches
  <1>2. BasedOn
    BY <1>1 DEF BasedOn
  <1>3. \A r \in Calls : CallState(r) = "idle"
    BY <1>1 DEF CallState
  <1>4. \A r \in Patches : <<baseVersion[r], seen[r]>> = <<0, 0>>
    BY <1>1
  <1> QED
    BY <1>1, <1>2, <1>3, <1>4 DEF Atomic!Init, Atomic!Calls, Calls

LEMMA AtomicInvariant == SpecPatches => []AtomicInv
  <1>1. InitPatches => AtomicInv
    BY RequestsInit, AtomicInit DEF AtomicInv
  <1>2. AtomicInv /\ [NextPatches]_patchVars => AtomicInv'
    BY RequestStep, BasedKept DEF AtomicInv
  <1> QED
    BY <1>1, <1>2, PTL DEF SpecPatches

\* For any number of calls, starts and stops, patches and mutations are atomic
\* (ImplementsAtomic): each step of the callers, the executor, the lane and stop() is a
\* step of AtomicConfig or changes nothing there.
THEOREM PatchesAreAtomic == SpecPatches => ImplementsAtomic
  <1>1. InitPatches => Atomic!Init
    BY AtomicInit
  <1>2. AtomicInv /\ [NextPatches]_patchVars => [Atomic!Next]_Atomic!vars
    <2> SUFFICES ASSUME AtomicInv, [NextPatches]_patchVars PROVE [Atomic!Next]_Atomic!vars
      OBVIOUS
    <2>1. RequestInv
      BY DEF AtomicInv
    <2>2. CASE \E r \in Calls : Caller(r)
      BY <2>1, <2>2, CallerRefines
    <2>3. CASE Lane
      BY <2>3, LaneRefines
    <2>4. CASE \/ PrepareWorker \/ Stopper \/ Start \/ PublisherFails \/ NotificationFails
               \/ (\E r \in Patches : CloseResource(r)) \/ UNCHANGED patchVars
      BY <2>1, <2>4, OthersUnseen
    <2> QED
      BY <2>2, <2>3, <2>4 DEF NextPatches
  <1> QED
    BY <1>1, <1>2, AtomicInvariant, PTL DEF SpecPatches, ImplementsAtomic, Atomic!Spec
=============================================================================
