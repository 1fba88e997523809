---------------------------- MODULE RemoteOutput ----------------------------
(***************************************************************************)
(* Remote mode end to end: renderers on the API's event loop               *)
(* (ws_frames, src/custback/api/server.py), the hub (FrameHub), and the    *)
(* processing thread with its policy transitions and raw epochs            *)
(* (src/custback/pipeline.py), in front of the publisher.                  *)
(*                                                                         *)
(* The event loop runs one callback at a time and is blocked while a lease *)
(* notification fences the output.  The processing thread reads the hub    *)
(* and the policy without a lock across its steps: what it read may be     *)
(* stale when it uses it.  The publisher is reduced to what PublicationGate *)
(* says of it.  Configuration changes are in PolicyRollback; here the mode *)
(* is remote throughout.                                                   *)
(***************************************************************************)
EXTENDS FrameHub, FiniteSets

CONSTANTS
  Clients,    \* renderer connections
  Capacity,   \* _raw_fingerprint_capacity
  MaxRuns     \* bound: so many times is the pipeline started

ASSUME PipelineBounds == Capacity \in Nat \ {0} /\ MaxRuns \in Nat \ {0}

Threads == {"processor", "loop"}
ASSUME NoneIsNoOne == None \notin Threads \cup Clients

VARIABLES
  pc,         \* where the processing thread is
  runs,       \* how often the pipeline was started
  rawEpoch,   \* _publisher_raw_epoch
  policy,     \* _publisher_policy
  lock,       \* the owner of _publisher_policy_lock, or None
  stage,      \* where each thread is in a policy transition
  target,     \* the policy each thread is installing
  exhausted,  \* _privacy_history_exhausted
  remembered, \* the number of fingerprints in the replay history
  failed,     \* _publisher_failure was called
  pend,       \* remote_pending_raw_epoch and _renderer_session; epoch 0: none
  expired,    \* remote_timeout_ms have passed since remote_pending_started_ns
  submitted,  \* remote_submitted_response_ns, as the frame it stands for
  second,     \* the lease and proof of the hub read in progress, then its frame
  base,       \* the base being made
  held,       \* the bases the publisher holds
  wire,       \* the base in the sink, None for the slate or nothing
  gate,       \* the publisher's policy
  resolved,   \* bridge.resolved_remote_raw_epoch
  busy,       \* the connection the loop is notifying for, or None
  conn,       \* the lease each connection was given, 0 before and after
  sender,     \* where the sender of each connection is
  sent        \* history: the raw epochs each lease was sent, and if it was valid

pipeline == <<pc, runs, rawEpoch, exhausted, remembered, failed>>
fencing == <<policy, lock, stage, target>>
cycle == <<pend, expired, submitted, second, base>>
publisher == <<held, wire, gate, resolved>>
loop == <<busy, conn, sender, sent>>
vars == <<hub, pipeline, fencing, cycle, publisher, loop>>

NoPolicy == [epoch |-> 0, raw |-> 0, session |-> 0]
NoBase == [policy |-> 0, proof |-> NoProof, pixels |-> None, resolved |-> 0]
NoRead == [session |-> 0, proof |-> NoProof, frame |-> None]

Init ==
  /\ InitHub
  /\ pc = "off" /\ runs = 0 /\ rawEpoch = 0
  /\ exhausted = FALSE /\ remembered = 0 /\ failed = FALSE
  /\ policy = NoPolicy /\ lock = None
  /\ stage = [t \in Threads |-> "none"] /\ target = [t \in Threads |-> NoPolicy]
  /\ pend = NoProof /\ expired = FALSE /\ submitted = NoProof
  /\ second = NoRead /\ base = NoBase
  /\ held = {} /\ wire = None /\ gate = NoPolicy /\ resolved = 0
  /\ busy = None /\ conn = [c \in Clients |-> 0]
  /\ sender = [c \in Clients |-> "off"] /\ sent = {}

-----------------------------------------------------------------------------
\* _publisher_policy_transition, by the processing thread or by the loop in
\* _remote_lifecycle_changed.

\* Mutant: the new policy is made up before the lock is free.
TakeWithoutLock(t) ==
  /\ stage[t] = "lock" /\ pc # "off"
  /\ lock' = t
  /\ target' = [target EXCEPT ![t] =
                  [epoch |-> policy.epoch + 1, raw |-> rawEpoch, session |-> ActiveSession]]
  /\ stage' = [stage EXCEPT ![t] = "fence"]
  /\ UNCHANGED <<hub, pipeline, policy, cycle, publisher, loop>>

\* The epoch and the lease are taken under the lock.
TakePolicyLock(t) ==
  /\ stage[t] = "lock" /\ lock = None /\ pc # "off"
  /\ lock' = t
  /\ target' = [target EXCEPT ![t] =
                  [epoch |-> policy.epoch + 1, raw |-> rawEpoch, session |-> ActiveSession]]
  /\ stage' = [stage EXCEPT ![t] = "fence"]
  /\ UNCHANGED <<hub, pipeline, policy, cycle, publisher, loop>>

\* The listener has nothing to fence without a publisher.
NothingToFence ==
  /\ stage["loop"] = "lock" /\ lock = None /\ pc = "off"
  /\ stage' = [stage EXCEPT !["loop"] = "done"]
  /\ UNCHANGED <<hub, pipeline, policy, lock, target, cycle, publisher, loop>>

\* Mutant: the fence does not wait for the sink.
FenceWhileSending(t) ==
  /\ stage[t] = "fence"
  /\ gate' = target[t]
  /\ held' = {}
  /\ stage' = [stage EXCEPT ![t] = "assign"]
  /\ UNCHANGED <<hub, pipeline, policy, lock, target, cycle, wire, resolved, loop>>

\* fence_to_slate: nothing is in the sink, and nothing stays with the publisher.
Fence(t) ==
  /\ stage[t] = "fence" /\ wire = None
  /\ gate' = target[t]
  /\ held' = {}
  /\ stage' = [stage EXCEPT ![t] = "assign"]
  /\ UNCHANGED <<hub, pipeline, policy, lock, target, cycle, wire, resolved, loop>>

AssignPolicy(t) ==
  /\ stage[t] = "assign"
  /\ policy' = target[t]
  /\ lock' = None
  /\ stage' = [stage EXCEPT ![t] = "done"]
  /\ target' = [target EXCEPT ![t] = NoPolicy]
  /\ UNCHANGED <<hub, pipeline, cycle, publisher, loop>>

\* The fence of a notification times out: the run fails, and a lease that was
\* being granted is taken back without another notification.
LoopFenceFails ==
  /\ stage["loop"] = "fence" /\ wire # None
  /\ failed' = TRUE
  /\ lock' = None
  /\ stage' = [stage EXCEPT !["loop"] = "none"]
  /\ target' = [target EXCEPT !["loop"] = NoPolicy]
  /\ IF sender[busy] = "off" THEN RevokeLease(conn[busy]) ELSE UNCHANGED hub
  /\ conn' = [conn EXCEPT ![busy] = 0]
  /\ sender' = [sender EXCEPT ![busy] = "off"]
  /\ busy' = None
  /\ UNCHANGED <<pc, runs, rawEpoch, exhausted, remembered, policy, cycle, publisher, sent>>

\* A fence of the processing thread times out: _run ends.
ProcessorFenceFails ==
  /\ stage["processor"] = "fence" /\ wire # None
  /\ failed' = TRUE
  /\ lock' = None
  /\ stage' = [stage EXCEPT !["processor"] = "none"]
  /\ target' = [target EXCEPT !["processor"] = NoPolicy]
  /\ pc' = "closing"
  /\ UNCHANGED <<hub, runs, rawEpoch, exhausted, remembered, policy, cycle, publisher, loop>>

-----------------------------------------------------------------------------
\* The event loop.

LoopFree == busy = None

\* ws_frames: the lease is granted, and the listener runs before it is used.
Connect(c) ==
  /\ LoopFree /\ conn[c] = 0
  /\ GrantLease
  /\ conn' = [conn EXCEPT ![c] = session']
  /\ busy' = c
  /\ stage' = [stage EXCEPT !["loop"] = "lock"]
  /\ UNCHANGED <<pipeline, policy, lock, target, cycle, publisher, sender, sent>>

\* Both tasks of the connection have ended; the lease ends if it is still its.
Disconnect(c) ==
  /\ LoopFree /\ conn[c] # 0
  /\ EndLease(conn[c])
  /\ IF SessionValid(conn[c])
       THEN /\ busy' = c
            /\ stage' = [stage EXCEPT !["loop"] = "lock"]
            /\ sender' = [sender EXCEPT ![c] = "ended"]
            /\ UNCHANGED conn
       ELSE /\ conn' = [conn EXCEPT ![c] = 0]
            /\ sender' = [sender EXCEPT ![c] = "off"]
            /\ UNCHANGED <<busy, stage>>
  /\ UNCHANGED <<pipeline, policy, lock, target, cycle, publisher, sent>>

\* The listener has returned to the loop.
Notified ==
  /\ ~LoopFree /\ stage["loop"] = "done"
  /\ stage' = [stage EXCEPT !["loop"] = "none"]
  /\ IF sender[busy] = "off"
       THEN sender' = [sender EXCEPT ![busy] = "check"] /\ UNCHANGED conn
       ELSE sender' = [sender EXCEPT ![busy] = "off"] /\ conn' = [conn EXCEPT ![busy] = 0]
  /\ busy' = None
  /\ UNCHANGED <<hub, pipeline, policy, lock, target, cycle, publisher, sent>>

\* receiver(): a rendered frame was decoded; it claims the raw epoch e.
Receive(c, e) ==
  /\ LoopFree /\ sender[c] \in {"check", "wait"}
  /\ PushFrame(e, conn[c])
  /\ UNCHANGED <<pipeline, fencing, cycle, publisher, loop>>

\* sender() looks at its lease, then awaits the next JPEG.
SenderChecks(c) ==
  /\ LoopFree /\ sender[c] = "check"
  /\ sender' = [sender EXCEPT ![c] = IF SessionValid(conn[c]) THEN "wait" ELSE "ended"]
  /\ UNCHANGED <<hub, pipeline, fencing, cycle, publisher, busy, conn, sent>>

\* Mutant: a raw frame is sent whatever epoch it was bound to.
SenderSendsAny(c, e) ==
  /\ LoopFree /\ sender[c] = "wait" /\ issued[e] # None
  /\ sent' = sent \cup {[epoch |-> e, session |-> conn[c], valid |-> SessionValid(conn[c])]}
  /\ sender' = [sender EXCEPT ![c] = "check"]
  /\ UNCHANGED <<hub, pipeline, fencing, cycle, publisher, busy, conn>>

\* The JPEG of the epoch e arrives, or none does; only a bound epoch is sent.
SenderSends(c, e) ==
  /\ LoopFree /\ sender[c] = "wait"
  /\ sent' = IF e \in bound
               THEN sent \cup {[epoch |-> e, session |-> conn[c], valid |-> SessionValid(conn[c])]}
               ELSE sent
  /\ sender' = [sender EXCEPT ![c] = "check"]
  /\ UNCHANGED <<hub, pipeline, fencing, cycle, publisher, busy, conn>>

-----------------------------------------------------------------------------
\* The processing thread: start, and one raw epoch after another.

\* start and _run up to the first transition.  A lease event in progress is
\* over by then: reset_remote_session comes first, and the resources that
\* _run opens take longer.
StartRun ==
  /\ pc = "off" /\ runs < MaxRuns /\ LoopFree
  /\ runs' = runs + 1
  /\ RevokeLease(session)
  /\ exhausted' = FALSE /\ remembered' = 0 /\ failed' = FALSE
  /\ policy' = NoPolicy /\ gate' = NoPolicy
  /\ rawEpoch' = 1
  /\ resolved' = 0 /\ pend' = NoProof /\ expired' = FALSE /\ submitted' = NoProof
  /\ stage' = [stage EXCEPT !["processor"] = "lock"]
  /\ pc' = "publish"
  /\ UNCHANGED <<lock, target, second, base, held, wire, loop>>

\* The renderer's time is over.
Expire ==
  /\ pend # NoProof /\ ~expired
  /\ expired' = TRUE
  /\ UNCHANGED <<hub, pipeline, fencing, pend, submitted, second, base, publisher, loop>>

\* Mutant: an unanswered epoch is never given up.
WaitsForever == pend = NoProof \/ pend.session # policy.session \/ resolved >= pend.epoch
NeedsNewRaw ==
  \/ pend = NoProof
  \/ pend.session # policy.session
  \/ resolved >= pend.epoch
  \/ expired

\* The top of the loop, with a new camera frame.
RotateRaw ==
  /\ pc = "decide" /\ ~failed /\ NeedsNewRaw
  /\ rawEpoch < MaxRaw
  /\ rawEpoch' = rawEpoch + 1
  /\ stage' = [stage EXCEPT !["processor"] = "lock"]
  /\ pc' = "publish"
  /\ UNCHANGED <<hub, runs, exhausted, remembered, failed, policy, lock, target, cycle,
                 publisher, loop>>

RoomToRemember == ~exhausted /\ remembered < Capacity

\* _publish_remote_raw_frame, with admit called under the hub's lock.
PublishRemoteRaw ==
  /\ pc = "publish" /\ stage["processor"] = "done"
  /\ PublishRaw(rawEpoch, RoomToRemember)
  /\ IF connected
       THEN IF RoomToRemember
              THEN remembered' = remembered + 1 /\ UNCHANGED exhausted
              ELSE exhausted' = TRUE /\ UNCHANGED remembered
       ELSE UNCHANGED <<remembered, exhausted>>
  /\ stage' = [stage EXCEPT !["processor"] = "none"]
  /\ IF connected /\ ~RoomToRemember
       THEN pc' = "revoke" /\ pend' = [epoch |-> 0, session |-> session]
       ELSE pc' = "pend" /\ pend' = [epoch |-> rawEpoch, session |-> 0]
  /\ submitted' = NoProof
  /\ UNCHANGED <<runs, rawEpoch, failed, policy, lock, target, expired, second, base,
                 publisher, loop>>

\* "remote raw epochs must increase"
PublishRejected ==
  /\ pc = "publish" /\ stage["processor"] = "done"
  /\ rawEpoch <= required
  /\ pc' = "rejected"
  /\ stage' = [stage EXCEPT !["processor"] = "none"]
  /\ failed' = TRUE
  /\ UNCHANGED <<hub, runs, rawEpoch, exhausted, remembered, policy, lock, target, cycle,
                 publisher, loop>>

\* invalidate_remote_session(admitted_session), and its notification.
RevokeExhausted ==
  /\ pc = "revoke" /\ stage["processor"] = "none"
  /\ RevokeLease(pend.session)
  /\ IF SessionValid(pend.session)
       THEN stage' = [stage EXCEPT !["processor"] = "lock"] /\ pc' = "revoked"
       ELSE UNCHANGED stage /\ pc' = "pend"
  /\ pend' = NoProof
  /\ UNCHANGED <<runs, rawEpoch, exhausted, remembered, failed, policy, lock, target,
                 expired, submitted, second, base, publisher, loop>>

RevokeNotified ==
  /\ pc = "revoked" /\ stage["processor"] = "done"
  /\ stage' = [stage EXCEPT !["processor"] = "none"]
  /\ pc' = "pend"
  /\ UNCHANGED <<hub, runs, rawEpoch, exhausted, remembered, failed, policy, lock, target,
                 cycle, publisher, loop>>

\* The pending epoch is noted, with the lease of the policy as it is now.
NotePending ==
  /\ pc = "pend"
  /\ pend' = IF pend = NoProof THEN NoProof ELSE [pend EXCEPT !.session = policy.session]
  /\ expired' = FALSE
  /\ pc' = "decide"
  /\ UNCHANGED <<hub, runs, rawEpoch, exhausted, remembered, failed, fencing, submitted,
                 second, base, publisher, loop>>

-----------------------------------------------------------------------------
\* The processing thread: from an answer to a base.

Cycled == second' = NoRead /\ base' = NoBase

\* remote_frame_proof_status, under the hub's lock...
ReadProof ==
  /\ \/ pc = "decide" /\ ~failed /\ ~NeedsNewRaw /\ pc' = "probe"
     \/ pc = "render" /\ pc' = "read"
  /\ second' = [session |-> ActiveSession, proof |-> proof, frame |-> None]
  /\ UNCHANGED <<hub, runs, rawEpoch, exhausted, remembered, failed, fencing, pend, expired,
                 submitted, base, publisher, loop>>

\* ..., then the slot without it.  A frame that is too old counts as none.
Read(f) ==
  IF f = None \/ second.session = 0 \/ second.proof.session # second.session
    THEN [session |-> second.session, proof |-> NoProof, frame |-> None]
    ELSE [second EXCEPT !.frame = f]

\* The first read: nothing to do without a frame, or with one already used.
ProbeFrame ==
  /\ pc = "probe"
  /\ \E f \in {None, remoteIn} :
       LET got == Read(f)
       IN  IF got.frame = None \/ got.proof = submitted
             THEN pc' = "decide"
             ELSE pc' = "render"
  /\ second' = NoRead
  /\ UNCHANGED <<hub, runs, rawEpoch, exhausted, remembered, failed, fencing, pend, expired,
                 submitted, base, publisher, loop>>

\* The second read, before the send.
ReadFrame ==
  /\ pc = "read"
  /\ \E f \in {None, remoteIn} : second' = Read(f)
  /\ pc' = "judge"
  /\ UNCHANGED <<hub, runs, rawEpoch, exhausted, remembered, failed, fencing, pend, expired,
                 submitted, base, publisher, loop>>

MatchesPolicy ==
  second.proof # NoProof /\ second.proof = [epoch |-> policy.raw, session |-> policy.session]

\* The frame becomes the base, or the slate does: for want of a frame, for a
\* proof that does not match, or because _guard_remote_output rejected it.
Judge ==
  /\ pc = "judge"
  /\ \E echo \in BOOLEAN :
       LET matches == MatchesPolicy
           shown == matches /\ ~echo /\ ~exhausted
       IN  base' = [policy |-> 0,
                    proof |-> IF shown THEN second.proof ELSE NoProof,
                    pixels |-> IF shown THEN second.frame ELSE None,
                    resolved |-> IF matches THEN second.proof.epoch ELSE 0]
  /\ pc' = "create"
  /\ UNCHANGED <<hub, runs, rawEpoch, exhausted, remembered, failed, fencing, pend, expired,
                 submitted, second, publisher, loop>>

\* SafeBaseFrame.create reads the policy once more, for its epoch.
CreateBase ==
  /\ pc = "create"
  /\ base' = [base EXCEPT !.policy = policy.epoch]
  /\ pc' = "submit"
  /\ UNCHANGED <<hub, runs, rawEpoch, exhausted, remembered, failed, fencing, pend, expired,
                 submitted, second, publisher, loop>>

\* The publisher keeps the base, and at most the one it was repeating.
SubmitBase ==
  /\ pc = "submit"
  /\ \E kept \in SUBSET held : Cardinality(kept) <= 1 /\ held' = kept \cup {base}
  /\ submitted' = IF base.resolved > 0 /\ base.resolved = pend.epoch
                    THEN second.proof ELSE submitted
  /\ Cycled
  /\ pc' = "decide"
  /\ UNCHANGED <<hub, runs, rawEpoch, exhausted, remembered, failed, fencing, pend, expired,
                 wire, gate, resolved, loop>>

\* The loop ends, or the run failed: the publisher is closed, after its sink
\* has returned.
StopRun ==
  /\ \/ pc = "decide" /\ (failed \/ runs < MaxRuns)
     \/ pc = "rejected"
  /\ pc' = "closing"
  /\ UNCHANGED <<hub, runs, rawEpoch, exhausted, remembered, failed, fencing, cycle,
                 publisher, loop>>

EndRun ==
  /\ pc = "closing" /\ wire = None /\ lock = None
  /\ pc' = "off"
  /\ held' = {}
  /\ UNCHANGED <<hub, runs, rawEpoch, exhausted, remembered, failed, fencing, cycle,
                 wire, gate, resolved, loop>>

-----------------------------------------------------------------------------
\* The publisher: PublicationGate's ShowBase and Clear, with the receipt of an
\* accepted base.

Admitted(b) ==
  /\ b.policy = gate.epoch
  /\ b.proof # NoProof => b.proof = [epoch |-> gate.raw, session |-> gate.session]

ShowBase ==
  /\ wire = None /\ pc # "off"
  /\ \E b \in held : Admitted(b) /\ wire' = b
  /\ UNCHANGED <<hub, pipeline, fencing, cycle, held, gate, resolved, loop>>

Receipt ==
  /\ wire # None
  /\ resolved' = IF wire.resolved > resolved THEN wire.resolved ELSE resolved
  /\ wire' = None
  /\ UNCHANGED <<hub, pipeline, fencing, cycle, held, gate, loop>>

-----------------------------------------------------------------------------
Cycle ==
  \/ RotateRaw \/ PublishRemoteRaw \/ PublishRejected
  \/ RevokeExhausted \/ RevokeNotified \/ NotePending
  \/ ReadProof \/ ProbeFrame \/ ReadFrame \/ Judge \/ CreateBase \/ SubmitBase

Transition(t) == TakePolicyLock(t) \/ Fence(t) \/ AssignPolicy(t)

Next ==
  \/ StartRun \/ Cycle \/ Expire \/ StopRun \/ EndRun
  \/ \E t \in Threads : Transition(t)
  \/ NothingToFence \/ LoopFenceFails \/ ProcessorFenceFails
  \/ \E c \in Clients :
       \/ Connect(c) \/ Disconnect(c) \/ SenderChecks(c)
       \/ \E e \in RawEpochs : Receive(c, e) \/ SenderSends(c, e)
  \/ Notified
  \/ ShowBase \/ Receipt

Spec == Init /\ [][Next]_vars

\* Both threads run and get their locks, the sink returns, and time passes.
FairSpec ==
  /\ Spec
  /\ WF_vars(Cycle) /\ WF_vars(Expire) /\ WF_vars(Receipt)
  /\ \A t \in Threads :
       /\ SF_vars(TakePolicyLock(t)) /\ SF_vars(Fence(t)) /\ WF_vars(AssignPolicy(t))
  /\ WF_vars(Notified) /\ WF_vars(NothingToFence)

-----------------------------------------------------------------------------
\* Properties.

TypeOK ==
  /\ HubTypeOK
  /\ pc \in {"off", "publish", "revoke", "revoked", "rejected", "pend", "decide", "probe",
             "render", "read", "judge", "create", "submit", "closing"}
  /\ rawEpoch \in 0..MaxRaw /\ remembered \in 0..Capacity
  /\ lock \in Threads \cup {None}
  /\ stage \in [Threads -> {"none", "lock", "fence", "assign", "done"}]
  /\ busy \in Clients \cup {None} /\ conn \in [Clients -> 0..MaxSession]
  /\ sender \in [Clients -> {"off", "check", "wait", "ended"}]
  /\ Cardinality(held) <= 2 /\ (wire # None => wire.proof = NoProof \/ wire.proof \in Frames)

\* No notification is under way.
Quiet == \A t \in Threads : stage[t] = "none"

\* Once a lease event has been notified, the output shows no renderer but the
\* one that holds the lease, and only its answer to the epoch required of it.
LeaseBoundary ==
  (Quiet /\ ~failed /\ wire # None /\ wire.pixels # None) =>
    SessionValid(wire.pixels.session) /\ wire.pixels.epoch = gate.raw

\* Then the publisher and the pipeline also agree on the policy, and it names
\* the lease in force.
PolicyFollowsLease ==
  (Quiet /\ ~failed /\ pc # "off") =>
    gate = policy /\ policy.session = ActiveSession

\* Whoever holds the lease was sent only raw frames that were admitted for it.
HolderSentItsOwn == \A x \in sent : x.valid => issued[x.epoch] = x.session

\* While a run lasts, a raw epoch gives way to the next one, whether its answer
\* was shown, was fenced away before it was, or never came.
RawMovesOn ==
  \A e \in 1..(MaxRaw - 1) :
    (pc = "decide" /\ pend.epoch = e) ~> (pend.epoch # e \/ failed \/ pc = "closing")

\* "A process-level restart may reuse the hub object": it can publish raw frames.
RestartPublishes == pc # "rejected"
=============================================================================
