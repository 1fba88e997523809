------------------------- MODULE RemoteOutputProofs -------------------------
(***************************************************************************)
(* Proofs about the renderer lease, for any number of renderers, leases    *)
(* and raw epochs: what the hub promises whoever calls it (FrameHub), what *)
(* becomes of that between the event loop, the processing thread and the   *)
(* publisher, and the lease boundary at the sink (RemoteOutput).           *)
(***************************************************************************)
EXTENDS RemoteOutput, TLAPS

-----------------------------------------------------------------------------
(* The hub, on its own.                                                     *)
(*                                                                         *)
(* AnswersOwnRaw is not inductive alone: that an answer belongs to the     *)
(* lease in force follows from the bindings (BoundToLease), which every    *)
(* change of lease clears together with the slot; and that no epoch is     *)
(* issued a second time, under an answer to it, follows from raw epochs    *)
(* that only grow (SlotIsOld).                                             *)

\* The frame in the slot answers an epoch that was required.
SlotIsOld == remoteIn # None => remoteIn.epoch <= required

\* An invalidation moves the id past the last one granted only when that one
\* was in force.
WasGranted == connected => session <= MaxSession

HubInv == HubTypeOK /\ AnswersOwnRaw /\ BoundToLease /\ SlotIsOld /\ WasGranted

LEMMA InitHubInv == InitHub => HubInv
  <1> SUFFICES ASSUME InitHub PROVE HubInv
    OBVIOUS
  <1>1. session \in 0..(MaxSession + 1) /\ required \in 0..MaxRaw
    BY HubBounds DEF InitHub
  <1>2. issued \in [RawEpochs -> (0..(MaxSession + 1)) \cup {None}]
    BY DEF InitHub
  <1>3. proof \in Frames \cup {NoProof} /\ remoteIn \in Frames \cup {None}
    BY Zenon DEF InitHub
  <1>4. AnswersOwnRaw /\ BoundToLease /\ SlotIsOld /\ WasGranted
    BY DEF InitHub, AnswersOwnRaw, BoundToLease, SlotIsOld, WasGranted
  <1> QED
    BY <1>1, <1>2, <1>3, <1>4 DEF HubInv, HubTypeOK, InitHub

\* Clearing the slot and the bindings re-establishes the invariant for whatever
\* lease comes next.
LEMMA Cleared ==
  ASSUME HubInv, ClearFrames, UNCHANGED <<required, issued>>,
         session' \in 0..(MaxSession + 1), connected' \in BOOLEAN,
         connected' => session' # 0 /\ session' <= MaxSession
  PROVE  HubInv'
  <1>1. remoteIn' = None /\ proof' = NoProof /\ bound' = {}
    BY DEF ClearFrames
  <1>2. HubTypeOK'
    BY <1>1, Zenon DEF HubInv, HubTypeOK
  <1> QED
    BY <1>1, <1>2 DEF HubInv, AnswersOwnRaw, BoundToLease, SlotIsOld, WasGranted

LEMMA GrantLeaseKeeps == HubInv /\ GrantLease => HubInv'
  <1> SUFFICES ASSUME HubInv, GrantLease PROVE HubInv'
    OBVIOUS
  <1>1. session' \in 0..(MaxSession + 1) /\ connected' \in BOOLEAN
       /\ session' # 0 /\ session' <= MaxSession
    BY HubBounds DEF HubInv, HubTypeOK, GrantLease
  <1> QED
    BY <1>1, Cleared DEF GrantLease

LEMMA HubUnchanged == HubInv /\ UNCHANGED hub => HubInv'
  BY DEF hub, HubInv, HubTypeOK, AnswersOwnRaw, BoundToLease, SlotIsOld, WasGranted,
         SessionValid, ActiveSession

LEMMA EndLeaseKeeps == \A s : HubInv /\ EndLease(s) => HubInv'
  <1> SUFFICES ASSUME NEW s, HubInv, EndLease(s) PROVE HubInv'
    OBVIOUS
  <1>1. CASE SessionValid(s)
    <2>1. session' \in 0..(MaxSession + 1) /\ connected' = FALSE
      BY <1>1 DEF HubInv, HubTypeOK, EndLease
    <2> QED
      BY <1>1, <2>1, Cleared DEF EndLease
  <1>2. CASE ~SessionValid(s)
    BY <1>2, HubUnchanged DEF EndLease
  <1> QED
    BY <1>1, <1>2

LEMMA RevokeLeaseKeeps == \A s : HubInv /\ RevokeLease(s) => HubInv'
  <1> SUFFICES ASSUME NEW s, HubInv, RevokeLease(s) PROVE HubInv'
    OBVIOUS
  <1>1. CASE s = session
    <2>1. session' \in 0..(MaxSession + 1) /\ connected' = FALSE
      BY <1>1, HubBounds DEF HubInv, HubTypeOK, WasGranted, RevokeLease
    <2> QED
      BY <1>1, <2>1, Cleared DEF RevokeLease
  <1>2. CASE s # session
    BY <1>2, HubUnchanged DEF RevokeLease
  <1> QED
    BY <1>1, <1>2

\* A new epoch is above every one that was bound or answered, so that what was
\* issued to whom stays true of them.
LEMMA PublishRawKeeps ==
  \A e \in RawEpochs, admitted \in BOOLEAN : HubInv /\ PublishRaw(e, admitted) => HubInv'
  <1> SUFFICES ASSUME NEW e \in RawEpochs, NEW admitted \in BOOLEAN,
                      HubInv, PublishRaw(e, admitted)
               PROVE  HubInv'
    OBVIOUS
  <1> USE DEF HubInv
  <1>1. e > required /\ required' = e /\ required \in Nat /\ e \in Nat
    BY HubBounds DEF PublishRaw, HubTypeOK, RawEpochs
  <1>2. UNCHANGED <<session, connected, remoteIn, proof>> /\ ActiveSession' = ActiveSession
    BY DEF PublishRaw, ActiveSession
  <1>3. ActiveSession \in 0..(MaxSession + 1)
    BY HubBounds DEF ActiveSession, HubTypeOK
  <1>4. /\ bound' \subseteq bound \cup {e}
        /\ \A d \in RawEpochs \ {e} : issued'[d] = issued[d]
        /\ e \in bound' => issued'[e] = ActiveSession \/ e \in bound
        /\ issued' \in [RawEpochs -> (0..(MaxSession + 1)) \cup {None}]
    BY <1>3 DEF PublishRaw, HubTypeOK
  <1>5. e \notin bound
    BY <1>1 DEF BoundToLease, HubTypeOK, RawEpochs
  <1>6. HubTypeOK'
    <2>1. required' \in 0..MaxRaw
      BY <1>1 DEF RawEpochs
    <2>2. bound' \subseteq RawEpochs
      BY <1>4 DEF HubTypeOK
    <2> QED
      BY <1>2, <1>4, <2>1, <2>2, Zenon DEF HubTypeOK
  <1>7. BoundToLease'
    <2>1. ASSUME NEW d \in bound' PROVE d <= required' /\ issued'[d] = ActiveSession'
      <3>1. CASE d = e
        BY <3>1, <1>1, <1>2, <1>4, <1>5
      <3>2. CASE d # e
        BY <3>2, <2>1, <1>1, <1>2, <1>4 DEF BoundToLease, HubTypeOK, RawEpochs
      <3> QED
        BY <3>1, <3>2
    <2> QED
      BY <2>1, <1>2 DEF BoundToLease
  <1>8. ASSUME remoteIn # None PROVE remoteIn.epoch \in RawEpochs \ {e} /\ remoteIn.epoch <= e
    BY <1>8, <1>1 DEF HubTypeOK, SlotIsOld, Frames, RawEpochs
  <1>9. AnswersOwnRaw' /\ SlotIsOld' /\ WasGranted'
    BY <1>1, <1>2, <1>4, <1>8 DEF AnswersOwnRaw, SlotIsOld, WasGranted, SessionValid
  <1> QED
    BY <1>6, <1>7, <1>9

\* The epoch of an answer is bound, hence issued to the lease in force.
LEMMA PushFrameKeeps == \A e, s : HubInv /\ PushFrame(e, s) => HubInv'
  <1> SUFFICES ASSUME NEW e, NEW s, HubInv, PushFrame(e, s) PROVE HubInv'
    OBVIOUS
  <1>1. CASE Answers(e, s)
    <2> DEFINE frame == [epoch |-> e, session |-> s]
    <2>1. remoteIn' = frame /\ proof' = frame
          /\ UNCHANGED <<session, connected, required, bound, issued>>
      BY <1>1 DEF PushFrame
    <2>2. e \in RawEpochs /\ s \in Sessions /\ SessionValid(s) /\ e <= required
          /\ issued[e] = s
      BY <1>1, HubBounds DEF Answers, SessionValid, ActiveSession, HubInv, HubTypeOK,
                  BoundToLease, Sessions
    <2>3. frame \in Frames
      BY <2>2 DEF Frames
    <2>4. HubTypeOK'
      BY <2>1, <2>3, Zenon DEF HubInv, HubTypeOK
    <2>5. AnswersOwnRaw' /\ SlotIsOld'
      BY <2>1, <2>2, <2>3, NoneIsNoFrame DEF AnswersOwnRaw, SlotIsOld, SessionValid
    <2>6. BoundToLease' /\ WasGranted'
      BY <2>1 DEF HubInv, BoundToLease, WasGranted, ActiveSession
    <2> QED
      BY <2>4, <2>5, <2>6 DEF HubInv
  <1>2. CASE ~Answers(e, s)
    BY <1>2, HubUnchanged DEF PushFrame
  <1> QED
    BY <1>1, <1>2

LEMMA NextHubKeeps == HubInv /\ [NextHub]_hub => HubInv'
  BY GrantLeaseKeeps, EndLeaseKeeps, RevokeLeaseKeeps, PublishRawKeeps, PushFrameKeeps,
     HubUnchanged DEF NextHub

-----------------------------------------------------------------------------
\* Whatever order connections, disconnections, invalidations, raw epochs and
\* answers come in, the frame in remote_in belongs to the lease in force and
\* answers an epoch that was admitted for it.
THEOREM HubAnswersOwnRaw == SpecHub => []AnswersOwnRaw
  <1>1. SpecHub => []HubInv
    BY InitHubInv, NextHubKeeps, PTL DEF SpecHub
  <1>2. HubInv => AnswersOwnRaw
    BY DEF HubInv
  <1> QED
    BY <1>1, <1>2, PTL

-----------------------------------------------------------------------------
(* The hub in the pipeline: each step of its threads is one operation of    *)
(* the hub or leaves it alone.                                              *)

\* The raw epoch a thread publishes is within the bounds of the model.
RawTyped == rawEpoch \in 0..MaxRaw /\ (pc = "publish" => rawEpoch # 0)

LEMMA InitRaw == Init => RawTyped
  BY HubBounds DEF Init, RawTyped

LEMMA StepRaw == RawTyped /\ [Next]_vars => RawTyped'
  <1> SUFFICES ASSUME RawTyped, [Next]_vars PROVE RawTyped'
    OBVIOUS
  <1> USE HubBounds DEF RawTyped
  <1>1. CASE StartRun
    BY <1>1 DEF StartRun
  <1>2. CASE Cycle
    <2>1. CASE RotateRaw
      BY <2>1 DEF RotateRaw
    <2>2. CASE PublishRemoteRaw \/ PublishRejected \/ RevokeExhausted \/ RevokeNotified
      BY <2>2 DEF PublishRemoteRaw, PublishRejected, RevokeExhausted, RevokeNotified
    <2>3. CASE NotePending \/ ReadProof \/ ProbeFrame \/ ReadFrame
      BY <2>3 DEF NotePending, ReadProof, ProbeFrame, ReadFrame
    <2>4. CASE Judge \/ CreateBase \/ SubmitBase
      BY <2>4 DEF Judge, CreateBase, SubmitBase
    <2> QED
      BY <1>2, <2>1, <2>2, <2>3, <2>4 DEF Cycle
  <1>3. CASE Expire \/ StopRun \/ EndRun
    BY <1>3 DEF Expire, StopRun, EndRun, pipeline
  <1>4. ASSUME NEW t \in Threads, Transition(t) PROVE RawTyped'
    BY <1>4 DEF Transition, TakePolicyLock, Fence, AssignPolicy, pipeline
  <1>5. CASE NothingToFence \/ LoopFenceFails \/ ProcessorFenceFails
    BY <1>5 DEF NothingToFence, LoopFenceFails, ProcessorFenceFails, pipeline
  <1>6. ASSUME NEW c \in Clients, Connect(c) \/ Disconnect(c) \/ SenderChecks(c) PROVE RawTyped'
    BY <1>6 DEF Connect, Disconnect, SenderChecks, pipeline
  <1>7. ASSUME NEW c \in Clients, NEW e \in RawEpochs, Receive(c, e) \/ SenderSends(c, e)
        PROVE  RawTyped'
    BY <1>7 DEF Receive, SenderSends, pipeline
  <1>8. CASE Notified \/ ShowBase \/ Receipt \/ UNCHANGED vars
    BY <1>8 DEF Notified, ShowBase, Receipt, vars, pipeline
  <1> QED
    BY <1>1, <1>2, <1>3, <1>4, <1>5, <1>6, <1>7, <1>8 DEF Next

LEMMA StepHub == HubInv /\ RawTyped /\ [Next]_vars => HubInv'
  <1> SUFFICES ASSUME HubInv, RawTyped, [Next]_vars PROVE HubInv'
    OBVIOUS
  <1>1. CASE StartRun
    BY <1>1, RevokeLeaseKeeps DEF StartRun
  <1>2. CASE Cycle
    <2>1. CASE PublishRemoteRaw
      <3>1. rawEpoch \in RawEpochs
        BY <2>1, HubBounds DEF PublishRemoteRaw, RawTyped, RawEpochs
      <3>2. PublishRaw(rawEpoch, RoomToRemember) /\ RoomToRemember \in BOOLEAN
        BY <2>1 DEF PublishRemoteRaw, RoomToRemember
      <3> QED
        BY <3>1, <3>2, PublishRawKeeps
    <2>2. CASE RevokeExhausted
      BY <2>2, RevokeLeaseKeeps DEF RevokeExhausted
    <2>3. CASE RotateRaw \/ PublishRejected \/ RevokeNotified \/ NotePending
      BY <2>3, HubUnchanged DEF RotateRaw, PublishRejected, RevokeNotified, NotePending
    <2>4. CASE ReadProof \/ ProbeFrame \/ ReadFrame \/ Judge \/ CreateBase \/ SubmitBase
      BY <2>4, HubUnchanged DEF ReadProof, ProbeFrame, ReadFrame, Judge, CreateBase, SubmitBase
    <2> QED
      BY <1>2, <2>1, <2>2, <2>3, <2>4 DEF Cycle
  <1>3. CASE Expire \/ StopRun \/ EndRun
    BY <1>3, HubUnchanged DEF Expire, StopRun, EndRun
  <1>4. ASSUME NEW t \in Threads, Transition(t) PROVE HubInv'
    BY <1>4, HubUnchanged DEF Transition, TakePolicyLock, Fence, AssignPolicy
  <1>5. CASE LoopFenceFails
    BY <1>5, RevokeLeaseKeeps, HubUnchanged DEF LoopFenceFails
  <1>6. CASE NothingToFence \/ ProcessorFenceFails
    BY <1>6, HubUnchanged DEF NothingToFence, ProcessorFenceFails
  <1>7. ASSUME NEW c \in Clients,
               Connect(c) \/ Disconnect(c) \/ SenderChecks(c)
               \/ \E e \in RawEpochs : Receive(c, e) \/ SenderSends(c, e)
        PROVE  HubInv'
    <2>1. CASE Connect(c)
      BY <2>1, GrantLeaseKeeps DEF Connect
    <2>2. CASE Disconnect(c)
      BY <2>2, EndLeaseKeeps DEF Disconnect
    <2>3. CASE \E e \in RawEpochs : Receive(c, e)
      BY <2>3, PushFrameKeeps DEF Receive
    <2>4. CASE SenderChecks(c) \/ \E e \in RawEpochs : SenderSends(c, e)
      BY <2>4, HubUnchanged DEF SenderChecks, SenderSends
    <2> QED
      BY <1>7, <2>1, <2>2, <2>3, <2>4
  <1>8. CASE Notified \/ ShowBase \/ Receipt \/ UNCHANGED vars
    BY <1>8, HubUnchanged DEF Notified, ShowBase, Receipt, vars
  <1> QED
    BY <1>1, <1>2, <1>3, <1>4, <1>5, <1>6, <1>7, <1>8 DEF Next

\* For any number of renderers, leases and raw epochs, and whatever the loop
\* and the processing thread do in between: the frame the pipeline may read
\* from the hub is the holder's answer to an epoch admitted for it.
THEOREM RemoteAnswersOwnRaw == Spec => []AnswersOwnRaw
  <1>1. Init => HubInv /\ RawTyped
    BY InitHubInv, InitRaw DEF Init
  <1>2. HubInv /\ RawTyped /\ [Next]_vars => (HubInv /\ RawTyped)'
    BY StepHub, StepRaw
  <1>3. HubInv => AnswersOwnRaw
    BY DEF HubInv
  <1> QED
    BY <1>1, <1>2, <1>3, PTL DEF Spec

-----------------------------------------------------------------------------
(* The lease boundary: between the event loop and the processing thread,    *)
(* which both make policy transitions under one lock and read the hub at    *)
(* different times, no answer of a lease that is over stays in the sink.    *)
(* PipelineInv is inductive; each of its parts has a lemma of its own.      *)

Records == [epoch : Nat, raw : Nat, session : Nat]
BasesMade == [policy : Nat, proof : Frames \cup {NoProof}, pixels : Frames \cup {None},
              resolved : Nat]

TransitionShape ==
  /\ policy \in Records /\ gate \in Records /\ target \in [Threads -> Records]
  /\ lock \in Threads \cup {None}
  /\ stage \in [Threads -> {"none", "lock", "fence", "assign", "done"}]

LoopShape ==
  /\ busy \in Clients \cup {None} /\ conn \in [Clients -> Nat]
  /\ sender \in [Clients -> {"off", "check", "wait", "ended"}]

CycleShape ==
  /\ second \in [session : Nat, proof : Frames \cup {NoProof}, frame : Frames \cup {None}]
  /\ base \in BasesMade /\ held \subseteq BasesMade
  /\ wire # None => wire \in BasesMade

\* The policy lock is held from the choice of a policy to its assignment, by a
\* thread in a transition; each thread is in one only where its code says so.
Turns ==
  /\ \A t \in Threads : stage[t] \in {"fence", "assign"} <=> lock = t
  /\ stage["processor"] # "none" => pc \in {"publish", "revoked"}
  /\ pc = "publish" => stage["processor"] # "none"
  /\ stage["loop"] = "none" <=> busy = None
  /\ pc = "off" => lock = None /\ held = {} /\ wire = None

\* The publisher's policy is the pipeline's, or the one being installed; and
\* unless a thread has yet to look, that one names the lease in force.
Following ==
  /\ lock = None => gate = policy
  /\ \A t \in Threads : /\ stage[t] = "fence" => gate = policy
                        /\ stage[t] = "assign" => gate = target[t]
  /\ (pc # "off" /\ ~failed /\ \A t \in Threads : stage[t] # "lock") =>
       /\ lock = None => policy.session = ActiveSession
       /\ \A t \in Threads : lock = t => target[t].session = ActiveSession

Cycling == {"revoke", "revoked", "pend", "decide", "probe", "render", "read", "judge",
            "create", "submit"}

\* Past its publication, the raw epoch in every policy is the required one.
RawInForce ==
  /\ RawTyped
  /\ pc \in Cycling => required = rawEpoch
  /\ pc \in Cycling \/ (pc = "publish" /\ stage["processor"] = "done") => policy.raw = rawEpoch
  /\ pc \in Cycling \/ (pc = "publish" /\ stage["processor"] # "lock") =>
       \A t \in Threads : lock = t => target[t].raw = rawEpoch

\* No policy in use or being installed is for a lease before s.
NotBefore(s) ==
  pc # "off" =>
    /\ policy.session = 0 \/ policy.session >= s
    /\ \A t \in Threads : lock = t => target[t].session = 0 \/ target[t].session >= s

\* Once the loop has notified a lease, older policies are gone...
ConnectionsNotified ==
  \A c \in Clients :
    /\ conn[c] <= session
    /\ conn[c] = 0 => sender[c] = "off"
    /\ conn[c] # 0 /\ sender[c] = "off" => busy = c
    /\ sender[c] # "off" => NotBefore(conn[c])
    /\ busy = c => conn[c] # 0
    /\ busy = c /\ lock = "loop" =>
         target["loop"].session = 0 \/ target["loop"].session >= conn[c]
    /\ busy = c /\ stage["loop"] = "done" => NotBefore(conn[c])

\* ..., and so they are for every frame that the lease sent.
FramesNotified ==
  /\ remoteIn # None => NotBefore(remoteIn.session)
  /\ second.frame # None => NotBefore(second.frame.session)

\* The frame of a read is at least as new as the proof read before it.
ReadsForward ==
  /\ pc \notin {"probe", "read", "judge", "create", "submit"} => second = NoRead
  /\ pc \notin {"create", "submit"} => base = NoBase
  /\ pc \in {"probe", "read"} => second.frame = None
  /\ second.proof.epoch <= required
  /\ second.proof.session <= session /\ (second.frame # None => second.frame.session <= session)
  /\ (pc = "read" /\ remoteIn # None /\ remoteIn.session = second.proof.session) =>
       second.proof.epoch <= remoteIn.epoch
  /\ (pc = "judge" /\ second.frame # None) =>
       /\ second.proof.session <= second.frame.session
       /\ second.proof.session = second.frame.session =>
            second.proof.epoch <= second.frame.epoch
       /\ second.frame.epoch <= required

\* The pixels of a base are those its proof names, and the base in the sink is
\* one that the policy in force admits.
PixelsProven ==
  /\ \A b \in {base} \cup held : b.pixels # None => b.pixels = b.proof
  /\ wire # None => /\ wire.pixels # None => wire.pixels = wire.proof
                    /\ Admitted(wire)

PipelineInv ==
  /\ HubInv /\ TransitionShape /\ LoopShape /\ CycleShape /\ Turns /\ Following /\ RawInForce
  /\ ConnectionsNotified /\ FramesNotified /\ ReadsForward /\ PixelsProven

-----------------------------------------------------------------------------
\* What the steps do to the hub, for the parts of the invariant that read it.

LEMMA LeaseTypes ==
  ASSUME HubInv
  PROVE  /\ session \in Nat /\ required \in Nat /\ ActiveSession \in {0, session}
         /\ ActiveSession \in Nat
BY HubBounds DEF HubInv, HubTypeOK, ActiveSession

\* Leases and required epochs only grow, and only an answer fills the slot.
LEMMA HubGrows ==
  ASSUME PipelineInv, [Next]_vars
  PROVE  /\ session' >= session /\ required' >= required
         /\ \/ remoteIn' \in {remoteIn, None}
            \/ \E c \in Clients :
                 /\ sender[c] \in {"check", "wait"} /\ SessionValid(conn[c])
                 /\ remoteIn' = [epoch |-> required, session |-> conn[c]]
                 /\ UNCHANGED <<session, required>>
<1> USE LeaseTypes DEF PipelineInv
<1>1. CASE UNCHANGED hub
  BY <1>1 DEF hub
<1>2. CASE \E s : RevokeLease(s) \/ EndLease(s)
  BY <1>2 DEF RevokeLease, EndLease, ClearFrames, hub
<1>3. CASE GrantLease
  BY <1>3 DEF GrantLease, ClearFrames
<1>4. CASE PublishRemoteRaw
  BY <1>4, HubBounds DEF PublishRemoteRaw, PublishRaw, RawInForce, RawTyped
<1>5. CASE \E c \in Clients, e \in RawEpochs : Receive(c, e)
  BY <1>5 DEF Receive, PushFrame, Answers, hub
<1>6. \/ UNCHANGED hub \/ GrantLease \/ PublishRemoteRaw
      \/ \E s : RevokeLease(s) \/ EndLease(s)
      \/ \E c \in Clients, e \in RawEpochs : Receive(c, e)
  <2>1. CASE \/ StartRun \/ RevokeExhausted \/ LoopFenceFails
             \/ \E c \in Clients : Connect(c) \/ Disconnect(c)
    BY <2>1 DEF StartRun, RevokeExhausted, LoopFenceFails, Connect, Disconnect
  <2>2. CASE \/ RotateRaw \/ PublishRejected \/ RevokeNotified \/ NotePending \/ ReadProof
             \/ ProbeFrame \/ ReadFrame \/ Judge \/ CreateBase \/ SubmitBase \/ Expire
             \/ StopRun \/ EndRun \/ NothingToFence \/ ProcessorFenceFails \/ Notified
             \/ ShowBase \/ Receipt \/ UNCHANGED vars
             \/ \E t \in Threads : Transition(t)
             \/ \E c \in Clients : SenderChecks(c) \/ \E e \in RawEpochs : SenderSends(c, e)
    BY <2>2 DEF RotateRaw, PublishRejected, RevokeNotified, NotePending, ReadProof,
         ProbeFrame, ReadFrame, Judge, CreateBase, SubmitBase, Expire, StopRun, EndRun,
         NothingToFence, ProcessorFenceFails, Notified, ShowBase, Receipt, Transition,
         TakePolicyLock, Fence, AssignPolicy, SenderChecks, SenderSends, vars
  <2> QED
    BY <2>1, <2>2 DEF Next, Cycle
<1> QED
  BY <1>1, <1>2, <1>3, <1>4, <1>5, <1>6

\* Whoever changes the lease in force then has a transition to make, or fails
\* the run.
LEMMA LeaseChangeSeen ==
  ASSUME PipelineInv, [Next]_vars, ActiveSession' # ActiveSession
  PROVE  failed' \/ stage'["loop"] = "lock" \/ stage'["processor"] = "lock"
<1> USE DEF PipelineInv, TransitionShape, Threads
<1>1. ~UNCHANGED hub
  BY DEF hub, ActiveSession
<1>2. CASE StartRun \/ RevokeExhausted \/ LoopFenceFails
  BY <1>2 DEF StartRun, RevokeExhausted, LoopFenceFails, RevokeLease, SessionValid,
     ActiveSession, hub
<1>3. CASE \E c \in Clients : Connect(c)
  BY <1>3 DEF Connect
<1>4. CASE \E c \in Clients : Disconnect(c)
  BY <1>1, <1>4 DEF Disconnect, EndLease
<1>5. CASE PublishRemoteRaw \/ \E c \in Clients, e \in RawEpochs : Receive(c, e)
  BY <1>5 DEF PublishRemoteRaw, PublishRaw, Receive, PushFrame, ActiveSession, hub
<1>6. \/ StartRun \/ RevokeExhausted \/ LoopFenceFails \/ PublishRemoteRaw
      \/ \E c \in Clients : Connect(c) \/ Disconnect(c)
      \/ \E c \in Clients, e \in RawEpochs : Receive(c, e)
  BY <1>1 DEF Next, Cycle, RotateRaw, PublishRejected, RevokeNotified, NotePending,
         ReadProof, ProbeFrame, ReadFrame, Judge, CreateBase, SubmitBase, Expire, StopRun,
         EndRun, NothingToFence, ProcessorFenceFails, Notified, ShowBase, Receipt,
         Transition, TakePolicyLock, Fence, AssignPolicy, SenderChecks, SenderSends, vars
<1> QED
  BY <1>2, <1>3, <1>4, <1>5, <1>6

-----------------------------------------------------------------------------
\* Each part of the invariant, one after the other.

LEMMA StepTransitionShape ==
  ASSUME PipelineInv, [Next]_vars
  PROVE  TransitionShape'
<1> USE LeaseTypes, HubBounds DEF PipelineInv, TransitionShape, RawInForce, RawTyped, Threads
<1>1. CASE StartRun
  <2>1. NoPolicy \in Records
    BY DEF NoPolicy, Records
  <2> QED
    BY <1>1, <2>1 DEF StartRun, hub
<1>2. CASE \E t \in Threads : TakePolicyLock(t)
  <2>1. PICK t \in Threads : TakePolicyLock(t)
    BY <1>2
  <2>2. [epoch |-> policy.epoch + 1, raw |-> rawEpoch, session |-> ActiveSession] \in Records
    BY DEF Records
  <2> QED
    BY <2>1, <2>2 DEF TakePolicyLock, publisher
<1>3. CASE \E t \in Threads : Fence(t)
  BY <1>3 DEF Fence, publisher
<1>4. CASE \E t \in Threads : AssignPolicy(t)
  <2>1. NoPolicy \in Records
    BY DEF NoPolicy, Records
  <2> QED
    BY <1>4, <2>1 DEF AssignPolicy, publisher
<1>5. CASE \/ NothingToFence \/ LoopFenceFails \/ ProcessorFenceFails
  BY <1>5 DEF NothingToFence, LoopFenceFails, ProcessorFenceFails, Records, NoPolicy, hub,
     pipeline, fencing, cycle, publisher, loop
<1>6. CASE \/ Notified
           \/ \E c \in Clients : Connect(c) \/ Disconnect(c)
  BY <1>6 DEF Connect, Disconnect, Notified, hub, pipeline, fencing, cycle, publisher, loop
<1>7. CASE \/ RotateRaw \/ PublishRemoteRaw \/ PublishRejected \/ RevokeExhausted
           \/ RevokeNotified
  BY <1>7 DEF RotateRaw, PublishRemoteRaw, PublishRejected, RevokeExhausted,
     RevokeNotified, hub, pipeline, fencing, cycle, publisher, loop
<1>8. CASE \/ ReadProof \/ ProbeFrame \/ ReadFrame \/ Judge \/ CreateBase \/ SubmitBase
           \/ Expire \/ StopRun \/ EndRun \/ ShowBase \/ Receipt \/ NotePending
           \/ UNCHANGED vars
           \/ \E c \in Clients : SenderChecks(c)
           \/ \E c \in Clients, e \in RawEpochs : Receive(c, e) \/ SenderSends(c, e)
  BY <1>8 DEF ReadProof, ProbeFrame, ReadFrame, Judge, CreateBase, SubmitBase, Expire,
     StopRun, EndRun, ShowBase, Receipt, SenderChecks, Receive, SenderSends, NotePending,
     vars, hub, pipeline, fencing, cycle, publisher, loop
<1> QED
  BY <1>1, <1>2, <1>3, <1>4, <1>5, <1>6, <1>7, <1>8 DEF Next, Cycle, Transition

LEMMA StepLoopShape ==
  ASSUME PipelineInv, [Next]_vars
  PROVE  LoopShape'
<1> USE LeaseTypes DEF PipelineInv, LoopShape, LoopFree
<1>1. CASE \E c \in Clients : Connect(c) \/ Disconnect(c)
  BY <1>1 DEF Connect, Disconnect, GrantLease, hub, pipeline, fencing, cycle, publisher,
     loop
<1>2. CASE \/ Notified \/ LoopFenceFails
  BY <1>2 DEF Notified, LoopFenceFails, hub, pipeline, fencing, cycle, publisher, loop
<1>3. CASE \/ \E c \in Clients : SenderChecks(c)
           \/ \E c \in Clients, e \in RawEpochs : SenderSends(c, e)
  BY <1>3 DEF SenderChecks, SenderSends, hub, pipeline, fencing, cycle, publisher, loop
<1>4. CASE \/ StartRun \/ RotateRaw \/ PublishRemoteRaw \/ PublishRejected
           \/ RevokeExhausted \/ RevokeNotified \/ NotePending \/ ReadProof
           \/ ProbeFrame \/ ReadFrame \/ Judge \/ CreateBase \/ SubmitBase \/ Expire
           \/ StopRun \/ EndRun \/ NothingToFence \/ ProcessorFenceFails \/ ShowBase
           \/ Receipt \/ UNCHANGED vars
           \/ \E t \in Threads : TakePolicyLock(t) \/ Fence(t) \/ AssignPolicy(t)
           \/ \E c \in Clients, e \in RawEpochs : Receive(c, e)
  BY <1>4 DEF StartRun, RotateRaw, PublishRemoteRaw, PublishRejected, RevokeExhausted,
     RevokeNotified, NotePending, ReadProof, ProbeFrame, ReadFrame, Judge, CreateBase,
     SubmitBase, Expire, StopRun, EndRun, TakePolicyLock, Fence, AssignPolicy,
     NothingToFence, ProcessorFenceFails, Receive, ShowBase, Receipt, vars, hub, pipeline,
     fencing, cycle, publisher, loop
<1> QED
  BY <1>1, <1>2, <1>3, <1>4 DEF Next, Cycle, Transition

LEMMA StepCycleShape ==
  ASSUME PipelineInv, [Next]_vars
  PROVE  CycleShape'
<1> USE LeaseTypes DEF PipelineInv, CycleShape
<1>1. CASE \/ ReadProof \/ ProbeFrame \/ ReadFrame
  BY <1>1 DEF ReadProof, ProbeFrame, ReadFrame, Read, NoRead, HubInv, HubTypeOK, hub,
     pipeline, fencing, cycle, publisher, loop
<1>2. CASE Judge
  <2>1. second.proof \in Frames \cup {NoProof} /\ second.frame \in Frames \cup {None}
        /\ second.proof.epoch \in Nat
    BY HubBounds DEF NoProof, Frames, RawEpochs
  <2>2. PICK shown \in BOOLEAN, matches \in BOOLEAN :
          base' = [policy |-> 0,
                   proof |-> IF shown THEN second.proof ELSE NoProof,
                   pixels |-> IF shown THEN second.frame ELSE None,
                   resolved |-> IF matches THEN second.proof.epoch ELSE 0]
    BY <1>2 DEF Judge, MatchesPolicy
  <2>3. base' \in BasesMade
    <3>1. (IF shown THEN second.proof ELSE NoProof) \in Frames \cup {NoProof}
          /\ (IF shown THEN second.frame ELSE None) \in Frames \cup {None}
          /\ (IF matches THEN second.proof.epoch ELSE 0) \in Nat
      BY <2>1
    <3> QED
      BY <2>2, <3>1 DEF BasesMade
  <2> QED
    BY <1>2, <2>3 DEF Judge, publisher
<1>3. CASE CreateBase
  <2>1. base' \in BasesMade
    BY <1>3 DEF CreateBase, BasesMade, TransitionShape, Records
  <2> QED
    BY <1>3, <2>1 DEF CreateBase, publisher
<1>4. CASE SubmitBase
  BY <1>4 DEF SubmitBase, Cycled, NoRead, NoBase, BasesMade, hub, pipeline, fencing, cycle,
     publisher, loop
<1>5. CASE \/ ShowBase \/ Receipt \/ EndRun
           \/ \E t \in Threads : Fence(t)
  BY <1>5 DEF ShowBase, Receipt, EndRun, Fence, hub, pipeline, fencing, cycle, publisher,
     loop
<1>6. CASE \/ StartRun \/ RotateRaw \/ PublishRemoteRaw \/ PublishRejected
           \/ RevokeExhausted \/ RevokeNotified \/ NotePending \/ Expire \/ StopRun
           \/ NothingToFence \/ LoopFenceFails \/ ProcessorFenceFails \/ Notified
           \/ UNCHANGED vars
           \/ \E t \in Threads : TakePolicyLock(t) \/ AssignPolicy(t)
           \/ \E c \in Clients : Connect(c) \/ Disconnect(c) \/ SenderChecks(c)
           \/ \E c \in Clients, e \in RawEpochs : Receive(c, e) \/ SenderSends(c, e)
  BY <1>6 DEF StartRun, RotateRaw, PublishRemoteRaw, PublishRejected, RevokeExhausted,
     RevokeNotified, NotePending, Expire, StopRun, TakePolicyLock, AssignPolicy,
     NothingToFence, LoopFenceFails, ProcessorFenceFails, Connect, Disconnect,
     SenderChecks, Receive, SenderSends, Notified, vars, hub, pipeline, fencing, cycle,
     publisher, loop
<1> QED
  BY <1>1, <1>2, <1>3, <1>4, <1>5, <1>6 DEF Next, Cycle, Transition

LEMMA StepTurns ==
  ASSUME PipelineInv, [Next]_vars
  PROVE  Turns'
<1> USE NoneIsNoOne DEF PipelineInv, TransitionShape, LoopShape, Turns, Threads
<1>1. CASE StartRun
  BY <1>1 DEF StartRun, hub, pipeline, fencing, cycle, publisher, loop
<1>2. CASE \E t \in Threads : TakePolicyLock(t) \/ Fence(t) \/ AssignPolicy(t)
  BY <1>2 DEF TakePolicyLock, Fence, AssignPolicy, hub, pipeline, fencing, cycle,
     publisher, loop
<1>3. CASE \/ NothingToFence \/ LoopFenceFails \/ ProcessorFenceFails
  BY <1>3 DEF NothingToFence, LoopFenceFails, ProcessorFenceFails, hub, pipeline, fencing,
     cycle, publisher, loop
<1>4. CASE \/ Notified
           \/ \E c \in Clients : Connect(c) \/ Disconnect(c)
  BY <1>4 DEF Connect, Disconnect, Notified, LoopFree, SessionValid, hub, pipeline,
     fencing, cycle, publisher, loop
<1>5. CASE \/ RotateRaw \/ PublishRemoteRaw \/ PublishRejected \/ RevokeExhausted
           \/ RevokeNotified \/ NotePending
  BY <1>5 DEF RotateRaw, PublishRemoteRaw, PublishRejected, RevokeExhausted,
     RevokeNotified, NotePending, hub, pipeline, fencing, cycle, publisher, loop
<1>6. CASE \/ EndRun \/ StopRun \/ ShowBase \/ SubmitBase
  BY <1>6 DEF EndRun, StopRun, ShowBase, SubmitBase, hub, pipeline, fencing, cycle,
     publisher, loop
<1>7. CASE \/ ReadProof \/ ProbeFrame \/ ReadFrame \/ Judge \/ CreateBase \/ Expire
           \/ Receipt \/ UNCHANGED vars
           \/ \E c \in Clients : SenderChecks(c)
           \/ \E c \in Clients, e \in RawEpochs : Receive(c, e) \/ SenderSends(c, e)
  BY <1>7 DEF ReadProof, ProbeFrame, ReadFrame, Judge, CreateBase, Expire, SenderChecks,
     Receive, SenderSends, Receipt, vars, hub, pipeline, fencing, cycle, publisher, loop
<1> QED
  BY <1>1, <1>2, <1>3, <1>4, <1>5, <1>6, <1>7 DEF Next, Cycle, Transition

LEMMA StepFollowing ==
  ASSUME PipelineInv, [Next]_vars
  PROVE  Following'
<1> USE NoneIsNoOne, StepTurns DEF PipelineInv, TransitionShape, Turns, Following, Threads
<1>1. CASE StartRun
  BY <1>1 DEF StartRun, NoPolicy, hub, pipeline, fencing, cycle, publisher, loop
<1>2. CASE \E t \in Threads : TakePolicyLock(t)
  BY <1>2 DEF TakePolicyLock, ActiveSession, hub, pipeline, fencing, cycle, publisher, loop
<1>3. CASE \E t \in Threads : Fence(t)
  BY <1>3 DEF Fence, ActiveSession, hub, pipeline, fencing, cycle, publisher, loop
<1>4. CASE \E t \in Threads : AssignPolicy(t)
  BY <1>4 DEF AssignPolicy, ActiveSession, hub, pipeline, fencing, cycle, publisher, loop
<1>5. CASE \/ NothingToFence \/ LoopFenceFails \/ ProcessorFenceFails
  BY <1>5, LeaseChangeSeen DEF NothingToFence, LoopFenceFails, ProcessorFenceFails, hub,
     pipeline, fencing, cycle, publisher, loop
<1>6. CASE \/ Notified
           \/ \E c \in Clients : Connect(c) \/ Disconnect(c)
  BY <1>6, LeaseChangeSeen DEF Connect, Disconnect, Notified, hub, pipeline, fencing,
     cycle, publisher, loop
<1>7. CASE \/ RotateRaw \/ PublishRemoteRaw \/ PublishRejected \/ RevokeExhausted
           \/ RevokeNotified \/ NotePending
  BY <1>7, LeaseChangeSeen DEF RotateRaw, PublishRemoteRaw, PublishRejected,
     RevokeExhausted, RevokeNotified, NotePending, hub, pipeline, fencing, cycle,
     publisher, loop
<1>8. CASE \/ ReadProof \/ ProbeFrame \/ ReadFrame \/ Judge \/ CreateBase \/ SubmitBase
           \/ Expire \/ StopRun \/ EndRun \/ ShowBase \/ Receipt \/ UNCHANGED vars
           \/ \E c \in Clients : SenderChecks(c)
           \/ \E c \in Clients, e \in RawEpochs : Receive(c, e) \/ SenderSends(c, e)
  BY <1>8, LeaseChangeSeen DEF ReadProof, ProbeFrame, ReadFrame, Judge, CreateBase,
     SubmitBase, Expire, StopRun, EndRun, SenderChecks, Receive, SenderSends, ShowBase,
     Receipt, vars, hub, pipeline, fencing, cycle, publisher, loop
<1> QED
  BY <1>1, <1>2, <1>3, <1>4, <1>5, <1>6, <1>7, <1>8 DEF Next, Cycle, Transition

LEMMA StepRawInForce ==
  ASSUME PipelineInv, [Next]_vars
  PROVE  RawInForce'
<1> USE NoneIsNoOne, StepTurns, StepRaw
    DEF PipelineInv, TransitionShape, Turns, RawInForce, Cycling, Threads
<1>1. CASE StartRun
  BY <1>1 DEF StartRun, hub, pipeline, fencing, cycle, publisher, loop
<1>2. CASE \E t \in Threads : TakePolicyLock(t)
  BY <1>2 DEF TakePolicyLock, hub, pipeline, fencing, cycle, publisher, loop
<1>3. CASE \E t \in Threads : Fence(t) \/ AssignPolicy(t)
  BY <1>3 DEF Fence, AssignPolicy, hub, pipeline, fencing, cycle, publisher, loop
<1>4. CASE \/ NothingToFence \/ LoopFenceFails \/ ProcessorFenceFails
  BY <1>4 DEF NothingToFence, LoopFenceFails, ProcessorFenceFails, RevokeLease, hub,
     pipeline, fencing, cycle, publisher, loop
<1>5. CASE \/ Notified
           \/ \E c \in Clients : Connect(c) \/ Disconnect(c)
  BY <1>5 DEF Connect, Disconnect, Notified, GrantLease, EndLease, hub, pipeline, fencing,
     cycle, publisher, loop
<1>6. CASE \/ RotateRaw \/ PublishRemoteRaw \/ PublishRejected \/ RevokeExhausted
           \/ RevokeNotified \/ NotePending
  BY <1>6 DEF RotateRaw, PublishRemoteRaw, PublishRejected, RevokeExhausted,
     RevokeNotified, NotePending, PublishRaw, RevokeLease, hub, pipeline, fencing, cycle,
     publisher, loop
<1>7. CASE \/ ReadProof \/ ProbeFrame \/ ReadFrame \/ Judge \/ CreateBase \/ SubmitBase
           \/ Expire \/ StopRun \/ EndRun \/ ShowBase \/ Receipt \/ UNCHANGED vars
           \/ \E c \in Clients : SenderChecks(c)
           \/ \E c \in Clients, e \in RawEpochs : Receive(c, e) \/ SenderSends(c, e)
  BY <1>7 DEF ReadProof, ProbeFrame, ReadFrame, Judge, CreateBase, SubmitBase, Expire,
     StopRun, EndRun, SenderChecks, Receive, SenderSends, ShowBase, Receipt, vars,
     PushFrame, hub, pipeline, fencing, cycle, publisher, loop
<1> QED
  BY <1>1, <1>2, <1>3, <1>4, <1>5, <1>6, <1>7 DEF Next, Cycle, Transition

\* A lease that no policy precedes is preceded by none later: whatever a thread
\* installs next, it looked at the lease in force under the lock.
LEMMA OldPoliciesStayGone ==
  ASSUME PipelineInv, [Next]_vars, NEW s \in Nat, s <= session, NotBefore(s)
  PROVE  NotBefore(s)'
<1> USE LeaseTypes, NoneIsNoOne DEF PipelineInv, TransitionShape, Turns, Threads
<1>1. CASE StartRun
  BY <1>1 DEF StartRun, NotBefore, NoPolicy, hub, pipeline, fencing, cycle, publisher, loop
<1>2. CASE \E t \in Threads : TakePolicyLock(t)
  BY <1>2 DEF TakePolicyLock, NotBefore, hub, pipeline, fencing, cycle, publisher, loop
<1>3. CASE \E t \in Threads : AssignPolicy(t)
  BY <1>3 DEF AssignPolicy, NotBefore, hub, pipeline, fencing, cycle, publisher, loop
<1>4. CASE \/ NothingToFence \/ LoopFenceFails \/ ProcessorFenceFails
           \/ \E t \in Threads : Fence(t)
  BY <1>4 DEF Fence, NothingToFence, LoopFenceFails, ProcessorFenceFails, NotBefore, hub,
     pipeline, fencing, cycle, publisher, loop
<1>5. CASE \/ RotateRaw \/ PublishRemoteRaw \/ PublishRejected \/ RevokeExhausted
           \/ RevokeNotified \/ NotePending \/ ReadProof \/ ProbeFrame \/ ReadFrame
           \/ Judge \/ CreateBase \/ SubmitBase \/ Expire \/ StopRun \/ EndRun
           \/ Notified \/ ShowBase \/ Receipt \/ UNCHANGED vars
           \/ \E c \in Clients : Connect(c) \/ Disconnect(c) \/ SenderChecks(c)
           \/ \E c \in Clients, e \in RawEpochs : Receive(c, e) \/ SenderSends(c, e)
  BY <1>5 DEF RotateRaw, PublishRemoteRaw, PublishRejected, RevokeExhausted,
     RevokeNotified, NotePending, ReadProof, ProbeFrame, ReadFrame, Judge, CreateBase,
     SubmitBase, Expire, StopRun, EndRun, Connect, Disconnect, SenderChecks, Receive,
     SenderSends, Notified, ShowBase, Receipt, vars, NotBefore, hub, pipeline, fencing,
     cycle, publisher, loop
<1> QED
  BY <1>1, <1>2, <1>3, <1>4, <1>5 DEF Next, Cycle, Transition

LEMMA TakesLeaseInForce ==
  ASSUME PipelineInv, [Next]_vars, lock # "loop", lock' = "loop", NEW s \in Nat, s <= session
  PROVE  target'["loop"].session = 0 \/ target'["loop"].session >= s
<1>1. TakePolicyLock("loop")
  BY NoneIsNoOne DEF PipelineInv, Threads, Next, Cycle, Transition, StartRun, RotateRaw,
     PublishRemoteRaw, PublishRejected, RevokeExhausted, RevokeNotified, NotePending, ReadProof,
     ProbeFrame, ReadFrame, Judge, CreateBase, SubmitBase, Expire, StopRun, EndRun,
     TakePolicyLock, Fence, AssignPolicy, NothingToFence, LoopFenceFails, ProcessorFenceFails,
     Connect, Disconnect, SenderChecks, Receive, SenderSends, Notified, ShowBase, Receipt, vars,
     fencing
<1>2. target'["loop"].session = ActiveSession
  BY <1>1 DEF TakePolicyLock, PipelineInv, TransitionShape, Threads
<1> QED
  BY <1>2, LeaseTypes DEF PipelineInv

LEMMA StepConnections ==
  ASSUME PipelineInv, [Next]_vars
  PROVE  ConnectionsNotified'
<1> DEFINE After(s) ==
             pc' # "off" =>
               /\ policy'.session = 0 \/ policy'.session >= s
               /\ \A t \in Threads : lock' = t =>
                    target'[t].session = 0 \/ target'[t].session >= s
<1> SUFFICES ASSUME NEW c \in Clients
             PROVE  /\ conn'[c] <= session'
                    /\ conn'[c] = 0 => sender'[c] = "off"
                    /\ conn'[c] # 0 /\ sender'[c] = "off" => busy' = c
                    /\ sender'[c] # "off" => After(conn'[c])
                    /\ busy' = c => conn'[c] # 0
                    /\ busy' = c /\ lock' = "loop" =>
                         target'["loop"].session = 0 \/ target'["loop"].session >= conn'[c]
                    /\ busy' = c /\ stage'["loop"] = "done" => After(conn'[c])
  BY DEF ConnectionsNotified, NotBefore
<1> USE NoneIsNoOne DEF PipelineInv, LoopShape
<1>1. /\ session' >= session /\ session \in Nat /\ session' \in Nat
      /\ conn[c] \in Nat /\ conn[c] <= session
  <2>1. HubInv'
    BY StepHub DEF RawInForce
  <2>2. session' \in Nat
    BY <2>1, HubBounds DEF HubInv, HubTypeOK
  <2> QED
    BY <2>2, HubGrows, LeaseTypes DEF ConnectionsNotified
<1>2. NotBefore(conn[c]) => After(conn[c])
  <2>1. \A s \in Nat : s <= session /\ NotBefore(s) => After(s)
    BY OldPoliciesStayGone DEF NotBefore
  <2> HIDE DEF After
  <2> QED
    BY <1>1, <2>1
<1>3. lock # "loop" /\ lock' = "loop" =>
        target'["loop"].session = 0 \/ target'["loop"].session >= conn[c]
  <2>1. lock # "loop" /\ lock' = "loop" => \A s \in Nat : s <= session =>
          target'["loop"].session = 0 \/ target'["loop"].session >= s
    BY TakesLeaseInForce
  <2> QED
    BY <1>1, <2>1
<1>4. AssignPolicy("loop") /\ busy = c => After(conn[c])
  BY DEF AssignPolicy, After, NotBefore, ConnectionsNotified, TransitionShape, Turns, Threads
<1>5. pc' = "off" => After(conn[c])
  BY DEF After, NotBefore
<1>6. ConnectionsNotified!(c)
  BY DEF ConnectionsNotified
<1> HIDE DEF After
<1>7. CASE \E d \in Clients : Connect(d)
  BY <1>1, <1>2, <1>6, <1>7
     DEF Connect, GrantLease, LoopFree, TransitionShape, Turns, Threads
<1>8. CASE \E d \in Clients : Disconnect(d)
  BY <1>1, <1>2, <1>6, <1>8 DEF Disconnect, LoopFree, TransitionShape, Turns, Threads
<1>9. CASE Notified
  BY <1>1, <1>2, <1>6, <1>9 DEF Notified, LoopFree, TransitionShape, Turns, Threads
<1>10. CASE LoopFenceFails
  BY <1>1, <1>2, <1>6, <1>10 DEF LoopFenceFails, TransitionShape, Turns, Threads
<1>11. CASE \E d \in Clients : SenderChecks(d) \/ \E e \in RawEpochs : SenderSends(d, e)
  BY <1>1, <1>2, <1>6, <1>11 DEF SenderChecks, SenderSends, LoopFree, fencing
<1>12. CASE UNCHANGED <<conn, sender, busy>>
  <2>1. lock = "loop" /\ lock' = "loop" => target'["loop"] = target["loop"]
    BY DEF Next, Cycle, Transition, StartRun, RotateRaw, PublishRemoteRaw, PublishRejected,
         RevokeExhausted, RevokeNotified, NotePending, ReadProof, ProbeFrame, ReadFrame, Judge,
         CreateBase, SubmitBase, Expire, StopRun, EndRun, TakePolicyLock, Fence, AssignPolicy,
         NothingToFence, LoopFenceFails, ProcessorFenceFails, Connect, Disconnect,
         SenderChecks, Receive, SenderSends, Notified, ShowBase, Receipt, vars, fencing,
         TransitionShape, Turns, Threads
  <2>2. stage'["loop"] = "done" => \/ stage["loop"] = "done" \/ pc' = "off"
                                   \/ AssignPolicy("loop")
    BY DEF Next, Cycle, Transition, StartRun, RotateRaw, PublishRemoteRaw, PublishRejected,
         RevokeExhausted, RevokeNotified, NotePending, ReadProof, ProbeFrame, ReadFrame, Judge,
         CreateBase, SubmitBase, Expire, StopRun, EndRun, TakePolicyLock, Fence, AssignPolicy,
         NothingToFence, LoopFenceFails, ProcessorFenceFails, Connect, Disconnect,
         SenderChecks, Receive, SenderSends, Notified, ShowBase, Receipt, vars, fencing,
         pipeline, TransitionShape, Turns, Threads
  <2> QED
    BY <1>1, <1>2, <1>3, <1>4, <1>5, <1>6, <1>12, <2>1, <2>2
<1>13. \/ \E d \in Clients : Connect(d) \/ Disconnect(d) \/ SenderChecks(d)
       \/ \E d \in Clients, e \in RawEpochs : SenderSends(d, e)
       \/ Notified \/ LoopFenceFails \/ UNCHANGED <<conn, sender, busy>>
  BY DEF Next, Cycle, Transition, StartRun, RotateRaw, PublishRemoteRaw, PublishRejected,
       RevokeExhausted, RevokeNotified, NotePending, ReadProof, ProbeFrame, ReadFrame, Judge,
       CreateBase, SubmitBase, Expire, StopRun, EndRun, TakePolicyLock, Fence, AssignPolicy,
       NothingToFence, ProcessorFenceFails, Receive, ShowBase, Receipt, vars, loop
<1> QED
  BY <1>7, <1>8, <1>9, <1>10, <1>11, <1>12, <1>13

\* Reads fill the frame that is looked at, and only from the slot.
LEMMA FrameReadFromSlot ==
  ASSUME [Next]_vars
  PROVE  second'.frame \in {None, second.frame, remoteIn}
<1>1. CASE ReadProof \/ ProbeFrame \/ SubmitBase
  BY <1>1 DEF ReadProof, ProbeFrame, SubmitBase, Cycled, NoRead
<1>2. CASE ReadFrame
  <2>1. PICK f \in {None, remoteIn} : second' = Read(f)
    BY <1>2 DEF ReadFrame
  <2>2. CASE f = None
    BY <2>1, <2>2 DEF Read
  <2>3. CASE f # None
    BY <2>1, <2>3 DEF Read
  <2> QED
    BY <2>2, <2>3
<1>3. CASE second' = second
  BY <1>3
<1>4. ReadProof \/ ProbeFrame \/ SubmitBase \/ ReadFrame \/ second' = second
  BY DEF Next, Cycle, Transition, StartRun, RotateRaw, PublishRemoteRaw, PublishRejected,
       RevokeExhausted, RevokeNotified, NotePending, Judge, CreateBase, Expire, StopRun,
       EndRun, TakePolicyLock, Fence, AssignPolicy, NothingToFence, LoopFenceFails,
       ProcessorFenceFails, Connect, Disconnect, SenderChecks, Receive, SenderSends, Notified,
       ShowBase, Receipt, vars, cycle
<1> QED
  BY <1>1, <1>2, <1>3, <1>4

LEMMA StepFrames ==
  ASSUME PipelineInv, [Next]_vars
  PROVE  FramesNotified'
<1> DEFINE After(s) ==
             pc' # "off" =>
               /\ policy'.session = 0 \/ policy'.session >= s
               /\ \A t \in Threads : lock' = t =>
                    target'[t].session = 0 \/ target'[t].session >= s
<1> SUFFICES /\ remoteIn' # None => After(remoteIn'.session)
             /\ second'.frame # None => After(second'.frame.session)
  BY DEF FramesNotified, NotBefore
<1> USE DEF PipelineInv
<1>1. \A s \in Nat : s <= session /\ NotBefore(s) => After(s)
  BY OldPoliciesStayGone DEF NotBefore
<1> HIDE DEF After
<1>2. ASSUME remoteIn # None
      PROVE  After(remoteIn.session)
  <2>1. remoteIn.session = session /\ session \in Nat
    BY <1>2, LeaseTypes DEF HubInv, AnswersOwnRaw, SessionValid
  <2> QED
    BY <1>1, <1>2, <2>1 DEF FramesNotified
<1>3. ASSUME second.frame # None
      PROVE  After(second.frame.session)
  <2>1. second.frame.session \in Nat /\ second.frame.session <= session
    BY <1>3, HubBounds DEF CycleShape, Frames, Sessions, ReadsForward
  <2> QED
    BY <1>1, <1>3, <2>1 DEF FramesNotified
<1>4. ASSUME NEW c \in Clients, sender[c] \in {"check", "wait"}
      PROVE  After(conn[c])
  <2>1. conn[c] \in Nat /\ conn[c] <= session /\ NotBefore(conn[c])
    BY <1>4 DEF LoopShape, ConnectionsNotified
  <2> QED
    BY <1>1, <2>1
<1>5. remoteIn' # None => After(remoteIn'.session)
  BY <1>2, <1>4, HubGrows
<1>6. second'.frame # None => After(second'.frame.session)
  BY <1>2, <1>3, FrameReadFromSlot
<1> QED
  BY <1>5, <1>6

LEMMA StepReadsForward ==
  ASSUME PipelineInv, [Next]_vars
  PROVE  ReadsForward'
<1> USE LeaseTypes, HubBounds DEF PipelineInv
<1>1. /\ session \in Nat /\ session' \in Nat /\ session' >= session
      /\ required \in Nat /\ required' \in Nat /\ required' >= required
  <2>1. HubInv'
    BY StepHub DEF RawInForce
  <2> QED
    BY <2>1, HubGrows DEF HubInv, HubTypeOK
<1>2. /\ second.proof.epoch \in Nat /\ second.proof.session \in Nat
      /\ second.frame # None =>
           second.frame.epoch \in Nat /\ second.frame.session \in Nat
  BY DEF CycleShape, Frames, Sessions, RawEpochs, NoProof
<1>3. remoteIn # None => /\ remoteIn.epoch \in Nat /\ remoteIn.epoch <= required
                         /\ remoteIn.session = session
  BY DEF HubInv, HubTypeOK, AnswersOwnRaw, SessionValid, SlotIsOld, BoundToLease, Frames,
     RawEpochs
<1>4. /\ proof = (IF remoteIn = None THEN NoProof ELSE remoteIn)
      /\ NoProof.epoch = 0 /\ NoProof.session = 0
  BY DEF HubInv, AnswersOwnRaw, NoProof
<1>5. CASE ReadProof
  <2>1. UNCHANGED hub /\ UNCHANGED base /\ pc' \in {"probe", "read"}
        /\ base = NoBase
    BY <1>5 DEF ReadProof, ReadsForward
  <2>2. second'.proof = proof /\ second'.frame = None
    BY <1>5 DEF ReadProof
  <2> QED
    BY <2>1, <2>2, <1>1, <1>3, <1>4 DEF ReadsForward, hub
<1>6. CASE ProbeFrame
  BY <1>6, <1>1, <1>4 DEF ProbeFrame, ReadsForward, NoRead
<1>7. CASE ReadFrame
  <2>1. PICK f \in {None, remoteIn} : second' = Read(f)
    BY <1>7 DEF ReadFrame
  <2>2. UNCHANGED <<hub, base>> /\ pc = "read" /\ pc' = "judge"
    BY <1>7 DEF ReadFrame
  <2>3. CASE second'.frame = None
    <3>1. second'.proof \in {NoProof, second.proof}
      BY <2>1 DEF Read, CycleShape
    <3> QED
      BY <2>2, <2>3, <3>1, <1>1, <1>4 DEF ReadsForward, hub
  <2>4. CASE second'.frame # None
    <3>1. f = remoteIn /\ remoteIn # None /\ second'.frame = remoteIn
          /\ second'.proof = second.proof
      BY <2>1, <2>4 DEF Read, CycleShape
    <3> QED
      BY <2>2, <3>1, <1>1, <1>2, <1>3 DEF ReadsForward, hub
  <2> QED
    BY <2>3, <2>4
<1>8. CASE Judge \/ CreateBase
  BY <1>8, <1>1, <1>2 DEF Judge, CreateBase, ReadsForward, hub
<1>9. CASE SubmitBase
  BY <1>9, <1>1, <1>4 DEF SubmitBase, Cycled, ReadsForward, NoRead
<1>10. CASE /\ UNCHANGED <<second, base>>
            /\ \/ pc' = pc
               \/ {pc, pc'} \cap {"probe", "read", "judge", "create", "submit"} = {}
  <2>1. (pc' = "read" /\ remoteIn' # None /\ remoteIn'.session = second'.proof.session) =>
          second'.proof.epoch <= remoteIn'.epoch
    <3> SUFFICES ASSUME pc = "read", remoteIn' # None,
                        remoteIn'.session = second.proof.session
                 PROVE  second.proof.epoch <= remoteIn'.epoch
      BY <1>10
    <3>1. CASE remoteIn' = remoteIn
      BY <3>1 DEF ReadsForward
    <3>2. CASE remoteIn'.epoch = required
      BY <3>2 DEF ReadsForward
    <3> QED
      BY <3>1, <3>2, HubGrows
  <2>2. /\ second'.proof.session <= session' /\ second'.proof.epoch <= required'
        /\ second'.frame # None => second'.frame.session <= session'
    BY <1>1, <1>2, <1>10 DEF ReadsForward
  <2>3. CASE pc' = pc
    <3>1. (pc' = "judge" /\ second'.frame # None) =>
            /\ second'.proof.session <= second'.frame.session
            /\ second'.proof.session = second'.frame.session =>
                 second'.proof.epoch <= second'.frame.epoch
            /\ second'.frame.epoch <= required'
      BY <1>1, <1>2, <1>10, <2>3 DEF ReadsForward
    <3> QED
      BY <1>10, <2>1, <2>2, <2>3, <3>1 DEF ReadsForward
  <2>4. CASE {pc, pc'} \cap {"probe", "read", "judge", "create", "submit"} = {}
    <3>1. /\ pc \notin {"probe", "read", "judge", "create", "submit"}
          /\ pc' \notin {"probe", "read", "judge", "create", "submit"}
      BY <2>4
    <3> QED
      BY <1>10, <2>2, <3>1 DEF ReadsForward
  <2> QED
    BY <1>10, <2>3, <2>4
<1>11. \/ ReadProof \/ ProbeFrame \/ ReadFrame \/ Judge \/ CreateBase \/ SubmitBase
       \/ /\ UNCHANGED <<second, base>>
          /\ \/ pc' = pc
             \/ {pc, pc'} \cap {"probe", "read", "judge", "create", "submit"} = {}
  BY DEF Next, Cycle, Transition, StartRun, RotateRaw, PublishRemoteRaw, PublishRejected,
       RevokeExhausted, RevokeNotified, NotePending, Expire, StopRun, EndRun, TakePolicyLock,
       Fence, AssignPolicy, NothingToFence, LoopFenceFails, ProcessorFenceFails, Connect,
       Disconnect, SenderChecks, Receive, SenderSends, Notified, ShowBase, Receipt, vars,
       cycle, pipeline, Turns
<1> QED
  BY <1>5, <1>6, <1>7, <1>8, <1>9, <1>10, <1>11

\* A shown base carries the frame its proof names: that proof was read before
\* the frame, for the policy in force, and no later answer fits that policy.
LEMMA JudgedPixels ==
  ASSUME PipelineInv, pc = "judge", MatchesPolicy, second.frame # None
  PROVE  second.frame = second.proof
<1> USE HubBounds DEF PipelineInv
<1>1. second.proof.epoch = policy.raw /\ second.proof.session = policy.session
      /\ second.proof # NoProof
  BY DEF MatchesPolicy
<1>2. second.proof \in Frames /\ second.frame \in Frames
  BY <1>1 DEF CycleShape
<1>3. /\ second.proof.session \in Nat \ {0} /\ second.frame.session \in Nat
      /\ second.proof.epoch \in Nat /\ second.frame.epoch \in Nat
      /\ second.frame = [epoch |-> second.frame.epoch, session |-> second.frame.session]
      /\ second.proof = [epoch |-> second.proof.epoch, session |-> second.proof.session]
  BY <1>2 DEF Frames, Sessions, RawEpochs
<1>4. second.frame.session = second.proof.session
  BY <1>1, <1>3 DEF ReadsForward, FramesNotified, NotBefore
<1>5. second.frame.epoch = second.proof.epoch
  <2>1. policy.raw = required /\ required \in Nat
    BY LeaseTypes DEF RawInForce, Cycling
  <2> QED
    BY <1>1, <1>3, <1>4, <2>1 DEF ReadsForward
<1> QED
  BY <1>3, <1>4, <1>5

LEMMA StepPixelsProven ==
  ASSUME PipelineInv, [Next]_vars
  PROVE  PixelsProven'
<1> USE DEF PipelineInv
<1>1. CASE Judge
  <2>1. base'.pixels # None => base'.pixels = base'.proof
    BY <1>1, JudgedPixels DEF Judge
  <2> QED
    BY <1>1, <2>1 DEF Judge, PixelsProven, Admitted, publisher
<1>2. CASE CreateBase
  <2>1. base'.pixels = base.pixels /\ base'.proof = base.proof
    BY <1>2 DEF CreateBase, CycleShape, BasesMade
  <2> QED
    BY <1>2, <2>1 DEF CreateBase, PixelsProven, Admitted, publisher
<1>3. CASE SubmitBase
  BY <1>3 DEF SubmitBase, Cycled, NoBase, PixelsProven, Admitted
<1>4. CASE \E t \in Threads : Fence(t)
  BY <1>4 DEF Fence, PixelsProven, cycle
<1>5. CASE StartRun
  BY <1>5 DEF StartRun, PixelsProven, Turns
<1>6. CASE ShowBase \/ Receipt
  BY <1>6 DEF ShowBase, Receipt, PixelsProven, Admitted, cycle
<1>7. CASE EndRun
  BY <1>7 DEF EndRun, PixelsProven, Admitted, cycle
<1>8. CASE UNCHANGED <<base, publisher>>
  BY <1>8 DEF PixelsProven, Admitted, publisher
<1>9. \/ Judge \/ CreateBase \/ SubmitBase \/ StartRun \/ ShowBase \/ Receipt \/ EndRun
      \/ \E t \in Threads : Fence(t)
      \/ UNCHANGED <<base, publisher>>
  BY DEF Next, Cycle, Transition, RotateRaw, PublishRemoteRaw, PublishRejected,
       RevokeExhausted, RevokeNotified, NotePending, ReadProof, ProbeFrame, ReadFrame, Expire,
       StopRun, TakePolicyLock, AssignPolicy, NothingToFence, LoopFenceFails,
       ProcessorFenceFails, Connect, Disconnect, SenderChecks, Receive, SenderSends, Notified,
       vars, cycle
<1> QED
  BY <1>1, <1>2, <1>3, <1>4, <1>5, <1>6, <1>7, <1>8, <1>9

-----------------------------------------------------------------------------
LEMMA InitPipeline == Init => PipelineInv
<1> SUFFICES ASSUME Init
             PROVE  PipelineInv
  OBVIOUS
<1> USE DEF Init
<1>1. HubInv /\ RawTyped
  BY InitHubInv, InitRaw
<1>2. NoPolicy \in Records /\ NoBase \in BasesMade /\ Threads = {"processor", "loop"}
  BY DEF NoPolicy, NoBase, Records, BasesMade, Threads
<1>3. TransitionShape /\ LoopShape
  BY <1>2 DEF TransitionShape, LoopShape
<1>4. CycleShape
  BY <1>2 DEF CycleShape, NoRead
<1>5. Turns
  BY <1>2, NoneIsNoOne DEF Turns
<1>6. Following
  BY <1>2, NoneIsNoOne DEF Following
<1>7. RawInForce
  BY <1>1 DEF RawInForce, Cycling
<1>8. ConnectionsNotified
  BY <1>2, NoneIsNoOne DEF ConnectionsNotified, InitHub
<1>9. FramesNotified
  BY DEF FramesNotified, InitHub, NoRead
<1>10. ReadsForward /\ PixelsProven
  BY DEF ReadsForward, PixelsProven, InitHub, NoRead, NoProof, NoBase
<1> QED
  BY <1>1, <1>3, <1>4, <1>5, <1>6, <1>7, <1>8, <1>9, <1>10 DEF PipelineInv

\* The parts hold together, of the initial states and across every step of the
\* loop, the processing thread and the publisher.
THEOREM PipelineInvariant == Spec => []PipelineInv
<1>1. PipelineInv /\ [Next]_vars => PipelineInv'
  <2> SUFFICES ASSUME PipelineInv, [Next]_vars
               PROVE  PipelineInv'
    OBVIOUS
  <2>1. HubInv'
    BY StepHub DEF PipelineInv, RawInForce
  <2> QED
    BY <2>1, StepTransitionShape, StepLoopShape, StepCycleShape, StepTurns, StepFollowing,
       StepRawInForce, StepConnections, StepFrames, StepReadsForward, StepPixelsProven
       DEF PipelineInv
<1> QED
  BY <1>1, InitPipeline, PTL DEF Spec

\* Whatever the number of renderers, leases and raw epochs: when no thread is
\* in a policy transition, the publisher and the pipeline have one policy, and
\* it is for the lease in force (_publisher_policy_transition, pipeline.py).
THEOREM PolicyNamesTheLease == Spec => []PolicyFollowsLease
<1>1. PipelineInv => PolicyFollowsLease
  <2> SUFFICES ASSUME PipelineInv, Quiet, ~failed, pc # "off"
               PROVE  gate = policy /\ policy.session = ActiveSession
    BY DEF PolicyFollowsLease
  <2>1. lock = None
    BY DEF PipelineInv, TransitionShape, Turns, Quiet, Threads
  <2> QED
    BY <2>1 DEF PipelineInv, Following, Quiet, Threads
<1> QED
  BY <1>1, PipelineInvariant, PTL

\* Whatever their number: once a lease event was notified, what the sink shows
\* of a renderer is the holder's answer to the raw epoch required of it.
THEOREM NoRendererOutlivesItsLease == Spec => []LeaseBoundary
<1>1. PipelineInv => LeaseBoundary
  <2> SUFFICES ASSUME PipelineInv, Quiet, ~failed, wire # None, wire.pixels # None
               PROVE  SessionValid(wire.pixels.session) /\ wire.pixels.epoch = gate.raw
    BY DEF LeaseBoundary
  <2> USE DEF PipelineInv
  <2>1. lock = None /\ pc # "off"
    BY DEF TransitionShape, Turns, Quiet, Threads
  <2>2. gate = policy /\ policy.session = ActiveSession
    BY <2>1 DEF Following, Quiet, Threads
  <2>3. wire.pixels = wire.proof /\ wire.proof \in Frames
    BY DEF PixelsProven, CycleShape, BasesMade
  <2>4. wire.proof # NoProof /\ wire.proof.session # 0
    BY <2>3, HubBounds DEF Frames, Sessions, NoProof
  <2>5. wire.proof = [epoch |-> gate.raw, session |-> gate.session]
    BY <2>4 DEF PixelsProven, Admitted
  <2>6. wire.proof.epoch = gate.raw /\ wire.proof.session = ActiveSession
    BY <2>2, <2>5
  <2> QED
    BY <2>3, <2>4, <2>6 DEF SessionValid, ActiveSession
<1> QED
  BY <1>1, PipelineInvariant, PTL

-----------------------------------------------------------------------------
\* What was sent names raw epochs that are no longer to be published, so their
\* lease is settled.
SentAsIssued ==
  /\ \A x \in sent : x.epoch \in RawEpochs /\ x.epoch <= required
  /\ HolderSentItsOwn

LEMMA StepSent ==
  ASSUME PipelineInv, [Next]_vars, SentAsIssued
  PROVE  SentAsIssued'
<1> USE DEF PipelineInv, SentAsIssued, HolderSentItsOwn
<1>1. \A x \in sent : x.epoch \in Nat /\ x.epoch <= required /\ x.epoch <= required'
  BY HubBounds, HubGrows, LeaseTypes, StepHub DEF RawEpochs, RawInForce, HubInv, HubTypeOK
<1>2. CASE \E c \in Clients, e \in RawEpochs : SenderSends(c, e)
  <2>1. PICK c \in Clients, e \in RawEpochs : SenderSends(c, e)
    BY <1>2
  <2>2. CASE e \in bound
    <3>1. sent' = sent \cup {[epoch |-> e, session |-> conn[c], valid |-> SessionValid(conn[c])]}
          /\ UNCHANGED hub
      BY <2>1, <2>2 DEF SenderSends
    <3>2. e <= required /\ (SessionValid(conn[c]) => issued[e] = conn[c])
      BY <2>2 DEF HubInv, BoundToLease, SessionValid, ActiveSession
    <3> QED
      BY <3>1, <3>2 DEF hub
  <2>3. CASE e \notin bound
    BY <2>1, <2>3 DEF SenderSends, hub
  <2> QED
    BY <2>2, <2>3
<1>3. CASE sent' = sent /\ \/ issued' = issued
                           \/ \E e \in RawEpochs, s \in Nat :
                                e > required /\ issued' = [issued EXCEPT ![e] = s]
  BY <1>1, <1>3 DEF HubInv, HubTypeOK
<1>4. CASE PublishRemoteRaw
  <2>1. rawEpoch \in RawEpochs
    BY <1>4, HubBounds DEF PublishRemoteRaw, RawInForce, RawTyped, RawEpochs
  <2> QED
    BY <1>3, <1>4, <2>1, LeaseTypes DEF PublishRemoteRaw, PublishRaw, loop
<1>5. CASE \/ StartRun \/ RevokeExhausted \/ LoopFenceFails
           \/ \E c \in Clients : Connect(c) \/ Disconnect(c)
           \/ \E c \in Clients, e \in RawEpochs : Receive(c, e)
  BY <1>3, <1>5 DEF StartRun, RevokeExhausted, LoopFenceFails, Connect, Disconnect, Receive,
     RevokeLease, EndLease, GrantLease, PushFrame, hub, loop
<1>6. CASE \/ RotateRaw \/ PublishRejected \/ RevokeNotified \/ NotePending \/ ReadProof
           \/ ProbeFrame \/ ReadFrame \/ Judge \/ CreateBase \/ SubmitBase \/ Expire
           \/ StopRun \/ EndRun \/ NothingToFence \/ ProcessorFenceFails \/ Notified
           \/ ShowBase \/ Receipt \/ UNCHANGED vars
           \/ \E t \in Threads : Transition(t)
           \/ \E c \in Clients : SenderChecks(c)
  BY <1>3, <1>6 DEF RotateRaw, PublishRejected, RevokeNotified, NotePending, ReadProof,
     ProbeFrame, ReadFrame, Judge, CreateBase, SubmitBase, Expire, StopRun, EndRun,
     NothingToFence, ProcessorFenceFails, Notified, ShowBase, Receipt, Transition,
     TakePolicyLock, Fence, AssignPolicy, SenderChecks, vars, hub, loop
<1> QED
  BY <1>2, <1>4, <1>5, <1>6 DEF Next, Cycle

\* Whatever their number: a connection whose lease was in force when a raw frame
\* left (sender, server.py) was sent a frame admitted for that lease.
THEOREM HoldersAreSentTheirOwn == Spec => []HolderSentItsOwn
<1>1. Init => SentAsIssued
  BY DEF Init, SentAsIssued, HolderSentItsOwn
<1>2. PipelineInv /\ SentAsIssued /\ [Next]_vars => SentAsIssued'
  BY StepSent
<1>3. SentAsIssued => HolderSentItsOwn
  BY DEF SentAsIssued
<1> QED
  BY <1>1, <1>2, <1>3, PipelineInvariant, PTL DEF Spec

-----------------------------------------------------------------------------
\* The hub is used as it is meant to be: whatever the loop, the processing thread and the
\* publisher do, each of their steps is one operation of the hub, on a lease it gave out
\* and a raw epoch in its range, or leaves it alone. So what SpecHub promises (hub.py)
\* holds of the hub in the pipeline (pipeline.py, ws_frames).
THEOREM RemoteUsesTheHub == Spec => SpecHub
<1>1. Init => InitHub
  BY DEF Init
<1>2. PipelineInv /\ [Next]_vars => [NextHub]_hub
  <2> SUFFICES ASSUME PipelineInv, [Next]_vars PROVE [NextHub]_hub
    OBVIOUS
  <2>0. /\ HubInv /\ LoopShape /\ Turns /\ RawTyped /\ ConnectionsNotified
        /\ session \in 0..(MaxSession + 1) /\ MaxSession \in Nat
    BY HubBounds DEF PipelineInv, RawInForce, HubInv, HubTypeOK
  <2>1. \A s : RevokeLease(s) => [NextHub]_hub
    <3> SUFFICES ASSUME NEW s, RevokeLease(s) PROVE [NextHub]_hub
      OBVIOUS
    <3>1. CASE s = session
      <4>1. s \in Sessions \cup {0}
        BY <2>0, <3>1 DEF Sessions
      <4> QED
        BY <4>1 DEF NextHub
    <3>2. CASE s # session
      BY <3>2 DEF RevokeLease
    <3> QED
      BY <3>1, <3>2
  <2>2. \A c \in Clients : conn[c] # 0 => conn[c] \in Sessions
    BY <2>0 DEF LoopShape, ConnectionsNotified, Sessions
  <2>3. CASE StartRun
    BY <2>1, <2>3 DEF StartRun
  <2>4. CASE Cycle
    <3>1. CASE PublishRemoteRaw
      <4>1. rawEpoch \in RawEpochs
        BY <2>0, <3>1, HubBounds DEF PublishRemoteRaw, RawTyped, RawEpochs
      <4>2. PublishRaw(rawEpoch, RoomToRemember) /\ RoomToRemember \in BOOLEAN
        BY <3>1 DEF PublishRemoteRaw, RoomToRemember
      <4> QED
        BY <4>1, <4>2 DEF NextHub
    <3>2. CASE RevokeExhausted
      BY <2>1, <3>2 DEF RevokeExhausted
    <3>3. CASE RotateRaw \/ PublishRejected \/ RevokeNotified \/ NotePending
      BY <3>3 DEF RotateRaw, PublishRejected, RevokeNotified, NotePending
    <3>4. CASE ReadProof \/ ProbeFrame \/ ReadFrame \/ Judge \/ CreateBase \/ SubmitBase
      BY <3>4 DEF ReadProof, ProbeFrame, ReadFrame, Judge, CreateBase, SubmitBase
    <3> QED
      BY <2>4, <3>1, <3>2, <3>3, <3>4 DEF Cycle
  <2>5. CASE Expire \/ StopRun \/ EndRun
    BY <2>5 DEF Expire, StopRun, EndRun
  <2>6. ASSUME NEW t \in Threads, Transition(t) PROVE [NextHub]_hub
    BY <2>6 DEF Transition, TakePolicyLock, Fence, AssignPolicy
  <2>7. CASE LoopFenceFails
    BY <2>1, <2>7 DEF LoopFenceFails
  <2>8. CASE NothingToFence \/ ProcessorFenceFails
    BY <2>8 DEF NothingToFence, ProcessorFenceFails
  <2>9. ASSUME NEW c \in Clients,
               \/ Connect(c) \/ Disconnect(c) \/ SenderChecks(c)
               \/ \E e \in RawEpochs : Receive(c, e) \/ SenderSends(c, e)
        PROVE  [NextHub]_hub
    <3>1. CASE Connect(c)
      BY <3>1 DEF Connect, NextHub
    <3>2. CASE Disconnect(c)
      BY <2>2, <3>2 DEF Disconnect, NextHub
    <3>3. ASSUME NEW e \in RawEpochs, Receive(c, e) PROVE [NextHub]_hub
      <4>1. conn[c] \in Sessions
        BY <2>0, <2>2, <3>3 DEF Receive, ConnectionsNotified
      <4> QED
        BY <3>3, <4>1 DEF Receive, NextHub
    <3>4. CASE SenderChecks(c) \/ \E e \in RawEpochs : SenderSends(c, e)
      BY <3>4 DEF SenderChecks, SenderSends
    <3> QED
      BY <2>9, <3>1, <3>2, <3>3, <3>4
  <2>10. CASE Notified \/ ShowBase \/ Receipt \/ UNCHANGED vars
    BY <2>10 DEF Notified, ShowBase, Receipt, vars
  <2> QED
    BY <2>3, <2>4, <2>5, <2>6, <2>7, <2>8, <2>9, <2>10 DEF Next
<1> QED
  BY <1>1, <1>2, PipelineInvariant, PTL DEF Spec, SpecHub
=============================================================================
