------------------------------ MODULE FrameHub ------------------------------
(***************************************************************************)
(* The renderer side of FrameHub (src/custback/hub.py): the exclusive      *)
(* lease, the raw epochs a lease may answer and the one rendered frame     *)
(* that waits for the pipeline.  Every operation runs under _stats_lock    *)
(* and is one step; what a caller does between two of them is up to the    *)
(* module that composes them.                                              *)
(*                                                                         *)
(* A rendered frame is the raw epoch its renderer claims and the lease it  *)
(* came in on; that pair also stands for its time of publication, as a     *)
(* pair is accepted once.  Left out: the pixels and the age of a frame,    *)
(* the 2048 oldest bindings kept, and the statistics.                      *)
(***************************************************************************)
EXTENDS Naturals

CONSTANTS
  None,         \* no frame
  MaxSession,   \* bound: the last lease granted
  MaxRaw        \* bound: the last raw epoch

ASSUME HubBounds == MaxSession \in Nat \ {0} /\ MaxRaw \in Nat \ {0}

\* An invalidation moves the lease id once more.
Sessions == 1..(MaxSession + 1)
RawEpochs == 1..MaxRaw
Frames == [epoch: RawEpochs, session: Sessions]
NoProof == [epoch |-> 0, session |-> 0]

ASSUME NoneIsNoFrame == None \notin Frames

VARIABLES
  session,    \* _remote_session
  connected,  \* _remote_clients > 0
  required,   \* _required_remote_raw_epoch
  bound,      \* the values of _remote_raw_epoch_by_slot_sequence, without 0
  remoteIn,   \* the frame in the slot remote_in, or None
  proof,      \* _remote_frame_raw_epoch and _remote_frame_session
  issued      \* history: for each epoch put in the raw slot, the lease it was
              \* admitted for, 0 without a lease; None if it was not put

hub == <<session, connected, required, bound, remoteIn, proof, issued>>

InitHub ==
  /\ session = 0 /\ connected = FALSE
  /\ required = 0 /\ bound = {}
  /\ remoteIn = None /\ proof = NoProof
  /\ issued = [e \in RawEpochs |-> None]

\* active_remote_session() or 0
ActiveSession == IF connected THEN session ELSE 0

\* remote_session_valid
SessionValid(s) == connected /\ s = session

ClearFrames == bound' = {} /\ remoteIn' = None /\ proof' = NoProof

\* remote_client_connected, up to the notification.
GrantLease ==
  /\ session < MaxSession
  /\ session' = session + 1
  /\ connected' = TRUE
  /\ ClearFrames
  /\ UNCHANGED <<required, issued>>

\* remote_client_disconnected(s): another lease's disconnect changes nothing.
EndLease(s) ==
  IF SessionValid(s)
    THEN connected' = FALSE /\ ClearFrames /\ UNCHANGED <<session, required, issued>>
    ELSE UNCHANGED hub

\* _invalidate_remote_session_locked(s), for the lease s only.
RevokeLease(s) ==
  IF s = session
    THEN /\ session' = IF connected THEN session + 1 ELSE session
         /\ connected' = FALSE
         /\ ClearFrames
         /\ UNCHANGED <<required, issued>>
    ELSE UNCHANGED hub

\* publish_remote_raw(e), with the verdict of admit if there is a lease.
PublishRaw(e, admitted) ==
  /\ e > required
  /\ required' = e
  /\ IF connected /\ ~admitted
       THEN UNCHANGED <<bound, issued>>
       ELSE bound' = bound \cup {e} /\ issued' = [issued EXCEPT ![e] = ActiveSession]
  /\ UNCHANGED <<session, connected, remoteIn, proof>>

\* Mutant: a required epoch is answered whether or not it was bound.
AnswersRequired(e, s) ==
  SessionValid(s) /\ e = required /\ proof # [epoch |-> e, session |-> s]
\* The conditions of push_remote_frame.
Answers(e, s) ==
  /\ SessionValid(s)
  /\ e = required /\ e \in bound
  /\ proof # [epoch |-> e, session |-> s]

PushFrame(e, s) ==
  IF Answers(e, s)
    THEN /\ remoteIn' = [epoch |-> e, session |-> s]
         /\ proof' = [epoch |-> e, session |-> s]
         /\ UNCHANGED <<session, connected, required, bound, issued>>
    ELSE UNCHANGED hub

\* reset_remote_session revokes whatever there is, before the first lease, too.
NextHub ==
  \/ GrantLease
  \/ \E s \in Sessions : EndLease(s)
  \/ \E s \in Sessions \cup {0} : RevokeLease(s)
  \/ \E e \in RawEpochs, admitted \in BOOLEAN : PublishRaw(e, admitted)
  \/ \E e \in RawEpochs, s \in Sessions : PushFrame(e, s)

SpecHub == InitHub /\ [][NextHub]_hub

-----------------------------------------------------------------------------
\* Properties.

HubTypeOK ==
  /\ session \in 0..(MaxSession + 1) /\ connected \in BOOLEAN
  /\ required \in 0..MaxRaw /\ bound \subseteq RawEpochs
  /\ remoteIn \in Frames \cup {None} /\ proof \in Frames \cup {NoProof}
  /\ issued \in [RawEpochs -> (0..(MaxSession + 1)) \cup {None}]

\* A frame waits in the slot only for the lease in force, it answers an epoch
\* that was admitted for that very lease, and the proof beside it says so.
AnswersOwnRaw ==
  /\ proof = (IF remoteIn = None THEN NoProof ELSE remoteIn)
  /\ remoteIn # None =>
       /\ SessionValid(remoteIn.session)
       /\ issued[remoteIn.epoch] = remoteIn.session

\* An epoch that a lease could still answer was issued after it was granted, or
\* while there was no lease.
BoundToLease ==
  /\ \A e \in bound : e <= required /\ issued[e] = ActiveSession
  /\ session = 0 => ~connected
=============================================================================
