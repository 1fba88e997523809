----------------------- MODULE OutputPublisherProofs -----------------------
(***************************************************************************)
(* Theorems about OutputPublisher, for any number of control threads,      *)
(* leases, policies and bases: what may be in the sink, who is responsible *)
(* for an accepted base, and that the publisher implements BaseHandoff and *)
(* PublicationGate.                                                        *)
(***************************************************************************)
EXTENDS OutputPublisher, TLAPS

-----------------------------------------------------------------------------
(* What is in the sink.                                                     *)

\* The id of a base is one of BaseIds, whatever the slot holds.
LEMMA IdsOfSlot == \A b \in Slots : Ids(b) \subseteq BaseIds
BY DEF Slots, Ids, Bases

LEMMA InitTyped == Init => TypeOK
<1> SUFFICES ASSUME Init PROVE TypeOK
  OBVIOUS
<1>1. Slate \in [base : Slots, private : BOOLEAN] /\ 0 \in Time /\ 0 \in Nat
  BY BoundsAreNaturals DEF Slate, Slots, Time
<1>2. (policy.lease # NoLease) \in BOOLEAN
  OBVIOUS
<1>3. pc \in [Clients -> ClientSteps] /\ request \in [Clients -> Policies \cup {None}]
      /\ \A c \in Clients : pc[c] = "idle"
  BY DEF Init, ClientSteps
<1>4. owed \in [Actors -> SUBSET BaseIds] /\ releases \in [BaseIds -> Nat]
  BY <1>1 DEF Init
<1> QED
  BY <1>1, <1>2, <1>3, <1>4 DEF Init, TypeOK, States, WorkerSteps, Slots

LEMMA ProcessorTyped ==
  ASSUME TypeOK, ProcessorStep
  PROVE  TypeOK'
<1> USE DEF TypeOK, Clients, Actors, lifecycle, privacy, slots, ids, events,
          sending, calls, custody, Goto
<1>1. CASE Start(Processor)
  BY <1>1 DEF Start, WorkerSteps, ClientSteps
<1>2. CASE WaitOpened(Processor) \/ ReadOutput(Processor)
           \/ NoOutputRaised(Processor) \/ CloseReadsStarted(Processor)
           \/ Join(Processor)
  BY <1>2 DEF WaitOpened, ReadOutput, NoOutputRaised, CloseReadsStarted, Join,
              ClientSteps
<1>3. ASSUME NEW b \in Bases, Submit(Processor, b)
      PROVE  TypeOK'
  <2>1. Ids(pending) \subseteq BaseIds
    BY IdsOfSlot
  <2>2. b.id \in BaseIds /\ b.id \in Nat /\ b.slate \in BOOLEAN
    BY BoundsAreNaturals DEF Bases, BaseIds
  <2> QED
    BY <1>3, <2>1, <2>2 DEF Submit, Owe, Slots
<1>4. CASE RequestStop(Processor, "closing")
  <2>1. Ids(pending) \subseteq BaseIds
    BY IdsOfSlot
  <2> QED
    BY <1>4, <2>1 DEF RequestStop, Owe, Slots, States, ClientSteps
<1>5. CASE CloseUnstarted(Processor)
  BY <1>5 DEF CloseUnstarted, States, ClientSteps
<1> QED
  BY <1>1, <1>2, <1>3, <1>4, <1>5 DEF ProcessorStep

LEMMA ClientTyped ==
  ASSUME TypeOK, NEW c \in Clients, ClientStep(c)
  PROVE  TypeOK'
<1> USE DEF TypeOK, Actors, lifecycle, privacy, slots, ids, events,
          sending, calls, custody, Goto, FenceEnds, ClientSteps
<1>1. ASSUME NEW p \in Policies, CallFence(c, p)
      PROVE  TypeOK'
  BY <1>1 DEF CallFence
<1>2. CASE TakeGateToFence(c)
  BY <1>2 DEF TakeGateToFence
<1>3. CASE FenceTimesOut(c) \/ FenceFindsError(c)
  BY <1>3 DEF FenceTimesOut, FenceFindsError
<1>4. CASE FenceToSlate(c)
  <2>1. Discarded \subseteq BaseIds
    BY IdsOfSlot DEF Discarded
  <2> QED
    BY <1>4, <2>1 DEF FenceToSlate, Owe, Slots
<1>5. CASE RequestStop(c, "idle")
  <2>1. Ids(pending) \subseteq BaseIds
    BY IdsOfSlot
  <2> QED
    BY <1>5, <2>1 DEF RequestStop, Owe, Slots, States
<1> QED
  BY <1>1, <1>2, <1>3, <1>4, <1>5 DEF ClientStep

LEMMA ReleaseTyped ==
  ASSUME TypeOK, NEW a \in Actors, NEW i \in BaseIds, NotifyReleased(a, i)
  PROVE  TypeOK'
<1>1. releases[i] + 1 \in Nat
  BY DEF TypeOK
<1> QED
  BY <1>1 DEF NotifyReleased, Owe, TypeOK, lifecycle, privacy, slots, ids, events,
            sending, calls

\* A step that adopts a base, or the slate, and owes the bases it drops.
LEMMA AdoptTyped ==
  ASSUME TypeOK, NEW b \in Slots, NEW dropped \in SUBSET BaseIds,
         Adopt(b, dropped), pending' = None
  PROVE  TypeOK'
<1>1. sink' \in [base : Slots, private : BOOLEAN]
  <2>1. b # None => b.slate \in BOOLEAN
    BY DEF Slots, Bases
  <2>2. (b = None \/ b.slate) \in BOOLEAN
    OBVIOUS
  <2> QED
    BY <2>2 DEF Adopt, Send
<1>2. owed' \in [Actors -> SUBSET BaseIds]
  BY DEF Adopt, Owe, TypeOK
<1> QED
  BY <1>1, <1>2
     DEF Adopt, TypeOK, Slots, WorkerSteps, lifecycle, privacy, ids, events, calls

LEMMA SelectTyped ==
  ASSUME TypeOK, Select
  PROVE  TypeOK'
<1>1. /\ pending \in Slots /\ current \in Slots
      /\ Ids(pending) \subseteq BaseIds /\ Ids(current) \subseteq BaseIds
      /\ Discarded \subseteq BaseIds
      /\ Newest \in Slots /\ None \in Slots
  BY IdsOfSlot DEF TypeOK, Discarded, Newest, Slots
<1>2. CASE SelectLatched
  BY <1>1, <1>2, AdoptTyped DEF SelectLatched
<1>3. CASE SelectSlate
  BY <1>1, <1>3 DEF SelectSlate, Send, TypeOK, WorkerSteps, lifecycle, privacy,
                    slots, ids, events, calls, custody
<1>4. CASE SelectPending
  BY <1>1, <1>4, AdoptTyped DEF SelectPending
<1>5. CASE SelectCurrent
  BY <1>1, <1>5, AdoptTyped DEF SelectCurrent
<1>6. CASE SelectNothing
  BY <1>1, <1>6, AdoptTyped DEF SelectNothing
<1> QED
  BY <1>2, <1>3, <1>4, <1>5, <1>6 DEF Select

LEMMA WorkerTyped ==
  ASSUME TypeOK, WorkerStep
  PROVE  TypeOK'
<1> USE DEF TypeOK, lifecycle, privacy, slots, ids, events, sending, calls,
          custody, States, WorkerSteps
<1>1. CASE OpenOutput \/ OpenFails \/ RecordFailure
  <2>1. state' \in States /\ worker' \in WorkerSteps
    BY <1>1 DEF OpenOutput, OpenFails, RecordFailure
  <2> QED
    BY <1>1, <2>1 DEF OpenOutput, OpenFails, RecordFailure
<1>2. CASE FirstBase
  BY <1>2 DEF FirstBase, Slots
<1>3. CASE SeeStop \/ PaceOver
  <2>1. worker' \in WorkerSteps /\ UNCHANGED <<lifecycle, events, sending, calls, custody>>
    BY <1>3 DEF SeeStop, PaceOver
  <2> QED
    BY <1>3, <2>1 DEF SeeStop, PaceOver
<1>4. CASE TakeGateToSend
  BY <1>4 DEF TakeGateToSend, Actors
<1>5. CASE Select
  BY <1>5, SelectTyped
<1>6. CASE SinkAccepts
  <2>1. sink.base # None => sink.base.id \in Nat
    BY BoundsAreNaturals DEF Slots, Bases, BaseIds
  <2> QED
    BY <1>6, <2>1 DEF SinkAccepts
<1>7. CASE SendReturns \/ SinkRaises
  <2>1. Slate \in [base : Slots, private : BOOLEAN] /\ 0 \in Time
    BY BoundsAreNaturals DEF Slate, Slots, Time
  <2> QED
    BY <1>7, <2>1 DEF SendReturns, SinkRaises, LeaveGate
<1>8. CASE CloseOutput \/ CloseOutputRaises
  <2>1. state' \in States /\ error' \in BOOLEAN /\ worker' \in WorkerSteps
    BY <1>8 DEF CloseOutput, CloseOutputRaises
  <2> QED
    BY <1>8, <2>1 DEF CloseOutput, CloseOutputRaises
<1>9. CASE Cleanup
  <2>1. Discarded \subseteq BaseIds
    BY IdsOfSlot DEF Discarded
  <2> QED
    BY <1>9, <2>1 DEF Cleanup, Owe, Slots
<1>10. CASE Terminate
  BY <1>10 DEF Terminate
<1> QED
  BY <1>1, <1>2, <1>3, <1>4, <1>5, <1>6, <1>7, <1>8, <1>9, <1>10 DEF WorkerStep

LEMMA StepTyped ==
  ASSUME TypeOK, [Next]_vars
  PROVE  TypeOK'
<1>1. CASE ProcessorStep
  BY <1>1, ProcessorTyped
<1>2. CASE \E c \in Clients : ClientStep(c)
  BY <1>2, ClientTyped
<1>3. CASE \E a \in Actors, i \in BaseIds : NotifyReleased(a, i)
  BY <1>3, ReleaseTyped
<1>4. CASE WorkerStep
  BY <1>4, WorkerTyped
<1>5. CASE Tick
  BY <1>5, BoundsAreNaturals
     DEF Tick, Time, TypeOK, lifecycle, privacy, slots, ids, events, sending,
         calls, custody
<1>6. CASE UNCHANGED vars
  BY <1>6 DEF vars, TypeOK, lifecycle, privacy, slots, ids, events, sending,
              calls, custody
<1> QED
  BY <1>1, <1>2, <1>3, <1>4, <1>5, <1>6 DEF Next

\* Every reachable state is well typed, and a fence in progress still knows the
\* policy it installs.
THEOREM TypeCorrect == Spec => []TypeOK
BY InitTyped, StepTyped, PTL DEF Spec

-----------------------------------------------------------------------------
\* The fence barrier.  The send gate is held by whoever is past it, the sink is
\* empty outside a send, and the sink's base is the current one, admitted by
\* the policy in force and fresh when the gate was taken.

Selecting == worker \in {"select", "submitting", "pacing"}
GateDiscipline ==
  /\ Selecting <=> gate = Worker
  /\ \A c \in Clients : pc[c] = "fencing" <=> gate = c
EmptySink == ~OnWire => sink = Slate
WireInv ==
  /\ TypeOK /\ GateDiscipline /\ EmptySink
  /\ WireMatchesPolicy /\ WireProofFresh /\ WireHeld

LEMMA InitWire == Init => WireInv
BY InitTyped, ActorsDistinct
   DEF Init, WireInv, GateDiscipline, EmptySink, Selecting, OnWire, Slate,
       WireMatchesPolicy, WireProofFresh, WireHeld, Actors

\* What a step leaves of the wire when it touches neither the gate, the sink,
\* the current base nor the policy.
LEMMA WireUntouched ==
  ASSUME WireInv, TypeOK',
         UNCHANGED <<policy, current, gate, sending>>,
         Selecting' = Selecting, OnWire' = OnWire,
         \A c \in Clients : (pc'[c] = "fencing") = (pc[c] = "fencing")
  PROVE  WireInv'
BY DEF WireInv, GateDiscipline, EmptySink, WireMatchesPolicy, WireProofFresh,
       WireHeld, Fresh, Matches, sending

LEMMA ProcessorWire ==
  ASSUME WireInv, ProcessorStep, TypeOK'
  PROVE  WireInv'
<1>1. /\ UNCHANGED <<policy, current, gate, sending>>
      /\ UNCHANGED worker \/ (worker = "unstarted" /\ worker' = "opening")
  BY DEF ProcessorStep, Start, WaitOpened, ReadOutput, NoOutputRaised, Submit,
         RequestStop, CloseReadsStarted, CloseUnstarted, Join, Started, slots,
         privacy
<1>2. Selecting' = Selecting /\ OnWire' = OnWire
  BY <1>1 DEF Selecting, OnWire
<1>3. \A c \in Clients : (pc'[c] = "fencing") = (pc[c] = "fencing")
  BY DEF WireInv, TypeOK, Clients, ProcessorStep, Start, WaitOpened, ReadOutput,
         NoOutputRaised, Submit, RequestStop, CloseReadsStarted, CloseUnstarted,
         Join, Idle, Goto, calls
<1> QED
  BY <1>1, <1>2, <1>3, WireUntouched

LEMMA ClientWire ==
  ASSUME WireInv, NEW c \in Clients, ClientStep(c), TypeOK'
  PROVE  WireInv'
<1> USE DEF WireInv, TypeOK
<1>1. UNCHANGED <<worker, sending>> /\ Selecting' = Selecting /\ OnWire' = OnWire
  BY DEF ClientStep, CallFence, TakeGateToFence, FenceTimesOut, FenceToSlate,
         FenceFindsError, RequestStop, Selecting, OnWire
<1>2. CASE \/ \E p \in Policies : CallFence(c, p)
           \/ FenceTimesOut(c) \/ RequestStop(c, "idle")
  <2>1. UNCHANGED <<policy, current, gate>>
    BY <1>2 DEF CallFence, FenceTimesOut, RequestStop, privacy, slots
  <2>2. \A d \in Clients : (pc'[d] = "fencing") = (pc[d] = "fencing")
    BY <1>2 DEF CallFence, FenceTimesOut, RequestStop, Idle, Goto, FenceEnds
  <2> QED
    BY <1>1, <2>1, <2>2, WireUntouched
<1>3. CASE TakeGateToFence(c)
  <2>1. GateDiscipline'
    BY <1>1, <1>3, ActorsDistinct
       DEF TakeGateToFence, GateDiscipline, Goto, Actors, Clients
  <2> QED
    BY <1>1, <1>3, <2>1
       DEF TakeGateToFence, EmptySink, WireMatchesPolicy, WireProofFresh,
           WireHeld, Fresh, Matches, sending, privacy, slots
<1>4. CASE FenceToSlate(c) \/ FenceFindsError(c)
  <2>1. gate = c /\ ~Selecting /\ sink = Slate /\ sink' = Slate
    BY <1>1, <1>4, ActorsDistinct
       DEF FenceToSlate, FenceFindsError, GateDiscipline, EmptySink, Selecting,
           OnWire, sending
  <2>2. GateDiscipline'
    BY <1>1, <1>4, <2>1, ActorsDistinct
       DEF FenceToSlate, FenceFindsError, GateDiscipline, Goto, FenceEnds, Actors
  <2> QED
    BY <1>1, <2>1, <2>2
       DEF EmptySink, WireMatchesPolicy, WireProofFresh, WireHeld, Slate
<1> QED
  BY <1>2, <1>3, <1>4 DEF ClientStep

\* Whatever a select step hands to the sink is current, admitted and fresh.
LEMMA SelectWire ==
  ASSUME WireInv, Select, TypeOK'
  PROVE  WireInv'
<1>1. /\ worker = "select" /\ worker' = "submitting"
      /\ UNCHANGED <<policy, gate, gateTime, pc>>
  BY DEF Select, SelectLatched, SelectSlate, SelectPending, SelectCurrent,
         SelectNothing, Adopt, privacy, calls
<1>2. GateDiscipline' /\ EmptySink'
  BY <1>1 DEF WireInv, GateDiscipline, EmptySink, Selecting, OnWire
<1>3. \/ sink'.base = None
      \/ sink'.base = current' /\ Eligible(sink'.base, gateTime)
  BY DEF Select, SelectLatched, SelectSlate, SelectPending, SelectCurrent,
         SelectNothing, Adopt, Send, Latched, Adoptable
<1> QED
  BY <1>1, <1>2, <1>3
     DEF WireInv, WireMatchesPolicy, WireProofFresh, WireHeld, Eligible, Matches,
         Fresh

LEMMA WorkerWire ==
  ASSUME WireInv, WorkerStep, TypeOK'
  PROVE  WireInv'
<1> USE DEF WireInv
<1>1. CASE Select
  BY <1>1, SelectWire
<1>2. CASE SinkAccepts
  BY <1>2, WireUntouched
     DEF SinkAccepts, Selecting, OnWire, privacy, slots, calls
<1>3. CASE SendReturns \/ SinkRaises
  <2>1. /\ Selecting /\ ~Selecting' /\ ~OnWire' /\ sink' = Slate /\ gate' = None
        /\ pc' = pc
    BY <1>3 DEF SendReturns, SinkRaises, LeaveGate, Selecting, OnWire, calls
  <2> QED
    BY <2>1, ActorsDistinct
       DEF GateDiscipline, EmptySink, WireMatchesPolicy, WireProofFresh,
           WireHeld, Slate, Actors
<1>4. CASE TakeGateToSend
  <2>1. /\ ~OnWire /\ ~OnWire' /\ Selecting' /\ sink = Slate /\ sink' = Slate
        /\ gate = None /\ gate' = Worker /\ pc' = pc
    BY <1>4 DEF TakeGateToSend, Selecting, OnWire, EmptySink, calls
  <2> QED
    BY <2>1, ActorsDistinct
       DEF GateDiscipline, EmptySink, WireMatchesPolicy, WireProofFresh,
           WireHeld, Slate, Actors
<1>5. CASE \/ OpenOutput \/ OpenFails \/ RecordFailure \/ FirstBase \/ SeeStop
           \/ PaceOver \/ CloseOutput \/ CloseOutputRaises \/ Cleanup \/ Terminate
  <2>1. /\ ~Selecting /\ ~Selecting' /\ ~OnWire /\ ~OnWire'
        /\ UNCHANGED <<gate, sink, pc>>
    BY <1>5 DEF OpenOutput, OpenFails, RecordFailure, FirstBase, SeeStop,
                PaceOver, CloseOutput, CloseOutputRaises, Cleanup, Terminate,
                Selecting, OnWire, sending, calls
  <2> QED
    BY <2>1 DEF GateDiscipline, EmptySink, WireMatchesPolicy, WireProofFresh,
                WireHeld, Slate
<1> QED
  BY <1>1, <1>2, <1>3, <1>4, <1>5 DEF WorkerStep

LEMMA StepWire ==
  ASSUME WireInv, [Next]_vars
  PROVE  WireInv'
<1>1. TypeOK'
  BY StepTyped DEF WireInv
<1>2. CASE ProcessorStep
  BY <1>1, <1>2, ProcessorWire
<1>3. CASE \E c \in Clients : ClientStep(c)
  BY <1>1, <1>3, ClientWire
<1>4. CASE WorkerStep
  BY <1>1, <1>4, WorkerWire
<1>5. CASE \/ \E a \in Actors, i \in BaseIds : NotifyReleased(a, i)
           \/ Tick \/ UNCHANGED vars
  <2>1. UNCHANGED <<policy, current, gate, sending, worker, pc>>
    BY <1>5 DEF NotifyReleased, Tick, vars, privacy, slots, sending, calls
  <2> QED
    BY <1>1, <2>1, WireUntouched DEF Selecting, OnWire
<1> QED
  BY <1>2, <1>3, <1>4, <1>5 DEF Next

\* The barrier for every number of threads and policies: no frame of a policy
\* that a fence replaced is in the sink.
THEOREM FenceBarrier == Spec => []WireMatchesPolicy
<1>1. Spec => []WireInv
  BY InitWire, StepWire, PTL DEF Spec
<1> QED
  BY <1>1, PTL DEF WireInv

\* No renderer frame is in the sink past the expiry of its proof, as seen when
\* the gate was taken, and the base in the sink is still held.
THEOREM WireIsFreshAndHeld == Spec => [](WireProofFresh /\ WireHeld)
<1>1. Spec => []WireInv
  BY InitWire, StepWire, PTL DEF Spec
<1> QED
  BY <1>1, PTL DEF WireInv

-----------------------------------------------------------------------------
(* Custody: it is exact, and nothing is stranded.                           *)

Kept == Ids(pending) \cup Ids(current)

\* A thread about to remove bases has called back for all it removed before.
CalledBack ==
  /\ worker \notin {"submitting", "leaving"} => owed[Worker] = {}
  /\ \A c \in Clients : pc[c] \in {"wantGate", "fencing"} => owed[c] = {}

\* Every id the publisher knows was accepted, and none above lastSubmitted was.
KnownIds ==
  /\ Kept \subseteq accepted
  /\ \A a \in Actors : owed[a] \subseteq accepted
  /\ \A i \in BaseIds : releases[i] # 0 => i \in accepted
  /\ \A i \in accepted : i <= lastSubmitted

\* The worker takes its first base over an empty slot, and what cleanup emptied
\* stays empty because the lifecycle is terminal.
SlotsOfWorker ==
  /\ worker \in {"unstarted", "opening", "firstBase"} => current = None
  /\ worker \in {"leaving", "done"} =>
       pending = None /\ current = None /\ state \in {"stopped", "failed"}

CustodyInv == WireInv /\ CustodyExact /\ CalledBack /\ KnownIds /\ SlotsOfWorker

LEMMA InitCustody == Init => CustodyInv
<1> SUFFICES ASSUME Init PROVE CustodyInv
  OBVIOUS
<1>1. Kept = {} /\ \A i \in BaseIds : ~InSlot(i)
  BY DEF Init, Kept, Ids, InSlot, Holds
<1>2. CustodyExact
  BY <1>1 DEF Init, CustodyExact, Holds, Ids
<1>3. CalledBack /\ SlotsOfWorker
  BY DEF Init, CalledBack, SlotsOfWorker, Actors
<1>4. KnownIds
  BY <1>1 DEF Init, KnownIds
<1> QED
  BY <1>2, <1>3, <1>4, InitWire DEF CustodyInv

\* A step that leaves the slots, what is owed, the callbacks and the ids alone.
LEMMA CustodyUntouched ==
  ASSUME CustodyExact, KnownIds,
         UNCHANGED <<owed, releases, accepted, lastSubmitted, pending, current>>
  PROVE  CustodyExact' /\ KnownIds'
BY DEF CustodyExact, KnownIds, Kept, InSlot, Holds

\* Bases move between the slots and into the debts of one thread that had none.
LEMMA CustodyMoves ==
  ASSUME TypeOK, CustodyExact, KnownIds,
         NEW a \in Actors, NEW S \in SUBSET BaseIds,
         owed[a] = {}, owed' = [owed EXCEPT ![a] = S],
         UNCHANGED <<releases, accepted, lastSubmitted>>,
         Kept' \cup S = Kept, Kept' \cap S = {},
         \A i \in BaseIds : ~(Holds(pending, i)' /\ Holds(current, i)')
  PROVE  CustodyExact' /\ KnownIds'
<1>1. \A i \in BaseIds : InSlot(i) <=> i \in Kept
  BY DEF InSlot, Holds, Kept
<1>2. \A i \in BaseIds : InSlot(i)' <=> i \in Kept'
  BY DEF InSlot, Holds, Kept
<1>3. owed'[a] = S /\ \A b \in Actors \ {a} : owed'[b] = owed[b]
  BY DEF TypeOK
<1>4. KnownIds'
  BY <1>3 DEF KnownIds
<1>5. CustodyExact'
  <2> SUFFICES ASSUME NEW i \in BaseIds
               PROVE  /\ i \in accepted =>
                           InSlot(i)' \/ releases[i] = 1 \/ \E b \in Actors : i \in owed'[b]
                      /\ InSlot(i)' => releases[i] = 0 /\ \A b \in Actors : i \notin owed'[b]
                      /\ \A b \in Actors : i \in owed'[b] =>
                           releases[i] = 0 /\ \A d \in Actors \ {b} : i \notin owed'[d]
                      /\ releases[i] <= 1
    BY DEF CustodyExact
  <2>1. i \in Kept <=> i \in Kept' \/ i \in S
    OBVIOUS
  <2>2. i \in Kept => releases[i] = 0 /\ \A b \in Actors : i \notin owed[b]
    BY <1>1 DEF CustodyExact
  <2>3. i \in accepted => i \in Kept' \/ i \in S \/ releases[i] = 1
                            \/ \E b \in Actors \ {a} : i \in owed[b]
    BY <1>1 DEF CustodyExact
  <2>4. i \in accepted =>
          InSlot(i)' \/ releases[i] = 1 \/ \E b \in Actors : i \in owed'[b]
    BY <1>2, <1>3, <2>3
  <2>5. InSlot(i)' => releases[i] = 0 /\ \A b \in Actors : i \notin owed'[b]
    BY <1>2, <1>3, <2>1, <2>2
  <2>6. ASSUME NEW b \in Actors, i \in owed'[b]
        PROVE  releases[i] = 0 /\ \A d \in Actors \ {b} : i \notin owed'[d]
    <3>1. CASE b = a
      BY <1>3, <2>1, <2>2, <2>6, <3>1
    <3>2. CASE b # a
      <4>1. i \in owed[b]
        BY <1>3, <2>6, <3>2
      <4>2. releases[i] = 0 /\ \A d \in Actors \ {b} : i \notin owed[d]
        BY <4>1 DEF CustodyExact
      <4>3. i \notin S
        BY <2>1, <2>2, <4>1
      <4> QED
        BY <1>3, <4>2, <4>3
    <3> QED
      BY <3>1, <3>2
  <2> QED
    BY <2>4, <2>5, <2>6 DEF CustodyExact
<1> QED
  BY <1>4, <1>5

\* One callback: the debt becomes a release.
LEMMA ReleaseCustody ==
  ASSUME CustodyInv, NEW a \in Actors, NEW i \in BaseIds, NotifyReleased(a, i)
  PROVE  CustodyExact' /\ KnownIds' /\ CalledBack' /\ SlotsOfWorker'
<1> USE DEF CustodyInv
<1>1. /\ i \in owed[a]
      /\ UNCHANGED <<pending, current, accepted, lastSubmitted, state, worker, pc>>
      /\ owed' = [owed EXCEPT ![a] = owed[a] \ {i}]
      /\ releases' = [releases EXCEPT ![i] = @ + 1]
  BY DEF NotifyReleased, Owe, slots, ids, lifecycle, calls
<1>2. owed \in [Actors -> SUBSET BaseIds] /\ releases \in [BaseIds -> Nat]
  BY DEF WireInv, TypeOK
<1>3. \A j \in BaseIds : InSlot(j)' = InSlot(j)
  BY <1>1 DEF InSlot, Holds
<1>4. releases[i] = 0 /\ ~InSlot(i) /\ \A b \in Actors \ {a} : i \notin owed[b]
  BY <1>1 DEF CustodyExact
<1>5. /\ \A b \in Actors \ {a} : owed'[b] = owed[b]
      /\ owed'[a] = owed[a] \ {i}
      /\ \A j \in BaseIds \ {i} : releases'[j] = releases[j]
      /\ releases'[i] = 1
  BY <1>1, <1>2, <1>4
<1>6. CustodyExact'
  <2> SUFFICES ASSUME NEW j \in BaseIds
               PROVE  /\ j \in accepted =>
                           InSlot(j) \/ releases'[j] = 1 \/ \E b \in Actors : j \in owed'[b]
                      /\ InSlot(j) => releases'[j] = 0 /\ \A b \in Actors : j \notin owed'[b]
                      /\ \A b \in Actors : j \in owed'[b] =>
                           releases'[j] = 0 /\ \A d \in Actors \ {b} : j \notin owed'[d]
                      /\ releases'[j] <= 1
    BY <1>1, <1>3 DEF CustodyExact, Holds
  <2>1. CASE j = i
    BY <1>4, <1>5, <2>1
  <2>2. CASE j # i
    <3>1. releases'[j] = releases[j] /\ \A b \in Actors : j \in owed'[b] <=> j \in owed[b]
      BY <1>5, <2>2
    <3> QED
      BY <3>1 DEF CustodyExact
  <2> QED
    BY <2>1, <2>2
<1>7. KnownIds'
  BY <1>1, <1>5 DEF KnownIds, Kept
<1>8. CalledBack' /\ SlotsOfWorker'
  <2>1. \A b \in Actors : owed[b] = {} => owed'[b] = {}
    BY <1>5
  <2> QED
    BY <1>1, <2>1 DEF CalledBack, SlotsOfWorker, Actors
<1> QED
  BY <1>6, <1>7, <1>8

\* A base that submit accepts is newer than every id the publisher knows.
LEMMA SubmitCustody ==
  ASSUME CustodyInv, NEW b \in Bases, Submit(Processor, b)
  PROVE  CustodyExact' /\ KnownIds' /\ CalledBack' /\ SlotsOfWorker'
<1> USE DEF CustodyInv
<1>1. /\ owed[Processor] = {} /\ pc[Processor] = "idle" /\ Accepting
      /\ b.id > lastSubmitted /\ b.id \in BaseIds
      /\ pending' = b /\ lastSubmitted' = b.id /\ accepted' = accepted \cup {b.id}
      /\ owed' = [owed EXCEPT ![Processor] = Ids(pending)]
      /\ UNCHANGED <<current, releases, state, worker, pc>>
  BY DEF Submit, Owe, Idle, Increases, Bases, lifecycle, calls
<1>2. owed \in [Actors -> SUBSET BaseIds] /\ Processor \in Actors /\ Processor # Worker
  BY ActorsDistinct DEF WireInv, TypeOK, Actors, Clients
<1>3. owed'[Processor] = Ids(pending) /\ \A a \in Actors \ {Processor} : owed'[a] = owed[a]
  BY <1>1, <1>2
<1>4. b.id \in Nat /\ lastSubmitted \in Nat /\ Ids(b) = {b.id}
  BY <1>1, BoundsAreNaturals, BasesAreSome DEF BaseIds, WireInv, TypeOK, Ids
<1>5. b.id \notin accepted
  BY <1>1, <1>4 DEF KnownIds
<1>6. /\ b.id \notin Ids(pending) /\ b.id \notin Ids(current) /\ releases[b.id] = 0
      /\ \A a \in Actors : b.id \notin owed[a]
  BY <1>1, <1>5 DEF KnownIds, Kept
<1>7. CustodyExact'
  <2> SUFFICES ASSUME NEW i \in BaseIds
               PROVE  /\ i \in accepted' => i \in Ids(b) \cup Ids(current)
                           \/ releases[i] = 1 \/ \E a \in Actors : i \in owed'[a]
                      /\ ~(i \in Ids(b) /\ i \in Ids(current))
                      /\ i \in Ids(b) \cup Ids(current) =>
                           releases[i] = 0 /\ \A a \in Actors : i \notin owed'[a]
                      /\ \A a \in Actors : i \in owed'[a] =>
                           releases[i] = 0 /\ \A d \in Actors \ {a} : i \notin owed'[d]
                      /\ releases[i] <= 1
    BY <1>1 DEF CustodyExact, InSlot, Holds
  <2>1. CASE i = b.id
    BY <1>2, <1>3, <1>4, <1>6, <2>1
  <2>2. CASE i # b.id
    <3>1. i \in accepted' <=> i \in accepted
      BY <1>1, <2>2
    <3>2. i \notin Ids(b)
      BY <1>4, <2>2
    <3>3. i \in Ids(pending) => releases[i] = 0 /\ i \notin Ids(current)
                                  /\ \A a \in Actors : i \notin owed[a]
      BY DEF CustodyExact, InSlot, Holds
    <3>4. i \in accepted => i \in Ids(current)
            \/ releases[i] = 1 \/ \E a \in Actors : i \in owed'[a]
      <4>1. CASE i \in Ids(pending)
        BY <1>2, <1>3, <4>1
      <4>2. CASE i \notin Ids(pending)
        BY <1>1, <1>3, <4>2 DEF CustodyExact, InSlot, Holds
      <4> QED
        BY <4>1, <4>2
    <3>5. i \in Ids(current) => releases[i] = 0 /\ \A a \in Actors : i \notin owed'[a]
      BY <1>3, <3>3 DEF CustodyExact, InSlot, Holds
    <3>6. ASSUME NEW a \in Actors, i \in owed'[a]
          PROVE  releases[i] = 0 /\ \A d \in Actors \ {a} : i \notin owed'[d]
      <4>1. CASE i \in Ids(pending)
        BY <1>3, <3>3, <3>6, <4>1
      <4>2. CASE i \notin Ids(pending)
        BY <1>3, <3>6, <4>2 DEF CustodyExact
      <4> QED
        BY <4>1, <4>2
    <3> QED
      BY <3>1, <3>2, <3>4, <3>5, <3>6 DEF CustodyExact
  <2> QED
    BY <2>1, <2>2
<1>8. KnownIds'
  <2>1. Ids(b) \cup Ids(current) \subseteq accepted'
    BY <1>1, <1>4 DEF KnownIds, Kept
  <2>2. \A i \in accepted' : i <= lastSubmitted'
    <3>1. accepted \subseteq BaseIds
      BY DEF WireInv, TypeOK
    <3> QED
      BY <1>1, <1>4, <3>1 DEF KnownIds, BaseIds
  <2>3. \A a \in Actors : owed'[a] \subseteq accepted'
    BY <1>1, <1>3 DEF KnownIds, Kept
  <2> QED
    BY <1>1, <2>1, <2>2, <2>3 DEF KnownIds, Kept
<1>9. CalledBack'
  BY <1>1, <1>2, <1>3 DEF CalledBack, Actors
<1>10. SlotsOfWorker'
  BY <1>1 DEF SlotsOfWorker, Accepting
<1> QED
  BY <1>7, <1>8, <1>9, <1>10

LEMMA SlotsDisjoint ==
  ASSUME TypeOK, CustodyExact
  PROVE  /\ Ids(pending) \subseteq BaseIds /\ Ids(current) \subseteq BaseIds
         /\ Ids(pending) \cap Ids(current) = {} /\ Ids(None) = {} /\ Discarded = Kept
<1>1. Ids(pending) \subseteq BaseIds /\ Ids(current) \subseteq BaseIds
  BY IdsOfSlot DEF TypeOK
<1> QED
  BY <1>1 DEF CustodyExact, Holds, Ids, Discarded, Kept

LEMMA StopCustody ==
  ASSUME CustodyInv, NEW c \in Clients, NEW next \in {"closing", "idle"}, RequestStop(c, next)
  PROVE  CustodyExact' /\ KnownIds' /\ CalledBack' /\ SlotsOfWorker'
<1> USE DEF CustodyInv
<1>1. /\ owed[c] = {} /\ owed' = [owed EXCEPT ![c] = Ids(pending)]
      /\ pending' = None /\ pc' = [pc EXCEPT ![c] = next]
      /\ state' = IF state \in {"stopped", "failed"} THEN state ELSE "stopping"
      /\ UNCHANGED <<current, releases, accepted, lastSubmitted, worker>>
  BY DEF RequestStop, Idle, Owe, Goto, ids
<1>2. TypeOK /\ c \in Actors /\ c # Worker
  BY ActorsDistinct DEF WireInv, Actors
<1>3. Kept' = Ids(current)
  BY <1>1 DEF Kept, Ids
<1>4. CustodyExact' /\ KnownIds'
  <2>1. Kept' \cup Ids(pending) = Kept /\ Kept' \cap Ids(pending) = {}
    BY <1>2, <1>3, SlotsDisjoint DEF Kept
  <2>2. \A i \in BaseIds : ~(Holds(pending, i)' /\ Holds(current, i)')
    BY <1>1 DEF Holds, Ids
  <2>3. Ids(pending) \in SUBSET BaseIds
    BY <1>2, SlotsDisjoint
  <2> QED
    BY <1>1, <1>2, <2>1, <2>2, <2>3, CustodyMoves
<1>5. CalledBack'
  BY <1>1, <1>2 DEF TypeOK, CalledBack, Actors
<1>6. SlotsOfWorker'
  BY <1>1 DEF SlotsOfWorker
<1> QED
  BY <1>4, <1>5, <1>6

LEMMA ProcessorCustody ==
  ASSUME CustodyInv, ProcessorStep
  PROVE  CustodyExact' /\ KnownIds' /\ CalledBack' /\ SlotsOfWorker'
<1>1. CASE \E b \in Bases : Submit(Processor, b)
  BY <1>1, SubmitCustody
<1>2. CASE RequestStop(Processor, "closing")
  BY <1>2, StopCustody DEF Clients
<1>3. CASE \/ Start(Processor) \/ WaitOpened(Processor) \/ ReadOutput(Processor)
           \/ NoOutputRaised(Processor) \/ CloseReadsStarted(Processor)
           \/ CloseUnstarted(Processor) \/ Join(Processor)
  <2>1. /\ UNCHANGED <<owed, releases, accepted, lastSubmitted, pending, current>>
        /\ UNCHANGED worker \/ (worker = "unstarted" /\ worker' = "opening")
        /\ state' \in {state, "stopped"}
    BY <1>3 DEF Start, WaitOpened, ReadOutput, NoOutputRaised, CloseReadsStarted,
                CloseUnstarted, Join, Started, slots, ids, custody, lifecycle
  <2>2. \A c \in Clients : pc'[c] \in {"wantGate", "fencing"} => pc'[c] = pc[c]
    BY <1>3 DEF CustodyInv, WireInv, TypeOK, Start, WaitOpened, ReadOutput, NoOutputRaised,
                CloseReadsStarted, CloseUnstarted, Join, Goto
  <2>3. CustodyExact' /\ KnownIds'
    BY <2>1, CustodyUntouched DEF CustodyInv
  <2> QED
    BY <2>1, <2>2, <2>3 DEF CustodyInv, CalledBack, SlotsOfWorker
<1> QED
  BY <1>1, <1>2, <1>3 DEF ProcessorStep

\* A fence takes out everything the publisher holds, and owes it alone.
LEMMA FenceCustody ==
  ASSUME CustodyInv, NEW c \in Clients, FenceToSlate(c)
  PROVE  CustodyExact' /\ KnownIds' /\ CalledBack' /\ SlotsOfWorker'
<1> USE DEF CustodyInv
<1>1. /\ pc[c] = "fencing" /\ owed' = [owed EXCEPT ![c] = Discarded]
      /\ pending' = None /\ current' = None /\ pc' = [pc EXCEPT ![c] = "idle"]
      /\ UNCHANGED <<releases, accepted, lastSubmitted, worker, state>>
  BY DEF FenceToSlate, Owe, FenceEnds, Goto, ids, lifecycle
<1>2. TypeOK /\ c \in Actors /\ c # Worker /\ owed[c] = {}
  BY <1>1, ActorsDistinct DEF WireInv, Actors, CalledBack
<1>3. Kept' = {} /\ Discarded = Kept /\ Discarded \subseteq BaseIds
  BY <1>1, <1>2, SlotsDisjoint DEF Kept, Ids
<1>4. \A i \in BaseIds : ~(Holds(pending, i)' /\ Holds(current, i)')
  BY <1>1 DEF Holds, Ids
<1>5. CustodyExact' /\ KnownIds'
  BY <1>1, <1>2, <1>3, <1>4, CustodyMoves
<1>6. CalledBack' /\ SlotsOfWorker'
  BY <1>1, <1>2 DEF TypeOK, CalledBack, Actors, SlotsOfWorker
<1> QED
  BY <1>5, <1>6

LEMMA ClientCustody ==
  ASSUME CustodyInv, NEW c \in Clients, ClientStep(c)
  PROVE  CustodyExact' /\ KnownIds' /\ CalledBack' /\ SlotsOfWorker'
<1>1. CASE FenceToSlate(c)
  BY <1>1, FenceCustody
<1>2. CASE RequestStop(c, "idle")
  BY <1>2, StopCustody
<1>3. CASE \/ \E p \in Policies : CallFence(c, p)
           \/ TakeGateToFence(c) \/ FenceTimesOut(c) \/ FenceFindsError(c)
  <2>1. UNCHANGED <<owed, releases, accepted, lastSubmitted, pending, current, worker, state>>
    BY <1>3 DEF CallFence, TakeGateToFence, FenceTimesOut, FenceFindsError, slots, ids,
                custody, lifecycle
  <2>2. \A d \in Clients : pc'[d] \in {"wantGate", "fencing"} =>
          pc[d] \in {"wantGate", "fencing"} \/ owed[d] = {}
    BY <1>3 DEF CustodyInv, WireInv, TypeOK, CallFence, Idle, TakeGateToFence, FenceTimesOut,
                FenceFindsError, FenceEnds, Goto
  <2>3. CustodyExact' /\ KnownIds'
    BY <2>1, CustodyUntouched DEF CustodyInv
  <2> QED
    BY <2>1, <2>2, <2>3 DEF CustodyInv, CalledBack, SlotsOfWorker
<1> QED
  BY <1>1, <1>2, <1>3 DEF ClientStep

\* The worker keeps b and owes the rest of what the publisher held.
LEMMA AdoptCustody ==
  ASSUME CustodyInv, NEW b, NEW dropped, worker = "select", Adopt(b, dropped),
         pending' = None, Ids(b) \cup dropped = Kept
  PROVE  CustodyExact' /\ KnownIds' /\ CalledBack' /\ SlotsOfWorker'
<1> USE DEF CustodyInv
<1>1. /\ current' = b /\ owed' = [owed EXCEPT ![Worker] = dropped \ Ids(b)]
      /\ worker' = "submitting"
      /\ UNCHANGED <<releases, accepted, lastSubmitted, pc>>
  BY DEF Adopt, Owe, ids, calls
<1>2. TypeOK /\ Worker \in Actors /\ owed[Worker] = {} /\ Worker \notin Clients
  BY ActorsDistinct DEF WireInv, Actors, CalledBack
<1>3. Kept' = Ids(b)
  BY <1>1 DEF Kept, Ids
<1>4. (dropped \ Ids(b)) \in SUBSET BaseIds
  BY <1>2, SlotsDisjoint DEF Kept
<1>5. \A i \in BaseIds : ~(Holds(pending, i)' /\ Holds(current, i)')
  BY DEF Holds, Ids
<1>6. CustodyExact' /\ KnownIds'
  <2>1. Kept' \cup (dropped \ Ids(b)) = Kept /\ Kept' \cap (dropped \ Ids(b)) = {}
    BY <1>3
  <2> QED
    BY <1>1, <1>2, <1>4, <1>5, <2>1, CustodyMoves
<1>7. CalledBack' /\ SlotsOfWorker'
  BY <1>1, <1>2 DEF TypeOK, CalledBack, SlotsOfWorker, Actors
<1> QED
  BY <1>6, <1>7

LEMMA SelectCustody ==
  ASSUME CustodyInv, Select
  PROVE  CustodyExact' /\ KnownIds' /\ CalledBack' /\ SlotsOfWorker'
<1>1. Ids(None) = {} /\ Discarded = Kept
  BY SlotsDisjoint DEF CustodyInv, WireInv
<1>2. CASE SelectLatched
  <2>1. Ids(Newest) \cup Ids(current) = Kept
    BY <1>1 DEF Newest, Kept
  <2> QED
    BY <1>2, <2>1, AdoptCustody DEF SelectLatched
<1>3. CASE SelectPending
  <2>1. Ids(pending) \cup Ids(current) = Kept
    BY DEF Kept
  <2> QED
    BY <1>3, <2>1, AdoptCustody DEF SelectPending
<1>4. CASE SelectCurrent
  <2>1. Ids(current) \cup Ids(pending) = Kept
    BY DEF Kept
  <2> QED
    BY <1>4, <2>1, AdoptCustody DEF SelectCurrent
<1>5. CASE SelectNothing
  BY <1>1, <1>5, AdoptCustody DEF SelectNothing
<1>6. CASE SelectSlate
  <2>1. /\ worker = "select" /\ worker' = "submitting"
        /\ UNCHANGED <<owed, releases, accepted, lastSubmitted, pending, current, pc>>
    BY <1>6 DEF SelectSlate, slots, ids, custody, calls
  <2>2. CustodyExact' /\ KnownIds'
    BY <2>1, CustodyUntouched DEF CustodyInv
  <2> QED
    BY <2>1, <2>2 DEF CustodyInv, CalledBack, SlotsOfWorker
<1> QED
  BY <1>2, <1>3, <1>4, <1>5, <1>6 DEF Select

LEMMA WorkerCustody ==
  ASSUME CustodyInv, WorkerStep
  PROVE  CustodyExact' /\ KnownIds' /\ CalledBack' /\ SlotsOfWorker'
<1> USE DEF CustodyInv
<1>1. TypeOK /\ Worker \in Actors /\ Worker \notin Clients
  BY ActorsDistinct DEF WireInv, Actors
<1>2. CASE Select
  BY <1>2, SelectCustody
<1>3. CASE FirstBase
  <2>1. /\ current' = pending /\ pending' = None /\ current = None /\ owed[Worker] = {}
        /\ worker' = "gate" /\ UNCHANGED <<owed, releases, accepted, lastSubmitted, pc>>
    BY <1>3 DEF FirstBase, SlotsOfWorker, CalledBack, ids, calls, custody
  <2>2. owed' = [owed EXCEPT ![Worker] = {}] /\ {} \in SUBSET BaseIds
    BY <1>1, <2>1 DEF TypeOK
  <2>3. Kept' = Kept /\ \A i \in BaseIds : ~(Holds(pending, i)' /\ Holds(current, i)')
    BY <2>1 DEF Kept, Ids, Holds
  <2>4. CustodyExact' /\ KnownIds'
    <3>1. Kept' \cup {} = Kept /\ Kept' \cap {} = {}
      BY <2>3
    <3> QED
      BY <1>1, <2>1, <2>2, <2>3, <3>1, CustodyMoves
  <2> QED
    BY <2>1, <2>4 DEF CalledBack, SlotsOfWorker
<1>4. CASE Cleanup
  <2>1. /\ owed' = [owed EXCEPT ![Worker] = Discarded] /\ owed[Worker] = {}
        /\ pending' = None /\ current' = None /\ state' \in {"stopped", "failed"}
        /\ worker' = "leaving" /\ UNCHANGED <<releases, accepted, lastSubmitted, pc>>
    BY <1>4 DEF Cleanup, Owe, CalledBack, ids, calls
  <2>2. Kept' = {} /\ Discarded = Kept /\ Discarded \in SUBSET BaseIds
        /\ \A i \in BaseIds : ~(Holds(pending, i)' /\ Holds(current, i)')
    BY <1>1, <2>1, SlotsDisjoint DEF Kept, Ids, Holds
  <2>3. CustodyExact' /\ KnownIds'
    <3>1. Kept' \cup Discarded = Kept /\ Kept' \cap Discarded = {}
      BY <2>2
    <3> QED
      BY <1>1, <2>1, <2>2, <3>1, CustodyMoves
  <2> QED
    BY <1>1, <2>1, <2>3 DEF TypeOK, CalledBack, SlotsOfWorker, Actors
<1>5. CASE \/ OpenOutput \/ OpenFails \/ RecordFailure \/ SeeStop \/ PaceOver
           \/ TakeGateToSend \/ SinkAccepts \/ SendReturns \/ SinkRaises
           \/ CloseOutput \/ CloseOutputRaises \/ Terminate
  <2>1. UNCHANGED <<owed, releases, accepted, lastSubmitted, pending, current, pc>>
    BY <1>5 DEF OpenOutput, OpenFails, RecordFailure, SeeStop, PaceOver, TakeGateToSend,
                SinkAccepts, SendReturns, SinkRaises, CloseOutput, CloseOutputRaises,
                Terminate, slots, ids, custody, calls
  <2>2. /\ worker' \notin {"submitting", "leaving"}
        /\ worker' \in {"unstarted", "opening", "firstBase"} => worker = "opening"
        /\ worker \in {"submitting", "leaving"} => owed[Worker] = {}
        /\ worker' = "done" => worker = "leaving" /\ state' = state
    BY <1>5 DEF OpenOutput, OpenFails, RecordFailure, SeeStop, PaceOver, TakeGateToSend,
                SinkAccepts, SendReturns, SinkRaises, CloseOutput, CloseOutputRaises,
                Terminate, lifecycle
  <2>3. CustodyExact' /\ KnownIds'
    BY <2>1, CustodyUntouched
  <2> QED
    BY <2>1, <2>2, <2>3 DEF CalledBack, SlotsOfWorker
<1> QED
  BY <1>2, <1>3, <1>4, <1>5 DEF WorkerStep

LEMMA StepCustody ==
  ASSUME CustodyInv, [Next]_vars
  PROVE  CustodyInv'
<1>1. WireInv'
  BY StepWire DEF CustodyInv
<1>2. CASE ProcessorStep
  BY <1>1, <1>2, ProcessorCustody DEF CustodyInv
<1>3. CASE \E c \in Clients : ClientStep(c)
  BY <1>1, <1>3, ClientCustody DEF CustodyInv
<1>4. CASE \E a \in Actors, i \in BaseIds : NotifyReleased(a, i)
  BY <1>1, <1>4, ReleaseCustody DEF CustodyInv
<1>5. CASE WorkerStep
  BY <1>1, <1>5, WorkerCustody DEF CustodyInv
<1>6. CASE Tick \/ UNCHANGED vars
  <2>1. UNCHANGED <<owed, releases, accepted, lastSubmitted, pending, current, worker, pc, state>>
    BY <1>6 DEF Tick, vars, slots, ids, custody, calls, lifecycle
  <2>2. CustodyExact' /\ KnownIds'
    BY <2>1, CustodyUntouched DEF CustodyInv
  <2> QED
    BY <1>1, <2>1, <2>2 DEF CustodyInv, CalledBack, SlotsOfWorker
<1> QED
  BY <1>2, <1>3, <1>4, <1>5, <1>6 DEF Next

LEMMA CustodyAlways == Spec => []CustodyInv
BY InitCustody, StepCustody, PTL DEF Spec

\* Every accepted base is in one slot, owed by one thread or released once, with
\* any number of threads (submit, fence_to_slate, _select_locked, _run).
THEOREM NoBaseLostOrReleasedTwice == Spec => []CustodyExact
<1>1. CustodyInv => CustodyExact
  BY DEF CustodyInv
<1> QED
  BY CustodyAlways, <1>1, PTL

\* After the worker's finally clause the publisher holds nothing again.
THEOREM CleanupIsFinal == Spec => []NothingStranded
<1>1. CustodyInv => NothingStranded
  BY DEF CustodyInv, SlotsOfWorker, NothingStranded
<1> QED
  BY CustodyAlways, <1>1, PTL

-----------------------------------------------------------------------------
(* The refinements.  Each action of the publisher is one of BaseHandoff and  *)
(* one of PublicationGate, or leaves what they show alone.                   *)

LEMMA IdInSlot == \A b \in Slots : Handoff!Present(IdIn(b)) = Ids(b)
BY BasesAreSome DEF Slots, Bases, IdIn, Ids, Handoff!Present

LEMMA InitHandoffs == Init => Handoff!InitHandoff
BY DEF Init, Slate, Handoff!InitHandoff, Handoff!Threads, IdIn, Actors, Clients

\* What the invariant says of a state, in the terms of BaseHandoff.
LEMMA HandoffState ==
  ASSUME CustodyInv
  PROVE  /\ Handoff!Present(IdIn(pending)) = Ids(pending)
         /\ Handoff!Present(IdIn(current)) = Ids(current)
         /\ Handoff!Kept = Kept /\ Discarded = Kept
         /\ ~OnWire => IdIn(sink.base) = None
         /\ (IdIn(current) = None <=> current = None) /\ (IdIn(pending) = None <=> pending = None)
<1>1. pending \in Slots /\ current \in Slots
  BY DEF CustodyInv, WireInv, TypeOK
<1>2. ~OnWire => IdIn(sink.base) = None
  BY DEF CustodyInv, WireInv, EmptySink, Slate, IdIn
<1>3. \A b \in Slots : IdIn(b) = None <=> b = None
  BY BasesAreSome DEF IdIn, Slots, Bases
<1> QED
  BY <1>1, <1>2, <1>3, IdInSlot DEF Kept, Handoff!Kept, Discarded

LEMMA StopHandsOff ==
  ASSUME CustodyInv, NEW c \in Clients, NEW next, RequestStop(c, next)
  PROVE  Handoff!NextHandoff
<1>1. /\ stop' = TRUE /\ pending' = None /\ owed[c] = {}
      /\ owed' = [owed EXCEPT ![c] = Ids(pending)]
      /\ UNCHANGED <<current, sink, lastSubmitted>>
  BY DEF RequestStop, Idle, Owe, sending, ids
<1>2. Handoff!Stop(c)
  BY <1>1, HandoffState DEF Handoff!Stop, Handoff!TakeOut, IdIn
<1> QED
  BY <1>2 DEF Handoff!NextHandoff, Handoff!Threads, Clients

LEMMA ProcessorHandsOff ==
  ASSUME CustodyInv, ProcessorStep
  PROVE  Handoff!NextHandoff \/ UNCHANGED Handoff!handoff
<1>1. ASSUME NEW b \in Bases, Submit(Processor, b)
      PROVE  Handoff!NextHandoff
  <2>1. /\ ~stop /\ b.id > lastSubmitted /\ owed[Processor] = {}
        /\ pending' = b /\ lastSubmitted' = b.id
        /\ owed' = [owed EXCEPT ![Processor] = Ids(pending)]
        /\ UNCHANGED <<current, sink, stop>>
    BY <1>1 DEF Submit, Accepting, Increases, Idle, Owe, sending, lifecycle
  <2>2. IdIn(b) = b.id /\ b.id \in BaseIds
    BY BasesAreSome DEF IdIn, Bases
  <2>3. Handoff!Submit(b.id)
    BY <2>1, <2>2, HandoffState DEF Handoff!Submit, Handoff!TakeOut, IdIn
  <2> QED
    BY <2>2, <2>3 DEF Handoff!NextHandoff, BaseIds, Handoff!BaseIds
<1>2. CASE RequestStop(Processor, "closing")
  BY <1>2, StopHandsOff DEF Clients
<1>3. CASE \/ Start(Processor) \/ WaitOpened(Processor) \/ ReadOutput(Processor)
           \/ NoOutputRaised(Processor) \/ CloseReadsStarted(Processor)
           \/ CloseUnstarted(Processor) \/ Join(Processor)
  BY <1>3 DEF Start, WaitOpened, ReadOutput, NoOutputRaised, CloseReadsStarted,
              CloseUnstarted, Join, slots, ids, custody, lifecycle, sending, Handoff!handoff
<1> QED
  BY <1>1, <1>2, <1>3 DEF ProcessorStep

LEMMA ClientHandsOff ==
  ASSUME CustodyInv, NEW c \in Clients, ClientStep(c)
  PROVE  Handoff!NextHandoff \/ UNCHANGED Handoff!handoff
<1>1. CASE FenceToSlate(c)
  <2>1. ~OnWire /\ owed[c] = {}
    BY <1>1, ActorsDistinct
       DEF FenceToSlate, CustodyInv, WireInv, GateDiscipline, Selecting, OnWire, CalledBack,
           Actors
  <2>2. /\ pending' = None /\ current' = None /\ owed' = [owed EXCEPT ![c] = Discarded]
        /\ UNCHANGED <<sink, lastSubmitted, stop>>
    BY <1>1 DEF FenceToSlate, Owe, sending, ids, lifecycle
  <2>3. Handoff!DropAll(c)
    BY <2>1, <2>2, HandoffState DEF Handoff!DropAll, Handoff!TakeOut, IdIn
  <2> QED
    BY <2>3 DEF Handoff!NextHandoff, Handoff!Threads, Clients
<1>2. CASE RequestStop(c, "idle")
  BY <1>2, StopHandsOff
<1>3. CASE \/ \E p \in Policies : CallFence(c, p)
           \/ TakeGateToFence(c) \/ FenceTimesOut(c) \/ FenceFindsError(c)
  BY <1>3 DEF CallFence, TakeGateToFence, FenceTimesOut, FenceFindsError, slots, ids,
              custody, lifecycle, sending, Handoff!handoff
<1> QED
  BY <1>1, <1>2, <1>3 DEF ClientStep

\* A selection adopts the pending base, repeats the current one or drops both.
LEMMA SelectHandsOff ==
  ASSUME CustodyInv, Select
  PROVE  Handoff!NextHandoff \/ UNCHANGED Handoff!handoff
<1>1. /\ worker = "select" /\ IdIn(sink.base) = None /\ owed[Worker] = {}
      /\ Ids(None) = {} /\ Ids(pending) \cap Ids(current) = {}
  BY HandoffState, SlotsDisjoint
     DEF Select, SelectLatched, SelectSlate, SelectPending, SelectCurrent, SelectNothing,
         OnWire, CustodyInv, WireInv, CalledBack
<1>2. ASSUME pending # None, pending' = None, Adopt(pending, Ids(current))
      PROVE  Handoff!AdoptPending
  <2>1. Ids(current) \ Ids(pending) = Ids(current)
    BY <1>1
  <2> QED
    BY <1>1, <1>2, <2>1, HandoffState
       DEF Adopt, Send, Owe, ids, lifecycle, Handoff!AdoptPending, Handoff!TakeOut, IdIn
<1>3. ASSUME NEW S, current # None, pending' = None, Adopt(current, S),
             S \ Ids(current) = Ids(pending)
      PROVE  Handoff!RepeatCurrent
  BY <1>1, <1>3, HandoffState
     DEF Adopt, Send, Owe, ids, lifecycle, Handoff!RepeatCurrent, Handoff!TakeOut, IdIn
<1>4. CASE SelectLatched
  <2>1. CASE pending # None
    BY <1>2, <1>4, <2>1 DEF SelectLatched, Latched, Newest, Handoff!NextHandoff
  <2>2. CASE pending = None
    <3>1. Ids(current) \ Ids(current) = Ids(pending) /\ current # None
      BY <1>1, <1>4, <2>2 DEF SelectLatched, Latched, Newest
    <3> QED
      BY <1>3, <1>4, <2>2, <3>1 DEF SelectLatched, Newest, Handoff!NextHandoff
  <2> QED
    BY <2>1, <2>2
<1>5. CASE SelectPending
  BY <1>2, <1>5 DEF SelectPending, Adoptable, Handoff!NextHandoff
<1>6. CASE SelectCurrent
  <2>1. Ids(pending) \ Ids(current) = Ids(pending)
    BY <1>1
  <2> QED
    BY <1>3, <1>6, <2>1 DEF SelectCurrent, Adoptable, Handoff!NextHandoff
<1>7. CASE SelectNothing
  <2>1. Handoff!DropAll(Worker)
    BY <1>1, <1>7, HandoffState
       DEF SelectNothing, Adopt, Send, Owe, ids, lifecycle, Handoff!DropAll, Handoff!TakeOut,
           IdIn
  <2> QED
    BY <2>1 DEF Handoff!NextHandoff, Handoff!Threads
<1>8. CASE SelectSlate
  BY <1>1, <1>8
     DEF SelectSlate, Send, slots, ids, custody, lifecycle, IdIn, Handoff!handoff
<1> QED
  BY <1>4, <1>5, <1>6, <1>7, <1>8 DEF Select

LEMMA WorkerHandsOff ==
  ASSUME CustodyInv, WorkerStep
  PROVE  Handoff!NextHandoff \/ UNCHANGED Handoff!handoff
<1>1. CASE Select
  BY <1>1, SelectHandsOff
<1>2. CASE FirstBase
  <2>1. current = None /\ IdIn(sink.base) = None
    BY <1>2, HandoffState DEF FirstBase, OnWire, CustodyInv, SlotsOfWorker
  <2>2. Handoff!FirstBase
    BY <1>2, <2>1, HandoffState
       DEF FirstBase, ids, sending, lifecycle, custody, IdIn, Handoff!FirstBase
  <2> QED
    BY <2>2 DEF Handoff!NextHandoff
<1>3. CASE Cleanup
  <2>1. owed[Worker] = {} /\ IdIn(sink.base) = None
    BY <1>3, HandoffState DEF Cleanup, OnWire, CustodyInv, CalledBack
  <2>2. Handoff!DropAll(Worker)
    BY <1>3, <2>1, HandoffState
       DEF Cleanup, Owe, ids, sending, Handoff!DropAll, Handoff!TakeOut, IdIn
  <2> QED
    BY <2>2 DEF Handoff!NextHandoff, Handoff!Threads
<1>4. CASE SendReturns \/ SinkRaises
  <2>1. owed[Worker] = {}
    BY <1>4 DEF SendReturns, SinkRaises, CustodyInv, CalledBack
  <2>2. Handoff!SendReturns
    BY <1>4, <2>1 DEF SendReturns, SinkRaises, LeaveGate, Slate, slots, ids, lifecycle,
                      custody, IdIn, Handoff!SendReturns
  <2> QED
    BY <2>2 DEF Handoff!NextHandoff
<1>5. CASE RecordFailure
  <2>1. Handoff!Stop(Worker)
    BY <1>5 DEF RecordFailure, slots, ids, sending, custody, Handoff!Stop
  <2> QED
    BY <2>1 DEF Handoff!NextHandoff, Handoff!Threads
<1>6. CASE \/ OpenOutput \/ OpenFails \/ SeeStop \/ PaceOver \/ TakeGateToSend
           \/ SinkAccepts \/ CloseOutput \/ CloseOutputRaises \/ Terminate
  BY <1>6 DEF OpenOutput, OpenFails, SeeStop, PaceOver, TakeGateToSend, SinkAccepts,
              CloseOutput, CloseOutputRaises, Terminate, slots, ids, sending, custody,
              lifecycle, Handoff!handoff
<1> QED
  BY <1>1, <1>2, <1>3, <1>4, <1>5, <1>6 DEF WorkerStep

\* The publisher hands bases over as BaseHandoff, on which the accounting of
\* epochs is built, says, with any number of threads, policies and bases.
THEOREM PublisherImplementsHandoff == Spec => ImplementsHandoff
<1>1. CustodyInv /\ [Next]_vars => [Handoff!NextHandoff]_(Handoff!handoff)
  <2> SUFFICES ASSUME CustodyInv, [Next]_vars
               PROVE  Handoff!NextHandoff \/ UNCHANGED Handoff!handoff
    OBVIOUS
  <2>1. ASSUME NEW a \in Actors, NEW i \in BaseIds, NotifyReleased(a, i)
        PROVE  Handoff!NextHandoff
    <3>1. Handoff!Release(a, i)
      BY <2>1 DEF NotifyReleased, Owe, CustodyInv, WireInv, TypeOK, slots, ids, sending,
                  lifecycle, Handoff!Release
    <3> QED
      BY <3>1 DEF Handoff!NextHandoff, Handoff!Threads, Handoff!BaseIds, BaseIds, Actors,
                  Clients
  <2>2. CASE Tick \/ UNCHANGED vars
    BY <2>2 DEF Tick, vars, slots, ids, sending, custody, lifecycle, Handoff!handoff
  <2> QED
    BY <2>1, <2>2, ProcessorHandsOff, ClientHandsOff, WorkerHandsOff DEF Next
<1> QED
  BY InitHandoffs, CustodyAlways, <1>1, PTL DEF Spec, ImplementsHandoff, Handoff!SpecHandoff

-----------------------------------------------------------------------------
\* Every id of BaseIds is the id of some base.
LEMMA GateIds == Policies # {} => Gate!Ids = BaseIds
<1> SUFFICES ASSUME NEW p \in Policies PROVE Gate!Ids = BaseIds
  OBVIOUS
<1>1. ASSUME NEW i \in BaseIds
      PROVE  \E b \in Bases : b.id = i
  <2> DEFINE b == [id |-> i, epoch |-> p.epoch, lease |-> NoLease, until |-> 0, slate |-> FALSE]
  <2>1. b \in Bases
    BY BoundsAreNaturals DEF Bases, Epochs, Time
  <2> QED
    BY <2>1
<1> QED
  BY <1>1 DEF Gate!Ids, Bases

LEMMA InitGate == Init => Gate!Init
<1> SUFFICES ASSUME Init PROVE Gate!Init
  OBVIOUS
<1>1. Gate!Ids = BaseIds
  BY GateIds DEF Init
<1>2. ~OnWire /\ accepted = {} /\ policy \in Policies /\ releases = [i \in BaseIds |-> 0]
  BY DEF Init, OnWire
<1> QED
  BY <1>1, <1>2 DEF Gate!Init

\* What PublicationGate shows is what these variables make of it.
LEMMA GateUntouched ==
  ASSUME UNCHANGED <<policy, accepted, releases>>,
         OnWire' = OnWire, OnWire => sink' = sink
  PROVE  UNCHANGED Gate!vars
<1>1. (IF OnWire THEN {sink.base} ELSE {})' = (IF OnWire THEN {sink.base} ELSE {})
  OBVIOUS
<1> QED
  BY <1>1 DEF Gate!vars

\* A base that leaves or enters custody is not the one on the wire.
LEMMA CustodyShown ==
  ASSUME CustodyInv, Next, UNCHANGED <<policy, sink>>, OnWire' = OnWire,
         \/ \E b \in Bases : Submit(Processor, b)
         \/ \E a \in Actors, i \in BaseIds : NotifyReleased(a, i)
  PROVE  Gate!Next
<1> USE DEF CustodyInv
<1>1. Gate!Ids = BaseIds
  BY GateIds DEF WireInv, TypeOK
<1>2. ASSUME NEW b \in Bases, Submit(Processor, b)
      PROVE  Gate!Next
  <2>1. /\ b.id \in BaseIds /\ b.id > lastSubmitted
        /\ accepted' = accepted \cup {b.id} /\ releases' = releases
    BY <1>2 DEF Submit, Increases, Bases
  <2>2. b.id \notin accepted
    <3>1. b.id \in Nat /\ lastSubmitted \in Nat
      BY <2>1, BoundsAreNaturals DEF BaseIds, WireInv, TypeOK
    <3> QED
      BY <2>1, <3>1 DEF KnownIds
  <2>3. releases[b.id] = 0
    BY <2>1, <2>2 DEF KnownIds
  <2>4. Gate!Accept(b.id)
    BY <2>1, <2>2, <2>3 DEF Gate!Accept
  <2> QED
    BY <1>1, <2>1, <2>4 DEF Gate!Next
<1>3. ASSUME NEW a \in Actors, NEW i \in BaseIds, NotifyReleased(a, i)
      PROVE  Gate!Next
  <2>1. /\ i \in owed[a] /\ accepted' = accepted
        /\ releases' = [releases EXCEPT ![i] = @ + 1]
    BY <1>3 DEF NotifyReleased, ids
  <2>2. i \in accepted /\ releases[i] = 0 /\ ~InSlot(i)
    BY <2>1 DEF CustodyExact, KnownIds
  <2>3. \A b \in (IF OnWire THEN {sink.base} ELSE {}) \cap Bases : b.id # i
    BY <2>2, BasesAreSome DEF InSlot, Holds, Ids, WireInv, WireHeld
  <2>4. {j \in accepted' : releases'[j] = 0} = {j \in accepted : releases[j] = 0} \ {i}
    BY <2>1, <2>2 DEF WireInv, TypeOK
  <2>5. Gate!LetGo(i)
    BY <2>1, <2>2, <2>3, <2>4 DEF Gate!LetGo
  <2> QED
    BY <1>1, <2>5 DEF Gate!Next
<1> QED
  BY <1>2, <1>3

\* What a selection puts on the wire is held and admitted, or the slate.
LEMMA SelectShown ==
  ASSUME CustodyInv, CustodyInv', Select
  PROVE  Gate!Next
<1> USE DEF CustodyInv
<1>1. /\ ~OnWire /\ OnWire' /\ UNCHANGED <<policy, accepted, releases>>
  BY DEF Select, SelectLatched, SelectSlate, SelectPending, SelectCurrent, SelectNothing,
         Adopt, OnWire, privacy, ids, custody
<1>2. CASE sink'.base = None
  BY <1>1, <1>2 DEF Gate!ShowSlate, Gate!Next
<1>3. CASE sink'.base # None
  <2> DEFINE b == sink'.base
  <2>1. b \in Bases /\ b = current'
    BY <1>3 DEF WireInv, TypeOK, Slots, WireHeld
  <2>2. b.id \in BaseIds /\ b.id \in Kept'
    BY <1>3, <2>1, BasesAreSome DEF Kept, Ids, Bases
  <2>3. b.id \in accepted /\ releases[b.id] = 0
    BY <1>1, <2>2 DEF KnownIds, CustodyExact, InSlot, Holds, Kept
  <2>4. policy \in Policies /\ Matches(b, policy)
    BY <1>1, <1>3 DEF WireInv, TypeOK, WireMatchesPolicy
  <2>5. Gate!ShowBase(b)
    BY <1>1, <2>1, <2>3, <2>4 DEF Gate!ShowBase
  <2> QED
    BY <2>1, <2>5 DEF Gate!Next
<1> QED
  BY <1>2, <1>3

LEMMA StepShown ==
  ASSUME CustodyInv, CustodyInv', [Next]_vars
  PROVE  Gate!Next \/ UNCHANGED Gate!vars
<1> USE DEF CustodyInv
<1>1. CASE Select
  BY <1>1, SelectShown
<1>2. CASE \/ \E b \in Bases : Submit(Processor, b)
           \/ \E a \in Actors, i \in BaseIds : NotifyReleased(a, i)
  <2>1. UNCHANGED <<policy, sink>> /\ OnWire' = OnWire /\ Next
    BY <1>2 DEF Submit, NotifyReleased, OnWire, sending, privacy, Next, ProcessorStep
  <2> QED
    BY <1>2, <2>1, CustodyShown
<1>3. CASE \E c \in Clients : FenceToSlate(c)
  <2>1. PICK c \in Clients : FenceToSlate(c)
    BY <1>3
  <2>2. ~OnWire /\ ~OnWire' /\ request[c] \in Policies
    BY <2>1, ActorsDistinct
       DEF FenceToSlate, WireInv, TypeOK, GateDiscipline, Selecting, OnWire, Actors
  <2>3. Gate!Fence(request[c])
    BY <2>1, <2>2 DEF FenceToSlate, ids, Gate!Fence
  <2> QED
    BY <2>2, <2>3 DEF Gate!Next
<1>4. CASE SendReturns \/ SinkRaises
  <2>1. OnWire /\ ~OnWire' /\ UNCHANGED <<policy, accepted, releases>>
    BY <1>4 DEF SendReturns, SinkRaises, OnWire, privacy, ids, custody
  <2> QED
    BY <2>1 DEF Gate!Clear, Gate!Next
<1>5. CASE ProcessorStep /\ ~\E b \in Bases : Submit(Processor, b)
  <2>1. UNCHANGED <<policy, accepted, releases, sink>> /\ OnWire' = OnWire
    BY <1>5 DEF ProcessorStep, Start, Started, WaitOpened, ReadOutput, NoOutputRaised,
                RequestStop, CloseReadsStarted, CloseUnstarted, Join, OnWire, sending,
                privacy, ids, custody
  <2> QED
    BY <2>1, GateUntouched
<1>6. CASE (\E c \in Clients : ClientStep(c)) /\ ~\E c \in Clients : FenceToSlate(c)
  <2>1. UNCHANGED <<policy, accepted, releases, sink>> /\ OnWire' = OnWire
    BY <1>6 DEF ClientStep, CallFence, TakeGateToFence, FenceTimesOut, FenceFindsError,
                RequestStop, OnWire, sending, privacy, ids, custody
  <2> QED
    BY <2>1, GateUntouched
<1>7. CASE \/ OpenOutput \/ OpenFails \/ RecordFailure \/ FirstBase \/ SeeStop \/ PaceOver
           \/ TakeGateToSend \/ SinkAccepts \/ CloseOutput \/ CloseOutputRaises \/ Cleanup
           \/ Terminate
  <2>1. /\ UNCHANGED <<policy, accepted, releases, sink>> /\ OnWire' = OnWire
    BY <1>7 DEF OpenOutput, OpenFails, RecordFailure, FirstBase, SeeStop, PaceOver,
                TakeGateToSend, SinkAccepts, CloseOutput, CloseOutputRaises, Cleanup,
                Terminate, OnWire, sending, privacy, ids, custody
  <2> QED
    BY <2>1, GateUntouched
<1>8. CASE Tick \/ UNCHANGED vars
  <2>1. UNCHANGED <<policy, accepted, releases, sink>> /\ OnWire' = OnWire
    BY <1>8 DEF Tick, vars, OnWire, sending, privacy, ids, custody
  <2> QED
    BY <2>1, GateUntouched
<1> QED
  BY <1>1, <1>2, <1>3, <1>4, <1>5, <1>6, <1>7, <1>8 DEF Next, WorkerStep

\* The publisher keeps the promise of PublicationGate: what is on the wire is
\* held and admitted by the policy in force, and a fence finds the wire empty.
THEOREM PublisherImplementsGate == Spec => ImplementsGate
<1>1. CustodyInv /\ CustodyInv' /\ [Next]_vars => [Gate!Next]_(Gate!vars)
  BY StepShown
<1> QED
  BY InitGate, CustodyAlways, <1>1, PTL DEF Spec, ImplementsGate, Gate!Spec

-----------------------------------------------------------------------------
(* What a fence discards stays off the wire.  The two facts behind it: the  *)
(* slots hold only bases accepted since the last fence, and the latch is    *)
(* set for as long as the newest base accepted is a rejection.              *)

AfterFence ==
  /\ fenced <= lastSubmitted
  /\ \A i \in Kept : i > fenced
  /\ rejecting => forceSlate

LEMMA InitAfterFence == Init => AfterFence
BY DEF Init, AfterFence, Kept, Ids

\* A step that fences nothing and lets nothing in.
LEMMA AfterFenceKept ==
  ASSUME AfterFence, UNCHANGED <<fenced, rejecting, lastSubmitted, forceSlate>>,
         Kept' \subseteq Kept
  PROVE  AfterFence'
BY DEF AfterFence

LEMMA ClientAfterFence ==
  ASSUME TypeOK, AfterFence,
         ProcessorStep \/ \E c \in Clients : ClientStep(c)
  PROVE  AfterFence'
<1>1. ASSUME NEW b \in Bases, Submit(Processor, b)
      PROVE  AfterFence'
  <2>1. /\ b.id \in Nat /\ b.id > lastSubmitted /\ lastSubmitted' = b.id
        /\ fenced' = fenced /\ fenced \in Nat /\ lastSubmitted \in Nat
        /\ rejecting' = b.slate /\ forceSlate' = b.slate
    BY <1>1, BoundsAreNaturals DEF Submit, Increases, Bases, BaseIds, TypeOK
  <2>2. Kept' \subseteq {b.id} \cup Kept
    BY <1>1 DEF Submit, Kept, Ids
  <2> QED
    BY <2>1, <2>2 DEF AfterFence
<1>2. ASSUME NEW c \in Clients, FenceToSlate(c)
      PROVE  AfterFence'
  <2>1. Kept' = {} /\ fenced' = lastSubmitted /\ lastSubmitted' = lastSubmitted /\ forceSlate'
    BY <1>2 DEF FenceToSlate, Kept, Ids
  <2> QED
    BY <2>1 DEF AfterFence, TypeOK
<1>3. ASSUME NEW c \in Clients,
             \/ RequestStop(c, "idle") \/ RequestStop(c, "closing")
             \/ (\E p \in Policies : CallFence(c, p)) \/ TakeGateToFence(c)
             \/ FenceTimesOut(c) \/ FenceFindsError(c)
      PROVE  AfterFence'
  <2>1. UNCHANGED <<fenced, rejecting, lastSubmitted, forceSlate>> /\ Kept' \subseteq Kept
    BY <1>3 DEF RequestStop, CallFence, TakeGateToFence, FenceTimesOut, FenceFindsError,
         Kept, Ids, ids, privacy, slots
  <2> QED
    BY <2>1, AfterFenceKept
<1>4. CASE \/ Start(Processor) \/ WaitOpened(Processor) \/ ReadOutput(Processor)
           \/ NoOutputRaised(Processor) \/ CloseReadsStarted(Processor)
           \/ CloseUnstarted(Processor) \/ Join(Processor)
  <2>1. UNCHANGED <<fenced, rejecting, lastSubmitted, forceSlate>> /\ Kept' \subseteq Kept
    BY <1>4 DEF Start, WaitOpened, ReadOutput, NoOutputRaised, CloseReadsStarted,
         CloseUnstarted, Join, Kept, ids, privacy, slots
  <2> QED
    BY <2>1, AfterFenceKept
<1> QED
  BY <1>1, <1>2, <1>3, <1>4 DEF ProcessorStep, ClientStep, Clients

LEMMA WorkerAfterFence ==
  ASSUME TypeOK, AfterFence, WorkerStep
  PROVE  AfterFence'
<1>1. UNCHANGED <<fenced, rejecting, lastSubmitted, forceSlate>>
  BY DEF WorkerStep, OpenOutput, OpenFails, RecordFailure, FirstBase, SeeStop, PaceOver,
     TakeGateToSend, Select, SelectLatched, SelectSlate, SelectPending, SelectCurrent,
     SelectNothing, Adopt, SinkAccepts, SendReturns, SinkRaises, CloseOutput,
     CloseOutputRaises, Cleanup, Terminate, ids, privacy
<1>2. CASE Select
  BY <1>1, <1>2, AfterFenceKept
     DEF Select, SelectLatched, SelectSlate, SelectPending, SelectCurrent, SelectNothing,
         Adopt, Newest, Kept, Ids, slots
<1>3. CASE ~Select
  <2>1. Kept' \subseteq Kept
    BY <1>3 DEF WorkerStep, OpenOutput, OpenFails, RecordFailure, FirstBase, SeeStop, PaceOver,
       TakeGateToSend, SinkAccepts, SendReturns, SinkRaises, CloseOutput,
       CloseOutputRaises, Cleanup, Terminate, Kept, Ids, slots
  <2> QED
    BY <1>1, <2>1, AfterFenceKept
<1> QED
  BY <1>2, <1>3

LEMMA StepAfterFence ==
  ASSUME TypeOK, AfterFence, [Next]_vars
  PROVE  AfterFence'
<1>1. CASE ProcessorStep \/ \E c \in Clients : ClientStep(c)
  BY <1>1, ClientAfterFence
<1>2. CASE WorkerStep
  BY <1>2, WorkerAfterFence
<1>3. CASE \/ \E a \in Actors, i \in BaseIds : NotifyReleased(a, i)
           \/ Tick \/ UNCHANGED vars
  <2>1. UNCHANGED <<ids, privacy, slots>>
    BY <1>3 DEF NotifyReleased, Tick, vars
  <2> QED
    BY <2>1, AfterFenceKept DEF ids, privacy, slots, Kept
<1> QED
  BY <1>1, <1>2, <1>3 DEF Next

\* Whatever later submissions, fences back to an old policy, expiries and a stop do, a base
\* that a fence has discarded is not shown again, and none is shown while the newest base
\* accepted is a privacy rejection.
THEOREM OvertakenBasesStayOff == Spec => OvertakenStaysOff
<1>1. ASSUME TypeOK, AfterFence, Next, worker = "select", worker' = "submitting",
             ~sink'.private
      PROVE  sink'.base.id > fenced /\ ~rejecting
  <2>1. Select
    BY <1>1 DEF Next, ProcessorStep, ClientStep, WorkerStep, Start, WaitOpened, ReadOutput,
           NoOutputRaised, Submit, RequestStop,
           CloseReadsStarted, CloseUnstarted, Join, CallFence, TakeGateToFence,
           FenceTimesOut, FenceToSlate, FenceFindsError, NotifyReleased, OpenOutput,
           OpenFails, RecordFailure, FirstBase, SeeStop, PaceOver, TakeGateToSend,
           SinkAccepts, SendReturns, SinkRaises, CloseOutput, CloseOutputRaises, Cleanup,
           Terminate, Tick
  <2>2. ASSUME NEW b, Send(b)
        PROVE  b # None /\ ~b.slate /\ sink'.base = b
    <3>1. sink'.private = (b = None \/ b.slate) /\ sink'.base = b
      BY <2>2 DEF Send
    <3> QED
      BY <1>1, <3>1
  <2>3. SelectPending \/ SelectCurrent
    BY <2>1, <2>2 DEF Select, SelectLatched, SelectSlate, SelectNothing, Adopt, Latched
  <2>4. sink'.base \in {pending, current} /\ sink'.base # None /\ ~forceSlate
    BY <2>2, <2>3 DEF SelectPending, SelectCurrent, Adopt
  <2>5. sink'.base.id \in Kept
    BY <2>4 DEF Kept, Ids
  <2> QED
    BY <1>1, <2>4, <2>5 DEF AfterFence
<1>2. TypeOK /\ AfterFence /\ [Next]_vars =>
        [worker = "select" /\ worker' = "submitting" /\ ~sink'.private
           => sink'.base.id > fenced /\ ~rejecting]_vars
  BY <1>1
<1>3. TypeOK /\ AfterFence /\ [Next]_vars => AfterFence'
  BY StepAfterFence
<1>4. Init => AfterFence
  BY InitAfterFence
<1> QED
  BY <1>2, <1>3, <1>4, TypeCorrect, PTL DEF Spec, OvertakenStaysOff
=============================================================================
