-------------------------- MODULE OutputPublisher --------------------------
(***************************************************************************)
(* The output publisher of src/custback/output_scheduler.py: one worker    *)
(* thread owns the video sink and shows, at the target cadence, the newest *)
(* base frame that the current publication policy makes eligible, or the   *)
(* built-in privacy slate.  The processing thread submits bases; it and    *)
(* the control threads (renderer lifecycle, shutdown) move the policy with *)
(* fence_to_slate and ask the worker to stop.                              *)
(*                                                                         *)
(* Two locks are modelled as the code uses them.  What is done under       *)
(* _condition is one step.  _send_gate is the variable gate: the worker    *)
(* holds it from the clock read before the selection until the sink call   *)
(* (its pacing wait included) has returned, a fence while it swaps the     *)
(* policy.  The on_release callbacks run after _condition is released, so  *)
(* a base that left the publisher is owed[a] by the thread a that removed  *)
(* it until that thread has called back.                                   *)
(*                                                                         *)
(* Left out: pixels, digests, counters, reason codes and timings, which    *)
(* feed telemetry only.  A renderer proof is abstracted to its lease, the  *)
(* pair (raw_epoch, renderer_session), and its expiry.                     *)
(***************************************************************************)
EXTENDS Naturals, FiniteSets

CONSTANTS
  Processor,    \* the processing thread: starts, submits, fences, closes
  Controllers,  \* the other threads that fence or request a stop
  Worker,       \* the publisher's own thread
  Leases,       \* renderer leases: pairs of a raw epoch and a session
  NoLease,      \* no renderer proof; in a policy, the local mode
  Policies,     \* the policies a fence may install, and the initial one
  None,         \* no owner of the gate, an empty slot; in the sink, the slate
  MaxBase,      \* bound: base ids are 1..MaxBase
  MaxTime       \* bound: the clock runs over 0..MaxTime

Clients == {Processor} \cup Controllers
Actors == Clients \cup {Worker}
BaseIds == 1..MaxBase
Time == 0..MaxTime
Epochs == {p.epoch : p \in Policies}

\* SafeBaseFrame.create: a slate carries no proof, an expiry belongs to one.
Bases ==
  {b \in [id: BaseIds, epoch: Epochs, lease: Leases \cup {NoLease},
          until: Time, slate: BOOLEAN] :
     /\ b.slate => b.lease = NoLease
     /\ b.lease = NoLease => b.until = 0}

ASSUME ActorsDistinct ==
  /\ Worker \notin Clients
  /\ None \notin Actors
ASSUME PoliciesTyped ==
  Policies \subseteq [epoch: Nat, lease: Leases \cup {NoLease}]
ASSUME BoundsAreNaturals == MaxBase \in Nat /\ MaxTime \in Nat
ASSUME BasesAreSome == None \notin Bases /\ None \notin BaseIds
ASSUME NoLeaseIsNone == NoLease \notin Leases

VARIABLES
  state,          \* _state, the published lifecycle
  stop,           \* _stop
  error,          \* _error is not None
  policy,         \* _policy
  forceSlate,     \* _force_slate, the fail-closed latch
  pending,        \* _pending, the depth-one handoff
  current,        \* _current, the base being repeated
  lastSubmitted,  \* _last_submitted_base_id, 0 for None
  lastAdopted,    \* _last_adopted_base_id, 0 for None
  opened,         \* the _opened event
  output,         \* _output is not None
  terminated,     \* the _terminated event
  gate,           \* the owner of _send_gate
  worker,         \* where the worker thread is in _run and _send_once
  gateTime,       \* now_ns, read by the worker when it took the gate
  sink,           \* the frame handed to the sink and whether it is private
  pc,             \* where each client is in the method it called
  request,        \* the policy of each client's fence_to_slate call
  owed,           \* base ids each thread removed and has yet to call back for
  releases,       \* history: how often on_release was called for each id
  accepted,       \* history: base ids for which submit returned True
  fenced,         \* history: the newest id accepted before the last fence
  rejecting,      \* history: the newest base accepted is a privacy slate
  now             \* the monotonic clock

lifecycle == <<state, stop, error>>
slots == <<pending, current>>
privacy == <<policy, forceSlate>>
ids == <<lastSubmitted, lastAdopted, accepted, fenced, rejecting>>
events == <<opened, output, terminated>>
sending == <<gateTime, sink>>
calls == <<pc, request>>
custody == <<owed, releases>>
vars == <<lifecycle, privacy, slots, ids, events, gate, worker, sending,
          calls, custody, now>>

States == {"starting", "running", "stopping", "stopped", "failed"}
WorkerSteps == {"unstarted", "opening", "firstBase", "pace", "gate", "select",
                "submitting", "pacing", "raising", "closing", "cleanup",
                "leaving", "done"}
ClientSteps == {"idle", "waitOpened", "readOutput", "noOutput", "wantGate",
                "fencing", "closing", "unstarted", "joining"}
Slate == [base |-> None, private |-> TRUE]

Started == worker # "unstarted"
Ids(b) == IF b = None THEN {} ELSE {b.id}

-----------------------------------------------------------------------------
\* Eligibility (_eligible_locked).

\* In local mode a base carries no proof; in remote mode it is a slate or
\* carries the very lease of the policy.
Matches(b, p) ==
  /\ b.epoch = p.epoch
  /\ b.lease = p.lease \/ (p.lease # NoLease /\ b.slate)

Fresh(b, t) == b.lease = NoLease \/ t <= b.until
\* Mutant: the policy epoch is not compared.
EligibleInAnyEpoch(b, t) ==
  /\ b.lease = policy.lease \/ (policy.lease # NoLease /\ b.slate)
  /\ Fresh(b, t)

Eligible(b, t) == Matches(b, policy) /\ Fresh(b, t)

Init ==
  /\ state = "starting" /\ stop = FALSE /\ error = FALSE
  /\ policy \in Policies /\ forceSlate = (policy.lease # NoLease)
  /\ pending = None /\ current = None
  /\ lastSubmitted = 0 /\ lastAdopted = 0
  /\ opened = FALSE /\ output = FALSE /\ terminated = FALSE
  /\ gate = None /\ worker = "unstarted"
  /\ gateTime = 0 /\ sink = Slate
  /\ pc = [c \in Clients |-> "idle"]
  /\ request = [c \in Clients |-> None]
  /\ owed = [a \in Actors |-> {}]
  /\ releases = [i \in BaseIds |-> 0]
  /\ accepted = {} /\ fenced = 0 /\ rejecting = FALSE
  /\ now = 0

Goto(c, step) == pc' = [pc EXCEPT ![c] = step]
Owe(a, S) == owed' = [owed EXCEPT ![a] = S]

\* A method that removed bases returns only after its callbacks.
Idle(c) == pc[c] = "idle" /\ owed[c] = {}

-----------------------------------------------------------------------------
\* The clients.

\* start(); the caller then blocks in wait_opened.
Start(c) ==
  /\ Idle(c) /\ ~Started
  /\ worker' = "opening"
  /\ Goto(c, "waitOpened")
  /\ UNCHANGED <<lifecycle, privacy, slots, ids, events, gate, sending,
                 request, custody, now>>

\* wait_opened: _opened is set; the error property is read first...
WaitOpened(c) ==
  /\ pc[c] = "waitOpened" /\ opened
  /\ Goto(c, IF error THEN "idle" ELSE "readOutput")
  /\ UNCHANGED <<lifecycle, privacy, slots, ids, events, gate, worker, sending,
                 request, custody, now>>

\* ...and the output property after it, under a lock of its own.
ReadOutput(c) ==
  /\ pc[c] = "readOutput"
  /\ Goto(c, IF output THEN "idle" ELSE "noOutput")
  /\ UNCHANGED <<lifecycle, privacy, slots, ids, events, gate, worker, sending,
                 request, custody, now>>

\* "output publisher reported no output": the call raised.
NoOutputRaised(c) ==
  /\ pc[c] = "noOutput"
  /\ Goto(c, "idle")
  /\ UNCHANGED <<lifecycle, privacy, slots, ids, events, gate, worker, sending,
                 request, custody, now>>

Accepting == ~stop /\ state \notin {"stopping", "stopped", "failed"}

\* Otherwise submit raises ValueError("safe base ids must increase").
Increases(b) == b.id > lastSubmitted

\* submit() returning True.  Refusing a base changes nothing.
Submit(c, b) ==
  /\ Idle(c)
  /\ Accepting
  /\ Eligible(b, now)
  /\ Increases(b)
  /\ pending' = b
  /\ lastSubmitted' = b.id
  /\ forceSlate' = b.slate
  /\ accepted' = accepted \cup {b.id}
  /\ rejecting' = b.slate
  /\ Owe(c, Ids(pending))
  /\ UNCHANGED <<lifecycle, policy, current, lastAdopted, fenced, events, gate,
                 worker, sending, calls, releases, now>>

CallFence(c, p) ==
  /\ Idle(c)
  /\ Goto(c, "wantGate")
  /\ request' = [request EXCEPT ![c] = p]
  /\ UNCHANGED <<lifecycle, privacy, slots, ids, events, gate, worker, sending,
                 custody, now>>

TakeGateToFence(c) ==
  /\ pc[c] = "wantGate" /\ gate = None
  /\ gate' = c
  /\ Goto(c, "fencing")
  /\ UNCHANGED <<lifecycle, privacy, slots, ids, events, worker, sending,
                 request, custody, now>>

FenceEnds(c) ==
  /\ Goto(c, "idle")
  /\ request' = [request EXCEPT ![c] = None]

\* Mutant: the fence goes on when its lock attempt timed out.
FenceIgnoresTimeout(c) ==
  /\ pc[c] = "wantGate" /\ gate # None
  /\ Goto(c, "fencing")
  /\ UNCHANGED <<lifecycle, privacy, slots, ids, events, gate, worker, sending,
                 request, custody, now>>

\* OutputPublisherTimeout: the gate stayed held for the whole timeout.
FenceTimesOut(c) ==
  /\ pc[c] = "wantGate" /\ gate # None
  /\ FenceEnds(c)
  /\ UNCHANGED <<lifecycle, privacy, slots, ids, events, gate, worker, sending,
                 custody, now>>

\* Mutant: the base being repeated is forgotten.
DiscardedPending == Ids(pending)

\* Everything the publisher holds.
Discarded == Ids(pending) \cup Ids(current)

\* Mutant: the fence trusts the latch to keep the repeated base off the wire.
FenceKeepsCurrent(c) ==
  /\ pc[c] = "fencing" /\ ~error
  /\ policy' = request[c]
  /\ forceSlate' = TRUE
  /\ fenced' = lastSubmitted
  /\ pending' = None
  /\ gate' = None
  /\ Owe(c, Ids(pending))
  /\ FenceEnds(c)
  /\ UNCHANGED <<lifecycle, current, lastSubmitted, lastAdopted, accepted,
                 rejecting, events, worker, sending, releases, now>>

FenceToSlate(c) ==
  /\ pc[c] = "fencing" /\ ~error
  /\ policy' = request[c]
  /\ forceSlate' = TRUE
  /\ fenced' = lastSubmitted
  /\ pending' = None /\ current' = None
  /\ gate' = None
  /\ Owe(c, Discarded)
  /\ FenceEnds(c)
  /\ UNCHANGED <<lifecycle, lastSubmitted, lastAdopted, accepted, rejecting,
                 events, worker, sending, releases, now>>

\* OutputPublisherError, raised with the gate held and released on the way.
FenceFindsError(c) ==
  /\ pc[c] = "fencing" /\ error
  /\ gate' = None
  /\ FenceEnds(c)
  /\ UNCHANGED <<lifecycle, privacy, slots, ids, events, worker, sending,
                 custody, now>>

\* request_stop(), called by itself or as the first step of close().
RequestStop(c, next) ==
  /\ Idle(c)
  /\ state' = IF state \in {"stopped", "failed"} THEN state ELSE "stopping"
  /\ stop' = TRUE
  /\ pending' = None
  /\ Owe(c, Ids(pending))
  /\ Goto(c, next)
  /\ UNCHANGED <<error, privacy, current, ids, events, gate, worker, sending,
                 request, releases, now>>

\* close() reads _started without a lock once request_stop has returned.
CloseReadsStarted(c) ==
  /\ pc[c] = "closing" /\ owed[c] = {}
  /\ Goto(c, IF Started THEN "joining" ELSE "unstarted")
  /\ UNCHANGED <<lifecycle, privacy, slots, ids, events, gate, worker, sending,
                 request, custody, now>>

CloseUnstarted(c) ==
  /\ pc[c] = "unstarted"
  /\ state' = "stopped"
  /\ Goto(c, "idle")
  /\ UNCHANGED <<stop, error, privacy, slots, ids, events, gate, worker,
                 sending, request, custody, now>>

\* The join ends with the thread, or raises at its timeout.
Join(c) ==
  /\ pc[c] = "joining"
  /\ Goto(c, "idle")
  /\ UNCHANGED <<lifecycle, privacy, slots, ids, events, gate, worker, sending,
                 request, custody, now>>

\* _notify_released, one base id at a time; the order is not observed.
NotifyReleased(a, i) ==
  /\ i \in owed[a]
  /\ Owe(a, owed[a] \ {i})
  /\ releases' = [releases EXCEPT ![i] = @ + 1]
  /\ UNCHANGED <<lifecycle, privacy, slots, ids, events, gate, worker, sending,
                 calls, now>>

-----------------------------------------------------------------------------
\* The worker.

OpenOutput ==
  /\ worker = "opening"
  /\ output' = TRUE /\ opened' = TRUE
  /\ state' = "running"
  /\ worker' = "firstBase"
  /\ UNCHANGED <<stop, error, privacy, slots, ids, terminated,
                 gate, sending, calls, custody, now>>

\* The factory raised: there is no output to close.
OpenFails ==
  /\ worker = "opening"
  /\ worker' = "raising"
  /\ UNCHANGED <<lifecycle, privacy, slots, ids, events, gate, sending, calls,
                 custody, now>>

\* The except clause of _run; the send gate is already released.
RecordFailure ==
  /\ worker = "raising"
  /\ error' = TRUE
  /\ state' = "failed"
  /\ stop' = TRUE
  /\ opened' = TRUE
  /\ worker' = IF output THEN "closing" ELSE "cleanup"
  /\ UNCHANGED <<privacy, slots, ids, output, terminated, gate, sending,
                 calls, custody, now>>

\* _wait_for_first_base
FirstBase ==
  /\ worker = "firstBase" /\ ~stop /\ pending # None
  /\ current' = pending
  /\ pending' = None
  /\ worker' = "gate"
  /\ UNCHANGED <<lifecycle, privacy, ids, events, gate, sending, calls, custody,
                 now>>

\* The stop flag is seen before the first base or between two sends.
SeeStop ==
  /\ worker \in {"firstBase", "pace"} /\ stop
  /\ worker' = "closing"
  /\ UNCHANGED <<lifecycle, privacy, slots, ids, events, gate, sending, calls,
                 custody, now>>

\* The deadline of the next slot is reached; no other stop check follows.
PaceOver ==
  /\ worker = "pace" /\ ~stop
  /\ worker' = "gate"
  /\ UNCHANGED <<lifecycle, privacy, slots, ids, events, gate, sending, calls,
                 custody, now>>

TakeGateToSend ==
  /\ worker = "gate" /\ gate = None
  /\ gate' = Worker
  /\ gateTime' = now
  /\ worker' = "select"
  /\ UNCHANGED <<lifecycle, privacy, slots, ids, events, sink, calls, custody,
                 now>>

Send(b) == sink' = [base |-> b, private |-> b = None \/ b.slate]

\* Mutant: the base being repeated is looked at before the newer one.
Oldest == IF current # None THEN current ELSE pending

\* The base a select step leaves current; the others are owed.
Newest == IF pending # None THEN pending ELSE current
\* Mutant: a proof is not checked again when its base is sent.
AdoptableByPolicy(b) == b # None /\ Matches(b, policy)

Latched(b) == b # None /\ b.slate /\ Eligible(b, gateTime)
Adoptable(b) == b # None /\ Eligible(b, gateTime)

\* Adopt b, the pending or the current base, and owe every other base dropped.
Adopt(b, dropped) ==
  /\ current' = b
  /\ Owe(Worker, dropped \ Ids(b))
  /\ Send(b)
  /\ worker' = "submitting"
  /\ UNCHANGED <<lifecycle, privacy, ids, events, gate, gateTime, calls,
                 releases, now>>

SelectLatched ==
  /\ worker = "select" /\ forceSlate /\ Latched(Newest)
  /\ pending' = None
  /\ Adopt(Newest, Ids(current))

\* The latch holds: the slots keep what they hold.
SelectSlate ==
  /\ worker = "select" /\ forceSlate /\ ~Latched(Newest)
  /\ Send(None)
  /\ worker' = "submitting"
  /\ UNCHANGED <<lifecycle, privacy, slots, ids, events, gate, gateTime, calls,
                 custody, now>>

SelectPending ==
  /\ worker = "select" /\ ~forceSlate /\ Adoptable(pending)
  /\ pending' = None
  /\ Adopt(pending, Ids(current))

\* An ineligible pending base is dropped and the current one repeated...
SelectCurrent ==
  /\ worker = "select" /\ ~forceSlate /\ ~Adoptable(pending)
  /\ Adoptable(current)
  /\ pending' = None
  /\ Adopt(current, Ids(pending))

\* ..., or dropped as well, for the built-in slate.
SelectNothing ==
  /\ worker = "select" /\ ~forceSlate /\ ~Adoptable(pending)
  /\ ~Adoptable(current)
  /\ pending' = None
  /\ Adopt(None, Discarded)

\* record_accepted: the sink took the frame, before its pacing wait.
SinkAccepts ==
  /\ worker = "submitting" /\ owed[Worker] = {}
  /\ lastAdopted' = IF sink.base = None THEN lastAdopted ELSE sink.base.id
  /\ worker' = "pacing"
  /\ UNCHANGED <<lifecycle, privacy, slots, lastSubmitted, accepted, fenced,
                 rejecting, opened, output, terminated, gate, sending, calls,
                 custody, now>>

LeaveGate ==
  /\ gate' = None
  /\ gateTime' = 0
  /\ sink' = Slate

\* The sink call returns and the gate is released.
SendReturns ==
  /\ worker = "pacing"
  /\ LeaveGate
  /\ worker' = "pace"
  /\ UNCHANGED <<lifecycle, privacy, slots, ids, events, calls, custody,
                 now>>

\* The sink, or a receipt callback, raised before or after the acceptance.
SinkRaises ==
  /\ worker \in {"submitting", "pacing"} /\ owed[Worker] = {}
  /\ LeaveGate
  /\ worker' = "raising"
  /\ UNCHANGED <<lifecycle, privacy, slots, ids, events, calls, custody,
                 now>>

CloseOutput ==
  /\ worker = "closing"
  /\ worker' = "cleanup"
  /\ UNCHANGED <<lifecycle, privacy, slots, ids, events, gate, sending, calls,
                 custody, now>>

\* output.close() raised; the first error wins.
CloseOutputRaises ==
  /\ worker = "closing"
  /\ error' = TRUE
  /\ state' = IF error THEN state ELSE "failed"
  /\ worker' = "cleanup"
  /\ UNCHANGED <<stop, privacy, slots, ids, events, gate, sending, calls,
                 custody, now>>

\* The finally clause, under _condition.
Cleanup ==
  /\ worker = "cleanup"
  /\ Owe(Worker, Discarded)
  /\ pending' = None /\ current' = None
  /\ state' = IF state = "failed" THEN "failed" ELSE "stopped"
  /\ output' = FALSE /\ opened' = TRUE
  /\ worker' = "leaving"
  /\ UNCHANGED <<stop, error, privacy, ids, terminated, gate,
                 sending, calls, releases, now>>

Terminate ==
  /\ worker = "leaving" /\ owed[Worker] = {}
  /\ terminated' = TRUE
  /\ worker' = "done"
  /\ UNCHANGED <<lifecycle, privacy, slots, ids, opened, output,
                 gate, sending, calls, custody, now>>

Tick ==
  /\ now < MaxTime
  /\ now' = now + 1
  /\ UNCHANGED <<lifecycle, privacy, slots, ids, events, gate, worker, sending,
                 calls, custody>>

-----------------------------------------------------------------------------
ProcessorStep ==
  \/ Start(Processor)
  \/ WaitOpened(Processor) \/ ReadOutput(Processor) \/ NoOutputRaised(Processor)
  \/ \E b \in Bases : Submit(Processor, b)
  \/ RequestStop(Processor, "closing")
  \/ CloseReadsStarted(Processor) \/ CloseUnstarted(Processor) \/ Join(Processor)

ClientStep(c) ==
  \/ \E p \in Policies : CallFence(c, p)
  \/ TakeGateToFence(c) \/ FenceTimesOut(c)
  \/ FenceToSlate(c) \/ FenceFindsError(c)
  \/ RequestStop(c, "idle")

Select ==
  \/ SelectLatched \/ SelectSlate \/ SelectPending
  \/ SelectCurrent \/ SelectNothing

WorkerStep ==
  \/ OpenOutput \/ OpenFails \/ RecordFailure
  \/ FirstBase \/ SeeStop \/ PaceOver \/ TakeGateToSend \/ Select
  \/ SinkAccepts \/ SendReturns \/ SinkRaises
  \/ CloseOutput \/ CloseOutputRaises \/ Cleanup \/ Terminate

Next ==
  \/ ProcessorStep
  \/ \E c \in Clients : ClientStep(c)
  \/ \E a \in Actors, i \in BaseIds : NotifyReleased(a, i)
  \/ WorkerStep
  \/ Tick

Spec == Init /\ [][Next]_vars

\* Every thread of the process is scheduled: a call past its lock attempt and a
\* callback complete, the factory and the sink return.  The worker is not
\* starved of the send gate for ever: fences are rare next to its 30 Hz.
Fairness ==
  /\ WF_vars(OpenOutput) /\ WF_vars(RecordFailure)
  /\ WF_vars(FirstBase) /\ WF_vars(SeeStop) /\ WF_vars(PaceOver)
  /\ SF_vars(TakeGateToSend) /\ WF_vars(Select)
  /\ WF_vars(SinkAccepts) /\ WF_vars(SendReturns)
  /\ WF_vars(CloseOutput) /\ WF_vars(Cleanup) /\ WF_vars(Terminate)
  /\ \A a \in Actors : WF_vars(\E i \in BaseIds : NotifyReleased(a, i))
  /\ \A c \in Clients :
       /\ WF_vars(TakeGateToFence(c) \/ FenceTimesOut(c))
       /\ WF_vars(FenceToSlate(c) \/ FenceFindsError(c))

FairSpec == Spec /\ Fairness

-----------------------------------------------------------------------------
\* Properties.

Slots == Bases \cup {None}

\* Every variable has the type its Python counterpart has, and a fence in
\* progress still knows the policy it was asked to install.
TypeOK ==
  /\ state \in States /\ stop \in BOOLEAN /\ error \in BOOLEAN
  /\ policy \in Policies /\ forceSlate \in BOOLEAN
  /\ pending \in Slots /\ current \in Slots
  /\ lastSubmitted \in Nat /\ lastAdopted \in Nat
  /\ opened \in BOOLEAN /\ output \in BOOLEAN
  /\ terminated \in BOOLEAN
  /\ gate \in Actors \cup {None}
  /\ worker \in WorkerSteps
  /\ gateTime \in Time
  /\ sink \in [base: Slots, private: BOOLEAN]
  /\ pc \in [Clients -> ClientSteps]
  /\ request \in [Clients -> Policies \cup {None}]
  /\ \A c \in Clients : pc[c] \in {"wantGate", "fencing"} => request[c] \in Policies
  /\ owed \in [Actors -> SUBSET BaseIds]
  /\ releases \in [BaseIds -> Nat]
  /\ accepted \subseteq BaseIds /\ fenced \in Nat /\ rejecting \in BOOLEAN
  /\ now \in Time

\* The fence is a barrier: whatever base the sink is busy with, pacing wait
\* included, belongs to the policy now in force, so that a fence_to_slate that
\* returned leaves no frame of an older epoch or lease in flight.
WireMatchesPolicy == sink.base # None => Matches(sink.base, policy)

\* No renderer frame is sent, nor repeated, past the expiry of its proof as
\* seen when the worker took the send gate.
WireProofFresh == sink.base # None => Fresh(sink.base, gateTime)

\* Custody is exact: an accepted base sits in one slot, or is owed by one
\* thread, or on_release was called for it, once; no base is lost between the
\* threads that remove it and none is released twice (the callback raises on
\* an unknown id).
Holds(slot, i) == i \in Ids(slot)
InSlot(i) == Holds(pending, i) \/ Holds(current, i)
CustodyExact ==
  \A i \in BaseIds :
    /\ i \in accepted =>
         InSlot(i) \/ releases[i] = 1 \/ \E a \in Actors : i \in owed[a]
    /\ ~(Holds(pending, i) /\ Holds(current, i))
    /\ InSlot(i) => releases[i] = 0 /\ \A a \in Actors : i \notin owed[a]
    /\ \A a \in Actors : i \in owed[a] =>
         releases[i] = 0 /\ \A b \in Actors \ {a} : i \notin owed[b]
    /\ releases[i] <= 1

\* The base in the sink has not been released: the receipt of a late send is
\* still attributed to the epoch the base retains.
WireHeld == sink.base # None => sink.base = current

\* Once the worker has cleaned up nothing can enter the publisher any more.
NothingStranded ==
  worker \in {"leaving", "done"} => pending = None /\ current = None

\* A fence is for good: a base accepted before it is never shown again, also when
\* a failed patch fences back to the very policy the base was made for, a later
\* base then clears the latch, and that one expires or a stop drops it.  And while
\* the newest base accepted is a privacy rejection nothing older is repeated, even
\* when request_stop has dropped the rejection and left its predecessor current.
OvertakenStaysOff ==
  [][worker = "select" /\ worker' = "submitting" /\ ~sink'.private
       => sink'.base.id > fenced /\ ~rejecting]_vars

\* After a stop of a started publisher every base it accepted is released.
StopReleasesAll ==
  \A i \in BaseIds : (stop /\ Started /\ i \in accepted) ~> releases[i] = 1

-----------------------------------------------------------------------------
\* The publisher implements the abstract gate.

OnWire == worker \in {"submitting", "pacing"}
Gate == INSTANCE PublicationGate WITH
  Admitted <- {pb \in Policies \X Bases : Matches(pb[2], pb[1])},
  SlateFrame <- None,
  held <- {i \in accepted : releases[i] = 0},
  letGo <- releases,
  wire <- IF OnWire THEN {sink.base} ELSE {}

\* Every step of the publisher is a step of PublicationGate or changes nothing
\* it shows.
ImplementsGate == Gate!Spec

\* The custody the rest of the pipeline relies on.
IdIn(slot) == IF slot = None THEN None ELSE slot.id
Handoff == INSTANCE BaseHandoff WITH
  pending <- IdIn(pending),
  current <- IdIn(current),
  wire <- IdIn(sink.base),
  last <- lastSubmitted,
  stopped <- stop

\* The publisher takes bases in and out as BaseHandoff says: one newer base at
\* a time, none while its own worker still has it in the sink.
ImplementsHandoff == Handoff!SpecHandoff
=============================================================================
