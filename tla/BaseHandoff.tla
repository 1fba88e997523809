---------------------------- MODULE BaseHandoff ----------------------------
(***************************************************************************)
(* What the output publisher shows of the base frames in its custody to    *)
(* the code around it: the depth-one handoff slot, the base being          *)
(* repeated, the base in the sink, and the bases that a thread has taken   *)
(* out and has yet to call on_release for.  Policies, proofs, the sink's   *)
(* protocol and the lifecycle are gone; OutputPublisher implements it.     *)
(***************************************************************************)
EXTENDS Naturals

CONSTANTS
  Processor,    \* the thread that submits bases
  Controllers,  \* other threads that fence or stop the publisher
  Worker,       \* the thread that owns the sink
  None,         \* an empty slot
  MaxBase       \* bound: base ids are 1..MaxBase

Threads == {Processor, Worker} \cup Controllers
BaseIds == 1..MaxBase

ASSUME MaxBaseIsNatural == MaxBase \in Nat
ASSUME NoneIsNoBase == None \notin BaseIds
ASSUME ThreadsDistinct ==
  Processor # Worker /\ Processor \notin Controllers /\ Worker \notin Controllers

VARIABLES
  pending,  \* the id in the handoff slot
  current,  \* the id of the base being repeated
  wire,     \* the id of the base in the sink
  last,     \* the newest id accepted, 0 for none
  stopped,  \* no base is accepted any more
  owed      \* owed[t]: ids that t took out and has yet to call back for

handoff == <<pending, current, wire, last, stopped, owed>>

Present(slot) == {slot} \ {None}
Kept == Present(pending) \cup Present(current)

\* Thread t takes the bases S out; it has called back for what it took before.
TakeOut(t, S) ==
  /\ owed[t] = {}
  /\ owed' = [owed EXCEPT ![t] = S]

InitHandoff ==
  /\ pending = None /\ current = None /\ wire = None
  /\ last = 0 /\ stopped = FALSE
  /\ owed = [t \in Threads |-> {}]

\* A newer base overwrites the one that was not adopted yet.
Submit(i) ==
  /\ ~stopped /\ i > last
  /\ pending' = i
  /\ last' = i
  /\ TakeOut(Processor, Present(pending))
  /\ UNCHANGED <<current, wire, stopped>>

\* A fence, or the worker's cleanup after a stop: both slots, between sends.
DropAll(t) ==
  /\ wire = None
  /\ TakeOut(t, Kept)
  /\ pending' = None /\ current' = None
  /\ UNCHANGED <<wire, last, stopped>>

\* request_stop drops the pending base; a failure of the worker drops nothing.
Stop(t) ==
  /\ stopped' = TRUE
  /\ \/ TakeOut(t, Present(pending)) /\ pending' = None
     \/ UNCHANGED <<pending, owed>>
  /\ UNCHANGED <<current, wire, last>>

FirstBase ==
  /\ current = None /\ pending # None /\ wire = None
  /\ current' = pending
  /\ pending' = None
  /\ UNCHANGED <<wire, last, stopped, owed>>

\* The worker adopts the pending base, repeats the current one, or finds
\* neither eligible and sends the slate; the base it drops is owed.  Behind
\* the privacy latch it sends the slate and keeps both.
AdoptPending ==
  /\ pending # None /\ wire = None
  /\ TakeOut(Worker, Present(current))
  /\ wire' = pending
  /\ current' = pending /\ pending' = None
  /\ UNCHANGED <<last, stopped>>

RepeatCurrent ==
  /\ current # None /\ wire = None
  /\ TakeOut(Worker, Present(pending))
  /\ wire' = current
  /\ pending' = None
  /\ UNCHANGED <<current, last, stopped>>

SendReturns ==
  /\ owed[Worker] = {}
  /\ wire' = None
  /\ UNCHANGED <<pending, current, last, stopped, owed>>

Release(t, i) ==
  /\ i \in owed[t]
  /\ owed' = [owed EXCEPT ![t] = @ \ {i}]
  /\ UNCHANGED <<pending, current, wire, last, stopped>>

NextHandoff ==
  \/ \E i \in BaseIds : Submit(i)
  \/ \E t \in Threads : DropAll(t) \/ Stop(t) \/ \E i \in BaseIds : Release(t, i)
  \/ FirstBase \/ AdoptPending \/ RepeatCurrent \/ SendReturns

SpecHandoff == InitHandoff /\ [][NextHandoff]_handoff
=============================================================================
