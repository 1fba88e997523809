--------------------------- MODULE StreamDelivery --------------------------
(* How a frame becomes the JPEG of every connected viewer: the slot of      *)
(* hub.py with its asyncio subscriptions, and JpegBroadcaster in            *)
(* api/streaming.py, which encodes on executor threads, shares one job      *)
(* among the clients and keeps only the newest frame pending behind it.     *)
(*                                                                          *)
(* Threads: the publisher, the event loop (one client at a time between two *)
(* awaits), and the executor, whose threads also run the callbacks.  A      *)
(* delivery, the future shared by its clients, is the set that awaits it.   *)
(* Left out: the pixels, the timeout of get (the routes start over), and    *)
(* the order in which the executor takes jobs.                              *)
EXTENDS Naturals

CONSTANTS
  Clients,       \* connected viewers
  MaxSlot        \* bound: puts and clears of the slot

VARIABLES
  slotSeq, slotFull,   \* _Slot._seq, and whether it holds a value
  notifying,     \* subscribers the publisher has still to notify
  eventSet,      \* clients whose event is set
  clientAt, lastSeq,
  asked,         \* the sequence of the frame a client is having encoded, or 0
  latest,        \* [seq, ok]: the newest result
  running,       \* [seq, waiters, job]: job is "none", "encoding", "ok" or "failed"
  registered,    \* the running job has its completion callback
  pending,       \* [seq, waiters]: seq is 0 when nothing is pending
  completing     \* deliveries taken out by a callback and not set yet

slotVars == <<slotSeq, slotFull, notifying>>
clientVars == <<eventSet, clientAt, lastSeq, asked>>
jobVars == <<latest, running, registered, pending, completing>>
streamVars == <<slotVars, clientVars, jobVars>>

NoJob == [seq |-> 0, waiters |-> {}, job |-> "none"]
NothingPending == [seq |-> 0, waiters |-> {}]
Subscribed == {c \in Clients : clientAt[c] # "absent"}

InitStream ==
  /\ slotSeq = 0 /\ slotFull = FALSE /\ notifying = {}
  /\ eventSet = {}
  /\ clientAt = [c \in Clients |-> "absent"]
  /\ lastSeq = [c \in Clients |-> 0] /\ asked = [c \in Clients |-> 0]
  /\ latest = [seq |-> 0, ok |-> TRUE] /\ running = NoJob /\ registered = FALSE
  /\ pending = NothingPending /\ completing = {}

-----------------------------------------------------------------------------
(* The slot.                                                                *)

\* put and clear: a new sequence under the lock, then the subscribers it saw.
ChangeSlot(full) ==
  /\ notifying = {} /\ slotSeq < MaxSlot
  /\ slotSeq' = slotSeq + 1 /\ slotFull' = full /\ notifying' = Subscribed
  /\ UNCHANGED <<clientVars, jobVars>>

Put == ChangeSlot(TRUE)
ClearSlot == slotFull /\ ChangeSlot(FALSE)

\* _notify, and the event.set it queues on the loop.
Notify(c) ==
  /\ c \in notifying /\ notifying' = notifying \ {c} /\ eventSet' = eventSet \cup {c}
  /\ UNCHANGED <<slotSeq, slotFull, clientAt, lastSeq, asked, jobVars>>

-----------------------------------------------------------------------------
(* A client: JpegSubscription.get in a loop.                                *)

ClientGoes(c, step) == clientAt' = [clientAt EXCEPT ![c] = step]

\* The loop runs one coroutine until it awaits.
LoopFree == \A c \in Clients : clientAt[c] \notin {"encode", "register"}

Subscribe(c) ==
  /\ clientAt[c] = "absent" /\ LoopFree /\ ClientGoes(c, "check")
  /\ UNCHANGED <<slotVars, eventSet, lastSeq, asked, jobVars>>

Newer(c) == slotFull /\ slotSeq # lastSeq[c]

\* The check of the slot; the event is cleared under the publisher's lock.
CheckSlot(c) ==
  /\ clientAt[c] = "check" /\ LoopFree
  /\ IF Newer(c)
       THEN ClientGoes(c, "encode") /\ asked' = [asked EXCEPT ![c] = slotSeq]
            /\ UNCHANGED eventSet
       ELSE ClientGoes(c, "wait") /\ eventSet' = eventSet \ {c} /\ UNCHANGED asked
  /\ UNCHANGED <<slotVars, lastSeq, jobVars>>

Wake(c) ==
  /\ clientAt[c] = "wait" /\ c \in eventSet /\ LoopFree /\ ClientGoes(c, "check")
  /\ UNCHANGED <<slotVars, eventSet, lastSeq, asked, jobVars>>

Without(waiting, gone) == [waiting EXCEPT !.waiters = @ \ gone]

\* A viewer's subscription is closed: notifications pass it over, and the
\* shared delivery, shielded from it, goes on without it.
Leaves(gone) ==
  /\ clientAt' = [c \in Clients |-> IF c \in gone THEN "absent" ELSE clientAt[c]]
  /\ lastSeq' = [c \in Clients |-> IF c \in gone THEN 0 ELSE lastSeq[c]]
  /\ asked' = [c \in Clients |-> IF c \in gone THEN 0 ELSE asked[c]]
  /\ notifying' = notifying \ gone /\ eventSet' = eventSet \ gone

Disconnect(c) ==
  /\ clientAt[c] \in {"check", "wait", "await"} /\ LoopFree /\ Leaves({c})
  /\ running' = Without(running, {c}) /\ pending' = Without(pending, {c})
  /\ completing' = {Without(d, {c}) : d \in completing}
  /\ UNCHANGED <<slotSeq, slotFull, latest, registered>>

\* _start_locked.
StartJob(seq, waiters) == running' = [seq |-> seq, waiters |-> waiters, job |-> "encoding"]

\* _encode under the lock: the cached result, a job of its own, the running
\* one if it is new enough, or the one pending frame.
EncodeCached(c) ==
  /\ clientAt[c] = "encode" /\ latest.seq >= asked[c]
  /\ IF latest.ok
       THEN /\ ClientGoes(c, "check") /\ lastSeq' = [lastSeq EXCEPT ![c] = latest.seq]
            /\ asked' = [asked EXCEPT ![c] = 0] /\ UNCHANGED <<notifying, eventSet>>
       ELSE Leaves({c})
  /\ UNCHANGED <<slotSeq, slotFull, jobVars>>

EncodeStarts(c) ==
  /\ clientAt[c] = "encode" /\ latest.seq < asked[c] /\ running = NoJob
  /\ StartJob(asked[c], {c}) /\ registered' = FALSE /\ ClientGoes(c, "register")
  /\ UNCHANGED <<slotVars, eventSet, lastSeq, asked, latest, pending, completing>>

\* Mutant: whatever job runs is shared.
SharesAny(c) ==
  /\ clientAt[c] = "encode" /\ latest.seq < asked[c] /\ running # NoJob
  /\ running' = [running EXCEPT !.waiters = @ \cup {c}] /\ ClientGoes(c, "await")
  /\ UNCHANGED <<slotVars, eventSet, lastSeq, asked, latest, registered, pending,
                 completing>>

EncodeShares(c) ==
  /\ clientAt[c] = "encode" /\ latest.seq < asked[c] /\ running # NoJob
  /\ asked[c] <= running.seq
  /\ running' = [running EXCEPT !.waiters = @ \cup {c}] /\ ClientGoes(c, "await")
  /\ UNCHANGED <<slotVars, eventSet, lastSeq, asked, latest, registered, pending,
                 completing>>

EncodeCoalesces(c) ==
  /\ clientAt[c] = "encode" /\ latest.seq < asked[c] /\ running # NoJob
  /\ asked[c] > running.seq
  /\ pending' = [seq |-> IF asked[c] > pending.seq THEN asked[c] ELSE pending.seq,
                 waiters |-> pending.waiters \cup {c}]
  /\ ClientGoes(c, "await")
  /\ UNCHANGED <<slotVars, eventSet, lastSeq, asked, latest, running, registered,
                 completing>>

\* add_done_callback, after the lock; the job may be over by now.
RegisterCallback(c) ==
  /\ clientAt[c] = "register" /\ registered' = TRUE /\ ClientGoes(c, "await")
  /\ UNCHANGED <<slotVars, eventSet, lastSeq, asked, latest, running, pending,
                 completing>>

-----------------------------------------------------------------------------
(* The executor.                                                            *)

FinishJob(result) ==
  /\ running.job = "encoding" /\ running' = [running EXCEPT !.job = result]
  /\ UNCHANGED <<slotVars, clientVars, latest, registered, pending, completing>>

\* Mutant: the pending frame is started and stays pending.
CompleteKeepsPending ==
  /\ running.job \in {"ok", "failed"} /\ registered
  /\ latest' = IF running.seq > latest.seq
                 THEN [seq |-> running.seq, ok |-> running.job = "ok"] ELSE latest
  /\ completing' = completing \cup {[seq |-> running.seq, waiters |-> running.waiters,
                                     ok |-> running.job = "ok", next |-> pending.seq # 0]}
  /\ IF pending.seq # 0 THEN StartJob(pending.seq, pending.waiters) ELSE running' = NoJob
  /\ registered' = FALSE
  /\ UNCHANGED <<slotVars, clientVars, pending>>

\* _completed under the lock: keep the newest result, hand over to the pending
\* frame.
Complete ==
  /\ running.job \in {"ok", "failed"} /\ registered
  /\ latest' = IF running.seq > latest.seq
                 THEN [seq |-> running.seq, ok |-> running.job = "ok"] ELSE latest
  /\ completing' = completing \cup {[seq |-> running.seq, waiters |-> running.waiters,
                                     ok |-> running.job = "ok", next |-> pending.seq # 0]}
  /\ IF pending.seq # 0 THEN StartJob(pending.seq, pending.waiters) ELSE running' = NoJob
  /\ pending' = NothingPending /\ registered' = FALSE
  /\ UNCHANGED <<slotVars, clientVars>>

\* Mutant: after a failure nobody listens to the job that was started.
DeliverStopsAtError(d) ==
  /\ d \in completing /\ completing' = completing \ {d}
  /\ IF d.ok
       THEN /\ clientAt' = [c \in Clients |-> IF c \in d.waiters THEN "check" ELSE clientAt[c]]
            /\ lastSeq' = [c \in Clients |-> IF c \in d.waiters THEN d.seq ELSE lastSeq[c]]
            /\ asked' = [c \in Clients |-> IF c \in d.waiters THEN 0 ELSE asked[c]]
            /\ UNCHANGED <<notifying, eventSet>>
       ELSE Leaves(d.waiters)
  /\ registered' = (registered \/ (d.next /\ d.ok))
  /\ UNCHANGED <<slotSeq, slotFull, latest, running, pending>>

\* _completed after the lock: set the delivery, and only then register the
\* callback of the job it started.  An error ends the streams that awaited it.
Deliver(d) ==
  /\ d \in completing /\ completing' = completing \ {d}
  /\ IF d.ok
       THEN /\ clientAt' = [c \in Clients |-> IF c \in d.waiters THEN "check" ELSE clientAt[c]]
            /\ lastSeq' = [c \in Clients |-> IF c \in d.waiters THEN d.seq ELSE lastSeq[c]]
            /\ asked' = [c \in Clients |-> IF c \in d.waiters THEN 0 ELSE asked[c]]
            /\ UNCHANGED <<notifying, eventSet>>
       ELSE Leaves(d.waiters)
  /\ registered' = (registered \/ d.next)
  /\ UNCHANGED <<slotSeq, slotFull, latest, running, pending>>

-----------------------------------------------------------------------------
Client(c) ==
  \/ CheckSlot(c) \/ Wake(c) \/ RegisterCallback(c)
  \/ EncodeCached(c) \/ EncodeStarts(c) \/ EncodeShares(c) \/ EncodeCoalesces(c)

FinishesJob == FinishJob("ok") \/ FinishJob("failed")
Delivers == \E d \in completing : Deliver(d)

NextStream ==
  \/ Put \/ ClearSlot
  \/ \E c \in Clients : Notify(c) \/ Client(c) \/ Subscribe(c) \/ Disconnect(c)
  \/ FinishesJob \/ Complete \/ Delivers

\* The loop runs what is ready in turn, the publisher's notifications and the
\* executor go on, an encoder returns or raises.  Nothing is assumed of viewers
\* or of new frames.
StreamFairness ==
  /\ \A c \in Clients : SF_streamVars(Client(c)) /\ WF_streamVars(Notify(c))
  /\ WF_streamVars(FinishesJob) /\ WF_streamVars(Complete) /\ WF_streamVars(Delivers)

SpecStream == InitStream /\ [][NextStream]_streamVars
FairStream == SpecStream /\ StreamFairness

-----------------------------------------------------------------------------
StreamTypes ==
  /\ slotSeq \in 0..MaxSlot /\ slotFull \in BOOLEAN /\ notifying \subseteq Clients
  /\ eventSet \subseteq Clients
  /\ clientAt \in [Clients ->
       {"absent", "check", "wait", "encode", "register", "await"}]
  /\ lastSeq \in [Clients -> 0..MaxSlot] /\ asked \in [Clients -> 0..MaxSlot]
  /\ latest \in [seq : 0..MaxSlot, ok : BOOLEAN]
  /\ running \in [seq : 0..MaxSlot, waiters : SUBSET Clients,
                  job : {"none", "encoding", "ok", "failed"}]
  /\ registered \in BOOLEAN
  /\ pending \in [seq : 0..MaxSlot, waiters : SUBSET Clients]
  /\ completing \subseteq [seq : 1..MaxSlot, waiters : SUBSET Clients, ok : BOOLEAN,
                           next : BOOLEAN]

\* A client that awaits is owed one answer: it is in the running delivery, in
\* the pending one, or in exactly one that a callback is about to set.
OwedOneAnswer ==
  \A c \in Clients : clientAt[c] = "await" =>
    \/ c \in running.waiters /\ c \notin pending.waiters
         /\ \A d \in completing : c \notin d.waiters
    \/ c \notin running.waiters /\ c \in pending.waiters
         /\ \A d \in completing : c \notin d.waiters
    \/ c \notin running.waiters /\ c \notin pending.waiters
         /\ \E d \in completing : c \in d.waiters
                /\ \A e \in completing : c \in e.waiters => e = d

\* What a client is given is at least as new as the frame it took, whichever
\* job it shared, and newer than what it was given before.
AnswersAreFresh ==
  [][ \A c \in Clients : lastSeq'[c] \notin {0, lastSeq[c]}
        => lastSeq'[c] >= asked[c] /\ lastSeq'[c] > lastSeq[c] ]_streamVars

\* Waiting although a newer frame is there, or awaiting an encoding.
Owed(c) == (clientAt[c] = "wait" /\ Newer(c)) \/ clientAt[c] = "await"

\* Nobody is forgotten: a client that waits while a newer frame is there wakes
\* up, and one that awaits an encoding is answered.
ClientsServed == \A c \in Clients : Owed(c) ~> ~Owed(c)
=============================================================================
