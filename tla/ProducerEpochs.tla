-------------------------- MODULE ProducerEpochs --------------------------
(***************************************************************************)
(* Who owns a performance epoch: RuntimePerformanceTracker's buckets       *)
(* (src/custback/runtime_performance.py) and the _PublisherBridge that     *)
(* ties each base frame in the publisher's custody to the epoch that       *)
(* produced it (src/custback/pipeline.py).  Composed with BaseHandoff,     *)
(* which OutputPublisher implements.                                       *)
(*                                                                         *)
(* The processing thread binds a new epoch when a generation changes, and  *)
(* hands a base over under bridge.lock: retain_base, publisher.submit and  *)
(* the callbacks of the base it overwrote.  A callback of any thread pops  *)
(* its base under bridge.lock and then, without it, drops the reference.   *)
(* The tracker's own lock makes each of its methods one step.              *)
(*                                                                         *)
(* Left out: the samples and health of an epoch, its summary and the log,  *)
(* and matte evidence, which is popped together with the base.             *)
(***************************************************************************)
EXTENDS BaseHandoff, FiniteSets

CONSTANT MaxKey   \* bound: epoch keys are 0..MaxKey, in the order bound

ASSUME MaxKeyIsNatural == MaxKey \in Nat

Keys == 0..MaxKey

VARIABLES
  key,        \* _epoch_key, the epoch receiving samples
  closed,     \* _closed_epochs: "absent", "live" or "final" for each key
  lastKey,    \* _last_closed_epoch_key
  references, \* _epoch_references
  retained,   \* the ids in retained_base_epochs
  producer,   \* performance_epoch of the envelope of each id
  lock,       \* the owner of bridge.lock between steps; None if free
  pc,         \* where the processing thread is in its handoff
  nextId,     \* next_base_id
  popped      \* the epoch a thread popped and is about to release, as a set

tracker == <<key, closed, lastKey, references>>
bridge == <<retained, producer, lock>>
handing == <<pc, nextId>>
vars == <<handoff, tracker, bridge, handing, popped>>

Init ==
  /\ InitHandoff
  /\ key = 0 /\ lastKey = None
  /\ closed = [k \in Keys |-> "absent"]
  /\ references = [k \in Keys |-> 0]
  /\ retained = {} /\ producer = [i \in BaseIds |-> None]
  /\ lock = None /\ pc = "idle" /\ nextId = 1
  /\ popped = [t \in Threads |-> {}]

\* A thread that owes no callback and is not inside one.
Quiet(t) == owed[t] = {} /\ popped[t] = {}

-----------------------------------------------------------------------------
\* The tracker.

Referenced == {k \in Keys : references[k] > 0}

\* _cleanup_closed_epochs_locked, on the buckets c with references r.
Cleaned(c, r, newest) ==
  [k \in Keys |-> IF c[k] = "final" /\ k # newest /\ r[k] = 0
                    THEN "absent" ELSE c[k]]

\* bind_epoch, with a key not used before: the bucket of the current epoch is
\* closed, and finalized at once when no envelope refers to it.
BindEpoch ==
  /\ pc = "idle" /\ Quiet(Processor)
  /\ key < MaxKey
  /\ key' = key + 1
  /\ lastKey' = key
  /\ LET unused == references[key] = 0
     IN  closed' = Cleaned([closed EXCEPT ![key] = IF unused THEN "final" ELSE "live"],
                           references, key)
  /\ UNCHANGED <<handoff, references, bridge, handing, popped>>

\* Mutant: a closed epoch is finalized by the first envelope that leaves it.
FinalizesAtAnyRelease(k) == closed[k] = "live"

\* The last reference to a closed epoch finalizes it.
Finalizes(k) == references[k] = 1 /\ closed[k] = "live"

\* release_epoch
ReleaseEpoch(t) ==
  /\ \E k \in popped[t] :
       LET left == [references EXCEPT ![k] = @ - 1]
       IN  /\ references' = left
           /\ closed' = Cleaned(IF Finalizes(k) THEN [closed EXCEPT ![k] = "final"]
                                                ELSE closed, left, lastKey)
  /\ popped' = [popped EXCEPT ![t] = {}]
  /\ UNCHANGED <<handoff, key, lastKey, bridge, handing>>

-----------------------------------------------------------------------------
\* The processing thread's handoff of one base, all of it under bridge.lock.

\* The third distinct key is let in, the fourth is not.
MayRetain == key \in Referenced \/ Cardinality(Referenced) < 3

\* Mutant: an epoch is counted once, whatever the number of its bases.
SetReference == [references EXCEPT ![key] = 1]

AddReference == [references EXCEPT ![key] = @ + 1]

\* SafeBaseFrame.create, then retain_base.  Only this thread binds epochs, so
\* the epoch of the envelope is still the current one.
RetainBase ==
  /\ pc = "idle" /\ Quiet(Processor)
  /\ lock = None
  /\ nextId \in BaseIds
  /\ MayRetain
  /\ references' = AddReference
  /\ retained' = retained \cup {nextId}
  /\ producer' = [producer EXCEPT ![nextId] = key]
  /\ lock' = Processor
  /\ pc' = "submit"
  /\ UNCHANGED <<handoff, key, closed, lastKey, nextId, popped>>

\* "publisher retained more than three producer epochs": the pipeline fails.
RetainRaises ==
  /\ pc = "idle" /\ Quiet(Processor)
  /\ lock = None
  /\ nextId \in BaseIds
  /\ ~MayRetain
  /\ pc' = "overflow"
  /\ UNCHANGED <<handoff, tracker, bridge, nextId, popped>>

SubmitAccepted ==
  /\ pc = "submit"
  /\ Submit(nextId)
  /\ pc' = "leave"
  /\ UNCHANGED <<tracker, bridge, nextId, popped>>

\* submit returned False or raised: release_base takes the envelope back.
SubmitRefused ==
  /\ pc = "submit"
  /\ retained' = retained \ {nextId}
  /\ popped' = [popped EXCEPT ![Processor] = {producer[nextId]}]
  /\ pc' = "leave"
  /\ UNCHANGED <<handoff, tracker, producer, lock, nextId>>

\* The overwritten base was called back under the lock, which is reentrant.
LeaveBridge ==
  /\ pc = "leave" /\ Quiet(Processor)
  /\ lock' = None
  /\ pc' = "idle"
  /\ nextId' = nextId + 1
  /\ UNCHANGED <<handoff, tracker, retained, producer, popped>>

-----------------------------------------------------------------------------
\* release_base, the on_release callback of the thread that took the base out.
\* It would raise on a base not retained: RetainedIsCustody excludes it.

\* Mutant: the base stays in the map.
PoppedNothing(i) == retained

Popped(i) == retained \ {i}

ReleaseBase(t, i) ==
  /\ lock = None \/ lock = t
  /\ popped[t] = {}
  /\ Release(t, i)
  /\ retained' = Popped(i)
  /\ popped' = [popped EXCEPT ![t] = {producer[i]}]
  /\ UNCHANGED <<tracker, producer, lock, handing>>

-----------------------------------------------------------------------------
\* The publisher's other steps, by threads that are done calling back and do
\* not hold the bridge.

Free(t) == Quiet(t) /\ lock # t

PublisherDropsAll(t) == Free(t) /\ DropAll(t)
PublisherStops(t) == Free(t) /\ Stop(t)
PublisherSelects == Free(Worker) /\ (FirstBase \/ AdoptPending \/ RepeatCurrent)
PublisherReturns == Free(Worker) /\ wire # None /\ SendReturns

PublisherStep ==
  /\ \/ \E t \in Threads : PublisherDropsAll(t) \/ PublisherStops(t)
     \/ PublisherSelects \/ PublisherReturns
  /\ UNCHANGED <<tracker, bridge, handing, popped>>

Next ==
  \/ BindEpoch
  \/ RetainBase \/ RetainRaises
  \/ SubmitAccepted \/ SubmitRefused \/ LeaveBridge
  \/ \E t \in Threads :
       \/ ReleaseEpoch(t)
       \/ \E i \in BaseIds : ReleaseBase(t, i)
  \/ PublisherStep

Spec == Init /\ [][Next]_vars

-----------------------------------------------------------------------------
\* Properties.

TypeOK ==
  /\ key \in Keys /\ lastKey \in Keys \cup {None}
  /\ closed \in [Keys -> {"absent", "live", "final"}]
  /\ references \in [Keys -> 0..(MaxBase + 1)]
  /\ retained \subseteq BaseIds /\ producer \in [BaseIds -> Keys \cup {None}]
  /\ lock \in {None, Processor}
  /\ pc \in {"idle", "submit", "leave", "overflow"} /\ nextId \in 1..(MaxBase + 1)
  /\ popped \in [Threads -> SUBSET Keys] /\ \A t \in Threads : Cardinality(popped[t]) <= 1

\* record_output adds a send to a bucket that is open, and else ignores it.
Attributable(k) == k = key \/ closed[k] = "live"

\* A send is never lost: whenever a base is in the sink, adopted or repeated,
\* before or after later generations, its epoch still takes samples.
LateSendAttributed == wire # None => Attributable(producer[wire])

\* The tracker's reference counts are those of the bases the publisher holds,
\* of the one being handed over and of the callbacks in progress; and a closed
\* epoch is final when, and only when, nothing refers to it any more.
ReferencesExact ==
  \A k \in Keys :
    /\ references[k] = Cardinality({i \in retained : producer[i] = k})
                       + Cardinality({t \in Threads : k \in popped[t]})
    /\ closed[k] = "live" => references[k] > 0
    /\ closed[k] = "final" => references[k] = 0

\* The bridge retains exactly what is in the publisher's custody or being
\* submitted, so that no callback finds its base unknown and none is left over.
RetainedIsCustody ==
  retained = Kept \cup (IF pc = "submit" THEN {nextId} ELSE {})
             \cup UNION {owed[t] : t \in Threads}

\* "The output publisher owns at most a current and a pending envelope": the
\* fourth key of retain_epoch is never asked for.
NeverFourEpochs == pc # "overflow"
=============================================================================
