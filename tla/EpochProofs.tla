----------------------------- MODULE EpochProofs ----------------------------
(***************************************************************************)
(* Proofs about the performance tracker's books, for any number of bases,  *)
(* epochs, controllers and counted sends: who reports the publisher's      *)
(* counters (PublisherTelemetry) and who owns an epoch (ProducerEpochs).   *)
(***************************************************************************)
EXTENDS MCEpochs, FiniteSetTheorems, TLAPS

-----------------------------------------------------------------------------
(* The counters.  Reports cross each other, but each carries a snapshot     *)
(* that was current once, so that none is ahead of the publisher (Behind).  *)
(* The terminal report is taken when nobody is left to count or to report   *)
(* (Quiescent): it is exact, and nothing follows it.                        *)

Counters == [overwrites : Nat, sends : Nat]

NoLater(s, c) == s.overwrites <= c.overwrites /\ s.sends <= c.sends

Behind ==
  /\ counts \in Counters /\ tracked \in Counters /\ NoLater(tracked, counts)
  /\ reporter \in {"delivering", "failing"} => receipt \in Counters /\ NoLater(receipt, counts)
  /\ closer \in {"reporting", "reportingTerminal"} => snap \in Counters /\ NoLater(snap, counts)

Quiescent ==
  /\ closer \in {"terminal", "reportingTerminal", "done"} => reporter = "done"
  /\ closer = "reportingTerminal" => snap = counts

ReportsInv == Behind /\ Quiescent /\ FinalReportExact

LEMMA InitReportsInv == Reports!Init => ReportsInv
  BY DEF Reports!Init, Reports!Zero, ReportsInv, Behind, Quiescent, Counters, NoLater,
         FinalReportExact, Reports!FinalReportExact

LEMMA WorkerKeepsReports ==
  ASSUME ReportsInv,
         \/ Reports!SinkAccepts \/ Reports!Deliver \/ Reports!DeliverRaises
         \/ Reports!ReportFailure \/ Reports!WorkerStops
  PROVE  ReportsInv'
  <1> USE DEF ReportsInv, Behind, Quiescent, Counters, NoLater, FinalReportExact,
              Reports!FinalReportExact
  <1>1. CASE Reports!SinkAccepts
    BY <1>1 DEF Reports!SinkAccepts
  <1>2. CASE Reports!Deliver
    BY <1>2 DEF Reports!Deliver
  <1>3. CASE Reports!DeliverRaises
    BY <1>3 DEF Reports!DeliverRaises
  <1>4. CASE Reports!ReportFailure
    BY <1>4 DEF Reports!ReportFailure
  <1>5. CASE Reports!WorkerStops
    BY <1>5 DEF Reports!WorkerStops
  <1> QED
    BY <1>1, <1>2, <1>3, <1>4, <1>5

\* The last report is not rejected: no counter of it went down.
LEMMA ProcessorKeepsReports ==
  ASSUME ReportsInv,
         \/ Reports!Overwrite \/ Reports!RequestStop \/ Reports!TakeSnapshot
         \/ Reports!Report \/ Reports!Close
  PROVE  ReportsInv'
  <1> USE DEF ReportsInv, Behind, Quiescent, Counters, NoLater, FinalReportExact,
              Reports!FinalReportExact
  <1>1. CASE Reports!Overwrite
    BY <1>1 DEF Reports!Overwrite
  <1>2. CASE Reports!RequestStop
    BY <1>2 DEF Reports!RequestStop
  <1>3. CASE Reports!TakeSnapshot
    BY <1>3 DEF Reports!TakeSnapshot
  <1>4. CASE Reports!Report
    BY <1>4 DEF Reports!Report, Reports!Monotonic
  <1>5. CASE Reports!Close
    BY <1>5 DEF Reports!Close
  <1> QED
    BY <1>1, <1>2, <1>3, <1>4, <1>5

LEMMA ReportsStep == ReportsInv /\ [Reports!Next]_Reports!vars => ReportsInv'
  <1> SUFFICES ASSUME ReportsInv, [Reports!Next]_Reports!vars PROVE ReportsInv'
    OBVIOUS
  <1>1. CASE Reports!Over \/ UNCHANGED Reports!vars
    BY <1>1 DEF Reports!Over, Reports!vars, ReportsInv, Behind, Quiescent, Counters, NoLater,
                FinalReportExact, Reports!FinalReportExact
  <1> QED
    BY <1>1, WorkerKeepsReports, ProcessorKeepsReports DEF Reports!Next

\* However the reports of the worker and of the shutdown cross, and whether or
\* not one was rejected: what the tracker shows in the end are the publisher's
\* final counters and a terminal state.
THEOREM LastReportIsExact == Reports!Spec => []FinalReportExact
  <1>1. ReportsInv => FinalReportExact
    BY DEF ReportsInv
  <1> QED
    BY <1>1, InitReportsInv, ReportsStep, PTL DEF Reports!Spec

-----------------------------------------------------------------------------
(* The epochs.  The publisher's slots and the callbacks owed never share a  *)
(* base and hold only ids given out (Custody); a thread has popped at most  *)
(* the epoch of one base (Popping); and an epoch that something refers to   *)
(* is the current one or closed and live (InUse), so that a base in the     *)
(* sink, which the bridge retains, always finds its bucket.                 *)

InCustody == Kept \cup UNION {owed[t] : t \in Threads}

Custody ==
  /\ pending \in BaseIds \cup {None} /\ current \in BaseIds \cup {None}
  /\ owed \in [Threads -> SUBSET BaseIds]
  /\ pending # None => pending # current
  /\ \A t \in Threads : owed[t] \cap Kept = {}
  /\ \A t, s \in Threads : t # s => owed[t] \cap owed[s] = {}
  /\ wire # None => wire = current

Ids ==
  /\ nextId \in Nat \ {0} /\ last \in Nat
  /\ last <= nextId /\ (pc # "leave" => last < nextId)
  /\ \A i \in InCustody : i <= last

Handing ==
  /\ pc \in {"submit", "leave"} => lock = Processor
  /\ pc = "submit" => /\ Quiet(Processor) /\ nextId \in BaseIds
                      /\ nextId \in retained /\ producer[nextId] = key

Popping ==
  /\ popped \in [Threads -> SUBSET Keys]
  /\ \A t \in Threads : popped[t] = {} \/ \E k \in Keys : popped[t] = {k}
  /\ IsFiniteSet({t \in Threads : popped[t] # {}})

InUse ==
  /\ key \in Keys
  /\ closed \in [Keys -> {"absent", "live", "final"}]
  /\ references \in [Keys -> Nat]
  /\ retained \subseteq BaseIds
  /\ producer \in [BaseIds -> Keys \cup {None}]
  /\ \A i \in retained : producer[i] \in Keys
  /\ \A k \in Keys : references[k] > 0 => Attributable(k)
  /\ \A k \in Keys : k >= key => closed[k] = "absent"

EpochInv ==
  /\ Custody /\ Ids /\ Handing /\ Popping /\ InUse
  /\ ReferencesExact /\ RetainedIsCustody

EpochShape == Custody /\ Ids /\ Handing /\ Popping /\ InUse

LEMMA InitEpochInv == Init => EpochInv
  <1> SUFFICES ASSUME Init PROVE EpochInv
    OBVIOUS
  <1>1. Kept = {} /\ UNION {owed[t] : t \in Threads} = {} /\ retained = {} /\ pc = "idle"
    BY DEF Init, InitHandoff, Kept, Present
  <1>2. Custody /\ Ids /\ Handing
    BY <1>1 DEF Init, InitHandoff, Custody, Ids, Handing, InCustody, BaseIds
  <1>3. Popping
    BY FS_EmptySet DEF Init, Popping
  <1>4. InUse
    BY MaxKeyIsNatural DEF Init, InUse, Keys, Attributable
  <1>5. ReferencesExact
    <2> SUFFICES ASSUME NEW k \in Keys
                 PROVE  /\ {i \in retained : producer[i] = k} = {}
                        /\ {t \in Threads : k \in popped[t]} = {}
      BY FS_EmptySet DEF Init, ReferencesExact
    <2> QED
      BY DEF Init
  <1>6. RetainedIsCustody
    BY <1>1 DEF RetainedIsCustody
  <1> QED
    BY <1>2, <1>3, <1>4, <1>5, <1>6 DEF EpochInv

-----------------------------------------------------------------------------
(* Who has which base.                                                      *)

LEMMA CustodyTyped == Custody => InCustody \subseteq Nat
  BY DEF Custody, InCustody, Kept, Present, BaseIds

LEMMA Moved ==
  ASSUME Custody, NEW t \in Threads, owed[t] = {},
         NEW S \in SUBSET Kept, owed' = [owed EXCEPT ![t] = S],
         pending' \in BaseIds \cup {None}, current' \in BaseIds \cup {None},
         pending' # None => pending' # current',
         Kept' = Kept \ S, wire' # None => wire' = current'
  PROVE  Custody' /\ InCustody' = InCustody
  <1>1. owed' \in [Threads -> SUBSET BaseIds]
    BY DEF Custody, Kept, Present
  <1>2. \A s \in Threads : owed'[s] = IF s = t THEN S ELSE owed[s]
    BY DEF Custody
  <1>3. \A s, r \in Threads : s # r => owed'[s] \cap owed'[r] = {}
    BY <1>2 DEF Custody
  <1>4. \A s \in Threads : owed'[s] \cap Kept' = {}
    BY <1>2 DEF Custody
  <1>5. Custody'
    BY <1>1, <1>3, <1>4 DEF Custody
  <1>6. UNION {owed'[s] : s \in Threads} = S \cup UNION {owed[s] : s \in Threads}
    BY <1>2
  <1> QED
    BY <1>5, <1>6 DEF InCustody

LEMMA PublisherMoves ==
  ASSUME Custody, PublisherStep PROVE Custody' /\ InCustody' = InCustody
  <1> USE NoneIsNoBase DEF Kept, Present, TakeOut, Free, Quiet
  <1>1. ASSUME NEW t \in Threads, PublisherDropsAll(t) PROVE Custody' /\ InCustody' = InCustody
    <2>1. owed[t] = {} /\ owed' = [owed EXCEPT ![t] = Kept] /\ Kept' = {} /\ wire' = None
          /\ pending' = None /\ current' = None
      BY <1>1 DEF PublisherDropsAll, DropAll
    <2> QED
      BY <2>1, Moved
  <1>2. ASSUME NEW t \in Threads, PublisherStops(t) PROVE Custody' /\ InCustody' = InCustody
    <2>1. CASE UNCHANGED <<pending, owed>>
      BY <1>2, <2>1 DEF PublisherStops, Stop, Custody, InCustody
    <2>2. CASE TakeOut(t, Present(pending)) /\ pending' = None
      <3>1. owed[t] = {} /\ owed' = [owed EXCEPT ![t] = Present(pending)]
            /\ current' = current /\ wire' = wire
        BY <1>2, <2>2 DEF PublisherStops, Stop
      <3>2. Kept' = Kept \ Present(pending)
        BY <2>2, <3>1 DEF Custody
      <3> QED
        BY <2>2, <3>1, <3>2, Moved DEF Custody
    <2> QED
      BY <1>2, <2>1, <2>2 DEF PublisherStops, Stop
  <1>3. CASE FirstBase
    BY <1>3 DEF FirstBase, Custody, InCustody
  <1>4. CASE AdoptPending
    <2>1. owed[Worker] = {} /\ owed' = [owed EXCEPT ![Worker] = Present(current)]
          /\ current' = pending /\ pending' = None /\ wire' = pending /\ pending # None
      BY <1>4 DEF AdoptPending
    <2>2. Kept' = Kept \ Present(current)
      BY <2>1 DEF Custody
    <2> QED
      BY <2>1, <2>2, Moved DEF Custody, Threads
  <1>5. CASE RepeatCurrent
    <2>1. owed[Worker] = {} /\ owed' = [owed EXCEPT ![Worker] = Present(pending)]
          /\ current' = current /\ pending' = None /\ wire' = current
      BY <1>5 DEF RepeatCurrent
    <2>2. Kept' = Kept \ Present(pending)
      BY <2>1 DEF Custody
    <2> QED
      BY <2>1, <2>2, Moved DEF Custody, Threads
  <1>6. CASE SendReturns
    BY <1>6 DEF SendReturns, Custody, InCustody
  <1> QED
    BY <1>1, <1>2, <1>3, <1>4, <1>5, <1>6
       DEF PublisherStep, PublisherSelects, PublisherReturns
LEMMA PublisherKeeps == EpochInv /\ PublisherStep => EpochInv'
  <1> SUFFICES ASSUME EpochInv, PublisherStep PROVE EpochInv'
    OBVIOUS
  <1> USE DEF EpochInv
  <1>1. Custody' /\ InCustody' = InCustody
    BY PublisherMoves
  <1>2. UNCHANGED <<tracker, bridge, handing, popped, last>>
    BY DEF PublisherStep, PublisherDropsAll, PublisherStops, PublisherSelects, PublisherReturns,
           DropAll, Stop, FirstBase, AdoptPending, RepeatCurrent, SendReturns
  <1>3. Ids'
    BY <1>1, <1>2 DEF Ids, handing
  <1>4. pc = "submit" => owed'[Processor] = {}
    <2> SUFFICES ASSUME pc = "submit" PROVE owed'[Processor] = {}
      OBVIOUS
    <2>1. lock = Processor /\ owed[Processor] = {} /\ Processor \in Threads
      BY DEF Handing, Quiet, Threads
    <2>2. \A t \in Threads : Free(t) => t # Processor
      BY <2>1 DEF Free
    <2>3. owed' = owed \/ \E t \in Threads : \E S : t # Processor /\ owed' = [owed EXCEPT ![t] = S]
      BY <2>2, ThreadsDistinct
         DEF PublisherStep, PublisherDropsAll, PublisherStops, PublisherSelects,
             PublisherReturns, DropAll, Stop, FirstBase, AdoptPending, RepeatCurrent,
             SendReturns, TakeOut, Threads
    <2> QED
      BY <2>1, <2>3 DEF Custody
  <1>5. Handing'
    BY <1>2, <1>4 DEF Handing, Quiet, handing, bridge, tracker
  <1>6. Popping' /\ InUse'
    BY <1>2 DEF Popping, InUse, Attributable, tracker, bridge
  <1>7. ReferencesExact'
    BY <1>2 DEF ReferencesExact, tracker, bridge
  <1>8. RetainedIsCustody'
    BY <1>1, <1>2 DEF RetainedIsCustody, InCustody, bridge, handing
  <1> QED
    BY <1>1, <1>3, <1>5, <1>6, <1>7, <1>8

-----------------------------------------------------------------------------
(* What is counted.                                                         *)

Bases(k) == {i \in retained : producer[i] = k}
Poppers(k) == {t \in Threads : k \in popped[t]}

LEMMA Countable ==
  ASSUME EpochInv, NEW k
  PROVE  /\ IsFiniteSet(Bases(k)) /\ Cardinality(Bases(k)) \in Nat
         /\ IsFiniteSet(Poppers(k)) /\ Cardinality(Poppers(k)) \in Nat
  <1>1. IsFiniteSet(BaseIds)
    BY MaxBaseIsNatural, FS_Interval DEF BaseIds
  <1>2. Bases(k) \in SUBSET BaseIds
    BY DEF Bases, EpochInv, InUse
  <1>3. IsFiniteSet(Bases(k))
    BY <1>1, <1>2, FS_Subset
  <1>4. Poppers(k) \in SUBSET {t \in Threads : popped[t] # {}}
    BY DEF Poppers
  <1>5. IsFiniteSet(Poppers(k))
    BY <1>4, FS_Subset DEF EpochInv, Popping
  <1> QED
    BY <1>3, <1>5, FS_CardinalityType

Accounted(k) ==
  /\ references[k] = Cardinality(Bases(k)) + Cardinality(Poppers(k))
  /\ closed[k] = "live" => references[k] > 0
  /\ closed[k] = "final" => references[k] = 0

LEMMA AllAccounted == ReferencesExact <=> \A k \in Keys : Accounted(k)
  BY DEF ReferencesExact, Accounted, Bases, Poppers

\* Whatever refers to an epoch shows in its count.
LEMMA CountedOnce ==
  ASSUME EpochInv, NEW k \in Keys, Bases(k) # {} \/ Poppers(k) # {}
  PROVE  references[k] > 0
  <1>1. /\ Bases(k) # {} => Cardinality(Bases(k)) # 0
        /\ Poppers(k) # {} => Cardinality(Poppers(k)) # 0
    BY Countable, FS_EmptySet
  <1>2. Accounted(k)
    BY AllAccounted DEF EpochInv
  <1> QED
    BY <1>1, <1>2, Countable DEF Accounted

\* A new generation: the bucket left behind is live while anything refers to it.
LEMMA BindEpochKeeps == EpochInv /\ BindEpoch => EpochInv'
  <1> SUFFICES ASSUME EpochInv, BindEpoch PROVE EpochInv'
    OBVIOUS
  <1> USE DEF EpochInv
  <1>1. /\ key' = key + 1 /\ key < MaxKey /\ lastKey' = key /\ pc = "idle"
        /\ UNCHANGED <<handoff, references, bridge, handing, popped>>
    BY DEF BindEpoch
  <1>2. key \in Nat /\ key \in Keys /\ key' \in Keys
    BY <1>1, MaxKeyIsNatural DEF InUse, Keys
  <1>3. /\ closed'[key] = IF references[key] = 0 THEN "final" ELSE "live"
        /\ \A k \in Keys \ {key} :
             closed'[k] = IF closed[k] = "final" /\ references[k] = 0 THEN "absent" ELSE closed[k]
    BY <1>2 DEF BindEpoch, Cleaned, InUse
  <1>4. closed' \in [Keys -> {"absent", "live", "final"}]
    <2>1. closed' = [k \in Keys |-> closed'[k]]
      BY DEF BindEpoch, Cleaned
    <2>2. \A k \in Keys : closed'[k] \in {"absent", "live", "final"}
      BY <1>3 DEF InUse
    <2> QED
      BY <2>1, <2>2
  <1>5. \A k \in Keys : references[k] \in Nat /\ (references[k] > 0 => k = key \/ closed[k] = "live")
    BY DEF InUse, Attributable
  <1>6. \A k \in Keys : references[k] > 0 => closed'[k] = "live"
    BY <1>3, <1>5
  <1>7. \A k \in Keys : k >= key' => closed'[k] = "absent"
    BY <1>1, <1>2, <1>3 DEF InUse, Keys
  <1>8. InUse'
    BY <1>1, <1>2, <1>4, <1>6, <1>7 DEF InUse, Attributable, bridge
  <1>9. \A k \in Keys : /\ closed'[k] = "live" => references[k] > 0
                        /\ closed'[k] = "final" => references[k] = 0
    <2> SUFFICES ASSUME NEW k \in Keys
                 PROVE  /\ closed'[k] = "live" => references[k] > 0
                        /\ closed'[k] = "final" => references[k] = 0
      OBVIOUS
    <2>1. (closed[k] = "live" => references[k] > 0) /\ (closed[k] = "final" => references[k] = 0)
      BY DEF ReferencesExact
    <2>2. references[k] \in Nat
      BY <1>5
    <2>3. CASE k = key
      BY <1>3, <2>2, <2>3
    <2>4. CASE k # key
      BY <1>3, <2>1, <2>4
    <2> QED
      BY <2>3, <2>4
  <1>10. ReferencesExact'
    BY <1>1, <1>9 DEF ReferencesExact, bridge
  <1> QED
    BY <1>1, <1>8, <1>10 DEF Custody, Ids, InCustody, Handing, Quiet, Popping, RetainedIsCustody,
                             Kept, handoff, bridge, handing
\* One base more, for the current epoch.
LEMMA RetainBaseKeeps == EpochInv /\ RetainBase => EpochInv'
  <1> SUFFICES ASSUME EpochInv, RetainBase PROVE EpochInv'
    OBVIOUS
  <1> USE DEF EpochInv
  <1>1. /\ pc = "idle" /\ pc' = "submit" /\ lock' = Processor /\ Quiet(Processor)
        /\ nextId \in BaseIds /\ references' = [references EXCEPT ![key] = @ + 1]
        /\ retained' = retained \cup {nextId} /\ producer' = [producer EXCEPT ![nextId] = key]
        /\ UNCHANGED <<handoff, key, closed, lastKey, nextId, popped>>
    BY DEF RetainBase, AddReference
  <1>2. key \in Keys
    BY DEF InUse
  <1>3. Kept' = Kept /\ InCustody' = InCustody
    BY <1>1 DEF Kept, Present, InCustody, handoff
  <1>4. nextId \notin InCustody /\ nextId \notin retained
    BY <1>1 DEF Ids, RetainedIsCustody, InCustody, BaseIds
  <1>5. Custody'
    BY <1>1, <1>3 DEF Custody, handoff
  <1>6. Ids'
    BY <1>1, <1>3 DEF Ids, handoff
  <1>7. producer' \in [BaseIds -> Keys \cup {None}] /\ producer'[nextId] = key
        /\ \A i \in retained : producer'[i] = producer[i]
    BY <1>1, <1>2, <1>4 DEF InUse
  <1>8. Handing' /\ Popping'
    BY <1>1, <1>7 DEF Handing, Quiet, Popping, handoff
  <1>9. references' \in [Keys -> Nat]
        /\ \A k \in Keys : references'[k] = IF k = key THEN references[k] + 1 ELSE references[k]
    BY <1>1, <1>2 DEF InUse
  <1>10. InUse'
    <2>1. \A i \in retained' : producer'[i] \in Keys
      BY <1>1, <1>2, <1>7 DEF InUse
    <2>2. \A k \in Keys : references'[k] > 0 => k = key \/ closed[k] = "live"
      BY <1>9 DEF InUse, Attributable
    <2> QED
      BY <1>1, <1>7, <1>9, <2>1, <2>2 DEF InUse, Attributable
  <1>11. ReferencesExact'
    <2> SUFFICES ASSUME NEW k \in Keys PROVE Accounted(k)'
      BY DEF ReferencesExact, Accounted, Bases, Poppers
    <2>1. Poppers(k)' = Poppers(k)
      BY <1>1 DEF Poppers
    <2>2. Bases(k)' = IF k = key THEN Bases(k) \cup {nextId} ELSE Bases(k)
      BY <1>1, <1>7 DEF Bases
    <2>3. nextId \notin Bases(k) /\ IsFiniteSet(Bases(k))
      BY <1>4, Countable DEF Bases
    <2>4. Cardinality(Bases(k) \cup {nextId}) = Cardinality(Bases(k)) + 1
      BY <2>3, FS_AddElement
    <2>5. closed[k] = closed'[k] /\ (k = key => closed[k] = "absent") /\ references[k] \in Nat
      BY <1>1, <1>2 DEF InUse, Keys
    <2>6. Cardinality(Bases(k)) \in Nat /\ Cardinality(Poppers(k)) \in Nat /\ Accounted(k)
      BY Countable, AllAccounted
    <2> QED
      BY <1>9, <2>1, <2>2, <2>4, <2>5, <2>6 DEF Accounted
  <1>12. RetainedIsCustody'
    BY <1>1, <1>3 DEF RetainedIsCustody, InCustody
  <1> QED
    BY <1>5, <1>6, <1>8, <1>10, <1>11, <1>12

\* The base is in the publisher's custody, and so is what it overwrote.
LEMMA SubmitAcceptedKeeps == EpochInv /\ SubmitAccepted => EpochInv'
  <1> SUFFICES ASSUME EpochInv, SubmitAccepted PROVE EpochInv'
    OBVIOUS
  <1> USE DEF EpochInv
  <1>1. /\ pc = "submit" /\ pc' = "leave" /\ nextId > last /\ last' = nextId
        /\ pending' = nextId /\ owed' = [owed EXCEPT ![Processor] = Present(pending)]
        /\ UNCHANGED <<tracker, bridge, nextId, popped, current, wire, stopped>>
    BY DEF SubmitAccepted, Submit, TakeOut
  <1>2. nextId \in BaseIds /\ owed[Processor] = {} /\ Processor \in Threads
    BY <1>1 DEF Handing, Quiet, Threads
  <1>3. \A i \in InCustody : i # nextId
    BY <1>1 DEF Ids
  <1>4. Kept' = {nextId} \cup Present(current)
    BY <1>1, <1>2, NoneIsNoBase DEF Kept, Present
  <1>5. \A t \in Threads : owed'[t] = IF t = Processor THEN Present(pending) ELSE owed[t]
    BY <1>1, <1>2 DEF Custody
  <1>6. InCustody' = InCustody \cup {nextId}
    BY <1>2, <1>4, <1>5 DEF InCustody, Kept
  <1>7. Custody'
    <2>1. owed' \in [Threads -> SUBSET BaseIds]
      BY <1>1, <1>2 DEF Custody, Present
    <2>2. \A t \in Threads : owed'[t] \cap Kept' = {}
      BY <1>3, <1>4, <1>5 DEF Custody, Kept, Present, InCustody
    <2>3. \A t, s \in Threads : t # s => owed'[t] \cap owed'[s] = {}
      BY <1>5 DEF Custody, Kept, Present
    <2>4. pending' # current'
      BY <1>1, <1>2, <1>3, NoneIsNoBase DEF InCustody, Kept, Present
    <2> QED
      BY <1>1, <1>2, <2>1, <2>2, <2>3, <2>4 DEF Custody
  <1>8. Ids' /\ Handing'
    <2>1. \A i \in InCustody' : i <= nextId
      BY <1>1, <1>6, CustodyTyped DEF Ids
    <2> QED
      BY <1>1, <2>1 DEF Ids, Handing, bridge
  <1>9. Popping' /\ InUse' /\ ReferencesExact'
    BY <1>1 DEF Popping, InUse, Attributable, ReferencesExact, tracker, bridge
  <1>10. RetainedIsCustody'
    BY <1>1, <1>6 DEF RetainedIsCustody, InCustody, bridge
  <1> QED
    BY <1>7, <1>8, <1>9, <1>10
\* A base that is no longer retained is counted by the callback that popped it.
LEMMA CountMoves ==
  ASSUME EpochInv, NEW t \in Threads, NEW i \in retained, popped[t] = {},
         retained' = retained \ {i}, popped' = [popped EXCEPT ![t] = {producer[i]}],
         UNCHANGED <<tracker, producer>>
  PROVE  Popping' /\ InUse' /\ ReferencesExact'
  <1> DEFINE p == producer[i]
  <1>1. p \in Keys
    BY DEF EpochInv, InUse
  <1>2. \A s \in Threads : popped'[s] = IF s = t THEN {p} ELSE popped[s]
    BY DEF EpochInv, Popping
  <1>3. Popping'
    <2>1. popped' \in [Threads -> SUBSET Keys]
      BY <1>1 DEF EpochInv, Popping
    <2>2. \A s \in Threads : popped'[s] = {} \/ \E k \in Keys : popped'[s] = {k}
      BY <1>1, <1>2 DEF EpochInv, Popping
    <2>3. {s \in Threads : popped'[s] # {}} = {s \in Threads : popped[s] # {}} \cup {t}
      BY <1>2
    <2>4. IsFiniteSet({s \in Threads : popped[s] # {}} \cup {t})
      BY FS_AddElement DEF EpochInv, Popping
    <2> QED
      BY <2>1, <2>2, <2>3, <2>4 DEF Popping
  <1>4. InUse'
    BY DEF EpochInv, InUse, Attributable, tracker
  <1>5. ReferencesExact'
    <2> SUFFICES ASSUME NEW k \in Keys PROVE Accounted(k)'
      BY DEF ReferencesExact, Accounted, Bases, Poppers
    <2>1. Accounted(k) /\ IsFiniteSet(Bases(k)) /\ IsFiniteSet(Poppers(k))
          /\ Cardinality(Bases(k)) \in Nat /\ Cardinality(Poppers(k)) \in Nat
      BY Countable, AllAccounted DEF EpochInv
    <2>2. CASE k # p
      <3>1. Bases(k)' = Bases(k) /\ Poppers(k)' = Poppers(k)
        BY <1>2, <2>2 DEF Bases, Poppers
      <3> QED
        BY <2>1, <3>1 DEF Accounted, tracker
    <2>3. CASE k = p
      <3>1. Bases(k)' = Bases(k) \ {i} /\ i \in Bases(k)
        BY <2>3 DEF Bases
      <3>2. Poppers(k)' = Poppers(k) \cup {t} /\ t \notin Poppers(k)
        BY <1>2, <2>3 DEF Poppers
      <3>3. Cardinality(Bases(k) \ {i}) = Cardinality(Bases(k)) - 1
        BY <2>1, <3>1, FS_RemoveElement
      <3>4. Cardinality(Poppers(k) \cup {t}) = Cardinality(Poppers(k)) + 1
        BY <2>1, <3>2, FS_AddElement
      <3> QED
        BY <2>1, <3>1, <3>2, <3>3, <3>4 DEF Accounted, tracker
    <2> QED
      BY <2>2, <2>3
  <1> QED
    BY <1>3, <1>4, <1>5

LEMMA SubmitRefusedKeeps == EpochInv /\ SubmitRefused => EpochInv'
  <1> SUFFICES ASSUME EpochInv, SubmitRefused PROVE EpochInv'
    OBVIOUS
  <1>1. /\ pc = "submit" /\ pc' = "leave" /\ retained' = retained \ {nextId}
        /\ popped' = [popped EXCEPT ![Processor] = {producer[nextId]}]
        /\ UNCHANGED <<handoff, tracker, producer, lock, nextId>>
    BY DEF SubmitRefused
  <1>2. Processor \in Threads /\ popped[Processor] = {} /\ nextId \in retained
        /\ lock = Processor /\ last < nextId
    BY <1>1 DEF EpochInv, Handing, Quiet, Threads, Ids
  <1>3. Popping' /\ InUse' /\ ReferencesExact'
    BY <1>1, <1>2, CountMoves
  <1>4. Kept' = Kept /\ InCustody' = InCustody
    BY <1>1 DEF Kept, Present, InCustody, handoff
  <1>5. Custody' /\ Ids' /\ Handing'
    BY <1>1, <1>2, <1>4 DEF EpochInv, Custody, Ids, Handing, handoff
  <1>6. nextId \notin InCustody
    BY <1>2 DEF EpochInv, Ids
  <1>7. RetainedIsCustody'
    BY <1>1, <1>4, <1>6 DEF EpochInv, RetainedIsCustody, InCustody
  <1> QED
    BY <1>3, <1>5, <1>7 DEF EpochInv

LEMMA LeaveBridgeKeeps == EpochInv /\ (LeaveBridge \/ RetainRaises) => EpochInv'
  <1> SUFFICES ASSUME EpochInv, LeaveBridge \/ RetainRaises PROVE EpochInv'
    OBVIOUS
  <1>1. /\ UNCHANGED <<handoff, tracker, retained, producer, popped>>
        /\ pc # "submit" /\ pc' \notin {"submit", "leave"}
        /\ \/ nextId' = nextId + 1
           \/ nextId' = nextId /\ pc # "leave"
    BY DEF LeaveBridge, RetainRaises, bridge
  <1>2. Kept' = Kept /\ InCustody' = InCustody
    BY <1>1 DEF Kept, Present, InCustody, handoff
  <1>3. Custody' /\ Ids' /\ Handing'
    BY <1>1, <1>2 DEF EpochInv, Custody, Ids, Handing, handoff
  <1>4. Popping' /\ InUse' /\ ReferencesExact'
    <2>1. UNCHANGED <<key, closed, references, retained, producer, popped>>
      BY <1>1 DEF tracker
    <2>2. Popping' /\ InUse'
      BY <2>1 DEF EpochInv, Popping, InUse, Attributable
    <2>3. ReferencesExact'
      BY <2>1 DEF EpochInv, ReferencesExact
    <2> QED
      BY <2>2, <2>3
  <1>5. RetainedIsCustody'
    BY <1>1, <1>2 DEF EpochInv, RetainedIsCustody, InCustody
  <1> QED
    BY <1>3, <1>4, <1>5 DEF EpochInv

\* A callback takes its base out of the bridge: nobody else owes it.
LEMMA ReleaseBaseKeeps ==
  ASSUME EpochInv, NEW t \in Threads, NEW i \in BaseIds, ReleaseBase(t, i)
  PROVE  EpochInv'
  <1>1. /\ popped[t] = {} /\ i \in owed[t] /\ owed' = [owed EXCEPT ![t] = @ \ {i}]
        /\ retained' = retained \ {i} /\ popped' = [popped EXCEPT ![t] = {producer[i]}]
        /\ UNCHANGED <<pending, current, wire, last, stopped, tracker, producer, lock, handing>>
    BY DEF ReleaseBase, Release, Popped
  <1>2. i \in InCustody /\ i \in retained
    BY <1>1 DEF InCustody, EpochInv, RetainedIsCustody
  <1>3. Popping' /\ InUse' /\ ReferencesExact'
    BY <1>1, <1>2, CountMoves
  <1>4. Kept' = Kept /\ i \notin Kept
    BY <1>1 DEF Kept, Present, EpochInv, Custody
  <1>5. \A s \in Threads : owed'[s] = IF s = t THEN owed[t] \ {i} ELSE owed[s]
    BY <1>1 DEF EpochInv, Custody
  <1>6. \A s \in Threads : s # t => i \notin owed[s]
    BY <1>1 DEF EpochInv, Custody
  <1>7. InCustody' = InCustody \ {i}
    BY <1>4, <1>5, <1>6 DEF InCustody
  <1>8. Custody'
    <2>1. owed' \in [Threads -> SUBSET BaseIds]
      BY <1>1 DEF EpochInv, Custody
    <2>2. /\ \A s \in Threads : owed'[s] \cap Kept' = {}
          /\ \A s, r \in Threads : s # r => owed'[s] \cap owed'[r] = {}
      BY <1>4, <1>5 DEF EpochInv, Custody
    <2> QED
      BY <1>1, <2>1, <2>2 DEF EpochInv, Custody
  <1>9. Ids'
    BY <1>1, <1>7 DEF EpochInv, Ids, handing
  <1>10. pc = "submit" => t # Processor /\ i # nextId
    BY <1>1, <1>2 DEF EpochInv, Handing, Quiet, Ids, handing
  <1>11. Handing'
    BY <1>1, <1>5, <1>10 DEF EpochInv, Handing, Quiet, Custody, Popping, Threads, handing, tracker
  <1>12. RetainedIsCustody'
    BY <1>1, <1>7, <1>10 DEF EpochInv, RetainedIsCustody, InCustody, handing
  <1> QED
    BY <1>3, <1>8, <1>9, <1>11, <1>12 DEF EpochInv
\* The tracker forgets one reference, and finalizes a closed epoch with its last.
LEMMA ReleaseEpochKeeps ==
  ASSUME EpochInv, NEW t \in Threads, ReleaseEpoch(t)
  PROVE  EpochInv'
  <1>1. PICK k \in popped[t] :
          /\ references' = [references EXCEPT ![k] = @ - 1]
          /\ closed' = Cleaned(IF Finalizes(k) THEN [closed EXCEPT ![k] = "final"] ELSE closed,
                               [references EXCEPT ![k] = @ - 1], lastKey)
    BY DEF ReleaseEpoch
  <1>2. /\ popped' = [popped EXCEPT ![t] = {}]
        /\ UNCHANGED <<pending, current, wire, last, stopped, owed, key, lastKey,
                       retained, producer, lock, pc, nextId>>
    BY DEF ReleaseEpoch, handoff, bridge, handing
  <1>3. k \in Keys /\ popped[t] = {k}
    BY DEF EpochInv, Popping
  <1>4. \A s \in Threads : popped'[s] = IF s = t THEN {} ELSE popped[s]
    BY <1>2 DEF EpochInv, Popping
  <1>5. Kept' = Kept /\ InCustody' = InCustody
    BY <1>2 DEF Kept, Present, InCustody
  <1>6. Custody' /\ Ids' /\ RetainedIsCustody'
    <2>1. Custody'
      BY <1>2, <1>5 DEF EpochInv, Custody
    <2>2. Ids'
      BY <1>2, <1>5 DEF EpochInv, Ids
    <2>3. RetainedIsCustody'
      BY <1>2, <1>5 DEF EpochInv, RetainedIsCustody, InCustody
    <2> QED
      BY <2>1, <2>2, <2>3
  <1>7. Handing'
    BY <1>2, <1>4 DEF EpochInv, Handing, Quiet, Threads
  <1>8. Popping'
    <2>1. popped' \in [Threads -> SUBSET Keys]
      BY <1>2 DEF EpochInv, Popping
    <2>2. {s \in Threads : popped'[s] # {}} \in SUBSET {s \in Threads : popped[s] # {}}
      BY <1>4
    <2>3. IsFiniteSet({s \in Threads : popped'[s] # {}})
      BY <2>2, FS_Subset DEF EpochInv, Popping
    <2> QED
      BY <1>4, <2>1, <2>3 DEF EpochInv, Popping
  <1>9. references[k] > 0
    BY <1>3, CountedOnce DEF Poppers
  <1>10. /\ references \in [Keys -> Nat]
         /\ closed \in [Keys -> {"absent", "live", "final"}]
    BY DEF EpochInv, InUse
  <1>11. /\ references' \in [Keys -> Nat]
         /\ \A j \in Keys : references'[j] = IF j = k THEN references[j] - 1 ELSE references[j]
    BY <1>1, <1>3, <1>9, <1>10
  <1>12. /\ closed' \in [Keys -> {"absent", "live", "final"}]
         /\ \A j \in Keys : closed'[j] = "live" <=> closed[j] = "live" /\ ~(j = k /\ references[k] = 1)
         /\ \A j \in Keys : closed'[j] = "final" =>
                              closed[j] = "final" \/ (j = k /\ references[k] = 1)
         /\ \A j \in Keys : closed[j] = "absent" => closed'[j] = "absent"
    <2> DEFINE marked == IF Finalizes(k) THEN [closed EXCEPT ![k] = "final"] ELSE closed
    <2>1. closed' = [j \in Keys |-> IF marked[j] = "final" /\ j # lastKey /\ references'[j] = 0
                                      THEN "absent" ELSE marked[j]]
      BY <1>1 DEF Cleaned
    <2>2. \A j \in Keys : marked[j] = IF j = k /\ references[k] = 1 /\ closed[k] = "live"
                                        THEN "final" ELSE closed[j]
      BY <1>3, <1>10 DEF Finalizes
    <2> HIDE DEF marked
    <2>3. \A j \in Keys : marked[j] \in {"absent", "live", "final"}
      BY <1>10, <2>2
    <2> QED
      BY <2>1, <2>2, <2>3
  <1>13. InUse'
    <2>1. \A j \in Keys : references'[j] > 0 => Attributable(j)'
      <3> SUFFICES ASSUME NEW j \in Keys, references'[j] > 0 PROVE j = key \/ closed'[j] = "live"
        BY <1>2 DEF Attributable
      <3>1. references[j] > 0 /\ ~(j = k /\ references[k] = 1)
        BY <1>3, <1>10, <1>11
      <3>2. j = key \/ closed[j] = "live"
        BY <3>1 DEF EpochInv, InUse, Attributable
      <3> QED
        BY <1>12, <3>1, <3>2
    <2>2. \A j \in Keys : j >= key => closed'[j] = "absent"
      BY <1>12 DEF EpochInv, InUse
    <2> QED
      BY <1>2, <1>11, <1>12, <2>1, <2>2 DEF EpochInv, InUse
  <1>14. ReferencesExact'
    <2> SUFFICES ASSUME NEW j \in Keys PROVE Accounted(j)'
      BY DEF ReferencesExact, Accounted, Bases, Poppers
    <2>1. Accounted(j) /\ IsFiniteSet(Poppers(j))
          /\ Cardinality(Bases(j)) \in Nat /\ Cardinality(Poppers(j)) \in Nat
      BY Countable, AllAccounted DEF EpochInv
    <2>2. Bases(j)' = Bases(j)
      BY <1>2 DEF Bases
    <2>3. CASE j # k
      <3>1. Poppers(j)' = Poppers(j)
        BY <1>3, <1>4, <2>3 DEF Poppers
      <3> QED
        BY <1>10, <1>11, <1>12, <2>1, <2>2, <2>3, <3>1 DEF Accounted
    <2>4. CASE j = k
      <3>1. Poppers(j)' = Poppers(j) \ {t} /\ t \in Poppers(j)
        BY <1>3, <1>4, <2>4 DEF Poppers
      <3>2. Cardinality(Poppers(j) \ {t}) = Cardinality(Poppers(j)) - 1
        BY <2>1, <3>1, FS_RemoveElement
      <3> QED
        BY <1>9, <1>10, <1>11, <1>12, <2>1, <2>2, <2>4, <3>1, <3>2 DEF Accounted
    <2> QED
      BY <2>3, <2>4
  <1> QED
    BY <1>6, <1>7, <1>8, <1>13, <1>14 DEF EpochInv

LEMMA EpochStutters == EpochInv /\ UNCHANGED vars => EpochInv'
  <1> SUFFICES ASSUME EpochInv, UNCHANGED vars PROVE EpochInv'
    OBVIOUS
  <1>1. UNCHANGED <<pending, current, wire, last, stopped, owed, key, closed, lastKey, references,
                    retained, producer, lock, pc, nextId, popped>>
    BY DEF vars, handoff, tracker, bridge, handing
  <1>2. Kept' = Kept /\ InCustody' = InCustody
    BY <1>1 DEF Kept, Present, InCustody
  <1>3. Custody' /\ Ids' /\ Handing'
    BY <1>1, <1>2 DEF EpochInv, Custody, Ids, Handing, Quiet
  <1>4. Popping' /\ InUse'
    BY <1>1 DEF EpochInv, Popping, InUse, Attributable
  <1>5. ReferencesExact'
    BY <1>1 DEF EpochInv, ReferencesExact
  <1>6. RetainedIsCustody'
    BY <1>1, <1>2 DEF EpochInv, RetainedIsCustody, InCustody
  <1> QED
    BY <1>3, <1>4, <1>5, <1>6 DEF EpochInv

LEMMA EpochInvariant == Spec => []EpochInv
  <1>1. EpochInv /\ [Next]_vars => EpochInv'
    BY BindEpochKeeps, RetainBaseKeeps, SubmitAcceptedKeeps, SubmitRefusedKeeps,
       LeaveBridgeKeeps, ReleaseEpochKeeps, ReleaseBaseKeeps, PublisherKeeps, EpochStutters
       DEF Next
  <1> QED
    BY InitEpochInv, <1>1, PTL DEF Spec

-----------------------------------------------------------------------------
\* However many generations begin while a base is in the sink or repeated: the
\* epoch that produced it is still open, so that record_output counts its sends.
THEOREM NoSendIsLost == Spec => []LateSendAttributed
  <1>1. EpochInv => LateSendAttributed
    <2> SUFFICES ASSUME EpochInv, wire # None PROVE Attributable(producer[wire])
      BY DEF LateSendAttributed
    <2>1. wire \in Kept
      BY DEF EpochInv, Custody, Kept, Present
    <2>2. wire \in retained /\ producer[wire] \in Keys
      BY <2>1 DEF EpochInv, RetainedIsCustody, InUse
    <2>3. references[producer[wire]] > 0
      BY <2>2, CountedOnce DEF Bases
    <2> QED
      BY <2>2, <2>3 DEF EpochInv, InUse
  <1> QED
    BY <1>1, EpochInvariant, PTL

\* The tracker's counts are those of the bases retained and of the callbacks in
\* progress, whatever order callbacks, generations and refused submissions take;
\* a closed epoch is final exactly when its count is zero.
THEOREM ReferencesNeverDrift == Spec => []ReferencesExact
  <1>1. EpochInv => ReferencesExact
    BY DEF EpochInv
  <1> QED
    BY <1>1, EpochInvariant, PTL

\* release_base never meets a base the bridge does not know, and the bridge
\* keeps none the publisher has let go.
THEOREM BridgeKeepsWhatIsHeld == Spec => []RetainedIsCustody
  <1>1. EpochInv => RetainedIsCustody
    BY DEF EpochInv
  <1> QED
    BY <1>1, EpochInvariant, PTL
=============================================================================
