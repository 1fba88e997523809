--------------------------- MODULE FrameRingProofs --------------------------
(***************************************************************************)
(* Proofs about the ring of the virtual camera, for every number of frames *)
(* and of pieces a copy is made of, with a writer that dies at any step.   *)
(*                                                                         *)
(* HeldIsWhole is not inductive: it needs what an even sequence word says  *)
(* of the pixels (EvenIsWhole), that the word only grows under one writer  *)
(* (Orderly), and that a copy whose first load is still in the word has    *)
(* loaded pieces of what is there now (CopyIsCurrent).                     *)
(***************************************************************************)
EXTENDS FrameRing, TLAPS

Copying == sampleAt \in {"copying", "seqAfter"}

RingNumbers ==
  /\ seqWord \in Nat /\ writerSeq \in Nat /\ seqBefore \in Nat /\ seqAfter \in Nat
  /\ flagWord \in {0, 1} /\ header.flags \in {0, 1}
  /\ DOMAIN payload = Parts /\ candidate = [p \in Parts |-> candidate[p]]
  /\ unwritten \subseteq Parts /\ unread \subseteq Parts

\* The word of a writer at rest is even, that of one in its copy odd, and what
\* the copy has stored is the frame it is about.
Orderly ==
  /\ writerAt # "absent" => seqWord = writerSeq
  /\ writerAt = "ready" => writerSeq % 2 = 0
  /\ writerAt = "payload" =>
       writerSeq % 2 = 1 /\ \A p \in Parts \ unwritten : payload[p] = frames

\* A writer that has published leaves an even word over one whole frame.
EvenIsWhole ==
  /\ seqWord % 2 = 0 /\ seqWord # 0 => Whole(payload)
  /\ flagWord = 1 => seqWord # 0

\* While no writer is constructed, the word has not gone back since it was
\* loaded; if it has not moved, the pieces copied are those still there.
CopyIsCurrent ==
  /\ sampleAt = "flagsBefore" /\ ~overtaken => seqBefore <= seqWord
  /\ Copying => seqBefore % 2 = 0
  /\ Copying /\ ~overtaken =>
       /\ seqBefore <= seqWord /\ seqWord # 0
       /\ seqBefore = seqWord => \A p \in Parts \ unread : candidate[p] = payload[p]
  /\ sampleAt = "seqAfter" => unread = {}
  /\ sampleAt = "flagsAfter" /\ ~overtaken /\ seqBefore = seqAfter => Whole(candidate)

RingInv == RingNumbers /\ Orderly /\ EvenIsWhole /\ CopyIsCurrent /\ HeldIsWhole

LEMMA NextParity == \A n \in Nat : /\ n % 2 = 0 => (n + 1) % 2 = 1
                                   /\ n % 2 = 1 => (n + 1) % 2 = 0 /\ n + 1 # 0
  OBVIOUS

LEMMA InitRingInv == InitRing => RingInv
  BY DEF InitRing, RingInv, RingNumbers, Orderly, EvenIsWhole, CopyIsCurrent, Copying,
         HeldIsWhole, Whole

-----------------------------------------------------------------------------
(* The writer.                                                             *)

\* A new writer starts from a word it does not find: whatever copy is under
\* way is overtaken.
LEMMA ConstructKeeps == RingInv /\ Construct => RingInv'
  BY DEF Construct, readerVars, RingInv, RingNumbers, Orderly, EvenIsWhole, CopyIsCurrent,
         Copying, HeldIsWhole, Whole

LEMMA BeginPublishKeeps == RingInv /\ BeginPublish => RingInv'
  <1> SUFFICES ASSUME RingInv, BeginPublish PROVE RingInv'
    OBVIOUS
  <1>1. seqWord' = seqWord + 1 /\ seqWord' % 2 = 1 /\ writerSeq' = seqWord'
    BY NextParity DEF BeginPublish, RingInv, RingNumbers, Orderly
  <1>2. RingNumbers' /\ Orderly' /\ EvenIsWhole' /\ HeldIsWhole'
    BY <1>1 DEF BeginPublish, readerVars, historyVars, RingInv, RingNumbers, Orderly,
                EvenIsWhole, HeldIsWhole, Whole
  <1>3. CopyIsCurrent'
    BY <1>1 DEF BeginPublish, readerVars, historyVars, RingInv, RingNumbers, CopyIsCurrent,
                Copying, Whole
  <1> QED
    BY <1>2, <1>3 DEF RingInv

\* Only a writer whose word is odd stores: no copy is current then.
LEMMA StorePartKeeps == \A p : RingInv /\ StorePart(p) => RingInv'
  <1> SUFFICES ASSUME NEW p, RingInv, StorePart(p) PROVE RingInv'
    OBVIOUS
  <1>1. seqWord % 2 = 1
    BY DEF StorePart, RingInv, Orderly
  <1>2. RingNumbers' /\ Orderly'
    BY DEF StorePart, readerVars, historyVars, RingInv, RingNumbers, Orderly
  <1>3. EvenIsWhole' /\ HeldIsWhole'
    BY <1>1 DEF StorePart, readerVars, historyVars, RingInv, EvenIsWhole, HeldIsWhole, Whole
  <1>4. CopyIsCurrent'
    BY <1>1 DEF StorePart, readerVars, historyVars, RingInv, CopyIsCurrent, Copying, Whole
  <1> QED
    BY <1>2, <1>3, <1>4 DEF RingInv

LEMMA EndPublishKeeps == RingInv /\ EndPublish => RingInv'
  <1> SUFFICES ASSUME RingInv, EndPublish PROVE RingInv'
    OBVIOUS
  <1>1. seqWord' = seqWord + 1 /\ seqWord' % 2 = 0 /\ seqWord' # 0 /\ writerSeq' = seqWord'
    BY NextParity DEF EndPublish, RingInv, RingNumbers, Orderly
  <1>2. Whole(payload)
    BY DEF EndPublish, RingInv, Orderly, Whole
  <1>3. RingNumbers' /\ Orderly' /\ EvenIsWhole' /\ HeldIsWhole'
    BY <1>1, <1>2 DEF EndPublish, readerVars, historyVars, RingInv, RingNumbers, Orderly,
                      EvenIsWhole, HeldIsWhole, Whole
  <1>4. CopyIsCurrent'
    BY <1>1 DEF EndPublish, readerVars, historyVars, RingInv, RingNumbers, CopyIsCurrent,
                Copying, Whole
  <1> QED
    BY <1>3, <1>4 DEF RingInv

LEMMA WriterLeavesKeeps == RingInv /\ (CloseWriter \/ Crash) => RingInv'
  BY DEF CloseWriter, Crash, sharedVars, readerVars, historyVars, RingInv, RingNumbers, Orderly,
         EvenIsWhole, CopyIsCurrent, Copying, HeldIsWhole, Whole

-----------------------------------------------------------------------------
(* The reader.  It leaves the shared words, so only its own copy is at stake. *)

\* A sample that ends or starts another attempt is in no copy.
LEMMA EndOfAttempt ==
  ASSUME RingInv, UNCHANGED <<sharedVars, writerVars, header, seqBefore, seqAfter, candidate>>,
         sampleAt' \in {"idle", "header", "seqBefore"}, unread' = unread, HeldIsWhole'
  PROVE  RingInv'
  BY DEF sharedVars, writerVars, RingInv, RingNumbers, Orderly, EvenIsWhole, CopyIsCurrent,
         Copying, Whole

LEMMA BeginSampleKeeps == RingInv /\ BeginSample => RingInv'
  <1> SUFFICES ASSUME RingInv, BeginSample PROVE RingInv'
    OBVIOUS
  <1>1. HeldIsWhole'
    BY DEF BeginSample, RingInv, HeldIsWhole, Whole
  <1> QED
    BY <1>1, EndOfAttempt DEF BeginSample

LEMMA LoadHeaderKeeps == RingInv /\ LoadHeader => RingInv'
  BY DEF LoadHeader, sharedVars, writerVars, historyVars, RingInv, RingNumbers, Orderly,
         EvenIsWhole, CopyIsCurrent, Copying, HeldIsWhole, Whole

LEMMA LoadSeqBeforeKeeps == RingInv /\ LoadSeqBefore => RingInv'
  BY DEF LoadSeqBefore, sharedVars, writerVars, RingInv, RingNumbers, Orderly,
         EvenIsWhole, CopyIsCurrent, Copying, HeldIsWhole, Whole

LEMMA PlaceholderKeeps ==
  ASSUME RingInv, ShowPlaceholder,
         UNCHANGED <<sharedVars, writerVars, header, seqBefore, seqAfter, candidate>>
  PROVE  RingInv'
  <1>1. HeldIsWhole'
    BY DEF ShowPlaceholder, HeldIsWhole, Whole
  <1> QED
    BY <1>1, EndOfAttempt DEF ShowPlaceholder

LEMMA RetryKeeps ==
  ASSUME RingInv, Retry,
         UNCHANGED <<sharedVars, writerVars, header, seqBefore, seqAfter, candidate>>
  PROVE  RingInv'
  <1>1. HeldIsWhole' /\ unread' = unread /\ sampleAt' \in {"idle", "header"}
    BY DEF Retry, RingInv, HeldIsWhole, Whole
  <1> QED
    BY <1>1, EndOfAttempt

\* The copy starts only under a flag that says a writer has published.
LEMMA LoadFlagsBeforeKeeps == RingInv /\ LoadFlagsBefore => RingInv'
  <1> SUFFICES ASSUME RingInv, LoadFlagsBefore PROVE RingInv'
    OBVIOUS
  <1>1. CASE header.flags = 0 \/ flagWord = 0
    BY <1>1, PlaceholderKeeps DEF LoadFlagsBefore
  <1>2. CASE /\ ~(header.flags = 0 \/ flagWord = 0)
             /\ Torn(header.seq, seqBefore) \/ seqBefore % 2 = 1
    BY <1>2, RetryKeeps DEF LoadFlagsBefore
  <1>3. CASE /\ ~(header.flags = 0 \/ flagWord = 0)
             /\ ~(Torn(header.seq, seqBefore) \/ seqBefore % 2 = 1)
    <2>1. seqBefore % 2 = 0 /\ seqWord # 0
      BY <1>3 DEF RingInv, RingNumbers, EvenIsWhole
    <2>2. sampleAt' = "copying" /\ unread' = Parts /\ held' = held
          /\ heldOvertaken' = heldOvertaken
      BY <1>3 DEF LoadFlagsBefore
    <2>3. RingNumbers' /\ Orderly' /\ EvenIsWhole' /\ HeldIsWhole'
      BY <2>2 DEF LoadFlagsBefore, sharedVars, writerVars, RingInv, RingNumbers, Orderly,
                  EvenIsWhole, HeldIsWhole, Whole
    <2>4. CopyIsCurrent'
      BY <2>1, <2>2 DEF LoadFlagsBefore, sharedVars, writerVars, RingInv, CopyIsCurrent, Copying
    <2> QED
      BY <2>3, <2>4 DEF RingInv
  <1> QED
    BY <1>1, <1>2, <1>3

LEMMA LoadPartKeeps == \A p : RingInv /\ LoadPart(p) => RingInv'
  <1> SUFFICES ASSUME NEW p, RingInv, LoadPart(p) PROVE RingInv'
    OBVIOUS
  <1>1. RingNumbers' /\ Orderly' /\ EvenIsWhole' /\ HeldIsWhole'
    BY DEF LoadPart, sharedVars, writerVars, historyVars, RingInv, RingNumbers, Orderly,
           EvenIsWhole, HeldIsWhole, Whole
  <1>2. CopyIsCurrent'
    BY DEF LoadPart, sharedVars, writerVars, historyVars, RingInv, RingNumbers, CopyIsCurrent,
           Copying
  <1> QED
    BY <1>1, <1>2 DEF RingInv

\* The word has not moved since before the copy: what was copied is what is
\* there, and what is there under an even word is one frame.
LEMMA LoadSeqAfterKeeps == RingInv /\ LoadSeqAfter => RingInv'
  <1> SUFFICES ASSUME RingInv, LoadSeqAfter PROVE RingInv'
    OBVIOUS
  <1>1. ASSUME ~overtaken, seqBefore = seqWord PROVE Whole(candidate)
    <2>1. seqWord % 2 = 0 /\ seqWord # 0 /\ \A p \in Parts : candidate[p] = payload[p]
      BY <1>1 DEF LoadSeqAfter, RingInv, CopyIsCurrent, Copying
    <2>2. Whole(payload)
      BY <2>1 DEF RingInv, EvenIsWhole
    <2> QED
      BY <2>1, <2>2 DEF Whole
  <1>2. RingNumbers' /\ Orderly' /\ EvenIsWhole' /\ HeldIsWhole'
    BY DEF LoadSeqAfter, sharedVars, writerVars, historyVars, RingInv, RingNumbers, Orderly,
           EvenIsWhole, HeldIsWhole, Whole
  <1>3. CopyIsCurrent'
    BY <1>1 DEF LoadSeqAfter, sharedVars, writerVars, historyVars, RingInv, CopyIsCurrent,
                Copying, Whole
  <1> QED
    BY <1>2, <1>3 DEF RingInv

LEMMA LoadFlagsAfterKeeps == RingInv /\ LoadFlagsAfter => RingInv'
  <1> SUFFICES ASSUME RingInv, LoadFlagsAfter PROVE RingInv'
    OBVIOUS
  <1>1. CASE flagWord = 0
    BY <1>1, PlaceholderKeeps DEF LoadFlagsAfter
  <1>2. CASE flagWord # 0 /\ Torn(seqBefore, seqAfter)
    BY <1>2, RetryKeeps DEF LoadFlagsAfter
  <1>3. CASE flagWord # 0 /\ ~Torn(seqBefore, seqAfter)
    <2>1. Accept
      BY <1>3 DEF LoadFlagsAfter
    <2>2. HeldIsWhole'
      BY <1>3, <2>1 DEF Accept, LoadFlagsAfter, Torn, RingInv, CopyIsCurrent, HeldIsWhole, Whole
    <2> QED
      BY <2>1, <2>2, EndOfAttempt DEF Accept, LoadFlagsAfter
  <1> QED
    BY <1>1, <1>2, <1>3

LEMMA RingStutters == RingInv /\ UNCHANGED ringVars => RingInv'
  BY DEF ringVars, sharedVars, writerVars, readerVars, historyVars, RingInv, RingNumbers,
         Orderly, EvenIsWhole, CopyIsCurrent, Copying, HeldIsWhole, Whole

LEMMA RingInvariant == SpecRing => []RingInv
  <1>1. RingInv /\ [NextRing]_ringVars => RingInv'
    <2> SUFFICES ASSUME RingInv, [NextRing]_ringVars PROVE RingInv'
      OBVIOUS
    <2>1. CASE Writer
      BY <2>1, ConstructKeeps, BeginPublishKeeps, StorePartKeeps, EndPublishKeeps,
         WriterLeavesKeeps DEF Writer
    <2>2. CASE Reader
      BY <2>2, BeginSampleKeeps, LoadHeaderKeeps, LoadSeqBeforeKeeps, LoadFlagsBeforeKeeps,
         LoadPartKeeps, LoadSeqAfterKeeps, LoadFlagsAfterKeeps DEF Reader
    <2>3. CASE UNCHANGED ringVars
      BY <2>3, RingStutters
    <2> QED
      BY <2>1, <2>2, <2>3 DEF NextRing
  <1> QED
    BY InitRingInv, <1>1, PTL DEF SpecRing

\* What the camera holds and repeats after a torn attempt is one whole frame,
\* unless a writer was constructed while it was being copied
\* (FrameRingReader::CopyLatest against FrameRingWriter.publish).
THEOREM HeldFramesAreWhole == SpecRing => []HeldIsWhole
  <1>1. RingInv => HeldIsWhole
    BY DEF RingInv
  <1> QED
    BY RingInvariant, <1>1, PTL

-----------------------------------------------------------------------------
(* One writer per section.                                                 *)

\* With one writer, none can be constructed during a copy: a copy needs the
\* flag of a writer that has published.
SingleWriter ==
  /\ writers \in Nat /\ flagWord \in {0, 1} /\ header.flags \in {0, 1}
  /\ writers = 0 => flagWord = 0 /\ header.flags = 0 /\ writerAt = "absent"
  /\ sampleAt \in {"copying", "seqAfter", "flagsAfter"} => writers # 0 /\ ~overtaken
  /\ sampleAt = "flagsBefore" /\ overtaken => header.flags = 0
  /\ ~heldOvertaken

LEMMA InitSingleWriter == InitRing => SingleWriter
  BY DEF InitRing, SingleWriter

LEMMA SingleWriterKept ==
  ASSUME MaxWriters = 1
  PROVE  SingleWriter /\ [NextRing]_ringVars => SingleWriter'
  <1> SUFFICES ASSUME SingleWriter, [NextRing]_ringVars PROVE SingleWriter'
    OBVIOUS
  <1>1. CASE Writer
    BY <1>1 DEF Writer, Construct, BeginPublish, StorePart, EndPublish, CloseWriter, Crash,
                sharedVars, readerVars, historyVars, SingleWriter
  <1>2. CASE BeginSample \/ LoadHeader \/ LoadSeqBefore \/ LoadSeqAfter
             \/ \E p \in Parts : LoadPart(p)
    BY <1>2 DEF BeginSample, LoadHeader, LoadSeqBefore, LoadSeqAfter, LoadPart, sharedVars,
                writerVars, historyVars, SingleWriter
  <1>3. CASE LoadFlagsBefore \/ LoadFlagsAfter
    BY <1>3 DEF LoadFlagsBefore, LoadFlagsAfter, ShowPlaceholder, Retry, Accept, sharedVars,
                writerVars, SingleWriter
  <1>4. CASE UNCHANGED ringVars
    BY <1>4 DEF ringVars, sharedVars, writerVars, readerVars, historyVars, SingleWriter
  <1> QED
    BY <1>1, <1>2, <1>3, <1>4 DEF NextRing, Reader

\* The promise of vcam_native.py's docstring and of FrameRing.h holds as long
\* as no second writer is ever constructed over the section, deaths included:
\* the restart that breaks it in a run is all that can.
THEOREM OneWriterNeverTears ==
  ASSUME MaxWriters = 1
  PROVE  SpecRing => []NeverTorn
  <1>1. SingleWriter /\ [NextRing]_ringVars => SingleWriter'
    BY SingleWriterKept
  <1>2. SingleWriter /\ HeldIsWhole => NeverTorn
    BY DEF SingleWriter, HeldIsWhole, NeverTorn
  <1> QED
    BY InitSingleWriter, <1>1, <1>2, HeldFramesAreWhole, PTL DEF SpecRing

-----------------------------------------------------------------------------
(* A closed writer.                                                        *)

\* The flag a closed writer cleared stays cleared until a publication that had not
\* ended when the sample began ends: that one's frame is newer than any published.
FlagStaysCleared ==
  /\ frames \in Nat /\ published \in Nat /\ published <= frames
  /\ writerAt = "payload" => published < frames
  /\ sampleAt # "idle" => floor \in Nat /\ floor <= published
  /\ sampleAt # "idle" /\ idleAtStart /\ published = floor => flagWord = 0

LEMMA InitFlag == InitRing => FlagStaysCleared
  BY DEF InitRing, FlagStaysCleared

LEMMA FlagKept == FlagStaysCleared /\ [NextRing]_ringVars => FlagStaysCleared'
  <1> SUFFICES ASSUME FlagStaysCleared, [NextRing]_ringVars PROVE FlagStaysCleared'
    OBVIOUS
  <1> USE DEF FlagStaysCleared
  <1>1. CASE Construct \/ CloseWriter \/ Crash \/ \E p \in Parts : StorePart(p)
    BY <1>1 DEF Construct, CloseWriter, Crash, StorePart, sharedVars, readerVars, historyVars
  <1>2. CASE BeginPublish
    BY <1>2 DEF BeginPublish, readerVars, historyVars
  <1>3. CASE EndPublish
    <2>1. published < published' /\ published' = frames /\ frames' = frames /\ writerAt' = "ready"
      BY <1>3 DEF EndPublish
    <2>2. UNCHANGED <<sampleAt, floor, idleAtStart>>
      BY <1>3 DEF EndPublish, readerVars, historyVars
    <2> QED
      BY <2>1, <2>2
  <1>4. CASE BeginSample
    <2>1. /\ floor' = published /\ idleAtStart' = Inactive
          /\ UNCHANGED <<flagWord, frames, published, writerAt>>
      BY <1>4 DEF BeginSample, sharedVars, writerVars
    <2>2. idleAtStart' => flagWord' = 0
      BY <2>1 DEF Inactive
    <2> QED
      BY <2>1, <2>2
  <1>5. CASE LoadHeader \/ LoadSeqBefore \/ LoadSeqAfter \/ \E p \in Parts : LoadPart(p)
    BY <1>5 DEF LoadHeader, LoadSeqBefore, LoadSeqAfter, LoadPart, sharedVars, writerVars,
                historyVars
  <1>6. CASE LoadFlagsBefore \/ LoadFlagsAfter
    <2>1. sampleAt # "idle" /\ UNCHANGED <<sharedVars, writerVars, floor, idleAtStart>>
      BY <1>6 DEF LoadFlagsBefore, LoadFlagsAfter
    <2> QED
      BY <2>1 DEF sharedVars, writerVars
  <1>7. CASE UNCHANGED ringVars
    BY <1>7 DEF ringVars, sharedVars, writerVars, readerVars, historyVars
  <1> QED
    BY <1>1, <1>2, <1>3, <1>4, <1>5, <1>6, <1>7 DEF NextRing, Writer, Reader

\* A sample that began after the writer had closed hands on the placeholder, never the
\* frozen frame, unless a publication ended meanwhile (ClosedShowsPlaceholder), for any
\* number of writers, frames and attempts (FrameRingReader::CopyLatest and mark_inactive).
THEOREM NoFrozenFrame == SpecRing => ClosedShowsPlaceholder
  <1>1. ASSUME FlagStaysCleared, [NextRing]_ringVars, sampleAt # "idle", sampleAt' = "idle",
               idleAtStart, published = floor
        PROVE  shown' = [p \in Parts |-> NoFrame]
    <2>1. flagWord = 0
      BY <1>1 DEF FlagStaysCleared
    <2>2. CASE Writer \/ UNCHANGED ringVars
      BY <1>1, <2>2 DEF Writer, Construct, BeginPublish, StorePart, EndPublish, CloseWriter,
                        Crash, ringVars, readerVars
    <2>3. CASE LoadFlagsBefore \/ LoadFlagsAfter
      BY <2>1, <2>3 DEF LoadFlagsBefore, LoadFlagsAfter, ShowPlaceholder
    <2>4. CASE BeginSample \/ LoadHeader \/ LoadSeqBefore \/ LoadSeqAfter
      BY <1>1, <2>4 DEF BeginSample, LoadHeader, LoadSeqBefore, LoadSeqAfter
    <2>5. CASE \E p \in Parts : LoadPart(p)
      BY <1>1, <2>5 DEF LoadPart
    <2> QED
      BY <1>1, <2>2, <2>3, <2>4, <2>5 DEF NextRing, Reader
  <1>2. FlagStaysCleared /\ [NextRing]_ringVars =>
          [ (sampleAt # "idle" /\ sampleAt' = "idle" /\ idleAtStart /\ published = floor)
              => shown' = [p \in Parts |-> NoFrame] ]_ringVars
    BY <1>1
  <1> QED
    BY InitFlag, FlagKept, <1>2, PTL DEF SpecRing, ClosedShowsPlaceholder
=============================================================================
