----------------------------- MODULE FrameRing -----------------------------
(* The shared-memory ring between the engine and the native virtual camera: *)
(* FrameRingWriter in vcam_native.py and FrameRingReader::CopyLatest with   *)
(* MediaStream::ComposeFrame in packaging/windows/vcam.  One header and one *)
(* frame, no lock: a sequence word is odd while a frame is being written.   *)
(*                                                                          *)
(* The two sides are separate processes.  The copy of a payload touches its *)
(* pieces one at a time in an order the code does not fix; sequence and     *)
(* flags share one aligned eight-byte word of the header, so a copy of the  *)
(* header moves the two together, while the atomic loads are one by one.    *)
(* The camera keeps its view of the section open, so what a writer leaves   *)
(* behind is what the next writer finds.                                    *)
(* Left out: the geometry words (every writer uses the negotiated mode) and *)
(* the wrap of the 32-bit sequence, which takes two years of frames.        *)
EXTENDS Naturals, FiniteSets

CONSTANTS
  Parts,          \* the pieces a copy of the payload is made of
  NoFrame,        \* a piece never written; also the camera's placeholder
  MaxFrames,      \* bound: frames published
  MaxWriters,     \* bound: writers constructed, the first one included
  MaxAttempts     \* CopyLatest's maxAttempts

ASSUME RingAssumption == Parts # {} /\ MaxAttempts \in Nat \ {0} /\ NoFrame \notin Nat

VARIABLES
  seqWord, flagWord,   \* header words shared by the two processes
  payload,             \* [Parts -> frame]: the shared pixels
  writerAt, writerSeq, \* the writer's step and its private _seq
  unwritten,           \* parts its current copy still has to store
  frames, writers,     \* frames whose publication began; writers constructed
  published,           \* history: the newest frame publish() returned from
  sampleAt,            \* the reader's step within one RequestSample
  header,              \* its copy of the header: [seq, flags]
  unread,              \* parts its current copy still has to load
  seqBefore, seqAfter, \* the atomic loads before and after the copy
  candidate,           \* m_candidate: [Parts -> frame]
  attempt,             \* CopyLatest's loop counter
  held,                \* m_ringFrame: the last complete frame, or NoFrame
  shown,               \* what the last sample handed to the consumer
  overtaken,           \* history: writers constructed during this attempt's copy
  heldOvertaken,       \* history: was the held frame accepted from such a copy
  floor,               \* history: published when this sample began
  idleAtStart          \* history: the writer was closed when this sample began

sharedVars == <<seqWord, flagWord, payload>>
writerVars == <<writerAt, writerSeq, unwritten, frames, writers, published>>
readerVars == <<sampleAt, header, unread, seqBefore, seqAfter, candidate, attempt, held, shown>>
historyVars == <<overtaken, heldOvertaken, floor, idleAtStart>>
ringVars == <<sharedVars, writerVars, readerVars, historyVars>>

Frames == 1..MaxFrames
Pixels == [Parts -> Frames \cup {NoFrame}]
Whole(pixels) == \A p, q \in Parts : pixels[p] = pixels[q]

InitRing ==
  /\ seqWord = 0 /\ flagWord = 0 /\ payload = [p \in Parts |-> NoFrame]
  /\ writerAt = "absent" /\ writerSeq = 0 /\ unwritten = {}
  /\ frames = 0 /\ writers = 0 /\ published = 0
  /\ sampleAt = "idle" /\ header = [seq |-> 0, flags |-> 0] /\ unread = {}
  /\ seqBefore = 0 /\ seqAfter = 0 /\ candidate = [p \in Parts |-> NoFrame] /\ attempt = 0
  /\ held = [p \in Parts |-> NoFrame] /\ shown = [p \in Parts |-> NoFrame]
  /\ overtaken = FALSE /\ heldOvertaken = FALSE /\ floor = 0 /\ idleAtStart = TRUE

-----------------------------------------------------------------------------
(* The writer: FrameRingWriter.                                             *)

\* __init__: stamp an inactive header whose sequence starts again at zero.
Construct ==
  /\ writerAt = "absent" /\ writers < MaxWriters
  /\ writers' = writers + 1 /\ writerSeq' = 0 /\ seqWord' = 0 /\ flagWord' = 0
  /\ writerAt' = "ready" /\ overtaken' = TRUE
  /\ UNCHANGED <<payload, unwritten, frames, published, readerVars,
                 heldOvertaken, floor, idleAtStart>>

\* publish: the odd sequence announces the write.
BeginPublish ==
  /\ writerAt = "ready" /\ frames < MaxFrames
  /\ frames' = frames + 1 /\ writerSeq' = writerSeq + 1 /\ seqWord' = writerSeq + 1
  /\ writerAt' = "payload" /\ unwritten' = Parts
  /\ UNCHANGED <<flagWord, payload, writers, published, readerVars, historyVars>>

StorePart(p) ==
  /\ writerAt = "payload" /\ p \in unwritten
  /\ payload' = [payload EXCEPT ![p] = frames]
  /\ unwritten' = unwritten \ {p}
  /\ UNCHANGED <<seqWord, flagWord, writerAt, writerSeq, frames, writers, published,
                 readerVars, historyVars>>

\* publish: after the payload, the header with the next even sequence.
EndPublish ==
  /\ writerAt = "payload" /\ unwritten = {}
  /\ writerSeq' = writerSeq + 1 /\ seqWord' = writerSeq + 1 /\ flagWord' = 1
  /\ writerAt' = "ready" /\ published' = frames
  /\ UNCHANGED <<payload, unwritten, frames, writers, readerVars, historyVars>>

\* NativeVirtualCameraOutput.close: mark_inactive clears the flags word only.
CloseWriter ==
  /\ writerAt = "ready"
  /\ flagWord' = 0 /\ writerAt' = "absent"
  /\ UNCHANGED <<seqWord, payload, writerSeq, unwritten, frames, writers, published,
                 readerVars, historyVars>>

\* The engine process dies at any step: the section stays as it is.
Crash ==
  /\ writerAt # "absent"
  /\ writerAt' = "absent" /\ unwritten' = {}
  /\ UNCHANGED <<sharedVars, writerSeq, frames, writers, published, readerVars, historyVars>>

Writer ==
  \/ Construct \/ BeginPublish \/ EndPublish \/ CloseWriter \/ Crash
  \/ \E p \in Parts : StorePart(p)

-----------------------------------------------------------------------------
(* The reader: one ComposeFrame, with its call of CopyLatest.               *)

\* A closed writer leaves the flags cleared and nothing being written.
Inactive == writerAt = "absent" /\ flagWord = 0

BeginSample ==
  /\ sampleAt = "idle"
  /\ sampleAt' = "header" /\ attempt' = 1
  /\ floor' = published /\ idleAtStart' = Inactive
  /\ UNCHANGED <<sharedVars, writerVars, header, unread, seqBefore, seqAfter, candidate,
                 held, shown, overtaken, heldOvertaken>>

LoadHeader ==
  /\ sampleAt = "header"
  /\ header' = [seq |-> seqWord, flags |-> flagWord]
  /\ sampleAt' = "seqBefore"
  /\ UNCHANGED <<sharedVars, writerVars, unread, seqBefore, seqAfter, candidate, attempt,
                 held, shown, historyVars>>

LoadSeqBefore ==
  /\ sampleAt = "seqBefore"
  /\ seqBefore' = seqWord /\ overtaken' = FALSE
  /\ sampleAt' = "flagsBefore"
  /\ UNCHANGED <<sharedVars, writerVars, header, unread, seqAfter, candidate, attempt,
                 held, shown, heldOvertaken, floor, idleAtStart>>

\* Mutant: an inactive ring repeats the held frame, as a torn one does.
ShowHeld ==
  /\ shown' = held /\ sampleAt' = "idle"
  /\ UNCHANGED <<held, heldOvertaken, unread, attempt>>

\* CopyLatest returned Unavailable: drop the held frame, show the placeholder.
ShowPlaceholder ==
  /\ held' = [p \in Parts |-> NoFrame] /\ shown' = [p \in Parts |-> NoFrame]
  /\ sampleAt' = "idle" /\ heldOvertaken' = FALSE
  /\ UNCHANGED <<unread, attempt>>

\* The end of a torn attempt: try again, or give the held frame once more
\* (which is the placeholder when there is none).
Retry ==
  IF attempt < MaxAttempts
    THEN /\ sampleAt' = "header" /\ attempt' = attempt + 1
         /\ UNCHANGED <<unread, held, shown, heldOvertaken>>
    ELSE /\ sampleAt' = "idle" /\ shown' = held
         /\ UNCHANGED <<unread, attempt, held, heldOvertaken>>

\* Mutant: the sequences are not compared.
NeverCompared(before, after) == FALSE

Torn(before, after) == before # after

\* The checks before the copy: inactive, then torn or being written.
LoadFlagsBefore ==
  /\ sampleAt = "flagsBefore"
  /\ IF header.flags = 0 \/ flagWord = 0 THEN ShowPlaceholder
     ELSE IF Torn(header.seq, seqBefore) \/ seqBefore % 2 = 1 THEN Retry
     ELSE /\ sampleAt' = "copying" /\ unread' = Parts
          /\ UNCHANGED <<attempt, held, shown, heldOvertaken>>
  /\ UNCHANGED <<sharedVars, writerVars, header, seqBefore, seqAfter, candidate,
                 overtaken, floor, idleAtStart>>

LoadPart(p) ==
  /\ sampleAt = "copying" /\ p \in unread
  /\ candidate' = [candidate EXCEPT ![p] = payload[p]]
  /\ unread' = unread \ {p}
  /\ sampleAt' = IF unread' = {} THEN "seqAfter" ELSE sampleAt
  /\ UNCHANGED <<sharedVars, writerVars, header, seqBefore, seqAfter, attempt, held, shown,
                 historyVars>>

LoadSeqAfter ==
  /\ sampleAt = "seqAfter"
  /\ seqAfter' = seqWord /\ sampleAt' = "flagsAfter"
  /\ UNCHANGED <<sharedVars, writerVars, header, unread, seqBefore, candidate, attempt,
                 held, shown, historyVars>>

\* Accept the copy: frame.swap(m_candidate), and ComposeFrame hands it on.
Accept ==
  /\ held' = candidate /\ shown' = candidate /\ heldOvertaken' = overtaken
  /\ sampleAt' = "idle"
  /\ UNCHANGED <<unread, attempt>>

LoadFlagsAfter ==
  /\ sampleAt = "flagsAfter"
  /\ IF flagWord = 0 THEN ShowPlaceholder
     ELSE IF Torn(seqBefore, seqAfter) THEN Retry
     ELSE Accept
  /\ UNCHANGED <<sharedVars, writerVars, header, seqBefore, seqAfter, candidate,
                 overtaken, floor, idleAtStart>>

Reader ==
  \/ BeginSample \/ LoadHeader \/ LoadSeqBefore \/ LoadFlagsBefore \/ LoadSeqAfter \/ LoadFlagsAfter
  \/ \E p \in Parts : LoadPart(p)

NextRing == Writer \/ Reader
SpecRing == InitRing /\ [][NextRing]_ringVars

-----------------------------------------------------------------------------
(* What the consumer of the camera may be shown.                            *)

RingTypes ==
  /\ seqWord \in 0..(2 * MaxFrames) /\ flagWord \in 0..1 /\ payload \in Pixels
  /\ writerAt \in {"absent", "ready", "payload"} /\ writerSeq \in 0..(2 * MaxFrames)
  /\ unwritten \subseteq Parts /\ frames \in 0..MaxFrames /\ writers \in 0..MaxWriters
  /\ published \in 0..MaxFrames
  /\ sampleAt \in {"idle", "header", "seqBefore", "flagsBefore", "copying", "seqAfter",
                   "flagsAfter"}
  /\ header \in [seq : 0..(2 * MaxFrames), flags : 0..1] /\ unread \subseteq Parts
  /\ seqBefore \in 0..(2 * MaxFrames) /\ seqAfter \in 0..(2 * MaxFrames)
  /\ candidate \in Pixels /\ held \in Pixels /\ shown \in Pixels
  /\ attempt \in 0..MaxAttempts
  /\ overtaken \in BOOLEAN /\ heldOvertaken \in BOOLEAN /\ floor \in 0..MaxFrames
  /\ idleAtStart \in BOOLEAN

\* Whatever the camera holds and shows again after a torn attempt is one whole
\* frame, unless a writer was constructed while it was being copied: neither
\* a publication nor a crash in the middle of one can tear a sample.
HeldIsWhole == heldOvertaken \/ Whole(held)

\* The promise of the module and of the header: a torn frame is discarded.
\* A writer that starts again counts its sequence from zero, so a copy that
\* spans the restart can meet the same even number twice.
NeverTorn == Whole(held)

\* Once the writer has closed, a sample shows the placeholder and never a
\* frozen frame, until a writer publishes again.
ClosedShowsPlaceholder ==
  [][ (sampleAt # "idle" /\ sampleAt' = "idle" /\ idleAtStart /\ published = floor)
        => shown' = [p \in Parts |-> NoFrame] ]_ringVars
=============================================================================
