# A TLA+ verification of custback

custback captures a camera, replaces the background and feeds a virtual camera. The frames
may come from an external renderer over a WebSocket, so the program's central promise is
about privacy: what reaches the virtual camera is composed under the configuration in force,
by the renderer that holds the lease, from the raw frame it was asked to answer, or it is
the built-in slate. The promise is kept by several threads, an asyncio event loop, two locks
and a directory that has to survive crashes. This directory models those parts, checks them
with TLC and proves the central safety properties with TLAPS.

All paths below are relative to the package `src/src/custback/`.

## 1. Inventory

### Output publisher (`output_scheduler.py`)
- **State**: lifecycle, publication policy (mode, raw epoch, renderer session), depth-one
  hand-off slot `_pending`, the base being repeated `_current`, the privacy latch
  `_force_slate`, last ids, the terminal event; `_condition` guards all of it, `_send_gate`
  serialises the sink against fences.
- **Operations**: `start`, `wait_opened`, `submit`, `fence_to_slate`, `request_stop`,
  `close`/`join`; the worker opens the sink, takes the gate, selects latched/pending/current/
  slate, sends, paces, cleans up.
- **Interactions**: the processing thread submits; the processing thread and the API event
  loop fence; `on_release`, `on_send` and `on_failure` call back into the pipeline's bridge.
- **Hard**: a fence against a send already selected; a fence that times out; a rejection whose
  latch outlives a stop; callbacks run after the lock is dropped; proofs that expire between
  selection and display.
- **Correct when**: the wire never shows a base of another policy than the one in force or
  an expired one; every accepted base is released exactly once; a stop releases everything.

### Pipeline coordinator (`pipeline.py`)
- **State**: `_publisher_policy`, `_publisher_raw_epoch`, `_publisher_policy_lock`, the pending
  remote raw frame, request queues, the publisher bridge (retained bases and their producers).
- **Operations**: the frame loop (local and remote branches), `_publisher_policy_transition`,
  `_remote_lifecycle_changed`, patch requests with fence, activation and rollback, shutdown.
- **Interactions**: hub, publisher, performance tracker, API threads, preparation executor.
- **Hard**: hub and policy are read without a lock and used later; a lease event during a
  patch; a failed activation is rolled back across threads.
- **Correct when**: the publisher's policy follows the lease and the configuration; an epoch
  names one policy; a raw frame that is not answered does not stall the loop.

### Frame hub (`hub.py`)
- **State**: the exclusive renderer lease (`_remote_session`, connected), the epochs issued to
  it, the required epoch, the one waiting rendered frame, frame slots, statistics.
- **Operations**: connect, disconnect, publish remote raw, push rendered frame, revoke.
- **Hard**: a frame whose receiver was replaced between two awaits; a lease taken over.
- **Correct when**: the waiting frame belongs to the lease in force and answers an epoch that was
  admitted for it.

### API server (`api/server.py`)
- **Renderer socket**: a receiver and a sender coroutine per connection over the hub; the lease
  notification fences the output from the event loop.
- **Background uploads**: staged file, trial by the pipeline, promotion at the commit boundary,
  settlement or discard, a cleanup queue, recovery at start-up, over the ownership ledger.
- **HTTP routes, authentication, thumbnails**: stateless or sequential.
- **Correct when**: an upload's file is owned by somebody until it is settled or gone; the active
  background is never removed; a user's own files never are.

### Storage ownership ledger (`storage_tx.py`)
- **State**: a record per transaction (names, inode, phase, charge), in memory and on disk.
- **Operations**: begin, bind, prepare/finish rename, reconcile, commit, abandon, cleanup with
  quarantine, retry, load.
- **Hard**: a crash or a failing call between any two of record, rename, record; a user's file
  under a recorded name; an inode number used again.

### Runtime performance tracker (`runtime_performance.py`)
- **State**: one bucket per producer epoch, reference counts, final summaries, the publisher's
  counters. **Operations**: bind, retain, release, record send, update publisher, stop snapshot.
- **Hard**: a late send of an older epoch; reports of two threads that cross each other.

### Configuration patches (`pipeline.py`, callers in `api/server.py`)
- **State**: the request queue, one `_PatchRequest` or `_MutationRequest` per caller (prepared
  resources, cancellation flag, outcome, done event), the preparation executor with its tracked
  futures, the live provider and the one it replaces, resources being torn down.
- **Operations**: `apply_config_patch`, `apply_staged_config_patch`, `apply_storage_mutation`;
  building, admission, trial, commit and teardown on the frame lane; `start`, `stop`.
- **Hard**: a caller that gives up while its candidate is built, queued or tried; a build that
  finishes after its caller left; a lane that dies with requests in its queue; a mutation that
  deletes an asset a queued candidate was checked against.
- **Correct when**: every candidate has one owner until it is closed once, every call returns, and
  what a call was told is what happened.

### Stream delivery and shutdown (`hub.py` slots, `api/streaming.py`)
- **State**: a slot with a sequence number and its asynchronous subscribers; `JpegBroadcaster`'s
  running and pending jobs with the deliveries shared by their clients; the registry of streams.
- **Operations**: put and clear, notify, `get`, encode, completion callback; register, release,
  request, begin and finish a shutdown.
- **Hard**: an event cleared while a publisher sets it; a pending frame replaced while its job is
  about to start; two shutdowns over one registry while streams come and go.
- **Correct when**: nobody who waits is forgotten or answered with an old frame; no registered
  stream outlives a shutdown unasked.

### Camera capture worker (`capture.py`)
- **State**: generation, reader threads and their stop events, the device, recovery with its
  deadlines, the fatal latch. **Operations**: the controller's loop, `_start_generation`,
  `_stop_current_worker`, the reader's loop, `read`, `close`.
- **Hard**: native calls that never return; a frame of a generation that is being stopped.
- **Correct when**: one reader at a time owns the device, every device is released, an outage ends.

### Native virtual-camera ring (`vcam_native.py`, `packaging/windows/vcam`)
- **State**: one header and one frame in shared memory, no lock: the sequence word is odd during a
  write. **Operations**: construct, publish, close; `CopyLatest` and `ComposeFrame` in another
  process.
- **Hard**: a copy across a publication, across the death of a writer, across its restart.
- **Correct when**: a consumer sees whole frames, and the placeholder once the writer has closed.

### The cleanup queue (`_StagedCleanupQueue`, `api/server.py`)
- A FIFO of discards and a worker thread that leaves after an idle second; the queue and the
  reference to the worker have locks of their own. **Correct when** no discard stays in the queue
  without a worker.

### Not modelled
- **State machines left for later**: the avatar service (activation by generation) and its stores
  (imports over the ledger), matte rollout, legacy migration, the replay of the transport token.
- **Numeric**: segmentation, compositing, colour, video decoding, rigs and drivers. Their control
  is sequential; what they compute over arrays is out of TLC's reach.
- **Offline tools**: matte qualification, performance and visual evaluation and the release scripts
  (more than a third of the implementation's lines) read files, compute, and write reports; nothing
  runs concurrently with them and nothing survives them but the report.
- **I/O and text**: the web page, the avatar proxy's forwarding, authentication's comparisons,
  diagnostics, the platform seam, the command line, packaging.

This is why the modules map a small share of the repository's lines: the parts with an order of
events to get wrong are a few thousand lines among 85 thousand, and they are the ones modelled.
`PROJECT.json` lists every component with its reason.

## 2. Modules

| module | models | state and actions |
|---|---|---|
| `PublicationGate` | abstract: what the publisher promises | policy, held bases, releases, wire; Accept, LetGo, Fence, ShowSlate, ShowBase, Clear |
| `BaseHandoff` | abstract: the custody of bases as the rest of the pipeline sees it | slots by id, owed callbacks; Submit, DropAll, Stop, AdoptPending, RepeatCurrent, SendReturns, Release |
| `OutputPublisher` | `output_scheduler.OutputPublisher` in full | what is done under `_condition` is one step, `_send_gate` is a variable, callbacks are owed by the thread that removed the base |
| `ProducerEpochs` | tracker buckets and `_PublisherBridge`, composed with `BaseHandoff` | BindEpoch, RetainBase, SubmitAccepted/Refused, ReleaseBase, ReleaseEpoch |
| `PublisherTelemetry` | reports of the publisher's counters by two threads | SinkAccepts, Deliver, Overwrite, TakeSnapshot, Report, Close |
| `FrameHub` | the renderer side of `FrameHub` | Grant/End/RevokeLease, PublishRaw, PushFrame, ClearFrames |
| `RemoteOutput` | remote mode end to end: `ws_frames`, `FrameHub`, the frame loop, policy transitions | extends `FrameHub`; the publisher is reduced to `PublicationGate`'s promise |
| `PolicyRollback` | policy transitions of patches, lease events and raw rotations, with failure and rollback | StartPatch, Activate, Install, their failures, RollbackFence, RestorePolicy |
| `PatchRequests` | the life of a patch or mutation request, from its caller through the executor to the frame lane, against `start` and `stop` | one action per step of the caller, of the executor's worker, of the lane and of `stop`; teardown threads close what was replaced |
| `AtomicConfig` | abstract: what the patch and mutation calls promise their callers, a compare-and-swap | version, epoch, what each patch is based on, state of each call; Ask, Patch, Mutate, Accept, Refuse |
| `OwnershipLedger` | the records of `storage_tx.py` and the directory they describe | Saved/SaveFails, Reconcile*, Moved, Unlinked, Forgotten |
| `UploadStore` | uploads over the ledger, with failing calls, crashes, restarts and users | one action per durable write or rename; `uploadAt[u]` is the place in the call chain |
| `CleanupQueue` | `_StagedCleanupQueue`: submitting threads and the worker that leaves when idle | PutTask, EnsureWorker, GetTask, GetTimesOut, LeaveIfEmpty, the attempts |
| `FrameRing` | the shared-memory ring: Python writer, Media Foundation reader | each load, store and piece of a copy is a step; Construct, Crash, BeginPublish, BeginSample, LoadPart, Accept, ShowHeld, ShowPlaceholder |
| `CaptureWorker` | `OpenCVCapture`: controller, readers, `read()`, `close()` | one action per step between two native calls or lock sections; deadlines are flags that pass |
| `StreamDelivery` | a hub slot with its subscriptions and `JpegBroadcaster` | Put, ClearSlot, Notify, the steps of `get` (Subscribe, CheckSlot, Wake, Disconnect) and of `_encode` (EncodeStarts, EncodeShares, EncodeCoalesces, RegisterCallback), FinishJob, Complete, Deliver |
| `StreamShutdown` | `StreamLifecycleRegistry` | Register, SetClose, ReleaseEntry, TaskEnds; Request, Begin, Cancel, Finish for each shutdown |

`MC*` modules instantiate these for TLC. `*Proofs` modules hold the theorems. Composition:
`OutputPublisher` implements `PublicationGate` and `BaseHandoff` by refinement mappings;
`ProducerEpochs` extends `BaseHandoff` and `RemoteOutput` relies on `PublicationGate`'s
behaviour, so what they show carries over to the publisher that is really there.
`PatchRequests` implements `AtomicConfig` (`ImplementsAtomic`): a call is seen there as idle, open,
done, answered with a success or with an error, and the threads, candidates, time-outs, stops and
restarts of the detailed module are gone.
`RemoteOutput` extends `FrameHub` and implements it (`RemoteUsesTheHub`), and `UploadStore` extends `OwnershipLedger`.

### Correspondence and abstractions
- A critical section is one step; every point where a lock is released, a callback runs, a
  coroutine awaits or a durable write returns separates two steps. `PROJECT.json` maps every
  definition to its lines.
- Frames are ids with the policy and proof they were made under; a proof is its
  `(raw_epoch, renderer_session)` and an expiry on a small clock. Pixels, digests, counters,
  log lines and latencies are left out, except the counters of `PublisherTelemetry`.
- In `RemoteOutput`, `Cycle` is one pass of the remote branch of the frame loop cut at each
  unlocked read; the event loop runs one callback at a time and is blocked while its
  notification fences.
- In `PatchRequests` a patch and the candidate built for it have one name. What a candidate is made
  of is left out; that it is open and has to be closed is kept. `builtOn` remembers the storage
  epoch a candidate was checked under. The order in which the caller, the lane and `stop` take the
  enqueue lock, the request's own lock and the executor's futures is the code's. A future that is
  cancelled stays in the executor's queue until its worker comes to it and drops it (`PassOver`).
- In `UploadStore` the labels `prepare → rename → finish → harden` are the four calls of
  `_rename_private_owned`, shared by commit, promotion, rollback, the undo of each, and the
  quarantine of a cleanup (`moving[u]` says which). `SaveFails` is a `_persist` that raises with
  the old or the new record on disk (its directory fsync comes after the replace).
- In `UploadStore` the queue of discards appears as a discard that is tried again; its worker thread
  is `CleanupQueue`. `Served` says that start-up has recovered every record: `create_app` does so
  before it registers a route, so no request and no deletion comes between two recoveries. A restart
  leaves a name that was never reserved as it is (`new`). A process may die at any step; written
  data is not lost.
- Users of `UploadStore` put files under any recorded name, the private cleanup name included, and
  take the store's away (`UserTakes`), at any step: between O_EXCL creation and the stat that binds
  it, between the last look before an unlink (`Remove`) and the `Unlink`. A file that goes frees its
  inode number, and the next file, of the store or of a user, may get it. The history variables
  `taken`, `late` and `made` serve the properties only.
- In `OutputPublisher` the history variables `fenced` (the newest base accepted before the last
  fence) and `rejecting` (the newest base accepted is a privacy rejection) serve
  `OvertakenStaysOff`. A rejection overwritten by a later valid base no longer counts: the code
  says that "a valid candidate clears the latch", and if that one expires or is dropped by a stop,
  the base before the rejection may be repeated.
- Smaller steps that are merged, each where no listed property depends on it: a submission that the
  publisher refuses is not a step of `RemoteOutput` (`SubmitBase`; `ProducerEpochs` has it). A device
  opened too late is released in the controller's own step (`StartGeneration`), although that native
  call could hang under the lock. `ChangeSlot` waits until earlier notifications have been handed to
  the event loop. In `PatchRequests` a mutation whose callback raises has changed nothing: the
  deletion of a background unlinks in its last call, and a discard deletes a failed upload only, which no
  candidate names. A callback that deletes and then raises would leave the storage epoch as it was.
- In `FrameRing` sequence and flags share one aligned word, so a copy of the header moves both,
  while the atomic loads before and after the copy are steps of their own; the pieces of a payload
  are copied in any order. A writer that dies leaves the word where it was; a new one starts at 0.
- In `CaptureWorker` time is a set of flags (`frameOld`, `outageOld`, `generationOld`, a due
  back-off) that become true whenever their deadline could have passed. A native call may return,
  fail or never return. A frame is only the fact that it ends a recovery.
- In `StreamDelivery` a delivery (the future its clients share) is the set of clients that await it.
  Executor threads take jobs in any order; the callback that runs when a job is already done
  runs on the registering side, as `add_done_callback` does.

## 3. Runs

| run | question | bounds | result |
|---|---|---|---|
| `publisher_privacy` | does the fence hold against a racing worker, two renderers, expiry, identity conflicts, sink failures and a stop? | 2 bases, 2 leases, clock 0..1, one control thread besides the processor | WireMatchesPolicy, WireProofFresh, OvertakenStaysOff, ImplementsGate, StopReleasesAll hold |
| `publisher_custody` | is every accepted base released once? does a consumer of the native ring see whole frames? | 3 bases, one renderer policy and the local one; 3 frames, 2 writers, 2 pieces, 2 attempts | CustodyExact, ImplementsHandoff, HeldIsWhole, ClosedShowsPlaceholder hold |
| `epoch_custody` | do producer epochs stay alive for late sends, and do crossing reports end with the final counters? | 4 bases, 6 epochs; counters to 3 | LateSendAttributed, ReferencesExact, RetainedIsCustody, FinalReportExact hold |
| `epoch_overflow` | is a fourth referenced epoch impossible, as a docstring says? | 4 bases, 4 epochs | **violated**, finding 1 |
| `remote_lease` | does the output follow the lease through connects, take-overs, disconnects, runs and time-outs? | 2 clients, 2 sessions, 2 raw epochs, 2 runs, table of 1 | AnswersOwnRaw, LeaseBoundary, PolicyFollowsLease, HolderSentItsOwn, RawMovesOn hold |
| `remote_restart` | may a run reuse the hub, as a comment says? | 1 session, 2 runs | **violated**, finding 2 |
| `policy_patches` | a change of the configuration in its three parts: policy, request, upload | policy: 2 patches, 2 sessions, epochs to 5; request: 2 patches, 1 mutation, 2 calls made, 2 starts, 1 stop; upload: 1 upload, 2 inode numbers, 3 failing calls, 2 deaths, 1 file of a user | seven invariants, CommitsCurrentAssets, ImplementsAtomic, UserDataKept, NeverForgotten and EveryCallReturns hold |
| `policy_rollback` | does a failed patch keep the policy? | as the policy part | **violated**, finding 3 |
| `services` | the helpers at the edges: camera, delivery, shutdown of streams, cleanup queue | 2 generations; 2 viewers, 3 changes of the slot; 2 streams, both shutdowns; 2 discards | five invariants, AnswersAreFresh, OutageEnds, ReaderReplaced, ClientsServed, EveryDiscardDone hold |
| `upload_adopted` | is an activated but unsettled upload adopted after a restart, as a comment says? | as the upload part | **violated**, finding 4 |
| `ring_restart` | is a torn frame always discarded, as the docstring says? | as the ring of `publisher_custody` | **violated**, finding 5 |
| `capture_stuck` | does a camera whose release hangs fail at the outage boundary, as a comment says? | 2 generations | **violated**, finding 6 |

**Runs in parts.** `publisher_custody`, `epoch_custody`, `policy_patches` and `services` check modules
that share no variable and do not interact. A product of their states would show nothing more
and cost the product of their sizes, so a variable `part` picks one of them in the initial
state and the others stay where they start: the states are the union. A property of a
resting part holds of its initial state only, and every part starts quiescent (no recovery under
way, no call made, nobody waiting), so that a liveness property is true of a resting part for the
right reason and its fairness asks nothing of it.

**Why the bounds are enough.** The publisher has two slots and one sink; two bases fill current
and pending, a third overwrites, a fourth meets the third one's owed callback. Two leases are
an old and a new one. The clock needs two values for fresh and expired. Four bases and six
epochs reach the tracker's limit of three referenced buckets and go past it. The raw
table's limit (2048 in the code) is 1, so that it overflows. Two patches allow a failing
one between two lease events; five epochs are what they use. Two requests at a time reach each
pair of kinds (patch and patch, patch and mutation), one being tried while the other is built or
queued; two starts put a request of an earlier run beside a new lane. Uploads share neither names
nor records, so one stands for all in the run (two of them, and two files of users over three inode numbers,
were tried by themselves, and the proofs have any number); three faults reach a failing call inside the undo of a
failing rename inside a failing cleanup, two deaths a crash during recovery, two inode
numbers the reuse of a freed one. Two writers and three frames let a copy span an end, a restart and a
whole new publication; two pieces are enough to tear; two attempts include a retry; the
code has a constant. Two devices are the stalled one and its replacement. Two viewers can share a
job, replace a pending frame and come and go; three changes of the slot are a running frame, a
pending one and the one that replaces it. Both shutdowns of the program overlap. Two discards
suffice for one to arrive as the worker leaves. Every bound is a CONSTANT in a guard. The proofs of
section 5 hold without the bounds.

**Deadlock** is checked where the model ends only when the program does (publisher, ring, epochs,
telemetry). The cfgs of `RemoteOutput`, of the configuration's parts, of the services and of
`CaptureWorker` switch it off: sessions, raw epochs, patches, faults and devices run out at their
bounds, and a settled upload, an idle viewer, a returned shutdown or a closed camera has nothing
left to do.

**Fairness.** Weak fairness says that a thread goes on once it can.
- Publisher (`publisher_privacy`): a thread past its lock attempt goes on, the sink, the factory and
  callbacks return, time passes. Strong fairness only where a thread competes for a lock: the worker
  for the send gate (fences are rare beside its 30 Hz), a fence for the gate, and a stopped worker
  for its exit while its sink keeps accepting.
- Remote mode (`remote_lease`): both threads go on, the sink returns, time passes; strong for the
  policy lock and the fence.
- Requests (`PatchFairness`): callers, the lane and a stop that is failing requests. The executor's
  worker is **not** fair, a constructor may never return: no answer may depend on it.
- Camera (`CaptureFairness`): deadlines pass, the pipeline keeps reading, and the controller takes
  the steps that are its own. Nothing is assumed of a native call or of a reader; `ReaderReplaced`
  names the one assumption it needs, that releasing a device returns, in its own statement.
- Delivery (`StreamFairness`): the event loop serves what is ready in turn (strong, because another
  client's turn disables a step for a moment), notifications and the executor go on, an encoder
  returns or raises. Nothing is assumed of viewers or of new frames.
- Cleanup (`CleanupFairness`): threads go on, and a discard tried again and again succeeds in the
  end, each one for itself.

No fairness is assumed of users, renderers, failures or fence time-outs, except
that a fence which finds the gate taken either gets it or times out. `UploadStore` claims no
liveness: its retries depend on later uploads.

**Mutants.** Every property of a passing run has a mutant in `PROJECT.json`: a change to one
mapped definition that a plausible bug would make (a fence that forgets the gate, a stop that
waits for the executor's worker but not for its futures, a worker that leaves without looking at its
queue again, a stream that may register during a shutdown) and that the property catches.

**Types.** Each module states one type invariant (`TypeOK`, `RingTypes`, `CaptureTypes`, ...). They
document the state and are parts of the proofs' invariants where those need them; the runs spend
their checks on the properties that a fault of the code could break.

## 4. Properties worth reading first
- `WireMatchesPolicy`: the fence is a barrier. When `fence_to_slate` has swapped the policy,
  nothing of the old one is in the sink, its pacing wait included.
- `LeaseBoundary`: once a lease event is notified, the output shows only the holder's answer to
  the epoch required of it, though the frame loop read hub and policy without a lock.
- `CustodyExact`: slots, owed callbacks and releases partition the accepted bases.
- `CandidateCustody`: a built candidate has one owner, or was closed once and has none, whichever
  of the nine places a time-out, a trial, a failed rollback or a stop finds it in.
- `ImplementsAtomic`: a patch is a compare-and-swap and a mutation is atomic: what was accepted was
  carried out between its call and its return, what was refused never will be, and no patch
  overwrites one it has not seen.
- `CommitsCurrentAssets`: no candidate goes live that was checked before the last deletion.
- `LateSendAttributed`: the epoch of a base in the sink still takes samples, however many
  generations have been bound since.
- `ComposedForGate`, `EpochNamesPolicy`: a base admitted by the publisher was composed for its
  mode, across failed patches.
- `NamesIt`, `NeverForgotten`, `UserDataKept`: after any prefix of failing renames, undos and
  cleanups the durable record names the place of its inode, and a user's file is removed only where
  the code cannot tell it from the store's (`Exposed` lists the cases).
- `OvertakenStaysOff`: a base that a fence discarded stays off, also when a rollback fences back to
  the very policy it was made for and a later base, now gone, cleared the latch.
- `OwedOneAnswer`, `AnswersAreFresh`, `ClientsServed`: a viewer is in one delivery, gets nothing
  older than it asked for, and gets it.
- `HeldIsWhole`: what the camera repeats is one whole frame, through deaths of the writer.
- `OneReader`, `OutageEnds`: one reader at the device, and no outage without an end, although no
  native call is trusted to return.

## 5. Theorems

Proved by TLAPS for every value of the constants, from the named assumptions of the modules
(`None` is no id, no base, no thread, no client and no record; `Nothing` is no thread and `NoCall` no
call; bounds are naturals; leases and threads are distinct).

| theorem | statement | inductive invariant, and why it is needed |
|---|---|---|
| `OutputPublisherProofs!TypeCorrect` | `Spec => []TypeOK` | one lemma per process. `TypeOK` includes that a client past `wantGate` remembers its requested policy; without it `FenceToSlate` could install `None` |
| `OutputPublisherProofs!FenceBarrier` | `Spec => []WireMatchesPolicy` | `WireInv` adds `GateDiscipline` (whoever is past the gate holds it, and nobody else), `EmptySink` (nothing is in the sink outside a send), `WireProofFresh` and `WireHeld`; so a fence swaps the policy only over an empty sink |
| `OutputPublisherProofs!WireIsFreshAndHeld` | `Spec => [](WireProofFresh /\ WireHeld)` | from the same invariant: `gateTime` moves only when the worker takes the gate with an empty sink |
| `OutputPublisherProofs!NoBaseLostOrReleasedTwice` | `Spec => []CustodyExact` | `CustodyInv` = `WireInv`, `CustodyExact`, `CalledBack` (a thread about to remove bases has called back for all it removed before), `KnownIds` (no id above the last submitted one is known, so a submission brings a new one) and `SlotsOfWorker`. One lemma, `CustodyMoves`, carries the partition over every kind of move; each action cites it |
| `OutputPublisherProofs!CleanupIsFinal` | `Spec => []NothingStranded` | `SlotsOfWorker`: after the worker's cleanup the lifecycle is terminal, so no submission is accepted |
| `OutputPublisherProofs!PublisherImplementsHandoff` | `Spec => ImplementsHandoff` | initial states map to initial states and every step to a step of `BaseHandoff` or a stutter, under `CustodyInv` |
| `OutputPublisherProofs!PublisherImplementsGate` | `Spec => ImplementsGate` | the same for `PublicationGate`; that a base shown is held and admitted comes from `WireInv` |
| `OutputPublisherProofs!OvertakenBasesStayOff` | `Spec => OvertakenStaysOff` | `AfterFence`: the slots hold only bases accepted since the last fence, and the latch is set while the newest base accepted is a rejection; one case per step that fills, moves or empties a slot |
| `RemoteOutputProofs!HubAnswersOwnRaw` | `SpecHub => []AnswersOwnRaw` | `HubInv` = types, `AnswersOwnRaw`, `BoundToLease` (an epoch the lease may answer belongs to the lease in force), `SlotIsOld` (a waiting frame answers an epoch already required) and `WasGranted` (revoking a lease in force stays in range) |
| `RemoteOutputProofs!RemoteAnswersOwnRaw` | `Spec => []AnswersOwnRaw` | every step of `RemoteOutput` is a step of `FrameHub` or leaves the hub alone, so `HubInv` carries over; `RawTyped` bounds the epoch the pipeline asks for |
| `RemoteOutputProofs!PolicyNamesTheLease` | `Spec => []PolicyFollowsLease` | `PipelineInv`, below: `Turns` and `Following` |
| `RemoteOutputProofs!NoRendererOutlivesItsLease` | `Spec => []LeaseBoundary` | `PipelineInv`: all of it |
| `RemoteOutputProofs!HoldersAreSentTheirOwn` | `Spec => []HolderSentItsOwn` | `PipelineInv` and `SentAsIssued`: what was sent names epochs already required, whose lease is settled |
| `RemoteOutputProofs!RemoteUsesTheHub` | `Spec => SpecHub` | every step of `RemoteOutput` is one operation of `FrameHub`, on a lease that was given out and a raw epoch in range (`PipelineInv`), or leaves the hub alone. Stating it corrected `NextHub`: the reset at the start of a run comes before the first lease, too |
| `FrameRingProofs!HeldFramesAreWhole` | `SpecRing => []HeldIsWhole` | `RingInv` adds `EvenIsWhole` (an even word stands over one whole frame), `Orderly` (under one writer the word only grows) and `CopyIsCurrent` (a copy whose first load is still in the word has loaded pieces of what is there now) |
| `FrameRingProofs!OneWriterNeverTears` | `MaxWriters = 1` implies `SpecRing => []NeverTorn` | the complement of finding 5: a second construction of the writer is all that can break the docstring's promise, deaths in the middle of a write cannot |
| `FrameRingProofs!NoFrozenFrame` | `SpecRing => ClosedShowsPlaceholder` | `FlagStaysCleared`: the flag a closed writer cleared stays cleared until a publication ends, and that one's frame is newer than what was published when the sample began |
| `CaptureWorkerProofs!TwoReadersNever` | `SpecCapture => []OneReader` | `CaptureInv`: `OnlyOwnedReads`, `OpenIsReferenced` (an open device is the referenced one or the one being installed), `OpensAlone`, `Released` |
| `CaptureWorkerProofs!EveryDeviceReturned` | `SpecCapture => []DevicesReturned` | the same invariant |
| `StreamProofs!NobodyLostOrShared` | `SpecStream => []OwedOneAnswer` | `DeliveryInv` = shape, `OnePlace` (a client is in one set of waiters, and only while it registers or awaits), `OneRegistrar` (one client at a time is between taking a job and registering its callback) and `FreshEnough` |
| `StreamProofs!NobodyGetsOldFrame` | `SpecStream => AnswersAreFresh` | `FreshEnough`: the frame asked for is no newer than that of the job waited in |
| `StreamProofs!ShutdownMissesNone` | `SpecLifecycle => []ShutdownReachesAll` | `LifecycleInv`: once a shutdown has begun nothing registers (`RefusesWhileClosing`), so its snapshot covers the entries (`SeenAll`) |
| `StreamProofs!NoDiscardStranded` | `SpecCleanup => []DiscardsKept` | `CleanupInv`: the worker holds one discard while it tries and none otherwise (`Hands`); the rest is inductive as it stands, because the idle worker looks again under the lock. Lemmas say what a queue without duplicates is after a put, a take and a put back |
| `EpochProofs!ReferencesNeverDrift` | `Spec => []ReferencesExact` | `EpochInv` = `ReferencesExact`, `RetainedIsCustody`, `Custody` (slots and owed callbacks share no base), `Ids` (only ids given out are known), `Handing` (the base being submitted is retained already), `Popping` (a callback has popped the epoch of at most one base and not yet released it) and `InUse` (an epoch something refers to still takes samples). The counting is over finite sets of bases and threads |
| `EpochProofs!BridgeKeepsWhatIsHeld` | `Spec => []RetainedIsCustody` | `EpochInv` |
| `EpochProofs!NoSendIsLost` | `Spec => []LateSendAttributed` | `EpochInv`: a base in the sink is current, so the bridge retains it, so its epoch is referenced, so it takes samples |
| `EpochProofs!LastReportIsExact` | `Reports!Spec => []FinalReportExact` | `ReportsInv`: a report never is ahead of the counters (`Behind`), and the terminal one is taken when nobody is left to count or report (`Quiescent`) |
| `PatchProofs!PolicyTypes` | `Spec => []TypeOK` | part of `PolicyInv` |
| `PatchProofs!OneEpochOnePolicy` | `Spec => []EpochNamesPolicy` | `PolicyInv`, below: `EpochsDiffer` |
| `PatchProofs!ModesNeverMix` | `Spec => []ComposedForGate` | `PolicyInv`: `EpochsDiffer` and `RemoteStays` |
| `PatchProofs!SettledPolicyInForce` | `Spec => []CommittedPolicyInForce` | `PolicyInv`: `TransitionTurns` and `PolicyTracks` |
| `PatchProofs!RequestInvariant` | `SpecPatches => []RequestInv` | the inductive invariant of requests, below |
| `PatchProofs!AnswersAreTrue` | `SpecPatches => []AnswerTruthful` | `RequestInv`: `Decided` |
| `PatchProofs!OneOwnerOrClosedOnce` | `SpecPatches => []CandidateCustody` | `RequestInv`: `OneOwner` counts owners and closings of each candidate, over the nine places it may be in |
| `PatchProofs!StopIsComplete` | `SpecPatches => []StopLeavesNothing` | `RequestInv`: `Stopped` says for each point of `stop` what it has already emptied |
| `PatchProofs!OnlyCurrentAssets` | `SpecPatches => CommitsCurrentAssets` | `RequestInv`: `BuiltBetween`, and `Lanes`, by which a trial has found the storage epoch its caller saw |
| `PatchProofs!PatchesAreAtomic` | `SpecPatches => ImplementsAtomic` | `RequestInv` and `BasedOn` (a patch on trial is still based on the current version: only the lane commits, and it is busy with the trial). Every step of a caller, the executor, the lane or a stop is a step of `AtomicConfig` or changes nothing there |
| `UploadProofs!UploadInvariant` | `SpecUploads => []FileInv` | the inductive invariant of uploads, below |
| `UploadProofs!UploadStoreTypes` | `SpecUploads => []UploadTypes` | part of `FileInv` |
| `UploadProofs!ActiveUploadIsThere` | `SpecUploads => []ActiveKept` | `FileInv`: `Shown` |
| `UploadProofs!RecordNamesThePlace` | `SpecUploads => []NamesIt` | `FileInv`: `Placed` and `Tracks` |
| `UploadProofs!UserFilesStay` | `SpecUploads => UserDataKept` | `FileInv`: at an unlink the private name holds nothing, the recorded number, or what came after the last look (`Memory`); every other step of the store moves or makes files and removes none |
| `UploadProofs!FileKeepsItsOwner` | `SpecUploads => NeverForgotten` | `FileInv`: `Memory`, since what a step writes is made from what the process remembers |

`PipelineInv` says why the lease boundary holds although the frame loop reads hub and policy without
a lock. `Turns`: the policy lock is held from the choice of a policy to its assignment. `Following`:
the publisher's policy is the pipeline's or the one being installed, and unless a thread has
yet to look (its transition waits for the lock), that one names the lease in force.
`RawInForce`: past its publication, the raw epoch of every policy is the required one.
`ConnectionsNotified` and `FramesNotified`: no connection that may send, and no frame read from the
slot, belongs to a lease newer than the policy in use or being installed. `ReadsForward`: the
frame of a read is at least as new as the proof read before it. So when `Judge` finds that the
proof names the policy's lease and epoch, the frame cannot be older than the proof, nor of a later
lease (it was notified), nor of a later epoch (none is required yet): it is the very frame the proof
stands for (`JudgedPixels`). `PixelsProven` carries that to the sink.

`PolicyInv` says why a patch that fails half-way mixes no modes. `TransitionTurns`: one thread at a
time is between the choice of a policy and its assignment, and the processing thread only where its
code says so. `EpochsDiffer`: policies in use, in flight or kept by a base with one epoch are one
policy, because an epoch is never given out again, not even by the rollback that assigns an old
policy. `RemoteStays`: remote mode has a remote policy, so that a base composed for one mode carries
the proof of the other under no gate. `PolicyTracks`: until a rollback or a failure, the policy is
that of the configuration and, unless somebody has yet to look, of the lease in force.

`RequestInv` says where every request is. `Lanes`, `Pending`: the lane tries one request at a time;
it and those in the queue, none twice, are not done, and their callers still wait or have
cancelled. `Decided`: an outcome is set once, before `done`, and what a caller was told agrees with
it; a caller gives up with an error only while none is set, and the mark it leaves (`cancelled`) is
read under the same lock before anything is carried out. `OneOwner`: owners and closings of a
candidate add up to one once it is built, and to none before. `Preparing`: the executor's queue, its
worker, the tracked futures and the caller's own step agree. `BuiltBetween`: a candidate was built
no earlier than its caller read the storage epoch and no later than now; as a trial finds that epoch
unchanged, the assets are those it was built from. `Stopped`: what `stop` has drained stays empty
until the next start. Working out `Preparing` corrected the model: a future that its caller
cancels stays in the executor's queue until the worker comes to it (`PassOver`).

`FileInv` follows the file an upload made: it is under one of its names, was taken away by a user,
or is gone. `Placed`: a file has one name, and the only file of the store among the names of an
upload is the one it made. `Tracks`: a record that is not settled names the place of its file, in
memory and on disk; once the file is gone, it names at most the private cleanup place. `Memory`: what
the process knows at each point of a transaction, for instance that before a rename, and until
after it, both names are on disk. `Shown`: the picture in use is under its final name and at no point
from which it would be moved. Two things had to be said right before it could be proved. Start-up
recovers all records before a request is served (`Served`). And an inode number that is freed may
be given to another file while a record still has it: `Holds` asks that the file with
that number is under a name of this upload, without which `NeverForgotten` is false of two uploads
(TLC shows it, and one upload does not) though no file is lost.

Each invariant was checked with TLC before it was proved. `NothingStranded` and `AnswerTruthful` are
proved and no longer have a run: `StopReleasesAll` and `ImplementsAtomic`, which are checked, fail
where they would.

**Only model-checked**: liveness (`StopReleasesAll`, `RawMovesOn`, `EveryCallReturns`, `OutageEnds`,
`ReaderReplaced`, `ClientsServed`, `EveryDiscardDone`), which the prover cannot treat under
fairness, as it cannot treat ENABLED. Every invariant and every action property of a passing run is
proved. No module declares a RECURSIVE operator; induction over data is out of the prover's reach
and nothing here needs it.

## 6. Findings
1. **epoch_overflow** (`runtime_performance.py:868`). `retain_epoch` counts bases whose release
   callback has not run. With one base current, one pending and one taken out but not called
   back, the next change of epoch asks for a fourth key and fails the pipeline. The docstring
   counts the current and the pending base only.
2. **remote_restart** (`hub.py:923`). The required raw epoch survives a run while the pipeline
   starts again at 0: a second run in remote mode that reuses the hub is rejected, against the
   comment at `hub.py:845`.
3. **policy_rollback** (`pipeline.py:4090`). The rollback of a failed patch assigns a policy read
   earlier, without the policy lock. A renderer that connects or leaves meanwhile leaves pipeline
   and publisher under different policies until the next change of mode. Frames of the wrong mode
   still do not pass (`ComposedForGate`): the output stays on the slate.
4. **upload_adopted** (`api/server.py:1973`). An upload whose settlement failed is adopted at
   start-up only if the start-up configuration names it; activations are not written there.
5. **ring_restart** (`vcam_native.py:330`). A new writer over a section that the camera keeps open
   sets the sequence back to 0 and can reach the even value a copy in progress loaded first: the
   torn copy is kept, against the docstring of the module (15-17). `OneWriterNeverTears` shows that
   nothing else breaks it.
6. **capture_stuck** (`capture.py:1021`). While the controller releases a stalled device, a late frame
   of its reader ends the recovery and with it the deadline. If the release never returns, `read()`
   gives `None` for ever, against the comment at `capture.py:1290`. The next due deadline is only
   set by the controller, which is stuck; the outage itself (`OutageEnds`) counts as ended.

Met while modelling, and not claimed by a run:
- A user's file can be removed where the code cannot tell it from its own; `Exposed` lists the
  cases and `UserDataKept` says that there are no others. `_cleanup_save` without a record (a
  failed reservation, or a staging name already taken) unlinks by name, and so does
  `_retry_pending_cleanup` for names it listed before their record was dropped. `bind` adopts what
  it finds under the name. A user who deletes a staged file may get its inode number for his own
  under the same name. A file may come between the last look and the unlink. All need somebody else
  to write under a hidden name that carries a fresh uuid.
- A crash between O_EXCL creation and binding leaves a hidden file that no record owns. The code
  says so at `reconcile`: ownership is never inferred from a name.
- A virtual camera that paces itself sleeps under the send gate, so a fence's time-out has to
  exceed its frame interval.
- `wait_opened` reads error and output under separate locks; a stop between them makes it raise
  for want of an output. The run ends either way.
- A sender that passed its lease check and then awaited may send one frame after a take-over; the
  frame was admitted for its new holder or for nobody, and the old connection's answer is refused.
- When the rollback's own fence times out, `rollback_activate` is not called; the discard of the
  upload copes with it (`RollbackPromotion`).

## 7. Plan
Done: publisher with its two abstractions; producer epochs and telemetry; hub and remote mode; policy
rollback; ledger and uploads; patch requests; ring; camera; delivery and shutdown of streams; the
cleanup queue. Proved: every safety property the runs check, both refinements of the
publisher, that requests are atomic, and that remote mode uses the hub as it is meant to be used.

Next, in order of value:
1. A `PublicationGate` that lets go of several bases in one step, so that the publisher which
   `RemoteOutput` assumes can be shown to allow all that the gate allows.
2. The avatar store's import over two transactions of the ledger, and the avatar service's activation
   by generation.
3. `MatteRollout` and `Migration` as small modules of their own.
4. A `RemoteOutput` with mode changes, composing it with `PolicyRollback`.
