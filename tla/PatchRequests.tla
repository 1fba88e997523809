--------------------------- MODULE PatchRequests ---------------------------
(***************************************************************************)
(* The life of a configuration patch in pipeline.py: its caller, the       *)
(* preparation executor that builds the candidate resources, the request   *)
(* queue, the frame lane that tries and commits the candidate between two  *)
(* frames, and stop(), which races all of them. Storage mutations share    *)
(* the queue. Every candidate holds an open decoder or model, so it has to *)
(* be closed exactly once by whoever owns it.                              *)
(*                                                                         *)
(* A patch is named by its id; the candidate built for it has the same     *)
(* name. All candidates replace the same live provider.                    *)
(***************************************************************************)
EXTENDS Integers, Sequences, FiniteSets

CONSTANTS
  Patches,      \* calls of apply_config_patch / apply_staged_config_patch
  Mutations,    \* calls of apply_storage_mutation
  NoCall,
  MaxCalls,     \* bound on the calls made of those, in a behaviour
  MaxStarts,    \* bound on calls of start()
  MaxStops      \* bound on calls of stop()

ASSUME CallsAssumption ==
  /\ Patches \cap Mutations = {}
  /\ NoCall \notin Patches \cup Mutations
  /\ MaxCalls \in Nat /\ MaxStarts \in Nat /\ MaxStops \in Nat

Calls == Patches \cup Mutations

VARIABLES
  \* the callers
  callAt, answer, baseVersion, seen,
  \* the requests: _PatchRequest and _MutationRequest
  prepared, cancelled, outcome, done,
  \* the preparation executor and its registered futures
  executor, pool, worker, future, armed, tracked,
  \* the frame lane
  queue, laneAt, laneReq, laneAct, replaced, live, laneFailed,
  \* teardown of resources
  teardown, deferred, closes, dropped,
  \* configuration, storage and what happened to them
  version, storageEpoch, assets, builtOn, committed, performed,
  \* start and stop
  stopping, publisherUp, enqueueLock, stopper, starts, stops

callerVars   == <<callAt, answer, baseVersion, seen>>
requestVars  == <<prepared, cancelled, outcome, done>>
executorVars == <<executor, pool, worker, future, armed, tracked>>
laneVars     == <<queue, laneAt, laneReq, laneAct, replaced, live, laneFailed>>
closeVars    == <<teardown, deferred, closes, dropped>>
configVars   == <<version, storageEpoch, assets, builtOn, committed, performed>>
stopVars     == <<stopping, publisherUp, enqueueLock, stopper, starts, stops>>

patchVars == <<callerVars, requestVars, executorVars, laneVars, closeVars, configVars,
               stopVars>>

CallerPC == {"idle", "created", "awaiting", "took", "kept", "refused", "discarding",
             "prepared", "waiting", "timedOut", "returned"}
LanePC   == {"off", "loop", "trial", "failing", "replace", "ending", "draining",
             "closing"}
StopPC   == {"idle", "requested", "draining", "joining", "survivors", "preparation",
             "executor", "executorLate", "stopped", "late"}

PatchTypes ==
  /\ callAt \in [Calls -> CallerPC]
  /\ answer \in [Calls -> {"none", "ok", "error"}]
  /\ baseVersion \in [Patches -> Nat] /\ seen \in [Patches -> Nat]
  /\ prepared \in [Patches -> BOOLEAN]
  /\ cancelled \in [Calls -> BOOLEAN] /\ done \in [Calls -> BOOLEAN]
  /\ outcome \in [Calls -> {"none", "result", "error"}]
  /\ executor \in {"none", "open", "shut"}
  /\ pool \in Seq(Patches) /\ worker \in Patches \cup {NoCall}
  /\ future \in [Patches -> {"none", "queued", "running", "built", "raised",
                             "cancelled", "taken"}]
  /\ armed \subseteq Patches /\ tracked \subseteq Patches
  /\ queue \in Seq(Calls) /\ laneAt \in LanePC /\ laneReq \in Calls \cup {NoCall}
  /\ {laneAct, replaced, live} \subseteq Patches \cup {NoCall} /\ laneFailed \in BOOLEAN
  /\ teardown \subseteq Patches /\ deferred \subseteq Patches /\ dropped \subseteq Patches
  /\ closes \in [Patches -> Nat]
  /\ version \in Nat /\ storageEpoch \in Nat /\ assets \in Nat
  /\ builtOn \in [Patches -> Nat \cup {NoCall}]
  /\ committed \subseteq Patches /\ performed \subseteq Mutations
  /\ stopping \in BOOLEAN /\ publisherUp \in BOOLEAN
  /\ enqueueLock \in {NoCall, "stop", "lane"} /\ stopper \in StopPC
  /\ starts \in Nat /\ stops \in Nat

InitPatches ==
  /\ callAt = [r \in Calls |-> "idle"] /\ answer = [r \in Calls |-> "none"]
  /\ baseVersion = [r \in Patches |-> 0] /\ seen = [r \in Patches |-> 0]
  /\ prepared = [r \in Patches |-> FALSE]
  /\ cancelled = [r \in Calls |-> FALSE] /\ done = [r \in Calls |-> FALSE]
  /\ outcome = [r \in Calls |-> "none"]
  /\ executor = "none" /\ pool = <<>> /\ worker = NoCall
  /\ future = [r \in Patches |-> "none"] /\ armed = {} /\ tracked = {}
  /\ queue = <<>> /\ laneAt = "off" /\ laneReq = NoCall /\ laneAct = NoCall
  /\ replaced = NoCall /\ live = NoCall /\ laneFailed = FALSE
  /\ teardown = {} /\ deferred = {} /\ dropped = {}
  /\ closes = [r \in Patches |-> 0]
  /\ version = 0 /\ storageEpoch = 0 /\ assets = 0
  /\ builtOn = [r \in Patches |-> NoCall]
  /\ committed = {} /\ performed = {}
  /\ stopping = FALSE /\ publisherUp = FALSE /\ enqueueLock = NoCall
  /\ stopper = "idle" /\ starts = 0 /\ stops = 0

\* Pipeline.running: no error, a live worker thread and a publisher not yet stopping.
Running == ~laneFailed /\ laneAt # "off" /\ publisherUp

\* _schedule_close: a teardown thread of its own, or, when no thread can be
\* started, the list that the end of the run drains.
ScheduleClose(S) ==
  /\ \/ teardown' = teardown \cup S /\ deferred' = deferred
     \/ S # {} /\ deferred' = deferred \cup S /\ teardown' = teardown
  /\ UNCHANGED <<closes, dropped>>

\* _Activation.discard: closed here, by the thread that holds it.
CloseNow(S) ==
  /\ closes' = [r \in Patches |-> IF r \in S THEN closes[r] + 1 ELSE closes[r]]
  /\ UNCHANGED <<teardown, deferred, dropped>>

\* The candidate still in the request, which whoever takes it out has to close.
\* Mutant: a caller that gives up closes the candidate the lane has claimed, too.
HeldOrClaimed(r) == IF prepared[r] \/ laneAct = r THEN {r} ELSE {}
Held(r) == IF prepared[r] THEN {r} ELSE {}
Answered(r) == outcome[r] # "none"

----------------------------------------------------------------------------
\* The callers.

Return(r, a) == callAt' = [callAt EXCEPT ![r] = "returned"] /\ answer' = [answer EXCEPT ![r] = a]

MayCall == Cardinality({ r \in Calls : callAt[r] # "idle" }) < MaxCalls

\* apply_config_patch up to the request. The version is read before the storage
\* epoch; a commit in between only makes the request stale, as one after it does.
CreateRequest(r) ==
  /\ r \in Patches /\ callAt[r] = "idle" /\ MayCall /\ Running
  /\ callAt' = [callAt EXCEPT ![r] = "created"]
  /\ baseVersion' = [baseVersion EXCEPT ![r] = version]
  /\ seen' = [seen EXCEPT ![r] = storageEpoch]
  /\ UNCHANGED <<answer, requestVars, executorVars, laneVars, closeVars, configVars,
                 stopVars>>

\* executor.submit and the registration of its future, under _preparation_lock.
SubmitPreparation(r) ==
  /\ callAt[r] = "created"
  /\ \/ /\ executor = "open"
        /\ pool' = Append(pool, r)
        /\ future' = [future EXCEPT ![r] = "queued"]
        /\ tracked' = tracked \cup {r}
        /\ callAt' = [callAt EXCEPT ![r] = "awaiting"]
        /\ answer' = answer
     \/ /\ executor # "open"
        /\ Return(r, "error")
        /\ UNCHANGED <<pool, future, tracked>>
  /\ UNCHANGED <<baseVersion, seen, requestVars, executor, worker, armed, laneVars, closeVars,
                 configVars, stopVars>>

\* future.result() returns the candidate to its caller ...
TakeResult(r) ==
  /\ callAt[r] = "awaiting" /\ future[r] = "built"
  /\ future' = [future EXCEPT ![r] = "taken"]
  /\ callAt' = [callAt EXCEPT ![r] = "took"]
  /\ UNCHANGED <<answer, baseVersion, seen, requestVars, executor, pool, worker, armed, tracked,
                 laneVars, closeVars, configVars, stopVars>>

\* ... which keeps it in the request, or closes it if the pipeline has stopped ...
KeepOrDiscard(r) ==
  /\ callAt[r] = "took"
  /\ \/ /\ Running
        /\ prepared' = [prepared EXCEPT ![r] = TRUE]
        /\ callAt' = [callAt EXCEPT ![r] = "kept"]
        /\ UNCHANGED closeVars
     \/ /\ ~Running
        /\ CloseNow({r})
        /\ callAt' = [callAt EXCEPT ![r] = "refused"]
        /\ UNCHANGED prepared
  /\ UNCHANGED <<answer, baseVersion, seen, cancelled, outcome, done, executorVars, laneVars,
                 configVars, stopVars>>

\* ... or raises: the constructor failed or the future was cancelled by a stop.
PreparationRaised(r) ==
  /\ callAt[r] = "awaiting" /\ future[r] \in {"raised", "cancelled"}
  /\ callAt' = [callAt EXCEPT ![r] = "refused"]
  /\ UNCHANGED <<answer, baseVersion, seen, requestVars, executorVars, laneVars, closeVars,
                 configVars, stopVars>>

\* The finally clause of _prepare_patch_request.
Untrack(r) ==
  /\ callAt[r] \in {"kept", "refused"}
  /\ tracked' = tracked \ {r}
  /\ \/ callAt[r] = "kept" /\ callAt' = [callAt EXCEPT ![r] = "prepared"] /\ answer' = answer
     \/ callAt[r] = "refused" /\ Return(r, "error")
  /\ UNCHANGED <<baseVersion, seen, requestVars, executor, pool, worker, future, armed,
                 laneVars, closeVars, configVars, stopVars>>

\* The deadline passes: _abandon_preparation_future cancels a future that has not
\* started, or leaves the candidate to a callback. The callback of a future that is
\* already done runs at once, on this thread.
Abandon(r) ==
  /\ callAt[r] = "awaiting"
  /\ \/ /\ future[r] \in {"queued", "cancelled"}
        /\ future' = [future EXCEPT ![r] = "cancelled"]
        /\ tracked' = tracked \ {r}
        /\ Return(r, "error")
        /\ UNCHANGED armed
     \/ /\ future[r] = "running"
        /\ armed' = armed \cup {r}
        /\ Return(r, "error")
        /\ UNCHANGED <<future, tracked>>
     \/ /\ future[r] \in {"built", "raised"}
        /\ callAt' = [callAt EXCEPT ![r] = "discarding"]
        /\ UNCHANGED <<future, tracked, armed, answer>>
  /\ UNCHANGED <<baseVersion, seen, requestVars, executor, pool, worker, laneVars, closeVars,
                 configVars, stopVars>>

DiscardDoneFuture(r) ==
  /\ callAt[r] = "discarding"
  /\ CloseNow(IF future[r] = "built" THEN {r} ELSE {})
  /\ future' = [future EXCEPT ![r] = IF @ = "built" THEN "taken" ELSE @]
  /\ callAt' = [callAt EXCEPT ![r] = "refused"]
  /\ UNCHANGED <<answer, baseVersion, seen, requestVars, executor, pool, worker, armed, tracked,
                 laneVars, configVars, stopVars>>

\* _submit_prepared_patch: no time left, so the candidate is given to a teardown thread.
DeadlineBeforeQueue(r) ==
  /\ callAt[r] = "prepared"
  /\ ScheduleClose(Held(r))
  /\ prepared' = [prepared EXCEPT ![r] = FALSE]
  /\ Return(r, "error")
  /\ UNCHANGED <<baseVersion, seen, cancelled, outcome, done, executorVars, laneVars, configVars,
                 stopVars>>

Accepting == ~stopping /\ Running

\* _enqueue_request: tested and put under _request_enqueue_lock.
Enqueue(r) ==
  /\ \/ r \in Patches /\ callAt[r] = "prepared"
     \/ r \in Mutations /\ callAt[r] = "idle" /\ MayCall
  /\ enqueueLock = NoCall /\ Accepting
  /\ queue' = Append(queue, r)
  /\ callAt' = [callAt EXCEPT ![r] = "waiting"]
  /\ UNCHANGED <<answer, baseVersion, seen, requestVars, executorVars, laneAt, laneReq, laneAct,
                 replaced, live, laneFailed, closeVars, configVars, stopVars>>

\* A patch that is not accepted is taken back and closed by its caller.
EnqueueRefused(r) ==
  /\ r \in Patches /\ callAt[r] = "prepared"
  /\ enqueueLock = NoCall /\ ~Accepting
  /\ cancelled' = [cancelled EXCEPT ![r] = TRUE]
  /\ CloseNow(Held(r))
  /\ prepared' = [prepared EXCEPT ![r] = FALSE]
  /\ Return(r, "error")
  /\ UNCHANGED <<baseVersion, seen, outcome, done, executorVars, laneVars, configVars, stopVars>>

\* The wait for `done` times out at any moment; what that means is decided under the
\* request's lock: a request that has its outcome is still waited for, now for ever.
Cancel(r) ==
  /\ callAt[r] = "waiting" /\ ~done[r]
  /\ \/ /\ Answered(r)
        /\ callAt' = [callAt EXCEPT ![r] = "timedOut"]
        /\ UNCHANGED <<answer, prepared, cancelled, closeVars>>
     \/ /\ ~Answered(r)
        /\ cancelled' = [cancelled EXCEPT ![r] = TRUE]
        /\ Return(r, "error")
        /\ IF r \in Patches
           THEN ScheduleClose(Held(r)) /\ prepared' = [prepared EXCEPT ![r] = FALSE]
           ELSE UNCHANGED <<prepared, closeVars>>
  /\ UNCHANGED <<baseVersion, seen, outcome, done, executorVars, laneVars, configVars, stopVars>>

Acknowledged(r) ==
  /\ callAt[r] \in {"waiting", "timedOut"} /\ done[r]
  /\ Return(r, IF outcome[r] = "result" THEN "ok" ELSE "error")
  /\ UNCHANGED <<baseVersion, seen, requestVars, executorVars, laneVars, closeVars, configVars,
                 stopVars>>

Caller(r) ==
  \/ CreateRequest(r) \/ SubmitPreparation(r) \/ TakeResult(r) \/ KeepOrDiscard(r)
  \/ PreparationRaised(r) \/ Untrack(r) \/ Abandon(r) \/ DiscardDoneFuture(r)
  \/ DeadlineBeforeQueue(r) \/ Enqueue(r) \/ EnqueueRefused(r) \/ Cancel(r)
  \/ Acknowledged(r)

----------------------------------------------------------------------------
\* The preparation executor: one worker, first come first served.

StartBuild ==
  /\ worker = NoCall /\ pool # <<>> /\ future[Head(pool)] = "queued"
  /\ worker' = Head(pool) /\ pool' = Tail(pool)
  /\ future' = [future EXCEPT ![Head(pool)] = "running"]
  /\ builtOn' = [builtOn EXCEPT ![Head(pool)] = assets]
  /\ UNCHANGED <<callerVars, requestVars, executor, armed, tracked, laneVars, closeVars,
                 version, storageEpoch, assets, committed, performed, stopVars>>

\* A future that was cancelled is passed over when its turn comes.
PassOver ==
  /\ worker = NoCall /\ pool # <<>> /\ future[Head(pool)] = "cancelled"
  /\ pool' = Tail(pool)
  /\ UNCHANGED <<callerVars, requestVars, executor, worker, future, armed, tracked, laneVars,
                 closeVars, configVars, stopVars>>

\* A failing constructor closes what it has opened so far.
FinishBuild ==
  /\ worker # NoCall /\ future[worker] = "running"
  /\ \E f \in {"built", "raised"} : future' = [future EXCEPT ![worker] = f]
  /\ worker' = IF worker \in armed THEN worker ELSE NoCall
  /\ UNCHANGED <<callerVars, requestVars, executor, pool, armed, tracked, laneVars,
                 closeVars, configVars, stopVars>>

\* _discard_preparation_result as a callback on the worker: the candidate is closed,
\* and only then is its registration removed.
CallbackDiscards ==
  /\ worker # NoCall /\ future[worker] = "built"
  /\ CloseNow({worker})
  /\ future' = [future EXCEPT ![worker] = "taken"]
  /\ UNCHANGED <<callerVars, requestVars, executor, pool, worker, armed, tracked,
                 laneVars, configVars, stopVars>>

CallbackUntracks ==
  /\ worker # NoCall /\ future[worker] \in {"taken", "raised"}
  /\ tracked' = tracked \ {worker}
  /\ worker' = NoCall
  /\ UNCHANGED <<callerVars, requestVars, executor, pool, future, armed, laneVars,
                 closeVars, configVars, stopVars>>

PrepareWorker == StartBuild \/ PassOver \/ FinishBuild \/ CallbackDiscards \/ CallbackUntracks

----------------------------------------------------------------------------
\* The frame lane.

\* The outcome of a request is set at most once; done is set afterwards.
Settle(r, o) == outcome' = [outcome EXCEPT ![r] = IF Answered(r) THEN @ ELSE o]

\* Mutant: only the configuration's version is compared.
FreshVersion(r) == baseVersion[r] = version
\* Mutant: only the storage is compared.
FreshStorage(r) == seen[r] = storageEpoch
Fresh(r) == baseVersion[r] = version /\ seen[r] = storageEpoch

\* The second look at `cancelled`, under the lock that is kept until done.set().
StillWanted(r) == ~cancelled[r]

\* A request is taken between two frames. A patch moves its candidate to the lane,
\* unless its caller has given up; a stale one is discarded and failed.
TakePatch ==
  /\ laneAt = "loop" /\ queue # <<>> /\ Head(queue) \in Patches
  /\ LET r == Head(queue) IN
     /\ queue' = Tail(queue)
     /\ prepared' = [prepared EXCEPT ![r] = FALSE]
     /\ \/ /\ cancelled[r]
           /\ done' = [done EXCEPT ![r] = TRUE]
           /\ ScheduleClose(Held(r))
           /\ UNCHANGED <<laneAt, laneReq, laneAct, outcome>>
        \/ /\ ~cancelled[r] /\ Fresh(r)
           /\ laneAt' = "trial" /\ laneReq' = r
           /\ laneAct' = IF prepared[r] THEN r ELSE NoCall
           /\ UNCHANGED <<outcome, done, closeVars>>
        \/ /\ ~cancelled[r] /\ ~Fresh(r)
           /\ ScheduleClose(Held(r))
           /\ Settle(r, "error")
           /\ laneAt' = "failing" /\ laneReq' = r
           /\ UNCHANGED <<laneAct, done>>
  /\ UNCHANGED <<callerVars, cancelled, executorVars, replaced, live, laneFailed, configVars,
                 stopVars>>

\* Staging or the trial frame raises: _PatchRequest.fail sets the error under the lock ...
TrialFails ==
  /\ laneAt = "trial"
  /\ ScheduleClose({laneAct} \ {NoCall})
  /\ laneAct' = NoCall
  /\ Settle(laneReq, "error")
  /\ laneAt' = "failing"
  /\ UNCHANGED <<callerVars, prepared, cancelled, done, executorVars, queue, laneReq, replaced,
                 live, laneFailed, configVars, stopVars>>

\* Mutant: nobody is woken.
FailUnpublished ==
  /\ laneAt = "failing"
  /\ laneAt' = "loop" /\ laneReq' = NoCall
  /\ UNCHANGED <<callerVars, requestVars, executorVars, queue, laneAct, replaced, live, laneFailed,
                 closeVars, configVars, stopVars>>

\* ... and sets done after it has let the lock go.
FailPublished ==
  /\ laneAt = "failing"
  /\ done' = [done EXCEPT ![laneReq] = TRUE]
  /\ laneAt' = "loop" /\ laneReq' = NoCall
  /\ UNCHANGED <<callerVars, prepared, cancelled, outcome, executorVars, queue, laneAct,
                 replaced, live, laneFailed, closeVars, configVars, stopVars>>

\* The request's lock is held from the test of `cancelled` to done.set().
CommitCancelled ==
  /\ laneAt = "trial" /\ ~StillWanted(laneReq)
  /\ ScheduleClose({laneAct} \ {NoCall})
  /\ done' = [done EXCEPT ![laneReq] = TRUE]
  /\ laneAt' = "loop" /\ laneReq' = NoCall /\ laneAct' = NoCall
  /\ UNCHANGED <<callerVars, prepared, cancelled, outcome, executorVars, queue, replaced, live,
                 laneFailed, configVars, stopVars>>

\* commit_with_activation installs the candidate; its activation is marked promoted.
Commit ==
  /\ laneAt = "trial" /\ StillWanted(laneReq) /\ laneAct # NoCall
  /\ live' = laneAct /\ replaced' = live /\ laneAct' = NoCall
  /\ version' = version + 1
  /\ committed' = committed \cup {laneReq}
  /\ Settle(laneReq, "result")
  /\ done' = [done EXCEPT ![laneReq] = TRUE]
  /\ laneAt' = "replace" /\ laneReq' = NoCall
  /\ UNCHANGED <<callerVars, prepared, cancelled, executorVars, queue, laneFailed, closeVars,
                 storageEpoch, assets, builtOn, performed, stopVars>>

\* Fence, promotion or installation raises and is rolled back.
ActivationFails ==
  /\ laneAt = "trial" /\ StillWanted(laneReq)
  /\ ScheduleClose({laneAct} \ {NoCall})
  /\ Settle(laneReq, "error")
  /\ done' = [done EXCEPT ![laneReq] = TRUE]
  /\ laneAt' = "loop" /\ laneReq' = NoCall /\ laneAct' = NoCall
  /\ UNCHANGED <<callerVars, prepared, cancelled, executorVars, queue, replaced, live, laneFailed,
                 configVars, stopVars>>

\* The fence of the rollback times out too, inside the handler: the lane dies with the
\* candidate in a local variable and the request unanswered.
RollbackRaises ==
  /\ laneAt = "trial" /\ StillWanted(laneReq)
  /\ dropped' = dropped \cup ({laneAct} \ {NoCall})
  /\ laneAt' = "ending" /\ laneReq' = NoCall /\ laneAct' = NoCall /\ laneFailed' = TRUE
  /\ UNCHANGED <<callerVars, requestVars, executorVars, queue, replaced, live, teardown,
                 deferred, closes, configVars, stopVars>>

\* The replaced provider is closed after the acknowledgement.
CloseReplaced ==
  /\ laneAt = "replace"
  /\ ScheduleClose({replaced} \ {NoCall})
  /\ replaced' = NoCall /\ laneAt' = "loop"
  /\ UNCHANGED <<callerVars, requestVars, executorVars, queue, laneReq, laneAct, live,
                 laneFailed, configVars, stopVars>>

\* A mutation runs under its request's lock, from the test of `cancelled` to done.set().
\* One that raises has deleted nothing a candidate may name: remove() unlinks as its last
\* call, and a discard deletes the files of a failed upload only.
Mutate ==
  /\ laneAt = "loop" /\ queue # <<>> /\ Head(queue) \in Mutations
  /\ LET r == Head(queue) IN
     /\ queue' = Tail(queue)
     /\ done' = [done EXCEPT ![r] = TRUE]
     /\ \/ cancelled[r] /\ UNCHANGED <<outcome, assets, storageEpoch, performed>>
        \/ /\ ~cancelled[r]
           /\ Settle(r, "result")
           /\ assets' = assets + 1 /\ storageEpoch' = storageEpoch + 1
           /\ performed' = performed \cup {r}
        \/ /\ ~cancelled[r]        \* the callback raises
           /\ Settle(r, "error")
           /\ UNCHANGED <<assets, storageEpoch, performed>>
  /\ UNCHANGED <<callerVars, prepared, cancelled, executorVars, laneAt, laneReq, laneAct,
                 replaced, live, laneFailed, closeVars, version, builtOn, committed, stopVars>>

\* The loop ends because of stop() or of a frame that raises.
LeaveLoop ==
  /\ laneAt = "loop"
  /\ \/ stopping /\ laneFailed' = laneFailed
     \/ laneFailed' = TRUE
  /\ laneAt' = "ending"
  /\ UNCHANGED <<callerVars, requestVars, executorVars, queue, laneReq, laneAct, replaced, live,
                 closeVars, configVars, stopVars>>

\* The finally clause of _run: no more requests, those queued are failed, resources are
\* closed, then the teardowns that found no thread.
LaneStops ==
  /\ laneAt = "ending" /\ enqueueLock = NoCall
  /\ stopping' = TRUE /\ enqueueLock' = "lane" /\ laneAt' = "draining"
  /\ UNCHANGED <<callerVars, requestVars, executorVars, queue, laneReq, laneAct, replaced, live,
                 laneFailed, closeVars, configVars, publisherUp, stopper, starts, stops>>

\* One turn of _fail_pending, by stop() or by the lane: a patch's candidate is taken
\* and closed even if its caller has given up.
FailHead ==
  /\ queue # <<>>
  /\ LET r == Head(queue) IN
     /\ queue' = Tail(queue)
     /\ Settle(r, "error")
     /\ done' = [done EXCEPT ![r] = TRUE]
     /\ IF r \in Patches
        THEN ScheduleClose(Held(r)) /\ prepared' = [prepared EXCEPT ![r] = FALSE]
        ELSE UNCHANGED <<closeVars, prepared>>
  /\ UNCHANGED <<callerVars, cancelled, executorVars, laneAt, laneReq, laneAct, replaced, live,
                 laneFailed, configVars, stopVars>>

LaneFailsPending == laneAt = "draining" /\ FailHead

LaneDrained ==
  /\ laneAt = "draining" /\ queue = <<>>
  /\ enqueueLock' = NoCall /\ laneAt' = "closing"
  /\ UNCHANGED <<callerVars, requestVars, executorVars, queue, laneReq, laneAct, replaced, live,
                 laneFailed, closeVars, configVars, stopping, publisherUp, stopper, starts,
                 stops>>

LaneCloses ==
  /\ laneAt = "closing"
  /\ publisherUp' = FALSE
  /\ closes' = [r \in Patches |-> IF r = live \/ r \in deferred THEN closes[r] + 1
                                  ELSE closes[r]]
  /\ deferred' = {}
  /\ live' = NoCall /\ laneAt' = "off"
  /\ UNCHANGED <<callerVars, requestVars, executorVars, queue, laneReq, laneAct, replaced,
                 laneFailed, teardown, dropped, configVars, stopping, enqueueLock, stopper,
                 starts, stops>>

\* The publisher fails on its own thread; the lane finds out later.
PublisherFails ==
  /\ publisherUp /\ laneAt # "off"
  /\ publisherUp' = FALSE
  /\ UNCHANGED <<callerVars, requestVars, executorVars, laneVars, closeVars, configVars,
                 stopping, enqueueLock, stopper, starts, stops>>

\* The fence of a renderer's notification fails on the thread that notifies: the run has
\* failed and is told to stop, wherever the lane is.
NotificationFails ==
  /\ publisherUp /\ laneAt # "off"
  /\ laneFailed' = TRUE /\ stopping' = TRUE
  /\ UNCHANGED <<callerVars, requestVars, executorVars, queue, laneAt, laneReq, laneAct,
                 replaced, live, closeVars, configVars, publisherUp, enqueueLock, stopper,
                 starts, stops>>

Lane ==
  \/ TakePatch \/ TrialFails \/ FailPublished \/ CommitCancelled \/ Commit
  \/ ActivationFails \/ RollbackRaises \/ CloseReplaced \/ Mutate \/ LeaveLoop
  \/ LaneStops \/ LaneFailsPending \/ LaneDrained \/ LaneCloses

CloseResource(r) ==
  /\ r \in teardown
  /\ teardown' = teardown \ {r}
  /\ closes' = [closes EXCEPT ![r] = @ + 1]
  /\ UNCHANGED <<callerVars, requestVars, executorVars, laneVars, deferred, dropped,
                 configVars, stopVars>>

----------------------------------------------------------------------------
\* start() and stop().

Start ==
  /\ laneAt = "off" /\ executor = "none" /\ stopper \in {"idle", "stopped", "late"}
  /\ starts < MaxStarts
  /\ starts' = starts + 1
  /\ stopping' = FALSE /\ laneFailed' = FALSE /\ publisherUp' = TRUE
  /\ executor' = "open" /\ laneAt' = "loop" /\ stopper' = "idle"
  /\ UNCHANGED <<callerVars, requestVars, pool, worker, future, armed, tracked, queue,
                 laneReq, laneAct, replaced, live, closeVars, configVars, enqueueLock, stops>>

RequestStop ==
  /\ stopper \in {"idle", "late"} /\ starts > 0 /\ stops < MaxStops
  /\ stops' = stops + 1
  /\ stopping' = TRUE /\ publisherUp' = FALSE /\ stopper' = "requested"
  /\ UNCHANGED <<callerVars, requestVars, executorVars, laneVars, closeVars, configVars,
                 enqueueLock, starts>>

StopTakesLock ==
  /\ stopper = "requested" /\ enqueueLock = NoCall
  /\ enqueueLock' = "stop" /\ stopper' = "draining"
  /\ UNCHANGED <<callerVars, requestVars, executorVars, laneVars, closeVars, configVars,
                 stopping, publisherUp, starts, stops>>

StopFailsPending == stopper = "draining" /\ FailHead

StopDrained ==
  /\ stopper = "draining" /\ queue = <<>>
  /\ enqueueLock' = NoCall /\ stopper' = "joining"
  /\ UNCHANGED <<callerVars, requestVars, executorVars, laneVars, closeVars, configVars,
                 stopping, publisherUp, starts, stops>>

\* Joins of the worker and of the teardown threads: each gives up at the deadline, and
\* stop() goes on to the executor either way, and raises in the end ("late").
StopJoins ==
  /\ stopper = "joining"
  /\ stopper' = IF laneAt = "off" /\ teardown = {} THEN "preparation" ELSE "survivors"
  /\ UNCHANGED <<callerVars, requestVars, executorVars, laneVars, closeVars, configVars,
                 stopping, publisherUp, enqueueLock, starts, stops>>

\* executor.shutdown(wait=False, cancel_futures=True).
ShutDownExecutor ==
  /\ stopper \in {"preparation", "survivors"}
  /\ \/ /\ executor = "none"
        /\ UNCHANGED <<executor, pool, future>>
     \/ /\ executor # "none"
        /\ executor' = "shut" /\ pool' = <<>>
        /\ future' = [r \in Patches |-> IF future[r] = "queued" THEN "cancelled"
                                        ELSE future[r]]
  /\ stopper' = IF stopper = "survivors" THEN "executorLate" ELSE "executor"
  /\ UNCHANGED <<callerVars, requestVars, worker, armed, tracked, laneVars, closeVars,
                 configVars, stopping, publisherUp, enqueueLock, starts, stops>>

\* Mutant: only the executor's worker is waited for.
StopReturnsEarly ==
  /\ stopper \in {"executor", "executorLate"} /\ worker = NoCall
  /\ executor' = "none"
  /\ stopper' = IF stopper = "executor" /\ ~laneFailed THEN "stopped" ELSE "late"
  /\ UNCHANGED <<callerVars, requestVars, pool, worker, future, armed, tracked, laneVars,
                 closeVars, configVars, stopping, publisherUp, enqueueLock, starts, stops>>

\* Every registered future has been let go: the executor's worker can be joined.
StopReturns ==
  /\ stopper \in {"executor", "executorLate"} /\ tracked = {} /\ worker = NoCall
  /\ executor' = "none"
  /\ stopper' = IF stopper = "executor" /\ ~laneFailed THEN "stopped" ELSE "late"
  /\ UNCHANGED <<callerVars, requestVars, pool, worker, future, armed, tracked, laneVars,
                 closeVars, configVars, stopping, publisherUp, enqueueLock, starts, stops>>

\* The deadline passes while futures are still registered.
StopTimesOut ==
  /\ stopper \in {"executor", "executorLate"} /\ tracked # {}
  /\ stopper' = "late"
  /\ UNCHANGED <<callerVars, requestVars, executorVars, laneVars, closeVars, configVars,
                 stopping, publisherUp, enqueueLock, starts, stops>>

Stopper == RequestStop \/ StopTakesLock \/ StopFailsPending \/ StopDrained \/ StopJoins
           \/ ShutDownExecutor \/ StopReturns \/ StopTimesOut

NextPatches == \/ \E r \in Calls : Caller(r)
        \/ PrepareWorker \/ Lane \/ Stopper \/ Start
        \/ PublisherFails \/ NotificationFails
        \/ \E r \in Patches : CloseResource(r)

SpecPatches == InitPatches /\ [][NextPatches]_patchVars

\* A caller, the lane and a stop that is failing requests go on once they can (calls are
\* finitely many, so one condition does for all of them). The executor's worker is not
\* fair: a constructor may never return, and no answer may depend on it.
PatchFairness ==
  /\ WF_patchVars(\E r \in Calls : Caller(r))
  /\ WF_patchVars(Lane) /\ WF_patchVars(StopFailsPending \/ StopDrained)

FairPatches == SpecPatches /\ PatchFairness

----------------------------------------------------------------------------
\* The places from which a candidate will be closed or used.
Holders(r) ==
  { h \in {"future", "caller", "request", "lane", "live", "replaced", "teardown",
           "deferred", "dropped"} :
      \/ h = "future"   /\ future[r] = "built"
      \/ h = "caller"   /\ callAt[r] = "took"
      \/ h = "request"  /\ prepared[r]
      \/ h = "lane"     /\ laneAct = r
      \/ h = "live"     /\ live = r
      \/ h = "replaced" /\ replaced = r
      \/ h = "teardown" /\ r \in teardown
      \/ h = "deferred" /\ r \in deferred
      \/ h = "dropped"  /\ r \in dropped }

\* A candidate that was built has one owner, or was closed once and has none: no
\* interleaving of time-outs, trials and stops closes it twice, closes it under its new
\* owner, or forgets it. The one exception is a rollback that raises, and it ends the run.
CandidateCustody ==
  /\ \A r \in Patches :
       IF future[r] \in {"built", "taken"}
       THEN Cardinality(Holders(r)) + closes[r] = 1
       ELSE Holders(r) = {} /\ closes[r] = 0
  /\ dropped # {} => laneAt \in {"ending", "draining", "closing", "off"} \/ starts > 1

\* What a caller is told is what happens: a call that returned a configuration was
\* carried out, and a call that raised, for whatever reason, is not and will not be.
AnswerTruthful ==
  \A r \in Calls :
    callAt[r] = "returned" => (answer[r] = "ok" <=> r \in committed \cup performed)

\* A call as its caller and the configuration see it.
CallState(r) ==
  IF callAt[r] = "returned" THEN answer[r]
  ELSE IF outcome[r] = "result" THEN "done"
  ELSE IF callAt[r] = "idle" THEN "idle" ELSE "open"

Atomic == INSTANCE AtomicConfig WITH
  epoch <- storageEpoch,
  based <- [r \in Patches |-> <<baseVersion[r], seen[r]>>],
  call <- [r \in Calls |-> CallState(r)]

\* Every accepted call is carried out at one moment between its call and its return, a
\* patch on nothing but the configuration it was computed from, whatever times out, fails
\* or stops in the lane, the executor or the callers: no update is lost, none comes late.
ImplementsAtomic == Atomic!Spec

\* No candidate goes live that was built before the last deletion of an asset
\* (apply_storage_mutation's docstring: preflighted before, or failing to open it).
CommitsCurrentAssets ==
  [][\A r \in committed' \ committed : builtOn[r] = assets]_patchVars

\* stop() that returned has ended the lane and every preparation; a candidate still open
\* is about to be refused to its caller, or is being closed.
StopLeavesNothing ==
  stopper = "stopped" =>
    /\ laneAt = "off" /\ queue = <<>> /\ tracked = {} /\ worker = NoCall
    /\ \A r \in Patches : /\ Holders(r) \subseteq {"request", "teardown", "deferred", "dropped"}
                          /\ prepared[r] => callAt[r] = "prepared"

\* Every call returns, also the one that waits without a time-out because its outcome
\* was decided before it gave up.
EveryCallReturns == <>[](\A r \in Calls : callAt[r] \in {"idle", "returned"})
=============================================================================
