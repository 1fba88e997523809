----------------------------- MODULE StreamProofs ---------------------------
(***************************************************************************)
(* Proofs about the helpers of the API server that have threads of their   *)
(* own, for any number of viewers, frames, shutdowns and discards: how a   *)
(* stream ends (StreamShutdown), how a frame reaches it (StreamDelivery),  *)
(* and how failed discards are tried again (CleanupQueue).                 *)
(***************************************************************************)
EXTENDS StreamShutdown, StreamDelivery, CleanupQueue, FiniteSetTheorems, TLAPS

-----------------------------------------------------------------------------
(* Shutdown.  ShutdownReachesAll holds because a shutdown that has looked   *)
(* at the registry has seen all that will ever be in it (SeenAll): whoever  *)
(* wants to register after it is refused (RefusesWhileClosing).             *)

LifecycleShape ==
  /\ IsFiniteSet(entries) /\ entries \subseteq Streams
  /\ shutdownAt = [x \in Shutdowns |-> shutdownAt[x]]
  /\ targets = [x \in Shutdowns |-> targets[x]]
  /\ reported \in [Shutdowns -> Nat]
  /\ streamAt = [s \in Streams |-> streamAt[s]]

RefusesWhileClosing == \A x \in Shutdowns : shutdownAt[x] # "idle" => refusing

SeenAll ==
  \A x \in Shutdowns :
    /\ shutdownAt[x] \in {"closing", "joining", "returned"} => entries \subseteq targets[x]
    /\ shutdownAt[x] \in {"joining", "returned"} =>
         \A s \in entries : streamAt[s] = "live" => s \in interrupted

LifecycleInv == LifecycleShape /\ RefusesWhileClosing /\ SeenAll /\ ShutdownReachesAll

LEMMA InitLifecycleInv == InitLifecycle => LifecycleInv
  BY FS_EmptySet DEF InitLifecycle, LifecycleInv, LifecycleShape, RefusesWhileClosing, SeenAll,
                     ShutdownReachesAll

LEMMA RegisterKeeps == \A s \in Streams : LifecycleInv /\ Register(s) => LifecycleInv'
  <1> SUFFICES ASSUME NEW s \in Streams, LifecycleInv, Register(s) PROVE LifecycleInv'
    OBVIOUS
  <1>1. CASE refusing
    <2>1. UNCHANGED <<refusing, entries, interrupted, shutdownVars>>
          /\ streamAt' = [streamAt EXCEPT ![s] = "gone"]
      BY <1>1 DEF Register, StreamGoes
    <2> QED
      BY <2>1 DEF shutdownVars, LifecycleInv, LifecycleShape, RefusesWhileClosing, SeenAll,
                  ShutdownReachesAll
  <1>2. CASE ~refusing
    <2>1. entries' = entries \cup {s} /\ UNCHANGED <<refusing, interrupted, shutdownVars>>
          /\ streamAt' = [streamAt EXCEPT ![s] = "live"]
      BY <1>2 DEF Register, StreamGoes
    <2>2. IsFiniteSet(entries')
      BY <2>1, FS_AddElement DEF LifecycleInv, LifecycleShape
    <2>3. \A x \in Shutdowns : shutdownAt[x] = "idle"
      BY <1>2 DEF LifecycleInv, RefusesWhileClosing
    <2> QED
      BY <2>1, <2>2, <2>3 DEF shutdownVars, LifecycleInv, LifecycleShape, RefusesWhileClosing,
                              SeenAll, ShutdownReachesAll
  <1> QED
    BY <1>1, <1>2

\* While a shutdown is on, the registry only loses entries.
LEMMA ReleaseEntryKeeps == \A s \in Streams : LifecycleInv /\ ReleaseEntry(s) => LifecycleInv'
  <1> SUFFICES ASSUME NEW s \in Streams, LifecycleInv, ReleaseEntry(s) PROVE LifecycleInv'
    OBVIOUS
  <1>1. entries' = entries \ {s} /\ UNCHANGED <<refusing, interrupted, shutdownVars>>
    BY DEF ReleaseEntry
  <1>2. streamAt' = [t \in Streams |-> streamAt'[t]]
    BY DEF ReleaseEntry, StreamGoes, LifecycleInv, LifecycleShape
  <1>3. \A t \in Streams : streamAt'[t] = "live" => streamAt[t] = "live"
    BY DEF ReleaseEntry, StreamGoes, LifecycleInv, LifecycleShape
  <1>4. IsFiniteSet(entries') /\ Cardinality(entries') <= Cardinality(entries)
    <2>1. IsFiniteSet(entries)
      BY DEF LifecycleInv, LifecycleShape
    <2>2. entries' \in SUBSET entries
      BY <1>1
    <2> QED
      BY <2>1, <2>2, FS_Subset
  <1>5. \A x \in Shutdowns : shutdownAt[x] = "returned" => Cardinality(entries') <= reported[x]
    <2>1. Cardinality(entries) \in Nat /\ Cardinality(entries') \in Nat
      BY <1>4, FS_CardinalityType DEF LifecycleInv, LifecycleShape
    <2> QED
      BY <1>4, <2>1 DEF LifecycleInv, LifecycleShape, ShutdownReachesAll
  <1>6. LifecycleShape' /\ RefusesWhileClosing'
    BY <1>1, <1>2, <1>4 DEF shutdownVars, LifecycleInv, LifecycleShape, RefusesWhileClosing
  <1>7. SeenAll' /\ ShutdownReachesAll'
    BY <1>1, <1>3, <1>5 DEF shutdownVars, LifecycleInv, LifecycleShape, SeenAll,
                            ShutdownReachesAll
  <1> QED
    BY <1>6, <1>7 DEF LifecycleInv

LEMMA StreamStepKeeps ==
  \A s \in Streams : LifecycleInv /\ (SetClose(s) \/ TaskEnds(s)) => LifecycleInv'
  <1> SUFFICES ASSUME NEW s \in Streams, LifecycleInv, SetClose(s) \/ TaskEnds(s)
               PROVE  LifecycleInv'
    OBVIOUS
  <1>1. UNCHANGED <<refusing, entries, interrupted, shutdownVars>>
    BY DEF SetClose, TaskEnds, registryVars
  <1>2. /\ streamAt' = [t \in Streams |-> streamAt'[t]]
        /\ \A t \in Streams : streamAt'[t] = "live" => streamAt[t] = "live"
    BY DEF SetClose, TaskEnds, StreamGoes, LifecycleInv, LifecycleShape
  <1> QED
    BY <1>1, <1>2 DEF shutdownVars, LifecycleInv, LifecycleShape, RefusesWhileClosing, SeenAll,
                      ShutdownReachesAll

LEMMA RequestShutdownKeeps == \A x \in Shutdowns : LifecycleInv /\ RequestShutdown(x) => LifecycleInv'
  BY DEF RequestShutdown, ShutdownGoes, LifecycleInv, LifecycleShape, RefusesWhileClosing, SeenAll,
         ShutdownReachesAll

LEMMA BeginShutdownKeeps == \A x \in Shutdowns : LifecycleInv /\ BeginShutdown(x) => LifecycleInv'
  BY DEF BeginShutdown, ShutdownGoes, LifecycleInv, LifecycleShape, RefusesWhileClosing, SeenAll,
         ShutdownReachesAll

\* The snapshot covers the registry, so that cancelling its tasks reaches all.
LEMMA CancelTasksKeeps == \A x \in Shutdowns : LifecycleInv /\ CancelTasks(x) => LifecycleInv'
  <1> SUFFICES ASSUME NEW x \in Shutdowns, LifecycleInv, CancelTasks(x) PROVE LifecycleInv'
    OBVIOUS
  <1>1. UNCHANGED <<refusing, entries, streamAt, targets, reported>>
        /\ shutdownAt' = [shutdownAt EXCEPT ![x] = "joining"] /\ shutdownAt[x] = "closing"
    BY DEF CancelTasks, ShutdownGoes, registryVars
  <1>2. \A s \in entries : streamAt[s] = "live" => s \in interrupted'
    BY <1>1 DEF CancelTasks, LifecycleInv, SeenAll
  <1> QED
    BY <1>1, <1>2 DEF LifecycleInv, LifecycleShape, RefusesWhileClosing, SeenAll,
                      ShutdownReachesAll

LEMMA FinishShutdownKeeps == \A x \in Shutdowns : LifecycleInv /\ FinishShutdown(x) => LifecycleInv'
  <1> SUFFICES ASSUME NEW x \in Shutdowns, LifecycleInv, FinishShutdown(x) PROVE LifecycleInv'
    OBVIOUS
  <1>1. UNCHANGED <<refusing, entries, streamAt, interrupted, targets>>
        /\ shutdownAt' = [shutdownAt EXCEPT ![x] = "returned"] /\ shutdownAt[x] = "joining"
        /\ reported' = [reported EXCEPT ![x] = Cardinality(entries)]
    BY DEF FinishShutdown, ShutdownGoes, registryVars
  <1>2. Cardinality(entries) \in Nat
    BY FS_CardinalityType DEF LifecycleInv, LifecycleShape
  <1>3. LifecycleShape'
    BY <1>1, <1>2 DEF LifecycleInv, LifecycleShape
  <1>4. /\ shutdownAt'[x] = "returned"
        /\ \A y \in Shutdowns : y # x => shutdownAt'[y] = shutdownAt[y]
        /\ reported'[x] = Cardinality(entries)
        /\ \A y \in Shutdowns : y # x => reported'[y] = reported[y]
    BY <1>1 DEF LifecycleInv, LifecycleShape
  <1>5. RefusesWhileClosing'
    BY <1>1, <1>4 DEF LifecycleInv, RefusesWhileClosing
  <1>6. SeenAll'
    BY <1>1, <1>4 DEF LifecycleInv, SeenAll
  <1>7. ShutdownReachesAll'
    <2> SUFFICES ASSUME NEW y \in Shutdowns, shutdownAt'[y] = "returned"
                 PROVE  /\ \A s \in entries : streamAt[s] = "live" => s \in interrupted
                        /\ Cardinality(entries) <= reported'[y]
      BY <1>1 DEF ShutdownReachesAll
    <2>1. CASE y = x
      BY <1>1, <1>2, <1>4, <2>1 DEF LifecycleInv, SeenAll
    <2>2. CASE y # x
      BY <1>4, <2>2 DEF LifecycleInv, ShutdownReachesAll
    <2> QED
      BY <2>1, <2>2
  <1> QED
    BY <1>3, <1>5, <1>6, <1>7 DEF LifecycleInv

\* No stream outlives a shutdown unasked (StreamLifecycleRegistry.shutdown
\* against register), for any number of streams and of shutdowns at once.
THEOREM ShutdownMissesNone == SpecLifecycle => []ShutdownReachesAll
  <1>1. LifecycleInv /\ [NextLifecycle]_lifecycleVars => LifecycleInv'
    <2> SUFFICES ASSUME LifecycleInv, [NextLifecycle]_lifecycleVars PROVE LifecycleInv'
      OBVIOUS
    <2>1. CASE UNCHANGED lifecycleVars
      BY <2>1 DEF lifecycleVars, registryVars, shutdownVars, LifecycleInv, LifecycleShape,
                  RefusesWhileClosing, SeenAll, ShutdownReachesAll
    <2>2. CASE NextLifecycle
      BY <2>2, RegisterKeeps, ReleaseEntryKeeps, StreamStepKeeps, RequestShutdownKeeps,
         BeginShutdownKeeps, CancelTasksKeeps, FinishShutdownKeeps DEF NextLifecycle
    <2> QED
      BY <2>1, <2>2
  <1>2. LifecycleInv => ShutdownReachesAll
    BY DEF LifecycleInv
  <1> QED
    BY InitLifecycleInv, <1>1, <1>2, PTL DEF SpecLifecycle

-----------------------------------------------------------------------------
(* Delivery.  OwedOneAnswer needs the converse too: whoever is among the    *)
(* waiters of a delivery awaits it and no other (OnePlace); and that a job  *)
(* has one thread to register its callback, the client that started it or   *)
(* the callback that handed over to it (OneRegistrar).                      *)

DeliveryShape ==
  /\ slotSeq \in Nat /\ registered \in BOOLEAN
  /\ clientAt = [c \in Clients |-> clientAt[c]]
  /\ lastSeq \in [Clients -> Nat] /\ asked \in [Clients -> Nat]
  /\ latest \in [seq : Nat, ok : BOOLEAN]
  /\ running \in [seq : Nat, waiters : SUBSET Clients, job : {"none", "encoding", "ok", "failed"}]
  /\ pending \in [seq : Nat, waiters : SUBSET Clients]
  /\ completing \subseteq [seq : Nat, waiters : SUBSET Clients, ok : BOOLEAN, next : BOOLEAN]

OnePlace ==
  \A c \in Clients :
    /\ c \in running.waiters => /\ clientAt[c] \in {"await", "register"}
                                /\ c \notin pending.waiters
                                /\ \A d \in completing : c \notin d.waiters
    /\ c \in pending.waiters => /\ clientAt[c] = "await"
                                /\ \A d \in completing : c \notin d.waiters
    /\ \A d \in completing : c \in d.waiters =>
         /\ clientAt[c] = "await"
         /\ \A e \in completing : c \in e.waiters => e = d
    /\ clientAt[c] = "await" => \/ c \in running.waiters \/ c \in pending.waiters
                                \/ \E d \in completing : c \in d.waiters
    /\ clientAt[c] = "register" => c \in running.waiters

OneRegistrar ==
  /\ running.job = "none" => running = NoJob
  /\ pending.seq = 0 => pending.waiters = {}
  /\ \A b, c \in Clients : clientAt[b] \in {"encode", "register"}
                             /\ clientAt[c] \in {"encode", "register"} => b = c
  /\ \A c \in Clients : clientAt[c] = "register" => ~registered /\ \A d \in completing : ~d.next
  /\ \A d \in completing : d.next =>
       ~registered /\ running.job # "none" /\ \A e \in completing : e.next => e = d

\* Nothing is older than what a client of it asked for, nor newer than the slot.
FreshEnough ==
  /\ latest.seq <= slotSeq /\ running.seq <= slotSeq /\ pending.seq <= slotSeq
  /\ \A d \in completing : d.seq <= slotSeq
  /\ \A c \in Clients :
       /\ lastSeq[c] <= slotSeq /\ asked[c] <= slotSeq
       /\ clientAt[c] \in {"encode", "register", "await"} => lastSeq[c] < asked[c]
       /\ c \in running.waiters => asked[c] <= running.seq
       /\ c \in pending.waiters => asked[c] <= pending.seq
       /\ \A d \in completing : c \in d.waiters => asked[c] <= d.seq

DeliveryInv == DeliveryShape /\ OnePlace /\ OneRegistrar /\ FreshEnough

LEMMA InitDeliveryInv == InitStream => DeliveryInv
  <1> SUFFICES ASSUME InitStream PROVE DeliveryInv
    OBVIOUS
  <1>1. DeliveryShape
    BY DEF InitStream, NoJob, NothingPending, DeliveryShape
  <1>2. OnePlace /\ OneRegistrar
    BY DEF InitStream, NoJob, NothingPending, OnePlace, OneRegistrar
  <1>3. FreshEnough
    BY DEF InitStream, NoJob, NothingPending, FreshEnough
  <1> QED
    BY <1>1, <1>2, <1>3 DEF DeliveryInv

LEMMA ChangeSlotKeeps == \A full \in BOOLEAN : DeliveryInv /\ ChangeSlot(full) => DeliveryInv'
  <1> SUFFICES ASSUME NEW full \in BOOLEAN, DeliveryInv, ChangeSlot(full) PROVE DeliveryInv'
    OBVIOUS
  <1> USE DEF DeliveryInv
  <1>1. DeliveryShape'
    BY DEF ChangeSlot, Subscribed, clientVars, jobVars, DeliveryShape
  <1>2. OnePlace'
    BY DEF ChangeSlot, Subscribed, clientVars, jobVars, DeliveryShape, OnePlace
  <1>3. OneRegistrar'
    BY DEF ChangeSlot, Subscribed, clientVars, jobVars, DeliveryShape, OneRegistrar,
       OnePlace
  <1>4. FreshEnough'
    BY DEF ChangeSlot, Subscribed, clientVars, jobVars, DeliveryShape, OnePlace,
       OneRegistrar, FreshEnough
  <1> QED
    BY <1>1, <1>2, <1>3, <1>4

LEMMA NotifyKeeps == \A c \in Clients : DeliveryInv /\ Notify(c) => DeliveryInv'
  <1> SUFFICES ASSUME NEW c \in Clients, DeliveryInv, Notify(c) PROVE DeliveryInv'
    OBVIOUS
  <1> USE DEF DeliveryInv
  <1>1. DeliveryShape'
    BY DEF Notify, jobVars, DeliveryShape
  <1>2. OnePlace'
    BY DEF Notify, jobVars, DeliveryShape, OnePlace
  <1>3. OneRegistrar'
    BY DEF Notify, jobVars, DeliveryShape, OneRegistrar, OnePlace
  <1>4. FreshEnough'
    BY DEF Notify, jobVars, DeliveryShape, OnePlace, OneRegistrar, FreshEnough
  <1> QED
    BY <1>1, <1>2, <1>3, <1>4

LEMMA SubscribeKeeps == \A c \in Clients : DeliveryInv /\ Subscribe(c) => DeliveryInv'
  <1> SUFFICES ASSUME NEW c \in Clients, DeliveryInv, Subscribe(c) PROVE DeliveryInv'
    OBVIOUS
  <1> USE DEF DeliveryInv
  <1>1. DeliveryShape'
    BY DEF Subscribe, ClientGoes, slotVars, jobVars, DeliveryShape
  <1>2. OnePlace'
    BY DEF Subscribe, ClientGoes, slotVars, jobVars, DeliveryShape, OnePlace
  <1>3. OneRegistrar'
    BY DEF Subscribe, ClientGoes, slotVars, jobVars, DeliveryShape, OneRegistrar, OnePlace
  <1>4. FreshEnough'
    BY DEF Subscribe, ClientGoes, slotVars, jobVars, DeliveryShape, OnePlace, OneRegistrar,
       FreshEnough
  <1> QED
    BY <1>1, <1>2, <1>3, <1>4

\* Only a client that finds a newer frame goes on to encode, and the loop runs
\* no other meanwhile.
LEMMA CheckSlotKeeps == \A c \in Clients : DeliveryInv /\ CheckSlot(c) => DeliveryInv'
  <1> SUFFICES ASSUME NEW c \in Clients, DeliveryInv, CheckSlot(c) PROVE DeliveryInv'
    OBVIOUS
  <1> USE DEF DeliveryInv
  <1>1. DeliveryShape'
    BY DEF CheckSlot, Newer, LoopFree, ClientGoes, slotVars, jobVars, DeliveryShape
  <1>2. OnePlace'
    BY DEF CheckSlot, Newer, LoopFree, ClientGoes, slotVars, jobVars, DeliveryShape,
       OnePlace
  <1>3. OneRegistrar'
    BY DEF CheckSlot, Newer, LoopFree, ClientGoes, slotVars, jobVars, DeliveryShape,
       OneRegistrar, OnePlace
  <1>4. FreshEnough'
    BY DEF CheckSlot, Newer, LoopFree, ClientGoes, slotVars, jobVars, DeliveryShape,
       OnePlace, OneRegistrar, FreshEnough
  <1> QED
    BY <1>1, <1>2, <1>3, <1>4

LEMMA WakeKeeps == \A c \in Clients : DeliveryInv /\ Wake(c) => DeliveryInv'
  <1> SUFFICES ASSUME NEW c \in Clients, DeliveryInv, Wake(c) PROVE DeliveryInv'
    OBVIOUS
  <1> USE DEF DeliveryInv
  <1>1. DeliveryShape'
    BY DEF Wake, ClientGoes, slotVars, jobVars, DeliveryShape
  <1>2. OnePlace'
    BY DEF Wake, ClientGoes, slotVars, jobVars, DeliveryShape, OnePlace
  <1>3. OneRegistrar'
    BY DEF Wake, ClientGoes, slotVars, jobVars, DeliveryShape, OneRegistrar, OnePlace
  <1>4. FreshEnough'
    BY DEF Wake, ClientGoes, slotVars, jobVars, DeliveryShape, OnePlace, OneRegistrar,
       FreshEnough
  <1> QED
    BY <1>1, <1>2, <1>3, <1>4

\* Every delivery loses the client that leaves, and is otherwise what it was.
LEMMA DisconnectKeeps == \A c \in Clients : DeliveryInv /\ Disconnect(c) => DeliveryInv'
  <1> SUFFICES ASSUME NEW c \in Clients, DeliveryInv, Disconnect(c) PROVE DeliveryInv'
    OBVIOUS
  <1> USE DEF DeliveryInv
  <1>1. /\ clientAt[c] \in {"check", "wait", "await"}
        /\ clientAt' = [b \in Clients |-> IF b = c THEN "absent" ELSE clientAt[b]]
        /\ lastSeq' = [b \in Clients |-> IF b = c THEN 0 ELSE lastSeq[b]]
        /\ asked' = [b \in Clients |-> IF b = c THEN 0 ELSE asked[b]]
        /\ UNCHANGED <<slotSeq, slotFull, latest, registered>>
    BY DEF Disconnect, Leaves
  <1>2. /\ running'.seq = running.seq /\ running'.waiters = running.waiters \ {c}
        /\ running'.job = running.job
        /\ pending'.seq = pending.seq /\ pending'.waiters = pending.waiters \ {c}
    BY DEF Disconnect, Without, DeliveryShape
  <1>3. \A d \in completing : Without(d, {c}) \in completing'
    BY DEF Disconnect
  <1>4. \A d \in completing' : \E e \in completing : d = Without(e, {c})
    BY DEF Disconnect
  <1>5. \A e \in completing : /\ Without(e, {c}).seq = e.seq /\ Without(e, {c}).next = e.next
                              /\ Without(e, {c}).waiters = e.waiters \ {c}
    BY DEF Without, DeliveryShape
  <1>6. DeliveryShape'
    BY DEF Disconnect, Leaves, Without, DeliveryShape
  <1>7. OnePlace'
    <2> SUFFICES ASSUME NEW b \in Clients
                 PROVE  /\ b \in running'.waiters =>
                             /\ clientAt'[b] \in {"await", "register"}
                             /\ b \notin pending'.waiters
                             /\ \A d \in completing' : b \notin d.waiters
                        /\ b \in pending'.waiters =>
                             /\ clientAt'[b] = "await"
                             /\ \A d \in completing' : b \notin d.waiters
                        /\ \A d \in completing' : b \in d.waiters =>
                             /\ clientAt'[b] = "await"
                             /\ \A e \in completing' : b \in e.waiters => e = d
                        /\ clientAt'[b] = "await" =>
                             \/ b \in running'.waiters \/ b \in pending'.waiters
                             \/ \E d \in completing' : b \in d.waiters
                        /\ clientAt'[b] = "register" => b \in running'.waiters
      BY DEF OnePlace
    <2>1. \A d \in completing' : b \in d.waiters =>
            b # c /\ \E e \in completing : b \in e.waiters /\ d = Without(e, {c})
      BY <1>4, <1>5
    <2>2. b # c => \A e \in completing : b \in e.waiters => b \in Without(e, {c}).waiters
      BY <1>5
    <2>3. CASE b = c
      BY <1>1, <1>2, <2>1, <2>3
    <2>4. CASE b # c
      <3>1. clientAt'[b] = clientAt[b]
        BY <1>1, <2>4
      <3>2. \A d \in completing' : b \in d.waiters =>
              /\ clientAt'[b] = "await" /\ b \notin running.waiters /\ b \notin pending.waiters
              /\ \A e \in completing' : b \in e.waiters => e = d
        <4> SUFFICES ASSUME NEW d \in completing', b \in d.waiters
                     PROVE  /\ clientAt'[b] = "await" /\ b \notin running.waiters
                            /\ b \notin pending.waiters
                            /\ \A e \in completing' : b \in e.waiters => e = d
          OBVIOUS
        <4>1. PICK f \in completing : b \in f.waiters /\ d = Without(f, {c})
          BY <2>1
        <4>2. \A e \in completing' : b \in e.waiters => e = d
          BY <2>1, <4>1 DEF OnePlace
        <4> QED
          BY <3>1, <4>1, <4>2 DEF OnePlace
      <3>3. clientAt'[b] = "await" => b \in running'.waiters \/ b \in pending'.waiters
                                        \/ \E d \in completing' : b \in d.waiters
        BY <1>2, <1>3, <2>2, <2>4, <3>1 DEF OnePlace
      <3>4. /\ b \in running'.waiters => clientAt'[b] \in {"await", "register"}
                                         /\ b \notin pending'.waiters
            /\ b \in pending'.waiters => clientAt'[b] = "await"
            /\ clientAt'[b] = "register" => b \in running'.waiters
        BY <1>2, <2>4, <3>1 DEF OnePlace
      <3> QED
        BY <1>2, <3>2, <3>3, <3>4
    <2> QED
      BY <2>3, <2>4
  <1>8. OneRegistrar'
    <2>1. running'.job = "none" => running' = NoJob
      <3> SUFFICES ASSUME running'.job = "none" PROVE running' = NoJob
        OBVIOUS
      <3>1. running = NoJob
        BY <1>2 DEF OneRegistrar
      <3>2. running' = [running EXCEPT !.waiters = @ \ {c}]
        BY DEF Disconnect, Without
      <3>3. {} \ {c} = {}
        OBVIOUS
      <3> QED
        BY <3>1, <3>2, <3>3 DEF NoJob
    <2>2. pending'.seq = 0 => pending'.waiters = {}
      BY <1>2 DEF OneRegistrar
    <2>3. \A b \in Clients : clientAt'[b] \in {"encode", "register"} => clientAt'[b] = clientAt[b]
      BY <1>1
    <2>4. \A d \in completing' : d.next =>
            ~registered' /\ running'.job # "none" /\ \A e \in completing' : e.next => e = d
      <3> SUFFICES ASSUME NEW d \in completing', d.next
                   PROVE  ~registered' /\ running'.job # "none"
                          /\ \A e \in completing' : e.next => e = d
        OBVIOUS
      <3>1. PICK f \in completing : d = Without(f, {c}) /\ f.next
        BY <1>4, <1>5
      <3>2. ASSUME NEW e \in completing', e.next PROVE e = d
        <4>1. PICK g \in completing : e = Without(g, {c}) /\ g.next
          BY <1>4, <1>5, <3>2
        <4>2. g = f
          BY <3>1, <4>1 DEF OneRegistrar
        <4> QED
          BY <3>1, <4>1, <4>2
      <3> QED
        BY <1>1, <1>2, <3>1, <3>2 DEF OneRegistrar
    <2>5. \A b \in Clients : clientAt'[b] = "register" =>
            ~registered' /\ \A d \in completing' : ~d.next
      <3> SUFFICES ASSUME NEW b \in Clients, clientAt'[b] = "register"
                   PROVE  ~registered' /\ \A d \in completing' : ~d.next
        OBVIOUS
      <3>1. ~registered /\ \A e \in completing : ~e.next
        BY <2>3 DEF OneRegistrar
      <3> QED
        BY <1>1, <1>4, <1>5, <3>1
    <2>6. \A a, b \in Clients : clientAt'[a] \in {"encode", "register"}
                                  /\ clientAt'[b] \in {"encode", "register"} => a = b
      BY <2>3 DEF OneRegistrar
    <2> QED
      BY <2>1, <2>2, <2>4, <2>5, <2>6 DEF OneRegistrar
  <1>9. FreshEnough'
    BY DEF Disconnect, Leaves, Without, DeliveryShape, OnePlace, OneRegistrar, FreshEnough
  <1> QED
    BY <1>6, <1>7, <1>8, <1>9

LEMMA EncodeCachedKeeps == \A c \in Clients : DeliveryInv /\ EncodeCached(c) => DeliveryInv'
  <1> SUFFICES ASSUME NEW c \in Clients, DeliveryInv, EncodeCached(c) PROVE DeliveryInv'
    OBVIOUS
  <1> USE DEF DeliveryInv
  <1>1. DeliveryShape'
    BY DEF EncodeCached, Leaves, ClientGoes, slotVars, jobVars, DeliveryShape
  <1>2. OnePlace'
    BY DEF EncodeCached, Leaves, ClientGoes, slotVars, jobVars, DeliveryShape, OnePlace
  <1>3. OneRegistrar'
    BY DEF EncodeCached, Leaves, ClientGoes, slotVars, jobVars, DeliveryShape,
       OneRegistrar, OnePlace
  <1>4. FreshEnough'
    BY DEF EncodeCached, Leaves, ClientGoes, slotVars, jobVars, DeliveryShape, OnePlace,
       OneRegistrar, FreshEnough
  <1> QED
    BY <1>1, <1>2, <1>3, <1>4

\* Nothing runs, so that no callback has a registration left to do.
LEMMA EncodeStartsKeeps == \A c \in Clients : DeliveryInv /\ EncodeStarts(c) => DeliveryInv'
  <1> SUFFICES ASSUME NEW c \in Clients, DeliveryInv, EncodeStarts(c) PROVE DeliveryInv'
    OBVIOUS
  <1> USE DEF DeliveryInv
  <1>1. DeliveryShape'
    BY DEF EncodeStarts, StartJob, ClientGoes, NoJob, slotVars, DeliveryShape
  <1>2. OnePlace'
    BY DEF EncodeStarts, StartJob, ClientGoes, NoJob, slotVars, DeliveryShape, OnePlace
  <1>3. OneRegistrar'
    BY DEF EncodeStarts, StartJob, ClientGoes, NoJob, slotVars, DeliveryShape,
       OneRegistrar, OnePlace
  <1>4. FreshEnough'
    BY DEF EncodeStarts, StartJob, ClientGoes, NoJob, slotVars, DeliveryShape, OnePlace,
       OneRegistrar, FreshEnough
  <1> QED
    BY <1>1, <1>2, <1>3, <1>4

LEMMA EncodeSharesKeeps == \A c \in Clients : DeliveryInv /\ EncodeShares(c) => DeliveryInv'
  <1> SUFFICES ASSUME NEW c \in Clients, DeliveryInv, EncodeShares(c) PROVE DeliveryInv'
    OBVIOUS
  <1> USE DEF DeliveryInv
  <1>1. DeliveryShape'
    BY DEF EncodeShares, NoJob, ClientGoes, slotVars, DeliveryShape
  <1>2. OnePlace'
    BY DEF EncodeShares, NoJob, ClientGoes, slotVars, DeliveryShape, OnePlace
  <1>3. OneRegistrar'
    BY DEF EncodeShares, NoJob, ClientGoes, slotVars, DeliveryShape, OneRegistrar, OnePlace
  <1>4. FreshEnough'
    BY DEF EncodeShares, NoJob, ClientGoes, slotVars, DeliveryShape, OnePlace,
       OneRegistrar, FreshEnough
  <1> QED
    BY <1>1, <1>2, <1>3, <1>4

LEMMA EncodeCoalescesKeeps == \A c \in Clients : DeliveryInv /\ EncodeCoalesces(c) => DeliveryInv'
  <1> SUFFICES ASSUME NEW c \in Clients, DeliveryInv, EncodeCoalesces(c) PROVE DeliveryInv'
    OBVIOUS
  <1> USE DEF DeliveryInv
  <1>1. DeliveryShape'
    BY DEF EncodeCoalesces, NoJob, ClientGoes, slotVars, DeliveryShape
  <1>2. OnePlace'
    BY DEF EncodeCoalesces, NoJob, ClientGoes, slotVars, DeliveryShape, OnePlace
  <1>3. OneRegistrar'
    BY DEF EncodeCoalesces, NoJob, ClientGoes, slotVars, DeliveryShape, OneRegistrar,
       OnePlace
  <1>4. FreshEnough'
    BY DEF EncodeCoalesces, NoJob, ClientGoes, slotVars, DeliveryShape, OnePlace,
       OneRegistrar, FreshEnough
  <1> QED
    BY <1>1, <1>2, <1>3, <1>4

LEMMA RegisterCallbackKeeps == \A c \in Clients : DeliveryInv /\ RegisterCallback(c) => DeliveryInv'
  <1> SUFFICES ASSUME NEW c \in Clients, DeliveryInv, RegisterCallback(c) PROVE DeliveryInv'
    OBVIOUS
  <1> USE DEF DeliveryInv
  <1>1. DeliveryShape'
    BY DEF RegisterCallback, ClientGoes, slotVars, DeliveryShape
  <1>2. OnePlace'
    BY DEF RegisterCallback, ClientGoes, slotVars, DeliveryShape, OnePlace
  <1>3. OneRegistrar'
    BY DEF RegisterCallback, ClientGoes, slotVars, DeliveryShape, OneRegistrar, OnePlace
  <1>4. FreshEnough'
    BY DEF RegisterCallback, ClientGoes, slotVars, DeliveryShape, OnePlace, OneRegistrar,
       FreshEnough
  <1> QED
    BY <1>1, <1>2, <1>3, <1>4

LEMMA FinishJobKeeps == \A r \in {"ok", "failed"} : DeliveryInv /\ FinishJob(r) => DeliveryInv'
  <1> SUFFICES ASSUME NEW r \in {"ok", "failed"}, DeliveryInv, FinishJob(r) PROVE DeliveryInv'
    OBVIOUS
  <1> USE DEF DeliveryInv
  <1>1. DeliveryShape'
    BY DEF FinishJob, NoJob, slotVars, clientVars, DeliveryShape
  <1>2. OnePlace'
    BY DEF FinishJob, NoJob, slotVars, clientVars, DeliveryShape, OnePlace
  <1>3. OneRegistrar'
    BY DEF FinishJob, NoJob, slotVars, clientVars, DeliveryShape, OneRegistrar, OnePlace
  <1>4. FreshEnough'
    BY DEF FinishJob, NoJob, slotVars, clientVars, DeliveryShape, OnePlace, OneRegistrar,
       FreshEnough
  <1> QED
    BY <1>1, <1>2, <1>3, <1>4

\* The finished job's clients move to a delivery that is to be set, the pending
\* frame's to the job that is started; no other callback has one to register.
LEMMA CompleteKeeps == DeliveryInv /\ Complete => DeliveryInv'
  <1> SUFFICES ASSUME DeliveryInv, Complete PROVE DeliveryInv'
    OBVIOUS
  <1> USE DEF DeliveryInv
  <1> DEFINE done == [seq |-> running.seq, waiters |-> running.waiters,
                      ok |-> running.job = "ok", next |-> pending.seq # 0]
  <1>1. /\ completing' = completing \cup {done} /\ registered /\ registered' = FALSE
        /\ running.job \in {"ok", "failed"}
        /\ UNCHANGED <<slotSeq, slotFull, clientAt, lastSeq, asked>>
        /\ pending' = [seq |-> 0, waiters |-> {}]
    BY DEF Complete, slotVars, clientVars, NothingPending
  <1>2. latest' = IF running.seq > latest.seq
                    THEN [seq |-> running.seq, ok |-> running.job = "ok"] ELSE latest
    BY DEF Complete
  <1>3. pending.seq # 0 =>
          running' = [seq |-> pending.seq, waiters |-> pending.waiters, job |-> "encoding"]
    BY DEF Complete, StartJob
  <1>4. pending.seq = 0 => running' = NoJob /\ pending.waiters = {}
    BY DEF Complete, OneRegistrar
  <1>5. running'.seq = pending.seq /\ running'.waiters = pending.waiters
    BY <1>3, <1>4 DEF NoJob
  <1>6. done \in [seq : Nat, waiters : SUBSET Clients, ok : BOOLEAN, next : BOOLEAN]
    BY DEF DeliveryShape
  <1>7. (\A d \in completing : ~d.next) /\ \A c \in Clients : clientAt[c] # "register"
    BY <1>1 DEF OneRegistrar
  <1>8. DeliveryShape'
    <2>1. latest' \in [seq : Nat, ok : BOOLEAN]
      BY <1>2 DEF DeliveryShape
    <2>2. running' \in [seq : Nat, waiters : SUBSET Clients,
                        job : {"none", "encoding", "ok", "failed"}]
      BY <1>3, <1>4 DEF NoJob, DeliveryShape
    <2> HIDE DEF done
    <2> QED
      BY <1>1, <1>6, <2>1, <2>2 DEF DeliveryShape
  <1>9. OnePlace'
    <2>1. done.waiters = running.waiters
      OBVIOUS
    <2> HIDE DEF done
    <2>2. /\ pending'.waiters = {}
          /\ \A c \in Clients : clientAt'[c] = clientAt[c]
      BY <1>1
    <2>3. \A d \in completing' : d \in completing \/ d = done
      BY <1>1
    <2>4. completing \subseteq completing' /\ done \in completing'
      BY <1>1
    <2> QED
      BY <1>5, <1>7, <2>1, <2>2, <2>3, <2>4 DEF OnePlace
  <1>10. OneRegistrar'
    <2>1. pending.seq # 0 => running'.job = "encoding"
      <3> SUFFICES ASSUME pending.seq # 0 PROVE running'.job = "encoding"
        OBVIOUS
      <3>1. running' = [seq |-> pending.seq, waiters |-> pending.waiters, job |-> "encoding"]
        BY <1>3
      <3> QED
        BY <3>1
    <2>2. (running'.job = "none" => running' = NoJob) /\ (done.next => running'.job # "none")
      BY <1>4, <2>1
    <2> HIDE DEF done
    <2> QED
      BY <1>1, <1>7, <2>1, <2>2 DEF OneRegistrar
  <1>11. FreshEnough'
    BY <1>1, <1>2, <1>5 DEF DeliveryShape, FreshEnough
  <1> QED
    BY <1>8, <1>9, <1>10, <1>11

\* Setting a delivery answers all of its clients and no other, since it is the
\* only one they are in.
LEMMA DeliverKeeps == \A d \in completing : DeliveryInv /\ Deliver(d) => DeliveryInv'
  <1> SUFFICES ASSUME NEW d \in completing, DeliveryInv, Deliver(d) PROVE DeliveryInv'
    OBVIOUS
  <1> USE DEF DeliveryInv
  <1>1. DeliveryShape'
    BY DEF Deliver, Leaves, DeliveryShape
  <1>2. OnePlace'
    BY DEF Deliver, Leaves, DeliveryShape, OnePlace
  <1>3. OneRegistrar'
    BY DEF Deliver, Leaves, DeliveryShape, OneRegistrar, OnePlace
  <1>4. FreshEnough'
    BY DEF Deliver, Leaves, DeliveryShape, OnePlace, OneRegistrar, FreshEnough
  <1> QED
    BY <1>1, <1>2, <1>3, <1>4

LEMMA DeliveryStep == DeliveryInv /\ [NextStream]_streamVars => DeliveryInv'
  <1> SUFFICES ASSUME DeliveryInv, [NextStream]_streamVars PROVE DeliveryInv'
    OBVIOUS
  <1>1. CASE UNCHANGED streamVars
    BY <1>1 DEF streamVars, slotVars, clientVars, jobVars, DeliveryInv, DeliveryShape, OnePlace,
                OneRegistrar, FreshEnough
  <1>2. CASE Put \/ ClearSlot
    BY <1>2, ChangeSlotKeeps DEF Put, ClearSlot
  <1>3. CASE \E c \in Clients : Notify(c) \/ Client(c) \/ Subscribe(c) \/ Disconnect(c)
    BY <1>3, NotifyKeeps, SubscribeKeeps, CheckSlotKeeps, WakeKeeps, DisconnectKeeps,
       EncodeCachedKeeps, EncodeStartsKeeps, EncodeSharesKeeps, EncodeCoalescesKeeps,
       RegisterCallbackKeeps DEF Client
  <1>4. CASE FinishesJob \/ Complete \/ Delivers
    BY <1>4, FinishJobKeeps, CompleteKeeps, DeliverKeeps DEF FinishesJob, Delivers
  <1> QED
    BY <1>1, <1>2, <1>3, <1>4 DEF NextStream

LEMMA DeliveryAlways == SpecStream => []DeliveryInv
  BY InitDeliveryInv, DeliveryStep, PTL DEF SpecStream

\* Whoever awaits an encoding is in exactly one delivery, the running one, the
\* pending one or one about to be set (JpegBroadcaster._encode, _completed), for
\* any number of viewers and frames.
THEOREM NobodyLostOrShared == SpecStream => []OwedOneAnswer
  <1>1. DeliveryInv => OwedOneAnswer
    BY DEF DeliveryInv, OnePlace, OwedOneAnswer
  <1> QED
    BY DeliveryAlways, <1>1, PTL

\* A step that gives a client a result gives it one as new as the frame it asked
\* for and newer than its last.
LEMMA StepIsFresh ==
  DeliveryInv /\ [NextStream]_streamVars =>
    [\A c \in Clients : lastSeq'[c] \notin {0, lastSeq[c]}
        => lastSeq'[c] >= asked[c] /\ lastSeq'[c] > lastSeq[c]]_streamVars
  <1> SUFFICES ASSUME DeliveryInv, NextStream, NEW c \in Clients, lastSeq'[c] \notin {0, lastSeq[c]}
               PROVE  lastSeq'[c] >= asked[c] /\ lastSeq'[c] > lastSeq[c]
    OBVIOUS
  <1> USE DEF DeliveryInv
  <1>1. CASE \E d \in completing : Deliver(d)
    BY <1>1 DEF Deliver, Leaves, DeliveryShape, OnePlace, FreshEnough
  <1>2. CASE \E b \in Clients : EncodeCached(b)
    BY <1>2 DEF EncodeCached, Leaves, DeliveryShape, FreshEnough
  <1>3. CASE \E b \in Clients : Disconnect(b)
    BY <1>3 DEF Disconnect, Leaves, DeliveryShape
  <1>4. (Delivers \/ \E b \in Clients : EncodeCached(b) \/ Disconnect(b)) \/ lastSeq' = lastSeq
    BY DEF NextStream, Client, Put, ClearSlot, ChangeSlot, Notify, Subscribe, CheckSlot, Wake,
           EncodeStarts, EncodeShares, EncodeCoalesces, RegisterCallback, FinishesJob, FinishJob,
           Complete, clientVars
  <1> QED
    BY <1>1, <1>2, <1>3, <1>4 DEF Delivers

\* Nobody is given a frame older than the one it took, or the same frame twice,
\* whichever job it shared (JpegSubscription.get over JpegBroadcaster).
THEOREM NobodyGetsOldFrame == SpecStream => AnswersAreFresh
  BY DeliveryAlways, StepIsFresh, PTL DEF SpecStream, AnswersAreFresh

-----------------------------------------------------------------------------
(* The discards that failed (CleanupQueue), for any number of them.  The    *)
(* worker holds one discard while it tries, and none otherwise; the rest of *)
(* DiscardsKept is inductive as it stands, because the worker looks at the  *)
(* queue again under the lock before it leaves.                             *)

Hands ==
  IF cleanerAt \in {"attempt", "backoff"} THEN \E d \in Discards : cleaning = {d}
  ELSE cleaning = {}

CleanupInv ==
  /\ submitAt \in [Discards -> {"new", "put", "returned"}]
  /\ tasks \in Seq(Discards) /\ cleaned \subseteq Discards
  /\ cleanerAt \in {"none", "get", "idle", "attempt", "backoff"}
  /\ Hands /\ DiscardsKept

\* Putting a discard that is not there at the back, and taking the one at the front.
LEMMA AtTheBack ==
  ASSUME NEW S, NEW s \in Seq(S), NEW d \in S, IsInjective(s), d \notin ToSet(s)
  PROVE  /\ Append(s, d) \in Seq(S) /\ IsInjective(Append(s, d))
         /\ ToSet(Append(s, d)) = ToSet(s) \cup {d}
  <1>1. /\ Append(s, d) \in Seq(S) /\ Len(s) \in Nat
        /\ Len(Append(s, d)) = Len(s) + 1
        /\ \A i \in 1..Len(s) : Append(s, d)[i] = s[i]
        /\ Append(s, d)[Len(s) + 1] = d
    OBVIOUS
  <1>2. /\ DOMAIN s = 1..Len(s) /\ DOMAIN Append(s, d) = 1..(Len(s) + 1)
        /\ 1..(Len(s) + 1) = (1..Len(s)) \cup {Len(s) + 1}
    BY <1>1
  <1>3. ToSet(Append(s, d)) = ToSet(s) \cup {d}
    BY <1>1, <1>2 DEF ToSet
  <1>4. \A i \in 1..Len(s) : s[i] # d
    BY <1>2 DEF ToSet
  <1>5. IsInjective(Append(s, d))
    BY <1>1, <1>2, <1>4 DEF IsInjective
  <1> QED
    BY <1>1, <1>3, <1>5

LEMMA FromTheFront ==
  ASSUME NEW S, NEW s \in Seq(S), IsInjective(s), s # <<>>
  PROVE  /\ Head(s) \in S /\ Tail(s) \in Seq(S) /\ IsInjective(Tail(s))
         /\ Head(s) \notin ToSet(Tail(s)) /\ ToSet(s) = ToSet(Tail(s)) \cup {Head(s)}
  <1>1. /\ Len(s) \in Nat /\ Len(s) >= 1 /\ DOMAIN s = 1..Len(s)
        /\ Head(s) = s[1] /\ s[1] \in S
        /\ Tail(s) \in Seq(S) /\ Len(Tail(s)) = Len(s) - 1
        /\ DOMAIN Tail(s) = 1..(Len(s) - 1)
        /\ \A i \in 1..(Len(s) - 1) : Tail(s)[i] = s[i + 1]
    OBVIOUS
  <1>2. \A i \in 1..Len(s) : i = 1 \/ i - 1 \in 1..(Len(s) - 1)
    BY <1>1
  <1>3. \A i \in 1..(Len(s) - 1) : i + 1 \in 1..Len(s) /\ i + 1 # 1
    BY <1>1
  <1>4. IsInjective(Tail(s)) /\ Head(s) \notin ToSet(Tail(s))
    BY <1>1, <1>3 DEF IsInjective, ToSet
  <1>5. ToSet(s) = ToSet(Tail(s)) \cup {Head(s)}
    <2>1. ASSUME NEW x \in ToSet(s) PROVE x \in ToSet(Tail(s)) \cup {Head(s)}
      <3>1. PICK i \in 1..Len(s) : x = s[i]
        BY <1>1 DEF ToSet
      <3>2. CASE i # 1
        <4>1. i - 1 \in 1..(Len(s) - 1) /\ s[(i - 1) + 1] = s[i]
          BY <1>2, <3>2
        <4>2. Tail(s)[i - 1] = x
          BY <1>1, <3>1, <4>1
        <4> QED
          BY <1>1, <4>1, <4>2 DEF ToSet
      <3> QED
        BY <1>1, <3>1, <3>2
    <2>2. ASSUME NEW x \in ToSet(Tail(s)) PROVE x \in ToSet(s)
      BY <1>1, <1>3 DEF ToSet
    <2>3. Head(s) \in ToSet(s)
      BY <1>1 DEF ToSet
    <2> QED
      BY <2>1, <2>2, <2>3
  <1> QED
    BY <1>1, <1>4, <1>5

\* The worker puts back the one discard it holds.
LEMMA OneAtTheBack ==
  ASSUME NEW S, NEW s \in Seq(S), NEW d \in S
  PROVE  s \o SetToSeq({d}) = Append(s, d)
  <1>1. Cardinality({d}) = 1
    BY FS_Singleton
  <1>2. \E f \in [1..1 -> {d}] : IsInjective(f)
    <2>1. [i \in 1..1 |-> d] \in [1..1 -> {d}] /\ IsInjective([i \in 1..1 |-> d])
      BY DEF IsInjective
    <2> QED
      BY <2>1
  <1>3. SetToSeq({d}) \in [1..1 -> {d}]
    BY <1>1, <1>2 DEF SetToSeq
  <1>4. PICK f : f = SetToSeq({d})
    OBVIOUS
  <1>5. f \in [1..1 -> {d}]
    BY <1>3, <1>4
  <1>6. <<d>> \in [1..1 -> {d}]
    OBVIOUS
  <1>7. f = <<d>>
    BY <1>5, <1>6
  <1>8. s \o <<d>> = Append(s, d)
    OBVIOUS
  <1> QED
    BY <1>4, <1>7, <1>8

LEMMA CleanupStep == CleanupInv /\ [NextCleanup]_cleanupVars => CleanupInv'
  <1> SUFFICES ASSUME CleanupInv, [NextCleanup]_cleanupVars PROVE CleanupInv'
    OBVIOUS
  <1> USE DEF CleanupInv, Hands, DiscardsKept
  <1>1. ASSUME NEW d \in Discards, PutTask(d) PROVE CleanupInv'
    <2>1. d \notin ToSet(tasks) \cup cleaning \cup cleaned
      BY <1>1 DEF PutTask
    <2>2. /\ tasks' \in Seq(Discards) /\ IsInjective(tasks')
          /\ ToSet(tasks') = ToSet(tasks) \cup {d}
      BY <1>1, <2>1, AtTheBack DEF PutTask
    <2>3. /\ submitAt' \in [Discards -> {"new", "put", "returned"}] /\ submitAt'[d] = "put"
          /\ {e \in Discards : submitAt'[e] # "new"}
               = {e \in Discards : submitAt[e] # "new"} \cup {d}
      BY <1>1 DEF PutTask
    <2> QED
      BY <1>1, <2>1, <2>2, <2>3 DEF PutTask
  <1>2. ASSUME NEW d \in Discards, EnsureWorker(d) PROVE CleanupInv'
    <2>1. /\ submitAt' \in [Discards -> {"new", "put", "returned"}]
          /\ {e \in Discards : submitAt'[e] # "new"} = {e \in Discards : submitAt[e] # "new"}
          /\ cleanerAt' # "none" /\ UNCHANGED <<tasks, cleaning, cleaned>>
          /\ cleanerAt' = cleanerAt \/ (cleanerAt = "none" /\ cleanerAt' = "get")
      BY <1>2 DEF EnsureWorker
    <2> QED
      BY <2>1
  <1>3. CASE GetTask
    <2>1. PICK d : d = Head(tasks)
      OBVIOUS
    <2>2. /\ d \in Discards /\ tasks' \in Seq(Discards) /\ IsInjective(tasks')
          /\ d \notin ToSet(tasks') /\ ToSet(tasks) = ToSet(tasks') \cup {d}
      BY <1>3, <2>1, FromTheFront DEF GetTask
    <2>3. /\ cleaning = {} /\ cleaning' = {d} /\ cleanerAt' = "attempt"
          /\ UNCHANGED <<submitAt, cleaned>>
      BY <1>3, <2>1 DEF GetTask
    <2> QED
      BY <2>2, <2>3
  <1>4. CASE GetTimesOut
    BY <1>4 DEF GetTimesOut
  <1>5. CASE LeaveIfEmpty
    <2>1. tasks = <<>> => ToSet(tasks) = {}
      BY DEF ToSet
    <2> QED
      BY <1>5, <2>1 DEF LeaveIfEmpty
  <1>6. CASE AttemptSucceeds \/ AttemptRefused
    BY <1>6 DEF AttemptSucceeds, AttemptRefused
  <1>7. CASE Requeue
    <2>1. PICK d \in Discards : cleaning = {d}
      BY <1>7 DEF Requeue
    <2>2. tasks' = Append(tasks, d)
      BY <1>7, <2>1, OneAtTheBack DEF Requeue
    <2>3. /\ tasks' \in Seq(Discards) /\ IsInjective(tasks')
          /\ ToSet(tasks') = ToSet(tasks) \cup {d}
      BY <2>1, <2>2, AtTheBack
    <2>4. cleaning' = {} /\ cleanerAt' = "get" /\ UNCHANGED <<submitAt, cleaned>>
      BY <1>7 DEF Requeue
    <2> QED
      BY <2>1, <2>3, <2>4
  <1>8. CASE UNCHANGED cleanupVars
    BY <1>8 DEF cleanupVars
  <1> QED
    BY <1>1, <1>2, <1>3, <1>4, <1>5, <1>6, <1>7, <1>8 DEF NextCleanup, Cleaner

\* No discard is lost, done twice or left without a worker (DiscardsKept), however many
\* request threads queue theirs while the idle worker leaves.
THEOREM NoDiscardStranded == SpecCleanup => []DiscardsKept
  <1>1. InitCleanup => CleanupInv
    BY DEF InitCleanup, CleanupInv, Hands, DiscardsKept, ToSet, IsInjective
  <1>2. CleanupInv => DiscardsKept
    BY DEF CleanupInv
  <1> QED
    BY <1>1, <1>2, CleanupStep, PTL DEF SpecCleanup
=============================================================================
