-------------------------- MODULE LifecycleProofs --------------------------
(***************************************************************************)
(* Proofs about the order of the Fx hooks in Lifecycle, for any number of  *)
(* consumer goroutines and requests, any configurations and any number of  *)
(* starts.  The invariant ties everything a hook brings up to `started`,   *)
(* the number of hooks that are up: the queues are ready above two, the    *)
(* pool is open from three on, a worker runs only while its own hook is    *)
(* up, and the server listens only while all of them are.                  *)
(***************************************************************************)
EXTENDS Lifecycle, SequenceTheorems, TLAPS

(* Part 1: the order of the hooks.  The place of a hook, and the number of hooks. *)
Last == IF config.workers THEN 8 ELSE 5

Place(h) ==
    CASE h = "tracing" -> 1 [] h = "queues" -> 2 [] h = "pool" -> 3
      [] h = "consumer" -> 4 [] h = "outbox" -> 5 [] h = "reference" -> 6
      [] h = "auth" -> Last - 1 [] h = "http" -> Last

Hooks == {"tracing", "queues", "pool", "auth", "http"}
            \cup (IF config.workers THEN WorkerHooks ELSE {})

(* Part 2: the invariant. *)
Typed ==
    /\ config \in [workers: BOOLEAN, create: BOOLEAN, patient: BOOLEAN]
    /\ phase \in {"starting", "running", "stopping", "rollback", "exited"}
    /\ started \in 0 .. Last
    /\ queue \in [QueueNames -> {"missing", "plain", "redrive"}]
    /\ prepared \in 0 .. 4 /\ (found => prepared < 4)
    /\ worker \in [AllGoroutines -> {"off", "idle", "busy", "gone"}]
    /\ request \in [Requests -> {"none", "active", "inTx", "ran", "answered", "failed"}]

(* A start is under way until the last hook is up. *)
PhaseOfHooks ==
    /\ phase = "starting" => started < Last
    /\ phase = "running" => started = Last

(* prepare has secured the queues it is done with, and all of them once its hook is up. *)
QueuesPrepared ==
    /\ started >= 2 => QueuesReady
    /\ config.create => \A i \in 1 .. prepared :
                           QueueOrder[i] \in Redriven => queue[QueueOrder[i]] = "redrive"

(* The pool is open while a hook after it is up, and closes only during a stop. *)
PoolFollowsHooks ==
    /\ pool \in {"new", "open", "closing", "closed"}
    /\ started >= 3 => pool \in {"open", "closing"}
    /\ pool = "closing" => started = 3
    /\ pool = "closed" => started < 3
    /\ pool \in {"closing", "closed"} => phase \notin {"starting", "running"}

(* A goroutine runs only while the hook that started it is up. *)
WorkersFollowHooks ==
    \A h \in WorkerHooks : \A g \in Goroutines(h) :
        Running(g) => config.workers /\ started >= Place(h)

(* The server listens only while every hook is up, and when its own hook is down again
   it has no request left, unless it gave up on some. *)
ServerFollowsHooks ==
    /\ started >= Last - 1 => verifier
    /\ listening => started = Last /\ verifier /\ pool = "open"
    /\ \A r \in Requests :
          /\ request[r] # "none" => verifier /\ pool # "new" /\ phase # "starting"
          /\ request[r] = "failed" => gaveUp
          /\ Unfinished(r) /\ started < Last => gaveUp

HookInv ==
    /\ Typed /\ PhaseOfHooks /\ QueuesPrepared
    /\ PoolFollowsHooks /\ WorkersFollowHooks /\ ServerFollowsHooks

-----------------------------------------------------------------------------
(* Part 3: facts about the places. *)

(* What joining two sequences gives, for these. *)
LEMMA Joined ==
    ASSUME NEW S, NEW a \in Seq(S), NEW b \in Seq(S)
    PROVE  /\ a \o b \in Seq(S) /\ Len(a \o b) = Len(a) + Len(b)
           /\ \A j \in 1 .. Len(a) + Len(b) :
                 (a \o b)[j] = IF j <= Len(a) THEN a[j] ELSE b[j - Len(a)]
BY ConcatProperties

(* The hook at each position of the order has that place. *)
LEMMA OrderOfHooks ==
    ASSUME NEW i \in 1 .. Last
    PROVE  /\ Len(HookOrder) = Last
           /\ HookOrder[i] \in Hooks /\ i = Place(HookOrder[i])
<1> DEFINE Names == {"tracing", "queues", "pool", "auth", "http"} \cup WorkerHooks
           first == <<"tracing", "queues", "pool">>
           middle == IF config.workers THEN <<"consumer", "outbox", "reference">> ELSE <<>>
           last == <<"auth", "http">>
<1>1. /\ first \in Seq(Names) /\ Len(first) = 3
      /\ first[1] = "tracing" /\ first[2] = "queues" /\ first[3] = "pool"
  BY DEF WorkerHooks
<1>2. /\ middle \in Seq(Names) /\ Len(middle) = Last - 5 /\ Last \in {5, 8}
      /\ config.workers => /\ Last = 8 /\ middle[1] = "consumer" /\ middle[2] = "outbox"
                           /\ middle[3] = "reference"
      /\ ~ config.workers => Last = 5
  <2>1. CASE config.workers
    BY <2>1 DEF Last, WorkerHooks
  <2>2. CASE ~ config.workers
    BY <2>2, EmptySeq DEF Last
  <2>3. QED BY <2>1, <2>2
<1>3. last \in Seq(Names) /\ Len(last) = 2 /\ last[1] = "auth" /\ last[2] = "http"
  OBVIOUS
<1>4. HookOrder = (first \o middle) \o last
  BY DEF HookOrder
<1> HIDE DEF Names, first, middle, last
<1>5. /\ first \o middle \in Seq(Names) /\ Len(first \o middle) = Last - 2
      /\ \A j \in 1 .. Last - 2 : (first \o middle)[j] = IF j <= 3 THEN first[j] ELSE middle[j - 3]
  <2>1. first \in Seq(Names) /\ middle \in Seq(Names)
    BY <1>1, <1>2
  <2>2. Len(first) = 3 /\ Len(first) + Len(middle) = Last - 2
    BY <1>1, <1>2
  <2>3. /\ first \o middle \in Seq(Names) /\ Len(first \o middle) = Len(first) + Len(middle)
        /\ \A j \in 1 .. Len(first) + Len(middle) :
              (first \o middle)[j] = IF j <= Len(first) THEN first[j] ELSE middle[j - Len(first)]
    BY <2>1, Joined
  <2>4. QED BY <2>2, <2>3
<1>6. /\ Len(HookOrder) = Last
      /\ \A j \in 1 .. Last : HookOrder[j] = IF j <= Last - 2 THEN (first \o middle)[j] ELSE last[j - (Last - 2)]
  <2>1. first \o middle \in Seq(Names) /\ last \in Seq(Names)
    BY <1>3, <1>5
  <2>2. Len(first \o middle) = Last - 2 /\ Len(first \o middle) + Len(last) = Last
    BY <1>2, <1>3, <1>5
  <2>3. /\ Len((first \o middle) \o last) = Last
        /\ \A j \in 1 .. Last : ((first \o middle) \o last)[j] =
                                   IF j <= Last - 2 THEN (first \o middle)[j] ELSE last[j - (Last - 2)]
    BY <2>1, <2>2, Joined
  <2>4. QED BY <1>4, <2>3
<1>7. HookOrder[i] = IF i <= 3 THEN first[i] ELSE IF i <= Last - 2 THEN middle[i - 3] ELSE last[i - (Last - 2)]
  BY <1>2, <1>5, <1>6
<1>8. CASE config.workers
  BY <1>1, <1>2, <1>3, <1>6, <1>7, <1>8 DEF Hooks, Place, WorkerHooks
<1>9. CASE ~ config.workers
  BY <1>1, <1>2, <1>3, <1>6, <1>7, <1>9 DEF Hooks, Place, WorkerHooks
<1>10. QED BY <1>8, <1>9

(* Where a start or a stop is when it is at hook h. *)
LEMMA AtHook ==
    ASSUME Typed, NEW h
    PROVE  /\ Starting(h) => h \in Hooks /\ phase = "starting" /\ started + 1 = Place(h) /\ started < Last
           /\ Stopping(h) => h \in Hooks /\ started = Place(h) /\ started > 0
<1>1. Len(HookOrder) = Last /\ Last \in {5, 8}
  BY OrderOfHooks DEF Last
<1>2. ASSUME Starting(h)
      PROVE  h \in Hooks /\ phase = "starting" /\ started + 1 = Place(h) /\ started < Last
  <2>1. started + 1 \in 1 .. Last /\ HookOrder[started + 1] = h /\ phase = "starting"
    BY <1>1, <1>2 DEF Typed, Starting
  <2>2. QED BY <2>1, <1>1, OrderOfHooks DEF Typed
<1>3. ASSUME Stopping(h) PROVE h \in Hooks /\ started = Place(h) /\ started > 0
  <2>1. started \in 1 .. Last /\ HookOrder[started] = h
    BY <1>1, <1>3 DEF Typed, Stopping
  <2>2. QED BY <2>1, OrderOfHooks
<1>4. QED BY <1>2, <1>3

(* No goroutine belongs to two hooks. *)
LEMMA OwnGoroutines ==
    ASSUME NEW h \in WorkerHooks, NEW k \in WorkerHooks, NEW g \in Goroutines(h), g \in Goroutines(k)
    PROVE  h = k
BY LifecycleAssumption DEF WorkerHooks, Goroutines

-----------------------------------------------------------------------------
(* Part 4: the invariant holds at the start, and each step keeps it. *)
LEMMA HooksAtInit == Init => HookInv
<1> SUFFICES ASSUME Init PROVE HookInv
  OBVIOUS
<1>1. /\ config \in [workers: BOOLEAN, create: BOOLEAN, patient: BOOLEAN]
      /\ phase = "starting" /\ started = 0 /\ prepared = 0 /\ pool = "new" /\ listening = FALSE
      /\ found = FALSE
      /\ worker = [g \in AllGoroutines |-> "off"] /\ request = [r \in Requests |-> "none"]
  BY LifecycleAssumption DEF Init, NewProcess
<1>2. queue \in [QueueNames -> {"missing", "plain", "redrive"}]
  BY DEF Init
<1>3. Typed
  BY <1>1, <1>2 DEF Typed, Last
<1>4. PhaseOfHooks /\ QueuesPrepared /\ PoolFollowsHooks
  BY <1>1 DEF PhaseOfHooks, QueuesPrepared, PoolFollowsHooks, Last
<1>5. WorkersFollowHooks
  BY <1>1 DEF WorkersFollowHooks, Running, AllGoroutines
<1>6. ServerFollowsHooks
  <2>1. ~ (started >= Last - 1) /\ ~ listening
    BY <1>1 DEF Last
  <2>2. QED BY <1>1, <2>1 DEF ServerFollowsHooks, Unfinished
<1>7. QED BY <1>3, <1>4, <1>5, <1>6 DEF HookInv

(* A step of the phase alone. *)
LEMMA PhaseStep ==
    ASSUME HookInv, UNCHANGED <<config, started, queues, pool, server, workers>>,
           \/ phase' \in {"exited", "rollback"} /\ (phase = "starting" => started < Last)
           \/ phase' = "stopping" /\ phase = "running"
    PROVE  HookInv'
<1>1. Typed'
  BY DEF HookInv, Typed, queues, server, workers, Last
<1>2. PhaseOfHooks' /\ QueuesPrepared' /\ PoolFollowsHooks'
  BY DEF HookInv, PhaseOfHooks, QueuesPrepared, PoolFollowsHooks, queues, QueuesReady
<1>3. WorkersFollowHooks'
  BY DEF HookInv, WorkersFollowHooks, workers, Running, Place, Last
<1>4. ServerFollowsHooks'
  BY DEF HookInv, ServerFollowsHooks, server, Unfinished, Last
<1>5. QED BY <1>1, <1>2, <1>3, <1>4 DEF HookInv

(* The queues, in their order. *)
LEMMA OrderOfQueues ==
    /\ Len(QueueOrder) = 4
    /\ \A i \in 1 .. 4 : QueueOrder[i] \in QueueNames
    /\ \A i, j \in 1 .. 4 : QueueOrder[i] = QueueOrder[j] => i = j
BY DEF QueueOrder, QueueNames

(* The queues hook works on its queues, one after the other. *)
LEMMA QueueStep ==
    ASSUME HookInv, EnsureQueue \/ SetAttributes
    PROVE  HookInv'
<1> DEFINE n == prepared + 1
<1>1. /\ started = 1 /\ phase = "starting" /\ UNCHANGED <<process, pool, server, workers>>
      /\ prepared \in 0 .. 3 /\ n \in 1 .. 4
  <2>1. Starting("queues")
    BY DEF EnsureQueue, SetAttributes
  <2>2. started = 1 /\ phase = "starting"
    BY <2>1, AtHook DEF HookInv, Typed, Place
  <2>3. prepared \in 0 .. 3
    BY OrderOfQueues DEF EnsureQueue, SetAttributes, QueuesReady, HookInv, Typed
  <2>4. QED
    BY <2>2, <2>3 DEF EnsureQueue, SetAttributes
<1>2. /\ queue' \in [QueueNames -> {"missing", "plain", "redrive"}]
      /\ prepared' \in 0 .. 4 /\ (found' => prepared' < 4)
      /\ \A i \in 1 .. 4 : i # n => queue'[QueueOrder[i]] = queue[QueueOrder[i]]
      /\ prepared' = prepared \/ (prepared' = n /\ config.create /\ QueueOrder[n] \in Redriven
                                                    => queue'[QueueOrder[n]] = "redrive")
      /\ prepared' \in {prepared, n}
  <2>1. queue \in [QueueNames -> {"missing", "plain", "redrive"}]
    BY DEF HookInv, Typed
  <2>2. CASE EnsureQueue
    BY <1>1, <2>1, <2>2, OrderOfQueues DEF EnsureQueue
  <2>3. CASE SetAttributes
    BY <1>1, <2>1, <2>3, OrderOfQueues DEF SetAttributes
  <2>4. QED BY <2>2, <2>3
<1>3. Typed'
  BY <1>1, <1>2 DEF HookInv, Typed, process, server, workers, Last
<1>4. QueuesPrepared'
  <2>1. ASSUME config.create', NEW i \in 1 .. prepared', QueueOrder[i] \in Redriven
        PROVE  queue'[QueueOrder[i]] = "redrive"
    <3>1. config.create /\ i \in 1 .. 4 /\ (i # n => i \in 1 .. prepared) /\ (i = n => prepared' = n)
      BY <1>1, <1>2, <2>1 DEF process
    <3>2. CASE i = n
      BY <1>2, <1>1, <2>1, <3>1, <3>2
    <3>3. CASE i # n
      BY <1>2, <2>1, <3>1, <3>3 DEF HookInv, QueuesPrepared
    <3>4. QED BY <3>2, <3>3
  <2>2. started' = 1
    BY <1>1 DEF process
  <2>3. QED BY <2>1, <2>2 DEF QueuesPrepared, Redriven, QueueOrder
<1>5. PhaseOfHooks' /\ PoolFollowsHooks'
  BY <1>1 DEF HookInv, PhaseOfHooks, PoolFollowsHooks, process, Last
<1>6. WorkersFollowHooks'
  BY <1>1 DEF HookInv, WorkersFollowHooks, workers, process, Running, Place, Last
<1>7. ServerFollowsHooks'
  BY <1>1 DEF HookInv, ServerFollowsHooks, server, process, Unfinished, Last
<1>8. QED BY <1>3, <1>4, <1>5, <1>6, <1>7 DEF HookInv

(* The next hook is up: what it must bring, by its place. *)
LEMMA HookUp ==
    ASSUME HookInv, phase = "starting", started < Last, HookStarted, UNCHANGED <<queues, gaveUp, request>>,
           started + 1 = 2 => QueuesReady,
           pool' = IF started + 1 = 3 THEN "open" ELSE pool,
           verifier \/ started + 1 = Last - 1 => verifier',
           listening' => listening \/ started + 1 = Last,
           worker' \in [AllGoroutines -> {"off", "idle", "busy", "gone"}],
           \A h \in WorkerHooks : \A g \in Goroutines(h) :
               worker'[g] = worker[g] \/ (config.workers /\ started + 1 = Place(h))
    PROVE  HookInv'
<1>1. /\ started \in 0 .. Last - 1 /\ started' = started + 1 /\ Last \in {5, 8}
      /\ config' = config /\ Last' = Last
      /\ phase' = IF started + 1 = Last THEN "running" ELSE "starting"
  <2>1. Len(HookOrder) = Last /\ Last \in {5, 8}
    BY OrderOfHooks DEF Last
  <2>2. QED BY <2>1 DEF HookStarted, HookInv, Typed, Last
<1>2. Typed'
  BY <1>1 DEF HookInv, Typed, queues
<1>3. PhaseOfHooks' /\ QueuesPrepared'
  BY <1>1 DEF HookInv, PhaseOfHooks, QueuesPrepared, QueuesReady, queues
<1>4. PoolFollowsHooks'
  BY <1>1 DEF HookInv, PoolFollowsHooks
<1>5. WorkersFollowHooks'
  <2>1. ASSUME NEW h \in WorkerHooks, NEW g \in Goroutines(h), Running(g)'
        PROVE  config.workers /\ started' >= Place(h)
    <3>1. Place(h) \in {4, 5, 6}
      BY DEF WorkerHooks, Place
    <3>2. CASE worker'[g] = worker[g]
      BY <1>1, <2>1, <3>1, <3>2 DEF HookInv, WorkersFollowHooks, Running
    <3>3. CASE config.workers /\ started + 1 = Place(h)
      BY <1>1, <3>1, <3>3
    <3>4. QED BY <3>2, <3>3
  <2>2. \A h : Place(h)' = Place(h)
    BY <1>1 DEF Place
  <2>3. QED BY <1>1, <2>1, <2>2 DEF WorkersFollowHooks
<1>6. ServerFollowsHooks'
  <2>1. \A r \in Requests : request'[r] = "none"
    BY DEF HookInv, ServerFollowsHooks
  <2>2. ~ listening
    <3>1. started # Last
      BY <1>1
    <3>2. QED BY <3>1 DEF HookInv, ServerFollowsHooks
  <2>3. started' >= Last' - 1 => verifier'
    BY <1>1 DEF HookInv, ServerFollowsHooks
  <2>4. listening' => started' = Last' /\ verifier'
    BY <1>1, <2>2, <2>3
  <2>5. started' = Last' => pool' = "open"
    BY <1>1 DEF HookInv, PoolFollowsHooks
  <2>6. QED BY <2>1, <2>3, <2>4, <2>5 DEF ServerFollowsHooks, Unfinished
<1>7. QED BY <1>2, <1>3, <1>4, <1>5, <1>6 DEF HookInv

(* The hooks that come up. *)
LEMMA StartStepKeeps ==
    ASSUME HookInv, StartStep
    PROVE  HookInv'
<1>1. Len(HookOrder) = Last /\ Last \in {5, 8} /\ worker \in [AllGoroutines -> {"off", "idle", "busy", "gone"}]
  BY OrderOfHooks DEF Last, HookInv, Typed
<1>2. ASSUME NEW h, Starting(h)
      PROVE  h \in Hooks /\ phase = "starting" /\ started + 1 = Place(h) /\ started < Last
  BY <1>2, AtHook DEF HookInv
<1>3. CASE StartTracing
  <2>1. started + 1 = 1 /\ phase = "starting" /\ started < Last /\ started \in Nat
    BY <1>2, <1>3 DEF StartTracing, Place, HookInv, Typed
  <2>2. QED
    BY <1>1, <1>3, <2>1, HookUp DEF StartTracing, server, workers, queues
<1>4. CASE StartQueues
  <2>1. started + 1 = 2 /\ phase = "starting" /\ started < Last
    BY <1>2, <1>4 DEF StartQueues, Place
  <2>2. QED
    BY <1>1, <1>4, <2>1, HookUp DEF StartQueues, server, workers, queues
<1>5. CASE PingPool
  <2>1. started + 1 = 3 /\ phase = "starting" /\ started < Last
    BY <1>2, <1>5 DEF PingPool, Place
  <2>2. QED
    BY <1>1, <1>5, <2>1, HookUp DEF PingPool, server, workers, queues
<1>6. ASSUME NEW h \in WorkerHooks, StartWorkers(h) PROVE HookInv'
  <2>1. /\ started + 1 = Place(h) /\ phase = "starting" /\ started < Last /\ h \in Hooks
    BY <1>2, <1>6 DEF StartWorkers
  <2>2. /\ config.workers /\ Place(h) \in {4, 5, 6}
    BY <2>1 DEF Hooks, WorkerHooks, Place
  <2>3. Last = 8
    BY <2>2 DEF Last
  <2>4. worker' \in [AllGoroutines -> {"off", "idle", "busy", "gone"}]
    BY <1>1, <1>6 DEF StartWorkers
  <2>5. ASSUME NEW k \in WorkerHooks, NEW g \in Goroutines(k)
        PROVE  worker'[g] = worker[g] \/ (config.workers /\ started + 1 = Place(k))
    <3>1. g \in AllGoroutines
      BY DEF AllGoroutines
    <3>2. CASE g \in Goroutines(h)
      BY <2>1, <2>2, <3>2, OwnGoroutines
    <3>3. CASE g \notin Goroutines(h)
      BY <1>6, <3>1, <3>3 DEF StartWorkers
    <3>4. QED BY <3>2, <3>3
  <2>6. HookStarted /\ UNCHANGED <<queues, pool, server>>
    BY <1>6 DEF StartWorkers
  <2>7. started + 1 \notin {2, 3, Last - 1, Last}
    BY <2>1, <2>2, <2>3
  <2>8. QED
    BY <2>1, <2>4, <2>5, <2>6, <2>7, HookUp DEF server, queues
<1>7. CASE DiscoverIdentity
  <2>1. started + 1 = Last - 1 /\ phase = "starting" /\ started < Last
    BY <1>2, <1>7 DEF DiscoverIdentity, Place
  <2>2. QED
    BY <1>1, <1>7, <2>1, HookUp DEF DiscoverIdentity, workers, queues
<1>8. CASE Listen
  <2>1. started + 1 = Last /\ phase = "starting" /\ started < Last
    BY <1>2, <1>8 DEF Listen, Place
  <2>2. QED
    BY <1>1, <1>8, <2>1, HookUp DEF Listen, workers, queues
<1>9. CASE StartFails
  <2>1. phase = "starting" /\ started < Last
    BY <1>2, <1>9 DEF StartFails
  <2>2. QED
    BY <1>9, <2>1, PhaseStep DEF StartFails
<1>10. QED
  BY <1>3, <1>4, <1>5, <1>6, <1>7, <1>8, <1>9, QueueStep DEF StartStep

(* The last hook that is up goes down, and has seen to what only runs with it. *)
LEMMA HookDown ==
    ASSUME HookInv, phase \in {"stopping", "rollback"}, started > 0, HookStopped,
           UNCHANGED <<queues, verifier, listening, request, workers>>,
           gaveUp => gaveUp',
           pool' = IF started = 3 THEN "closed" ELSE pool,
           \A h \in WorkerHooks : config.workers /\ started = Place(h) =>
               \A g \in Goroutines(h) : ~ Running(g),
           started = Last => ~ listening /\ (gaveUp' \/ \A r \in Requests : ~ Unfinished(r))
    PROVE  HookInv'
<1>1. /\ started \in 1 .. Last /\ started' = started - 1 /\ Last \in {5, 8}
      /\ config' = config /\ Last' = Last /\ phase' = phase
  <2>1. Last \in {5, 8}
    BY DEF Last
  <2>2. QED BY <2>1 DEF HookStopped, HookInv, Typed, Last
<1>2. Typed'
  BY <1>1 DEF HookInv, Typed, queues, workers
<1>3. PhaseOfHooks' /\ QueuesPrepared'
  BY <1>1 DEF HookInv, PhaseOfHooks, QueuesPrepared, QueuesReady, queues
<1>4. PoolFollowsHooks'
  BY <1>1 DEF HookInv, PoolFollowsHooks
<1>5. WorkersFollowHooks'
  <2>1. ASSUME NEW h \in WorkerHooks, NEW g \in Goroutines(h), Running(g)'
        PROVE  config.workers /\ started' >= Place(h)
    <3>1. Place(h) \in {4, 5, 6}
      BY DEF WorkerHooks, Place
    <3>2. Running(g)
      BY <2>1 DEF Running, workers
    <3>3. config.workers /\ started >= Place(h)
      BY <3>2 DEF HookInv, WorkersFollowHooks
    <3>4. started # Place(h)
      BY <3>2, <3>3
    <3>5. QED BY <1>1, <3>1, <3>3, <3>4
  <2>2. \A h : Place(h)' = Place(h)
    BY <1>1 DEF Place
  <2>3. QED BY <1>1, <2>1, <2>2 DEF WorkersFollowHooks
<1>6. ServerFollowsHooks'
  <2>1. started' >= Last' - 1 => verifier'
    BY <1>1 DEF HookInv, ServerFollowsHooks
  <2>2. ~ listening'
    BY DEF HookInv, ServerFollowsHooks
  <2>3. ASSUME NEW r \in Requests
        PROVE  /\ request[r] # "none" => verifier' /\ pool' # "new" /\ phase' # "starting"
               /\ request[r] = "failed" => gaveUp'
               /\ Unfinished(r) => gaveUp'
    <3>1. /\ request[r] # "none" => verifier /\ pool # "new" /\ phase # "starting"
          /\ request[r] = "failed" => gaveUp
          /\ Unfinished(r) /\ started < Last => gaveUp
      BY DEF HookInv, ServerFollowsHooks
    <3>2. started < Last \/ started = Last
      BY <1>1
    <3>3. QED BY <1>1, <3>1, <3>2
  <2>4. \A r \in Requests : Unfinished(r)' = Unfinished(r)
    BY DEF Unfinished
  <2>5. QED BY <2>1, <2>2, <2>3, <2>4 DEF ServerFollowsHooks
<1>7. QED BY <1>2, <1>3, <1>4, <1>5, <1>6 DEF HookInv

(* The hooks that go down, and what they do before that. *)
LEMMA StopStepKeeps ==
    ASSUME HookInv, StopStep
    PROVE  HookInv'
<1>1. Last \in {5, 8} /\ (config.workers => Last = 8) /\ started \in 0 .. Last
  BY DEF Last, HookInv, Typed
<1>2. ASSUME NEW h, Stopping(h)
      PROVE  /\ h \in Hooks /\ started = Place(h) /\ started > 0
             /\ phase \in {"stopping", "rollback"}
  BY <1>2, AtHook DEF HookInv, Stopping
<1>3. \A h \in WorkerHooks : Place(h) \in {4, 5, 6}
  BY DEF WorkerHooks, Place
<1>4. CASE StopPassive
  <2>1. PICK h \in {"tracing", "queues", "auth"} : Stopping(h)
    BY <1>4 DEF StopPassive
  <2>2. /\ started = Place(h) /\ started > 0 /\ phase \in {"stopping", "rollback"}
        /\ HookStopped /\ UNCHANGED <<queues, pool, server, workers>>
    BY <1>2, <1>4, <2>1 DEF StopPassive
  <2>3. started \in {1, 2, Last - 1}
    BY <2>1, <2>2 DEF Place
  <2>4. started # 3 /\ started # Last /\ (config.workers => started \notin {4, 5, 6})
    BY <1>1, <2>3
  <2>5. \A k \in WorkerHooks : ~ (config.workers /\ started = Place(k))
    BY <1>3, <2>4
  <2>6. QED
    BY <2>2, <2>4, <2>5, HookDown DEF server
<1>5. CASE StopListening
  <2>1. started = Last
    BY <1>2, <1>5 DEF StopListening, Place
  <2>2. UNCHANGED <<process, queues, pool, verifier, gaveUp, request, workers>> /\ listening' = FALSE
    BY <1>5 DEF StopListening
  <2>3. Typed'
    BY <2>2 DEF HookInv, Typed, process, queues, workers, Last
  <2>4. PhaseOfHooks' /\ QueuesPrepared' /\ PoolFollowsHooks'
    BY <2>2 DEF HookInv, PhaseOfHooks, QueuesPrepared, QueuesReady, PoolFollowsHooks, process, queues, Last
  <2>5. WorkersFollowHooks'
    BY <2>2 DEF HookInv, WorkersFollowHooks, workers, process, Running, Place, Last
  <2>6. ServerFollowsHooks'
    BY <2>2 DEF HookInv, ServerFollowsHooks, process, Unfinished, Last
  <2>7. QED BY <2>3, <2>4, <2>5, <2>6 DEF HookInv
<1>6. CASE RequestsDrained \/ ShutdownTimesOut
  <2>1. /\ started = Last /\ started > 0 /\ phase \in {"stopping", "rollback"}
        /\ HookStopped /\ ~ listening
        /\ UNCHANGED <<queues, pool, verifier, listening, request, workers>>
    BY <1>2, <1>6 DEF RequestsDrained, ShutdownTimesOut, Place, server
  <2>2. (gaveUp => gaveUp') /\ (gaveUp' \/ \A r \in Requests : ~ Unfinished(r))
    BY <1>6 DEF RequestsDrained, ShutdownTimesOut, server
  <2>3. started # 3 /\ (config.workers => started \notin {4, 5, 6})
    BY <1>1, <2>1
  <2>4. \A k \in WorkerHooks : ~ (config.workers /\ started = Place(k))
    BY <1>3, <2>3
  <2>5. QED
    BY <2>1, <2>2, <2>3, <2>4, HookDown
<1>7. ASSUME NEW h \in WorkerHooks, CancelWorkers(h) PROVE HookInv'
  <2>1. UNCHANGED <<process, queues, pool, server, worker>>
    BY <1>7 DEF CancelWorkers
  <2>2. Typed'
    BY <2>1 DEF HookInv, Typed, process, queues, server, Last
  <2>3. PhaseOfHooks' /\ QueuesPrepared' /\ PoolFollowsHooks'
    BY <2>1 DEF HookInv, PhaseOfHooks, QueuesPrepared, QueuesReady, PoolFollowsHooks, process, queues, Last
  <2>4. WorkersFollowHooks'
    BY <2>1 DEF HookInv, WorkersFollowHooks, process, Running, Place, Last
  <2>5. ServerFollowsHooks'
    BY <2>1 DEF HookInv, ServerFollowsHooks, process, server, Unfinished, Last
  <2>6. QED BY <2>2, <2>3, <2>4, <2>5 DEF HookInv
<1>8. ASSUME NEW h \in WorkerHooks, WorkersLeft(h) PROVE HookInv'
  <2>1. /\ started = Place(h) /\ h \in Hooks /\ started > 0 /\ phase \in {"stopping", "rollback"}
        /\ HookStopped /\ UNCHANGED <<queues, pool, server, workers>>
        /\ \A g \in Goroutines(h) : worker[g] = "gone"
    BY <1>2, <1>8 DEF WorkersLeft
  <2>2. config.workers /\ started \in {4, 5, 6}
    BY <1>3, <2>1 DEF Hooks, WorkerHooks
  <2>3. started # 3 /\ started # Last
    BY <1>1, <2>2
  <2>4. ASSUME NEW k \in WorkerHooks, started = Place(k) PROVE \A g \in Goroutines(k) : ~ Running(g)
    <3>1. k = h
      BY <2>1, <2>4 DEF WorkerHooks, Place
    <3>2. QED BY <2>1, <3>1 DEF Running
  <2>5. QED
    BY <2>1, <2>3, <2>4, HookDown DEF server
<1>9. CASE ClosePool
  <2>1. started = 3 /\ phase \in {"stopping", "rollback"}
    BY <1>2, <1>9 DEF ClosePool, Place
  <2>2. UNCHANGED <<process, queues, server, workers>> /\ pool' = "closing"
    BY <1>9 DEF ClosePool
  <2>3. Typed'
    BY <2>2 DEF HookInv, Typed, process, queues, server, workers, Last
  <2>4. PhaseOfHooks' /\ QueuesPrepared'
    BY <2>2 DEF HookInv, PhaseOfHooks, QueuesPrepared, QueuesReady, process, queues, Last
  <2>5. PoolFollowsHooks'
    BY <2>1, <2>2 DEF PoolFollowsHooks, process
  <2>6. WorkersFollowHooks'
    BY <2>2 DEF HookInv, WorkersFollowHooks, workers, process, Running, Place, Last
  <2>7. ServerFollowsHooks'
    <3>1. started # Last
      BY <1>1, <2>1
    <3>2. QED
      BY <2>2, <3>1 DEF HookInv, ServerFollowsHooks, process, server, Unfinished, Last
  <2>8. QED BY <2>3, <2>4, <2>5, <2>6, <2>7 DEF HookInv
<1>10. CASE PoolClosed
  <2>1. /\ started = 3 /\ started > 0 /\ phase \in {"stopping", "rollback"} /\ pool' = "closed"
        /\ HookStopped /\ UNCHANGED <<queues, server, workers>>
    BY <1>2, <1>10 DEF PoolClosed, Place
  <2>2. started # Last /\ \A k \in WorkerHooks : started # Place(k)
    BY <1>1, <1>3, <2>1
  <2>3. QED
    BY <2>1, <2>2, HookDown DEF server
<1>11. CASE Stopped
  BY <1>11, PhaseStep DEF Stopped, Exit
<1>12. QED
  BY <1>4, <1>5, <1>6, <1>7, <1>8, <1>9, <1>10, <1>11 DEF StopStep

(* A goroutine works, and runs afterwards only if it ran before. *)
LEMMA WorkerKeeps ==
    ASSUME HookInv, NEW g \in AllGoroutines, TakeWork(g) \/ FinishWork(g) \/ LeaveLoop(g)
    PROVE  HookInv'
<1>1. /\ UNCHANGED <<process, queues, pool, server, cancelled>> /\ Running(g)
      /\ \E mode \in {"idle", "busy", "gone"} : worker' = [worker EXCEPT ![g] = mode]
  BY DEF TakeWork, FinishWork, LeaveLoop, Running
<1>2. worker \in [AllGoroutines -> {"off", "idle", "busy", "gone"}]
  BY DEF HookInv, Typed
<1>3. \A o \in AllGoroutines : Running(o)' => Running(o)
  BY <1>1, <1>2 DEF Running
<1>4. Typed'
  BY <1>1, <1>2 DEF HookInv, Typed, process, queues, server, Last
<1>5. PhaseOfHooks' /\ QueuesPrepared' /\ PoolFollowsHooks'
  BY <1>1 DEF HookInv, PhaseOfHooks, QueuesPrepared, QueuesReady, PoolFollowsHooks, process, queues, Last
<1>6. WorkersFollowHooks'
  <2>1. ASSUME NEW h \in WorkerHooks, NEW o \in Goroutines(h), Running(o)'
        PROVE  config.workers /\ started >= Place(h)
    BY <1>3, <2>1 DEF HookInv, WorkersFollowHooks, AllGoroutines
  <2>2. config' = config /\ started' = started /\ \A h : Place(h)' = Place(h)
    BY <1>1 DEF process, Place, Last
  <2>3. QED BY <2>1, <2>2 DEF WorkersFollowHooks
<1>7. ServerFollowsHooks'
  BY <1>1 DEF HookInv, ServerFollowsHooks, process, server, Unfinished, Last
<1>8. QED BY <1>4, <1>5, <1>6, <1>7 DEF HookInv

(* A request is accepted while every hook is up, and goes on afterwards. *)
LEMMA RequestKeeps ==
    ASSUME HookInv, NEW r \in Requests, Accept(r) \/ HandlerStep(r)
    PROVE  HookInv'
<1> DEFINE States == {"none", "active", "inTx", "ran", "answered", "failed"}
<1>1. PICK from \in States, to \in States :
         /\ request[r] = from /\ RequestMoves(r, from, to)
         /\ from = "none" => to = "active" /\ listening
         /\ from # "none" => from \in {"active", "inTx", "ran"}
         /\ to # "none"
         /\ to = "failed" => pool \in {"closing", "closed"} /\ from = "active"
  <2>1. CASE Accept(r)
    BY <2>1 DEF Accept, RequestMoves
  <2>2. CASE HandlerStep(r)
    BY <2>2 DEF HandlerStep, BeginTx, EndTx, PoolRefuses, Answer, RequestMoves
  <2>3. QED BY <2>1, <2>2
<1>2. /\ UNCHANGED <<process, queues, pool, verifier, listening, gaveUp, workers>>
      /\ request' = [request EXCEPT ![r] = to]
  BY <1>1 DEF RequestMoves
<1>3. request \in [Requests -> States] /\ started \in 0 .. Last /\ Last \in {5, 8}
  BY DEF HookInv, Typed, Last
<1>4. Typed'
  BY <1>2, <1>3 DEF HookInv, Typed, process, queues, workers, Last
<1>5. PhaseOfHooks' /\ QueuesPrepared' /\ PoolFollowsHooks'
  BY <1>2 DEF HookInv, PhaseOfHooks, QueuesPrepared, QueuesReady, PoolFollowsHooks, process, queues, Last
<1>6. WorkersFollowHooks'
  BY <1>2 DEF HookInv, WorkersFollowHooks, workers, process, Running, Place, Last
<1>7. ASSUME NEW o \in Requests
      PROVE  /\ request'[o] # "none" => verifier /\ pool # "new" /\ phase # "starting"
             /\ request'[o] = "failed" => gaveUp
             /\ request'[o] \in {"active", "inTx", "ran"} /\ started < Last => gaveUp
  <2>1. CASE o # r
    BY <1>2, <1>3, <2>1 DEF HookInv, ServerFollowsHooks, Unfinished
  <2>2. CASE o = r
    <3>1. request'[o] = to
      BY <1>2, <1>3, <2>2
    <3>2. CASE from = "none"
      <4>1. to = "active" /\ started = Last /\ verifier /\ pool = "open"
        BY <1>1, <3>2 DEF HookInv, ServerFollowsHooks
      <4>2. phase # "starting" /\ ~ (started < Last)
        BY <1>3, <4>1 DEF HookInv, PhaseOfHooks
      <4>3. QED BY <3>1, <4>1, <4>2
    <3>3. CASE from # "none"
      <4>1. /\ verifier /\ pool # "new" /\ phase # "starting"
            /\ started < Last => gaveUp
        BY <1>1, <3>3 DEF HookInv, ServerFollowsHooks, Unfinished
      <4>2. to = "failed" => started < Last
        BY <1>1, <1>3 DEF HookInv, PoolFollowsHooks
      <4>3. QED BY <3>1, <4>1, <4>2
    <3>4. QED BY <3>2, <3>3
  <2>3. QED BY <2>1, <2>2
<1>8. ServerFollowsHooks'
  <2>1. /\ started' = started /\ Last' = Last /\ phase' = phase /\ pool' = pool
        /\ verifier' = verifier /\ listening' = listening /\ gaveUp' = gaveUp
    BY <1>2 DEF process, Last
  <2>2. started >= Last - 1 => verifier
    BY DEF HookInv, ServerFollowsHooks
  <2>3. listening => started = Last /\ verifier /\ pool = "open"
    BY DEF HookInv, ServerFollowsHooks
  <2>4. QED BY <1>7, <2>1, <2>2, <2>3 DEF ServerFollowsHooks, Unfinished
<1>9. QED BY <1>4, <1>5, <1>6, <1>8 DEF HookInv

(* A restart begins as the first start did, with the queues as they were left. *)
LEMMA RestartKeeps ==
    ASSUME HookInv, Restart
    PROVE  HookInv'
<1>1. /\ config' \in [workers: BOOLEAN, create: BOOLEAN, patient: BOOLEAN]
      /\ phase' = "starting" /\ started' = 0 /\ prepared' = 0 /\ pool' = "new" /\ listening' = FALSE
      /\ found' = FALSE /\ queue' = queue
      /\ worker' = [g \in AllGoroutines |-> "off"] /\ request' = [r \in Requests |-> "none"]
  BY LifecycleAssumption DEF Restart, NewProcess
<1>2. Typed'
  BY <1>1 DEF HookInv, Typed, Last
<1>3. PhaseOfHooks' /\ QueuesPrepared' /\ PoolFollowsHooks'
  BY <1>1 DEF PhaseOfHooks, QueuesPrepared, PoolFollowsHooks, Last
<1>4. WorkersFollowHooks'
  BY <1>1 DEF WorkersFollowHooks, Running, AllGoroutines
<1>5. ServerFollowsHooks'
  <2>1. ~ (started' >= Last' - 1) /\ ~ listening'
    BY <1>1 DEF Last
  <2>2. QED BY <1>1, <2>1 DEF ServerFollowsHooks, Unfinished
<1>6. QED BY <1>2, <1>3, <1>4, <1>5 DEF HookInv

(* Every step of the application keeps the hook invariant. *)
LEMMA HooksKept == HookInv /\ [Next]_vars => HookInv'
<1> SUFFICES ASSUME HookInv, [Next]_vars PROVE HookInv'
  OBVIOUS
<1>1. CASE Signal
  BY <1>1, PhaseStep DEF Signal
<1>2. CASE DeadlinePasses \/ Crash
  <2>1. phase = "starting" => started < Last
    BY DEF HookInv, PhaseOfHooks
  <2>2. QED
    BY <1>2, <2>1, PhaseStep DEF DeadlinePasses, Crash, Exit
<1>3. CASE UNCHANGED vars
  <2>1. Typed'
    BY <1>3 DEF HookInv, Typed, vars, process, queues, server, workers, Last
  <2>2. PhaseOfHooks' /\ QueuesPrepared' /\ PoolFollowsHooks'
    BY <1>3 DEF HookInv, PhaseOfHooks, QueuesPrepared, QueuesReady, PoolFollowsHooks, vars, process, queues, Last
  <2>3. WorkersFollowHooks'
    BY <1>3 DEF HookInv, WorkersFollowHooks, vars, workers, process, Running, Place, Last
  <2>4. ServerFollowsHooks'
    BY <1>3 DEF HookInv, ServerFollowsHooks, vars, process, server, Unfinished, Last
  <2>5. QED BY <2>1, <2>2, <2>3, <2>4 DEF HookInv
<1>4. CASE Next
  BY <1>1, <1>2, <1>4, StartStepKeeps, StopStepKeeps, WorkerKeeps, RequestKeeps, RestartKeeps DEF Next
<1>5. QED BY <1>3, <1>4

-----------------------------------------------------------------------------
(* Part 5: the theorems.  What an instance has up follows the hooks that started,
   through every start, stop, rollback, deadline, crash and restart. *)
THEOREM HooksInvariant == Spec => []HookInv
<1>1. QED
  BY HooksAtInit, HooksKept, PTL DEF Spec

(* No worker runs before the queues and the pool are ready, and no request is accepted
   before the verifier is set: the constructors' order implies it, whatever fails. *)
THEOREM NothingUsedTooEarly == Spec => []ReadyBeforeUse
<1>1. HookInv => ReadyBeforeUse
  <2>1. SUFFICES ASSUME HookInv PROVE ReadyBeforeUse
    OBVIOUS
  <2>2. ASSUME NEW g \in AllGoroutines, Running(g) PROVE QueuesReady /\ pool # "new"
    <3>1. PICK h \in WorkerHooks : g \in Goroutines(h)
      BY DEF AllGoroutines
    <3>2. started >= Place(h) /\ Place(h) \in {4, 5, 6} /\ started \in 0 .. Last /\ Last \in {5, 8}
      BY <2>1, <2>2, <3>1 DEF HookInv, WorkersFollowHooks, Typed, WorkerHooks, Place, Last
    <3>3. started >= 2 /\ started >= 3
      BY <3>2
    <3>4. QED BY <2>1, <3>3 DEF HookInv, QueuesPrepared, PoolFollowsHooks
  <2>3. \A r \in Requests : request[r] # "none" => verifier /\ pool # "new"
    BY <2>1 DEF HookInv, ServerFollowsHooks
  <2>4. QED BY <2>2, <2>3 DEF ReadyBeforeUse
<1>2. QED
  BY <1>1, HooksInvariant, PTL

(* While an instance that manages its queues receives messages, both main queues have
   their redrive policy, whatever earlier starts left behind. *)
THEOREM RedriveIsSet == Spec => []RedriveBeforeReceive
<1>1. HookInv => RedriveBeforeReceive
  <2>1. SUFFICES ASSUME HookInv, NEW g \in AllGoroutines, Running(g), config.create, NEW q \in Redriven
                 PROVE  queue[q] = "redrive"
    BY DEF RedriveBeforeReceive
  <2>2. PICK h \in WorkerHooks : g \in Goroutines(h)
    BY DEF AllGoroutines
  <2>3. started >= Place(h) /\ Place(h) \in {4, 5, 6} /\ started \in 0 .. Last /\ Last \in {5, 8}
    BY <2>1, <2>2 DEF HookInv, WorkersFollowHooks, Typed, WorkerHooks, Place, Last
  <2>4. prepared = 4
    <3>1. started >= 2
      BY <2>3
    <3>2. QED BY <2>1, <3>1, OrderOfQueues DEF HookInv, QueuesPrepared, QueuesReady
  <2>5. q = QueueOrder[2] \/ q = QueueOrder[4]
    BY DEF Redriven, QueueOrder
  <2>6. QED BY <2>1, <2>4, <2>5 DEF HookInv, QueuesPrepared
<1>2. QED
  BY <1>1, HooksInvariant, PTL

(* The pool closes after its users: the hooks of the workers and of the server are down
   by then, and each waited for what it had running or gave up on it. *)
THEOREM PoolClosesLast == Spec => []PoolOutlivesUsers
<1>1. HookInv => PoolOutlivesUsers
  <2>1. SUFFICES ASSUME HookInv, pool \in {"closing", "closed"}
                 PROVE  /\ \A g \in AllGoroutines : ~ Running(g)
                        /\ gaveUp \/ \A r \in Requests : ~ Unfinished(r) /\ request[r] # "failed"
    BY DEF PoolOutlivesUsers
  <2>2. started \in 0 .. 3 /\ Last \in {5, 8}
    BY <2>1 DEF HookInv, Typed, PoolFollowsHooks, Last
  <2>3. ASSUME NEW g \in AllGoroutines, Running(g) PROVE FALSE
    <3>1. PICK h \in WorkerHooks : g \in Goroutines(h)
      BY DEF AllGoroutines
    <3>2. started >= Place(h) /\ Place(h) \in {4, 5, 6}
      BY <2>1, <2>3, <3>1 DEF HookInv, WorkersFollowHooks, WorkerHooks, Place
    <3>3. QED BY <2>2, <3>2
  <2>4. started < Last
    BY <2>2
  <2>5. QED BY <2>1, <2>3, <2>4 DEF HookInv, ServerFollowsHooks
<1>2. QED
  BY <1>1, HooksInvariant, PTL
=============================================================================
