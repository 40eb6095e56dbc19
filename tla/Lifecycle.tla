----------------------------- MODULE Lifecycle -----------------------------
(***************************************************************************)
(* The start and the stop of an instance of the service: the order in      *)
(* which the constructors register their Fx hooks, the start that fails    *)
(* and is rolled back, the stop on a signal with its deadline, and what    *)
(* the hooks leave behind in SQS for the next start.                       *)
(*                                                                         *)
(* Fx calls OnStart in the order of registration and OnStop in the         *)
(* opposite order, for the hooks that started, one after the other, within *)
(* a budget of 15 seconds for each direction.  When the budget is gone,    *)
(* Start or Stop returns at once and the process exits, whatever its       *)
(* goroutines are doing.  The goroutines run between any two steps.        *)
(***************************************************************************)
EXTENDS Naturals, Sequences

CONSTANTS
    Consumers,   \* the goroutines of the SQS consumer
    Requests,    \* the HTTP requests a process may get
    Configs,     \* the configurations a process may start with
    MaxStarts    \* bound: how often the process is started

ASSUME LifecycleAssumption ==
    /\ Configs \subseteq [workers: BOOLEAN, create: BOOLEAN, patient: BOOLEAN]
    /\ Consumers \cap {"outbox", "reference"} = {}   \* each has goroutines of its own

VARIABLES
    config,      \* [workers, create, patient]: WORKERS_ENABLED, SQS_CREATE_QUEUES,
                 \* and whether HTTP_SHUTDOWN_TIMEOUT takes the whole budget of a stop
    phase,       \* "starting", "running", "stopping", "rollback" or "exited"
    cause,       \* why the process exited: "none", "done", "deadline" or "crash"
    starts,      \* how often the process was started
    started,     \* numStarted: the hooks that are started and not yet stopped
    queue,       \* each SQS queue: "missing", "plain" or with its "redrive" policy
    prepared,    \* how many queues prepare is done with
    found,       \* prepare knows the URL of the queue it is working on
    pool,        \* "new", "open", "closing" or "closed"
    verifier,    \* the OIDC verifier is set
    listening,   \* the HTTP server accepts requests
    gaveUp,      \* server.Shutdown returned with requests still running
    cancelled,   \* the workers whose context is cancelled
    worker,      \* each goroutine: "off", "idle", "busy" or "gone"
    request      \* each request: "none", "active", "inTx", "ran", "answered" or "failed"

queues == <<queue, prepared, found>>
server == <<verifier, listening, gaveUp, request>>
workers == <<cancelled, worker>>
process == <<config, phase, cause, starts, started>>
vars == <<process, queues, pool, server, workers>>

WorkerHooks == {"consumer", "outbox", "reference"}

(* The goroutines a worker's hook starts. *)
Goroutines(h) == IF h = "consumer" THEN Consumers ELSE {h}
AllGoroutines == UNION {Goroutines(h) : h \in WorkerHooks}

ServerFirst ==   \* faulty: the server is built before the workers are registered
    <<"tracing", "queues", "pool", "http", "auth">>
    \o (IF config.workers THEN <<"consumer", "outbox", "reference">> ELSE <<>>)

(* The hooks in the order their constructors run: Fx builds the arguments of
   the first Invoke first, then registers the workers, then builds the server. *)
HookOrder ==
    <<"tracing", "queues", "pool">>
    \o (IF config.workers THEN <<"consumer", "outbox", "reference">> ELSE <<>>)
    \o <<"auth", "http">>

(* The queues in the order prepare ensures them: a dead-letter queue before
   the queue whose redrive policy names it. *)
QueueOrder == <<"inputDLQ", "input", "eventDLQ", "event">>
QueueNames == {QueueOrder[i] : i \in 1 .. Len(QueueOrder)}
Redriven == {"input", "event"}
QueuesReady == prepared = Len(QueueOrder)

Unfinished(r) == request[r] \in {"active", "inTx", "ran"}

(* What a new process begins with. *)
NewProcess ==
    [started |-> 0, prepared |-> 0, found |-> FALSE, pool |-> "new", verifier |-> FALSE,
     listening |-> FALSE, gaveUp |-> FALSE, cancelled |-> {},
     worker |-> [g \in AllGoroutines |-> "off"], request |-> [r \in Requests |-> "none"]]

Init ==
    /\ config \in Configs
    /\ phase = "starting" /\ cause = "none" /\ starts = 1
    /\ started = NewProcess.started
    /\ \/ queue = [q \in QueueNames |-> "missing"]
       \/ queue = [q \in QueueNames |-> IF q \in Redriven THEN "redrive" ELSE "plain"]
    /\ prepared = NewProcess.prepared /\ found = NewProcess.found
    /\ pool = NewProcess.pool /\ verifier = NewProcess.verifier
    /\ listening = NewProcess.listening /\ gaveUp = NewProcess.gaveUp
    /\ cancelled = NewProcess.cancelled
    /\ worker = NewProcess.worker /\ request = NewProcess.request

-----------------------------------------------------------------------------
(* Start: the next hook, and the move past it. *)

Starting(h) ==
    /\ phase = "starting" /\ started < Len(HookOrder)
    /\ HookOrder[started + 1] = h

HookStarted ==
    /\ started' = started + 1
    /\ phase' = IF started + 1 = Len(HookOrder) THEN "running" ELSE "starting"
    /\ UNCHANGED <<config, cause, starts>>

StartTracing ==
    /\ Starting("tracing") /\ HookStarted
    /\ UNCHANGED <<queues, pool, server, workers>>

EnsureNewQueue ==   \* faulty: the attributes of a queue that exists are not set again
    /\ Starting("queues") /\ ~ QueuesReady /\ ~ found
    /\ LET q == QueueOrder[prepared + 1]
       IN \/ /\ queue[q] = "missing" /\ config.create
             /\ queue' = [queue EXCEPT ![q] = "plain"]
             /\ found' = TRUE /\ UNCHANGED prepared
          \/ /\ queue[q] # "missing"
             /\ prepared' = prepared + 1 /\ UNCHANGED <<queue, found>>
    /\ UNCHANGED <<process, pool, server, workers>>

(* ensureQueue finds the queue, or creates it when it may. *)
EnsureQueue ==
    /\ Starting("queues") /\ ~ QueuesReady /\ ~ found
    /\ LET q == QueueOrder[prepared + 1]
       IN /\ queue[q] = "missing" => config.create
          /\ queue' = [queue EXCEPT ![q] = IF @ = "missing" THEN "plain" ELSE @]
    /\ found' = TRUE
    /\ UNCHANGED <<prepared, process, pool, server, workers>>

(* ensureQueue sets the attributes of the queue, found or created, when the
   instance manages its queues; then it reads the ARN. *)
SetAttributes ==
    /\ Starting("queues") /\ found
    /\ LET q == QueueOrder[prepared + 1]
       IN queue' = [queue EXCEPT ![q] = IF config.create /\ q \in Redriven
                                        THEN "redrive" ELSE @]
    /\ prepared' = prepared + 1 /\ found' = FALSE
    /\ UNCHANGED <<process, pool, server, workers>>

StartQueues ==
    /\ Starting("queues") /\ QueuesReady /\ HookStarted
    /\ UNCHANGED <<queues, pool, server, workers>>

PingPool ==
    /\ Starting("pool") /\ HookStarted
    /\ pool' = "open"
    /\ UNCHANGED <<queues, server, workers>>

StartWorkers(h) ==
    /\ Starting(h) /\ HookStarted
    /\ worker' = [g \in AllGoroutines |-> IF g \in Goroutines(h) THEN "idle" ELSE worker[g]]
    /\ UNCHANGED <<queues, pool, server, cancelled>>

DiscoverIdentity ==
    /\ Starting("auth") /\ HookStarted
    /\ verifier' = TRUE
    /\ UNCHANGED <<queues, pool, listening, gaveUp, request, workers>>

Listen ==
    /\ Starting("http") /\ HookStarted
    /\ listening' = TRUE
    /\ UNCHANGED <<queues, pool, verifier, gaveUp, request, workers>>

(* A hook that calls out fails, and Fx rolls back the hooks before it. *)
StartFails ==
    /\ \E h \in {"queues", "pool", "auth", "http"} : Starting(h)
    /\ phase' = "rollback"
    /\ UNCHANGED <<config, cause, starts, started, queues, pool, server, workers>>

StartStep ==
    \/ StartTracing \/ EnsureQueue \/ SetAttributes \/ StartQueues \/ PingPool
    \/ \E h \in WorkerHooks : StartWorkers(h)
    \/ DiscoverIdentity \/ Listen \/ StartFails

-----------------------------------------------------------------------------
(* Stop: on a signal, or to roll a failed start back. *)

Signal ==
    /\ phase = "running"
    /\ phase' = "stopping"
    /\ UNCHANGED <<config, cause, starts, started, queues, pool, server, workers>>

Stopping(h) ==
    /\ phase \in {"stopping", "rollback"} /\ started > 0
    /\ HookOrder[started] = h

HookStopped ==
    /\ started' = started - 1
    /\ UNCHANGED <<config, phase, cause, starts>>

(* The queues and the verifier have no OnStop; tracing flushes its spans. *)
StopPassive ==
    /\ \E h \in {"tracing", "queues", "auth"} : Stopping(h)
    /\ HookStopped
    /\ UNCHANGED <<queues, pool, server, workers>>

(* server.Shutdown closes the listener ... *)
StopListening ==
    /\ Stopping("http") /\ listening
    /\ listening' = FALSE
    /\ UNCHANGED <<process, queues, pool, verifier, gaveUp, request, workers>>

(* ... and waits for the requests that run, ... *)
RequestsDrained ==
    /\ Stopping("http") /\ ~ listening
    /\ \A r \in Requests : ~ Unfinished(r)
    /\ HookStopped
    /\ UNCHANGED <<queues, pool, server, workers>>

(* ... unless HTTP_SHUTDOWN_TIMEOUT ends the wait before the budget does. *)
ShutdownTimesOut ==
    /\ Stopping("http") /\ ~ listening /\ ~ config.patient
    /\ \E r \in Requests : Unfinished(r)
    /\ gaveUp' = TRUE
    /\ HookStopped
    /\ UNCHANGED <<queues, pool, verifier, listening, request, workers>>

CancelWorkers(h) ==
    /\ Stopping(h) /\ h \notin cancelled
    /\ cancelled' = cancelled \cup {h}
    /\ UNCHANGED <<process, queues, pool, server, worker>>

CancelOnly(h) ==   \* faulty: OnStop does not wait for the goroutines
    /\ Stopping(h) /\ h \in cancelled
    /\ HookStopped
    /\ UNCHANGED <<queues, pool, server, workers>>

WorkersLeft(h) ==
    /\ Stopping(h) /\ h \in cancelled
    /\ \A g \in Goroutines(h) : worker[g] = "gone"
    /\ HookStopped
    /\ UNCHANGED <<queues, pool, server, workers>>

(* pool.Close hands out no connection any more ... *)
ClosePool ==
    /\ Stopping("pool") /\ pool = "open"
    /\ pool' = "closing"
    /\ UNCHANGED <<process, queues, server, workers>>

(* ... and returns when every connection is back. *)
PoolClosed ==
    /\ Stopping("pool") /\ pool = "closing"
    /\ \A g \in AllGoroutines : worker[g] # "busy"
    /\ \A r \in Requests : request[r] # "inTx"
    /\ pool' = "closed"
    /\ HookStopped
    /\ UNCHANGED <<queues, server, workers>>

Exit(why) ==
    /\ phase' = "exited" /\ cause' = why
    /\ UNCHANGED <<config, starts, started, queues, pool, server, workers>>

(* Stop, or the rollback, is through with every hook, and main returns. *)
Stopped == phase \in {"stopping", "rollback"} /\ started = 0 /\ Exit("done")

StopStep ==
    \/ StopPassive \/ StopListening \/ RequestsDrained \/ ShutdownTimesOut
    \/ \E h \in WorkerHooks : CancelWorkers(h) \/ WorkersLeft(h)
    \/ ClosePool \/ PoolClosed \/ Stopped

(* What a stop may have to wait for. *)
StopWaits ==
    \/ Stopping("http") /\ ~ listening /\ \E r \in Requests : Unfinished(r)
    \/ \E h \in cancelled : Stopping(h) /\ \E g \in Goroutines(h) : worker[g] # "gone"
    \/ Stopping("pool") /\ pool = "closing"
    \/ Stopping("tracing")

(* The budget of the start, or of the stop while it waits, is gone. *)
DeadlinePasses == (phase = "starting" \/ StopWaits) /\ Exit("deadline")

Crash == phase # "exited" /\ Exit("crash")

Restart ==
    /\ phase = "exited" /\ starts < MaxStarts
    /\ config' \in Configs
    /\ phase' = "starting" /\ cause' = "none" /\ starts' = starts + 1
    /\ started' = NewProcess.started
    /\ prepared' = NewProcess.prepared /\ found' = NewProcess.found
    /\ pool' = NewProcess.pool /\ verifier' = NewProcess.verifier
    /\ listening' = NewProcess.listening /\ gaveUp' = NewProcess.gaveUp
    /\ cancelled' = NewProcess.cancelled
    /\ worker' = NewProcess.worker /\ request' = NewProcess.request
    /\ UNCHANGED queue

-----------------------------------------------------------------------------
(* The goroutines of the workers: a round of work holds a connection. *)

Cancelled(g) == \E h \in cancelled : g \in Goroutines(h)

Alive == phase # "exited"

TakeWorkAnyway(g) ==   \* faulty: the loop does not look at its context
    /\ Alive /\ worker[g] = "idle"
    /\ worker' = [worker EXCEPT ![g] = "busy"]
    /\ UNCHANGED <<process, queues, pool, server, cancelled>>

TakeWork(g) ==
    /\ Alive /\ worker[g] = "idle" /\ ~ Cancelled(g)
    /\ worker' = [worker EXCEPT ![g] = "busy"]
    /\ UNCHANGED <<process, queues, pool, server, cancelled>>

FinishWork(g) ==
    /\ Alive /\ worker[g] = "busy"
    /\ worker' = [worker EXCEPT ![g] = "idle"]
    /\ UNCHANGED <<process, queues, pool, server, cancelled>>

LeaveLoop(g) ==
    /\ Alive /\ worker[g] = "idle" /\ Cancelled(g)
    /\ worker' = [worker EXCEPT ![g] = "gone"]
    /\ UNCHANGED <<process, queues, pool, server, cancelled>>

(* The requests: one transaction stands for those of the handler. *)

RequestMoves(r, from, to) ==
    /\ Alive /\ request[r] = from
    /\ request' = [request EXCEPT ![r] = to]
    /\ UNCHANGED <<process, queues, pool, verifier, listening, gaveUp, workers>>

Accept(r) == listening /\ RequestMoves(r, "none", "active")
BeginTx(r) == pool = "open" /\ RequestMoves(r, "active", "inTx")
EndTx(r) == RequestMoves(r, "inTx", "ran")
PoolRefuses(r) == pool \in {"closing", "closed"} /\ RequestMoves(r, "active", "failed")
Answer(r) == \E from \in {"active", "ran"} : RequestMoves(r, from, "answered")

HandlerStep(r) == BeginTx(r) \/ EndTx(r) \/ PoolRefuses(r) \/ Answer(r)

Next ==
    \/ StartStep \/ Signal \/ StopStep
    \/ DeadlinePasses \/ Crash \/ Restart
    \/ \E g \in AllGoroutines : TakeWork(g) \/ FinishWork(g) \/ LeaveLoop(g)
    \/ \E r \in Requests : Accept(r) \/ HandlerStep(r)

(* The hooks run, a round of work ends, a cancelled loop is left, a handler
   returns.  Nothing makes a deadline pass, a signal come or a request time
   out. *)
Fairness ==
    /\ WF_vars(StartStep) /\ WF_vars(StopStep)
    /\ \A g \in AllGoroutines : WF_vars(FinishWork(g)) /\ WF_vars(LeaveLoop(g))
    /\ \A r \in Requests : WF_vars(HandlerStep(r))

Spec == Init /\ [][Next]_vars
FairSpec == Spec /\ Fairness

-----------------------------------------------------------------------------
Running(g) == worker[g] \in {"idle", "busy"}

(* No worker runs before the queue URLs are known and the pool has answered,
   and no request is accepted before the OIDC verifier is set: the
   IDENTITY_UNAVAILABLE of the middleware is never seen.  The order is that of
   the constructors' arguments and is written nowhere. *)
ReadyBeforeUse ==
    /\ \A g \in AllGoroutines : Running(g) => QueuesReady /\ pool # "new"
    /\ \A r \in Requests : request[r] # "none" => verifier /\ pool # "new"

(* When an instance that manages its queues receives messages, both main
   queues exist with their redrive policy, whatever an earlier start that
   failed or crashed in the middle of prepare left behind: a message that
   cannot be handled always reaches the dead-letter queue. *)
RedriveBeforeReceive ==
    \A g \in AllGoroutines :
        Running(g) /\ config.create => \A q \in Redriven : queue[q] = "redrive"

(* pool.Close is called when nothing uses the pool any more: every worker has
   left its loop, and every accepted request has its answer unless
   server.Shutdown gave up on it. *)
PoolOutlivesUsers ==
    pool \in {"closing", "closed"} =>
        /\ \A g \in AllGoroutines : ~ Running(g)
        /\ gaveUp \/ \A r \in Requests : ~ Unfinished(r) /\ request[r] # "failed"

(* A start succeeds or is rolled back, and a stop ends, without the help of
   a deadline: the hooks wait only for what ends by itself. *)
StartAndStopEnd ==
    phase \in {"starting", "stopping", "rollback"} ~> phase \in {"running", "exited"}

(* A stop cancels the workers even when it runs out of its budget.  The code
   does not: server.Shutdown comes first, and by default its timeout is as
   long as the whole budget. *)
StopCancelsWorkers ==
    phase = "exited" /\ cause = "deadline" /\ config.workers
        /\ (\E r \in Requests : request[r] # "none")
    => cancelled # {}

=============================================================================
