----------------------------- MODULE SqsConsumer -----------------------------
(***************************************************************************)
(* The consumers of wager-transactions.fifo: receive a message under a     *)
(* visibility timeout, keep it invisible by a heartbeat while WagerService *)
(* handles it, and delete it, schedule its retry or release it.            *)
(*                                                                         *)
(* WagerLedger and WagerConcurrency say what handling a message does; here *)
(* it commits, is refused for good or fails for now, and `handled` keeps   *)
(* the order of the first commits.  WagerIntake composes the two and shows *)
(* which of these happens when.  The queue is modelled from the way the    *)
(* consumers use it: a message group (the wallet) delivers one message at  *)
(* a time, in the order sent; a receipt is good until the message becomes  *)
(* visible again; a message received MaxReceives times goes to the DLQ.    *)
(***************************************************************************)
EXTENDS Integers, SequencesExt

CONSTANTS
    Messages,     \* SQS messages
    Group(_),     \* MessageGroupId, the wallet of a message
    Consumers,    \* goroutines that run consume
    MaxReceives,  \* SQS_MAX_RECEIVES and maxReceiveCount of the redrive policy
    None

ASSUME QueueAssumption ==
    /\ MaxReceives \in Nat \ {0}
    /\ None \notin Messages

VARIABLES
    sent,      \* the messages in the order they were sent
    msg,       \* the queue's record of each message
    consumer,  \* what each consumer is doing
    heartbeat, \* the message each heartbeat keeps invisible
    handled    \* the messages whose use case has committed, in that order

vars == <<sent, msg, consumer, heartbeat, handled>>

\* A message is in flight for the full timeout or for a retry delay.  Its n-th
\* receive carries the n-th receipt handle.  A malformed body has no valid
\* envelope or money.
Message == [place: {"producer", "queue", "dlq", "deleted"}, receives: 0 .. MaxReceives,
            timer: {"visible", "full", "retry"}, malformed: BOOLEAN]
Consumer == [step: {"receive", "handle", "process", "delete", "retry", "release", "down"},
             msg: Messages \cup {None}, receipt: 0 .. MaxReceives,
             permanent: BOOLEAN, stopping: BOOLEAN]
HeartbeatState == [msg: Messages \cup {None}, receipt: 0 .. MaxReceives, late: BOOLEAN]

Idle == [step |-> "receive", msg |-> None, receipt |-> 0,
         permanent |-> FALSE, stopping |-> FALSE]
Down == [Idle EXCEPT !.step = "down"]
NoHeartbeat == [msg |-> None, receipt |-> 0, late |-> FALSE]

(* Fields of the queue and of the consumers. *)
TypeOK ==
    /\ sent \in Seq(Messages) /\ handled \in Seq(Messages)
    /\ msg \in [Messages -> Message]
    /\ consumer \in [Consumers -> Consumer]
    /\ heartbeat \in [Consumers -> HeartbeatState]

Init ==
    /\ sent = <<>> /\ handled = <<>>
    /\ msg = [m \in Messages |-> [place |-> "producer", receives |-> 0,
                               timer |-> "visible", malformed |-> FALSE]]
    /\ consumer = [c \in Consumers |-> Idle]
    /\ heartbeat = [c \in Consumers |-> NoHeartbeat]

-----------------------------------------------------------------------------
Before(s, d, m) == \E i, j \in DOMAIN s : i < j /\ s[i] = d /\ s[j] = m

InFlight(m) == msg[m].timer # "visible"

(* The queue delivers the oldest message of a group, while none is in flight. *)
Deliverable(m) ==
    /\ msg[m].place = "queue"
    /\ \A d \in Messages :
          Group(d) = Group(m) /\ msg[d].place = "queue" => ~ InFlight(d) /\ ~ Before(sent, d, m)

Send(m, malformed) ==
    /\ msg[m].place = "producer"
    /\ msg' = [msg EXCEPT ![m].place = "queue", ![m].malformed = malformed]
    /\ sent' = Append(sent, m)
    /\ UNCHANGED <<consumer, heartbeat, handled>>

Redrive(m) ==
    /\ Deliverable(m) /\ msg[m].receives = MaxReceives
    /\ msg' = [msg EXCEPT ![m].place = "dlq"]
    /\ UNCHANGED <<sent, consumer, heartbeat, handled>>

(* The heartbeat of a consumer keeps its message invisible, unless it is late. *)
KeptBy(c, m) == heartbeat[c] = [msg |-> m, receipt |-> msg[m].receives, late |-> FALSE]

Expire(m) ==
    /\ InFlight(m) /\ \A c \in Consumers : ~ KeptBy(c, m)
    /\ msg' = [msg EXCEPT ![m].timer = "visible"]
    /\ UNCHANGED <<sent, consumer, heartbeat, handled>>

-----------------------------------------------------------------------------
At(c, step) == consumer[c].step = step

Step(c, new) == consumer' = [consumer EXCEPT ![c] = new]

(* A call with a receipt changes the queue while that is the last one given out and
   has not expired.  It may fail, and a lost answer hides its effect. *)
WithReceipt(m, receipt, new) ==
    \/ UNCHANGED msg
    \/ /\ InFlight(m) /\ receipt = msg[m].receives
       /\ msg' = [msg EXCEPT ![m] = new]

Receive(c, m) ==
    /\ At(c, "receive") /\ ~ consumer[c].stopping
    /\ Deliverable(m) /\ msg[m].receives < MaxReceives
    /\ msg' = [msg EXCEPT ![m].receives = @ + 1, ![m].timer = "full"]
    /\ Step(c, [consumer[c] EXCEPT !.step = "handle", !.msg = m,
                                   !.receipt = msg[m].receives + 1])
    /\ UNCHANGED <<sent, heartbeat, handled>>

(* The envelope and its money are parsed before the heartbeat starts. *)
RejectEnvelope(c) ==
    /\ At(c, "handle") /\ msg[consumer[c].msg].malformed
    /\ Step(c, [consumer[c] EXCEPT !.step = "retry", !.permanent = TRUE])
    /\ UNCHANGED <<sent, msg, heartbeat, handled>>

AcceptEnvelope(c) ==
    LET p == consumer[c]
    IN  /\ At(c, "handle") /\ ~ msg[p.msg].malformed
        /\ Step(c, [p EXCEPT !.step = "process"])
        /\ heartbeat' = [heartbeat EXCEPT ![c] =
                            IF p.stopping THEN NoHeartbeat
                            ELSE [msg |-> p.msg, receipt |-> p.receipt, late |-> FALSE]]
        /\ UNCHANGED <<sent, msg, handled>>

(* maintainVisibility: half a timeout later the message is kept for another one,
   or the call fails, or the process stalls. *)
Beat(c) ==
    LET h == heartbeat[c]
    IN  /\ h # NoHeartbeat
        /\ WithReceipt(h.msg, h.receipt, [msg[h.msg] EXCEPT !.timer = "full"])
        /\ heartbeat' = [heartbeat EXCEPT ![c].late = FALSE]
        /\ UNCHANGED <<sent, consumer, handled>>

BeatLate(c) ==
    /\ heartbeat[c] # NoHeartbeat /\ ~ heartbeat[c].late
    /\ heartbeat' = [heartbeat EXCEPT ![c].late = TRUE]
    /\ UNCHANGED <<sent, msg, consumer, handled>>

(* stopHeartbeat returns when its goroutine has ended: no renewal comes after it. *)
LeftRunning(h) == h   \* faulty: stopHeartbeat is not called
Stopped(h) == NoHeartbeat

StopHeartbeat(c) == heartbeat' = [heartbeat EXCEPT ![c] = Stopped(@)]

-----------------------------------------------------------------------------
Commit(m) == handled' = IF m \in Range(handled) THEN handled ELSE Append(handled, m)

(* Process committed, or replayed what an earlier delivery committed. *)
ProcessSucceeds(c) ==
    /\ At(c, "process")
    /\ Commit(consumer[c].msg)
    /\ StopHeartbeat(c)
    /\ Step(c, [consumer[c] EXCEPT !.step = "delete"])
    /\ UNCHANGED <<sent, msg>>

(* Process returned an error: for good, or for now, and then what was lost may be
   the answer of a commit that took effect. *)
AcknowledgeRefusal(p, permanent) ==   \* faulty: a refused message is deleted
    IF p.stopping THEN "release" ELSE IF permanent THEN "delete" ELSE "retry"
AcknowledgeLast(p, permanent) ==   \* faulty: the last receive deletes in place of the DLQ
    IF p.stopping THEN "release" ELSE IF p.receipt >= MaxReceives THEN "delete" ELSE "retry"
AfterError(p, permanent) == IF p.stopping THEN "release" ELSE "retry"

FailWith(c, permanent) ==
    LET p == consumer[c]
    IN  /\ At(c, "process")
        /\ StopHeartbeat(c)
        /\ Step(c, [p EXCEPT !.step = AfterError(p, permanent), !.permanent = permanent])
        /\ UNCHANGED <<sent, msg>>

ProcessFails(c) ==
    LET m == consumer[c].msg
    IN  \/ FailWith(c, FALSE) /\ (UNCHANGED handled \/ Commit(m))
        \/ m \notin Range(handled) /\ FailWith(c, TRUE) /\ UNCHANGED handled

(* The consumer polls again, or ends with its process. *)
Again(c) == Step(c, IF consumer[c].stopping THEN Down ELSE Idle)

(* DeleteMessage, which a shutdown during the post-commit delay skips. *)
DeleteMessage(c) ==
    LET p == consumer[c]
    IN  /\ At(c, "delete")
        /\ WithReceipt(p.msg, p.receipt,
                       [msg[p.msg] EXCEPT !.place = "deleted", !.timer = "visible"])
        /\ Again(c)
        /\ UNCHANGED <<sent, heartbeat, handled>>

RetryTimer(p) == IF p.permanent \/ p.receipt >= MaxReceives THEN "visible" ELSE "retry"

ScheduleRetry(c) ==
    LET p == consumer[c]
    IN  /\ At(c, "retry")
        /\ WithReceipt(p.msg, p.receipt, [msg[p.msg] EXCEPT !.timer = RetryTimer(p)])
        /\ Again(c)
        /\ UNCHANGED <<sent, heartbeat, handled>>

ReleaseMessage(c) ==
    LET p == consumer[c]
    IN  /\ At(c, "release")
        /\ WithReceipt(p.msg, p.receipt, [msg[p.msg] EXCEPT !.timer = "visible"])
        /\ Again(c)
        /\ UNCHANGED <<sent, heartbeat, handled>>

-----------------------------------------------------------------------------
(* OnStop cancels the context of the consumer, and of its heartbeat. *)
Shutdown(c) ==
    /\ ~ At(c, "down") /\ ~ consumer[c].stopping
    /\ Step(c, IF At(c, "receive") THEN Down ELSE [consumer[c] EXCEPT !.stopping = TRUE])
    /\ heartbeat' = [heartbeat EXCEPT ![c] = NoHeartbeat]
    /\ UNCHANGED <<sent, msg, handled>>

Crash(c) ==
    /\ ~ At(c, "down")
    /\ Step(c, Down)
    /\ heartbeat' = [heartbeat EXCEPT ![c] = NoHeartbeat]
    /\ UNCHANGED <<sent, msg, handled>>

Restart(c) ==
    /\ At(c, "down")
    /\ Step(c, Idle)
    /\ UNCHANGED <<sent, msg, heartbeat, handled>>

(* What a consumer does next once it has a message. *)
Work(c) ==
    \/ RejectEnvelope(c) \/ AcceptEnvelope(c) \/ ProcessSucceeds(c) \/ ProcessFails(c)
    \/ DeleteMessage(c) \/ ScheduleRetry(c) \/ ReleaseMessage(c)

Next ==
    \/ \E m \in Messages, malformed \in BOOLEAN : Send(m, malformed)
    \/ \E m \in Messages : Redrive(m) \/ Expire(m)
    \/ \E c \in Consumers, m \in Messages : Receive(c, m)
    \/ \E c \in Consumers : Work(c)
    \/ \E c \in Consumers : Beat(c) \/ BeatLate(c)
    \/ \E c \in Consumers : Shutdown(c) \/ Crash(c) \/ Restart(c)

Spec == Init /\ [][Next]_vars

(* A handler ends, a stopped process is started again, timeouts pass, and the queue
   delivers what it can deliver again and again.  No call is assumed to succeed. *)
Fairness ==
    /\ \A c \in Consumers : WF_vars(Work(c)) /\ WF_vars(Restart(c))
    /\ \A m \in Messages :
          /\ WF_vars(Expire(m)) /\ SF_vars(Redrive(m))
          /\ SF_vars(\E c \in Consumers : Receive(c, m))

FairSpec == Spec /\ Fairness

-----------------------------------------------------------------------------
(* A message is deleted only after its use case has committed: refusals, shutdowns,
   lost answers and slow consumers that lost their receipt delete nothing else. *)
DeletedHandled ==
    \A m \in Messages : msg[m].place = "deleted" => m \in Range(handled)

(* The messages of a wallet take effect in the order sent, except those given up to
   the DLQ, although every consumer may be slow, and deliveries overlap. *)
OrderPerWallet ==
    [][\A d, m \in Messages :
          /\ Group(d) = Group(m) /\ Before(sent, d, m)
          /\ m \notin Range(handled) /\ m \in Range(handled')
          => d \in Range(handled) \/ msg[d].place = "dlq"]_vars

(* A retry delay, once set, stands until the message is received again: the heartbeat
   of the failed delivery does not put the full timeout back. *)
RetryDelayStands ==
    [][\A m \in Messages :
          msg[m].timer = "retry" /\ msg'[m].timer = "full"
              => msg'[m].receives > msg[m].receives]_vars

(* Every message sent is deleted or reaches the DLQ: none circulates for ever and none
   blocks its wallet, whatever fails and however often consumers crash. *)
EveryMessageSettles ==
    \A m \in Messages : m \in Range(sent) ~> msg[m].place \in {"deleted", "dlq"}
=============================================================================
