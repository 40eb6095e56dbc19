-------------------------- MODULE SqsConsumerProofs --------------------------
(***************************************************************************)
(* Proofs about SqsConsumer for any messages, groups, number of consumers  *)
(* and number of receives: what is deleted was handled, and no heartbeat   *)
(* takes back a retry delay.                                               *)
(***************************************************************************)
EXTENDS SqsConsumer, TLAPS

Holds(c, m) == consumer[c].msg = m /\ ~ At(c, "receive") /\ ~ At(c, "down")

(* A working consumer has a message. *)
WorkersHold ==
    \A c \in Consumers :
        ~ At(c, "receive") /\ ~ At(c, "down") => consumer[c].msg \in Messages

(* A receipt was given out, and to one consumer. *)
ReceiptsUnique ==
    /\ \A c \in Consumers, m \in Messages : Holds(c, m) => consumer[c].receipt <= msg[m].receives
    /\ \A c, d \in Consumers, m \in Messages :
          Holds(c, m) /\ Holds(d, m) /\ consumer[c].receipt = consumer[d].receipt => c = d

(* A heartbeat belongs to the message its consumer is processing. *)
HeartbeatsMatch ==
    \A c \in Consumers : heartbeat[c] # NoHeartbeat =>
        /\ At(c, "process")
        /\ heartbeat[c].msg = consumer[c].msg
        /\ heartbeat[c].receipt = consumer[c].receipt

(* The latest delivery of a message has no retry delay before its handling ends. *)
NoDelayYet ==
    \A c \in Consumers, m \in Messages :
        /\ Holds(c, m) /\ (At(c, "handle") \/ At(c, "process"))
        /\ consumer[c].receipt = msg[m].receives
        => msg[m].timer # "retry"

(* A consumer about to delete a message has committed it. *)
DeletesHandled ==
    \A c \in Consumers : At(c, "delete") => consumer[c].msg \in Range(handled)

IInv ==
    /\ TypeOK /\ WorkersHold /\ ReceiptsUnique /\ HeartbeatsMatch /\ NoDelayYet
    /\ DeletesHandled /\ DeletedHandled

-----------------------------------------------------------------------------
(* Appending to a sequence adds one element to its range. *)
LEMMA AppendRange ==
    ASSUME NEW s \in Seq(Messages), NEW m \in Messages
    PROVE  /\ Append(s, m) \in Seq(Messages)
           /\ Range(Append(s, m)) = Range(s) \cup {m}
<1>1. Append(s, m) \in Seq(Messages)
  OBVIOUS
<1>2. /\ DOMAIN Append(s, m) = 1 .. Len(s) + 1
      /\ DOMAIN s = 1 .. Len(s)
      /\ Append(s, m)[Len(s) + 1] = m
      /\ \A i \in 1 .. Len(s) : Append(s, m)[i] = s[i]
      /\ Len(s) \in Nat
  OBVIOUS
<1>3. QED
  BY <1>1, <1>2 DEF Range

(* A commit adds the message to those handled, and removes none. *)
LEMMA CommitRange ==
    ASSUME TypeOK, NEW m \in Messages, Commit(m)
    PROVE  /\ handled' \in Seq(Messages)
           /\ Range(handled') = Range(handled) \cup {m}
  BY AppendRange DEF Commit, TypeOK

(* A consumer that keeps its message and receipt, or lets go of them. *)
Keeps(c, new) ==
    \/ new.step \in {"receive", "down"}
    \/ /\ new.msg = consumer[c].msg /\ new.receipt = consumer[c].receipt
       /\ ~ At(c, "receive") /\ ~ At(c, "down")

LEMMA StepHolds ==
    ASSUME TypeOK, NEW c \in Consumers, NEW new \in Consumer, Step(c, new), Keeps(c, new)
    PROVE  /\ consumer' \in [Consumers -> Consumer]
           /\ consumer'[c] = new
           /\ \A d \in Consumers : d # c => consumer'[d] = consumer[d]
           /\ \A d \in Consumers, m \in Messages :
                 Holds(d, m)' => Holds(d, m) /\ consumer'[d].receipt = consumer[d].receipt
<1>1. /\ consumer' \in [Consumers -> Consumer]
      /\ consumer'[c] = new
      /\ \A d \in Consumers : d # c => consumer'[d] = consumer[d]
  BY DEF TypeOK, Step
<1>2. ASSUME NEW d \in Consumers, NEW m \in Messages, Holds(d, m)'
      PROVE  Holds(d, m) /\ consumer'[d].receipt = consumer[d].receipt
  <2>1. CASE d = c
    BY <1>1, <1>2, <2>1 DEF Holds, Keeps, At
  <2>2. CASE d # c
    BY <1>1, <1>2, <2>2 DEF Holds, At
  <2>3. QED
    BY <2>1, <2>2
<1>3. QED
  BY <1>1, <1>2

(* Receipts stay unique while no message is received. *)
LEMMA ReceiptsKept ==
    ASSUME TypeOK, WorkersHold, ReceiptsUnique,
           NEW c \in Consumers, NEW new \in Consumer, Step(c, new), Keeps(c, new),
           \A m \in Messages : msg'[m].receives = msg[m].receives
    PROVE  WorkersHold' /\ ReceiptsUnique'
<1>1. WorkersHold'
  BY StepHolds DEF WorkersHold, Keeps, At
<1>2. ReceiptsUnique'
  BY StepHolds DEF ReceiptsUnique
<1>3. QED
  BY <1>1, <1>2

-----------------------------------------------------------------------------
(* A step of consumer c, receiving apart: it keeps its message or lets go of it, sets
   a retry delay only by the latest receipt and deletes only what is handled. *)
LEMMA ConsumerStep ==
    ASSUME IInv, NEW c \in Consumers, NEW new \in Consumer, NEW h \in HeartbeatState,
           Step(c, new), Keeps(c, new),
           new.step \in {"handle", "process"} => At(c, "handle") \/ At(c, "process"),
           new.step = "delete" => new.msg \in Range(handled'),
           heartbeat' = [heartbeat EXCEPT ![c] = h],
           h # NoHeartbeat =>
              new.step = "process" /\ h.msg = new.msg /\ h.receipt = new.receipt,
           sent' = sent, handled' \in Seq(Messages), Range(handled) \subseteq Range(handled'),
           msg' \in [Messages -> Message],
           \A m \in Messages :
              /\ msg'[m].receives = msg[m].receives
              /\ msg'[m].timer = "retry" /\ msg[m].timer # "retry" =>
                    At(c, "retry") /\ Holds(c, m) /\ consumer[c].receipt = msg[m].receives
              /\ msg'[m].place = "deleted" => msg[m].place = "deleted" \/ m \in Range(handled)
    PROVE  IInv'
<1> USE DEF IInv
<1>1. TypeOK'
  BY StepHolds DEF TypeOK
<1>2. WorkersHold' /\ ReceiptsUnique'
  BY ReceiptsKept
<1>3. HeartbeatsMatch'
  <2> SUFFICES ASSUME NEW d \in Consumers, heartbeat'[d] # NoHeartbeat
               PROVE  /\ At(d, "process")'
                      /\ heartbeat'[d].msg = consumer'[d].msg
                      /\ heartbeat'[d].receipt = consumer'[d].receipt
    BY DEF HeartbeatsMatch
  <2>1. CASE d = c
    <3>1. heartbeat'[d] = h /\ consumer'[d] = new
      BY <2>1, StepHolds DEF TypeOK
    <3>2. QED
      BY <3>1 DEF At
  <2>2. CASE d # c
    <3>1. heartbeat'[d] = heartbeat[d] /\ consumer'[d] = consumer[d]
      BY <2>2, StepHolds DEF TypeOK
    <3>2. QED
      BY <3>1 DEF At, HeartbeatsMatch
  <2>3. QED
    BY <2>1, <2>2
<1>4. NoDelayYet'
  <2> SUFFICES ASSUME NEW d \in Consumers, NEW m \in Messages,
                      Holds(d, m)', (At(d, "handle") \/ At(d, "process"))',
                      consumer'[d].receipt = msg'[m].receives,
                      msg'[m].timer = "retry"
               PROVE  FALSE
    BY DEF NoDelayYet
  <2>1. /\ Holds(d, m) /\ consumer[d].receipt = msg[m].receives
        /\ At(d, "handle") \/ At(d, "process")
    BY StepHolds DEF At
  <2>2. msg[m].timer # "retry"
    BY <2>1 DEF NoDelayYet
  <2>3. At(c, "retry") /\ Holds(c, m) /\ consumer[c].receipt = msg[m].receives
    BY <2>2
  <2>4. c = d
    BY <2>1, <2>3 DEF ReceiptsUnique
  <2>5. QED
    BY <2>1, <2>3, <2>4 DEF At
<1>5. DeletesHandled'
  <2> SUFFICES ASSUME NEW d \in Consumers, At(d, "delete")'
               PROVE  consumer'[d].msg \in Range(handled')
    BY DEF DeletesHandled
  <2>1. CASE d = c
    BY <2>1, StepHolds DEF At
  <2>2. CASE d # c
    BY <2>2, StepHolds DEF At, DeletesHandled
  <2>3. QED
    BY <2>1, <2>2
<1>6. DeletedHandled'
  BY DEF DeletedHandled
<1>7. QED
  BY <1>1, <1>2, <1>3, <1>4, <1>5, <1>6

(* The message, the receipt and the heartbeat of a consumer in a step of its work. *)
LEMMA Working ==
    ASSUME IInv, NEW c \in Consumers, ~ At(c, "receive"), ~ At(c, "down")
    PROVE  /\ consumer[c] \in Consumer /\ consumer[c].msg \in Messages
           /\ Holds(c, consumer[c].msg)
           /\ ~ At(c, "process") => heartbeat[c] = NoHeartbeat
           /\ heartbeat = [heartbeat EXCEPT ![c] = heartbeat[c]]
           /\ heartbeat[c] \in HeartbeatState
  BY DEF IInv, TypeOK, WorkersHold, Holds, HeartbeatsMatch

LEMMA NoHeartbeatType == NoHeartbeat \in HeartbeatState
  BY QueueAssumption DEF NoHeartbeat, HeartbeatState

LEMMA FreeStates ==
    /\ Idle \in Consumer /\ Idle.step = "receive"
    /\ Down \in Consumer /\ Down.step = "down"
<1>1. Idle \in Consumer /\ Idle.step = "receive"
  BY QueueAssumption DEF Idle, Consumer
<1>2. \A r \in Consumer : /\ [r EXCEPT !.step = "down"] \in Consumer
                          /\ [r EXCEPT !.step = "down"].step = "down"
  BY DEF Consumer
<1>3. QED
  BY <1>1, <1>2 DEF Down

(* The envelope is rejected or accepted before anything is tried. *)
LEMMA EnvelopeStep ==
    ASSUME IInv, NEW c \in Consumers, RejectEnvelope(c) \/ AcceptEnvelope(c)
    PROVE  IInv'
<1>1. /\ At(c, "handle") /\ ~ At(c, "receive") /\ ~ At(c, "down")
      /\ sent' = sent /\ msg' = msg /\ handled' = handled
      /\ msg \in [Messages -> Message] /\ handled \in Seq(Messages)
  BY DEF RejectEnvelope, AcceptEnvelope, At, IInv, TypeOK
<1>2. CASE RejectEnvelope(c)
  <2> DEFINE new == [consumer[c] EXCEPT !.step = "retry", !.permanent = TRUE]
  <2>1. /\ new \in Consumer /\ new.step = "retry"
        /\ new.msg = consumer[c].msg /\ new.receipt = consumer[c].receipt
    BY <1>1, Working DEF Consumer
  <2>2. Step(c, new) /\ Keeps(c, new)
    BY <1>1, <1>2, <2>1 DEF RejectEnvelope, Keeps
  <2>3. heartbeat' = [heartbeat EXCEPT ![c] = NoHeartbeat]
    BY <1>1, <1>2, Working DEF RejectEnvelope, At
  <2> HIDE DEF new
  <2>4. QED
    BY <1>1, <2>1, <2>2, <2>3, NoHeartbeatType, ConsumerStep
<1>3. CASE AcceptEnvelope(c)
  <2> DEFINE new == [consumer[c] EXCEPT !.step = "process"]
             kept == [msg |-> consumer[c].msg, receipt |-> consumer[c].receipt, late |-> FALSE]
             h == IF consumer[c].stopping THEN NoHeartbeat ELSE kept
  <2>1. /\ new \in Consumer /\ new.step = "process"
        /\ new.msg = consumer[c].msg /\ new.receipt = consumer[c].receipt
    BY <1>1, Working DEF Consumer
  <2>2. Step(c, new) /\ Keeps(c, new)
    BY <1>1, <1>3, <2>1 DEF AcceptEnvelope, Keeps
  <2>3. heartbeat' = [heartbeat EXCEPT ![c] = h]
    BY <1>3 DEF AcceptEnvelope
  <2>4. kept \in HeartbeatState
    BY <1>1, Working DEF Consumer, HeartbeatState
  <2>5. h \in HeartbeatState
    BY <2>4, NoHeartbeatType
  <2>6. h # NoHeartbeat => h.msg = new.msg /\ h.receipt = new.receipt
    BY <2>1
  <2> HIDE DEF new, h
  <2>7. QED
    BY <1>1, <2>1, <2>2, <2>3, <2>5, <2>6, ConsumerStep
<1>4. QED
  BY <1>2, <1>3

(* The use case ends: it commits, or it fails and perhaps committed all the same. *)
LEMMA ProcessStep ==
    ASSUME IInv, NEW c \in Consumers, ProcessSucceeds(c) \/ ProcessFails(c)
    PROVE  IInv'
<1> DEFINE m == consumer[c].msg
<1>1. At(c, "process") /\ sent' = sent /\ msg' = msg
  BY DEF ProcessSucceeds, ProcessFails, FailWith
<1>2. /\ ~ At(c, "receive") /\ ~ At(c, "down")
      /\ msg \in [Messages -> Message] /\ handled \in Seq(Messages)
  BY <1>1 DEF At, IInv, TypeOK
<1>3. consumer[c] \in Consumer /\ m \in Messages
  BY <1>2, Working
<1>4. heartbeat' = [heartbeat EXCEPT ![c] = NoHeartbeat]
  BY DEF ProcessSucceeds, ProcessFails, FailWith, StopHeartbeat, Stopped
<1>5. /\ handled' = handled \/ Commit(m)
      /\ ProcessSucceeds(c) => Commit(m)
  BY DEF ProcessSucceeds, ProcessFails
<1>6. Commit(m) => m \in Range(handled')
  BY <1>3, CommitRange DEF IInv
<1>7. handled' \in Seq(Messages) /\ Range(handled) \subseteq Range(handled')
  BY <1>2, <1>3, <1>5, CommitRange DEF IInv
<1>8. CASE ProcessSucceeds(c)
  <2> DEFINE new == [consumer[c] EXCEPT !.step = "delete"]
  <2>1. /\ new \in Consumer /\ new.step = "delete"
        /\ new.msg = m /\ new.receipt = consumer[c].receipt
    BY <1>3 DEF Consumer
  <2>2. Step(c, new) /\ Keeps(c, new)
    BY <1>2, <1>8, <2>1 DEF ProcessSucceeds, Keeps
  <2> HIDE DEF new
  <2>3. QED
    BY <1>1, <1>2, <1>4, <1>5, <1>6, <1>7, <1>8, <2>1, <2>2, NoHeartbeatType, ConsumerStep
<1>9. CASE ProcessFails(c)
  <2>1. PICK permanent \in BOOLEAN : FailWith(c, permanent)
    BY <1>9 DEF ProcessFails
  <2> DEFINE new == [consumer[c] EXCEPT !.step = AfterError(consumer[c], permanent),
                                        !.permanent = permanent]
  <2>2. /\ new \in Consumer /\ new.step \in {"release", "retry"}
        /\ new.msg = m /\ new.receipt = consumer[c].receipt
    BY <1>3 DEF Consumer, AfterError
  <2>3. Step(c, new) /\ Keeps(c, new)
    BY <1>2, <2>1, <2>2 DEF FailWith, Keeps
  <2> HIDE DEF new
  <2>4. QED
    BY <1>1, <1>2, <1>4, <1>7, <2>2, <2>3, NoHeartbeatType, ConsumerStep
<1>10. QED
  BY <1>8, <1>9

(* The consumer polls again with nothing in its hands, or is down. *)
LEMMA AgainLetsGo ==
    ASSUME NEW c \in Consumers, Again(c)
    PROVE  \E new \in Consumer : Step(c, new) /\ new.step \in {"receive", "down"}
  BY FreeStates DEF Again

(* Deletion, retry and release reach the queue with the latest receipt only. *)
LEMMA AnswerStep ==
    ASSUME IInv, NEW c \in Consumers, DeleteMessage(c) \/ ScheduleRetry(c) \/ ReleaseMessage(c)
    PROVE  IInv'
<1> DEFINE m == consumer[c].msg
<1>1. /\ At(c, "delete") \/ At(c, "retry") \/ At(c, "release")
      /\ Again(c) /\ sent' = sent /\ handled' = handled /\ heartbeat' = heartbeat
  BY DEF DeleteMessage, ScheduleRetry, ReleaseMessage
<1>2. /\ ~ At(c, "receive") /\ ~ At(c, "down") /\ ~ At(c, "process")
      /\ msg \in [Messages -> Message] /\ handled \in Seq(Messages)
  BY <1>1 DEF At, IInv, TypeOK
<1>3. /\ m \in Messages /\ Holds(c, m)
      /\ heartbeat' = [heartbeat EXCEPT ![c] = NoHeartbeat]
  BY <1>1, <1>2, Working
<1>4. PICK new \in Consumer : Step(c, new) /\ new.step \in {"receive", "down"}
  BY <1>1, AgainLetsGo
<1>5. Keeps(c, new)
  BY <1>4 DEF Keeps
<1>6. msg[m] \in Message
  BY <1>2, <1>3
<1>7. At(c, "delete") => m \in Range(handled)
  BY DEF IInv, DeletesHandled
<1> DEFINE Answer(r) ==
             /\ r.receives = msg[m].receives
             /\ r.timer = "retry" /\ msg[m].timer # "retry" =>
                   At(c, "retry") /\ consumer[c].receipt = msg[m].receives
             /\ r.place = "deleted" => msg[m].place = "deleted" \/ m \in Range(handled)
<1>8. PICK r \in Message : msg' = [msg EXCEPT ![m] = r] /\ Answer(r)
  <2>1. CASE msg' = msg
    <3>1. msg' = [msg EXCEPT ![m] = msg[m]] /\ Answer(msg[m])
      BY <1>2, <2>1
    <3>2. QED
      BY <1>6, <3>1
  <2>2. ASSUME NEW timer \in {"visible", "retry"},
               msg' = [msg EXCEPT ![m] = [msg[m] EXCEPT !.timer = timer]],
               timer = "retry" => At(c, "retry") /\ consumer[c].receipt = msg[m].receives
        PROVE  \E r \in Message : msg' = [msg EXCEPT ![m] = r] /\ Answer(r)
    <3> DEFINE r == [msg[m] EXCEPT !.timer = timer]
    <3>1. r \in Message /\ Answer(r)
      BY <1>6, <2>2 DEF Message
    <3> HIDE DEF Answer
    <3>2. QED
      BY <2>2, <3>1
  <2>3. CASE /\ At(c, "delete")
             /\ msg' = [msg EXCEPT ![m] = [msg[m] EXCEPT !.place = "deleted", !.timer = "visible"]]
    <3> DEFINE r == [msg[m] EXCEPT !.place = "deleted", !.timer = "visible"]
    <3>1. r \in Message /\ Answer(r)
      BY <1>6, <1>7, <2>3 DEF Message
    <3> HIDE DEF Answer
    <3>2. QED
      BY <2>3, <3>1
  <2>4. QED
    BY <2>1, <2>2, <2>3 DEF DeleteMessage, ScheduleRetry, ReleaseMessage, WithReceipt, RetryTimer
<1>9. msg' \in [Messages -> Message] /\ msg'[m] = r /\ \A n \in Messages : n # m => msg'[n] = msg[n]
  BY <1>2, <1>3, <1>8
<1>10. ASSUME NEW n \in Messages
       PROVE  /\ msg'[n].receives = msg[n].receives
              /\ msg'[n].timer = "retry" /\ msg[n].timer # "retry" =>
                    At(c, "retry") /\ Holds(c, n) /\ consumer[c].receipt = msg[n].receives
              /\ msg'[n].place = "deleted" => msg[n].place = "deleted" \/ n \in Range(handled)
  <2>1. CASE n = m
    BY <1>3, <1>8, <1>9, <2>1
  <2>2. CASE n # m
    BY <1>9, <2>2
  <2>3. QED
    BY <2>1, <2>2
<1> HIDE DEF m
<1>11. QED
  BY <1>1, <1>2, <1>3, <1>4, <1>5, <1>9, <1>10, NoHeartbeatType, ConsumerStep

(* A shutdown, a crash and a restart: the consumer keeps its message or lets go of it. *)
LEMMA LifeStep ==
    ASSUME IInv, NEW c \in Consumers, Shutdown(c) \/ Crash(c) \/ Restart(c)
    PROVE  IInv'
<1>1. /\ sent' = sent /\ handled' = handled /\ msg' = msg
      /\ consumer[c] \in Consumer /\ heartbeat \in [Consumers -> HeartbeatState]
      /\ msg \in [Messages -> Message] /\ handled \in Seq(Messages)
  BY DEF Shutdown, Crash, Restart, IInv, TypeOK
<1>2. heartbeat' = [heartbeat EXCEPT ![c] = NoHeartbeat]
  <2>1. CASE Restart(c)
    <3>1. heartbeat[c] = NoHeartbeat
      BY <2>1 DEF Restart, At, IInv, HeartbeatsMatch
    <3>2. QED
      BY <1>1, <2>1, <3>1 DEF Restart
  <2>2. QED
    BY <2>1 DEF Shutdown, Crash
<1>3. \E new \in Consumer :
          /\ Step(c, new) /\ Keeps(c, new)
          /\ \/ new.step \in {"receive", "down"}
             \/ new.step = consumer[c].step /\ new.msg = consumer[c].msg
  <2>1. CASE Step(c, Down) \/ Step(c, Idle)
    <3>1. /\ Keeps(c, Down) /\ Down.step \in {"receive", "down"}
          /\ Keeps(c, Idle) /\ Idle.step \in {"receive", "down"}
      BY FreeStates DEF Keeps
    <3> Down \in Consumer /\ Idle \in Consumer
      BY FreeStates
    <3>2. CASE Step(c, Down)
      <4> WITNESS Down \in Consumer
      <4>1. QED
        BY <3>1, <3>2
    <3>3. CASE Step(c, Idle)
      <4> WITNESS Idle \in Consumer
      <4>1. QED
        BY <3>1, <3>3
    <3>4. QED
      BY <2>1, <3>2, <3>3
  <2>2. CASE Step(c, [consumer[c] EXCEPT !.stopping = TRUE]) /\ Shutdown(c) /\ ~ At(c, "receive")
    <3> DEFINE new == [consumer[c] EXCEPT !.stopping = TRUE]
    <3>1. /\ new \in Consumer /\ new.step = consumer[c].step
          /\ new.msg = consumer[c].msg /\ new.receipt = consumer[c].receipt
      BY <1>1 DEF Consumer
    <3>2. Step(c, new) /\ Keeps(c, new)
      BY <2>2, <3>1 DEF Shutdown, Keeps
    <3> HIDE DEF new
    <3>3. QED
      BY <3>1, <3>2
  <2>3. QED
    BY <2>1, <2>2 DEF Shutdown, Crash, Restart
<1>4. PICK new \in Consumer :
          /\ Step(c, new) /\ Keeps(c, new)
          /\ \/ new.step \in {"receive", "down"}
             \/ new.step = consumer[c].step /\ new.msg = consumer[c].msg
  BY <1>3
<1>5. /\ new.step \in {"handle", "process"} => At(c, "handle") \/ At(c, "process")
      /\ new.step = "delete" => new.msg \in Range(handled')
  BY <1>1, <1>4 DEF At, IInv, DeletesHandled
<1>6. QED
  BY <1>1, <1>2, <1>4, <1>5, NoHeartbeatType, ConsumerStep

-----------------------------------------------------------------------------
(* Setting the timer of a message leaves the rest of the queue as it was. *)
LEMMA TimerSet ==
    ASSUME msg \in [Messages -> Message], NEW m \in Messages,
           NEW timer \in {"visible", "full", "retry"},
           msg' = [msg EXCEPT ![m] = [msg[m] EXCEPT !.timer = timer]]
    PROVE  /\ msg' \in [Messages -> Message]
           /\ msg'[m].timer = timer
           /\ \A n \in Messages : /\ msg'[n].receives = msg[n].receives
                                  /\ msg'[n].place = msg[n].place
                                  /\ n # m => msg'[n].timer = msg[n].timer
<1>1. msg[m] \in Message
  OBVIOUS
<1>2. /\ [msg[m] EXCEPT !.timer = timer] \in Message
      /\ [msg[m] EXCEPT !.timer = timer].timer = timer
      /\ [msg[m] EXCEPT !.timer = timer].receives = msg[m].receives
      /\ [msg[m] EXCEPT !.timer = timer].place = msg[m].place
  BY <1>1 DEF Message
<1>3. /\ msg'[m] = [msg[m] EXCEPT !.timer = timer]
      /\ \A n \in Messages : n # m => msg'[n] = msg[n]
      /\ msg' \in [Messages -> Message]
  BY <1>2
<1>4. QED
  BY <1>2, <1>3

(* The queue's own steps: they give out no receipt and set no delay. *)
LEMMA QueueStep ==
    ASSUME IInv, NEW m \in Messages, NEW malformed \in BOOLEAN,
           Send(m, malformed) \/ Redrive(m) \/ Expire(m)
    PROVE  IInv'
<1>1. /\ consumer' = consumer /\ heartbeat' = heartbeat /\ handled' = handled
      /\ sent' \in Seq(Messages) /\ msg \in [Messages -> Message]
  <2>1. sent \in Seq(Messages) /\ msg \in [Messages -> Message]
    BY DEF IInv, TypeOK
  <2>2. Append(sent, m) \in Seq(Messages)
    BY <2>1
  <2>3. sent' \in {sent, Append(sent, m)}
    BY DEF Send, Redrive, Expire
  <2>4. consumer' = consumer /\ heartbeat' = heartbeat /\ handled' = handled
    BY DEF Send, Redrive, Expire
  <2>5. QED
    BY <2>1, <2>2, <2>3, <2>4
<1>2. /\ msg' \in [Messages -> Message]
      /\ \A n \in Messages :
            /\ msg'[n].receives = msg[n].receives
            /\ msg'[n].timer = "retry" => msg[n].timer = "retry"
            /\ msg'[n].place = "deleted" => msg[n].place = "deleted"
  <2>1. CASE Send(m, malformed)
    <3> DEFINE queued == [msg[m] EXCEPT !.place = "queue", !.malformed = malformed]
    <3>1. msg \in [Messages -> Message] /\ msg[m] \in Message /\ msg' = [msg EXCEPT ![m] = queued]
      BY <1>1, <2>1 DEF Send
    <3>2. queued \in Message /\ queued.receives = msg[m].receives
          /\ queued.timer = msg[m].timer /\ queued.place = "queue"
      BY <2>1, <3>1 DEF Send, Message
    <3> HIDE DEF queued
    <3>3. QED
      BY <3>1, <3>2
  <2>2. CASE Redrive(m)
    BY <1>1, <2>2 DEF Redrive, Message
  <2>3. CASE Expire(m)
    <3>1. msg' = [msg EXCEPT ![m] = [msg[m] EXCEPT !.timer = "visible"]]
      BY <2>3 DEF Expire
    <3>2. QED
      BY <1>1, <3>1, TimerSet
  <2>4. QED
    BY <2>1, <2>2, <2>3
<1>3. TypeOK' /\ WorkersHold' /\ DeletesHandled' /\ HeartbeatsMatch'
  BY <1>1, <1>2 DEF IInv, TypeOK, WorkersHold, DeletesHandled, HeartbeatsMatch, At
<1>4. ReceiptsUnique' /\ NoDelayYet'
  BY <1>1, <1>2 DEF IInv, ReceiptsUnique, NoDelayYet, Holds, At
<1>5. DeletedHandled'
  BY <1>1, <1>2 DEF IInv, DeletedHandled
<1>6. QED
  BY <1>3, <1>4, <1>5 DEF IInv

(* A renewal, or a late one, of the heartbeat: it finds no retry delay to take back. *)
LEMMA RenewalFindsNoDelay ==
    ASSUME IInv, NEW c \in Consumers, Beat(c)
    PROVE  \/ msg' = msg
           \/ /\ heartbeat[c].msg \in Messages
              /\ msg[heartbeat[c].msg].timer # "retry"
              /\ msg' = [msg EXCEPT ![heartbeat[c].msg] =
                            [msg[heartbeat[c].msg] EXCEPT !.timer = "full"]]
<1> DEFINE m == heartbeat[c].msg
<1>1. /\ At(c, "process") /\ m = consumer[c].msg
      /\ heartbeat[c].receipt = consumer[c].receipt
  BY DEF Beat, IInv, HeartbeatsMatch
<1>2. ~ At(c, "receive") /\ ~ At(c, "down")
  BY <1>1 DEF At
<1>3. m \in Messages /\ Holds(c, m)
  BY <1>1, <1>2, Working
<1>4. consumer[c].receipt = msg[m].receives => msg[m].timer # "retry"
  BY <1>1, <1>3 DEF IInv, NoDelayYet
<1>5. QED
  BY <1>1, <1>3, <1>4 DEF Beat, WithReceipt

LEMMA HeartbeatStep ==
    ASSUME IInv, NEW c \in Consumers, Beat(c) \/ BeatLate(c)
    PROVE  IInv'
<1>1. /\ consumer' = consumer /\ sent' = sent /\ handled' = handled
      /\ msg \in [Messages -> Message] /\ heartbeat \in [Consumers -> HeartbeatState]
      /\ heartbeat[c] # NoHeartbeat
  BY DEF Beat, BeatLate, IInv, TypeOK
<1>2. /\ msg' \in [Messages -> Message]
      /\ \A n \in Messages :
            /\ msg'[n].receives = msg[n].receives
            /\ msg'[n].timer = "retry" => msg[n].timer = "retry"
            /\ msg'[n].place = msg[n].place
  <2>1. CASE msg' = msg
    BY <1>1, <2>1
  <2>2. CASE msg' # msg
    <3> DEFINE m == heartbeat[c].msg
    <3>1. /\ m \in Messages /\ msg[m].timer # "retry"
          /\ msg' = [msg EXCEPT ![m] = [msg[m] EXCEPT !.timer = "full"]]
      BY <2>2, RenewalFindsNoDelay DEF BeatLate
    <3> HIDE DEF m
    <3>2. QED
      BY <1>1, <3>1, TimerSet
  <2>3. QED
    BY <2>1, <2>2
<1>3. /\ heartbeat' \in [Consumers -> HeartbeatState]
      /\ \A d \in Consumers : /\ heartbeat'[d].msg = heartbeat[d].msg
                              /\ heartbeat'[d].receipt = heartbeat[d].receipt
                              /\ d # c => heartbeat'[d] = heartbeat[d]
  <2>1. PICK late \in BOOLEAN : heartbeat' = [heartbeat EXCEPT ![c].late = late]
    BY DEF Beat, BeatLate
  <2>2. /\ [heartbeat[c] EXCEPT !.late = late] \in HeartbeatState
        /\ [heartbeat[c] EXCEPT !.late = late].msg = heartbeat[c].msg
        /\ [heartbeat[c] EXCEPT !.late = late].receipt = heartbeat[c].receipt
    BY <1>1 DEF HeartbeatState
  <2>3. QED
    BY <1>1, <2>1, <2>2
<1>4. TypeOK' /\ WorkersHold' /\ DeletesHandled'
  BY <1>1, <1>2, <1>3 DEF IInv, TypeOK, WorkersHold, DeletesHandled, At
<1>5. HeartbeatsMatch'
  BY <1>1, <1>3 DEF IInv, HeartbeatsMatch, At
<1>6. ReceiptsUnique' /\ NoDelayYet'
  BY <1>1, <1>2 DEF IInv, ReceiptsUnique, NoDelayYet, Holds, At
<1>7. DeletedHandled'
  BY <1>1, <1>2 DEF IInv, DeletedHandled
<1>8. QED
  BY <1>4, <1>5, <1>6, <1>7 DEF IInv

(* A receive gives out a receipt that nobody holds, and the full timeout. *)
LEMMA ReceiveStep ==
    ASSUME IInv, NEW c \in Consumers, NEW m \in Messages, Receive(c, m)
    PROVE  IInv'
<1> DEFINE receipt == msg[m].receives + 1
           new == [consumer[c] EXCEPT !.step = "handle", !.msg = m, !.receipt = receipt]
<1>1. /\ sent' = sent /\ handled' = handled /\ heartbeat' = heartbeat
      /\ msg \in [Messages -> Message] /\ consumer \in [Consumers -> Consumer]
      /\ At(c, "receive") /\ msg[m].receives < MaxReceives
      /\ msg[m].receives \in 0 .. MaxReceives /\ MaxReceives \in Nat
  BY QueueAssumption DEF Receive, IInv, TypeOK, Message
<1>2. receipt \in 0 .. MaxReceives
  BY <1>1
<1>3. new \in Consumer /\ new.step = "handle" /\ new.msg = m /\ new.receipt = receipt
  BY <1>1, <1>2 DEF Consumer
<1>4. Step(c, new)
  BY DEF Receive
<1> HIDE DEF new
<1>5. /\ consumer' \in [Consumers -> Consumer] /\ consumer'[c] = new
      /\ \A d \in Consumers : d # c => consumer'[d] = consumer[d]
  BY <1>1, <1>3, <1>4 DEF Step
<1>6. /\ msg' \in [Messages -> Message]
      /\ msg'[m].receives = receipt /\ msg'[m].timer = "full" /\ msg'[m].place = msg[m].place
      /\ \A n \in Messages : n # m => msg'[n] = msg[n]
  BY <1>1, <1>2 DEF Receive, Message
<1>7. TypeOK' /\ DeletedHandled'
  BY <1>1, <1>5, <1>6 DEF IInv, TypeOK, DeletedHandled
<1>8. WorkersHold' /\ DeletesHandled'
  BY <1>1, <1>3, <1>5 DEF IInv, WorkersHold, DeletesHandled, At
<1>9. HeartbeatsMatch'
  BY <1>1, <1>5 DEF IInv, HeartbeatsMatch, At
<1>10. ASSUME NEW d \in Consumers, NEW n \in Messages, Holds(d, n)', d # c
       PROVE  /\ Holds(d, n) /\ consumer'[d] = consumer[d]
              /\ consumer[d].receipt \in Nat /\ consumer[d].receipt <= msg[n].receives
              /\ n = m => consumer'[d].receipt < receipt
  <2>1. Holds(d, n) /\ consumer'[d] = consumer[d]
    BY <1>5, <1>10 DEF Holds, At
  <2>2. consumer[d].receipt \in Nat /\ consumer[d].receipt <= msg[n].receives
    BY <1>1, <2>1 DEF IInv, ReceiptsUnique, Consumer
  <2>3. QED
    BY <1>1, <2>1, <2>2
<1>11. ASSUME NEW n \in Messages, Holds(c, n)'
       PROVE  n = m /\ consumer'[c].receipt = receipt
  BY <1>3, <1>5, <1>11 DEF Holds
<1>12. ReceiptsUnique'
  <2>1. ASSUME NEW d \in Consumers, NEW n \in Messages, Holds(d, n)'
        PROVE  consumer'[d].receipt <= msg'[n].receives
    <3>1. CASE d = c
      BY <1>1, <1>6, <1>11, <2>1, <3>1
    <3>2. CASE d # c
      BY <1>1, <1>6, <1>10, <2>1, <3>2
    <3>3. QED
      BY <3>1, <3>2
  <2>2. ASSUME NEW d \in Consumers, NEW b \in Consumers, NEW n \in Messages,
               Holds(d, n)', Holds(b, n)', consumer'[d].receipt = consumer'[b].receipt, d # b
        PROVE  FALSE
    <3>1. CASE d = c
      BY <1>10, <1>11, <2>2, <3>1
    <3>2. CASE b = c
      BY <1>10, <1>11, <2>2, <3>2
    <3>3. CASE d # c /\ b # c
      BY <1>10, <2>2, <3>3 DEF IInv, ReceiptsUnique
    <3>4. QED
      BY <3>1, <3>2, <3>3
  <2>3. QED
    BY <2>1, <2>2 DEF ReceiptsUnique
<1>13. NoDelayYet'
  <2> SUFFICES ASSUME NEW d \in Consumers, NEW n \in Messages, Holds(d, n)',
                      (At(d, "handle") \/ At(d, "process"))',
                      consumer'[d].receipt = msg'[n].receives
               PROVE  msg'[n].timer # "retry"
    BY DEF NoDelayYet
  <2>1. CASE n = m
    BY <1>6, <2>1
  <2>2. CASE n # m
    <3>1. d # c
      BY <1>11, <2>2
    <3>2. QED
      BY <1>6, <1>10, <2>2, <3>1 DEF IInv, NoDelayYet, At
  <2>3. QED
    BY <2>1, <2>2
<1>14. QED
  BY <1>7, <1>8, <1>9, <1>12, <1>13 DEF IInv

-----------------------------------------------------------------------------
LEMMA InitIInv == Init => IInv
<1> SUFFICES ASSUME Init PROVE IInv
  OBVIOUS
<1>1. 0 \in 0 .. MaxReceives
  BY QueueAssumption
<1>2. TypeOK
  BY <1>1, FreeStates, NoHeartbeatType DEF Init, TypeOK, Message
<1>3. WorkersHold /\ ReceiptsUnique /\ HeartbeatsMatch /\ NoDelayYet /\ DeletesHandled
  BY FreeStates DEF Init, WorkersHold, ReceiptsUnique, HeartbeatsMatch, NoDelayYet,
                    DeletesHandled, Holds, At
<1>4. DeletedHandled
  BY DEF Init, DeletedHandled
<1>5. QED
  BY <1>2, <1>3, <1>4 DEF IInv

LEMMA NextIInv == IInv /\ [Next]_vars => IInv'
<1> SUFFICES ASSUME IInv, [Next]_vars PROVE IInv'
  OBVIOUS
<1>1. CASE UNCHANGED vars
  BY <1>1 DEF vars, IInv, TypeOK, WorkersHold, ReceiptsUnique, HeartbeatsMatch, NoDelayYet,
              DeletesHandled, DeletedHandled, Holds, At
<1>2. ASSUME NEW m \in Messages, NEW malformed \in BOOLEAN, Send(m, malformed) PROVE IInv'
  BY <1>2, QueueStep
<1>3. ASSUME NEW m \in Messages, Redrive(m) \/ Expire(m) PROVE IInv'
  BY <1>3, QueueStep
<1>4. ASSUME NEW c \in Consumers, NEW m \in Messages, Receive(c, m) PROVE IInv'
  BY <1>4, ReceiveStep
<1>5. ASSUME NEW c \in Consumers, Work(c) PROVE IInv'
  BY <1>5, EnvelopeStep, ProcessStep, AnswerStep DEF Work
<1>6. ASSUME NEW c \in Consumers, Beat(c) \/ BeatLate(c) PROVE IInv'
  BY <1>6, HeartbeatStep
<1>7. ASSUME NEW c \in Consumers, Shutdown(c) \/ Crash(c) \/ Restart(c) PROVE IInv'
  BY <1>7, LifeStep
<1>8. QED
  BY <1>1, <1>2, <1>3, <1>4, <1>5, <1>6, <1>7 DEF Next

LEMMA Invariance == Spec => []IInv
  BY InitIInv, NextIInv, PTL DEF Spec

-----------------------------------------------------------------------------
(* The queue, the consumers and their heartbeats stay typed: no receipt exceeds
   MaxReceives, and a handled or sent thing is a message. *)
THEOREM TypeCorrect == Spec => []TypeOK
<1>1. IInv => TypeOK
  BY DEF IInv
<1>2. QED
  BY <1>1, Invariance, PTL

(* handleMessage deletes a message only after Process committed it, whatever the number
   of consumers, of overlapping deliveries, crashes and failed calls. *)
THEOREM DeletedWasHandled == Spec => []DeletedHandled
<1>1. IInv => DeletedHandled
  BY DEF IInv
<1>2. QED
  BY <1>1, Invariance, PTL

(* Once scheduleRetry has set a delay, the message keeps it until it is received again:
   stopHeartbeat has ended every renewal by the latest receipt before. *)
THEOREM DelayStands == Spec => RetryDelayStands
<1> DEFINE Stands == \A m \in Messages :
                        msg[m].timer = "retry" /\ msg'[m].timer = "full"
                            => msg'[m].receives > msg[m].receives
<1>1. ASSUME IInv, [Next]_vars PROVE [Stands]_vars
  <2> SUFFICES ASSUME NEW m \in Messages, msg[m].timer = "retry", msg'[m].timer = "full"
               PROVE  msg'[m].receives > msg[m].receives
    OBVIOUS
  <2>1. msg \in [Messages -> Message] /\ msg[m].receives \in Nat
    BY <1>1, QueueAssumption DEF IInv, TypeOK, Message
  <2>2. CASE msg' = msg
    BY <2>2
  <2>3. ASSUME NEW n \in Messages, NEW malformed \in BOOLEAN,
               Send(n, malformed) \/ Redrive(n) \/ Expire(n)
        PROVE  FALSE
    BY <2>1, <2>3 DEF Send, Redrive, Expire, Message
  <2>4. ASSUME NEW c \in Consumers, NEW n \in Messages, Receive(c, n)
        PROVE  msg'[m].receives > msg[m].receives
    BY <2>1, <2>4 DEF Receive, Message
  <2>5. ASSUME NEW c \in Consumers, Beat(c), msg' # msg PROVE FALSE
    <3> DEFINE n == heartbeat[c].msg
    <3>1. /\ n \in Messages /\ msg[n].timer # "retry"
          /\ msg' = [msg EXCEPT ![n] = [msg[n] EXCEPT !.timer = "full"]]
      BY <1>1, <2>5, RenewalFindsNoDelay
    <3> HIDE DEF n
    <3>2. m # n /\ msg'[m].timer = msg[m].timer
      BY <2>1, <3>1, TimerSet
    <3>3. QED
      BY <3>2
  <2>6. ASSUME NEW c \in Consumers,
               DeleteMessage(c) \/ ScheduleRetry(c) \/ ReleaseMessage(c)
        PROVE  FALSE
    <3> DEFINE n == consumer[c].msg
    <3>1. ~ At(c, "receive") /\ ~ At(c, "down")
      BY <2>6 DEF DeleteMessage, ScheduleRetry, ReleaseMessage, At
    <3>2. n \in Messages
      BY <1>1, <3>1, Working
    <3>3. CASE msg' = msg
      BY <3>3
    <3>4. ASSUME NEW timer \in {"visible", "retry"},
                 msg' = [msg EXCEPT ![n] = [msg[n] EXCEPT !.timer = timer]]
          PROVE  FALSE
      <4> HIDE DEF n
      <4>1. \/ msg'[m].timer = msg[m].timer
            \/ msg'[m].timer = timer
        BY <2>1, <3>2, <3>4, TimerSet
      <4>2. QED
        BY <4>1
    <3>5. CASE msg' = [msg EXCEPT ![n] = [msg[n] EXCEPT !.place = "deleted", !.timer = "visible"]]
      <4>1. CASE m = n
        BY <2>1, <3>2, <3>5, <4>1 DEF Message
      <4>2. CASE m # n
        BY <2>1, <3>2, <3>5, <4>2
      <4>3. QED
        BY <4>1, <4>2
    <3>6. QED
      BY <2>6, <3>3, <3>4, <3>5
         DEF DeleteMessage, ScheduleRetry, ReleaseMessage, WithReceipt, RetryTimer
  <2>7. QED
    BY <1>1, <2>2, <2>3, <2>4, <2>5, <2>6
       DEF Next, Work, vars, RejectEnvelope, AcceptEnvelope, ProcessSucceeds, ProcessFails,
           FailWith, BeatLate, Shutdown, Crash, Restart
<1>2. QED
  BY <1>1, Invariance, PTL DEF Spec, RetryDelayStands

-----------------------------------------------------------------------------
(* The order of a wallet.  A message is one of the queue's from its sending on, only a
   message in the queue is in flight, and whoever has received one knows that those sent
   before it in its group were handled or given up. *)
SentAreQueued == \A m \in Messages : m \in Range(sent) <=> msg[m].place # "producer"

FlightInQueue == \A m \in Messages : msg[m].place # "queue" => ~ InFlight(m)

Settled(d) == d \in Range(handled) \/ msg[d].place = "dlq"

PredecessorsSettled ==
    \A c \in Consumers, m \in Messages : Holds(c, m) =>
        /\ msg[m].place # "producer"
        /\ \A d \in Messages : Group(d) = Group(m) /\ Before(sent, d, m) => Settled(d)

OrderInv == SentAreQueued /\ FlightInQueue /\ PredecessorsSettled

(* What a step may do to the record of a message that was sent before, or never is. *)
Moved(old, new) ==
    \/ new.place = old.place /\ (old.place # "queue" => new.timer = old.timer)
    \/ old.place = "queue" /\ new.place \in {"dlq", "deleted"} /\ new.timer = "visible"

(* A call with a receipt reaches a message in the queue only. *)
LEMMA ReceiptMoves ==
    ASSUME TypeOK, FlightInQueue, NEW n \in Messages, NEW receipt, NEW new \in Message,
           WithReceipt(n, receipt, new),
           new.place = msg[n].place \/ (new.place = "deleted" /\ new.timer = "visible")
    PROVE  \A m \in Messages : Moved(msg[m], msg'[m])
<1>1. msg \in [Messages -> Message]
  BY DEF TypeOK
<1>2. CASE msg' = msg
  BY <1>2 DEF Moved
<1>3. CASE InFlight(n) /\ msg' = [msg EXCEPT ![n] = new]
  <2>1. msg[n].place = "queue"
    BY <1>3 DEF FlightInQueue
  <2>2. \A m \in Messages : msg'[m] = IF m = n THEN new ELSE msg[m]
    BY <1>1, <1>3
  <2>3. QED
    BY <2>1, <2>2 DEF Moved
<1>4. QED
  BY <1>2, <1>3 DEF WithReceipt

(* The consumers' calls have such receipts. *)
LEMMA CallMoves ==
    ASSUME IInv, FlightInQueue, NEW c \in Consumers,
           \/ Beat(c) \/ DeleteMessage(c) \/ ScheduleRetry(c) \/ ReleaseMessage(c)
    PROVE  \A m \in Messages : Moved(msg[m], msg'[m])
<1>1. TypeOK /\ msg \in [Messages -> Message]
  BY DEF IInv, TypeOK
<1>2. ASSUME NEW n \in Messages, NEW timer \in {"visible", "full", "retry"}
      PROVE  LET new == [msg[n] EXCEPT !.timer = timer]
             IN  new \in Message /\ new.place = msg[n].place
  BY <1>1 DEF Message
<1>3. ASSUME NEW n \in Messages
      PROVE  LET new == [msg[n] EXCEPT !.place = "deleted", !.timer = "visible"]
             IN  new \in Message /\ new.place = "deleted" /\ new.timer = "visible"
  BY <1>1 DEF Message
<1>4. CASE Beat(c)
  <2>1. heartbeat[c] # NoHeartbeat
    BY <1>4 DEF Beat
  <2>2. heartbeat[c].msg \in Messages
    BY <2>1, Working DEF IInv, HeartbeatsMatch, At
  <2>3. QED
    BY <1>1, <1>2, <1>4, <2>2, ReceiptMoves DEF Beat
<1>5. CASE DeleteMessage(c) \/ ScheduleRetry(c) \/ ReleaseMessage(c)
  <2> DEFINE n == consumer[c].msg
  <2>1. n \in Messages
    BY <1>5, Working DEF DeleteMessage, ScheduleRetry, ReleaseMessage, At
  <2>2. \E new \in Message :
           /\ WithReceipt(n, consumer[c].receipt, new)
           /\ new.place = msg[n].place \/ (new.place = "deleted" /\ new.timer = "visible")
    BY <1>2, <1>3, <1>5, <2>1 DEF DeleteMessage, ScheduleRetry, ReleaseMessage, RetryTimer
  <2> HIDE DEF n
  <2>3. QED
    BY <1>1, <2>1, <2>2, ReceiptMoves
<1>6. QED
  BY <1>4, <1>5

(* A step sends one message, or moves those of the queue. *)
LEMMA QueueMoves ==
    ASSUME IInv, FlightInQueue, [Next]_vars
    PROVE  \/ sent' = sent /\ \A m \in Messages : Moved(msg[m], msg'[m])
           \/ \E x \in Messages :
                 /\ msg[x].place = "producer" /\ sent' = Append(sent, x)
                 /\ msg'[x].place = "queue" /\ \A m \in Messages \ {x} : msg'[m] = msg[m]
                 /\ UNCHANGED <<consumer, handled>>
<1> DEFINE Settles == sent' = sent /\ \A m \in Messages : Moved(msg[m], msg'[m])
<1>1. msg \in [Messages -> Message]
  BY DEF IInv, TypeOK
<1>2. ASSUME NEW x \in Messages, NEW malformed \in BOOLEAN, Send(x, malformed)
      PROVE  /\ msg[x].place = "producer" /\ sent' = Append(sent, x)
             /\ msg'[x].place = "queue" /\ \A m \in Messages \ {x} : msg'[m] = msg[m]
             /\ UNCHANGED <<consumer, handled>>
  BY <1>1, <1>2 DEF Send, Message
<1>3. ASSUME NEW n \in Messages, Redrive(n) PROVE Settles
  <2>1. msg[n].place = "queue" /\ msg[n].timer = "visible"
    BY <1>3 DEF Redrive, Deliverable, InFlight
  <2>2. QED
    BY <1>1, <1>3, <2>1 DEF Redrive, Moved, Message
<1>4. ASSUME NEW n \in Messages, Expire(n) PROVE Settles
  <2>1. msg[n].place = "queue"
    BY <1>4 DEF Expire, FlightInQueue
  <2>2. QED
    BY <1>1, <1>4, <2>1 DEF Expire, Moved, Message
<1>5. ASSUME NEW c \in Consumers, NEW n \in Messages, Receive(c, n) PROVE Settles
  <2>1. msg[n].place = "queue"
    BY <1>5 DEF Receive, Deliverable
  <2>2. QED
    BY <1>1, <1>5, <2>1 DEF Receive, Moved, Message
<1>6. ASSUME NEW c \in Consumers,
             \/ Beat(c) \/ DeleteMessage(c) \/ ScheduleRetry(c) \/ ReleaseMessage(c)
      PROVE  Settles
  BY <1>6, CallMoves DEF Beat, DeleteMessage, ScheduleRetry, ReleaseMessage
<1>7. ASSUME sent' = sent, msg' = msg PROVE Settles
  BY <1>7 DEF Moved
<1> HIDE DEF Settles
<1>8. ASSUME NEW c \in Consumers,
             \/ RejectEnvelope(c) \/ AcceptEnvelope(c) \/ ProcessSucceeds(c) \/ ProcessFails(c)
             \/ BeatLate(c) \/ Shutdown(c) \/ Crash(c) \/ Restart(c)
      PROVE  Settles
  BY <1>7, <1>8 DEF RejectEnvelope, AcceptEnvelope, ProcessSucceeds, ProcessFails, FailWith,
                    BeatLate, Shutdown, Crash, Restart
<1>9. ASSUME UNCHANGED vars PROVE Settles
  BY <1>7, <1>9 DEF vars
<1>10. QED
  BY <1>2, <1>3, <1>4, <1>5, <1>6, <1>8, <1>9 DEF Next, Work, Settles

(* Who has a message had it before the step, or has just received it. *)
LEMMA HoldsFrom ==
    ASSUME IInv, [Next]_vars, NEW c \in Consumers, NEW m \in Messages, Holds(c, m)'
    PROVE  Holds(c, m) \/ (Deliverable(m) /\ sent' = sent /\ handled' = handled)
<1>1. consumer \in [Consumers -> Consumer]
  BY DEF IInv, TypeOK
<1>2. ASSUME consumer'[c] = consumer[c] PROVE Holds(c, m)
  BY <1>2 DEF Holds, At
<1>3. ASSUME NEW d \in Consumers, NEW new, Step(d, new), Keeps(d, new) PROVE Holds(c, m)
  BY <1>1, <1>3, <1>2 DEF Step, Keeps, Holds, At
<1>4. ASSUME NEW d \in Consumers, NEW n \in Messages, Receive(d, n)
      PROVE  Holds(c, m) \/ (Deliverable(m) /\ sent' = sent /\ handled' = handled)
  <2>1. CASE d = c
    BY <1>1, <1>4, <2>1 DEF Receive, Step, Holds, Consumer
  <2>2. CASE d # c
    BY <1>1, <1>2, <1>4, <2>2 DEF Receive, Step
  <2>3. QED
    BY <2>1, <2>2
<1>5. ASSUME NEW d \in Consumers, ~ At(d, "receive"), ~ At(d, "down"), NEW step,
             \/ Step(d, [consumer[d] EXCEPT !.step = step])
             \/ \E permanent : Step(d, [consumer[d] EXCEPT !.step = step, !.permanent = permanent])
             \/ Step(d, [consumer[d] EXCEPT !.stopping = TRUE])
      PROVE  Holds(c, m)
  BY <1>1, <1>3, <1>5 DEF Keeps, Consumer
<1>6. ASSUME NEW d \in Consumers, Step(d, Idle) \/ Step(d, Down) PROVE Holds(c, m)
  BY <1>3, <1>6 DEF Keeps, Idle, Down
<1>7. ASSUME NEW d \in Consumers, Work(d) PROVE Holds(c, m)
  BY <1>5, <1>6, <1>7 DEF Work, At, Again, RejectEnvelope, AcceptEnvelope, ProcessSucceeds,
     ProcessFails, FailWith, DeleteMessage, ScheduleRetry, ReleaseMessage
<1>8. ASSUME NEW d \in Consumers, Shutdown(d) \/ Crash(d) \/ Restart(d) PROVE Holds(c, m)
  BY <1>5, <1>6, <1>8 DEF At, Shutdown, Crash, Restart
<1>9. ASSUME consumer' = consumer PROVE Holds(c, m)
  BY <1>2, <1>9
<1>10. QED
  BY <1>4, <1>7, <1>8, <1>9 DEF Next, vars, Send, Redrive, Expire, Beat, BeatLate

(* A message is handled first while a consumer has it, and stays handled. *)
LEMMA HandledFrom ==
    ASSUME IInv, [Next]_vars
    PROVE  /\ Range(handled) \subseteq Range(handled')
           /\ \A m \in Messages : m \in Range(handled') =>
                 m \in Range(handled) \/ \E c \in Consumers : Holds(c, m)
<1>1. CASE handled' = handled
  BY <1>1
<1>2. ASSUME NEW c \in Consumers, At(c, "process"), Commit(consumer[c].msg)
      PROVE  /\ Range(handled') = Range(handled) \cup {consumer[c].msg}
             /\ Holds(c, consumer[c].msg)
  <2>1. consumer[c].msg \in Messages
    BY <1>2, Working DEF At
  <2>2. QED
    BY <1>2, <2>1, CommitRange DEF IInv, Holds, At
<1>3. handled' = handled \/ \E c \in Consumers : At(c, "process") /\ Commit(consumer[c].msg)
  BY DEF Next, Work, vars, Send, Redrive, Expire, Receive, Beat, BeatLate, Shutdown, Crash,
         Restart, RejectEnvelope, AcceptEnvelope, ProcessSucceeds, ProcessFails, FailWith,
         DeleteMessage, ScheduleRetry, ReleaseMessage
<1>4. QED
  BY <1>1, <1>2, <1>3

(* A message sent last is before none. *)
LEMMA SentLast ==
    ASSUME sent \in Seq(Messages), NEW x \in Messages, NEW d \in Messages, NEW m \in Messages,
           m # x, Before(Append(sent, x), d, m)
    PROVE  Before(sent, d, m)
<1> DEFINE s == Append(sent, x)
<1>1. PICK i \in DOMAIN s, j \in DOMAIN s : i < j /\ s[i] = d /\ s[j] = m
  BY DEF Before
<1>2. /\ DOMAIN s = 1 .. Len(sent) + 1 /\ DOMAIN sent = 1 .. Len(sent) /\ Len(sent) \in Nat
      /\ s[Len(sent) + 1] = x /\ \A k \in 1 .. Len(sent) : s[k] = sent[k]
  OBVIOUS
<1> HIDE DEF s
<1>3. j # Len(sent) + 1
  BY <1>1, <1>2
<1>4. i \in 1 .. Len(sent) /\ j \in 1 .. Len(sent)
  BY <1>1, <1>2, <1>3
<1>5. QED
  BY <1>1, <1>2, <1>4 DEF Before

LEMMA InitOrder == Init => OrderInv
  BY FreeStates DEF Init, OrderInv, SentAreQueued, FlightInQueue, PredecessorsSettled, Holds, At,
     InFlight, Range

(* The queue gives out the oldest of a group, so what it has given out has nothing
   unsettled before it; and what was settled stays so. *)
LEMMA NextOrder ==
    ASSUME IInv, OrderInv, [Next]_vars
    PROVE  OrderInv'
<1>1. /\ sent \in Seq(Messages) /\ msg \in [Messages -> Message]
      /\ SentAreQueued /\ FlightInQueue /\ PredecessorsSettled
  BY DEF IInv, TypeOK, OrderInv
<1>2. ASSUME NEW x \in Messages, msg[x].place = "producer", sent' = Append(sent, x),
             msg'[x].place = "queue", \A m \in Messages \ {x} : msg'[m] = msg[m],
             UNCHANGED <<consumer, handled>>
      PROVE  OrderInv'
  <2>1. Range(sent') = Range(sent) \cup {x}
    BY <1>1, <1>2, AppendRange
  <2>2. SentAreQueued'
    BY <1>1, <1>2, <2>1 DEF SentAreQueued
  <2>3. FlightInQueue'
    BY <1>1, <1>2 DEF FlightInQueue, InFlight
  <2>4. ASSUME NEW c \in Consumers, NEW m \in Messages, Holds(c, m)'
        PROVE  /\ msg'[m].place # "producer"
               /\ \A d \in Messages :
                     Group(d) = Group(m) /\ Before(sent', d, m) => Settled(d)'
    <3>1. Holds(c, m)
      BY <1>2, <2>4 DEF Holds, At
    <3>2. msg[m].place # "producer" /\ m # x
      BY <1>1, <1>2, <3>1 DEF PredecessorsSettled
    <3>3. ASSUME NEW d \in Messages, Group(d) = Group(m), Before(sent', d, m)
          PROVE  Settled(d)'
      <4>1. Settled(d)
        BY <1>1, <1>2, <3>1, <3>2, <3>3, SentLast DEF PredecessorsSettled
      <4>2. QED
        BY <1>2, <4>1 DEF Settled
    <3>4. QED
      BY <1>2, <3>2, <3>3
  <2>5. QED
    BY <2>2, <2>3, <2>4 DEF OrderInv, PredecessorsSettled
<1>3. ASSUME sent' = sent, \A m \in Messages : Moved(msg[m], msg'[m])
      PROVE  OrderInv'
  <2>1. \A m \in Messages : /\ msg'[m].place = "producer" <=> msg[m].place = "producer"
                            /\ msg[m].place = "dlq" => msg'[m].place = "dlq"
    BY <1>3 DEF Moved
  <2>2. SentAreQueued'
    BY <1>1, <1>3, <2>1 DEF SentAreQueued
  <2>3. FlightInQueue'
    BY <1>1, <1>3 DEF FlightInQueue, InFlight, Moved
  <2>4. \A d \in Messages : Settled(d) => Settled(d)'
    BY <2>1, HandledFrom DEF Settled
  <2>5. ASSUME NEW c \in Consumers, NEW m \in Messages, Holds(c, m)'
        PROVE  /\ msg'[m].place # "producer"
               /\ \A d \in Messages :
                     Group(d) = Group(m) /\ Before(sent', d, m) => Settled(d)'
    <3>1. CASE Holds(c, m)
      BY <1>1, <1>3, <2>1, <2>4, <3>1 DEF PredecessorsSettled
    <3>2. CASE Deliverable(m)
      <4>1. ASSUME NEW d \in Messages, Group(d) = Group(m), Before(sent, d, m)
            PROVE  Settled(d)
        <5>1. msg[d].place \notin {"queue", "producer"}
          BY <1>1, <3>2, <4>1 DEF Deliverable, SentAreQueued, Before, Range
        <5>2. msg[d].place \in {"dlq", "deleted"}
          BY <1>1, <5>1 DEF Message
        <5>3. QED
          BY <5>2 DEF Settled, IInv, DeletedHandled
      <4>2. QED
        BY <1>3, <2>1, <2>4, <3>2, <4>1 DEF Deliverable
    <3>3. QED
      BY <2>5, <3>1, <3>2, HoldsFrom
  <2>6. QED
    BY <2>2, <2>3, <2>5 DEF OrderInv, PredecessorsSettled
<1>4. QED
  BY <1>1, <1>2, <1>3, QueueMoves

(* So both hold of every reachable state. *)
LEMMA OrderInvariance == Spec => []OrderInv
<1>1. IInv /\ OrderInv /\ [Next]_vars => OrderInv'
  BY NextOrder
<1>2. QED
  BY <1>1, InitOrder, Invariance, PTL DEF Spec

(* The messages of a wallet take effect in the order sent, except those given up to the
   DLQ: when one is first handled, each one before it in its group is handled or in the
   DLQ, whatever was received twice, expired or answered late. *)
THEOREM WalletsInOrder == Spec => OrderPerWallet
<1> DEFINE InOrder == \A d, m \in Messages :
              /\ Group(d) = Group(m) /\ Before(sent, d, m)
              /\ m \notin Range(handled) /\ m \in Range(handled')
              => d \in Range(handled) \/ msg[d].place = "dlq"
<1>1. IInv /\ OrderInv /\ [Next]_vars => [InOrder]_vars
  BY HandledFrom DEF OrderInv, PredecessorsSettled, Settled
<1>2. QED
  BY <1>1, OrderInvariance, Invariance, PTL DEF Spec, OrderPerWallet
=============================================================================
