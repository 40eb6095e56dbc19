----------------------------- MODULE WagerIntake -----------------------------
(***************************************************************************)
(* Wagers from the queue to the ledger: the consumers of SqsConsumer       *)
(* calling the use cases of WagerLedger, beside HTTP requests for the same *)
(* transactions and the reference worker.                                  *)
(*                                                                         *)
(* What SqsConsumer leaves open, whether handling a message commits or is  *)
(* refused for good, is decided here by the database.  Delivery is at      *)
(* least once and the redelivery after a commit is a replay; the           *)
(* properties below relate the queue and the database.                     *)
(***************************************************************************)
EXTENDS WagerDomain, SequencesExt

CONSTANTS
    SqsMessages,   \* messages as SQS knows them
    EnvelopeIds,   \* messageIds of their envelopes: identity for the inbox
    Envelopes,     \* what producers send: [id: EnvelopeIds, cmd: Command]
    Plans,         \* SqsMessages -> Envelopes: what each message carries
    Group(_),      \* MessageGroupId
    HttpCommands,  \* commands sent by HTTP
    Openings,
    Consumers,
    MaxReceives

ASSUME IntakeAssumption ==
    /\ Envelopes \subseteq [id: EnvelopeIds, cmd: Command]
    /\ Plans \subseteq [SqsMessages -> Envelopes]
    /\ HttpCommands \subseteq Command
    /\ Openings \subseteq [wallet: WalletIds, account: Accounts, money: Minor]
    /\ MaxReceives \in Nat \ {0}
    /\ None \notin SqsMessages \cup EnvelopeIds \cup {e.cmd : e \in Envelopes}

VARIABLES
    envelope,                                  \* the plan of this behaviour
    sent, msg, consumer, heartbeat, handled,   \* SqsConsumer
    wallets, rows, ledger, walletEvents, wagerEvents, inbox   \* WagerLedger

queue == <<sent, msg, consumer, heartbeat, handled>>
database == <<wallets, rows, ledger, walletEvents, wagerEvents, inbox>>
ivars == <<envelope, queue, database>>

C == INSTANCE SqsConsumer WITH Messages <- SqsMessages
L == INSTANCE WagerLedger WITH Messages <- EnvelopeIds,
                               Commands <- HttpCommands \cup {e.cmd : e \in Envelopes}

IInit ==
    /\ envelope \in Plans
    /\ C!Init /\ L!Init

-----------------------------------------------------------------------------
(* Process of the message in a consumer's hands commits: as a new transaction, as
   a replay, or with an inbox row that was completed before. *)
Commit(m) ==
    LET e == envelope[m]
    IN  \/ L!Accept(e.cmd, e.id)
        \/ L!Replay(e.cmd, e.id)
        \/ inbox[e.id] = e.cmd /\ UNCHANGED database

RefuseCompleted(m) ==   \* faulty: a completed inbox row is a conflict
    inbox[envelope[m].id] # None

(* Process refuses it with one of the errors the consumer takes as permanent:
   ErrInboxPayloadConflict, ErrIdempotencyPayloadConflict,
   ErrExternalTransactionConflict, ErrInvalidTransaction. *)
Refused(m) ==
    LET e == envelope[m]
        c == e.cmd
        sameKey == {id \in TxIds : rows[id].cmd.key = c.key}
    IN  \/ inbox[e.id] \notin {None, c}
        \/ /\ inbox[e.id] = None
           /\ \/ sameKey # {} /\ \A id \in sameKey : ~ L!SamePayload(id, c)
              \/ sameKey = {} /\ ~ L!ExternalIdIsFree(c)
              \/ sameKey = {} /\ L!Exists(c.wallet) /\ ~ ValidCommand(c)

Succeed(c) ==
    /\ C!ProcessSucceeds(c)
    /\ Commit(consumer[c].msg)

Refuse(c) ==
    /\ C!FailWith(c, TRUE)
    /\ Refused(consumer[c].msg)
    /\ UNCHANGED <<handled, database>>

(* The wallet does not exist yet, a credit would overflow, or the database or the
   network failed: the transaction was rolled back. *)
FailForNow(c) ==
    /\ C!FailWith(c, FALSE)
    /\ UNCHANGED <<handled, database>>

(* The transaction committed and its answer was lost. *)
LoseAnswer(c) ==
    /\ C!FailWith(c, FALSE)
    /\ C!Commit(consumer[c].msg)
    /\ Commit(consumer[c].msg)

(* Every other step of the queue, of a consumer or of its process. *)
Deliver ==
    /\ \/ \E m \in SqsMessages : C!Send(m, FALSE) \/ C!Redrive(m) \/ C!Expire(m)
       \/ \E c \in Consumers, m \in SqsMessages : C!Receive(c, m)
       \/ \E c \in Consumers :
             \/ C!AcceptEnvelope(c) \/ C!Beat(c) \/ C!BeatLate(c)
             \/ C!DeleteMessage(c) \/ C!ScheduleRetry(c) \/ C!ReleaseMessage(c)
             \/ C!Shutdown(c) \/ C!Crash(c) \/ C!Restart(c)
    /\ UNCHANGED database

INext ==
    /\ \/ Deliver
       \/ \E c \in Consumers : Succeed(c) \/ Refuse(c) \/ FailForNow(c) \/ LoseAnswer(c)
       \/ UNCHANGED queue /\
          (\/ \E o \in Openings : L!CreateWallet(o.wallet, o.account, o.money)
           \/ \E c \in HttpCommands : L!Accept(c, None)
           \/ \E id \in ExternalIds : L!BackoffElapses(id) \/ L!ResolvePendingReference(id)
                                      \/ L!RecordPendingReferenceFailure(id))
    /\ UNCHANGED envelope

ISpec == IInit /\ [][INext]_ivars

-----------------------------------------------------------------------------
(* The consumers and their queue do what SqsConsumer says, which leaves open whether
   the database accepts a message: what was handled once is never refused for good. *)
ConsumerSpec == C!Spec

(* A message leaves the queue by deletion only when its inbox row is completed with its
   payload and its transaction is stored; and one that was handled stays recognisable
   wherever it goes, also when its deletion failed on the last receive and it is
   found in the DLQ (consumer.go:254, "delete after durable handling"). *)
HandledIsDurable ==
    \A m \in SqsMessages :
        msg[m].place = "deleted" \/ m \in Range(handled) =>
            /\ inbox[envelope[m].id] = envelope[m].cmd
            /\ \E id \in TxIds : rows[id].cmd = envelope[m].cmd

(* All messages with one envelope, a second publication and a redelivery after a lost
   answer included, and HTTP requests for the same command have one effect together:
   one entry if the transaction moves money and none otherwise. *)
OneEffect ==
    \A m \in SqsMessages :
        LET c == envelope[m].cmd
            entries == {i \in DOMAIN ledger[c.wallet] : ledger[c.wallet][i].tx = c.ext}
        IN  rows[c.ext].cmd = c =>
                Cardinality(entries) = IF L!MovementOf(rows[c.ext]) = "NONE" THEN 0 ELSE 1

(* What Process refuses for good it would refuse at every later delivery: giving such a
   message up without waiting (consumer.go:222, visibility 0) loses no effect. *)
RefusalIsFinal ==
    [][\A m \in SqsMessages : Refused(m) => Refused(m)']_ivars

(* A transaction sent behind its reference, in the group of their wallet, waits for it when
   it is handled only if the reference was given up to the DLQ or waits itself, whatever is
   delayed, redelivered, sent by HTTP too or handled by two consumers at once
   (ARCHITECTURE.md:107). *)
NoNeedlessWait ==
    [][\A d, m \in SqsMessages :
          LET c == envelope[m].cmd
              r == envelope[d].cmd
          IN  /\ Group(d) = Group(m) /\ C!Before(sent, d, m)
              /\ c.ref = r.ext /\ c.wallet = r.wallet
              /\ m \notin Range(handled) /\ m \in Range(handled')
              /\ ~ L!Pending(c.ext) /\ L!Pending(c.ext)'
              => msg[d].place = "dlq" \/ L!Pending(c.ref)]_ivars
=============================================================================
