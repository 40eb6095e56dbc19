--------------------------- MODULE OutboxPublisher ---------------------------
(***************************************************************************)
(* The outbox workers: every process claims unpublished events with a      *)
(* lease, sends them to the FIFO queue wager-events.fifo and confirms or   *)
(* releases them, any number of processes at once, any of which may crash. *)
(*                                                                         *)
(* The events here are those of one aggregate, a wallet: the position of   *)
(* an event in `committed` is its wallet version, its position in `begun`  *)
(* is its occurred_at, the clock read by its transaction before the lock   *)
(* of the wallet.  WagerLedger says what the events contain.               *)
(*                                                                         *)
(* Sending an event again changes nothing a consumer may rely on, so the   *)
(* queue is the order in which events arrived first; its deduplication     *)
(* window only removes such repetitions.                                   *)
(***************************************************************************)
EXTENDS Integers, FiniteSets, SequencesExt

CONSTANTS
    Events,      \* outbox event ids of one aggregate
    Publishers,  \* outbox workers, one per process
    None,        \* SQL NULL
    BatchSize    \* OUTBOX_BATCH_SIZE

ASSUME OutboxAssumption == None \notin Publishers \cup Events /\ BatchSize \in Nat \ {0}

VARIABLES
    begun,      \* events in the order of occurred_at
    committed,  \* events in commit order
    row,        \* outbox_events: published, owner (locked_by), expired lease, due
    publisher,  \* each worker: the rest of its batch and the event in its hands
    arrived     \* the events of the queue, in the order of their first arrival

vars == <<begun, committed, row, publisher, arrived>>

Row == [published: BOOLEAN, owner: Publishers \cup {None}, expired: BOOLEAN, due: BOOLEAN]
Publisher == [todo: SUBSET Events, event: Events \cup {None},
              step: {"loop", "confirm", "release"}]

NewRow == [published |-> FALSE, owner |-> None, expired |-> FALSE, due |-> TRUE]
AtLoop == [todo |-> {}, event |-> None, step |-> "loop"]

(* Columns and worker states; a published event carries no lock, nor a lease. *)
TypeOK ==
    /\ Range(begun) \subseteq Events /\ Range(committed) \subseteq Range(begun)
    /\ row \in [Events -> Row]
    /\ publisher \in [Publishers -> Publisher]
    /\ Range(arrived) \subseteq Range(committed)
    /\ \A e \in Events : row[e].owner = None => ~ row[e].expired
    /\ \A e \in Events : row[e].published => row[e].owner = None

Init ==
    /\ begun = <<>> /\ committed = <<>> /\ arrived = <<>>
    /\ row = [e \in Events |-> NewRow]
    /\ publisher = [p \in Publishers |-> AtLoop]

-----------------------------------------------------------------------------
(* A use case reads the clock, and commits its event later, in any order. *)
BeginUseCase(e) ==
    /\ e \notin Range(begun)
    /\ begun' = Append(begun, e)
    /\ UNCHANGED <<committed, row, publisher, arrived>>

CommitUseCase(e) ==
    /\ e \in Range(begun) \ Range(committed)
    /\ committed' = Append(committed, e)
    /\ UNCHANGED <<begun, row, publisher, arrived>>

Before(s, d, e) == \E i, j \in DOMAIN s : i < j /\ s[i] = d /\ s[j] = e

(* ClaimOutbox: the oldest unpublished, due events that nobody leases. *)
NeverLeased(e) == row[e].owner = None   \* faulty: an expired lease is not taken over
Leasable(e) == row[e].owner = None \/ row[e].expired

Claim(p) ==
    LET candidates == {e \in Range(committed) :
                          ~ row[e].published /\ row[e].due /\ Leasable(e)}
    IN  /\ publisher[p] = AtLoop
        /\ \E batch \in (SUBSET candidates) \ {{}} :
              /\ \/ Cardinality(batch) = BatchSize
                 \/ Cardinality(batch) < BatchSize /\ batch = candidates
              /\ \A d \in batch, e \in candidates \ batch : Before(begun, d, e)
              /\ row' = [e \in Events |->
                            IF e \in batch THEN [row[e] EXCEPT !.owner = p, !.expired = FALSE]
                                           ELSE row[e]]
              /\ publisher' = [publisher EXCEPT ![p].todo = batch]
        /\ UNCHANGED <<begun, committed, arrived>>

Arrive(e) == arrived' = IF e \in Range(arrived) THEN arrived ELSE Append(arrived, e)

(* The worker sends an event of its batch: UPDATE ... RETURNING promises no order. *)
PublishSucceeds(p, e) ==
    /\ publisher[p].step = "loop" /\ e \in publisher[p].todo
    /\ Arrive(e)
    /\ publisher' = [publisher EXCEPT ![p] =
                        [todo |-> @.todo \ {e}, event |-> e, step |-> "confirm"]]
    /\ UNCHANGED <<begun, committed, row>>

(* SendMessage returns an error; a timeout may hide that the event arrived. *)
ConfirmAnyway == "confirm"   \* faulty: the error of publish is only logged
AfterFailure == "release"

PublishFails(p, e) ==
    /\ publisher[p].step = "loop" /\ e \in publisher[p].todo
    /\ Arrive(e) \/ UNCHANGED arrived
    /\ publisher' = [publisher EXCEPT ![p] =
                        [todo |-> @.todo \ {e}, event |-> e, step |-> AfterFailure]]
    /\ UNCHANGED <<begun, committed, row>>

(* Mark and Release only touch a row this worker still owns. *)
AnyOwner(p, e) == ~ row[e].published   \* faulty: WHERE locked_by = $2 is missing
Owns(p, e) == row[e].owner = p /\ ~ row[e].published

Marked(r) == [r EXCEPT !.published = TRUE, !.owner = None, !.expired = FALSE]
Released(r) == [r EXCEPT !.owner = None, !.expired = FALSE, !.due = FALSE]

NextEvent(p) == publisher' = [publisher EXCEPT ![p].event = None, ![p].step = "loop"]

MarkOutboxPublished(p, e) ==
    /\ publisher[p].step = "confirm" /\ publisher[p].event = e
    /\ row' = [row EXCEPT ![e] = IF Owns(p, e) THEN Marked(@) ELSE @]
    /\ NextEvent(p)
    /\ UNCHANGED <<begun, committed, arrived>>

ReleaseOutbox(p, e) ==
    /\ publisher[p].step = "release" /\ publisher[p].event = e
    /\ row' = [row EXCEPT ![e] = IF Owns(p, e) THEN Released(@) ELSE @]
    /\ NextEvent(p)
    /\ UNCHANGED <<begun, committed, arrived>>

(* The statement fails: the row keeps its lease until it expires. *)
StatementFails(p) ==
    /\ publisher[p].step # "loop"
    /\ NextEvent(p)
    /\ UNCHANGED <<begun, committed, row, arrived>>

(* The process dies and restarts under a new worker id. *)
Crash(p) ==
    /\ publisher[p] # AtLoop
    /\ publisher' = [publisher EXCEPT ![p] = AtLoop]
    /\ UNCHANGED <<begun, committed, row, arrived>>

(* locked_until and next_attempt_at pass; a slow worker does not notice. *)
LeaseExpires(e) ==
    /\ row[e].owner # None /\ ~ row[e].expired
    /\ row' = [row EXCEPT ![e].expired = TRUE]
    /\ UNCHANGED <<begun, committed, publisher, arrived>>

BackoffElapses(e) ==
    /\ ~ row[e].due
    /\ row' = [row EXCEPT ![e].due = TRUE]
    /\ UNCHANGED <<begun, committed, publisher, arrived>>

Next ==
    \/ \E e \in Events : BeginUseCase(e)
    \/ \E e \in Events : CommitUseCase(e)
    \/ \E p \in Publishers : Claim(p)
    \/ \E p \in Publishers, e \in Events : PublishSucceeds(p, e)
    \/ \E p \in Publishers, e \in Events : PublishFails(p, e)
    \/ \E p \in Publishers, e \in Events : MarkOutboxPublished(p, e)
    \/ \E p \in Publishers, e \in Events : ReleaseOutbox(p, e)
    \/ \E p \in Publishers : StatementFails(p)
    \/ \E p \in Publishers : Crash(p)
    \/ \E e \in Events : LeaseExpires(e)
    \/ \E e \in Events : BackoffElapses(e)

Spec == Init /\ [][Next]_vars

(* What a worker does next while its process lives. *)
Work(p) ==
    \/ Claim(p) \/ StatementFails(p)
    \/ \E e \in Events : \/ PublishSucceeds(p, e) \/ PublishFails(p, e)
                         \/ MarkOutboxPublished(p, e) \/ ReleaseOutbox(p, e)

(* The loop of publishOutbox runs until shutdown and time passes.  Queue and database
   do not fail, nor does the process die, at the same statement for ever; and the
   lease, 30 s by default, is not for ever too short for one send. *)
FairSpec ==
    /\ Spec
    /\ \A p \in Publishers : WF_vars(Work(p))
    /\ \A e \in Events :
          /\ WF_vars(LeaseExpires(e)) /\ WF_vars(BackoffElapses(e))
          /\ SF_vars(\E p \in Publishers : Owns(p, e) /\ PublishSucceeds(p, e))
          /\ SF_vars(\E p \in Publishers : Owns(p, e) /\ MarkOutboxPublished(p, e))

-----------------------------------------------------------------------------
(* An event is marked as published only after the queue has it: neither a failed
   send, a lost lease nor a crash can lose it. *)
PublishedArrived ==
    \A e \in Events : row[e].published => e \in Range(arrived)

(* While its lease lasts, an event leaves the hands of its owner by a step of that
   owner alone: a slow worker cannot confirm or release what another one leases. *)
LeaseExclusive ==
    [][\A e \in Events, p \in Publishers :
          row[e].owner = p /\ ~ row[e].expired /\ row'[e].owner # p
              => publisher'[p] # publisher[p]]_vars

(* Every committed event is published in the end. *)
EverythingPublished ==
    \A e \in Events : e \in Range(committed) ~> row[e].published

(* Documented (docs/outbound-event-contract.md:21): the WalletBalanceChanged events of
   a wallet reach the queue in the order of their wallet versions. *)
OrderPerWallet ==
    \A i, j \in DOMAIN arrived : i < j => Before(committed, arrived[i], arrived[j])
=============================================================================
