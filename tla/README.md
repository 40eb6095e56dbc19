# Wager processing: a TLA+ model of the service

The service keeps the wallets of players and applies to them the wager
transactions (BET, WIN, LOSS, REFUND, ROLLBACK) that game providers send, by HTTP
or through an SQS FIFO queue, at least once and in any order. This directory
holds its TLA+ specification, the TLC runs that check it on small instances and
the TLAPS proofs of what matters most. `PROJECT.json` maps every definition to
the lines of the source it models.

    tlc -workers 2 -config MCWagerLedger.cfg MCWagerLedger.tla
    tlapm WagerLedgerProofs.tla

## 1. The system

| Component | State it keeps | Operations | Talks to |
|---|---|---|---|
| `internal/domain` | none (values in memory) | transitions of a transaction, debit and credit of a wallet, money: parsing, writing, arithmetic | used by the services |
| `WagerService` (application) | none outside a database transaction | `Process`, `ResolvePendingReference`, `RecordPendingReferenceFailure` | store; called by HTTP, consumers, reference worker |
| `WalletService` (application) | none | `Create`, `Reconcile`, `Get`, `Ledger` | store; called by HTTP |
| query service | none | `Transaction`, `ProviderTransaction` | store; called by HTTP |
| PostgreSQL store and schema | wallets, transactions, ledger entries, outbox, inbox; unique indexes, checks, triggers | the statements and locks of the use cases, `ClaimOutbox`, `MarkOutboxPublished`, `ReleaseOutbox` | the database |
| Reference worker | the batch it listed | lists due PENDING_REFERENCE rows, resolves each one, records the failure of a resolution | `WagerService` |
| Outbox worker | the batch it leased | claim, publish, confirm, release | store, queue `wager-events.fifo` |
| SQS consumer | the message in its hands, its receipt, a heartbeat goroutine | receive, handle, delete, schedule a retry, release | queue `wager-transactions.fifo`, `WagerService` |
| HTTP boundary | none | authenticates, decodes and validates requests, maps results and errors to statuses and codes | services |
| start and stop | which hooks have started, queues, pool, verifier, listener, worker contexts | the `OnStart` and `OnStop` hooks, in the order Fx builds the constructors | every component |
| the rest | none that the others read | configuration, logs, metrics, traces, scripts | |

All components of all processes share one database; processes share nothing else.
A use case is one database transaction, and each of them begins by taking locks:
the row of the SQS message (if any), an advisory lock of the idempotency key, then
the wallet; the worker takes the transaction row, then the wallet. Events leave
through the outbox, so what is published is what was committed.

What is hard, and what has to be right nevertheless:

* **One wallet, many commands.** Decisions are taken on data read statements
  before the commit. Each commit must be a use case applied to the database as it
  is at the commit (`LedgerSpec`), the balance must be the end of its ledger
  (`LedgerChain`) and events must repeat the tables (`EventsAgree`).
* **The same command again**, concurrently, after a lost answer, or with another
  payload: one effect (`EffectExactlyOnce`, `OneEffect`, `KeysUnique`,
  `InboxBacked`), the recorded answer (`AnswerIsRecorded`, `ToldIsRecorded`), an
  outcome that does not change (`OutcomeIsFinal`, `NoStepBack`), and a refusal that
  is for good (`RefusalIsFinal`, `RefusedHasNoEffect`).
* **Reversals before, after or against each other.** At most one succeeds for a
  reference (`OneReversal`), it undoes exactly one entry (`ReversalUndoes`), and
  one that waits gets an outcome (`PendingSettles`, `AttemptsBounded`) and does not
  wait without need (`NoNeedlessWait`).
* **Locks**: nobody waits in a circle or for ever (`NoWaitCycle`, `RequestsEnd`).
* **At-least-once queues** with leases, visibility timeouts, heartbeats, crashes
  and lost answers: nothing confirmed that did not arrive (`PublishedArrived`),
  nothing deleted that was not handled (`DeletedHandled`, `HandledIsDurable`),
  nothing stuck (`EverythingPublished`, `EveryMessageSettles`), the order of a
  wallet kept (`OrderPerWallet`).
* **Reading while others write**: reconciliation (`ReconcileConsistent`), pages
  (`PagesDescend`, `NothingSkipped`, `CursorLeadsOn`).
* **Start and stop** at any moment: nothing used before it is ready or after it is
  closed (`ReadyBeforeUse`, `RedriveBeforeReceive`, `PoolOutlivesUsers`,
  `StartAndStopEnd`).

## 2. Modules

| Module | Models | Proved in |
|---|---|---|
| `WagerDomain` | pure rules: transitions of `internal/domain`, and the decisions of `wager_service.go` | |
| `Money` | `money.go`: parsing, writing and arithmetic at the width of its integers | `HttpApiProofs` |
| `WagerLedger` | the abstract promise: every use case one atomic step on the six tables | `WagerLedgerProofs` |
| `WagerConcurrency` | the same use cases statement by statement, with locks, failures, crashes, and `Reconcile`; implements `WagerLedger` | `SessionProofs` |
| `SqsConsumer` | `consumer.go` with the requests queue and its DLQ | `SqsConsumerProofs` |
| `WagerIntake` | the consumers calling the use cases; implements `SqsConsumer` and `WagerLedger` | `WagerIntakeProofs` |
| `HttpApi` | the protected routes, their checks and answers, and clients that follow the documented conduct | `HttpApiProofs` |
| `OutboxPublisher` | `outbox_worker.go` with its three statements and the events queue | `OutboxPublisherProofs` |
| `LedgerPages` | `GET /wallets/{walletId}/ledger`: cursor, order and limit | `LedgerPagesProofs` |
| `Lifecycle` | the Fx hooks of a process, the queues' preparation, failed start, stop, deadline, crash, next start | `LifecycleProofs` |

Composition. `WagerConcurrency` extends `WagerLedger` with the private state of the
sessions; the committed tables map to themselves. `WagerLedger` is the abstract
specification, the sessions the detailed one: TLC checks `LedgerSpec` of them and
`SessionsImplementLedger` proves it. `WagerIntake`
instantiates `SqsConsumer` and `WagerLedger` (`INSTANCE ... WITH`), joins their
steps, and implements the specification of `SqsConsumer`, which leaves
open whether handling a message commits, is refused for good or fails for now, and
that of `WagerLedger`: both are proved, the first also checked.
`HttpApi` has the use cases of `WagerLedger` behind its routes and `Money` in its
requests and answers; that it implements `WagerLedger` is proved. `OutboxPublisher` takes from `WagerLedger` that events of a
wallet are committed one by one. `Lifecycle` stands alone: it says when the
other components may run.

### WagerDomain

Operators are the methods they are named for. `Finalize`, `Settle`, `DecideNew`,
`DecidePending` and `DecideFailure` are the decisions of the service as functions of
the transaction, the reference as it was read, the answer of
`SuccessfulReversalExists` and the balance under the lock. Abstractions:

* a key is the pair (provider, idempotency key), an external id the pair (provider,
  external transaction id): both indexes, and the lookup of a reference, are scoped
  by provider;
* an account is (player, currency), which is what a wallet is unique for;
* a row is named by what is unique for it: an external row by its external id, the
  OPENING row by its wallet; uuids are left out;
* two commands have the same payload hash exactly when they are equal (SHA-256 over
  the command's fields);
* `next_attempt_at` is whether it has passed (`due`); game id and correlation id,
  which nothing reads, are left out;
* `ErrMoneyOverflow` aborts the transaction: the decision keeps status PENDING,
  which no caller persists.

### Money

The text of an amount is the parts its grammar gives it (sign, major, cents);
any other text is `Malformed`. Integers have a width: `Wrap` is what a sum would
become, and the guards of `Add`, `Subtract` and `Negate` must keep it from
happening. `Exceeds` is the bound of `parseNonNegativeMinor`, which compares before
it multiplies. `MaxInt` stands for `math.MaxInt64`.

### WagerLedger

`wallets`, `rows`, `ledger`, `inbox` are the tables; `walletEvents` and
`wagerEvents` are the outbox split by aggregate, in commit order. Actions:
`CreateWallet` (WalletService.Create), `Accept` (Process of a new command),
`Replay` (Process of a known one; by HTTP it changes nothing), `BackoffElapses`,
`ResolvePendingReference`, `RecordPendingReferenceFailure`. A use case that
returns an error commits nothing and so is no action. A reference on another wallet is
read without that wallet's lock, so `ReferenceViews` lets the command see it or
miss it. A resolution needs a waiting row, not a due one: the code reads the status
again under the row lock, and not the time.

### WagerConcurrency

A client runs `Process`, a worker its listing loop, a reader `Reconcile`. `session`
says at which statement each one is, what it has read and which locks it holds.
A step is one statement that waits for a lock or reads what others may change.
Writes stay private until `Commit`; several writes of one transaction are one step
because no other transaction sees between them, but their lock waits are kept:
an insert waits for an uncommitted row with the same unique key, a row with a
reference waits for the worker that locks the referenced row. `FailStatement` may
abort at any statement; at `commit` the error may also hide a commit that took
effect, since `Commit` and the loss of the answer are both possible. Workers also
`Crash`; a crash of a client's process is `FailStatement` without an answer.

### SqsConsumer

`msg` is the queue's record: place, number of receives, and whether the message is
invisible for the full timeout or for a retry delay. A call with a receipt works
only while the message is in flight under that receipt, may fail, and may succeed with a lost
answer. `heartbeat` is the goroutine of `maintainVisibility`; it may be late, and then the
message may be delivered to another consumer while the first one still works.
`handled` is the order of the first commits. Shutdown cancels the context at any
step; a crash may happen at any step. SQS itself is external and modelled from its use here:
FIFO groups, visibility, receipts, redrive after `maxReceiveCount`.

### WagerIntake

Each SQS message carries an envelope (`Plans`): several messages may carry the same
envelope id, with the same or another payload. `Commit` is what `Process` makes
durable for it, `Refused` the condition under which it returns one of the four
errors the consumer takes as permanent. `LoseAnswer` commits and fails.
HTTP commands, wallets and the reference worker act beside the consumers.

### HttpApi

A client has one operation: it sends its request, may be told, and repeats as
`docs/http-error-contract.md` says (after 503 or no answer with the same key, while
it is told to wait). `Checks` lists what a handler tests before the use case, in its
order: the error of the first one that fails is the answer. A replay of a transaction that waits
takes two steps (`ReplayStored`, `LockWallet`), as the row is read before the lock.
An answer may be lost and a commit may fail, `MaxFaults` times. The clients are
external: they are part of the model because the properties are promises to them.

### OutboxPublisher

Events of one aggregate: their position in `committed` is the wallet version, in
`begun` the `occurred_at` by which `ClaimOutbox` orders. A lease may expire at any
time (`LeaseExpires`) without its owner noticing; a send may fail, or arrive and
report a failure; confirmation and release may fail; the process may die. `Owns` is
the WHERE clause (`locked_by = $2 AND published_at IS NULL`). Sending an event a
second time adds nothing to the queue's order of first arrivals.

### LedgerPages

Entries commit with any `created_at`, since it is a clock read before the wallet
lock: equal times and times behind a cursor occur. `owed` is a ghost: every
entry that was behind the cursor of a walk when a page was read.

### Lifecycle

`HookOrder` is the order in which Fx runs the constructors, found by following
their arguments. A start may fail at any hook and is rolled back; a stop runs the
hooks in reverse, and while it waits its budget may pass, after which the process
exits with its goroutines as they are. `prepare` ensures the four queues one call
at a time, so a start that ends in between leaves a queue without its redrive
policy behind. Fx is external and modelled from its use here.

## 3. Runs

| Run | Bounds | Shows |
|---|---|---|
| `ledger` | three scenarios: reversals (BET, REFUND, ROLLBACK, ROLLBACK of the REFUND, a BET under a used key), wins (WIN, full and partial ROLLBACK of it, a BET that spends it, a second WIN), odd references (missing, circular, of another wallet or round; three openings, two of one account); HTTP and one message; 2 attempts; largest amount 4 | all properties of the ledger, in every order of arrival, and that waiting ends (with fairness) |
| `sessions` | five scenarios: one key twice with one or two payloads, one external id under two keys (2 clients, HTTP and one message), two reversals racing for a bet (2 clients; 1 client and a reconciliation), a waiting refund (1 client, 2 workers); 2 attempts | refinement of the ledger, recorded answers, no circle of waits, a consistent reconciliation, and an answer to every request (with fairness) |
| `outbox_delivery` | 2 events, 2 publishers, batches of 2 | lease, confirmation and eventual publication (with fairness) |
| `consumer_delivery` | 2 messages of one wallet, each well formed or not; 2 consumers; 2 receives | what is deleted was handled; order; retry delay; every message settles (with fairness) |
| `intake` | 2 messages: a bet and its refund, a bet twice, one envelope id with two payloads; 2 consumers, 2 receives, HTTP beside them | handled means durable, one effect, final refusals, no needless wait; refinement of the consumer |
| `http_answers` | 3 clients on one wallet: opening, bet, refund, queries, 13 malformed requests and 5 conflicting ones; 1 fault | what clients are told is true and stays true; each learns its outcome (with fairness) |
| `ledger_pages` | 5 entries, 3 times, limits 0 to 3 with a maximum of 2 | order, completeness and end of a walk |
| `lifecycle_order` | 2 consumers, 2 requests, 2 starts, every configuration | order of use, complete queues, start and stop end (with fairness) |
| `outbox_order`, `sessions_conflict`, `http_overflow`, `lifecycle_budget` | see section 6 | disagreements of documents and code |

A scenario bounds a run: `MCWagerLedger` and `MCWagerConcurrency` choose one at
`Init`, and a behaviour then has only the commands, messages and goroutines of
its scenario. In the racing and the waiting scenario of `sessions` a command that
has its row is repeated only when nothing else is going on; the duplicates
scenarios repeat at any time.

Why these bounds are enough to be interesting: with four as the largest amount
(`MaxMinor`, for `math.MaxInt64`) legal credits overflow, debits overdraw and a
reversal can be partial; two attempts have a first, a last and none left, so both
limits of the worker bite; two receives have a retry and a last receive; two
sessions are enough for every conflict of two transactions, and a third actor is
there where a wait could involve one; five entries in pages of two end with a
page that is not full, and three times among them make ties across a page
boundary; two starts have one that finds what the first left behind. Each
interesting event is forced by a mutant in `PROJECT.json`, a plausible bug
written next to the definition it breaks (marked "faulty" in the modules) that
makes the run fail.

`CHECK_DEADLOCK FALSE` appears where the system really stops: ledger and intake when
every command has an outcome, the outbox when everything is published, clients that are
done, a walk that has ended, a process that has exited for the last time. The
session and consumer runs check deadlock.

## 4. Fairness

* `WagerLedger!Fairness`: the clock advances and the worker's loop, which runs
  until shutdown and lists every due row, attempts each one again. Nothing is
  assumed of the result: a resolution may fail every time.
* `CFairness`: a goroutine inside a request goes on. Strong fairness, because
  PostgreSQL grants a lock in the order of requests: a lock that is free
  again and again is granted.
* `OutboxPublisher!FairSpec`: a live worker goes on and time passes (weak). Strong
  fairness of a send and of a confirmation by an owner with the row in hand: the
  queue and the database are not down for ever at the same statement, and
  a lease (30 s) is not too short for every send. Without it nothing can be promised.
* `SqsConsumer!Fairness`: handlers end, processes restart, timeouts pass, the queue
  delivers what it can deliver again and again (strong). No call and no use case is
  assumed to succeed.
* `HFairSpec`: the server answers, clients follow the documented conduct, and the
  worker keeps polling. Faults are bounded by `MaxFaults`, which stands for a
  dependency that recovers.
* `Lifecycle!Fairness`: hooks run, a round of work ends, a cancelled loop is left, a
  handler returns. No deadline is assumed to pass: start and stop end without it.

## 5. Proofs

### The ledger

`WagerLedgerProofs` proves for every set of keys, ids, wallets, commands and
messages, every largest amount and every attempt limit, from `DomainAssumption` and
`LedgerAssumption` only (ids are disjoint from wallets and from NULL, limits are
positive, commands are typed):

| Theorem | Property |
|---|---|
| `TypeCorrect` | `Spec => []TypeOK`: no balance, entry or stored result leaves `0 .. MaxMinor` |
| `BalanceIsLedger` | `Spec => []LedgerChain` |
| `ReversedAtMostOnce` | `Spec => []OneReversal` |
| `KeySpentOnce` | `Spec => []KeysUnique` |
| `AttemptsAreBounded` | `Spec => []AttemptsBounded` |

None of them is inductive alone. The invariant is `IInv`: `TypeOK`, `RowShape` (no
row is committed as PENDING, every row has an existing wallet, the attempts are bounded, a
waiting row is an external one with a reference, a counted attempt and no result),
`WalletShape` (a missing wallet is empty), `LedgerChain`, `OneReversal`
and `KeysUnique`. The argument has three parts. First, what a decision may be:
`Outcome` (typed, same command, attempts counted, and a processed one holds the
balance its movement gives) and `Reverses` (a successful reversal has seen a processed
reference of its wallet that nobody reversed), shown for `Finalize`, `Settle`, and the
three `Decide...` operators. Second, that `Persist` of any such decision on a row
that is absent or waits (`Subject`) keeps each conjunct. Third, one step
per action of `Next`. A reversal that looks at a possibly stale reference
(`ReferenceViews`) is sound because a reference on another wallet is always refused.

On top of `IInv` follow the theorems that relate rows, entries and messages:

| Theorem | Property |
|---|---|
| `EffectIsExactlyOnce` | `Spec => []EffectExactlyOnce` |
| `ReversalsUndo` | `Spec => []ReversalUndoes` |
| `OutcomesAreFinal` | `Spec => OutcomeIsFinal` |
| `CompletedHasTransaction` | `Spec => []InboxBacked` |
| `EventsTellTables` | `Spec => []EventsAgree` |
| `LedgerReconciles` | `Spec => []` (the credits less the debits of a wallet are its balance) |

The key is `StepRecords`: every step either leaves rows, ledgers and events alone
(`Untouched`) or records one decision on one row that has no outcome yet (`Recorded`),
with the entry of its movement, and announces it (`Announced`). So a row with an
outcome never changes, and because a reversal refers to a processed row (`ReversalsBacked`)
the movement of a processed row never changes either. That makes an induction of
`EInv`: every entry is the movement of its row (`EntriesBacked`), no two entries
have the same transaction (`EntriesUnique`: the new one is of a row that had no movement), and every
movement has an entry (`MovementsEntered`). `EffectExactlyOnce` counts with
`Cardinality`; it follows by the theorems on singletons of `FiniteSetTheorems`.

`EventsTellTables` comes from the same lemma: a movement appends an entry and its event together and raises the version by
one (`WalletsToldKept`), and a row appends its wait the first time and its outcome
the only time (`RowsToldKept`). For `LedgerReconciles`, `Total` folds over a set
in an order of its own choice, so this takes an induction: that the recursion defines a
function (`SumsExist`), that it does not depend on the set it was started from
(`SumsAgree`), and that any entry may be taken out first (`SumRemove`). The library's
induction theorems take an operator and cannot be used; `Climb` is induction
for a *set* of naturals, from the well-foundedness of `<`, and needs none.

### The sessions

`SessionProofs` proves for any number of clients, workers and readers, from the
assumptions of the ledger and `SessionsAssumption` (the three kinds are disjoint, NULL
is no error):

| Theorem | Property |
|---|---|
| `SessionInvariant` | `CSpec => []CInv` |
| `SessionsImplementLedger` | `CSpec => LedgerSpec` |
| `SessionsKeepThePromises` | `CSpec => [](LedgerChain /\ EffectExactlyOnce /\ OneReversal /\ KeysUnique) /\ OutcomeIsFinal` |
| `AnswersAreRecorded` | `CSpec => []AnswerIsRecorded` |
| `NobodyWaitsInACircle` | `CSpec => []NoWaitCycle` |
| `ReconciliationsAgree` | `CSpec => []ReconcileConsistent` |

`CInv` joins the ledger's invariants (`LInv`) with three facts about each session:
`Locked`, which locks it holds at its step; `Knows`, what it read and what of that still
holds of the database; and `Exclusive`, no lock is held twice. `Knows` is the heart: a decision is
taken from a wallet, a row and a reference that were read statements before, and
the invariant says that it is still the decision `WagerLedger` would take now.
It is kept because a commit of another session changes only rows and wallets that this
session has locked or has not read yet (part 3), except a reference on another wallet, where it is
shown that either view gives a refusal (part 2). With that, `Commit` is the use
case applied to the present tables (`CommitIsUseCase`), and every other step changes no
table. The absence of a
key is protected by its advisory lock from the lookup on; the absence of an external id by
nothing until `Write`, where the unique index looks again and its lock excludes others.

`NobodyWaitsInACircle` needs no bound on the size of the circle: sessions are ranked by what
they wait for. Who writes waits only for an insert, which no waiting session holds,
or for the row of its reference, whose holder would be resolving a row that
has its outcome already. So nobody in the circle writes; then nobody holds a
wallet, so nobody waits for one, and in turn a row, a key and an inbox row.

`ReconciliationsAgree` carries along that a reader's snapshot is a chain of entries
ending at the balance it read; `ChainTotals` does the sum.

### Start and stop

`LifecycleProofs` proves for any goroutines, requests and configurations and any number of
starts, from `LifecycleAssumption` (a configuration has the three settings, consumers
are goroutines of their own):

| Theorem | Property |
|---|---|
| `HooksInvariant` | `Spec => []HookInv` |
| `NothingUsedTooEarly` | `Spec => []ReadyBeforeUse` |
| `RedriveIsSet` | `Spec => []RedriveBeforeReceive` |
| `PoolClosesLast` | `Spec => []PoolOutlivesUsers` |

None of the three is inductive. `HookInv` ties everything that a hook brings up to `started`: at
two the queues are ready, from three on the pool is open or, at three, closing; a worker
runs only while `started` has reached its hook's place; the server listens only when
all are up, and below that every request is answered unless the server gave up.
`prepare` keeps the redrive policies of the queues it is done with, which also holds
after a crash in its middle because the next start begins anew. The place of each
hook, with and without workers, comes from `HookOrder` (`OrderOfHooks`).

### The HTTP boundary

`HttpApiProofs` proves for any clients, requests, tables, any width of the integers and any
number of failures, from `DomainAssumption`, `MoneyAssumption` and `HttpAssumption` (requests are
typed, there is a currency, the bound of the ledger is that of `Money`, NULL is no record):

| Theorem | Property |
|---|---|
| `HttpInvariant` | `HSpec => []HttpInv` |
| `ServesTheLedger` | `HSpec => L!Spec` |
| `WhatIsToldIsRecorded` | `HSpec => []ToldIsRecorded` |
| `SettledIsNotSentBack` | `HSpec => []NoStepBack` |
| `WalletOpenedOnce` | `HSpec => []OpenedOnce` |
| `RefusalMeansUndone` | `HSpec => RefusedHasNoEffect` |

The proofs of the ledger are an instance here (`LE`), so its invariant needs no second proof:
every step of the boundary is a step of `WagerLedger` or leaves the tables alone
(`LedgerUses`), because a request that passes the checks has a typed amount
(`PassesPriced`, `CommandTyped`). `HttpInv` is that invariant and, for each client, that what it was
told is in the tables (`TellsStored`), that a replay between the read of its row and the wallet
lock holds a row that waits and belongs to a client with no outcome to lose
(`LocksWaiting`), that a client that is settled has a stored outcome (`IsSettled`) and is not sent
back (`GoesOn`), and who opened a wallet (`OpensTaken`, `OneOpener`).

Each answer is looked at once, when it is given: `Given` says what must be true of it, and
the lemmas of part 5 show it for every handler, every refusal and every failure. After
that an answer stays true for reasons of the ledger only (`TablesStay`): outcomes are final, a
wait once begun has been counted, a wallet keeps its owner. `RefusalMeansUndone` reads the last
clause of `Given`, which `RefusedIsUndone` shows: `Process` returns an error only when no row has the
command, so a client refused after a 503 knows that the attempt behind the 503 did nothing.

Part 1 is about money and holds for every width, from `MoneyAssumption` (an int64 has at
least the two digits of the cents): `AddIsExact` and `SubtractIsExact` (the exact result or
`MONEY_OVERFLOW`, nothing wraps), `ParsedIsBounded`, `ParseIsCanonical` (an amount
has one spelling), `AmountRoundTrip` (what `Amount` writes, `UnmarshalJSON` reads
back, the least integer included), and `DomainUsesMoney`: the comparisons with which
`WagerDomain` debits and credits are those of `Money`, so the theorems above hold of
the arithmetic of the code. `BalanceReadsBack` is what `WhatIsToldIsRecorded` needs of it: the text of a
stored balance is parsed to exactly that balance.

### Pages

`LedgerPagesProofs` proves for any entries, times, walks, limits and commits between the pages,
from `PagesAssumption` (ids and times are numbers, NULL is no cursor, the limits of the code):

| Theorem | Property |
|---|---|
| `EachPageGoesOn` | `Spec => []PagesDescend` |
| `WalksSkipNothing` | `Spec => []NothingSkipped` |
| `NoPageIsEmpty` | `Spec => []CursorLeadsOn` |

Part 1 shows that `(created_at, id)` orders the committed entries totally and what
`ORDER BY ... LIMIT n` returns of them: the first n, all of them when there are no more,
and with one row more than the page exactly when the page leaves rows out. Part 2 carries
along that everything on a page is committed and not behind the cursor; then a page takes a
walk over all rows between its cursor and the next one, and an entry committed
in front of the cursor is owed to nobody.

### Delivery

`OutboxPublisherProofs` proves for any events, workers and batch size, from
`OutboxAssumption` (NULL is neither a worker nor an event):

| Theorem | Property |
|---|---|
| `TypeCorrect` | `Spec => []TypeOK`: besides the types, a published row has no owner and no lease |
| `MarkedHasArrived` | `Spec => []PublishedArrived` |
| `LeaseKept` | `Spec => LeaseExclusive` |

`PublishedArrived` is not inductive: a confirmation needs to know that its event
arrived when it was sent (`ConfirmsArrived`), although the row may have changed
hands since, and the queue holds committed events only because a worker leases nothing
else (`LeasedCommitted`). `LeaseKept` follows from the guards: an unexpired lease is
not leasable, and `Owns` makes every writer of the row its owner.

`SqsConsumerProofs` proves for any messages, groups, consumers and number of receives,
from `QueueAssumption` (NULL is no message, at least one receive):

| Theorem | Property |
|---|---|
| `TypeCorrect` | `Spec => []TypeOK`: no receive exceeds `MaxReceives` |
| `DeletedWasHandled` | `Spec => []DeletedHandled` |
| `DelayStands` | `Spec => RetryDelayStands` |
| `WalletsInOrder` | `Spec => OrderPerWallet` |

`DelayStands` is the delicate one: deliveries overlap, and a heartbeat renews with the
receipt it began with. `ReceiptsUnique` says that no two consumers hold the same
receipt of a message and none a later one than the queue gave out, `HeartbeatsMatch`
that a heartbeat belongs to what its consumer processes, and `NoDelayYet` that the
holder of the latest receipt finds no retry delay while it handles or processes:
only it could have set one, and only after `stopHeartbeat`. Every step of a consumer
but a receive either keeps its message and receipt or lets go of them (`Keeps`), so
one lemma, `ConsumerStep`, serves them all.

`WalletsInOrder` rests on what the FIFO queue lets a consumer receive. Only queued
messages are in flight (`FlightInQueue`), and whoever has received a message knows of all
that were sent before it in its group that they have been handled, left the queue, or
are in the DLQ (`PredecessorsSettled`); sending appends, and nothing but a redrive to
the DLQ or a deletion takes out of the queue. That a deleted one had been handled is
`DeletedWasHandled`.

### The queue and the database together

`WagerIntakeProofs` proves for any messages, envelopes, plans of the producers, openings and
HTTP commands, any number of consumers and of receives, from `DomainAssumption` and
`IntakeAssumption` (openings and commands are typed, NULL is no message, envelope or
command, at least one receive):

| Theorem | Property |
|---|---|
| `ConsumersAsSpecified` | `ISpec => ConsumerSpec` |
| `DeletionIsDurable` | `ISpec => []HandledIsDurable` |
| `EffectOfAllDeliveries` | `ISpec => []OneEffect` |
| `RefusalsAreFinal` | `ISpec => RefusalIsFinal` |
| `NothingWaitsInVain` | `ISpec => NoNeedlessWait` |

The proofs of the two parts are instances here, so that their invariants need not be
shown again; `IntakeInv` is both and one conjunct more, `HandledCompleted`: the inbox
row of a handled message is completed with its payload. That is what makes a refusal of a handled
message impossible (`RefusedIsNew`), and so the composition a `SqsConsumer`. Every
step is also a step of `WagerLedger` or leaves the tables alone (`LedgerAsSpecified`), so
`CompletedHasTransaction` and `EffectIsExactlyOnce` hold and give the next two theorems.

`RefusalsAreFinal` follows each reason of a refusal through a step: a completed inbox row stays,
and who completes a row does so with a payload that is stored or could be; a key or an external
id that is taken stays taken, and whoever takes the key later has another payload, because
the refused one is not valid or its external id is not free; a wallet stays.

`NothingWaitsInVain` needs both parts. A consumer that commits a message holds it, and then each
message before it in its group is settled (`OrderInv` of the consumers); a settled one outside
the DLQ was handled, so its inbox row is completed (`HandledCompleted`), its command is in a
row (`InboxBacked`), and that row is the one its external id names (`KeyedByExternalId`). A new
transaction waits only when the reference it read has no outcome (`NewWaits`), and a row of its
own wallet it reads as it is. Without "of their wallet" the property is false: the row of
another wallet is read without its lock. And the reference may itself be waiting, for a
transaction of another group or one in the DLQ.

### Only model-checked

Every safety property that a run checks is proved. Left to TLC are the liveness properties
(`PendingSettles`, `RequestsEnd`, `EveryMessageSettles`, `EverythingPublished`, `EveryCallEnds`,
`StartAndStopEnd`): liveness and fairness are out of the prover's reach.

## 6. Where documents and code disagree

* `outbox_order`: `docs/outbound-event-contract.md:21` promises the order of
  `WalletBalanceChanged` per wallet. A failed send is released with a backoff while
  later events of the wallet go on, and `occurred_at` is read before the wallet lock,
  so a later version can be claimed and arrive first.
* `sessions_conflict`: `ARCHITECTURE.md:73` names `EXTERNAL_TRANSACTION_CONFLICT` for the
  same external id under another key. When the two requests are concurrent the
  second meets the unique index and is answered `CONFLICT`; the SQS
  consumer then retries it as a transient error before it becomes permanent.
* `http_overflow`: `docs/http-error-contract.md:48` keeps `TEMPORARY_UNAVAILABLE` for a
  dependency that is down and asks clients to repeat. `writeError` answers it to an
  amount, or a credit, beyond int64, which no repetition can cure.
* `lifecycle_budget`: `ARCHITECTURE.md:145` says that on a shutdown the workers are
  cancelled and the pool closes last. By default `HTTP_SHUTDOWN_TIMEOUT` is the whole
  budget of a stop and the HTTP hook comes first, so one slow request leaves the
  workers uncancelled when the process exits.

Observed while modelling, without a run:

* a worker that listed a row before another one put it back to wait resolves it
  again at once: the status is read again under the lock (`wager_service.go:263`), the
  time is not, so the backoff of that attempt is not kept;
* workers are cancelled one hook after the other, each waiting for its goroutines: the
  consumers go on receiving while the reference worker ends its batch;
* `IDENTITY_UNAVAILABLE` is never answered: the verifier is set before the listener
  accepts (`ReadyBeforeUse`);
* a replay of a waiting transaction combines the status found before the wallet lock
  with the balance after it; the client is told to wait for what may have an outcome;
* a WIN on a BET that was already reversed is credited;
* `SumLedger` (`store.go:350`) fails when the total of credits leaves bigint although the
  balance fits; no document promises that it succeeds;
* a message whose last delete fails goes to the DLQ although its effect is committed.

## 7. Not modelled

`PROJECT.json` lists every component with its status. Triggers and CHECK constraints are
not guards of the model: what they enforce is stated as invariants of the code, which
never relies on them. The health checks keep no state and only read. The request
log and the recovery from panics change no answer that a modelled handler gives. The verification of
a token belongs to the OIDC library, the validation tags to theirs: a token or a
body is one of the cases the handlers tell apart. Reading the environment is pure; the three
settings that change start and stop are in `Lifecycle`, the limits `Validate` enforces
are the assumptions on the constants. Logs, metrics and traces change nothing the
system reads. The scripts provision a local environment, the swagger file is
generated. The delays themselves (`retryDelay`, the backoffs) are durations: the model
lets any time pass.
