-------------------------- MODULE WagerConcurrency --------------------------
(***************************************************************************)
(* WagerService and WalletService.Reconcile as they run: goroutines of any *)
(* number of processes, each inside one PostgreSQL transaction at a time,  *)
(* taking locks and reading and writing row by row.  A step is one         *)
(* statement that waits for a lock or reads what another transaction can   *)
(* change; writes stay private to their transaction until Commit.          *)
(*                                                                         *)
(* A request may fail at any statement (a lost connection, a timeout, a    *)
(* crash of the process), also between Commit and the answer.              *)
(*                                                                         *)
(* The database is the one of WagerLedger, whose specification these       *)
(* sessions implement.                                                     *)
(***************************************************************************)
EXTENDS WagerLedger, FiniteSetsExt

CONSTANTS
    Clients,     \* goroutines that run Process for HTTP or SQS
    Workers,     \* reference workers, one per process
    Readers,     \* goroutines that run Reconcile
    BatchSize    \* REFERENCE_BATCH_SIZE

(* The errors a use case answers with, by the code a client sees. *)
Errors ==
    {"NOT_FOUND", "CONFLICT", "IDEMPOTENCY_PAYLOAD_CONFLICT", "EXTERNAL_TRANSACTION_CONFLICT",
     "INBOX_PAYLOAD_CONFLICT", "INVALID_REQUEST", "TEMPORARY_UNAVAILABLE"}

ASSUME SessionsAssumption ==
    /\ Clients \cap Workers = {} /\ Workers \cap Readers = {} /\ Clients \cap Readers = {}
    /\ BatchSize \in Nat \ {0}
    /\ None \notin Errors

VARIABLES
    session,    \* what each client and worker is doing
    reading     \* what each reader is doing

database == vars   \* the committed tables are those of WagerLedger
cvars == <<wallets, rows, ledger, walletEvents, wagerEvents, inbox, session, reading>>

Sessions == Clients \cup Workers

(* A session between two requests.  `t` is the transaction in memory, `seen` the
   wallet as it was read, `todo` the rest of the batch a worker listed. *)
Idle == [step |-> "idle", mode |-> "process", id |-> None, t |-> NoRow, msg |-> None,
         seen |-> NoWallet, locks |-> {}, error |-> None, todo |-> {}]

NotReading == [step |-> "idle", wallet |-> None, stored |-> 0, entries |-> <<>>, sum |-> 0]

CInit ==
    /\ Init
    /\ session = [s \in Sessions |-> Idle]
    /\ reading = [r \in Readers |-> NotReading]

-----------------------------------------------------------------------------
At(s, step) == session[s].step = step

(* The private state of a session changes; readers and committed data do not. *)
Move(s, new) ==
    /\ session' = [session EXCEPT ![s] = new]
    /\ UNCHANGED <<database, reading>>

Free(s, lock) == \A o \in Sessions \ {s} : lock \notin session[o].locks

Hold(p, lock, step) == [p EXCEPT !.locks = @ \cup {lock}, !.step = step]

(* Rollback, with an error for the caller: the deferred Rollback of
   WithinTransaction gives every lock back. *)
RefusedWithLocks(p, error) ==   \* faulty: the transaction is left open
    [p EXCEPT !.step = "answer", !.error = error]
Refused(p, error) == [p EXCEPT !.step = "answer", !.error = error, !.locks = {}]

(* Commit answered with an error. *)
CommitErrorDropped(p) ==   \* faulty: WithinTransaction returns nil
    [p EXCEPT !.step = "answer", !.locks = {}]
CommitError(p) == Refused(p, "TEMPORARY_UNAVAILABLE")

(* The order in which the reference worker takes its two locks. *)
WalletFirst(mode, step) ==   \* faulty: RecordPendingReferenceFailure locks the wallet first
    CASE mode = "record" /\ step = "begin" -> "wallet"
      [] mode = "record" /\ step = "wallet" -> "row"
      [] mode # "record" /\ step = "begin" -> "row"
      [] mode # "record" /\ step = "row" -> "wallet"
      [] OTHER -> "decide"
After(mode, step) ==
    CASE step = "begin" -> "row"
      [] step = "row" -> "wallet"
      [] OTHER -> "decide"

-----------------------------------------------------------------------------
(* Process begins: the command is validated and hashed outside the database. *)
Begin(s, c, m) ==
    /\ At(s, "idle")
    /\ c.kind \in Reversals => c.ref # None
    /\ Move(s, [Idle EXCEPT !.step = IF m = None THEN "advisory" ELSE "claim",
                            !.id = c.ext, !.t = NewWagerTransaction(c), !.msg = m,
                            !.locks = session[s].locks])

(* ClaimInbox waits for a transaction that handles the same message. *)
ClaimInbox(s) ==
    LET p == session[s]
        lock == <<"inbox", p.msg>>
    IN  /\ At(s, "claim") /\ Free(s, lock)
        /\ Move(s, CASE inbox[p.msg] = None -> Hold(p, lock, "advisory")
                     [] inbox[p.msg] = p.t.cmd -> Hold(p, lock, "completed")
                     [] OTHER -> Refused(p, "INBOX_PAYLOAD_CONFLICT"))

AcquireIdempotencyLock(s) ==
    LET p == session[s]
        lock == <<"key", p.t.cmd.key>>
    IN  /\ At(s, "advisory") /\ Free(s, lock)
        /\ Move(s, Hold(p, lock, "lookup"))

(* FindByIdempotency, for a new message ("lookup") or a completed one: an existing
   transaction is replayed from its stored result, or from the wallet while it waits. *)
FindByIdempotency(s) ==
    LET p == session[s]
        found == {id \in TxIds : rows[id].cmd.key = p.t.cmd.key}
        conflict == IF At(s, "completed") THEN "INBOX_PAYLOAD_CONFLICT"
                                          ELSE "IDEMPOTENCY_PAYLOAD_CONFLICT"
    IN  /\ At(s, "lookup") \/ At(s, "completed")
        /\ \/ /\ found = {}
              /\ Move(s, IF At(s, "completed") THEN Refused(p, conflict)
                         ELSE [p EXCEPT !.step = "external"])
           \/ \E id \in found :
                 Move(s, IF rows[id].cmd # p.t.cmd THEN Refused(p, conflict)
                         ELSE [p EXCEPT !.t = rows[id],
                                        !.step = IF rows[id].result = NoResult
                                                 THEN "replay" ELSE "commitReplay"])

(* replayResult of a transaction without a stored balance. *)
LockReplayedWallet(s) ==
    LET p == session[s]
        lock == <<"wallet", p.t.cmd.wallet>>
    IN  /\ At(s, "replay") /\ Free(s, lock)
        /\ Move(s, [Hold(p, lock, "commitReplay") EXCEPT !.seen = wallets[p.t.cmd.wallet]])

FindByExternalID(s) ==
    LET p == session[s]
    IN  /\ At(s, "external")
        /\ Move(s, IF ExternalIdIsFree(p.t.cmd) THEN [p EXCEPT !.step = "wallet"]
                   ELSE Refused(p, "EXTERNAL_TRANSACTION_CONFLICT"))

(* LockWallet, SELECT ... FOR UPDATE: the row read is the latest committed one. *)
WalletUnlocked(s, w) == TRUE   \* faulty: ReadWallet in place of LockWallet
WalletAvailable(s, w) == Free(s, <<"wallet", w>>)

WalletOf(p) == IF p.mode = "process" THEN p.t.cmd.wallet ELSE rows[p.id].cmd.wallet

LockWallet(s) ==
    LET p == session[s]
        w == WalletOf(p)
        read == [Hold(p, <<"wallet", w>>, After(p.mode, "wallet")) EXCEPT !.seen = wallets[w]]
    IN  /\ At(s, "wallet") /\ WalletAvailable(s, w)
        /\ Move(s, IF ~ Exists(w) THEN Refused(p, "NOT_FOUND")
                   ELSE IF p.mode = "process" /\ ~ ValidCommand(p.t.cmd)
                   THEN Refused(p, "INVALID_REQUEST")
                   ELSE read)

(* The reference is read without a lock (FindByExternalID) and, once it has an
   outcome, never changes; the reversals of a reference on this wallet are
   serialised by the wallet lock.  Both reads and the decision are one step. *)
Decision(p) ==
    LET ref == RowOf(p.t.cmd.ref)
        reversed == SuccessfulReversalExists(p.t.cmd.ref)
    IN  CASE p.mode = "process" -> DecideNew(p.t, p.seen.account, ref, reversed, p.seen.balance)
          [] p.mode = "resolve" -> DecidePending(p.t, ref, reversed, p.seen.balance)
          [] p.mode = "record" -> DecideFailure(p.t, p.seen.balance)

Decide(s) ==
    LET p == session[s]
        d == Decision(p)
    IN  /\ At(s, "decide")
        /\ Move(s, IF d.status = "PENDING" THEN Refused(p, "TEMPORARY_UNAVAILABLE")
                   ELSE [p EXCEPT !.t = d, !.step = "write"])

(* InsertTransaction waits for an uncommitted row with the same external id; both
   it and UpdateTransaction wait for a worker that locks the row they reference. *)
WriteLocks(p) ==
    (IF p.mode = "process" THEN {<<"insert", p.id>>} ELSE {}) \cup
    (IF p.t.refTx # None THEN {<<"row", p.t.refTx>>} ELSE {})

NoWriteConflict(p) == FALSE   \* faulty: the unique indexes and the version check are gone

(* What the database refuses with ErrConflict: the unique indexes of migration
   000001, and UpdateWallet when the version is no longer the one read. *)
WriteConflict(p) ==
    \/ p.mode = "process" /\ ~ (ExternalIdIsFree(p.t.cmd) /\ KeyIsFree(p.t.cmd))
    \/ /\ p.t.status = "PROCESSED" /\ p.t.cmd.kind \in Reversals
       /\ SuccessfulReversalExists(p.t.refTx)
    \/ MovementOf(p.t) # "NONE" /\ wallets[p.t.cmd.wallet].version # p.seen.version

(* Transaction row, wallet, ledger entry, events and inbox, all uncommitted. *)
Write(s) ==
    LET p == session[s]
    IN  /\ At(s, "write")
        /\ \A lock \in WriteLocks(p) : Free(s, lock)
        /\ Move(s, IF WriteConflict(p) THEN Refused(p, "CONFLICT")
                   ELSE IF p.mode = "process" THEN Hold(p, <<"insert", p.id>>, "commit")
                   ELSE [p EXCEPT !.step = "commit"])

(* Commit makes the writes visible, with the wallet as it was read, and gives the
   locks back. *)
Commit(s) ==
    LET p == session[s]
        w == p.t.cmd.wallet
        direction == MovementOf(p.t)
    IN  /\ At(s, "commit")
        /\ rows' = [rows EXCEPT ![p.id] = p.t]
        /\ Emit(p.id, p.t)
        /\ IF direction = "NONE" THEN UNCHANGED <<wallets, ledger, walletEvents>>
           ELSE /\ wallets' = [wallets EXCEPT ![w] = Apply(p.seen, p.t.result)]
                /\ RecordEntry(w, [tx |-> p.id, direction |-> direction, money |-> p.t.cmd.money,
                                     before |-> p.seen.balance, after |-> p.t.result])
                /\ walletEvents' = [walletEvents EXCEPT ![w] = Append(@,
                      [tx |-> p.id, before |-> p.seen.balance, after |-> p.t.result,
                       version |-> p.seen.version + 1])]
        /\ CompleteInbox(p.msg, p.t.cmd)
        /\ session' = [session EXCEPT ![s] = [p EXCEPT !.step = "answer", !.locks = {}]]
        /\ UNCHANGED reading

(* A replay commits at most the inbox row of its message. *)
CommitReplay(s) ==
    LET p == session[s]
    IN  /\ At(s, "commitReplay")
        /\ CompleteInbox(p.msg, p.t.cmd)
        /\ session' = [session EXCEPT ![s] = [p EXCEPT !.step = "answer", !.locks = {}]]
        /\ UNCHANGED <<wallets, rows, ledger, walletEvents, wagerEvents, reading>>

(* The caller gets its answer.  For a worker the caller is its loop, which records
   the failure of a resolution before it goes on with the batch. *)
Answer(s) ==
    LET p == session[s]
        next == [Idle EXCEPT !.locks = p.locks, !.todo = p.todo]
    IN  /\ At(s, "answer")
        /\ Move(s, IF p.mode = "resolve" /\ p.error # None
                   THEN [next EXCEPT !.mode = "record", !.id = p.id,
                                     !.step = After("record", "begin")]
                   ELSE next)

(* The statement fails, or the answer to a commit that took effect is lost. *)
FailStatement(s) ==
    LET p == session[s]
    IN  /\ ~ At(s, "idle") /\ p.error = None
        /\ Move(s, IF At(s, "commit") \/ At(s, "commitReplay") THEN CommitError(p)
                   ELSE Refused(p, "TEMPORARY_UNAVAILABLE"))

-----------------------------------------------------------------------------
(* FindDuePendingReferences: the oldest due rows, up to the batch size. *)
ListDue(s) ==
    LET due == {id \in TxIds : Pending(id) /\ rows[id].due}
    IN  /\ At(s, "idle") /\ session[s].todo = {} /\ due # {}
        /\ \E batch \in kSubset(Min({BatchSize, Cardinality(due)}), due) :
              Move(s, [session[s] EXCEPT !.todo = batch])

(* The worker calls ResolvePendingReference for the next row of its batch. *)
Resolve(s) ==
    /\ At(s, "idle")
    /\ \E id \in session[s].todo :
          Move(s, [session[s] EXCEPT !.mode = "resolve", !.id = id, !.todo = @ \ {id},
                                     !.step = After("resolve", "begin")])

(* LockTransaction, then the status check of both worker operations. *)
LockTransaction(s) ==
    LET p == session[s]
        lock == <<"row", p.id>>
    IN  /\ At(s, "row") /\ Free(s, lock)
        /\ Move(s, IF StillPending(p.id)
                   THEN [Hold(p, lock, After(p.mode, "row")) EXCEPT !.t = rows[p.id]]
                   ELSE [p EXCEPT !.step = "answer", !.locks = {}])

(* The process of a worker dies and restarts: its batch is forgotten. *)
Crash(s) ==
    /\ session[s] # Idle
    /\ Move(s, Idle)

-----------------------------------------------------------------------------
(* Reconcile: ReadWallet and SumLedger in one REPEATABLE READ transaction, so the
   sum is over the ledger as it was when the wallet was read. *)
LatestEntries(r) == ledger[reading[r].wallet]   \* faulty: READ COMMITTED
SnapshotEntries(r) == reading[r].entries

ReadWallet(r, w) ==
    /\ reading[r].step = "idle" /\ Exists(w)
    /\ reading' = [reading EXCEPT ![r] =
          [step |-> "sum", wallet |-> w, stored |-> wallets[w].balance,
           entries |-> ledger[w], sum |-> 0]]
    /\ UNCHANGED <<database, session>>

(* A total beyond bigint is an error of the query. *)
SumLedger(r) ==
    LET entries == SnapshotEntries(r)
        credits == Total(entries, "CREDIT")
        debits == Total(entries, "DEBIT")
    IN  /\ reading[r].step = "sum"
        /\ reading' = [reading EXCEPT ![r] =
              IF credits > MaxMinor \/ debits > MaxMinor THEN NotReading
              ELSE [@ EXCEPT !.step = "answer", !.sum = credits - debits, !.entries = entries]]
        /\ UNCHANGED <<database, session>>

ReportBalance(r) ==
    /\ reading[r].step = "answer"
    /\ reading' = [reading EXCEPT ![r] = NotReading]
    /\ UNCHANGED <<database, session>>

-----------------------------------------------------------------------------
(* WalletService.Create and the clock take no lock another session waits for. *)
Create(o) ==
    /\ CreateWallet(o.wallet, o.account, o.money)
    /\ UNCHANGED <<session, reading>>

ClockTick(id) ==
    /\ BackoffElapses(id)
    /\ UNCHANGED <<session, reading>>

(* What a session does next on its own, once it has a request. *)
Advance(s) ==
    \/ ClaimInbox(s) \/ AcquireIdempotencyLock(s) \/ FindByIdempotency(s)
    \/ LockReplayedWallet(s) \/ FindByExternalID(s) \/ LockTransaction(s)
    \/ LockWallet(s) \/ Decide(s) \/ Write(s) \/ Commit(s) \/ CommitReplay(s) \/ Answer(s)

CNext ==
    \/ \E o \in Openings : Create(o)
    \/ \E s \in Clients, c \in Commands, m \in Messages \cup {None} : Begin(s, c, m)
    \/ \E s \in Sessions : Advance(s)
    \/ \E s \in Sessions : FailStatement(s)
    \/ \E s \in Workers : ListDue(s)
    \/ \E s \in Workers : Resolve(s)
    \/ \E s \in Workers : Crash(s)
    \/ \E id \in TxIds : ClockTick(id)
    \/ \E r \in Readers, w \in WalletIds : ReadWallet(r, w)
    \/ \E r \in Readers : SumLedger(r)
    \/ \E r \in Readers : ReportBalance(r)

CSpec == CInit /\ [][CNext]_cvars

(* A running goroutine goes on, and PostgreSQL grants a lock in the order of
   the requests, so a lock that is free again and again is granted. *)
CFairness == \A s \in Sessions : SF_cvars(Advance(s))

CFairSpec == CSpec /\ CFairness

-----------------------------------------------------------------------------
(* Every commit is one use case of WagerLedger applied to the database as it is at
   the commit, although what it wrote was read and decided steps before. *)
LedgerSpec == Spec

(* The locks a session waits for in its next step. *)
Wanted(s) ==
    LET p == session[s]
    IN  CASE At(s, "claim") -> {<<"inbox", p.msg>>}
          [] At(s, "advisory") -> {<<"key", p.t.cmd.key>>}
          [] At(s, "row") -> {<<"row", p.id>>}
          [] At(s, "wallet") -> {<<"wallet", WalletOf(p)>>}
          [] At(s, "replay") -> {<<"wallet", p.t.cmd.wallet>>}
          [] At(s, "write") -> WriteLocks(p)
          [] OTHER -> {}

(* No group of sessions waits in a circle: message, key, row, wallet and insert
   locks are always taken in an order that cannot close one (ARCHITECTURE.md, the
   advisory lock before the wallet, the worker's row before the wallet). *)
NoWaitCycle ==
    ~ \E group \in (SUBSET Sessions) \ {{}} :
          \A s \in group : \E o \in group \ {s} : Wanted(s) \cap session[o].locks # {}

(* A terminal answer without error is what the database holds for that command,
   committed before the client sees it: a crash or a retry cannot unsay it. *)
AnswerIsRecorded ==
    \A s \in Clients :
        LET t == session[s].t
        IN  At(s, "answer") /\ session[s].error = None =>
                /\ rows[session[s].id].cmd = t.cmd
                /\ t.status \in Terminal =>
                      /\ rows[session[s].id].status = t.status
                      /\ rows[session[s].id].failure = t.failure
                      /\ rows[session[s].id].result = t.result

(* A reconciliation that answers finds the stored and the recalculated balance equal,
   whatever commits between its two queries. *)
ReconcileConsistent ==
    \A r \in Readers :
        reading[r].step = "answer" => reading[r].stored = reading[r].sum

(* A request that began is answered: nobody waits for a lock for ever. *)
RequestsEnd ==
    \A s \in Clients : ~ At(s, "idle") ~> At(s, "idle")

(* Documented (ARCHITECTURE.md:73, "Mesmo (providerId, externalTransactionId) com outra
   chave: 409 EXTERNAL_TRANSACTION_CONFLICT"): such a request is never answered with
   the generic CONFLICT. *)
ExternalConflictIsNamed ==
    \A s \in Clients :
        LET c == session[s].t.cmd
        IN  At(s, "answer") /\ session[s].error = "CONFLICT" =>
                rows[c.ext].cmd.key \in {None, c.key}
=============================================================================
