---------------------------- MODULE WagerLedger ----------------------------
(***************************************************************************)
(* What the service promises of its database: every committed use case is  *)
(* one atomic step on wallets, transactions, ledger, inbox and outbox.     *)
(* There are no locks here and no concurrency inside a use case.           *)
(* WagerConcurrency models the statements, locks, rollbacks and crashes of *)
(* the code and is shown to implement this specification.                  *)
(*                                                                         *)
(* A use case that returns an error commits nothing, so it is a stuttering *)
(* step and has no action.                                                 *)
(***************************************************************************)
EXTENDS WagerDomain, FiniteSetsExt

CONSTANTS
    Commands,   \* the wager commands that clients send
    Openings,   \* the POST /wallets requests: [wallet, account, money]
    Messages    \* SQS envelope messageIds; None marks a command sent by HTTP

ASSUME LedgerAssumption ==
    /\ Commands \subseteq Command
    /\ Openings \subseteq [wallet: WalletIds, account: Accounts, money: Minor]
    /\ None \notin Messages

VARIABLES
    wallets,       \* wallets: account, balance and version; version 0 is no wallet
    rows,          \* wager_transactions, OPENING rows included
    ledger,        \* wallet_ledger_entries of each wallet, in commit order
    walletEvents,  \* outbox: WalletBalanceChanged of each wallet, in commit order
    wagerEvents,   \* outbox: WagerTransaction* of each transaction, in commit order
    inbox          \* inbox_messages: the completed command, or None

vars == <<wallets, rows, ledger, walletEvents, wagerEvents, inbox>>

Wallet == [account: Accounts \cup {None}, balance: Minor, version: Nat]
NoWallet == [account |-> None, balance |-> 0, version |-> 0]

Entry == [tx: TxIds, direction: {"CREDIT", "DEBIT"}, money: Minor,
          before: Minor, after: Minor]
BalanceChanged == [tx: TxIds, before: Minor, after: Minor, version: Nat]
WagerEvent == [status: Terminal \cup {"PENDING_REFERENCE"},
               balance: Minor \cup {NoResult}]

(* Every variable holds values of its column types; money stays within
   0 .. MaxMinor, the CHECK constraints of migration 000001. *)
TypeOK ==
    /\ wallets \in [WalletIds -> Wallet]
    /\ rows \in [TxIds -> Row]
    /\ ledger \in [WalletIds -> Seq(Entry)]
    /\ walletEvents \in [WalletIds -> Seq(BalanceChanged)]
    /\ wagerEvents \in [TxIds -> Seq(WagerEvent)]
    /\ inbox \in [Messages -> Commands \cup {None}]

Init ==
    /\ wallets = [w \in WalletIds |-> NoWallet]
    /\ rows = [id \in TxIds |-> NoRow]
    /\ ledger = [w \in WalletIds |-> <<>>]
    /\ walletEvents = [w \in WalletIds |-> <<>>]
    /\ wagerEvents = [id \in TxIds |-> <<>>]
    /\ inbox = [m \in Messages |-> None]

-----------------------------------------------------------------------------
Exists(w) == wallets[w].version > 0
Pending(id) == rows[id].status = "PENDING_REFERENCE"

(* The row a reference names; the absent row when there is no reference. *)
RowOf(id) == IF id = None THEN NoRow ELSE rows[id]

(* SuccessfulReversalExists, the query behind wager_successful_reversal_uq. *)
SuccessfulReversalExists(id) ==
    \E t \in TxIds :
        /\ rows[t].refTx = id
        /\ rows[t].cmd.kind \in Reversals
        /\ rows[t].status = "PROCESSED"

(* The movement a decided transaction makes on its wallet. *)
MovementOf(t) ==
    IF t.status = "PROCESSED"
    THEN Direction(t.cmd.kind, RowOf(t.refTx).cmd.kind)
    ELSE "NONE"

(* NewWallet, and Wallet.apply, which Debit and Credit end with. *)
NewWallet(account, money) ==
    [account |-> account, balance |-> money, version |-> 1]

ApplySameVersion(wallet, balance) ==   \* faulty: version++ is lost
    [account |-> wallet.account, balance |-> balance, version |-> wallet.version]

Apply(wallet, balance) ==
    [account |-> wallet.account, balance |-> balance, version |-> wallet.version + 1]

(* InsertLedger. *)
RecordCreditOnly(w, entry) ==   \* faulty: a debit skips InsertLedger
    ledger' = IF entry.direction = "DEBIT" THEN ledger
              ELSE [ledger EXCEPT ![w] = Append(@, entry)]

RecordEntry(w, entry) ==
    ledger' = [ledger EXCEPT ![w] = Append(@, entry)]

(* SumLedger: the sum over the entries of one direction. *)
Total(entries, direction) ==
    MapThenSumSet(LAMBDA i : entries[i].money,
                  {i \in DOMAIN entries : entries[i].direction = direction})

(* UpdateWallet, InsertLedger and the WalletBalanceChanged event. *)
Post(id, t, direction) ==
    LET w == t.cmd.wallet
        before == wallets[w].balance
    IN  IF direction = "NONE" THEN UNCHANGED <<wallets, ledger, walletEvents>>
        ELSE /\ wallets' = [wallets EXCEPT ![w] = Apply(wallets[w], t.result)]
             /\ RecordEntry(w, [tx |-> id, direction |-> direction, money |-> t.cmd.money,
                                before |-> before, after |-> t.result])
             /\ walletEvents' = [walletEvents EXCEPT ![w] = Append(@,
                   [tx |-> id, before |-> before, after |-> t.result,
                    version |-> wallets[w].version + 1])]

(* The WagerTransaction* event of a decision: a repeated MarkPendingReference
   is persisted without one. *)
EmitAlways(id, t) ==   \* faulty: every retry announces the pending reference again
    wagerEvents' = [wagerEvents EXCEPT ![id] =
                        Append(@, [status |-> t.status, balance |-> t.result])]

Emit(id, t) ==
    IF Pending(id) /\ t.status = "PENDING_REFERENCE" THEN UNCHANGED wagerEvents
    ELSE wagerEvents' = [wagerEvents EXCEPT ![id] =
                            Append(@, [status |-> t.status, balance |-> t.result])]

(* Commit of a decided transaction: row, movement and events together. *)
Persist(id, t) ==
    /\ t.status # "PENDING"   \* ErrMoneyOverflow rolled the transaction back
    /\ rows' = [rows EXCEPT ![id] = t]
    /\ Post(id, t, MovementOf(t))
    /\ Emit(id, t)

CompleteInbox(m, c) ==
    inbox' = IF m = None THEN inbox ELSE [inbox EXCEPT ![m] = c]

-----------------------------------------------------------------------------
(* WalletService.Create: one wallet per account; a positive balance opens the
   ledger with an OPENING credit, a zero balance leaves it empty. *)
CreateWallet(w, account, money) ==
    /\ ~ Exists(w)
    /\ \A v \in WalletIds : wallets[v].account # account
    /\ LET t == MarkProcessed(FreshRow(OpeningCommand(w, account, money), "PENDING"), money)
       IN  IF money = 0 THEN UNCHANGED <<rows, ledger, walletEvents, wagerEvents>>
           ELSE /\ rows' = [rows EXCEPT ![w] = t]
                /\ ledger' = [ledger EXCEPT ![w] =
                      <<[tx |-> w, direction |-> "CREDIT", money |-> money,
                         before |-> 0, after |-> money]>>]
                /\ walletEvents' = [walletEvents EXCEPT ![w] =
                      <<[tx |-> w, before |-> 0, after |-> money, version |-> 1]>>]
                /\ Emit(w, t)
    /\ wallets' = [wallets EXCEPT ![w] = NewWallet(account, money)]
    /\ UNCHANGED inbox

(* The reference a command may have observed.  It is read without a lock, under
   the lock of the command's own wallet: a row of that wallet is read as it is,
   a row of another wallet may have appeared, or got its outcome, since. *)
ReferenceViews(c) ==
    {RowOf(c.ref)} \cup
    (IF RowOf(c.ref).cmd.wallet \in {None, c.wallet} THEN {} ELSE {NoRow})

(* FindByIdempotency found nothing; and, when it did, the payload hashes agree. *)
KeyIsFreeUnchecked(c) == TRUE   \* faulty: the lookup is skipped
KeyIsFree(c) == \A id \in TxIds : rows[id].cmd.key # c.key

SameKey(id, c) == rows[id].cmd.key = c.key   \* faulty: the hashes are not compared
SamePayload(id, c) == rows[id].cmd = c

(* FindByExternalID found nothing. *)
ExternalIdIsFreeUnchecked(c) == TRUE   \* faulty: the lookup is skipped
ExternalIdIsFree(c) == rows[c.ext].status = "NONE"

(* Process of a command seen for the first time: neither its key nor its
   external id has a row, its message (if any) is new. *)
Accept(c, m) ==
    /\ m # None => inbox[m] = None
    /\ KeyIsFree(c)
    /\ ExternalIdIsFree(c)
    /\ Exists(c.wallet)
    /\ ValidCommand(c)
    /\ \E ref \in ReferenceViews(c) :
          Persist(c.ext, DecideNew(NewWagerTransaction(c), wallets[c.wallet].account, ref,
                                   SuccessfulReversalExists(c.ref), wallets[c.wallet].balance))
    /\ CompleteInbox(m, c)

(* Process of a command whose key has a row with the same payload: nothing
   changes but the inbox of a new message.  A replay by HTTP changes nothing. *)
Replay(c, m) ==
    /\ inbox[m] = None
    /\ \E id \in TxIds : SamePayload(id, c)
    /\ inbox' = [inbox EXCEPT ![m] = c]
    /\ UNCHANGED <<wallets, rows, ledger, walletEvents, wagerEvents>>

(* next_attempt_at passes: FindDuePendingReferences lists the row from now on. *)
BackoffElapses(id) ==
    /\ Pending(id) /\ ~ rows[id].due
    /\ rows' = [rows EXCEPT ![id].due = TRUE]
    /\ UNCHANGED <<wallets, ledger, walletEvents, wagerEvents, inbox>>

(* The status, read again under the row lock after the row was listed.  The row
   may have been put back to wait in between: due is not checked again. *)
StillListed(id) ==   \* faulty: the list is trusted, the status is not read again
    rows[id].status \in {"PENDING_REFERENCE", "REJECTED"} /\ rows[id].cmd.ref # None
StillPending(id) == Pending(id)

(* ResolvePendingReference of a listed row. *)
ResolvePendingReference(id) ==
    LET t == rows[id]
    IN  /\ StillPending(id)
        /\ \E ref \in ReferenceViews(t.cmd) :
              Persist(id, DecidePending(t, ref, SuccessfulReversalExists(t.cmd.ref),
                                        wallets[t.cmd.wallet].balance))
        /\ UNCHANGED inbox

(* RecordPendingReferenceFailure, after a resolution returned an error. *)
RecordPendingReferenceFailure(id) ==
    /\ Pending(id)
    /\ Persist(id, DecideFailure(rows[id], wallets[rows[id].cmd.wallet].balance))
    /\ UNCHANGED inbox

(* One turn of the reference worker on a due row. *)
WorkerAttempt(id) ==
    /\ rows[id].due
    /\ ResolvePendingReference(id) \/ RecordPendingReferenceFailure(id)

Next ==
    \/ \E o \in Openings : CreateWallet(o.wallet, o.account, o.money)
    \/ \E c \in Commands, m \in Messages \cup {None} : Accept(c, m)
    \/ \E c \in Commands, m \in Messages : Replay(c, m)
    \/ \E id \in TxIds : BackoffElapses(id)
    \/ \E id \in TxIds : ResolvePendingReference(id)
    \/ \E id \in TxIds : RecordPendingReferenceFailure(id)

Spec == Init /\ [][Next]_vars

(* The clock advances and the worker loop keeps polling: reference_worker.go
   runs until shutdown and lists every due row, oldest first.  An OPENING row
   never waits. *)
Fairness ==
    \A id \in ExternalIds : WF_vars(BackoffElapses(id)) /\ WF_vars(WorkerAttempt(id))

FairSpec == Spec /\ Fairness

-----------------------------------------------------------------------------
(* The ledger of a wallet is an unbroken chain from zero to the balance of the
   wallet, each entry adding or taking exactly its money and never below zero:
   the stored balance can always be recalculated (deferred trigger
   wallet_balance_ledger_consistency and CHECK ledger_arithmetic). *)
LedgerChain ==
    \A w \in WalletIds :
        LET l == ledger[w]
        IN  /\ \A i \in 1 .. Len(l) :
                  /\ l[i].before = IF i = 1 THEN 0 ELSE l[i - 1].after
                  /\ l[i].after = IF l[i].direction = "CREDIT" THEN l[i].before + l[i].money
                                                               ELSE l[i].before - l[i].money
            /\ wallets[w].balance = IF l = <<>> THEN 0 ELSE l[Len(l)].after

(* Every processed transaction that moves money has exactly one ledger entry, however
   often it was delivered, retried or resolved, and every entry is the effect of such
   a transaction of that wallet: same money, the direction of its kind, and the balance
   stored as its result (UNIQUE (wallet_id, transaction_id), the triggers
   ledger_transaction_guard and processed_transaction_ledger_required). *)
EffectExactlyOnce ==
    /\ \A id \in TxIds :
          LET l == ledger[rows[id].cmd.wallet]
          IN  MovementOf(rows[id]) # "NONE" =>
                  Cardinality({i \in 1 .. Len(l) : l[i].tx = id}) = 1
    /\ \A w \in WalletIds : \A i \in 1 .. Len(ledger[w]) :
          LET e == ledger[w][i]
              t == rows[e.tx]
          IN  /\ t.cmd.wallet = w
              /\ t.cmd.money = e.money
              /\ t.result = e.after
              /\ MovementOf(t) = e.direction

(* The events tell what the tables hold, once: the WalletBalanceChanged events of a
   wallet repeat its ledger entry by entry, with versions that count up without a gap
   to the version of the wallet; the WagerTransaction* events of a transaction are one
   PendingReference if it ever waited, then its outcome with the stored balance. *)
EventsAgree ==
    /\ \A w \in WalletIds :
          LET l == ledger[w]
          IN  walletEvents[w] =
                  [i \in 1 .. Len(l) |->
                      [tx |-> l[i].tx, before |-> l[i].before, after |-> l[i].after,
                       version |-> wallets[w].version - (Len(l) - i)]]
    /\ \A id \in TxIds :
          LET t == rows[id]
          IN  wagerEvents[id] =
                  (IF t.attempts > 0
                   THEN <<[status |-> "PENDING_REFERENCE", balance |-> NoResult]>> ELSE <<>>)
                  \o (IF t.status \in Terminal
                      THEN <<[status |-> t.status, balance |-> t.result]>> ELSE <<>>)

(* At most one successful REFUND or ROLLBACK names the same referenced
   transaction (index wager_successful_reversal_uq, ARCHITECTURE.md:86). *)
OneReversal ==
    \A s, t \in TxIds :
        /\ rows[s].status = "PROCESSED" /\ rows[s].cmd.kind \in Reversals
        /\ rows[t].status = "PROCESSED" /\ rows[t].cmd.kind \in Reversals
        /\ rows[s].refTx = rows[t].refTx
        => s = t

(* A successful reversal undoes an earlier entry of the same ledger: same money,
   opposite direction, for the transaction it references. *)
ReversalUndoes ==
    \A id \in TxIds :
        LET l == ledger[rows[id].cmd.wallet]
        IN  rows[id].status = "PROCESSED" /\ rows[id].cmd.kind \in Reversals =>
                \E i, j \in 1 .. Len(l) :
                    /\ i < j
                    /\ l[i].tx = rows[id].refTx /\ l[j].tx = id
                    /\ l[i].money = l[j].money
                    /\ l[i].direction # l[j].direction

(* One idempotency key never belongs to two transactions (index
   wager_provider_idempotency_uq). *)
KeysUnique ==
    \A s, t \in TxIds :
        rows[s].cmd.key # None /\ rows[s].cmd.key = rows[t].cmd.key => s = t

(* A completed message has a transaction with its own key and payload: the branch
   of Process that answers an already completed message always finds it. *)
InboxBacked ==
    \A m \in Messages : inbox[m] # None => \E id \in TxIds : rows[id].cmd = inbox[m]

(* A waiting transaction names a reference and has used between one and
   MaxAttempts attempts; no outcome was reached with more. *)
AttemptsBounded ==
    \A id \in TxIds :
        /\ rows[id].attempts <= MaxAttempts
        /\ Pending(id) => rows[id].attempts > 0 /\ rows[id].cmd.ref # None

(* A transaction never changes its command, and never changes at all once it is
   PROCESSED, REJECTED or FAILED: what a replay answers is fixed. *)
OutcomeIsFinal ==
    [][\A id \in TxIds :
          /\ rows[id].status # "NONE" => rows'[id].cmd = rows[id].cmd
          /\ rows[id].status \in Terminal => rows'[id] = rows[id]]_vars

(* A transaction that waits for its reference gets an outcome, even when the
   reference never comes, waits itself, or every resolution fails. *)
PendingSettles ==
    \A id \in ExternalIds : Pending(id) ~> rows[id].status \in Terminal
=============================================================================
