---------------------------- MODULE WagerDomain ----------------------------
(***************************************************************************)
(* The rules of internal/domain and the pure part of WagerService: which   *)
(* commands are valid, which transitions a WagerTransaction has, what a    *)
(* reference must agree with, and how a transaction settles against a      *)
(* wallet.  Everything here is a function of its arguments; the modules    *)
(* that hold state (WagerLedger, WagerConcurrency) decide when and with    *)
(* what view of the database these functions are applied.                  *)
(*                                                                         *)
(* Data abstraction.  An idempotency key stands for the pair (provider,    *)
(* key) and an external id for (provider, external id): both indexes are   *)
(* scoped by provider and a reference is resolved within the provider of   *)
(* the operation, so the provider itself never differs between the two.    *)
(* An account stands for (player, currency), the identity a wallet is      *)
(* unique for.  A transaction row is named by what its unique index keys:  *)
(* an external row by its external id, an OPENING row by its wallet.       *)
(***************************************************************************)
EXTENDS Integers, Sequences

CONSTANTS
    Keys,         \* idempotency keys, each within its provider
    ExternalIds,  \* external transaction ids, each within its provider
    WalletIds,    \* wallet uuids
    Accounts,     \* (player, currency) pairs
    Rounds,       \* game rounds
    None,         \* SQL NULL, a nil pointer, an absent reference
    MaxMinor,     \* largest Money value: math.MaxInt64 in the code
    MaxAttempts   \* REFERENCE_MAX_ATTEMPTS

-----------------------------------------------------------------------------
ExternalKinds == {"BET", "WIN", "LOSS", "REFUND", "ROLLBACK"}
Reversals == {"REFUND", "ROLLBACK"}
Terminal == {"PROCESSED", "REJECTED", "FAILED"}

\* "NONE" is the absence of a row; PENDING exists only inside a transaction.
Statuses == {"NONE", "PENDING", "PENDING_REFERENCE"} \cup Terminal

FailureCodes ==
    {"WALLET_OWNERSHIP_OR_CURRENCY_MISMATCH", "REFERENCE_NOT_PROCESSED",
     "REFERENCE_NOT_FOUND", "REFERENCE_MISMATCH", "REFERENCE_AMOUNT_MISMATCH",
     "INVALID_REFERENCE_KIND", "REFERENCE_ALREADY_REVERSED", "INSUFFICIENT_FUNDS",
     "INSUFFICIENT_FUNDS_REVERSAL", "PROCESSING_ATTEMPTS_EXHAUSTED"}

ASSUME DomainAssumption ==
    /\ MaxMinor \in Nat \ {0}
    /\ MaxAttempts \in Nat \ {0}
    /\ ExternalIds \cap WalletIds = {}
    /\ None \notin Keys \cup ExternalIds \cup WalletIds \cup Accounts \cup Rounds
    /\ None \notin FailureCodes

Minor == 0 .. MaxMinor
NoResult == -1
TxIds == ExternalIds \cup WalletIds

\* ProcessWagerCommand as HTTP and SQS build it, before any domain check.
Command ==
    [key: Keys, ext: ExternalIds, wallet: WalletIds, account: Accounts,
     round: Rounds, kind: ExternalKinds, money: Minor, ref: ExternalIds \cup {None}]

\* What a row keeps of its command: an OPENING row has no external metadata.
RowCommand ==
    [key: Keys \cup {None}, ext: ExternalIds \cup {None},
     wallet: WalletIds \cup {None}, account: Accounts \cup {None},
     round: Rounds \cup {None}, kind: ExternalKinds \cup {"OPENING"},
     money: Minor, ref: ExternalIds \cup {None}]

Row ==
    [cmd: RowCommand, status: Statuses, attempts: Nat, due: BOOLEAN,
     refTx: TxIds \cup {None}, failure: FailureCodes \cup {None},
     result: Minor \cup {NoResult}]

OpeningCommand(w, account, money) ==
    [key |-> None, ext |-> None, wallet |-> w, account |-> account,
     round |-> None, kind |-> "OPENING", money |-> money, ref |-> None]

\* RehydrateWagerTransaction of no row, and NewWagerTransaction of a command.
FreshRow(c, status) ==
    [cmd |-> c, status |-> status, attempts |-> 0, due |-> FALSE,
     refTx |-> None, failure |-> None, result |-> NoResult]

NoRow == FreshRow(OpeningCommand(None, None, 0), "NONE")
NewWagerTransaction(c) == FreshRow(c, "PENDING")

-----------------------------------------------------------------------------
(* Policy of NewWagerTransaction: amount and reference by kind. *)
ValidCommand(c) ==
    /\ c.kind \in ExternalKinds
    /\ c.kind = "LOSS" <=> c.money = 0
    /\ c.kind \in Reversals => c.ref # None
    /\ c.ref # None => c.kind \in Reversals \cup {"WIN"}

(* Transitions of WagerTransaction.  The guards of the methods hold wherever
   the service calls them; nextAttemptAt is abstracted to whether it has
   passed (due), and is in the future when it is set. *)
MarkPendingReferenceKeepsCount(t) ==   \* faulty: attemptCount++ is lost
    [t EXCEPT !.status = "PENDING_REFERENCE", !.due = FALSE]

MarkPendingReference(t) ==
    [t EXCEPT !.status = "PENDING_REFERENCE", !.attempts = @ + 1, !.due = FALSE]

ResolveReference(t, id) ==
    [t EXCEPT !.refTx = id, !.status = "PENDING", !.due = FALSE]

MarkProcessed(t, balance) ==
    [t EXCEPT !.status = "PROCESSED", !.result = balance, !.due = FALSE]

Reject(t, code, balance) ==
    [t EXCEPT !.status = "REJECTED", !.failure = code, !.result = balance, !.due = FALSE]

Fail(t, code, balance) ==
    [t EXCEPT !.status = "FAILED", !.failure = code, !.result = balance, !.due = FALSE]

(* referenceIsPending: the reference is not there yet, or has no outcome yet. *)
ReferenceIsPending(ref) == ref.status \in {"NONE", "PENDING", "PENDING_REFERENCE"}

-----------------------------------------------------------------------------
AnyAmount(c, ref) == TRUE   \* faulty: a reversal may be partial
AmountAgrees(c, ref) == c.kind \in Reversals => ref.cmd.money = c.money

NeverReversed(c, reversed) == FALSE   \* faulty: SuccessfulReversalExists is not asked
AlreadyReversed(c, reversed) == c.kind \in Reversals /\ reversed

(* referenceFailure of a present reference: the first rule it breaks. *)
ReferenceFailure(c, ref, reversed) ==
    IF \/ ref.cmd.account # c.account \/ ref.cmd.wallet # c.wallet
       \/ ref.cmd.round # c.round
    THEN "REFERENCE_MISMATCH"
    ELSE IF ~ AmountAgrees(c, ref)
    THEN "REFERENCE_AMOUNT_MISMATCH"
    ELSE IF \/ c.kind \in {"WIN", "REFUND"} /\ ref.cmd.kind # "BET"
            \/ c.kind = "ROLLBACK" /\ ref.cmd.kind \notin {"BET", "WIN", "REFUND"}
    THEN "INVALID_REFERENCE_KIND"
    ELSE IF AlreadyReversed(c, reversed)
    THEN "REFERENCE_ALREADY_REVERSED"
    ELSE None

(* The movement finalize makes: a rollback undoes what its reference did. *)
RollbackCredits(kind, refKind) ==   \* faulty: a rollback always gives money back
    CASE kind = "BET" -> "DEBIT"
      [] kind \in {"WIN", "REFUND", "OPENING", "ROLLBACK"} -> "CREDIT"
      [] OTHER -> "NONE"

Direction(kind, refKind) ==
    CASE kind = "BET" -> "DEBIT"
      [] kind \in {"WIN", "REFUND", "OPENING"} -> "CREDIT"
      [] kind = "ROLLBACK" -> IF refKind = "BET" THEN "CREDIT" ELSE "DEBIT"
      [] OTHER -> "NONE"

(* Wallet.Debit refuses to overdraw, Wallet.Credit to leave int64. *)
MayOverdraw(balance, money) == TRUE   \* faulty: ErrInsufficientFunds is dropped
CanDebit(balance, money) == money <= balance

CanCredit(balance, money) == balance + money <= MaxMinor

(* finalize: settle against the balance read under the wallet lock.  On
   ErrMoneyOverflow the transaction aborts: the row stays PENDING, which no
   caller persists. *)
Finalize(t, direction, balance) ==
    CASE direction = "NONE" -> MarkProcessed(t, balance)
      [] direction = "DEBIT" ->
            IF CanDebit(balance, t.cmd.money)
            THEN MarkProcessed(t, balance - t.cmd.money)
            ELSE Reject(t, IF t.cmd.kind = "ROLLBACK" THEN "INSUFFICIENT_FUNDS_REVERSAL"
                                                      ELSE "INSUFFICIENT_FUNDS", balance)
      [] direction = "CREDIT" ->
            IF CanCredit(balance, t.cmd.money)
            THEN MarkProcessed(t, balance + t.cmd.money) ELSE t

(* The reference has an outcome: record it, then reject or settle.  `id` names
   the referenced row, `reversed` is what SuccessfulReversalExists answered. *)
Settle(t, id, ref, reversed, balance) ==
    LET r == ResolveReference(t, id)
        code == ReferenceFailure(r.cmd, ref, reversed)
    IN  IF ref.status # "PROCESSED" THEN Reject(r, "REFERENCE_NOT_PROCESSED", balance)
        ELSE IF code # None THEN Reject(r, code, balance)
        ELSE Finalize(r, Direction(r.cmd.kind, ref.cmd.kind), balance)

(* The decision of Process for a transaction it has just built. *)
DecideNew(t, owner, ref, reversed, balance) ==
    IF owner # t.cmd.account
    THEN Reject(t, "WALLET_OWNERSHIP_OR_CURRENCY_MISMATCH", balance)
    ELSE IF t.cmd.ref = None
    THEN Finalize(t, Direction(t.cmd.kind, None), balance)
    ELSE IF ReferenceIsPending(ref) THEN MarkPendingReference(t)
    ELSE Settle(t, t.cmd.ref, ref, reversed, balance)

(* The decision of ResolvePendingReference for a row that waits. *)
OneAttemptMore(t) == t.attempts > MaxAttempts   \* faulty: off by one
AttemptsUsed(t) == t.attempts >= MaxAttempts

DecidePending(t, ref, reversed, balance) ==
    IF ~ ReferenceIsPending(ref) THEN Settle(t, t.cmd.ref, ref, reversed, balance)
    ELSE IF AttemptsUsed(t) THEN Reject(t, "REFERENCE_NOT_FOUND", balance)
    ELSE MarkPendingReference(t)

(* The decision of RecordPendingReferenceFailure. *)
DecideFailure(t, balance) ==
    IF AttemptsUsed(t) THEN Fail(t, "PROCESSING_ATTEMPTS_EXHAUSTED", balance)
    ELSE MarkPendingReference(t)
=============================================================================
