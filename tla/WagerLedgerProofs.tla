------------------------- MODULE WagerLedgerProofs -------------------------
(***************************************************************************)
(* Proofs about WagerLedger for every set of keys, ids, wallets, commands  *)
(* and messages, every money range and every attempt limit.                *)
(*                                                                         *)
(* Part 1 says what a decision (finalize, Settle, DecideNew, ...) may do   *)
(* to a transaction; part 2 that committing any such decision keeps the    *)
(* invariant; part 3 walks through the actions of Next.                    *)
(*                                                                         *)
(* Parts 4 to 6: outcomes are final, every movement has exactly one ledger *)
(* entry, a reversal undoes an earlier entry, and a completed message has  *)
(* its transaction.  The actions are looked at once, in StepRecords: a     *)
(* step writes at most one row that has no outcome yet, and the entry of   *)
(* its movement.  The rest follows from that alone.                        *)
(*                                                                         *)
(* Part 7: the outbox tells what the tables hold, and once.  Parts 8 and   *)
(* 9: the sums of the credits and of the debits differ by the stored       *)
(* balance, so reconciliation finds none to report.  A sum is a recursive  *)
(* definition, computed in an order of its own; what it yields is proved   *)
(* by induction over the number of its terms, with the least-number        *)
(* principle in the form of a set (theorem WFMin).                         *)
(***************************************************************************)
EXTENDS WagerLedger, FiniteSetTheorems, SequenceTheorems, WellFoundedInduction, TLAPS

(* What a decision on transaction t may be, for a wallet with this balance: the
   command stays, an outcome is typed and keeps the attempts, a processed one has
   the balance its movement gives, waiting costs one of the attempts left. *)
Outcome(t, d, refKind, balance) ==
    /\ d \in Row
    /\ d.cmd = t.cmd
    /\ d.status \in Terminal \cup {"PENDING", "PENDING_REFERENCE"}
    /\ d.status \in Terminal => d.attempts = t.attempts /\ d.result \in Minor
    /\ d.status = "PENDING_REFERENCE" =>
          /\ d.attempts = t.attempts + 1 /\ d.attempts <= MaxAttempts
          /\ d.result = t.result
          /\ t.cmd.ref # None
    /\ d.status = "PROCESSED" =>
          LET direction == Direction(t.cmd.kind, refKind)
          IN  /\ direction = "CREDIT" => d.result = balance + t.cmd.money
              /\ direction = "DEBIT" => d.result = balance - t.cmd.money
              /\ direction = "NONE" => d.result = balance
    /\ d.status \in {"REJECTED", "FAILED"} => d.result = balance

(* What a successful reversal has established about its reference. *)
Reverses(t, d) ==
    d.status = "PROCESSED" /\ t.cmd.kind \in Reversals =>
        /\ t.cmd.ref \in ExternalIds /\ d.refTx = t.cmd.ref
        /\ rows[t.cmd.ref].status = "PROCESSED"
        /\ rows[t.cmd.ref].cmd.wallet = t.cmd.wallet
        /\ rows[t.cmd.ref].cmd.money = t.cmd.money
        /\ rows[t.cmd.ref].cmd.kind \in {"BET", "WIN", "REFUND"}
        /\ t.cmd.kind = "REFUND" => rows[t.cmd.ref].cmd.kind = "BET"
        /\ ~ SuccessfulReversalExists(t.cmd.ref)

(* A decision as the service takes it, its reference read from the table. *)
Decided(t, d, balance) ==
    /\ Outcome(t, d, RowOf(d.refTx).cmd.kind, balance)
    /\ Reverses(t, d)

-----------------------------------------------------------------------------
(* finalize keeps the row pending (overflow), rejects it for lack of funds, or
   processes it with the balance the movement gives. *)
LEMMA FinalizeOutcome ==
    ASSUME NEW t \in Row, NEW refKind, NEW balance \in Minor, t.status = "PENDING"
    PROVE  LET d == Finalize(t, Direction(t.cmd.kind, refKind), balance)
           IN  /\ Outcome(t, d, refKind, balance)
               /\ d.refTx = t.refTx
               /\ d.status # "PENDING_REFERENCE"
<1> DEFINE direction == Direction(t.cmd.kind, refKind)
           d == Finalize(t, direction, balance)
<1>1. direction \in {"CREDIT", "DEBIT", "NONE"}
  BY DEF Direction
<1>2. t.cmd.money \in Minor
  BY DEF Row, RowCommand
<1>3. CASE direction = "NONE"
  BY <1>3, <1>2 DEF Finalize, MarkProcessed, Outcome, Row, Statuses, Terminal, Minor
<1>4. CASE direction = "DEBIT"
  <2>1. CASE CanDebit(balance, t.cmd.money)
    <3>1. d = MarkProcessed(t, balance - t.cmd.money)
      BY <1>4, <2>1 DEF Finalize
    <3>2. balance - t.cmd.money \in Minor
      BY <1>2, <2>1, DomainAssumption DEF Minor, CanDebit, CanCredit
    <3>3. QED
      BY <1>4, <3>1, <3>2 DEF MarkProcessed, Outcome, Row, Statuses, Terminal
  <2>2. CASE ~ CanDebit(balance, t.cmd.money)
    BY <1>4, <2>2 DEF Finalize, Reject, Outcome, Row, Statuses, Terminal, FailureCodes
  <2>3. QED BY <2>1, <2>2
<1>5. CASE direction = "CREDIT"
  <2>1. CASE CanCredit(balance, t.cmd.money)
    <3>1. d = MarkProcessed(t, balance + t.cmd.money)
      BY <1>5, <2>1 DEF Finalize
    <3>2. balance + t.cmd.money \in Minor
      BY <1>2, <2>1, DomainAssumption DEF Minor, CanDebit, CanCredit
    <3>3. QED
      BY <1>5, <3>1, <3>2 DEF MarkProcessed, Outcome, Row, Statuses, Terminal
  <2>2. CASE ~ CanCredit(balance, t.cmd.money)
    BY <1>5, <2>2 DEF Finalize, Outcome, Terminal
  <2>3. QED BY <2>1, <2>2
<1>6. QED BY <1>1, <1>3, <1>4, <1>5

(* Reject is an outcome of any row, whatever its reference: it moves no money. *)
LEMMA RejectOutcome ==
    ASSUME NEW t \in Row, NEW code \in FailureCodes, NEW balance \in Minor, NEW refKind
    PROVE  /\ Outcome(t, Reject(t, code, balance), refKind, balance)
           /\ Reject(t, code, balance).status = "REJECTED"
BY DEF Reject, Outcome, Row, Statuses, Terminal

(* MarkPendingReference is an outcome of a row with attempts left and a reference. *)
LEMMA WaitOutcome ==
    ASSUME NEW t \in Row, NEW balance, NEW refKind,
           t.attempts < MaxAttempts, t.cmd.ref # None
    PROVE  /\ Outcome(t, MarkPendingReference(t), refKind, balance)
           /\ MarkPendingReference(t).status = "PENDING_REFERENCE"
<1> DEFINE d == MarkPendingReference(t)
<1>0. t.attempts \in Nat /\ t.attempts + 1 \in Nat
  BY DEF Row
<1>1. d \in Row /\ d.cmd = t.cmd /\ d.status = "PENDING_REFERENCE" /\ d.result = t.result
  BY <1>0 DEF MarkPendingReference, Row, Statuses
<1>2. d.attempts = t.attempts + 1 /\ t.attempts \in Nat
  BY DEF MarkPendingReference, Row
<1>3. d.attempts <= MaxAttempts
  BY <1>2, DomainAssumption
<1>4. QED
  BY <1>1, <1>2, <1>3 DEF Outcome, Terminal

(* A reference that has an outcome settles the transaction or rejects it. *)
LEMMA SettleDecided ==
    ASSUME rows \in [TxIds -> Row], NEW t \in Row, NEW balance \in Minor,
           t.cmd.ref \in ExternalIds
    PROVE  LET d == Settle(t, t.cmd.ref, rows[t.cmd.ref],
                           SuccessfulReversalExists(t.cmd.ref), balance)
           IN  Decided(t, d, balance) /\ d.status # "PENDING_REFERENCE"
<1> DEFINE ref == rows[t.cmd.ref]
           reversed == SuccessfulReversalExists(t.cmd.ref)
           r == ResolveReference(t, t.cmd.ref)
           code == ReferenceFailure(r.cmd, ref, reversed)
           d == Settle(t, t.cmd.ref, ref, reversed, balance)
<1>1. /\ r \in Row /\ r.cmd = t.cmd /\ r.status = "PENDING"
      /\ r.attempts = t.attempts /\ r.result = t.result /\ r.refTx = t.cmd.ref
  BY DEF ResolveReference, Row, Statuses, TxIds
<1>2. ref \in Row
  BY DEF TxIds
<1>3. code \in FailureCodes \cup {None}
  BY DEF ReferenceFailure, FailureCodes
<1>4. RowOf(t.cmd.ref) = ref
  BY DomainAssumption DEF RowOf
<1>5. \A x : Outcome(r, x, ref.cmd.kind, balance) => Outcome(t, x, ref.cmd.kind, balance)
  BY <1>1 DEF Outcome
<1>6. CASE ref.status # "PROCESSED"
  <2>1. d = Reject(r, "REFERENCE_NOT_PROCESSED", balance)
    BY <1>6 DEF Settle
  <2>2. d.refTx = t.cmd.ref
    BY <2>1, <1>1 DEF Reject, Row
  <2>3. QED
    BY <2>1, <2>2, <1>1, <1>4, <1>5, RejectOutcome DEF FailureCodes, Decided, Reverses
<1>7. CASE ref.status = "PROCESSED" /\ code # None
  <2>1. d = Reject(r, code, balance)
    BY <1>7 DEF Settle
  <2>2. d.refTx = t.cmd.ref
    BY <2>1, <1>1 DEF Reject, Row
  <2>3. QED
    BY <2>1, <2>2, <1>1, <1>3, <1>4, <1>5, <1>7, RejectOutcome DEF Decided, Reverses
<1>8. CASE ref.status = "PROCESSED" /\ code = None
  <2>1. d = Finalize(r, Direction(r.cmd.kind, ref.cmd.kind), balance)
    BY <1>8 DEF Settle
  <2>2. /\ Outcome(r, d, ref.cmd.kind, balance) /\ d.refTx = t.cmd.ref
        /\ d.status # "PENDING_REFERENCE"
    BY <2>1, <1>1, FinalizeOutcome
  <2>3. t.cmd.kind \in Reversals =>
          /\ ref.cmd.wallet = t.cmd.wallet /\ ref.cmd.money = t.cmd.money
          /\ ref.cmd.kind \in {"BET", "WIN", "REFUND"}
          /\ t.cmd.kind = "REFUND" => ref.cmd.kind = "BET"
          /\ ~ reversed
    BY <1>1, <1>8, DomainAssumption
    DEF ReferenceFailure, AmountAgrees, AlreadyReversed, Reversals, FailureCodes
  <2>4. QED
    BY <2>2, <2>3, <1>4, <1>5, <1>8 DEF Decided, Reverses
<1>9. QED BY <1>6, <1>7, <1>8

(* Process: a new transaction is rejected, waits, settles against its reference or
   settles on its own.  A stale view of the reference can only make it wait. *)
LEMMA NewDecided ==
    ASSUME rows \in [TxIds -> Row], NEW c \in Command, ValidCommand(c),
           NEW ref \in ReferenceViews(c), NEW owner, NEW balance \in Minor
    PROVE  LET t == NewWagerTransaction(c)
               d == DecideNew(t, owner, ref, SuccessfulReversalExists(c.ref), balance)
           IN  t \in Row /\ Decided(t, d, balance)
<1> DEFINE t == NewWagerTransaction(c)
           reversed == SuccessfulReversalExists(c.ref)
           d == DecideNew(t, owner, ref, reversed, balance)
<1>1. /\ t \in Row /\ t.cmd = c /\ t.status = "PENDING"
      /\ t.attempts = 0 /\ t.refTx = None
  <2>1. c \in RowCommand
    BY DEF Command, RowCommand
  <2>2. QED
    BY <2>1 DEF NewWagerTransaction, FreshRow, Row, Statuses
<1>2. CASE owner # c.account
  <2>1. d = Reject(t, "WALLET_OWNERSHIP_OR_CURRENCY_MISMATCH", balance)
    BY <1>1, <1>2 DEF DecideNew
  <2>2. QED
    BY <1>1, <2>1, RejectOutcome DEF FailureCodes, Decided, Reverses
<1>3. CASE owner = c.account /\ c.ref = None
  <2>1. c.kind \in {"BET", "WIN", "LOSS"}
    BY <1>3 DEF ValidCommand, ExternalKinds, Reversals
  <2>2. Direction(t.cmd.kind, None) = Direction(t.cmd.kind, "OPENING")
    BY <1>1, <2>1 DEF Direction
  <2>3. d = Finalize(t, Direction(t.cmd.kind, "OPENING"), balance)
    BY <1>1, <1>3, <2>2 DEF DecideNew
  <2>4. Outcome(t, d, "OPENING", balance) /\ d.refTx = None
    BY <1>1, <2>3, FinalizeOutcome
  <2>5. RowOf(None).cmd.kind = "OPENING"
    BY DEF RowOf, NoRow, FreshRow, OpeningCommand
  <2>6. Reverses(t, d)
    BY <1>1, <2>1 DEF Reverses, Reversals
  <2>7. QED
    BY <1>1, <2>4, <2>5, <2>6 DEF Decided
<1>4. CASE owner = c.account /\ c.ref # None /\ ReferenceIsPending(ref)
  <2>1. d = MarkPendingReference(t)
    BY <1>1, <1>4 DEF DecideNew
  <2>2. t.attempts < MaxAttempts
    BY <1>1, DomainAssumption
  <2>3. QED
    BY <1>1, <1>4, <2>1, <2>2, WaitOutcome DEF Decided, Reverses
<1>5. CASE owner = c.account /\ c.ref # None /\ ~ ReferenceIsPending(ref)
  <2>1. c.ref \in ExternalIds
    BY <1>5 DEF Command
  <2>2. ref = rows[c.ref]
    BY <1>5 DEF ReferenceViews, RowOf, ReferenceIsPending, NoRow, FreshRow
  <2>3. d = Settle(t, t.cmd.ref, rows[t.cmd.ref], SuccessfulReversalExists(t.cmd.ref), balance)
    BY <1>1, <1>5, <2>2 DEF DecideNew
  <2>4. QED
    BY <1>1, <2>1, <2>3, SettleDecided
<1>6. QED BY <1>1, <1>2, <1>3, <1>4, <1>5

(* ResolvePendingReference: the waiting row waits again, gives up or settles. *)
LEMMA PendingDecided ==
    ASSUME rows \in [TxIds -> Row], NEW t \in Row, NEW ref \in ReferenceViews(t.cmd),
           NEW balance \in Minor, t.cmd.ref \in ExternalIds
    PROVE  Decided(t, DecidePending(t, ref, SuccessfulReversalExists(t.cmd.ref), balance),
                   balance)
<1> DEFINE reversed == SuccessfulReversalExists(t.cmd.ref)
           d == DecidePending(t, ref, reversed, balance)
<1>1. t.cmd.ref # None
  BY DomainAssumption
<1>2. CASE ~ ReferenceIsPending(ref)
  <2>1. ref = rows[t.cmd.ref]
    BY <1>1, <1>2 DEF ReferenceViews, RowOf, ReferenceIsPending, NoRow, FreshRow
  <2>2. d = Settle(t, t.cmd.ref, rows[t.cmd.ref], reversed, balance)
    BY <1>2, <2>1 DEF DecidePending
  <2>3. QED BY <2>2, SettleDecided
<1>3. CASE ReferenceIsPending(ref) /\ AttemptsUsed(t)
  <2>1. d = Reject(t, "REFERENCE_NOT_FOUND", balance)
    BY <1>3 DEF DecidePending
  <2>2. QED BY <2>1, RejectOutcome DEF FailureCodes, Decided, Reverses
<1>4. CASE ReferenceIsPending(ref) /\ ~ AttemptsUsed(t)
  <2>1. d = MarkPendingReference(t)
    BY <1>4 DEF DecidePending
  <2>2. t.attempts < MaxAttempts
    BY <1>4, DomainAssumption DEF Row, AttemptsUsed
  <2>3. QED BY <1>1, <2>1, <2>2, WaitOutcome DEF Decided, Reverses
<1>5. QED BY <1>2, <1>3, <1>4

(* RecordPendingReferenceFailure: the waiting row waits again or fails. *)
LEMMA FailureDecided ==
    ASSUME NEW t \in Row, NEW balance \in Minor, t.cmd.ref \in ExternalIds
    PROVE  Decided(t, DecideFailure(t, balance), balance)
<1>1. t.cmd.ref # None
  BY DomainAssumption
<1>2. CASE ~ AttemptsUsed(t)
  <2>1. DecideFailure(t, balance) = MarkPendingReference(t)
    BY <1>2 DEF DecideFailure
  <2>2. t.attempts < MaxAttempts
    BY <1>2, DomainAssumption DEF Row, AttemptsUsed
  <2>3. QED BY <1>1, <2>1, <2>2, WaitOutcome DEF Decided, Reverses
<1>3. CASE AttemptsUsed(t)
  <2>1. DecideFailure(t, balance) = Fail(t, "PROCESSING_ATTEMPTS_EXHAUSTED", balance)
    BY <1>3 DEF DecideFailure
  <2>2. Fail(t, "PROCESSING_ATTEMPTS_EXHAUSTED", balance).status = "FAILED"
    BY DEF Fail, Row
  <2>3. QED
    BY <2>1, <2>2 DEF Fail, Decided, Reverses, Outcome, Row, Statuses, Terminal, FailureCodes
<1>4. QED BY <1>2, <1>3

-----------------------------------------------------------------------------
(* The strengthening: what a row of each status looks like, and that nothing is
   recorded for a wallet before it exists. *)
RowShape ==
    \A id \in TxIds :
        /\ rows[id].status # "PENDING"
        /\ rows[id].status = "NONE" => rows[id] = NoRow
        /\ rows[id].status # "NONE" =>
              /\ rows[id].cmd.wallet \in WalletIds
              /\ wallets[rows[id].cmd.wallet].version > 0
              /\ id \in WalletIds => rows[id].cmd.wallet = id
        /\ rows[id].attempts <= MaxAttempts
        /\ rows[id].status \in Terminal => rows[id].result \in Minor
        /\ rows[id].status = "PENDING_REFERENCE" =>
              /\ rows[id].attempts > 0
              /\ id \in ExternalIds
              /\ rows[id].cmd.ref \in ExternalIds
              /\ rows[id].result = NoResult

(* Before POST /wallets commits, a wallet has no owner, no money and no entries. *)
WalletShape ==
    \A w \in WalletIds :
        wallets[w].version = 0 =>
            wallets[w].balance = 0 /\ wallets[w].account = None /\ ledger[w] = <<>>

(* The inductive invariant: rows and wallets of the shapes above make the five
   stated invariants preserved by every use case. *)
IInv == TypeOK /\ RowShape /\ WalletShape /\ LedgerChain /\ OneReversal /\ KeysUnique

(* The transaction a decision was taken on: a row that waits, or a new one under
   a free external id. *)
Subject(id, t) ==
    /\ id \in ExternalIds
    /\ t \in Row
    /\ t.result = NoResult
    /\ t.attempts <= MaxAttempts
    /\ t.cmd.ref \in ExternalIds \cup {None}
    /\ t.cmd.wallet \in WalletIds /\ wallets[t.cmd.wallet].version > 0
    /\ \/ rows[id].status = "PENDING_REFERENCE" /\ t = rows[id]
       \/ /\ rows[id].status = "NONE"
          /\ \A s \in TxIds : rows[s].cmd.key # t.cmd.key

(* finalize credits, debits or moves nothing. *)
LEMMA DirectionRange ==
    \A kind, refKind : Direction(kind, refKind) \in {"CREDIT", "DEBIT", "NONE"}
BY DEF Direction

(* The absent row has no key, no reference, no wallet and no result. *)
LEMMA NoRowShape ==
    /\ NoRow.status = "NONE" /\ NoRow.attempts = 0 /\ NoRow.due = FALSE
    /\ NoRow.refTx = None /\ NoRow.failure = None /\ NoRow.result = NoResult
    /\ NoRow.cmd \in RowCommand /\ NoRow.cmd.key = None /\ NoRow.cmd.ref = None
    /\ NoRow.cmd.wallet = None /\ NoRow.cmd.kind = "OPENING"
    /\ NoRow \in Row
<1>1. OpeningCommand(None, None, 0) \in RowCommand
  BY DomainAssumption DEF OpeningCommand, RowCommand, Minor
<1>2. QED
  BY <1>1 DEF NoRow, FreshRow, OpeningCommand, Row, Statuses

(* Committing a decision keeps every variable typed. *)
LEMMA PersistTyped ==
    ASSUME IInv, NEW id, NEW t, NEW d, Subject(id, t),
           Decided(t, d, wallets[t.cmd.wallet].balance), Persist(id, d),
           inbox' \in [Messages -> Commands \cup {None}]
    PROVE  TypeOK'
<1> DEFINE w == t.cmd.wallet
           move == MovementOf(d)
<1>1. /\ id \in TxIds /\ w \in WalletIds /\ d.cmd = t.cmd /\ d \in Row
      /\ d.status \in Terminal \cup {"PENDING_REFERENCE"}
      /\ d.result \in Minor \cup {NoResult}
      /\ d.status \in Terminal => d.result \in Minor
      /\ d.cmd.money \in Minor
  BY DEF Subject, Decided, Outcome, Persist, TxIds, Row, RowCommand
<1>2. rows' \in [TxIds -> Row]
  BY <1>1 DEF IInv, TypeOK, Persist
<1>3. wagerEvents' \in [TxIds -> Seq(WagerEvent)]
  <2>1. [status |-> d.status, balance |-> d.result] \in WagerEvent
    BY <1>1 DEF WagerEvent
  <2>2. wagerEvents[id] \in Seq(WagerEvent)
    BY <1>1 DEF IInv, TypeOK
  <2>3. Append(wagerEvents[id], [status |-> d.status, balance |-> d.result]) \in Seq(WagerEvent)
    BY <2>1, <2>2
  <2>4. QED
    BY <2>3, <1>1 DEF IInv, TypeOK, Persist, Emit
<1>4. CASE move = "NONE"
  <2>1. UNCHANGED <<wallets, ledger, walletEvents>>
    BY <1>4 DEF Persist, Post, Apply, RecordEntry
  <2>2. QED
    BY <2>1, <1>2, <1>3 DEF IInv, TypeOK
<1>5. CASE move # "NONE"
  <2>1. move \in {"CREDIT", "DEBIT"} /\ d.status = "PROCESSED" /\ d.result \in Minor
    BY <1>1, <1>5, DirectionRange DEF MovementOf, Terminal
  <2>2. /\ wallets[w] \in Wallet /\ wallets[w].balance \in Minor
        /\ wallets[w].version \in Nat /\ wallets[w].version + 1 \in Nat
    BY <1>1 DEF IInv, TypeOK, Wallet
  <2>3. wallets' \in [WalletIds -> Wallet]
    <3>1. wallets' = [wallets EXCEPT ![w] = [account |-> wallets[w].account,
                         balance |-> d.result, version |-> wallets[w].version + 1]]
      BY <1>1, <1>5 DEF Persist, Post, Apply, RecordEntry
    <3>2. QED BY <1>1, <2>1, <2>2, <3>1 DEF IInv, TypeOK, Wallet
  <2>4. ledger' \in [WalletIds -> Seq(Entry)]
    <3> DEFINE e == [tx |-> id, direction |-> move, money |-> d.cmd.money,
                     before |-> wallets[w].balance, after |-> d.result]
    <3>1. e \in Entry
      BY <1>1, <2>1, <2>2 DEF Entry
    <3>2. Append(ledger[w], e) \in Seq(Entry)
      BY <3>1, <1>1 DEF IInv, TypeOK
    <3>3. ledger' = [ledger EXCEPT ![w] = Append(ledger[w], e)]
      BY <1>1, <1>5 DEF Persist, Post, Apply, RecordEntry
    <3> HIDE DEF e
    <3>4. QED BY <3>2, <3>3, <1>1 DEF IInv, TypeOK
  <2>5. walletEvents' \in [WalletIds -> Seq(BalanceChanged)]
    <3> DEFINE e == [tx |-> id, before |-> wallets[w].balance, after |-> d.result,
                     version |-> wallets[w].version + 1]
    <3>1. e \in BalanceChanged
      BY <1>1, <2>1, <2>2 DEF BalanceChanged
    <3>2. Append(walletEvents[w], e) \in Seq(BalanceChanged)
      BY <3>1, <1>1 DEF IInv, TypeOK
    <3>3. walletEvents' = [walletEvents EXCEPT ![w] = Append(walletEvents[w], e)]
      BY <1>1, <1>5 DEF Persist, Post, Apply, RecordEntry
    <3> HIDE DEF e
    <3>4. QED BY <3>2, <3>3, <1>1 DEF IInv, TypeOK
  <2>6. QED
    BY <1>2, <1>3, <2>3, <2>4, <2>5 DEF TypeOK
<1>6. QED BY <1>4, <1>5

(* The parts of a commit, as facts about the new state. *)
Effect(id, t, d) ==
    LET w == t.cmd.wallet
        move == MovementOf(d)
    IN  /\ id \in ExternalIds /\ id \in TxIds /\ id \notin WalletIds
        /\ w \in WalletIds
        /\ d \in Row /\ d.cmd = t.cmd
        /\ rows' = [rows EXCEPT ![id] = d]
        /\ \/ /\ move = "NONE"
              /\ wallets' = wallets /\ ledger' = ledger
           \/ /\ move \in {"CREDIT", "DEBIT"}
              /\ d.result \in Minor
              /\ wallets' = [wallets EXCEPT ![w] = [account |-> wallets[w].account,
                    balance |-> d.result, version |-> wallets[w].version + 1]]
              /\ ledger' = [ledger EXCEPT ![w] = Append(ledger[w],
                    [tx |-> id, direction |-> move, money |-> t.cmd.money,
                     before |-> wallets[w].balance, after |-> d.result])]
              /\ move = "CREDIT" => d.result = wallets[w].balance + t.cmd.money
              /\ move = "DEBIT" => d.result = wallets[w].balance - t.cmd.money

(* A committed decision of a subject has just that effect: one row, and either no
   movement or one on the wallet of the transaction. *)
LEMMA PersistEffect ==
    ASSUME IInv, NEW id, NEW t, NEW d, Subject(id, t),
           Decided(t, d, wallets[t.cmd.wallet].balance), Persist(id, d)
    PROVE  Effect(id, t, d)
<1> DEFINE w == t.cmd.wallet
           move == MovementOf(d)
<1>1. /\ id \in ExternalIds /\ id \in TxIds /\ id \notin WalletIds
      /\ w \in WalletIds /\ d.cmd = t.cmd /\ d \in Row
      /\ rows' = [rows EXCEPT ![id] = d]
  BY DomainAssumption DEF Subject, TxIds, Persist, Decided, Outcome
<1>2. move \in {"CREDIT", "DEBIT", "NONE"}
  BY DirectionRange DEF MovementOf
<1>3. CASE move = "NONE"
  BY <1>1, <1>3 DEF Persist, Post, Effect
<1>4. CASE move # "NONE"
  <2>1. d.status = "PROCESSED" /\ move = Direction(t.cmd.kind, RowOf(d.refTx).cmd.kind)
    BY <1>1, <1>4 DEF MovementOf
  <2>2. /\ d.result \in Minor
        /\ move = "CREDIT" => d.result = wallets[w].balance + t.cmd.money
        /\ move = "DEBIT" => d.result = wallets[w].balance - t.cmd.money
    BY <2>1 DEF Decided, Outcome, Terminal
  <2>3. QED
    BY <1>1, <1>2, <1>4, <2>2 DEF Persist, Post, Apply, RecordEntry, Effect
<1>5. QED BY <1>3, <1>4

(* A committed decision leaves every row and wallet well formed. *)
LEMMA PersistShape ==
    ASSUME IInv, NEW id, NEW t, NEW d, Subject(id, t),
           Decided(t, d, wallets[t.cmd.wallet].balance), Persist(id, d)
    PROVE  RowShape' /\ WalletShape'
<1> DEFINE w == t.cmd.wallet
<1>1. Effect(id, t, d)
  BY PersistEffect
<1>2. /\ id \in ExternalIds /\ id \in TxIds /\ id \notin WalletIds /\ w \in WalletIds
      /\ d.cmd = t.cmd /\ rows' = [rows EXCEPT ![id] = d]
  BY <1>1 DEF Effect
<1>3. \A v \in WalletIds : wallets[v].version \in Nat
  BY DEF IInv, TypeOK, Wallet
<1>4. \A v \in WalletIds : v # w => wallets'[v] = wallets[v] /\ ledger'[v] = ledger[v]
  BY <1>1 DEF Effect, IInv, TypeOK
<1>5. \A v \in WalletIds : wallets[v].version > 0 => wallets'[v].version > 0
  <2>1. wallets'[w] = wallets[w] \/ wallets'[w].version = wallets[w].version + 1
    BY <1>1, <1>2 DEF Effect, IInv, TypeOK
  <2>2. QED
    BY <1>3, <1>4, <2>1
<1>6. WalletShape'
  <2>1. SUFFICES ASSUME NEW v \in WalletIds, wallets'[v].version = 0
                 PROVE  /\ wallets'[v].balance = 0 /\ wallets'[v].account = None
                        /\ ledger'[v] = <<>>
    BY DEF WalletShape
  <2>2. wallets[v].version = 0 /\ v # w
    BY <1>3, <1>5, <2>1 DEF Subject
  <2>3. QED
    BY <1>4, <2>2 DEF IInv, WalletShape
<1>7. RowShape'
  <2>1. SUFFICES ASSUME NEW s \in TxIds
                 PROVE  /\ rows'[s].status # "PENDING"
                        /\ rows'[s].status = "NONE" => rows'[s] = NoRow
                        /\ rows'[s].status # "NONE" =>
                              /\ rows'[s].cmd.wallet \in WalletIds
                              /\ wallets'[rows'[s].cmd.wallet].version > 0
                              /\ s \in WalletIds => rows'[s].cmd.wallet = s
                        /\ rows'[s].attempts <= MaxAttempts
                        /\ rows'[s].status \in Terminal => rows'[s].result \in Minor
                        /\ rows'[s].status = "PENDING_REFERENCE" =>
                              /\ rows'[s].attempts > 0
                              /\ s \in ExternalIds
                              /\ rows'[s].cmd.ref \in ExternalIds
                              /\ rows'[s].result = NoResult
    BY DEF RowShape, NoRow
  <2>2. CASE s # id
    <3>1. rows'[s] = rows[s]
      BY <1>2, <2>2 DEF IInv, TypeOK
    <3>2. QED
      BY <3>1, <1>5 DEF IInv, RowShape
  <2>3. CASE s = id
    <3>1. rows'[s] = d
      BY <1>2, <2>3 DEF IInv, TypeOK
    <3>2. d.status \in Terminal \cup {"PENDING_REFERENCE"}
      BY DEF Decided, Outcome, Persist
    <3>3. wallets'[w].version > 0
      BY <1>2, <1>5 DEF Subject
    <3>4. d.attempts <= MaxAttempts
      BY <3>2 DEF Subject, Decided, Outcome
    <3>5. d.status = "PENDING_REFERENCE" =>
            d.attempts > 0 /\ d.cmd.ref \in ExternalIds /\ d.result = NoResult
      BY <1>2 DEF Subject, Decided, Outcome, Row, Terminal
    <3>6. d.status # "PENDING" /\ d.status # "NONE"
      BY <3>2 DEF Terminal
    <3>7. d.status \in Terminal => d.result \in Minor
      BY DEF Decided, Outcome
    <3>8. QED
      BY <1>2, <2>3, <3>1, <3>3, <3>4, <3>5, <3>6, <3>7
  <2>4. QED BY <2>2, <2>3
<1>8. QED BY <1>6, <1>7

(* The chain of one wallet, and that an entry starting at its balance extends it. *)
Chain(l, balance) ==
    /\ \A i \in 1 .. Len(l) :
          /\ l[i].before = IF i = 1 THEN 0 ELSE l[i - 1].after
          /\ l[i].after = IF l[i].direction = "CREDIT" THEN l[i].before + l[i].money
                                                       ELSE l[i].before - l[i].money
    /\ balance = IF l = <<>> THEN 0 ELSE l[Len(l)].after

(* An entry that starts at the balance and adds or takes its money prolongs a chain. *)
LEMMA ChainExtends ==
    ASSUME NEW l \in Seq(Entry), NEW balance, Chain(l, balance), NEW e \in Entry,
           e.before = balance,
           e.after = IF e.direction = "CREDIT" THEN balance + e.money ELSE balance - e.money
    PROVE  Chain(Append(l, e), e.after)
<1> DEFINE n == Len(l)
           m == Append(l, e)
<1>1. n \in Nat /\ Len(m) = n + 1 /\ m[n + 1] = e /\ m # <<>>
  OBVIOUS
<1>2. \A i \in 1 .. n : m[i] = l[i]
  OBVIOUS
<1>3. ASSUME NEW i \in 1 .. n + 1
      PROVE  /\ m[i].before = IF i = 1 THEN 0 ELSE m[i - 1].after
             /\ m[i].after = IF m[i].direction = "CREDIT" THEN m[i].before + m[i].money
                                                          ELSE m[i].before - m[i].money
  <2>1. CASE i \in 1 .. n
    <3>1. m[i] = l[i]
      BY <1>2, <2>1
    <3>2. i # 1 => i - 1 \in 1 .. n /\ m[i - 1] = l[i - 1]
      BY <1>1, <1>2, <2>1
    <3> HIDE DEF m, n
    <3>3. QED
      BY <2>1, <3>1, <3>2 DEF Chain, n
  <2>2. CASE i = n + 1
    <3>1. m[i] = e
      BY <1>1, <2>2
    <3>2. i # 1 => i - 1 = n /\ n \in 1 .. n /\ m[i - 1] = l[n] /\ l # <<>>
      BY <1>1, <1>2, <2>2
    <3>3. i = 1 => l = <<>>
      BY <1>1, <2>2
    <3> HIDE DEF m, n
    <3>4. QED
      BY <3>1, <3>2, <3>3 DEF Chain, n
  <2>3. QED BY <1>1, <2>1, <2>2
<1> HIDE DEF m, n
<1>4. QED
  BY <1>1, <1>3 DEF Chain, m

(* A committed decision extends the chain of its wallet and leaves the others. *)
LEMMA PersistChain ==
    ASSUME IInv, NEW id, NEW t, NEW d, Subject(id, t),
           Decided(t, d, wallets[t.cmd.wallet].balance), Persist(id, d)
    PROVE  LedgerChain'
<1> DEFINE w == t.cmd.wallet
           move == MovementOf(d)
           e == [tx |-> id, direction |-> move, money |-> t.cmd.money,
                 before |-> wallets[w].balance, after |-> d.result]
<1>1. Effect(id, t, d)
  BY PersistEffect
<1>2. \A v \in WalletIds : Chain(ledger[v], wallets[v].balance)
  BY DEF IInv, LedgerChain, Chain
<1>3. SUFFICES ASSUME NEW v \in WalletIds
               PROVE  Chain(ledger'[v], wallets'[v].balance)
  BY DEF LedgerChain, Chain
<1>4. CASE v # w \/ move = "NONE"
  <2>1. ledger'[v] = ledger[v] /\ wallets'[v] = wallets[v]
    BY <1>1, <1>4 DEF Effect, IInv, TypeOK
  <2>2. QED BY <1>2, <2>1
<1>5. CASE v = w /\ move # "NONE"
  <2>1. /\ move \in {"CREDIT", "DEBIT"} /\ d.result \in Minor /\ id \in TxIds
        /\ t.cmd.money \in Minor /\ wallets[w].balance \in Minor
    BY <1>1, <1>5 DEF Effect, IInv, TypeOK, Wallet, Row, RowCommand
  <2>2. e \in Entry
    BY <2>1 DEF Entry
  <2>3. e.before = wallets[w].balance /\ e.after = d.result
        /\ e.direction = move /\ e.money = t.cmd.money
    OBVIOUS
  <2>4. ledger'[w] = Append(ledger[w], e) /\ wallets'[w].balance = d.result
    <3>1. w \in WalletIds /\ wallets \in [WalletIds -> Wallet] /\ ledger \in [WalletIds -> Seq(Entry)]
      BY <1>5 DEF IInv, TypeOK
    <3>2. wallets' = [wallets EXCEPT ![w] = [account |-> wallets[w].account,
                          balance |-> d.result, version |-> wallets[w].version + 1]]
          /\ ledger' = [ledger EXCEPT ![w] = Append(ledger[w], e)]
      BY <1>1, <1>5 DEF Effect
    <3> HIDE DEF w, e
    <3>3. ledger'[w] = Append(ledger[w], e)
      BY <3>1, <3>2
    <3>4. QED
      BY <3>1, <3>2, <3>3
  <2>5. d.result = IF move = "CREDIT" THEN wallets[w].balance + t.cmd.money
                                      ELSE wallets[w].balance - t.cmd.money
    BY <1>1, <1>5, <2>1 DEF Effect
  <2>6. ledger[w] \in Seq(Entry)
    BY <1>5 DEF IInv, TypeOK
  <2> HIDE DEF e, move
  <2>7. Chain(Append(ledger[w], e), e.after)
    BY <1>2, <1>5, <2>2, <2>3, <2>5, <2>6, ChainExtends
  <2>8. QED BY <1>5, <2>3, <2>4, <2>7
<1>6. QED BY <1>4, <1>5

(* A committed decision repeats neither a key nor a successful reversal. *)
LEMMA PersistUnique ==
    ASSUME IInv, NEW id, NEW t, NEW d, Subject(id, t),
           Decided(t, d, wallets[t.cmd.wallet].balance), Persist(id, d)
    PROVE  OneReversal' /\ KeysUnique'
<1>0. Effect(id, t, d)
  BY PersistEffect
<1>1. /\ id \in TxIds /\ d.cmd = t.cmd /\ rows' = [rows EXCEPT ![id] = d]
      /\ rows \in [TxIds -> Row]
  BY <1>0 DEF Effect, IInv, TypeOK
<1>2. \A s \in TxIds : rows'[s] = IF s = id THEN d ELSE rows[s]
  BY <1>1
<1>3. ASSUME d.status = "PROCESSED", t.cmd.kind \in Reversals,
             NEW s \in TxIds, s # id,
             rows[s].status = "PROCESSED", rows[s].cmd.kind \in Reversals
      PROVE  rows[s].refTx # d.refTx
  BY <1>3 DEF Decided, Reverses, SuccessfulReversalExists
<1>4. OneReversal'
  <2>1. \A r, s \in TxIds :
           /\ rows[s].status = "PROCESSED" /\ rows[s].cmd.kind \in Reversals
           /\ rows[r].status = "PROCESSED" /\ rows[r].cmd.kind \in Reversals
           /\ rows[s].refTx = rows[r].refTx
           => s = r
    BY DEF IInv, OneReversal
  <2>2. QED
    BY <1>1, <1>2, <1>3, <2>1 DEF OneReversal
<1>5. \A s \in TxIds : s # id /\ t.cmd.key # None => rows[s].cmd.key # t.cmd.key
  BY <1>1 DEF Subject, IInv, KeysUnique
<1>6. KeysUnique'
  BY <1>1, <1>2, <1>5 DEF KeysUnique, IInv
<1>7. QED BY <1>4, <1>6

(* The whole invariant across a commit. *)
LEMMA PersistKeeps ==
    ASSUME IInv, NEW id, NEW t, NEW d, Subject(id, t),
           Decided(t, d, wallets[t.cmd.wallet].balance), Persist(id, d),
           inbox' \in [Messages -> Commands \cup {None}]
    PROVE  IInv'
<1>1. TypeOK'
  BY PersistTyped
<1>2. RowShape' /\ WalletShape'
  BY PersistShape
<1>3. LedgerChain'
  BY PersistChain
<1>4. OneReversal' /\ KeysUnique'
  BY PersistUnique
<1>5. QED
  BY <1>1, <1>2, <1>3, <1>4 DEF IInv

-----------------------------------------------------------------------------
(* The empty database satisfies the invariant. *)
LEMMA InitKeeps == Init => IInv
<1> SUFFICES ASSUME Init PROVE IInv
  OBVIOUS
<1>1. TypeOK
  <2>1. NoWallet \in Wallet
    BY DomainAssumption DEF NoWallet, Wallet, Minor
  <2>2. QED
    BY <2>1, NoRowShape DEF Init, TypeOK
<1>2. RowShape
  BY NoRowShape, DomainAssumption DEF Init, RowShape, Terminal
<1>3. WalletShape /\ LedgerChain
  BY DEF Init, WalletShape, LedgerChain, NoWallet
<1>4. OneReversal /\ KeysUnique
  BY NoRowShape DEF Init, OneReversal, KeysUnique
<1>5. QED
  BY <1>1, <1>2, <1>3, <1>4 DEF IInv

(* Create: the wallet is new, so it has no row, no entry and a zero balance. *)
LEMMA CreateKeeps ==
    ASSUME IInv, NEW o \in Openings, CreateWallet(o.wallet, o.account, o.money)
    PROVE  IInv'
<1> DEFINE w == o.wallet
           t == MarkProcessed(FreshRow(OpeningCommand(w, o.account, o.money), "PENDING"), o.money)
           e == [tx |-> w, direction |-> "CREDIT", money |-> o.money,
                 before |-> 0, after |-> o.money]
           b == [tx |-> w, before |-> 0, after |-> o.money, version |-> 1]
           new == NewWallet(o.account, o.money)
           s == [status |-> t.status, balance |-> t.result]
<1>1. /\ w \in WalletIds /\ w \in TxIds /\ o.account \in Accounts
      /\ o.money \in Minor /\ o.money \in Nat
  BY LedgerAssumption, DomainAssumption DEF TxIds, Minor
<1>2. /\ wallets[w].version = 0 /\ rows[w].status = "NONE"
      /\ wallets[w].balance = 0 /\ ledger[w] = <<>>
  <2>1. wallets[w].version = 0
    BY <1>1 DEF CreateWallet, Exists, IInv, TypeOK, Wallet
  <2>2. rows[w].status # "NONE" => wallets[w].version > 0
    BY <1>1 DEF IInv, RowShape
  <2>3. QED
    BY <1>1, <2>1, <2>2 DEF IInv, WalletShape
<1>3. /\ t \in Row /\ t.status = "PROCESSED" /\ t.attempts = 0 /\ t.result = o.money
      /\ t.cmd.wallet = w /\ t.cmd.key = None /\ t.cmd.kind = "OPENING"
  <2>1. OpeningCommand(w, o.account, o.money) \in RowCommand
    BY <1>1 DEF OpeningCommand, RowCommand
  <2>2. FreshRow(OpeningCommand(w, o.account, o.money), "PENDING") \in Row
    BY <2>1 DEF FreshRow, Row, Statuses
  <2>3. QED
    BY <1>1, <2>1, <2>2 DEF MarkProcessed, FreshRow, OpeningCommand, Row, Statuses, Terminal
<1>4. new \in Wallet /\ new.version = 1 /\ new.balance = o.money
  BY <1>1 DEF NewWallet, Wallet
<1>5. e \in Entry /\ b \in BalanceChanged /\ s \in WagerEvent
  <2>1. 0 \in Minor /\ 1 \in Nat
    BY DomainAssumption DEF Minor
  <2>2. QED
    BY <1>1, <1>3, <2>1 DEF Entry, BalanceChanged, WagerEvent, Terminal
<1>6. wallets' = [wallets EXCEPT ![w] = new] /\ inbox' = inbox
  BY DEF CreateWallet
<1>7. \/ /\ o.money = 0
         /\ rows' = rows /\ ledger' = ledger
         /\ walletEvents' = walletEvents /\ wagerEvents' = wagerEvents
      \/ /\ rows' = [rows EXCEPT ![w] = t] /\ ledger' = [ledger EXCEPT ![w] = <<e>>]
         /\ walletEvents' = [walletEvents EXCEPT ![w] = <<b>>]
         /\ wagerEvents' = [wagerEvents EXCEPT ![w] = Append(wagerEvents[w], s)]
  BY <1>2 DEF CreateWallet, Emit, Pending
<1> HIDE DEF t, e, b, new, s
<1>8. TypeOK'
  <2>1. <<e>> \in Seq(Entry) /\ <<b>> \in Seq(BalanceChanged)
    BY <1>5
  <2>2. Append(wagerEvents[w], s) \in Seq(WagerEvent)
    BY <1>1, <1>5 DEF IInv, TypeOK
  <2>3. /\ rows \in [TxIds -> Row] /\ wallets \in [WalletIds -> Wallet]
        /\ ledger \in [WalletIds -> Seq(Entry)]
        /\ walletEvents \in [WalletIds -> Seq(BalanceChanged)]
        /\ wagerEvents \in [TxIds -> Seq(WagerEvent)]
        /\ inbox \in [Messages -> Commands \cup {None}]
    BY DEF IInv, TypeOK
  <2>4. wallets' \in [WalletIds -> Wallet] /\ inbox' \in [Messages -> Commands \cup {None}]
    BY <1>4, <1>6, <2>3
  <2>5. rows' \in [TxIds -> Row]
    <3>1. rows' = rows \/ rows' = [rows EXCEPT ![w] = t]
      BY <1>7
    <3>2. QED
      BY <1>3, <2>3, <3>1
  <2>6. ledger' \in [WalletIds -> Seq(Entry)]
    <3>1. ledger' = ledger \/ ledger' = [ledger EXCEPT ![w] = <<e>>]
      BY <1>7
    <3>2. QED
      BY <2>1, <2>3, <3>1
  <2>7. walletEvents' \in [WalletIds -> Seq(BalanceChanged)]
    <3>1. walletEvents' = walletEvents \/ walletEvents' = [walletEvents EXCEPT ![w] = <<b>>]
      BY <1>7
    <3>2. QED
      BY <2>1, <2>3, <3>1
  <2>8. wagerEvents' \in [TxIds -> Seq(WagerEvent)]
    <3> DEFINE more == Append(wagerEvents[w], s)
    <3>1. wagerEvents' = wagerEvents \/ wagerEvents' = [wagerEvents EXCEPT ![w] = more]
      BY <1>7
    <3>2. more \in Seq(WagerEvent)
      BY <2>2
    <3> HIDE DEF more
    <3>3. QED
      BY <2>3, <3>1, <3>2
  <2>9. QED
    BY <2>4, <2>5, <2>6, <2>7, <2>8 DEF TypeOK
<1>9. /\ \A v \in WalletIds : wallets'[v] = IF v = w THEN new ELSE wallets[v]
      /\ \A v \in WalletIds : v # w => ledger'[v] = ledger[v]
      /\ (ledger'[w] = <<>> /\ o.money = 0) \/ ledger'[w] = <<e>>
      /\ \A id \in TxIds : id # w => rows'[id] = rows[id]
      /\ rows'[w] = rows[w] \/ rows'[w] = t
  BY <1>1, <1>2, <1>6, <1>7 DEF IInv, TypeOK
<1>10. RowShape'
  <2>1. \A v \in WalletIds : wallets[v].version > 0 => wallets'[v].version > 0
    BY <1>4, <1>9
  <2>2. wallets'[w].version > 0
    BY <1>1, <1>4, <1>9
  <2>3. ASSUME NEW id \in TxIds
        PROVE  /\ rows'[id].status # "PENDING"
               /\ rows'[id].status = "NONE" => rows'[id] = NoRow
               /\ rows'[id].status # "NONE" =>
                     /\ rows'[id].cmd.wallet \in WalletIds
                     /\ wallets'[rows'[id].cmd.wallet].version > 0
                     /\ id \in WalletIds => rows'[id].cmd.wallet = id
               /\ rows'[id].attempts <= MaxAttempts
               /\ rows'[id].status \in Terminal => rows'[id].result \in Minor
               /\ rows'[id].status = "PENDING_REFERENCE" =>
                     /\ rows'[id].attempts > 0
                     /\ id \in ExternalIds
                     /\ rows'[id].cmd.ref \in ExternalIds
                     /\ rows'[id].result = NoResult
    <3>1. CASE rows'[id] = rows[id]
      BY <3>1, <2>1 DEF IInv, RowShape
    <3>2. CASE id = w /\ rows'[id] = t
      BY <3>2, <1>1, <1>3, <2>2, DomainAssumption
    <3>3. QED BY <1>9, <3>1, <3>2
  <2>4. QED BY <2>3 DEF RowShape, NoRow
<1>11. WalletShape'
  BY <1>4, <1>9 DEF IInv, WalletShape
<1>12. LedgerChain'
  <2>1. Chain(<<e>>, o.money) /\ Chain(<<>>, 0)
    BY <1>1 DEF Chain, e
  <2>2. \A v \in WalletIds : Chain(ledger[v], wallets[v].balance)
    BY DEF IInv, LedgerChain, Chain
  <2>3. \A v \in WalletIds : Chain(ledger'[v], wallets'[v].balance)
    BY <1>4, <1>9, <2>1, <2>2
  <2>4. QED BY <2>3 DEF LedgerChain, Chain
<1>13. OneReversal'
  BY <1>3, <1>9, <1>2 DEF IInv, OneReversal, Reversals
<1>14. KeysUnique'
  BY <1>3, <1>9 DEF IInv, KeysUnique
<1>15. QED
  BY <1>8, <1>10, <1>11, <1>12, <1>13, <1>14 DEF IInv

(* Process of a new command: its transaction is a subject with a free key. *)
LEMMA AcceptKeeps ==
    ASSUME IInv, NEW c \in Commands, NEW m \in Messages \cup {None}, Accept(c, m)
    PROVE  IInv'
<1> DEFINE t == NewWagerTransaction(c)
           balance == wallets[c.wallet].balance
<1>1. /\ c \in Command /\ c.wallet \in WalletIds /\ c.ext \in ExternalIds
      /\ c.key \in Keys /\ c.ref \in ExternalIds \cup {None} /\ ValidCommand(c)
  BY LedgerAssumption DEF Accept, Command
<1>2. rows \in [TxIds -> Row] /\ balance \in Minor
  BY <1>1 DEF IInv, TypeOK, Wallet
<1>3. PICK ref \in ReferenceViews(c) :
        Persist(c.ext, DecideNew(t, wallets[c.wallet].account, ref,
                                 SuccessfulReversalExists(c.ref), balance))
  BY DEF Accept
<1> DEFINE d == DecideNew(t, wallets[c.wallet].account, ref,
                          SuccessfulReversalExists(c.ref), balance)
<1>4. t \in Row /\ Decided(t, d, balance)
  BY <1>1, <1>2, NewDecided
<1>5. t.cmd = c /\ t.result = NoResult /\ t.attempts = 0
  BY DEF NewWagerTransaction, FreshRow
<1>6. Subject(c.ext, t)
  BY <1>1, <1>4, <1>5, DomainAssumption DEF Subject, Accept, KeyIsFree, ExternalIdIsFree, Exists
<1>7. inbox' \in [Messages -> Commands \cup {None}]
  BY DEF Accept, CompleteInbox, IInv, TypeOK
<1>8. Decided(t, d, wallets[t.cmd.wallet].balance) /\ Persist(c.ext, d)
  BY <1>3, <1>4, <1>5
<1> HIDE DEF t, d
<1>9. QED
  BY <1>6, <1>7, <1>8, PersistKeeps

(* The row a worker locks is a subject: it waits, and names a reference. *)
LEMMA WaitingSubject ==
    ASSUME IInv, NEW id \in TxIds, Pending(id)
    PROVE  /\ Subject(id, rows[id]) /\ rows[id] \in Row
           /\ rows[id].cmd.ref \in ExternalIds
           /\ wallets[rows[id].cmd.wallet].balance \in Minor
<1>1. /\ rows[id] \in Row /\ rows[id].status = "PENDING_REFERENCE"
      /\ rows[id].cmd.ref \in ExternalIds /\ rows[id].result = NoResult
      /\ rows[id].attempts <= MaxAttempts
      /\ rows[id].cmd.wallet \in WalletIds /\ wallets[rows[id].cmd.wallet].version > 0
  BY DEF IInv, TypeOK, RowShape, Pending
<1>2. id \in ExternalIds
  BY DEF IInv, Pending, RowShape
<1>3. wallets[rows[id].cmd.wallet].balance \in Minor
  BY <1>1 DEF IInv, TypeOK, Wallet
<1>4. QED
  BY <1>1, <1>2, <1>3 DEF Subject

(* ResolvePendingReference commits a decision of PendingDecided on a waiting row. *)
LEMMA ResolveKeeps ==
    ASSUME IInv, NEW id \in TxIds, ResolvePendingReference(id)
    PROVE  IInv'
<1> DEFINE t == rows[id]
           balance == wallets[t.cmd.wallet].balance
           reversed == SuccessfulReversalExists(t.cmd.ref)
<1>1. /\ Subject(id, t) /\ t \in Row /\ t.cmd.ref \in ExternalIds /\ balance \in Minor
  BY WaitingSubject DEF ResolvePendingReference, StillPending
<1>2. PICK ref \in ReferenceViews(t.cmd) : Persist(id, DecidePending(t, ref, reversed, balance))
  BY DEF ResolvePendingReference
<1>3. Decided(t, DecidePending(t, ref, reversed, balance), balance)
  BY <1>1, PendingDecided DEF IInv, TypeOK
<1>4. inbox' \in [Messages -> Commands \cup {None}]
  BY DEF ResolvePendingReference, IInv, TypeOK
<1> HIDE DEF t
<1>5. QED
  BY <1>1, <1>2, <1>3, <1>4, PersistKeeps

(* RecordPendingReferenceFailure commits a decision of FailureDecided on one. *)
LEMMA FailureKeeps ==
    ASSUME IInv, NEW id \in TxIds, RecordPendingReferenceFailure(id)
    PROVE  IInv'
<1> DEFINE t == rows[id]
           balance == wallets[t.cmd.wallet].balance
<1>1. /\ Subject(id, t) /\ t \in Row /\ t.cmd.ref \in ExternalIds /\ balance \in Minor
  BY WaitingSubject DEF RecordPendingReferenceFailure
<1>2. Persist(id, DecideFailure(t, balance))
  BY DEF RecordPendingReferenceFailure
<1>3. Decided(t, DecideFailure(t, balance), balance)
  BY <1>1, FailureDecided
<1>4. inbox' \in [Messages -> Commands \cup {None}]
  BY DEF RecordPendingReferenceFailure, IInv, TypeOK
<1> HIDE DEF t
<1>5. QED
  BY <1>1, <1>2, <1>3, <1>4, PersistKeeps

(* A row that becomes due changes in nothing else. *)
LEMMA BackoffKeeps ==
    ASSUME IInv, NEW id \in TxIds, BackoffElapses(id)
    PROVE  IInv'
<1> DEFINE d == [rows[id] EXCEPT !.due = TRUE]
<1>1. rows[id] \in Row /\ rows' = [rows EXCEPT ![id] = d]
  BY DEF BackoffElapses, IInv, TypeOK
<1>2. /\ d \in Row /\ d.cmd = rows[id].cmd /\ d.status = rows[id].status
      /\ d.attempts = rows[id].attempts /\ d.refTx = rows[id].refTx
      /\ d.result = rows[id].result
  BY <1>1 DEF Row
<1>3. d.status = "PENDING_REFERENCE"
  BY <1>2 DEF BackoffElapses, Pending
<1> HIDE DEF d
<1>4. TypeOK'
  BY <1>1, <1>2 DEF BackoffElapses, IInv, TypeOK
<1>5. \A s \in TxIds :
        /\ rows'[s].cmd = rows[s].cmd /\ rows'[s].status = rows[s].status
        /\ rows'[s].attempts = rows[s].attempts /\ rows'[s].refTx = rows[s].refTx
        /\ rows'[s].result = rows[s].result
        /\ rows'[s].status = "NONE" => rows'[s] = rows[s]
  BY <1>1, <1>2, <1>3 DEF IInv, TypeOK
<1>6. RowShape'
  BY <1>5 DEF BackoffElapses, IInv, RowShape, NoRow
<1>7. WalletShape' /\ LedgerChain'
  BY DEF BackoffElapses, IInv, WalletShape, LedgerChain
<1>8. OneReversal' /\ KeysUnique'
  BY <1>5 DEF IInv, OneReversal, KeysUnique
<1>9. QED
  BY <1>4, <1>6, <1>7, <1>8 DEF IInv

(* Replay changes the inbox alone. *)
LEMMA ReplayKeeps ==
    ASSUME IInv, NEW c \in Commands, NEW m \in Messages, Replay(c, m)
    PROVE  IInv'
<1>1. inbox' \in [Messages -> Commands \cup {None}]
  BY DEF Replay, IInv, TypeOK
<1>2. QED
  BY <1>1 DEF Replay, IInv, TypeOK, RowShape, WalletShape, LedgerChain, OneReversal, KeysUnique

(* Every committed use case keeps the invariant. *)
LEMMA NextKeeps ==
    ASSUME IInv, [Next]_vars
    PROVE  IInv'
<1>1. CASE \E o \in Openings : CreateWallet(o.wallet, o.account, o.money)
  BY <1>1, CreateKeeps
<1>2. CASE \E c \in Commands, m \in Messages \cup {None} : Accept(c, m)
  BY <1>2, AcceptKeeps
<1>3. CASE \E c \in Commands, m \in Messages : Replay(c, m)
  BY <1>3, ReplayKeeps
<1>4. CASE \E id \in TxIds : BackoffElapses(id)
  BY <1>4, BackoffKeeps
<1>5. CASE \E id \in TxIds : ResolvePendingReference(id)
  BY <1>5, ResolveKeeps
<1>6. CASE \E id \in TxIds : RecordPendingReferenceFailure(id)
  BY <1>6, FailureKeeps
<1>7. CASE UNCHANGED vars
  BY <1>7 DEF vars, IInv, TypeOK, RowShape, WalletShape, LedgerChain, OneReversal, KeysUnique
<1>8. QED
  BY <1>1, <1>2, <1>3, <1>4, <1>5, <1>6, <1>7 DEF Next

(* The strengthened invariant holds in every state of every behaviour. *)
THEOREM Invariant == Spec => []IInv
<1>1. IInv /\ [Next]_vars => IInv'
  BY NextKeeps
<1>2. QED
  BY <1>1, InitKeeps, PTL DEF Spec

(* Every column keeps its type; in particular no balance, entry or stored result
   leaves 0 .. MaxMinor, whatever is credited, debited, reversed or retried. *)
THEOREM TypeCorrect == Spec => []TypeOK
<1>1. IInv => TypeOK
  BY DEF IInv
<1>2. QED BY <1>1, Invariant, PTL

(* The balance of every wallet is the end of an unbroken, arithmetically exact
   chain of ledger entries, after any sequence of committed use cases. *)
THEOREM BalanceIsLedger == Spec => []LedgerChain
<1>1. IInv => LedgerChain
  BY DEF IInv
<1>2. QED BY <1>1, Invariant, PTL

(* No transaction is ever reversed successfully twice, in whatever order refunds,
   rollbacks and their references arrive. *)
THEOREM ReversedAtMostOnce == Spec => []OneReversal
<1>1. IInv => OneReversal
  BY DEF IInv
<1>2. QED BY <1>1, Invariant, PTL

(* No idempotency key is ever spent by two transactions. *)
THEOREM KeySpentOnce == Spec => []KeysUnique
<1>1. IInv => KeysUnique
  BY DEF IInv
<1>2. QED BY <1>1, Invariant, PTL

(* No transaction takes more attempts than allowed, and one that waits names a
   reference and has been counted: the retries of the reference worker end. *)
THEOREM AttemptsAreBounded == Spec => []AttemptsBounded
<1>1. IInv => AttemptsBounded
  BY DomainAssumption DEF IInv, RowShape, AttemptsBounded, Pending
<1>2. QED BY <1>1, Invariant, PTL

-----------------------------------------------------------------------------
(* What a processed reversal keeps true of the transaction it references. *)
Backed(t) ==
    /\ t.refTx \in ExternalIds
    /\ rows[t.refTx].status = "PROCESSED"
    /\ rows[t.refTx].cmd.wallet = t.cmd.wallet
    /\ rows[t.refTx].cmd.money = t.cmd.money
    /\ rows[t.refTx].cmd.kind \in {"BET", "WIN", "REFUND"}
    /\ t.cmd.kind = "REFUND" => rows[t.refTx].cmd.kind = "BET"

ReversalsBacked ==
    \A id \in TxIds :
        rows[id].status = "PROCESSED" /\ rows[id].cmd.kind \in Reversals => Backed(rows[id])

(* EffectExactlyOnce in parts: what an entry says, that it is the only one of its
   transaction, and that a movement has one. *)
Backs(e, w) ==
    /\ rows[e.tx].cmd.wallet = w
    /\ rows[e.tx].cmd.money = e.money
    /\ rows[e.tx].result = e.after
    /\ MovementOf(rows[e.tx]) = e.direction

EntriesBacked ==
    \A w \in WalletIds : \A i \in 1 .. Len(ledger[w]) : Backs(ledger[w][i], w)

EntriesUnique ==
    \A w \in WalletIds : \A i, j \in 1 .. Len(ledger[w]) :
        ledger[w][i].tx = ledger[w][j].tx => i = j

MovementsEntered ==
    \A id \in TxIds :
        MovementOf(rows[id]) # "NONE" =>
            \E i \in 1 .. Len(ledger[rows[id].cmd.wallet]) :
                ledger[rows[id].cmd.wallet][i].tx = id

EInv == ReversalsBacked /\ EntriesBacked /\ EntriesUnique /\ MovementsEntered

-----------------------------------------------------------------------------
(* Part 4: what a step records. *)
(* A row without outcome is written, with the entry of its movement, if it has one. *)
EntryOf(id, d) ==
    [tx |-> id, direction |-> MovementOf(d), money |-> d.cmd.money,
     before |-> wallets[d.cmd.wallet].balance, after |-> d.result]

Recorded(id, d) ==
    /\ id \in TxIds /\ d \in Row /\ d.cmd.wallet \in WalletIds
    /\ rows[id].status \in {"NONE", "PENDING_REFERENCE"}
    /\ rows[id].status # "NONE" => d.cmd = rows[id].cmd
    /\ d.status = "PROCESSED" /\ d.cmd.kind \in Reversals => Backed(d)
    /\ rows' = [rows EXCEPT ![id] = d]
    /\ \/ MovementOf(d) = "NONE" /\ ledger' = ledger
       \/ /\ MovementOf(d) \in {"CREDIT", "DEBIT"}
          /\ EntryOf(id, d) \in Entry
          /\ ledger' = [ledger EXCEPT ![d.cmd.wallet] =
                            Append(ledger[d.cmd.wallet], EntryOf(id, d))]

(* The events of that decision, and the version of the wallet it moved. *)
EventOf(id, d) ==
    [tx |-> id, before |-> wallets[d.cmd.wallet].balance, after |-> d.result,
     version |-> wallets[d.cmd.wallet].version + 1]

Announced(id, d) ==
    /\ d.status \in Terminal \cup {"PENDING_REFERENCE"}
    /\ d.status \in Terminal => d.attempts = rows[id].attempts /\ d.result \in Minor
    /\ d.status = "PENDING_REFERENCE" => d.attempts > 0 /\ d.result = NoResult
    /\ wagerEvents' =
          IF rows[id].status = "PENDING_REFERENCE" /\ d.status = "PENDING_REFERENCE"
          THEN wagerEvents
          ELSE [wagerEvents EXCEPT ![id] =
                   Append(wagerEvents[id], [status |-> d.status, balance |-> d.result])]
    /\ \/ MovementOf(d) = "NONE" /\ wallets' = wallets /\ walletEvents' = walletEvents
       \/ /\ MovementOf(d) # "NONE"
          /\ \A w \in WalletIds : wallets'[w].version =
                wallets[w].version + (IF w = d.cmd.wallet THEN 1 ELSE 0)
          /\ \E before \in {walletEvents[d.cmd.wallet], <<>>} :
                /\ before = <<>> => before = walletEvents[d.cmd.wallet]
                                     \/ ledger[d.cmd.wallet] = <<>>
                /\ walletEvents' = [walletEvents EXCEPT ![d.cmd.wallet] =
                                       Append(before, EventOf(id, d))]

(* Neither rows, ledgers nor events change; a wallet may open without money. *)
Untouched ==
    /\ rows' = rows /\ ledger' = ledger
    /\ walletEvents' = walletEvents /\ wagerEvents' = wagerEvents
    /\ \A w \in WalletIds : wallets'[w].version = wallets[w].version \/ ledger[w] = <<>>

(* The commit of a decision on a subject records it. *)
LEMMA PersistRecords ==
    ASSUME IInv, NEW id, NEW t, NEW d, Subject(id, t),
           Decided(t, d, wallets[t.cmd.wallet].balance), Persist(id, d)
    PROVE  Recorded(id, d)
<1>1. Effect(id, t, d)
  BY PersistEffect
<1>2. /\ id \in TxIds /\ d \in Row /\ d.cmd = t.cmd /\ t.cmd.wallet \in WalletIds
      /\ rows' = [rows EXCEPT ![id] = d]
  BY <1>1 DEF Effect
<1>3. /\ rows[id].status \in {"NONE", "PENDING_REFERENCE"}
      /\ rows[id].status # "NONE" => d.cmd = rows[id].cmd
  BY <1>2 DEF Subject
<1>4. d.status = "PROCESSED" /\ d.cmd.kind \in Reversals => Backed(d)
  BY <1>2 DEF Decided, Reverses, Backed
<1>5. CASE MovementOf(d) = "NONE"
  BY <1>1, <1>2, <1>3, <1>4, <1>5 DEF Effect, Recorded
<1>6. CASE MovementOf(d) # "NONE"
  <2> DEFINE w == t.cmd.wallet
             before == wallets[w].balance
  <2>1. /\ MovementOf(d) \in {"CREDIT", "DEBIT"} /\ d.result \in Minor
        /\ ledger' = [ledger EXCEPT ![w] = Append(ledger[w],
              [tx |-> id, direction |-> MovementOf(d), money |-> t.cmd.money,
               before |-> before, after |-> d.result])]
    BY <1>1, <1>6 DEF Effect
  <2>2. before \in Minor /\ t.cmd.money \in Minor
    BY <1>2 DEF IInv, TypeOK, Wallet, Row, RowCommand
  <2>3. EntryOf(id, d) \in Entry
    BY <1>2, <2>1, <2>2 DEF EntryOf, Entry
  <2>4. ledger' = [ledger EXCEPT ![d.cmd.wallet] =
                      Append(ledger[d.cmd.wallet], EntryOf(id, d))]
    BY <1>2, <2>1 DEF EntryOf
  <2> HIDE DEF before
  <2>5. QED
    BY <1>2, <1>3, <1>4, <2>1, <2>2, <2>3, <2>4 DEF Recorded
<1>7. QED
  BY <1>5, <1>6

(* The commit of a decision announces it. *)
LEMMA PersistAnnounces ==
    ASSUME IInv, NEW id, NEW t, NEW d, Subject(id, t), t.attempts = rows[id].attempts,
           Decided(t, d, wallets[t.cmd.wallet].balance), Persist(id, d)
    PROVE  Announced(id, d)
<1> DEFINE w == t.cmd.wallet
<1>1. /\ Effect(id, t, d)
      /\ d.cmd = t.cmd /\ w \in WalletIds /\ t \in Row /\ t.attempts \in Nat
  <2>1. Effect(id, t, d) /\ t \in Row /\ w \in WalletIds
    BY PersistEffect DEF Subject
  <2>2. d.cmd = t.cmd
    BY <2>1 DEF Effect
  <2>3. t.attempts \in Nat
    BY <2>1 DEF Row
  <2>4. QED
    BY <2>1, <2>2, <2>3
<1>2. /\ d.status \in Terminal \cup {"PENDING_REFERENCE"}
      /\ d.status \in Terminal => d.attempts = rows[id].attempts /\ d.result \in Minor
      /\ d.status = "PENDING_REFERENCE" => d.attempts = t.attempts + 1 /\ d.result = NoResult
  BY DEF Decided, Outcome, Persist, Subject
<1>3. wagerEvents' =
          IF rows[id].status = "PENDING_REFERENCE" /\ d.status = "PENDING_REFERENCE"
          THEN wagerEvents
          ELSE [wagerEvents EXCEPT ![id] =
                   Append(wagerEvents[id], [status |-> d.status, balance |-> d.result])]
  BY DEF Persist, Emit, Pending
<1>4. d.status = "PENDING_REFERENCE" => d.attempts > 0
  BY <1>1, <1>2
<1>5. CASE MovementOf(d) = "NONE"
  <2>1. wallets' = wallets /\ walletEvents' = walletEvents
    BY <1>5 DEF Persist, Post
  <2>2. QED
    BY <1>2, <1>3, <1>4, <1>5, <2>1 DEF Announced
<1>6. CASE MovementOf(d) # "NONE"
  <2>1. wallets' = [wallets EXCEPT ![w] = [account |-> wallets[w].account,
                       balance |-> d.result, version |-> wallets[w].version + 1]]
    BY <1>1, <1>6 DEF Persist, Post, Apply
  <2>2. walletEvents' = [walletEvents EXCEPT ![w] = Append(walletEvents[w],
            [tx |-> id, before |-> wallets[w].balance, after |-> d.result,
             version |-> wallets[w].version + 1])]
    BY <1>1, <1>6 DEF Persist, Post
  <2>3. \A v \in WalletIds : wallets[v].version \in Nat
    BY DEF IInv, TypeOK, Wallet
  <2>4. \A v \in WalletIds : wallets'[v].version =
            wallets[v].version + (IF v = w THEN 1 ELSE 0)
    BY <1>1, <2>1, <2>3 DEF IInv, TypeOK
  <2>5. walletEvents' = [walletEvents EXCEPT ![d.cmd.wallet] =
                            Append(walletEvents[d.cmd.wallet], EventOf(id, d))]
    BY <1>1, <2>2 DEF EventOf
  <2>6. \E before \in {walletEvents[d.cmd.wallet], <<>>} :
            /\ before = <<>> => before = walletEvents[d.cmd.wallet] \/ ledger[d.cmd.wallet] = <<>>
            /\ walletEvents' = [walletEvents EXCEPT ![d.cmd.wallet] = Append(before, EventOf(id, d))]
    BY <2>5
  <2>7. QED
    BY <1>1, <1>2, <1>3, <1>4, <1>6, <2>4, <2>6 DEF Announced
<1>7. QED
  BY <1>5, <1>6

(* A row that becomes due is written without an outcome or a movement. *)
LEMMA BackoffRecords ==
    ASSUME IInv, NEW id \in TxIds, BackoffElapses(id)
    PROVE  \E d : Recorded(id, d) /\ Announced(id, d)
<1> DEFINE d == [rows[id] EXCEPT !.due = TRUE]
<1>1. /\ rows[id] \in Row /\ rows' = [rows EXCEPT ![id] = d] /\ ledger' = ledger
      /\ rows[id].status = "PENDING_REFERENCE" /\ rows[id].cmd.wallet \in WalletIds
      /\ rows[id].attempts > 0 /\ rows[id].result = NoResult
      /\ wallets' = wallets /\ walletEvents' = walletEvents /\ wagerEvents' = wagerEvents
  BY DEF BackoffElapses, Pending, IInv, TypeOK, RowShape
<1>2. /\ d \in Row /\ d.cmd = rows[id].cmd /\ d.status = "PENDING_REFERENCE"
      /\ d.attempts = rows[id].attempts /\ d.result = rows[id].result
  BY <1>1 DEF Row
<1> HIDE DEF d
<1>3. MovementOf(d) = "NONE"
  BY <1>2 DEF MovementOf
<1>4. Recorded(id, d)
  BY <1>1, <1>2, <1>3 DEF Recorded
<1>5. Announced(id, d)
  BY <1>1, <1>2, <1>3 DEF Announced, Terminal
<1>6. QED
  BY <1>4, <1>5

(* A wallet that opens with money records its OPENING transaction. *)
LEMMA CreateRecords ==
    ASSUME IInv, NEW o \in Openings, CreateWallet(o.wallet, o.account, o.money)
    PROVE  Untouched \/ \E d : Recorded(o.wallet, d) /\ Announced(o.wallet, d)
<1> DEFINE w == o.wallet
           d == MarkProcessed(FreshRow(OpeningCommand(w, o.account, o.money), "PENDING"), o.money)
           e == [tx |-> w, direction |-> "CREDIT", money |-> o.money,
                 before |-> 0, after |-> o.money]
           b == [tx |-> w, before |-> 0, after |-> o.money, version |-> 1]
<1>1. w \in WalletIds /\ w \in TxIds /\ o.account \in Accounts /\ o.money \in Minor
  BY LedgerAssumption DEF TxIds
<1>2. /\ wallets[w] \in Wallet /\ wallets[w].version = 0 /\ wallets[w].balance = 0
      /\ ledger[w] = <<>> /\ ledger \in [WalletIds -> Seq(Entry)] /\ rows \in [TxIds -> Row]
      /\ wallets \in [WalletIds -> Wallet]
  BY <1>1 DEF CreateWallet, Exists, IInv, TypeOK, WalletShape, Wallet
<1>3. rows[w].status = "NONE" /\ rows[w].attempts = 0
  <2>1. rows[w].status = "NONE"
    <3>1. rows[w].status # "NONE" => wallets[rows[w].cmd.wallet].version > 0 /\ rows[w].cmd.wallet = w
      BY <1>1 DEF IInv, RowShape
    <3>2. ~ (wallets[w].version > 0)
      BY <1>2
    <3>3. QED
      BY <3>1, <3>2
  <2>2. rows[w] = NoRow
    BY <1>1, <2>1 DEF IInv, RowShape
  <2>3. QED
    BY <2>1, <2>2, NoRowShape
<1>4. /\ d.cmd = OpeningCommand(w, o.account, o.money)
      /\ d.status = "PROCESSED" /\ d.refTx = None /\ d.result = o.money
      /\ d.cmd.kind = "OPENING" /\ d.cmd.wallet = w /\ d.cmd.money = o.money
      /\ d \in Row /\ d.attempts = 0
  <2>1. OpeningCommand(w, o.account, o.money) \in RowCommand
    BY <1>1 DEF OpeningCommand, RowCommand
  <2>2. FreshRow(OpeningCommand(w, o.account, o.money), "PENDING") \in Row
    BY <2>1 DEF FreshRow, Row, Statuses
  <2>3. QED
    BY <1>1, <2>1, <2>2 DEF MarkProcessed, FreshRow, OpeningCommand, Row, Statuses, Terminal
<1>5. e \in Entry /\ 0 \in Minor
  BY <1>1, DomainAssumption DEF Entry, Minor
<1>6. /\ wallets' = [wallets EXCEPT ![w] = NewWallet(o.account, o.money)]
      /\ \/ /\ rows' = rows /\ ledger' = ledger
            /\ walletEvents' = walletEvents /\ wagerEvents' = wagerEvents
         \/ /\ rows' = [rows EXCEPT ![w] = d] /\ ledger' = [ledger EXCEPT ![w] = <<e>>]
            /\ walletEvents' = [walletEvents EXCEPT ![w] = <<b>>] /\ Emit(w, d)
  BY DEF CreateWallet
<1> HIDE DEF d
<1>7. MovementOf(d) = "CREDIT"
  BY <1>4 DEF MovementOf, Direction
<1>8. e = EntryOf(w, d)
  BY <1>2, <1>4, <1>7 DEF EntryOf
<1> HIDE DEF e
<1>9. \A v \in WalletIds : wallets'[v].version =
              wallets[v].version + (IF v = w THEN 1 ELSE 0)
  <2>1. wallets'[w].version = 1 /\ \A v \in WalletIds : v # w => wallets'[v] = wallets[v]
    BY <1>1, <1>2, <1>6 DEF NewWallet
  <2>2. \A v \in WalletIds : wallets[v].version \in Nat
    BY <1>2 DEF Wallet
  <2>3. QED
    BY <1>2, <2>1, <2>2
<1>10. <<e>> = Append(ledger[w], e)
  BY <1>2
<1>11. ASSUME rows' = [rows EXCEPT ![w] = d], ledger' = [ledger EXCEPT ![w] = <<e>>]
       PROVE  Recorded(w, d)
  BY <1>1, <1>3, <1>4, <1>5, <1>7, <1>8, <1>10, <1>11 DEF Recorded, Reversals
<1>12. ASSUME walletEvents' = [walletEvents EXCEPT ![w] = <<b>>], Emit(w, d)
       PROVE  Announced(w, d)
  <2>1. b = EventOf(w, d)
    BY <1>2, <1>4 DEF EventOf
  <2> HIDE DEF b
  <2>2. wagerEvents' = [wagerEvents EXCEPT ![w] =
                           Append(wagerEvents[w], [status |-> d.status, balance |-> d.result])]
    BY <1>3, <1>12 DEF Emit, Pending
  <2>3. <<b>> = Append(<<>>, b)
    OBVIOUS
  <2>4. /\ ledger[d.cmd.wallet] = <<>>
        /\ walletEvents' = [walletEvents EXCEPT ![d.cmd.wallet] = Append(<<>>, EventOf(w, d))]
        /\ \A v \in WalletIds : wallets'[v].version =
              wallets[v].version + (IF v = d.cmd.wallet THEN 1 ELSE 0)
    BY <1>2, <1>4, <1>9, <1>12, <2>1, <2>3
  <2>5. QED
    BY <1>1, <1>3, <1>4, <1>7, <2>2, <2>4 DEF Announced, Terminal
<1>13. ASSUME rows' = rows /\ ledger' = ledger, walletEvents' = walletEvents,
              wagerEvents' = wagerEvents
       PROVE  Untouched
  <2>1. \A v \in WalletIds : v # w => wallets'[v] = wallets[v]
    BY <1>1, <1>2, <1>6
  <2>2. \A v \in WalletIds : wallets'[v].version = wallets[v].version \/ ledger[v] = <<>>
    BY <1>2, <2>1
  <2>3. QED
    BY <1>13, <2>2 DEF Untouched
<1>14. QED
  BY <1>6, <1>11, <1>12, <1>13

(* Every step leaves rows and ledgers alone or records one decision. *)
LEMMA StepRecords ==
    ASSUME IInv, [Next]_vars
    PROVE  Untouched \/ \E id, d : Recorded(id, d) /\ Announced(id, d)
<1>1. ASSUME NEW c \in Commands, NEW m \in Messages \cup {None}, Accept(c, m)
      PROVE  \E id, d : Recorded(id, d) /\ Announced(id, d)
  <2> DEFINE t == NewWagerTransaction(c)
             balance == wallets[c.wallet].balance
  <2>1. /\ c \in Command /\ c.wallet \in WalletIds /\ c.ext \in ExternalIds
        /\ c.key \in Keys /\ c.ref \in ExternalIds \cup {None} /\ ValidCommand(c)
    BY <1>1, LedgerAssumption DEF Accept, Command
  <2>2. rows \in [TxIds -> Row] /\ balance \in Minor
    BY <2>1 DEF IInv, TypeOK, Wallet
  <2>3. PICK ref \in ReferenceViews(c) :
          Persist(c.ext, DecideNew(t, wallets[c.wallet].account, ref,
                                   SuccessfulReversalExists(c.ref), balance))
    BY <1>1 DEF Accept
  <2> DEFINE d == DecideNew(t, wallets[c.wallet].account, ref,
                            SuccessfulReversalExists(c.ref), balance)
  <2>4. t \in Row /\ Decided(t, d, balance)
    BY <2>1, <2>2, NewDecided
  <2>5. t.cmd = c /\ t.result = NoResult /\ t.attempts = 0
    BY DEF NewWagerTransaction, FreshRow
  <2>6. Subject(c.ext, t)
    BY <1>1, <2>1, <2>4, <2>5, DomainAssumption
       DEF Subject, Accept, KeyIsFree, ExternalIdIsFree, Exists
  <2>7. Decided(t, d, wallets[t.cmd.wallet].balance) /\ Persist(c.ext, d)
    BY <2>3, <2>4, <2>5
  <2>8. rows[c.ext].attempts = 0
    BY <1>1, <2>1, NoRowShape DEF Accept, ExternalIdIsFree, TxIds, IInv, RowShape
  <2> HIDE DEF t, d
  <2>9. QED
    BY <2>5, <2>6, <2>7, <2>8, PersistRecords, PersistAnnounces
<1>2. ASSUME NEW id \in TxIds, ResolvePendingReference(id)
      PROVE  \E d : Recorded(id, d) /\ Announced(id, d)
  <2> DEFINE t == rows[id]
             balance == wallets[t.cmd.wallet].balance
             reversed == SuccessfulReversalExists(t.cmd.ref)
  <2>1. /\ Subject(id, t) /\ t \in Row /\ t.cmd.ref \in ExternalIds /\ balance \in Minor
    BY <1>2, WaitingSubject DEF ResolvePendingReference, StillPending
  <2>2. PICK ref \in ReferenceViews(t.cmd) : Persist(id, DecidePending(t, ref, reversed, balance))
    BY <1>2 DEF ResolvePendingReference
  <2>3. Decided(t, DecidePending(t, ref, reversed, balance), balance)
    BY <2>1, PendingDecided DEF IInv, TypeOK
  <2>4. t.attempts = rows[id].attempts
    OBVIOUS
  <2> HIDE DEF t
  <2>5. QED
    BY <2>1, <2>2, <2>3, <2>4, PersistRecords, PersistAnnounces
<1>3. ASSUME NEW id \in TxIds, RecordPendingReferenceFailure(id)
      PROVE  \E d : Recorded(id, d) /\ Announced(id, d)
  <2> DEFINE t == rows[id]
             balance == wallets[t.cmd.wallet].balance
  <2>1. /\ Subject(id, t) /\ t \in Row /\ t.cmd.ref \in ExternalIds /\ balance \in Minor
    BY <1>3, WaitingSubject DEF RecordPendingReferenceFailure
  <2>2. Persist(id, DecideFailure(t, balance))
    BY <1>3 DEF RecordPendingReferenceFailure
  <2>3. Decided(t, DecideFailure(t, balance), balance)
    BY <2>1, FailureDecided
  <2>4. t.attempts = rows[id].attempts
    OBVIOUS
  <2> HIDE DEF t
  <2>5. QED
    BY <2>1, <2>2, <2>3, <2>4, PersistRecords, PersistAnnounces
<1>4. ASSUME NEW c \in Commands, NEW m \in Messages, Replay(c, m)
      PROVE  Untouched
  BY <1>4 DEF Replay, Untouched
<1>5. CASE UNCHANGED vars
  BY <1>5 DEF vars, Untouched
<1>6. QED
  BY <1>1, <1>2, <1>3, <1>4, <1>5, BackoffRecords, CreateRecords DEF Next

-----------------------------------------------------------------------------
(* Part 5: what that keeps. *)
(* The rows after a recorded decision: one changes, and it had no outcome. *)
LEMMA RecordedRows ==
    ASSUME IInv, NEW id, NEW d, Recorded(id, d)
    PROVE  /\ id \in TxIds /\ rows'[id] = d
           /\ rows[id].status \notin Terminal
           /\ \A s \in TxIds : s # id => rows'[s] = rows[s]
           /\ \A s \in TxIds : rows[s].status \in Terminal => s # id /\ rows'[s] = rows[s]
  BY DEF Recorded, IInv, TypeOK, Terminal

(* No step changes the command of a row or a row with an outcome. *)
LEMMA RowsKept ==
    ASSUME IInv, [Next]_vars, NEW id \in TxIds
    PROVE  /\ rows[id].status # "NONE" => rows'[id].cmd = rows[id].cmd
           /\ rows[id].status \in Terminal => rows'[id] = rows[id]
<1>1. CASE Untouched
  BY <1>1 DEF Untouched
<1>2. CASE \E s, d : Recorded(s, d)
  <2>1. PICK s, d : Recorded(s, d)
    BY <1>2
  <2>2. CASE id = s
    <3>1. rows'[id] = d /\ rows[id].status \notin Terminal
      BY <2>1, <2>2, RecordedRows
    <3>2. rows[id].status # "NONE" => d.cmd = rows[id].cmd
      BY <2>1, <2>2 DEF Recorded
    <3>3. QED
      BY <3>1, <3>2
  <2>3. CASE id # s
    BY <2>1, <2>3, RecordedRows
  <2>4. QED
    BY <2>2, <2>3
<1>3. QED
  BY <1>1, <1>2, StepRecords

(* A row that is inserted has the command that was accepted: its key and its external id
   were free, and its policy was valid.  An opening row has no key. *)
LEMMA AcceptInserts ==
    ASSUME IInv, NEW c \in Commands, NEW m, Accept(c, m)
    PROVE  /\ c \in Command /\ c.ext \in TxIds /\ rows[c.ext].status = "NONE"
           /\ rows'[c.ext].cmd = c
           /\ \A id \in TxIds : id # c.ext => rows'[id] = rows[id]
<1>1. c \in Command /\ c.ext \in TxIds
  BY LedgerAssumption DEF Command, TxIds
<1> DEFINE t == NewWagerTransaction(c)
           balance == wallets[c.wallet].balance
<1>2. PICK ref \in ReferenceViews(c) :
        rows' = [rows EXCEPT ![c.ext] =
                    DecideNew(t, wallets[c.wallet].account, ref,
                              SuccessfulReversalExists(c.ref), balance)]
  BY DEF Accept, Persist
<1>3. /\ rows \in [TxIds -> Row] /\ balance \in Minor /\ ValidCommand(c)
  BY <1>1 DEF Accept, IInv, TypeOK, Wallet, Command
<1>4. DecideNew(t, wallets[c.wallet].account, ref,
                SuccessfulReversalExists(c.ref), balance).cmd = t.cmd
  BY <1>1, <1>3, NewDecided DEF Decided, Outcome
<1>5. t.cmd = c
  BY DEF NewWagerTransaction, FreshRow
<1>6. rows[c.ext].status = "NONE"
  BY DEF Accept, ExternalIdIsFree
<1>7. QED
  BY <1>1, <1>2, <1>3, <1>4, <1>5, <1>6

(* So a row that gets a command was inserted by Process, or opens a wallet. *)
LEMMA RowsAppear ==
    ASSUME IInv, [Next]_vars, NEW id \in TxIds, rows'[id].cmd # rows[id].cmd
    PROVE  /\ rows[id].status = "NONE" /\ rows[id].cmd.key = None
           /\ \/ rows'[id].cmd.key = None
              \/ \E c \in Commands :
                    /\ id = c.ext /\ rows'[id].cmd = c
                    /\ KeyIsFree(c) /\ ExternalIdIsFree(c) /\ ValidCommand(c)
<1>1. rows \in [TxIds -> Row] /\ rows[id].status = "NONE" /\ rows[id].cmd.key = None
  BY RowsKept, NoRowShape DEF IInv, TypeOK, RowShape
<1>2. ASSUME NEW c \in Commands, NEW m \in Messages \cup {None}, Accept(c, m)
      PROVE  /\ id = c.ext /\ rows'[id].cmd = c
             /\ KeyIsFree(c) /\ ExternalIdIsFree(c) /\ ValidCommand(c)
  BY <1>2, AcceptInserts DEF Accept
<1>3. ASSUME NEW o \in Openings, CreateWallet(o.wallet, o.account, o.money)
      PROVE  rows'[id].cmd.key = None
  <2> DEFINE cmd == OpeningCommand(o.wallet, o.account, o.money)
             t == MarkProcessed(FreshRow(cmd, "PENDING"), o.money)
  <2>1. t.cmd.key = None
    BY DEF MarkProcessed, FreshRow, OpeningCommand
  <2>2. rows' = rows \/ rows' = [rows EXCEPT ![o.wallet] = t]
    BY <1>3 DEF CreateWallet
  <2> HIDE DEF t
  <2>3. QED
    BY <1>1, <2>1, <2>2
<1>4. ASSUME NEW s \in TxIds, Pending(s), NEW t, rows' = [rows EXCEPT ![s] = t] PROVE FALSE
  BY <1>1, <1>4 DEF Pending
<1>5. ASSUME NEW s \in TxIds,
             \/ BackoffElapses(s) \/ ResolvePendingReference(s)
             \/ RecordPendingReferenceFailure(s)
      PROVE  FALSE
  BY <1>4, <1>5 DEF BackoffElapses, ResolvePendingReference, StillPending,
                    RecordPendingReferenceFailure, Persist
<1>6. rows' # rows
  OBVIOUS
<1>7. QED
  BY <1>1, <1>2, <1>3, <1>5, <1>6 DEF Next, vars, Replay

(* No row is deleted. *)
LEMMA RowsRemain ==
    ASSUME IInv, [Next]_vars, NEW id \in TxIds, rows[id].status # "NONE"
    PROVE  rows'[id].status # "NONE"
<1>1. CASE Untouched
  BY <1>1 DEF Untouched
<1>2. ASSUME NEW s, NEW d, Recorded(s, d), Announced(s, d) PROVE rows'[id].status # "NONE"
  <2>1. d.status # "NONE"
    BY <1>2 DEF Announced, Terminal
  <2>2. QED
    BY <1>2, <2>1, RecordedRows
<1>3. QED
  BY <1>1, <1>2, StepRecords

(* A completed inbox row stays; one is completed by the command of a stored transaction,
   or by one that is accepted. *)
LEMMA InboxStep ==
    ASSUME IInv, [Next]_vars, NEW m \in Messages, inbox'[m] # inbox[m]
    PROVE  /\ inbox[m] = None
           /\ \E c \in Commands :
                 /\ inbox'[m] = c
                 /\ \/ \E id \in TxIds : rows'[id] = rows[id] /\ rows[id].cmd = c
                    \/ Accept(c, m)
<1>1. inbox \in [Messages -> Commands \cup {None}] /\ inbox' # inbox
  BY DEF IInv, TypeOK
<1>2. PICK c \in Commands, n \in Messages \cup {None} :
          Accept(c, n) \/ (Replay(c, n) /\ n \in Messages)
  BY <1>1 DEF Next, vars, CreateWallet, BackoffElapses, ResolvePendingReference,
              RecordPendingReferenceFailure
<1>3. n = m /\ inbox'[m] = c /\ inbox[m] = None
  BY <1>1, <1>2, LedgerAssumption DEF Accept, Replay, CompleteInbox
<1>4. QED
  BY <1>2, <1>3 DEF Replay, SamePayload

(* A wallet stays. *)
LEMMA WalletsStay ==
    ASSUME IInv, [Next]_vars, NEW w \in WalletIds, Exists(w)
    PROVE  Exists(w)'
<1>1. wallets \in [WalletIds -> Wallet] /\ \A v \in WalletIds : wallets[v].version \in Nat
  BY DEF IInv, TypeOK, Wallet
<1>2. ASSUME NEW v, NEW wallet, wallet.version = 1 \/ wallet.version = wallets[v].version + 1,
             wallets' = [wallets EXCEPT ![v] = wallet]
      PROVE  Exists(w)'
  BY <1>1, <1>2 DEF Exists
<1>3. ASSUME wallets' = wallets PROVE Exists(w)'
  BY <1>3 DEF Exists
<1>4. ASSUME NEW id, NEW t, NEW direction, Post(id, t, direction) PROVE Exists(w)'
  BY <1>2, <1>3, <1>4 DEF Post, Apply
<1>5. ASSUME NEW v, NEW account, NEW money, CreateWallet(v, account, money) PROVE Exists(w)'
  BY <1>2, <1>5 DEF CreateWallet, NewWallet
<1>6. QED
  BY <1>3, <1>4, <1>5 DEF Next, vars, Accept, Replay, BackoffElapses, ResolvePendingReference,
                         RecordPendingReferenceFailure, Persist

(* So does its owner. *)
LEMMA OwnersStay ==
    ASSUME IInv, [Next]_vars, NEW w \in WalletIds, Exists(w)
    PROVE  wallets'[w].account = wallets[w].account
<1>1. wallets \in [WalletIds -> Wallet]
  BY DEF IInv, TypeOK
<1>2. ASSUME NEW id, NEW t, NEW direction, Post(id, t, direction)
      PROVE  wallets'[w].account = wallets[w].account
  BY <1>1, <1>2 DEF Post, Apply
<1>3. ASSUME NEW v, NEW account, NEW money, CreateWallet(v, account, money)
      PROVE  wallets'[w].account = wallets[w].account
  BY <1>1, <1>3 DEF CreateWallet, Exists
<1>4. QED
  BY <1>2, <1>3 DEF Next, vars, Accept, Replay, BackoffElapses, ResolvePendingReference,
                    RecordPendingReferenceFailure, Persist

(* A transaction that has waited keeps having waited. *)
LEMMA WaitsStay ==
    ASSUME IInv, [Next]_vars, NEW id \in TxIds, rows[id].attempts > 0
    PROVE  rows'[id].attempts > 0
<1>1. CASE Untouched
  BY <1>1 DEF Untouched
<1>2. ASSUME NEW s, NEW d, Recorded(s, d), Announced(s, d) PROVE rows'[id].attempts > 0
  BY <1>2, RecordedRows DEF Announced
<1>3. QED
  BY <1>1, <1>2, StepRecords

(* What Process of a new command commits: a wait, or an outcome whose result is the
   balance of the wallet in the same commit. *)
LEMMA NewCommitted ==
    ASSUME IInv, NEW c \in Commands, NEW m, Accept(c, m)
    PROVE  LET d == rows'[c.ext]
           IN  /\ d \in Row /\ d.cmd = c
               /\ d.status \in Terminal => d.result = wallets'[c.wallet].balance
               /\ d.status \notin Terminal => d.status = "PENDING_REFERENCE" /\ d.attempts > 0
<1> DEFINE t == NewWagerTransaction(c)
           balance == wallets[c.wallet].balance
<1>1. /\ c \in Command /\ c.ext \in TxIds /\ c.wallet \in WalletIds
      /\ rows \in [TxIds -> Row] /\ balance \in Minor /\ ValidCommand(c)
      /\ wallets \in [WalletIds -> Wallet]
  BY LedgerAssumption DEF Accept, IInv, TypeOK, Wallet, Command, TxIds
<1>2. PICK ref \in ReferenceViews(c) :
        Persist(c.ext, DecideNew(t, wallets[c.wallet].account, ref,
                                 SuccessfulReversalExists(c.ref), balance))
  BY DEF Accept
<1> DEFINE d == DecideNew(t, wallets[c.wallet].account, ref,
                          SuccessfulReversalExists(c.ref), balance)
<1>3. Decided(t, d, balance)
  BY <1>1, NewDecided
<1>4. t.cmd = c /\ t.attempts = 0
  BY DEF NewWagerTransaction, FreshRow
<1> HIDE DEF t, d
<1>5. /\ d \in Row /\ d.cmd = c /\ d.status \in Terminal \cup {"PENDING_REFERENCE"}
      /\ d.status = "PENDING_REFERENCE" => d.attempts = 1
  <2>1. PICK kind : Outcome(t, d, kind, balance)
    BY <1>3 DEF Decided
  <2>2. d.status # "PENDING"
    BY <1>2 DEF d, Persist
  <2>3. QED
    BY <1>4, <2>1, <2>2 DEF Outcome
<1>6. rows'[c.ext] = d /\ Post(c.ext, d, MovementOf(d))
  BY <1>1, <1>2 DEF d, Persist
<1>7. CASE MovementOf(d) # "NONE"
  BY <1>1, <1>5, <1>6, <1>7 DEF Post, Apply, Terminal
<1>8. CASE MovementOf(d) = "NONE"
  <2>1. wallets' = wallets
    BY <1>6, <1>8 DEF Post
  <2>2. d.status \in Terminal => d.result = balance
    BY <1>3, <1>4, <1>5, <1>8 DEF MovementOf, Decided, Outcome, Terminal
  <2>3. QED
    BY <1>5, <1>6, <2>1, <2>2
<1>9. QED
  BY <1>7, <1>8

(* A new transaction waits only when the reference it has read has no outcome. *)
LEMMA NewWaits ==
    ASSUME IInv, NEW c \in Commands, NEW m, Accept(c, m), Pending(c.ext)'
    PROVE  c.ref # None /\ \E ref \in ReferenceViews(c) : ReferenceIsPending(ref)
<1> DEFINE t == NewWagerTransaction(c)
           owner == wallets[c.wallet].account
           balance == wallets[c.wallet].balance
           reversed == SuccessfulReversalExists(c.ref)
           resolved == ResolveReference(t, c.ref)
<1>1. /\ c \in Command /\ c.ext \in TxIds /\ c.wallet \in WalletIds
      /\ rows \in [TxIds -> Row] /\ balance \in Minor /\ ValidCommand(c)
  BY LedgerAssumption DEF Accept, IInv, TypeOK, Wallet, Command, TxIds
<1>2. PICK ref \in ReferenceViews(c) : Persist(c.ext, DecideNew(t, owner, ref, reversed, balance))
  BY DEF Accept
<1>3. DecideNew(t, owner, ref, reversed, balance).status = "PENDING_REFERENCE"
  BY <1>1, <1>2 DEF Persist, Pending
<1>4. t \in Row /\ t.cmd = c /\ t.status = "PENDING"
  <2>1. t \in Row
    BY <1>1, <1>2, NewDecided
  <2>2. QED
    BY <2>1 DEF NewWagerTransaction, FreshRow
<1> HIDE DEF t
<1>5. owner = c.account
  BY <1>3, <1>4 DEF DecideNew, Reject, Row
<1>6. c.ref # None
  <2> SUFFICES ASSUME c.ref = None PROVE FALSE
    OBVIOUS
  <2>1. c.kind \in {"BET", "WIN", "LOSS"}
    BY <1>1 DEF ValidCommand, ExternalKinds, Reversals
  <2>2. Direction(c.kind, None) = Direction(c.kind, "OPENING")
    BY <2>1 DEF Direction
  <2>3. Finalize(t, Direction(c.kind, "OPENING"), balance).status = "PENDING_REFERENCE"
    BY <1>3, <1>4, <1>5, <2>2 DEF DecideNew
  <2>4. QED
    BY <1>1, <1>4, <2>3, FinalizeOutcome
<1>7. ASSUME ~ ReferenceIsPending(ref) PROVE FALSE
  <2>1. resolved \in Row /\ resolved.cmd = c /\ resolved.status = "PENDING"
    BY <1>1, <1>4, <1>6 DEF ResolveReference, Row, Statuses, Command, TxIds
  <2>2. Settle(t, c.ref, ref, reversed, balance).status = "PENDING_REFERENCE"
    BY <1>3, <1>4, <1>5, <1>6, <1>7 DEF DecideNew
  <2>3. \A code : Reject(resolved, code, balance).status # "PENDING_REFERENCE"
    BY <2>1 DEF Reject, Row
  <2>4. Finalize(resolved, Direction(c.kind, ref.cmd.kind), balance).status # "PENDING_REFERENCE"
    BY <1>1, <2>1, FinalizeOutcome
  <2> HIDE DEF resolved, reversed, balance
  <2>5. QED
    BY <2>1, <2>2, <2>3, <2>4 DEF Settle, resolved
<1>8. QED
  BY <1>6, <1>7

(* The row of a command from outside is the one its external id names. *)
KeyedByExternalId == \A id \in TxIds : rows[id].cmd.key # None => rows[id].cmd.ext = id

LEMMA NamedInvariant == Spec => []KeyedByExternalId
<1>1. Init => KeyedByExternalId
  BY DEF Init, KeyedByExternalId, NoRow, FreshRow, OpeningCommand
<1>2. IInv /\ KeyedByExternalId /\ [Next]_vars => KeyedByExternalId'
  <2> SUFFICES ASSUME IInv, KeyedByExternalId, [Next]_vars, NEW id \in TxIds, rows'[id].cmd.key # None
               PROVE  rows'[id].cmd.ext = id
    BY DEF KeyedByExternalId, TxIds
  <2>1. CASE rows'[id].cmd = rows[id].cmd
    BY <2>1 DEF KeyedByExternalId
  <2>2. CASE rows'[id].cmd # rows[id].cmd
    BY <2>2, RowsAppear
  <2>3. QED
    BY <2>1, <2>2
<1>3. QED
  BY <1>1, <1>2, Invariant, PTL DEF Spec

(* A processed reversal stays backed, for its reference has an outcome. *)
LEMMA BackedKept ==
    ASSUME IInv, NEW id, NEW d, Recorded(id, d), NEW t, Backed(t)
    PROVE  Backed(t)' /\ t.refTx \in TxIds /\ t.refTx # id
<1>1. t.refTx \in TxIds /\ rows[t.refTx].status \in Terminal
  BY DEF Backed, TxIds, Terminal
<1>2. rows'[t.refTx] = rows[t.refTx] /\ t.refTx # id
  BY <1>1, RecordedRows
<1>3. QED
  BY <1>1, <1>2 DEF Backed

(* The movement of a processed transaction stays what it was: only a rollback looks
   at its reference. *)
LEMMA MovementKept ==
    ASSUME IInv, NEW id, NEW d, Recorded(id, d), NEW t,
           t.status = "PROCESSED" /\ t.cmd.kind \in Reversals => Backed(t)
    PROVE  MovementOf(t)' = MovementOf(t)
<1>1. CASE t.status # "PROCESSED"
  BY <1>1 DEF MovementOf
<1>2. CASE t.status = "PROCESSED" /\ t.cmd.kind # "ROLLBACK"
  BY <1>2 DEF MovementOf, Direction
<1>3. CASE t.status = "PROCESSED" /\ t.cmd.kind = "ROLLBACK"
  <2>1. Backed(t)
    BY <1>3 DEF Reversals
  <2>2. t.refTx \in TxIds /\ t.refTx # id /\ t.refTx # None
    BY <2>1, BackedKept, DomainAssumption DEF Backed
  <2>3. rows'[t.refTx] = rows[t.refTx]
    BY <2>2, RecordedRows
  <2>4. RowOf(t.refTx)' = RowOf(t.refTx)
    BY <2>2, <2>3 DEF RowOf
  <2>5. QED
    BY <1>3, <2>4 DEF MovementOf
<1>4. QED
  BY <1>1, <1>2, <1>3

LEMMA RowsMoveAlike ==
    ASSUME IInv, ReversalsBacked, NEW id, NEW d, Recorded(id, d)
    PROVE  /\ ReversalsBacked'
           /\ MovementOf(rows[id]) = "NONE"
           /\ MovementOf(rows[id])' = MovementOf(d)
           /\ \A s \in TxIds : s # id => MovementOf(rows[s])' = MovementOf(rows[s])
<1>1. ReversalsBacked'
  <2> SUFFICES ASSUME NEW s \in TxIds, rows'[s].status = "PROCESSED",
                      rows'[s].cmd.kind \in Reversals
               PROVE  Backed(rows[s])'
    BY DEF ReversalsBacked
  <2> PICK t : t = rows'[s]
    OBVIOUS
  <2>1. Backed(t)
    <3>1. CASE s = id
      BY <3>1, RecordedRows DEF Recorded
    <3>2. CASE s # id
      BY <3>2, RecordedRows DEF ReversalsBacked
    <3>3. QED
      BY <3>1, <3>2
  <2>2. Backed(t)'
    BY <2>1, BackedKept
  <2>3. QED
    BY <2>2 DEF Backed
<1>2. MovementOf(rows[id]) = "NONE"
  BY DEF Recorded, MovementOf
<1>3. MovementOf(rows[id])' = MovementOf(d)
  <2>1. rows'[id] = d
    BY RecordedRows
  <2>2. MovementOf(d)' = MovementOf(d)
    BY MovementKept DEF Recorded
  <2>3. MovementOf(rows[id])' = MovementOf(d)'
    BY <2>1 DEF MovementOf, RowOf
  <2>4. QED
    BY <2>2, <2>3
<1>4. ASSUME NEW s \in TxIds, s # id
      PROVE  MovementOf(rows[s])' = MovementOf(rows[s])
  <2> PICK t : t = rows[s]
    OBVIOUS
  <2>1. rows'[s] = t
    BY <1>4, RecordedRows
  <2>2. t.status = "PROCESSED" /\ t.cmd.kind \in Reversals => Backed(t)
    BY DEF ReversalsBacked
  <2>3. MovementOf(t)' = MovementOf(t)
    BY <2>2, MovementKept
  <2>4. MovementOf(rows[s])' = MovementOf(t)'
    BY <2>1 DEF MovementOf, RowOf
  <2>5. QED
    BY <2>3, <2>4
<1>5. QED
  BY <1>1, <1>2, <1>3, <1>4

-----------------------------------------------------------------------------
(* The ledgers after a recorded decision: what was there stays where it was, and a
   movement adds its entry at the end of the ledger of its wallet. *)
LEMMA LedgerGrows ==
    ASSUME IInv, NEW id, NEW d, Recorded(id, d)
    PROVE  /\ d.cmd.wallet \in WalletIds
           /\ \A v \in WalletIds : Len(ledger[v]) \in Nat
           /\ \A v \in WalletIds : v # d.cmd.wallet => ledger'[v] = ledger[v]
           /\ \A i \in 1 .. Len(ledger[d.cmd.wallet]) :
                 /\ i \in 1 .. Len(ledger'[d.cmd.wallet])
                 /\ ledger'[d.cmd.wallet][i] = ledger[d.cmd.wallet][i]
           /\ MovementOf(d) = "NONE" =>
                 Len(ledger'[d.cmd.wallet]) = Len(ledger[d.cmd.wallet])
           /\ MovementOf(d) # "NONE" =>
                 LET n == Len(ledger[d.cmd.wallet]) + 1
                     e == ledger'[d.cmd.wallet][n]
                 IN  /\ Len(ledger'[d.cmd.wallet]) = n
                     /\ e.tx = id /\ e.direction = MovementOf(d)
                     /\ e.money = d.cmd.money /\ e.after = d.result
<1> DEFINE w == d.cmd.wallet
<1>1. w \in WalletIds /\ ledger \in [WalletIds -> Seq(Entry)]
  BY DEF Recorded, IInv, TypeOK
<1>2. \A v \in WalletIds : ledger[v] \in Seq(Entry) /\ Len(ledger[v]) \in Nat
  BY <1>1
<1>3. CASE MovementOf(d) = "NONE"
  <2>1. ledger' = ledger
    BY <1>3 DEF Recorded
  <2>2. QED
    BY <1>1, <1>2, <1>3, <2>1
<1>4. CASE MovementOf(d) # "NONE"
  <2>1. /\ EntryOf(id, d) \in Entry
        /\ ledger' = [ledger EXCEPT ![w] = Append(ledger[w], EntryOf(id, d))]
    BY <1>4 DEF Recorded
  <2>2. PICK e \in Entry : e = EntryOf(id, d)
    BY <2>1
  <2>3. /\ e.tx = id /\ e.direction = MovementOf(d)
        /\ e.money = d.cmd.money /\ e.after = d.result
    BY <2>2 DEF EntryOf
  <2> HIDE DEF w
  <2>4. ledger'[w] = Append(ledger[w], e) /\ \A v \in WalletIds : v # w => ledger'[v] = ledger[v]
    BY <1>1, <2>1, <2>2
  <2>5. /\ Len(ledger'[w]) = Len(ledger[w]) + 1
        /\ ledger'[w][Len(ledger[w]) + 1] = e
        /\ \A i \in 1 .. Len(ledger[w]) : ledger'[w][i] = ledger[w][i]
    BY <1>1, <1>2, <2>4
  <2>6. \A i \in 1 .. Len(ledger[w]) : i \in 1 .. Len(ledger'[w])
    BY <1>1, <1>2, <2>5
  <2>7. QED
    BY <1>1, <1>2, <1>4, <2>3, <2>4, <2>5, <2>6 DEF w
<1>5. QED
  BY <1>3, <1>4

(* The same, one ledger at a time. *)
LEMMA LedgerStays ==
    ASSUME IInv, NEW id, NEW d, Recorded(id, d), NEW v \in WalletIds,
           v # d.cmd.wallet \/ MovementOf(d) = "NONE"
    PROVE  ledger'[v] = ledger[v]
<1>1. CASE v # d.cmd.wallet
  BY <1>1, LedgerGrows
<1>2. CASE MovementOf(d) = "NONE"
  BY <1>2 DEF Recorded
<1>3. QED
  BY <1>1, <1>2

LEMMA OldEntryStays ==
    ASSUME IInv, NEW id, NEW d, Recorded(id, d), NEW v \in WalletIds,
           NEW i \in 1 .. Len(ledger[v])
    PROVE  i \in 1 .. Len(ledger'[v]) /\ ledger'[v][i] = ledger[v][i]
<1>1. CASE v = d.cmd.wallet
  BY <1>1, LedgerGrows
<1>2. CASE v # d.cmd.wallet
  BY <1>2, LedgerStays
<1>3. QED
  BY <1>1, <1>2

LEMMA EntryAdded ==
    ASSUME IInv, NEW id, NEW d, Recorded(id, d), MovementOf(d) # "NONE", NEW n,
           n = Len(ledger[d.cmd.wallet]) + 1
    PROVE  /\ Len(ledger'[d.cmd.wallet]) = n /\ n \in 1 .. n
           /\ ledger'[d.cmd.wallet][n].tx = id
<1> DEFINE w == d.cmd.wallet
<1>1. /\ w \in WalletIds /\ Len(ledger'[w]) = Len(ledger[w]) + 1
      /\ ledger'[w][Len(ledger[w]) + 1].tx = id
  BY LedgerGrows
<1>2. Len(ledger[w]) \in Nat
  BY <1>1, LedgerGrows
<1> HIDE DEF w
<1>3. n = Len(ledger[w]) + 1
  BY DEF w
<1>4. QED
  BY <1>1, <1>2, <1>3 DEF w

(* A ledger entry moves money, so its transaction is not one still to be decided. *)
LEMMA EntryNotOf ==
    ASSUME IInv, EInv, NEW id, NEW d, Recorded(id, d),
           NEW w \in WalletIds, NEW i \in 1 .. Len(ledger[w])
    PROVE  /\ ledger[w][i].tx \in TxIds /\ ledger[w][i].tx # id
           /\ ledger[w][i].direction # "NONE"
<1>1. ledger[w][i] \in Entry
  BY DEF IInv, TypeOK
<1>2. ledger[w][i].tx \in TxIds /\ ledger[w][i].direction # "NONE"
  BY <1>1 DEF Entry
<1>3. MovementOf(rows[ledger[w][i].tx]) = ledger[w][i].direction
  BY DEF EInv, EntriesBacked, Backs
<1>4. QED
  BY <1>2, <1>3, RowsMoveAlike DEF EInv

LEMMA EntriesBackedKept ==
    ASSUME IInv, EInv, NEW id, NEW d, Recorded(id, d)
    PROVE  EntriesBacked'
<1> DEFINE w == d.cmd.wallet
<1> SUFFICES ASSUME NEW v \in WalletIds, NEW i \in 1 .. Len(ledger'[v])
             PROVE  Backs(ledger[v][i], v)'
  BY DEF EntriesBacked
<1>1. CASE i \in 1 .. Len(ledger[v])
  <2> PICK e : e = ledger[v][i]
    OBVIOUS
  <2>1. ledger'[v][i] = e
    BY <1>1, LedgerGrows
  <2>2. e.tx \in TxIds /\ e.tx # id
    BY <1>1, EntryNotOf
  <2>3. rows'[e.tx] = rows[e.tx] /\ MovementOf(rows[e.tx])' = MovementOf(rows[e.tx])
    BY <2>2, RecordedRows, RowsMoveAlike DEF EInv
  <2>4. Backs(e, v)
    BY <1>1 DEF EInv, EntriesBacked
  <2>5. Backs(e, v)'
    BY <2>3, <2>4 DEF Backs
  <2>6. QED
    BY <2>1, <2>5 DEF Backs, MovementOf, RowOf
<1>2. CASE i \notin 1 .. Len(ledger[v])
  <2>1. v = w /\ MovementOf(d) # "NONE" /\ i = Len(ledger[w]) + 1
    BY <1>2, LedgerGrows
  <2>2. /\ ledger'[v][i].tx = id /\ ledger'[v][i].direction = MovementOf(d)
        /\ ledger'[v][i].money = d.cmd.money /\ ledger'[v][i].after = d.result
    BY <2>1, LedgerGrows
  <2>3. rows'[id] = d /\ MovementOf(rows[id])' = MovementOf(d)
    BY RecordedRows, RowsMoveAlike DEF EInv
  <2> PICK e : e = ledger'[v][i]
    OBVIOUS
  <2>4. Backs(e, v)'
    BY <2>1, <2>2, <2>3 DEF Backs
  <2>5. QED
    BY <2>4 DEF Backs, MovementOf, RowOf
<1>3. QED
  BY <1>1, <1>2

LEMMA EntriesUniqueKept ==
    ASSUME IInv, EInv, NEW id, NEW d, Recorded(id, d)
    PROVE  EntriesUnique'
<1> SUFFICES ASSUME NEW v \in WalletIds, NEW i \in 1 .. Len(ledger'[v]),
                    NEW j \in 1 .. Len(ledger'[v]), ledger'[v][i].tx = ledger'[v][j].tx
             PROVE  i = j
  BY DEF EntriesUnique
<1>1. ASSUME NEW k \in 1 .. Len(ledger'[v])
      PROVE  \/ /\ k \in 1 .. Len(ledger[v]) /\ ledger'[v][k] = ledger[v][k]
                /\ ledger[v][k].tx # id
             \/ k = Len(ledger[v]) + 1 /\ ledger'[v][k].tx = id
  <2>1. CASE k \in 1 .. Len(ledger[v])
    BY <2>1, OldEntryStays, EntryNotOf
  <2>2. CASE k \notin 1 .. Len(ledger[v])
    <3>1. v = d.cmd.wallet
      BY <2>2, LedgerStays
    <3>2. MovementOf(d) # "NONE"
      BY <2>2, LedgerStays
    <3>3. Len(ledger'[v]) = Len(ledger[v]) + 1 /\ ledger'[v][Len(ledger[v]) + 1].tx = id
      BY <3>1, <3>2, EntryAdded
    <3>4. k = Len(ledger[v]) + 1
      <4>1. Len(ledger[v]) \in Nat
        BY DEF IInv, TypeOK
      <4>2. QED
        BY <2>2, <3>3, <4>1
    <3>5. QED
      BY <3>3, <3>4
  <2>3. QED
    BY <2>1, <2>2
<1>2. QED
  BY <1>1 DEF EInv, EntriesUnique

LEMMA MovementsEnteredKept ==
    ASSUME IInv, EInv, NEW id, NEW d, Recorded(id, d)
    PROVE  MovementsEntered'
<1> SUFFICES ASSUME NEW s \in TxIds, MovementOf(rows[s])' # "NONE"
             PROVE  \E i \in 1 .. Len(ledger'[rows'[s].cmd.wallet]) :
                        ledger'[rows'[s].cmd.wallet][i].tx = s
  BY DEF MovementsEntered
<1>1. CASE s = id
  <2>1. rows'[s] = d /\ MovementOf(d) # "NONE"
    BY <1>1, RecordedRows, RowsMoveAlike DEF EInv
  <2> DEFINE n == Len(ledger[d.cmd.wallet]) + 1
  <2>2. n \in 1 .. Len(ledger'[d.cmd.wallet]) /\ ledger'[d.cmd.wallet][n].tx = s
    BY <1>1, <2>1, EntryAdded
  <2>3. QED
    BY <2>1, <2>2
<1>2. CASE s # id
  <2>1. rows'[s] = rows[s] /\ MovementOf(rows[s]) # "NONE"
    BY <1>2, RecordedRows, RowsMoveAlike DEF EInv
  <2> DEFINE v == rows[s].cmd.wallet
  <2>2. PICK i \in 1 .. Len(ledger[v]) : ledger[v][i].tx = s
    BY <2>1 DEF EInv, MovementsEntered
  <2>3. v \in WalletIds
    BY <2>1 DEF MovementOf, IInv, RowShape
  <2>4. i \in 1 .. Len(ledger'[v]) /\ ledger'[v][i] = ledger[v][i]
    BY <2>3, LedgerGrows
  <2>5. QED
    BY <2>1, <2>2, <2>4
<1>3. QED
  BY <1>1, <1>2

(* Transaction t has an entry in l that undoes an earlier one of r. *)
Undone(l, r, t) ==
    \E i, j \in 1 .. Len(l) :
        /\ i < j
        /\ l[i].tx = r /\ l[j].tx = t
        /\ l[i].money = l[j].money
        /\ l[i].direction # l[j].direction

LEMMA UndoneBy ==
    ASSUME NEW l, NEW r, NEW t, NEW i \in 1 .. Len(l), NEW j \in 1 .. Len(l), i < j,
           l[i].tx = r, l[j].tx = t, l[i].money = l[j].money, l[i].direction # l[j].direction
    PROVE  Undone(l, r, t)
  BY DEF Undone

LEMMA UndoneAll ==
    ASSUME ReversalUndoes, NEW s \in TxIds, rows[s].status = "PROCESSED",
           rows[s].cmd.kind \in Reversals
    PROVE  Undone(ledger[rows[s].cmd.wallet], rows[s].refTx, s)
  BY DEF ReversalUndoes, Undone

(* The reference of a new reversal already has its entry, of the opposite direction. *)
LEMMA ReversalUndoesKept ==
    ASSUME IInv, EInv, ReversalUndoes, NEW id, NEW d, Recorded(id, d)
    PROVE  ReversalUndoes'
<1> SUFFICES ASSUME NEW s \in TxIds, rows'[s].status = "PROCESSED",
                    rows'[s].cmd.kind \in Reversals
             PROVE  Undone(ledger'[rows'[s].cmd.wallet], rows'[s].refTx, s)
  BY DEF ReversalUndoes, Undone
<1>1. CASE s = id
  <2> DEFINE w == d.cmd.wallet
             r == d.refTx
             n == Len(ledger[w]) + 1
  <2>1. rows'[s] = d
    BY <1>1, RecordedRows
  <2>2. Backed(d)
    BY <1>1, <2>1 DEF Recorded
  <2>3. /\ r \in TxIds /\ rows[r].status = "PROCESSED" /\ rows[r].cmd.wallet = w
        /\ rows[r].cmd.money = d.cmd.money /\ RowOf(r) = rows[r]
    BY <2>2, DomainAssumption DEF Backed, TxIds, RowOf
  <2>4. /\ MovementOf(rows[r]) # "NONE" /\ MovementOf(d) # "NONE"
        /\ MovementOf(rows[r]) # MovementOf(d)
    BY <1>1, <2>1, <2>2, <2>3 DEF Backed, MovementOf, Direction, Reversals
  <2>5. PICK i \in 1 .. Len(ledger[w]) : ledger[w][i].tx = r
    BY <2>3, <2>4 DEF EInv, MovementsEntered
  <2>6. w \in WalletIds /\ Len(ledger[w]) \in Nat
    BY LedgerGrows
  <2>7. Backs(ledger[w][i], w)
    BY <2>6 DEF EInv, EntriesBacked
  <2>8. /\ ledger[w][i].money = d.cmd.money
        /\ ledger[w][i].direction = MovementOf(rows[r])
    BY <2>3, <2>5, <2>7 DEF Backs
  <2>9. /\ i \in 1 .. Len(ledger'[w]) /\ ledger'[w][i] = ledger[w][i]
        /\ Len(ledger'[w]) = n /\ ledger'[w][n].tx = id
        /\ ledger'[w][n].direction = MovementOf(d) /\ ledger'[w][n].money = d.cmd.money
    BY <2>4, LedgerGrows
  <2>10. n \in 1 .. Len(ledger'[w]) /\ i < n
    BY <2>6, <2>9
  <2> HIDE DEF w, r, n
  <2>11. Undone(ledger'[w], r, id)
    <3>1. /\ ledger'[w][i].tx = r /\ ledger'[w][n].tx = id
          /\ ledger'[w][i].money = ledger'[w][n].money
          /\ ledger'[w][i].direction # ledger'[w][n].direction
      BY <2>4, <2>5, <2>8, <2>9
    <3>2. i \in 1 .. Len(ledger'[w])
      BY <2>9
    <3>3. QED
      BY <2>10, <3>1, <3>2, UndoneBy
  <2>12. rows'[s].cmd.wallet = w /\ rows'[s].refTx = r
    BY <2>1 DEF w, r
  <2>13. QED
    BY <1>1, <2>11, <2>12
<1>2. CASE s # id
  <2> DEFINE w == rows[s].cmd.wallet
  <2>1. rows'[s] = rows[s]
    BY <1>2, RecordedRows
  <2>2. w \in WalletIds
    BY <2>1 DEF IInv, RowShape
  <2>3. PICK i \in 1 .. Len(ledger[w]), j \in 1 .. Len(ledger[w]) :
            /\ i < j
            /\ ledger[w][i].tx = rows[s].refTx /\ ledger[w][j].tx = s
            /\ ledger[w][i].money = ledger[w][j].money
            /\ ledger[w][i].direction # ledger[w][j].direction
    <3>1. Undone(ledger[w], rows[s].refTx, s)
      BY <2>1, UndoneAll
    <3> HIDE DEF w
    <3>2. QED
      BY <3>1 DEF Undone
  <2>4. ASSUME NEW k \in 1 .. Len(ledger[w])
        PROVE  k \in 1 .. Len(ledger'[w]) /\ ledger'[w][k] = ledger[w][k]
    <3> HIDE DEF w
    <3>1. QED
      BY <2>2, OldEntryStays
  <2>5. /\ rows'[s].cmd.wallet = w /\ rows'[s].refTx = rows[s].refTx
        /\ i \in 1 .. Len(ledger'[w]) /\ ledger'[w][i] = ledger[w][i]
        /\ j \in 1 .. Len(ledger'[w]) /\ ledger'[w][j] = ledger[w][j]
    BY <2>1, <2>3, <2>4
  <2>6. /\ ledger'[w][i].tx = rows'[s].refTx /\ ledger'[w][j].tx = s
        /\ ledger'[w][i].money = ledger'[w][j].money
        /\ ledger'[w][i].direction # ledger'[w][j].direction
    BY <2>3, <2>5
  <2> HIDE DEF w
  <2>7. Undone(ledger'[w], rows'[s].refTx, s)
    <3>1. i \in 1 .. Len(ledger'[w]) /\ j \in 1 .. Len(ledger'[w]) /\ i < j
      BY <2>3, <2>5
    <3>2. QED
      BY <2>6, <3>1, UndoneBy
  <2>8. QED
    BY <2>5, <2>7
<1>3. QED
  BY <1>1, <1>2

-----------------------------------------------------------------------------
(* Part 6: the invariant and its theorems. *)
(* The empty tables satisfy it. *)
LEMMA InitEInv == Init => EInv /\ ReversalUndoes /\ InboxBacked
<1> SUFFICES ASSUME Init PROVE EInv /\ ReversalUndoes /\ InboxBacked
  OBVIOUS
<1>1. /\ \A id \in TxIds : rows[id] = NoRow /\ rows[id].status = "NONE"
      /\ \A w \in WalletIds : ledger[w] = <<>> /\ Len(ledger[w]) = 0
  BY NoRowShape DEF Init
<1>2. \A id \in TxIds : MovementOf(rows[id]) = "NONE"
  BY <1>1 DEF MovementOf
<1>3. ReversalsBacked /\ EntriesBacked /\ EntriesUnique /\ MovementsEntered
  BY <1>1, <1>2 DEF ReversalsBacked, EntriesBacked, EntriesUnique, MovementsEntered
<1>4. ReversalUndoes /\ InboxBacked
  BY <1>1 DEF Init, ReversalUndoes, InboxBacked
<1>5. QED
  BY <1>3, <1>4 DEF EInv

(* So does every step keep it. *)
LEMMA NextEInv ==
    ASSUME IInv, EInv, ReversalUndoes, [Next]_vars
    PROVE  EInv' /\ ReversalUndoes'
<1>1. CASE Untouched
  <2>1. rows' = rows /\ ledger' = ledger
    BY <1>1 DEF Untouched
  <2>2. ReversalsBacked /\ EntriesBacked /\ EntriesUnique /\ MovementsEntered
    BY DEF EInv
  <2>3. ReversalsBacked' /\ EntriesBacked'
    <3>1. ReversalsBacked'
      BY <2>1, <2>2 DEF ReversalsBacked, Backed
    <3>2. EntriesBacked'
      <4> SUFFICES ASSUME NEW w \in WalletIds, NEW i \in 1 .. Len(ledger'[w])
                   PROVE  Backs(ledger[w][i], w)'
        BY DEF EntriesBacked
      <4>1. Backs(ledger[w][i], w)
        BY <2>1, <2>2 DEF EntriesBacked
      <4>2. QED
        BY <2>1, <4>1 DEF Backs, MovementOf, RowOf
    <3>3. QED
      BY <3>1, <3>2
  <2>4. EntriesUnique'
    BY <2>1, <2>2 DEF EntriesUnique
  <2>5. MovementsEntered'
    <3>1. \A id \in TxIds : MovementOf(rows[id])' = MovementOf(rows[id])
      BY <2>1 DEF MovementOf, RowOf
    <3>2. QED
      BY <2>1, <2>2, <3>1 DEF MovementsEntered
  <2>6. ReversalUndoes'
    <3> SUFFICES ASSUME NEW s \in TxIds, rows'[s].status = "PROCESSED",
                        rows'[s].cmd.kind \in Reversals
                 PROVE  Undone(ledger'[rows'[s].cmd.wallet], rows'[s].refTx, s)
      BY DEF ReversalUndoes, Undone
    <3>1. Undone(ledger[rows[s].cmd.wallet], rows[s].refTx, s)
      BY <2>1, UndoneAll
    <3>2. QED
      BY <2>1, <3>1
  <2>7. QED
    BY <2>3, <2>4, <2>5, <2>6 DEF EInv
<1>2. CASE \E id, d : Recorded(id, d)
  <2>1. PICK id, d : Recorded(id, d)
    BY <1>2
  <2>2. EInv'
    BY <2>1, RowsMoveAlike, EntriesBackedKept, EntriesUniqueKept, MovementsEnteredKept DEF EInv
  <2>3. QED
    BY <2>1, <2>2, ReversalUndoesKept
<1>3. QED
  BY <1>1, <1>2, StepRecords

(* A message completed names the command of a row, and rows keep their commands. *)
LEMMA NextInboxBacked ==
    ASSUME IInv, InboxBacked, [Next]_vars
    PROVE  InboxBacked'
<1> SUFFICES ASSUME NEW m \in Messages, inbox'[m] # None
             PROVE  \E id \in TxIds : rows'[id].cmd = inbox'[m]
  BY DEF InboxBacked
<1>1. inbox \in [Messages -> Commands \cup {None}]
  BY DEF IInv, TypeOK
<1>2. CASE inbox'[m] = inbox[m]
  <2>1. PICK id \in TxIds : rows[id].cmd = inbox[m]
    BY <1>2 DEF InboxBacked
  <2>2. rows[id].cmd.key \in Keys
    BY <1>1, <1>2, <2>1, LedgerAssumption DEF Command
  <2>3. rows[id].status # "NONE"
    BY <2>2, NoRowShape, DomainAssumption DEF IInv, RowShape
  <2>4. QED
    BY <1>2, <2>1, <2>3, RowsKept
<1>3. CASE inbox'[m] # inbox[m]
  <2>1. PICK c \in Commands :
            /\ inbox'[m] = c
            /\ \/ \E id \in TxIds : rows'[id] = rows[id] /\ rows[id].cmd = c
               \/ Accept(c, m)
    BY <1>3, InboxStep
  <2>2. QED
    BY <2>1, AcceptInserts
<1>4. QED
  BY <1>2, <1>3

-----------------------------------------------------------------------------
(* A transaction keeps its command, and an outcome is never changed: no replay, late
   reference or retry of the worker decides again (the status is read under the lock). *)
THEOREM OutcomesAreFinal == Spec => OutcomeIsFinal
<1> DEFINE Kept == \A id \in TxIds :
                      /\ rows[id].status # "NONE" => rows'[id].cmd = rows[id].cmd
                      /\ rows[id].status \in Terminal => rows'[id] = rows[id]
<1>1. IInv /\ [Next]_vars => [Kept]_vars
  BY RowsKept
<1>2. QED
  BY <1>1, Invariant, PTL DEF Spec, OutcomeIsFinal

LEMMA EffectInvariant == Spec => [](EInv /\ ReversalUndoes /\ InboxBacked)
<1>1. IInv /\ (EInv /\ ReversalUndoes /\ InboxBacked) /\ [Next]_vars
        => (EInv /\ ReversalUndoes /\ InboxBacked)'
  BY NextEInv, NextInboxBacked
<1>2. QED
  BY <1>1, InitEInv, Invariant, PTL DEF Spec

(* Every processed transaction that moves money has exactly one ledger entry, and every
   entry is the effect of such a transaction, however often it was delivered. *)
THEOREM EffectIsExactlyOnce == Spec => []EffectExactlyOnce
<1>1. IInv /\ EInv => EffectExactlyOnce
  <2> SUFFICES ASSUME IInv, EInv PROVE EffectExactlyOnce
    OBVIOUS
  <2>1. ASSUME NEW id \in TxIds, MovementOf(rows[id]) # "NONE"
        PROVE  LET l == ledger[rows[id].cmd.wallet]
               IN  Cardinality({i \in 1 .. Len(l) : l[i].tx = id}) = 1
    <3> DEFINE l == ledger[rows[id].cmd.wallet]
    <3>1. PICK k \in 1 .. Len(l) : l[k].tx = id
      BY <2>1 DEF EInv, MovementsEntered
    <3>2. rows[id].cmd.wallet \in WalletIds
      BY <2>1 DEF MovementOf, IInv, RowShape
    <3>3. {i \in 1 .. Len(l) : l[i].tx = id} = {k}
      BY <3>1, <3>2 DEF EInv, EntriesUnique
    <3>4. QED
      BY <3>3, FS_Singleton
  <2>2. QED
    BY <2>1 DEF EffectExactlyOnce, EInv, EntriesBacked, Backs
<1>2. QED
  BY <1>1, EffectInvariant, Invariant, PTL

(* A successful reversal undoes an earlier entry of the same ledger: same money and
   opposite direction, for the transaction it references. *)
THEOREM ReversalsUndo == Spec => []ReversalUndoes
  BY EffectInvariant, PTL

(* A completed message has a transaction with its own key and payload, so the branch of
   Process for completed messages always finds what it answers with. *)
THEOREM CompletedHasTransaction == Spec => []InboxBacked
  BY EffectInvariant, PTL

-----------------------------------------------------------------------------
(* Part 7: events. *)
(* The WalletBalanceChanged event of the i-th entry of a ledger, and the
   WagerTransaction* events of a row. *)
ChangeAt(w, i) ==
    [tx |-> ledger[w][i].tx, before |-> ledger[w][i].before, after |-> ledger[w][i].after,
     version |-> wallets[w].version - (Len(ledger[w]) - i)]

Waited == [status |-> "PENDING_REFERENCE", balance |-> NoResult]
Told(t) == [status |-> t.status, balance |-> t.result]

WalletsTold ==
    \A w \in WalletIds :
        /\ Len(walletEvents[w]) = Len(ledger[w])
        /\ \A i \in 1 .. Len(ledger[w]) : walletEvents[w][i] = ChangeAt(w, i)

RowsTold ==
    \A id \in TxIds :
        wagerEvents[id] = (IF rows[id].attempts > 0 THEN <<Waited>> ELSE <<>>)
                          \o (IF rows[id].status \in Terminal THEN <<Told(rows[id])>> ELSE <<>>)

-----------------------------------------------------------------------------
(* A wait told or not, followed by an outcome told or not. *)
LEMMA ConcatFacts ==
    ASSUME NEW S, NEW a \in S, NEW b \in S
    PROVE  /\ <<>> \o <<>> = <<>> /\ <<a>> \o <<>> = <<a>> /\ <<>> \o <<b>> = <<b>>
           /\ <<a>> \o <<b>> = Append(<<a>>, b)
           /\ Append(<<>>, b) = <<b>>
<1>1. <<a>> \in Seq(S) /\ <<b>> \in Seq(S)
  OBVIOUS
<1> DEFINE s == <<a>> \o <<b>>
           t == Append(<<a>>, b)
<1>2. s \in Seq(S) /\ t \in Seq(S)
  BY <1>1
<1>3. Len(<<a>>) = 1 /\ Len(<<b>>) = 1 /\ <<a>>[1] = a /\ <<b>>[1] = b
  OBVIOUS
<1>4. Len(s) = 2 /\ s[1] = a /\ s[2] = b
  BY <1>1, <1>3
<1>5. Len(t) = 2 /\ t[1] = a /\ t[2] = b
  BY <1>1, <1>3
<1>6. \A i \in 1 .. 2 : i = 1 \/ i = 2
  OBVIOUS
<1>7. \A i \in 1 .. 2 : s[i] = t[i]
  BY <1>4, <1>5, <1>6
<1> HIDE DEF s, t
<1>8. s = t
  BY <1>2, <1>4, <1>5, <1>7, SeqEqual
<1>9. <<>> \o <<>> = <<>>
  OBVIOUS
<1>10. <<a>> \o <<>> = <<a>>
  OBVIOUS
<1>11. <<>> \o <<b>> = <<b>>
  OBVIOUS
<1>12. Append(<<>>, b) = <<b>>
  OBVIOUS
<1>13. QED
  BY <1>8, <1>9, <1>10, <1>11, <1>12 DEF s, t

LEMMA RowsToldKept ==
    ASSUME IInv, RowsTold, NEW id, NEW d, Recorded(id, d), Announced(id, d)
    PROVE  RowsTold'
<1> SUFFICES ASSUME NEW s \in TxIds
             PROVE  wagerEvents'[s] =
                        (IF rows'[s].attempts > 0 THEN <<Waited>> ELSE <<>>)
                        \o (IF rows'[s].status \in Terminal THEN <<Told(rows'[s])>> ELSE <<>>)
  BY DEF RowsTold, Told, Waited
<1>1. wagerEvents \in [TxIds -> Seq(WagerEvent)] /\ rows \in [TxIds -> Row]
  BY DEF IInv, TypeOK
<1>2. CASE s # id
  <2>1. rows'[s] = rows[s] /\ wagerEvents'[s] = wagerEvents[s]
    BY <1>1, <1>2, RecordedRows DEF Announced
  <2>2. QED
    BY <2>1 DEF RowsTold
<1>3. CASE s = id
  <2>1. rows'[s] = d /\ id \in TxIds /\ rows[id].status \notin Terminal
    BY <1>3, RecordedRows
  <2>2. wagerEvents[id] = IF rows[id].attempts > 0 THEN <<Waited>> ELSE <<>>
    BY <2>1, ConcatFacts DEF RowsTold
  <2>3. /\ rows[id].status = "PENDING_REFERENCE" => rows[id].attempts > 0
        /\ rows[id].status \in {"NONE", "PENDING_REFERENCE"}
    BY <2>1 DEF IInv, RowShape, Recorded
  <2>4. rows[id].status = "NONE" => ~ (rows[id].attempts > 0)
    BY <2>1, NoRowShape DEF IInv, RowShape
  <2>5. CASE d.status = "PENDING_REFERENCE"
    <3>1. d.status \notin Terminal /\ d.attempts > 0 /\ Told(d) = Waited
      BY <2>5 DEF Announced, Terminal, Told, Waited
    <3>2. wagerEvents'[id] = <<Waited>>
      <4>1. CASE rows[id].status = "PENDING_REFERENCE"
        BY <2>2, <2>3, <2>5, <4>1 DEF Announced
      <4>2. CASE rows[id].status = "NONE"
        <5>1. wagerEvents[id] = <<>> /\ wagerEvents'[id] = Append(wagerEvents[id], Told(d))
          BY <1>1, <2>1, <2>2, <2>4, <4>2 DEF Announced, Told
        <5>2. QED
          BY <3>1, <5>1, ConcatFacts
      <4>3. QED
        BY <2>3, <4>1, <4>2
    <3>3. QED
      BY <1>3, <2>1, <3>1, <3>2, ConcatFacts
  <2>6. CASE d.status \in Terminal
    <3>1. /\ d.attempts = rows[id].attempts
          /\ wagerEvents'[id] = Append(wagerEvents[id], Told(d))
      BY <1>1, <2>1, <2>6 DEF Announced, Told, Terminal
    <3>2. QED
      BY <1>3, <2>1, <2>2, <2>6, <3>1, ConcatFacts
  <2>7. QED
    BY <2>5, <2>6 DEF Announced
<1>4. QED
  BY <1>2, <1>3

LEMMA WalletsToldKept ==
    ASSUME IInv, WalletsTold, NEW id, NEW d, Recorded(id, d), Announced(id, d)
    PROVE  WalletsTold'
<1> DEFINE w == d.cmd.wallet
<1> SUFFICES ASSUME NEW v \in WalletIds
             PROVE  /\ Len(walletEvents'[v]) = Len(ledger'[v])
                    /\ \A i \in 1 .. Len(ledger'[v]) :
                         walletEvents'[v][i] =
                            [tx |-> ledger'[v][i].tx, before |-> ledger'[v][i].before,
                             after |-> ledger'[v][i].after,
                             version |-> wallets'[v].version - (Len(ledger'[v]) - i)]
  BY DEF WalletsTold, ChangeAt
<1>1. /\ w \in WalletIds /\ walletEvents \in [WalletIds -> Seq(BalanceChanged)]
      /\ ledger \in [WalletIds -> Seq(Entry)]
      /\ wallets[v].version \in Nat /\ Len(ledger[v]) \in Nat
  BY DEF Recorded, IInv, TypeOK, Wallet
<1>2. CASE MovementOf(d) = "NONE"
  <2>1. ledger' = ledger /\ wallets' = wallets /\ walletEvents' = walletEvents
    BY <1>2 DEF Recorded, Announced
  <2>2. QED
    BY <2>1 DEF WalletsTold, ChangeAt
<1>3. CASE MovementOf(d) # "NONE" /\ v # w
  <2> PICK before \in {walletEvents[w], <<>>} :
              walletEvents' = [walletEvents EXCEPT ![w] = Append(before, EventOf(id, d))]
    BY <1>3 DEF Announced
  <2>1. ledger'[v] = ledger[v] /\ walletEvents'[v] = walletEvents[v]
    <3>1. ledger'[v] = ledger[v]
      BY <1>1, <1>3, LedgerStays
    <3>2. QED
      BY <1>1, <1>3, <3>1
  <2>2. wallets'[v].version = wallets[v].version
    BY <1>1, <1>3 DEF Announced
  <2>3. QED
    BY <2>1, <2>2 DEF WalletsTold, ChangeAt
<1>4. CASE MovementOf(d) # "NONE" /\ v = w
  <2> DEFINE n == Len(ledger[v])
  <2>1. wallets'[v].version = wallets[v].version + 1
    BY <1>1, <1>4 DEF Announced
  <2>2. ledger'[v] = Append(ledger[v], EntryOf(id, d)) /\ EntryOf(id, d) \in Entry
    BY <1>1, <1>4 DEF Recorded
  <2>3. ledger[v] = <<>> => walletEvents[v] = <<>>
    BY <1>1 DEF WalletsTold
  <2>4. walletEvents'[v] = Append(walletEvents[v], EventOf(id, d))
    <3> PICK before \in {walletEvents[w], <<>>} :
            /\ before = <<>> => before = walletEvents[w] \/ ledger[w] = <<>>
            /\ walletEvents' = [walletEvents EXCEPT ![w] = Append(before, EventOf(id, d))]
      BY <1>4 DEF Announced
    <3>1. before = walletEvents[w]
      BY <1>4, <2>3
    <3>2. QED
      BY <1>1, <1>4, <3>1
  <2>5. Len(walletEvents[v]) = n /\ n \in Nat
    BY <1>1 DEF WalletsTold
  <2>6. /\ Len(ledger'[v]) = n + 1 /\ ledger'[v][n + 1] = EntryOf(id, d)
        /\ \A i \in 1 .. n : ledger'[v][i] = ledger[v][i]
    BY <1>1, <2>2
  <2>7. EventOf(id, d) \in BalanceChanged
    <3>1. /\ id \in TxIds /\ d.result \in Minor
      BY <2>2 DEF Recorded, EntryOf, Entry
    <3>2. wallets[v].balance \in Minor /\ wallets[v].version + 1 \in Nat
      BY <1>1 DEF IInv, TypeOK, Wallet
    <3>3. QED
      BY <1>4, <3>1, <3>2 DEF EventOf, BalanceChanged
  <2>8. /\ Len(walletEvents'[v]) = n + 1 /\ walletEvents'[v][n + 1] = EventOf(id, d)
        /\ \A i \in 1 .. n : walletEvents'[v][i] = walletEvents[v][i]
    BY <1>1, <2>4, <2>5, <2>7
  <2>9. ASSUME NEW i \in 1 .. n
        PROVE  walletEvents'[v][i] =
                  [tx |-> ledger'[v][i].tx, before |-> ledger'[v][i].before,
                   after |-> ledger'[v][i].after,
                   version |-> wallets'[v].version - (n + 1 - i)]
    <3>1. walletEvents[v][i] = ChangeAt(v, i)
      BY DEF WalletsTold
    <3>2. wallets[v].version - (n - i) = wallets'[v].version - (n + 1 - i)
      <4> DEFINE x == wallets[v].version
                 y == wallets'[v].version
      <4>1. x \in Nat /\ y = x + 1 /\ n \in Nat /\ i \in Nat
        BY <1>1, <2>1, <2>5
      <4> HIDE DEF n, x, y
      <4>2. x - (n - i) = y - (n + 1 - i)
        BY <4>1
      <4>3. QED
        BY <4>2 DEF x, y
    <3>3. QED
      BY <2>6, <2>8, <3>1, <3>2 DEF ChangeAt
  <2>10. walletEvents'[v][n + 1] =
            [tx |-> ledger'[v][n + 1].tx, before |-> ledger'[v][n + 1].before,
             after |-> ledger'[v][n + 1].after,
             version |-> wallets'[v].version - (n + 1 - (n + 1))]
    <3>1. wallets'[v].version - (n + 1 - (n + 1)) = wallets[v].version + 1
      BY <1>1, <2>1, <2>5
    <3>2. QED
      BY <1>4, <2>6, <2>8, <3>1 DEF EntryOf, EventOf
  <2> HIDE DEF n
  <2>11. QED
    BY <2>5, <2>6, <2>8, <2>9, <2>10
<1>5. QED
  BY <1>2, <1>3, <1>4

-----------------------------------------------------------------------------
LEMMA InitTold == Init => WalletsTold /\ RowsTold
<1> SUFFICES ASSUME Init PROVE WalletsTold /\ RowsTold
  OBVIOUS
<1>1. /\ \A id \in TxIds : wagerEvents[id] = <<>> /\ rows[id] = NoRow
      /\ \A w \in WalletIds : ledger[w] = <<>> /\ walletEvents[w] = <<>>
  BY DEF Init
<1>2. ~ (NoRow.attempts > 0) /\ NoRow.status \notin Terminal
  BY NoRowShape DEF Terminal
<1>3. RowsTold
  BY <1>1, <1>2, ConcatFacts DEF RowsTold
<1>4. WalletsTold
  BY <1>1 DEF WalletsTold
<1>5. QED
  BY <1>3, <1>4

LEMMA NextTold ==
    ASSUME IInv, WalletsTold, RowsTold, [Next]_vars
    PROVE  WalletsTold' /\ RowsTold'
<1>1. CASE Untouched
  <2>1. /\ rows' = rows /\ ledger' = ledger
        /\ walletEvents' = walletEvents /\ wagerEvents' = wagerEvents
        /\ \A w \in WalletIds : wallets'[w].version = wallets[w].version \/ ledger[w] = <<>>
    BY <1>1 DEF Untouched
  <2>2. RowsTold'
    BY <2>1 DEF RowsTold, Told, Waited
  <2>3. WalletsTold'
    BY <2>1 DEF WalletsTold, ChangeAt
  <2>4. QED
    BY <2>2, <2>3
<1>2. CASE \E id, d : Recorded(id, d) /\ Announced(id, d)
  BY <1>2, WalletsToldKept, RowsToldKept
<1>3. QED
  BY <1>1, <1>2, StepRecords

(* Two sequences that agree entry by entry are the same. *)
LEMMA ToldAgrees ==
    ASSUME IInv, WalletsTold, RowsTold
    PROVE  EventsAgree
<1>1. ASSUME NEW w \in WalletIds
      PROVE  walletEvents[w] = [i \in 1 .. Len(ledger[w]) |-> ChangeAt(w, i)]
  <2>1. walletEvents[w] \in Seq(BalanceChanged)
    BY DEF IInv, TypeOK
  <2>2. /\ Len(walletEvents[w]) = Len(ledger[w])
        /\ \A i \in 1 .. Len(ledger[w]) : walletEvents[w][i] = ChangeAt(w, i)
    BY DEF WalletsTold
  <2>3. walletEvents[w] = [i \in 1 .. Len(walletEvents[w]) |-> walletEvents[w][i]]
    BY <2>1
  <2>4. QED
    BY <2>2, <2>3
<1>2. QED
  BY <1>1 DEF EventsAgree, ChangeAt, RowsTold, Told, Waited

(* The WalletBalanceChanged events of a wallet repeat its ledger entry by entry with
   versions without a gap, and a transaction announces its wait once and its outcome
   once, whatever is retried: events are written with what they tell. *)
THEOREM EventsTellTables == Spec => []EventsAgree
<1>1. Init => WalletsTold /\ RowsTold
  BY InitTold
<1>2. IInv /\ (WalletsTold /\ RowsTold) /\ [Next]_vars => (WalletsTold /\ RowsTold)'
  BY NextTold
<1>3. IInv /\ (WalletsTold /\ RowsTold) => EventsAgree
  BY ToldAgrees
<1>4. QED
  BY <1>1, <1>2, <1>3, Invariant, PTL DEF Spec

-----------------------------------------------------------------------------
(* Part 8: sums.  First the least-number principle and induction, for a set of naturals. *)
Below == {p \in Nat \X Nat : p[1] < p[2]}

LEMMA LeastNatural == ASSUME NEW T \in SUBSET Nat, T # {} PROVE \E n \in T : \A m \in T : n <= m
<1>1. IsWellFoundedOn(Below, Nat)
  BY NatLessThanWellFounded DEF OpToRel, Below
<1>2. PICK x \in T : \A y \in T : ~ (<<y, x>> \in Below)
  BY <1>1, WFMin
<1>3. \A y \in T : ~ (y < x)
  BY <1>2 DEF Below
<1>4. QED BY <1>3

(* Induction: a set with 0 and the successor of each of its naturals has them all. *)
LEMMA Climb ==
    ASSUME NEW T, 0 \in T, \A n \in Nat : n \in T => n + 1 \in T
    PROVE  Nat \subseteq T
<1> SUFFICES ASSUME Nat \ T # {} PROVE FALSE
  OBVIOUS
<1>1. PICK n \in Nat \ T : \A m \in Nat \ T : n <= m
  BY LeastNatural
<1>2. n # 0 /\ n - 1 \in Nat /\ n - 1 \in T
  BY <1>1
<1>3. QED BY <1>1, <1>2

(* The sum of the money of some entries, as MapThenSumSet computes it: it takes the
   entries in an order of its own. *)
SumOver(e, S) == MapThenSumSet(LAMBDA i : e[i].money, S)
Pick(s) == CHOOSE x \in s : TRUE
Rest(s) == s \ {Pick(s)}
IsSum(e, D, g) == g = [s \in D |-> IF s = {} THEN 0 ELSE e[Pick(s)].money + g[Rest(s)]]

(* The entry it takes first. *)
LEMMA Picked ==
    ASSUME NEW s, IsFiniteSet(s), s # {}
    PROVE  /\ Pick(s) \in s /\ IsFiniteSet(Rest(s))
           /\ Cardinality(s) \in Nat \ {0} /\ Cardinality(Rest(s)) = Cardinality(s) - 1
<1>1. Pick(s) \in s
  BY DEF Pick
<1>2. QED
  BY <1>1, FS_RemoveElement, FS_CardinalityType, FS_EmptySet DEF Rest

(* The recursion defines a function: built up over ever larger subsets. *)
LEMMA SumsExist ==
    ASSUME NEW e, NEW S, IsFiniteSet(S)
    PROVE  \E g : IsSum(e, SUBSET S, g)
<1> DEFINE Upto(n) == {s \in SUBSET S : Cardinality(s) <= n}
           T == {n \in Nat : \E g : IsSum(e, Upto(n), g)}
<1>1. \A s \in SUBSET S : IsFiniteSet(s) /\ Cardinality(s) \in Nat
  BY FS_Subset, FS_CardinalityType
<1>2. 0 \in T
  <2>1. \A s \in Upto(0) : s = {}
    BY <1>1, FS_EmptySet
  <2> DEFINE g == [s \in Upto(0) |-> 0]
  <2>2. IsSum(e, Upto(0), g)
    BY <2>1 DEF IsSum
  <2>3. QED BY <2>2
<1>3. ASSUME NEW n \in Nat, n \in T PROVE n + 1 \in T
  <2>1. PICK g : IsSum(e, Upto(n), g)
    BY <1>3
  <2> DEFINE h == [s \in Upto(n + 1) |-> IF s = {} THEN 0 ELSE e[Pick(s)].money + g[Rest(s)]]
  <2>2. \A s \in Upto(n) : s \in Upto(n + 1) /\ h[s] = g[s]
    <3>1. \A s \in Upto(n) : g[s] = IF s = {} THEN 0 ELSE e[Pick(s)].money + g[Rest(s)]
      BY <2>1 DEF IsSum
    <3>2. \A s \in Upto(n) : s \in Upto(n + 1)
      BY <1>1
    <3>3. QED BY <3>1, <3>2
  <2>3. ASSUME NEW s \in Upto(n + 1), s # {} PROVE Rest(s) \in Upto(n)
    BY <1>1, <2>3, Picked DEF Rest
  <2>4. IsSum(e, Upto(n + 1), h)
    <3>1. \A s \in Upto(n + 1) :
             h[s] = IF s = {} THEN 0 ELSE e[Pick(s)].money + h[Rest(s)]
      BY <2>2, <2>3
    <3>2. h = [s \in Upto(n + 1) |-> h[s]]
      OBVIOUS
    <3> HIDE DEF h
    <3>3. QED BY <3>1, <3>2 DEF IsSum
  <2> HIDE DEF h, Upto
  <2>5. \E f : IsSum(e, Upto(n + 1), f)
    BY <2>4
  <2>6. QED BY <2>5
<1>4. Nat \subseteq T
  <2> HIDE DEF T
  <2>1. QED BY <1>2, <1>3, Climb
<1>5. Cardinality(S) \in T
  BY <1>4, FS_CardinalityType
<1>6. Upto(Cardinality(S)) = SUBSET S
  BY <1>1, FS_Subset
<1>7. QED BY <1>5, <1>6

(* Two such functions agree where both are defined, and yield integers. *)
LEMMA SumsAgree ==
    ASSUME NEW e, NEW S, IsFiniteSet(S), \A i \in S : e[i].money \in Int,
           NEW R \in SUBSET S, NEW g, IsSum(e, SUBSET S, g), NEW h, IsSum(e, SUBSET R, h)
    PROVE  g[R] = h[R] /\ g[R] \in Int
<1> DEFINE T == {n \in Nat : \A s \in SUBSET R : Cardinality(s) <= n => g[s] = h[s] /\ g[s] \in Int}
<1>1. \A s \in SUBSET R : IsFiniteSet(s) /\ Cardinality(s) \in Nat /\ s \in SUBSET S
  BY FS_Subset, FS_CardinalityType
<1>2. \A s \in SUBSET R : /\ g[s] = IF s = {} THEN 0 ELSE e[Pick(s)].money + g[Rest(s)]
                          /\ h[s] = IF s = {} THEN 0 ELSE e[Pick(s)].money + h[Rest(s)]
  BY <1>1 DEF IsSum
<1>3. 0 \in T
  <2> SUFFICES ASSUME NEW s \in SUBSET R, Cardinality(s) <= 0
               PROVE  g[s] = h[s] /\ g[s] \in Int
    OBVIOUS
  <2>1. IsFiniteSet(s) /\ Cardinality(s) = 0
    BY <1>1
  <2>2. s = {}
    BY <2>1, FS_EmptySet
  <2>3. g[s] = 0 /\ h[s] = 0
    BY <1>2, <2>2
  <2>4. QED
    BY <2>3
<1>4. ASSUME NEW n \in Nat, n \in T PROVE n + 1 \in T
  <2>1. SUFFICES ASSUME NEW s \in SUBSET R, Cardinality(s) <= n + 1
                 PROVE  g[s] = h[s] /\ g[s] \in Int
    OBVIOUS
  <2>2. CASE s = {}
    BY <1>2, <2>2
  <2>3. CASE s # {}
    <3>1. /\ Rest(s) \in SUBSET R /\ Cardinality(Rest(s)) <= n /\ e[Pick(s)].money \in Int
      BY <1>1, <2>1, <2>3, Picked DEF Rest
    <3>2. g[Rest(s)] = h[Rest(s)] /\ g[Rest(s)] \in Int
      BY <1>4, <3>1
    <3>3. QED BY <1>2, <2>3, <3>1, <3>2
  <2>4. QED BY <2>2, <2>3
<1>5. Nat \subseteq T
  <2> HIDE DEF T
  <2>1. QED BY <1>3, <1>4, Climb
<1>6. QED BY <1>1, <1>5

(* So a sum is the money of the entry taken first and the sum of the rest ... *)
LEMMA SumStep ==
    ASSUME NEW e, NEW S, IsFiniteSet(S), \A i \in S : e[i].money \in Int
    PROVE  /\ SumOver(e, S) \in Int
           /\ SumOver(e, S) = IF S = {} THEN 0 ELSE e[Pick(S)].money + SumOver(e, Rest(S))
<1> DEFINE G(s) == CHOOSE g : IsSum(e, SUBSET s, g)
<1>1. \A s : SumOver(e, s) = G(s)[s]
  BY DEF SumOver, MapThenSumSet, MapThenFoldSet, IsSum, Pick, Rest
<1>2. IsFiniteSet(Rest(S)) /\ Rest(S) \in SUBSET S
  BY FS_Subset DEF Rest
<1>3. IsSum(e, SUBSET S, G(S)) /\ IsSum(e, SUBSET Rest(S), G(Rest(S)))
  BY <1>2, SumsExist
<1> HIDE DEF G
<1>4. G(S)[Rest(S)] = G(Rest(S))[Rest(S)]
  <2> DEFINE R == Rest(S)
             g == G(S)
             h == G(R)
  <2>1. R \in SUBSET S /\ IsSum(e, SUBSET S, g) /\ IsSum(e, SUBSET R, h)
    BY <1>2, <1>3
  <2> HIDE DEF R, g, h
  <2>2. g[R] = h[R]
    BY <2>1, SumsAgree, ZenonT(30)
  <2>3. QED BY <2>2 DEF R, g, h
<1>5. G(S)[S] \in Int
  BY <1>3, SumsAgree
<1>6. G(S)[S] = IF S = {} THEN 0 ELSE e[Pick(S)].money + G(S)[Rest(S)]
  BY <1>3 DEF IsSum
<1>7. QED BY <1>1, <1>4, <1>5, <1>6

(* ... and of any other entry likewise: the order does not matter. *)
LEMMA SumRemove ==
    ASSUME NEW e, NEW S, IsFiniteSet(S), \A i \in S : e[i].money \in Int, NEW x \in S
    PROVE  SumOver(e, S) = e[x].money + SumOver(e, S \ {x})
<1> DEFINE T == {n \in Nat : \A s \in SUBSET S : Cardinality(s) <= n =>
                     \A y \in s : SumOver(e, s) = e[y].money + SumOver(e, s \ {y})}
<1>1. \A s \in SUBSET S : IsFiniteSet(s) /\ Cardinality(s) \in Nat
  BY FS_Subset, FS_CardinalityType
<1>2. 0 \in T
  BY <1>1, FS_EmptySet
<1>3. ASSUME NEW n \in Nat, n \in T PROVE n + 1 \in T
  <2>1. SUFFICES ASSUME NEW s \in SUBSET S, Cardinality(s) <= n + 1, NEW y \in s
                 PROVE  SumOver(e, s) = e[y].money + SumOver(e, s \ {y})
    OBVIOUS
  <2> DEFINE c == Pick(s)
  <2>2. /\ c \in s /\ Rest(s) = s \ {c} /\ IsFiniteSet(s)
        /\ Cardinality(s) \in Nat /\ Cardinality(s \ {c}) = Cardinality(s) - 1
        /\ Cardinality(s \ {y}) = Cardinality(s) - 1
    BY <1>1, <2>1, Picked, FS_RemoveElement DEF Rest
  <2>3. SumOver(e, s) = e[c].money + SumOver(e, s \ {c})
    BY <2>1, <2>2, SumStep
  <2>4. CASE c = y
    BY <2>3, <2>4
  <2>5. CASE c # y
    <3>1. SumOver(e, s \ {c}) = e[y].money + SumOver(e, (s \ {c}) \ {y})
      BY <1>3, <2>1, <2>2, <2>5
    <3>2. SumOver(e, s \ {y}) = e[c].money + SumOver(e, (s \ {y}) \ {c})
      BY <1>3, <2>1, <2>2, <2>5
    <3>3. (s \ {c}) \ {y} = (s \ {y}) \ {c}
      OBVIOUS
    <3>4. /\ e[c].money \in Int /\ e[y].money \in Int
          /\ SumOver(e, (s \ {y}) \ {c}) \in Int
      <4>1. IsFiniteSet((s \ {y}) \ {c}) /\ (s \ {y}) \ {c} \in SUBSET S
        BY <1>1
      <4>2. QED BY <2>2, <4>1, SumStep
    <3> HIDE DEF c, T
    <3> PICK rest : rest = SumOver(e, (s \ {y}) \ {c})
      OBVIOUS
    <3>5. SumOver(e, s) = e[c].money + (e[y].money + rest)
      BY <2>3, <3>1, <3>3
    <3>6. SumOver(e, s \ {y}) = e[c].money + rest
      BY <3>2
    <3>7. e[c].money + (e[y].money + rest) = e[y].money + (e[c].money + rest)
      BY <3>4
    <3>8. QED BY <3>5, <3>6, <3>7
  <2>6. QED BY <2>4, <2>5
<1>4. Nat \subseteq T
  <2> HIDE DEF T
  <2>1. QED BY <1>2, <1>3, Climb
<1>5. QED BY <1>1, <1>4

-----------------------------------------------------------------------------
(* Part 9: reconciliation. *)

(* The credits of a chain exceed its debits by the balance it ends with. *)
LEMMA ChainTotals ==
    ASSUME NEW l \in Seq(Entry), NEW balance, Chain(l, balance)
    PROVE  /\ Total(l, "CREDIT") \in Int /\ Total(l, "DEBIT") \in Int
           /\ Total(l, "CREDIT") - Total(l, "DEBIT") = balance
<1> DEFINE Of(n, direction) == {i \in 1 .. n : l[i].direction = direction}
           After(n) == IF n = 0 THEN 0 ELSE l[n].after
           T == {n \in Nat : n <= Len(l) =>
                    SumOver(l, Of(n, "CREDIT")) - SumOver(l, Of(n, "DEBIT")) = After(n)}
<1>1. /\ Len(l) \in Nat /\ DOMAIN l = 1 .. Len(l)
      /\ \A i \in 1 .. Len(l) : /\ l[i].money \in Int /\ l[i].after \in Int
                                /\ l[i].direction \in {"CREDIT", "DEBIT"}
  <2>1. \A i \in 1 .. Len(l) : l[i] \in Entry
    BY ElementOfSeq
  <2>2. QED
    BY <2>1, LenProperties, DomainAssumption DEF Entry, Minor
<1>2. ASSUME NEW n \in Nat, n <= Len(l), NEW direction
      PROVE  /\ IsFiniteSet(Of(n, direction)) /\ SumOver(l, Of(n, direction)) \in Int
             /\ \A i \in Of(n, direction) : l[i].money \in Int
  <2>1. IsFiniteSet(Of(n, direction))
    <3>1. IsFiniteSet(1 .. n)
      BY <1>2, FS_Interval
    <3>2. Of(n, direction) \in SUBSET (1 .. n)
      OBVIOUS
    <3> HIDE DEF Of
    <3>3. QED BY <3>1, <3>2, FS_Subset
  <2>2. \A i \in Of(n, direction) : l[i].money \in Int
    BY <1>1, <1>2
  <2> HIDE DEF Of
  <2>3. QED BY <2>1, <2>2, SumStep
<1>3. 0 \in T
  <2>1. Of(0, "CREDIT") = {} /\ Of(0, "DEBIT") = {}
    OBVIOUS
  <2>2. SumOver(l, {}) = 0
    BY FS_EmptySet, SumStep
  <2>3. QED BY <2>1, <2>2
<1>4. ASSUME NEW n \in Nat, n \in T PROVE n + 1 \in T
  <2> SUFFICES ASSUME n + 1 <= Len(l)
               PROVE  SumOver(l, Of(n + 1, "CREDIT")) - SumOver(l, Of(n + 1, "DEBIT")) = l[n + 1].after
    OBVIOUS
  <2> DEFINE k == n + 1
  <2>1. /\ SumOver(l, Of(n, "CREDIT")) - SumOver(l, Of(n, "DEBIT")) = After(n)
        /\ n <= Len(l) /\ k \in 1 .. Len(l) /\ k \in Nat
    BY <1>1, <1>4
  <2>2. l[k].before = After(n)
    BY <2>1 DEF Chain
  <2>3. ASSUME NEW direction, l[k].direction # direction
        PROVE  Of(k, direction) = Of(n, direction)
    BY <2>3
  <2>4. SumOver(l, Of(k, l[k].direction)) = l[k].money + SumOver(l, Of(n, l[k].direction))
    <3>1. k \in Of(k, l[k].direction) /\ Of(k, l[k].direction) \ {k} = Of(n, l[k].direction)
      OBVIOUS
    <3> HIDE DEF Of
    <3>2. QED BY <1>2, <2>1, <3>1, SumRemove
  <2>5. /\ SumOver(l, Of(n, "CREDIT")) \in Int /\ SumOver(l, Of(n, "DEBIT")) \in Int
        /\ l[k].money \in Int
        /\ l[k].after = IF l[k].direction = "CREDIT" THEN l[k].before + l[k].money
                                                     ELSE l[k].before - l[k].money
    <3>1. SumOver(l, Of(n, "CREDIT")) \in Int /\ SumOver(l, Of(n, "DEBIT")) \in Int
      <4> HIDE DEF Of
      <4>1. QED BY <1>2, <2>1
    <3>2. l[k].money \in Int
      BY <1>1, <2>1
    <3>3. QED BY <2>1, <3>1, <3>2 DEF Chain
  <2>6. CASE l[k].direction = "CREDIT"
    <3>1. Of(k, "DEBIT") = Of(n, "DEBIT")
      BY <2>3, <2>6
    <3> HIDE DEF Of, After, k
    <3>2. QED BY <2>1, <2>2, <2>4, <2>5, <2>6, <3>1 DEF k
  <2>7. CASE l[k].direction = "DEBIT"
    <3>1. Of(k, "CREDIT") = Of(n, "CREDIT")
      BY <2>3, <2>7
    <3> HIDE DEF Of, After, k
    <3>2. QED BY <2>1, <2>2, <2>4, <2>5, <2>7, <3>1 DEF k
  <2>8. QED BY <1>1, <2>1, <2>6, <2>7
<1>5. Nat \subseteq T
  <2> HIDE DEF T
  <2>1. QED BY <1>3, <1>4, Climb
<1>6. SumOver(l, Of(Len(l), "CREDIT")) - SumOver(l, Of(Len(l), "DEBIT")) = After(Len(l))
  BY <1>1, <1>5
<1>7. \A direction : Total(l, direction) = SumOver(l, Of(Len(l), direction))
  BY <1>1 DEF Total, SumOver
<1>8. After(Len(l)) = balance
  BY <1>1, EmptySeq DEF Chain
<1> HIDE DEF Of, After
<1>9. QED BY <1>1, <1>2, <1>6, <1>7, <1>8

(* So whenever the invariant holds, the sums give the stored balance. *)
LEMMA BalanceIsTotal ==
    ASSUME IInv, NEW w \in WalletIds
    PROVE  Total(ledger[w], "CREDIT") - Total(ledger[w], "DEBIT") = wallets[w].balance
<1>1. ledger[w] \in Seq(Entry) /\ Chain(ledger[w], wallets[w].balance)
  BY DEF IInv, TypeOK, LedgerChain, Chain
<1>2. QED BY <1>1, ChainTotals

(* At any time the sums over the ledger of a wallet differ by its stored balance:
   what GET /wallets/{id}/reconciliation computes from one snapshot is no difference. *)
THEOREM LedgerReconciles ==
    Spec => [](\A w \in WalletIds :
                  Total(ledger[w], "CREDIT") - Total(ledger[w], "DEBIT") = wallets[w].balance)
<1> DEFINE Reconciles == \A w \in WalletIds :
                            Total(ledger[w], "CREDIT") - Total(ledger[w], "DEBIT") = wallets[w].balance
<1>1. IInv => Reconciles
  BY BalanceIsTotal
<1>2. QED
  BY <1>1, Invariant, PTL
=============================================================================
