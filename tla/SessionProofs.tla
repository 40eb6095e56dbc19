---------------------------- MODULE SessionProofs ----------------------------
(***************************************************************************)
(* Proofs that the sessions of WagerConcurrency implement WagerLedger, for *)
(* any number of clients, workers and readers: what a session read, and    *)
(* what it decided from it, still holds of the database when it commits,   *)
(* because of the locks it has taken by then.                              *)
(*                                                                         *)
(* Part 1 is the invariant; part 2 says which decisions agree; part 3 what *)
(* a commit leaves alone of the sessions whose locks it does not hold;     *)
(* part 4 that a commit is a use case of the ledger; part 5 walks through  *)
(* the steps of a session; part 6 has the theorems about the sessions, and *)
(* part 7 is about the readers that reconcile a wallet meanwhile.          *)
(***************************************************************************)
EXTENDS WagerConcurrency, WagerLedgerProofs

(* Part 1: the invariant.  First, two facts about rows the ledger proofs had no use
   for: a reference is resolved to a row with an outcome, and a row is named by its
   external id. *)
Linked(t) == t.refTx # None => t.refTx \in TxIds /\ rows[t.refTx].status \in Terminal

RowsLinked == \A id \in TxIds : Linked(rows[id])
RowsNamed == \A id \in TxIds : rows[id].cmd.ext \in {None, id}

LInv == IInv /\ EInv /\ ReversalUndoes /\ RowsLinked /\ RowsNamed

Steps == {"idle", "claim", "advisory", "lookup", "completed", "replay", "commitReplay",
          "external", "row", "wallet", "decide", "write", "commit", "answer"}

Locks == ({"inbox"} \X Messages) \cup ({"key"} \X (Keys \cup {None}))
            \cup ({"wallet"} \X (WalletIds \cup {None})) \cup ({"row", "insert"} \X TxIds)

Session ==
    [step: Steps, mode: {"process", "resolve", "record"}, id: TxIds \cup {None}, t: Row,
     msg: Messages \cup {None}, seen: Wallet, locks: SUBSET Locks,
     error: Errors \cup {None}, todo: SUBSET TxIds]

(* The private part: which steps a client and a worker have, and what they work on. *)
Shaped(s, p) ==
    /\ p \in Session
    /\ s \in Clients => p.mode = "process" /\ p.step # "row"
    /\ s \in Workers /\ p.mode = "process" => p.step = "idle"
    /\ p.mode # "process" =>
          /\ p.step \in {"row", "wallet", "decide", "write", "commit", "answer"}
          /\ p.id \in TxIds /\ p.msg = None
    /\ p.mode = "process" /\ p.step # "idle" =>
          /\ p.t.cmd \in Commands
          /\ p.id = p.t.cmd.ext
    /\ p.step \in {"claim", "completed"} => p.msg # None
    /\ p.step = "idle" => p.msg = None

(* The locks of each step.  A replay of a completed message has no key lock. *)
MessageLocks(p) == IF p.msg = None THEN {} ELSE {<<"inbox", p.msg>>}
KeyLock(p) == <<"key", p.t.cmd.key>>
WalletLock(p) == <<"wallet", p.t.cmd.wallet>>
RowLock(p) == <<"row", p.id>>
InsertLock(p) == <<"insert", p.id>>

Locked(p) ==
    /\ p.step \in {"idle", "claim", "row", "answer"} => p.locks = {}
    /\ p.step \in {"advisory", "completed"} => p.locks = MessageLocks(p)
    /\ p.step \in {"lookup", "external"} => p.locks = MessageLocks(p) \cup {KeyLock(p)}
    /\ p.step = "replay" =>
          MessageLocks(p) \subseteq p.locks /\ p.locks \subseteq MessageLocks(p) \cup {KeyLock(p)}
    /\ p.step = "commitReplay" =>
          /\ MessageLocks(p) \subseteq p.locks
          /\ p.locks \subseteq MessageLocks(p) \cup {KeyLock(p), WalletLock(p)}
    /\ p.mode = "process" =>
          /\ p.step = "wallet" => p.locks = MessageLocks(p) \cup {KeyLock(p)}
          /\ p.step \in {"decide", "write"} =>
                p.locks = MessageLocks(p) \cup {KeyLock(p), WalletLock(p)}
          /\ p.step = "commit" =>
                p.locks = MessageLocks(p) \cup {KeyLock(p), WalletLock(p), InsertLock(p)}
    /\ p.mode # "process" =>
          /\ p.step = "wallet" => p.locks = {RowLock(p)}
          /\ p.step \in {"decide", "write", "commit"} => p.locks = {RowLock(p), WalletLock(p)}

(* What the session knows of the committed tables, step by step. *)
MessageKnown(p) ==
    p.msg # None =>
        /\ p.step \in {"advisory", "lookup", "external", "wallet", "decide", "write", "commit"}
              => inbox[p.msg] = None
        /\ p.step = "completed" => inbox[p.msg] = p.t.cmd
        /\ p.step \in {"replay", "commitReplay"} => inbox[p.msg] \in {None, p.t.cmd}

Stored(p) ==
    /\ p.id \in TxIds /\ rows[p.id].status # "NONE"
    /\ rows[p.id].cmd = p.t.cmd
    /\ p.t.status \in Terminal => rows[p.id] = p.t

WalletKnown(p) ==
    p.step \in {"decide", "write", "commit"} =>
        /\ p.t.cmd.wallet \in WalletIds
        /\ Exists(p.t.cmd.wallet)
        /\ p.seen = wallets[p.t.cmd.wallet]

NewKnown(p) ==
    p.mode = "process" =>
        /\ p.step \in {"claim", "advisory", "lookup", "completed", "external", "wallet", "decide"}
              => p.t = NewWagerTransaction(p.t.cmd)
        /\ p.step \in {"external", "wallet", "decide", "write", "commit"} => KeyIsFree(p.t.cmd)
        /\ p.step \in {"decide", "write", "commit"} => ValidCommand(p.t.cmd)
        /\ p.step = "commit" => ExternalIdIsFree(p.t.cmd)
        /\ p.step \in {"replay", "commitReplay"} => Stored(p)
        /\ p.step = "answer" /\ p.error = None => Stored(p)

WaitingKnown(p) ==
    p.mode # "process" =>
        /\ p.step \in {"wallet", "decide", "write", "commit"} =>
              Pending(p.id) /\ p.t.cmd = rows[p.id].cmd
        /\ p.step \in {"wallet", "decide"} => p.t = [rows[p.id] EXCEPT !.due = p.t.due]

(* The decision, made from a reference read without a lock, is one the ledger may
   still make at the commit. *)
DecisionFrom(p, ref) ==
    LET c == p.t.cmd
        reversed == SuccessfulReversalExists(c.ref)
    IN  CASE p.mode = "process" -> DecideNew(NewWagerTransaction(c), p.seen.account, ref,
                                             reversed, p.seen.balance)
          [] p.mode = "resolve" -> DecidePending(rows[p.id], ref, reversed, p.seen.balance)
          [] p.mode = "record" -> DecideFailure(rows[p.id], p.seen.balance)

DecisionStands(p) ==
    p.step \in {"write", "commit"} =>
        /\ p.t.status # "PENDING"
        /\ \E ref \in ReferenceViews(p.t.cmd) : p.t = DecisionFrom(p, ref)

Knows(p) ==
    /\ MessageKnown(p) /\ WalletKnown(p) /\ NewKnown(p) /\ WaitingKnown(p)
    /\ DecisionStands(p) /\ Linked(p.t)

Exclusive ==
    \A s, o \in Sessions : s # o => session[s].locks \cap session[o].locks = {}

SInv ==
    /\ session \in [Sessions -> Session]
    /\ \A s \in Sessions : \A p \in {session[s]} : Shaped(s, p) /\ Locked(p) /\ Knows(p)
    /\ Exclusive

CInv == LInv /\ SInv

-----------------------------------------------------------------------------
(* Part 2: decisions.  Two views of a reference agree for a command when no decision
   tells them apart: both wait, or they have the same outcome and command, and the
   same answer to "already reversed?" unless they belong to another wallet. *)
Agree(c, ref1, reversed1, ref2, reversed2) ==
    \/ ReferenceIsPending(ref1) /\ ReferenceIsPending(ref2)
    \/ /\ ref1.status = ref2.status /\ ref1.cmd = ref2.cmd
       /\ reversed1 = reversed2 \/ ref1.cmd.wallet # c.wallet

(* Settle does not tell agreeing views with an outcome apart. *)
LEMMA SettleAgrees ==
    ASSUME NEW t \in Row, NEW id, NEW ref1, NEW ref2, NEW reversed1, NEW reversed2,
           NEW balance,
           ref1.status = ref2.status, ref1.cmd = ref2.cmd,
           reversed1 = reversed2 \/ ref1.cmd.wallet # t.cmd.wallet
    PROVE  Settle(t, id, ref1, reversed1, balance) = Settle(t, id, ref2, reversed2, balance)
<1> DEFINE r == ResolveReference(t, id)
<1>1. r.cmd = t.cmd
  BY DEF ResolveReference, Row
<1>2. CASE reversed1 = reversed2
  <2>1. ReferenceFailure(r.cmd, ref1, reversed1) = ReferenceFailure(r.cmd, ref2, reversed2)
    BY <1>2 DEF ReferenceFailure, AmountAgrees, AlreadyReversed
  <2>2. QED
    BY <2>1 DEF Settle
<1>3. CASE ref1.cmd.wallet # t.cmd.wallet
  <2>1. /\ ReferenceFailure(r.cmd, ref1, reversed1) = "REFERENCE_MISMATCH"
        /\ ReferenceFailure(r.cmd, ref2, reversed2) = "REFERENCE_MISMATCH"
    BY <1>1, <1>3 DEF ReferenceFailure
  <2>2. QED
    BY <2>1 DEF Settle
<1>4. QED BY <1>2, <1>3

(* Nor does any decision that looks at a reference. *)
LEMMA DecisionAgrees ==
    ASSUME NEW t \in Row, NEW ref1, NEW ref2, NEW reversed1, NEW reversed2,
           NEW owner, NEW balance, Agree(t.cmd, ref1, reversed1, ref2, reversed2)
    PROVE  /\ DecideNew(t, owner, ref1, reversed1, balance)
                 = DecideNew(t, owner, ref2, reversed2, balance)
           /\ DecidePending(t, ref1, reversed1, balance)
                 = DecidePending(t, ref2, reversed2, balance)
<1>1. CASE ReferenceIsPending(ref1) /\ ReferenceIsPending(ref2)
  BY <1>1 DEF DecideNew, DecidePending
<1>2. CASE /\ ref1.status = ref2.status /\ ref1.cmd = ref2.cmd
           /\ reversed1 = reversed2 \/ ref1.cmd.wallet # t.cmd.wallet
  <2>1. Settle(t, t.cmd.ref, ref1, reversed1, balance)
            = Settle(t, t.cmd.ref, ref2, reversed2, balance)
    BY <1>2, SettleAgrees
  <2>2. ReferenceIsPending(ref1) <=> ReferenceIsPending(ref2)
    BY <1>2 DEF ReferenceIsPending
  <2>3. QED
    BY <2>1, <2>2 DEF DecideNew, DecidePending
<1>3. QED BY <1>1, <1>2 DEF Agree

(* No decision of the reference worker depends on whether the row is due. *)
LEMMA DueIsIrrelevant ==
    ASSUME NEW r \in Row, NEW b \in BOOLEAN, NEW ref, NEW reversed, NEW balance
    PROVE  LET t == [r EXCEPT !.due = b]
           IN  /\ DecidePending(t, ref, reversed, balance)
                     = DecidePending(r, ref, reversed, balance)
               /\ DecideFailure(t, balance) = DecideFailure(r, balance)
<1> DEFINE t == [r EXCEPT !.due = b]
<1>1. /\ t \in Row /\ t.cmd = r.cmd /\ t.attempts = r.attempts
      /\ \A id : ResolveReference(t, id) = ResolveReference(r, id)
      /\ MarkPendingReference(t) = MarkPendingReference(r)
      /\ \A code : Reject(t, code, balance) = Reject(r, code, balance)
      /\ \A code : Fail(t, code, balance) = Fail(r, code, balance)
  BY DEF Row, ResolveReference, MarkPendingReference, Reject, Fail
<1>2. AttemptsUsed(t) <=> AttemptsUsed(r)
  BY <1>1 DEF AttemptsUsed
<1> HIDE DEF t
<1>3. Settle(t, t.cmd.ref, ref, reversed, balance) = Settle(r, r.cmd.ref, ref, reversed, balance)
  BY <1>1 DEF Settle
<1>4. QED
  BY <1>1, <1>2, <1>3 DEF DecidePending, DecideFailure, t

(* Settling links the row to its reference, whatever comes of it. *)
LEMMA SettleLinks ==
    ASSUME NEW t \in Row, NEW id, NEW ref, NEW reversed, NEW balance
    PROVE  Settle(t, id, ref, reversed, balance).refTx = id
<1> DEFINE r == ResolveReference(t, id)
           direction == Direction(r.cmd.kind, ref.cmd.kind)
<1>1. /\ r.refTx = id /\ \A code : Reject(r, code, balance).refTx = id
      /\ \A b : MarkProcessed(r, b).refTx = id
  BY DEF ResolveReference, Reject, MarkProcessed, Row
<1>2. direction \in {"CREDIT", "DEBIT", "NONE"}
  BY DirectionRange
<1> HIDE DEF r, direction
<1>3. Finalize(r, direction, balance).refTx = id
  BY <1>1, <1>2 DEF Finalize
<1>4. QED
  BY <1>1, <1>3 DEF Settle, r, direction

(* A decision links a row only to a reference that has an outcome. *)
LEMMA DecisionLinked ==
    ASSUME rows \in [TxIds -> Row], NEW t \in Row, Linked(t),
           t.cmd.ref \in ExternalIds \cup {None}, NEW ref \in ReferenceViews(t.cmd),
           NEW owner, NEW reversed, NEW balance
    PROVE  /\ Linked(DecideNew(t, owner, ref, reversed, balance))
           /\ Linked(DecidePending(t, ref, reversed, balance))
           /\ Linked(DecideFailure(t, balance))
<1>1. ~ ReferenceIsPending(ref) =>
        t.cmd.ref \in TxIds /\ rows[t.cmd.ref].status \in Terminal
  <2>1. SUFFICES ASSUME ~ ReferenceIsPending(ref)
                 PROVE  t.cmd.ref \in TxIds /\ rows[t.cmd.ref].status \in Terminal
    OBVIOUS
  <2>2. t.cmd.ref # None /\ ref = rows[t.cmd.ref]
    BY <2>1, NoRowShape DEF ReferenceViews, RowOf, ReferenceIsPending
  <2>3. t.cmd.ref \in TxIds /\ rows[t.cmd.ref] \in Row
    BY <2>2 DEF TxIds
  <2>4. QED
    BY <2>1, <2>2, <2>3 DEF ReferenceIsPending, Row, Statuses
<1>2. ASSUME NEW d, d.refTx \in {t.refTx, t.cmd.ref}, d.refTx = t.refTx \/ ~ ReferenceIsPending(ref)
      PROVE  Linked(d)
  BY <1>1, <1>2 DEF Linked
<1>3. ASSUME NEW d, d.refTx = t.refTx PROVE Linked(d)
  BY <1>3 DEF Linked
<1>4. /\ \A code : Reject(t, code, balance).refTx = t.refTx
      /\ \A code : Fail(t, code, balance).refTx = t.refTx
      /\ MarkPendingReference(t).refTx = t.refTx
      /\ \A b : MarkProcessed(t, b).refTx = t.refTx
  BY DEF Reject, Fail, MarkPendingReference, MarkProcessed, Row
<1>5. Settle(t, t.cmd.ref, ref, reversed, balance).refTx = t.cmd.ref
  BY SettleLinks
<1>6. Finalize(t, Direction(t.cmd.kind, None), balance).refTx = t.refTx
  BY <1>4, DirectionRange DEF Finalize
<1>7. Linked(DecideNew(t, owner, ref, reversed, balance))
  <2>1. DecideNew(t, owner, ref, reversed, balance).refTx = t.refTx \/ ~ ReferenceIsPending(ref)
    BY <1>4, <1>6 DEF DecideNew
  <2>2. DecideNew(t, owner, ref, reversed, balance).refTx \in {t.refTx, t.cmd.ref}
    BY <1>4, <1>5, <1>6 DEF DecideNew
  <2>3. QED BY <1>2, <2>1, <2>2
<1>8. Linked(DecidePending(t, ref, reversed, balance))
  <2>1. DecidePending(t, ref, reversed, balance).refTx = t.refTx \/ ~ ReferenceIsPending(ref)
    BY <1>4 DEF DecidePending
  <2>2. DecidePending(t, ref, reversed, balance).refTx \in {t.refTx, t.cmd.ref}
    BY <1>4, <1>5 DEF DecidePending
  <2>3. QED BY <1>2, <2>1, <2>2
<1>9. Linked(DecideFailure(t, balance))
  BY <1>3, <1>4 DEF DecideFailure
<1>10. QED BY <1>7, <1>8, <1>9

(* A row that is linked stays linked: the reference keeps its outcome. *)
LEMMA LinkedKept ==
    ASSUME IInv, [Next]_vars, NEW t, Linked(t)
    PROVE  Linked(t)'
<1>1. CASE t.refTx = None
  BY <1>1 DEF Linked
<1>2. CASE t.refTx # None
  <2>1. t.refTx \in TxIds /\ rows[t.refTx].status \in Terminal
    BY <1>2 DEF Linked
  <2>2. rows'[t.refTx] = rows[t.refTx]
    BY <2>1, RowsKept
  <2>3. QED BY <2>1, <2>2 DEF Linked
<1>3. QED BY <1>1, <1>2

(* Writing one linked and well-named row keeps all rows so. *)
LEMMA WriteLinks ==
    ASSUME IInv, RowsLinked, RowsNamed, [Next]_vars, NEW id \in TxIds, NEW d,
           rows' = [rows EXCEPT ![id] = d], Linked(d), d.cmd.ext \in {None, id}
    PROVE  RowsLinked' /\ RowsNamed'
<1>1. \A s \in TxIds : rows'[s] = IF s = id THEN d ELSE rows[s]
  BY DEF IInv, TypeOK
<1>2. ASSUME NEW s \in TxIds PROVE Linked(rows[s])'
  <2> PICK t : t = rows'[s]
    OBVIOUS
  <2>1. Linked(t)
    BY <1>1 DEF RowsLinked
  <2>2. Linked(t)'
    BY <2>1, LinkedKept
  <2>3. QED BY <2>2 DEF Linked
<1>3. QED
  BY <1>1, <1>2 DEF RowsLinked, RowsNamed

(* Every use case writes such a row. *)
LEMMA NextLinks ==
    ASSUME IInv, RowsLinked, RowsNamed, [Next]_vars
    PROVE  RowsLinked' /\ RowsNamed'
<1>1. rows \in [TxIds -> Row]
  BY DEF IInv, TypeOK
<1>2. ASSUME UNCHANGED rows PROVE RowsLinked' /\ RowsNamed'
  BY <1>2 DEF RowsLinked, RowsNamed, Linked
<1>3. ASSUME NEW o \in Openings, CreateWallet(o.wallet, o.account, o.money)
      PROVE  RowsLinked' /\ RowsNamed'
  <2> DEFINE d == MarkProcessed(FreshRow(OpeningCommand(o.wallet, o.account, o.money), "PENDING"), o.money)
  <2>1. d.refTx = None /\ d.cmd.ext = None
    BY DEF MarkProcessed, FreshRow, OpeningCommand
  <2>2. o.wallet \in TxIds
    BY LedgerAssumption DEF TxIds
  <2>3. UNCHANGED rows \/ rows' = [rows EXCEPT ![o.wallet] = d]
    BY <1>3 DEF CreateWallet
  <2> HIDE DEF d
  <2>4. QED BY <1>2, <2>1, <2>2, <2>3, WriteLinks DEF Linked
<1>4. ASSUME NEW c \in Commands, NEW m \in Messages \cup {None}, Accept(c, m)
      PROVE  RowsLinked' /\ RowsNamed'
  <2> DEFINE t == NewWagerTransaction(c)
             reversed == SuccessfulReversalExists(c.ref)
             balance == wallets[c.wallet].balance
  <2>1. PICK ref \in ReferenceViews(c) :
          Persist(c.ext, DecideNew(t, wallets[c.wallet].account, ref, reversed, balance))
    BY <1>4 DEF Accept
  <2> DEFINE d == DecideNew(t, wallets[c.wallet].account, ref, reversed, balance)
  <2>2. /\ c \in Command /\ c.ext \in TxIds /\ c.ref \in ExternalIds \cup {None}
        /\ c.wallet \in WalletIds /\ ValidCommand(c)
    BY <1>4, LedgerAssumption DEF Command, TxIds, Accept
  <2>3. balance \in Minor
    BY <2>2 DEF IInv, TypeOK, Wallet
  <2>4. t \in Row /\ d.cmd = c /\ t.cmd = c /\ t.refTx = None
    BY <1>1, <2>2, <2>3, NewDecided DEF NewWagerTransaction, FreshRow, Decided, Outcome
  <2>5. rows' = [rows EXCEPT ![c.ext] = d]
    BY <2>1 DEF Persist
  <2> HIDE DEF t
  <2>6. Linked(d)
    BY <1>1, <2>2, <2>4, DecisionLinked DEF Linked
  <2> HIDE DEF d
  <2>7. QED BY <2>2, <2>4, <2>5, <2>6, WriteLinks
<1>5. ASSUME NEW id \in TxIds, Pending(id), NEW ref \in ReferenceViews(rows[id].cmd),
             NEW reversed, NEW balance, NEW d,
             d \in {DecidePending(rows[id], ref, reversed, balance),
                    DecideFailure(rows[id], balance)},
             d.cmd = rows[id].cmd, rows' = [rows EXCEPT ![id] = d]
      PROVE  RowsLinked' /\ RowsNamed'
  <2>1. rows[id] \in Row /\ rows[id].cmd.ref \in ExternalIds \cup {None} /\ Linked(rows[id])
    BY <1>5, WaitingSubject DEF RowsLinked
  <2>2. Linked(d)
    BY <1>1, <1>5, <2>1, DecisionLinked
  <2>3. d.cmd.ext \in {None, id}
    BY <1>5 DEF RowsNamed
  <2>4. QED BY <1>5, <2>2, <2>3, WriteLinks
<1>6. ASSUME NEW id \in TxIds, ResolvePendingReference(id)
      PROVE  RowsLinked' /\ RowsNamed'
  <2> DEFINE t == rows[id]
             reversed == SuccessfulReversalExists(t.cmd.ref)
             balance == wallets[t.cmd.wallet].balance
  <2>1. PICK ref \in ReferenceViews(t.cmd) : Persist(id, DecidePending(t, ref, reversed, balance))
    BY <1>6 DEF ResolvePendingReference
  <2> DEFINE d == DecidePending(t, ref, reversed, balance)
  <2>2. Pending(id)
    BY <1>6 DEF ResolvePendingReference, StillPending
  <2>3. d.cmd = t.cmd
    BY <1>1, <2>2, WaitingSubject, PendingDecided DEF Decided, Outcome
  <2>4. rows' = [rows EXCEPT ![id] = d]
    BY <2>1 DEF Persist
  <2>5. QED BY <1>5, <2>2, <2>3, <2>4
<1>7. ASSUME NEW id \in TxIds, RecordPendingReferenceFailure(id)
      PROVE  RowsLinked' /\ RowsNamed'
  <2> DEFINE t == rows[id]
             balance == wallets[t.cmd.wallet].balance
             d == DecideFailure(t, balance)
  <2>1. Pending(id) /\ rows' = [rows EXCEPT ![id] = d]
    BY <1>7 DEF RecordPendingReferenceFailure, Persist
  <2>2. d.cmd = t.cmd
    BY <2>1, WaitingSubject, FailureDecided DEF Decided, Outcome
  <2>3. RowOf(t.cmd.ref) \in ReferenceViews(t.cmd)
    BY DEF ReferenceViews
  <2>4. QED BY <1>5, <2>1, <2>2, <2>3
<1>8. ASSUME NEW id \in TxIds, BackoffElapses(id)
      PROVE  RowsLinked' /\ RowsNamed'
  <2> DEFINE d == [rows[id] EXCEPT !.due = TRUE]
  <2>1. rows' = [rows EXCEPT ![id] = d]
    BY <1>8 DEF BackoffElapses
  <2>2. d.refTx = rows[id].refTx /\ d.cmd = rows[id].cmd
    BY <1>1 DEF Row
  <2>3. Linked(d) /\ d.cmd.ext \in {None, id}
    BY <2>2 DEF RowsLinked, RowsNamed, Linked
  <2> HIDE DEF d
  <2>4. QED BY <2>1, <2>3, WriteLinks
<1>9. ASSUME NEW c \in Commands, NEW m \in Messages, Replay(c, m)
      PROVE  RowsLinked' /\ RowsNamed'
  BY <1>2, <1>9 DEF Replay
<1>10. CASE UNCHANGED vars
  BY <1>2, <1>10 DEF vars
<1>11. QED
  BY <1>3, <1>4, <1>6, <1>7, <1>8, <1>9, <1>10 DEF Next

(* The ledger part of the invariant across any use case. *)
LEMMA LedgerKept ==
    ASSUME LInv, [Next]_vars
    PROVE  LInv'
<1>1. IInv'
  BY NextKeeps DEF LInv
<1>2. EInv' /\ ReversalUndoes'
  BY NextEInv DEF LInv
<1>3. RowsLinked' /\ RowsNamed'
  BY NextLinks DEF LInv
<1>4. QED
  BY <1>1, <1>2, <1>3 DEF LInv

(* The empty tables satisfy the ledger part. *)
LEMMA InitLedger == Init => LInv
<1> SUFFICES ASSUME Init PROVE LInv
  OBVIOUS
<1>1. \A id \in TxIds : rows[id] = NoRow
  BY DEF Init
<1>2. NoRow.cmd.ext = None
  BY DEF NoRow, FreshRow, OpeningCommand
<1>3. RowsLinked /\ RowsNamed
  BY <1>1, <1>2, NoRowShape DEF RowsLinked, RowsNamed, Linked
<1>4. QED
  BY <1>3, InitKeeps, InitEInv DEF LInv

-----------------------------------------------------------------------------
(* Part 3: what a change of the database leaves alone when its actor holds these
   locks.  A row changes under its own lock when it waits, under the insert and key
   locks when it is new, and under the lock of its wallet; only the clock and the
   opening of a new wallet need no lock. *)
RowSpared(id, locks) ==
    \/ rows'[id] = rows[id]
    \/ Pending(id) /\ rows'[id] = [rows[id] EXCEPT !.due = TRUE]
    \/ /\ id \in WalletIds /\ rows[id].status = "NONE" /\ ~ Exists(id)
       /\ rows'[id].cmd.wallet = id /\ rows'[id].cmd.key = None
    \/ /\ <<"wallet", rows'[id].cmd.wallet>> \in locks
       /\ \/ /\ rows[id].status = "NONE"
             /\ <<"insert", id>> \in locks /\ <<"key", rows'[id].cmd.key>> \in locks
          \/ Pending(id) /\ <<"row", id>> \in locks

Spares(locks) ==
    /\ \A m \in Messages : <<"inbox", m>> \in locks \/ inbox'[m] = inbox[m]
    /\ \A id \in TxIds : RowSpared(id, locks)
    /\ \A w \in WalletIds : Exists(w) => <<"wallet", w>> \in locks \/ wallets'[w] = wallets[w]

(* Whoever holds the lock of the wallet keeps its view of a reference valid: another
   view, after the step, agrees with it. *)
LEMMA ReversedKept ==
    ASSUME LInv, [Next]_vars, NEW locks, Spares(locks), NEW c \in RowCommand,
           c.wallet \in WalletIds, Exists(c.wallet), c.ref \in ExternalIds,
           <<"wallet", c.wallet>> \notin locks
    PROVE  \/ SuccessfulReversalExists(c.ref)' = SuccessfulReversalExists(c.ref)
           \/ rows'[c.ref].cmd.wallet # c.wallet
<1>1. LInv'
  BY LedgerKept
<1>2. SuccessfulReversalExists(c.ref) => SuccessfulReversalExists(c.ref)'
  <2>1. SUFFICES ASSUME NEW s \in TxIds, rows[s].refTx = c.ref, rows[s].cmd.kind \in Reversals,
                        rows[s].status = "PROCESSED"
                 PROVE  SuccessfulReversalExists(c.ref)'
    BY DEF SuccessfulReversalExists
  <2>2. rows'[s] = rows[s]
    BY <2>1, RowsKept DEF LInv, Terminal
  <2>3. QED
    BY <2>1, <2>2 DEF SuccessfulReversalExists
<1>3. ASSUME NEW s \in TxIds, rows'[s].refTx = c.ref, rows'[s].cmd.kind \in Reversals,
             rows'[s].status = "PROCESSED", rows'[c.ref].cmd.wallet = c.wallet
      PROVE  rows'[s] = rows[s]
  <2>1. rows'[s].cmd.wallet = c.wallet
    BY <1>1, <1>3 DEF LInv, EInv, ReversalsBacked, Backed
  <2>2. rows[s] \in Row
    BY DEF LInv, IInv, TypeOK
  <2>3. Pending(s) => rows'[s] # [rows[s] EXCEPT !.due = TRUE]
    BY <1>3, <2>2 DEF Pending, Row
  <2>4. RowSpared(s, locks)
    BY DEF Spares
  <2>5. QED
    BY <2>1, <2>3, <2>4 DEF RowSpared
<1>4. QED
  BY <1>2, <1>3 DEF SuccessfulReversalExists

(* A session that has locked the wallet can still read its reference as it did, or in a
   way that no decision tells apart, whatever another session writes meanwhile. *)
LEMMA ViewsKept ==
    ASSUME LInv, [Next]_vars, NEW locks, Spares(locks), NEW c \in RowCommand,
           c.wallet \in WalletIds, Exists(c.wallet), c.ref \in ExternalIds,
           <<"wallet", c.wallet>> \notin locks, NEW ref \in ReferenceViews(c)
    PROVE  \E view \in ReferenceViews(c)' :
              Agree(c, ref, SuccessfulReversalExists(c.ref),
                    view, SuccessfulReversalExists(c.ref)')
<1> DEFINE row == rows[c.ref]
           new == rows'[c.ref]
<1>1. LInv' /\ c.ref \in TxIds /\ c.ref # None
  BY LedgerKept, DomainAssumption DEF TxIds
<1>2. row \in Row /\ row.status # "PENDING"
  BY <1>1 DEF LInv, IInv, TypeOK, RowShape
<1>3. new \in ReferenceViews(c)'
  BY <1>1 DEF RowOf, ReferenceViews
<1>4. CASE ref = NoRow /\ row.cmd.wallet \notin {None, c.wallet}
  <2>1. row.status # "NONE"
    BY <1>1, <1>4, NoRowShape DEF LInv, IInv, RowShape
  <2>2. new.cmd = row.cmd
    BY <1>1, <2>1, RowsKept DEF LInv
  <2>3. NoRow \in ReferenceViews(c)'
    BY <1>1, <1>4, <2>2 DEF ReferenceViews, RowOf
  <2>4. QED
    BY <1>4, <2>3, NoRowShape DEF Agree, ReferenceIsPending
<1>5. CASE ref = row
  <2>1. CASE new = row
    BY <1>3, <1>5, <2>1, ReversedKept DEF Agree
  <2>2. CASE Pending(c.ref) /\ new = [row EXCEPT !.due = TRUE]
    <3>1. new.status = "PENDING_REFERENCE" /\ row.status = "PENDING_REFERENCE"
      BY <1>2, <2>2 DEF Pending, Row
    <3>2. QED
      BY <1>3, <1>5, <3>1 DEF Agree, ReferenceIsPending
  <2>3. CASE <<"wallet", new.cmd.wallet>> \in locks /\ row.status \in {"NONE", "PENDING_REFERENCE"}
    <3>1. new.cmd.wallet # c.wallet
      BY <2>3
    <3>2. CASE new.cmd.wallet = None
      <4>1. new.status = "NONE"
        BY <1>1, <3>2, DomainAssumption DEF LInv, IInv, RowShape
      <4>2. QED
        BY <1>3, <1>5, <2>3, <4>1 DEF Agree, ReferenceIsPending
    <3>3. CASE new.cmd.wallet # None
      <4>1. NoRow \in ReferenceViews(c)'
        BY <1>1, <3>1, <3>3 DEF ReferenceViews, RowOf
      <4>2. QED
        BY <1>5, <2>3, <4>1, NoRowShape DEF Agree, ReferenceIsPending
    <3>4. QED BY <3>2, <3>3
  <2>4. c.ref \notin WalletIds
    BY DomainAssumption
  <2>5. RowSpared(c.ref, locks)
    BY <1>1 DEF Spares
  <2>6. QED
    BY <2>1, <2>2, <2>3, <2>4, <2>5 DEF RowSpared, Pending
<1>6. QED
  BY <1>1, <1>4, <1>5 DEF ReferenceViews, RowOf

(* What a session knows of the transaction it answers with is fixed. *)
LEMMA StoredKept ==
    ASSUME LInv, [Next]_vars, NEW p, Stored(p)
    PROVE  Stored(p)'
<1>1. /\ p.id \in TxIds /\ rows[p.id].status # "NONE" /\ rows[p.id].cmd = p.t.cmd
      /\ p.t.status \in Terminal => rows[p.id] = p.t
  BY DEF Stored
<1>2. /\ rows'[p.id].cmd = rows[p.id].cmd
      /\ rows[p.id].status \in Terminal => rows'[p.id] = rows[p.id]
  BY <1>1, RowsKept DEF LInv
<1>3. rows'[p.id].status # "NONE"
  <2>1. rows[p.id].cmd.wallet \in WalletIds
    BY <1>1 DEF LInv, IInv, RowShape
  <2>2. IInv'
    BY NextKeeps DEF LInv
  <2>3. rows'[p.id].status = "NONE" => rows'[p.id].cmd.wallet = None
    BY <1>1, <2>2, NoRowShape DEF IInv, RowShape, NoRow
  <2>4. QED
    BY <1>2, <2>1, <2>3, DomainAssumption
<1>4. QED
  BY <1>1, <1>2, <1>3 DEF Stored

(* The locks of a session by what they protect. *)
LEMMA LocksHeld ==
    ASSUME NEW s \in Sessions, NEW p, Shaped(s, p), Locked(p)
    PROVE  /\ p.msg # None /\ p.step \notin {"idle", "claim", "row", "answer"}
                => <<"inbox", p.msg>> \in p.locks
           /\ p.mode = "process" /\ p.step \in {"lookup", "external", "wallet", "decide", "write", "commit"}
                => KeyLock(p) \in p.locks
           /\ p.step \in {"decide", "write", "commit"} => WalletLock(p) \in p.locks
           /\ p.mode # "process" /\ p.step \in {"wallet", "decide", "write", "commit"}
                => RowLock(p) \in p.locks
           /\ p.mode = "process" /\ p.step = "commit" => InsertLock(p) \in p.locks
<1>1. /\ p.step \in Steps
      /\ p.mode \in {"process", "resolve", "record"}
      /\ p.mode # "process" => p.msg = None
  BY DEF Shaped, Session
<1>2. p.msg # None => MessageLocks(p) = {<<"inbox", p.msg>>}
  BY DEF MessageLocks
<1>3. p.msg # None /\ p.step \notin {"idle", "claim", "row", "answer"}
                => <<"inbox", p.msg>> \in p.locks
  BY <1>1, <1>2 DEF Locked, Steps
<1>4. QED
  BY <1>1, <1>3 DEF Locked, Steps

(* A waiting row whose lock the actor does not hold at most becomes due. *)
LEMMA WaitingKept ==
    ASSUME LInv, NEW locks, Spares(locks), NEW id \in TxIds, Pending(id),
           <<"row", id>> \notin locks
    PROVE  /\ rows[id] \in Row /\ rows'[id].due \in BOOLEAN
           /\ rows'[id] = [rows[id] EXCEPT !.due = rows'[id].due]
<1>1. rows[id] \in Row
  BY DEF LInv, IInv, TypeOK
<1>2. RowSpared(id, locks)
  BY DEF Spares
<1>3. rows'[id] = rows[id] \/ rows'[id] = [rows[id] EXCEPT !.due = TRUE]
  BY <1>2 DEF RowSpared, Pending
<1>4. CASE rows'[id] = rows[id]
  BY <1>1, <1>4 DEF Row
<1>5. CASE rows'[id] = [rows[id] EXCEPT !.due = TRUE]
  BY <1>1, <1>5 DEF Row
<1>6. QED BY <1>3, <1>4, <1>5

(* A decision that stands keeps standing. *)
LEMMA DecisionKept ==
    ASSUME LInv, [Next]_vars, NEW locks, Spares(locks), NEW s \in Sessions, NEW p,
           Shaped(s, p), Locked(p), Knows(p), p.locks \cap locks = {}
    PROVE  DecisionStands(p)'
<1> SUFFICES ASSUME p.step \in {"write", "commit"}
             PROVE  p.t.status # "PENDING"
                    /\ \E view \in ReferenceViews(p.t.cmd)' : p.t = DecisionFrom(p, view)'
  BY DEF DecisionStands
<1> DEFINE c == p.t.cmd
<1>1. /\ c \in RowCommand /\ c.ref \in ExternalIds \cup {None}
      /\ c.wallet \in WalletIds /\ Exists(c.wallet) /\ <<"wallet", c.wallet>> \notin locks
      /\ p.mode \in {"process", "resolve", "record"} /\ p.t.status # "PENDING"
  BY LocksHeld DEF Shaped, Session, Row, RowCommand, Knows, WalletKnown, WalletLock, DecisionStands
<1>2. PICK ref \in ReferenceViews(c) : p.t = DecisionFrom(p, ref)
  BY DEF Knows, DecisionStands
<1>3. RowOf(c.ref)' \in ReferenceViews(c)'
  BY DEF ReferenceViews
<1>4. CASE p.mode = "process"
  <2> DEFINE t == NewWagerTransaction(c)
  <2>1. t \in Row /\ t.cmd = c
    BY <1>1 DEF NewWagerTransaction, FreshRow, Row, Statuses
  <2>2. p.t = DecideNew(t, p.seen.account, ref, SuccessfulReversalExists(c.ref), p.seen.balance)
    BY <1>2, <1>4 DEF DecisionFrom
  <2>3. \A view : DecisionFrom(p, view)' = DecideNew(t, p.seen.account, view,
                      SuccessfulReversalExists(c.ref)', p.seen.balance)
    BY <1>4 DEF DecisionFrom
  <2> HIDE DEF t
  <2>4. CASE c.ref = None
    <3>1. DecideNew(t, p.seen.account, RowOf(c.ref)', SuccessfulReversalExists(c.ref)', p.seen.balance)
            = DecideNew(t, p.seen.account, ref, SuccessfulReversalExists(c.ref), p.seen.balance)
      BY <2>1, <2>4 DEF DecideNew
    <3>2. QED BY <1>1, <1>3, <2>2, <2>3, <3>1
  <2>5. CASE c.ref # None
    <3>1. PICK view \in ReferenceViews(c)' : Agree(c, ref, SuccessfulReversalExists(c.ref),
                                                   view, SuccessfulReversalExists(c.ref)')
      BY <1>1, <2>5, ViewsKept
    <3>2. DecideNew(t, p.seen.account, view, SuccessfulReversalExists(c.ref)', p.seen.balance)
            = DecideNew(t, p.seen.account, ref, SuccessfulReversalExists(c.ref), p.seen.balance)
      BY <2>1, <3>1, DecisionAgrees
    <3>3. QED BY <1>1, <2>2, <2>3, <3>1, <3>2
  <2>6. QED BY <2>4, <2>5
<1>5. CASE p.mode # "process"
  <2>1. p.id \in TxIds /\ Pending(p.id) /\ rows[p.id].cmd = c /\ <<"row", p.id>> \notin locks
    BY <1>5, LocksHeld DEF Shaped, Knows, WaitingKnown, RowLock
  <2> PICK r : r = rows[p.id]
    OBVIOUS
  <2> PICK due : due = rows'[p.id].due
    OBVIOUS
  <2>2. /\ r \in Row /\ due \in BOOLEAN /\ rows'[p.id] = [r EXCEPT !.due = due]
        /\ r.cmd = c /\ c.ref \in ExternalIds
    BY <2>1, WaitingKept, WaitingSubject DEF LInv
  <2>3. CASE p.mode = "resolve"
    <3>1. p.t = DecidePending(r, ref, SuccessfulReversalExists(c.ref), p.seen.balance)
      BY <1>2, <2>3 DEF DecisionFrom
    <3>2. \A view : DecisionFrom(p, view)' = DecidePending([r EXCEPT !.due = due], view,
                        SuccessfulReversalExists(c.ref)', p.seen.balance)
      BY <2>2, <2>3 DEF DecisionFrom
    <3>3. PICK view \in ReferenceViews(c)' : Agree(c, ref, SuccessfulReversalExists(c.ref),
                                                   view, SuccessfulReversalExists(c.ref)')
      BY <1>1, <2>2, ViewsKept
    <3>4. DecidePending(r, view, SuccessfulReversalExists(c.ref)', p.seen.balance) = p.t
      BY <2>2, <3>1, <3>3, DecisionAgrees
    <3>5. DecisionFrom(p, view)' = p.t
      BY <2>2, <3>2, <3>4, DueIsIrrelevant
    <3>6. QED BY <1>1, <3>3, <3>5
  <2>4. CASE p.mode = "record"
    <3>1. p.t = DecideFailure(r, p.seen.balance)
      BY <1>2, <2>4 DEF DecisionFrom
    <3>2. \A view : DecisionFrom(p, view)' = DecideFailure([r EXCEPT !.due = due], p.seen.balance)
      BY <2>2, <2>4 DEF DecisionFrom
    <3>3. QED BY <1>1, <1>3, <2>2, <3>1, <3>2, DueIsIrrelevant
  <2>5. QED BY <1>1, <1>5, <2>3, <2>4
<1>6. QED BY <1>4, <1>5

(* All that a session knows survives a step of an actor that holds none of its locks. *)
LEMMA KnowledgeKept ==
    ASSUME LInv, [Next]_vars, NEW locks, Spares(locks), NEW s \in Sessions, NEW p,
           Shaped(s, p), Locked(p), Knows(p), p.locks \cap locks = {}
    PROVE  Knows(p)'
<1>1. /\ p.step \in Steps /\ p.msg \in Messages \cup {None}
      /\ p.mode \in {"process", "resolve", "record"}
  BY DEF Shaped, Session
<1>2. MessageKnown(p)'
  <2>1. p.msg # None /\ p.step \notin {"idle", "claim", "row", "answer"}
          => inbox'[p.msg] = inbox[p.msg]
    BY <1>1, LocksHeld DEF Spares
  <2>2. QED
    BY <2>1 DEF Knows, MessageKnown
<1>3. WalletKnown(p)'
  <2>1. SUFFICES ASSUME p.step \in {"decide", "write", "commit"}
                 PROVE  p.t.cmd.wallet \in WalletIds /\ Exists(p.t.cmd.wallet)'
                        /\ p.seen = wallets'[p.t.cmd.wallet]
    BY DEF WalletKnown
  <2>2. p.t.cmd.wallet \in WalletIds /\ Exists(p.t.cmd.wallet) /\ p.seen = wallets[p.t.cmd.wallet]
        /\ <<"wallet", p.t.cmd.wallet>> \notin locks
    BY <2>1, LocksHeld DEF Knows, WalletKnown, WalletLock
  <2>3. wallets'[p.t.cmd.wallet] = wallets[p.t.cmd.wallet]
    BY <2>2 DEF Spares
  <2>4. QED
    BY <2>2, <2>3 DEF Exists
<1>4. NewKnown(p)'
  <2> DEFINE c == p.t.cmd
  <2> SUFFICES ASSUME p.mode = "process"
               PROVE  /\ p.step \in {"claim", "advisory", "lookup", "completed", "external", "wallet", "decide"}
                            => p.t = NewWagerTransaction(c)
                      /\ p.step \in {"external", "wallet", "decide", "write", "commit"} => KeyIsFree(c)'
                      /\ p.step \in {"decide", "write", "commit"} => ValidCommand(c)
                      /\ p.step = "commit" => ExternalIdIsFree(c)'
                      /\ p.step \in {"replay", "commitReplay"} => Stored(p)'
                      /\ p.step = "answer" /\ p.error = None => Stored(p)'
    BY DEF NewKnown
  <2>1. /\ p.step # "idle" =>
              c \in Command /\ c.key \in Keys /\ c.ext \in ExternalIds /\ p.id = c.ext
        /\ rows \in [TxIds -> Row]
    BY LedgerAssumption DEF Shaped, Command, LInv, IInv, TypeOK
  <2>2. ASSUME p.step \in {"external", "wallet", "decide", "write", "commit"}
        PROVE  KeyIsFree(c)'
    <3>1. <<"key", c.key>> \notin locks /\ \A id \in TxIds : rows[id].cmd.key # c.key
      BY <2>2, LocksHeld DEF KeyLock, Knows, NewKnown, KeyIsFree
    <3>2. SUFFICES ASSUME NEW id \in TxIds PROVE rows'[id].cmd.key # c.key
      BY DEF KeyIsFree
    <3>3. RowSpared(id, locks)
      BY DEF Spares
    <3>4. rows[id].status # "NONE" => rows'[id].cmd = rows[id].cmd
      BY RowsKept DEF LInv
    <3>5. c.key # None
      BY <2>1, <2>2, DomainAssumption
    <3>6. QED
      BY <3>1, <3>3, <3>4, <3>5 DEF RowSpared, Pending
  <2>3. ASSUME p.step = "commit"
        PROVE  ExternalIdIsFree(c)'
    <3>1. <<"insert", c.ext>> \notin locks /\ rows[c.ext].status = "NONE" /\ c.ext \in TxIds
      BY <2>1, <2>3, LocksHeld DEF InsertLock, Knows, NewKnown, ExternalIdIsFree, TxIds
    <3>2. RowSpared(c.ext, locks)
      BY <3>1 DEF Spares
    <3>3. c.ext \notin WalletIds
      BY <2>1, <2>3, DomainAssumption
    <3>4. rows'[c.ext] = rows[c.ext]
      BY <3>1, <3>2, <3>3 DEF RowSpared, Pending
    <3>5. QED
      BY <3>1, <3>4 DEF ExternalIdIsFree
  <2>4. QED
    BY <2>2, <2>3, StoredKept DEF Knows, NewKnown
<1>5. WaitingKnown(p)'
  <2> SUFFICES ASSUME p.mode # "process", p.step \in {"wallet", "decide", "write", "commit"}
               PROVE  /\ Pending(p.id)' /\ p.t.cmd = rows'[p.id].cmd
                      /\ p.step \in {"wallet", "decide"} =>
                            p.t = [rows'[p.id] EXCEPT !.due = p.t.due]
    BY DEF WaitingKnown
  <2>1. /\ p.id \in TxIds /\ Pending(p.id) /\ <<"row", p.id>> \notin locks
        /\ p.t.cmd = rows[p.id].cmd
        /\ p.step \in {"wallet", "decide"} => p.t = [rows[p.id] EXCEPT !.due = p.t.due]
    BY LocksHeld DEF Shaped, Knows, WaitingKnown, RowLock
  <2>2. /\ rows[p.id] \in Row /\ rows'[p.id].due \in BOOLEAN
        /\ rows'[p.id] = [rows[p.id] EXCEPT !.due = rows'[p.id].due]
    BY <2>1, WaitingKept
  <2>3. QED
    BY <2>1, <2>2 DEF Row, Pending
<1>6. DecisionStands(p)'
  BY DecisionKept
<1>7. Linked(p.t)'
  BY LinkedKept DEF Knows, LInv
<1>8. QED
  BY <1>2, <1>3, <1>4, <1>5, <1>6, <1>7 DEF Knows

-----------------------------------------------------------------------------
(* Part 4: what a session commits is a use case of the ledger, applied to the
   database as it is at the commit. *)
LEMMA CommitPersists ==
    ASSUME NEW s \in Sessions, Commit(s), Knows(session[s]), session[s].step = "commit"
    PROVE  LET p == session[s]
           IN  /\ Persist(p.id, p.t)
               /\ p.seen = wallets[p.t.cmd.wallet]
               /\ Exists(p.t.cmd.wallet)
<1> DEFINE p == session[s]
           w == p.t.cmd.wallet
<1>1. p.seen = wallets[w] /\ Exists(w) /\ p.t.status # "PENDING"
  BY DEF Knows, WalletKnown, DecisionStands
<1>2. Post(p.id, p.t, MovementOf(p.t))
  BY <1>1 DEF Commit, Post, RecordEntry
<1>3. rows' = [rows EXCEPT ![p.id] = p.t] /\ Emit(p.id, p.t)
  BY DEF Commit
<1>4. QED
  BY <1>1, <1>2, <1>3 DEF Persist

(* Commit writes what the use case would decide from the tables as they are now. *)
LEMMA CommitIsUseCase ==
    ASSUME LInv, NEW s \in Sessions, Shaped(s, session[s]), Knows(session[s]), Commit(s)
    PROVE  Next
<1> DEFINE p == session[s]
           c == p.t.cmd
<1>1. /\ p.step = "commit" /\ CompleteInbox(p.msg, c)
      /\ p.mode \in {"process", "resolve", "record"} /\ p.msg \in Messages \cup {None}
  BY DEF Commit, At, Shaped, Session
<1>2. Persist(p.id, p.t) /\ p.seen = wallets[c.wallet] /\ Exists(c.wallet)
  BY <1>1, CommitPersists
<1>3. PICK ref \in ReferenceViews(c) : p.t = DecisionFrom(p, ref)
  BY <1>1 DEF Knows, DecisionStands
<1>4. CASE p.mode = "process"
  <2>1. /\ c \in Commands /\ p.id = c.ext
        /\ KeyIsFree(c) /\ ExternalIdIsFree(c) /\ ValidCommand(c)
        /\ p.msg # None => inbox[p.msg] = None
    BY <1>1, <1>4 DEF Shaped, Knows, NewKnown, MessageKnown
  <2>2. p.t = DecideNew(NewWagerTransaction(c), wallets[c.wallet].account, ref,
                        SuccessfulReversalExists(c.ref), wallets[c.wallet].balance)
    BY <1>2, <1>3, <1>4 DEF DecisionFrom
  <2>3. Accept(c, p.msg)
    BY <1>1, <1>2, <2>1, <2>2 DEF Accept
  <2>4. QED
    BY <1>1, <2>1, <2>3 DEF Next
<1>5. CASE p.mode # "process"
  <2>1. /\ p.id \in TxIds /\ Pending(p.id) /\ rows[p.id].cmd = c
        /\ p.msg = None
    BY <1>1, <1>5 DEF Shaped, Knows, WaitingKnown
  <2>2. inbox' = inbox
    BY <1>1, <2>1 DEF CompleteInbox
  <2>3. CASE p.mode = "resolve"
    <3>1. p.t = DecidePending(rows[p.id], ref, SuccessfulReversalExists(c.ref),
                              wallets[c.wallet].balance)
      BY <1>2, <1>3, <2>3 DEF DecisionFrom
    <3>2. ResolvePendingReference(p.id)
      BY <1>2, <2>1, <2>2, <3>1 DEF ResolvePendingReference, StillPending
    <3>3. QED
      BY <2>1, <3>2 DEF Next
  <2>4. CASE p.mode = "record"
    <3>1. p.t = DecideFailure(rows[p.id], wallets[c.wallet].balance)
      BY <1>2, <1>3, <2>4 DEF DecisionFrom
    <3>2. RecordPendingReferenceFailure(p.id)
      BY <1>2, <2>1, <2>2, <3>1 DEF RecordPendingReferenceFailure
    <3>3. QED
      BY <2>1, <3>2 DEF Next
  <2>5. QED BY <1>1, <1>5, <2>3, <2>4
<1>6. QED BY <1>4, <1>5

(* A replay is a use case only when a message waits for its inbox row. *)
LEMMA CommitReplayIsUseCase ==
    ASSUME LInv, NEW s \in Sessions, Shaped(s, session[s]), Knows(session[s]), CommitReplay(s)
    PROVE  [Next]_vars
<1> DEFINE p == session[s]
           c == p.t.cmd
<1>1. /\ p.step = "commitReplay" /\ p.mode = "process" /\ p.msg \in Messages \cup {None}
      /\ c \in Commands
      /\ UNCHANGED <<wallets, rows, ledger, walletEvents, wagerEvents>>
      /\ inbox' = IF p.msg = None THEN inbox ELSE [inbox EXCEPT ![p.msg] = c]
  BY DEF CommitReplay, At, Shaped, Session, CompleteInbox
<1>2. p.msg # None => inbox[p.msg] \in {None, c}
  BY <1>1 DEF Knows, MessageKnown
<1>3. p.id \in TxIds /\ SamePayload(p.id, c)
  BY <1>1 DEF Knows, NewKnown, Stored, SamePayload
<1>4. CASE p.msg # None /\ inbox[p.msg] = None
  <2>1. Replay(c, p.msg)
    BY <1>1, <1>3, <1>4 DEF Replay
  <2>2. QED
    BY <1>1, <1>4, <2>1 DEF Next
<1>5. CASE p.msg = None \/ inbox[p.msg] = c
  <2>1. inbox' = inbox
    BY <1>1, <1>5 DEF LInv, IInv, TypeOK
  <2>2. QED
    BY <1>1, <2>1 DEF vars
<1>6. QED BY <1>2, <1>4, <1>5

(* A commit changes only what the locks of its session protect. *)
LEMMA CommitSpares ==
    ASSUME LInv, NEW s \in Sessions, Shaped(s, session[s]), Locked(session[s]),
           Knows(session[s]), Commit(s)
    PROVE  Spares(session[s].locks)
<1> DEFINE p == session[s]
           c == p.t.cmd
           locks == p.locks
<1>1. /\ p.step = "commit" /\ p.msg \in Messages \cup {None}
      /\ p.mode \in {"process", "resolve", "record"}
      /\ inbox' = IF p.msg = None THEN inbox ELSE [inbox EXCEPT ![p.msg] = c]
      /\ rows' = [rows EXCEPT ![p.id] = p.t]
      /\ wallets' = wallets \/ wallets' = [wallets EXCEPT ![c.wallet] = Apply(p.seen, p.t.result)]
  BY DEF Commit, At, Shaped, Session, CompleteInbox
<1>2. /\ p.msg # None => <<"inbox", p.msg>> \in locks
      /\ p.mode = "process" => <<"key", c.key>> \in locks /\ <<"insert", p.id>> \in locks
      /\ p.mode # "process" => <<"row", p.id>> \in locks
      /\ <<"wallet", c.wallet>> \in locks
  BY <1>1, LocksHeld DEF KeyLock, WalletLock, RowLock, InsertLock
<1>3. /\ rows \in [TxIds -> Row] /\ wallets \in [WalletIds -> Wallet]
      /\ inbox \in [Messages -> Commands \cup {None}]
  BY DEF LInv, IInv, TypeOK
<1>4. /\ p.mode = "process" => rows[p.id].status = "NONE"
      /\ p.mode # "process" => Pending(p.id)
  BY <1>1 DEF Shaped, Knows, NewKnown, WaitingKnown, ExternalIdIsFree
<1>5. \A m \in Messages : <<"inbox", m>> \in locks \/ inbox'[m] = inbox[m]
  BY <1>1, <1>2, <1>3
<1>6. ASSUME NEW id \in TxIds PROVE RowSpared(id, locks)
  <2>1. CASE id # p.id
    <3>1. rows'[id] = rows[id]
      BY <1>1, <1>3, <2>1
    <3>2. QED BY <3>1 DEF RowSpared
  <2>2. CASE id = p.id
    <3>1. rows'[id] = p.t
      BY <1>1, <1>3, <2>2
    <3>2. QED BY <1>2, <1>4, <2>2, <3>1 DEF RowSpared
  <2>3. QED BY <2>1, <2>2
<1>7. \A w \in WalletIds : Exists(w) => <<"wallet", w>> \in locks \/ wallets'[w] = wallets[w]
  BY <1>1, <1>2, <1>3
<1>8. QED
  BY <1>5, <1>6, <1>7 DEF Spares

(* A replay that commits changes its inbox row only. *)
LEMMA CommitReplaySpares ==
    ASSUME LInv, NEW s \in Sessions, Shaped(s, session[s]), Locked(session[s]), CommitReplay(s)
    PROVE  Spares(session[s].locks)
<1> DEFINE p == session[s]
<1>1. /\ p.step = "commitReplay" /\ p.msg \in Messages \cup {None}
      /\ UNCHANGED <<wallets, rows>>
      /\ inbox' = IF p.msg = None THEN inbox ELSE [inbox EXCEPT ![p.msg] = p.t.cmd]
  BY DEF CommitReplay, At, Shaped, Session, CompleteInbox
<1>2. p.msg # None => <<"inbox", p.msg>> \in p.locks
  BY <1>1, LocksHeld
<1>3. inbox \in [Messages -> Commands \cup {None}]
  BY DEF LInv, IInv, TypeOK
<1>4. QED
  BY <1>1, <1>2, <1>3 DEF Spares, RowSpared

(* The clock and a new wallet need no lock. *)
LEMMA ClockSpares ==
    ASSUME NEW id \in TxIds, LInv, BackoffElapses(id), NEW locks
    PROVE  Spares(locks)
<1>1. /\ rows \in [TxIds -> Row] /\ rows' = [rows EXCEPT ![id] = [rows[id] EXCEPT !.due = TRUE]]
      /\ Pending(id) /\ UNCHANGED <<wallets, inbox>>
  BY DEF BackoffElapses, LInv, IInv, TypeOK
<1>2. QED
  BY <1>1 DEF Spares, RowSpared

(* CreateWallet inserts a wallet nobody has locked or read. *)
LEMMA CreateSpares ==
    ASSUME NEW o \in Openings, LInv, CreateWallet(o.wallet, o.account, o.money), NEW locks
    PROVE  Spares(locks)
<1> DEFINE w == o.wallet
           d == MarkProcessed(FreshRow(OpeningCommand(w, o.account, o.money), "PENDING"), o.money)
<1>1. /\ rows \in [TxIds -> Row] /\ wallets \in [WalletIds -> Wallet] /\ w \in WalletIds
      /\ ~ Exists(w) /\ inbox' = inbox
      /\ wallets' = [wallets EXCEPT ![w] = NewWallet(o.account, o.money)]
      /\ rows' = rows \/ rows' = [rows EXCEPT ![w] = d]
  BY LedgerAssumption DEF CreateWallet, LInv, IInv, TypeOK
<1>2. d.cmd.wallet = w /\ d.cmd.key = None
  BY DEF MarkProcessed, FreshRow, OpeningCommand
<1>3. rows[w].status = "NONE"
  BY <1>1 DEF LInv, IInv, RowShape, Exists, TxIds
<1> HIDE DEF d
<1>4. ASSUME NEW id \in TxIds PROVE RowSpared(id, locks)
  <2>1. rows'[id] = rows[id] \/ (id = w /\ rows'[id] = d)
    BY <1>1
  <2>2. QED BY <1>1, <1>2, <1>3, <2>1 DEF RowSpared
<1>5. \A v \in WalletIds : Exists(v) => wallets'[v] = wallets[v]
  BY <1>1
<1>6. QED
  BY <1>1, <1>4, <1>5 DEF Spares

-----------------------------------------------------------------------------
(* Part 5: the steps of a session.  The invariant across a step that leaves session s
   with the private state `new`, and the database changed at most where s holds the
   locks. *)
LEMMA SessionSteps ==
    ASSUME CInv, [Next]_vars, NEW s \in Sessions, NEW new,
           session' = [session EXCEPT ![s] = new], Spares(session[s].locks),
           Shaped(s, new), Locked(new), Knows(new)',
           \A lock \in new.locks : lock \in session[s].locks \/ Free(s, lock)
    PROVE  CInv'
<1>1. LInv'
  BY LedgerKept DEF CInv
<1>2. /\ session \in [Sessions -> Session] /\ Exclusive
      /\ \A o \in Sessions : Shaped(o, session[o]) /\ Locked(session[o]) /\ Knows(session[o])
  BY DEF CInv, SInv
<1>3. /\ session' \in [Sessions -> Session] /\ session'[s] = new
      /\ \A o \in Sessions : o # s => session'[o] = session[o]
  BY <1>2 DEF Shaped
<1>4. ASSUME NEW o \in Sessions, NEW p, p = session'[o]
      PROVE  Shaped(o, p) /\ Locked(p) /\ Knows(p)'
  <2>1. CASE o = s
    BY <1>3, <1>4, <2>1
  <2>2. CASE o # s
    <3>1. p = session[o] /\ Shaped(o, p) /\ Locked(p) /\ Knows(p)
      BY <1>2, <1>3, <1>4, <2>2
    <3>2. p.locks \cap session[s].locks = {}
      BY <1>2, <2>2, <3>1 DEF Exclusive
    <3>3. QED
      BY <3>1, <3>2, KnowledgeKept DEF CInv
  <2>3. QED BY <2>1, <2>2
<1>5. Exclusive'
  <2>1. ASSUME NEW o \in Sessions, o # s PROVE session'[o].locks \cap new.locks = {}
    BY <1>2, <1>3, <2>1 DEF Exclusive, Free
  <2>2. QED
    BY <1>2, <1>3, <2>1 DEF Exclusive
<1>6. QED
  BY <1>1, <1>3, <1>4, <1>5 DEF CInv, SInv

(* The invariant across a step that changes no session and is covered by no lock. *)
LEMMA OtherSteps ==
    ASSUME CInv, [Next]_vars, Spares({}), session' = session
    PROVE  CInv'
<1>1. LInv'
  BY LedgerKept DEF CInv
<1>2. ASSUME NEW o \in Sessions, NEW p, p = session'[o]
      PROVE  Shaped(o, p) /\ Locked(p) /\ Knows(p)'
  <2>1. Shaped(o, p) /\ Locked(p) /\ Knows(p) /\ p.locks \cap {} = {}
    BY <1>2 DEF CInv, SInv
  <2>2. QED
    BY <2>1, KnowledgeKept DEF CInv
<1>3. QED
  BY <1>1, <1>2 DEF CInv, SInv, Exclusive

(* A step that reads, or takes a lock: the database does not change. *)
LEMMA Moves ==
    ASSUME CInv, NEW s \in Sessions, NEW new, Move(s, new),
           Shaped(s, new), Locked(new), Knows(new),
           \A lock \in new.locks : lock \in session[s].locks \/ Free(s, lock)
    PROVE  CInv'
<1>1. UNCHANGED vars /\ session' = [session EXCEPT ![s] = new]
  BY DEF Move, database
<1>2. Spares({}) /\ Spares(session[s].locks)
  BY <1>1 DEF vars, Spares, RowSpared
<1>3. new.locks \cap {} = {}
  OBVIOUS
<1>4. Knows(new)'
  BY <1>1, <1>2, <1>3, KnowledgeKept DEF CInv
<1>5. QED
  BY <1>1, <1>2, <1>4, SessionSteps

(* What the invariant says of one session. *)
LEMMA SessionOf ==
    ASSUME CInv, NEW s \in Sessions
    PROVE  /\ LInv
           /\ Shaped(s, session[s]) /\ Locked(session[s]) /\ Knows(session[s])
           /\ session[s] \in Session
BY DEF CInv, SInv, Shaped

(* A rollback gives the locks back and answers with an error. *)
LEMMA Refusals ==
    ASSUME CInv, NEW s \in Sessions, session[s].step # "idle", NEW e \in Errors,
           Move(s, Refused(session[s], e))
    PROVE  CInv'
<1> PICK p : p = session[s]
  OBVIOUS
<1> DEFINE new == Refused(p, e)
<1>1. /\ p \in Session /\ Shaped(s, p) /\ Knows(p) /\ p.step # "idle"
  BY SessionOf
<1>2. /\ new \in Session /\ new.step = "answer" /\ new.error = e /\ new.locks = {}
      /\ new.mode = p.mode /\ new.id = p.id /\ new.t = p.t /\ new.msg = p.msg
  BY <1>1, ZenonT(30) DEF Refused, Session, Steps
<1>3. e # None
  BY SessionsAssumption
<1> HIDE DEF new
<1>4. Shaped(s, new)
  BY <1>1, <1>2 DEF Shaped
<1>5. Locked(new)
  BY <1>2 DEF Locked
<1>6. Knows(new)
  BY <1>1, <1>2, <1>3
  DEF Knows, MessageKnown, WalletKnown, NewKnown, WaitingKnown, DecisionStands
<1>7. QED
  BY <1>2, <1>4, <1>5, <1>6, Moves DEF new

(* The state between two requests is a state of a session. *)
LEMMA IdleTyped ==
    /\ Idle \in Session /\ Idle.step = "idle" /\ Idle.mode = "process" /\ Idle.locks = {}
    /\ Idle.msg = None /\ Idle.t = NoRow
<1>1. NoWallet \in Wallet
  BY DomainAssumption DEF NoWallet, Wallet, Minor
<1>2. QED
  BY <1>1, NoRowShape DEF Idle, Session, Steps

(* A session without a request knows nothing and holds nothing. *)
LEMMA WithoutRequest ==
    ASSUME NEW s \in Sessions, NEW new \in Session, new.step = "idle", new.mode = "process",
           new.locks = {}, new.msg = None, new.t = NoRow
    PROVE  Shaped(s, new) /\ Locked(new) /\ Knows(new)
<1>1. Shaped(s, new) /\ Locked(new)
  BY DEF Shaped, Locked
<1>2. NoRow.refTx = None
  BY NoRowShape
<1>3. Knows(new)
  BY <1>2
  DEF Knows, MessageKnown, WalletKnown, NewKnown, WaitingKnown, DecisionStands, Linked
<1>4. QED
  BY <1>1, <1>3

(* So does one that answered its request, or forgot it in a crash. *)
LEMMA IdleIsSound ==
    ASSUME NEW s \in Sessions, NEW todo \in SUBSET TxIds
    PROVE  LET new == [Idle EXCEPT !.locks = {}, !.todo = todo]
           IN  /\ Shaped(s, new) /\ Locked(new) /\ Knows(new)
               /\ new.locks = {} /\ new.msg = None /\ new.t = NoRow
<1> DEFINE new == [Idle EXCEPT !.locks = {}, !.todo = todo]
<1>1. /\ new \in Session /\ new.step = "idle" /\ new.mode = "process" /\ new.locks = {}
      /\ new.msg = None /\ new.t = NoRow
  BY IdleTyped DEF Session
<1> HIDE DEF new
<1>2. QED
  BY <1>1, WithoutRequest DEF new

(* Process begins with a new transaction and no lock. *)
LEMMA BeginKeeps ==
    ASSUME CInv, NEW s \in Clients, NEW c \in Commands, NEW m \in Messages \cup {None},
           Begin(s, c, m)
    PROVE  CInv'
<1> DEFINE new == [Idle EXCEPT !.step = IF m = None THEN "advisory" ELSE "claim",
                               !.id = c.ext, !.t = NewWagerTransaction(c), !.msg = m,
                               !.locks = {}]
<1>1. s \in Sessions /\ s \notin Workers
  BY SessionsAssumption DEF Sessions
<1>2. /\ session[s].step = "idle" /\ session[s].locks = {}
      /\ Move(s, new)
  <2>1. session[s].step = "idle"
    BY DEF Begin, At
  <2>2. session[s].locks = {}
    BY <1>1, <2>1, SessionOf DEF Locked
  <2>3. QED
    BY <2>1, <2>2 DEF Begin
<1>3. /\ c \in Command /\ c \in RowCommand /\ c.ext \in TxIds
  BY LedgerAssumption DEF Command, RowCommand, TxIds
<1>4. /\ NewWagerTransaction(c) \in Row /\ NewWagerTransaction(c).cmd = c
      /\ NewWagerTransaction(c).refTx = None
  BY <1>3 DEF NewWagerTransaction, FreshRow, Row, Statuses
<1>5. Idle \in Session /\ Idle.mode = "process"
  BY IdleTyped
<1>6. /\ new \in Session /\ new.locks = {} /\ new.mode = "process" /\ new.msg = m
      /\ new.t = NewWagerTransaction(c) /\ new.id = c.ext
      /\ new.step = IF m = None THEN "advisory" ELSE "claim"
  <2> DEFINE step == IF m = None THEN "advisory" ELSE "claim"
             t == NewWagerTransaction(c)
             began == [Idle EXCEPT !.step = step, !.id = c.ext, !.t = t, !.msg = m, !.locks = {}]
  <2>1. step \in Steps
    BY DEF Steps
  <2>2. new = began
    OBVIOUS
  <2> HIDE DEF step, t
  <2>3. t \in Row
    BY <1>4 DEF t
  <2>4. /\ began \in Session /\ began.locks = {} /\ began.mode = "process" /\ began.msg = m
        /\ began.t = t /\ began.id = c.ext /\ began.step = step
    BY <1>3, <1>5, <2>1, <2>3 DEF Session
  <2>5. QED
    BY <2>2, <2>4 DEF step, t
<1> HIDE DEF new
<1>7. Shaped(s, new)
  BY <1>1, <1>4, <1>6 DEF Shaped
<1>8. Locked(new)
  BY <1>6 DEF Locked, MessageLocks
<1>9. Knows(new)
  BY <1>4, <1>6
  DEF Knows, MessageKnown, WalletKnown, NewKnown, WaitingKnown, DecisionStands, Linked
<1>10. QED
  BY <1>1, <1>2, <1>6, <1>7, <1>8, <1>9, Moves

(* Every lock is one of its row, message, key or wallet. *)
LEMMA LockTypes ==
    /\ \A m \in Messages : <<"inbox", m>> \in Locks
    /\ \A k \in Keys \cup {None} : <<"key", k>> \in Locks
    /\ \A w \in WalletIds \cup {None} : <<"wallet", w>> \in Locks
    /\ \A id \in TxIds : <<"row", id>> \in Locks /\ <<"insert", id>> \in Locks
BY DEF Locks

(* A lock is taken on the way to a step. *)
LEMMA HoldTyped ==
    ASSUME NEW p \in Session, NEW lock \in Locks, NEW step \in Steps
    PROVE  LET held == Hold(p, lock, step)
           IN  /\ held \in Session /\ held.step = step /\ held.locks = p.locks \cup {lock}
               /\ held.mode = p.mode /\ held.t = p.t /\ held.id = p.id /\ held.msg = p.msg
               /\ held.seen = p.seen
<1>1. p.locks \cup {lock} \in SUBSET Locks
  BY DEF Session
<1> HIDE DEF Steps, Locks
<1>2. QED BY <1>1 DEF Hold, Session

(* What a client session works on. *)
LEMMA ClientCommand ==
    ASSUME NEW s, NEW p, Shaped(s, p), p.mode = "process", p.step # "idle"
    PROVE  /\ p.t.cmd \in Commands /\ p.t.cmd \in Command /\ p.id = p.t.cmd.ext
           /\ p.t.cmd.key \in Keys /\ p.t.cmd.wallet \in WalletIds
           /\ p.t.cmd.ext \in ExternalIds /\ p.t.cmd.ext \in TxIds /\ p.id \in TxIds
BY LedgerAssumption DEF Shaped, Command, TxIds

(* ClaimInbox: the message is new, completed by this command, or by another one. *)
LEMMA ClaimInboxKeeps ==
    ASSUME CInv, NEW s \in Sessions, ClaimInbox(s)
    PROVE  CInv'
<1> PICK p : p = session[s]
  OBVIOUS
<1> DEFINE lock == <<"inbox", p.msg>>
<1>1. /\ p \in Session /\ Shaped(s, p) /\ Locked(p) /\ Knows(p) /\ p.step = "claim"
      /\ Free(s, lock)
  BY SessionOf DEF ClaimInbox, At
<1>2. p.mode = "process" /\ p.msg # None /\ p.msg \in Messages /\ p.locks = {}
  BY <1>1 DEF Shaped, Session, Locked
<1>3. ASSUME NEW step \in {"advisory", "completed"}, Move(s, Hold(p, lock, step)),
             inbox[p.msg] = IF step = "completed" THEN p.t.cmd ELSE None
      PROVE  CInv'
  <2> DEFINE new == Hold(p, lock, step)
  <2>1. /\ new \in Session /\ new.step = step /\ new.locks = {lock} /\ new.mode = "process"
        /\ new.t = p.t /\ new.id = p.id /\ new.msg = p.msg
    <3>1. lock \in Locks /\ step \in Steps
      BY <1>2, LockTypes DEF Steps
    <3> HIDE DEF lock
    <3>2. QED
      BY <1>1, <1>2, <3>1, HoldTyped
  <2> HIDE DEF new
  <2>2. Shaped(s, new)
    BY <1>1, <1>2, <2>1 DEF Shaped
  <2>3. Locked(new)
    BY <1>2, <2>1 DEF Locked, MessageLocks
  <2>4. Knows(new)
    BY <1>1, <1>2, <1>3, <2>1
    DEF Knows, MessageKnown, WalletKnown, NewKnown, WaitingKnown, DecisionStands
  <2>5. QED
    BY <1>1, <1>3, <2>1, <2>2, <2>3, <2>4, Moves DEF new
<1>4. CASE inbox[p.msg] = None
  BY <1>3, <1>4 DEF ClaimInbox
<1>5. CASE inbox[p.msg] # None /\ inbox[p.msg] = p.t.cmd
  BY <1>3, <1>5 DEF ClaimInbox
<1>6. CASE inbox[p.msg] # None /\ inbox[p.msg] # p.t.cmd
  <2>1. Move(s, Refused(p, "INBOX_PAYLOAD_CONFLICT"))
    BY <1>6 DEF ClaimInbox
  <2>2. QED
    BY <1>1, <2>1, Refusals DEF Errors
<1>7. QED BY <1>4, <1>5, <1>6

(* The advisory lock of the idempotency key. *)
LEMMA AcquireKeeps ==
    ASSUME CInv, NEW s \in Sessions, AcquireIdempotencyLock(s)
    PROVE  CInv'
<1> PICK p : p = session[s]
  OBVIOUS
<1> DEFINE lock == <<"key", p.t.cmd.key>>
           new == Hold(p, lock, "lookup")
<1>1. /\ p \in Session /\ Shaped(s, p) /\ Locked(p) /\ Knows(p) /\ p.step = "advisory"
      /\ Free(s, lock) /\ Move(s, new)
  BY SessionOf DEF AcquireIdempotencyLock, At
<1>2. p.mode = "process" /\ p.locks = MessageLocks(p)
  BY <1>1 DEF Shaped, Session, Locked
<1>3. p.t.cmd.key \in Keys
  BY <1>1, <1>2, ClientCommand
<1>4. /\ new \in Session /\ new.step = "lookup" /\ new.locks = p.locks \cup {lock}
      /\ new.mode = "process" /\ new.t = p.t /\ new.id = p.id /\ new.msg = p.msg
  <2>1. lock \in Locks /\ "lookup" \in Steps
    BY <1>3, LockTypes DEF Steps
  <2> HIDE DEF lock
  <2>2. QED
    BY <1>1, <1>2, <2>1, HoldTyped
<1> HIDE DEF new
<1>5. Shaped(s, new)
  BY <1>1, <1>2, <1>4 DEF Shaped
<1>6. Locked(new)
  BY <1>2, <1>4 DEF Locked, MessageLocks, KeyLock
<1>7. Knows(new)
  BY <1>1, <1>2, <1>4
  DEF Knows, MessageKnown, WalletKnown, NewKnown, WaitingKnown, DecisionStands
<1>8. QED
  BY <1>1, <1>4, <1>5, <1>6, <1>7, Moves

(* FindByIdempotency: the row of the key is the row of the command, or there is none. *)
LEMMA FindByIdempotencyKeeps ==
    ASSUME CInv, NEW s \in Sessions, FindByIdempotency(s)
    PROVE  CInv'
<1> PICK p : p = session[s]
  OBVIOUS
<1> DEFINE c == p.t.cmd
           found == {id \in TxIds : rows[id].cmd.key = c.key}
           conflict == IF p.step = "completed" THEN "INBOX_PAYLOAD_CONFLICT"
                                               ELSE "IDEMPOTENCY_PAYLOAD_CONFLICT"
<1>1. /\ p \in Session /\ Shaped(s, p) /\ Locked(p) /\ Knows(p) /\ LInv
      /\ p.step \in {"lookup", "completed"}
  BY SessionOf DEF FindByIdempotency, At
<1>2. p.mode = "process" /\ p.step # "idle" /\ p.msg \in Messages \cup {None}
  BY <1>1 DEF Shaped, Session
<1>3. conflict \in Errors
  BY DEF Errors
<1>4. ASSUME Move(s, Refused(p, conflict)) PROVE CInv'
  BY <1>2, <1>3, <1>4, Refusals
<1>5. ASSUME found = {}, p.step = "lookup", Move(s, [p EXCEPT !.step = "external"])
      PROVE  CInv'
  <2> DEFINE new == [p EXCEPT !.step = "external"]
  <2>1. /\ new \in Session /\ new.step = "external" /\ new.locks = p.locks
        /\ new.mode = "process" /\ new.t = p.t /\ new.id = p.id /\ new.msg = p.msg
    BY <1>1, <1>2 DEF Session, Steps
  <2> HIDE DEF new
  <2>2. KeyIsFree(c)
    BY <1>5 DEF KeyIsFree
  <2>3. Shaped(s, new)
    BY <1>1, <1>2, <2>1 DEF Shaped
  <2>4. Locked(new)
    BY <1>1, <1>2, <1>5, <2>1 DEF Locked, MessageLocks, KeyLock
  <2>5. Knows(new)
    BY <1>1, <1>2, <1>5, <2>1, <2>2
    DEF Knows, MessageKnown, WalletKnown, NewKnown, WaitingKnown, DecisionStands
  <2>6. QED
    BY <1>5, <2>1, <2>3, <2>4, <2>5, Moves DEF new
<1>6. ASSUME NEW id \in found, rows[id].cmd = c, NEW step \in {"replay", "commitReplay"},
             Move(s, [p EXCEPT !.t = rows[id], !.step = step])
      PROVE  CInv'
  <2> DEFINE new == [p EXCEPT !.t = rows[id], !.step = step]
  <2>1. rows[id] \in Row /\ Linked(rows[id]) /\ c \in Commands /\ c.key \in Keys /\ c.ext = p.id
    BY <1>1, <1>2, <1>6, ClientCommand DEF LInv, IInv, TypeOK, RowsLinked
  <2>2. id = p.id /\ p.id \in TxIds
    <3>1. c.ext \in {None, id} /\ c.ext # None
      BY <1>1, <1>2, <1>6, ClientCommand, DomainAssumption DEF LInv, RowsNamed
    <3>2. QED
      BY <1>6, <2>1, <3>1
  <2>3. rows[id].status # "NONE"
    BY <1>1, <1>6, <2>1, NoRowShape, DomainAssumption DEF LInv, IInv, RowShape
  <2>4. /\ new \in Session /\ new.step = step /\ new.locks = p.locks
        /\ new.mode = "process" /\ new.t = rows[id] /\ new.id = p.id /\ new.msg = p.msg
    BY <1>1, <1>2, <1>6, <2>1 DEF Session, Steps
  <2> HIDE DEF new
  <2>5. new.t.cmd = c /\ Stored(new)
    BY <1>6, <2>2, <2>3, <2>4 DEF Stored
  <2>6. Shaped(s, new)
    BY <1>1, <1>2, <1>6, <2>1, <2>4, <2>5 DEF Shaped
  <2>7. Locked(new)
    <3>1. MessageLocks(p) \subseteq p.locks /\ p.locks \subseteq MessageLocks(p) \cup {KeyLock(p)}
      BY <1>1, <1>2 DEF Locked
    <3>2. MessageLocks(new) = MessageLocks(p) /\ KeyLock(new) = KeyLock(p)
      BY <1>2, <2>4, <2>5 DEF MessageLocks, KeyLock
    <3>3. /\ MessageLocks(new) \subseteq new.locks
          /\ new.locks \subseteq MessageLocks(new) \cup {KeyLock(new)}
      BY <2>4, <3>1, <3>2
    <3>4. QED
      BY <1>6, <2>4, <3>3 DEF Locked
  <2>8. MessageKnown(new)
    BY <1>1, <1>6, <2>4, <2>5 DEF Knows, MessageKnown
  <2>9. Knows(new)
    BY <1>6, <2>1, <2>4, <2>5, <2>8
    DEF Knows, WalletKnown, NewKnown, WaitingKnown, DecisionStands
  <2>10. QED
    BY <1>6, <2>4, <2>6, <2>7, <2>9, Moves DEF new
<1>7. CASE found = {}
  BY <1>1, <1>4, <1>5, <1>7 DEF FindByIdempotency, At
<1>8. CASE found # {}
  <2>1. PICK id \in found :
          Move(s, IF rows[id].cmd # c THEN Refused(p, conflict)
                  ELSE [p EXCEPT !.t = rows[id],
                                 !.step = IF rows[id].result = NoResult
                                          THEN "replay" ELSE "commitReplay"])
    BY <1>8 DEF FindByIdempotency, At
  <2>2. CASE rows[id].cmd # c
    BY <1>4, <2>1, <2>2
  <2>3. CASE rows[id].cmd = c
    BY <1>6, <2>1, <2>3
  <2>4. QED BY <2>2, <2>3
<1>9. QED BY <1>7, <1>8

(* A replay locks the wallet only to report its balance. *)
LEMMA LockReplayedWalletKeeps ==
    ASSUME CInv, NEW s \in Sessions, LockReplayedWallet(s)
    PROVE  CInv'
<1> PICK p : p = session[s]
  OBVIOUS
<1> DEFINE lock == <<"wallet", p.t.cmd.wallet>>
           held == Hold(p, lock, "commitReplay")
           new == [held EXCEPT !.seen = wallets[p.t.cmd.wallet]]
<1>1. /\ p \in Session /\ Shaped(s, p) /\ Locked(p) /\ Knows(p) /\ LInv /\ p.step = "replay"
      /\ Free(s, lock) /\ Move(s, new)
  BY SessionOf DEF LockReplayedWallet, At
<1>2. p.mode = "process"
  BY <1>1 DEF Shaped, Session
<1>3. p.t.cmd.wallet \in WalletIds
  BY <1>1, <1>2, ClientCommand
<1>4. wallets[p.t.cmd.wallet] \in Wallet
  BY <1>1, <1>3 DEF LInv, IInv, TypeOK
<1>5. /\ held \in Session /\ held.step = "commitReplay" /\ held.locks = p.locks \cup {lock}
      /\ held.mode = "process" /\ held.t = p.t /\ held.id = p.id /\ held.msg = p.msg
  <2>1. lock \in Locks /\ "commitReplay" \in Steps
    BY <1>3, LockTypes DEF Steps
  <2> HIDE DEF lock
  <2>2. QED
    BY <1>1, <1>2, <2>1, HoldTyped
<1> HIDE DEF held
<1>6. /\ new \in Session /\ new.step = "commitReplay" /\ new.locks = p.locks \cup {lock}
      /\ new.mode = "process" /\ new.t = p.t /\ new.id = p.id /\ new.msg = p.msg
  BY <1>4, <1>5 DEF Session
<1> HIDE DEF new
<1>7. Shaped(s, new)
  BY <1>1, <1>2, <1>6 DEF Shaped
<1>8. Locked(new)
  BY <1>1, <1>6 DEF Locked, MessageLocks, KeyLock, WalletLock
<1>9. Stored(new)
  BY <1>1, <1>2, <1>6 DEF Knows, NewKnown, Stored
<1>10. Knows(new)
  BY <1>1, <1>6, <1>9
  DEF Knows, MessageKnown, WalletKnown, NewKnown, WaitingKnown, DecisionStands
<1>11. QED
  BY <1>1, <1>6, <1>7, <1>8, <1>10, Moves

(* FindByExternalID: an external id that is taken refuses the command. *)
LEMMA FindByExternalIDKeeps ==
    ASSUME CInv, NEW s \in Sessions, FindByExternalID(s)
    PROVE  CInv'
<1> PICK p : p = session[s]
  OBVIOUS
<1> DEFINE new == [p EXCEPT !.step = "wallet"]
<1>1. /\ p \in Session /\ Shaped(s, p) /\ Locked(p) /\ Knows(p) /\ p.step = "external"
      /\ Move(s, new) \/ Move(s, Refused(p, "EXTERNAL_TRANSACTION_CONFLICT"))
  BY SessionOf DEF FindByExternalID, At
<1>2. p.mode = "process"
  BY <1>1 DEF Shaped, Session
<1>3. CASE Move(s, new)
  <2>1. /\ new \in Session /\ new.step = "wallet" /\ new.locks = p.locks
        /\ new.mode = "process" /\ new.t = p.t /\ new.id = p.id /\ new.msg = p.msg
    BY <1>1, <1>2 DEF Session, Steps
  <2> HIDE DEF new
  <2>2. Shaped(s, new)
    BY <1>1, <1>2, <2>1 DEF Shaped
  <2>3. Locked(new)
    BY <1>1, <2>1 DEF Locked, MessageLocks, KeyLock
  <2>4. Knows(new)
    BY <1>1, <1>2, <2>1
    DEF Knows, MessageKnown, WalletKnown, NewKnown, WaitingKnown, DecisionStands
  <2>5. QED
    BY <1>3, <2>1, <2>2, <2>3, <2>4, Moves
<1>4. CASE Move(s, Refused(p, "EXTERNAL_TRANSACTION_CONFLICT"))
  BY <1>1, <1>4, Refusals DEF Errors
<1>5. QED BY <1>1, <1>3, <1>4

(* The wallet a session locks, and what else it knows then. *)
LEMMA LockWalletKeeps ==
    ASSUME CInv, NEW s \in Sessions, LockWallet(s)
    PROVE  CInv'
<1> PICK p : p = session[s]
  OBVIOUS
<1> DEFINE w == p.t.cmd.wallet
           lock == <<"wallet", w>>
           held == Hold(p, lock, "decide")
           new == [held EXCEPT !.seen = wallets[w]]
<1>1. /\ p \in Session /\ Shaped(s, p) /\ Locked(p) /\ Knows(p) /\ LInv /\ p.step = "wallet"
      /\ p.mode \in {"process", "resolve", "record"}
  BY SessionOf DEF LockWallet, At, Session
<1>2. w \in WalletIds /\ WalletOf(p) = w
  <2>1. CASE p.mode = "process"
    BY <1>1, <2>1, ClientCommand DEF WalletOf
  <2>2. CASE p.mode # "process"
    <3>1. p.id \in TxIds /\ Pending(p.id) /\ rows[p.id].cmd = p.t.cmd
      BY <1>1, <2>2 DEF Shaped, Knows, WaitingKnown
    <3>2. QED
      BY <1>1, <2>2, <3>1 DEF WalletOf, LInv, IInv, RowShape, Pending
  <2>3. QED BY <2>1, <2>2
<1>3. /\ Free(s, lock)
      /\ \/ Move(s, Refused(p, "NOT_FOUND"))
         \/ Move(s, Refused(p, "INVALID_REQUEST"))
         \/ Move(s, new) /\ Exists(w) /\ (p.mode = "process" => ValidCommand(p.t.cmd))
  BY <1>2 DEF LockWallet, WalletAvailable, After
<1>4. ASSUME Move(s, new), Exists(w), p.mode = "process" => ValidCommand(p.t.cmd)
      PROVE  CInv'
  <2>1. wallets[w] \in Wallet
    BY <1>1, <1>2 DEF LInv, IInv, TypeOK
  <2>2. /\ held \in Session /\ held.step = "decide" /\ held.locks = p.locks \cup {lock}
        /\ held.mode = p.mode /\ held.t = p.t /\ held.id = p.id /\ held.msg = p.msg
    <3>1. lock \in Locks /\ "decide" \in Steps
      BY <1>2, LockTypes DEF Steps
    <3> HIDE DEF lock
    <3>2. QED
      BY <1>1, <3>1, HoldTyped
  <2> HIDE DEF held
  <2>3. /\ new \in Session /\ new.step = "decide" /\ new.locks = p.locks \cup {lock}
        /\ new.mode = p.mode /\ new.t = p.t /\ new.id = p.id /\ new.msg = p.msg
        /\ new.seen = wallets[w]
    BY <2>1, <2>2 DEF Session
  <2> HIDE DEF new
  <2>4. Shaped(s, new)
    BY <1>1, <2>3 DEF Shaped
  <2>5. Locked(new)
    BY <1>1, <2>3 DEF Locked, MessageLocks, KeyLock, WalletLock, RowLock
  <2>6. MessageKnown(new) /\ WalletKnown(new) /\ DecisionStands(new) /\ Linked(new.t)
    BY <1>1, <1>2, <1>4, <2>3 DEF Knows, MessageKnown, WalletKnown, DecisionStands
  <2>7. NewKnown(new)
    BY <1>1, <1>4, <2>3 DEF Knows, NewKnown
  <2>8. WaitingKnown(new)
    BY <1>1, <2>3 DEF Knows, WaitingKnown
  <2>9. QED
    BY <1>3, <1>4, <2>3, <2>4, <2>5, <2>6, <2>7, <2>8, Moves DEF Knows
<1>5. ASSUME NEW e \in Errors, Move(s, Refused(p, e)) PROVE CInv'
  BY <1>1, <1>5, Refusals
<1>6. QED
  BY <1>3, <1>4, <1>5 DEF Errors

(* What a session decides is typed, keeps the command and is a decision of the ledger. *)
LEMMA DecisionSound ==
    ASSUME LInv, NEW s \in Sessions, NEW p, Shaped(s, p), Knows(p), p.step = "decide"
    PROVE  LET d == Decision(p)
           IN  /\ d \in Row /\ d.cmd = p.t.cmd /\ Linked(d)
               /\ \A new : /\ new.mode = p.mode /\ new.t = d /\ new.id = p.id
                           /\ new.seen = p.seen
                           => \E ref \in ReferenceViews(p.t.cmd) : d = DecisionFrom(new, ref)
<1> DEFINE c == p.t.cmd
           ref == RowOf(c.ref)
           reversed == SuccessfulReversalExists(c.ref)
           d == Decision(p)
<1>1. /\ p.mode \in {"process", "resolve", "record"} /\ p.t \in Row /\ c \in RowCommand
      /\ rows \in [TxIds -> Row] /\ Linked(p.t) /\ IInv
      /\ c.wallet \in WalletIds /\ p.seen = wallets[c.wallet]
  BY DEF Shaped, Session, Row, Knows, WalletKnown, LInv, IInv, TypeOK
<1>2. p.seen.balance \in Minor
  BY <1>1 DEF IInv, TypeOK, Wallet
<1>3. ref \in ReferenceViews(c)
  BY DEF ReferenceViews
<1>4. CASE p.mode = "process"
  <2>1. c \in Command /\ ValidCommand(c) /\ p.t = NewWagerTransaction(c)
    BY <1>4, ClientCommand DEF Knows, NewKnown
  <2>2. d = DecideNew(p.t, p.seen.account, ref, reversed, p.seen.balance)
    BY <1>4 DEF Decision
  <2>3. d \in Row /\ d.cmd = c
    <3> DEFINE t == NewWagerTransaction(c)
               n == DecideNew(t, p.seen.account, ref, reversed, p.seen.balance)
    <3>1. t \in Row /\ Decided(t, n, p.seen.balance)
      BY <1>1, <1>2, <1>3, <2>1, NewDecided
    <3>2. t.cmd = c
      BY <2>1
    <3>3. n = d
      BY <2>1, <2>2
    <3> HIDE DEF n, t, d
    <3>4. n \in Row /\ n.cmd = t.cmd
      BY <3>1 DEF Decided, Outcome
    <3>5. QED BY <3>2, <3>3, <3>4
  <2>4. Linked(d)
    BY <1>1, <1>3, <2>2, DecisionLinked DEF RowCommand
  <2>5. ASSUME NEW new, new.mode = p.mode, new.t = d, new.seen = p.seen
        PROVE  d = DecisionFrom(new, ref)
    BY <1>4, <2>1, <2>2, <2>3, <2>5 DEF DecisionFrom
  <2>6. QED BY <1>3, <2>3, <2>4, <2>5
<1>5. CASE p.mode # "process"
  <2> PICK r : r = rows[p.id]
    OBVIOUS
  <2>1. /\ p.id \in TxIds /\ Pending(p.id) /\ p.t = [r EXCEPT !.due = p.t.due] /\ r.cmd = c
        /\ p.t.due \in BOOLEAN
    BY <1>1, <1>5 DEF Shaped, Knows, WaitingKnown, Row
  <2>2. r \in Row /\ c.ref \in ExternalIds /\ Linked(r)
    BY <1>1, <2>1, WaitingSubject DEF LInv, RowsLinked
  <2>3. CASE p.mode = "resolve"
    <3>1. d = DecidePending(r, ref, reversed, p.seen.balance)
      BY <2>1, <2>2, <2>3, DueIsIrrelevant DEF Decision
    <3>2. d \in Row /\ d.cmd = c
      <4>1. /\ rows \in [TxIds -> Row] /\ ref \in ReferenceViews(r.cmd) /\ r.cmd.ref \in ExternalIds
            /\ reversed = SuccessfulReversalExists(r.cmd.ref)
        BY <1>1, <1>3, <2>1, <2>2
      <4> HIDE DEF ref, reversed
      <4>2. Decided(r, DecidePending(r, ref, SuccessfulReversalExists(r.cmd.ref), p.seen.balance),
                    p.seen.balance)
        BY <1>2, <2>2, <4>1, PendingDecided
      <4>3. Decided(r, d, p.seen.balance)
        BY <3>1, <4>1, <4>2
      <4> HIDE DEF d
      <4>4. QED BY <2>1, <4>3 DEF Decided, Outcome
    <3>3. Linked(d)
      BY <1>1, <1>3, <2>1, <2>2, <3>1, DecisionLinked
    <3>4. ASSUME NEW new, new.mode = p.mode, new.t = d, new.id = p.id, new.seen = p.seen
          PROVE  d = DecisionFrom(new, ref)
      BY <2>3, <3>1, <3>2, <3>4 DEF DecisionFrom
    <3>5. QED BY <1>3, <3>2, <3>3, <3>4
  <2>4. CASE p.mode = "record"
    <3>1. d = DecideFailure(r, p.seen.balance)
      BY <2>1, <2>2, <2>4, DueIsIrrelevant DEF Decision
    <3>2. d \in Row /\ d.cmd = c
      BY <1>2, <2>1, <2>2, <3>1, FailureDecided DEF Decided, Outcome
    <3>3. Linked(d)
      BY <1>1, <1>3, <2>1, <2>2, <3>1, DecisionLinked
    <3>4. ASSUME NEW new, new.mode = p.mode, new.t = d, new.id = p.id, new.seen = p.seen
          PROVE  d = DecisionFrom(new, ref)
      BY <2>4, <3>1, <3>2, <3>4 DEF DecisionFrom
    <3>5. QED BY <1>3, <3>2, <3>3, <3>4
  <2>5. QED BY <1>1, <1>5, <2>3, <2>4
<1>6. QED BY <1>4, <1>5

(* The decision is made from the locked wallet and a reference as it can be read now. *)
LEMMA DecideKeeps ==
    ASSUME CInv, NEW s \in Sessions, Decide(s)
    PROVE  CInv'
<1> PICK p : p = session[s]
  OBVIOUS
<1> PICK d : d = Decision(p)
  OBVIOUS
<1> DEFINE new == [p EXCEPT !.t = d, !.step = "write"]
<1>1. /\ p \in Session /\ Shaped(s, p) /\ Locked(p) /\ Knows(p) /\ LInv /\ p.step = "decide"
      /\ p.mode \in {"process", "resolve", "record"}
      /\ IF d.status = "PENDING" THEN Move(s, Refused(p, "TEMPORARY_UNAVAILABLE"))
                                 ELSE Move(s, new)
  BY SessionOf DEF Decide, At, Session
<1>2. /\ d \in Row /\ d.cmd = p.t.cmd /\ Linked(d)
      /\ \A q : /\ q.mode = p.mode /\ q.t = d /\ q.id = p.id /\ q.seen = p.seen
                => \E ref \in ReferenceViews(p.t.cmd) : d = DecisionFrom(q, ref)
  BY <1>1, DecisionSound
<1>3. CASE d.status = "PENDING"
  BY <1>1, <1>3, Refusals DEF Errors
<1>4. CASE d.status # "PENDING"
  <2>1. /\ new \in Session /\ new.step = "write" /\ new.locks = p.locks
        /\ new.mode = p.mode /\ new.t = d /\ new.id = p.id /\ new.msg = p.msg
        /\ new.seen = p.seen
    BY <1>1, <1>2 DEF Session, Steps
  <2> HIDE DEF new
  <2>2. Shaped(s, new)
    BY <1>1, <1>2, <2>1 DEF Shaped
  <2>3. Locked(new)
    BY <1>1, <1>2, <2>1 DEF Locked, MessageLocks, KeyLock, WalletLock, RowLock
  <2>4. MessageKnown(new) /\ WalletKnown(new) /\ Linked(new.t)
    BY <1>1, <1>2, <2>1 DEF Knows, MessageKnown, WalletKnown
  <2>5. NewKnown(new)
    BY <1>1, <1>2, <2>1 DEF Knows, NewKnown
  <2>6. WaitingKnown(new)
    BY <1>1, <1>2, <2>1 DEF Knows, WaitingKnown
  <2>7. DecisionStands(new)
    BY <1>2, <1>4, <2>1 DEF DecisionStands
  <2>8. QED
    BY <1>1, <1>4, <2>1, <2>2, <2>3, <2>4, <2>5, <2>6, <2>7, Moves DEF Knows
<1>5. QED BY <1>3, <1>4

(* Writing takes the lock of the inserted row; nobody else sees it before the commit. *)
LEMMA WriteKeeps ==
    ASSUME CInv, NEW s \in Sessions, Write(s)
    PROVE  CInv'
<1> PICK p : p = session[s]
  OBVIOUS
<1> DEFINE lock == <<"insert", p.id>>
           extra == IF p.mode = "process" THEN {lock} ELSE {}
           new == IF p.mode = "process" THEN Hold(p, lock, "commit") ELSE [p EXCEPT !.step = "commit"]
<1>1. /\ p \in Session /\ Shaped(s, p) /\ Locked(p) /\ Knows(p) /\ p.step = "write"
      /\ \A l \in WriteLocks(p) : Free(s, l)
      /\ Move(s, IF WriteConflict(p) THEN Refused(p, "CONFLICT") ELSE new)
  BY SessionOf DEF Write, At
<1>2. CASE WriteConflict(p)
  BY <1>1, <1>2, Refusals DEF Errors
<1>3. CASE ~ WriteConflict(p)
  <2>1. p.mode = "process" => p.id \in TxIds
    BY <1>1, ClientCommand
  <2>2. /\ new \in Session /\ new.step = "commit" /\ new.locks = p.locks \cup extra
        /\ new.mode = p.mode /\ new.t = p.t /\ new.id = p.id /\ new.msg = p.msg
        /\ new.seen = p.seen
    <3>1. CASE p.mode = "process"
      <4>1. lock \in Locks /\ "commit" \in Steps
        BY <2>1, <3>1, LockTypes DEF Steps
      <4> HIDE DEF lock
      <4>2. QED
        BY <1>1, <3>1, <4>1, HoldTyped
    <3>2. CASE p.mode # "process"
      BY <1>1, <3>2 DEF Session, Steps
    <3>3. QED BY <3>1, <3>2
  <2> HIDE DEF new
  <2>3. \A l \in extra : Free(s, l)
    BY <1>1 DEF WriteLocks
  <2>4. p.mode = "process" => ExternalIdIsFree(p.t.cmd)
    BY <1>3 DEF WriteConflict
  <2>5. Shaped(s, new)
    BY <1>1, <2>2 DEF Shaped
  <2>6. Locked(new)
    BY <1>1, <2>2 DEF Locked, MessageLocks, KeyLock, WalletLock, RowLock, InsertLock
  <2>7. MessageKnown(new) /\ WalletKnown(new) /\ Linked(new.t)
    BY <1>1, <2>2 DEF Knows, MessageKnown, WalletKnown
  <2>8. NewKnown(new)
    BY <1>1, <2>2, <2>4 DEF Knows, NewKnown
  <2>9. WaitingKnown(new)
    BY <1>1, <2>2 DEF Knows, WaitingKnown
  <2>10. DecisionStands(new)
    BY <1>1, <2>2 DEF Knows, DecisionStands, DecisionFrom
  <2>11. QED
    BY <1>1, <1>3, <2>2, <2>3, <2>5, <2>6, <2>7, <2>8, <2>9, <2>10, Moves DEF Knows
<1>4. QED BY <1>2, <1>3

(* The answer: the session is idle again, or the worker goes on to record a failure. *)
LEMMA AnswerKeeps ==
    ASSUME CInv, NEW s \in Sessions, Answer(s)
    PROVE  CInv'
<1> PICK p : p = session[s]
  OBVIOUS
<1> DEFINE next == [Idle EXCEPT !.locks = {}, !.todo = p.todo]
           new == [next EXCEPT !.mode = "record", !.id = p.id, !.step = "row"]
<1>1. /\ p \in Session /\ Shaped(s, p) /\ Knows(p) /\ p.step = "answer" /\ p.locks = {}
      /\ p.todo \in SUBSET TxIds
  BY SessionOf DEF Answer, At, Session, Locked
<1>2. Move(s, IF p.mode = "resolve" /\ p.error # None THEN new ELSE next)
  BY <1>1 DEF Answer, After
<1>3. /\ Shaped(s, next) /\ Locked(next) /\ Knows(next)
      /\ next.locks = {} /\ next.msg = None /\ next.t = NoRow
  BY <1>1, IdleIsSound
<1>4. CASE ~ (p.mode = "resolve" /\ p.error # None)
  BY <1>2, <1>3, <1>4, Moves
<1>5. CASE p.mode = "resolve" /\ p.error # None
  <2>1. p.id \in TxIds /\ s \notin Clients
    BY <1>1, <1>5 DEF Shaped
  <2>2. next \in Session
    BY <1>3 DEF Shaped
  <2> HIDE DEF next
  <2>3. /\ new \in Session /\ new.step = "row" /\ new.mode = "record" /\ new.locks = {}
        /\ new.msg = None /\ new.t = NoRow /\ new.id = p.id
    BY <1>3, <2>1, <2>2, ZenonT(30) DEF Session, Steps
  <2> HIDE DEF new
  <2>4. Shaped(s, new) /\ Locked(new)
    BY <2>1, <2>3 DEF Shaped, Locked
  <2>5. Knows(new)
    BY <2>3, NoRowShape
    DEF Knows, MessageKnown, WalletKnown, NewKnown, WaitingKnown, DecisionStands, Linked
  <2>6. QED
    BY <1>2, <1>5, <2>3, <2>4, <2>5, Moves
<1>6. QED BY <1>4, <1>5

(* Any statement may fail: the transaction rolls back. *)
LEMMA FailStatementKeeps ==
    ASSUME CInv, NEW s \in Sessions, FailStatement(s)
    PROVE  CInv'
<1>1. session[s].step # "idle" /\ Move(s, Refused(session[s], "TEMPORARY_UNAVAILABLE"))
  BY DEF FailStatement, At, CommitError
<1>2. QED
  BY <1>1, Refusals DEF Errors

(* A worker lists a batch, or takes the next row of it. *)
LEMMA ListDueKeeps ==
    ASSUME CInv, NEW s \in Workers, ListDue(s)
    PROVE  CInv'
<1> PICK p : p = session[s]
  OBVIOUS
<1>1. s \in Sessions
  BY DEF Sessions
<1>2. p \in Session /\ Shaped(s, p) /\ Locked(p) /\ Knows(p) /\ p.step = "idle"
  BY <1>1, SessionOf DEF ListDue, At
<1>3. PICK batch \in SUBSET TxIds : Move(s, [p EXCEPT !.todo = batch])
  BY DEF ListDue, kSubset
<1> DEFINE new == [p EXCEPT !.todo = batch]
<1>4. /\ new \in Session /\ new.step = p.step /\ new.mode = p.mode /\ new.locks = p.locks
      /\ new.msg = p.msg /\ new.t = p.t /\ new.id = p.id
  BY <1>2, <1>3 DEF Session
<1> HIDE DEF new
<1>5. Shaped(s, new) /\ Locked(new)
  BY <1>2, <1>4 DEF Shaped, Locked
<1>6. Knows(new)
  BY <1>2, <1>4
  DEF Knows, MessageKnown, WalletKnown, NewKnown, WaitingKnown, DecisionStands
<1>7. QED
  BY <1>1, <1>3, <1>4, <1>5, <1>6, Moves DEF new

(* The worker turns to the next transaction of its batch. *)
LEMMA ResolveStepKeeps ==
    ASSUME CInv, NEW s \in Workers, Resolve(s)
    PROVE  CInv'
<1> PICK p : p = session[s]
  OBVIOUS
<1>1. s \in Sessions /\ s \notin Clients
  BY SessionsAssumption DEF Sessions
<1>2. p \in Session /\ Shaped(s, p) /\ Locked(p) /\ Knows(p) /\ p.step = "idle"
  BY <1>1, SessionOf DEF Resolve, At
<1>3. PICK id \in p.todo : Move(s, [p EXCEPT !.mode = "resolve", !.id = id, !.todo = @ \ {id},
                                             !.step = "row"])
  BY DEF Resolve, After
<1> DEFINE new == [p EXCEPT !.mode = "resolve", !.id = id, !.todo = @ \ {id}, !.step = "row"]
<1>4. p.todo \subseteq TxIds /\ id \in TxIds /\ p.msg = None /\ p.locks = {}
  BY <1>2, <1>3 DEF Shaped, Session, Locked
<1>5. /\ new \in Session /\ new.step = "row" /\ new.mode = "resolve" /\ new.locks = {}
      /\ new.msg = None /\ new.t = p.t /\ new.id = id
  BY <1>2, <1>4, ZenonT(30) DEF Session, Steps
<1> HIDE DEF new
<1>6. Shaped(s, new) /\ Locked(new)
  BY <1>1, <1>4, <1>5 DEF Shaped, Locked
<1>7. Knows(new)
  BY <1>2, <1>5
  DEF Knows, MessageKnown, WalletKnown, NewKnown, WaitingKnown, DecisionStands
<1>8. QED
  BY <1>1, <1>3, <1>5, <1>6, <1>7, Moves DEF new

(* The locked row is the one to resolve while it waits; otherwise nothing is left to do. *)
LEMMA LockTransactionKeeps ==
    ASSUME CInv, NEW s \in Sessions, LockTransaction(s)
    PROVE  CInv'
<1> PICK p : p = session[s]
  OBVIOUS
<1> DEFINE lock == <<"row", p.id>>
           held == Hold(p, lock, "wallet")
           new == [held EXCEPT !.t = rows[p.id]]
           done == [p EXCEPT !.step = "answer", !.locks = {}]
<1>1. /\ p \in Session /\ Shaped(s, p) /\ Locked(p) /\ Knows(p) /\ LInv /\ p.step = "row"
      /\ Free(s, lock) /\ Move(s, IF Pending(p.id) THEN new ELSE done)
  BY SessionOf DEF LockTransaction, At, After, StillPending
<1>2. p.mode # "process" /\ p.id \in TxIds /\ p.msg = None /\ p.locks = {} /\ s \notin Clients
  <2>1. s \in Clients \/ s \in Workers
    BY DEF Sessions
  <2>2. QED
    BY <1>1, <2>1 DEF Shaped, Locked
<1>3. CASE Pending(p.id)
  <2>1. rows[p.id] \in Row /\ Linked(rows[p.id])
    BY <1>1, <1>2 DEF LInv, IInv, TypeOK, RowsLinked
  <2>2. /\ held \in Session /\ held.step = "wallet" /\ held.locks = {lock}
        /\ held.mode = p.mode /\ held.id = p.id /\ held.msg = None
    <3>1. lock \in Locks /\ "wallet" \in Steps
      BY <1>2, LockTypes DEF Steps
    <3> HIDE DEF lock
    <3>2. QED
      BY <1>1, <1>2, <3>1, HoldTyped
  <2> HIDE DEF held
  <2>3. /\ new \in Session /\ new.step = "wallet" /\ new.locks = {lock}
        /\ new.mode = p.mode /\ new.id = p.id /\ new.msg = None /\ new.t = rows[p.id]
    BY <2>1, <2>2 DEF Session
  <2> HIDE DEF new
  <2>4. Shaped(s, new) /\ Locked(new)
    BY <1>2, <2>3 DEF Shaped, Locked, RowLock
  <2>5. new.t = [rows[p.id] EXCEPT !.due = new.t.due]
    BY <2>1, <2>3 DEF Row
  <2>6. Knows(new)
    BY <1>2, <1>3, <2>1, <2>3, <2>5
    DEF Knows, MessageKnown, WalletKnown, NewKnown, WaitingKnown, DecisionStands
  <2>7. QED
    BY <1>1, <1>3, <2>3, <2>4, <2>6, Moves
<1>4. CASE ~ Pending(p.id)
  <2>1. /\ done \in Session /\ done.step = "answer" /\ done.locks = {}
        /\ done.mode = p.mode /\ done.id = p.id /\ done.msg = None /\ done.t = p.t
    BY <1>1, <1>2, ZenonT(30) DEF Session, Steps
  <2> HIDE DEF done
  <2>2. Shaped(s, done) /\ Locked(done)
    BY <1>2, <2>1 DEF Shaped, Locked
  <2>3. Knows(done)
    BY <1>1, <1>2, <2>1
    DEF Knows, MessageKnown, WalletKnown, NewKnown, WaitingKnown, DecisionStands
  <2>4. QED
    BY <1>1, <1>4, <2>1, <2>2, <2>3, Moves
<1>5. QED BY <1>3, <1>4

(* A crashed worker holds nothing. *)
LEMMA CrashKeeps ==
    ASSUME CInv, NEW s \in Workers, Crash(s)
    PROVE  CInv'
<1>1. s \in Sessions
  BY DEF Sessions
<1>2. Shaped(s, Idle) /\ Locked(Idle) /\ Knows(Idle) /\ Idle.locks = {}
  BY <1>1, IdleTyped, WithoutRequest
<1>3. Move(s, Idle)
  BY DEF Crash
<1>4. QED
  BY <1>1, <1>2, <1>3, Moves

(* Commit: the decided row is now the one in the table, and nothing is held any more. *)
LEMMA CommitKeeps ==
    ASSUME CInv, NEW s \in Sessions, Commit(s)
    PROVE  CInv'
<1> PICK p : p = session[s]
  OBVIOUS
<1> DEFINE new == [p EXCEPT !.step = "answer", !.locks = {}]
<1>1. /\ p \in Session /\ Shaped(s, p) /\ Locked(p) /\ Knows(p) /\ LInv /\ p.step = "commit"
      /\ session' = [session EXCEPT ![s] = new] /\ rows' = [rows EXCEPT ![p.id] = p.t]
  BY SessionOf DEF Commit, At
<1>2. [Next]_vars /\ Spares(p.locks)
  BY <1>1, CommitIsUseCase, CommitSpares
<1>3. /\ new \in Session /\ new.step = "answer" /\ new.locks = {} /\ new.mode = p.mode
      /\ new.t = p.t /\ new.id = p.id /\ new.msg = p.msg
  BY <1>1 DEF Session, Steps
<1> HIDE DEF new
<1>4. Shaped(s, new) /\ Locked(new)
  <2>1. Shaped(s, new)
    BY <1>1, <1>3 DEF Shaped
  <2>2. Locked(new)
    BY <1>3 DEF Locked
  <2>3. QED BY <2>1, <2>2
<1>5. Linked(new.t)'
  <2>1. Linked(new.t)
    BY <1>1, <1>3 DEF Knows
  <2>2. QED
    BY <1>1, <1>2, <2>1, LinkedKept DEF LInv
<1>6. ASSUME p.mode = "process" PROVE Stored(new)'
  <2>1. p.id \in TxIds /\ p.t.cmd.wallet \in WalletIds
    BY <1>1, <1>6, ClientCommand
  <2>2. rows'[p.id] = p.t
    BY <1>1, <2>1 DEF LInv, IInv, TypeOK
  <2>3. rows'[p.id].status = "NONE" => rows'[p.id].cmd.wallet = None
    BY <1>1, <1>2, <2>1, LedgerKept, NoRowShape DEF LInv, IInv, RowShape, NoRow
  <2>4. p.t.status # "NONE"
    BY <2>1, <2>2, <2>3, DomainAssumption
  <2>5. QED
    BY <1>3, <2>1, <2>2, <2>4 DEF Stored
<1>7. Knows(new)'
  <2>1. MessageKnown(new)' /\ WalletKnown(new)' /\ WaitingKnown(new)' /\ DecisionStands(new)'
    BY <1>3 DEF MessageKnown, WalletKnown, WaitingKnown, DecisionStands
  <2>2. NewKnown(new)'
    BY <1>3, <1>6 DEF NewKnown
  <2>3. QED
    BY <1>5, <2>1, <2>2 DEF Knows
<1>8. QED
  BY <1>1, <1>2, <1>3, <1>4, <1>7, SessionSteps

(* CommitReplay: the stored transaction stays what it was. *)
LEMMA CommitReplayKeeps ==
    ASSUME CInv, NEW s \in Sessions, CommitReplay(s)
    PROVE  CInv'
<1> PICK p : p = session[s]
  OBVIOUS
<1> DEFINE new == [p EXCEPT !.step = "answer", !.locks = {}]
<1>1. /\ p \in Session /\ Shaped(s, p) /\ Locked(p) /\ Knows(p) /\ LInv
      /\ p.step = "commitReplay" /\ session' = [session EXCEPT ![s] = new]
  BY SessionOf DEF CommitReplay, At
<1>2. [Next]_vars /\ Spares(p.locks) /\ p.mode = "process"
  <2>1. p.mode = "process"
    BY <1>1 DEF Shaped
  <2>2. QED
    BY <1>1, <2>1, CommitReplayIsUseCase, CommitReplaySpares
<1>3. /\ new \in Session /\ new.step = "answer" /\ new.locks = {} /\ new.mode = "process"
      /\ new.t = p.t /\ new.id = p.id /\ new.msg = p.msg
  BY <1>1, <1>2 DEF Session, Steps
<1> HIDE DEF new
<1>4. Shaped(s, new) /\ Locked(new)
  <2>1. Shaped(s, new)
    BY <1>1, <1>2, <1>3 DEF Shaped
  <2>2. Locked(new)
    BY <1>3 DEF Locked
  <2>3. QED BY <2>1, <2>2
<1>5. Linked(new.t)'
  <2>1. Linked(new.t)
    BY <1>1, <1>3 DEF Knows
  <2>2. QED
    BY <1>1, <1>2, <2>1, LinkedKept DEF LInv
<1>6. Stored(new)'
  <2>1. Stored(new)
    BY <1>1, <1>2, <1>3 DEF Knows, NewKnown, Stored
  <2>2. QED
    BY <1>1, <1>2, <2>1, StoredKept
<1>7. Knows(new)'
  <2>1. MessageKnown(new)' /\ WalletKnown(new)' /\ WaitingKnown(new)' /\ DecisionStands(new)'
    BY <1>3 DEF MessageKnown, WalletKnown, WaitingKnown, DecisionStands
  <2>2. NewKnown(new)'
    BY <1>3, <1>6 DEF NewKnown
  <2>3. QED
    BY <1>5, <2>1, <2>2 DEF Knows
<1>8. QED
  BY <1>1, <1>2, <1>3, <1>4, <1>7, SessionSteps

(* A step that changes no session: it needs no lock, and the readers change nothing. *)
LEMMA UnlockedKeeps ==
    ASSUME CInv, session' = session,
           \/ \E o \in Openings : CreateWallet(o.wallet, o.account, o.money)
           \/ \E id \in TxIds : BackoffElapses(id)
           \/ UNCHANGED vars
    PROVE  CInv' /\ [Next]_vars
<1>1. [Next]_vars
  BY DEF Next
<1>2. LInv
  BY DEF CInv
<1>3. Spares({})
  <2>1. CASE \E o \in Openings : CreateWallet(o.wallet, o.account, o.money)
    BY <1>2, <2>1, CreateSpares
  <2>2. CASE \E id \in TxIds : BackoffElapses(id)
    BY <1>2, <2>2, ClockSpares
  <2>3. CASE UNCHANGED vars
    BY <2>3 DEF vars, Spares, RowSpared
  <2>4. QED BY <2>1, <2>2, <2>3
<1>4. QED
  BY <1>1, <1>3, OtherSteps

-----------------------------------------------------------------------------
(* Part 6: the theorems.  First, that the invariant holds at the start. *)
LEMMA InitSessions == CInit => CInv
<1> SUFFICES ASSUME CInit PROVE CInv
  OBVIOUS
<1>1. LInv
  BY InitLedger DEF CInit
<1>2. \A s \in Sessions : session[s] = Idle
  BY DEF CInit
<1>3. session \in [Sessions -> Session]
  BY IdleTyped DEF CInit
<1>4. ASSUME NEW s \in Sessions, NEW p \in {session[s]}
      PROVE  Shaped(s, p) /\ Locked(p) /\ Knows(p)
  <2>1. p = Idle
    BY <1>2
  <2>2. Shaped(s, Idle) /\ Locked(Idle) /\ Knows(Idle)
    BY IdleTyped, WithoutRequest
  <2>3. QED BY <2>1, <2>2
<1>5. Exclusive
  BY <1>2, IdleTyped DEF Exclusive
<1>6. QED
  BY <1>1, <1>3, <1>4, <1>5 DEF CInv, SInv

(* Every step keeps the invariant, and is a use case of the ledger or changes no table. *)
LEMMA StepKeeps ==
    ASSUME CInv, [CNext]_cvars
    PROVE  CInv' /\ [Next]_vars
<1>1. ASSUME NEW s \in Sessions, NEW new, Move(s, new) PROVE [Next]_vars
  BY <1>1 DEF Move, database
<1>2. ASSUME NEW o \in Openings, Create(o) PROVE CInv' /\ [Next]_vars
  BY <1>2, UnlockedKeeps DEF Create
<1>3. ASSUME NEW id \in TxIds, ClockTick(id) PROVE CInv' /\ [Next]_vars
  BY <1>3, UnlockedKeeps DEF ClockTick
<1>4. ASSUME NEW s \in Clients, NEW c \in Commands, NEW m \in Messages \cup {None}, Begin(s, c, m)
      PROVE  CInv' /\ [Next]_vars
  BY <1>1, <1>4, BeginKeeps DEF Begin, Sessions
<1>5. ASSUME NEW s \in Sessions, Advance(s) PROVE CInv' /\ [Next]_vars
  <2>1. ASSUME ClaimInbox(s) PROVE CInv' /\ [Next]_vars
    BY <1>1, <2>1, ClaimInboxKeeps DEF ClaimInbox
  <2>2. ASSUME AcquireIdempotencyLock(s) PROVE CInv' /\ [Next]_vars
    BY <1>1, <2>2, AcquireKeeps DEF AcquireIdempotencyLock
  <2>3. ASSUME FindByIdempotency(s) PROVE CInv' /\ [Next]_vars
    BY <1>1, <2>3, FindByIdempotencyKeeps DEF FindByIdempotency
  <2>4. ASSUME LockReplayedWallet(s) PROVE CInv' /\ [Next]_vars
    BY <1>1, <2>4, LockReplayedWalletKeeps DEF LockReplayedWallet
  <2>5. ASSUME FindByExternalID(s) PROVE CInv' /\ [Next]_vars
    BY <1>1, <2>5, FindByExternalIDKeeps DEF FindByExternalID
  <2>6. ASSUME LockTransaction(s) PROVE CInv' /\ [Next]_vars
    BY <1>1, <2>6, LockTransactionKeeps DEF LockTransaction
  <2>7. ASSUME LockWallet(s) PROVE CInv' /\ [Next]_vars
    BY <1>1, <2>7, LockWalletKeeps DEF LockWallet
  <2>8. ASSUME Decide(s) PROVE CInv' /\ [Next]_vars
    BY <1>1, <2>8, DecideKeeps DEF Decide
  <2>9. ASSUME Write(s) PROVE CInv' /\ [Next]_vars
    BY <1>1, <2>9, WriteKeeps DEF Write
  <2>10. ASSUME Commit(s) PROVE CInv' /\ [Next]_vars
    BY <2>10, CommitKeeps, CommitIsUseCase, SessionOf
  <2>11. ASSUME CommitReplay(s) PROVE CInv' /\ [Next]_vars
    BY <2>11, CommitReplayKeeps, CommitReplayIsUseCase, SessionOf
  <2>12. ASSUME Answer(s) PROVE CInv' /\ [Next]_vars
    BY <1>1, <2>12, AnswerKeeps DEF Answer
  <2>13. QED
    BY <1>5, <2>1, <2>2, <2>3, <2>4, <2>5, <2>6, <2>7, <2>8, <2>9, <2>10, <2>11, <2>12
    DEF Advance
<1>6. ASSUME NEW s \in Sessions, FailStatement(s) PROVE CInv' /\ [Next]_vars
  BY <1>1, <1>6, FailStatementKeeps DEF FailStatement
<1>7. ASSUME NEW s \in Workers, ListDue(s) \/ Resolve(s) \/ Crash(s) PROVE CInv' /\ [Next]_vars
  <2>1. s \in Sessions
    BY DEF Sessions
  <2>2. [Next]_vars
    BY <1>1, <1>7, <2>1 DEF ListDue, Resolve, Crash
  <2>3. QED
    BY <1>7, <2>2, ListDueKeeps, ResolveStepKeeps, CrashKeeps
<1>8. ASSUME NEW r \in Readers,
             (\E w \in WalletIds : ReadWallet(r, w)) \/ SumLedger(r) \/ ReportBalance(r)
      PROVE  CInv' /\ [Next]_vars
  <2>1. UNCHANGED vars /\ session' = session
    BY <1>8 DEF ReadWallet, SumLedger, ReportBalance, database
  <2>2. QED
    BY <2>1, UnlockedKeeps
<1>9. CASE UNCHANGED cvars
  <2>1. UNCHANGED vars /\ session' = session
    BY <1>9 DEF cvars, vars
  <2>2. QED
    BY <2>1, UnlockedKeeps
<1>10. CASE CNext
  BY <1>2, <1>3, <1>4, <1>5, <1>6, <1>7, <1>8, <1>10 DEF CNext
<1>11. QED BY <1>9, <1>10

(* The sessions keep the invariant, whatever their number: what a session has read and
   decided holds of the database until it commits, and no two sessions hold one lock. *)
THEOREM SessionInvariant == CSpec => []CInv
<1>1. CInv /\ [CNext]_cvars => CInv'
  BY StepKeeps
<1>2. QED
  BY <1>1, InitSessions, PTL DEF CSpec

(* Every commit of the sessions is one use case of WagerLedger, applied to the database
   as it is at the commit, and no other step changes a table: the statements, locks,
   rollbacks and crashes of WagerService implement the atomic use cases. *)
THEOREM SessionsImplementLedger == CSpec => LedgerSpec
<1>1. CInit => Init
  BY DEF CInit
<1>2. CInv /\ [CNext]_cvars => [Next]_vars
  BY StepKeeps
<1>3. QED
  BY <1>1, <1>2, SessionInvariant, PTL DEF CSpec, LedgerSpec, Spec

(* So the tables the sessions share keep what the ledger promises: each balance is the
   end of an unbroken chain of entries, each effect is booked once, a reference is
   reversed at most once, a key is spent once and an outcome never changes. *)
THEOREM SessionsKeepThePromises ==
    CSpec => /\ [](LedgerChain /\ EffectExactlyOnce /\ OneReversal /\ KeysUnique)
             /\ OutcomeIsFinal
<1>1. Spec => /\ []LedgerChain /\ []EffectExactlyOnce /\ []OneReversal /\ []KeysUnique
              /\ OutcomeIsFinal
  BY BalanceIsLedger, EffectIsExactlyOnce, ReversedAtMostOnce, KeySpentOnce, OutcomesAreFinal
<1>2. CSpec => Spec
  BY SessionsImplementLedger DEF LedgerSpec
<1>3. QED
  BY <1>1, <1>2, PTL

(* An answer without error is what the table holds: it was committed before the client
   saw it, and no later step of any session unsays it. *)
THEOREM AnswersAreRecorded == CSpec => []AnswerIsRecorded
<1>1. CInv => AnswerIsRecorded
  <2>1. SUFFICES ASSUME CInv, NEW s \in Clients, NEW p, p = session[s],
                        p.step = "answer", p.error = None
                 PROVE  /\ rows[p.id].cmd = p.t.cmd
                        /\ p.t.status \in Terminal => rows[p.id] = p.t
    BY DEF AnswerIsRecorded, At
  <2>2. Shaped(s, p) /\ Knows(p)
    BY <2>1, SessionOf DEF Sessions
  <2>3. Stored(p)
    BY <2>1, <2>2 DEF Shaped, Knows, NewKnown
  <2>4. QED
    BY <2>3 DEF Stored
<1>2. QED
  BY <1>1, SessionInvariant, PTL

(* What a session that waits for a lock may hold itself. *)
LEMMA HeldWhileWaiting ==
    ASSUME NEW s \in Sessions, NEW p, Shaped(s, p), Locked(p), NEW lock \in p.locks,
           p.step \in {"claim", "advisory", "row", "wallet", "replay", "write"}
    PROVE  /\ p.step \notin {"claim", "row"}
           /\ lock[1] # "insert"
           /\ lock[1] = "wallet" => p.step = "write"
           /\ lock[1] = "row" => /\ p.mode # "process" /\ p.step \in {"wallet", "write"}
                                 /\ lock = RowLock(p)
           /\ lock[1] = "key" => p.step \notin {"claim", "advisory", "row"}
<1>1. /\ \A l \in MessageLocks(p) : l[1] = "inbox"
      /\ KeyLock(p)[1] = "key" /\ WalletLock(p)[1] = "wallet" /\ RowLock(p)[1] = "row"
  BY DEF MessageLocks, KeyLock, WalletLock, RowLock
<1>2. /\ p.mode # "process" => p.step \in {"row", "wallet", "write"}
      /\ p.step \notin {"claim", "row"}
  BY DEF Shaped, Locked
<1>3. CASE p.step = "advisory"
  BY <1>1, <1>2, <1>3 DEF Locked
<1>4. CASE p.step = "replay"
  BY <1>1, <1>2, <1>4 DEF Locked
<1>5. CASE p.step = "wallet"
  BY <1>1, <1>2, <1>5 DEF Locked
<1>6. CASE p.step = "write"
  BY <1>1, <1>2, <1>6 DEF Locked
<1>7. QED BY <1>2, <1>3, <1>4, <1>5, <1>6

(* No group of sessions waits in a circle.  Who writes waits only for an insert, which
   no waiting session holds, or for the row of a reference, whose holder would be
   resolving it while it has an outcome already; so nobody in a circle writes, and
   then nobody holds a wallet, a row or a key, and at last nobody an inbox row. *)
THEOREM NobodyWaitsInACircle == CSpec => []NoWaitCycle
<1>1. CInv => NoWaitCycle
  <2> SUFFICES ASSUME CInv, NEW group \in SUBSET Sessions, group # {},
                      \A s \in group : \E o \in group \ {s} : Wanted(s) \cap session[o].locks # {}
               PROVE  FALSE
    BY DEF NoWaitCycle
  <2>1. \A s \in group : /\ Shaped(s, session[s]) /\ Locked(session[s]) /\ Knows(session[s])
                         /\ session[s].step \in {"claim", "advisory", "row", "wallet", "replay", "write"}
    <3>1. SUFFICES ASSUME NEW s \in group
                   PROVE  session[s].step \in {"claim", "advisory", "row", "wallet", "replay", "write"}
      BY SessionOf
    <3>2. Wanted(s) # {}
      OBVIOUS
    <3>3. QED
      BY <3>2 DEF Wanted, At
  <2>2. ASSUME NEW s \in group, NEW lock, Wanted(s) \subseteq {lock}
        PROVE  \E o \in group : lock \in session[o].locks
    BY <2>2
  <2>3. \A s \in group : session[s].step # "write"
    <3>1. SUFFICES ASSUME NEW s \in group, session[s].step = "write" PROVE FALSE
      OBVIOUS
    <3> PICK p : p = session[s]
      OBVIOUS
    <3>2. PICK o \in group : WriteLocks(p) \cap session[o].locks # {}
      BY <3>1 DEF Wanted, At
    <3> PICK lock \in session[o].locks : lock \in WriteLocks(p)
      BY <3>2
    <3> PICK q : q = session[o]
      OBVIOUS
    <3>3. /\ lock[1] # "insert"
          /\ lock[1] = "row" => /\ q.mode # "process" /\ q.step \in {"wallet", "write"}
                                /\ lock = RowLock(q)
      BY <2>1, HeldWhileWaiting
    <3>4. p.t.refTx # None /\ lock = <<"row", p.t.refTx>>
      BY <3>3 DEF WriteLocks
    <3>5. q.id = p.t.refTx /\ Pending(q.id)
      BY <2>1, <3>3, <3>4 DEF RowLock, Knows, WaitingKnown
    <3>6. rows[p.t.refTx].status \in Terminal
      BY <2>1, <3>4 DEF Knows, Linked
    <3>7. QED
      BY <3>5, <3>6 DEF Pending, Terminal
  <2>4. \A o \in group : \A lock \in session[o].locks : lock[1] # "wallet"
    BY <2>1, <2>3, HeldWhileWaiting
  <2>5. \A s \in group : session[s].step \notin {"wallet", "replay"}
    <3>1. SUFFICES ASSUME NEW s \in group, session[s].step \in {"wallet", "replay"}
                   PROVE  FALSE
      OBVIOUS
    <3>2. \E w : Wanted(s) = {<<"wallet", w>>}
      BY <3>1 DEF Wanted, At
    <3>3. PICK w : Wanted(s) = {<<"wallet", w>>}
      BY <3>2
    <3> DEFINE lock == <<"wallet", w>>
    <3>4. lock[1] = "wallet" /\ Wanted(s) \subseteq {lock}
      BY <3>3
    <3> HIDE DEF lock
    <3>5. QED
      BY <2>2, <2>4, <3>4
  <2>6. \A o \in group : \A lock \in session[o].locks : lock[1] # "row"
    BY <2>1, <2>3, <2>5, HeldWhileWaiting
  <2>7. \A s \in group : session[s].step # "row"
    BY <2>2, <2>6 DEF Wanted, At
  <2>8. \A o \in group : \A lock \in session[o].locks : lock[1] # "key"
    BY <2>1, <2>3, <2>5, HeldWhileWaiting
  <2>9. \A s \in group : session[s].step # "advisory"
    BY <2>2, <2>8 DEF Wanted, At
  <2>10. \A s \in group : session[s].step = "claim"
    BY <2>1, <2>3, <2>5, <2>7, <2>9
  <2>11. \A o \in group : session[o].locks = {}
    BY <2>1, <2>10 DEF Locked
  <2>12. QED
    BY <2>11
<1>2. QED
  BY <1>1, SessionInvariant, PTL

-----------------------------------------------------------------------------
(* Part 7: the readers.  What a reader holds is the ledger of one wallet and the balance
   it ended with, both as they were at the snapshot. *)
Reading == [step: {"idle", "sum", "answer"}, wallet: WalletIds \cup {None}, stored: Minor,
            entries: Seq(Entry), sum: Int]

Snapshot(g) ==
    /\ g \in Reading
    /\ g.step # "idle" => Chain(g.entries, g.stored)
    /\ g.step = "answer" => g.stored = g.sum

Snapshots ==
    /\ reading \in [Readers -> Reading]
    /\ \A r \in Readers : Snapshot(reading[r])

(* A reader that holds nothing. *)
LEMMA NotReadingHolds == Snapshot(NotReading)
<1>1. <<>> \in Seq(Entry) /\ 0 \in Minor /\ 0 \in Int
  BY DomainAssumption, EmptySeq DEF Minor
<1>2. QED
  BY <1>1 DEF Snapshot, NotReading, Reading

(* One reader changes what it holds. *)
LEMMA ReaderChanges ==
    ASSUME Snapshots, NEW r \in Readers, NEW new, Snapshot(new),
           reading' = [reading EXCEPT ![r] = new]
    PROVE  Snapshots'
<1>1. reading' \in [Readers -> Reading]
  BY DEF Snapshots, Snapshot
<1>2. ASSUME NEW o \in Readers PROVE Snapshot(reading[o])'
  <2>1. reading'[o] = IF o = r THEN new ELSE reading[o]
    BY DEF Snapshots
  <2>2. Snapshot(reading'[o])
    BY <2>1 DEF Snapshots
  <2>3. QED BY <2>2 DEF Snapshot, Reading, Chain
<1>3. QED BY <1>1, <1>2 DEF Snapshots, Reading

(* The ledger goes on while a reader sums, the snapshot does not; only the reader's own
   steps touch it, and the sums over a chain differ by the balance it ends with. *)
LEMMA SnapshotsKept ==
    ASSUME CInv, Snapshots, [CNext]_cvars
    PROVE  Snapshots'
<1>1. ASSUME reading' = reading PROVE Snapshots'
  BY <1>1 DEF Snapshots, Snapshot, Reading, Chain
<1>2. ASSUME NEW r \in Readers, NEW w \in WalletIds, ReadWallet(r, w) PROVE Snapshots'
  <2> DEFINE new == [step |-> "sum", wallet |-> w, stored |-> wallets[w].balance,
                     entries |-> ledger[w], sum |-> 0]
  <2>1. /\ wallets[w].balance \in Minor /\ ledger[w] \in Seq(Entry)
        /\ Chain(ledger[w], wallets[w].balance)
    BY DEF CInv, LInv, IInv, TypeOK, Wallet, LedgerChain, Chain
  <2>2. Snapshot(new)
    BY <2>1 DEF Snapshot, Reading
  <2>3. reading' = [reading EXCEPT ![r] = new]
    BY <1>2 DEF ReadWallet
  <2> HIDE DEF new
  <2>4. QED BY <2>2, <2>3, ReaderChanges
<1>3. ASSUME NEW r \in Readers, SumLedger(r) PROVE Snapshots'
  <2> PICK g : g = reading[r]
    OBVIOUS
  <2> DEFINE sum == Total(g.entries, "CREDIT") - Total(g.entries, "DEBIT")
             found == [g EXCEPT !.step = "answer", !.sum = sum, !.entries = g.entries]
  <2>1. Snapshot(g) /\ g.step = "sum"
    BY <1>3 DEF Snapshots, SumLedger
  <2>2. /\ g.entries \in Seq(Entry) /\ Chain(g.entries, g.stored)
    BY <2>1 DEF Snapshot, Reading
  <2>3. sum \in Int /\ sum = g.stored
    BY <2>2, ChainTotals
  <2> HIDE DEF sum
  <2>4. Snapshot(found)
    <3>1. found.step = "answer" /\ found.sum = sum /\ found.entries = g.entries /\ found.stored = g.stored
      BY <2>1 DEF Snapshot, Reading
    <3>2. found \in Reading
      BY <2>1, <2>2, <2>3 DEF Snapshot, Reading
    <3> HIDE DEF found
    <3>3. QED BY <3>1, <3>2, <2>2, <2>3 DEF Snapshot
  <2>5. \/ reading' = [reading EXCEPT ![r] = NotReading]
        \/ reading' = [reading EXCEPT ![r] = found]
    BY <1>3 DEF SumLedger, SnapshotEntries, Snapshots, sum
  <2> HIDE DEF found
  <2>6. QED BY <2>4, <2>5, ReaderChanges, NotReadingHolds
<1>4. ASSUME NEW r \in Readers, ReportBalance(r) PROVE Snapshots'
  <2>1. reading' = [reading EXCEPT ![r] = NotReading]
    BY <1>4 DEF ReportBalance
  <2>2. QED BY <2>1, ReaderChanges, NotReadingHolds
<1>5. ASSUME NEW s \in Sessions, Advance(s) PROVE reading' = reading
  BY <1>5 DEF Advance, ClaimInbox, AcquireIdempotencyLock, FindByIdempotency,
     LockReplayedWallet, FindByExternalID, LockTransaction, LockWallet, Decide, Write,
     Commit, CommitReplay, Answer, Move
<1>6. ASSUME NEW s \in Sessions, \/ \E c \in Commands, m \in Messages \cup {None} : Begin(s, c, m)
                                 \/ FailStatement(s) \/ ListDue(s) \/ Resolve(s) \/ Crash(s)
      PROVE reading' = reading
  BY <1>6 DEF Begin, FailStatement, ListDue, Resolve, Crash, Move
<1>7. CASE UNCHANGED cvars
  BY <1>1, <1>7 DEF cvars
<1>8. CASE CNext
  <2>1. ASSUME NEW o \in Openings, Create(o) PROVE reading' = reading
    BY <2>1 DEF Create
  <2>2. ASSUME NEW id \in TxIds, ClockTick(id) PROVE reading' = reading
    BY <2>2 DEF ClockTick
  <2>3. QED
    BY <1>1, <1>2, <1>3, <1>4, <1>5, <1>6, <1>8, <2>1, <2>2 DEF CNext, Sessions
<1>9. QED BY <1>7, <1>8

(* A reconciliation never reports a difference between the balance it read and the one
   it recalculates, whatever the sessions commit between its two queries. *)
THEOREM ReconciliationsAgree == CSpec => []ReconcileConsistent
<1>1. CInit => Snapshots
  <2>1. ASSUME CInit PROVE Snapshots
    <3>1. reading = [r \in Readers |-> NotReading]
      BY <2>1 DEF CInit
    <3>2. QED BY <3>1, NotReadingHolds DEF Snapshots, Snapshot
  <2>2. QED BY <2>1
<1>2. CInv /\ Snapshots /\ [CNext]_cvars => Snapshots'
  BY SnapshotsKept
<1>3. Snapshots => ReconcileConsistent
  BY DEF Snapshots, Snapshot, ReconcileConsistent
<1>4. QED
  BY <1>1, <1>2, <1>3, SessionInvariant, PTL DEF CSpec
=============================================================================
