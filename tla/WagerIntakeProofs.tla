-------------------------- MODULE WagerIntakeProofs --------------------------
(***************************************************************************)
(* Proofs about the queue and the database together, for any messages,     *)
(* envelopes, plans of the producers, number of consumers and of receives: *)
(* WagerIntake implements both SqsConsumer and WagerLedger, so what is     *)
(* proved of each of them holds of the composition; what is deleted is     *)
(* durable, a message has one effect, and a refusal is final.              *)
(*                                                                         *)
(* The proofs of the two parts are instances here, as the parts are in     *)
(* WagerIntake.  C and SQ, and L and LE, are the same modules; part 1 says *)
(* so of the definitions that are used, part 2 is the invariant, part 3    *)
(* the two refinements and what they give, part 4 the refusals, part 5     *)
(* what has to wait.                                                       *)
(***************************************************************************)
EXTENDS WagerIntake, FiniteSetTheorems, TLAPS

AllCommands == HttpCommands \cup {e.cmd : e \in Envelopes}

SQ == INSTANCE SqsConsumerProofs WITH Messages <- SqsMessages
LE == INSTANCE WagerLedgerProofs WITH
          Messages <- EnvelopeIds, Commands <- HttpCommands \cup {e.cmd : e \in Envelopes}

-----------------------------------------------------------------------------
(* Part 1: the parts and their proofs. *)

(* What the proofs of the consumers, and of the ledger, assume of their constants. *)
LEMMA QueueAssumed == SQ!QueueAssumption
  BY IntakeAssumption DEF SQ!QueueAssumption

LEMMA LedgerAssumed == LE!DomainAssumption /\ LE!LedgerAssumption
  BY DomainAssumption, IntakeAssumption
  DEF AllCommands, LE!DomainAssumption, LE!LedgerAssumption, Command, LE!Command, ExternalKinds,
      LE!ExternalKinds, Minor, LE!Minor, FailureCodes, LE!FailureCodes

(* The consumers of the composition are those of the proofs. *)
LEMMA SameConsumers ==
    /\ C!Init => SQ!Init
    /\ C!Next => SQ!Next
  BY DEF
      C!Idle, C!Down, C!NoHeartbeat, C!Init, C!Before, C!InFlight, C!Deliverable,
      C!Send, C!Redrive, C!KeptBy, C!Expire, C!At, C!Step, C!WithReceipt,
      C!Receive, C!RejectEnvelope, C!AcceptEnvelope, C!Beat, C!BeatLate,
      C!Stopped, C!StopHeartbeat, C!Commit, C!ProcessSucceeds, C!AfterError,
      C!FailWith, C!ProcessFails, C!Again, C!DeleteMessage, C!RetryTimer,
      C!ScheduleRetry, C!ReleaseMessage, C!Shutdown, C!Crash, C!Restart, C!Work,
      C!Next, C!Range, SQ!Idle, SQ!Down, SQ!NoHeartbeat, SQ!Init, SQ!Before,
      SQ!InFlight, SQ!Deliverable, SQ!Send, SQ!Redrive, SQ!KeptBy, SQ!Expire,
      SQ!At, SQ!Step, SQ!WithReceipt, SQ!Receive, SQ!RejectEnvelope,
      SQ!AcceptEnvelope, SQ!Beat, SQ!BeatLate, SQ!Stopped, SQ!StopHeartbeat,
      SQ!Commit, SQ!ProcessSucceeds, SQ!AfterError, SQ!FailWith, SQ!ProcessFails,
      SQ!Again, SQ!DeleteMessage, SQ!RetryTimer, SQ!ScheduleRetry,
      SQ!ReleaseMessage, SQ!Shutdown, SQ!Crash, SQ!Restart, SQ!Work, SQ!Next,
      SQ!Range

(* So are the rules and the tables of the ledger. *)
LEMMA SameRules ==
    /\ \A t, owner, ref, reversed, balance :
          L!DecideNew(t, owner, ref, reversed, balance)
            = LE!DecideNew(t, owner, ref, reversed, balance)
    /\ \A t, ref, reversed, balance :
          L!DecidePending(t, ref, reversed, balance) = LE!DecidePending(t, ref, reversed, balance)
    /\ \A t, balance : L!DecideFailure(t, balance) = LE!DecideFailure(t, balance)
    /\ \A c : L!ValidCommand(c) <=> LE!ValidCommand(c)
    /\ \A c : L!NewWagerTransaction(c) = LE!NewWagerTransaction(c)
    /\ L!TxIds = LE!TxIds
  BY DEF
      L!ExternalKinds, L!Reversals, L!Terminal, L!TxIds, L!NoResult,
      L!OpeningCommand, L!FreshRow, L!NoRow, L!NewWagerTransaction,
      L!ValidCommand, L!MarkPendingReference, L!ResolveReference, L!MarkProcessed,
      L!Reject, L!Fail, L!ReferenceIsPending, L!AmountAgrees, L!AlreadyReversed,
      L!ReferenceFailure, L!Direction, L!CanDebit, L!CanCredit, L!Finalize,
      L!Settle, L!DecideNew, L!AttemptsUsed, L!DecidePending, L!DecideFailure,
      LE!ExternalKinds, LE!Reversals, LE!Terminal, LE!TxIds, LE!NoResult,
      LE!OpeningCommand, LE!FreshRow, LE!NoRow, LE!NewWagerTransaction,
      LE!ValidCommand, LE!MarkPendingReference, LE!ResolveReference,
      LE!MarkProcessed, LE!Reject, LE!Fail, LE!ReferenceIsPending,
      LE!AmountAgrees, LE!AlreadyReversed, LE!ReferenceFailure, LE!Direction,
      LE!CanDebit, LE!CanCredit, LE!Finalize, LE!Settle, LE!DecideNew,
      LE!AttemptsUsed, LE!DecidePending, LE!DecideFailure

(* What the use cases read of the tables, and how they write a row. *)
LEMMA SameTables ==
    /\ \A t : L!MovementOf(t) = LE!MovementOf(t)
    /\ \A id : L!Pending(id) <=> LE!Pending(id)
    /\ \A w : L!Exists(w) <=> LE!Exists(w)
    /\ \A c : L!ReferenceViews(c) = LE!ReferenceViews(c)
    /\ \A id : L!SuccessfulReversalExists(id) = LE!SuccessfulReversalExists(id)
    /\ \A id, t : L!Persist(id, t) <=> LE!Persist(id, t)
  BY DEF
      L!Reversals, L!Terminal, L!TxIds, L!Direction, L!NoResult, L!OpeningCommand,
      L!FreshRow, L!NoRow, L!MovementOf, L!RowOf, L!Pending, L!Exists,
      L!ReferenceViews, L!SuccessfulReversalExists, L!Persist, L!Post, L!Emit,
      L!RecordEntry, L!Apply, LE!Reversals, LE!Terminal, LE!TxIds, LE!Direction,
      LE!NoResult, LE!OpeningCommand, LE!FreshRow, LE!NoRow, LE!MovementOf,
      LE!RowOf, LE!Pending, LE!Exists, LE!ReferenceViews,
      LE!SuccessfulReversalExists, LE!Persist, LE!Post, LE!Emit, LE!RecordEntry,
      LE!Apply

(* So are its use cases. *)
LEMMA SameWrites ==
    /\ L!Init => LE!Init
    /\ \A w, account, money :
          L!CreateWallet(w, account, money) => LE!CreateWallet(w, account, money)
    /\ \A c, m : L!Replay(c, m) => LE!Replay(c, m)
    /\ \A id : L!BackoffElapses(id) => LE!BackoffElapses(id)
<1>1. L!Init => LE!Init
  BY DEF
      L!Init, L!NoWallet, L!TxIds, L!NoResult, L!OpeningCommand, L!FreshRow,
      L!NoRow, LE!Init, LE!NoWallet, LE!TxIds, LE!NoResult, LE!OpeningCommand,
      LE!FreshRow, LE!NoRow
<1>2. \A w, account, money : L!CreateWallet(w, account, money) => LE!CreateWallet(w, account, money)
  BY DEF
      L!CreateWallet, L!Exists, L!Pending, L!NewWallet, L!MarkProcessed, L!Emit,
      L!NoResult, L!OpeningCommand, L!FreshRow, L!NoRow, LE!CreateWallet,
      LE!Exists, LE!Pending, LE!NewWallet, LE!MarkProcessed, LE!Emit, LE!NoResult,
      LE!OpeningCommand, LE!FreshRow, LE!NoRow
<1>3. \A c, m : L!Replay(c, m) => LE!Replay(c, m)
  BY DEF
      L!Replay, L!SamePayload, L!TxIds, LE!Replay, LE!SamePayload, LE!TxIds
<1>4. \A id : L!BackoffElapses(id) => LE!BackoffElapses(id)
  BY DEF
      L!BackoffElapses, L!Pending, LE!BackoffElapses, LE!Pending
<1>5. QED BY <1>1, <1>2, <1>3, <1>4

(* The other three use cases are built from those rules and tables: Process of a new
   command, *)
LEMMA SameAccept == \A c, m : L!Accept(c, m) => LE!Accept(c, m)
  BY SameRules, SameTables
  DEF L!Accept, LE!Accept, L!KeyIsFree, LE!KeyIsFree, L!ExternalIdIsFree, LE!ExternalIdIsFree,
      L!CompleteInbox, LE!CompleteInbox

(* and the two of the reference worker. *)
LEMMA SameSteps == L!Next => LE!Next
<1>1. ASSUME NEW id, L!ResolvePendingReference(id) PROVE LE!ResolvePendingReference(id)
  BY <1>1, SameRules, SameTables
  DEF L!ResolvePendingReference, LE!ResolvePendingReference, L!StillPending, LE!StillPending
<1>2. ASSUME NEW id, L!RecordPendingReferenceFailure(id) PROVE LE!RecordPendingReferenceFailure(id)
  BY <1>2, SameRules, SameTables
  DEF L!RecordPendingReferenceFailure, LE!RecordPendingReferenceFailure
<1>3. QED
  BY <1>1, <1>2, SameAccept, SameRules, SameWrites DEF L!Next, LE!Next

(* The instance counts as this module does. *)
LEMMA SameCardinality == \A S : LE!Cardinality(S) = Cardinality(S)
  BY DEF Cardinality, LE!Cardinality, IsFiniteSet, LE!IsFiniteSet

-----------------------------------------------------------------------------
(* Part 2: the invariant.  Both parts have theirs; between them, whatever was handled is
   completed in the inbox. *)
HandledCompleted ==
    \A m \in SqsMessages :
        m \in Range(handled) => inbox[envelope[m].id] = envelope[m].cmd

IntakeInv == envelope \in Plans /\ SQ!IInv /\ LE!IInv /\ HandledCompleted

(* What a message carries. *)
LEMMA Carried ==
    ASSUME envelope \in Plans, NEW m \in SqsMessages
    PROVE  /\ envelope[m].id \in EnvelopeIds /\ envelope[m].id # None
           /\ envelope[m].cmd \in AllCommands /\ envelope[m].cmd # None
           /\ envelope[m].cmd \in Command
<1>1. envelope[m] \in Envelopes
  BY IntakeAssumption
<1>2. QED
  BY <1>1, IntakeAssumption DEF AllCommands

(* A consumer that calls Process has a message. *)
LEMMA Processing ==
    ASSUME IntakeInv, NEW c \in Consumers, C!At(c, "process")
    PROVE  consumer[c].msg \in SqsMessages
<1>1. SQ!IInv /\ ~ SQ!At(c, "receive") /\ ~ SQ!At(c, "down")
  BY DEF IntakeInv, C!At, SQ!At
<1>2. QED
  BY <1>1, QueueAssumed, SQ!Working

(* Process commits a use case of the ledger, or finds its message completed; either way
   the inbox row is completed with the payload. *)
LEMMA CommitCompletes ==
    ASSUME IntakeInv, NEW m \in SqsMessages, Commit(m)
    PROVE  /\ L!Next \/ UNCHANGED database
           /\ inbox'[envelope[m].id] = envelope[m].cmd
<1> DEFINE e == envelope[m]
<1>1. e.id \in EnvelopeIds /\ e.id # None /\ e.cmd \in AllCommands
  BY Carried DEF IntakeInv
<1>2. inbox \in [EnvelopeIds -> AllCommands \cup {None}]
  BY DEF AllCommands, IntakeInv, LE!IInv, LE!TypeOK
<1>3. CASE L!Accept(e.cmd, e.id)
  <2>1. inbox' = [inbox EXCEPT ![e.id] = e.cmd]
    BY <1>1, <1>3 DEF L!Accept, L!CompleteInbox
  <2>2. L!Next
    BY <1>1, <1>3 DEF L!Next, AllCommands
  <2>3. QED
    BY <1>1, <1>2, <2>1, <2>2
<1>4. CASE L!Replay(e.cmd, e.id)
  <2>1. inbox' = [inbox EXCEPT ![e.id] = e.cmd]
    BY <1>4 DEF L!Replay
  <2>2. L!Next
    BY <1>1, <1>4 DEF L!Next, AllCommands
  <2>3. QED
    BY <1>1, <1>2, <2>1, <2>2
<1>5. CASE inbox[e.id] = e.cmd /\ UNCHANGED database
  BY <1>5 DEF database
<1>6. QED
  BY <1>3, <1>4, <1>5 DEF Commit

(* A step of the composition is a step of the ledger, or leaves it alone. *)
LEMMA LedgerSteps ==
    ASSUME IntakeInv, [INext]_ivars
    PROVE  [LE!Next]_LE!vars
<1>1. ASSUME UNCHANGED database PROVE UNCHANGED LE!vars
  BY <1>1 DEF database, LE!vars
<1>2. ASSUME NEW c \in Consumers, Succeed(c) \/ LoseAnswer(c)
      PROVE  L!Next \/ UNCHANGED database
  BY <1>2, Processing, CommitCompletes DEF Succeed, LoseAnswer, C!ProcessSucceeds, C!FailWith
<1>3. ASSUME NEW c \in Consumers, Refuse(c) \/ FailForNow(c)
      PROVE  UNCHANGED database
  BY <1>3 DEF Refuse, FailForNow
<1>4. ASSUME NEW o \in Openings, L!CreateWallet(o.wallet, o.account, o.money)
      PROVE  L!Next
  BY <1>4 DEF L!Next
<1>5. ASSUME NEW c \in HttpCommands, L!Accept(c, None)
      PROVE  L!Next
  BY <1>5 DEF L!Next
<1>6. ASSUME NEW id \in ExternalIds,
             \/ L!BackoffElapses(id) \/ L!ResolvePendingReference(id)
             \/ L!RecordPendingReferenceFailure(id)
      PROVE  L!Next
  BY <1>6 DEF L!Next, L!TxIds
<1>7. CASE UNCHANGED ivars
  BY <1>1, <1>7 DEF ivars
<1>8. CASE INext
  <2>1. L!Next \/ UNCHANGED database
    BY <1>2, <1>3, <1>4, <1>5, <1>6, <1>8 DEF INext, Deliver
  <2>2. QED
    BY <1>1, <2>1, SameSteps
<1>9. QED
  BY <1>7, <1>8

(* No step takes back a completed inbox row. *)
LEMMA CompletedStays ==
    ASSUME IntakeInv, [INext]_ivars, NEW id \in EnvelopeIds, inbox[id] # None
    PROVE  inbox'[id] = inbox[id]
  BY LedgerSteps, LedgerAssumed, LE!InboxStep DEF IntakeInv

(* What a consumer refuses for good was not handled before: it would be completed. *)
LEMMA RefusedIsNew ==
    ASSUME IntakeInv, NEW m \in SqsMessages, Refused(m)
    PROVE  m \notin Range(handled)
  BY Carried DEF IntakeInv, HandledCompleted, Refused

(* Sending and receiving, heartbeats, deletions and crashes. *)
LEMMA DeliverySteps ==
    ASSUME Deliver
    PROVE  C!Next /\ handled' = handled
  BY DEF Deliver, C!Next, C!Work, C!Send, C!Redrive, C!Expire, C!Receive, C!AcceptEnvelope, C!Beat,
         C!BeatLate, C!DeleteMessage, C!ScheduleRetry, C!ReleaseMessage, C!Shutdown, C!Crash,
         C!Restart

(* A step of the composition is a step of the consumers, or leaves them alone. *)
LEMMA ConsumerSteps ==
    ASSUME IntakeInv, [INext]_ivars
    PROVE  C!Next \/ UNCHANGED queue
<1>1. ASSUME NEW c \in Consumers, Succeed(c) PROVE C!Next
  BY <1>1 DEF Succeed, C!Next, C!Work
<1>2. ASSUME NEW c \in Consumers, FailForNow(c) PROVE C!Next
  BY <1>2 DEF FailForNow, C!Next, C!Work, C!ProcessFails
<1>3. ASSUME NEW c \in Consumers, LoseAnswer(c) PROVE C!Next
  BY <1>3 DEF LoseAnswer, C!Next, C!Work, C!ProcessFails
<1>4. ASSUME NEW c \in Consumers, Refuse(c) PROVE C!Next
  <2>1. consumer[c].msg \notin Range(handled)
    BY <1>4, Processing, RefusedIsNew DEF Refuse, C!FailWith
  <2>2. C!ProcessFails(c)
    BY <1>4, <2>1 DEF Refuse, C!ProcessFails, Range, C!Range
  <2>3. QED
    BY <2>2 DEF C!Next, C!Work
<1>5. CASE UNCHANGED ivars
  BY <1>5 DEF ivars
<1>6. QED
  BY <1>1, <1>2, <1>3, <1>4, <1>5, DeliverySteps DEF INext

(* Whatever becomes handled is completed in the same step. *)
LEMMA HandledKept ==
    ASSUME IntakeInv, [INext]_ivars
    PROVE  HandledCompleted'
<1>1. envelope \in Plans /\ envelope' = envelope /\ HandledCompleted
  BY DEF IntakeInv, INext, ivars
<1>2. ASSUME NEW m \in SqsMessages, m \in Range(handled)
      PROVE  inbox'[envelope[m].id] = envelope[m].cmd
  BY <1>1, <1>2, Carried, CompletedStays DEF HandledCompleted
<1>3. CASE handled' = handled
  BY <1>1, <1>2, <1>3 DEF HandledCompleted
<1>4. ASSUME NEW c \in Consumers, Succeed(c) \/ LoseAnswer(c) PROVE HandledCompleted'
  <2> DEFINE n == consumer[c].msg
  <2>1. n \in SqsMessages /\ C!Commit(n) /\ Commit(n)
    BY <1>4, Processing DEF Succeed, LoseAnswer, C!ProcessSucceeds, C!FailWith
  <2> HIDE DEF n
  <2>2. SQ!Commit(n) /\ SQ!TypeOK
    BY <2>1 DEF C!Commit, SQ!Commit, C!Range, SQ!Range, IntakeInv, SQ!IInv
  <2>3. Range(handled') = Range(handled) \cup {n}
    BY <2>1, <2>2, QueueAssumed, SQ!CommitRange DEF Range, SQ!Range
  <2>4. QED
    BY <1>1, <1>2, <2>1, <2>3, CommitCompletes DEF HandledCompleted
<1>5. QED
  BY <1>3, <1>4, DeliverySteps DEF INext, ivars, queue, Refuse, FailForNow

(* A fresh queue and an empty database. *)
LEMMA InitIntake == IInit => IntakeInv
<1> SUFFICES ASSUME IInit PROVE IntakeInv
  OBVIOUS
<1>1. SQ!IInv
  BY QueueAssumed, SameConsumers, SQ!InitIInv DEF IInit
<1>2. LE!IInv
  BY LedgerAssumed, SameWrites, LE!InitKeeps DEF IInit
<1>3. HandledCompleted
  BY DEF IInit, C!Init, HandledCompleted, Range
<1>4. QED
  BY <1>1, <1>2, <1>3 DEF IInit, IntakeInv

(* Every step keeps the invariants of both parts, and what was handled stays completed. *)
LEMMA NextIntake == IntakeInv /\ [INext]_ivars => IntakeInv'
<1> SUFFICES ASSUME IntakeInv, [INext]_ivars PROVE IntakeInv'
  OBVIOUS
<1>1. [SQ!Next]_SQ!vars
  BY ConsumerSteps, SameConsumers DEF queue, SQ!vars
<1>2. SQ!IInv'
  BY <1>1, QueueAssumed, SQ!NextIInv DEF IntakeInv
<1>3. LE!IInv'
  BY LedgerSteps, LedgerAssumed, LE!NextKeeps DEF IntakeInv
<1>4. envelope' \in Plans
  BY DEF IntakeInv, INext, ivars
<1>5. QED
  BY <1>2, <1>3, <1>4, HandledKept DEF IntakeInv

(* So it holds of every reachable state. *)
LEMMA IntakeInvariant == ISpec => []IntakeInv
  BY InitIntake, NextIntake, PTL DEF ISpec

-----------------------------------------------------------------------------
(* Part 3: both parts are implemented, and what follows from theirs. *)

(* Beside the database, the queue and its consumers do what SqsConsumer says: in particular
   a message that was handled is never refused for good at a later delivery. *)
THEOREM ConsumersAsSpecified == ISpec => ConsumerSpec
<1>1. IInit => C!Init
  BY DEF IInit
<1>2. IntakeInv /\ [INext]_ivars => [C!Next]_C!vars
  BY ConsumerSteps DEF queue, C!vars
<1>3. QED
  BY <1>1, <1>2, IntakeInvariant, PTL DEF ISpec, ConsumerSpec, C!Spec

(* Behind the queue, the database does what WagerLedger says. *)
LEMMA LedgerAsSpecified == ISpec => LE!Spec
<1>1. IInit => LE!Init
  BY SameWrites DEF IInit
<1>2. IntakeInv /\ [INext]_ivars => [LE!Next]_LE!vars
  BY LedgerSteps
<1>3. QED
  BY <1>1, <1>2, IntakeInvariant, PTL DEF ISpec, LE!Spec

(* A message is deleted only when its inbox row is completed with its payload and its
   transaction is stored; and a handled one stays recognisable wherever it goes. *)
THEOREM DeletionIsDurable == ISpec => []HandledIsDurable
<1>1. IntakeInv /\ LE!InboxBacked => HandledIsDurable
  <2> SUFFICES ASSUME IntakeInv, LE!InboxBacked, NEW m \in SqsMessages,
                      msg[m].place = "deleted" \/ m \in Range(handled)
               PROVE  /\ inbox[envelope[m].id] = envelope[m].cmd
                      /\ \E id \in TxIds : rows[id].cmd = envelope[m].cmd
    BY DEF HandledIsDurable
  <2>1. m \in Range(handled)
    BY DEF IntakeInv, SQ!IInv, SQ!DeletedHandled, SQ!Range, Range
  <2>2. inbox[envelope[m].id] = envelope[m].cmd
    BY <2>1 DEF IntakeInv, HandledCompleted
  <2>3. envelope[m].id \in EnvelopeIds /\ envelope[m].cmd # None
    BY Carried DEF IntakeInv
  <2>4. QED
    BY <2>2, <2>3 DEF LE!InboxBacked, LE!TxIds, TxIds
<1>2. LE!Spec => []LE!InboxBacked
  BY LedgerAssumed, LE!CompletedHasTransaction
<1>3. QED
  BY <1>1, <1>2, LedgerAsSpecified, IntakeInvariant, PTL

(* All messages and requests for one command have one effect together: one entry if the
   transaction moves money and none otherwise. *)
THEOREM EffectOfAllDeliveries == ISpec => []OneEffect
<1>1. IntakeInv /\ LE!EffectExactlyOnce => OneEffect
  <2> SUFFICES ASSUME IntakeInv, LE!EffectExactlyOnce, NEW m \in SqsMessages,
                      NEW c, c = envelope[m].cmd, rows[c.ext].cmd = c
               PROVE  Cardinality({i \in DOMAIN ledger[c.wallet] : ledger[c.wallet][i].tx = c.ext})
                        = IF L!MovementOf(rows[c.ext]) = "NONE" THEN 0 ELSE 1
    BY DEF OneEffect
  <2> DEFINE l == ledger[c.wallet]
             entries == {i \in DOMAIN l : l[i].tx = c.ext}
  <2>1. c.wallet \in WalletIds /\ c.ext \in LE!TxIds
    BY Carried DEF IntakeInv, Command, LE!TxIds
  <2>2. l \in Seq(LE!Entry) /\ DOMAIN l = 1 .. Len(l)
    BY <2>1 DEF IntakeInv, LE!IInv, LE!TypeOK
  <2>3. CASE LE!MovementOf(rows[c.ext]) # "NONE"
    <3> DEFINE own == ledger[rows[c.ext].cmd.wallet]
               its == {i \in 1 .. Len(own) : own[i].tx = c.ext}
    <3>1. LE!Cardinality(its) = 1
      BY <2>1, <2>3 DEF LE!EffectExactlyOnce
    <3>2. entries = its
      BY <2>2
    <3>3. Cardinality(entries) = 1
      BY <3>1, <3>2, SameCardinality
    <3>4. QED
      BY <2>3, <3>3, SameTables
  <2>4. CASE LE!MovementOf(rows[c.ext]) = "NONE"
    <3>1. ASSUME NEW i \in 1 .. Len(l) PROVE l[i].tx # c.ext
      <4>1. l[i] \in LE!Entry
        BY <2>2, <3>1
      <4>2. LE!MovementOf(rows[l[i].tx]) = l[i].direction
        BY <2>1, <3>1 DEF LE!EffectExactlyOnce
      <4>3. QED
        BY <2>4, <4>1, <4>2 DEF LE!Entry
    <3>2. entries = {}
      BY <2>2, <3>1
    <3>3. QED
      BY <2>4, <3>2, SameTables, FS_EmptySet
  <2>5. QED
    BY <2>3, <2>4
<1>2. LE!Spec => []LE!EffectExactlyOnce
  BY LedgerAssumed, LE!EffectIsExactlyOnce
<1>3. QED
  BY <1>1, <1>2, LedgerAsSpecified, IntakeInvariant, PTL

-----------------------------------------------------------------------------
(* Part 4: refusals. *)

(* The policy of a command is the same in both. *)
LEMMA SameValid == \A c : ValidCommand(c) <=> LE!ValidCommand(c)
  BY DEF ValidCommand, LE!ValidCommand, ExternalKinds, LE!ExternalKinds, Reversals, LE!Reversals

(* The tables from here on: a row keeps its command, an inserted one had a free key, a
   free external id and a valid policy, and rows and wallets stay. *)
LEMMA TablesKept ==
    ASSUME IntakeInv, [INext]_ivars
    PROVE  /\ \A id \in TxIds : rows'[id].cmd # rows[id].cmd =>
                 /\ rows[id].cmd.key = None
                 /\ \/ rows'[id].cmd.key = None
                    \/ LET d == rows'[id].cmd
                       IN  /\ \A s \in TxIds : rows[s].cmd.key # d.key
                           /\ rows[d.ext].status = "NONE" /\ ValidCommand(d)
           /\ \A id \in TxIds : rows[id].status # "NONE" => rows'[id].status # "NONE"
           /\ \A w \in WalletIds : L!Exists(w) => L!Exists(w)'
<1>1. /\ LE!IInv /\ [LE!Next]_LE!vars /\ LE!DomainAssumption /\ LE!LedgerAssumption
      /\ TxIds = LE!TxIds
  BY LedgerSteps, LedgerAssumed DEF IntakeInv, TxIds, LE!TxIds
<1>2. ASSUME NEW id \in LE!TxIds, rows'[id].cmd # rows[id].cmd
      PROVE  /\ rows[id].cmd.key = None
             /\ \/ rows'[id].cmd.key = None
                \/ LET d == rows'[id].cmd
                   IN  /\ \A s \in LE!TxIds : rows[s].cmd.key # d.key
                       /\ rows[d.ext].status = "NONE" /\ ValidCommand(d)
  BY <1>1, <1>2, LE!RowsAppear, SameValid DEF LE!KeyIsFree, LE!ExternalIdIsFree
<1>3. \A id \in LE!TxIds : rows[id].status # "NONE" => rows'[id].status # "NONE"
  BY <1>1, LE!RowsRemain
<1>4. \A w \in WalletIds : L!Exists(w) => L!Exists(w)'
  BY <1>1, LE!WalletsStay DEF L!Exists, LE!Exists
<1>5. QED
  BY <1>1, <1>2, <1>3, <1>4

(* An inbox row is completed by a command whose row exists, or is inserted now. *)
LEMMA Completes ==
    ASSUME IntakeInv, [INext]_ivars, NEW id \in EnvelopeIds, inbox'[id] # inbox[id]
    PROVE  \E d \in AllCommands :
              /\ inbox'[id] = d
              /\ \/ \E s \in TxIds : rows[s].cmd = d
                 \/ /\ \A s \in TxIds : rows[s].cmd.key # d.key
                    /\ rows[d.ext].status = "NONE" /\ ValidCommand(d)
<1>1. /\ LE!IInv /\ [LE!Next]_LE!vars /\ LE!DomainAssumption /\ LE!LedgerAssumption
      /\ TxIds = LE!TxIds
  BY LedgerSteps, LedgerAssumed DEF IntakeInv, TxIds, LE!TxIds
<1>2. PICK d \in AllCommands :
        /\ inbox'[id] = d
        /\ (\E s \in LE!TxIds : rows'[s] = rows[s] /\ rows[s].cmd = d) \/ LE!Accept(d, id)
  BY <1>1, LE!InboxStep DEF AllCommands
<1>3. QED
  BY <1>1, <1>2, SameValid DEF LE!Accept, LE!KeyIsFree, LE!ExternalIdIsFree

(* A key or an external id that is taken stays taken, and whoever takes the key later does
   so with another payload. *)
LEMMA RefusalKept ==
    ASSUME IntakeInv, [INext]_ivars, NEW m \in SqsMessages, Refused(m)
    PROVE  Refused(m)'
<1> DEFINE e == envelope[m]
           c == e.cmd
           Taken == \E id \in TxIds : rows[id].cmd.key = c.key
           Spent == Taken /\ \A id \in TxIds : rows[id].cmd # c
           Conflict == ~ Taken /\ rows[c.ext].status # "NONE"
           Invalid == ~ Taken /\ L!Exists(c.wallet) /\ ~ ValidCommand(c)
<1>1. envelope' = envelope
  BY DEF INext, ivars
<1>2. /\ e.id \in EnvelopeIds /\ c \in Command /\ c # None
      /\ c.key # None /\ c.ext \in TxIds /\ c.wallet \in WalletIds
  BY Carried, DomainAssumption DEF IntakeInv, Command, TxIds
<1>3. Refused(m) <=> \/ inbox[e.id] \notin {None, c}
                     \/ inbox[e.id] = None /\ (Spent \/ Conflict \/ Invalid)
  BY DEF Refused, L!SamePayload, L!ExternalIdIsFree
<1>4. Refused(m)' <=> \/ inbox'[e.id] \notin {None, c}
                      \/ inbox'[e.id] = None /\ (Spent \/ Conflict \/ Invalid)'
  BY <1>1 DEF Refused, L!SamePayload, L!ExternalIdIsFree
<1>5. CASE inbox[e.id] # None
  BY <1>2, <1>3, <1>4, <1>5, CompletedStays
<1>6. CASE inbox[e.id] = None /\ inbox'[e.id] # None
  <2>1. inbox'[e.id] # c
    BY <1>2, <1>3, <1>6, Completes
  <2>2. QED
    BY <1>4, <1>6, <2>1
<1>7. CASE inbox[e.id] = None /\ inbox'[e.id] = None
  <2>1. CASE Spent
    <3>1. Taken'
      <4>1. PICK id \in TxIds : rows[id].cmd.key = c.key
        BY <2>1
      <4>2. rows'[id].cmd = rows[id].cmd
        BY <1>2, <4>1, TablesKept
      <4>3. QED
        BY <1>1, <4>1, <4>2 DEF TxIds
    <3>2. \A id \in TxIds : rows'[id].cmd # c
      BY <1>2, <2>1, TablesKept
    <3>3. QED
      BY <1>1, <1>4, <1>7, <3>1, <3>2
  <2>2. CASE Conflict \/ Invalid
    <3>1. rows'[c.ext].status # "NONE" \/ (L!Exists(c.wallet)' /\ ~ ValidCommand(c))
      BY <1>1, <1>2, <2>2, TablesKept DEF L!Exists
    <3>2. \A id \in TxIds : rows'[id].cmd # c
      BY <1>2, <2>2, TablesKept
    <3>3. CASE Taken'
      BY <1>1, <1>4, <1>7, <3>2, <3>3
    <3>4. CASE ~ Taken'
      BY <1>1, <1>4, <1>7, <3>1, <3>4
    <3>5. QED BY <3>3, <3>4
  <2>3. QED
    BY <1>3, <1>7, <2>1, <2>2
<1>8. QED
  BY <1>5, <1>6, <1>7

(* What Process refuses for good it would refuse at every later delivery. *)
THEOREM RefusalsAreFinal == ISpec => RefusalIsFinal
<1>1. IntakeInv /\ [INext]_ivars
        => [\A m \in SqsMessages : Refused(m) => Refused(m)']_ivars
  BY RefusalKept
<1>2. QED
  BY <1>1, IntakeInvariant, PTL DEF ISpec, RefusalIsFinal

-----------------------------------------------------------------------------
(* Part 5: no needless wait, from the order of the queue and the rows of the ledger. *)

(* The invariants that the two proofs have beside those of part 2. *)
LEMMA PartsInvariant == ISpec => [](SQ!OrderInv /\ LE!InboxBacked /\ LE!KeyedByExternalId)
<1>1. IInit => SQ!Init
  BY SameConsumers DEF IInit
<1>2. IntakeInv /\ [INext]_ivars => [SQ!Next]_SQ!vars
  BY ConsumerSteps, SameConsumers DEF queue, SQ!vars
<1>3. ISpec => SQ!Spec
  BY <1>1, <1>2, IntakeInvariant, PTL DEF ISpec, SQ!Spec
<1>4. SQ!Spec => []SQ!OrderInv
  BY QueueAssumed, SQ!OrderInvariance
<1>5. LE!Spec => []LE!InboxBacked
  BY LedgerAssumed, LE!CompletedHasTransaction
<1>6. LE!Spec => []LE!KeyedByExternalId
  BY LedgerAssumed, LE!NamedInvariant
<1>7. QED
  BY <1>3, <1>4, <1>5, <1>6, LedgerAsSpecified, PTL

(* What becomes handled is committed by the consumer that holds it. *)
LEMMA HandledByItsHolder ==
    ASSUME IntakeInv, [INext]_ivars, NEW m \in SqsMessages,
           m \notin Range(handled), m \in Range(handled')
    PROVE  Commit(m) /\ \E k \in Consumers : SQ!Holds(k, m)
<1>1. PICK k \in Consumers : Succeed(k) \/ LoseAnswer(k)
  BY DeliverySteps DEF INext, ivars, queue, Refuse, FailForNow
<1> DEFINE n == consumer[k].msg
<1>2. n \in SqsMessages /\ C!Commit(n) /\ Commit(n) /\ C!At(k, "process")
  BY <1>1, Processing DEF Succeed, LoseAnswer, C!ProcessSucceeds, C!FailWith
<1>3. SQ!Holds(k, n)
  BY <1>2 DEF SQ!Holds, SQ!At, C!At
<1> HIDE DEF n
<1>4. SQ!Commit(n) /\ SQ!TypeOK
  BY <1>2 DEF C!Commit, SQ!Commit, C!Range, SQ!Range, IntakeInv, SQ!IInv
<1>5. Range(handled') = Range(handled) \cup {n}
  BY <1>2, <1>4, QueueAssumed, SQ!CommitRange DEF Range, SQ!Range
<1>6. n = m
  BY <1>5
<1>7. QED
  BY <1>2, <1>3, <1>6

(* A handled message has its transaction in the row that its external id names. *)
LEMMA HandledRow ==
    ASSUME IntakeInv, LE!InboxBacked, LE!KeyedByExternalId, NEW d \in SqsMessages, d \in Range(handled)
    PROVE  LET r == envelope[d].cmd
           IN  /\ r.ext \in ExternalIds /\ r.ext # None
               /\ rows[r.ext].cmd = r
               /\ rows[r.ext].status \notin {"NONE", "PENDING"}
<1> DEFINE r == envelope[d].cmd
<1>1. /\ envelope[d].id \in EnvelopeIds /\ r # None /\ r \in Command
      /\ inbox[envelope[d].id] = r
  BY Carried DEF IntakeInv, HandledCompleted
<1>2. r.key # None /\ r.ext \in ExternalIds /\ r.ext # None
  BY <1>1, DomainAssumption DEF Command
<1>3. PICK id \in LE!TxIds : rows[id].cmd = r
  BY <1>1 DEF LE!InboxBacked
<1>4. id = r.ext
  BY <1>2, <1>3 DEF LE!KeyedByExternalId
<1>5. rows[id].status # "PENDING" /\ (rows[id].status = "NONE" => rows[id] = LE!NoRow)
  BY DEF IntakeInv, LE!IInv, LE!RowShape
<1>6. LE!NoRow.cmd.key = None
  BY DEF LE!NoRow, LE!FreshRow, LE!OpeningCommand
<1>7. QED
  BY <1>2, <1>3, <1>4, <1>5, <1>6

(* A new transaction waits for a row of its own wallet only while that row waits: under the
   lock of the wallet it is read as it is. *)
LEMMA WaitsForReference ==
    ASSUME IntakeInv, NEW m \in SqsMessages, Commit(m), NEW c, c = envelope[m].cmd,
           ~ L!Pending(c.ext), L!Pending(c.ext)',
           rows[c.ref].cmd.wallet = c.wallet, rows[c.ref].status \notin {"NONE", "PENDING"}
    PROVE  L!Pending(c.ref)
<1>1. c \in AllCommands
  BY Carried DEF IntakeInv
<1>2. rows' # rows
  BY DEF L!Pending
<1>3. L!Accept(c, envelope[m].id)
  BY <1>2 DEF Commit, L!Replay, database
<1>4. LE!Accept(c, envelope[m].id) /\ LE!Pending(c.ext)' /\ LE!IInv
  BY <1>3, SameAccept DEF L!Pending, LE!Pending, IntakeInv
<1>5. c.ref # None /\ \E ref \in LE!ReferenceViews(c) : LE!ReferenceIsPending(ref)
  BY <1>1, <1>4, LedgerAssumed, LE!NewWaits DEF AllCommands
<1>6. LE!ReferenceIsPending(rows[c.ref])
  BY <1>5 DEF LE!ReferenceViews, LE!RowOf
<1>7. QED
  BY <1>6 DEF LE!ReferenceIsPending, L!Pending

(* A transaction sent behind its reference in the group of their wallet waits, when it is
   handled, only if the reference was given up to the DLQ or waits itself: FIFO delivery
   per group, kept through redeliveries and overlapping consumers, leaves nothing else. *)
THEOREM NothingWaitsInVain == ISpec => NoNeedlessWait
<1> DEFINE Justified == \A d, m \in SqsMessages :
              LET c == envelope[m].cmd
                  r == envelope[d].cmd
              IN  /\ Group(d) = Group(m) /\ C!Before(sent, d, m)
                  /\ c.ref = r.ext /\ c.wallet = r.wallet
                  /\ m \notin Range(handled) /\ m \in Range(handled')
                  /\ ~ L!Pending(c.ext) /\ L!Pending(c.ext)'
                  => msg[d].place = "dlq" \/ L!Pending(c.ref)
<1>1. IntakeInv /\ SQ!OrderInv /\ LE!InboxBacked /\ LE!KeyedByExternalId /\ [INext]_ivars
        => [Justified]_ivars
  <2> SUFFICES ASSUME IntakeInv, SQ!OrderInv, LE!InboxBacked, LE!KeyedByExternalId, [INext]_ivars
               PROVE  Justified
    OBVIOUS
  <2>1. envelope' = envelope
    BY DEF INext, ivars
  <2>2. ASSUME NEW d \in SqsMessages, NEW m \in SqsMessages,
               NEW c, c = envelope[m].cmd, NEW r, r = envelope[d].cmd,
               Group(d) = Group(m), C!Before(sent, d, m), c.ref = r.ext, c.wallet = r.wallet,
               m \notin Range(handled), m \in Range(handled'),
               ~ L!Pending(c.ext), L!Pending(c.ext)'
        PROVE  msg[d].place = "dlq" \/ L!Pending(c.ref)
    <3>1. Commit(m) /\ \E k \in Consumers : SQ!Holds(k, m)
      BY <2>2, HandledByItsHolder
    <3>2. SQ!Settled(d)
      BY <2>2, <3>1 DEF SQ!OrderInv, SQ!PredecessorsSettled, C!Before, SQ!Before
    <3>3. ASSUME d \in Range(handled) PROVE L!Pending(c.ref)
      <4>1. rows[c.ref].cmd = r /\ rows[c.ref].status \notin {"NONE", "PENDING"}
        BY <2>2, <3>3, HandledRow
      <4>2. rows[c.ref].cmd.wallet = c.wallet
        BY <2>2, <4>1
      <4>3. QED
        BY <2>2, <3>1, <4>1, <4>2, WaitsForReference
    <3>4. QED
      BY <3>2, <3>3 DEF SQ!Settled, SQ!Range, Range
  <2>3. QED
    BY <2>1, <2>2 DEF L!Pending
<1>2. QED
  BY <1>1, IntakeInvariant, PartsInvariant, PTL DEF ISpec, NoNeedlessWait
=============================================================================
