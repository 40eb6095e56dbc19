---------------------------- MODULE HttpApiProofs ----------------------------
(***************************************************************************)
(* Proofs about the HTTP boundary, for any clients, requests, tables,      *)
(* widths of the integer and number of failures.                           *)
(*                                                                         *)
(* Part 1: money as it enters and leaves: the arithmetic of domain.Money,  *)
(* its parser and its text, for every width and amount.  Part 2: what the  *)
(* handlers check.  Part 3: the ledger behind them; WagerLedger and its    *)
(* proofs are instances here (L and LE), the same modules.  Part 4 is the  *)
(* invariant.  Part 5 looks at every answer once (Given): what it tells is *)
(* recorded, what it refuses was never done.  Part 6: an answer once given *)
(* stays true while the tables move on, and the theorems.                  *)
(***************************************************************************)
EXTENDS HttpApi, TLAPS

LE == INSTANCE WagerLedgerProofs WITH
          Messages <- {}, Commands <- HttpCommands, Openings <- HttpOpenings

-----------------------------------------------------------------------------
(* Part 1: money. *)

(* Money.Add returns the exact sum, or MONEY_OVERFLOW when an int64 cannot hold it:
   no guard lets a sum wrap, and none refuses a sum that fits. *)
THEOREM AddIsExact ==
    ASSUME NEW a \in Money, NEW b \in Money, a.currency = b.currency
    PROVE  Add(a, b) = IF a.minor + b.minor \in Int64 THEN Ok(a.minor + b.minor, a.currency)
                                                      ELSE Failed("MONEY_OVERFLOW")
<1>1. a.minor \in Int64 /\ b.minor \in Int64 /\ a.currency \in Currencies
  BY DEF Money
<1>2. MaxInt \in Nat
  BY MoneyAssumption
<1>3. Incompatible(a, b) = ""
  BY <1>1 DEF Incompatible
<1>4. Overflows(a, b) <=> a.minor + b.minor \notin Int64
  BY <1>1, <1>2 DEF Overflows, Wrap, Int64, MinInt
<1>5. a.minor + b.minor \in Int64 => Wrap(a.minor + b.minor) = a.minor + b.minor
  BY <1>1, <1>2 DEF Wrap, Int64, MinInt
<1>6. QED
  BY <1>3, <1>4, <1>5 DEF Add

(* Money.Subtract returns the exact difference or MONEY_OVERFLOW; it also refuses to
   take MinInt64, whose negation it needs, even where the difference would fit. *)
THEOREM SubtractIsExact ==
    ASSUME NEW a \in Money, NEW b \in Money, a.currency = b.currency
    PROVE  Subtract(a, b) =
               IF b.minor # MinInt /\ a.minor - b.minor \in Int64
               THEN Ok(a.minor - b.minor, a.currency) ELSE Failed("MONEY_OVERFLOW")
<1>1. a.minor \in Int64 /\ b.minor \in Int64 /\ b.currency \in Currencies
  BY DEF Money
<1>2. MaxInt \in Nat
  BY MoneyAssumption
<1>3. CASE b.minor = MinInt
  <2>1. Negate(b) = Failed("MONEY_OVERFLOW")
    BY <1>1, <1>3 DEF Negate
  <2>2. Failed("MONEY_OVERFLOW").error # ""
    BY DEF Failed
  <2>3. QED
    BY <1>3, <2>1, <2>2, Zenon DEF Subtract
<1>4. CASE b.minor # MinInt
  <2>1. Wrap(- b.minor) = - b.minor /\ - b.minor \in Int64
    BY <1>1, <1>2, <1>4 DEF Wrap, Int64, MinInt
  <2>2. Negate(b) = Ok(- b.minor, b.currency)
    BY <1>1, <1>4, <2>1 DEF Negate
  <2> DEFINE n == [minor |-> - b.minor, currency |-> b.currency]
  <2>3. Negate(b).error = "" /\ Negate(b).money = n
    <3>1. Ok(- b.minor, b.currency).error = "" /\ Ok(- b.minor, b.currency).money = n
      BY DEF Ok
    <3>2. QED
      BY <2>2, <3>1, Zenon
  <2>4. n \in Money /\ a.currency = n.currency /\ a.minor + n.minor = a.minor - b.minor
    BY <1>1, <1>2, <2>1 DEF Money, Int64, MinInt
  <2>5. Add(a, n) = IF a.minor - b.minor \in Int64 THEN Ok(a.minor - b.minor, a.currency)
                                                   ELSE Failed("MONEY_OVERFLOW")
    <3> HIDE DEF n
    <3> QED
      BY <2>4, AddIsExact
  <2>6. QED
    BY <1>4, <2>3, <2>5, Zenon DEF Subtract
<1>5. QED
  BY <1>3, <1>4

(* The parts of an absolute value, and back. *)
LEMMA MajorAndCents ==
    ASSUME NEW n \in Nat
    PROVE  /\ n \div 100 \in Nat /\ n % 100 \in 0 .. 99
           /\ ((n \div 100) * 100) + (n % 100) = n
  BY SMT

(* Dividing a value put together from its parts gives the parts. *)
LEMMA PartsOfSum ==
    ASSUME NEW major \in Nat, NEW cents \in 0 .. 99
    PROVE  /\ (major * 100) + cents \in Nat
           /\ ((major * 100) + cents) \div 100 = major
           /\ ((major * 100) + cents) % 100 = cents
  BY SMT

(* The bound of the parser is the bound on the value it returns. *)
LEMMA BoundOfParts ==
    ASSUME NEW major \in Nat, NEW cents \in 0 .. 99, NEW maximum \in Nat, maximum >= 99
    PROVE  major > (maximum - cents) \div 100 <=> (major * 100) + cents > maximum
  BY SMT

(* The test of parseNonNegativeMinor refuses exactly the texts above its limit. *)
LEMMA ExceedsIsExact ==
    ASSUME NEW text \in Text, NEW maximum \in Nat, maximum >= 99
    PROVE  Exceeds(text, maximum) <=> MinorOf(text) > maximum
<1>1. text.major \in Nat /\ text.cents \in 0 .. 99
  BY DEF Text
<1>2. QED
  BY <1>1, BoundOfParts, Zenon DEF Exceeds, MinorOf

(* A text that ParseMoney accepts, and the amount it returns. *)
LEMMA Accepted ==
    ASSUME NEW text \in Text \cup {Malformed}, NEW currency, NEW money,
           ParseMoney(text, currency) = [error |-> "", money |-> money]
    PROVE  /\ currency \in Currencies /\ text \in Text
           /\ ~ text.negative /\ ~ Exceeds(text, MaxInt)
           /\ money = [minor |-> MinorOf(text), currency |-> currency]
  BY DEF ParseMoney, Failed, Ok

(* The value of an accepted text is an int64, MinInt64 only with a sign. *)
LEMMA ValueInRange ==
    ASSUME NEW text \in Text, ~ Exceeds(text, MaxInt)
    PROVE  MinorOf(text) \in 0 .. MaxInt
<1>1. text.major \in Nat /\ text.cents \in 0 .. 99
  BY DEF Text
<1>2. MinorOf(text) \in Nat
  BY <1>1 DEF MinorOf
<1>3. MaxInt \in Nat /\ ~ (MinorOf(text) > MaxInt)
  BY MoneyAssumption, ExceedsIsExact
<1>4. QED
  BY <1>2, <1>3

(* Amount writes the value of an accepted text as that text. *)
LEMMA TextOfValue ==
    ASSUME NEW text \in Text, ~ text.negative, NEW currency
    PROVE  Amount([minor |-> MinorOf(text), currency |-> currency]) = text
<1>1. text.major \in Nat /\ text.cents \in 0 .. 99
  BY DEF Text
<1>2. /\ MinorOf(text) \in Nat
      /\ MinorOf(text) \div 100 = text.major
      /\ MinorOf(text) % 100 = text.cents
  <2>1. MinorOf(text) = (text.major * 100) + text.cents
    BY Zenon DEF MinorOf
  <2> DEFINE major == text.major
             cents == text.cents
  <2>2. /\ (major * 100) + cents \in Nat
        /\ ((major * 100) + cents) \div 100 = major
        /\ ((major * 100) + cents) % 100 = cents
    <3>1. major \in Nat /\ cents \in 0 .. 99
      BY <1>1
    <3> HIDE DEF major, cents
    <3>2. QED
      BY <3>1, PartsOfSum
  <2>3. QED
    BY <2>1, <2>2, Zenon
<1>3. ~ (MinorOf(text) < 0) /\ Absolute(MinorOf(text)) = MinorOf(text)
  BY <1>2 DEF Absolute
<1> DEFINE n == MinorOf(text)
           money == [minor |-> n, currency |-> currency]
<1>4. Amount(money) = [negative |-> FALSE, major |-> text.major, cents |-> text.cents]
  <2>1. money.minor = n
    OBVIOUS
  <2>2. Amount(money) = [negative |-> n < 0, major |-> Absolute(n) \div 100,
                         cents |-> Absolute(n) % 100]
    BY <2>1, Zenon DEF Amount
  <2>3. (n < 0) = FALSE
    BY <1>3
  <2>4. QED
    BY <1>2, <1>3, <2>2, <2>3, Zenon
<1>5. text = [negative |-> FALSE, major |-> text.major, cents |-> text.cents]
  BY DEF Text
<1>6. QED
  BY <1>4, <1>5

(* A parsed amount is never negative and never beyond int64, whatever the text: what
   POST /wallets and both intakes of wagers let in. *)
THEOREM ParsedIsBounded ==
    ASSUME NEW text \in Text \cup {Malformed}, NEW currency, NEW money,
           ParseMoney(text, currency) = [error |-> "", money |-> money]
    PROVE  money \in [minor: 0 .. MaxInt, currency: Currencies]
<1>1. /\ currency \in Currencies /\ text \in Text /\ ~ Exceeds(text, MaxInt)
      /\ money = [minor |-> MinorOf(text), currency |-> currency]
  BY Accepted
<1>2. MinorOf(text) \in 0 .. MaxInt
  BY <1>1, ValueInRange
<1>3. QED
  BY <1>1, <1>2, Zenon

(* Every text accepted at a boundary is the text that Amount gives back for the value:
   one amount has one spelling, so equal payloads hash equally. *)
THEOREM ParseIsCanonical ==
    ASSUME NEW text \in Text \cup {Malformed}, NEW currency, NEW money,
           ParseMoney(text, currency) = [error |-> "", money |-> money]
    PROVE  Amount(money) = text
<1>1. /\ text \in Text /\ ~ text.negative
      /\ money = [minor |-> MinorOf(text), currency |-> currency]
  BY Accepted
<1>2. QED
  BY <1>1, TextOfValue, Zenon

(* UnmarshalJSON reads back every Money that MarshalJSON writes, MinInt64 included. *)
THEOREM AmountRoundTrip ==
    ASSUME NEW money \in Money
    PROVE  UnmarshalJSON(Amount(money), money.currency) = Ok(money.minor, money.currency)
<1> DEFINE n == Absolute(money.minor)
           text == Amount(money)
<1>1. money.minor \in Int64 /\ money.currency \in Currencies
  BY DEF Money
<1>2. MaxInt \in Nat /\ MaxInt >= 99
  BY MoneyAssumption
<1>3. /\ n \in Nat
      /\ money.minor < 0 => n = - money.minor
      /\ ~ (money.minor < 0) => n = money.minor
  BY <1>1, <1>2 DEF Absolute, Wrap, Int64, MinInt
<1>4. /\ text = [negative |-> money.minor < 0, major |-> n \div 100, cents |-> n % 100]
      /\ text \in Text
  <2>1. n \div 100 \in Nat /\ n % 100 \in 0 .. 99
    <3> HIDE DEF n
    <3> QED
      BY <1>3, MajorAndCents
  <2>2. (money.minor < 0) \in BOOLEAN
    OBVIOUS
  <2>3. QED
    BY <2>1, <2>2 DEF Amount, Text
<1>5. text # Malformed
  BY <1>4, MoneyAssumption
<1>6. MinorOf(text) = n
  <2>1. text.major = n \div 100 /\ text.cents = n % 100
    BY <1>4
  <2> HIDE DEF n, text
  <2>2. QED
    BY <1>3, <2>1, MajorAndCents DEF MinorOf
<1>7. text.negative = (money.minor < 0)
  BY <1>4
<1>8. /\ Exceeds(text, MaxInt) <=> n > MaxInt
      /\ Exceeds(text, MaxInt + 1) <=> n > MaxInt + 1
  <2> HIDE DEF n, text
  <2> QED
    BY <1>2, <1>4, <1>6, ExceedsIsExact
<1>9. CASE money.minor < 0
  <2>1. text.negative
    BY <1>7, <1>9
  <2>2. n # 0 /\ ~ (n > MaxInt + 1)
    BY <1>1, <1>2, <1>3, <1>9 DEF Int64, MinInt
  <2>3. (IF n = MaxInt + 1 THEN MinInt ELSE Wrap(- n)) = money.minor
    <3> HIDE DEF n
    <3> QED
      BY <1>1, <1>2, <1>3, <1>9 DEF Wrap, Int64, MinInt
  <2> HIDE DEF n, text
  <2>4. QED
    BY <1>1, <1>5, <1>6, <1>8, <2>1, <2>2, <2>3 DEF UnmarshalJSON, text
<1>10. CASE ~ (money.minor < 0)
  <2>1. ~ text.negative
    BY <1>7, <1>10
  <2>2. ~ (n > MaxInt) /\ n = money.minor
    BY <1>1, <1>2, <1>3, <1>10 DEF Int64, MinInt
  <2> HIDE DEF n, text
  <2>3. QED
    BY <1>1, <1>5, <1>6, <1>8, <2>1, <2>2 DEF UnmarshalJSON, ParseMoney, text
<1>11. QED
  BY <1>9, <1>10

(* Wallet.Credit succeeds exactly where WagerDomain says so, with the balance it says;
   Wallet.Debit subtracts, then refuses a negative balance.  A wallet never reaches
   the overflow of Subtract. *)
THEOREM DomainUsesMoney ==
    ASSUME NEW a \in Money, NEW b \in Money, a.currency = b.currency,
           MaxMinor = MaxInt, a.minor >= 0, b.minor >= 0
    PROVE  /\ Add(a, b) = IF CanCredit(a.minor, b.minor)
                          THEN Ok(a.minor + b.minor, a.currency)
                          ELSE Failed("MONEY_OVERFLOW")
           /\ Subtract(a, b) = Ok(a.minor - b.minor, a.currency)
           /\ CanDebit(a.minor, b.minor) <=> ~ (a.minor - b.minor < 0)
<1>1. a.minor \in 0 .. MaxInt /\ b.minor \in 0 .. MaxInt /\ MaxInt \in Nat
  BY MoneyAssumption DEF Money, Int64, MinInt
<1>2. CanCredit(a.minor, b.minor) <=> a.minor + b.minor \in Int64
  BY <1>1 DEF CanCredit, Int64, MinInt
<1>3. b.minor # MinInt /\ a.minor - b.minor \in Int64
  BY <1>1 DEF Int64, MinInt
<1>4. CanDebit(a.minor, b.minor) <=> ~ (a.minor - b.minor < 0)
  BY <1>1 DEF CanDebit
<1>5. QED
  BY <1>2, <1>3, <1>4, AddIsExact, SubtractIsExact

(* Two parts make a text. *)
LEMMA TextOfParts ==
    ASSUME NEW major \in Nat, NEW cents \in 0 .. 99, NEW text,
           text = [negative |-> FALSE, major |-> major, cents |-> cents]
    PROVE  /\ text \in Text /\ ~ text.negative
           /\ text.major = major /\ text.cents = cents
  BY DEF Text

(* What is stored is read back from the text a client was given, in any currency. *)
LEMMA BalanceReadsBack ==
    ASSUME NEW n \in 0 .. MaxInt, NEW c \in Currencies
    PROVE  LET text == Amount([minor |-> n, currency |-> NoCurrency])
           IN  text \in Text /\ ParseMoney(text, c) = Ok(n, c)
<1> DEFINE money == [minor |-> n, currency |-> c]
           text == Amount(money)
<1>1. MaxInt \in Nat /\ n \in Nat /\ ~ (n < 0)
  BY MoneyAssumption
<1>2. money \in Money /\ money.minor = n /\ money.currency = c
  BY <1>1 DEF Money, Int64, MinInt
<1>3. Amount([minor |-> n, currency |-> NoCurrency]) = text
  BY DEF Amount
<1>4. UnmarshalJSON(text, c) = Ok(n, c)
  <2> HIDE DEF money
  <2> QED BY <1>2, AmountRoundTrip
<1>5. Absolute(n) = n
  BY <1>1 DEF Absolute
<1>6. text = [negative |-> n < 0, major |-> n \div 100, cents |-> n % 100]
  BY <1>2, <1>5, Zenon DEF Amount
<1>7. text \in Text /\ ~ text.negative
  <2>1. n \div 100 \in Nat /\ n % 100 \in 0 .. 99
    BY <1>1, MajorAndCents
  <2>2. text = [negative |-> FALSE, major |-> n \div 100, cents |-> n % 100]
    <3>1. (n < 0) = FALSE
      BY <1>1
    <3>2. QED
      BY <1>6, <3>1
  <2> HIDE DEF text
  <2>3. QED
    BY <2>1, <2>2, TextOfParts
<1> HIDE DEF text
<1>8. text # Malformed
  BY <1>7, MoneyAssumption
<1>9. UnmarshalJSON(text, c) = ParseMoney(text, c)
  BY <1>7, <1>8 DEF UnmarshalJSON
<1>10. QED
  BY <1>3, <1>4, <1>7, <1>9

(* The text of zero is 0.00. *)
LEMMA ZeroText ==
    LET text == Amount([minor |-> 0, currency |-> NoCurrency])
    IN  text \in Text /\ text.major = 0 /\ text.cents = 0
<1>1. Absolute(0) = 0 /\ 0 \div 100 = 0 /\ 0 % 100 = 0 /\ (0 < 0) = FALSE
  BY DEF Absolute
<1>2. Amount([minor |-> 0, currency |-> NoCurrency])
        = [negative |-> FALSE, major |-> 0, cents |-> 0]
  BY <1>1 DEF Amount
<1>3. QED
  BY <1>2, TextOfParts

-----------------------------------------------------------------------------
(* Part 2: checks. *)

(* Errors of the checks themselves, beside those of an amount. *)
HandlerErrors ==
    {"AUTHENTICATION_REQUIRED", "INVALID_TOKEN", "INVALID_TOKEN_CLAIMS",
     "INTERNAL_ROLE_REQUIRED", "PROVIDER_FORBIDDEN", "INVALID_JSON", "INVALID_REQUEST",
     "INVALID_ID", "IDEMPOTENCY_KEY_REQUIRED"}

(* The errors a request can be rejected with. *)
LEMMA ChecksRange ==
    ASSUME NEW r
    PROVE  Checks(r) \in HandlerErrors \cup MoneyErrors \cup {""}
<1>1. \A fails, code : Error(fails, code) \in {code, ""}
  BY DEF Error
<1>2. \A error, next : First(error, next) \in {error, next}
  BY DEF First
<1>3. /\ Authentication(r) \in {"AUTHENTICATION_REQUIRED", "INVALID_TOKEN", "INVALID_TOKEN_CLAIMS", ""}
      /\ Provider(r) \in {"PROVIDER_FORBIDDEN", ""}
      /\ InternalRole(r) \in {"INTERNAL_ROLE_REQUIRED", ""}
      /\ Identifier(r) \in {"INVALID_ID", ""}
      /\ IdempotencyKey(r) \in {"IDEMPOTENCY_KEY_REQUIRED", ""}
  BY <1>1 DEF Authentication, Provider, InternalRole, Identifier, IdempotencyKey
<1>4. Body(r) \in {"INVALID_JSON", "INVALID_REQUEST", ""}
  BY DEF Body, Error, First
<1>5. Price(r) \in MoneyErrors \cup {""}
  BY DEF Price, Parsed, ParseMoney, Failed, Ok, MoneyErrors
<1> DEFINE All == HandlerErrors \cup MoneyErrors \cup {""}
<1>6. /\ Authentication(r) \in All /\ Provider(r) \in All /\ InternalRole(r) \in All
      /\ Identifier(r) \in All /\ IdempotencyKey(r) \in All /\ Body(r) \in All
      /\ Price(r) \in All
  BY <1>3, <1>4, <1>5 DEF HandlerErrors
<1>7. \A error \in All, next \in All : First(error, next) \in All
  BY DEF First
<1> HIDE DEF All
<1>8. Checks(r) \in All
  BY <1>6, <1>7 DEF Checks
<1>9. QED
  BY <1>8 DEF All

(* A wager or a new wallet that passes has an amount: positive or zero, and an int64. *)
LEMMA PassesPriced ==
    ASSUME NEW r \in Request, r.op \in {"wager", "open"}, Passes(r)
    PROVE  Parsed(r).error = ""
<1>1. CASE r.op = "wager"
  <2>1. Checks(r) = First(Authentication(r),
                          First(Body(r), First(Provider(r), First(IdempotencyKey(r), Price(r)))))
    BY <1>1 DEF Checks
  <2>2. QED
    BY <2>1 DEF First, Passes, Price
<1>2. CASE r.op = "open"
  <2>1. Checks(r) = First(Authentication(r), First(InternalRole(r), First(Body(r), Price(r))))
    BY <1>2 DEF Checks
  <2>2. QED
    BY <2>1 DEF First, Passes, Price
<1>3. QED
  BY <1>1, <1>2

LEMMA Priced ==
    ASSUME NEW r \in Request, Parsed(r).error = ""
    PROVE  Parsed(r).money.minor \in Minor
<1>1. r.amount \in Text \cup {Malformed}
  BY DEF Request
<1>2. Parsed(r) = [error |-> "", money |-> Parsed(r).money]
  BY DEF Parsed, ParseMoney, Failed, Ok
<1>3. Parsed(r).money \in [minor: 0 .. MaxInt, currency: Currencies]
  BY <1>1, <1>2, ParsedIsBounded DEF Parsed
<1>4. Parsed(r).money.minor \in 0 .. MaxInt
  BY <1>3
<1>5. QED
  BY <1>4, HttpAssumption DEF Minor

(* The command that is filled from it. *)
LEMMA CommandTyped ==
    ASSUME NEW r \in Request, Parsed(r).error = ""
    PROVE  CommandOf(r) \in Command
<1>1. r.cmd \in Command /\ Parsed(r).money.minor \in Minor
  BY Priced DEF Request
<1>2. QED
  BY <1>1 DEF CommandOf, Command

(* Only its amount differs from the body of the request. *)
LEMMA CommandFields ==
    ASSUME NEW r \in Request
    PROVE  LET c == CommandOf(r)
           IN  /\ c.key = r.cmd.key /\ c.ext = r.cmd.ext /\ c.wallet = r.cmd.wallet
               /\ c.key \in Keys /\ c.ext \in ExternalIds /\ c.wallet \in WalletIds
  BY DEF CommandOf, Request, Command

-----------------------------------------------------------------------------
(* Part 3: the ledger behind the boundary. *)

(* What its proofs assume of the commands and openings holds of what the handlers fill. *)
LEMMA LedgerAssumed == LE!DomainAssumption /\ LE!LedgerAssumption
<1>1. HttpCommands \subseteq Command
  BY CommandTyped, HttpAssumption DEF HttpCommands, WellPriced
<1>2. HttpOpenings \subseteq [wallet: WalletIds, account: Accounts, money: Minor]
  <2> SUFFICES ASSUME NEW r \in WellPriced("open")
               PROVE  r.cmd.account \in Accounts /\ Parsed(r).money.minor \in Minor
    BY DEF HttpOpenings
  <2>1. r \in Request /\ Parsed(r).error = ""
    BY HttpAssumption DEF WellPriced
  <2>2. QED
    BY <2>1, Priced DEF Request, Command
<1>3. QED
  BY <1>1, <1>2, DomainAssumption
  DEF LE!DomainAssumption, LE!LedgerAssumption, Command, LE!Command, ExternalKinds,
      LE!ExternalKinds, Minor, LE!Minor, FailureCodes, LE!FailureCodes

(* L and LE are one module: the rules, the tables and the use cases are the same. *)
LEMMA SameRules ==
    /\ \A t, owner, ref, reversed, balance :
          L!DecideNew(t, owner, ref, reversed, balance)
            = LE!DecideNew(t, owner, ref, reversed, balance)
    /\ \A t, ref, reversed, balance :
          L!DecidePending(t, ref, reversed, balance) = LE!DecidePending(t, ref, reversed, balance)
    /\ \A t, balance : L!DecideFailure(t, balance) = LE!DecideFailure(t, balance)
    /\ \A c : L!ValidCommand(c) <=> LE!ValidCommand(c)
    /\ \A c : L!NewWagerTransaction(c) = LE!NewWagerTransaction(c)
  BY DEF
      L!ExternalKinds, L!Reversals, L!Terminal, L!NoResult, L!OpeningCommand,
      L!FreshRow, L!NoRow, L!NewWagerTransaction, L!ValidCommand,
      L!MarkPendingReference, L!ResolveReference, L!MarkProcessed, L!Reject,
      L!Fail, L!ReferenceIsPending, L!AmountAgrees, L!AlreadyReversed,
      L!ReferenceFailure, L!Direction, L!CanDebit, L!CanCredit, L!Finalize,
      L!Settle, L!DecideNew, L!AttemptsUsed, L!DecidePending, L!DecideFailure,
      LE!ExternalKinds, LE!Reversals, LE!Terminal, LE!NoResult, LE!OpeningCommand,
      LE!FreshRow, LE!NoRow, LE!NewWagerTransaction, LE!ValidCommand,
      LE!MarkPendingReference, LE!ResolveReference, LE!MarkProcessed, LE!Reject,
      LE!Fail, LE!ReferenceIsPending, LE!AmountAgrees, LE!AlreadyReversed,
      LE!ReferenceFailure, LE!Direction, LE!CanDebit, LE!CanCredit, LE!Finalize,
      LE!Settle, LE!DecideNew, LE!AttemptsUsed, LE!DecidePending, LE!DecideFailure

LEMMA SameTables ==
    /\ \A t : L!MovementOf(t) = LE!MovementOf(t)
    /\ \A id : L!Pending(id) <=> LE!Pending(id)
    /\ \A w : L!Exists(w) <=> LE!Exists(w)
    /\ \A c : L!ReferenceViews(c) = LE!ReferenceViews(c)
    /\ \A id : L!SuccessfulReversalExists(id) = LE!SuccessfulReversalExists(id)
    /\ \A id, t : L!Persist(id, t) <=> LE!Persist(id, t)
  BY DEF
      L!Reversals, L!Terminal, L!TxIds, L!Direction, L!NoResult, L!OpeningCommand,
      L!FreshRow, L!NoRow, L!MovementOf, L!RowOf, L!Pending, L!Exists,
      L!ReferenceViews, L!SuccessfulReversalExists, L!Persist, L!Post, L!Emit,
      L!RecordEntry, L!Apply, LE!Reversals, LE!Terminal, LE!TxIds, LE!Direction,
      LE!NoResult, LE!OpeningCommand, LE!FreshRow, LE!NoRow, LE!MovementOf,
      LE!RowOf, LE!Pending, LE!Exists, LE!ReferenceViews,
      LE!SuccessfulReversalExists, LE!Persist, LE!Post, LE!Emit, LE!RecordEntry,
      LE!Apply

LEMMA SameTypes ==
    /\ LE!TxIds = TxIds /\ L!TxIds = TxIds /\ LE!Row = Row /\ LE!Minor = Minor
    /\ LE!NoRow = NoRow /\ LE!NoResult = NoResult /\ LE!Terminal = Terminal
  BY DEF
      TxIds, LE!TxIds, Row, LE!Row, RowCommand, LE!RowCommand, Minor, LE!Minor,
      Statuses, LE!Statuses, Terminal, LE!Terminal, FailureCodes, LE!FailureCodes,
      ExternalKinds, LE!ExternalKinds, NoResult, LE!NoResult, OpeningCommand,
      LE!OpeningCommand, FreshRow, LE!FreshRow, NoRow, LE!NoRow, L!TxIds

LEMMA SameAccept == \A c, m : L!Accept(c, m) => LE!Accept(c, m)
  BY SameRules, SameTables
  DEF L!Accept, LE!Accept, L!KeyIsFree, LE!KeyIsFree, L!ExternalIdIsFree, LE!ExternalIdIsFree,
      L!CompleteInbox, LE!CompleteInbox, L!TxIds, LE!TxIds

LEMMA SameCreate ==
    \A w, account, money : L!CreateWallet(w, account, money) => LE!CreateWallet(w, account, money)
  BY DEF
      L!CreateWallet, L!Exists, L!Pending, L!NewWallet, L!MarkProcessed, L!Emit,
      L!NoResult, L!OpeningCommand, L!FreshRow, L!NoRow, LE!CreateWallet,
      LE!Exists, LE!Pending, LE!NewWallet, LE!MarkProcessed, LE!Emit, LE!NoResult,
      LE!OpeningCommand, LE!FreshRow, LE!NoRow

LEMMA SameInit == L!Init => LE!Init
  BY DEF
      L!Init, L!NoWallet, L!TxIds, L!NoResult, L!OpeningCommand, L!FreshRow,
      L!NoRow, LE!Init, LE!NoWallet, LE!TxIds, LE!NoResult, LE!OpeningCommand,
      LE!FreshRow, LE!NoRow

LEMMA SameNext == L!Next => LE!Next
<1>1. ASSUME NEW id, L!ResolvePendingReference(id) PROVE LE!ResolvePendingReference(id)
  BY <1>1, SameRules, SameTables
  DEF L!ResolvePendingReference, LE!ResolvePendingReference, L!StillPending, LE!StillPending
<1>2. ASSUME NEW id, L!RecordPendingReferenceFailure(id) PROVE LE!RecordPendingReferenceFailure(id)
  BY <1>2, SameRules, SameTables
  DEF L!RecordPendingReferenceFailure, LE!RecordPendingReferenceFailure
<1>3. \A id : L!BackoffElapses(id) => LE!BackoffElapses(id)
  BY DEF L!BackoffElapses, LE!BackoffElapses, L!Pending, LE!Pending
<1>4. QED
  BY <1>1, <1>2, <1>3, SameTypes, SameAccept, SameCreate DEF L!Next, LE!Next

LEMMA SameTotal ==
    \A entries, direction : L!Total(entries, direction) = LE!Total(entries, direction)
  BY DEF L!Total, LE!Total, L!MapThenSumSet, LE!MapThenSumSet, L!MapThenFoldSet, LE!MapThenFoldSet

-----------------------------------------------------------------------------
(* Part 4: the invariant. *)

Stages == {"idle", "sent", "locking", "told", "done"}
Shown == Statuses \cup {"BALANCE", "DIFFERENCE"}
Views == [status: Shown, failure: FailureCodes \cup {None}, balance: Text \cup {None}]
Codes ==
    HandlerErrors \cup
    {"NOT_FOUND", "CONFLICT", "IDEMPOTENCY_PAYLOAD_CONFLICT", "EXTERNAL_TRANSACTION_CONFLICT",
     "TEMPORARY_UNAVAILABLE"}
Errs ==
    HandlerErrors \cup MoneyErrors \cup
    {"", "lost", "unavailable", "ErrNotFound", "ErrConflict", "ErrInvalidTransaction",
     "ErrIdempotencyPayloadConflict", "ErrExternalTransactionConflict"}
Answers == [http: Nat, code: Codes \cup {None}, err: Errs, body: Views \cup {None}]
Calls ==
    [stage: Stages, request: Request \cup {None}, answer: Answers, found: Row,
     taken: BOOLEAN, settled: BOOLEAN]

(* What a client asks, and which answers leave it something to ask again. *)
AsksWell(cl) ==
    /\ call[cl].stage = "idle" => call[cl] = Idle
    /\ call[cl].stage # "idle" =>
          /\ call[cl].request \in Request
          /\ call[cl].request \in Requests \/ call[cl].request.op = "query"
    /\ call[cl].stage \in {"sent", "locking"} => call[cl].answer.http \in {0, 200, 202, 503}

(* A client that is settled has a stored outcome. *)
IsSettled(cl) ==
    LET r == call[cl].request
    IN  call[cl].settled => rows[r.cmd.ext].status \in Terminal /\ rows[r.cmd.ext].cmd = CommandOf(r)

(* Between the read of its row and the wallet lock, a replay holds a row that waits. *)
LocksWaiting(cl) ==
    call[cl].stage = "locking" =>
        /\ call[cl].found.status = "PENDING_REFERENCE"
        /\ call[cl].found.cmd.wallet \in WalletIds
        /\ rows[call[cl].request.cmd.ext].attempts > 0
        /\ ~ call[cl].settled

(* The balance an answer shows. *)
Written(minor) == Amount([minor |-> minor, currency |-> NoCurrency])

(* What was told is stored: an answer against the row it is about. *)
Tells(a, t) ==
    a.body # None =>
        /\ a.body.status \in Terminal =>
              /\ t.status = a.body.status /\ t.failure = a.body.failure
              /\ a.body.balance = Written(t.result)
        /\ a.body.status = "PENDING_REFERENCE" => t.attempts > 0 /\ a.http \in {200, 202}
        /\ a.body.status = "DIFFERENCE" => a.body.balance.major = 0 /\ a.body.balance.cents = 0

TellsStored(cl) == Tells(call[cl].answer, rows[call[cl].request.cmd.ext])

(* What was told of a wallet. *)
OpensTaken(cl) ==
    /\ call[cl].answer.http = 201 => call[cl].request.op = "open"
    /\ call[cl].answer.http \in {201, 409} /\ call[cl].request.op = "open"
          => AccountTaken(call[cl].request.cmd.account)

GoesOn(cl) ==
    call[cl].stage \in {"told", "done"} /\ call[cl].settled
    /\ call[cl].request.op = "wager" /\ Passes(call[cl].request)
    => \/ call[cl].answer.http \in {0, 503}
       \/ Told(cl) /\ BodyOf(cl).status \in Terminal

OneOpener ==
    \A a, b \in Clients :
        /\ call[a].answer.http = 201 /\ call[b].answer.http = 201
        /\ call[a].request.cmd.account = call[b].request.cmd.account
        => a = b

CallOK(cl) ==
    /\ AsksWell(cl) /\ IsSettled(cl) /\ LocksWaiting(cl)
    /\ TellsStored(cl) /\ OpensTaken(cl) /\ GoesOn(cl)

HttpInv ==
    /\ call \in [Clients -> Calls]
    /\ LE!IInv
    /\ \A cl \in Clients : CallOK(cl)
    /\ OneOpener

(* Before its first request. *)
LEMMA IdleTyped == Idle \in Calls /\ NoAnswer \in Answers
<1>1. NoRow \in Row
  BY LedgerAssumed, SameTypes, LE!NoRowShape
<1>2. NoAnswer \in Answers
  BY DEF NoAnswer, Answers, Errs
<1>3. QED
  BY <1>1, <1>2 DEF Idle, Calls, Stages

(* No client has asked, and the tables are empty. *)
LEMMA InitHttp == HInit => HttpInv
<1> SUFFICES ASSUME HInit PROVE HttpInv
  OBVIOUS
<1>1. LE!IInv
  BY LedgerAssumed, SameInit, LE!InitKeeps DEF HInit
<1>2. \A cl \in Clients : call[cl] = Idle
  BY DEF HInit
<1>3. call \in [Clients -> Calls]
  BY IdleTyped DEF HInit
<1>4. /\ Idle.stage = "idle" /\ Idle.settled = FALSE /\ Idle.answer.http = 0
      /\ Idle.answer.body = None
  BY DEF Idle, NoAnswer
<1>5. OneOpener
  BY <1>2, <1>4 DEF OneOpener
<1>6. ASSUME NEW cl \in Clients PROVE CallOK(cl)
  <2>1. call[cl] = Idle
    BY <1>2
  <2>2. AsksWell(cl) /\ IsSettled(cl) /\ LocksWaiting(cl)
    BY <1>4, <2>1 DEF AsksWell, IsSettled, LocksWaiting
  <2>3. TellsStored(cl)
    BY <1>4, <2>1 DEF TellsStored, Tells
  <2>4. OpensTaken(cl) /\ GoesOn(cl)
    BY <1>4, <2>1 DEF OpensTaken, GoesOn
  <2>5. QED
    BY <2>2, <2>3, <2>4 DEF CallOK
<1>7. QED
  BY <1>1, <1>3, <1>5, <1>6 DEF HttpInv

(* What the ledger's invariant says of a row, in the names of this module. *)
LEMMA RowFacts ==
    ASSUME LE!IInv
    PROVE  /\ rows \in [TxIds -> Row]
           /\ \A w \in WalletIds : wallets[w].balance \in Minor
           /\ \A id \in TxIds :
                 /\ rows[id].status \in Terminal \cup {"NONE", "PENDING_REFERENCE"}
                 /\ rows[id].status = "NONE" => rows[id] = NoRow /\ NoRow.cmd.key = None
                 /\ rows[id].status # "NONE" => rows[id].cmd.wallet \in WalletIds
                 /\ rows[id].status \in Terminal => rows[id].result \in Minor
                 /\ rows[id].status = "PENDING_REFERENCE" =>
                       rows[id].attempts > 0 /\ rows[id].result = NoResult
<1>1. LE!TypeOK /\ LE!RowShape
  BY DEF LE!IInv
<1>2. rows \in [TxIds -> Row]
  BY <1>1, SameTypes DEF LE!TypeOK
<1>3. \A w \in WalletIds : wallets[w].balance \in Minor
  BY <1>1, SameTypes DEF LE!TypeOK, LE!Wallet
<1>4. \A id \in TxIds : rows[id].status \in Statuses
  BY <1>2 DEF Row
<1>5. NoRow.cmd.key = None
  BY LedgerAssumed, SameTypes, LE!NoRowShape
<1>6. QED
  BY <1>1, <1>2, <1>3, <1>4, <1>5, SameTypes DEF LE!RowShape, Statuses

(* A request of the six operations but "query" is one the client may choose. *)
LEMMA Asked ==
    ASSUME HttpInv, NEW cl \in Clients, call[cl].stage # "idle"
    PROVE  /\ call[cl] \in Calls /\ call[cl].request \in Request
           /\ call[cl].request.op # "query" => call[cl].request \in Requests
  BY DEF HttpInv, CallOK, AsksWell

(* Every step is a step of the ledger, or leaves its tables alone. *)
LEMMA LedgerUses ==
    ASSUME HttpInv, [HNext]_hvars
    PROVE  [L!Next]_L!vars
<1>1. ASSUME UNCHANGED database PROVE UNCHANGED L!vars
  BY <1>1 DEF database, L!vars
<1>2. ASSUME NEW cl \in Clients, ProcessWager(cl) PROVE L!Next
  <2> DEFINE r == call[cl].request
  <2>1. /\ L!Accept(CommandOf(r), None) /\ r.op = "wager" /\ Passes(r)
        /\ call[cl].stage = "sent"
    BY <1>2 DEF ProcessWager, Serves, At
  <2>2. r \in Requests /\ r \in Request
    BY <2>1, Asked
  <2>3. CommandOf(r) \in HttpCommands
    BY <2>1, <2>2, PassesPriced DEF HttpCommands, WellPriced
  <2>4. QED
    BY <2>1, <2>3 DEF L!Next
<1>3. ASSUME NEW cl \in Clients, CreateWallet(cl) PROVE L!Next
  <2> DEFINE r == call[cl].request
             money == Parsed(r).money.minor
  <2>1. r.op = "open" /\ Passes(r) /\ call[cl].stage = "sent"
    BY <1>3 DEF CreateWallet, Serves, At
  <2>2. PICK w \in WalletIds : L!CreateWallet(w, r.cmd.account, money)
    BY <1>3 DEF CreateWallet
  <2>3. r \in Requests /\ r \in Request
    BY <2>1, Asked
  <2> DEFINE o == [wallet |-> w, account |-> r.cmd.account, money |-> money]
  <2>4. o \in HttpOpenings
    <3>1. r \in WellPriced("open")
      BY <2>1, <2>3, PassesPriced DEF WellPriced
    <3>2. o \in [wallet: WalletIds, account: {r.cmd.account}, money: {Parsed(r).money.minor}]
      OBVIOUS
    <3> HIDE DEF r, o
    <3>3. QED
      BY <3>1, <3>2 DEF HttpOpenings
  <2>5. L!CreateWallet(o.wallet, o.account, o.money)
    BY <2>2
  <2> HIDE DEF o
  <2>6. QED
    BY <2>4, <2>5 DEF L!Next
<1>4. ASSUME NEW id \in ExternalIds, Elapse(id) \/ Attempt(id) PROVE L!Next
  BY <1>4, SameTypes DEF Elapse, Attempt, L!WorkerAttempt, L!Next, TxIds
<1>5. ASSUME NEW cl \in Clients,
             \/ Start(cl) \/ Repeat(cl) \/ Finish(cl)
             \/ RejectRequest(cl) \/ Unavailable(cl) \/ RefuseWager(cl) \/ ReplayStored(cl)
             \/ LockWallet(cl) \/ RefuseWallet(cl) \/ QueryTransaction(cl) \/ QueryWallet(cl)
      PROVE  UNCHANGED database
  BY <1>5 DEF Start, Repeat, SendRequest, Finish, RejectRequest, Unavailable, RefuseWager,
              ReplayStored, LockWallet, RefuseWallet, QueryTransaction, QueryWallet
<1>6. CASE UNCHANGED hvars
  BY <1>1, <1>6 DEF hvars
<1>7. CASE HNext
  <2>1. L!Next \/ UNCHANGED database
    BY <1>2, <1>3, <1>4, <1>5, <1>7 DEF HNext, Serve
  <2>2. QED
    BY <1>1, <2>1
<1>8. QED
  BY <1>6, <1>7

LEMMA LedgerSteps ==
    ASSUME HttpInv, [HNext]_hvars
    PROVE  [LE!Next]_LE!vars
BY LedgerUses, SameNext DEF L!vars, LE!vars

(* So an outcome, a wait once begun and the owner of a wallet stay. *)
LEMMA TablesStay ==
    ASSUME HttpInv, [HNext]_hvars
    PROVE  /\ LE!IInv'
           /\ \A id \in TxIds :
                 /\ rows[id].status \in Terminal => rows'[id] = rows[id]
                 /\ rows[id].attempts > 0 => rows'[id].attempts > 0
           /\ \A account \in Accounts :
                 AccountTaken(account) => \E w \in WalletIds : wallets'[w].account = account
<1>1. LE!IInv /\ [LE!Next]_LE!vars
  BY LedgerSteps DEF HttpInv
<1>2. LE!IInv'
  BY <1>1, LedgerAssumed, LE!NextKeeps
<1>3. ASSUME NEW id \in TxIds
      PROVE  /\ rows[id].status \in Terminal => rows'[id] = rows[id]
             /\ rows[id].attempts > 0 => rows'[id].attempts > 0
  BY <1>1, LedgerAssumed, SameTypes, LE!RowsKept, LE!WaitsStay
<1>4. ASSUME NEW account \in Accounts, AccountTaken(account)
      PROVE  \E w \in WalletIds : wallets'[w].account = account
  <2>1. PICK w \in WalletIds : wallets[w].account = account
    BY <1>4 DEF AccountTaken
  <2>2. wallets[w].version \in Nat /\ wallets[w].account # None
    BY <1>1, <2>1, DomainAssumption DEF LE!IInv, LE!TypeOK, LE!Wallet
  <2>3. LE!Exists(w)
    BY <1>1, <2>2 DEF LE!IInv, LE!WalletShape, LE!Exists
  <2>4. QED
    BY <1>1, <2>1, <2>3, LedgerAssumed, LE!OwnersStay
<1>5. QED
  BY <1>2, <1>3, <1>4

-----------------------------------------------------------------------------
(* Part 5: answers. *)

(* What holds of an answer when it is given: it is stored, it says of a wallet what is so,
   a settled client is not sent back, and what is refused was not done. *)
Given(cl, a) ==
    LET r == call[cl].request
        t == rows'[r.cmd.ext]
        goes == r.op = "wager" /\ Passes(r)
    IN  /\ a \in Answers
        /\ Tells(a, t)
        /\ a.http = 201 => r.op = "open" /\ ~ AccountTaken(r.cmd.account)
        /\ a.http \in {201, 409} /\ r.op = "open" =>
              \E w \in WalletIds : wallets'[w].account = r.cmd.account
        /\ call[cl].settled /\ goes =>
              a.http \in {0, 503} \/ (a.body # None /\ a.body.status \in Terminal)
        /\ goes /\ a.http \in 400 .. 499 /\ a.body = None =>
              \A id \in TxIds : rows'[id].cmd # CommandOf(r)

(* The step is that answer, and no other client learns of it. *)
IsTold(cl, a) ==
    /\ call' \in [Clients -> Calls]
    /\ \A other \in Clients : other # cl => call'[other] = call[other]
    /\ call'[cl].stage = "told" /\ call'[cl].answer = a
    /\ call'[cl].request = call[cl].request /\ call'[cl].settled = call[cl].settled

Gives(cl, a) ==
    /\ At(cl, "sent") \/ At(cl, "locking")
    /\ Given(cl, a)
    /\ IsTold(cl, a)

(* The client whose request is being served. *)
Served(cl) == cl \in Clients /\ call[cl].stage \in {"sent", "locking"}

(* The status of each problem code. *)
LEMMA CodeStatus ==
    ASSUME NEW code \in Codes
    PROVE  /\ HttpStatus[code] \in 400 .. 503
           /\ code \in HandlerErrors => HttpStatus[code] \in {400, 401, 403}
           /\ HttpStatus[code] = 409 =>
                 code \in {"CONFLICT", "IDEMPOTENCY_PAYLOAD_CONFLICT",
                           "EXTERNAL_TRANSACTION_CONFLICT"}
           /\ code = "TEMPORARY_UNAVAILABLE" => HttpStatus[code] = 503
<1>1. /\ HttpStatus["INVALID_JSON"] = 400 /\ HttpStatus["INVALID_REQUEST"] = 400
      /\ HttpStatus["INVALID_ID"] = 400 /\ HttpStatus["IDEMPOTENCY_KEY_REQUIRED"] = 400
      /\ HttpStatus["AUTHENTICATION_REQUIRED"] = 401 /\ HttpStatus["INVALID_TOKEN"] = 401
      /\ HttpStatus["INVALID_TOKEN_CLAIMS"] = 401 /\ HttpStatus["INTERNAL_ROLE_REQUIRED"] = 403
      /\ HttpStatus["PROVIDER_FORBIDDEN"] = 403
  BY DEF HttpStatus
<1>2. /\ HttpStatus["NOT_FOUND"] = 404 /\ HttpStatus["CONFLICT"] = 409
      /\ HttpStatus["IDEMPOTENCY_PAYLOAD_CONFLICT"] = 409
      /\ HttpStatus["EXTERNAL_TRANSACTION_CONFLICT"] = 409
      /\ HttpStatus["TEMPORARY_UNAVAILABLE"] = 503
  BY DEF HttpStatus
<1>3. code \in HandlerErrors => HttpStatus[code] \in {400, 401, 403}
  BY <1>1 DEF HandlerErrors
<1>4. code \notin HandlerErrors =>
        code \in {"NOT_FOUND", "CONFLICT", "IDEMPOTENCY_PAYLOAD_CONFLICT",
                  "EXTERNAL_TRANSACTION_CONFLICT", "TEMPORARY_UNAVAILABLE"}
  BY DEF Codes
<1>5. CASE code \in HandlerErrors
  BY <1>3, <1>5 DEF HandlerErrors
<1>6. CASE code \notin HandlerErrors
  BY <1>2, <1>4, <1>6
<1>7. QED
  BY <1>5, <1>6

(* writeError has a code for every error. *)
LEMMA WriteErrorCodes ==
    ASSUME NEW err
    PROVE  /\ WriteError(err) \in Codes
           /\ err = "unavailable" => WriteError(err) = "TEMPORARY_UNAVAILABLE"
           /\ err = "ErrConflict" => WriteError(err) = "CONFLICT"
           /\ err = "ErrNotFound" => WriteError(err) = "NOT_FOUND"
           /\ err = "MONEY_OVERFLOW" => WriteError(err) = "TEMPORARY_UNAVAILABLE"
           /\ err \in MoneyErrors => WriteError(err) \in {"INVALID_REQUEST", "TEMPORARY_UNAVAILABLE"}
  BY DEF WriteError, Codes, HandlerErrors, MoneyErrors

(* Silence and failures tell nothing; a refusal does when nothing was done. *)
LEMMA SilenceGiven ==
    ASSUME HttpInv, NEW cl, Served(cl)
    PROVE  Given(cl, NoAnswer)
<1>1. NoAnswer \in Answers /\ NoAnswer.http = 0 /\ NoAnswer.body = None
  BY IdleTyped DEF NoAnswer
<1>2. QED
  BY <1>1 DEF Given, Tells

LEMMA ProblemGiven ==
    ASSUME HttpInv, NEW cl, Served(cl), NEW code \in Codes, NEW err \in Errs,
           call[cl].request.op = "open" /\ code = "CONFLICT" =>
               \E w \in WalletIds : wallets'[w].account = call[cl].request.cmd.account,
           call[cl].request.op = "open" =>
               code \notin {"IDEMPOTENCY_PAYLOAD_CONFLICT", "EXTERNAL_TRANSACTION_CONFLICT"},
           call[cl].request.op = "wager" /\ Passes(call[cl].request) =>
               \/ code = "TEMPORARY_UNAVAILABLE"
               \/ /\ ~ call[cl].settled
                  /\ \A id \in TxIds : rows'[id].cmd # CommandOf(call[cl].request)
    PROVE  Given(cl, Problem(err, code))
<1> DEFINE a == Problem(err, code)
<1>1. a.http = HttpStatus[code] /\ a.body = None
  BY DEF Problem
<1>2. a.http \in 400 .. 503 /\ a.http \in Nat
  BY <1>1, CodeStatus
<1>3. a \in Answers
  BY <1>1, <1>2 DEF Problem, Answers
<1>4. /\ a.http = 409 => code \in {"CONFLICT", "IDEMPOTENCY_PAYLOAD_CONFLICT",
                                   "EXTERNAL_TRANSACTION_CONFLICT"}
      /\ code = "TEMPORARY_UNAVAILABLE" => a.http = 503
  BY <1>1, CodeStatus
<1> HIDE DEF a
<1>5. QED
  BY <1>1, <1>2, <1>3, <1>4 DEF Given, Tells, a

(* A view is typed, and of an outcome it shows the exact balance. *)
LEMMA ViewShape ==
    ASSUME NEW status \in Shown,
           NEW failure \in FailureCodes \cup {None}, NEW minor \in Minor \cup {NoResult}
    PROVE  View(status, failure, minor) \in Views /\ View(status, failure, minor).status = status
<1> DEFINE text == Amount([minor |-> minor, currency |-> NoCurrency])
<1>1. minor # NoResult => text \in Text
  <2>1. PICK c \in Currencies : TRUE
    BY HttpAssumption
  <2>2. minor # NoResult => minor \in 0 .. MaxInt
    BY HttpAssumption DEF Minor
  <2>3. QED
    BY <2>1, <2>2, BalanceReadsBack
<1> HIDE DEF text
<1>2. QED
  BY <1>1 DEF View, Views, text

LEMMA ViewOf ==
    ASSUME NEW status, NEW failure, NEW minor \in Minor
    PROVE  LET text == Written(minor)
           IN  /\ text \in Text
               /\ View(status, failure, minor) =
                     [status |-> status, failure |-> failure, balance |-> text]
<1>1. minor # NoResult
  BY DomainAssumption DEF Minor, NoResult
<1>2. PICK c \in Currencies : TRUE
  BY HttpAssumption
<1>3. Amount([minor |-> minor, currency |-> NoCurrency]) \in Text
  BY <1>2, HttpAssumption, BalanceReadsBack DEF Minor
<1>4. QED
  BY <1>1, <1>3 DEF View, Written

(* A view in an answer. *)
LEMMA SuccessTyped ==
    ASSUME NEW http \in Nat, NEW v \in Views
    PROVE  LET a == Success(http, v)
           IN  a \in Answers /\ a.http = http /\ a.body = v
  BY DEF Success, Answers, Errs

(* A stored outcome, told as it is. *)
LEMMA OutcomeTold ==
    ASSUME NEW a, NEW t, a.body # None, t.status \in Terminal,
           t.status = a.body.status, t.failure = a.body.failure,
           a.body.balance = Written(t.result)
    PROVE  Tells(a, t)
  BY DEF Tells, Terminal

(* The outcome that is stored, by any request that asks for it. *)
LEMMA OutcomeGiven ==
    ASSUME HttpInv, NEW cl, Served(cl), NEW http \in {200, 202, 422, 500}, NEW t \in Row,
           t = rows'[call[cl].request.cmd.ext], t.status \in Terminal, t.result \in Minor
    PROVE  Given(cl, Success(http, View(t.status, t.failure, t.result)))
<1> DEFINE v == View(t.status, t.failure, t.result)
           a == Success(http, v)
<1>1. /\ v \in Views /\ v.status = t.status /\ v.failure = t.failure /\ v # None
      /\ v.balance = Written(t.result)
  <2> DEFINE text == Written(t.result)
  <2> DEFINE status == t.status
             failure == t.failure
             minor == t.result
  <2>1. status \in Shown /\ status \in Terminal /\ failure \in FailureCodes \cup {None}
    BY DEF Row, Shown
  <2>2. minor \in Minor
    OBVIOUS
  <2> HIDE DEF status, failure, minor
  <2>3. View(status, failure, minor) = [status |-> status, failure |-> failure, balance |-> text]
        /\ text \in Text
    BY <2>2, ViewOf DEF minor
  <2>4. v = [status |-> status, failure |-> failure, balance |-> text]
    BY <2>3 DEF status, failure, minor
  <2> HIDE DEF text, v
  <2>5. v \in Views /\ v \in [status: Terminal, failure: FailureCodes \cup {None}, balance: Text]
    BY <2>1, <2>3, <2>4 DEF Views
  <2>6. v # None
    BY <2>5, HttpAssumption
  <2>7. QED
    BY <2>4, <2>5, <2>6 DEF status, failure, text
<1>2. http \in Nat
  OBVIOUS
<1> HIDE DEF v
<1>3. a \in Answers /\ a.http = http /\ a.body = v
  BY <1>1, <1>2, SuccessTyped
<1>4. http # 201 /\ http # 409 /\ ~ (http \in 400 .. 499 /\ a.body = None)
  BY <1>1, <1>3
<1> HIDE DEF a
<1>5. Tells(a, t) /\ a.body # None /\ a.body.status \in Terminal
  BY <1>1, <1>3, OutcomeTold
<1>6. Given(cl, a)
  BY <1>3, <1>4, <1>5 DEF Given
<1>7. QED
  BY <1>6 DEF a, v

(* A wait, told to a client that has no stored outcome yet, or asks by a query. *)
LEMMA WaitGiven ==
    ASSUME HttpInv, NEW cl, Served(cl), NEW http \in {200, 202},
           NEW failure \in FailureCodes \cup {None}, NEW minor \in Minor \cup {NoResult},
           rows'[call[cl].request.cmd.ext].attempts > 0,
           call[cl].request.op = "wager" => ~ call[cl].settled
    PROVE  Given(cl, Success(http, View("PENDING_REFERENCE", failure, minor)))
<1> DEFINE v == View("PENDING_REFERENCE", failure, minor)
           a == Success(http, v)
<1>1. v \in Views /\ v.status = "PENDING_REFERENCE"
  <2>1. "PENDING_REFERENCE" \in Shown
    BY DEF Statuses, Shown
  <2>2. QED
    BY <2>1, ViewShape
<1> HIDE DEF v
<1>2. a \in Answers /\ a.http = http /\ a.body = v
  <2>1. http \in Nat
    OBVIOUS
  <2>2. QED
    BY <1>1, <2>1, SuccessTyped
<1>3. v.status \notin Terminal /\ http \notin 400 .. 499 /\ http # 201
  BY <1>1 DEF Terminal
<1> HIDE DEF a
<1>4. Given(cl, a)
  BY <1>1, <1>2, <1>3 DEF Given, Tells
<1>5. QED
  BY <1>4 DEF a, v

(* A balance, or the difference of a reconciliation, which is none. *)
LEMMA WalletGiven ==
    ASSUME HttpInv, NEW cl, Served(cl), call[cl].request.op # "wager",
           NEW http \in {200, 201}, NEW status \in {"BALANCE", "DIFFERENCE"}, NEW minor \in Minor,
           status = "DIFFERENCE" => minor = 0,
           http = 201 =>
              /\ call[cl].request.op = "open" /\ ~ AccountTaken(call[cl].request.cmd.account)
              /\ \E w \in WalletIds : wallets'[w].account = call[cl].request.cmd.account
    PROVE  Given(cl, Success(http, View(status, None, minor)))
<1> DEFINE v == View(status, None, minor)
           a == Success(http, v)
<1>1. /\ v \in Views /\ v.status = status
      /\ v.balance = Written(minor)
  <2>1. status \in Shown
    BY DEF Shown
  <2>2. QED
    BY <2>1, ViewShape, ViewOf
<1> HIDE DEF v
<1>2. a \in Answers /\ a.http = http /\ a.body = v
  BY <1>1, SuccessTyped
<1>3. status \notin Terminal /\ status # "PENDING_REFERENCE" /\ http # 409
  BY DEF Terminal
<1>4. status = "DIFFERENCE" => v.balance.major = 0 /\ v.balance.cents = 0
  BY <1>1, ZeroText DEF Written
<1> HIDE DEF a
<1>5. Given(cl, a)
  BY <1>1, <1>2, <1>3, <1>4 DEF Given, Tells
<1>6. QED
  BY <1>5 DEF a, v

(* What becomes of an answer on its way is silence, a failure, or that answer. *)
LEMMA AnswerGives ==
    ASSUME HttpInv, NEW cl \in Clients, At(cl, "sent") \/ At(cl, "locking"),
           NEW answer, Given(cl, answer), Answer(cl, answer)
    PROVE  \E a : Gives(cl, a)
<1>1. Served(cl)
  BY DEF Served, At
<1>2. Given(cl, NoAnswer) /\ Given(cl, Refusal("unavailable"))
  <2>1. Refusal("unavailable") = Problem("unavailable", "TEMPORARY_UNAVAILABLE")
    BY WriteErrorCodes DEF Refusal
  <2>2. "TEMPORARY_UNAVAILABLE" \in Codes /\ "unavailable" \in Errs
    BY DEF Codes, Errs
  <2>3. QED
    BY <1>1, <2>1, <2>2, SilenceGiven, ProblemGiven
<1>3. ASSUME NEW a \in Answers,
             call' = [call EXCEPT ![cl].stage = "told", ![cl].answer = a, ![cl].found = NoRow]
      PROVE  IsTold(cl, a)
  <2> DEFINE told == [call[cl] EXCEPT !.stage = "told", !.answer = a, !.found = NoRow]
  <2>1. NoRow \in Row
    BY LedgerAssumed, SameTypes, LE!NoRowShape
  <2>2. call \in [Clients -> Calls] /\ call[cl] \in Calls
    BY DEF HttpInv
  <2>3. told \in Calls
    BY <1>3, <2>1, <2>2 DEF Calls, Stages
  <2>4. /\ told.stage = "told" /\ told.answer = a
        /\ told.request = call[cl].request /\ told.settled = call[cl].settled
    BY <2>2 DEF Calls
  <2>5. call' = [call EXCEPT ![cl] = told]
    BY <1>3, <2>2
  <2> HIDE DEF told
  <2>6. QED
    BY <2>2, <2>3, <2>4, <2>5 DEF IsTold
<1>4. PICK a \in {answer, Refusal("unavailable"), NoAnswer} :
        call' = [call EXCEPT ![cl].stage = "told", ![cl].answer = a, ![cl].found = NoRow]
  BY DEF Answer
<1>5. Given(cl, a)
  BY <1>2, <1>4
<1>6. a \in Answers
  BY <1>5 DEF Given
<1>7. QED
  BY <1>3, <1>4, <1>5, <1>6 DEF Gives

(* A check that fails, and a dependency that does. *)
LEMMA RejectGives ==
    ASSUME HttpInv, NEW cl \in Clients, RejectRequest(cl) \/ Unavailable(cl)
    PROVE  \E a : Gives(cl, a)
<1> DEFINE r == call[cl].request
<1>1. At(cl, "sent") /\ Served(cl)
  BY DEF RejectRequest, Unavailable, Serves, At, Served
<1>2. CASE RejectRequest(cl)
  <2>1. ~ Passes(r) /\ Answer(cl, Rejection(r))
    BY <1>2 DEF RejectRequest
  <2>2. PICK err \in Errs, code \in HandlerErrors \cup {"TEMPORARY_UNAVAILABLE"} :
            Rejection(r) = Problem(err, code)
    <3>1. Checks(r) \in HandlerErrors \cup MoneyErrors
      BY <2>1, ChecksRange DEF Passes
    <3>2. CASE Checks(r) \in MoneyErrors
      <4>1. WriteError(Checks(r)) \in HandlerErrors \cup {"TEMPORARY_UNAVAILABLE"}
        BY <3>2, WriteErrorCodes DEF HandlerErrors
      <4>2. Checks(r) \in Errs /\ Rejection(r) = Problem(Checks(r), WriteError(Checks(r)))
        BY <3>2 DEF Errs, Rejection, Refusal
      <4>3. QED
        BY <4>1, <4>2
    <3>3. CASE Checks(r) \notin MoneyErrors
      BY <3>1, <3>3 DEF Errs, Rejection
    <3>4. QED
      BY <3>2, <3>3
  <2>3. /\ code \in Codes
        /\ code \notin {"CONFLICT", "IDEMPOTENCY_PAYLOAD_CONFLICT", "EXTERNAL_TRANSACTION_CONFLICT"}
    BY DEF Codes, HandlerErrors
  <2>4. Given(cl, Problem(err, code))
    BY <1>1, <2>1, <2>3, ProblemGiven
  <2>5. QED
    BY <1>1, <2>1, <2>2, <2>4, AnswerGives
<1>3. CASE Unavailable(cl)
  <2>1. Refusal("unavailable") = Problem("unavailable", "TEMPORARY_UNAVAILABLE")
    BY WriteErrorCodes DEF Refusal
  <2>2. "TEMPORARY_UNAVAILABLE" \in Codes /\ "unavailable" \in Errs
    BY DEF Codes, Errs
  <2>3. Given(cl, Refusal("unavailable"))
    BY <1>1, <2>1, <2>2, ProblemGiven
  <2> DEFINE a == Refusal("unavailable")
             told == [call[cl] EXCEPT !.stage = "told", !.answer = a]
  <2>4. call \in [Clients -> Calls] /\ call[cl] \in Calls /\ a \in Answers
    BY <2>3 DEF HttpInv, Given
  <2>5. IsTold(cl, a)
    <3>1. call' = [call EXCEPT ![cl] = told]
      BY <1>3, <2>4 DEF Unavailable
    <3> HIDE DEF a
    <3>2. told \in Calls
      BY <2>4 DEF Calls, Stages
    <3>3. /\ told.stage = "told" /\ told.answer = a
          /\ told.request = call[cl].request /\ told.settled = call[cl].settled
      BY <2>4 DEF Calls
    <3> HIDE DEF told
    <3>4. QED
      BY <2>4, <3>1, <3>2, <3>3 DEF IsTold
  <2>6. QED
    BY <1>1, <2>3, <2>5 DEF Gives
<1>4. QED
  BY <1>2, <1>3
(* A client being served has asked something, and its own row is one of the table. *)
LEMMA ServedAsks ==
    ASSUME HttpInv, NEW cl \in Clients, call[cl].stage # "idle"
    PROVE  LET r == call[cl].request
               c == CommandOf(r)
           IN  /\ r \in Request /\ c.ext = r.cmd.ext /\ c.wallet = r.cmd.wallet
               /\ c.ext \in ExternalIds /\ c.ext \in TxIds /\ c.key \in Keys
               /\ c.wallet \in WalletIds /\ r.cmd.account \in Accounts
<1>1. call[cl].request \in Request
  BY Asked
<1>2. call[cl].request.cmd.account \in Accounts
  BY <1>1 DEF Request, Command
<1>3. QED
  BY <1>1, <1>2, CommandFields DEF TxIds

(* An error of Process is one of six, and is only returned when no row has the command. *)
LEMMA RefusedIsUndone ==
    ASSUME NEW c, NEW taken, NEW err \in ProcessErrors(c, taken)
    PROVE  /\ err \in {"ErrIdempotencyPayloadConflict", "ErrExternalTransactionConflict",
                       "ErrConflict", "ErrNotFound", "ErrInvalidTransaction", "MONEY_OVERFLOW"}
           /\ \A id \in TxIds : rows[id].cmd # c
<1>1. CASE ~ L!KeyIsFree(c)
  BY <1>1 DEF ProcessErrors, L!SamePayload
<1>2. CASE L!KeyIsFree(c)
  <2>1. \A id \in TxIds : rows[id].cmd.key # c.key
    BY <1>2, SameTypes DEF L!KeyIsFree
  <2>2. err \in {"ErrExternalTransactionConflict", "ErrConflict", "ErrNotFound",
                 "ErrInvalidTransaction", "MONEY_OVERFLOW"}
    BY <1>2 DEF ProcessErrors
  <2>3. QED
    BY <2>1, <2>2
<1>3. QED
  BY <1>1, <1>2

(* processWager of a new command: its outcome or its wait is in the same commit. *)
LEMMA ProcessGives ==
    ASSUME HttpInv, [HNext]_hvars, NEW cl \in Clients, ProcessWager(cl)
    PROVE  \E a : Gives(cl, a)
<1> DEFINE r == call[cl].request
           c == CommandOf(r)
           t == rows'[c.ext]
           balance == wallets'[c.wallet].balance
<1>1. /\ At(cl, "sent") /\ Served(cl) /\ r.op = "wager" /\ Passes(r)
      /\ L!Accept(c, None) /\ Answer(cl, Result(t, balance)) /\ call[cl].stage # "idle"
  BY DEF ProcessWager, Serves, At, Served
<1>2. /\ r \in Request /\ r \in Requests /\ c.ext = r.cmd.ext /\ c.ext \in TxIds
      /\ c.wallet \in WalletIds
  BY <1>1, ServedAsks, Asked
<1>3. c \in HttpCommands
  BY <1>1, <1>2, PassesPriced DEF HttpCommands, WellPriced
<1>4. /\ t \in Row
      /\ t.status \in Terminal => t.result = balance
      /\ t.status \notin Terminal => t.status = "PENDING_REFERENCE" /\ t.attempts > 0
  <2>1. LE!Accept(c, None) /\ LE!IInv
    BY <1>1, SameAccept DEF HttpInv
  <2> HIDE DEF c
  <2>2. QED
    BY <1>3, <2>1, LedgerAssumed, SameTypes, LE!NewCommitted
<1>5. balance \in Minor
  <2>1. LE!IInv'
    BY TablesStay
  <2>2. QED
    BY <1>2, <2>1, SameTypes DEF LE!IInv, LE!TypeOK, LE!Wallet
<1>6. ~ call[cl].settled
  BY <1>1, <1>2 DEF L!Accept, L!ExternalIdIsFree, HttpInv, CallOK, IsSettled, Terminal
<1> HIDE DEF c
<1>7. Given(cl, Result(t, balance))
  <2>1. t = rows'[call[cl].request.cmd.ext]
    BY <1>2
  <2>2. CASE t.status \in Terminal
    <3> DEFINE http == ResultStatus(t.status)
    <3>1. http \in {200, 202, 422, 500} /\ Served(cl)
      BY <1>1 DEF ResultStatus
    <3>2. t.result \in Minor /\ t.result = balance /\ t \in Row
      BY <1>4, <1>5, <2>2
    <3> HIDE DEF t, balance, http
    <3>3. Given(cl, Success(http, View(t.status, t.failure, t.result)))
      BY <2>1, <2>2, <3>1, <3>2, OutcomeGiven
    <3>4. QED
      BY <3>2, <3>3 DEF Result, http
  <2>3. CASE t.status \notin Terminal
    <3>1. ResultStatus(t.status) = 202 /\ t.status = "PENDING_REFERENCE" /\ t.attempts > 0
      BY <1>4, <2>3 DEF ResultStatus
    <3>2. t.failure \in FailureCodes \cup {None} /\ Served(cl)
      BY <1>1, <1>4 DEF Row
    <3>3. rows'[call[cl].request.cmd.ext].attempts > 0
      BY <2>1, <3>1
    <3> HIDE DEF t, balance
    <3> DEFINE failure == t.failure
    <3> HIDE DEF failure
    <3>4. failure \in FailureCodes \cup {None} /\ balance \in Minor \cup {NoResult}
      BY <1>5, <3>2 DEF failure
    <3>5. Given(cl, Success(202, View("PENDING_REFERENCE", failure, balance)))
      BY <1>6, <3>2, <3>3, <3>4, WaitGiven
    <3>6. QED
      BY <3>1, <3>5 DEF Result, failure
  <2>4. QED
    BY <2>2, <2>3
<1>8. QED
  BY <1>1, <1>7, AnswerGives

(* An error of Process: the command has no row, so its sender had no outcome. *)
LEMMA RefuseGives ==
    ASSUME HttpInv, NEW cl \in Clients, RefuseWager(cl)
    PROVE  \E a : Gives(cl, a)
<1> DEFINE r == call[cl].request
           c == CommandOf(r)
<1>1. /\ At(cl, "sent") /\ Served(cl) /\ r.op = "wager" /\ call[cl].stage # "idle"
      /\ rows' = rows
  BY DEF RefuseWager, Serves, At, Served, database
<1>2. PICK err \in ProcessErrors(c, call[cl].taken) : Answer(cl, Refusal(err))
  BY DEF RefuseWager
<1>3. /\ err \in {"ErrIdempotencyPayloadConflict", "ErrExternalTransactionConflict",
                  "ErrConflict", "ErrNotFound", "ErrInvalidTransaction", "MONEY_OVERFLOW"}
      /\ \A id \in TxIds : rows[id].cmd # c
  BY RefusedIsUndone
<1>4. c.ext = r.cmd.ext /\ c.ext \in TxIds
  BY <1>1, ServedAsks
<1>5. ~ call[cl].settled
  BY <1>3, <1>4 DEF HttpInv, CallOK, IsSettled
<1>6. WriteError(err) \in Codes /\ err \in Errs
  BY <1>3, WriteErrorCodes DEF Errs, MoneyErrors
<1>7. Given(cl, Problem(err, WriteError(err)))
  BY <1>1, <1>3, <1>5, <1>6, ProblemGiven
<1>8. QED
  BY <1>1, <1>2, <1>7, AnswerGives DEF Refusal

(* A replay of a row that waits goes on to the wallet lock. *)
Locks(cl) ==
    LET t == rows[call[cl].request.cmd.ext]
    IN  /\ At(cl, "sent")
        /\ call' = [call EXCEPT ![cl].stage = "locking", ![cl].found = t]
        /\ t \in Row /\ t.status = "PENDING_REFERENCE" /\ t.attempts > 0
        /\ t.cmd.wallet \in WalletIds
        /\ ~ call[cl].settled
        /\ UNCHANGED database

(* A replay of a row with an outcome answers it as it was stored. *)
LEMMA ReplayGives ==
    ASSUME HttpInv, NEW cl \in Clients, ReplayStored(cl)
    PROVE  Locks(cl) \/ \E a : Gives(cl, a)
<1> DEFINE r == call[cl].request
           c == CommandOf(r)
           t == rows[r.cmd.ext]
<1>1. /\ At(cl, "sent") /\ Served(cl) /\ r.op = "wager" /\ call[cl].stage # "idle"
      /\ rows[c.ext].cmd = c /\ UNCHANGED database /\ rows' = rows
  BY DEF ReplayStored, Serves, At, Served, database, L!SamePayload
<1>2. c.ext = r.cmd.ext /\ c.ext \in TxIds /\ c.key \in Keys
  BY <1>1, ServedAsks
<1>3. t.cmd.key # None
  BY <1>1, <1>2, DomainAssumption
<1>4. /\ t \in Row /\ t.status \in Terminal \cup {"PENDING_REFERENCE"}
      /\ t.status \in Terminal => t.result \in Minor
      /\ t.status = "PENDING_REFERENCE" => t.attempts > 0 /\ t.result = NoResult
      /\ t.cmd.wallet \in WalletIds
  BY <1>2, <1>3, RowFacts DEF HttpInv
<1>5. CASE HasResult(t)
  <2>1. t.status \in Terminal /\ t.result \in Minor
    BY <1>4, <1>5 DEF HasResult
  <2> DEFINE http == ResultStatus(t.status)
  <2>2. http \in {200, 202, 422, 500}
    BY DEF ResultStatus
  <2>3. Answer(cl, Success(http, View(t.status, t.failure, t.result)))
    BY <1>2, <1>5 DEF ReplayStored, StoredAnswer, Result
  <2>4. t = rows'[call[cl].request.cmd.ext] /\ t \in Row /\ Served(cl)
    BY <1>1, <1>4
  <2> HIDE DEF t, http
  <2>5. Given(cl, Success(http, View(t.status, t.failure, t.result)))
    BY <2>1, <2>2, <2>4, OutcomeGiven
  <2>6. QED
    BY <1>1, <2>3, <2>5, AnswerGives
<1>6. CASE ~ HasResult(t)
  <2>1. t.result \notin Minor
    BY <1>6, DomainAssumption DEF HasResult, NoResult, Minor
  <2>2. t.status = "PENDING_REFERENCE"
    BY <1>4, <2>1
  <2>3. ~ call[cl].settled
    BY <2>2 DEF HttpInv, CallOK, IsSettled, Terminal
  <2>4. call' = [call EXCEPT ![cl].stage = "locking", ![cl].found = t]
    BY <1>2, <1>6 DEF ReplayStored
  <2>5. QED
    BY <1>1, <1>4, <2>2, <2>3, <2>4 DEF Locks
<1>7. QED
  BY <1>5, <1>6

(* Under the lock it tells that the row waits, with the balance of now. *)
LEMMA LockGives ==
    ASSUME HttpInv, NEW cl \in Clients, LockWallet(cl)
    PROVE  \E a : Gives(cl, a)
<1> DEFINE t == call[cl].found
           balance == wallets[t.cmd.wallet].balance
<1>1. /\ At(cl, "locking") /\ Served(cl) /\ call[cl].stage # "idle" /\ rows' = rows
      /\ Answer(cl, Result(t, balance))
  BY DEF LockWallet, At, Served, database
<1>2. /\ t.status = "PENDING_REFERENCE" /\ rows[call[cl].request.cmd.ext].attempts > 0
      /\ ~ call[cl].settled
  BY <1>1 DEF At, HttpInv, CallOK, LocksWaiting
<1>3. t.failure \in FailureCodes \cup {None}
  BY DEF HttpInv, Calls, Row
<1>4. balance \in Minor
  BY <1>1, RowFacts DEF At, HttpInv, CallOK, LocksWaiting
<1>5. ResultStatus(t.status) = 202
  BY <1>2 DEF ResultStatus
<1> HIDE DEF t, balance
<1>6. Given(cl, Success(202, View("PENDING_REFERENCE", t.failure, balance)))
  BY <1>1, <1>2, <1>3, <1>4, WaitGiven
<1>7. QED
  BY <1>1, <1>2, <1>5, <1>6, AnswerGives DEF Result
(* createWallet: the account had no wallet, and has one from now on. *)
LEMMA CreateGives ==
    ASSUME HttpInv, NEW cl \in Clients, CreateWallet(cl) \/ RefuseWallet(cl)
    PROVE  \E a : Gives(cl, a)
<1> DEFINE r == call[cl].request
           money == Parsed(r).money.minor
<1>1. /\ At(cl, "sent") /\ Served(cl) /\ r.op = "open" /\ Passes(r) /\ call[cl].stage # "idle"
  BY DEF CreateWallet, RefuseWallet, Serves, At, Served
<1>2. r \in Request
  BY <1>1, ServedAsks
<1>3. CASE CreateWallet(cl)
  <2>1. PICK w \in WalletIds : L!CreateWallet(w, r.cmd.account, money)
    BY <1>3 DEF CreateWallet
  <2>2. ~ AccountTaken(r.cmd.account)
    BY <2>1 DEF L!CreateWallet, AccountTaken
  <2>3. wallets'[w].account = r.cmd.account
    <3>1. wallets' = [wallets EXCEPT ![w] = [account |-> r.cmd.account, balance |-> money,
                                             version |-> 1]]
      BY <2>1 DEF L!CreateWallet, L!NewWallet
    <3>2. DOMAIN wallets = WalletIds
      BY DEF HttpInv, LE!IInv, LE!TypeOK
    <3> HIDE DEF money
    <3>3. QED
      BY <3>1, <3>2
  <2>4. money \in Minor
    BY <1>1, <1>2, PassesPriced, Priced
  <2>5. Answer(cl, Success(201, View("BALANCE", None, money)))
    BY <1>3 DEF CreateWallet
  <2> HIDE DEF money
  <2>6. Given(cl, Success(201, View("BALANCE", None, money)))
    BY <1>1, <2>2, <2>3, <2>4, WalletGiven
  <2>7. QED
    BY <1>1, <2>5, <2>6, AnswerGives
<1>4. CASE RefuseWallet(cl)
  <2>1. Refusal("ErrConflict") = Problem("ErrConflict", "CONFLICT")
    BY WriteErrorCodes DEF Refusal
  <2>2. "CONFLICT" \in Codes /\ "ErrConflict" \in Errs
    BY DEF Codes, Errs
  <2>3. \E w \in WalletIds : wallets'[w].account = r.cmd.account
    BY <1>4 DEF RefuseWallet, AccountTaken, database
  <2>4. Given(cl, Refusal("ErrConflict"))
    BY <1>1, <2>1, <2>2, <2>3, ProblemGiven
  <2>5. Answer(cl, Refusal("ErrConflict"))
    BY <1>4 DEF RefuseWallet
  <2>6. QED
    BY <1>1, <2>4, <2>5, AnswerGives
<1>5. QED
  BY <1>3, <1>4

(* Nothing is found, which only the use case can tell. *)
LEMMA NotFoundGiven ==
    ASSUME HttpInv, NEW cl, Served(cl), call[cl].request.op \notin {"wager", "open"}
    PROVE  Given(cl, Refusal("ErrNotFound"))
<1>1. Refusal("ErrNotFound") = Problem("ErrNotFound", "NOT_FOUND")
  BY WriteErrorCodes DEF Refusal
<1>2. "NOT_FOUND" \in Codes /\ "ErrNotFound" \in Errs
  BY DEF Codes, Errs
<1>3. QED
  BY <1>1, <1>2, ProblemGiven

(* The queries of a transaction. *)
LEMMA QueryGives ==
    ASSUME HttpInv, NEW cl \in Clients, QueryTransaction(cl)
    PROVE  \E a : Gives(cl, a)
<1> DEFINE r == call[cl].request
           t == rows[r.cmd.ext]
           v == View(t.status, t.failure, t.result)
<1>1. /\ At(cl, "sent") /\ Served(cl) /\ r.op \notin {"wager", "open"}
      /\ call[cl].stage # "idle" /\ rows' = rows
      /\ Answer(cl, IF t.status = "NONE" THEN Refusal("ErrNotFound") ELSE Success(200, v))
  BY DEF QueryTransaction, Serves, At, Served, database
<1>2. r.cmd.ext \in TxIds
  BY <1>1, ServedAsks
<1>3. /\ t \in Row /\ t.status \in Terminal \cup {"NONE", "PENDING_REFERENCE"}
      /\ t.status \in Terminal => t.result \in Minor
      /\ t.status = "PENDING_REFERENCE" => t.attempts > 0
  BY <1>2, RowFacts DEF HttpInv
<1>4. t = rows'[call[cl].request.cmd.ext]
  BY <1>1
<1>5. t.failure \in FailureCodes \cup {None} /\ t.result \in Minor \cup {NoResult}
  BY <1>3 DEF Row
<1> HIDE DEF t
<1>6. CASE t.status = "NONE"
  BY <1>1, <1>6, NotFoundGiven, AnswerGives
<1>7. CASE t.status \in Terminal
  <2>1. Given(cl, Success(200, v))
    <3>1. t.result \in Minor /\ t \in Row
      BY <1>3, <1>7
    <3>2. Served(cl)
      BY <1>1
    <3>3. QED
      BY <1>4, <1>7, <3>1, <3>2, OutcomeGiven
  <2>2. Answer(cl, Success(200, v))
    BY <1>1, <1>7 DEF Terminal
  <2>3. QED
    BY <1>1, <2>1, <2>2, AnswerGives
<1>8. CASE t.status = "PENDING_REFERENCE"
  <2>1. Given(cl, Success(200, View("PENDING_REFERENCE", t.failure, t.result)))
    <3>1. rows'[call[cl].request.cmd.ext].attempts > 0
      BY <1>3, <1>4, <1>8
    <3>2. QED
      BY <1>1, <1>5, <3>1, WaitGiven
  <2>2. Answer(cl, Success(200, View("PENDING_REFERENCE", t.failure, t.result)))
    BY <1>1, <1>8
  <2>3. QED
    BY <1>1, <2>1, <2>2, AnswerGives
<1>9. QED
  BY <1>3, <1>6, <1>7, <1>8

(* The queries of a wallet. *)
LEMMA WalletGives ==
    ASSUME HttpInv, NEW cl \in Clients, QueryWallet(cl)
    PROVE  \E a : Gives(cl, a)
<1> DEFINE r == call[cl].request
           w == r.cmd.wallet
           balance == View("BALANCE", None, wallets[w].balance)
           difference == View("DIFFERENCE", None, Difference(w))
           found == IF r.op = "wallet" THEN balance ELSE difference
<1>1. /\ At(cl, "sent") /\ Served(cl) /\ r.op \notin {"wager", "open"}
      /\ call[cl].stage # "idle"
      /\ Answer(cl, IF L!Exists(w) THEN Success(200, found) ELSE Refusal("ErrNotFound"))
  BY DEF QueryWallet, Serves, At, Served
<1>2. w \in WalletIds
  BY <1>1, ServedAsks
<1>3. wallets[w].balance \in Minor /\ 0 \in Minor
  BY <1>2, RowFacts, DomainAssumption DEF HttpInv, Minor
<1>4. Difference(w) = 0
  <2>1. LE!Total(ledger[w], "CREDIT") - LE!Total(ledger[w], "DEBIT") = wallets[w].balance
    BY <1>2, LedgerAssumed, LE!BalanceIsTotal DEF HttpInv
  <2>2. Difference(w) = wallets[w].balance - wallets[w].balance
    BY <2>1, SameTotal DEF Difference
  <2>3. wallets[w].balance \in Int
    BY <1>3, DomainAssumption DEF Minor
  <2>4. QED
    BY <2>2, <2>3
<1>5. Served(cl) /\ call[cl].request.op \notin {"wager", "open"}
  BY <1>1
<1>6. Given(cl, Success(200, balance)) /\ Given(cl, Success(200, difference))
  <2> DEFINE held == wallets[w].balance
             none == Difference(w)
  <2>1. held \in Minor /\ none \in Minor /\ none = 0
    BY <1>3, <1>4
  <2> HIDE DEF held, none
  <2>2. Given(cl, Success(200, View("BALANCE", None, held)))
    BY <1>5, <2>1, WalletGiven
  <2>3. Given(cl, Success(200, View("DIFFERENCE", None, none)))
    BY <1>5, <2>1, WalletGiven
  <2>4. QED
    BY <2>2, <2>3 DEF held, none
<1>7. Given(cl, Refusal("ErrNotFound"))
  BY <1>1, NotFoundGiven
<1> HIDE DEF w, balance, difference
<1>8. PICK a \in {Success(200, balance), Success(200, difference), Refusal("ErrNotFound")} :
        Answer(cl, a)
  BY <1>1
<1>9. Given(cl, a)
  BY <1>6, <1>7, <1>8
<1>10. QED
  BY <1>1, <1>8, <1>9, AnswerGives

-----------------------------------------------------------------------------
(* Part 6: the invariant is kept. *)

(* A client sends: for the first time, or once more what it has sent. *)
Sends(cl, r) ==
    /\ r \in Request /\ (r \in Requests \/ r.op = "query")
    /\ \/ call[cl] = Idle
       \/ /\ At(cl, "told") /\ r.cmd = call[cl].request.cmd
          /\ call[cl].answer.http \in {0, 200, 202, 503}
    /\ SendRequest(cl, r)

(* Whatever a step does to a client is one of these. *)
Stays(cl) == call'[cl] = call[cl]
ActsOn(cl) ==
    \/ \E r : Sends(cl, r)
    \/ Finish(cl)
    \/ Locks(cl)
    \/ \E a : Gives(cl, a)

LEMMA StartSends ==
    ASSUME HttpInv, NEW cl \in Clients, Start(cl) \/ Repeat(cl)
    PROVE  \E r : Sends(cl, r)
<1>1. CASE Start(cl)
  <2>1. PICK r \in Asks(cl) : SendRequest(cl, r)
    BY <1>1 DEF Start
  <2>2. r \in Requests /\ r \in Request
    BY HttpAssumption DEF Requests
  <2>3. call[cl] = Idle
    BY <1>1 DEF Start, At, HttpInv, CallOK, AsksWell
  <2>4. QED
    BY <2>1, <2>2, <2>3 DEF Sends
<1>2. CASE Repeat(cl)
  <2> DEFINE old == call[cl].request
             r == IF Waits(cl) THEN [old EXCEPT !.op = "query"] ELSE old
  <2>1. At(cl, "told") /\ call[cl].stage # "idle" /\ SendRequest(cl, r)
    BY <1>2 DEF Repeat, At
  <2>2. old \in Request /\ (old \in Requests \/ old.op = "query")
    BY <2>1 DEF HttpInv, CallOK, AsksWell
  <2>3. /\ r \in Request /\ r.cmd = old.cmd
        /\ r \in Requests \/ r.op = "query"
    BY <2>2 DEF Request, Operations
  <2>4. call[cl].answer.http \in {0, 200, 202, 503}
    <3>1. CASE Waits(cl)
      <4>1. Tells(call[cl].answer, rows[call[cl].request.cmd.ext])
        BY DEF HttpInv, CallOK, TellsStored
      <4>2. QED
        BY <3>1, <4>1 DEF Waits, Tells
    <3>2. CASE ~ Waits(cl)
      BY <1>2, <3>2 DEF Repeat
    <3>3. QED
      BY <3>1, <3>2
  <2> HIDE DEF r
  <2>5. QED
    BY <2>1, <2>3, <2>4 DEF Sends
<1>3. QED
  BY <1>1, <1>2

(* A step is of one client, or of none. *)
LEMMA StepKinds ==
    ASSUME HttpInv, [HNext]_hvars
    PROVE  call' = call \/ \E cl \in Clients : ActsOn(cl)
<1>1. CASE UNCHANGED hvars
  BY <1>1 DEF hvars
<1>2. ASSUME NEW id \in ExternalIds, Elapse(id) \/ Attempt(id)
      PROVE  call' = call
  BY <1>2 DEF Elapse, Attempt
<1>3. ASSUME NEW cl \in Clients, Start(cl) \/ Repeat(cl) \/ Finish(cl)
      PROVE  ActsOn(cl)
  BY <1>3, StartSends DEF ActsOn
<1>4. ASSUME NEW cl \in Clients, Serve(cl)
      PROVE  ActsOn(cl)
  BY <1>4, RejectGives, ProcessGives, RefuseGives, ReplayGives, LockGives, CreateGives,
     QueryGives, WalletGives DEF Serve, ActsOn
<1>5. QED
  BY <1>1, <1>2, <1>3, <1>4 DEF HNext

(* What was told of a row stays true while the row has its outcome or has waited. *)
LEMMA TellingStays ==
    ASSUME NEW cl, CallOK(cl), call'[cl].answer = call[cl].answer,
           call'[cl].request.cmd = call[cl].request.cmd,
           LET t == call[cl].request.cmd.ext
           IN  /\ rows[t].status \in Terminal => rows'[t] = rows[t]
               /\ rows[t].attempts > 0 => rows'[t].attempts > 0
    PROVE  TellsStored(cl)'
<1> DEFINE id == call[cl].request.cmd.ext
           a == call[cl].answer
<1>1. Tells(a, rows[id]) /\ (Tells(a, rows'[id]) => TellsStored(cl)')
  BY DEF CallOK, TellsStored
<1>2. rows[id].status \in Terminal => rows'[id] = rows[id]
  OBVIOUS
<1>3. rows[id].attempts > 0 => rows'[id].attempts > 0
  OBVIOUS
<1> HIDE DEF id, a
<1>4. CASE rows'[id] = rows[id]
  BY <1>1, <1>4
<1>5. CASE rows[id].status \notin Terminal
  <2>1. Tells(a, rows'[id])
    BY <1>1, <1>3, <1>5 DEF Tells
  <2>2. QED
    BY <1>1, <2>1
<1>6. QED
  BY <1>2, <1>4, <1>5

(* What a client was told stays true when others act. *)
LEMMA OthersStay ==
    ASSUME HttpInv, [HNext]_hvars, NEW cl \in Clients, Stays(cl)
    PROVE  CallOK(cl)'
<1> DEFINE r == call[cl].request
<1>1. CASE call[cl].stage = "idle"
  <2>1. call'[cl] = Idle
    BY <1>1 DEF HttpInv, CallOK, AsksWell, Stays
  <2>2. /\ Idle.stage = "idle" /\ Idle.settled = FALSE /\ Idle.answer.http = 0
        /\ Idle.answer.body = None
    BY DEF Idle, NoAnswer
  <2>3. QED
    BY <2>1, <2>2
    DEF CallOK, AsksWell, IsSettled, LocksWaiting, TellsStored, Tells, Told, OpensTaken, GoesOn
<1>2. CASE call[cl].stage # "idle"
  <2>1. /\ call'[cl] = call[cl] /\ CallOK(cl) /\ r.cmd.ext \in TxIds /\ r.cmd.account \in Accounts
    BY <1>2, ServedAsks DEF HttpInv, Stays
  <2>2. /\ rows[r.cmd.ext].status \in Terminal => rows'[r.cmd.ext] = rows[r.cmd.ext]
        /\ rows[r.cmd.ext].attempts > 0 => rows'[r.cmd.ext].attempts > 0
        /\ AccountTaken(r.cmd.account) => \E w \in WalletIds : wallets'[w].account = r.cmd.account
    BY <2>1, TablesStay
  <2>3. AsksWell(cl)' /\ GoesOn(cl)'
    BY <2>1 DEF CallOK, AsksWell, GoesOn, Told, BodyOf
  <2>4. IsSettled(cl)' /\ LocksWaiting(cl)'
    BY <2>1, <2>2 DEF CallOK, IsSettled, LocksWaiting
  <2>5. TellsStored(cl)'
    BY <2>1, <2>2, TellingStays
  <2>6. OpensTaken(cl)'
    BY <2>1, <2>2 DEF CallOK, OpensTaken, AccountTaken
  <2>7. QED
    BY <2>3, <2>4, <2>5, <2>6 DEF CallOK
<1>3. QED
  BY <1>1, <1>2

(* A client acts alone, and its call stays a call. *)
LEMMA ActsAlone ==
    ASSUME HttpInv, NEW cl \in Clients, ActsOn(cl)
    PROVE  /\ call' \in [Clients -> Calls]
           /\ \A other \in Clients : other # cl => Stays(other)
<1>1. ASSUME NEW r, Sends(cl, r)
      PROVE  /\ call' \in [Clients -> Calls]
             /\ \A other \in Clients : other # cl => Stays(other)
  <2> DEFINE settled == rows[r.cmd.ext].status \in Terminal /\ rows[r.cmd.ext].cmd = CommandOf(r)
             next == [call[cl] EXCEPT !.stage = "sent", !.request = r,
                                      !.taken = ~ L!ExternalIdIsFree(r.cmd), !.settled = settled]
  <2>1. call' = [call EXCEPT ![cl] = next] /\ r \in Request
    BY <1>1 DEF Sends, SendRequest
  <2>2. call[cl] \in Calls /\ settled \in BOOLEAN
    BY DEF HttpInv
  <2>3. next \in Calls
    <3> DEFINE taken == ~ L!ExternalIdIsFree(r.cmd)
    <3>1. taken \in BOOLEAN
      OBVIOUS
    <3> HIDE DEF settled, taken
    <3>2. QED
      BY <2>1, <2>2, <3>1 DEF Calls, Stages
  <2> HIDE DEF next
  <2>4. QED
    BY <2>1, <2>3 DEF HttpInv, Stays
<1>2. ASSUME Finish(cl)
      PROVE  /\ call' \in [Clients -> Calls]
             /\ \A other \in Clients : other # cl => Stays(other)
  <2>1. PICK next \in {Idle, [call[cl] EXCEPT !.stage = "done"]} :
            call' = [call EXCEPT ![cl] = next]
    BY <1>2 DEF Finish
  <2>2. [call[cl] EXCEPT !.stage = "done"] \in Calls
    BY DEF HttpInv, Calls, Stages
  <2>3. next \in Calls
    BY <2>1, <2>2, IdleTyped
  <2>4. QED
    BY <2>1, <2>3 DEF HttpInv, Stays
<1>3. ASSUME Locks(cl)
      PROVE  /\ call' \in [Clients -> Calls]
             /\ \A other \in Clients : other # cl => Stays(other)
  <2> DEFINE t == rows[call[cl].request.cmd.ext]
  <2> DEFINE next == [call[cl] EXCEPT !.stage = "locking", !.found = t]
  <2>1. t \in Row /\ call' = [call EXCEPT ![cl] = next]
    BY <1>3 DEF Locks, HttpInv
  <2>2. call \in [Clients -> Calls] /\ call[cl] \in Calls
    BY DEF HttpInv
  <2> HIDE DEF t
  <2>3. next \in Calls
    BY <2>1, <2>2 DEF Calls, Stages
  <2> HIDE DEF next
  <2>4. QED
    BY <2>1, <2>2, <2>3 DEF Stays
<1>4. ASSUME NEW a, Gives(cl, a)
      PROVE  /\ call' \in [Clients -> Calls]
             /\ \A other \in Clients : other # cl => Stays(other)
  BY <1>4 DEF Gives, IsTold, Stays
<1>5. QED
  BY <1>1, <1>2, <1>3, <1>4 DEF ActsOn

(* Sending, finishing and going on to the lock tell nothing new. *)
LEMMA SendKeeps ==
    ASSUME HttpInv, [HNext]_hvars, NEW cl \in Clients, NEW r, Sends(cl, r)
    PROVE  CallOK(cl)' /\ call'[cl].answer.http # 201
<1> DEFINE own == rows[r.cmd.ext]
<1>1. /\ call[cl] \in Calls /\ CallOK(cl) /\ r \in Request /\ (r \in Requests \/ r.op = "query")
      /\ rows' = rows
  BY DEF HttpInv, Sends, SendRequest, database
<1>2. /\ call'[cl].stage = "sent" /\ call'[cl].request = r /\ call'[cl].answer = call[cl].answer
      /\ call'[cl].settled = (own.status \in Terminal /\ own.cmd = CommandOf(r))
  BY <1>1 DEF Sends, SendRequest, HttpInv, Calls
<1>3. call[cl].answer.http \in {0, 200, 202, 503}
  BY DEF Sends, Idle, NoAnswer
<1>4. Told(cl) => r.cmd = call[cl].request.cmd
  BY DEF Sends, Idle, NoAnswer, Told
<1>5. AsksWell(cl)'
  BY <1>1, <1>2, <1>3 DEF AsksWell
<1>6. IsSettled(cl)'
  BY <1>1, <1>2 DEF IsSettled, CommandOf, Parsed
<1>7. LocksWaiting(cl)' /\ GoesOn(cl)' /\ OpensTaken(cl)'
  BY <1>2, <1>3 DEF LocksWaiting, GoesOn, OpensTaken
<1>8. TellsStored(cl)'
  <2>1. CASE Told(cl)
    BY <1>1, <1>2, <1>4, <2>1, TellingStays
  <2>2. CASE ~ Told(cl)
    BY <1>2, <2>2 DEF TellsStored, Tells, Told
  <2>3. QED
    BY <2>1, <2>2
<1>9. QED
  BY <1>2, <1>3, <1>5, <1>6, <1>7, <1>8 DEF CallOK

LEMMA FinishKeeps ==
    ASSUME HttpInv, [HNext]_hvars, NEW cl \in Clients, Finish(cl)
    PROVE  /\ CallOK(cl)'
           /\ call'[cl].answer.http = 201 =>
                 call[cl].answer.http = 201 /\ call'[cl].request = call[cl].request
<1>1. /\ call[cl] \in Calls /\ CallOK(cl) /\ rows' = rows /\ wallets' = wallets
      /\ call[cl].stage = "told"
  BY DEF HttpInv, Finish, database, At
<1>2. CASE call'[cl] = Idle
  <2>1. /\ Idle.stage = "idle" /\ Idle.settled = FALSE /\ Idle.answer.http = 0
        /\ Idle.answer.body = None
    BY DEF Idle, NoAnswer
  <2>2. QED
    BY <1>2, <2>1
    DEF CallOK, AsksWell, IsSettled, LocksWaiting, TellsStored, Tells, Told, OpensTaken, GoesOn
<1>3. CASE call'[cl] = [call[cl] EXCEPT !.stage = "done"]
  <2>1. /\ call'[cl].stage = "done" /\ call'[cl].request = call[cl].request
        /\ call'[cl].answer = call[cl].answer /\ call'[cl].settled = call[cl].settled
    BY <1>1, <1>3 DEF Calls
  <2>2. AsksWell(cl)' /\ LocksWaiting(cl)' /\ GoesOn(cl)'
    BY <1>1, <2>1 DEF CallOK, AsksWell, LocksWaiting, GoesOn, Told, BodyOf
  <2>3. IsSettled(cl)' /\ OpensTaken(cl)'
    BY <1>1, <2>1 DEF CallOK, IsSettled, OpensTaken, AccountTaken, CommandOf, Parsed
  <2>4. TellsStored(cl)'
    BY <1>1, <2>1, TellingStays
  <2>5. QED
    BY <2>1, <2>2, <2>3, <2>4 DEF CallOK
<1>4. call'[cl] \in {Idle, [call[cl] EXCEPT !.stage = "done"]}
  BY DEF Finish, HttpInv
<1>5. QED
  BY <1>2, <1>3, <1>4

LEMMA LockKeeps ==
    ASSUME HttpInv, [HNext]_hvars, NEW cl \in Clients, Locks(cl)
    PROVE  CallOK(cl)' /\ call'[cl].answer.http # 201
<1> DEFINE t == rows[call[cl].request.cmd.ext]
<1>1. /\ call[cl] \in Calls /\ CallOK(cl) /\ rows' = rows /\ wallets' = wallets
      /\ call[cl].stage = "sent"
  BY DEF HttpInv, Locks, database, At
<1>2. /\ call'[cl].stage = "locking" /\ call'[cl].found = t
      /\ call'[cl].request = call[cl].request
      /\ call'[cl].answer = call[cl].answer /\ call'[cl].settled = call[cl].settled
  BY <1>1 DEF Locks, HttpInv, Calls
<1>3. /\ t.status = "PENDING_REFERENCE" /\ t.attempts > 0 /\ t.cmd.wallet \in WalletIds
      /\ ~ call[cl].settled
  BY DEF Locks
<1>4. call[cl].answer.http \in {0, 200, 202, 503}
  BY <1>1 DEF CallOK, AsksWell
<1>5. AsksWell(cl)' /\ GoesOn(cl)' /\ OpensTaken(cl)'
  BY <1>1, <1>2, <1>4 DEF CallOK, AsksWell, GoesOn, OpensTaken
<1>6. LocksWaiting(cl)' /\ IsSettled(cl)'
  BY <1>1, <1>2, <1>3 DEF LocksWaiting, IsSettled
<1>7. TellsStored(cl)'
  BY <1>1, <1>2, TellingStays
<1>8. QED
  BY <1>2, <1>4, <1>5, <1>6, <1>7 DEF CallOK

(* An answer is true when it is given. *)
LEMMA GivenKeeps ==
    ASSUME HttpInv, [HNext]_hvars, NEW cl \in Clients, NEW a, Gives(cl, a)
    PROVE  CallOK(cl)'
<1> DEFINE r == call[cl].request
<1>1. /\ call[cl].stage \in {"sent", "locking"} /\ CallOK(cl) /\ Given(cl, a)
      /\ call'[cl].stage = "told" /\ call'[cl].answer = a
      /\ call'[cl].request = r /\ call'[cl].settled = call[cl].settled
  BY DEF HttpInv, Gives, IsTold, At
<1>2. r.cmd.ext \in TxIds
  BY <1>1, ServedAsks
<1>3. AsksWell(cl)' /\ LocksWaiting(cl)'
  BY <1>1 DEF CallOK, AsksWell, LocksWaiting
<1>4. IsSettled(cl)'
  <2>1. rows[r.cmd.ext].status \in Terminal => rows'[r.cmd.ext] = rows[r.cmd.ext]
    BY <1>2, TablesStay
  <2>2. IsSettled(cl)
    BY <1>1 DEF CallOK
  <2> DEFINE c == CommandOf(r)
  <2>3. CommandOf(call'[cl].request) = c
    BY <1>1
  <2>5. call[cl].settled => rows[r.cmd.ext].status \in Terminal /\ rows[r.cmd.ext].cmd = c
    BY <2>2 DEF IsSettled
  <2>6. (IsSettled(cl))' <=> (call'[cl].settled =>
            rows'[r.cmd.ext].status \in Terminal /\ rows'[r.cmd.ext].cmd = c)
    BY <1>1, <2>3 DEF IsSettled, CommandOf, Parsed
  <2> HIDE DEF r, c
  <2>7. QED
    BY <1>1, <2>1, <2>5, <2>6
<1>5. TellsStored(cl)'
  BY <1>1 DEF Given, TellsStored, Tells, Told, BodyOf
<1>6. OpensTaken(cl)'
  BY <1>1 DEF Given, OpensTaken, AccountTaken
<1>7. GoesOn(cl)'
  BY <1>1 DEF Given, GoesOn, Told, BodyOf
<1>8. QED
  BY <1>3, <1>4, <1>5, <1>6, <1>7 DEF CallOK

(* Only one client is told that it opened the wallet of an account: whoever is told so
   later found the account free, and a client that was told so before has its wallet. *)
LEMMA OpenerKeeps ==
    ASSUME HttpInv, [HNext]_hvars, NEW cl \in Clients, ActsOn(cl),
           \A other \in Clients : other # cl => Stays(other)
    PROVE  OneOpener'
<1>1. SUFFICES ASSUME NEW a \in Clients, NEW b \in Clients, a # b,
                      call'[a].answer.http = 201, call'[b].answer.http = 201,
                      call'[a].request.cmd.account = call'[b].request.cmd.account
               PROVE  FALSE
  BY DEF OneOpener
<1>2. \A other \in Clients : other # cl => call'[other] = call[other]
  BY DEF Stays
<1>3. CASE (\E r : Sends(cl, r)) \/ Locks(cl)
  BY <1>1, <1>2, <1>3, SendKeeps, LockKeeps DEF HttpInv, OneOpener
<1>4. CASE Finish(cl)
  BY <1>1, <1>2, <1>4, FinishKeeps DEF HttpInv, OneOpener
<1>5. CASE \E x : Gives(cl, x)
  <2>1. PICK x : Gives(cl, x)
    BY <1>5
  <2>2. /\ x.http = 201 => ~ AccountTaken(call[cl].request.cmd.account)
        /\ call'[cl].answer = x /\ call'[cl].request = call[cl].request
    BY <2>1 DEF Gives, Given, IsTold
  <2>3. ASSUME NEW c \in Clients, c # cl, call'[c].answer.http = 201
        PROVE  AccountTaken(call'[c].request.cmd.account)
    BY <1>2, <2>3 DEF HttpInv, CallOK, OpensTaken
  <2>4. QED
    BY <1>1, <1>2, <2>2, <2>3 DEF HttpInv, OneOpener
<1>6. QED
  BY <1>3, <1>4, <1>5 DEF ActsOn

(* Every step keeps the invariant. *)
LEMMA HttpKeeps ==
    ASSUME HttpInv, [HNext]_hvars
    PROVE  HttpInv'
<1>1. LE!IInv'
  BY TablesStay
<1>2. CASE call' = call
  <2>1. \A cl \in Clients : CallOK(cl)'
    BY <1>2, OthersStay DEF Stays
  <2>2. QED
    BY <1>1, <1>2, <2>1 DEF HttpInv, OneOpener
<1>3. ASSUME NEW cl \in Clients, ActsOn(cl) PROVE HttpInv'
  <2>1. /\ call' \in [Clients -> Calls]
        /\ \A other \in Clients : other # cl => Stays(other)
    BY <1>3, ActsAlone
  <2>2. CallOK(cl)'
    BY <1>3, SendKeeps, FinishKeeps, LockKeeps, GivenKeeps DEF ActsOn
  <2>3. \A other \in Clients : CallOK(other)'
    BY <2>1, <2>2, OthersStay
  <2>4. OneOpener'
    BY <1>3, <2>1, OpenerKeeps
  <2>5. QED
    BY <1>1, <2>1, <2>3, <2>4 DEF HttpInv
<1>4. QED
  BY <1>2, <1>3, StepKinds

(* The strengthened invariant of the boundary and the ledger behind it. *)
THEOREM HttpInvariant == HSpec => []HttpInv
<1>1. HttpInv /\ [HNext]_hvars => HttpInv'
  BY HttpKeeps
<1>2. QED
  BY <1>1, InitHttp, PTL DEF HSpec

(* The boundary adds nothing to what is committed: whatever clients send, repeat and
   lose, the tables behind it change by the use cases of WagerLedger only. *)
THEOREM ServesTheLedger == HSpec => L!Spec
<1>1. HInit => L!Init
  BY DEF HInit
<1>2. HttpInv /\ [HNext]_hvars => [L!Next]_L!vars
  BY LedgerUses
<1>3. QED
  BY <1>1, <1>2, HttpInvariant, PTL DEF HSpec, L!Spec

(* An outcome told by any request is the stored one for ever after, with the exact
   balance and failure code; a wait that was told is stored, and a reconciliation never
   tells of a difference: for any number of clients, failures and lost answers. *)
THEOREM WhatIsToldIsRecorded == HSpec => []ToldIsRecorded
<1>1. HttpInv => ToldIsRecorded
  <2> SUFFICES ASSUME HttpInv, NEW cl \in Clients, Told(cl)
               PROVE  LET body == BodyOf(cl)
                          t == rows[call[cl].request.cmd.ext]
                      IN  /\ body.status \in Terminal =>
                                /\ t.status = body.status /\ t.failure = body.failure
                                /\ \E c \in Currencies :
                                      ParseMoney(body.balance, c) = Ok(t.result, c)
                          /\ body.status = "PENDING_REFERENCE" => t.attempts > 0
                          /\ body.status = "DIFFERENCE" =>
                                body.balance.major = 0 /\ body.balance.cents = 0
    BY DEF ToldIsRecorded
  <2> DEFINE body == BodyOf(cl)
             t == rows[call[cl].request.cmd.ext]
  <2>1. /\ Tells(call[cl].answer, t) /\ call[cl].stage # "idle"
        /\ call[cl].answer.body = body /\ body # None
    <3>1. AsksWell(cl) /\ TellsStored(cl)
      BY DEF HttpInv, CallOK
    <3>2. body # None /\ body = call[cl].answer.body
      BY DEF Told, BodyOf
    <3>3. Idle.answer.body = None
      BY DEF Idle, NoAnswer
    <3>4. call[cl].stage # "idle"
      BY <3>1, <3>2, <3>3 DEF AsksWell
    <3>5. QED
      BY <3>1, <3>2, <3>4 DEF TellsStored
  <2>2. CASE body.status \in Terminal
    <3>1. /\ t.status = body.status /\ t.failure = body.failure
          /\ body.balance = Written(t.result)
      BY <2>1, <2>2 DEF Tells
    <3>2. call[cl].request.cmd.ext \in TxIds
      BY <2>1, ServedAsks
    <3>3. t.result \in 0 .. MaxInt
      BY <2>2, <3>1, <3>2, RowFacts, HttpAssumption DEF HttpInv, Minor
    <3>4. PICK c \in Currencies : TRUE
      BY HttpAssumption
    <3>5. ParseMoney(body.balance, c) = Ok(t.result, c)
      BY <3>1, <3>3, BalanceReadsBack DEF Written
    <3> HIDE DEF body, t
    <3>6. QED
      BY <2>2, <3>1, <3>5 DEF Terminal, body, t
  <2>3. CASE body.status \notin Terminal
    BY <2>1, <2>3 DEF Tells
  <2>4. QED
    BY <2>2, <2>3
<1>2. QED
  BY <1>1, HttpInvariant, PTL

(* A client whose transaction has its outcome is not sent back to wait and not refused
   by any later request of the same command. *)
THEOREM SettledIsNotSentBack == HSpec => []NoStepBack
<1>1. HttpInv => NoStepBack
  BY DEF HttpInv, CallOK, GoesOn, NoStepBack
<1>2. QED
  BY <1>1, HttpInvariant, PTL

(* However many clients ask for the wallet of an account at once or again, one is told
   that it opened it, and all others find it. *)
THEOREM WalletOpenedOnce == HSpec => []OpenedOnce
<1>1. HttpInv => OpenedOnce
  BY DEF HttpInv, OneOpener, CallOK, OpensTaken, OpenedOnce
<1>2. QED
  BY <1>1, HttpInvariant, PTL

(* A refusal is an answer given when no row has the command: nothing was done, by this
   attempt or by an earlier one whose answer was lost. *)
LEMMA RefusalGiven ==
    ASSUME HttpInv, [HNext]_hvars, NEW cl \in Clients,
           At(cl, "sent"), call'[cl].stage = "told",
           call[cl].request.op = "wager", Passes(call[cl].request),
           call'[cl].answer.http \in 400 .. 499, call'[cl].answer.body = None
    PROVE  \A id \in TxIds : rows'[id].cmd # CommandOf(call[cl].request)
<1>1. PICK other \in Clients : ActsOn(other)
  BY StepKinds DEF At
<1>2. other = cl
  BY <1>1, ActsAlone DEF Stays, At
<1>3. ~ (\E r : Sends(cl, r)) /\ ~ Finish(cl) /\ ~ Locks(cl)
  <2>1. ~ \E r : Sends(cl, r)
    BY DEF Sends, At, Idle
  <2>2. ~ Finish(cl)
    BY DEF Finish, At
  <2>3. ASSUME Locks(cl) PROVE call'[cl].stage = "locking"
    BY <2>3 DEF Locks, HttpInv, Calls
  <2>4. QED
    BY <2>1, <2>2, <2>3
<1>4. PICK a : Gives(cl, a)
  BY <1>1, <1>2, <1>3 DEF ActsOn
<1>5. QED
  BY <1>4 DEF Gives, Given, IsTold

THEOREM RefusalMeansUndone == HSpec => RefusedHasNoEffect
<1>1. HttpInv /\ [HNext]_hvars =>
        \A cl \in Clients :
          LET a == call'[cl].answer
          IN  /\ At(cl, "sent") /\ call'[cl].stage = "told"
              /\ call[cl].request.op = "wager" /\ Passes(call[cl].request)
              /\ a.http \in 400 .. 499 /\ a.body = None
              => \A id \in TxIds : rows'[id].cmd # CommandOf(call[cl].request)
  BY RefusalGiven
<1>2. QED
  BY <1>1, HttpInvariant, PTL DEF HSpec, RefusedHasNoEffect
=============================================================================
