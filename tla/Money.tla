-------------------------------- MODULE Money --------------------------------
(***************************************************************************)
(* domain.Money: an int64 of minor units with an ISO 4217 currency, its     *)
(* decimal text and its arithmetic.                                         *)
(*                                                                         *)
(* The text of an amount is abstracted to the parts the grammar             *)
(* 0|[1-9][0-9]* "." two digits gives it, with an optional leading minus;   *)
(* every other text is Malformed.  Integers keep their width: what a sum    *)
(* would wrap to is Wrap of it, and the guards of the code must prevent it. *)
(***************************************************************************)
EXTENDS Integers

CONSTANTS
    MaxInt,      \* math.MaxInt64
    Currencies,  \* the codes currency.ParseISO knows
    NoCurrency,  \* the currency of Money{}
    Malformed    \* a text that is no amount

Text == [negative: BOOLEAN, major: Nat, cents: 0 .. 99]

\* An int64 has 100 cents and more: maximum - cents in the parser never wraps.
ASSUME MoneyAssumption ==
    /\ MaxInt \in Nat /\ MaxInt >= 99
    /\ NoCurrency \notin Currencies
    /\ Malformed \notin Text

MinInt == -MaxInt - 1
Int64 == MinInt .. MaxInt

\* Two's complement of a sum or difference of two int64.
Wrap(n) ==
    CASE n > MaxInt -> n - 2 * (MaxInt + 1)
      [] n < MinInt -> n + 2 * (MaxInt + 1)
      [] OTHER -> n

Money == [minor: Int64, currency: Currencies]
ZeroMoney == [minor |-> 0, currency |-> NoCurrency]

MoneyErrors == {"INVALID_MONEY", "CURRENCY_MISMATCH", "MONEY_OVERFLOW"}
Ok(minor, currency) == [error |-> "", money |-> [minor |-> minor, currency |-> currency]]
Failed(error) == [error |-> error, money |-> ZeroMoney]

-----------------------------------------------------------------------------
(* parseNonNegativeMinor of a text without its sign; a major beyond uint64 is
   beyond the bound as well. *)
Exceeds(text, maximum) == text.major > (maximum - text.cents) \div 100

MinorOf(text) == text.major * 100 + text.cents

(* ParseMoney: a boundary accepts no sign. *)
ParseMoney(text, currency) ==
    IF currency \notin Currencies \/ text = Malformed THEN Failed("INVALID_MONEY")
    ELSE IF text.negative THEN Failed("INVALID_MONEY")
    ELSE IF Exceeds(text, MaxInt) THEN Failed("MONEY_OVERFLOW")
    ELSE Ok(MinorOf(text), currency)

(* UnmarshalJSON, which accepts a sign: down to MinInt, but no negative zero. *)
UnmarshalJSON(text, currency) ==
    IF currency \notin Currencies \/ text = Malformed THEN Failed("INVALID_MONEY")
    ELSE IF ~ text.negative THEN ParseMoney(text, currency)
    ELSE IF Exceeds(text, MaxInt + 1) THEN Failed("MONEY_OVERFLOW")
    ELSE IF MinorOf(text) = 0 THEN Failed("INVALID_MONEY")
    ELSE Ok(IF MinorOf(text) = MaxInt + 1 THEN MinInt ELSE Wrap(- MinorOf(text)), currency)

(* Amount: the absolute value goes through uint64, so that of MinInt is exact. *)
Absolute(minor) == IF minor < 0 THEN - Wrap(minor + 1) + 1 ELSE minor

Amount(money) ==
    [negative |-> money.minor < 0,
     major |-> Absolute(money.minor) \div 100,
     cents |-> Absolute(money.minor) % 100]

-----------------------------------------------------------------------------
(* compatible, the first check of Add and Compare. *)
Incompatible(a, b) ==
    IF a.currency \notin Currencies \/ b.currency \notin Currencies THEN "INVALID_MONEY"
    ELSE IF a.currency # b.currency THEN "CURRENCY_MISMATCH" ELSE ""

Overflows(a, b) ==
    \/ b.minor > 0 /\ a.minor > Wrap(MaxInt - b.minor)
    \/ b.minor < 0 /\ a.minor < Wrap(MinInt - b.minor)

Add(a, b) ==
    IF Incompatible(a, b) # "" THEN Failed(Incompatible(a, b))
    ELSE IF Overflows(a, b) THEN Failed("MONEY_OVERFLOW")
    ELSE Ok(Wrap(a.minor + b.minor), a.currency)

Negate(a) ==
    IF a.currency \notin Currencies THEN Failed("INVALID_MONEY")
    ELSE IF a.minor = MinInt THEN Failed("MONEY_OVERFLOW")
    ELSE Ok(Wrap(- a.minor), a.currency)

Subtract(a, b) == IF Negate(b).error # "" THEN Negate(b) ELSE Add(a, Negate(b).money)
=============================================================================
