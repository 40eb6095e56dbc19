----------------------------- MODULE MCHttpApi -----------------------------
(* Small instances of HttpApi for TLC: one wallet, a bet and its refund. *)
EXTENDS HttpApi

CONSTANTS k1, k2, x1, x2, w1, a1, r1, brl, internal, provider, other

Cmd(key, ext, kind, ref) ==
    [key |-> key, ext |-> ext, wallet |-> w1, account |-> a1, round |-> r1,
     kind |-> kind, money |-> 0, ref |-> ref]

Cents(major, cents) == [negative |-> FALSE, major |-> major, cents |-> cents]

Good(op, amount, cmd) ==
    [op |-> op, token |-> "valid", claim |-> "own", internal |-> TRUE, body |-> "complete",
     keyed |-> TRUE, amount |-> amount, currency |-> brl, cmd |-> cmd]

Bet == Good("wager", Cents(1, 50), Cmd(k1, x1, "BET", None))
Refund == Good("wager", Cents(1, 50), Cmd(k2, x2, "REFUND", x1))
Open == Good("open", Cents(2, 0), Cmd(k1, x1, "BET", None))

(* Requests that a check refuses, one per check. *)
Refused ==
    {[Bet EXCEPT !.token = t] : t \in {"absent", "invalid", "unreadable"}} \cup
    {[Bet EXCEPT !.body = b] : b \in {"broken", "incomplete"}} \cup
    {[Bet EXCEPT !.claim = "other"], [Bet EXCEPT !.keyed = FALSE],
     [Bet EXCEPT !.amount = Malformed], [Bet EXCEPT !.amount.negative = TRUE],
     [Open EXCEPT !.internal = FALSE], [Open EXCEPT !.currency = NoCurrency],
     [Good("query", Malformed, Bet.cmd) EXCEPT !.claim = "none"],
     [Good("wallet", Malformed, Bet.cmd) EXCEPT !.body = "incomplete"]}

(* Wagers that are refused by the use case, or reach the ledger with another outcome. *)
Conflicting ==
    {[Bet EXCEPT !.amount = Cents(0, 50)],                       \* same key, other payload
     [Bet EXCEPT !.cmd.key = k2],                                \* same external id, other key
     [Bet EXCEPT !.cmd.kind = "LOSS"],                           \* a loss with money
     Good("wager", Cents(1, 0), Cmd(k2, x2, "WIN", None)),       \* credit beyond MaxInt
     Good("wager", Cents(9, 0), Cmd(k2, x2, "WIN", None))}       \* amount beyond MaxInt

SomeAsks(c) ==
    CASE c = internal -> {Open, Good("reconcile", Malformed, Bet.cmd)}
      [] c = provider -> {Bet, Good("transaction", Malformed, Bet.cmd)} \cup Conflicting \cup Refused
      [] c = other -> {Bet, Refund, Open, Good("wallet", Malformed, Bet.cmd)}
=============================================================================
