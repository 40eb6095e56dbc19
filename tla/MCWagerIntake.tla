---------------------------- MODULE MCWagerIntake ----------------------------
(* Small instances of WagerIntake for TLC. *)
EXTENDS WagerIntake

CONSTANTS k1, k2, x1, x2, w1, a1, r1, m1, m2, q1, q2, c1, c2

Cmd(key, ext, kind, money, ref) ==
    [key |-> key, ext |-> ext, wallet |-> w1, account |-> a1, round |-> r1,
     kind |-> kind, money |-> money, ref |-> ref]

Bet == Cmd(k1, x1, "BET", 2, None)
Refund == Cmd(k2, x2, "REFUND", 2, x1)
OtherBet == Cmd(k1, x2, "BET", 1, None)   \* another payload under the key of Bet

OneWallet == {[wallet |-> w1, account |-> a1, money |-> 2]}
SameWallet(m) == w1

Envelope(id, cmd) == [id |-> id, cmd |-> cmd]
SomeEnvelopes == {Envelope(m1, Bet), Envelope(m2, Refund), Envelope(m1, OtherBet)}

(* A bet and its refund, the bet published twice, and an envelope id used twice. *)
SomePlans ==
    {q1 :> Envelope(m1, Bet) @@ q2 :> Envelope(m2, Refund),
     q1 :> Envelope(m1, Bet) @@ q2 :> Envelope(m1, Bet),
     q1 :> Envelope(m1, Bet) @@ q2 :> Envelope(m1, OtherBet)}

SomeHttp == {Bet, OtherBet}

(* The two consumers are alike. *)
Alike == Permutations({c1, c2})
=============================================================================
