--------------------------- MODULE MCWagerLedger ---------------------------
(***************************************************************************)
(* Small instances of WagerLedger for TLC.  A behaviour belongs to one     *)
(* scenario, the commands and wallets that occur in it, chosen at Init.    *)
(***************************************************************************)
EXTENDS WagerLedger

CONSTANTS k1, k2, k3, k4, x1, x2, x3, x4, w1, w2, a1, a2, r1, r2, m1

(* A command of account a1 on wallet w1 in round r1. *)
Cmd(key, ext, kind, money, ref) ==
    [key |-> key, ext |-> ext, wallet |-> w1, account |-> a1, round |-> r1,
     kind |-> kind, money |-> money, ref |-> ref]

OneWallet == {[wallet |-> w1, account |-> a1, money |-> 2]}
TwoWallets == OneWallet \cup {[wallet |-> w2, account |-> a2, money |-> 0],
                              [wallet |-> w2, account |-> a1, money |-> 1]}

(* A bet, its refund, its rollback and the rollback of the refund, which may all
   arrive before what they reference; the refund's key is reused by another bet. *)
ReversalCommands ==
    {Cmd(k1, x1, "BET", 2, None), Cmd(k2, x2, "REFUND", 2, x1),
     Cmd(k3, x3, "ROLLBACK", 2, x1), Cmd(k4, x4, "ROLLBACK", 2, x2),
     Cmd(k2, x3, "BET", 1, None)}

(* A bet, a win on it, rollbacks of the win (one of them partial, under the same
   key), a bet that spends the win and, in its place, a win too many. *)
WinCommands ==
    {Cmd(k1, x1, "BET", 1, None), Cmd(k2, x2, "WIN", 2, x1),
     Cmd(k3, x3, "ROLLBACK", 2, x2),
     Cmd(k3, x3, "ROLLBACK", 1, x2), Cmd(k4, x4, "BET", 3, None),
     Cmd(k4, x4, "WIN", 2, None)}

(* Commands that break a reference rule, use another wallet, move nothing or
   wait for themselves or for each other. *)
OddCommands ==
    {Cmd(k1, x1, "BET", 1, None),
     [Cmd(k2, x2, "REFUND", 1, x1) EXCEPT !.wallet = w2, !.account = a2],
     [Cmd(k3, x3, "WIN", 1, x4) EXCEPT !.round = r2],
     Cmd(k4, x4, "ROLLBACK", 1, x3),
     Cmd(k4, x4, "LOSS", 0, None)}

Scenarios == {[commands |-> ReversalCommands, openings |-> OneWallet],
              [commands |-> WinCommands, openings |-> OneWallet],
              [commands |-> OddCommands, openings |-> TwoWallets]}

AllCommands == UNION {s.commands : s \in Scenarios}
AllOpenings == UNION {s.openings : s \in Scenarios}

VARIABLE scenario

(* Only commands and wallets of the scenario have rows. *)
InScenario ==
    /\ \A x \in ExternalIds : rows[x] # NoRow => rows[x].cmd \in scenario.commands
    /\ \A w \in WalletIds : Exists(w) =>
          \E o \in scenario.openings : o.wallet = w /\ o.account = wallets[w].account

MCInit == Init /\ scenario \in Scenarios
MCNext == Next /\ UNCHANGED scenario /\ InScenario'

MCSpec == MCInit /\ [][MCNext]_<<vars, scenario>> /\ Fairness
=============================================================================
