-------------------------- MODULE MCWagerConcurrency ------------------------
(***************************************************************************)
(* Small instances of WagerConcurrency for TLC: one wallet, duplicates by  *)
(* HTTP and SQS, racing reversals, the reference worker and the            *)
(* reconciliation.  A behaviour of MCSpec belongs to one scenario, chosen  *)
(* at Init: the commands and messages that are sent and the goroutines     *)
(* that run.                                                               *)
(***************************************************************************)
EXTENDS WagerConcurrency

CONSTANTS k1, k2, k3, x1, x2, x3, w1, a1, r1, m1, c1, c2, v1, v2, g1

Cmd(key, ext, kind, money, ref) ==
    [key |-> key, ext |-> ext, wallet |-> w1, account |-> a1, round |-> r1,
     kind |-> kind, money |-> money, ref |-> ref]

OneWallet == {[wallet |-> w1, account |-> a1, money |-> 2]}

(* The same bet again under its key, with the same or another payload. *)
SameKeyCommands == {Cmd(k1, x1, "BET", 2, None), Cmd(k1, x2, "BET", 1, None)}

(* The same external id again under another key. *)
SameExternalCommands == {Cmd(k1, x1, "BET", 2, None), Cmd(k2, x1, "BET", 2, None)}

(* A bet with two reversals that race for it, or wait for it. *)
ReversalCommands ==
    {Cmd(k1, x1, "BET", 2, None), Cmd(k2, x2, "REFUND", 2, x1), Cmd(k3, x3, "ROLLBACK", 2, x1)}

(* A refund that waits for a bet. *)
WaitingCommands == {Cmd(k1, x1, "BET", 2, None), Cmd(k2, x2, "REFUND", 2, x1)}

(* `repeated` are the commands that clients may repeat at any time. *)
Scenarios ==
    {[commands |-> SameKeyCommands, repeated |-> SameKeyCommands, messages |-> {m1},
      active |-> {c1, c2}],
     [commands |-> SameExternalCommands, repeated |-> SameExternalCommands, messages |-> {m1},
      active |-> {c1, c2}],
     [commands |-> ReversalCommands, repeated |-> {}, messages |-> {}, active |-> {c1, c2}],
     [commands |-> ReversalCommands, repeated |-> ReversalCommands, messages |-> {},
      active |-> {c1, g1}],
     [commands |-> WaitingCommands, repeated |-> {}, messages |-> {}, active |-> {c1, v1, v2}]}

AllCommands == UNION {s.commands : s \in Scenarios}

VARIABLE scenario

InScenario ==
    /\ \A s \in Sessions \ scenario.active : session[s] = Idle
    /\ \A r \in Readers \ scenario.active : reading[r] = NotReading
    /\ \A s \in Clients : ~ At(s, "idle") =>
          /\ session[s].t.cmd \in scenario.commands
          /\ session[s].msg \in scenario.messages \cup {None}

(* No session runs, and no worker has a transaction to resolve. *)
Quiet ==
    /\ \A s \in Sessions : At(s, "idle")
    /\ scenario.active \cap Workers # {} => \A id \in TxIds : ~ Pending(id)

Begins(s) == At(s, "idle") /\ ~ At(s, "idle")'

(* The other commands are sent once, repeated after a failure, and repeated when
   everything is quiet. *)
RepeatsInScenario ==
    \A s \in Clients : Begins(s) =>
        \/ session'[s].t.cmd \in scenario.repeated
        \/ rows[session'[s].id] = NoRow
        \/ Quiet

MCInit == CInit /\ scenario \in Scenarios
MCNext == CNext /\ UNCHANGED scenario /\ InScenario' /\ RepeatsInScenario

MCSpec == MCInit /\ [][MCNext]_<<cvars, scenario>> /\ CFairness
=============================================================================
