---------------------------- MODULE MCLifecycle -----------------------------
(***************************************************************************)
(* A small instance of Lifecycle for TLC.                                  *)
(***************************************************************************)
EXTENDS Lifecycle

CONSTANTS g1, g2, r1, r2

AllConfigs == [workers : BOOLEAN, create : BOOLEAN, patient : BOOLEAN]

(* What Load returns when the environment sets nothing. *)
DefaultConfig == {[workers |-> TRUE, create |-> TRUE, patient |-> TRUE]}
=============================================================================
