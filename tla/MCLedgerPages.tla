---------------------------- MODULE MCLedgerPages ----------------------------
(* A small instance of LedgerPages for TLC: as many entries as three pages of two hold,
   with fewer times than entries, so that times tie; limits 0 and 3 are refused. *)
EXTENDS LedgerPages

SomeEntries == 1 .. 5
SomeTimes == 1 .. 3
SomeLimits == {0, 1, 2, 3}
=============================================================================
