---------------------------- MODULE MCSqsConsumer ---------------------------
(* Small instances of SqsConsumer for TLC. *)
EXTENDS SqsConsumer

CONSTANTS q1, q2, q3, c1, c2

(* All the messages move the same wallet. *)
OneWallet(m) == "w1"
=============================================================================
