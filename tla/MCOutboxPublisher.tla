-------------------------- MODULE MCOutboxPublisher -------------------------
(* Small instances of OutboxPublisher for TLC. *)
EXTENDS OutboxPublisher

CONSTANTS e1, e2, e3, p1, p2
=============================================================================
