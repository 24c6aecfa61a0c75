------------------------------- MODULE MCQueue -------------------------------
(* Finite values of BoundedQueue's constants for TLC. *)
EXTENDS BoundedQueue

CONSTANTS c1, c2, c3, e1, e2

MCConsumer == {c1, c2, c3}
MCTwoConsumers == {c1, c2}
MCEvent == {e1, e2}
=============================================================================
