------------------------------ MODULE MCOutbox ------------------------------
(* Small instances of Outbox for TLC. *)
EXTENDS Outbox, TLC

CONSTANTS e1, e2, e3, c1, c2, k1, k2

UnitPayload == [e \in EventId |-> 1]

\* Callers of both kinds, with every source number the range allows.
AnySeq == -1 .. MaxInt64

Symmetry == Permutations(EventId) \cup Permutations(Call) \cup Permutations(Key)
=============================================================================
