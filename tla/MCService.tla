------------------------------ MODULE MCService ------------------------------
(* Finite values of ServiceOrder's constants for TLC. *)
EXTENDS ServiceOrder, TLC

CONSTANTS e1, e2, e3, a, b, k

\* Payloads of unequal size, so that rows and bytes run out independently.
MixedPayload == [e \in EventId |-> IF e = e1 THEN 2 ELSE 1]

\* Admission order, and a source number beyond a gap.
MCRequestSeq == {-1, 1}

Symmetry == Permutations({e2, e3}) \cup Permutations(Call)
=============================================================================
