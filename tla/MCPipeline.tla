----------------------------- MODULE MCPipeline -----------------------------
(* Small instances of KafkaPipeline for TLC. *)
EXTENDS KafkaPipeline, TLC

CONSTANTS e1, e2, e3, c1, c2, k1, k2, p1, p2

UnitPayload == [e \in EventId |-> 1]
KeyPartition == [k \in Key |-> IF k = k1 THEN p1 ELSE p2]
\* Callers of both kinds, with every source number the range allows.
AnySeq == -1 .. MaxInt64

\* The FreeSWITCH module, which never passes a source number.
OrdinalOnly == {-1}

\* Every event may be of any call or of none.
AnyCall == [e \in EventId |-> Call \cup {Ungrouped}]

\* Every event is of a call: how calls and ungrouped rows share the batches is
\* the subject of ServiceOrder.
InACall == [e \in EventId |-> Call]

Symmetry == Permutations(EventId)
=============================================================================
