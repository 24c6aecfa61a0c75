-------------------------------- MODULE MCOps --------------------------------
(* Finite values of OutboxOps' constants for TLC. *)
EXTENDS OutboxOps, TLC

CONSTANTS e1, e2, e3, a, b, k1, k2, r1, r2

MCEventId == {e1, e2, e3}
MCIdRank == (e1 :> 1) @@ (e2 :> 2) @@ (e3 :> 3)
MCPayloadSize == [e \in MCEventId |-> 1]
MCRequestSeq == {-1}
MCRun == {r1, r2}

OldRow(c, k, seq, st, created) ==
    [call_uuid |-> c, msg_key |-> k, call_seq |-> seq, state |-> st, attempts |-> 0,
     next_attempt_at_ms |-> 0, last_error |-> "none", created_at_ms |-> created,
     eligible_at_ms |-> Null]

Database(rows, streams, t, v) ==
    [outbox |-> rows, call_streams |-> streams, retired_calls |-> [c \in {} |-> 0], turn |-> t,
     schema |-> [version |-> v, call_seq |-> v >= 2, order_scheduler |-> v >= 3]]

Cursor(k, next, admit, served) ==
    [msg_key |-> k, mode |-> "admission", next_seq |-> next, admit_seq |-> admit,
     last_served_ms |-> served]

NoRows == [e \in {} |-> 0]
NoStreams == [c \in {} |-> 0]

\* Backlogs without ordinals: of equal age and all states, of different keys, none;
\* and one marked with a version to come.
MCLegacy ==
    {Database((e1 :> OldRow(a, k1, -1, "in_flight", 0)) @@ (e2 :> OldRow(a, k1, -1, "pending", 0)),
              NoStreams, 0, 0),
     Database((e1 :> OldRow(a, k1, -1, "dead", 2)) @@ (e2 :> OldRow(a, k1, -1, "in_flight", 0))
                @@ (e3 :> OldRow(Ungrouped, NoKey, -1, "pending", 0)), NoStreams, 0, 0),
     Database((e1 :> OldRow(a, k1, -1, "pending", 0)) @@ (e2 :> OldRow(a, k2, -1, "pending", 0)),
              NoStreams, 0, 0),
     Database(NoRows, NoStreams, 0, 0),
     [Database(e1 :> OldRow(a, k1, -1, "pending", 0), NoStreams, 0, 0) EXCEPT !.schema.version = 6]}

\* Ordered databases of every version: a head and its successor waiting, a call
\* that is settled, service recorded without a scheduler; and a version to come.
MCOrdered ==
    {Database((e1 :> OldRow(a, k1, 1, "pending", 0)) @@ (e2 :> OldRow(a, k1, 2, "pending", 0)),
              (a :> Cursor(k1, 1, 3, 2)) @@ (b :> Cursor(k2, 1, 1, 1)), IF v >= 3 THEN 2 ELSE 0, v) :
       v \in {2, 3, 4, 6}}
    \cup {Database(NoRows, (b :> Cursor(k2, 1, 1, 1)), 1, 5)}

MCStored == MCLegacy \cup MCOrdered
=============================================================================
