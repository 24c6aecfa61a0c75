------------------------------- MODULE Outbox -------------------------------
(***************************************************************************)
(* The durable outbox of mod_event_kafka: the SQLite database behind       *)
(* src/src/kafka_outbox.cpp (class Outbox).                                *)
(*                                                                         *)
(* Every public method of Outbox runs under impl_->mu and is one SQLite    *)
(* transaction, so each is one atomic action here.  A method that fails    *)
(* rolls its transaction back and changes nothing: the guard of the action *)
(* is the conjunction of the conditions under which the code does not      *)
(* throw, and a caller that must react to the failure negates it.          *)
(*                                                                         *)
(* There is no clock variable.  wall_now_ms() reads the system clock,      *)
(* which may be set back, so each reading is an arbitrary member of Time.  *)
(***************************************************************************)
EXTENDS Integers, FiniteSets, FiniteSetsExt

CONSTANTS
    EventId,      \* event identifiers (make_event_id)
    Call,         \* calls: the pairs (topic, call_uuid)
    Ungrouped,    \* the empty call_uuid
    Key,          \* nonempty message keys
    NoKey,        \* the empty message key
    Null,         \* SQL NULL
    Time,         \* what wall_now_ms() may return
    Ttl,          \* outbox_ttl_ms
    MaxRows,      \* outbox_max_rows
    MaxBytes,     \* outbox_max_bytes
    PayloadSize,  \* PayloadSize[e]: bytes of e's payload
    RequestSeq,   \* sequence numbers callers pass; -1 asks for an ordinal
    MaxInt64      \* the largest sequence number and the largest turn

ASSUME CallAssumption == Ungrouped \notin Call
ASSUME KeyAssumption == NoKey \notin Key
ASSUME TimeAssumption == Time \subseteq Int /\ Null \notin Int
ASSUME LimitAssumption ==
    /\ Ttl \in Int
    /\ MaxRows \in Nat
    /\ MaxBytes \in Nat
    /\ MaxInt64 \in Nat \ {0}
    /\ RequestSeq \subseteq -1 .. MaxInt64
ASSUME PayloadAssumption == PayloadSize \in [EventId -> Nat]

VARIABLES
    outbox,         \* table outbox: event_id -> row
    call_streams,   \* table call_streams: call -> durable cursor
    retired_calls,  \* table retired_calls: call -> its final next_seq
    turn,           \* the single row of table order_scheduler
    opened          \* a process holds the .lock file and has the database open

obvars == <<outbox, call_streams, retired_calls, turn, opened>>

(***************************************************************************)
(* The rows.  call_seq is -1 where the column is NULL (no call_uuid), as   *)
(* record() reads it.  last_error keeps only what the code tests.          *)
(***************************************************************************)
Row == [call_uuid : Call \cup {Ungrouped},
        msg_key : Key \cup {NoKey},
        call_seq : -1 .. (MaxInt64 - 1),
        state : {"pending", "in_flight", "dead"},
        attempts : 0 .. MaxInt64,
        next_attempt_at_ms : Time,
        last_error : {"none", "expired_ttl", "send_error"},
        created_at_ms : Time,
        eligible_at_ms : Time \cup {Null}]

Stream == [msg_key : Key,
           mode : {"admission", "source"},
           next_seq : 0 .. MaxInt64,
           admit_seq : 0 .. MaxInt64,
           last_served_ms : 0 .. MaxInt64]

\* What a caller of insert_pending supplies.
Request == [call_uuid : Call \cup {Ungrouped},
            msg_key : Key \cup {NoKey},
            call_seq : RequestSeq]

Ordered(e) == outbox[e].call_uuid # Ungrouped

DeliverableFromCursor(e) ==                                        \* mutant
    \/ ~Ordered(e)
    \/ /\ outbox[e].call_uuid \in DOMAIN call_streams
       /\ outbox[e].call_seq >= call_streams[outbox[e].call_uuid].next_seq

\* The row has no call or is the head its call's cursor points at.
Deliverable(e) ==
    \/ ~Ordered(e)
    \/ /\ outbox[e].call_uuid \in DOMAIN call_streams
       /\ outbox[e].call_seq = call_streams[outbox[e].call_uuid].next_seq

-----------------------------------------------------------------------------
(* open, close and the death of the owning process *)

\* The two checks of open() on the contents of a current-schema database.
Corrupt ==
    \/ \E e \in DOMAIN outbox :
         /\ Ordered(e)
         /\ outbox[e].call_seq < 0 \/ outbox[e].call_uuid \notin DOMAIN call_streams
    \/ DOMAIN retired_calls \cap DOMAIN call_streams # {}

\* Rows that can be delivered but carry no stamp get their creation time.
Stamped(e) ==
    IF outbox[e].eligible_at_ms = Null /\ Deliverable(e)
    THEN [outbox[e] EXCEPT !.eligible_at_ms = outbox[e].created_at_ms]
    ELSE outbox[e]

Open ==
    /\ ~opened
    /\ ~Corrupt
    /\ opened' = TRUE
    /\ outbox' = [e \in DOMAIN outbox |-> Stamped(e)]
    /\ UNCHANGED <<call_streams, retired_calls, turn>>

\* close(), and the kernel's release of lock and connection when the owner dies.
Close ==
    /\ opened
    /\ opened' = FALSE
    /\ UNCHANGED <<outbox, call_streams, retired_calls, turn>>

-----------------------------------------------------------------------------
(* insert_pending: durable admission *)

Bytes(S) == MapThenSumSet(LAMBDA d : PayloadSize[d], S)

NoRoomBesideUncounted(S, e) ==                                     \* mutant
    \/ Cardinality(S) >= MaxRows
    \/ Bytes(S) > MaxBytes

\* e does not fit beside the rows S.
NoRoomBeside(S, e) ==
    \/ Cardinality(S) >= MaxRows
    \/ Bytes(S) + PayloadSize[e] > MaxBytes

ReclaimableOrdered ==                                              \* mutant
    {d \in DOMAIN outbox : /\ outbox[d].state = "dead"
                           /\ outbox[d].last_error = "expired_ttl"}

\* Only rows without a call may be given up; an ordered dead row is a barrier.
Reclaimable ==
    {d \in DOMAIN outbox : /\ outbox[d].state = "dead"
                           /\ outbox[d].last_error = "expired_ttl"
                           /\ ~Ordered(d)}

\* The rows left once room has been made for e.
Retained(e) ==
    IF NoRoomBeside(DOMAIN outbox, e) THEN DOMAIN outbox \ Reclaimable
                                      ELSE DOMAIN outbox

Mode(rec) == IF rec.call_seq < 0 THEN "admission" ELSE "source"

\* The cursor of the request's call, a fresh one if the call is new.
StreamFor(rec) ==
    IF rec.call_uuid \in DOMAIN call_streams
    THEN call_streams[rec.call_uuid]
    ELSE [msg_key |-> rec.msg_key, mode |-> Mode(rec),
          next_seq |-> 0, admit_seq |-> 0, last_served_ms |-> 0]

SeqFor(rec) == IF rec.call_seq < 0 THEN StreamFor(rec).admit_seq ELSE rec.call_seq

NotRetiredUnchecked(rec) == TRUE                                   \* mutant

NotRetired(rec) == rec.call_uuid \notin DOMAIN retired_calls

SameStreamAnyMode(rec) ==                                          \* mutant
    rec.msg_key # NoKey /\ StreamFor(rec).msg_key = rec.msg_key

\* A call has a key, and keeps its key and its way of numbering.
SameStream(rec) ==
    /\ rec.msg_key # NoKey
    /\ StreamFor(rec).msg_key = rec.msg_key
    /\ StreamFor(rec).mode = Mode(rec)

SeqOpenUnbounded(rec) ==                                           \* mutant
    rec.call_seq >= 0 => rec.call_seq >= StreamFor(rec).next_seq

SeqOpenAcked(rec) == SeqFor(rec) < MaxInt64                        \* mutant

\* A source number is not acknowledged yet, and the successor fits 64 bits.
SeqOpen(rec) ==
    /\ rec.call_seq >= 0 => rec.call_seq >= StreamFor(rec).next_seq
    /\ SeqFor(rec) < MaxInt64

StreamFits(rec) ==
    \/ rec.call_uuid \in DOMAIN call_streams
    \/ Cardinality(DOMAIN call_streams) < MaxRows

\* The unique index on (topic, call_uuid, call_seq).
SeqFree(e, rec) ==
    \A d \in Retained(e) : \/ outbox[d].call_uuid # rec.call_uuid
                           \/ outbox[d].call_seq # SeqFor(rec)

\* The request agrees with the durable state of its call.
OrderAdmits(e, rec) ==
    /\ NotRetired(rec)
    /\ SameStream(rec)
    /\ SeqOpen(rec)
    /\ StreamFits(rec)
    /\ SeqFree(e, rec)

\* insert_pending(rec) succeeds for event e, whose identifier make_event_id
\* has just drawn and no stored row carries.
CanInsert(e, rec) ==
    /\ opened
    /\ e \notin DOMAIN outbox
    /\ ~NoRoomBeside(Retained(e), e)
    /\ IF rec.call_uuid = Ungrouped THEN rec.call_seq < 0 ELSE OrderAdmits(e, rec)

NewRow(rec, now) ==
    [call_uuid |-> rec.call_uuid,
     msg_key |-> rec.msg_key,
     call_seq |-> IF rec.call_uuid = Ungrouped THEN -1 ELSE SeqFor(rec),
     state |-> "pending",
     attempts |-> 0,
     next_attempt_at_ms |-> now,
     last_error |-> "none",
     created_at_ms |-> now,
     eligible_at_ms |-> IF \/ rec.call_uuid = Ungrouped
                           \/ SeqFor(rec) = StreamFor(rec).next_seq
                        THEN now ELSE Null]

AdmittedOverwrites(rec) ==                                         \* mutant
    [StreamFor(rec) EXCEPT !.admit_seq = SeqFor(rec) + 1]

\* The cursor after SeqFor(rec) has been admitted.
Admitted(rec) ==
    LET s == StreamFor(rec) IN
    [s EXCEPT !.admit_seq = IF @ > SeqFor(rec) THEN @ ELSE SeqFor(rec) + 1]

InsertPending(e, rec, now) ==
    /\ CanInsert(e, rec)
    /\ outbox' = [d \in Retained(e) \cup {e} |->
                    IF d = e THEN NewRow(rec, now) ELSE outbox[d]]
    /\ call_streams' =
         IF rec.call_uuid = Ungrouped THEN call_streams
         ELSE [c \in DOMAIN call_streams \cup {rec.call_uuid} |->
                 IF c = rec.call_uuid THEN Admitted(rec) ELSE call_streams[c]]
    /\ UNCHANGED <<retired_calls, turn, opened>>

-----------------------------------------------------------------------------
(* fetch_due: which rows the worker may send next, and in which order *)

DueAnyState(now) ==                                                \* mutant
    {e \in DOMAIN outbox : outbox[e].next_attempt_at_ms <= now /\ Deliverable(e)}

Due(now) ==
    {e \in DOMAIN outbox : /\ outbox[e].state = "pending"
                           /\ outbox[e].next_attempt_at_ms <= now
                           /\ Deliverable(e)}

LastServed(e) ==
    IF Ordered(e) THEN call_streams[outbox[e].call_uuid].last_served_ms ELSE 0

\* ORDER BY last served turn, then creation time.
Before(d, e) ==
    \/ LastServed(d) < LastServed(e)
    \/ /\ LastServed(d) = LastServed(e)
       /\ outbox[d].created_at_ms < outbox[e].created_at_ms

\* The lists the query may return: rowid breaks ties and is not modelled, so
\* rows with equal sort keys come in any order.
FetchDue(now, limit) ==
    LET due == Due(now)
        n == IF Cardinality(due) < limit THEN Cardinality(due) ELSE limit
    IN  {s \in [1 .. n -> due] :
           /\ \A i, j \in 1 .. n : i < j => s[i] # s[j] /\ ~Before(s[j], s[i])
           /\ \A e \in due : (\A i \in 1 .. n : s[i] # e) =>
                               \A i \in 1 .. n : ~Before(e, s[i])}

-----------------------------------------------------------------------------
(* mark_in_flight, mark_acked, mark_retry, mark_dead *)

CanMarkInFlightAnyRow(e) ==                                        \* mutant
    /\ opened
    /\ e \in DOMAIN outbox
    /\ outbox[e].state = "pending"
    /\ turn < MaxInt64

CanMarkInFlightUnbounded(e) ==                                     \* mutant
    /\ opened
    /\ e \in DOMAIN outbox
    /\ outbox[e].state = "pending"
    /\ Deliverable(e)

CanMarkInFlight(e) ==
    /\ opened
    /\ e \in DOMAIN outbox
    /\ outbox[e].state = "pending"
    /\ Deliverable(e)
    /\ turn < MaxInt64

ServedByOwnCount(s) == [s EXCEPT !.last_served_ms = @ + 1]         \* mutant

\* The call has just been served: it goes to the back of the schedule.
Served(s) == [s EXCEPT !.last_served_ms = turn + 1]

MarkInFlight(e) ==
    /\ CanMarkInFlight(e)
    /\ outbox' = [outbox EXCEPT ![e].state = "in_flight", ![e].attempts = @ + 1]
    /\ turn' = turn + 1
    /\ call_streams' = IF Ordered(e)
                       THEN [call_streams EXCEPT ![outbox[e].call_uuid] = Served(@)]
                       ELSE call_streams
    /\ UNCHANGED <<retired_calls, opened>>

CanAck(e) ==
    /\ opened
    /\ e \in DOMAIN outbox
    /\ outbox[e].state = "in_flight"
    /\ Deliverable(e)

PromotedNever(d, e, now) == outbox[d]                              \* mutant

\* The row d once its predecessor e is acknowledged at time now.
Promoted(d, e, now) ==
    IF /\ Ordered(e)
       /\ outbox[d].call_uuid = outbox[e].call_uuid
       /\ outbox[d].call_seq = outbox[e].call_seq + 1
       /\ outbox[d].eligible_at_ms = Null
    THEN [outbox[d] EXCEPT !.eligible_at_ms = now]
    ELSE outbox[d]

MarkAcked(e, now) ==
    /\ CanAck(e)
    /\ outbox' = [d \in DOMAIN outbox \ {e} |-> Promoted(d, e, now)]
    /\ call_streams' = IF Ordered(e)
                       THEN [call_streams EXCEPT ![outbox[e].call_uuid].next_seq = @ + 1]
                       ELSE call_streams
    /\ UNCHANGED <<retired_calls, turn, opened>>

InFlight(e) ==
    /\ opened
    /\ e \in DOMAIN outbox
    /\ outbox[e].state = "in_flight"

MarkRetry(e, next) ==
    /\ InFlight(e)
    /\ outbox' = [outbox EXCEPT ![e].state = "pending",
                                ![e].next_attempt_at_ms = next,
                                ![e].last_error = "send_error"]
    /\ UNCHANGED <<call_streams, retired_calls, turn, opened>>

\* The interface also lets a pending row be killed, whatever its position.
MarkDead(e) ==
    /\ opened
    /\ e \in DOMAIN outbox
    /\ outbox[e].state \in {"pending", "in_flight"}
    /\ outbox' = [outbox EXCEPT ![e].state = "dead", ![e].last_error = "send_error"]
    /\ UNCHANGED <<call_streams, retired_calls, turn, opened>>

-----------------------------------------------------------------------------
(* retry_dead, requeue_in_flight, expire_ttl *)

RetryDeadAnew(e, now) ==                                           \* mutant
    /\ opened
    /\ e \in DOMAIN outbox
    /\ outbox[e].state = "dead"
    /\ outbox' = [outbox EXCEPT ![e].state = "pending",
                                ![e].next_attempt_at_ms = now,
                                ![e].eligible_at_ms = now]
    /\ UNCHANGED <<call_streams, retired_calls, turn, opened>>

RetryDead(e, now) ==
    /\ opened
    /\ e \in DOMAIN outbox
    /\ outbox[e].state = "dead"
    /\ outbox' = [outbox EXCEPT ![e].state = "pending",
                                ![e].next_attempt_at_ms = now,
                                ![e].last_error = "none"]
    /\ UNCHANGED <<call_streams, retired_calls, turn, opened>>

Requeued(e, now) ==
    IF outbox[e].state = "in_flight"
    THEN [outbox[e] EXCEPT !.state = "pending", !.next_attempt_at_ms = now]
    ELSE outbox[e]

RequeueInFlight(now) ==
    /\ opened
    /\ outbox' = [e \in DOMAIN outbox |-> Requeued(e, now)]
    /\ UNCHANGED <<call_streams, retired_calls, turn, opened>>

ExpiredByCreation(e, now) ==                                       \* mutant
    /\ Ttl > 0
    /\ outbox[e].state = "pending"
    /\ now - outbox[e].created_at_ms > Ttl

\* Waiting behind an earlier event does not count: only a deliverable row ages.
Expired(e, now) ==
    /\ Ttl > 0
    /\ outbox[e].state = "pending"
    /\ outbox[e].eligible_at_ms # Null
    /\ now - outbox[e].eligible_at_ms > Ttl
    /\ Deliverable(e)

ExpireTtl(now) ==
    /\ opened
    /\ outbox' = [e \in DOMAIN outbox |->
                    IF Expired(e, now)
                    THEN [outbox[e] EXCEPT !.state = "dead", !.last_error = "expired_ttl"]
                    ELSE outbox[e]]
    /\ UNCHANGED <<call_streams, retired_calls, turn, opened>>

-----------------------------------------------------------------------------
(* scripts/outbox_ops.py retire: offline, on a database nobody has open. *)
(* The published copy replaces the database.                             *)

CanRetireWithRows(c) ==                                            \* mutant
    /\ ~opened
    /\ c \in DOMAIN call_streams
    /\ Cardinality(DOMAIN retired_calls) < MaxRows

CanRetire(c) ==
    /\ ~opened
    /\ c \in DOMAIN call_streams
    /\ call_streams[c].next_seq = call_streams[c].admit_seq
    /\ \A e \in DOMAIN outbox : outbox[e].call_uuid # c
    /\ Cardinality(DOMAIN retired_calls) < MaxRows
    /\ Cardinality(DOMAIN outbox) <= MaxRows
    /\ Cardinality(DOMAIN call_streams) <= MaxRows + 1

Retire(c) ==
    /\ CanRetire(c)
    /\ retired_calls' = [b \in DOMAIN retired_calls \cup {c} |->
                           IF b = c THEN call_streams[c].next_seq ELSE retired_calls[b]]
    /\ call_streams' = [b \in DOMAIN call_streams \ {c} |-> call_streams[b]]
    /\ UNCHANGED <<outbox, turn, opened>>

-----------------------------------------------------------------------------
OutboxInit ==
    /\ outbox = [e \in {} |-> {}]
    /\ call_streams = [c \in {} |-> {}]
    /\ retired_calls = [c \in {} |-> {}]
    /\ turn = 0
    /\ opened = FALSE

OutboxNext ==
    \/ Open
    \/ Close
    \/ \E c \in Call : Retire(c)
    \/ \E now \in Time : RequeueInFlight(now) \/ ExpireTtl(now)
    \/ \E e \in EventId, rec \in Request, now \in Time : InsertPending(e, rec, now)
    \/ \E e \in EventId : MarkInFlight(e) \/ MarkDead(e)
    \/ \E e \in EventId, now \in Time :
         MarkAcked(e, now) \/ MarkRetry(e, now) \/ RetryDead(e, now)

OutboxSpec == OutboxInit /\ [][OutboxNext]_obvars

-----------------------------------------------------------------------------
(* Correctness *)

\* Every column keeps its type, and no sequence number, attempt count or turn
\* leaves the 64-bit range although the code adds one to all of them: the
\* guards of insert_pending and mark_in_flight are the only protection.
OutboxTypeOK ==
    /\ DOMAIN outbox \subseteq EventId
    /\ outbox \in [DOMAIN outbox -> Row]
    /\ DOMAIN call_streams \subseteq Call
    /\ call_streams \in [DOMAIN call_streams -> Stream]
    /\ DOMAIN retired_calls \subseteq Call
    /\ retired_calls \in [DOMAIN retired_calls -> 0 .. MaxInt64]
    /\ turn \in 0 .. MaxInt64
    /\ opened \in BOOLEAN

\* An ordered row belongs to a live cursor with the same key, and its ordinal
\* lies between the next one to acknowledge and the next one to assign: an
\* acknowledged ordinal is never stored again and none is assigned twice
\* (insert_pending against mark_acked and retire).
RowsWithinWindow ==
    \A e \in DOMAIN outbox :
        IF Ordered(e)
        THEN /\ outbox[e].call_uuid \in DOMAIN call_streams
             /\ outbox[e].msg_key = call_streams[outbox[e].call_uuid].msg_key
             /\ outbox[e].call_seq >= call_streams[outbox[e].call_uuid].next_seq
             /\ outbox[e].call_seq < call_streams[outbox[e].call_uuid].admit_seq
        ELSE outbox[e].call_seq = -1

\* No two rows of a call carry the same ordinal.
OrdinalsUnique ==
    \A d, e \in DOMAIN outbox :
        /\ d # e
        /\ Ordered(d)
        /\ outbox[d].call_uuid = outbox[e].call_uuid
        => outbox[d].call_seq # outbox[e].call_seq

\* Head-of-line blocking: whatever mixture of acknowledgements, retries,
\* expiries and restarts came before, only the head of a call is in flight.
InFlightIsHead ==
    \A e \in DOMAIN outbox : outbox[e].state = "in_flight" => Deliverable(e)

\* In admission mode no ordinal goes missing: every ordinal assigned and not yet
\* acknowledged is stored, so the cursor can never wait for a hole.
AdmissionContiguous ==
    \A c \in DOMAIN call_streams :
        call_streams[c].mode = "admission" =>
            \A n \in call_streams[c].next_seq .. call_streams[c].admit_seq - 1 :
                \E e \in DOMAIN outbox :
                    outbox[e].call_uuid = c /\ outbox[e].call_seq = n

\* The TTL clock of a row runs exactly while it can be delivered: a successor
\* waiting behind its head has no stamp, and whoever becomes head has one, by
\* insert_pending, by mark_acked's promotion or by open.
AgeIffDeliverable ==
    \A e \in DOMAIN outbox :
        /\ outbox[e].eligible_at_ms # Null => Deliverable(e)
        /\ opened /\ Deliverable(e) => outbox[e].eligible_at_ms # Null

\* A retired call is gone for good: no cursor and no row of it reappear.
FenceHolds ==
    \A c \in DOMAIN retired_calls :
        /\ c \notin DOMAIN call_streams
        /\ \A e \in DOMAIN outbox : outbox[e].call_uuid # c

\* Service turns order the calls totally: two calls were never served at the
\* same turn, and none at a turn still to come, so "least recently served" in
\* fetch_due has one meaning across restarts and clock changes.
TurnsDistinct ==
    \A b, c \in DOMAIN call_streams :
        /\ call_streams[c].last_served_ms <= turn
        /\ b # c /\ call_streams[b].last_served_ms = call_streams[c].last_served_ms
           => call_streams[c].last_served_ms = 0

\* The configured limits hold for rows, bytes, cursors and fences together.
WithinCapacity ==
    /\ Cardinality(DOMAIN outbox) <= MaxRows
    /\ Bytes(DOMAIN outbox) <= MaxBytes
    /\ Cardinality(DOMAIN call_streams) <= MaxRows
    /\ Cardinality(DOMAIN retired_calls) <= MaxRows

\* A dead row of a call is its head: under the pipeline, unlike the bare
\* interface, nothing that still waits behind another row is ever killed.
DeadIsHead ==
    \A e \in DOMAIN outbox : outbox[e].state = "dead" => Deliverable(e)

\* open() never refuses a database that only this code has written.
NeverCorrupt == ~Corrupt

-----------------------------------------------------------------------------
(* Correctness of the single step: the action properties below *)

LeavingIsSettled ==
    \A e \in DOMAIN outbox \ DOMAIN outbox' :
        IF Ordered(e)
        THEN /\ outbox[e].state = "in_flight"
             /\ Deliverable(e)
             /\ call_streams'[outbox[e].call_uuid].next_seq = outbox[e].call_seq + 1
        ELSE outbox[e].state = "in_flight" \/ e \in Reclaimable

CursorMovesByAck ==
    \A c \in DOMAIN call_streams \cap DOMAIN call_streams' :
        /\ call_streams'[c].msg_key = call_streams[c].msg_key
        /\ call_streams'[c].mode = call_streams[c].mode
        /\ call_streams'[c].admit_seq >= call_streams[c].admit_seq
        /\ \/ call_streams'[c].next_seq = call_streams[c].next_seq
           \/ /\ call_streams'[c].next_seq = call_streams[c].next_seq + 1
              /\ \E e \in DOMAIN outbox \ DOMAIN outbox' :
                   /\ outbox[e].call_uuid = c
                   /\ outbox[e].call_seq = call_streams[c].next_seq

IdentityKept ==
    \A e \in DOMAIN outbox \cap DOMAIN outbox' :
        /\ outbox'[e].call_uuid = outbox[e].call_uuid
        /\ outbox'[e].msg_key = outbox[e].msg_key
        /\ outbox'[e].call_seq = outbox[e].call_seq
        /\ outbox'[e].created_at_ms = outbox[e].created_at_ms
        /\ outbox[e].eligible_at_ms # Null =>
               outbox'[e].eligible_at_ms = outbox[e].eligible_at_ms

\* A row leaves the table only when it is acknowledged in flight, with the
\* cursor moving past it, or as an expired row without a call given up for room.
LeavesOnlyWhenSettled == [][LeavingIsSettled]_obvars

\* The cursor of a call moves only over a row acknowledged in the same
\* transaction, one ordinal at a time, and a call keeps its key, its mode and
\* what it has promised to admit for as long as the cursor exists.
CursorFollowsAck == [][CursorMovesByAck]_obvars

\* An event never changes its identity: key, call, ordinal and age stamp of a
\* row survive retries, requeues, expiry and an operator's retry_dead.
IdentityStable == [][IdentityKept]_obvars

=============================================================================
