---------------------------- MODULE OutboxProofs ----------------------------
(***************************************************************************)
(* TLAPS proofs about module Outbox, for every value of its constants.     *)
(***************************************************************************)
EXTENDS Outbox, Sequences, FiniteSetTheorems, WellFoundedInduction, TLAPS

(***************************************************************************)
(* The inductive invariant.  OutboxTypeOK alone is not inductive: that     *)
(* next_seq + 1 stays in range needs a stored head below admit_seq         *)
(* (RowsWithinWindow), that attempts + 1 does needs attempts <= turn.      *)
(***************************************************************************)
CursorOrder ==
    \A c \in DOMAIN call_streams : call_streams[c].next_seq <= call_streams[c].admit_seq

AttemptsWithinTurn == \A e \in DOMAIN outbox : outbox[e].attempts <= turn

OutboxInv ==
    /\ OutboxTypeOK
    /\ CursorOrder
    /\ AttemptsWithinTurn
    /\ RowsWithinWindow
    /\ OrdinalsUnique
    /\ InFlightIsHead
    /\ AgeIffDeliverable
    /\ FenceHolds
    /\ TurnsDistinct
    /\ AdmissionContiguous

\* The part of it that a database upgraded from an older version has too: its
\* rows may have been tried before turns were counted, calls may have been served
\* at the same time, and any of its rows may have been left in flight.
OutboxCore ==
    /\ OutboxTypeOK
    /\ CursorOrder
    /\ RowsWithinWindow
    /\ OrdinalsUnique
    /\ AgeIffDeliverable
    /\ FenceHolds
    /\ AdmissionContiguous

\* The core is part of the invariant.
LEMMA InvHasCore == OutboxInv => OutboxCore
BY DEF OutboxInv, OutboxCore

-----------------------------------------------------------------------------
\* Room is made only by removing rows: what insert_pending retains was stored.
LEMMA RetainedStored == ASSUME NEW e PROVE Retained(e) \subseteq DOMAIN outbox
BY DEF Retained

\* No row of a call is given up for room.
LEMMA RetainedOrdered ==
    ASSUME NEW e, NEW d \in DOMAIN outbox, Ordered(d)
    PROVE  d \in Retained(e)
BY DEF Retained, Reclaimable

\* A step that leaves cursors, fences and the identity of every row alone keeps
\* the core if it keeps the age stamps of the rows in step with the cursors.
LEMMA RowsTouchedCore ==
    ASSUME OutboxCore,
           UNCHANGED <<call_streams, retired_calls>>,
           turn' \in 0 .. MaxInt64,
           opened' \in BOOLEAN,
           DOMAIN outbox' = DOMAIN outbox,
           outbox' \in [DOMAIN outbox' -> Row],
           \A e \in DOMAIN outbox :
              /\ outbox'[e].call_uuid = outbox[e].call_uuid
              /\ outbox'[e].msg_key = outbox[e].msg_key
              /\ outbox'[e].call_seq = outbox[e].call_seq
              /\ outbox'[e].eligible_at_ms # Null => Deliverable(e)
              /\ opened' /\ Deliverable(e) => outbox'[e].eligible_at_ms # Null
    PROVE  OutboxCore'
<1>1. OutboxTypeOK'
  BY DEF OutboxCore, OutboxTypeOK
<1>2. CursorOrder'
  BY DEF OutboxCore, CursorOrder
<1>3. RowsWithinWindow'
  BY DEF OutboxCore, RowsWithinWindow, Ordered
<1>4. OrdinalsUnique'
  BY DEF OutboxCore, OrdinalsUnique, Ordered
<1>5. \A e \in DOMAIN outbox : Deliverable(e)' <=> Deliverable(e)
  BY DEF Deliverable, Ordered
<1>6. AgeIffDeliverable'
  BY <1>5 DEF AgeIffDeliverable
<1>7. FenceHolds' /\ AdmissionContiguous'
  BY DEF OutboxCore, FenceHolds, AdmissionContiguous
<1> QED
  BY <1>1, <1>2, <1>3, <1>4, <1>6, <1>7 DEF OutboxCore

\* If it also leaves turns and attempts alone and puts no row in flight, it keeps
\* the whole invariant.
LEMMA RowsTouched ==
    ASSUME OutboxInv,
           UNCHANGED <<call_streams, retired_calls, turn>>,
           opened' \in BOOLEAN,
           DOMAIN outbox' = DOMAIN outbox,
           outbox' \in [DOMAIN outbox' -> Row],
           \A e \in DOMAIN outbox :
              /\ outbox'[e].call_uuid = outbox[e].call_uuid
              /\ outbox'[e].msg_key = outbox[e].msg_key
              /\ outbox'[e].call_seq = outbox[e].call_seq
              /\ outbox'[e].attempts = outbox[e].attempts
              /\ outbox'[e].state = "in_flight" => outbox[e].state = "in_flight"
              /\ outbox'[e].eligible_at_ms # Null => Deliverable(e)
              /\ opened' /\ Deliverable(e) => outbox'[e].eligible_at_ms # Null
    PROVE  OutboxInv'
<1>1. OutboxCore'
  BY InvHasCore, RowsTouchedCore DEF OutboxInv, OutboxTypeOK
<1>2. TurnsDistinct' /\ AttemptsWithinTurn'
  BY DEF OutboxInv, TurnsDistinct, AttemptsWithinTurn
<1>3. InFlightIsHead'
  BY DEF OutboxInv, InFlightIsHead, Deliverable, Ordered
<1> QED
  BY <1>1, <1>2, <1>3 DEF OutboxInv, OutboxCore

-----------------------------------------------------------------------------
(* One lemma per operation *)

\* open() stamps exactly the rows that can be delivered and have no stamp,
\* whatever turn it seeds the scheduler with.
LEMMA StampCore ==
    ASSUME OutboxCore, outbox' = [e \in DOMAIN outbox |-> Stamped(e)],
           UNCHANGED <<call_streams, retired_calls>>,
           turn' \in 0 .. MaxInt64, opened' \in BOOLEAN
    PROVE  OutboxCore'
<1>1. \A e \in DOMAIN outbox : Stamped(e) \in Row
  BY DEF OutboxCore, OutboxTypeOK, Stamped, Row
<1>2. DOMAIN outbox' = DOMAIN outbox /\ outbox' \in [DOMAIN outbox' -> Row]
  BY <1>1
<1>3. \A e \in DOMAIN outbox :
        /\ outbox[e].created_at_ms # Null
        /\ outbox[e] \in Row
  BY TimeAssumption DEF OutboxCore, OutboxTypeOK, Row
<1>4. \A e \in DOMAIN outbox :
        /\ Stamped(e).call_uuid = outbox[e].call_uuid
        /\ Stamped(e).msg_key = outbox[e].msg_key
        /\ Stamped(e).call_seq = outbox[e].call_seq
        /\ Stamped(e).eligible_at_ms # Null => Deliverable(e)
        /\ Deliverable(e) => Stamped(e).eligible_at_ms # Null
  BY <1>3 DEF OutboxCore, AgeIffDeliverable, Stamped, Row
<1> QED
  BY <1>2, <1>4, RowsTouchedCore

\* open() on a database of this version leaves turns and flights alone.
LEMMA OpenInv == OutboxInv /\ Open => OutboxInv'
<1> SUFFICES ASSUME OutboxInv, Open PROVE OutboxInv'
  OBVIOUS
<1>1. OutboxCore'
  BY InvHasCore, StampCore DEF Open, OutboxInv, OutboxTypeOK
<1>2. \A e \in DOMAIN outbox : outbox[e] \in Row
  BY DEF OutboxInv, OutboxTypeOK
<1>3. /\ DOMAIN outbox' = DOMAIN outbox /\ UNCHANGED <<call_streams, turn>>
      /\ \A e \in DOMAIN outbox : /\ outbox'[e].attempts = outbox[e].attempts
                                  /\ outbox'[e].state = outbox[e].state
                                  /\ outbox'[e].call_uuid = outbox[e].call_uuid
                                  /\ outbox'[e].call_seq = outbox[e].call_seq
  BY <1>2 DEF Open, Stamped, Row
<1>4. AttemptsWithinTurn' /\ TurnsDistinct' /\ InFlightIsHead'
  BY <1>3
  DEF OutboxInv, AttemptsWithinTurn, TurnsDistinct, InFlightIsHead, Deliverable, Ordered
<1> QED
  BY <1>1, <1>4 DEF OutboxInv, OutboxCore

\* close() leaves the tables alone.
LEMMA CloseInv == OutboxInv /\ Close => OutboxInv'
<1> SUFFICES ASSUME OutboxInv, Close PROVE OutboxInv'
  OBVIOUS
<1> QED
  BY RowsTouched DEF Close, OutboxInv, OutboxTypeOK, AgeIffDeliverable

\* A retry makes the head pending again, with its stamp.
LEMMA MarkRetryInv ==
    ASSUME OutboxInv, NEW e \in EventId, NEW next \in Time, MarkRetry(e, next)
    PROVE  OutboxInv'
<1>1. outbox' \in [DOMAIN outbox -> Row]
  BY DEF OutboxInv, OutboxTypeOK, MarkRetry, InFlight, Row
<1>2. \A d \in DOMAIN outbox : outbox[d] \in Row
  BY DEF OutboxInv, OutboxTypeOK
<1> QED
  BY <1>1, <1>2, RowsTouched
  DEF MarkRetry, InFlight, OutboxInv, OutboxTypeOK, AgeIffDeliverable, Row

\* A dead row keeps its place, its stamp and its ordinal.
LEMMA MarkDeadInv ==
    ASSUME OutboxInv, NEW e \in EventId, MarkDead(e)
    PROVE  OutboxInv'
<1>1. outbox' \in [DOMAIN outbox -> Row]
  BY DEF OutboxInv, OutboxTypeOK, MarkDead, Row
<1>2. \A d \in DOMAIN outbox : outbox[d] \in Row
  BY DEF OutboxInv, OutboxTypeOK
<1> QED
  BY <1>1, <1>2, RowsTouched
  DEF MarkDead, OutboxInv, OutboxTypeOK, AgeIffDeliverable, Row

\* A revived row is pending with the stamp it had.
LEMMA RetryDeadInv ==
    ASSUME OutboxInv, NEW e \in EventId, NEW now \in Time, RetryDead(e, now)
    PROVE  OutboxInv'
<1>1. outbox' \in [DOMAIN outbox -> Row]
  BY DEF OutboxInv, OutboxTypeOK, RetryDead, Row
<1>2. \A d \in DOMAIN outbox : outbox[d] \in Row
  BY DEF OutboxInv, OutboxTypeOK
<1> QED
  BY <1>1, <1>2, RowsTouched
  DEF RetryDead, OutboxInv, OutboxTypeOK, AgeIffDeliverable, Row

\* A requeue changes the state of rows and when they are due.
LEMMA RequeueCore ==
    ASSUME OutboxCore, NEW now \in Time, RequeueInFlight(now)
    PROVE  OutboxCore'
<1>1. \A e \in DOMAIN outbox : outbox[e] \in Row
  BY DEF OutboxCore, OutboxTypeOK
<1>2. \A e \in DOMAIN outbox :
        /\ Requeued(e, now) \in Row
        /\ Requeued(e, now).call_uuid = outbox[e].call_uuid
        /\ Requeued(e, now).msg_key = outbox[e].msg_key
        /\ Requeued(e, now).call_seq = outbox[e].call_seq
        /\ Requeued(e, now).eligible_at_ms = outbox[e].eligible_at_ms
  BY <1>1 DEF Requeued, Row
<1>3. opened' /\ opened /\ turn' = turn /\ turn \in 0 .. MaxInt64
  BY DEF RequeueInFlight, OutboxCore, OutboxTypeOK
<1> QED
  BY <1>2, <1>3, RowsTouchedCore DEF RequeueInFlight, OutboxCore, AgeIffDeliverable

\* After the requeue no row is in flight.
LEMMA RequeueInFlightInv ==
    ASSUME OutboxInv, NEW now \in Time, RequeueInFlight(now)
    PROVE  OutboxInv'
<1>1. \A e \in DOMAIN outbox : outbox[e] \in Row
  BY DEF OutboxInv, OutboxTypeOK
<1>2. /\ DOMAIN outbox' = DOMAIN outbox /\ UNCHANGED <<call_streams, turn>>
      /\ \A e \in DOMAIN outbox : /\ outbox'[e].attempts = outbox[e].attempts
                                  /\ outbox'[e].state # "in_flight"
  BY <1>1 DEF RequeueInFlight, Requeued, Row
<1>3. AttemptsWithinTurn' /\ TurnsDistinct' /\ InFlightIsHead'
  BY <1>2 DEF OutboxInv, AttemptsWithinTurn, TurnsDistinct, InFlightIsHead
<1>4. OutboxCore'
  BY InvHasCore, RequeueCore
<1> QED
  BY <1>3, <1>4 DEF OutboxInv, OutboxCore

\* Expiry changes the state of rows and nothing else.
LEMMA ExpireTtlInv ==
    ASSUME OutboxInv, NEW now \in Time, ExpireTtl(now)
    PROVE  OutboxInv'
<1> DEFINE After(e) == IF Expired(e, now)
                       THEN [outbox[e] EXCEPT !.state = "dead", !.last_error = "expired_ttl"]
                       ELSE outbox[e]
<1>1. \A e \in DOMAIN outbox : outbox[e] \in Row
  BY DEF OutboxInv, OutboxTypeOK
<1>2. \A e \in DOMAIN outbox :
        /\ After(e) \in Row
        /\ After(e).call_uuid = outbox[e].call_uuid
        /\ After(e).msg_key = outbox[e].msg_key
        /\ After(e).call_seq = outbox[e].call_seq
        /\ After(e).attempts = outbox[e].attempts
        /\ After(e).state = "in_flight" => outbox[e].state = "in_flight"
        /\ After(e).eligible_at_ms = outbox[e].eligible_at_ms
  BY <1>1 DEF Row
<1>3. outbox' = [e \in DOMAIN outbox |-> After(e)] /\ opened' /\ opened
  BY DEF ExpireTtl
<1>4. UNCHANGED <<call_streams, retired_calls, turn, opened>>
  BY DEF ExpireTtl
<1>5. AgeIffDeliverable
  BY DEF OutboxInv
<1> HIDE DEF After
<1>6. \A e \in DOMAIN outbox :
        /\ outbox'[e] = After(e)
        /\ outbox'[e].eligible_at_ms # Null => Deliverable(e)
        /\ Deliverable(e) => outbox'[e].eligible_at_ms # Null
  BY <1>2, <1>3, <1>5 DEF AgeIffDeliverable
<1>7. DOMAIN outbox' = DOMAIN outbox /\ outbox' \in [DOMAIN outbox' -> Row]
  BY <1>2, <1>3
<1> QED
  BY <1>2, <1>3, <1>4, <1>6, <1>7, RowsTouched

\* What mark_in_flight does to rows and cursors, if the attempt can be counted.
LEMMA ServeEffect ==
    ASSUME OutboxCore, NEW e \in EventId, MarkInFlight(e), outbox[e].attempts < MaxInt64
    PROVE  /\ DOMAIN outbox' = DOMAIN outbox
           /\ \A d \in DOMAIN outbox :
                /\ outbox'[d] \in Row
                /\ outbox'[d].call_uuid = outbox[d].call_uuid
                /\ outbox'[d].msg_key = outbox[d].msg_key
                /\ outbox'[d].call_seq = outbox[d].call_seq
                /\ outbox'[d].eligible_at_ms = outbox[d].eligible_at_ms
                /\ outbox'[d].attempts <= outbox[d].attempts + 1
                /\ outbox'[d].state = "in_flight" => outbox[d].state = "in_flight" \/ d = e
           /\ DOMAIN call_streams' = DOMAIN call_streams
           /\ \A b \in DOMAIN call_streams :
                /\ call_streams'[b] \in Stream
                /\ call_streams'[b].msg_key = call_streams[b].msg_key
                /\ call_streams'[b].mode = call_streams[b].mode
                /\ call_streams'[b].next_seq = call_streams[b].next_seq
                /\ call_streams'[b].admit_seq = call_streams[b].admit_seq
                /\ call_streams'[b].last_served_ms =
                     IF Ordered(e) /\ b = outbox[e].call_uuid
                     THEN turn + 1 ELSE call_streams[b].last_served_ms
           /\ turn \in Nat /\ turn < MaxInt64 /\ turn' = turn + 1
<1>1. /\ \A d \in DOMAIN outbox : outbox[d] \in Row
      /\ \A b \in DOMAIN call_streams : call_streams[b] \in Stream
      /\ e \in DOMAIN outbox
      /\ turn \in Nat /\ turn < MaxInt64 /\ turn' = turn + 1
      /\ MaxInt64 \in Nat
      /\ Ordered(e) => outbox[e].call_uuid \in DOMAIN call_streams
  BY LimitAssumption
  DEF OutboxCore, OutboxTypeOK, MarkInFlight, CanMarkInFlight, RowsWithinWindow
<1>2. outbox[e].attempts + 1 \in 0 .. MaxInt64
  BY <1>1 DEF Row
<1>3. /\ DOMAIN outbox' = DOMAIN outbox
      /\ \A d \in DOMAIN outbox :
           /\ outbox'[d] \in Row
           /\ outbox'[d].call_uuid = outbox[d].call_uuid
           /\ outbox'[d].msg_key = outbox[d].msg_key
           /\ outbox'[d].call_seq = outbox[d].call_seq
           /\ outbox'[d].eligible_at_ms = outbox[d].eligible_at_ms
           /\ outbox'[d].attempts <= outbox[d].attempts + 1
           /\ outbox'[d].state = "in_flight" => outbox[d].state = "in_flight" \/ d = e
  BY <1>1, <1>2 DEF MarkInFlight, Row
<1>4. /\ DOMAIN call_streams' = DOMAIN call_streams
      /\ \A b \in DOMAIN call_streams :
           /\ call_streams'[b] \in Stream
           /\ call_streams'[b].msg_key = call_streams[b].msg_key
           /\ call_streams'[b].mode = call_streams[b].mode
           /\ call_streams'[b].next_seq = call_streams[b].next_seq
           /\ call_streams'[b].admit_seq = call_streams[b].admit_seq
           /\ call_streams'[b].last_served_ms =
                IF Ordered(e) /\ b = outbox[e].call_uuid
                THEN turn + 1 ELSE call_streams[b].last_served_ms
  BY <1>1 DEF MarkInFlight, Served, Stream
<1> QED
  BY <1>1, <1>3, <1>4

\* Sending a head changes neither windows nor heads.
LEMMA MarkInFlightCore ==
    ASSUME OutboxCore, NEW e \in EventId, MarkInFlight(e), outbox[e].attempts < MaxInt64
    PROVE  OutboxCore' /\ \A d \in DOMAIN outbox : Deliverable(d)' <=> Deliverable(d)
<1>1. /\ DOMAIN outbox' = DOMAIN outbox
      /\ \A d \in DOMAIN outbox :
           /\ outbox'[d] \in Row
           /\ outbox'[d].call_uuid = outbox[d].call_uuid
           /\ outbox'[d].msg_key = outbox[d].msg_key
           /\ outbox'[d].call_seq = outbox[d].call_seq
           /\ outbox'[d].eligible_at_ms = outbox[d].eligible_at_ms
      /\ turn \in Nat /\ turn < MaxInt64 /\ turn' = turn + 1
  BY ServeEffect
<1>2. /\ DOMAIN call_streams' = DOMAIN call_streams
      /\ \A b \in DOMAIN call_streams :
           /\ call_streams'[b] \in Stream
           /\ call_streams'[b].msg_key = call_streams[b].msg_key
           /\ call_streams'[b].mode = call_streams[b].mode
           /\ call_streams'[b].next_seq = call_streams[b].next_seq
           /\ call_streams'[b].admit_seq = call_streams[b].admit_seq
  BY ServeEffect
<1>3. OutboxTypeOK'
  <2>1. outbox' \in [DOMAIN outbox' -> Row] /\ call_streams' \in [DOMAIN call_streams' -> Stream]
    BY <1>1, <1>2 DEF MarkInFlight, OutboxCore, OutboxTypeOK
  <2> QED
    BY <1>1, <1>2, <2>1, LimitAssumption DEF MarkInFlight, OutboxCore, OutboxTypeOK
<1>4. CursorOrder'
  BY <1>2 DEF OutboxCore, CursorOrder
<1>5. RowsWithinWindow' /\ OrdinalsUnique'
  BY <1>1, <1>2 DEF OutboxCore, RowsWithinWindow, OrdinalsUnique, Ordered
<1>6. \A d \in DOMAIN outbox : Deliverable(d)' <=> Deliverable(d)
  BY <1>1, <1>2 DEF Deliverable, Ordered
<1>7. AgeIffDeliverable'
  BY <1>1, <1>6 DEF OutboxCore, AgeIffDeliverable, MarkInFlight
<1>8. FenceHolds'
  BY <1>1, <1>2 DEF OutboxCore, FenceHolds, MarkInFlight
<1>9. AdmissionContiguous'
  BY <1>1, <1>2 DEF OutboxCore, AdmissionContiguous
<1> QED
  BY <1>3, <1>4, <1>5, <1>6, <1>7, <1>8, <1>9 DEF OutboxCore

\* Sending a head counts an attempt and moves its call to the back.
LEMMA MarkInFlightInv ==
    ASSUME OutboxInv, NEW e \in EventId, MarkInFlight(e)
    PROVE  OutboxInv'
<1>1. /\ OutboxCore /\ outbox[e].attempts < MaxInt64
      /\ \A d \in DOMAIN outbox : outbox[d].attempts \in Int
      /\ \A b \in DOMAIN call_streams : call_streams[b] \in Stream
  BY InvHasCore, LimitAssumption
  DEF OutboxInv, OutboxTypeOK, AttemptsWithinTurn, MarkInFlight, CanMarkInFlight, Row
<1>2. OutboxCore' /\ \A d \in DOMAIN outbox : Deliverable(d)' <=> Deliverable(d)
  BY <1>1, MarkInFlightCore
<1>3. /\ DOMAIN outbox' = DOMAIN outbox
      /\ \A d \in DOMAIN outbox :
           /\ outbox'[d].attempts <= outbox[d].attempts + 1 /\ outbox'[d] \in Row
           /\ outbox'[d].state = "in_flight" => outbox[d].state = "in_flight" \/ d = e
      /\ DOMAIN call_streams' = DOMAIN call_streams
      /\ \A b \in DOMAIN call_streams :
           call_streams'[b].last_served_ms =
                IF Ordered(e) /\ b = outbox[e].call_uuid
                THEN turn + 1 ELSE call_streams[b].last_served_ms
      /\ turn \in Nat /\ turn' = turn + 1
  BY <1>1, ServeEffect
<1>4. AttemptsWithinTurn'
  BY <1>1, <1>3 DEF OutboxInv, AttemptsWithinTurn, Row
<1>5. InFlightIsHead'
  BY <1>2, <1>3 DEF OutboxInv, InFlightIsHead, MarkInFlight, CanMarkInFlight
<1>6. TurnsDistinct'
  BY <1>1, <1>3 DEF OutboxInv, TurnsDistinct, Stream
<1> QED
  BY <1>2, <1>4, <1>5, <1>6 DEF OutboxInv, OutboxCore

\* Retiring a call with an empty window leaves no row behind.
LEMMA RetireCore ==
    ASSUME OutboxCore, NEW c \in DOMAIN call_streams,
           \A e \in DOMAIN outbox : outbox[e].call_uuid # c,
           outbox' = outbox,
           call_streams' = [b \in DOMAIN call_streams \ {c} |-> call_streams[b]],
           retired_calls' = [b \in DOMAIN retired_calls \cup {c} |->
                               IF b = c THEN call_streams[c].next_seq ELSE retired_calls[b]],
           turn' \in 0 .. MaxInt64, opened' = opened
    PROVE  OutboxCore' /\ \A d \in DOMAIN outbox : Deliverable(d)' <=> Deliverable(d)
<1>1. OutboxTypeOK'
  BY DEF OutboxCore, OutboxTypeOK, Stream
<1>2. CursorOrder'
  BY DEF OutboxCore, CursorOrder
<1>3. RowsWithinWindow' /\ OrdinalsUnique'
  BY DEF OutboxCore, RowsWithinWindow, OrdinalsUnique, Ordered
<1>4. \A d \in DOMAIN outbox : Deliverable(d)' <=> Deliverable(d)
  BY DEF Deliverable, Ordered
<1>5. AgeIffDeliverable'
  BY <1>4 DEF OutboxCore, AgeIffDeliverable
<1>6. FenceHolds'
  BY DEF OutboxCore, FenceHolds
<1>7. AdmissionContiguous'
  BY DEF OutboxCore, AdmissionContiguous
<1> QED
  BY <1>1, <1>2, <1>3, <1>4, <1>5, <1>6, <1>7 DEF OutboxCore

\* A retirement as Outbox has it also leaves turns and flights alone.
LEMMA RetireInv ==
    ASSUME OutboxInv, NEW c \in Call, Retire(c)
    PROVE  OutboxInv'
<1>1. OutboxCore' /\ \A d \in DOMAIN outbox : Deliverable(d)' <=> Deliverable(d)
  BY InvHasCore, RetireCore DEF Retire, CanRetire, OutboxInv, OutboxTypeOK
<1>2. AttemptsWithinTurn' /\ TurnsDistinct'
  BY DEF OutboxInv, AttemptsWithinTurn, TurnsDistinct, Retire
<1>3. InFlightIsHead'
  BY <1>1 DEF OutboxInv, InFlightIsHead, Retire
<1> QED
  BY <1>1, <1>2, <1>3 DEF OutboxInv, OutboxCore

\* An acknowledgement removes the head and moves the cursor to its successor.
LEMMA MarkAckedCore ==
    ASSUME OutboxCore, NEW e \in EventId, NEW now \in Time, MarkAcked(e, now)
    PROVE  OutboxCore' /\ \A d \in DOMAIN outbox' : Deliverable(d) => Deliverable(d)'
<1> DEFINE c == outbox[e].call_uuid
<1>1. /\ \A d \in DOMAIN outbox : outbox[d] \in Row
      /\ \A b \in DOMAIN call_streams : call_streams[b] \in Stream
      /\ e \in DOMAIN outbox /\ opened /\ opened'
      /\ now # Null /\ now \in Time
      /\ MaxInt64 \in Nat
  BY LimitAssumption, TimeAssumption DEF OutboxCore, OutboxTypeOK, MarkAcked, CanAck
<1>2. ASSUME Ordered(e)
      PROVE  /\ c \in DOMAIN call_streams
             /\ outbox[e].call_seq = call_streams[c].next_seq
             /\ call_streams[c].next_seq < call_streams[c].admit_seq
             /\ call_streams[c].next_seq + 1 \in 0 .. MaxInt64
  BY <1>1, <1>2
  DEF OutboxCore, RowsWithinWindow, MarkAcked, CanAck, Deliverable, Stream
<1>3. /\ DOMAIN outbox' = DOMAIN outbox \ {e}
      /\ \A d \in DOMAIN outbox' :
           /\ outbox'[d] \in Row
           /\ outbox'[d].call_uuid = outbox[d].call_uuid
           /\ outbox'[d].msg_key = outbox[d].msg_key
           /\ outbox'[d].call_seq = outbox[d].call_seq
           /\ outbox'[d].attempts = outbox[d].attempts
           /\ outbox'[d].state = outbox[d].state
           /\ outbox'[d].eligible_at_ms =
                IF /\ Ordered(e)
                   /\ outbox[d].call_uuid = c
                   /\ outbox[d].call_seq = outbox[e].call_seq + 1
                   /\ outbox[d].eligible_at_ms = Null
                THEN now ELSE outbox[d].eligible_at_ms
  BY <1>1 DEF MarkAcked, Promoted, Row
<1>4. /\ DOMAIN call_streams' = DOMAIN call_streams
      /\ \A b \in DOMAIN call_streams :
           /\ call_streams'[b] \in Stream
           /\ call_streams'[b].msg_key = call_streams[b].msg_key
           /\ call_streams'[b].mode = call_streams[b].mode
           /\ call_streams'[b].admit_seq = call_streams[b].admit_seq
           /\ call_streams'[b].last_served_ms = call_streams[b].last_served_ms
           /\ call_streams'[b].next_seq =
                IF Ordered(e) /\ b = c THEN call_streams[b].next_seq + 1
                                      ELSE call_streams[b].next_seq
  BY <1>1, <1>2 DEF MarkAcked, Stream
<1>5. \A d \in DOMAIN outbox' :
        Ordered(e) /\ outbox[d].call_uuid = c =>
            /\ outbox[d].call_seq > call_streams[c].next_seq
            /\ ~Deliverable(d)
  BY <1>1, <1>2, <1>3
  DEF OutboxCore, OrdinalsUnique, RowsWithinWindow, Deliverable, Ordered, Row, Stream
<1>6. OutboxTypeOK'
  <2>1. outbox' \in [DOMAIN outbox' -> Row] /\ call_streams' \in [DOMAIN call_streams' -> Stream]
    BY <1>3, <1>4 DEF MarkAcked, OutboxCore, OutboxTypeOK
  <2> QED
    BY <1>3, <1>4, <2>1 DEF MarkAcked, OutboxCore, OutboxTypeOK
<1>7. CursorOrder'
  BY <1>1, <1>2, <1>4 DEF OutboxCore, CursorOrder, MarkAcked, Stream
<1>8. RowsWithinWindow'
  BY <1>1, <1>3, <1>4, <1>5 DEF OutboxCore, RowsWithinWindow, Ordered, Row, Stream
<1>9. OrdinalsUnique'
  BY <1>3 DEF OutboxCore, OrdinalsUnique, Ordered
<1>10. \A d \in DOMAIN outbox' :
         Deliverable(d)' <=> \/ Deliverable(d)
                             \/ /\ Ordered(e)
                                /\ outbox[d].call_uuid = c
                                /\ outbox[d].call_seq = outbox[e].call_seq + 1
  BY <1>1, <1>2, <1>3, <1>4, <1>5 DEF Deliverable, Ordered, Row, Stream
<1>11. AgeIffDeliverable'
  BY <1>1, <1>3, <1>5, <1>10 DEF OutboxCore, AgeIffDeliverable
<1>12. FenceHolds'
  BY <1>3, <1>4 DEF OutboxCore, FenceHolds, MarkAcked
<1>13. AdmissionContiguous'
  <2> SUFFICES ASSUME NEW b \in DOMAIN call_streams, call_streams[b].mode = "admission",
                      NEW n \in call_streams'[b].next_seq .. call_streams'[b].admit_seq - 1
               PROVE  \E d \in DOMAIN outbox' : outbox'[d].call_uuid = b /\ outbox'[d].call_seq = n
    BY <1>4 DEF AdmissionContiguous
  <2>1. n \in call_streams[b].next_seq .. call_streams[b].admit_seq - 1
    BY <1>1, <1>4 DEF Stream
  <2>2. PICK d \in DOMAIN outbox : outbox[d].call_uuid = b /\ outbox[d].call_seq = n
    BY <2>1 DEF OutboxCore, AdmissionContiguous
  <2>3. b \in Call
    BY DEF OutboxCore, OutboxTypeOK
  <2>4. d # e
    BY <1>1, <1>2, <1>4, <2>2, <2>3, CallAssumption DEF Ordered, Row, Stream
  <2> QED
    BY <1>3, <2>2, <2>4
<1> QED
  BY <1>6, <1>7, <1>8, <1>9, <1>10, <1>11, <1>12, <1>13 DEF OutboxCore

\* It counts no attempt, serves no call and puts no row in flight.
LEMMA MarkAckedInv ==
    ASSUME OutboxInv, NEW e \in EventId, NEW now \in Time, MarkAcked(e, now)
    PROVE  OutboxInv'
<1>1. OutboxCore' /\ \A d \in DOMAIN outbox' : Deliverable(d) => Deliverable(d)'
  BY InvHasCore, MarkAckedCore
<1>2. /\ \A d \in DOMAIN outbox : outbox[d] \in Row
      /\ \A b \in DOMAIN call_streams : call_streams[b] \in Stream
  BY DEF OutboxInv, OutboxTypeOK
<1>3. /\ DOMAIN outbox' = DOMAIN outbox \ {e} /\ turn' = turn
      /\ \A d \in DOMAIN outbox' : /\ outbox'[d].attempts = outbox[d].attempts
                                   /\ outbox'[d].state = outbox[d].state
  BY <1>2 DEF MarkAcked, Promoted, Row
<1>4. /\ DOMAIN call_streams' = DOMAIN call_streams
      /\ \A b \in DOMAIN call_streams :
           call_streams'[b].last_served_ms = call_streams[b].last_served_ms
  BY <1>2 DEF MarkAcked, Stream
<1>5. AttemptsWithinTurn' /\ InFlightIsHead' /\ TurnsDistinct'
  BY <1>1, <1>3, <1>4 DEF OutboxInv, AttemptsWithinTurn, InFlightIsHead, TurnsDistinct
<1> QED
  BY <1>1, <1>5 DEF OutboxInv, OutboxCore

\* The cursor an ordered request meets, stored or fresh.
LEMMA StreamForType ==
    ASSUME OutboxCore, NEW e \in EventId, NEW rec \in Request,
           rec.call_uuid # Ungrouped, OrderAdmits(e, rec)
    PROVE  /\ rec.call_uuid \in Call \ DOMAIN retired_calls
           /\ StreamFor(rec) \in Stream
           /\ StreamFor(rec).msg_key = rec.msg_key
           /\ StreamFor(rec).mode = Mode(rec)
           /\ StreamFor(rec).next_seq <= StreamFor(rec).admit_seq
           /\ SeqFor(rec) \in StreamFor(rec).next_seq .. MaxInt64 - 1
           /\ SeqFor(rec) \in 0 .. MaxInt64 - 1
<1>1. /\ rec.call_uuid \in Call \ DOMAIN retired_calls
      /\ rec.msg_key \in Key
      /\ Mode(rec) \in {"admission", "source"}
  BY DEF Request, OrderAdmits, NotRetired, SameStream, Mode
<1>2. StreamFor(rec) \in Stream /\ StreamFor(rec).next_seq <= StreamFor(rec).admit_seq
  BY <1>1, LimitAssumption
  DEF OutboxCore, OutboxTypeOK, CursorOrder, StreamFor, Stream
<1>3. rec.call_seq \in Int /\ SeqFor(rec) \in Int
  <2>1. rec.call_seq \in Int
    <3>1. RequestSeq \subseteq Int
      BY LimitAssumption
    <3> QED
      BY <3>1 DEF Request
  <2>2. StreamFor(rec).admit_seq \in Int
    BY <1>2 DEF Stream
  <2> QED
    BY <2>1, <2>2 DEF SeqFor
<1>4. SeqFor(rec) >= StreamFor(rec).next_seq /\ SeqFor(rec) < MaxInt64
  <2>1. rec.call_seq >= 0 => rec.call_seq >= StreamFor(rec).next_seq
    BY DEF OrderAdmits, SeqOpen
  <2> QED
    BY <1>2, <1>3, <2>1 DEF SeqFor, OrderAdmits, SeqOpen, Stream
<1> QED
  BY <1>1, <1>2, <1>3, <1>4, LimitAssumption DEF OrderAdmits, SameStream, Stream

\* Admission of an event that belongs to no call.
LEMMA InsertUngroupedCore ==
    ASSUME OutboxCore, NEW e \in EventId, NEW rec \in Request, NEW now \in Time,
           InsertPending(e, rec, now), rec.call_uuid = Ungrouped
    PROVE  OutboxCore' /\ \A d \in Retained(e) : Deliverable(d)' <=> Deliverable(d)
<1>1. /\ DOMAIN outbox' = Retained(e) \cup {e}
      /\ Retained(e) \subseteq DOMAIN outbox
      /\ e \notin DOMAIN outbox
      /\ outbox'[e] = NewRow(rec, now)
      /\ \A d \in Retained(e) : outbox'[d] = outbox[d]
      /\ UNCHANGED <<call_streams, retired_calls, turn, opened>>
  BY RetainedStored DEF InsertPending, CanInsert
<1>2. /\ NewRow(rec, now) \in Row
      /\ NewRow(rec, now).call_uuid = Ungrouped
      /\ NewRow(rec, now).call_seq = -1
      /\ NewRow(rec, now).state = "pending"
      /\ NewRow(rec, now).attempts = 0
      /\ NewRow(rec, now).eligible_at_ms = now
      /\ now # Null
  BY LimitAssumption, TimeAssumption DEF NewRow, Row, Request
<1>3. OutboxTypeOK'
  <2>1. outbox' \in [DOMAIN outbox' -> Row]
    BY <1>1, <1>2 DEF InsertPending, OutboxCore, OutboxTypeOK
  <2> QED
    BY <1>1, <2>1 DEF OutboxCore, OutboxTypeOK
<1>4. CursorOrder'
  BY <1>1 DEF OutboxCore, CursorOrder
<1>5. RowsWithinWindow' /\ OrdinalsUnique'
  BY <1>1, <1>2 DEF OutboxCore, RowsWithinWindow, OrdinalsUnique, Ordered
<1>6. Deliverable(e)' /\ \A d \in Retained(e) : Deliverable(d)' <=> Deliverable(d)
  BY <1>1, <1>2 DEF Deliverable, Ordered
<1>7. AgeIffDeliverable'
  BY <1>1, <1>2, <1>6 DEF OutboxCore, AgeIffDeliverable
<1>8. FenceHolds'
  BY <1>1, <1>2, CallAssumption DEF OutboxCore, OutboxTypeOK, FenceHolds
<1>9. AdmissionContiguous'
  <2> SUFFICES ASSUME NEW b \in DOMAIN call_streams, call_streams[b].mode = "admission",
                      NEW n \in call_streams[b].next_seq .. call_streams[b].admit_seq - 1
               PROVE  \E d \in DOMAIN outbox' : outbox'[d].call_uuid = b /\ outbox'[d].call_seq = n
    BY <1>1 DEF AdmissionContiguous
  <2>1. PICK d \in DOMAIN outbox : outbox[d].call_uuid = b /\ outbox[d].call_seq = n
    BY DEF OutboxCore, AdmissionContiguous
  <2>2. Ordered(d)
    BY <2>1, CallAssumption DEF OutboxCore, OutboxTypeOK, Ordered
  <2> QED
    BY <1>1, <2>1, <2>2, RetainedOrdered
<1> QED
  BY <1>3, <1>4, <1>5, <1>6, <1>7, <1>8, <1>9 DEF OutboxCore

\* Admission of an event of a call: the window of ordinals grows to hold it.
LEMMA InsertOrderedCore ==
    ASSUME OutboxCore, NEW e \in EventId, NEW rec \in Request, NEW now \in Time,
           InsertPending(e, rec, now), rec.call_uuid # Ungrouped
    PROVE  OutboxCore' /\ \A d \in Retained(e) : Deliverable(d)' <=> Deliverable(d)
<1> DEFINE c == rec.call_uuid
           s == StreamFor(rec)
           n == SeqFor(rec)
<1>1. /\ DOMAIN outbox' = Retained(e) \cup {e}
      /\ Retained(e) \subseteq DOMAIN outbox
      /\ e \notin DOMAIN outbox
      /\ outbox'[e] = NewRow(rec, now)
      /\ \A d \in Retained(e) : outbox'[d] = outbox[d]
      /\ DOMAIN call_streams' = DOMAIN call_streams \cup {c}
      /\ call_streams'[c] = Admitted(rec)
      /\ \A b \in DOMAIN call_streams \ {c} : call_streams'[b] = call_streams[b]
      /\ UNCHANGED <<retired_calls, turn, opened>>
      /\ OrderAdmits(e, rec)
  BY RetainedStored DEF InsertPending, CanInsert
<1>2. /\ c \in Call \ DOMAIN retired_calls
      /\ s \in Stream
      /\ s.msg_key = rec.msg_key
      /\ s.mode = Mode(rec)
      /\ s.next_seq <= s.admit_seq
      /\ n \in s.next_seq .. MaxInt64 - 1
      /\ n \in 0 .. MaxInt64 - 1
      /\ MaxInt64 \in Nat
  BY <1>1, StreamForType, LimitAssumption
<1>3. /\ NewRow(rec, now) \in Row
      /\ NewRow(rec, now).call_uuid = c
      /\ NewRow(rec, now).msg_key = rec.msg_key
      /\ NewRow(rec, now).call_seq = n
      /\ NewRow(rec, now).state = "pending"
      /\ NewRow(rec, now).attempts = 0
      /\ NewRow(rec, now).eligible_at_ms = IF n = s.next_seq THEN now ELSE Null
      /\ now # Null
  BY <1>2, LimitAssumption, TimeAssumption DEF NewRow, Row, Request
<1>4. /\ Admitted(rec) \in Stream
      /\ Admitted(rec).msg_key = s.msg_key
      /\ Admitted(rec).mode = s.mode
      /\ Admitted(rec).next_seq = s.next_seq
      /\ Admitted(rec).last_served_ms = s.last_served_ms
      /\ Admitted(rec).admit_seq = IF s.admit_seq > n THEN s.admit_seq ELSE n + 1
  BY <1>2 DEF Admitted, Stream
<1>5. /\ c \in DOMAIN call_streams => s = call_streams[c]
      /\ c \notin DOMAIN call_streams =>
            /\ s.last_served_ms = 0 /\ s.next_seq = 0 /\ s.admit_seq = 0
            /\ \A d \in DOMAIN outbox : outbox[d].call_uuid # c
  BY <1>2 DEF StreamFor, OutboxCore, RowsWithinWindow, Ordered
<1>6. /\ \A d \in DOMAIN outbox : outbox[d] \in Row
      /\ \A b \in DOMAIN call_streams : call_streams[b] \in Stream
      /\ turn \in Nat
  BY DEF OutboxCore, OutboxTypeOK
<1>7. OutboxTypeOK'
  <2>1. outbox' \in [DOMAIN outbox' -> Row]
    BY <1>1, <1>3, <1>6 DEF InsertPending
  <2>2. call_streams' \in [DOMAIN call_streams' -> Stream]
    BY <1>1, <1>4, <1>6 DEF InsertPending
  <2> QED
    BY <1>1, <1>2, <2>1, <2>2 DEF OutboxCore, OutboxTypeOK
<1> HIDE DEF c, s, n
<1>8. CursorOrder'
  BY <1>1, <1>2, <1>4, <1>6 DEF OutboxCore, CursorOrder, Stream
<1>9. RowsWithinWindow'
  BY <1>1, <1>2, <1>3, <1>4, <1>5, <1>6
  DEF OutboxCore, RowsWithinWindow, Ordered, Stream, Row, c
<1>10. OrdinalsUnique'
  BY <1>1, <1>3 DEF OutboxCore, OrdinalsUnique, Ordered, OrderAdmits, SeqFree, c, n
<1>11. /\ Deliverable(e)' <=> n = s.next_seq
       /\ \A d \in Retained(e) : Deliverable(d)' <=> Deliverable(d)
  BY <1>1, <1>3, <1>4, <1>5 DEF Deliverable, Ordered, c
<1>12. AgeIffDeliverable'
  BY <1>1, <1>3, <1>11 DEF OutboxCore, AgeIffDeliverable
<1>13. FenceHolds'
  BY <1>1, <1>2, <1>3 DEF OutboxCore, FenceHolds
<1>14. AdmissionContiguous'
  <2> SUFFICES ASSUME NEW b \in DOMAIN call_streams', call_streams'[b].mode = "admission",
                      NEW k \in call_streams'[b].next_seq .. call_streams'[b].admit_seq - 1
               PROVE  \E d \in DOMAIN outbox' : outbox'[d].call_uuid = b /\ outbox'[d].call_seq = k
    BY DEF AdmissionContiguous
  <2>1. CASE b = c /\ k = n
    BY <1>1, <1>3, <2>1
  <2>2. CASE ~(b = c /\ k = n)
    <3>1. b = c => n = s.admit_seq
      BY <1>1, <1>2, <1>4 DEF Mode, SeqFor, n, s
    <3>2. /\ b \in DOMAIN call_streams
          /\ call_streams[b].mode = "admission"
          /\ k \in call_streams[b].next_seq .. call_streams[b].admit_seq - 1
      BY <1>1, <1>2, <1>4, <1>5, <1>6, <2>2, <3>1 DEF Stream
    <3>3. PICK d \in DOMAIN outbox : outbox[d].call_uuid = b /\ outbox[d].call_seq = k
      BY <3>2 DEF OutboxCore, AdmissionContiguous
    <3>4. d \in Retained(e)
      BY <3>2, <3>3, RetainedOrdered, CallAssumption DEF OutboxCore, OutboxTypeOK, Ordered
    <3> QED
      BY <1>1, <3>3, <3>4
  <2> QED
    BY <2>1, <2>2
<1> QED
  BY <1>7, <1>8, <1>9, <1>10, <1>11, <1>12, <1>13, <1>14 DEF OutboxCore

\* Either way the rows are in step with their cursors.
LEMMA InsertPendingCore ==
    ASSUME OutboxCore, NEW e \in EventId, NEW rec \in Request, NEW now \in Time,
           InsertPending(e, rec, now)
    PROVE  OutboxCore' /\ \A d \in Retained(e) : Deliverable(d)' <=> Deliverable(d)
BY InsertUngroupedCore, InsertOrderedCore

\* A new row has not been tried, and a new call has not been served.
LEMMA InsertPendingInv ==
    ASSUME OutboxInv, NEW e \in EventId, NEW rec \in Request, NEW now \in Time,
           InsertPending(e, rec, now)
    PROVE  OutboxInv'
<1>1. OutboxCore /\ turn \in Nat
  BY InvHasCore DEF OutboxInv, OutboxTypeOK
<1>2. OutboxCore' /\ \A d \in Retained(e) : Deliverable(d)' <=> Deliverable(d)
  BY <1>1, InsertPendingCore
<1>3. /\ DOMAIN outbox' = Retained(e) \cup {e} /\ turn' = turn
      /\ Retained(e) \subseteq DOMAIN outbox
      /\ outbox'[e].attempts = 0 /\ outbox'[e].state = "pending"
      /\ \A d \in Retained(e) : d # e => outbox'[d] = outbox[d]
  BY RetainedStored DEF InsertPending, NewRow
<1>4. AttemptsWithinTurn' /\ InFlightIsHead'
  BY <1>1, <1>2, <1>3 DEF OutboxInv, AttemptsWithinTurn, InFlightIsHead
<1>5. \A b \in DOMAIN call_streams' :
        \/ call_streams'[b].last_served_ms = 0
        \/ /\ b \in DOMAIN call_streams
           /\ call_streams'[b].last_served_ms = call_streams[b].last_served_ms
  <2>1. CASE rec.call_uuid = Ungrouped
    BY <2>1 DEF InsertPending
  <2>2. CASE rec.call_uuid # Ungrouped
    <3>1. OrderAdmits(e, rec)
      BY <2>2 DEF InsertPending, CanInsert
    <3>2. StreamFor(rec) \in Stream
      BY <1>1, <2>2, <3>1, StreamForType
    <3>3. Admitted(rec).last_served_ms = StreamFor(rec).last_served_ms
      BY <3>2 DEF Admitted, Stream
    <3>4. \/ StreamFor(rec).last_served_ms = 0
          \/ /\ rec.call_uuid \in DOMAIN call_streams
             /\ StreamFor(rec) = call_streams[rec.call_uuid]
      BY DEF StreamFor
    <3> QED
      BY <2>2, <3>3, <3>4 DEF InsertPending
  <2> QED
    BY <2>1, <2>2
<1>6. TurnsDistinct'
  BY <1>1, <1>3, <1>5 DEF OutboxInv, TurnsDistinct
<1> QED
  BY <1>2, <1>4, <1>6 DEF OutboxInv, OutboxCore

-----------------------------------------------------------------------------
(* The invariant holds initially and is preserved by every step *)

\* A new database is empty.
LEMMA OutboxInvInit == OutboxInit => OutboxInv
<1> SUFFICES ASSUME OutboxInit PROVE OutboxInv
  OBVIOUS
<1>1. /\ DOMAIN outbox = {} /\ DOMAIN call_streams = {} /\ DOMAIN retired_calls = {}
      /\ turn = 0 /\ opened = FALSE
  BY DEF OutboxInit
<1>2. OutboxTypeOK
  <2>1. outbox \in [{} -> Row] /\ call_streams \in [{} -> Stream]
    BY DEF OutboxInit
  <2>2. retired_calls \in [{} -> 0 .. MaxInt64]
    BY DEF OutboxInit
  <2>3. turn \in 0 .. MaxInt64
    BY <1>1, LimitAssumption
  <2> QED
    BY <1>1, <2>1, <2>2, <2>3 DEF OutboxTypeOK
<1>3. CursorOrder /\ AttemptsWithinTurn /\ TurnsDistinct /\ AdmissionContiguous
  BY <1>1 DEF CursorOrder, AttemptsWithinTurn, TurnsDistinct, AdmissionContiguous
<1>4. /\ RowsWithinWindow /\ OrdinalsUnique /\ InFlightIsHead
      /\ AgeIffDeliverable /\ FenceHolds
  BY <1>1 DEF RowsWithinWindow, OrdinalsUnique, InFlightIsHead, AgeIffDeliverable, FenceHolds
<1> QED
  BY <1>2, <1>3, <1>4 DEF OutboxInv

\* Every transaction keeps the invariant.
LEMMA OutboxInvStep == OutboxInv /\ [OutboxNext]_obvars => OutboxInv'
<1> SUFFICES ASSUME OutboxInv, [OutboxNext]_obvars PROVE OutboxInv'
  OBVIOUS
<1>1. CASE Open
  BY <1>1, OpenInv
<1>2. CASE Close
  BY <1>2, CloseInv
<1>3. CASE \E c \in Call : Retire(c)
  BY <1>3, RetireInv
<1>4. CASE \E now \in Time : RequeueInFlight(now) \/ ExpireTtl(now)
  BY <1>4, RequeueInFlightInv, ExpireTtlInv
<1>5. CASE \E e \in EventId, rec \in Request, now \in Time : InsertPending(e, rec, now)
  BY <1>5, InsertPendingInv
<1>6. CASE \E e \in EventId : MarkInFlight(e) \/ MarkDead(e)
  BY <1>6, MarkInFlightInv, MarkDeadInv
<1>7. CASE \E e \in EventId, now \in Time :
             MarkAcked(e, now) \/ MarkRetry(e, now) \/ RetryDead(e, now)
  BY <1>7, MarkAckedInv, MarkRetryInv, RetryDeadInv
<1>8. CASE UNCHANGED obvars
  BY <1>8
  DEF obvars, OutboxInv, OutboxTypeOK, CursorOrder, AttemptsWithinTurn, RowsWithinWindow,
      OrdinalsUnique, InFlightIsHead, AgeIffDeliverable, FenceHolds, TurnsDistinct,
      AdmissionContiguous, Deliverable, Ordered
<1> QED
  BY <1>1, <1>2, <1>3, <1>4, <1>5, <1>6, <1>7, <1>8 DEF OutboxNext

\* The conjunction of the invariants is an invariant of the outbox.
THEOREM OutboxInvariant == OutboxSpec => []OutboxInv
<1>1. OutboxInit => OutboxInv
  BY OutboxInvInit
<1>2. OutboxInv /\ [OutboxNext]_obvars => OutboxInv'
  BY OutboxInvStep
<1> QED
  BY <1>1, <1>2, PTL DEF OutboxSpec

\* No sequence number, attempt count or turn leaves its 64-bit range.
THEOREM OutboxTypeCorrect == OutboxSpec => []OutboxTypeOK
<1>1. OutboxInv => OutboxTypeOK
  BY DEF OutboxInv
<1> QED
  BY <1>1, OutboxInvariant, PTL

\* Only the head of a call is ever in flight.
THEOREM HeadOfLineBlocking == OutboxSpec => []InFlightIsHead
<1>1. OutboxInv => InFlightIsHead
  BY DEF OutboxInv
<1> QED
  BY <1>1, OutboxInvariant, PTL

\* Stored ordinals lie between the cursor and the next ordinal to assign.
THEOREM WindowHolds == OutboxSpec => []RowsWithinWindow
<1>1. OutboxInv => RowsWithinWindow
  BY DEF OutboxInv
<1> QED
  BY <1>1, OutboxInvariant, PTL

\* In admission mode the window has no hole.
THEOREM WindowHasNoHole == OutboxSpec => []AdmissionContiguous
<1>1. OutboxInv => AdmissionContiguous
  BY DEF OutboxInv
<1> QED
  BY <1>1, OutboxInvariant, PTL

\* A row ages exactly while it can be delivered.
THEOREM AgingIsExact == OutboxSpec => []AgeIffDeliverable
<1>1. OutboxInv => AgeIffDeliverable
  BY DEF OutboxInv
<1> QED
  BY <1>1, OutboxInvariant, PTL

\* A retired call never comes back.
THEOREM RetirementIsFinal == OutboxSpec => []FenceHolds
<1>1. OutboxInv => FenceHolds
  BY DEF OutboxInv
<1> QED
  BY <1>1, OutboxInvariant, PTL

\* Least recently served is a total order of the calls served so far.
THEOREM TurnsAreDistinct == OutboxSpec => []TurnsDistinct
<1>1. OutboxInv => TurnsDistinct
  BY DEF OutboxInv
<1> QED
  BY <1>1, OutboxInvariant, PTL

\* open() has no reason to refuse a database whose rows and cursors are in step.
LEMMA CoreAccepted == OutboxCore => NeverCorrupt
<1> SUFFICES ASSUME OutboxCore PROVE ~Corrupt
  BY DEF NeverCorrupt
<1>1. ASSUME NEW e \in DOMAIN outbox, Ordered(e)
      PROVE  outbox[e].call_seq >= 0 /\ outbox[e].call_uuid \in DOMAIN call_streams
  BY <1>1 DEF OutboxCore, OutboxTypeOK, RowsWithinWindow, Stream, Row
<1>2. DOMAIN retired_calls \cap DOMAIN call_streams = {}
  BY DEF OutboxCore, FenceHolds
<1>3. \A e \in DOMAIN outbox : outbox[e].call_seq \in Int
  BY LimitAssumption DEF OutboxCore, OutboxTypeOK, Row
<1> QED
  BY <1>1, <1>2, <1>3 DEF Corrupt

\* open() accepts every database the outbox has written.
THEOREM OpenAccepts == OutboxSpec => []NeverCorrupt
<1>1. OutboxInv => NeverCorrupt
  BY InvHasCore, CoreAccepted
<1> QED
  BY <1>1, OutboxInvariant, PTL

-----------------------------------------------------------------------------
(* What a single step may do *)

\* Steps other than an acknowledgement or an admission keep every row.
LEMMA RowsLeave ==
    ASSUME OutboxInv, [OutboxNext]_obvars,
           NEW e \in DOMAIN outbox \ DOMAIN outbox'
    PROVE  \/ \E now \in Time : MarkAcked(e, now)
           \/ \E d \in EventId, rec \in Request, now \in Time :
                 InsertPending(d, rec, now) /\ e \in Reclaimable
<1>1. CASE \E d \in EventId, rec \in Request, now \in Time : InsertPending(d, rec, now)
  BY <1>1 DEF InsertPending, Retained
<1>2. CASE \E d \in EventId, now \in Time : MarkAcked(d, now)
  BY <1>2 DEF MarkAcked
<1>3. CASE \/ Open \/ Close
           \/ \E c \in Call : Retire(c)
           \/ \E now \in Time : RequeueInFlight(now) \/ ExpireTtl(now)
           \/ \E d \in EventId : MarkInFlight(d) \/ MarkDead(d)
           \/ \E d \in EventId, now \in Time : MarkRetry(d, now) \/ RetryDead(d, now)
           \/ UNCHANGED obvars
  BY <1>3
  DEF Open, Close, Retire, RequeueInFlight, ExpireTtl, MarkInFlight, MarkDead, MarkRetry,
      RetryDead, obvars
<1> QED
  BY <1>1, <1>2, <1>3 DEF OutboxNext

\* A row that leaves is the acknowledged head, or was given up for room.
LEMMA LeavingStep == OutboxInv /\ [OutboxNext]_obvars => [LeavingIsSettled]_obvars
<1> SUFFICES ASSUME OutboxInv, [OutboxNext]_obvars, NEW e \in DOMAIN outbox \ DOMAIN outbox'
             PROVE  IF Ordered(e)
                    THEN /\ outbox[e].state = "in_flight"
                         /\ Deliverable(e)
                         /\ call_streams'[outbox[e].call_uuid].next_seq
                              = outbox[e].call_seq + 1
                    ELSE outbox[e].state = "in_flight" \/ e \in Reclaimable
  BY DEF LeavingIsSettled
<1>1. CASE \E now \in Time : MarkAcked(e, now)
  <2>1. outbox[e].state = "in_flight" /\ Deliverable(e)
    BY <1>1 DEF MarkAcked, CanAck
  <2>2. ASSUME Ordered(e)
        PROVE  call_streams'[outbox[e].call_uuid].next_seq = outbox[e].call_seq + 1
    <3>1. /\ outbox[e].call_uuid \in DOMAIN call_streams
          /\ outbox[e].call_seq = call_streams[outbox[e].call_uuid].next_seq
      BY <2>1, <2>2 DEF Deliverable
    <3>2. call_streams[outbox[e].call_uuid] \in Stream
      BY <3>1 DEF OutboxInv, OutboxTypeOK
    <3> QED
      BY <1>1, <2>2, <3>1, <3>2 DEF MarkAcked, Stream
  <2> QED
    BY <2>1, <2>2
<1>2. CASE e \in Reclaimable
  BY <1>2 DEF Reclaimable
<1> QED
  BY <1>1, <1>2, RowsLeave

\* No row is dropped: an ordered one goes only as the acknowledged head.
THEOREM NoSilentDrop == OutboxSpec => LeavesOnlyWhenSettled
BY LeavingStep, OutboxInvariant, PTL DEF OutboxSpec, LeavesOnlyWhenSettled

\* No action writes the identity of a row that stays.
LEMMA IdentityStep == OutboxInv /\ [OutboxNext]_obvars => [IdentityKept]_obvars
<1> SUFFICES ASSUME OutboxInv, [OutboxNext]_obvars,
                    NEW e \in DOMAIN outbox, e \in DOMAIN outbox'
             PROVE  /\ outbox'[e].call_uuid = outbox[e].call_uuid
                    /\ outbox'[e].msg_key = outbox[e].msg_key
                    /\ outbox'[e].call_seq = outbox[e].call_seq
                    /\ outbox'[e].created_at_ms = outbox[e].created_at_ms
                    /\ outbox[e].eligible_at_ms # Null =>
                           outbox'[e].eligible_at_ms = outbox[e].eligible_at_ms
  BY DEF IdentityKept
<1>0. outbox[e] \in Row
  BY DEF OutboxInv, OutboxTypeOK
<1>1. CASE Open
  BY <1>0, <1>1 DEF Open, Stamped, Row
<1>2. CASE \/ Close \/ UNCHANGED obvars
           \/ \E c \in Call : Retire(c)
  BY <1>2 DEF Close, Retire, obvars
<1>3. CASE \E now \in Time : RequeueInFlight(now)
  BY <1>0, <1>3 DEF RequeueInFlight, Requeued, Row
<1>4. CASE \E now \in Time : ExpireTtl(now)
  <2>1. \/ outbox'[e] = outbox[e]
        \/ outbox'[e] = [outbox[e] EXCEPT !.state = "dead", !.last_error = "expired_ttl"]
    BY <1>4, Zenon DEF ExpireTtl
  <2> QED
    BY <1>0, <2>1 DEF Row
<1>5. CASE \E d \in EventId, rec \in Request, now \in Time : InsertPending(d, rec, now)
  BY <1>5 DEF InsertPending, CanInsert, Retained
<1>6. CASE \E d \in EventId : MarkInFlight(d)
  BY <1>0, <1>6 DEF MarkInFlight, Row
<1>7. CASE \E d \in EventId : MarkDead(d)
  BY <1>0, <1>7 DEF MarkDead, Row
<1>8. CASE \E d \in EventId, now \in Time : MarkAcked(d, now)
  BY <1>0, <1>8 DEF MarkAcked, Promoted, Row
<1>9. CASE \E d \in EventId, now \in Time : MarkRetry(d, now)
  BY <1>0, <1>9 DEF MarkRetry, Row
<1>10. CASE \E d \in EventId, now \in Time : RetryDead(d, now)
  BY <1>0, <1>10 DEF RetryDead, Row
<1> QED
  BY <1>1, <1>2, <1>3, <1>4, <1>5, <1>6, <1>7, <1>8, <1>9, <1>10 DEF OutboxNext

\* Key, call, ordinal, creation and age stamp of a stored row never change.
THEOREM IdentityIsStable == OutboxSpec => IdentityStable
BY IdentityStep, OutboxInvariant, PTL DEF OutboxSpec, IdentityStable

\* Only an acknowledgement moves a cursor.
LEMMA CursorStep == OutboxInv /\ [OutboxNext]_obvars => [CursorMovesByAck]_obvars
<1> SUFFICES ASSUME OutboxInv, [OutboxNext]_obvars,
                    NEW c \in DOMAIN call_streams, c \in DOMAIN call_streams'
             PROVE  /\ call_streams'[c].msg_key = call_streams[c].msg_key
                    /\ call_streams'[c].mode = call_streams[c].mode
                    /\ call_streams'[c].admit_seq >= call_streams[c].admit_seq
                    /\ \/ call_streams'[c].next_seq = call_streams[c].next_seq
                       \/ /\ call_streams'[c].next_seq = call_streams[c].next_seq + 1
                          /\ \E e \in DOMAIN outbox \ DOMAIN outbox' :
                               /\ outbox[e].call_uuid = c
                               /\ outbox[e].call_seq = call_streams[c].next_seq
  BY DEF CursorMovesByAck
<1>0. /\ call_streams[c] \in Stream
      /\ call_streams[c].admit_seq \in Int
  BY LimitAssumption DEF OutboxInv, OutboxTypeOK, Stream
<1>1. CASE \/ Open \/ Close
           \/ \E now \in Time : RequeueInFlight(now) \/ ExpireTtl(now)
           \/ \E e \in EventId : MarkDead(e)
           \/ \E e \in EventId, now \in Time : MarkRetry(e, now) \/ RetryDead(e, now)
           \/ UNCHANGED obvars
  <2>1. call_streams' = call_streams
    BY <1>1
    DEF Open, Close, RequeueInFlight, ExpireTtl, MarkDead, MarkRetry, RetryDead, obvars
  <2> QED
    BY <1>0, <2>1
<1>2. CASE \E b \in Call : Retire(b)
  BY <1>0, <1>2 DEF Retire
<1>3. CASE \E e \in EventId, rec \in Request, now \in Time : InsertPending(e, rec, now)
  <2>1. PICK e \in EventId, rec \in Request, now \in Time : InsertPending(e, rec, now)
    BY <1>3
  <2>2. CASE rec.call_uuid # c \/ rec.call_uuid = Ungrouped
    BY <1>0, <2>1, <2>2 DEF InsertPending
  <2>3. CASE rec.call_uuid = c /\ c # Ungrouped
    <3>1. StreamFor(rec) = call_streams[c]
      BY <2>3 DEF StreamFor
    <3>2. call_streams'[c] = Admitted(rec)
      BY <2>1, <2>3 DEF InsertPending
    <3>3. SeqFor(rec) \in Int
      <4>1. RequestSeq \subseteq Int
        BY LimitAssumption
      <4>2. rec.call_seq \in Int
        BY <4>1 DEF Request
      <4> QED
        BY <1>0, <3>1, <4>2 DEF SeqFor
    <3>4. \E n \in Int : /\ n >= call_streams[c].admit_seq
                          /\ Admitted(rec) = [call_streams[c] EXCEPT !.admit_seq = n]
      BY <1>0, <3>1, <3>3 DEF Admitted
    <3> QED
      BY <1>0, <3>2, <3>4 DEF Stream
  <2> QED
    BY <2>2, <2>3
<1>4. CASE \E e \in EventId : MarkInFlight(e)
  BY <1>0, <1>4 DEF MarkInFlight, Served, Stream
<1>5. CASE \E e \in EventId, now \in Time : MarkAcked(e, now)
  <2>1. PICK e \in EventId, now \in Time : MarkAcked(e, now)
    BY <1>5
  <2>2. CASE Ordered(e) /\ outbox[e].call_uuid = c
    <3>1. e \in DOMAIN outbox \ DOMAIN outbox'
      BY <2>1 DEF MarkAcked, CanAck
    <3>2. outbox[e].call_seq = call_streams[c].next_seq
      BY <2>1, <2>2 DEF MarkAcked, CanAck, Deliverable
    <3>3. call_streams'[c] = [call_streams[c] EXCEPT !.next_seq = @ + 1]
      BY <2>1, <2>2 DEF MarkAcked
    <3> QED
      BY <1>0, <2>2, <3>1, <3>2, <3>3 DEF Stream
  <2>3. CASE ~Ordered(e) \/ outbox[e].call_uuid # c
    BY <1>0, <2>1, <2>3 DEF MarkAcked
  <2> QED
    BY <2>2, <2>3
<1> QED
  BY <1>1, <1>2, <1>3, <1>4, <1>5 DEF OutboxNext

\* A cursor moves by one, over the row acknowledged with it, and a call keeps
\* its key and its mode.
THEOREM CursorIsExact == OutboxSpec => CursorFollowsAck
BY CursorStep, OutboxInvariant, PTL DEF OutboxSpec, CursorFollowsAck

-----------------------------------------------------------------------------
(* Facts about heads, cursors and rows that the proofs of the users need *)

\* A call has one head: the unique index admits one row per ordinal.
LEMMA OneHead ==
    ASSUME OutboxInv, NEW d \in DOMAIN outbox, NEW e \in DOMAIN outbox,
           Ordered(d), outbox[d].call_uuid = outbox[e].call_uuid,
           Deliverable(d), Deliverable(e)
    PROVE  d = e
BY DEF OutboxInv, OrdinalsUnique, Deliverable, Ordered

\* A cursor that keeps its position keeps the heads of its call.
LEMMA HeadsKept ==
    ASSUME NEW e, outbox'[e].call_uuid = outbox[e].call_uuid,
           outbox'[e].call_seq = outbox[e].call_seq,
           \A c \in DOMAIN call_streams :
              c \in DOMAIN call_streams' /\ call_streams'[c].next_seq = call_streams[c].next_seq,
           Deliverable(e)
    PROVE  Deliverable(e)'
BY DEF Deliverable, Ordered

\* insert_pending changes neither position nor turn of a cursor.
LEMMA AdmitKeepsCursors ==
    ASSUME OutboxInv, NEW e \in EventId, NEW rec \in Request, NEW now \in Time,
           InsertPending(e, rec, now), NEW c \in DOMAIN call_streams
    PROVE  /\ c \in DOMAIN call_streams'
           /\ call_streams'[c].next_seq = call_streams[c].next_seq
           /\ call_streams'[c].last_served_ms = call_streams[c].last_served_ms
<1>1. CASE rec.call_uuid # c \/ rec.call_uuid = Ungrouped
  BY <1>1 DEF InsertPending
<1>2. CASE rec.call_uuid = c /\ rec.call_uuid # Ungrouped
  <2>1. StreamFor(rec) = call_streams[c] /\ call_streams[c] \in Stream
    BY <1>2 DEF StreamFor, OutboxInv, OutboxTypeOK
  <2>2. call_streams'[c] = Admitted(rec) /\ c \in DOMAIN call_streams'
    BY <1>2 DEF InsertPending
  <2> QED
    BY <2>1, <2>2 DEF Admitted, Stream
<1> QED
  BY <1>1, <1>2

\* mark_in_flight gives the call of the row, and no other, the newest turn.
LEMMA ServeMovesTurn ==
    ASSUME OutboxInv, NEW e \in EventId, MarkInFlight(e)
    PROVE  /\ DOMAIN call_streams' = DOMAIN call_streams
           /\ \A c \in DOMAIN call_streams :
                /\ call_streams'[c].next_seq = call_streams[c].next_seq
                /\ call_streams'[c].last_served_ms =
                     IF c = outbox[e].call_uuid THEN turn + 1
                     ELSE call_streams[c].last_served_ms
<1>1. CASE ~Ordered(e)
  <2>1. outbox[e].call_uuid = Ungrouped
    BY <1>1 DEF Ordered
  <2>2. outbox[e].call_uuid \notin DOMAIN call_streams
    BY <2>1, CallAssumption DEF OutboxInv, OutboxTypeOK
  <2> QED
    BY <1>1, <2>2 DEF MarkInFlight
<1>2. CASE Ordered(e)
  <2>1. call_streams' = [call_streams EXCEPT ![outbox[e].call_uuid] = Served(@)]
    BY <1>2 DEF MarkInFlight
  <2>2. \A c \in DOMAIN call_streams : call_streams[c] \in Stream
    BY DEF OutboxInv, OutboxTypeOK
  <2>3. ASSUME NEW s \in Stream
        PROVE  Served(s).next_seq = s.next_seq /\ Served(s).last_served_ms = turn + 1
    BY DEF Served, Stream
  <2> QED
    BY <2>1, <2>2, <2>3
<1> QED
  BY <1>1, <1>2

\* A transaction adds at most one row.
LEMMA RowsStayFinite ==
    ASSUME IsFiniteSet(DOMAIN outbox), [OutboxNext]_obvars
    PROVE  IsFiniteSet(DOMAIN outbox')
<1>1. \E e : DOMAIN outbox' \subseteq DOMAIN outbox \cup {e}
  <2>1. CASE \E e \in EventId, rec \in Request, now \in Time : InsertPending(e, rec, now)
    BY <2>1, RetainedStored DEF InsertPending
  <2>2. CASE \E e \in EventId, now \in Time : MarkAcked(e, now)
    BY <2>2 DEF MarkAcked
  <2>3. CASE ~(\E e \in EventId, rec \in Request, now \in Time : InsertPending(e, rec, now))
             /\ ~(\E e \in EventId, now \in Time : MarkAcked(e, now))
    <3>1. DOMAIN outbox' = DOMAIN outbox
      BY <2>3
      DEF OutboxNext, obvars, Open, Close, Retire, RequeueInFlight, ExpireTtl, MarkInFlight,
          MarkDead, MarkRetry, RetryDead
    <3> QED
      BY <3>1
  <2> QED
    BY <2>1, <2>2, <2>3
<1>2. PICK e : DOMAIN outbox' \subseteq DOMAIN outbox \cup {e}
  BY <1>1
<1>3. IsFiniteSet(DOMAIN outbox \cup {e})
  BY FS_AddElement
<1> QED
  BY <1>2, <1>3, FS_Subset

\* fetch_due: a list of different due rows in the order of their turns, and what
\* is left out for want of room comes after all of it.
LEMMA FetchedInOrder ==
    ASSUME DOMAIN outbox \subseteq EventId, IsFiniteSet(DOMAIN outbox),
           NEW now \in Time, NEW limit \in Nat, NEW s \in FetchDue(now, limit)
    PROVE  /\ s \in Seq(EventId)
           /\ \A i \in 1 .. Len(s) : s[i] \in Due(now)
           /\ \A i, j \in 1 .. Len(s) : i # j => s[i] # s[j]
           /\ \A i, j \in 1 .. Len(s) : i < j => ~Before(s[j], s[i])
           /\ \A e \in Due(now) : (\A i \in 1 .. Len(s) : s[i] # e) =>
                                    \A i \in 1 .. Len(s) : ~Before(e, s[i])
<1> DEFINE n == IF Cardinality(Due(now)) < limit THEN Cardinality(Due(now)) ELSE limit
<1>1. n \in Nat
  <2>1. IsFiniteSet(Due(now))
    BY FS_Subset DEF Due
  <2> QED
    BY <2>1, FS_CardinalityType
<1>2. /\ s \in [1 .. n -> Due(now)]
      /\ \A i, j \in 1 .. n : i < j => s[i] # s[j] /\ ~Before(s[j], s[i])
      /\ \A e \in Due(now) : (\A i \in 1 .. n : s[i] # e) =>
                               \A i \in 1 .. n : ~Before(e, s[i])
  BY DEF FetchDue
<1>3. Due(now) \subseteq EventId
  BY DEF Due
<1> HIDE DEF n
<1>4. s \in Seq(EventId) /\ Len(s) = n
  <2>1. s \in Seq(Due(now)) /\ Len(s) = n
    BY <1>1, <1>2
  <2> QED
    BY <1>3, <2>1
<1>5. \A i, j \in 1 .. n : i # j => s[i] # s[j]
  BY <1>1, <1>2
<1> QED
  BY <1>2, <1>4, <1>5

\* A row that is fetched survives what other threads do meanwhile.
LEMMA PendingHeadStays ==
    ASSUME OutboxInv,
           NEW d \in DOMAIN outbox, outbox[d].state = "pending", Deliverable(d),
           \/ \E e \in EventId, rec \in Request, now \in Time : InsertPending(e, rec, now)
           \/ \E e \in EventId, now \in Time : MarkRetry(e, now)
           \/ \E e \in EventId : InFlight(e) /\ MarkDead(e)
    PROVE  d \in DOMAIN outbox' /\ outbox'[d] = outbox[d] /\ Deliverable(d)'
<1>1. CASE \E e \in EventId, rec \in Request, now \in Time : InsertPending(e, rec, now)
  <2>1. PICK e \in EventId, rec \in Request, now \in Time : InsertPending(e, rec, now)
    BY <1>1
  <2>2. d \in Retained(e) /\ d # e
    BY <2>1 DEF Retained, Reclaimable, InsertPending, CanInsert
  <2>3. d \in DOMAIN outbox' /\ outbox'[d] = outbox[d]
    BY <2>1, <2>2 DEF InsertPending
  <2>4. \A c \in DOMAIN call_streams :
           c \in DOMAIN call_streams' /\ call_streams'[c].next_seq = call_streams[c].next_seq
    BY <2>1, AdmitKeepsCursors
  <2> QED
    BY <2>3, <2>4, HeadsKept
<1>2. CASE \/ \E e \in EventId, now \in Time : MarkRetry(e, now)
           \/ \E e \in EventId : InFlight(e) /\ MarkDead(e)
  <2>1. call_streams' = call_streams /\ DOMAIN outbox' = DOMAIN outbox
    BY <1>2 DEF MarkRetry, MarkDead
  <2>2. outbox'[d] = outbox[d]
    BY <1>2 DEF MarkRetry, MarkDead, InFlight
  <2> QED
    BY <2>1, <2>2, HeadsKept
<1> QED
  BY <1>1, <1>2

-----------------------------------------------------------------------------
(* The limits of the store: rows, bytes, cursors and fences *)

\* MapThenSumSet takes the elements of a set in the order of this choice.
Chosen(s) == CHOOSE x \in s : TRUE

\* g is the function by which Bytes(S) adds up the payloads of S.
Weighs(g, S) ==
    g = [s \in SUBSET S |->
           IF s = {} THEN 0 ELSE PayloadSize[Chosen(s)] + g[s \ {Chosen(s)}]]

\* Bytes, with the recursive function it goes through named.
LEMMA BytesDef == ASSUME NEW S PROVE Bytes(S) = (CHOOSE g : Weighs(g, S))[S]
BY DEF Bytes, MapThenSumSet, MapThenFoldSet, Weighs, Chosen

\* A nonempty set has an element to choose.
LEMMA ChosenIn == ASSUME NEW s, s # {} PROVE Chosen(s) \in s
BY DEF Chosen

\* A nonempty collection of subsets of a finite set has a smallest member: the
\* form in which the lemmas below use induction over finite sets.
LEMMA SmallestOf ==
    ASSUME NEW S, IsFiniteSet(S), NEW B, B \subseteq SUBSET S, B # {}
    PROVE  \E t \in B : \A u \in B : ~(u \subseteq t /\ u # t)
<1>1. B \subseteq FiniteSubsetsOf(S)
  BY FS_Subset DEF FiniteSubsetsOf
<1>2. PICK t \in B : \A u \in B : ~(<<u, t>> \in StrictSubsetOrdering(S))
  BY <1>1, WFMin, FS_StrictSubsetOrderingWellFounded
<1> QED
  BY <1>2 DEF StrictSubsetOrdering

\* What the recursive function does on one set.
LEMMA WeighsEq ==
    ASSUME NEW S, NEW g, Weighs(g, S), NEW s \in SUBSET S
    PROVE  /\ s = {} => g[s] = 0
           /\ s # {} => /\ g[s] = PayloadSize[Chosen(s)] + g[s \ {Chosen(s)}]
                        /\ s \ {Chosen(s)} \in SUBSET S
                        /\ s \ {Chosen(s)} \subseteq s /\ s \ {Chosen(s)} # s
<1>1. g[s] = IF s = {} THEN 0 ELSE PayloadSize[Chosen(s)] + g[s \ {Chosen(s)}]
  BY DEF Weighs
<1> QED
  BY <1>1, ChosenIn

\* Two such functions agree where both are defined.
LEMMA WeighsAgree ==
    ASSUME NEW S, IsFiniteSet(S), NEW T, S \subseteq T, NEW g, NEW h, Weighs(g, S), Weighs(h, T)
    PROVE  g[S] = h[S]
<1> DEFINE B == {s \in SUBSET S : g[s] # h[s]}
<1>1. SUFFICES ASSUME B # {} PROVE FALSE
  OBVIOUS
<1>2. PICK t \in B : \A u \in B : ~(u \subseteq t /\ u # t)
  <2>1. B \subseteq SUBSET S
    OBVIOUS
  <2> HIDE DEF B
  <2> QED
    BY <1>1, <2>1, SmallestOf
<1>3. t \in SUBSET S /\ t \in SUBSET T /\ g[t] # h[t]
  OBVIOUS
<1>4. t # {}
  BY <1>3, WeighsEq
<1> DEFINE u == t \ {Chosen(t)}
<1>5. g[t] = PayloadSize[Chosen(t)] + g[u] /\ u \in SUBSET S /\ u \subseteq t /\ u # t
  BY <1>3, <1>4, WeighsEq
<1>6. h[t] = PayloadSize[Chosen(t)] + h[u]
  BY <1>3, <1>4, WeighsEq
<1>7. g[u] = h[u]
  BY <1>2, <1>5
<1> QED
  BY <1>3, <1>5, <1>6, <1>7

\* On a finite set there is such a function.
LEMMA WeighsExists == ASSUME NEW S, IsFiniteSet(S) PROVE \E g : Weighs(g, S)
<1> DEFINE B == {s \in SUBSET S : ~\E g : Weighs(g, s)}
<1>1. SUFFICES ASSUME B # {} PROVE FALSE
  OBVIOUS
<1>2. PICK t \in B : \A u \in B : ~(u \subseteq t /\ u # t)
  <2>1. B \subseteq SUBSET S
    OBVIOUS
  <2> HIDE DEF B
  <2> QED
    BY <1>1, <2>1, SmallestOf
<1>3. t \in SUBSET S /\ ~\E g : Weighs(g, t)
  OBVIOUS
<1> DEFINE W(s) == CHOOSE g : Weighs(g, s)
           h == [s \in SUBSET t |->
                   IF s = {} THEN 0
                   ELSE PayloadSize[Chosen(s)] + W(s \ {Chosen(s)})[s \ {Chosen(s)}]]
<1>4. ASSUME NEW s, s \subseteq t, s # t PROVE Weighs(W(s), s) /\ IsFiniteSet(s)
  <2>1. s \in SUBSET S /\ s \notin B
    BY <1>2, <1>3, <1>4
  <2>2. \E g : Weighs(g, s)
    BY <2>1
  <2>3. IsFiniteSet(s)
    BY <2>1, FS_Subset
  <2> QED
    BY <2>2, <2>3
<1>5. ASSUME NEW s, s \subseteq t, s # t PROVE h[s] = W(s)[s]
  <2>1. Weighs(W(s), s)
    BY <1>4, <1>5
  <2>2. CASE s = {}
    <3>1. s \in SUBSET s
      OBVIOUS
    <3>2. W(s)[s] = 0
      <4> HIDE DEF W, h, B
      <4> QED
        BY <2>1, <2>2, <3>1, WeighsEq
    <3> QED
      BY <1>5, <2>2, <3>2
  <2>3. CASE s # {}
    <3> DEFINE u == s \ {Chosen(s)}
    <3>1. u \subseteq s /\ u # s /\ W(s)[s] = PayloadSize[Chosen(s)] + W(s)[u]
      BY <2>1, <2>3, WeighsEq
    <3>2. Weighs(W(u), u) /\ IsFiniteSet(u)
      BY <1>4, <1>5, <3>1
    <3>3. W(u)[u] = W(s)[u]
      BY <2>1, <3>1, <3>2, WeighsAgree
    <3>4. h[s] = PayloadSize[Chosen(s)] + W(u)[u]
      BY <1>5, <2>3
    <3> QED
      BY <3>1, <3>3, <3>4
  <2> QED
    BY <2>2, <2>3
<1>6. Weighs(h, t)
  <2>1. ASSUME NEW s \in SUBSET t, s # {}
        PROVE  h[s \ {Chosen(s)}] = W(s \ {Chosen(s)})[s \ {Chosen(s)}]
    <3>1. s \ {Chosen(s)} \subseteq t /\ s \ {Chosen(s)} # t
      BY <2>1, ChosenIn
    <3> QED
      BY <1>5, <3>1
  <2>2. ASSUME NEW s \in SUBSET t
        PROVE  h[s] = IF s = {} THEN 0 ELSE PayloadSize[Chosen(s)] + h[s \ {Chosen(s)}]
    <3>1. h[s] = IF s = {} THEN 0
                 ELSE PayloadSize[Chosen(s)] + W(s \ {Chosen(s)})[s \ {Chosen(s)}]
      OBVIOUS
    <3> HIDE DEF h, W
    <3> QED
      BY <2>1, <3>1
  <2>3. h = [s \in SUBSET t |-> h[s]]
    OBVIOUS
  <2> HIDE DEF h
  <2> QED
    BY <2>2, <2>3 DEF Weighs
<1> QED
  BY <1>3, <1>6

\* The total of a finite set: nothing, or one payload more than the rest.
LEMMA BytesEq ==
    ASSUME NEW S, IsFiniteSet(S)
    PROVE  /\ S = {} => Bytes(S) = 0
           /\ S # {} => Bytes(S) = PayloadSize[Chosen(S)] + Bytes(S \ {Chosen(S)})
<1> DEFINE W(s) == CHOOSE g : Weighs(g, s)
<1>1. Weighs(W(S), S) /\ Bytes(S) = W(S)[S]
  BY WeighsExists, BytesDef
<1>2. CASE S # {}
  <2> DEFINE u == S \ {Chosen(S)}
  <2>1. W(S)[S] = PayloadSize[Chosen(S)] + W(S)[u] /\ u \subseteq S
    BY <1>1, <1>2, WeighsEq
  <2>2. IsFiniteSet(u)
    BY <2>1, FS_Subset
  <2>3. Weighs(W(u), u) /\ Bytes(u) = W(u)[u]
    BY <2>2, WeighsExists, BytesDef
  <2>4. W(u)[u] = W(S)[u]
    BY <1>1, <2>1, <2>2, <2>3, WeighsAgree
  <2> QED
    BY <1>1, <1>2, <2>1, <2>3, <2>4
<1>3. CASE S = {}
  BY <1>1, <1>3, WeighsEq
<1> QED
  BY <1>2, <1>3

\* A finite set of rows has a size.
LEMMA BytesNat == ASSUME NEW S, IsFiniteSet(S), S \subseteq EventId PROVE Bytes(S) \in Nat
<1> DEFINE B == {s \in SUBSET S : Bytes(s) \notin Nat}
<1>1. SUFFICES ASSUME B # {} PROVE FALSE
  OBVIOUS
<1>2. PICK t \in B : \A u \in B : ~(u \subseteq t /\ u # t)
  <2>1. B \subseteq SUBSET S
    OBVIOUS
  <2> HIDE DEF B
  <2> QED
    BY <1>1, <2>1, SmallestOf
<1>3. t \in SUBSET S /\ Bytes(t) \notin Nat /\ IsFiniteSet(t)
  BY FS_Subset
<1>4. t # {}
  BY <1>3, BytesEq
<1> DEFINE u == t \ {Chosen(t)}
<1>5. Bytes(t) = PayloadSize[Chosen(t)] + Bytes(u) /\ Chosen(t) \in t
  BY <1>3, <1>4, BytesEq, ChosenIn
<1>6. u \in SUBSET S /\ u \subseteq t /\ u # t
  BY <1>3, <1>5
<1> HIDE DEF u
<1>7. Bytes(u) \in Nat
  BY <1>2, <1>6
<1>8. PayloadSize[Chosen(t)] \in Nat
  BY <1>3, <1>5, PayloadAssumption
<1> QED
  BY <1>3, <1>5, <1>7, <1>8

\* The size does not depend on the order in which the rows are added up.
LEMMA BytesWithout ==
    ASSUME NEW S, IsFiniteSet(S), S \subseteq EventId, NEW y \in S
    PROVE  Bytes(S) = PayloadSize[y] + Bytes(S \ {y})
<1> DEFINE B == {s \in SUBSET S : \E x \in s : Bytes(s) # PayloadSize[x] + Bytes(s \ {x})}
<1>1. SUFFICES ASSUME B # {} PROVE FALSE
  OBVIOUS
<1>2. PICK t \in B : \A u \in B : ~(u \subseteq t /\ u # t)
  <2>1. B \subseteq SUBSET S
    OBVIOUS
  <2> HIDE DEF B
  <2> QED
    BY <1>1, <2>1, SmallestOf
<1>3. PICK x \in t : Bytes(t) # PayloadSize[x] + Bytes(t \ {x})
  OBVIOUS
<1>4. t \in SUBSET S /\ IsFiniteSet(t) /\ t # {}
  BY <1>3, FS_Subset
<1>5. PICK p \in t : Bytes(t) = PayloadSize[p] + Bytes(t \ {p})
  BY <1>4, BytesEq, ChosenIn
<1>6. p # x
  BY <1>3, <1>5
<1> DEFINE v == t \ {p}
           w == t \ {x}
           r == t \ {p, x}
<1>7. /\ v \in SUBSET S /\ v \subseteq t /\ v # t /\ x \in v
      /\ w \in SUBSET S /\ w \subseteq t /\ w # t /\ p \in w
      /\ v \ {x} = r /\ w \ {p} = r /\ r \in SUBSET S
  BY <1>3, <1>4, <1>5, <1>6
<1> HIDE DEF v, w, r
<1>8. Bytes(v) = PayloadSize[x] + Bytes(r) /\ Bytes(w) = PayloadSize[p] + Bytes(r)
  <2>1. v \notin B /\ w \notin B
    BY <1>2, <1>7
  <2> QED
    BY <1>7, <2>1
<1>9. Bytes(r) \in Nat /\ PayloadSize[x] \in Nat /\ PayloadSize[p] \in Nat
  <2>1. IsFiniteSet(r) /\ r \subseteq EventId /\ x \in EventId /\ p \in EventId
    BY <1>4, <1>7, FS_Subset
  <2> QED
    BY <2>1, BytesNat, PayloadAssumption
<1>10. Bytes(t) = PayloadSize[p] + Bytes(v) /\ Bytes(t) # PayloadSize[x] + Bytes(w)
  BY <1>3, <1>5 DEF v, w
<1> QED
  BY <1>8, <1>9, <1>10

\* The limits mean something because the tables are finite.
CapacityInv ==
    /\ OutboxTypeOK
    /\ IsFiniteSet(DOMAIN outbox)
    /\ IsFiniteSet(DOMAIN call_streams)
    /\ IsFiniteSet(DOMAIN retired_calls)
    /\ WithinCapacity

\* insert_pending counts the rows, the bytes and the cursors it leaves behind.
LEMMA InsertFits ==
    ASSUME CapacityInv, NEW e \in EventId, NEW rec \in Request, NEW now \in Time,
           InsertPending(e, rec, now)
    PROVE  /\ IsFiniteSet(DOMAIN outbox') /\ IsFiniteSet(DOMAIN call_streams')
           /\ Cardinality(DOMAIN outbox') <= MaxRows
           /\ Bytes(DOMAIN outbox') <= MaxBytes
           /\ Cardinality(DOMAIN call_streams') <= MaxRows
<1> DEFINE R == Retained(e)
<1>1. /\ DOMAIN outbox' = R \cup {e}
      /\ e \notin R /\ R \subseteq DOMAIN outbox
      /\ ~NoRoomBeside(R, e)
  BY RetainedStored DEF InsertPending, CanInsert
<1> HIDE DEF R
<1>2. IsFiniteSet(R) /\ R \subseteq EventId
  BY <1>1, FS_Subset DEF CapacityInv, OutboxTypeOK
<1>3. IsFiniteSet(R \cup {e}) /\ Cardinality(R \cup {e}) = Cardinality(R) + 1
  BY <1>1, <1>2, FS_AddElement
<1>4. Bytes(R \cup {e}) = PayloadSize[e] + Bytes(R)
  <2>1. (R \cup {e}) \ {e} = R /\ e \in R \cup {e} /\ R \cup {e} \subseteq EventId
    BY <1>1, <1>2
  <2> QED
    BY <1>3, <2>1, BytesWithout
<1>5. Cardinality(R) \in Nat /\ Bytes(R) \in Nat /\ PayloadSize[e] \in Nat
  BY <1>2, BytesNat, FS_CardinalityType, PayloadAssumption
<1>6. Cardinality(DOMAIN outbox') <= MaxRows /\ Bytes(DOMAIN outbox') <= MaxBytes
  BY <1>1, <1>3, <1>4, <1>5, LimitAssumption DEF NoRoomBeside
<1>7. IsFiniteSet(DOMAIN call_streams') /\ Cardinality(DOMAIN call_streams') <= MaxRows
  <2>1. CASE DOMAIN call_streams' = DOMAIN call_streams
    BY <2>1 DEF CapacityInv, WithinCapacity
  <2>2. CASE DOMAIN call_streams' # DOMAIN call_streams
    <3>1. /\ DOMAIN call_streams' = DOMAIN call_streams \cup {rec.call_uuid}
          /\ rec.call_uuid # Ungrouped
      BY <2>2 DEF InsertPending
    <3>2. rec.call_uuid \notin DOMAIN call_streams
      BY <2>2, <3>1
    <3>3. Cardinality(DOMAIN call_streams) < MaxRows
      BY <3>1, <3>2 DEF InsertPending, CanInsert, OrderAdmits, StreamFits
    <3>4. /\ IsFiniteSet(DOMAIN call_streams')
          /\ Cardinality(DOMAIN call_streams') = Cardinality(DOMAIN call_streams) + 1
          /\ Cardinality(DOMAIN call_streams) \in Nat
      BY <3>1, <3>2, FS_AddElement, FS_CardinalityType DEF CapacityInv
    <3> QED
      BY <3>3, <3>4, LimitAssumption
  <2> QED
    BY <2>1, <2>2
<1> QED
  BY <1>1, <1>3, <1>6, <1>7

\* mark_acked takes one row and its bytes away.
LEMMA AckFits ==
    ASSUME CapacityInv, NEW e, NEW now, MarkAcked(e, now)
    PROVE  /\ IsFiniteSet(DOMAIN outbox')
           /\ Cardinality(DOMAIN outbox') <= MaxRows
           /\ Bytes(DOMAIN outbox') <= MaxBytes
           /\ DOMAIN call_streams' = DOMAIN call_streams
<1> DEFINE D == DOMAIN outbox
<1>1. DOMAIN outbox' = D \ {e} /\ e \in D /\ DOMAIN call_streams' = DOMAIN call_streams
  BY DEF MarkAcked, CanAck
<1>2. IsFiniteSet(D) /\ D \subseteq EventId /\ Cardinality(D) <= MaxRows /\ Bytes(D) <= MaxBytes
  BY DEF CapacityInv, OutboxTypeOK, WithinCapacity
<1> HIDE DEF D
<1>3. IsFiniteSet(D \ {e}) /\ Cardinality(D \ {e}) <= Cardinality(D)
  BY <1>2, FS_Subset
<1>4. Bytes(D) = PayloadSize[e] + Bytes(D \ {e})
  BY <1>1, <1>2, BytesWithout
<1>5. /\ Bytes(D \ {e}) \in Nat /\ PayloadSize[e] \in Nat
      /\ Cardinality(D) \in Nat /\ Cardinality(D \ {e}) \in Nat
  BY <1>1, <1>2, <1>3, BytesNat, FS_CardinalityType, PayloadAssumption
<1>6. Cardinality(D \ {e}) <= MaxRows /\ Bytes(D \ {e}) <= MaxBytes
  BY <1>2, <1>3, <1>4, <1>5, LimitAssumption
<1> QED
  BY <1>1, <1>3, <1>6

\* retire turns a cursor into a fence, of which there are no more than rows.
LEMMA RetireFits ==
    ASSUME CapacityInv, NEW c \in Call, Retire(c)
    PROVE  /\ IsFiniteSet(DOMAIN call_streams') /\ IsFiniteSet(DOMAIN retired_calls')
           /\ Cardinality(DOMAIN call_streams') <= MaxRows
           /\ Cardinality(DOMAIN retired_calls') <= MaxRows
<1> DEFINE C == DOMAIN call_streams
           F == DOMAIN retired_calls
<1>1. /\ DOMAIN call_streams' = C \ {c} /\ DOMAIN retired_calls' = F \cup {c}
      /\ Cardinality(F) < MaxRows
  BY DEF Retire, CanRetire
<1>2. IsFiniteSet(C) /\ IsFiniteSet(F) /\ Cardinality(C) <= MaxRows
  BY DEF CapacityInv, WithinCapacity
<1> HIDE DEF C, F
<1>3. IsFiniteSet(C \ {c}) /\ Cardinality(C \ {c}) <= Cardinality(C)
  BY <1>2, FS_Subset
<1>4. /\ IsFiniteSet(F \cup {c})
      /\ Cardinality(F \cup {c}) \in {Cardinality(F), Cardinality(F) + 1}
  BY <1>2, FS_AddElement
<1>5. Cardinality(C) \in Nat /\ Cardinality(F) \in Nat /\ Cardinality(C \ {c}) \in Nat
  BY <1>2, <1>3, FS_CardinalityType
<1> QED
  BY <1>1, <1>2, <1>3, <1>4, <1>5, LimitAssumption

\* No transaction leaves more than the limits allow.
LEMMA CapacityStep ==
    ASSUME CapacityInv, OutboxTypeOK', [OutboxNext]_obvars
    PROVE  CapacityInv'
<1>1. CASE \E e \in EventId, rec \in Request, now \in Time : InsertPending(e, rec, now)
  <2>1. PICK e \in EventId, rec \in Request, now \in Time : InsertPending(e, rec, now)
    BY <1>1
  <2>2. retired_calls' = retired_calls
    BY <2>1 DEF InsertPending
  <2> QED
    BY <2>1, <2>2, InsertFits DEF CapacityInv, WithinCapacity
<1>2. CASE \E e \in EventId, now \in Time : MarkAcked(e, now)
  <2>1. PICK e \in EventId, now \in Time : MarkAcked(e, now)
    BY <1>2
  <2>2. retired_calls' = retired_calls
    BY <2>1 DEF MarkAcked
  <2> QED
    BY <2>1, <2>2, AckFits DEF CapacityInv, WithinCapacity
<1>3. CASE \E c \in Call : Retire(c)
  <2>1. PICK c \in Call : Retire(c)
    BY <1>3
  <2>2. outbox' = outbox
    BY <2>1 DEF Retire
  <2> QED
    BY <2>1, <2>2, RetireFits DEF CapacityInv, WithinCapacity
<1>4. CASE /\ ~(\E e \in EventId, rec \in Request, now \in Time : InsertPending(e, rec, now))
           /\ ~(\E e \in EventId, now \in Time : MarkAcked(e, now))
           /\ ~(\E c \in Call : Retire(c))
  <2>1. /\ DOMAIN outbox' = DOMAIN outbox
        /\ DOMAIN call_streams' = DOMAIN call_streams
        /\ retired_calls' = retired_calls
    BY <1>4
    DEF OutboxNext, obvars, Open, Close, RequeueInFlight, ExpireTtl, MarkInFlight,
        MarkDead, MarkRetry, RetryDead
  <2> QED
    BY <2>1 DEF CapacityInv, WithinCapacity
<1> QED
  BY <1>1, <1>2, <1>3, <1>4

\* The limits on rows, bytes, cursors and fences hold whatever is admitted, given
\* up, acknowledged and retired: insert_pending and retire count what they leave.
THEOREM LimitsHold == OutboxSpec => []WithinCapacity
<1>1. OutboxInit => CapacityInv
  <2> SUFFICES ASSUME OutboxInit PROVE CapacityInv
    OBVIOUS
  <2>1. DOMAIN outbox = {} /\ DOMAIN call_streams = {} /\ DOMAIN retired_calls = {}
    BY DEF OutboxInit
  <2>2. IsFiniteSet({}) /\ Cardinality({}) = 0 /\ Bytes({}) = 0
    BY FS_EmptySet, BytesEq
  <2>3. OutboxTypeOK
    BY OutboxInvInit DEF OutboxInv
  <2> QED
    BY <2>1, <2>2, <2>3, LimitAssumption DEF CapacityInv, WithinCapacity
<1>2. OutboxInv' /\ CapacityInv /\ [OutboxNext]_obvars => CapacityInv'
  BY CapacityStep DEF OutboxInv
<1>3. CapacityInv => WithinCapacity
  BY DEF CapacityInv
<1> QED
  BY <1>1, <1>2, <1>3, OutboxInvariant, PTL DEF OutboxSpec

=============================================================================
