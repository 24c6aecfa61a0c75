----------------------------- MODULE OrderProofs -----------------------------
(***************************************************************************)
(* Strict order of a call's events in the topic, for any number of events, *)
(* calls, partitions, sends, duplicates, faults, crashes and restarts.     *)
(*                                                                         *)
(* The argument: a message is handed to the producer only while its row is *)
(* the head of its call, and a cursor moves only over what the topic holds *)
(* already.  So everything below the ordinal of a message is in the topic  *)
(* before the message can be, and stays there, however late the broker     *)
(* appends it.                                                             *)
(***************************************************************************)
EXTENDS PipelineProofs

\* Partition p holds a record with ordinal n of call c.
Holds(p, c, n) ==
    \E j \in DOMAIN log[p] : log[p][j].call_uuid = c /\ log[p][j].call_seq = n

Identity(r) == [call_uuid |-> r.call_uuid, msg_key |-> r.msg_key, call_seq |-> r.call_seq]

AsAdmitted(m) == m.event_id \in DOMAIN admitted /\ admitted[m.event_id] = Identity(m)

BrokerTyped ==
    /\ outstanding \subseteq Message
    /\ wire \subseteq Message
    /\ log \in [Partition -> Seq(Message)]

\* A row is what its event was admitted as, and so is every message sent.
RowsAsAdmitted ==
    \A e \in DOMAIN outbox : e \in DOMAIN admitted /\ admitted[e] = Identity(outbox[e])

SentAsAdmitted == \A m \in outstanding \cup wire : AsAdmitted(m)

\* What a cursor has passed is in the partition of the call's key.
CursorPublished ==
    \A c \in DOMAIN call_streams : \A n \in 0 .. call_streams[c].next_seq - 1 :
        Holds(PartitionOf[call_streams[c].msg_key], c, n)

\* Whatever the broker may still append, all that precedes it is there already.
WireReady ==
    \A m \in wire : m.call_uuid # Ungrouped =>
        /\ m.msg_key \in Key
        /\ \A n \in 0 .. m.call_seq - 1 : Holds(PartitionOf[m.msg_key], m.call_uuid, n)

LogPlaced ==
    \A p \in Partition : \A i \in DOMAIN log[p] :
        log[p][i].call_uuid # Ungrouped =>
            log[p][i].msg_key \in Key /\ p = PartitionOf[log[p][i].msg_key]

\* An admitted event of a call is stored, below the cursor, or its call retired.
AdmittedAccounted ==
    \A e \in DOMAIN admitted : admitted[e].call_uuid # Ungrouped =>
        \/ admitted[e].call_uuid \in DOMAIN retired_calls
        \/ /\ admitted[e].call_uuid \in DOMAIN call_streams
           /\ \/ e \in DOMAIN outbox
              \/ admitted[e].call_seq < call_streams[admitted[e].call_uuid].next_seq

\* An ordinal is a number.
AdmittedTyped == \A e \in DOMAIN admitted : admitted[e].call_seq \in Int

\* What the topic, the messages and the database have to do with each other.
OrderData ==
    /\ BrokerTyped /\ AdmittedTyped
    /\ RowsAsAdmitted /\ SentAsAdmitted /\ RecordsAsAdmitted
    /\ CursorPublished /\ WireReady /\ LogPlaced
    /\ FirstOccurrenceOrder
    /\ AdmittedAccounted /\ AcceptedNeverLost

OrderInv == DeliveryInv /\ OrderData

-----------------------------------------------------------------------------
(* Transactions that neither admit nor acknowledge *)

QuietStep ==
    \/ Open \/ Close
    \/ \E c \in Call : Retire(c)
    \/ \E now \in Time : RequeueInFlight(now) \/ ExpireTtl(now)
    \/ \E e \in EventId : MarkInFlight(e) \/ MarkDead(e)
    \/ \E e \in EventId, now \in Time : MarkRetry(e, now) \/ RetryDead(e, now)
    \/ UNCHANGED obvars

\* They keep the rows with their identity, the cursors, and add only fences.
LEMMA QuietKeeps ==
    ASSUME OutboxInv, QuietStep
    PROVE  /\ DOMAIN outbox' = DOMAIN outbox
           /\ \A e \in DOMAIN outbox : Identity(outbox'[e]) = Identity(outbox[e])
           /\ \A c \in DOMAIN call_streams' :
                 /\ c \in DOMAIN call_streams
                 /\ call_streams'[c].msg_key = call_streams[c].msg_key
                 /\ call_streams'[c].next_seq = call_streams[c].next_seq
           /\ \A c \in DOMAIN call_streams : c \in DOMAIN call_streams' \cup DOMAIN retired_calls'
           /\ DOMAIN retired_calls \subseteq DOMAIN retired_calls'
<1>0. [OutboxNext]_obvars
  BY DEF QuietStep, OutboxNext
<1>1. DOMAIN outbox' = DOMAIN outbox
  BY DEF QuietStep, Open, Close, Retire, RequeueInFlight, ExpireTtl, MarkInFlight, MarkDead,
         MarkRetry, RetryDead, obvars
<1>2. ASSUME NEW e \in DOMAIN outbox PROVE Identity(outbox'[e]) = Identity(outbox[e])
  <2>1. CASE UNCHANGED obvars
    BY <2>1 DEF obvars
  <2>2. CASE IdentityKept
    BY <1>1, <2>2 DEF IdentityKept, Identity
  <2> QED
    BY <1>0, <2>1, <2>2, IdentityStep
<1>3. CASE \/ Open \/ Close
           \/ \E now \in Time : RequeueInFlight(now) \/ ExpireTtl(now)
           \/ \E e \in EventId : MarkDead(e)
           \/ \E e \in EventId, now \in Time : MarkRetry(e, now) \/ RetryDead(e, now)
           \/ UNCHANGED obvars
  <2>1. call_streams' = call_streams /\ retired_calls' = retired_calls
    BY <1>3
    DEF Open, Close, RequeueInFlight, ExpireTtl, MarkDead, MarkRetry, RetryDead, obvars
  <2> QED
    BY <1>1, <1>2, <2>1
<1>4. CASE \E e \in EventId : MarkInFlight(e)
  <2>1. PICK e \in EventId : MarkInFlight(e)
    BY <1>4
  <2>2. DOMAIN call_streams' = DOMAIN call_streams /\ retired_calls' = retired_calls
    BY <2>1 DEF MarkInFlight
  <2>3. ASSUME NEW c \in DOMAIN call_streams
        PROVE  /\ call_streams'[c].msg_key = call_streams[c].msg_key
               /\ call_streams'[c].next_seq = call_streams[c].next_seq
    <3>1. call_streams[c] \in Stream
      BY DEF OutboxInv, OutboxTypeOK
    <3> QED
      BY <2>1, <3>1 DEF MarkInFlight, Served, Stream
  <2> QED
    BY <1>1, <1>2, <2>2, <2>3
<1>5. CASE \E c \in Call : Retire(c)
  BY <1>1, <1>2, <1>5 DEF Retire
<1> QED
  BY <1>3, <1>4, <1>5 DEF QuietStep

\* A quiet transaction with the topic as it was keeps the relation.
LEMMA QuietData ==
    ASSUME OutboxInv, OrderData, QuietStep,
           log' = log, wire' = wire, admitted' = admitted, outstanding' \subseteq outstanding
    PROVE  OrderData'
<1>1. BrokerTyped' /\ SentAsAdmitted' /\ RecordsAsAdmitted' /\ WireReady' /\ LogPlaced'
      /\ FirstOccurrenceOrder' /\ AdmittedTyped'
  BY DEF OrderData, BrokerTyped, AdmittedTyped, SentAsAdmitted, AsAdmitted, RecordsAsAdmitted,
         WireReady, LogPlaced, FirstOccurrenceOrder, Holds
<1>2. RowsAsAdmitted'
  BY QuietKeeps DEF OrderData, RowsAsAdmitted
<1>3. CursorPublished'
  BY QuietKeeps DEF OrderData, CursorPublished, Holds
<1>4. AcceptedNeverLost'
  BY QuietKeeps DEF OrderData, AcceptedNeverLost
<1>5. AdmittedAccounted'
  BY QuietKeeps DEF OrderData, AdmittedAccounted
<1> QED
  BY <1>1, <1>2, <1>3, <1>4, <1>5 DEF OrderData

-----------------------------------------------------------------------------
(* The broker appends a message *)

\* Records stay where they are and one is added at the end.
LEMMA AppendKeeps ==
    ASSUME BrokerTyped, NEW m \in Message, NEW p \in Partition,
           log' = [log EXCEPT ![p] = Append(@, m)]
    PROVE  /\ \A q \in Partition : \A i \in DOMAIN log[q] :
                 i \in DOMAIN log'[q] /\ log'[q][i] = log[q][i]
           /\ \A q \in Partition : \A i \in DOMAIN log'[q] :
                 i \in DOMAIN log[q] \/ (q = p /\ i = Len(log[p]) + 1 /\ log'[q][i] = m)
           /\ DOMAIN log[p] = 1 .. Len(log[p]) /\ Len(log[p]) \in Nat
           /\ Len(log[p]) + 1 \in DOMAIN log'[p] /\ log'[p][Len(log[p]) + 1] = m
           /\ log' \in [Partition -> Seq(Message)]
<1>1. log[p] \in Seq(Message) /\ log'[p] = Append(log[p], m)
  BY DEF BrokerTyped
<1>2. \A q \in Partition : q # p => log'[q] = log[q]
  BY DEF BrokerTyped
<1>3. log' \in [Partition -> Seq(Message)]
  BY <1>1 DEF BrokerTyped
<1>4. /\ DOMAIN log[p] = 1 .. Len(log[p]) /\ Len(log[p]) \in Nat
      /\ DOMAIN log'[p] = 1 .. Len(log[p]) + 1
      /\ \A i \in 1 .. Len(log[p]) : log'[p][i] = log[p][i]
      /\ log'[p][Len(log[p]) + 1] = m
  BY <1>1
<1> QED
  BY <1>2, <1>3, <1>4

\* Whatever the topic holds it keeps holding.
LEMMA AppendData ==
    ASSUME OutboxInv, OrderData, NEW m \in wire, NEW p \in Partition, BrokerAppend(m, p)
    PROVE  OrderData'
<1>0. /\ m \in Message
      /\ log' = [log EXCEPT ![p] = Append(@, m)]
      /\ wire' \subseteq wire /\ outstanding' = outstanding /\ admitted' = admitted
      /\ UNCHANGED obvars
      /\ p \in Target(m)
  BY DEF BrokerAppend, OrderData, BrokerTyped, worker
<1> DEFINE last == Len(log[p]) + 1
<1>1. /\ \A q \in Partition : \A i \in DOMAIN log[q] :
            i \in DOMAIN log'[q] /\ log'[q][i] = log[q][i]
      /\ \A q \in Partition : \A i \in DOMAIN log'[q] :
            i \in DOMAIN log[q] \/ (q = p /\ i = last /\ log'[q][i] = m)
      /\ DOMAIN log[p] = 1 .. Len(log[p]) /\ Len(log[p]) \in Nat
      /\ log' \in [Partition -> Seq(Message)]
  BY <1>0, AppendKeeps DEF OrderData
<1> HIDE DEF last
<1>2. ASSUME NEW q \in Partition, NEW c, NEW n, Holds(q, c, n) PROVE Holds(q, c, n)'
  BY <1>1, <1>2 DEF Holds
<1>3. BrokerTyped'
  BY <1>0, <1>1 DEF OrderData, BrokerTyped
<1>4. RowsAsAdmitted' /\ SentAsAdmitted' /\ AdmittedAccounted' /\ AdmittedTyped'
  BY <1>0 DEF OrderData, AdmittedTyped, RowsAsAdmitted, SentAsAdmitted, AsAdmitted,
              AdmittedAccounted, obvars
<1>5. RecordsAsAdmitted'
  <2>1. AsAdmitted(m)
    BY DEF OrderData, SentAsAdmitted
  <2> QED
    BY <1>0, <1>1, <2>1 DEF OrderData, RecordsAsAdmitted, AsAdmitted, Identity
<1>6. CursorPublished'
  <2> SUFFICES ASSUME NEW c \in DOMAIN call_streams,
                      NEW n \in 0 .. call_streams[c].next_seq - 1
               PROVE  Holds(PartitionOf[call_streams[c].msg_key], c, n)'
    BY <1>0 DEF CursorPublished, obvars
  <2>1. PartitionOf[call_streams[c].msg_key] \in Partition
    BY PartitionAssumption DEF OutboxInv, OutboxTypeOK, Stream
  <2> QED
    BY <1>0, <1>2, <2>1 DEF OrderData, CursorPublished, obvars
<1>7. WireReady'
  <2> SUFFICES ASSUME NEW l \in wire', l.call_uuid # Ungrouped
               PROVE  /\ l.msg_key \in Key
                      /\ \A n \in 0 .. l.call_seq - 1 :
                            Holds(PartitionOf[l.msg_key], l.call_uuid, n)'
    BY DEF WireReady
  <2>1. /\ l.msg_key \in Key
        /\ \A n \in 0 .. l.call_seq - 1 : Holds(PartitionOf[l.msg_key], l.call_uuid, n)
    BY <1>0 DEF OrderData, WireReady
  <2> QED
    BY <1>2, <2>1, PartitionAssumption
<1>8. LogPlaced'
  <2>1. m.call_uuid # Ungrouped => m.msg_key \in Key /\ p = PartitionOf[m.msg_key]
    BY <1>0, KeyAssumption DEF OrderData, WireReady, Target
  <2> QED
    BY <1>1, <2>1 DEF OrderData, LogPlaced
<1>9. FirstOccurrenceOrder'
  <2> SUFFICES ASSUME NEW q \in Partition, NEW i \in DOMAIN log'[q],
                      log'[q][i].call_uuid # Ungrouped,
                      NEW n \in 0 .. log'[q][i].call_seq - 1
               PROVE  \E j \in 1 .. i - 1 : /\ log'[q][j].call_uuid = log'[q][i].call_uuid
                                           /\ log'[q][j].call_seq = n
    BY DEF FirstOccurrenceOrder
  <2>1. CASE i \in DOMAIN log[q]
    <3>1. log'[q][i] = log[q][i]
      BY <1>1, <2>1
    <3>2. PICK j \in 1 .. i - 1 : /\ log[q][j].call_uuid = log[q][i].call_uuid
                                  /\ log[q][j].call_seq = n
      BY <2>1, <3>1 DEF OrderData, FirstOccurrenceOrder
    <3>3. DOMAIN log[q] = 1 .. Len(log[q]) /\ Len(log[q]) \in Nat
      BY DEF OrderData, BrokerTyped
    <3>4. j \in DOMAIN log[q]
      BY <2>1, <3>2, <3>3
    <3> QED
      BY <1>1, <3>1, <3>2, <3>4
  <2>2. CASE q = p /\ i = last /\ log'[q][i] = m
    <3>1. p = PartitionOf[m.msg_key] /\ Holds(PartitionOf[m.msg_key], m.call_uuid, n)
      BY <1>0, <2>2, KeyAssumption DEF OrderData, WireReady, Target
    <3>2. PICK j \in DOMAIN log[p] : log[p][j].call_uuid = m.call_uuid /\ log[p][j].call_seq = n
      BY <3>1 DEF Holds
    <3>3. j \in 1 .. i - 1
      BY <1>1, <2>2, <3>2 DEF last
    <3> QED
      BY <1>1, <2>2, <3>2, <3>3
  <2> QED
    BY <1>1, <2>1, <2>2
<1>10. AcceptedNeverLost'
  BY <1>0, <1>1 DEF OrderData, AcceptedNeverLost, obvars
<1> QED
  BY <1>3, <1>4, <1>5, <1>6, <1>7, <1>8, <1>9, <1>10 DEF OrderData

-----------------------------------------------------------------------------
(* The worker produces the head of a call *)

\* Below the head everything is acknowledged, and so in the topic.
LEMMA ProduceData ==
    ASSUME OutboxInv, OrderData, ProducingInFlight, WorkerProduce
    PROVE  OrderData'
<1> DEFINE e == Head(due)
           m == MessageOf(Head(due))
<1>0. /\ outstanding' = outstanding \cup {m} /\ wire' = wire \cup {m}
      /\ log' = log /\ admitted' = admitted /\ UNCHANGED obvars
  BY DEF WorkerProduce
<1>1. /\ e \in DOMAIN outbox /\ outbox[e].state = "in_flight" /\ outbox[e].attempts >= 1
  BY DEF WorkerProduce, ProducingInFlight
<1>2. m \in Message /\ Identity(m) = Identity(outbox[e]) /\ m.event_id = e
  <2>1. e \in EventId /\ outbox[e] \in Row
    BY <1>1 DEF OutboxInv, OutboxTypeOK
  <2> QED
    BY <1>1, <2>1, LimitAssumption DEF MessageOf, Message, Row, Identity
<1>3. AsAdmitted(m)
  BY <1>1, <1>2 DEF OrderData, RowsAsAdmitted, AsAdmitted
<1>4. m.call_uuid # Ungrouped =>
        /\ m.msg_key \in Key
        /\ \A n \in 0 .. m.call_seq - 1 : Holds(PartitionOf[m.msg_key], m.call_uuid, n)
  <2> SUFFICES ASSUME m.call_uuid # Ungrouped
               PROVE  /\ m.msg_key \in Key
                      /\ \A n \in 0 .. m.call_seq - 1 :
                            Holds(PartitionOf[m.msg_key], m.call_uuid, n)
    OBVIOUS
  <2>1. /\ m.call_uuid = outbox[e].call_uuid
        /\ m.msg_key = outbox[e].msg_key
        /\ m.call_seq = outbox[e].call_seq
    BY DEF MessageOf
  <2>2. Ordered(e) /\ Deliverable(e)
    BY <1>1, <2>1 DEF OutboxInv, InFlightIsHead, Ordered
  <2>3. /\ m.call_uuid \in DOMAIN call_streams
        /\ m.call_seq = call_streams[m.call_uuid].next_seq
    BY <2>1, <2>2 DEF Deliverable
  <2>4. m.msg_key = call_streams[m.call_uuid].msg_key
    BY <1>1, <2>1, <2>2 DEF OutboxInv, RowsWithinWindow
  <2>5. call_streams[m.call_uuid].msg_key \in Key
    BY <2>3 DEF OutboxInv, OutboxTypeOK, Stream
  <2> QED
    BY <2>3, <2>4, <2>5 DEF OrderData, CursorPublished
<1> HIDE DEF m, e
<1>5. BrokerTyped' /\ SentAsAdmitted'
  BY <1>0, <1>2, <1>3 DEF OrderData, BrokerTyped, SentAsAdmitted, AsAdmitted
<1>6. WireReady'
  BY <1>0, <1>4 DEF OrderData, WireReady, Holds
<1>7. RowsAsAdmitted' /\ RecordsAsAdmitted' /\ LogPlaced' /\ FirstOccurrenceOrder'
      /\ AdmittedAccounted' /\ AcceptedNeverLost' /\ AdmittedTyped'
  BY <1>0 DEF OrderData, AdmittedTyped, RowsAsAdmitted, RecordsAsAdmitted, LogPlaced,
              FirstOccurrenceOrder, AdmittedAccounted, AcceptedNeverLost, obvars
<1>8. CursorPublished'
  BY <1>0 DEF OrderData, CursorPublished, Holds, obvars
<1> QED
  BY <1>5, <1>6, <1>7, <1>8 DEF OrderData

-----------------------------------------------------------------------------
(* enqueue commits an admission *)

\* A new event is stored, and room is never made at the cost of a call.
LEMMA EnqueueData ==
    ASSUME OutboxInv, OrderData,
           NEW e \in EventId, NEW rec \in Request, NEW now \in Time, EnqueueCommit(e, rec, now)
    PROVE  OrderData'
<1>0. /\ InsertPending(e, rec, now)
      /\ e \notin DOMAIN admitted
      /\ DOMAIN admitted' = DOMAIN admitted \cup {e}
      /\ \A d \in DOMAIN admitted : admitted'[d] = admitted[d]
      /\ admitted'[e] = Identity(NewRow(rec, now))
      /\ log' = log /\ wire' = wire /\ outstanding' = outstanding
  <2>1. Identity(NewRow(rec, now)) =
          [call_uuid |-> rec.call_uuid, msg_key |-> rec.msg_key,
           call_seq |-> NewRow(rec, now).call_seq]
    BY DEF Identity, NewRow
  <2>2. log' = log /\ wire' = wire /\ outstanding' = outstanding
    BY DEF EnqueueCommit, broker
  <2> QED
    BY <2>1, <2>2 DEF EnqueueCommit
<1>1. /\ DOMAIN outbox' = Retained(e) \cup {e}
      /\ outbox'[e] = NewRow(rec, now)
      /\ \A d \in Retained(e) : d # e => outbox'[d] = outbox[d]
      /\ retired_calls' = retired_calls
  BY <1>0 DEF InsertPending
<1>2. /\ Retained(e) \subseteq DOMAIN outbox
      /\ e \notin DOMAIN outbox
      /\ \A d \in DOMAIN outbox : Ordered(d) => d \in Retained(e)
  BY <1>0 DEF InsertPending, CanInsert, Retained, Reclaimable
<1>3. \A c \in DOMAIN call_streams :
         /\ c \in DOMAIN call_streams'
         /\ call_streams'[c].msg_key = call_streams[c].msg_key
         /\ call_streams'[c].next_seq = call_streams[c].next_seq
  <2> SUFFICES ASSUME NEW c \in DOMAIN call_streams
               PROVE  /\ c \in DOMAIN call_streams'
                      /\ call_streams'[c].msg_key = call_streams[c].msg_key
                      /\ call_streams'[c].next_seq = call_streams[c].next_seq
    OBVIOUS
  <2>1. call_streams[c] \in Stream
    BY DEF OutboxInv, OutboxTypeOK
  <2>2. CASE rec.call_uuid = Ungrouped
    BY <1>0, <2>2 DEF InsertPending
  <2>3. CASE rec.call_uuid # Ungrouped
    <3>1. c \in DOMAIN call_streams'
      BY <1>0, <2>3 DEF InsertPending
    <3>2. CASE c # rec.call_uuid
      BY <1>0, <2>3, <3>1, <3>2 DEF InsertPending
    <3>3. CASE c = rec.call_uuid
      BY <1>0, <2>1, <2>3, <3>1, <3>3 DEF InsertPending, Admitted, StreamFor, Stream
    <3> QED
      BY <3>2, <3>3
  <2> QED
    BY <2>2, <2>3
<1>4. \A c \in DOMAIN call_streams' \ DOMAIN call_streams :
         c = rec.call_uuid /\ call_streams'[c].next_seq = 0
  BY <1>0 DEF InsertPending, Admitted, StreamFor
<1>5. rec.call_uuid # Ungrouped => rec.call_uuid \in DOMAIN call_streams'
  BY <1>0 DEF InsertPending
<1>6. BrokerTyped' /\ WireReady' /\ LogPlaced' /\ FirstOccurrenceOrder'
  BY <1>0 DEF OrderData, BrokerTyped, WireReady, LogPlaced, FirstOccurrenceOrder, Holds
<1>7. SentAsAdmitted' /\ RecordsAsAdmitted'
  BY <1>0 DEF OrderData, SentAsAdmitted, AsAdmitted, RecordsAsAdmitted
<1>8. RowsAsAdmitted' /\ AdmittedTyped'
  <2>1. RowsAsAdmitted'
    BY <1>0, <1>1, <1>2 DEF OrderData, RowsAsAdmitted
  <2>2. OutboxInv'
    BY <1>0, OutboxInvStep DEF OutboxNext
  <2>3. NewRow(rec, now) \in Row
    BY <1>1, <2>2 DEF OutboxInv, OutboxTypeOK
  <2>4. admitted'[e].call_seq \in Int
    BY <1>0, <2>3, LimitAssumption DEF Row, Identity
  <2> QED
    BY <1>0, <2>1, <2>4 DEF OrderData, AdmittedTyped
<1>9. CursorPublished'
  <2> SUFFICES ASSUME NEW c \in DOMAIN call_streams',
                      NEW n \in 0 .. call_streams'[c].next_seq - 1
               PROVE  Holds(PartitionOf[call_streams[c].msg_key], c, n)'
    BY DEF CursorPublished
  <2>1. c \in DOMAIN call_streams
    BY <1>4
  <2> QED
    BY <1>0, <1>3, <2>1 DEF OrderData, CursorPublished, Holds
<1>10. AcceptedNeverLost' /\ AdmittedAccounted'
  <2>1. ASSUME NEW d \in DOMAIN admitted, admitted[d].call_uuid # Ungrouped, d \in DOMAIN outbox
        PROVE  d \in DOMAIN outbox'
    <3>1. admitted[d] = Identity(outbox[d])
      BY <2>1 DEF OrderData, RowsAsAdmitted
    <3>2. Ordered(d)
      BY <2>1, <3>1 DEF Ordered, Identity
    <3> QED
      BY <1>1, <1>2, <2>1, <3>2
  <2>2. AcceptedNeverLost'
    BY <1>0, <1>1, <2>1 DEF OrderData, AcceptedNeverLost
  <2>3. admitted'[e].call_uuid = rec.call_uuid
    BY <1>0 DEF NewRow, Identity
  <2>4. AdmittedAccounted'
    BY <1>0, <1>1, <1>3, <1>5, <2>1, <2>3 DEF OrderData, AdmittedAccounted
  <2> QED
    BY <2>2, <2>4
<1> QED
  BY <1>6, <1>7, <1>8, <1>9, <1>10 DEF OrderData

-----------------------------------------------------------------------------
(* A delivery report acknowledges the head *)

\* The cursor moves over an ordinal whose record the report is about.
LEMMA AckData ==
    ASSUME OutboxInv, OrderData, NEW m \in outstanding, Logged(m), NEW now \in Time,
           MarkAcked(m.event_id, now), log' = log, wire' = wire, admitted' = admitted,
           outstanding' \subseteq outstanding
    PROVE  OrderData'
<1> DEFINE e == m.event_id
<1>0. /\ e \in DOMAIN outbox /\ Deliverable(e)
      /\ DOMAIN outbox' = DOMAIN outbox \ {e}
      /\ DOMAIN call_streams' = DOMAIN call_streams
      /\ retired_calls' = retired_calls
  BY DEF MarkAcked, CanAck
<1>1. Identity(m) = Identity(outbox[e])
  BY <1>0 DEF OrderData, SentAsAdmitted, AsAdmitted, RowsAsAdmitted
<1>2. \A d \in DOMAIN outbox' : Identity(outbox'[d]) = Identity(outbox[d])
  <2> SUFFICES ASSUME NEW d \in DOMAIN outbox' PROVE Identity(outbox'[d]) = Identity(outbox[d])
    OBVIOUS
  <2>1. d \in DOMAIN outbox /\ outbox[d] \in Row /\ outbox'[d] = Promoted(d, e, now)
    BY <1>0 DEF MarkAcked, OutboxInv, OutboxTypeOK
  <2> QED
    BY <2>1 DEF Promoted, Row, Identity
<1>3. \A c \in DOMAIN call_streams :
         /\ call_streams[c].next_seq \in Nat
         /\ call_streams[c].msg_key \in Key
         /\ call_streams'[c].msg_key = call_streams[c].msg_key
         /\ IF Ordered(e) /\ c = outbox[e].call_uuid
            THEN call_streams'[c].next_seq = call_streams[c].next_seq + 1
            ELSE call_streams'[c].next_seq = call_streams[c].next_seq
  <2> SUFFICES ASSUME NEW c \in DOMAIN call_streams
               PROVE  /\ call_streams[c].next_seq \in Nat
                      /\ call_streams[c].msg_key \in Key
                      /\ call_streams'[c].msg_key = call_streams[c].msg_key
                      /\ IF Ordered(e) /\ c = outbox[e].call_uuid
                         THEN call_streams'[c].next_seq = call_streams[c].next_seq + 1
                         ELSE call_streams'[c].next_seq = call_streams[c].next_seq
    OBVIOUS
  <2>1. call_streams[c] \in Stream
    BY DEF OutboxInv, OutboxTypeOK
  <2> QED
    BY <2>1, LimitAssumption DEF MarkAcked, Stream
<1>4. Ordered(e) => /\ outbox[e].call_uuid \in DOMAIN call_streams
                    /\ m.call_uuid = outbox[e].call_uuid
                    /\ m.call_seq = call_streams[outbox[e].call_uuid].next_seq
                    /\ m.msg_key = call_streams[outbox[e].call_uuid].msg_key
                    /\ admitted[e] = Identity(m)
  BY <1>0, <1>1 DEF Deliverable, Identity, OutboxInv, RowsWithinWindow, OrderData,
                    SentAsAdmitted, AsAdmitted
<1>5. Ordered(e) => Holds(PartitionOf[m.msg_key], m.call_uuid, m.call_seq)
  BY <1>4 DEF Logged, OrderData, LogPlaced, Holds, Ordered
<1>6. BrokerTyped' /\ SentAsAdmitted' /\ RecordsAsAdmitted' /\ WireReady' /\ LogPlaced'
      /\ FirstOccurrenceOrder' /\ AdmittedTyped'
  BY DEF OrderData, BrokerTyped, AdmittedTyped, SentAsAdmitted, AsAdmitted, RecordsAsAdmitted,
         WireReady, LogPlaced, FirstOccurrenceOrder, Holds
<1>7. RowsAsAdmitted'
  BY <1>0, <1>2 DEF OrderData, RowsAsAdmitted
<1> HIDE DEF e
<1>8. CursorPublished'
  <2> SUFFICES ASSUME NEW c \in DOMAIN call_streams,
                      NEW n \in 0 .. call_streams'[c].next_seq - 1
               PROVE  Holds(PartitionOf[call_streams[c].msg_key], c, n)
    BY <1>0, <1>3 DEF CursorPublished, Holds
  <2>1. CASE n \in 0 .. call_streams[c].next_seq - 1
    BY <2>1 DEF OrderData, CursorPublished
  <2>2. CASE Ordered(e) /\ c = outbox[e].call_uuid /\ n = call_streams[c].next_seq
    BY <1>4, <1>5, <2>2
  <2> QED
    BY <1>3, <2>1, <2>2
<1>9. AcceptedNeverLost'
  <2>1. \E p \in Partition : \E i \in DOMAIN log[p] : log[p][i].event_id = e
    BY DEF Logged, e
  <2> QED
    BY <1>0, <2>1 DEF OrderData, AcceptedNeverLost
<1>10. AdmittedAccounted'
  <2> SUFFICES ASSUME NEW d \in DOMAIN admitted, admitted[d].call_uuid # Ungrouped,
                      admitted[d].call_uuid \notin DOMAIN retired_calls
               PROVE  /\ admitted[d].call_uuid \in DOMAIN call_streams
                      /\ \/ d \in DOMAIN outbox'
                         \/ admitted[d].call_seq < call_streams'[admitted[d].call_uuid].next_seq
    BY <1>0 DEF AdmittedAccounted
  <2>1. /\ admitted[d].call_uuid \in DOMAIN call_streams
        /\ \/ d \in DOMAIN outbox
           \/ admitted[d].call_seq < call_streams[admitted[d].call_uuid].next_seq
    BY DEF OrderData, AdmittedAccounted
  <2>2. CASE d \in DOMAIN outbox /\ d # e
    BY <1>0, <2>1, <2>2
  <2>3. CASE d = e
    <3>0. admitted[e] = Identity(outbox[e])
      BY <1>0 DEF OrderData, RowsAsAdmitted
    <3>1. Ordered(e) /\ admitted[e] = Identity(outbox[e])
      BY <2>3, <3>0 DEF Ordered, Identity
    <3>2. /\ admitted[e].call_uuid = outbox[e].call_uuid
          /\ admitted[e].call_seq = call_streams[outbox[e].call_uuid].next_seq
      BY <1>4, <3>1 DEF Identity
    <3>3. call_streams'[outbox[e].call_uuid].next_seq
            = call_streams[outbox[e].call_uuid].next_seq + 1
      BY <1>3, <1>4, <3>1
    <3> QED
      BY <1>3, <1>4, <2>1, <2>3, <3>1, <3>2, <3>3
  <2>4. CASE admitted[d].call_seq < call_streams[admitted[d].call_uuid].next_seq
    <3>1. admitted[d].call_seq \in Int
      BY DEF OrderData, AdmittedTyped
    <3> QED
      BY <1>3, <2>1, <2>4, <3>1
  <2> QED
    BY <2>1, <2>2, <2>3, <2>4
<1> QED
  BY <1>6, <1>7, <1>8, <1>9, <1>10 DEF OrderData

-----------------------------------------------------------------------------
(* Every step of the pipeline is one of these *)

\* The topic side of a step that neither admits, produces nor appends.
TopicQuiet == /\ log' = log /\ wire' = wire /\ admitted' = admitted
              /\ outstanding' \subseteq outstanding

\* start and stop touch rows only to requeue them.
LEMMA LifecycleData == ASSUME OutboxInv, OrderData, Lifecycle PROVE OrderData'
<1>1. QuietStep
  <2>1. StartOpen => Open
    BY DEF StartOpen
  <2>2. StartRequeue => \E now \in Time : RequeueInFlight(now)
    BY DEF StartRequeue
  <2>3. StartAbort => Close
    BY DEF StartAbort
  <2>4. StartRun \/ StopBegin => UNCHANGED obvars
    BY DEF StartRun, StopBegin
  <2>5. StopJoin => Close \/ UNCHANGED obvars
    BY DEF StopJoin
  <2> QED
    BY <2>1, <2>2, <2>3, <2>4, <2>5 DEF Lifecycle, QuietStep
<1>2. TopicQuiet
  BY DEF Lifecycle, StartOpen, StartRequeue, StartAbort, StartRun, StopBegin, StopJoin,
         TopicQuiet, broker
<1> QED
  BY <1>1, <1>2, QuietData DEF TopicQuiet

\* The operator's tools acknowledge nothing.
LEMMA OperatorData == ASSUME OutboxInv, OrderData, Operator PROVE OrderData'
<1>1. QuietStep
  <2>1. OperatorOpen => Open
    BY DEF OperatorOpen
  <2>2. OperatorClose => Close
    BY DEF OperatorClose
  <2>3. ASSUME NEW e \in EventId, NEW now \in Time, OperatorRetryDead(e, now)
        PROVE  RetryDead(e, now)
    BY <2>3 DEF OperatorRetryDead
  <2>4. ASSUME NEW c \in Call, OperatorRetire(c) PROVE Retire(c)
    BY <2>4 DEF OperatorRetire
  <2> QED
    BY <2>1, <2>2, <2>3, <2>4 DEF Operator, QuietStep
<1>2. TopicQuiet
  BY DEF Operator, OperatorOpen, OperatorClose, OperatorRetryDead, OperatorRetire,
         TopicQuiet, broker
<1> QED
  BY <1>1, <1>2, QuietData DEF TopicQuiet

\* A failure or a crash drops reports; what is on the wire stays there.
LEMMA FailureData == ASSUME OutboxInv, OrderData, Failure PROVE OrderData'
<1>1. QuietStep
  <2>1. WorkerRebuildFails => UNCHANGED obvars \/ \E now \in Time : RequeueInFlight(now)
    BY DEF WorkerRebuildFails
  <2>2. WorkerStorageFails => UNCHANGED obvars
    BY DEF WorkerStorageFails
  <2>3. ASSUME NEW m \in outstanding, DeliveryStorageFails(m) PROVE UNCHANGED obvars
    BY <2>3 DEF DeliveryStorageFails, ReportRefused
  <2>4. Crash => Close
    BY DEF Crash
  <2> QED
    BY <2>1, <2>2, <2>3, <2>4 DEF Failure, QuietStep
<1>2. TopicQuiet
  BY DEF Failure, WorkerRebuildFails, WorkerStorageFails, DeliveryStorageFails, Crash,
         TopicQuiet, broker
<1> QED
  BY <1>1, <1>2, QuietData DEF TopicQuiet

\* A failed send makes the row dead or pending again.
LEMMA SettleQuiet ==
    ASSUME OutboxInv, NEW e, NEW err, e \in DOMAIN outbox, SettleSendFailure(e, err)
    PROVE  QuietStep
<1>1. e \in EventId
  BY DEF OutboxInv, OutboxTypeOK
<1>2. MarkDead(e) \/ \E next \in Time : MarkRetry(e, next)
  BY DEF SettleSendFailure
<1> QED
  BY <1>1, <1>2 DEF QuietStep

\* worker_loop sends in one step only.
LEMMA WorkerData == ASSUME OutboxInv, OrderData, ProducingInFlight, WorkerLoop PROVE OrderData'
<1>1. CASE WorkerProduce
  BY <1>1, ProduceData
<1>2. CASE ~WorkerProduce
  <2>1. TopicQuiet
    BY <1>2
    DEF WorkerLoop, WorkerTop, WorkerRebuild, WorkerCheck, WorkerExpire, WorkerFetch,
        WorkerBatchDone, WorkerMark, WorkerMarkRefused, WorkerProduceFails, WorkerPollDone,
        WorkerExit, TopicQuiet, broker
  <2>2. QuietStep
    <3>1. WorkerTop \/ WorkerCheck \/ WorkerFetch \/ WorkerBatchDone \/ WorkerMarkRefused
            \/ WorkerPollDone \/ WorkerExit => UNCHANGED obvars
      BY DEF WorkerTop, WorkerCheck, WorkerFetch, WorkerBatchDone, WorkerMarkRefused,
             WorkerPollDone, WorkerExit
    <3>2. WorkerRebuild => \E now \in Time : RequeueInFlight(now)
      BY DEF WorkerRebuild
    <3>3. WorkerExpire => \E now \in Time : ExpireTtl(now)
      BY DEF WorkerExpire
    <3>4. WorkerMark => MarkInFlight(Head(due)) /\ Head(due) \in EventId
      BY DEF WorkerMark, MarkInFlight, CanMarkInFlight, OutboxInv, OutboxTypeOK
    <3>5. ASSUME NEW err \in ErrorCode, WorkerProduceFails(err) PROVE QuietStep
      <4>1. CASE InFlight(Head(due))
        BY <3>5, <4>1, SettleQuiet DEF WorkerProduceFails, InFlight
      <4>2. CASE ~InFlight(Head(due))
        BY <3>5, <4>2 DEF WorkerProduceFails, QuietStep
      <4> QED
        BY <4>1, <4>2
    <3> QED
      BY <1>2, <3>1, <3>2, <3>3, <3>4, <3>5 DEF WorkerLoop, QuietStep
  <2> QED
    BY <2>1, <2>2, QuietData DEF TopicQuiet
<1> QED
  BY <1>1, <1>2

\* on_delivery acknowledges only what the topic holds.
LEMMA DeliveryData ==
    ASSUME OutboxInv, OrderData, NEW m \in outstanding, OnDelivery(m)
    PROVE  OrderData'
<1>1. TopicQuiet
  BY DEF OnDelivery, DeliveryOk, DeliveryError, TopicQuiet
<1>2. CASE DeliveryOk(m)
  <2>1. CASE CanAck(m.event_id)
    <3>1. PICK now \in Time : MarkAcked(m.event_id, now)
      BY <1>2, <2>1 DEF DeliveryOk
    <3>2. Logged(m)
      BY <1>2 DEF DeliveryOk
    <3> QED
      BY <1>1, <3>1, <3>2, AckData DEF TopicQuiet
  <2>2. CASE ~CanAck(m.event_id)
    <3>1. QuietStep
      BY <1>2, <2>2 DEF DeliveryOk, ReportRefused, QuietStep
    <3> QED
      BY <1>1, <3>1, QuietData DEF TopicQuiet
  <2> QED
    BY <2>1, <2>2
<1>3. CASE \E err \in ErrorCode : DeliveryError(m, err)
  <2>1. PICK err \in ErrorCode : DeliveryError(m, err)
    BY <1>3
  <2>2. QuietStep
    <3>1. CASE InFlight(m.event_id)
      BY <2>1, <3>1, SettleQuiet DEF DeliveryError, InFlight
    <3>2. CASE ~InFlight(m.event_id)
      BY <2>1, <3>2 DEF DeliveryError, ReportRefused, QuietStep
    <3> QED
      BY <3>1, <3>2
  <2> QED
    BY <1>1, <2>2, QuietData DEF TopicQuiet
<1> QED
  BY <1>2, <1>3 DEF OnDelivery

-----------------------------------------------------------------------------
(* The theorems *)

\* Nothing is admitted, sent or recorded at first.
LEMMA OrderInvInit == PipelineInit => OrderInv
<1> SUFFICES ASSUME PipelineInit PROVE OrderInv
  OBVIOUS
<1>1. DeliveryInv
  BY DeliveryInvInit
<1>2. /\ DOMAIN outbox = {} /\ DOMAIN call_streams = {} /\ DOMAIN admitted = {}
      /\ outstanding = {} /\ wire = {} /\ pc = "none"
      /\ log = [p \in Partition |-> <<>>]
  BY DEF PipelineInit, OutboxInit
<1>3. log \in [Partition -> Seq(Message)] /\ \A p \in Partition : DOMAIN log[p] = {}
  BY <1>2
<1>4. OrderData
  BY <1>2, <1>3
  DEF OrderData, BrokerTyped, AdmittedTyped, RowsAsAdmitted, SentAsAdmitted, RecordsAsAdmitted,
      CursorPublished, WireReady, LogPlaced, FirstOccurrenceOrder, AdmittedAccounted,
      AcceptedNeverLost
<1> QED
  BY <1>1, <1>4 DEF OrderInv

\* Every step of the pipeline keeps the invariant.
LEMMA OrderInvStep == OrderInv /\ [PipelineNext]_pvars => OrderInv'
<1> SUFFICES ASSUME OrderInv, [PipelineNext]_pvars PROVE OrderInv'
  OBVIOUS
<1> USE DEF OrderInv
<1>0. DeliveryInv' /\ OutboxInv /\ ProducingInFlight /\ OrderData
  BY DeliveryInvStep DEF DeliveryInv
<1>1. CASE Lifecycle \/ Operator \/ Failure
  BY <1>0, <1>1, LifecycleData, OperatorData, FailureData
<1>2. CASE WorkerLoop \/ \E m \in outstanding : OnDelivery(m)
  BY <1>0, <1>2, WorkerData, DeliveryData
<1>3. CASE Enqueue
  <2>1. CASE EnqueueBegin \/ EnqueueRefused
    <3>1. QuietStep /\ TopicQuiet
      BY <2>1 DEF EnqueueBegin, EnqueueRefused, QuietStep, TopicQuiet, broker
    <3> QED
      BY <1>0, <3>1, QuietData DEF TopicQuiet
  <2>2. CASE \E e \in EventId, rec \in Request, now \in Time : EnqueueCommit(e, rec, now)
    BY <1>0, <2>2, EnqueueData
  <2> QED
    BY <1>3, <2>1, <2>2 DEF Enqueue
<1>4. CASE RequestRebuild \/ UNCHANGED pvars
  <2>1. QuietStep /\ TopicQuiet
    BY <1>4 DEF RequestRebuild, pvars, QuietStep, TopicQuiet, broker
  <2> QED
    BY <1>0, <2>1, QuietData DEF TopicQuiet
<1>5. CASE \E m \in wire, p \in Partition : BrokerAppend(m, p)
  BY <1>0, <1>5, AppendData
<1> QED
  BY <1>1, <1>2, <1>3, <1>4, <1>5 DEF PipelineNext

\* The relation between database, messages and topic holds in every run.
THEOREM OrderInvariant == PipelineSpec => []OrderInv
BY OrderInvInit, OrderInvStep, PTL DEF PipelineSpec

\* A call's events reach the topic in the order of their ordinals, under every
\* interleaving of callers, worker, reports, broker retries, crashes and tools.
THEOREM StrictOrder == PipelineSpec => []FirstOccurrenceOrder
<1>1. OrderInv => FirstOccurrenceOrder
  BY DEF OrderInv, OrderData
<1> QED
  BY <1>1, OrderInvariant, PTL

\* An accepted event of a call is in the database or in the topic.
THEOREM NothingAcceptedIsLost == PipelineSpec => []AcceptedNeverLost
<1>1. OrderInv => AcceptedNeverLost
  BY DEF OrderInv, OrderData
<1> QED
  BY <1>1, OrderInvariant, PTL

\* A record says of its event what was accepted.
THEOREM RecordsAreFaithful == PipelineSpec => []RecordsAsAdmitted
<1>1. OrderInv => RecordsAsAdmitted
  BY DEF OrderInv, OrderData
<1> QED
  BY <1>1, OrderInvariant, PTL

=============================================================================
