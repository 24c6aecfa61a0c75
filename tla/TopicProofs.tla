----------------------------- MODULE TopicProofs -----------------------------
(***************************************************************************)
(* The pipeline implements OrderedTopic.  An enqueue that commits is       *)
(* Accept, the first record of an event is Publish, and every other step   *)
(* (sends, reports, rebuilds, duplicates, crashes, restarts, tools) leaves *)
(* both sides of the abstract topic as they are.                           *)
(***************************************************************************)
EXTENDS OrderProofs

\* Membership in the two sides of the refinement mapping.
LEMMA AcceptedMember ==
    ASSUME NEW c \in Call, NEW x
    PROVE  x \in AcceptedEvents[c] <=>
             \E d \in DOMAIN admitted : /\ admitted[d].call_uuid = c
                                        /\ x = <<d, admitted[d].call_seq>>
BY DEF AcceptedEvents

\* What is not admitted or recorded anew changes neither side.
LEMMA TopicStutter ==
    ASSUME log' = log, admitted' = admitted
    PROVE  UNCHANGED <<AcceptedEvents, PublishedEvents>>
BY DEF AcceptedEvents, PublishedEvents

\* The ordinal an enqueue commits under is new to its call: stored ones are
\* excluded by the unique index, acknowledged ones by the cursor, and all of a
\* retired call by its fence.
LEMMA OrdinalIsFresh ==
    ASSUME OutboxInv, OrderData,
           NEW e \in EventId, NEW rec \in Request, rec.call_uuid # Ungrouped, OrderAdmits(e, rec),
           NEW d \in DOMAIN admitted, admitted[d].call_uuid = rec.call_uuid
    PROVE  admitted[d].call_seq # SeqFor(rec)
<1> DEFINE c == rec.call_uuid
<1>1. /\ c \notin DOMAIN retired_calls
      /\ SeqFor(rec) \in StreamFor(rec).next_seq .. MaxInt64 - 1
      /\ StreamFor(rec) \in Stream
  BY InvHasCore, StreamForType
<1>2. /\ c \in DOMAIN call_streams
      /\ d \in DOMAIN outbox \/ admitted[d].call_seq < call_streams[c].next_seq
  BY <1>1 DEF OrderData, AdmittedAccounted
<1>3. CASE d \in DOMAIN outbox
  <2>1. admitted[d] = Identity(outbox[d])
    BY <1>3 DEF OrderData, RowsAsAdmitted
  <2>2. outbox[d].call_uuid = c /\ outbox[d].call_seq = admitted[d].call_seq
    BY <2>1 DEF Identity
  <2>3. d \in Retained(e)
    BY <1>3, <2>2, RetainedOrdered DEF Ordered
  <2> QED
    BY <2>2, <2>3 DEF OrderAdmits, SeqFree
<1>4. CASE admitted[d].call_seq < call_streams[c].next_seq
  <2>1. admitted[d].call_seq \in Int
    BY DEF OrderData, AdmittedTyped
  <2>2. StreamFor(rec) = call_streams[c]
    BY <1>2 DEF StreamFor
  <2>3. call_streams[c].next_seq \in Int /\ SeqFor(rec) >= call_streams[c].next_seq
    BY <1>1, <2>2, LimitAssumption DEF Stream
  <2> QED
    BY <1>4, <2>1, <2>3
<1> QED
  BY <1>2, <1>3, <1>4

\* A committed enqueue accepts one event, or an event outside every call.
LEMMA EnqueueAccepts ==
    ASSUME OutboxInv, OrderData,
           NEW e \in EventId, NEW rec \in Request, NEW now \in Time, EnqueueCommit(e, rec, now)
    PROVE  [Topic!TopicNext]_<<AcceptedEvents, PublishedEvents>>
<1> DEFINE c == rec.call_uuid
           n == NewRow(rec, now).call_seq
<1>0. /\ InsertPending(e, rec, now)
      /\ e \notin DOMAIN admitted
      /\ DOMAIN admitted' = DOMAIN admitted \cup {e}
      /\ \A d \in DOMAIN admitted : admitted'[d] = admitted[d]
      /\ admitted'[e].call_uuid = c /\ admitted'[e].call_seq = n
      /\ log' = log
  BY DEF EnqueueCommit, broker
<1>1. PublishedEvents' = PublishedEvents
  BY <1>0 DEF PublishedEvents
<1>2. CASE c = Ungrouped
  <2>1. \A b \in Call : {d \in DOMAIN admitted' : admitted'[d].call_uuid = b}
                          = {d \in DOMAIN admitted : admitted[d].call_uuid = b}
    BY <1>0, <1>2, CallAssumption
  <2>2. ASSUME NEW b \in Call
        PROVE  {<<d, admitted'[d].call_seq>> :
                   d \in {a \in DOMAIN admitted' : admitted'[a].call_uuid = b}}
                 = {<<d, admitted[d].call_seq>> :
                       d \in {a \in DOMAIN admitted : admitted[a].call_uuid = b}}
    BY <1>0, <2>1
  <2>3. AcceptedEvents' = AcceptedEvents
    BY <2>2 DEF AcceptedEvents
  <2> QED
    BY <1>1, <2>3
<1>3. CASE c # Ungrouped
  <2>1. OrderAdmits(e, rec) /\ n = SeqFor(rec)
    BY <1>0, <1>3 DEF InsertPending, CanInsert, NewRow
  <2>2. c \in Call /\ n \in 0 .. MaxInt64 - 1
    BY <1>3, <2>1, InvHasCore, StreamForType
  <2> HIDE DEF n
  <2>3. \A x \in AcceptedEvents[c] : x[1] # e /\ x[2] # n
    <3> SUFFICES ASSUME NEW x \in AcceptedEvents[c] PROVE x[1] # e /\ x[2] # n
      OBVIOUS
    <3>1. PICK d \in DOMAIN admitted : /\ admitted[d].call_uuid = c
                                       /\ x = <<d, admitted[d].call_seq>>
      BY <2>2, AcceptedMember
    <3>2. admitted[d].call_seq # n
      BY <1>3, <2>1, <3>1, OrdinalIsFresh
    <3> QED
      BY <1>0, <3>1, <3>2
  <2>4. AcceptedEvents' = [AcceptedEvents EXCEPT ![c] = @ \cup {<<e, n>>}]
    <3>1. ASSUME NEW b \in Call, b # c PROVE AcceptedEvents'[b] = AcceptedEvents[b]
      <4>1. {a \in DOMAIN admitted' : admitted'[a].call_uuid = b}
              = {a \in DOMAIN admitted : admitted[a].call_uuid = b}
        BY <1>0, <3>1
      <4>2. {<<d, admitted'[d].call_seq>> :
                d \in {a \in DOMAIN admitted' : admitted'[a].call_uuid = b}}
              = {<<d, admitted[d].call_seq>> :
                    d \in {a \in DOMAIN admitted : admitted[a].call_uuid = b}}
        BY <1>0, <4>1
      <4> QED
        BY <4>2 DEF AcceptedEvents
    <3>2. AcceptedEvents'[c] = AcceptedEvents[c] \cup {<<e, n>>}
      <4>1. {a \in DOMAIN admitted' : admitted'[a].call_uuid = c}
              = {a \in DOMAIN admitted : admitted[a].call_uuid = c} \cup {e}
        BY <1>0
      <4>2. {<<d, admitted'[d].call_seq>> :
                d \in {a \in DOMAIN admitted' : admitted'[a].call_uuid = c}}
              = {<<d, admitted[d].call_seq>> :
                    d \in {a \in DOMAIN admitted : admitted[a].call_uuid = c}}
                \cup {<<e, n>>}
        BY <1>0, <4>1
      <4> QED
        BY <2>2, <4>2 DEF AcceptedEvents
    <3>3. /\ AcceptedEvents = [b \in Call |-> AcceptedEvents[b]]
          /\ AcceptedEvents' = [b \in Call |-> AcceptedEvents'[b]]
      BY DEF AcceptedEvents
    <3> HIDE DEF c
    <3> QED
      BY <2>2, <3>1, <3>2, <3>3
  <2>5. Topic!Accept(c, e, n)
    BY <1>1, <2>3, <2>4 DEF Topic!Accept
  <2> QED
    BY <2>2, <2>5 DEF Topic!TopicNext
<1> QED
  BY <1>2, <1>3

\* An appended record publishes the next ordinal of its call, or repeats one.
LEMMA AppendPublishes ==
    ASSUME OutboxInv, OrderData, NEW m \in wire, NEW p \in Partition, BrokerAppend(m, p)
    PROVE  [Topic!TopicNext]_<<AcceptedEvents, PublishedEvents>>
<1> DEFINE c == m.call_uuid
           y == <<m.event_id, m.call_seq>>
           Pairs == EventId \X (0 .. MaxInt64 - 1)
<1>0. /\ m \in Message
      /\ log' = [log EXCEPT ![p] = Append(@, m)]
      /\ admitted' = admitted
      /\ BrokerTyped
  BY DEF BrokerAppend, OrderData, BrokerTyped
<1>1. /\ \A q \in Partition : \A i \in DOMAIN log[q] :
            i \in DOMAIN log'[q] /\ log'[q][i] = log[q][i]
      /\ \A q \in Partition : \A i \in DOMAIN log'[q] :
            i \in DOMAIN log[q] \/ (q = p /\ i = Len(log[p]) + 1 /\ log'[q][i] = m)
      /\ DOMAIN log[p] = 1 .. Len(log[p]) /\ Len(log[p]) \in Nat
      /\ Len(log[p]) + 1 \in DOMAIN log'[p] /\ log'[p][Len(log[p]) + 1] = m
      /\ log' \in [Partition -> Seq(Message)]
  BY <1>0, AppendKeeps, Zenon
<1>2. AcceptedEvents' = AcceptedEvents
  BY <1>0 DEF AcceptedEvents
<1>3. \A b \in Call : PublishedEvents'[b] =
         IF b = c /\ y \in Pairs THEN PublishedEvents[b] \cup {y} ELSE PublishedEvents[b]
  <2> SUFFICES ASSUME NEW b \in Call
               PROVE  PublishedEvents'[b] = IF b = c /\ y \in Pairs
                                            THEN PublishedEvents[b] \cup {y}
                                            ELSE PublishedEvents[b]
    OBVIOUS
  <2>1. ASSUME NEW x \in Pairs
        PROVE  x \in PublishedEvents'[b] <=> x \in PublishedEvents[b] \/ (b = c /\ x = y)
    <3>1. x \in PublishedEvents[b] <=>
            \E q \in Partition : \E i \in DOMAIN log[q] :
                /\ log[q][i].event_id = x[1]
                /\ log[q][i].call_uuid = b
                /\ log[q][i].call_seq = x[2]
      BY DEF PublishedEvents
    <3>2. x \in PublishedEvents'[b] <=>
            \E q \in Partition : \E i \in DOMAIN log'[q] :
                /\ log'[q][i].event_id = x[1]
                /\ log'[q][i].call_uuid = b
                /\ log'[q][i].call_seq = x[2]
      BY DEF PublishedEvents
    <3>3. x = <<x[1], x[2]>>
      OBVIOUS
    <3>4. x = y <=> m.event_id = x[1] /\ m.call_seq = x[2]
      BY <3>3
    <3> HIDE DEF y, Pairs
    <3>5. CASE x \in PublishedEvents[b]
      <4>1. PICK q \in Partition : \E i \in DOMAIN log[q] :
                   /\ log[q][i].event_id = x[1]
                   /\ log[q][i].call_uuid = b
                   /\ log[q][i].call_seq = x[2]
        BY <3>1, <3>5
      <4>2. PICK i \in DOMAIN log[q] :
                   /\ log[q][i].event_id = x[1]
                   /\ log[q][i].call_uuid = b
                   /\ log[q][i].call_seq = x[2]
        BY <4>1
      <4>3. i \in DOMAIN log'[q] /\ log'[q][i] = log[q][i]
        BY <1>1
      <4>4. x \in PublishedEvents'[b]
        BY <3>2, <4>2, <4>3
      <4> QED
        BY <3>5, <4>4
    <3>6. CASE b = c /\ x = y
      <4>1. m.event_id = x[1] /\ m.call_uuid = b /\ m.call_seq = x[2]
        BY <3>4, <3>6
      <4>2. PICK i \in DOMAIN log'[p] : log'[p][i] = m
        BY <1>1
      <4> QED
        BY <3>2, <3>6, <4>1, <4>2
    <3>7. CASE x \in PublishedEvents'[b]
      <4>0. PICK q \in Partition : \E i \in DOMAIN log'[q] :
                   /\ log'[q][i].event_id = x[1]
                   /\ log'[q][i].call_uuid = b
                   /\ log'[q][i].call_seq = x[2]
        BY <3>2, <3>7
      <4>1. PICK i \in DOMAIN log'[q] :
                   /\ log'[q][i].event_id = x[1]
                   /\ log'[q][i].call_uuid = b
                   /\ log'[q][i].call_seq = x[2]
        BY <4>0
      <4>2. CASE i \in DOMAIN log[q]
        <5>1. log'[q][i] = log[q][i]
          BY <1>1, <4>2
        <5> QED
          BY <3>1, <3>7, <4>1, <4>2, <5>1
      <4>3. CASE log'[q][i] = m
        BY <3>4, <3>7, <4>1, <4>3
      <4> QED
        BY <1>1, <4>2, <4>3
    <3> QED
      BY <3>5, <3>6, <3>7
  <2>2. PublishedEvents[b] \subseteq Pairs /\ PublishedEvents'[b] \subseteq Pairs
    BY DEF PublishedEvents
  <2> HIDE DEF y, Pairs, c
  <2> QED
    BY <2>1, <2>2
<1>4. /\ PublishedEvents = [b \in Call |-> PublishedEvents[b]]
      /\ PublishedEvents' = [b \in Call |-> PublishedEvents'[b]]
  BY DEF PublishedEvents
<1>5. CASE c \notin Call \/ y \notin Pairs \/ y \in PublishedEvents[c]
  <2> HIDE DEF y, Pairs, c
  <2>1. \A b \in Call : PublishedEvents'[b] = PublishedEvents[b]
    BY <1>3, <1>5
  <2> QED
    BY <1>2, <1>4, <2>1
<1>6. CASE c \in Call /\ y \in Pairs /\ y \notin PublishedEvents[c]
  <2>1. y \in AcceptedEvents[c]
    <3>1. m.event_id \in DOMAIN admitted /\ admitted[m.event_id] = Identity(m)
      BY DEF OrderData, SentAsAdmitted, AsAdmitted
    <3> QED
      BY <1>6, <3>1, AcceptedMember DEF Identity
  <2>2. ASSUME NEW k \in 0 .. m.call_seq - 1 PROVE \E x \in PublishedEvents[c] : x[2] = k
    <3>1. m.msg_key \in Key /\ Holds(PartitionOf[m.msg_key], c, k)
      BY <1>6, CallAssumption DEF OrderData, WireReady
    <3>2. PartitionOf[m.msg_key] \in Partition
      BY <3>1, PartitionAssumption
    <3>3. PICK j \in DOMAIN log[PartitionOf[m.msg_key]] :
                 /\ log[PartitionOf[m.msg_key]][j].call_uuid = c
                 /\ log[PartitionOf[m.msg_key]][j].call_seq = k
      BY <3>1 DEF Holds
    <3> DEFINE l == log[PartitionOf[m.msg_key]][j]
    <3>4. l \in Message
      BY <1>0, <3>2, <3>3 DEF BrokerTyped
    <3>5. <<l.event_id, k>> \in Pairs
      BY <1>0, <1>6, <3>4, LimitAssumption DEF Message
    <3>6. <<l.event_id, k>> \in PublishedEvents[c]
      BY <1>6, <3>2, <3>3, <3>5 DEF PublishedEvents
    <3> QED
      BY <3>6
  <2>3. PublishedEvents' = [PublishedEvents EXCEPT ![c] = @ \cup {y}]
    <3> HIDE DEF y, Pairs, c
    <3> QED
      BY <1>3, <1>4, <1>6
  <2>4. m.event_id \in EventId /\ m.call_seq \in 0 .. MaxInt64 - 1
    BY <1>6
  <2>5. Topic!Publish(c, m.event_id, m.call_seq)
    BY <1>2, <1>6, <2>1, <2>2, <2>3 DEF Topic!Publish
  <2> QED
    BY <1>6, <2>4, <2>5 DEF Topic!TopicNext
<1> QED
  BY <1>5, <1>6

\* Only enqueue extends the history, and only the broker the topic.
LEMMA TopicStep ==
    OrderInv /\ [PipelineNext]_pvars => [Topic!TopicNext]_<<AcceptedEvents, PublishedEvents>>
<1> SUFFICES ASSUME OrderInv, [PipelineNext]_pvars
             PROVE  [Topic!TopicNext]_<<AcceptedEvents, PublishedEvents>>
  OBVIOUS
<1>1. CASE \E e \in EventId, rec \in Request, now \in Time : EnqueueCommit(e, rec, now)
  BY <1>1, EnqueueAccepts DEF OrderInv, DeliveryInv
<1>2. CASE \E m \in wire, p \in Partition : BrokerAppend(m, p)
  BY <1>2, AppendPublishes DEF OrderInv, DeliveryInv
<1>3. CASE log' = log /\ admitted' = admitted
  BY <1>3, TopicStutter
<1>4. ASSUME Lifecycle \/ Operator \/ Failure \/ RequestRebuild \/ UNCHANGED pvars
      PROVE  log' = log /\ admitted' = admitted
  BY <1>4
  DEF Lifecycle, StartOpen, StartRequeue, StartAbort, StartRun, StopBegin, StopJoin,
      Operator, OperatorOpen, OperatorClose, OperatorRetryDead, OperatorRetire,
      Failure, WorkerRebuildFails, WorkerStorageFails, DeliveryStorageFails, Crash,
      RequestRebuild, pvars, broker
<1>5. ASSUME WorkerLoop PROVE log' = log /\ admitted' = admitted
  BY <1>5
  DEF WorkerLoop, WorkerTop, WorkerRebuild, WorkerCheck, WorkerExpire, WorkerFetch,
      WorkerBatchDone, WorkerMark, WorkerMarkRefused, WorkerProduce, WorkerProduceFails,
      WorkerPollDone, WorkerExit, broker
<1>6. ASSUME NEW m \in outstanding, OnDelivery(m) PROVE log' = log /\ admitted' = admitted
  BY <1>6 DEF OnDelivery, DeliveryOk, DeliveryError
<1>7. ASSUME EnqueueBegin \/ EnqueueRefused PROVE log' = log /\ admitted' = admitted
  BY <1>7 DEF EnqueueBegin, EnqueueRefused, broker
<1> QED
  BY <1>1, <1>2, <1>3, <1>4, <1>5, <1>6, <1>7 DEF PipelineNext, Enqueue

\* The pipeline is an ordered topic: what its callers are promised holds
\* whatever is retried, duplicated, purged, killed, restarted or retired.
THEOREM PipelineImplementsTopic == PipelineSpec => ImplementsOrderedTopic
<1>1. PipelineInit => Topic!TopicInit
  <2> SUFFICES ASSUME PipelineInit PROVE Topic!TopicInit
    OBVIOUS
  <2>1. DOMAIN admitted = {} /\ \A p \in Partition : DOMAIN log[p] = {}
    <3>1. DOMAIN admitted = {} /\ log = [p \in Partition |-> <<>>]
      BY DEF PipelineInit
    <3> QED
      BY <3>1
  <2>2. AcceptedEvents = [c \in Call |-> {}]
    BY <2>1 DEF AcceptedEvents
  <2>3. PublishedEvents = [c \in Call |-> {}]
    BY <2>1 DEF PublishedEvents
  <2> QED
    BY <2>2, <2>3 DEF Topic!TopicInit
<1> QED
  BY <1>1, TopicStep, OrderInvariant, PTL DEF PipelineSpec, ImplementsOrderedTopic, Topic!TopicSpec
=============================================================================
