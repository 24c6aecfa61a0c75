--------------------------- MODULE PipelineProofs ---------------------------
(***************************************************************************)
(* The pipeline drives the outbox only through its interface: every step   *)
(* of KafkaPipeline is one transaction of Outbox or leaves the database    *)
(* alone.  What OutboxProofs shows of the database therefore holds under   *)
(* the worker, its callbacks, crashes and the operator's tools.            *)
(***************************************************************************)
EXTENDS KafkaPipeline, OutboxProofs

\* start, stop: open, requeue_in_flight, close.
LEMMA LifecycleStep == Lifecycle => [OutboxNext]_obvars
<1>1. StartOpen => Open
  BY DEF StartOpen
<1>2. StartRequeue => \E now \in Time : RequeueInFlight(now)
  BY DEF StartRequeue
<1>3. StartAbort => Close
  BY DEF StartAbort
<1>4. StartRun \/ StopBegin => UNCHANGED obvars
  BY DEF StartRun, StopBegin
<1>5. StopJoin => Close \/ UNCHANGED obvars
  BY DEF StopJoin
<1> QED
  BY <1>1, <1>2, <1>3, <1>4, <1>5 DEF Lifecycle, OutboxNext

\* enqueue: at most one insert_pending.
LEMMA EnqueueStep == Enqueue => [OutboxNext]_obvars
<1>1. EnqueueBegin \/ EnqueueRefused => UNCHANGED obvars
  BY DEF EnqueueBegin, EnqueueRefused
<1>2. ASSUME NEW e \in EventId, NEW rec \in Request, NEW now \in Time,
             EnqueueCommit(e, rec, now)
      PROVE  InsertPending(e, rec, now)
  BY <1>2 DEF EnqueueCommit
<1> QED
  BY <1>1, <1>2 DEF Enqueue, OutboxNext

\* The row a failed send leaves behind is dead or pending again.
LEMMA SettleStep ==
    ASSUME NEW e, NEW err, SettleSendFailure(e, err), e \in DOMAIN outbox,
           OutboxTypeOK
    PROVE  OutboxNext
<1>1. e \in EventId
  BY DEF OutboxTypeOK
<1>2. MarkDead(e) \/ \E next \in Time : MarkRetry(e, next)
  BY DEF SettleSendFailure
<1> QED
  BY <1>1, <1>2 DEF OutboxNext

\* worker_loop: one transaction per step.
LEMMA WorkerStep == OutboxTypeOK /\ WorkerLoop => [OutboxNext]_obvars
<1> SUFFICES ASSUME OutboxTypeOK, WorkerLoop PROVE [OutboxNext]_obvars
  OBVIOUS
<1>1. CASE \/ WorkerTop \/ WorkerCheck \/ WorkerFetch \/ WorkerBatchDone \/ WorkerMarkRefused
           \/ WorkerProduce \/ WorkerPollDone \/ WorkerExit
  BY <1>1
  DEF WorkerTop, WorkerCheck, WorkerFetch, WorkerBatchDone, WorkerMarkRefused,
      WorkerProduce, WorkerPollDone, WorkerExit
<1>2. CASE WorkerRebuild
  BY <1>2 DEF WorkerRebuild, OutboxNext
<1>3. CASE WorkerExpire
  <2>1. \E now \in Time : ExpireTtl(now)
    BY <1>3 DEF WorkerExpire
  <2> QED
    BY <2>1 DEF OutboxNext
<1>4. CASE WorkerMark
  <2>1. MarkInFlight(Head(due)) /\ Head(due) \in EventId
    BY <1>4 DEF WorkerMark, MarkInFlight, CanMarkInFlight, OutboxTypeOK
  <2> QED
    BY <2>1 DEF OutboxNext
<1>5. CASE \E err \in ErrorCode : WorkerProduceFails(err)
  <2>1. PICK err \in ErrorCode : WorkerProduceFails(err)
    BY <1>5
  <2>2. CASE InFlight(Head(due))
    BY <2>1, <2>2, SettleStep DEF WorkerProduceFails, InFlight
  <2>3. CASE ~InFlight(Head(due))
    BY <2>1, <2>3 DEF WorkerProduceFails
  <2> QED
    BY <2>2, <2>3
<1> QED
  BY <1>1, <1>2, <1>3, <1>4, <1>5 DEF WorkerLoop

\* on_delivery: mark_acked, mark_retry or mark_dead, or nothing.
LEMMA DeliveryStep ==
    ASSUME OutboxTypeOK, NEW m, OnDelivery(m)
    PROVE  [OutboxNext]_obvars
<1>1. CASE DeliveryOk(m)
  <2>1. CASE CanAck(m.event_id)
    <3>1. m.event_id \in EventId
      BY <2>1 DEF CanAck, OutboxTypeOK
    <3>2. \E now \in Time : MarkAcked(m.event_id, now)
      BY <1>1, <2>1 DEF DeliveryOk
    <3> QED
      BY <3>1, <3>2 DEF OutboxNext
  <2>2. CASE ~CanAck(m.event_id)
    BY <1>1, <2>2 DEF DeliveryOk, ReportRefused
  <2> QED
    BY <2>1, <2>2
<1>2. CASE \E err \in ErrorCode : DeliveryError(m, err)
  <2>1. PICK err \in ErrorCode : DeliveryError(m, err)
    BY <1>2
  <2>2. CASE InFlight(m.event_id)
    BY <2>1, <2>2, SettleStep DEF DeliveryError, InFlight
  <2>3. CASE ~InFlight(m.event_id)
    BY <2>1, <2>3 DEF DeliveryError, ReportRefused
  <2> QED
    BY <2>2, <2>3
<1> QED
  BY <1>1, <1>2 DEF OnDelivery

\* Failures roll back or requeue; a crash only drops lock and connection.
LEMMA FailureStep == Failure => [OutboxNext]_obvars
<1>1. WorkerRebuildFails => UNCHANGED obvars \/ \E now \in Time : RequeueInFlight(now)
  BY DEF WorkerRebuildFails
<1>2. WorkerStorageFails => UNCHANGED obvars
  BY DEF WorkerStorageFails
<1>3. ASSUME NEW m \in outstanding, DeliveryStorageFails(m) PROVE UNCHANGED obvars
  BY <1>3 DEF DeliveryStorageFails, ReportRefused
<1>4. Crash => Close
  BY DEF Crash
<1> QED
  BY <1>1, <1>2, <1>3, <1>4 DEF Failure, OutboxNext

\* The operator's tools: open, retry_dead, close, retire.
LEMMA OperatorStep == Operator => [OutboxNext]_obvars
<1>1. OperatorOpen => Open
  BY DEF OperatorOpen
<1>2. OperatorClose => Close
  BY DEF OperatorClose
<1>3. ASSUME NEW e \in EventId, NEW now \in Time, OperatorRetryDead(e, now)
      PROVE  RetryDead(e, now)
  BY <1>3 DEF OperatorRetryDead
<1>4. ASSUME NEW c \in Call, OperatorRetire(c) PROVE Retire(c)
  BY <1>4 DEF OperatorRetire
<1> QED
  BY <1>1, <1>2, <1>3, <1>4 DEF Operator, OutboxNext

\* Every step of the pipeline is a step of the outbox or leaves it unchanged.
LEMMA PipelineStep == OutboxTypeOK /\ [PipelineNext]_pvars => [OutboxNext]_obvars
<1> SUFFICES ASSUME OutboxTypeOK, [PipelineNext]_pvars PROVE [OutboxNext]_obvars
  OBVIOUS
<1>1. CASE Lifecycle \/ Enqueue \/ Failure \/ Operator
  BY <1>1, LifecycleStep, EnqueueStep, FailureStep, OperatorStep
<1>2. CASE WorkerLoop
  BY <1>2, WorkerStep
<1>3. CASE \E m \in outstanding : OnDelivery(m)
  BY <1>3, DeliveryStep
<1>4. CASE RequestRebuild \/ \E m \in wire, p \in Partition : BrokerAppend(m, p)
  BY <1>4 DEF RequestRebuild, BrokerAppend
<1>5. CASE UNCHANGED pvars
  BY <1>5 DEF pvars
<1> QED
  BY <1>1, <1>2, <1>3, <1>4, <1>5 DEF PipelineNext

\* The invariants of the outbox are invariants of the pipeline.
THEOREM PipelineOutboxInvariant == PipelineSpec => []OutboxInv
<1>1. PipelineInit => OutboxInv
  BY OutboxInvInit DEF PipelineInit
<1>2. OutboxInv /\ [PipelineNext]_pvars => OutboxInv'
  <2>1. OutboxInv => OutboxTypeOK
    BY DEF OutboxInv
  <2> QED
    BY <2>1, PipelineStep, OutboxInvStep
<1> QED
  BY <1>1, <1>2, PTL DEF PipelineSpec

\* The detailed pipeline implements the outbox on its own: no interleaving of
\* worker, callers, reports, faults and operator touches the database otherwise.
THEOREM PipelineImplementsOutbox == PipelineSpec => OutboxSpec
<1>1. PipelineInit => OutboxInit
  BY DEF PipelineInit
<1>2. OutboxInv /\ [PipelineNext]_pvars => [OutboxNext]_obvars
  BY PipelineStep DEF OutboxInv
<1> QED
  BY <1>1, <1>2, PipelineOutboxInvariant, PTL DEF PipelineSpec, OutboxSpec

\* With any number of callers, faults and rebuilds, admission keeps the database
\* within its limits on rows, bytes and cursors.
THEOREM PipelineStaysWithinLimits == PipelineSpec => []WithinCapacity
BY PipelineImplementsOutbox, LimitsHold, PTL

-----------------------------------------------------------------------------
(***************************************************************************)
(* Who owns a row in flight.  None of ReportsMatchRows, InFlightIsOwned    *)
(* and FailsOnlyForCause is inductive by itself: each rests on the batch   *)
(* being still sendable, on one report per row, and on nobody but the      *)
(* worker handling rows while there is a worker.                           *)
(***************************************************************************)
WorkerState == {"none", "top", "rebuild", "check", "expire", "fetch", "send", "produce",
                "poll", "exit", "done"}

\* start, stop and the tools work on rows only while there is no worker.
WorkerExcluded == lifecycle \in {"opened", "requeued", "operator"} => pc = "none"

DatabaseHeld ==
    pc # "none" \/ lifecycle \in {"opened", "requeued", "operator"} => opened

IdleIsQuiet == /\ pc = "none" => ~running /\ outstanding = {}
               /\ lifecycle = "stop" => ~running

\* The worker begins with no row in flight.
StartsClean ==
    lifecycle = "requeued" => \A e \in DOMAIN outbox : outbox[e].state # "in_flight"

\* After a state error no enqueue is let in, and the worker only polls, rebuilds
\* and leaves.
StopsSending ==
    failed => ~accept /\ ~running /\ pc \notin {"expire", "fetch", "send", "produce"}

Sendable(e) == /\ e \in DOMAIN outbox
               /\ outbox[e].state = "pending"
               /\ Deliverable(e)

\* What is left of the batch can be sent, except for the row being sent.
BatchSendable ==
    /\ due \in Seq(EventId)
    /\ pc \in {"send", "produce"} =>
         /\ \A i \in 1 .. Len(due) : pc = "send" \/ i # 1 => Sendable(due[i])
         /\ \A i, j \in 1 .. Len(due) : i # j => due[i] # due[j]

\* The row about to be produced is in flight, and no report on it is owed yet.
ProducingInFlight ==
    pc = "produce" => /\ due # <<>>
                      /\ Head(due) \in DOMAIN outbox
                      /\ outbox[Head(due)].state = "in_flight"
                      /\ outbox[Head(due)].attempts >= 1
                      /\ \A m \in outstanding : m.event_id # Head(due)

OneReportEach == \A m, n \in outstanding : m.event_id = n.event_id => m = n

ControlInv ==
    /\ pc \in WorkerState /\ faults \in Nat
    /\ WorkerExcluded /\ DatabaseHeld /\ IdleIsQuiet /\ StopsSending

DeliveryInv ==
    /\ OutboxInv /\ IsFiniteSet(DOMAIN outbox)
    /\ loop_now \in Time
    /\ ControlInv
    /\ StartsClean
    /\ BatchSendable /\ ProducingInFlight
    /\ ReportsMatchRows /\ OneReportEach
    /\ InFlightIsOwned
    /\ FailsOnlyForCause

-----------------------------------------------------------------------------
(* What the transactions do to rows in flight *)

\* The rows in flight stay so, in the same attempt, except perhaps x.
OthersStayInFlight(x) ==
    \A d \in DOMAIN outbox :
        d # x /\ outbox[d].state = "in_flight" =>
            /\ d \in DOMAIN outbox'
            /\ outbox'[d].state = "in_flight"
            /\ outbox'[d].attempts = outbox[d].attempts

NoneElseInFlight(x) ==
    \A d \in DOMAIN outbox' :
        d # x /\ outbox'[d].state = "in_flight" =>
            d \in DOMAIN outbox /\ outbox[d].state = "in_flight"

InFlightKept ==
    /\ \A d \in DOMAIN outbox :
         outbox[d].state = "in_flight" => d \in DOMAIN outbox' /\ outbox'[d] = outbox[d]
    /\ \A d \in DOMAIN outbox' :
         outbox'[d].state = "in_flight" => d \in DOMAIN outbox /\ outbox[d].state = "in_flight"

\* A failed send ends the flight of its row and touches no other.
LEMMA SettleEndsFlight ==
    ASSUME OutboxInv, NEW e \in DOMAIN outbox, NEW err, SettleSendFailure(e, err)
    PROVE  /\ DOMAIN outbox' = DOMAIN outbox
           /\ outbox'[e].state # "in_flight"
           /\ \A d \in DOMAIN outbox : d # e => outbox'[d] = outbox[d]
           /\ UNCHANGED <<call_streams, retired_calls, turn, opened>>
<1>1. outbox[e] \in Row
  BY DEF OutboxInv, OutboxTypeOK
<1>2. CASE MarkDead(e)
  BY <1>1, <1>2 DEF MarkDead, Row
<1>3. CASE \E next \in Time : MarkRetry(e, next)
  BY <1>1, <1>3 DEF MarkRetry, Row
<1> QED
  BY <1>2, <1>3 DEF SettleSendFailure

\* An admission makes room without touching a row in flight or a pending head.
LEMMA AdmissionKeepsFlight ==
    ASSUME OutboxInv, NEW e \in EventId, NEW rec \in Request, NEW now \in Time,
           InsertPending(e, rec, now)
    PROVE  /\ InFlightKept
           /\ \A d : Sendable(d) => Sendable(d)' /\ outbox'[d] = outbox[d]
<1>1. /\ DOMAIN outbox' = Retained(e) \cup {e}
      /\ outbox'[e].state = "pending"
      /\ \A d \in Retained(e) : d # e => outbox'[d] = outbox[d]
      /\ e \notin DOMAIN outbox /\ Retained(e) \subseteq DOMAIN outbox
  BY RetainedStored DEF InsertPending, NewRow, CanInsert
<1>2. \A d \in DOMAIN outbox : outbox[d].state = "in_flight" => d \in Retained(e)
  BY DEF Retained, Reclaimable
<1>3. ASSUME NEW d, Sendable(d) PROVE Sendable(d)' /\ outbox'[d] = outbox[d]
  BY <1>3, PendingHeadStays DEF Sendable
<1> QED
  BY <1>1, <1>2, <1>3 DEF InFlightKept

\* expire_ttl kills pending rows only.
LEMMA ExpiryKeepsFlight ==
    ASSUME OutboxInv, NEW now \in Time, ExpireTtl(now)
    PROVE  InFlightKept
<1>1. ASSUME NEW d \in DOMAIN outbox
      PROVE  /\ outbox[d].state = "in_flight" => outbox'[d] = outbox[d]
             /\ outbox'[d] = outbox[d] \/ outbox'[d].state = "dead"
  <2>1. outbox[d] \in Row
    BY DEF OutboxInv, OutboxTypeOK
  <2>2. CASE Expired(d, now)
    <3>1. outbox'[d] = [outbox[d] EXCEPT !.state = "dead", !.last_error = "expired_ttl"]
      BY <2>2, Zenon DEF ExpireTtl
    <3> QED
      BY <2>1, <2>2, <3>1 DEF Row, Expired
  <2>3. CASE ~Expired(d, now)
    BY <2>3 DEF ExpireTtl
  <2> QED
    BY <2>2, <2>3
<1>2. DOMAIN outbox' = DOMAIN outbox
  BY DEF ExpireTtl
<1> QED
  BY <1>1, <1>2 DEF InFlightKept

\* After requeue_in_flight no row is in flight.
LEMMA RequeueEndsFlights ==
    ASSUME OutboxInv, NEW now \in Time, RequeueInFlight(now)
    PROVE  \A d \in DOMAIN outbox' : outbox'[d].state # "in_flight"
<1>1. \A d \in DOMAIN outbox : outbox[d] \in Row
  BY DEF OutboxInv, OutboxTypeOK
<1> QED
  BY <1>1 DEF RequeueInFlight, Requeued, Row

\* mark_acked removes one row in flight; the others keep state and attempt.
LEMMA AckEndsFlight ==
    ASSUME OutboxInv, NEW e, NEW now, MarkAcked(e, now)
    PROVE  e \notin DOMAIN outbox' /\ OthersStayInFlight(e) /\ NoneElseInFlight(e)
<1>1. \A d \in DOMAIN outbox : outbox[d] \in Row
  BY DEF OutboxInv, OutboxTypeOK
<1>2. DOMAIN outbox' = DOMAIN outbox \ {e}
  BY DEF MarkAcked
<1>3. \A d \in DOMAIN outbox' : /\ outbox'[d].state = outbox[d].state
                                /\ outbox'[d].attempts = outbox[d].attempts
  BY <1>1, <1>2 DEF MarkAcked, Promoted, Row
<1> QED
  BY <1>2, <1>3 DEF OthersStayInFlight, NoneElseInFlight

-----------------------------------------------------------------------------
(* Control: threads, the lifecycle lock and the open database *)

\* At the start there is no worker and nobody has the database open.
LEMMA ControlInit == PipelineInit => ControlInv
BY DEF PipelineInit, ControlInv, WorkerState, WorkerExcluded, DatabaseHeld, IdleIsQuiet,
       StopsSending

\* start opens the database before the worker exists; stop closes it after the
\* worker has been joined.
LEMMA LifecycleControl == ASSUME ControlInv, Lifecycle PROVE ControlInv'
<1> USE DEF ControlInv, WorkerState, WorkerExcluded, DatabaseHeld, IdleIsQuiet, StopsSending,
            worker, broker, bounds
<1>1. CASE StartOpen
  BY <1>1 DEF StartOpen, Open
<1>2. CASE StartRequeue
  BY <1>2 DEF StartRequeue, RequeueInFlight
<1>3. CASE StartAbort
  BY <1>3 DEF StartAbort, Close
<1>4. CASE StartRun
  BY <1>4 DEF StartRun, obvars
<1>5. CASE StopBegin
  BY <1>5 DEF StopBegin, obvars
<1>6. CASE StopJoin
  BY <1>6 DEF StopJoin
<1> QED
  BY <1>1, <1>2, <1>3, <1>4, <1>5, <1>6 DEF Lifecycle

\* The tools have the database open only while there is no worker.
LEMMA OperatorControl == ASSUME ControlInv, Operator PROVE ControlInv'
<1> USE DEF ControlInv, WorkerState, WorkerExcluded, DatabaseHeld, IdleIsQuiet, StopsSending,
            control, worker, broker, bounds
<1>1. CASE OperatorOpen
  BY <1>1 DEF OperatorOpen, Open
<1>2. CASE OperatorClose
  BY <1>2 DEF OperatorClose, Close
<1>3. CASE \E e \in EventId, now \in Time : OperatorRetryDead(e, now)
  BY <1>3 DEF OperatorRetryDead, RetryDead
<1>4. CASE \E c \in Call : OperatorRetire(c)
  BY <1>4 DEF OperatorRetire, Retire
<1> QED
  BY <1>1, <1>2, <1>3, <1>4 DEF Operator

\* enqueue needs no worker and leaves the database held or not as it was.
LEMMA EnqueueControl == ASSUME ControlInv, Enqueue PROVE ControlInv'
<1> USE DEF ControlInv, WorkerState, WorkerExcluded, DatabaseHeld, IdleIsQuiet, StopsSending,
            worker, broker, bounds
<1>1. CASE EnqueueBegin \/ EnqueueRefused
  BY <1>1 DEF EnqueueBegin, EnqueueRefused, obvars
<1>2. CASE \E e \in EventId, rec \in Request, now \in Time : EnqueueCommit(e, rec, now)
  BY <1>2 DEF EnqueueCommit, InsertPending
<1> QED
  BY <1>1, <1>2 DEF Enqueue

\* The worker works on a database held for it, and leaves it held.
LEMMA WorkerControl == ASSUME OutboxInv, ControlInv, ProducingInFlight, WorkerLoop
                       PROVE  ControlInv' /\ pc # "none"
<1> USE DEF ControlInv, WorkerState, WorkerExcluded, DatabaseHeld, IdleIsQuiet, StopsSending,
            control, broker, bounds
<1>1. CASE WorkerFetch \/ WorkerBatchDone \/ WorkerPollDone \/ WorkerExit
  BY <1>1 DEF WorkerFetch, WorkerBatchDone, WorkerPollDone, WorkerExit, obvars
<1>2. CASE WorkerRebuild
  BY <1>2 DEF WorkerRebuild, RequeueInFlight
<1>3. CASE WorkerExpire
  <2>1. opened' = opened
    BY <1>3 DEF WorkerExpire, ExpireTtl
  <2> QED
    BY <1>3, <2>1 DEF WorkerExpire
<1>4. CASE WorkerMark
  BY <1>4 DEF WorkerMark, MarkInFlight, Sending
<1>5. CASE WorkerMarkRefused
  BY <1>5 DEF WorkerMarkRefused, FailStop, Sending, obvars
<1>6. CASE WorkerProduce
  BY <1>6 DEF WorkerProduce, obvars
<1>7. CASE \E err \in ErrorCode : WorkerProduceFails(err)
  <2>1. PICK err \in ErrorCode : WorkerProduceFails(err)
    BY <1>7
  <2>2. CASE InFlight(Head(due))
    <3>1. opened' = opened
      BY <2>1, <2>2, SettleEndsFlight DEF WorkerProduceFails, InFlight
    <3> QED
      BY <2>1, <2>2, <3>1 DEF WorkerProduceFails
  <2>3. CASE ~InFlight(Head(due))
    BY <2>1, <2>3 DEF WorkerProduceFails, FailStop, obvars
  <2> QED
    BY <2>2, <2>3
<1>8. CASE WorkerTop
  <2>1. pc' \in {"exit", "rebuild", "check"}
    BY <1>8 DEF WorkerTop
  <2> QED
    BY <1>8, <2>1 DEF WorkerTop, obvars
<1>9. CASE WorkerCheck
  <2>1. pc' = "exit" \/ (running /\ pc' = "expire")
    BY <1>9 DEF WorkerCheck
  <2> QED
    BY <1>9, <2>1 DEF WorkerCheck, obvars
<1> QED
  BY <1>1, <1>2, <1>3, <1>4, <1>5, <1>6, <1>7, <1>8, <1>9 DEF WorkerLoop

\* A report, settled or refused, changes neither pc nor who holds the database.
LEMMA ReportControl ==
    ASSUME OutboxInv, ControlInv, NEW m \in outstanding, OnDelivery(m)
    PROVE  ControlInv'
<1> USE DEF ControlInv, WorkerState, WorkerExcluded, DatabaseHeld, IdleIsQuiet, StopsSending,
            worker, bounds, Polling
<1>1. CASE DeliveryOk(m)
  <2>1. opened' = opened
    BY <1>1 DEF DeliveryOk, MarkAcked, ReportRefused, obvars
  <2> QED
    BY <1>1, <2>1 DEF DeliveryOk, ReportRefused
<1>2. CASE \E err \in ErrorCode : DeliveryError(m, err)
  <2>1. PICK err \in ErrorCode : DeliveryError(m, err)
    BY <1>2
  <2>2. opened' = opened
    BY <2>1, SettleEndsFlight DEF DeliveryError, InFlight, ReportRefused, obvars
  <2> QED
    BY <2>1, <2>2 DEF DeliveryError, ReportRefused
<1> QED
  BY <1>1, <1>2 DEF OnDelivery

\* A failing call stops the worker with the database held; a crash releases it.
LEMMA FailureControl == ASSUME ControlInv, Failure PROVE ControlInv'
<1> USE DEF ControlInv, WorkerState, WorkerExcluded, DatabaseHeld, IdleIsQuiet, StopsSending,
            broker
<1>1. CASE WorkerRebuildFails
  <2>1. opened' = opened
    BY <1>1 DEF WorkerRebuildFails, RequeueInFlight, obvars
  <2> QED
    BY <1>1, <2>1 DEF WorkerRebuildFails, FailStop
<1>2. CASE WorkerStorageFails
  BY <1>2 DEF WorkerStorageFails, FailStop, Sending, obvars
<1>3. CASE \E m \in outstanding : DeliveryStorageFails(m)
  BY <1>3 DEF DeliveryStorageFails, ReportRefused, Polling, obvars
<1>4. CASE Crash
  BY <1>4 DEF Crash, Close
<1> QED
  BY <1>1, <1>2, <1>3, <1>4 DEF Failure

\* The threads, the lock and the database agree in every state.
LEMMA ControlStep ==
    ASSUME OutboxInv, ControlInv, ProducingInFlight, [PipelineNext]_pvars
    PROVE  ControlInv'
<1>1. CASE RequestRebuild \/ UNCHANGED pvars \/ \E m \in wire, p \in Partition : BrokerAppend(m, p)
  <2>1. UNCHANGED <<pc, faults, lifecycle, opened, accept, running, outstanding, failed>>
    BY <1>1 DEF RequestRebuild, BrokerAppend, pvars, obvars, control, worker, broker, bounds
  <2> QED
    BY <2>1 DEF ControlInv, WorkerExcluded, DatabaseHeld, IdleIsQuiet, StopsSending
<1> QED
  BY <1>1, LifecycleControl, OperatorControl, EnqueueControl, WorkerControl, ReportControl,
     FailureControl DEF PipelineNext

-----------------------------------------------------------------------------
(* Rows, batch and reports *)

RowInv == /\ StartsClean
          /\ BatchSendable /\ ProducingInFlight
          /\ ReportsMatchRows /\ OneReportEach
          /\ InFlightIsOwned

Looping == running /\ pc \in {"top", "check", "expire", "fetch", "send", "produce", "poll"}

\* A step that leaves the rows in flight and the batch alone.
LEMMA RowsQuiet ==
    ASSUME RowInv, InFlightKept, \A d : Sendable(d) => Sendable(d)',
           UNCHANGED <<pc, due, outstanding>>, Looping' => Looping,
           lifecycle' = "requeued" => lifecycle = "requeued"
    PROVE  RowInv'
<1> USE DEF RowInv
<1>1. StartsClean'
  BY DEF StartsClean, InFlightKept
<1>2. BatchSendable'
  <2>1. ASSUME pc \in {"send", "produce"}, NEW i \in 1 .. Len(due), pc = "send" \/ i # 1,
               NEW d, d = due[i]
        PROVE  Sendable(d)'
    BY <2>1 DEF BatchSendable
  <2>2. pc' \in {"send", "produce"} =>
          \A i \in 1 .. Len(due)' : pc' = "send" \/ i # 1 => Sendable(due[i])'
    BY <2>1
  <2> QED
    BY <2>2 DEF BatchSendable
<1>3. ProducingInFlight'
  BY DEF ProducingInFlight, InFlightKept
<1>4. ReportsMatchRows' /\ OneReportEach'
  BY DEF ReportsMatchRows, OneReportEach, InFlightKept
<1>5. InFlightIsOwned'
  BY DEF InFlightIsOwned, InFlightKept, Looping
<1> QED
  BY <1>1, <1>2, <1>3, <1>4, <1>5

\* A step of the worker outside the batch that keeps the rows in flight.
LEMMA RowsBetweenBatches ==
    ASSUME RowInv, InFlightKept, outstanding' = outstanding, lifecycle' = lifecycle,
           due' \in Seq(EventId), pc' \notin {"send", "produce"},
           Looping' => Looping /\ pc # "produce"
    PROVE  RowInv'
<1> USE DEF RowInv
<1>1. StartsClean'
  BY DEF StartsClean, InFlightKept
<1>2. BatchSendable' /\ ProducingInFlight'
  BY DEF BatchSendable, ProducingInFlight
<1>3. ReportsMatchRows' /\ OneReportEach'
  BY DEF ReportsMatchRows, OneReportEach, InFlightKept
<1>4. InFlightIsOwned'
  BY DEF InFlightIsOwned, InFlightKept, Looping
<1> QED
  BY <1>1, <1>2, <1>3, <1>4

\* Without a worker there are neither reports nor a batch.
LEMMA RowsWithoutWorker ==
    ASSUME StartsClean', pc' = "none", outstanding' = {}, due' \in Seq(EventId), ~running'
    PROVE  RowInv'
BY DEF RowInv, BatchSendable, ProducingInFlight, ReportsMatchRows, OneReportEach,
       InFlightIsOwned

\* start hands over a database without rows in flight; stop and abort end all.
LEMMA LifecycleRows ==
    ASSUME OutboxInv, ControlInv, RowInv, Lifecycle PROVE RowInv'
<1>0. due \in Seq(EventId)
  BY DEF RowInv, BatchSendable
<1>1. CASE StartOpen \/ StartAbort
  BY <1>0, <1>1, RowsWithoutWorker
  DEF StartOpen, StartAbort, StartsClean, ControlInv, WorkerExcluded, IdleIsQuiet, worker, broker
<1>2. CASE StartRequeue
  <2>1. StartsClean'
    BY <1>2, RequeueEndsFlights DEF StartRequeue, StartsClean
  <2> QED
    BY <1>0, <1>2, <2>1, RowsWithoutWorker
    DEF StartRequeue, ControlInv, WorkerExcluded, IdleIsQuiet, worker, broker
<1>3. CASE StartRun
  <2>1. /\ \A e \in DOMAIN outbox : outbox[e].state # "in_flight"
        /\ outstanding = {}
    BY <1>3 DEF StartRun, RowInv, StartsClean, ControlInv, WorkerExcluded, IdleIsQuiet
  <2> QED
    BY <1>0, <1>3, <2>1
    DEF StartRun, RowInv, StartsClean, BatchSendable, ProducingInFlight, ReportsMatchRows,
        OneReportEach, InFlightIsOwned, obvars, broker
<1>4. CASE StopBegin
  <2>1. InFlightKept /\ \A d : Sendable(d) => Sendable(d)'
    BY <1>4 DEF StopBegin, obvars, InFlightKept, Sendable, Deliverable, Ordered
  <2> QED
    BY <1>4, <2>1, RowsQuiet DEF StopBegin, worker, broker, Looping
<1>5. CASE StopJoin
  BY <1>0, <1>5, RowsWithoutWorker DEF StopJoin, StartsClean, ControlInv, IdleIsQuiet
<1> QED
  BY <1>1, <1>2, <1>3, <1>4, <1>5 DEF Lifecycle

\* The tools run while there is no worker.
LEMMA OperatorRows ==
    ASSUME ControlInv, RowInv, Operator PROVE RowInv'
<1>1. pc = "none" /\ lifecycle' # "requeued"
  <2>1. CASE OperatorOpen \/ OperatorClose \/ \E e \in EventId, now \in Time : OperatorRetryDead(e, now)
    BY <2>1
    DEF OperatorOpen, OperatorClose, OperatorRetryDead, ControlInv, WorkerExcluded, control
  <2>2. CASE \E c \in Call : OperatorRetire(c)
    BY <2>2
    DEF OperatorRetire, Retire, CanRetire, ControlInv, DatabaseHeld, control
  <2> QED
    BY <2>1, <2>2 DEF Operator
<1>2. UNCHANGED <<pc, due, outstanding, running>>
  BY DEF Operator, OperatorOpen, OperatorClose, OperatorRetryDead, OperatorRetire,
         control, worker, broker
<1> QED
  BY <1>1, <1>2, RowsWithoutWorker
  DEF StartsClean, ControlInv, IdleIsQuiet, RowInv, BatchSendable

\* enqueue touches neither rows in flight nor the batch.
LEMMA EnqueueRows ==
    ASSUME OutboxInv, RowInv, Enqueue PROVE RowInv'
<1>1. UNCHANGED <<pc, due, outstanding, running>> /\ lifecycle' # "requeued"
  BY DEF Enqueue, EnqueueBegin, EnqueueRefused, EnqueueCommit, worker, broker
<1>2. InFlightKept /\ \A d : Sendable(d) => Sendable(d)'
  <2>1. CASE EnqueueBegin \/ EnqueueRefused
    BY <2>1 DEF EnqueueBegin, EnqueueRefused, obvars, InFlightKept, Sendable, Deliverable, Ordered
  <2>2. CASE \E e \in EventId, rec \in Request, now \in Time : EnqueueCommit(e, rec, now)
    BY <2>2, AdmissionKeepsFlight DEF EnqueueCommit
  <2> QED
    BY <2>1, <2>2 DEF Enqueue
<1> QED
  BY <1>1, <1>2, RowsQuiet DEF Looping

\* fetch_due: every row of the new batch can be sent.
LEMMA FetchRows ==
    ASSUME OutboxInv, IsFiniteSet(DOMAIN outbox), loop_now \in Time, RowInv, WorkerFetch
    PROVE  RowInv'
<1>1. /\ due' \in Seq(EventId)
      /\ \A i \in 1 .. Len(due') : due'[i] \in Due(loop_now)
      /\ \A i, j \in 1 .. Len(due') : i # j => due'[i] # due'[j]
  BY FetchedInOrder, PipelineAssumption DEF WorkerFetch, OutboxInv, OutboxTypeOK
<1>2. UNCHANGED <<outbox, call_streams, outstanding, lifecycle, running>>
      /\ pc = "fetch" /\ pc' = "send"
  BY DEF WorkerFetch, obvars, control, broker
<1>3. ASSUME NEW i \in 1 .. Len(due'), NEW d, d = due'[i] PROVE Sendable(d)'
  <2>1. d \in Due(loop_now)
    BY <1>1, <1>3
  <2> QED
    BY <1>2, <2>1 DEF Due, Sendable, Deliverable, Ordered
<1>4. BatchSendable'
  <2>1. \A i \in 1 .. Len(due)' : Sendable(due[i])'
    BY <1>3
  <2> QED
    BY <1>1, <2>1 DEF BatchSendable
<1>5. StartsClean' /\ ProducingInFlight' /\ ReportsMatchRows' /\ OneReportEach'
  BY <1>2 DEF RowInv, StartsClean, ProducingInFlight, ReportsMatchRows, OneReportEach
<1>6. InFlightIsOwned'
  BY <1>2 DEF RowInv, InFlightIsOwned
<1> QED
  BY <1>4, <1>5, <1>6 DEF RowInv

\* The next row of the batch, and the ones after it.
LEMMA BatchSplit ==
    ASSUME due \in Seq(EventId), due # <<>>
    PROVE  /\ Len(due) \in Nat \ {0}
           /\ Head(due) = due[1] /\ due[1] \in EventId
           /\ Tail(due) \in Seq(EventId)
           /\ Len(Tail(due)) = Len(due) - 1
           /\ \A i \in 1 .. Len(Tail(due)) : i + 1 \in 1 .. Len(due) /\ Tail(due)[i] = due[i + 1]
OBVIOUS

\* mark_in_flight: the row leaves the sendable ones and has no report yet.
LEMMA MarkRows ==
    ASSUME OutboxInv, ControlInv, RowInv, WorkerMark
    PROVE  RowInv'
<1> DEFINE e == due[1]
<1>0. /\ pc = "send" /\ pc' = "produce" /\ running
      /\ due # <<>> /\ due \in Seq(EventId)
      /\ UNCHANGED <<due, outstanding, lifecycle, running>>
      /\ MarkInFlight(Head(due))
  BY DEF WorkerMark, Sending, control, broker, RowInv, BatchSendable
<1>1. /\ Len(due) \in Nat \ {0} /\ Head(due) = e /\ e \in EventId
  BY <1>0, BatchSplit
<1>2. /\ e \in DOMAIN outbox /\ outbox[e].state = "pending" /\ outbox[e] \in Row
      /\ outbox \in [DOMAIN outbox -> Row]
  BY <1>0, <1>1 DEF MarkInFlight, CanMarkInFlight, OutboxInv, OutboxTypeOK
<1>3. /\ DOMAIN outbox' = DOMAIN outbox
      /\ outbox'[e].state = "in_flight"
      /\ outbox'[e].attempts = outbox[e].attempts + 1
      /\ \A d \in DOMAIN outbox : d # e => outbox'[d] = outbox[d]
      /\ outbox'[e].call_uuid = outbox[e].call_uuid
  BY <1>0, <1>1, <1>2 DEF MarkInFlight, Row
<1>4. outbox[e].attempts >= 0 /\ outbox[e].attempts \in Int
  BY <1>2, LimitAssumption DEF Row
<1>5. ASSUME NEW m \in outstanding PROVE m.event_id # e
  BY <1>2 DEF RowInv, ReportsMatchRows
<1>6. ASSUME NEW d, Sendable(d), d # e PROVE Sendable(d)'
  <2>1. \A c \in DOMAIN call_streams :
           c \in DOMAIN call_streams' /\ call_streams'[c].next_seq = call_streams[c].next_seq
    BY <1>0, <1>1, ServeMovesTurn
  <2>2. d \in DOMAIN outbox' /\ outbox'[d] = outbox[d]
    BY <1>3, <1>6 DEF Sendable
  <2>3. Deliverable(d)'
    BY <1>6, <2>1, <2>2, HeadsKept DEF Sendable
  <2> QED
    BY <1>6, <2>2, <2>3 DEF Sendable
<1> HIDE DEF e
<1>7. BatchSendable'
  <2>1. ASSUME NEW i \in 1 .. Len(due), i # 1, NEW d, d = due[i] PROVE Sendable(d)'
    <3>1. 1 \in 1 .. Len(due)
      BY <1>1
    <3>2. d # e /\ Sendable(d)
      BY <1>0, <2>1, <3>1 DEF RowInv, BatchSendable, e
    <3> QED
      BY <1>6, <3>2
  <2>2. \A i \in 1 .. Len(due)' : i # 1 => Sendable(due[i])'
    BY <1>0, <2>1
  <2> QED
    BY <1>0, <2>2 DEF RowInv, BatchSendable
<1>8. ProducingInFlight'
  <2>1. Head(due)' = e
    BY <1>0, <1>1
  <2> QED
    BY <1>0, <1>2, <1>3, <1>4, <1>5, <2>1 DEF ProducingInFlight
<1>9. StartsClean'
  BY <1>0 DEF ControlInv, WorkerExcluded, StartsClean
<1>10. ReportsMatchRows' /\ OneReportEach'
  BY <1>0, <1>3, <1>5 DEF RowInv, ReportsMatchRows, OneReportEach
<1>11. InFlightIsOwned'
  <2>1. Head(due)' = e
    BY <1>0, <1>1
  <2> QED
    BY <1>0, <1>3, <2>1 DEF RowInv, InFlightIsOwned
<1> QED
  BY <1>7, <1>8, <1>9, <1>10, <1>11 DEF RowInv

\* After the produce call, whichever way it went, the batch goes on.
LEMMA BatchGoesOn ==
    ASSUME BatchSendable, pc = "produce", due # <<>>, due' = Tail(due), pc' = "send",
           \A d : Sendable(d) /\ d # Head(due) => Sendable(d)'
    PROVE  BatchSendable'
<1>1. due \in Seq(EventId)
  BY DEF BatchSendable
<1>2. /\ Len(due) \in Nat \ {0} /\ Head(due) = due[1]
      /\ Tail(due) \in Seq(EventId) /\ Len(Tail(due)) = Len(due) - 1
      /\ \A i \in 1 .. Len(Tail(due)) : i + 1 \in 1 .. Len(due) /\ Tail(due)[i] = due[i + 1]
  BY <1>1, BatchSplit
<1>3. ASSUME NEW i \in 1 .. Len(due'), NEW d, d = due'[i] PROVE Sendable(d)'
  <2>1. i + 1 \in 1 .. Len(due) /\ i + 1 # 1 /\ 1 \in 1 .. Len(due) /\ d = due[i + 1]
    BY <1>2, <1>3
  <2>2. Sendable(d) /\ d # Head(due)
    BY <1>2, <2>1 DEF BatchSendable
  <2> QED
    BY <2>2
<1>4. \A i \in 1 .. Len(due)' : Sendable(due[i])'
  BY <1>3
<1>5. \A i, j \in 1 .. Len(due') : i # j => due'[i] # due'[j]
  <2> SUFFICES ASSUME NEW i \in 1 .. Len(due'), NEW j \in 1 .. Len(due'), i # j
               PROVE  due'[i] # due'[j]
    OBVIOUS
  <2>1. /\ i + 1 \in 1 .. Len(due) /\ due'[i] = due[i + 1]
        /\ j + 1 \in 1 .. Len(due) /\ due'[j] = due[j + 1]
        /\ i + 1 # j + 1
    BY <1>2
  <2> QED
    BY <2>1 DEF BatchSendable
<1> QED
  BY <1>2, <1>4, <1>5 DEF BatchSendable

\* The produce call: the report now owed is about the attempt just counted.
LEMMA ProduceRows ==
    ASSUME OutboxInv, ControlInv, RowInv, WorkerProduce
    PROVE  RowInv'
<1> DEFINE e == Head(due)
           m == MessageOf(Head(due))
<1>0. /\ pc = "produce" /\ pc' = "send" /\ due' = Tail(due)
      /\ outstanding' = outstanding \cup {m}
      /\ UNCHANGED <<outbox, call_streams, lifecycle, running>>
  BY DEF WorkerProduce, obvars, control
<1>1. /\ due # <<>> /\ e \in DOMAIN outbox /\ outbox[e].state = "in_flight"
      /\ \A n \in outstanding : n.event_id # e
  BY <1>0 DEF RowInv, ProducingInFlight
<1>2. m.event_id = e /\ m.attempt = outbox[e].attempts
  BY DEF MessageOf
<1> HIDE DEF e, m
<1>3. BatchSendable'
  BY <1>0, <1>1, BatchGoesOn DEF RowInv, Sendable, Deliverable, Ordered
<1>4. StartsClean' /\ ProducingInFlight'
  BY <1>0 DEF ControlInv, WorkerExcluded, StartsClean, ProducingInFlight
<1>5. ReportsMatchRows' /\ OneReportEach'
  BY <1>0, <1>1, <1>2 DEF RowInv, ReportsMatchRows, OneReportEach
<1>6. InFlightIsOwned'
  BY <1>0, <1>1, <1>2 DEF RowInv, InFlightIsOwned, e
<1> QED
  BY <1>3, <1>4, <1>5, <1>6 DEF RowInv

\* A produce call that fails settles its own row, for which nothing is owed.
LEMMA ProduceFailsRows ==
    ASSUME OutboxInv, ControlInv, RowInv, NEW err \in ErrorCode, WorkerProduceFails(err)
    PROVE  RowInv' /\ UNCHANGED failed /\ UNCHANGED turn
<1> DEFINE e == Head(due)
<1>0. /\ pc = "produce" /\ due' = Tail(due)
      /\ UNCHANGED <<outstanding, lifecycle>>
  BY DEF WorkerProduceFails, broker
<1>1. /\ due # <<>> /\ e \in DOMAIN outbox /\ outbox[e].state = "in_flight" /\ opened
      /\ \A n \in outstanding : n.event_id # e
  BY <1>0 DEF RowInv, ProducingInFlight, ControlInv, DatabaseHeld
<1>2. SettleSendFailure(e, err) /\ pc' = "send" /\ UNCHANGED <<running, failed>>
  BY <1>1 DEF WorkerProduceFails, InFlight
<1>3. /\ DOMAIN outbox' = DOMAIN outbox
      /\ outbox'[e].state # "in_flight"
      /\ \A d \in DOMAIN outbox : d # e => outbox'[d] = outbox[d]
      /\ UNCHANGED <<call_streams, turn>>
  BY <1>1, <1>2, SettleEndsFlight
<1> HIDE DEF e
<1>4. \A d : Sendable(d) /\ d # e => Sendable(d)'
  BY <1>3 DEF Sendable, Deliverable, Ordered
<1>5. BatchSendable'
  BY <1>0, <1>1, <1>2, <1>4, BatchGoesOn DEF RowInv, e
<1>6. StartsClean' /\ ProducingInFlight'
  BY <1>0, <1>2 DEF ControlInv, WorkerExcluded, StartsClean, ProducingInFlight
<1>7. ReportsMatchRows' /\ OneReportEach'
  BY <1>0, <1>1, <1>3 DEF RowInv, ReportsMatchRows, OneReportEach
<1>8. InFlightIsOwned'
  BY <1>0, <1>2, <1>3 DEF RowInv, InFlightIsOwned, e
<1> QED
  BY <1>2, <1>3, <1>5, <1>6, <1>7, <1>8 DEF RowInv

\* worker_loop, all its steps.
LEMMA WorkerRows ==
    ASSUME OutboxInv, IsFiniteSet(DOMAIN outbox), loop_now \in Time, ControlInv, RowInv,
           WorkerLoop
    PROVE  RowInv'
<1>0. due \in Seq(EventId)
  BY DEF RowInv, BatchSendable
<1>1. CASE WorkerTop \/ WorkerCheck \/ WorkerBatchDone \/ WorkerMarkRefused \/ WorkerPollDone
           \/ WorkerExit
  <2>1. InFlightKept /\ UNCHANGED <<outstanding, lifecycle>>
    BY <1>1
    DEF WorkerTop, WorkerCheck, WorkerBatchDone, WorkerMarkRefused, WorkerPollDone, WorkerExit,
        obvars, control, broker, InFlightKept
  <2>2. due' \in Seq(EventId)
    <3>1. due' = due \/ due' = <<>>
      BY <1>1
      DEF WorkerTop, WorkerCheck, WorkerBatchDone, WorkerMarkRefused, WorkerPollDone, WorkerExit
    <3>2. <<>> \in Seq(EventId)
      OBVIOUS
    <3> QED
      BY <1>0, <3>1, <3>2
  <2>3. pc # "produce" /\ pc' \notin {"send", "produce"}
    BY <1>1
    DEF WorkerTop, WorkerCheck, WorkerBatchDone, WorkerMarkRefused, WorkerPollDone, WorkerExit,
        FailStop, Sending
  <2>4. Looping' => Looping
    BY <1>1
    DEF WorkerTop, WorkerCheck, WorkerBatchDone, WorkerMarkRefused, WorkerPollDone, WorkerExit,
        FailStop, Sending, Looping, control
  <2> QED
    BY <2>1, <2>2, <2>3, <2>4, RowsBetweenBatches
<1>2. CASE WorkerRebuild
  <2>1. \A d \in DOMAIN outbox' : outbox'[d].state # "in_flight"
    BY <1>2, RequeueEndsFlights DEF WorkerRebuild
  <2>2. outstanding' = {} /\ due' = due /\ pc' = "check"
    BY <1>2 DEF WorkerRebuild
  <2> QED
    BY <1>0, <2>1, <2>2
    DEF RowInv, StartsClean, BatchSendable, ProducingInFlight, ReportsMatchRows, OneReportEach,
        InFlightIsOwned
<1>3. CASE WorkerExpire
  <2>1. InFlightKept
    BY <1>3, ExpiryKeepsFlight DEF WorkerExpire
  <2> QED
    BY <1>0, <1>3, <2>1, RowsBetweenBatches DEF WorkerExpire, control, broker, Looping
<1>4. CASE WorkerFetch
  BY <1>4, FetchRows
<1>5. CASE WorkerMark
  BY <1>5, MarkRows
<1>6. CASE WorkerProduce
  BY <1>6, ProduceRows
<1>7. CASE \E err \in ErrorCode : WorkerProduceFails(err)
  BY <1>7, ProduceFailsRows
<1> QED
  BY <1>1, <1>2, <1>3, <1>4, <1>5, <1>6, <1>7 DEF WorkerLoop

\* on_delivery is never refused: the report finds its row in flight, in the
\* attempt it is about, at the head of its call and in an open database.
LEMMA ReportRows ==
    ASSUME OutboxInv, ControlInv, RowInv, NEW m \in outstanding, OnDelivery(m)
    PROVE  RowInv' /\ UNCHANGED failed
<1> DEFINE e == m.event_id
<1>1. /\ Polling /\ outstanding' = outstanding \ {m}
      /\ UNCHANGED <<pc, due, lifecycle>>
  BY DEF OnDelivery, DeliveryOk, DeliveryError, worker
<1>2. /\ e \in DOMAIN outbox /\ outbox[e].state = "in_flight" /\ opened
  BY <1>1 DEF RowInv, ReportsMatchRows, Polling, ControlInv, DatabaseHeld
<1>3. CanAck(e) /\ InFlight(e)
  BY <1>2 DEF CanAck, InFlight, OutboxInv, InFlightIsHead
<1>4. UNCHANGED <<running, failed>> /\ OthersStayInFlight(e) /\ NoneElseInFlight(e)
      /\ (e \in DOMAIN outbox' => outbox'[e].state # "in_flight")
  <2>1. CASE DeliveryOk(m)
    <3>1. UNCHANGED <<running, failed>> /\ \E now \in Time : MarkAcked(e, now)
      BY <1>3, <2>1 DEF DeliveryOk
    <3>2. PICK now \in Time : MarkAcked(e, now)
      BY <3>1
    <3> HIDE DEF e
    <3> QED
      BY <3>1, <3>2, AckEndsFlight
  <2>2. CASE \E err \in ErrorCode : DeliveryError(m, err)
    <3>1. PICK err \in ErrorCode : DeliveryError(m, err)
      BY <2>2
    <3>2. UNCHANGED <<running, failed>> /\ SettleSendFailure(e, err)
      BY <1>3, <3>1 DEF DeliveryError
    <3> HIDE DEF e
    <3>3. /\ DOMAIN outbox' = DOMAIN outbox
          /\ outbox'[e].state # "in_flight"
          /\ \A d \in DOMAIN outbox : d # e => outbox'[d] = outbox[d]
      BY <1>2, <3>2, SettleEndsFlight
    <3> QED
      BY <3>2, <3>3 DEF OthersStayInFlight, NoneElseInFlight
  <2> QED
    BY <2>1, <2>2 DEF OnDelivery
<1>5. \A n \in outstanding' : n \in outstanding /\ n.event_id # e
  BY <1>1 DEF RowInv, OneReportEach
<1>6. StartsClean' /\ BatchSendable' /\ ProducingInFlight'
  BY <1>1
  DEF RowInv, StartsClean, BatchSendable, ProducingInFlight, Polling, ControlInv, WorkerExcluded
<1>7. ReportsMatchRows' /\ OneReportEach'
  BY <1>1, <1>4, <1>5 DEF RowInv, ReportsMatchRows, OneReportEach, OthersStayInFlight
<1>8. InFlightIsOwned'
  <2> SUFFICES ASSUME running, pc = "poll", NEW d \in DOMAIN outbox',
                      outbox'[d].state = "in_flight"
               PROVE  \E n \in outstanding' : n.event_id = d
    BY <1>1, <1>4 DEF InFlightIsOwned, Polling
  <2>1. d # e /\ d \in DOMAIN outbox /\ outbox[d].state = "in_flight"
    BY <1>4 DEF NoneElseInFlight
  <2>2. PICK n \in outstanding : n.event_id = d
    BY <2>1 DEF RowInv, InFlightIsOwned
  <2> QED
    BY <1>1, <2>1, <2>2
<1> QED
  BY <1>4, <1>6, <1>7, <1>8 DEF RowInv

\* A failure leaves the loop, so that no row has to be owned any more; the
\* reports still owed keep their rows, except after a requeue, which drops all.
LEMMA FailureRows ==
    ASSUME OutboxInv, ControlInv, RowInv, Failure
    PROVE  RowInv'
<1>0. due \in Seq(EventId)
  BY DEF RowInv, BatchSendable
<1>1. CASE WorkerRebuildFails
  <2>1. outstanding' = {} /\ due' = due /\ pc' = "exit" /\ ~running' /\ lifecycle' # "requeued"
    BY <1>1 DEF WorkerRebuildFails, FailStop, ControlInv, WorkerExcluded
  <2> QED
    BY <1>0, <2>1
    DEF RowInv, StartsClean, BatchSendable, ProducingInFlight, ReportsMatchRows, OneReportEach,
        InFlightIsOwned
<1>2. CASE WorkerStorageFails
  <2>1. /\ UNCHANGED <<outbox, outstanding, due>>
        /\ pc' = "exit" /\ ~running' /\ lifecycle' = lifecycle /\ pc # "none"
    BY <1>2 DEF WorkerStorageFails, FailStop, Sending, obvars, broker
  <2> QED
    BY <1>0, <2>1
    DEF RowInv, StartsClean, BatchSendable, ProducingInFlight, ReportsMatchRows, OneReportEach,
        InFlightIsOwned
<1>3. CASE \E m \in outstanding : DeliveryStorageFails(m)
  <2>1. /\ UNCHANGED <<outbox, due, lifecycle>> /\ outstanding' \subseteq outstanding
        /\ pc' \in {"poll", "rebuild", "exit"} /\ ~running'
    BY <1>3 DEF DeliveryStorageFails, ReportRefused, Polling, obvars
  <2> QED
    BY <1>0, <2>1
    DEF RowInv, StartsClean, BatchSendable, ProducingInFlight, ReportsMatchRows, OneReportEach,
        InFlightIsOwned
<1>4. CASE Crash
  BY <1>0, <1>4, RowsWithoutWorker DEF Crash, StartsClean
<1> QED
  BY <1>1, <1>2, <1>3, <1>4 DEF Failure

\* Rows, batch and reports agree after every step.
LEMMA RowsStep ==
    ASSUME OutboxInv, IsFiniteSet(DOMAIN outbox), loop_now \in Time, ControlInv, RowInv,
           [PipelineNext]_pvars
    PROVE  RowInv'
<1>1. CASE RequestRebuild \/ UNCHANGED pvars \/ \E m \in wire, p \in Partition : BrokerAppend(m, p)
  <2>1. UNCHANGED <<outbox, call_streams, pc, due, lifecycle, running, outstanding>>
    BY <1>1 DEF RequestRebuild, BrokerAppend, pvars, obvars, control, worker, broker
  <2>2. InFlightKept /\ \A d : Sendable(d) => Sendable(d)'
    BY <2>1 DEF InFlightKept, Sendable, Deliverable, Ordered
  <2> QED
    BY <2>1, <2>2, RowsQuiet DEF Looping
<1> QED
  BY <1>1, LifecycleRows, OperatorRows, EnqueueRows, WorkerRows, ReportRows, FailureRows
  DEF PipelineNext

-----------------------------------------------------------------------------
(* Why the pipeline stops by itself *)

\* mark_in_flight refuses the next row of a batch only when the turns are used up.
LEMMA RefusedForTurns ==
    ASSUME OutboxInv, ControlInv, BatchSendable, WorkerMarkRefused
    PROVE  turn = MaxInt64
<1>1. pc = "send" /\ due # <<>> /\ ~CanMarkInFlight(Head(due))
  BY DEF WorkerMarkRefused, Sending
<1>2. due \in Seq(EventId)
  BY DEF BatchSendable
<1>3. Len(due) \in Nat \ {0} /\ Head(due) = due[1]
  BY <1>1, <1>2, BatchSplit
<1>4. Sendable(Head(due))
  BY <1>1, <1>3 DEF BatchSendable
<1>5. opened
  BY <1>1 DEF ControlInv, DatabaseHeld
<1>6. turn \in 0 .. MaxInt64
  BY DEF OutboxInv, OutboxTypeOK
<1> QED
  BY <1>1, <1>4, <1>5, <1>6, LimitAssumption DEF CanMarkInFlight, Sendable

\* Turns that are used up stay so.
LEMMA TurnsStayUsed ==
    ASSUME turn = MaxInt64, [OutboxNext]_obvars PROVE turn' = MaxInt64
<1>1. ASSUME NEW e \in EventId PROVE ~MarkInFlight(e)
  BY LimitAssumption DEF MarkInFlight, CanMarkInFlight
<1> QED
  BY <1>1
  DEF OutboxNext, obvars, Open, Close, Retire, RequeueInFlight, ExpireTtl, InsertPending,
      MarkDead, MarkAcked, MarkRetry, RetryDead

\* A step makes the pipeline fail only by a fault or at the last turn.
LEMMA FailureHasCause ==
    ASSUME OutboxInv, ControlInv, RowInv, [PipelineNext]_pvars, failed', ~failed
    PROVE  faults' > 0 \/ turn' = MaxInt64
<1>1. CASE WorkerMarkRefused
  BY <1>1, RefusedForTurns DEF RowInv, WorkerMarkRefused, obvars
<1>2. CASE Failure
  BY <1>2 DEF Failure, WorkerRebuildFails, WorkerStorageFails, DeliveryStorageFails, Crash,
              ControlInv
<1>3. CASE WorkerLoop /\ ~WorkerMarkRefused
  <2>1. ASSUME NEW err \in ErrorCode, WorkerProduceFails(err) PROVE FALSE
    BY <2>1, ProduceFailsRows
  <2> QED
    BY <1>3, <2>1
    DEF WorkerLoop, WorkerTop, WorkerRebuild, WorkerCheck, WorkerExpire, WorkerFetch,
        WorkerBatchDone, WorkerMark, WorkerProduce, WorkerPollDone, WorkerExit, control
<1>4. CASE \E m \in outstanding : OnDelivery(m)
  BY <1>4, ReportRows
<1>5. CASE Lifecycle \/ Enqueue \/ Operator
  BY <1>5
  DEF Lifecycle, StartOpen, StartRequeue, StartAbort, StartRun, StopBegin, StopJoin,
      Enqueue, EnqueueBegin, EnqueueRefused, EnqueueCommit,
      Operator, OperatorOpen, OperatorClose, OperatorRetryDead, OperatorRetire, control
<1>6. CASE RequestRebuild \/ UNCHANGED pvars \/ \E m \in wire, p \in Partition : BrokerAppend(m, p)
  BY <1>6 DEF RequestRebuild, BrokerAppend, pvars, control
<1> QED
  BY <1>1, <1>2, <1>3, <1>4, <1>5, <1>6 DEF PipelineNext

\* Faults are only counted up, and loop_now only takes readings of the clock.
LEMMA CountersStep ==
    ASSUME faults \in Nat, loop_now \in Time, [PipelineNext]_pvars
    PROVE  faults' \in Nat /\ faults' >= faults /\ loop_now' \in Time
<1>1. CASE Lifecycle \/ Enqueue \/ Operator
  <2>1. UNCHANGED <<faults, loop_now>>
    BY <1>1
    DEF Lifecycle, StartOpen, StartRequeue, StartAbort, StartRun, StopBegin, StopJoin,
        Enqueue, EnqueueBegin, EnqueueRefused, EnqueueCommit,
        Operator, OperatorOpen, OperatorClose, OperatorRetryDead, OperatorRetire, worker, bounds
  <2> QED
    BY <2>1
<1>2. CASE Failure
  BY <1>2 DEF Failure, WorkerRebuildFails, WorkerStorageFails, DeliveryStorageFails, Crash
<1>3. CASE WorkerLoop
  <2>1. faults' = faults
    BY <1>3
    DEF WorkerLoop, WorkerTop, WorkerRebuild, WorkerCheck, WorkerExpire, WorkerFetch,
        WorkerBatchDone, WorkerMark, WorkerMarkRefused, WorkerProduce, WorkerProduceFails,
        WorkerPollDone, WorkerExit, bounds
  <2>2. loop_now' \in Time
    BY <1>3
    DEF WorkerLoop, WorkerTop, WorkerRebuild, WorkerCheck, WorkerExpire, WorkerFetch,
        WorkerBatchDone, WorkerMark, WorkerMarkRefused, WorkerProduce, WorkerProduceFails,
        WorkerPollDone, WorkerExit
  <2> QED
    BY <2>1, <2>2
<1>4. CASE \E m \in outstanding : OnDelivery(m)
  BY <1>4 DEF OnDelivery, DeliveryOk, DeliveryError, worker, bounds
<1>5. CASE RequestRebuild \/ UNCHANGED pvars \/ \E m \in wire, p \in Partition : BrokerAppend(m, p)
  BY <1>5 DEF RequestRebuild, BrokerAppend, pvars, worker, bounds
<1> QED
  BY <1>1, <1>2, <1>3, <1>4, <1>5 DEF PipelineNext

-----------------------------------------------------------------------------
\* Before the first start nothing is stored, sent or owed.
LEMMA DeliveryInvInit == PipelineInit => DeliveryInv
<1> SUFFICES ASSUME PipelineInit PROVE DeliveryInv
  OBVIOUS
<1>1. OutboxInv /\ ControlInv
  BY OutboxInvInit, ControlInit DEF PipelineInit
<1>2. DOMAIN outbox = {}
  BY DEF PipelineInit, OutboxInit
<1>3. IsFiniteSet(DOMAIN outbox)
  BY <1>2, FS_EmptySet
<1> QED
  BY <1>1, <1>2, <1>3
  DEF DeliveryInv, PipelineInit, StartsClean, BatchSendable, ProducingInFlight, ReportsMatchRows,
      OneReportEach, InFlightIsOwned, FailsOnlyForCause

\* Every step of every actor keeps the whole invariant.
LEMMA DeliveryInvStep == DeliveryInv /\ [PipelineNext]_pvars => DeliveryInv'
<1> SUFFICES ASSUME DeliveryInv, [PipelineNext]_pvars PROVE DeliveryInv'
  OBVIOUS
<1>1. /\ OutboxInv /\ IsFiniteSet(DOMAIN outbox) /\ loop_now \in Time
      /\ ControlInv /\ RowInv /\ ProducingInFlight /\ FailsOnlyForCause
      /\ faults \in Nat
  BY DEF DeliveryInv, RowInv, ControlInv
<1>2. [OutboxNext]_obvars
  BY <1>1, PipelineStep DEF OutboxInv
<1>3. OutboxInv' /\ IsFiniteSet(DOMAIN outbox)'
  BY <1>1, <1>2, OutboxInvStep, RowsStayFinite
<1>4. ControlInv' /\ RowInv'
  BY <1>1, ControlStep, RowsStep
<1>5. faults' \in Nat /\ faults' >= faults /\ loop_now' \in Time
  BY <1>1, CountersStep
<1>6. FailsOnlyForCause'
  <2> SUFFICES ASSUME failed' PROVE faults' > 0 \/ turn' = MaxInt64
    BY DEF FailsOnlyForCause
  <2>1. CASE failed
    BY <1>1, <1>2, <1>5, <2>1, TurnsStayUsed DEF FailsOnlyForCause
  <2>2. CASE ~failed
    BY <1>1, <2>2, FailureHasCause
  <2> QED
    BY <2>1, <2>2
<1> QED
  BY <1>3, <1>4, <1>5, <1>6 DEF DeliveryInv, RowInv

\* Worker, batch, reports and rows agree in every reachable state.
THEOREM DeliveryInvariant == PipelineSpec => []DeliveryInv
BY DeliveryInvInit, DeliveryInvStep, PTL DEF PipelineSpec

\* A delivery report always meets the attempt it is about: on_delivery never
\* settles a later attempt of its row, or a row somebody else has settled.
THEOREM ReportsAreCurrent == PipelineSpec => []ReportsMatchRows
<1>1. DeliveryInv => ReportsMatchRows
  BY DEF DeliveryInv
<1> QED
  BY <1>1, DeliveryInvariant, PTL

\* While worker_loop goes round, a row in flight is being produced or has a
\* report coming: it cannot be forgotten in that state.
THEOREM NoRowIsStuck == PipelineSpec => []InFlightIsOwned
<1>1. DeliveryInv => InFlightIsOwned
  BY DEF DeliveryInv
<1> QED
  BY <1>1, DeliveryInvariant, PTL

\* Neither a concurrent enqueue nor a report makes mark_in_flight or a durable
\* transition of on_delivery refuse: the fail-stop has an outside cause.
THEOREM FailStopHasCause == PipelineSpec => []FailsOnlyForCause
<1>1. DeliveryInv => FailsOnlyForCause
  BY DEF DeliveryInv
<1> QED
  BY <1>1, DeliveryInvariant, PTL

\* Once a state error has stopped the pipeline, the worker produces nothing more
\* and no enqueue passes its test of accept_, so that only the one under way at
\* the failure can still commit: failed => ~accept is part of ControlInv.
THEOREM FailStopIsFinal == PipelineSpec => StopsAfterFailure
<1> DEFINE Stopped == failed /\ failed' =>
                        /\ outstanding' \subseteq outstanding
                        /\ lifecycle # "enqueue" =>
                             lifecycle' # "enqueue" /\ admitted' = admitted
<1>1. DeliveryInv /\ [PipelineNext]_pvars => [Stopped]_pvars
  <2> SUFFICES ASSUME DeliveryInv, PipelineNext, failed
               PROVE  /\ outstanding' \subseteq outstanding
                      /\ lifecycle # "enqueue" =>
                           lifecycle' # "enqueue" /\ admitted' = admitted
    OBVIOUS
  <2>1. pc # "produce" /\ ~accept
    BY DEF DeliveryInv, ControlInv, StopsSending
  <2>2. CASE Lifecycle \/ Enqueue \/ Operator
    BY <2>1, <2>2
    DEF Lifecycle, StartOpen, StartRequeue, StartAbort, StartRun, StopBegin, StopJoin,
        Enqueue, EnqueueBegin, EnqueueRefused, EnqueueCommit,
        Operator, OperatorOpen, OperatorClose, OperatorRetryDead, OperatorRetire, broker, control
  <2>3. CASE WorkerLoop
    BY <2>1, <2>3
    DEF WorkerLoop, WorkerTop, WorkerRebuild, WorkerCheck, WorkerExpire, WorkerFetch,
        WorkerBatchDone, WorkerMark, WorkerMarkRefused, WorkerProduce, WorkerProduceFails,
        WorkerPollDone, WorkerExit, broker, control
  <2>4. CASE Failure
    BY <2>4 DEF Failure, WorkerRebuildFails, WorkerStorageFails, DeliveryStorageFails, Crash, broker
  <2>5. CASE \E m \in outstanding : OnDelivery(m)
    BY <2>5 DEF OnDelivery, DeliveryOk, DeliveryError
  <2>6. CASE RequestRebuild \/ \E m \in wire, p \in Partition : BrokerAppend(m, p)
    BY <2>6 DEF RequestRebuild, BrokerAppend, broker, control
  <2> QED
    BY <2>2, <2>3, <2>4, <2>5, <2>6 DEF PipelineNext
<1>2. [][Stopped]_pvars <=> StopsAfterFailure
  BY DEF StopsAfterFailure
<1> QED
  BY <1>1, <1>2, DeliveryInvariant, PTL DEF PipelineSpec
=============================================================================
