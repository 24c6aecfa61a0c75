---------------------------- MODULE KafkaPipeline ----------------------------
(***************************************************************************)
(* The delivery pipeline of mod_event_kafka, src/src/kafka_pipeline.cpp,   *)
(* over the durable store of module Outbox.                                *)
(*                                                                         *)
(* Actors: the threads that call enqueue, start and stop (serialised by    *)
(* lifecycle_mu_, variable lifecycle), anybody calling request_rebuild,    *)
(* the single worker thread (program counter pc), librdkafka and the       *)
(* broker (outstanding, wire, log), the operator's offline tools, and the  *)
(* environment, which may kill the process or make a storage call fail.    *)
(* Delivery reports run on the worker thread, inside rd_kafka_poll or      *)
(* rd_kafka_flush, and so only while pc is "poll", "rebuild" or "exit".    *)
(*                                                                         *)
(* Every call of a method of Outbox is one step, because enqueue and the   *)
(* worker interleave at that grain.                                        *)
(***************************************************************************)
EXTENDS Outbox, Sequences

CONSTANTS
    Partition,             \* partitions of the configured topic
    PartitionOf,           \* the partition a nonempty key is hashed to
    MaxAttempts,           \* max_attempts_before_dead
    ErrorCode,             \* the errors librdkafka may report
    FetchLimit,            \* batch size of fetch_due, 32 in worker_loop
    RequireSource,         \* require_source_sequence
    Idempotence,           \* enable_idempotence
    MaxFaults,             \* bound: failing storage or producer calls
    MaxCrashes,            \* bound: deaths of the process
    MaxLog,                \* bound: records per partition
    CallChoice,            \* bound: CallChoice[e], the calls e may be an event of
    CalmTurn               \* bound: the last turn at which callers start or rebuild

ASSUME PartitionAssumption == PartitionOf \in [Key -> Partition]
ASSUME PipelineAssumption ==
    /\ MaxAttempts \in Int
    /\ FetchLimit \in Nat
    /\ RequireSource \in BOOLEAN
    /\ Idempotence \in BOOLEAN
    /\ MaxFaults \in Nat
    /\ MaxCrashes \in Nat
    /\ MaxLog \in Nat
    /\ CallChoice \in [EventId -> SUBSET (Call \cup {Ungrouped})]
    /\ CalmTurn \in Nat

VARIABLES
    accept,       \* accept_
    running,      \* running_
    rebuild,      \* rebuild_requested_
    lifecycle,    \* what the holder of lifecycle_mu_ is doing, or "free"
    pc,           \* where the worker is; "none" when worker_ is not joinable
    loop_now,     \* the worker's local variable now
    due,          \* the rest of the worker's local batch
    outstanding,  \* messages the live producer still owes a delivery report
    wire,         \* messages the broker may still append
    log,          \* the records of each partition
    admitted,     \* history: what each accepted event was admitted as
    failed,       \* history: a state error has stopped the pipeline
    faults,       \* failures injected so far
    crashes       \* crashes so far

control == <<accept, running, rebuild, lifecycle, failed>>
worker == <<pc, loop_now, due>>
broker == <<outstanding, wire, log>>
bounds == <<faults, crashes>>
pvars == <<obvars, control, worker, broker, admitted, bounds>>

\* What produce_record hands to librdkafka: identity, key and ordinal headers.
\* The attempt number is not sent; it tells one produce call from another.
Message == [event_id : EventId,
            attempt : 1 .. MaxInt64,
            call_uuid : Call \cup {Ungrouped},
            msg_key : Key \cup {NoKey},
            call_seq : -1 .. (MaxInt64 - 1)]

MessageWithoutKey(e) == [event_id |-> e,                           \* mutant
                         attempt |-> outbox[e].attempts,
                         call_uuid |-> outbox[e].call_uuid,
                         msg_key |-> NoKey,
                         call_seq |-> outbox[e].call_seq]

MessageOf(e) == [event_id |-> e,
                 attempt |-> outbox[e].attempts,
                 call_uuid |-> outbox[e].call_uuid,
                 msg_key |-> outbox[e].msg_key,
                 call_seq |-> outbox[e].call_seq]

Logged(m) == \E p \in Partition : \E i \in DOMAIN log[p] : log[p][i] = m

-----------------------------------------------------------------------------
(* start *)

StartOpen ==
    /\ lifecycle = "free"
    /\ pc = "none"
    /\ ~running
    /\ turn <= CalmTurn
    /\ Open
    /\ lifecycle' = "opened"
    /\ UNCHANGED <<accept, running, rebuild, failed, worker, broker, admitted, bounds>>

StartRequeue ==
    /\ lifecycle = "opened"
    /\ \E now \in Time : RequeueInFlight(now)
    /\ lifecycle' = "requeued"
    /\ UNCHANGED <<accept, running, rebuild, failed, worker, broker, admitted, bounds>>

\* requeue_in_flight or create_producer_unlocked failed.
StartAbort ==
    /\ lifecycle \in {"opened", "requeued"}
    /\ Close
    /\ lifecycle' = "free"
    /\ UNCHANGED <<accept, running, rebuild, failed, worker, broker, admitted, bounds>>

\* The producer exists and the worker thread begins.
StartRun ==
    /\ lifecycle = "requeued"
    /\ running' = TRUE
    /\ accept' = TRUE
    /\ rebuild' = FALSE
    /\ failed' = FALSE
    /\ pc' = "top"
    /\ lifecycle' = "free"
    /\ UNCHANGED <<obvars, loop_now, due, broker, admitted, bounds>>

-----------------------------------------------------------------------------
(* stop *)

StopBeginKeepsRunning ==                                           \* mutant
    /\ lifecycle = "free"
    /\ accept' = FALSE
    /\ lifecycle' = "stop"
    /\ UNCHANGED <<obvars, running, rebuild, failed, worker, broker, admitted, bounds>>

StopBegin ==
    /\ lifecycle = "free"
    /\ accept' = FALSE
    /\ running' = FALSE
    /\ lifecycle' = "stop"
    /\ UNCHANGED <<obvars, rebuild, failed, worker, broker, admitted, bounds>>

\* The worker has been joined: destroy the producer and close the outbox.
StopJoin ==
    /\ lifecycle = "stop"
    /\ pc \in {"none", "done"}
    /\ pc' = "none"
    /\ outstanding' = {}
    /\ IF opened THEN Close ELSE UNCHANGED obvars
    /\ lifecycle' = "free"
    /\ UNCHANGED <<accept, running, rebuild, failed, loop_now, due, wire, log,
                   admitted, bounds>>

-----------------------------------------------------------------------------
(* enqueue: the test of accept_ and the commit are separate steps *)

EnqueueBegin ==
    /\ lifecycle = "free"
    /\ accept
    /\ lifecycle' = "enqueue"
    /\ UNCHANGED <<obvars, accept, running, rebuild, failed, worker, broker, admitted, bounds>>

\* enqueue's own test of its arguments, before the outbox sees them.
SequenceSupplied(rec) ==
    RequireSource /\ rec.call_uuid # Ungrouped => rec.call_seq >= 0

EnqueueCommit(e, rec, now) ==
    /\ lifecycle = "enqueue"
    /\ e \notin DOMAIN admitted
    /\ rec.call_uuid \in CallChoice[e]
    /\ SequenceSupplied(rec)
    /\ InsertPending(e, rec, now)
    /\ admitted' = [d \in DOMAIN admitted \cup {e} |->
                      IF d = e
                      THEN [call_uuid |-> rec.call_uuid, msg_key |-> rec.msg_key,
                            call_seq |-> NewRow(rec, now).call_seq]
                      ELSE admitted[d]]
    /\ lifecycle' = "free"
    /\ UNCHANGED <<accept, running, rebuild, failed, worker, broker, bounds>>

\* The arguments, the outbox or the storage refuse: the caller gets false.
EnqueueRefused ==
    /\ lifecycle = "enqueue"
    /\ lifecycle' = "free"
    /\ UNCHANGED <<obvars, accept, running, rebuild, failed, worker, broker, admitted, bounds>>

-----------------------------------------------------------------------------
(* request_rebuild, callable from any thread *)

RequestRebuild ==
    /\ ~rebuild
    /\ turn <= CalmTurn
    /\ rebuild' = TRUE
    /\ UNCHANGED <<obvars, accept, running, lifecycle, failed, worker, broker, admitted, bounds>>

-----------------------------------------------------------------------------
(* worker_loop *)

FailStopStillAccepts ==                                            \* mutant
    /\ running' = FALSE
    /\ failed' = TRUE
    /\ pc' = "exit"
    /\ UNCHANGED accept

\* The catch clause of worker_loop.
FailStop ==
    /\ accept' = FALSE
    /\ running' = FALSE
    /\ failed' = TRUE
    /\ pc' = "exit"

WorkerTop ==
    /\ pc = "top"
    /\ pc' = IF ~running THEN "exit" ELSE IF rebuild THEN "rebuild" ELSE "check"
    /\ rebuild' = IF running THEN FALSE ELSE rebuild
    /\ UNCHANGED <<obvars, accept, running, lifecycle, failed, loop_now, due,
                   broker, admitted, bounds>>

WorkerRebuildNoRequeue ==                                          \* mutant
    /\ pc = "rebuild"
    /\ outstanding' = {}
    /\ pc' = "check"
    /\ UNCHANGED <<obvars, control, loop_now, due, wire, log, admitted, bounds>>

WorkerRebuildKeepsReports ==                                       \* mutant
    /\ pc = "rebuild"
    /\ \E now \in Time : RequeueInFlight(now)
    /\ pc' = "check"
    /\ UNCHANGED <<control, loop_now, due, broker, admitted, bounds>>

\* rebuild_producer after purge and flush: the old producer is destroyed, with
\* it every report it still owed, and its rows become pending again.
WorkerRebuild ==
    /\ pc = "rebuild"
    /\ outstanding' = {}
    /\ \E now \in Time : RequeueInFlight(now)
    /\ pc' = "check"
    /\ UNCHANGED <<control, loop_now, due, wire, log, admitted, bounds>>

\* The requeue fails, or it commits and the new producer cannot be created.
WorkerRebuildFails ==
    /\ pc = "rebuild"
    /\ faults < MaxFaults
    /\ faults' = faults + 1
    /\ outstanding' = {}
    /\ UNCHANGED obvars \/ \E now \in Time : RequeueInFlight(now)
    /\ FailStop
    /\ UNCHANGED <<rebuild, lifecycle, loop_now, due, wire, log, admitted, crashes>>

\* running_ is read again: a report in the flush of a rebuild may have cleared it.
WorkerCheck ==
    /\ pc = "check"
    /\ pc' = IF running THEN "expire" ELSE "exit"
    /\ UNCHANGED <<obvars, control, loop_now, due, broker, admitted, bounds>>

WorkerExpire ==
    /\ pc = "expire"
    /\ \E now \in Time : loop_now' = now /\ ExpireTtl(now)
    /\ pc' = "fetch"
    /\ UNCHANGED <<control, due, broker, admitted, bounds>>

WorkerFetch ==
    /\ pc = "fetch"
    /\ due' \in FetchDue(loop_now, FetchLimit)
    /\ pc' = "send"
    /\ UNCHANGED <<obvars, control, loop_now, broker, admitted, bounds>>

\* The batch is empty or abandoned.
WorkerBatchDone ==
    /\ pc = "send"
    /\ due = <<>> \/ ~running \/ rebuild
    /\ due' = <<>>
    /\ pc' = "poll"
    /\ UNCHANGED <<obvars, control, loop_now, broker, admitted, bounds>>

\* The next row of the batch, which is as old as the fetch.  The loop's test of
\* running_ and rebuild_requested_ is one step with the transaction after it:
\* whoever sets them in between touches nothing the transaction reads.
Sending == pc = "send" /\ due # <<>> /\ running /\ ~rebuild

WorkerMark ==
    /\ Sending
    /\ MarkInFlight(Head(due))
    /\ pc' = "produce"
    /\ UNCHANGED <<control, loop_now, due, broker, admitted, bounds>>

WorkerMarkRefused ==
    /\ Sending
    /\ ~CanMarkInFlight(Head(due))
    /\ FailStop
    /\ UNCHANGED <<obvars, rebuild, lifecycle, loop_now, due, broker, admitted, bounds>>

WorkerProduce ==
    /\ pc = "produce"
    /\ outstanding' = outstanding \cup {MessageOf(Head(due))}
    /\ wire' = wire \cup {MessageOf(Head(due))}
    /\ due' = Tail(due)
    /\ pc' = "send"
    /\ UNCHANGED <<obvars, control, loop_now, log, admitted, bounds>>

\* The errors no retry can cure.
IsPermanentError(err) ==
    err \in {"TOPIC_AUTHORIZATION_FAILED", "CLUSTER_AUTHORIZATION_FAILED",
            "INVALID_MSG", "MSG_SIZE_TOO_LARGE", "INVALID_RECORD"}

SettleSendFailureByAck(e, err) ==                                  \* mutant
    IF IsPermanentError(err)
    THEN \E now \in Time : MarkAcked(e, now)
    ELSE \E next \in Time : MarkRetry(e, next)

\* settle_send_failure on a row that is in flight.  The next attempt is due at
\* a reading of the clock plus attempt_backoff_ms: some member of Time.
SettleSendFailure(e, err) ==
    IF IsPermanentError(err) \/ outbox[e].attempts >= MaxAttempts
    THEN MarkDead(e)
    ELSE \E next \in Time : MarkRetry(e, next)

WorkerProduceFails(err) ==
    /\ pc = "produce"
    /\ rebuild' = (rebuild \/ err = "FATAL")
    /\ due' = Tail(due)
    /\ IF InFlight(Head(due))
       THEN /\ SettleSendFailure(Head(due), err)
            /\ pc' = "send"
            /\ UNCHANGED <<accept, running, failed>>
       ELSE FailStop /\ UNCHANGED obvars
    /\ UNCHANGED <<lifecycle, loop_now, broker, admitted, bounds>>

WorkerPollDone ==
    /\ pc = "poll"
    /\ pc' = "top"
    /\ UNCHANGED <<obvars, control, loop_now, due, broker, admitted, bounds>>

\* The flushes after the loop are over; what is still owed stays unreported.
WorkerExit ==
    /\ pc = "exit"
    /\ pc' = "done"
    /\ due' = <<>>
    /\ UNCHANGED <<obvars, control, loop_now, broker, admitted, bounds>>

\* expire_ttl, fetch_due, mark_in_flight or the settling of a failed produce
\* hits a storage error; the transaction is rolled back and the loop ends.
WorkerStorageFails ==
    /\ pc \in {"expire", "fetch", "produce"} \/ Sending
    /\ faults < MaxFaults
    /\ faults' = faults + 1
    /\ FailStop
    /\ UNCHANGED <<obvars, rebuild, lifecycle, loop_now, due, broker, admitted, crashes>>

-----------------------------------------------------------------------------
(* on_delivery, on the worker thread *)

Polling == pc \in {"poll", "rebuild", "exit"}

ReportRefusedGoesOn ==                                             \* mutant
    /\ UNCHANGED <<obvars, accept, running>>
    /\ failed' = TRUE

\* The durable transition was refused: stop accepting, stop the loop.
ReportRefused ==
    /\ UNCHANGED obvars
    /\ accept' = FALSE
    /\ running' = FALSE
    /\ failed' = TRUE

DeliveryOk(m) ==
    /\ Polling
    /\ m \in outstanding
    /\ Logged(m)
    /\ outstanding' = outstanding \ {m}
    /\ IF CanAck(m.event_id)
       THEN /\ \E now \in Time : MarkAcked(m.event_id, now)
            /\ UNCHANGED <<accept, running, failed>>
       ELSE ReportRefused
    /\ UNCHANGED <<rebuild, lifecycle, worker, wire, log, admitted, bounds>>

\* The message may have been appended all the same, or be appended later.
DeliveryError(m, err) ==
    /\ Polling
    /\ m \in outstanding
    /\ outstanding' = outstanding \ {m}
    /\ rebuild' = (rebuild \/ err = "FATAL")
    /\ IF InFlight(m.event_id)
       THEN /\ SettleSendFailure(m.event_id, err)
            /\ UNCHANGED <<accept, running, failed>>
       ELSE ReportRefused
    /\ UNCHANGED <<lifecycle, worker, wire, log, admitted, bounds>>

\* The storage fails inside the callback.  mark_* report it; an exception of
\* get() crosses librdkafka's C frames, which may as well end up in the catch
\* clause of worker_loop (or kill the process: Crash).
DeliveryStorageFails(m) ==
    /\ Polling
    /\ m \in outstanding
    /\ faults < MaxFaults
    /\ faults' = faults + 1
    /\ outstanding' = outstanding \ {m}
    /\ ReportRefused
    /\ pc' \in {pc, "exit"}
    /\ UNCHANGED <<rebuild, lifecycle, loop_now, due, wire, log, admitted, crashes>>

-----------------------------------------------------------------------------
(* The broker (external) *)

\* Keyed records go to the key's partition, others anywhere.
Target(m) == IF m.msg_key = NoKey THEN Partition ELSE {PartitionOf[m.msg_key]}

\* Without idempotence librdkafka's own retries may append a message again.
BrokerAppend(m, p) ==
    /\ m \in wire
    /\ p \in Target(m)
    /\ Len(log[p]) < MaxLog
    /\ log' = [log EXCEPT ![p] = Append(@, m)]
    /\ wire' = IF Idempotence THEN wire \ {m} ELSE wire
    /\ UNCHANGED <<obvars, control, worker, outstanding, admitted, bounds>>

-----------------------------------------------------------------------------
(* The process dies; the operator works on the closed database *)

Crash ==
    /\ opened
    /\ crashes < MaxCrashes
    /\ crashes' = crashes + 1
    /\ Close
    /\ accept' = FALSE /\ running' = FALSE /\ rebuild' = FALSE /\ failed' = FALSE
    /\ lifecycle' = "free"
    /\ pc' = "none"
    /\ due' = <<>>
    /\ outstanding' = {}
    /\ UNCHANGED <<loop_now, wire, log, admitted, faults>>

\* A tool built on Outbox opens the database to retry dead rows.
OperatorOpen ==
    /\ lifecycle = "free"
    /\ pc = "none"
    /\ Open
    /\ lifecycle' = "operator"
    /\ UNCHANGED <<accept, running, rebuild, failed, worker, broker, admitted, bounds>>

OperatorRetryDead(e, now) ==
    /\ lifecycle = "operator"
    /\ RetryDead(e, now)
    /\ UNCHANGED <<control, worker, broker, admitted, bounds>>

OperatorClose ==
    /\ lifecycle = "operator"
    /\ Close
    /\ lifecycle' = "free"
    /\ UNCHANGED <<accept, running, rebuild, failed, worker, broker, admitted, bounds>>

OperatorRetire(c) ==
    /\ Retire(c)
    /\ UNCHANGED <<control, worker, broker, admitted, bounds>>

-----------------------------------------------------------------------------
PipelineInit ==
    /\ OutboxInit
    /\ accept = FALSE /\ running = FALSE /\ rebuild = FALSE /\ failed = FALSE
    /\ lifecycle = "free"
    /\ pc = "none"
    /\ loop_now \in Time
    /\ due = <<>>
    /\ outstanding = {}
    /\ wire = {}
    /\ log = [p \in Partition |-> <<>>]
    /\ admitted = [e \in {} |-> {}]
    /\ faults = 0
    /\ crashes = 0

Lifecycle ==
    \/ StartOpen \/ StartRequeue \/ StartAbort \/ StartRun
    \/ StopBegin \/ StopJoin

Enqueue ==
    \/ EnqueueBegin
    \/ EnqueueRefused
    \/ \E e \in EventId, rec \in Request, now \in Time : EnqueueCommit(e, rec, now)

WorkerLoop ==
    \/ WorkerTop \/ WorkerRebuild \/ WorkerCheck \/ WorkerExpire \/ WorkerFetch
    \/ WorkerBatchDone \/ WorkerMark \/ WorkerMarkRefused
    \/ WorkerProduce \/ \E err \in ErrorCode : WorkerProduceFails(err)
    \/ WorkerPollDone \/ WorkerExit

OnDelivery(m) ==
    DeliveryOk(m) \/ \E err \in ErrorCode : DeliveryError(m, err)

Failure ==
    \/ WorkerRebuildFails
    \/ WorkerStorageFails
    \/ \E m \in outstanding : DeliveryStorageFails(m)
    \/ Crash

Operator ==
    \/ OperatorOpen
    \/ OperatorClose
    \/ \E e \in EventId, now \in Time : OperatorRetryDead(e, now)
    \/ \E c \in Call : OperatorRetire(c)

PipelineNext ==
    \/ Lifecycle
    \/ Enqueue
    \/ RequestRebuild
    \/ WorkerLoop
    \/ \E m \in outstanding : OnDelivery(m)
    \/ \E m \in wire, p \in Partition : BrokerAppend(m, p)
    \/ Failure
    \/ Operator

PipelineSpec == PipelineInit /\ [][PipelineNext]_pvars

(***************************************************************************)
(* Fairness.  The worker thread is scheduled.  Whoever is inside a section *)
(* of lifecycle_mu_ leaves it.  message.timeout.ms makes librdkafka report *)
(* on every message sooner or later, but the report is served only in the  *)
(* worker's polls, which come and go: strong fairness.  Calls of           *)
(* request_rebuild from outside end (the module makes none; each one cuts  *)
(* the current batch short).  Nothing obliges a caller, the operator, the  *)
(* broker or a fault.                                                      *)
(***************************************************************************)
PipelineFairness ==
    /\ WF_pvars(WorkerLoop)
    /\ WF_pvars(StartRequeue \/ StartAbort \/ StartRun)
    /\ WF_pvars(StopJoin)
    /\ WF_pvars(lifecycle = "enqueue" /\ Enqueue)
    /\ SF_pvars(\E m \in outstanding : OnDelivery(m))
    /\ <>[][~RequestRebuild]_pvars

FairPipelineSpec == PipelineSpec /\ PipelineFairness

-----------------------------------------------------------------------------
(* Correctness *)

\* The promise of strict per-call order, for what a consumer sees: the first
\* record of an ordinal comes after a record of every smaller ordinal of its
\* call, in the same partition, whatever was retried, purged by a rebuild,
\* duplicated by the broker or left over by a crashed process.
FirstOccurrenceOrder ==
    \A p \in Partition : \A i \in DOMAIN log[p] :
        log[p][i].call_uuid # Ungrouped =>
            \A n \in 0 .. log[p][i].call_seq - 1 :
                \E j \in 1 .. i - 1 : /\ log[p][j].call_uuid = log[p][i].call_uuid
                                     /\ log[p][j].call_seq = n

\* An accepted event of a call is stored until the broker has it: no crash,
\* rebuild, expiry, capacity pressure or operator action loses it.
AcceptedNeverLost ==
    \A e \in DOMAIN admitted :
        admitted[e].call_uuid # Ungrouped =>
            \/ e \in DOMAIN outbox
            \/ \E p \in Partition : \E i \in DOMAIN log[p] : log[p][i].event_id = e

\* A record carries the call, the key and the ordinal its event was admitted
\* with, however often and by whichever process it was sent.
RecordsAsAdmitted ==
    \A p \in Partition : \A i \in DOMAIN log[p] :
        LET m == log[p][i] IN
        /\ m.event_id \in DOMAIN admitted
        /\ admitted[m.event_id] = [call_uuid |-> m.call_uuid, msg_key |-> m.msg_key,
                                   call_seq |-> m.call_seq]

\* Every report the producer still owes is about a row in flight in the very
\* attempt that was sent, so a late report cannot settle a later attempt.
ReportsMatchRows ==
    \A m \in outstanding :
        /\ m.event_id \in DOMAIN outbox
        /\ outbox[m.event_id].state = "in_flight"
        /\ outbox[m.event_id].attempts = m.attempt

\* No row is stuck in flight: while the worker loops, an in-flight row is the
\* one about to be produced, or a report on it is still to come.
InFlightIsOwned ==
    /\ running
    /\ pc \in {"top", "check", "expire", "fetch", "send", "produce", "poll"}
    => \A e \in DOMAIN outbox :
         outbox[e].state = "in_flight" =>
             \/ pc = "produce" /\ e = Head(due)
             \/ \E m \in outstanding : m.event_id = e

\* The batch fetched at the start of a round is still sendable when its turn
\* comes: concurrent admissions and reports never make mark_in_flight refuse,
\* so the pipeline stops by itself only for a storage failure or when the
\* scheduler's turns are used up.
FailsOnlyForCause == failed => faults > 0 \/ turn = MaxInt64

\* After a state error nothing new is sent and no enqueue gets past its test of
\* accept_: the one that is under way when the worker fails may still commit, and
\* after it nothing is admitted until the pipeline is started again.
StopsAfterFailure ==
    [][failed /\ failed' =>
         /\ outstanding' \subseteq outstanding
         /\ lifecycle # "enqueue" =>
              lifecycle' # "enqueue" /\ admitted' = admitted]_pvars

\* As docs/DESIGN.md has it: INVALID_RECORD is an ordinary error, so below the
\* attempt limit the row becomes pending again.
InvalidRecordIsRetried ==
    [][\A m \in outstanding :
         /\ DeliveryError(m, "INVALID_RECORD")
         /\ outbox[m.event_id].attempts < MaxAttempts
         => outbox'[m.event_id].state = "pending"]_pvars

\* stop() returns, wherever the worker is and whatever it still has in flight.
StopReturns == lifecycle = "stop" ~> lifecycle = "free"

\* While the pipeline runs, every event of a call admitted without source
\* numbers is acknowledged in the end, unless a dead head blocks its call: it is
\* retried, rebuilt and restarted through, and its successor after it.  Only
\* stop(), a crash or a failing store may end the wait before that; a pipeline
\* that stops itself, its turns used up by endless resending included, may not.
AdmittedSettles ==
    \A e \in EventId :
        /\ e \in DOMAIN outbox
        /\ outbox[e].call_uuid # Ungrouped
        /\ call_streams[outbox[e].call_uuid].mode = "admission"
        ~> \/ ~running /\ (failed => faults > 0)
           \/ e \notin DOMAIN outbox
           \/ \E d \in DOMAIN outbox : /\ outbox[d].call_uuid = outbox[e].call_uuid
                                       /\ outbox[d].state = "dead"

-----------------------------------------------------------------------------
(* The pipeline implements the abstract ordered topic *)

AcceptedEvents ==
    [c \in Call |-> {<<e, admitted[e].call_seq>> :
                       e \in {d \in DOMAIN admitted : admitted[d].call_uuid = c}}]

PublishedEvents ==
    [c \in Call |-> {x \in EventId \X (0 .. MaxInt64 - 1) :
                       \E p \in Partition : \E i \in DOMAIN log[p] :
                           /\ log[p][i].event_id = x[1]
                           /\ log[p][i].call_uuid = c
                           /\ log[p][i].call_seq = x[2]}]

Topic == INSTANCE OrderedTopic
           WITH Event <- EventId,
                Ordinal <- 0 .. MaxInt64 - 1,
                accepted <- AcceptedEvents,
                published <- PublishedEvents

\* Every step of the pipeline accepts one event under an ordinal of its own,
\* publishes the next one of a call, or leaves both as they are: commits, sends,
\* reports, crashes and restarts add up to the order docs/STRICT-CALL-ORDER.md
\* promises.
ImplementsOrderedTopic == Topic!TopicSpec
=============================================================================
