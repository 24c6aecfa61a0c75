---------------------------- MODULE ServiceOrder ----------------------------
(***************************************************************************)
(* How the worker shares its time between calls: worker_loop of            *)
(* src/src/kafka_pipeline.cpp fetches a batch and marks its rows in flight *)
(* one by one, while callers admit, reports settle rows and rebuilds       *)
(* requeue them.  The database is that of Outbox; the variable overtaken   *)
(* only observes who is served while whom waits.                           *)
(***************************************************************************)
EXTENDS Outbox, Sequences

CONSTANT Limit   \* rows of a batch, 32 in the code

ASSUME LimitIsPositive == Limit \in Nat \ {0}

VARIABLES
    batch,       \* due, the rows fetched and not yet marked
    overtaken    \* history: how often b was served while c waited

svars == <<obvars, batch, overtaken>>

\* The head of call c could be sent.
Waits(c) ==
    \E e \in DOMAIN outbox :
        outbox[e].call_uuid = c /\ outbox[e].state = "pending" /\ Deliverable(e)

\* After a step that serves nobody: who no longer waits starts anew.
Observe == overtaken' = [c \in Call |-> IF Waits(c)' THEN overtaken[c] ELSE [b \in Call |-> 0]]

StartOrStop ==
    /\ Open \/ Close
    /\ batch' = <<>>
    /\ Observe

\* enqueue, on any thread and at any time.
Admit(e, rec, now) ==
    /\ InsertPending(e, rec, now)
    /\ batch' = batch
    /\ Observe

FetchAnyOrder(now) ==                                              \* mutant
    /\ opened
    /\ batch = <<>>
    /\ \E e \in Due(now) : batch' = <<e>>
    /\ overtaken' = [c \in Call |->
                       IF \E e \in Due(now) : outbox[e].call_uuid = c
                       THEN overtaken[c] ELSE [b \in Call |-> 0]]
    /\ UNCHANGED obvars

\* A clock that was set back may leave out a row that was due before; its call
\* then does not wait.
Fetch(now) ==
    /\ opened
    /\ batch = <<>>
    /\ Due(now) # {}
    /\ batch' \in FetchDue(now, Limit)
    /\ overtaken' = [c \in Call |->
                       IF \E e \in Due(now) : outbox[e].call_uuid = c
                       THEN overtaken[c] ELSE [b \in Call |-> 0]]
    /\ UNCHANGED obvars

ExpireOld(now) ==
    /\ batch = <<>>
    /\ ExpireTtl(now)
    /\ batch' = batch
    /\ Observe

Overtakes(b, c) == IF b = outbox[Head(batch)].call_uuid THEN 1 ELSE 0

\* mark_in_flight of the next row of the batch.
Serve ==
    /\ batch # <<>>
    /\ MarkInFlight(Head(batch))
    /\ batch' = Tail(batch)
    /\ overtaken' = [c \in Call |->
                       IF Waits(c)' THEN [b \in Call |-> overtaken[c][b] + Overtakes(b, c)]
                       ELSE [b \in Call |-> 0]]

\* running_ or rebuild_requested_ ends the batch early.
CutShort ==
    /\ batch # <<>>
    /\ batch' = <<>>
    /\ UNCHANGED <<obvars, overtaken>>

\* A failure of the row just produced, or a report of a failure.
SettleFailure(e, now) ==
    /\ MarkRetry(e, now) \/ (InFlight(e) /\ MarkDead(e))
    /\ batch' = batch
    /\ Observe

\* Acknowledgements are served by poll, requeues by a rebuild, after the batch.
AfterBatch(e, now) ==
    /\ batch = <<>>
    /\ MarkAcked(e, now) \/ RequeueInFlight(now)
    /\ batch' = batch
    /\ Observe

\* An operator's tools, while no worker runs.
Operate(e, c, now) ==
    /\ batch = <<>>
    /\ RetryDead(e, now) \/ Retire(c)
    /\ batch' = batch
    /\ Observe

ServiceInit ==
    /\ OutboxInit
    /\ batch = <<>>
    /\ overtaken = [c \in Call |-> [b \in Call |-> 0]]

ServiceNext ==
    \/ StartOrStop
    \/ \E e \in EventId, rec \in Request, now \in Time : Admit(e, rec, now)
    \/ \E now \in Time : Fetch(now) \/ ExpireOld(now)
    \/ Serve
    \/ CutShort
    \/ \E e \in EventId, now \in Time : SettleFailure(e, now) \/ AfterBatch(e, now)
    \/ \E e \in EventId, c \in Call, now \in Time : Operate(e, c, now)

ServiceSpec == ServiceInit /\ [][ServiceNext]_svars

-----------------------------------------------------------------------------
(* Correctness *)

\* No call is pushed aside by a busy one: while a call waits with a row that is
\* due, every other call is served at most once, whatever the ages of their rows,
\* retries, rebuilds, restarts and the batches cut short.
OvertakenOnce == \A b, c \in Call : overtaken[c][b] <= 1
=============================================================================
