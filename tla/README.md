# A TLA+ verification of mod_event_kafka

mod_event_kafka publishes FreeSWITCH events to Kafka through a durable SQLite
outbox. This directory models the FreeSWITCH adapter, the delivery pipeline, the
outbox, the worker's schedule, the offline tool and the bounded queue, checks them
with TLC on small instances, and proves their safety properties with TLAPS for
every value of the constants. `PROJECT.json` lists runs, mutants, theorems,
hazards and, for every definition that models code, the source lines.

## The system

| Part | State | Operations | Interacts with |
|---|---|---|---|
| Durable outbox, `src/src/kafka_outbox.cpp` | tables `outbox`, `call_streams`, `retired_calls`, `order_scheduler`; the `.lock` file | `open`, `close`, `insert_pending`, `fetch_due`, `mark_in_flight`, `mark_acked`, `mark_retry`, `mark_dead`, `retry_dead`, `requeue_in_flight`, `expire_ttl` | called by the pipeline and by tools; one mutex and one transaction per call |
| Delivery pipeline, `src/src/kafka_pipeline.cpp` | `accept_`, `running_`, `rebuild_requested_`, `worker_`, the producer | `start`, `stop`, `enqueue`, `request_rebuild`, `worker_loop`, `on_delivery` | callers' threads against one worker thread; reports run on the worker inside poll and flush |
| librdkafka and the broker (external) | queued and in-flight requests, partitions | append, acknowledge, fail, time out | produce calls and delivery reports |
| Offline operations, `src/scripts/outbox_ops.py` | a staged copy of a closed database, the output path | `migrate`, `retire`, `inspect` | takes the `.lock` file; never beside a running module; the administrator adopts the output |
| FreeSWITCH adapter, `src/mod_event_kafka.cpp` | `globals`, the static `profile`, the publisher and its event bindings | load, event handler, shutdown | `start`, `stop` and `enqueue` (source sequence -1) of the pipeline; FreeSWITCH's binding lock (external) |
| Bounded queue, `src/include/bounded_queue.hpp` | a deque, a mutex, a condition variable | `try_push`, `pop_wait_for_ms`, `notify_stop` | included by the pipeline, used by the tests |
| Verifier, fault proxy, lab | | | not on the delivery path |

What makes it correct, and what is hard:

* **Outbox.** Per call, a cursor (`next_seq`, `admit_seq`) and rows must agree
  after any sequence of transactions: only the head may be in flight, no ordinal
  is assigned or acknowledged twice, a row leaves only by acknowledgement, age
  counts only at the head, limits never cost an ordered event. Hard: two
  numbering modes, gaps, retirement, a clock that moves both ways, the end of
  the 64-bit range.
* **Pipeline.** Consumers must see the first occurrences of a call's ordinals in
  order, and nothing accepted may be lost. Hard: the broker may append a message
  of a purged producer or dead process at any later time; a batch is stale while
  it is sent; a rebuild races with reports; a durable transition can fail inside
  a callback; `stop` joins the worker under the mutex callers wait for.
* **Schedule.** A call that waits with a due head must not be pushed aside by a
  busy one. Hard: batches are fetched and served at different times, are cut short
  by rebuilds and stops, and turns must stay comparable across restarts, upgrades
  and clock changes.
* **Operations.** A retired call must stay retired; a published copy must be whole,
  current and never replaced; a migrated backlog must obey the rules of a database
  the module wrote itself. Hard: kills between any two system calls, power losses,
  two runs on one output path, a module that starts meanwhile, schema versions.
* **Adapter.** No handler may run on a destroyed publisher, no unload may leave
  a binding or the lock of the outbox behind, every load and unload must end. Hard:
  dispatch threads run handlers while the loading thread binds, stops, unbinds and
  destroys; the profile is static and survives loads; a load may fail half way.
* **Queue.** Events come out once and in order, and no consumer sleeps through a
  push. Hard: `notify_one`, timeouts, spurious wake-ups, `notify_stop` without the
  mutex.

## Modules

| Module | Contents |
|---|---|
| `Outbox` | the store: one atomic action per method, and `retire` |
| `KafkaPipeline` | extends `Outbox`: lifecycle, enqueue, worker, reports, broker, failures, operator |
| `OrderedTopic` | the abstract promise: accept ordinals, publish them in order |
| `ServiceOrder` | extends `Outbox`: fetching a batch and serving it row by row, with an account of who is served while whom waits |
| `OutboxOps` | extends `Outbox`: `open` with its upgrade, the tool's runs system call by system call, kills, power losses, adoption |
| `KafkaModule` | the adapter: configuration, load, bind, handlers, shutdown |
| `BoundedQueue` | the queue, step by step between lock, test and sleep |
| `OutboxProofs`, `PipelineProofs`, `OrderProofs`, `TopicProofs`, `ServiceProofs`, `OpsProofs`, `ModuleProofs`, `QueueProofs` | the theorems, see below |
| `MCOutbox`, `MCService`, `MCPipeline`, `MCOps`, `MCModule`, `MCQueue` | constants for TLC |

### Outbox

`outbox`, `call_streams` and `retired_calls` are functions from the primary key
to a row, `turn` is the row of `order_scheduler`, `opened` says whether a process
holds lock and connection. Every public method runs under one mutex as one
transaction that is rolled back on any exception, so it is one action whose guard
(`CanInsert`, `CanMarkInFlight`, `CanAck`, ...) is the conjunction of the
conditions under which the code does not throw. A row's `call_seq` is -1 where
the column is NULL, as `record()` reads it.

Abstractions. A call stands for a pair (topic, call_uuid). There is no clock
variable: each `wall_now_ms()` is any member of `Time`, which covers a clock set
back. Event identifiers are fresh. `rowid` is not kept, so `FetchDue` returns
rows with equal sort keys in any order. `last_error` keeps what the code tests.
`updated_at_ms` is written and never read. `record()` narrows `attempts` to an int
(`src/src/kafka_outbox.cpp:98`), which the model reads at full width: they differ
only after 2^31 sends of one row, each of them a durable transaction. `next_attempt_at_ms` of a new row is
its creation time because the only caller passes 0. The operator's `--max-rows`
is taken to be the module's `outbox_max_rows`.

### KafkaPipeline

`lifecycle` is the holder of `lifecycle_mu_` and how far it is; `pc` is the
worker's position; `due` and `loop_now` are its locals, so that a batch is as
stale as in the code. Each call into the outbox is one step. `outstanding` holds
the messages the live producer still owes a report on, `wire` what the broker may
still append: rebuild, stop and crash empty the first and leave the second.
`admitted`, `failed` are history variables. Two bounds keep an instance small
without touching the system: `CallChoice` says which calls an event may belong to,
`CalmTurn` is the last turn at which callers start the pipeline or ask for a rebuild.

* A storage call may fail at every place where the worker or the callback makes
  one (`WorkerStorageFails`, `WorkerRebuildFails`, `DeliveryStorageFails`); the
  transaction is then rolled back. `MaxFaults` bounds how often.
* `get()` in `settle_send_failure` may throw through librdkafka's C frames.
  Whether the exception reaches the catch clause of `worker_loop` is not defined
  by the language, so `DeliveryStorageFails` allows both that and the ordinary
  return; the death of the process is `Crash`.
* The backoff of a retry is an arbitrary member of `Time`.
* The test of `running_` and `rebuild_requested_` in the send loop is one step
  with `mark_in_flight`: whoever sets the flags in between touches nothing the
  transaction reads or writes.
* The broker appends a message once with idempotence, any number of times
  without, at any time after it was produced. A success report needs a record in
  the log; an error report may come whether or not there is one. Loss is a
  message that is never appended.

### OrderedTopic

`Accept(c, e, n)` gives a new event an ordinal of its own, `Publish(c, e, n)` makes it visible
when every smaller one is. The refinement maps `accepted` to the events of
`admitted` and `published` to those found in the log. Duplicates are
stuttering steps.

### ServiceOrder

`batch` is the worker's list `due`; `Fetch` and `Serve` are `fetch_due` and the
`mark_in_flight` of its next row, and between them callers admit, rows fail, the
batch is cut short, the process stops or dies. `overtaken[c][b]` counts how often
`b` was served while `c` waited with a head that could be sent; it influences
nothing. It is a smaller model than `KafkaPipeline` (no producer, no broker), which
leaves room for two calls, three events and a clock that lets the TTL elapse.
Acknowledgements and requeues come after the batch, as `poll` and `rebuild` do;
failures also within it, when `producev` refuses a row.

### OutboxOps

The variables of `Outbox` are the database at the module's path, with `schema` its
version and whether the columns of ordinals and the scheduler exist. A run of the
tool is a process: lock, backup, transaction, fsync, link, fsync of the directory,
end. `stage[r]` is its file with what it was copied from. `Killed` is the end of
the process at any point, `PowerLoss` kills everything, tears what was not synced
and may drop a directory entry that was not. `Result` is the whole effect of a
command on a copy, or nothing where it refuses. `OpenUpgrade` is `open()` on any
version. The databases it may start from are those some version of the module has
written (`WrittenByModule`): before ordinals existed there were no cursors, fences
or stamps, and any backlog; since then rows and cursors are in step. `Adopt` is the
administrator's part: the module is pointed at an output
whose directory entry is on disk, with every writer stopped since the copy, as
`docs/OUTBOX-OPERATIONS.md` demands. SQLite's own commits are trusted on the
module's database; of the staged copy only the tool's fsync counts. The audit
record the tool writes is left out.

### KafkaModule

`loader` is where the one thread is that loads and unloads modules, `slot` its loop
variable. `LoadConfig` and `PipelineConfig` are the configuration code with the
values that matter: absent, empty, zero, negative, unreadable. `subs`, `ids`,
`nodes` are the static profile, which survives a load that FreeSWITCH does not
unmap. A handler runs under FreeSWITCH's read lock, binding and unbinding wait for
all of them (external, `NoHandlerRuns`). The pipeline is reduced to `accept_`,
`lifecycle_mu_` and whether it has the outbox open; that `stop` returns is
`StopReturns` of `KafkaPipeline`. `leaked` remembers publishers destroyed because a
bind failed: their earlier bindings stay, with a pointer to what is gone, and the
safety properties say exactly that this is the only exception. The comparison with
a destroyed string in the bind loop is a nondeterministic choice.

### BoundedQueue

A section of the mutex is one step, except that a consumer keeps the mutex between
its test and its sleep, because `notify_stop` does not take it. `pushed`, `popped`
and `attempts` are history.

## Runs

| Run | Instance | What it checks |
|---|---|---|
| `outbox_order` | 3 events, 2 calls, 2 keys, all ordinals and turns up to 3 | types and range, window, head of line, no hole, fence, turns, `open` accepts, cursor moves by acknowledgement |
| `service_order` | 3 events, 2 calls, batches of 2, clock readings {0, 2}, TTL 1, 2 rows, 2 bytes, payloads of 2 and 1 | no call is overtaken twice, age exactly while deliverable, only heads die, capacity, rows leave only when settled, identity |
| `pipeline_recovery` | 2 events, both modes, idempotence off, 1 crash | order of first occurrences, no loss, records as admitted, refinement of `OrderedTopic` |
| `pipeline_failstop` | 2 events, source mode required, 1 storage or producer failure | reports match rows, in-flight rows are owned, stops only for cause, after a failure nothing is sent and no enqueue begins |
| `pipeline_live` | 2 events of a call, admission mode, 1 crash, 1 storage failure, restarts and rebuilds up to the second send, fairness | `stop` returns, admitted events settle |
| `ops` | 10 stored databases of versions 0 to 6, 2 runs on one path, 1 power loss, 1 transaction of the module | published output is whole, current, durable and never replaced; upgraded and migrated databases obey the outbox's invariants; adoption is retirement; the lock is released |
| `module_lifecycle` | 2 dispatch threads, 2 slots, 2 loads, 3 configuration files | handlers meet no destroyed publisher, nothing left behind, commits into an open outbox, profile exact, configuration usable, load and unload end |
| `queue_wake` | 3 consumers, depth 2, 4 pushes | events conserved, no lost wake-up, `pop_wait_for_ms` returns |
| `invalid_record`, `module_filter`, `module_defaults`, `queue_stop` | violations | statements of documents and tests, see below |

Why the bounds are enough. Two events of one call are the least that order,
head-of-line blocking and promotion need, and three let a gap, a row without a
call or a second call stand beside them. In the safety runs `MaxInt64` of 2 or 3
makes the top of the range reachable, so the overflow guards are exercised and the
turns bound the number of sends: three sends allow a send, a retry and a successor,
and the theorems take the bound away. A liveness property would be satisfied by
such a bound, so `pipeline_live` has turns to spare: after `CalmTurn` = 2 each of the
two events needs at most `MaxAttempts` = 2 sends, which makes 6, and `MaxInt64` is 7.
`AdmittedSettles` does not accept a pipeline that stopped itself for want of turns,
so that the run also shows that they never run out; with the attempt limit of
`settle_send_failure` taken away they do, and TLC reports it (seen on the same
instance with `CalmTurn` = 2, `MaxInt64` = 6, `MaxLog` = 2 and no storage failure).
Both events are of a call there; rows of other calls or of none compete for places
in a batch, which `service_order` is about. `MaxAttempts`
of 2 allows both a retry and a dead letter. Two clock readings further apart than
the TTL, in any order, give both expiry and rollback. `MaxLog` of 3 holds two
events and a duplicate. One crash or one fault in every possible place is the
hazard; the actions after it are those of a fresh start. With three turns in
`service_order` a busy call could be served twice while the other waits, and it is
under the mutant that fetches in another order. In `ops` the databases are chosen
one per case of the code: a backlog of equal age, one of different ages with a dead
row and a row without a call, one the tool must refuse because a call has two keys, an empty
one, ordered ones of each version with a waiting successor and a settled call, one
that is settled altogether, and versions to come with and without ordinals, which
module and tool must refuse. The one transaction of the module is any of those of
`Outbox`; more of them are the business of the proofs. Two runs are what it takes to
race for lock and path; a second load in `module_lifecycle` meets what the first
has left; three consumers let one sleep, one be awake and one take the event.
Symmetry is used over interchangeable events, calls and keys, and never in a run
with a liveness property.

Deadlock is checked where the system can always go on. It is switched off in
`service_order` (turns and events are used up), `ops` (every run has ended and the
module's work is bounded) and the runs on the adapter (the loads are bounded).

### Fairness

`pipeline_live`. The worker thread is scheduled (weak fairness of its steps). A section of
`lifecycle_mu_` is left by its holder: the steps of `start`, of `enqueue` and the
join of `stop` are weakly fair. `message.timeout.ms` makes librdkafka report on
every message in the end, but the reports are served only while the worker polls,
which comes and goes: strong fairness of `OnDelivery`. `request_rebuild` from
outside is assumed to end, since each call abandons the current batch; inside the
module only fatal errors call it, and those are limited by the attempts of the
rows. Nothing is assumed of callers, the operator, the broker's appends or
faults. The property speaks of admission mode: with source numbers a gap may
legitimately wait for ever. An owner who stops the pipeline, a crash and a failing
store end the wait, and a restart begins it anew: what is still stored then must
settle in the new run of the pipeline.

`module_lifecycle`. A thread inside load, shutdown or a handler goes on. A mutex is
granted in the end to whoever keeps asking while others come and go: strong
fairness of `stop` and of a handler's steps. FreeSWITCH's write lock is not assumed
to prefer writers, so binding and unbinding need moments without a handler, which
`[]<>NoHandlerRuns` states; with handlers that overlap for ever the unload would
not end. `queue_wake`: a consumer that tested goes to sleep, and its timeout comes
and gets the mutex that others share (strong). `ops`: a run that is neither killed
nor finished makes its next system call (weak); kills need no fairness.

### Documents that disagree with the code

* `invalid_record`: `is_permanent_error` lists `INVALID_RECORD`
  (`src/src/kafka_pipeline.cpp:262`), so the first such report dead-letters the
  row; `docs/DESIGN.md:28` says it is not listed as permanent.
* `module_filter`: the name every filter entry is compared with belongs to a
  temporary string (`src/mod_event_kafka.cpp:211`), so a legal event name may be
  bound as a custom event; `event_kafka.conf.xml:10` promises a filter of legal
  event names.
* `module_defaults`: the status of `load_config` is ignored
  (`src/mod_event_kafka.cpp:109`), so with an unreadable file age limit and
  idempotence are off; `docs/DESIGN.md:42` and `:44` give other defaults.
* `queue_stop`: `notify_stop` may fall between a consumer's test and its sleep
  (`src/include/bounded_queue.hpp:48`); `tests/test_outbox.cpp:129` has it end the
  blocking. `PopReturns` shows that the timeout bounds the harm.

Met while reading, without a run: `enqueue` returns after the SQLite commit
(`src/src/kafka_pipeline.cpp:67`) where `docs/DESIGN.md:16` says the callback does
not wait for it, and `README.md:5` and `docs/RELIABILITY.md:6` describe the same
former in-memory queue; `docs/DESIGN.md:17` names a separate poll thread where the
worker polls; `docs/RELIABILITY.md` has `fetch_due` sort by call and creation time
where it sorts by last served turn, creation time and rowid. A filter name that
FreeSWITCH does not know is bound to whatever an earlier load left in its slot;
no document says what should happen.

## Proofs

Assumptions are those of the ASSUMEs of the modules. In `Outbox`: the empty
call and the empty key are not members of `Call` and `Key`, NULL is not an
integer, times are integers, limits are natural numbers, the largest integer is
positive, callers pass -1 or a representable ordinal. `EventId`, `Call` and the
limits are otherwise arbitrary, finite or not. `ServiceOrder` adds that a batch has
room for a row; `OutboxOps` that identifiers are totally ordered and that the
stored databases are finite and have the columns the tool sorts by, and that the row
limit and the number of transactions fit 64 bits; `KafkaModule`
that a filter fits its slots; `BoundedQueue` that there are finitely many
consumers.

**`OutboxProofs`.** The invariants are not inductive one by one. Acknowledging
the head keeps the window only if ordinals are unique; promotion stamps the right
row only if the head is the one in flight; retirement keeps the fence only
because a call with equal cursors has no row. `OutboxInv` is their conjunction
with two more parts: `CursorOrder` (`next_seq` never exceeds `admit_seq`, which
keeps the increment of `mark_acked` in range) and `AttemptsWithinTurn` (no row was
tried more often than the scheduler has turned, which is what bounds `attempts`,
a counter that has no guard of its own). There is one lemma per action; admission
is split into rows with and without a call. Most lemmas have two layers: `OutboxCore`
is the part of the invariant that a database upgraded from an older version has
too, and the rest (no row tried more often than there were turns, turns distinct,
only heads in flight) is added on top. From `OutboxInvariant` follow type
correctness, head-of-line blocking, the window, the absence of holes, exact
aging, final retirement, distinct turns and acceptance by `open`; the three action
properties follow from the invariant and a case split on the step.

`LimitsHold` is about cardinalities and the sum of payload sizes. The sum is the
library's fold over a set, for which the prover knows no induction; what is needed
of it (it is a natural number, and removing or adding a row changes it by that row's
size) is proved by a smallest counterexample: the subsets of a finite set for which
the fact fails would have a minimal member, and taking the chosen element out of it
gives a smaller one (`SmallestOf`, from the well-founded order on finite subsets).
`CapacityInv` adds finiteness of the three tables. The step that matters is
`InsertFits`: the room is tested on the rows that are left after dead rows were
given up, and it is those rows the new one is put beside.

**`PipelineProofs`.** Every action of the pipeline is shown to be one action of
the outbox or to leave the database alone, hence `PipelineSpec => OutboxSpec`
and every theorem on the outbox holds under the pipeline, its callbacks, failures,
crashes and the operator's tools; `PipelineStaysWithinLimits` is one.

The invariants on reports and rows in flight hold each other up in `DeliveryInv`. A
report that is owed is about the current attempt (`ReportsMatchRows`) because a row
leaves its flight only by that report or by a requeue, which runs when the producer
and its reports are gone; and because no row has two (`OneReportEach`). A row in
flight is owned (`InFlightIsOwned`) because the worker starts with none
(`StartsClean`), because `mark_in_flight` and produce are consecutive
(`ProducingInFlight`), and because nobody but the worker handles rows while there is
one (`WorkerExcluded`, `DatabaseHeld`). The pipeline fails only for cause because the
batch stays sendable from fetch to send (`BatchSendable`): admissions between two
sends keep pending heads (`PendingHeadStays`), reports and rebuilds come after the
batch, and rows of a batch are distinct; so all that is left for `mark_in_flight` to
refuse is the last turn. `FailStopIsFinal` adds `StopsSending`: after a failure
`accept_` is false until the next start, so no enqueue gets past its test and only
the one under way can commit, and the worker is at none of the places that send.

**`OrderProofs`.** `FirstOccurrenceOrder` says nothing about messages that are
still on their way, which a broker may append long after the producer that sent
them is gone, so it is not inductive. `OrderInv` is `DeliveryInv` with what makes
every such append harmless (`OrderData`):

* `WireReady`: all ordinals below that of a message on the wire are in the
  partition of its key already. A message is produced only while its row is in
  flight (`ProducingInFlight`: nobody takes the row away between `mark_in_flight`
  and produce, because reports run on the same thread and start, stop and tools
  only without a worker, `WorkerExcluded`), hence while it is the head.
* `CursorPublished`: what a cursor has passed is in the topic, because a report of
  success is about a record there; with the previous point this gives `WireReady`.
* `RowsAsAdmitted`, `SentAsAdmitted`, `LogPlaced`: rows, messages and records carry
  the identity of the admission, and a keyed record lies where its key belongs.
* `AdmittedAccounted`: an admitted event of a call is stored, below the cursor, or
  of a retired call.

The steps are grouped by what they do to this relation: quiet transactions, an
admission, a send, an append, an acknowledgement. `StrictOrder`,
`NothingAcceptedIsLost` and `RecordsAreFaithful` are consequences.

**`TopicProofs`.** With `OrderInv`, a committed enqueue is `Accept`: its ordinal is
new because stored ones are excluded by the unique index, acknowledged ones by the
cursor, and those of a retired call by its fence (`OrdinalIsFresh`). The first
record of an event is `Publish`, by `WireReady`. All other steps stutter.

**`ServiceProofs`.** That `overtaken` stays below two is not inductive: it does not
say why the one that overtook will not be served again. `OvertakenOnlyBy` does:
whoever has overtaken `c` carries a later turn than `c` (or is retired), so the next
`fetch_due` puts `c` first, and in the batch at hand each of its rows stands behind
a row of `c`. The second half needs that a call has one row in a batch, which is
`OrdinalsUnique` with the fact that the rows of the batch are heads and stay heads
while others admit and fail (`BatchIsSound`); the first needs `TurnsDistinct`.
`OnlyHeadsDie` comes from the same invariant: the cursor cannot move past a dead
head because the one acknowledged would have to be a second head. The schedule, too,
implements the outbox (`ServiceImplementsOutbox`), so the limits hold under it.

**`OpsProofs`.** What a run may rely on follows from its place. `LockInv`: from lock
to end it holds the lock and the module has the database closed; hence
`SnapshotInv`: its copy is a copy of what the database holds. `StageInv`: from the
commit on the file is the whole result of its command, from the fsync on it is on
disk, so no power loss tears what is linked. `PublishInv`: the path is the run's own
from the link on, and durable before success is reported. That a migrated backlog
has its ordinals in the declared order is proved by counting: the rows before an
earlier row are a proper subset of those before a later one.

`DataInv` is about what the database holds: no ordinals at all (`NoOrdinals`) or
`OutboxCore`, which is why that core is a part of its own in `OutboxProofs`; a turn
that is not behind any call; and, when open, this version. `open()` adds the
column of ordinals only to an empty table and seeds the scheduler with the largest turn served
(`SeedIsTurn`). For a migration, `PlacesFill` shows that the places of a call's n rows
are exactly 0 .. n - 1: below n because a row is not before itself, distinct because
the declared order is total, and then all of them because n different ones fit; so
each row lies in the window of the cursor made for it, none twice, none missing, and
the row limit keeps them in 64 bits. A retirement is `RetireCore`, the lemma `Outbox`
uses. The module's transactions that only move rows between pending, in flight and
dead are one case (`RowsMoved`): ordinals, attempts and stamps stay, and that is all
`OutboxCore` looks at. `OpsTypesHold` and `UpgradeIsSound` follow. Attempts stay in range because the
stored ones leave room for `MaxWork` more: `mark_in_flight` itself has no guard on
them, and in an upgraded database the turn does not bound them.

**`ModuleProofs`.** `ControlInv` says who holds module, publisher, outbox and mutex
at each place of load and shutdown; `BindingInv` whose the bindings are;
`ProfileInv` that the slots passed so far (in the constructor) or still to come (in
the destructor) list exactly the publisher's bindings, which is what makes the
unbinding loop complete; `HandlerInv` that a running handler belongs to a
publisher that exists or was leaked. The step that matters is the last unbind: it
waits for all handlers, after it none of the publisher's own bindings is left, and
only then is the publisher destroyed.

**`QueueProofs`.** `NoLostWakeup` is inductive only with `EmptyWhileHeld`: who falls
asleep tested an empty queue some steps before, and the mutex kept since then is
what makes the test still true.

Every invariant and every action property of the passing runs is proved. Only
model-checked are the liveness properties `StopReturns`, `AdmittedSettles`,
`LoaderReturns`, `PopReturns` and `LockIsReleased`, which need fairness and ENABLED
and are outside the prover's reach.

## Not modelled, and the plan

Order of the further work, most important first:

1. The safety half of the liveness arguments: for each place where somebody waits,
   an invariant that names who will end the wait (`NoLostWakeup` is one), so that
   fairness alone remains to be checked by TLC.
2. That work on an upgraded database, from its first opening on, is work on a
   database of module `Outbox`: a refinement of its steps, started from `OutboxCore`
   instead of the empty tables.

Documented preconditions are not broken in the models: the outbox is drained before
the topic changes (`produce_record` sends to the configured topic whatever the row
says), and an output is adopted only while every writer has been stopped. Rows
without a call sort before every call that was served, so a stream of them may
delay calls without a bound; no document promises one, and `OvertakenOnce` is
about calls only.

The verifier of event ids is a read-only comparison of evidence files after a
drill; its order criterion is a consequence of `FirstOccurrenceOrder`.

Left out for good: logging, metrics, JSON serialisation, the wording of errors, TLS
settings, the memory layout of configuration strings, packaging and CI, and the lab scripts, whose faults are
actions of `KafkaPipeline`.
