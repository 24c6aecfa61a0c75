----------------------------- MODULE KafkaModule -----------------------------
(***************************************************************************)
(* The FreeSWITCH adapter, src/mod_event_kafka.cpp: loading the module,    *)
(* its subscriptions, the event handler and the shutdown, around the       *)
(* pipeline's start, stop and enqueue.                                     *)
(*                                                                         *)
(* Actors: the thread that loads and unloads modules (variable loader;     *)
(* FreeSWITCH runs one at a time and loads only what is not loaded), the   *)
(* threads that dispatch events to handlers, and the pipeline's worker,    *)
(* which may close the admission by itself.                                *)
(*                                                                         *)
(* External: FreeSWITCH calls a handler under a read lock and changes the  *)
(* list of bindings under the write lock, so binding and unbinding wait    *)
(* until no handler runs.                                                  *)
(***************************************************************************)
EXTENDS Integers, Sequences

CONSTANTS
    Thread,       \* the dispatch threads
    EventType,    \* the event types FreeSWITCH knows by name
    Custom,       \* SWITCH_EVENT_CUSTOM, which is also what a zeroed id means
    AllEvents,    \* SWITCH_EVENT_ALL
    ConfigFile,   \* contents of event_kafka.conf: what is written, by key
    NoFile,       \* the contents of a file nobody wrote: no key
    MaxSlots,     \* slots of profile.event_nodes
    MaxLoads      \* bound: attempts to load

ASSUME TypesAssumption == Custom \in EventType /\ AllEvents \notin EventType
ASSUME FileAssumption ==
    \A f \in ConfigFile \cup {NoFile} :
        /\ "event_filter" \in DOMAIN f =>
             f.event_filter \in Seq(STRING) /\ Len(f.event_filter) <= MaxSlots
        /\ "outbox_ttl_ms" \in DOMAIN f => f.outbox_ttl_ms \in Int
ASSUME BoundsAssumption ==
    /\ MaxSlots \in Nat /\ MaxLoads \in Nat
    /\ {"free", "loader"} \cap Thread = {}

VARIABLES
    file,      \* what the administrator wrote
    globals,   \* the static struct globals
    subs,      \* profile.event_subscriptions
    ids,       \* profile.event_ids
    nodes,     \* profile.event_nodes; nodes[0] is _node
    module,    \* the publisher of the loaded module, 0 when there is none
    loader,    \* where load or shutdown is
    slot,      \* its loop variable i
    loads,     \* loads so far; the last one is the newest publisher
    alive,     \* the publisher that exists, 0 when there is none
    accept,    \* accept_ of its pipeline
    lock,      \* the publisher whose pipeline has the outbox open, or 0
    mutex,     \* lifecycle_mu_ of the pipeline: its holder or "free"
    bindings,  \* FreeSWITCH's list of handlers
    handler,   \* what each dispatch thread does
    leaked     \* history: publishers destroyed because a bind failed

config == <<file, globals>>
profile == <<subs, ids, nodes>>
pipeline == <<accept, lock, mutex>>
mvars == <<config, profile, module, loader, slot, loads, alive, pipeline,
           bindings, handler, leaked>>

-----------------------------------------------------------------------------
(* Configuration *)

Null == "(null)"

\* The defaults of the table instructions.
Defaults == [topic |-> "", topic_prefix |-> "fs", username |-> "",
             security_protocol |-> "", event_filter |-> <<>>, buffer_size |-> 10,
             outbox_max_rows |-> 100000, outbox_ttl_ms |-> 120000,
             message_timeout_ms |-> 30000, enable_idempotence |-> 1]

\* globals after the memset.
ZeroGlobals == [topic |-> Null, topic_prefix |-> Null, username |-> Null,
                security_protocol |-> Null, event_filter |-> <<>>, buffer_size |-> 0,
                outbox_max_rows |-> 0, outbox_ttl_ms |-> 0,
                message_timeout_ms |-> 0, enable_idempotence |-> 0]

\* load_config; a file that cannot be opened leaves globals zeroed.
LoadConfig(f, readable) ==
    IF readable
    THEN [k \in DOMAIN Defaults |-> IF k \in DOMAIN f THEN f[k] ELSE Defaults[k]]
    ELSE ZeroGlobals

PositiveOr(n, default) == IF n > 0 THEN n ELSE default

TextOr(s, default) == IF s = Null THEN default ELSE s

TopicUnchecked(g) == TextOr(g.topic, "fs_events")                  \* mutant

\* An empty topic is made of the prefix and the switch's name.
TopicOf(g) == IF g.topic = "" THEN "prefix_switchname" ELSE TextOr(g.topic, "fs_events")

\* The PipelineConfig the publisher builds.
PipelineConfig(g) ==
    [topic |-> TopicOf(g),
     username |-> TextOr(g.username, ""),
     security_protocol |-> TextOr(g.security_protocol, ""),
     buffer_size |-> PositiveOr(g.buffer_size, 100000),
     outbox_max_rows |-> PositiveOr(g.outbox_max_rows, 100000),
     message_timeout_ms |-> PositiveOr(g.message_timeout_ms, 30000),
     outbox_ttl_ms |-> IF g.outbox_ttl_ms < 0 THEN 120000 ELSE g.outbox_ttl_ms,
     enable_idempotence |-> g.enable_idempotence # 0]

\* What create_producer_unlocked hands to librdkafka.
ProducerConf(cfg) ==
    [acks |-> "all",
     idempotence |-> cfg.enable_idempotence,
     protocol |-> IF cfg.security_protocol # "" THEN cfg.security_protocol
                  ELSE IF cfg.username = "" THEN "PLAINTEXT" ELSE "SASL_PLAINTEXT",
     sasl |-> cfg.username # "",
     buffer |-> cfg.buffer_size,
     timeout |-> cfg.message_timeout_ms]

cfg == PipelineConfig(globals)

-----------------------------------------------------------------------------
(* mod_event_kafka_load *)

\* Since the last load FreeSWITCH may have unmapped the library, and with it
\* the static tables, or not.
LoadBegin(f, readable) ==
    /\ loader = "idle"
    /\ module = 0
    /\ loads < MaxLoads
    /\ loads' = loads + 1
    /\ file' = IF readable THEN f ELSE NoFile
    /\ globals' = LoadConfig(f, readable)
    /\ ids' \in {ids, [i \in 1 .. MaxSlots |-> Custom]}
    /\ loader' = "start"
    /\ UNCHANGED <<subs, nodes, module, slot, alive, pipeline, bindings, handler, leaked>>

\* The publisher's constructor starts the pipeline, which needs the lock file.
StartPipeline ==
    /\ loader = "start"
    /\ lock = 0
    /\ lock' = loads
    /\ alive' = loads
    /\ accept' = TRUE
    /\ mutex' = "free"
    /\ loader' = "resolve"
    /\ UNCHANGED <<config, profile, module, slot, loads, bindings, handler, leaked>>

\* start() returns false: the constructor throws and load returns an error.
StartFails ==
    /\ loader = "start"
    /\ loader' = "idle"
    /\ UNCHANGED <<config, profile, module, slot, loads, alive, pipeline, bindings,
                   handler, leaked>>

Filter == globals.event_filter

FirstSlot(n) == IF n > 0 THEN 1 ELSE 0

\* A name FreeSWITCH does not know is logged, and its id left as it was.
ResolveNames ==
    /\ loader = "resolve"
    /\ subs' = Len(Filter)
    /\ ids' = [i \in 1 .. MaxSlots |->
                 IF i <= Len(Filter) /\ Filter[i] \in EventType THEN Filter[i] ELSE ids[i]]
    /\ slot' = FirstSlot(Len(Filter))
    /\ loader' = "bind"
    /\ UNCHANGED <<config, nodes, module, loads, alive, pipeline, bindings, handler, leaked>>

NoHandlerRuns == \A t \in Thread : handler[t].at = "none"

\* The binding of the current slot.
Binding(as_custom) ==
    [slot |-> slot, publisher |-> loads,
     type |-> IF slot = 0 THEN AllEvents ELSE IF as_custom THEN Custom ELSE ids[slot]]

BindSameNode(as_custom) ==                                         \* mutant
    /\ loader = "bind"
    /\ slot <= subs
    /\ NoHandlerRuns
    /\ bindings' = bindings \cup {Binding(as_custom)}
    /\ nodes' = [nodes EXCEPT ![FirstSlot(subs)] = {Binding(as_custom)}]
    /\ slot' = slot + 1
    /\ UNCHANGED <<config, subs, ids, module, loader, loads, alive, pipeline, handler, leaked>>

\* Whether name i counts as custom is decided by comparing it with a string
\* that was destroyed at the end of its declaration: any answer.
Bind(as_custom) ==
    /\ loader = "bind"
    /\ slot <= subs
    /\ NoHandlerRuns
    /\ bindings' = bindings \cup {Binding(as_custom)}
    /\ nodes' = [nodes EXCEPT ![slot] = {Binding(as_custom)}]
    /\ slot' = slot + 1
    /\ UNCHANGED <<config, subs, ids, module, loader, loads, alive, pipeline, handler, leaked>>

\* A bind fails: the constructor throws, and only its finished members are
\* destroyed, here the publisher.  What was bound stays bound.
BindFails ==
    /\ loader = "bind"
    /\ slot <= subs
    /\ leaked' = leaked \cup {loads}
    /\ loader' = "unwind"
    /\ UNCHANGED <<config, profile, module, slot, loads, alive, pipeline, bindings, handler>>

LoadDone ==
    /\ loader = "bind"
    /\ slot > subs
    /\ module' = loads
    /\ loader' = "idle"
    /\ UNCHANGED <<config, profile, slot, loads, alive, pipeline, bindings, handler, leaked>>

-----------------------------------------------------------------------------
(* mod_event_kafka_shutdown, and the end of a load that failed *)

ShutdownBegin ==
    /\ loader = "idle"
    /\ module # 0
    /\ loader' = "shutdown"
    /\ UNCHANGED <<config, profile, module, slot, loads, alive, pipeline, bindings,
                   handler, leaked>>

\* stop() of the pipeline: from KafkaModule::Shutdown or from ~KafkaEventPublisher.
StopBegin ==
    /\ loader \in {"shutdown", "unwind"}
    /\ mutex = "free"
    /\ mutex' = "loader"
    /\ accept' = FALSE
    /\ UNCHANGED <<config, profile, module, loader, slot, loads, alive, lock, bindings,
                   handler, leaked>>

StopEndLocked ==                                                   \* mutant
    /\ mutex = "loader"
    /\ lock' = 0
    /\ loader' = IF loader = "shutdown" THEN "unbind" ELSE "destroy"
    /\ slot' = FirstSlot(subs)
    /\ UNCHANGED <<config, profile, module, loads, alive, accept, mutex, bindings,
                   handler, leaked>>

StopEndDestroys ==                                                 \* mutant
    /\ mutex = "loader"
    /\ mutex' = "free"
    /\ lock' = 0
    /\ loader' = IF loader = "shutdown" THEN "unbind" ELSE "destroy"
    /\ alive' = 0
    /\ slot' = FirstSlot(subs)
    /\ UNCHANGED <<config, profile, module, loads, accept, bindings, handler, leaked>>

\* The worker has ended (StopReturns of KafkaPipeline) and the outbox is closed.
StopEnd ==
    /\ mutex = "loader"
    /\ mutex' = "free"
    /\ lock' = 0
    /\ loader' = IF loader = "shutdown" THEN "unbind" ELSE "destroy"
    /\ slot' = FirstSlot(subs)
    /\ UNCHANGED <<config, profile, module, loads, alive, accept, bindings, handler, leaked>>

UnbindFirst ==                                                     \* mutant
    /\ loader = "unbind"
    /\ NoHandlerRuns
    /\ bindings' = bindings \ nodes[slot]
    /\ nodes' = [nodes EXCEPT ![slot] = {}]
    /\ loader' = "destroy"
    /\ UNCHANGED <<config, subs, ids, module, slot, loads, alive, pipeline, handler, leaked>>

\* The loop of ~KafkaModule.
Unbind ==
    /\ loader = "unbind"
    /\ NoHandlerRuns
    /\ bindings' = bindings \ nodes[slot]
    /\ nodes' = [nodes EXCEPT ![slot] = {}]
    /\ slot' = slot + 1
    /\ loader' = IF slot < subs THEN "unbind" ELSE "destroy"
    /\ UNCHANGED <<config, subs, ids, module, loads, alive, pipeline, handler, leaked>>

\* The publisher is gone; its destructor's stop() finds everything stopped.
Destroy ==
    /\ loader = "destroy"
    /\ mutex = "free"
    /\ alive' = 0
    /\ module' = 0
    /\ loader' = "idle"
    /\ UNCHANGED <<config, profile, slot, loads, pipeline, bindings, handler, leaked>>

-----------------------------------------------------------------------------
(* event_handler, on a dispatch thread *)

Idle == [at |-> "none", publisher |-> 0]

Deliver(t, b) ==
    /\ handler[t].at = "none"
    /\ handler' = [handler EXCEPT ![t] = [at |-> "publish", publisher |-> b.publisher]]
    /\ UNCHANGED <<config, profile, module, loader, slot, loads, alive, pipeline, bindings, leaked>>

\* The event cannot be serialised.
SerializeFails(t) ==
    /\ handler[t].at = "publish"
    /\ handler' = [handler EXCEPT ![t] = Idle]
    /\ UNCHANGED <<config, profile, module, loader, slot, loads, alive, pipeline, bindings, leaked>>

EnqueueBeginUnlocked(t) ==                                         \* mutant
    /\ handler[t].at = "publish"
    /\ handler[t].publisher = alive
    /\ handler' = [handler EXCEPT ![t] = IF accept THEN [@ EXCEPT !.at = "admit"] ELSE Idle]
    /\ UNCHANGED <<config, profile, module, loader, slot, loads, alive, pipeline,
                   bindings, leaked>>

\* PublishEvent calls enqueue, which takes lifecycle_mu_ and tests accept_.
EnqueueBegin(t) ==
    /\ handler[t].at = "publish"
    /\ handler[t].publisher = alive
    /\ mutex = "free"
    /\ mutex' = IF accept THEN t ELSE "free"
    /\ handler' = [handler EXCEPT ![t] = IF accept THEN [@ EXCEPT !.at = "admit"] ELSE Idle]
    /\ UNCHANGED <<config, profile, module, loader, slot, loads, alive, accept, lock,
                   bindings, leaked>>

\* insert_pending commits or refuses; the handler returns either way.
EnqueueEnd(t) ==
    /\ handler[t].at = "admit"
    /\ mutex' = "free"
    /\ handler' = [handler EXCEPT ![t] = Idle]
    /\ UNCHANGED <<config, profile, module, loader, slot, loads, alive, accept, lock,
                   bindings, leaked>>

\* The publisher the event was bound to no longer exists: undefined behaviour,
\* of which the model keeps the mildest outcome.
PublishOnDestroyed(t) ==
    /\ handler[t].at = "publish"
    /\ handler[t].publisher # alive
    /\ handler' = [handler EXCEPT ![t] = Idle]
    /\ UNCHANGED <<config, profile, module, loader, slot, loads, alive, pipeline, bindings, leaked>>

\* A state error of the worker: it stops accepting, and the module stays loaded.
WorkerFails ==
    /\ accept
    /\ accept' = FALSE
    /\ UNCHANGED <<config, profile, module, loader, slot, loads, alive, lock, mutex,
                   bindings, handler, leaked>>

-----------------------------------------------------------------------------
ModuleInit ==
    /\ file = NoFile
    /\ globals = ZeroGlobals
    /\ subs = 0
    /\ ids = [i \in 1 .. MaxSlots |-> Custom]
    /\ nodes = [i \in 0 .. MaxSlots |-> {}]
    /\ module = 0 /\ loads = 0 /\ alive = 0 /\ lock = 0
    /\ loader = "idle"
    /\ slot = 0
    /\ accept = FALSE
    /\ mutex = "free"
    /\ bindings = {}
    /\ handler = [t \in Thread |-> Idle]
    /\ leaked = {}

Load ==
    \/ \E f \in ConfigFile, readable \in BOOLEAN : LoadBegin(f, readable)
    \/ StartPipeline \/ StartFails \/ ResolveNames
    \/ \E as_custom \in BOOLEAN : Bind(as_custom)
    \/ BindFails \/ LoadDone

Unload == ShutdownBegin \/ StopBegin \/ StopEnd \/ Unbind \/ Destroy

EventHandler(t) ==
    SerializeFails(t) \/ EnqueueBegin(t) \/ EnqueueEnd(t) \/ PublishOnDestroyed(t)

ModuleNext ==
    \/ Load
    \/ Unload
    \/ \E t \in Thread, b \in bindings : Deliver(t, b)
    \/ \E t \in Thread : EventHandler(t)
    \/ WorkerFails

ModuleSpec == ModuleInit /\ [][ModuleNext]_mvars

(***************************************************************************)
(* Fairness.  A thread inside load or shutdown goes on, and so does one    *)
(* inside a handler; a mutex is granted in the end to whoever keeps asking *)
(* for it while others come and go.  The write lock prefers readers, so    *)
(* the dispatch threads must all be idle again and again.                  *)
(***************************************************************************)
ModuleFairness ==
    /\ []<>NoHandlerRuns
    /\ SF_mvars(\E as_custom \in BOOLEAN : Bind(as_custom))
    /\ SF_mvars(Unbind)
    /\ SF_mvars(StopBegin)
    /\ WF_mvars(StartPipeline \/ StartFails \/ ResolveNames \/ LoadDone \/ StopEnd \/ Destroy)
    /\ \A t \in Thread : SF_mvars(EventHandler(t))

FairModuleSpec == ModuleSpec /\ ModuleFairness
-----------------------------------------------------------------------------
(* Correctness *)

\* The variables keep their types.
ModuleTypeOK ==
    /\ subs \in 0 .. MaxSlots
    /\ ids \in [1 .. MaxSlots -> EventType]
    /\ nodes \in [0 .. MaxSlots -> SUBSET bindings]
    /\ {module, loads, alive, lock} \subseteq 0 .. MaxLoads
    /\ loader \in {"idle", "start", "resolve", "bind", "unwind", "shutdown", "unbind", "destroy"}
    /\ slot \in 0 .. MaxSlots + 1
    /\ accept \in BOOLEAN
    /\ mutex \in Thread \cup {"free", "loader"}
    /\ bindings \subseteq [slot : 0 .. MaxSlots, publisher : 1 .. MaxLoads,
                           type : EventType \cup {AllEvents}]
    /\ handler \in [Thread -> [at : {"none", "publish", "admit"}, publisher : 0 .. MaxLoads]]
    /\ leaked \subseteq 1 .. MaxLoads

\* An event handler never runs on a destroyed publisher, although dispatch
\* threads and the unloading thread race: ~KafkaModule removes every binding,
\* waiting for the handlers that run, before the publisher is destroyed.  The
\* one exception is a load that failed half way through its binds.
HandlersUseLivePublisher ==
    \A t \in Thread : handler[t].at # "none" => handler[t].publisher \in {alive} \cup leaked

\* Between loads nothing of the module is left behind: no lock on the outbox
\* that would make the next start fail, and no binding, again but for those of
\* a load that failed half way.
NothingLeftBehind ==
    loader \in {"idle", "start"} /\ module = 0 =>
        /\ lock = 0
        /\ alive = 0
        /\ \A b \in bindings : b.publisher \in leaked

\* An enqueue that passed its test of accept_ still finds the outbox open when
\* it commits: a shutdown that began in between waits for it.
CommitsIntoOpenOutbox ==
    \A t \in Thread : handler[t].at = "admit" => handler[t].publisher = lock

\* The profile is static and every load rewrites it, yet the destructor relies
\* on it: while a module is loaded it lists exactly the module's bindings.
ProfileListsBindings ==
    module # 0 /\ loader = "idle" =>
        {b \in bindings : b.publisher = module} = UNION {nodes[i] : i \in FirstSlot(subs) .. subs}

\* Whatever was written, the pipeline gets limits the outbox can work with
\* (LimitAssumption of Outbox), a topic, and credentials exactly when there is
\* a user, who then never goes out unauthenticated by default.
ConfigurationUsable ==
    alive # 0 =>
        /\ cfg.topic # "" /\ cfg.outbox_max_rows > 0 /\ cfg.outbox_ttl_ms >= 0
        /\ cfg.buffer_size > 0 /\ cfg.message_timeout_ms > 0
        /\ ProducerConf(cfg).sasl /\ cfg.security_protocol = ""
              => ProducerConf(cfg).protocol = "SASL_PLAINTEXT"

\* A shutdown ends, and so does a load, although handlers keep coming, hold
\* the mutex stop() needs and block the unbinding.
LoaderReturns == loader # "idle" ~> loader = "idle"

\* As event_kafka.conf.xml has it: a filter is a list of legal event names,
\* and the module subscribes to the events it names.
FilterIsSubscribed ==
    \A i \in 1 .. subs :
        module # 0 /\ loader = "idle" /\ Filter[i] \in EventType =>
            \A b \in nodes[i] : b.type = Filter[i]

\* As docs/DESIGN.md has it: what is not configured has its default, an age
\* limit of 120000 ms and an idempotent producer.
UnconfiguredIsDefault ==
    alive # 0 =>
        /\ "outbox_ttl_ms" \notin DOMAIN file => cfg.outbox_ttl_ms = 120000
        /\ "enable_idempotence" \notin DOMAIN file => cfg.enable_idempotence
=============================================================================
