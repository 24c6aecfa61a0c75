---------------------------- MODULE ModuleProofs ----------------------------
(***************************************************************************)
(* TLAPS proofs about module KafkaModule, for any number of threads, event *)
(* types, slots, loads and any configuration file.                         *)
(***************************************************************************)
EXTENDS KafkaModule, TLAPS

(***************************************************************************)
(* The inductive invariant.  The safety of the handlers rests on where the *)
(* loader is (ControlInv), on who the bindings belong to (BindingInv) and  *)
(* on the static profile listing them slot by slot while the loops of the  *)
(* constructor and of the destructor are half way (ProfileInv).            *)
(***************************************************************************)
\* Who holds what at each place of load and shutdown.
ControlInv ==
    /\ loader # "idle" => loads > 0
    /\ loader = "idle" => module \in {0, loads} /\ alive = module /\ lock = module
    /\ loader = "start" => module = 0 /\ alive = 0 /\ lock = 0
    /\ loader \in {"resolve", "bind", "unwind"} => module = 0 /\ alive = loads /\ lock = loads
    /\ loader = "shutdown" => module = loads /\ alive = loads /\ lock = loads
    /\ loader \in {"unbind", "destroy"} => alive = loads /\ lock = 0
    /\ loader = "unbind" => module = loads
    /\ accept => lock # 0
    /\ mutex = "loader" => loader \in {"shutdown", "unwind"} /\ ~accept

\* The bindings of the newest publisher.
Own == {b \in bindings : b.publisher = loads}

\* The slots lo .. hi list them.
Listed(lo, hi) ==
    /\ \A b \in Own : b.slot \in lo .. hi
    /\ \A i \in lo .. hi : nodes[i] = {b \in Own : b.slot = i}

Loaded == module # 0 /\ loader \in {"idle", "shutdown"}

\* Bindings belong to the publisher that exists or to one that was leaked.
BindingInv ==
    /\ leaked \subseteq 1 .. loads
    /\ \A b \in bindings : b.publisher \in leaked \cup {loads}
    /\ Loaded \/ loader \in {"start", "resolve", "bind", "unbind"} => loads \notin leaked
    /\ loader = "unwind" => loads \in leaked
    /\ loader = "destroy" => loads \in leaked \/ module = loads
    /\ loader \in {"start", "resolve"} => Own = {}
    /\ (loader = "idle" /\ module = 0) \/ loader = "destroy" => loads \in leaked \/ Own = {}

ProfileInv ==
    /\ \A i \in 0 .. MaxSlots : \A b \in nodes[i] : b.slot = i
    /\ loader = "bind" => slot \in FirstSlot(subs) .. subs + 1 /\ Listed(FirstSlot(subs), slot - 1)
    /\ Loaded => Listed(FirstSlot(subs), subs)
    /\ loader = "unbind" => slot \in 0 .. subs /\ Listed(slot, subs)

\* Running handlers use a publisher that exists or was leaked; once the last
\* binding is gone only leaked ones are left.
HandlerInv ==
    \A t \in Thread :
        /\ handler[t].at # "none" =>
             /\ handler[t].publisher # 0
             /\ handler[t].publisher \in {alive} \cup leaked
             /\ loader = "destroy" => handler[t].publisher \in leaked
        /\ handler[t].at = "admit" => mutex = t /\ handler[t].publisher = lock

ConfigInv ==
    /\ Len(Filter) \in 0 .. MaxSlots
    /\ globals.outbox_ttl_ms \in Int

ModuleInv ==
    /\ ModuleTypeOK
    /\ ControlInv
    /\ BindingInv
    /\ ProfileInv
    /\ HandlerInv
    /\ ConfigInv

-----------------------------------------------------------------------------
\* Whatever the file says, the filter fits the profile and the TTL is a number.
LEMMA ConfigLoads ==
    ASSUME NEW f \in ConfigFile, NEW readable \in BOOLEAN
    PROVE  LET g == LoadConfig(f, readable)
           IN  Len(g.event_filter) \in 0 .. MaxSlots /\ g.outbox_ttl_ms \in Int
<1>1. Len(<<>>) = 0
  OBVIOUS
<1>2. {"event_filter", "outbox_ttl_ms"} \subseteq DOMAIN Defaults
  BY DEF Defaults
<1>3. Defaults.event_filter = <<>> /\ Defaults.outbox_ttl_ms = 120000
  BY DEF Defaults
<1>4. ZeroGlobals.event_filter = <<>> /\ ZeroGlobals.outbox_ttl_ms = 0
  BY DEF ZeroGlobals
<1>5. "event_filter" \in DOMAIN f => Len(f["event_filter"]) \in 0 .. MaxSlots
  BY FileAssumption, BoundsAssumption
<1>6. "outbox_ttl_ms" \in DOMAIN f => f["outbox_ttl_ms"] \in Int
  BY FileAssumption
<1>7. CASE ~readable
  BY <1>1, <1>4, <1>7, BoundsAssumption DEF LoadConfig
<1>8. CASE readable
  <2> DEFINE g == LoadConfig(f, readable)
  <2>1. g["event_filter"] = IF "event_filter" \in DOMAIN f THEN f["event_filter"] ELSE <<>>
    BY <1>2, <1>3, <1>8 DEF LoadConfig
  <2>2. g["outbox_ttl_ms"] = IF "outbox_ttl_ms" \in DOMAIN f THEN f["outbox_ttl_ms"] ELSE 120000
    BY <1>2, <1>3, <1>8 DEF LoadConfig
  <2> HIDE DEF g
  <2>3. QED
    BY <1>1, <1>5, <1>6, <2>1, <2>2, BoundsAssumption DEF g
<1> QED
  BY <1>7, <1>8

\* Before the first load nothing is bound and no thread is inside the module.
LEMMA ModuleInitInv == ModuleInit => ModuleInv
<1> SUFFICES ASSUME ModuleInit PROVE ModuleInv
  OBVIOUS
<1> USE DEF ModuleInit
<1>1. ModuleTypeOK
  <2>1. nodes \in [0 .. MaxSlots -> SUBSET bindings]
    OBVIOUS
  <2>2. ids \in [1 .. MaxSlots -> EventType]
    BY TypesAssumption
  <2>3. handler \in [Thread -> [at : {"none", "publish", "admit"}, publisher : 0 .. MaxLoads]]
    BY BoundsAssumption DEF Idle
  <2>4. bindings \subseteq [slot : 0 .. MaxSlots, publisher : 1 .. MaxLoads,
                           type : EventType \cup {AllEvents}]
    OBVIOUS
  <2>5. {module, loads, alive, lock} \subseteq 0 .. MaxLoads
    BY BoundsAssumption
  <2>6. subs \in 0 .. MaxSlots /\ slot \in 0 .. MaxSlots + 1
    BY BoundsAssumption
  <2>7. leaked \subseteq 1 .. MaxLoads /\ accept \in BOOLEAN
    OBVIOUS
  <2>8. mutex \in Thread \cup {"free", "loader"}
    OBVIOUS
  <2> HIDE DEF ModuleInit
  <2>9. loader = "idle"
    BY DEF ModuleInit
  <2> QED
    BY <2>1, <2>2, <2>3, <2>4, <2>5, <2>6, <2>7, <2>8, <2>9 DEF ModuleTypeOK
<1>2. ControlInv
  BY BoundsAssumption DEF ControlInv
<1>3. BindingInv
  BY BoundsAssumption DEF BindingInv, Own, Loaded
<1>4. ProfileInv
  BY DEF ProfileInv, Loaded
<1>5. HandlerInv
  BY DEF HandlerInv, Idle
<1>6. ConfigInv
  BY BoundsAssumption DEF ConfigInv, ZeroGlobals, Filter
<1> QED
  BY <1>1, <1>2, <1>3, <1>4, <1>5, <1>6 DEF ModuleInv

-----------------------------------------------------------------------------
\* A new load: nothing of an earlier one is left but what was leaked.
LEMMA LoadBeginInv ==
    ASSUME ModuleInv, NEW f \in ConfigFile, NEW readable \in BOOLEAN, LoadBegin(f, readable)
    PROVE  ModuleInv'
<1> USE ModuleInv, LoadBegin(f, readable), BoundsAssumption, TypesAssumption
        DEF ModuleInv, LoadBegin, config, profile, pipeline
<1>1. ModuleTypeOK'
  BY DEF ModuleTypeOK
<1>2. ControlInv'
  BY DEF ControlInv, ModuleTypeOK
<1>3. BindingInv'
  BY DEF BindingInv, ControlInv, ModuleTypeOK, Own, Loaded
<1>4. ProfileInv'
  BY DEF ProfileInv, ControlInv, Loaded
<1>5. HandlerInv'
  BY DEF HandlerInv
<1>6. ConfigInv'
  BY ConfigLoads DEF ConfigInv, Filter
<1> QED
  BY <1>1, <1>2, <1>3, <1>4, <1>5, <1>6 DEF ModuleInv

\* The pipeline of the new publisher starts: handlers of leaked publishers aside,
\* nobody can use it yet.
LEMMA StartPipelineInv ==
    ASSUME ModuleInv, StartPipeline
    PROVE  ModuleInv'
<1> USE ModuleInv, StartPipeline, BoundsAssumption, TypesAssumption
        DEF ModuleInv, StartPipeline, config, profile, pipeline
<1>1. ModuleTypeOK'
  BY DEF ModuleTypeOK
<1>2. ControlInv'
  BY DEF ControlInv, ModuleTypeOK
<1>3. BindingInv'
  BY DEF BindingInv, ControlInv, ModuleTypeOK, Own, Loaded
<1>4. ProfileInv'
  BY DEF ProfileInv, BindingInv, ControlInv, ModuleTypeOK, Listed, Own, Loaded, FirstSlot
<1>5. HandlerInv'
  BY DEF HandlerInv, ControlInv, BindingInv, ModuleTypeOK
<1>6. ConfigInv'
  BY DEF ConfigInv, Filter
<1> QED
  BY <1>1, <1>2, <1>3, <1>4, <1>5, <1>6 DEF ModuleInv

\* A start that fails leaves nothing.
LEMMA StartFailsInv ==
    ASSUME ModuleInv, StartFails
    PROVE  ModuleInv'
<1> USE ModuleInv, StartFails, BoundsAssumption, TypesAssumption
        DEF ModuleInv, StartFails, config, profile, pipeline
<1>1. ModuleTypeOK'
  BY DEF ModuleTypeOK
<1>2. ControlInv'
  BY DEF ControlInv, ModuleTypeOK
<1>3. BindingInv'
  BY DEF BindingInv, ControlInv, ModuleTypeOK, Own, Loaded
<1>4. ProfileInv'
  BY DEF ProfileInv, BindingInv, ControlInv, ModuleTypeOK, Listed, Own, Loaded, FirstSlot
<1>5. HandlerInv'
  BY DEF HandlerInv, ControlInv, BindingInv, ModuleTypeOK
<1>6. ConfigInv'
  BY DEF ConfigInv, Filter
<1> QED
  BY <1>1, <1>2, <1>3, <1>4, <1>5, <1>6 DEF ModuleInv

\* Resolving rewrites the profile before anything of this load is bound.
LEMMA ResolveNamesInv ==
    ASSUME ModuleInv, ResolveNames
    PROVE  ModuleInv'
<1> USE ModuleInv, ResolveNames, BoundsAssumption, TypesAssumption
        DEF ModuleInv, ResolveNames, config, profile, pipeline
<1>1. ModuleTypeOK'
  BY DEF ModuleTypeOK, ConfigInv, Filter, FirstSlot
<1>2. ControlInv'
  BY DEF ControlInv, ModuleTypeOK
<1>3. BindingInv'
  BY DEF BindingInv, ControlInv, ModuleTypeOK, Own, Loaded
<1>4. ProfileInv'
  BY DEF ProfileInv, BindingInv, ControlInv, ModuleTypeOK, Listed, Own, Loaded, FirstSlot
<1>5. HandlerInv'
  BY DEF HandlerInv, ControlInv, BindingInv, ModuleTypeOK
<1>6. ConfigInv'
  BY DEF ConfigInv, Filter
<1> QED
  BY <1>1, <1>2, <1>3, <1>4, <1>5, <1>6 DEF ModuleInv

\* The loop of the constructor: the slots up to the current one list what is bound.
LEMMA BindInv ==
    ASSUME ModuleInv, NEW as_custom \in BOOLEAN, Bind(as_custom)
    PROVE  ModuleInv'
<1> USE ModuleInv, Bind(as_custom), BoundsAssumption, TypesAssumption
        DEF ModuleInv, Bind, Binding, NoHandlerRuns, config, profile, pipeline
<1>1. ModuleTypeOK'
  <2>1. Binding(as_custom) \in [slot : 0 .. MaxSlots, publisher : 1 .. MaxLoads,
                               type : EventType \cup {AllEvents}]
    BY DEF ModuleTypeOK, ControlInv, ProfileInv, FirstSlot
  <2> HIDE DEF Binding
  <2>2. bindings' \subseteq [slot : 0 .. MaxSlots, publisher : 1 .. MaxLoads,
                            type : EventType \cup {AllEvents}]
    BY <2>1 DEF ModuleTypeOK
  <2>3. nodes' \in [0 .. MaxSlots -> SUBSET bindings']
    BY DEF ModuleTypeOK
  <2>4. slot' \in 0 .. MaxSlots + 1
    BY DEF ModuleTypeOK
  <2>5. QED
    BY <2>2, <2>3, <2>4 DEF ModuleTypeOK
<1>2. ControlInv'
  BY DEF ControlInv, ModuleTypeOK
<1>3. BindingInv'
  BY DEF BindingInv, ControlInv, ModuleTypeOK, Own, Loaded
<1>4. ProfileInv'
  BY DEF ProfileInv, BindingInv, ControlInv, ModuleTypeOK, Listed, Own, Loaded, FirstSlot
<1>5. HandlerInv'
  BY DEF HandlerInv, ControlInv, BindingInv, ModuleTypeOK
<1>6. ConfigInv'
  BY DEF ConfigInv, Filter
<1> QED
  BY <1>1, <1>2, <1>3, <1>4, <1>5, <1>6 DEF ModuleInv

\* The bindings made so far are leaked, and so is the publisher they point to.
LEMMA BindFailsInv ==
    ASSUME ModuleInv, BindFails
    PROVE  ModuleInv'
<1> USE ModuleInv, BindFails, BoundsAssumption, TypesAssumption
        DEF ModuleInv, BindFails, config, profile, pipeline
<1>0. loads \in 1 .. MaxLoads /\ leaked' \subseteq 1 .. loads
  <2>1. loads \in 1 .. MaxLoads
    BY DEF ModuleTypeOK, ControlInv
  <2>2. QED
    BY <2>1 DEF BindingInv
<1>1. ModuleTypeOK'
  BY <1>0 DEF ModuleTypeOK
<1>2. ControlInv'
  BY DEF ControlInv, ModuleTypeOK
<1>3. BindingInv'
  BY <1>0 DEF BindingInv, Own, Loaded
<1>4. ProfileInv'
  BY DEF ProfileInv, BindingInv, ControlInv, ModuleTypeOK, Listed, Own, Loaded, FirstSlot
<1>5. HandlerInv'
  BY DEF HandlerInv, ControlInv, BindingInv, ModuleTypeOK
<1>6. ConfigInv'
  BY DEF ConfigInv, Filter
<1> QED
  BY <1>1, <1>2, <1>3, <1>4, <1>5, <1>6 DEF ModuleInv

\* All slots are bound.
LEMMA LoadDoneInv ==
    ASSUME ModuleInv, LoadDone
    PROVE  ModuleInv'
<1> USE ModuleInv, LoadDone, BoundsAssumption, TypesAssumption
        DEF ModuleInv, LoadDone, config, profile, pipeline
<1>1. ModuleTypeOK'
  BY DEF ModuleTypeOK
<1>2. ControlInv'
  BY DEF ControlInv, ModuleTypeOK
<1>3. BindingInv'
  BY DEF BindingInv, ControlInv, ModuleTypeOK, Own, Loaded
<1>4. ProfileInv'
  BY DEF ProfileInv, BindingInv, ControlInv, ModuleTypeOK, Listed, Own, Loaded, FirstSlot
<1>5. HandlerInv'
  BY DEF HandlerInv, ControlInv, BindingInv, ModuleTypeOK
<1>6. ConfigInv'
  BY DEF ConfigInv, Filter
<1> QED
  BY <1>1, <1>2, <1>3, <1>4, <1>5, <1>6 DEF ModuleInv

\* The bindings stay while the pipeline is stopped.
LEMMA ShutdownBeginInv ==
    ASSUME ModuleInv, ShutdownBegin
    PROVE  ModuleInv'
<1> USE ModuleInv, ShutdownBegin, BoundsAssumption, TypesAssumption
        DEF ModuleInv, ShutdownBegin, config, profile, pipeline
<1>1. ModuleTypeOK'
  BY DEF ModuleTypeOK
<1>2. ControlInv'
  BY DEF ControlInv, ModuleTypeOK
<1>3. BindingInv'
  BY DEF BindingInv, ControlInv, ModuleTypeOK, Own, Loaded
<1>4. ProfileInv'
  BY DEF ProfileInv, BindingInv, ControlInv, ModuleTypeOK, Listed, Own, Loaded, FirstSlot
<1>5. HandlerInv'
  BY DEF HandlerInv, ControlInv, BindingInv, ModuleTypeOK
<1>6. ConfigInv'
  BY DEF ConfigInv, Filter
<1> QED
  BY <1>1, <1>2, <1>3, <1>4, <1>5, <1>6 DEF ModuleInv

\* stop() gets the mutex only when no handler is in an admission.
LEMMA StopBeginInv ==
    ASSUME ModuleInv, StopBegin
    PROVE  ModuleInv'
<1> USE ModuleInv, StopBegin, BoundsAssumption, TypesAssumption
        DEF ModuleInv, StopBegin, config, profile, pipeline
<1>1. ModuleTypeOK'
  BY DEF ModuleTypeOK
<1>2. ControlInv'
  BY DEF ControlInv, ModuleTypeOK
<1>3. BindingInv'
  BY DEF BindingInv, ControlInv, ModuleTypeOK, Own, Loaded
<1>4. ProfileInv'
  BY DEF ProfileInv, BindingInv, ControlInv, ModuleTypeOK, Listed, Own, Loaded, FirstSlot
<1>5. HandlerInv'
  BY DEF HandlerInv, ControlInv, BindingInv, ModuleTypeOK
<1>6. ConfigInv'
  BY DEF ConfigInv, Filter
<1> QED
  BY <1>1, <1>2, <1>3, <1>4, <1>5, <1>6 DEF ModuleInv

\* The outbox is closed while the loader holds the mutex, so under no admission.
LEMMA StopEndInv ==
    ASSUME ModuleInv, StopEnd
    PROVE  ModuleInv'
<1> USE ModuleInv, StopEnd, BoundsAssumption, TypesAssumption
        DEF ModuleInv, StopEnd, config, profile, pipeline
<1>1. ModuleTypeOK'
  BY DEF ModuleTypeOK, FirstSlot
<1>2. ControlInv'
  BY DEF ControlInv, ModuleTypeOK
<1>3. BindingInv'
  BY DEF BindingInv, ControlInv, ModuleTypeOK, Own, Loaded
<1>4. ProfileInv'
  BY DEF ProfileInv, BindingInv, ControlInv, ModuleTypeOK, Listed, Own, Loaded, FirstSlot
<1>5. HandlerInv'
  BY DEF HandlerInv, ControlInv, BindingInv, ModuleTypeOK
<1>6. ConfigInv'
  BY DEF ConfigInv, Filter
<1> QED
  BY <1>1, <1>2, <1>3, <1>4, <1>5, <1>6 DEF ModuleInv

\* The loop of the destructor: slot by slot the publisher's bindings go, and with
\* the last one no handler that uses it is left.
LEMMA UnbindInv ==
    ASSUME ModuleInv, Unbind
    PROVE  ModuleInv'
<1> USE ModuleInv, Unbind, BoundsAssumption, TypesAssumption
        DEF ModuleInv, Unbind, NoHandlerRuns, config, profile, pipeline
<1>1. ModuleTypeOK'
  <2>1. \A i \in 0 .. MaxSlots : i # slot => nodes[i] \subseteq bindings \ nodes[slot]
    BY DEF ModuleTypeOK, ProfileInv
  <2>2. nodes' \in [0 .. MaxSlots -> SUBSET bindings']
    BY <2>1 DEF ModuleTypeOK
  <2>3. slot' \in 0 .. MaxSlots + 1
    BY DEF ModuleTypeOK, ProfileInv
  <2>4. bindings' \subseteq [slot : 0 .. MaxSlots, publisher : 1 .. MaxLoads,
                            type : EventType \cup {AllEvents}]
    BY DEF ModuleTypeOK
  <2>5. QED
    BY <2>2, <2>3, <2>4 DEF ModuleTypeOK
<1>2. ControlInv'
  BY DEF ControlInv, ModuleTypeOK
<1>3. BindingInv'
  BY DEF BindingInv, ControlInv, ProfileInv, ModuleTypeOK, Listed, Own, Loaded
<1>4. ProfileInv'
  BY DEF ProfileInv, BindingInv, ControlInv, ModuleTypeOK, Listed, Own, Loaded, FirstSlot
<1>5. HandlerInv'
  BY DEF HandlerInv, ControlInv, BindingInv, ModuleTypeOK
<1>6. ConfigInv'
  BY DEF ConfigInv, Filter
<1> QED
  BY <1>1, <1>2, <1>3, <1>4, <1>5, <1>6 DEF ModuleInv

\* Who is still running uses a leaked publisher.
LEMMA DestroyInv ==
    ASSUME ModuleInv, Destroy
    PROVE  ModuleInv'
<1> USE ModuleInv, Destroy, BoundsAssumption, TypesAssumption
        DEF ModuleInv, Destroy, config, profile, pipeline
<1>1. ModuleTypeOK'
  BY DEF ModuleTypeOK
<1>2. ControlInv'
  BY DEF ControlInv, ModuleTypeOK
<1>3. BindingInv'
  BY DEF BindingInv, ControlInv, ModuleTypeOK, Own, Loaded
<1>4. ProfileInv'
  BY DEF ProfileInv, BindingInv, ControlInv, ModuleTypeOK, Listed, Own, Loaded, FirstSlot
<1>5. HandlerInv'
  BY DEF HandlerInv, ControlInv, BindingInv, ModuleTypeOK
<1>6. ConfigInv'
  BY DEF ConfigInv, Filter
<1> QED
  BY <1>1, <1>2, <1>3, <1>4, <1>5, <1>6 DEF ModuleInv

\* A handler starts for a binding, so for a publisher that exists or was leaked.
LEMMA DeliverInv ==
    ASSUME ModuleInv, NEW t \in Thread, NEW b \in bindings, Deliver(t, b)
    PROVE  ModuleInv'
<1> USE ModuleInv, Deliver(t, b), BoundsAssumption, TypesAssumption
        DEF ModuleInv, Deliver, config, profile, pipeline
<1>1. ModuleTypeOK'
  BY DEF ModuleTypeOK
<1>2. ControlInv'
  BY DEF ControlInv, ModuleTypeOK
<1>3. BindingInv'
  BY DEF BindingInv, ControlInv, ModuleTypeOK, Own, Loaded
<1>4. ProfileInv'
  BY DEF ProfileInv, BindingInv, ControlInv, ModuleTypeOK, Listed, Own, Loaded, FirstSlot
<1>5. HandlerInv'
  BY DEF HandlerInv, ControlInv, BindingInv, ModuleTypeOK, Own
<1>6. ConfigInv'
  BY DEF ConfigInv, Filter
<1> QED
  BY <1>1, <1>2, <1>3, <1>4, <1>5, <1>6 DEF ModuleInv

\* The handler returns before it reaches the pipeline.
LEMMA SerializeFailsInv ==
    ASSUME ModuleInv, NEW t \in Thread, SerializeFails(t)
    PROVE  ModuleInv'
<1> USE ModuleInv, SerializeFails(t), BoundsAssumption, TypesAssumption
        DEF ModuleInv, SerializeFails, Idle, config, profile, pipeline
<1>1. ModuleTypeOK'
  BY DEF ModuleTypeOK
<1>2. ControlInv'
  BY DEF ControlInv, ModuleTypeOK
<1>3. BindingInv'
  BY DEF BindingInv, ControlInv, ModuleTypeOK, Own, Loaded
<1>4. ProfileInv'
  BY DEF ProfileInv, BindingInv, ControlInv, ModuleTypeOK, Listed, Own, Loaded, FirstSlot
<1>5. HandlerInv'
  BY DEF HandlerInv, ControlInv, BindingInv, ModuleTypeOK
<1>6. ConfigInv'
  BY DEF ConfigInv, Filter
<1> QED
  BY <1>1, <1>2, <1>3, <1>4, <1>5, <1>6 DEF ModuleInv

\* accept_ tested under the mutex: the outbox of this publisher is open.
LEMMA EnqueueBeginInv ==
    ASSUME ModuleInv, NEW t \in Thread, EnqueueBegin(t)
    PROVE  ModuleInv'
<1> USE ModuleInv, EnqueueBegin(t), BoundsAssumption, TypesAssumption
        DEF ModuleInv, EnqueueBegin, Idle, config, profile, pipeline
<1>1. ModuleTypeOK'
  BY DEF ModuleTypeOK
<1>2. ControlInv'
  BY DEF ControlInv, ModuleTypeOK
<1>3. BindingInv'
  BY DEF BindingInv, ControlInv, ModuleTypeOK, Own, Loaded
<1>4. ProfileInv'
  BY DEF ProfileInv, BindingInv, ControlInv, ModuleTypeOK, Listed, Own, Loaded, FirstSlot
<1>5. HandlerInv'
  BY DEF HandlerInv, ControlInv, BindingInv, ModuleTypeOK
<1>6. ConfigInv'
  BY DEF ConfigInv, Filter
<1> QED
  BY <1>1, <1>2, <1>3, <1>4, <1>5, <1>6 DEF ModuleInv

\* The handler returns and frees the mutex.
LEMMA EnqueueEndInv ==
    ASSUME ModuleInv, NEW t \in Thread, EnqueueEnd(t)
    PROVE  ModuleInv'
<1> USE ModuleInv, EnqueueEnd(t), BoundsAssumption, TypesAssumption
        DEF ModuleInv, EnqueueEnd, Idle, config, profile, pipeline
<1>1. ModuleTypeOK'
  BY DEF ModuleTypeOK
<1>2. ControlInv'
  BY DEF ControlInv, ModuleTypeOK
<1>3. BindingInv'
  BY DEF BindingInv, ControlInv, ModuleTypeOK, Own, Loaded
<1>4. ProfileInv'
  BY DEF ProfileInv, BindingInv, ControlInv, ModuleTypeOK, Listed, Own, Loaded, FirstSlot
<1>5. HandlerInv'
  BY DEF HandlerInv, ControlInv, BindingInv, ModuleTypeOK
<1>6. ConfigInv'
  BY DEF ConfigInv, Filter
<1> QED
  BY <1>1, <1>2, <1>3, <1>4, <1>5, <1>6 DEF ModuleInv

\* The handler of a leaked binding.
LEMMA PublishOnDestroyedInv ==
    ASSUME ModuleInv, NEW t \in Thread, PublishOnDestroyed(t)
    PROVE  ModuleInv'
<1> USE ModuleInv, PublishOnDestroyed(t), BoundsAssumption, TypesAssumption
        DEF ModuleInv, PublishOnDestroyed, Idle, config, profile, pipeline
<1>1. ModuleTypeOK'
  BY DEF ModuleTypeOK
<1>2. ControlInv'
  BY DEF ControlInv, ModuleTypeOK
<1>3. BindingInv'
  BY DEF BindingInv, ControlInv, ModuleTypeOK, Own, Loaded
<1>4. ProfileInv'
  BY DEF ProfileInv, BindingInv, ControlInv, ModuleTypeOK, Listed, Own, Loaded, FirstSlot
<1>5. HandlerInv'
  BY DEF HandlerInv, ControlInv, BindingInv, ModuleTypeOK
<1>6. ConfigInv'
  BY DEF ConfigInv, Filter
<1> QED
  BY <1>1, <1>2, <1>3, <1>4, <1>5, <1>6 DEF ModuleInv

\* The worker only closes the admission.
LEMMA WorkerFailsInv ==
    ASSUME ModuleInv, WorkerFails
    PROVE  ModuleInv'
<1> USE ModuleInv, WorkerFails, BoundsAssumption, TypesAssumption
        DEF ModuleInv, WorkerFails, config, profile, pipeline
<1>1. ModuleTypeOK'
  BY DEF ModuleTypeOK
<1>2. ControlInv'
  BY DEF ControlInv, ModuleTypeOK
<1>3. BindingInv'
  BY DEF BindingInv, ControlInv, ModuleTypeOK, Own, Loaded
<1>4. ProfileInv'
  BY DEF ProfileInv, BindingInv, ControlInv, ModuleTypeOK, Listed, Own, Loaded, FirstSlot
<1>5. HandlerInv'
  BY DEF HandlerInv, ControlInv, BindingInv, ModuleTypeOK
<1>6. ConfigInv'
  BY DEF ConfigInv, Filter
<1> QED
  BY <1>1, <1>2, <1>3, <1>4, <1>5, <1>6 DEF ModuleInv

\* Every step of loader, handlers and switch keeps the invariant.
LEMMA ModuleNextInv == ModuleInv /\ [ModuleNext]_mvars => ModuleInv'
<1> SUFFICES ASSUME ModuleInv, [ModuleNext]_mvars PROVE ModuleInv'
  OBVIOUS
<1>1. CASE UNCHANGED mvars
  BY <1>1 DEF mvars, config, profile, pipeline, ModuleInv, ModuleTypeOK, ControlInv, BindingInv,
              ProfileInv, HandlerInv, ConfigInv, Own, Listed, Loaded, Filter, FirstSlot
<1>2. CASE Load
  BY <1>2, LoadBeginInv, StartPipelineInv, StartFailsInv, ResolveNamesInv, BindInv, BindFailsInv,
     LoadDoneInv DEF Load
<1>3. CASE Unload
  BY <1>3, ShutdownBeginInv, StopBeginInv, StopEndInv, UnbindInv, DestroyInv DEF Unload
<1>4. ASSUME NEW t \in Thread, NEW b \in bindings, Deliver(t, b) PROVE ModuleInv'
  BY <1>4, DeliverInv
<1>5. ASSUME NEW t \in Thread, EventHandler(t) PROVE ModuleInv'
  BY <1>5, SerializeFailsInv, EnqueueBeginInv, EnqueueEndInv, PublishOnDestroyedInv
     DEF EventHandler
<1>6. CASE WorkerFails
  BY <1>6, WorkerFailsInv
<1> QED
  BY <1>1, <1>2, <1>3, <1>4, <1>5, <1>6 DEF ModuleNext

\* The inductive invariant holds of every interleaving of loads, unloads, dispatch
\* threads and failures of the worker.
THEOREM ModuleInvariant == ModuleSpec => []ModuleInv
BY ModuleInitInv, ModuleNextInv, PTL DEF ModuleSpec

-----------------------------------------------------------------------------
\* The adapter's variables keep their types: the profile is never indexed beyond
\* its slots, whatever filter the file has.
THEOREM ModuleTypeCorrect == ModuleSpec => []ModuleTypeOK
<1>1. ModuleInv => ModuleTypeOK
  BY DEF ModuleInv
<1> QED
  BY <1>1, ModuleInvariant, PTL

\* However dispatch threads race with loads and unloads, a handler runs on the
\* publisher that exists, or on one whose load failed half way through its binds.
THEOREM HandlersAreSafe == ModuleSpec => []HandlersUseLivePublisher
<1>1. ModuleInv => HandlersUseLivePublisher
  BY DEF ModuleInv, HandlerInv, HandlersUseLivePublisher
<1> QED
  BY <1>1, ModuleInvariant, PTL

\* No load or unload leaves the outbox locked, and only a load that failed half
\* way leaves bindings: the next load is as good as the first.
THEOREM UnloadIsComplete == ModuleSpec => []NothingLeftBehind
<1>1. ModuleInv => NothingLeftBehind
  BY DEF ModuleInv, ControlInv, BindingInv, Own, NothingLeftBehind
<1> QED
  BY <1>1, ModuleInvariant, PTL

\* An admission that tested accept_ commits into the open outbox of its own
\* publisher, although shutdown closes it from another thread.
THEOREM AdmissionIsCovered == ModuleSpec => []CommitsIntoOpenOutbox
<1>1. ModuleInv => CommitsIntoOpenOutbox
  BY DEF ModuleInv, HandlerInv, CommitsIntoOpenOutbox
<1> QED
  BY <1>1, ModuleInvariant, PTL

\* The static profile lists the loaded module's bindings, whatever earlier loads,
\* failed ones included, left in it.
THEOREM ProfileIsExact == ModuleSpec => []ProfileListsBindings
<1>1. ASSUME ModuleInv, module # 0, loader = "idle"
      PROVE  {b \in bindings : b.publisher = module}
               = UNION {nodes[i] : i \in FirstSlot(subs) .. subs}
  <2>1. module = loads /\ Listed(FirstSlot(subs), subs)
    BY <1>1 DEF ModuleInv, ControlInv, ProfileInv, Loaded
  <2>2. QED
    BY <2>1 DEF Listed, Own
<1>2. ModuleInv => ProfileListsBindings
  BY <1>1 DEF ProfileListsBindings
<1> QED
  BY <1>2, ModuleInvariant, PTL

\* Whatever is written in the file, and when it cannot be read, the pipeline gets
\* usable limits, a topic, and a protocol that fits the credentials.
THEOREM ConfigurationIsUsable == ModuleSpec => []ConfigurationUsable
<1>1. ModuleInv => ConfigurationUsable
  <2> SUFFICES ASSUME ModuleInv PROVE ConfigurationUsable
    OBVIOUS
  <2>1. globals.outbox_ttl_ms \in Int
    BY DEF ModuleInv, ConfigInv
  <2>2. cfg.outbox_ttl_ms >= 0
    BY <2>1 DEF cfg, PipelineConfig
  <2>3. cfg.topic # ""
    <3>1. TopicOf(globals) # ""
      BY DEF TopicOf, TextOr
    <3>2. cfg.topic = TopicOf(globals)
      BY DEF cfg, PipelineConfig
    <3>3. QED
      BY <3>1, <3>2
  <2>4. cfg.outbox_max_rows > 0 /\ cfg.buffer_size > 0 /\ cfg.message_timeout_ms > 0
    BY DEF cfg, PipelineConfig, PositiveOr
  <2>5. ProducerConf(cfg).sasl /\ cfg.security_protocol = ""
          => ProducerConf(cfg).protocol = "SASL_PLAINTEXT"
    BY DEF ProducerConf
  <2> QED
    BY <2>2, <2>3, <2>4, <2>5 DEF ConfigurationUsable
<1> QED
  BY <1>1, ModuleInvariant, PTL
=============================================================================
