-------------------------- MODULE GraphValidation --------------------------
(***************************************************************************)
(* validate_graph_impl of graph.cpp: the errors a flat graph is refused    *)
(* for.  An error is a tuple of the rule and the id it is reported on; the *)
(* wording, the paths, the suggested fixes, and the warnings and           *)
(* advisories, which never refuse a graph, are left out.  Registry[t] is   *)
(* what describe() of a component of the registered type t returns.  Empty *)
(* ids and names, and ids listed twice in depends_on or in a loop, have no *)
(* value here: ids are nonempty paths and both lists are sets.             *)
(***************************************************************************)
EXTENDS GraphLoader, Integers, FiniteSetsExt, Relation

CONSTANT
    Registry            \* function from the registered types to their descriptors

-----------------------------------------------------------------------------
\* The values the schema allows.

SchedulerTypes == {"fixed_rate", "event_loop", "thread_pool"}

ChannelTypes == {"latest", "queue", "ring_buffer", "latched", "barrier", "previous_tick"}

LatestStyle == {"latest", "latched", "previous_tick"}

DropPolicies == {"overwrite", "drop_oldest", "drop_newest", "block", "fail_fast", "reject"}

LaneOverflows == DropPolicies \cup {"reject_new"}

OverrunPolicies == {"drop_tick", "skip_next", "catch_up_once"}

PriorityNames == {"", "background", "low", "normal", "high"}

CopyPolicies == {"copy", "shared_view", "loaned_view", "move_only"}

Owners == {"producer", "runtime", "consumer"}

ReaderCounts == {"single", "multi", "multiple"}

EventSourceTypes == {"message", "timer", "request", "task_ready", "future_ready", "manual"}

InputDriven == {"on_event", "any_input", "all_inputs", "time_sync", "batch", "watermark", "condition",
                "debounce", "rate_limit"}

TriggerTypes == InputDriven \cup {"request", "task_ready", "manual"}

Conditions == {"all_inputs_ready", "any_input_ready", "event_timestamp_present"}

LoopTypes == {"fixed_point", "transaction", "solver_iteration", "coalesced_event", "async_task"}

Convergences == {"", "single_pass", "after_first_iteration", "always", "stable_state"}

PartialSuccesses == {"", "commit_outputs", "discard_outputs", "fail_run"}

TimestampDomains == {"steady", "system", "device", "external"}

HasInputRole(role) == role \in {"input", "input_output"}

HasOutputRole(role) == role \in {"output", "input_output"}

-----------------------------------------------------------------------------

\* Reported(rule, entries, wrong): rule is reported on the id of each entry that is wrong.
Reported(rule, entries, wrong(_)) == {<<rule, x.id>> : x \in {y \in Range(entries) : wrong(y)}}

\* The second and later entries that use an id.
Duplicates(rule, entries) ==
    {<<rule, entries[i].id>> : i \in {j \in DOMAIN entries : \E k \in 1 .. j - 1 : entries[k].id = entries[j].id}}

Negative(record, fields) == \E f \in fields : record[f] < 0

HeaderErrors(g) ==
    {<<"graph", f>> : f \in {x \in {"kind", "runtime_domain", "event_domain"} :
        CASE x = "kind" -> g.kind \notin {"runnable", "internal_test"}
          [] x = "runtime_domain" -> g.runtime_domain # "steady"
          [] x = "event_domain" -> g.event_domain \notin TimestampDomains}}

LaneErrors(g) ==
    Duplicates("duplicate_lane", g.lanes)
    \cup Reported("lane", g.lanes, LAMBDA l :
            \/ l.type \notin SchedulerTypes
            \/ Negative(l, {"max_threads", "queue_capacity", "period_ms", "tick_budget_ms"})
            \/ l.overflow \notin LaneOverflows
            \/ l.overrun_policy \notin OverrunPolicies)

-----------------------------------------------------------------------------

HasTimer(c) == \E s \in c.event_sources : s.type = "timer"

HasMessageSource(c) ==
    \E s \in c.event_sources : s.type \in {"message", "request", "task_ready", "future_ready"}

\* trigger_policy_inputs_for.
TriggerInputs(c) ==
    IF c.trigger_policy.inputs # {} THEN c.trigger_policy.inputs
                                    ELSE UNION {s.inputs : s \in c.event_sources}

MissingLane(g, c) == c.lane \notin {l.id : l \in Range(g.lanes)}

TriggerErrors(g) ==
    Reported("trigger_policy", g.components, LAMBDA c :
        LET t == c.trigger_policy
        IN  \/ t.type \notin TriggerTypes
            \/ t.type \in InputDriven /\ HasMessageSource(c) /\ TriggerInputs(c) = {}
            \/ Negative(t, {"batch_size", "batch_window_ms", "sync_slop_ms", "min_interval_ms",
                            "max_latency_ms", "watermark_lateness_ms", "debounce_window_ms"})
            \/ t.debounce_window_ms > 0
            \/ t.type = "batch" /\ t.batch_size <= 0 /\ t.batch_window_ms <= 0
            \/ t.type = "condition" /\ t.condition \notin Conditions
            \/ t.type = "rate_limit" /\ t.min_interval_ms <= 0)

SourceErrors(g) ==
    Reported("event_source", g.components, LAMBDA c :
        \/ c.event_sources = {}
        \/ \E s \in c.event_sources :
              \/ s.type \notin EventSourceTypes
              \/ s.type = "timer" /\ s.period_ms <= 0
              \/ s.type = "message" /\ s.inputs = {}
        \/ HasTimer(c) /\ HasMessageSource(c))

\* validate_component_config.  A value is [nested, kind, num]: kind "text", "bool", "int",
\* "real" or "nan", which passes both comparisons; num is its number, if it is one.
ConfigWrong(field, config) ==
    IF field.name \notin DOMAIN config THEN field.required
    ELSE LET v == config[field.name]
             numeric == v.kind \in {"int", "real"}
         IN  \/ v.nested /\ ~field.allow_nested
             \/ /\ ~v.nested \/ field.allow_nested
                /\ CASE field.kind = "string" -> field.enum # {} /\ v.text \notin field.enum
                     [] field.kind = "bool" -> v.kind # "bool"
                     [] OTHER -> \/ ~numeric /\ v.kind # "nan"
                                 \/ field.kind = "int" /\ v.kind # "int"
                                 \/ numeric /\ ~(v.num >= field.min /\ v.num <= field.max)

\* boundary_roles_compatible.
RolesCompatible(role, described) ==
    /\ HasInputRole(role) => HasInputRole(described)
    /\ HasOutputRole(role) => HasOutputRole(described)

\* The descriptors the probe of the registry obtained: by component id, the last one wins.
Probed(c) == c.type \in DOMAIN Registry /\ ~Registry[c.type].throws

ComponentErrors(g) ==
    Duplicates("duplicate_component", g.components)
    \cup Reported("missing_lane", g.components, LAMBDA c : MissingLane(g, c))
    \cup Reported("execution", g.components, LAMBDA c : c.priority \notin PriorityNames \/ c.on_error # "fail_fast")
    \cup SourceErrors(g) \cup TriggerErrors(g)
    \cup Reported("not_registered", g.components, LAMBDA c : ~Probed(c))
    \cup Reported("descriptor", g.components, LAMBDA c :
            /\ Probed(c)
            /\ LET d == Registry[c.type]
               IN  \/ d.type # c.type
                   \/ d.lane # "" /\ d.lane # c.lane
                   \/ ~RolesCompatible(c.role, d.role)
                   \/ \E f \in d.config_fields : ConfigWrong(f, c.config))

BoundaryErrors(g) ==
    LET roles == {c.role : c \in Range(g.components)}
                 \cup {Registry[c.type].role : c \in {x \in Range(g.components) : Probed(x)}}
    IN  IF g.kind # "runnable" THEN {}
        ELSE {<<"boundary", b>> : b \in {x \in {"input", "output"} :
                 \A r \in roles : IF x = "input" THEN ~HasInputRole(r) ELSE ~HasOutputRole(r)}}

-----------------------------------------------------------------------------

Component(g, id) == CHOOSE c \in Range(g.components) : c.id = id

Exists(g, id) == id \in Range(Ids(g.components))

Described(g, id) == Exists(g, id) /\ Probed(Component(g, id))

Outputs(g, id) == Registry[Component(g, id).type].outputs

Inputs(g, id) == Registry[Component(g, id).type].inputs

Port(ports, name) == CHOOSE p \in ports : p.name = name

\* port_contracts_compatible: an empty schema or payload type matches anything.
Compatible(output, input) ==
    \A f \in {"schema", "payload_type"} : output[f] = "" \/ input[f] = "" \/ output[f] = input[f]

PolicyWrong(e) ==
    \/ ~e.known_kind
    \/ e.mode \notin ChannelTypes
    \/ e.capacity <= 0
    \/ e.max_inflight < 0
    \/ e.max_inflight > 0 /\ e.kind # "async"
    \/ e.overflow \notin DropPolicies
    \/ e.mode \in LatestStyle /\ e.overflow \in {"drop_newest", "block"}
    \/ e.timestamp_domain \notin TimestampDomains
    \/ e.copy_policy \notin CopyPolicies \/ e.owner \notin Owners \/ e.readers \notin ReaderCounts
    \/ e.copy_policy = "move_only" /\ e.readers # "single"

\* An endpoint without a port is not compared with the descriptor.
MissingOutput(g, e) ==
    /\ HasPort(e.from) /\ Described(g, ComponentOf(e.from))
    /\ \A p \in Outputs(g, ComponentOf(e.from)) : p.name # PortOf(e.from)

MissingInput(g, e) ==
    /\ HasPort(e.to) /\ Described(g, ComponentOf(e.to))
    /\ \A p \in Inputs(g, ComponentOf(e.to)) : p.name # PortOf(e.to)

PayloadMismatch(g, e) ==
    /\ HasPort(e.from) /\ Described(g, ComponentOf(e.from)) /\ ~MissingOutput(g, e)
    /\ HasPort(e.to) /\ Described(g, ComponentOf(e.to)) /\ ~MissingInput(g, e)
    /\ ~Compatible(Port(Outputs(g, ComponentOf(e.from)), PortOf(e.from)),
                   Port(Inputs(g, ComponentOf(e.to)), PortOf(e.to)))

\* A producer-owned edge must be the first edge from its source endpoint: a later edge with
\* another owner is let through.
ProducerErrors(g) ==
    {<<"producer_owned", g.edges[i].from>> : i \in {j \in DOMAIN g.edges :
        g.edges[j].owner = "producer" /\ \E k \in 1 .. j - 1 : g.edges[k].from = g.edges[j].from}}

\* The state edges that write one target endpoint.
StateWriters(g, target) == {i \in DOMAIN g.edges : g.edges[i].kind = "state" /\ g.edges[i].to = target}

EdgeErrors(g) ==
    Duplicates("duplicate_edge", g.edges)
    \cup Reported("edge_policy", g.edges, PolicyWrong)
    \cup Reported("missing_component", g.edges, LAMBDA e :
            ~Exists(g, ComponentOf(e.from)) \/ ~Exists(g, ComponentOf(e.to)))
    \cup ProducerErrors(g)
    \cup Reported("port", g.edges, LAMBDA e :
            MissingOutput(g, e) \/ MissingInput(g, e) \/ PayloadMismatch(g, e))
    \cup {<<"state_writers", t>> : t \in {x \in {e.to : e \in Range(g.edges)} : Cardinality(StateWriters(g, x)) > 1}}

\* The edges that end at a port of a component.
Incoming(g, id, port) == {i \in DOMAIN g.edges : g.edges[i].to = Append(id, port)}

\* Mutant: the inputs of triggers are not looked at.
PortErrorsOnly(g) ==
    Reported("input", g.components, LAMBDA c :
        \E p \in Inputs(g, c.id) : p.required /\ Incoming(g, c.id, p.name) = {})

InputErrors(g) ==
    Reported("input", g.components, LAMBDA c :
        /\ Described(g, c.id)
        /\ \E p \in Inputs(g, c.id) :
              LET n == Cardinality(Incoming(g, c.id, p.name))
              IN  p.name # "" /\ ((n = 0 /\ p.required) \/ (n > 1 /\ p.single)))
    \cup Reported("trigger_input", g.components, LAMBDA c :
            \E p \in TriggerInputs(c) : Incoming(g, c.id, p) = {})

-----------------------------------------------------------------------------

LoopPolicyErrors(g) ==
    Reported("loop_policy", g.loops, LAMBDA l :
        \/ l.type \notin LoopTypes
        \/ Negative(l, {"budget_ms", "max_iterations", "max_inflight", "min_interval_ms", "residual_threshold"})
        \/ l.convergence \notin Convergences
        \/ l.partial_success \notin PartialSuccesses)

HierarchyErrors(g) ==
    Duplicates("duplicate_subgraph", g.hierarchy)
    \cup Reported("missing_expanded", g.hierarchy, LAMBDA h :
            \/ ~(h.components \subseteq Range(Ids(g.components)))
            \/ ~(h.edges \subseteq Range(Ids(g.edges)))
            \/ ~(h.loops \subseteq Range(Ids(g.loops))))

\* What compile_graph_impl and compute_component_lifecycle_order report, by the reference
\* definition module GraphCompiler checks their algorithms against.  Left out is the refusal
\* that GraphCompiler allows where a loop is named like a component outside it.
CompileErrors(g) ==
    LET ids == Range(Ids(g.components))
        links == {<<ComponentOf(e.from), ComponentOf(e.to)>> : e \in {x \in Range(g.edges) : x.kind = "immediate"}}
        depends == UNION {{<<d, c.id>> : d \in c.depends_on} : c \in Range(g.components)}
        Closure(r) == TransitiveClosure([x, y \in ids |-> <<x, y>> \in r], ids)
        reaches == Closure(links)
        after == Closure(depends)
        cycles == {{d \in ids : reaches[c, d] /\ reaches[d, c]} : c \in {x \in ids : reaches[x, x]}}
    IN  {<<"lifecycle", c>> : c \in {x \in ids : after[x, x]}}
        \cup Reported("depends_on", g.components, LAMBDA c : ~(c.depends_on \subseteq ids))
        \cup Duplicates("duplicate_loop", g.loops)
        \cup Reported("loop", g.loops, LAMBDA l : l.components \notin cycles)
        \cup {<<"cycle", s>> : s \in {x \in cycles : Cardinality({i \in DOMAIN g.loops : g.loops[i].components = x}) # 1}}

\* A graph with duplicate component ids is not compiled.
ValidationErrors(g) ==
    LET duplicated == Duplicates("duplicate_component", g.components) # {}
    IN  HeaderErrors(g) \cup LaneErrors(g) \cup ComponentErrors(g) \cup BoundaryErrors(g)
        \cup EdgeErrors(g) \cup InputErrors(g) \cup LoopPolicyErrors(g) \cup HierarchyErrors(g)
        \cup IF duplicated THEN {} ELSE CompileErrors(g)
=============================================================================
