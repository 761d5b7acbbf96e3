---------------------------- MODULE GraphLoader ----------------------------
(***************************************************************************)
(* load_graph_node of graph_io.cpp: a document with subgraphs, templates   *)
(* and template instances becomes one flat graph.  A dotted identifier is  *)
(* the sequence of its segments, so "s" + "." + "a" is Append(<<"s">>,     *)
(* "a") and two different ways to write one id collide here as they do in  *)
(* the program.  A mapping of the document is a record of the fields it    *)
(* gives; the mappings inside a component (execution, boundary) and inside *)
(* an edge (policy) are written as fields of the component and the edge.   *)
(* The YAML fields nothing here reads, the checks of node types, UTF-8 and *)
(* the lengths of strings that are no identifiers are left out.            *)
(***************************************************************************)
EXTENDS Naturals, SequencesExt

CONSTANTS
    Holes,              \* function from a placeholder "{{name}}" to the parameter it names
    MaxLanes, MaxComponents, MaxEdges, MaxLoops,    \* the counts of GraphInputLimits
    MaxIdentifier       \* max_identifier_bytes, in segments

ASSUME LoaderAssumption == {MaxLanes, MaxComponents, MaxEdges, MaxLoops, MaxIdentifier} \subseteq Nat

\* component_id_from_endpoint: everything before the last dot, or the whole endpoint.
ComponentOf(endpoint) == IF Len(endpoint) = 1 THEN endpoint ELSE Front(endpoint)

\* port_name_from_endpoint: what follows the last dot, if there is one.
HasPort(endpoint) == Len(endpoint) > 1

PortOf(endpoint) == Last(endpoint)

Ids(entries) == [i \in DOMAIN entries |-> entries[i].id]

-----------------------------------------------------------------------------
(* The readers of the document's mappings.                                 *)

\* optional_string, optional_int and the like: a field that is not given takes its default.
Filled(node, defaults) == node @@ defaults

\* require_string, require_node and reject_unknown_fields throw.
Malformed(node, required, defaults) ==
    ~(required \subseteq DOMAIN node) \/ ~(DOMAIN node \subseteq required \cup DOMAIN defaults)

LaneDefaults == [max_threads |-> 0, queue_capacity |-> 0, period_ms |-> 0, tick_budget_ms |-> 0,
                 overflow |-> "reject", overrun_policy |-> "drop_tick"]

EventSourceDefaults == [type |-> "manual", inputs |-> {}, input |-> "", period_ms |-> 0]

TriggerDefaults == [type |-> "manual", inputs |-> {}, input |-> "", batch_size |-> 0, batch_window_ms |-> 0,
                    sync_slop_ms |-> 0, min_interval_ms |-> 0, max_latency_ms |-> 0,
                    watermark_lateness_ms |-> 0, debounce_window_ms |-> 0, condition |-> "all_inputs_ready"]

\* Without event_sources a component has one, a default one.
ComponentDefaults == [event_sources |-> {EventSourceDefaults}, trigger_policy |-> TriggerDefaults,
                      priority |-> "normal", on_error |-> "fail_fast", depends_on |-> {},
                      role |-> "processing", config |-> <<>>]

EdgeDefaults == [kind |-> "immediate", mode |-> "latest", capacity |-> 1, overflow |-> "overwrite", max_inflight |-> 0,
                 timestamp_domain |-> "steady", copy_policy |-> "copy", owner |-> "runtime", readers |-> "single"]

LoopDefaults == [budget_ms |-> 0, max_iterations |-> 0, max_inflight |-> 0, min_interval_ms |-> 0,
                 convergence |-> "", residual_threshold |-> 0, partial_success |-> ""]

HeaderDefaults == [kind |-> "runnable", runtime_domain |-> "steady", event_domain |-> "steady", loops |-> <<>>,
                   hierarchy |-> <<>>]

EdgeKinds == {"immediate", "delay", "state", "async"}

Roles == {"processing", "input", "output", "input_output"}

\* The singular field counts only when the plural one lists nothing.
WithInput(spec) == [spec EXCEPT !.inputs = IF spec.input # "" /\ @ = {} THEN {spec.input} ELSE @]

ReadEventSource(node) == WithInput(Filled(node, EventSourceDefaults))

ReadTriggerPolicy(node) == WithInput(Filled(node, TriggerDefaults))

ReadComponent(node) ==
    [Filled(node, ComponentDefaults) EXCEPT !.event_sources = {ReadEventSource(s) : s \in @},
                                            !.trigger_policy = ReadTriggerPolicy(@)]

\* A kind that is missing or unknown leaves the edge immediate, and the graph to be refused.
ReadEdge(node) ==
    LET known == "kind" \in DOMAIN node /\ node.kind \in EdgeKinds
    IN  [Filled(node, EdgeDefaults) EXCEPT !.kind = IF known THEN @ ELSE "immediate"] @@ [known_kind |-> known]

ReadLoop(node) == Filled(node, LoopDefaults)

ReadLane(node) == Filled(node, LaneDefaults)

\* The components, edges and loops of the document, of a subgraph or of a template.
ReadBody(body) ==
    [body EXCEPT !.components = [i \in DOMAIN @ |-> ReadComponent(@[i])],
                 !.edges = [i \in DOMAIN @ |-> ReadEdge(@[i])],
                 !.loops = [i \in DOMAIN @ |-> ReadLoop(@[i])]]

ReadGraph(graph) ==
    LET filled == Filled(graph, HeaderDefaults)
    IN  [ReadBody(filled) EXCEPT !.lanes = [i \in DOMAIN @ |-> ReadLane(@[i])]]

\* The exceptions of read_component_node and of the readers it calls.
ComponentMalformed(node) ==
    \/ Malformed(node, {"id", "type", "lane"}, ComponentDefaults)
    \/ \E s \in Filled(node, ComponentDefaults).event_sources : Malformed(s, {}, EventSourceDefaults)
    \/ Malformed(Filled(node, ComponentDefaults).trigger_policy, {}, TriggerDefaults)
    \/ Filled(node, ComponentDefaults).role \notin Roles

LoopMalformed(node) == Malformed(node, {"id", "components", "type"}, LoopDefaults) \/ node.components = {}

BodyMalformed(body) ==
    \/ \E c \in Range(body.components) : ComponentMalformed(c)
    \/ \E e \in Range(body.edges) : Malformed(e, {"id", "from", "to"}, EdgeDefaults)
    \/ \E l \in Range(body.loops) : LoopMalformed(l)

GraphMalformed(graph) ==
    \/ Malformed(graph, {"schema_version", "lanes", "components", "edges"}, HeaderDefaults)
    \/ graph.schema_version # 1
    \/ \E l \in Range(graph.lanes) : Malformed(l, {"id", "type"}, LaneDefaults)
    \/ BodyMalformed(Filled(graph, HeaderDefaults))

-----------------------------------------------------------------------------
(* Templates and subgraphs.                                                *)

\* substitute_placeholders on one string; the value of an unknown name is never read, since
\* SubstitutionFails refuses the document first.
Substitute(values, s) ==
    IF s \in DOMAIN Holes /\ Holes[s] \in DOMAIN values THEN values[Holes[s]] ELSE s

SubstituteId(values, id) == [k \in DOMAIN id |-> Substitute(values, id[k])]

SubstituteAll(values, ids) == {SubstituteId(values, id) : id \in ids}

\* substitute_template_node on the three parts of a template's body.
SubstituteBody(values, body) ==
    [body EXCEPT
        !.components = [i \in DOMAIN @ |-> [@[i] EXCEPT !.id = SubstituteId(values, @),
                                                        !.type = Substitute(values, @),
                                                        !.lane = Substitute(values, @),
                                                        !.depends_on = SubstituteAll(values, @)]],
        !.edges = [i \in DOMAIN @ |-> [@[i] EXCEPT !.id = SubstituteId(values, @),
                                                   !.from = SubstituteId(values, @),
                                                   !.to = SubstituteId(values, @)]],
        !.loops = [i \in DOMAIN @ |-> [@[i] EXCEPT !.id = SubstituteId(values, @),
                                                   !.components = SubstituteAll(values, @)]]]

\* The strings of a body in which a placeholder may stand.
Strings(body) ==
    LET segments(ids) == UNION {Range(id) : id \in ids}
    IN  UNION ({segments({c.id} \cup c.depends_on) \cup {c.type, c.lane} : c \in Range(body.components)}
               \cup {segments({e.id, e.from, e.to}) : e \in Range(body.edges)}
               \cup {segments({l.id} \cup l.components) : l \in Range(body.loops)})

\* read_template_instance_parameters and substitute_placeholders throw: a value for a parameter
\* that is not declared, a declared one without a value, or a placeholder that names neither.
SubstitutionFails(template, values) ==
    \/ DOMAIN values # Range(template.parameters)
    \/ \E s \in Strings(ReadBody(template)) \cap DOMAIN Holes : Holes[s] \notin DOMAIN values

-----------------------------------------------------------------------------

\* append_subgraph_expansion: prefixed_id for components, edges and loops, namespace_endpoint for
\* both ends of an edge and namespace_component_refs for depends_on and loop members.
Prefixed(namespace, id) == namespace \o id

NamespaceEndpoint(namespace, endpoint) == namespace \o endpoint

NamespaceRefs(namespace, refs) == {Prefixed(namespace, r) : r \in refs}

AppendSubgraph(graph, sub) ==
    LET components == [i \in DOMAIN sub.components |->
                          [sub.components[i] EXCEPT !.id = Prefixed(sub.id, @),
                                                    !.depends_on = NamespaceRefs(sub.id, @)]]
        edges == [i \in DOMAIN sub.edges |->
                     [sub.edges[i] EXCEPT !.id = Prefixed(sub.id, @),
                                          !.from = NamespaceEndpoint(sub.id, @),
                                          !.to = NamespaceEndpoint(sub.id, @)]]
        loops == [i \in DOMAIN sub.loops |->
                     [sub.loops[i] EXCEPT !.id = Prefixed(sub.id, @),
                                          !.components = NamespaceRefs(sub.id, @)]]
    IN  [graph EXCEPT !.components = @ \o components,
                      !.edges = @ \o edges,
                      !.loops = @ \o loops,
                      !.hierarchy = Append(@, [id |-> sub.id,
                                               components |-> Range(Ids(components)),
                                               edges |-> Range(Ids(edges)),
                                               loops |-> Range(Ids(loops))])]

TemplateOf(document, instance) ==
    CHOOSE t \in Range(document.templates) : t.id = instance.template

\* append_template_instance_expansion: the instance's id becomes the namespace of the body.
\* No default holds a placeholder, so substituting what was read is reading what was substituted.
InstanceBody(document, instance) ==
    LET body == SubstituteBody(instance.values, ReadBody(TemplateOf(document, instance)))
    IN  [body EXCEPT !.id = instance.id]

\* The exceptions of load_graph_node.  Subgraph ids and template ids must be distinct; the ids
\* of instances are not compared here, and a template is read only where it is instantiated.
LoadFails(document) ==
    \/ GraphMalformed(document.graph)
    \/ Len(document.graph.lanes) > MaxLanes \/ Len(document.templates) > MaxComponents
    \/ ~IsInjective(Ids(document.subgraphs))
    \/ ~IsInjective(Ids(document.templates))
    \/ \E s \in Range(document.subgraphs) : s.components = <<>> \/ BodyMalformed(s)
    \/ \E t \in Range(document.templates) : ~IsInjective(t.parameters)
    \/ \E x \in Range(document.instances) :
          \/ x.template \notin Range(Ids(document.templates))
          \/ BodyMalformed(TemplateOf(document, x))
          \/ SubstitutionFails(TemplateOf(document, x), x.values)
          \/ InstanceBody(document, x).components = <<>>

Flatten(document) ==
    LET own == ReadGraph(document.graph)
        subgraphs == [i \in DOMAIN document.subgraphs |-> ReadBody(document.subgraphs[i])]
        instances == [i \in DOMAIN document.instances |-> InstanceBody(document, document.instances[i])]
    IN  FoldLeft(AppendSubgraph, own, subgraphs \o instances)

\* The counts are limited on what the document lists and again on what it expanded to.
LimitsExceeded(graph) ==
    \/ Len(graph.components) > MaxComponents
    \/ Len(graph.edges) > MaxEdges
    \/ Len(graph.loops) > MaxLoops

\* enforce_graph_string_limits, and prefixed_id and namespace_endpoint before it: a namespace can
\* make an identifier too long.  The endpoints of edges outside a subgraph are not limited.
IdentifierTooLong(graph) ==
    LET namespaced == {e \in Range(graph.edges) : \E h \in Range(graph.hierarchy) : e.id \in h.edges}
        identifiers == UNION ({{c.id} \cup c.depends_on : c \in Range(graph.components)}
                              \cup {{e.id} : e \in Range(graph.edges)}
                              \cup {{ComponentOf(e.from), ComponentOf(e.to)} : e \in namespaced}
                              \cup {{l.id} \cup l.components : l \in Range(graph.loops)}
                              \cup {{h.id} : h \in Range(graph.hierarchy)})
    IN  \E id \in identifiers : Len(id) > MaxIdentifier
=============================================================================
