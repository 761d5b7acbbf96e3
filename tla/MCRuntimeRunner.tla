-------------------------- MODULE MCRuntimeRunner --------------------------
EXTENDS RuntimeRunner

In(name, schema, required) ==
    [name |-> name, schema |-> schema, payload_type |-> "", single |-> TRUE, required |-> required]

Descriptor(type, role, inputs, outputs) ==
    [type |-> type, lane |-> "", role |-> role, throws |-> FALSE, inputs |-> inputs, outputs |-> outputs,
     config_fields |-> {}]

Gain == [name |-> "gain", required |-> TRUE, allow_nested |-> FALSE, kind |-> "int", enum |-> {}, min |-> 0, max |-> 5]

MCRegistry ==
    [source |-> Descriptor("source", "input", {}, {In("out", "frame", FALSE)}),
     sink |-> Descriptor("sink", "output", {In("in", "frame", TRUE)}, {}),
     odd |-> Descriptor("odd", "processing", {In("in", "text", FALSE)}, {In("out", "text", FALSE)}),
     scaler |-> [Descriptor("scaler", "processing", {In("in", "", FALSE)}, {In("out", "frame", FALSE)})
                    EXCEPT !.config_fields = {Gain}],
     broken |-> [Descriptor("broken", "processing", {}, {}) EXCEPT !.throws = TRUE]]

Comp(id, type, sources) ==
    [id |-> id, type |-> type, lane |-> "main", event_sources |-> sources, trigger_policy |-> [type |-> "any_input"],
     depends_on |-> {}, config |-> <<>>]

Source(id) == [id |-> id, type |-> "source", lane |-> "main", depends_on |-> {}]

Sink(id) == Comp(id, "sink", {[type |-> "message", input |-> "in"]})

Edge(id, from, to) ==
    [id |-> id, from |-> from, to |-> to, kind |-> "immediate", mode |-> "queue", overflow |-> "reject",
     owner |-> "runtime"]

Lane(id) == [id |-> id, type |-> "event_loop", overflow |-> "reject"]

Loop(id, components) == [id |-> id, components |-> components, type |-> "fixed_point", max_iterations |-> 1]

\* A source that feeds a sink.
Pair == [schema_version |-> 1, kind |-> "runnable", lanes |-> <<Lane("main")>>,
         components |-> <<Source(<<"a">>), Sink(<<"b">>)>>,
         edges |-> <<Edge(<<"ab">>, <<"a", "out">>, <<"b", "in">>)>>, loops |-> <<>>]

Without(node, field) == [f \in DOMAIN node \ {field} |-> node[f]]

Flat(g) == [graph |-> g, subgraphs |-> <<>>, templates |-> <<>>, instances |-> <<>>]

Plain == Flat(Pair)

Sub(id) == [id |-> id, parameters |-> <<>>, components |-> Pair.components, edges |-> Pair.edges, loops |-> <<>>]

Self == [Comp(<<"c">>, "scaler", {[type |-> "message", inputs |-> {"in"}]}) EXCEPT
            !.config = [gain |-> [nested |-> FALSE, kind |-> "int", num |-> 3, text |-> ""]]]

SelfEdge == Edge(<<"cc">>, <<"c", "out">>, <<"c", "in">>)

Hosted(part) == [Plain EXCEPT !.subgraphs = <<part>>]

Template == [Sub(<<"t">>) EXCEPT !.parameters = <<"p">>, !.components[1].type = "{{p}}"]

Instance(id, values) == [id |-> id, template |-> <<"t">>, values |-> values]

Templated(uses) == [Plain EXCEPT !.templates = <<Template>>, !.instances = uses]

\* A source with two sinks, whose edges have the given owners.
Fan(first, second) ==
    [Plain EXCEPT !.graph.components = Append(@, Sink(<<"d">>)),
                  !.graph.edges = <<[@[1] EXCEPT !.owner = first],
                                    [Edge(<<"ad">>, <<"a", "out">>, <<"d", "in">>) EXCEPT !.owner = second]>>]

\* Documents that are accepted.
Good ==
    {Plain,
     Hosted(Sub(<<"s">>)),
     Templated(<<Instance(<<"s">>, [p |-> "source"])>>),
     [Plain EXCEPT !.graph.components = Append(@, Self), !.graph.edges = Append(@, SelfEdge),
                   !.graph.loops = <<Loop(<<"l">>, {<<"c">>})>>],
     [Plain EXCEPT !.graph = Without(@, "loops"), !.graph.edges = <<Edge(<<"ab">>, <<"a">>, <<"b", "in">>)>>],
     Fan("producer", "runtime")}

\* One defect each.
Bad ==
    {Fan("runtime", "producer"),
     [Plain EXCEPT !.graph.kind = "draft"],
     [Plain EXCEPT !.graph.schema_version = 2],
     [Plain EXCEPT !.graph = Without(@, "edges")],
     [Plain EXCEPT !.graph.lanes[1] = [frequency |-> 1] @@ @],
     [Plain EXCEPT !.graph.components[1] = Without(@, "lane")],
     [Plain EXCEPT !.graph.components[1] = [role |-> "observer"] @@ @],
     [Plain EXCEPT !.graph.components[2].event_sources = {[type |-> "message", port |-> "in"]}],
     [Plain EXCEPT !.graph.edges[1] = Without(@, "kind")],
     [Plain EXCEPT !.graph.edges[1].kind = "direct"],
     [Plain EXCEPT !.graph.loops = <<Loop(<<"l">>, {})>>],
     Hosted(Sub(<<"s", "t", "u">>)),
     Hosted([Sub(<<"s">>) EXCEPT !.edges[1] = Without(@, "to")]),
     [Plain EXCEPT !.graph.lanes[1].overflow = "spill"],
     [Plain EXCEPT !.graph.lanes = <<>>],
     [Plain EXCEPT !.graph.components[1].lane = "other"],
     [Plain EXCEPT !.graph.components[2].event_sources = {}],
     [Plain EXCEPT !.graph.components[2].event_sources = {[type |-> "message", input |-> "in", inputs |-> {"aux"}]}],
     [Plain EXCEPT !.graph.components[2].trigger_policy.type = "batch"],
     [Plain EXCEPT !.graph.components[1].type = "broken"],
     [Plain EXCEPT !.graph.components[1].type = "odd"],
     [Plain EXCEPT !.graph.components[1].depends_on = {<<"b">>}, !.graph.components[2].depends_on = {<<"a">>}],
     [Plain EXCEPT !.graph.components = <<Sink(<<"b">>)>>],
     [Plain EXCEPT !.graph.components = @ \o <<Self, Source(<<"a">>)>>, !.graph.edges = Append(@, SelfEdge)],
     [Plain EXCEPT !.graph.components = Append(@, Self), !.graph.edges = Append(@, SelfEdge)],
     [Plain EXCEPT !.graph.edges = <<>>],
     [Plain EXCEPT !.graph.edges[1].mode = "latest", !.graph.edges[1].overflow = "block"],
     [Plain EXCEPT !.graph.edges[1].to = <<"b", "aux">>],
     [Plain EXCEPT !.graph.edges = Append(@, Edge(<<"ab2">>, <<"a", "out">>, <<"b", "in">>))],
     [Plain EXCEPT !.graph.edges = <<[@[1] EXCEPT !.kind = "state"], Edge(<<"x">>, <<"b", "out">>, <<"b", "in">>)>>],
     \* the top-level component "s.a" has the id of component "a" of subgraph "s"
     [Hosted(Sub(<<"s">>)) EXCEPT !.graph.components = Append(@, Source(<<"s", "a">>))],
     \* an endpoint without a port names the component "s" once it is prefixed
     Hosted([Sub(<<"s">>) EXCEPT !.edges = <<Edge(<<"ab">>, <<"a">>, <<"b", "in">>)>>]),
     [Plain EXCEPT !.subgraphs = <<Sub(<<"s">>), Sub(<<"s">>)>>],
     Hosted([Sub(<<"s">>) EXCEPT !.components = <<>>]),
     [Templated(<<Instance(<<"s">>, [p |-> "source"])>>) EXCEPT !.subgraphs = <<Sub(<<"s">>)>>],
     Templated(<<Instance(<<"s">>, <<>>)>>),
     Templated(<<Instance(<<"s">>, [q |-> "source"])>>),
     Templated(<<Instance(<<"s">>, [p |-> "source"]), Instance(<<"u">>, [p |-> "source"])>>)}

MCDocuments == Good \cup Bad

MCHoles == [h \in {"{{p}}"} |-> "p"]

Option(mode, restore, reset, capture, observers) ==
    [mode |-> mode, restore |-> restore, reset |-> reset, capture |-> capture, observers |-> observers]

MCOptions ==
    {Option("validate", <<>>, <<>>, FALSE, 1), Option("dry_run", <<>>, <<>>, FALSE, 0)}
    \cup {Option("run", restore, reset, capture, 1) :
             restore \in {<<>>, <<[id |-> <<"a">>, type |-> "source"], [id |-> <<"b">>, type |-> ""]>>,
                          <<[id |-> <<"a">>, type |-> "sink"], [id |-> <<"z">>, type |-> ""]>>},
             reset \in {<<>>, <<<<"b">>, <<"a">>, <<"b">>>>}, capture \in BOOLEAN}
=============================================================================
