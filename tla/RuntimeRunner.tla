--------------------------- MODULE RuntimeRunner ---------------------------
(***************************************************************************)
(* RuntimeRunner::run of runtime_runner.cpp, from the document that is     *)
(* loaded to the result that is returned: validation, the lifecycle of the *)
(* components (configure, activate, restore, reset, snapshot, deactivate), *)
(* the handler of exceptions, and the observers told about the result.     *)
(* The hooks of components and observers are user code: each may succeed,  *)
(* report an error, or throw.  The handler of run() catches what is        *)
(* derived from std::exception and thrown inside the try block; anything   *)
(* else leaves run().  What EventRuntime::run does is module EventRuntime; *)
(* here it has an outcome.                                                 *)
(***************************************************************************)
EXTENDS GraphValidation

CONSTANTS
    Documents,          \* the documents that may be loaded
    Options,            \* the RuntimeRunnerOptions that may be passed
    MayThrow            \* the hooks that may throw

\* enum class RuntimeRunMode.
RunModes == {"validate", "dry_run", "run"}

\* The calls into user code.  configure_status, activate_status, deactivate_status and
\* reset_status are virtual, and the default ones turn only an std::exception into an error
\* status, so each of them may throw as well as restore_state and snapshot_state may.
\* "create" is the registry's factory with configure and activate.
Hooks == {"create", "restore", "reset", "run", "snapshot", "deactivate", "observer"}

ASSUME RunnerAssumption == MayThrow \subseteq Hooks /\ \A o \in Options : o.mode \in RunModes

VARIABLES
    doc,                \* the document
    opt,                \* [mode, restore, reset, capture, observers]
    phase,              \* where load_graph_text and run() stand
    graph,              \* the flat graph
    at,                 \* the index the loop of the phase is at
    instances,          \* the remembered instances: [id, started]
    ok,                 \* result.ok
    errors,             \* result.runtime_errors: sequence of [phase, id, fatal]
    restored,           \* components restore_state succeeded for
    resetDone,          \* components reset_status succeeded for
    executed,           \* EventRuntime::run was called
    snapshots,          \* result.component_state_snapshots
    stopped,            \* the calls of deactivate_status, in order
    seen,               \* the results the observers were given: sequence of [ok, errors]
    inTry,              \* control is inside the try block
    caught,             \* the handler of exceptions ran
    escaped             \* the hook whose exception left run(), or ""

vars == <<doc, opt, phase, graph, at, instances, ok, errors, restored, resetDone, executed,
          snapshots, stopped, seen, inTry, caught, escaped>>

\* What an exception changes.
control == <<inTry, caught, escaped>>

lifecycle == <<instances, restored, resetDone, executed, snapshots, stopped>>

Error(where, id, fatal) == [phase |-> where, id |-> id, fatal |-> fatal]

\* Mutant: an error that is not fatal leaves result.ok alone.
FailFatalOnly(where, id, fatal) ==
    ok' = (ok /\ ~fatal) /\ errors' = Append(errors, Error(where, id, fatal))

\* append_runtime_error, with result.ok = false where the code sets it.
Fail(where, id, fatal) == ok' = FALSE /\ errors' = Append(errors, Error(where, id, fatal))

\* has_fatal_runtime_error.
HasFatal == \E i \in DOMAIN errors : errors[i].fatal

Started == {i \in DOMAIN instances : instances[i].started}

InstanceFor(id) == {i \in Started : instances[i].id = id}

Go(p) == phase' = p /\ at' = 1

Init ==
    /\ doc \in Documents
    /\ opt \in Options
    /\ phase = "load"
    /\ graph = doc.graph
    /\ at = 1
    /\ instances = <<>>
    /\ ok = FALSE
    /\ errors = <<>>
    /\ restored = {} /\ resetDone = {} /\ snapshots = {}
    /\ executed = FALSE
    /\ stopped = <<>> /\ seen = <<>>
    /\ inTry = FALSE /\ caught = FALSE /\ escaped = ""

-----------------------------------------------------------------------------

\* load_graph_text: the flat graph, or an exception and no run.
Load ==
    /\ phase = "load"
    /\ LET refused == LoadFails(doc)
           flat == IF refused THEN doc.graph ELSE Flatten(doc)
       IN  /\ graph' = flat
           /\ Go(IF refused \/ LimitsExceeded(flat) \/ IdentifierTooLong(flat) THEN "not_loaded" ELSE "validate")
    /\ UNCHANGED <<doc, opt, ok, errors, seen, control, lifecycle>>

\* validate_graph's errors, one after the other, as errors of the phase that met them.
Refusals(where, wrong) == [i \in 1 .. Cardinality(wrong) |-> Error(where, <<>>, TRUE)]

\* dry_run_graph: the graph is validated once more and nothing is created.
DryRun(g) == LET wrong == ValidationErrors(g) IN [ok |-> wrong = {}, errors |-> Refusals("dry_run", wrong)]

\* validate_graph, and the two modes that stop after it.
Validate ==
    /\ phase = "validate"
    /\ LET refused == ValidationErrors(graph)
       IN  \/ /\ refused # {}
              /\ ok' = FALSE
              /\ errors' = errors \o Refusals("validate", refused)
              /\ Go("finish")
              /\ UNCHANGED inTry
           \/ /\ refused = {} /\ opt.mode = "validate"
              /\ ok' = TRUE
              /\ Go("finish")
              /\ UNCHANGED <<errors, inTry>>
           \/ /\ refused = {} /\ opt.mode = "dry_run"
              /\ ok' = DryRun(graph).ok
              /\ errors' = errors \o DryRun(graph).errors
              /\ Go("finish")
              /\ UNCHANGED inTry
           \/ /\ refused = {} /\ opt.mode = "run"
              /\ Go("create")
              /\ inTry' = TRUE
              /\ UNCHANGED <<ok, errors>>
    /\ UNCHANGED <<doc, opt, graph, seen, caught, escaped, lifecycle>>

\* Mutant: the handler only records the exception.
RecordException(by) ==
    /\ Fail("runtime", <<by>>, TRUE)
    /\ caught' = TRUE /\ inTry' = FALSE /\ UNCHANGED escaped
    /\ phase' = "stop" /\ at' = 0

\* The handler of std::exception: it records the exception and starts to deactivate every
\* instance that is marked as started, whether or not it was deactivated before.
HandleException(by) ==
    /\ Fail("runtime", <<by>>, TRUE)
    /\ caught' = TRUE /\ inTry' = FALSE /\ UNCHANGED escaped
    /\ phase' = "stop" /\ at' = Len(instances)

\* An exception of another type, or one thrown outside the try block, leaves run().
Escape(by) == phase' = "thrown" /\ escaped' = by /\ UNCHANGED <<at, ok, errors, inTry, caught>>

Throw(by) == by \in MayThrow /\ ((inTry /\ HandleException(by)) \/ Escape(by))

\* One component is created, configured and activated; it is started only if all three worked.
Create ==
    /\ phase = "create"
    /\ at <= Len(graph.components)
    /\ LET c == graph.components[at]
           Remember(started) == instances' = Append(instances, [id |-> c.id, started |-> started])
       IN  \/ /\ Remember(TRUE)
              /\ at' = at + 1
              /\ UNCHANGED <<phase, ok, errors, control>>
           \/ \E hook \in {"configure", "activate"} :
                 /\ Remember(FALSE)
                 /\ Fail(hook, c.id, TRUE)
                 /\ at' = Len(graph.components) + 1
                 /\ UNCHANGED <<phase, control>>
           \/ Throw("create") /\ UNCHANGED instances
    /\ UNCHANGED <<doc, opt, graph, seen, restored, resetDone, executed, snapshots, stopped>>

\* After a failed start the started components are deactivated and the run ends.
Created ==
    /\ phase = "create"
    /\ at > Len(graph.components)
    /\ IF HasFatal THEN phase' = "stop" /\ at' = Len(instances) ELSE Go("restore")
    /\ UNCHANGED <<doc, opt, graph, ok, errors, seen, control, lifecycle>>

\* One entry of restore_component_states (a map, in the order of its keys): an unknown target,
\* another type or a failed restore_state is a fatal error, and the loop goes on.
Restore ==
    /\ phase = "restore"
    /\ at <= Len(opt.restore)
    /\ LET r == opt.restore[at]
           usable == InstanceFor(r.id) # {} /\ r.type \in {"", Component(graph, r.id).type}
       IN  \/ /\ usable
              /\ restored' = restored \cup {r.id}
              /\ at' = at + 1
              /\ UNCHANGED <<phase, ok, errors, control>>
           \/ /\ Fail("restore", r.id, TRUE)
              /\ at' = at + 1
              /\ UNCHANGED <<phase, restored, control>>
           \/ usable /\ Throw("restore") /\ UNCHANGED restored
    /\ UNCHANGED <<doc, opt, graph, instances, resetDone, executed, snapshots, stopped, seen>>

Restored ==
    /\ phase = "restore"
    /\ at > Len(opt.restore)
    /\ Go("reset")
    /\ UNCHANGED <<doc, opt, graph, ok, errors, seen, control, lifecycle>>

\* One entry of reset_component_ids; an id listed twice is reset once.
Reset ==
    /\ phase = "reset"
    /\ at <= Len(opt.reset)
    /\ LET id == opt.reset[at]
           again == \E k \in 1 .. at - 1 : opt.reset[k] = id
           usable == ~again /\ InstanceFor(id) # {}
       IN  \/ /\ resetDone' = IF usable THEN resetDone \cup {id} ELSE resetDone
              /\ again \/ usable
              /\ at' = at + 1
              /\ UNCHANGED <<phase, ok, errors, control>>
           \/ /\ ~again
              /\ Fail("reset", id, TRUE)
              /\ at' = at + 1
              /\ UNCHANGED <<phase, resetDone, control>>
           \/ usable /\ Throw("reset") /\ UNCHANGED resetDone
    /\ UNCHANGED <<doc, opt, graph, instances, restored, executed, snapshots, stopped, seen>>

\* A fatal error of the two loops ends the run before anything executes.
ResetDone ==
    /\ phase = "reset"
    /\ at > Len(opt.reset)
    /\ IF HasFatal THEN phase' = "stop" /\ at' = Len(instances) ELSE Go("execute")
    /\ UNCHANGED <<doc, opt, graph, ok, errors, seen, control, lifecycle>>

\* lane_configs.
LaneConfigs == {graph.lanes[i].id : i \in DOMAIN graph.lanes}

\* add_component for every component (lanes.at throws for a lane that is not there), then
\* EventRuntime::run, whose result replaces result.ok and adds its errors.
Execute ==
    /\ phase = "execute"
    /\ LET laneMissing == \E c \in Range(graph.components) : c.lane \notin LaneConfigs
       IN  \/ /\ IF laneMissing THEN HandleException("lanes") ELSE Throw("run")
              /\ executed' = ~laneMissing
           \/ /\ ~laneMissing
              /\ executed' = TRUE
              /\ \E good \in BOOLEAN :
                    /\ ok' = good
                    /\ errors' = IF good THEN errors ELSE Append(errors, Error("execute", <<>>, TRUE))
              /\ IF opt.capture THEN Go("snapshot") ELSE phase' = "stop" /\ at' = Len(instances)
              /\ UNCHANGED control
    /\ UNCHANGED <<doc, opt, graph, instances, restored, resetDone, snapshots, stopped, seen>>

Snapshot ==
    /\ phase = "snapshot"
    /\ at <= Len(instances)
    /\ \/ /\ snapshots' = IF at \in Started THEN snapshots \cup {instances[at].id} ELSE snapshots
          /\ at' = at + 1
          /\ UNCHANGED <<phase, ok, errors, control>>
       \/ /\ at \in Started
          /\ Fail("snapshot", instances[at].id, FALSE)
          /\ at' = at + 1
          /\ UNCHANGED <<phase, snapshots, control>>
       \/ at \in Started /\ Throw("snapshot") /\ UNCHANGED snapshots
    /\ UNCHANGED <<doc, opt, graph, instances, restored, resetDone, executed, stopped, seen>>

SnapshotsDone ==
    /\ phase = "snapshot"
    /\ at > Len(instances)
    /\ phase' = "stop" /\ at' = Len(instances)
    /\ UNCHANGED <<doc, opt, graph, ok, errors, seen, control, lifecycle>>

-----------------------------------------------------------------------------

\* The next instance a reverse pass over the instances comes to.
Previous(i) == i - 1

\* One instance of the reverse pass: the three loops that deactivate differ only in whether
\* a failure clears result.ok, which after a fatal error is already clear.  A call that throws
\* ends the pass: from the two loops inside the try block the handler begins another one, from
\* the handler's own loop the exception leaves run().
Stop ==
    /\ phase = "stop"
    /\ at > 0
    /\ stopped' = IF at \in Started THEN Append(stopped, instances[at].id) ELSE stopped
    /\ \/ at' = Previous(at) /\ UNCHANGED <<phase, ok, errors, control>>
       \/ /\ at \in Started
          /\ Fail("deactivate", instances[at].id, FALSE)
          /\ at' = Previous(at)
          /\ UNCHANGED <<phase, control>>
       \/ at \in Started /\ Throw("deactivate")
    /\ UNCHANGED <<doc, opt, graph, instances, restored, resetDone, executed, snapshots, seen>>

\* The early ends call finish_result inside the try block; the normal end and the handler
\* leave it first.
Stopped ==
    /\ phase = "stop"
    /\ at = 0
    /\ Go("finish")
    /\ inTry' = (inTry /\ ~executed)
    /\ UNCHANGED <<doc, opt, graph, ok, errors, seen, caught, escaped, lifecycle>>

\* The end of notify_runtime_observers: callbacks that failed leave one error that is not fatal.
Delivered(failed) ==
    ok' = ok /\ errors' = IF failed THEN Append(errors, Error("observer", <<>>, FALSE)) ELSE errors

\* finish_result: notify_runtime_observers gives every observer the result.  An exception of a
\* callback meets the handler only at an early end, which then deactivates and finishes again.
Finish ==
    /\ phase = "finish"
    /\ IF opt.observers = 0 THEN phase' = "returned" /\ UNCHANGED <<at, ok, errors, seen, control>>
       ELSE /\ seen' = Append(seen, [ok |-> ok, errors |-> errors])
            /\ \/ /\ phase' = "returned"
                  /\ \E failed \in BOOLEAN : Delivered(failed)
                  /\ UNCHANGED <<at, control>>
               \/ Throw("observer")
    /\ UNCHANGED <<doc, opt, graph, lifecycle>>

Ended == phase \in {"not_loaded", "returned", "thrown"} /\ UNCHANGED vars

Next == \/ Load \/ Validate \/ Create \/ Created \/ Restore \/ Restored \/ Reset \/ ResetDone
        \/ Execute \/ Snapshot \/ SnapshotsDone \/ Stop \/ Stopped \/ Finish \/ Ended

Spec == Init /\ [][Next]_vars

-----------------------------------------------------------------------------

\* The types of the variables.
TypeOK ==
    /\ phase \in {"load", "not_loaded", "validate", "create", "restore", "reset", "execute", "snapshot",
                  "stop", "finish", "returned", "thrown"}
    /\ at \in 0 .. 1 + Max({Len(graph.components), Len(opt.restore), Len(opt.reset)})
    /\ Range(instances) \subseteq [id : Range(Ids(graph.components)), started : BOOLEAN]
    /\ \A i \in DOMAIN errors : errors[i].fatal \in BOOLEAN
    /\ restored \cup resetDone \cup snapshots \subseteq Range(Ids(graph.components))
    /\ {ok, executed, inTry, caught} \subseteq BOOLEAN
    /\ escaped \in Hooks \cup {""}

Accepted == phase \notin {"load", "not_loaded", "validate"} /\ \A i \in DOMAIN errors : errors[i].phase # "validate"

StartedIds == [i \in 1 .. Cardinality(Started) |-> instances[i].id]

\* The exception of this hook reached the handler.
Handled(hook) == \E i \in DOMAIN errors : errors[i].phase = "runtime" /\ errors[i].id = <<hook>>

\* When run() returns, its last act on the components was to deactivate all that were started,
\* each of them, in reverse order of starting, and nothing else
\* (docs/21-architecture/scheduler.md:141 and 154).  Before that, some were deactivated already
\* only where an exception interrupted the end of the run: a deactivation that threw, after the
\* components before it in the same order, or an observer of an early end, after all of them.
\* An exception that leaves run() leaves components active: all that were started, or, where it
\* is a deactivation that threw, the ones after it in the order.
StoppedInReverse ==
    phase \in {"returned", "thrown"} =>
        LET once == Reverse(StartedIds)
            all == Len(once)
        IN  \E m, n \in 0 .. all :
              /\ stopped = SubSeq(once, 1, m) \o SubSeq(once, 1, n)
              /\ m > 0 => Handled("deactivate") \/ (m = all /\ Handled("observer"))
              /\ n < all => \/ escaped = "deactivate" /\ n > 0
                            \/ escaped \notin {"", "deactivate", "observer"} /\ m = 0 /\ n = 0

\* Nothing executes in a half-built runtime: when EventRuntime::run is called every component is
\* active, the states asked for are restored and the resets done, in this order of the phases.
ExecutesOnlyWhenWhole ==
    executed =>
        /\ StartedIds = Ids(graph.components)
        /\ restored = {r.id : r \in Range(opt.restore)}
        /\ resetDone = Range(opt.reset)
        /\ phase = "snapshot" => stopped = <<>>

\* The result run() returns is the one the observers were given, with at most the observers' own
\* error added; they are called twice only after one of them threw into the try block.
ObserversSawTheResult ==
    phase = "returned" /\ opt.observers > 0 =>
        /\ Last(seen).ok = ok
        /\ IsPrefix(Last(seen).errors, errors) /\ Len(errors) <= Len(Last(seen).errors) + 1
        /\ Len(seen) > 1 => Len(seen) = 2 /\ caught

\* result.ok of a run says that everything asked for was done: every component started, every
\* restore and reset applied before anything executed, every snapshot taken, every component
\* deactivated once, and no error but those of observers, who saw the same result.
OkMeansClean ==
    /\ ExecutesOnlyWhenWhole /\ ObserversSawTheResult
    /\ phase = "returned" /\ opt.mode = "run" /\ ok =>
          /\ executed
          /\ opt.capture => snapshots = Range(Ids(graph.components))
          /\ stopped = Reverse(StartedIds)
          /\ \A i \in DOMAIN errors : errors[i].phase = "observer"

\* Validation covers what the runner relies on: for an accepted graph lanes.at never throws.
AcceptedLanesResolve == \A i \in DOMAIN errors : errors[i].id # <<"lanes">>

\* In an accepted graph every trigger input of a component is a declared port of it with an
\* edge into it, and every such edge comes from a component that exists and from an output
\* declared with a compatible payload.  Exempt from the last part is an edge whose source names
\* no port: it is accepted (docs/11-user-guide/components.md:71 says unknown endpoints are
\* rejected), but GraphContext::publish always publishes under component.port (component.cpp:97)
\* and the router compares whole endpoints (channel.cpp:1253), so it never feeds that edge.
TriggerInputsAreConnected ==
    Accepted =>
        \A c \in Range(graph.components) : \A p \in TriggerInputs(c) :
            /\ \E port \in Registry[c.type].inputs : port.name = p
            /\ Incoming(graph, c.id, p) # {}
            /\ \A i \in Incoming(graph, c.id, p) :
                  LET from == graph.edges[i].from
                      portless == ~HasPort(from)
                  IN  /\ \E d \in Range(graph.components) : d.id = ComponentOf(from)
                      /\ \/ portless
                         \/ \E output \in Outputs(graph, ComponentOf(from)), input \in Inputs(graph, c.id) :
                                output.name = PortOf(from) /\ input.name = p /\ Compatible(output, input)

\* Expansion loses and merges nothing in an accepted graph: every component and edge written in
\* the document, its subgraphs and its instances is there once, under an id of its own, and
\* belongs to no two namespaces.
NamespacesAreDisjoint ==
    Accepted =>
        /\ IsInjective(Ids(graph.components)) /\ IsInjective(Ids(graph.edges))
        /\ \A i, j \in DOMAIN graph.hierarchy : i # j =>
              /\ graph.hierarchy[i].components \cap graph.hierarchy[j].components = {}
              /\ graph.hierarchy[i].edges \cap graph.hierarchy[j].edges = {}
        /\ \A h \in Range(graph.hierarchy) : \A e \in Range(graph.edges) :
              e.id \in h.edges => \A endpoint \in {e.from, e.to} :
                  Len(endpoint) > Len(h.id) + 1 => IsStrictPrefix(h.id, ComponentOf(endpoint))

\* What the loader expands and validation accepts, the runner can build and the router can
\* route: lanes resolve, every trigger input is a port with edges from outputs that exist (edges
\* whose source names no port excepted), and no two components and no two edges share an id.
AcceptedIsRunnable == TypeOK /\ AcceptedLanesResolve /\ TriggerInputsAreConnected /\ NamespacesAreDisjoint
=============================================================================
