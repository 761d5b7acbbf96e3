---------------------------- MODULE GraphCompiler ---------------------------
(***************************************************************************)
(* compile_graph_impl and the lifecycle check of src/graph.cpp: the        *)
(* immediate edges of a graph are condensed into strongly connected        *)
(* components (Tarjan's algorithm), these are matched with the declared    *)
(* composite loops, and the regions are put in the order in which          *)
(* EventRuntime executes them.                                             *)
(*                                                                         *)
(* Component and loop ids are numbers; numeric order stands both for the   *)
(* order of declaration and for the order of ids.  Only immediate edges    *)
(* are kept, between components that exist.                                *)
(***************************************************************************)
EXTENDS Naturals, Sequences, FiniteSets, SequencesExt, Relation

CONSTANTS
    Components,     \* ids of the graph's components
    Graphs,         \* the graphs to consider: their immediate edges and depends_on
    LoopDecls,      \* the composite_loops to consider: sequences of [id, components]
    Priorities      \* the execution priorities to consider: functions to ranks 0 .. 3

ASSUME CompilerAssumption ==
    /\ Components \subseteq Nat /\ IsFiniteSet(Components) /\ Components # {}
    /\ Graphs \subseteq [edges : SUBSET (Components \X Components),
                         depends : SUBSET (Components \X Components)]
    /\ \A d \in LoopDecls : d \in Seq([id : Nat, components : SUBSET Components])
    /\ \A p \in Priorities : p \in [Components -> 0 .. 3]

VARIABLES
    edges,          \* the immediate edges
    depends,        \* <<a, b>>: a names b in depends_on
    phase,          \* "scc", "match", "order" or "done"
    frames,         \* the calls of strong_connect: [node, rest], innermost last
    index, low,     \* index_of and lowlink, on the nodes visited
    stack,          \* Tarjan's stack
    sccs,           \* plan.immediate_sccs
    loops, priority,\* composite_loops and execution priorities
    regions,        \* plan.regions
    indegree,       \* of the region ids not yet unblocked
    ready,          \* the deque of region ids
    order,          \* plan.region_order
    errors          \* the kinds of error added

tarjan == <<frames, index, low, stack, sccs>>
plan == <<loops, priority, regions, indegree, ready, order>>
vars == <<edges, depends, phase, tarjan, plan, errors>>

Empty == [x \in {} |-> 0]
Extend(f, x, v) == [y \in DOMAIN f \cup {x} |-> IF y = x THEN v ELSE f[y]]
ComponentOrder == SetToSortSeq(Components, <)
Successors(n) == {m \in Components : <<n, m>> \in edges}

-----------------------------------------------------------------------------
(* compute_component_lifecycle_order                                       *)

DependentsOf(c) == SelectSeq(ComponentOrder, LAMBDA d : <<d, c>> \in depends)

Release(s, d) ==
    LET left == s.indegrees[d] - 1
    IN  [s EXCEPT !.indegrees[d] = left, !.ready = IF left = 0 THEN Append(@, d) ELSE @]

LifecycleStep(s, step) ==
    IF s.ready = <<>> THEN s
    ELSE FoldLeft(Release, [s EXCEPT !.ready = Tail(@), !.order = Append(@, Head(s.ready))],
                  DependentsOf(Head(s.ready)))

LifecycleOrder ==
    LET indegrees == [c \in Components |-> Cardinality({d \in Components : <<c, d>> \in depends})]
        start == [indegrees |-> indegrees, order |-> <<>>,
                  ready |-> SelectSeq(ComponentOrder, LAMBDA c : indegrees[c] = 0)]
    IN  FoldLeft(LifecycleStep, start, ComponentOrder).order

When(error, wrong) == IF wrong THEN {error} ELSE {}

LifecycleErrors == When("lifecycle_cycle", Len(LifecycleOrder) # Len(ComponentOrder))

-----------------------------------------------------------------------------
(* tarjan_scc.  A frame is a call of strong_connect with the successors it *)
(* still has to look at; the edge list may give them in any order.         *)

Init ==
    /\ \E g \in Graphs : edges = g.edges /\ depends = g.depends
    /\ phase = "scc"
    /\ frames = <<>> /\ index = Empty /\ low = Empty /\ stack = <<>> /\ sccs = <<>>
    /\ loops = <<>> /\ priority = [c \in Components |-> 2]
    /\ regions = <<>> /\ indegree = Empty /\ ready = <<>> /\ order = <<>>
    /\ errors = LifecycleErrors

FirstLow == Cardinality(DOMAIN index)

Visit(n, calls) ==
    /\ index' = Extend(index, n, Cardinality(DOMAIN index))
    /\ low' = Extend(low, n, FirstLow)
    /\ stack' = Append(stack, n)
    /\ frames' = Append(calls, [node |-> n, rest |-> Successors(n)])
    /\ UNCHANGED sccs

\* The loop over nodes calls strong_connect on the next one without an index.
StartRoot ==
    /\ phase = "scc"
    /\ frames = <<>>
    /\ DOMAIN index # Components
    /\ Visit(Min(Components \ DOMAIN index), <<>>)
    /\ UNCHANGED <<edges, depends, phase, plan, errors>>

\* Mutant: the successor stays to be looked at.
RestUnchanged(rest, m) == rest
RestAfter(rest, m) == rest \ {m}

\* Mutant: the lowlink is lowered by a node that already left the stack.
LowFromAnywhere(n, m) == Min({low[n], index[m]})
LowThrough(n, m) == IF Contains(stack, m) THEN Min({low[n], index[m]}) ELSE low[n]

FollowEdge ==
    /\ frames # <<>>
    /\ \E m \in Last(frames).rest :
         LET n == Last(frames).node
             calls == Append(Front(frames), [node |-> n, rest |-> RestAfter(Last(frames).rest, m)])
         IN  IF m \in DOMAIN index
                THEN /\ frames' = calls
                     /\ low' = [low EXCEPT ![n] = LowThrough(n, m)]
                     /\ UNCHANGED <<index, stack, sccs>>
                ELSE Visit(m, calls)
    /\ UNCHANGED <<edges, depends, phase, plan, errors>>

\* A root pops its component off the stack; a call returns its lowlink to its caller.
FinishNode ==
    /\ frames # <<>>
    /\ Last(frames).rest = {}
    /\ LET n == Last(frames).node
           at == CHOOSE i \in DOMAIN stack : stack[i] = n
           caller == IF Len(frames) > 1 THEN {Last(Front(frames)).node} ELSE {}
       IN  /\ frames' = Front(frames)
           /\ IF low[n] = index[n]
                 THEN /\ sccs' = Append(sccs, Range(SubSeq(stack, at, Len(stack))))
                      /\ stack' = SubSeq(stack, 1, at - 1)
                 ELSE UNCHANGED <<sccs, stack>>
           /\ low' = [x \in DOMAIN low |-> IF x \in caller THEN Min({low[x], low[n]}) ELSE low[x]]
    /\ UNCHANGED <<edges, depends, phase, index, plan, errors>>

SccsDone ==
    /\ phase = "scc"
    /\ frames = <<>> /\ DOMAIN index = Components
    /\ phase' = "match"
    /\ UNCHANGED <<edges, depends, tarjan, plan, errors>>

-----------------------------------------------------------------------------
(* Composite loops, regions and the condensed graph.                       *)

Cyclic(scc) == Cardinality(scc) > 1 \/ \E c \in scc : <<c, c>> \in edges

LoopsMatching(decls, scc) == SelectSeq(decls, LAMBDA l : l.components = scc)

\* Stands for "region_" followed by the index of the SCC.
GeneratedId(scc) == 100 + Min(scc)

RegionOf(decls, scc) ==
    LET matching == LoopsMatching(decls, scc)
    IN  [id |-> IF matching # <<>> THEN Head(matching).id
                ELSE IF Cardinality(scc) = 1 THEN Min(scc) ELSE GeneratedId(scc),
         components |-> scc, loop |-> matching # <<>>]

OwnsCycle(decls, scc) == LoopsMatching(decls, scc) # <<>>

\* The id of a loop that no SCC took is reported; loops_by_id keeps ids apart.
LoopErrors(decls) ==
       When("duplicate_id", \E i, j \in DOMAIN decls : i # j /\ decls[i].id = decls[j].id)
  \cup When("multiple_owners", \E i, j \in DOMAIN decls :
            decls[i].id # decls[j].id /\ decls[i].components \cap decls[j].components # {})
  \cup When("undeclared_cycle", \E scc \in Range(sccs) : Cyclic(scc) /\ ~OwnsCycle(decls, scc))
  \cup When("decorative_loop", \E scc \in Range(sccs) : ~Cyclic(scc) /\ OwnsCycle(decls, scc))
  \cup When("unmatched_loop", \E l \in Range(decls) : \A scc \in Range(sccs) :
            LoopsMatching(decls, scc) = <<>> \/ Head(LoopsMatching(decls, scc)).id # l.id)

\* Region ids b that an edge from a component of a region with id a leads to.
RegionIdOf(c) == (CHOOSE r \in Range(regions) : c \in r.components).id
SameRegion(c, d) == \E r \in Range(regions) : {c, d} \subseteq r.components
OutgoingRegions(a) == {RegionIdOf(e[2]) : e \in {x \in edges : ~SameRegion(x[1], x[2]) /\ RegionIdOf(x[1]) = a}}

MatchLoops ==
    /\ phase = "match"
    /\ loops' \in LoopDecls
    /\ priority' \in Priorities
    /\ regions' = [i \in DOMAIN sccs |-> RegionOf(loops', sccs[i])]
    /\ errors' = errors \cup LoopErrors(loops')
    /\ phase' = "condense"
    /\ UNCHANGED <<edges, depends, tarjan, indegree, ready, order>>

\* The first region with the id, which is the one a search for the id finds.
RegionNamed(id) == regions[Min({k \in DOMAIN regions : regions[k].id = id})]

Rank(id) == Max({priority[c] : c \in RegionNamed(id).components})

SortReady(ids) == FlattenSeq([k \in 1 .. 4 |-> SelectSeq(ids, LAMBDA id : Rank(id) = 4 - k)])

RegionIds == [i \in DOMAIN regions |-> regions[i].id]

Condense ==
    /\ phase = "condense"
    /\ indegree' = [id \in Range(RegionIds) |->
                      Cardinality({a \in Range(RegionIds) : id \in OutgoingRegions(a)})]
    /\ ready' = SortReady(SelectSeq(RegionIds, LAMBDA id : indegree'[id] = 0))
    /\ phase' = "order"
    /\ UNCHANGED <<edges, depends, tarjan, loops, priority, regions, order, errors>>

\* Mutant: a region is released by the first of its predecessors.
UnblockOnFirst(s, id) == [s EXCEPT !.ready = IF Contains(@, id) \/ Contains(order, id) THEN @ ELSE SortReady(Append(@, id))]
Unblock(s, id) ==
    LET left == IF s.indegree[id] > 0 THEN s.indegree[id] - 1 ELSE 0
    IN  [indegree |-> [s.indegree EXCEPT ![id] = left],
         ready |-> IF left = 0 THEN SortReady(Append(s.ready, id)) ELSE s.ready]

OrderRegion ==
    /\ phase = "order"
    /\ ready # <<>>
    /\ LET next == FoldLeft(Unblock, [indegree |-> indegree, ready |-> Tail(ready)],
                            SetToSortSeq(OutgoingRegions(Head(ready)), <))
       IN  indegree' = next.indegree /\ ready' = next.ready
    /\ order' = Append(order, Head(ready))
    /\ UNCHANGED <<edges, depends, phase, tarjan, loops, priority, regions, errors>>

FinishPlan ==
    /\ phase = "order"
    /\ ready = <<>>
    /\ errors' = errors \cup When("cyclic_regions", Len(order) # Len(regions))
    /\ phase' = "done"
    /\ UNCHANGED <<edges, depends, tarjan, plan>>

\* The regions EventRuntime::run looks up by id, in order.
Scheduled ==
    [i \in DOMAIN order |-> RegionNamed(order[i])]

Next ==
    \/ StartRoot \/ FollowEdge \/ FinishNode \/ SccsDone
    \/ MatchLoops \/ Condense \/ OrderRegion \/ FinishPlan

Spec == Init /\ [][Next]_vars /\ WF_vars(Next)

-----------------------------------------------------------------------------
(* Properties.  Reaches is the reference: the transitive closure of the    *)
(* edges.                                                                  *)

Relates(set) == [p \in Components \X Components |-> p \in set]
Reaches == TransitiveClosure(Relates(edges), Components)

\* The types of the variables.
TypeOK ==
    /\ edges \cup depends \subseteq Components \X Components
    /\ phase \in {"scc", "match", "condense", "order", "done"}
    /\ frames \in Seq([node : Components, rest : SUBSET Components])
    /\ DOMAIN index \subseteq Components /\ DOMAIN low = DOMAIN index
    /\ \A n \in DOMAIN index : index[n] \in Nat /\ low[n] \in 0 .. index[n]
    /\ stack \in Seq(Components) /\ sccs \in Seq(SUBSET Components)
    /\ regions \in Seq([id : Nat, components : SUBSET Components, loop : BOOLEAN])
    /\ ready \in Seq(Nat) /\ order \in Seq(Nat)

\* Two components are in one SCC exactly if each reaches the other: what Tarjan's algorithm
\* has emitted at any time is already final, in whatever order the edges were followed.
SccsAreMaximal ==
    LET reaches == Reaches
    IN  \A i \in DOMAIN sccs :
            /\ sccs[i] # {}
            /\ \A c \in sccs[i], d \in Components :
                  d \in sccs[i] <=> c = d \/ (reaches[c, d] /\ reaches[d, c])
            /\ \A j \in DOMAIN sccs : i # j => sccs[i] \cap sccs[j] = {}

\* A loop may be named like a component outside it (graph.cpp:557): the loop's region and the
\* component's then share an id.
SharedIds == {id \in Range(RegionIds) : Cardinality({k \in DOMAIN regions : regions[k].id = id}) > 1}

\* The errors are exact: a graph is refused if and only if its depends_on has a cycle, or the
\* declared loops are not, one for one and with distinct ids, its cyclic SCCs (rows 6 and 7 of
\* docs/21-architecture/runtime-invariants.md); the SCCs it is judged by are the maximal ones.
\* The exception: where two regions share an id, a right graph may be refused as cyclic.
RefusedExactlyWhenWrong ==
    LET reaches == Reaches
        cycles == {{d \in Components : reaches[c, d] /\ reaches[d, c]} : c \in {x \in Components : reaches[x, x]}}
        dependsOn == TransitiveClosure(Relates(depends), Components)
        right == /\ \A c \in Components : ~dependsOn[c, c]
                 /\ {l.components : l \in Range(loops)} = cycles
                 /\ Len(loops) = Cardinality(cycles)
                 /\ \A i, j \in DOMAIN loops : loops[i].id = loops[j].id => i = j
    IN  /\ TypeOK /\ SccsAreMaximal
        /\ phase = "done" =>
              /\ errors = {} => right
              /\ right => errors = {} \/ (SharedIds # {} /\ errors = {"cyclic_regions"})

\* Every component of a graph that compiled belongs to exactly one of the regions that the
\* runtime executes, and a producer's region runs before its consumers' (docs/21-architecture/
\* runtime-architecture.md:21, "condenses components into CompiledGraphRegion entries, and
\* sorts the region DAG by dependency").  The exception: of two regions that share an id the
\* first runs twice and the other never, and then no edge joins them to other regions.  Nothing
\* is claimed where two ids are shared.
EveryComponentScheduledInOrder ==
    phase = "done" /\ errors = {} /\ Cardinality(SharedIds) <= 1 =>
        LET Places(c) == {i \in DOMAIN Scheduled : c \in Scheduled[i].components}
            Apart(c) == \A e \in edges : c \in {e[1], e[2]} => SameRegion(e[1], e[2])
        IN  /\ \A r \in Range(regions) : \A c \in r.components :
                  IF r.id \notin SharedIds THEN Cardinality(Places(c)) = 1
                  ELSE Cardinality(Places(c)) = (IF r = RegionNamed(r.id) THEN 2 ELSE 0) /\ Apart(c)
            /\ \A e \in edges : ~SameRegion(e[1], e[2]) =>
                  \A i \in Places(e[1]), j \in Places(e[2]) : i < j

\* Compilation ends: the stack of calls unwinds and the ordering loop runs dry.  Nothing is
\* claimed where two ids are shared: two regions can then release each other for ever.
Terminates == <>(phase = "done" \/ Cardinality(SharedIds) > 1)
=============================================================================
