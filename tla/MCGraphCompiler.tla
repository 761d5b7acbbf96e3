--------------------------- MODULE MCGraphCompiler --------------------------
(* Instances of GraphCompiler for TLC.                                     *)
EXTENDS GraphCompiler

Loop(id, components) == [id |-> id, components |-> components]

\* Any immediate edges without depends_on, and any depends_on with one chain of edges.
MCGraphs ==
    {[edges |-> e, depends |-> {}] : e \in SUBSET (Components \X Components)} \cup
    {[edges |-> {<<1, 2>>, <<2, 3>>}, depends |-> d] : d \in SUBSET (Components \X Components)}

\* No loop, one loop over any components, and two loops: apart, overlapping, equal in
\* components, equal in id, and named like a component: one of their own, one outside, each
\* other's.
MCLoopDecls ==
    {<<>>} \cup {<<Loop(11, cs)>> : cs \in (SUBSET Components) \ {{}}} \cup
    {<<Loop(11, {1, 2}), Loop(12, {3})>>, <<Loop(11, {1}), Loop(12, {2, 3})>>,
     <<Loop(11, {1, 2}), Loop(12, {2, 3})>>, <<Loop(11, {1, 3}), Loop(12, {1, 3})>>,
     <<Loop(11, {1, 2}), Loop(11, {3})>>,
     <<Loop(1, {1, 2})>>, <<Loop(3, {1, 2})>>, <<Loop(1, {2, 3})>>, <<Loop(2, {1})>>,
     <<Loop(2, {1}), Loop(1, {2})>>, <<Loop(3, {1}), Loop(12, {2})>>}

MCPriorities == {[c \in Components |-> 2], [c \in Components |-> (c % 3) + 1]}
=============================================================================
