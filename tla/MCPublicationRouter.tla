------------------------ MODULE MCPublicationRouter -------------------------
(* Instances of PublicationRouter for TLC.                                 *)
EXTENDS PublicationRouter, TLC

CONSTANTS
    imm, asy, dly, prv,     \* edges
    loop, task              \* source endpoints

\* A loop component fans out to an immediate and an async edge; a second source has a
\* delay edge and feeds a previous_tick channel through an immediate edge.
MCSourceEdges == loop :> <<imm, asy>> @@ task :> <<dly, prv>>
MCEdgeKind == imm :> "immediate" @@ asy :> "async" @@ dly :> "delay" @@ prv :> "immediate"
MCMaxInflight == [ch \in Channels |-> IF ch = asy THEN 2 ELSE 0]

MCConfig(mode, overflow, capacity) ==
    [mode |-> mode, overflow |-> overflow, capacity |-> capacity,
     multi |-> FALSE, lifespan |-> FALSE, copy |-> FALSE]

\* The immediate edge refuses when full; the async edge evicts or refuses.
MCEdgeConfigs ==
    {imm :> MCConfig("queue", "fail_fast", 1) @@ asy :> MCConfig("queue", overflow, 2)
       @@ dly :> MCConfig("queue", "drop_oldest", 1)
       @@ prv :> MCConfig("previous_tick", "overwrite", 1) :
     overflow \in {"drop_oldest", "fail_fast"}}
=============================================================================
