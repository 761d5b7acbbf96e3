--------------------------- MODULE MCTriggerPolicy --------------------------
(* An instance of TriggerPolicy for TLC.                                   *)
EXTENDS TriggerPolicy

Default ==
    [source |-> "message", type |-> "any_input", condition |-> "", inputs |-> <<2, 1>>, coalesce |-> FALSE,
     capacity |-> 1, batch_size |-> 0, batch_window |-> 0, sync_slop |-> 0,
     min_interval |-> 0, max_latency |-> 0, lateness |-> 0]

\* One policy for each collector, each combined with the time limits that change its course.
MCPolicies == {
    [Default EXCEPT !.max_latency = 1, !.min_interval = 2],
    [Default EXCEPT !.type = "rate_limit", !.min_interval = 2],
    [Default EXCEPT !.coalesce = TRUE, !.min_interval = 2],
    [Default EXCEPT !.type = "debounce", !.min_interval = 1],
    [Default EXCEPT !.type = "all_inputs", !.max_latency = 1],
    [Default EXCEPT !.type = "time_sync", !.sync_slop = 1, !.min_interval = 1],
    [Default EXCEPT !.type = "batch", !.batch_size = 2, !.batch_window = 2],
    [Default EXCEPT !.type = "batch", !.batch_window = 1, !.min_interval = 2],
    [Default EXCEPT !.type = "batch", !.batch_size = 3, !.max_latency = 1],
    [Default EXCEPT !.type = "watermark", !.lateness = 1, !.min_interval = 1],
    [Default EXCEPT !.type = "condition", !.condition = "any_input_ready"],
    [Default EXCEPT !.type = "condition", !.condition = "event_timestamp_present"],
    [Default EXCEPT !.type = "condition", !.min_interval = 1],
    [Default EXCEPT !.source = "timer"] }
=============================================================================
