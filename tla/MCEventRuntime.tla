--------------------------- MODULE MCEventRuntime ---------------------------
(* Instances of EventRuntime for TLC.                                      *)
EXTENDS EventRuntime, TLC

Plain(components) == [components |-> components, loop |-> NoLoop]
LoopOf(components, loop) == [components |-> components, loop |-> loop]
Policy(solver, always, budget, partial) ==
    [solver |-> solver, always |-> always, budget |-> budget, max_iterations |-> 2, partial |-> partial]

NoLanes == [l \in {} |-> 1]
NoOverrun == [l \in {} |-> "drop_tick"]
Base == [regions |-> <<Plain(<<1>>)>>, pooled |-> {}, reentrant |-> {}, writers |-> {}, queue_capacity |-> 1,
         overflow |-> "drop_oldest", iterations |-> 1, until_idle |-> FALSE, run_duration |-> FALSE,
         ready |-> 2, durations |-> {0}, period |-> NoLanes, overrun |-> NoOverrun]

\* A component on two workers before one that is not reentrant, with every overflow policy.
PoolSetups ==
    {[Base EXCEPT !.regions = <<Plain(<<1>>), Plain(<<2>>)>>, !.pooled = {1, 2}, !.reentrant = {1},
                  !.overflow = overflow, !.ready = 3] : overflow \in {"drop_oldest", "drop_newest", "fail_fast"}}

\* A source, a composite loop with a component on the pool, over two epochs.
LoopSetups ==
    {[Base EXCEPT !.regions = <<LoopOf(<<1, 2>>, policy)>>, !.pooled = {2}, !.writers = {1, 2},
                  !.iterations = IF policy.partial = "" THEN 2 ELSE 1, !.until_idle = TRUE, !.ready = 1] :
        policy \in {Policy(TRUE, FALSE, TRUE, ""), Policy(TRUE, FALSE, FALSE, "commit_outputs"),
                    Policy(TRUE, FALSE, FALSE, "fail_run"), Policy(FALSE, FALSE, TRUE, ""),
                    Policy(FALSE, TRUE, FALSE, "")}}

\* Two composite loops in one epoch, the second with a component on the pool.
TwoLoopSetups ==
    {[Base EXCEPT !.regions = <<LoopOf(<<1>>, first), LoopOf(<<2>>, Policy(TRUE, FALSE, FALSE, ""))>>,
                  !.pooled = {2}, !.ready = 1] :
        first \in {Policy(TRUE, FALSE, FALSE, "commit_outputs"), Policy(FALSE, FALSE, TRUE, "")}}

\* Two fixed_rate lanes of different periods.
LaneSetups ==
    {[Base EXCEPT !.iterations = 4, !.ready = 0, !.durations = {0, 2, 5}, !.run_duration = TRUE,
                  !.period = (1 :> 2 @@ 2 :> 3), !.overrun = (1 :> o1 @@ 2 :> o2)] :
        o1, o2 \in {"drop_tick", "skip_next", "catch_up_once"}}

MCSetups == PoolSetups \cup LoopSetups \cup TwoLoopSetups \cup LaneSetups
=============================================================================
