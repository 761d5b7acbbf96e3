-------------------------- MODULE BoundedTaskPool ---------------------------
(***************************************************************************)
(* What ITaskExecutor promises its users, without threads, locks or        *)
(* condition variables: a bounded pool that starts tasks in the order of   *)
(* admission, runs each at most once and keeps the record of each finished *)
(* task until it is drained.  ThreadedTaskExecutor implements it.          *)
(***************************************************************************)
EXTENDS Naturals, FiniteSets

CONSTANTS
    RunLimit,       \* tasks that may run at a time
    PoolCapacity    \* tasks waiting, running or finished and not drained

VARIABLES
    nextId,         \* id of the next task to be admitted
    waiting, running, finished, drained, cancelled,   \* sets of task ids
    closed          \* no more tasks are admitted

vars == <<nextId, waiting, running, finished, drained, cancelled, closed>>

Init ==
    /\ nextId = 1
    /\ waiting = {} /\ running = {} /\ finished = {}
    /\ drained = {} /\ cancelled = {}
    /\ closed = FALSE

Oldest(id, S) == id \in S /\ \A other \in S : id <= other

\* A task is admitted; when the pool is full, in place of the oldest waiting one.
Admit ==
    /\ ~closed
    /\ \E dropped \in {{}} \cup {{id} : id \in {i \in waiting : Oldest(i, waiting)}} :
          /\ waiting' = (waiting \ dropped) \cup {nextId}
          /\ cancelled' = cancelled \cup dropped
          /\ Cardinality(waiting') + Cardinality(running) + Cardinality(finished)
                <= PoolCapacity
    /\ nextId' = nextId + 1
    /\ UNCHANGED <<running, finished, drained, closed>>

Start ==
    /\ Cardinality(running) < RunLimit
    /\ \E id \in waiting :
          /\ Oldest(id, waiting)
          /\ waiting' = waiting \ {id}
          /\ running' = running \cup {id}
    /\ UNCHANGED <<nextId, finished, drained, cancelled, closed>>

Finish ==
    /\ \E id \in running :
          /\ running' = running \ {id}
          /\ finished' = finished \cup {id}
    /\ UNCHANGED <<nextId, waiting, drained, cancelled, closed>>

\* Waiting tasks are cancelled all together or not at all; any finished ones drained.
Collect ==
    /\ \/ waiting' = waiting /\ cancelled' = cancelled
       \/ waiting' = {} /\ cancelled' = cancelled \cup waiting
    /\ \E taken \in SUBSET finished :
          /\ finished' = finished \ taken
          /\ drained' = drained \cup taken
    /\ UNCHANGED <<nextId, running, closed>>

Close ==
    /\ closed' = TRUE
    /\ \/ waiting' = waiting /\ cancelled' = cancelled
       \/ waiting' = {} /\ cancelled' = cancelled \cup waiting
    /\ UNCHANGED <<nextId, running, finished, drained>>

Next == Admit \/ Start \/ Finish \/ Collect \/ Close

Spec == Init /\ [][Next]_vars
=============================================================================
