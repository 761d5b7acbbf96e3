---------------------------- MODULE EventRuntime ----------------------------
(***************************************************************************)
(* EventRuntime::run of src/event_runtime.cpp with the worker pools of its *)
(* thread_pool lanes, and the RuntimeStateStore of src/state.cpp that it   *)
(* commits at every epoch boundary.                                        *)
(*                                                                         *)
(* The runtime thread runs epochs; in each it goes through the regions of  *)
(* the compiled plan, collects the ready invocations of every component,   *)
(* and executes them itself or on the lane's workers.  Components publish  *)
(* and write state while they execute.  Whether an invocation succeeds, a  *)
(* solver converges or a time budget is exceeded is left open; the config  *)
(* transaction and the trigger policies have modules of their own.         *)
(***************************************************************************)
EXTENDS Naturals, Sequences, FiniteSets, FiniteSetsExt

CONSTANTS
    Setups,         \* the graphs and run options to consider
    Workers,        \* the threads of the thread_pool lane
    Keys            \* state keys

Loops == [solver : BOOLEAN, always : BOOLEAN, budget : BOOLEAN, max_iterations : Nat,
          partial : {"", "commit_outputs", "discard_outputs", "fail_run"}]
NoLoop == [max_iterations |-> 0]

ASSUME RuntimeAssumption ==
    /\ IsFiniteSet(Workers) /\ Workers # {}
    /\ \A s \in Setups :
         \* components are numbered from 1: 0 is the empty name; each has one place in the plan
         /\ s.regions \in Seq([components : Seq(Nat \ {0}), loop : Loops \cup {NoLoop}])
         /\ \A i, j \in DOMAIN s.regions :
              \A m \in DOMAIN s.regions[i].components, n \in DOMAIN s.regions[j].components :
                s.regions[i].components[m] = s.regions[j].components[n] => i = j /\ m = n
         /\ s.reentrant \subseteq s.pooled
         /\ s.queue_capacity \in Nat /\ s.iterations \in Nat /\ s.until_idle \in BOOLEAN
         /\ s.run_duration \in BOOLEAN      \* whether run_duration_ms bounds the run
         /\ s.writers \subseteq Nat          \* the components that write state
         /\ s.ready \in Nat                 \* bound: invocations a component has ready at once
         /\ s.durations \subseteq Nat        \* how long an epoch may take on the steady clock
         /\ s.overflow \in {"drop_oldest", "drop_newest", "fail_fast"}
         /\ IsFiniteSet(DOMAIN s.period) /\ s.period \in [DOMAIN s.period -> Nat \ {0}]
         /\ s.overrun \in [DOMAIN s.period -> {"drop_tick", "skip_next", "catch_up_once"}]

VARIABLES
    setup,          \* the graph and the run options
    stop,           \* the stop token, or the cancel token that follows it
    pc,             \* where the runtime thread is
    region, at,     \* position in the plan: region, component of it
    loopIter,       \* loop_iteration + 1
    reason, ok,     \* result.stop_reason, result.ok
    iterations,     \* result.iterations
    ticks, ticksBefore, \* result.tick_calls, now and when the epoch began
    todo,           \* invocations of the component not yet submitted or executed
    awaited,        \* invocations whose futures the runtime thread holds
    made,           \* invocations made so far
    \* PersistentWorkerPool
    queue, stopping, \* queue_, stop_requested_
    worker, job,    \* what each worker does, and the invocation it is busy with
    finished,       \* invocations whose promises are set
    failures,       \* history: invocations that failed
    \* RuntimePublicationRouter, as far as the order of commits goes
    immediate,      \* immediate_stage_
    regionStage,    \* composite_external_stage_
    visible,        \* publications the channels accepted
    loopEnd,        \* result.loop_stop_reason; history: of every epoch
    state,          \* RuntimeStateStore: entries of keys
    now, due, tick, \* clock, next_wall_clock_ticks, current_wall_clock_ticks
    tickCount, skipped  \* fixed_rate metrics of the lanes

position == <<region, at, loopIter>>
result == <<reason, ok, iterations, ticks>>
pool == <<queue, stopping, worker, job, finished, failures>>
stages == <<immediate, regionStage, visible, loopEnd>>
clock == <<now, due, tick, tickCount, skipped>>
vars == <<setup, stop, pc, position, result, ticksBefore, todo, awaited, made, pool, stages, state, clock>>

Epoch == iterations + 1
Lanes == DOMAIN setup.period
Regions == setup.regions
Region == Regions[region]
InLoop == region <= Len(Regions) /\ Region.loop # NoLoop
Component == Region.components[at]
Pooled == Component \in setup.pooled
Elements(s) == {s[i] : i \in DOMAIN s}
NoInvocation == [id |-> 0, component |-> 0, epoch |-> 0, loop |-> FALSE]
NoValue == [epoch |-> 0, writer |-> 0]

Init ==
    /\ setup \in Setups
    /\ stop = FALSE
    /\ pc = "boundary" /\ region = 1 /\ at = 1 /\ loopIter = 1
    /\ reason = "tick_bound" /\ ok = TRUE /\ iterations = 0 /\ ticks = 0 /\ ticksBefore = 0
    /\ todo = <<>> /\ awaited = {} /\ made = 0
    /\ queue = <<>> /\ stopping = FALSE /\ finished = {} /\ failures = {}
    /\ worker = [w \in Workers |-> "idle"] /\ job = [w \in Workers |-> NoInvocation]
    /\ immediate = {} /\ regionStage = {} /\ visible = {} /\ loopEnd = [e \in {} |-> ""]
    /\ state = [k \in Keys |-> [current |-> NoValue, pending |-> NoValue, writer |-> 0]]
    /\ now = 0 /\ due = [l \in DOMAIN setup.period |-> 0] /\ tick = due
    /\ tickCount = [l \in DOMAIN setup.period |-> 0] /\ skipped = tickCount

RequestStop ==
    /\ ~stop /\ pc # "returned"
    /\ stop' = TRUE
    /\ UNCHANGED <<setup, pc, position, result, ticksBefore, todo, awaited, made, pool, stages, state, clock>>

Return(why, success) == pc' = "returned" /\ reason' = why /\ ok' = success

-----------------------------------------------------------------------------
(* The epoch boundary.                                                     *)

\* commit_epoch_boundary of the state store.
CommitState ==
    [k \in Keys |-> IF state[k].pending = NoValue THEN state[k]
                    ELSE [state[k] EXCEPT !.current = state[k].pending, !.pending = NoValue]]

\* The loop over iterations ends, or a stop is seen, here or in the wait for a lane's tick.
EndRun ==
    /\ pc = "boundary"
    /\ \/ iterations = setup.iterations /\ Return(reason, ok)
       \/ iterations < setup.iterations /\ stop /\ Return("stop_requested", ok)
       \/ iterations < setup.iterations /\ ~stop /\ setup.run_duration /\ Return("duration_bound", ok)
    /\ UNCHANGED <<setup, stop, position, iterations, ticks, ticksBefore, todo, awaited, made, pool, stages,
                   state, clock>>

\* From the second epoch on, every lane's tick is waited for.
WakeTime == IF iterations = 0 THEN now ELSE Max({now} \cup {due[l] : l \in Lanes})

BeginEpoch(success) ==
    /\ pc = "boundary"
    /\ iterations < setup.iterations /\ ~stop
    /\ now' = WakeTime
    /\ tick' = due
    /\ state' = CommitState
    /\ ticksBefore' = ticks
    /\ region' = 1
    /\ IF success THEN pc' = "region" /\ UNCHANGED <<reason, ok>> ELSE Return("error", FALSE)
    /\ UNCHANGED <<setup, stop, at, loopIter, iterations, ticks, todo, awaited, made, pool, stages, due,
                   tickCount, skipped>>

\* Mutant: every late epoch counts one more.
MissedTicksPlusOne(l, late) == (late \div setup.period[l]) + (IF late > 0 THEN 1 ELSE 0)
\* Ticks missed while an epoch ran late: whole periods, and for skip_next at least one.
MissedTicks(l, late) ==
    LET periods == late \div setup.period[l]
    IN  IF setup.overrun[l] = "skip_next" /\ late > 0 THEN Max({periods, 1}) ELSE periods

NextTick(l, nominal, endedAt) ==
    IF endedAt <= nominal THEN nominal
    ELSE IF setup.overrun[l] = "skip_next" THEN nominal + setup.period[l]
    ELSE IF setup.overrun[l] = "catch_up_once" THEN endedAt
    ELSE endedAt + setup.period[l]

\* Lateness is measured from the tick after this one.
EndEpoch(duration) ==
    LET endedAt == now + duration
        Nominal(l) == tick[l] + setup.period[l]
        Late(l) == IF endedAt > Nominal(l) THEN endedAt - Nominal(l) ELSE 0
        idle == setup.until_idle /\ ticks = ticksBefore
    IN  /\ pc = "region" /\ region > Len(Regions)
        /\ now' = endedAt
        /\ due' = [l \in Lanes |-> NextTick(l, Nominal(l), endedAt)]
        /\ tickCount' = [l \in Lanes |-> tickCount[l] + 1]
        /\ skipped' = [l \in Lanes |-> skipped[l] + MissedTicks(l, Late(l))]
        /\ iterations' = iterations + 1
        /\ IF idle THEN Return("idle", ok) ELSE pc' = "boundary" /\ UNCHANGED <<reason, ok>>
        /\ UNCHANGED <<setup, stop, position, ticks, ticksBefore, todo, awaited, made, pool, stages, state, tick>>

-----------------------------------------------------------------------------
(* Regions and composite loops.                                            *)

EnterRegion ==
    /\ pc = "region" /\ region <= Len(Regions)
    /\ pc' = "component" /\ at' = 1 /\ loopIter' = 1
    /\ regionStage' = IF InLoop THEN {} ELSE regionStage
    /\ UNCHANGED <<setup, stop, region, result, ticksBefore, todo, awaited, made, pool, immediate, visible,
                   loopEnd, state, clock>>

\* Past the last component a plain region is done, a loop has finished an iteration.
LeaveComponents ==
    /\ pc = "component" /\ at > Len(Region.components)
    /\ IF InLoop THEN pc' = "iterated" /\ UNCHANGED region ELSE pc' = "region" /\ region' = region + 1
    /\ UNCHANGED <<setup, stop, at, loopIter, result, ticksBefore, todo, awaited, made, pool, stages, state, clock>>

EndLoop(why) ==
    LET here == <<Epoch, region>>
    IN  loopEnd' = [e \in DOMAIN loopEnd \cup {here} |-> IF e = here THEN why ELSE loopEnd[e]]

\* Mutant: a solver that did not converge commits what it has.
PublishesAlways(why) == TRUE
\* A solver that stops before it converged commits only if its policy says so.
Publishes(why) == why = "converged" \/ ~Region.loop.solver \/ Region.loop.partial = "commit_outputs"

MoreIterations == loopIter < Region.loop.max_iterations

\* After an iteration: convergence, budget, max_iterations, or a cancellation before the next.
StopsBecause(why) ==
    CASE why = "converged" -> TRUE
      [] why = "budget_overrun" -> Region.loop.budget /\ ~Region.loop.always
      [] why = "max_iterations" -> ~MoreIterations /\ ~Region.loop.always
      [] why = "cancelled" -> MoreIterations /\ ~Region.loop.always /\ stop

\* The loop stops: its outputs are committed together, unless refused, or discarded.
FinishLoop(why, accepted) ==
    LET fails == ~Publishes(why) /\ Region.loop.partial = "fail_run"
        refused == Publishes(why) /\ ~accepted
    IN  /\ pc = "iterated"
        /\ StopsBecause(why)
        /\ EndLoop(why)
        /\ visible' = IF Publishes(why) /\ accepted THEN visible \cup regionStage ELSE visible
        /\ regionStage' = {}
        /\ IF fails \/ refused THEN Return("error", FALSE) /\ UNCHANGED region
           ELSE IF why = "cancelled" THEN Return("stop_requested", ok) /\ UNCHANGED region
           ELSE pc' = "region" /\ region' = region + 1 /\ UNCHANGED <<reason, ok>>
        /\ UNCHANGED <<setup, stop, at, loopIter, iterations, ticks, ticksBefore, todo, awaited, made, pool,
                       immediate, state, clock>>

NextIteration ==
    /\ pc = "iterated"
    /\ ~Region.loop.always /\ MoreIterations /\ ~stop
    /\ pc' = "component" /\ at' = 1 /\ loopIter' = loopIter + 1
    /\ UNCHANGED <<setup, stop, region, result, ticksBefore, todo, awaited, made, pool, stages, state, clock>>

-----------------------------------------------------------------------------
(* execute_component.                                                      *)

\* A component that fails, or a stop seen before a submission, ends the run at once; in a
\* loop both are a component_error.  Nothing staged is committed or discarded.
GiveUp(why, success) ==
    /\ Return(why, success)
    /\ IF InLoop THEN EndLoop("component_error") ELSE UNCHANGED loopEnd

\* Workers used at once by the component, and how many invocations may wait behind them.
ActiveCapacity == IF Component \in setup.reentrant THEN Cardinality(Workers) ELSE 1
QueueCapacity(ready) ==
    IF setup.queue_capacity > 0 THEN setup.queue_capacity
    ELSE IF ready > ActiveCapacity THEN ready - ActiveCapacity ELSE 0
AdmissionCapacity(ready) == ActiveCapacity + QueueCapacity(ready)

Admitted(fresh) ==
    LET over == Len(fresh) - AdmissionCapacity(Len(fresh))
    IN  IF ~Pooled \/ over <= 0 THEN fresh
        ELSE IF setup.overflow = "drop_oldest" THEN SubSeq(fresh, over + 1, Len(fresh))
        ELSE SubSeq(fresh, 1, Len(fresh) - over)

Collect(ready) ==
    LET fresh == [i \in 1 .. ready |-> [id |-> made + i, component |-> Component, epoch |-> Epoch, loop |-> InLoop]]
        overfull == Pooled /\ ready > AdmissionCapacity(ready)
    IN  /\ pc = "component" /\ at <= Len(Region.components)
        /\ made' = made + ready
        /\ IF overfull /\ setup.overflow = "fail_fast"
              THEN GiveUp("error", FALSE) /\ UNCHANGED <<todo, at>>
              ELSE /\ todo' = Admitted(fresh)
                   /\ IF ready = 0 THEN pc' = "component" /\ at' = at + 1
                      ELSE pc' = (IF Pooled THEN "pool" ELSE "inline") /\ UNCHANGED at
                   /\ UNCHANGED <<reason, ok, loopEnd>>
        /\ UNCHANGED <<setup, stop, region, loopIter, iterations, ticks, ticksBefore, awaited, pool, immediate,
                       regionStage, visible, state, clock>>

\* RuntimeStateStore::snapshot and read.
Snapshot == [k \in Keys |-> state[k].current]

\* stage_write, if the key has no other writer.
MayWrite(inv, k) == state[k].writer \in {0, inv.component}
\* Mutant: the write replaces the current value.
StageInCurrent(inv, k) ==
    [state EXCEPT ![k].current = [epoch |-> inv.epoch, writer |-> inv.component], ![k].writer = inv.component]
Stage(inv, k) ==
    [state EXCEPT ![k].pending = [epoch |-> inv.epoch, writer |-> inv.component], ![k].writer = inv.component]

\* What a component does while it executes: publish, and perhaps write a key.
Published(stage, inv, loop) == IF inv.loop = loop THEN stage \cup {inv} ELSE stage
Writes(inv) ==
    \/ UNCHANGED state
    \/ inv.component \in setup.writers /\ \E k \in Keys : state' = IF MayWrite(inv, k) THEN Stage(inv, k) ELSE state
Failed(inv, success) == IF success THEN failures ELSE failures \cup {inv}

\* The runtime thread executes the next invocation; its publications are committed at once.
ExecuteInline(success, accepted) ==
    LET inv == Head(todo)
        done == Published(immediate, inv, FALSE)
    IN  /\ pc = "inline"
        /\ todo' = Tail(todo)
        /\ Writes(inv)
        /\ failures' = Failed(inv, success)
        /\ regionStage' = Published(regionStage, inv, TRUE)
        /\ IF success /\ accepted
              THEN /\ visible' = visible \cup done /\ immediate' = {} /\ ticks' = ticks + 1
                   /\ IF Tail(todo) = <<>> THEN pc' = "component" /\ at' = at + 1 ELSE UNCHANGED <<pc, at>>
                   /\ UNCHANGED <<reason, ok, loopEnd>>
              ELSE /\ GiveUp("error", FALSE)
                   /\ immediate' = done
                   /\ UNCHANGED <<visible, at, ticks>>
        /\ UNCHANGED <<setup, stop, region, loopIter, iterations, ticksBefore, awaited, made, queue, stopping,
                       worker, job, finished, clock>>

\* execute_worker_invocations: all of them, or one at a time for a non-reentrant component.
SubmitFrom == IF Component \in setup.reentrant THEN Len(todo) ELSE 1

StopBeforeSubmit ==
    /\ pc = "pool" /\ awaited = {} /\ stop
    /\ GiveUp("stop_requested", ok)
    /\ UNCHANGED <<setup, stop, position, iterations, ticks, ticksBefore, todo, awaited, made, pool, immediate,
                   regionStage, visible, state, clock>>

Woken == {w \in Workers : worker[w] = "asleep"}
NotifyOne == IF Woken = {} THEN UNCHANGED worker
             ELSE \E w \in Woken : worker' = [worker EXCEPT ![w] = "idle"]

BeginBatch ==
    /\ pc = "pool" /\ awaited = {} /\ ~stop
    /\ awaited' = Elements(SubSeq(todo, 1, SubmitFrom))
    /\ pc' = "submit"
    /\ UNCHANGED <<setup, stop, position, result, ticksBefore, todo, made, pool, stages, state, clock>>

\* PersistentWorkerPool::submit; all items of a lane in flight have one component's priority.
Submit ==
    /\ pc = "submit"
    /\ queue' = Append(queue, Head(todo))
    /\ todo' = Tail(todo)
    /\ pc' = IF Tail(todo) # <<>> /\ Head(Tail(todo)) \in awaited THEN "submit" ELSE "drain"
    /\ NotifyOne
    /\ UNCHANGED <<setup, stop, position, result, ticksBefore, awaited, made, stopping, job, finished, failures,
                   stages, state, clock>>

\* Mutant: the first failure ends the wait.
DrainedOrFailed == awaited \subseteq finished \/ awaited \cap failures # {}
Drained == awaited \subseteq finished

CommitsBatch == awaited \cap failures = {}

\* All futures are ready: the outcomes are recorded in order, then the batch is committed.
RecordBatch(accepted) ==
    LET good == {inv \in awaited : \A f \in awaited \cap failures : inv.id < f.id}
        committed == CommitsBatch /\ accepted
        refusedFirst == awaited \cap failures = {} /\ ~accepted /\ Component \notin setup.reentrant
    IN  /\ pc = "drain"
        /\ Drained
        /\ awaited' = {} /\ finished' = {}
        /\ ticks' = ticks + (IF refusedFirst THEN 0 ELSE Cardinality(good))
        /\ visible' = IF committed THEN visible \cup immediate ELSE visible
        /\ immediate' = IF committed THEN {} ELSE immediate
        /\ IF awaited \cap failures # {} \/ ~accepted
              THEN GiveUp("error", FALSE) /\ UNCHANGED at
              ELSE /\ IF todo = <<>> THEN pc' = "component" /\ at' = at + 1 ELSE pc' = "pool" /\ UNCHANGED at
                   /\ UNCHANGED <<reason, ok, loopEnd>>
        /\ UNCHANGED <<setup, stop, region, loopIter, iterations, ticksBefore, todo, made, queue, stopping, worker,
                       job, failures, regionStage, state, clock>>

-----------------------------------------------------------------------------
(* worker_loop, and stop_and_join when run returns.                        *)

runtime == <<setup, stop, pc, position, result, ticksBefore, todo, awaited, made, visible, loopEnd, clock>>
work == <<finished, failures, immediate, regionStage, state>>

WorkerTake(w) ==
    /\ worker[w] = "idle" /\ queue # <<>>
    /\ worker' = [worker EXCEPT ![w] = "busy"]
    /\ job' = [job EXCEPT ![w] = Head(queue)]
    /\ queue' = Tail(queue)
    /\ UNCHANGED <<runtime, stopping, work>>

WorkerFinish(w, success) ==
    /\ worker[w] = "busy"
    /\ worker' = [worker EXCEPT ![w] = "idle"]
    /\ job' = [job EXCEPT ![w] = NoInvocation]
    /\ finished' = finished \cup {job[w]}
    /\ failures' = Failed(job[w], success)
    /\ immediate' = Published(immediate, job[w], FALSE)
    /\ regionStage' = Published(regionStage, job[w], TRUE)
    /\ Writes(job[w])
    /\ UNCHANGED <<runtime, queue, stopping>>

\* The wait for work, and the return once the pool stops and its queue is empty.
WorkerWait(w) ==
    /\ worker[w] = "idle" /\ queue = <<>>
    /\ worker' = [worker EXCEPT ![w] = IF stopping THEN "gone" ELSE "asleep"]
    /\ UNCHANGED <<runtime, queue, stopping, job, work>>

\* Mutant: one worker is woken up to stop.
WakeOne == IF Woken = {} THEN {} ELSE {CHOOSE w \in Woken : TRUE}
WakeAll == Woken

StopPool ==
    /\ pc = "returned" /\ ~stopping
    /\ stopping' = TRUE
    /\ worker' = [w \in Workers |-> IF w \in WakeAll THEN "idle" ELSE worker[w]]
    /\ UNCHANGED <<runtime, queue, job, work>>

Main ==
    \/ EndRun \/ \E s \in BOOLEAN : BeginEpoch(s)
    \/ \E d \in setup.durations : EndEpoch(d)
    \/ EnterRegion \/ LeaveComponents \/ NextIteration
    \/ \E why \in {"converged", "budget_overrun", "max_iterations", "cancelled"}, a \in BOOLEAN : FinishLoop(why, a)
    \/ \E n \in 0 .. setup.ready : Collect(n)
    \/ \E s, a \in BOOLEAN : ExecuteInline(s, a)
    \/ StopBeforeSubmit \/ BeginBatch \/ Submit \/ \E a \in BOOLEAN : RecordBatch(a)
    \/ StopPool

Worker(w) == WorkerTake(w) \/ WorkerWait(w) \/ \E s \in BOOLEAN : WorkerFinish(w, s)

Next == RequestStop \/ Main \/ \E w \in Workers : Worker(w)

Spec == Init /\ [][Next]_vars /\ WF_vars(Main) /\ \A w \in Workers : WF_vars(Worker(w))

-----------------------------------------------------------------------------
InFlight == {job[w] : w \in {x \in Workers : worker[x] = "busy"}}

\* The types of the variables.
TypeOK ==
    /\ setup \in Setups /\ stop \in BOOLEAN /\ ok \in BOOLEAN
    /\ pc \in {"boundary", "region", "component", "inline", "pool", "submit", "drain", "iterated", "returned"}
    /\ region \in 1 .. Len(Regions) + 1 /\ loopIter \in 1 .. Max({1} \cup {Regions[i].loop.max_iterations : i \in DOMAIN Regions})
    /\ reason \in {"tick_bound", "stop_requested", "duration_bound", "error", "idle"}
    /\ iterations \in 0 .. setup.iterations /\ ticksBefore <= ticks /\ ticks <= made
    /\ Len(todo) + Len(queue) <= made
    /\ DOMAIN loopEnd \subseteq (1 .. Epoch) \X DOMAIN Regions
    /\ \A l \in Lanes : tick[l] <= due[l] /\ tickCount[l] = iterations

\* Components that are not reentrant never overlap themselves, and the workers and the lane's
\* queue hold no more than was to be admitted (rows 16 and 17).
OverlapBounded ==
    /\ Cardinality(InFlight) <= IF pc \in {"submit", "drain"} THEN ActiveCapacity ELSE 0
    /\ pc \in {"submit", "drain"} /\ setup.queue_capacity > 0 =>
          Cardinality(awaited \cup Elements(todo)) <= ActiveCapacity + setup.queue_capacity

\* The workers hold only work of the component whose batch the runtime thread waits for: none
\* is left when it goes on to another component or returns, so no worker uses what the run
\* has destroyed (the drain of the futures; row 15 of docs/21-architecture/runtime-invariants.md),
\* and what they hold keeps the limits of the lane.
WorkDrained ==
    /\ TypeOK /\ OverlapBounded
    /\ InFlight \cup Elements(queue) \subseteq awaited

\* What a failed invocation published never becomes visible, and of the batch of a reentrant
\* component with a failure nothing does (execute_worker_invocations).
FailedNeverVisible ==
    /\ visible \cap failures = {}
    /\ \A inv \in visible, f \in failures :
          inv.component = f.component /\ inv.epoch = f.epoch /\ ~f.loop => inv.component \notin setup.reentrant

InRegion(inv, i) == inv.component \in Elements(Regions[i].components)

\* The outputs of a composite loop become visible once it has stopped, all or none, and for
\* a solver only if it converged or its policy commits partial success (row 8).
LoopOutputsWhole ==
    \A inv \in visible : inv.loop => \E i \in DOMAIN Regions :
        LET loop == Regions[i].loop
            end == loopEnd[<<inv.epoch, i>>]
        IN  /\ loop # NoLoop /\ InRegion(inv, i)
            /\ <<inv.epoch, i>> \in DOMAIN loopEnd
            /\ end # "component_error"
            /\ end = "converged" \/ ~loop.solver \/ loop.partial = "commit_outputs"
            /\ \A other \in regionStage : other.epoch = inv.epoch => ~InRegion(other, i)

\* Only success becomes visible: of an invocation, of a batch, of a composite loop.
OnlySuccessIsVisible == FailedNeverVisible /\ LoopOutputsWhole

\* State readers see the old snapshot for the whole epoch, and every value of a key, pending
\* or current, is from its one writer (rows 4 and 12).
OldSnapshot ==
    \A k \in Keys :
        /\ Snapshot[k].epoch < Epoch
        /\ \A v \in {Snapshot[k], state[k].pending} : v # NoValue => v.writer = state[k].writer

\* A fixed_rate lane begins no epoch before its tick, and counts no more ticks, executed and
\* skipped, than have come due, except with skip_next.
TicksAccounted ==
    \A l \in Lanes :
        /\ pc = "region" => tick[l] <= now
        /\ setup.overrun[l] # "skip_next" => tickCount[l] + skipped[l] <= 1 + now \div setup.period[l]

\* The run returns and its workers are joined, if executing components return: no wait for a
\* future or for a worker lasts forever, whether or not a stop is requested.
RunReturns == <>(pc = "returned" /\ \A w \in Workers : worker[w] = "gone")
=============================================================================
