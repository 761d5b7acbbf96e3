------------------------ MODULE ThreadedTaskExecutor ------------------------
(***************************************************************************)
(* The worker-backed task executor of src/task_executor.cpp.               *)
(*                                                                         *)
(* Worker threads and client threads share one mutex and two condition     *)
(* variables, work_available_ and idle_.  One action is one critical       *)
(* section of the mutex, or one step taken outside it: running the task,   *)
(* its completion callback, a notification sent after the unlock, a join.  *)
(* A thread asleep on a condition variable is in a state of its own, so a  *)
(* notification that reaches nobody is lost here as it is in the program.  *)
(***************************************************************************)
EXTENDS Naturals, Sequences, FiniteSets

CONSTANTS
    Workers,        \* the worker threads; config_.max_workers of them
    Clients,        \* the threads that call the public interface
    MaxInflight,    \* config_.max_inflight as configured, 0 allowed
    QueueCapacity,  \* config_.queue_capacity
    MaxCalls        \* bound: interface calls made by each client

ASSUME ExecutorAssumption ==
    /\ IsFiniteSet(Workers) /\ Workers # {}
    /\ IsFiniteSet(Clients)
    /\ MaxInflight \in Nat
    /\ QueueCapacity \in Nat
    /\ MaxCalls \in Nat

Overflows == {"reject", "drop_oldest"}
ShutdownPolicies == {"drain", "cancel_pending"}

VARIABLES
    overflow,       \* config_.overflow; every other spelling acts as one of these
    shutdownPolicy, \* config_.shutdown_policy, likewise
    stopping,       \* stopping_
    handles,        \* workers_: the thread handles not yet moved out to be joined
    pending,        \* pending_: ids of the accepted tasks not yet taken
    completed,      \* completed_: ids of the completion records not yet drained
    nextTaskId,     \* next_task_id_
    active,         \* metrics_.active_count
    submitted, completedCount, failedCount, cancelledCount, rejectedCount,
                    \* the counters of metrics_ of those names
    maxInflight, maxOutstanding,
                    \* the high-water marks of metrics_
    wpc,            \* control state of each worker
    held,           \* task held by each worker, 0 when none
    outcome,        \* whether the work of the held task returned normally
    cpc,            \* control state of each client
    calls,          \* calls made so far by each client
    cancelledIds,   \* history: tasks removed from pending_ without running
    drainedIds,     \* history: tasks whose completion record run_ready returned
    callbacks,      \* history: how often the callback of each task has run
    joined          \* history: the shutdown that owns the handles has joined them

config == <<overflow, shutdownPolicy>>
settledCounts == <<completedCount, failedCount, cancelledCount, rejectedCount>>
highWaters == <<maxInflight, maxOutstanding>>
queues == <<pending, completed, nextTaskId, active, submitted, settledCounts, highWaters>>
workerVars == <<wpc, held, outcome>>
history == <<cancelledIds, drainedIds, callbacks, joined>>
vars == <<config, stopping, handles, queues, workerVars, cpc, calls, history>>

WorkerStates == {"check", "asleep", "execute", "callback", "record", "notify", "exited"}
ClientStates == {"idle", "notify_one", "notify_all", "join", "wait_idle", "woken"}

TaskIds == 1 .. nextTaskId - 1

-----------------------------------------------------------------------------
(* Helpers.                                                                *)

normalize_positive(n) == IF n = 0 THEN 1 ELSE n
InflightLimit == normalize_positive(MaxInflight)
Capacity == InflightLimit + QueueCapacity

Larger(a, b) == IF a >= b THEN a ELSE b
IdsIn(s) == {s[i] : i \in DOMAIN s}
Inflight == Len(pending) + active
Outstanding == Inflight + Len(completed)
IsIdle == pending = <<>> /\ active = 0
CancelOnShutdown == shutdownPolicy = "cancel_pending"

\* Mutant: a draining worker leaves early.
MustExitAtOnce == stopping

\* The predicates of worker_loop's wait and of the two tests that follow it.
CanStart == pending # <<>> /\ active < InflightLimit
MustExit == stopping /\ (pending = <<>> \/ CancelOnShutdown)

\* notify_all on work_available_ and on idle_: every sleeper gets to re-check.
WakeWorkers(pc) == [w \in Workers |-> IF pc[w] = "asleep" THEN "check" ELSE pc[w]]
WakeIdleWaiters(pc) == [c \in Clients |-> IF pc[c] = "wait_idle" THEN "woken" ELSE pc[c]]

\* cancel_pending_locked.
CancelPendingLocked ==
    /\ pending' = <<>>
    /\ cancelledCount' = cancelledCount + Len(pending)
    /\ cancelledIds' = cancelledIds \cup IdsIn(pending)

Init ==
    /\ overflow \in Overflows
    /\ shutdownPolicy \in ShutdownPolicies
    /\ stopping = FALSE
    /\ handles = Workers
    /\ pending = <<>>
    /\ completed = <<>>
    /\ nextTaskId = 1
    /\ active = 0
    /\ submitted = 0
    /\ completedCount = 0 /\ failedCount = 0
    /\ cancelledCount = 0 /\ rejectedCount = 0
    /\ maxInflight = 0 /\ maxOutstanding = 0
    /\ wpc = [w \in Workers |-> "check"]
    /\ held = [w \in Workers |-> 0]
    /\ outcome = [w \in Workers |-> TRUE]
    /\ cpc = [c \in Clients |-> "idle"]
    /\ calls = [c \in Clients |-> 0]
    /\ cancelledIds = {}
    /\ drainedIds = {}
    /\ callbacks = <<>>
    /\ joined = FALSE

-----------------------------------------------------------------------------
(* Client threads: the public interface.                                   *)

Calls(c) ==
    /\ cpc[c] = "idle"
    /\ calls[c] < MaxCalls
    /\ calls' = [calls EXCEPT ![c] = @ + 1]

\* submit() refused: empty work, shutdown begun, or no room and nothing to drop.
SubmitRejected(c) ==
    /\ Calls(c)
    /\ rejectedCount' = rejectedCount + 1
    /\ UNCHANGED <<config, stopping, handles, pending, completed, nextTaskId, active,
                   submitted, completedCount, failedCount, cancelledCount, highWaters,
                   workerVars, cpc, history>>

SubmitEmpty(c) == SubmitRejected(c)

SubmitStopping(c) == stopping /\ SubmitRejected(c)

SubmitFull(c) ==
    /\ ~stopping
    /\ Outstanding >= Capacity
    /\ overflow # "drop_oldest" \/ pending = <<>>
    /\ SubmitRejected(c)

\* submit() accepted; `kept` is pending_ and `dropped` the ids popped from it first.
Accept(c, kept, dropped) ==
    LET inflight == Len(kept) + 1 + active
    IN  /\ Calls(c)
        /\ pending' = Append(kept, nextTaskId)
        /\ nextTaskId' = nextTaskId + 1
        /\ submitted' = submitted + 1
        /\ cancelledCount' = cancelledCount + Cardinality(dropped)
        /\ maxInflight' = Larger(maxInflight, inflight)
        /\ maxOutstanding' = Larger(maxOutstanding, inflight + Len(completed))
        /\ cpc' = [cpc EXCEPT ![c] = "notify_one"]
        /\ cancelledIds' = cancelledIds \cup dropped
        /\ callbacks' = Append(callbacks, 0)
        /\ UNCHANGED <<config, stopping, handles, completed, active, completedCount,
                       failedCount, rejectedCount, workerVars, drainedIds, joined>>

\* Mutant: undrained completion records do not count against the capacity.
SubmitRoomIgnoresBacklog(c) ==
    /\ ~stopping
    /\ Inflight < Capacity
    /\ Accept(c, pending, {})

SubmitRoom(c) ==
    /\ ~stopping
    /\ Outstanding < Capacity
    /\ Accept(c, pending, {})

\* Mutants: the dropped task is not counted, or is the newest one.
SubmitDropUncounted(c) ==
    /\ ~stopping
    /\ Outstanding >= Capacity
    /\ overflow = "drop_oldest"
    /\ pending # <<>>
    /\ Accept(c, Tail(pending), {})

SubmitDropNewest(c) ==
    /\ ~stopping
    /\ Outstanding >= Capacity
    /\ overflow = "drop_oldest"
    /\ pending # <<>>
    /\ Accept(c, SubSeq(pending, 1, Len(pending) - 1), {pending[Len(pending)]})

SubmitDropOldest(c) ==
    /\ ~stopping
    /\ Outstanding >= Capacity
    /\ overflow = "drop_oldest"
    /\ pending # <<>>
    /\ Accept(c, Tail(pending), {Head(pending)})

\* Mutant: the notification is forgotten.
NotifyNobody(c) ==
    /\ cpc[c] = "notify_one"
    /\ cpc' = [cpc EXCEPT ![c] = "idle"]
    /\ UNCHANGED <<config, stopping, handles, queues, workerVars, calls, history>>

\* work_available_.notify_one() after the unlock: one sleeper, if there is any.
NotifyOne(c) ==
    /\ cpc[c] = "notify_one"
    /\ cpc' = [cpc EXCEPT ![c] = "idle"]
    /\ \/ /\ \E w \in Workers : wpc[w] = "asleep" /\ wpc' = [wpc EXCEPT ![w] = "check"]
       \/ /\ \A w \in Workers : wpc[w] # "asleep"
          /\ UNCHANGED wpc
    /\ UNCHANGED <<config, stopping, handles, queues, held, outcome, calls, history>>

completion_limit(max, available) ==
    IF max = 0 \/ available < max THEN available ELSE max

\* run_ready(): a requested token first cancels what is pending and wakes the
\* workers (idle_ is not notified); then completion records are handed over.
RunReady(c, max, cancel) ==
    LET count == completion_limit(max, Len(completed))
    IN  /\ Calls(c)
        /\ IF cancel
              THEN CancelPendingLocked /\ wpc' = WakeWorkers(wpc)
              ELSE UNCHANGED <<pending, cancelledCount, cancelledIds, wpc>>
        /\ completed' = SubSeq(completed, count + 1, Len(completed))
        /\ drainedIds' = drainedIds \cup IdsIn(SubSeq(completed, 1, count))
        /\ UNCHANGED <<config, stopping, handles, nextTaskId, active, submitted,
                       completedCount, failedCount, rejectedCount, highWaters, held,
                       outcome, cpc, callbacks, joined>>

\* cancel_pending(): wakes the workers, and the idle waiters if nothing is active.
CancelPending(c) ==
    /\ Calls(c)
    /\ CancelPendingLocked
    /\ wpc' = WakeWorkers(wpc)
    /\ cpc' = IF active = 0 THEN WakeIdleWaiters(cpc) ELSE cpc
    /\ UNCHANGED <<config, stopping, handles, completed, nextTaskId, active, submitted,
                   completedCount, failedCount, rejectedCount, highWaters, held, outcome,
                   drainedIds, callbacks, joined>>

\* shutdown() when an earlier call already took the handles: returns at once.
ShutdownAgain(c) ==
    /\ stopping /\ handles = {}
    /\ Calls(c)
    /\ UNCHANGED <<config, stopping, handles, queues, workerVars, cpc,
                   cancelledIds, drainedIds, callbacks, joined>>

\* shutdown(): the critical section that sets stopping_ and takes the handles.
ShutdownBegin(c) ==
    /\ ~(stopping /\ handles = {})
    /\ Calls(c)
    /\ stopping' = TRUE
    /\ handles' = {}
    /\ IF CancelOnShutdown
          THEN CancelPendingLocked
          ELSE UNCHANGED <<pending, cancelledCount, cancelledIds>>
    /\ cpc' = [cpc EXCEPT ![c] = "notify_all"]
    /\ UNCHANGED <<config, completed, nextTaskId, active, submitted, completedCount,
                   failedCount, rejectedCount, highWaters, workerVars, drainedIds,
                   callbacks, joined>>

\* Mutant: shutdown() goes straight to the join.
ShutdownNotifiesNobody(c) ==
    /\ cpc[c] = "notify_all"
    /\ cpc' = [cpc EXCEPT ![c] = "join"]
    /\ UNCHANGED <<config, stopping, handles, queues, workerVars, calls, history>>

ShutdownNotify(c) ==
    /\ cpc[c] = "notify_all"
    /\ wpc' = WakeWorkers(wpc)
    /\ cpc' = [cpc EXCEPT ![c] = "join"]
    /\ UNCHANGED <<config, stopping, handles, queues, held, outcome, calls, history>>

ShutdownJoin(c) ==
    /\ cpc[c] = "join"
    /\ \A w \in Workers : wpc[w] = "exited"
    /\ cpc' = [cpc EXCEPT ![c] = "idle"]
    /\ joined' = TRUE
    /\ UNCHANGED <<config, stopping, handles, queues, workerVars, calls,
                   cancelledIds, drainedIds, callbacks>>

\* wait_for_idle(): wait_for with a predicate.  It returns on the predicate, or,
\* whatever the predicate, when the timeout has passed.
WaitForIdle(c) ==
    /\ Calls(c)
    /\ cpc' = [cpc EXCEPT ![c] = IF IsIdle THEN "idle" ELSE "wait_idle"]
    /\ UNCHANGED <<config, stopping, handles, queues, workerVars, history>>

WaitRecheck(c) ==
    /\ cpc[c] = "woken"
    /\ cpc' = [cpc EXCEPT ![c] = IF IsIdle THEN "idle" ELSE "wait_idle"]
    /\ UNCHANGED <<config, stopping, handles, queues, workerVars, calls, history>>

WaitTimeout(c) ==
    /\ cpc[c] \in {"wait_idle", "woken"}
    /\ cpc' = [cpc EXCEPT ![c] = "idle"]
    /\ UNCHANGED <<config, stopping, handles, queues, workerVars, calls, history>>

-----------------------------------------------------------------------------
(* Worker threads: worker_loop and execute_task.                           *)

\* The predicate of the wait is false: the worker goes to sleep.
WorkerSleep(w) ==
    /\ wpc[w] = "check"
    /\ ~CanStart /\ ~MustExit
    /\ wpc' = [wpc EXCEPT ![w] = "asleep"]
    /\ UNCHANGED <<config, stopping, handles, queues, held, outcome, cpc, calls, history>>

WorkerSpuriousWake(w) ==
    /\ wpc[w] = "asleep"
    /\ wpc' = [wpc EXCEPT ![w] = "check"]
    /\ UNCHANGED <<config, stopping, handles, queues, held, outcome, cpc, calls, history>>

WorkerExit(w) ==
    /\ wpc[w] = "check"
    /\ MustExit
    /\ wpc' = [wpc EXCEPT ![w] = "exited"]
    /\ UNCHANGED <<config, stopping, handles, queues, held, outcome, cpc, calls, history>>

\* One pending task becomes active, so the inflight count does not change.
WorkerTake(w) ==
    /\ wpc[w] = "check"
    /\ CanStart /\ ~MustExit
    /\ held' = [held EXCEPT ![w] = Head(pending)]
    /\ pending' = Tail(pending)
    /\ active' = active + 1
    /\ maxInflight' = Larger(maxInflight, Inflight)
    /\ maxOutstanding' = Larger(maxOutstanding, Outstanding)
    /\ wpc' = [wpc EXCEPT ![w] = "execute"]
    /\ UNCHANGED <<config, stopping, handles, completed, nextTaskId, submitted,
                   settledCounts, outcome, cpc, calls, history>>

\* Mutant: a task that throws skips its completion callback.
WorkerExecuteSkipsCallback(w, ok) ==
    /\ wpc[w] = "execute"
    /\ outcome' = [outcome EXCEPT ![w] = ok]
    /\ wpc' = [wpc EXCEPT ![w] = IF ok THEN "callback" ELSE "record"]
    /\ UNCHANGED <<config, stopping, handles, queues, held, cpc, calls, history>>

\* execute_task(): the work returns or throws.
WorkerExecute(w, ok) ==
    /\ wpc[w] = "execute"
    /\ outcome' = [outcome EXCEPT ![w] = ok]
    /\ wpc' = [wpc EXCEPT ![w] = "callback"]
    /\ UNCHANGED <<config, stopping, handles, queues, held, cpc, calls, history>>

WorkerCallback(w) ==
    /\ wpc[w] = "callback"
    /\ callbacks' = [callbacks EXCEPT ![held[w]] = @ + 1]
    /\ wpc' = [wpc EXCEPT ![w] = "record"]
    /\ UNCHANGED <<config, stopping, handles, queues, held, outcome, cpc, calls,
                   cancelledIds, drainedIds, joined>>

\* The second critical section of worker_loop.
WorkerRecord(w) ==
    LET left == IF active > 0 THEN active - 1 ELSE 0
    IN  /\ wpc[w] = "record"
        /\ completed' = Append(completed, held[w])
        /\ active' = left
        /\ IF outcome[w]
              THEN completedCount' = completedCount + 1 /\ failedCount' = failedCount
              ELSE failedCount' = failedCount + 1 /\ completedCount' = completedCount
        /\ maxOutstanding' = Larger(maxOutstanding, Len(pending) + left + Len(completed) + 1)
        /\ held' = [held EXCEPT ![w] = 0]
        /\ outcome' = [outcome EXCEPT ![w] = TRUE]
        /\ wpc' = [wpc EXCEPT ![w] = "notify"]
        /\ cpc' = IF pending = <<>> /\ left = 0 THEN WakeIdleWaiters(cpc) ELSE cpc
        /\ UNCHANGED <<config, stopping, handles, pending, nextTaskId, submitted,
                       cancelledCount, rejectedCount, maxInflight, calls, history>>

WorkerNotify(w) ==
    /\ wpc[w] = "notify"
    /\ wpc' = [WakeWorkers(wpc) EXCEPT ![w] = "check"]
    /\ UNCHANGED <<config, stopping, handles, queues, held, outcome, cpc, calls, history>>

-----------------------------------------------------------------------------

ClientCall(c) ==
    \/ SubmitEmpty(c) \/ SubmitStopping(c) \/ SubmitFull(c)
    \/ SubmitRoom(c) \/ SubmitDropOldest(c)
    \/ \E max \in 0 .. 1, cancel \in BOOLEAN : RunReady(c, max, cancel)
    \/ CancelPending(c)
    \/ ShutdownAgain(c) \/ ShutdownBegin(c)
    \/ WaitForIdle(c)

\* What a client inside a call does next; it owes these steps to nobody else.
ClientStep(c) ==
    \/ NotifyOne(c) \/ ShutdownNotify(c) \/ ShutdownJoin(c)
    \/ WaitRecheck(c) \/ WaitTimeout(c)

WorkerStep(w) ==
    \/ WorkerSleep(w) \/ WorkerExit(w) \/ WorkerTake(w)
    \/ \E ok \in BOOLEAN : WorkerExecute(w, ok)
    \/ WorkerCallback(w) \/ WorkerRecord(w) \/ WorkerNotify(w)

Next ==
    \/ \E c \in Clients : ClientCall(c) \/ ClientStep(c)
    \/ \E w \in Workers : WorkerStep(w) \/ WorkerSpuriousWake(w)

\* Every thread that can run does run: the operating system schedules workers and
\* clients, the work and the callback of a task return, a timeout expires.  Nothing
\* forces a client to make another call, and spurious wakeups need not happen.
Fairness ==
    /\ \A w \in Workers : WF_vars(WorkerStep(w))
    /\ \A c \in Clients : WF_vars(ClientStep(c))

Spec == Init /\ [][Next]_vars
FairSpec == Spec /\ Fairness

-----------------------------------------------------------------------------
(* Properties.                                                             *)

Busy(w) == wpc[w] \in {"execute", "callback", "record"}
BusyWorkers == {w \in Workers : Busy(w)}
HeldIds == {held[w] : w \in BusyWorkers}

DataTypes ==
    /\ overflow \in Overflows
    /\ shutdownPolicy \in ShutdownPolicies
    /\ handles \in SUBSET Workers
    /\ pending \in Seq(Nat)
    /\ completed \in Seq(Nat)
    /\ nextTaskId \in Nat \ {0}
    /\ active \in Nat /\ submitted \in Nat
    /\ completedCount \in Nat /\ failedCount \in Nat
    /\ cancelledCount \in Nat /\ rejectedCount \in Nat
    /\ maxInflight \in Nat /\ maxOutstanding \in Nat
    /\ wpc \in [Workers -> WorkerStates]
    /\ held \in [Workers -> Nat]
    /\ cpc \in [Clients -> ClientStates]
    /\ calls \in [Clients -> Nat]
    /\ cancelledIds \in SUBSET Nat
    /\ drainedIds \in SUBSET Nat
    /\ callbacks \in Seq(Nat)

FlagTypes ==
    /\ stopping \in BOOLEAN
    /\ outcome \in [Workers -> BOOLEAN]
    /\ joined \in BOOLEAN

\* Type correctness of the executor's state.
TypeOK == DataTypes /\ FlagTypes

\* Pending tasks, running tasks and completion records nobody drained together
\* never exceed the admission capacity, and the high-water marks kept in metrics_
\* are never behind the present depths nor beyond their limits.
AdmissionBound ==
    /\ Outstanding <= maxOutstanding
    /\ Inflight <= maxInflight
    /\ maxInflight <= maxOutstanding
    /\ maxOutstanding <= Capacity

\* active_count is the number of workers that hold a task, and at most
\* min(max_workers, max_inflight) tasks run at a time.
ConcurrencyBound ==
    /\ active = Cardinality(BusyWorkers)
    /\ active <= InflightLimit

\* The pool's limits hold at every step of every thread: the state is well typed,
\* admission and concurrency stay within max_inflight and queue_capacity.
PoolBounded == TypeOK /\ AdmissionBound /\ ConcurrencyBound

\* Every accepted task is counted exactly once: pending, active, or settled as
\* completed, failed or cancelled.
CountersBalance ==
    submitted = Len(pending) + active + completedCount + failedCount + cancelledCount

\* Every accepted task is in exactly one place: waiting, in a worker, in the
\* completion backlog, drained, or cancelled; none is lost and none is duplicated.
EveryTaskInOnePlace ==
    LET places == <<IdsIn(pending), HeldIds, IdsIn(completed), drainedIds, cancelledIds>>
    IN  /\ UNION IdsIn(places) = TaskIds
        /\ \A i, j \in DOMAIN places : i # j => places[i] \cap places[j] = {}
        /\ Cardinality(IdsIn(pending)) = Len(pending)
        /\ Cardinality(IdsIn(completed)) = Len(completed)
        /\ Cardinality(HeldIds) = Cardinality(BusyWorkers)

\* The completion callback runs exactly once for a task whose record is published,
\* and never for a task that was cancelled.
CallbackExactlyOnce ==
    \A id \in TaskIds :
        callbacks[id] = IF \/ id \in IdsIn(completed) \cup drainedIds
                           \/ \E w \in Workers : wpc[w] = "record" /\ held[w] = id
                        THEN 1 ELSE 0

\* An accepted task is settled once: it is in one place at a time from submit() to
\* run_ready(), and its callback ran exactly when its record was published.
TasksSettleOnce == EveryTaskInOnePlace /\ CallbackExactlyOnce

\* No wakeup of work_available_ is lost: while a task could start, some thread is
\* awake that will look at pending_ or send a notification; while sleepers should
\* exit, some thread has yet to send the notify_all that wakes them.
WorkWakeupNotLost ==
    /\ CanStart => \/ \E w \in Workers : wpc[w] \notin {"asleep", "exited"}
                   \/ \E c \in Clients : cpc[c] \in {"notify_one", "notify_all"}
    /\ MustExit /\ (\E w \in Workers : wpc[w] = "asleep") =>
          \/ \E w \in Workers : wpc[w] \in {"execute", "callback", "record", "notify"}
          \/ \E c \in Clients : cpc[c] = "notify_all"

\* When the shutdown that owns the threads returns, every accepted task is settled
\* and no worker can touch the executor any more.
JoinedMeansSettled ==
    joined => /\ \A w \in Workers : wpc[w] = "exited"
              /\ TaskIds = IdsIn(completed) \cup drainedIds \cup cancelledIds

\* Every accepted task is eventually completed or cancelled, whether or not the
\* executor is shut down and whether or not anybody drains the completions.
EveryTaskSettles ==
    \A id \in 1 .. MaxCalls * Cardinality(Clients) :
        id \in TaskIds ~> id \in IdsIn(completed) \cup drainedIds \cup cancelledIds

\* A call of shutdown() returns: the workers drain or drop the backlog and exit.
ShutdownReturns ==
    \A c \in Clients : cpc[c] \in {"notify_all", "join"} ~> cpc[c] = "idle"

\* The executor implements the bounded pool: the locked sections are the pool's
\* operations and everything between them is invisible.
Pool == INSTANCE BoundedTaskPool WITH
    RunLimit <- InflightLimit, PoolCapacity <- Capacity,
    nextId <- nextTaskId, waiting <- IdsIn(pending), running <- HeldIds,
    finished <- IdsIn(completed), drained <- drainedIds, cancelled <- cancelledIds,
    closed <- stopping
ImplementsPool == Pool!Spec

=============================================================================
