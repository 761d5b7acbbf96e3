# A TLA+ model of topoexec

topoexec runs a graph of components in epochs. Components read messages from bounded
channels, run, and publish; publications are staged and become visible at defined points
of the epoch; blocking work goes to a task executor whose completions come back as
publications of a later epoch. This directory models the parts of that runtime in which
order, concurrency, limits and partial failure matter. TLC checks them on small
instances; for seven of the components TLAPS proves the safety properties for every value of
their constants.

Paths of the C++ code below are relative to the repository root (`src/channel.cpp`,
`docs/...`). `PROJECT.json` maps every definition to its lines.

## 1. Inventory

| Part | State | Operations | Hard behaviour |
| --- | --- | --- | --- |
| `ThreadedTaskExecutor` (`src/task_executor.cpp`) | pending queue, completed backlog, active count, stop flag, thread handles, metrics | `submit`, `run_ready`, `cancel_pending`, `wait_for_idle`, `shutdown`, `worker_loop` | condition variables notified after the unlock, workers held back by `max_inflight`, shutdown during everything else |
| `DeterministicTaskExecutor` | the same without threads | the same | admission limits |
| `RuntimeChannelBus` (`src/channel.cpp`) | per channel: latest value, queue, pending previous-tick value, reader cursors, watermark, counters | `publish*`, `publish_batch`, `advance_epoch`, reads, drains, snapshots, `wait_for_update` | cursor pruning and its cap, expiry, all-or-nothing batches |
| `RuntimePublicationRouter` (`src/channel.cpp`) | four staging areas, active loop, counters | `publish*`, `begin_epoch`, `commit_immediate`, region begin/commit/discard, `end_epoch` | callbacks publish between any two critical sections; admission limits of async edges; staged loop outputs |
| `EventRuntime::run` (`src/event_runtime.cpp`) | epoch counter, region and loop state, tick times of the lanes, stop reason | one epoch after another; composite loops; configuration transactions | partial success, cancellation, late ticks, a stop at any moment |
| `PersistentWorkerPool` and lanes (`src/event_runtime.cpp`) | queue of invocations, threads, futures | submit, wait, stop and join | a failure in the middle of a batch, join against sleeping workers, reentrancy limits |
| `TriggerPolicyEngine` (`src/trigger_policy.cpp`) | per-port pending messages, last invocation, watermarks | drain, prune, bound, one collector per policy | held-back messages pile up; arrival order, clock and event time are unrelated |
| `ConfigSnapshotStore` (`src/state.cpp`) | committed and pending configurations, transaction ids, counters | stage, update at once, roll back, commit | updates arriving during a transaction; one of several hooks failing |
| `RuntimeStateStore` (`src/state.cpp`) | current and pending values, writers | `stage_write`, `seed_value`, commit | one writer per key, one snapshot per epoch |
| `LiveEventStream` / `LiveEventRingBuffer` (`src/live_observe.cpp`) | slots, two atomic indices, drop counters, sequence counter | `try_publish`, `try_pop`, `take_drop_summary` | lock-free: stale loads, unprotected slot accesses, relaxed counters |
| `BufferPool`, `LoanedFrame` (`src/buffer.cpp`) | free buffers, frames on loan, byte counters | loan, release, detach, move | byte budget under alignment and reuse |
| `RuntimeRunner` (`src/runtime_runner.cpp`) | instances, result, errors | load, validate, create, restore, reset, execute, snapshot, deactivate, notify | failure or exception half-way |
| Graph loader (`src/graph_io.cpp`) | none (pure) | read, substitute, expand namespaces, limits | ids that collide after expansion |
| Graph validation and compiler (`src/graph.cpp`) | none (pure; the compiler works in steps) | validation, strongly connected components, regions, order | what is accepted must be runnable |
| Health sink, observers (`health.hpp`) | bounded event lists | record, coalesce, evict | `try_lock` losing events |
| Payloads, graph I/O, metrics, traces, C API, plug-ins, command line | data | conversion and formatting | none that a model checker reaches |

How they interact: a trigger engine drains channels of the bus to decide which component
runs. `EventRuntime::run` executes components region by region, on its own thread or on a
lane's worker pool. `GraphContext::publish` enters the router, which stages the message by
edge kind; the runtime thread commits stages to the bus at component, region and epoch
boundaries. A component submits work to the task executor, whose completion callback
publishes through the router from a worker thread. The router takes its own mutex, then the
bus's mutex, never both: between any two of these critical sections a callback may run.
Configuration updates are staged in the store by anyone and applied by the runtime thread
at the start of an epoch. Observers read the live event ring.

What makes each part correct, in one line each: the executor never exceeds its limits, runs
or cancels each accepted task exactly once, and does not fall asleep on work; the bus hands
every reader each message at most once and in order, and accounts for each; the router makes
a message visible at the boundary its edge promises and loses none silently; the runtime
leaves no work running behind its back and shows only what succeeded; a trigger uses each
message at most once, in order and in time; the compiler refuses exactly the graphs it
cannot schedule, and what the loader and validation accept can be run; a runner that returns has
stopped what it started; the pool's byte accounts are exact; a configuration is committed for all
components or for none; the ring is a queue without data races.

## 2. Modules

| Module | Models | Role |
| --- | --- | --- |
| `ThreadedTaskExecutor` | the threaded executor | detailed specification |
| `BoundedTaskPool` | what its users may rely on: tasks wait in order, run or are cancelled once, a stopped pool takes nothing | abstract specification |
| `MCThreadedTaskExecutor` | symmetry for TLC | instance |
| `ThreadedTaskExecutorProofs` | | theorems |
| `ChannelBus`, `MCChannelBus`, `ChannelBusProofs` | the channel bus | specification, instances, theorems |
| `Positions` | the entries of a sequence at given positions: how the bus filters its queues and the router its stages | operators |
| `PublicationRouter`, `MCPublicationRouter`, `PublicationRouterProofs` | the router and the epochs that drive it, composed with `ChannelBus` by `INSTANCE` | composition, instances, theorems |
| `LiveEventRing`, `LiveEventRingProofs` | the live event stream | specification, theorems |
| `ConfigTransaction`, `ConfigTransactionProofs` | the configuration store and `EventRuntime`'s transaction | specification, theorems |
| `EventRuntime`, `MCEventRuntime`, `EventRuntimeProofs` | `EventRuntime::run`, the worker pool of a lane, the state store | composition, instances, theorems |
| `TriggerPolicy`, `MCTriggerPolicy` | the trigger engine for one component | specification, instance |
| `GraphLoader` | reading a document and flattening its subgraphs and templates | operators |
| `GraphValidation` | `validate_graph`, as the set of its errors; extends `GraphLoader` | operators |
| `RuntimeRunner`, `MCRuntimeRunner` | the runner from document to result; extends `GraphValidation` | composition, instance |
| `GraphCompiler`, `MCGraphCompiler` | `compile_graph` and the lifecycle order, step by step | specification, instance |
| `BufferPool`, `MCBufferPool`, `BufferPoolProofs` | the frame pool | specification, instance, theorems |
| `CollectionLemmas` | | lemmas on least and greatest elements, on the items of a sequence, on filtering by positions and on ascending sequences, shared by the proofs |

Operators whose comment begins with "Mutant" are deliberately wrong variants of the
definition below them, kept to show that the property they break can be broken.

### ThreadedTaskExecutor

Each critical section of `mutex_` is one action, and each notification outside a critical
section is another, so a thread can be overtaken between the unlock and the notify of
`submit` (`SubmitRoom`, then `NotifyOne`), of `shutdown` (`ShutdownBegin`, `ShutdownNotify`,
`ShutdownJoin`) and of the worker's loop (`WorkerTake`, `WorkerExecute`, `WorkerCallback`,
`WorkerRecord`, `WorkerNotify`). Condition variables are modelled by where a thread is: a
worker asleep leaves only through a notification or a spurious wakeup, and then tests the
predicate again. `notify_one` wakes any one sleeper. Clients choose any public call at any
time, up to `MaxCalls` each. A task is its id; whether its function succeeds is free. The
overflow and shutdown policies are chosen initially.

Left out: health events, the mirrors of queue sizes in `metrics_`, the timeout-budget and
token-cancellation counters, and callbacks that call back into `submit` (another client's
call at that moment has the same effect).

### ChannelBus

Every public method holds `mutex_` throughout, so each call is one action. A message is its
sequence number. Time is the number of messages that have outlived the lifespan (`Age`).
`StoreAll` is `publish_to_state` for one message or a batch; `PublishBatch` is the preflight
followed by the storing loop; `Read` covers reading, draining and consuming by one reader
with its cursor movement, pruning and cap; `Snapshot` covers the non-consuming reads, which
drop what is stale; `ReadLatest` is the read of latest-style channels only. `kMaxTrackedReaders` is the constant `MaxTrackedReaders`.

Left out: drop, reject, age and copy counters, health events, the waiters of
`wait_for_update`, and `max_batch` shared by several channels of one port.

### PublicationRouter

The runtime thread's position in the epoch is `pc`. `begin_epoch` is four actions
(`BeginAdvance`, `BeginSwap`, `BeginCommit`, `BeginCount`) because it takes the two mutexes
four times; `commit_immediate` and the commit of a loop are two each. `Publish` is one
critical section, the whole fan-out included, and is enabled in every state, for components
and for callbacks alike. A batch the bus refuses ends the run (`failed`), as does a failing
component. Whether a loop's outputs are committed or discarded is free here: the loop's own
policy is in `EventRuntime`.

`ChannelFifo` leaves out immediate edges that leave a composite loop. There the code does
reorder: a message that a callback stages just before the loop begins is committed after
one that the loop stages and commits. No document promises otherwise.

### LiveEventRing

Every access to an atomic and every access to a slot is an action. An acquire load may
return any value stored since the one the same thread loaded last (`Loadable`), which is
what the C++ memory model allows it; the two relaxed increments of a drop take effect in
either order (`owed`). An event is its `local_seq`. Of a drop summary the count and the
sequence number are modelled, its time stamp is not.

### ConfigTransaction

`StageUpdate` and `UpdateImmediately` are the two branches of
`stage_component_config_update` and may happen between any two steps of a transaction,
because hooks and task callbacks can reach the store. The transaction copies the pending
updates, validates each, applies each, and commits, or restores in reverse order and rolls
back. Each hook may fail, may have taken the value although it failed, and may throw. Ids
outside `Components` are updates for components the graph does not have.

### EventRuntime

The runtime thread, the workers of one thread-pool lane and whoever requests a stop
interleave. `pc` is where the runtime thread stands: between epochs, at a region, collecting a
component's ready invocations, executing them inline, submitting them, or waiting for their
futures. `BeginEpoch` and `EndEpoch` are the boundaries with their state commit, the sleep
until the next tick and the overrun policy; `NextIteration`, `StopsBecause` and `FinishLoop`
are a composite loop; `Collect` applies the admission capacity and the overflow policy of the
lane; `Submit`, `RecordBatch`, `WorkerTake`, `WorkerFinish`, `WorkerWait` and `StopPool` are
the pool. An invocation publishes and may write a key; whether it succeeds, whether the bus
accepts the commit, whether a solver converges and how long an epoch lasts is free. `loopEnd`
is the stop reason of each loop in each epoch, as `loop_stop_reason` is kept per region.

The publication stages are sets of invocations here: their edge kinds and their order are
`PublicationRouter`, which offers commit and discard of a loop freely; `EventRuntime` decides
which of the two happens. The trigger policies (`TriggerPolicy`) are the free number of ready
invocations, the configuration transaction is `ConfigTransaction`.

### TriggerPolicy

Ports receive messages at any time, each with an arrival time and perhaps an event timestamp
in a domain; the steady clock moves on its own (`TimePasses`). `BeginTick` reads the clock,
`CollectReadyInvocations` then drains the ports, prunes what timed out, applies the bounds,
the rate limit and the collector of the policy, in the code's order. Policies are records;
`PolicyType` names the combinations the validator lets through, with distinct inputs.

### GraphCompiler

`tarjan_scc` is modelled call by call: a frame is an activation of `strong_connect` with the
successors it has not followed yet. Then `MatchLoops`, `Condense`, `OrderRegion` and
`FinishPlan` are the parts of `compile_graph_impl`; the lifecycle order is a fold. Ids are
numbers whose order stands for both declaration order and id order. A loop may have the id of a
component, one of its own or one outside; a region is looked up by id as the code does, by the
first that has it (`RegionNamed`). Where two regions share an id (`SharedIds`) the compiler does
not do what it does otherwise; the properties say what they claim then, see the disagreements
below.

### GraphLoader, GraphValidation, RuntimeRunner

A dotted id is the sequence of its segments. A document is a record of what it gives; the
readers fill in the defaults and refuse malformed nodes; `Flatten` expands subgraphs and
template instances by the code's prefixing rules; `LimitsExceeded` and `IdentifierTooLong` are
the input limits. `ValidationErrors` is the set of errors of `validate_graph`: a tuple of the
rule and the id it is reported on; of the compiler's errors it has the reference definition that
`GraphCompiler` checks the algorithm against, without the refusals that shared ids cause.
`RuntimeRunner` loads, validates, and goes through the
lifecycle one component at a time. Each hook (`Hooks`: the factory with configure and activate,
restore, reset, the run, snapshot, deactivate, the observers) may succeed, report an error, or
throw: the `*_status` methods are virtual, and their defaults turn only an `std::exception` into
a status. What is thrown inside the try block and is an `std::exception` reaches the handler
(`HandleException`), anything else leaves `run()` (`Escape`). The name of the hook in
the recorded error stands for the exception's message. `EventRuntime::run`
is one step with every outcome it can have.

### BufferPool

Every method of the pool holds its mutex and is one action. A buffer is a number, its size is
kept, sizes wrap where the code tests for overflow (`SizeMax`). `Move` is the move assignment
of frames, which releases the target first.

## 3. What is checked

Passing runs:

| Run | Instance | What it shows |
| --- | --- | --- |
| `executor_safety` | 3 workers, 2 clients with 2 calls each, `max_inflight` 2, one queue place; all policies | `PoolBounded`: types, admission and concurrency limits; `CountersBalance`; `TasksSettleOnce`: no task lost or repeated, each callback once; `WorkWakeupNotLost`: nobody sleeps on work; `JoinedMeansSettled`; `ImplementsPool`: refinement of `BoundedTaskPool` |
| `executor_liveness` | 1 worker, `max_inflight` 0 (normalised to 1), one queue place, fair | `EveryTaskSettles`, `ShutdownReturns` |
| `bus_readers` | 1 channel of every mode, evicting or rejecting, shared or not, with or without lifespan; 2 readers, a cursor cap of 1 | `DeliveredOnceInOrder`, `QueueSharing`, `QueueConservation` (counters, depth and watermark agree) |
| `router_epochs` | immediate, async (limit 2, evicting or refusing), delay and previous-tick edges, 2 sources, 3 publications, 3 epochs, one loop | `DeferredAtNextBoundary`, `FeedbackIsDelayed`, `ChannelFifo`, `StagedAccounted` (with the async admission limit), `RegionOutputsTogether`, `BatchAllOrNothing` |
| `ring_spsc` | 2 slots and the spare, 7 sequence numbers | `SlotExclusive`, `Fifo`, `EventsAccounted` (sequence numbers unique, every drop reported once) |
| `config_updates` | 2 components and one unknown id, 2 values, 4 updates, 2 epochs | `LiveMatchesCommitted`, `UpdatesAccounted` (with the transaction ids) |
| `trigger` | 14 policies, 2 ports, 3 messages, 3 time steps, 3 event times | `MessagesAccounted`, `PendingBounded`, `InvocationsSound` (order, interval, slop), `NothingExpiredOrLate`, `BatchWhenDue` |
| `compiler_plan` | 3 components: every set of immediate edges, 19 loop declarations (6 of them named like a component), 2 priorities; every `depends_on` over a chain | `RefusedExactlyWhenWrong` (against reachability), `EveryComponentScheduledInOrder`, `Terminates` |
| `event_runtime` | 2 workers; a reentrant and a non-reentrant pooled component with each overflow policy; loops of 5 policies with a pooled member; two loops in one epoch; 2 fixed-rate lanes with each pair of overrun policies over 4 epochs | `WorkDrained`, `OnlySuccessIsVisible`, `OldSnapshot`, `TicksAccounted`, `RunReturns` |
| `runner` | good and bad documents with subgraphs, templates and partial nodes; every mode; restore, reset and capture; with and without an observer; every hook failing, throwing an `std::exception` or throwing something else | `StoppedInReverse`, `OkMeansClean`, `AcceptedIsRunnable` |
| `buffer_pool` | 3 frames, 4 loans, sizes up to 7 with a 3-bit `size_t`, blocks, buckets and alignment | `BytesBalanced`, `BudgetHeld` |

The type invariants are conjuncts of these: of `PoolBounded`, `QueueConservation`,
`StagedAccounted`, `EventsAccounted`, `UpdatesAccounted`, `MessagesAccounted`,
`RefusedExactlyWhenWrong`, `WorkDrained`, `AcceptedIsRunnable` and `BytesBalanced`.

One run ends in a counterexample: `config_late_update`. An update staged after the transaction
copied the pending ones, in the shortest trace none (`src/event_runtime.cpp:516`, the same at
`586`), is committed without `validate_config` or `apply_config`, which
`docs/21-architecture/state.md:54` excludes; `PROJECT.json` quotes the line.

### Disagreements between documents and code, recorded without a run

The models follow the code in each of these.

Executor and channels:

- A second `shutdown()` returns at once while the first is still joining
  (`src/task_executor.cpp:331`); `docs/21-architecture/async-tasks.md:41` says it joins.
- A cancelling `run_ready` or `shutdown` empties the executor without notifying `idle_`
  (`src/task_executor.cpp:285`), so a waiter sleeps until its timeout
  (`async-tasks.md:39`: until pending and active work reach zero).
- A barrier counts expired messages toward its N (`src/channel.cpp:913`) and may deliver
  fewer (`docs/21-architecture/runtime-semantics.md:48`).
- An async edge at its limit refuses a publication whose earlier edges are already staged
  (`src/channel.cpp:1282`; `docs/11-user-guide/channels.md:26` says all-or-nothing).
- `admit_async_locked` assigns `async_in_flight_count` from the one channel it admits to
  (`src/channel.cpp:1189`; `docs/21-architecture/concurrency.md:91`).

Runtime:

- `skip_next` counts at least one skipped tick for any overrun, also when no period was missed
  (`src/event_runtime.cpp:1165`), so executed and skipped ticks may exceed the ticks that came
  due; `TicksAccounted` exempts it.
- A lane with `queue_capacity` 0 queues every ready invocation, where `scheduler.md` says that
  0 keeps only the active worker width.
- A loop that is no solver commits its outputs even when it was cancelled or ran out of
  iterations, and an explicit `discard_outputs` is not told apart from the default
  (`runtime-semantics.md:74`, row 8 of `runtime-invariants.md`).
- A stop seen before a submission inside a loop is counted as the loop's `component_error`.
- Priorities of pooled invocations never decide: the queue holds one component's at a time.

Graphs and runner:

- A loop whose id equals the id of a component outside it passes the checks of
  `src/graph.cpp:557`. If an edge joins the loop or the component to anything else, the graph is
  refused as cyclic although it is not; if none does, it is accepted, of the two the region
  found first runs twice in an epoch and the other never
  (`runtime-architecture.md:21`). `RefusedExactlyWhenWrong` and
  `EveryComponentScheduledInOrder` state this exception.
- With two such ids the ordering loop (`src/graph.cpp:644`) need not end: with components 1 to 4,
  loops {1} named 3 and {2} named 4, and edges 1-1, 2-2, 1-2 and 2-4, the id 4 is released twice
  and then by itself for ever (`runtime-semantics.md:84`, "deterministic topological
  `region_order`"). This takes four components, one more than the run has; it was found with
  the same module. `Terminates` and `EveryComponentScheduledInOrder` claim nothing for two
  shared ids.
- The producer-owned check depends on the order of edges (`src/graph.cpp:1058`); dotted top-level ids let an edge of a
  subgraph reach outside of it; trigger inputs listed twice are accepted; NaN passes the
  bounds of a numeric configuration field (`src/graph.cpp:732`).
- An edge whose source names no port is accepted (`schema-v1.md:235`;
  `docs/11-user-guide/components.md:71`: unknown endpoints are rejected), but
  `GraphContext::publish` always publishes under `component.port` (`src/component.cpp:97`) and
  the router compares whole endpoints (`src/channel.cpp:1253`): a trigger input that has only
  such an edge is never fed by a component. `AcceptedIsRunnable` exempts these edges; one of the
  documents of `runner` has one.
- The runner activates in declaration order and never uses `component_lifecycle_order`.
- An observer that throws leaves `run()` with the exception, or, after an early end, has
  every component deactivated and the observers notified a second time (row 22 of
  `runtime-invariants.md`).
- A `deactivate_status` that throws (`src/runtime_runner.cpp:719` and `1057`) has the handler
  deactivate every started component, those before it a second time; if one throws again
  (`src/runtime_runner.cpp:1193`), or if any hook throws what is no `std::exception`
  (`src/runtime_runner.cpp:1186`), `run()` is left with components still active
  (`docs/21-architecture/scheduler.md:141` and `154`). `StoppedInReverse` states exactly which
  components are deactivated, and how often, in each of these cases.
- `SharedBuffer::resize` on a lent buffer, which no code in the repository's runtime does,
  would break the pool's accounts, and a copied `FrameView` outlives the loan it came from:
  `BytesBalanced` speaks of `LoanedFrame`s only.

### Bounds

Three workers with `max_inflight` 2 and one queue place is the least instance in which a
worker is held back by the limit while two run and a task waits, and two clients with two calls each reach every pair of public
calls in every phase of each other. Two readers with a cap of one reach the eviction of a
cursor; capacity 2 distinguishes oldest from newest; three messages overflow it. Three
epochs are needed for a message to be published in one, committed in the next and found
overdue in a third. Two slots wrap around three times in seven numbers. Two components are
the least for which one applies and another fails. Three messages and three time steps on two
ports let one message time out behind another, a set miss its slop and a window pass with a
partial batch. Three components have every shape of strongly connected components that
matching and condensing tell apart: none, a self loop, two of two with a shared member, all; they
allow one shared id, and two shared ids take four.
Two workers and three ready invocations overflow a queue of one while both workers are busy;
a failure, a success and a stop can then meet in one batch. Two loop iterations distinguish
the first from the last. Lanes of periods 2 and 3 with epochs of length 0, 2 and 5 miss none,
one and several ticks. Two components, of which either may fail in each hook, give every
half-built state; larger documents only repeat the loops. A three-bit `size_t` puts alignment
overflow in reach of every request. `CHECK_DEADLOCK FALSE` is set wherever
a model stops: each ends when its bounds are used up, and the executor really stops after shutdown;
`EveryTaskSettles` and `ShutdownReturns` show that it does not stop early.

### Fairness

`executor_liveness` assumes weak fairness of each worker's step and of each client's step
inside a call: the operating system schedules runnable threads, tasks and callbacks return,
a timed wait ends. It assumes nothing about new calls being made, and nothing about spurious
wakeups. `event_runtime` assumes weak fairness of the runtime thread and of each worker:
components return and sleeps end; a stop request is never assumed. `compiler_plan` assumes that
the compiler, a sequential program, goes on. The other specifications state no fairness.

## 4. What is proved

Every theorem below has the form `Spec => []Inv` or `Spec => Property`, for every value of
the constants that satisfies the assumptions at the end of this section. An invariant of a
run is seldom inductive by itself; the strengthening named with each theorem was checked with
TLC on the run's instance before it was proved.

### The executor: `ThreadedTaskExecutorProofs`

For any finite sets of workers and clients, any number of calls and any limits.

- `LimitsHold`, the invariant `PoolBounded` of `executor_safety`, from `TypeCorrect`,
  `ConcurrencyBounded` and `AdmissionBounded`. The admission bound rests on the concurrency
  bound: a worker that records a completion moves one task from active to the backlog, which
  keeps the sum only because the active count is the number of workers holding one.
- `CountersBalanced`: `CountersBalance`.
- `WakeupNotLost`: `WorkWakeupNotLost` is not inductive by itself, since a worker that exits
  takes its pending notification with it. It is proved together with `ExitedMeansDrained`
  (a worker has exited only after the stop flag was set and nothing startable was left).
- `TasksAreSettledOnce`: `TasksSettleOnce` counts; what is inductive is where each task is.
  `Places` says that the ids in the queue, in the hands of workers, in the backlog, handed out
  and cancelled are pairwise disjoint and together all ids given out; `Order` that the queue
  ascends and holds no id twice; `CallbackCounts` that exactly the tasks past their callback
  have been called, once. `StepKinds` reduces the actions to five kinds (nothing moves, one
  task is admitted, one is taken, one is published, records are handed out and tasks
  cancelled), so each fact is shown for five kinds of move and not for every call, policy and
  phase.
- `JoinedIsSettled`: `JoinedMeansSettled`, from `JoinedMeansExited`, `ExitedMeansDrained` and
  the places: a joined executor has no worker left to hold a task and an exited worker leaves
  nothing startable behind.
- `ExecutorImplementsPool`: the executor implements `BoundedTaskPool` under the refinement
  mapping of the specification (`ImplementsPool`). Each of the five kinds is a step of the
  pool, or a stutter; the limits and the counters come from `LimitsHold`.

### The channel bus: `ChannelBusProofs`

For any channels, channel configurations, readers, cap on tracked readers and number of
messages.

- `QueuesAreConserved`, `DeliveryIsOnceInOrder`, `QueuesAreShared`: the invariants
  `QueueConservation`, `DeliveredOnceInOrder` and `QueueSharing` of `bus_readers`, proved
  together from `BusInv`. `StepKinds` first reduces each action to what it does to one channel
  (rests, advances its epoch, drops what is stale, stores m messages, is read as a latest value
  or as a queue), whatever the call and whatever happens to the other channels. `Books` is
  the conservation of messages; `Numbers` says that all a channel holds, and all its readers
  have, carries numbers already given out. Delivery in order is not inductive by itself: it
  needs what a cursor means. `QueueTold` says that a reader of a shared queue has received
  what its cursor passed and nothing beyond it, unless that is older than everything queued:
  this is what makes it harmless to prune a cursor below the first queued message.
  `LatestTold` says that the visible value is newer than what the reader has or equal to its
  cursor, and that a pending previous-tick value is newer than both; `Private` that what is left
  in a single-reader queue is newer than what anyone has received.
- `BatchesAreWhole`: `BatchAllOrNothing`, which `router_epochs` checks for the batches of the
  router. `AllStored` shows it for batches of any length, and `BatchFits` that such a batch
  stays within the capacity of each rejecting queue, which `QueuesAreConserved` needs.

### The router: `PublicationRouterProofs`

For any channels and channel configurations, any fan-out, any `max_inflight` of each edge and
any number of publications, epochs and activations of the loop.

- `DeferralIsOneBoundary`, `ChannelsAreFifo`, `PublicationsAreAccounted`,
  `LoopOutputsStayTogether` and `RouterBatchesAreWhole`: the invariants
  `DeferredAtNextBoundary`, `ChannelFifo`, `StagedAccounted`, `RegionOutputsTogether` and
  `BatchAllOrNothing` of `router_epochs`, proved together from `RouterInv`.
- `FeedbackTakesAnEpoch`: the action property `FeedbackIsDelayed`, from the same invariant.

None of the five is inductive. What a stage may hold depends on where the runtime thread is:
`StagesPlaced` and `HandPlaced` say by `pc` which kinds of edges and which epochs are in each
stage and in the batch in hand (the ready stage, for instance, holds publications of the epoch
before, and is empty from the swap of `begin_epoch` to `end_epoch`); a publication by a callback
between two critical sections keeps this because it carries the epoch that the next boundary
ends. `Dated` then gives the boundary at which each committed publication arrived. `Lines` and
`Pipe` are the order: what is committed, in hand, and in each stage follow one another on every
channel except an immediate edge out of the loop, and an eviction takes from the front.
`Activations` says that the activations whose outputs were discarded, committed and still held
are different ones. `Counted` is the balance of the counters; that an eviction takes one
publication for each edge served rests on the call's new publications and its victims being on
pairwise different channels.

`FeedbackTakesAnEpoch` needs the bus as well: `Numbered` says that the bus numbers the messages
of a channel as the router's history does, that all the bus holds was committed, and that a
`previous_tick` channel shows only what was committed before the epoch began. What a read appends to
the reader's log then carries the epoch `Dated` gives it. `BatchAllOrNothing` is `AllStored`,
the lemma about batches of any length, applied to the batch in hand.

### The live event ring: `LiveEventRingProofs`

For any capacity (zero included).

- `RingIsFifo`, `SlotsExclusive`. The inductive invariant is `Fifo` with
  three facts. `IndexOrder`: going round the ring one meets the read index as the producer
  last saw it, the read index, the write index as the consumer last saw it, the write index.
  `ProducerKnows` and `ConsumerKnows`: between its load and its store each side knows that
  the other index has not reached it, and what its slot holds. Without the stale copies in
  the invariant the load of an index proves nothing about the index at the time of the
  slot access.
- `EventsAreAccounted`, the invariant `EventsAccounted`, from three parts: `RingTypeCorrect`;
  `SequenceNumbersUnique`, from the fact that the number in the producer's hands is newer
  than every accepted one and that no summary has it; and `DropsAreAccounted`: a summary's
  number is new, so the set of summary numbers grows by one with the counter.

### Configuration transactions: `ConfigTransactionProofs`

For any components, configurations and numbers of updates and epochs.

- `UpdatesAreAccounted`: `UpdatesAccounted`. The inductive invariant adds `PassOpen` (a pass
  over the copied updates has something left to do) and `StoreShape` (the pending map is a
  function, and no transaction has the id 0).
- `LiveIsCommitted`: `LiveMatchesCommitted` speaks of the times outside a transaction. Inside,
  `LiveInv` says by the place of the runtime thread which components already run with the
  copied configuration (the ones done while applying, those not yet restored while rolling
  back), that all others run with the committed one, and that `previous` holds what is to be
  restored.

### The buffer pool: `BufferPoolProofs`

For any width of `size_t`, any pool configuration, any frames and number of loans.

- `BytesAreBalanced`, `BudgetIsHeld`: `BytesBalanced` and `BudgetHeld`, proved together
  (`PoolInv`). The code adds and subtracts with saturation at zero; that no subtraction ever
  saturates needs the balance of each gauge, and the balance needs that a buffer has one
  owner (`OneOwner`). The sum of the sizes of a set of buffers is defined as the number of
  their bytes (`TotalSize`), so that it can be reasoned about with the cardinality of finite
  sets; `TotalAdd`, `TotalRemove` and `TotalRenamed` are its algebra, `BytesAppend` and
  `BytesRemoveAt` what it does on the free list.

### The runtime: `EventRuntimeProofs`

For any plans and run options, any number of workers, lanes, ready invocations and epochs.

- `SnapshotsAreOld`: `OldSnapshot`. `SnapshotInv` adds the shape of the state (`Shape`: where
  the runtime thread stands is in the plan), that everything staged, queued or executing is of
  the present epoch or an earlier one (`PastWork`), and who wrote what (`Entries`).
- `WorkIsDrained`: `WorkDrained`. The argument is that an invocation is in one place.
  `Distinct` says that what is still to be submitted, queued, with a worker and finished is
  pairwise disjoint and held once; `Held` that whatever was queued is awaited by the runtime
  thread until its result is recorded; `Limits` that together they never exceed what was
  admitted. When the thread leaves the wait it awaits nothing, so the queue and the workers'
  hands are empty. `Counted`, `Timed`, `Rounds`, `LoopEnds` and
  `LoopBounded` carry the rest of the type invariant and the bound on iterations.
- `TicksAreAccounted`: `TicksAccounted` compares counted ticks with the periods that fit into
  the time that passed. `Paced` is its inductive form without a division: the ticks spent, times
  the period, are no more than the next due time, and inside an epoch that due time has passed.
  `WholePeriods`, `PeriodsWithin`, `PeriodsAdd` and `EpochSpends` are the arithmetic, which is
  not linear because the period is a variable.
- `VisibleIsSuccessful`: `OnlySuccessIsVisible`, on top of the invariant of `WorkIsDrained`.
  `Current` says that everything still to be done is of the component being executed;
  `NumberedInvocations` that a visible invocation is no longer pending, so it cannot fail later;
  `StagesHeld` that failures and staged publications are of the batch or loop at hand. `Shown`
  is the part that makes it inductive: whatever is visible in this epoch is of a component the
  runtime thread has left behind (`Behind`), so a batch or loop that fails now has shown nothing.

### Assumptions

`ExecutorAssumption`, `BusAssumption`, `RouterAssumption`, `RingAssumption`, `ConfigAssumption`
(of the configuration store and of the router), `BufferAssumption` and `RuntimeAssumption`: sets
are finite, limits are natural numbers, and plans, pool configurations, channel configurations
and options are of the types the code gives them: a plan is a sequence of regions, each with a
sequence of component positions; periods are given for finitely many lanes. Two say more. A
channel is one edge, so a source does not list it twice (`RouterAssumption`): the router
makes one `RoutedEdge` per edge of the graph, with the edge's id as channel id, and validation
refuses two edges of the same id. A component has one
place in the plan (`RuntimeAssumption`): this is what the compiler produces unless a loop has the
id of a component outside it, and
`EveryComponentScheduledInOrder` of `compiler_plan` checks it there. TLC evaluates each
assumption on the runs.

### How the proofs get by without induction

The library's induction theorems cannot be used, so a number is reached through
`LeastNatural` (a non-empty set of naturals has a least element; it follows from the
well-foundedness of strict inclusion of finite sets), a sum through the cardinality of a set,
and a fold is avoided. A filter keeps the entries at a set of positions (`Positions`): the i-th
position is the one with i positions up to it, and `EntriesFacts` says that such a filter keeps
the order and exactly the chosen entries. This decides what is out of reach below.

Definitions with overlapping `CASE` guards were rewritten as chains of `IF`: TLC takes the
first guard that holds, but the logic leaves the choice open.

### Only model-checked

- Liveness under fairness (`EveryTaskSettles`, `ShutdownReturns`, `RunReturns`, `Terminates`).
- The compiler, the loader and validation (`RefusedExactlyWhenWrong`,
  `EveryComponentScheduledInOrder`, `AcceptedIsRunnable`): they compute by folds, whose value for
  every input needs induction over data.
- The trigger engine (`MessagesAccounted`, `PendingBounded`, `InvocationsSound`,
  `NothingExpiredOrLate`, `BatchWhenDue`) and the runner (`StoppedInReverse`, `OkMeansClean`):
  not proved, see below. The counts of pending messages and the pass over the watermarks are
  folds in the trigger engine.

## 5. Plan

The modelled parts are complete up to the omissions named in section 2 and in
`PROJECT.json`, and every invariant of the executor, bus, router, ring, configuration, pool and
runtime runs is proved. What is left to prove, in order of importance:

1. `RuntimeRunner`: `StoppedInReverse` and `OkMeansClean`, which are about the lifecycle and not
   about what the loader and validation compute.
2. `TriggerPolicy`: `PendingBounded` and the interval of `InvocationsSound`.

## 6. Not modelled

- `DeterministicTaskExecutor`: sequential, with the admission policies of the threaded one;
  what it promises is `BoundedTaskPool`.
- `HealthEventSink`, metrics, traces, logs, live-event assembly: they record and report;
  the counters that carry a claim are modelled where they are kept.
- Waiters of `wait_for_update`, `seed_value`, moving a `BufferPool`,
  `SharedBuffer::resize`, `LiveObserveSession` beyond its stream.
- Warnings and advisories of validation, text and DOT renderings, graph writers, YAML parsing.
- Payload conversion, the C API, plug-in loading, adapters, examples and the command line:
  they convert data or talk to the outside and keep no state that a property could relate.
