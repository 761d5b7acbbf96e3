--------------------- MODULE ThreadedTaskExecutorProofs ---------------------
(***************************************************************************)
(* Proofs about ThreadedTaskExecutor, for every set of workers and         *)
(* clients, every max_inflight and queue_capacity and any number of calls. *)
(***************************************************************************)
EXTENDS ThreadedTaskExecutor, CollectionLemmas, FiniteSetTheorems, SequenceTheorems, TLAPS

\* The limits are positive naturals whatever was configured.
LEMMA LimitsType == InflightLimit \in Nat \ {0} /\ Capacity \in Nat \ {0}
BY ExecutorAssumption DEF InflightLimit, Capacity, normalize_positive

LEMMA SingletonCardinality == ASSUME NEW x PROVE Cardinality({x}) = 1
<1>1. \A y : Cardinality({y}) = 1
  BY FS_Singleton, Zenon
<1> QED
  BY <1>1

\* Counting one more at an index keeps a sequence of numbers one.
LEMMA BumpedSeq ==
    ASSUME NEW s \in Seq(Nat), NEW i
    PROVE  [s EXCEPT ![i] = @ + 1] \in Seq(Nat)
<1>1. CASE i \in 1 .. Len(s)
  <2>1. s[i] + 1 \in Nat
    BY <1>1
  <2> QED
    BY <1>1, <2>1, ExceptSeq
<1>2. CASE i \notin 1 .. Len(s)
  <2>1. [s EXCEPT ![i] = @ + 1] = s
    BY <1>2
  <2> QED
    BY <2>1
<1> QED
  BY <1>1, <1>2

\* completion_limit never exceeds what is available.
LEMMA CompletionLimitBound ==
    ASSUME NEW max \in Nat, NEW available \in Nat
    PROVE  completion_limit(max, available) \in 0 .. available
BY DEF completion_limit

\* Handing over the first n records leaves a sequence that many shorter.
LEMMA DrainedSuffix ==
    ASSUME NEW s \in Seq(Nat), NEW n \in 0 .. Len(s)
    PROVE  /\ SubSeq(s, n + 1, Len(s)) \in Seq(Nat)
           /\ Len(SubSeq(s, n + 1, Len(s))) = Len(s) - n
           /\ IdsIn(SubSeq(s, 1, n)) \in SUBSET Nat
BY DEF IdsIn

\* The ids in a sequence of naturals are naturals.
LEMMA IdsInType ==
    ASSUME NEW s \in Seq(Nat)
    PROVE  IdsIn(s) \in SUBSET Nat
BY DEF IdsIn

LEMMA TypeInit == Init => TypeOK
<1>1. Init => DataTypes
  BY DEF Init, DataTypes, WorkerStates, ClientStates
<1>2. Init => FlagTypes
  BY DEF Init, FlagTypes
<1> QED
  BY <1>1, <1>2 DEF TypeOK

\* The flags stay Boolean: no action assigns them anything else.
LEMMA FlagsStep == FlagTypes /\ [Next]_vars => FlagTypes'
<1> SUFFICES ASSUME FlagTypes, [Next]_vars PROVE FlagTypes'
  OBVIOUS
<1> USE DEF FlagTypes
<1>1. ASSUME NEW c \in Clients, ClientCall(c) PROVE FlagTypes'
  BY <1>1 DEF ClientCall, SubmitEmpty, SubmitStopping, SubmitFull, SubmitRejected, SubmitRoom,
    SubmitDropOldest, Accept, RunReady, CancelPending, ShutdownAgain, ShutdownBegin, WaitForIdle,
    workerVars, history
<1>2. ASSUME NEW c \in Clients, ClientStep(c) PROVE FlagTypes'
  BY <1>2 DEF ClientStep, NotifyOne, ShutdownNotify, ShutdownJoin, WaitRecheck, WaitTimeout,
    workerVars, history
<1>3. ASSUME NEW w \in Workers, WorkerStep(w) \/ WorkerSpuriousWake(w) PROVE FlagTypes'
  BY <1>3 DEF WorkerStep, WorkerSpuriousWake, WorkerSleep, WorkerExit, WorkerTake, WorkerExecute,
    WorkerCallback, WorkerRecord, WorkerNotify, history
<1>4. CASE UNCHANGED vars
  BY <1>4 DEF vars, workerVars, history
<1> QED
  BY <1>1, <1>2, <1>3, <1>4 DEF Next

\* Cancelling what is pending keeps the types.
LEMMA TypeCancelled ==
    ASSUME DataTypes,
           CancelPendingLocked \/ UNCHANGED <<pending, cancelledCount, cancelledIds>>
    PROVE  /\ pending' \in Seq(Nat)
           /\ cancelledCount' \in Nat
           /\ cancelledIds' \in SUBSET Nat
<1>0. <<>> \in Seq(Nat)
  OBVIOUS
<1>1. pending' \in Seq(Nat)
  BY <1>0, Zenon DEF DataTypes, CancelPendingLocked
<1>4. Len(pending) \in Nat /\ cancelledCount \in Nat
  BY DEF DataTypes
<1>5. cancelledCount' \in Nat
  BY <1>4 DEF CancelPendingLocked
<1>2. IdsIn(pending) \in SUBSET Nat
  BY IdsInType DEF DataTypes
<1>3. cancelledIds' \in SUBSET Nat
  BY <1>2 DEF DataTypes, CancelPendingLocked
<1> QED
  BY <1>1, <1>3, <1>5

\* Every call of a client keeps the types.
LEMMA TypeCall ==
    ASSUME DataTypes, NEW c \in Clients, ClientCall(c)
    PROVE  DataTypes'
<1> USE DEF DataTypes, Calls, ClientStates, config, settledCounts, highWaters, queues,
            workerVars, history
<1>0. Calls(c) => calls' \in [Clients -> Nat]
  OBVIOUS
<1> HIDE DEF Calls
<1>1. ASSUME SubmitRejected(c) PROVE DataTypes'
  BY <1>0, <1>1 DEF SubmitRejected
<1>2. ASSUME NEW kept \in Seq(Nat), NEW dropped \in SUBSET Nat,
             Cardinality(dropped) \in Nat, Accept(c, kept, dropped)
      PROVE  DataTypes'
  <2>1. /\ submitted' \in Nat /\ cancelledCount' \in Nat
        /\ maxInflight' \in Nat /\ maxOutstanding' \in Nat
    BY <1>2 DEF Accept, Larger
  <2>2. pending' \in Seq(Nat) /\ callbacks' \in Seq(Nat) /\ nextTaskId' \in Nat \ {0}
    BY <1>2 DEF Accept
  <2>3. cpc' \in [Clients -> ClientStates] /\ calls' \in [Clients -> Nat]
    BY <1>0, <1>2 DEF Accept
  <2> QED
    BY <1>2, <2>1, <2>2, <2>3 DEF Accept
<1>3. CASE SubmitRoom(c) \/ SubmitDropOldest(c)
  <2>1. Cardinality({}) \in Nat
    BY FS_EmptySet
  <2>2. Cardinality({Head(pending)}) = 1
    BY SingletonCardinality, Zenon
  <2>3. pending # <<>> => Tail(pending) \in Seq(Nat) /\ Head(pending) \in Nat
    OBVIOUS
  <2> QED
    <3>1. CASE SubmitRoom(c)
      BY <1>2, <2>1, <3>1 DEF SubmitRoom
    <3>2. CASE SubmitDropOldest(c)
      <4>1. Tail(pending) \in Seq(Nat) /\ {Head(pending)} \in SUBSET Nat
        BY <2>3, <3>2 DEF SubmitDropOldest
      <4>2. Cardinality({Head(pending)}) \in Nat
        BY <2>2
      <4> QED
        BY <1>2, <3>2, <4>1, <4>2 DEF SubmitDropOldest
    <3> QED
      BY <1>3, <3>1, <3>2
<1>4. ASSUME NEW max \in 0 .. 1, NEW cancel \in BOOLEAN, RunReady(c, max, cancel)
      PROVE  DataTypes'
  <2> DEFINE count == completion_limit(max, Len(completed))
  <2>1. count \in 0 .. Len(completed)
    <3>1. max \in Nat /\ Len(completed) \in Nat
      OBVIOUS
    <3> QED
      BY <3>1, CompletionLimitBound
  <2>2. /\ SubSeq(completed, count + 1, Len(completed)) \in Seq(Nat)
        /\ IdsIn(SubSeq(completed, 1, count)) \in SUBSET Nat
    BY <2>1, DrainedSuffix
  <2>3. completed' \in Seq(Nat) /\ drainedIds' \in SUBSET Nat
    BY <1>4, <2>2 DEF RunReady
  <2>4. wpc' \in [Workers -> WorkerStates]
    BY <1>4 DEF RunReady, WakeWorkers, WorkerStates
  <2>5. cancelledIds' \in SUBSET Nat /\ pending' \in Seq(Nat) /\ cancelledCount' \in Nat
    BY <1>4, TypeCancelled DEF RunReady
  <2>6. calls' \in [Clients -> Nat]
    BY <1>0, <1>4 DEF RunReady
  <2>7. /\ nextTaskId' = nextTaskId /\ active' = active /\ submitted' = submitted
        /\ completedCount' = completedCount /\ failedCount' = failedCount
        /\ rejectedCount' = rejectedCount /\ maxInflight' = maxInflight
        /\ maxOutstanding' = maxOutstanding
        /\ overflow' = overflow /\ shutdownPolicy' = shutdownPolicy
        /\ handles' = handles /\ held' = held /\ cpc' = cpc
        /\ callbacks' = callbacks
    BY <1>4 DEF RunReady, CancelPendingLocked
  <2> HIDE DEF count
  <2> QED
    BY <2>3, <2>4, <2>5, <2>6, <2>7
<1>5. CASE CancelPending(c)
  <2>1. cancelledIds' \in SUBSET Nat /\ pending' \in Seq(Nat) /\ cancelledCount' \in Nat
    BY <1>5, TypeCancelled DEF CancelPending
  <2>2. wpc' \in [Workers -> WorkerStates]
    BY <1>5 DEF CancelPending, WakeWorkers, WorkerStates
  <2>3. cpc' \in [Clients -> ClientStates]
    BY <1>5 DEF CancelPending, WakeIdleWaiters
  <2>4. /\ nextTaskId' = nextTaskId /\ active' = active /\ submitted' = submitted
        /\ completedCount' = completedCount /\ failedCount' = failedCount
        /\ rejectedCount' = rejectedCount /\ maxInflight' = maxInflight
        /\ maxOutstanding' = maxOutstanding
        /\ overflow' = overflow /\ shutdownPolicy' = shutdownPolicy
        /\ handles' = handles /\ held' = held /\ completed' = completed
        /\ callbacks' = callbacks /\ drainedIds' = drainedIds
    BY <1>5 DEF CancelPending, CancelPendingLocked
  <2>5. calls' \in [Clients -> Nat]
    BY <1>0, <1>5 DEF CancelPending
  <2> QED
    BY <2>1, <2>2, <2>3, <2>4, <2>5
<1>6. CASE ShutdownAgain(c)
  BY <1>0, <1>6 DEF ShutdownAgain
<1>7. CASE ShutdownBegin(c)
  <2>1. cancelledIds' \in SUBSET Nat /\ pending' \in Seq(Nat) /\ cancelledCount' \in Nat
    BY <1>7, TypeCancelled DEF ShutdownBegin
  <2>2. cpc' \in [Clients -> ClientStates] /\ handles' \in SUBSET Workers
    BY <1>7 DEF ShutdownBegin, CancelPendingLocked
  <2>3. /\ nextTaskId' = nextTaskId /\ active' = active /\ submitted' = submitted
        /\ completedCount' = completedCount /\ failedCount' = failedCount
        /\ rejectedCount' = rejectedCount /\ maxInflight' = maxInflight
        /\ maxOutstanding' = maxOutstanding
        /\ overflow' = overflow /\ shutdownPolicy' = shutdownPolicy
        /\ held' = held /\ wpc' = wpc /\ completed' = completed
        /\ callbacks' = callbacks /\ drainedIds' = drainedIds
    BY <1>7 DEF ShutdownBegin, CancelPendingLocked
  <2>4. calls' \in [Clients -> Nat]
    BY <1>0, <1>7 DEF ShutdownBegin
  <2> QED
    BY <2>1, <2>2, <2>3, <2>4
<1>8. CASE WaitForIdle(c)
  <2>1. cpc' \in [Clients -> ClientStates]
    BY <1>8 DEF WaitForIdle
  <2> QED
    BY <1>0, <1>8, <2>1 DEF WaitForIdle
<1> QED
  BY <1>1, <1>3, <1>4, <1>5, <1>6, <1>7, <1>8
  DEF ClientCall, SubmitEmpty, SubmitStopping, SubmitFull

\* Every further step of a client inside a call keeps the types.
LEMMA TypeClientStep ==
    ASSUME DataTypes, NEW c \in Clients, ClientStep(c)
    PROVE  DataTypes'
<1> USE DEF DataTypes, ClientStates, WorkerStates, config, settledCounts, highWaters, queues,
            workerVars, history
<1>1. CASE NotifyOne(c)
  BY <1>1 DEF NotifyOne
<1>2. CASE ShutdownNotify(c)
  BY <1>2 DEF ShutdownNotify, WakeWorkers
<1>3. CASE ShutdownJoin(c)
  BY <1>3 DEF ShutdownJoin
<1>4. CASE WaitRecheck(c) \/ WaitTimeout(c)
  BY <1>4 DEF WaitRecheck, WaitTimeout
<1> QED
  BY <1>1, <1>2, <1>3, <1>4 DEF ClientStep

\* Every step of a worker keeps the types.
LEMMA TypeWorker ==
    ASSUME DataTypes, NEW w \in Workers, WorkerStep(w) \/ WorkerSpuriousWake(w)
    PROVE  DataTypes'
<1> USE DEF DataTypes, WorkerStates, config, settledCounts, highWaters, queues, history
<1>1. CASE WorkerSleep(w) \/ WorkerSpuriousWake(w) \/ WorkerExit(w)
  BY <1>1 DEF WorkerSleep, WorkerSpuriousWake, WorkerExit
<1>2. CASE WorkerTake(w)
  <2>1. Head(pending) \in Nat /\ Tail(pending) \in Seq(Nat)
    BY <1>2 DEF WorkerTake, CanStart
  <2>2. maxInflight' \in Nat /\ maxOutstanding' \in Nat
    BY <1>2 DEF WorkerTake, Larger, Outstanding, Inflight
  <2> QED
    BY <1>2, <2>1, <2>2 DEF WorkerTake
<1>3. ASSUME NEW ok \in BOOLEAN, WorkerExecute(w, ok)
      PROVE  DataTypes'
  BY <1>3 DEF WorkerExecute
<1>4. CASE WorkerCallback(w)
  BY <1>4, BumpedSeq DEF WorkerCallback
<1>5. CASE WorkerRecord(w)
  <2>1. active' \in Nat /\ maxOutstanding' \in Nat /\ completedCount' \in Nat /\ failedCount' \in Nat
    BY <1>5 DEF WorkerRecord, Larger
  <2>2. cpc' \in [Clients -> ClientStates]
    BY <1>5 DEF WorkerRecord, WakeIdleWaiters, ClientStates
  <2>3. completed' \in Seq(Nat) /\ held' \in [Workers -> Nat] /\ wpc' \in [Workers -> WorkerStates]
    BY <1>5 DEF WorkerRecord
  <2> QED
    BY <1>5, <2>1, <2>2, <2>3 DEF WorkerRecord
<1>6. CASE WorkerNotify(w)
  BY <1>6 DEF WorkerNotify, WakeWorkers
<1> QED
  BY <1>1, <1>2, <1>3, <1>4, <1>5, <1>6 DEF WorkerStep

LEMMA TypeStep == TypeOK /\ [Next]_vars => TypeOK'
<1>1. DataTypes /\ [Next]_vars => DataTypes'
  <2>1. DataTypes /\ UNCHANGED vars => DataTypes'
    BY DEF DataTypes, vars, config, queues, settledCounts, highWaters, workerVars, history
  <2> QED
    BY <2>1, TypeCall, TypeClientStep, TypeWorker DEF Next
<1> QED
  BY <1>1, FlagsStep DEF TypeOK

\* The executor's state keeps its types in every behaviour.
THEOREM TypeCorrect == Spec => []TypeOK
BY TypeInit, TypeStep, PTL DEF Spec

-----------------------------------------------------------------------------
(* The bounds.  AdmissionBound alone is not inductive: a worker that       *)
(* records a completion trades one active task for one record only because *)
(* it is itself counted in active_count, which is ConcurrencyBound.        *)

Bounds == AdmissionBound /\ ConcurrencyBound /\ CountersBalance

LEMMA BoundsInit == Init => Bounds
<1> SUFFICES ASSUME Init PROVE Bounds
  OBVIOUS
<1>1. BusyWorkers = {}
  BY DEF Init, BusyWorkers, Busy
<1>2. Cardinality(BusyWorkers) = 0
  BY <1>1, FS_EmptySet
<1>3. Len(pending) = 0 /\ Len(completed) = 0
  BY DEF Init
<1> QED
  BY <1>2, <1>3, LimitsType
  DEF Init, Bounds, AdmissionBound, ConcurrencyBound, CountersBalance, Outstanding, Inflight

\* Waking sleepers, by whatever notification, leaves the busy workers busy.
LEMMA BusyAfterWake ==
    ASSUME wpc' = wpc \/ wpc' = WakeWorkers(wpc)
    PROVE  BusyWorkers' = BusyWorkers
BY DEF BusyWorkers, Busy, WakeWorkers

\* A step that leaves the queues, the counters and the set of busy workers alone.
LEMMA BoundsQuiet ==
    ASSUME Bounds, pending' = pending, completed' = completed, active' = active,
           submitted' = submitted, completedCount' = completedCount, failedCount' = failedCount,
           cancelledCount' = cancelledCount, highWaters' = highWaters,
           BusyWorkers' = BusyWorkers
    PROVE  Bounds'
BY DEF Bounds, AdmissionBound, ConcurrencyBound, CountersBalance, Outstanding, Inflight, highWaters

\* A step that may move pending_ into the cancelled count and may drain records.
LEMMA BoundsCancel ==
    ASSUME DataTypes, Bounds,
           CancelPendingLocked \/ UNCHANGED <<pending, cancelledCount, cancelledIds>>,
           Len(completed') \in 0 .. Len(completed), active' = active,
           submitted' = submitted, completedCount' = completedCount, failedCount' = failedCount,
           highWaters' = highWaters, BusyWorkers' = BusyWorkers
    PROVE  Bounds'
<1> DEFINE n == Len(pending)
           n2 == Len(pending')
           k == Len(completed)
           k2 == Len(completed')
<1>1. n \in Nat /\ k \in Nat /\ k2 \in 0 .. k
  BY DEF DataTypes
<1>2. n2 \in 0 .. n /\ cancelledCount' = cancelledCount + (n - n2) /\ cancelledCount' \in Nat
  <2>1. CASE CancelPendingLocked
    <3>1. n2 = 0
      BY <2>1 DEF CancelPendingLocked
    <3>2. cancelledCount' = cancelledCount + n
      BY <2>1 DEF CancelPendingLocked
    <3> HIDE DEF n, n2
    <3> QED
      BY <1>1, <3>1, <3>2 DEF DataTypes
  <2>2. CASE UNCHANGED <<pending, cancelledCount, cancelledIds>>
    BY <1>1, <2>2 DEF DataTypes
  <2> QED
    BY <2>1, <2>2
<1>3. AdmissionBound'
  <2>1. Outstanding' = n2 + active + k2 /\ Inflight' = n2 + active
    BY DEF Outstanding, Inflight
  <2>2. Outstanding = n + active + k /\ Inflight = n + active
    BY DEF Outstanding, Inflight
  <2> HIDE DEF n, n2, k, k2
  <2> QED
    BY <1>1, <1>2, <2>1, <2>2, LimitsType DEF Bounds, AdmissionBound, DataTypes, highWaters
<1>4. ConcurrencyBound'
  BY DEF Bounds, ConcurrencyBound
<1>5. CountersBalance'
  <2>1. CountersBalance' <=> (submitted = n2 + active + completedCount + failedCount + cancelledCount')
    BY DEF CountersBalance
  <2>2. submitted = n + active + completedCount + failedCount + cancelledCount
    BY DEF Bounds, CountersBalance
  <2>3. /\ active \in Nat /\ completedCount \in Nat /\ failedCount \in Nat
        /\ cancelledCount \in Nat /\ submitted \in Nat
    BY DEF DataTypes
  <2> HIDE DEF n, n2, k, k2
  <2>4. submitted = n2 + active + completedCount + failedCount + cancelledCount'
    BY <1>1, <1>2, <2>2, <2>3
  <2> QED
    BY <2>1, <2>4
<1> QED
  BY <1>3, <1>4, <1>5 DEF Bounds

\* Admission: room was found, or one task dropped from a pool that was not over full.
LEMMA BoundsAccept ==
    ASSUME DataTypes, Bounds, NEW c \in Clients, NEW kept \in Seq(Nat), NEW dropped,
           Cardinality(dropped) \in Nat, Len(kept) + Cardinality(dropped) = Len(pending),
           Len(kept) + active + Len(completed) < Capacity,
           Accept(c, kept, dropped)
    PROVE  Bounds'
<1> DEFINE n == Len(pending)
           k == Len(completed)
           m == Len(kept)
           d == Cardinality(dropped)
<1>1. n \in Nat /\ k \in Nat /\ m \in Nat /\ d \in Nat
  BY DEF DataTypes
<1>2. m + d = n /\ m + active + k < Capacity
  OBVIOUS
<1>3. Len(pending') = m + 1 /\ completed' = completed /\ active' = active
  BY DEF Accept, DataTypes
<1>4. /\ submitted' = submitted + 1
      /\ cancelledCount' = cancelledCount + d
      /\ completedCount' = completedCount /\ failedCount' = failedCount
      /\ maxInflight' = Larger(maxInflight, m + 1 + active)
      /\ maxOutstanding' = Larger(maxOutstanding, m + 1 + active + k)
  BY DEF Accept
<1>5. Outstanding' = m + 1 + active + k /\ Inflight' = m + 1 + active
  BY <1>3 DEF Outstanding, Inflight
<1>6. Outstanding = n + active + k /\ Inflight = n + active
  BY DEF Outstanding, Inflight
<1>7. submitted = n + active + completedCount + failedCount + cancelledCount
  BY DEF Bounds, CountersBalance
<1>8. CountersBalance' <=> (submitted' = m + 1 + active + completedCount' + failedCount' + cancelledCount')
  BY <1>3 DEF CountersBalance
<1>9. BusyWorkers' = BusyWorkers
  BY DEF Accept, workerVars, BusyWorkers, Busy
<1> HIDE DEF n, k, m, d
<1>10. AdmissionBound'
  BY <1>1, <1>2, <1>4, <1>5, <1>6, LimitsType DEF Bounds, AdmissionBound, DataTypes, Larger
<1>11. ConcurrencyBound'
  BY <1>3, <1>9 DEF Bounds, ConcurrencyBound
<1>12. CountersBalance'
  BY <1>1, <1>2, <1>4, <1>7, <1>8 DEF DataTypes
<1> QED
  BY <1>10, <1>11, <1>12 DEF Bounds

\* A worker takes a task: it was not busy and now is.
LEMMA BoundsTake ==
    ASSUME DataTypes, Bounds, NEW w \in Workers, WorkerTake(w)
    PROVE  Bounds'
<1> DEFINE n == Len(pending)
           k == Len(completed)
<1>1. n \in Nat \ {0} /\ k \in Nat /\ Len(pending') = n - 1
  BY DEF WorkerTake, CanStart, DataTypes
<1>2. /\ completed' = completed /\ active' = active + 1 /\ active < InflightLimit
      /\ submitted' = submitted /\ settledCounts' = settledCounts
      /\ maxInflight' = Larger(maxInflight, Inflight)
      /\ maxOutstanding' = Larger(maxOutstanding, Outstanding)
  BY DEF WorkerTake, CanStart
<1>3. Outstanding = n + active + k /\ Inflight = n + active
  BY DEF Outstanding, Inflight
<1>4. Outstanding' = (n - 1) + active' + k /\ Inflight' = (n - 1) + active'
  BY <1>1, <1>2 DEF Outstanding, Inflight
<1>5. submitted = n + active + completedCount + failedCount + cancelledCount
  BY DEF Bounds, CountersBalance
<1>6. CountersBalance' <=> (submitted = (n - 1) + active' + completedCount + failedCount + cancelledCount)
  BY <1>1, <1>2 DEF CountersBalance, settledCounts
<1>7. Cardinality(BusyWorkers') = Cardinality(BusyWorkers) + 1
  <2>1. BusyWorkers' = BusyWorkers \cup {w} /\ w \notin BusyWorkers
    BY DEF WorkerTake, BusyWorkers, Busy, DataTypes
  <2>2. IsFiniteSet(BusyWorkers)
    BY ExecutorAssumption, FS_Subset DEF BusyWorkers
  <2> QED
    BY <2>1, <2>2, FS_AddElement
<1> HIDE DEF n, k
<1>8. AdmissionBound'
  BY <1>1, <1>2, <1>3, <1>4, LimitsType DEF Bounds, AdmissionBound, DataTypes, Larger
<1>9. ConcurrencyBound'
  BY <1>2, <1>7, LimitsType DEF Bounds, ConcurrencyBound, DataTypes
<1>10. CountersBalance'
  BY <1>1, <1>2, <1>5, <1>6 DEF DataTypes
<1> QED
  BY <1>8, <1>9, <1>10 DEF Bounds

\* A worker records a completion: it was busy, so active_count is positive.
LEMMA BoundsRecord ==
    ASSUME DataTypes, Bounds, NEW w \in Workers, WorkerRecord(w)
    PROVE  Bounds'
<1> DEFINE n == Len(pending)
           k == Len(completed)
<1>1. n \in Nat /\ k \in Nat /\ Len(completed') = k + 1 /\ pending' = pending
  BY DEF WorkerRecord, DataTypes
<1>2. /\ active > 0
      /\ Cardinality(BusyWorkers') = Cardinality(BusyWorkers) - 1
  <2>1. BusyWorkers' = BusyWorkers \ {w} /\ w \in BusyWorkers
    BY DEF WorkerRecord, BusyWorkers, Busy, DataTypes
  <2>2. IsFiniteSet(BusyWorkers)
    BY ExecutorAssumption, FS_Subset DEF BusyWorkers
  <2>3. Cardinality(BusyWorkers') = Cardinality(BusyWorkers) - 1
    BY <2>1, <2>2, FS_RemoveElement
  <2>4. Cardinality(BusyWorkers) # 0 /\ Cardinality(BusyWorkers) \in Nat
    BY <2>1, <2>2, FS_EmptySet, FS_CardinalityType
  <2> QED
    BY <2>3, <2>4 DEF Bounds, ConcurrencyBound
<1>3. /\ active' = active - 1
      /\ submitted' = submitted /\ cancelledCount' = cancelledCount
      /\ maxInflight' = maxInflight
      /\ maxOutstanding' = Larger(maxOutstanding, n + (active - 1) + k + 1)
  BY <1>2 DEF WorkerRecord, DataTypes
<1>4. \/ completedCount' = completedCount + 1 /\ failedCount' = failedCount
      \/ completedCount' = completedCount /\ failedCount' = failedCount + 1
  <2>1. CASE outcome[w]
    BY <2>1 DEF WorkerRecord, DataTypes
  <2>2. CASE ~outcome[w]
    BY <2>2 DEF WorkerRecord, DataTypes
  <2> QED
    BY <2>1, <2>2
<1>5. Outstanding = n + active + k /\ Inflight = n + active
  BY DEF Outstanding, Inflight
<1>6. Outstanding' = n + active' + (k + 1) /\ Inflight' = n + active'
  BY <1>1 DEF Outstanding, Inflight
<1>7. submitted = n + active + completedCount + failedCount + cancelledCount
  BY DEF Bounds, CountersBalance
<1>8. CountersBalance' <=> (submitted' = n + active' + completedCount' + failedCount' + cancelledCount')
  BY <1>1 DEF CountersBalance
<1> HIDE DEF n, k
<1>9. AdmissionBound'
  BY <1>1, <1>2, <1>3, <1>5, <1>6, LimitsType DEF Bounds, AdmissionBound, DataTypes, Larger
<1>10. ConcurrencyBound'
  BY <1>2, <1>3, LimitsType DEF Bounds, ConcurrencyBound, DataTypes
<1>11. CountersBalance'
  <2>1. /\ active \in Nat /\ completedCount \in Nat /\ failedCount \in Nat
        /\ cancelledCount \in Nat /\ submitted \in Nat
    BY DEF DataTypes
  <2>2. submitted' = n + active' + completedCount' + failedCount' + cancelledCount'
    BY <1>1, <1>2, <1>3, <1>4, <1>7, <2>1
  <2> QED
    BY <1>8, <2>2
<1> QED
  BY <1>9, <1>10, <1>11 DEF Bounds

LEMMA BoundsStep == DataTypes /\ Bounds /\ [Next]_vars => Bounds'
<1> SUFFICES ASSUME DataTypes, Bounds, [Next]_vars PROVE Bounds'
  OBVIOUS
<1>1. ASSUME NEW c \in Clients, ClientCall(c) PROVE Bounds'
  <2>1. CASE SubmitEmpty(c) \/ SubmitStopping(c) \/ SubmitFull(c)
    <3>1. SubmitRejected(c)
      BY <2>1 DEF SubmitEmpty, SubmitStopping, SubmitFull
    <3> QED
      BY <3>1, BoundsQuiet, BusyAfterWake DEF SubmitRejected, workerVars
  <2>2. CASE SubmitRoom(c)
    <3>1. Cardinality({}) = 0
      BY FS_EmptySet
    <3>2. pending \in Seq(Nat) /\ Len(pending) + 0 = Len(pending)
      BY DEF DataTypes
    <3>3. Len(pending) + active + Len(completed) < Capacity
      BY <2>2 DEF SubmitRoom, Outstanding, Inflight
    <3> QED
      BY <2>2, <3>1, <3>2, <3>3, BoundsAccept DEF SubmitRoom
  <2>3. CASE SubmitDropOldest(c)
    <3>1. Cardinality({Head(pending)}) = 1
      BY SingletonCardinality, Zenon
    <3>2. Tail(pending) \in Seq(Nat) /\ Len(Tail(pending)) + 1 = Len(pending)
      BY <2>3 DEF SubmitDropOldest, DataTypes
    <3>3. Len(pending) + active + Len(completed) <= Capacity
      BY LimitsType DEF Bounds, AdmissionBound, Outstanding, Inflight, DataTypes
    <3>4. Len(Tail(pending)) + active + Len(completed) < Capacity
      <4>1. /\ Len(pending) \in Nat /\ Len(completed) \in Nat /\ active \in Nat
            /\ Len(Tail(pending)) = Len(pending) - 1
        BY <2>3 DEF SubmitDropOldest, DataTypes
      <4> QED
        BY <3>3, <4>1, LimitsType
    <3>5. /\ Cardinality({Head(pending)}) \in Nat
          /\ Len(Tail(pending)) + Cardinality({Head(pending)}) = Len(pending)
      BY <3>1, <3>2
    <3>6. Accept(c, Tail(pending), {Head(pending)})
      BY <2>3 DEF SubmitDropOldest
    <3> QED
      BY <3>2, <3>4, <3>5, <3>6, BoundsAccept
  <2>4. ASSUME NEW max \in 0 .. 1, NEW cancel \in BOOLEAN, RunReady(c, max, cancel)
        PROVE  Bounds'
    <3> DEFINE count == completion_limit(max, Len(completed))
    <3>1. count \in 0 .. Len(completed)
      <4>1. max \in Nat /\ Len(completed) \in Nat
        BY DEF DataTypes
      <4> QED
        BY <4>1, CompletionLimitBound
    <3>2. Len(SubSeq(completed, count + 1, Len(completed))) = Len(completed) - count
      BY <3>1, DrainedSuffix DEF DataTypes
    <3>3. completed' = SubSeq(completed, count + 1, Len(completed))
      BY <2>4 DEF RunReady
    <3> HIDE DEF count
    <3>4. Len(completed') \in 0 .. Len(completed)
      BY <3>1, <3>2, <3>3 DEF DataTypes
    <3>5. BusyWorkers' = BusyWorkers
      BY <2>4, BusyAfterWake DEF RunReady
    <3> QED
      BY <2>4, <3>4, <3>5, BoundsCancel DEF RunReady
  <2>5. CASE CancelPending(c)
    <3>1. completed' = completed /\ Len(completed) \in 0 .. Len(completed)
      BY <2>5 DEF CancelPending, DataTypes
    <3>2. BusyWorkers' = BusyWorkers
      BY <2>5, BusyAfterWake DEF CancelPending
    <3> QED
      BY <2>5, <3>1, <3>2, BoundsCancel DEF CancelPending
  <2>6. CASE ShutdownAgain(c) \/ WaitForIdle(c)
    BY <2>6, BoundsQuiet, BusyAfterWake
    DEF ShutdownAgain, WaitForIdle, queues, settledCounts, workerVars
  <2>7. CASE ShutdownBegin(c)
    <3>1. completed' = completed /\ Len(completed) \in 0 .. Len(completed)
      BY <2>7 DEF ShutdownBegin, DataTypes
    <3>2. BusyWorkers' = BusyWorkers
      BY <2>7, BusyAfterWake DEF ShutdownBegin, workerVars
    <3> QED
      BY <2>7, <3>1, <3>2, BoundsCancel DEF ShutdownBegin
  <2> QED
    BY <1>1, <2>1, <2>2, <2>3, <2>4, <2>5, <2>6, <2>7 DEF ClientCall
<1>2. ASSUME NEW c \in Clients, ClientStep(c) PROVE Bounds'
  <2>1. BusyWorkers' = BusyWorkers
    BY <1>2 DEF ClientStep, NotifyOne, ShutdownNotify, ShutdownJoin, WaitRecheck, WaitTimeout,
      workerVars, WakeWorkers, BusyWorkers, Busy, DataTypes
  <2>2. queues' = queues
    BY <1>2 DEF ClientStep, NotifyOne, ShutdownNotify, ShutdownJoin, WaitRecheck, WaitTimeout
  <2> QED
    BY <2>1, <2>2, BoundsQuiet DEF queues, settledCounts
<1>3. ASSUME NEW w \in Workers, WorkerStep(w) \/ WorkerSpuriousWake(w) PROVE Bounds'
  <2>1. CASE WorkerTake(w)
    BY <2>1, BoundsTake
  <2>2. CASE WorkerRecord(w)
    BY <2>2, BoundsRecord
  <2>3. CASE \/ WorkerSleep(w) \/ WorkerSpuriousWake(w) \/ WorkerExit(w) \/ WorkerCallback(w)
             \/ WorkerNotify(w) \/ \E ok \in BOOLEAN : WorkerExecute(w, ok)
    <3>1. BusyWorkers' = BusyWorkers
      BY <2>3 DEF WorkerSleep, WorkerSpuriousWake, WorkerExit, WorkerExecute, WorkerCallback,
        WorkerNotify, WakeWorkers, BusyWorkers, Busy, DataTypes
    <3>2. queues' = queues
      BY <2>3 DEF WorkerSleep, WorkerSpuriousWake, WorkerExit, WorkerExecute, WorkerCallback,
        WorkerNotify
    <3> QED
      BY <3>1, <3>2, BoundsQuiet DEF queues, settledCounts
  <2> QED
    BY <1>3, <2>1, <2>2, <2>3 DEF WorkerStep
<1>4. CASE UNCHANGED vars
  <2>1. queues' = queues /\ wpc' = wpc
    BY <1>4 DEF vars, workerVars
  <2> QED
    BY <2>1, BoundsQuiet, BusyAfterWake DEF queues, settledCounts
<1> QED
  BY <1>1, <1>2, <1>3, <1>4 DEF Next

\* The backlog of ThreadedTaskExecutor is bounded: pending tasks, active tasks and
\* undrained records never exceed max_inflight + queue_capacity, and the high-water
\* marks lie between the present depths and that capacity.
THEOREM AdmissionBounded == Spec => []AdmissionBound
<1>1. Init => DataTypes /\ Bounds
  BY TypeInit, BoundsInit DEF TypeOK
<1>2. TypeOK /\ Bounds /\ [Next]_vars => Bounds'
  BY BoundsStep DEF TypeOK
<1>3. Bounds => AdmissionBound
  BY DEF Bounds
<1> QED
  BY <1>1, <1>2, <1>3, TypeCorrect, PTL DEF Spec

\* active_count is exact and never exceeds max_inflight.
THEOREM ConcurrencyBounded == Spec => []ConcurrencyBound
<1>1. Init => DataTypes /\ Bounds
  BY TypeInit, BoundsInit DEF TypeOK
<1>2. TypeOK /\ Bounds /\ [Next]_vars => Bounds'
  BY BoundsStep DEF TypeOK
<1>3. Bounds => ConcurrencyBound
  BY DEF Bounds
<1> QED
  BY <1>1, <1>2, <1>3, TypeCorrect, PTL DEF Spec

\* The state is well typed and within its limits, for every number of threads.
THEOREM LimitsHold == Spec => []PoolBounded
<1>1. TypeOK /\ AdmissionBound /\ ConcurrencyBound => PoolBounded
  BY DEF PoolBounded
<1> QED
  BY <1>1, TypeCorrect, AdmissionBounded, ConcurrencyBounded, PTL

\* The counters account for every accepted task.
THEOREM CountersBalanced == Spec => []CountersBalance
<1>1. Init => DataTypes /\ Bounds
  BY TypeInit, BoundsInit DEF TypeOK
<1>2. TypeOK /\ Bounds /\ [Next]_vars => Bounds'
  BY BoundsStep DEF TypeOK
<1>3. Bounds => CountersBalance
  BY DEF Bounds
<1> QED
  BY <1>1, <1>2, <1>3, TypeCorrect, PTL DEF Spec

-----------------------------------------------------------------------------
(* No lost wakeup.  The strengthening says what an exited worker proves    *)
(* about the queue: nothing is left in it, and nothing can be added.       *)

ExitedMeansDrained ==
    /\ stopping /\ CancelOnShutdown => pending = <<>>
    /\ (\E w \in Workers : wpc[w] = "exited") => stopping /\ pending = <<>>

Wakeups == ExitedMeansDrained /\ WorkWakeupNotLost

LEMMA WakeupsInit == Init => Wakeups
BY DEF Init, Wakeups, ExitedMeansDrained, WorkWakeupNotLost, CanStart, MustExit

LEMMA ExitedCall ==
    ASSUME DataTypes, ExitedMeansDrained, NEW c \in Clients, ClientCall(c)
    PROVE  ExitedMeansDrained'
<1> USE DEF ExitedMeansDrained, CancelOnShutdown, config, workerVars
<1>1. CASE SubmitEmpty(c) \/ SubmitStopping(c) \/ SubmitFull(c) \/ ShutdownAgain(c) \/ WaitForIdle(c)
  BY <1>1 DEF SubmitEmpty, SubmitStopping, SubmitFull, SubmitRejected, ShutdownAgain, WaitForIdle, queues
<1>2. CASE SubmitRoom(c) \/ SubmitDropOldest(c)
  BY <1>2 DEF SubmitRoom, SubmitDropOldest, Accept
<1>3. ASSUME NEW max \in 0 .. 1, NEW cancel \in BOOLEAN, RunReady(c, max, cancel)
      PROVE  ExitedMeansDrained'
  BY <1>3 DEF RunReady, CancelPendingLocked, WakeWorkers, DataTypes
<1>4. CASE CancelPending(c)
  BY <1>4 DEF CancelPending, CancelPendingLocked, WakeWorkers, DataTypes
<1>5. CASE ShutdownBegin(c)
  BY <1>5 DEF ShutdownBegin, CancelPendingLocked
<1> QED
  BY <1>1, <1>2, <1>3, <1>4, <1>5 DEF ClientCall

LEMMA ExitedStep == DataTypes /\ ExitedMeansDrained /\ [Next]_vars => ExitedMeansDrained'
<1> SUFFICES ASSUME DataTypes, ExitedMeansDrained, [Next]_vars PROVE ExitedMeansDrained'
  OBVIOUS
<1>1. ASSUME NEW c \in Clients, ClientStep(c) PROVE ExitedMeansDrained'
  BY <1>1 DEF ExitedMeansDrained, CancelOnShutdown, ClientStep, NotifyOne, ShutdownNotify, ShutdownJoin,
    WaitRecheck, WaitTimeout, WakeWorkers, DataTypes, config, queues, workerVars
<1>2. ASSUME NEW w \in Workers, WorkerStep(w) \/ WorkerSpuriousWake(w) PROVE ExitedMeansDrained'
  <2> USE DEF ExitedMeansDrained, CancelOnShutdown, DataTypes, config, queues
  <2>1. CASE WorkerExit(w)
    BY <2>1 DEF WorkerExit, MustExit
  <2>2. CASE WorkerTake(w)
    BY <2>2 DEF WorkerTake, CanStart
  <2>3. CASE WorkerSleep(w) \/ WorkerSpuriousWake(w) \/ WorkerCallback(w)
    BY <2>3 DEF WorkerSleep, WorkerSpuriousWake, WorkerCallback
  <2>4. CASE WorkerRecord(w)
    BY <2>4 DEF WorkerRecord
  <2>5. ASSUME NEW ok \in BOOLEAN, WorkerExecute(w, ok) PROVE ExitedMeansDrained'
    BY <2>5 DEF WorkerExecute
  <2>6. CASE WorkerNotify(w)
    <3>1. \A x \in Workers : wpc'[x] = "exited" => wpc[x] = "exited"
      BY <2>6 DEF WorkerNotify, WakeWorkers
    <3> QED
      BY <2>6, <3>1 DEF WorkerNotify
  <2> QED
    BY <1>2, <2>1, <2>2, <2>3, <2>4, <2>5, <2>6 DEF WorkerStep
<1>3. CASE UNCHANGED vars
  BY <1>3 DEF ExitedMeansDrained, CancelOnShutdown, vars, config, queues, workerVars
<1> QED
  BY <1>1, <1>2, <1>3, ExitedCall DEF Next

\* While no worker sleeps and an exited one implies an empty queue, a startable
\* task has an awake worker to start it.
LEMMA NobodyAsleep ==
    ASSUME ExitedMeansDrained', \A w \in Workers : wpc'[w] # "asleep"
    PROVE  WorkWakeupNotLost'
BY ExecutorAssumption DEF ExitedMeansDrained, WorkWakeupNotLost, CanStart, MustExit

\* A step that changes neither the queue nor the control states.
LEMMA WakeupQuiet ==
    ASSUME WorkWakeupNotLost, pending' = pending, active' = active, stopping' = stopping,
           shutdownPolicy' = shutdownPolicy, wpc' = wpc, NEW c \in Clients, DataTypes,
           cpc[c] \notin {"notify_one", "notify_all"},
           \A d \in Clients : d # c => cpc'[d] = cpc[d]
    PROVE  WorkWakeupNotLost'
BY DEF WorkWakeupNotLost, CanStart, MustExit, CancelOnShutdown, InflightLimit

LEMMA WakeupCall ==
    ASSUME DataTypes, WorkWakeupNotLost, ExitedMeansDrained', NEW c \in Clients, ClientCall(c)
    PROVE  WorkWakeupNotLost'
<1>1. CASE SubmitEmpty(c) \/ SubmitStopping(c) \/ SubmitFull(c) \/ ShutdownAgain(c) \/ WaitForIdle(c)
  <2>1. /\ pending' = pending /\ active' = active /\ stopping' = stopping
        /\ shutdownPolicy' = shutdownPolicy /\ wpc' = wpc
    BY <1>1 DEF SubmitEmpty, SubmitStopping, SubmitFull, SubmitRejected, ShutdownAgain, WaitForIdle,
      config, queues, workerVars
  <2>2. cpc[c] = "idle" /\ \A d \in Clients : d # c => cpc'[d] = cpc[d]
    BY <1>1 DEF SubmitEmpty, SubmitStopping, SubmitFull, SubmitRejected, ShutdownAgain, WaitForIdle,
      Calls, DataTypes
  <2> QED
    BY <2>1, <2>2, WakeupQuiet
<1>2. CASE SubmitRoom(c) \/ SubmitDropOldest(c)
  <2>1. ~stopping' /\ cpc'[c] = "notify_one"
    BY <1>2 DEF SubmitRoom, SubmitDropOldest, Accept, DataTypes
  <2> QED
    BY <2>1 DEF WorkWakeupNotLost, MustExit
<1>3. ASSUME NEW max \in 0 .. 1, NEW cancel \in BOOLEAN, RunReady(c, max, cancel)
      PROVE  WorkWakeupNotLost'
  <2>1. CASE cancel
    <3>1. \A w \in Workers : wpc'[w] # "asleep"
      BY <1>3, <2>1 DEF RunReady, WakeWorkers
    <3> QED
      BY <3>1, NobodyAsleep
  <2>2. CASE ~cancel
    <3>1. /\ pending' = pending /\ active' = active /\ stopping' = stopping
          /\ shutdownPolicy' = shutdownPolicy /\ wpc' = wpc /\ cpc' = cpc
      BY <1>3, <2>2 DEF RunReady, config
    <3>2. cpc[c] = "idle"
      BY <1>3 DEF RunReady, Calls
    <3> QED
      BY <3>1, <3>2, WakeupQuiet
  <2> QED
    BY <2>1, <2>2
<1>4. CASE CancelPending(c)
  <2>1. \A w \in Workers : wpc'[w] # "asleep"
    BY <1>4 DEF CancelPending, WakeWorkers
  <2> QED
    BY <2>1, NobodyAsleep
<1>5. CASE ShutdownBegin(c)
  <2>1. cpc'[c] = "notify_all"
    BY <1>5 DEF ShutdownBegin, DataTypes
  <2> QED
    BY <2>1 DEF WorkWakeupNotLost
<1> QED
  BY <1>1, <1>2, <1>3, <1>4, <1>5 DEF ClientCall

LEMMA WakeupClientStep ==
    ASSUME DataTypes, WorkWakeupNotLost, ExitedMeansDrained', NEW c \in Clients, ClientStep(c)
    PROVE  WorkWakeupNotLost'
<1>1. CASE NotifyOne(c)
  <2>1. CASE \A w \in Workers : wpc'[w] # "asleep"
    BY <2>1, NobodyAsleep
  <2>2. CASE \E w \in Workers : wpc'[w] = "asleep"
    <3>1. PICK w \in Workers : wpc[w] = "asleep" /\ wpc' = [wpc EXCEPT ![w] = "check"]
      BY <1>1, <2>2 DEF NotifyOne
    <3>2. wpc'[w] = "check" /\ \A x \in Workers : x # w => wpc'[x] = wpc[x]
      BY <3>1 DEF DataTypes
    <3>3. MustExit' <=> MustExit
      BY <1>1 DEF NotifyOne, MustExit, CancelOnShutdown, config, queues
    <3>4. \A d \in Clients : cpc[d] = "notify_all" => cpc'[d] = "notify_all"
      BY <1>1 DEF NotifyOne, DataTypes
    <3> QED
      BY <3>1, <3>2, <3>3, <3>4 DEF WorkWakeupNotLost
  <2> QED
    BY <2>1, <2>2
<1>2. CASE ShutdownNotify(c)
  <2>1. \A w \in Workers : wpc'[w] # "asleep"
    BY <1>2 DEF ShutdownNotify, WakeWorkers
  <2> QED
    BY <2>1, NobodyAsleep
<1>3. CASE ShutdownJoin(c) \/ WaitRecheck(c) \/ WaitTimeout(c)
  <2>1. /\ pending' = pending /\ active' = active /\ stopping' = stopping
        /\ shutdownPolicy' = shutdownPolicy /\ wpc' = wpc
    BY <1>3 DEF ShutdownJoin, WaitRecheck, WaitTimeout, config, queues, workerVars
  <2>2. cpc[c] \notin {"notify_one", "notify_all"} /\ \A d \in Clients : d # c => cpc'[d] = cpc[d]
    BY <1>3 DEF ShutdownJoin, WaitRecheck, WaitTimeout, DataTypes
  <2> QED
    BY <2>1, <2>2, WakeupQuiet
<1> QED
  BY <1>1, <1>2, <1>3 DEF ClientStep

LEMMA WakeupWorkerStep ==
    ASSUME DataTypes, WorkWakeupNotLost, ExitedMeansDrained, ExitedMeansDrained',
           NEW w \in Workers, WorkerStep(w) \/ WorkerSpuriousWake(w)
    PROVE  WorkWakeupNotLost'
<1>1. CASE WorkerSleep(w)
  <2>1. ~CanStart' /\ ~MustExit'
    BY <1>1 DEF WorkerSleep, CanStart, MustExit, CancelOnShutdown, InflightLimit, config, queues
  <2> QED
    BY <2>1 DEF WorkWakeupNotLost
<1>2. CASE WorkerSpuriousWake(w) \/ WorkerExit(w)
  <2>1. MustExit' <=> MustExit
    BY <1>2 DEF WorkerSpuriousWake, WorkerExit, MustExit, CancelOnShutdown, config, queues
  <2>2. cpc' = cpc /\ \A x \in Workers : x # w => wpc'[x] = wpc[x]
    BY <1>2 DEF WorkerSpuriousWake, WorkerExit, DataTypes
  <2>3. wpc[w] \in {"asleep", "check"} /\ wpc'[w] \in {"check", "exited"}
    BY <1>2 DEF WorkerSpuriousWake, WorkerExit, DataTypes
  <2>4. wpc'[w] = "exited" => ~CanStart'
    BY DEF ExitedMeansDrained, CanStart
  <2> QED
    BY <2>1, <2>2, <2>3, <2>4 DEF WorkWakeupNotLost
<1>3. CASE \/ WorkerTake(w) \/ WorkerCallback(w) \/ WorkerRecord(w)
           \/ \E ok \in BOOLEAN : WorkerExecute(w, ok)
  <2>1. wpc'[w] \in {"execute", "callback", "record", "notify"}
    BY <1>3 DEF WorkerTake, WorkerCallback, WorkerRecord, WorkerExecute, DataTypes
  <2> QED
    BY <2>1 DEF WorkWakeupNotLost
<1>4. CASE WorkerNotify(w)
  <2>1. \A x \in Workers : wpc'[x] # "asleep"
    BY <1>4 DEF WorkerNotify, WakeWorkers
  <2> QED
    BY <2>1, NobodyAsleep
<1> QED
  BY <1>1, <1>2, <1>3, <1>4 DEF WorkerStep

LEMMA WakeupsStep == TypeOK /\ Wakeups /\ [Next]_vars => Wakeups'
<1> SUFFICES ASSUME DataTypes, Wakeups, [Next]_vars PROVE Wakeups'
  BY DEF TypeOK
<1>1. ExitedMeansDrained'
  BY ExitedStep DEF Wakeups
<1>2. WorkWakeupNotLost'
  <2>1. CASE UNCHANGED vars
    BY <2>1 DEF Wakeups, WorkWakeupNotLost, CanStart, MustExit, CancelOnShutdown, InflightLimit,
      vars, config, queues, workerVars
  <2> QED
    BY <1>1, <2>1, WakeupCall, WakeupClientStep, WakeupWorkerStep DEF Wakeups, Next
<1> QED
  BY <1>1, <1>2 DEF Wakeups

\* No wakeup of work_available_ is lost, whatever the number of workers and clients:
\* a startable task always has a thread on its way to it, and sleepers that should
\* exit always have a notify_all on its way.
THEOREM WakeupNotLost == Spec => []WorkWakeupNotLost
<1>1. Wakeups => WorkWakeupNotLost
  BY DEF Wakeups
<1> QED
  BY <1>1, WakeupsInit, WakeupsStep, TypeCorrect, PTL DEF Spec

-----------------------------------------------------------------------------
(* Every task is in one place.  The strengthening adds what the queues     *)
(* keep: the waiting tasks are in the order of admission, no record is     *)
(* published twice and no two workers hold the same task.                  *)

Places ==
    /\ IdsIn(pending) \cup HeldIds \cup IdsIn(completed) \cup drainedIds \cup cancelledIds = TaskIds
    /\ IdsIn(pending) \cap (HeldIds \cup IdsIn(completed) \cup drainedIds \cup cancelledIds) = {}
    /\ HeldIds \cap (IdsIn(completed) \cup drainedIds \cup cancelledIds) = {}
    /\ IdsIn(completed) \cap (drainedIds \cup cancelledIds) = {}
    /\ drainedIds \cap cancelledIds = {}

Order ==
    /\ Ascending(pending) /\ NoRepeats(completed)
    /\ \A v, w \in BusyWorkers : v # w => held[v] # held[w]

\* What a step does to the places of the tasks: nothing; one is admitted, in place of the
\* oldest or not; a worker takes one; a worker publishes a record; waiting ones are
\* cancelled and records drained, or the executor is closed.
Rests ==
    /\ UNCHANGED <<pending, completed, nextTaskId, drainedIds, cancelledIds, held, stopping>>
    /\ BusyWorkers' = BusyWorkers

Admits ==
    /\ \/ pending' = Append(pending, nextTaskId) /\ cancelledIds' = cancelledIds
       \/ /\ pending # <<>> /\ pending' = Append(Tail(pending), nextTaskId)
          /\ cancelledIds' = cancelledIds \cup {Head(pending)}
    /\ nextTaskId' = nextTaskId + 1 /\ ~stopping
    /\ UNCHANGED <<completed, drainedIds, held, stopping>> /\ BusyWorkers' = BusyWorkers

Takes(w) ==
    /\ pending # <<>> /\ pending' = Tail(pending) /\ held' = [held EXCEPT ![w] = Head(pending)]
    /\ w \notin BusyWorkers /\ BusyWorkers' = BusyWorkers \cup {w}
    /\ UNCHANGED <<completed, nextTaskId, drainedIds, cancelledIds, stopping>>

Publishes(w) ==
    /\ w \in BusyWorkers /\ BusyWorkers' = BusyWorkers \ {w} /\ held' = [held EXCEPT ![w] = 0]
    /\ completed' = Append(completed, held[w])
    /\ UNCHANGED <<pending, nextTaskId, drainedIds, cancelledIds, stopping>>

Hands ==
    /\ \/ UNCHANGED <<pending, cancelledIds>>
       \/ pending' = <<>> /\ cancelledIds' = cancelledIds \cup IdsIn(pending)
    /\ \E n \in 0 .. Len(completed) :
          /\ completed' = SubSeq(completed, n + 1, Len(completed))
          /\ drainedIds' = drainedIds \cup IdsIn(SubSeq(completed, 1, n))
    /\ stopping' = stopping \/ (stopping' /\ UNCHANGED <<completed, drainedIds>>)
    /\ UNCHANGED <<nextTaskId, held>> /\ BusyWorkers' = BusyWorkers

\* Draining no record at all.
LEMMA HandsNone ==
    ASSUME completed \in Seq(Nat)
    PROVE  /\ 0 \in 0 .. Len(completed)
           /\ completed = SubSeq(completed, 0 + 1, Len(completed))
           /\ drainedIds = drainedIds \cup IdsIn(SubSeq(completed, 1, 0))
<1>1. Len(completed) \in Nat /\ SubSeq(completed, 1, 0) = <<>>
  OBVIOUS
<1>2. completed = SubSeq(completed, 1, Len(completed))
  OBVIOUS
<1>3. IdsIn(<<>>) = {}
  BY DEF IdsIn
<1>4. drainedIds = drainedIds \cup IdsIn(SubSeq(completed, 1, 0))
  BY <1>1, <1>3
<1>5. 0 + 1 = 1 /\ 0 \in 0 .. Len(completed)
  BY <1>1
<1>6. completed = SubSeq(completed, 0 + 1, Len(completed))
  BY <1>2, <1>5, Zenon
<1> QED
  BY <1>4, <1>5, <1>6, Zenon

LEMMA CallKinds ==
    ASSUME DataTypes, NEW c \in Clients, ClientCall(c)
    PROVE  Rests \/ Admits \/ Hands
<1> USE DEF queues, workerVars, history
<1>1. CASE SubmitEmpty(c) \/ SubmitStopping(c) \/ SubmitFull(c) \/ ShutdownAgain(c) \/ WaitForIdle(c)
  <2>1. wpc' = wpc /\ UNCHANGED <<pending, completed, nextTaskId, drainedIds, cancelledIds, held, stopping>>
    BY <1>1 DEF SubmitEmpty, SubmitStopping, SubmitFull, SubmitRejected, ShutdownAgain, WaitForIdle
  <2> QED
    BY <2>1, BusyAfterWake DEF Rests
<1>2. CASE SubmitRoom(c)
  <2>1. wpc' = wpc /\ cancelledIds' = cancelledIds \cup {}
        /\ pending' = Append(pending, nextTaskId) /\ nextTaskId' = nextTaskId + 1
        /\ ~stopping /\ UNCHANGED <<completed, drainedIds, held, stopping>>
    BY <1>2 DEF SubmitRoom, Accept
  <2>2. cancelledIds' = cancelledIds
    BY <2>1
  <2> QED
    BY <2>1, <2>2, BusyAfterWake DEF Admits
<1>3. CASE SubmitDropOldest(c)
  <2>1. wpc' = wpc /\ pending # <<>> /\ cancelledIds' = cancelledIds \cup {Head(pending)}
        /\ pending' = Append(Tail(pending), nextTaskId) /\ nextTaskId' = nextTaskId + 1
        /\ ~stopping /\ UNCHANGED <<completed, drainedIds, held, stopping>>
    BY <1>3 DEF SubmitDropOldest, Accept
  <2> QED
    BY <2>1, BusyAfterWake DEF Admits
<1>4. ASSUME NEW max \in 0 .. 1, NEW cancel \in BOOLEAN, RunReady(c, max, cancel) PROVE Hands
  <2> DEFINE n == completion_limit(max, Len(completed))
  <2>1. n \in 0 .. Len(completed)
    <3>1. Len(completed) \in Nat /\ max \in Nat
      BY DEF DataTypes
    <3>2. completion_limit(max, Len(completed)) \in 0 .. Len(completed)
      BY <3>1, CompletionLimitBound, Zenon
    <3> QED
      BY <3>2
  <2>2. /\ completed' = SubSeq(completed, n + 1, Len(completed))
        /\ drainedIds' = drainedIds \cup IdsIn(SubSeq(completed, 1, n))
        /\ UNCHANGED <<nextTaskId, held, stopping>>
    BY <1>4 DEF RunReady
  <2>3. \/ UNCHANGED <<pending, cancelledIds>>
        \/ pending' = <<>> /\ cancelledIds' = cancelledIds \cup IdsIn(pending)
    BY <1>4 DEF RunReady, CancelPendingLocked
  <2>4. wpc' = wpc \/ wpc' = WakeWorkers(wpc)
    BY <1>4 DEF RunReady
  <2> HIDE DEF n
  <2> QED
    BY <2>1, <2>2, <2>3, <2>4, BusyAfterWake DEF Hands
<1>5. CASE CancelPending(c) \/ ShutdownBegin(c)
  <2>1. /\ UNCHANGED <<completed, drainedIds, nextTaskId, held>> /\ (wpc' = wpc \/ wpc' = WakeWorkers(wpc))
        /\ stopping' = stopping \/ stopping'
    BY <1>5 DEF CancelPending, ShutdownBegin
  <2>2. \/ UNCHANGED <<pending, cancelledIds>>
        \/ pending' = <<>> /\ cancelledIds' = cancelledIds \cup IdsIn(pending)
    BY <1>5 DEF CancelPending, ShutdownBegin, CancelPendingLocked
  <2>3. completed \in Seq(Nat)
    BY DEF DataTypes
  <2>4. /\ 0 \in 0 .. Len(completed)
        /\ completed' = SubSeq(completed, 0 + 1, Len(completed))
        /\ drainedIds' = drainedIds \cup IdsIn(SubSeq(completed, 1, 0))
    BY <2>1, <2>3, HandsNone
  <2>5. \E n \in 0 .. Len(completed) :
          /\ completed' = SubSeq(completed, n + 1, Len(completed))
          /\ drainedIds' = drainedIds \cup IdsIn(SubSeq(completed, 1, n))
    BY <2>4
  <2> QED
    BY <2>1, <2>2, <2>5, BusyAfterWake DEF Hands
<1> QED
  BY <1>1, <1>2, <1>3, <1>4, <1>5 DEF ClientCall

LEMMA StepKinds ==
    ASSUME DataTypes, [Next]_vars
    PROVE  Rests \/ Admits \/ Hands \/ \E w \in Workers : Takes(w) \/ Publishes(w)
<1> USE DEF queues, workerVars, history
<1>1. ASSUME NEW c \in Clients, ClientStep(c) PROVE Rests
  <2>1. UNCHANGED <<pending, completed, nextTaskId, drainedIds, cancelledIds, held, stopping>>
    BY <1>1 DEF ClientStep, NotifyOne, ShutdownNotify, ShutdownJoin, WaitRecheck, WaitTimeout
  <2>2. BusyWorkers' = BusyWorkers
    BY <1>1 DEF ClientStep, NotifyOne, ShutdownNotify, ShutdownJoin, WaitRecheck, WaitTimeout,
      WakeWorkers, BusyWorkers, Busy, DataTypes
  <2> QED
    BY <2>1, <2>2 DEF Rests
<1>2. ASSUME NEW w \in Workers, WorkerTake(w) PROVE Takes(w)
  BY <1>2 DEF WorkerTake, CanStart, Takes, BusyWorkers, Busy, DataTypes
<1>3. ASSUME NEW w \in Workers, WorkerRecord(w) PROVE Publishes(w)
  BY <1>3 DEF WorkerRecord, Publishes, BusyWorkers, Busy, DataTypes
<1>4. ASSUME NEW w \in Workers,
             \/ WorkerSleep(w) \/ WorkerSpuriousWake(w) \/ WorkerExit(w) \/ WorkerCallback(w)
             \/ \E ok \in BOOLEAN : WorkerExecute(w, ok)
      PROVE  Rests
  <2>1. UNCHANGED <<pending, completed, nextTaskId, drainedIds, cancelledIds, held, stopping>>
    BY <1>4 DEF WorkerSleep, WorkerSpuriousWake, WorkerExit, WorkerCallback, WorkerExecute
  <2>2. BusyWorkers' = BusyWorkers
    BY <1>4 DEF WorkerSleep, WorkerSpuriousWake, WorkerExit, WorkerCallback, WorkerExecute,
      BusyWorkers, Busy, DataTypes
  <2> QED
    BY <2>1, <2>2 DEF Rests
<1>5. ASSUME NEW w \in Workers, WorkerNotify(w) PROVE Rests
  <2>1. BusyWorkers' = BusyWorkers
    <3>1. \A v \in Workers : wpc'[v] = IF v = w THEN "check" ELSE IF wpc[v] = "asleep" THEN "check" ELSE wpc[v]
      BY <1>5 DEF WorkerNotify, WakeWorkers
    <3>2. wpc[w] = "notify"
      BY <1>5 DEF WorkerNotify
    <3> QED
      BY <3>1, <3>2 DEF BusyWorkers, Busy
  <2> QED
    BY <1>5, <2>1 DEF WorkerNotify, Rests
<1>6. CASE UNCHANGED vars
  BY <1>6, BusyAfterWake DEF vars, Rests
<1> QED
  BY <1>1, <1>2, <1>3, <1>4, <1>5, <1>6, CallKinds DEF Next, WorkerStep

LEMMA IdsAreItems == \A s : IdsIn(s) = ItemsOf(s)
BY DEF IdsIn, ItemsOf

LEMMA TaskIdsFacts ==
    ASSUME DataTypes
    PROVE  /\ nextTaskId \notin TaskIds /\ \A id \in TaskIds : id < nextTaskId
           /\ nextTaskId' = nextTaskId + 1 => TaskIds' = TaskIds \cup {nextTaskId}
<1>1. nextTaskId \in Nat \ {0}
  BY DEF DataTypes
<1>2. ASSUME nextTaskId' = nextTaskId + 1 PROVE TaskIds' = TaskIds \cup {nextTaskId}
  <2>1. TaskIds' = 1 .. nextTaskId
    BY <1>1, <1>2 DEF TaskIds
  <2>2. \A i \in 1 .. nextTaskId : i \in 1 .. nextTaskId - 1 \/ i = nextTaskId
    BY <1>1
  <2>3. nextTaskId \in 1 .. nextTaskId /\ \A i \in 1 .. nextTaskId - 1 : i \in 1 .. nextTaskId
    BY <1>1
  <2> QED
    BY <2>1, <2>2, <2>3 DEF TaskIds
<1> QED
  BY <1>1, <1>2 DEF TaskIds

\* A task is admitted: its id is new.
LEMMA AdmitPlaces ==
    ASSUME DataTypes, Places, Order, Admits
    PROVE  Places' /\ Order'
<1> DEFINE new == nextTaskId
<1>1. pending \in Seq(Nat) /\ new \in Nat
  BY DEF DataTypes
<1>2. HeldIds' = HeldIds /\ completed' = completed /\ drainedIds' = drainedIds /\ held' = held
      /\ BusyWorkers' = BusyWorkers
  BY DEF Admits, HeldIds
<1>3. new \notin TaskIds /\ (\A id \in TaskIds : id < new) /\ TaskIds' = TaskIds \cup {new}
  BY TaskIdsFacts DEF Admits
<1>4. CASE pending' = Append(pending, new) /\ cancelledIds' = cancelledIds
  <2>1. IdsIn(pending') = IdsIn(pending) \cup {new}
    BY <1>1, <1>4, ItemsAppend, IdsAreItems
  <2>2. Places'
    BY <1>2, <1>3, <1>4, <2>1 DEF Places
  <2>3. \A y \in ItemsOf(pending) : y < new
    BY <1>3, IdsAreItems DEF Places
  <2>4. Ascending(pending')
    BY <1>1, <1>4, <2>3, AscendingFacts DEF Order
  <2> QED
    BY <1>2, <2>2, <2>4 DEF Order
<1>5. CASE /\ pending # <<>> /\ pending' = Append(Tail(pending), new)
           /\ cancelledIds' = cancelledIds \cup {Head(pending)}
  <2>1. Tail(pending) \in Seq(Nat) /\ Head(pending) = pending[1]
    BY <1>1, <1>5, TailFacts
  <2>2. NoRepeats(pending) /\ Ascending(Tail(pending))
    BY <1>1, <1>5, AscendingFacts DEF Order
  <2>3. ItemsOf(Tail(pending)) = ItemsOf(pending) \ {pending[1]} /\ pending[1] \in ItemsOf(pending)
    BY <1>1, <1>5, <2>2, ItemsTail
  <2>4. ItemsOf(pending') = ItemsOf(Tail(pending)) \cup {new}
    <3>1. ItemsOf(Append(Tail(pending), new)) = ItemsOf(Tail(pending)) \cup {new}
      <4> DEFINE rest == Tail(pending)
      <4>1. rest \in Seq(Nat)
        BY <2>1
      <4> HIDE DEF rest
      <4>2. ItemsOf(Append(rest, new)) = ItemsOf(rest) \cup {new}
        BY <1>1, <4>1, ItemsAppend
      <4> QED
        BY <4>2 DEF rest
    <3> QED
      BY <1>5, <3>1
  <2>5. /\ IdsIn(pending') = (IdsIn(pending) \ {Head(pending)}) \cup {new}
        /\ Head(pending) \in IdsIn(pending)
    BY <2>1, <2>3, <2>4, IdsAreItems
  <2>6. Places'
    BY <1>2, <1>3, <1>5, <2>5 DEF Places
  <2>7. \A y \in ItemsOf(Tail(pending)) : y < new
    BY <1>3, <2>3, IdsAreItems DEF Places
  <2>8. Ascending(pending')
    BY <1>1, <1>5, <2>1, <2>2, <2>7, AscendingFacts
  <2> QED
    BY <1>2, <2>6, <2>8 DEF Order
<1> QED
  BY <1>4, <1>5 DEF Admits

LEMMA TakePlaces ==
    ASSUME DataTypes, Places, Order, NEW w \in Workers, Takes(w)
    PROVE  Places' /\ Order' /\ HeldIds' = HeldIds \cup {Head(pending)}
           /\ IdsIn(pending') = IdsIn(pending) \ {Head(pending)}
           /\ Head(pending) \in IdsIn(pending) /\ \A id \in IdsIn(pending) : Head(pending) <= id
<1>1. /\ pending \in Seq(Nat) /\ pending # <<>> /\ pending' = Tail(pending)
      /\ held \in [Workers -> Nat] /\ held' = [held EXCEPT ![w] = Head(pending)]
      /\ w \notin BusyWorkers /\ BusyWorkers' = BusyWorkers \cup {w} /\ BusyWorkers \subseteq Workers
      /\ UNCHANGED <<completed, nextTaskId, drainedIds, cancelledIds>>
  BY DEF DataTypes, Takes, BusyWorkers
<1>2. Head(pending) = pending[1]
  BY <1>1, TailFacts
<1>3. NoRepeats(pending) /\ Ascending(pending') /\ \A x \in ItemsOf(pending) : pending[1] <= x
  BY <1>1, AscendingFacts DEF Order
<1>4. ItemsOf(pending') = ItemsOf(pending) \ {pending[1]} /\ pending[1] \in ItemsOf(pending)
  BY <1>1, <1>3, ItemsTail
<1>5. /\ IdsIn(pending') = IdsIn(pending) \ {Head(pending)} /\ Head(pending) \in IdsIn(pending)
      /\ \A id \in IdsIn(pending) : Head(pending) <= id
  BY <1>2, <1>3, <1>4, IdsAreItems
<1>6. held'[w] = Head(pending) /\ \A v \in BusyWorkers : held'[v] = held[v]
  BY <1>1
<1>7. HeldIds' = HeldIds \cup {Head(pending)}
  BY <1>1, <1>6 DEF HeldIds
<1>8. TaskIds' = TaskIds
  BY <1>1 DEF TaskIds
<1>9. Places'
  BY <1>1, <1>5, <1>7, <1>8 DEF Places
<1>10. \A v \in BusyWorkers : held[v] # Head(pending)
  BY <1>5 DEF Places, HeldIds
<1>11. \A u, v \in BusyWorkers' : u # v => held'[u] # held'[v]
  BY <1>1, <1>6, <1>10 DEF Order
<1> QED
  BY <1>1, <1>3, <1>5, <1>7, <1>9, <1>11 DEF Order

LEMMA PublishPlaces ==
    ASSUME DataTypes, Places, Order, NEW w \in Workers, Publishes(w)
    PROVE  Places' /\ Order' /\ HeldIds' = HeldIds \ {held[w]} /\ held[w] \in HeldIds
           /\ IdsIn(completed') = IdsIn(completed) \cup {held[w]}
<1>1. /\ completed \in Seq(Nat) /\ completed' = Append(completed, held[w]) /\ held[w] \in Nat
      /\ held \in [Workers -> Nat] /\ held' = [held EXCEPT ![w] = 0]
      /\ w \in BusyWorkers /\ BusyWorkers' = BusyWorkers \ {w} /\ BusyWorkers \subseteq Workers
      /\ UNCHANGED <<pending, nextTaskId, drainedIds, cancelledIds>>
  BY DEF DataTypes, Publishes, BusyWorkers
<1>2. IdsIn(completed') = IdsIn(completed) \cup {held[w]}
  BY <1>1, ItemsAppend, IdsAreItems
<1>3. \A v \in BusyWorkers' : held'[v] = held[v]
  BY <1>1
<1>4. HeldIds' = HeldIds \ {held[w]} /\ held[w] \in HeldIds
  <2>1. \A v \in BusyWorkers' : held[v] # held[w]
    BY <1>1 DEF Order
  <2> QED
    BY <1>1, <1>3, <2>1 DEF HeldIds
<1>5. TaskIds' = TaskIds
  BY <1>1 DEF TaskIds
<1>6. Places'
  BY <1>1, <1>2, <1>4, <1>5 DEF Places
<1>7. NoRepeats(completed')
  <2>1. held[w] \notin ItemsOf(completed)
    BY <1>4, IdsAreItems DEF Places
  <2> QED
    BY <1>1, <2>1, NoRepeatsAppend DEF Order
<1>8. \A u, v \in BusyWorkers' : u # v => held'[u] # held'[v]
  BY <1>1, <1>3 DEF Order
<1> QED
  BY <1>1, <1>2, <1>4, <1>6, <1>7, <1>8 DEF Order

LEMMA HandPlaces ==
    ASSUME DataTypes, Places, Order, Hands
    PROVE  Places' /\ Order' /\ HeldIds' = HeldIds
           /\ \E taken \in SUBSET IdsIn(completed) :
                IdsIn(completed') = IdsIn(completed) \ taken /\ drainedIds' = drainedIds \cup taken
<1>1. PICK n \in 0 .. Len(completed) :
          /\ completed' = SubSeq(completed, n + 1, Len(completed))
          /\ drainedIds' = drainedIds \cup IdsIn(SubSeq(completed, 1, n))
  BY DEF Hands
<1> DEFINE taken == IdsIn(SubSeq(completed, 1, n))
<1>2. /\ ItemsOf(SubSeq(completed, 1, n)) \cup ItemsOf(completed') = ItemsOf(completed)
      /\ ItemsOf(SubSeq(completed, 1, n)) \cap ItemsOf(completed') = {}
      /\ NoRepeats(completed')
  BY <1>1, ItemsSplit DEF DataTypes, Order
<1>3. taken \cup IdsIn(completed') = IdsIn(completed) /\ taken \cap IdsIn(completed') = {}
  BY <1>2, IdsAreItems
<1>4. HeldIds' = HeldIds /\ TaskIds' = TaskIds /\ held' = held /\ BusyWorkers' = BusyWorkers
  BY DEF Hands, HeldIds, TaskIds
<1>5. drainedIds' = drainedIds \cup taken
  BY <1>1
<1> HIDE DEF taken
<1>6. \/ IdsIn(pending') = IdsIn(pending) /\ cancelledIds' = cancelledIds
      \/ IdsIn(pending') = {} /\ cancelledIds' = cancelledIds \cup IdsIn(pending)
  BY DEF Hands, IdsIn
<1>7. Places'
  BY <1>3, <1>4, <1>5, <1>6 DEF Places
<1>8. Ascending(pending')
  BY DEF Hands, Order, Ascending
<1>9. IdsIn(completed') = IdsIn(completed) \ taken /\ taken \in SUBSET IdsIn(completed)
  BY <1>3
<1> QED
  BY <1>2, <1>4, <1>5, <1>7, <1>8, <1>9 DEF Order

LEMMA PlacesStep == DataTypes /\ Places /\ Order /\ [Next]_vars => Places' /\ Order'
<1> SUFFICES ASSUME DataTypes, Places, Order, [Next]_vars PROVE Places' /\ Order'
  OBVIOUS
<1>1. CASE Rests
  <2>1. HeldIds' = HeldIds /\ TaskIds' = TaskIds
    BY <1>1 DEF Rests, HeldIds, TaskIds
  <2> QED
    BY <1>1, <2>1 DEF Rests, Places, Order
<1> QED
  BY <1>1, StepKinds, AdmitPlaces, TakePlaces, PublishPlaces, HandPlaces

LEMMA PlacesInit == Init => Places /\ Order
<1> SUFFICES ASSUME Init PROVE Places /\ Order
  OBVIOUS
<1>1. BusyWorkers = {} /\ HeldIds = {}
  BY DEF Init, BusyWorkers, Busy, HeldIds
<1>2. IdsIn(pending) = {} /\ IdsIn(completed) = {} /\ TaskIds = {}
  BY DEF Init, IdsIn, TaskIds
<1>3. Ascending(pending) /\ NoRepeats(completed)
  BY DEF Init, Ascending, NoRepeats
<1> QED
  BY <1>1, <1>2, <1>3 DEF Init, Places, Order

\* The callback of a task has run when its record is published or about to be.
Recording == {w \in Workers : wpc[w] = "record"}
Called == IdsIn(completed) \cup drainedIds \cup {held[w] : w \in Recording}

CallbackCounts ==
    /\ Len(callbacks) = nextTaskId - 1
    /\ \A id \in TaskIds : callbacks[id] = IF id \in Called THEN 1 ELSE 0

\* A worker that is executing or in the callback holds a task whose callback has not run.
LEMMA NotYetCalled ==
    ASSUME DataTypes, Places, Order, NEW w \in Workers, wpc[w] = "callback"
    PROVE  held[w] \in TaskIds /\ held[w] \notin Called
<1>1. w \in BusyWorkers /\ Recording \subseteq BusyWorkers /\ w \notin Recording
  BY DEF BusyWorkers, Busy, Recording
<1>2. held[w] \in HeldIds
  BY <1>1 DEF HeldIds
<1>3. \A v \in Recording : held[v] # held[w]
  BY <1>1 DEF Order
<1> QED
  BY <1>2, <1>3 DEF Called, Places

LEMMA CalledKept ==
    ASSUME CallbackCounts, UNCHANGED <<callbacks, nextTaskId>>, Called' = Called
    PROVE  CallbackCounts'
BY DEF CallbackCounts, TaskIds

LEMMA CallbacksCall ==
    ASSUME DataTypes, Places, Order, CallbackCounts, NEW c \in Clients, ClientCall(c)
    PROVE  CallbackCounts'
<1> USE DEF queues, workerVars, history
<1>0. wpc' = wpc \/ wpc' = WakeWorkers(wpc) => Recording' = Recording
  BY DEF Recording, WakeWorkers
<1>1. CASE SubmitEmpty(c) \/ SubmitStopping(c) \/ SubmitFull(c) \/ ShutdownAgain(c) \/ WaitForIdle(c)
  <2>1. UNCHANGED <<completed, nextTaskId, drainedIds, held, wpc, callbacks>>
    BY <1>1 DEF SubmitEmpty, SubmitStopping, SubmitFull, SubmitRejected, ShutdownAgain, WaitForIdle
  <2> QED
    BY <2>1, CalledKept DEF Called, Recording
<1>2. CASE SubmitRoom(c) \/ SubmitDropOldest(c)
  <2>1. /\ UNCHANGED <<completed, drainedIds, held, wpc>> /\ nextTaskId' = nextTaskId + 1
        /\ callbacks' = Append(callbacks, 0)
    BY <1>2 DEF SubmitRoom, SubmitDropOldest, Accept
  <2>2. Called' = Called
    BY <2>1 DEF Called, Recording
  <2>3. nextTaskId \notin TaskIds /\ TaskIds' = TaskIds \cup {nextTaskId} /\ TaskIds = 1 .. nextTaskId - 1
    BY <2>1, TaskIdsFacts DEF TaskIds
  <2>4. nextTaskId \notin Called
    <3>1. Recording \subseteq BusyWorkers
      BY DEF Recording, BusyWorkers, Busy
    <3>2. Called \subseteq TaskIds
      BY <3>1 DEF Called, Places, HeldIds
    <3> QED
      BY <2>3, <3>2
  <2>5. /\ callbacks \in Seq(Nat) /\ Len(callbacks) = nextTaskId - 1 /\ nextTaskId \in Nat \ {0}
    BY DEF DataTypes, CallbackCounts
  <2>6. /\ Len(callbacks') = nextTaskId /\ callbacks'[nextTaskId] = 0
        /\ \A i \in 1 .. nextTaskId - 1 : callbacks'[i] = callbacks[i]
    BY <2>1, <2>5
  <2>7. \A id \in TaskIds' : callbacks'[id] = IF id \in Called THEN 1 ELSE 0
    BY <2>3, <2>4, <2>6 DEF CallbackCounts
  <2>8. Len(callbacks') = nextTaskId' - 1
    BY <2>1, <2>5, <2>6
  <2> QED
    BY <2>2, <2>7, <2>8 DEF CallbackCounts
<1>3. ASSUME NEW max \in 0 .. 1, NEW cancel \in BOOLEAN, RunReady(c, max, cancel) PROVE CallbackCounts'
  <2> DEFINE n == completion_limit(max, Len(completed))
  <2>1. n \in 0 .. Len(completed)
    <3>1. Len(completed) \in Nat /\ max \in Nat
      BY DEF DataTypes
    <3>2. completion_limit(max, Len(completed)) \in 0 .. Len(completed)
      BY <3>1, CompletionLimitBound, Zenon
    <3> QED
      BY <3>2
  <2>2. /\ completed' = SubSeq(completed, n + 1, Len(completed))
        /\ drainedIds' = drainedIds \cup IdsIn(SubSeq(completed, 1, n))
        /\ UNCHANGED <<nextTaskId, held, callbacks>> /\ (wpc' = wpc \/ wpc' = WakeWorkers(wpc))
    BY <1>3 DEF RunReady
  <2> HIDE DEF n
  <2>3. ItemsOf(SubSeq(completed, 1, n)) \cup ItemsOf(completed') = ItemsOf(completed)
    BY <2>1, <2>2, ItemsSplit DEF DataTypes, Order
  <2>4. Called' = Called
    BY <1>0, <2>2, <2>3, IdsAreItems DEF Called
  <2> QED
    BY <2>2, <2>4, CalledKept
<1>4. CASE CancelPending(c) \/ ShutdownBegin(c)
  <2>1. UNCHANGED <<completed, drainedIds, nextTaskId, held, callbacks>> /\ (wpc' = wpc \/ wpc' = WakeWorkers(wpc))
    BY <1>4 DEF CancelPending, ShutdownBegin
  <2> QED
    BY <1>0, <2>1, CalledKept DEF Called
<1> QED
  BY <1>1, <1>2, <1>3, <1>4 DEF ClientCall

LEMMA CallbacksWorker ==
    ASSUME DataTypes, Places, Order, CallbackCounts, NEW w \in Workers, WorkerStep(w) \/ WorkerSpuriousWake(w)
    PROVE  CallbackCounts'
<1> USE DEF queues, workerVars, history
<1>0. wpc \in [Workers -> WorkerStates] /\ held \in [Workers -> Nat] /\ completed \in Seq(Nat)
  BY DEF DataTypes
<1>1. CASE WorkerSleep(w) \/ WorkerSpuriousWake(w) \/ WorkerExit(w)
  <2>1. UNCHANGED <<completed, drainedIds, nextTaskId, held, callbacks>> /\ Recording' = Recording
    BY <1>0, <1>1 DEF WorkerSleep, WorkerSpuriousWake, WorkerExit, Recording
  <2> QED
    BY <2>1, CalledKept DEF Called
<1>2. CASE WorkerTake(w)
  <2>1. /\ UNCHANGED <<completed, drainedIds, nextTaskId, callbacks>> /\ Recording' = Recording
        /\ \A v \in Recording : held'[v] = held[v]
    BY <1>0, <1>2 DEF WorkerTake, Recording
  <2> QED
    BY <2>1, CalledKept DEF Called
<1>3. ASSUME NEW ok \in BOOLEAN, WorkerExecute(w, ok) PROVE CallbackCounts'
  <2>1. UNCHANGED <<completed, drainedIds, nextTaskId, held, callbacks>> /\ Recording' = Recording
    BY <1>0, <1>3 DEF WorkerExecute, Recording
  <2> QED
    BY <2>1, CalledKept DEF Called
<1>4. CASE WorkerCallback(w)
  <2>1. /\ UNCHANGED <<completed, drainedIds, nextTaskId, held>> /\ wpc[w] = "callback"
        /\ callbacks' = [callbacks EXCEPT ![held[w]] = @ + 1] /\ Recording' = Recording \cup {w}
    BY <1>0, <1>4 DEF WorkerCallback, Recording
  <2>2. Called' = Called \cup {held[w]}
    BY <2>1 DEF Called
  <2>3. held[w] \in TaskIds /\ held[w] \notin Called
    BY <2>1, NotYetCalled
  <2>4. callbacks \in Seq(Nat) /\ Len(callbacks) = nextTaskId - 1 /\ TaskIds = 1 .. nextTaskId - 1
    BY DEF DataTypes, CallbackCounts, TaskIds
  <2>5. /\ Len(callbacks') = Len(callbacks)
        /\ \A id \in TaskIds : callbacks'[id] = IF id = held[w] THEN callbacks[id] + 1 ELSE callbacks[id]
    <3>1. DOMAIN callbacks = TaskIds
      BY <2>4
    <3>2. \A id \in TaskIds : callbacks'[id] = IF id = held[w] THEN callbacks[id] + 1 ELSE callbacks[id]
      BY <2>1, <3>1
    <3>3. callbacks' \in Seq(Nat) /\ DOMAIN callbacks' = DOMAIN callbacks
      BY <2>1, <2>4, BumpedSeq
    <3> QED
      BY <2>4, <3>2, <3>3
  <2>6. \A id \in TaskIds : callbacks'[id] = IF id \in Called' THEN 1 ELSE 0
    BY <2>2, <2>3, <2>5 DEF CallbackCounts
  <2> QED
    BY <2>1, <2>4, <2>5, <2>6 DEF CallbackCounts, TaskIds
<1>5. CASE WorkerRecord(w)
  <2>1. /\ UNCHANGED <<drainedIds, nextTaskId, callbacks>> /\ completed' = Append(completed, held[w])
        /\ w \in Recording /\ Recording' = Recording \ {w} /\ held[w] \in Nat
        /\ \A v \in Recording' : held'[v] = held[v]
    BY <1>0, <1>5 DEF WorkerRecord, Recording
  <2>2. IdsIn(completed') = IdsIn(completed) \cup {held[w]}
    <3>1. ItemsOf(Append(completed, held[w])) = ItemsOf(completed) \cup {held[w]}
      BY <1>0, <2>1, ItemsAppend
    <3> QED
      BY <2>1, <3>1, IdsAreItems
  <2>3. Called' = Called
    BY <2>1, <2>2 DEF Called
  <2> QED
    BY <2>1, <2>3, CalledKept
<1>6. CASE WorkerNotify(w)
  <2>1. UNCHANGED <<completed, drainedIds, nextTaskId, held, callbacks>> /\ wpc[w] = "notify"
    BY <1>6 DEF WorkerNotify
  <2>2. \A v \in Workers : wpc'[v] = IF v = w THEN "check" ELSE IF wpc[v] = "asleep" THEN "check" ELSE wpc[v]
    BY <1>6 DEF WorkerNotify, WakeWorkers
  <2>3. Recording' = Recording
    BY <2>1, <2>2 DEF Recording
  <2> QED
    BY <2>1, <2>3, CalledKept DEF Called
<1> QED
  BY <1>1, <1>2, <1>3, <1>4, <1>5, <1>6 DEF WorkerStep

LEMMA CallbacksStep == DataTypes /\ Places /\ Order /\ CallbackCounts /\ [Next]_vars => CallbackCounts'
<1> SUFFICES ASSUME DataTypes, Places, Order, CallbackCounts, [Next]_vars PROVE CallbackCounts'
  OBVIOUS
<1> USE DEF queues, workerVars, history
<1>1. ASSUME NEW c \in Clients, ClientStep(c) PROVE CallbackCounts'
  <2>1. UNCHANGED <<completed, nextTaskId, drainedIds, held, callbacks>>
    BY <1>1 DEF ClientStep, NotifyOne, ShutdownNotify, ShutdownJoin, WaitRecheck, WaitTimeout
  <2>2. Recording' = Recording
    BY <1>1 DEF ClientStep, NotifyOne, ShutdownNotify, ShutdownJoin, WaitRecheck, WaitTimeout,
      WakeWorkers, Recording, DataTypes
  <2> QED
    BY <2>1, <2>2, CalledKept DEF Called
<1>2. CASE UNCHANGED vars
  BY <1>2, CalledKept DEF vars, Called, Recording
<1> QED
  BY <1>1, <1>2, CallbacksCall, CallbacksWorker DEF Next

LEMMA CallbacksInit == Init => CallbackCounts
BY DEF Init, CallbackCounts, TaskIds

SettleInv == TypeOK /\ Places /\ Order /\ CallbackCounts

LEMMA SettleInit == Init => SettleInv
BY TypeInit, PlacesInit, CallbacksInit DEF SettleInv

LEMMA SettleStep == SettleInv /\ [Next]_vars => SettleInv'
BY TypeStep, PlacesStep, CallbacksStep DEF SettleInv, TypeOK

\* As many tasks wait, run and have records as the queues and the workers say.
PlaceCounts ==
    /\ Cardinality(IdsIn(pending)) = Len(pending)
    /\ Cardinality(IdsIn(completed)) = Len(completed)
    /\ Cardinality(HeldIds) = Cardinality(BusyWorkers)

LEMMA CountsOfPlaces == DataTypes /\ Order => PlaceCounts
<1> SUFFICES ASSUME DataTypes, Order PROVE PlaceCounts
  OBVIOUS
<1>1. NoRepeats(pending) /\ pending \in Seq(Nat) /\ completed \in Seq(Nat) /\ NoRepeats(completed)
  BY AscendingFacts DEF DataTypes, Order
<1>2. Cardinality(IdsIn(pending)) = Len(pending) /\ Cardinality(IdsIn(completed)) = Len(completed)
  BY <1>1, ItemsCount, IdsAreItems
<1> DEFINE Tasks == [w \in BusyWorkers |-> held[w]]
<1>3. Tasks \in Surjection(BusyWorkers, HeldIds)
  BY DEF Surjection, HeldIds
<1>4. Tasks \in Injection(BusyWorkers, HeldIds)
  BY DEF Injection, IsInjective, HeldIds, Order
<1>5. IsFiniteSet(BusyWorkers)
  BY ExecutorAssumption, FS_Subset DEF BusyWorkers
<1> HIDE DEF Tasks
<1>6. Cardinality(HeldIds) = Cardinality(BusyWorkers)
  BY <1>3, <1>4, <1>5, FS_Surjection
<1> QED
  BY <1>2, <1>6 DEF PlaceCounts

\* For every number of workers and clients and any number of calls, an accepted task is
\* settled once: submit(), run_ready(), cancel_pending(), shutdown() and the two critical
\* sections of worker_loop move it from one place to another and never copy or lose it, and
\* its callback has run once when its record is there and never when it was cancelled.
THEOREM TasksAreSettledOnce == Spec => []TasksSettleOnce
<1>1. SettleInv => TasksSettleOnce
  <2> SUFFICES ASSUME SettleInv PROVE TasksSettleOnce
    OBVIOUS
  <2>0. DataTypes /\ Places /\ Order /\ CallbackCounts
    BY DEF SettleInv, TypeOK
  <2> DEFINE places == <<IdsIn(pending), HeldIds, IdsIn(completed), drainedIds, cancelledIds>>
  <2>1. UNION IdsIn(places) = TaskIds
    <3>1. IdsIn(places) = {IdsIn(pending), HeldIds, IdsIn(completed), drainedIds, cancelledIds}
      <4>1. DOMAIN places = {1, 2, 3, 4, 5}
        OBVIOUS
      <4>2. IdsIn(places) = {places[i] : i \in {1, 2, 3, 4, 5}}
        BY <4>1 DEF IdsIn
      <4>3. /\ places[1] = IdsIn(pending) /\ places[2] = HeldIds /\ places[3] = IdsIn(completed)
            /\ places[4] = drainedIds /\ places[5] = cancelledIds
        OBVIOUS
      <4> HIDE DEF places
      <4> QED
        BY <4>2, <4>3
    <3> QED
      BY <2>0, <3>1 DEF Places
  <2>2. \A i, j \in DOMAIN places : i # j => places[i] \cap places[j] = {}
    BY <2>0 DEF Places
  <2>3. EveryTaskInOnePlace
    BY <2>0, <2>1, <2>2, CountsOfPlaces DEF EveryTaskInOnePlace, PlaceCounts
  <2>4. CallbackExactlyOnce
    <3>1. ASSUME NEW id \in TaskIds
          PROVE  id \in Called <=> \/ id \in IdsIn(completed) \cup drainedIds
                                   \/ \E w \in Workers : wpc[w] = "record" /\ held[w] = id
      BY DEF Called, Recording
    <3> QED
      BY <2>0, <3>1 DEF CallbackExactlyOnce, CallbackCounts
  <2> QED
    BY <2>3, <2>4 DEF TasksSettleOnce
<1> QED
  BY <1>1, SettleInit, SettleStep, PTL DEF Spec

-----------------------------------------------------------------------------
(* After the join.                                                         *)

JoinedMeansExited == joined => \A w \in Workers : wpc[w] = "exited"

\* A worker that left its loop does nothing more.
LEMMA ExitedStay ==
    ASSUME DataTypes, [Next]_vars, NEW x \in Workers, wpc[x] = "exited"
    PROVE  wpc'[x] = "exited"
<1> USE DEF queues, workerVars, history
<1>0. wpc \in [Workers -> WorkerStates]
  BY DEF DataTypes
<1>1. ASSUME NEW c \in Clients, ClientCall(c) PROVE wpc'[x] = "exited"
  <2>1. wpc' = wpc \/ wpc' = WakeWorkers(wpc)
    BY <1>1 DEF ClientCall, SubmitEmpty, SubmitStopping, SubmitFull, SubmitRejected, SubmitRoom,
      SubmitDropOldest, Accept, RunReady, CancelPending, ShutdownAgain, ShutdownBegin, WaitForIdle
  <2> QED
    BY <2>1 DEF WakeWorkers
<1>2. ASSUME NEW c \in Clients, ClientStep(c) PROVE wpc'[x] = "exited"
  BY <1>0, <1>2 DEF ClientStep, NotifyOne, ShutdownNotify, ShutdownJoin, WaitRecheck, WaitTimeout, WakeWorkers
<1>3. ASSUME NEW w \in Workers, WorkerStep(w) \/ WorkerSpuriousWake(w) PROVE wpc'[x] = "exited"
  <2>1. CASE WorkerNotify(w)
    BY <1>0, <2>1 DEF WorkerNotify, WakeWorkers
  <2>2. CASE ~WorkerNotify(w)
    BY <1>0, <1>3, <2>2 DEF WorkerStep, WorkerSpuriousWake, WorkerSleep, WorkerExit, WorkerTake,
      WorkerExecute, WorkerCallback, WorkerRecord
  <2> QED
    BY <2>1, <2>2
<1>4. CASE UNCHANGED vars
  BY <1>4 DEF vars
<1> QED
  BY <1>1, <1>2, <1>3, <1>4 DEF Next

LEMMA JoinedStep == DataTypes /\ JoinedMeansExited /\ [Next]_vars => JoinedMeansExited'
<1> SUFFICES ASSUME DataTypes, JoinedMeansExited, [Next]_vars PROVE JoinedMeansExited'
  OBVIOUS
<1> USE DEF history
<1>1. joined' = joined \/ \E c \in Clients : ShutdownJoin(c)
  <2>1. ASSUME NEW c \in Clients, ClientCall(c) PROVE joined' = joined
    BY <2>1 DEF ClientCall, SubmitEmpty, SubmitStopping, SubmitFull, SubmitRejected, SubmitRoom,
      SubmitDropOldest, Accept, RunReady, CancelPending, ShutdownAgain, ShutdownBegin, WaitForIdle
  <2>2. ASSUME NEW c \in Clients, ClientStep(c), ~ShutdownJoin(c) PROVE joined' = joined
    BY <2>2 DEF ClientStep, NotifyOne, ShutdownNotify, WaitRecheck, WaitTimeout
  <2>3. ASSUME NEW w \in Workers, WorkerStep(w) \/ WorkerSpuriousWake(w) PROVE joined' = joined
    BY <2>3 DEF WorkerStep, WorkerSpuriousWake, WorkerSleep, WorkerExit, WorkerTake, WorkerExecute,
      WorkerCallback, WorkerRecord, WorkerNotify
  <2>4. CASE UNCHANGED vars
    BY <2>4 DEF vars
  <2> QED
    BY <2>1, <2>2, <2>3, <2>4 DEF Next
<1>2. CASE joined' = joined
  BY <1>2, ExitedStay DEF JoinedMeansExited
<1>3. CASE \E c \in Clients : ShutdownJoin(c)
  BY <1>3 DEF ShutdownJoin, JoinedMeansExited, workerVars
<1> QED
  BY <1>1, <1>2, <1>3

\* For every number of threads: when the shutdown() that owns the threads has joined them,
\* no worker can touch the executor, and every accepted task is settled, under both
\* shutdown policies.
THEOREM JoinedIsSettled == Spec => []JoinedMeansSettled
<1> DEFINE Inv == SettleInv /\ ExitedMeansDrained /\ JoinedMeansExited
<1>1. Init => Inv
  BY SettleInit, WakeupsInit DEF Wakeups, Init, JoinedMeansExited
<1>2. Inv /\ [Next]_vars => Inv'
  BY SettleStep, ExitedStep, JoinedStep DEF SettleInv, TypeOK
<1>3. Inv => JoinedMeansSettled
  <2> SUFFICES ASSUME Inv, joined PROVE JoinedMeansSettled
    BY DEF JoinedMeansSettled
  <2>1. \A w \in Workers : wpc[w] = "exited"
    BY DEF JoinedMeansExited
  <2>2. HeldIds = {}
    BY <2>1 DEF HeldIds, BusyWorkers, Busy
  <2>3. pending = <<>>
    BY <2>1, ExecutorAssumption DEF ExitedMeansDrained
  <2>4. IdsIn(pending) = {}
    BY <2>3 DEF IdsIn
  <2> QED
    BY <2>1, <2>2, <2>4 DEF JoinedMeansSettled, SettleInv, Places
<1> QED
  BY <1>1, <1>2, <1>3, PTL DEF Spec

-----------------------------------------------------------------------------
(* The executor implements the bounded pool: every step changes the places *)
(* of the tasks as one operation of the pool does, or not at all.          *)

PoolInv == SettleInv /\ Bounds

LEMMA PoolInvStep == PoolInv /\ [Next]_vars => PoolInv'
BY SettleStep, BoundsStep DEF PoolInv, SettleInv, TypeOK

\* The pool counts as the executor does.
LEMMA SameCardinality == \A S : Pool!Cardinality(S) = Cardinality(S)
BY Zenon DEF Pool!Cardinality, Cardinality

LEMMA AdmitImplements ==
    ASSUME PoolInv, PoolInv', Admits
    PROVE  Pool!Admit
<1>0. DataTypes /\ Order /\ DataTypes' /\ Order'
  BY DEF PoolInv, SettleInv, TypeOK
<1>1. PlaceCounts /\ PlaceCounts'
  BY <1>0, CountsOfPlaces, PTL
<1>2. /\ completed' = completed /\ HeldIds' = HeldIds /\ drainedIds' = drainedIds
      /\ stopping' = stopping /\ ~stopping /\ nextTaskId' = nextTaskId + 1 /\ BusyWorkers' = BusyWorkers
  BY DEF Admits, HeldIds
<1>3. pending \in Seq(Nat) /\ nextTaskId \in Nat
  BY <1>0 DEF DataTypes
<1>4. Cardinality(IdsIn(pending')) + Cardinality(HeldIds) + Cardinality(IdsIn(completed)) <= Capacity
  <2>1. Cardinality(IdsIn(pending')) = Len(pending') /\ Cardinality(IdsIn(completed)) = Len(completed)
        /\ Cardinality(HeldIds) = Cardinality(BusyWorkers)
    BY <1>1 DEF PlaceCounts
  <2>2. Cardinality(BusyWorkers) = active'
    BY <1>2 DEF PoolInv, Bounds, ConcurrencyBound
  <2>3. Len(pending') + active' + Len(completed) <= maxOutstanding' /\ maxOutstanding' <= Capacity
    BY <1>2 DEF PoolInv, Bounds, AdmissionBound, Outstanding, Inflight
  <2>4. Len(pending') \in Nat /\ active' \in Nat /\ Len(completed) \in Nat /\ maxOutstanding' \in Nat /\ Capacity \in Nat
    <3>1. pending' \in Seq(Nat) /\ active' \in Nat /\ maxOutstanding' \in Nat
      BY <1>0 DEF DataTypes
    <3>2. completed \in Seq(Nat)
      BY <1>0 DEF DataTypes
    <3> QED
      BY <3>1, <3>2, LimitsType
  <2>5. Len(pending') + active' + Len(completed) <= Capacity
    BY <2>3, <2>4
  <2> QED
    BY <2>1, <2>2, <2>5
<1>5. \E dropped \in {{}} \cup {{id} : id \in {i \in IdsIn(pending) : Pool!Oldest(i, IdsIn(pending))}} :
          /\ IdsIn(pending') = (IdsIn(pending) \ dropped) \cup {nextTaskId}
          /\ cancelledIds' = cancelledIds \cup dropped
  <2>1. CASE pending' = Append(pending, nextTaskId) /\ cancelledIds' = cancelledIds
    <3>1. IdsIn(pending') = (IdsIn(pending) \ {}) \cup {nextTaskId}
      BY <1>3, <2>1, ItemsAppend, IdsAreItems
    <3>2. cancelledIds' = cancelledIds \cup {}
      BY <2>1
    <3> QED
      BY <3>1, <3>2
  <2>2. CASE /\ pending # <<>> /\ pending' = Append(Tail(pending), nextTaskId)
             /\ cancelledIds' = cancelledIds \cup {Head(pending)}
    <3>1. Tail(pending) \in Seq(Nat) /\ Head(pending) = pending[1]
      BY <1>3, <2>2, TailFacts
    <3>2. NoRepeats(pending) /\ \A x \in ItemsOf(pending) : pending[1] <= x
      BY <1>0, <1>3, <2>2, AscendingFacts DEF Order
    <3>3. ItemsOf(Tail(pending)) = ItemsOf(pending) \ {pending[1]} /\ pending[1] \in ItemsOf(pending)
      BY <1>3, <2>2, <3>2, ItemsTail
    <3>4. ItemsOf(Append(Tail(pending), nextTaskId)) = ItemsOf(Tail(pending)) \cup {nextTaskId}
      <4> DEFINE rest == Tail(pending)
      <4>1. rest \in Seq(Nat)
        BY <3>1
      <4> HIDE DEF rest
      <4>2. ItemsOf(Append(rest, nextTaskId)) = ItemsOf(rest) \cup {nextTaskId}
        BY <1>3, <4>1, ItemsAppend
      <4> QED
        BY <4>2 DEF rest
    <3>5. IdsIn(pending') = (IdsIn(pending) \ {Head(pending)}) \cup {nextTaskId}
      BY <2>2, <3>1, <3>3, <3>4, IdsAreItems
    <3>6. Head(pending) \in IdsIn(pending) /\ Pool!Oldest(Head(pending), IdsIn(pending))
      BY <3>1, <3>2, <3>3, IdsAreItems DEF Pool!Oldest
    <3> QED
      BY <2>2, <3>5, <3>6
  <2> QED
    BY <2>1, <2>2 DEF Admits
<1>6. Pool!Cardinality(IdsIn(pending')) + Pool!Cardinality(HeldIds) + Pool!Cardinality(IdsIn(completed)) <= Capacity
  BY <1>4, SameCardinality
<1>7. UNCHANGED <<HeldIds, IdsIn(completed), drainedIds, stopping>>
  BY <1>2
<1>8. IdsIn(pending)' = IdsIn(pending')
  BY DEF IdsIn
<1> QED
  BY <1>2, <1>5, <1>6, <1>7, <1>8 DEF Pool!Admit

LEMMA TakeImplements ==
    ASSUME PoolInv, PoolInv', NEW w \in Workers, Takes(w)
    PROVE  Pool!Start
<1>0. DataTypes /\ Order /\ Places
  BY DEF PoolInv, SettleInv, TypeOK
<1>1. /\ HeldIds' = HeldIds \cup {Head(pending)} /\ IdsIn(pending') = IdsIn(pending) \ {Head(pending)}
      /\ Head(pending) \in IdsIn(pending) /\ \A id \in IdsIn(pending) : Head(pending) <= id
  BY <1>0, TakePlaces
<1>2. Cardinality(HeldIds) < InflightLimit
  <2>1. Cardinality(HeldIds) = Cardinality(BusyWorkers)
    BY <1>0, CountsOfPlaces DEF PlaceCounts
  <2>2. IsFiniteSet(BusyWorkers)
    BY ExecutorAssumption, FS_Subset DEF BusyWorkers
  <2>3. Cardinality(BusyWorkers') = Cardinality(BusyWorkers) + 1 /\ Cardinality(BusyWorkers) \in Nat
    BY <2>2, FS_AddElement, FS_CardinalityType DEF Takes
  <2>4. Cardinality(BusyWorkers') <= InflightLimit
    BY DEF PoolInv, Bounds, ConcurrencyBound
  <2> QED
    BY <2>1, <2>3, <2>4, LimitsType
<1>3. Pool!Oldest(Head(pending), IdsIn(pending))
  BY <1>1 DEF Pool!Oldest
<1>4. UNCHANGED <<nextTaskId, IdsIn(completed), drainedIds, cancelledIds, stopping>>
  BY DEF Takes, IdsIn
<1>5. Pool!Cardinality(HeldIds) < InflightLimit
  BY <1>2, SameCardinality
<1> QED
  BY <1>1, <1>3, <1>4, <1>5 DEF Pool!Start

LEMMA PublishImplements ==
    ASSUME PoolInv, NEW w \in Workers, Publishes(w)
    PROVE  Pool!Finish
<1>0. DataTypes /\ Order /\ Places
  BY DEF PoolInv, SettleInv, TypeOK
<1>1. /\ HeldIds' = HeldIds \ {held[w]} /\ held[w] \in HeldIds
      /\ IdsIn(completed') = IdsIn(completed) \cup {held[w]}
  BY <1>0, PublishPlaces
<1>2. UNCHANGED <<nextTaskId, IdsIn(pending), drainedIds, cancelledIds, stopping>>
  BY DEF Publishes, IdsIn
<1> QED
  BY <1>1, <1>2 DEF Pool!Finish

LEMMA HandImplements ==
    ASSUME PoolInv, PoolInv', Hands
    PROVE  Pool!Collect \/ Pool!Close
<1>0. DataTypes /\ Order /\ Places
  BY DEF PoolInv, SettleInv, TypeOK
<1>1. /\ HeldIds' = HeldIds /\ nextTaskId' = nextTaskId
      /\ \E taken \in SUBSET IdsIn(completed) :
            IdsIn(completed') = IdsIn(completed) \ taken /\ drainedIds' = drainedIds \cup taken
  BY <1>0, HandPlaces DEF Hands
<1>2. \/ IdsIn(pending') = IdsIn(pending) /\ cancelledIds' = cancelledIds
      \/ IdsIn(pending') = {} /\ cancelledIds' = cancelledIds \cup IdsIn(pending)
  BY DEF Hands, IdsIn
<1>3. CASE stopping' = stopping
  BY <1>1, <1>2, <1>3 DEF Pool!Collect
<1>4. CASE stopping' /\ UNCHANGED <<completed, drainedIds>>
  <2>1. stopping' = TRUE
    BY <1>4, Zenon DEF PoolInv, SettleInv, TypeOK, FlagTypes
  <2> QED
    BY <1>1, <1>2, <1>4, <2>1 DEF Pool!Close
<1> QED
  BY <1>3, <1>4 DEF Hands

\* For every number of workers and clients, the executor with its threads, its mutex and its
\* two condition variables behaves as the bounded pool of BoundedTaskPool: tasks start in
\* the order of admission and within the limits, run at most once, and a record is kept
\* until it is drained.
THEOREM ExecutorImplementsPool == Spec => ImplementsPool
<1>1. Init => PoolInv /\ Pool!Init
  <2> SUFFICES ASSUME Init PROVE PoolInv /\ Pool!Init
    OBVIOUS
  <2>1. PoolInv
    BY SettleInit, BoundsInit DEF PoolInv
  <2>2. HeldIds = {} /\ IdsIn(pending) = {} /\ IdsIn(completed) = {}
    BY DEF Init, HeldIds, BusyWorkers, Busy, IdsIn
  <2> QED
    BY <2>1, <2>2 DEF Init, Pool!Init
<1>2. PoolInv /\ PoolInv' /\ [Next]_vars => [Pool!Next]_(Pool!vars)
  <2> SUFFICES ASSUME PoolInv, PoolInv', [Next]_vars PROVE [Pool!Next]_(Pool!vars)
    OBVIOUS
  <2>1. Rests \/ Admits \/ Hands \/ \E w \in Workers : Takes(w) \/ Publishes(w)
    BY StepKinds DEF PoolInv, SettleInv, TypeOK
  <2>2. CASE Rests
    BY <2>2 DEF Rests, Pool!vars, HeldIds, IdsIn
  <2>3. CASE Admits
    BY <2>3, AdmitImplements DEF Pool!Next
  <2>4. CASE Hands
    BY <2>4, HandImplements DEF Pool!Next
  <2>5. ASSUME NEW w \in Workers, Takes(w) PROVE Pool!Next
    BY <2>5, TakeImplements DEF Pool!Next
  <2>6. ASSUME NEW w \in Workers, Publishes(w) PROVE Pool!Next
    BY <2>6, PublishImplements DEF Pool!Next
  <2> QED
    BY <2>1, <2>2, <2>3, <2>4, <2>5, <2>6
<1> QED
  BY <1>1, <1>2, PoolInvStep, PTL DEF Spec, ImplementsPool, Pool!Spec
=============================================================================
