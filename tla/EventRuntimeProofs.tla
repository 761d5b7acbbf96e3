------------------------- MODULE EventRuntimeProofs -------------------------
(***************************************************************************)
(* Proofs about EventRuntime, for every plan and every run options, every  *)
(* number of workers and of invocations.                                   *)
(***************************************************************************)
EXTENDS EventRuntime, CollectionLemmas, TLAPS

(* The shape of the state.                                                 *)

Invocations == [id : Nat \ {0}, component : Nat \ {0}, epoch : Nat \ {0}, loop : BOOLEAN]

Busy == {w \in Workers : worker[w] = "busy"}

\* Where the runtime thread is, the position is in the plan.
InPlan ==
    /\ region \in 1 .. Len(Regions) + 1 /\ at \in Nat \ {0}
    /\ pc \in {"component", "inline", "pool", "submit", "drain", "iterated"} => region \in 1 .. Len(Regions)
    /\ pc \in {"inline", "pool", "submit", "drain"} => at \in 1 .. Len(Region.components)

\* What the runtime thread has to execute or to submit, and what the workers hold.
Work ==
    /\ made \in Nat
    /\ todo \in Seq(Invocations) /\ queue \in Seq(Invocations)
    /\ pc \in {"inline", "pool", "submit"} => todo # <<>>
    /\ worker \in [Workers -> {"idle", "asleep", "busy", "gone"}]
    /\ job \in [Workers -> Invocations \cup {NoInvocation}]
    /\ \A w \in Busy : job[w] \in Invocations

Shape == setup \in Setups /\ iterations \in Nat /\ InPlan /\ Work

\* Nothing is of an epoch after the one that `done' epochs precede, and between epochs
\* nothing is of the coming one.
PastAt(epoch, done, place) == epoch <= done + 1 /\ (place = "boundary" => epoch < done + 1)

Values == [epoch : Nat, writer : Nat]

PastWork ==
    /\ \A i \in 1 .. Len(todo) : PastAt(todo[i].epoch, iterations, pc)
    /\ \A i \in 1 .. Len(queue) : PastAt(queue[i].epoch, iterations, pc)
    /\ \A w \in Busy : PastAt(job[w].epoch, iterations, pc)

\* A value of a key is its writer's, and none is of the epoch that is to come.
Entries ==
    /\ state \in [Keys -> [current : Values, pending : Values, writer : Nat]]
    /\ \A k \in Keys :
         /\ PastAt(state[k].pending.epoch, iterations, pc)
         /\ state[k].current.epoch < iterations + 1
         /\ state[k].current # NoValue => state[k].writer # 0 /\ state[k].current.writer = state[k].writer
         /\ state[k].pending # NoValue => state[k].writer # 0 /\ state[k].pending.writer = state[k].writer

SnapshotInv == Shape /\ PastWork /\ Entries

-----------------------------------------------------------------------------
(* The plan and the invocations admitted.                                  *)

LEMMA SetupFacts ==
    ASSUME setup \in Setups
    PROVE  /\ Len(Regions) \in Nat /\ DOMAIN Regions = 1 .. Len(Regions)
           /\ \A i \in 1 .. Len(Regions) :
                /\ Regions[i].components \in Seq(Nat \ {0})
                /\ Regions[i].loop \in Loops \cup {NoLoop}
           /\ setup.queue_capacity \in Nat /\ setup.iterations \in Nat /\ setup.ready \in Nat
           /\ setup.durations \subseteq Nat
<1> DEFINE R == [components : Seq(Nat \ {0}), loop : Loops \cup {NoLoop}]
<1>1. /\ setup.regions \in Seq(R)
      /\ setup.queue_capacity \in Nat /\ setup.iterations \in Nat /\ setup.ready \in Nat
      /\ setup.durations \subseteq Nat
  BY RuntimeAssumption
<1>2. \A i \in 1 .. Len(setup.regions) : setup.regions[i] \in R
  <2> HIDE DEF R
  <2> QED
    BY <1>1, ElementOfSeq
<1>3. DOMAIN setup.regions = 1 .. Len(setup.regions) /\ Len(setup.regions) \in Nat
  <2> HIDE DEF R
  <2> QED
    BY <1>1, LenProperties
<1> QED
  BY <1>1, <1>2, <1>3 DEF Regions

\* The workers of the lane can take at least one invocation.
LEMMA Capacity ==
    ASSUME setup \in Setups
    PROVE  /\ ActiveCapacity \in Nat \ {0}
           /\ \A n \in Nat : AdmissionCapacity(n) \in Nat \ {0}
           /\ setup.queue_capacity > 0 =>
                \A n \in Nat : AdmissionCapacity(n) = ActiveCapacity + setup.queue_capacity
<1>1. Cardinality(Workers) \in Nat /\ Cardinality(Workers) # 0
  BY RuntimeAssumption, FS_CardinalityType, FS_EmptySet
<1>2. ActiveCapacity \in Nat \ {0}
  BY <1>1 DEF ActiveCapacity
<1>3. setup.queue_capacity \in Nat
  BY SetupFacts
<1>4. ASSUME NEW n \in Nat PROVE QueueCapacity(n) \in Nat
  BY <1>2, <1>3 DEF QueueCapacity
<1>5. setup.queue_capacity > 0 => \A n \in Nat : QueueCapacity(n) = setup.queue_capacity
  BY DEF QueueCapacity
<1> QED
  BY <1>2, <1>4, <1>5 DEF AdmissionCapacity

\* Sequence s is the stretch of t that begins after the first `shift' places.
StretchOf(s, t, shift) == \A i \in 1 .. Len(s) : i + shift \in 1 .. Len(t) /\ s[i] = t[i + shift]

\* Of the invocations that are ready a part is admitted: a stretch of them, not empty and
\* within the capacity of the lane.
LEMMA AdmittedFacts ==
    ASSUME setup \in Setups, NEW ready \in Nat, NEW fresh \in Seq(Invocations), Len(fresh) = ready
    PROVE  /\ Admitted(fresh) \in Seq(Invocations)
           /\ Len(Admitted(fresh)) <= ready
           /\ ready > 0 => Len(Admitted(fresh)) > 0
           /\ Pooled => Len(Admitted(fresh)) <= AdmissionCapacity(ready)
           /\ \E shift \in Nat : StretchOf(Admitted(fresh), fresh, shift)
<1> DEFINE capacity == AdmissionCapacity(ready)
           over == ready - capacity
<1>1. capacity \in Nat \ {0}
  BY Capacity
<1>2. Admitted(fresh) = IF ~Pooled \/ over <= 0 THEN fresh
                        ELSE IF setup.overflow = "drop_oldest" THEN SubSeq(fresh, over + 1, ready)
                        ELSE SubSeq(fresh, 1, capacity)
  <2>1. ready - over = capacity
    BY <1>1
  <2> QED
    BY <2>1 DEF Admitted
<1> HIDE DEF capacity
<1>3. CASE ~Pooled \/ over <= 0
  <2>1. Admitted(fresh) = fresh
    BY <1>2, <1>3
  <2>2. \A i \in 1 .. ready : i + 0 \in 1 .. ready /\ fresh[i] = fresh[i + 0]
    OBVIOUS
  <2>3. Pooled => ready <= capacity
    BY <1>1, <1>3
  <2>4. StretchOf(Admitted(fresh), fresh, 0)
    BY <2>1, <2>2 DEF StretchOf
  <2> QED
    BY <2>1, <2>3, <2>4 DEF capacity
<1>4. CASE Pooled /\ over > 0 /\ setup.overflow = "drop_oldest"
  <2>1. Admitted(fresh) = SubSeq(fresh, over + 1, ready) /\ over \in Nat /\ over < ready
    BY <1>1, <1>2, <1>4
  <2> HIDE DEF over
  <2>2. /\ SubSeq(fresh, over + 1, ready) \in Seq(Invocations)
        /\ Len(SubSeq(fresh, over + 1, ready)) = ready - over
        /\ \A i \in 1 .. ready - over : SubSeq(fresh, over + 1, ready)[i] = fresh[i + over]
    BY <2>1
  <2>3. ready - over = capacity
    BY <1>1 DEF over
  <2>4. \A i \in 1 .. ready - over : i + over \in 1 .. ready
    BY <2>1
  <2>5. StretchOf(Admitted(fresh), fresh, over)
    BY <2>1, <2>2, <2>4 DEF StretchOf
  <2>6. ready - over > 0 /\ ready - over <= ready
    BY <2>1
  <2> QED
    BY <1>1, <2>1, <2>2, <2>3, <2>5, <2>6 DEF capacity
<1>5. CASE Pooled /\ over > 0 /\ setup.overflow # "drop_oldest"
  <2>1. Admitted(fresh) = SubSeq(fresh, 1, capacity) /\ capacity < ready
    BY <1>1, <1>2, <1>5
  <2>2. /\ SubSeq(fresh, 1, capacity) \in Seq(Invocations)
        /\ Len(SubSeq(fresh, 1, capacity)) = capacity
        /\ \A i \in 1 .. capacity : SubSeq(fresh, 1, capacity)[i] = fresh[i + 0]
    BY <1>1, <2>1
  <2>3. \A i \in 1 .. capacity : i + 0 \in 1 .. ready
    BY <1>1, <2>1
  <2>4. StretchOf(Admitted(fresh), fresh, 0)
    BY <2>1, <2>2, <2>3 DEF StretchOf
  <2> QED
    BY <1>1, <2>1, <2>2, <2>4 DEF capacity
<1> QED
  BY <1>1, <1>3, <1>4, <1>5

\* The component at the runtime thread's place is one of the plan.
LEMMA ComponentType ==
    ASSUME Shape, region \in 1 .. Len(Regions), at \in 1 .. Len(Region.components)
    PROVE  Component \in Nat \ {0}
<1>1. Regions[region].components \in Seq(Nat \ {0})
  BY SetupFacts DEF Shape
<1> QED
  BY <1>1, ElementOfSeq DEF Component, Region

\* What the runtime thread has collected.
Fresh(s, ready) ==
    /\ s \in Seq(Invocations) /\ Len(s) <= ready
    /\ ready > 0 => Len(s) > 0
    /\ Pooled => Len(s) <= AdmissionCapacity(ready)
    /\ \A i \in 1 .. Len(s) : s[i].epoch = Epoch /\ s[i].id > made /\ s[i].id <= made + ready
    /\ \A i \in 1 .. Len(s) : s[i].component = Component /\ (s[i].loop <=> InLoop)
    /\ \A i, j \in 1 .. Len(s) : i # j => s[i] # s[j]

LEMMA CollectFacts ==
    ASSUME Shape, NEW ready \in Nat, Collect(ready)
    PROVE  /\ region \in 1 .. Len(Regions) /\ at \in 1 .. Len(Region.components)
           /\ pc = "component" /\ made' = made + ready
           /\ \/ todo' = todo /\ at' = at /\ pc' = "returned"
              \/ Fresh(todo', ready) /\ ready = 0 /\ pc' = "component" /\ at' = at + 1
              \/ Fresh(todo', ready) /\ ready > 0 /\ at' = at /\ pc' = (IF Pooled THEN "pool" ELSE "inline")
<1> DEFINE fresh == [i \in 1 .. ready |-> [id |-> made + i, component |-> Component, epoch |-> Epoch, loop |-> InLoop]]
<1>1. region \in 1 .. Len(Regions) /\ at \in 1 .. Len(Region.components) /\ pc = "component"
  <2>1. pc = "component" /\ at <= Len(Region.components)
    BY DEF Collect
  <2>2. region \in 1 .. Len(Regions) /\ at \in Nat \ {0}
    BY <2>1 DEF Shape, InPlan
  <2>3. Regions[region].components \in Seq(Nat \ {0})
    BY <2>2, SetupFacts DEF Shape
  <2>4. Len(Region.components) \in Nat
    BY <2>3 DEF Region
  <2> QED
    BY <2>1, <2>2, <2>4
<1>2. Component \in Nat \ {0} /\ made \in Nat /\ Epoch \in Nat \ {0} /\ InLoop \in BOOLEAN /\ setup \in Setups
  BY <1>1, ComponentType DEF Shape, Work, Epoch, InLoop
<1>3. fresh \in Seq(Invocations) /\ Len(fresh) = ready
  <2>1. \A i \in 1 .. ready : [id |-> made + i, component |-> Component, epoch |-> Epoch, loop |-> InLoop] \in Invocations
    BY <1>2 DEF Invocations
  <2> HIDE DEF Invocations
  <2> QED
    BY <2>1
<1>4. \A i \in 1 .. ready : fresh[i].id = made + i /\ fresh[i].epoch = Epoch
  OBVIOUS
<1>9. \A i \in 1 .. ready : fresh[i].component = Component /\ (fresh[i].loop <=> InLoop)
  OBVIOUS
<1>5. Fresh(Admitted(fresh), ready)
  <2> HIDE DEF fresh
  <2>1. /\ Admitted(fresh) \in Seq(Invocations)
        /\ Len(Admitted(fresh)) <= ready
        /\ ready > 0 => Len(Admitted(fresh)) > 0
        /\ Pooled => Len(Admitted(fresh)) <= AdmissionCapacity(ready)
        /\ \E shift \in Nat : StretchOf(Admitted(fresh), fresh, shift)
    BY <1>2, <1>3, AdmittedFacts
  <2>2. PICK shift \in Nat : StretchOf(Admitted(fresh), fresh, shift)
    BY <2>1
  <2> DEFINE s == Admitted(fresh)
  <2>3. \A i \in 1 .. Len(s) : i + shift \in 1 .. ready /\ s[i] = fresh[i + shift]
    BY <1>3, <2>2 DEF StretchOf
  <2> HIDE DEF s
  <2>4. Len(s) \in Nat
    BY <2>1 DEF s
  <2>5. \A i \in 1 .. Len(s) : s[i].id = made + (i + shift) /\ s[i].epoch = Epoch
    BY <1>4, <2>3
  <2>6. \A i \in 1 .. Len(s) : s[i].id > made /\ s[i].id <= made + ready
    BY <1>2, <2>3, <2>5
  <2>7. ASSUME NEW i \in 1 .. Len(s), NEW j \in 1 .. Len(s), i # j PROVE s[i] # s[j]
    <3>1. s[i].id = made + (i + shift) /\ s[j].id = made + (j + shift)
      BY <2>5
    <3>2. made + (i + shift) # made + (j + shift)
      BY <1>2, <2>4, <2>7
    <3> QED
      BY <3>1, <3>2
  <2>8. \A i \in 1 .. Len(s) : s[i].component = Component /\ (s[i].loop <=> InLoop)
    BY <1>9, <2>3
  <2> QED
    BY <2>1, <2>5, <2>6, <2>7, <2>8 DEF Fresh, s
<1> HIDE DEF fresh
<1>6. \/ todo' = todo /\ at' = at /\ pc' = "returned"
      \/ todo' = Admitted(fresh) /\ ready = 0 /\ pc' = "component" /\ at' = at + 1
      \/ todo' = Admitted(fresh) /\ ready # 0 /\ at' = at /\ pc' = (IF Pooled THEN "pool" ELSE "inline")
  BY DEF Collect, fresh, GiveUp, Return
<1>7. made' = made + ready
  BY DEF Collect
<1> QED
  BY <1>1, <1>5, <1>6, <1>7

-----------------------------------------------------------------------------
(* The shape is kept.                                                      *)

\* The variables that only the runtime thread's progress changes.
LEMMA ShapeInit == Init => Shape
<1> SUFFICES ASSUME Init PROVE Shape
  OBVIOUS
<1>1. Len(Regions) \in Nat
  BY SetupFacts DEF Init
<1>2. InPlan
  BY <1>1 DEF Init, InPlan
<1>3. Work
  BY DEF Init, Work, Busy
<1> QED
  BY <1>2, <1>3 DEF Shape, Init

\* The work is left as it is by a step that changes neither the invocations nor the workers.
LEMMA WorkKept ==
    ASSUME Work, UNCHANGED <<made, todo, queue, worker, job>>,
           pc' \in {"inline", "pool", "submit"} => pc \in {"inline", "pool", "submit"}
    PROVE  Work'
BY DEF Work, Busy

LEMMA InPlanKept ==
    ASSUME InPlan, UNCHANGED <<setup, region, at, pc>>
    PROVE  InPlan'
BY DEF InPlan, Region, Regions

\* Steps of the runtime thread that go on in the plan and leave the invocations alone.
Goes ==
    \/ RequestStop \/ EndRun \/ \E s \in BOOLEAN : BeginEpoch(s)
    \/ \E d \in setup.durations : EndEpoch(d)
    \/ EnterRegion \/ LeaveComponents \/ NextIteration
    \/ \E why \in {"converged", "budget_overrun", "max_iterations", "cancelled"}, a \in BOOLEAN : FinishLoop(why, a)
    \/ StopBeforeSubmit \/ BeginBatch \/ StopPool

LEMMA NextSteps ==
    ASSUME Next
    PROVE  \/ Goes
           \/ \E n \in 0 .. setup.ready : Collect(n)
           \/ \E s, a \in BOOLEAN : ExecuteInline(s, a)
           \/ Submit
           \/ \E a \in BOOLEAN : RecordBatch(a)
           \/ \E w \in Workers : WorkerTake(w)
           \/ \E w \in Workers : WorkerWait(w)
           \/ \E w \in Workers, s \in BOOLEAN : WorkerFinish(w, s)
BY DEF Next, Main, Worker, Goes

LEMMA GoesOn ==
    ASSUME Shape, Goes
    PROVE  InPlan' /\ setup' = setup /\ iterations' \in Nat
<1> USE DEF position, result, pool, stages, clock, runtime, work
<1>0. InPlan /\ setup \in Setups /\ iterations \in Nat /\ Len(Regions) \in Nat
  BY SetupFacts DEF Shape
<1>1. CASE RequestStop
  BY <1>0, <1>1, InPlanKept DEF RequestStop
<1>2. CASE EndRun
  BY <1>0, <1>2 DEF EndRun, InPlan, Regions, Region, Return
<1>3. CASE \E s \in BOOLEAN : BeginEpoch(s)
  BY <1>0, <1>3 DEF BeginEpoch, InPlan, Regions, Region, Return
<1>4. CASE \E d \in setup.durations : EndEpoch(d)
  BY <1>0, <1>4 DEF EndEpoch, InPlan, Regions, Region, Return
<1>5. CASE EnterRegion
  BY <1>0, <1>5 DEF EnterRegion, InPlan, Regions, Region
<1>6. CASE LeaveComponents
  BY <1>0, <1>6 DEF LeaveComponents, InPlan, Regions, Region
<1>7. CASE NextIteration
  BY <1>0, <1>7 DEF NextIteration, InPlan, Regions, Region
<1>8. CASE \E why \in {"converged", "budget_overrun", "max_iterations", "cancelled"}, a \in BOOLEAN : FinishLoop(why, a)
  BY <1>0, <1>8 DEF FinishLoop, InPlan, Regions, Region, Return
<1>9. CASE StopBeforeSubmit
  BY <1>0, <1>9 DEF StopBeforeSubmit, GiveUp, InPlan, Regions, Region, Return
<1>10. CASE BeginBatch
  BY <1>0, <1>10 DEF BeginBatch, InPlan, Regions, Region
<1>11. CASE StopPool
  BY <1>0, <1>11, InPlanKept DEF StopPool
<1> QED
  BY <1>1, <1>2, <1>3, <1>4, <1>5, <1>6, <1>7, <1>8, <1>9, <1>10, <1>11 DEF Goes

\* Such a step does not touch the invocations, and ends at a boundary only with an epoch.
LEMMA GoesLightly ==
    ASSUME Shape, Goes
    PROVE  /\ UNCHANGED <<made, todo, queue, job>>
           /\ worker' = worker \/ StopPool
           /\ pc' \in {"inline", "pool", "submit"} => pc \in {"inline", "pool", "submit"}
           /\ \/ iterations' = iterations /\ (pc' = "boundary" => pc = "boundary")
              \/ iterations' = iterations + 1
<1> USE DEF position, result, pool, stages, clock, runtime, work
<1>1. CASE RequestStop
  BY <1>1 DEF RequestStop
<1>2. CASE EndRun
  BY <1>2 DEF EndRun, Return
<1>3. CASE \E s \in BOOLEAN : BeginEpoch(s)
  BY <1>3 DEF BeginEpoch, Return
<1>4. CASE \E d \in setup.durations : EndEpoch(d)
  BY <1>4 DEF EndEpoch, Return
<1>5. CASE EnterRegion
  BY <1>5 DEF EnterRegion
<1>6. CASE LeaveComponents
  BY <1>6 DEF LeaveComponents
<1>7. CASE NextIteration
  BY <1>7 DEF NextIteration
<1>8. CASE \E why \in {"converged", "budget_overrun", "max_iterations", "cancelled"}, a \in BOOLEAN : FinishLoop(why, a)
  BY <1>8 DEF FinishLoop, Return
<1>9. CASE StopBeforeSubmit
  BY <1>9 DEF StopBeforeSubmit, GiveUp, Return
<1>10. CASE BeginBatch
  BY <1>10 DEF BeginBatch
<1>11. CASE StopPool
  BY <1>11 DEF StopPool
<1> QED
  BY <1>1, <1>2, <1>3, <1>4, <1>5, <1>6, <1>7, <1>8, <1>9, <1>10, <1>11 DEF Goes

LEMMA ShapeStep == Shape /\ [Next]_vars => Shape'
<1> SUFFICES ASSUME Shape, [Next]_vars PROVE Shape'
  OBVIOUS
<1> USE DEF position, result, pool, stages, clock, runtime, work
<1>0. InPlan /\ Work /\ setup \in Setups /\ iterations \in Nat
  BY DEF Shape
<1>1. CASE UNCHANGED vars
  BY <1>0, <1>1, InPlanKept, WorkKept DEF vars, Shape
<1>2. CASE Goes
  <2>1. InPlan' /\ setup' = setup /\ iterations' \in Nat
    BY <1>2, GoesOn
  <2>2. /\ UNCHANGED <<made, todo, queue, job>>
        /\ worker' = worker \/ StopPool
        /\ pc' \in {"inline", "pool", "submit"} => pc \in {"inline", "pool", "submit"}
    BY <1>2, GoesLightly
  <2>3. CASE worker' = worker
    BY <1>0, <2>1, <2>2, <2>3, WorkKept DEF Shape
  <2>4. CASE StopPool
    <3>1. Work'
      BY <1>0, <2>2, <2>4 DEF StopPool, Work, Busy, WakeAll, Woken
    <3> QED
      BY <1>0, <2>1, <3>1 DEF Shape
  <2> QED
    BY <2>2, <2>3, <2>4
<1>3. ASSUME NEW n \in 0 .. setup.ready, Collect(n) PROVE Shape'
  <2>1. n \in Nat
    BY <1>0, SetupFacts
  <2>2. /\ region \in 1 .. Len(Regions) /\ at \in 1 .. Len(Region.components)
        /\ pc = "component" /\ made' = made + n
        /\ \/ todo' = todo /\ at' = at /\ pc' = "returned"
           \/ Fresh(todo', n) /\ n = 0 /\ pc' = "component" /\ at' = at + 1
           \/ Fresh(todo', n) /\ n > 0 /\ at' = at /\ pc' = (IF Pooled THEN "pool" ELSE "inline")
    BY <1>3, <2>1, CollectFacts
  <2>3. UNCHANGED <<setup, region, iterations, queue, worker, job>>
    BY <1>3 DEF Collect
  <2>4. InPlan'
    BY <1>0, <2>2, <2>3 DEF InPlan, Region, Regions
  <2>5. todo' \in Seq(Invocations) /\ (pc' \in {"inline", "pool", "submit"} => todo' # <<>>)
    <3>1. Fresh(todo', n) => todo' \in Seq(Invocations) /\ (n > 0 => todo' # <<>>)
      BY <2>1 DEF Fresh
    <3> QED
      BY <1>0, <2>2, <3>1 DEF Work
  <2>6. Work'
    BY <1>0, <2>1, <2>2, <2>3, <2>5 DEF Work, Busy
  <2> QED
    BY <1>0, <2>3, <2>4, <2>6 DEF Shape
<1>4. ASSUME NEW s \in BOOLEAN, NEW a \in BOOLEAN, ExecuteInline(s, a) PROVE Shape'
  <2>1. pc = "inline" /\ todo' = Tail(todo) /\ UNCHANGED <<setup, region, iterations, made, queue, worker, job>>
    BY <1>4 DEF ExecuteInline
  <2>2. \/ pc' = "component" /\ at' = at + 1
        \/ Tail(todo) # <<>> /\ pc' = pc /\ at' = at
        \/ pc' = "returned" /\ at' = at
    BY <1>4 DEF ExecuteInline, GiveUp, Return
  <2>3. todo' \in Seq(Invocations) /\ (pc' \in {"inline", "pool", "submit"} => todo' # <<>>)
    BY <1>0, <2>1, <2>2, TailFacts DEF Work
  <2>4. InPlan'
    BY <1>0, <2>1, <2>2 DEF InPlan, Region, Regions
  <2>5. Work'
    BY <1>0, <2>1, <2>3 DEF Work, Busy
  <2> QED
    BY <1>0, <2>1, <2>4, <2>5 DEF Shape
<1>5. CASE Submit
  <2>1. /\ pc = "submit" /\ todo' = Tail(todo) /\ queue' = Append(queue, Head(todo))
        /\ UNCHANGED <<setup, region, at, iterations, made, job>>
        /\ (pc' = "submit" /\ Tail(todo) # <<>>) \/ pc' = "drain"
    BY <1>5 DEF Submit
  <2>2. todo' \in Seq(Invocations) /\ Head(todo) \in Invocations
    BY <1>0, <2>1, TailFacts DEF Work
  <2>3. queue' \in Seq(Invocations)
    BY <1>0, <2>1, <2>2 DEF Work
  <2>4. /\ worker' \in [Workers -> {"idle", "asleep", "busy", "gone"}]
        /\ \A w \in Workers : worker'[w] = "busy" => worker[w] = "busy"
    BY <1>0, <1>5 DEF Submit, NotifyOne, Woken, Work
  <2>5. InPlan'
    BY <1>0, <2>1 DEF InPlan, Region, Regions
  <2>6. Work'
    BY <1>0, <2>1, <2>2, <2>3, <2>4 DEF Work, Busy
  <2> QED
    BY <1>0, <2>1, <2>5, <2>6 DEF Shape
<1>6. ASSUME NEW a \in BOOLEAN, RecordBatch(a) PROVE Shape'
  <2>1. /\ pc = "drain" /\ UNCHANGED <<setup, region, iterations, made, todo, queue, worker, job>>
        /\ \/ pc' = "returned" /\ at' = at
           \/ pc' = "component" /\ at' = at + 1
           \/ pc' = "pool" /\ todo # <<>> /\ at' = at
    BY <1>6 DEF RecordBatch, GiveUp, Return
  <2>2. InPlan'
    BY <1>0, <2>1 DEF InPlan, Region, Regions
  <2>3. Work'
    BY <1>0, <2>1 DEF Work, Busy
  <2> QED
    BY <1>0, <2>1, <2>2, <2>3 DEF Shape
<1>7. ASSUME NEW w \in Workers, WorkerTake(w) PROVE Shape'
  <2>1. /\ worker' = [worker EXCEPT ![w] = "busy"] /\ job' = [job EXCEPT ![w] = Head(queue)]
        /\ queue' = Tail(queue) /\ queue # <<>>
        /\ UNCHANGED <<setup, pc, region, at, iterations, made, todo>>
    BY <1>7 DEF WorkerTake
  <2>2. queue' \in Seq(Invocations) /\ Head(queue) \in Invocations
    BY <1>0, <2>1, TailFacts DEF Work
  <2>3. Work'
    BY <1>0, <2>1, <2>2 DEF Work, Busy
  <2> QED
    BY <1>0, <2>1, <2>3, InPlanKept DEF Shape
<1>8. ASSUME NEW w \in Workers, WorkerWait(w) PROVE Shape'
  <2>1. /\ worker' = [worker EXCEPT ![w] = IF stopping THEN "gone" ELSE "asleep"]
        /\ UNCHANGED <<setup, pc, region, at, iterations, made, todo, queue, job>>
    BY <1>8 DEF WorkerWait
  <2>2. Work'
    BY <1>0, <2>1 DEF Work, Busy
  <2> QED
    BY <1>0, <2>1, <2>2, InPlanKept DEF Shape
<1>9. ASSUME NEW w \in Workers, NEW s \in BOOLEAN, WorkerFinish(w, s) PROVE Shape'
  <2>1. /\ worker' = [worker EXCEPT ![w] = "idle"] /\ job' = [job EXCEPT ![w] = NoInvocation]
        /\ UNCHANGED <<setup, pc, region, at, iterations, made, todo, queue>>
    BY <1>9 DEF WorkerFinish
  <2>2. Work'
    BY <1>0, <2>1 DEF Work, Busy
  <2> QED
    BY <1>0, <2>1, <2>2, InPlanKept DEF Shape
<1> QED
  BY <1>1, <1>2, <1>3, <1>4, <1>5, <1>6, <1>7, <1>8, <1>9, NextSteps

-----------------------------------------------------------------------------
(* Old snapshots.                                                          *)

\* Epochs pass: none begins anew, and a boundary is reached only when one ends.
Passes ==
    /\ iterations \in Nat
    /\ \/ iterations' = iterations /\ (pc' = "boundary" => pc = "boundary")
       \/ iterations' = iterations + 1

LEMMA EpochsPass ==
    ASSUME Shape, [Next]_vars
    PROVE  Passes
<1> USE DEF position, result, pool, stages, clock, runtime, work
<1>0. iterations \in Nat
  BY DEF Shape
<1>1. CASE UNCHANGED vars
  BY <1>0, <1>1 DEF vars, Passes
<1>2. CASE Goes
  BY <1>0, <1>2, GoesLightly DEF Passes
<1>3. ASSUME NEW n \in 0 .. setup.ready, Collect(n) PROVE Passes
  <2>1. iterations' = iterations /\ pc' # "boundary"
    BY <1>3 DEF Collect, GiveUp, Return
  <2> QED
    BY <1>0, <2>1 DEF Passes
<1>4. ASSUME NEW s \in BOOLEAN, NEW a \in BOOLEAN, ExecuteInline(s, a) PROVE Passes
  <2>1. iterations' = iterations /\ pc' # "boundary"
    BY <1>4 DEF ExecuteInline, GiveUp, Return
  <2> QED
    BY <1>0, <2>1 DEF Passes
<1>5. CASE Submit
  BY <1>0, <1>5 DEF Passes, Submit
<1>6. ASSUME NEW a \in BOOLEAN, RecordBatch(a) PROVE Passes
  <2>1. iterations' = iterations /\ pc' # "boundary"
    BY <1>6 DEF RecordBatch, GiveUp, Return
  <2> QED
    BY <1>0, <2>1 DEF Passes
<1>7. ASSUME NEW w \in Workers, WorkerTake(w) \/ WorkerWait(w) PROVE Passes
  BY <1>0, <1>7 DEF Passes, WorkerTake, WorkerWait
<1>8. ASSUME NEW w \in Workers, NEW s \in BOOLEAN, WorkerFinish(w, s) PROVE Passes
  BY <1>0, <1>8 DEF Passes, WorkerFinish
<1> QED
  BY <1>1, <1>2, <1>3, <1>4, <1>5, <1>6, <1>7, <1>8, NextSteps

LEMMA PastStaysPast ==
    ASSUME Passes, NEW e \in Nat, PastAt(e, iterations, pc)
    PROVE  PastAt(e, iterations', pc')
BY DEF Passes, PastAt

\* The epochs of what is to be done are naturals, and stay in the past.
LEMMA PastWorkKept ==
    ASSUME Shape, PastWork, Passes, UNCHANGED <<todo, queue, job>>, \A w \in Workers : worker'[w] = "busy" => worker[w] = "busy"
    PROVE  PastWork'
<1>1. /\ \A i \in 1 .. Len(todo) : todo[i].epoch \in Nat
      /\ \A i \in 1 .. Len(queue) : queue[i].epoch \in Nat
      /\ \A w \in Busy : job[w].epoch \in Nat
  <2>1. /\ \A i \in 1 .. Len(todo) : todo[i] \in Invocations
        /\ \A i \in 1 .. Len(queue) : queue[i] \in Invocations
        /\ \A w \in Busy : job[w] \in Invocations
    BY ElementOfSeq DEF Shape, Work
  <2> QED
    BY <2>1 DEF Invocations
<1>2. \A w \in Busy' : w \in Busy
  BY DEF Busy
<1> QED
  BY <1>1, <1>2, PastStaysPast DEF PastWork

LEMMA EntriesKept ==
    ASSUME Entries, Passes, state' = state
    PROVE  Entries'
<1>1. \A k \in Keys : state[k].pending.epoch \in Nat /\ state[k].current.epoch \in Nat
  BY DEF Entries, Values
<1>2. \A k \in Keys : PastAt(state[k].pending.epoch, iterations', pc')
  BY <1>1, PastStaysPast DEF Entries
<1>3. \A k \in Keys : state[k].current.epoch < iterations' + 1
  BY <1>1 DEF Entries, Passes
<1> QED
  BY <1>2, <1>3 DEF Entries

\* Between epochs what is pending becomes current.
LEMMA CommitKeeps ==
    ASSUME Shape, Entries, pc = "boundary", iterations' = iterations, pc' # "boundary", state' = CommitState
    PROVE  Entries'
<1>1. iterations \in Nat
  BY DEF Shape
<1>2. /\ NoValue \in Values /\ NoValue.epoch = 0
      /\ state \in [Keys -> [current : Values, pending : Values, writer : Nat]]
  BY DEF NoValue, Values, Entries
<1>3. ASSUME NEW k \in Keys
      PROVE  /\ state'[k] \in [current : Values, pending : Values, writer : Nat]
             /\ PastAt(state'[k].pending.epoch, iterations', pc')
             /\ state'[k].current.epoch < iterations' + 1
             /\ state'[k].current # NoValue =>
                  state'[k].writer # 0 /\ state'[k].current.writer = state'[k].writer
             /\ state'[k].pending # NoValue =>
                  state'[k].writer # 0 /\ state'[k].pending.writer = state'[k].writer
  <2>1. /\ state[k].pending \in Values /\ state[k].current \in Values /\ state[k].writer \in Nat
        /\ PastAt(state[k].pending.epoch, iterations, pc) /\ state[k].current.epoch < iterations + 1
        /\ state[k].current # NoValue => state[k].writer # 0 /\ state[k].current.writer = state[k].writer
        /\ state[k].pending # NoValue => state[k].writer # 0 /\ state[k].pending.writer = state[k].writer
    BY DEF Entries
  <2>2. CASE state[k].pending = NoValue
    <3>1. state'[k] = state[k]
      BY <2>2 DEF CommitState
    <3>2. PastAt(0, iterations', pc')
      BY <1>1 DEF PastAt
    <3> QED
      BY <1>2, <2>1, <2>2, <3>1, <3>2
  <2>3. CASE state[k].pending # NoValue
    <3>1. state'[k] = [state[k] EXCEPT !.current = state[k].pending, !.pending = NoValue]
      BY <2>3 DEF CommitState
    <3>2. /\ state'[k] = [current |-> state[k].pending, pending |-> NoValue, writer |-> state[k].writer]
          /\ state'[k].current = state[k].pending /\ state'[k].pending = NoValue
          /\ state'[k].writer = state[k].writer
      BY <1>2, <3>1
    <3>3. PastAt(0, iterations', pc')
      BY <1>1 DEF PastAt
    <3>4. state[k].pending.epoch < iterations + 1
      BY <2>1 DEF PastAt
    <3> QED
      BY <1>2, <2>1, <2>3, <3>2, <3>3, <3>4
  <2> QED
    BY <2>2, <2>3
<1>4. state' \in [Keys -> [current : Values, pending : Values, writer : Nat]]
  BY <1>3 DEF CommitState
<1> QED
  BY <1>3, <1>4 DEF Entries

\* A component that executes writes a key, if no other component does.
LEMMA WritesKeep ==
    ASSUME Entries, Passes, NEW inv \in Invocations, PastAt(inv.epoch, iterations, pc), Writes(inv)
    PROVE  Entries'
<1>1. inv.epoch \in Nat \ {0} /\ inv.component \in Nat \ {0}
  BY DEF Invocations
<1>2. CASE state' = state
  BY <1>2, EntriesKept
<1>3. ASSUME NEW k \in Keys, MayWrite(inv, k), state' = Stage(inv, k) PROVE Entries'
  <2> DEFINE value == [epoch |-> inv.epoch, writer |-> inv.component]
  <2>1. state \in [Keys -> [current : Values, pending : Values, writer : Nat]]
    BY DEF Entries
  <2>2. value \in Values /\ value.epoch = inv.epoch /\ value.writer = inv.component
    BY <1>1 DEF Values
  <2>3. /\ state'[k] = [current |-> state[k].current, pending |-> value, writer |-> inv.component]
        /\ \A j \in Keys \ {k} : state'[j] = state[j]
        /\ DOMAIN state' = Keys
    BY <1>3, <2>1 DEF Stage
  <2> HIDE DEF value
  <2>4. state' \in [Keys -> [current : Values, pending : Values, writer : Nat]]
    <3>1. state'[k] \in [current : Values, pending : Values, writer : Nat]
      BY <1>1, <2>1, <2>2, <2>3
    <3>2. \A j \in Keys : state'[j] \in [current : Values, pending : Values, writer : Nat]
      BY <2>1, <2>3, <3>1
    <3>3. state' = [j \in Keys |-> state'[j]]
      BY <1>3, <2>1 DEF Stage
    <3> QED
      BY <3>2, <3>3
  <2>5. PastAt(inv.epoch, iterations', pc')
    BY <1>1, PastStaysPast
  <2>6. ASSUME NEW j \in Keys
        PROVE  /\ PastAt(state'[j].pending.epoch, iterations', pc')
               /\ state'[j].current.epoch < iterations' + 1
               /\ state'[j].current # NoValue =>
                    state'[j].writer # 0 /\ state'[j].current.writer = state'[j].writer
               /\ state'[j].pending # NoValue =>
                    state'[j].writer # 0 /\ state'[j].pending.writer = state'[j].writer
    <3>1. /\ state[j].pending \in Values /\ state[j].current \in Values
          /\ PastAt(state[j].pending.epoch, iterations, pc) /\ state[j].current.epoch < iterations + 1
          /\ state[j].current # NoValue => state[j].writer # 0 /\ state[j].current.writer = state[j].writer
          /\ state[j].pending # NoValue => state[j].writer # 0 /\ state[j].pending.writer = state[j].writer
      BY DEF Entries
    <3>2. state[j].pending.epoch \in Nat /\ state[j].current.epoch \in Nat
      BY <3>1 DEF Values
    <3>3. PastAt(state[j].pending.epoch, iterations', pc') /\ state[j].current.epoch < iterations' + 1
      <4>1. PastAt(state[j].pending.epoch, iterations', pc')
        BY <3>1, <3>2, PastStaysPast
      <4> QED
        BY <3>1, <3>2, <4>1 DEF Passes
    <3>4. CASE j # k
      BY <2>3, <3>1, <3>3, <3>4
    <3>5. CASE j = k
      <4>1. /\ state'[j].current = state[j].current /\ state'[j].pending = value
            /\ state'[j].writer = inv.component
        BY <2>3, <3>5
      <4>2. state[j].writer \in {0, inv.component}
        BY <1>3, <3>5 DEF MayWrite
      <4> QED
        BY <1>1, <2>2, <2>5, <3>1, <3>3, <4>1, <4>2
    <3> QED
      BY <3>4, <3>5
  <2> QED
    BY <2>4, <2>6 DEF Entries
<1> QED
  BY <1>2, <1>3 DEF Writes

LEMMA SnapshotInit == Init => SnapshotInv
<1> SUFFICES ASSUME Init PROVE SnapshotInv
  OBVIOUS
<1>1. Shape
  BY ShapeInit
<1>2. PastWork
  BY DEF Init, PastWork, Busy
<1>3. Entries
  <2>1. NoValue \in Values /\ NoValue.epoch = 0
    BY DEF NoValue, Values
  <2>2. PastAt(0, 0, "boundary")
    BY DEF PastAt
  <2> QED
    BY <2>1, <2>2 DEF Init, Entries
<1> QED
  BY <1>1, <1>2, <1>3 DEF SnapshotInv

LEMMA SnapshotStep == SnapshotInv /\ [Next]_vars => SnapshotInv'
<1> SUFFICES ASSUME SnapshotInv, [Next]_vars PROVE SnapshotInv'
  OBVIOUS
<1> USE DEF position, result, pool, stages, clock, runtime, work
<1>0. Shape /\ PastWork /\ Entries /\ Work /\ Passes /\ iterations \in Nat
  BY EpochsPass DEF SnapshotInv, Shape
<1>1. Shape'
  BY <1>0, ShapeStep
<1>2. /\ \A i \in 1 .. Len(todo) : todo[i] \in Invocations /\ todo[i].epoch \in Nat
      /\ \A i \in 1 .. Len(queue) : queue[i] \in Invocations /\ queue[i].epoch \in Nat
      /\ \A w \in Busy : job[w] \in Invocations /\ job[w].epoch \in Nat
  <2>1. /\ \A i \in 1 .. Len(todo) : todo[i] \in Invocations
        /\ \A i \in 1 .. Len(queue) : queue[i] \in Invocations
        /\ \A w \in Busy : job[w] \in Invocations
    BY <1>0, ElementOfSeq DEF Work
  <2> QED
    BY <2>1 DEF Invocations
<1>3. /\ \A i \in 1 .. Len(todo) : PastAt(todo[i].epoch, iterations', pc')
      /\ \A i \in 1 .. Len(queue) : PastAt(queue[i].epoch, iterations', pc')
      /\ \A w \in Busy : PastAt(job[w].epoch, iterations', pc')
  BY <1>0, <1>2, PastStaysPast DEF PastWork
<1>4. CASE UNCHANGED vars
  BY <1>0, <1>1, <1>4, PastWorkKept, EntriesKept DEF vars, SnapshotInv
<1>5. CASE Goes
  <2>1. PastWork'
    <3>1. UNCHANGED <<todo, queue, job>> /\ (worker' = worker \/ StopPool)
      BY <1>0, <1>5, GoesLightly
    <3>2. \A w \in Workers : worker'[w] = "busy" => worker[w] = "busy"
      BY <3>1 DEF StopPool
    <3> QED
      BY <1>0, <3>1, <3>2, PastWorkKept
  <2>2. CASE \E s \in BOOLEAN : BeginEpoch(s)
    <3>1. pc = "boundary" /\ iterations' = iterations /\ pc' # "boundary" /\ state' = CommitState
      BY <2>2 DEF BeginEpoch, Return
    <3>2. Entries'
      BY <1>0, <3>1, CommitKeeps
    <3> QED
      BY <1>1, <2>1, <3>2 DEF SnapshotInv
  <2>3. CASE ~\E s \in BOOLEAN : BeginEpoch(s)
    <3>1. state' = state
      BY <1>5, <2>3 DEF Goes, RequestStop, EndRun, EndEpoch, EnterRegion, LeaveComponents, NextIteration,
                        FinishLoop, StopBeforeSubmit, BeginBatch, StopPool
    <3>2. Entries'
      BY <1>0, <3>1, EntriesKept
    <3> QED
      BY <1>1, <2>1, <3>2 DEF SnapshotInv
  <2> QED
    BY <2>2, <2>3
<1>6. ASSUME NEW n \in 0 .. setup.ready, Collect(n) PROVE SnapshotInv'
  <2>1. n \in Nat
    BY <1>0, SetupFacts DEF Shape
  <2>2. UNCHANGED <<iterations, queue, worker, job, state>> /\ pc' # "boundary"
    BY <1>6 DEF Collect, GiveUp, Return
  <2>3. todo' = todo \/ Fresh(todo', n)
    BY <1>0, <1>6, <2>1, CollectFacts
  <2>4. Fresh(todo', n) => \A i \in 1 .. Len(todo') : todo'[i].epoch = iterations + 1
    BY DEF Fresh, Epoch
  <2>5. PastAt(iterations + 1, iterations', pc')
    BY <1>0, <2>2 DEF PastAt
  <2>6. PastWork'
    BY <1>3, <2>2, <2>3, <2>4, <2>5 DEF PastWork, Busy
  <2>7. Entries'
    BY <1>0, <2>2, EntriesKept
  <2> QED
    BY <1>1, <2>6, <2>7 DEF SnapshotInv
<1>7. ASSUME NEW s \in BOOLEAN, NEW a \in BOOLEAN, ExecuteInline(s, a) PROVE SnapshotInv'
  <2>1. pc = "inline" /\ todo' = Tail(todo) /\ UNCHANGED <<queue, worker, job>> /\ Writes(Head(todo))
    BY <1>7 DEF ExecuteInline
  <2>2. /\ Head(todo) = todo[1] /\ Len(todo) \in Nat \ {0} /\ Len(todo') = Len(todo) - 1
        /\ \A i \in 1 .. Len(todo) - 1 : todo'[i] = todo[i + 1]
    BY <1>0, <2>1, TailFacts DEF Work
  <2>3. \A i \in 1 .. Len(todo') : i + 1 \in 1 .. Len(todo)
    BY <2>2
  <2>4. PastWork'
    BY <1>3, <2>1, <2>2, <2>3 DEF PastWork, Busy
  <2>5. Head(todo) \in Invocations /\ PastAt(Head(todo).epoch, iterations, pc)
    BY <1>0, <1>2, <2>2 DEF PastWork
  <2>6. Entries'
    BY <1>0, <2>1, <2>5, WritesKeep
  <2> QED
    BY <1>1, <2>4, <2>6 DEF SnapshotInv
<1>8. CASE Submit
  <2>1. /\ pc = "submit" /\ todo' = Tail(todo) /\ queue' = Append(queue, Head(todo))
        /\ UNCHANGED <<job, state>>
    BY <1>8 DEF Submit
  <2>2. /\ Head(todo) = todo[1] /\ Len(todo) \in Nat \ {0} /\ Len(todo') = Len(todo) - 1
        /\ \A i \in 1 .. Len(todo) - 1 : todo'[i] = todo[i + 1]
    BY <1>0, <2>1, TailFacts DEF Work
  <2>3. \A i \in 1 .. Len(todo') : i + 1 \in 1 .. Len(todo)
    BY <2>2
  <2>4. \A i \in 1 .. Len(queue') : (i \in 1 .. Len(queue) /\ queue'[i] = queue[i]) \/ queue'[i] = todo[1]
    BY <1>0, <2>1, <2>2 DEF Work
  <2>5. \A w \in Workers : worker'[w] = "busy" => worker[w] = "busy"
    BY <1>0, <1>8 DEF Submit, NotifyOne, Woken, Work
  <2>6. PastWork'
    BY <1>3, <2>1, <2>2, <2>3, <2>4, <2>5 DEF PastWork, Busy
  <2>7. Entries'
    BY <1>0, <2>1, EntriesKept
  <2> QED
    BY <1>1, <2>6, <2>7 DEF SnapshotInv
<1>9. ASSUME NEW a \in BOOLEAN, RecordBatch(a) PROVE SnapshotInv'
  <2>1. UNCHANGED <<todo, queue, worker, job, state>>
    BY <1>9 DEF RecordBatch
  <2>2. PastWork' /\ Entries'
    BY <1>0, <2>1, PastWorkKept, EntriesKept
  <2> QED
    BY <1>1, <2>2 DEF SnapshotInv
<1>10. ASSUME NEW w \in Workers, WorkerTake(w) PROVE SnapshotInv'
  <2>1. /\ worker' = [worker EXCEPT ![w] = "busy"] /\ job' = [job EXCEPT ![w] = Head(queue)]
        /\ queue' = Tail(queue) /\ queue # <<>> /\ UNCHANGED <<todo, state>>
    BY <1>10 DEF WorkerTake
  <2>2. /\ Head(queue) = queue[1] /\ Len(queue) \in Nat \ {0} /\ Len(queue') = Len(queue) - 1
        /\ \A i \in 1 .. Len(queue) - 1 : queue'[i] = queue[i + 1]
    BY <1>0, <2>1, TailFacts DEF Work
  <2>3. \A i \in 1 .. Len(queue') : i + 1 \in 1 .. Len(queue)
    BY <2>2
  <2>4. \A v \in Busy' : job'[v] = queue[1] \/ (v \in Busy /\ job'[v] = job[v])
    BY <1>0, <2>1, <2>2 DEF Busy, Work
  <2>5. PastWork'
    BY <1>3, <2>1, <2>2, <2>3, <2>4 DEF PastWork
  <2>6. Entries'
    BY <1>0, <2>1, EntriesKept
  <2> QED
    BY <1>1, <2>5, <2>6 DEF SnapshotInv
<1>11. ASSUME NEW w \in Workers, WorkerWait(w) PROVE SnapshotInv'
  <2>1. UNCHANGED <<todo, queue, job, state>> /\ \A v \in Workers : worker'[v] = "busy" => worker[v] = "busy"
    BY <1>0, <1>11 DEF WorkerWait, Work
  <2>2. PastWork' /\ Entries'
    BY <1>0, <2>1, PastWorkKept, EntriesKept
  <2> QED
    BY <1>1, <2>2 DEF SnapshotInv
<1>12. ASSUME NEW w \in Workers, NEW s \in BOOLEAN, WorkerFinish(w, s) PROVE SnapshotInv'
  <2>1. /\ worker[w] = "busy" /\ worker' = [worker EXCEPT ![w] = "idle"]
        /\ job' = [job EXCEPT ![w] = NoInvocation] /\ UNCHANGED <<todo, queue>> /\ Writes(job[w])
    BY <1>12 DEF WorkerFinish
  <2>2. \A v \in Busy' : v \in Busy /\ job'[v] = job[v]
    BY <1>0, <2>1 DEF Busy, Work
  <2>3. PastWork'
    BY <1>3, <2>1, <2>2 DEF PastWork
  <2>4. job[w] \in Invocations /\ PastAt(job[w].epoch, iterations, pc)
    BY <1>0, <1>2, <2>1 DEF PastWork, Busy
  <2>5. Entries'
    BY <1>0, <2>1, <2>4, WritesKeep
  <2> QED
    BY <1>1, <2>3, <2>5 DEF SnapshotInv
<1> QED
  BY <1>4, <1>5, <1>6, <1>7, <1>8, <1>9, <1>10, <1>11, <1>12, NextSteps

\* For every plan and any number of workers and epochs, a reader of the RuntimeStateStore
\* sees values of earlier epochs only, whatever executing components stage meanwhile, and
\* every value of a key is from its one writer (stage_write and commit_epoch_boundary of
\* src/state.cpp as EventRuntime::run calls them).
THEOREM SnapshotsAreOld == Spec => []OldSnapshot
<1>1. SnapshotInv => OldSnapshot
  BY DEF SnapshotInv, Entries, OldSnapshot, Snapshot, Epoch
<1> QED
  BY <1>1, SnapshotInit, SnapshotStep, PTL DEF Spec

-----------------------------------------------------------------------------
(* The drain of the futures.                                               *)

\* An invocation is in one place: still to be done, queued, with one worker, or finished.
Distinct ==
    /\ NoRepeats(todo) /\ NoRepeats(queue)
    /\ \A v, w \in Busy : v # w => job[v] # job[w]
    /\ ItemsOf(todo) \cap (ItemsOf(queue) \cup InFlight \cup finished) = {}
    /\ ItemsOf(queue) \cap (InFlight \cup finished) = {}
    /\ InFlight \cap finished = {}

\* Whatever left the runtime thread is awaited by it.
Held ==
    /\ IsFiniteSet(awaited) /\ awaited \subseteq Invocations
    /\ InFlight \cup ItemsOf(queue) \cup finished \subseteq awaited
    /\ pc \notin {"submit", "drain"} => awaited = {}
    /\ pc = "submit" => todo[1] \in awaited

Pending == awaited \cup ItemsOf(todo)

Limits ==
    /\ pc \in {"submit", "drain"} /\ Component \notin setup.reentrant => Cardinality(awaited) <= 1
    /\ pc \in {"pool", "submit", "drain"} /\ setup.queue_capacity > 0 =>
          Cardinality(Pending) <= ActiveCapacity + setup.queue_capacity

DrainInv == Shape /\ Distinct /\ Held /\ Limits

LEMMA PendingFinite ==
    ASSUME Shape, Held
    PROVE  /\ IsFiniteSet(Pending) /\ Cardinality(Pending) \in Nat
           /\ IsFiniteSet(ItemsOf(todo)) /\ Cardinality(ItemsOf(todo)) \in Nat
           /\ Cardinality(ItemsOf(todo)) <= Len(todo) /\ Cardinality(awaited) \in Nat
<1>1. /\ IsFiniteSet(ItemsOf(todo)) /\ Cardinality(ItemsOf(todo)) <= Len(todo)
      /\ Cardinality(ItemsOf(todo)) \in Nat
  BY ItemsFinite DEF Shape, Work
<1>2. IsFiniteSet(Pending)
  BY <1>1, FS_Union DEF Held, Pending
<1> QED
  BY <1>1, <1>2, FS_CardinalityType DEF Held

\* A step that moves no invocation, within the execution of a component or outside of it.
LEMMA DrainKept ==
    ASSUME DrainInv, Shape', UNCHANGED <<setup, todo, queue, job, awaited, finished>>,
           \A w \in Workers : worker'[w] = "busy" <=> worker[w] = "busy",
           \/ UNCHANGED <<pc, region, at>>
           \/ awaited = {} /\ pc' \notin {"pool", "submit", "drain"}
    PROVE  DrainInv'
<1>1. Busy' = Busy /\ InFlight' = InFlight
  BY DEF Busy, InFlight
<1>2. Distinct'
  BY <1>1 DEF DrainInv, Distinct
<1>3. Held'
  BY <1>1 DEF DrainInv, Held
<1>4. Limits'
  BY DEF DrainInv, Limits, Pending, Component, Region, Regions, ActiveCapacity
<1> QED
  BY <1>2, <1>3, <1>4 DEF DrainInv

\* The batch submitted: all that is to be done, or the first of it.
LEMMA BatchFacts ==
    ASSUME Shape, todo # <<>>
    PROVE  /\ Elements(SubSeq(todo, 1, SubmitFrom)) \subseteq ItemsOf(todo)
           /\ todo[1] \in Elements(SubSeq(todo, 1, SubmitFrom))
           /\ Component \notin setup.reentrant => Elements(SubSeq(todo, 1, SubmitFrom)) = {todo[1]}
<1>1. todo \in Seq(Invocations) /\ Len(todo) \in Nat \ {0} /\ DOMAIN todo = 1 .. Len(todo)
  BY TailFacts DEF Shape, Work
<1>2. SubmitFrom \in 1 .. Len(todo) /\ (Component \notin setup.reentrant => SubmitFrom = 1)
  BY <1>1 DEF SubmitFrom
<1>3. /\ DOMAIN SubSeq(todo, 1, SubmitFrom) = 1 .. SubmitFrom
      /\ \A i \in 1 .. SubmitFrom : i \in 1 .. Len(todo) /\ SubSeq(todo, 1, SubmitFrom)[i] = todo[i]
  BY <1>1, <1>2
<1>4. 1 \in 1 .. SubmitFrom
  BY <1>2
<1>5. SubmitFrom = 1 => \A i \in 1 .. SubmitFrom : i = 1
  BY <1>2
<1> HIDE DEF SubmitFrom
<1> QED
  BY <1>1, <1>2, <1>3, <1>4, <1>5 DEF Elements, ItemsOf

LEMMA DrainGoes ==
    ASSUME DrainInv, Shape', Goes
    PROVE  DrainInv'
<1> USE DEF position, result, pool, stages, clock, runtime, work
<1>0. Shape /\ Distinct /\ Held /\ Limits /\ Work
  BY DEF DrainInv, Shape
<1>1. setup' = setup /\ UNCHANGED <<made, todo, queue, job>>
  BY <1>0, GoesOn, GoesLightly
<1>2. CASE BeginBatch
  <2> DEFINE batch == Elements(SubSeq(todo, 1, SubmitFrom))
  <2>1. /\ pc = "pool" /\ awaited = {} /\ awaited' = batch /\ pc' = "submit"
        /\ UNCHANGED <<region, at, worker, finished>>
    BY <1>2 DEF BeginBatch
  <2>2. todo # <<>>
    BY <1>0, <2>1 DEF Work
  <2>3. /\ batch \subseteq ItemsOf(todo) /\ todo[1] \in batch
        /\ Component \notin setup.reentrant => batch = {todo[1]}
    BY <1>0, <2>2, BatchFacts
  <2> HIDE DEF batch
  <2>4. Busy' = Busy /\ InFlight' = InFlight
    BY <1>1, <2>1 DEF Busy, InFlight
  <2>5. Distinct'
    BY <1>0, <1>1, <2>1, <2>4 DEF Distinct
  <2>6. ItemsOf(todo) \subseteq Invocations /\ IsFiniteSet(ItemsOf(todo))
    BY <1>0, ItemsFinite DEF Work
  <2>7. IsFiniteSet(batch)
    BY <2>3, <2>6, FS_Subset
  <2>8. Held'
    BY <1>0, <1>1, <2>1, <2>3, <2>4, <2>6, <2>7 DEF Held
  <2>9. Pending' = Pending
    BY <1>1, <2>1, <2>3 DEF Pending
  <2>10. Cardinality({todo[1]}) = 1
    BY FS_Singleton, Zenon
  <2>11. Component' = Component /\ ActiveCapacity' = ActiveCapacity
    BY <1>1, <2>1 DEF Component, Region, Regions, ActiveCapacity
  <2>12. Limits'
    <3>1. Component \notin setup.reentrant => Cardinality(awaited') <= 1
      BY <2>1, <2>3, <2>10
    <3> QED
      BY <1>0, <1>1, <2>1, <2>9, <2>11, <3>1 DEF Limits
  <2> QED
    BY <2>5, <2>8, <2>12 DEF DrainInv
<1>3. CASE StopPool
  <2>1. UNCHANGED <<pc, region, at, awaited, finished>>
    BY <1>3 DEF StopPool
  <2>2. \A w \in Workers : worker'[w] = "busy" <=> worker[w] = "busy"
    BY <1>3 DEF StopPool, WakeAll, Woken
  <2> QED
    BY <1>1, <2>1, <2>2, DrainKept
<1>4. CASE RequestStop
  <2>1. UNCHANGED <<pc, region, at, awaited, finished, worker>>
    BY <1>4 DEF RequestStop
  <2> QED
    BY <1>1, <2>1, DrainKept
<1>5. CASE ~BeginBatch /\ ~StopPool /\ ~RequestStop
  <2>1. UNCHANGED <<awaited, finished, worker>>
    BY <1>5 DEF Goes, EndRun, BeginEpoch, EndEpoch, EnterRegion, LeaveComponents, NextIteration,
                FinishLoop, StopBeforeSubmit
  <2>2. pc \notin {"submit", "drain"} /\ pc' \notin {"pool", "submit", "drain"}
    <3>1. CASE StopBeforeSubmit
      BY <3>1 DEF StopBeforeSubmit, GiveUp, Return
    <3>2. CASE EndRun \/ \E b \in BOOLEAN : BeginEpoch(b)
      BY <3>2 DEF EndRun, BeginEpoch, Return
    <3>3. CASE \E d \in setup.durations : EndEpoch(d)
      BY <3>3 DEF EndEpoch, Return
    <3>4. CASE EnterRegion \/ LeaveComponents \/ NextIteration
      BY <3>4 DEF EnterRegion, LeaveComponents, NextIteration
    <3>5. CASE \E why \in {"converged", "budget_overrun", "max_iterations", "cancelled"}, a \in BOOLEAN : FinishLoop(why, a)
      BY <3>5 DEF FinishLoop, Return
    <3> QED
      BY <1>5, <3>1, <3>2, <3>3, <3>4, <3>5 DEF Goes
  <2>3. awaited = {}
    BY <1>0, <2>2 DEF Held
  <2> QED
    BY <1>1, <2>1, <2>2, <2>3, DrainKept
<1> QED
  BY <1>2, <1>3, <1>4, <1>5

\* Outside of the submission and the drain of a batch nothing has left the runtime thread.
LEMMA NothingHeld ==
    ASSUME Held, pc \notin {"submit", "drain"}
    PROVE  awaited = {} /\ InFlight = {} /\ ItemsOf(queue) = {} /\ finished = {} /\ Busy = {}
<1>1. awaited = {} /\ InFlight = {} /\ ItemsOf(queue) = {} /\ finished = {}
  BY DEF Held
<1> QED
  BY <1>1 DEF InFlight, Busy

LEMMA DrainCollect ==
    ASSUME DrainInv, Shape', NEW n \in Nat, Collect(n)
    PROVE  DrainInv'
<1>0. Shape /\ Distinct /\ Held /\ Limits /\ Work
  BY DEF DrainInv, Shape
<1>1. UNCHANGED <<setup, region, queue, worker, job, awaited, finished>>
  BY DEF Collect, pool
<1>2. /\ pc = "component"
      /\ \/ todo' = todo /\ at' = at /\ pc' = "returned"
         \/ Fresh(todo', n) /\ n = 0 /\ pc' = "component" /\ at' = at + 1
         \/ Fresh(todo', n) /\ n > 0 /\ at' = at /\ pc' = (IF Pooled THEN "pool" ELSE "inline")
  BY <1>0, CollectFacts
<1>3. awaited = {} /\ InFlight = {} /\ ItemsOf(queue) = {} /\ finished = {} /\ Busy = {}
  BY <1>0, <1>2, NothingHeld
<1>4. CASE todo' = todo /\ pc' = "returned"
  BY <1>1, <1>3, <1>4, DrainKept
<1>5. CASE Fresh(todo', n) /\ pc' \in {"component", "inline", "pool"} /\ (pc' = "pool" => Pooled /\ at' = at)
  <2>1. Busy' = {} /\ InFlight' = {}
    BY <1>1, <1>3 DEF Busy, InFlight
  <2>2. NoRepeats(todo')
    <3>1. DOMAIN todo' = 1 .. Len(todo')
      BY <1>5 DEF Fresh
    <3> QED
      BY <1>5, <3>1 DEF Fresh, NoRepeats
  <2>3. Distinct'
    BY <1>0, <1>1, <1>3, <2>1, <2>2 DEF Distinct
  <2>4. Held'
    BY <1>0, <1>1, <1>3, <1>5, <2>1 DEF Held
  <2>5. ASSUME pc' = "pool", setup.queue_capacity > 0
        PROVE  Cardinality(Pending') <= ActiveCapacity + setup.queue_capacity
    <3>1. Pending' = ItemsOf(todo')
      BY <1>1, <1>3 DEF Pending
    <3>2. Cardinality(ItemsOf(todo')) \in Nat /\ Cardinality(ItemsOf(todo')) <= Len(todo')
      BY <1>5, ItemsFinite DEF Fresh
    <3>3. Len(todo') <= AdmissionCapacity(n) /\ Len(todo') \in Nat
      BY <1>5, <2>5 DEF Fresh
    <3>4. AdmissionCapacity(n) \in Nat /\ AdmissionCapacity(n) = ActiveCapacity + setup.queue_capacity
      BY <1>0, <2>5, Capacity DEF Shape
    <3> QED
      BY <3>1, <3>2, <3>3, <3>4
  <2>6. pc' = "pool" => ActiveCapacity' = ActiveCapacity
    BY <1>1, <1>5 DEF Component, Region, Regions, ActiveCapacity
  <2>7. Limits'
    BY <1>1, <1>5, <2>5, <2>6 DEF Limits
  <2> QED
    BY <2>3, <2>4, <2>7 DEF DrainInv
<1> QED
  BY <1>2, <1>4, <1>5

LEMMA DrainInline ==
    ASSUME DrainInv, Shape', NEW b \in BOOLEAN, NEW a \in BOOLEAN, ExecuteInline(b, a)
    PROVE  DrainInv'
<1>0. Shape /\ Distinct /\ Held /\ Limits /\ Work
  BY DEF DrainInv, Shape
<1>1. /\ pc = "inline" /\ todo' = Tail(todo) /\ todo # <<>>
      /\ UNCHANGED <<setup, queue, worker, job, awaited, finished>>
      /\ pc' \in {"component", "inline", "returned"}
  BY <1>0 DEF ExecuteInline, GiveUp, Return, Work
<1>2. awaited = {} /\ InFlight = {} /\ ItemsOf(queue) = {} /\ finished = {} /\ Busy = {}
  BY <1>0, <1>1, NothingHeld
<1>3. Busy' = {} /\ InFlight' = {}
  BY <1>1, <1>2 DEF Busy, InFlight
<1>4. NoRepeats(todo')
  BY <1>0, <1>1, ItemsTail DEF Work, Distinct
<1>5. Distinct'
  BY <1>0, <1>1, <1>2, <1>3, <1>4 DEF Distinct
<1>6. Held'
  BY <1>0, <1>1, <1>2, <1>3 DEF Held
<1>7. Limits'
  BY <1>1 DEF Limits
<1> QED
  BY <1>5, <1>6, <1>7 DEF DrainInv

LEMMA DrainSubmit ==
    ASSUME DrainInv, Shape', Submit
    PROVE  DrainInv'
<1>0. Shape /\ Distinct /\ Held /\ Limits /\ Work
  BY DEF DrainInv, Shape
<1>1. /\ pc = "submit" /\ todo' = Tail(todo) /\ queue' = Append(queue, Head(todo)) /\ todo # <<>>
      /\ UNCHANGED <<setup, region, at, job, awaited, finished>>
      /\ \/ pc' = "submit" /\ Tail(todo) # <<>> /\ Head(Tail(todo)) \in awaited
         \/ pc' = "drain"
  BY <1>0 DEF Submit, Work, position
<1>2. \A w \in Workers : worker'[w] = "busy" <=> worker[w] = "busy"
  BY <1>0 DEF Submit, NotifyOne, Woken, Work
<1>3. Busy' = Busy /\ InFlight' = InFlight
  BY <1>1, <1>2 DEF Busy, InFlight
<1>4. Head(todo) = todo[1] /\ todo[1] \in Invocations /\ Tail(todo) \in Seq(Invocations)
  BY <1>0, <1>1, TailFacts DEF Work
<1>5. /\ ItemsOf(todo') = ItemsOf(todo) \ {todo[1]} /\ todo[1] \in ItemsOf(todo)
      /\ NoRepeats(todo')
  BY <1>0, <1>1, ItemsTail DEF Work, Distinct
<1>6. ItemsOf(queue') = ItemsOf(queue) \cup {todo[1]}
  BY <1>0, <1>1, <1>4, ItemsAppend DEF Work
<1>7. NoRepeats(queue')
  <2>1. todo[1] \notin ItemsOf(queue)
    BY <1>0, <1>5 DEF Distinct
  <2> QED
    BY <1>0, <1>1, <1>4, <2>1, NoRepeatsAppend DEF Work, Distinct
<1>8. Distinct'
  <2>1. /\ ItemsOf(todo) \cap (ItemsOf(queue) \cup InFlight \cup finished) = {}
        /\ ItemsOf(queue) \cap (InFlight \cup finished) = {}
        /\ InFlight \cap finished = {}
    BY <1>0 DEF Distinct
  <2>2. /\ ItemsOf(todo') \cap (ItemsOf(queue') \cup InFlight' \cup finished') = {}
        /\ ItemsOf(queue') \cap (InFlight' \cup finished') = {}
        /\ InFlight' \cap finished' = {}
    BY <1>1, <1>3, <1>5, <1>6, <2>1
  <2>3. \A v, w \in Busy' : v # w => job'[v] # job'[w]
    BY <1>0, <1>1, <1>3 DEF Distinct
  <2> QED
    BY <1>5, <1>7, <2>2, <2>3 DEF Distinct
<1>9. Held'
  <2>1. todo[1] \in awaited
    BY <1>0, <1>1 DEF Held
  <2>2. pc' = "submit" => todo'[1] \in awaited
    BY <1>1, <1>4, TailFacts
  <2> QED
    BY <1>0, <1>1, <1>3, <1>6, <2>1, <2>2 DEF Held
<1>10. Pending' = Pending
  BY <1>0, <1>1, <1>5 DEF Pending, Held
<1>11. Component' = Component /\ ActiveCapacity' = ActiveCapacity
  BY <1>1 DEF Component, Region, Regions, ActiveCapacity
<1>12. Limits'
  BY <1>0, <1>1, <1>10, <1>11 DEF Limits
<1> QED
  BY <1>8, <1>9, <1>12 DEF DrainInv

\* When all that is awaited has finished nothing is queued and no worker is busy: an
\* invocation is in one place.
LEMMA DrainedMeansIdle ==
    ASSUME Distinct, Held, Drained
    PROVE  InFlight = {} /\ ItemsOf(queue) = {} /\ Busy = {} /\ awaited = finished
<1>1. InFlight = {} /\ ItemsOf(queue) = {} /\ awaited = finished
  BY DEF Distinct, Held, Drained
<1> QED
  BY <1>1 DEF InFlight, Busy

LEMMA DrainRecord ==
    ASSUME DrainInv, Shape', NEW a \in BOOLEAN, RecordBatch(a)
    PROVE  DrainInv'
<1>0. Shape /\ Distinct /\ Held /\ Limits /\ Work
  BY DEF DrainInv, Shape
<1>1. /\ pc = "drain" /\ Drained /\ awaited' = {} /\ finished' = {}
      /\ UNCHANGED <<setup, region, todo, queue, worker, job>>
      /\ pc' \in {"returned", "component"} \/ (pc' = "pool" /\ at' = at)
  BY DEF RecordBatch, GiveUp, Return
<1>2. InFlight = {} /\ ItemsOf(queue) = {} /\ Busy = {} /\ awaited = finished
  BY <1>0, <1>1, DrainedMeansIdle
<1>3. Busy' = {} /\ InFlight' = {}
  BY <1>1, <1>2 DEF Busy, InFlight
<1>4. Distinct'
  BY <1>0, <1>1, <1>2, <1>3 DEF Distinct
<1>5. Held'
  <2>1. IsFiniteSet(awaited')
    BY <1>1, FS_EmptySet
  <2> QED
    BY <1>1, <1>2, <1>3, <2>1 DEF Held
<1>6. Limits'
  <2>1. Pending' \in SUBSET Pending
    BY <1>1 DEF Pending
  <2>2. IsFiniteSet(Pending) /\ Cardinality(Pending) \in Nat
    BY <1>0, PendingFinite
  <2>3. IsFiniteSet(Pending') /\ Cardinality(Pending') <= Cardinality(Pending)
    BY <2>1, <2>2, FS_Subset
  <2>4. Cardinality(Pending') \in Nat
    BY <2>3, FS_CardinalityType
  <2>5. ActiveCapacity \in Nat /\ setup.queue_capacity \in Nat
    BY <1>0, Capacity, SetupFacts DEF Shape
  <2>6. pc' = "pool" => Component' = Component /\ ActiveCapacity' = ActiveCapacity
    BY <1>1 DEF Component, Region, Regions, ActiveCapacity
  <2>7. setup.queue_capacity > 0 => Cardinality(Pending) <= ActiveCapacity + setup.queue_capacity
    BY <1>0, <1>1 DEF Limits
  <2>8. setup.queue_capacity > 0 => Cardinality(Pending') <= ActiveCapacity + setup.queue_capacity
    BY <2>2, <2>3, <2>4, <2>5, <2>7
  <2> QED
    BY <1>1, <2>6, <2>8 DEF Limits
<1> QED
  BY <1>4, <1>5, <1>6 DEF DrainInv

LEMMA DrainTake ==
    ASSUME DrainInv, Shape', NEW w \in Workers, WorkerTake(w)
    PROVE  DrainInv'
<1>0. Shape /\ Distinct /\ Held /\ Limits /\ Work
  BY DEF DrainInv, Shape
<1>1. /\ worker[w] = "idle" /\ queue # <<>> /\ queue' = Tail(queue)
      /\ worker' = [worker EXCEPT ![w] = "busy"] /\ job' = [job EXCEPT ![w] = Head(queue)]
      /\ UNCHANGED <<setup, pc, region, at, todo, awaited, finished>>
  BY DEF WorkerTake, runtime, work, position
<1>2. Head(queue) = queue[1]
  BY <1>0, <1>1, TailFacts DEF Work
<1>3. /\ ItemsOf(queue') = ItemsOf(queue) \ {queue[1]} /\ queue[1] \in ItemsOf(queue)
      /\ NoRepeats(queue')
  BY <1>0, <1>1, ItemsTail DEF Work, Distinct
<1>4. /\ Busy' = Busy \cup {w} /\ w \notin Busy
      /\ job'[w] = queue[1] /\ \A v \in Busy : job'[v] = job[v]
  BY <1>0, <1>1, <1>2 DEF Busy, Work
<1>5. InFlight' = InFlight \cup {queue[1]}
  <2>1. InFlight = {job[v] : v \in Busy} /\ InFlight' = {job'[v] : v \in Busy'}
    BY DEF InFlight, Busy
  <2> QED
    BY <1>4, <2>1
<1>6. Distinct'
  <2>1. /\ ItemsOf(todo) \cap (ItemsOf(queue) \cup InFlight \cup finished) = {}
        /\ ItemsOf(queue) \cap (InFlight \cup finished) = {}
        /\ InFlight \cap finished = {}
    BY <1>0 DEF Distinct
  <2>2. /\ ItemsOf(todo') \cap (ItemsOf(queue') \cup InFlight' \cup finished') = {}
        /\ ItemsOf(queue') \cap (InFlight' \cup finished') = {}
        /\ InFlight' \cap finished' = {}
    BY <1>1, <1>3, <1>5, <2>1
  <2>3. \A v \in Busy : job[v] \in InFlight
    BY DEF InFlight, Busy
  <2>4. \A v \in Busy : job[v] # queue[1]
    BY <1>3, <2>1, <2>3
  <2>5. \A u, v \in Busy' : u # v => job'[u] # job'[v]
    BY <1>0, <1>4, <2>4 DEF Distinct
  <2> QED
    BY <1>0, <1>1, <1>3, <2>2, <2>5 DEF Distinct
<1>7. Held'
  BY <1>0, <1>1, <1>3, <1>5 DEF Held
<1>8. Limits'
  BY <1>0, <1>1 DEF Limits, Pending, Component, Region, Regions, ActiveCapacity
<1> QED
  BY <1>6, <1>7, <1>8 DEF DrainInv

LEMMA DrainFinish ==
    ASSUME DrainInv, Shape', NEW w \in Workers, NEW b \in BOOLEAN, WorkerFinish(w, b)
    PROVE  DrainInv'
<1>0. Shape /\ Distinct /\ Held /\ Limits /\ Work
  BY DEF DrainInv, Shape
<1>1. /\ worker[w] = "busy" /\ finished' = finished \cup {job[w]}
      /\ worker' = [worker EXCEPT ![w] = "idle"] /\ job' = [job EXCEPT ![w] = NoInvocation]
      /\ UNCHANGED <<setup, pc, region, at, todo, queue, awaited>>
  BY DEF WorkerFinish, runtime, position
<1>2. w \in Busy /\ Busy' = Busy \ {w} /\ \A v \in Busy' : job'[v] = job[v]
  BY <1>0, <1>1 DEF Busy, Work
<1>3. InFlight' = InFlight \ {job[w]} /\ job[w] \in InFlight
  <2>1. InFlight = {job[v] : v \in Busy} /\ InFlight' = {job'[v] : v \in Busy'}
    BY DEF InFlight, Busy
  <2>2. \A u, v \in Busy : u # v => job[u] # job[v]
    BY <1>0 DEF Distinct
  <2> QED
    BY <1>2, <2>1, <2>2
<1>4. Distinct'
  <2>1. /\ ItemsOf(todo) \cap (ItemsOf(queue) \cup InFlight \cup finished) = {}
        /\ ItemsOf(queue) \cap (InFlight \cup finished) = {}
        /\ InFlight \cap finished = {}
    BY <1>0 DEF Distinct
  <2>2. /\ ItemsOf(todo') \cap (ItemsOf(queue') \cup InFlight' \cup finished') = {}
        /\ ItemsOf(queue') \cap (InFlight' \cup finished') = {}
        /\ InFlight' \cap finished' = {}
    BY <1>1, <1>3, <2>1
  <2>3. \A u, v \in Busy' : u # v => job'[u] # job'[v]
    BY <1>0, <1>2 DEF Distinct
  <2> QED
    BY <1>0, <1>1, <2>2, <2>3 DEF Distinct
<1>5. Held'
  BY <1>0, <1>1, <1>3 DEF Held
<1>6. Limits'
  BY <1>0, <1>1 DEF Limits, Pending, Component, Region, Regions, ActiveCapacity
<1> QED
  BY <1>4, <1>5, <1>6 DEF DrainInv

LEMMA DrainInit == Init => DrainInv
<1> SUFFICES ASSUME Init PROVE DrainInv
  OBVIOUS
<1>1. Shape
  BY ShapeInit
<1>2. Busy = {} /\ InFlight = {} /\ ItemsOf(todo) = {} /\ ItemsOf(queue) = {}
  BY DEF Init, Busy, InFlight, ItemsOf
<1>3. NoRepeats(todo) /\ NoRepeats(queue)
  BY DEF Init, NoRepeats
<1>4. Distinct
  BY <1>2, <1>3 DEF Init, Distinct
<1>5. Held
  BY <1>2, FS_EmptySet DEF Init, Held
<1>6. Limits
  BY DEF Init, Limits
<1> QED
  BY <1>1, <1>4, <1>5, <1>6 DEF DrainInv

LEMMA DrainStep == DrainInv /\ [Next]_vars => DrainInv'
<1> SUFFICES ASSUME DrainInv, [Next]_vars PROVE DrainInv'
  OBVIOUS
<1>0. Shape /\ Shape' /\ Work
  BY ShapeStep DEF DrainInv, Shape
<1>1. CASE UNCHANGED vars
  BY <1>0, <1>1, DrainKept DEF vars, pool, position
<1>2. CASE Goes
  BY <1>0, <1>2, DrainGoes
<1>3. ASSUME NEW n \in 0 .. setup.ready, Collect(n) PROVE DrainInv'
  <2>1. n \in Nat
    BY <1>0, SetupFacts DEF Shape
  <2> QED
    BY <1>0, <1>3, <2>1, DrainCollect
<1>4. ASSUME NEW b \in BOOLEAN, NEW a \in BOOLEAN, ExecuteInline(b, a) PROVE DrainInv'
  BY <1>0, <1>4, DrainInline
<1>5. CASE Submit
  BY <1>0, <1>5, DrainSubmit
<1>6. ASSUME NEW a \in BOOLEAN, RecordBatch(a) PROVE DrainInv'
  BY <1>0, <1>6, DrainRecord
<1>7. ASSUME NEW w \in Workers, WorkerTake(w) PROVE DrainInv'
  BY <1>0, <1>7, DrainTake
<1>8. ASSUME NEW w \in Workers, WorkerWait(w) PROVE DrainInv'
  <2>1. /\ UNCHANGED <<setup, pc, region, at, todo, queue, job, awaited, finished>>
        /\ \A v \in Workers : worker'[v] = "busy" <=> worker[v] = "busy"
    BY <1>0, <1>8 DEF WorkerWait, Work, runtime, work, position
  <2> QED
    BY <1>0, <2>1, DrainKept
<1>9. ASSUME NEW w \in Workers, NEW b \in BOOLEAN, WorkerFinish(w, b) PROVE DrainInv'
  BY <1>0, <1>9, DrainFinish
<1> QED
  BY <1>1, <1>2, <1>3, <1>4, <1>5, <1>6, <1>7, <1>8, <1>9, NextSteps

-----------------------------------------------------------------------------
(* The counts: result.tick_calls and the invocations made.                 *)

Counted ==
    /\ ticks \in Nat /\ ticksBefore \in Nat /\ ticksBefore <= ticks
    /\ ticks + Cardinality(Pending) <= made
    /\ Len(todo) + Len(queue) <= made

LEMMA CountedKept ==
    ASSUME Counted, UNCHANGED <<made, ticks, todo, awaited>>, Len(queue') = Len(queue),
           ticksBefore' \in {ticks, ticksBefore}
    PROVE  Counted'
BY DEF Counted, Pending

LEMMA CountedGoes ==
    ASSUME DrainInv, Counted, Goes
    PROVE  Counted'
<1> USE DEF position, result, pool, stages, clock, runtime, work
<1>0. Shape /\ Held /\ Work
  BY DEF DrainInv, Shape
<1>1. UNCHANGED <<made, todo, queue, job>>
  BY <1>0, GoesLightly
<1>2. ticks' = ticks /\ ticksBefore' \in {ticks, ticksBefore}
  <2>1. CASE \E d \in setup.durations : EndEpoch(d)
    BY <2>1 DEF EndEpoch
  <2>2. CASE RequestStop \/ EndRun \/ (\E b \in BOOLEAN : BeginEpoch(b)) \/ EnterRegion \/ LeaveComponents \/ NextIteration
    BY <2>2 DEF RequestStop, EndRun, BeginEpoch, EnterRegion, LeaveComponents, NextIteration
  <2>3. CASE \E why \in {"converged", "budget_overrun", "max_iterations", "cancelled"}, a \in BOOLEAN : FinishLoop(why, a)
    BY <2>3 DEF FinishLoop
  <2>4. CASE StopBeforeSubmit \/ BeginBatch \/ StopPool
    BY <2>4 DEF StopBeforeSubmit, BeginBatch, StopPool
  <2> QED
    BY <2>1, <2>2, <2>3, <2>4 DEF Goes
<1>3. Pending' = Pending
  <2>1. CASE BeginBatch
    <3>1. pc = "pool" /\ awaited = {} /\ awaited' = Elements(SubSeq(todo, 1, SubmitFrom))
      BY <2>1 DEF BeginBatch
    <3>2. awaited' \subseteq ItemsOf(todo)
      BY <1>0, <3>1, BatchFacts DEF Work
    <3> QED
      BY <1>1, <3>1, <3>2 DEF Pending
  <2>2. CASE ~BeginBatch
    <3>1. awaited' = awaited
      BY <2>2 DEF Goes, EndRun, BeginEpoch, EndEpoch, EnterRegion, LeaveComponents, NextIteration,
                  FinishLoop, StopBeforeSubmit, RequestStop, StopPool
    <3> QED
      BY <1>1, <3>1 DEF Pending
  <2> QED
    BY <2>1, <2>2
<1> QED
  BY <1>1, <1>2, <1>3 DEF Counted

LEMMA CountedCollect ==
    ASSUME DrainInv, Counted, NEW n \in Nat, Collect(n)
    PROVE  Counted'
<1>0. Shape /\ Held /\ Work
  BY DEF DrainInv, Shape
<1>1. UNCHANGED <<ticks, ticksBefore, awaited, queue>> /\ made' = made + n
  BY DEF Collect, pool
<1>2. pc = "component" /\ (todo' = todo \/ Fresh(todo', n))
  BY <1>0, CollectFacts
<1>3. Cardinality(Pending) \in Nat /\ Len(todo) \in Nat /\ Len(queue) \in Nat /\ made \in Nat
  BY <1>0, PendingFinite DEF Work
<1>4. CASE todo' = todo
  <2>1. Pending' = Pending
    BY <1>1, <1>4 DEF Pending
  <2> QED
    BY <1>1, <1>3, <1>4, <2>1 DEF Counted
<1>5. CASE Fresh(todo', n)
  <2>1. Pending' = ItemsOf(todo')
    BY <1>0, <1>1, <1>2 DEF Pending, Held
  <2>2. Cardinality(ItemsOf(todo')) \in Nat /\ Cardinality(ItemsOf(todo')) <= Len(todo')
    BY <1>5, ItemsFinite DEF Fresh
  <2>3. Len(todo') \in Nat /\ Len(todo') <= n
    BY <1>5 DEF Fresh
  <2> QED
    BY <1>1, <1>3, <2>1, <2>2, <2>3 DEF Counted
<1> QED
  BY <1>2, <1>4, <1>5

LEMMA CountedInline ==
    ASSUME DrainInv, Counted, NEW b \in BOOLEAN, NEW a \in BOOLEAN, ExecuteInline(b, a)
    PROVE  Counted'
<1>0. Shape /\ Held /\ Work /\ Distinct
  BY DEF DrainInv, Shape
<1>1. /\ pc = "inline" /\ todo' = Tail(todo) /\ todo # <<>>
      /\ UNCHANGED <<ticksBefore, awaited, queue, made>> /\ ticks' \in {ticks, ticks + 1}
  BY <1>0 DEF ExecuteInline, Work
<1>2. Pending = ItemsOf(todo) /\ Pending' = ItemsOf(todo')
  BY <1>0, <1>1 DEF Pending, Held
<1>3. ItemsOf(todo') = ItemsOf(todo) \ {todo[1]} /\ todo[1] \in ItemsOf(todo)
  BY <1>0, <1>1, ItemsTail DEF Work, Distinct
<1>4. IsFiniteSet(ItemsOf(todo)) /\ Cardinality(ItemsOf(todo)) \in Nat /\ Len(queue) \in Nat /\ made \in Nat
  BY <1>0, PendingFinite DEF Work
<1>5. Cardinality(ItemsOf(todo')) = Cardinality(ItemsOf(todo)) - 1
  BY <1>3, <1>4, FS_RemoveElement
<1>6. Len(todo') = Len(todo) - 1 /\ Len(todo) \in Nat
  BY <1>0, <1>1, TailFacts DEF Work
<1> QED
  BY <1>1, <1>2, <1>4, <1>5, <1>6 DEF Counted

LEMMA CountedSubmit ==
    ASSUME DrainInv, Counted, Submit
    PROVE  Counted'
<1>0. Shape /\ Held /\ Work /\ Distinct
  BY DEF DrainInv, Shape
<1>1. /\ pc = "submit" /\ todo' = Tail(todo) /\ queue' = Append(queue, Head(todo)) /\ todo # <<>>
      /\ UNCHANGED <<ticks, ticksBefore, awaited, made>>
  BY <1>0 DEF Submit, Work, result
<1>2. Head(todo) \in Invocations /\ Len(todo') = Len(todo) - 1 /\ Len(todo) \in Nat
  BY <1>0, <1>1, TailFacts DEF Work
<1>3. Len(queue') = Len(queue) + 1 /\ Len(queue) \in Nat
  BY <1>0, <1>1, <1>2 DEF Work
<1>4. ItemsOf(todo') = ItemsOf(todo) \ {todo[1]} /\ todo[1] \in ItemsOf(todo)
  BY <1>0, <1>1, ItemsTail DEF Work, Distinct
<1>5. Pending' = Pending
  BY <1>0, <1>1, <1>4 DEF Pending, Held
<1> QED
  BY <1>1, <1>2, <1>3, <1>5 DEF Counted

\* The outcomes recorded are of invocations that were still pending.
LEMMA CountedRecord ==
    ASSUME DrainInv, Counted, NEW a \in BOOLEAN, RecordBatch(a)
    PROVE  Counted'
<1> DEFINE good == {inv \in awaited : \A f \in awaited \cap failures : inv.id < f.id}
<1>0. Shape /\ Held /\ Work /\ Distinct
  BY DEF DrainInv, Shape
<1>1. /\ Drained /\ awaited' = {} /\ UNCHANGED <<ticksBefore, todo, queue, made>>
      /\ ticks' \in {ticks + 0, ticks + Cardinality(good)}
  BY DEF RecordBatch
<1>2. good \in SUBSET awaited
  OBVIOUS
<1> HIDE DEF good
<1>3. IsFiniteSet(awaited) /\ IsFiniteSet(ItemsOf(todo)) /\ Cardinality(ItemsOf(todo)) \in Nat
      /\ Cardinality(awaited) \in Nat
  BY <1>0, PendingFinite DEF Held
<1>4. Cardinality(good) \in Nat /\ Cardinality(good) <= Cardinality(awaited)
  BY <1>2, <1>3, FS_Subset, FS_CardinalityType
<1>5. awaited \cap ItemsOf(todo) = {}
  BY <1>0, <1>1, DrainedMeansIdle DEF Distinct
<1>6. Cardinality(Pending) = Cardinality(awaited) + Cardinality(ItemsOf(todo))
  <2>1. Cardinality(awaited \cup ItemsOf(todo))
            = Cardinality(awaited) + Cardinality(ItemsOf(todo)) - Cardinality(awaited \cap ItemsOf(todo))
    BY <1>3, FS_Union
  <2>2. Cardinality(awaited \cap ItemsOf(todo)) = 0
    BY <1>5, FS_EmptySet
  <2> QED
    BY <1>3, <2>1, <2>2 DEF Pending
<1>7. Pending' = ItemsOf(todo)
  BY <1>1 DEF Pending
<1>8. ticks \in Nat /\ ticksBefore \in Nat /\ made \in Nat
  BY <1>0 DEF Counted, Work
<1>9. ticks' \in Nat /\ ticksBefore <= ticks' /\ ticks' + Cardinality(ItemsOf(todo)) <= made
  BY <1>1, <1>3, <1>4, <1>6, <1>8 DEF Counted
<1> QED
  BY <1>1, <1>7, <1>9 DEF Counted

LEMMA CountedStep == DrainInv /\ Counted /\ [Next]_vars => Counted'
<1> SUFFICES ASSUME DrainInv, Counted, [Next]_vars PROVE Counted'
  OBVIOUS
<1>0. Shape /\ Work
  BY DEF DrainInv, Shape
<1>1. CASE UNCHANGED vars
  BY <1>1, CountedKept DEF vars, pool, result
<1>2. CASE Goes
  BY <1>2, CountedGoes
<1>3. ASSUME NEW n \in 0 .. setup.ready, Collect(n) PROVE Counted'
  <2>1. n \in Nat
    BY <1>0, SetupFacts DEF Shape
  <2> QED
    BY <1>3, <2>1, CountedCollect
<1>4. ASSUME NEW b \in BOOLEAN, NEW a \in BOOLEAN, ExecuteInline(b, a) PROVE Counted'
  BY <1>4, CountedInline
<1>5. CASE Submit
  BY <1>5, CountedSubmit
<1>6. ASSUME NEW a \in BOOLEAN, RecordBatch(a) PROVE Counted'
  BY <1>6, CountedRecord
<1>7. ASSUME NEW w \in Workers, WorkerTake(w) PROVE Counted'
  <2>1. /\ UNCHANGED <<made, ticks, ticksBefore, todo, awaited>>
        /\ queue # <<>> /\ queue' = Tail(queue)
    BY <1>7 DEF WorkerTake, runtime, result
  <2>2. Len(queue') = Len(queue) - 1 /\ Len(queue) \in Nat /\ Len(todo) \in Nat /\ made \in Nat
    BY <1>0, <2>1, TailFacts DEF Work
  <2> QED
    BY <2>1, <2>2 DEF Counted, Pending
<1>8. ASSUME NEW w \in Workers, WorkerWait(w) PROVE Counted'
  BY <1>8, CountedKept DEF WorkerWait, runtime, result
<1>9. ASSUME NEW w \in Workers, NEW b \in BOOLEAN, WorkerFinish(w, b) PROVE Counted'
  BY <1>9, CountedKept DEF WorkerFinish, runtime, result
<1> QED
  BY <1>1, <1>2, <1>3, <1>4, <1>5, <1>6, <1>7, <1>8, <1>9, NextSteps

-----------------------------------------------------------------------------
(* The clock of the fixed_rate lanes.                                      *)

Timed ==
    /\ now \in Nat /\ due \in [Lanes -> Nat] /\ tick \in [Lanes -> Nat] /\ tickCount \in [Lanes -> Nat]
    /\ \A l \in Lanes : tick[l] <= due[l] /\ tickCount[l] = iterations

\* The runtime thread is in an epoch.
InEpoch(place) == place \notin {"boundary", "returned"}

\* Only the beginning and the end of an epoch use the clock; no other step enters an epoch or
\* comes to a boundary.
ClockStands ==
    /\ UNCHANGED <<setup, iterations, now, due, tick, tickCount, skipped>>
    /\ pc' = pc \/ pc' = "returned" \/ (InEpoch(pc) /\ InEpoch(pc'))

LEMMA ClockRests ==
    ASSUME Next
    PROVE  \/ \E b \in BOOLEAN : BeginEpoch(b)
           \/ \E d \in setup.durations : EndEpoch(d)
           \/ ClockStands
<1> USE DEF position, result, pool, stages, clock, runtime, work, ClockStands, InEpoch, Return, GiveUp
<1>1. CASE Goes
  <2>1. CASE RequestStop \/ EndRun \/ EnterRegion \/ LeaveComponents \/ NextIteration
    BY <2>1 DEF RequestStop, EndRun, EnterRegion, LeaveComponents, NextIteration
  <2>2. CASE \E why \in {"converged", "budget_overrun", "max_iterations", "cancelled"}, a \in BOOLEAN : FinishLoop(why, a)
    BY <2>2 DEF FinishLoop
  <2>3. CASE StopBeforeSubmit \/ BeginBatch \/ StopPool
    BY <2>3 DEF StopBeforeSubmit, BeginBatch, StopPool
  <2> QED
    BY <1>1, <2>1, <2>2, <2>3 DEF Goes
<1>2. CASE \E n \in 0 .. setup.ready : Collect(n)
  BY <1>2 DEF Collect
<1>3. CASE \E s, a \in BOOLEAN : ExecuteInline(s, a)
  BY <1>3 DEF ExecuteInline
<1>4. CASE Submit \/ \E a \in BOOLEAN : RecordBatch(a)
  BY <1>4 DEF Submit, RecordBatch
<1>5. ASSUME NEW w \in Workers, WorkerTake(w) \/ WorkerWait(w) \/ \E s \in BOOLEAN : WorkerFinish(w, s)
      PROVE  ClockStands
  BY <1>5 DEF WorkerTake, WorkerWait, WorkerFinish
<1> QED
  BY <1>1, <1>2, <1>3, <1>4, <1>5, NextSteps

LEMMA WakeTimeType ==
    ASSUME setup \in Setups, Timed
    PROVE  /\ WakeTime \in Nat /\ WakeTime >= now
           /\ iterations # 0 => \A l \in Lanes : due[l] <= WakeTime
<1> DEFINE Ticks == {due[l] : l \in Lanes}
           Times == {now} \cup Ticks
<1>1. IsFiniteSet(Lanes)
  BY RuntimeAssumption DEF Lanes
<1>2. due \in Surjection(Lanes, Ticks)
  <2>1. due = [l \in Lanes |-> due[l]]
    BY DEF Timed
  <2> QED
    BY <2>1 DEF Surjection
<1>3. Ticks \subseteq Nat /\ now \in Nat
  BY DEF Timed
<1>4. IsFiniteSet(Times) /\ Times \in SUBSET Nat /\ Times # {}
  <2>1. Times \in SUBSET Nat /\ Times # {}
    BY <1>3
  <2> HIDE DEF Ticks
  <2>2. IsFiniteSet(Ticks)
    BY <1>1, <1>2, FS_Surjection
  <2>3. IsFiniteSet({now})
    BY FS_Singleton, Zenon
  <2>4. IsFiniteSet(Times)
    BY <2>2, <2>3, FS_Union
  <2> QED
    BY <2>1, <2>4
<1>5. Max(Times) \in Nat /\ \A y \in Times : Max(Times) >= y
  <2> HIDE DEF Times
  <2> QED
    BY <1>4, MaxMember
<1>6. now \in Times /\ \A l \in Lanes : due[l] \in Times /\ due[l] \in Nat
  BY <1>3
<1>7. Max(Times) >= now /\ \A l \in Lanes : due[l] <= Max(Times)
  <2> HIDE DEF Times
  <2> QED
    BY <1>3, <1>5, <1>6
<1>8. WakeTime = IF iterations = 0 THEN now ELSE Max(Times)
  BY DEF WakeTime
<1> HIDE DEF Times
<1> QED
  BY <1>3, <1>5, <1>7, <1>8

\* The next tick of a lane is no earlier than the nominal one.
LEMMA NextTickLater ==
    ASSUME setup \in Setups, NEW l \in Lanes, NEW nominal \in Nat, NEW ended \in Nat
    PROVE  NextTick(l, nominal, ended) \in Nat /\ NextTick(l, nominal, ended) >= nominal
<1>1. setup.period[l] \in Nat
  BY RuntimeAssumption DEF Lanes
<1> QED
  BY <1>1 DEF NextTick

LEMMA TimedStep == Shape /\ Timed /\ [Next]_vars => Timed'
<1> SUFFICES ASSUME Shape, Timed, [Next]_vars PROVE Timed'
  OBVIOUS
<1>0. setup \in Setups /\ iterations \in Nat /\ setup.durations \subseteq Nat
  BY SetupFacts DEF Shape
<1>1. CASE ClockStands
  BY <1>1 DEF Timed, Lanes, ClockStands
<1>2. ASSUME NEW b \in BOOLEAN, BeginEpoch(b) PROVE Timed'
  <2>1. now' = WakeTime /\ tick' = due /\ UNCHANGED <<setup, iterations, due, tickCount>>
    BY <1>2 DEF BeginEpoch
  <2>2. WakeTime \in Nat
    BY <1>0, WakeTimeType
  <2>3. \A l \in Lanes : due[l] <= due[l]
    BY DEF Timed
  <2> QED
    BY <2>1, <2>2, <2>3 DEF Timed, Lanes
<1>3. ASSUME NEW d \in setup.durations, EndEpoch(d) PROVE Timed'
  <2> DEFINE Ended == now + d
             Nominal(l) == tick[l] + setup.period[l]
  <2>1. /\ now' = Ended /\ due' = [l \in Lanes |-> NextTick(l, Nominal(l), Ended)]
        /\ tickCount' = [l \in Lanes |-> tickCount[l] + 1] /\ iterations' = iterations + 1
        /\ setup' = setup /\ tick' = tick
    BY <1>3 DEF EndEpoch
  <2>2. Ended \in Nat
    BY <1>0 DEF Timed
  <2>3. \A l \in Lanes : Nominal(l) \in Nat /\ Nominal(l) >= tick[l] /\ tick[l] \in Nat
    <3>1. \A l \in Lanes : setup.period[l] \in Nat
      BY <1>0, RuntimeAssumption DEF Lanes
    <3> QED
      BY <3>1 DEF Timed
  <2> HIDE DEF Ended, Nominal
  <2>4. \A l \in Lanes : NextTick(l, Nominal(l), Ended) \in Nat /\ NextTick(l, Nominal(l), Ended) >= Nominal(l)
    BY <1>0, <2>2, <2>3, NextTickLater
  <2>5. \A l \in Lanes : NextTick(l, Nominal(l), Ended) \in Nat /\ tick[l] <= NextTick(l, Nominal(l), Ended)
    BY <2>3, <2>4
  <2>6. Lanes' = Lanes
    BY <2>1 DEF Lanes
  <2>7. \A l \in Lanes : tickCount[l] + 1 \in Nat /\ tickCount[l] + 1 = iterations + 1
    BY <1>0 DEF Timed
  <2>8. due' \in [Lanes -> Nat] /\ \A l \in Lanes : tick[l] <= due'[l]
    BY <2>1, <2>5
  <2>9. tickCount' \in [Lanes -> Nat] /\ \A l \in Lanes : tickCount'[l] = iterations'
    BY <2>1, <2>7
  <2> QED
    BY <2>1, <2>2, <2>6, <2>8, <2>9 DEF Timed
<1>4. CASE UNCHANGED vars
  BY <1>1, <1>4 DEF vars, result, clock, ClockStands
<1> QED
  BY <1>1, <1>2, <1>3, <1>4, ClockRests

-----------------------------------------------------------------------------
(* The flags, the epochs and the iterations of loops.                      *)

Places == {"boundary", "region", "component", "inline", "pool", "submit", "drain", "iterated", "returned"}
Reasons == {"tick_bound", "stop_requested", "duration_bound", "error", "idle"}
LoopLimit == Max({1} \cup {Regions[i].loop.max_iterations : i \in DOMAIN Regions})

\* An epoch begins only while there are iterations left.
Rounds ==
    /\ stop \in BOOLEAN /\ ok \in BOOLEAN /\ pc \in Places /\ reason \in Reasons
    /\ iterations <= setup.iterations
    /\ pc \notin {"boundary", "returned"} => iterations < setup.iterations

LoopEnds == DOMAIN loopEnd \subseteq (1 .. iterations + 1) \X DOMAIN Regions

LoopBounded == loopIter \in 1 .. LoopLimit

LEMMA LoopLimitFacts ==
    ASSUME setup \in Setups
    PROVE  /\ LoopLimit \in Nat \ {0}
           /\ \A i \in 1 .. Len(Regions) : Regions[i].loop.max_iterations \in Nat
                                            /\ Regions[i].loop.max_iterations <= LoopLimit
<1> DEFINE Limit == [i \in DOMAIN Regions |-> Regions[i].loop.max_iterations]
           LimitsOf == {Regions[i].loop.max_iterations : i \in DOMAIN Regions}
           All == {1} \cup LimitsOf
<1>1. DOMAIN Regions = 1 .. Len(Regions) /\ Len(Regions) \in Nat
      /\ \A i \in 1 .. Len(Regions) : Regions[i].loop \in Loops \cup {NoLoop}
  BY SetupFacts
<1>2. \A i \in 1 .. Len(Regions) : Regions[i].loop.max_iterations \in Nat
  <2>1. \A loop \in Loops : loop.max_iterations \in Nat
    BY DEF Loops
  <2>2. NoLoop.max_iterations \in Nat
    BY DEF NoLoop
  <2> QED
    BY <1>1, <2>1, <2>2
<1>3. Limit \in Surjection(DOMAIN Regions, LimitsOf)
  BY DEF Surjection
<1>4. IsFiniteSet(DOMAIN Regions)
  <2> DEFINE n == Len(Regions)
  <2>1. n \in Nat /\ DOMAIN Regions = 1 .. n
    BY <1>1
  <2> HIDE DEF n
  <2> QED
    BY <2>1, FS_Interval
<1>5. All \in SUBSET Nat /\ 1 \in All /\ LimitsOf \subseteq All
  BY <1>1, <1>2
<1>6. IsFiniteSet(All)
  <2> HIDE DEF LimitsOf, Limit
  <2>1. IsFiniteSet(LimitsOf)
    BY <1>3, <1>4, FS_Surjection
  <2>2. IsFiniteSet({1})
    BY FS_Singleton, Zenon
  <2> QED
    BY <2>1, <2>2, FS_Union
<1>7. LoopLimit = Max(All)
  BY DEF LoopLimit
<1>8. Max(All) \in All /\ \A y \in All : Max(All) >= y
  <2> HIDE DEF All
  <2> QED
    BY <1>5, <1>6, MaxMember
<1>9. \A i \in 1 .. Len(Regions) : Regions[i].loop.max_iterations \in All
  BY <1>1
<1> HIDE DEF All
<1>10. Max(All) \in Nat /\ Max(All) >= 1
  BY <1>5, <1>8
<1>11. \A i \in 1 .. Len(Regions) : Max(All) >= Regions[i].loop.max_iterations
  BY <1>8, <1>9
<1> QED
  BY <1>2, <1>7, <1>10, <1>11

LEMMA SetupFixed ==
    ASSUME Shape, [Next]_vars
    PROVE  setup' = setup
<1> USE DEF position, result, pool, stages, clock, runtime, work
<1>1. CASE Goes
  BY <1>1, GoesOn
<1>2. CASE (\E n \in 0 .. setup.ready : Collect(n)) \/ (\E s, a \in BOOLEAN : ExecuteInline(s, a))
  BY <1>2 DEF Collect, ExecuteInline
<1>3. CASE Submit \/ \E a \in BOOLEAN : RecordBatch(a)
  BY <1>3 DEF Submit, RecordBatch
<1>4. ASSUME NEW w \in Workers, WorkerTake(w) \/ WorkerWait(w) \/ \E s \in BOOLEAN : WorkerFinish(w, s)
      PROVE  setup' = setup
  BY <1>4 DEF WorkerTake, WorkerWait, WorkerFinish
<1>5. CASE UNCHANGED vars
  BY <1>5 DEF vars
<1> QED
  BY <1>1, <1>2, <1>3, <1>4, <1>5, NextSteps

LEMMA RoundsGoes ==
    ASSUME Shape, Rounds, LoopBounded, Goes
    PROVE  Rounds' /\ LoopBounded'
<1> USE DEF position, result, pool, stages, clock, runtime, work
<1>0. setup \in Setups /\ iterations \in Nat /\ setup.iterations \in Nat /\ InPlan
  BY SetupFacts DEF Shape
<1>1. setup' = setup /\ LoopLimit' = LoopLimit
  BY GoesOn DEF LoopLimit, Regions
<1>2. LoopLimit \in Nat \ {0}
  BY <1>0, LoopLimitFacts
<1>3. CASE RequestStop \/ StopPool
  BY <1>0, <1>1, <1>3 DEF RequestStop, StopPool, Rounds, LoopBounded
<1>4. CASE EndRun
  BY <1>0, <1>1, <1>4 DEF EndRun, Return, Rounds, LoopBounded, Places, Reasons
<1>5. CASE \E b \in BOOLEAN : BeginEpoch(b)
  BY <1>0, <1>1, <1>5 DEF BeginEpoch, Return, Rounds, LoopBounded, Places, Reasons
<1>6. CASE \E d \in setup.durations : EndEpoch(d)
  <2>1. /\ pc = "region" /\ iterations' = iterations + 1 /\ UNCHANGED <<setup, stop, loopIter>>
        /\ \/ pc' = "returned" /\ reason' = "idle" /\ ok' = ok
           \/ pc' = "boundary" /\ reason' = reason /\ ok' = ok
    BY <1>6 DEF EndEpoch, Return
  <2> QED
    BY <1>0, <1>1, <2>1 DEF Rounds, LoopBounded, Places, Reasons
<1>7. CASE EnterRegion
  BY <1>0, <1>1, <1>2, <1>7 DEF EnterRegion, Rounds, LoopBounded, Places
<1>8. CASE LeaveComponents
  BY <1>0, <1>1, <1>8 DEF LeaveComponents, Rounds, LoopBounded, Places
<1>9. CASE NextIteration
  <2>1. pc = "iterated" /\ loopIter < Region.loop.max_iterations /\ loopIter' = loopIter + 1
    BY <1>9 DEF NextIteration, MoreIterations
  <2>2. Region.loop.max_iterations \in Nat /\ Region.loop.max_iterations <= LoopLimit
    BY <1>0, <2>1, LoopLimitFacts DEF InPlan, Region
  <2>3. LoopBounded'
    BY <1>1, <1>2, <2>1, <2>2 DEF LoopBounded
  <2> QED
    BY <1>0, <1>1, <1>9, <2>3 DEF NextIteration, Rounds, Places
<1>10. ASSUME NEW why \in {"converged", "budget_overrun", "max_iterations", "cancelled"}, NEW a \in BOOLEAN,
              FinishLoop(why, a)
       PROVE  Rounds' /\ LoopBounded'
  <2>1. /\ pc = "iterated" /\ UNCHANGED <<setup, stop, loopIter, iterations>>
        /\ \/ pc' = "returned" /\ reason' = "error" /\ ok' = FALSE
           \/ pc' = "returned" /\ reason' = "stop_requested" /\ ok' = ok
           \/ pc' = "region" /\ reason' = reason /\ ok' = ok
    BY <1>10 DEF FinishLoop, Return
  <2>3. LoopBounded'
    BY <1>1, <2>1 DEF LoopBounded
  <2>4. Rounds'
    BY <1>0, <2>1 DEF Rounds, Places, Reasons
  <2> QED
    BY <2>3, <2>4
<1>11. CASE StopBeforeSubmit
  BY <1>0, <1>1, <1>11
     DEF StopBeforeSubmit, GiveUp, Return, Rounds, LoopBounded, Places, Reasons
<1>12. CASE BeginBatch
  BY <1>0, <1>1, <1>12 DEF BeginBatch, Rounds, LoopBounded, Places
<1> QED
  BY <1>3, <1>4, <1>5, <1>6, <1>7, <1>8, <1>9, <1>10, <1>11, <1>12 DEF Goes

\* The steps that execute a component are within an epoch.
LEMMA RoundsExecute ==
    ASSUME Shape, Rounds, LoopBounded, UNCHANGED <<setup, stop, loopIter, iterations>>,
           pc' = pc \/ pc \notin {"boundary", "returned"},
           \/ pc' = "returned" /\ reason' = "error" /\ ok' = FALSE
           \/ pc' \in Places /\ UNCHANGED <<reason, ok>>
    PROVE  Rounds' /\ LoopBounded'
<1>1. LoopLimit' = LoopLimit /\ iterations \in Nat
  BY DEF LoopLimit, Regions, Shape
<1>2. Rounds'
  BY DEF Rounds, Places, Reasons
<1> QED
  BY <1>1, <1>2 DEF LoopBounded

LEMMA RoundsStep == Shape /\ Rounds /\ LoopBounded /\ [Next]_vars => Rounds' /\ LoopBounded'
<1> SUFFICES ASSUME Shape, Rounds, LoopBounded, [Next]_vars
             PROVE  Rounds' /\ LoopBounded'
  OBVIOUS
<1> USE DEF position, result, pool, stages, clock, runtime, work
<1>0. pc \in Places
  BY DEF Rounds
<1>1. CASE UNCHANGED vars
  BY <1>0, <1>1, RoundsExecute DEF vars
<1>2. CASE Goes
  BY <1>2, RoundsGoes
<1>3. ASSUME NEW n \in 0 .. setup.ready, Collect(n) PROVE Rounds' /\ LoopBounded'
  BY <1>0, <1>3, RoundsExecute DEF Collect, GiveUp, Return, EndLoop, Epoch, Places
<1>4. ASSUME NEW b \in BOOLEAN, NEW a \in BOOLEAN, ExecuteInline(b, a) PROVE Rounds' /\ LoopBounded'
  BY <1>0, <1>4, RoundsExecute DEF ExecuteInline, GiveUp, Return, EndLoop, Epoch, Places
<1>5. CASE Submit
  BY <1>0, <1>5, RoundsExecute DEF Submit, Places
<1>6. ASSUME NEW a \in BOOLEAN, RecordBatch(a) PROVE Rounds' /\ LoopBounded'
  BY <1>0, <1>6, RoundsExecute DEF RecordBatch, GiveUp, Return, EndLoop, Epoch, Places
<1>7. ASSUME NEW w \in Workers, WorkerTake(w) \/ WorkerWait(w) PROVE Rounds' /\ LoopBounded'
  BY <1>0, <1>7, RoundsExecute DEF WorkerTake, WorkerWait
<1>8. ASSUME NEW w \in Workers, NEW b \in BOOLEAN, WorkerFinish(w, b) PROVE Rounds' /\ LoopBounded'
  BY <1>0, <1>8, RoundsExecute DEF WorkerFinish
<1> QED
  BY <1>1, <1>2, <1>3, <1>4, <1>5, <1>6, <1>7, <1>8, NextSteps

\* A stop reason is recorded only for the loop the runtime thread is in, which then is over
\* or ends the run.
LEMMA LoopsEnd ==
    ASSUME Shape, Next
    PROVE  \/ loopEnd' = loopEnd
           \/ /\ pc \in {"component", "inline", "pool", "drain", "iterated"} /\ pc' \in {"region", "returned"}
              /\ region \in 1 .. Len(Regions) /\ UNCHANGED <<setup, iterations>>
              /\ \E why : EndLoop(why)
<1> USE DEF position, result, pool, stages, clock, runtime, work
<1>0. pc \in {"component", "inline", "pool", "drain", "iterated"} => region \in 1 .. Len(Regions)
  BY DEF Shape, InPlan
<1>1. CASE Goes
  <2>1. CASE RequestStop \/ EndRun \/ EnterRegion \/ LeaveComponents \/ NextIteration
    BY <2>1 DEF RequestStop, EndRun, EnterRegion, LeaveComponents, NextIteration
  <2>2. CASE \E why \in {"converged", "budget_overrun", "max_iterations", "cancelled"}, a \in BOOLEAN : FinishLoop(why, a)
    BY <1>0, <2>2 DEF FinishLoop, Return
  <2>3. CASE BeginBatch \/ StopPool
    BY <2>3 DEF BeginBatch, StopPool
  <2>4. CASE StopBeforeSubmit
    BY <1>0, <2>4 DEF StopBeforeSubmit, GiveUp, Return
  <2>5. CASE \E b \in BOOLEAN : BeginEpoch(b)
    BY <2>5 DEF BeginEpoch
  <2>6. CASE \E d \in setup.durations : EndEpoch(d)
    BY <2>6 DEF EndEpoch
  <2> QED
    BY <1>1, <2>1, <2>2, <2>3, <2>4, <2>5, <2>6 DEF Goes
<1>2. CASE \E n \in 0 .. setup.ready : Collect(n)
  BY <1>0, <1>2 DEF Collect, GiveUp, Return
<1>3. CASE \E s, a \in BOOLEAN : ExecuteInline(s, a)
  BY <1>0, <1>3 DEF ExecuteInline, GiveUp, Return
<1>4. CASE Submit
  BY <1>4 DEF Submit
<1>5. CASE \E a \in BOOLEAN : RecordBatch(a)
  BY <1>0, <1>5 DEF RecordBatch, GiveUp, Return
<1>6. ASSUME NEW w \in Workers, WorkerTake(w) \/ WorkerWait(w) \/ \E s \in BOOLEAN : WorkerFinish(w, s)
      PROVE  loopEnd' = loopEnd
  BY <1>6 DEF WorkerTake, WorkerWait, WorkerFinish
<1> QED
  BY <1>1, <1>2, <1>3, <1>4, <1>5, <1>6, NextSteps

LEMMA LoopEndsStep == Shape /\ LoopEnds /\ [Next]_vars => LoopEnds'
<1> SUFFICES ASSUME Shape, LoopEnds, [Next]_vars PROVE LoopEnds'
  OBVIOUS
<1>1. setup' = setup /\ iterations \in Nat /\ iterations' \in Nat /\ iterations' >= iterations
  <2>1. setup' = setup
    BY SetupFixed
  <2> QED
    BY <2>1, EpochsPass DEF Passes
<1>2. Regions' = Regions /\ DOMAIN Regions = 1 .. Len(Regions)
  BY <1>1, SetupFacts DEF Regions, Shape
<1>3. CASE loopEnd' = loopEnd
  <2> DEFINE later == iterations'
  <2>1. later \in Nat /\ later >= iterations
    BY <1>1
  <2> HIDE DEF later
  <2>2. \A x \in 1 .. iterations + 1 : x \in 1 .. later + 1
    BY <1>1, <2>1
  <2> QED
    BY <1>2, <1>3, <2>2 DEF LoopEnds, later
<1>4. ASSUME NEW why, EndLoop(why), region \in 1 .. Len(Regions), iterations' = iterations PROVE LoopEnds'
  <2>1. DOMAIN loopEnd' = DOMAIN loopEnd \cup {<<iterations + 1, region>>}
    BY <1>4 DEF EndLoop, Epoch
  <2>2. <<iterations + 1, region>> \in (1 .. iterations + 1) \X DOMAIN Regions
    BY <1>1, <1>2, <1>4
  <2> QED
    BY <1>2, <1>4, <2>1, <2>2 DEF LoopEnds
<1>5. CASE UNCHANGED vars
  BY <1>3, <1>5 DEF vars, stages
<1> QED
  BY <1>3, <1>4, <1>5, LoopsEnd

-----------------------------------------------------------------------------
(* The workers hold what is awaited, within the limits of the lane.        *)

WorkInv == DrainInv /\ Counted /\ Timed /\ Rounds /\ LoopEnds /\ LoopBounded

LEMMA WorkInit == Init => WorkInv
<1> SUFFICES ASSUME Init PROVE WorkInv
  OBVIOUS
<1>1. DrainInv
  BY DrainInit
<1>2. Counted
  <2>1. Pending = {}
    BY DEF Init, Pending, ItemsOf
  <2>2. Cardinality(Pending) = 0
    BY <2>1, FS_EmptySet
  <2>3. Len(todo) = 0 /\ Len(queue) = 0
    BY DEF Init
  <2> QED
    BY <2>2, <2>3 DEF Init, Counted
<1>3. Timed
  BY DEF Init, Timed, Lanes
<1>4. setup.iterations \in Nat /\ LoopLimit \in Nat \ {0}
  BY SetupFacts, LoopLimitFacts DEF Init
<1>5. Rounds /\ LoopEnds
  <2>1. pc = "boundary" /\ reason = "tick_bound" /\ iterations = 0
    BY DEF Init
  <2>2. stop \in BOOLEAN /\ ok \in BOOLEAN
    BY DEF Init
  <2>3. Rounds
    BY <1>4, <2>1, <2>2 DEF Rounds, Places, Reasons
  <2>4. DOMAIN loopEnd = {}
    BY DEF Init
  <2> QED
    BY <2>3, <2>4 DEF LoopEnds
<1>6. LoopBounded
  BY <1>4 DEF Init, LoopBounded
<1> QED
  BY <1>1, <1>2, <1>3, <1>5, <1>6 DEF WorkInv

LEMMA WorkStep == WorkInv /\ [Next]_vars => WorkInv'
<1> SUFFICES ASSUME WorkInv, [Next]_vars PROVE WorkInv'
  OBVIOUS
<1>1. DrainInv' /\ Counted'
  BY DrainStep, CountedStep DEF WorkInv
<1>2. Timed'
  BY TimedStep DEF WorkInv, DrainInv
<1>3. Rounds' /\ LoopEnds' /\ LoopBounded'
  BY RoundsStep, LoopEndsStep DEF WorkInv, DrainInv
<1> QED
  BY <1>1, <1>2, <1>3 DEF WorkInv

LEMMA WorkTyped ==
    ASSUME WorkInv
    PROVE  TypeOK
<1>1. Shape /\ Counted /\ Timed /\ Rounds /\ LoopEnds /\ LoopBounded /\ Held
  BY DEF WorkInv, DrainInv
<1>2. Cardinality(Pending) \in Nat /\ made \in Nat /\ iterations \in Nat
  BY <1>1, PendingFinite DEF Shape, Work
<1>3. iterations \in 0 .. setup.iterations
  BY <1>1, <1>2, SetupFacts DEF Rounds, Shape
<1>4. ticksBefore <= ticks /\ ticks <= made /\ Len(todo) + Len(queue) <= made
  BY <1>1, <1>2 DEF Counted
<1>5. loopIter \in 1 .. Max({1} \cup {Regions[i].loop.max_iterations : i \in DOMAIN Regions})
  BY <1>1 DEF LoopBounded, LoopLimit
<1>6. DOMAIN loopEnd \subseteq (1 .. Epoch) \X DOMAIN Regions
  BY <1>1 DEF LoopEnds, Epoch
<1>7. setup \in Setups /\ region \in 1 .. Len(Regions) + 1
  BY <1>1 DEF Shape, InPlan
<1>8. stop \in BOOLEAN /\ ok \in BOOLEAN /\ pc \in Places /\ reason \in Reasons
  BY <1>1 DEF Rounds
<1>9. \A l \in Lanes : tick[l] <= due[l] /\ tickCount[l] = iterations
  BY <1>1 DEF Timed
<1> QED
  BY <1>3, <1>4, <1>5, <1>6, <1>7, <1>8, <1>9 DEF TypeOK, Places, Reasons

\* No more workers are busy than the component may use.
LEMMA OverlapIsBounded ==
    ASSUME WorkInv
    PROVE  OverlapBounded
<1>1. Shape /\ Held /\ Limits
  BY DEF WorkInv, DrainInv
<1>2. InFlight \in SUBSET awaited /\ IsFiniteSet(awaited)
  BY <1>1 DEF Held
<1>3. IsFiniteSet(InFlight) /\ Cardinality(InFlight) <= Cardinality(awaited)
  BY <1>2, FS_Subset
<1>4. Cardinality(InFlight) \in Nat /\ Cardinality(awaited) \in Nat
  BY <1>2, <1>3, FS_CardinalityType
<1>5. CASE pc \notin {"submit", "drain"}
  <2>1. InFlight = {}
    BY <1>1, <1>5, NothingHeld
  <2>2. Cardinality(InFlight) = 0
    BY <2>1, FS_EmptySet
  <2> QED
    BY <1>5, <2>2 DEF OverlapBounded
<1>6. CASE pc \in {"submit", "drain"}
  <2>1. Cardinality(InFlight) <= ActiveCapacity
    <3>1. CASE Component \notin setup.reentrant
      BY <1>1, <1>3, <1>4, <1>6, <3>1 DEF Limits, ActiveCapacity
    <3>2. CASE Component \in setup.reentrant
      <4> DEFINE Jobs == [w \in Busy |-> job[w]]
      <4>1. Jobs \in Surjection(Busy, InFlight)
        BY DEF Surjection, InFlight, Busy
      <4>2. IsFiniteSet(Workers) /\ Busy \in SUBSET Workers
        BY RuntimeAssumption DEF Busy
      <4>3. IsFiniteSet(Busy) /\ Cardinality(Busy) <= Cardinality(Workers)
        BY <4>2, FS_Subset
      <4> HIDE DEF Jobs
      <4>4. Cardinality(InFlight) <= Cardinality(Busy)
        BY <4>1, <4>3, FS_Surjection
      <4>5. Cardinality(Busy) \in Nat /\ Cardinality(Workers) \in Nat
        BY <4>2, <4>3, FS_CardinalityType
      <4> QED
        BY <1>4, <3>2, <4>3, <4>4, <4>5 DEF ActiveCapacity
    <3> QED
      BY <3>1, <3>2
  <2>2. Elements(todo) = ItemsOf(todo)
    BY DEF Elements, ItemsOf
  <2> QED
    BY <1>1, <1>6, <2>1, <2>2 DEF OverlapBounded, Limits, Pending
<1> QED
  BY <1>5, <1>6

\* For every plan, run options, number of workers and of ready invocations: whatever the
\* workers of a lane execute or have queued is awaited by the runtime thread, so none of it
\* is left when EventRuntime::run goes on to another component or returns; a component that
\* is not reentrant never overlaps itself, and the lane holds no more than it admits.
THEOREM WorkIsDrained == Spec => []WorkDrained
<1>1. WorkInv => WorkDrained
  <2> SUFFICES ASSUME WorkInv PROVE WorkDrained
    OBVIOUS
  <2>1. InFlight \cup ItemsOf(queue) \subseteq awaited
    BY DEF WorkInv, DrainInv, Held
  <2>2. Elements(queue) = ItemsOf(queue)
    BY DEF Elements, ItemsOf
  <2> QED
    BY <2>1, <2>2, WorkTyped, OverlapIsBounded DEF WorkDrained
<1> QED
  BY <1>1, WorkInit, WorkStep, PTL DEF Spec

-----------------------------------------------------------------------------
(* The ticks of the lanes are accounted for.                               *)

\* Whole periods.
LEMMA WholePeriods ==
    ASSUME NEW a \in Nat, NEW p \in Nat \ {0}
    PROVE  /\ a \div p \in Nat
           /\ (a \div p) * p <= a
           /\ a < (a \div p) * p + p
<1>1. a \div p \in Nat
  OBVIOUS
<1>2. (a \div p) * p <= a
  OBVIOUS
<1>3. a < (a \div p) * p + p
  OBVIOUS
<1> QED
  BY <1>1, <1>2, <1>3

LEMMA PeriodsWithin ==
    ASSUME NEW a \in Nat, NEW p \in Nat \ {0}, NEW k \in Nat, k * p <= a
    PROVE  k <= a \div p
<1> DEFINE d == a \div p
<1>1. d \in Nat /\ a < d * p + p
  BY WholePeriods
<1> HIDE DEF d
<1>2. d * p + p = (d + 1) * p
  BY <1>1
<1>3. ASSUME k >= d + 1 PROVE FALSE
  BY <1>1, <1>2, <1>3
<1>4. k <= d
  BY <1>1, <1>3
<1> QED
  BY <1>4 DEF d

LEMMA PeriodsAdd ==
    ASSUME NEW a \in Nat, NEW b \in Nat, NEW p \in Nat
    PROVE  (a + 1 + b) * p = a * p + p + b * p /\ (a + b) * p = a * p + b * p
OBVIOUS

\* Ticks executed and skipped.
Spent(l) == tickCount[l] + skipped[l]

\* Where skipped ticks are whole periods, the ticks counted so far end before the next one is
\* due, and all but one have come.
SpentInTime(l) ==
    /\ skipped[l] \in Nat
    /\ Spent(l) * setup.period[l] <= due[l]
    /\ Spent(l) <= 1 + now \div setup.period[l]

Paced ==
    \A l \in Lanes :
        /\ iterations = 0 /\ pc = "boundary" => due[l] = 0
        /\ InEpoch(pc) => tick[l] = due[l] /\ due[l] <= now
        /\ setup.overrun[l] # "skip_next" => SpentInTime(l)

TickInv == Shape /\ Timed /\ Paced

\* One epoch: a lane that had spent n ticks by the tick at `start' has spent the missed periods
\* and one more at the end, and the next tick is due no earlier than they end.
LEMMA EpochSpends ==
    ASSUME NEW n \in Nat, NEW p \in Nat \ {0}, NEW start \in Nat, NEW ended \in Nat,
           n * p <= start, start <= ended,
           NEW late \in Nat, late = IF ended > start + p THEN ended - (start + p) ELSE 0,
           NEW next \in Nat, ended <= start + p => next = start + p,
           ended > start + p => next = ended \/ next = ended + p
    PROVE  /\ late \div p \in Nat
           /\ (n + 1 + late \div p) * p <= next
           /\ n + 1 + late \div p <= 1 + ended \div p
<1> DEFINE q == late \div p
<1>1. q \in Nat /\ q * p <= late
  BY WholePeriods
<1> HIDE DEF q
<1>2. (n + 1 + q) * p = n * p + p + q * p /\ (n + q) * p = n * p + q * p
  BY <1>1, PeriodsAdd
<1>3. n * p \in Nat /\ q * p \in Nat
  BY <1>1
<1> DEFINE np == n * p
           qp == q * p
<1>4. np \in Nat /\ qp \in Nat /\ qp <= late /\ np <= start
  BY <1>1, <1>3
<1> HIDE DEF np, qp
<1>5. np + qp <= ended
  BY <1>4
<1>6. np + p + qp <= next
  BY <1>4
<1>7. (n + 1 + q) * p <= next
  BY <1>2, <1>6 DEF np, qp
<1>8. n + q <= ended \div p
  BY <1>1, <1>2, <1>5, PeriodsWithin DEF np, qp
<1>9. ended \div p \in Nat
  BY WholePeriods
<1> QED
  BY <1>1, <1>7, <1>8, <1>9 DEF q

LEMMA LaneFacts ==
    ASSUME setup \in Setups, NEW l \in Lanes
    PROVE  /\ setup.period[l] \in Nat \ {0}
           /\ setup.overrun[l] \in {"drop_tick", "skip_next", "catch_up_once"}
BY RuntimeAssumption DEF Lanes

\* A later time leaves the accounts in order.
LEMMA SpentLater ==
    ASSUME setup \in Setups, Timed, NEW l \in Lanes, SpentInTime(l), now' \in Nat, now' >= now,
           UNCHANGED <<setup, due, tickCount, skipped>>
    PROVE  SpentInTime(l)'
<1> DEFINE p == setup.period[l]
           later == now'
<1>1. p \in Nat \ {0} /\ now \in Nat
  BY LaneFacts DEF Timed
<1>2. now \div p \in Nat /\ (now \div p) * p <= now
  BY <1>1, WholePeriods
<1>3. later \in Nat /\ (now \div p) * p <= later
  <2> HIDE DEF p
  <2>1. (now \div p) * p \in Nat
    BY <1>1, <1>2
  <2> QED
    BY <1>1, <1>2, <2>1
<1>4. now \div p <= later \div p /\ later \div p \in Nat
  <2> HIDE DEF p, later
  <2> QED
    BY <1>1, <1>2, <1>3, PeriodsWithin, WholePeriods
<1>5. Spent(l) \in Nat
  BY DEF Spent, SpentInTime, Timed
<1>6. Spent(l) <= 1 + later \div p
  BY <1>2, <1>4, <1>5 DEF SpentInTime
<1>7. Spent(l)' = Spent(l)
  BY DEF Spent
<1> QED
  BY <1>6, <1>7 DEF SpentInTime

LEMMA PacedBegin ==
    ASSUME TickInv, NEW b \in BOOLEAN, BeginEpoch(b)
    PROVE  Paced'
<1>1. /\ pc = "boundary" /\ now' = WakeTime /\ tick' = due /\ pc' # "boundary"
      /\ UNCHANGED <<setup, iterations, due, tickCount, skipped>>
  BY DEF BeginEpoch, Return
<1>2. setup \in Setups /\ now \in Nat
  BY DEF TickInv, Shape, Timed
<1>3. /\ WakeTime \in Nat /\ WakeTime >= now
      /\ iterations # 0 => \A l \in Lanes : due[l] <= WakeTime
  BY <1>2, WakeTimeType DEF TickInv
<1>4. \A l \in Lanes : due[l] <= WakeTime
  BY <1>1, <1>2, <1>3 DEF TickInv, Paced
<1>5. ASSUME NEW l \in Lanes, setup.overrun[l] # "skip_next" PROVE SpentInTime(l)'
  <2>1. SpentInTime(l)
    BY <1>5 DEF TickInv, Paced
  <2> QED
    BY <1>1, <1>2, <1>3, <2>1, SpentLater DEF TickInv
<1>6. Lanes' = Lanes
  BY <1>1 DEF Lanes
<1> QED
  BY <1>1, <1>4, <1>5, <1>6 DEF Paced

LEMMA PacedEnd ==
    ASSUME TickInv, NEW d \in setup.durations, EndEpoch(d)
    PROVE  Paced'
<1> DEFINE Ended == now + d
           Nominal(l) == tick[l] + setup.period[l]
           Late(l) == IF Ended > Nominal(l) THEN Ended - Nominal(l) ELSE 0
<1>1. /\ pc = "region" /\ pc' \in {"boundary", "returned"}
      /\ now' = Ended /\ due' = [l \in Lanes |-> NextTick(l, Nominal(l), Ended)]
      /\ tickCount' = [l \in Lanes |-> tickCount[l] + 1] /\ iterations' = iterations + 1
      /\ skipped' = [l \in Lanes |-> skipped[l] + MissedTicks(l, Late(l))]
      /\ setup' = setup /\ tick' = tick
  BY DEF EndEpoch, Return
<1>2. setup \in Setups /\ iterations \in Nat /\ d \in Nat /\ now \in Nat
  BY SetupFacts DEF TickInv, Shape, Timed
<1>3. Lanes' = Lanes
  BY <1>1 DEF Lanes
<1>4. ASSUME NEW l \in Lanes, setup.overrun[l] # "skip_next" PROVE SpentInTime(l)'
  <2> DEFINE p == setup.period[l]
             start == tick[l]
             late == Late(l)
             next == NextTick(l, Nominal(l), Ended)
             n == Spent(l)
  <2>1. p \in Nat \ {0} /\ start \in Nat /\ Ended \in Nat /\ tickCount[l] \in Nat
    BY <1>2, LaneFacts DEF TickInv, Timed
  <2>2. SpentInTime(l) /\ start = due[l] /\ due[l] <= now
    BY <1>1, <1>4 DEF TickInv, Paced, InEpoch
  <2>3. skipped[l] \in Nat /\ n \in Nat /\ n = tickCount[l] + skipped[l] /\ n * p <= start
    BY <2>1, <2>2 DEF SpentInTime, Spent
  <2>4. start <= Ended
    BY <1>2, <2>1, <2>2
  <2>5. late \in Nat /\ late = IF Ended > start + p THEN Ended - (start + p) ELSE 0
    BY <2>1
  <2>6. MissedTicks(l, late) = late \div p
    BY <1>4 DEF MissedTicks
  <2>7. next = IF Ended <= start + p THEN start + p
               ELSE IF setup.overrun[l] = "catch_up_once" THEN Ended ELSE Ended + p
    BY <1>4 DEF NextTick
  <2>8. /\ now' = Ended /\ due'[l] = next /\ setup'.period[l] = p
        /\ tickCount'[l] = tickCount[l] + 1 /\ skipped'[l] = skipped[l] + late \div p
    BY <1>1, <2>6
  <2> HIDE DEF Ended, Nominal, Late, p, start, late, next, n
  <2>9. /\ next \in Nat /\ (Ended <= start + p => next = start + p)
        /\ (Ended > start + p => next = Ended \/ next = Ended + p)
    BY <2>1, <2>7
  <2>10. /\ late \div p \in Nat
         /\ (n + 1 + late \div p) * p <= next
         /\ n + 1 + late \div p <= 1 + Ended \div p
    BY <2>1, <2>3, <2>4, <2>5, <2>9, EpochSpends
  <2> DEFINE q == late \div p
  <2>11. tickCount'[l] + skipped'[l] = n + 1 + q /\ skipped'[l] \in Nat
    <3> HIDE DEF q
    <3>1. q \in Nat
      BY <2>10 DEF q
    <3>2. skipped'[l] = skipped[l] + q
      BY <2>8 DEF q
    <3> QED
      BY <2>1, <2>3, <2>8, <3>1, <3>2
  <2>12. Spent(l)' = n + 1 + q
    BY <2>11 DEF Spent
  <2>13. Spent(l)' * setup'.period[l] <= due'[l]
    BY <2>8, <2>10, <2>12
  <2>14. Spent(l)' <= 1 + now' \div setup'.period[l]
    BY <2>8, <2>10, <2>12
  <2> QED
    BY <2>11, <2>13, <2>14 DEF SpentInTime
<1> HIDE DEF Ended, Nominal, Late
<1>5. iterations' # 0
  BY <1>1, <1>2
<1> QED
  BY <1>1, <1>3, <1>4, <1>5 DEF Paced, InEpoch

LEMMA TickStep == TickInv /\ [Next]_vars => TickInv'
<1> SUFFICES ASSUME TickInv, [Next]_vars PROVE TickInv'
  OBVIOUS
<1>1. Shape' /\ Timed'
  BY ShapeStep, TimedStep DEF TickInv
<1>2. ASSUME ClockStands PROVE Paced'
  <2>1. \A l \in Lanes : SpentInTime(l)' <=> SpentInTime(l)
    BY <1>2 DEF ClockStands, SpentInTime, Spent
  <2>2. Lanes' = Lanes
    BY <1>2 DEF ClockStands, Lanes
  <2> QED
    BY <1>2, <2>1, <2>2 DEF ClockStands, TickInv, Paced, InEpoch
<1>3. ASSUME UNCHANGED vars PROVE ClockStands
  BY <1>3 DEF vars, result, clock, ClockStands
<1>4. Paced'
  BY <1>2, <1>3, ClockRests, PacedBegin, PacedEnd
<1> QED
  BY <1>1, <1>4 DEF TickInv

LEMMA TickInit == Init => TickInv
<1> SUFFICES ASSUME Init PROVE TickInv
  OBVIOUS
<1>1. Shape /\ Timed
  BY WorkInit DEF WorkInv, DrainInv
<1>2. setup \in Setups /\ pc = "boundary"
  BY DEF Init
<1>3. \A l \in Lanes : due[l] = 0 /\ tickCount[l] = 0 /\ skipped[l] = 0 /\ now = 0
  BY DEF Init, Lanes
<1>4. ASSUME NEW l \in Lanes PROVE SpentInTime(l)
  <2> DEFINE p == setup.period[l]
  <2>1. p \in Nat \ {0}
    BY <1>2, LaneFacts
  <2> HIDE DEF p
  <2>2. Spent(l) = 0 /\ 0 * p = 0 /\ 0 \div p \in Nat
    BY <1>3, <2>1, WholePeriods DEF Spent
  <2>3. Spent(l) * p <= due[l] /\ Spent(l) <= 1 + now \div p
    BY <1>3, <2>2
  <2> QED
    BY <1>3, <2>3 DEF SpentInTime, p
<1> QED
  BY <1>1, <1>2, <1>3, <1>4 DEF TickInv, Paced, InEpoch

\* For every plan, every period and overrun policy and however long the epochs last: a
\* fixed_rate lane begins no epoch before its tick, and, unless its policy is skip_next, the
\* ticks it counts as executed and as skipped are together no more than have come due.
THEOREM TicksAreAccounted == Spec => []TicksAccounted
<1>1. TickInv => TicksAccounted
  <2> SUFFICES ASSUME TickInv, NEW l \in Lanes
               PROVE  /\ pc = "region" => tick[l] <= now
                      /\ setup.overrun[l] # "skip_next" => tickCount[l] + skipped[l] <= 1 + now \div setup.period[l]
    BY DEF TicksAccounted
  <2> QED
    BY DEF TickInv, Paced, InEpoch, SpentInTime, Spent
<1> QED
  BY <1>1, TickInit, TickStep, PTL DEF Spec

-----------------------------------------------------------------------------
(* Only success becomes visible.                                           *)

Executing == {"inline", "pool", "submit", "drain"}

\* What is to be done is of the component that the runtime thread executes, and a reentrant
\* component submits all of it at once.
Current ==
    /\ pc \in Executing =>
          \A x \in Pending : x.component = Component /\ x.epoch = Epoch /\ (x.loop <=> InLoop)
    /\ pc \notin Executing \cup {"returned"} => todo = <<>>
    /\ pc = "inline" => Component \notin setup.reentrant
    /\ pc = "iterated" => InLoop
    /\ pc = "submit" /\ Component \in setup.reentrant => ItemsOf(todo) \subseteq awaited
    /\ pc = "drain" /\ Component \in setup.reentrant => todo = <<>>

\* Invocations are numbered as they are made, and what is visible is no longer to be done.
NumberedInvocations ==
    /\ \A x \in Pending \cup visible \cup regionStage : x \in Invocations /\ x.id <= made
    /\ visible \cap Pending = {}

\* A failure, and a publication not yet committed, is of the batch the runtime thread waits
\* for; staged outputs are of the loop it is in.
StagesHeld ==
    pc # "returned" =>
        /\ failures \subseteq finished
        /\ \A x \in immediate : x \in finished /\ ~x.loop
        /\ \A x \in regionStage :
              x.loop /\ x.epoch = Epoch /\ InLoop /\ InRegion(x, region) /\ pc \notin {"boundary", "region"}

\* The runtime thread has left the component of x behind in this epoch: it is in an earlier
\* region, or, outside of loops, at an earlier place of this one, or at this place and not
\* all of its invocations go together.
Behind(x) ==
    \E i \in 1 .. Len(Regions) : \E j \in 1 .. Len(Regions[i].components) :
        /\ Regions[i].components[j] = x.component
        /\ \/ i < region
           \/ i = region /\ pc # "region" /\ ~InLoop /\ (j < at \/ (j = at /\ Component \notin setup.reentrant))

Shown ==
    \A x \in visible :
        /\ PastAt(x.epoch, iterations, pc)
        /\ InEpoch(pc) /\ x.epoch = Epoch => Behind(x)

SuccessInv ==
    /\ DrainInv
    /\ Current /\ NumberedInvocations /\ StagesHeld /\ Shown
    /\ FailedNeverVisible /\ LoopOutputsWhole

\* A component has one place in the plan.
LEMMA OnePlace ==
    ASSUME setup \in Setups, NEW i \in 1 .. Len(Regions), NEW j \in 1 .. Len(Regions),
           NEW m \in 1 .. Len(Regions[i].components), NEW n \in 1 .. Len(Regions[j].components),
           Regions[i].components[m] = Regions[j].components[n]
    PROVE  i = j /\ m = n
<1>1. DOMAIN Regions = 1 .. Len(Regions) /\ \A k \in 1 .. Len(Regions) : Regions[k].components \in Seq(Nat \ {0})
  BY SetupFacts
<1>2. \A k \in 1 .. Len(Regions) : DOMAIN Regions[k].components = 1 .. Len(Regions[k].components)
  BY <1>1, LenProperties
<1>3. \A k, l \in DOMAIN Regions :
        \A a \in DOMAIN Regions[k].components, b \in DOMAIN Regions[l].components :
          Regions[k].components[a] = Regions[l].components[b] => k = l /\ a = b
  BY RuntimeAssumption DEF Regions
<1>4. i \in DOMAIN Regions /\ j \in DOMAIN Regions
  BY <1>1
<1>5. m \in DOMAIN Regions[i].components /\ n \in DOMAIN Regions[j].components
  BY <1>2
<1> QED
  BY <1>3, <1>4, <1>5, Zenon

LEMMA RegionMembers ==
    ASSUME setup \in Setups, NEW i \in 1 .. Len(Regions), NEW x
    PROVE  InRegion(x, i) <=> \E m \in 1 .. Len(Regions[i].components) : Regions[i].components[m] = x.component
<1>1. Regions[i].components \in Seq(Nat \ {0})
  BY SetupFacts
<1>2. DOMAIN Regions[i].components = 1 .. Len(Regions[i].components)
  BY <1>1, LenProperties
<1> QED
  BY <1>2 DEF InRegion, Elements

LEMMA OneRegion ==
    ASSUME setup \in Setups, NEW i \in 1 .. Len(Regions), NEW j \in 1 .. Len(Regions),
           NEW x, NEW y, InRegion(x, i), InRegion(y, j), x.component = y.component
    PROVE  i = j
<1>1. PICK m \in 1 .. Len(Regions[i].components) : Regions[i].components[m] = x.component
  BY RegionMembers
<1>2. PICK n \in 1 .. Len(Regions[j].components) : Regions[j].components[n] = y.component
  BY RegionMembers
<1>3. Regions[i].components[m] = Regions[j].components[n]
  BY <1>1, <1>2
<1> QED
  BY <1>3, OnePlace

\* In a loop, what is behind is of an earlier region.
LEMMA BehindTheLoop ==
    ASSUME setup \in Setups, NEW x, Behind(x), InLoop \/ pc = "region"
    PROVE  \E i \in 1 .. Len(Regions) : i < region /\ InRegion(x, i)
<1>1. PICK i \in 1 .. Len(Regions) :
        i < region /\ \E j \in 1 .. Len(Regions[i].components) : Regions[i].components[j] = x.component
  BY DEF Behind
<1>2. InRegion(x, i)
  BY <1>1, RegionMembers
<1> QED
  BY <1>1, <1>2

\* A reentrant component that is being executed, outside of loops, is not behind.
LEMMA NotYetBehind ==
    ASSUME Shape, pc \in Executing, ~InLoop, Component \in setup.reentrant, NEW x, Behind(x)
    PROVE  x.component # Component
<1>1. setup \in Setups /\ region \in 1 .. Len(Regions) /\ at \in 1 .. Len(Regions[region].components) /\ at \in Nat
  BY DEF Shape, InPlan, Executing, Region
<1>5. PICK i \in 1 .. Len(Regions) : \E j \in 1 .. Len(Regions[i].components) :
        /\ Regions[i].components[j] = x.component
        /\ i < region \/ (i = region /\ j < at)
  BY DEF Behind
<1>2. PICK j \in 1 .. Len(Regions[i].components) :
        /\ Regions[i].components[j] = x.component
        /\ i < region \/ (i = region /\ j < at)
  BY <1>5
<1>3. Component = Regions[region].components[at]
  BY DEF Component, Region
<1>4. ASSUME x.component = Component PROVE FALSE
  <2>1. i = region /\ j = at
    BY <1>1, <1>2, <1>3, <1>4, OnePlace
  <2>2. region \in Nat /\ ~(region < region) /\ ~(at < at)
    BY <1>1, SetupFacts
  <2> QED
    BY <1>2, <2>1, <2>2
<1> QED
  BY <1>4

\* The component that is executed is one of its region.
LEMMA HereInRegion ==
    ASSUME Shape, pc \in Executing, NEW x, x.component = Component
    PROVE  region \in 1 .. Len(Regions) /\ InRegion(x, region)
<1>1. setup \in Setups /\ region \in 1 .. Len(Regions) /\ at \in 1 .. Len(Regions[region].components)
  BY DEF Shape, InPlan, Executing, Region
<1>2. Component = Regions[region].components[at]
  BY DEF Component, Region
<1> QED
  BY <1>1, <1>2, RegionMembers

-----------------------------------------------------------------------------
(* Steps that only move on in the plan.                                    *)

LoopDone(v) ==
    \E i \in DOMAIN Regions :
        /\ Regions[i].loop # NoLoop /\ InRegion(v, i)
        /\ <<v.epoch, i>> \in DOMAIN loopEnd
        /\ loopEnd[<<v.epoch, i>>] # "component_error"
        /\ loopEnd[<<v.epoch, i>>] = "converged" \/ ~Regions[i].loop.solver \/ Regions[i].loop.partial = "commit_outputs"
        /\ \A other \in regionStage : other.epoch = v.epoch => ~InRegion(other, i)

LEMMA LoopsDone == LoopOutputsWhole <=> \A v \in visible : v.loop => LoopDone(v)
BY DEF LoopOutputsWhole, LoopDone

Moves ==
    /\ UNCHANGED <<setup, made, todo, awaited, finished, failures, immediate, visible, loopEnd>>
    /\ regionStage' \in {regionStage, {}}
    /\ \/ UNCHANGED <<pc, region, at, iterations>>
       \/ /\ pc \notin Executing \cup {"returned"} /\ pc' \notin Executing
          /\ \/ pc' = "returned"
             \/ pc = "region" /\ pc' = "boundary"
             \/ pc = "boundary" /\ pc' = "region" /\ iterations' = iterations
             \/ InEpoch(pc) /\ iterations' = iterations /\ region' = region + 1 /\ pc' = "region" /\ ~InLoop
             \/ InEpoch(pc) /\ iterations' = iterations /\ region' = region
                /\ ((pc = "region" /\ pc' = "component") \/ InLoop) /\ pc' \notin {"boundary", "region"}

LEMMA MovesOn ==
    ASSUME \/ RequestStop \/ EndRun \/ \E b \in BOOLEAN : BeginEpoch(b)
           \/ \E d \in setup.durations : EndEpoch(d)
           \/ EnterRegion \/ LeaveComponents \/ NextIteration \/ StopPool
           \/ \E w \in Workers : WorkerTake(w) \/ WorkerWait(w)
           \/ UNCHANGED vars,
           pc = "iterated" => InLoop
    PROVE  Moves
<1> USE DEF position, result, pool, stages, clock, runtime, work, Moves, Executing, InEpoch, Return
<1>1. CASE RequestStop \/ StopPool
  BY <1>1 DEF RequestStop, StopPool
<1>2. CASE EndRun
  BY <1>2 DEF EndRun
<1>3. CASE \E b \in BOOLEAN : BeginEpoch(b)
  BY <1>3 DEF BeginEpoch
<1>4. CASE \E d \in setup.durations : EndEpoch(d)
  BY <1>4 DEF EndEpoch
<1>5. CASE EnterRegion
  BY <1>5 DEF EnterRegion
<1>6. CASE LeaveComponents
  BY <1>6 DEF LeaveComponents
<1>7. CASE NextIteration
  BY <1>7 DEF NextIteration
<1>8. CASE \E w \in Workers : WorkerTake(w) \/ WorkerWait(w)
  BY <1>8 DEF WorkerTake, WorkerWait
<1>9. CASE UNCHANGED vars
  BY <1>9 DEF vars
<1> QED
  BY <1>1, <1>2, <1>3, <1>4, <1>5, <1>6, <1>7, <1>8, <1>9

\* What is behind stays behind.
LEMMA BehindKept ==
    ASSUME Shape, Shape', setup' = setup, NEW x, Behind(x),
           \/ region' = region + 1
           \/ region' = region /\ (pc = "region" \/ InLoop)
           \/ UNCHANGED <<region, at>> /\ pc' # "region"
           \/ region' = region /\ at' = at + 1 /\ pc' # "region"
    PROVE  Behind(x)'
<1>1. /\ Regions' = Regions /\ Len(Regions) \in Nat /\ region \in Nat /\ at \in Nat
      /\ region' \in Nat /\ at' \in Nat
  <2>1. Regions' = Regions /\ Len(Regions) \in Nat
    BY SetupFacts DEF Regions, Shape
  <2> QED
    BY <2>1 DEF Shape, InPlan
<1>2. PICK i \in 1 .. Len(Regions) : \E j \in 1 .. Len(Regions[i].components) :
        /\ Regions[i].components[j] = x.component
        /\ \/ i < region
           \/ i = region /\ pc # "region" /\ ~InLoop /\ (j < at \/ (j = at /\ Component \notin setup.reentrant))
  BY DEF Behind
<1>3. PICK j \in 1 .. Len(Regions[i].components) :
        /\ Regions[i].components[j] = x.component
        /\ \/ i < region
           \/ i = region /\ pc # "region" /\ ~InLoop /\ (j < at \/ (j = at /\ Component \notin setup.reentrant))
  BY <1>2
<1>4. ASSUME i < region' PROVE Behind(x)'
  BY <1>1, <1>3, <1>4 DEF Behind
<1>5. ASSUME i = region, region' = region, pc' # "region", ~InLoop,
             j < at' \/ (j = at' /\ at' = at /\ Component \notin setup.reentrant)
      PROVE  Behind(x)'
  <2>1. ~InLoop' /\ (at' = at => Component' = Component)
    BY <1>1, <1>5 DEF InLoop, Component, Region
  <2>2. i = region' /\ (j < at' \/ (j = at' /\ Component' \notin setup'.reentrant))
    BY <1>5, <2>1
  <2> QED
    BY <1>1, <1>3, <1>5, <2>1, <2>2 DEF Behind
<1>6. i \in Nat /\ j \in Nat
  <2>1. Regions[i].components \in Seq(Nat \ {0})
    BY SetupFacts DEF Shape
  <2>2. Len(Regions[i].components) \in Nat
    BY <2>1
  <2> QED
    BY <1>1, <2>2
<1>7. CASE region' = region + 1
  BY <1>1, <1>3, <1>4, <1>6, <1>7
<1>8. CASE region' = region /\ (pc = "region" \/ InLoop)
  BY <1>3, <1>4, <1>8
<1>9. CASE UNCHANGED <<region, at>> /\ pc' # "region"
  BY <1>3, <1>4, <1>5, <1>9
<1>10. CASE region' = region /\ at' = at + 1 /\ pc' # "region"
  <2>1. j < at \/ j = at => j < at'
    BY <1>1, <1>6, <1>10
  <2> QED
    BY <1>3, <1>4, <1>5, <1>10, <2>1
<1> QED
  BY <1>7, <1>8, <1>9, <1>10

LEMMA MovesKeep ==
    ASSUME SuccessInv, DrainInv', Moves, Passes
    PROVE  SuccessInv'
<1>1. Shape /\ Shape' /\ Current /\ NumberedInvocations /\ StagesHeld /\ Shown /\ iterations \in Nat
  BY DEF SuccessInv, DrainInv, Shape
<1>2. UNCHANGED <<setup, made, todo, awaited, finished, failures, immediate, visible, loopEnd>>
  BY DEF Moves
<1>3. regionStage' \subseteq regionStage
  BY DEF Moves
<1>4. Pending' = Pending /\ Regions' = Regions
  BY <1>2 DEF Pending, Regions
<1>5. Current'
  <2>1. CASE UNCHANGED <<pc, region, at, iterations>>
    BY <1>1, <1>2, <1>4, <2>1 DEF Current, Component, Region, Epoch, InLoop
  <2>2. CASE pc \notin Executing \cup {"returned"} /\ pc' \notin Executing /\ ~UNCHANGED <<pc, region, at, iterations>>
    <3>1. pc' = "iterated" => InLoop'
      <4>1. pc' = "iterated" => region' = region /\ InLoop
        BY <2>2 DEF Moves
      <4> QED
        BY <1>4, <4>1 DEF InLoop, Region
    <3> QED
      BY <1>1, <1>2, <2>2, <3>1 DEF Current, Executing
  <2> QED
    BY <2>1, <2>2 DEF Moves
<1>6. NumberedInvocations'
  BY <1>1, <1>2, <1>3, <1>4 DEF NumberedInvocations
<1>7. StagesHeld'
  <2> SUFFICES ASSUME pc' # "returned" PROVE StagesHeld'
    BY DEF StagesHeld
  <2>1. pc # "returned"
    BY DEF Moves
  <2>2. failures' \subseteq finished' /\ \A x \in immediate' : x \in finished' /\ ~x.loop
    BY <1>1, <1>2, <2>1 DEF StagesHeld
  <2>3. \A x \in regionStage :
          x.loop /\ x.epoch = Epoch /\ InLoop /\ InRegion(x, region) /\ pc \notin {"boundary", "region"}
    BY <1>1, <2>1 DEF StagesHeld
  <2>4. CASE UNCHANGED <<pc, region, at, iterations>>
    BY <1>3, <1>4, <2>2, <2>3, <2>4 DEF StagesHeld, Epoch, InLoop, Region, InRegion
  <2>5. CASE pc \in {"boundary", "region"} \/ ~InLoop
    BY <1>3, <2>2, <2>3, <2>5 DEF StagesHeld
  <2>6. CASE InLoop /\ region' = region /\ iterations' = iterations /\ pc' \notin {"boundary", "region"}
    BY <1>3, <1>4, <2>2, <2>3, <2>6 DEF StagesHeld, Epoch, InLoop, Region, InRegion
  <2> QED
    BY <2>4, <2>5, <2>6 DEF Moves
<1>8. Shown'
  <2> SUFFICES ASSUME NEW x \in visible
               PROVE  /\ PastAt(x.epoch, iterations', pc')
                      /\ InEpoch(pc') /\ x.epoch = iterations' + 1 => Behind(x)'
    BY <1>2 DEF Shown, Epoch
  <2>1. PastAt(x.epoch, iterations, pc) /\ (InEpoch(pc) /\ x.epoch = iterations + 1 => Behind(x))
    BY <1>1 DEF Shown, Epoch
  <2>2. x.epoch \in Nat
    BY <1>1 DEF NumberedInvocations, Invocations
  <2>3. PastAt(x.epoch, iterations', pc')
    BY <2>1, <2>2, PastStaysPast
  <2>4. ASSUME InEpoch(pc'), x.epoch = iterations' + 1 PROVE Behind(x)'
    <3>1. CASE UNCHANGED <<pc, region, at, iterations>>
      BY <1>2, <1>4, <2>1, <2>4, <3>1 DEF Behind, InLoop, Component, Region
    <3>2. CASE pc = "boundary" /\ iterations' = iterations
      BY <1>1, <2>1, <2>2, <2>4, <3>2 DEF PastAt
    <3>3. CASE /\ InEpoch(pc) /\ iterations' = iterations
               /\ region' = region + 1 \/ (region' = region /\ (pc = "region" \/ InLoop))
      <4>1. Behind(x)
        BY <2>1, <2>4, <3>3
      <4> QED
        BY <1>1, <1>2, <3>3, <4>1, BehindKept
    <3> QED
      BY <2>4, <3>1, <3>2, <3>3 DEF Moves, InEpoch
  <2> QED
    BY <2>3, <2>4
<1>9. FailedNeverVisible'
  BY <1>2 DEF SuccessInv, FailedNeverVisible
<1>10. LoopOutputsWhole'
  BY <1>2, <1>3, <1>4 DEF SuccessInv, LoopOutputsWhole, InRegion
<1> QED
  BY <1>5, <1>6, <1>7, <1>8, <1>9, <1>10 DEF SuccessInv

-----------------------------------------------------------------------------
(* Steps within a region.                                                  *)

\* The outputs of earlier loops stay what they are while a later region is executed.
LEMMA LoopKept ==
    ASSUME SuccessInv, InEpoch(pc), pc # "region", region \in 1 .. Len(Regions), setup' = setup,
           loopEnd' = loopEnd \/ (InLoop /\ \E why : EndLoop(why)),
           \A x \in regionStage' : x.epoch = Epoch /\ InLoop /\ InRegion(x, region),
           NEW v \in visible, v.loop
    PROVE  LoopDone(v)'
<1>1. Shape /\ Shown /\ setup \in Setups /\ Regions' = Regions /\ DOMAIN Regions = 1 .. Len(Regions) /\ region \in Nat
  <2>1. Shape /\ Shown /\ setup \in Setups
    BY DEF SuccessInv, DrainInv, Shape
  <2> QED
    BY <2>1, SetupFacts DEF Regions
<1>2. PICK i \in DOMAIN Regions :
        /\ Regions[i].loop # NoLoop /\ InRegion(v, i)
        /\ <<v.epoch, i>> \in DOMAIN loopEnd
        /\ loopEnd[<<v.epoch, i>>] # "component_error"
        /\ loopEnd[<<v.epoch, i>>] = "converged" \/ ~Regions[i].loop.solver \/ Regions[i].loop.partial = "commit_outputs"
        /\ \A other \in regionStage : other.epoch = v.epoch => ~InRegion(other, i)
  BY LoopsDone DEF SuccessInv, LoopDone
<1>3. InLoop /\ v.epoch = Epoch => i # region
  <2> SUFFICES ASSUME InLoop, v.epoch = Epoch PROVE i # region
    OBVIOUS
  <2>1. Behind(v)
    BY <1>1 DEF Shown
  <2>2. PICK k \in 1 .. Len(Regions) : k < region /\ InRegion(v, k)
    BY <1>1, <2>1, BehindTheLoop
  <2>3. i = k
    BY <1>1, <1>2, <2>2, OneRegion
  <2> QED
    BY <1>1, <2>2, <2>3
<1>4. /\ <<v.epoch, i>> \in DOMAIN loopEnd'
      /\ loopEnd'[<<v.epoch, i>>] = loopEnd[<<v.epoch, i>>]
  <2>1. CASE loopEnd' = loopEnd
    BY <1>2, <2>1
  <2>2. ASSUME InLoop, NEW why, EndLoop(why)
        PROVE  <<v.epoch, i>> \in DOMAIN loopEnd' /\ loopEnd'[<<v.epoch, i>>] = loopEnd[<<v.epoch, i>>]
    <3> DEFINE here == <<Epoch, region>>
               there == <<v.epoch, i>>
    <3>1. there # here
      BY <1>3, <2>2
    <3>2. loopEnd' = [e \in DOMAIN loopEnd \cup {here} |-> IF e = here THEN why ELSE loopEnd[e]]
      BY <2>2 DEF EndLoop
    <3>3. there \in DOMAIN loopEnd
      BY <1>2
    <3> HIDE DEF here, there
    <3>4. there \in DOMAIN loopEnd' /\ loopEnd'[there] = loopEnd[there]
      BY <3>1, <3>2, <3>3
    <3> QED
      BY <3>4 DEF there
  <2> QED
    BY <2>1, <2>2
<1>5. ASSUME NEW other \in regionStage', other.epoch = v.epoch PROVE ~InRegion(other, i)
  <2>1. InLoop /\ v.epoch = Epoch /\ InRegion(other, region)
    BY <1>5
  <2> QED
    BY <1>1, <1>3, <2>1, OneRegion
<1>6. \A x : InRegion(x, i)' <=> InRegion(x, i)
  BY <1>1 DEF InRegion
<1> QED
  BY <1>1, <1>2, <1>4, <1>5, <1>6 DEF LoopDone

\* The same for all that is visible, if no more of loops becomes visible.
LEMMA LoopsKept ==
    ASSUME SuccessInv, InEpoch(pc), pc # "region", region \in 1 .. Len(Regions), setup' = setup,
           loopEnd' = loopEnd \/ (InLoop /\ \E why : EndLoop(why)),
           \A x \in regionStage' : x.epoch = Epoch /\ InLoop /\ InRegion(x, region),
           \A v \in visible' : v.loop => v \in visible
    PROVE  LoopOutputsWhole'
<1>1. \A v \in visible' : v.loop => LoopDone(v)'
  BY LoopKept
<1>2. (\A v \in visible : v.loop => LoopDone(v))' => LoopOutputsWhole'
  BY LoopsDone, PTL
<1> QED
  BY <1>1, <1>2

\* The run ends, with nothing more visible.
LEMMA GivesUp ==
    ASSUME SuccessInv, DrainInv', Passes, InEpoch(pc), pc # "region", pc' = "returned",
           region \in 1 .. Len(Regions), UNCHANGED <<setup, visible>>,
           loopEnd' = loopEnd \/ (InLoop /\ \E why : EndLoop(why)),
           \A x \in regionStage' : x.epoch = Epoch /\ InLoop /\ InRegion(x, region),
           NumberedInvocations', FailedNeverVisible'
    PROVE  SuccessInv'
<1>1. LoopOutputsWhole'
  BY LoopsKept
<1>2. Current' /\ StagesHeld'
  BY DEF Current, StagesHeld, Executing
<1>3. Shown'
  <2>1. \A x \in visible : x.epoch \in Nat /\ PastAt(x.epoch, iterations, pc)
    BY DEF SuccessInv, Shown, NumberedInvocations, Invocations
  <2>2. \A x \in visible : PastAt(x.epoch, iterations', pc')
    BY <2>1, PastStaysPast
  <2> QED
    BY <2>2 DEF Shown, InEpoch
<1> QED
  BY <1>1, <1>2, <1>3 DEF SuccessInv

LEMMA NothingFailed ==
    ASSUME SuccessInv, pc \notin {"submit", "drain", "returned"}
    PROVE  failures = {} /\ immediate = {} /\ finished = {} /\ awaited = {} /\ Pending = ItemsOf(todo)
<1>1. awaited = {} /\ finished = {}
  BY NothingHeld DEF SuccessInv, DrainInv
<1> QED
  BY <1>1 DEF SuccessInv, StagesHeld, Pending

LEMMA SuccessFinishLoop ==
    ASSUME SuccessInv, DrainInv', Passes, NEW why \in {"converged", "budget_overrun", "max_iterations", "cancelled"},
           NEW a \in BOOLEAN, FinishLoop(why, a)
    PROVE  SuccessInv'
<1> USE DEF position, result, pool, stages, clock
<1>1. /\ pc = "iterated" /\ EndLoop(why) /\ regionStage' = {}
      /\ visible' = IF Publishes(why) /\ a THEN visible \cup regionStage ELSE visible
      /\ UNCHANGED <<setup, iterations, todo, awaited, made, finished, failures, immediate>>
      /\ (pc' = "returned" \/ (pc' = "region" /\ region' = region + 1))
  BY DEF FinishLoop, Return
<1>2. /\ Shape /\ Shape' /\ Current /\ NumberedInvocations /\ StagesHeld /\ Shown /\ setup \in Setups
      /\ region \in 1 .. Len(Regions) /\ InLoop /\ Regions' = Regions /\ DOMAIN Regions = 1 .. Len(Regions)
  <2>1. Shape /\ Shape' /\ Current /\ NumberedInvocations /\ StagesHeld /\ Shown /\ setup \in Setups
    BY DEF SuccessInv, DrainInv, Shape
  <2>2. region \in 1 .. Len(Regions) /\ InLoop
    BY <1>1, <2>1 DEF Shape, InPlan, Current
  <2> QED
    BY <1>1, <2>1, <2>2, SetupFacts DEF Regions
<1>3. failures = {} /\ immediate = {} /\ finished = {} /\ awaited = {} /\ Pending = {} /\ todo = <<>>
  <2>1. todo = <<>>
    BY <1>1, <1>2 DEF Current, Executing
  <2> QED
    BY <1>1, <2>1, NothingFailed DEF ItemsOf
<1>4. \A x \in regionStage : x.loop /\ x.epoch = Epoch /\ InRegion(x, region)
  BY <1>1, <1>2 DEF StagesHeld
<1>5. Pending' = {}
  BY <1>1, <1>3 DEF Pending
<1>6. Current' /\ StagesHeld' /\ FailedNeverVisible' /\ NumberedInvocations'
  <2>1. Current' /\ StagesHeld'
    BY <1>1, <1>3 DEF Current, StagesHeld, Executing
  <2>2. FailedNeverVisible'
    BY <1>1, <1>3 DEF FailedNeverVisible
  <2>3. NumberedInvocations'
    BY <1>1, <1>2, <1>5 DEF NumberedInvocations
  <2> QED
    BY <2>1, <2>2, <2>3
<1>7. ASSUME NEW v \in regionStage, Publishes(why) PROVE LoopDone(v)'
  <2> DEFINE here == <<Epoch, region>>
  <2>1. here \in DOMAIN loopEnd' /\ loopEnd'[here] = why
    <3>1. loopEnd' = [e \in DOMAIN loopEnd \cup {here} |-> IF e = here THEN why ELSE loopEnd[e]]
      BY <1>1 DEF EndLoop
    <3> HIDE DEF here
    <3> QED
      BY <3>1
  <2>2. <<v.epoch, region>> = here
    BY <1>4
  <2> HIDE DEF here
  <2>3. Regions[region].loop # NoLoop
    BY <1>2 DEF InLoop, Region
  <2>4. why = "converged" \/ ~Regions[region].loop.solver \/ Regions[region].loop.partial = "commit_outputs"
    BY <1>7 DEF Publishes, Region
  <2>6. region \in DOMAIN Regions'
    BY <1>2
  <2>7. InRegion(v, region)
    BY <1>4
  <2>8. \E i \in DOMAIN Regions' :
          /\ Regions'[i].loop # NoLoop /\ v.component \in Elements(Regions'[i].components)
          /\ <<v.epoch, i>> \in DOMAIN loopEnd'
          /\ loopEnd'[<<v.epoch, i>>] # "component_error"
          /\ loopEnd'[<<v.epoch, i>>] = "converged" \/ ~Regions'[i].loop.solver \/ Regions'[i].loop.partial = "commit_outputs"
    <3> WITNESS region \in DOMAIN Regions'
    <3> QED
      BY <1>2, <2>1, <2>2, <2>3, <2>4, <2>7 DEF InRegion
  <2> QED
    BY <1>1, <2>8 DEF LoopDone, InRegion
<1>8. ASSUME NEW v \in visible, v.loop PROVE LoopDone(v)'
  BY <1>1, <1>2, <1>8, LoopKept DEF InEpoch
<1>9. LoopOutputsWhole'
  <2>1. \A v \in visible' : v.loop => LoopDone(v)'
    BY <1>1, <1>7, <1>8
  <2>2. (\A v \in visible : v.loop => LoopDone(v))' => LoopOutputsWhole'
    BY LoopsDone, PTL
  <2> QED
    BY <2>1, <2>2
<1>10. Shown'
  <2> SUFFICES ASSUME NEW x \in visible'
               PROVE  /\ PastAt(x.epoch, iterations, pc')
                      /\ pc' = "region" /\ x.epoch = Epoch => Behind(x)'
    BY <1>1 DEF Shown, Epoch, InEpoch
  <2>1. CASE x \in visible
    <3>1. x.epoch \in Nat /\ PastAt(x.epoch, iterations, pc) /\ (x.epoch = Epoch => Behind(x))
      BY <1>1, <1>2, <2>1 DEF Shown, NumberedInvocations, Invocations, InEpoch
    <3>2. PastAt(x.epoch, iterations, pc')
      BY <1>1, <3>1, PastStaysPast
    <3> QED
      BY <1>1, <1>2, <3>1, <3>2, BehindKept
  <2>2. CASE x \in regionStage
    <3>1. x.epoch = iterations + 1 /\ iterations \in Nat /\ InRegion(x, region)
      BY <1>2, <1>4, <2>2 DEF Epoch, Shape
    <3>2. PastAt(x.epoch, iterations, pc')
      BY <1>1, <3>1 DEF PastAt
    <3>3. \E m \in 1 .. Len(Regions[region].components) : Regions[region].components[m] = x.component
      BY <1>2, <3>1, RegionMembers
    <3>4. region < region + 1
      BY <1>2, SetupFacts
    <3>5. pc' = "region" => Behind(x)'
      BY <1>1, <1>2, <3>3, <3>4 DEF Behind
    <3> QED
      BY <3>2, <3>5
  <2> QED
    BY <1>1, <2>1, <2>2
<1> QED
  BY <1>6, <1>9, <1>10 DEF SuccessInv

LEMMA SuccessStopBeforeSubmit ==
    ASSUME SuccessInv, DrainInv', Passes, StopBeforeSubmit
    PROVE  SuccessInv'
<1> USE DEF position, result, pool, stages, clock
<1>1. /\ pc = "pool" /\ pc' = "returned"
      /\ loopEnd' = loopEnd \/ (InLoop /\ \E why : EndLoop(why))
      /\ UNCHANGED <<setup, iterations, todo, awaited, made, visible, regionStage, failures>>
  BY DEF StopBeforeSubmit, GiveUp, Return
<1>2. region \in 1 .. Len(Regions)
  BY <1>1 DEF SuccessInv, DrainInv, Shape, InPlan
<1>3. \A x \in regionStage' : x.epoch = Epoch /\ InLoop /\ InRegion(x, region)
  BY <1>1 DEF SuccessInv, StagesHeld
<1>4. NumberedInvocations' /\ FailedNeverVisible'
  <2>1. NumberedInvocations'
    BY <1>1 DEF SuccessInv, NumberedInvocations, Pending
  <2>2. FailedNeverVisible'
    BY <1>1 DEF SuccessInv, FailedNeverVisible
  <2> QED
    BY <2>1, <2>2
<1> QED
  BY <1>1, <1>2, <1>3, <1>4, GivesUp DEF InEpoch

\* Work moves on to the workers, at one place of the plan.
LEMMA SuccessHandsOver ==
    ASSUME SuccessInv, DrainInv', pc \in {"pool", "submit"}, pc' \in {"submit", "drain"},
           UNCHANGED <<setup, region, at, iterations, made, visible, regionStage, immediate, loopEnd, failures, finished>>,
           Pending' = Pending,
           pc' = "submit" /\ Component \in setup.reentrant => ItemsOf(todo') \subseteq awaited',
           pc' = "drain" /\ Component \in setup.reentrant => todo' = <<>>
    PROVE  SuccessInv'
<1>1. /\ Regions' = Regions /\ Region' = Region /\ Component' = Component /\ Epoch' = Epoch
      /\ (InLoop' <=> InLoop)
  BY DEF Regions, Region, Component, Epoch, InLoop
<1>2. Current' /\ NumberedInvocations'
  <2>1. Current'
    BY <1>1 DEF SuccessInv, Current, Executing
  <2>2. NumberedInvocations'
    BY DEF SuccessInv, NumberedInvocations
  <2> QED
    BY <2>1, <2>2
<1>3. StagesHeld'
  BY <1>1 DEF SuccessInv, StagesHeld, InRegion
<1>4. Shown'
  <2>1. \A x : Behind(x)' <=> Behind(x)
    BY <1>1 DEF Behind
  <2> QED
    BY <1>1, <2>1 DEF SuccessInv, Shown, InEpoch, PastAt
<1>5. FailedNeverVisible' /\ LoopOutputsWhole'
  <2>1. FailedNeverVisible'
    BY DEF SuccessInv, FailedNeverVisible
  <2>2. LoopOutputsWhole'
    BY <1>1 DEF SuccessInv, LoopOutputsWhole, InRegion
  <2> QED
    BY <2>1, <2>2
<1> QED
  BY <1>2, <1>3, <1>4, <1>5 DEF SuccessInv

LEMMA SuccessBeginBatch ==
    ASSUME SuccessInv, DrainInv', BeginBatch
    PROVE  SuccessInv'
<1> USE DEF position, result, pool, stages, clock
<1> DEFINE batch == Elements(SubSeq(todo, 1, SubmitFrom))
<1>1. /\ pc = "pool" /\ awaited = {} /\ awaited' = batch /\ pc' = "submit"
      /\ UNCHANGED <<setup, region, at, iterations, todo, made, visible, regionStage, immediate, loopEnd,
                     failures, finished>>
  BY DEF BeginBatch
<1>2. Shape /\ todo \in Seq(Invocations) /\ todo # <<>>
  BY <1>1 DEF SuccessInv, DrainInv, Shape, Work
<1>3. batch \subseteq ItemsOf(todo)
  BY <1>2, BatchFacts
<1>4. Component \in setup.reentrant => batch = ItemsOf(todo)
  <2>1. ASSUME Component \in setup.reentrant PROVE SubSeq(todo, 1, SubmitFrom) = todo
    <3>1. SubmitFrom = Len(todo)
      BY <2>1 DEF SubmitFrom
    <3> QED
      BY <1>2, <3>1
  <2> QED
    BY <2>1 DEF Elements, ItemsOf
<1> HIDE DEF batch
<1>5. Pending' = Pending
  BY <1>1, <1>3 DEF Pending
<1> QED
  BY <1>1, <1>4, <1>5, SuccessHandsOver

LEMMA SuccessSubmit ==
    ASSUME SuccessInv, DrainInv', Submit
    PROVE  SuccessInv'
<1> USE DEF position, result, pool, stages, clock
<1>1. /\ pc = "submit" /\ todo' = Tail(todo)
      /\ UNCHANGED <<setup, region, at, iterations, awaited, made, visible, regionStage, immediate, loopEnd,
                     failures, finished>>
      /\ \/ pc' = "submit"
         \/ pc' = "drain" /\ ~(Tail(todo) # <<>> /\ Head(Tail(todo)) \in awaited)
  BY DEF Submit
<1>2. todo \in Seq(Invocations) /\ todo # <<>> /\ NoRepeats(todo) /\ todo[1] \in awaited
  BY <1>1 DEF SuccessInv, DrainInv, Shape, Work, Distinct, Held
<1>3. ItemsOf(todo') = ItemsOf(todo) \ {todo[1]} /\ todo[1] \in ItemsOf(todo) /\ Tail(todo) \in Seq(Invocations)
  BY <1>1, <1>2, ItemsTail, TailFacts
<1>4. Pending' = Pending
  BY <1>1, <1>2, <1>3 DEF Pending
<1>5. Component \in setup.reentrant => ItemsOf(todo') \subseteq awaited'
  BY <1>1, <1>3 DEF SuccessInv, Current
<1>6. ASSUME pc' = "drain", Component \in setup.reentrant PROVE todo' = <<>>
  <2>1. ASSUME Tail(todo) # <<>> PROVE Head(Tail(todo)) \in ItemsOf(Tail(todo))
    <3> DEFINE rest == Tail(todo)
    <3>1. rest \in Seq(Invocations) /\ rest # <<>>
      BY <1>3, <2>1
    <3> HIDE DEF rest
    <3>2. Head(rest) = rest[1] /\ 1 \in DOMAIN rest
      BY <3>1, TailFacts
    <3> QED
      BY <3>2 DEF ItemsOf, rest
  <2> QED
    BY <1>1, <1>5, <1>6, <2>1
<1> QED
  BY <1>1, <1>4, <1>5, <1>6, SuccessHandsOver

LEMMA SuccessCollect ==
    ASSUME SuccessInv, DrainInv', Passes, NEW n \in Nat, Collect(n)
    PROVE  SuccessInv'
<1> USE DEF position, result, pool, stages, clock
<1>1. /\ loopEnd' = loopEnd \/ (InLoop /\ (\E why : EndLoop(why)) /\ pc' = "returned")
      /\ UNCHANGED <<setup, region, iterations, awaited, visible, regionStage, immediate, failures, finished>>
  BY DEF Collect, GiveUp, Return
<1>2. Shape /\ Shape' /\ Current /\ NumberedInvocations /\ StagesHeld /\ Shown /\ Work /\ setup \in Setups
  BY DEF SuccessInv, DrainInv, Shape
<1>3. /\ region \in 1 .. Len(Regions) /\ at \in 1 .. Len(Region.components)
      /\ pc = "component" /\ made' = made + n
      /\ \/ todo' = todo /\ at' = at /\ pc' = "returned"
         \/ Fresh(todo', n) /\ n = 0 /\ pc' = "component" /\ at' = at + 1
         \/ Fresh(todo', n) /\ n > 0 /\ at' = at /\ pc' = (IF Pooled THEN "pool" ELSE "inline")
  BY <1>2, CollectFacts
<1>4. \A x \in regionStage' : x.epoch = Epoch /\ InLoop /\ InRegion(x, region)
  BY <1>1, <1>2, <1>3 DEF StagesHeld
<1>5. FailedNeverVisible'
  BY <1>1 DEF SuccessInv, FailedNeverVisible
<1>6. LoopOutputsWhole'
  BY <1>1, <1>3, <1>4, LoopsKept DEF InEpoch
<1>7. failures = {} /\ immediate = {} /\ finished = {} /\ awaited = {} /\ todo = <<>> /\ Pending = {}
  <2>1. todo = <<>>
    BY <1>2, <1>3 DEF Current, Executing
  <2> QED
    BY <1>3, <2>1, NothingFailed DEF ItemsOf
<1>8. made \in Nat /\ \A k \in Nat : k <= made => k <= made'
  BY <1>2, <1>3 DEF Work
<1>9. \A x \in visible \cup regionStage : x \in Invocations /\ x.id \in Nat /\ x.id <= made /\ x.id <= made'
  BY <1>2, <1>8 DEF NumberedInvocations, Invocations
<1>10. CASE pc' = "returned" /\ todo' = todo
  <2>1. Pending' = {}
    BY <1>1, <1>7, <1>10 DEF Pending
  <2>2. NumberedInvocations'
    BY <1>1, <1>9, <2>1 DEF NumberedInvocations
  <2> QED
    BY <1>1, <1>3, <1>4, <1>5, <1>10, <2>2, GivesUp DEF InEpoch
<1>11. CASE Fresh(todo', n) /\ pc' \in {"component", "inline", "pool"}
  <2>1. Pending' = ItemsOf(todo') /\ todo' \in Seq(Invocations)
    BY <1>1, <1>7, <1>11 DEF Pending, Fresh
  <2>2. DOMAIN todo' = 1 .. Len(todo') /\ Len(todo') \in Nat /\ \A i \in 1 .. Len(todo') : todo'[i] \in Invocations
    BY <2>1, LenProperties, ElementOfSeq
  <2>3. \A x \in Pending' : /\ x \in Invocations /\ x.epoch = Epoch /\ x.component = Component /\ (x.loop <=> InLoop)
                            /\ x.id > made /\ x.id <= made'
    BY <1>3, <1>11, <2>1, <2>2 DEF ItemsOf, Fresh
  <2>4. NumberedInvocations'
    <3>1. \A x \in Pending' \cup visible' \cup regionStage' : x \in Invocations /\ x.id <= made'
      BY <1>1, <1>9, <2>3
    <3>2. \A x \in visible' : x \notin Pending'
      <4>1. \A x \in visible' : ~(x.id > made)
        BY <1>1, <1>8, <1>9
      <4> QED
        BY <2>3, <4>1
    <3> QED
      BY <3>1, <3>2 DEF NumberedInvocations
  <2>5. Regions' = Regions /\ Region' = Region /\ Epoch' = Epoch /\ (InLoop' <=> InLoop)
    BY <1>1 DEF Regions, Region, Epoch, InLoop
  <2>6. Current'
    <3>1. CASE n = 0 /\ pc' = "component"
      <4>1. todo' = <<>>
        BY <1>11, <2>1, <2>2, <3>1 DEF Fresh
      <4> QED
        BY <3>1, <4>1 DEF Current, Executing
    <3>2. CASE at' = at /\ pc' = (IF Pooled THEN "pool" ELSE "inline")
      <4>1. Component' = Component
        BY <2>5, <3>2 DEF Component
      <4>2. setup.reentrant \subseteq setup.pooled
        BY <1>2, RuntimeAssumption
      <4>3. pc' = "inline" => Component' \notin setup'.reentrant
        BY <1>1, <3>2, <4>1, <4>2 DEF Pooled
      <4>4. \A x \in Pending' : x.component = Component' /\ x.epoch = Epoch' /\ (x.loop <=> InLoop')
        BY <2>3, <2>5, <4>1
      <4> QED
        BY <3>2, <4>3, <4>4 DEF Current, Executing
    <3> QED
      BY <1>3, <1>11, <3>1, <3>2
  <2>7. StagesHeld'
    <3>1. \A x \in regionStage' : x.loop /\ x.epoch = Epoch' /\ InLoop' /\ InRegion(x, region)'
      BY <1>1, <1>2, <1>3, <2>5 DEF StagesHeld, InRegion
    <3> QED
      BY <1>1, <1>7, <1>11, <3>1 DEF StagesHeld
  <2>8. Shown'
    <3> SUFFICES ASSUME NEW x \in visible
                 PROVE  PastAt(x.epoch, iterations', pc') /\ (x.epoch = Epoch' => Behind(x)')
      BY <1>1 DEF Shown
    <3>1. x.epoch \in Nat /\ PastAt(x.epoch, iterations, pc) /\ (x.epoch = Epoch => Behind(x))
      BY <1>2, <1>3 DEF Shown, NumberedInvocations, Invocations, InEpoch
    <3>2. PastAt(x.epoch, iterations', pc')
      BY <3>1, PastStaysPast
    <3>3. ASSUME Behind(x) PROVE Behind(x)'
      BY <1>1, <1>2, <1>3, <1>11, <3>3, BehindKept
    <3> QED
      BY <2>5, <3>1, <3>2, <3>3
  <2> QED
    BY <1>5, <1>6, <2>4, <2>6, <2>7, <2>8 DEF SuccessInv
<1> QED
  BY <1>3, <1>10, <1>11

LEMMA SuccessInline ==
    ASSUME SuccessInv, DrainInv', Passes, NEW b \in BOOLEAN, NEW a \in BOOLEAN, ExecuteInline(b, a)
    PROVE  SuccessInv'
<1> USE DEF position, result, pool, stages, clock
<1> DEFINE inv == Head(todo)
<1>1. /\ pc = "inline" /\ todo' = Tail(todo)
      /\ failures' = Failed(inv, b) /\ regionStage' = Published(regionStage, inv, TRUE)
      /\ UNCHANGED <<setup, region, iterations, awaited, made, finished>>
      /\ \/ /\ b /\ visible' = visible \cup Published(immediate, inv, FALSE) /\ immediate' = {}
            /\ \/ Tail(todo) = <<>> /\ pc' = "component" /\ at' = at + 1
               \/ Tail(todo) # <<>> /\ pc' = pc /\ at' = at
            /\ loopEnd' = loopEnd
         \/ /\ visible' = visible /\ pc' = "returned"
            /\ loopEnd' = loopEnd \/ (InLoop /\ \E why : EndLoop(why))
  BY DEF ExecuteInline, GiveUp, Return
<1>2. Shape /\ Shape' /\ Current /\ NumberedInvocations /\ StagesHeld /\ Shown /\ Work /\ setup \in Setups
  BY DEF SuccessInv, DrainInv, Shape
<1>3. failures = {} /\ immediate = {} /\ finished = {} /\ awaited = {} /\ Pending = ItemsOf(todo)
  BY <1>1, NothingFailed
<1>4. todo \in Seq(Invocations) /\ todo # <<>> /\ NoRepeats(todo)
  BY <1>1, <1>2 DEF SuccessInv, DrainInv, Work, Distinct
<1>5. /\ inv = todo[1] /\ inv \in Invocations /\ Tail(todo) \in Seq(Invocations)
      /\ ItemsOf(Tail(todo)) = ItemsOf(todo) \ {inv} /\ inv \in ItemsOf(todo)
  BY <1>4, TailFacts, ItemsTail
<1> HIDE DEF inv
<1>6. Pending' = Pending \ {inv} /\ inv \in Pending
  BY <1>1, <1>3, <1>5 DEF Pending
<1>7. inv.component = Component /\ inv.epoch = Epoch /\ (inv.loop <=> InLoop) /\ inv.id <= made /\ inv \notin visible
  BY <1>1, <1>2, <1>6 DEF Current, NumberedInvocations, Executing
<1>8. inv.loop \in BOOLEAN
  BY <1>5 DEF Invocations
<1>9. region \in 1 .. Len(Regions) /\ InRegion(inv, region)
  BY <1>1, <1>2, <1>7, HereInRegion DEF Executing
<1>10. \A x \in regionStage' : x \in regionStage \/ (x = inv /\ inv.loop)
  BY <1>1, <1>8 DEF Published
<1>11. \A x \in regionStage' : x.loop /\ x.epoch = Epoch /\ InLoop /\ InRegion(x, region)
  BY <1>1, <1>2, <1>7, <1>9, <1>10 DEF StagesHeld
<1>12. \A x \in visible' : x \in visible \/ (x = inv /\ ~inv.loop)
  BY <1>1, <1>3, <1>8 DEF Published
<1>13. NumberedInvocations'
  <2>1. \A x \in Pending' \cup visible' \cup regionStage' : x \in Invocations /\ x.id <= made
    BY <1>2, <1>5, <1>6, <1>7, <1>10, <1>12 DEF NumberedInvocations
  <2>2. \A x \in visible' : x \notin Pending'
    BY <1>2, <1>6, <1>12 DEF NumberedInvocations
  <2> QED
    BY <1>1, <2>1, <2>2 DEF NumberedInvocations
<1>14. Component \notin setup.reentrant
  BY <1>1, <1>2 DEF Current
<1>15. CASE pc' = "returned"
  <2>1. visible' = visible /\ (loopEnd' = loopEnd \/ (InLoop /\ \E why : EndLoop(why)))
    BY <1>1, <1>15
  <2>2. FailedNeverVisible'
    <3>1. failures' \subseteq {inv}
      BY <1>1, <1>3 DEF Failed
    <3> QED
      BY <1>1, <1>7, <1>14, <2>1, <3>1 DEF FailedNeverVisible
  <2> QED
    BY <1>1, <1>9, <1>11, <1>13, <1>15, <2>1, <2>2, GivesUp DEF InEpoch
<1>16. CASE pc' # "returned"
  <2>1. /\ b /\ immediate' = {} /\ loopEnd' = loopEnd
        /\ \/ Tail(todo) = <<>> /\ pc' = "component" /\ at' = at + 1
           \/ Tail(todo) # <<>> /\ pc' = "inline" /\ at' = at
    BY <1>1, <1>16
  <2>2. failures' = {}
    BY <1>1, <1>3, <2>1 DEF Failed
  <2>3. FailedNeverVisible'
    BY <2>2 DEF FailedNeverVisible
  <2>4. LoopOutputsWhole'
    BY <1>1, <1>9, <1>11, <1>12, <2>1, LoopsKept DEF InEpoch
  <2>5. Regions' = Regions /\ Region' = Region /\ Epoch' = Epoch /\ (InLoop' <=> InLoop)
    BY <1>1 DEF Regions, Region, Epoch, InLoop
  <2>6. Current'
    <3>1. CASE pc' = "component"
      BY <1>1, <2>1, <3>1 DEF Current, Executing
    <3>2. CASE pc' = "inline" /\ at' = at
      <4>1. Component' = Component
        BY <2>5, <3>2 DEF Component
      <4>2. \A x \in Pending' : x.component = Component' /\ x.epoch = Epoch' /\ (x.loop <=> InLoop')
        BY <1>1, <1>2, <1>6, <2>5, <4>1 DEF Current, Executing
      <4>3. Component' \notin setup'.reentrant
        BY <1>1, <1>14, <4>1
      <4> QED
        BY <3>2, <4>2, <4>3 DEF Current, Executing
    <3> QED
      BY <2>1, <3>1, <3>2
  <2>7. StagesHeld'
    <3>1. \A x \in regionStage' : x.loop /\ x.epoch = Epoch' /\ InLoop' /\ InRegion(x, region)'
      BY <1>1, <1>11, <2>5 DEF InRegion
    <3> QED
      BY <2>1, <2>2, <3>1 DEF StagesHeld
  <2>8. Shown'
    <3> SUFFICES ASSUME NEW x \in visible'
                 PROVE  PastAt(x.epoch, iterations', pc') /\ (x.epoch = Epoch' => Behind(x)')
      BY DEF Shown
    <3>1. CASE x \in visible
      <4>1. x.epoch \in Nat /\ PastAt(x.epoch, iterations, pc) /\ (x.epoch = Epoch => Behind(x))
        BY <1>1, <1>2, <3>1 DEF Shown, NumberedInvocations, Invocations, InEpoch
      <4>2. PastAt(x.epoch, iterations', pc')
        BY <4>1, PastStaysPast
      <4>3. ASSUME Behind(x) PROVE Behind(x)'
        BY <1>1, <1>2, <2>1, <4>3, BehindKept
      <4> QED
        BY <2>5, <4>1, <4>2, <4>3
    <3>2. CASE x = inv /\ ~inv.loop
      <4>1. iterations \in Nat /\ iterations' = iterations /\ x.epoch = iterations + 1
        BY <1>1, <1>2, <1>7, <3>2 DEF Shape, Epoch
      <4>2. PastAt(x.epoch, iterations', pc')
        BY <2>1, <4>1 DEF PastAt
      <4>3. at \in 1 .. Len(Regions[region].components) /\ Regions[region].components[at] = x.component /\ at \in Nat
        BY <1>1, <1>2, <1>7, <3>2 DEF Shape, InPlan, Component, Region
      <4>4. at < at' \/ (at = at' /\ Component' \notin setup'.reentrant)
        <5>1. CASE at' = at + 1
          BY <4>3, <5>1
        <5>2. CASE at' = at
          BY <1>1, <1>14, <2>5, <5>2 DEF Component
        <5> QED
          BY <2>1, <5>1, <5>2
      <4>5. ~InLoop' /\ region' = region /\ pc' # "region"
        BY <1>1, <1>7, <2>1, <2>5, <3>2
      <4>6. Behind(x)'
        BY <1>9, <2>5, <4>3, <4>4, <4>5 DEF Behind
      <4> QED
        BY <4>2, <4>6
    <3> QED
      BY <1>12, <3>1, <3>2
  <2> QED
    BY <1>13, <2>3, <2>4, <2>6, <2>7, <2>8 DEF SuccessInv
<1> QED
  BY <1>15, <1>16

LEMMA SuccessRecord ==
    ASSUME SuccessInv, DrainInv', Passes, NEW a \in BOOLEAN, RecordBatch(a)
    PROVE  SuccessInv'
<1> USE DEF position, result, pool, stages, clock
<1>1. /\ pc = "drain" /\ awaited \subseteq finished /\ awaited' = {} /\ finished' = {}
      /\ UNCHANGED <<setup, region, iterations, todo, made, failures, regionStage>>
      /\ \/ /\ visible' = visible /\ pc' = "returned"
            /\ loopEnd' = loopEnd \/ (InLoop /\ \E why : EndLoop(why))
         \/ /\ awaited \cap failures = {} /\ visible' = visible \cup immediate /\ immediate' = {}
            /\ \/ todo = <<>> /\ pc' = "component" /\ at' = at + 1
               \/ todo # <<>> /\ pc' = "pool" /\ at' = at
            /\ loopEnd' = loopEnd
  BY DEF RecordBatch, Drained, CommitsBatch, GiveUp, Return
<1>2. Shape /\ Shape' /\ Current /\ NumberedInvocations /\ StagesHeld /\ Shown /\ Distinct /\ Held /\ setup \in Setups
  BY DEF SuccessInv, DrainInv, Shape
<1>3. /\ failures \subseteq finished /\ finished = awaited
      /\ \A x \in immediate : x \in finished /\ ~x.loop
      /\ \A x \in regionStage : x.loop /\ x.epoch = Epoch /\ InLoop /\ InRegion(x, region)
  BY <1>1, <1>2 DEF StagesHeld, Held
<1>4. Pending' = ItemsOf(todo) /\ ItemsOf(todo) \subseteq Pending /\ awaited \subseteq Pending
  BY <1>1 DEF Pending
<1>5. \A x \in visible' : x \in visible \/ x \in immediate
  BY <1>1
<1>6. \A x \in immediate : /\ x \in Pending /\ x \notin ItemsOf(todo)
                           /\ x.component = Component /\ x.epoch = Epoch /\ (x.loop <=> InLoop) /\ ~x.loop
  BY <1>1, <1>2, <1>3, <1>4 DEF Current, Distinct, Executing
<1>7. region \in 1 .. Len(Regions)
  BY <1>1, <1>2 DEF Shape, InPlan
<1>8. NumberedInvocations'
  <2>1. \A x \in Pending' \cup visible' \cup regionStage' : x \in Invocations /\ x.id <= made
    BY <1>1, <1>2, <1>4, <1>5, <1>6 DEF NumberedInvocations
  <2>2. \A x \in visible' : x \notin Pending'
    BY <1>2, <1>4, <1>5, <1>6 DEF NumberedInvocations
  <2> QED
    BY <1>1, <2>1, <2>2 DEF NumberedInvocations
<1>9. CASE pc' = "returned"
  <2>1. visible' = visible /\ (loopEnd' = loopEnd \/ (InLoop /\ \E why : EndLoop(why)))
    BY <1>1, <1>9
  <2>2. FailedNeverVisible'
    BY <1>1, <2>1 DEF SuccessInv, FailedNeverVisible
  <2> QED
    BY <1>1, <1>3, <1>7, <1>8, <1>9, <2>1, <2>2, GivesUp DEF InEpoch
<1>10. CASE pc' # "returned"
  <2>1. /\ awaited \cap failures = {} /\ immediate' = {} /\ loopEnd' = loopEnd
        /\ \/ todo = <<>> /\ pc' = "component" /\ at' = at + 1
           \/ todo # <<>> /\ pc' = "pool" /\ at' = at
    BY <1>1, <1>10
  <2>2. failures' = {}
    BY <1>1, <1>3, <2>1
  <2>3. FailedNeverVisible'
    BY <2>2 DEF FailedNeverVisible
  <2>4. LoopOutputsWhole'
    BY <1>1, <1>3, <1>5, <1>6, <1>7, <2>1, LoopsKept DEF InEpoch
  <2>5. Regions' = Regions /\ Region' = Region /\ Epoch' = Epoch /\ (InLoop' <=> InLoop)
    BY <1>1 DEF Regions, Region, Epoch, InLoop
  <2>6. Current'
    <3>1. CASE pc' = "component"
      BY <1>1, <2>1, <3>1 DEF Current, Executing
    <3>2. CASE pc' = "pool" /\ at' = at
      <4>1. Component' = Component
        BY <2>5, <3>2 DEF Component
      <4>2. \A x \in Pending' : x.component = Component' /\ x.epoch = Epoch' /\ (x.loop <=> InLoop')
        BY <1>1, <1>2, <1>4, <2>5, <4>1 DEF Current, Executing
      <4> QED
        BY <3>2, <4>2 DEF Current, Executing
    <3> QED
      BY <2>1, <3>1, <3>2
  <2>7. StagesHeld'
    <3>1. \A x \in regionStage' : x.loop /\ x.epoch = Epoch' /\ InLoop' /\ InRegion(x, region)'
      BY <1>1, <1>3, <2>5 DEF InRegion
    <3> QED
      BY <2>1, <2>2, <3>1 DEF StagesHeld
  <2>8. Shown'
    <3> SUFFICES ASSUME NEW x \in visible'
                 PROVE  PastAt(x.epoch, iterations', pc') /\ (x.epoch = Epoch' => Behind(x)')
      BY DEF Shown
    <3>1. CASE x \in visible
      <4>1. x.epoch \in Nat /\ PastAt(x.epoch, iterations, pc) /\ (x.epoch = Epoch => Behind(x))
        BY <1>1, <1>2, <3>1 DEF Shown, NumberedInvocations, Invocations, InEpoch
      <4>2. PastAt(x.epoch, iterations', pc')
        BY <4>1, PastStaysPast
      <4>3. ASSUME Behind(x) PROVE Behind(x)'
        BY <1>1, <1>2, <2>1, <4>3, BehindKept
      <4> QED
        BY <2>5, <4>1, <4>2, <4>3
    <3>2. CASE x \in immediate
      <4>1. iterations \in Nat /\ iterations' = iterations /\ x.epoch = iterations + 1
        BY <1>1, <1>2, <1>6, <3>2 DEF Shape, Epoch
      <4>2. PastAt(x.epoch, iterations', pc')
        BY <2>1, <4>1 DEF PastAt
      <4>3. at \in 1 .. Len(Regions[region].components) /\ Regions[region].components[at] = x.component /\ at \in Nat
        BY <1>1, <1>2, <1>6, <3>2 DEF Shape, InPlan, Component, Region
      <4>4. at < at' \/ (at = at' /\ Component' \notin setup'.reentrant)
        <5>1. CASE at' = at + 1
          BY <4>3, <5>1
        <5>2. CASE at' = at /\ todo # <<>>
          <6>1. Component \notin setup.reentrant
            BY <1>1, <1>2, <5>2 DEF Current
          <6> QED
            BY <1>1, <2>5, <5>2, <6>1 DEF Component
        <5> QED
          BY <2>1, <5>1, <5>2
      <4>5. ~InLoop' /\ region' = region /\ pc' # "region"
        BY <1>1, <1>6, <2>1, <2>5, <3>2
      <4>6. Behind(x)'
        BY <1>7, <2>5, <4>3, <4>4, <4>5 DEF Behind
      <4> QED
        BY <4>2, <4>6
    <3> QED
      BY <1>5, <3>1, <3>2
  <2> QED
    BY <1>8, <2>3, <2>4, <2>6, <2>7, <2>8 DEF SuccessInv
<1> QED
  BY <1>9, <1>10

LEMMA SuccessFinish ==
    ASSUME SuccessInv, DrainInv', NEW w \in Workers, NEW b \in BOOLEAN, WorkerFinish(w, b)
    PROVE  SuccessInv'
<1> USE DEF runtime, position, result, clock
<1> DEFINE inv == job[w]
<1>1. /\ worker[w] = "busy" /\ finished' = finished \cup {inv} /\ failures' = Failed(inv, b)
      /\ immediate' = Published(immediate, inv, FALSE) /\ regionStage' = Published(regionStage, inv, TRUE)
      /\ UNCHANGED <<setup, pc, region, at, iterations, todo, awaited, made, visible, loopEnd>>
  BY DEF WorkerFinish
<1>2. Shape /\ Current /\ NumberedInvocations /\ StagesHeld /\ Shown /\ Work /\ Held
  BY DEF SuccessInv, DrainInv, Shape
<1>3. inv \in InFlight /\ inv \in Invocations
  BY <1>1, <1>2 DEF InFlight, Work, Busy
<1> HIDE DEF inv
<1>4. inv \in awaited /\ pc \in {"submit", "drain"} /\ inv.loop \in BOOLEAN
  BY <1>2, <1>3 DEF Held, Invocations
<1>5. Pending' = Pending /\ inv \in Pending
  BY <1>1, <1>4 DEF Pending
<1>6. inv.component = Component /\ inv.epoch = Epoch /\ (inv.loop <=> InLoop) /\ inv.id <= made /\ inv \notin visible
  BY <1>2, <1>4, <1>5 DEF Current, NumberedInvocations, Executing
<1>7. region \in 1 .. Len(Regions) /\ InRegion(inv, region)
  BY <1>2, <1>4, <1>6, HereInRegion DEF Executing
<1>8. /\ \A x \in regionStage' : x \in regionStage \/ (x = inv /\ inv.loop)
      /\ \A x \in immediate' : x \in immediate \/ (x = inv /\ ~inv.loop)
      /\ \A x \in failures' : x \in failures \/ x = inv
  BY <1>1, <1>4 DEF Published, Failed
<1>9. \A x \in regionStage' : x.loop /\ x.epoch = Epoch /\ InLoop /\ InRegion(x, region)
  BY <1>2, <1>4, <1>6, <1>7, <1>8 DEF StagesHeld
<1>10. /\ Regions' = Regions /\ Region' = Region /\ Component' = Component /\ Epoch' = Epoch
       /\ (InLoop' <=> InLoop)
  BY <1>1 DEF Regions, Region, Component, Epoch, InLoop
<1>11. Current'
  BY <1>1, <1>2, <1>5, <1>10 DEF Current, Executing
<1>12. NumberedInvocations'
  BY <1>1, <1>2, <1>3, <1>5, <1>6, <1>8 DEF NumberedInvocations
<1>13. StagesHeld'
  <2>1. failures' \subseteq finished' /\ \A x \in immediate' : x \in finished' /\ ~x.loop
    BY <1>1, <1>2, <1>4, <1>8 DEF StagesHeld
  <2>2. \A x \in regionStage' : x.loop /\ x.epoch = Epoch' /\ InLoop' /\ InRegion(x, region)'
    BY <1>1, <1>9, <1>10 DEF InRegion
  <2> QED
    BY <1>1, <1>4, <2>1, <2>2 DEF StagesHeld
<1>14. Shown'
  <2>1. \A x : Behind(x)' <=> Behind(x)
    BY <1>1, <1>10 DEF Behind
  <2> QED
    BY <1>1, <1>2, <1>10, <2>1 DEF Shown
<1>15. LoopOutputsWhole'
  BY <1>1, <1>4, <1>7, <1>9, LoopsKept DEF InEpoch
<1>16. FailedNeverVisible'
  <2>1. FailedNeverVisible /\ visible' = visible /\ setup' = setup
    BY <1>1 DEF SuccessInv
  <2>2. visible' \cap failures' = {}
    BY <1>6, <1>8, <2>1 DEF FailedNeverVisible
  <2>3. ASSUME NEW x \in visible, x.component = inv.component, x.epoch = inv.epoch, ~inv.loop
        PROVE  x.component \notin setup.reentrant
    <3>1. Behind(x)
      BY <1>2, <1>4, <1>6, <2>3 DEF Shown, InEpoch
    <3> QED
      BY <1>2, <1>4, <1>6, <2>3, <3>1, NotYetBehind DEF Executing
  <2> QED
    BY <1>8, <2>1, <2>2, <2>3 DEF FailedNeverVisible
<1> QED
  BY <1>11, <1>12, <1>13, <1>14, <1>15, <1>16 DEF SuccessInv

LEMMA SuccessInit == Init => SuccessInv
<1> SUFFICES ASSUME Init PROVE SuccessInv
  OBVIOUS
<1>1. DrainInv
  BY DrainInit
<1>2. /\ pc = "boundary" /\ todo = <<>> /\ awaited = {} /\ failures = {} /\ immediate = {} /\ regionStage = {}
      /\ visible = {}
  BY DEF Init
<1>3. Pending = {}
  BY <1>2 DEF Pending, ItemsOf
<1> QED
  BY <1>1, <1>2, <1>3 DEF SuccessInv, Current, NumberedInvocations, StagesHeld, Shown, FailedNeverVisible,
     LoopOutputsWhole, Executing

LEMMA SuccessStep == SuccessInv /\ [Next]_vars => SuccessInv'
<1> SUFFICES ASSUME SuccessInv, [Next]_vars PROVE SuccessInv'
  OBVIOUS
<1>1. DrainInv /\ DrainInv' /\ Shape /\ Passes
  <2>1. DrainInv /\ Shape
    BY DEF SuccessInv, DrainInv
  <2> QED
    BY <2>1, DrainStep, EpochsPass
<1>2. pc = "iterated" => InLoop
  BY DEF SuccessInv, Current
<1>3. ASSUME \/ RequestStop \/ EndRun \/ \E b \in BOOLEAN : BeginEpoch(b)
             \/ \E d \in setup.durations : EndEpoch(d)
             \/ EnterRegion \/ LeaveComponents \/ NextIteration \/ StopPool
             \/ \E w \in Workers : WorkerTake(w) \/ WorkerWait(w)
             \/ UNCHANGED vars
      PROVE  SuccessInv'
  BY <1>1, <1>2, <1>3, MovesOn, MovesKeep
<1>4. ASSUME NEW n \in 0 .. setup.ready, Collect(n) PROVE SuccessInv'
  <2>1. n \in Nat
    BY <1>1, SetupFacts DEF Shape
  <2> QED
    BY <1>1, <1>4, <2>1, SuccessCollect
<1>5. CASE Goes
  BY <1>1, <1>3, <1>5, SuccessFinishLoop, SuccessStopBeforeSubmit, SuccessBeginBatch DEF Goes
<1>6. CASE (\E s, a \in BOOLEAN : ExecuteInline(s, a)) \/ (\E a \in BOOLEAN : RecordBatch(a))
  BY <1>1, <1>6, SuccessInline, SuccessRecord
<1>7. CASE Submit \/ \E w \in Workers, s \in BOOLEAN : WorkerFinish(w, s)
  BY <1>1, <1>7, SuccessSubmit, SuccessFinish
<1> QED
  BY <1>3, <1>4, <1>5, <1>6, <1>7, NextSteps

\* For every plan in which a component has one place, every policy and every number of workers:
\* what a failed invocation published never becomes visible, and nothing of the batch of a
\* reentrant component in which one failed; the outputs of a composite loop become visible
\* together, once it has stopped, and of a solver only if it converged or its policy commits
\* partial success.
THEOREM VisibleIsSuccessful == Spec => []OnlySuccessIsVisible
<1>1. SuccessInv => OnlySuccessIsVisible
  BY DEF SuccessInv, OnlySuccessIsVisible
<1> QED
  BY <1>1, SuccessInit, SuccessStep, PTL DEF Spec
=============================================================================
