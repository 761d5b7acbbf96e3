-------------------------- MODULE PublicationRouter -------------------------
(***************************************************************************)
(* RuntimePublicationRouter of src/channel.cpp over the channel bus, driven *)
(* by the epochs of EventRuntime::run.                                     *)
(*                                                                         *)
(* The runtime thread runs epochs: begin_epoch, the regions, end_epoch.    *)
(* Components publish while it runs them, and task callbacks publish from  *)
(* worker threads at any moment.  The router's mutex and the bus's mutex   *)
(* are taken one after the other, never together, so each critical section *)
(* is an action and callbacks may run between any two of them.             *)
(***************************************************************************)
EXTENDS Naturals, Sequences, FiniteSets, Positions

CONSTANTS
    Channels,       \* one per edge
    Sources,        \* source endpoints
    SourceEdges,    \* source_to_edges_: the channels of each source, in graph order
    EdgeKind,       \* kind of each edge
    LoopExternal,   \* edges from a component of the composite loop to one outside
    MaxInflight,    \* policy.max_inflight of each edge, 0 for no limit
    EdgeConfigs,    \* the assignments of channel configurations considered
    MaxPublishes,   \* bound: calls of publish
    MaxEpochs,      \* bound: epochs begun
    MaxRegions      \* bound: activations of the composite loop

EdgeKinds == {"immediate", "delay", "state", "async"}

ASSUME RouterAssumption ==
    /\ IsFiniteSet(Channels) /\ Channels # {} /\ Sources # {}
    /\ SourceEdges \in [Sources -> Seq(Channels)]
    /\ \A s \in Sources :          \* a channel is one edge
         \A i, j \in DOMAIN SourceEdges[s] : SourceEdges[s][i] = SourceEdges[s][j] => i = j
    /\ EdgeKind \in [Channels -> EdgeKinds]
    /\ LoopExternal \subseteq Channels
    /\ MaxInflight \in [Channels -> Nat]
    /\ MaxPublishes \in Nat /\ MaxEpochs \in Nat /\ MaxRegions \in Nat

VARIABLES
    \* the bus
    config, nextSequence, latest, pendingTick, queue, latestCursor, queueCursor,
    watermark, published, delivered, overwritten, stale, expired, log, forgotten, lastBatch,
    \* the router
    immediateStage,     \* immediate_stage_
    deferredNext,       \* deferred_next_epoch_
    deferredReady,      \* deferred_ready_
    compositeStage,     \* composite_external_stage_
    regionActive,       \* active_composite_components_ is not empty
    stagedCount, committedCount, discardedCount, evictedCount, asyncInFlight,
                        \* metrics_: staged, committed, composite_discarded,
                        \* async_admission_overwrite, async_in_flight
    \* the runtime thread
    pc,                 \* where it is in the epoch
    inHand,             \* the batch it swapped out and has not yet given to the bus
    epoch,              \* epochs begun
    \* history
    publishes,          \* calls of publish so far
    regions,            \* activations of the loop so far
    committed,          \* per channel, the publications the bus accepted, in order
    lost,               \* publications of refused batches
    discarded           \* publications of discarded regions

busVars == <<config, nextSequence, latest, pendingTick, queue, latestCursor, queueCursor,
             watermark, published, delivered, overwritten, stale, expired, log, forgotten,
             lastBatch>>
stages == <<immediateStage, deferredNext, deferredReady, compositeStage>>
metrics == <<stagedCount, committedCount, discardedCount, evictedCount, asyncInFlight>>
history == <<publishes, regions, committed, lost, discarded>>
vars == <<busVars, stages, regionActive, metrics, pc, inHand, epoch, history>>

Reader == 1
Bus == INSTANCE ChannelBus WITH
    Readers <- {Reader}, MaxTrackedReaders <- 1,
    Configs <- {c[ch] : c \in EdgeConfigs, ch \in Channels},
    MaxSequence <- MaxPublishes, MaxDeliveries <- MaxPublishes

ASSUME ConfigAssumption == EdgeConfigs \subseteq [Channels -> Bus!ChannelConfig]

\* Where the runtime thread is: between epochs, in begin_epoch, running components,
\* in commit_immediate, in commit_composite_region_outputs, or returned with an error.
Phases == {"boundary", "begin_swap", "begin_commit", "begin_count",
           "run", "commit", "region_commit", "failed"}

-----------------------------------------------------------------------------

Init ==
    /\ config \in EdgeConfigs
    /\ Bus!Init
    /\ immediateStage = <<>> /\ deferredNext = <<>> /\ deferredReady = <<>>
    /\ compositeStage = <<>>
    /\ regionActive = FALSE
    /\ stagedCount = 0 /\ committedCount = 0 /\ discardedCount = 0
    /\ evictedCount = 0 /\ asyncInFlight = 0
    /\ pc = "boundary"
    /\ inHand = <<>>
    /\ epoch = 0
    /\ publishes = 0
    /\ regions = 0
    /\ committed = [ch \in Channels |-> <<>>]
    /\ lost = {} /\ discarded = {}

IsAsync(p) == EdgeKind[p.ch] = "async"
OnChannel(s, ch) == EntriesAt(s, {i \in DOMAIN s : s[i].ch = ch})
AsyncOf(s) == EntriesAt(s, {i \in DOMAIN s : IsAsync(s[i])})
ImmediateOf(s) == EntriesAt(s, {i \in DOMAIN s : EdgeKind[s[i].ch] = "immediate"})
DeferredOf(s) == EntriesAt(s, {i \in DOMAIN s : EdgeKind[s[i].ch] # "immediate"})
Elements(s) == {s[i] : i \in DOMAIN s}

\* pending_async_count_locked, in the order drop_oldest_pending_async_locked searches.
PendingDeferred == deferredReady \o deferredNext \o compositeStage
pending_async_count == Len(AsyncOf(PendingDeferred))

\* Mutant: completions that already wait for the boundary are not counted.
AtLimitCountsNextOnly(ch) ==
    /\ EdgeKind[ch] = "async"
    /\ MaxInflight[ch] > 0
    /\ Len(OnChannel(deferredNext, ch)) >= MaxInflight[ch]

\* admit_async_locked.
AtLimit(ch) ==
    /\ EdgeKind[ch] = "async"
    /\ MaxInflight[ch] > 0
    /\ Len(OnChannel(PendingDeferred, ch)) >= MaxInflight[ch]
Evicts(ch) == AtLimit(ch) /\ config[ch].overflow \in {"drop_oldest", "overwrite"}
RefusesAsync(ch) == AtLimit(ch) /\ ~Evicts(ch)

\* Edges served before the first refused admission ends the call.
ServedEdges(edges) ==
    EntriesAt(edges, {i \in DOMAIN edges : \A j \in 1 .. i : ~RefusesAsync(edges[j])})

\* The oldest waiting completion of each edge that makes room for the new one.
Victims(served) ==
    {OnChannel(PendingDeferred, ch)[1] : ch \in {e \in Elements(served) : Evicts(e)}}
Keep(stage, victims) == EntriesAt(stage, {i \in DOMAIN stage : stage[i] \notin victims})

\* A publication made between epochs counts for the epoch about to begin.
PublishEpoch == IF pc = "boundary" THEN epoch + 1 ELSE epoch

\* Outputs of the running loop to components outside it are held back.
Composite(ch) == regionActive /\ ch \in LoopExternal

NewPublications(served) ==
    [i \in DOMAIN served |->
        [ch |-> served[i], id |-> publishes + 1, epoch |-> PublishEpoch,
         region |-> IF Composite(served[i]) THEN regions ELSE 0]]
HeldBack(new) == EntriesAt(new, {i \in DOMAIN new : Composite(new[i].ch)})
Passing(new) == EntriesAt(new, {i \in DOMAIN new : ~Composite(new[i].ch)})

\* The in-flight metric: all completions after a refusal, else those of the last async edge.
InflightAfter(edges, served) ==
    LET places == {i \in DOMAIN served : EdgeKind[served[i]] = "async"}
        last == served[NthPlace(places, Cardinality(places))]
    IN  IF Len(served) < Len(edges)
           THEN pending_async_count + Cardinality(places) - Cardinality(Victims(served))
        ELSE IF places = {} THEN asyncInFlight
        ELSE Len(OnChannel(PendingDeferred, last)) + (IF Evicts(last) THEN 0 ELSE 1)

\* publish_shared_from_with_metadata: one critical section for the whole fan-out.
Publish(s) ==
    LET served == ServedEdges(SourceEdges[s])
        victims == Victims(served)
        new == NewPublications(served)
    IN  /\ publishes < MaxPublishes
        /\ immediateStage' = immediateStage \o ImmediateOf(Passing(new))
        /\ deferredNext' = Keep(deferredNext, victims) \o DeferredOf(Passing(new))
        /\ deferredReady' = Keep(deferredReady, victims)
        /\ compositeStage' = Keep(compositeStage, victims) \o HeldBack(new)
        /\ stagedCount' = stagedCount + Len(served)
        /\ evictedCount' = evictedCount + Cardinality(victims)
        /\ asyncInFlight' = InflightAfter(SourceEdges[s], served)
        /\ publishes' = publishes + 1
        /\ UNCHANGED <<busVars, regionActive, committedCount, discardedCount, pc, inHand,
                       epoch, regions, committed, lost, discarded>>

-----------------------------------------------------------------------------
(* The runtime thread.                                                     *)

Stamped(batch) == [i \in DOMAIN batch |-> [pub |-> batch[i], at |-> epoch]]

\* commit_batch: hand the batch to publish_batch; a refusal ends the run.
CommitBatch(next) ==
    /\ IF inHand = <<>>
          THEN /\ UNCHANGED <<busVars, committedCount, committed, lost>>
               /\ pc' = next
          ELSE /\ Bus!PublishBatch([i \in DOMAIN inHand |-> [ch |-> inHand[i].ch, large |-> FALSE]])
               /\ IF lastBatch'.stored = Len(inHand)
                     THEN /\ committedCount' = committedCount + Len(inHand)
                          /\ committed' = [ch \in Channels |->
                                committed[ch] \o Stamped(OnChannel(inHand, ch))]
                          /\ lost' = lost
                          /\ pc' = next
                     ELSE /\ lost' = lost \cup Elements(inHand)
                          /\ pc' = "failed"
                          /\ UNCHANGED <<committedCount, committed>>
    /\ UNCHANGED <<stages, regionActive, stagedCount, discardedCount, evictedCount,
                   epoch, publishes, regions, discarded>>

\* begin_epoch, first the previous-tick values ...
BeginAdvance ==
    /\ pc = "boundary"
    /\ epoch < MaxEpochs
    /\ epoch' = epoch + 1
    /\ Bus!AdvanceEpoch
    /\ pc' = "begin_swap"
    /\ UNCHANGED <<stages, regionActive, metrics, inHand, history>>

\* Mutant: begin_epoch also takes what was published since the boundary.
BeginSwapTakesAll ==
    /\ pc = "begin_swap"
    /\ inHand' = deferredReady \o deferredNext
    /\ deferredReady' = <<>> /\ deferredNext' = <<>>
    /\ pc' = "begin_commit"
    /\ UNCHANGED <<busVars, immediateStage, compositeStage, regionActive, metrics, epoch, history>>

\* ... then the deferred publications of the epoch before.
BeginSwap ==
    /\ pc = "begin_swap"
    /\ inHand' = deferredReady
    /\ deferredReady' = <<>>
    /\ pc' = "begin_commit"
    /\ UNCHANGED <<busVars, immediateStage, deferredNext, compositeStage, regionActive,
                   metrics, epoch, history>>

BeginCommit ==
    /\ pc = "begin_commit"
    /\ CommitBatch("begin_count")
    /\ UNCHANGED <<inHand, asyncInFlight>>

BeginCount ==
    /\ pc = "begin_count"
    /\ asyncInFlight' = IF AsyncOf(inHand) = <<>> THEN asyncInFlight
                        ELSE pending_async_count
    /\ inHand' = <<>>
    /\ pc' = "run"
    /\ UNCHANGED <<busVars, stages, regionActive, stagedCount, committedCount,
                   discardedCount, evictedCount, epoch, history>>

\* Mutants: the deferred publications, or the outputs of the running loop, are
\* committed along.
CommitSwapTakesDeferred ==
    /\ pc = "run"
    /\ inHand' = immediateStage \o deferredNext
    /\ immediateStage' = <<>> /\ deferredNext' = <<>>
    /\ pc' = "commit"
    /\ UNCHANGED <<busVars, deferredReady, compositeStage, regionActive, metrics, epoch, history>>

CommitSwapTakesLoopOutputs ==
    /\ pc = "run"
    /\ inHand' = immediateStage \o compositeStage
    /\ immediateStage' = <<>> /\ compositeStage' = <<>>
    /\ pc' = "commit"
    /\ UNCHANGED <<busVars, deferredNext, deferredReady, regionActive, metrics, epoch, history>>

\* commit_immediate, after every invocation.
CommitSwap ==
    /\ pc = "run"
    /\ inHand' = immediateStage
    /\ immediateStage' = <<>>
    /\ pc' = "commit"
    /\ UNCHANGED <<busVars, deferredNext, deferredReady, compositeStage, regionActive,
                   metrics, epoch, history>>

CommitImmediate ==
    /\ pc = "commit"
    /\ CommitBatch("run")
    /\ inHand' = <<>>
    /\ UNCHANGED asyncInFlight

\* begin_composite_region: EventRuntime::run enters the loop.
BeginRegion ==
    /\ pc = "run" /\ ~regionActive
    /\ regions < MaxRegions
    /\ regions' = regions + 1
    /\ regionActive' = TRUE
    /\ compositeStage' = <<>>
    /\ UNCHANGED <<busVars, immediateStage, deferredNext, deferredReady, metrics, pc,
                   inHand, epoch, publishes, committed, lost, discarded>>

\* Mutant: the deferred outputs of the loop go in front of the queue.
CommitRegionPrepends ==
    /\ pc = "run" /\ regionActive
    /\ deferredNext' = DeferredOf(compositeStage) \o deferredNext
    /\ inHand' = ImmediateOf(compositeStage)
    /\ compositeStage' = <<>>
    /\ regionActive' = FALSE
    /\ pc' = "region_commit"
    /\ UNCHANGED <<busVars, immediateStage, deferredReady, metrics, epoch, history>>

\* commit_composite_region_outputs: deferred outputs join the next epoch, immediate
\* ones become a batch of their own.
CommitRegion ==
    /\ pc = "run" /\ regionActive
    /\ deferredNext' = deferredNext \o DeferredOf(compositeStage)
    /\ inHand' = ImmediateOf(compositeStage)
    /\ compositeStage' = <<>>
    /\ regionActive' = FALSE
    /\ pc' = "region_commit"
    /\ UNCHANGED <<busVars, immediateStage, deferredReady, metrics, epoch, history>>

CommitRegionBatch ==
    /\ pc = "region_commit"
    /\ CommitBatch("run")
    /\ inHand' = <<>>
    /\ UNCHANGED asyncInFlight

\* discard_composite_region_outputs.
DiscardRegion ==
    /\ pc = "run" /\ regionActive
    /\ discardedCount' = discardedCount + Len(compositeStage)
    /\ discarded' = discarded \cup Elements(compositeStage)
    /\ compositeStage' = <<>>
    /\ regionActive' = FALSE
    /\ asyncInFlight' = IF AsyncOf(compositeStage) = <<>> THEN asyncInFlight
                        ELSE Len(AsyncOf(deferredReady \o deferredNext))
    /\ UNCHANGED <<busVars, immediateStage, deferredNext, deferredReady, stagedCount,
                   committedCount, evictedCount, pc, inHand, epoch, publishes, regions,
                   committed, lost>>

\* A component fails, or a cancelled loop has settled its outputs: EventRuntime::run
\* returns at once, whatever is staged.
ComponentFails ==
    /\ pc = "run"
    /\ pc' = "failed"
    /\ UNCHANGED <<busVars, stages, regionActive, metrics, inHand, epoch, history>>

EndEpoch ==
    /\ pc = "run" /\ ~regionActive
    /\ deferredReady' = deferredReady \o deferredNext
    /\ deferredNext' = <<>>
    /\ pc' = "boundary"
    /\ UNCHANGED <<busVars, immediateStage, compositeStage, regionActive, metrics, inHand,
                   epoch, history>>

\* The trigger engine drains an input of the component about to run.
ReadInput(ch) ==
    /\ pc = "run"
    /\ Bus!Read({ch}, Reader, 0)
    /\ UNCHANGED <<stages, regionActive, metrics, pc, inHand, epoch, history>>

Next ==
    \/ \E s \in Sources : Publish(s)
    \/ BeginAdvance \/ BeginSwap \/ BeginCommit \/ BeginCount
    \/ CommitSwap \/ CommitImmediate
    \/ BeginRegion \/ CommitRegion \/ CommitRegionBatch \/ DiscardRegion
    \/ ComponentFails
    \/ EndEpoch
    \/ \E ch \in Channels : ReadInput(ch)

Spec == Init /\ [][Next]_vars

-----------------------------------------------------------------------------
(* Properties.                                                             *)

Publication == [ch : Channels, id : Nat, epoch : Nat, region : Nat]

\* Type correctness of the router.
TypeOK ==
    /\ \A stage \in {immediateStage, deferredNext, deferredReady, compositeStage, inHand} :
          stage \in Seq(Publication)
    /\ regionActive \in BOOLEAN
    /\ stagedCount \in Nat /\ committedCount \in Nat /\ discardedCount \in Nat
    /\ evictedCount \in Nat /\ asyncInFlight \in Nat
    /\ pc \in Phases
    /\ epoch \in Nat /\ publishes \in Nat /\ regions \in Nat
    /\ committed \in [Channels -> Seq([pub : Publication, at : Nat])]
    /\ lost \subseteq Publication /\ discarded \subseteq Publication

Deferred(ch) == EdgeKind[ch] # "immediate"
InHand == IF pc = "begin_count" THEN <<>> ELSE inHand
CommittedPubs(ch) == {committed[ch][i].pub : i \in DOMAIN committed[ch]}

\* A delay, state or async publication reaches its channel at the boundary that
\* follows its epoch: not before, and, once the epoch runs, none is overdue.
DeferredAtNextBoundary ==
    \A ch \in Channels : Deferred(ch) =>
        /\ \A i \in DOMAIN committed[ch] :
              committed[ch][i].at = committed[ch][i].pub.epoch + 1
        /\ pc = "run" => \A p \in Elements(OnChannel(PendingDeferred, ch)) : p.epoch >= epoch

\* End to end: what a component reads from a deferred edge or a previous_tick channel
\* was published in an earlier epoch than the one it reads in.
FeedbackIsDelayed ==
    [][\A ch \in Channels :
          Deferred(ch) \/ config[ch].mode = "previous_tick" =>
              \A i \in Len(log[ch][Reader]) + 1 .. Len(log'[ch][Reader]) :
                  committed[ch][log'[ch][Reader][i]].pub.epoch < epoch]_vars

\* Publications on one channel reach it in the order they were made.  Immediate
\* outputs of a loop are the exception: one staged while the loop runs overtakes one
\* that a task callback staged just before it.
ChannelFifo ==
    \A ch \in Channels : Deferred(ch) \/ ch \notin LoopExternal =>
        LET pipe == [i \in DOMAIN committed[ch] |-> committed[ch][i].pub]
                    \o OnChannel(InHand, ch) \o OnChannel(immediateStage, ch)
                    \o OnChannel(PendingDeferred, ch)
        IN  pc # "failed" => \A i \in 1 .. Len(pipe) - 1 : pipe[i].id < pipe[i + 1].id

\* At most max_inflight completions of an async edge wait for delivery.
AsyncAdmissionBound ==
    \A ch \in Channels :
        EdgeKind[ch] = "async" /\ MaxInflight[ch] > 0 =>
            Len(OnChannel(PendingDeferred, ch)) <= MaxInflight[ch]

\* Every staged publication is accounted for, whatever thread staged it between which
\* steps of the epoch: waiting within the limits of its edge, committed, evicted by
\* async admission, discarded with its loop, or lost with a refused batch.
StagedAccounted ==
    /\ TypeOK
    /\ AsyncAdmissionBound
    /\ stagedCount = committedCount + evictedCount + discardedCount + Cardinality(lost)
                        + (IF pc = "failed" THEN 0 ELSE Len(InHand))
                        + Len(immediateStage) + Len(PendingDeferred)

\* The outputs of one activation of the loop leave it together: while it runs none is
\* committed, none is committed if any is discarded, and its immediate outputs are
\* committed all or none.  (A deferred one travels on with the next epoch's batch.)
RegionOutputsTogether ==
    \A k \in 1 .. regions :
        LET visible == {p \in UNION {CommittedPubs(ch) : ch \in Channels} : p.region = k}
        IN  /\ visible # {} => /\ \A p \in discarded : p.region # k
                              /\ ~(regionActive /\ k = regions)
            /\ (\E p \in visible : ~Deferred(p.ch)) =>
                  \A p \in lost : p.region = k => Deferred(p.ch)

\* The batches the router hands to the bus are stored whole or refused whole, although the
\* bus stores them message by message after its preflight.
BatchAllOrNothing == Bus!BatchAllOrNothing
=============================================================================
