---------------------------- MODULE TriggerPolicy ---------------------------
(***************************************************************************)
(* TriggerPolicyEngine of src/trigger_policy.cpp for one component: how    *)
(* the messages of its input ports become invocations, wait, or are        *)
(* dropped.  Components and task callbacks publish at any time; the        *)
(* runtime reads the clock, then drains the ports and collects.            *)
(*                                                                         *)
(* Each port is fed by one channel, which refuses a message when full      *)
(* (ChannelBus has the channel's own behaviour).                           *)
(***************************************************************************)
EXTENDS Integers, Sequences, FiniteSets, SequencesExt

CONSTANTS
    Ports,          \* input ports of the component; numbers, in map order
    Policies,       \* the trigger policies to consider, see PolicyType
    Stamps,         \* event timestamps
    Domains,        \* timestamp domains
    MaxMessages,    \* bound: messages published
    MaxTime         \* bound: the steady clock

None == -1          \* an absent optional

PolicyType ==
    [source : {"timer", "manual", "message"},
     type : {"any_input", "all_inputs", "time_sync", "batch", "watermark", "condition", "debounce", "rate_limit"},
     condition : {"", "any_input_ready", "all_inputs_ready", "event_timestamp_present"},
     inputs : Seq(Ports), coalesce : BOOLEAN, capacity : Nat,
     batch_size : Nat, batch_window : Nat, sync_slop : Nat,
     min_interval : Nat, max_latency : Nat, lateness : Nat]

ASSUME TriggerAssumption ==
    /\ Ports \subseteq Nat /\ IsFiniteSet(Ports)
    /\ Stamps \subseteq Nat
    /\ Policies \subseteq PolicyType
    /\ \A p \in Policies : IsInjective(p.inputs) /\ p.capacity > 0
    /\ MaxMessages \in Nat /\ MaxTime \in Nat

VARIABLES
    policy,         \* the component's trigger_policy and event source
    clock,          \* steady_clock::now()
    tick,           \* context.started_at of the check under way, or None
    chan,           \* what the channel of each port holds
    pending,        \* pending_[component]
    lastInvoked,    \* last_invoked_[component], or None
    watermarks,     \* watermarks_[component], None for an unseen domain
    dropped,        \* the sum of the drop counters of TriggerRuntimeMetrics
    invocations,    \* what the last check returned: sequences of messages
    published,      \* history: messages published
    delivered,      \* history: ids of the messages invoked, per port
    recent          \* history: the times of the last two invocations

vars == <<policy, clock, tick, chan, pending, lastInvoked, watermarks, dropped,
          invocations, published, delivered, recent>>

Message == [id : Nat, port : Ports, at : Nat, stamp : Stamps \cup {None}, domain : Domains]
Queues == [Ports -> Seq(Message)]
PortOrder == SetToSortSeq(Ports, <)
NoMessages == [p \in Ports |-> <<>>]
Inputs == Range(policy.inputs)

Total(q) == FoldSet(LAMBDA p, n : n + Len(q[p]), 0, Ports)

Init ==
    /\ policy \in Policies
    /\ clock = 0 /\ tick = None
    /\ chan = NoMessages /\ pending = NoMessages
    /\ lastInvoked = None
    /\ watermarks = [d \in Domains |-> None]
    /\ dropped = 0 /\ invocations = <<>>
    /\ published = 0 /\ delivered = NoMessages /\ recent = <<>>

-----------------------------------------------------------------------------
(* What a check does to the pending queues before it decides.              *)

DrainInputs == [p \in Ports |-> IF p \in Inputs THEN pending[p] \o chan[p] ELSE pending[p]]

TimedOut(m) == policy.max_latency > 0 /\ tick - m.at > policy.max_latency

\* Mutant: only the oldest message of a queue is examined.
PruneFrontOnly(q) ==
    [p \in Ports |-> IF q[p] # <<>> /\ TimedOut(q[p][1]) THEN Tail(q[p]) ELSE q[p]]
PruneTimedOutMessages(q) == [p \in Ports |-> SelectSeq(q[p], LAMBDA m : ~TimedOut(m))]

\* Mutant: a coalescing trigger keeps as much as any other.
PendingLimitUncoalesced == Max({1, policy.capacity, policy.batch_size}) + 1
PendingLimit ==
    IF policy.type = "debounce" \/ policy.coalesce
       THEN 1
       ELSE Max({1, policy.capacity, policy.batch_size}) + 1

Newest(s, n) == SubSeq(s, Len(s) - Min({n, Len(s)}) + 1, Len(s))

\* Mutant: the bound is not enforced.
NoBounds(q) == q
EnforcePendingBounds(q) == [p \in Ports |-> Newest(q[p], PendingLimit)]

RateLimited ==
    policy.min_interval > 0 /\ lastInvoked # None /\ tick - lastInvoked < policy.min_interval

-----------------------------------------------------------------------------
(* The collectors.  Each maps the pending queues to the invocations to     *)
(* make, the queues left, the messages counted as dropped, the watermarks. *)

Outcome(invs, left, lost) ==
    [invocations |-> invs, left |-> left, lost |-> lost, watermarks |-> watermarks]

InMapOrder(q) == FlattenSeq([i \in DOMAIN PortOrder |-> q[PortOrder[i]]])

CollectAnyInput(q) ==
    LET all == InMapOrder(q)
    IN  IF all = <<>> \/ policy.min_interval = 0
           THEN Outcome([i \in DOMAIN all |-> <<all[i]>>], NoMessages, 0)
           ELSE Outcome(<< <<all[1]>> >>, [q EXCEPT ![all[1].port] = Tail(@)], 0)

CollectCoalescedAnyInput(q) ==
    LET ready == SelectSeq(PortOrder, LAMBDA p : q[p] # <<>>)
    IN  IF ready = <<>>
           THEN Outcome(<<>>, q, 0)
           ELSE Outcome(<< [i \in DOMAIN ready |-> Last(q[ready[i]])] >>, NoMessages, 0)

FrontReady(q) == \A p \in Inputs : q[p] # <<>>
FrontMessagesForInputs(q) == [i \in DOMAIN policy.inputs |-> Head(q[policy.inputs[i]])]
ConsumeFrontMessages(q) == [p \in Ports |-> IF p \in Inputs THEN Tail(q[p]) ELSE q[p]]

CollectAllInputs(q) ==
    IF FrontReady(q)
       THEN Outcome(<< FrontMessagesForInputs(q) >>, ConsumeFrontMessages(q), 0)
       ELSE Outcome(<<>>, q, 0)

\* messages_have_comparable_timestamps
Comparable(ms) ==
    \A i \in DOMAIN ms : ms[i].stamp # None /\ ms[i].domain = ms[1].domain

StampSpread(ms) ==
    LET stamps == {ms[i].stamp : i \in DOMAIN ms} IN Max(stamps) - Min(stamps)

\* Mutant: only the first input is compared with the last, in one direction.
WithinSlopLoose(ms) ==
    policy.sync_slop = 0 \/ ~Comparable(ms) \/ ms[1].stamp - ms[Len(ms)].stamp <= policy.sync_slop
WithinSlop(ms) ==
    policy.sync_slop = 0 \/ ~Comparable(ms) \/ StampSpread(ms) <= policy.sync_slop

OldestInput(ms) ==
    LET oldest == CHOOSE i \in DOMAIN ms :
                    /\ \A j \in DOMAIN ms : ms[i].stamp <= ms[j].stamp
                    /\ \A j \in 1 .. i - 1 : ms[i].stamp < ms[j].stamp
    IN  ms[oldest].port

\* The loop that drops the oldest front message until the fronts align.
Synced[q \in Queues] ==
    IF ~FrontReady(q) \/ WithinSlop(FrontMessagesForInputs(q))
       THEN q
       ELSE Synced[[q EXCEPT ![OldestInput(FrontMessagesForInputs(q))] = Tail(@)]]

CollectTimeSync(q) == [CollectAllInputs(Synced[q]) EXCEPT !.lost = Total(q) - Total(Synced[q])]

Advance(mark, m) == IF mark = None \/ m.stamp > mark THEN m.stamp ELSE mark

Late(marks, m) ==
    m.stamp # None /\ marks[m.domain] # None /\ m.stamp < marks[m.domain] - policy.lateness

CollectWatermark(q) ==
    LET Examine(acc, m) ==
            IF Late(acc.marks, m) THEN acc
            ELSE [marks |-> IF m.stamp = None THEN acc.marks
                            ELSE [acc.marks EXCEPT ![m.domain] = Advance(@, m)],
                  kept |-> [acc.kept EXCEPT ![m.port] = Append(@, m)]]
        pass == FoldLeft(Examine, [marks |-> watermarks, kept |-> NoMessages], InMapOrder(q))
    IN  [CollectAnyInput(pass.kept) EXCEPT !.lost = Total(q) - Total(pass.kept), !.watermarks = pass.marks]

\* The loop of event_timestamp_present that drops front messages without a timestamp.
Stamped[q \in Queues] ==
    IF ~FrontReady(q) \/ \A p \in Inputs : Head(q[p]).stamp # None
       THEN q
       ELSE Stamped[[p \in Ports |-> IF p \in Inputs /\ Head(q[p]).stamp = None THEN Tail(q[p]) ELSE q[p]]]

CollectCondition(q) ==
    CASE policy.condition = "any_input_ready" -> CollectAnyInput(q)
      [] policy.condition \in {"", "all_inputs_ready"} -> CollectAllInputs(q)
      [] policy.condition = "event_timestamp_present" /\ Inputs # {} ->
            [CollectAllInputs(Stamped[q]) EXCEPT !.lost = Total(q) - Total(Stamped[q])]
      [] OTHER -> Outcome(<<>>, q, 0)

Available(q) == FoldSet(LAMBDA p, n : n + Len(q[p]), 0, Inputs)

\* oldest_pending_batch_time
OldestPending(q) == Min({Head(q[p]).at : p \in {x \in Inputs : q[x] # <<>>}})

\* Mutant: the window is measured from the last invocation.
WindowOverSinceInvoked(q) ==
    policy.batch_window > 0 /\ tick - (IF lastInvoked = None THEN 0 ELSE lastInvoked) >= policy.batch_window
WindowOver(q) == policy.batch_window > 0 /\ tick - OldestPending(q) >= policy.batch_window

TargetCount(q) ==
    IF Available(q) = 0 THEN 0
    ELSE IF policy.batch_size > 0 /\ Available(q) >= policy.batch_size THEN policy.batch_size
    ELSE IF WindowOver(q) THEN Available(q)
    ELSE 0

CollectBatch(q) ==
    LET order == FlattenSeq([i \in DOMAIN policy.inputs |-> q[policy.inputs[i]]])
        batch == SubSeq(order, 1, TargetCount(q))
        left == [p \in Ports |-> SelectSeq(q[p], LAMBDA m : m \notin Range(batch))]
    IN  IF TargetCount(q) = 0 THEN Outcome(<<>>, q, 0) ELSE Outcome(<<batch>>, left, 0)

Collect(q) ==
    CASE policy.type = "all_inputs" -> CollectAllInputs(q)
      [] policy.type = "time_sync" -> CollectTimeSync(q)
      [] policy.type = "batch" -> CollectBatch(q)
      [] policy.type = "watermark" -> CollectWatermark(q)
      [] policy.type = "condition" -> CollectCondition(q)
      [] policy.type = "debounce" -> CollectCoalescedAnyInput(q)
      [] OTHER -> IF policy.coalesce THEN CollectCoalescedAnyInput(q) ELSE CollectAnyInput(q)

-----------------------------------------------------------------------------
(* Actions.                                                                *)

\* A message carries a timestamp only where the policy looks at it; the others never do.
Timestamped == policy.type \in {"time_sync", "watermark"} \/ policy.condition = "event_timestamp_present"

Publish(p, stamp, domain) ==
    /\ published < MaxMessages
    /\ stamp = None \/ Timestamped
    /\ Len(chan[p]) < policy.capacity
    /\ published' = published + 1
    /\ chan' = [chan EXCEPT ![p] =
                  Append(@, [id |-> published + 1, port |-> p, at |-> clock, stamp |-> stamp, domain |-> domain])]
    /\ UNCHANGED <<policy, clock, tick, pending, lastInvoked, watermarks, dropped, invocations, delivered, recent>>

TimePasses ==
    /\ clock < MaxTime
    /\ clock' = clock + 1
    /\ UNCHANGED <<policy, tick, chan, pending, lastInvoked, watermarks, dropped,
                   invocations, published, delivered, recent>>

\* The runtime reads the clock for the check it is about to make.
BeginTick ==
    /\ tick = None
    /\ tick' = clock
    /\ invocations' = <<>>
    /\ UNCHANGED <<policy, clock, chan, pending, lastInvoked, watermarks, dropped, published, delivered, recent>>

\* A timer or manual source invokes without messages and without the engine's state.
CollectUnconditional ==
    /\ tick # None
    /\ policy.source # "message"
    /\ invocations' = << <<>> >>
    /\ tick' = None
    /\ UNCHANGED <<policy, clock, chan, pending, lastInvoked, watermarks, dropped, published, delivered, recent>>

LastTwo(s) == Newest(s, 2)

RecordInvocation(invs) == lastInvoked' = IF invs = <<>> THEN lastInvoked ELSE tick

\* collect_ready_invocations for a component with a message source.
CollectReadyInvocations ==
    /\ tick # None
    /\ policy.source = "message"
    /\ LET drained == DrainInputs
           fresh == PruneTimedOutMessages(drained)
           bounded == EnforcePendingBounds(fresh)
           outcome == IF RateLimited THEN Outcome(<<>>, bounded, 0) ELSE Collect(bounded)
           messages == FlattenSeq(outcome.invocations)
       IN  /\ invocations' = outcome.invocations
           /\ pending' = outcome.left
           /\ watermarks' = outcome.watermarks
           /\ dropped' = dropped + (Total(drained) - Total(fresh)) + (Total(fresh) - Total(bounded)) + outcome.lost
           /\ RecordInvocation(outcome.invocations)
           /\ delivered' = [p \in Ports |->
                delivered[p] \o [i \in DOMAIN SelectSeq(messages, LAMBDA m : m.port = p) |->
                                    SelectSeq(messages, LAMBDA m : m.port = p)[i].id]]
           /\ recent' = LastTwo(recent \o [i \in DOMAIN outcome.invocations |-> tick])
    /\ chan' = [p \in Ports |-> IF p \in Inputs THEN <<>> ELSE chan[p]]
    /\ tick' = None
    /\ UNCHANGED <<policy, clock, published>>

Next ==
    \/ \E p \in Ports, s \in Stamps \cup {None}, d \in Domains : Publish(p, s, d)
    \/ TimePasses
    \/ BeginTick
    \/ CollectUnconditional
    \/ CollectReadyInvocations

Spec == Init /\ [][Next]_vars

-----------------------------------------------------------------------------
(* Properties.                                                             *)

\* The types of the variables.
TypeOK ==
    /\ policy \in Policies
    /\ clock \in 0 .. MaxTime /\ tick \in (0 .. MaxTime) \cup {None}
    /\ chan \in Queues /\ pending \in Queues
    /\ lastInvoked \in (0 .. MaxTime) \cup {None}
    /\ watermarks \in [Domains -> Stamps \cup {None}]
    /\ dropped \in Nat /\ published \in 0 .. MaxMessages
    /\ invocations \in Seq(Seq(Message))
    /\ delivered \in [Ports -> Seq(Nat)] /\ recent \in Seq(Nat)

\* No message disappears: each one published is still in its channel, waits in a pending
\* queue, was invoked once, or was counted by a drop counter (13a of
\* docs/21-architecture/runtime-invariants.md: drops are explained).
MessagesAccounted ==
    /\ TypeOK
    /\ published = Total(chan) + Total(pending) + Total(delivered) + dropped

\* Suppressed triggers do not pile messages up: between checks no pending queue exceeds the
\* bound enforce_pending_bounds derives from the channel, although the collectors may leave
\* whole queues behind.
PendingBounded == \A p \in Ports : Len(pending[p]) <= PendingLimit

\* A port's messages are invoked at most once and in the order they were published, through
\* drains, partial batches, synchronisation drops and suppressed checks.
InArrivalOrder == \A p \in Ports : \A i, j \in DOMAIN delivered[p] : i < j => delivered[p][i] < delivered[p][j]

\* With a minimum interval, whatever the policy type, two invocations are never closer than
\* the interval (a message that became ready in between waits for the next check).
AtMostOnePerInterval ==
    Len(recent) = 2 /\ policy.source = "message" => recent[2] - recent[1] >= policy.min_interval

\* A check never invokes with a message older than max_latency, nor with one that is later
\* than the lateness allows against the watermark of the checks before it; and a watermark
\* never moves back.
NothingExpiredOrLate ==
    [][/\ \A i \in DOMAIN invocations' : \A m \in Range(invocations'[i]) :
             invocations' # invocations =>
                /\ policy.max_latency = 0 \/ tick - m.at <= policy.max_latency
                /\ policy.type = "watermark" => ~Late(watermarks, m)
       /\ \A d \in Domains : watermarks'[d] >= watermarks[d]]_vars

\* The messages of a time_sync invocation whose timestamps can be compared lie within the
\* slop of each other, pairwise, whichever input was the late one.
SyncedWithinSlop ==
    \A i \in DOMAIN invocations :
        policy.type = "time_sync" /\ policy.sync_slop > 0 /\ Comparable(invocations[i]) =>
            \A m, n \in Range(invocations[i]) : m.stamp - n.stamp <= policy.sync_slop

\* Whatever waits, is dropped or is suppressed in between, the invocations a component sees
\* take each port's messages in order, keep the interval, and are synchronised.
InvocationsSound == InArrivalOrder /\ AtMostOnePerInterval /\ SyncedWithinSlop

\* A batch is full, or it holds a message that has waited for the whole window; and nothing
\* that was due is left behind: no messages that fill a batch, and none that has waited for the
\* whole window, with or without newer ones.
BatchWhenDue ==
    [][policy.type = "batch" /\ tick # None /\ tick' = None =>
        /\ \A i \in DOMAIN invocations' :
              \/ Len(invocations'[i]) = policy.batch_size
              \/ /\ policy.batch_window > 0
                 /\ \E m \in Range(invocations'[i]) : tick - m.at >= policy.batch_window
        /\ invocations' = <<>> /\ ~RateLimited =>
              /\ policy.batch_size > 0 => Available(pending') < policy.batch_size
              /\ policy.batch_window > 0 => \A p \in Inputs : \A m \in Range(pending'[p]) :
                    tick - m.at < policy.batch_window]_vars
=============================================================================
