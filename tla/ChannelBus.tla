----------------------------- MODULE ChannelBus -----------------------------
(***************************************************************************)
(* RuntimeChannelBus of src/channel.cpp: the bounded channels of a graph,  *)
(* one per edge, and the cursors of their readers.                         *)
(*                                                                         *)
(* Every public method holds mutex_ from end to end, so one call is one    *)
(* action.  A message is its sequence number.  Time is the set of          *)
(* sequence numbers older than the lifespan: messages are published in     *)
(* the order of their numbers, so that set is an initial segment which     *)
(* only grows.  Metrics no property needs (drops, rejects, ages, copies,   *)
(* health events) are left out: a call that changes only those stutters.   *)
(***************************************************************************)
EXTENDS Naturals, Sequences, FiniteSets, Positions

CONSTANTS
    Channels,
    Readers,            \* reader ids; numbers, because eviction goes by id order
    Configs,            \* the channel configurations considered
    MaxTrackedReaders,  \* kMaxTrackedReaders
    MaxSequence,        \* bound: publications attempted on a channel
    MaxDeliveries       \* bound: a channel that delivered as much is read no more

Modes == {"latest", "latched", "previous_tick", "queue", "barrier"}
OverflowPolicies == {"overwrite", "drop_oldest", "drop_newest", "block", "fail_fast"}
ChannelConfig == [mode : Modes, overflow : OverflowPolicies, capacity : Nat \ {0},
                  multi : BOOLEAN, lifespan : BOOLEAN, copy : BOOLEAN]

ASSUME BusAssumption ==
    /\ IsFiniteSet(Channels) /\ Channels # {}
    /\ Readers \subseteq Nat /\ IsFiniteSet(Readers)
    /\ Configs \subseteq ChannelConfig
    /\ MaxTrackedReaders \in Nat \ {0}
    /\ MaxSequence \in Nat /\ MaxDeliveries \in Nat

VARIABLES
    config,         \* config of each channel
    nextSequence,   \* next_sequence
    latest,         \* latest, 0 when empty
    pendingTick,    \* pending_previous_tick, 0 when empty
    queue,          \* queue
    latestCursor,   \* delivered_latest_sequences, 0 for a reader that has no entry
    queueCursor,    \* delivered_queue_sequences, likewise
    watermark,      \* high_watermark_reported
    published, delivered, overwritten, stale,
                    \* metrics: the _count fields of these names
    expired,        \* sequence numbers up to this one are older than the lifespan
    log,            \* history: what each reader received from each channel, in order
    forgotten,      \* history: cursors evicted by the cap while they still mattered
    lastBatch       \* history: size and stored prefix of the latest publish_batch

tallies == <<published, delivered, overwritten, stale>>
cursors == <<latestCursor, queueCursor>>
vars == <<config, nextSequence, latest, pendingTick, queue, cursors, watermark, tallies,
          expired, log, forgotten, lastBatch>>

-----------------------------------------------------------------------------
(* Channel policies.                                                       *)

is_latest_style(ch) == config[ch].mode \in {"latest", "latched", "previous_tick"}
Rejecting(ch) == config[ch].overflow \in {"drop_newest", "block", "fail_fast"}

\* The capacity test of preflight_publish_to_state and of publish_to_state.
Refuses(ch, planned) ==
    /\ ~is_latest_style(ch)
    /\ Len(queue[ch]) + planned >= config[ch].capacity
    /\ Rejecting(ch)

\* large_payload_copy_reason: a large payload cannot enter a channel that copies.
Uncopyable(item) == item.large /\ config[item.ch].copy

message_expired(ch, seq) == config[ch].lifespan /\ seq <= expired[ch]
Fresh(ch) == EntriesAt(queue[ch], {i \in DOMAIN queue[ch] : ~message_expired(ch, queue[ch][i])})
StaleIn(ch) == Len(queue[ch]) - Len(Fresh(ch))

\* maybe_emit_high_watermark and maybe_rearm_high_watermark.
Saturated(ch, depth) == ~is_latest_style(ch) /\ config[ch].capacity > 0 /\ depth >= config[ch].capacity
StillSaturated(ch, depth) == watermark[ch] /\ depth >= config[ch].capacity

\* Mutant: the queue is trimmed one message too late.
AtMostPlusOne(n, s) == IF Len(s) <= n + 1 THEN s ELSE SubSeq(s, Len(s) - n, Len(s))

LastOf(s) == s[Len(s)]
AtMost(n, s) == IF Len(s) <= n THEN s ELSE SubSeq(s, Len(s) - n + 1, Len(s))

\* Readers that keep an entry when `entries` outgrows the cap: first every entry
\* whose absence changes nothing goes, then the lowest ids.
Survivors(entries, relevant) ==
    LET live == {r \in Readers : entries[r] # 0}
        kept == {r \in live : relevant[r]}
    IN  IF Cardinality(live) <= MaxTrackedReaders THEN live
        ELSE {r \in kept : Cardinality({q \in kept : q > r}) < MaxTrackedReaders}

Pruned(entries, relevant) ==
    [r \in Readers |-> IF r \in Survivors(entries, relevant) THEN entries[r] ELSE 0]

Evicted(entries, relevant) ==
    {r \in Readers : entries[r] # 0 /\ relevant[r] /\ r \notin Survivors(entries, relevant)}

Init ==
    /\ config \in [Channels -> Configs]
    /\ nextSequence = [ch \in Channels |-> 1]
    /\ latest = [ch \in Channels |-> 0]
    /\ pendingTick = [ch \in Channels |-> 0]
    /\ queue = [ch \in Channels |-> <<>>]
    /\ latestCursor = [ch \in Channels |-> [r \in Readers |-> 0]]
    /\ queueCursor = [ch \in Channels |-> [r \in Readers |-> 0]]
    /\ watermark = [ch \in Channels |-> FALSE]
    /\ published = [ch \in Channels |-> 0]
    /\ delivered = [ch \in Channels |-> 0]
    /\ overwritten = [ch \in Channels |-> 0]
    /\ stale = [ch \in Channels |-> 0]
    /\ expired = [ch \in Channels |-> 0]
    /\ log = [ch \in Channels |-> [r \in Readers |-> <<>>]]
    /\ forgotten = {}
    /\ lastBatch = [size |-> 0, stored |-> 0]

-----------------------------------------------------------------------------
(* Publishing.                                                             *)

\* accept_message, n[ch] times on each channel, inside one critical section;
\* `skipped` channels burn one more sequence number on a refused publication.
StoreAll(n, skipped) ==
    LET last(ch) == nextSequence[ch] + n[ch] - 1
        new(ch) == [i \in 1 .. n[ch] |-> nextSequence[ch] + i - 1]
        slot(ch) == IF config[ch].mode = "previous_tick" THEN pendingTick[ch] ELSE latest[ch]
        replaced(ch) ==
            IF n[ch] = 0 \/ config[ch].mode = "latched" THEN 0
            ELSE IF config[ch].mode \in {"latest", "previous_tick"}
              THEN IF slot(ch) = 0 THEN n[ch] - 1 ELSE n[ch]
            ELSE IF Len(queue[ch]) + n[ch] <= config[ch].capacity THEN 0
            ELSE Len(queue[ch]) + n[ch] - config[ch].capacity
    IN  /\ nextSequence' = [ch \in Channels |->
              nextSequence[ch] + n[ch] + (IF ch \in skipped THEN 1 ELSE 0)]
        /\ pendingTick' = [ch \in Channels |->
              IF n[ch] > 0 /\ config[ch].mode = "previous_tick" THEN last(ch) ELSE pendingTick[ch]]
        /\ latest' = [ch \in Channels |->
              IF n[ch] > 0 /\ config[ch].mode # "previous_tick" THEN last(ch) ELSE latest[ch]]
        /\ queue' = [ch \in Channels |->
              IF is_latest_style(ch) THEN queue[ch]
              ELSE AtMost(config[ch].capacity, queue[ch] \o new(ch))]
        /\ watermark' = [ch \in Channels |->
              watermark[ch] \/ (n[ch] > 0 /\ Saturated(ch, Len(queue[ch]) + n[ch]))]
        /\ published' = [ch \in Channels |-> published[ch] + n[ch]]
        /\ overwritten' = [ch \in Channels |-> overwritten[ch] + replaced(ch)]

\* publish() to one channel, or publish_from() a source with one channel: no
\* preflight, and a refused message has taken its sequence number.
Publish(ch) ==
    /\ nextSequence[ch] <= MaxSequence
    /\ IF Refuses(ch, 0)
          THEN StoreAll([c \in Channels |-> 0], {ch})
          ELSE StoreAll([c \in Channels |-> IF c = ch THEN 1 ELSE 0], {})
    /\ UNCHANGED <<config, cursors, delivered, stale, expired, log, forgotten, lastBatch>>

Items == [ch : Channels, large : BOOLEAN]
Planned(batch, i) == Cardinality({j \in 1 .. i - 1 : batch[j].ch = batch[i].ch})

\* Mutant: the preflight forgets what the batch itself will add.
PreflightIgnoresPlanned(batch) ==
    \A i \in DOMAIN batch : ~Uncopyable(batch[i]) /\ ~Refuses(batch[i].ch, 0)

\* The whole batch is checked against the present queues before anything is stored.
Preflight(batch) ==
    \A i \in DOMAIN batch :
        /\ ~Uncopyable(batch[i])
        /\ ~Refuses(batch[i].ch, Planned(batch, i))

\* How many items the storing loop gets through before one is refused.
StoredPrefix(batch) ==
    Cardinality({i \in DOMAIN batch : \A j \in 1 .. i : ~Refuses(batch[j].ch, Planned(batch, j))})

\* publish_batch(), and publish_from() a source with several channels.
PublishBatch(batch) ==
    LET stored == IF Preflight(batch) THEN StoredPrefix(batch) ELSE 0
        refused == IF Preflight(batch) /\ stored < Len(batch)
                      THEN {batch[stored + 1].ch} ELSE {}
        count == [ch \in Channels |-> Cardinality({i \in 1 .. stored : batch[i].ch = ch})]
    IN  /\ \A i \in DOMAIN batch :
              nextSequence[batch[i].ch] + Planned(batch, i) <= MaxSequence
        /\ StoreAll(count, refused)
        /\ lastBatch' = [size |-> Len(batch), stored |-> stored]
        /\ UNCHANGED <<config, cursors, delivered, stale, expired, log, forgotten>>

\* advance_epoch(): pending previous-tick values become the visible ones.
AdvanceEpoch ==
    LET moving == {ch \in Channels : pendingTick[ch] # 0}
    IN  /\ latest' = [ch \in Channels |-> IF ch \in moving THEN pendingTick[ch] ELSE latest[ch]]
        /\ pendingTick' = [ch \in Channels |-> 0]
        /\ UNCHANGED <<config, nextSequence, queue, cursors, watermark, tallies, expired,
                       log, forgotten, lastBatch>>

-----------------------------------------------------------------------------
(* Reading.                                                                *)

\* Mutant: the cursor comparison is off by one, so the last message comes again.
HandedAgain(ch, r, max) ==
    IF is_latest_style(ch)
       THEN IF latest[ch] = 0 \/ message_expired(ch, latest[ch]) THEN <<>> ELSE <<latest[ch]>>
       ELSE EntriesAt(Fresh(ch),
                {i \in DOMAIN Fresh(ch) : ~config[ch].multi \/ Fresh(ch)[i] >= queueCursor[ch][r]})

\* A drain of a barrier below its capacity returns before it looks at the queue.
BarrierClosed(ch) == config[ch].mode = "barrier" /\ Len(queue[ch]) < config[ch].capacity

\* What is new to reader r: past its cursor, or all there is of a queue that is not shared.
Unseen(ch, r) ==
    EntriesAt(Fresh(ch), {i \in DOMAIN Fresh(ch) : ~config[ch].multi \/ Fresh(ch)[i] > queueCursor[ch][r]})

\* What consume_latest_from_state or consume_from_state hands to reader r.
Handed(ch, r, max) ==
    IF is_latest_style(ch)
       THEN IF \/ latest[ch] = 0 \/ message_expired(ch, latest[ch])
               \/ latestCursor[ch][r] = latest[ch]
            THEN <<>> ELSE <<latest[ch]>>
       ELSE IF BarrierClosed(ch) THEN <<>>
       ELSE IF max = 0 \/ Len(Unseen(ch, r)) <= max THEN Unseen(ch, r)
       ELSE SubSeq(Unseen(ch, r), 1, max)

\* Mutant: a single reader leaves what it has drained.
RetainedForAll(ch, r, max) == IF is_latest_style(ch) THEN queue[ch] ELSE Fresh(ch)

\* A drain drops what is stale and, for a single reader, what it hands over.
Retained(ch, r, max) ==
    IF is_latest_style(ch) \/ BarrierClosed(ch)
       THEN queue[ch]
       ELSE IF config[ch].multi THEN Fresh(ch)
       ELSE SubSeq(Fresh(ch), Len(Handed(ch, r, max)) + 1, Len(Fresh(ch)))

LatestExpires(ch) == is_latest_style(ch) /\ latest[ch] # 0 /\ message_expired(ch, latest[ch])

\* One read of the channels `chs` by r: drain_for_reader and read_latest_for_reader
\* with one channel, consume_for_component with every channel of the component.
Read(chs, r, max) ==
    LET handed(ch) == IF ch \in chs THEN Handed(ch, r, max) ELSE <<>>
        kept(ch) == IF ch \in chs THEN Retained(ch, r, max) ELSE queue[ch]
        moved(ch, entries) ==
            IF handed(ch) = <<>> THEN entries ELSE [entries EXCEPT ![r] = LastOf(handed(ch))]
        atLatest(ch) == [q \in Readers |-> moved(ch, latestCursor[ch])[q] = latest[ch]]
        inQueue(ch) == [q \in Readers |->
            kept(ch) # <<>> /\ moved(ch, queueCursor[ch])[q] >= Head(kept(ch))]
        tracksLatest(ch) == is_latest_style(ch) /\ handed(ch) # <<>>
        drains(ch) == ch \in chs /\ ~is_latest_style(ch) /\ ~BarrierClosed(ch)
        tracksQueue(ch) == drains(ch) /\ config[ch].multi
        losing(ch) ==
            IF tracksLatest(ch) THEN Evicted(moved(ch, latestCursor[ch]), atLatest(ch))
            ELSE IF tracksQueue(ch) THEN Evicted(moved(ch, queueCursor[ch]), inQueue(ch))
            ELSE {}
        expires(ch) == ch \in chs /\ LatestExpires(ch)
    IN  /\ \A ch \in chs : delivered[ch] < MaxDeliveries
        /\ latest' = [ch \in Channels |-> IF expires(ch) THEN 0 ELSE latest[ch]]
        /\ queue' = [ch \in Channels |-> kept(ch)]
        /\ stale' = [ch \in Channels |-> stale[ch] +
              (IF expires(ch) THEN 1
               ELSE IF kept(ch) # queue[ch] THEN StaleIn(ch) ELSE 0)]
        /\ delivered' = [ch \in Channels |-> delivered[ch] + Len(handed(ch))]
        /\ watermark' = [ch \in Channels |->
              IF drains(ch) THEN StillSaturated(ch, Len(kept(ch))) ELSE watermark[ch]]
        /\ latestCursor' = [ch \in Channels |->
              IF tracksLatest(ch) THEN Pruned(moved(ch, latestCursor[ch]), atLatest(ch))
              ELSE latestCursor[ch]]
        /\ queueCursor' = [ch \in Channels |->
              IF tracksQueue(ch) THEN Pruned(moved(ch, queueCursor[ch]), inQueue(ch))
              ELSE queueCursor[ch]]
        /\ forgotten' = forgotten
              \cup {entry \in Channels \X Readers : entry[2] \in losing(entry[1])}
        /\ log' = [ch \in Channels |-> [log[ch] EXCEPT ![r] = @ \o handed(ch)]]
        /\ UNCHANGED <<config, nextSequence, pendingTick, published, overwritten, expired, lastBatch>>

\* read_latest_for_reader and read_latest_update_for_component_port refuse or skip queues.
ReadLatest(ch, r) == is_latest_style(ch) /\ Read({ch}, r, 1)

\* snapshot_for_component_port and peek_latest_for_component_port deliver nothing
\* but drop what is stale.
Snapshot(ch) ==
    /\ IF is_latest_style(ch)
          THEN /\ LatestExpires(ch)
               /\ latest' = [latest EXCEPT ![ch] = 0]
               /\ stale' = [stale EXCEPT ![ch] = @ + 1]
               /\ UNCHANGED <<queue, watermark>>
          ELSE /\ queue' = [queue EXCEPT ![ch] = Fresh(ch)]
               /\ stale' = [stale EXCEPT ![ch] = @ + StaleIn(ch)]
               /\ watermark' = [watermark EXCEPT ![ch] = StillSaturated(ch, Len(Fresh(ch)))]
               /\ UNCHANGED latest
    /\ UNCHANGED <<config, nextSequence, pendingTick, cursors, published, delivered,
                   overwritten, expired, log, forgotten, lastBatch>>

\* Time passes: messages up to `seq` are now older than the lifespan.
Age(ch, seq) ==
    /\ config[ch].lifespan
    /\ expired[ch] < seq /\ seq < nextSequence[ch]
    /\ expired' = [expired EXCEPT ![ch] = seq]
    /\ UNCHANGED <<config, nextSequence, latest, pendingTick, queue, cursors, watermark,
                   tallies, log, forgotten, lastBatch>>

Next ==
    \/ \E ch \in Channels : Publish(ch)
    \/ \E a, b \in Items : PublishBatch(<<a, b>>)
    \/ AdvanceEpoch
    \/ \E r \in Readers, ch \in Channels, max \in 0 .. 1 : Read({ch}, r, max)
    \/ \E r \in Readers : Read(Channels, r, 0)
    \/ \E r \in Readers, ch \in Channels : ReadLatest(ch, r)
    \/ \E ch \in Channels : Snapshot(ch)
    \/ \E ch \in Channels, seq \in 1 .. MaxSequence : Age(ch, seq)

Spec == Init /\ [][Next]_vars

-----------------------------------------------------------------------------
(* Properties.                                                             *)

\* Type correctness of the bus.
TypeOK ==
    /\ config \in [Channels -> Configs]
    /\ nextSequence \in [Channels -> Nat \ {0}]
    /\ latest \in [Channels -> Nat]
    /\ pendingTick \in [Channels -> Nat]
    /\ queue \in [Channels -> Seq(Nat \ {0})]
    /\ latestCursor \in [Channels -> [Readers -> Nat]]
    /\ queueCursor \in [Channels -> [Readers -> Nat]]
    /\ watermark \in [Channels -> BOOLEAN]
    /\ published \in [Channels -> Nat] /\ delivered \in [Channels -> Nat]
    /\ overwritten \in [Channels -> Nat] /\ stale \in [Channels -> Nat]
    /\ expired \in [Channels -> Nat]
    /\ log \in [Channels -> [Readers -> Seq(Nat)]]
    /\ forgotten \subseteq Channels \X Readers
    /\ lastBatch \in [size : Nat, stored : Nat]

Increasing(s) == \A i \in 1 .. Len(s) - 1 : s[i] < s[i + 1]
Elements(s) == {s[i] : i \in DOMAIN s}

\* A reader receives the messages of a channel in order and none of them twice,
\* although cursors are pruned; only a cursor the cap evicted loses that.
DeliveredOnceInOrder ==
    \A ch \in Channels, r \in Readers : <<ch, r>> \notin forgotten => Increasing(log[ch][r])

\* Queue-style channels: a message of a single-reader channel reaches one reader at
\* most, and a retained message of a multi-reader channel that a reader's cursor has
\* passed was handed to that reader.
QueueSharing ==
    \A ch \in Channels : ~is_latest_style(ch) =>
        IF config[ch].multi
        THEN \A r \in Readers : <<ch, r>> \notin forgotten =>
                {seq \in Elements(queue[ch]) : seq <= queueCursor[ch][r]} \subseteq Elements(log[ch][r])
        ELSE \A r, q \in Readers : r # q => Elements(log[ch][r]) \cap Elements(log[ch][q]) = {}

\* The high-watermark signal is armed exactly while the queue is below capacity, so
\* each saturation is reported once, and again after the channel has drained.
WatermarkMatchesDepth ==
    \A ch \in Channels :
        watermark[ch] <=> ~is_latest_style(ch) /\ Len(queue[ch]) >= config[ch].capacity

\* Queue, metrics and watermark of a channel agree after every call.  Each message a
\* queue-style channel accepted is still queued, removed by delivery, discarded by
\* overflow, or stale; the rejecting policies never discard accepted work, the queue
\* respects its capacity, and every saturation is signalled once.
QueueConservation ==
  /\ TypeOK
  /\ WatermarkMatchesDepth
  /\ \A ch \in Channels : ~is_latest_style(ch) =>
        /\ published[ch] = Len(queue[ch]) + overwritten[ch] + stale[ch]
                             + (IF config[ch].multi THEN 0 ELSE delivered[ch])
        /\ Rejecting(ch) => overwritten[ch] = 0
        /\ Len(queue[ch]) <= config[ch].capacity
        /\ Increasing(queue[ch])

\* publish_batch is all or nothing: when the preflight passes no item is refused.
BatchAllOrNothing == lastBatch.stored \in {0, lastBatch.size}
=============================================================================
