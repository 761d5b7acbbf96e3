-------------------------- MODULE ChannelBusProofs --------------------------
(***************************************************************************)
(* Proofs about ChannelBus, for every set of channels and readers, every   *)
(* channel configuration, every cap on tracked readers and any number of   *)
(* messages.                                                               *)
(***************************************************************************)
EXTENDS ChannelBus, CollectionLemmas, TLAPS

-----------------------------------------------------------------------------
(* The invariant, channel by channel.                                      *)

\* Every number a channel keeps was given out by it, the queue is in order, and a pending
\* previous-tick value is newer than the visible one.
Numbers(ch) ==
    /\ latest[ch] < nextSequence[ch] /\ pendingTick[ch] < nextSequence[ch]
    /\ config[ch].mode # "previous_tick" => pendingTick[ch] = 0
    /\ pendingTick[ch] # 0 => latest[ch] < pendingTick[ch]
    /\ Ascending(queue[ch]) /\ \A x \in ItemsOf(queue[ch]) : x < nextSequence[ch]
    /\ \A r \in Readers : /\ queueCursor[ch][r] < nextSequence[ch]
                          /\ \A y \in ItemsOf(log[ch][r]) : 1 <= y /\ y < nextSequence[ch]

\* The counters and the watermark of a queue.
Books(ch) ==
    /\ watermark[ch] <=> ~is_latest_style(ch) /\ Len(queue[ch]) >= config[ch].capacity
    /\ ~is_latest_style(ch) =>
          /\ published[ch] = Len(queue[ch]) + overwritten[ch] + stale[ch]
                               + (IF config[ch].multi THEN 0 ELSE delivered[ch])
          /\ Rejecting(ch) => overwritten[ch] = 0
          /\ Len(queue[ch]) <= config[ch].capacity

\* The latest value is newer than what r has received, or it is what r's cursor says.
LatestTold(ch, r) ==
    /\ latest[ch] # 0 =>
          \A y \in ItemsOf(log[ch][r]) : y <= latest[ch] /\ (y = latest[ch] => latestCursor[ch][r] = latest[ch])
    /\ pendingTick[ch] # 0 => \A y \in ItemsOf(log[ch][r]) : y < pendingTick[ch]

\* Of a shared queue, r has received what its cursor has passed and nothing beyond it; with
\* the cursor pruned, nothing that is still queued.
QueueTold(ch, r) ==
    /\ \A x \in ItemsOf(queue[ch]), y \in ItemsOf(log[ch][r]) : y < x \/ y <= queueCursor[ch][r]
    /\ \A x \in ItemsOf(queue[ch]) : x <= queueCursor[ch][r] => x \in ItemsOf(log[ch][r])

Told(ch, r) ==
    /\ Ascending(log[ch][r])
    /\ is_latest_style(ch) => LatestTold(ch, r)
    /\ ~is_latest_style(ch) /\ config[ch].multi => QueueTold(ch, r)

\* Of a queue that is not shared nobody has received what is still there, and no two readers
\* the same message.
Private(ch) ==
    ~is_latest_style(ch) /\ ~config[ch].multi =>
        /\ \A r \in Readers : \A x \in ItemsOf(queue[ch]), y \in ItemsOf(log[ch][r]) : y < x
        /\ \A r, q \in Readers : r # q => ItemsOf(log[ch][r]) \cap ItemsOf(log[ch][q]) = {}

Delivery(ch) == Private(ch) /\ \A r \in Readers : <<ch, r>> \notin forgotten => Told(ch, r)

BusInv == TypeOK /\ \A ch \in Channels : Numbers(ch) /\ Books(ch) /\ Delivery(ch)

-----------------------------------------------------------------------------
(* What the operators on a queue return.                                   *)

Positive == Nat \ {0}

\* What TypeOK says of one channel.
Typed(ch) ==
    /\ config[ch] \in ChannelConfig /\ config[ch].multi \in BOOLEAN /\ config[ch].capacity \in Positive
    /\ nextSequence[ch] \in Positive /\ latest[ch] \in Nat /\ pendingTick[ch] \in Nat
    /\ queue[ch] \in Seq(Positive)
    /\ latestCursor[ch] \in [Readers -> Nat] /\ queueCursor[ch] \in [Readers -> Nat]
    /\ watermark[ch] \in BOOLEAN
    /\ published[ch] \in Nat /\ delivered[ch] \in Nat /\ overwritten[ch] \in Nat /\ stale[ch] \in Nat
    /\ expired[ch] \in Nat
    /\ log[ch] \in [Readers -> Seq(Nat)]

LEMMA TypedChannel == TypeOK => \A ch \in Channels : Typed(ch)
<1> SUFFICES ASSUME TypeOK, NEW ch \in Channels PROVE Typed(ch)
  OBVIOUS
<1>1. config[ch] \in ChannelConfig
  BY BusAssumption DEF TypeOK
<1>2. config[ch].multi \in BOOLEAN /\ config[ch].capacity \in Positive
  BY <1>1 DEF ChannelConfig, Positive
<1> QED
  BY <1>1, <1>2 DEF TypeOK, Typed, Positive

\* A message without a lifespan is kept, the order too.
LEMMA FreshFacts ==
    ASSUME NEW ch, Typed(ch)
    PROVE  /\ Fresh(ch) \in Seq(Positive) /\ Len(Fresh(ch)) \in 0 .. Len(queue[ch])
           /\ Len(queue[ch]) \in Nat
           /\ StaleIn(ch) \in Nat /\ StaleIn(ch) = Len(queue[ch]) - Len(Fresh(ch))
           /\ ItemsOf(Fresh(ch)) \subseteq ItemsOf(queue[ch])
           /\ Ascending(queue[ch]) => Ascending(Fresh(ch))
<1> DEFINE places == {i \in DOMAIN queue[ch] : ~message_expired(ch, queue[ch][i])}
           s == queue[ch]
<1>1. s \in Seq(Positive) /\ places \in SUBSET DOMAIN s /\ Fresh(ch) = EntriesAt(s, places)
  BY DEF Typed, Fresh
<1>2. Positive \subseteq Nat
  BY DEF Positive
<1> HIDE DEF places, s
<1>3. /\ EntriesAt(s, places) \in Seq(Positive) /\ Len(EntriesAt(s, places)) \in 0 .. Len(s)
      /\ ItemsOf(EntriesAt(s, places)) = {s[i] : i \in places}
      /\ Ascending(s) => Ascending(EntriesAt(s, places))
  BY <1>1, <1>2, EntriesFacts
<1>4. Len(s) \in Nat /\ {s[i] : i \in places} \subseteq ItemsOf(s)
  BY <1>1, LenProperties DEF ItemsOf
<1>5. StaleIn(ch) = Len(s) - Len(Fresh(ch))
  BY DEF StaleIn, s
<1>6. StaleIn(ch) \in Nat
  BY <1>1, <1>3, <1>4, <1>5
<1> QED
  BY <1>1, <1>3, <1>4, <1>5, <1>6 DEF s

LEMMA UnseenFacts ==
    ASSUME NEW ch, Typed(ch), NEW r \in Readers, Ascending(queue[ch])
    PROVE  /\ Unseen(ch, r) \in Seq(Positive) /\ Ascending(Unseen(ch, r))
           /\ ItemsOf(Unseen(ch, r)) =
                {x \in ItemsOf(Fresh(ch)) : ~config[ch].multi \/ x > queueCursor[ch][r]}
           /\ ~config[ch].multi => Unseen(ch, r) = Fresh(ch)
<1> DEFINE s == Fresh(ch)
           places == {i \in DOMAIN s : ~config[ch].multi \/ s[i] > queueCursor[ch][r]}
<1>1. s \in Seq(Positive) /\ places \in SUBSET DOMAIN s /\ Ascending(s)
  BY FreshFacts
<1>2. Unseen(ch, r) = EntriesAt(s, places)
  BY DEF Unseen
<1>3. {s[i] : i \in places} = {x \in ItemsOf(s) : ~config[ch].multi \/ x > queueCursor[ch][r]}
  BY DEF ItemsOf
<1>4. ~config[ch].multi => places = DOMAIN s
  OBVIOUS
<1>5. Positive \subseteq Nat
  BY DEF Positive
<1> HIDE DEF s, places
<1>6. /\ EntriesAt(s, places) \in Seq(Positive) /\ Ascending(EntriesAt(s, places))
      /\ ItemsOf(EntriesAt(s, places)) = {s[i] : i \in places}
      /\ places = DOMAIN s => EntriesAt(s, places) = s
  BY <1>1, <1>5, EntriesFacts
<1> QED
  BY <1>2, <1>3, <1>4, <1>6 DEF s

\* What a drain hands over is the beginning of what is new to the reader.
LEMMA HandedFacts ==
    ASSUME NEW ch, Typed(ch), NEW r \in Readers, NEW max \in Nat, Ascending(queue[ch]),
           ~is_latest_style(ch), ~BarrierClosed(ch)
    PROVE  LET h == Handed(ch, r, max)
           IN  /\ h \in Seq(Positive) /\ Ascending(h)
               /\ ItemsOf(h) \subseteq ItemsOf(Unseen(ch, r))
               /\ \A x \in ItemsOf(Unseen(ch, r)), y \in ItemsOf(h) : x <= y => x \in ItemsOf(h)
               /\ Len(h) \in 0 .. Len(Unseen(ch, r)) /\ h = SubSeq(Unseen(ch, r), 1, Len(h))
<1> DEFINE u == Unseen(ch, r)
           k == IF max = 0 \/ Len(u) <= max THEN Len(u) ELSE max
           h == Handed(ch, r, max)
<1>1. u \in Seq(Positive) /\ Ascending(u)
  BY UnseenFacts
<1>2. Len(u) \in Nat /\ SubSeq(u, 1, Len(u)) = u
  <2> HIDE DEF u
  <2> QED
    BY <1>1
<1>3. k \in 0 .. Len(u)
  BY <1>2
<1>4. h = SubSeq(u, 1, k)
  BY <1>2 DEF Handed
<1>5. Positive \in SUBSET Nat
  BY DEF Positive
<1> HIDE DEF u, k, h
<1>6. /\ SubSeq(u, 1, k) \in Seq(Positive) /\ Len(SubSeq(u, 1, k)) = k /\ Ascending(SubSeq(u, 1, k))
      /\ ItemsOf(SubSeq(u, 1, k)) \cup ItemsOf(SubSeq(u, k + 1, Len(u))) = ItemsOf(u)
      /\ \A x \in ItemsOf(SubSeq(u, 1, k)), y \in ItemsOf(SubSeq(u, k + 1, Len(u))) : x < y
  BY <1>1, <1>3, <1>5, AscendingSplit
<1>7. ASSUME NEW x \in ItemsOf(u), NEW y \in ItemsOf(h), x <= y PROVE x \in ItemsOf(h)
  <2>1. \A z \in ItemsOf(u) : z \in Nat
    BY <1>1, <1>5, ItemsType
  <2>2. x \in Nat /\ y \in Nat
    BY <1>4, <1>6, <2>1
  <2>3. ~(y < x)
    BY <1>7, <2>2
  <2> QED
    BY <1>4, <1>6, <2>3
<1> QED
  BY <1>3, <1>4, <1>6, <1>7 DEF u, h

\* A cursor that pruning drops had nothing to say, or its reader is recorded as forgotten.
LEMMA PrunedFacts ==
    ASSUME NEW entries \in [Readers -> Nat], NEW relevant, NEW q \in Readers
    PROVE  /\ Pruned(entries, relevant) \in [Readers -> Nat]
           /\ Pruned(entries, relevant)[q] \in {0, entries[q]}
           /\ \/ Pruned(entries, relevant)[q] = entries[q]
              \/ ~relevant[q]
              \/ q \in Evicted(entries, relevant)
BY DEF Pruned, Evicted

\* Taking the newest n of a sequence.
LEMMA AtMostFacts ==
    ASSUME NEW s \in Seq(Positive), NEW n \in Positive, Ascending(s)
    PROVE  /\ AtMost(n, s) \in Seq(Positive) /\ Ascending(AtMost(n, s))
           /\ ItemsOf(AtMost(n, s)) \subseteq ItemsOf(s)
           /\ Len(AtMost(n, s)) = IF Len(s) <= n THEN Len(s) ELSE n
           /\ Len(s) \in Nat
<1>1. Len(s) \in Nat /\ Positive \in SUBSET Nat /\ n \in Nat
  BY LenProperties DEF Positive
<1>2. CASE Len(s) <= n
  BY <1>1, <1>2 DEF AtMost
<1>3. CASE ~(Len(s) <= n)
  <2>1. Len(s) - n \in 0 .. Len(s) /\ Len(s) - (Len(s) - n) = n
    BY <1>1, <1>3
  <2> DEFINE k == Len(s) - n
  <2>2. AtMost(n, s) = SubSeq(s, k + 1, Len(s))
    BY <1>3 DEF AtMost
  <2>3. k \in 0 .. Len(s) /\ Len(s) - k = n
    BY <2>1
  <2> HIDE DEF k
  <2>4. /\ SubSeq(s, k + 1, Len(s)) \in Seq(Positive) /\ Len(SubSeq(s, k + 1, Len(s))) = Len(s) - k
        /\ Ascending(SubSeq(s, k + 1, Len(s)))
        /\ ItemsOf(SubSeq(s, 1, k)) \cup ItemsOf(SubSeq(s, k + 1, Len(s))) = ItemsOf(s)
    BY <1>1, <2>3, AscendingSplit
  <2> QED
    BY <1>1, <1>3, <2>2, <2>3, <2>4
<1> QED
  BY <1>2, <1>3

-----------------------------------------------------------------------------
(* What a call does to one channel.                                        *)

\* Nothing is published to the channel, and nothing read from it.
Unsent(ch) ==
    /\ nextSequence'[ch] = nextSequence[ch] /\ published'[ch] = published[ch]
    /\ overwritten'[ch] = overwritten[ch]
Unread(ch) ==
    /\ latestCursor'[ch] = latestCursor[ch] /\ queueCursor'[ch] = queueCursor[ch]
    /\ delivered'[ch] = delivered[ch] /\ log'[ch] = log[ch]
Uncounted(ch) ==
    /\ queue'[ch] = queue[ch] /\ watermark'[ch] = watermark[ch] /\ stale'[ch] = stale[ch]

Rests(ch) ==
    /\ Unsent(ch) /\ Unread(ch) /\ Uncounted(ch)
    /\ latest'[ch] = latest[ch] /\ pendingTick'[ch] = pendingTick[ch]

Advances(ch) ==
    /\ Unsent(ch) /\ Unread(ch) /\ Uncounted(ch)
    /\ latest'[ch] = IF pendingTick[ch] # 0 THEN pendingTick[ch] ELSE latest[ch]
    /\ pendingTick'[ch] = 0

\* A snapshot that drops what is stale.
Drops(ch) ==
    /\ Unsent(ch) /\ Unread(ch) /\ pendingTick'[ch] = pendingTick[ch]
    /\ \/ /\ is_latest_style(ch) /\ latest'[ch] = 0 /\ stale'[ch] = stale[ch] + 1
          /\ queue'[ch] = queue[ch] /\ watermark'[ch] = watermark[ch]
       \/ /\ ~is_latest_style(ch) /\ latest'[ch] = latest[ch]
          /\ queue'[ch] = Fresh(ch) /\ stale'[ch] = stale[ch] + StaleIn(ch)
          /\ watermark'[ch] = StillSaturated(ch, Len(Fresh(ch)))

New(ch, m) == [i \in 1 .. m |-> nextSequence[ch] + i - 1]

\* m messages are stored; `burnt` sequence numbers go to refused ones.
Stores(ch, m, burnt) ==
    /\ Unread(ch) /\ stale'[ch] = stale[ch]
    /\ nextSequence'[ch] = nextSequence[ch] + m + burnt
    /\ published'[ch] = published[ch] + m
    /\ pendingTick'[ch] =
          IF m > 0 /\ config[ch].mode = "previous_tick" THEN nextSequence[ch] + m - 1 ELSE pendingTick[ch]
    /\ latest'[ch] =
          IF m > 0 /\ config[ch].mode # "previous_tick" THEN nextSequence[ch] + m - 1 ELSE latest[ch]
    /\ queue'[ch] =
          IF is_latest_style(ch) THEN queue[ch] ELSE AtMost(config[ch].capacity, queue[ch] \o New(ch, m))
    /\ watermark'[ch] = (watermark[ch] \/ (m > 0 /\ Saturated(ch, Len(queue[ch]) + m)))
    /\ overwritten'[ch] \in Nat
    /\ ~is_latest_style(ch) =>
          overwritten'[ch] = overwritten[ch] +
              IF Len(queue[ch]) + m <= config[ch].capacity THEN 0 ELSE Len(queue[ch]) + m - config[ch].capacity
    /\ ~is_latest_style(ch) /\ Rejecting(ch) => Len(queue[ch]) + m <= config[ch].capacity

Moved(entries, r, h) == IF h = <<>> THEN entries ELSE [entries EXCEPT ![r] = LastOf(h)]

\* What r has received after h was handed to it.
Joined(received, r, h) == [received EXCEPT ![r] = @ \o h]
Receives(ch, r, h) == log'[ch] = Joined(log[ch], r, h)

\* A reader of a latest-style channel; a cursor that is not at the latest value may go.
ReadsLatest(ch, r) ==
    LET h == Handed(ch, r, 0)
    IN  /\ is_latest_style(ch) /\ Unsent(ch) /\ pendingTick'[ch] = pendingTick[ch]
        /\ queue'[ch] = queue[ch] /\ watermark'[ch] = watermark[ch] /\ queueCursor'[ch] = queueCursor[ch]
        /\ latest'[ch] = IF LatestExpires(ch) THEN 0 ELSE latest[ch]
        /\ stale'[ch] \in Nat /\ delivered'[ch] \in Nat
        /\ Receives(ch, r, h)
        /\ latestCursor'[ch] \in [Readers -> Nat]
        /\ \A q \in Readers : <<ch, q>> \notin forgotten' =>
              \/ latestCursor'[ch][q] = Moved(latestCursor[ch], r, h)[q]
              \/ Moved(latestCursor[ch], r, h)[q] # latest[ch]

\* A reader of a queue; a cursor before the first message that is kept may go.
ReadsQueue(ch, r, max) ==
    LET h == Handed(ch, r, max)
        kept == Retained(ch, r, max)
        moved == Moved(queueCursor[ch], r, h)
    IN  /\ ~is_latest_style(ch) /\ ~BarrierClosed(ch) /\ Unsent(ch)
        /\ pendingTick'[ch] = pendingTick[ch] /\ latest'[ch] = latest[ch]
        /\ latestCursor'[ch] = latestCursor[ch]
        /\ queue'[ch] = kept /\ watermark'[ch] = StillSaturated(ch, Len(kept))
        /\ stale'[ch] = stale[ch] + IF kept # queue[ch] THEN StaleIn(ch) ELSE 0
        /\ delivered'[ch] = delivered[ch] + Len(h)
        /\ Receives(ch, r, h)
        /\ queueCursor'[ch] \in [Readers -> Nat]
        /\ \A q \in Readers :
              /\ queueCursor'[ch][q] \in {0, queueCursor[ch][q], moved[q]}
              /\ config[ch].multi /\ <<ch, q>> \notin forgotten' =>
                    \/ queueCursor'[ch][q] = moved[q]
                    \/ queueCursor'[ch][q] = 0 /\ ~(kept # <<>> /\ moved[q] >= Head(kept))

Changes(ch) ==
    \/ Rests(ch) \/ Advances(ch) \/ Drops(ch)
    \/ \E m \in Nat, burnt \in 0 .. 1 : Stores(ch, m, burnt)
    \/ \E r \in Readers : ReadsLatest(ch, r)
    \/ \E r \in Readers, max \in 0 .. 1 : ReadsQueue(ch, r, max)

\* A latest-style channel hands over its latest value, or nothing.
LEMMA LatestHanded ==
    ASSUME NEW ch, NEW r, NEW max, is_latest_style(ch)
    PROVE  /\ Handed(ch, r, max) = Handed(ch, r, 0)
           /\ \/ Handed(ch, r, 0) = <<>>
              \/ /\ Handed(ch, r, 0) = <<latest[ch]>> /\ latest[ch] # 0
                 /\ latestCursor[ch][r] # latest[ch] /\ ~LatestExpires(ch)
BY DEF Handed, LatestExpires

LEMMA MovedType ==
    ASSUME NEW entries \in [Readers -> Nat], NEW r \in Readers, NEW h \in Seq(Nat)
    PROVE  Moved(entries, r, h) \in [Readers -> Nat]
<1>1. CASE h = <<>>
  BY <1>1 DEF Moved
<1>2. CASE h # <<>>
  <2>1. Len(h) \in 1 .. Len(h)
    BY <1>2, EmptySeq, LenProperties
  <2>2. h[Len(h)] \in Nat
    BY <2>1, ElementOfSeq
  <2> QED
    BY <1>2, <2>2 DEF Moved, LastOf
<1> QED
  BY <1>1, <1>2

\* consume_for_component and the readers, seen from one channel.
LEMMA ReadKinds ==
    ASSUME TypeOK, \A c \in Channels : Numbers(c), NEW chs \in SUBSET Channels, NEW r \in Readers, NEW max \in 0 .. 1,
           Read(chs, r, max), NEW ch \in Channels
    PROVE  Changes(ch)
<1>0. Typed(ch) /\ Ascending(queue[ch])
  BY TypedChannel DEF Numbers
<1>1. CASE ch \notin chs
  <2>1. /\ latest'[ch] = latest[ch] /\ queue'[ch] = queue[ch] /\ watermark'[ch] = watermark[ch]
        /\ stale'[ch] = stale[ch] + 0 /\ delivered'[ch] = delivered[ch] + Len(<<>>)
        /\ latestCursor'[ch] = latestCursor[ch] /\ queueCursor'[ch] = queueCursor[ch]
        /\ nextSequence' = nextSequence /\ pendingTick' = pendingTick
        /\ published' = published /\ overwritten' = overwritten
    BY <1>1 DEF Read
  <2>2. log'[ch] = [log[ch] EXCEPT ![r] = @ \o <<>>]
    BY <1>1 DEF Read
  <2>3. log[ch] \in [Readers -> Seq(Nat)] /\ log[ch][r] \o <<>> = log[ch][r]
    BY <1>0 DEF Typed
  <2>4. log'[ch] = log[ch]
    BY <2>2, <2>3
  <2>5. stale'[ch] = stale[ch] /\ delivered'[ch] = delivered[ch]
    BY <1>0, <2>1 DEF Typed
  <2> QED
    BY <2>1, <2>4, <2>5 DEF Changes, Rests, Unsent, Unread, Uncounted
<1>2. CASE ch \in chs
  <2> DEFINE h == Handed(ch, r, max)
             kept == Retained(ch, r, max)
             atLatest == [q \in Readers |-> Moved(latestCursor[ch], r, h)[q] = latest[ch]]
             inQueue == [q \in Readers |-> kept # <<>> /\ Moved(queueCursor[ch], r, h)[q] >= Head(kept)]
             drains == ~is_latest_style(ch) /\ ~BarrierClosed(ch)
  <2>1. /\ latest'[ch] = IF LatestExpires(ch) THEN 0 ELSE latest[ch]
        /\ queue'[ch] = kept
        /\ stale'[ch] = stale[ch] + (IF LatestExpires(ch) THEN 1 ELSE IF kept # queue[ch] THEN StaleIn(ch) ELSE 0)
        /\ delivered'[ch] = delivered[ch] + Len(h)
        /\ watermark'[ch] = IF drains THEN StillSaturated(ch, Len(kept)) ELSE watermark[ch]
        /\ log'[ch] = [log[ch] EXCEPT ![r] = @ \o h]
        /\ nextSequence' = nextSequence /\ pendingTick' = pendingTick
        /\ published' = published /\ overwritten' = overwritten
    BY <1>2 DEF Read
  <2>2. latestCursor'[ch] = IF is_latest_style(ch) /\ h # <<>> THEN Pruned(Moved(latestCursor[ch], r, h), atLatest)
                            ELSE latestCursor[ch]
    BY <1>2 DEF Read, Moved
  <2>3. queueCursor'[ch] = IF drains /\ config[ch].multi THEN Pruned(Moved(queueCursor[ch], r, h), inQueue)
                           ELSE queueCursor[ch]
    BY <1>2 DEF Read, Moved
  <2>4. is_latest_style(ch) /\ h # <<>> =>
            \A q \in Evicted(Moved(latestCursor[ch], r, h), atLatest) : <<ch, q>> \in forgotten'
    <3> SUFFICES ASSUME is_latest_style(ch), h # <<>>, NEW q \in Evicted(Moved(latestCursor[ch], r, h), atLatest)
                 PROVE  <<ch, q>> \in forgotten'
      OBVIOUS
    <3>1. <<ch, q>> \in Channels \X Readers
      BY DEF Evicted
    <3> QED
      BY <1>2, <3>1 DEF Read, Moved
  <2>5. drains /\ config[ch].multi =>
            \A q \in Evicted(Moved(queueCursor[ch], r, h), inQueue) : <<ch, q>> \in forgotten'
    <3> SUFFICES ASSUME drains, config[ch].multi, NEW q \in Evicted(Moved(queueCursor[ch], r, h), inQueue)
                 PROVE  <<ch, q>> \in forgotten'
      OBVIOUS
    <3>1. <<ch, q>> \in Channels \X Readers
      BY DEF Evicted
    <3> QED
      BY <1>2, <3>1 DEF Read, Moved
  <2>6. CASE is_latest_style(ch)
    <3>1. h = Handed(ch, r, 0) /\ kept = queue[ch] /\ (h = <<>> \/ h = <<latest[ch]>>)
      BY <2>6, LatestHanded DEF Retained
    <3>2. h \in Seq(Nat) /\ Len(h) \in Nat
      <4>1. latest[ch] \in Nat
        BY <1>0 DEF Typed
      <4>2. /\ \A x \in Nat : <<x>> \in Seq(Nat) /\ Len(<<x>>) \in Nat
            /\ <<>> \in Seq(Nat) /\ Len(<<>>) \in Nat
        OBVIOUS
      <4> HIDE DEF h
      <4> QED
        BY <3>1, <4>1, <4>2, Zenon
    <3>3. Moved(latestCursor[ch], r, h) \in [Readers -> Nat]
      BY <1>0, <3>2, MovedType DEF Typed
    <3> HIDE DEF h, kept, drains
    <3>4. ASSUME NEW q \in Readers, <<ch, q>> \notin forgotten'
          PROVE  \/ latestCursor'[ch][q] = Moved(latestCursor[ch], r, h)[q]
                 \/ Moved(latestCursor[ch], r, h)[q] # latest[ch]
      <4>1. CASE h = <<>>
        BY <2>2, <4>1 DEF Moved
      <4>2. CASE h # <<>>
        <5>1. \/ latestCursor'[ch][q] = Moved(latestCursor[ch], r, h)[q]
              \/ ~atLatest[q]
              \/ q \in Evicted(Moved(latestCursor[ch], r, h), atLatest)
          BY <2>2, <2>6, <3>3, <4>2, PrunedFacts
        <5>2. q \notin Evicted(Moved(latestCursor[ch], r, h), atLatest)
          BY <2>4, <2>6, <3>4, <4>2
        <5> QED
          BY <5>1, <5>2
      <4> QED
        BY <4>1, <4>2
    <3>5. latestCursor'[ch] \in [Readers -> Nat]
      <4>1. \A q \in Readers : Pruned(Moved(latestCursor[ch], r, h), atLatest) \in [Readers -> Nat]
        BY <3>3, PrunedFacts
      <4> QED
        BY <1>0, <2>2, <4>1 DEF Typed
    <3>6. queueCursor'[ch] = queueCursor[ch] /\ watermark'[ch] = watermark[ch]
      BY <2>1, <2>3, <2>6 DEF drains
    <3>7. stale'[ch] \in Nat /\ delivered'[ch] \in Nat
      BY <1>0, <2>1, <3>1, <3>2 DEF Typed
    <3>8. ReadsLatest(ch, r)
      BY <2>1, <2>6, <3>1, <3>4, <3>5, <3>6, <3>7 DEF ReadsLatest, Unsent, Joined, Receives
    <3> QED
      BY <3>8 DEF Changes
  <2>7. CASE ~is_latest_style(ch) /\ BarrierClosed(ch)
    <3>1. h = <<>> /\ kept = queue[ch] /\ ~LatestExpires(ch) /\ ~drains
      BY <2>7 DEF Handed, Retained, LatestExpires
    <3>2. log[ch] \in [Readers -> Seq(Nat)] /\ log[ch][r] \o <<>> = log[ch][r]
      BY <1>0 DEF Typed
    <3> HIDE DEF h, kept, drains
    <3>3. log'[ch] = log[ch]
      BY <2>1, <3>1, <3>2
    <3>4. stale'[ch] = stale[ch] /\ delivered'[ch] = delivered[ch] /\ latest'[ch] = latest[ch]
      BY <1>0, <2>1, <3>1 DEF Typed
    <3>5. watermark'[ch] = watermark[ch] /\ latestCursor'[ch] = latestCursor[ch] /\ queueCursor'[ch] = queueCursor[ch]
      BY <2>1, <2>2, <2>3, <3>1
    <3> QED
      BY <2>1, <3>1, <3>3, <3>4, <3>5 DEF Changes, Rests, Unsent, Unread, Uncounted
  <2>8. CASE ~is_latest_style(ch) /\ ~BarrierClosed(ch)
    <3>1. h \in Seq(Positive) /\ ~LatestExpires(ch) /\ drains
      BY <1>0, <2>8, HandedFacts DEF LatestExpires
    <3>2. h \in Seq(Nat)
      BY <3>1, SeqDef DEF Positive
    <3>3. Moved(queueCursor[ch], r, h) \in [Readers -> Nat]
      BY <1>0, <3>2, MovedType DEF Typed
    <3> HIDE DEF h, kept, drains
    <3>4. ASSUME NEW q \in Readers
          PROVE  queueCursor'[ch][q] \in {0, queueCursor[ch][q], Moved(queueCursor[ch], r, h)[q]}
      <4>1. Pruned(Moved(queueCursor[ch], r, h), inQueue)[q] \in {0, Moved(queueCursor[ch], r, h)[q]}
        BY <3>3, PrunedFacts
      <4> QED
        BY <2>3, <4>1
    <3>5. ASSUME NEW q \in Readers, config[ch].multi, <<ch, q>> \notin forgotten'
          PROVE  \/ queueCursor'[ch][q] = Moved(queueCursor[ch], r, h)[q]
                 \/ /\ queueCursor'[ch][q] = 0
                    /\ ~(kept # <<>> /\ Moved(queueCursor[ch], r, h)[q] >= Head(kept))
      <4>1. /\ Pruned(Moved(queueCursor[ch], r, h), inQueue)[q] \in {0, Moved(queueCursor[ch], r, h)[q]}
            /\ \/ Pruned(Moved(queueCursor[ch], r, h), inQueue)[q] = Moved(queueCursor[ch], r, h)[q]
               \/ ~inQueue[q]
               \/ q \in Evicted(Moved(queueCursor[ch], r, h), inQueue)
        BY <3>3, PrunedFacts
      <4>2. q \notin Evicted(Moved(queueCursor[ch], r, h), inQueue)
        BY <2>5, <3>1, <3>5
      <4>3. queueCursor'[ch][q] = Pruned(Moved(queueCursor[ch], r, h), inQueue)[q]
        BY <2>3, <3>1, <3>5
      <4> QED
        BY <4>1, <4>2, <4>3
    <3>6. queueCursor'[ch] \in [Readers -> Nat]
      <4>1. \A q \in Readers : Pruned(Moved(queueCursor[ch], r, h), inQueue) \in [Readers -> Nat]
        BY <3>3, PrunedFacts
      <4> QED
        BY <1>0, <2>3, <4>1 DEF Typed
    <3>7. latestCursor'[ch] = latestCursor[ch]
      BY <2>2, <2>8
    <3>8. ReadsQueue(ch, r, max)
      BY <2>1, <2>8, <3>1, <3>4, <3>5, <3>6, <3>7 DEF ReadsQueue, Unsent, Joined, Receives, h, kept
    <3> QED
      BY <3>8 DEF Changes
  <2> QED
    BY <2>6, <2>7, <2>8
<1> QED
  BY <1>1, <1>2

\* The numbers of m messages to come.
LEMMA NewFacts ==
    ASSUME NEW ch, Typed(ch), NEW m \in Nat
    PROVE  /\ New(ch, m) \in Seq(Positive) /\ Len(New(ch, m)) = m /\ Ascending(New(ch, m))
           /\ \A x \in ItemsOf(New(ch, m)) : nextSequence[ch] <= x /\ x < nextSequence[ch] + m
<1>1. nextSequence[ch] \in Positive /\ nextSequence[ch] \in Nat
  BY DEF Typed, Positive
<1>2. \A i \in 1 .. m : nextSequence[ch] + i - 1 \in Positive
  BY <1>1 DEF Positive
<1>3. New(ch, m) \in Seq(Positive) /\ Len(New(ch, m)) = m /\ DOMAIN New(ch, m) = 1 .. m
  BY <1>2 DEF New
<1>4. \A i \in 1 .. m : New(ch, m)[i] = nextSequence[ch] + i - 1
  BY DEF New
<1> QED
  BY <1>1, <1>3, <1>4 DEF Ascending, ItemsOf

\* When the preflight of publish_batch has passed, no item of the batch is refused.
LEMMA AllStored ==
    ASSUME NEW batch \in Seq(Items), Preflight(batch)
    PROVE  StoredPrefix(batch) = Len(batch) /\ Len(batch) \in Nat
<1> DEFINE n == Len(batch)
<1>1. DOMAIN batch = 1 .. n /\ n \in Nat
  BY LenProperties
<1>2. \A i \in 1 .. n : ~Refuses(batch[i].ch, Planned(batch, i))
  BY <1>1 DEF Preflight
<1>3. \A i \in 1 .. n : \A j \in 1 .. i : j \in 1 .. n
  BY <1>1
<1>4. {i \in DOMAIN batch : \A j \in 1 .. i : ~Refuses(batch[j].ch, Planned(batch, j))} = 1 .. n
  BY <1>1, <1>2, <1>3
<1> HIDE DEF n
<1>5. Cardinality(1 .. n) = n
  BY <1>1, FS_Interval
<1> QED
  BY <1>1, <1>4, <1>5 DEF StoredPrefix, n

\* A batch that passed the preflight leaves a rejecting queue within its capacity.
LEMMA BatchFits ==
    ASSUME NEW batch \in Seq(Items), Preflight(batch), NEW ch, Typed(ch), Books(ch),
           ~is_latest_style(ch), Rejecting(ch)
    PROVE  Len(queue[ch]) + Cardinality({i \in 1 .. Len(batch) : batch[i].ch = ch}) <= config[ch].capacity
<1> DEFINE n == Len(batch)
           S == {i \in 1 .. n : batch[i].ch = ch}
<1>1. DOMAIN batch = 1 .. n /\ n \in Nat /\ Len(queue[ch]) \in Nat /\ config[ch].capacity \in Nat
  BY LenProperties DEF Typed, Positive
<1> HIDE DEF n
<1>2. IsFiniteSet(S) /\ S \in SUBSET Nat
  <2>1. IsFiniteSet(1 .. n)
    BY <1>1, FS_Interval
  <2>2. S \in SUBSET (1 .. n) /\ S \in SUBSET Nat
    BY <1>1
  <2> HIDE DEF S
  <2>3. IsFiniteSet(S)
    BY <2>1, <2>2, FS_Subset
  <2> QED
    BY <2>2, <2>3
<1>3. CASE S = {}
  <2>1. Cardinality(S) = 0
    BY <1>3, FS_EmptySet
  <2> QED
    BY <1>1, <2>1 DEF Books, n
<1>4. CASE S # {}
  <2>1. PICK k \in S : \A j \in S : k >= j
    <3> HIDE DEF S
    <3> QED
      BY <1>2, <1>4, MaxMember
  <2>2. k \in 1 .. n /\ batch[k].ch = ch
    OBVIOUS
  <2>3. {j \in 1 .. k - 1 : batch[j].ch = batch[k].ch} = S \ {k}
    <3>1. \A j : j \in 1 .. k - 1 <=> j \in 1 .. n /\ j <= k /\ j # k
      BY <1>1, <2>2
    <3> QED
      BY <1>2, <2>1, <2>2, <3>1
  <2>4. Cardinality(S \ {k}) = Cardinality(S) - 1 /\ Cardinality(S) \in Nat
    <3> HIDE DEF S
    <3> QED
      BY <1>2, FS_RemoveElement, FS_CardinalityType
  <2>5. ~Refuses(ch, Cardinality(S) - 1)
    BY <1>1, <2>2, <2>3, <2>4 DEF Preflight, Planned
  <2>6. ~(Len(queue[ch]) + (Cardinality(S) - 1) >= config[ch].capacity)
    BY <2>5 DEF Refuses
  <2> HIDE DEF S
  <2>7. Len(queue[ch]) + Cardinality(S) <= config[ch].capacity
    BY <1>1, <2>4, <2>6
  <2> QED
    BY <2>7 DEF S, n
<1> QED
  BY <1>3, <1>4

\* StoreAll, seen from one channel.
LEMMA StoreKind ==
    ASSUME TypeOK, NEW n \in [Channels -> Nat], NEW skipped, StoreAll(n, skipped),
           UNCHANGED <<cursors, delivered, stale, log>>, NEW ch \in Channels,
           ~is_latest_style(ch) => Len(queue[ch]) <= config[ch].capacity,
           ~is_latest_style(ch) /\ Rejecting(ch) => Len(queue[ch]) + n[ch] <= config[ch].capacity
    PROVE  Changes(ch)
<1> DEFINE burnt == IF ch \in skipped THEN 1 ELSE 0
           m == n[ch]
           over == IF Len(queue[ch]) + m <= config[ch].capacity THEN 0 ELSE Len(queue[ch]) + m - config[ch].capacity
<1>1. Typed(ch) /\ m \in Nat
  BY TypedChannel
<1>2. Len(queue[ch]) \in Nat /\ config[ch].capacity \in Nat /\ config[ch] \in ChannelConfig
  BY <1>1, LenProperties DEF Typed, Positive
<1>3. /\ nextSequence'[ch] = nextSequence[ch] + m + burnt
      /\ published'[ch] = published[ch] + m
      /\ pendingTick'[ch] =
          IF m > 0 /\ config[ch].mode = "previous_tick" THEN nextSequence[ch] + m - 1 ELSE pendingTick[ch]
      /\ latest'[ch] =
          IF m > 0 /\ config[ch].mode # "previous_tick" THEN nextSequence[ch] + m - 1 ELSE latest[ch]
      /\ queue'[ch] =
          IF is_latest_style(ch) THEN queue[ch] ELSE AtMost(config[ch].capacity, queue[ch] \o New(ch, m))
      /\ watermark'[ch] = (watermark[ch] \/ (m > 0 /\ Saturated(ch, Len(queue[ch]) + m)))
  BY DEF StoreAll, New
<1>4. config[ch].mode \in Modes
  BY <1>2 DEF ChannelConfig
<1>5. ~is_latest_style(ch) => overwritten'[ch] = overwritten[ch] + over
  <2> SUFFICES ASSUME ~is_latest_style(ch) PROVE overwritten'[ch] = overwritten[ch] + over
    OBVIOUS
  <2>1. config[ch].mode \notin {"latest", "latched", "previous_tick"}
    BY DEF is_latest_style
  <2>2. CASE m = 0
    <3>1. over = 0
      BY <1>2, <2>2
    <3>2. overwritten'[ch] = overwritten[ch] + 0
      BY <2>2 DEF StoreAll
    <3> QED
      BY <3>1, <3>2
  <2>3. CASE m # 0
    BY <2>1, <2>3 DEF StoreAll
  <2> QED
    BY <2>2, <2>3
<1>6. overwritten'[ch] \in Nat
  <2> DEFINE slot == IF config[ch].mode = "previous_tick" THEN pendingTick[ch] ELSE latest[ch]
             replaced ==
                IF m = 0 \/ config[ch].mode = "latched" THEN 0
                ELSE IF config[ch].mode \in {"latest", "previous_tick"} THEN IF slot = 0 THEN m - 1 ELSE m
                ELSE over
  <2>1. overwritten'[ch] = overwritten[ch] + replaced
    BY DEF StoreAll
  <2>2. over \in Nat
    BY <1>1, <1>2
  <2>3. replaced \in Nat
    <3> HIDE DEF over, slot
    <3> QED
      BY <1>1, <2>2
  <2> HIDE DEF replaced
  <2> QED
    BY <1>1, <2>1, <2>3 DEF Typed
<1>7. Unread(ch) /\ stale'[ch] = stale[ch]
  BY DEF Unread, cursors
<1>8. burnt \in 0 .. 1
  OBVIOUS
<1> HIDE DEF burnt
<1>9. Stores(ch, m, burnt)
  BY <1>3, <1>5, <1>6, <1>7 DEF Stores
<1> QED
  BY <1>1, <1>8, <1>9 DEF Changes

BooksOpen == \A ch \in Channels : Numbers(ch) /\ Books(ch)

\* publish_batch, for every batch.
LEMMA BatchKind ==
    ASSUME TypeOK, BooksOpen, NEW batch \in Seq(Items), PublishBatch(batch), NEW ch \in Channels
    PROVE  Changes(ch)
<1> DEFINE stored == IF Preflight(batch) THEN StoredPrefix(batch) ELSE 0
           refused == IF Preflight(batch) /\ stored < Len(batch) THEN {batch[stored + 1].ch} ELSE {}
           n == [c \in Channels |-> Cardinality({i \in 1 .. stored : batch[i].ch = c})]
<1>1. StoreAll(n, refused) /\ UNCHANGED <<cursors, delivered, stale, log>>
  BY DEF PublishBatch
<1>2. stored \in Nat /\ (Preflight(batch) => stored = Len(batch)) /\ (~Preflight(batch) => stored = 0)
  BY AllStored
<1> HIDE DEF stored, refused
<1>3. n \in [Channels -> Nat]
  <2> SUFFICES ASSUME NEW c \in Channels PROVE Cardinality({i \in 1 .. stored : batch[i].ch = c}) \in Nat
    OBVIOUS
  <2> DEFINE S == {i \in 1 .. stored : batch[i].ch = c}
  <2>1. IsFiniteSet(1 .. stored) /\ S \in SUBSET (1 .. stored)
    BY <1>2, FS_Interval
  <2> HIDE DEF S
  <2>2. Cardinality(S) \in Nat
    BY <2>1, FS_Subset, FS_CardinalityType
  <2> QED
    BY <2>2 DEF S
<1>4. Typed(ch) /\ Books(ch)
  BY TypedChannel DEF BooksOpen
<1>5. ~is_latest_style(ch) => Len(queue[ch]) <= config[ch].capacity
  BY <1>4 DEF Books
<1>6. ASSUME ~is_latest_style(ch), Rejecting(ch) PROVE Len(queue[ch]) + n[ch] <= config[ch].capacity
  <2>1. CASE Preflight(batch)
    <3>1. n[ch] = Cardinality({i \in 1 .. Len(batch) : batch[i].ch = ch})
      BY <1>2, <2>1
    <3> QED
      BY <1>4, <1>6, <2>1, <3>1, BatchFits
  <2>2. CASE ~Preflight(batch)
    <3>1. {i \in 1 .. stored : batch[i].ch = ch} = {}
      BY <1>2, <2>2
    <3>2. n[ch] = 0
      BY <3>1, FS_EmptySet
    <3>3. Len(queue[ch]) \in Nat
      BY <1>4, LenProperties DEF Typed
    <3> HIDE DEF n
    <3> QED
      BY <1>5, <1>6, <3>2, <3>3
  <2> QED
    BY <2>1, <2>2
<1> HIDE DEF n
<1> QED
  BY <1>1, <1>3, <1>5, <1>6, StoreKind

LEMMA PublishKind ==
    ASSUME TypeOK, BooksOpen, NEW c \in Channels, Publish(c), NEW ch \in Channels
    PROVE  Changes(ch)
<1>1. Typed(ch) /\ Books(ch) /\ UNCHANGED <<cursors, delivered, stale, log>>
  BY TypedChannel DEF BooksOpen, Publish
<1>2. Len(queue[ch]) \in Nat /\ config[ch].capacity \in Nat
  BY <1>1, LenProperties DEF Typed, Positive
<1>3. ~is_latest_style(ch) => Len(queue[ch]) <= config[ch].capacity
  BY <1>1 DEF Books
<1>4. CASE Refuses(c, 0)
  <2> DEFINE n == [d \in Channels |-> 0]
  <2>1. StoreAll(n, {c}) /\ n \in [Channels -> Nat] /\ n[ch] = 0
    BY <1>4 DEF Publish
  <2>2. ~is_latest_style(ch) /\ Rejecting(ch) => Len(queue[ch]) + n[ch] <= config[ch].capacity
    BY <1>2, <1>3, <2>1
  <2> HIDE DEF n
  <2> QED
    BY <1>1, <1>3, <2>1, <2>2, StoreKind
<1>5. CASE ~Refuses(c, 0)
  <2> DEFINE n == [d \in Channels |-> IF d = c THEN 1 ELSE 0]
  <2>1. StoreAll(n, {}) /\ n \in [Channels -> Nat] /\ n[ch] = IF ch = c THEN 1 ELSE 0
    BY <1>5 DEF Publish
  <2>2. ASSUME ~is_latest_style(ch), Rejecting(ch) PROVE Len(queue[ch]) + n[ch] <= config[ch].capacity
    <3>1. CASE ch = c
      <4>1. ~(Len(queue[ch]) + 0 >= config[ch].capacity)
        BY <1>5, <2>2, <3>1 DEF Refuses
      <4> QED
        BY <1>2, <2>1, <3>1, <4>1
    <3>2. CASE ch # c
      BY <1>2, <1>3, <2>1, <2>2, <3>2
    <3> QED
      BY <3>1, <3>2
  <2> HIDE DEF n
  <2> QED
    BY <1>1, <1>3, <2>1, <2>2, StoreKind
<1> QED
  BY <1>4, <1>5

\* Every step changes a channel in one of these ways, no configuration, and forgets nobody
\* it had forgotten less.
LEMMA StepKinds ==
    ASSUME TypeOK, BooksOpen, [Next]_vars
    PROVE  config' = config /\ forgotten \subseteq forgotten' /\ \A ch \in Channels : Changes(ch)
<1>1. config' = config /\ forgotten \subseteq forgotten'
  <2>1. ASSUME NEW chs, NEW r, NEW max, Read(chs, r, max) PROVE config' = config /\ forgotten \subseteq forgotten'
    BY <2>1 DEF Read
  <2>2. ASSUME NEW c, Publish(c) PROVE config' = config /\ forgotten \subseteq forgotten'
    BY <2>2 DEF Publish
  <2>3. ASSUME NEW b, PublishBatch(b) PROVE config' = config /\ forgotten \subseteq forgotten'
    BY <2>3 DEF PublishBatch
  <2>4. ASSUME NEW c, Snapshot(c) PROVE config' = config /\ forgotten \subseteq forgotten'
    BY <2>4 DEF Snapshot
  <2> QED
    BY <2>1, <2>2, <2>3, <2>4 DEF Next, vars, AdvanceEpoch, ReadLatest, Age
<1> SUFFICES ASSUME NEW ch \in Channels PROVE Changes(ch)
  BY <1>1
<1>2. Typed(ch) /\ \A c \in Channels : Numbers(c)
  BY TypedChannel DEF BooksOpen
<1>3. CASE UNCHANGED vars
  BY <1>3 DEF vars, cursors, tallies, Changes, Rests, Unsent, Unread, Uncounted
<1>4. ASSUME NEW c \in Channels, Publish(c) PROVE Changes(ch)
  BY <1>4, PublishKind
<1>5. ASSUME NEW a \in Items, NEW b \in Items, PublishBatch(<<a, b>>) PROVE Changes(ch)
  <2> DEFINE batch == <<a, b>>
  <2>1. batch \in Seq(Items) /\ PublishBatch(batch)
    BY <1>5
  <2> HIDE DEF batch
  <2> QED
    BY <2>1, BatchKind
<1>6. CASE AdvanceEpoch
  <2>1. Advances(ch)
    BY <1>6 DEF AdvanceEpoch, cursors, tallies, Advances, Unsent, Unread, Uncounted
  <2> QED
    BY <2>1 DEF Changes
<1>7. ASSUME NEW r \in Readers, NEW c \in Channels, NEW max \in 0 .. 1, Read({c}, r, max) PROVE Changes(ch)
  BY <1>2, <1>7, ReadKinds
<1>8. ASSUME NEW r \in Readers, Read(Channels, r, 0) PROVE Changes(ch)
  BY <1>2, <1>8, ReadKinds
<1>9. ASSUME NEW r \in Readers, NEW c \in Channels, ReadLatest(c, r) PROVE Changes(ch)
  <2>1. Read({c}, r, 1)
    BY <1>9 DEF ReadLatest
  <2> QED
    BY <1>2, <2>1, ReadKinds
<1>10. ASSUME NEW c \in Channels, Snapshot(c) PROVE Changes(ch)
  <2>1. /\ UNCHANGED <<nextSequence, pendingTick, cursors, published, delivered, overwritten, log>>
        /\ c # ch => latest'[ch] = latest[ch] /\ stale'[ch] = stale[ch] /\ queue'[ch] = queue[ch]
                     /\ watermark'[ch] = watermark[ch]
    BY <1>10 DEF Snapshot, TypeOK
  <2>2. CASE c = ch
    <3>1. Drops(ch)
      <4>1. CASE is_latest_style(ch)
        BY <1>10, <2>1, <2>2, <4>1 DEF Snapshot, TypeOK, Drops, Unsent, Unread, cursors
      <4>2. CASE ~is_latest_style(ch)
        BY <1>10, <2>1, <2>2, <4>2 DEF Snapshot, TypeOK, Drops, Unsent, Unread, cursors
      <4> QED
        BY <4>1, <4>2
    <3> QED
      BY <3>1 DEF Changes
  <2>3. CASE c # ch
    BY <2>1, <2>3 DEF Changes, Rests, Unsent, Unread, Uncounted, cursors
  <2> QED
    BY <2>2, <2>3
<1>11. ASSUME NEW c \in Channels, NEW seq \in 1 .. MaxSequence, Age(c, seq) PROVE Changes(ch)
  BY <1>11 DEF Age, cursors, tallies, Changes, Rests, Unsent, Unread, Uncounted
<1> QED
  BY <1>3, <1>4, <1>5, <1>6, <1>7, <1>8, <1>9, <1>10, <1>11 DEF Next

-----------------------------------------------------------------------------
(* Numbers and books of a channel are kept.                                *)

\* What is handed to r joins its log, and no other.
LEMMA LogGrows ==
    ASSUME NEW received \in [Readers -> Seq(Nat)], NEW r \in Readers, NEW h \in Seq(Positive)
    PROVE  /\ Joined(received, r, h) \in [Readers -> Seq(Nat)]
           /\ \A q \in Readers : q # r => Joined(received, r, h)[q] = received[q]
           /\ Joined(received, r, h)[r] = received[r] \o h
           /\ ItemsOf(Joined(received, r, h)[r]) = ItemsOf(received[r]) \cup ItemsOf(h)
           /\ h \in Seq(Nat) /\ received[r] \in Seq(Nat)
<1>1. h \in Seq(Nat) /\ received[r] \in Seq(Nat)
  BY SeqDef DEF Positive
<1> DEFINE l == received[r]
<1>2. l \in Seq(Nat)
  BY <1>1
<1> HIDE DEF l
<1>3. l \o h \in Seq(Nat) /\ ItemsOf(l \o h) = ItemsOf(l) \cup ItemsOf(h)
  BY <1>1, <1>2, ConcatFacts
<1>4. /\ Joined(received, r, h)[r] = received[r] \o h
      /\ \A q \in Readers : q # r => Joined(received, r, h)[q] = received[q]
      /\ Joined(received, r, h) \in [Readers -> Seq(Nat)]
  BY <1>3 DEF Joined, l
<1> QED
  BY <1>1, <1>3, <1>4 DEF l

\* What a drain hands over and what it keeps.
LEMMA DrainFacts ==
    ASSUME NEW ch, Typed(ch), Ascending(queue[ch]), NEW r \in Readers, NEW max \in 0 .. 1,
           ~is_latest_style(ch), ~BarrierClosed(ch)
    PROVE  LET h == Handed(ch, r, max)
               kept == Retained(ch, r, max)
           IN  /\ h \in Seq(Positive) /\ Ascending(h) /\ ItemsOf(h) \subseteq ItemsOf(queue[ch]) /\ Len(h) \in Nat
               /\ kept \in Seq(Positive) /\ Ascending(kept) /\ ItemsOf(kept) \subseteq ItemsOf(queue[ch])
               /\ config[ch].multi =>
                     /\ Len(kept) = Len(Fresh(ch))
                     /\ \A y \in ItemsOf(h) : y > queueCursor[ch][r]
                     /\ \A x \in ItemsOf(kept), y \in ItemsOf(h) :
                           x <= y => x \in ItemsOf(h) \/ x <= queueCursor[ch][r]
               /\ ~config[ch].multi =>
                     /\ Len(kept) = Len(Fresh(ch)) - Len(h)
                     /\ \A x \in ItemsOf(kept), y \in ItemsOf(h) : y < x
<1> DEFINE h == Handed(ch, r, max)
           kept == Retained(ch, r, max)
           u == Unseen(ch, r)
           f == Fresh(ch)
<1>1. /\ f \in Seq(Positive) /\ ItemsOf(f) \subseteq ItemsOf(queue[ch]) /\ Ascending(f)
      /\ Len(f) \in Nat
  BY FreshFacts, LenProperties
<1>2. /\ u \in Seq(Positive) /\ Ascending(u)
      /\ ItemsOf(u) = {x \in ItemsOf(f) : ~config[ch].multi \/ x > queueCursor[ch][r]}
      /\ ~config[ch].multi => u = f
  BY UnseenFacts
<1>3. max \in Nat
  OBVIOUS
<1>4. /\ h \in Seq(Positive) /\ Ascending(h) /\ ItemsOf(h) \subseteq ItemsOf(u)
      /\ \A x \in ItemsOf(u), y \in ItemsOf(h) : x <= y => x \in ItemsOf(h)
      /\ Len(h) \in 0 .. Len(u) /\ h = SubSeq(u, 1, Len(h))
  BY <1>3, HandedFacts
<1>5. kept = IF config[ch].multi THEN f ELSE SubSeq(f, Len(h) + 1, Len(f))
  BY DEF Retained
<1>6. Positive \in SUBSET Nat /\ queueCursor[ch][r] \in Nat /\ \A x \in ItemsOf(f) : x \in Nat
  BY <1>1, ItemsType DEF Positive, Typed
<1>7. Len(h) \in Nat /\ ItemsOf(h) \subseteq ItemsOf(queue[ch])
  BY <1>1, <1>2, <1>4, LenProperties
<1> HIDE DEF h, kept, u, f
<1>8. CASE config[ch].multi
  <2>1. kept = f
    BY <1>5, <1>8
  <2>2. \A y \in ItemsOf(h) : y > queueCursor[ch][r]
    BY <1>2, <1>4, <1>8
  <2>3. ASSUME NEW x \in ItemsOf(kept), NEW y \in ItemsOf(h), x <= y
        PROVE  x \in ItemsOf(h) \/ x <= queueCursor[ch][r]
    <3>1. x \in ItemsOf(f) /\ x \in Nat
      BY <1>6, <2>1
    <3>2. CASE x > queueCursor[ch][r]
      <4>1. x \in ItemsOf(u)
        BY <1>2, <3>1, <3>2
      <4> QED
        BY <1>4, <2>3, <4>1
    <3>3. CASE ~(x > queueCursor[ch][r])
      BY <1>6, <3>1, <3>3
    <3> QED
      BY <3>2, <3>3
  <2> QED
    BY <1>1, <1>4, <1>7, <1>8, <2>1, <2>2, <2>3 DEF h, kept, f
<1>9. CASE ~config[ch].multi
  <2> DEFINE k == Len(h)
  <2>1. k \in 0 .. Len(f) /\ h = SubSeq(f, 1, k) /\ kept = SubSeq(f, k + 1, Len(f))
    BY <1>2, <1>4, <1>5, <1>9
  <2> HIDE DEF k
  <2>2. /\ SubSeq(f, k + 1, Len(f)) \in Seq(Positive) /\ Len(SubSeq(f, k + 1, Len(f))) = Len(f) - k
        /\ Ascending(SubSeq(f, k + 1, Len(f)))
        /\ ItemsOf(SubSeq(f, 1, k)) \cup ItemsOf(SubSeq(f, k + 1, Len(f))) = ItemsOf(f)
        /\ \A x \in ItemsOf(SubSeq(f, 1, k)), y \in ItemsOf(SubSeq(f, k + 1, Len(f))) : x < y
    BY <1>1, <1>6, <2>1, AscendingSplit
  <2>3. /\ kept \in Seq(Positive) /\ Len(kept) = Len(f) - Len(h) /\ Ascending(kept)
        /\ ItemsOf(kept) \subseteq ItemsOf(f)
        /\ \A x \in ItemsOf(kept), y \in ItemsOf(h) : y < x
    BY <2>1, <2>2 DEF k
  <2> QED
    BY <1>1, <1>4, <1>7, <1>9, <2>3 DEF h, kept, f
<1> QED
  BY <1>8, <1>9

\* The last of what is handed over is the greatest, and becomes the cursor.
LEMMA MovedFacts ==
    ASSUME NEW entries \in [Readers -> Nat], NEW r \in Readers, NEW h \in Seq(Positive), Ascending(h)
    PROVE  /\ \A q \in Readers : q # r => Moved(entries, r, h)[q] = entries[q]
           /\ h = <<>> => Moved(entries, r, h) = entries /\ ItemsOf(h) = {}
           /\ h # <<>> => /\ Moved(entries, r, h)[r] \in ItemsOf(h)
                          /\ \A y \in ItemsOf(h) : y <= Moved(entries, r, h)[r]
           /\ Moved(entries, r, h) \in [Readers -> Nat]
<1>1. h \in Seq(Nat)
  BY SeqDef DEF Positive
<1>2. Moved(entries, r, h) \in [Readers -> Nat]
  BY <1>1, MovedType
<1>3. CASE h = <<>>
  BY <1>2, <1>3 DEF Moved, ItemsOf
<1>4. CASE h # <<>>
  <2>1. DOMAIN h = 1 .. Len(h) /\ Len(h) \in Nat /\ Len(h) # 0 /\ \A i \in 1 .. Len(h) : h[i] \in Nat
    BY <1>1, <1>4, EmptySeq, LenProperties, ElementOfSeq
  <2>2. Moved(entries, r, h)[r] = h[Len(h)] /\ \A q \in Readers : q # r => Moved(entries, r, h)[q] = entries[q]
    BY <1>4 DEF Moved, LastOf
  <2>3. h[Len(h)] \in ItemsOf(h)
    BY <2>1 DEF ItemsOf
  <2>4. ASSUME NEW i \in 1 .. Len(h) PROVE h[i] <= h[Len(h)]
    <3> DEFINE n == Len(h)
    <3>1. n \in 1 .. n /\ n \in DOMAIN h /\ i \in DOMAIN h /\ h[i] \in Nat /\ h[n] \in Nat /\ i \in 1 .. n
      BY <2>1
    <3> HIDE DEF n
    <3>2. i = n \/ i < n
      BY <3>1
    <3>3. i < n => h[i] < h[n]
      BY <3>1 DEF Ascending
    <3>4. h[i] <= h[n]
      <4>1. CASE i = n
        BY <3>1, <4>1
      <4>2. CASE i < n
        BY <3>1, <3>3, <4>2
      <4> QED
        BY <3>2, <4>1, <4>2
    <3> QED
      BY <3>4 DEF n
  <2> QED
    BY <1>2, <1>4, <2>1, <2>2, <2>3, <2>4 DEF ItemsOf
<1> QED
  BY <1>3, <1>4

\* The queue of a channel after a publication.
LEMMA StoredQueue ==
    ASSUME NEW ch, Typed(ch), Numbers(ch), NEW m \in Nat, NEW burnt \in 0 .. 1, Stores(ch, m, burnt),
           ~is_latest_style(ch)
    PROVE  /\ queue'[ch] \in Seq(Positive) /\ Ascending(queue'[ch])
           /\ Len(queue'[ch]) = IF Len(queue[ch]) + m <= config[ch].capacity THEN Len(queue[ch]) + m
                                ELSE config[ch].capacity
           /\ \A x \in ItemsOf(queue'[ch]) :
                 x \in ItemsOf(queue[ch]) \/ (nextSequence[ch] <= x /\ x < nextSequence[ch] + m)
<1> DEFINE s == queue[ch]
           t == New(ch, m)
           n == config[ch].capacity
<1>1. s \in Seq(Positive) /\ Ascending(s) /\ n \in Positive /\ \A x \in ItemsOf(s) : x < nextSequence[ch]
  BY DEF Typed, Numbers
<1>2. /\ t \in Seq(Positive) /\ Len(t) = m /\ Ascending(t)
      /\ \A x \in ItemsOf(t) : nextSequence[ch] <= x /\ x < nextSequence[ch] + m
  BY NewFacts
<1>3. queue'[ch] = AtMost(n, s \o t)
  BY DEF Stores
<1>4. Positive \subseteq Nat /\ nextSequence[ch] \in Nat
  BY DEF Positive, Typed
<1> HIDE DEF s, t, n
<1>5. \A x \in ItemsOf(s), y \in ItemsOf(t) : x < y
  <2> SUFFICES ASSUME NEW x \in ItemsOf(s), NEW y \in ItemsOf(t) PROVE x < y
    OBVIOUS
  <2>1. x \in Nat /\ y \in Nat
    BY <1>1, <1>2, <1>4, ItemsType
  <2>2. x < nextSequence[ch] /\ nextSequence[ch] <= y
    BY <1>1, <1>2
  <2> QED
    BY <1>4, <2>1, <2>2
<1>6. /\ s \o t \in Seq(Positive) /\ Len(s \o t) = Len(s) + Len(t)
      /\ ItemsOf(s \o t) = ItemsOf(s) \cup ItemsOf(t) /\ Ascending(s \o t)
  BY <1>1, <1>2, <1>4, <1>5, ConcatFacts
<1> DEFINE u == s \o t
<1>7. u \in Seq(Positive) /\ Ascending(u)
  BY <1>6
<1> HIDE DEF u
<1>8. /\ AtMost(n, u) \in Seq(Positive) /\ Ascending(AtMost(n, u))
      /\ ItemsOf(AtMost(n, u)) \subseteq ItemsOf(u)
      /\ Len(AtMost(n, u)) = IF Len(u) <= n THEN Len(u) ELSE n
  BY <1>1, <1>7, AtMostFacts
<1> QED
  BY <1>2, <1>3, <1>6, <1>8 DEF u, s, n

\* The logs of a channel after a read by r that handed h over.
LEMMA LogAfter ==
    ASSUME NEW ch, Typed(ch), NEW r \in Readers, NEW h \in Seq(Positive), Receives(ch, r, h)
    PROVE  /\ log'[ch] \in [Readers -> Seq(Nat)]
           /\ \A q \in Readers : q # r => log'[ch][q] = log[ch][q]
           /\ ItemsOf(log'[ch][r]) = ItemsOf(log[ch][r]) \cup ItemsOf(h)
           /\ \A q \in Readers : \A y \in ItemsOf(log[ch][q]) : y \in Nat
           /\ \A y \in ItemsOf(h) : y \in Nat /\ 1 <= y
           /\ /\ Ascending(log[ch][r]) /\ Ascending(h)
              /\ \A x \in ItemsOf(log[ch][r]), y \in ItemsOf(h) : x < y
              => Ascending(log'[ch][r])
<1> DEFINE received == log[ch]
           l == received[r]
<1>1. received \in [Readers -> Seq(Nat)] /\ log'[ch] = Joined(received, r, h)
  BY DEF Typed, Receives
<1> HIDE DEF received
<1>2. /\ log'[ch] \in [Readers -> Seq(Nat)]
      /\ \A q \in Readers : q # r => log'[ch][q] = received[q]
      /\ log'[ch][r] = l \o h
      /\ ItemsOf(log'[ch][r]) = ItemsOf(l) \cup ItemsOf(h)
      /\ h \in Seq(Nat) /\ l \in Seq(Nat)
  <2>1. /\ Joined(received, r, h) \in [Readers -> Seq(Nat)]
        /\ \A q \in Readers : q # r => Joined(received, r, h)[q] = received[q]
        /\ Joined(received, r, h)[r] = received[r] \o h
        /\ ItemsOf(Joined(received, r, h)[r]) = ItemsOf(received[r]) \cup ItemsOf(h)
        /\ h \in Seq(Nat) /\ received[r] \in Seq(Nat)
    BY <1>1, LogGrows
  <2> QED
    BY <1>1, <2>1
<1>3. \A q \in Readers : \A y \in ItemsOf(received[q]) : y \in Nat
  <2> SUFFICES ASSUME NEW q \in Readers PROVE ItemsOf(received[q]) \subseteq Nat
    OBVIOUS
  <2> DEFINE t == received[q]
  <2>1. t \in Seq(Nat)
    BY <1>1
  <2> HIDE DEF t
  <2>2. ItemsOf(t) \subseteq Nat
    BY <2>1, ItemsType
  <2> QED
    BY <2>2 DEF t
<1>4. \A y \in ItemsOf(h) : y \in Nat /\ 1 <= y
  <2>1. ItemsOf(h) \subseteq Positive
    BY ItemsType
  <2> QED
    BY <2>1 DEF Positive
<1>5. ASSUME Ascending(l), Ascending(h), \A x \in ItemsOf(l), y \in ItemsOf(h) : x < y
      PROVE  Ascending(log'[ch][r])
  <2> HIDE DEF l
  <2>1. Ascending(l \o h)
    BY <1>2, <1>5, ConcatFacts
  <2> QED
    BY <1>2, <2>1
<1> QED
  BY <1>2, <1>3, <1>4, <1>5 DEF l, received

\* The queue cursors of a channel, moved by a read that handed h over.
LEMMA CursorAfter ==
    ASSUME NEW ch, Typed(ch), NEW r \in Readers, NEW h \in Seq(Positive), Ascending(h)
    PROVE  /\ \A q \in Readers : q # r => Moved(queueCursor[ch], r, h)[q] = queueCursor[ch][q]
           /\ h = <<>> => Moved(queueCursor[ch], r, h) = queueCursor[ch] /\ ItemsOf(h) = {}
           /\ h # <<>> => /\ Moved(queueCursor[ch], r, h)[r] \in ItemsOf(h)
                          /\ \A y \in ItemsOf(h) : y <= Moved(queueCursor[ch], r, h)[r]
           /\ Moved(queueCursor[ch], r, h) \in [Readers -> Nat]
<1> DEFINE entries == queueCursor[ch]
<1>1. entries \in [Readers -> Nat]
  BY DEF Typed
<1> HIDE DEF entries
<1>2. /\ \A q \in Readers : q # r => Moved(entries, r, h)[q] = entries[q]
      /\ h = <<>> => Moved(entries, r, h) = entries /\ ItemsOf(h) = {}
      /\ h # <<>> => /\ Moved(entries, r, h)[r] \in ItemsOf(h)
                     /\ \A y \in ItemsOf(h) : y <= Moved(entries, r, h)[r]
      /\ Moved(entries, r, h) \in [Readers -> Nat]
  BY <1>1, MovedFacts
<1> QED
  BY <1>2 DEF entries

LEMMA NumbersStep ==
    ASSUME NEW ch, Typed(ch), Numbers(ch), config' = config, Changes(ch)
    PROVE  Numbers(ch)'
<1>0. /\ nextSequence[ch] \in Nat /\ nextSequence[ch] # 0 /\ latest[ch] \in Nat /\ pendingTick[ch] \in Nat
      /\ Positive \subseteq Nat /\ config[ch].mode = config'[ch].mode
  BY DEF Typed, Positive
<1>1. CASE Rests(ch) \/ Advances(ch)
  BY <1>0, <1>1 DEF Rests, Advances, Unsent, Unread, Uncounted, Numbers
<1>2. CASE Drops(ch)
  <2>1. Ascending(Fresh(ch)) /\ ItemsOf(Fresh(ch)) \subseteq ItemsOf(queue[ch])
    BY FreshFacts DEF Numbers
  <2>2. /\ nextSequence'[ch] = nextSequence[ch] /\ pendingTick'[ch] = pendingTick[ch]
        /\ latest'[ch] \in {0, latest[ch]} /\ queue'[ch] \in {queue[ch], Fresh(ch)}
        /\ queueCursor'[ch] = queueCursor[ch] /\ log'[ch] = log[ch]
    BY <1>2 DEF Drops, Unsent, Unread
  <2> QED
    BY <1>0, <2>1, <2>2 DEF Numbers
<1>3. ASSUME NEW m \in Nat, NEW burnt \in 0 .. 1, Stores(ch, m, burnt) PROVE Numbers(ch)'
  <2>1. /\ nextSequence'[ch] = nextSequence[ch] + m + burnt /\ queueCursor'[ch] = queueCursor[ch]
        /\ log'[ch] = log[ch]
        /\ pendingTick'[ch] =
              IF m > 0 /\ config[ch].mode = "previous_tick" THEN nextSequence[ch] + m - 1 ELSE pendingTick[ch]
        /\ latest'[ch] =
              IF m > 0 /\ config[ch].mode # "previous_tick" THEN nextSequence[ch] + m - 1 ELSE latest[ch]
    BY <1>3 DEF Stores, Unread
  <2>2. nextSequence'[ch] \in Nat /\ nextSequence[ch] + m <= nextSequence'[ch] /\ nextSequence[ch] <= nextSequence'[ch]
    BY <1>0, <2>1
  <2>3. /\ latest'[ch] < nextSequence'[ch] /\ pendingTick'[ch] < nextSequence'[ch]
        /\ config'[ch].mode # "previous_tick" => pendingTick'[ch] = 0
        /\ pendingTick'[ch] # 0 => latest'[ch] < pendingTick'[ch]
    BY <1>0, <2>1, <2>2 DEF Numbers
  <2>4. Ascending(queue'[ch]) /\ \A x \in ItemsOf(queue'[ch]) : x < nextSequence'[ch]
    <3>0. \A x \in ItemsOf(queue[ch]) : x \in Nat /\ x < nextSequence[ch]
      BY <1>0, ItemsType DEF Typed, Numbers
    <3>1. CASE is_latest_style(ch)
      <4>1. queue'[ch] = queue[ch]
        BY <1>3, <3>1 DEF Stores
      <4> QED
        BY <1>0, <2>2, <3>0, <4>1 DEF Numbers
    <3>2. CASE ~is_latest_style(ch)
      <4>1. /\ queue'[ch] \in Seq(Positive) /\ Ascending(queue'[ch])
            /\ \A x \in ItemsOf(queue'[ch]) :
                  x \in ItemsOf(queue[ch]) \/ (nextSequence[ch] <= x /\ x < nextSequence[ch] + m)
        BY <1>3, <3>2, StoredQueue
      <4>2. ASSUME NEW x \in ItemsOf(queue'[ch]) PROVE x < nextSequence'[ch]
        <5>1. x \in Nat
          BY <1>0, <4>1, ItemsType
        <5> QED
          BY <1>0, <2>2, <3>0, <4>1, <5>1
      <4> QED
        BY <4>1, <4>2
    <3> QED
      BY <3>1, <3>2
  <2>5. ASSUME NEW q \in Readers
        PROVE  /\ queueCursor'[ch][q] < nextSequence'[ch]
               /\ \A y \in ItemsOf(log'[ch][q]) : 1 <= y /\ y < nextSequence'[ch]
    <3>1. queueCursor[ch][q] \in Nat /\ \A y \in ItemsOf(log[ch][q]) : y \in Nat
      BY ItemsType DEF Typed
    <3> QED
      BY <1>0, <2>1, <2>2, <3>1 DEF Numbers
  <2> QED
    BY <2>3, <2>4, <2>5 DEF Numbers
<1>4. ASSUME NEW r \in Readers, ReadsLatest(ch, r) PROVE Numbers(ch)'
  <2> DEFINE h == Handed(ch, r, 0)
  <2>1. /\ nextSequence'[ch] = nextSequence[ch] /\ pendingTick'[ch] = pendingTick[ch] /\ queue'[ch] = queue[ch]
        /\ queueCursor'[ch] = queueCursor[ch] /\ latest'[ch] \in {0, latest[ch]}
        /\ Receives(ch, r, h) /\ is_latest_style(ch)
    BY <1>4 DEF ReadsLatest, Unsent
  <2>2. h \in Seq(Positive) /\ \A y \in ItemsOf(h) : y = latest[ch] /\ y # 0
    <3>1. h = <<>> \/ (h = <<latest[ch]>> /\ latest[ch] # 0)
      BY <2>1, LatestHanded
    <3> HIDE DEF h
    <3>2. ItemsOf(<<>>) = {} /\ ItemsOf(<<latest[ch]>>) = {latest[ch]}
      BY DEF ItemsOf
    <3>3. <<>> \in Seq(Positive) /\ (latest[ch] # 0 => <<latest[ch]>> \in Seq(Positive))
      BY <1>0 DEF Positive
    <3> QED
      BY <3>1, <3>2, <3>3, Zenon
  <2> HIDE DEF h
  <2>3. /\ \A q \in Readers : q # r => log'[ch][q] = log[ch][q]
        /\ ItemsOf(log'[ch][r]) = ItemsOf(log[ch][r]) \cup ItemsOf(h)
    BY <2>1, <2>2, LogAfter
  <2>4. ASSUME NEW q \in Readers, NEW y \in ItemsOf(log'[ch][q]) PROVE 1 <= y /\ y < nextSequence[ch]
    <3>1. CASE y \in ItemsOf(log[ch][q])
      BY <3>1 DEF Numbers
    <3>2. CASE y \in ItemsOf(h)
      BY <1>0, <2>2, <3>2 DEF Numbers
    <3> QED
      BY <2>3, <2>4, <3>1, <3>2
  <2> QED
    BY <1>0, <2>1, <2>4 DEF Numbers
<1>5. ASSUME NEW r \in Readers, NEW max \in 0 .. 1, ReadsQueue(ch, r, max) PROVE Numbers(ch)'
  <2> DEFINE h == Handed(ch, r, max)
             kept == Retained(ch, r, max)
             moved == Moved(queueCursor[ch], r, h)
  <2>1. /\ nextSequence'[ch] = nextSequence[ch] /\ pendingTick'[ch] = pendingTick[ch] /\ latest'[ch] = latest[ch]
        /\ queue'[ch] = kept /\ Receives(ch, r, h)
        /\ ~is_latest_style(ch) /\ ~BarrierClosed(ch)
        /\ \A q \in Readers : queueCursor'[ch][q] \in {0, queueCursor[ch][q], moved[q]}
    BY <1>5 DEF ReadsQueue, Unsent
  <2>2. /\ h \in Seq(Positive) /\ Ascending(h) /\ ItemsOf(h) \subseteq ItemsOf(queue[ch])
        /\ kept \in Seq(Positive) /\ Ascending(kept) /\ ItemsOf(kept) \subseteq ItemsOf(queue[ch])
    BY <2>1, DrainFacts DEF Numbers
  <2> HIDE DEF h, kept
  <2>3. /\ \A q \in Readers : q # r => log'[ch][q] = log[ch][q]
        /\ ItemsOf(log'[ch][r]) = ItemsOf(log[ch][r]) \cup ItemsOf(h)
    BY <2>1, <2>2, LogAfter
  <2>4. \A y \in ItemsOf(h) : y \in Nat /\ 1 <= y /\ y < nextSequence[ch]
    <3>1. \A y \in ItemsOf(h) : y \in Positive
      BY <2>2, ItemsType
    <3> QED
      BY <2>2, <3>1 DEF Positive, Numbers
  <2>5. ASSUME NEW q \in Readers, NEW y \in ItemsOf(log'[ch][q]) PROVE 1 <= y /\ y < nextSequence[ch]
    <3>1. CASE y \in ItemsOf(log[ch][q])
      BY <3>1 DEF Numbers
    <3>2. CASE y \in ItemsOf(h)
      BY <2>4, <3>2
    <3> QED
      BY <2>3, <2>5, <3>1, <3>2
  <2>6. ASSUME NEW q \in Readers PROVE queueCursor'[ch][q] < nextSequence[ch]
    <3>1. moved[q] = queueCursor[ch][q] \/ moved[q] \in ItemsOf(h)
      BY <2>2, CursorAfter
    <3>2. queueCursor[ch][q] < nextSequence[ch] /\ 0 < nextSequence[ch]
      BY <1>0 DEF Numbers
    <3> HIDE DEF moved
    <3> QED
      BY <2>1, <2>4, <3>1, <3>2
  <2> QED
    BY <1>0, <2>1, <2>2, <2>5, <2>6 DEF Numbers
<1> QED
  BY <1>1, <1>2, <1>3, <1>4, <1>5 DEF Changes

\* The first of a queue is its least.
LEMMA HeadIsLeast ==
    ASSUME NEW s \in Seq(Positive), s # <<>>, Ascending(s)
    PROVE  Head(s) \in Nat /\ \A x \in ItemsOf(s) : x \in Nat /\ Head(s) <= x
<1>1. s \in Seq(Nat) /\ Positive \subseteq Nat
  BY SeqDef DEF Positive
<1>2. Head(s) = s[1] /\ Head(s) \in Nat
  BY <1>1, TailFacts
<1>3. \A x \in ItemsOf(s) : s[1] <= x
  BY <1>1, AscendingFacts
<1>4. ItemsOf(s) \subseteq Nat
  BY <1>1, ItemsType
<1> QED
  BY <1>2, <1>3, <1>4

\* The configuration of a channel does not change, and with it the policies.
LEMMA SamePolicy ==
    ASSUME NEW ch, config' = config
    PROVE  /\ is_latest_style(ch)' <=> is_latest_style(ch)
           /\ Rejecting(ch)' <=> Rejecting(ch)
           /\ config'[ch].capacity = config[ch].capacity /\ config'[ch].multi = config[ch].multi
BY DEF is_latest_style, Rejecting

\* A queue that shrinks to `depth` is still saturated exactly when it says so.
LEMMA SaturationKept ==
    ASSUME NEW ch, Typed(ch), Books(ch), ~is_latest_style(ch), NEW depth \in Nat, depth <= Len(queue[ch])
    PROVE  /\ StillSaturated(ch, depth) \in BOOLEAN
           /\ StillSaturated(ch, depth) <=> depth >= config[ch].capacity
           /\ depth <= config[ch].capacity
<1>1. config[ch].capacity \in Nat /\ Len(queue[ch]) \in Nat
  BY LenProperties DEF Typed, Positive
<1>2. watermark[ch] <=> Len(queue[ch]) >= config[ch].capacity
  BY DEF Books
<1>3. Len(queue[ch]) <= config[ch].capacity
  BY DEF Books
<1> QED
  BY <1>1, <1>2, <1>3 DEF StillSaturated

LEMMA BooksStep ==
    ASSUME NEW ch, Typed(ch), Numbers(ch), Books(ch), config' = config, Changes(ch)
    PROVE  Books(ch)'
<1> DEFINE n == Len(queue[ch])
           cap == config[ch].capacity
<1>0. /\ n \in Nat /\ cap \in Nat /\ cap > 0 /\ watermark[ch] \in BOOLEAN
      /\ published[ch] \in Nat /\ delivered[ch] \in Nat /\ overwritten[ch] \in Nat /\ stale[ch] \in Nat
  BY LenProperties DEF Typed, Positive
<1>1. CASE Rests(ch) \/ Advances(ch)
  BY <1>1, SamePolicy DEF Rests, Advances, Unsent, Unread, Uncounted, Books
<1>2. CASE is_latest_style(ch)
  <2>1. watermark'[ch] = FALSE
    <3>1. watermark[ch] = FALSE
      BY <1>0, <1>2 DEF Books
    <3>2. \A k : Saturated(ch, k) = FALSE
      BY <1>2 DEF Saturated
    <3>3. ASSUME NEW m \in Nat, NEW burnt \in 0 .. 1, Stores(ch, m, burnt) PROVE watermark'[ch] = FALSE
      BY <3>1, <3>2, <3>3 DEF Stores
    <3>4. Drops(ch) => watermark'[ch] = watermark[ch]
      BY <1>2 DEF Drops
    <3>5. \A r \in Readers : ReadsLatest(ch, r) => watermark'[ch] = watermark[ch]
      BY DEF ReadsLatest
    <3>6. \A r \in Readers, max \in 0 .. 1 : ~ReadsQueue(ch, r, max)
      BY <1>2 DEF ReadsQueue
    <3>7. Rests(ch) \/ Advances(ch) => watermark'[ch] = watermark[ch]
      BY DEF Rests, Advances, Uncounted
    <3> QED
      BY <3>1, <3>3, <3>4, <3>5, <3>6, <3>7 DEF Changes
  <2> QED
    BY <1>2, <2>1, SamePolicy DEF Books
<1>3. ASSUME ~is_latest_style(ch), Drops(ch) PROVE Books(ch)'
  <2> DEFINE depth == Len(Fresh(ch))
  <2>1. depth \in Nat /\ depth <= n /\ StaleIn(ch) = n - depth
    BY <1>0, FreshFacts
  <2>2. /\ queue'[ch] = Fresh(ch) /\ stale'[ch] = stale[ch] + StaleIn(ch) /\ watermark'[ch] = StillSaturated(ch, depth)
        /\ published'[ch] = published[ch] /\ overwritten'[ch] = overwritten[ch] /\ delivered'[ch] = delivered[ch]
    BY <1>3 DEF Drops, Unsent, Unread
  <2>3. (watermark'[ch] <=> depth >= cap) /\ depth <= cap
    <3> HIDE DEF depth
    <3> QED
      BY <1>3, <2>1, <2>2, SaturationKept
  <2>4. /\ published[ch] = n + overwritten[ch] + stale[ch] + (IF config[ch].multi THEN 0 ELSE delivered[ch])
        /\ Rejecting(ch) => overwritten[ch] = 0
    BY <1>3 DEF Books
  <2>5. published'[ch] = depth + overwritten'[ch] + stale'[ch] + (IF config'[ch].multi THEN 0 ELSE delivered'[ch])
    <3> HIDE DEF depth, n
    <3> QED
      BY <1>0, <2>1, <2>2, <2>4, SamePolicy
  <2> QED
    BY <1>3, <2>2, <2>3, <2>4, <2>5, SamePolicy DEF Books
<1>4. ASSUME ~is_latest_style(ch), NEW m \in Nat, NEW burnt \in 0 .. 1, Stores(ch, m, burnt) PROVE Books(ch)'
  <2> DEFINE depth == Len(queue'[ch])
  <2>1. depth = IF n + m <= cap THEN n + m ELSE cap
    BY <1>4, StoredQueue
  <2>2. /\ published'[ch] = published[ch] + m /\ delivered'[ch] = delivered[ch] /\ stale'[ch] = stale[ch]
        /\ watermark'[ch] = (watermark[ch] \/ (m > 0 /\ Saturated(ch, n + m)))
        /\ overwritten'[ch] = overwritten[ch] + IF n + m <= cap THEN 0 ELSE n + m - cap
        /\ Rejecting(ch) => n + m <= cap
    BY <1>4 DEF Stores, Unread
  <2>3. /\ published[ch] = n + overwritten[ch] + stale[ch] + (IF config[ch].multi THEN 0 ELSE delivered[ch])
        /\ Rejecting(ch) => overwritten[ch] = 0
        /\ watermark[ch] <=> n >= cap
        /\ n <= cap
    BY <1>4 DEF Books
  <2>4. Saturated(ch, n + m) <=> n + m >= cap
    BY <1>0, <1>4 DEF Saturated
  <2> HIDE DEF n, cap, depth
  <2>5. watermark'[ch] <=> depth >= cap
    <3>1. depth >= cap <=> n >= cap \/ (m > 0 /\ n + m >= cap)
      BY <1>0, <2>1
    <3>2. watermark'[ch] <=> watermark[ch] \/ (m > 0 /\ Saturated(ch, n + m))
      BY <2>2
    <3> QED
      BY <2>3, <2>4, <3>1, <3>2, Zenon
  <2>6. published'[ch] = depth + overwritten'[ch] + stale'[ch] + (IF config'[ch].multi THEN 0 ELSE delivered'[ch])
    BY <1>0, <2>1, <2>2, <2>3, SamePolicy
  <2>7. depth <= cap /\ (Rejecting(ch) => overwritten'[ch] = 0)
    BY <1>0, <2>1, <2>2, <2>3
  <2> QED
    BY <1>4, <2>5, <2>6, <2>7, SamePolicy DEF Books, depth, cap
<1>5. ASSUME ~is_latest_style(ch), NEW r \in Readers, NEW max \in 0 .. 1, ReadsQueue(ch, r, max) PROVE Books(ch)'
  <2> DEFINE h == Handed(ch, r, max)
             kept == Retained(ch, r, max)
             depth == Len(kept)
             fresh == Len(Fresh(ch))
  <2>1. /\ queue'[ch] = kept /\ watermark'[ch] = StillSaturated(ch, depth)
        /\ stale'[ch] = stale[ch] + IF kept # queue[ch] THEN StaleIn(ch) ELSE 0
        /\ delivered'[ch] = delivered[ch] + Len(h)
        /\ published'[ch] = published[ch] /\ overwritten'[ch] = overwritten[ch] /\ ~BarrierClosed(ch)
    BY <1>5 DEF ReadsQueue, Unsent
  <2>2. /\ depth = IF config[ch].multi THEN fresh ELSE fresh - Len(h)
        /\ Len(h) \in Nat /\ kept \in Seq(Positive)
    BY <1>5, <2>1, DrainFacts DEF Numbers
  <2>3. fresh \in Nat /\ fresh <= n /\ StaleIn(ch) = n - fresh
    BY <1>0, FreshFacts
  <2>4. depth \in Nat
    BY <2>2, LenProperties
  <2>5. kept = queue[ch] => depth = n
    OBVIOUS
  <2>6. /\ published[ch] = n + overwritten[ch] + stale[ch] + (IF config[ch].multi THEN 0 ELSE delivered[ch])
        /\ Rejecting(ch) => overwritten[ch] = 0
    BY <1>5 DEF Books
  <2> HIDE DEF depth, fresh, h, kept, n
  <2>7. depth <= n
    BY <1>0, <2>2, <2>3, <2>4
  <2>8. (watermark'[ch] <=> depth >= cap) /\ depth <= cap
    BY <1>5, <2>1, <2>4, <2>7, SaturationKept DEF n
  <2>9. stale'[ch] = stale[ch] + (n - fresh)
    BY <1>0, <2>1, <2>2, <2>3, <2>4, <2>5
  <2>10. published'[ch] = depth + overwritten'[ch] + stale'[ch] + (IF config'[ch].multi THEN 0 ELSE delivered'[ch])
    <3>1. /\ published'[ch] = published[ch] /\ overwritten'[ch] = overwritten[ch]
          /\ delivered'[ch] = delivered[ch] + Len(h) /\ config'[ch].multi = config[ch].multi
      BY <2>1, SamePolicy
    <3>2. CASE config[ch].multi
      BY <1>0, <2>2, <2>3, <2>6, <2>9, <3>1, <3>2
    <3>3. CASE ~config[ch].multi
      <4>1. /\ published[ch] = n + overwritten[ch] + stale[ch] + delivered[ch] /\ depth = fresh - Len(h)
            /\ stale'[ch] = stale[ch] + (n - fresh)
        BY <2>2, <2>6, <2>9, <3>3
      <4>2. published[ch] = depth + overwritten[ch] + (stale[ch] + (n - fresh)) + (delivered[ch] + Len(h))
        <5> DEFINE k == Len(h)
        <5>1. k \in Nat /\ depth = fresh - k
          BY <2>2, <4>1
        <5> HIDE DEF k
        <5>2. published[ch] = depth + overwritten[ch] + (stale[ch] + (n - fresh)) + (delivered[ch] + k)
          <6>1. \A o, s, d \in Nat : n + o + s + d = (fresh - k) + o + (s + (n - fresh)) + (d + k)
            BY <1>0, <2>3, <5>1
          <6>2. overwritten[ch] \in Nat /\ stale[ch] \in Nat /\ delivered[ch] \in Nat
            BY <1>0
          <6>3. published[ch] = n + overwritten[ch] + stale[ch] + delivered[ch]
            BY <4>1
          <6>4. depth = fresh - k
            BY <5>1
          <6>5. n + overwritten[ch] + stale[ch] + delivered[ch]
                    = (fresh - k) + overwritten[ch] + (stale[ch] + (n - fresh)) + (delivered[ch] + k)
            BY <6>1, <6>2
          <6> QED
            BY <6>3, <6>4, <6>5
        <5> QED
          BY <5>2 DEF k
      <4> QED
        BY <3>1, <3>3, <4>1, <4>2
    <3> QED
      BY <3>2, <3>3
  <2> QED
    BY <1>5, <2>1, <2>6, <2>8, <2>10, SamePolicy DEF Books, depth
<1>6. \A r \in Readers : ReadsLatest(ch, r) => is_latest_style(ch)
  BY DEF ReadsLatest
<1> QED
  BY <1>1, <1>2, <1>3, <1>4, <1>5, <1>6 DEF Changes

-----------------------------------------------------------------------------
(* Who has received what is kept track of.                                 *)

\* Members of a log and of a queue are naturals.
LEMMA ItemTypes ==
    ASSUME NEW ch, Typed(ch)
    PROVE  /\ \A x \in ItemsOf(queue[ch]) : x \in Nat /\ x # 0
           /\ \A q \in Readers : \A y \in ItemsOf(log[ch][q]) : y \in Nat
<1> DEFINE s == queue[ch]
<1>1. s \in Seq(Positive)
  BY DEF Typed
<1> HIDE DEF s
<1>2. ItemsOf(s) \subseteq Positive
  BY <1>1, ItemsType
<1>3. ASSUME NEW q \in Readers PROVE ItemsOf(log[ch][q]) \subseteq Nat
  <2> DEFINE t == log[ch][q]
  <2>1. t \in Seq(Nat)
    BY DEF Typed
  <2> HIDE DEF t
  <2>2. ItemsOf(t) \subseteq Nat
    BY <2>1, ItemsType
  <2> QED
    BY <2>2 DEF t
<1> QED
  BY <1>2, <1>3 DEF s, Positive

\* While nothing is read, what was told stays true: what is stored is newer than every log.
LEMMA UnreadTold ==
    ASSUME NEW ch, Typed(ch), Numbers(ch), Delivery(ch), config' = config, forgotten \subseteq forgotten',
           Rests(ch) \/ Advances(ch) \/ Drops(ch) \/ \E m \in Nat, burnt \in 0 .. 1 : Stores(ch, m, burnt)
    PROVE  Delivery(ch)'
<1>0. /\ nextSequence[ch] \in Nat /\ latest[ch] \in Nat /\ pendingTick[ch] \in Nat
      /\ \A q \in Readers : queueCursor[ch][q] \in Nat
  BY DEF Typed, Positive
<1>1. log'[ch] = log[ch] /\ latestCursor'[ch] = latestCursor[ch] /\ queueCursor'[ch] = queueCursor[ch]
  BY DEF Rests, Advances, Drops, Stores, Unread
<1>2. ASSUME ~is_latest_style(ch), NEW x \in ItemsOf(queue'[ch])
      PROVE  x \in ItemsOf(queue[ch]) \/ (x \in Nat /\ nextSequence[ch] <= x)
  <2>1. CASE Rests(ch) \/ Advances(ch)
    BY <1>2, <2>1 DEF Rests, Advances, Uncounted
  <2>2. CASE Drops(ch)
    <3>1. queue'[ch] = Fresh(ch) /\ ItemsOf(Fresh(ch)) \subseteq ItemsOf(queue[ch])
      BY <1>2, <2>2, FreshFacts DEF Drops
    <3> QED
      BY <1>2, <3>1
  <2>3. ASSUME NEW m \in Nat, NEW burnt \in 0 .. 1, Stores(ch, m, burnt)
        PROVE  x \in ItemsOf(queue[ch]) \/ (x \in Nat /\ nextSequence[ch] <= x)
    <3>1. /\ queue'[ch] \in Seq(Positive)
          /\ x \in ItemsOf(queue[ch]) \/ nextSequence[ch] <= x
      BY <1>2, <2>3, StoredQueue
    <3>2. ItemsOf(queue'[ch]) \subseteq Positive
      BY <3>1, ItemsType
    <3> QED
      BY <1>2, <3>1, <3>2 DEF Positive
  <2> QED
    BY <2>1, <2>2, <2>3
<1>3. ASSUME NEW q \in Readers, NEW y \in ItemsOf(log[ch][q]) PROVE y \in Nat /\ y < nextSequence[ch]
  BY ItemTypes DEF Numbers
<1>4. ASSUME ~is_latest_style(ch), NEW x \in ItemsOf(queue'[ch]), x \notin ItemsOf(queue[ch]),
             NEW q \in Readers
      PROVE  /\ \A y \in ItemsOf(log[ch][q]) : y < x
             /\ ~(x <= queueCursor[ch][q])
  <2>1. x \in Nat /\ nextSequence[ch] <= x /\ queueCursor[ch][q] \in Nat /\ queueCursor[ch][q] < nextSequence[ch]
    BY <1>0, <1>2, <1>4 DEF Numbers
  <2> QED
    BY <1>0, <1>3, <2>1
<1>5. Private(ch)'
  <2> SUFFICES ASSUME ~is_latest_style(ch), ~config[ch].multi
               PROVE  /\ \A q \in Readers : \A x \in ItemsOf(queue'[ch]), y \in ItemsOf(log[ch][q]) : y < x
                      /\ \A r, q \in Readers : r # q => ItemsOf(log[ch][r]) \cap ItemsOf(log[ch][q]) = {}
    BY <1>1, SamePolicy DEF Private
  <2>1. Private(ch)
    BY DEF Delivery
  <2> QED
    BY <1>4, <2>1 DEF Private
<1>6. ASSUME NEW q \in Readers, <<ch, q>> \notin forgotten' PROVE Told(ch, q)'
  <2>1. Told(ch, q)
    BY <1>6 DEF Delivery
  <2>2. ASSUME ~is_latest_style(ch), config[ch].multi PROVE QueueTold(ch, q)'
    <3>1. QueueTold(ch, q)
      BY <2>1, <2>2 DEF Told
    <3>2. ASSUME NEW x \in ItemsOf(queue'[ch]), NEW y \in ItemsOf(log[ch][q]) PROVE y < x \/ y <= queueCursor[ch][q]
      BY <1>4, <2>2, <3>1 DEF QueueTold
    <3>3. ASSUME NEW x \in ItemsOf(queue'[ch]), x <= queueCursor[ch][q] PROVE x \in ItemsOf(log[ch][q])
      BY <1>4, <2>2, <3>1, <3>3 DEF QueueTold
    <3> QED
      BY <1>1, <3>2, <3>3 DEF QueueTold
  <2>3. ASSUME is_latest_style(ch) PROVE LatestTold(ch, q)'
    <3>1. LatestTold(ch, q)
      BY <2>1, <2>3 DEF Told
    <3>2. \/ latest'[ch] = latest[ch] \/ latest'[ch] = 0
          \/ pendingTick[ch] # 0 /\ latest'[ch] = pendingTick[ch]
          \/ latest'[ch] \in Nat /\ nextSequence[ch] <= latest'[ch]
      <4>1. ASSUME NEW m \in Nat, NEW burnt \in 0 .. 1, Stores(ch, m, burnt)
            PROVE  latest'[ch] = latest[ch] \/ (latest'[ch] \in Nat /\ nextSequence[ch] <= latest'[ch])
        BY <1>0, <4>1 DEF Stores
      <4> QED
        BY <2>3, <4>1 DEF Rests, Advances, Drops
    <3>3. \/ pendingTick'[ch] = pendingTick[ch] \/ pendingTick'[ch] = 0
          \/ pendingTick'[ch] \in Nat /\ nextSequence[ch] <= pendingTick'[ch]
      <4>1. ASSUME NEW m \in Nat, NEW burnt \in 0 .. 1, Stores(ch, m, burnt)
            PROVE  pendingTick'[ch] = pendingTick[ch] \/ (pendingTick'[ch] \in Nat /\ nextSequence[ch] <= pendingTick'[ch])
        BY <1>0, <4>1 DEF Stores
      <4> QED
        BY <2>3, <4>1 DEF Rests, Advances, Drops
    <3>4. ASSUME NEW y \in ItemsOf(log[ch][q]), latest'[ch] # 0
          PROVE  y <= latest'[ch] /\ (y = latest'[ch] => latestCursor[ch][q] = latest'[ch])
      <4>1. y \in Nat /\ y < nextSequence[ch]
        BY <1>3
      <4>2. CASE latest'[ch] = latest[ch]
        BY <3>1, <3>4, <4>2 DEF LatestTold
      <4>3. CASE pendingTick[ch] # 0 /\ latest'[ch] = pendingTick[ch]
        <5>1. y < pendingTick[ch]
          BY <3>1, <4>3 DEF LatestTold
        <5> QED
          BY <1>0, <4>1, <4>3, <5>1
      <4>4. CASE latest'[ch] \in Nat /\ nextSequence[ch] <= latest'[ch]
        BY <1>0, <4>1, <4>4
      <4> QED
        BY <3>2, <3>4, <4>2, <4>3, <4>4
    <3>5. ASSUME NEW y \in ItemsOf(log[ch][q]), pendingTick'[ch] # 0 PROVE y < pendingTick'[ch]
      <4>1. y \in Nat /\ y < nextSequence[ch]
        BY <1>3
      <4>2. CASE pendingTick'[ch] = pendingTick[ch]
        BY <3>1, <3>5, <4>2 DEF LatestTold
      <4>3. CASE pendingTick'[ch] \in Nat /\ nextSequence[ch] <= pendingTick'[ch]
        BY <1>0, <4>1, <4>3
      <4> QED
        BY <3>3, <3>5, <4>2, <4>3
    <3> QED
      BY <1>1, <3>4, <3>5 DEF LatestTold
  <2> QED
    BY <1>1, <2>1, <2>2, <2>3, SamePolicy DEF Told
<1> QED
  BY <1>5, <1>6 DEF Delivery

\* A latest-style channel hands its value to a reader that has older ones only.
LEMMA LatestReadTold ==
    ASSUME NEW ch, Typed(ch), Numbers(ch), Delivery(ch), config' = config, forgotten \subseteq forgotten',
           NEW r \in Readers, ReadsLatest(ch, r)
    PROVE  Delivery(ch)'
<1> DEFINE h == Handed(ch, r, 0)
           moved == Moved(latestCursor[ch], r, h)
<1>0. latest[ch] \in Nat /\ pendingTick[ch] \in Nat
  BY DEF Typed
<1>1. /\ is_latest_style(ch) /\ pendingTick'[ch] = pendingTick[ch] /\ Receives(ch, r, h)
      /\ latest'[ch] = IF LatestExpires(ch) THEN 0 ELSE latest[ch]
      /\ \A q \in Readers : <<ch, q>> \notin forgotten' =>
            latestCursor'[ch][q] = moved[q] \/ moved[q] # latest[ch]
  BY DEF ReadsLatest
<1>2. h = <<>> \/ (h = <<latest[ch]>> /\ latest[ch] # 0 /\ latestCursor[ch][r] # latest[ch])
  BY <1>1, LatestHanded
<1> HIDE DEF h
<1>3. h \in Seq(Positive) /\ Ascending(h)
  <2>1. Ascending(<<>>) /\ Ascending(<<latest[ch]>>)
    BY DEF Ascending
  <2>2. <<>> \in Seq(Positive) /\ (latest[ch] # 0 => <<latest[ch]>> \in Seq(Positive))
    BY <1>0 DEF Positive
  <2> QED
    BY <1>2, <2>1, <2>2, Zenon
<1>4. \/ h = <<>> /\ ItemsOf(h) = {}
      \/ h # <<>> /\ ItemsOf(h) = {latest[ch]} /\ latest[ch] # 0 /\ latestCursor[ch][r] # latest[ch]
  <2>1. ItemsOf(<<>>) = {} /\ ItemsOf(<<latest[ch]>>) = {latest[ch]} /\ <<latest[ch]>> # <<>>
    BY DEF ItemsOf
  <2> QED
    BY <1>2, <2>1, Zenon
<1>5. /\ \A q \in Readers : q # r => moved[q] = latestCursor[ch][q]
      /\ h = <<>> => moved = latestCursor[ch]
      /\ h # <<>> => moved[r] = latest[ch]
  <2> DEFINE entries == latestCursor[ch]
  <2>1. entries \in [Readers -> Nat]
    BY DEF Typed
  <2> HIDE DEF entries
  <2>2. /\ \A q \in Readers : q # r => Moved(entries, r, h)[q] = entries[q]
        /\ h = <<>> => Moved(entries, r, h) = entries
        /\ h # <<>> => Moved(entries, r, h)[r] \in ItemsOf(h)
    BY <1>3, <2>1, MovedFacts
  <2>3. h # <<>> => Moved(entries, r, h)[r] = latest[ch]
    BY <1>4, <2>2
  <2> QED
    BY <2>2, <2>3 DEF entries
<1>6. /\ \A q \in Readers : q # r => log'[ch][q] = log[ch][q]
      /\ ItemsOf(log'[ch][r]) = ItemsOf(log[ch][r]) \cup ItemsOf(h)
      /\ \A q \in Readers : \A y \in ItemsOf(log[ch][q]) : y \in Nat
      /\ /\ Ascending(log[ch][r]) /\ Ascending(h)
         /\ \A x \in ItemsOf(log[ch][r]), y \in ItemsOf(h) : x < y
         => Ascending(log'[ch][r])
  BY <1>1, <1>3, LogAfter
<1> HIDE DEF moved
<1>7. Private(ch)'
  BY <1>1, SamePolicy DEF Private
<1>8. ASSUME NEW q \in Readers, <<ch, q>> \notin forgotten' PROVE Told(ch, q)'
  <2>1. Told(ch, q) /\ LatestTold(ch, q)
    BY <1>1, <1>8 DEF Delivery, Told
  <2>2. Ascending(log'[ch][q])
    <3>1. CASE q # r
      BY <1>6, <2>1, <3>1 DEF Told
    <3>2. CASE q = r
      <4>1. ASSUME NEW x \in ItemsOf(log[ch][r]), NEW y \in ItemsOf(h) PROVE x < y
        <5>1. y = latest[ch] /\ latest[ch] # 0 /\ latestCursor[ch][r] # latest[ch]
          BY <1>4, <4>1
        <5>2. x <= latest[ch] /\ x # latest[ch] /\ x \in Nat
          BY <1>6, <2>1, <3>2, <5>1 DEF LatestTold
        <5> QED
          BY <1>0, <5>1, <5>2
      <4>2. Ascending(log[ch][r])
        BY <2>1, <3>2 DEF Told
      <4> QED
        BY <1>3, <1>6, <3>2, <4>1, <4>2
    <3> QED
      BY <3>1, <3>2
  <2>3. ASSUME NEW y \in ItemsOf(log'[ch][q])
        PROVE  y \in ItemsOf(log[ch][q]) \/ (q = r /\ h # <<>> /\ y = latest[ch])
    <3>1. CASE q # r
      BY <1>6, <2>3, <3>1
    <3>2. CASE q = r
      <4>1. y \in ItemsOf(log[ch][r]) \/ y \in ItemsOf(h)
        BY <1>6, <2>3, <3>2
      <4> QED
        BY <1>4, <3>2, <4>1
    <3> QED
      BY <3>1, <3>2
  <2>4. ASSUME NEW y \in ItemsOf(log'[ch][q]), latest'[ch] # 0
        PROVE  y <= latest'[ch] /\ (y = latest'[ch] => latestCursor'[ch][q] = latest'[ch])
    <3>1. latest'[ch] = latest[ch] /\ latest[ch] # 0
      BY <1>1, <2>4
    <3>2. y <= latest[ch]
      <4>1. CASE y \in ItemsOf(log[ch][q])
        BY <2>1, <3>1, <4>1 DEF LatestTold
      <4>2. CASE y = latest[ch]
        BY <1>0, <4>2
      <4> QED
        BY <2>3, <4>1, <4>2
    <3>3. ASSUME y = latest[ch] PROVE latestCursor'[ch][q] = latest[ch]
      <4>1. moved[q] = latest[ch]
        <5>1. CASE q = r /\ h # <<>>
          BY <1>5, <5>1
        <5>2. CASE ~(q = r /\ h # <<>>)
          <6>1. moved[q] = latestCursor[ch][q]
            BY <1>5, <5>2
          <6>2. y \in ItemsOf(log[ch][q])
            BY <2>3, <5>2
          <6>3. latestCursor[ch][q] = latest[ch]
            BY <2>1, <3>1, <3>3, <6>2 DEF LatestTold
          <6> QED
            BY <6>1, <6>3
        <5> QED
          BY <5>1, <5>2
      <4> QED
        BY <1>1, <1>8, <4>1
    <3> QED
      BY <3>1, <3>2, <3>3
  <2>5. ASSUME NEW y \in ItemsOf(log'[ch][q]), pendingTick'[ch] # 0 PROVE y < pendingTick'[ch]
    <3>1. pendingTick'[ch] = pendingTick[ch] /\ pendingTick[ch] # 0
      BY <1>1, <2>5
    <3>2. CASE y \in ItemsOf(log[ch][q])
      BY <2>1, <3>1, <3>2 DEF LatestTold
    <3>3. CASE y = latest[ch]
      BY <3>1, <3>3 DEF Numbers
    <3> QED
      BY <2>3, <3>2, <3>3
  <2>6. LatestTold(ch, q)'
    BY <2>4, <2>5 DEF LatestTold
  <2> QED
    BY <1>1, <2>2, <2>6, SamePolicy DEF Told
<1> QED
  BY <1>7, <1>8 DEF Delivery

\* What a queue hands over is newer than everything its reader has: the cursor says so, or
\* the queue is not shared and what was received is gone from it.
LEMMA QueueReadTold ==
    ASSUME NEW ch, Typed(ch), Numbers(ch), Delivery(ch), config' = config, forgotten \subseteq forgotten',
           NEW r \in Readers, NEW max \in 0 .. 1, ReadsQueue(ch, r, max)
    PROVE  Delivery(ch)'
<1> DEFINE h == Handed(ch, r, max)
           kept == Retained(ch, r, max)
           moved == Moved(queueCursor[ch], r, h)
<1>1. /\ ~is_latest_style(ch) /\ ~BarrierClosed(ch) /\ queue'[ch] = kept /\ Receives(ch, r, h)
      /\ \A q \in Readers : config[ch].multi /\ <<ch, q>> \notin forgotten' =>
            \/ queueCursor'[ch][q] = moved[q]
            \/ queueCursor'[ch][q] = 0 /\ ~(kept # <<>> /\ moved[q] >= Head(kept))
  BY DEF ReadsQueue
<1>2. /\ h \in Seq(Positive) /\ Ascending(h) /\ ItemsOf(h) \subseteq ItemsOf(queue[ch])
      /\ kept \in Seq(Positive) /\ Ascending(kept) /\ ItemsOf(kept) \subseteq ItemsOf(queue[ch])
      /\ config[ch].multi =>
            /\ \A y \in ItemsOf(h) : y > queueCursor[ch][r]
            /\ \A x \in ItemsOf(kept), y \in ItemsOf(h) : x <= y => x \in ItemsOf(h) \/ x <= queueCursor[ch][r]
      /\ ~config[ch].multi => \A x \in ItemsOf(kept), y \in ItemsOf(h) : y < x
  BY <1>1, DrainFacts DEF Numbers
<1> HIDE DEF h, kept
<1>3. /\ \A q \in Readers : q # r => log'[ch][q] = log[ch][q]
      /\ ItemsOf(log'[ch][r]) = ItemsOf(log[ch][r]) \cup ItemsOf(h)
      /\ /\ Ascending(log[ch][r]) /\ Ascending(h)
         /\ \A x \in ItemsOf(log[ch][r]), y \in ItemsOf(h) : x < y
         => Ascending(log'[ch][r])
  BY <1>1, <1>2, LogAfter
<1>4. /\ \A x \in ItemsOf(queue[ch]) : x \in Nat /\ x # 0
      /\ \A q \in Readers : \A y \in ItemsOf(log[ch][q]) : y \in Nat
      /\ \A q \in Readers : queueCursor[ch][q] \in Nat
  BY ItemTypes DEF Typed
<1>5. /\ \A q \in Readers : q # r => moved[q] = queueCursor[ch][q]
      /\ h = <<>> => moved = queueCursor[ch] /\ ItemsOf(h) = {}
      /\ h # <<>> => moved[r] \in ItemsOf(h) /\ \A y \in ItemsOf(h) : y <= moved[r]
      /\ \A q \in Readers : moved[q] \in Nat
  BY <1>2, CursorAfter
<1> HIDE DEF moved
<1>6. kept # <<>> => Head(kept) \in Nat /\ \A x \in ItemsOf(kept) : Head(kept) <= x
  BY <1>2, HeadIsLeast
<1>7. kept = <<>> => ItemsOf(kept) = {}
  BY DEF ItemsOf
<1>8. ASSUME NEW q \in Readers, <<ch, q>> \notin forgotten' PROVE Ascending(log'[ch][q])
  <2>1. Told(ch, q)
    BY <1>8 DEF Delivery
  <2>2. CASE q # r
    BY <1>3, <2>1, <2>2 DEF Told
  <2>3. CASE q = r
    <3>1. ASSUME NEW x \in ItemsOf(log[ch][r]), NEW y \in ItemsOf(h) PROVE x < y
      <4>1. y \in ItemsOf(queue[ch]) /\ x \in Nat /\ y \in Nat /\ queueCursor[ch][r] \in Nat
        BY <1>2, <1>4, <3>1
      <4>2. CASE config[ch].multi
        <5>1. x < y \/ x <= queueCursor[ch][r]
          BY <1>1, <2>1, <2>3, <3>1, <4>1, <4>2 DEF Told, QueueTold
        <5>2. y > queueCursor[ch][r]
          BY <1>2, <3>1, <4>2
        <5> QED
          BY <4>1, <5>1, <5>2
      <4>3. CASE ~config[ch].multi
        BY <1>1, <3>1, <4>1, <4>3 DEF Delivery, Private
      <4> QED
        BY <4>2, <4>3
    <3>2. Ascending(log[ch][r])
      BY <2>1, <2>3 DEF Told
    <3> QED
      BY <1>2, <1>3, <2>3, <3>1, <3>2
  <2> QED
    BY <2>2, <2>3
<1>9. ASSUME NEW q \in Readers, NEW y \in ItemsOf(log'[ch][q]) PROVE y \in ItemsOf(log[ch][q]) \/ (q = r /\ y \in ItemsOf(h))
  BY <1>3, <1>9
<1>10. Private(ch)'
  <2> SUFFICES ASSUME ~config[ch].multi
               PROVE  /\ \A q \in Readers : \A x \in ItemsOf(kept), y \in ItemsOf(log'[ch][q]) : y < x
                      /\ \A p, q \in Readers : p # q => ItemsOf(log'[ch][p]) \cap ItemsOf(log'[ch][q]) = {}
    BY <1>1, SamePolicy DEF Private
  <2>1. /\ \A q \in Readers : \A x \in ItemsOf(queue[ch]), y \in ItemsOf(log[ch][q]) : y < x
        /\ \A p, q \in Readers : p # q => ItemsOf(log[ch][p]) \cap ItemsOf(log[ch][q]) = {}
    BY <1>1 DEF Delivery, Private
  <2>2. ASSUME NEW q \in Readers, NEW x \in ItemsOf(kept), NEW y \in ItemsOf(log'[ch][q]) PROVE y < x
    BY <1>2, <1>9, <2>1, <2>2
  <2>3. ASSUME NEW q \in Readers, NEW y \in ItemsOf(log[ch][q]) PROVE y \notin ItemsOf(h)
    <3>1. ASSUME y \in ItemsOf(h) PROVE FALSE
      <4>1. y \in ItemsOf(queue[ch]) /\ y \in Nat
        BY <1>2, <1>4, <3>1
      <4>2. y < y
        BY <2>1, <2>3, <4>1
      <4> QED
        BY <4>1, <4>2
    <3> QED
      BY <3>1
  <2>4. ASSUME NEW p \in Readers, NEW q \in Readers, p # q, NEW y \in ItemsOf(log'[ch][p]), y \in ItemsOf(log'[ch][q])
        PROVE  FALSE
    <3>1. y \in ItemsOf(log[ch][p]) \/ (p = r /\ y \in ItemsOf(h))
      BY <1>9, <2>4
    <3>2. y \in ItemsOf(log[ch][q]) \/ (q = r /\ y \in ItemsOf(h))
      BY <1>9, <2>4
    <3>3. CASE y \in ItemsOf(log[ch][p]) /\ y \in ItemsOf(log[ch][q])
      BY <2>1, <2>4, <3>3
    <3>4. CASE y \in ItemsOf(log[ch][p]) /\ y \in ItemsOf(h)
      BY <2>3, <3>4
    <3>5. CASE y \in ItemsOf(log[ch][q]) /\ y \in ItemsOf(h)
      BY <2>3, <3>5
    <3> QED
      BY <2>4, <3>1, <3>2, <3>3, <3>4, <3>5
  <2> QED
    BY <2>2, <2>4
<1>11. ASSUME config[ch].multi, NEW q \in Readers, <<ch, q>> \notin forgotten' PROVE QueueTold(ch, q)'
  <2>1. QueueTold(ch, q)
    BY <1>1, <1>11 DEF Delivery, Told
  <2>2. /\ \A x \in ItemsOf(kept), y \in ItemsOf(log[ch][q]) : y < x \/ y <= queueCursor[ch][q]
        /\ \A x \in ItemsOf(kept) : x <= queueCursor[ch][q] => x \in ItemsOf(log[ch][q])
    BY <1>2, <2>1 DEF QueueTold
  \* The cursor moves on, past all that was handed over.
  <2>3. queueCursor[ch][q] <= moved[q] /\ (q = r => \A y \in ItemsOf(h) : y <= moved[q])
    <3>1. CASE q = r /\ h # <<>>
      <4>1. moved[r] \in ItemsOf(h) /\ moved[r] > queueCursor[ch][r]
        BY <1>2, <1>5, <1>11, <3>1
      <4> QED
        BY <1>4, <1>5, <3>1, <4>1
    <3>2. CASE ~(q = r /\ h # <<>>)
      <4>1. moved[q] = queueCursor[ch][q]
        BY <1>5, <3>2
      <4> QED
        BY <1>4, <1>5, <3>2, <4>1
    <3> QED
      BY <3>1, <3>2
  <2>4. ASSUME NEW x \in ItemsOf(kept), NEW y \in ItemsOf(log'[ch][q]) PROVE y < x \/ y <= moved[q]
    <3>1. CASE y \in ItemsOf(log[ch][q])
      <4>1. y < x \/ y <= queueCursor[ch][q]
        BY <2>2, <2>4, <3>1
      <4>2. y \in Nat /\ queueCursor[ch][q] \in Nat /\ moved[q] \in Nat
        BY <1>4, <1>5, <3>1
      <4> QED
        BY <2>3, <4>1, <4>2
    <3>2. CASE q = r /\ y \in ItemsOf(h)
      BY <2>3, <3>2
    <3> QED
      BY <1>9, <2>4, <3>1, <3>2
  <2>5. ASSUME NEW x \in ItemsOf(kept), x <= moved[q] PROVE x \in ItemsOf(log'[ch][q])
    <3>1. CASE q = r /\ h # <<>>
      <4>1. moved[r] \in ItemsOf(h)
        BY <1>5, <3>1
      <4>2. x \in ItemsOf(h) \/ x <= queueCursor[ch][r]
        BY <1>2, <1>11, <2>5, <3>1, <4>1
      <4>3. x \in ItemsOf(h) \/ x \in ItemsOf(log[ch][r])
        BY <2>2, <3>1, <4>2
      <4> QED
        BY <1>3, <3>1, <4>3
    <3>2. CASE ~(q = r /\ h # <<>>)
      <4>1. moved[q] = queueCursor[ch][q]
        BY <1>5, <3>2
      <4>2. x \in ItemsOf(log[ch][q])
        BY <2>2, <2>5, <4>1
      <4> QED
        BY <1>3, <4>2
    <3> QED
      BY <3>1, <3>2
  <2>6. CASE queueCursor'[ch][q] = moved[q]
    BY <1>1, <2>4, <2>5, <2>6 DEF QueueTold
  <2>7. CASE queueCursor'[ch][q] = 0 /\ ~(kept # <<>> /\ moved[q] >= Head(kept))
    <3>1. ASSUME NEW x \in ItemsOf(kept) PROVE x \in Nat /\ x # 0 /\ moved[q] < x
      <4>1. kept # <<>> /\ x \in Nat /\ x # 0
        BY <1>2, <1>4, <1>7, <3>1
      <4>2. Head(kept) \in Nat /\ Head(kept) <= x /\ moved[q] \in Nat /\ ~(moved[q] >= Head(kept))
        BY <1>5, <1>6, <2>7, <3>1, <4>1
      <4> QED
        BY <4>1, <4>2
    <3>2. ASSUME NEW x \in ItemsOf(kept), NEW y \in ItemsOf(log'[ch][q]) PROVE y < x
      <4>1. y \in Nat
        BY <1>2, <1>4, <1>9, <3>2
      <4> QED
        <5>1. y < x \/ y <= moved[q]
          BY <2>4, <3>2
        <5>2. x \in Nat /\ moved[q] < x /\ moved[q] \in Nat
          BY <1>5, <3>1, <3>2
        <5> QED
          BY <4>1, <5>1, <5>2
    <3>3. ASSUME NEW x \in ItemsOf(kept) PROVE ~(x <= 0)
      BY <3>1, <3>3
    <3> QED
      BY <1>1, <2>7, <3>2, <3>3 DEF QueueTold
  <2> QED
    BY <1>1, <1>11, <2>6, <2>7
<1>12. ASSUME NEW q \in Readers, <<ch, q>> \notin forgotten' PROVE Told(ch, q)'
  BY <1>1, <1>8, <1>11, <1>12, SamePolicy DEF Told
<1> QED
  BY <1>10, <1>12 DEF Delivery

LEMMA DeliveryStep ==
    ASSUME NEW ch, Typed(ch), Numbers(ch), Delivery(ch), config' = config, forgotten \subseteq forgotten',
           Changes(ch)
    PROVE  Delivery(ch)'
BY UnreadTold, LatestReadTold, QueueReadTold DEF Changes

-----------------------------------------------------------------------------
(* Types.                                                                  *)

LEMMA TypedStep ==
    ASSUME NEW ch, Typed(ch), Numbers(ch), config' = config, expired'[ch] \in Nat, Changes(ch)
    PROVE  Typed(ch)'
<1>0. /\ nextSequence[ch] \in Nat /\ nextSequence[ch] # 0 /\ latest[ch] \in Nat /\ pendingTick[ch] \in Nat
      /\ queue[ch] \in Seq(Positive)
      /\ published[ch] \in Nat /\ delivered[ch] \in Nat /\ overwritten[ch] \in Nat /\ stale[ch] \in Nat
      /\ watermark[ch] \in BOOLEAN
  BY DEF Typed, Positive
<1>1. /\ config'[ch] \in ChannelConfig /\ config'[ch].multi \in BOOLEAN /\ config'[ch].capacity \in Positive
      /\ expired'[ch] \in Nat
  BY DEF Typed
<1>2. CASE Rests(ch) \/ Advances(ch)
  BY <1>1, <1>2 DEF Rests, Advances, Unsent, Unread, Uncounted, Typed
<1>3. CASE Drops(ch)
  <2>1. Fresh(ch) \in Seq(Positive) /\ StaleIn(ch) \in Nat
    BY FreshFacts
  <2>2. /\ nextSequence'[ch] = nextSequence[ch] /\ published'[ch] = published[ch] /\ overwritten'[ch] = overwritten[ch]
        /\ latestCursor'[ch] = latestCursor[ch] /\ queueCursor'[ch] = queueCursor[ch]
        /\ delivered'[ch] = delivered[ch] /\ log'[ch] = log[ch] /\ pendingTick'[ch] = pendingTick[ch]
        /\ latest'[ch] \in {0, latest[ch]} /\ queue'[ch] \in {queue[ch], Fresh(ch)}
    BY <1>3 DEF Drops, Unsent, Unread
  <2>3. stale'[ch] \in Nat
    BY <1>0, <1>3, <2>1 DEF Drops
  <2>4. watermark'[ch] \in BOOLEAN
    BY <1>0, <1>3 DEF Drops, StillSaturated
  <2> QED
    BY <1>1, <2>1, <2>2, <2>3, <2>4 DEF Typed
<1>4. ASSUME NEW m \in Nat, NEW burnt \in 0 .. 1, Stores(ch, m, burnt) PROVE Typed(ch)'
  <2>1. /\ latestCursor'[ch] = latestCursor[ch] /\ queueCursor'[ch] = queueCursor[ch]
        /\ delivered'[ch] = delivered[ch] /\ log'[ch] = log[ch] /\ stale'[ch] = stale[ch] /\ overwritten'[ch] \in Nat
    BY <1>4 DEF Stores, Unread
  <2>2. nextSequence'[ch] \in Positive /\ published'[ch] \in Nat /\ latest'[ch] \in Nat /\ pendingTick'[ch] \in Nat
    <3>1. /\ nextSequence'[ch] = nextSequence[ch] + m + burnt /\ published'[ch] = published[ch] + m
          /\ latest'[ch] = latest[ch] \/ (m > 0 /\ latest'[ch] = nextSequence[ch] + m - 1)
          /\ pendingTick'[ch] = pendingTick[ch] \/ (m > 0 /\ pendingTick'[ch] = nextSequence[ch] + m - 1)
      BY <1>4 DEF Stores
    <3>2. nextSequence[ch] + m + burnt \in Positive /\ published[ch] + m \in Nat
      BY <1>0 DEF Positive
    <3>3. m > 0 => nextSequence[ch] + m - 1 \in Nat
      BY <1>0
    <3> QED
      BY <1>0, <3>1, <3>2, <3>3
  <2>3. queue'[ch] \in Seq(Positive)
    <3>1. CASE is_latest_style(ch)
      BY <1>0, <1>4, <3>1 DEF Stores
    <3>2. CASE ~is_latest_style(ch)
      BY <1>4, <3>2, StoredQueue
    <3> QED
      BY <3>1, <3>2
  <2>4. watermark'[ch] \in BOOLEAN
    BY <1>4 DEF Stores
  <2> QED
    BY <1>1, <2>1, <2>2, <2>3, <2>4 DEF Typed
<1>5. ASSUME NEW r \in Readers, ReadsLatest(ch, r) PROVE Typed(ch)'
  <2> DEFINE h == Handed(ch, r, 0)
  <2>1. /\ nextSequence'[ch] = nextSequence[ch] /\ published'[ch] = published[ch] /\ overwritten'[ch] = overwritten[ch]
        /\ pendingTick'[ch] = pendingTick[ch] /\ queue'[ch] = queue[ch] /\ watermark'[ch] = watermark[ch]
        /\ queueCursor'[ch] = queueCursor[ch] /\ latest'[ch] \in {0, latest[ch]}
        /\ stale'[ch] \in Nat /\ delivered'[ch] \in Nat /\ latestCursor'[ch] \in [Readers -> Nat]
        /\ Receives(ch, r, h) /\ is_latest_style(ch)
    BY <1>5 DEF ReadsLatest, Unsent
  <2>2. h \in Seq(Positive)
    <3>1. h = <<>> \/ (h = <<latest[ch]>> /\ latest[ch] # 0)
      BY <2>1, LatestHanded
    <3> HIDE DEF h
    <3>2. <<>> \in Seq(Positive) /\ (latest[ch] # 0 => <<latest[ch]>> \in Seq(Positive))
      BY <1>0 DEF Positive
    <3> QED
      BY <3>1, <3>2, Zenon
  <2> HIDE DEF h
  <2>3. log'[ch] \in [Readers -> Seq(Nat)]
    BY <2>1, <2>2, LogAfter
  <2>4. latest'[ch] \in Nat
    BY <1>0, <2>1
  <2> QED
    BY <1>1, <2>1, <2>3, <2>4 DEF Typed
<1>6. ASSUME NEW r \in Readers, NEW max \in 0 .. 1, ReadsQueue(ch, r, max) PROVE Typed(ch)'
  <2> DEFINE h == Handed(ch, r, max)
             kept == Retained(ch, r, max)
  <2>1. /\ nextSequence'[ch] = nextSequence[ch] /\ published'[ch] = published[ch] /\ overwritten'[ch] = overwritten[ch]
        /\ pendingTick'[ch] = pendingTick[ch] /\ latest'[ch] = latest[ch] /\ latestCursor'[ch] = latestCursor[ch]
        /\ queue'[ch] = kept /\ watermark'[ch] = StillSaturated(ch, Len(kept))
        /\ stale'[ch] = stale[ch] + IF kept # queue[ch] THEN StaleIn(ch) ELSE 0
        /\ delivered'[ch] = delivered[ch] + Len(h) /\ queueCursor'[ch] \in [Readers -> Nat]
        /\ Receives(ch, r, h) /\ ~is_latest_style(ch) /\ ~BarrierClosed(ch)
    BY <1>6 DEF ReadsQueue, Unsent
  <2>2. h \in Seq(Positive) /\ Len(h) \in Nat /\ kept \in Seq(Positive)
    BY <2>1, DrainFacts DEF Numbers
  <2>3. StaleIn(ch) \in Nat
    BY FreshFacts
  <2>4. watermark'[ch] \in BOOLEAN
    BY <1>0, <2>1 DEF StillSaturated
  <2> HIDE DEF h, kept
  <2>5. stale'[ch] \in Nat /\ delivered'[ch] \in Nat
    <3>1. /\ stale'[ch] = stale[ch] + StaleIn(ch) \/ stale'[ch] = stale[ch] + 0
          /\ delivered'[ch] = delivered[ch] + Len(h)
      BY <2>1
    <3> QED
      BY <1>0, <2>2, <2>3, <3>1
  <2>6. log'[ch] \in [Readers -> Seq(Nat)]
    BY <2>1, <2>2, LogAfter
  <2> QED
    BY <1>1, <2>1, <2>2, <2>4, <2>5, <2>6 DEF Typed
<1> QED
  BY <1>2, <1>3, <1>4, <1>5, <1>6 DEF Changes

\* A function on the channels.
Mapped(f) == f = [c \in Channels |-> f[c]]

Shaped ==
    /\ Mapped(nextSequence) /\ Mapped(latest) /\ Mapped(pendingTick) /\ Mapped(queue)
    /\ Mapped(latestCursor) /\ Mapped(queueCursor) /\ Mapped(watermark)
    /\ Mapped(published) /\ Mapped(delivered) /\ Mapped(overwritten) /\ Mapped(stale) /\ Mapped(log)

LEMMA ShapedStep ==
    ASSUME TypeOK, [Next]_vars
    PROVE  Shaped'
<1>0. Shaped
  BY DEF TypeOK, Shaped, Mapped
<1>1. ASSUME NEW n, NEW skipped, StoreAll(n, skipped), UNCHANGED <<cursors, delivered, stale, log>> PROVE Shaped'
  <2>1. Mapped(latestCursor') /\ Mapped(queueCursor') /\ Mapped(delivered') /\ Mapped(stale') /\ Mapped(log')
    BY <1>0, <1>1 DEF Shaped, cursors
  <2>2. Mapped(nextSequence') /\ Mapped(latest') /\ Mapped(pendingTick') /\ Mapped(queue')
    BY <1>1 DEF StoreAll, Mapped
  <2>3. Mapped(watermark') /\ Mapped(published') /\ Mapped(overwritten')
    BY <1>1 DEF StoreAll, Mapped
  <2> QED
    BY <2>1, <2>2, <2>3 DEF Shaped
<1>2. ASSUME NEW chs, NEW r, NEW max, Read(chs, r, max) PROVE Shaped'
  <2>1. Mapped(nextSequence') /\ Mapped(pendingTick') /\ Mapped(published') /\ Mapped(overwritten')
    BY <1>0, <1>2 DEF Shaped, Read
  <2>2. Mapped(latest') /\ Mapped(queue') /\ Mapped(stale') /\ Mapped(delivered') /\ Mapped(watermark')
    BY <1>2 DEF Read, Mapped
  <2>3. Mapped(latestCursor') /\ Mapped(queueCursor') /\ Mapped(log')
    BY <1>2 DEF Read, Mapped
  <2> QED
    BY <2>1, <2>2, <2>3 DEF Shaped
<1>3. ASSUME NEW c \in Channels, Publish(c) PROVE Shaped'
  <2>1. UNCHANGED <<cursors, delivered, stale, log>> /\ \E n, skipped : StoreAll(n, skipped)
    BY <1>3 DEF Publish
  <2> QED
    BY <1>1, <2>1
<1>4. ASSUME NEW b, PublishBatch(b) PROVE Shaped'
  <2>1. UNCHANGED <<cursors, delivered, stale, log>> /\ \E n, skipped : StoreAll(n, skipped)
    BY <1>4 DEF PublishBatch
  <2> QED
    BY <1>1, <2>1
<1>5. CASE AdvanceEpoch
  <2>1. Mapped(latest') /\ Mapped(pendingTick')
    BY <1>5 DEF AdvanceEpoch, Mapped
  <2> QED
    BY <1>0, <1>5, <2>1 DEF AdvanceEpoch, Shaped, cursors, tallies
<1>6. ASSUME NEW c \in Channels, Snapshot(c) PROVE Shaped'
  <2>1. Mapped(latest') /\ Mapped(queue') /\ Mapped(stale') /\ Mapped(watermark')
    BY <1>6 DEF Snapshot, TypeOK, Mapped
  <2> QED
    BY <1>0, <1>6, <2>1 DEF Snapshot, Shaped, cursors
<1>7. ASSUME NEW c, NEW seq, Age(c, seq) PROVE Shaped'
  BY <1>0, <1>7 DEF Age, Shaped, cursors, tallies
<1>8. ASSUME UNCHANGED vars PROVE Shaped'
  BY <1>0, <1>8 DEF vars, Shaped, cursors, tallies
<1> QED
  BY <1>2, <1>3, <1>4, <1>5, <1>6, <1>7, <1>8 DEF Next, ReadLatest

\* Age, the history of evictions and the record of the latest batch.
LEMMA OthersStep ==
    ASSUME TypeOK, [Next]_vars
    PROVE  /\ expired' \in [Channels -> Nat] /\ forgotten' \subseteq Channels \X Readers
           /\ lastBatch' \in [size : Nat, stored : Nat]
           /\ BatchAllOrNothing => BatchAllOrNothing'
<1>0. /\ expired \in [Channels -> Nat] /\ forgotten \subseteq Channels \X Readers
      /\ lastBatch \in [size : Nat, stored : Nat]
  BY DEF TypeOK
<1> DEFINE Goal == /\ expired' \in [Channels -> Nat] /\ forgotten' \subseteq Channels \X Readers
                   /\ lastBatch' \in [size : Nat, stored : Nat]
                   /\ BatchAllOrNothing => BatchAllOrNothing'
<1>1. ASSUME UNCHANGED <<expired, forgotten, lastBatch>> PROVE Goal
  BY <1>0, <1>1 DEF BatchAllOrNothing
<1>2. ASSUME NEW chs, NEW r, NEW max, Read(chs, r, max) PROVE Goal
  <2>1. UNCHANGED <<expired, lastBatch>> /\ forgotten' \subseteq Channels \X Readers
    BY <1>0, <1>2 DEF Read
  <2> QED
    BY <1>0, <2>1 DEF BatchAllOrNothing
<1>3. ASSUME NEW batch \in Seq(Items), PublishBatch(batch) PROVE Goal
  <2>1. UNCHANGED <<expired, forgotten>>
    BY <1>3 DEF PublishBatch
  <2>2. lastBatch' = [size |-> Len(batch), stored |-> IF Preflight(batch) THEN StoredPrefix(batch) ELSE 0]
    BY <1>3 DEF PublishBatch
  <2>3. Len(batch) \in Nat /\ (Preflight(batch) => StoredPrefix(batch) = Len(batch))
    BY AllStored, LenProperties
  <2>4. lastBatch' = [size |-> Len(batch), stored |-> Len(batch)] \/ lastBatch' = [size |-> Len(batch), stored |-> 0]
    BY <2>2, <2>3
  <2> QED
    BY <1>0, <2>1, <2>3, <2>4 DEF BatchAllOrNothing
<1>4. ASSUME NEW a \in Items, NEW b \in Items, PublishBatch(<<a, b>>) PROVE Goal
  <2> DEFINE batch == <<a, b>>
  <2>1. batch \in Seq(Items) /\ PublishBatch(batch)
    BY <1>4
  <2> HIDE DEF batch, Goal
  <2> QED
    BY <1>3, <2>1
<1>5. ASSUME NEW c \in Channels, NEW seq \in 1 .. MaxSequence, Age(c, seq) PROVE Goal
  <2>1. UNCHANGED <<forgotten, lastBatch>> /\ expired' = [expired EXCEPT ![c] = seq]
    BY <1>5 DEF Age
  <2>2. seq \in Nat
    BY BusAssumption
  <2>3. expired' \in [Channels -> Nat]
    BY <1>0, <2>1, <2>2
  <2> QED
    BY <1>0, <2>1, <2>3 DEF BatchAllOrNothing
<1>6. ASSUME NEW c, Publish(c) \/ Snapshot(c) PROVE UNCHANGED <<expired, forgotten, lastBatch>>
  BY <1>6 DEF Publish, Snapshot
<1>7. AdvanceEpoch \/ UNCHANGED vars => UNCHANGED <<expired, forgotten, lastBatch>>
  BY DEF AdvanceEpoch, vars
<1> HIDE DEF Goal
<1>8. Goal
  BY <1>1, <1>2, <1>4, <1>5, <1>6, <1>7 DEF Next, ReadLatest
<1> QED
  BY <1>8 DEF Goal

LEMMA TypeStep ==
    ASSUME TypeOK, [Next]_vars, config' = config, \A ch \in Channels : Typed(ch)'
    PROVE  TypeOK'
<1>1. Shaped' /\ expired' \in [Channels -> Nat] /\ forgotten' \subseteq Channels \X Readers
      /\ lastBatch' \in [size : Nat, stored : Nat]
  BY ShapedStep, OthersStep
<1>2. config' \in [Channels -> Configs]
  BY DEF TypeOK
<1>3. ASSUME NEW S, NEW f, Mapped(f), \A ch \in Channels : f[ch] \in S PROVE f \in [Channels -> S]
  <2>1. [c \in Channels |-> f[c]] \in [Channels -> S]
    BY <1>3
  <2> QED
    BY <1>3, <2>1 DEF Mapped
<1>4. /\ nextSequence' \in [Channels -> Nat \ {0}] /\ latest' \in [Channels -> Nat] /\ pendingTick' \in [Channels -> Nat]
      /\ queue' \in [Channels -> Seq(Nat \ {0})]
  BY <1>1, <1>3 DEF Shaped, Typed, Positive
<1>5. latestCursor' \in [Channels -> [Readers -> Nat]] /\ queueCursor' \in [Channels -> [Readers -> Nat]]
  BY <1>1, <1>3 DEF Shaped, Typed
<1>6. /\ watermark' \in [Channels -> BOOLEAN]
      /\ published' \in [Channels -> Nat] /\ delivered' \in [Channels -> Nat]
  BY <1>1, <1>3 DEF Shaped, Typed
<1>7. /\ overwritten' \in [Channels -> Nat] /\ stale' \in [Channels -> Nat]
      /\ log' \in [Channels -> [Readers -> Seq(Nat)]]
  BY <1>1, <1>3 DEF Shaped, Typed
<1> QED
  BY <1>1, <1>2, <1>4, <1>5, <1>6, <1>7 DEF TypeOK

-----------------------------------------------------------------------------
(* The theorems.                                                           *)

LEMMA BusInit == Init => BusInv
<1> SUFFICES ASSUME Init PROVE BusInv
  OBVIOUS
<1>1. TypeOK
  BY DEF Init, TypeOK
<1>2. ASSUME NEW ch \in Channels PROVE Numbers(ch) /\ Books(ch) /\ Delivery(ch)
  <2>1. /\ nextSequence[ch] = 1 /\ latest[ch] = 0 /\ pendingTick[ch] = 0 /\ queue[ch] = <<>>
        /\ watermark[ch] = FALSE /\ published[ch] = 0 /\ delivered[ch] = 0 /\ overwritten[ch] = 0 /\ stale[ch] = 0
        /\ \A r \in Readers : queueCursor[ch][r] = 0 /\ log[ch][r] = <<>>
    BY <1>2 DEF Init
  <2>2. ItemsOf(<<>>) = {} /\ Ascending(<<>>) /\ Len(<<>>) = 0
    BY DEF ItemsOf, Ascending
  <2>3. config[ch].capacity \in Nat /\ config[ch].capacity # 0
    BY <1>1, <1>2, TypedChannel DEF Typed, Positive
  <2>4. Numbers(ch)
    BY <2>1, <2>2 DEF Numbers
  <2>5. Books(ch)
    BY <2>1, <2>2, <2>3 DEF Books
  <2>6. Private(ch)
    BY <2>1, <2>2 DEF Private
  <2>7. \A r \in Readers : Told(ch, r)
    BY <2>1, <2>2 DEF Told, LatestTold, QueueTold
  <2> QED
    BY <2>4, <2>5, <2>6, <2>7 DEF Delivery
<1> QED
  BY <1>1, <1>2 DEF BusInv

LEMMA BusStep == BusInv /\ [Next]_vars => BusInv'
<1> SUFFICES ASSUME BusInv, [Next]_vars PROVE BusInv'
  OBVIOUS
<1>1. TypeOK /\ BooksOpen /\ \A ch \in Channels : Typed(ch) /\ Numbers(ch) /\ Books(ch) /\ Delivery(ch)
  BY TypedChannel DEF BusInv, BooksOpen
<1>2. config' = config /\ forgotten \subseteq forgotten' /\ \A ch \in Channels : Changes(ch)
  BY <1>1, StepKinds
<1>3. \A ch \in Channels : expired'[ch] \in Nat
  BY <1>1, OthersStep
<1>4. ASSUME NEW ch \in Channels PROVE Typed(ch)' /\ Numbers(ch)' /\ Books(ch)' /\ Delivery(ch)'
  BY <1>1, <1>2, <1>3, TypedStep, NumbersStep, BooksStep, DeliveryStep
<1>5. TypeOK'
  BY <1>1, <1>2, <1>4, TypeStep
<1> QED
  BY <1>4, <1>5 DEF BusInv

\* Channels keep their books, whatever is published, read, aged and evicted.
LEMMA BusInvHolds == Spec => []BusInv
BY BusInit, BusStep, PTL DEF Spec

LEMMA AscendingIncreases ==
    ASSUME NEW T, NEW s \in Seq(T), Ascending(s)
    PROVE  Increasing(s)
<1>1. DOMAIN s = 1 .. Len(s) /\ Len(s) \in Nat
  BY LenProperties
<1>2. \A i \in 1 .. Len(s) - 1 : i \in 1 .. Len(s) /\ i + 1 \in 1 .. Len(s) /\ i < i + 1
  BY <1>1
<1> QED
  BY <1>1, <1>2 DEF Increasing, Ascending

\* Every message a queue accepted is queued, delivered, overwritten or stale; rejecting
\* policies overwrite nothing, the capacity holds, and the watermark signal is exact.
THEOREM QueuesAreConserved == Spec => []QueueConservation
<1>1. BusInv => QueueConservation
  <2> SUFFICES ASSUME BusInv PROVE QueueConservation
    OBVIOUS
  <2>1. WatermarkMatchesDepth
    BY DEF BusInv, Books, WatermarkMatchesDepth
  <2>2. ASSUME NEW ch \in Channels PROVE Increasing(queue[ch])
    <3>1. queue[ch] \in Seq(Nat \ {0}) /\ Ascending(queue[ch])
      BY <2>2 DEF BusInv, TypeOK, Numbers
    <3> QED
      BY <3>1, AscendingIncreases
  <2> QED
    BY <2>1, <2>2 DEF BusInv, Books, QueueConservation
<1> QED
  BY <1>1, BusInvHolds, PTL

\* A reader receives messages in order and none twice, as long as the cap on tracked
\* readers evicted no cursor of it that still mattered.
THEOREM DeliveryIsOnceInOrder == Spec => []DeliveredOnceInOrder
<1>1. BusInv => DeliveredOnceInOrder
  <2> SUFFICES ASSUME BusInv, NEW ch \in Channels, NEW r \in Readers, <<ch, r>> \notin forgotten
               PROVE  Increasing(log[ch][r])
    BY DEF DeliveredOnceInOrder
  <2>1. log[ch][r] \in Seq(Nat) /\ Ascending(log[ch][r])
    BY DEF BusInv, TypeOK, Delivery, Told
  <2> QED
    BY <2>1, AscendingIncreases
<1> QED
  BY <1>1, BusInvHolds, PTL

\* A message of a channel with one reader goes to one reader only, and a cursor of a shared
\* queue passes nothing its reader has not received.
THEOREM QueuesAreShared == Spec => []QueueSharing
<1>1. BusInv => QueueSharing
  <2> SUFFICES ASSUME BusInv, NEW ch \in Channels, ~is_latest_style(ch)
               PROVE  IF config[ch].multi
                      THEN \A r \in Readers : <<ch, r>> \notin forgotten =>
                              {seq \in Elements(queue[ch]) : seq <= queueCursor[ch][r]} \subseteq Elements(log[ch][r])
                      ELSE \A r, q \in Readers : r # q => Elements(log[ch][r]) \cap Elements(log[ch][q]) = {}
    BY DEF QueueSharing
  <2>1. \A s : Elements(s) = ItemsOf(s)
    BY DEF Elements, ItemsOf
  <2>2. CASE config[ch].multi
    BY <2>1, <2>2 DEF BusInv, Delivery, Told, QueueTold
  <2>3. CASE ~config[ch].multi
    BY <2>1, <2>3 DEF BusInv, Delivery, Private
  <2> QED
    BY <2>2, <2>3
<1> QED
  BY <1>1, BusInvHolds, PTL

\* publish_batch stores all of a batch or nothing.
THEOREM BatchesAreWhole == Spec => []BatchAllOrNothing
<1>1. Init => BatchAllOrNothing
  BY DEF Init, BatchAllOrNothing
<1>2. BusInv /\ BatchAllOrNothing /\ [Next]_vars => BatchAllOrNothing'
  BY OthersStep DEF BusInv
<1> QED
  BY <1>1, <1>2, BusInvHolds, PTL DEF Spec
=============================================================================
