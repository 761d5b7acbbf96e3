----------------------- MODULE PublicationRouterProofs -----------------------
(***************************************************************************)
(* Proofs about PublicationRouter, for every graph and every bound.        *)
(*                                                                         *)
(* The invariant says where a publication may be at each moment of the     *)
(* epoch: its kind, its epoch and its loop activation decide the stages it *)
(* passes through, and on one channel what is further down the pipe is     *)
(* older.                                                                  *)
(***************************************************************************)
EXTENDS PublicationRouter, CollectionLemmas

-----------------------------------------------------------------------------
(* The invariant.                                                          *)

\* The publications in the stages, in hand, and past the bus.
Waiting == ItemsOf(deferredReady) \cup ItemsOf(deferredNext) \cup ItemsOf(compositeStage)
Past == UNION {CommittedPubs(ch) : ch \in Channels}

\* What is where during the epoch.
StagesPlaced ==
    /\ \A p \in ItemsOf(immediateStage) : ~Deferred(p.ch) /\ p.region = 0 /\ p.epoch <= PublishEpoch
    /\ \A p \in ItemsOf(deferredNext) : Deferred(p.ch) /\ p.epoch = PublishEpoch
    /\ \A p \in ItemsOf(deferredReady) : Deferred(p.ch) /\ p.epoch + 1 = PublishEpoch
    /\ \A p \in ItemsOf(compositeStage) : p.ch \in LoopExternal /\ p.epoch = epoch /\ p.region = regions
    /\ deferredReady # <<>> => pc \in {"boundary", "begin_swap"}
    /\ compositeStage # <<>> => regionActive
    /\ regionActive => pc \in {"run", "commit", "failed"} /\ regions > 0

HandPlaced ==
    /\ pc \in {"boundary", "begin_swap", "run"} => inHand = <<>>
    /\ pc \in {"begin_commit", "begin_count"} =>
          \A p \in ItemsOf(inHand) : Deferred(p.ch) /\ p.epoch + 1 = epoch
    /\ pc = "commit" => \A p \in ItemsOf(inHand) : ~Deferred(p.ch) /\ p.region = 0 /\ p.epoch <= epoch
    /\ pc = "region_commit" =>
          \A p \in ItemsOf(inHand) : /\ ~Deferred(p.ch) /\ p.ch \in LoopExternal
                                     /\ p.region = regions /\ p.epoch = epoch
    /\ lost # {} => pc = "failed"

\* When a committed publication was made.
Dated ==
    \A ch \in Channels : \A i \in DOMAIN committed[ch] :
        LET c == committed[ch][i]
        IN  /\ c.pub.ch = ch /\ c.at <= epoch /\ c.pub.epoch <= c.at
            /\ Deferred(ch) => c.at = c.pub.epoch + 1

\* Order.  Only the outputs of a loop on immediate edges may overtake.
InLine(ch) == Deferred(ch) \/ ch \notin LoopExternal
InOrder(s) == \A i, j \in DOMAIN s : i < j /\ s[i].ch = s[j].ch => s[i].id < s[j].id
Before(A, B) == \A p \in A, q \in B : p.ch = q.ch /\ InLine(p.ch) => p.id < q.id
Early(A) == \A p \in A : p.id <= publishes

Lines ==
    /\ InOrder(immediateStage) /\ InOrder(deferredNext) /\ InOrder(deferredReady)
    /\ InOrder(compositeStage) /\ InOrder(inHand)
    /\ Early(Past) /\ Early(ItemsOf(inHand)) /\ Early(ItemsOf(immediateStage)) /\ Early(Waiting)
    /\ Before(ItemsOf(deferredReady), ItemsOf(deferredNext))
    /\ Before(ItemsOf(deferredReady), ItemsOf(compositeStage))
    /\ Before(ItemsOf(deferredNext), ItemsOf(compositeStage))

Pipe ==
    pc # "failed" =>
        /\ \A ch \in Channels : InLine(ch) =>
              \A i, j \in DOMAIN committed[ch] : i < j => committed[ch][i].pub.id < committed[ch][j].pub.id
        /\ Before(Past, ItemsOf(InHand)) /\ Before(Past, ItemsOf(immediateStage)) /\ Before(Past, Waiting)
        /\ Before(ItemsOf(InHand), ItemsOf(immediateStage)) /\ Before(ItemsOf(InHand), Waiting)

\* Publications that have left the loop, if they were ever in it.
Gone == Past \cup ItemsOf(inHand) \cup ItemsOf(deferredReady) \cup ItemsOf(deferredNext) \cup lost

Activations ==
    /\ \A p \in Gone : p.region <= regions /\ (regionActive => p.region < regions)
    /\ \A p \in discarded : p.region \in 1 .. regions /\ (regionActive => p.region < regions)
    /\ \A p \in discarded, q \in Gone : p.region # q.region
    /\ \A p \in Past, q \in lost : p.region = q.region /\ p.region # 0 => Deferred(p.ch) \/ Deferred(q.ch)
    /\ pc = "region_commit" => \A p \in Past : Deferred(p.ch) \/ p.region # regions

\* The balance of the router's counters.
InTransit == IF pc = "failed" THEN 0 ELSE Len(InHand)
Counted ==
    /\ IsFiniteSet(lost)
    /\ stagedCount = committedCount + evictedCount + discardedCount + Cardinality(lost)
                        + InTransit + Len(immediateStage) + Len(PendingDeferred)

\* The bus and the history of the router number the messages of a channel alike.
Numbers(ch) ==
    LET n == Len(committed[ch])
    IN  /\ nextSequence[ch] = n + 1
        /\ latest[ch] \in 0 .. n /\ pendingTick[ch] \in 0 .. n
        /\ queue[ch] \in Seq(Nat) /\ ItemsOf(queue[ch]) \subseteq 1 .. n
        /\ log[ch] \in [{Reader} -> Seq(Nat)]

\* A previous_tick channel shows what was committed before the epoch began.
HeldOver(ch) ==
    config[ch].mode = "previous_tick" /\ latest[ch] # 0 => committed[ch][latest[ch]].pub.epoch < PublishEpoch

Numbered ==
    /\ config \in EdgeConfigs
    /\ \A ch \in Channels : Numbers(ch) /\ HeldOver(ch)

RouterInv ==
    /\ TypeOK /\ StagesPlaced /\ HandPlaced /\ Dated /\ Lines /\ Pipe /\ Activations
    /\ AsyncAdmissionBound /\ Counted /\ BatchAllOrNothing /\ Numbered

-----------------------------------------------------------------------------
(* The filters of the router.                                              *)

LEMMA RouterFacts ==
    /\ EdgeKind \in [Channels -> EdgeKinds] /\ MaxInflight \in [Channels -> Nat]
    /\ \A s \in Sources : SourceEdges[s] \in Seq(Channels) /\ NoRepeats(SourceEdges[s])
BY RouterAssumption DEF NoRepeats

LEMMA OrderKept ==
    ASSUME NEW s \in Seq(Publication), NEW places \in SUBSET DOMAIN s
    PROVE  InOrder(s) => InOrder(EntriesAt(s, places))
<1> SUFFICES ASSUME InOrder(s), NEW i \in DOMAIN EntriesAt(s, places), NEW j \in DOMAIN EntriesAt(s, places), i < j,
                    EntriesAt(s, places)[i].ch = EntriesAt(s, places)[j].ch
             PROVE  EntriesAt(s, places)[i].id < EntriesAt(s, places)[j].id
  BY DEF InOrder
<1>1. PICK k \in places, l \in places :
        k < l /\ EntriesAt(s, places)[i] = s[k] /\ EntriesAt(s, places)[j] = s[l]
  BY EntriesPlaces
<1> QED
  BY <1>1 DEF InOrder

LEMMA OrderConcat ==
    ASSUME NEW s \in Seq(Publication), NEW t \in Seq(Publication), InOrder(s), InOrder(t),
           \A p \in ItemsOf(s), q \in ItemsOf(t) : p.ch = q.ch => p.id < q.id
    PROVE  InOrder(s \o t)
<1> SUFFICES ASSUME NEW i \in DOMAIN (s \o t), NEW j \in DOMAIN (s \o t), i < j,
                    (s \o t)[i].ch = (s \o t)[j].ch
             PROVE  (s \o t)[i].id < (s \o t)[j].id
  BY DEF InOrder
<1> DEFINE x == (s \o t)[i]
           y == (s \o t)[j]
<1>1. x.ch = y.ch
  OBVIOUS
<1>2. \/ i \in DOMAIN s /\ j \in DOMAIN s /\ x = s[i] /\ y = s[j]
      \/ x \in ItemsOf(s) /\ y \in ItemsOf(t)
      \/ \E k, l \in DOMAIN t : k < l /\ x = t[k] /\ y = t[l]
  BY ConcatPlaces
<1>3. x.id < y.id
  <2> HIDE DEF x, y
  <2> QED
    BY <1>1, <1>2 DEF InOrder
<1> QED
  BY <1>3

LEMMA OrderNoRepeats ==
    ASSUME NEW s \in Seq(Publication), InOrder(s)
    PROVE  NoRepeats(s)
<1>1. \A i \in DOMAIN s : i \in Nat /\ s[i] \in Publication
  BY LenProperties, ElementOfSeq
<1> SUFFICES ASSUME NEW i \in DOMAIN s, NEW j \in DOMAIN s, i # j PROVE s[i] # s[j]
  BY DEF NoRepeats
<1>2. i < j \/ j < i
  BY <1>1
<1>3. s[i].id \in Nat /\ s[j].id \in Nat
  BY <1>1 DEF Publication
<1>4. s[i].ch = s[j].ch => s[i].id # s[j].id
  BY <1>2, <1>3 DEF InOrder
<1> QED
  BY <1>4

LEMMA SmallOrders ==
    /\ InOrder(<<>>) /\ ItemsOf(<<>>) = {} /\ <<>> \in Seq(Publication) /\ Len(<<>>) = 0
    /\ \A V : Tally(<<>>, V) = 0
<1>1. ItemsOf(<<>>) = {} /\ <<>> \in Seq(Publication) /\ Len(<<>>) = 0
  BY DEF ItemsOf
<1>2. InOrder(<<>>)
  BY DEF InOrder
<1>3. ASSUME NEW V PROVE Tally(<<>>, V) = 0
  BY <1>1, TallyFacts
<1> QED
  BY <1>1, <1>2, <1>3

\* Filtering a sequence of publications by a set of them.
Those(s, V) == EntriesAt(s, {i \in DOMAIN s : s[i] \in V})

LEMMA ThoseFacts ==
    ASSUME NEW s \in Seq(Publication), NEW V, NEW W
    PROVE  /\ Those(s, V) \in Seq(Publication) /\ ItemsOf(Those(s, V)) = ItemsOf(s) \cap V
           /\ Len(Those(s, V)) = Tally(s, V)
           /\ InOrder(s) => InOrder(Those(s, V))
           /\ Tally(Those(s, V), W) = Tally(s, V \cap W)
           /\ V \cap ItemsOf(s) = W \cap ItemsOf(s) => Those(s, V) = Those(s, W)
           /\ ItemsOf(s) \subseteq V => Those(s, V) = s
<1> DEFINE places == {i \in DOMAIN s : s[i] \in V}
           t == EntriesAt(s, places)
<1>1. places \in SUBSET DOMAIN s
  OBVIOUS
<1>2. Those(s, V) = t
  BY DEF Those
<1>3. {s[i] : i \in places} = ItemsOf(s) \cap V
  BY DEF ItemsOf
<1>4. {i \in places : s[i] \in W} = {i \in DOMAIN s : s[i] \in V \cap W}
  OBVIOUS
<1>5. Cardinality(places) = Tally(s, V)
  BY DEF Tally
<1>6. ASSUME V \cap ItemsOf(s) = W \cap ItemsOf(s) PROVE Those(s, V) = Those(s, W)
  <2>1. \A i \in DOMAIN s : s[i] \in V <=> s[i] \in W
    BY <1>6 DEF ItemsOf
  <2>2. {i \in DOMAIN s : s[i] \in V} = {i \in DOMAIN s : s[i] \in W}
    BY <2>1
  <2> QED
    BY <2>2 DEF Those
<1>10. ASSUME ItemsOf(s) \subseteq V PROVE places = DOMAIN s
  BY <1>10 DEF ItemsOf
<1> HIDE DEF places
<1>7. /\ t \in Seq(Publication) /\ Len(t) = Cardinality(places) /\ ItemsOf(t) = {s[i] : i \in places}
      /\ places = DOMAIN s => t = s
  BY <1>1, EntriesFacts
<1>8. InOrder(s) => InOrder(t)
  BY <1>1, OrderKept
<1>9. Tally(t, W) = Cardinality({i \in places : s[i] \in W})
  BY <1>1, TallyEntries
<1>11. Tally(t, W) = Tally(s, V \cap W)
  BY <1>4, <1>9 DEF Tally
<1> HIDE DEF t
<1>12. ItemsOf(Those(s, V)) = ItemsOf(s) \cap V
  BY <1>2, <1>3, <1>7
<1>13. Those(s, V) \in Seq(Publication) /\ Len(Those(s, V)) = Tally(s, V) /\ Tally(Those(s, V), W) = Tally(s, V \cap W)
  BY <1>2, <1>5, <1>7, <1>11
<1> QED
  BY <1>2, <1>6, <1>7, <1>8, <1>10, <1>12, <1>13

\* The filters by name, as sets of publications.
OnEdge(ch) == {p \in Publication : p.ch = ch}
Asyncs == {p \in Publication : EdgeKind[p.ch] = "async"}
Immediates == {p \in Publication : EdgeKind[p.ch] = "immediate"}
Deferreds == {p \in Publication : Deferred(p.ch)}
Held == {p \in Publication : Composite(p.ch)}

LEMMA Filters ==
    ASSUME NEW s \in Seq(Publication)
    PROVE  /\ \A ch : OnChannel(s, ch) = Those(s, OnEdge(ch))
           /\ AsyncOf(s) = Those(s, Asyncs)
           /\ ImmediateOf(s) = Those(s, Immediates) /\ DeferredOf(s) = Those(s, Deferreds)
           /\ HeldBack(s) = Those(s, Held) /\ Passing(s) = Those(s, Publication \ Held)
           /\ \A victims : Keep(s, victims) = Those(s, Publication \ victims)
<1>1. \A i \in DOMAIN s : s[i] \in Publication
  BY LenProperties, ElementOfSeq
<1>2. ASSUME NEW ch PROVE OnChannel(s, ch) = Those(s, OnEdge(ch))
  <2>1. {i \in DOMAIN s : s[i].ch = ch} = {i \in DOMAIN s : s[i] \in OnEdge(ch)}
    BY <1>1 DEF OnEdge
  <2> QED
    BY <2>1 DEF OnChannel, Those
<1>3. AsyncOf(s) = Those(s, Asyncs)
  <2>1. {i \in DOMAIN s : IsAsync(s[i])} = {i \in DOMAIN s : s[i] \in Asyncs}
    BY <1>1 DEF Asyncs, IsAsync
  <2> QED
    BY <2>1 DEF AsyncOf, Those
<1>4. ImmediateOf(s) = Those(s, Immediates)
  <2>1. {i \in DOMAIN s : EdgeKind[s[i].ch] = "immediate"} = {i \in DOMAIN s : s[i] \in Immediates}
    BY <1>1 DEF Immediates
  <2> QED
    BY <2>1 DEF ImmediateOf, Those
<1>5. DeferredOf(s) = Those(s, Deferreds)
  <2>1. {i \in DOMAIN s : EdgeKind[s[i].ch] # "immediate"} = {i \in DOMAIN s : s[i] \in Deferreds}
    BY <1>1 DEF Deferreds, Deferred
  <2> QED
    BY <2>1 DEF DeferredOf, Those
<1>6. HeldBack(s) = Those(s, Held)
  <2>1. {i \in DOMAIN s : Composite(s[i].ch)} = {i \in DOMAIN s : s[i] \in Held}
    BY <1>1 DEF Held
  <2> QED
    BY <2>1 DEF HeldBack, Those
<1>7. Passing(s) = Those(s, Publication \ Held)
  <2>1. {i \in DOMAIN s : ~Composite(s[i].ch)} = {i \in DOMAIN s : s[i] \in Publication \ Held}
    BY <1>1 DEF Held
  <2> QED
    BY <2>1 DEF Passing, Those
<1>8. ASSUME NEW victims PROVE Keep(s, victims) = Those(s, Publication \ victims)
  <2>1. {i \in DOMAIN s : s[i] \notin victims} = {i \in DOMAIN s : s[i] \in Publication \ victims}
    BY <1>1
  <2> QED
    BY <2>1 DEF Keep, Those
<1> QED
  BY <1>2, <1>3, <1>4, <1>5, <1>6, <1>7, <1>8

-----------------------------------------------------------------------------
(* A call of publish.                                                      *)

Served(s) == ServedEdges(SourceEdges[s])
New(s) == NewPublications(Served(s))
NewImmediate(s) == ImmediateOf(Passing(New(s)))
NewDeferred(s) == DeferredOf(Passing(New(s)))
NewHeld(s) == HeldBack(New(s))
Evictions(s) == Victims(Served(s))

LEMMA ServedFacts ==
    ASSUME NEW s \in Sources
    PROVE  /\ Served(s) \in Seq(Channels) /\ NoRepeats(Served(s))
           /\ Len(Served(s)) \in 0 .. Len(SourceEdges[s]) /\ Len(SourceEdges[s]) \in Nat
           /\ \A ch \in ItemsOf(Served(s)) : ch \in Channels /\ ~RefusesAsync(ch)
<1> DEFINE edges == SourceEdges[s]
           places == {i \in DOMAIN edges : \A j \in 1 .. i : ~RefusesAsync(edges[j])}
           t == EntriesAt(edges, places)
<1>1. edges \in Seq(Channels) /\ NoRepeats(edges) /\ places \in SUBSET DOMAIN edges
  BY RouterFacts
<1>2. Served(s) = t
  BY DEF Served, ServedEdges
<1>3. \A i \in places : i \in Nat \ {0} /\ ~RefusesAsync(edges[i])
  <2>1. DOMAIN edges = 1 .. Len(edges) /\ Len(edges) \in Nat
    BY <1>1, LenProperties
  <2>2. \A i \in DOMAIN edges : i \in 1 .. i /\ i \in Nat \ {0}
    BY <2>1
  <2> QED
    BY <2>2
<1> HIDE DEF places, edges
<1>4. t \in Seq(Channels) /\ Len(t) \in 0 .. Len(edges) /\ ItemsOf(t) = {edges[i] : i \in places}
  BY <1>1, EntriesFacts
<1>5. NoRepeats(t)
  <2> SUFFICES ASSUME NEW i \in DOMAIN t, NEW j \in DOMAIN t, i # j PROVE t[i] # t[j]
    BY DEF NoRepeats
  <2>1. ASSUME NEW k \in DOMAIN t, NEW l \in DOMAIN t, k < l PROVE t[k] # t[l]
    <3>1. PICK m \in places, n \in places : m < n /\ t[k] = edges[m] /\ t[l] = edges[n]
      BY <1>1, <2>1, EntriesPlaces
    <3>2. m \in DOMAIN edges /\ n \in DOMAIN edges /\ m # n
      BY <1>1, <1>3, <3>1
    <3> QED
      BY <1>1, <3>1, <3>2 DEF NoRepeats
  <2>2. i \in Nat /\ j \in Nat
    BY <1>4, LenProperties
  <2>3. i < j \/ j < i
    BY <2>2
  <2> QED
    BY <2>1, <2>3
<1>6. \A ch \in ItemsOf(t) : ch \in Channels /\ ~RefusesAsync(ch)
  <2>1. ItemsOf(t) \subseteq Channels
    BY <1>4, ItemsType
  <2> QED
    BY <1>3, <1>4, <2>1
<1>7. Len(edges) \in Nat
  BY <1>1, LenProperties
<1> HIDE DEF t
<1> QED
  BY <1>2, <1>4, <1>5, <1>6, <1>7 DEF edges

LEMMA EpochType ==
    ASSUME TypeOK
    PROVE  PublishEpoch \in Nat /\ epoch \in Nat /\ regions \in Nat /\ publishes \in Nat
BY DEF TypeOK, PublishEpoch

\* What is new: at most one publication of an edge.
LEMMA NewFacts ==
    ASSUME TypeOK, NEW s \in Sources
    PROVE  /\ New(s) \in Seq(Publication) /\ Len(New(s)) = Len(Served(s))
           /\ \A p \in ItemsOf(New(s)) :
                 /\ p.ch \in ItemsOf(Served(s)) /\ p.id = publishes + 1 /\ p.epoch = PublishEpoch
                 /\ p.region = IF Composite(p.ch) THEN regions ELSE 0
           /\ InOrder(New(s))
           /\ \A ch : Tally(New(s), OnEdge(ch)) \in {0, 1}
           /\ \A ch : ch \notin ItemsOf(Served(s)) => Tally(New(s), OnEdge(ch)) = 0
<1> DEFINE served == Served(s)
           new == New(s)
           item(i) == [ch |-> served[i], id |-> publishes + 1, epoch |-> PublishEpoch,
                       region |-> IF Composite(served[i]) THEN regions ELSE 0]
<1>1. /\ served \in Seq(Channels) /\ NoRepeats(served) /\ DOMAIN served = 1 .. Len(served)
      /\ Len(served) \in Nat /\ \A i \in DOMAIN served : served[i] \in Channels
  BY ServedFacts, LenProperties, ElementOfSeq
<1>2. new = [i \in 1 .. Len(served) |-> item(i)]
  BY <1>1 DEF New, NewPublications
<1>3. \A i \in 1 .. Len(served) : item(i) \in Publication
  <2> SUFFICES ASSUME NEW i \in 1 .. Len(served) PROVE item(i) \in Publication
    OBVIOUS
  <2>1. served[i] \in Channels
    BY <1>1
  <2>2. publishes + 1 \in Nat /\ PublishEpoch \in Nat
    BY EpochType
  <2>3. (IF Composite(served[i]) THEN regions ELSE 0) \in Nat
    BY EpochType
  <2> QED
    BY <2>1, <2>2, <2>3 DEF Publication
<1>4. new \in Seq(Publication) /\ Len(new) = Len(served) /\ DOMAIN new = 1 .. Len(served)
  <2> HIDE DEF item, new
  <2> QED
    BY <1>1, <1>2, <1>3
<1>5. \A i \in DOMAIN new :
        /\ new[i].ch = served[i] /\ served[i] \in ItemsOf(served)
        /\ new[i].id = publishes + 1 /\ new[i].epoch = PublishEpoch
        /\ new[i].region = IF Composite(new[i].ch) THEN regions ELSE 0
  <2>1. \A i \in DOMAIN new : new[i] = item(i)
    BY <1>2, <1>4
  <2>2. \A i \in DOMAIN new : served[i] \in ItemsOf(served)
    BY <1>1, <1>4 DEF ItemsOf
  <2> HIDE DEF served, new
  <2> QED
    BY <2>1, <2>2
<1> HIDE DEF served, new, item
<1>6. \A p \in ItemsOf(new) :
        /\ p.ch \in ItemsOf(served) /\ p.id = publishes + 1 /\ p.epoch = PublishEpoch
        /\ p.region = IF Composite(p.ch) THEN regions ELSE 0
  BY <1>5 DEF ItemsOf
<1>7. \A i, j \in DOMAIN new : new[i].ch = new[j].ch => i = j
  BY <1>1, <1>4, <1>5 DEF NoRepeats
<1>8. InOrder(new)
  BY <1>4, <1>7 DEF InOrder
<1>9. ASSUME NEW ch
      PROVE  Tally(new, OnEdge(ch)) \in {0, 1} /\ (ch \notin ItemsOf(served) => Tally(new, OnEdge(ch)) = 0)
  <2> DEFINE P == {i \in DOMAIN new : new[i] \in OnEdge(ch)}
  <2>1. \A i \in P : new[i].ch = ch /\ ch \in ItemsOf(served) /\ i \in DOMAIN new
    BY <1>5 DEF OnEdge
  <2>2. Tally(new, OnEdge(ch)) = Cardinality(P)
    BY DEF Tally
  <2> HIDE DEF P
  <2>3. CASE P = {}
    BY <2>2, <2>3, FS_EmptySet
  <2>4. CASE P # {}
    <3>1. PICK i : i \in P
      BY <2>4
    <3>2. P = {i}
      BY <1>7, <2>1, <3>1
    <3>3. Cardinality(P) = 1
      BY <3>2, FS_Singleton
    <3> QED
      BY <2>1, <2>2, <3>1, <3>3
  <2> QED
    BY <2>3, <2>4
<1>10. \A ch : Tally(new, OnEdge(ch)) \in {0, 1} /\ (ch \notin ItemsOf(served) => Tally(new, OnEdge(ch)) = 0)
  BY <1>9
<1> QED
  BY <1>4, <1>6, <1>8, <1>10 DEF served, new

\* The three stages the new publications go to.
LEMMA NewSplit ==
    ASSUME TypeOK, NEW s \in Sources
    PROVE  /\ NewImmediate(s) \in Seq(Publication) /\ NewDeferred(s) \in Seq(Publication)
           /\ NewHeld(s) \in Seq(Publication)
           /\ ItemsOf(NewImmediate(s)) = (ItemsOf(New(s)) \ Held) \cap Immediates
           /\ ItemsOf(NewDeferred(s)) = (ItemsOf(New(s)) \ Held) \cap Deferreds
           /\ ItemsOf(NewHeld(s)) = ItemsOf(New(s)) \cap Held
           /\ InOrder(NewImmediate(s)) /\ InOrder(NewDeferred(s)) /\ InOrder(NewHeld(s))
           /\ Len(NewImmediate(s)) + Len(NewDeferred(s)) + Len(NewHeld(s)) = Len(Served(s))
           /\ \A ch : Tally(NewDeferred(s), OnEdge(ch)) + Tally(NewHeld(s), OnEdge(ch)) <= Tally(New(s), OnEdge(ch))
<1> DEFINE new == New(s)
           through == Those(new, Publication \ Held)
<1>1. /\ new \in Seq(Publication) /\ ItemsOf(new) \subseteq Publication /\ InOrder(new)
      /\ Len(new) = Len(Served(s))
  BY NewFacts, ItemsType
<1>2. NewHeld(s) = Those(new, Held) /\ Passing(new) = through
  BY <1>1, Filters DEF NewHeld
<1> HIDE DEF new
<1>3. /\ through \in Seq(Publication) /\ ItemsOf(through) = ItemsOf(new) \cap (Publication \ Held) /\ InOrder(through)
      /\ Len(through) = Tally(new, Publication \ Held)
  BY <1>1, ThoseFacts
<1>4. NewImmediate(s) = Those(through, Immediates) /\ NewDeferred(s) = Those(through, Deferreds)
  <2>1. NewImmediate(s) = ImmediateOf(through) /\ NewDeferred(s) = DeferredOf(through)
    BY <1>2 DEF NewImmediate, NewDeferred, new
  <2> HIDE DEF through
  <2> QED
    BY <1>3, <2>1, Filters
<1>5. /\ Those(new, Held) \in Seq(Publication) /\ ItemsOf(Those(new, Held)) = ItemsOf(new) \cap Held
      /\ InOrder(Those(new, Held)) /\ Len(Those(new, Held)) = Tally(new, Held)
  BY <1>1, ThoseFacts
<1> HIDE DEF through
<1>6. /\ NewImmediate(s) \in Seq(Publication) /\ ItemsOf(NewImmediate(s)) = ItemsOf(through) \cap Immediates
      /\ InOrder(NewImmediate(s)) /\ Len(NewImmediate(s)) = Tally(through, Immediates)
  BY <1>3, <1>4, ThoseFacts
<1>7. /\ NewDeferred(s) \in Seq(Publication) /\ ItemsOf(NewDeferred(s)) = ItemsOf(through) \cap Deferreds
      /\ InOrder(NewDeferred(s)) /\ Len(NewDeferred(s)) = Tally(through, Deferreds)
  <2>1. /\ Those(through, Deferreds) \in Seq(Publication)
        /\ ItemsOf(Those(through, Deferreds)) = ItemsOf(through) \cap Deferreds
        /\ InOrder(Those(through, Deferreds)) /\ Len(Those(through, Deferreds)) = Tally(through, Deferreds)
    BY <1>3, ThoseFacts
  <2> QED
    BY <1>4, <2>1
<1>8. Tally(through, Immediates) + Tally(through, Deferreds) = Len(through)
  <2>1. Publication = Immediates \cup Deferreds /\ Immediates \cap Deferreds = {}
    BY DEF Immediates, Deferreds, Deferred
  <2>2. Tally(through, Publication) = Tally(through, Immediates) + Tally(through, Deferreds)
    BY <1>3, <2>1, TallySplit
  <2>3. Tally(through, Publication) = Len(through)
    BY <1>3, TallyFacts, ItemsType
  <2> QED
    BY <2>2, <2>3
<1>9. Tally(new, Held) + Tally(new, Publication \ Held) = Len(new)
  <2>1. Publication = Held \cup (Publication \ Held) /\ Held \cap (Publication \ Held) = {}
    BY DEF Held
  <2>2. Tally(new, Publication) = Tally(new, Held) + Tally(new, Publication \ Held)
    BY <1>1, <2>1, TallySplit
  <2>3. Tally(new, Publication) = Len(new)
    BY <1>1, TallyFacts
  <2> QED
    BY <2>2, <2>3
<1>10. ASSUME NEW ch
       PROVE  Tally(NewDeferred(s), OnEdge(ch)) + Tally(NewHeld(s), OnEdge(ch)) <= Tally(new, OnEdge(ch))
  <2> DEFINE V == OnEdge(ch)
  <2> HIDE DEF V
  <2>1. Tally(NewDeferred(s), V) = Tally(through, Deferreds \cap V)
    BY <1>3, <1>4, ThoseFacts
  <2>2. Tally(through, Deferreds \cap V) <= Tally(through, V)
    <3> DEFINE A == Deferreds \cap V
               B == V \ Deferreds
    <3>1. V = A \cup B /\ A \cap B = {}
      OBVIOUS
    <3> HIDE DEF A, B
    <3>2. /\ Tally(through, V) = Tally(through, A) + Tally(through, B)
          /\ Tally(through, A) \in Nat /\ Tally(through, B) \in Nat
      BY <1>3, <3>1, TallySplit
    <3>3. Tally(through, A) <= Tally(through, V)
      BY <3>2
    <3> QED
      BY <3>3 DEF A
  <2>3. Tally(through, V) = Tally(new, (Publication \ Held) \cap V)
    BY <1>1, ThoseFacts DEF through
  <2>4. Tally(NewHeld(s), V) = Tally(new, Held \cap V)
    BY <1>1, <1>2, ThoseFacts
  <2> DEFINE A == (Publication \ Held) \cap V
             B == Held \cap V
  <2>5. V = A \cup B /\ A \cap B = {}
    BY DEF V, OnEdge
  <2> HIDE DEF A, B
  <2>6. Tally(new, V) = Tally(new, A) + Tally(new, B) /\ Tally(new, A) \in Nat /\ Tally(new, B) \in Nat
    BY <1>1, <2>5, TallySplit
  <2>7. Tally(NewDeferred(s), V) <= Tally(new, A) /\ Tally(NewHeld(s), V) = Tally(new, B)
    BY <2>1, <2>2, <2>3, <2>4 DEF A, B
  <2>8. Tally(NewDeferred(s), V) \in 0 .. Len(NewDeferred(s)) /\ Len(NewDeferred(s)) \in Nat
    BY <1>7, TallyFacts
  <2>9. Tally(NewDeferred(s), V) + Tally(NewHeld(s), V) <= Tally(new, V)
    BY <2>6, <2>7, <2>8
  <2> QED
    BY <2>9 DEF V
<1>11. Len(NewImmediate(s)) + Len(NewDeferred(s)) + Len(NewHeld(s)) = Len(Served(s))
  <2>1. Len(NewImmediate(s)) + Len(NewDeferred(s)) = Tally(new, Publication \ Held)
    BY <1>3, <1>6, <1>7, <1>8
  <2>2. Len(NewHeld(s)) = Tally(new, Held)
    BY <1>2, <1>5
  <2>3. Len(NewHeld(s)) \in Nat /\ Len(NewImmediate(s)) + Len(NewDeferred(s)) \in Nat
    BY <1>2, <1>5, <1>6, <1>7, LenProperties
  <2> QED
    BY <1>1, <1>9, <2>1, <2>2, <2>3
<1>12. ItemsOf(through) = ItemsOf(new) \ Held
  BY <1>1, <1>3
<1> QED
  BY <1>2, <1>5, <1>6, <1>7, <1>10, <1>11, <1>12 DEF new

-----------------------------------------------------------------------------
(* What waits, and what async admission evicts.                            *)

LEMMA StageTypes ==
    ASSUME TypeOK
    PROVE  /\ immediateStage \in Seq(Publication) /\ deferredNext \in Seq(Publication)
           /\ deferredReady \in Seq(Publication) /\ compositeStage \in Seq(Publication)
           /\ inHand \in Seq(Publication)
BY DEF TypeOK

LEMMA PendingFacts ==
    ASSUME TypeOK
    PROVE  /\ PendingDeferred \in Seq(Publication) /\ ItemsOf(PendingDeferred) = Waiting
           /\ Waiting \subseteq Publication
           /\ Len(PendingDeferred) = Len(deferredReady) + Len(deferredNext) + Len(compositeStage)
           /\ Len(deferredReady) \in Nat /\ Len(deferredNext) \in Nat /\ Len(compositeStage) \in Nat
           /\ \A V : Tally(PendingDeferred, V)
                        = Tally(deferredReady, V) + Tally(deferredNext, V) + Tally(compositeStage, V)
<1> DEFINE front == deferredReady \o deferredNext
<1>1. /\ deferredReady \in Seq(Publication) /\ deferredNext \in Seq(Publication)
      /\ compositeStage \in Seq(Publication)
  BY StageTypes
<1>2. /\ front \in Seq(Publication) /\ Len(front) = Len(deferredReady) + Len(deferredNext)
      /\ ItemsOf(front) = ItemsOf(deferredReady) \cup ItemsOf(deferredNext)
      /\ Len(deferredReady) \in Nat /\ Len(deferredNext) \in Nat
  BY <1>1, ConcatFacts
<1>3. ASSUME NEW V PROVE Tally(front, V) = Tally(deferredReady, V) + Tally(deferredNext, V)
  BY <1>1, TallyConcat
<1>4. PendingDeferred = front \o compositeStage
  BY DEF PendingDeferred
<1> HIDE DEF front
<1>5. /\ front \o compositeStage \in Seq(Publication)
      /\ Len(front \o compositeStage) = Len(front) + Len(compositeStage)
      /\ ItemsOf(front \o compositeStage) = ItemsOf(front) \cup ItemsOf(compositeStage)
      /\ Len(compositeStage) \in Nat
  <2>1. front \in Seq(Publication)
    BY <1>2
  <2> QED
    BY <1>1, <2>1, ConcatFacts
<1>6. ASSUME NEW V PROVE Tally(front \o compositeStage, V) = Tally(front, V) + Tally(compositeStage, V)
  BY <1>1, <1>2, TallyConcat
<1>7. ItemsOf(PendingDeferred) = Waiting
  BY <1>2, <1>4, <1>5 DEF Waiting
<1>8. Waiting \subseteq Publication
  BY <1>4, <1>5, <1>7, ItemsType
<1>9. ASSUME NEW V
      PROVE  Tally(PendingDeferred, V) = Tally(deferredReady, V) + Tally(deferredNext, V) + Tally(compositeStage, V)
  BY <1>3, <1>4, <1>6
<1> QED
  BY <1>2, <1>4, <1>5, <1>7, <1>8, <1>9

\* The order in which admission looks for the oldest is the order of the calls.
LEMMA PendingInOrder ==
    ASSUME TypeOK, StagesPlaced, Lines
    PROVE  InOrder(PendingDeferred) /\ NoRepeats(PendingDeferred)
<1> DEFINE front == deferredReady \o deferredNext
<1>1. /\ deferredReady \in Seq(Publication) /\ deferredNext \in Seq(Publication)
      /\ compositeStage \in Seq(Publication)
  BY StageTypes
<1>2. InOrder(deferredReady) /\ InOrder(deferredNext) /\ InOrder(compositeStage)
  BY DEF Lines
<1>3. \A p \in ItemsOf(deferredReady), q \in ItemsOf(deferredNext) : p.ch = q.ch => p.id < q.id
  BY DEF Lines, Before, StagesPlaced, InLine
<1>4. \A p \in ItemsOf(deferredReady) \cup ItemsOf(deferredNext), q \in ItemsOf(compositeStage) :
        p.ch = q.ch => p.id < q.id
  BY DEF Lines, Before, StagesPlaced, InLine
<1>5. InOrder(front)
  BY <1>1, <1>2, <1>3, OrderConcat
<1>6. front \in Seq(Publication) /\ ItemsOf(front) = ItemsOf(deferredReady) \cup ItemsOf(deferredNext)
  BY <1>1, ConcatFacts
<1> HIDE DEF front
<1>7. InOrder(front \o compositeStage)
  BY <1>1, <1>2, <1>4, <1>5, <1>6, OrderConcat
<1>8. InOrder(PendingDeferred)
  BY <1>7 DEF PendingDeferred, front
<1> QED
  BY <1>8, PendingFacts, OrderNoRepeats

\* The completions evicted for a call: one of each edge at its limit.
LEMMA EvictionFacts ==
    ASSUME TypeOK, StagesPlaced, Lines, NEW s \in Sources
    PROVE  /\ Evictions(s) \in SUBSET (Waiting \cap Asyncs)
           /\ \A ch \in ItemsOf(Served(s)) : Evicts(ch) => \E p \in Evictions(s) : p \in OnEdge(ch)
           /\ IsFiniteSet(Evictions(s)) /\ Cardinality(Evictions(s)) \in Nat
           /\ Tally(PendingDeferred, Evictions(s)) = Cardinality(Evictions(s))
<1> DEFINE oldest(ch) == OnChannel(PendingDeferred, ch)[1]
<1>1. ASSUME NEW ch \in ItemsOf(Served(s)), Evicts(ch)
      PROVE  oldest(ch) \in Waiting /\ oldest(ch) \in Asyncs /\ oldest(ch) \in OnEdge(ch)
  <2> DEFINE line == OnChannel(PendingDeferred, ch)
  <2>1. EdgeKind[ch] = "async" /\ MaxInflight[ch] > 0 /\ Len(line) >= MaxInflight[ch]
    BY <1>1 DEF Evicts, AtLimit
  <2>2. MaxInflight[ch] \in Nat
    BY RouterFacts, ServedFacts
  <2>3. line = Those(PendingDeferred, OnEdge(ch))
    BY PendingFacts, Filters
  <2>4. /\ Those(PendingDeferred, OnEdge(ch)) \in Seq(Publication)
        /\ ItemsOf(Those(PendingDeferred, OnEdge(ch))) = ItemsOf(PendingDeferred) \cap OnEdge(ch)
    BY PendingFacts, ThoseFacts
  <2>5. line \in Seq(Publication) /\ ItemsOf(line) = Waiting \cap OnEdge(ch)
    BY <2>3, <2>4, PendingFacts
  <2> HIDE DEF line
  <2>6. Len(line) \in Nat /\ DOMAIN line = 1 .. Len(line)
    BY <2>5, LenProperties
  <2>7. 1 \in DOMAIN line
    BY <2>1, <2>2, <2>6
  <2>8. line[1] \in Waiting /\ line[1] \in OnEdge(ch)
    BY <2>5, <2>7 DEF ItemsOf
  <2>9. line[1] \in Asyncs
    BY <2>1, <2>8 DEF OnEdge, Asyncs
  <2> QED
    BY <2>8, <2>9 DEF line
<1>2. Evictions(s) = {oldest(ch) : ch \in {e \in ItemsOf(Served(s)) : Evicts(e)}}
  BY DEF Evictions, Victims, Elements, ItemsOf
<1> HIDE DEF oldest
<1>3. Evictions(s) \in SUBSET (Waiting \cap Asyncs)
  BY <1>1, <1>2
<1>4. \A ch \in ItemsOf(Served(s)) : Evicts(ch) => \E p \in Evictions(s) : p \in OnEdge(ch)
  BY <1>1, <1>2
<1>5. Evictions(s) \in SUBSET ItemsOf(PendingDeferred)
  BY <1>3, PendingFacts
<1>6. IsFiniteSet(Evictions(s)) /\ Tally(PendingDeferred, Evictions(s)) = Cardinality(Evictions(s))
  BY <1>5, PendingFacts, PendingInOrder, TallyOnce
<1> QED
  BY <1>3, <1>4, <1>6, FS_CardinalityType

\* What a stage keeps.
LEMMA KeepFacts ==
    ASSUME NEW stage \in Seq(Publication), NEW victims
    PROVE  /\ Keep(stage, victims) \in Seq(Publication)
           /\ ItemsOf(Keep(stage, victims)) = ItemsOf(stage) \ victims
           /\ InOrder(stage) => InOrder(Keep(stage, victims))
           /\ \A V \in SUBSET Publication : Tally(Keep(stage, victims), V) = Tally(stage, V \ victims)
           /\ Len(Keep(stage, victims)) = Tally(stage, Publication \ victims)
<1> DEFINE kept == Those(stage, Publication \ victims)
<1>1. Keep(stage, victims) = kept
  BY Filters
<1>2. /\ kept \in Seq(Publication) /\ ItemsOf(kept) = ItemsOf(stage) \cap (Publication \ victims)
      /\ InOrder(stage) => InOrder(kept)
      /\ Len(kept) = Tally(stage, Publication \ victims)
  BY ThoseFacts
<1>3. ItemsOf(stage) \subseteq Publication
  BY ItemsType
<1>4. ASSUME NEW V \in SUBSET Publication PROVE Tally(kept, V) = Tally(stage, V \ victims)
  <2>1. Tally(kept, V) = Tally(stage, (Publication \ victims) \cap V)
    BY ThoseFacts
  <2>2. (Publication \ victims) \cap V = V \ victims
    OBVIOUS
  <2> QED
    BY <2>1, <2>2
<1> HIDE DEF kept
<1> QED
  BY <1>1, <1>2, <1>3, <1>4

\* The stages after a call of publish.
LEMMA PublishStages ==
    ASSUME TypeOK, NEW s \in Sources, Publish(s)
    PROVE  /\ immediateStage' = immediateStage \o NewImmediate(s)
           /\ deferredNext' = Keep(deferredNext, Evictions(s)) \o NewDeferred(s)
           /\ deferredReady' = Keep(deferredReady, Evictions(s))
           /\ compositeStage' = Keep(compositeStage, Evictions(s)) \o NewHeld(s)
           /\ stagedCount' = stagedCount + Len(Served(s))
           /\ evictedCount' = evictedCount + Cardinality(Evictions(s))
           /\ asyncInFlight' = InflightAfter(SourceEdges[s], Served(s))
           /\ publishes' = publishes + 1
           /\ UNCHANGED <<busVars, regionActive, committedCount, discardedCount, pc, inHand,
                          epoch, regions, committed, lost, discarded>>
BY DEF Publish, NewImmediate, NewDeferred, NewHeld, New, Served, Evictions

LEMMA PublishTypes ==
    ASSUME TypeOK, NEW s \in Sources, Publish(s)
    PROVE  /\ immediateStage' \in Seq(Publication) /\ deferredNext' \in Seq(Publication)
           /\ deferredReady' \in Seq(Publication) /\ compositeStage' \in Seq(Publication)
           /\ ItemsOf(immediateStage') = ItemsOf(immediateStage) \cup ItemsOf(NewImmediate(s))
           /\ ItemsOf(deferredNext') = (ItemsOf(deferredNext) \ Evictions(s)) \cup ItemsOf(NewDeferred(s))
           /\ ItemsOf(deferredReady') = ItemsOf(deferredReady) \ Evictions(s)
           /\ ItemsOf(compositeStage') = (ItemsOf(compositeStage) \ Evictions(s)) \cup ItemsOf(NewHeld(s))
           /\ Len(immediateStage') = Len(immediateStage) + Len(NewImmediate(s))
           /\ \A V \in SUBSET Publication :
                 /\ Tally(deferredNext', V) = Tally(deferredNext, V \ Evictions(s)) + Tally(NewDeferred(s), V)
                 /\ Tally(deferredReady', V) = Tally(deferredReady, V \ Evictions(s))
                 /\ Tally(compositeStage', V) = Tally(compositeStage, V \ Evictions(s)) + Tally(NewHeld(s), V)
<1> DEFINE kn == Keep(deferredNext, Evictions(s))
           kr == Keep(deferredReady, Evictions(s))
           kx == Keep(compositeStage, Evictions(s))
           a == NewImmediate(s)
           b == NewDeferred(s)
           c == NewHeld(s)
           vic == Evictions(s)
<1>1. immediateStage' = immediateStage \o a /\ deferredNext' = kn \o b /\ deferredReady' = kr /\ compositeStage' = kx \o c
  BY PublishStages
<1>2. a \in Seq(Publication) /\ b \in Seq(Publication) /\ c \in Seq(Publication)
  BY NewSplit
<1> HIDE DEF a, b, c, vic
<1>3. /\ kn \in Seq(Publication) /\ ItemsOf(kn) = ItemsOf(deferredNext) \ vic
      /\ \A V \in SUBSET Publication : Tally(kn, V) = Tally(deferredNext, V \ vic)
  BY StageTypes, KeepFacts DEF vic
<1>4. /\ kr \in Seq(Publication) /\ ItemsOf(kr) = ItemsOf(deferredReady) \ vic
      /\ \A V \in SUBSET Publication : Tally(kr, V) = Tally(deferredReady, V \ vic)
  BY StageTypes, KeepFacts DEF vic
<1>5. /\ kx \in Seq(Publication) /\ ItemsOf(kx) = ItemsOf(compositeStage) \ vic
      /\ \A V \in SUBSET Publication : Tally(kx, V) = Tally(compositeStage, V \ vic)
  BY StageTypes, KeepFacts DEF vic
<1> HIDE DEF kn, kr, kx
<1>6. /\ kn \o b \in Seq(Publication) /\ ItemsOf(kn \o b) = ItemsOf(kn) \cup ItemsOf(b)
      /\ \A V : Tally(kn \o b, V) = Tally(kn, V) + Tally(b, V)
  BY <1>2, <1>3, ConcatFacts, TallyConcat
<1>7. /\ kx \o c \in Seq(Publication) /\ ItemsOf(kx \o c) = ItemsOf(kx) \cup ItemsOf(c)
      /\ \A V : Tally(kx \o c, V) = Tally(kx, V) + Tally(c, V)
  BY <1>2, <1>5, ConcatFacts, TallyConcat
<1>8. /\ immediateStage \o a \in Seq(Publication) /\ ItemsOf(immediateStage \o a) = ItemsOf(immediateStage) \cup ItemsOf(a)
      /\ Len(immediateStage \o a) = Len(immediateStage) + Len(a)
  BY <1>2, StageTypes, ConcatFacts
<1>9. ASSUME NEW V \in SUBSET Publication
      PROVE  /\ Tally(deferredNext', V) = Tally(deferredNext, V \ vic) + Tally(b, V)
             /\ Tally(deferredReady', V) = Tally(deferredReady, V \ vic)
             /\ Tally(compositeStage', V) = Tally(compositeStage, V \ vic) + Tally(c, V)
  BY <1>1, <1>3, <1>4, <1>5, <1>6, <1>7
<1>10. /\ immediateStage' \in Seq(Publication) /\ deferredNext' \in Seq(Publication)
       /\ deferredReady' \in Seq(Publication) /\ compositeStage' \in Seq(Publication)
  BY <1>1, <1>4, <1>6, <1>7, <1>8
<1>11. /\ ItemsOf(immediateStage') = ItemsOf(immediateStage) \cup ItemsOf(a)
       /\ ItemsOf(deferredNext') = (ItemsOf(deferredNext) \ vic) \cup ItemsOf(b)
       /\ ItemsOf(deferredReady') = ItemsOf(deferredReady) \ vic
       /\ ItemsOf(compositeStage') = (ItemsOf(compositeStage) \ vic) \cup ItemsOf(c)
       /\ Len(immediateStage') = Len(immediateStage) + Len(a)
  BY <1>1, <1>3, <1>4, <1>5, <1>6, <1>7, <1>8
<1> QED
  BY <1>9, <1>10, <1>11 DEF a, b, c, vic

-----------------------------------------------------------------------------
(* Type correctness.                                                       *)

LEMMA LimitsKnown ==
    ASSUME NEW s \in Seq(Publication)
    PROVE  /\ Len(AsyncOf(s)) = Tally(s, Asyncs) /\ Tally(s, Asyncs) \in Nat
           /\ \A ch : Len(OnChannel(s, ch)) = Tally(s, OnEdge(ch)) /\ Tally(s, OnEdge(ch)) \in Nat
<1>1. AsyncOf(s) = Those(s, Asyncs) /\ \A ch : OnChannel(s, ch) = Those(s, OnEdge(ch))
  BY Filters
<1>2. ASSUME NEW V PROVE Len(Those(s, V)) = Tally(s, V) /\ Tally(s, V) \in Nat
  <2>1. Len(Those(s, V)) = Tally(s, V)
    BY ThoseFacts
  <2>2. Tally(s, V) \in 0 .. Len(s) /\ Len(s) \in Nat
    BY TallyFacts
  <2> QED
    BY <2>1, <2>2
<1> QED
  BY <1>1, <1>2

\* The metric of completions in flight is never negative.
LEMMA InflightType ==
    ASSUME TypeOK, StagesPlaced, Lines, NEW s \in Sources
    PROVE  InflightAfter(SourceEdges[s], Served(s)) \in Nat
<1> DEFINE served == Served(s)
           places == {i \in DOMAIN served : EdgeKind[served[i]] = "async"}
           last == served[NthPlace(places, Cardinality(places))]
           many == pending_async_count + Cardinality(places) - Cardinality(Victims(served))
           few == Len(OnChannel(PendingDeferred, last)) + (IF Evicts(last) THEN 0 ELSE 1)
<1>1. many \in Nat
  <2>1. pending_async_count = Tally(PendingDeferred, Asyncs)
    BY PendingFacts, LimitsKnown DEF pending_async_count
  <2> DEFINE vic == Evictions(s)
             others == Asyncs \ Evictions(s)
  <2>2. vic \in SUBSET Asyncs /\ Tally(PendingDeferred, vic) = Cardinality(vic) /\ Cardinality(vic) \in Nat
    BY EvictionFacts
  <2>3. Asyncs = vic \cup others /\ vic \cap others = {}
    BY <2>2
  <2>4. Victims(served) = vic
    BY DEF Evictions
  <2> HIDE DEF vic, others
  <2>5. /\ Tally(PendingDeferred, Asyncs) = Tally(PendingDeferred, vic) + Tally(PendingDeferred, others)
        /\ Tally(PendingDeferred, others) \in Nat
    BY <2>3, PendingFacts, TallySplit
  <2>6. Cardinality(places) \in Nat
    <3>1. places \in SUBSET (1 .. Len(served)) /\ Len(served) \in Nat
      BY ServedFacts, LenProperties
    <3>2. Cardinality(places) \in 0 .. Len(served)
      <4> HIDE DEF places, served
      <4> QED
        BY <3>1, PlacesInOrder
    <3> QED
      BY <3>1, <3>2
  <2> HIDE DEF places
  <2> QED
    BY <2>1, <2>2, <2>4, <2>5, <2>6
<1>2. few \in Nat
  <2>1. Len(OnChannel(PendingDeferred, last)) \in Nat
    BY PendingFacts, LimitsKnown
  <2>2. (IF Evicts(last) THEN 0 ELSE 1) \in Nat
    OBVIOUS
  <2> QED
    BY <2>1, <2>2
<1>3. asyncInFlight \in Nat
  BY DEF TypeOK
<1>4. InflightAfter(SourceEdges[s], Served(s)) \in {many, asyncInFlight, few}
  BY DEF InflightAfter
<1> HIDE DEF many, few
<1> QED
  BY <1>1, <1>2, <1>3, <1>4

LEMMA StampedType ==
    ASSUME TypeOK, NEW batch \in Seq(Publication)
    PROVE  /\ Stamped(batch) \in Seq([pub : Publication, at : Nat]) /\ Len(Stamped(batch)) = Len(batch)
           /\ DOMAIN Stamped(batch) = DOMAIN batch
           /\ \A i \in DOMAIN batch : Stamped(batch)[i] = [pub |-> batch[i], at |-> epoch]
<1>1. DOMAIN batch = 1 .. Len(batch) /\ Len(batch) \in Nat /\ \A i \in DOMAIN batch : batch[i] \in Publication
  BY LenProperties, ElementOfSeq
<1>2. Stamped(batch) = [i \in 1 .. Len(batch) |-> [pub |-> batch[i], at |-> epoch]]
  BY <1>1 DEF Stamped
<1>3. \A i \in 1 .. Len(batch) : [pub |-> batch[i], at |-> epoch] \in [pub : Publication, at : Nat]
  BY <1>1 DEF TypeOK
<1> QED
  BY <1>1, <1>2, <1>3

\* The two outcomes of a batch in hand.
Accepts(next) ==
    /\ pc' = next
    /\ committedCount' = committedCount + Len(inHand)
    /\ committed' = [ch \in Channels |-> committed[ch] \o Stamped(OnChannel(inHand, ch))]
    /\ lost' = lost
Refuses ==
    /\ pc' = "failed"
    /\ lost' = lost \cup ItemsOf(inHand)
    /\ UNCHANGED <<committedCount, committed>>

LEMMA CommitOutcome ==
    ASSUME TypeOK, NEW next, CommitBatch(next)
    PROVE  /\ Accepts(next) \/ Refuses
           /\ UNCHANGED <<stages, regionActive, stagedCount, discardedCount, evictedCount,
                          epoch, publishes, regions, discarded>>
<1>1. CASE inHand = <<>>
  <2>1. /\ UNCHANGED <<committedCount, committed, lost>> /\ pc' = next
    BY <1>1 DEF CommitBatch
  <2>2. committedCount' = committedCount + Len(inHand)
    BY <1>1, <2>1 DEF TypeOK
  <2>3. \A ch \in Channels : Stamped(OnChannel(inHand, ch)) = <<>>
    <3> SUFFICES ASSUME NEW ch \in Channels PROVE Stamped(OnChannel(inHand, ch)) = <<>>
      OBVIOUS
    <3>1. OnChannel(inHand, ch) = Those(inHand, OnEdge(ch))
      BY StageTypes, Filters
    <3>2. Those(inHand, OnEdge(ch)) \in Seq(Publication) /\ Len(Those(inHand, OnEdge(ch))) = Tally(inHand, OnEdge(ch))
      BY StageTypes, ThoseFacts
    <3>3. Tally(inHand, OnEdge(ch)) = 0
      BY <1>1, SmallOrders
    <3>4. OnChannel(inHand, ch) = <<>>
      BY <3>1, <3>2, <3>3, EmptySeq
    <3> QED
      BY <3>4 DEF Stamped
  <2>4. \A ch \in Channels : committed[ch] \o Stamped(OnChannel(inHand, ch)) = committed[ch]
    <3> SUFFICES ASSUME NEW ch \in Channels PROVE committed[ch] \o Stamped(OnChannel(inHand, ch)) = committed[ch]
      OBVIOUS
    <3>1. committed[ch] \in Seq([pub : Publication, at : Nat])
      BY DEF TypeOK
    <3>2. committed[ch] \o <<>> = committed[ch]
      BY <3>1
    <3> QED
      BY <2>3, <3>2
  <2>5. committed' = [ch \in Channels |-> committed[ch] \o Stamped(OnChannel(inHand, ch))]
    <3>1. committed = [ch \in Channels |-> committed[ch]]
      BY DEF TypeOK
    <3> QED
      BY <2>1, <2>4, <3>1
  <2> QED
    BY <1>1, <2>1, <2>2, <2>5 DEF CommitBatch, Accepts
<1>2. CASE inHand # <<>>
  BY <1>2 DEF CommitBatch, Accepts, Refuses, Elements, ItemsOf
<1> QED
  BY <1>1, <1>2

LEMMA CommittedGrows ==
    ASSUME TypeOK, NEW next, Accepts(next), NEW ch \in Channels
    PROVE  /\ committed'[ch] = committed[ch] \o Stamped(OnChannel(inHand, ch))
           /\ OnChannel(inHand, ch) \in Seq(Publication)
           /\ committed'[ch] \in Seq([pub : Publication, at : Nat])
<1>1. committed'[ch] = committed[ch] \o Stamped(OnChannel(inHand, ch))
  BY DEF Accepts
<1>2. OnChannel(inHand, ch) = Those(inHand, OnEdge(ch))
  BY StageTypes, Filters
<1>3. OnChannel(inHand, ch) \in Seq(Publication)
  <2>1. Those(inHand, OnEdge(ch)) \in Seq(Publication)
    BY StageTypes, ThoseFacts
  <2> QED
    BY <1>2, <2>1
<1>4. Stamped(OnChannel(inHand, ch)) \in Seq([pub : Publication, at : Nat])
  BY <1>3, StampedType
<1>5. committed[ch] \in Seq([pub : Publication, at : Nat])
  BY DEF TypeOK
<1>6. committed[ch] \o Stamped(OnChannel(inHand, ch)) \in Seq([pub : Publication, at : Nat])
  BY <1>4, <1>5, ConcatProperties
<1> QED
  BY <1>1, <1>3, <1>6

LEMMA CommitTypes ==
    ASSUME TypeOK, NEW next \in Phases, CommitBatch(next)
    PROVE  /\ committedCount' \in Nat /\ committed' \in [Channels -> Seq([pub : Publication, at : Nat])]
           /\ lost' \in SUBSET Publication /\ pc' \in Phases
<1>1. inHand \in Seq(Publication) /\ Len(inHand) \in Nat /\ ItemsOf(inHand) \subseteq Publication
  BY StageTypes, LenProperties, ItemsType
<1>2. CASE Accepts(next)
  <2>1. \A ch \in Channels : committed'[ch] \in Seq([pub : Publication, at : Nat])
    BY <1>2, CommittedGrows
  <2>2. committed' = [ch \in Channels |-> committed'[ch]]
    BY <1>2 DEF Accepts
  <2>3. committed' \in [Channels -> Seq([pub : Publication, at : Nat])]
    BY <2>1, <2>2
  <2>4. committedCount \in Nat /\ lost \in SUBSET Publication
    BY DEF TypeOK
  <2>5. committedCount' \in Nat
    BY <1>1, <1>2, <2>4 DEF Accepts
  <2> QED
    BY <1>2, <2>3, <2>4, <2>5 DEF Accepts
<1>3. CASE Refuses
  BY <1>1, <1>3 DEF Refuses, TypeOK, Phases
<1> QED
  BY <1>2, <1>3, CommitOutcome

LEMMA TypeStep ==
    ASSUME TypeOK, StagesPlaced, Lines, [Next]_vars
    PROVE  TypeOK'
<1> DEFINE Stages == /\ immediateStage' \in Seq(Publication) /\ deferredNext' \in Seq(Publication)
                     /\ deferredReady' \in Seq(Publication) /\ compositeStage' \in Seq(Publication)
                     /\ inHand' \in Seq(Publication)
           Rest == /\ regionActive' \in BOOLEAN
                   /\ stagedCount' \in Nat /\ committedCount' \in Nat /\ discardedCount' \in Nat
                   /\ evictedCount' \in Nat /\ asyncInFlight' \in Nat
                   /\ pc' \in Phases
                   /\ epoch' \in Nat /\ publishes' \in Nat /\ regions' \in Nat
                   /\ committed' \in [Channels -> Seq([pub : Publication, at : Nat])]
                   /\ lost' \subseteq Publication /\ discarded' \subseteq Publication
<1>0. SUFFICES Stages /\ Rest
  BY DEF TypeOK
<1>1. /\ immediateStage \in Seq(Publication) /\ deferredNext \in Seq(Publication)
      /\ deferredReady \in Seq(Publication) /\ compositeStage \in Seq(Publication)
      /\ inHand \in Seq(Publication) /\ <<>> \in Seq(Publication)
  BY StageTypes
<1>2. /\ regionActive \in BOOLEAN
      /\ stagedCount \in Nat /\ committedCount \in Nat /\ discardedCount \in Nat
      /\ evictedCount \in Nat /\ asyncInFlight \in Nat
      /\ pc \in Phases
      /\ epoch \in Nat /\ publishes \in Nat /\ regions \in Nat
      /\ committed \in [Channels -> Seq([pub : Publication, at : Nat])]
      /\ lost \subseteq Publication /\ discarded \subseteq Publication
  BY DEF TypeOK
<1>3. CASE UNCHANGED vars
  BY <1>1, <1>2, <1>3 DEF vars, stages, metrics, history
<1>4. ASSUME NEW s \in Sources, Publish(s) PROVE Stages /\ Rest
  <2>1. Len(Served(s)) \in Nat
    BY ServedFacts
  <2>2. Cardinality(Evictions(s)) \in Nat
    BY EvictionFacts
  <2>3. InflightAfter(SourceEdges[s], Served(s)) \in Nat
    BY InflightType
  <2>4. inHand' = inHand
    BY <1>4, PublishStages
  <2>5. Stages
    BY <1>1, <1>4, <2>4, PublishTypes
  <2>6. stagedCount' \in Nat /\ evictedCount' \in Nat /\ asyncInFlight' \in Nat /\ publishes' \in Nat
    BY <1>2, <1>4, <2>1, <2>2, <2>3, PublishStages
  <2>7. UNCHANGED <<regionActive, committedCount, discardedCount, pc, epoch, regions, committed, lost, discarded>>
    BY <1>4, PublishStages
  <2> QED
    BY <1>2, <2>5, <2>6, <2>7
<1>5. CASE BeginAdvance
  <2>1. epoch' \in Nat /\ pc' \in Phases
    BY <1>2, <1>5 DEF BeginAdvance, Phases
  <2>2. UNCHANGED <<stages, regionActive, metrics, inHand, history>>
    BY <1>5 DEF BeginAdvance
  <2> QED
    BY <1>1, <1>2, <2>1, <2>2 DEF stages, metrics, history
<1>6. CASE BeginSwap
  BY <1>1, <1>2, <1>6 DEF BeginSwap, metrics, history, Phases
<1>7. CASE BeginCommit
  <2>1. CommitBatch("begin_count") /\ UNCHANGED <<inHand, asyncInFlight>>
    BY <1>7 DEF BeginCommit
  <2>2. /\ committedCount' \in Nat /\ committed' \in [Channels -> Seq([pub : Publication, at : Nat])]
        /\ lost' \in SUBSET Publication /\ pc' \in Phases
    <3>1. "begin_count" \in Phases
      BY DEF Phases
    <3> QED
      BY <2>1, <3>1, CommitTypes
  <2> QED
    BY <1>1, <1>2, <2>1, <2>2, CommitOutcome DEF stages
<1>8. CASE BeginCount
  <2>1. pending_async_count \in Nat
    BY PendingFacts, LimitsKnown DEF pending_async_count
  <2>2. asyncInFlight' \in Nat
    BY <1>2, <1>8, <2>1 DEF BeginCount
  <2> QED
    BY <1>1, <1>2, <1>8, <2>2 DEF BeginCount, stages, history, Phases
<1>9. CASE CommitSwap
  BY <1>1, <1>2, <1>9 DEF CommitSwap, metrics, history, Phases
<1>10. CASE CommitImmediate \/ CommitRegionBatch
  <2>1. CommitBatch("run") /\ inHand' = <<>> /\ UNCHANGED asyncInFlight
    BY <1>10 DEF CommitImmediate, CommitRegionBatch
  <2>2. /\ committedCount' \in Nat /\ committed' \in [Channels -> Seq([pub : Publication, at : Nat])]
        /\ lost' \in SUBSET Publication /\ pc' \in Phases
    <3>1. "run" \in Phases
      BY DEF Phases
    <3> QED
      BY <2>1, <3>1, CommitTypes
  <2> QED
    BY <1>1, <1>2, <2>1, <2>2, CommitOutcome DEF stages
<1>11. CASE BeginRegion
  <2>1. regions' \in Nat
    BY <1>2, <1>11 DEF BeginRegion
  <2>2. /\ regionActive' = TRUE /\ compositeStage' = <<>>
        /\ UNCHANGED <<immediateStage, deferredNext, deferredReady, metrics, pc,
                       inHand, epoch, publishes, committed, lost, discarded>>
    BY <1>11 DEF BeginRegion
  <2> QED
    BY <1>1, <1>2, <2>1, <2>2 DEF metrics
<1>12. CASE CommitRegion
  <2>1. ImmediateOf(compositeStage) = Those(compositeStage, Immediates)
        /\ DeferredOf(compositeStage) = Those(compositeStage, Deferreds)
    BY <1>1, Filters
  <2>2. Those(compositeStage, Immediates) \in Seq(Publication)
    BY <1>1, ThoseFacts
  <2>3. Those(compositeStage, Deferreds) \in Seq(Publication)
    BY <1>1, ThoseFacts
  <2>4. deferredNext \o DeferredOf(compositeStage) \in Seq(Publication)
    BY <1>1, <2>1, <2>3, ConcatProperties
  <2>5. deferredNext' \in Seq(Publication) /\ inHand' \in Seq(Publication)
    BY <1>12, <2>1, <2>2, <2>4 DEF CommitRegion
  <2> QED
    BY <1>1, <1>2, <1>12, <2>5 DEF CommitRegion, metrics, history, Phases
<1>13. CASE DiscardRegion
  <2>1. Len(compositeStage) \in Nat /\ ItemsOf(compositeStage) \subseteq Publication
    BY <1>1, LenProperties, ItemsType
  <2>2. Len(AsyncOf(deferredReady \o deferredNext)) \in Nat
    <3>1. deferredReady \o deferredNext \in Seq(Publication)
      BY <1>1, ConcatProperties
    <3> QED
      BY <3>1, LimitsKnown
  <2>3. asyncInFlight' \in Nat /\ discardedCount' \in Nat
    BY <1>2, <1>13, <2>1, <2>2 DEF DiscardRegion
  <2>4. discarded' \subseteq Publication
    BY <1>2, <1>13, <2>1 DEF DiscardRegion, Elements, ItemsOf
  <2> QED
    BY <1>1, <1>2, <1>13, <2>3, <2>4 DEF DiscardRegion
<1>14. CASE ComponentFails
  BY <1>1, <1>2, <1>14 DEF ComponentFails, stages, metrics, history, Phases
<1>15. CASE EndEpoch
  <2>1. deferredReady \o deferredNext \in Seq(Publication)
    BY <1>1, ConcatProperties
  <2> QED
    BY <1>1, <1>2, <1>15, <2>1 DEF EndEpoch, metrics, history, Phases
<1>16. ASSUME NEW ch \in Channels, ReadInput(ch) PROVE Stages /\ Rest
  BY <1>1, <1>2, <1>16 DEF ReadInput, stages, metrics, history
<1> QED
  BY <1>3, <1>4, <1>5, <1>6, <1>7, <1>8, <1>9, <1>10, <1>11, <1>12, <1>13, <1>14, <1>15, <1>16 DEF Next

-----------------------------------------------------------------------------
(* Where a publication is.                                                 *)

LEMMA NewItems ==
    ASSUME TypeOK, NEW s \in Sources
    PROVE  /\ \A p \in ItemsOf(New(s)) : p.id = publishes + 1 /\ p.epoch = PublishEpoch
           /\ \A p \in ItemsOf(NewImmediate(s)) : ~Deferred(p.ch) /\ ~Composite(p.ch) /\ p.region = 0
           /\ \A p \in ItemsOf(NewDeferred(s)) : Deferred(p.ch) /\ ~Composite(p.ch) /\ p.region = 0
           /\ \A p \in ItemsOf(NewHeld(s)) : Composite(p.ch) /\ p.region = regions
           /\ ItemsOf(NewImmediate(s)) \cup ItemsOf(NewDeferred(s)) \cup ItemsOf(NewHeld(s)) \subseteq ItemsOf(New(s))
<1>1. \A p \in ItemsOf(New(s)) :
        p.id = publishes + 1 /\ p.epoch = PublishEpoch /\ p.region = IF Composite(p.ch) THEN regions ELSE 0
  BY NewFacts
<1>2. ItemsOf(New(s)) \subseteq Publication
  BY NewFacts, ItemsType
<1>3. /\ ItemsOf(NewImmediate(s)) = (ItemsOf(New(s)) \ Held) \cap Immediates
      /\ ItemsOf(NewDeferred(s)) = (ItemsOf(New(s)) \ Held) \cap Deferreds
      /\ ItemsOf(NewHeld(s)) = ItemsOf(New(s)) \cap Held
  BY NewSplit
<1> QED
  BY <1>1, <1>2, <1>3 DEF Held, Immediates, Deferreds, Deferred

LEMMA EmptyItems ==
    ASSUME NEW T, NEW s \in Seq(T)
    PROVE  s = <<>> <=> ItemsOf(s) = {}
<1>1. DOMAIN s = 1 .. Len(s) /\ Len(s) \in Nat
  BY LenProperties
<1>2. ASSUME s # <<>> PROVE ItemsOf(s) # {}
  <2>1. Len(s) # 0
    BY <1>2, EmptySeq
  <2>2. 1 \in DOMAIN s
    BY <1>1, <2>1
  <2> QED
    BY <2>2 DEF ItemsOf
<1> QED
  BY <1>2, SmallOrders

\* The parts of a loop's outputs.
LEMMA RegionParts ==
    ASSUME TypeOK
    PROVE  /\ ImmediateOf(compositeStage) \in Seq(Publication) /\ DeferredOf(compositeStage) \in Seq(Publication)
           /\ ItemsOf(ImmediateOf(compositeStage)) = {p \in ItemsOf(compositeStage) : ~Deferred(p.ch)}
           /\ ItemsOf(DeferredOf(compositeStage)) = {p \in ItemsOf(compositeStage) : Deferred(p.ch)}
           /\ InOrder(compositeStage) => InOrder(ImmediateOf(compositeStage)) /\ InOrder(DeferredOf(compositeStage))
           /\ \A V \in SUBSET Publication : Tally(DeferredOf(compositeStage), V) = Tally(compositeStage, Deferreds \cap V)
           /\ Len(ImmediateOf(compositeStage)) + Len(DeferredOf(compositeStage)) = Len(compositeStage)
<1>1. compositeStage \in Seq(Publication) /\ ItemsOf(compositeStage) \subseteq Publication
  BY StageTypes, ItemsType
<1>2. ImmediateOf(compositeStage) = Those(compositeStage, Immediates)
      /\ DeferredOf(compositeStage) = Those(compositeStage, Deferreds)
  BY <1>1, Filters
<1>3. /\ Those(compositeStage, Immediates) \in Seq(Publication)
      /\ ItemsOf(Those(compositeStage, Immediates)) = ItemsOf(compositeStage) \cap Immediates
      /\ InOrder(compositeStage) => InOrder(Those(compositeStage, Immediates))
      /\ Len(Those(compositeStage, Immediates)) = Tally(compositeStage, Immediates)
  BY <1>1, ThoseFacts
<1>4. /\ Those(compositeStage, Deferreds) \in Seq(Publication)
      /\ ItemsOf(Those(compositeStage, Deferreds)) = ItemsOf(compositeStage) \cap Deferreds
      /\ InOrder(compositeStage) => InOrder(Those(compositeStage, Deferreds))
      /\ Len(Those(compositeStage, Deferreds)) = Tally(compositeStage, Deferreds)
  BY <1>1, ThoseFacts
<1>9. ASSUME NEW V PROVE Tally(Those(compositeStage, Deferreds), V) = Tally(compositeStage, Deferreds \cap V)
  BY <1>1, ThoseFacts
<1>5. ItemsOf(compositeStage) \cap Immediates = {p \in ItemsOf(compositeStage) : ~Deferred(p.ch)}
  BY <1>1 DEF Immediates, Deferred
<1>6. ItemsOf(compositeStage) \cap Deferreds = {p \in ItemsOf(compositeStage) : Deferred(p.ch)}
  BY <1>1 DEF Deferreds
<1>7. Tally(compositeStage, Immediates) + Tally(compositeStage, Deferreds) = Len(compositeStage)
  <2>1. Publication = Immediates \cup Deferreds /\ Immediates \cap Deferreds = {}
    BY DEF Immediates, Deferreds, Deferred
  <2>2. Tally(compositeStage, Publication) = Tally(compositeStage, Immediates) + Tally(compositeStage, Deferreds)
    BY <1>1, <2>1, TallySplit
  <2>3. Tally(compositeStage, Publication) = Len(compositeStage)
    BY <1>1, TallyFacts
  <2> QED
    BY <2>2, <2>3
<1>8. Len(ImmediateOf(compositeStage)) + Len(DeferredOf(compositeStage)) = Len(compositeStage)
  BY <1>2, <1>3, <1>4, <1>7
<1> QED
  BY <1>2, <1>3, <1>4, <1>5, <1>6, <1>8, <1>9

LEMMA PlacedStep ==
    ASSUME TypeOK, StagesPlaced, HandPlaced, [Next]_vars
    PROVE  StagesPlaced' /\ HandPlaced'
<1> DEFINE I == ItemsOf(immediateStage)
           N == ItemsOf(deferredNext)
           R == ItemsOf(deferredReady)
           X == ItemsOf(compositeStage)
<1>1. /\ immediateStage \in Seq(Publication) /\ deferredNext \in Seq(Publication)
      /\ deferredReady \in Seq(Publication) /\ compositeStage \in Seq(Publication)
      /\ inHand \in Seq(Publication)
  BY StageTypes
<1>2. pc \in Phases /\ epoch \in Nat /\ regions \in Nat /\ PublishEpoch \in Nat
  BY EpochType DEF TypeOK
<1>3. CASE UNCHANGED vars
  BY <1>3 DEF StagesPlaced, HandPlaced, PublishEpoch, vars, stages, history
<1>4. ASSUME NEW s \in Sources, Publish(s) PROVE StagesPlaced' /\ HandPlaced'
  <2>1. UNCHANGED <<pc, inHand, epoch, regions, regionActive, lost>>
    BY <1>4, PublishStages
  <2>2. PublishEpoch' = PublishEpoch
    BY <2>1 DEF PublishEpoch
  <2>3. HandPlaced'
    BY <2>1 DEF HandPlaced
  <2>4. \A p \in ItemsOf(immediateStage') : ~Deferred(p.ch) /\ p.region = 0 /\ p.epoch <= PublishEpoch
    BY <1>2, <1>4, PublishTypes, NewItems DEF StagesPlaced
  <2>5. \A p \in ItemsOf(deferredNext') : Deferred(p.ch) /\ p.epoch = PublishEpoch
    BY <1>4, PublishTypes, NewItems DEF StagesPlaced
  <2>6. \A p \in ItemsOf(deferredReady') : Deferred(p.ch) /\ p.epoch + 1 = PublishEpoch
    BY <1>4, PublishTypes DEF StagesPlaced
  <2>7. regionActive => PublishEpoch = epoch
    BY DEF StagesPlaced, PublishEpoch
  <2>8. \A p \in ItemsOf(NewHeld(s)) : p.ch \in LoopExternal /\ p.epoch = epoch /\ p.region = regions /\ regionActive
    BY <1>4, <2>7, NewItems DEF Composite
  <2>9. \A p \in ItemsOf(compositeStage') : p.ch \in LoopExternal /\ p.epoch = epoch /\ p.region = regions
    BY <1>4, <2>8, PublishTypes DEF StagesPlaced
  <2>10. deferredReady' # <<>> => pc \in {"boundary", "begin_swap"}
    <3>1. deferredReady' # <<>> => deferredReady # <<>>
      <4>1. deferredReady' \in Seq(Publication) /\ ItemsOf(deferredReady') \subseteq ItemsOf(deferredReady)
        BY <1>4, PublishTypes
      <4>2. deferredReady = <<>> => ItemsOf(deferredReady) = {}
        BY SmallOrders
      <4>3. ItemsOf(deferredReady') = {} => deferredReady' = <<>>
        BY <4>1, EmptyItems
      <4> QED
        BY <4>1, <4>2, <4>3
    <3> QED
      BY <3>1 DEF StagesPlaced
  <2>11. compositeStage' # <<>> => regionActive
    <3>1. compositeStage' \in Seq(Publication) /\ ItemsOf(compositeStage') \subseteq X \cup ItemsOf(NewHeld(s))
      BY <1>4, PublishTypes
    <3>2. compositeStage = <<>> => X = {}
      BY SmallOrders
    <3>3. ItemsOf(compositeStage') = {} => compositeStage' = <<>>
      BY <3>1, EmptyItems
    <3> QED
      BY <2>8, <3>1, <3>2, <3>3 DEF StagesPlaced
  <2>12. regionActive => pc \in {"run", "commit", "failed"} /\ regions > 0
    BY DEF StagesPlaced
  <2>13. StagesPlaced'
    BY <2>1, <2>2, <2>4, <2>5, <2>6, <2>9, <2>10, <2>11, <2>12 DEF StagesPlaced
  <2> QED
    BY <2>3, <2>13
<1>5. CASE BeginAdvance
  <2>1. /\ pc = "boundary" /\ pc' = "begin_swap" /\ epoch' = epoch + 1
        /\ UNCHANGED <<immediateStage, deferredNext, deferredReady, compositeStage, regionActive, inHand, regions, lost>>
    BY <1>5 DEF BeginAdvance, stages, history
  <2>2. PublishEpoch' = PublishEpoch
    BY <2>1 DEF PublishEpoch
  <2>3. compositeStage = <<>> /\ X = {}
    BY <2>1, SmallOrders DEF StagesPlaced
  <2> QED
    BY <2>1, <2>2, <2>3 DEF StagesPlaced, HandPlaced
<1>6. CASE BeginSwap
  <2>1. /\ pc = "begin_swap" /\ pc' = "begin_commit" /\ inHand' = deferredReady /\ deferredReady' = <<>>
        /\ UNCHANGED <<immediateStage, deferredNext, compositeStage, regionActive, epoch, regions, lost>>
    BY <1>6 DEF BeginSwap, history
  <2>2. PublishEpoch' = PublishEpoch /\ PublishEpoch = epoch
    BY <2>1 DEF PublishEpoch
  <2> QED
    BY <2>1, <2>2, SmallOrders DEF StagesPlaced, HandPlaced
<1>7. CASE BeginCommit
  <2>1. /\ pc = "begin_commit" /\ pc' \in {"begin_count", "failed"} /\ inHand' = inHand
        /\ pc' = "begin_count" => lost' = lost
        /\ UNCHANGED <<immediateStage, deferredNext, deferredReady, compositeStage, regionActive, epoch, regions>>
    BY <1>7, CommitOutcome DEF BeginCommit, stages, Accepts, Refuses
  <2>2. PublishEpoch' = PublishEpoch
    BY <2>1 DEF PublishEpoch
  <2> QED
    BY <2>1, <2>2 DEF StagesPlaced, HandPlaced
<1>8. CASE BeginCount
  <2>1. /\ pc = "begin_count" /\ pc' = "run" /\ inHand' = <<>>
        /\ UNCHANGED <<immediateStage, deferredNext, deferredReady, compositeStage, regionActive, epoch, regions, lost>>
    BY <1>8 DEF BeginCount, stages, history
  <2>2. PublishEpoch' = PublishEpoch
    BY <2>1 DEF PublishEpoch
  <2> QED
    BY <2>1, <2>2 DEF StagesPlaced, HandPlaced
<1>9. CASE CommitSwap
  <2>1. /\ pc = "run" /\ pc' = "commit" /\ inHand' = immediateStage /\ immediateStage' = <<>>
        /\ UNCHANGED <<deferredNext, deferredReady, compositeStage, regionActive, epoch, regions, lost>>
    BY <1>9 DEF CommitSwap, history
  <2>2. PublishEpoch' = PublishEpoch /\ PublishEpoch = epoch
    BY <2>1 DEF PublishEpoch
  <2> QED
    BY <2>1, <2>2, SmallOrders DEF StagesPlaced, HandPlaced
<1>10. CASE CommitImmediate \/ CommitRegionBatch
  <2>1. /\ pc \in {"commit", "region_commit"} /\ pc' \in {"run", "failed"} /\ inHand' = <<>>
        /\ pc' = "run" => lost' = lost
        /\ UNCHANGED <<immediateStage, deferredNext, deferredReady, compositeStage, regionActive, epoch, regions>>
    BY <1>10, CommitOutcome DEF CommitImmediate, CommitRegionBatch, stages, Accepts, Refuses
  <2>2. PublishEpoch' = PublishEpoch
    BY <2>1 DEF PublishEpoch
  <2> QED
    BY <2>1, <2>2 DEF StagesPlaced, HandPlaced
<1>11. CASE BeginRegion
  <2>1. /\ pc = "run" /\ pc' = pc /\ regionActive' = TRUE /\ regions' = regions + 1 /\ compositeStage' = <<>>
        /\ UNCHANGED <<immediateStage, deferredNext, deferredReady, inHand, epoch, lost>>
    BY <1>11 DEF BeginRegion
  <2>2. PublishEpoch' = PublishEpoch /\ regions' > 0
    BY <1>2, <2>1 DEF PublishEpoch
  <2> QED
    BY <2>1, <2>2, SmallOrders DEF StagesPlaced, HandPlaced
<1>12. CASE CommitRegion
  <2>1. /\ pc = "run" /\ regionActive /\ pc' = "region_commit" /\ regionActive' = FALSE /\ compositeStage' = <<>>
        /\ deferredNext' = deferredNext \o DeferredOf(compositeStage)
        /\ inHand' = ImmediateOf(compositeStage)
        /\ UNCHANGED <<immediateStage, deferredReady, epoch, regions, lost>>
    BY <1>12 DEF CommitRegion, history
  <2>2. PublishEpoch' = PublishEpoch /\ PublishEpoch = epoch
    BY <2>1 DEF PublishEpoch
  <2>3. ItemsOf(deferredNext') = N \cup ItemsOf(DeferredOf(compositeStage))
    BY <1>1, <2>1, RegionParts, ConcatFacts
  <2>4. \A p \in ItemsOf(deferredNext') : Deferred(p.ch) /\ p.epoch = PublishEpoch
    BY <2>2, <2>3, RegionParts DEF StagesPlaced
  <2>5. \A p \in ItemsOf(inHand') : ~Deferred(p.ch) /\ p.ch \in LoopExternal /\ p.region = regions /\ p.epoch = epoch
    BY <2>1, RegionParts DEF StagesPlaced
  <2> QED
    BY <2>1, <2>2, <2>4, <2>5, SmallOrders DEF StagesPlaced, HandPlaced
<1>13. CASE DiscardRegion
  <2>1. /\ pc = "run" /\ pc' = pc /\ regionActive' = FALSE /\ compositeStage' = <<>>
        /\ UNCHANGED <<immediateStage, deferredNext, deferredReady, inHand, epoch, regions, lost>>
    BY <1>13 DEF DiscardRegion
  <2>2. PublishEpoch' = PublishEpoch
    BY <2>1 DEF PublishEpoch
  <2> QED
    BY <2>1, <2>2, SmallOrders DEF StagesPlaced, HandPlaced
<1>14. CASE ComponentFails
  <2>1. /\ pc = "run" /\ pc' = "failed"
        /\ UNCHANGED <<immediateStage, deferredNext, deferredReady, compositeStage, regionActive, inHand, epoch, regions, lost>>
    BY <1>14 DEF ComponentFails, stages, history
  <2>2. PublishEpoch' = PublishEpoch
    BY <2>1 DEF PublishEpoch
  <2> QED
    BY <2>1, <2>2 DEF StagesPlaced, HandPlaced
<1>15. CASE EndEpoch
  <2>1. /\ pc = "run" /\ ~regionActive /\ pc' = "boundary"
        /\ deferredReady' = deferredReady \o deferredNext /\ deferredNext' = <<>>
        /\ UNCHANGED <<immediateStage, compositeStage, regionActive, inHand, epoch, regions, lost>>
    BY <1>15 DEF EndEpoch, history
  <2>2. PublishEpoch' = epoch + 1 /\ PublishEpoch = epoch
    BY <2>1 DEF PublishEpoch
  <2>3. deferredReady = <<>> /\ R = {}
    BY <2>1, SmallOrders DEF StagesPlaced
  <2>4. ItemsOf(deferredReady') = R \cup N
    BY <1>1, <2>1, ConcatFacts
  <2>5. \A p \in ItemsOf(deferredReady') : Deferred(p.ch) /\ p.epoch + 1 = epoch + 1
    BY <2>2, <2>3, <2>4 DEF StagesPlaced
  <2>6. I \subseteq Publication
    BY <1>1, ItemsType
  <2>7. \A p \in I : p.epoch <= epoch + 1
    <3>1. \A p \in I : p.epoch \in Nat /\ p.epoch <= epoch
      BY <2>2, <2>6 DEF StagesPlaced, Publication
    <3> QED
      BY <1>2, <3>1
  <2> QED
    BY <2>1, <2>2, <2>5, <2>7, SmallOrders DEF StagesPlaced, HandPlaced
<1>16. ASSUME NEW ch \in Channels, ReadInput(ch) PROVE StagesPlaced' /\ HandPlaced'
  <2>1. UNCHANGED <<pc, immediateStage, deferredNext, deferredReady, compositeStage, regionActive, inHand, epoch, regions, lost>>
    BY <1>16 DEF ReadInput, stages, history
  <2>2. PublishEpoch' = PublishEpoch
    BY <2>1 DEF PublishEpoch
  <2> QED
    BY <2>1, <2>2 DEF StagesPlaced, HandPlaced
<1> QED
  BY <1>3, <1>4, <1>5, <1>6, <1>7, <1>8, <1>9, <1>10, <1>11, <1>12, <1>13, <1>14, <1>15, <1>16 DEF Next

-----------------------------------------------------------------------------
(* What the bus accepted, and when.                                        *)

\* The places of the runtime thread from which a batch is handed to the bus.
Committing == {"begin_commit", "commit", "region_commit"}

\* A step either leaves the committed publications alone or settles the batch in hand.
LEMMA SettleKinds ==
    ASSUME TypeOK, [Next]_vars
    PROVE  \/ /\ UNCHANGED <<committed, committedCount, lost>>
              /\ epoch' \in {epoch, epoch + 1}
              /\ pc' = "begin_count" => pc = "begin_count"
           \/ /\ pc \in Committing
              /\ (Accepts("begin_count") /\ pc = "begin_commit") \/ (Accepts("run") /\ pc # "begin_commit") \/ Refuses
              /\ IF pc = "begin_commit" THEN inHand' = inHand ELSE inHand' = <<>>
              /\ UNCHANGED <<stages, regionActive, stagedCount, discardedCount, evictedCount,
                             epoch, publishes, regions, discarded>>
<1>1. CASE BeginCommit
  BY <1>1, CommitOutcome DEF BeginCommit, Committing
<1>2. CASE CommitImmediate \/ CommitRegionBatch
  BY <1>2, CommitOutcome DEF CommitImmediate, CommitRegionBatch, Committing
<1>3. CASE UNCHANGED vars
  BY <1>3 DEF vars, metrics, history
<1>4. ASSUME NEW s \in Sources, Publish(s)
      PROVE  UNCHANGED <<committed, committedCount, lost, pc, epoch>>
  BY <1>4, PublishStages
<1>5. CASE BeginAdvance \/ BeginSwap \/ BeginCount \/ CommitSwap \/ ComponentFails \/ EndEpoch
  BY <1>5 DEF BeginAdvance, BeginSwap, BeginCount, CommitSwap, ComponentFails, EndEpoch, metrics, history
<1>6. CASE BeginRegion \/ CommitRegion \/ DiscardRegion
  BY <1>6 DEF BeginRegion, CommitRegion, DiscardRegion, metrics, history
<1>7. ASSUME NEW ch \in Channels, ReadInput(ch)
      PROVE  UNCHANGED <<committed, committedCount, lost, pc, epoch>>
  BY <1>7 DEF ReadInput, metrics, history
<1> QED
  BY <1>1, <1>2, <1>3, <1>4, <1>5, <1>6, <1>7 DEF Next

LEMMA CommittedEntries ==
    ASSUME TypeOK, NEW next, Accepts(next), NEW ch \in Channels
    PROVE  /\ Len(committed'[ch]) = Len(committed[ch]) + Tally(inHand, OnEdge(ch))
           /\ \A i \in DOMAIN committed[ch] : i \in DOMAIN committed'[ch] /\ committed'[ch][i] = committed[ch][i]
           /\ \A i \in DOMAIN committed'[ch] :
                 \/ i \in DOMAIN committed[ch]
                 \/ \E p \in ItemsOf(inHand) : p.ch = ch /\ committed'[ch][i] = [pub |-> p, at |-> epoch]
           /\ InOrder(inHand) =>
                 \A i, j \in DOMAIN committed'[ch] : i < j =>
                     \/ i \in DOMAIN committed[ch] /\ j \in DOMAIN committed[ch]
                     \/ i \in DOMAIN committed[ch] /\ \E p \in ItemsOf(inHand) : p.ch = ch /\ committed'[ch][j].pub = p
                     \/ committed'[ch][i].pub.id < committed'[ch][j].pub.id
<1> DEFINE old == committed[ch]
           mine == OnChannel(inHand, ch)
           more == Stamped(mine)
           T == [pub : Publication, at : Nat]
           u == old \o more
<1>1. mine = Those(inHand, OnEdge(ch)) /\ inHand \in Seq(Publication)
  BY StageTypes, Filters
<1>2. /\ Those(inHand, OnEdge(ch)) \in Seq(Publication)
      /\ ItemsOf(Those(inHand, OnEdge(ch))) = ItemsOf(inHand) \cap OnEdge(ch)
      /\ Len(Those(inHand, OnEdge(ch))) = Tally(inHand, OnEdge(ch))
      /\ InOrder(inHand) => InOrder(Those(inHand, OnEdge(ch)))
  BY <1>1, ThoseFacts
<1>3. /\ mine \in Seq(Publication) /\ ItemsOf(mine) = ItemsOf(inHand) \cap OnEdge(ch)
      /\ Len(mine) = Tally(inHand, OnEdge(ch))
      /\ InOrder(inHand) => InOrder(mine)
  BY <1>1, <1>2
<1>4. committed'[ch] = u
  BY DEF Accepts
<1> HIDE DEF mine
<1>5. /\ more \in Seq(T) /\ Len(more) = Len(mine) /\ DOMAIN more = DOMAIN mine
      /\ \A i \in DOMAIN mine : more[i] = [pub |-> mine[i], at |-> epoch]
  BY <1>3, StampedType
<1>6. old \in Seq(T)
  BY DEF TypeOK
<1>7. Len(old) \in Nat /\ DOMAIN old = 1 .. Len(old) /\ Len(more) \in Nat /\ DOMAIN more = 1 .. Len(more)
  BY <1>5, <1>6, LenProperties
<1> HIDE DEF old, more
<1>8. /\ Len(u) = Len(old) + Len(more) /\ DOMAIN u = 1 .. Len(old) + Len(more)
      /\ \A k \in 1 .. Len(old) + Len(more) : u[k] = IF k <= Len(old) THEN old[k] ELSE more[k - Len(old)]
  <2> HIDE DEF T
  <2> QED
    BY <1>5, <1>6, ConcatEntries
<1> HIDE DEF u
<1>9. \A i \in DOMAIN old : i \in DOMAIN u /\ u[i] = old[i]
  BY <1>7, <1>8
<1>10. \A i \in DOMAIN u : i \in DOMAIN old \/ (i - Len(old) \in DOMAIN more /\ u[i] = more[i - Len(old)])
  BY <1>7, <1>8
<1>11. \A i \in DOMAIN mine : mine[i] \in ItemsOf(inHand) /\ mine[i].ch = ch
  BY <1>3 DEF ItemsOf, OnEdge
<1>12. \A i \in DOMAIN u :
         \/ i \in DOMAIN old
         \/ \E p \in ItemsOf(inHand) : p.ch = ch /\ u[i] = [pub |-> p, at |-> epoch]
  BY <1>5, <1>10, <1>11
<1>13. ASSUME InOrder(inHand), NEW i \in DOMAIN u, NEW j \in DOMAIN u, i < j
       PROVE  \/ i \in DOMAIN old /\ j \in DOMAIN old
              \/ i \in DOMAIN old /\ \E p \in ItemsOf(inHand) : p.ch = ch /\ u[j].pub = p
              \/ u[i].pub.id < u[j].pub.id
  <2>1. CASE j \in DOMAIN old
    BY <1>7, <1>8, <1>13, <2>1
  <2>2. CASE i \in DOMAIN old /\ j \notin DOMAIN old
    <3>1. PICK p \in ItemsOf(inHand) : p.ch = ch /\ u[j] = [pub |-> p, at |-> epoch]
      BY <1>12, <2>2
    <3> QED
      BY <2>2, <3>1
  <2>3. CASE i \notin DOMAIN old /\ j \notin DOMAIN old
    <3> DEFINE k == i - Len(old)
               l == j - Len(old)
    <3>1. k \in DOMAIN more /\ l \in DOMAIN more /\ u[i] = more[k] /\ u[j] = more[l]
      BY <1>10, <2>3
    <3>2. k < l
      BY <1>7, <1>8, <1>13
    <3> HIDE DEF k, l
    <3>3. mine[k].ch = mine[l].ch /\ u[i].pub = mine[k] /\ u[j].pub = mine[l]
      BY <1>5, <1>11, <3>1
    <3>4. mine[k].id < mine[l].id
      BY <1>3, <1>5, <1>13, <3>1, <3>2, <3>3 DEF InOrder
    <3> QED
      BY <3>3, <3>4
  <2>4. i \notin DOMAIN old => j \notin DOMAIN old
    BY <1>7, <1>8, <1>13
  <2> QED
    BY <2>1, <2>2, <2>3, <2>4
<1>14. Len(u) = Len(old) + Tally(inHand, OnEdge(ch))
  BY <1>3, <1>5, <1>8
<1> QED
  BY <1>4, <1>9, <1>12, <1>13, <1>14 DEF old

LEMMA PastGrows ==
    ASSUME TypeOK, NEW next, Accepts(next)
    PROVE  Past' \subseteq Past \cup ItemsOf(inHand)
<1> SUFFICES ASSUME NEW ch \in Channels, NEW i \in DOMAIN committed'[ch]
             PROVE  committed'[ch][i].pub \in Past \cup ItemsOf(inHand)
  BY DEF Past, CommittedPubs
<1>1. CASE i \in DOMAIN committed[ch]
  <2>1. committed'[ch][i] = committed[ch][i]
    BY <1>1, CommittedEntries
  <2> QED
    BY <1>1, <2>1 DEF Past, CommittedPubs
<1>2. CASE \E p \in ItemsOf(inHand) : p.ch = ch /\ committed'[ch][i] = [pub |-> p, at |-> epoch]
  BY <1>2
<1> QED
  BY <1>1, <1>2, CommittedEntries

LEMMA PastType ==
    ASSUME TypeOK
    PROVE  Past \subseteq Publication
<1> SUFFICES ASSUME NEW ch \in Channels, NEW i \in DOMAIN committed[ch]
             PROVE  committed[ch][i].pub \in Publication
  BY DEF Past, CommittedPubs
<1>1. committed[ch] \in Seq([pub : Publication, at : Nat])
  BY DEF TypeOK
<1>2. committed[ch][i] \in [pub : Publication, at : Nat]
  BY <1>1, LenProperties, ElementOfSeq
<1> QED
  BY <1>2

\* A deferred publication is committed in the epoch after its own.
LEMMA DatedStep ==
    ASSUME TypeOK, HandPlaced, Dated, [Next]_vars
    PROVE  Dated'
<1> SUFFICES ASSUME NEW ch \in Channels, NEW i \in DOMAIN committed'[ch]
             PROVE  LET c == committed'[ch][i]
                    IN  /\ c.pub.ch = ch /\ c.at <= epoch' /\ c.pub.epoch <= c.at
                        /\ Deferred(ch) => c.at = c.pub.epoch + 1
  BY DEF Dated
<1> DEFINE c == committed'[ch][i]
<1>1. epoch \in Nat
  BY DEF TypeOK
<1>2. ASSUME i \in DOMAIN committed[ch], c = committed[ch][i], epoch' \in {epoch, epoch + 1}
      PROVE  /\ c.pub.ch = ch /\ c.at <= epoch' /\ c.pub.epoch <= c.at
             /\ Deferred(ch) => c.at = c.pub.epoch + 1
  <2>1. committed[ch] \in Seq([pub : Publication, at : Nat])
    BY DEF TypeOK
  <2>2. committed[ch][i] \in [pub : Publication, at : Nat]
    BY <1>2, <2>1, LenProperties, ElementOfSeq
  <2>3. c.at \in Nat
    BY <1>2, <2>2
  <2>4. c.pub.ch = ch /\ c.at <= epoch /\ c.pub.epoch <= c.at /\ (Deferred(ch) => c.at = c.pub.epoch + 1)
    BY <1>2 DEF Dated
  <2>5. c.at <= epoch'
    <3> HIDE DEF c
    <3> QED
      BY <1>1, <1>2, <2>3, <2>4
  <2> QED
    BY <2>4, <2>5
<1>3. CASE UNCHANGED committed /\ epoch' \in {epoch, epoch + 1}
  BY <1>2, <1>3
<1>4. ASSUME NEW next, Accepts(next), pc \in Committing, epoch' = epoch
      PROVE  /\ c.pub.ch = ch /\ c.at <= epoch' /\ c.pub.epoch <= c.at
             /\ Deferred(ch) => c.at = c.pub.epoch + 1
  <2>1. CASE i \in DOMAIN committed[ch]
    BY <1>2, <1>4, <2>1, CommittedEntries
  <2>2. CASE \E p \in ItemsOf(inHand) : p.ch = ch /\ c = [pub |-> p, at |-> epoch]
    <3>1. PICK p \in ItemsOf(inHand) : p.ch = ch /\ c = [pub |-> p, at |-> epoch]
      BY <2>2
    <3>2. p \in Publication
      BY StageTypes, ItemsType
    <3>3. p.epoch \in Nat
      BY <3>2 DEF Publication
    <3>4. p.epoch <= epoch /\ (Deferred(ch) => epoch = p.epoch + 1)
      BY <1>1, <1>4, <3>1, <3>3 DEF HandPlaced, Committing
    <3> HIDE DEF c
    <3>5. c.pub = p /\ c.at = epoch
      BY <3>1
    <3> QED
      BY <1>1, <1>4, <3>1, <3>4, <3>5
  <2> QED
    BY <1>4, <2>1, <2>2, CommittedEntries
<1>5. CASE Refuses /\ epoch' = epoch
  BY <1>2, <1>5 DEF Refuses
<1> QED
  BY <1>3, <1>4, <1>5, SettleKinds

-----------------------------------------------------------------------------
(* Order.                                                                  *)

LEMMA IdTypes ==
    ASSUME TypeOK
    PROVE  /\ publishes \in Nat /\ \A p \in Publication : p.id \in Nat
           /\ ItemsOf(immediateStage) \subseteq Publication /\ ItemsOf(inHand) \subseteq Publication
           /\ Waiting \subseteq Publication /\ Past \subseteq Publication
           /\ ItemsOf(deferredReady) \subseteq Waiting /\ ItemsOf(deferredNext) \subseteq Waiting
           /\ ItemsOf(compositeStage) \subseteq Waiting
BY StageTypes, ItemsType, PastType, PendingFacts DEF TypeOK, Publication, Waiting

\* Publishing: what is new comes last.
LEMMA LinesPublish ==
    ASSUME TypeOK, StagesPlaced, Lines, NEW s \in Sources, Publish(s)
    PROVE  Lines'
<1> DEFINE I == ItemsOf(immediateStage)
           N == ItemsOf(deferredNext)
           R == ItemsOf(deferredReady)
           X == ItemsOf(compositeStage)
           NI == ItemsOf(NewImmediate(s))
           ND == ItemsOf(NewDeferred(s))
           NH == ItemsOf(NewHeld(s))
           kn == Keep(deferredNext, Evictions(s))
           kx == Keep(compositeStage, Evictions(s))
<1>1. /\ immediateStage \in Seq(Publication) /\ deferredNext \in Seq(Publication)
      /\ deferredReady \in Seq(Publication) /\ compositeStage \in Seq(Publication)
  BY StageTypes
<1>2. /\ NewImmediate(s) \in Seq(Publication) /\ NewDeferred(s) \in Seq(Publication) /\ NewHeld(s) \in Seq(Publication)
      /\ InOrder(NewImmediate(s)) /\ InOrder(NewDeferred(s)) /\ InOrder(NewHeld(s))
  BY NewSplit
<1>3. \A p \in NI \cup ND \cup NH : p.id = publishes + 1
  BY NewItems
<1>4. \A p \in I \cup R \cup N \cup X \cup Past \cup ItemsOf(inHand) : p.id \in Nat /\ p.id <= publishes
  BY IdTypes DEF Lines, Early, Waiting
<1>5. publishes \in Nat /\ publishes' = publishes + 1
  BY IdTypes, PublishStages
<1>6. \A p \in I \cup R \cup N \cup X \cup Past \cup ItemsOf(inHand) : p.id < publishes + 1 /\ p.id <= publishes + 1
  BY <1>4, <1>5
<1>7. InOrder(immediateStage) /\ InOrder(deferredNext) /\ InOrder(deferredReady) /\ InOrder(compositeStage) /\ InOrder(inHand)
  BY DEF Lines
<1>8. /\ ItemsOf(immediateStage') = I \cup NI /\ ItemsOf(deferredNext') \subseteq N \cup ND
      /\ ItemsOf(deferredReady') \subseteq R /\ ItemsOf(compositeStage') \subseteq X \cup NH
  BY PublishTypes
<1>9. InOrder(immediateStage')
  <2>1. \A p \in I, q \in NI : p.id < q.id
    BY <1>3, <1>6
  <2>2. InOrder(immediateStage \o NewImmediate(s))
    BY <1>1, <1>2, <1>7, <2>1, OrderConcat
  <2> QED
    BY <2>2, PublishStages
<1>10. InOrder(deferredNext')
  <2>1. kn \in Seq(Publication) /\ ItemsOf(kn) \subseteq N /\ InOrder(kn)
    BY <1>1, <1>7, KeepFacts
  <2>2. \A p \in ItemsOf(kn), q \in ND : p.id < q.id
    BY <1>3, <1>6, <2>1
  <2> HIDE DEF kn
  <2>3. InOrder(kn \o NewDeferred(s))
    BY <1>2, <2>1, <2>2, OrderConcat
  <2> QED
    BY <2>3, PublishStages DEF kn
<1>11. InOrder(compositeStage')
  <2>1. kx \in Seq(Publication) /\ ItemsOf(kx) \subseteq X /\ InOrder(kx)
    BY <1>1, <1>7, KeepFacts
  <2>2. \A p \in ItemsOf(kx), q \in NH : p.id < q.id
    BY <1>3, <1>6, <2>1
  <2> HIDE DEF kx
  <2>3. InOrder(kx \o NewHeld(s))
    BY <1>2, <2>1, <2>2, OrderConcat
  <2> QED
    BY <2>3, PublishStages DEF kx
<1>12. InOrder(deferredReady')
  <2>1. InOrder(Keep(deferredReady, Evictions(s)))
    BY <1>1, <1>7, KeepFacts
  <2> QED
    BY <2>1, PublishStages
<1>13. UNCHANGED <<committed, inHand>>
  BY PublishStages
<1>14. Past' = Past
  BY <1>13 DEF Past, CommittedPubs
<1>15. \A p \in NI \cup ND \cup NH : p.id <= publishes + 1
  BY <1>3, <1>5
<1>16. /\ Early(Past)' /\ Early(ItemsOf(inHand))' /\ Early(ItemsOf(immediateStage))' /\ Early(Waiting)'
  BY <1>5, <1>6, <1>8, <1>13, <1>14, <1>15 DEF Early, Waiting
<1>17. /\ Before(R, N) /\ Before(R, X) /\ Before(N, X)
  BY DEF Lines
<1>18. Before(R, N \cup ND) /\ Before(R, X \cup NH)
  BY <1>3, <1>6, <1>17 DEF Before
<1>19. Before(N \cup ND, X \cup NH)
  <2>1. \A p \in ND : ~Composite(p.ch)
    BY NewItems
  <2>2. \A q \in NH : Composite(q.ch)
    BY NewItems
  <2>3. \A q \in X : Composite(q.ch)
    <3>1. X # {} => compositeStage # <<>>
      BY SmallOrders
    <3> QED
      BY <3>1 DEF StagesPlaced, Composite
  <2>4. \A p \in N, q \in NH : p.id < q.id
    BY <1>3, <1>6
  <2> QED
    BY <1>17, <2>1, <2>2, <2>3, <2>4 DEF Before
<1>20. /\ Before(ItemsOf(deferredReady'), ItemsOf(deferredNext'))
       /\ Before(ItemsOf(deferredReady'), ItemsOf(compositeStage'))
       /\ Before(ItemsOf(deferredNext'), ItemsOf(compositeStage'))
  BY <1>8, <1>18, <1>19 DEF Before
<1>21. InOrder(inHand)'
  BY <1>7, <1>13
<1> QED
  BY <1>9, <1>10, <1>11, <1>12, <1>16, <1>20, <1>21 DEF Lines, Before, InLine, Deferred, InOrder

LEMMA LinesStep ==
    ASSUME TypeOK, StagesPlaced, Lines, [Next]_vars
    PROVE  Lines'
<1> DEFINE N == ItemsOf(deferredNext)
           R == ItemsOf(deferredReady)
           X == ItemsOf(compositeStage)
<1>1. /\ immediateStage \in Seq(Publication) /\ deferredNext \in Seq(Publication)
      /\ deferredReady \in Seq(Publication) /\ compositeStage \in Seq(Publication)
      /\ inHand \in Seq(Publication)
  BY StageTypes
<1>2. /\ InOrder(immediateStage) /\ InOrder(deferredNext) /\ InOrder(deferredReady) /\ InOrder(compositeStage)
      /\ InOrder(inHand) /\ InOrder(<<>>) /\ ItemsOf(<<>>) = {}
      /\ Before(R, N) /\ Before(R, X) /\ Before(N, X)
  BY SmallOrders DEF Lines
<1>3. /\ \A p \in Past : p.id <= publishes
      /\ \A p \in ItemsOf(inHand) : p.id <= publishes
      /\ \A p \in ItemsOf(immediateStage) : p.id <= publishes
      /\ \A p \in R \cup N \cup X : p.id <= publishes
  BY DEF Lines, Early, Waiting
<1>4. ASSUME publishes' = publishes, UNCHANGED committed,
             InOrder(immediateStage'), InOrder(deferredNext'), InOrder(deferredReady'),
             InOrder(compositeStage'), InOrder(inHand'),
             ItemsOf(immediateStage') \cup ItemsOf(inHand')
                 \cup ItemsOf(deferredNext') \cup ItemsOf(deferredReady') \cup ItemsOf(compositeStage')
               \subseteq ItemsOf(immediateStage) \cup ItemsOf(inHand) \cup R \cup N \cup X,
             Before(ItemsOf(deferredReady'), ItemsOf(deferredNext')),
             Before(ItemsOf(deferredReady'), ItemsOf(compositeStage')),
             Before(ItemsOf(deferredNext'), ItemsOf(compositeStage'))
      PROVE  Lines'
  <2>1. Past' = Past
    BY <1>4 DEF Past, CommittedPubs
  <2>2. Early(Past)' /\ Early(ItemsOf(inHand))' /\ Early(ItemsOf(immediateStage))' /\ Early(Waiting)'
    BY <1>3, <1>4, <2>1 DEF Early, Waiting
  <2> QED
    BY <1>4, <2>2 DEF Lines, Before, InOrder, InLine, Deferred
<1>5. CASE UNCHANGED <<stages, publishes>> /\ inHand' \in {inHand, <<>>} /\ UNCHANGED committed
  BY <1>2, <1>4, <1>5 DEF stages
<1>6. ASSUME UNCHANGED <<stages, publishes>>, inHand' \in {inHand, <<>>}, NEW next, Accepts(next)
      PROVE  Lines'
  <2>1. Past' \subseteq Past \cup ItemsOf(inHand)
    BY <1>6, PastGrows
  <2>2. InOrder(inHand') /\ ItemsOf(inHand') \subseteq ItemsOf(inHand)
    BY <1>2, <1>6
  <2>3. Early(Past)' /\ Early(ItemsOf(inHand))' /\ Early(ItemsOf(immediateStage))' /\ Early(Waiting)'
    BY <1>3, <1>6, <2>1, <2>2 DEF Early, Waiting, stages
  <2> QED
    BY <1>2, <1>6, <2>2, <2>3 DEF Lines, Before, InOrder, InLine, Deferred, stages
<1>7. ASSUME NEW s \in Sources, Publish(s) PROVE Lines'
  BY <1>7, LinesPublish
<1>8. CASE UNCHANGED vars
  BY <1>5, <1>8 DEF vars, history
<1>9. CASE BeginAdvance \/ BeginCount \/ ComponentFails
  BY <1>5, <1>9 DEF BeginAdvance, BeginCount, ComponentFails, history
<1>10. ASSUME NEW ch \in Channels, ReadInput(ch) PROVE Lines'
  BY <1>5, <1>10 DEF ReadInput, history
<1>11. CASE BeginCommit
  <2>1. CommitBatch("begin_count") /\ inHand' = inHand
    BY <1>11 DEF BeginCommit
  <2>2. (Accepts("begin_count") \/ Refuses) /\ UNCHANGED <<stages, publishes>>
    BY <2>1, CommitOutcome
  <2> QED
    BY <1>5, <1>6, <2>1, <2>2 DEF Refuses
<1>12. CASE CommitImmediate \/ CommitRegionBatch
  <2>1. CommitBatch("run") /\ inHand' = <<>>
    BY <1>12 DEF CommitImmediate, CommitRegionBatch
  <2>2. (Accepts("run") \/ Refuses) /\ UNCHANGED <<stages, publishes>>
    BY <2>1, CommitOutcome
  <2> QED
    BY <1>5, <1>6, <2>1, <2>2 DEF Refuses
<1>13. CASE BeginSwap
  <2>1. /\ inHand' = deferredReady /\ deferredReady' = <<>>
        /\ UNCHANGED <<immediateStage, deferredNext, compositeStage, publishes, committed>>
    BY <1>13 DEF BeginSwap, history
  <2>2. Before({}, N) /\ Before({}, X)
    BY DEF Before
  <2> QED
    BY <1>2, <1>4, <2>1, <2>2
<1>14. CASE CommitSwap
  <2>1. /\ inHand' = immediateStage /\ immediateStage' = <<>>
        /\ UNCHANGED <<deferredReady, deferredNext, compositeStage, publishes, committed>>
    BY <1>14 DEF CommitSwap, history
  <2> QED
    BY <1>2, <1>4, <2>1
<1>15. CASE BeginRegion \/ DiscardRegion
  <2>1. /\ compositeStage' = <<>>
        /\ UNCHANGED <<deferredReady, deferredNext, immediateStage, inHand, publishes, committed>>
    BY <1>15 DEF BeginRegion, DiscardRegion
  <2>2. Before(R, {}) /\ Before(N, {})
    BY DEF Before
  <2> QED
    BY <1>2, <1>4, <2>1, <2>2
<1>16. CASE CommitRegion
  <2> DEFINE D == DeferredOf(compositeStage)
  <2>1. /\ compositeStage' = <<>> /\ deferredNext' = deferredNext \o D /\ inHand' = ImmediateOf(compositeStage)
        /\ UNCHANGED <<deferredReady, immediateStage, publishes, committed>>
    BY <1>16 DEF CommitRegion, history
  <2>2. /\ D \in Seq(Publication) /\ InOrder(D) /\ InOrder(ImmediateOf(compositeStage))
        /\ ItemsOf(D) = {p \in X : Deferred(p.ch)} /\ ItemsOf(ImmediateOf(compositeStage)) \subseteq X
    BY <1>2, RegionParts
  <2>3. \A p \in N, q \in ItemsOf(D) : p.ch = q.ch => p.id < q.id
    BY <1>2, <2>2 DEF Before, InLine
  <2> HIDE DEF D
  <2>4. InOrder(deferredNext \o D) /\ ItemsOf(deferredNext \o D) = N \cup ItemsOf(D)
    BY <1>1, <1>2, <2>2, <2>3, OrderConcat, ConcatFacts
  <2>5. Before(R, N \cup ItemsOf(D)) /\ Before(R, {}) /\ Before(N \cup ItemsOf(D), {})
    BY <1>2, <2>2 DEF Before
  <2> QED
    BY <1>2, <1>4, <2>1, <2>2, <2>4, <2>5
<1>17. CASE EndEpoch
  <2>1. /\ pc = "run" /\ deferredReady' = deferredReady \o deferredNext /\ deferredNext' = <<>>
        /\ UNCHANGED <<immediateStage, compositeStage, inHand, publishes, committed>>
    BY <1>17 DEF EndEpoch, history
  <2>2. deferredReady = <<>> /\ R = {}
    BY <1>2, <2>1 DEF StagesPlaced
  <2>3. ItemsOf(deferredReady') = N
    BY <1>1, <2>1, <2>2, ConcatFacts
  <2>4. InOrder(deferredReady')
    <3>1. \A p \in R, q \in N : p.ch = q.ch => p.id < q.id
      BY <2>2
    <3>2. InOrder(deferredReady \o deferredNext)
      BY <1>1, <1>2, <3>1, OrderConcat
    <3> QED
      BY <2>1, <3>2
  <2>5. Before(N, {}) /\ Before({}, X)
    BY DEF Before
  <2> QED
    BY <1>2, <1>4, <2>1, <2>3, <2>4, <2>5
<1> QED
  BY <1>7, <1>8, <1>9, <1>10, <1>11, <1>12, <1>13, <1>14, <1>15, <1>16, <1>17 DEF Next

\* On a channel in line, older publications are further down the pipe.
LEMMA PipeStep ==
    ASSUME TypeOK, StagesPlaced, HandPlaced, Dated, Lines, Pipe, [Next]_vars
    PROVE  Pipe'
<1> DEFINE I == ItemsOf(immediateStage)
           H == ItemsOf(InHand)
           N == ItemsOf(deferredNext)
           R == ItemsOf(deferredReady)
           X == ItemsOf(compositeStage)
           Sorted == \A ch \in Channels : InLine(ch) =>
                       \A i, j \in DOMAIN committed[ch] : i < j => committed[ch][i].pub.id < committed[ch][j].pub.id
<1>1. Waiting = R \cup N \cup X /\ ItemsOf(<<>>) = {}
  BY SmallOrders DEF Waiting
<1>2. pc # "failed" => /\ Sorted /\ Before(Past, H) /\ Before(Past, I) /\ Before(Past, Waiting)
                       /\ Before(H, I) /\ Before(H, Waiting)
  BY DEF Pipe
<1>3. ASSUME UNCHANGED committed, pc # "failed",
             Before(Past, ItemsOf(InHand)'), Before(Past, ItemsOf(immediateStage')), Before(Past, Waiting'),
             Before(ItemsOf(InHand)', ItemsOf(immediateStage')), Before(ItemsOf(InHand)', Waiting')
      PROVE  Pipe'
  <2>1. Past' = Past
    BY <1>3 DEF Past, CommittedPubs
  <2>2. Sorted'
    BY <1>2, <1>3 DEF InLine, Deferred
  <2> QED
    BY <1>3, <2>1, <2>2 DEF Pipe, Before, InLine, Deferred
<1>4. CASE UNCHANGED committed /\ pc # "failed" /\ ItemsOf(InHand)' = H /\ ItemsOf(immediateStage') = I /\ Waiting' \subseteq Waiting
  <2>1. Before(Past, Waiting') /\ Before(H, Waiting')
    BY <1>2, <1>4 DEF Before
  <2> QED
    BY <1>2, <1>3, <1>4, <2>1
<1>5. ASSUME UNCHANGED stages, InHand' = <<>>, InHand = inHand, pc # "failed", NEW next, Accepts(next)
      PROVE  Pipe'
  <2>1. Past' \subseteq Past \cup H
    BY <1>5, PastGrows
  <2>2. Sorted'
    <3> SUFFICES ASSUME NEW ch \in Channels, InLine(ch), NEW i \in DOMAIN committed'[ch], NEW j \in DOMAIN committed'[ch], i < j
                 PROVE  committed'[ch][i].pub.id < committed'[ch][j].pub.id
      BY DEF InLine, Deferred
    <3>1. InOrder(inHand)
      BY DEF Lines
    <3>2. \/ i \in DOMAIN committed[ch] /\ j \in DOMAIN committed[ch]
          \/ i \in DOMAIN committed[ch] /\ \E p \in ItemsOf(inHand) : p.ch = ch /\ committed'[ch][j].pub = p
          \/ committed'[ch][i].pub.id < committed'[ch][j].pub.id
      BY <1>5, <3>1, CommittedEntries
    <3>3. \A k \in DOMAIN committed[ch] : committed'[ch][k] = committed[ch][k]
      BY <1>5, CommittedEntries
    <3>4. CASE i \in DOMAIN committed[ch] /\ j \in DOMAIN committed[ch]
      BY <1>2, <1>5, <3>3, <3>4
    <3>5. CASE i \in DOMAIN committed[ch] /\ \E p \in ItemsOf(inHand) : p.ch = ch /\ committed'[ch][j].pub = p
      <4>1. PICK p \in ItemsOf(inHand) : p.ch = ch /\ committed'[ch][j].pub = p
        BY <3>5
      <4>2. committed[ch][i].pub \in Past /\ committed[ch][i].pub.ch = ch
        BY <3>5 DEF Past, CommittedPubs, Dated
      <4> QED
        BY <1>2, <1>5, <3>3, <3>5, <4>1, <4>2 DEF Before
    <3> QED
      BY <3>2, <3>4, <3>5
  <2>3. ItemsOf(immediateStage') = I /\ Waiting' = Waiting
    BY <1>5 DEF stages, Waiting
  <2>4. Before(Past', I) /\ Before(Past', Waiting)
    BY <1>2, <1>5, <2>1 DEF Before
  <2>5. Before(Past', {}) /\ Before({}, I) /\ Before({}, Waiting)
    BY DEF Before
  <2> QED
    BY <1>1, <1>5, <2>2, <2>3, <2>4, <2>5 DEF Pipe, Before, InLine, Deferred
<1>6. ASSUME NEW s \in Sources, Publish(s) PROVE Pipe'
  <2> DEFINE NI == ItemsOf(NewImmediate(s))
             ND == ItemsOf(NewDeferred(s))
             NH == ItemsOf(NewHeld(s))
  <2>1. UNCHANGED <<committed, pc, inHand>>
    BY <1>6, PublishStages
  <2>2. InHand' = InHand
    BY <2>1 DEF InHand
  <2>3. H \subseteq ItemsOf(inHand)
    BY SmallOrders DEF InHand
  <2>4. \A p \in Past \cup H, q \in NI \cup ND \cup NH : p.id < q.id
    <3>1. \A p \in Past \cup H : p.id \in Nat /\ p.id <= publishes
      BY <2>3, IdTypes DEF Lines, Early
    <3>2. publishes \in Nat /\ \A q \in NI \cup ND \cup NH : q.id = publishes + 1
      BY NewItems, IdTypes
    <3> QED
      BY <3>1, <3>2
  <2>5. ItemsOf(immediateStage') = I \cup NI /\ Waiting' \subseteq Waiting \cup ND \cup NH
    BY <1>6, PublishTypes DEF Waiting
  <2>6. ASSUME pc # "failed"
        PROVE  Before(Past, I \cup NI) /\ Before(Past, Waiting') /\ Before(H, I \cup NI) /\ Before(H, Waiting')
    BY <1>2, <2>4, <2>5, <2>6 DEF Before
  <2>7. CASE pc # "failed"
    BY <1>2, <1>3, <2>1, <2>2, <2>5, <2>6, <2>7
  <2> QED
    BY <2>1, <2>7 DEF Pipe
<1>7. CASE UNCHANGED vars
  <2>1. UNCHANGED <<committed, pc, inHand, immediateStage>> /\ Waiting' = Waiting
    BY <1>7 DEF vars, history, stages, Waiting
  <2>2. ItemsOf(InHand)' = H
    BY <2>1 DEF InHand
  <2> QED
    BY <1>4, <2>1, <2>2 DEF Pipe
<1>8. CASE BeginAdvance
  <2>1. UNCHANGED <<committed, inHand, immediateStage>> /\ Waiting' = Waiting /\ pc = "boundary" /\ pc' = "begin_swap"
    BY <1>8 DEF BeginAdvance, history, stages, Waiting
  <2>2. ItemsOf(InHand)' = H
    BY <2>1 DEF InHand
  <2> QED
    BY <1>4, <2>1, <2>2
<1>9. ASSUME NEW ch \in Channels, ReadInput(ch) PROVE Pipe'
  <2>1. UNCHANGED <<committed, pc, inHand, immediateStage>> /\ Waiting' = Waiting /\ pc = "run"
    BY <1>9 DEF ReadInput, history, stages, Waiting
  <2>2. ItemsOf(InHand)' = H
    BY <2>1 DEF InHand
  <2> QED
    BY <1>4, <2>1, <2>2
<1>10. CASE ComponentFails
  BY <1>10 DEF ComponentFails, Pipe
<1>11. CASE BeginCount
  <2>1. UNCHANGED <<committed, immediateStage>> /\ Waiting' = Waiting /\ pc = "begin_count" /\ pc' = "run" /\ inHand' = <<>>
    BY <1>11 DEF BeginCount, history, stages, Waiting
  <2>2. ItemsOf(InHand)' = H
    BY <2>1 DEF InHand
  <2> QED
    BY <1>4, <2>1, <2>2
<1>12. CASE BeginCommit
  <2>1. CommitBatch("begin_count") /\ pc = "begin_commit"
    BY <1>12 DEF BeginCommit
  <2>2. (Accepts("begin_count") \/ Refuses) /\ UNCHANGED stages
    BY <2>1, CommitOutcome
  <2>3. CASE Accepts("begin_count")
    <3>1. InHand' = <<>> /\ InHand = inHand
      BY <2>1, <2>3 DEF InHand, Accepts
    <3> QED
      BY <1>5, <2>1, <2>2, <2>3, <3>1
  <2> QED
    BY <2>2, <2>3 DEF Refuses, Pipe
<1>13. CASE CommitImmediate \/ CommitRegionBatch
  <2>1. CommitBatch("run") /\ inHand' = <<>> /\ pc \in {"commit", "region_commit"}
    BY <1>13 DEF CommitImmediate, CommitRegionBatch
  <2>2. (Accepts("run") \/ Refuses) /\ UNCHANGED stages
    BY <2>1, CommitOutcome
  <2>3. CASE Accepts("run")
    <3>1. InHand' = <<>> /\ InHand = inHand /\ pc # "failed"
      BY <2>1, <2>3 DEF InHand, Accepts
    <3> QED
      BY <1>5, <2>2, <2>3, <3>1
  <2> QED
    BY <2>2, <2>3 DEF Refuses, Pipe
<1>14. CASE BeginSwap
  <2>1. /\ pc = "begin_swap" /\ pc' = "begin_commit" /\ inHand' = deferredReady /\ deferredReady' = <<>>
        /\ UNCHANGED <<immediateStage, deferredNext, compositeStage, committed>>
    BY <1>14 DEF BeginSwap, history
  <2>2. ItemsOf(InHand)' = R /\ Waiting' = N \cup X
    BY <1>1, <2>1 DEF InHand, Waiting
  <2>3. Before(Past, R) /\ Before(Past, N \cup X)
    BY <1>1, <1>2, <2>1 DEF Before
  <2>4. Before(R, I)
    BY DEF Before, StagesPlaced
  <2>5. Before(R, N \cup X)
    BY DEF Lines, Before
  <2> QED
    BY <1>2, <1>3, <2>1, <2>2, <2>3, <2>4, <2>5
<1>15. CASE CommitSwap
  <2>1. /\ pc = "run" /\ pc' = "commit" /\ inHand' = immediateStage /\ immediateStage' = <<>>
        /\ UNCHANGED <<deferredReady, deferredNext, compositeStage, committed>>
    BY <1>15 DEF CommitSwap, history
  <2>2. ItemsOf(InHand)' = I /\ Waiting' = Waiting
    BY <2>1 DEF InHand, Waiting
  <2>3. Before(Past, {}) /\ Before(I, {})
    BY DEF Before
  <2>4. Before(I, Waiting)
    BY <1>1 DEF Before, StagesPlaced, InLine
  <2> QED
    BY <1>1, <1>2, <1>3, <2>1, <2>2, <2>3, <2>4
<1>16. CASE BeginRegion \/ DiscardRegion
  <2>1. /\ compositeStage' = <<>> /\ pc = "run" /\ pc' = pc
        /\ UNCHANGED <<deferredReady, deferredNext, immediateStage, inHand, committed>>
    BY <1>16 DEF BeginRegion, DiscardRegion
  <2>2. ItemsOf(InHand)' = H /\ Waiting' \subseteq Waiting
    BY <1>1, <2>1 DEF InHand, Waiting
  <2> QED
    BY <1>4, <2>1, <2>2
<1>17. CASE CommitRegion
  <2>1. /\ compositeStage' = <<>> /\ deferredNext' = deferredNext \o DeferredOf(compositeStage)
        /\ inHand' = ImmediateOf(compositeStage) /\ pc = "run" /\ pc' = "region_commit"
        /\ UNCHANGED <<deferredReady, immediateStage, committed>>
    BY <1>17 DEF CommitRegion, history
  <2>2. /\ DeferredOf(compositeStage) \in Seq(Publication)
        /\ ItemsOf(DeferredOf(compositeStage)) \subseteq X
        /\ ItemsOf(ImmediateOf(compositeStage)) = {p \in X : ~Deferred(p.ch)}
    BY RegionParts
  <2>3. ItemsOf(deferredNext') = N \cup ItemsOf(DeferredOf(compositeStage))
    BY <2>1, <2>2, StageTypes, ConcatFacts
  <2>4. Waiting' \subseteq Waiting
    BY <1>1, <2>1, <2>2, <2>3 DEF Waiting
  <2>5. InHand' = ImmediateOf(compositeStage)
    BY <2>1 DEF InHand
  <2>6. \A p \in ItemsOf(InHand)' : ~InLine(p.ch)
    BY <2>2, <2>5 DEF StagesPlaced, InLine
  <2>7. /\ Before(Past, ItemsOf(InHand)') /\ Before(ItemsOf(InHand)', ItemsOf(immediateStage'))
        /\ Before(ItemsOf(InHand)', Waiting')
    BY <2>6 DEF Before
  <2>8. Before(Past, Waiting') /\ Before(Past, ItemsOf(immediateStage'))
    BY <1>2, <2>1, <2>4 DEF Before
  <2> QED
    BY <1>3, <2>1, <2>7, <2>8
<1>18. CASE EndEpoch
  <2>1. /\ pc = "run" /\ pc' = "boundary" /\ deferredReady' = deferredReady \o deferredNext /\ deferredNext' = <<>>
        /\ UNCHANGED <<immediateStage, compositeStage, inHand, committed>>
    BY <1>18 DEF EndEpoch, history
  <2>2. ItemsOf(deferredReady') = R \cup N
    BY <2>1, StageTypes, ConcatFacts
  <2>3. ItemsOf(InHand)' = H /\ Waiting' \subseteq Waiting
    BY <1>1, <2>1, <2>2 DEF InHand, Waiting
  <2> QED
    BY <1>4, <2>1, <2>3
<1> QED
  BY <1>6, <1>7, <1>8, <1>9, <1>10, <1>11, <1>12, <1>13, <1>14, <1>15, <1>16, <1>17, <1>18 DEF Next

-----------------------------------------------------------------------------
(* The outputs of the loop.                                                *)

LEMMA GoneTypes ==
    ASSUME TypeOK
    PROVE  /\ regions \in Nat /\ \A p \in Publication : p.region \in Nat
           /\ Gone \subseteq Publication /\ discarded \subseteq Publication
BY StageTypes, ItemsType, PastType, EpochType DEF TypeOK, Publication, Gone

LEMMA ActivationsStep ==
    ASSUME TypeOK, StagesPlaced, HandPlaced, Activations, [Next]_vars
    PROVE  Activations'
<1> DEFINE I == ItemsOf(immediateStage)
           H == ItemsOf(inHand)
           N == ItemsOf(deferredNext)
           R == ItemsOf(deferredReady)
           X == ItemsOf(compositeStage)
<1>1. /\ regions \in Nat /\ \A p \in Publication : p.region \in Nat
      /\ Gone \subseteq Publication /\ discarded \subseteq Publication
      /\ ItemsOf(<<>>) = {}
  BY GoneTypes, SmallOrders
<1>2. /\ \A p \in Gone : p.region \in Nat /\ p.region <= regions /\ (regionActive => p.region < regions)
      /\ \A p \in discarded : p.region \in 1 .. regions /\ (regionActive => p.region < regions)
      /\ \A p \in discarded, q \in Gone : p.region # q.region
      /\ \A p \in Past, q \in lost : p.region = q.region /\ p.region # 0 => Deferred(p.ch) \/ Deferred(q.ch)
      /\ pc = "region_commit" => \A p \in Past : Deferred(p.ch) \/ p.region # regions
  BY <1>1 DEF Activations
<1>3. Gone = Past \cup H \cup R \cup N \cup lost
  BY DEF Gone
<1>4. regionActive => regions > 0
  BY DEF StagesPlaced
<1>5. ASSUME UNCHANGED <<regions, discarded, regionActive, committed, lost>>,
             \A p \in Gone' : p \in Gone \/ p.region = 0,
             pc' = "region_commit" => pc = "region_commit"
      PROVE  Activations'
  <2>1. Past' = Past
    BY <1>5 DEF Past, CommittedPubs
  <2>2. \A p \in Gone' : p.region <= regions /\ (regionActive => p.region < regions)
    BY <1>1, <1>2, <1>4, <1>5
  <2>3. \A p \in discarded, q \in Gone' : p.region # q.region
    BY <1>1, <1>2, <1>5
  <2> QED
    BY <1>2, <1>5, <2>1, <2>2, <2>3 DEF Activations, Deferred
<1>6. ASSUME UNCHANGED <<regions, discarded, regionActive, stages>>, inHand' \in {inHand, <<>>},
             NEW next, Accepts(next), next # "region_commit", pc # "failed"
      PROVE  Activations'
  <2>1. Past' \subseteq Past \cup H
    BY <1>6, PastGrows
  <2>2. lost = {} /\ lost' = {} /\ pc' # "region_commit"
    BY <1>6 DEF HandPlaced, Accepts
  <2>3. Gone' \subseteq Gone
    BY <1>1, <1>3, <1>6, <2>1, <2>2 DEF Gone, stages
  <2>4. /\ \A p \in Gone' : p.region <= regions /\ (regionActive => p.region < regions)
        /\ \A p \in discarded, q \in Gone' : p.region # q.region
    BY <1>2, <2>3
  <2> QED
    BY <1>2, <1>6, <2>2, <2>4 DEF Activations
<1>7. ASSUME UNCHANGED <<regions, discarded, regionActive, stages>>, inHand' \in {inHand, <<>>},
             Refuses, pc \in Committing
      PROVE  Activations'
  <2>1. Past' = Past /\ lost' = lost \cup H /\ lost = {} /\ pc' # "region_commit"
    BY <1>7 DEF Refuses, Past, CommittedPubs, HandPlaced, Committing
  <2>2. Gone' \subseteq Gone
    BY <1>1, <1>3, <1>7, <2>1 DEF Gone, stages
  <2>3. /\ \A p \in Gone' : p.region <= regions /\ (regionActive => p.region < regions)
        /\ \A p \in discarded, q \in Gone' : p.region # q.region
    BY <1>2, <2>2
  <2>4. \A p \in Past, q \in H : p.region = q.region /\ p.region # 0 => Deferred(p.ch) \/ Deferred(q.ch)
    BY <1>2, <1>7 DEF HandPlaced, Committing
  <2> QED
    BY <1>2, <1>7, <2>1, <2>3, <2>4 DEF Activations, Deferred
<1>8. ASSUME NEW s \in Sources, Publish(s) PROVE Activations'
  <2>1. UNCHANGED <<regions, discarded, regionActive, committed, lost, pc, inHand>>
    BY <1>8, PublishStages
  <2>2. /\ ItemsOf(deferredNext') \subseteq N \cup ItemsOf(NewDeferred(s)) /\ ItemsOf(deferredReady') \subseteq R
    BY <1>8, PublishTypes
  <2>3. \A p \in ItemsOf(NewDeferred(s)) : p.region = 0
    BY NewItems
  <2>4. Past' = Past
    BY <2>1 DEF Past, CommittedPubs
  <2>5. \A p \in Gone' : p \in Gone \/ p.region = 0
    BY <1>3, <2>1, <2>2, <2>3, <2>4 DEF Gone
  <2> QED
    BY <1>5, <2>1, <2>5
<1>9. CASE UNCHANGED vars \/ BeginAdvance \/ BeginCount \/ ComponentFails
  <2>1. /\ UNCHANGED <<regions, discarded, regionActive, committed, lost, deferredNext, deferredReady>>
        /\ inHand' \in {inHand, <<>>} /\ (pc' = "region_commit" => pc = "region_commit")
    BY <1>9 DEF vars, BeginAdvance, BeginCount, ComponentFails, history, stages
  <2>2. Past' = Past
    BY <2>1 DEF Past, CommittedPubs
  <2>3. Gone' \subseteq Gone
    BY <1>1, <1>3, <2>1, <2>2 DEF Gone
  <2> QED
    BY <1>5, <2>1, <2>3
<1>10. ASSUME NEW ch \in Channels, ReadInput(ch) PROVE Activations'
  <2>1. UNCHANGED <<regions, discarded, regionActive, committed, lost, deferredNext, deferredReady, inHand, pc>>
    BY <1>10 DEF ReadInput, history, stages
  <2>2. Gone' = Gone
    BY <2>1 DEF Gone, Past, CommittedPubs
  <2> QED
    BY <1>5, <2>1, <2>2
<1>11. CASE BeginSwap
  <2>1. /\ UNCHANGED <<regions, discarded, regionActive, committed, lost, deferredNext>>
        /\ inHand' = deferredReady /\ deferredReady' = <<>> /\ pc' = "begin_commit"
    BY <1>11 DEF BeginSwap, history
  <2>2. Past' = Past
    BY <2>1 DEF Past, CommittedPubs
  <2>3. Gone' \subseteq Gone
    BY <1>1, <1>3, <2>1, <2>2 DEF Gone
  <2> QED
    BY <1>5, <2>1, <2>3
<1>12. CASE CommitSwap
  <2>1. /\ UNCHANGED <<regions, discarded, regionActive, committed, lost, deferredNext, deferredReady>>
        /\ inHand' = immediateStage /\ pc' = "commit"
    BY <1>12 DEF CommitSwap, history
  <2>2. Past' = Past
    BY <2>1 DEF Past, CommittedPubs
  <2>3. \A p \in Gone' : p \in Gone \/ p \in I
    BY <1>1, <1>3, <2>1, <2>2 DEF Gone
  <2>4. \A p \in I : p.region = 0
    BY DEF StagesPlaced
  <2> QED
    BY <1>5, <2>1, <2>3, <2>4
<1>13. CASE EndEpoch
  <2>1. /\ UNCHANGED <<regions, discarded, regionActive, committed, lost, inHand>>
        /\ deferredReady' = deferredReady \o deferredNext /\ deferredNext' = <<>> /\ pc' = "boundary"
    BY <1>13 DEF EndEpoch, history
  <2>2. Past' = Past
    BY <2>1 DEF Past, CommittedPubs
  <2>3. ItemsOf(deferredReady') = R \cup N
    BY <2>1, StageTypes, ConcatFacts
  <2>4. Gone' \subseteq Gone
    BY <1>1, <1>3, <2>1, <2>2, <2>3 DEF Gone
  <2> QED
    BY <1>5, <2>1, <2>4
<1>14. CASE BeginCommit
  <2>1. CommitBatch("begin_count") /\ inHand' = inHand /\ pc = "begin_commit"
    BY <1>14 DEF BeginCommit
  <2>2. (Accepts("begin_count") \/ Refuses) /\ UNCHANGED <<regions, discarded, regionActive, stages>>
    BY <2>1, CommitOutcome
  <2> QED
    BY <1>6, <1>7, <2>1, <2>2 DEF Committing
<1>15. CASE CommitImmediate \/ CommitRegionBatch
  <2>1. CommitBatch("run") /\ inHand' = <<>> /\ pc \in {"commit", "region_commit"}
    BY <1>15 DEF CommitImmediate, CommitRegionBatch
  <2>2. (Accepts("run") \/ Refuses) /\ UNCHANGED <<regions, discarded, regionActive, stages>>
    BY <2>1, CommitOutcome
  <2> QED
    BY <1>6, <1>7, <2>1, <2>2 DEF Committing
<1>16. CASE BeginRegion
  <2>1. /\ regions' = regions + 1 /\ pc' = "run"
        /\ UNCHANGED <<discarded, committed, lost, inHand, deferredNext, deferredReady>>
    BY <1>16 DEF BeginRegion
  <2>2. Past' = Past
    BY <2>1 DEF Past, CommittedPubs
  <2>3. Gone' = Gone
    BY <2>1, <2>2 DEF Gone
  <2>4. /\ \A p \in Gone : p.region <= regions + 1 /\ p.region < regions + 1
        /\ \A p \in discarded : p.region \in 1 .. regions + 1 /\ p.region < regions + 1
    BY <1>1, <1>2
  <2> QED
    BY <1>2, <2>1, <2>2, <2>3, <2>4 DEF Activations, Deferred
<1>17. CASE CommitRegion
  <2>1. /\ regionActive /\ regionActive' = FALSE
        /\ deferredNext' = deferredNext \o DeferredOf(compositeStage) /\ inHand' = ImmediateOf(compositeStage)
        /\ UNCHANGED <<regions, discarded, committed, lost, deferredReady>>
    BY <1>17 DEF CommitRegion, history
  <2>2. /\ DeferredOf(compositeStage) \in Seq(Publication) /\ ItemsOf(DeferredOf(compositeStage)) \subseteq X
        /\ ItemsOf(ImmediateOf(compositeStage)) \subseteq X
    BY RegionParts
  <2>3. ItemsOf(deferredNext') = N \cup ItemsOf(DeferredOf(compositeStage))
    BY <2>1, <2>2, StageTypes, ConcatFacts
  <2>4. Past' = Past
    BY <2>1 DEF Past, CommittedPubs
  <2>5. \A p \in Gone' : p \in Gone \/ p \in X
    BY <1>3, <2>1, <2>2, <2>3, <2>4 DEF Gone
  <2>6. \A p \in X : p.region = regions
    BY DEF StagesPlaced
  <2>7. \A p \in Gone' : p.region <= regions
    BY <1>1, <1>2, <2>5, <2>6
  <2>8. \A p \in discarded, q \in Gone' : p.region # q.region
    BY <1>1, <1>2, <2>1, <2>5, <2>6
  <2>9. \A p \in Past : p.region # regions
    BY <1>1, <1>2, <1>3, <2>1
  <2> QED
    BY <1>2, <2>1, <2>4, <2>7, <2>8, <2>9 DEF Activations, Deferred
<1>18. CASE DiscardRegion
  <2>1. /\ regionActive /\ regionActive' = FALSE /\ discarded' = discarded \cup X /\ pc' = "run"
        /\ UNCHANGED <<regions, committed, lost, inHand, deferredNext, deferredReady>>
    BY <1>18 DEF DiscardRegion, Elements, ItemsOf
  <2>2. Past' = Past
    BY <2>1 DEF Past, CommittedPubs
  <2>3. Gone' = Gone
    BY <2>1, <2>2 DEF Gone
  <2>4. \A p \in X : p.region = regions
    BY DEF StagesPlaced
  <2>5. \A p \in discarded' : p.region \in 1 .. regions
    BY <1>1, <1>2, <1>4, <2>1, <2>4
  <2>6. \A p \in discarded', q \in Gone : p.region # q.region
    BY <1>1, <1>2, <2>1, <2>4
  <2> QED
    BY <1>2, <2>1, <2>2, <2>3, <2>5, <2>6 DEF Activations, Deferred
<1> QED
  BY <1>8, <1>9, <1>10, <1>11, <1>12, <1>13, <1>14, <1>15, <1>16, <1>17, <1>18 DEF Next

-----------------------------------------------------------------------------
(* Counting.                                                               *)

LEMMA ThreeStages ==
    ASSUME NEW r \in Seq(Publication), NEW n \in Seq(Publication), NEW x \in Seq(Publication)
    PROVE  /\ Len(r \o n \o x) = Len(r) + Len(n) + Len(x)
           /\ Len(r) \in Nat /\ Len(n) \in Nat /\ Len(x) \in Nat
           /\ \A ch : /\ Len(OnChannel(r \o n \o x, ch))
                            = Tally(r, OnEdge(ch)) + Tally(n, OnEdge(ch)) + Tally(x, OnEdge(ch))
                      /\ Tally(r, OnEdge(ch)) \in Nat /\ Tally(n, OnEdge(ch)) \in Nat
                      /\ Tally(x, OnEdge(ch)) \in Nat
<1> DEFINE f == r \o n
           a == f \o x
<1>1. f \in Seq(Publication) /\ Len(f) = Len(r) + Len(n) /\ Len(r) \in Nat /\ Len(n) \in Nat
  BY ConcatFacts
<1>2. ASSUME NEW V PROVE Tally(f, V) = Tally(r, V) + Tally(n, V)
  BY TallyConcat
<1> HIDE DEF f
<1>3. a \in Seq(Publication) /\ Len(a) = Len(f) + Len(x) /\ Len(x) \in Nat
  BY <1>1, ConcatFacts
<1>4. ASSUME NEW V PROVE Tally(a, V) = Tally(f, V) + Tally(x, V)
  BY <1>1, TallyConcat
<1> HIDE DEF a
<1>5. ASSUME NEW ch PROVE Len(OnChannel(a, ch)) = Tally(a, OnEdge(ch))
  BY <1>3, LimitsKnown
<1>6. ASSUME NEW ch
      PROVE  Tally(r, OnEdge(ch)) \in Nat /\ Tally(n, OnEdge(ch)) \in Nat /\ Tally(x, OnEdge(ch)) \in Nat
  BY LimitsKnown
<1>7. a = r \o n \o x
  BY DEF a, f
<1> QED
  BY <1>1, <1>2, <1>3, <1>4, <1>5, <1>6, <1>7

\* Completions of an edge that wait.
Backlog(ch) == Tally(deferredReady, OnEdge(ch)) + Tally(deferredNext, OnEdge(ch)) + Tally(compositeStage, OnEdge(ch))

\* A publication that finds the limit reached takes the place of the oldest.
LEMMA AdmissionPublish ==
    ASSUME TypeOK, StagesPlaced, Lines, NEW s \in Sources, Publish(s), NEW ch \in Channels,
           EdgeKind[ch] = "async", MaxInflight[ch] > 0, Backlog(ch) <= MaxInflight[ch]
    PROVE  Backlog(ch)' <= MaxInflight[ch]
<1> DEFINE E == OnEdge(ch)
           V == Evictions(s)
           keep == E \ V
           out == E \cap V
           fresh == Tally(NewDeferred(s), E) + Tally(NewHeld(s), E)
<1>1. PendingDeferred \in Seq(Publication) /\ ItemsOf(PendingDeferred) = Waiting
      /\ \A W : Tally(PendingDeferred, W) = Tally(deferredReady, W) + Tally(deferredNext, W) + Tally(compositeStage, W)
  BY PendingFacts
<1>2. Tally(PendingDeferred, E) = Backlog(ch)
  BY <1>1 DEF Backlog
<1>3. E \in SUBSET Publication
  BY DEF OnEdge
<1>4. /\ Tally(deferredReady', E) = Tally(deferredReady, keep)
      /\ Tally(deferredNext', E) = Tally(deferredNext, keep) + Tally(NewDeferred(s), E)
      /\ Tally(compositeStage', E) = Tally(compositeStage, keep) + Tally(NewHeld(s), E)
  BY <1>3, PublishTypes
<1>5. MaxInflight[ch] \in Nat
  BY RouterFacts
<1>6. /\ Tally(deferredReady, keep) \in Nat /\ Tally(deferredNext, keep) \in Nat /\ Tally(compositeStage, keep) \in Nat
      /\ Tally(NewDeferred(s), E) \in Nat /\ Tally(NewHeld(s), E) \in Nat
  <2>1. ASSUME NEW q \in Seq(Publication), NEW W PROVE Tally(q, W) \in Nat
    <3>1. Tally(q, W) \in 0 .. Len(q) /\ Len(q) \in Nat
      BY TallyFacts
    <3> QED
      BY <3>1
  <2> QED
    BY <2>1, StageTypes, NewSplit
<1>7. Backlog(ch)' = Tally(PendingDeferred, keep) + fresh
  <2>1. Backlog(ch)' = Tally(deferredReady', E) + Tally(deferredNext', E) + Tally(compositeStage', E)
    BY DEF Backlog
  <2>2. Tally(PendingDeferred, keep) = Tally(deferredReady, keep) + Tally(deferredNext, keep) + Tally(compositeStage, keep)
    BY <1>1
  <2> QED
    BY <1>4, <1>6, <2>1, <2>2
<1>8. fresh \in Nat /\ fresh <= 1 /\ (ch \notin ItemsOf(Served(s)) => fresh = 0)
  <2>1. fresh <= Tally(New(s), E)
    BY NewSplit
  <2>2. Tally(New(s), E) \in {0, 1} /\ (ch \notin ItemsOf(Served(s)) => Tally(New(s), E) = 0)
    BY NewFacts
  <2> QED
    BY <1>6, <2>1, <2>2
<1>9. /\ Tally(PendingDeferred, E) = Tally(PendingDeferred, keep) + Tally(PendingDeferred, out)
      /\ Tally(PendingDeferred, E) \in Nat /\ Tally(PendingDeferred, keep) \in Nat /\ Tally(PendingDeferred, out) \in Nat
  <2>1. E = keep \cup out /\ keep \cap out = {}
    OBVIOUS
  <2> HIDE DEF keep, out, E
  <2> QED
    BY <1>1, <2>1, TallySplit
<1>10. CASE ch \notin ItemsOf(Served(s))
  <2> HIDE DEF fresh, keep, out, E
  <2> QED
    BY <1>2, <1>5, <1>7, <1>8, <1>9, <1>10
<1>11. CASE ~AtLimit(ch)
  <2>1. Len(OnChannel(PendingDeferred, ch)) = Tally(PendingDeferred, E)
    BY <1>1, LimitsKnown
  <2>2. ~(Tally(PendingDeferred, E) >= MaxInflight[ch])
    BY <1>11, <2>1 DEF AtLimit
  <2> HIDE DEF fresh, keep, out, E
  <2> QED
    BY <1>2, <1>5, <1>7, <1>8, <1>9, <2>2
<1>12. CASE ch \in ItemsOf(Served(s)) /\ AtLimit(ch)
  <2>1. Evicts(ch)
    BY <1>12, ServedFacts DEF RefusesAsync
  <2>2. out # {} /\ out \in SUBSET ItemsOf(PendingDeferred)
    <3>1. \E p \in V : p \in E
      BY <1>12, <2>1, EvictionFacts
    <3>2. V \subseteq ItemsOf(PendingDeferred)
      BY <1>1, EvictionFacts
    <3> QED
      BY <3>1, <3>2
  <2>3. Tally(PendingDeferred, out) # 0
    <3> HIDE DEF out
    <3>1. NoRepeats(PendingDeferred)
      BY PendingInOrder
    <3>2. IsFiniteSet(out) /\ Tally(PendingDeferred, out) = Cardinality(out)
      BY <1>1, <2>2, <3>1, TallyOnce
    <3> QED
      BY <2>2, <3>2, FS_EmptySet
  <2> HIDE DEF fresh, keep, out, E
  <2> QED
    BY <1>2, <1>5, <1>7, <1>8, <1>9, <2>3
<1> QED
  BY <1>10, <1>11, <1>12

\* At most max_inflight completions of an edge wait.
LEMMA AdmissionStep ==
    ASSUME TypeOK, TypeOK', StagesPlaced, Lines, AsyncAdmissionBound, [Next]_vars
    PROVE  AsyncAdmissionBound'
<1>1. ASSUME NEW ch \in Channels, EdgeKind[ch] = "async", MaxInflight[ch] > 0
      PROVE  Backlog(ch)' <= MaxInflight[ch]
  <2> DEFINE E == OnEdge(ch)
             tr == Tally(deferredReady, E)
             tn == Tally(deferredNext, E)
             tx == Tally(compositeStage, E)
  <2>1. /\ tr \in Nat /\ tn \in Nat /\ tx \in Nat /\ MaxInflight[ch] \in Nat /\ Tally(<<>>, E) = 0
        /\ Len(OnChannel(PendingDeferred, ch)) = tr + tn + tx
    BY <1>1, StageTypes, ThreeStages, RouterFacts, SmallOrders DEF PendingDeferred
  <2>2. tr + tn + tx <= MaxInflight[ch]
    BY <1>1, <2>1 DEF AsyncAdmissionBound
  <2>3. Backlog(ch) <= MaxInflight[ch]
    BY <2>2 DEF Backlog
  <2>4. Backlog(ch)' = Tally(deferredReady', E) + Tally(deferredNext', E) + Tally(compositeStage', E)
    BY DEF Backlog
  <2>5. CASE UNCHANGED stages
    BY <2>2, <2>4, <2>5 DEF stages
  <2>6. ASSUME NEW s \in Sources, Publish(s) PROVE Backlog(ch)' <= MaxInflight[ch]
    BY <1>1, <2>3, <2>6, AdmissionPublish
  <2>7. CASE BeginSwap
    <3>1. deferredReady' = <<>> /\ UNCHANGED <<deferredNext, compositeStage>>
      BY <2>7 DEF BeginSwap
    <3>2. Backlog(ch)' = 0 + tn + tx
      BY <2>1, <2>4, <3>1
    <3> HIDE DEF tr, tn, tx
    <3> QED
      BY <2>1, <2>2, <3>2
  <2>8. CASE BeginRegion \/ DiscardRegion
    <3>1. compositeStage' = <<>> /\ UNCHANGED <<deferredNext, deferredReady>>
      BY <2>8 DEF BeginRegion, DiscardRegion
    <3>2. Backlog(ch)' = tr + tn + 0
      BY <2>1, <2>4, <3>1
    <3> HIDE DEF tr, tn, tx
    <3> QED
      BY <2>1, <2>2, <3>2
  <2>9. CASE CommitRegion
    <3> DEFINE D == DeferredOf(compositeStage)
    <3>1. compositeStage' = <<>> /\ deferredNext' = deferredNext \o D /\ UNCHANGED deferredReady
      BY <2>9 DEF CommitRegion
    <3>2. E \in SUBSET Publication /\ Deferreds \cap E = E
      BY <1>1 DEF OnEdge, Deferreds, Deferred
    <3>3. D \in Seq(Publication) /\ Tally(D, E) = tx
      BY <3>2, RegionParts
    <3> HIDE DEF D
    <3>4. Tally(deferredNext \o D, E) = tn + Tally(D, E)
      BY <3>3, StageTypes, TallyConcat
    <3>5. Backlog(ch)' = tr + (tn + tx) + 0
      BY <2>1, <2>4, <3>1, <3>3, <3>4
    <3> HIDE DEF tr, tn, tx
    <3> QED
      BY <2>1, <2>2, <3>5
  <2>10. CASE EndEpoch
    <3>1. deferredReady' = deferredReady \o deferredNext /\ deferredNext' = <<>> /\ UNCHANGED compositeStage
      BY <2>10 DEF EndEpoch
    <3>2. Tally(deferredReady \o deferredNext, E) = tr + tn
      BY StageTypes, TallyConcat
    <3>3. Backlog(ch)' = (tr + tn) + 0 + tx
      BY <2>1, <2>4, <3>1, <3>2
    <3> HIDE DEF tr, tn, tx
    <3> QED
      BY <2>1, <2>2, <3>3
  <2>11. CASE BeginCommit \/ CommitImmediate \/ CommitRegionBatch
    BY <2>5, <2>11 DEF BeginCommit, CommitImmediate, CommitRegionBatch, CommitBatch
  <2>12. CASE BeginAdvance \/ BeginCount \/ ComponentFails \/ UNCHANGED vars
    BY <2>5, <2>12 DEF BeginAdvance, BeginCount, ComponentFails, vars
  <2>13. CASE CommitSwap
    BY <2>2, <2>4, <2>13 DEF CommitSwap
  <2>14. ASSUME NEW c \in Channels, ReadInput(c) PROVE Backlog(ch)' <= MaxInflight[ch]
    BY <2>5, <2>14 DEF ReadInput
  <2> QED
    BY <2>6, <2>7, <2>8, <2>9, <2>10, <2>11, <2>12, <2>13, <2>14 DEF Next
<1>2. /\ deferredReady' \in Seq(Publication) /\ deferredNext' \in Seq(Publication)
      /\ compositeStage' \in Seq(Publication)
  BY DEF TypeOK
<1>3. ASSUME NEW ch \in Channels PROVE Len(OnChannel(PendingDeferred', ch)) = Backlog(ch)'
  <2>1. PendingDeferred' = deferredReady' \o deferredNext' \o compositeStage'
    BY DEF PendingDeferred
  <2>2. Len(OnChannel(deferredReady' \o deferredNext' \o compositeStage', ch))
          = Tally(deferredReady', OnEdge(ch)) + Tally(deferredNext', OnEdge(ch)) + Tally(compositeStage', OnEdge(ch))
    BY <1>2, ThreeStages
  <2> QED
    BY <2>1, <2>2 DEF Backlog
<1> QED
  BY <1>1, <1>3 DEF AsyncAdmissionBound

LEMMA CountedStep ==
    ASSUME TypeOK, TypeOK', StagesPlaced, HandPlaced, Lines, Counted, [Next]_vars
    PROVE  Counted'
<1> DEFINE lr == Len(deferredReady)
           ln == Len(deferredNext)
           lx == Len(compositeStage)
           li == Len(immediateStage)
           lh == Len(inHand)
           cl == Cardinality(lost)
<1>1. /\ deferredReady' \in Seq(Publication) /\ deferredNext' \in Seq(Publication)
      /\ compositeStage' \in Seq(Publication)
  BY DEF TypeOK
<1>2. /\ lr \in Nat /\ ln \in Nat /\ lx \in Nat /\ li \in Nat /\ lh \in Nat
      /\ Len(PendingDeferred) = lr + ln + lx
  <2>1. lr \in Nat /\ ln \in Nat /\ lx \in Nat /\ Len(PendingDeferred) = lr + ln + lx
    BY StageTypes, ThreeStages DEF PendingDeferred
  <2>2. li \in Nat /\ lh \in Nat
    BY StageTypes, LenProperties
  <2> QED
    BY <2>1, <2>2
<1>3. stagedCount \in Nat /\ committedCount \in Nat /\ evictedCount \in Nat /\ discardedCount \in Nat
  BY DEF TypeOK
<1>4. IsFiniteSet(lost) /\ cl \in Nat
  BY FS_CardinalityType DEF Counted
<1>5. stagedCount = committedCount + evictedCount + discardedCount + cl + InTransit + li + (lr + ln + lx)
  BY <1>2 DEF Counted
<1>6. InTransit \in Nat /\ (pc = "failed" \/ pc = "begin_count" => InTransit = 0)
      /\ (pc # "failed" /\ pc # "begin_count" => InTransit = lh)
  BY <1>2, SmallOrders DEF InTransit, InHand
<1>7. Len(<<>>) = 0
  BY SmallOrders
<1>8. Len(PendingDeferred') = Len(deferredReady') + Len(deferredNext') + Len(compositeStage')
  <2>1. PendingDeferred' = deferredReady' \o deferredNext' \o compositeStage'
    BY DEF PendingDeferred
  <2> QED
    BY <1>1, <2>1, ThreeStages
<1>9. ASSUME IsFiniteSet(lost'),
             stagedCount' = committedCount' + evictedCount' + discardedCount' + Cardinality(lost') + InTransit'
                              + Len(immediateStage') + (Len(deferredReady') + Len(deferredNext') + Len(compositeStage'))
      PROVE  Counted'
  BY <1>8, <1>9 DEF Counted
<1> HIDE DEF lr, ln, lx, li, lh, cl
<1>10. CASE UNCHANGED <<stagedCount, committedCount, evictedCount, discardedCount, lost, stages>> /\ InTransit' = InTransit
  BY <1>4, <1>5, <1>9, <1>10 DEF stages, lr, ln, lx, li, cl
<1>11. ASSUME NEW s \in Sources, Publish(s) PROVE Counted'
  <2> DEFINE V == Evictions(s)
             keep == Publication \ V
             di == Len(NewImmediate(s))
             dn == Len(NewDeferred(s))
             dx == Len(NewHeld(s))
  <2>1. /\ stagedCount' = stagedCount + Len(Served(s)) /\ evictedCount' = evictedCount + Cardinality(V)
        /\ UNCHANGED <<committedCount, discardedCount, lost, pc, inHand>>
    BY <1>11, PublishStages
  <2>2. InTransit' = InTransit
    BY <2>1 DEF InTransit, InHand
  <2>3. di \in Nat /\ dn \in Nat /\ dx \in Nat /\ di + dn + dx = Len(Served(s))
    BY NewSplit, LenProperties
  <2>4. ASSUME NEW q \in Seq(Publication) PROVE Tally(q, Publication) = Len(q)
    <3>1. ItemsOf(q) \subseteq Publication
      BY ItemsType
    <3> QED
      BY <3>1, TallyFacts
  <2>5. /\ Tally(deferredReady', Publication) = Tally(deferredReady, keep)
        /\ Tally(deferredNext', Publication) = Tally(deferredNext, keep) + Tally(NewDeferred(s), Publication)
        /\ Tally(compositeStage', Publication) = Tally(compositeStage, keep) + Tally(NewHeld(s), Publication)
        /\ Len(immediateStage') = li + di
    BY <1>11, PublishTypes DEF li
  <2>6. PendingDeferred \in Seq(Publication)
        /\ Tally(PendingDeferred, keep) = Tally(deferredReady, keep) + Tally(deferredNext, keep) + Tally(compositeStage, keep)
    BY PendingFacts
  <2>7. Tally(PendingDeferred, V) = Cardinality(V) /\ Cardinality(V) \in Nat /\ V \subseteq Publication
    BY EvictionFacts DEF Asyncs
  <2>8. Tally(PendingDeferred, Publication) = Tally(PendingDeferred, keep) + Tally(PendingDeferred, V)
    <3>1. Publication = keep \cup V /\ keep \cap V = {}
      BY <2>7
    <3> HIDE DEF keep, V
    <3> QED
      BY <2>6, <3>1, TallySplit
  <2>9. Tally(PendingDeferred, Publication) = lr + ln + lx
    BY <1>2, <2>4, <2>6
  <2>10. /\ Len(deferredReady') = Tally(deferredReady, keep)
         /\ Len(deferredNext') = Tally(deferredNext, keep) + dn
         /\ Len(compositeStage') = Tally(compositeStage, keep) + dx
    BY <1>1, <2>4, <2>5, NewSplit
  <2>11. Tally(deferredReady, keep) \in Nat /\ Tally(deferredNext, keep) \in Nat /\ Tally(compositeStage, keep) \in Nat
    <3>1. ASSUME NEW q \in Seq(Publication) PROVE Tally(q, keep) \in Nat
      <4>1. Tally(q, keep) \in 0 .. Len(q) /\ Len(q) \in Nat
        BY TallyFacts
      <4> QED
        BY <4>1
    <3> QED
      BY <3>1, StageTypes
  <2>12. Len(deferredReady') + Len(deferredNext') + Len(compositeStage') + Cardinality(V) = lr + ln + lx + dn + dx
    <3> DEFINE a == Tally(deferredReady, keep)
               b == Tally(deferredNext, keep)
               c == Tally(compositeStage, keep)
    <3>1. a + b + c + Cardinality(V) = lr + ln + lx
      BY <2>6, <2>7, <2>8, <2>9
    <3>2. a \in Nat /\ b \in Nat /\ c \in Nat /\ dn \in Nat /\ dx \in Nat /\ Cardinality(V) \in Nat
      BY <2>3, <2>7, <2>11
    <3>3. Len(deferredReady') = a /\ Len(deferredNext') = b + dn /\ Len(compositeStage') = c + dx
      BY <2>10
    <3> HIDE DEF a, b, c, dn, dx, V, keep
    <3> QED
      BY <1>2, <3>1, <3>2, <3>3
  <2>13. Len(deferredReady') \in Nat /\ Len(deferredNext') \in Nat /\ Len(compositeStage') \in Nat
    BY <1>1, LenProperties
  <2>14. stagedCount' = committedCount' + evictedCount' + discardedCount' + Cardinality(lost') + InTransit'
                         + Len(immediateStage') + (Len(deferredReady') + Len(deferredNext') + Len(compositeStage'))
    <3> DEFINE ev == Cardinality(V)
               pend == Len(deferredReady') + Len(deferredNext') + Len(compositeStage')
    <3>1. stagedCount' = stagedCount + (di + dn + dx) /\ evictedCount' = evictedCount + ev
      BY <2>1, <2>3
    <3>2. Cardinality(lost') = cl /\ committedCount' = committedCount /\ discardedCount' = discardedCount
      BY <2>1 DEF cl
    <3>3. pend + ev = lr + ln + lx + dn + dx /\ pend \in Nat /\ ev \in Nat
      BY <2>7, <2>12, <2>13
    <3>4. Len(immediateStage') = li + di /\ di \in Nat /\ dn \in Nat /\ dx \in Nat /\ InTransit \in Nat
      BY <1>6, <2>3, <2>5
    <3> HIDE DEF ev, pend, di, dn, dx, V
    <3>5. stagedCount' = committedCount' + evictedCount' + discardedCount' + Cardinality(lost') + InTransit'
                         + Len(immediateStage') + pend
      BY <1>2, <1>3, <1>4, <1>5, <2>2, <3>1, <3>2, <3>3, <3>4
    <3> QED
      BY <3>5 DEF pend
  <2> QED
    BY <1>4, <1>9, <2>1, <2>14
<1>12. CASE UNCHANGED vars
  <2>1. UNCHANGED <<stagedCount, committedCount, evictedCount, discardedCount, lost, stages, pc, inHand>>
    BY <1>12 DEF vars, metrics, history
  <2> QED
    BY <1>10, <2>1 DEF InTransit, InHand
<1>13. CASE BeginAdvance
  <2>1. UNCHANGED <<stagedCount, committedCount, evictedCount, discardedCount, lost, stages, inHand>>
        /\ pc = "boundary" /\ pc' = "begin_swap"
    BY <1>13 DEF BeginAdvance, metrics, history
  <2> QED
    BY <1>10, <2>1 DEF InTransit, InHand
<1>14. CASE ComponentFails
  <2>1. UNCHANGED <<stagedCount, committedCount, evictedCount, discardedCount, lost, stages, inHand>>
        /\ pc = "run" /\ pc' = "failed"
    BY <1>14 DEF ComponentFails, metrics, history
  <2>2. lh = 0
    BY <1>7, <2>1 DEF HandPlaced, lh
  <2>3. InTransit' = InTransit
    BY <1>6, <2>1, <2>2 DEF InTransit
  <2> QED
    BY <1>10, <2>1, <2>3
<1>15. ASSUME NEW ch \in Channels, ReadInput(ch) PROVE Counted'
  <2>1. UNCHANGED <<stagedCount, committedCount, evictedCount, discardedCount, lost, stages, inHand, pc>>
    BY <1>15 DEF ReadInput, metrics, history
  <2> QED
    BY <1>10, <2>1 DEF InTransit, InHand
<1>16. CASE BeginCount
  <2>1. UNCHANGED <<stagedCount, committedCount, evictedCount, discardedCount, lost, stages>>
        /\ pc = "begin_count" /\ pc' = "run" /\ inHand' = <<>>
    BY <1>16 DEF BeginCount, history
  <2>2. InTransit' = InTransit
    BY <1>6, <1>7, <2>1 DEF InTransit, InHand
  <2> QED
    BY <1>10, <2>1, <2>2
<1>17. CASE BeginCommit \/ CommitImmediate \/ CommitRegionBatch
  <2>1. /\ pc \in Committing
        /\ (Accepts("begin_count") /\ pc = "begin_commit") \/ (Accepts("run") /\ pc # "begin_commit") \/ Refuses
        /\ IF pc = "begin_commit" THEN inHand' = inHand ELSE inHand' = <<>>
        /\ UNCHANGED <<stages, stagedCount, discardedCount, evictedCount>>
    <3>1. CASE BeginCommit
      BY <3>1, CommitOutcome DEF BeginCommit, Committing
    <3>2. CASE CommitImmediate \/ CommitRegionBatch
      BY <3>2, CommitOutcome DEF CommitImmediate, CommitRegionBatch, Committing
    <3> QED
      BY <1>17, <3>1, <3>2
  <2>2. InTransit = lh
    BY <1>6, <2>1 DEF Committing
  <2>3. CASE Accepts("begin_count") \/ Accepts("run")
    <3>1. InTransit' = 0
      <4>1. CASE Accepts("begin_count")
        <5>1. pc' = "begin_count"
          BY <4>1 DEF Accepts
        <5>2. InHand' = <<>>
          BY <5>1 DEF InHand
        <5> QED
          BY <1>7, <5>1, <5>2 DEF InTransit
      <4>2. CASE Accepts("run") /\ pc # "begin_commit"
        <5>1. pc' = "run" /\ inHand' = <<>>
          BY <2>1, <4>2 DEF Accepts
        <5>2. InHand' = <<>>
          BY <5>1 DEF InHand
        <5> QED
          BY <1>7, <5>1, <5>2 DEF InTransit
      <4>3. CASE Accepts("run") /\ pc = "begin_commit"
        BY <2>1, <4>3 DEF Accepts, Refuses
      <4> QED
        BY <2>3, <4>1, <4>2, <4>3
    <3>2. committedCount' = committedCount + lh /\ lost' = lost
      BY <2>3 DEF Accepts, lh
    <3>3. /\ Len(immediateStage') = li /\ Len(deferredReady') = lr /\ Len(deferredNext') = ln
          /\ Len(compositeStage') = lx /\ Cardinality(lost') = cl /\ IsFiniteSet(lost')
      BY <1>4, <2>1, <3>2 DEF stages, li, lr, ln, lx, cl
    <3>4. stagedCount' = committedCount' + evictedCount' + discardedCount' + Cardinality(lost') + InTransit'
                         + Len(immediateStage') + (Len(deferredReady') + Len(deferredNext') + Len(compositeStage'))
      BY <1>2, <1>3, <1>4, <1>5, <2>1, <2>2, <3>1, <3>2, <3>3
    <3> QED
      BY <1>9, <3>3, <3>4
  <2>4. CASE Refuses
    <3>1. InTransit' = 0 /\ committedCount' = committedCount
      BY <2>4 DEF Refuses, InTransit
    <3>2. lost = {} /\ lost' = ItemsOf(inHand)
      BY <2>1, <2>4 DEF HandPlaced, Refuses, Committing
    <3>3. inHand \in Seq(Publication) /\ NoRepeats(inHand)
      BY StageTypes, OrderNoRepeats DEF Lines
    <3>4. Cardinality(lost') = lh
      BY <3>2, <3>3, ItemsCount DEF lh
    <3>5. IsFiniteSet(lost')
      BY <3>2, <3>3, ItemsFinite
    <3>6. cl = 0
      BY <3>2, FS_EmptySet DEF cl
    <3>7. /\ Len(immediateStage') = li /\ Len(deferredReady') = lr /\ Len(deferredNext') = ln
          /\ Len(compositeStage') = lx
      BY <2>1 DEF stages, li, lr, ln, lx
    <3>8. stagedCount' = committedCount' + evictedCount' + discardedCount' + Cardinality(lost') + InTransit'
                         + Len(immediateStage') + (Len(deferredReady') + Len(deferredNext') + Len(compositeStage'))
      BY <1>2, <1>3, <1>5, <2>1, <2>2, <3>1, <3>4, <3>6, <3>7
    <3> QED
      BY <1>9, <3>5, <3>8
  <2> QED
    BY <2>1, <2>3, <2>4
<1>18. CASE BeginSwap \/ CommitSwap \/ CommitRegion
  <2>1. /\ UNCHANGED <<stagedCount, committedCount, evictedCount, discardedCount, lost>>
        /\ pc \in {"begin_swap", "run"} /\ pc' \in {"begin_commit", "commit", "region_commit"}
    BY <1>18 DEF BeginSwap, CommitSwap, CommitRegion, metrics, history
  <2>2. InTransit = 0
    BY <1>6, <1>7, <2>1 DEF HandPlaced, lh
  <2>3. InTransit' = Len(inHand')
    BY <2>1 DEF InTransit, InHand
  <2>4. Len(inHand') + Len(immediateStage') + (Len(deferredReady') + Len(deferredNext') + Len(compositeStage'))
          = li + (lr + ln + lx)
    <3>1. CASE BeginSwap
      <4>1. /\ Len(inHand') = lr /\ Len(deferredReady') = 0 /\ Len(deferredNext') = ln
            /\ Len(compositeStage') = lx /\ Len(immediateStage') = li
        BY <1>7, <3>1 DEF BeginSwap, lr, ln, lx, li
      <4> QED
        BY <1>2, <4>1
    <3>2. CASE CommitSwap
      <4>1. /\ Len(inHand') = li /\ Len(immediateStage') = 0 /\ Len(deferredNext') = ln
            /\ Len(compositeStage') = lx /\ Len(deferredReady') = lr
        BY <1>7, <3>2 DEF CommitSwap, lr, ln, lx, li
      <4> QED
        BY <1>2, <4>1
    <3>3. CASE CommitRegion
      <4> DEFINE D == DeferredOf(compositeStage)
                 M == ImmediateOf(compositeStage)
      <4>1. D \in Seq(Publication) /\ M \in Seq(Publication) /\ Len(M) + Len(D) = lx
        BY RegionParts DEF lx
      <4>2. Len(deferredNext \o D) = ln + Len(D) /\ Len(D) \in Nat
        BY <4>1, StageTypes, ConcatFacts DEF ln
      <4>3. Len(M) \in Nat
        BY <4>1, LenProperties
      <4>4. /\ Len(inHand') = Len(M) /\ Len(immediateStage') = li /\ Len(deferredNext') = ln + Len(D)
            /\ Len(compositeStage') = 0 /\ Len(deferredReady') = lr
        BY <1>7, <3>3, <4>2 DEF CommitRegion, lr, li
      <4> HIDE DEF D, M
      <4> QED
        BY <1>2, <4>1, <4>2, <4>3, <4>4
    <3> QED
      BY <1>18, <3>1, <3>2, <3>3
  <2>5. /\ Len(inHand') \in Nat /\ Len(immediateStage') \in Nat
        /\ Len(deferredReady') \in Nat /\ Len(deferredNext') \in Nat /\ Len(compositeStage') \in Nat
    <3>1. inHand' \in Seq(Publication) /\ immediateStage' \in Seq(Publication)
      BY DEF TypeOK
    <3> QED
      BY <1>1, <3>1, LenProperties
  <2>6. Cardinality(lost') = cl /\ IsFiniteSet(lost')
    BY <1>4, <2>1 DEF cl
  <2>7. stagedCount' = committedCount' + evictedCount' + discardedCount' + Cardinality(lost') + InTransit'
                        + Len(immediateStage') + (Len(deferredReady') + Len(deferredNext') + Len(compositeStage'))
    BY <1>2, <1>3, <1>4, <1>5, <2>1, <2>2, <2>3, <2>4, <2>5, <2>6
  <2> QED
    BY <1>9, <2>6, <2>7
<1>19. CASE BeginRegion \/ DiscardRegion \/ EndEpoch
  <2>1. UNCHANGED <<stagedCount, committedCount, evictedCount, lost, inHand, immediateStage>> /\ pc = "run" /\ pc' # "failed" /\ pc' # "begin_count"
    BY <1>19 DEF BeginRegion, DiscardRegion, EndEpoch, metrics, history
  <2>2. InTransit' = InTransit
    BY <2>1 DEF InTransit, InHand
  <2>3. discardedCount' + (Len(deferredReady') + Len(deferredNext') + Len(compositeStage')) = discardedCount + (lr + ln + lx)
    <3>1. CASE BeginRegion
      <4>1. compositeStage = <<>>
        BY <3>1 DEF BeginRegion, StagesPlaced
      <4>2. /\ discardedCount' = discardedCount /\ Len(deferredReady') = lr /\ Len(deferredNext') = ln
            /\ Len(compositeStage') = 0 /\ lx = 0
        BY <1>7, <3>1, <4>1 DEF BeginRegion, metrics, lr, ln, lx
      <4> QED
        BY <4>2
    <3>2. CASE DiscardRegion
      <4>1. /\ discardedCount' = discardedCount + lx /\ Len(deferredReady') = lr /\ Len(deferredNext') = ln
            /\ Len(compositeStage') = 0
        BY <1>7, <3>2 DEF DiscardRegion, lr, ln, lx
      <4> QED
        BY <1>2, <1>3, <4>1
    <3>3. CASE EndEpoch
      <4>1. Len(deferredReady \o deferredNext) = lr + ln
        BY StageTypes, ConcatFacts DEF lr, ln
      <4>2. /\ discardedCount' = discardedCount /\ Len(deferredReady') = lr + ln /\ Len(deferredNext') = 0
            /\ Len(compositeStage') = lx
        BY <1>7, <3>3, <4>1 DEF EndEpoch, metrics, lx
      <4> QED
        BY <1>2, <4>2
    <3> QED
      BY <1>19, <3>1, <3>2, <3>3
  <2>4. /\ discardedCount' \in Nat
        /\ Len(deferredReady') \in Nat /\ Len(deferredNext') \in Nat /\ Len(compositeStage') \in Nat
    BY <1>1, LenProperties DEF TypeOK
  <2>5. Cardinality(lost') = cl /\ IsFiniteSet(lost') /\ Len(immediateStage') = li
    BY <1>4, <2>1 DEF cl, li
  <2>6. stagedCount' = committedCount' + evictedCount' + discardedCount' + Cardinality(lost') + InTransit'
                        + Len(immediateStage') + (Len(deferredReady') + Len(deferredNext') + Len(compositeStage'))
    <3> DEFINE pend == Len(deferredReady') + Len(deferredNext') + Len(compositeStage')
    <3>1. discardedCount' + pend = discardedCount + (lr + ln + lx) /\ pend \in Nat /\ discardedCount' \in Nat
      BY <2>3, <2>4
    <3>2. stagedCount' = stagedCount /\ committedCount' = committedCount /\ evictedCount' = evictedCount
      BY <2>1
    <3>3. InTransit \in Nat
      BY <1>6
    <3> HIDE DEF pend
    <3>4. stagedCount = committedCount + evictedCount + discardedCount' + cl + InTransit + li + pend
      <4> DEFINE base == committedCount + evictedCount + cl + InTransit + li
                 q == lr + ln + lx
      <4>1. stagedCount = base + (discardedCount + q)
        BY <1>2, <1>3, <1>4, <1>5, <3>3
      <4>2. stagedCount = base + (discardedCount' + pend)
        BY <3>1, <4>1
      <4> QED
        BY <1>2, <1>3, <1>4, <3>1, <3>3, <4>2
    <3>5. stagedCount' = committedCount' + evictedCount' + discardedCount' + Cardinality(lost') + InTransit'
                          + Len(immediateStage') + pend
      BY <2>2, <2>5, <3>2, <3>4
    <3> QED
      BY <3>5 DEF pend
  <2> QED
    BY <1>9, <2>5, <2>6
<1> QED
  BY <1>11, <1>12, <1>13, <1>14, <1>15, <1>16, <1>17, <1>18, <1>19 DEF Next

-----------------------------------------------------------------------------
(* The batches.                                                            *)

\* The bus counts and filters with the same operators.
LEMMA SameCardinality == ASSUME NEW S PROVE Bus!Cardinality(S) = Cardinality(S)
BY DEF Cardinality, Bus!Cardinality

LEMMA SameEntries == ASSUME NEW s, NEW places PROVE Bus!EntriesAt(s, places) = EntriesAt(s, places)
BY DEF EntriesAt, NthPlace, Bus!EntriesAt, Bus!NthPlace, Cardinality, Bus!Cardinality

\* The batch in hand, as publish_batch gets it.
Batch == [i \in DOMAIN inHand |-> [ch |-> inHand[i].ch, large |-> FALSE]]

LEMMA BatchWhole ==
    ASSUME TypeOK
    PROVE  /\ Len(Batch) = Len(inHand) /\ DOMAIN Batch = DOMAIN inHand /\ Len(inHand) \in Nat
           /\ Bus!Preflight(Batch) => Bus!StoredPrefix(Batch) = Len(Batch)
<1>1. DOMAIN inHand = 1 .. Len(inHand) /\ Len(inHand) \in Nat
  BY StageTypes, LenProperties
<1>2. DOMAIN Batch = DOMAIN inHand /\ Len(Batch) = Len(inHand)
  BY <1>1 DEF Batch
<1>3. ASSUME Bus!Preflight(Batch) PROVE Bus!StoredPrefix(Batch) = Len(Batch)
  <2> DEFINE n == Len(inHand)
  <2>1. \A j \in 1 .. n : ~Bus!Refuses(Batch[j].ch, Bus!Planned(Batch, j))
    BY <1>1, <1>2, <1>3 DEF Bus!Preflight
  <2>2. \A i \in 1 .. n : \A j \in 1 .. i : j \in 1 .. n
    BY <1>1
  <2>3. {i \in DOMAIN Batch : \A j \in 1 .. i : ~Bus!Refuses(Batch[j].ch, Bus!Planned(Batch, j))} = 1 .. n
    BY <1>1, <1>2, <2>1, <2>2
  <2>4. Cardinality(1 .. n) = n
    <3>1. n \in Nat
      BY <1>1
    <3> HIDE DEF n
    <3> QED
      BY <3>1, FS_Interval
  <2> QED
    BY <1>2, <2>3, <2>4, SameCardinality DEF Bus!StoredPrefix
<1> QED
  BY <1>1, <1>2, <1>3

\* The bus when it is handed a batch.
LEMMA BatchStored ==
    ASSUME TypeOK, NEW next, CommitBatch(next), inHand # <<>>
    PROVE  LET stored == IF Bus!Preflight(Batch) THEN Len(inHand) ELSE 0
           IN  /\ Bus!StoreAll([ch \in Channels |-> Cardinality({i \in 1 .. stored : Batch[i].ch = ch})], {})
               /\ lastBatch' = [size |-> Len(inHand), stored |-> stored]
               /\ UNCHANGED <<config, latestCursor, queueCursor, delivered, stale, expired, log, forgotten>>
               /\ IF Bus!Preflight(Batch) THEN Accepts(next) ELSE Refuses
<1> DEFINE stored == IF Bus!Preflight(Batch) THEN Bus!StoredPrefix(Batch) ELSE 0
           refused == IF Bus!Preflight(Batch) /\ stored < Len(Batch) THEN {Batch[stored + 1].ch} ELSE {}
<1>1. Bus!PublishBatch(Batch)
  BY DEF CommitBatch, Batch
<1>2. stored = (IF Bus!Preflight(Batch) THEN Len(inHand) ELSE 0)
  BY BatchWhole
<1>3. refused = {}
  BY <1>2, BatchWhole
<1> DEFINE tally == [ch \in Channels |-> Cardinality({i \in 1 .. stored : Batch[i].ch = ch})]
<1>4. /\ Bus!StoreAll(tally, refused)
      /\ lastBatch' = [size |-> Len(Batch), stored |-> stored]
      /\ UNCHANGED <<config, Bus!cursors, delivered, stale, expired, log, forgotten>>
  <2> DEFINE count == [ch \in Channels |-> Bus!Cardinality({i \in 1 .. stored : Batch[i].ch = ch})]
  <2>1. /\ Bus!StoreAll(count, refused)
        /\ lastBatch' = [size |-> Len(Batch), stored |-> stored]
        /\ UNCHANGED <<config, Bus!cursors, delivered, stale, expired, log, forgotten>>
    BY <1>1 DEF Bus!PublishBatch
  <2>2. count = tally
    BY SameCardinality
  <2> QED
    BY <2>1, <2>2
<1> HIDE DEF stored, refused
<1>5. lastBatch'.stored = stored
  BY <1>4
<1>6. Len(inHand) # 0
  BY StageTypes, EmptySeq
<1>7. stored = Len(inHand) <=> Bus!Preflight(Batch)
  BY <1>2, <1>6
<1>8. IF Bus!Preflight(Batch) THEN Accepts(next) ELSE Refuses
  <2>1. IF lastBatch'.stored = Len(inHand)
           THEN /\ committedCount' = committedCount + Len(inHand)
                /\ committed' = [ch \in Channels |-> committed[ch] \o Stamped(OnChannel(inHand, ch))]
                /\ lost' = lost
                /\ pc' = next
           ELSE /\ lost' = lost \cup Elements(inHand)
                /\ pc' = "failed"
                /\ UNCHANGED <<committedCount, committed>>
    BY DEF CommitBatch
  <2> QED
    BY <1>5, <1>7, <2>1 DEF Accepts, Refuses, Elements, ItemsOf
<1> QED
  BY <1>2, <1>3, <1>4, <1>8, BatchWhole DEF Bus!cursors

-----------------------------------------------------------------------------
(* The bus.                                                                *)

LEMMA SubItems ==
    ASSUME NEW T, NEW s \in Seq(T), NEW a \in Nat \ {0}
    PROVE  /\ SubSeq(s, a, Len(s)) \in Seq(T) /\ ItemsOf(SubSeq(s, a, Len(s))) \subseteq ItemsOf(s)
<1> DEFINE n == Len(s)
           t == SubSeq(s, a, n)
<1>1. n \in Nat /\ DOMAIN s = 1 .. n /\ \A i \in 1 .. n : s[i] \in T
  BY LenProperties, ElementOfSeq
<1>2. t = [i \in 1 .. (IF a <= n THEN n - a + 1 ELSE 0) |-> s[i + a - 1]]
  BY <1>1
<1> HIDE DEF t
<1>3. DOMAIN t = 1 .. (IF a <= n THEN n - a + 1 ELSE 0) /\ \A i \in DOMAIN t : t[i] = s[i + a - 1]
  BY <1>2
<1> HIDE DEF n
<1>4. \A i \in DOMAIN t : i + a - 1 \in 1 .. n
  BY <1>1, <1>3
<1>5. \A i \in DOMAIN t : t[i] \in T /\ \E k \in DOMAIN s : t[i] = s[k]
  BY <1>1, <1>3, <1>4
<1>6. t \in Seq(T)
  <2>1. (IF a <= n THEN n - a + 1 ELSE 0) \in Nat
    BY <1>1
  <2> DEFINE m == IF a <= n THEN n - a + 1 ELSE 0
  <2>2. t \in [1 .. m -> T]
    BY <1>2, <1>3, <1>5
  <2>3. m \in Nat
    BY <2>1
  <2> HIDE DEF m
  <2> QED
    BY <2>2, <2>3
<1>7. ItemsOf(t) \subseteq ItemsOf(s)
  BY <1>5 DEF ItemsOf
<1> QED
  BY <1>6, <1>7 DEF t, n

LEMMA AtMostItems ==
    ASSUME NEW T, NEW s \in Seq(T), NEW n \in Nat
    PROVE  Bus!AtMost(n, s) \in Seq(T) /\ ItemsOf(Bus!AtMost(n, s)) \subseteq ItemsOf(s)
<1>1. Len(s) \in Nat
  BY LenProperties
<1>2. CASE Len(s) <= n
  BY <1>2 DEF Bus!AtMost
<1>3. CASE ~(Len(s) <= n)
  <2>1. Len(s) - n + 1 \in Nat \ {0}
    BY <1>1, <1>3
  <2>2. Bus!AtMost(n, s) = SubSeq(s, Len(s) - n + 1, Len(s))
    BY <1>3 DEF Bus!AtMost
  <2> QED
    BY <2>1, <2>2, SubItems
<1> QED
  BY <1>2, <1>3

\* What a reader is handed, and what stays, was in the channel.
LEMMA ReadItems ==
    ASSUME NEW ch, queue[ch] \in Seq(Nat), latest[ch] \in Nat
    PROVE  LET h == Bus!Handed(ch, Reader, 0)
               k == Bus!Retained(ch, Reader, 0)
           IN  /\ h \in Seq(Nat) /\ k \in Seq(Nat) /\ ItemsOf(k) \subseteq ItemsOf(queue[ch])
               /\ IF Bus!is_latest_style(ch) THEN ItemsOf(h) \subseteq {latest[ch]} \ {0}
                  ELSE ItemsOf(h) \subseteq ItemsOf(queue[ch])
<1> DEFINE q == queue[ch]
           f == Bus!Fresh(ch)
           u == Bus!Unseen(ch, Reader)
           h == Bus!Handed(ch, Reader, 0)
           k == Bus!Retained(ch, Reader, 0)
<1>1. f \in Seq(Nat) /\ ItemsOf(f) \subseteq ItemsOf(q)
  <2> DEFINE places == {i \in DOMAIN q : ~Bus!message_expired(ch, q[i])}
  <2>1. f = EntriesAt(q, places) /\ places \in SUBSET DOMAIN q
    BY SameEntries DEF Bus!Fresh
  <2>2. {q[i] : i \in places} \subseteq ItemsOf(q)
    BY DEF ItemsOf
  <2> HIDE DEF places, f
  <2> QED
    BY <2>1, <2>2, EntriesFacts
<1>2. u \in Seq(Nat) /\ ItemsOf(u) \subseteq ItemsOf(f)
  <2> DEFINE places == {i \in DOMAIN f : ~config[ch].multi \/ f[i] > queueCursor[ch][Reader]}
  <2>1. u = EntriesAt(f, places) /\ places \in SUBSET DOMAIN f
    BY SameEntries DEF Bus!Unseen
  <2>2. {f[i] : i \in places} \subseteq ItemsOf(f)
    BY DEF ItemsOf
  <2> HIDE DEF places, f, u
  <2> QED
    BY <1>1, <2>1, <2>2, EntriesFacts
<1>3. h \in {<<>>, u, <<latest[ch]>>} /\ (Bus!is_latest_style(ch) => h = <<>> \/ (h = <<latest[ch]>> /\ latest[ch] # 0))
      /\ (~Bus!is_latest_style(ch) => h \in {<<>>, u})
  BY DEF Bus!Handed
<1> HIDE DEF h, u
<1>4. <<>> \in Seq(Nat) /\ <<latest[ch]>> \in Seq(Nat) /\ ItemsOf(<<latest[ch]>>) = {latest[ch]} /\ ItemsOf(<<>>) = {}
  <2>1. DOMAIN <<latest[ch]>> = {1} /\ <<latest[ch]>>[1] = latest[ch]
    OBVIOUS
  <2> QED
    BY <2>1, SmallOrders DEF ItemsOf
<1>5. /\ h \in Seq(Nat)
      /\ IF Bus!is_latest_style(ch) THEN ItemsOf(h) \subseteq {latest[ch]} \ {0} ELSE ItemsOf(h) \subseteq ItemsOf(q)
  BY <1>1, <1>2, <1>3, <1>4
<1>6. k \in {q, f, SubSeq(f, Len(h) + 1, Len(f))}
  BY DEF Bus!Retained, h
<1>7. Len(h) + 1 \in Nat \ {0}
  <2>1. Len(h) \in Nat
    BY <1>5, LenProperties
  <2> QED
    BY <2>1
<1> HIDE DEF f, k
<1>8. SubSeq(f, Len(h) + 1, Len(f)) \in Seq(Nat) /\ ItemsOf(SubSeq(f, Len(h) + 1, Len(f))) \subseteq ItemsOf(f)
  BY <1>1, <1>7, SubItems
<1>9. k \in Seq(Nat) /\ ItemsOf(k) \subseteq ItemsOf(q)
  BY <1>1, <1>6, <1>8
<1> QED
  BY <1>5, <1>9 DEF h, k

LEMMA CommittedLength ==
    ASSUME TypeOK, NEW ch \in Channels
    PROVE  Len(committed[ch]) \in Nat /\ DOMAIN committed[ch] = 1 .. Len(committed[ch])
<1>1. committed[ch] \in Seq([pub : Publication, at : Nat])
  BY DEF TypeOK
<1> QED
  BY <1>1, LenProperties

LEMMA Capacities ==
    ASSUME Numbered, NEW ch \in Channels
    PROVE  config[ch].capacity \in Nat
BY ConfigAssumption DEF Numbered, Bus!ChannelConfig

\* A batch of the bus, seen from one channel: the messages get the next numbers.
LEMMA StoreNumbers ==
    ASSUME TypeOK, Numbered, NEW n \in [Channels -> Nat], Bus!StoreAll(n, {}), UNCHANGED log, NEW ch \in Channels,
           Len(committed'[ch]) = Len(committed[ch]) + n[ch]
    PROVE  Numbers(ch)' /\ (config[ch].mode = "previous_tick" => latest'[ch] = latest[ch])
<1> DEFINE m == n[ch]
           c == Len(committed[ch])
           new == [i \in 1 .. m |-> nextSequence[ch] + i - 1]
<1>1. m \in Nat /\ c \in Nat /\ Numbers(ch)
  BY CommittedLength DEF Numbered
<1>2. /\ nextSequence[ch] = c + 1 /\ latest[ch] \in 0 .. c /\ pendingTick[ch] \in 0 .. c
      /\ queue[ch] \in Seq(Nat) /\ ItemsOf(queue[ch]) \subseteq 1 .. c /\ log[ch] \in [{Reader} -> Seq(Nat)]
  BY <1>1 DEF Numbers
<1>3. /\ nextSequence'[ch] = nextSequence[ch] + m + 0
      /\ pendingTick'[ch] = IF m > 0 /\ config[ch].mode = "previous_tick" THEN nextSequence[ch] + m - 1 ELSE pendingTick[ch]
      /\ latest'[ch] = IF m > 0 /\ config[ch].mode # "previous_tick" THEN nextSequence[ch] + m - 1 ELSE latest[ch]
      /\ queue'[ch] = IF Bus!is_latest_style(ch) THEN queue[ch] ELSE Bus!AtMost(config[ch].capacity, queue[ch] \o new)
  BY DEF Bus!StoreAll
<1> HIDE DEF m, c
<1>4. nextSequence'[ch] = c + m + 1 /\ latest'[ch] \in 0 .. c + m /\ pendingTick'[ch] \in 0 .. c + m
  BY <1>1, <1>2, <1>3
<1>5. new \in Seq(Nat) /\ ItemsOf(new) \subseteq 1 .. c + m
  <2>1. \A i \in 1 .. m : nextSequence[ch] + i - 1 \in 1 .. c + m /\ nextSequence[ch] + i - 1 \in Nat
    BY <1>1, <1>2
  <2>2. new \in [1 .. m -> Nat]
    BY <2>1
  <2>3. new \in Seq(Nat)
    BY <1>1, <2>2
  <2> QED
    BY <2>1, <2>3 DEF ItemsOf
<1> HIDE DEF new
<1>6. queue[ch] \o new \in Seq(Nat) /\ ItemsOf(queue[ch] \o new) = ItemsOf(queue[ch]) \cup ItemsOf(new)
  BY <1>2, <1>5, ConcatFacts
<1>7. /\ Bus!AtMost(config[ch].capacity, queue[ch] \o new) \in Seq(Nat)
      /\ ItemsOf(Bus!AtMost(config[ch].capacity, queue[ch] \o new)) \subseteq ItemsOf(queue[ch] \o new)
  BY <1>6, Capacities, AtMostItems
<1>8. 1 .. c \subseteq 1 .. c + m
  BY <1>1
<1>9. queue'[ch] \in Seq(Nat) /\ ItemsOf(queue'[ch]) \subseteq 1 .. c + m
  BY <1>2, <1>3, <1>5, <1>6, <1>7, <1>8
<1>10. Len(committed'[ch]) = c + m
  BY DEF c, m
<1> QED
  BY <1>2, <1>3, <1>4, <1>9, <1>10 DEF Numbers

LEMMA NumbersKept ==
    ASSUME Numbered, UNCHANGED <<busVars, committed>>, PublishEpoch \in Nat, PublishEpoch' \in Nat,
           PublishEpoch' >= PublishEpoch, TypeOK
    PROVE  Numbered'
<1>1. UNCHANGED <<config, nextSequence, latest, pendingTick, queue, log, committed>>
  BY DEF busVars
<1>2. config' \in EdgeConfigs /\ \A ch \in Channels : Numbers(ch)'
  BY <1>1 DEF Numbered, Numbers
<1>3. ASSUME NEW ch \in Channels PROVE HeldOver(ch)'
  <2>1. HeldOver(ch) /\ latest[ch] \in 0 .. Len(committed[ch])
    BY DEF Numbered, Numbers
  <2>2. CASE config[ch].mode = "previous_tick" /\ latest[ch] # 0
    <3>1. latest[ch] \in DOMAIN committed[ch]
      BY <2>1, <2>2, CommittedLength
    <3>2. committed[ch][latest[ch]].pub.epoch \in Nat
      <4>1. committed[ch][latest[ch]].pub \in Past
        BY <3>1 DEF Past, CommittedPubs
      <4>2. committed[ch][latest[ch]].pub \in Publication
        BY <4>1, PastType
      <4> QED
        BY <4>2 DEF Publication
    <3>3. committed[ch][latest[ch]].pub.epoch < PublishEpoch
      BY <2>1, <2>2 DEF HeldOver
    <3>4. committed[ch][latest[ch]].pub.epoch < PublishEpoch'
      BY <3>2, <3>3
    <3> QED
      BY <1>1, <3>4 DEF HeldOver
  <2> QED
    BY <1>1, <2>2 DEF HeldOver
<1> QED
  BY <1>2, <1>3 DEF Numbered

LEMMA NumbersBatch ==
    ASSUME TypeOK, Numbered, pc \in Committing, NEW next, next # "boundary", CommitBatch(next)
    PROVE  Numbered'
<1>1. PublishEpoch' = PublishEpoch /\ PublishEpoch \in Nat
  <2>1. epoch' = epoch /\ pc' \in {next, "failed"}
    BY CommitOutcome DEF Accepts, Refuses
  <2> QED
    BY <2>1, EpochType DEF PublishEpoch, Committing
<1>2. CASE inHand = <<>>
  <2>1. UNCHANGED <<busVars, committed>>
    BY <1>2 DEF CommitBatch
  <2> QED
    BY <1>1, <2>1, NumbersKept
<1>3. CASE inHand # <<>>
  <2> DEFINE stored == IF Bus!Preflight(Batch) THEN Len(inHand) ELSE 0
             n == [ch \in Channels |-> Cardinality({i \in 1 .. stored : Batch[i].ch = ch})]
  <2>1. /\ Bus!StoreAll(n, {}) /\ UNCHANGED <<config, log>>
        /\ IF Bus!Preflight(Batch) THEN Accepts(next) ELSE Refuses
    BY <1>3, BatchStored
  <2>2. ASSUME NEW ch \in Channels
        PROVE  /\ n[ch] = IF Bus!Preflight(Batch) THEN Tally(inHand, OnEdge(ch)) ELSE 0
               /\ n[ch] \in Nat
    <3>1. CASE Bus!Preflight(Batch)
      <4>1. \A i \in DOMAIN inHand : inHand[i] \in Publication
        BY StageTypes, LenProperties, ElementOfSeq
      <4>2. {i \in 1 .. stored : Batch[i].ch = ch} = {i \in DOMAIN inHand : inHand[i] \in OnEdge(ch)}
        <5>1. 1 .. stored = DOMAIN inHand
          BY <3>1, StageTypes, LenProperties
        <5>2. \A i \in DOMAIN inHand : Batch[i].ch = inHand[i].ch
          BY DEF Batch
        <5> QED
          BY <4>1, <5>1, <5>2 DEF OnEdge
      <4>3. n[ch] = Tally(inHand, OnEdge(ch))
        BY <4>2 DEF Tally
      <4> QED
        BY <3>1, <4>3, StageTypes, LimitsKnown
    <3>2. CASE ~Bus!Preflight(Batch)
      <4>1. {i \in 1 .. stored : Batch[i].ch = ch} = {}
        BY <3>2
      <4>2. n[ch] = 0
        BY <4>1, FS_EmptySet
      <4> QED
        BY <3>2, <4>2
    <3> QED
      BY <3>1, <3>2
  <2>3. n \in [Channels -> Nat]
    BY <2>2
  <2> HIDE DEF n
  <2>4. ASSUME NEW ch \in Channels
        PROVE  /\ Len(committed'[ch]) = Len(committed[ch]) + n[ch]
               /\ \A i \in DOMAIN committed[ch] : committed'[ch][i] = committed[ch][i]
    <3>1. CASE Bus!Preflight(Batch)
      BY <2>1, <2>2, <3>1, CommittedEntries
    <3>2. CASE ~Bus!Preflight(Batch)
      BY <2>1, <2>2, <3>2, CommittedLength DEF Refuses
    <3> QED
      BY <3>1, <3>2
  <2>5. ASSUME NEW ch \in Channels PROVE Numbers(ch)' /\ (config[ch].mode = "previous_tick" => latest'[ch] = latest[ch])
    BY <2>1, <2>3, <2>4, StoreNumbers
  <2>6. ASSUME NEW ch \in Channels PROVE HeldOver(ch)'
    <3> SUFFICES ASSUME config'[ch].mode = "previous_tick", latest'[ch] # 0
                 PROVE  committed'[ch][latest'[ch]].pub.epoch < PublishEpoch'
      BY DEF HeldOver
    <3>1. config' = config /\ latest'[ch] = latest[ch]
      BY <2>1, <2>5
    <3>2. HeldOver(ch) /\ latest[ch] \in 0 .. Len(committed[ch])
      BY DEF Numbered, Numbers
    <3>3. latest[ch] \in DOMAIN committed[ch]
      BY <3>1, <3>2, CommittedLength
    <3>4. committed'[ch][latest[ch]] = committed[ch][latest[ch]]
      BY <2>4, <3>3
    <3>5. committed[ch][latest[ch]].pub.epoch < PublishEpoch
      BY <3>1, <3>2 DEF HeldOver
    <3> QED
      BY <1>1, <3>1, <3>4, <3>5
  <2> QED
    BY <2>1, <2>5, <2>6 DEF Numbered
<1> QED
  BY <1>2, <1>3

LEMMA NumberedStep ==
    ASSUME TypeOK, Dated, Numbered, [Next]_vars
    PROVE  Numbered'
<1>1. PublishEpoch \in Nat /\ epoch \in Nat
  BY EpochType
<1>2. ASSUME UNCHANGED <<busVars, committed, pc, epoch>> PROVE Numbered'
  <2>1. PublishEpoch' = PublishEpoch
    BY <1>2 DEF PublishEpoch
  <2> QED
    BY <1>1, <1>2, <2>1, NumbersKept
<1>3. ASSUME UNCHANGED <<busVars, committed, epoch>>, pc # "boundary" PROVE Numbered'
  <2>1. PublishEpoch' \in Nat /\ PublishEpoch' >= PublishEpoch
    BY <1>1, <1>3 DEF PublishEpoch
  <2> QED
    BY <1>1, <1>3, <2>1, NumbersKept
<1>4. ASSUME NEW s \in Sources, Publish(s) PROVE Numbered'
  BY <1>2, <1>4, PublishStages
<1>5. CASE UNCHANGED vars
  BY <1>2, <1>5 DEF vars, history
<1>6. CASE BeginSwap \/ BeginCount \/ CommitSwap \/ CommitRegion \/ ComponentFails \/ EndEpoch
  BY <1>3, <1>6 DEF BeginSwap, BeginCount, CommitSwap, CommitRegion, ComponentFails, EndEpoch, history
<1>7. CASE BeginRegion \/ DiscardRegion
  BY <1>2, <1>7 DEF BeginRegion, DiscardRegion
<1>8. CASE BeginCommit \/ CommitImmediate \/ CommitRegionBatch
  <2>1. pc \in Committing /\ (CommitBatch("begin_count") \/ CommitBatch("run"))
    BY <1>8 DEF BeginCommit, CommitImmediate, CommitRegionBatch, Committing
  <2> QED
    BY <2>1, NumbersBatch
<1>9. CASE BeginAdvance
  <2>1. /\ pc' = "begin_swap" /\ epoch' = epoch + 1 /\ pc = "boundary" /\ Bus!AdvanceEpoch /\ UNCHANGED committed
    BY <1>9 DEF BeginAdvance, history
  <2>2. PublishEpoch' = epoch + 1 /\ PublishEpoch = epoch + 1
    BY <2>1 DEF PublishEpoch
  <2>3. /\ UNCHANGED <<config, nextSequence, queue, log>>
        /\ \A ch \in Channels : /\ latest'[ch] = IF pendingTick[ch] # 0 THEN pendingTick[ch] ELSE latest[ch]
                                /\ pendingTick'[ch] = 0
    BY <2>1 DEF Bus!AdvanceEpoch
  <2>4. ASSUME NEW ch \in Channels PROVE Numbers(ch)' /\ HeldOver(ch)'
    <3>1. Numbers(ch) /\ HeldOver(ch) /\ Len(committed[ch]) \in Nat
      BY CommittedLength DEF Numbered
    <3>2. Numbers(ch)'
      <4>1. pendingTick'[ch] \in 0 .. Len(committed[ch]) /\ latest'[ch] \in 0 .. Len(committed[ch])
        BY <2>3, <3>1 DEF Numbers
      <4> QED
        BY <2>1, <2>3, <3>1, <4>1 DEF Numbers
    <3>3. ASSUME config[ch].mode = "previous_tick", latest'[ch] # 0
          PROVE  committed[ch][latest'[ch]].pub.epoch < epoch + 1
      <4>1. CASE pendingTick[ch] = 0
        BY <2>2, <2>3, <3>1, <3>3, <4>1 DEF HeldOver
      <4>2. CASE pendingTick[ch] # 0
        <5> DEFINE c == committed[ch][latest'[ch]]
        <5>1. latest'[ch] \in DOMAIN committed[ch]
          BY <2>3, <3>1, <4>2, CommittedLength DEF Numbers
        <5>2. c.pub.epoch <= c.at /\ c.at <= epoch
          BY <5>1 DEF Dated
        <5>3. c.pub \in Publication /\ c.at \in Nat
          <6>1. committed[ch] \in Seq([pub : Publication, at : Nat])
            BY DEF TypeOK
          <6>2. c \in [pub : Publication, at : Nat]
            BY <5>1, <6>1, LenProperties, ElementOfSeq
          <6> QED
            BY <6>2
        <5>4. c.pub.epoch \in Nat
          BY <5>3 DEF Publication
        <5> HIDE DEF c
        <5>5. c.pub.epoch < epoch + 1
          BY <1>1, <5>2, <5>3, <5>4
        <5> QED
          BY <5>5 DEF c
      <4> QED
        BY <4>1, <4>2
    <3> QED
      BY <2>1, <2>2, <2>3, <3>2, <3>3 DEF HeldOver
  <2> QED
    BY <2>3, <2>4 DEF Numbered
<1>10. ASSUME NEW c \in Channels, ReadInput(c) PROVE Numbered'
  <2>1. Bus!Read({c}, Reader, 0) /\ UNCHANGED <<pc, epoch, committed>>
    BY <1>10 DEF ReadInput, history
  <2>2. PublishEpoch' = PublishEpoch
    BY <2>1 DEF PublishEpoch
  <2>3. UNCHANGED <<config, nextSequence, pendingTick>>
    BY <2>1 DEF Bus!Read
  <2>4. ASSUME NEW ch \in Channels PROVE Numbers(ch)' /\ HeldOver(ch)'
    <3>1. Numbers(ch) /\ HeldOver(ch) /\ Len(committed[ch]) \in Nat
      BY CommittedLength DEF Numbered
    <3>2. latest'[ch] \in {0, latest[ch]}
      BY <2>1 DEF Bus!Read
    <3>3. queue'[ch] \in {queue[ch], Bus!Retained(ch, Reader, 0)}
      BY <2>1 DEF Bus!Read
    <3>4. \E more \in {<<>>, Bus!Handed(ch, Reader, 0)} : log'[ch] = [log[ch] EXCEPT ![Reader] = @ \o more]
      BY <2>1 DEF Bus!Read
    <3>5. /\ Bus!Handed(ch, Reader, 0) \in Seq(Nat) /\ Bus!Retained(ch, Reader, 0) \in Seq(Nat)
          /\ ItemsOf(Bus!Retained(ch, Reader, 0)) \subseteq ItemsOf(queue[ch])
      BY <3>1, ReadItems DEF Numbers
    <3>6. log'[ch] \in [{Reader} -> Seq(Nat)]
      <4>1. PICK more \in {<<>>, Bus!Handed(ch, Reader, 0)} : log'[ch] = [log[ch] EXCEPT ![Reader] = @ \o more]
        BY <3>4
      <4>2. more \in Seq(Nat) /\ log[ch] \in [{Reader} -> Seq(Nat)]
        <5>1. <<>> \in Seq(Nat)
          OBVIOUS
        <5>2. more \in Seq(Nat)
          BY <3>5, <5>1
        <5> QED
          BY <3>1, <5>2 DEF Numbers
      <4>3. log[ch][Reader] \o more \in Seq(Nat)
        BY <4>2, ConcatFacts
      <4> QED
        BY <4>1, <4>2, <4>3
    <3>7. Numbers(ch)'
      BY <2>1, <2>3, <3>1, <3>2, <3>3, <3>5, <3>6 DEF Numbers
    <3>8. HeldOver(ch)'
      BY <2>1, <2>2, <2>3, <3>1, <3>2 DEF HeldOver
    <3> QED
      BY <3>7, <3>8
  <2> QED
    BY <2>3, <2>4 DEF Numbered
<1> QED
  BY <1>4, <1>5, <1>6, <1>7, <1>8, <1>9, <1>10 DEF Next

\* A batch that passes the preflight is stored to the last message.
LEMMA WholeStep ==
    ASSUME TypeOK, BatchAllOrNothing, [Next]_vars
    PROVE  BatchAllOrNothing'
<1>1. CASE UNCHANGED lastBatch
  BY <1>1 DEF BatchAllOrNothing, Bus!BatchAllOrNothing
<1>2. ASSUME NEW next, CommitBatch(next) PROVE BatchAllOrNothing'
  <2>1. CASE inHand = <<>>
    BY <1>1, <1>2, <2>1 DEF CommitBatch, busVars
  <2>2. CASE inHand # <<>>
    <3>1. lastBatch' = [size |-> Len(inHand), stored |-> IF Bus!Preflight(Batch) THEN Len(inHand) ELSE 0]
      BY <1>2, <2>2, BatchStored
    <3> QED
      BY <3>1 DEF BatchAllOrNothing, Bus!BatchAllOrNothing
  <2> QED
    BY <2>1, <2>2
<1>3. ASSUME NEW s \in Sources, Publish(s) PROVE BatchAllOrNothing'
  BY <1>1, <1>3, PublishStages DEF busVars
<1>4. CASE BeginSwap \/ BeginCount \/ CommitSwap \/ CommitRegion \/ ComponentFails \/ EndEpoch
           \/ BeginRegion \/ DiscardRegion \/ UNCHANGED vars
  BY <1>1, <1>4 DEF BeginSwap, BeginCount, CommitSwap, CommitRegion, ComponentFails, EndEpoch, BeginRegion,
                    DiscardRegion, vars, busVars
<1>5. CASE BeginAdvance
  BY <1>1, <1>5 DEF BeginAdvance, Bus!AdvanceEpoch
<1>6. ASSUME NEW c \in Channels, ReadInput(c) PROVE BatchAllOrNothing'
  <2>1. Bus!Read({c}, Reader, 0)
    BY <1>6 DEF ReadInput
  <2>2. UNCHANGED lastBatch
    BY <2>1 DEF Bus!Read
  <2> QED
    BY <1>1, <2>2
<1> QED
  BY <1>2, <1>3, <1>4, <1>5, <1>6 DEF Next, BeginCommit, CommitImmediate, CommitRegionBatch

-----------------------------------------------------------------------------
(* The invariant holds.                                                    *)

LEMMA RouterInit == Init => RouterInv
<1> SUFFICES ASSUME Init PROVE RouterInv
  OBVIOUS
<1>1. /\ immediateStage = <<>> /\ deferredNext = <<>> /\ deferredReady = <<>> /\ compositeStage = <<>>
      /\ inHand = <<>> /\ pc = "boundary" /\ epoch = 0 /\ publishes = 0 /\ regions = 0 /\ regionActive = FALSE
      /\ stagedCount = 0 /\ committedCount = 0 /\ discardedCount = 0 /\ evictedCount = 0 /\ asyncInFlight = 0
      /\ committed = [ch \in Channels |-> <<>>] /\ lost = {} /\ discarded = {} /\ config \in EdgeConfigs
  BY DEF Init
<1>2. <<>> \in Seq(Publication) /\ <<>> \in Seq([pub : Publication, at : Nat]) /\ <<>> \in Seq(Nat)
  OBVIOUS
<1>3. TypeOK
  BY <1>1, <1>2 DEF TypeOK, Phases
<1>4. ItemsOf(<<>>) = {} /\ InOrder(<<>>) /\ Len(<<>>) = 0 /\ \A V : Tally(<<>>, V) = 0
  BY SmallOrders
<1>5. StagesPlaced /\ HandPlaced
  BY <1>1, <1>4 DEF StagesPlaced, HandPlaced
<1>6. \A ch \in Channels : committed[ch] = <<>> /\ DOMAIN committed[ch] = {} /\ Len(committed[ch]) = 0
  BY <1>1
<1>7. Past = {}
  BY <1>6 DEF Past, CommittedPubs
<1>8. Dated
  BY <1>6 DEF Dated
<1>9. Waiting = {} /\ Lines
  BY <1>1, <1>4, <1>7 DEF Lines, Early, Before, Waiting
<1>10. Pipe
  <2>1. InHand = <<>>
    BY <1>1 DEF InHand
  <2> QED
    BY <1>1, <1>4, <1>6, <1>7, <2>1 DEF Pipe, Before
<1>11. Activations
  BY <1>1, <1>4, <1>7 DEF Activations, Gone
<1>12. Len(PendingDeferred) = 0 /\ \A ch : Len(OnChannel(PendingDeferred, ch)) = 0
  <2>1. Len(<<>> \o <<>> \o <<>>) = 0 + 0 + 0
    BY <1>2, <1>4, ThreeStages
  <2>2. ASSUME NEW ch PROVE Len(OnChannel(<<>> \o <<>> \o <<>>, ch)) = 0 + 0 + 0
    <3> DEFINE z == Tally(<<>>, OnEdge(ch))
    <3>1. Len(OnChannel(<<>> \o <<>> \o <<>>, ch)) = z + z + z
      BY <1>2, ThreeStages
    <3>2. z = 0
      BY <1>4
    <3> QED
      BY <3>1, <3>2
  <2> QED
    BY <1>1, <2>1, <2>2 DEF PendingDeferred
<1>13. AsyncAdmissionBound
  BY <1>12, RouterFacts DEF AsyncAdmissionBound
<1>14. Counted
  <2>1. IsFiniteSet(lost) /\ Cardinality(lost) = 0
    BY <1>1, FS_EmptySet
  <2>2. InTransit = 0
    BY <1>1, <1>4 DEF InTransit, InHand
  <2> QED
    BY <1>1, <1>4, <1>12, <2>1, <2>2 DEF Counted
<1>15. BatchAllOrNothing
  BY DEF Init, Bus!Init, BatchAllOrNothing, Bus!BatchAllOrNothing
<1>16. ASSUME NEW ch \in Channels PROVE Numbers(ch) /\ HeldOver(ch)
  <2>1. /\ nextSequence[ch] = 1 /\ latest[ch] = 0 /\ pendingTick[ch] = 0 /\ queue[ch] = <<>>
        /\ log[ch] = [r \in {Reader} |-> <<>>]
    BY DEF Init, Bus!Init
  <2>2. log[ch] \in [{Reader} -> Seq(Nat)]
    BY <1>2, <2>1
  <2> QED
    BY <1>2, <1>4, <1>6, <2>1, <2>2 DEF Numbers, HeldOver
<1> QED
  BY <1>1, <1>3, <1>5, <1>8, <1>9, <1>10, <1>11, <1>13, <1>14, <1>15, <1>16 DEF RouterInv, Numbered

LEMMA RouterStep == RouterInv /\ [Next]_vars => RouterInv'
<1> SUFFICES ASSUME RouterInv, [Next]_vars PROVE RouterInv'
  OBVIOUS
<1>1. /\ TypeOK /\ StagesPlaced /\ HandPlaced /\ Dated /\ Lines /\ Pipe /\ Activations
      /\ AsyncAdmissionBound /\ Counted /\ BatchAllOrNothing /\ Numbered
  BY DEF RouterInv
<1>2. TypeOK'
  BY <1>1, TypeStep
<1>3. StagesPlaced' /\ HandPlaced'
  BY <1>1, PlacedStep
<1>4. Dated'
  BY <1>1, DatedStep
<1>5. Lines'
  BY <1>1, LinesStep
<1>6. Pipe'
  BY <1>1, PipeStep
<1>7. Activations'
  BY <1>1, ActivationsStep
<1>8. AsyncAdmissionBound'
  BY <1>1, <1>2, AdmissionStep
<1>9. Counted'
  BY <1>1, <1>2, CountedStep
<1>10. BatchAllOrNothing'
  BY <1>1, WholeStep
<1>11. Numbered'
  BY <1>1, NumberedStep
<1> QED
  BY <1>2, <1>3, <1>4, <1>5, <1>6, <1>7, <1>8, <1>9, <1>10, <1>11 DEF RouterInv

LEMMA RouterInvHolds == Spec => []RouterInv
BY RouterInit, RouterStep, PTL DEF Spec

-----------------------------------------------------------------------------
(* The properties.                                                         *)

\* What a delay, state or async edge carries is committed by begin_epoch of the epoch
\* that follows its own, and once the epoch runs nothing is overdue.
THEOREM DeferralIsOneBoundary == Spec => []DeferredAtNextBoundary
<1>1. RouterInv => DeferredAtNextBoundary
  <2> SUFFICES ASSUME RouterInv, NEW ch \in Channels, Deferred(ch)
               PROVE  /\ \A i \in DOMAIN committed[ch] : committed[ch][i].at = committed[ch][i].pub.epoch + 1
                      /\ pc = "run" => \A p \in Elements(OnChannel(PendingDeferred, ch)) : p.epoch >= epoch
    BY DEF DeferredAtNextBoundary
  <2>1. \A i \in DOMAIN committed[ch] : committed[ch][i].at = committed[ch][i].pub.epoch + 1
    BY DEF RouterInv, Dated
  <2>2. ASSUME pc = "run", NEW p \in Elements(OnChannel(PendingDeferred, ch)) PROVE p.epoch >= epoch
    <3>1. TypeOK /\ StagesPlaced
      BY DEF RouterInv
    <3>2. PendingDeferred \in Seq(Publication) /\ ItemsOf(PendingDeferred) = Waiting
      BY <3>1, PendingFacts
    <3>3. OnChannel(PendingDeferred, ch) = Those(PendingDeferred, OnEdge(ch))
      BY <3>2, Filters
    <3>4. ItemsOf(Those(PendingDeferred, OnEdge(ch))) \subseteq Waiting
      <4>1. ItemsOf(Those(PendingDeferred, OnEdge(ch))) = ItemsOf(PendingDeferred) \cap OnEdge(ch)
        BY <3>2, ThoseFacts
      <4> QED
        BY <3>2, <4>1
    <3>5. p \in Waiting
      BY <2>2, <3>3, <3>4 DEF Elements, ItemsOf
    <3>6. PublishEpoch = epoch /\ ItemsOf(deferredReady) = {}
      BY <2>2, <3>1, SmallOrders DEF PublishEpoch, StagesPlaced
    <3>7. p.epoch = epoch
      BY <3>1, <3>5, <3>6 DEF Waiting, StagesPlaced
    <3> QED
      BY <3>1, <3>7, EpochType
  <2> QED
    BY <2>1, <2>2
<1> QED
  BY <1>1, RouterInvHolds, PTL

\* On one channel publications are committed in the order of the calls of publish, however
\* the calls fall between the critical sections of the runtime thread.
THEOREM ChannelsAreFifo == Spec => []ChannelFifo
<1>1. RouterInv => ChannelFifo
  <2> DEFINE past(ch) == [i \in DOMAIN committed[ch] |-> committed[ch][i].pub]
             pipe(ch) == past(ch) \o OnChannel(InHand, ch) \o OnChannel(immediateStage, ch) \o OnChannel(PendingDeferred, ch)
  <2> SUFFICES ASSUME RouterInv, NEW ch \in Channels, Deferred(ch) \/ ch \notin LoopExternal, pc # "failed"
               PROVE  \A i \in 1 .. Len(pipe(ch)) - 1 : pipe(ch)[i].id < pipe(ch)[i + 1].id
    BY DEF ChannelFifo
  <2> DEFINE A == past(ch)
             B == OnChannel(InHand, ch)
             C == OnChannel(immediateStage, ch)
             D == OnChannel(PendingDeferred, ch)
  <2>1. TypeOK /\ StagesPlaced /\ HandPlaced /\ Dated /\ Lines /\ Pipe
    BY DEF RouterInv
  <2>2. InLine(ch)
    BY DEF InLine
  <2>3. ASSUME NEW s \in Seq(Publication)
        PROVE  /\ OnChannel(s, ch) \in Seq(Publication)
               /\ \A p \in ItemsOf(OnChannel(s, ch)) : p \in ItemsOf(s) /\ p.ch = ch
               /\ InOrder(s) => InOrder(OnChannel(s, ch))
    <3>1. OnChannel(s, ch) = Those(s, OnEdge(ch))
      BY Filters
    <3>2. /\ Those(s, OnEdge(ch)) \in Seq(Publication)
          /\ ItemsOf(Those(s, OnEdge(ch))) = ItemsOf(s) \cap OnEdge(ch)
          /\ InOrder(s) => InOrder(Those(s, OnEdge(ch)))
      BY ThoseFacts
    <3> QED
      BY <3>1, <3>2 DEF OnEdge
  <2>4. InHand \in Seq(Publication) /\ InOrder(InHand)
    BY <2>1, StageTypes, SmallOrders DEF InHand, Lines
  <2>5. immediateStage \in Seq(Publication) /\ InOrder(immediateStage)
    BY <2>1, StageTypes DEF Lines
  <2>6. PendingDeferred \in Seq(Publication) /\ ItemsOf(PendingDeferred) = Waiting /\ InOrder(PendingDeferred)
    BY <2>1, PendingFacts, PendingInOrder
  <2>7. B \in Seq(Publication) /\ InOrder(B) /\ \A p \in ItemsOf(B) : p \in ItemsOf(InHand) /\ p.ch = ch
    BY <2>3, <2>4
  <2>8. C \in Seq(Publication) /\ InOrder(C) /\ \A p \in ItemsOf(C) : p \in ItemsOf(immediateStage) /\ p.ch = ch
    BY <2>3, <2>5
  <2>9. D \in Seq(Publication) /\ InOrder(D) /\ \A p \in ItemsOf(D) : p \in Waiting /\ p.ch = ch
    BY <2>3, <2>6
  <2>10. A \in Seq(Publication) /\ InOrder(A) /\ \A p \in ItemsOf(A) : p \in Past /\ p.ch = ch
    <3>1. Len(committed[ch]) \in Nat /\ DOMAIN committed[ch] = 1 .. Len(committed[ch])
      BY <2>1, CommittedLength
    <3>2. \A i \in DOMAIN committed[ch] : committed[ch][i].pub \in Past /\ committed[ch][i].pub.ch = ch
      BY <2>1 DEF Past, CommittedPubs, Dated
    <3>3. Past \subseteq Publication
      BY <2>1, PastType
    <3>4. A \in [1 .. Len(committed[ch]) -> Publication]
      BY <3>1, <3>2, <3>3
    <3>5. A \in Seq(Publication)
      BY <3>1, <3>4
    <3>6. InOrder(A)
      BY <2>1, <2>2 DEF Pipe, InOrder
    <3> QED
      BY <3>2, <3>5, <3>6 DEF ItemsOf
  <2> HIDE DEF A, B, C, D
  <2>11. /\ Before(Past, ItemsOf(InHand)) /\ Before(Past, ItemsOf(immediateStage)) /\ Before(Past, Waiting)
         /\ Before(ItemsOf(InHand), ItemsOf(immediateStage)) /\ Before(ItemsOf(InHand), Waiting)
    BY <2>1 DEF Pipe
  <2>12. Before(ItemsOf(immediateStage), Waiting)
    BY <2>1 DEF Before, StagesPlaced, InLine, Waiting
  <2>13. A \o B \in Seq(Publication) /\ InOrder(A \o B) /\ ItemsOf(A \o B) = ItemsOf(A) \cup ItemsOf(B)
    <3>1. \A p \in ItemsOf(A), q \in ItemsOf(B) : p.id < q.id
      BY <2>2, <2>7, <2>10, <2>11 DEF Before
    <3> QED
      BY <2>7, <2>10, <3>1, OrderConcat, ConcatFacts
  <2> DEFINE AB == A \o B
             ABC == AB \o C
             P == ABC \o D
  <2>14. ABC \in Seq(Publication) /\ InOrder(ABC) /\ ItemsOf(ABC) = ItemsOf(AB) \cup ItemsOf(C)
    <3>1. \A p \in ItemsOf(AB), q \in ItemsOf(C) : p.id < q.id
      BY <2>2, <2>7, <2>8, <2>10, <2>11, <2>13 DEF Before
    <3> HIDE DEF AB
    <3>2. AB \in Seq(Publication) /\ InOrder(AB)
      BY <2>13 DEF AB
    <3> QED
      BY <2>8, <3>1, <3>2, OrderConcat, ConcatFacts
  <2>15. P \in Seq(Publication) /\ InOrder(P) /\ ItemsOf(P) = ItemsOf(ABC) \cup ItemsOf(D)
    <3>1. \A p \in ItemsOf(ABC), q \in ItemsOf(D) : p.id < q.id
      BY <2>2, <2>7, <2>8, <2>9, <2>10, <2>11, <2>12, <2>13, <2>14 DEF Before
    <3> HIDE DEF ABC
    <3> QED
      BY <2>9, <2>14, <3>1, OrderConcat, ConcatFacts
  <2>16. \A p \in ItemsOf(P) : p.ch = ch
    BY <2>7, <2>8, <2>9, <2>10, <2>13, <2>14, <2>15
  <2>17. pipe(ch) = P
    BY DEF A, B, C, D
  <2> HIDE DEF P
  <2>18. ASSUME NEW i \in 1 .. Len(P) - 1 PROVE P[i].id < P[i + 1].id
    <3>1. Len(P) \in Nat /\ DOMAIN P = 1 .. Len(P)
      BY <2>15, LenProperties
    <3>2. i \in DOMAIN P /\ i + 1 \in DOMAIN P /\ i < i + 1
      BY <3>1
    <3>3. P[i].ch = ch /\ P[i + 1].ch = ch
      BY <2>16, <3>2 DEF ItemsOf
    <3> QED
      BY <2>15, <3>2, <3>3 DEF InOrder
  <2> HIDE DEF pipe
  <2> QED
    BY <2>17, <2>18
<1> QED
  BY <1>1, RouterInvHolds, PTL

\* The router's metrics add up at every moment and no async edge has more than
\* max_inflight completions waiting, whatever is evicted, refused, discarded or lost.
THEOREM PublicationsAreAccounted == Spec => []StagedAccounted
<1>1. RouterInv => StagedAccounted
  BY DEF RouterInv, StagedAccounted, Counted, InTransit
<1> QED
  BY <1>1, RouterInvHolds, PTL

\* The outputs of an activation of the loop become visible after it, never after some of
\* them were discarded, and its immediate outputs all or none.
THEOREM LoopOutputsStayTogether == Spec => []RegionOutputsTogether
<1>1. RouterInv => RegionOutputsTogether
  <2> DEFINE visible(k) == {p \in Past : p.region = k}
  <2> SUFFICES ASSUME RouterInv, NEW k \in 1 .. regions
               PROVE  /\ visible(k) # {} => /\ \A p \in discarded : p.region # k
                                            /\ ~(regionActive /\ k = regions)
                      /\ (\E p \in visible(k) : ~Deferred(p.ch)) =>
                            \A p \in lost : p.region = k => Deferred(p.ch)
    BY DEF RegionOutputsTogether, Past
  <2>1. TypeOK /\ Activations /\ k # 0 /\ regions \in Nat
    BY EpochType DEF RouterInv
  <2>2. Past \subseteq Gone
    BY DEF Gone
  <2>3. ASSUME NEW q \in visible(k) PROVE (\A p \in discarded : p.region # k) /\ ~(regionActive /\ k = regions)
    <3>1. q \in Gone /\ q.region = k
      BY <2>2, <2>3
    <3>2. regionActive => k < regions
      BY <2>1, <3>1 DEF Activations
    <3>3. \A p \in discarded : p.region # k
      BY <2>1, <3>1 DEF Activations
    <3> QED
      BY <2>1, <3>2, <3>3
  <2>4. ASSUME NEW q \in visible(k), ~Deferred(q.ch), NEW p \in lost, p.region = k PROVE Deferred(p.ch)
    BY <2>1, <2>4 DEF Activations
  <2> QED
    BY <2>3, <2>4
<1> QED
  BY <1>1, RouterInvHolds, PTL

\* publish_batch stores a batch of the router whole or refuses it whole: what passes the
\* preflight under the bus's mutex is never refused by the storing loop.
THEOREM RouterBatchesAreWhole == Spec => []BatchAllOrNothing
<1>1. RouterInv => BatchAllOrNothing
  BY DEF RouterInv
<1> QED
  BY <1>1, RouterInvHolds, PTL

\* What a step adds to the log of a reader.
Feedback ==
    \A ch \in Channels :
        Deferred(ch) \/ config[ch].mode = "previous_tick" =>
            \A i \in Len(log[ch][Reader]) + 1 .. Len(log'[ch][Reader]) :
                committed[ch][log'[ch][Reader][i]].pub.epoch < epoch

LEMMA FeedbackStep ==
    ASSUME RouterInv, Next
    PROVE  Feedback
<1>1. TypeOK /\ Dated /\ Numbered /\ epoch \in Nat
  BY EpochType DEF RouterInv
<1>2. \A ch \in Channels : Numbers(ch) /\ HeldOver(ch) /\ Len(log[ch][Reader]) \in Nat /\ log[ch] \in [{Reader} -> Seq(Nat)]
  <2> SUFFICES ASSUME NEW ch \in Channels
               PROVE  Numbers(ch) /\ HeldOver(ch) /\ Len(log[ch][Reader]) \in Nat /\ log[ch] \in [{Reader} -> Seq(Nat)]
    OBVIOUS
  <2>1. Numbers(ch) /\ HeldOver(ch) /\ log[ch] \in [{Reader} -> Seq(Nat)]
    BY <1>1 DEF Numbered, Numbers
  <2>2. log[ch][Reader] \in Seq(Nat)
    BY <2>1
  <2> QED
    BY <2>1, <2>2, LenProperties
<1>3. CASE UNCHANGED log
  <2>1. ASSUME NEW n \in Nat PROVE n + 1 .. n = {}
    OBVIOUS
  <2> QED
    BY <1>2, <1>3, <2>1 DEF Feedback
<1>4. ASSUME NEW next, CommitBatch(next) PROVE Feedback
  <2>1. CASE inHand = <<>>
    BY <1>3, <1>4, <2>1 DEF CommitBatch, busVars
  <2>2. CASE inHand # <<>>
    BY <1>1, <1>3, <1>4, <2>2, BatchStored
  <2> QED
    BY <2>1, <2>2
<1>5. ASSUME NEW s \in Sources, Publish(s) PROVE Feedback
  BY <1>1, <1>3, <1>5, PublishStages DEF busVars
<1>6. CASE BeginSwap \/ BeginCount \/ CommitSwap \/ CommitRegion \/ ComponentFails \/ EndEpoch
           \/ BeginRegion \/ DiscardRegion
  BY <1>3, <1>6 DEF BeginSwap, BeginCount, CommitSwap, CommitRegion, ComponentFails, EndEpoch, BeginRegion,
                    DiscardRegion, busVars
<1>7. CASE BeginAdvance
  BY <1>3, <1>7 DEF BeginAdvance, Bus!AdvanceEpoch
<1>8. ASSUME NEW c \in Channels, ReadInput(c) PROVE Feedback
  <2> SUFFICES ASSUME NEW ch \in Channels, Deferred(ch) \/ config[ch].mode = "previous_tick",
                      NEW i \in Len(log[ch][Reader]) + 1 .. Len(log'[ch][Reader])
               PROVE  committed[ch][log'[ch][Reader][i]].pub.epoch < epoch
    BY DEF Feedback
  <2> DEFINE h == Bus!Handed(ch, Reader, 0)
             old == log[ch][Reader]
             n == Len(committed[ch])
             x == log'[ch][Reader][i]
  <2>1. pc = "run" /\ Bus!Read({c}, Reader, 0)
    BY <1>8 DEF ReadInput
  <2>2. PICK more \in {<<>>, h} : log'[ch] = [log[ch] EXCEPT ![Reader] = @ \o more]
    BY <2>1 DEF Bus!Read
  <2>3. log'[ch][Reader] = old \o more
    BY <1>2, <2>2
  <2>4. /\ h \in Seq(Nat)
        /\ IF Bus!is_latest_style(ch) THEN ItemsOf(h) \subseteq {latest[ch]} \ {0}
           ELSE ItemsOf(h) \subseteq ItemsOf(queue[ch])
    <3>1. queue[ch] \in Seq(Nat) /\ latest[ch] \in Nat
      BY <1>1, <1>2, CommittedLength DEF Numbers
    <3> QED
      BY <3>1, ReadItems
  <2>5. old \in Seq(Nat) /\ Len(old) \in Nat
    BY <1>2
  <2>6. more \in Seq(Nat) /\ Len(more) \in Nat /\ DOMAIN more = 1 .. Len(more) /\ (more = h \/ more = <<>>)
    <3>1. <<>> \in Seq(Nat)
      OBVIOUS
    <3>2. more \in Seq(Nat)
      BY <2>2, <2>4, <3>1
    <3> QED
      BY <2>2, <3>2, LenProperties
  <2>7. x \in ItemsOf(more)
    <3> HIDE DEF old, h
    <3>1. /\ Len(old \o more) = Len(old) + Len(more)
          /\ \A k \in 1 .. Len(old) + Len(more) : (old \o more)[k] = IF k <= Len(old) THEN old[k] ELSE more[k - Len(old)]
      BY <2>5, <2>6, ConcatEntries
    <3>2. i \in Len(old) + 1 .. Len(old) + Len(more)
      BY <2>3, <3>1 DEF old
    <3>3. i - Len(old) \in DOMAIN more /\ (old \o more)[i] = more[i - Len(old)]
      BY <2>5, <2>6, <3>1, <3>2
    <3> QED
      BY <2>3, <3>3 DEF ItemsOf
  <2>8. x \in ItemsOf(h)
    BY <2>6, <2>7, SmallOrders
  <2> HIDE DEF x, h
  <2>9. x \in 1 .. n /\ (Bus!is_latest_style(ch) => x = latest[ch] /\ x # 0)
    <3>1. latest[ch] \in 0 .. n /\ ItemsOf(queue[ch]) \subseteq 1 .. n /\ n \in Nat
      BY <1>1, <1>2, CommittedLength DEF Numbers
    <3> QED
      BY <2>4, <2>8, <3>1
  <2>10. CASE Deferred(ch)
    <3> DEFINE e == committed[ch][x]
    <3>1. x \in DOMAIN committed[ch]
      BY <1>1, <2>9, CommittedLength
    <3>2. e.at <= epoch /\ e.at = e.pub.epoch + 1
      BY <1>1, <2>10, <3>1 DEF Dated
    <3>3. e.pub.epoch \in Nat
      <4>1. e.pub \in Past
        BY <3>1 DEF Past, CommittedPubs
      <4>2. e.pub \in Publication
        BY <1>1, <4>1, PastType
      <4> QED
        BY <4>2 DEF Publication
    <3> HIDE DEF e
    <3>4. e.pub.epoch < epoch
      BY <1>1, <3>2, <3>3
    <3> QED
      BY <3>4 DEF e, x
  <2>11. CASE config[ch].mode = "previous_tick"
    <3>1. x = latest[ch] /\ latest[ch] # 0
      BY <2>9, <2>11 DEF Bus!is_latest_style
    <3>2. PublishEpoch = epoch
      BY <2>1 DEF PublishEpoch
    <3>3. committed[ch][x].pub.epoch < epoch
      BY <1>2, <2>11, <3>1, <3>2 DEF HeldOver
    <3> QED
      BY <3>3 DEF x
  <2> QED
    BY <2>10, <2>11
<1> QED
  BY <1>4, <1>5, <1>6, <1>7, <1>8 DEF Next, BeginCommit, CommitImmediate, CommitRegionBatch

\* End to end, through the stages of the router, the numbers of the bus and the cursor of
\* the reader: what a component reads from a deferred edge or a previous_tick channel was
\* published in an earlier epoch.
THEOREM FeedbackTakesAnEpoch == Spec => FeedbackIsDelayed
<1>1. RouterInv /\ [Next]_vars => [Feedback]_vars
  BY FeedbackStep
<1>2. Spec => [][Feedback]_vars
  BY <1>1, RouterInvHolds, PTL DEF Spec
<1> QED
  BY <1>2 DEF Feedback, FeedbackIsDelayed

=============================================================================
