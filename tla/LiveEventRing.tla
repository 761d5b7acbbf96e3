---------------------------- MODULE LiveEventRing ---------------------------
(***************************************************************************)
(* LiveEventStream over LiveEventRingBuffer of src/live_observe.cpp: a     *)
(* lock-free ring from one producer thread to one consumer thread.         *)
(*                                                                         *)
(* Every atomic access is an action of its own, and so is every access to  *)
(* a slot of buffer_.  An acquire load of the other side's index may       *)
(* return any value stored since the one it returned last, not only the    *)
(* newest: readSeen and writeSeen are what the two sides have seen.  The   *)
(* two relaxed increments of a drop take effect in either order.  An event *)
(* is its local_seq; its other fields are left out.                        *)
(***************************************************************************)
EXTENDS Naturals, Sequences, FiniteSets

CONSTANTS
    Capacity,       \* capacity_; 0 makes every publication a drop
    MaxLocalSeq     \* bound: sequence numbers handed out

ASSUME RingAssumption == Capacity \in Nat /\ MaxLocalSeq \in Nat

VARIABLES
    buffer,         \* buffer_, capacity_ + 1 slots
    readIndex, writeIndex,
                    \* read_index_ and write_index_
    readSeen,       \* read_index_ as the producer last loaded it
    writeSeen,      \* write_index_ as the consumer last loaded it
    dropped,        \* dropped_event_count_
    pendingDrops,   \* pending_drop_count_
    localSeq,       \* local_seq_
    ppc, queued,    \* the producer: where it is, and queued.local_seq
    owed,           \* the counters of a drop it has yet to increment
    cpc, event,     \* the consumer: where it is, and the event it copied
    accepted,       \* history: events pushed, in order
    popped,         \* history: events popped, in order
    reported,       \* history: sum of the drop summaries taken
    summarySeqs     \* history: sequence numbers of those summaries

producer == <<ppc, queued, owed>>
consumer == <<cpc, event>>
counters == <<dropped, pendingDrops>>
history == <<accepted, popped, reported, summarySeqs>>
vars == <<buffer, readIndex, writeIndex, readSeen, writeSeen, counters, localSeq,
          producer, consumer, history>>

Size == Capacity + 1
Indices == 0 .. Capacity
Counters == {"dropped", "pending"}

increment(i) == IF i + 1 = Size THEN 0 ELSE i + 1

\* Steps from index a forward to index b, and the slot n steps after index a.
Ahead(a, b) == IF a <= b THEN b - a ELSE b + Size - a
Slot(a, n) == IF a + n < Size THEN a + n ELSE a + n - Size

\* The values an acquire load may return when the last one was `seen`.
Loadable(seen, current) == {v \in Indices : Ahead(seen, v) <= Ahead(seen, current)}

Init ==
    /\ buffer = [i \in Indices |-> 0]
    /\ readIndex = 0 /\ writeIndex = 0
    /\ readSeen = 0 /\ writeSeen = 0
    /\ dropped = 0 /\ pendingDrops = 0
    /\ localSeq = 0
    /\ ppc = "idle" /\ queued = 0 /\ owed = {}
    /\ cpc = "idle" /\ event = 0
    /\ accepted = <<>> /\ popped = <<>>
    /\ reported = 0 /\ summarySeqs = {}

-----------------------------------------------------------------------------
(* The producer.                                                           *)

\* try_publish: the event takes the next sequence number.
TryPublish ==
    /\ ppc = "idle"
    /\ localSeq < MaxLocalSeq
    /\ localSeq' = localSeq + 1
    /\ queued' = localSeq + 1
    /\ ppc' = "check"
    /\ UNCHANGED <<buffer, readIndex, writeIndex, readSeen, writeSeen, counters, owed,
                   consumer, history>>

\* Mutant: the test for a full ring is missing.
PushNeverFull ==
    /\ ppc = "check"
    /\ readSeen' = readIndex
    /\ ppc' = "write" /\ owed' = {}
    /\ UNCHANGED <<buffer, readIndex, writeIndex, writeSeen, counters, localSeq, queued,
                   consumer, history>>

\* try_push: a ring of capacity 0 takes nothing; otherwise one slot stays free, so
\* that equal indices mean an empty ring.
PushCheck ==
    /\ ppc = "check"
    /\ \E seen \in Loadable(readSeen, readIndex) :
          /\ readSeen' = seen
          /\ IF Capacity = 0 \/ increment(writeIndex) = seen
                THEN ppc' = "drop" /\ owed' = Counters
                ELSE ppc' = "write" /\ owed' = {}
    /\ UNCHANGED <<buffer, readIndex, writeIndex, writeSeen, counters, localSeq, queued,
                   consumer, history>>

PushWrite ==
    /\ ppc = "write"
    /\ buffer' = [buffer EXCEPT ![writeIndex] = queued]
    /\ ppc' = "store"
    /\ UNCHANGED <<readIndex, writeIndex, readSeen, writeSeen, counters, localSeq, queued,
                   owed, consumer, history>>

PushStore ==
    /\ ppc = "store"
    /\ writeIndex' = increment(writeIndex)
    /\ accepted' = Append(accepted, queued)
    /\ ppc' = "idle"
    /\ UNCHANGED <<buffer, readIndex, readSeen, writeSeen, counters, localSeq, queued, owed,
                   consumer, popped, reported, summarySeqs>>

\* The two fetch_adds of a drop.
CountDrop(counter) ==
    /\ ppc = "drop"
    /\ counter \in owed
    /\ owed' = owed \ {counter}
    /\ ppc' = IF owed = {counter} THEN "idle" ELSE "drop"
    /\ dropped' = IF counter = "dropped" THEN dropped + 1 ELSE dropped
    /\ pendingDrops' = IF counter = "pending" THEN pendingDrops + 1 ELSE pendingDrops
    /\ UNCHANGED <<buffer, readIndex, writeIndex, readSeen, writeSeen, localSeq, queued,
                   consumer, history>>

-----------------------------------------------------------------------------
(* The consumer.                                                           *)

\* try_pop: the load of write_index_, and a return when the ring looks empty.
PopCheck ==
    /\ cpc = "idle"
    /\ Capacity > 0
    /\ \E seen \in Loadable(writeSeen, writeIndex) :
          /\ writeSeen' = seen
          /\ cpc' = IF readIndex = seen THEN "idle" ELSE "read"
    /\ UNCHANGED <<buffer, readIndex, writeIndex, readSeen, counters, localSeq, producer,
                   event, history>>

\* Mutant: the wrong slot is copied.
PopReadNext ==
    /\ cpc = "read"
    /\ event' = buffer[increment(readIndex)]
    /\ cpc' = "store"
    /\ UNCHANGED <<buffer, readIndex, writeIndex, readSeen, writeSeen, counters, localSeq,
                   producer, history>>

PopRead ==
    /\ cpc = "read"
    /\ event' = buffer[readIndex]
    /\ cpc' = "store"
    /\ UNCHANGED <<buffer, readIndex, writeIndex, readSeen, writeSeen, counters, localSeq,
                   producer, history>>

PopStore ==
    /\ cpc = "store"
    /\ readIndex' = increment(readIndex)
    /\ popped' = Append(popped, event)
    /\ cpc' = "idle"
    /\ UNCHANGED <<buffer, writeIndex, readSeen, writeSeen, counters, localSeq, producer,
                   event, accepted, reported, summarySeqs>>

\* Mutant: the count is loaded, not exchanged for zero.
TakeDropSummaryAgain ==
    /\ cpc = "idle"
    /\ pendingDrops > 0
    /\ reported' = reported + pendingDrops
    /\ cpc' = "number"
    /\ UNCHANGED <<buffer, readIndex, writeIndex, readSeen, writeSeen, counters, localSeq,
                   producer, event, accepted, popped, summarySeqs>>

\* take_drop_summary: the exchange, and when there was something to report ...
TakeDropSummary ==
    /\ cpc = "idle"
    /\ pendingDrops > 0
    /\ reported' = reported + pendingDrops
    /\ pendingDrops' = 0
    /\ cpc' = "number"
    /\ UNCHANGED <<buffer, readIndex, writeIndex, readSeen, writeSeen, dropped, localSeq,
                   producer, event, accepted, popped, summarySeqs>>

\* ... a sequence number for the summary event.
NumberSummary ==
    /\ cpc = "number"
    /\ localSeq < MaxLocalSeq
    /\ localSeq' = localSeq + 1
    /\ summarySeqs' = summarySeqs \cup {localSeq + 1}
    /\ cpc' = "idle"
    /\ UNCHANGED <<buffer, readIndex, writeIndex, readSeen, writeSeen, counters, producer,
                   event, accepted, popped, reported>>

Next ==
    \/ TryPublish \/ PushCheck \/ PushWrite \/ PushStore
    \/ \E counter \in Counters : CountDrop(counter)
    \/ PopCheck \/ PopRead \/ PopStore
    \/ TakeDropSummary \/ NumberSummary

Spec == Init /\ [][Next]_vars

-----------------------------------------------------------------------------
(* Properties.                                                             *)

\* Type correctness of the ring and its two sides.
TypeOK ==
    /\ buffer \in [Indices -> Nat]
    /\ readIndex \in Indices /\ writeIndex \in Indices
    /\ readSeen \in Indices /\ writeSeen \in Indices
    /\ dropped \in Nat /\ pendingDrops \in Nat /\ localSeq \in Nat
    /\ ppc \in {"idle", "check", "write", "store", "drop"}
    /\ queued \in Nat
    /\ owed \in SUBSET Counters
    /\ cpc \in {"idle", "read", "store", "number"}
    /\ event \in Nat
    /\ accepted \in Seq(Nat) /\ popped \in Seq(Nat)
    /\ reported \in Nat /\ summarySeqs \in SUBSET Nat

\* The producer's write of a slot and the consumer's read of a slot, the accesses no
\* atomic protects, never fall on the same slot.
SlotExclusive ==
    ppc = "write" /\ cpc = "read" => writeIndex # readIndex

\* What try_pop returned, followed by what the ring holds, is what try_push accepted:
\* no event is lost, torn, repeated or reordered, however stale an index load is.
Fifo ==
    /\ Len(accepted) = Len(popped) + Ahead(readIndex, writeIndex)
    /\ \A i \in 1 .. Len(popped) : popped[i] = accepted[i]
    /\ \A n \in 0 .. Ahead(readIndex, writeIndex) - 1 :
          buffer[Slot(readIndex, n)] = accepted[Len(popped) + n + 1]

\* The producer numbers the event it is publishing; the number is not settled yet.
InProgress == ppc \in {"check", "write", "store"} \/ "dropped" \in owed
AsNat(b) == IF b THEN 1 ELSE 0

\* Every sequence number is an accepted event, a drop or a summary, and every drop is
\* reported by exactly one summary or still pending.  So a consumer can account for
\* each gap in the numbers it sees.
DropsAccounted ==
    /\ localSeq = Len(accepted) + dropped + Cardinality(summarySeqs) + AsNat(InProgress)
    /\ dropped + AsNat("dropped" \in owed) =
          reported + pendingDrops + AsNat("pending" \in owed)

\* The two threads share one counter, yet no two events have the same number, and
\* events leave the ring in the order of their numbers.
SequencesUnique ==
    /\ \A i, j \in 1 .. Len(accepted) : i < j => accepted[i] < accepted[j]
    /\ \A i \in 1 .. Len(accepted) : accepted[i] \notin summarySeqs

\* A consumer can account for every number it does not see: numbers are unique and in
\* order, and each is an event, a drop that some summary reports once, or a summary.
EventsAccounted == TypeOK /\ DropsAccounted /\ SequencesUnique
=============================================================================
