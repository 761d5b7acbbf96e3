------------------------- MODULE LiveEventRingProofs ------------------------
(***************************************************************************)
(* The live event ring is safe for every capacity: the producer and the    *)
(* consumer never touch one slot at once, and what is popped is what was   *)
(* pushed, in order, whatever stale index a load returns.  And every       *)
(* sequence number is accounted for, so the gaps a consumer sees are the   *)
(* drops that the summaries report.                                        *)
(***************************************************************************)
EXTENDS LiveEventRing, FiniteSetTheorems, TLAPS

(* The indices keep their cyclic order: what the producer has seen of      *)
(* read_index_, read_index_, what the consumer has seen of write_index_,   *)
(* write_index_.                                                           *)
IndexOrder ==
    /\ Ahead(readSeen, readIndex) + Ahead(readIndex, writeIndex) = Ahead(readSeen, writeIndex)
    /\ Ahead(readIndex, writeSeen) + Ahead(writeSeen, writeIndex) = Ahead(readIndex, writeIndex)

(* What each side knows between its index load and its index store.        *)
ProducerKnows ==
    /\ ppc \in {"write", "store"} => increment(writeIndex) # readSeen
    /\ ppc = "store" => buffer[writeIndex] = queued
ConsumerKnows ==
    /\ cpc \in {"read", "store"} => readIndex # writeSeen
    /\ cpc = "store" => event = buffer[readIndex]

RingInv == IndexOrder /\ ProducerKnows /\ ConsumerKnows /\ Fifo

-----------------------------------------------------------------------------

\* increment stays within the slots and moves one step on.
LEMMA IncrementStep ==
    ASSUME NEW a \in Indices, NEW b \in Indices
    PROVE  /\ increment(b) \in Indices
           /\ increment(b) # a => Ahead(a, increment(b)) = Ahead(a, b) + 1
           /\ a # b => Ahead(increment(a), b) = Ahead(a, b) - 1
           /\ Ahead(a, b) \in 0 .. Capacity
           /\ Ahead(a, b) = 0 <=> a = b
           /\ increment(b) = a => Ahead(a, b) = Capacity
  BY RingAssumption DEF increment, Ahead, Indices, Size

\* Slots fewer steps ahead than there are slots are distinct, and Ahead counts the
\* steps that Slot takes.
LEMMA SlotStep ==
    ASSUME NEW a \in Indices, NEW n \in 0 .. Capacity
    PROVE  /\ Slot(a, n) \in Indices
           /\ Ahead(a, Slot(a, n)) = n
           /\ n > 0 => Slot(increment(a), n - 1) = Slot(a, n)
           /\ Slot(a, 0) = a
  BY RingAssumption DEF increment, Ahead, Slot, Indices, Size

LEMMA SlotOfAhead ==
    ASSUME NEW a \in Indices, NEW b \in Indices
    PROVE  Slot(a, Ahead(a, b)) = b
  BY RingAssumption DEF Ahead, Slot, Indices, Size

\* The state of the ring and of its two sides stays well typed (live_observe.cpp).
THEOREM RingTypeCorrect == Spec => []TypeOK
<1>1. Init => TypeOK
  BY RingAssumption DEF Init, TypeOK, Indices, Counters
<1>2. TypeOK /\ [Next]_vars => TypeOK'
  <2> SUFFICES ASSUME TypeOK, [Next]_vars PROVE TypeOK'
    OBVIOUS
  <2> USE DEF TypeOK, history, producer, consumer, counters
  <2>0. increment(readIndex) \in Indices /\ increment(writeIndex) \in Indices
    BY IncrementStep
  <2>1. CASE TryPublish BY <2>1 DEF TryPublish
  <2>3. CASE PushCheck BY <2>3 DEF PushCheck, Loadable
  <2>4. CASE PushWrite BY <2>4 DEF PushWrite
  <2>5. CASE PushStore BY <2>0, <2>5 DEF PushStore
  <2>6. ASSUME NEW counter \in Counters, CountDrop(counter) PROVE TypeOK'
    BY <2>6 DEF CountDrop
  <2>7. CASE PopCheck BY <2>7 DEF PopCheck, Loadable
  <2>8. CASE PopRead BY <2>8 DEF PopRead
  <2>9. CASE PopStore BY <2>0, <2>9 DEF PopStore
  <2>10. CASE TakeDropSummary BY <2>10 DEF TakeDropSummary
  <2>11. CASE NumberSummary BY <2>11 DEF NumberSummary
  <2>12. CASE UNCHANGED vars BY <2>12 DEF vars
  <2> QED
    BY <2>1, <2>3, <2>4, <2>5, <2>6, <2>7, <2>8, <2>9, <2>10, <2>11, <2>12 DEF Next
<1> QED
  BY <1>1, <1>2, PTL DEF Spec
-----------------------------------------------------------------------------

\* Loading a later value of an index keeps it between the old value and the current one.
LEMMA LoadStep ==
    ASSUME NEW a \in Indices, NEW c \in Indices, NEW b \in Loadable(a, c)
    PROVE  b \in Indices /\ Ahead(a, b) + Ahead(b, c) = Ahead(a, c)
  BY RingAssumption DEF Loadable, Ahead, Indices, Size

\* The ring invariant holds initially and every step of either side keeps it.
LEMMA RingInvInductive ==
    /\ Init => RingInv
    /\ TypeOK /\ RingInv /\ [Next]_vars => RingInv'
<1>1. ASSUME Init PROVE RingInv
  <2>1. Ahead(0, 0) = 0 /\ 0 \in Indices
    BY RingAssumption DEF Ahead, Indices
  <2> QED
    BY <1>1, <2>1 DEF Init, RingInv, IndexOrder, ProducerKnows, ConsumerKnows, Fifo
<1>2. ASSUME TypeOK, RingInv, [Next]_vars PROVE RingInv'
  <2> DEFINE Held == Ahead(readIndex, writeIndex)
  <2>0. /\ readIndex \in Indices /\ writeIndex \in Indices
        /\ readSeen \in Indices /\ writeSeen \in Indices
        /\ buffer \in [Indices -> Nat]
        /\ accepted \in Seq(Nat) /\ popped \in Seq(Nat)
        /\ event \in Nat /\ queued \in Nat /\ Capacity \in Nat
    BY <1>2, RingAssumption DEF TypeOK
  <2>i. IndexOrder /\ ProducerKnows /\ ConsumerKnows /\ Fifo
    BY <1>2 DEF RingInv
  <2>o. /\ Ahead(readSeen, readIndex) + Held = Ahead(readSeen, writeIndex)
        /\ Ahead(readIndex, writeSeen) + Ahead(writeSeen, writeIndex) = Held
    BY <2>i DEF IndexOrder
  <2>h. Held \in 0 .. Capacity
    BY <2>0, IncrementStep
  <2> HIDE DEF Held
  \* Between the two index loads and stores neither index reaches the other.
  <2>w. ppc \in {"write", "store"} => Held < Capacity
    <3> SUFFICES ASSUME ppc \in {"write", "store"} PROVE Held < Capacity
      OBVIOUS
    <3>1. Ahead(readSeen, increment(writeIndex)) = Ahead(readSeen, writeIndex) + 1
      BY <2>0, <2>i, IncrementStep DEF ProducerKnows
    <3>2. /\ Ahead(readSeen, increment(writeIndex)) \in 0 .. Capacity
          /\ Ahead(readSeen, writeIndex) \in 0 .. Capacity
          /\ Ahead(readSeen, readIndex) \in 0 .. Capacity
      BY <2>0, IncrementStep
    <3> QED
      BY <2>0, <2>h, <2>i, <3>1, <3>2 DEF IndexOrder, Held
  <2>r. cpc \in {"read", "store"} => Held > 0
    BY <2>0, <2>h, <2>i, IncrementStep DEF ConsumerKnows, IndexOrder, Held
  <2>1. CASE /\ UNCHANGED <<buffer, readIndex, writeIndex, readSeen, writeSeen, consumer,
                            accepted, popped>>
             /\ ppc' \notin {"write", "store"}
    BY <2>1, <2>i DEF RingInv, IndexOrder, ProducerKnows, ConsumerKnows, Fifo, Ahead, Slot,
                      increment, consumer
  <2>2. CASE /\ UNCHANGED <<buffer, readIndex, writeIndex, readSeen, writeSeen, producer,
                            accepted, popped>>
             /\ cpc' \notin {"read", "store"}
    BY <2>2, <2>i DEF RingInv, IndexOrder, ProducerKnows, ConsumerKnows, Fifo, Ahead, Slot,
                      increment, producer
  <2>3. CASE PushCheck
    <3>1. PICK seen \in Loadable(readSeen, readIndex) :
             /\ readSeen' = seen
             /\ IF Capacity = 0 \/ increment(writeIndex) = seen
                   THEN ppc' = "drop" /\ owed' = Counters
                   ELSE ppc' = "write" /\ owed' = {}
      BY <2>3 DEF PushCheck
    <3>2. UNCHANGED <<buffer, readIndex, writeIndex, writeSeen, queued, cpc, event, accepted, popped>>
      BY <2>3 DEF PushCheck, consumer, history
    <3>3. seen \in Indices /\ Ahead(readSeen, seen) + Ahead(seen, readIndex) = Ahead(readSeen, readIndex)
      BY <2>0, LoadStep
    <3>4. Ahead(seen, readIndex) + Ahead(readIndex, writeIndex) = Ahead(seen, writeIndex)
      BY <2>0, <2>i, <3>3, RingAssumption DEF IndexOrder, Ahead, Indices, Size
    <3>5. IndexOrder'
      BY <2>i, <3>1, <3>2, <3>4 DEF IndexOrder, Ahead
    <3>6. ProducerKnows' BY <3>1, <3>2 DEF ProducerKnows, increment
    <3>7. ConsumerKnows' BY <2>i, <3>2 DEF ConsumerKnows
    <3>8. Fifo' BY <2>i, <3>2 DEF Fifo, Ahead, Slot
    <3> QED BY <3>5, <3>6, <3>7, <3>8 DEF RingInv
  <2>4. CASE PushWrite
    <3>1. /\ UNCHANGED <<readIndex, writeIndex, readSeen, writeSeen, queued, cpc, event, accepted, popped>>
          /\ buffer' = [buffer EXCEPT ![writeIndex] = queued]
          /\ ppc = "write" /\ ppc' = "store"
      BY <2>4 DEF PushWrite, consumer, history
    <3>2. IndexOrder' BY <2>i, <3>1 DEF IndexOrder, Ahead
    <3>3. ProducerKnows' BY <2>0, <2>i, <3>1 DEF ProducerKnows, increment
    <3>4. cpc = "store" => readIndex # writeIndex
      BY <2>0, <2>r, IncrementStep DEF Held
    <3>5. ConsumerKnows' BY <2>0, <2>i, <3>1, <3>4 DEF ConsumerKnows
    <3>6. \A n \in 0 .. Held - 1 : Slot(readIndex, n) \in Indices /\ Slot(readIndex, n) # writeIndex
      BY <2>0, <2>h, SlotStep DEF Held
    <3>7. \A n \in 0 .. Held - 1 : buffer'[Slot(readIndex, n)] = buffer[Slot(readIndex, n)]
      BY <2>0, <3>1, <3>6
    <3>8. Fifo'
      BY <2>i, <3>1, <3>7 DEF Fifo, Ahead, Slot, Held
    <3> QED BY <3>2, <3>3, <3>5, <3>8 DEF RingInv
  <2>5. CASE PushStore
    <3>1. /\ UNCHANGED <<buffer, readIndex, readSeen, writeSeen, queued, cpc, event, popped>>
          /\ writeIndex' = increment(writeIndex)
          /\ accepted' = Append(accepted, queued)
          /\ ppc = "store" /\ ppc' = "idle"
      BY <2>5 DEF PushStore, consumer
    <3>2. /\ Ahead(readSeen, increment(writeIndex)) = Ahead(readSeen, writeIndex) + 1
          /\ increment(writeIndex) \in Indices
      BY <2>0, <2>i, <3>1, IncrementStep DEF ProducerKnows
    <3>3. Ahead(readIndex, increment(writeIndex)) = Held + 1
      BY <2>0, <2>w, <3>1, IncrementStep DEF Held
    <3>4. Ahead(writeSeen, increment(writeIndex)) = Ahead(writeSeen, writeIndex) + 1
      <4>1. /\ Ahead(writeSeen, writeIndex) \in 0 .. Capacity
            /\ Ahead(readIndex, writeSeen) \in 0 .. Capacity
            /\ increment(writeIndex) = writeSeen => Ahead(writeSeen, writeIndex) = Capacity
            /\ increment(writeIndex) # writeSeen =>
                  Ahead(writeSeen, increment(writeIndex)) = Ahead(writeSeen, writeIndex) + 1
        BY <2>0, IncrementStep
      <4>2. Ahead(writeSeen, writeIndex) <= Held
        BY <2>h, <2>i, <4>1 DEF IndexOrder, Held
      <4> QED BY <2>0, <2>h, <2>w, <3>1, <4>1, <4>2
    <3>5. IndexOrder'
      <4>1. /\ Ahead(readSeen', readIndex') = Ahead(readSeen, readIndex)
            /\ Ahead(readIndex', writeIndex') = Held + 1
            /\ Ahead(readSeen', writeIndex') = Ahead(readSeen, writeIndex) + 1
            /\ Ahead(readIndex', writeSeen') = Ahead(readIndex, writeSeen)
            /\ Ahead(writeSeen', writeIndex') = Ahead(writeSeen, writeIndex) + 1
        BY <3>1, <3>2, <3>3, <3>4
      <4>2. /\ Ahead(readSeen, readIndex) \in 0 .. Capacity
            /\ Ahead(readSeen, writeIndex) \in 0 .. Capacity
            /\ Ahead(readIndex, writeSeen) \in 0 .. Capacity
            /\ Ahead(writeSeen, writeIndex) \in 0 .. Capacity
        BY <2>0, IncrementStep
      <4>3. /\ Ahead(readSeen', readIndex') + Ahead(readIndex', writeIndex') = Ahead(readSeen', writeIndex')
            /\ Ahead(readIndex', writeSeen') + Ahead(writeSeen', writeIndex') = Ahead(readIndex', writeIndex')
        BY <2>h, <2>o, <4>1, <4>2
      <4> QED BY <4>3 DEF IndexOrder, Ahead
    <3>6. ProducerKnows' BY <3>1 DEF ProducerKnows
    <3>7. ConsumerKnows' BY <2>i, <3>1 DEF ConsumerKnows
    <3>8. Fifo'
      <4>1. Ahead(readIndex', writeIndex') = Held + 1 BY <3>1, <3>3
      <4>2. /\ Len(accepted) = Len(popped) + Held
            /\ \A i \in 1 .. Len(popped) : popped[i] = accepted[i]
            /\ \A n \in 0 .. Held - 1 : buffer[Slot(readIndex, n)] = accepted[Len(popped) + n + 1]
        BY <2>i DEF Fifo, Held
      <4>3. buffer[Slot(readIndex, Held)] = queued
        BY <2>0, <2>i, <3>1, SlotOfAhead DEF ProducerKnows, Held
      <4>4. /\ Len(accepted') = Len(accepted) + 1
            /\ \A i \in 1 .. Len(accepted) : accepted'[i] = accepted[i]
            /\ accepted'[Len(accepted) + 1] = queued
            /\ Len(popped) \in Nat /\ Len(accepted) \in Nat
        BY <2>0, <3>1
      <4>5. Len(accepted') = Len(popped') + Ahead(readIndex', writeIndex')
        BY <2>h, <3>1, <4>1, <4>2, <4>4
      <4>6. \A i \in 1 .. Len(popped') : popped'[i] = accepted'[i]
        BY <2>h, <3>1, <4>2, <4>4
      <4>7. \A n \in 0 .. Held : buffer[Slot(readIndex, n)] = accepted'[Len(popped) + n + 1]
        <5> SUFFICES ASSUME NEW n \in 0 .. Held
                     PROVE  buffer[Slot(readIndex, n)] = accepted'[Len(popped) + n + 1]
          OBVIOUS
        <5>1. CASE n = Held
          BY <2>h, <4>2, <4>3, <4>4, <5>1
        <5>2. CASE n # Held
          <6>1. n \in 0 .. Held - 1 /\ Len(popped) + n + 1 \in 1 .. Len(accepted)
            BY <2>h, <4>2, <4>4, <5>2
          <6> QED BY <4>2, <4>4, <6>1
        <5> QED BY <5>1, <5>2
      <4>8. \A n \in 0 .. Ahead(readIndex', writeIndex') - 1 :
               buffer'[Slot(readIndex', n)] = accepted'[Len(popped') + n + 1]
        <5>1. Ahead(readIndex', writeIndex') - 1 = Held BY <2>h, <4>1
        <5> QED BY <3>1, <4>7, <5>1
      <4> QED
        BY <4>5, <4>6, <4>8 DEF Fifo, Slot, Ahead
    <3> QED BY <3>5, <3>6, <3>7, <3>8 DEF RingInv
  <2>6. CASE PopCheck
    <3>1. PICK seen \in Loadable(writeSeen, writeIndex) :
             writeSeen' = seen /\ cpc' = IF readIndex = seen THEN "idle" ELSE "read"
      BY <2>6 DEF PopCheck
    <3>2. UNCHANGED <<buffer, readIndex, writeIndex, readSeen, queued, ppc, event, accepted, popped>>
      BY <2>6 DEF PopCheck, producer, history
    <3>3. seen \in Indices /\ Ahead(writeSeen, seen) + Ahead(seen, writeIndex) = Ahead(writeSeen, writeIndex)
      BY <2>0, LoadStep
    <3>4. Ahead(readIndex, seen) + Ahead(seen, writeIndex) = Ahead(readIndex, writeIndex)
      BY <2>0, <2>i, <3>3, RingAssumption DEF IndexOrder, Ahead, Indices, Size
    <3>5. IndexOrder'
      BY <2>i, <3>1, <3>2, <3>4 DEF IndexOrder, Ahead
    <3>6. ProducerKnows' BY <2>i, <3>2 DEF ProducerKnows, increment
    <3>7. ConsumerKnows' BY <3>1, <3>2 DEF ConsumerKnows
    <3>8. Fifo' BY <2>i, <3>2 DEF Fifo, Ahead, Slot
    <3> QED BY <3>5, <3>6, <3>7, <3>8 DEF RingInv
  <2>7. CASE PopRead
    <3>1. /\ UNCHANGED <<buffer, readIndex, writeIndex, readSeen, writeSeen, queued, ppc, accepted, popped>>
          /\ event' = buffer[readIndex]
          /\ cpc = "read" /\ cpc' = "store"
      BY <2>7 DEF PopRead, producer, history
    <3> QED
      BY <2>i, <3>1 DEF RingInv, IndexOrder, ProducerKnows, ConsumerKnows, Fifo, Ahead, Slot, increment
  <2>8. CASE PopStore
    <3>1. /\ UNCHANGED <<buffer, writeIndex, readSeen, writeSeen, queued, ppc, event, accepted>>
          /\ readIndex' = increment(readIndex)
          /\ popped' = Append(popped, event)
          /\ cpc = "store" /\ cpc' = "idle"
      BY <2>8 DEF PopStore, producer
    <3>2. Ahead(increment(readIndex), writeIndex) = Held - 1
      BY <2>0, <2>h, <2>r, <3>1, IncrementStep DEF Held
    <3>3. Ahead(increment(readIndex), writeSeen) = Ahead(readIndex, writeSeen) - 1
      BY <2>0, <2>i, <3>1, IncrementStep DEF ConsumerKnows
    <3>4. Ahead(readSeen, increment(readIndex)) = Ahead(readSeen, readIndex) + 1
      <4>1. /\ Ahead(readSeen, readIndex) \in 0 .. Capacity
            /\ Ahead(readSeen, writeIndex) \in 0 .. Capacity
            /\ increment(readIndex) = readSeen => Ahead(readSeen, readIndex) = Capacity
            /\ increment(readIndex) # readSeen =>
                  Ahead(readSeen, increment(readIndex)) = Ahead(readSeen, readIndex) + 1
        BY <2>0, IncrementStep
      <4> QED BY <2>0, <2>h, <2>i, <2>r, <3>1, <4>1 DEF IndexOrder, Held
    <3>5. IndexOrder'
      <4>1. /\ Ahead(readSeen', readIndex') = Ahead(readSeen, readIndex) + 1
            /\ Ahead(readIndex', writeIndex') = Held - 1
            /\ Ahead(readSeen', writeIndex') = Ahead(readSeen, writeIndex)
            /\ Ahead(readIndex', writeSeen') = Ahead(readIndex, writeSeen) - 1
            /\ Ahead(writeSeen', writeIndex') = Ahead(writeSeen, writeIndex)
        BY <3>1, <3>2, <3>3, <3>4
      <4>2. /\ Ahead(readSeen, readIndex) \in 0 .. Capacity
            /\ Ahead(readSeen, writeIndex) \in 0 .. Capacity
            /\ Ahead(readIndex, writeSeen) \in 0 .. Capacity
            /\ Ahead(writeSeen, writeIndex) \in 0 .. Capacity
        BY <2>0, IncrementStep
      <4>3. /\ Ahead(readSeen', readIndex') + Ahead(readIndex', writeIndex') = Ahead(readSeen', writeIndex')
            /\ Ahead(readIndex', writeSeen') + Ahead(writeSeen', writeIndex') = Ahead(readIndex', writeIndex')
        BY <2>h, <2>o, <4>1, <4>2
      <4> QED BY <4>3 DEF IndexOrder, Ahead
    <3>6. ProducerKnows' BY <2>i, <3>1 DEF ProducerKnows, increment
    <3>7. ConsumerKnows' BY <3>1 DEF ConsumerKnows
    <3>8. Fifo'
      <4>1. Ahead(readIndex', writeIndex') = Held - 1 BY <3>1, <3>2
      <4>2. /\ Len(accepted) = Len(popped) + Held
            /\ \A i \in 1 .. Len(popped) : popped[i] = accepted[i]
            /\ \A n \in 0 .. Held - 1 : buffer[Slot(readIndex, n)] = accepted[Len(popped) + n + 1]
        BY <2>i DEF Fifo, Held
      <4>3. event = accepted[Len(popped) + 1]
        BY <2>0, <2>h, <2>i, <2>r, <3>1, <4>2, SlotStep DEF ConsumerKnows
      <4>4. /\ Len(popped') = Len(popped) + 1
            /\ \A i \in 1 .. Len(popped) : popped'[i] = popped[i]
            /\ popped'[Len(popped) + 1] = event
            /\ Len(popped) \in Nat /\ Len(accepted) \in Nat
        BY <2>0, <3>1
      <4>5. Len(accepted') = Len(popped') + Ahead(readIndex', writeIndex')
        BY <2>h, <3>1, <4>1, <4>2, <4>4
      <4>6. \A i \in 1 .. Len(popped') : popped'[i] = accepted'[i]
        BY <2>h, <3>1, <4>2, <4>3, <4>4
      <4>7. \A n \in 0 .. Held - 2 :
               /\ Slot(increment(readIndex), n) = Slot(readIndex, n + 1)
               /\ n + 1 \in 0 .. Held - 1
        <5> SUFFICES ASSUME NEW n \in 0 .. Held - 2
                     PROVE  /\ Slot(increment(readIndex), n) = Slot(readIndex, n + 1)
                            /\ n + 1 \in 0 .. Held - 1
          OBVIOUS
        <5>1. n + 1 \in 0 .. Capacity /\ n + 1 > 0 /\ (n + 1) - 1 = n
          BY <2>h, <2>0
        <5> QED BY <2>0, <2>h, <5>1, SlotStep
      <4>8. \A n \in 0 .. Held - 2 : buffer'[Slot(readIndex', n)] = accepted'[Len(popped') + n + 1]
        <5> SUFFICES ASSUME NEW n \in 0 .. Held - 2
                     PROVE  buffer'[Slot(readIndex', n)] = accepted'[Len(popped') + n + 1]
          OBVIOUS
        <5>1. buffer'[Slot(readIndex', n)] = buffer[Slot(readIndex, n + 1)]
          BY <3>1, <4>7
        <5>2. Len(popped') + n + 1 = Len(popped) + (n + 1) + 1
          BY <2>h, <4>4
        <5> QED BY <3>1, <4>2, <4>7, <5>1, <5>2
      <4>9. \A n \in 0 .. Ahead(readIndex', writeIndex') - 1 :
               buffer'[Slot(readIndex', n)] = accepted'[Len(popped') + n + 1]
        BY <2>h, <4>1, <4>8
      <4> QED
        BY <4>5, <4>6, <4>9 DEF Fifo, Slot, Ahead
    <3> QED BY <3>5, <3>6, <3>7, <3>8 DEF RingInv
  <2>9. CASE TryPublish BY <2>1, <2>9 DEF TryPublish, history
  <2>10. ASSUME NEW counter \in Counters, CountDrop(counter) PROVE RingInv'
    BY <2>1, <2>10 DEF CountDrop, history
  <2>11. CASE TakeDropSummary \/ NumberSummary
    BY <2>2, <2>11 DEF TakeDropSummary, NumberSummary
  <2>12. CASE UNCHANGED vars
    BY <2>12, <2>i DEF vars, producer, consumer, history, RingInv, IndexOrder, ProducerKnows,
                       ConsumerKnows, Fifo, Ahead, Slot, increment
  <2> QED
    BY <1>2, <2>3, <2>4, <2>5, <2>6, <2>7, <2>8, <2>9, <2>10, <2>11, <2>12 DEF Next
<1> QED
  BY <1>1, <1>2

\* try_pop returns what try_push accepted, in order, for every capacity and every
\* interleaving of the two sides' loads, slot accesses and stores.
THEOREM RingIsFifo == Spec => []Fifo
<1>1. RingInv => Fifo
  BY DEF RingInv
<1> QED
  BY <1>1, RingTypeCorrect, RingInvInductive, PTL DEF Spec

\* try_push and try_pop never access one slot of buffer_ at once: the ring has no data
\* race although only its indices are atomic.
THEOREM SlotsExclusive == Spec => []SlotExclusive
<1>1. TypeOK /\ RingInv => SlotExclusive
  <2> SUFFICES ASSUME TypeOK, RingInv, ppc = "write", cpc = "read" PROVE writeIndex # readIndex
    BY DEF SlotExclusive
  <2>1. /\ readIndex \in Indices /\ writeIndex \in Indices /\ writeSeen \in Indices
        /\ readIndex # writeSeen
        /\ Ahead(readIndex, writeSeen) + Ahead(writeSeen, writeIndex) = Ahead(readIndex, writeIndex)
    BY DEF TypeOK, RingInv, ConsumerKnows, IndexOrder
  <2> QED
    BY <2>1, RingAssumption DEF Ahead, Indices, Size
<1> QED
  BY <1>1, RingTypeCorrect, RingInvInductive, PTL DEF Spec

-----------------------------------------------------------------------------

(* The number in the producer's hands is the newest it drew: it is larger  *)
(* than every accepted one and no summary has it.                          *)
SequenceInv ==
    /\ SequencesUnique
    /\ summarySeqs \subseteq 1 .. localSeq
    /\ \A i \in 1 .. Len(accepted) : accepted[i] <= localSeq
    /\ ppc \in {"check", "write", "store"} =>
          /\ queued <= localSeq
          /\ queued \notin summarySeqs
          /\ \A i \in 1 .. Len(accepted) : accepted[i] < queued

(* A drop is being counted exactly while an increment is owed.             *)
DropInv ==
    /\ DropsAccounted
    /\ IsFiniteSet(summarySeqs)
    /\ ppc = "drop" <=> owed # {}

\* Both invariants hold initially and are kept by every step.
LEMMA SequenceInvInductive ==
    /\ Init => SequenceInv
    /\ TypeOK /\ SequenceInv /\ [Next]_vars => SequenceInv'
<1>1. ASSUME Init PROVE SequenceInv
  BY <1>1 DEF Init, SequenceInv, SequencesUnique
<1>2. ASSUME TypeOK, SequenceInv, [Next]_vars PROVE SequenceInv'
  <2>0. localSeq \in Nat /\ queued \in Nat /\ accepted \in Seq(Nat) /\ summarySeqs \subseteq Nat
    BY <1>2 DEF TypeOK
  <2>1. CASE /\ UNCHANGED <<localSeq, queued, accepted, summarySeqs>>
             /\ ppc' \in {"check", "write", "store"} => ppc \in {"check", "write", "store"}
    BY <1>2, <2>1 DEF SequenceInv, SequencesUnique
  <2>2. CASE TryPublish
    <3>1. /\ UNCHANGED <<accepted, summarySeqs>>
          /\ localSeq' = localSeq + 1 /\ queued' = localSeq + 1
      BY <2>2 DEF TryPublish, history
    <3>2. \A i \in 1 .. Len(accepted) : accepted[i] \in Nat
      BY <2>0
    <3> QED BY <1>2, <2>0, <3>1, <3>2 DEF SequenceInv, SequencesUnique
  <2>3. CASE PushStore
    <3>1. /\ UNCHANGED <<localSeq, queued, summarySeqs>>
          /\ accepted' = Append(accepted, queued)
          /\ ppc = "store" /\ ppc' = "idle"
      BY <2>3 DEF PushStore
    <3>2. /\ Len(accepted') = Len(accepted) + 1 /\ Len(accepted) \in Nat
          /\ \A i \in 1 .. Len(accepted) : accepted'[i] = accepted[i]
          /\ accepted'[Len(accepted) + 1] = queued
      BY <2>0, <3>1
    <3>3. /\ queued <= localSeq /\ queued \notin summarySeqs
          /\ \A i \in 1 .. Len(accepted) : accepted[i] < queued
      BY <1>2, <3>1 DEF SequenceInv
    <3>4. SequencesUnique'
      BY <1>2, <3>1, <3>2, <3>3 DEF SequenceInv, SequencesUnique
    <3>5. \A i \in 1 .. Len(accepted') : accepted'[i] <= localSeq'
      BY <1>2, <3>1, <3>2, <3>3 DEF SequenceInv
    <3> QED BY <1>2, <3>1, <3>4, <3>5 DEF SequenceInv
  <2>4. CASE NumberSummary
    <3>1. /\ UNCHANGED <<accepted, ppc, queued>>
          /\ localSeq' = localSeq + 1
          /\ summarySeqs' = summarySeqs \cup {localSeq + 1}
      BY <2>4 DEF NumberSummary, producer
    <3>2. \A i \in 1 .. Len(accepted) : accepted[i] \in Nat
      BY <2>0
    <3> QED BY <1>2, <2>0, <3>1, <3>2 DEF SequenceInv, SequencesUnique
  <2>5. ASSUME NEW counter \in Counters, CountDrop(counter) PROVE SequenceInv'
    BY <2>1, <2>5 DEF CountDrop, history
  <2>6. CASE PushCheck BY <2>1, <2>6 DEF PushCheck, history
  <2>7. CASE PushWrite BY <2>1, <2>7 DEF PushWrite, history
  <2>8. CASE PopCheck \/ PopRead \/ PopStore \/ TakeDropSummary
    BY <2>1, <2>8 DEF PopCheck, PopRead, PopStore, TakeDropSummary, producer, history
  <2>9. CASE UNCHANGED vars BY <2>1, <2>9 DEF vars, producer, history
  <2> QED BY <1>2, <2>2, <2>3, <2>4, <2>5, <2>6, <2>7, <2>8, <2>9 DEF Next
<1> QED BY <1>1, <1>2

\* Producer and consumer draw from one counter (next_local_seq), and no number is ever
\* given out twice, whatever the capacity and the interleaving.
THEOREM SequenceNumbersUnique == Spec => []SequencesUnique
<1>1. SequenceInv => SequencesUnique
  BY DEF SequenceInv
<1> QED
  BY <1>1, RingTypeCorrect, SequenceInvInductive, PTL DEF Spec

\* The drop accounts hold initially and are kept by every step.
LEMMA DropInvInductive ==
    /\ Init => DropInv
    /\ TypeOK /\ SequenceInv /\ DropInv /\ [Next]_vars => DropInv'
<1>1. ASSUME Init PROVE DropInv
  <2>1. Cardinality({}) = 0 /\ IsFiniteSet({})
    BY FS_EmptySet
  <2> QED BY <1>1, <2>1 DEF Init, DropInv, DropsAccounted, InProgress, AsNat
<1>2. ASSUME TypeOK, SequenceInv, DropInv, [Next]_vars PROVE DropInv'
  <2>0. /\ localSeq \in Nat /\ accepted \in Seq(Nat) /\ owed \in SUBSET Counters
        /\ dropped \in Nat /\ pendingDrops \in Nat /\ reported \in Nat /\ queued \in Nat
        /\ Len(accepted) \in Nat
    BY <1>2 DEF TypeOK
  <2>f. IsFiniteSet(summarySeqs) /\ Cardinality(summarySeqs) \in Nat
    BY <1>2, FS_CardinalityType DEF DropInv
  <2>i. /\ localSeq = Len(accepted) + dropped + Cardinality(summarySeqs) + AsNat(InProgress)
        /\ dropped + AsNat("dropped" \in owed) = reported + pendingDrops + AsNat("pending" \in owed)
        /\ ppc = "drop" <=> owed # {}
    BY <1>2 DEF DropInv, DropsAccounted
  <2>1. CASE /\ UNCHANGED <<localSeq, accepted, dropped, summarySeqs, reported, pendingDrops, owed>>
             /\ ppc' \in {"check", "write", "store"} <=> ppc \in {"check", "write", "store"}
             /\ ppc' = "drop" <=> ppc = "drop"
    BY <1>2, <2>1 DEF DropInv, DropsAccounted, InProgress
  <2>2. CASE TryPublish
    <3>1. /\ UNCHANGED <<accepted, dropped, summarySeqs, reported, pendingDrops, owed>>
          /\ localSeq' = localSeq + 1 /\ ppc = "idle" /\ ppc' = "check"
      BY <2>2 DEF TryPublish, counters, history
    <3>2. owed = {} BY <2>i, <3>1
    <3>3. AsNat(InProgress) = 0 /\ AsNat(InProgress)' = 1
      BY <3>1, <3>2 DEF AsNat, InProgress
    <3> QED BY <2>0, <2>f, <2>i, <3>1, <3>2, <3>3 DEF DropInv, DropsAccounted
  <2>3. CASE PushCheck
    <3>1. /\ UNCHANGED <<localSeq, accepted, dropped, summarySeqs, reported, pendingDrops>>
          /\ ppc = "check"
          /\ \/ ppc' = "drop" /\ owed' = Counters
             \/ ppc' = "write" /\ owed' = {}
      BY <2>3 DEF PushCheck, counters, history
    <3>2. owed = {} BY <2>i, <3>1
    <3>3. AsNat(InProgress) = 1 /\ AsNat(InProgress)' = 1
      BY <3>1 DEF AsNat, InProgress, Counters
    <3>4. AsNat("dropped" \in owed) = AsNat("pending" \in owed)
      BY <3>2
    <3>5. AsNat("dropped" \in owed') = AsNat("pending" \in owed')
      BY <3>1 DEF Counters
    <3>6. /\ AsNat("dropped" \in owed) \in 0 .. 1 /\ AsNat("dropped" \in owed') \in 0 .. 1
      BY DEF AsNat
    <3>7. dropped = reported + pendingDrops
      BY <2>0, <2>i, <3>4, <3>6
    <3>8. ppc' = "drop" <=> owed' # {}
      BY <3>1 DEF Counters
    <3>9. dropped' + AsNat("dropped" \in owed') = reported' + pendingDrops' + AsNat("pending" \in owed')
      BY <2>0, <3>1, <3>5, <3>6, <3>7
    <3> QED BY <2>0, <2>f, <2>i, <3>1, <3>3, <3>8, <3>9 DEF DropInv, DropsAccounted
  <2>4. CASE PushStore
    <3>1. /\ UNCHANGED <<localSeq, dropped, summarySeqs, reported, pendingDrops, owed>>
          /\ accepted' = Append(accepted, queued) /\ ppc = "store" /\ ppc' = "idle"
      BY <2>4 DEF PushStore, counters
    <3>2. owed = {} /\ Len(accepted') = Len(accepted) + 1 BY <2>0, <2>i, <3>1
    <3>3. AsNat(InProgress) = 1 /\ AsNat(InProgress)' = 0
      BY <3>1, <3>2 DEF AsNat, InProgress
    <3> QED BY <2>0, <2>f, <2>i, <3>1, <3>2, <3>3 DEF DropInv, DropsAccounted
  <2>5. ASSUME NEW counter \in Counters, CountDrop(counter) PROVE DropInv'
    <3>1. /\ UNCHANGED <<localSeq, accepted, summarySeqs, reported>>
          /\ ppc = "drop" /\ counter \in owed /\ owed' = owed \ {counter}
          /\ ppc' = IF owed = {counter} THEN "idle" ELSE "drop"
          /\ dropped' = IF counter = "dropped" THEN dropped + 1 ELSE dropped
          /\ pendingDrops' = IF counter = "pending" THEN pendingDrops + 1 ELSE pendingDrops
      BY <2>5 DEF CountDrop, history
    <3>2. ppc' = "drop" <=> owed' # {}
      BY <3>1
    <3>3. ppc \notin {"check", "write", "store"} /\ ppc' \notin {"check", "write", "store"}
      BY <3>1
    <3>4. CASE counter = "dropped"
      <4>1. /\ AsNat(InProgress) = 1 /\ AsNat(InProgress)' = 0
            /\ AsNat("dropped" \in owed) = 1 /\ AsNat("dropped" \in owed') = 0
            /\ AsNat("pending" \in owed') = AsNat("pending" \in owed)
            /\ AsNat("pending" \in owed) \in 0 .. 1
        BY <3>1, <3>3, <3>4 DEF AsNat, InProgress
      <4> QED BY <2>0, <2>f, <2>i, <3>1, <3>2, <3>4, <4>1 DEF DropInv, DropsAccounted
    <3>5. CASE counter = "pending"
      <4>1. /\ AsNat(InProgress)' = AsNat(InProgress)
            /\ AsNat("pending" \in owed) = 1 /\ AsNat("pending" \in owed') = 0
            /\ AsNat("dropped" \in owed') = AsNat("dropped" \in owed)
            /\ AsNat("dropped" \in owed) \in 0 .. 1
        BY <3>1, <3>3, <3>5 DEF AsNat, InProgress
      <4> QED BY <2>0, <2>f, <2>i, <3>1, <3>2, <3>5, <4>1 DEF DropInv, DropsAccounted
    <3> QED BY <2>5, <3>4, <3>5 DEF Counters
  <2>6. CASE TakeDropSummary
    <3>1. /\ UNCHANGED <<localSeq, accepted, dropped, summarySeqs, ppc, owed>>
          /\ reported' = reported + pendingDrops /\ pendingDrops' = 0
      BY <2>6 DEF TakeDropSummary, producer
    <3>2. AsNat(InProgress)' = AsNat(InProgress) /\ AsNat("pending" \in owed) \in 0 .. 1
      BY <3>1 DEF AsNat, InProgress
    <3> QED BY <2>0, <2>f, <2>i, <3>1, <3>2 DEF DropInv, DropsAccounted
  <2>7. CASE NumberSummary
    <3>1. /\ UNCHANGED <<accepted, dropped, reported, pendingDrops, ppc, owed>>
          /\ localSeq' = localSeq + 1
          /\ summarySeqs' = summarySeqs \cup {localSeq + 1}
      BY <2>7 DEF NumberSummary, producer, counters
    <3>2. localSeq + 1 \notin summarySeqs
      BY <1>2, <2>0 DEF SequenceInv
    <3>3. IsFiniteSet(summarySeqs') /\ Cardinality(summarySeqs') = Cardinality(summarySeqs) + 1
      BY <2>f, <3>1, <3>2, FS_AddElement
    <3>4. AsNat(InProgress)' = AsNat(InProgress) /\ AsNat(InProgress) \in 0 .. 1
      BY <3>1 DEF AsNat, InProgress
    <3> QED BY <2>0, <2>f, <2>i, <3>1, <3>3, <3>4 DEF DropInv, DropsAccounted
  <2>8. CASE PushWrite BY <2>1, <2>8 DEF PushWrite, counters, history
  <2>9. CASE PopCheck \/ PopRead \/ PopStore
    BY <2>1, <2>9 DEF PopCheck, PopRead, PopStore, producer, counters, history
  <2>10. CASE UNCHANGED vars BY <2>1, <2>10 DEF vars, producer, counters, history
  <2> QED BY <1>2, <2>2, <2>3, <2>4, <2>5, <2>6, <2>7, <2>8, <2>9, <2>10 DEF Next
<1> QED BY <1>1, <1>2

\* For every capacity, zero included, each sequence number is an accepted event, a drop
\* or a summary, and each drop is reported once or still pending (take_drop_summary).
THEOREM DropsAreAccounted == Spec => []DropsAccounted
<1>1. DropInv => DropsAccounted
  BY DEF DropInv
<1> QED
  BY <1>1, RingTypeCorrect, SequenceInvInductive, DropInvInductive, PTL DEF Spec

\* Numbers are unique and every one of them is accounted for, for every capacity.
THEOREM EventsAreAccounted == Spec => []EventsAccounted
<1>1. TypeOK /\ DropsAccounted /\ SequencesUnique => EventsAccounted
  BY DEF EventsAccounted
<1> QED
  BY <1>1, RingTypeCorrect, DropsAreAccounted, SequenceNumbersUnique, PTL
=============================================================================
