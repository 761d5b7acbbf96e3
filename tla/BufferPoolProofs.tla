-------------------------- MODULE BufferPoolProofs --------------------------
(***************************************************************************)
(* Proofs about BufferPool, for every width of size_t, every pool          *)
(* configuration, every set of frames and any number of loans.             *)
(***************************************************************************)
EXTENDS BufferPool, CollectionLemmas, TLAPS

(* Sums of sizes.                                                          *)

BytesOf(w) == {byte \in (DOMAIN w) \X (1 .. SizeMax) : byte[2] <= w[byte[1]]}

\* The sizes of finitely many things add up to a natural.
LEMMA TotalType ==
    ASSUME NEW S, IsFiniteSet(S), NEW w \in [S -> 0 .. SizeMax]
    PROVE  IsFiniteSet(BytesOf(w)) /\ TotalSize(w) = Cardinality(BytesOf(w)) /\ TotalSize(w) \in Nat
<1>1. SizeMax \in Int /\ IsFiniteSet(1 .. SizeMax)
  BY BufferAssumption, FS_Interval
<1>2. IsFiniteSet(S \X (1 .. SizeMax))
  BY <1>1, FS_Product
<1>3. BytesOf(w) \in SUBSET (S \X (1 .. SizeMax))
  BY DEF BytesOf
<1>4. IsFiniteSet(BytesOf(w))
  BY <1>2, <1>3, FS_Subset
<1>5. Cardinality(BytesOf(w)) \in Nat
  BY <1>4, FS_CardinalityType
<1> QED
  BY <1>4, <1>5 DEF TotalSize, BytesOf

\* One more thing adds its size.
LEMMA TotalAdd ==
    ASSUME NEW S, IsFiniteSet(S), NEW x, x \notin S, NEW w \in [S \cup {x} -> 0 .. SizeMax]
    PROVE  TotalSize(w) = TotalSize([s \in S |-> w[s]]) + w[x]
<1> DEFINE v == [s \in S |-> w[s]]
           own == {x} \X (1 .. w[x])
<1>1. v \in [S -> 0 .. SizeMax] /\ w[x] \in 0 .. SizeMax /\ SizeMax \in Nat
  BY BufferAssumption
<1>2. IsFiniteSet(BytesOf(v)) /\ TotalSize(v) = Cardinality(BytesOf(v)) /\ TotalSize(v) \in Nat
  BY <1>1, TotalType
<1>3. IsFiniteSet(S \cup {x})
  BY FS_AddElement
<1>4. TotalSize(w) = Cardinality(BytesOf(w))
  BY <1>3, TotalType
<1>5. IsFiniteSet(own) /\ Cardinality(own) = w[x]
  <2>1. IsFiniteSet({x}) /\ Cardinality({x}) = 1
    BY FS_Singleton, Zenon
  <2>2. IsFiniteSet(1 .. w[x]) /\ Cardinality(1 .. w[x]) = w[x]
    BY <1>1, FS_Interval
  <2>3. IsFiniteSet(own) /\ Cardinality(own) = Cardinality({x}) * Cardinality(1 .. w[x])
    BY <2>1, <2>2, FS_Product, Zenon
  <2> QED
    BY <1>1, <2>1, <2>2, <2>3
<1>6. BytesOf(w) = BytesOf(v) \cup own
  BY <1>1 DEF BytesOf
<1>7. BytesOf(v) \cap own = {}
  BY DEF BytesOf
<1>8. Cardinality(BytesOf(v) \cap own) = 0
  BY <1>7, FS_EmptySet
<1>9. Cardinality(BytesOf(v) \cup own) =
        Cardinality(BytesOf(v)) + Cardinality(own) - Cardinality(BytesOf(v) \cap own)
  <2>1. IsFiniteSet(BytesOf(v)) /\ IsFiniteSet(own)
    BY <1>2, <1>5
  <2> HIDE DEF v, own
  <2> QED
    BY <2>1, FS_Union
<1> QED
  BY <1>1, <1>2, <1>4, <1>5, <1>6, <1>8, <1>9

\* h renames the things that v gives the sizes of.
Renames(h, S, T, v, w) ==
    /\ h \in [S -> T]
    /\ \A s, t \in S : h[s] = h[t] => s = t
    /\ \A t \in T : \E s \in S : h[s] = t
    /\ \A s \in S : v[s] = w[h[s]]

\* Renaming the things keeps the sum.
LEMMA TotalRenamed ==
    ASSUME NEW S, NEW T, IsFiniteSet(S), NEW v \in [S -> 0 .. SizeMax], NEW w \in [T -> 0 .. SizeMax],
           NEW h, Renames(h, S, T, v, w)
    PROVE  TotalSize(w) = TotalSize(v)
<1> USE DEF Renames
<1> DEFINE g == [byte \in BytesOf(v) |-> <<h[byte[1]], byte[2]>>]
<1>1. IsFiniteSet(BytesOf(v)) /\ TotalSize(v) = Cardinality(BytesOf(v))
  BY TotalType
<1>2. h \in Surjection(S, T)
  BY DEF Surjection
<1>3. IsFiniteSet(T)
  BY <1>2, FS_Surjection
<1>4. TotalSize(w) = Cardinality(BytesOf(w))
  BY <1>3, TotalType
<1>5. g \in [BytesOf(v) -> BytesOf(w)]
  BY DEF BytesOf
<1>6. ASSUME NEW a \in BytesOf(v), NEW b \in BytesOf(v), g[a] = g[b]
      PROVE  a = b
  <2>1. a[1] \in S /\ b[1] \in S /\ a = <<a[1], a[2]>> /\ b = <<b[1], b[2]>>
    BY DEF BytesOf
  <2>2. h[a[1]] = h[b[1]] /\ a[2] = b[2]
    BY <1>6
  <2> QED
    BY <2>1, <2>2
<1>7. ASSUME NEW c \in BytesOf(w)
      PROVE  \E a \in BytesOf(v) : g[a] = c
  <2>1. c[1] \in T /\ c[2] \in 1 .. SizeMax /\ c = <<c[1], c[2]>> /\ c[2] <= w[c[1]]
    BY DEF BytesOf
  <2>2. PICK s \in S : h[s] = c[1]
    BY <2>1
  <2>3. <<s, c[2]>> \in BytesOf(v)
    BY <2>1, <2>2 DEF BytesOf
  <2> QED
    BY <2>1, <2>2, <2>3
<1>8. g \in Bijection(BytesOf(v), BytesOf(w))
  <2> HIDE DEF g
  <2> QED
    BY <1>5, <1>6, <1>7 DEF Bijection, Injection, Surjection, IsInjective
<1>9. ExistsBijection(BytesOf(v), BytesOf(w))
  <2> HIDE DEF g
  <2> QED
    BY <1>8 DEF ExistsBijection
<1> QED
  BY <1>1, <1>4, <1>9, FS_Bijection

\* Taking a thing away takes its size away.
LEMMA TotalRemove ==
    ASSUME NEW S, IsFiniteSet(S), NEW x \in S, NEW w \in [S -> 0 .. SizeMax]
    PROVE  TotalSize(w) = TotalSize([s \in S \ {x} |-> w[s]]) + w[x]
<1>1. IsFiniteSet(S \ {x}) /\ x \notin S \ {x} /\ (S \ {x}) \cup {x} = S
  BY FS_RemoveElement
<1>2. w \in [(S \ {x}) \cup {x} -> 0 .. SizeMax]
  BY <1>1
<1> QED
  BY <1>1, <1>2, TotalAdd

\* What RemoveAt leaves: the places after the one removed move up by one.
LEMMA RemoveAtPlaces ==
    ASSUME NEW T, NEW s \in Seq(T), NEW at \in 1 .. Len(s)
    PROVE  /\ RemoveAt(s, at) \in Seq(T)
           /\ Len(RemoveAt(s, at)) = Len(s) - 1
           /\ \A i \in 1 .. Len(s) - 1 : RemoveAt(s, at)[i] = s[IF i < at THEN i ELSE i + 1]
<1> DEFINE front == SubSeq(s, 1, at - 1)
           rest == SubSeq(s, at + 1, Len(s))
<1>1. /\ front \in Seq(T) /\ Len(front) = at - 1
      /\ \A i \in 1 .. at - 1 : front[i] = s[i]
  OBVIOUS
<1>2. /\ rest \in Seq(T) /\ Len(rest) = Len(s) - at
      /\ \A i \in 1 .. Len(s) - at : rest[i] = s[at + i]
  OBVIOUS
<1>3. RemoveAt(s, at) = front \o rest
  BY DEF RemoveAt
<1>4. /\ front \o rest \in Seq(T)
      /\ Len(front \o rest) = Len(front) + Len(rest)
      /\ \A i \in 1 .. Len(front) + Len(rest) :
            (front \o rest)[i] = IF i <= Len(front) THEN front[i] ELSE rest[i - Len(front)]
  <2> HIDE DEF front, rest
  <2> QED
    BY <1>1, <1>2, ConcatProperties
<1>5. Len(s) \in Nat /\ at \in Nat
  OBVIOUS
<1> HIDE DEF front, rest
<1>6. ASSUME NEW i \in 1 .. Len(s) - 1
      PROVE  (front \o rest)[i] = s[IF i < at THEN i ELSE i + 1]
  <2>1. CASE i < at
    BY <1>1, <1>2, <1>4, <1>5, <2>1
  <2>2. CASE ~(i < at)
    <3>1. i - (at - 1) \in 1 .. Len(s) - at /\ at + (i - (at - 1)) = i + 1
      BY <1>5, <2>2
    <3>2. rest[i - (at - 1)] = s[i + 1]
      BY <1>2, <3>1
    <3> QED
      BY <1>1, <1>2, <1>4, <1>5, <2>2, <3>2
  <2> QED
    BY <2>1, <2>2
<1> QED
  BY <1>1, <1>2, <1>3, <1>4, <1>5, <1>6

-----------------------------------------------------------------------------
(* The operators of the pool.                                              *)

\* Rounding up and choosing a bucket never shrink a request nor leave size_t.
LEMMA AllocationFits ==
    ASSUME config \in Configs, NEW requested \in 0 .. SizeMax
    PROVE  AllocationSize(requested) \in requested .. SizeMax
<1>1. /\ config.alignment \in 1 .. SizeMax /\ config.buckets \in SUBSET (0 .. SizeMax)
      /\ config.fixed \in 0 .. SizeMax /\ SizeMax \in Nat
  BY BufferAssumption
<1>2. ASSUME NEW value \in requested .. SizeMax
      PROVE  AlignUp(value) \in requested .. SizeMax
  <2>1. value % config.alignment \in 0 .. config.alignment - 1
    BY <1>1
  <2> QED
    BY <1>1, <2>1 DEF AlignUp
<1> DEFINE fitting == {b \in config.buckets : b >= requested}
<1>3. fitting # {} => Min(fitting) \in fitting
  <2>1. fitting \in SUBSET Nat
    BY <1>1
  <2> HIDE DEF fitting
  <2> QED
    BY <2>1, MinMember
<1>4. Max({config.fixed, requested}) \in requested .. SizeMax
  BY <1>1, MaxOfTwo
<1>5. fitting # {} => Min(fitting) \in requested .. SizeMax
  BY <1>1, <1>3
<1> QED
  BY <1>1, <1>2, <1>4, <1>5 DEF AllocationSize

\* The sizes of the buffers on a list.
ListSizes(buffers) == [i \in DOMAIN buffers |-> SizeOf(buffers[i])]

LEMMA ListSizesType ==
    ASSUME TypeOK, NEW list \in Seq(DOMAIN size)
    PROVE  /\ ListSizes(list) \in [1 .. Len(list) -> 0 .. SizeMax]
           /\ \A i \in 1 .. Len(list) : ListSizes(list)[i] = size[list[i]]
           /\ IsFiniteSet(1 .. Len(list))
           /\ Bytes(list) = TotalSize(ListSizes(list)) /\ Bytes(list) \in Nat
<1>1. \A i \in 1 .. Len(list) : SizeOf(list[i]) = size[list[i]] /\ size[list[i]] \in 0 .. SizeMax
  <2>1. size \in Seq(0 .. SizeMax)
    BY DEF TypeOK
  <2>2. \A b \in DOMAIN size : b # 0 /\ size[b] \in 0 .. SizeMax
    <3>1. DOMAIN size = 1 .. Len(size) /\ Len(size) \in Nat
      BY <2>1, LenProperties
    <3>2. \A b \in 1 .. Len(size) : size[b] \in 0 .. SizeMax
      BY <2>1, ElementOfSeq
    <3> QED
      BY <3>1, <3>2
  <2>3. \A i \in 1 .. Len(list) : list[i] \in DOMAIN size
    OBVIOUS
  <2> QED
    BY <2>2, <2>3 DEF SizeOf
<1>2. ListSizes(list) \in [1 .. Len(list) -> 0 .. SizeMax]
  BY <1>1 DEF ListSizes
<1>3. IsFiniteSet(1 .. Len(list))
  BY FS_Interval
<1>4. TotalSize(ListSizes(list)) \in Nat
  BY <1>2, <1>3, TotalType
<1> QED
  BY <1>1, <1>2, <1>3, <1>4 DEF ListSizes, Bytes

\* A buffer put on the free list adds its bytes to it.
LEMMA BytesAppend ==
    ASSUME TypeOK, NEW list \in Seq(DOMAIN size), NEW b \in DOMAIN size
    PROVE  Bytes(Append(list, b)) = Bytes(list) + size[b]
<1> DEFINE longer == Append(list, b)
           n == Len(list)
           w == ListSizes(longer)
<1>1. /\ longer \in Seq(DOMAIN size) /\ Len(longer) = n + 1 /\ n \in Nat
      /\ longer[n + 1] = b /\ \A i \in 1 .. n : longer[i] = list[i]
  OBVIOUS
<1>2. /\ w \in [1 .. n + 1 -> 0 .. SizeMax] /\ Bytes(longer) = TotalSize(w)
      /\ \A i \in 1 .. n + 1 : w[i] = size[longer[i]]
  BY <1>1, ListSizesType
<1>3. 1 .. n + 1 = (1 .. n) \cup {n + 1} /\ n + 1 \notin 1 .. n
  BY <1>1
<1>4. IsFiniteSet(1 .. n)
  BY <1>1, FS_Interval
<1>5. TotalSize(w) = TotalSize([i \in 1 .. n |-> w[i]]) + w[n + 1]
  <2> HIDE DEF w, n
  <2> QED
    BY <1>2, <1>3, <1>4, TotalAdd
<1>6. [i \in 1 .. n |-> w[i]] = ListSizes(list)
  <2>1. \A i \in 1 .. n : w[i] = ListSizes(list)[i]
    <3> HIDE DEF w
    <3> QED
      BY <1>1, <1>2, ListSizesType
  <2>2. ListSizes(list) = [i \in 1 .. n |-> ListSizes(list)[i]]
    BY ListSizesType
  <2> HIDE DEF w
  <2> QED
    BY <2>1, <2>2
<1>7. w[n + 1] = size[b]
  BY <1>1, <1>2
<1>8. Bytes(list) = TotalSize(ListSizes(list))
  BY ListSizesType
<1> HIDE DEF w, n, longer
<1> QED
  BY <1>2, <1>5, <1>6, <1>7, <1>8 DEF longer

\* A buffer taken off the free list takes its bytes with it.
LEMMA BytesRemoveAt ==
    ASSUME TypeOK, NEW list \in Seq(DOMAIN size), NEW at \in 1 .. Len(list)
    PROVE  Bytes(list) = Bytes(RemoveAt(list, at)) + size[list[at]]
<1> DEFINE shorter == RemoveAt(list, at)
           n == Len(list)
           w == ListSizes(list)
           v == ListSizes(shorter)
           left == (1 .. n) \ {at}
           places == 1 .. n - 1
           h == [i \in places |-> IF i < at THEN i ELSE i + 1]
           rest == [i \in left |-> w[i]]
<1>1. /\ shorter \in Seq(DOMAIN size) /\ Len(shorter) = n - 1 /\ n \in Nat
      /\ \A i \in 1 .. n - 1 : shorter[i] = list[IF i < at THEN i ELSE i + 1]
  BY RemoveAtPlaces
<1>2. /\ w \in [1 .. n -> 0 .. SizeMax] /\ Bytes(list) = TotalSize(w) /\ IsFiniteSet(1 .. n)
      /\ \A i \in 1 .. n : w[i] = size[list[i]]
  BY ListSizesType
<1>3. /\ v \in [1 .. n - 1 -> 0 .. SizeMax] /\ Bytes(shorter) = TotalSize(v)
      /\ IsFiniteSet(1 .. n - 1)
      /\ \A i \in 1 .. n - 1 : v[i] = size[shorter[i]]
  BY <1>1, ListSizesType
<1>4. TotalSize(w) = TotalSize(rest) + w[at] /\ w[at] = size[list[at]]
  <2>1. at \in 1 .. n
    OBVIOUS
  <2>2. w[at] = size[list[at]]
    BY <1>2, <2>1
  <2> HIDE DEF w, n
  <2> QED
    BY <1>2, <2>1, <2>2, TotalRemove
<1> HIDE DEF w, v, n, shorter
<1>5. h \in [places -> left]
  BY <1>1
<1>6. \A i, j \in places : h[i] = h[j] => i = j
  BY <1>1
<1>7. ASSUME NEW t \in left PROVE \E i \in places : h[i] = t
  <2>1. CASE t < at
    BY <1>1, <2>1 DEF n
  <2>2. CASE ~(t < at)
    <3>1. t \in Int /\ t - 1 \in 1 .. n - 1 /\ ~(t - 1 < at)
      BY <1>1, <2>2 DEF n
    <3>2. h[t - 1] = (t - 1) + 1
      BY <3>1
    <3> QED
      BY <3>1, <3>2
  <2> QED
    BY <2>1, <2>2
<1>8. rest \in [left -> 0 .. SizeMax]
  BY <1>2
<1>9. \A i \in places : v[i] = rest[h[i]]
  BY <1>1, <1>2, <1>3, <1>5
<1>10. TotalSize(rest) = TotalSize(v)
  <2>1. v \in [places -> 0 .. SizeMax] /\ IsFiniteSet(places)
    BY <1>3
  <2>2. Renames(h, places, left, v, rest)
    BY <1>5, <1>6, <1>7, <1>9, Zenon DEF Renames
  <2> HIDE DEF rest, h, left, places
  <2> QED
    BY <2>1, <2>2, <1>8, TotalRenamed
<1> QED
  BY <1>2, <1>3, <1>4, <1>10 DEF shorter

-----------------------------------------------------------------------------
(* What is lent.                                                           *)

LentSizes == [f \in Lent |-> size[frame[f].buffer]]

LentFacts ==
    /\ Lent \subseteq Frames /\ IsFiniteSet(Lent) /\ Cardinality(Lent) \in Nat
    /\ \A f \in Lent : frame[f].buffer \in 1 .. Len(size)
    /\ LentSizes \in [Lent -> 0 .. SizeMax]
    /\ LentBytes = TotalSize(LentSizes) /\ LentBytes \in Nat

LEMMA LentType == TypeOK => LentFacts
<1> SUFFICES ASSUME TypeOK PROVE LentFacts
  OBVIOUS
<1>1. /\ size \in Seq(0 .. SizeMax)
      /\ frame \in [Frames -> [buffer : 0 .. Len(size), size : 0 .. SizeMax]]
  BY DEF TypeOK
<1>2. Lent \in SUBSET Frames
  BY DEF Lent
<1>3. IsFiniteSet(Lent)
  BY <1>2, BufferAssumption, FS_Subset
<1>4. Cardinality(Lent) \in Nat
  BY <1>3, FS_CardinalityType
<1>5. Len(size) \in Nat /\ \A b \in 1 .. Len(size) : size[b] \in 0 .. SizeMax
  BY <1>1, LenProperties, ElementOfSeq
<1>6. \A f \in Lent : frame[f].buffer \in 1 .. Len(size)
  BY <1>1, <1>5 DEF Lent
<1>7. LentSizes \in [Lent -> 0 .. SizeMax]
  BY <1>5, <1>6 DEF LentSizes
<1>8. TotalSize(LentSizes) \in Nat
  BY <1>3, <1>7, TotalType
<1> QED
  BY <1>2, <1>3, <1>4, <1>6, <1>7, <1>8 DEF LentFacts, LentBytes, LentSizes

\* A frame takes a buffer over: the one at `b', which may just have been allocated.
LEMMA LentGains ==
    ASSUME TypeOK, TypeOK', NEW f \in Frames, f \notin Lent, NEW b \in 1 .. Len(size'), NEW n,
           frame' = [frame EXCEPT ![f] = [buffer |-> b, size |-> n]],
           \A x \in 1 .. Len(size) : size'[x] = size[x]
    PROVE  /\ Lent' = Lent \cup {f}
           /\ LentBytes' = LentBytes + size'[b]
           /\ Cardinality(Lent') = Cardinality(Lent) + 1
<1>1. /\ IsFiniteSet(Lent) /\ \A g \in Lent : frame[g].buffer \in 1 .. Len(size)
      /\ LentSizes \in [Lent -> 0 .. SizeMax]
      /\ LentBytes = TotalSize(LentSizes)
  BY LentType DEF LentFacts
<1>2. LentSizes' \in [Lent' -> 0 .. SizeMax] /\ LentBytes' = TotalSize(LentSizes')
  <2>1. LentFacts'
    BY LentType, PTL
  <2> QED
    BY <2>1 DEF LentFacts
<1>3. frame'[f].buffer = b /\ \A g \in Frames \ {f} : frame'[g] = frame[g]
  BY DEF TypeOK
<1>4. b # 0
  <2>1. Len(size') \in Nat
    BY DEF TypeOK
  <2> QED
    BY <2>1
<1>5. Lent' = Lent \cup {f}
  BY <1>3, <1>4 DEF Lent
<1>6. Cardinality(Lent') = Cardinality(Lent) + 1
  BY <1>1, <1>5, FS_AddElement
<1>7. TotalSize(LentSizes') = TotalSize([g \in Lent |-> LentSizes'[g]]) + LentSizes'[f]
  BY <1>1, <1>2, <1>5, TotalAdd
<1>8. LentSizes'[f] = size'[b]
  BY <1>3, <1>5 DEF LentSizes
<1>9. [g \in Lent |-> LentSizes'[g]] = LentSizes
  <2>1. \A g \in Lent : LentSizes'[g] = LentSizes[g]
    BY <1>1, <1>3, <1>5 DEF LentSizes, Lent
  <2> QED
    BY <1>1, <2>1
<1> QED
  BY <1>1, <1>2, <1>5, <1>6, <1>7, <1>8, <1>9

\* A frame gives its buffer up.
LEMMA LentLoses ==
    ASSUME TypeOK, TypeOK', NEW f \in Lent,
           frame' = [frame EXCEPT ![f] = Null],
           size' = size
    PROVE  /\ Lent' = Lent \ {f}
           /\ LentBytes' + size[frame[f].buffer] = LentBytes
           /\ Cardinality(Lent) = Cardinality(Lent') + 1
<1>1. /\ IsFiniteSet(Lent) /\ f \in Frames
      /\ LentSizes \in [Lent -> 0 .. SizeMax]
      /\ LentBytes = TotalSize(LentSizes) /\ Cardinality(Lent) \in Nat
  BY LentType DEF LentFacts
<1>2. LentSizes' \in [Lent' -> 0 .. SizeMax] /\ LentBytes' = TotalSize(LentSizes')
  <2>1. LentFacts'
    BY LentType, PTL
  <2> QED
    BY <2>1 DEF LentFacts
<1>3. frame'[f].buffer = 0 /\ \A g \in Frames \ {f} : frame'[g] = frame[g]
  BY <1>1 DEF TypeOK, Null
<1>4. Lent' = Lent \ {f}
  BY <1>3 DEF Lent
<1>5. Cardinality(Lent) = Cardinality(Lent') + 1
  BY <1>1, <1>4, FS_RemoveElement
<1>6. TotalSize(LentSizes) = TotalSize([g \in Lent \ {f} |-> LentSizes[g]]) + LentSizes[f]
  BY <1>1, TotalRemove
<1>7. [g \in Lent \ {f} |-> LentSizes[g]] = LentSizes'
  <2>1. \A g \in Lent \ {f} : LentSizes'[g] = LentSizes[g]
    BY <1>3, <1>4 DEF LentSizes, Lent
  <2> QED
    BY <1>2, <1>4, <2>1
<1> QED
  BY <1>1, <1>2, <1>4, <1>5, <1>6, <1>7 DEF LentSizes

\* A frame is moved onto another one, whose buffer, if it has one, is given up.
LEMMA LentMoves ==
    ASSUME TypeOK, TypeOK', NEW to \in Frames, NEW from \in Frames, to # from,
           frame' = [frame EXCEPT ![to] = frame[from], ![from] = Null],
           size' = size
    PROVE  /\ Lent' = {f \in Lent \cup {to} : IF f = to THEN from \in Lent ELSE f # from}
           /\ LentBytes' + (IF to \in Lent THEN size[frame[to].buffer] ELSE 0) = LentBytes
           /\ Cardinality(Lent) = Cardinality(Lent') + (IF to \in Lent THEN 1 ELSE 0)
<1> DEFINE common == Lent \ {to, from}
           w == [f \in common |-> LentSizes[f]]
<1>1. /\ IsFiniteSet(Lent) /\ Cardinality(Lent) \in Nat
      /\ LentSizes \in [Lent -> 0 .. SizeMax]
      /\ LentBytes = TotalSize(LentSizes)
  BY LentType DEF LentFacts
<1>2. /\ LentSizes' \in [Lent' -> 0 .. SizeMax] /\ LentBytes' = TotalSize(LentSizes')
      /\ IsFiniteSet(Lent') /\ Cardinality(Lent') \in Nat
  <2>1. LentFacts'
    BY LentType, PTL
  <2> QED
    BY <2>1 DEF LentFacts
<1>3. /\ frame'[to] = frame[from] /\ frame'[from].buffer = 0
      /\ \A g \in Frames \ {to, from} : frame'[g] = frame[g]
  BY DEF TypeOK, Null
<1>4. Lent' = IF from \in Lent THEN common \cup {to} ELSE common
  BY <1>3 DEF Lent
<1>5. IsFiniteSet(common)
  BY <1>1, FS_Difference
<1>6. Cardinality(common) \in Nat
  BY <1>5, FS_CardinalityType
<1>7. w \in [common -> 0 .. SizeMax] /\ TotalSize(w) \in Nat
  BY <1>1, <1>5, TotalType
\* Before the step: the others, the target's buffer and the source's.
<1>8. /\ TotalSize(LentSizes) = TotalSize(w)
             + (IF to \in Lent THEN LentSizes[to] ELSE 0)
             + (IF from \in Lent THEN LentSizes[from] ELSE 0)
      /\ Cardinality(Lent) = Cardinality(common)
             + (IF to \in Lent THEN 1 ELSE 0) + (IF from \in Lent THEN 1 ELSE 0)
  <2> DEFINE rest == Lent \ {from}
             v == [f \in rest |-> LentSizes[f]]
  <2>1. /\ TotalSize(LentSizes) = TotalSize(v) + (IF from \in Lent THEN LentSizes[from] ELSE 0)
        /\ Cardinality(Lent) = Cardinality(rest) + (IF from \in Lent THEN 1 ELSE 0)
        /\ IsFiniteSet(rest) /\ Cardinality(rest) \in Nat
    <3>1. IsFiniteSet(rest)
      BY <1>1, FS_RemoveElement
    <3>2. Cardinality(rest) \in Nat
      BY <3>1, FS_CardinalityType
    <3>3. v \in [rest -> 0 .. SizeMax] /\ TotalSize(v) \in Nat
      BY <1>1, <3>1, TotalType
    <3>4. CASE from \in Lent
      <4>1. TotalSize(LentSizes) = TotalSize(v) + LentSizes[from]
        BY <1>1, <3>4, TotalRemove
      <4>2. Cardinality(Lent) = Cardinality(rest) + 1
        <5>1. Cardinality(rest) = Cardinality(Lent) - 1
          BY <1>1, <3>4, FS_RemoveElement
        <5> HIDE DEF rest
        <5> QED
          BY <1>1, <5>1
      <4> QED
        BY <3>1, <3>2, <3>4, <4>1, <4>2
    <3>5. CASE from \notin Lent
      <4>1. rest = Lent /\ v = LentSizes
        BY <1>1, <3>5
      <4> HIDE DEF rest, v
      <4> QED
        BY <3>1, <3>2, <3>3, <3>5, <4>1
    <3> QED
      BY <3>4, <3>5
  <2>2. /\ TotalSize(v) = TotalSize(w) + (IF to \in Lent THEN LentSizes[to] ELSE 0)
        /\ Cardinality(rest) = Cardinality(common) + (IF to \in Lent THEN 1 ELSE 0)
    <3>1. CASE to \in Lent
      <4>1. common = rest \ {to} /\ to \in rest /\ v[to] = LentSizes[to]
        BY <3>1
      <4>2. v \in [rest -> 0 .. SizeMax]
        BY <1>1
      <4>3. w = [f \in rest \ {to} |-> v[f]]
        BY <4>1
      <4>4. TotalSize(v) = TotalSize([f \in rest \ {to} |-> v[f]]) + v[to]
        <5> HIDE DEF rest, v
        <5> QED
          BY <2>1, <4>1, <4>2, TotalRemove
      <4>5. Cardinality(rest) = Cardinality(common) + 1
        <5>1. Cardinality(rest \ {to}) = Cardinality(rest) - 1
          <6> HIDE DEF rest
          <6> QED
            BY <2>1, <4>1, FS_RemoveElement
        <5> QED
          BY <2>1, <4>1, <5>1
      <4> HIDE DEF rest, v, w, common
      <4> QED
        BY <3>1, <4>1, <4>3, <4>4, <4>5
    <3>2. CASE to \notin Lent
      <4>1. rest = common /\ v = w
        BY <3>2
      <4> HIDE DEF rest, v, w, common
      <4> QED
        BY <1>6, <1>7, <3>2, <4>1
    <3> QED
      BY <3>1, <3>2
  <2>3. (from \in Lent => LentSizes[from] \in Nat) /\ (to \in Lent => LentSizes[to] \in Nat)
    BY <1>1, BufferAssumption
  <2> HIDE DEF rest, v, w, common
  <2> QED
    BY <1>6, <1>7, <2>1, <2>2, <2>3
\* After it: the others and what the target now has.
<1>9. /\ TotalSize(LentSizes') = TotalSize(w) + (IF from \in Lent THEN LentSizes[from] ELSE 0)
      /\ Cardinality(Lent') = Cardinality(common) + (IF from \in Lent THEN 1 ELSE 0)
  <2>1. ASSUME NEW f \in common PROVE LentSizes'[f] = w[f]
    <3>1. f \in Lent' /\ f \in Lent /\ frame'[f] = frame[f]
      BY <1>3, <1>4 DEF Lent
    <3>2. LentSizes'[f] = size'[frame'[f].buffer] /\ LentSizes[f] = size[frame[f].buffer]
      BY <3>1 DEF LentSizes
    <3> QED
      BY <3>1, <3>2
  <2>2. w = [f \in common |-> LentSizes'[f]]
    BY <2>1
  <2>3. CASE from \in Lent
    <3>1. LentSizes'[to] = LentSizes[from]
      BY <1>3, <1>4, <2>3 DEF LentSizes
    <3>2. Lent' = common \cup {to} /\ to \notin common
      BY <1>4, <2>3
    <3>3. TotalSize(LentSizes') = TotalSize([f \in common |-> LentSizes'[f]]) + LentSizes'[to]
      <4> HIDE DEF common
      <4> QED
        BY <1>2, <1>5, <3>2, TotalAdd
    <3>4. Cardinality(Lent') = Cardinality(common) + 1
      <4> HIDE DEF common
      <4> QED
        BY <1>5, <3>2, FS_AddElement
    <3> HIDE DEF w, common
    <3> QED
      BY <2>2, <2>3, <3>1, <3>3, <3>4
  <2>4. CASE from \notin Lent
    <3>1. Lent' = common
      BY <1>4, <2>4
    <3>2. LentSizes' = w
      BY <1>2, <2>2, <3>1
    <3> HIDE DEF w, common
    <3> QED
      BY <1>6, <1>7, <2>4, <3>1, <3>2
  <2> QED
    BY <2>3, <2>4
<1>10. Lent' = {f \in Lent \cup {to} : IF f = to THEN from \in Lent ELSE f # from}
  BY <1>4
<1>11. to \in Lent => LentSizes[to] = size[frame[to].buffer] /\ LentSizes[to] \in Nat
  BY <1>1, BufferAssumption DEF LentSizes
<1>12. from \in Lent => LentSizes[from] \in Nat
  BY <1>1, BufferAssumption
<1> HIDE DEF w, common
<1> QED
  BY <1>1, <1>2, <1>6, <1>7, <1>8, <1>9, <1>10, <1>11, <1>12

-----------------------------------------------------------------------------
(* The statistics.                                                         *)

Fields == {"alloc", "reuse", "loan", "release", "detached", "exhausted", "owned", "active", "active_bytes",
           "high", "available_count", "available_bytes"}

LEMMA RefreshFields ==
    ASSUME NEW s \in [Fields -> Nat], Len(available') \in Nat, Bytes(available') \in Nat
    PROVE  /\ Refresh(s) \in [Fields -> Nat]
           /\ Refresh(s).available_count = Len(available')
           /\ Refresh(s).available_bytes = Bytes(available')
           /\ \A k \in Fields \ {"available_count", "available_bytes"} : Refresh(s)[k] = s[k]
BY DEF Refresh, Fields

LEMMA LoanedFields ==
    ASSUME NEW s \in [Fields -> Nat], NEW bytes \in Nat
    PROVE  /\ Loaned(s, bytes) \in [Fields -> Nat]
           /\ Loaned(s, bytes).loan = s.loan + 1
           /\ Loaned(s, bytes).active = s.active + 1
           /\ Loaned(s, bytes).active_bytes = s.active_bytes + bytes
           /\ \A k \in Fields \ {"loan", "active", "active_bytes", "high"} : Loaned(s, bytes)[k] = s[k]
<1>1. s.high \in Nat /\ s.active_bytes + bytes \in Nat
  BY DEF Fields
<1>2. Max({s.high, s.active_bytes + bytes}) \in Nat
  BY <1>1, MaxOfTwo
<1> DEFINE high == Max({s.high, s.active_bytes + bytes})
           t == [s EXCEPT !.loan = s.loan + 1, !.active = s.active + 1,
                          !.active_bytes = s.active_bytes + bytes, !.high = high]
<1>3. Loaned(s, bytes) = t
  BY DEF Loaned
<1> HIDE DEF high
<1>4. s.loan + 1 \in Nat /\ s.active + 1 \in Nat /\ high \in Nat
  BY <1>2 DEF Fields, high
<1>5. DOMAIN t = Fields /\ DOMAIN s = Fields
  OBVIOUS
<1>6. /\ t.loan = s.loan + 1 /\ t.active = s.active + 1
      /\ t.active_bytes = s.active_bytes + bytes /\ t.high = high
  BY DEF Fields
<1>7. \A k \in Fields \ {"loan", "active", "active_bytes", "high"} : t[k] = s[k]
  OBVIOUS
<1>8. \A k \in Fields : t[k] \in Nat
  BY <1>1, <1>4, <1>6, <1>7
<1>9. t \in [Fields -> Nat]
  BY <1>5, <1>8
<1> HIDE DEF t
<1> QED
  BY <1>3, <1>6, <1>7, <1>9

LEMMA SettledFields ==
    ASSUME NEW s \in [Fields -> Nat], NEW bytes \in Nat, s.active >= 1, s.active_bytes >= bytes
    PROVE  /\ Settled(s, bytes) \in [Fields -> Nat]
           /\ Settled(s, bytes).active = s.active - 1
           /\ Settled(s, bytes).active_bytes = s.active_bytes - bytes
           /\ \A k \in Fields \ {"active", "active_bytes"} : Settled(s, bytes)[k] = s[k]
<1> DEFINE t == [s EXCEPT !.active = s.active - 1, !.active_bytes = s.active_bytes - bytes]
<1>1. s.active \in Nat /\ s.active_bytes \in Nat
  BY DEF Fields
<1>2. Less(s.active, 1) = s.active - 1 /\ Less(s.active_bytes, bytes) = s.active_bytes - bytes
  BY <1>1 DEF Less
<1>3. Settled(s, bytes) = t
  BY <1>2 DEF Settled
<1>4. t.active = s.active - 1 /\ t.active_bytes = s.active_bytes - bytes
  BY DEF Fields
<1>5. \A k \in Fields \ {"active", "active_bytes"} : t[k] = s[k]
  OBVIOUS
<1>6. \A k \in Fields : t[k] \in Nat
  <2>1. t.active \in Nat /\ t.active_bytes \in Nat
    BY <1>1, <1>4
  <2>2. \A k \in Fields \ {"active", "active_bytes"} : t[k] \in Nat
    BY <1>5
  <2> HIDE DEF t
  <2> QED
    BY <2>1, <2>2
<1>7. t \in [Fields -> Nat]
  BY <1>6
<1> HIDE DEF t
<1> QED
  BY <1>3, <1>4, <1>5, <1>7

-----------------------------------------------------------------------------
(* The invariant.                                                          *)

FreeBytes == Bytes(available)

Balance ==
    /\ stats.active_bytes = LentBytes
    /\ stats.available_bytes = FreeBytes
    /\ stats.owned = stats.active_bytes + stats.available_bytes
    /\ stats.active = Cardinality(Lent)
    /\ stats.available_count = Len(available)

PoolInv == TypeOK /\ OneOwner /\ LoansAccounted /\ Balance /\ BudgetHeld

LEMMA PoolInit == Init => PoolInv
<1> SUFFICES ASSUME Init PROVE PoolInv
  OBVIOUS
<1>1. TypeOK
  BY BufferAssumption DEF Init, TypeOK, Null
<1>2. Lent = {}
  BY DEF Init, Lent, Null
<1>3. OneOwner /\ LoansAccounted
  BY <1>2 DEF Init, OneOwner, LoansAccounted
<1>4. config.max \in Nat
  BY <1>1, BufferAssumption DEF TypeOK
<1>5. BudgetHeld
  BY <1>2, <1>4 DEF Init, BudgetHeld, FrameFits
<1>6. Cardinality(Lent) = 0
  BY <1>2, FS_EmptySet
<1>7. ASSUME NEW w, DOMAIN w = {} PROVE TotalSize(w) = 0
  <2>1. {byte \in (DOMAIN w) \X (1 .. SizeMax) : byte[2] <= w[byte[1]]} = {}
    BY <1>7
  <2> QED
    BY <2>1, FS_EmptySet DEF TotalSize
<1>8. LentBytes = 0
  BY <1>2, <1>7 DEF LentBytes
<1>9. DOMAIN available = {} /\ Len(available) = 0
  BY DEF Init
<1>10. Bytes(available) = 0
  BY <1>7, <1>9 DEF Bytes
<1>11. Balance
  BY <1>6, <1>8, <1>9, <1>10 DEF Init, Balance, FreeBytes
<1> QED
  BY <1>1, <1>3, <1>5, <1>11 DEF PoolInv

\* The counters are naturals.
CountersAreNat(s) ==
    /\ s.alloc \in Nat /\ s.reuse \in Nat /\ s.loan \in Nat /\ s.release \in Nat
    /\ s.detached \in Nat /\ s.exhausted \in Nat /\ s.owned \in Nat /\ s.active \in Nat
    /\ s.active_bytes \in Nat /\ s.available_bytes \in Nat

\* What an operation finds, in one place.
LEMMA PoolFacts ==
    ASSUME PoolInv
    PROVE  /\ config \in Configs /\ stats \in [Fields -> Nat] /\ CountersAreNat(stats)
           /\ size \in Seq(0 .. SizeMax) /\ DOMAIN size = 1 .. Len(size) /\ Len(size) \in Nat
           /\ \A b \in 1 .. Len(size) : size[b] \in 0 .. SizeMax
           /\ available \in Seq(1 .. Len(size)) /\ available \in Seq(DOMAIN size)
           /\ DOMAIN available = 1 .. Len(available) /\ Len(available) \in Nat
           /\ \A i \in 1 .. Len(available) : available[i] \in 1 .. Len(size)
           /\ frame \in [Frames -> [buffer : 0 .. Len(size), size : 0 .. SizeMax]]
           /\ SizeMax \in Nat
<1>1. /\ size \in Seq(0 .. SizeMax) /\ available \in Seq(DOMAIN size) /\ config \in Configs
      /\ stats \in [Fields -> Nat]
      /\ frame \in [Frames -> [buffer : 0 .. Len(size), size : 0 .. SizeMax]]
  BY DEF PoolInv, TypeOK, Fields
<1>2. DOMAIN size = 1 .. Len(size) /\ Len(size) \in Nat
  BY <1>1, LenProperties
<1>3. \A b \in 1 .. Len(size) : size[b] \in 0 .. SizeMax
  BY <1>1, ElementOfSeq
<1>4. DOMAIN available = 1 .. Len(available) /\ Len(available) \in Nat
  BY <1>1, LenProperties
<1>5. \A i \in 1 .. Len(available) : available[i] \in 1 .. Len(size)
  BY <1>1, <1>2, ElementOfSeq
<1>6. CountersAreNat(stats)
  BY <1>1 DEF Fields, CountersAreNat
<1> QED
  BY <1>1, <1>2, <1>3, <1>4, <1>5, <1>6, BufferAssumption

\* The counts after a loan.
LEMMA LoanCounted ==
    ASSUME CountersAreNat(stats), LoansAccounted,
           stats'.loan = stats.loan + 1, stats'.active = stats.active + 1,
           stats'.alloc + stats'.reuse = stats.alloc + stats.reuse + 1,
           stats'.release = stats.release, stats'.detached = stats.detached
    PROVE  LoansAccounted'
BY DEF LoansAccounted, CountersAreNat

\* The counts after a buffer is given back.
LEMMA SettleCounted ==
    ASSUME CountersAreNat(stats), LoansAccounted,
           stats'.loan = stats.loan, stats'.active = stats.active - 1,
           stats'.alloc = stats.alloc, stats'.reuse = stats.reuse,
           stats'.release \in Nat, stats'.detached \in Nat,
           stats'.release + stats'.detached = stats.release + stats.detached + 1
    PROVE  LoansAccounted'
BY DEF LoansAccounted, CountersAreNat

LEMMA OwnedAfterLoan ==
    ASSUME NEW bytes \in Nat, NEW fresh \in Nat,
           FreeBytes' \in Nat, FreeBytes' + bytes = FreeBytes + fresh, stats'.available_bytes = FreeBytes',
           stats'.active_bytes = stats.active_bytes + bytes, stats'.owned = stats.owned + fresh,
           stats.active_bytes \in Nat, stats.available_bytes \in Nat, stats.owned \in Nat,
           stats.owned = stats.active_bytes + stats.available_bytes, stats.available_bytes = FreeBytes
    PROVE  stats'.owned = stats'.active_bytes + stats'.available_bytes
OBVIOUS

LEMMA OwnedAfterReturn ==
    ASSUME NEW bytes \in Nat, NEW gone \in Nat,
           FreeBytes' \in Nat, FreeBytes' + gone = FreeBytes + bytes, stats'.available_bytes = FreeBytes',
           stats'.active_bytes = stats.active_bytes - bytes, stats'.owned = stats.owned - gone,
           stats.active_bytes \in Nat, stats.available_bytes \in Nat, stats.owned \in Nat,
           stats.owned = stats.active_bytes + stats.available_bytes, stats.available_bytes = FreeBytes
    PROVE  stats'.owned = stats'.active_bytes + stats'.available_bytes
OBVIOUS

LEMMA ActiveAfterReturn ==
    ASSUME Cardinality(Lent') \in Nat, Cardinality(Lent) = Cardinality(Lent') + 1,
           stats.active = Cardinality(Lent), stats'.active = stats.active - 1
    PROVE  stats'.active = Cardinality(Lent')
OBVIOUS

LEMMA LentAfterReturn ==
    ASSUME NEW bytes \in Nat, LentBytes' \in Nat, LentBytes' + bytes = LentBytes,
           stats.active_bytes = LentBytes, stats'.active_bytes = stats.active_bytes - bytes
    PROVE  stats'.active_bytes = LentBytes'
OBVIOUS

\* The bytes after a loan of `bytes' bytes, `fresh' of them just allocated.
LEMMA LoanBalanced ==
    ASSUME CountersAreNat(stats), Balance, NEW bytes \in Nat, NEW fresh \in Nat,
           FreeBytes' \in Nat, FreeBytes' + bytes = FreeBytes + fresh,
           LentBytes' = LentBytes + bytes, Cardinality(Lent') = Cardinality(Lent) + 1,
           stats'.available_count = Len(available'), stats'.available_bytes = FreeBytes',
           stats'.active = stats.active + 1, stats'.active_bytes = stats.active_bytes + bytes,
           stats'.owned = stats.owned + fresh
    PROVE  Balance'
<1>1. stats'.active = Cardinality(Lent') /\ stats'.active_bytes = LentBytes'
  BY DEF Balance
<1>2. stats.active_bytes \in Nat /\ stats.available_bytes \in Nat /\ stats.owned \in Nat
  BY DEF CountersAreNat
<1>3. stats.owned = stats.active_bytes + stats.available_bytes /\ stats.available_bytes = FreeBytes
  BY DEF Balance
<1>4. stats'.owned = stats'.active_bytes + stats'.available_bytes
  BY <1>2, <1>3, OwnedAfterLoan
<1> QED
  BY <1>1, <1>4 DEF Balance

\* The bytes after `bytes' bytes are given back, `gone' of them leaving the pool.
LEMMA SettleBalanced ==
    ASSUME CountersAreNat(stats), Balance, NEW bytes \in Nat, NEW gone \in Nat,
           FreeBytes' \in Nat, FreeBytes' + gone = FreeBytes + bytes,
           LentBytes' \in Nat, Cardinality(Lent') \in Nat,
           LentBytes' + bytes = LentBytes, Cardinality(Lent) = Cardinality(Lent') + 1,
           stats'.available_count = Len(available'), stats'.available_bytes = FreeBytes',
           stats'.active = stats.active - 1, stats'.active_bytes = stats.active_bytes - bytes,
           stats'.owned = stats.owned - gone
    PROVE  Balance'
<1>1. stats'.active = Cardinality(Lent') /\ stats'.active_bytes = LentBytes'
  <2>1. stats.active = Cardinality(Lent) /\ stats.active_bytes = LentBytes
    BY DEF Balance
  <2>2. stats'.active = Cardinality(Lent')
    BY <2>1, ActiveAfterReturn
  <2>3. stats'.active_bytes = LentBytes'
    BY <2>1, LentAfterReturn
  <2> QED
    BY <2>2, <2>3
<1>2. stats.active_bytes \in Nat /\ stats.available_bytes \in Nat /\ stats.owned \in Nat
  BY DEF CountersAreNat
<1>3. stats.owned = stats.active_bytes + stats.available_bytes /\ stats.available_bytes = FreeBytes
  BY DEF Balance
<1>4. stats'.owned = stats'.active_bytes + stats'.available_bytes
  BY <1>2, <1>3, OwnedAfterReturn
<1> QED
  BY <1>1, <1>4 DEF Balance

\* The free list is searched: the buffer at place `at' is reused.
Reuses(f, requested, at) ==
    /\ size[available[at]] >= requested
    /\ frame[f] = Null
    /\ available' = RemoveAt(available, at)
    /\ frame' = [frame EXCEPT ![f] = [buffer |-> available[at], size |-> requested]]
    /\ stats' = Refresh(Loaned([stats EXCEPT !.reuse = @ + 1], size[available[at]]))
    /\ size' = size /\ config' = config

LEMMA ReuseStep ==
    ASSUME PoolInv, NEW f \in Frames, NEW requested \in 0 .. SizeMax,
           NEW at \in 1 .. Len(available), Reuses(f, requested, at)
    PROVE  PoolInv'
<1> DEFINE b == available[at]
           n == Len(available)
           s == [stats EXCEPT !.reuse = stats.reuse + 1]
<1>0. TypeOK /\ OneOwner /\ LoansAccounted /\ Balance /\ BudgetHeld
  BY DEF PoolInv
<1>1. /\ available' \in Seq(DOMAIN size) /\ Len(available') = n - 1 /\ n \in Nat
      /\ DOMAIN available' = 1 .. n - 1
      /\ \A i \in 1 .. n - 1 : available'[i] = available[IF i < at THEN i ELSE i + 1]
  <2>1. available \in Seq(DOMAIN size)
    BY PoolFacts
  <2>2. /\ available' \in Seq(DOMAIN size) /\ Len(available') = n - 1 /\ n \in Nat
        /\ \A i \in 1 .. n - 1 : available'[i] = available[IF i < at THEN i ELSE i + 1]
    BY <2>1, RemoveAtPlaces DEF Reuses
  <2>3. DOMAIN available' = 1 .. Len(available')
    BY <2>2, LenProperties
  <2> HIDE DEF n
  <2> QED
    BY <2>2, <2>3
<1>2. b \in 1 .. Len(size) /\ size[b] \in Nat /\ b # 0
  BY PoolFacts
<1>3. Bytes(available) = Bytes(available') + size[b] /\ Bytes(available') \in Nat
  BY <1>0, <1>1, PoolFacts, BytesRemoveAt, ListSizesType DEF Reuses
<1>4. s \in [Fields -> Nat] /\ s.reuse = stats.reuse + 1 /\ \A k \in Fields \ {"reuse"} : s[k] = stats[k]
  <2>1. stats \in [Fields -> Nat]
    BY PoolFacts
  <2>2. stats.reuse + 1 \in Nat
    BY <2>1 DEF Fields
  <2> QED
    BY <2>1, <2>2 DEF Fields
<1>5. stats' = Refresh(Loaned(s, size[b]))
  BY DEF Reuses
<1>6. /\ stats' \in [Fields -> Nat]
      /\ stats'.available_count = Len(available') /\ stats'.available_bytes = Bytes(available')
      /\ stats'.loan = stats.loan + 1 /\ stats'.active = stats.active + 1
      /\ stats'.active_bytes = stats.active_bytes + size[b]
      /\ stats'.reuse = stats.reuse + 1
      /\ stats'.alloc = stats.alloc /\ stats'.release = stats.release
      /\ stats'.detached = stats.detached /\ stats'.owned = stats.owned
  <2> HIDE DEF s, b
  <2>1. Len(available') \in Nat
    BY <1>1
  <2>2. /\ Loaned(s, size[b]) \in [Fields -> Nat]
        /\ Loaned(s, size[b]).loan = s.loan + 1
        /\ Loaned(s, size[b]).active = s.active + 1
        /\ Loaned(s, size[b]).active_bytes = s.active_bytes + size[b]
        /\ \A k \in Fields \ {"loan", "active", "active_bytes", "high"} : Loaned(s, size[b])[k] = s[k]
    BY <1>2, <1>4, LoanedFields
  <2>3. /\ stats' \in [Fields -> Nat]
        /\ stats'.available_count = Len(available')
        /\ stats'.available_bytes = Bytes(available')
        /\ \A k \in Fields \ {"available_count", "available_bytes"} : stats'[k] = Loaned(s, size[b])[k]
    BY <1>3, <1>5, <2>1, <2>2, RefreshFields
  <2> QED
    BY <1>4, <2>2, <2>3 DEF Fields
<1> HIDE DEF s
<1>a. /\ size' = size /\ config' = config /\ size[b] >= requested
      /\ frame' = [frame EXCEPT ![f] = [buffer |-> b, size |-> requested]]
  BY DEF Reuses
<1>7. f \notin Lent /\ f \in Frames
  BY DEF Lent, Null, Reuses
<1>8. TypeOK'
  <2>1. frame' \in [Frames -> [buffer : 0 .. Len(size), size : 0 .. SizeMax]]
    BY <1>a, <1>2, PoolFacts
  <2> QED
    BY <1>a, <1>0, <1>1, <1>6, <2>1 DEF TypeOK, Fields
<1>9. /\ Lent' = Lent \cup {f} /\ LentBytes' = LentBytes + size[b]
      /\ Cardinality(Lent') = Cardinality(Lent) + 1
  BY <1>a, <1>0, <1>2, <1>7, <1>8, LentGains
<1>10. /\ \A g \in Lent : frame'[g] = frame[g]
       /\ frame'[f] = [buffer |-> b, size |-> requested]
  BY <1>a, <1>7, PoolFacts DEF Lent
<1>11. OneOwner'
  <2>1. \A g, h \in Lent' : g # h => frame'[g].buffer # frame'[h].buffer
    <3>1. \A g \in Lent : frame[g].buffer # b
      <4>1. DOMAIN available = 1 .. Len(available)
        BY PoolFacts
      <4> QED
        BY <1>0, <4>1 DEF OneOwner, Contains
    <3>2. \A g, h \in Lent : g # h => frame[g].buffer # frame[h].buffer
      BY <1>0 DEF OneOwner
    <3> HIDE DEF b
    <3> QED
      BY <1>9, <1>10, <3>1, <3>2
  <2>2. ASSUME NEW i \in 1 .. n - 1, NEW j \in 1 .. n - 1, i # j
        PROVE  available'[i] # available'[j]
    <3>1. /\ (IF i < at THEN i ELSE i + 1) \in 1 .. n /\ (IF j < at THEN j ELSE j + 1) \in 1 .. n
          /\ (IF i < at THEN i ELSE i + 1) # (IF j < at THEN j ELSE j + 1)
      BY <1>1, <2>2
    <3>2. \A x, y \in 1 .. n : x # y => available[x] # available[y]
      BY <1>0, PoolFacts DEF OneOwner
    <3> QED
      BY <1>1, <3>1, <3>2
  <2>3. ASSUME NEW i \in 1 .. n - 1
        PROVE  /\ available'[i] # b
               /\ \E j \in 1 .. Len(available) : available'[i] = available[j]
    <3>1. (IF i < at THEN i ELSE i + 1) \in 1 .. n /\ (IF i < at THEN i ELSE i + 1) # at
      BY <1>1
    <3> QED
      BY <1>0, <1>1, <3>1, PoolFacts DEF OneOwner
  <2>4. \A g \in Lent' : ~Contains(available', frame'[g].buffer)
    <3>1. \A g \in Lent : ~Contains(available, frame[g].buffer)
      BY <1>0 DEF OneOwner
    <3>2. \A g \in Lent' : frame'[g].buffer = b \/ (g \in Lent /\ frame'[g] = frame[g])
      BY <1>9, <1>10
    <3>3. Len(available') = n - 1
      BY <1>1
    <3> QED
      BY <2>3, <3>1, <3>2, <3>3 DEF Contains
  <2> QED
    BY <1>1, <2>1, <2>2, <2>4 DEF OneOwner
<1>12. FreeBytes' = Bytes(available') /\ FreeBytes = Bytes(available)
  BY <1>a DEF FreeBytes, Bytes, SizeOf
<1>13. CountersAreNat(stats)
  BY PoolFacts
<1>14. LoansAccounted'
  <2>1. stats.alloc \in Nat /\ stats.reuse \in Nat
    BY <1>13 DEF CountersAreNat
  <2>2. stats'.alloc = stats.alloc /\ stats'.reuse = stats.reuse + 1
    BY <1>6
  <2>3. stats'.alloc + stats'.reuse = stats.alloc + stats.reuse + 1
    BY <2>1, <2>2
  <2> QED
    BY <1>0, <1>6, <1>13, <2>3, LoanCounted
<1>15. Balance'
  <2> HIDE DEF b
  <2>1. FreeBytes' \in Nat /\ FreeBytes' + size[b] = FreeBytes + 0
    BY <1>2, <1>3, <1>12
  <2>2. stats'.available_bytes = FreeBytes'
    BY <1>6, <1>12
  <2>3. stats'.owned = stats.owned + 0
    BY <1>6, <1>13 DEF CountersAreNat
  <2> QED
    BY <1>0, <1>2, <1>6, <1>9, <1>13, <2>1, <2>2, <2>3, LoanBalanced
<1>16. BudgetHeld'
  BY <1>a, <1>0, <1>6, <1>9, <1>10 DEF BudgetHeld, FrameFits
<1> QED
  BY <1>8, <1>11, <1>14, <1>15, <1>16 DEF PoolInv

\* Nothing fits on the free list: a buffer is allocated.
Allocates(f, requested, bytes) ==
    /\ frame[f] = Null
    /\ CanAllocate(bytes)
    /\ size' = Append(size, bytes)
    /\ frame' = [frame EXCEPT ![f] = [buffer |-> Len(size) + 1, size |-> requested]]
    /\ stats' = Refresh(Loaned([stats EXCEPT !.alloc = @ + 1, !.owned = @ + bytes], bytes))
    /\ available' = available /\ config' = config

LEMMA AllocateStep ==
    ASSUME PoolInv, NEW f \in Frames, NEW requested \in 0 .. SizeMax,
           NEW bytes \in requested .. SizeMax, Allocates(f, requested, bytes)
    PROVE  PoolInv'
<1> DEFINE fresh == Len(size) + 1
           s == [stats EXCEPT !.alloc = stats.alloc + 1, !.owned = stats.owned + bytes]
<1>0. TypeOK /\ OneOwner /\ LoansAccounted /\ Balance /\ BudgetHeld
  BY DEF PoolInv
<1>a. /\ size' = Append(size, bytes) /\ available' = available /\ config' = config
      /\ frame' = [frame EXCEPT ![f] = [buffer |-> fresh, size |-> requested]]
  BY DEF Allocates
<1>1. /\ size \in Seq(0 .. SizeMax) /\ Len(size) \in Nat /\ bytes \in 0 .. SizeMax /\ bytes \in Nat
      /\ SizeMax \in Nat /\ fresh \in Nat /\ fresh # 0
  BY PoolFacts
<1>2. /\ size' \in Seq(0 .. SizeMax) /\ Len(size') = fresh /\ size'[fresh] = bytes
      /\ \A x \in 1 .. Len(size) : size'[x] = size[x]
      /\ DOMAIN size' = 1 .. fresh
  BY <1>a, <1>1
<1>3. FreeBytes = Bytes(available) /\ Bytes(available) \in Nat
  BY <1>0, PoolFacts, ListSizesType DEF FreeBytes
<1>4. FreeBytes' = FreeBytes
  <2>1. /\ DOMAIN available = 1 .. Len(available)
        /\ \A i \in 1 .. Len(available) : available[i] \in 1 .. Len(size)
    BY PoolFacts
  <2>2. \A i \in DOMAIN available :
            (IF available[i] = 0 THEN 0 ELSE size'[available[i]]) = (IF available[i] = 0 THEN 0 ELSE size[available[i]])
    BY <1>2, <2>1
  <2>3. [i \in DOMAIN available |-> IF available[i] = 0 THEN 0 ELSE size'[available[i]]]
          = [i \in DOMAIN available |-> IF available[i] = 0 THEN 0 ELSE size[available[i]]]
    BY <2>2
  <2> QED
    BY <1>a, <2>3 DEF FreeBytes, Bytes, SizeOf
<1>5. /\ s \in [Fields -> Nat] /\ s.alloc = stats.alloc + 1 /\ s.owned = stats.owned + bytes
      /\ \A k \in Fields \ {"alloc", "owned"} : s[k] = stats[k]
  <2>1. stats \in [Fields -> Nat]
    BY PoolFacts
  <2>2. stats.alloc \in Nat /\ stats.owned \in Nat
    BY <2>1 DEF Fields
  <2>3. stats.alloc + 1 \in Nat /\ stats.owned + bytes \in Nat
    BY <1>1, <2>2
  <2> QED
    BY <2>1, <2>3 DEF Fields
<1>6. stats' = Refresh(Loaned(s, bytes))
  BY DEF Allocates
<1>7. /\ stats' \in [Fields -> Nat]
      /\ stats'.available_count = Len(available') /\ stats'.available_bytes = Bytes(available')
      /\ stats'.loan = stats.loan + 1 /\ stats'.active = stats.active + 1
      /\ stats'.active_bytes = stats.active_bytes + bytes
      /\ stats'.reuse = stats.reuse
      /\ stats'.alloc = stats.alloc + 1 /\ stats'.release = stats.release
      /\ stats'.detached = stats.detached /\ stats'.owned = stats.owned + bytes
  <2> HIDE DEF s
  <2>1. Len(available') \in Nat /\ Bytes(available') \in Nat
    BY <1>a, <1>3, PoolFacts
  <2>2. /\ Loaned(s, bytes) \in [Fields -> Nat]
        /\ Loaned(s, bytes).loan = s.loan + 1
        /\ Loaned(s, bytes).active = s.active + 1
        /\ Loaned(s, bytes).active_bytes = s.active_bytes + bytes
        /\ \A k \in Fields \ {"loan", "active", "active_bytes", "high"} : Loaned(s, bytes)[k] = s[k]
    BY <1>1, <1>5, LoanedFields
  <2>3. /\ stats' \in [Fields -> Nat]
        /\ stats'.available_count = Len(available')
        /\ stats'.available_bytes = Bytes(available')
        /\ \A k \in Fields \ {"available_count", "available_bytes"} : stats'[k] = Loaned(s, bytes)[k]
    BY <1>6, <2>1, <2>2, RefreshFields
  <2> QED
    BY <1>5, <2>2, <2>3 DEF Fields
<1> HIDE DEF s
<1>8. f \notin Lent /\ f \in Frames
  BY DEF Lent, Null, Allocates
<1>9. TypeOK'
  <2>1. frame' \in [Frames -> [buffer : 0 .. Len(size'), size : 0 .. SizeMax]]
    <3>1. frame \in [Frames -> [buffer : 0 .. Len(size), size : 0 .. SizeMax]]
      BY PoolFacts
    <3>2. frame \in [Frames -> [buffer : 0 .. Len(size'), size : 0 .. SizeMax]]
      BY <1>1, <1>2, <3>1
    <3>3. [buffer |-> fresh, size |-> requested] \in [buffer : 0 .. Len(size'), size : 0 .. SizeMax]
      BY <1>1, <1>2
    <3> QED
      BY <1>a, <3>2, <3>3
  <2>2. available' \in Seq(DOMAIN size')
    <3>1. available \in Seq(1 .. Len(size)) /\ 1 .. Len(size) \subseteq 1 .. fresh
      BY <1>1, PoolFacts
    <3>2. available \in Seq(1 .. fresh)
      BY <3>1
    <3> QED
      BY <1>a, <1>2, <3>2
  <2> QED
    BY <1>a, <1>0, <1>2, <1>7, <2>1, <2>2 DEF TypeOK, Fields
<1>10. /\ Lent' = Lent \cup {f} /\ LentBytes' = LentBytes + bytes
       /\ Cardinality(Lent') = Cardinality(Lent) + 1
  <2>1. fresh \in 1 .. Len(size')
    BY <1>1, <1>2
  <2> HIDE DEF fresh
  <2> QED
    BY <1>a, <1>0, <1>2, <1>8, <1>9, <2>1, LentGains
<1>11. /\ \A g \in Lent : frame'[g] = frame[g]
       /\ frame'[f] = [buffer |-> fresh, size |-> requested]
  BY <1>a, <1>8, PoolFacts DEF Lent
<1>12. \A g \in Lent : frame[g].buffer \in 1 .. Len(size) /\ frame[g].buffer # fresh
  <2>1. \A g \in Lent : frame[g].buffer \in 1 .. Len(size)
    BY <1>0, LentType DEF LentFacts
  <2> QED
    BY <1>1, <2>1
<1>13. OneOwner'
  <2>1. \A g, h \in Lent' : g # h => frame'[g].buffer # frame'[h].buffer
    <3>1. \A g, h \in Lent : g # h => frame[g].buffer # frame[h].buffer
      BY <1>0 DEF OneOwner
    <3> HIDE DEF fresh
    <3> QED
      BY <1>10, <1>11, <1>12, <3>1
  <2>2. \A i, j \in DOMAIN available' : i # j => available'[i] # available'[j]
    BY <1>a, <1>0 DEF OneOwner
  <2>3. \A g \in Lent' : ~Contains(available', frame'[g].buffer)
    <3>1. \A g \in Lent : ~Contains(available, frame[g].buffer)
      BY <1>0 DEF OneOwner
    <3>2. ~Contains(available, fresh)
      <4>1. \A i \in 1 .. Len(available) : available[i] \in 1 .. Len(size)
        BY PoolFacts
      <4> QED
        BY <1>1, <4>1 DEF Contains
    <3> HIDE DEF fresh
    <3> QED
      BY <1>a, <1>10, <1>11, <3>1, <3>2
  <2> QED
    BY <2>1, <2>2, <2>3 DEF OneOwner
<1>14. CountersAreNat(stats)
  BY PoolFacts
<1>15. LoansAccounted'
  <2>1. stats.alloc \in Nat /\ stats.reuse \in Nat
    BY <1>14 DEF CountersAreNat
  <2>2. stats'.alloc = stats.alloc + 1 /\ stats'.reuse = stats.reuse
    BY <1>7
  <2>3. stats'.alloc + stats'.reuse = stats.alloc + stats.reuse + 1
    BY <2>1, <2>2
  <2> QED
    BY <1>0, <1>7, <1>14, <2>3, LoanCounted
<1>16. Balance'
  <2>1. FreeBytes' \in Nat /\ FreeBytes' + bytes = FreeBytes + bytes
    BY <1>3, <1>4
  <2>2. stats'.available_bytes = FreeBytes'
    BY <1>a, <1>3, <1>4, <1>7
  <2> QED
    BY <1>0, <1>1, <1>7, <1>10, <1>14, <2>1, <2>2, LoanBalanced
<1>17. BudgetHeld'
  <2>1. config'.max # 0 => stats'.owned <= config'.max
    <3>1. stats.owned \in Nat
      BY <1>14 DEF CountersAreNat
    <3>2. config.max \in Nat
      BY PoolFacts, BufferAssumption
    <3>3. config.max # 0 => stats.owned <= config.max /\ bytes <= config.max - stats.owned
      BY DEF Allocates, CanAllocate
    <3>4. config.max # 0 => stats.owned + bytes <= config.max
      BY <1>1, <3>1, <3>2, <3>3
    <3> QED
      BY <1>a, <1>7, <3>4
  <2>2. FrameFits'
    <3>1. \A g \in Lent : frame[g].size <= size[frame[g].buffer]
      BY <1>0 DEF BudgetHeld, FrameFits
    <3>2. ASSUME NEW g \in Lent' PROVE frame'[g].size <= size'[frame'[g].buffer]
      <4>1. CASE g = f
        <5>1. requested <= bytes
          OBVIOUS
        <5> QED
          BY <1>2, <1>11, <4>1, <5>1
      <4>2. CASE g # f
        BY <1>2, <1>10, <1>11, <1>12, <3>1, <4>2
      <4> QED
        BY <4>1, <4>2
    <3> QED
      BY <3>2 DEF FrameFits
  <2> QED
    BY <2>1, <2>2 DEF BudgetHeld
<1> QED
  BY <1>9, <1>13, <1>15, <1>16, <1>17 DEF PoolInv

\* The budget does not allow it: the loan is refused.
LEMMA ExhaustedStep ==
    ASSUME PoolInv, UNCHANGED <<config, size, available, frame>>,
           stats' = Refresh([stats EXCEPT !.exhausted = @ + 1])
    PROVE  PoolInv'
<1> DEFINE s == [stats EXCEPT !.exhausted = stats.exhausted + 1]
<1>0. TypeOK /\ OneOwner /\ LoansAccounted /\ Balance /\ BudgetHeld
  BY DEF PoolInv
<1>1. s \in [Fields -> Nat] /\ \A k \in Fields \ {"exhausted"} : s[k] = stats[k]
  <2>1. stats \in [Fields -> Nat]
    BY PoolFacts
  <2>2. stats.exhausted \in Nat
    BY <2>1 DEF Fields
  <2> QED
    BY <2>1, <2>2 DEF Fields
<1>2. Len(available') \in Nat /\ Bytes(available') \in Nat /\ Bytes(available') = FreeBytes
  <2>1. available' = available /\ Bytes(available) \in Nat /\ Len(available) \in Nat
    BY <1>0, PoolFacts, ListSizesType
  <2> QED
    BY <2>1 DEF FreeBytes
<1>3. stats' = Refresh(s)
  OBVIOUS
<1>4. /\ stats' \in [Fields -> Nat]
      /\ stats'.available_count = Len(available') /\ stats'.available_bytes = Bytes(available')
      /\ \A k \in Fields \ {"available_count", "available_bytes"} : stats'[k] = s[k]
  <2> HIDE DEF s
  <2> QED
    BY <1>1, <1>2, <1>3, RefreshFields
<1> HIDE DEF s
<1>5. /\ stats'.loan = stats.loan /\ stats'.active = stats.active /\ stats'.release = stats.release
      /\ stats'.detached = stats.detached /\ stats'.alloc = stats.alloc /\ stats'.reuse = stats.reuse
      /\ stats'.active_bytes = stats.active_bytes /\ stats'.owned = stats.owned
  BY <1>1, <1>4 DEF Fields
<1>6. TypeOK'
  BY <1>0, <1>4 DEF TypeOK, Fields
<1>7. Lent' = Lent /\ LentBytes' = LentBytes /\ FreeBytes' = FreeBytes /\ frame' = frame
  BY DEF Lent, LentBytes, FreeBytes, Bytes, SizeOf
<1>8. OneOwner' /\ LoansAccounted'
  BY <1>0, <1>5, <1>7 DEF OneOwner, LoansAccounted
<1>9. Balance'
  <2>1. stats'.available_bytes = stats.available_bytes /\ stats'.available_count = stats.available_count
    BY <1>0, <1>2, <1>4 DEF Balance
  <2> QED
    BY <1>0, <1>2, <1>4, <1>5, <1>7, <2>1 DEF Balance
<1>10. BudgetHeld'
  BY <1>0, <1>5, <1>7 DEF BudgetHeld, FrameFits
<1> QED
  BY <1>6, <1>8, <1>9, <1>10 DEF PoolInv

\* What is lent covers the size of each buffer that is lent.
LEMMA LentCovers ==
    ASSUME PoolInv, NEW f \in Lent
    PROVE  stats.active >= 1 /\ stats.active_bytes >= size[frame[f].buffer]
<1>0. TypeOK /\ Balance
  BY DEF PoolInv
<1>1. /\ IsFiniteSet(Lent) /\ LentSizes \in [Lent -> 0 .. SizeMax] /\ Cardinality(Lent) \in Nat
      /\ LentBytes = TotalSize(LentSizes)
  BY <1>0, LentType DEF LentFacts
<1>2. LentBytes >= LentSizes[f]
  <2> DEFINE rest == [g \in Lent \ {f} |-> LentSizes[g]]
  <2>1. TotalSize(LentSizes) = TotalSize(rest) + LentSizes[f]
    BY <1>1, TotalRemove
  <2>2. IsFiniteSet(Lent \ {f}) /\ rest \in [Lent \ {f} -> 0 .. SizeMax]
    BY <1>1, FS_RemoveElement
  <2> HIDE DEF rest
  <2>3. TotalSize(rest) \in Nat
    BY <2>2, TotalType
  <2>4. LentSizes[f] \in Nat
    BY <1>1, BufferAssumption
  <2> QED
    BY <1>1, <2>1, <2>3, <2>4
<1>3. LentSizes[f] = size[frame[f].buffer]
  BY DEF LentSizes
<1>4. Cardinality(Lent) # 0
  BY <1>1, FS_EmptySet
<1> QED
  BY <1>0, <1>1, <1>2, <1>3, <1>4 DEF Balance

\* Buffer b goes back to the free list.
LEMMA ReturnFacts ==
    ASSUME PoolInv, NEW f \in Lent, ReturnBuffer(frame[f].buffer), size' = size
    PROVE  /\ frame[f].buffer \in 1 .. Len(size) /\ size[frame[f].buffer] \in Nat
           /\ available' = Append(available, frame[f].buffer)
           /\ available' \in Seq(DOMAIN size)
           /\ FreeBytes' \in Nat /\ FreeBytes' = FreeBytes + size[frame[f].buffer]
           /\ stats' \in [Fields -> Nat]
           /\ stats'.available_count = Len(available') /\ stats'.available_bytes = FreeBytes'
           /\ stats'.loan = stats.loan /\ stats'.active = stats.active - 1
           /\ stats'.active_bytes = stats.active_bytes - size[frame[f].buffer]
           /\ stats'.alloc = stats.alloc /\ stats'.reuse = stats.reuse
           /\ stats'.release = stats.release + 1 /\ stats'.detached = stats.detached
           /\ stats'.owned = stats.owned
<1> DEFINE b == frame[f].buffer
           s == [stats EXCEPT !.release = stats.release + 1]
<1>0. TypeOK /\ Balance
  BY DEF PoolInv
<1>1. b \in 1 .. Len(size) /\ size[b] \in Nat /\ SizeOf(b) = size[b] /\ b \in DOMAIN size
  <2>1. b \in 1 .. Len(size)
    BY <1>0, LentType DEF LentFacts
  <2> QED
    BY <2>1, PoolFacts DEF SizeOf
<1>2. available' = Append(available, b) /\ stats' = Refresh(Settled(s, size[b]))
  BY <1>1 DEF ReturnBuffer
<1> HIDE DEF b
<1>3. available \in Seq(DOMAIN size) /\ stats \in [Fields -> Nat] /\ Len(available) \in Nat
  BY PoolFacts
<1>4. available' \in Seq(DOMAIN size) /\ Len(available') \in Nat
  BY <1>1, <1>2, <1>3
<1>5. FreeBytes' = Bytes(available') /\ FreeBytes = Bytes(available)
  BY DEF FreeBytes, Bytes, SizeOf
<1>6. Bytes(available') = Bytes(available) + size[b] /\ Bytes(available') \in Nat
  BY <1>0, <1>1, <1>2, <1>3, <1>4, BytesAppend, ListSizesType
<1>7. s \in [Fields -> Nat] /\ s.release = stats.release + 1 /\ \A k \in Fields \ {"release"} : s[k] = stats[k]
  <2>1. stats.release \in Nat
    BY <1>3 DEF Fields
  <2>2. stats.release + 1 \in Nat
    BY <2>1
  <2> QED
    BY <1>3, <2>2 DEF Fields
<1> HIDE DEF s
<1>8. s.active >= 1 /\ s.active_bytes >= size[b]
  <2>1. s.active = stats.active /\ s.active_bytes = stats.active_bytes
    BY <1>7 DEF Fields
  <2> QED
    BY <2>1, LentCovers DEF b
<1>9. /\ Settled(s, size[b]) \in [Fields -> Nat]
      /\ Settled(s, size[b]).active = s.active - 1
      /\ Settled(s, size[b]).active_bytes = s.active_bytes - size[b]
      /\ \A k \in Fields \ {"active", "active_bytes"} : Settled(s, size[b])[k] = s[k]
  BY <1>1, <1>7, <1>8, SettledFields
<1>10. /\ stats' \in [Fields -> Nat]
       /\ stats'.available_count = Len(available')
       /\ stats'.available_bytes = Bytes(available')
       /\ \A k \in Fields \ {"available_count", "available_bytes"} : stats'[k] = Settled(s, size[b])[k]
  BY <1>2, <1>4, <1>6, <1>9, RefreshFields
<1>11. /\ stats'.loan = stats.loan /\ stats'.active = stats.active - 1
       /\ stats'.active_bytes = stats.active_bytes - size[b]
       /\ stats'.alloc = stats.alloc /\ stats'.reuse = stats.reuse
       /\ stats'.release = stats.release + 1 /\ stats'.detached = stats.detached
       /\ stats'.owned = stats.owned
  BY <1>7, <1>9, <1>10 DEF Fields
<1> QED
  BY <1>1, <1>2, <1>4, <1>5, <1>6, <1>10, <1>11 DEF b

\* The books after buffer b went back to the free list.
LEMMA ReturnBooks ==
    ASSUME PoolInv, NEW f \in Lent, ReturnBuffer(frame[f].buffer), size' = size,
           LentBytes' \in Nat, Cardinality(Lent') \in Nat,
           LentBytes' + size[frame[f].buffer] = LentBytes, Cardinality(Lent) = Cardinality(Lent') + 1
    PROVE  LoansAccounted' /\ Balance'
<1> DEFINE bytes == size[frame[f].buffer]
<1>0. LoansAccounted /\ Balance /\ CountersAreNat(stats)
  BY PoolFacts DEF PoolInv
<1>1. /\ bytes \in Nat /\ FreeBytes' \in Nat /\ FreeBytes' = FreeBytes + bytes
      /\ stats'.available_count = Len(available') /\ stats'.available_bytes = FreeBytes'
  BY ReturnFacts
<1>2. /\ stats'.loan = stats.loan /\ stats'.active = stats.active - 1
      /\ stats'.active_bytes = stats.active_bytes - bytes
      /\ stats'.alloc = stats.alloc /\ stats'.reuse = stats.reuse
      /\ stats'.release = stats.release + 1 /\ stats'.detached = stats.detached
      /\ stats'.owned = stats.owned
  BY ReturnFacts
<1>3. /\ stats.release \in Nat /\ stats.detached \in Nat /\ stats.owned \in Nat
      /\ stats.available_bytes \in Nat
  BY <1>0 DEF CountersAreNat
<1> HIDE DEF bytes
<1>4. LoansAccounted'
  <2>1. /\ stats'.release \in Nat /\ stats'.detached \in Nat
        /\ stats'.release + stats'.detached = stats.release + stats.detached + 1
    BY <1>2, <1>3
  <2> QED
    BY <1>0, <1>2, <2>1, SettleCounted
<1>5. Balance'
  <2>1. FreeBytes \in Nat
    BY <1>0, <1>3 DEF Balance
  <2>2. FreeBytes' + 0 = FreeBytes + bytes
    BY <1>1, <2>1
  <2>3. stats'.owned = stats.owned - 0
    BY <1>2, <1>3
  <2>4. LentBytes' + bytes = LentBytes
    BY DEF bytes
  <2> QED
    BY <1>0, <1>1, <1>2, <2>2, <2>3, <2>4, SettleBalanced
<1> QED
  BY <1>4, <1>5

\* Every buffer has still one owner after the buffer of f went back, when what is lent
\* is the buffers of frames other than f, each held once.
LEMMA ReturnOwners ==
    ASSUME PoolInv, NEW f \in Lent, available' = Append(available, frame[f].buffer),
           \A g \in Lent' : \E e \in Lent \ {f} : frame'[g].buffer = frame[e].buffer,
           \A g, h \in Lent' : g # h => frame'[g].buffer # frame'[h].buffer
    PROVE  OneOwner'
<1> DEFINE b == frame[f].buffer
           n == Len(available)
<1>0. OneOwner /\ TypeOK
  BY DEF PoolInv
<1>1. b \in DOMAIN size
  BY <1>0, LentType, PoolFacts DEF LentFacts
<1>2. available \in Seq(DOMAIN size) /\ n \in Nat /\ DOMAIN available = 1 .. n
  BY PoolFacts
<1> HIDE DEF b
<1>3. /\ available' \in Seq(DOMAIN size) /\ DOMAIN available' = 1 .. n + 1 /\ Len(available') = n + 1
      /\ available'[n + 1] = b /\ \A i \in 1 .. n : available'[i] = available[i]
  <2>1. available' = Append(available, b)
    BY DEF b
  <2> QED
    BY <1>1, <1>2, <2>1
<1> HIDE DEF n
<1>4. \A i \in 1 .. n : available[i] # b
  BY <1>0, <1>2 DEF OneOwner, Contains, b, n
<1>5. \A i, j \in 1 .. n : i # j => available[i] # available[j]
  BY <1>0, <1>2 DEF OneOwner
<1>6. \A i, j \in DOMAIN available' : i # j => available'[i] # available'[j]
  <2>1. \A i \in 1 .. n + 1 : i \in 1 .. n \/ i = n + 1
    BY <1>2
  <2> QED
    BY <1>3, <1>4, <1>5, <2>1
<1>7. ASSUME NEW g \in Lent' PROVE ~Contains(available', frame'[g].buffer)
  <2>1. PICK e \in Lent \ {f} : frame'[g].buffer = frame[e].buffer
    OBVIOUS
  <2>2. frame[e].buffer # b
    BY <1>0 DEF OneOwner, b
  <2>3. \A i \in 1 .. n : available[i] # frame[e].buffer
    BY <1>0 DEF OneOwner, Contains, n
  <2>4. \A i \in 1 .. n + 1 : i \in 1 .. n \/ i = n + 1
    BY <1>2
  <2> QED
    BY <1>3, <2>1, <2>2, <2>3, <2>4 DEF Contains
<1> QED
  BY <1>6, <1>7 DEF OneOwner

LEMMA ReleaseStep ==
    ASSUME PoolInv, NEW f \in Frames, Release(f)
    PROVE  PoolInv'
<1>0. TypeOK /\ OneOwner /\ LoansAccounted /\ Balance /\ BudgetHeld
  BY DEF PoolInv
<1>1. /\ f \in Lent /\ config' = config /\ size' = size /\ ReturnBuffer(frame[f].buffer)
      /\ frame' = [frame EXCEPT ![f] = Null]
  BY DEF Release, HasBuffer, Lent, Cleared
<1>2. TypeOK'
  <2>1. available' \in Seq(DOMAIN size') /\ stats' \in [Fields -> Nat]
    BY <1>1, ReturnFacts
  <2>2. frame' \in [Frames -> [buffer : 0 .. Len(size'), size : 0 .. SizeMax]]
    BY <1>1, PoolFacts DEF Null
  <2> QED
    BY <1>0, <1>1, <2>1, <2>2 DEF TypeOK, Fields
<1>3. /\ Lent' = Lent \ {f} /\ LentBytes' + size[frame[f].buffer] = LentBytes
      /\ Cardinality(Lent) = Cardinality(Lent') + 1
  BY <1>0, <1>1, <1>2, LentLoses
<1>4. LentBytes' \in Nat /\ Cardinality(Lent') \in Nat
  <2>1. LentFacts'
    BY <1>2, LentType, PTL
  <2> QED
    BY <2>1 DEF LentFacts
<1>5. LoansAccounted' /\ Balance'
  BY <1>1, <1>3, <1>4, ReturnBooks
<1>6. \A g \in Lent' : g \in Lent \ {f} /\ frame'[g] = frame[g]
  BY <1>1, <1>3, PoolFacts DEF Lent
<1>7. OneOwner'
  <2>1. available' = Append(available, frame[f].buffer)
    BY <1>1 DEF ReturnBuffer
  <2>2. \A g, h \in Lent : g # h => frame[g].buffer # frame[h].buffer
    BY <1>0 DEF OneOwner
  <2>3. \A g, h \in Lent' : g # h => frame'[g].buffer # frame'[h].buffer
    BY <1>6, <2>2
  <2>4. \A g \in Lent' : \E e \in Lent \ {f} : frame'[g].buffer = frame[e].buffer
    BY <1>6
  <2> QED
    BY <1>1, <2>1, <2>3, <2>4, ReturnOwners
<1>8. BudgetHeld'
  <2>1. stats'.owned = stats.owned
    BY <1>1, ReturnFacts
  <2> QED
    BY <1>0, <1>1, <1>6, <2>1 DEF BudgetHeld, FrameFits
<1> QED
  BY <1>2, <1>5, <1>7, <1>8 DEF PoolInv

LEMMA DetachStep ==
    ASSUME PoolInv, NEW f \in Frames, Detach(f)
    PROVE  PoolInv'
<1> DEFINE bytes == size[frame[f].buffer]
           s == [stats EXCEPT !.detached = stats.detached + 1, !.owned = stats.owned - bytes]
<1>0. TypeOK /\ OneOwner /\ LoansAccounted /\ Balance /\ BudgetHeld
  BY DEF PoolInv
<1>1. /\ f \in Lent /\ config' = config /\ size' = size /\ available' = available
      /\ frame' = [frame EXCEPT ![f] = Null]
  BY DEF Detach, HasBuffer, Lent
<1>2. bytes \in Nat /\ SizeOf(frame[f].buffer) = bytes
  <2>1. frame[f].buffer \in 1 .. Len(size)
    BY <1>0, <1>1, LentType DEF LentFacts
  <2> QED
    BY <2>1, PoolFacts DEF SizeOf
<1>3. stats.active >= 1 /\ stats.active_bytes >= bytes
  BY <1>1, LentCovers
<1>4. stats \in [Fields -> Nat] /\ CountersAreNat(stats)
  BY PoolFacts
<1>5. /\ stats.release \in Nat /\ stats.detached \in Nat /\ stats.owned \in Nat
      /\ stats.active \in Nat /\ stats.active_bytes \in Nat /\ stats.available_bytes \in Nat
  BY <1>4 DEF CountersAreNat
<1>6. stats.owned >= bytes
  <2>1. stats.owned = stats.active_bytes + stats.available_bytes
    BY <1>0 DEF Balance
  <2> HIDE DEF bytes
  <2> QED
    BY <1>2, <1>3, <1>5, <2>1
<1>7. stats' = Refresh(Settled(s, bytes))
  <2>1. Less(stats.owned, bytes) = stats.owned - bytes
    BY <1>6 DEF Less
  <2> QED
    BY <1>2, <2>1 DEF Detach
<1>8. /\ s \in [Fields -> Nat] /\ s.detached = stats.detached + 1 /\ s.owned = stats.owned - bytes
      /\ \A k \in Fields \ {"detached", "owned"} : s[k] = stats[k]
  <2>1. stats.detached + 1 \in Nat /\ stats.owned - bytes \in Nat
    BY <1>2, <1>5, <1>6
  <2> HIDE DEF bytes
  <2> QED
    BY <1>4, <2>1 DEF Fields
<1> HIDE DEF bytes, s
<1>9. FreeBytes' = FreeBytes /\ FreeBytes = Bytes(available') /\ FreeBytes \in Nat /\ Len(available') \in Nat
  <2>1. Bytes(available) \in Nat /\ Len(available) \in Nat
    BY <1>0, PoolFacts, ListSizesType
  <2> QED
    BY <1>1, <2>1 DEF FreeBytes, Bytes, SizeOf
<1>10. s.active = stats.active /\ s.active_bytes = stats.active_bytes
  BY <1>8 DEF Fields
<1>11. /\ Settled(s, bytes) \in [Fields -> Nat]
       /\ Settled(s, bytes).active = s.active - 1
       /\ Settled(s, bytes).active_bytes = s.active_bytes - bytes
       /\ \A k \in Fields \ {"active", "active_bytes"} : Settled(s, bytes)[k] = s[k]
  BY <1>2, <1>3, <1>8, <1>10, SettledFields
<1>12. /\ stats' \in [Fields -> Nat]
       /\ stats'.available_count = Len(available')
       /\ stats'.available_bytes = Bytes(available')
       /\ \A k \in Fields \ {"available_count", "available_bytes"} : stats'[k] = Settled(s, bytes)[k]
  BY <1>7, <1>9, <1>11, RefreshFields
<1>13. /\ stats'.loan = stats.loan /\ stats'.active = stats.active - 1
       /\ stats'.active_bytes = stats.active_bytes - bytes
       /\ stats'.alloc = stats.alloc /\ stats'.reuse = stats.reuse
       /\ stats'.release = stats.release /\ stats'.detached = stats.detached + 1
       /\ stats'.owned = stats.owned - bytes
  BY <1>8, <1>11, <1>12 DEF Fields
<1>14. TypeOK'
  <2>1. frame' \in [Frames -> [buffer : 0 .. Len(size'), size : 0 .. SizeMax]]
    BY <1>1, PoolFacts DEF Null
  <2> QED
    BY <1>0, <1>1, <1>12, <2>1 DEF TypeOK, Fields
<1>15. /\ Lent' = Lent \ {f} /\ LentBytes' + bytes = LentBytes
       /\ Cardinality(Lent) = Cardinality(Lent') + 1
  BY <1>0, <1>1, <1>14, LentLoses DEF bytes
<1>16. LentBytes' \in Nat /\ Cardinality(Lent') \in Nat
  <2>1. LentFacts'
    BY <1>14, LentType, PTL
  <2> QED
    BY <2>1 DEF LentFacts
<1>17. LoansAccounted'
  <2>1. /\ stats'.release \in Nat /\ stats'.detached \in Nat
        /\ stats'.release + stats'.detached = stats.release + stats.detached + 1
    BY <1>5, <1>13
  <2> QED
    BY <1>0, <1>4, <1>13, <2>1, SettleCounted
<1>18. Balance'
  <2>1. FreeBytes' \in Nat /\ FreeBytes' + bytes = FreeBytes + bytes
    BY <1>9
  <2>2. stats'.available_count = Len(available') /\ stats'.available_bytes = FreeBytes'
    BY <1>9, <1>12
  <2> QED
    BY <1>0, <1>2, <1>4, <1>13, <1>15, <1>16, <2>1, <2>2, SettleBalanced
<1>19. \A g \in Lent' : g \in Lent \ {f} /\ frame'[g] = frame[g]
  BY <1>1, <1>15, PoolFacts DEF Lent
<1>20. OneOwner'
  BY <1>0, <1>1, <1>19 DEF OneOwner
<1>21. BudgetHeld'
  <2>1. config.max \in Nat
    BY PoolFacts, BufferAssumption
  <2>2. config.max # 0 => stats.owned <= config.max
    BY <1>0 DEF BudgetHeld
  <2>3. config'.max # 0 => stats'.owned <= config'.max
    BY <1>1, <1>2, <1>5, <1>13, <2>1, <2>2
  <2>4. FrameFits'
    BY <1>0, <1>1, <1>19 DEF BudgetHeld, FrameFits
  <2> QED
    BY <2>3, <2>4 DEF BudgetHeld
<1> QED
  BY <1>14, <1>17, <1>18, <1>20, <1>21 DEF PoolInv

LEMMA MoveStep ==
    ASSUME PoolInv, NEW to \in Frames, NEW from \in Frames, Move(to, from)
    PROVE  PoolInv'
<1>0. TypeOK /\ OneOwner /\ LoansAccounted /\ Balance /\ BudgetHeld
  BY DEF PoolInv
<1>1. /\ to # from /\ config' = config /\ size' = size
      /\ frame' = [frame EXCEPT ![to] = frame[from], ![from] = Null]
      /\ to \in Lent => ReturnBuffer(frame[to].buffer)
      /\ to \notin Lent => available' = available /\ stats' = stats
  BY DEF Move, HasBuffer, Lent
<1>2. TypeOK'
  <2>1. available' \in Seq(DOMAIN size') /\ stats' \in [Fields -> Nat]
    BY <1>1, ReturnFacts, PoolFacts
  <2>2. frame' \in [Frames -> [buffer : 0 .. Len(size'), size : 0 .. SizeMax]]
    <3> DEFINE Loans == [buffer : 0 .. Len(size), size : 0 .. SizeMax]
    <3>1. frame \in [Frames -> Loans] /\ Len(size) \in Nat /\ SizeMax \in Nat
      BY PoolFacts
    <3>2. Null \in Loans
      BY <3>1 DEF Null
    <3> HIDE DEF Loans
    <3>3. [frame EXCEPT ![to] = frame[from], ![from] = Null] \in [Frames -> Loans]
      BY <3>1, <3>2
    <3> QED
      BY <1>1, <3>3 DEF Loans
  <2> QED
    BY <1>0, <1>1, <2>1, <2>2 DEF TypeOK, Fields
<1>3. /\ Lent' = {f \in Lent \cup {to} : IF f = to THEN from \in Lent ELSE f # from}
      /\ LentBytes' + (IF to \in Lent THEN size[frame[to].buffer] ELSE 0) = LentBytes
      /\ Cardinality(Lent) = Cardinality(Lent') + (IF to \in Lent THEN 1 ELSE 0)
  BY <1>0, <1>1, <1>2, LentMoves
<1>4. LentBytes' \in Nat /\ Cardinality(Lent') \in Nat
  <2>1. LentFacts'
    BY <1>2, LentType, PTL
  <2> QED
    BY <2>1 DEF LentFacts
\* The frame that held, before the move, what g holds after it.
<1> DEFINE was(g) == IF g = to THEN from ELSE g
<1>5. \A g \in Lent' : was(g) \in Lent \ {to} /\ frame'[g] = frame[was(g)]
  <2>1. frame \in [Frames -> [buffer : 0 .. Len(size), size : 0 .. SizeMax]]
    BY PoolFacts
  <2>2. Lent \subseteq Frames
    BY DEF Lent
  <2> QED
    BY <1>1, <1>3, <2>1, <2>2
<1>6. \A g, h \in Lent' : g # h => was(g) # was(h)
  BY <1>3
<1> HIDE DEF was
<1>7. \A g, h \in Lent' : g # h => frame'[g].buffer # frame'[h].buffer
  <2>1. \A g, h \in Lent : g # h => frame[g].buffer # frame[h].buffer
    BY <1>0 DEF OneOwner
  <2> QED
    BY <1>5, <1>6, <2>1
<1>8. FrameFits'
  BY <1>0, <1>1, <1>5 DEF BudgetHeld, FrameFits
<1>9. CASE to \in Lent
  <2>1. ReturnBuffer(frame[to].buffer)
    BY <1>1, <1>9
  <2>2. LoansAccounted' /\ Balance'
    BY <1>1, <1>3, <1>4, <1>9, <2>1, ReturnBooks
  <2>3. OneOwner'
    <3>1. available' = Append(available, frame[to].buffer)
      BY <2>1 DEF ReturnBuffer
    <3>2. \A g \in Lent' : \E e \in Lent \ {to} : frame'[g].buffer = frame[e].buffer
      BY <1>5
    <3> QED
      BY <1>7, <1>9, <3>1, <3>2, ReturnOwners
  <2>4. stats'.owned = stats.owned
    BY <1>1, <1>9, <2>1, ReturnFacts
  <2>5. BudgetHeld'
    BY <1>0, <1>1, <1>8, <2>4 DEF BudgetHeld
  <2> QED
    BY <1>2, <2>2, <2>3, <2>5 DEF PoolInv
<1>10. CASE to \notin Lent
  <2>1. available' = available /\ stats' = stats
    BY <1>1, <1>10
  <2>2. FreeBytes' = FreeBytes
    BY <1>1, <2>1 DEF FreeBytes, Bytes, SizeOf
  <2>3. LentBytes' = LentBytes /\ Cardinality(Lent') = Cardinality(Lent)
    <3>1. LentBytes' + 0 = LentBytes /\ Cardinality(Lent) = Cardinality(Lent') + 0
      BY <1>3, <1>10
    <3> QED
      BY <1>4, <3>1
  <2>4. LoansAccounted' /\ Balance'
    BY <1>0, <2>1, <2>2, <2>3 DEF LoansAccounted, Balance
  <2>5. OneOwner'
    BY <1>0, <1>5, <1>7, <2>1 DEF OneOwner
  <2>6. BudgetHeld'
    BY <1>0, <1>1, <1>8, <2>1 DEF BudgetHeld
  <2> QED
    BY <1>2, <2>4, <2>5, <2>6 DEF PoolInv
<1> QED
  BY <1>9, <1>10

LEMMA LoanStep ==
    ASSUME PoolInv, NEW f \in Frames, NEW requested \in Sizes, LoanFrame(f, requested)
    PROVE  PoolInv'
<1> DEFINE reusable == {i \in DOMAIN available : size[available[i]] >= requested}
           at == Min(reusable)
           bytes == AllocationSize(requested)
<1>1. requested \in 0 .. SizeMax
  BY BufferAssumption
<1>2. bytes \in requested .. SizeMax
  BY <1>1, PoolFacts, AllocationFits
<1>3. CASE /\ reusable # {}
           /\ frame[f] = Null
           /\ available' = RemoveAt(available, at)
           /\ frame' = [frame EXCEPT ![f] = [buffer |-> available[at], size |-> requested]]
           /\ stats' = Refresh(Loaned([stats EXCEPT !.reuse = @ + 1], size[available[at]]))
           /\ size' = size /\ config' = config
  <2>1. reusable \in SUBSET Nat
    BY PoolFacts
  <2>2. at \in reusable
    <3> HIDE DEF reusable
    <3> QED
      BY <1>3, <2>1, MinMember
  <2>3. at \in 1 .. Len(available) /\ size[available[at]] >= requested
    BY <2>2, PoolFacts
  <2> HIDE DEF at
  <2>4. Reuses(f, requested, at)
    BY <1>3, <2>3 DEF Reuses
  <2> QED
    BY <1>1, <2>3, <2>4, ReuseStep
<1>4. CASE /\ CanAllocate(bytes)
           /\ frame[f] = Null
           /\ size' = Append(size, bytes)
           /\ frame' = [frame EXCEPT ![f] = [buffer |-> Len(size) + 1, size |-> requested]]
           /\ available' = available /\ config' = config
           /\ stats' = Refresh(Loaned([stats EXCEPT !.alloc = @ + 1, !.owned = @ + bytes], bytes))
  <2> HIDE DEF bytes
  <2>1. Allocates(f, requested, bytes)
    BY <1>4 DEF Allocates
  <2> QED
    BY <1>1, <1>2, <2>1, AllocateStep
<1>5. CASE /\ UNCHANGED <<config, size, available, frame>>
           /\ stats' = Refresh([stats EXCEPT !.exhausted = @ + 1])
  BY <1>5, ExhaustedStep
<1> QED
  BY <1>3, <1>4, <1>5 DEF LoanFrame

LEMMA PoolStep == PoolInv /\ [Next]_vars => PoolInv'
<1> SUFFICES ASSUME PoolInv, [Next]_vars PROVE PoolInv'
  OBVIOUS
<1>1. CASE UNCHANGED vars
  BY <1>1 DEF vars, PoolInv, TypeOK, OneOwner, LoansAccounted, Balance, BudgetHeld, FrameFits, FreeBytes,
              Bytes, SizeOf, LentBytes, Lent
<1>2. ASSUME NEW f \in Frames, NEW n \in Sizes, LoanFrame(f, n) PROVE PoolInv'
  BY <1>2, LoanStep
<1>3. ASSUME NEW f \in Frames, Release(f) PROVE PoolInv'
  BY <1>3, ReleaseStep
<1>4. ASSUME NEW f \in Frames, Detach(f) PROVE PoolInv'
  BY <1>4, DetachStep
<1>5. ASSUME NEW f \in Frames, NEW g \in Frames, Move(f, g) PROVE PoolInv'
  BY <1>5, MoveStep
<1> QED
  BY <1>1, <1>2, <1>3, <1>4, <1>5 DEF Next

\* The gauges of the pool are exact for every pool and every number of loans: what it
\* owns is, to the byte, what is lent and what is on the free list, although loan_frame,
\* return_buffer and detach_buffer of src/buffer.cpp only add and subtract, saturating at
\* zero; and no buffer has two owners.
THEOREM BytesAreBalanced == Spec => []BytesBalanced
<1>1. PoolInv => BytesBalanced
  BY DEF PoolInv, Balance, BytesBalanced
<1> QED
  BY <1>1, PoolInit, PoolStep, PTL DEF Spec

\* The budget max_bytes is never exceeded, whatever alignment and buckets do to a request,
\* and a loan always fits in the buffer it was given (can_allocate, allocation_size).
THEOREM BudgetIsHeld == Spec => []BudgetHeld
<1>1. PoolInv => BudgetHeld
  BY DEF PoolInv
<1> QED
  BY <1>1, PoolInit, PoolStep, PTL DEF Spec
=============================================================================
