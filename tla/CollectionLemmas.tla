-------------------------- MODULE CollectionLemmas --------------------------
(***************************************************************************)
(* Facts about sets of naturals and about sequences that the proofs of     *)
(* several components rest on.                                             *)
(***************************************************************************)
EXTENDS Positions, Integers, Sequences, FiniteSets, FiniteSetsExt, FiniteSetTheorems, SequenceTheorems, TLAPS

\* A set of naturals that is not empty has a least element: ordering the naturals by
\* the sets of the smaller ones, this is the well-foundedness of strict inclusion.
LEMMA LeastNatural ==
    ASSUME NEW S \in SUBSET Nat, S # {}
    PROVE  \E x \in S : \A y \in S : x <= y
<1> DEFINE R == StrictSubsetOrdering(Nat)
           Below(x) == 0 .. (x - 1)
           T == {Below(x) : x \in S}
<1>1. IsWellFoundedOn(R, FiniteSubsetsOf(Nat))
  BY FS_StrictSubsetOrderingWellFounded
<1>2. T \subseteq FiniteSubsetsOf(Nat) /\ T # {}
  <2>1. \A x \in S : IsFiniteSet(Below(x)) /\ Below(x) \subseteq Nat
    BY FS_Interval
  <2> QED
    BY <2>1 DEF FiniteSubsetsOf
<1>3. PICK t \in T : \A u \in T : ~(<<u, t>> \in R)
  <2> HIDE DEF R, T
  <2> QED
    BY <1>1, <1>2, WFMin
<1>4. PICK x \in S : t = Below(x)
  BY <1>3
<1>5. ASSUME NEW y \in S, y < x PROVE FALSE
  <2>1. Below(y) \subseteq Below(x) /\ Below(y) # Below(x)
    <3>1. y \in Below(x) /\ y \notin Below(y)
      BY <1>5
    <3>2. Below(y) \subseteq Below(x)
      BY <1>5
    <3> QED
      BY <3>1, <3>2
  <2>2. <<Below(y), Below(x)>> \in R
    BY <2>1 DEF StrictSubsetOrdering
  <2> QED
    BY <1>3, <1>4, <2>2
<1>6. \A y \in S : x <= y
  BY <1>5
<1> QED
  BY <1>4, <1>6

LEMMA MinMember ==
    ASSUME NEW S \in SUBSET Nat, S # {}
    PROVE  Min(S) \in S
BY LeastNatural DEF Min

\* A finite set of naturals that is not empty has a greatest element, and Max is it:
\* the element with the fewest elements above it.
LEMMA MaxMember ==
    ASSUME NEW S \in SUBSET Nat, IsFiniteSet(S), S # {}
    PROVE  Max(S) \in S /\ \A y \in S : Max(S) >= y
<1> DEFINE Above(x) == {y \in S : y > x}
           Counts == {Cardinality(Above(x)) : x \in S}
<1>1. \A x \in S : IsFiniteSet(Above(x)) /\ Cardinality(Above(x)) \in Nat
  <2> TAKE x \in S
  <2>1. Above(x) \in SUBSET S
    OBVIOUS
  <2>2. IsFiniteSet(Above(x))
    BY <2>1, FS_Subset
  <2> QED
    BY <2>2, FS_CardinalityType
<1>2. PICK x \in S : \A y \in S : Cardinality(Above(x)) <= Cardinality(Above(y))
  <2>1. Counts \in SUBSET Nat /\ Counts # {}
    BY <1>1
  <2>2. PICK least \in Counts : \A c \in Counts : least <= c
    <3> HIDE DEF Counts
    <3> QED
      BY <2>1, LeastNatural
  <2> QED
    BY <2>2
<1>3. ASSUME NEW y \in S, y > x PROVE FALSE
  <2>1. Above(y) \in SUBSET Above(x) /\ Above(y) # Above(x)
    <3>1. y \in Above(x) /\ y \notin Above(y)
      BY <1>3
    <3>2. x \in Nat /\ y \in Nat /\ \A z \in S : z \in Nat
      OBVIOUS
    <3>3. \A z \in S : z > y => z > x
      BY <1>3, <3>2
    <3> QED
      BY <3>1, <3>3
  <2>2. Cardinality(Above(y)) <= Cardinality(Above(x)) /\ Cardinality(Above(x)) # Cardinality(Above(y))
    <3>1. IsFiniteSet(Above(x))
      BY <1>1
    <3> HIDE DEF Above
    <3> QED
      BY <2>1, <3>1, FS_Subset
  <2> QED
    BY <1>1, <1>2, <2>2
<1>4. \A y \in S : x >= y
  BY <1>3
<1> QED
  BY <1>2, <1>4 DEF Max

LEMMA MaxOfTwo ==
    ASSUME NEW a \in Int, NEW b \in Int
    PROVE  Max({a, b}) = IF a >= b THEN a ELSE b
<1>1. \E x \in {a, b} : \A y \in {a, b} : x >= y
  OBVIOUS
<1>2. Max({a, b}) \in {a, b} /\ \A y \in {a, b} : Max({a, b}) >= y
  BY <1>1 DEF Max
<1> QED
  BY <1>2

\* Taking the first of a sequence.
LEMMA TailFacts ==
    ASSUME NEW T, NEW s \in Seq(T), s # <<>>
    PROVE  /\ Head(s) \in T /\ Head(s) = s[1] /\ Tail(s) \in Seq(T)
           /\ Len(s) \in Nat \ {0} /\ Len(Tail(s)) = Len(s) - 1
           /\ \A i \in 1 .. Len(s) - 1 : Tail(s)[i] = s[i + 1]
           /\ DOMAIN s = 1 .. Len(s) /\ DOMAIN Tail(s) = 1 .. Len(s) - 1
<1>1. Len(s) \in Nat \ {0} /\ DOMAIN s = 1 .. Len(s)
  BY EmptySeq
<1>2. Head(s) \in T /\ Head(s) = s[1]
  BY <1>1, HeadTailProperties
<1>3. /\ Tail(s) \in Seq(T) /\ Len(Tail(s)) = Len(s) - 1
      /\ \A i \in 1 .. Len(Tail(s)) : Tail(s)[i] = s[i + 1]
  BY <1>1, HeadTailProperties
<1>4. DOMAIN Tail(s) = 1 .. Len(Tail(s))
  BY <1>3, LenProperties
<1> QED
  BY <1>1, <1>2, <1>3, <1>4

\* The elements of a sequence.
ItemsOf(s) == {s[i] : i \in DOMAIN s}

LEMMA ItemsFinite ==
    ASSUME NEW T, NEW s \in Seq(T)
    PROVE  /\ ItemsOf(s) \subseteq T /\ IsFiniteSet(ItemsOf(s))
           /\ Cardinality(ItemsOf(s)) \in Nat /\ Cardinality(ItemsOf(s)) <= Len(s)
<1>1. DOMAIN s = 1 .. Len(s) /\ Len(s) \in Nat /\ \A i \in 1 .. Len(s) : s[i] \in T
  BY LenProperties, ElementOfSeq
<1>2. IsFiniteSet(1 .. Len(s)) /\ Cardinality(1 .. Len(s)) = Len(s)
  <2> DEFINE n == Len(s)
  <2>1. n \in Nat
    BY <1>1
  <2> HIDE DEF n
  <2>2. IsFiniteSet(1 .. n) /\ Cardinality(1 .. n) = n
    BY <2>1, FS_Interval
  <2> QED
    BY <2>2 DEF n
<1>3. s \in Surjection(1 .. Len(s), ItemsOf(s))
  <2>1. s = [i \in 1 .. Len(s) |-> s[i]]
    BY <1>1
  <2> QED
    BY <1>1, <2>1 DEF Surjection, ItemsOf
<1>4. IsFiniteSet(ItemsOf(s)) /\ Cardinality(ItemsOf(s)) <= Cardinality(1 .. Len(s))
  BY <1>2, <1>3, FS_Surjection
<1>5. Cardinality(ItemsOf(s)) \in Nat
  BY <1>4, FS_CardinalityType
<1> QED
  BY <1>1, <1>2, <1>4, <1>5 DEF ItemsOf

LEMMA ItemsAppend ==
    ASSUME NEW T, NEW s \in Seq(T), NEW x \in T
    PROVE  ItemsOf(Append(s, x)) = ItemsOf(s) \cup {x}
<1>1. /\ Len(Append(s, x)) = Len(s) + 1 /\ Len(s) \in Nat /\ Append(s, x)[Len(s) + 1] = x
      /\ \A i \in 1 .. Len(s) : Append(s, x)[i] = s[i]
      /\ DOMAIN s = 1 .. Len(s) /\ DOMAIN Append(s, x) = 1 .. Len(s) + 1
  OBVIOUS
<1>2. \A i \in 1 .. Len(s) + 1 : i \in 1 .. Len(s) \/ i = Len(s) + 1
  BY <1>1
<1>3. ItemsOf(Append(s, x)) \subseteq ItemsOf(s) \cup {x}
  BY <1>1, <1>2 DEF ItemsOf
<1>4. ItemsOf(s) \subseteq ItemsOf(Append(s, x))
  <2>1. \A i \in 1 .. Len(s) : i \in 1 .. Len(s) + 1
    BY <1>1
  <2> QED
    BY <1>1, <2>1 DEF ItemsOf
<1>5. x \in ItemsOf(Append(s, x))
  <2>1. Len(s) + 1 \in 1 .. Len(s) + 1
    BY <1>1
  <2> QED
    BY <1>1, <2>1 DEF ItemsOf
<1> QED
  BY <1>3, <1>4, <1>5

\* No element occurs twice.
NoRepeats(s) == \A i, j \in DOMAIN s : i # j => s[i] # s[j]

LEMMA ItemsTail ==
    ASSUME NEW T, NEW s \in Seq(T), s # <<>>, NoRepeats(s)
    PROVE  /\ ItemsOf(Tail(s)) = ItemsOf(s) \ {s[1]} /\ s[1] \in ItemsOf(s)
           /\ NoRepeats(Tail(s))
<1>1. /\ Len(s) \in Nat \ {0} /\ \A i \in 1 .. Len(s) - 1 : Tail(s)[i] = s[i + 1]
      /\ DOMAIN s = 1 .. Len(s) /\ DOMAIN Tail(s) = 1 .. Len(s) - 1
  BY TailFacts
<1>2. 1 \in 1 .. Len(s) /\ \A i \in 1 .. Len(s) - 1 : i + 1 \in 1 .. Len(s) /\ i + 1 # 1
  BY <1>1
<1>3. ItemsOf(Tail(s)) \subseteq ItemsOf(s) \ {s[1]}
  BY <1>1, <1>2 DEF ItemsOf, NoRepeats
<1>4. ASSUME NEW x \in ItemsOf(s), x # s[1] PROVE x \in ItemsOf(Tail(s))
  <2>1. PICK i \in 1 .. Len(s) : x = s[i]
    BY <1>1 DEF ItemsOf
  <2>2. i - 1 \in 1 .. Len(s) - 1 /\ (i - 1) + 1 = i
    BY <1>1, <1>4, <2>1
  <2>3. Tail(s)[i - 1] = x
    BY <1>1, <2>1, <2>2
  <2> QED
    BY <1>1, <2>2, <2>3 DEF ItemsOf
<1>5. NoRepeats(Tail(s))
  <2>1. ASSUME NEW i \in 1 .. Len(s) - 1, NEW j \in 1 .. Len(s) - 1, i # j PROVE Tail(s)[i] # Tail(s)[j]
    <3>1. i + 1 # j + 1
      BY <2>1
    <3> QED
      BY <1>1, <1>2, <3>1 DEF NoRepeats
  <2> QED
    BY <1>1, <2>1 DEF NoRepeats
<1> QED
  BY <1>1, <1>2, <1>3, <1>4, <1>5 DEF ItemsOf

LEMMA NoRepeatsAppend ==
    ASSUME NEW T, NEW s \in Seq(T), NEW x \in T, NoRepeats(s), x \notin ItemsOf(s)
    PROVE  NoRepeats(Append(s, x))
<1>1. /\ Len(s) \in Nat /\ Append(s, x)[Len(s) + 1] = x
      /\ \A i \in 1 .. Len(s) : Append(s, x)[i] = s[i]
      /\ DOMAIN s = 1 .. Len(s) /\ DOMAIN Append(s, x) = 1 .. Len(s) + 1
  OBVIOUS
<1>2. \A i \in 1 .. Len(s) + 1 : i \in 1 .. Len(s) \/ i = Len(s) + 1
  BY <1>1
<1>3. \A i \in 1 .. Len(s) : s[i] # x
  BY <1>1 DEF ItemsOf
<1> QED
  BY <1>1, <1>2, <1>3 DEF NoRepeats

\* A sequence without repeats has as many elements as places.
LEMMA ItemsCount ==
    ASSUME NEW T, NEW s \in Seq(T), NoRepeats(s)
    PROVE  Cardinality(ItemsOf(s)) = Len(s)
<1>1. DOMAIN s = 1 .. Len(s) /\ Len(s) \in Nat
  BY LenProperties
<1>2. IsFiniteSet(1 .. Len(s)) /\ Cardinality(1 .. Len(s)) = Len(s)
  <2> DEFINE n == Len(s)
  <2>1. n \in Nat
    BY <1>1
  <2> HIDE DEF n
  <2>2. IsFiniteSet(1 .. n) /\ Cardinality(1 .. n) = n
    BY <2>1, FS_Interval
  <2> QED
    BY <2>2 DEF n
<1>3. s = [i \in 1 .. Len(s) |-> s[i]]
  BY <1>1
<1>4. s \in Surjection(1 .. Len(s), ItemsOf(s))
  BY <1>1, <1>3 DEF Surjection, ItemsOf
<1>5. s \in Injection(1 .. Len(s), ItemsOf(s))
  BY <1>1, <1>3 DEF Injection, IsInjective, ItemsOf, NoRepeats
<1> QED
  BY <1>2, <1>4, <1>5, FS_Surjection

\* The first n elements of a sequence and the others.
LEMMA ItemsSplit ==
    ASSUME NEW T, NEW s \in Seq(T), NEW n \in 0 .. Len(s), NoRepeats(s)
    PROVE  LET first == SubSeq(s, 1, n)
               rest == SubSeq(s, n + 1, Len(s))
           IN  /\ ItemsOf(first) \cup ItemsOf(rest) = ItemsOf(s)
               /\ ItemsOf(first) \cap ItemsOf(rest) = {}
               /\ NoRepeats(rest)
<1> DEFINE first == SubSeq(s, 1, n)
           rest == SubSeq(s, n + 1, Len(s))
<1>1. DOMAIN s = 1 .. Len(s) /\ Len(s) \in Nat /\ n \in Nat /\ n <= Len(s)
  BY LenProperties
<1>2. DOMAIN first = 1 .. n /\ \A i \in 1 .. n : first[i] = s[i]
  BY <1>1
<1>3. DOMAIN rest = 1 .. Len(s) - n /\ \A i \in 1 .. Len(s) - n : rest[i] = s[i + n]
  BY <1>1
<1> HIDE DEF first, rest
<1>4. \A i \in 1 .. n : i \in 1 .. Len(s)
  BY <1>1
<1>5. \A i \in 1 .. Len(s) - n : i + n \in 1 .. Len(s) /\ i + n > n
  BY <1>1
<1>6. ItemsOf(first) \subseteq ItemsOf(s) /\ ItemsOf(rest) \subseteq ItemsOf(s)
  BY <1>1, <1>2, <1>3, <1>4, <1>5 DEF ItemsOf
<1>7. ASSUME NEW x \in ItemsOf(s) PROVE x \in ItemsOf(first) \cup ItemsOf(rest)
  <2>1. PICK i \in 1 .. Len(s) : x = s[i]
    BY <1>1 DEF ItemsOf
  <2>2. CASE i <= n
    <3>1. i \in 1 .. n
      BY <1>1, <2>2
    <3> QED
      BY <1>2, <2>1, <3>1 DEF ItemsOf
  <2>3. CASE i > n
    <3>1. i - n \in 1 .. Len(s) - n /\ (i - n) + n = i
      BY <1>1, <2>3
    <3>2. rest[i - n] = x
      BY <1>3, <2>1, <3>1
    <3> QED
      BY <1>3, <3>1, <3>2 DEF ItemsOf
  <2> QED
    BY <1>1, <2>2, <2>3
<1>8. ASSUME NEW x \in ItemsOf(first), x \in ItemsOf(rest) PROVE FALSE
  <2>1. PICK i \in 1 .. n : x = s[i]
    BY <1>2 DEF ItemsOf
  <2>2. PICK j \in 1 .. Len(s) - n : x = s[j + n]
    BY <1>3, <1>8 DEF ItemsOf
  <2>3. i \in 1 .. Len(s) /\ j + n \in 1 .. Len(s) /\ i # j + n
    BY <1>1, <1>4, <1>5
  <2> QED
    BY <1>1, <2>1, <2>2, <2>3 DEF NoRepeats
<1>9. ASSUME NEW i \in 1 .. Len(s) - n, NEW j \in 1 .. Len(s) - n, i # j PROVE rest[i] # rest[j]
  <2>1. i + n # j + n
    BY <1>1, <1>9
  <2> QED
    BY <1>1, <1>3, <1>5, <2>1 DEF NoRepeats
<1>10. NoRepeats(rest)
  BY <1>3, <1>9 DEF NoRepeats
<1> QED
  BY <1>6, <1>7, <1>8, <1>10 DEF first, rest

\* The elements grow.
Ascending(s) == \A i, j \in DOMAIN s : i < j => s[i] < s[j]

LEMMA AscendingFacts ==
    ASSUME NEW s \in Seq(Nat), Ascending(s)
    PROVE  /\ NoRepeats(s)
           /\ s # <<>> => Ascending(Tail(s)) /\ \A x \in ItemsOf(s) : s[1] <= x
           /\ \A x \in Nat : (\A y \in ItemsOf(s) : y < x) => Ascending(Append(s, x))
<1>1. DOMAIN s = 1 .. Len(s) /\ Len(s) \in Nat /\ \A i \in 1 .. Len(s) : s[i] \in Nat
  BY LenProperties, ElementOfSeq
<1>2. NoRepeats(s)
  <2>1. ASSUME NEW i \in 1 .. Len(s), NEW j \in 1 .. Len(s), i # j PROVE s[i] # s[j]
    <3>1. s[i] \in Nat /\ s[j] \in Nat /\ (i < j \/ j < i)
      BY <1>1, <2>1
    <3>2. s[i] < s[j] \/ s[j] < s[i]
      BY <1>1, <3>1 DEF Ascending
    <3> QED
      BY <3>1, <3>2
  <2> QED
    BY <1>1, <2>1 DEF NoRepeats
<1>3. ASSUME s # <<>> PROVE Ascending(Tail(s)) /\ \A x \in ItemsOf(s) : s[1] <= x
  <2>1. /\ \A i \in 1 .. Len(s) - 1 : Tail(s)[i] = s[i + 1]
        /\ DOMAIN Tail(s) = 1 .. Len(s) - 1 /\ Len(s) # 0
    BY <1>3, TailFacts
  <2>2. ASSUME NEW i \in 1 .. Len(s) - 1, NEW j \in 1 .. Len(s) - 1, i < j PROVE Tail(s)[i] < Tail(s)[j]
    <3>1. i + 1 \in 1 .. Len(s) /\ j + 1 \in 1 .. Len(s) /\ i + 1 < j + 1
      BY <1>1, <2>2
    <3> QED
      BY <1>1, <2>1, <3>1 DEF Ascending
  <2>3. ASSUME NEW i \in 1 .. Len(s) PROVE s[1] <= s[i]
    <3>1. 1 \in 1 .. Len(s) /\ s[1] \in Nat /\ s[i] \in Nat /\ (i = 1 \/ 1 < i)
      BY <1>1, <2>1
    <3>2. 1 < i => s[1] < s[i]
      BY <1>1, <3>1 DEF Ascending
    <3> QED
      BY <3>1, <3>2
  <2> QED
    BY <1>1, <2>1, <2>2, <2>3 DEF Ascending, ItemsOf
<1>4. ASSUME NEW x \in Nat, \A y \in ItemsOf(s) : y < x PROVE Ascending(Append(s, x))
  <2>1. /\ Append(s, x)[Len(s) + 1] = x /\ \A i \in 1 .. Len(s) : Append(s, x)[i] = s[i]
        /\ DOMAIN Append(s, x) = 1 .. Len(s) + 1
    OBVIOUS
  <2>2. \A i \in 1 .. Len(s) : s[i] < x
    BY <1>1, <1>4 DEF ItemsOf
  <2>3. ASSUME NEW i \in 1 .. Len(s) + 1, NEW j \in 1 .. Len(s) + 1, i < j
        PROVE  Append(s, x)[i] < Append(s, x)[j]
    <3>1. i \in 1 .. Len(s) /\ (j \in 1 .. Len(s) \/ j = Len(s) + 1)
      BY <1>1, <2>3
    <3> QED
      BY <1>1, <2>1, <2>2, <2>3, <3>1 DEF Ascending
  <2> QED
    BY <2>1, <2>3 DEF Ascending
<1> QED
  BY <1>2, <1>3, <1>4

\* The positions of a sequence are met from left to right, each once.
LEMMA PlacesInOrder ==
    ASSUME NEW n \in Nat, NEW places \in SUBSET (1 .. n)
    PROVE  /\ IsFiniteSet(places) /\ Cardinality(places) \in 0 .. n
           /\ \A i \in 1 .. Cardinality(places) : NthPlace(places, i) \in places
           /\ \A i, j \in 1 .. Cardinality(places) : i < j => NthPlace(places, i) < NthPlace(places, j)
           /\ \A k \in places : \E i \in 1 .. Cardinality(places) : NthPlace(places, i) = k
<1> DEFINE Upto(k) == {j \in places : j <= k}
           C(k) == Cardinality(Upto(k))
           N == Cardinality(places)
<1>1. /\ IsFiniteSet(places) /\ N \in 0 .. n
      /\ \A k \in Nat : IsFiniteSet(Upto(k)) /\ C(k) \in Nat
  <2>1. IsFiniteSet(1 .. n) /\ Cardinality(1 .. n) = n
    BY FS_Interval
  <2>2. IsFiniteSet(places) /\ N <= n /\ N \in Nat
    BY <2>1, FS_Subset, FS_CardinalityType
  <2>3. \A k \in Nat : IsFiniteSet(Upto(k))
    BY <2>2, FS_Subset
  <2>4. \A k \in Nat : C(k) \in Nat
    BY <2>3, FS_CardinalityType
  <2> QED
    BY <2>2, <2>3, <2>4
<1>0. \A k \in places : k \in Int /\ 1 <= k /\ k <= n
  OBVIOUS
<1>2. C(0) = 0 /\ C(n) = N
  <2>0. \A k \in places : ~(k <= 0) /\ k <= n
    BY <1>0
  <2>1. Upto(0) = {}
    BY <2>0, Zenon
  <2>2. Upto(n) = places
    BY <2>0
  <2> QED
    BY <2>1, <2>2, FS_EmptySet
<1>3. ASSUME NEW k \in Nat, NEW l \in Nat, k <= l PROVE C(k) <= C(l)
  <2>1. \A j \in Int : j <= k => j <= l
    BY <1>3
  <2>2. Upto(k) \subseteq Upto(l)
    BY <1>0, <2>1
  <2> HIDE DEF Upto
  <2> QED
    BY <1>1, <2>2, FS_Subset
<1>4. ASSUME NEW k \in Nat PROVE C(k + 1) = IF k + 1 \in places THEN C(k) + 1 ELSE C(k)
  <2>1. CASE k + 1 \in places
    <3>0. \A j \in Int : (j <= k + 1 <=> j <= k \/ j = k + 1) /\ ~(k + 1 <= k)
      OBVIOUS
    <3>1. Upto(k + 1) = Upto(k) \cup {k + 1} /\ k + 1 \notin Upto(k)
      BY <1>0, <2>1, <3>0
    <3>2. \A x : x \notin Upto(k) => Cardinality(Upto(k) \cup {x}) = C(k) + 1
      <4> HIDE DEF Upto
      <4> QED
        BY <1>1, FS_AddElement
    <3> QED
      BY <2>1, <3>1, <3>2
  <2>2. CASE k + 1 \notin places
    <3>0. \A j \in Int : j # k + 1 => (j <= k + 1 <=> j <= k)
      OBVIOUS
    <3>1. Upto(k + 1) = Upto(k)
      BY <1>0, <2>2, <3>0
    <3> QED
      BY <2>2, <3>1
  <2> QED
    BY <2>1, <2>2
<1>5. ASSUME NEW k \in Nat, NEW l \in places, k < l PROVE C(k) < C(l)
  <2>1. l - 1 \in Nat /\ k <= l - 1 /\ (l - 1) + 1 = l
    BY <1>5
  <2>2. C(k) <= C(l - 1)
    BY <1>3, <2>1
  <2>3. C((l - 1) + 1) = C(l - 1) + 1
    BY <1>4, <2>1
  <2>4. C(l) = C(l - 1) + 1 /\ C(k) \in Nat /\ C(l - 1) \in Nat
    BY <1>1, <2>1, <2>3
  <2> HIDE DEF C
  <2> QED
    BY <2>2, <2>4
<1>6. ASSUME NEW i \in 1 .. N PROVE \E k \in places : C(k) = i
  <2> DEFINE R == {k \in Nat : k <= n /\ C(k) >= i}
  <2>1. n \in R /\ R \in SUBSET Nat
    BY <1>1, <1>2
  <2>2. PICK k \in R : \A l \in R : k <= l
    <3> HIDE DEF R
    <3> QED
      BY <2>1, LeastNatural
  <2>3. k \in Nat /\ k <= n /\ C(k) >= i
    BY <2>2
  <2>4. k # 0
    BY <1>2, <2>3
  <2>5. k - 1 \in Nat /\ k - 1 <= n /\ (k - 1) + 1 = k
    BY <2>3, <2>4
  <2>6. k - 1 \notin R
    <3>1. k - 1 \in R => k <= k - 1
      BY <2>2
    <3>2. ~(k <= k - 1)
      BY <2>3
    <3> QED
      BY <3>1, <3>2
  <2>7. ~(C(k - 1) >= i) /\ C(k - 1) \in Nat
    BY <1>1, <2>5, <2>6
  <2>8. C((k - 1) + 1) = IF (k - 1) + 1 \in places THEN C(k - 1) + 1 ELSE C(k - 1)
    BY <1>4, <2>5
  <2>9. C(k) = IF k \in places THEN C(k - 1) + 1 ELSE C(k - 1)
    BY <2>5, <2>8
  <2> HIDE DEF C
  <2> QED
    BY <2>3, <2>7, <2>9
<1>7. ASSUME NEW i \in 1 .. N PROVE NthPlace(places, i) \in places /\ C(NthPlace(places, i)) = i
  BY <1>6 DEF NthPlace
<1>8. \A k \in places : k \in Nat
  OBVIOUS
<1>9. ASSUME NEW i \in 1 .. N, NEW j \in 1 .. N, i < j PROVE NthPlace(places, i) < NthPlace(places, j)
  <2>1. NthPlace(places, i) \in Nat /\ NthPlace(places, j) \in Nat
    BY <1>7, <1>8
  <2>2. NthPlace(places, j) <= NthPlace(places, i) => C(NthPlace(places, j)) <= C(NthPlace(places, i))
    BY <1>3, <2>1
  <2>3. C(NthPlace(places, i)) = i /\ C(NthPlace(places, j)) = j
    BY <1>7
  <2> HIDE DEF C
  <2> QED
    BY <1>9, <2>1, <2>2, <2>3
<1>10. ASSUME NEW k \in places PROVE \E i \in 1 .. N : NthPlace(places, i) = k
  <2>1. C(0) < C(k) /\ C(k) <= C(n)
    BY <1>3, <1>5, <1>8
  <2>2. C(k) \in 1 .. N
    <3>1. C(k) \in Nat
      BY <1>1, <1>8
    <3> HIDE DEF C
    <3> QED
      BY <1>1, <1>2, <2>1, <3>1
  <2> DEFINE l == NthPlace(places, C(k))
  <2>3. l \in places /\ C(l) = C(k)
    BY <1>7, <2>2
  <2>4. ~(l < k) /\ ~(k < l)
    <3>1. (l < k => C(l) < C(k)) /\ (k < l => C(k) < C(l))
      BY <1>5, <1>8, <2>3
    <3>2. C(l) \in Nat /\ C(k) \in Nat
      BY <1>1, <1>8, <2>3
    <3> HIDE DEF C, l
    <3> QED
      BY <2>3, <3>1, <3>2
  <2>5. l = k
    <3>1. l \in Nat /\ k \in Nat
      BY <1>8, <2>3
    <3> HIDE DEF l
    <3> QED
      BY <2>4, <3>1
  <2> QED
    BY <2>2, <2>5
<1> QED
  BY <1>1, <1>7, <1>9, <1>10

\* What is left of a sequence when the entries at some places are kept.
LEMMA EntriesFacts ==
    ASSUME NEW T, NEW s \in Seq(T), NEW places \in SUBSET DOMAIN s
    PROVE  LET t == EntriesAt(s, places)
           IN  /\ t \in Seq(T) /\ Len(t) \in 0 .. Len(s) /\ Len(t) = Cardinality(places)
               /\ ItemsOf(t) = {s[i] : i \in places}
               /\ T \subseteq Nat /\ Ascending(s) => Ascending(t)
               /\ places = DOMAIN s => t = s
<1> DEFINE n == Len(s)
           t == EntriesAt(s, places)
           N == Cardinality(places)
           At(i) == NthPlace(places, i)
<1>1. n \in Nat /\ DOMAIN s = 1 .. n /\ places \in SUBSET (1 .. n) /\ \A i \in 1 .. n : s[i] \in T
  BY LenProperties, ElementOfSeq
<1> HIDE DEF n
<1>2. /\ IsFiniteSet(places) /\ N \in 0 .. n
      /\ \A i \in 1 .. N : At(i) \in places
      /\ \A i, j \in 1 .. N : i < j => At(i) < At(j)
      /\ \A k \in places : \E i \in 1 .. N : At(i) = k
  BY <1>1, PlacesInOrder
<1>3. t = [i \in 1 .. N |-> s[At(i)]]
  BY DEF EntriesAt
<1> HIDE DEF N, At, t
<1>4. \A i \in 1 .. N : t[i] = s[At(i)] /\ t[i] \in T
  BY <1>1, <1>2, <1>3
<1>5. t \in Seq(T) /\ Len(t) = N /\ DOMAIN t = 1 .. N
  BY <1>2, <1>3, <1>4
<1>6. ItemsOf(t) = {s[i] : i \in places}
  <2>1. \A i \in DOMAIN t : At(i) \in places /\ t[i] = s[At(i)]
    BY <1>2, <1>4, <1>5
  <2>2. \A k \in places : \E i \in DOMAIN t : t[i] = s[k]
    BY <1>2, <1>4, <1>5
  <2>3. \A x : x \in ItemsOf(t) <=> \E i \in DOMAIN t : t[i] = x
    BY DEF ItemsOf
  <2>4. \A x : x \in {s[i] : i \in places} <=> \E k \in places : s[k] = x
    OBVIOUS
  <2>5. \A x : x \in ItemsOf(t) <=> x \in {s[i] : i \in places}
    BY <2>1, <2>2, <2>3, <2>4, Zenon
  <2> QED
    BY <2>5
<1>7. ASSUME T \subseteq Nat, Ascending(s) PROVE Ascending(t)
  BY <1>1, <1>2, <1>4, <1>5, <1>7 DEF Ascending
<1>8. ASSUME places = DOMAIN s PROVE t = s
  <2>1. N = n
    BY <1>1, <1>8, FS_Interval DEF N
  <2>2. ASSUME NEW i \in 1 .. n PROVE At(i) = i
    <3> DEFINE Wrong == {k \in 1 .. n : At(k) # k}
    <3>1. ASSUME Wrong # {} PROVE FALSE
      <4>1. Wrong \in SUBSET Nat
        OBVIOUS
      <4>2. PICK k \in Wrong : \A l \in Wrong : k <= l
        <5> HIDE DEF Wrong
        <5> QED
          BY <3>1, <4>1, LeastNatural
      <4>3. k \in 1 .. n /\ At(k) # k /\ \A l \in 1 .. n : l < k => At(l) = l
        BY <4>2
      <4>4. At(k) \in 1 .. n
        BY <1>1, <1>2, <2>1, <4>3
      <4>5. ~(At(k) < k)
        <5>1. SUFFICES ASSUME At(k) < k PROVE FALSE
          OBVIOUS
        <5>2. At(At(k)) = At(k) /\ At(At(k)) < At(k)
          BY <1>2, <2>1, <4>3, <4>4, <5>1
        <5> QED
          BY <4>4, <5>2
      <4>6. PICK j \in 1 .. n : At(j) = k
        BY <1>1, <1>2, <1>8, <2>1, <4>3
      <4>7. CASE j < k
        BY <4>3, <4>6, <4>7
      <4>8. CASE k < j
        <5>1. At(k) < k
          BY <1>2, <2>1, <4>3, <4>6, <4>8
        <5> QED
          BY <4>5, <5>1
      <4>9. CASE j = k
        BY <4>3, <4>6, <4>9
      <4> QED
        BY <4>3, <4>6, <4>7, <4>8, <4>9
    <3> QED
      BY <3>1
  <2>3. \A i \in 1 .. n : t[i] = s[i]
    BY <1>4, <2>1, <2>2
  <2>4. t = [i \in 1 .. n |-> t[i]] /\ s = [i \in 1 .. n |-> s[i]]
    BY <1>1, <1>3, <1>5, <2>1
  <2> QED
    BY <2>3, <2>4
<1> QED
  BY <1>1, <1>2, <1>5, <1>6, <1>7, <1>8 DEF t, n, N

LEMMA ItemsType ==
    ASSUME NEW T, NEW s \in Seq(T)
    PROVE  ItemsOf(s) \subseteq T
<1>1. \A i \in DOMAIN s : s[i] \in T
  BY LenProperties, ElementOfSeq
<1> QED
  BY <1>1 DEF ItemsOf

\* A sequence after another.
LEMMA ConcatFacts ==
    ASSUME NEW T, NEW s \in Seq(T), NEW t \in Seq(T)
    PROVE  /\ s \o t \in Seq(T) /\ Len(s \o t) = Len(s) + Len(t) /\ Len(s) \in Nat /\ Len(t) \in Nat
           /\ ItemsOf(s \o t) = ItemsOf(s) \cup ItemsOf(t)
           /\ /\ T \subseteq Nat /\ Ascending(s) /\ Ascending(t)
              /\ \A x \in ItemsOf(s), y \in ItemsOf(t) : x < y
              => Ascending(s \o t)
<1> DEFINE u == s \o t
<1>1. Len(s) \in Nat /\ DOMAIN s = 1 .. Len(s) /\ Len(t) \in Nat /\ DOMAIN t = 1 .. Len(t)
  BY LenProperties
<1>2. /\ u \in Seq(T) /\ Len(u) = Len(s) + Len(t) /\ DOMAIN u = 1 .. Len(s) + Len(t)
      /\ \A i \in 1 .. Len(s) + Len(t) : u[i] = IF i <= Len(s) THEN s[i] ELSE t[i - Len(s)]
  BY <1>1
<1> HIDE DEF u
<1>3. ASSUME NEW i \in DOMAIN u
      PROVE  (i \in DOMAIN s /\ u[i] = s[i]) \/ (i - Len(s) \in DOMAIN t /\ i > Len(s) /\ u[i] = t[i - Len(s)])
  BY <1>1, <1>2
<1>4. /\ \A i \in DOMAIN s : i \in DOMAIN u /\ u[i] = s[i]
      /\ \A i \in DOMAIN t : i + Len(s) \in DOMAIN u /\ u[i + Len(s)] = t[i]
  BY <1>1, <1>2
<1>5. ItemsOf(u) = ItemsOf(s) \cup ItemsOf(t)
  <2>1. ItemsOf(u) \subseteq ItemsOf(s) \cup ItemsOf(t)
    BY <1>3 DEF ItemsOf
  <2>2. ItemsOf(s) \subseteq ItemsOf(u)
    BY <1>4 DEF ItemsOf
  <2>3. ItemsOf(t) \subseteq ItemsOf(u)
    BY <1>4 DEF ItemsOf
  <2> QED
    BY <2>1, <2>2, <2>3
<1>6. ASSUME T \subseteq Nat, Ascending(s), Ascending(t), \A x \in ItemsOf(s), y \in ItemsOf(t) : x < y
      PROVE  Ascending(u)
  <2> SUFFICES ASSUME NEW i \in DOMAIN u, NEW j \in DOMAIN u, i < j PROVE u[i] < u[j]
    BY DEF Ascending
  <2>1. CASE j \in DOMAIN s /\ u[j] = s[j]
    <3>1. i \in DOMAIN s /\ u[i] = s[i]
      BY <1>1, <1>3, <2>1
    <3> QED
      BY <1>6, <2>1, <3>1 DEF Ascending
  <2>2. CASE j - Len(s) \in DOMAIN t /\ u[j] = t[j - Len(s)]
    <3>1. CASE i \in DOMAIN s /\ u[i] = s[i]
      BY <1>6, <2>2, <3>1 DEF ItemsOf
    <3>2. CASE i - Len(s) \in DOMAIN t /\ u[i] = t[i - Len(s)]
      <4>1. i - Len(s) < j - Len(s)
        BY <1>1, <1>2
      <4> QED
        BY <1>6, <2>2, <3>2, <4>1 DEF Ascending
    <3> QED
      BY <1>3, <3>1, <3>2
  <2> QED
    BY <1>3, <2>1, <2>2
<1> QED
  BY <1>1, <1>2, <1>5, <1>6 DEF u

\* The first k elements of an ascending sequence, and the others, which are greater.
LEMMA AscendingSplit ==
    ASSUME NEW T \in SUBSET Nat, NEW s \in Seq(T), NEW k \in 0 .. Len(s), Ascending(s)
    PROVE  LET first == SubSeq(s, 1, k)
               rest == SubSeq(s, k + 1, Len(s))
           IN  /\ first \in Seq(T) /\ Len(first) = k /\ Ascending(first)
               /\ rest \in Seq(T) /\ Len(rest) = Len(s) - k /\ Ascending(rest)
               /\ ItemsOf(first) \cup ItemsOf(rest) = ItemsOf(s)
               /\ \A x \in ItemsOf(first), y \in ItemsOf(rest) : x < y
<1> DEFINE first == SubSeq(s, 1, k)
           rest == SubSeq(s, k + 1, Len(s))
<1>1. /\ DOMAIN s = 1 .. Len(s) /\ Len(s) \in Nat /\ k \in Nat /\ k <= Len(s) /\ s \in Seq(Nat)
      /\ \A i \in 1 .. Len(s) : s[i] \in T
  <2>1. DOMAIN s = 1 .. Len(s) /\ Len(s) \in Nat /\ \A i \in 1 .. Len(s) : s[i] \in T
    BY LenProperties, ElementOfSeq
  <2>2. k \in Nat /\ k <= Len(s)
    BY <2>1
  <2>3. \A i \in 1 .. Len(s) : s[i] \in Nat
    BY <2>1
  <2>4. s = [i \in 1 .. Len(s) |-> s[i]]
    BY <2>1
  <2>5. s \in Seq(Nat)
    BY <2>1, <2>3, <2>4
  <2> QED
    BY <2>1, <2>2, <2>5
<1>2. Len(first) = k /\ DOMAIN first = 1 .. k /\ \A i \in 1 .. k : first[i] = s[i]
  BY <1>1
<1>3. /\ Len(rest) = Len(s) - k /\ DOMAIN rest = 1 .. Len(s) - k
      /\ \A i \in 1 .. Len(s) - k : rest[i] = s[i + k]
  <2>1. Len(s) \in Nat /\ k \in Nat /\ k <= Len(s)
    BY <1>1
  <2> QED
    BY <2>1
<1>4. first \in Seq(T) /\ rest \in Seq(T)
  BY <1>1
<1>5. ItemsOf(first) \cup ItemsOf(rest) = ItemsOf(s)
  <2>1. NoRepeats(s)
    BY <1>1, AscendingFacts
  <2> QED
    BY <2>1, ItemsSplit
<1> HIDE DEF first, rest
<1>6. \A i \in 1 .. k : i \in 1 .. Len(s)
  BY <1>1
<1>7. \A i \in 1 .. Len(s) - k : i + k \in 1 .. Len(s) /\ i + k > k
  BY <1>1
<1>8. Ascending(first)
  BY <1>1, <1>2, <1>6 DEF Ascending
<1>9. Ascending(rest)
  <2> SUFFICES ASSUME NEW i \in 1 .. Len(s) - k, NEW j \in 1 .. Len(s) - k, i < j PROVE rest[i] < rest[j]
    BY <1>3 DEF Ascending
  <2>1. i + k < j + k
    BY <1>1
  <2> QED
    BY <1>1, <1>3, <1>7, <2>1 DEF Ascending
<1>10. ASSUME NEW x \in ItemsOf(first), NEW y \in ItemsOf(rest) PROVE x < y
  <2>1. PICK i \in 1 .. k : x = s[i]
    BY <1>2 DEF ItemsOf
  <2>2. PICK j \in 1 .. Len(s) - k : y = s[j + k]
    BY <1>3 DEF ItemsOf
  <2>3. i \in 1 .. Len(s) /\ j + k \in 1 .. Len(s) /\ i < j + k
    BY <1>1, <1>6, <1>7
  <2> QED
    BY <1>1, <2>1, <2>2, <2>3 DEF Ascending
<1> QED
  BY <1>2, <1>3, <1>4, <1>5, <1>8, <1>9, <1>10 DEF first, rest
\* Two entries of what is left of a sequence were in it, in the same order.
LEMMA EntriesPlaces ==
    ASSUME NEW T, NEW s \in Seq(T), NEW places \in SUBSET DOMAIN s,
           NEW i \in DOMAIN EntriesAt(s, places), NEW j \in DOMAIN EntriesAt(s, places), i < j
    PROVE  \E k, l \in places : k < l /\ EntriesAt(s, places)[i] = s[k] /\ EntriesAt(s, places)[j] = s[l]
<1> DEFINE n == Len(s)
           N == Cardinality(places)
           At(k) == NthPlace(places, k)
<1>1. n \in Nat /\ DOMAIN s = 1 .. n /\ places \in SUBSET (1 .. n)
  BY LenProperties
<1> HIDE DEF n
<1>2. /\ \A k \in 1 .. N : At(k) \in places
      /\ \A k, l \in 1 .. N : k < l => At(k) < At(l)
  BY <1>1, PlacesInOrder
<1>3. EntriesAt(s, places) = [k \in 1 .. N |-> s[At(k)]]
  BY DEF EntriesAt
<1> HIDE DEF N, At
<1>4. i \in 1 .. N /\ j \in 1 .. N /\ EntriesAt(s, places)[i] = s[At(i)] /\ EntriesAt(s, places)[j] = s[At(j)]
  BY <1>3
<1> QED
  BY <1>2, <1>4

\* Where the entries of a concatenation come from.
LEMMA ConcatEntries ==
    ASSUME NEW T, NEW s \in Seq(T), NEW t \in Seq(T)
    PROVE  /\ Len(s \o t) = Len(s) + Len(t) /\ DOMAIN (s \o t) = 1 .. Len(s) + Len(t)
           /\ \A k \in 1 .. Len(s) + Len(t) : (s \o t)[k] = IF k <= Len(s) THEN s[k] ELSE t[k - Len(s)]
OBVIOUS

\* Two entries of a sequence after another: both of the first, one of each, or both of the second.
LEMMA ConcatPlaces ==
    ASSUME NEW T, NEW s \in Seq(T), NEW t \in Seq(T),
           NEW i \in DOMAIN (s \o t), NEW j \in DOMAIN (s \o t), i < j
    PROVE  \/ /\ i \in DOMAIN s /\ j \in DOMAIN s
              /\ (s \o t)[i] = s[i] /\ (s \o t)[j] = s[j]
           \/ (s \o t)[i] \in ItemsOf(s) /\ (s \o t)[j] \in ItemsOf(t)
           \/ \E k, l \in DOMAIN t : k < l /\ (s \o t)[i] = t[k] /\ (s \o t)[j] = t[l]
<1> DEFINE u == s \o t
<1>1. Len(s) \in Nat /\ DOMAIN s = 1 .. Len(s) /\ Len(t) \in Nat /\ DOMAIN t = 1 .. Len(t)
  BY LenProperties
<1>2. /\ u \in Seq(T) /\ Len(u) = Len(s) + Len(t) /\ DOMAIN u = 1 .. Len(s) + Len(t)
      /\ \A k \in 1 .. Len(s) + Len(t) : u[k] = IF k <= Len(s) THEN s[k] ELSE t[k - Len(s)]
  BY <1>1
<1>3. i \in DOMAIN u /\ j \in DOMAIN u
  OBVIOUS
<1> HIDE DEF u
<1>4. CASE j <= Len(s)
  <2>1. i \in DOMAIN s /\ j \in DOMAIN s /\ u[i] = s[i] /\ u[j] = s[j]
    BY <1>1, <1>2, <1>3, <1>4
  <2> QED
    BY <2>1 DEF u
<1>5. CASE i <= Len(s) /\ j > Len(s)
  <2>1. i \in DOMAIN s /\ u[i] = s[i] /\ j - Len(s) \in DOMAIN t /\ u[j] = t[j - Len(s)]
    BY <1>1, <1>2, <1>3, <1>5
  <2>2. u[i] \in ItemsOf(s) /\ u[j] \in ItemsOf(t)
    BY <2>1 DEF ItemsOf
  <2> QED
    BY <2>2 DEF u
<1>6. CASE i > Len(s)
  <2>1. /\ i - Len(s) \in DOMAIN t /\ u[i] = t[i - Len(s)] /\ j - Len(s) \in DOMAIN t /\ u[j] = t[j - Len(s)]
        /\ i - Len(s) < j - Len(s)
    BY <1>1, <1>2, <1>3, <1>6
  <2>2. \E k, l \in DOMAIN t : k < l /\ u[i] = t[k] /\ u[j] = t[l]
    BY <2>1
  <2> QED
    BY <2>2 DEF u
<1> QED
  BY <1>1, <1>2, <1>3, <1>4, <1>5, <1>6

LEMMA DisjointUnion ==
    ASSUME NEW S, NEW A, NEW B, IsFiniteSet(A), IsFiniteSet(B), S = A \cup B, A \cap B = {}
    PROVE  IsFiniteSet(S) /\ Cardinality(S) = Cardinality(A) + Cardinality(B)
<1>1. Cardinality(A) \in Nat /\ Cardinality(B) \in Nat /\ Cardinality(A \cap B) = 0
  BY FS_CardinalityType, FS_EmptySet
<1>2. IsFiniteSet(A \cup B) /\ Cardinality(A \cup B) = Cardinality(A) + Cardinality(B) - Cardinality(A \cap B)
  BY FS_Union
<1>3. Cardinality(A \cup B) = Cardinality(A) + Cardinality(B)
  BY <1>1, <1>2
<1> QED
  BY <1>2, <1>3

\* How many entries of a sequence are in a set.
Tally(s, V) == Cardinality({i \in DOMAIN s : s[i] \in V})

LEMMA TallyFacts ==
    ASSUME NEW T, NEW s \in Seq(T), NEW V, NEW W
    PROVE  /\ Tally(s, V) \in 0 .. Len(s) /\ Len(s) \in Nat
           /\ IsFiniteSet({i \in DOMAIN s : s[i] \in V})
           /\ ItemsOf(s) \subseteq V => Tally(s, V) = Len(s)
           /\ ItemsOf(s) \cap V = {} => Tally(s, V) = 0
           /\ ItemsOf(s) \cap V = ItemsOf(s) \cap W => Tally(s, V) = Tally(s, W)
<1> DEFINE n == Len(s)
           P(X) == {i \in DOMAIN s : s[i] \in X}
<1>1. n \in Nat /\ DOMAIN s = 1 .. n
  BY LenProperties
<1> HIDE DEF n
<1>2. IsFiniteSet(1 .. n) /\ Cardinality(1 .. n) = n
  BY <1>1, FS_Interval
<1>3. ASSUME NEW X PROVE IsFiniteSet(P(X)) /\ Cardinality(P(X)) \in Nat /\ Cardinality(P(X)) <= n
  <2>1. P(X) \in SUBSET (1 .. n)
    BY <1>1
  <2> HIDE DEF P
  <2> QED
    BY <1>2, <2>1, FS_Subset, FS_CardinalityType
<1>5. ASSUME ItemsOf(s) \subseteq V PROVE Cardinality(P(V)) = n
  <2>1. P(V) = 1 .. n
    BY <1>1, <1>5 DEF ItemsOf
  <2> HIDE DEF P
  <2> QED
    BY <1>2, <2>1
<1>6. ASSUME ItemsOf(s) \cap V = {} PROVE Cardinality(P(V)) = 0
  <2>1. P(V) = {}
    BY <1>6 DEF ItemsOf
  <2> HIDE DEF P
  <2> QED
    BY <2>1, FS_EmptySet
<1>7. ASSUME ItemsOf(s) \cap V = ItemsOf(s) \cap W PROVE Cardinality(P(V)) = Cardinality(P(W))
  <2>1. P(V) = P(W)
    <3>1. \A i \in DOMAIN s : s[i] \in ItemsOf(s)
      BY DEF ItemsOf
    <3>2. \A x \in ItemsOf(s) : x \in V <=> x \in W
      BY <1>7
    <3> QED
      BY <3>1, <3>2
  <2> HIDE DEF P
  <2> QED
    BY <2>1
<1>8. Tally(s, V) = Cardinality(P(V)) /\ Tally(s, W) = Cardinality(P(W))
  BY DEF Tally
<1>10. IsFiniteSet(P(V)) /\ Cardinality(P(V)) \in Nat /\ Cardinality(P(V)) <= n
  BY <1>3
<1>11. Tally(s, V) \in 0 .. Len(s) /\ Len(s) \in Nat
  <2> HIDE DEF P
  <2> QED
    BY <1>1, <1>8, <1>10 DEF n
<1>12. IsFiniteSet({i \in DOMAIN s : s[i] \in V})
  BY <1>10
<1> HIDE DEF P
<1> QED
  BY <1>5, <1>6, <1>7, <1>8, <1>11, <1>12 DEF n

LEMMA TallySplit ==
    ASSUME NEW T, NEW s \in Seq(T), NEW V, NEW A, NEW B, V = A \cup B, A \cap B = {}
    PROVE  /\ Tally(s, V) = Tally(s, A) + Tally(s, B)
           /\ Tally(s, V) \in Nat /\ Tally(s, A) \in Nat /\ Tally(s, B) \in Nat
<1> DEFINE P == {i \in DOMAIN s : s[i] \in V}
           Q == {i \in DOMAIN s : s[i] \in A}
           R == {i \in DOMAIN s : s[i] \in B}
<1>1. P = Q \cup R /\ Q \cap R = {}
  OBVIOUS
<1>2. IsFiniteSet(Q) /\ IsFiniteSet(R)
  BY TallyFacts
<1>3. Tally(s, V) = Cardinality(P) /\ Tally(s, A) = Cardinality(Q) /\ Tally(s, B) = Cardinality(R)
  BY DEF Tally
<1> HIDE DEF P, Q, R
<1>4. IsFiniteSet(P) /\ Cardinality(P) = Cardinality(Q) + Cardinality(R)
  BY <1>1, <1>2, DisjointUnion
<1>5. Cardinality(P) \in Nat /\ Cardinality(Q) \in Nat /\ Cardinality(R) \in Nat
  BY <1>2, <1>4, FS_CardinalityType
<1> QED
  BY <1>3, <1>4, <1>5

\* What is kept of a sequence, and a sequence after another.
LEMMA TallyEntries ==
    ASSUME NEW T, NEW s \in Seq(T), NEW places \in SUBSET DOMAIN s, NEW V
    PROVE  Tally(EntriesAt(s, places), V) = Cardinality({i \in places : s[i] \in V})
<1> DEFINE n == Len(s)
           N == Cardinality(places)
           At(k) == NthPlace(places, k)
           S == {k \in 1 .. N : s[At(k)] \in V}
           R == {i \in places : s[i] \in V}
           f == [k \in S |-> At(k)]
<1>1. n \in Nat /\ DOMAIN s = 1 .. n /\ places \in SUBSET (1 .. n)
  BY LenProperties
<1> HIDE DEF n
<1>2. /\ N \in 0 .. n
      /\ \A k \in 1 .. N : At(k) \in places
      /\ \A k, l \in 1 .. N : k < l => At(k) < At(l)
      /\ \A i \in places : \E k \in 1 .. N : At(k) = i
  BY <1>1, PlacesInOrder
<1>3. EntriesAt(s, places) = [k \in 1 .. N |-> s[At(k)]]
  BY DEF EntriesAt
<1>4. Tally(EntriesAt(s, places), V) = Cardinality(S)
  <2> HIDE DEF N, At
  <2> QED
    BY <1>3 DEF Tally
<1> HIDE DEF N, At
<1>5. IsFiniteSet(S)
  <2>1. S \in SUBSET (1 .. N) /\ N \in Int
    BY <1>1, <1>2
  <2>2. IsFiniteSet(1 .. N)
    BY <2>1, FS_Interval
  <2> HIDE DEF S
  <2> QED
    BY <2>1, <2>2, FS_Subset
<1>6. \A k \in S : At(k) \in R
  BY <1>2
<1>7. \A i \in R : \E k \in S : At(k) = i
  BY <1>2
<1>8. ASSUME NEW k \in S, NEW l \in S, k # l PROVE At(k) # At(l)
  <2>1. k \in 1 .. N /\ l \in 1 .. N /\ N \in Nat /\ At(k) \in Nat /\ At(l) \in Nat
    BY <1>1, <1>2
  <2>2. k < l \/ l < k
    BY <1>8, <2>1
  <2> QED
    BY <1>2, <2>1, <2>2
<1> HIDE DEF S, R
<1>9. f \in Bijection(S, R)
  <2>1. f \in [S -> R]
    BY <1>6
  <2>2. f \in Surjection(S, R)
    BY <1>7, <2>1 DEF Surjection
  <2>3. f \in Injection(S, R)
    BY <1>8, <2>1 DEF Injection, IsInjective
  <2> QED
    BY <2>2, <2>3 DEF Bijection
<1>10. ExistsBijection(S, R)
  <2> HIDE DEF f
  <2> QED
    BY <1>9 DEF ExistsBijection
<1>11. Cardinality(R) = Cardinality(S)
  BY <1>5, <1>10, FS_Bijection
<1> QED
  BY <1>4, <1>11 DEF R

LEMMA TallyConcat ==
    ASSUME NEW T, NEW s \in Seq(T), NEW t \in Seq(T), NEW V
    PROVE  Tally(s \o t, V) = Tally(s, V) + Tally(t, V)
<1> DEFINE u == s \o t
           n == Len(s)
           P == {i \in DOMAIN s : s[i] \in V}
           Q == {i \in DOMAIN t : t[i] \in V}
           Shifted == {i \in DOMAIN u : i > n /\ u[i] \in V}
           All == {i \in DOMAIN u : u[i] \in V}
           f == [i \in Q |-> i + n]
<1>1. Len(s) \in Nat /\ DOMAIN s = 1 .. Len(s) /\ Len(t) \in Nat /\ DOMAIN t = 1 .. Len(t)
  BY LenProperties
<1>2. /\ DOMAIN u = 1 .. Len(s) + Len(t)
      /\ \A k \in 1 .. Len(s) + Len(t) : u[k] = IF k <= Len(s) THEN s[k] ELSE t[k - Len(s)]
  BY <1>1
<1> HIDE DEF u
<1>3. All = P \cup Shifted /\ P \cap Shifted = {}
  <2>1. \A i \in DOMAIN u : i > n \/ (i \in DOMAIN s /\ u[i] = s[i])
    BY <1>1, <1>2
  <2>2. \A i \in DOMAIN s : i \in DOMAIN u /\ u[i] = s[i] /\ ~(i > n)
    BY <1>1, <1>2
  <2> QED
    BY <2>1, <2>2
<1>4. \A i \in Q : i + n \in Shifted
  BY <1>1, <1>2
<1>5. \A k \in Shifted : \E i \in Q : i + n = k
  <2> SUFFICES ASSUME NEW k \in Shifted PROVE \E i \in Q : i + n = k
    OBVIOUS
  <2>1. k \in 1 .. Len(s) + Len(t) /\ k > Len(s) /\ u[k] \in V
    BY <1>2
  <2>2. k - n \in DOMAIN t /\ u[k] = t[k - n] /\ (k - n) + n = k
    BY <1>1, <1>2, <2>1
  <2>3. k - n \in Q
    BY <2>1, <2>2
  <2> QED
    BY <2>2, <2>3
<1>6. \A i, j \in Q : i # j => i + n # j + n
  BY <1>1
<1>7. IsFiniteSet(P) /\ IsFiniteSet(Q)
  BY TallyFacts
<1> HIDE DEF Q, Shifted, All, P
<1>8. ExistsBijection(Q, Shifted)
  <2>1. f \in [Q -> Shifted]
    BY <1>4
  <2>2. f \in Surjection(Q, Shifted)
    BY <1>5, <2>1 DEF Surjection
  <2>3. f \in Injection(Q, Shifted)
    BY <1>6, <2>1 DEF Injection, IsInjective
  <2>4. f \in Bijection(Q, Shifted)
    BY <2>2, <2>3 DEF Bijection
  <2> HIDE DEF f
  <2> QED
    BY <2>4 DEF ExistsBijection
<1>9. IsFiniteSet(Shifted) /\ Cardinality(Shifted) = Cardinality(Q)
  BY <1>7, <1>8, FS_Bijection
<1>10. Cardinality(All) = Cardinality(P) + Cardinality(Shifted)
  BY <1>3, <1>7, <1>9, DisjointUnion
<1> QED
  BY <1>9, <1>10 DEF Tally, All, P, Q, u

\* A set of entries of a sequence without repeats has as many members as places.
LEMMA TallyOnce ==
    ASSUME NEW T, NEW s \in Seq(T), NoRepeats(s), NEW V \in SUBSET ItemsOf(s)
    PROVE  IsFiniteSet(V) /\ Tally(s, V) = Cardinality(V)
<1> DEFINE P == {i \in DOMAIN s : s[i] \in V}
           f == [i \in P |-> s[i]]
<1>1. IsFiniteSet(P)
  BY TallyFacts
<1>2. \A x \in V : \E i \in P : s[i] = x
  BY DEF ItemsOf
<1>3. \A i, j \in P : i # j => s[i] # s[j]
  BY DEF NoRepeats
<1>4. \A i \in P : s[i] \in V
  OBVIOUS
<1> HIDE DEF P
<1>5. f \in [P -> V]
  BY <1>4
<1>6. f \in Surjection(P, V)
  BY <1>2, <1>5 DEF Surjection
<1>7. f \in Injection(P, V)
  BY <1>3, <1>5 DEF Injection, IsInjective
<1> HIDE DEF f
<1>8. IsFiniteSet(V) /\ Cardinality(V) = Cardinality(P)
  BY <1>1, <1>6, <1>7, FS_Surjection
<1> QED
  BY <1>8 DEF Tally, P

=============================================================================
