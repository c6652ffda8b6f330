------------------------------ MODULE ListFacts ------------------------------
(***************************************************************************)
(* What the proofs about vectors of cells and of players need: induction   *)
(* in the form of sets of naturals (the library's induction takes a        *)
(* predicate as parameter), what erasing from a vector leaves, and sums    *)
(* of naturals over finite sets.                                           *)
(***************************************************************************)
EXTENDS Integers, SequencesExt, SequenceTheorems, FiniteSetTheorems,
        WellFoundedInduction, TLAPS

\* A set of naturals that is not empty has a least element.
LEMMA LeastNat ==
  ASSUME NEW T \in SUBSET Nat, T # {}
  PROVE  \E n \in T : \A m \in T : n <= m
  <1> DEFINE R == {ss \in Nat \X Nat : ss[1] < ss[2]}
  <1>1. IsWellFoundedOn(R, Nat)
    BY NatLessThanWellFounded DEF OpToRel
  <1>2. PICK n \in T : \A m \in T : ~(<<m, n>> \in R)
    <2> HIDE DEF R
    <2> QED
      BY <1>1, WFMin
  <1>3. ASSUME NEW m \in T
        PROVE  n <= m
    <2>1. ~(m < n)
      BY <1>2
    <2> QED
      BY <2>1
  <1> QED
    BY <1>3

\* Induction: a set with 0 and the successors of its naturals has all naturals.
LEMMA NatsBySet ==
  ASSUME NEW S, 0 \in S, \A n \in Nat : n \in S => n + 1 \in S
  PROVE  Nat \subseteq S
  <1> SUFFICES ASSUME NEW k \in Nat, k \notin S
               PROVE  FALSE
    OBVIOUS
  <1>1. PICK n \in Nat \ S : \A m \in Nat \ S : n <= m
    BY LeastNat
  <1>2. n # 0
    OBVIOUS
  <1>3. n - 1 \in Nat /\ n - 1 \in S
    BY <1>1, <1>2
  <1> QED
    BY <1>3

\* Erasing moves the later elements one place down.
LEMMA RemoveAtFacts ==
  ASSUME NEW X, NEW s \in Seq(X), NEW i \in 1 .. Len(s)
  PROVE  /\ RemoveAt(s, i) \in Seq(X)
         /\ Len(RemoveAt(s, i)) = Len(s) - 1
         /\ \A k \in 1 .. Len(s) - 1 : RemoveAt(s, i)[k] = IF k < i THEN s[k] ELSE s[k + 1]
  <1> DEFINE a == SubSeq(s, 1, i - 1)
             b == SubSeq(s, i + 1, Len(s))
  <1>1. Len(s) \in Nat /\ \A k \in 1 .. Len(s) : s[k] \in X
    BY LenProperties, ElementOfSeq
  <1>2. /\ a \in Seq(X) /\ Len(a) = i - 1
        /\ \A k \in 1 .. i - 1 : a[k] = s[k]
    <2>1. /\ a \in Seq(X)
          /\ Len(a) = IF 1 <= i - 1 THEN (i - 1) - 1 + 1 ELSE 0
          /\ \A k \in 1 .. (i - 1) - 1 + 1 : a[k] = s[1 + k - 1]
      BY <1>1, SubSeqProperties
    <2> QED
      BY <1>1, <2>1
  <1>3. /\ b \in Seq(X) /\ Len(b) = Len(s) - i
        /\ \A k \in 1 .. Len(s) - i : b[k] = s[i + k]
    <2>1. /\ b \in Seq(X)
          /\ Len(b) = IF i + 1 <= Len(s) THEN Len(s) - (i + 1) + 1 ELSE 0
          /\ \A k \in 1 .. Len(s) - (i + 1) + 1 : b[k] = s[(i + 1) + k - 1]
      BY <1>1, SubSeqProperties
    <2> QED
      BY <1>1, <2>1
  <1> DEFINE c == RemoveAt(s, i)
  <1>4. /\ c \in Seq(X) /\ Len(c) = Len(a) + Len(b)
        /\ \A k \in 1 .. Len(a) + Len(b) : c[k] = IF k <= Len(a) THEN a[k] ELSE b[k - Len(a)]
    <2>1. c = a \o b
      BY DEF RemoveAt
    <2> HIDE DEF a, b, c
    <2>2. /\ a \o b \in Seq(X) /\ Len(a \o b) = Len(a) + Len(b)
          /\ \A k \in 1 .. Len(a) + Len(b) :
               (a \o b)[k] = IF k <= Len(a) THEN a[k] ELSE b[k - Len(a)]
      BY <1>2, <1>3, ConcatProperties
    <2> QED
      BY <2>1, <2>2, Zenon
  <1> HIDE DEF a, b, c
  <1>5. ASSUME NEW k \in 1 .. Len(s) - 1
        PROVE  c[k] = IF k < i THEN s[k] ELSE s[k + 1]
    <2>0. /\ i \in Nat /\ Len(a) + Len(b) = Len(s) - 1
          /\ k \in 1 .. Len(a) + Len(b)
      BY <1>1, <1>2, <1>3
    <2>1. CASE k < i
      <3>1. k <= Len(a) /\ k \in 1 .. i - 1
        BY <1>2, <2>0, <2>1
      <3>2. c[k] = a[k]
        BY <1>4, <2>0, <3>1
      <3>3. a[k] = s[k]
        BY <1>2, <3>1
      <3> QED
        BY <2>1, <3>2, <3>3
    <2>2. CASE k >= i
      <3> DEFINE j == k - (i - 1)
      <3>1. j \in 1 .. Len(s) - i /\ i + j = k + 1 /\ k - Len(a) = j
        BY <1>1, <1>2, <2>2
      <3>2. c[k] = b[j]
        <4>1. ~(k <= Len(a))
          BY <1>2, <2>0, <2>2
        <4>2. c[k] = b[k - Len(a)]
          BY <1>4, <2>0, <4>1
        <4> QED
          BY <3>1, <4>2
      <3>3. b[j] = s[i + j]
        BY <1>3, <3>1
      <3> QED
        BY <1>1, <2>2, <3>1, <3>2, <3>3
    <2> QED
      BY <1>1, <2>1, <2>2
  <1>6. c \in Seq(X) /\ Len(c) = Len(s) - 1
    BY <1>1, <1>2, <1>3, <1>4
  <1> QED
    BY <1>5, <1>6 DEF c

\* A function on an interval from one is a sequence.
LEMMA FunctionIsSeq ==
  ASSUME NEW n \in Nat, NEW S, NEW f \in [1 .. n -> S]
  PROVE  f \in Seq(S) /\ Len(f) = n /\ DOMAIN f = 1 .. n
  <1>1. f \in Seq(S)
    BY SeqDef
  <1>2. Len(f) \in Nat /\ DOMAIN f = 1 .. Len(f) /\ DOMAIN f = 1 .. n
    BY <1>1, LenProperties
  <1>3. ASSUME NEW m \in Nat, 1 .. m = 1 .. n
        PROVE  m = n
    <2>1. m >= 1 => m \in 1 .. n
      BY <1>3
    <2>2. n >= 1 => n \in 1 .. m
      BY <1>3
    <2> QED
      BY <2>1, <2>2
  <1> QED
    BY <1>1, <1>2, <1>3

\* A set of naturals can be listed in ascending order.
LEMMA Listing ==
  ASSUME NEW m \in Nat, NEW S \in SUBSET (1 .. m)
  PROVE  /\ IsFiniteSet(S) /\ Cardinality(S) \in Nat
         /\ \E o \in [1 .. Cardinality(S) -> S] : \A j, k \in DOMAIN o : j < k => o[j] < o[k]
  <1> DEFINE Lists(T) == \E o \in [1 .. Cardinality(T) -> T] :
                           \A j, k \in DOMAIN o : j < k => o[j] < o[k]
             Good == {n \in Nat : \A T \in SUBSET (1 .. n) : Lists(T)}
  <1>1. ASSUME NEW n \in Nat, NEW T \in SUBSET (1 .. n)
        PROVE  IsFiniteSet(T) /\ Cardinality(T) \in Nat
    <2>1. IsFiniteSet(1 .. n)
      BY FS_Interval
    <2>2. IsFiniteSet(T)
      BY <2>1, FS_Subset
    <2> QED
      BY <2>2, FS_CardinalityType
  <1>2. 0 \in Good
    <2>1. \A T \in SUBSET (1 .. 0) : T = {}
      OBVIOUS
    <2>2. Lists({})
      <3>1. 1 .. Cardinality({}) = {}
        BY FS_EmptySet
      <3> DEFINE o == [x \in {} |-> x]
      <3>2. o \in [1 .. Cardinality({}) -> {}] /\ DOMAIN o = {}
        BY <3>1
      <3> QED
        BY <3>2
    <2> HIDE DEF Lists
    <2> QED
      BY <2>1, <2>2
  <1>3. ASSUME NEW n \in Nat, n \in Good
        PROVE  n + 1 \in Good
    <2>1. SUFFICES ASSUME NEW T \in SUBSET (1 .. n + 1)
                   PROVE  Lists(T)
      <3> HIDE DEF Lists
      <3> QED
        OBVIOUS
    <2>2. CASE n + 1 \notin T
      <3>1. T \in SUBSET (1 .. n)
        BY <2>2
      <3> QED
        BY <1>3, <3>1
    <2>3. CASE n + 1 \in T
      <3> DEFINE U == T \ {n + 1}
                 c == Cardinality(U)
      <3>1. U \in SUBSET (1 .. n)
        OBVIOUS
      <3>2. PICK o \in [1 .. c -> U] : \A j, k \in DOMAIN o : j < k => o[j] < o[k]
        BY <1>3, <3>1
      <3>3. c \in Nat /\ Cardinality(T) = c + 1
        <4>1. IsFiniteSet(U) /\ c \in Nat
          BY <1>1, <3>1
        <4>2. U \cup {n + 1} = T
          BY <2>3
        <4> QED
          BY <4>1, <4>2, FS_AddElement
      <3> DEFINE q == [k \in 1 .. c + 1 |-> IF k = c + 1 THEN n + 1 ELSE o[k]]
      <3> HIDE DEF U, c
      <3>4. /\ DOMAIN q = 1 .. c + 1 /\ q[c + 1] = n + 1
            /\ \A k \in 1 .. c : q[k] = o[k] /\ o[k] \in U /\ o[k] \in 1 .. n
        <4>1. DOMAIN q = 1 .. c + 1
          OBVIOUS
        <4>2. c + 1 \in 1 .. c + 1
          BY <3>3
        <4>3. q[c + 1] = n + 1
          BY <4>2
        <4>4. ASSUME NEW k \in 1 .. c
              PROVE  q[k] = o[k] /\ o[k] \in U /\ o[k] \in 1 .. n
          <5>1. k \in 1 .. c + 1 /\ k # c + 1
            BY <3>3
          <5> QED
            BY <3>1, <3>2, <5>1
        <4> QED
          BY <4>1, <4>3, <4>4
      <3>5. U \subseteq T
        BY DEF U
      <3>6. q \in [1 .. c + 1 -> T]
        <4>1. ASSUME NEW k \in 1 .. c + 1
              PROVE  q[k] \in T
          <5>1. k = c + 1 \/ k \in 1 .. c
            BY <3>3
          <5> QED
            BY <2>3, <3>4, <3>5, <5>1
        <4> QED
          BY <4>1
      <3> HIDE DEF q
      <3>7. ASSUME NEW j \in DOMAIN q, NEW k \in DOMAIN q, j < k
            PROVE  q[j] < q[k]
        <4>1. j \in 1 .. c
          BY <3>3, <3>4, <3>7
        <4>2. CASE k = c + 1
          BY <3>4, <4>1, <4>2
        <4>3. CASE k \in 1 .. c
          BY <3>2, <3>4, <3>7, <4>1, <4>3
        <4> QED
          BY <3>3, <3>4, <4>2, <4>3
      <3> QED
        BY <3>3, <3>6, <3>7
    <2> QED
      BY <2>2, <2>3
  <1>4. m \in Good
    <2> HIDE DEF Good
    <2> QED
      BY <1>2, <1>3, NatsBySet
  <1> QED
    BY <1>1, <1>4

-----------------------------------------------------------------------------
(* Sums over finite sets                                                   *)

\* The element the sum over s takes first, and the equation it is defined by.
First(s) == CHOOSE x \in s : TRUE
SumStep(f, g, s) == IF s = {} THEN 0 ELSE f[First(s)] + g[s \ {First(s)}]
Partial(f, S) == CHOOSE g : g = [s \in SUBSET S |-> SumStep(f, g, s)]

LEMMA SumByParts ==
  ASSUME NEW f, NEW S
  PROVE  SumFunctionOnSet(f, S) = Partial(f, S)[S]
  BY DEF SumFunctionOnSet, FoldFunctionOnSet, MapThenFoldSet, Partial, SumStep, First

LEMMA FirstIn ==
  ASSUME NEW s, s # {}
  PROVE  First(s) \in s
  BY DEF First

\* One element less.
LEMMA OneLess ==
  ASSUME NEW s, IsFiniteSet(s), NEW x \in s
  PROVE  /\ IsFiniteSet(s \ {x}) /\ Cardinality(s \ {x}) \in Nat
         /\ Cardinality(s) = Cardinality(s \ {x}) + 1
  <1>1. IsFiniteSet(s \ {x})
    BY FS_RemoveElement
  <1>2. Cardinality(s \ {x}) = Cardinality(s) - 1 /\ Cardinality(s) \in Nat
    BY FS_RemoveElement, FS_CardinalityType
  <1>3. Cardinality(s \ {x}) \in Nat
    BY <1>1, FS_CardinalityType
  <1> QED
    BY <1>1, <1>2, <1>3

LEMMA PartialDefined ==
  ASSUME NEW f, NEW S, IsFiniteSet(S)
  PROVE  \A s \in SUBSET S : Partial(f, S)[s] = SumStep(f, Partial(f, S), s)
  <1> DEFINE Level(n) == {s \in SUBSET S : Cardinality(s) <= n}
             Defined(D) == \E g : g = [s \in D |-> SumStep(f, g, s)]
             Good == {n \in Nat : Defined(Level(n))}
  <1>1. \A s \in SUBSET S : IsFiniteSet(s) /\ Cardinality(s) \in Nat
    BY FS_Subset, FS_CardinalityType
  <1>2. 0 \in Good
    <2> DEFINE g == [s \in Level(0) |-> 0]
    <2>1. \A s \in Level(0) : s = {}
      BY <1>1, FS_EmptySet
    <2>2. \A s \in Level(0) : SumStep(f, g, s) = 0
      BY <2>1 DEF SumStep
    <2>3. g = [s \in Level(0) |-> SumStep(f, g, s)]
      BY <2>2
    <2> QED
      BY <2>3
  <1>3. ASSUME NEW n \in Nat, n \in Good
        PROVE  n + 1 \in Good
    <2>1. PICK g : g = [s \in Level(n) |-> SumStep(f, g, s)]
      BY <1>3
    <2> DEFINE h == [s \in Level(n + 1) |-> SumStep(f, g, s)]
    <2>2. Level(n) \subseteq Level(n + 1)
      BY <1>1
    <2>3. ASSUME NEW s \in Level(n + 1), s # {}
          PROVE  s \ {First(s)} \in Level(n)
      BY <1>1, <2>3, FirstIn, OneLess
    <2> HIDE DEF Level
    <2>4. \A t \in Level(n) : h[t] = g[t]
      BY <2>1, <2>2
    <2>5. \A s \in Level(n + 1) : SumStep(f, g, s) = SumStep(f, h, s)
      BY <2>3, <2>4 DEF SumStep
    <2>6. h = [s \in Level(n + 1) |-> SumStep(f, h, s)]
      BY <2>5
    <2>7. Defined(Level(n + 1))
      BY <2>6
    <2> HIDE DEF Defined
    <2> QED
      BY <2>7
  <1>4. Defined(SUBSET S)
    <2>1. Cardinality(S) \in Good
      <3>1. Cardinality(S) \in Nat
        BY <1>1
      <3> HIDE DEF Good
      <3> QED
        BY <1>2, <1>3, <3>1, NatsBySet
    <2>2. Level(Cardinality(S)) = SUBSET S
      BY FS_Subset, FS_CardinalityType
    <2> HIDE DEF Level
    <2> QED
      BY <2>1, <2>2
  <1>5. Partial(f, S) = [s \in SUBSET S |-> SumStep(f, Partial(f, S), s)]
    BY <1>4 DEF Partial
  <1> QED
    BY <1>5

\* Parts of different wholes agree.
LEMMA PartialsAgree ==
  ASSUME NEW f, NEW S, IsFiniteSet(S), NEW T \in SUBSET S
  PROVE  Partial(f, S)[T] = Partial(f, T)[T]
  <1> DEFINE Good == {n \in Nat : \A s \in SUBSET T :
                        Cardinality(s) = n => Partial(f, S)[s] = Partial(f, T)[s]}
  <1>1. \A s \in SUBSET T : IsFiniteSet(s) /\ Cardinality(s) \in Nat /\ s \in SUBSET S
    BY FS_Subset, FS_CardinalityType
  <1>2. ASSUME NEW s \in SUBSET T
        PROVE  /\ Partial(f, S)[s] = SumStep(f, Partial(f, S), s)
               /\ Partial(f, T)[s] = SumStep(f, Partial(f, T), s)
    BY <1>1, PartialDefined
  <1>3. 0 \in Good
    <2>1. ASSUME NEW s \in SUBSET T, Cardinality(s) = 0
          PROVE  Partial(f, S)[s] = Partial(f, T)[s]
      <3>1. s = {}
        BY <1>1, <2>1, FS_EmptySet
      <3> QED
        BY <1>2, <3>1 DEF SumStep
    <2> QED
      BY <2>1
  <1>4. ASSUME NEW n \in Nat, n \in Good
        PROVE  n + 1 \in Good
    <2>1. ASSUME NEW s \in SUBSET T, Cardinality(s) = n + 1
          PROVE  Partial(f, S)[s] = Partial(f, T)[s]
      <3>1. s # {}
        BY <2>1, FS_EmptySet
      <3> DEFINE t == s \ {First(s)}
      <3>2. t \in SUBSET T /\ Cardinality(t) = n
        BY <1>1, <2>1, <3>1, FirstIn, OneLess
      <3>3. Partial(f, S)[t] = Partial(f, T)[t]
        BY <1>4, <3>2
      <3> QED
        BY <1>2, <3>1, <3>3 DEF SumStep
    <2> QED
      BY <2>1
  <1>5. Cardinality(T) \in Good
    <2>1. Cardinality(T) \in Nat
      BY <1>1
    <2> HIDE DEF Good
    <2> QED
      BY <1>3, <1>4, <2>1, NatsBySet
  <1> QED
    BY <1>5

LEMMA SumEmpty ==
  ASSUME NEW f
  PROVE  SumFunctionOnSet(f, {}) = 0
  <1>1. Partial(f, {})[{}] = SumStep(f, Partial(f, {}), {})
    BY PartialDefined, FS_EmptySet
  <1> QED
    BY <1>1, SumByParts DEF SumStep

LEMMA SumFirst ==
  ASSUME NEW f, NEW S, IsFiniteSet(S), S # {}
  PROVE  SumFunctionOnSet(f, S) = f[First(S)] + SumFunctionOnSet(f, S \ {First(S)})
  <1>1. Partial(f, S)[S] = SumStep(f, Partial(f, S), S)
    BY PartialDefined
  <1>2. Partial(f, S)[S \ {First(S)}] = Partial(f, S \ {First(S)})[S \ {First(S)}]
    BY PartialsAgree
  <1> QED
    BY <1>1, <1>2, SumByParts DEF SumStep

\* A sum of naturals is a natural.
LEMMA SumIsNat ==
  ASSUME NEW f, NEW S, IsFiniteSet(S), \A x \in S : f[x] \in Nat
  PROVE  SumFunctionOnSet(f, S) \in Nat
  <1> DEFINE Good == {n \in Nat : \A s \in SUBSET S :
                        Cardinality(s) = n => SumFunctionOnSet(f, s) \in Nat}
  <1>1. \A s \in SUBSET S : IsFiniteSet(s) /\ Cardinality(s) \in Nat
    BY FS_Subset, FS_CardinalityType
  <1>2. 0 \in Good
    <2>1. ASSUME NEW s \in SUBSET S, Cardinality(s) = 0
          PROVE  SumFunctionOnSet(f, s) \in Nat
      BY <1>1, <2>1, FS_EmptySet, SumEmpty
    <2> QED
      BY <2>1
  <1>3. ASSUME NEW n \in Nat, n \in Good
        PROVE  n + 1 \in Good
    <2>1. ASSUME NEW s \in SUBSET S, Cardinality(s) = n + 1
          PROVE  SumFunctionOnSet(f, s) \in Nat
      <3>1. s # {} /\ IsFiniteSet(s)
        BY <1>1, <2>1, FS_EmptySet
      <3> DEFINE x == First(s)
      <3>2. x \in s
        BY <3>1, FirstIn
      <3>3. SumFunctionOnSet(f, s) = f[x] + SumFunctionOnSet(f, s \ {x})
        BY <3>1, SumFirst
      <3> HIDE DEF x
      <3>4. Cardinality(s \ {x}) = n /\ s \ {x} \in SUBSET S
        <4>1. Cardinality(s \ {x}) \in Nat /\ Cardinality(s) = Cardinality(s \ {x}) + 1
          BY <3>1, <3>2, OneLess
        <4> QED
          BY <2>1, <4>1
      <3>5. SumFunctionOnSet(f, s \ {x}) \in Nat /\ f[x] \in Nat
        BY <1>3, <3>2, <3>4
      <3> QED
        BY <3>3, <3>5
    <2> QED
      BY <2>1
  <1>4. Cardinality(S) \in Good
    <2>1. Cardinality(S) \in Nat
      BY <1>1
    <2> HIDE DEF Good
    <2> QED
      BY <1>2, <1>3, <2>1, NatsBySet
  <1> QED
    BY <1>4

\* Any element may be taken first.
LEMMA SumTake ==
  ASSUME NEW f, NEW S, IsFiniteSet(S), \A x \in S : f[x] \in Nat, NEW y \in S
  PROVE  SumFunctionOnSet(f, S) = f[y] + SumFunctionOnSet(f, S \ {y})
  <1> DEFINE Total(s) == SumFunctionOnSet(f, s)
             Good == {n \in Nat : \A s \in SUBSET S : Cardinality(s) = n =>
                        \A z \in s : Total(s) = f[z] + Total(s \ {z})}
  <1>1. \A s \in SUBSET S : IsFiniteSet(s) /\ Cardinality(s) \in Nat
    BY FS_Subset, FS_CardinalityType
  <1>2. \A s \in SUBSET S : Total(s) \in Nat
    BY <1>1, SumIsNat
  <1>3. ASSUME NEW s \in SUBSET S, s # {}
        PROVE  First(s) \in s /\ Total(s) = f[First(s)] + Total(s \ {First(s)})
    BY <1>1, <1>3, FirstIn, SumFirst
  <1> HIDE DEF Total
  <1>4. 0 \in Good
    <2>1. ASSUME NEW s \in SUBSET S, Cardinality(s) = 0, NEW z \in s
          PROVE  FALSE
      BY <1>1, <2>1, FS_EmptySet
    <2> QED
      BY <2>1
  <1>5. ASSUME NEW n \in Nat, n \in Good
        PROVE  n + 1 \in Good
    <2>1. ASSUME NEW s \in SUBSET S, Cardinality(s) = n + 1, NEW z \in s
          PROVE  Total(s) = f[z] + Total(s \ {z})
      <3> DEFINE x == First(s)
      <3>1. x \in s /\ Total(s) = f[x] + Total(s \ {x})
        BY <1>3
      <3>2. CASE x = z
        BY <3>1, <3>2
      <3>3. CASE x # z
        <4> HIDE DEF x
        <4>1. Cardinality(s \ {x}) = n /\ Cardinality(s \ {z}) = n
          BY <1>1, <2>1, <3>1, OneLess
        <4>2. Total(s \ {x}) = f[z] + Total((s \ {x}) \ {z})
          BY <1>5, <3>3, <4>1
        <4>3. Total(s \ {z}) = f[x] + Total((s \ {z}) \ {x})
          BY <1>5, <3>1, <3>3, <4>1
        <4>4. (s \ {x}) \ {z} = (s \ {z}) \ {x}
          OBVIOUS
        <4>5. f[x] \in Nat /\ f[z] \in Nat /\ Total((s \ {z}) \ {x}) \in Nat
          <5>1. (s \ {z}) \ {x} \in SUBSET S
            OBVIOUS
          <5> QED
            BY <1>2, <3>1, <5>1
        <4> QED
          BY <3>1, <4>2, <4>3, <4>4, <4>5
      <3> QED
        BY <3>2, <3>3
    <2> QED
      BY <2>1
  <1>6. Cardinality(S) \in Good
    <2>1. Cardinality(S) \in Nat
      BY <1>1
    <2> HIDE DEF Good
    <2> QED
      BY <1>4, <1>5, <2>1, NatsBySet
  <1> QED
    BY <1>6 DEF Total

\* A sum is at most another one into whose places its own can be mapped, each to
\* one that holds no less.
LEMMA SumDominated ==
  ASSUME NEW f, NEW S, IsFiniteSet(S), \A x \in S : f[x] \in Nat,
         NEW g, NEW T, IsFiniteSet(T), \A y \in T : g[y] \in Nat,
         NEW h \in [S -> T], \A x, y \in S : h[x] = h[y] => x = y,
         \A x \in S : f[x] <= g[h[x]]
  PROVE  SumFunctionOnSet(f, S) <= SumFunctionOnSet(g, T)
  <1> DEFINE Image(s) == {h[x] : x \in s}
             F(s) == SumFunctionOnSet(f, s)
             G(t) == SumFunctionOnSet(g, t)
             Good == {n \in Nat : \A s \in SUBSET S : Cardinality(s) = n =>
                        \A t \in SUBSET T : Image(s) \subseteq t => F(s) <= G(t)}
  <1>1. \A s \in SUBSET S : IsFiniteSet(s) /\ Cardinality(s) \in Nat
    BY FS_Subset, FS_CardinalityType
  <1>2. \A t \in SUBSET T : IsFiniteSet(t)
    BY FS_Subset
  <1>3. (\A s \in SUBSET S : F(s) \in Nat) /\ (\A t \in SUBSET T : G(t) \in Nat)
    BY <1>1, <1>2, SumIsNat
  <1>4. F({}) = 0
    BY SumEmpty
  <1>5. ASSUME NEW s \in SUBSET S, NEW x \in s
        PROVE  F(s) = f[x] + F(s \ {x})
    BY <1>1, SumTake
  <1>6. ASSUME NEW t \in SUBSET T, NEW y \in t
        PROVE  G(t) = g[y] + G(t \ {y})
    BY <1>2, SumTake
  <1> HIDE DEF F, G
  <1>7. 0 \in Good
    <2>1. ASSUME NEW s \in SUBSET S, Cardinality(s) = 0, NEW t \in SUBSET T
          PROVE  F(s) <= G(t)
      <3>1. s = {}
        BY <1>1, <2>1, FS_EmptySet
      <3> QED
        BY <1>3, <1>4, <3>1
    <2> QED
      BY <2>1
  <1>8. ASSUME NEW n \in Nat, n \in Good
        PROVE  n + 1 \in Good
    <2>1. ASSUME NEW s \in SUBSET S, Cardinality(s) = n + 1,
                 NEW t \in SUBSET T, Image(s) \subseteq t
          PROVE  F(s) <= G(t)
      <3>1. s # {}
        <4>1. Cardinality(s) # 0
          BY <2>1
        <4> QED
          BY <4>1, FS_EmptySet
      <3>2. PICK x \in s : TRUE
        BY <3>1
      <3> DEFINE u == s \ {x}
                 v == t \ {h[x]}
      <3>3. Cardinality(u) = n /\ u \in SUBSET S
        <4>1. Cardinality(u) \in Nat /\ Cardinality(s) = Cardinality(u) + 1
          BY <1>1, OneLess
        <4> QED
          BY <2>1, <4>1
      <3>4. v \in SUBSET T /\ h[x] \in t /\ Image(u) \subseteq v
        BY <2>1
      <3>5. F(u) <= G(v)
        BY <1>8, <3>3, <3>4
      <3>6. F(s) = f[x] + F(u) /\ G(t) = g[h[x]] + G(v)
        BY <1>5, <1>6, <3>4
      <3>7. F(u) \in Nat /\ G(v) \in Nat /\ f[x] \in Nat /\ g[h[x]] \in Nat /\ f[x] <= g[h[x]]
        BY <1>3, <3>3, <3>4
      <3> HIDE DEF u, v
      <3> QED
        BY <3>5, <3>6, <3>7
    <2> QED
      BY <2>1
  <1>9. Cardinality(S) \in Good
    <2>1. Cardinality(S) \in Nat
      BY <1>1
    <2> HIDE DEF Good
    <2> QED
      BY <1>7, <1>8, <2>1, NatsBySet
  <1>10. Image(S) \subseteq T
    OBVIOUS
  <1> QED
    BY <1>9, <1>10 DEF F, G

\* Values that are equal where they are summed.
LEMMA SumSame ==
  ASSUME NEW f, NEW g, NEW S, IsFiniteSet(S), \A x \in S : f[x] \in Nat /\ f[x] = g[x]
  PROVE  SumFunctionOnSet(f, S) = SumFunctionOnSet(g, S)
  <1> DEFINE id == [x \in S |-> x]
  <1>1. id \in [S -> S] /\ \A x \in S : id[x] = x
    OBVIOUS
  <1> HIDE DEF id
  <1>2. \A x \in S : f[x] \in Nat /\ g[x] \in Nat /\ f[x] <= g[id[x]] /\ g[x] <= f[id[x]]
    BY <1>1
  <1>3. \A x, y \in S : id[x] = id[y] => x = y
    BY <1>1
  <1>4. SumFunctionOnSet(f, S) <= SumFunctionOnSet(g, S)
    BY <1>1, <1>2, <1>3, SumDominated
  <1>5. SumFunctionOnSet(g, S) <= SumFunctionOnSet(f, S)
    BY <1>1, <1>2, <1>3, SumDominated
  <1>6. SumFunctionOnSet(f, S) \in Nat /\ SumFunctionOnSet(g, S) \in Nat
    BY <1>2, SumIsNat
  <1> QED
    BY <1>4, <1>5, <1>6

\* The sum over two sets that share nothing.
LEMMA SumJoined ==
  ASSUME NEW f, NEW S, IsFiniteSet(S), NEW T, IsFiniteSet(T), S \cap T = {},
         \A x \in S \cup T : f[x] \in Nat
  PROVE  SumFunctionOnSet(f, S \cup T) = SumFunctionOnSet(f, S) + SumFunctionOnSet(f, T)
  <1> DEFINE F(s) == SumFunctionOnSet(f, s)
             Good == {n \in Nat : \A t \in SUBSET T : Cardinality(t) = n =>
                        F(S \cup t) = F(S) + F(t)}
  <1>1. \A t \in SUBSET T : IsFiniteSet(t) /\ Cardinality(t) \in Nat /\ IsFiniteSet(S \cup t)
    BY FS_Subset, FS_CardinalityType, FS_Union
  <1>2. F(S) \in Nat /\ \A t \in SUBSET T : F(t) \in Nat /\ F(S \cup t) \in Nat
    BY <1>1, SumIsNat
  <1>3. F({}) = 0
    BY SumEmpty
  <1>4. ASSUME NEW t \in SUBSET T, NEW y \in t
        PROVE  F(t) = f[y] + F(t \ {y}) /\ F(S \cup t) = f[y] + F((S \cup t) \ {y})
    BY <1>1, SumTake
  <1> HIDE DEF F
  <1>5. 0 \in Good
    <2>1. ASSUME NEW t \in SUBSET T, Cardinality(t) = 0
          PROVE  F(S \cup t) = F(S) + F(t)
      <3>1. t = {} /\ S \cup t = S
        BY <1>1, <2>1, FS_EmptySet
      <3> QED
        BY <1>2, <1>3, <3>1
    <2> QED
      BY <2>1
  <1>6. ASSUME NEW n \in Nat, n \in Good
        PROVE  n + 1 \in Good
    <2>1. ASSUME NEW t \in SUBSET T, Cardinality(t) = n + 1
          PROVE  F(S \cup t) = F(S) + F(t)
      <3>1. t # {}
        <4>1. Cardinality(t) # 0
          BY <2>1
        <4> QED
          BY <4>1, FS_EmptySet
      <3>2. PICK y \in t : TRUE
        BY <3>1
      <3> DEFINE u == t \ {y}
      <3>3. Cardinality(u) = n /\ u \in SUBSET T
        <4>1. Cardinality(u) \in Nat /\ Cardinality(t) = Cardinality(u) + 1
          BY <1>1, OneLess
        <4> QED
          BY <2>1, <4>1
      <3>4. (S \cup t) \ {y} = S \cup u
        OBVIOUS
      <3>5. F(t) = f[y] + F(t \ {y}) /\ F(S \cup t) = f[y] + F((S \cup t) \ {y})
        BY <1>4
      <3>6. F(S \cup u) = F(S) + F(u)
        BY <1>6, <3>3
      <3>7. F(t) = f[y] + F(u) /\ F(S \cup t) = f[y] + F(S \cup u)
        BY <3>4, <3>5
      <3>8. F(u) \in Nat /\ F(S) \in Nat /\ f[y] \in Nat
        BY <1>2, <3>3
      <3> HIDE DEF u
      <3> QED
        BY <3>6, <3>7, <3>8
    <2> QED
      BY <2>1
  <1>7. Cardinality(T) \in Good
    <2>1. Cardinality(T) \in Nat
      BY <1>1
    <2> HIDE DEF Good
    <2> QED
      BY <1>5, <1>6, <2>1, NatsBySet
  <1> QED
    BY <1>7 DEF F

\* What one place gives to another does not change the sum.
LEMMA SumMoved ==
  ASSUME NEW f, NEW g, NEW S, IsFiniteSet(S), \A z \in S : f[z] \in Nat,
         NEW x \in S, NEW y \in S, x # y,
         g[x] = f[x] + f[y], \A z \in S : z # x /\ z # y => g[z] = f[z]
  PROVE  SumFunctionOnSet(g, S \ {y}) = SumFunctionOnSet(f, S)
  <1> DEFINE T == S \ {y}
             U == T \ {x}
             F(s) == SumFunctionOnSet(f, s)
             G(s) == SumFunctionOnSet(g, s)
  <1>1. IsFiniteSet(T) /\ IsFiniteSet(U)
    BY FS_RemoveElement
  <1>2. F(S) = f[y] + F(T) /\ F(T) = f[x] + F(U)
    BY <1>1, SumTake
  <1>3. G(T) = g[x] + G(U)
    <2>1. f[x] + f[y] \in Nat
      OBVIOUS
    <2>2. \A z \in T : z = x \/ (z # x /\ z # y /\ z \in S)
      OBVIOUS
    <2>3. \A z \in T : g[z] \in Nat
      BY <2>1, <2>2
    <2>4. x \in T
      OBVIOUS
    <2> HIDE DEF T
    <2> QED
      BY <1>1, <2>3, <2>4, SumTake
  <1>4. F(U) = G(U)
    <2>1. \A z \in U : f[z] \in Nat /\ f[z] = g[z]
      OBVIOUS
    <2> HIDE DEF U
    <2> QED
      BY <1>1, <2>1, SumSame
  <1>5. F(U) \in Nat
    <2>1. \A z \in U : f[z] \in Nat
      OBVIOUS
    <2> HIDE DEF U
    <2> QED
      BY <1>1, <2>1, SumIsNat
  <1>6. f[x] \in Nat /\ f[y] \in Nat
    OBVIOUS
  <1> HIDE DEF F, G, T, U
  <1>7. F(S) = G(T)
    BY <1>2, <1>3, <1>4, <1>5, <1>6
  <1> QED
    BY <1>7 DEF F, G, T

\* What one place more or less makes of the sum.
LEMMA SumOne ==
  ASSUME NEW f, NEW g, NEW S, IsFiniteSet(S), NEW x \in S,
         \A z \in S : f[z] \in Nat /\ g[z] \in Nat,
         \A z \in S : z # x => g[z] = f[z]
  PROVE  SumFunctionOnSet(g, S) + f[x] = SumFunctionOnSet(f, S) + g[x]
  <1> DEFINE U == S \ {x}
             F(s) == SumFunctionOnSet(f, s)
             G(s) == SumFunctionOnSet(g, s)
  <1>1. IsFiniteSet(U)
    BY FS_RemoveElement
  <1>2. F(S) = f[x] + F(U) /\ G(S) = g[x] + G(U)
    BY SumTake
  <1>3. F(U) = G(U) /\ F(U) \in Nat
    <2>1. \A z \in U : f[z] \in Nat /\ f[z] = g[z]
      OBVIOUS
    <2> HIDE DEF U
    <2> QED
      BY <1>1, <2>1, SumSame, SumIsNat
  <1> HIDE DEF F, G, U
  <1>4. G(S) + f[x] = F(S) + g[x]
    BY <1>2, <1>3
  <1> QED
    BY <1>4 DEF F, G

\* Two places that together do not gain.
LEMMA SumPair ==
  ASSUME NEW f, NEW g, NEW S, IsFiniteSet(S), NEW x \in S, NEW y \in S, x # y,
         \A z \in S : f[z] \in Nat /\ g[z] \in Nat,
         g[x] + g[y] <= f[x] + f[y],
         \A z \in S : z # x /\ z # y => g[z] = f[z]
  PROVE  SumFunctionOnSet(g, S) <= SumFunctionOnSet(f, S)
  <1> DEFINE T == S \ {y}
             F(s) == SumFunctionOnSet(f, s)
             G(s) == SumFunctionOnSet(g, s)
  <1>1. IsFiniteSet(T) /\ x \in T
    BY FS_RemoveElement
  <1>2. F(S) = f[y] + F(T) /\ G(S) = g[y] + G(T)
    BY SumTake
  <1>3. G(T) + f[x] = F(T) + g[x] /\ F(T) \in Nat /\ G(T) \in Nat
    <2>1. /\ \A z \in T : f[z] \in Nat /\ g[z] \in Nat
          /\ \A z \in T : z # x => g[z] = f[z]
      OBVIOUS
    <2> HIDE DEF T
    <2> QED
      BY <1>1, <2>1, SumOne, SumIsNat
  <1> HIDE DEF F, G, T
  <1>4. G(S) <= F(S)
    BY <1>2, <1>3
  <1> QED
    BY <1>4 DEF F, G

\* Sums of shares.
LEMMA SumAdded ==
  ASSUME NEW f, NEW g, NEW h, NEW S, IsFiniteSet(S),
         \A x \in S : f[x] \in Nat /\ g[x] \in Nat /\ h[x] \in Nat,
         \A x \in S : f[x] + g[x] <= h[x]
  PROVE  SumFunctionOnSet(f, S) + SumFunctionOnSet(g, S) <= SumFunctionOnSet(h, S)
  <1> DEFINE F(s) == SumFunctionOnSet(f, s)
             G(s) == SumFunctionOnSet(g, s)
             H(s) == SumFunctionOnSet(h, s)
             Good == {n \in Nat : \A s \in SUBSET S : Cardinality(s) = n => F(s) + G(s) <= H(s)}
  <1>1. \A s \in SUBSET S : IsFiniteSet(s) /\ Cardinality(s) \in Nat
    BY FS_Subset, FS_CardinalityType
  <1>2. \A s \in SUBSET S : F(s) \in Nat /\ G(s) \in Nat /\ H(s) \in Nat
    BY <1>1, SumIsNat
  <1>3. F({}) = 0 /\ G({}) = 0
    BY SumEmpty
  <1>4. ASSUME NEW s \in SUBSET S, NEW x \in s
        PROVE  F(s) = f[x] + F(s \ {x}) /\ G(s) = g[x] + G(s \ {x}) /\ H(s) = h[x] + H(s \ {x})
    BY <1>1, SumTake
  <1> HIDE DEF F, G, H
  <1>5. 0 \in Good
    <2>1. ASSUME NEW s \in SUBSET S, Cardinality(s) = 0
          PROVE  F(s) + G(s) <= H(s)
      <3>1. s = {}
        BY <1>1, <2>1, FS_EmptySet
      <3>2. H(s) \in Nat
        BY <1>2
      <3> QED
        BY <1>3, <3>1, <3>2
    <2> QED
      BY <2>1
  <1>6. ASSUME NEW n \in Nat, n \in Good
        PROVE  n + 1 \in Good
    <2>1. ASSUME NEW s \in SUBSET S, Cardinality(s) = n + 1
          PROVE  F(s) + G(s) <= H(s)
      <3>1. s # {}
        <4>1. Cardinality(s) # 0
          BY <2>1
        <4> QED
          BY <4>1, FS_EmptySet
      <3>2. PICK x \in s : TRUE
        BY <3>1
      <3> DEFINE u == s \ {x}
      <3>3. Cardinality(u) = n /\ u \in SUBSET S
        <4>1. Cardinality(u) \in Nat /\ Cardinality(s) = Cardinality(u) + 1
          BY <1>1, OneLess
        <4> QED
          BY <2>1, <4>1
      <3>4. F(u) + G(u) <= H(u)
        BY <1>6, <3>3
      <3>5. F(s) = f[x] + F(u) /\ G(s) = g[x] + G(u) /\ H(s) = h[x] + H(u)
        BY <1>4
      <3>6. /\ F(u) \in Nat /\ G(u) \in Nat /\ H(u) \in Nat
            /\ f[x] \in Nat /\ g[x] \in Nat /\ h[x] \in Nat /\ f[x] + g[x] <= h[x]
        BY <1>2, <3>3
      <3> HIDE DEF u
      <3> QED
        BY <3>4, <3>5, <3>6
    <2> QED
      BY <2>1
  <1>7. Cardinality(S) \in Good
    <2>1. Cardinality(S) \in Nat
      BY <1>1
    <2> HIDE DEF Good
    <2> QED
      BY <1>5, <1>6, <2>1, NatsBySet
  <1> QED
    BY <1>7 DEF F, G, H

\* A sum of equal values.
LEMMA SumOfEqual ==
  ASSUME NEW f, NEW S, IsFiniteSet(S), NEW k \in Nat, \A x \in S : f[x] = k
  PROVE  SumFunctionOnSet(f, S) = Cardinality(S) * k
  <1> DEFINE F(s) == SumFunctionOnSet(f, s)
             Good == {n \in Nat : \A s \in SUBSET S : Cardinality(s) = n => F(s) = n * k}
  <1>1. \A s \in SUBSET S : IsFiniteSet(s) /\ Cardinality(s) \in Nat
    BY FS_Subset, FS_CardinalityType
  <1>2. F({}) = 0
    BY SumEmpty
  <1>3. ASSUME NEW s \in SUBSET S, NEW x \in s
        PROVE  F(s) = k + F(s \ {x})
    BY <1>1, SumTake
  <1> HIDE DEF F
  <1>4. 0 \in Good
    <2>1. ASSUME NEW s \in SUBSET S, Cardinality(s) = 0
          PROVE  F(s) = 0 * k
      <3>1. s = {}
        BY <1>1, <2>1, FS_EmptySet
      <3> QED
        BY <1>2, <3>1
    <2> QED
      BY <2>1
  <1>5. ASSUME NEW n \in Nat, n \in Good
        PROVE  n + 1 \in Good
    <2>1. ASSUME NEW s \in SUBSET S, Cardinality(s) = n + 1
          PROVE  F(s) = (n + 1) * k
      <3>1. s # {}
        <4>1. Cardinality(s) # 0
          BY <2>1
        <4> QED
          BY <4>1, FS_EmptySet
      <3>2. PICK x \in s : TRUE
        BY <3>1
      <3> DEFINE u == s \ {x}
      <3>3. Cardinality(u) = n /\ u \in SUBSET S
        <4>1. Cardinality(u) \in Nat /\ Cardinality(s) = Cardinality(u) + 1
          BY <1>1, OneLess
        <4> QED
          BY <2>1, <4>1
      <3>4. F(u) = n * k /\ F(s) = k + F(u)
        BY <1>3, <1>5, <3>3
      <3> HIDE DEF u
      <3>5. (n + 1) * k = k + n * k
        OBVIOUS
      <3> QED
        BY <3>4, <3>5
    <2> QED
      BY <2>1
  <1>6. Cardinality(S) \in Good
    <2>1. Cardinality(S) \in Nat
      BY <1>1
    <2> HIDE DEF Good
    <2> QED
      BY <1>4, <1>5, <2>1, NatsBySet
  <1> QED
    BY <1>6 DEF F

\* Pairs counted by their first elements, each worth the same.
LEMMA PairsCounted ==
  ASSUME NEW S, IsFiniteSet(S), NEW F, \A p \in S : IsFiniteSet(F[p]), NEW k \in Nat,
         NEW f, \A p \in S : f[p] = Cardinality(F[p]) * k,
         NEW T, T = UNION {{p} \X F[p] : p \in S}
  PROVE  /\ IsFiniteSet(T) /\ Cardinality(T) \in Nat
         /\ Cardinality(T) * k = SumFunctionOnSet(f, S)
  <1> DEFINE Of(p) == {p} \X F[p]
             U(s) == UNION {Of(p) : p \in s}
             Worth(s) == SumFunctionOnSet(f, s)
             Good == {n \in Nat : \A s \in SUBSET S : Cardinality(s) = n =>
                        IsFiniteSet(U(s)) /\ Cardinality(U(s)) * k = Worth(s)}
  <1>1. \A s \in SUBSET S : IsFiniteSet(s) /\ Cardinality(s) \in Nat
    BY FS_Subset, FS_CardinalityType
  <1>2. ASSUME NEW p \in S
        PROVE  /\ IsFiniteSet(Of(p)) /\ Cardinality(Of(p)) \in Nat
               /\ Cardinality(Of(p)) * k = f[p] /\ f[p] \in Nat
    <2>1. IsFiniteSet({p}) /\ Cardinality({p}) = 1 /\ IsFiniteSet(F[p]) /\ Cardinality(F[p]) \in Nat
      BY FS_Singleton, FS_CardinalityType
    <2>2. IsFiniteSet(Of(p)) /\ Cardinality(Of(p)) = Cardinality({p}) * Cardinality(F[p])
      BY <2>1, FS_Product
    <2> HIDE DEF Of
    <2>3. Cardinality(Of(p)) = Cardinality(F[p])
      BY <2>1, <2>2
    <2>4. \A c \in Nat : c * k \in Nat
      OBVIOUS
    <2> QED
      BY <2>1, <2>2, <2>3, <2>4
  <1>3. Worth({}) = 0 /\ U({}) = {} /\ Cardinality({}) = 0 /\ IsFiniteSet({})
    BY SumEmpty, FS_EmptySet
  <1>4. ASSUME NEW s \in SUBSET S, NEW p \in s
        PROVE  /\ Worth(s) = f[p] + Worth(s \ {p}) /\ U(s) = U(s \ {p}) \cup Of(p)
               /\ U(s \ {p}) \cap Of(p) = {}
    <2>1. Worth(s) = f[p] + Worth(s \ {p})
      <3>1. \A x \in s : f[x] \in Nat
        BY <1>2
      <3> QED
        BY <1>1, <3>1, SumTake
    <2>2. U(s) = U(s \ {p}) \cup Of(p)
      <3> HIDE DEF Of
      <3> QED
        OBVIOUS
    <2>3. U(s \ {p}) \cap Of(p) = {}
      OBVIOUS
    <2> QED
      BY <2>1, <2>2, <2>3
  <1> HIDE DEF Worth, U, Of
  <1>5. 0 \in Good
    <2>1. ASSUME NEW s \in SUBSET S, Cardinality(s) = 0
          PROVE  IsFiniteSet(U(s)) /\ Cardinality(U(s)) * k = Worth(s)
      <3>1. s = {}
        BY <1>1, <2>1, FS_EmptySet
      <3> QED
        BY <1>3, <3>1
    <2> QED
      BY <2>1
  <1>6. ASSUME NEW n \in Nat, n \in Good
        PROVE  n + 1 \in Good
    <2>1. ASSUME NEW s \in SUBSET S, Cardinality(s) = n + 1
          PROVE  IsFiniteSet(U(s)) /\ Cardinality(U(s)) * k = Worth(s)
      <3>1. s # {}
        <4>1. Cardinality(s) # 0
          BY <2>1
        <4> QED
          BY <4>1, FS_EmptySet
      <3>2. PICK p \in s : TRUE
        BY <3>1
      <3> DEFINE r == s \ {p}
                 a == Cardinality(U(r))
                 b == Cardinality(Of(p))
      <3>3. Cardinality(r) = n /\ r \in SUBSET S
        <4>1. Cardinality(r) \in Nat /\ Cardinality(s) = Cardinality(r) + 1
          BY <1>1, OneLess
        <4> QED
          BY <2>1, <4>1
      <3>4. IsFiniteSet(U(r)) /\ a * k = Worth(r)
        BY <1>6, <3>3
      <3>5. /\ Worth(s) = f[p] + Worth(r) /\ U(s) = U(r) \cup Of(p) /\ U(r) \cap Of(p) = {}
            /\ IsFiniteSet(Of(p)) /\ b \in Nat /\ b * k = f[p] /\ f[p] \in Nat
        BY <1>2, <1>4
      <3>6. IsFiniteSet(U(s)) /\ Cardinality(U(s)) = a + b - Cardinality({})
        <4>1. /\ IsFiniteSet(U(r) \cup Of(p))
              /\ Cardinality(U(r) \cup Of(p)) = a + b - Cardinality(U(r) \cap Of(p))
          BY <3>4, <3>5, FS_Union
        <4> HIDE DEF a, b, r
        <4> QED
          BY <3>5, <4>1
      <3>7. a \in Nat
        BY <3>4, FS_CardinalityType
      <3> HIDE DEF a, b, r
      <3>8. Cardinality(U(s)) = a + b /\ (a + b) * k = a * k + b * k
        BY <1>3, <3>5, <3>6, <3>7
      <3>9. a * k \in Nat
        BY <3>7
      <3> QED
        BY <3>4, <3>5, <3>6, <3>8, <3>9
    <2> QED
      BY <2>1
  <1>7. IsFiniteSet(U(S)) /\ Cardinality(U(S)) * k = Worth(S)
    <2>1. Cardinality(S) \in Nat
      BY <1>1
    <2>2. Cardinality(S) \in Good
      <3> HIDE DEF Good
      <3> QED
        BY <1>5, <1>6, <2>1, NatsBySet
    <2> QED
      BY <2>2
  <1>8. Cardinality(U(S)) \in Nat
    BY <1>7, FS_CardinalityType
  <1>9. T = U(S)
    BY DEF U, Of
  <1> QED
    BY <1>7, <1>8, <1>9 DEF Worth
=============================================================================
