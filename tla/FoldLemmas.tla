----------------------------- MODULE FoldLemmas -----------------------------
(***************************************************************************)
(* Facts about folds over sequences.  FoldLeft is a function chosen for an *)
(* equation over the sets of places of a sequence: that there is one, and  *)
(* that what each step keeps the fold keeps, is shown here for any step.   *)
(* And what a set that is listed becomes.                                  *)
(***************************************************************************)
EXTENDS Integers, SequencesExt, FiniteSetTheorems, WellFoundedInduction, TLAPS

\* Numbers that are bounded have a greatest.
LEMMA GreatestThere ==
  ASSUME NEW S \in SUBSET Nat, S # {}, NEW m \in Nat, \A x \in S : x <= m
  PROVE  Max(S) \in S /\ \A x \in S : x <= Max(S)
<1> DEFINE Less == OpToRel(<, Nat)
           Bounds == {b \in Nat : \A x \in S : x <= b}
<1>1. \A a, b \in Nat : a < b => <<a, b>> \in Less
  BY DEF OpToRel
<1>2. PICK b \in Bounds : \A c \in Bounds : ~(<<c, b>> \in Less)
  <2>1. Bounds # {} /\ Bounds \subseteq Nat
    OBVIOUS
  <2> QED
    BY <2>1, WFMin, NatLessThanWellFounded
<1> HIDE DEF Less
<1>3. b \in Nat /\ \A x \in S : x <= b
  OBVIOUS
<1>4. b \in S
  <2> SUFFICES ASSUME b \notin S PROVE FALSE
    OBVIOUS
  <2>1. \A x \in S : x < b /\ x \in Nat
    BY <1>3
  <2>2. PICK x \in S : TRUE
    OBVIOUS
  <2>3. b \in Nat /\ b # 0
    BY <2>1, <2>2, <1>3
  <2>4. \A y \in S : y <= b - 1
    BY <2>1, <2>3
  <2>5. b - 1 \in Bounds /\ b - 1 \in Nat /\ b - 1 < b
    BY <2>3, <2>4
  <2> QED
    BY <1>1, <1>2, <1>3, <2>5
<1>5. \E x \in S : \A y \in S : x >= y
  BY <1>3, <1>4
<1>6. Max(S) \in S /\ \A y \in S : Max(S) >= y
  BY <1>5 DEF Max
<1> QED
  BY <1>6

\* The last place of a sequence, and those before it.
LEMMA LastPlace == \A k \in Nat : k # 0 => Max(1 .. k) = k /\ (1 .. k) \ {k} = 1 .. k - 1
<1> SUFFICES ASSUME NEW k \in Nat, k # 0 PROVE Max(1 .. k) = k /\ (1 .. k) \ {k} = 1 .. k - 1
  OBVIOUS
<1>1. Max(1 .. k) \in 1 .. k /\ \A x \in 1 .. k : x <= Max(1 .. k)
  <2> DEFINE S == 1 .. k
  <2>1. S \in SUBSET Nat /\ S # {} /\ \A x \in S : x <= k
    OBVIOUS
  <2> HIDE DEF S
  <2> QED
    BY <2>1, GreatestThere DEF S
<1> QED
  BY <1>1

LEMMA GreatestPlace ==
  ASSUME NEW n \in Nat, NEW s \in SUBSET (1 .. n), s # {} PROVE Max(s) \in s /\ Max(s) \in 1 .. n
<1>1. s \in SUBSET Nat /\ \A x \in s : x <= n
  OBVIOUS
<1> QED
  BY <1>1, GreatestThere

LEMMA PlacesUpTo ==
  ASSUME NEW n \in Nat, NEW k \in 1 .. n
  PROVE  1 .. k \in SUBSET (1 .. n) /\ 1 .. k # {} /\ Max(1 .. k) = k
<1>1. k \in Nat /\ k # 0 /\ k \in 1 .. k
  OBVIOUS
<1>2. \A j \in 1 .. k : j \in 1 .. n
  OBVIOUS
<1> QED
  BY <1>1, <1>2, LastPlace

\* What holds of 0, and of a number if it holds of the one before, holds of all:
\* the numbers it holds of are given as a set.
LEMMA Counting ==
  ASSUME NEW n \in Nat, NEW S, 0 \in S, \A k \in 1 .. n : k - 1 \in S => k \in S
  PROVE  n \in S
<1> SUFFICES ASSUME n \notin S PROVE FALSE
  OBVIOUS
<1> DEFINE Less == OpToRel(<, Nat)
           Missed == {k \in 0 .. n : k \notin S}
<1>1. \A a, b \in Nat : a < b => <<a, b>> \in Less
  BY DEF OpToRel
<1>2. PICK k \in Missed : \A j \in Missed : ~(<<j, k>> \in Less)
  <2>1. Missed # {} /\ Missed \subseteq Nat
    OBVIOUS
  <2> QED
    BY <2>1, WFMin, NatLessThanWellFounded
<1> HIDE DEF Less
<1>3. k \in Nat /\ k # 0 /\ k <= n
  OBVIOUS
<1>4. k - 1 \in Missed
  BY <1>3
<1> HIDE DEF Missed
<1>5. ~(<<k - 1, k>> \in Less)
  BY <1>2, <1>4
<1>6. k - 1 \in Nat /\ k - 1 < k
  BY <1>3
<1> QED
  BY <1>1, <1>3, <1>5, <1>6

\* f is a function as the definition of a fold of F over seq asks for.
IsFold(f, A, F, base, seq) ==
  /\ f \in [SUBSET (1 .. Len(seq)) -> A]
  /\ \A s \in SUBSET (1 .. Len(seq)) :
       f[s] = IF s = {} THEN base ELSE F[<<f[s \ {Max(s)}], seq[Max(s)]>>]

LEMMA FoldExists ==
  ASSUME NEW A, NEW B, NEW F \in [A \X B -> A], NEW base \in A, NEW seq \in Seq(B)
  PROVE  \E f : IsFold(f, A, F, base, seq)
<1> DEFINE n == Len(seq)
           Folds(k, f) == \A s \in SUBSET (1 .. k) :
                            f[s] = IF s = {} THEN base ELSE F[f[s \ {Max(s)}], seq[Max(s)]]
           S == {k \in 0 .. n : \E f \in [SUBSET (1 .. k) -> A] : Folds(k, f)}
<1>n. n \in Nat
  OBVIOUS
<1>1. 0 \in S
  <2> DEFINE f == [s \in SUBSET (1 .. 0) |-> base]
  <2>1. \A s \in SUBSET (1 .. 0) : s = {} /\ f[s] = base
    OBVIOUS
  <2>2. f \in [SUBSET (1 .. 0) -> A]
    OBVIOUS
  <2>3. Folds(0, f)
    BY <2>1
  <2> HIDE DEF Folds, f
  <2>4. \E g \in [SUBSET (1 .. 0) -> A] : Folds(0, g)
    BY <2>2, <2>3
  <2>5. 0 \in 0 .. n
    BY <1>n
  <2> HIDE DEF n
  <2> QED
    BY <2>4, <2>5
<1>2. ASSUME NEW k \in 1 .. n, k - 1 \in S PROVE k \in S
  <2> DEFINE D == SUBSET (1 .. k)
             C == SUBSET (1 .. k - 1)
  <2>1. PICK g \in [C -> A] : Folds(k - 1, g)
    BY <1>2
  <2>2. ASSUME NEW s \in D PROVE s \ {k} \in C /\ (k \notin s => s \in C)
    <3>1. \A x \in s : x \in 1 .. k
      OBVIOUS
    <3>2. \A x \in 1 .. k : x # k => x \in 1 .. k - 1
      BY <1>n
    <3> QED
      BY <3>1, <3>2
  <2>3. seq[k] \in B
    OBVIOUS
  <2> DEFINE f == [s \in D |-> IF k \notin s THEN g[s] ELSE F[g[s \ {k}], seq[k]]]
  <2>4. f \in [D -> A]
    <3>1. \A s \in D : (IF k \notin s THEN g[s] ELSE F[g[s \ {k}], seq[k]]) \in A
      BY <2>1, <2>2, <2>3
    <3> QED
      BY <3>1
  <2>5. ASSUME NEW s \in D
        PROVE  f[s] = IF s = {} THEN base ELSE F[f[s \ {Max(s)}], seq[Max(s)]]
    <3>1. CASE k \notin s
      <4>1. s \in C /\ f[s] = g[s]
        BY <2>2, <3>1
      <4>2. g[s] = IF s = {} THEN base ELSE F[g[s \ {Max(s)}], seq[Max(s)]]
        BY <2>1, <4>1
      <4>3. ASSUME NEW x PROVE s \ {x} \in D /\ f[s \ {x}] = g[s \ {x}]
        BY <3>1
      <4> QED
        BY <4>1, <4>2, <4>3
    <3>2. CASE k \in s
      <4>1. Max(s) = k
        <5>1. s \in SUBSET Nat /\ s # {} /\ k \in Nat /\ \A x \in s : x <= k
          BY <3>2, <1>n
        <5> HIDE DEF D, C
        <5>2. Max(s) \in s /\ \A x \in s : x <= Max(s)
          BY <5>1, GreatestThere
        <5>3. k <= Max(s) /\ Max(s) <= k /\ Max(s) \in Nat
          BY <3>2, <5>1, <5>2
        <5> QED
          BY <5>1, <5>3
      <4>2. s \ {k} \in D /\ k \notin s \ {k} /\ s # {}
        BY <3>2
      <4>3. f[s \ {k}] = g[s \ {k}]
        BY <4>2
      <4>4. f[s] = F[g[s \ {k}], seq[k]]
        BY <3>2
      <4> QED
        BY <4>1, <4>2, <4>3, <4>4
    <3> QED
      BY <3>1, <3>2
  <2> HIDE DEF f
  <2>6. Folds(k, f)
    BY <2>5
  <2> HIDE DEF Folds
  <2> QED
    BY <1>n, <2>4, <2>6
<1>3. n \in S
  <2> HIDE DEF S
  <2> QED
    BY <1>n, <1>1, <1>2, Counting
<1> QED
  BY <1>3 DEF IsFold

\* What holds of its base, and of each place if it holds up to there, holds of
\* the fold.
LEMMA FoldKeeps ==
  ASSUME NEW A, NEW n \in Nat, NEW f, f[{}] \in A,
         \A k \in 1 .. n : f[(1 .. k) \ {k}] \in A => f[1 .. k] \in A
  PROVE  f[1 .. n] \in A
<1> DEFINE S == {k \in 0 .. n : f[1 .. k] \in A}
<1>1. 0 \in S
  <2>1. 1 .. 0 = {}
    OBVIOUS
  <2> QED
    BY <2>1
<1>2. ASSUME NEW k \in 1 .. n, k - 1 \in S PROVE k \in S
  <2>1. k \in Nat /\ k # 0 /\ f[1 .. k - 1] \in A
    BY <1>2
  <2>2. f[(1 .. k) \ {k}] \in A
    BY <2>1, LastPlace
  <2>3. f[1 .. k] \in A
    BY <2>2
  <2> QED
    BY <2>3
<1>3. n \in S
  <2> HIDE DEF S
  <2> QED
    BY <1>1, <1>2, Counting
<1> QED
  BY <1>3

\* A finite set can be listed, and SetToSeq lists it, each element once.
LEMMA SetListed ==
  ASSUME NEW S, IsFiniteSet(S)
  PROVE  SetToSeq(S) \in [1 .. Cardinality(S) -> S] /\ Cardinality(S) \in Nat /\ IsInjective(SetToSeq(S))
<1> DEFINE Lists == [1 .. Cardinality(S) -> S]
<1>1. Cardinality(S) \in Nat /\ ExistsBijection(1 .. Cardinality(S), S)
  BY FS_CardinalityType
<1>2. PICK f \in Bijection(1 .. Cardinality(S), S) : TRUE
  BY <1>1 DEF ExistsBijection
<1>3. f \in Lists /\ IsInjective(f)
  BY <1>2 DEF Bijection, Injection
<1>4. \E g \in Lists : IsInjective(g)
  BY <1>3
<1>5. SetToSeq(S) = CHOOSE g \in Lists : IsInjective(g)
  BY DEF SetToSeq
<1> HIDE DEF Lists
<1>6. SetToSeq(S) \in Lists /\ IsInjective(SetToSeq(S))
  BY <1>4, <1>5
<1> QED
  BY <1>1, <1>6 DEF Lists

LEMMA FiniteBounded ==
  ASSUME NEW T \in SUBSET Nat, IsFiniteSet(T) PROVE \E b \in Nat : \A y \in T : y <= b
<1> DEFINE n == Cardinality(T)
           Ks == {k \in 0 .. n : \A U \in SUBSET T : Cardinality(U) = k => \E b \in Nat : \A y \in U : y <= b}
<1>n. n \in Nat
  BY FS_CardinalityType
<1>1. 0 \in Ks
  <2>1. \A U \in SUBSET T : Cardinality(U) = 0 => U = {}
    BY FS_Subset, FS_EmptySet
  <2>2. \A U \in SUBSET T : Cardinality(U) = 0 => \E b \in Nat : \A y \in U : y <= b
    BY <2>1
  <2> QED
    BY <1>n, <2>2
<1>2. ASSUME NEW k \in 1 .. n, k - 1 \in Ks PROVE k \in Ks
  <2>k. k \in Nat /\ k # 0 /\ k - 1 \in Nat
    BY <1>n
  <2> SUFFICES ASSUME NEW U \in SUBSET T, Cardinality(U) = k PROVE \E b \in Nat : \A y \in U : y <= b
    BY <2>k
  <2>1. IsFiniteSet(U) /\ U # {}
    BY <2>k, FS_Subset, FS_EmptySet
  <2>2. PICK x \in U : TRUE
    BY <2>1
  <2>3. U \ {x} \in SUBSET T /\ Cardinality(U \ {x}) = k - 1
    BY <2>1, <2>2, FS_RemoveElement
  <2>4. PICK b \in Nat : \A y \in U \ {x} : y <= b
    BY <1>2, <2>3
  <2>5. x \in Nat
    OBVIOUS
  <2>6. CASE x <= b
    BY <2>4, <2>6
  <2>7. CASE ~(x <= b)
    <3>1. \A y \in U : y <= x
      BY <2>4, <2>5, <2>7
    <3> QED
      BY <2>5, <3>1
  <2> QED
    BY <2>6, <2>7
<1>3. n \in Ks
  <2> HIDE DEF Ks
  <2> QED
    BY <1>n, <1>1, <1>2, Counting
<1> QED
  BY <1>3

\* Numbers that are finitely many can be listed in their order.
LEMMA SetSorted ==
  ASSUME NEW S \in SUBSET Nat, IsFiniteSet(S)
  PROVE  \E f \in [1 .. Cardinality(S) -> S] : \A i, j \in 1 .. Cardinality(S) : i < j => f[i] < f[j]
<1> DEFINE n == Cardinality(S)
           Sorted(T, k) == \E f \in [1 .. k -> T] : \A i, j \in 1 .. k : i < j => f[i] < f[j]
           Ks == {k \in 0 .. n : \A T \in SUBSET S : Cardinality(T) = k => Sorted(T, k)}
<1>n. n \in Nat
  BY FS_CardinalityType
<1>1. 0 \in Ks
  <2>1. \A T \in SUBSET S : Cardinality(T) = 0 => Sorted(T, 0)
    <3> SUFFICES ASSUME NEW T \in SUBSET S, Cardinality(T) = 0 PROVE Sorted(T, 0)
      OBVIOUS
    <3>1. IsFiniteSet(T)
      BY FS_Subset
    <3>2. T = {}
      BY <3>1, FS_EmptySet
    <3> DEFINE g == [i \in 1 .. 0 |-> 0]
    <3>3. \A i \in 1 .. 0 : FALSE
      OBVIOUS
    <3>4. g \in [1 .. 0 -> T]
      BY <3>3
    <3>5. \A i, j \in 1 .. 0 : i < j => g[i] < g[j]
      BY <3>3
    <3> QED
      BY <3>4, <3>5
  <2> HIDE DEF Sorted
  <2> QED
    BY <1>n, <2>1
<1>2. ASSUME NEW k \in 1 .. n, k - 1 \in Ks PROVE k \in Ks
  <2>k. k \in Nat /\ k # 0 /\ k - 1 \in Nat
    BY <1>n
  <2> SUFFICES ASSUME NEW T \in SUBSET S, Cardinality(T) = k PROVE Sorted(T, k)
    BY <2>k
  <2> DEFINE x == Max(T)
             U == T \ {x}
  <2>1. IsFiniteSet(T) /\ T # {}
    BY <2>k, FS_Subset, FS_EmptySet
  <2>2. x \in T /\ \A y \in T : y <= x
    <3>1. PICK b \in Nat : \A y \in T : y <= b
      BY <2>1, FiniteBounded
    <3> QED
      BY <2>1, <3>1, GreatestThere
  <2>3. U \in SUBSET S /\ Cardinality(U) = k - 1
    BY <2>1, <2>2, FS_RemoveElement
  <2>4. PICK f \in [1 .. k - 1 -> U] : \A i, j \in 1 .. k - 1 : i < j => f[i] < f[j]
    BY <1>2, <2>3
  <2>5. \A y \in U : y < x /\ y \in T
    <3>1. T \subseteq Nat /\ x \in Nat
      BY <2>2
    <3> HIDE DEF x
    <3>2. ASSUME NEW y \in T, y # x PROVE y < x
      <4>1. y \in Nat /\ y <= x
        BY <2>2, <3>1
      <4> QED
        BY <3>1, <3>2, <4>1
    <3> QED
      BY <3>2
  <2> HIDE DEF U, x
  <2> DEFINE g == [i \in 1 .. k |-> IF i = k THEN x ELSE f[i]]
  <2>6. \A i \in 1 .. k : i # k => i \in 1 .. k - 1
    BY <2>k
  <2>7. g \in [1 .. k -> T]
    BY <2>2, <2>4, <2>5, <2>6
  <2>8. ASSUME NEW i \in 1 .. k, NEW j \in 1 .. k, i < j PROVE g[i] < g[j]
    <3>1. i # k /\ i \in 1 .. k - 1 /\ g[i] = f[i]
      BY <2>6, <2>8, <2>k
    <3>2. CASE j = k
      <4>1. g[j] = x /\ f[i] \in U
        BY <3>1, <3>2, <2>4
      <4> QED
        BY <3>1, <4>1, <2>5
    <3>3. CASE j # k
      <4>1. j \in 1 .. k - 1 /\ g[j] = f[j]
        BY <3>3, <2>6
      <4> QED
        BY <2>8, <3>1, <4>1, <2>4
    <3> QED
      BY <3>2, <3>3
  <2> QED
    BY <2>7, <2>8
<1>3. n \in Ks
  <2> HIDE DEF Ks
  <2> QED
    BY <1>n, <1>1, <1>2, Counting
<1> QED
  BY <1>3
-----------------------------------------------------------------------------
(* What a function of a state and an element makes of a sequence.            *)

Course(h, A, F, base, seq) ==
  /\ h \in [0 .. Len(seq) -> A] /\ h[0] = base
  /\ \A k \in 1 .. Len(seq) : h[k] = F[<<h[k - 1], seq[k]>>]
FoldsTo(A, F, base, seq, end) == \E h : Course(h, A, F, base, seq) /\ end = h[Len(seq)]

\* It makes something, and one thing only.
LEMMA FoldsSomewhere ==
  ASSUME NEW A, NEW B, NEW F \in [A \X B -> A], NEW base \in A, NEW seq \in Seq(B)
  PROVE  \E end \in A : FoldsTo(A, F, base, seq, end)
<1> DEFINE n == Len(seq)
<1>n. n \in Nat
  OBVIOUS
<1>1. PICK f : IsFold(f, A, F, base, seq)
  BY FoldExists, Zenon
<1>2. /\ f \in [SUBSET (1 .. n) -> A]
      /\ \A s \in SUBSET (1 .. n) : f[s] = IF s = {} THEN base ELSE F[<<f[s \ {Max(s)}], seq[Max(s)]>>]
  BY <1>1 DEF IsFold
<1> DEFINE h == [k \in 0 .. n |-> f[1 .. k]]
<1>3. h \in [0 .. n -> A]
  <2>1. \A k \in 0 .. n : 1 .. k \in SUBSET (1 .. n)
    BY <1>n
  <2> QED
    BY <1>2, <2>1
<1>4. h[0] = base
  <2>1. 1 .. 0 = {} /\ 0 \in 0 .. n
    BY <1>n
  <2> QED
    BY <1>2, <2>1
<1>5. ASSUME NEW k \in 1 .. n PROVE h[k] = F[<<h[k - 1], seq[k]>>]
  <2>1. 1 .. k \in SUBSET (1 .. n) /\ 1 .. k # {} /\ Max(1 .. k) = k
    BY <1>n, PlacesUpTo, Zenon
  <2>2. k \in Nat /\ k # 0 /\ k \in 0 .. n /\ k - 1 \in 0 .. n
    BY <1>n
  <2>3. (1 .. k) \ {k} = 1 .. k - 1
    BY <2>2, LastPlace
  <2> HIDE DEF n
  <2> QED
    BY <1>2, <2>1, <2>2, <2>3
<1> HIDE DEF h
<1>6. Course(h, A, F, base, seq)
  BY <1>3, <1>4, <1>5 DEF Course
<1>7. h[n] \in A
  BY <1>3, <1>n
<1> QED
  BY <1>6, <1>7 DEF FoldsTo

LEMMA FoldEnds ==
  ASSUME NEW A, NEW F, NEW base, NEW B, NEW seq \in Seq(B), NEW end, FoldsTo(A, F, base, seq, end)
  PROVE  end \in A
<1>1. PICK h : Course(h, A, F, base, seq) /\ end = h[Len(seq)]
  BY DEF FoldsTo
<1>2. Len(seq) \in 0 .. Len(seq)
  OBVIOUS
<1> QED
  BY <1>1, <1>2 DEF Course

LEMMA FoldsOnce ==
  ASSUME NEW A, NEW F, NEW base, NEW B, NEW seq \in Seq(B), NEW x, NEW y,
         FoldsTo(A, F, base, seq, x), FoldsTo(A, F, base, seq, y)
  PROVE  x = y
<1>1. PICK g : Course(g, A, F, base, seq) /\ x = g[Len(seq)]
  BY DEF FoldsTo
<1>2. PICK h : Course(h, A, F, base, seq) /\ y = h[Len(seq)]
  BY DEF FoldsTo
<1> DEFINE n == Len(seq)
           S == {k \in 0 .. n : g[k] = h[k]}
<1>n. n \in Nat
  OBVIOUS
<1>3. 0 \in S
  BY <1>n, <1>1, <1>2 DEF Course
<1>4. ASSUME NEW k \in 1 .. n, k - 1 \in S PROVE k \in S
  <2>1. g[k] = F[<<g[k - 1], seq[k]>>] /\ h[k] = F[<<h[k - 1], seq[k]>>] /\ k \in 0 .. n
    BY <1>1, <1>2, <1>n DEF Course
  <2>2. g[k - 1] = h[k - 1]
    BY <1>4
  <2> QED
    BY <2>1, <2>2
<1>5. n \in S
  <2> HIDE DEF S, n
  <2> QED
    BY <1>n, <1>3, <1>4, Counting
<1> QED
  BY <1>1, <1>2, <1>5

LEMMA FoldsNothing == \A A, F : \A base \in A : FoldsTo(A, F, base, <<>>, base)
<1> SUFFICES ASSUME NEW A, NEW F, NEW base \in A PROVE FoldsTo(A, F, base, <<>>, base)
  OBVIOUS
<1> DEFINE h == [k \in 0 .. 0 |-> base]
<1>1. Len(<<>>) = 0 /\ h \in [0 .. 0 -> A] /\ h[0] = base
  OBVIOUS
<1>2. 1 .. 0 = {}
  OBVIOUS
<1> HIDE DEF h
<1>3. Course(h, A, F, base, <<>>)
  BY <1>1, <1>2 DEF Course
<1> QED
  BY <1>1, <1>3 DEF FoldsTo

LEMMA FoldsOn ==
  ASSUME NEW A, NEW B, NEW F \in [A \X B -> A], NEW base, NEW seq \in Seq(B), NEW mid, NEW e \in B,
         FoldsTo(A, F, base, seq, mid)
  PROVE  mid \in A /\ FoldsTo(A, F, base, Append(seq, e), F[<<mid, e>>])
<1>1. PICK g : Course(g, A, F, base, seq) /\ mid = g[Len(seq)]
  BY DEF FoldsTo
<1> DEFINE n == Len(seq)
           h == [k \in 0 .. n + 1 |-> IF k = n + 1 THEN F[<<mid, e>>] ELSE g[k]]
<1>n. n \in Nat /\ Len(Append(seq, e)) = n + 1 /\ Append(seq, e)[n + 1] = e
      /\ \A k \in 1 .. n : Append(seq, e)[k] = seq[k]
  OBVIOUS
<1>2. g \in [0 .. n -> A] /\ g[0] = base /\ \A k \in 1 .. n : g[k] = F[<<g[k - 1], seq[k]>>]
  BY <1>1 DEF Course
<1>3. mid \in A /\ mid = g[n] /\ F[<<mid, e>>] \in A
  <2>1. mid \in A
    BY <1>1, <1>2, <1>n
  <2> QED
    BY <1>1, <2>1
<1>4. h \in [0 .. n + 1 -> A]
  BY <1>2, <1>3, <1>n
<1>5. h[0] = base /\ h[n + 1] = F[<<mid, e>>] /\ \A k \in 0 .. n : h[k] = g[k]
  BY <1>2, <1>n
<1> HIDE DEF h
<1>6. ASSUME NEW k \in 1 .. n + 1 PROVE h[k] = F[<<h[k - 1], Append(seq, e)[k]>>]
  <2>1. CASE k = n + 1
    <3>1. k - 1 = n /\ n \in 0 .. n
      BY <1>n, <2>1
    <3> QED
      BY <1>3, <1>5, <1>n, <2>1, <3>1
  <2>2. CASE k # n + 1
    <3>1. k \in 1 .. n /\ k \in 0 .. n /\ k - 1 \in 0 .. n
      BY <1>n, <2>2
    <3> QED
      BY <1>2, <1>5, <1>n, <3>1
  <2> QED
    BY <2>1, <2>2
<1>7. Course(h, A, F, base, Append(seq, e))
  BY <1>4, <1>5, <1>6, <1>n DEF Course
<1> QED
  BY <1>3, <1>5, <1>7, <1>n DEF FoldsTo

LEMMA FoldsOne ==
  ASSUME NEW A, NEW B, NEW F \in [A \X B -> A], NEW base \in A, NEW e \in B
  PROVE  FoldsTo(A, F, base, <<e>>, F[<<base, e>>])
<1>1. FoldsTo(A, F, base, <<>>, base)
  BY FoldsNothing
<1>2. Append(<<>>, e) = <<e>> /\ <<>> \in Seq(B)
  OBVIOUS
<1>3. FoldsTo(A, F, base, Append(<<>>, e), F[<<base, e>>])
  BY <1>1, <1>2, FoldsOn, Zenon
<1> QED
  BY <1>2, <1>3, Zenon

LEMMA FoldsJoin ==
  ASSUME NEW A, NEW B, NEW F, NEW base, NEW s \in Seq(B), NEW t \in Seq(B), NEW mid, NEW end,
         FoldsTo(A, F, base, s, mid), FoldsTo(A, F, mid, t, end)
  PROVE  FoldsTo(A, F, base, s \o t, end)
<1>1. PICK g : Course(g, A, F, base, s) /\ mid = g[Len(s)]
  BY DEF FoldsTo
<1>2. PICK h : Course(h, A, F, mid, t) /\ end = h[Len(t)]
  BY DEF FoldsTo
<1> DEFINE n == Len(s)
           m == Len(t)
           j == [k \in 0 .. n + m |-> IF k <= n THEN g[k] ELSE h[k - n]]
<1>n. n \in Nat /\ m \in Nat /\ Len(s \o t) = n + m
      /\ (\A k \in 1 .. n : (s \o t)[k] = s[k]) /\ \A k \in 1 .. m : (s \o t)[n + k] = t[k]
  OBVIOUS
<1>3. g \in [0 .. n -> A] /\ g[0] = base /\ (\A k \in 1 .. n : g[k] = F[<<g[k - 1], s[k]>>]) /\ mid = g[n]
  BY <1>1 DEF Course
<1>4. h \in [0 .. m -> A] /\ h[0] = mid /\ (\A k \in 1 .. m : h[k] = F[<<h[k - 1], t[k]>>]) /\ end = h[m]
  BY <1>2 DEF Course
<1>5. /\ \A k \in 0 .. n : j[k] = g[k]
      /\ \A k \in 0 .. m : j[n + k] = h[k]
  <2>1. \A k \in 0 .. n : k \in 0 .. n + m /\ k <= n
    BY <1>n
  <2>2. ASSUME NEW k \in 0 .. m PROVE j[n + k] = h[k]
    <3>1. CASE k = 0
      <4>1. n + k = n /\ n \in 0 .. n
        BY <1>n, <3>1
      <4> QED
        BY <1>3, <1>4, <2>1, <3>1, <4>1
    <3>2. CASE k # 0
      <4>1. n + k \in 0 .. n + m /\ ~(n + k <= n) /\ n + k - n = k
        BY <1>n, <3>2
      <4> QED
        BY <4>1
    <3> QED
      BY <3>1, <3>2
  <2> QED
    BY <2>1, <2>2
<1>6. j \in [0 .. n + m -> A]
  <2>1. ASSUME NEW k \in 0 .. n + m PROVE (IF k <= n THEN g[k] ELSE h[k - n]) \in A
    <3>1. CASE k <= n
      <4>1. k \in 0 .. n
        BY <1>n, <3>1
      <4> QED
        BY <1>3, <3>1, <4>1
    <3>2. CASE ~(k <= n)
      <4>1. k - n \in 0 .. m
        BY <1>n, <3>2
      <4> QED
        BY <1>4, <3>2, <4>1
    <3> QED
      BY <3>1, <3>2
  <2> QED
    BY <2>1
<1> HIDE DEF j
<1>7. ASSUME NEW k \in 1 .. n + m PROVE j[k] = F[<<j[k - 1], (s \o t)[k]>>]
  <2>1. CASE k <= n
    <3>1. k \in 1 .. n /\ k \in 0 .. n /\ k - 1 \in 0 .. n
      BY <1>n, <2>1
    <3> QED
      BY <1>3, <1>5, <1>n, <3>1
  <2>2. CASE ~(k <= n)
    <3> DEFINE i == k - n
    <3>1. i \in 1 .. m /\ i \in 0 .. m /\ i - 1 \in 0 .. m /\ n + i = k /\ n + (i - 1) = k - 1
      BY <1>n, <2>2
    <3> HIDE DEF i
    <3>2. j[k] = h[i] /\ j[k - 1] = h[i - 1]
      BY <1>5, <3>1
    <3>3. (s \o t)[k] = t[i]
      BY <1>n, <3>1
    <3> QED
      BY <1>4, <3>1, <3>2, <3>3
  <2> QED
    BY <2>1, <2>2
<1>8. Course(j, A, F, base, s \o t)
  <2>1. j[0] = base
    BY <1>3, <1>5, <1>n
  <2> QED
    BY <1>6, <1>7, <1>n, <2>1 DEF Course
<1>9. end = j[n + m]
  BY <1>4, <1>5, <1>n
<1> QED
  BY <1>8, <1>9, <1>n DEF FoldsTo

\* Two that keep to each other step by step end so too.
LEMMA FoldsTogether ==
  ASSUME NEW A, NEW F, NEW a, NEW C, NEW G, NEW c, NEW B, NEW seq \in Seq(B), NEW x, NEW y, NEW R,
         FoldsTo(A, F, a, seq, x), FoldsTo(C, G, c, seq, y), <<a, c>> \in R,
         \A v \in A, w \in C, e \in B : <<v, w>> \in R => <<F[<<v, e>>], G[<<w, e>>]>> \in R
  PROVE  <<x, y>> \in R
<1>1. PICK g : Course(g, A, F, a, seq) /\ x = g[Len(seq)]
  BY DEF FoldsTo
<1>2. PICK h : Course(h, C, G, c, seq) /\ y = h[Len(seq)]
  BY DEF FoldsTo
<1> DEFINE n == Len(seq)
           S == {k \in 0 .. n : <<g[k], h[k]>> \in R}
<1>n. n \in Nat /\ \A k \in 1 .. n : seq[k] \in B
  OBVIOUS
<1>3. 0 \in S
  BY <1>n, <1>1, <1>2 DEF Course
<1>4. ASSUME NEW k \in 1 .. n, k - 1 \in S PROVE k \in S
  <2>1. k \in Nat /\ k - 1 \in 0 .. n /\ k \in 0 .. n
    BY <1>n
  <2>2. g[k - 1] \in A /\ h[k - 1] \in C /\ seq[k] \in B
    BY <1>1, <1>2, <1>n, <2>1 DEF Course
  <2>3. g[k] = F[<<g[k - 1], seq[k]>>] /\ h[k] = G[<<h[k - 1], seq[k]>>]
    BY <1>1, <1>2 DEF Course
  <2> QED
    BY <1>4, <2>1, <2>2, <2>3
<1>5. n \in S
  <2> HIDE DEF S, n
  <2> QED
    BY <1>n, <1>3, <1>4, Counting
<1> QED
  BY <1>1, <1>2, <1>5

\* A function for the equation of FoldLeft takes the same course.
LEMMA FoldTaken ==
  ASSUME NEW A, NEW B, NEW F \in [A \X B -> A], NEW base \in A, NEW seq \in Seq(B), NEW f,
         f[{}] = base,
         \A k \in 1 .. Len(seq) : f[(1 .. k) \ {k}] \in A => f[1 .. k] = F[<<f[(1 .. k) \ {k}], seq[k]>>]
  PROVE  FoldsTo(A, F, base, seq, f[1 .. Len(seq)])
<1> DEFINE n == Len(seq)
           h == [k \in 0 .. n |-> f[1 .. k]]
           S == {k \in 0 .. n : f[1 .. k] \in A}
<1>n. n \in Nat /\ \A k \in 1 .. n : seq[k] \in B
  OBVIOUS
<1>k. \A k \in 1 .. n : k \in Nat /\ k # 0 /\ k \in 0 .. n /\ k - 1 \in 0 .. n
  BY <1>n
<1>p. \A k \in 1 .. n : (1 .. k) \ {k} = 1 .. k - 1
  BY <1>k, LastPlace
<1>1. 0 \in S
  <2>1. 1 .. 0 = {} /\ 0 \in 0 .. n
    BY <1>n
  <2> QED
    BY <2>1
<1>2. ASSUME NEW k \in 1 .. n, k - 1 \in S PROVE k \in S
  <2>1. f[1 .. k - 1] \in A
    BY <1>2
  <2> HIDE DEF n
  <2>2. f[1 .. k] = F[<<f[1 .. k - 1], seq[k]>>]
    BY <1>p, <2>1 DEF n
  <2>3. f[1 .. k] \in A
    BY <2>1, <2>2, <1>n
  <2> QED
    BY <1>k, <2>3
<1>3. ASSUME NEW k \in 0 .. n PROVE k \in S
  <2>1. 0 \in S /\ \A i \in 1 .. k : i - 1 \in S => i \in S
    BY <1>1, <1>2, <1>n
  <2> HIDE DEF S, n
  <2>2. k \in Nat
    BY <1>n
  <2> QED
    BY <2>1, <2>2, Counting
<1>4. h \in [0 .. n -> A]
  BY <1>3
<1>5. h[0] = base
  <2>1. 1 .. 0 = {} /\ 0 \in 0 .. n
    BY <1>n
  <2> QED
    BY <2>1
<1>6. ASSUME NEW k \in 1 .. n PROVE h[k] = F[<<h[k - 1], seq[k]>>]
  <2>1. h[k] = f[1 .. k] /\ h[k - 1] = f[1 .. k - 1] /\ f[1 .. k - 1] \in A
    BY <1>k, <1>3
  <2> HIDE DEF h
  <2> QED
    BY <1>p, <2>1
<1>7. Course(h, A, F, base, seq)
  <2> HIDE DEF h
  <2> QED
    BY <1>4, <1>5, <1>6 DEF Course
<1>8. h[n] = f[1 .. n]
  BY <1>n
<1> QED
  BY <1>7, <1>8 DEF FoldsTo
=============================================================================
