----------------------------- MODULE TextProofs -----------------------------
(***************************************************************************)
(* Texts without the characters that do not count: what appending one      *)
(* character and putting two texts together does to them.  Then the texts  *)
(* of numbers: which of them stringToLongLong reads, and as what, at any   *)
(* width of the integers.                                                  *)
(***************************************************************************)
EXTENDS Texts, IntegerToken, FiniteSetsExt, SequenceTheorems, FiniteSetTheorems,
        WellFoundedInduction, TLAPS

(* Induction over the numbers, without a predicate as parameter.           *)
LEMMA LeastNumber ==
  ASSUME NEW T \in SUBSET Nat, T # {}
  PROVE  \E x \in T : \A y \in T : x <= y
<1> DEFINE Less == OpToRel(<, Nat)
<1>1. \A x, y \in Nat : <<y, x>> \in Less <=> y < x
  BY DEF OpToRel
<1>2. IsWellFoundedOn(Less, Nat)
  BY NatLessThanWellFounded, Zenon
<1> HIDE DEF Less
<1>3. PICK x \in T : \A y \in T : ~ (<<y, x>> \in Less)
  BY <1>2, WFMin, Zenon
<1>4. ASSUME NEW t \in T PROVE x <= t
  <2>1. x \in Nat /\ t \in Nat
    OBVIOUS
  <2>2. ~ (t < x)
    BY <1>1, <1>3, <2>1, Zenon
  <2> QED BY <2>1, <2>2
<1> QED BY <1>4

LEMMA GreatestNumber ==
  ASSUME NEW n \in Nat, NEW T \in SUBSET (0 .. n), T # {}
  PROVE  \E x \in T : \A y \in T : y <= x
<1> DEFINE U == {n - x : x \in T}
<1>1. U \in SUBSET Nat /\ U # {}
  <2>1. \A x \in T : x \in 0 .. n
    OBVIOUS
  <2>2. \A x \in T : n - x \in Nat
    BY <2>1
  <2> QED BY <2>2
<1>2. PICK u \in U : \A y \in U : u <= y
  BY <1>1, LeastNumber
<1>3. PICK x \in T : u = n - x
  BY <1>2
<1>4. \A y \in T : n - x <= n - y
  BY <1>2, <1>3
<1> QED BY <1>4

-----------------------------------------------------------------------------
(* Ranks *)

LEMMA PlacesFinite ==
  ASSUME NEW L \in Nat, NEW K \in SUBSET (1 .. L)
  PROVE  /\ IsFiniteSet(K) /\ Cardinality(K) \in Nat
         /\ \A m \in Nat : /\ IsFiniteSet({j \in K : j <= m}) /\ UpTo(K, m) \in Nat
                           /\ UpTo(K, m) <= Cardinality(K)
<1>1. IsFiniteSet(K)
  <2>1. IsFiniteSet(1 .. L)
    BY FS_Interval
  <2> QED BY <2>1, FS_Subset, Zenon
<1>2. ASSUME NEW m \in Nat
      PROVE  IsFiniteSet({j \in K : j <= m}) /\ UpTo(K, m) \in Nat /\ UpTo(K, m) <= Cardinality(K)
  <2> DEFINE P == {j \in K : j <= m}
  <2>1. P \in SUBSET K
    OBVIOUS
  <2> HIDE DEF P
  <2>2. IsFiniteSet(P) /\ Cardinality(P) <= Cardinality(K)
    BY <1>1, <2>1, FS_Subset, Zenon
  <2>3. Cardinality(P) \in Nat
    BY <2>2, FS_CardinalityType, Zenon
  <2> QED BY <2>2, <2>3, Zenon DEF UpTo, P
<1> QED BY <1>1, <1>2, FS_CardinalityType

LEMMA UpToNext ==
  ASSUME NEW L \in Nat, NEW K \in SUBSET (1 .. L), NEW m \in Nat
  PROVE  UpTo(K, m + 1) = IF m + 1 \in K THEN UpTo(K, m) + 1 ELSE UpTo(K, m)
<1>1. IsFiniteSet({j \in K : j <= m}) /\ m + 1 \notin {j \in K : j <= m}
  BY PlacesFinite
<1> DEFINE P == {j \in K : j <= m}
           Q == {j \in K : j <= m + 1}
<1>2. \A j \in K : j \in Nat
  OBVIOUS
<1>3. \A j \in K : j <= m + 1 <=> j <= m \/ j = m + 1
  BY <1>2
<1>4. CASE m + 1 \in K
  <2>1. Q = P \cup {m + 1}
    BY <1>3, <1>4
  <2> HIDE DEF P, Q
  <2>2. Cardinality(P \cup {m + 1}) = Cardinality(P) + 1
    BY <1>1, FS_AddElement, Zenon DEF P
  <2> QED BY <1>4, <2>1, <2>2 DEF UpTo, P, Q
<1>5. CASE m + 1 \notin K
  <2>1. Q = P
    BY <1>3, <1>5
  <2> HIDE DEF P, Q
  <2> QED BY <1>5, <2>1 DEF UpTo, P, Q
<1> QED BY <1>4, <1>5

LEMMA UpToGrows ==
  ASSUME NEW L \in Nat, NEW K \in SUBSET (1 .. L), NEW m \in Nat, NEW n \in Nat, m < n, n \in K
  PROVE  UpTo(K, m) < UpTo(K, n)
<1> DEFINE P == {j \in K : j <= m}
           Q == {j \in K : j <= n}
<1>1. \A j \in K : j \in Nat
  OBVIOUS
<1>2. P \in SUBSET Q /\ n \in Q /\ n \notin P
  <2>1. \A j \in K : j <= m => j <= n
    BY <1>1
  <2>2. n <= n /\ ~ (n <= m)
    OBVIOUS
  <2> QED BY <2>1, <2>2, Zenon
<1>3. IsFiniteSet(Q) /\ Cardinality(P) \in Nat /\ Cardinality(Q) \in Nat
  BY PlacesFinite DEF UpTo
<1> HIDE DEF P, Q
<1>4. Cardinality(P) <= Cardinality(Q) /\ (Cardinality(Q) = Cardinality(P) => Q = P)
  BY <1>2, <1>3, FS_Subset, Zenon
<1>5. Cardinality(P) < Cardinality(Q)
  BY <1>2, <1>3, <1>4
<1> QED BY <1>5, Zenon DEF UpTo, P, Q

LEMMA UpToEnds ==
  ASSUME NEW L \in Nat, NEW K \in SUBSET (1 .. L)
  PROVE  UpTo(K, 0) = 0 /\ UpTo(K, L) = Cardinality(K)
<1>0. \A j \in K : j \in Nat /\ ~ (j <= 0) /\ j <= L
  OBVIOUS
<1>1. {j \in K : j <= 0} = {} /\ {j \in K : j <= L} = K
  BY <1>0
<1> QED BY <1>1, FS_EmptySet DEF UpTo

(* Each rank has its place: the first up to which there are so many.       *)
LEMMA EachRank ==
  ASSUME NEW L \in Nat, NEW K \in SUBSET (1 .. L), NEW n \in 1 .. Cardinality(K)
  PROVE  \E i \in K : UpTo(K, i) = n
<1> DEFINE T == {m \in Nat : UpTo(K, m) >= n}
<1>1. Cardinality(K) \in Nat /\ L \in T
  <2>1. Cardinality(K) \in Nat
    BY PlacesFinite, Zenon
  <2>2. UpTo(K, L) = Cardinality(K)
    BY UpToEnds, Zenon
  <2> QED BY <2>1, <2>2
<1>0. \A m \in Nat : UpTo(K, m) \in Nat
  BY PlacesFinite, Zenon
<1>2. PICK m \in T : \A y \in T : m <= y
  <2>1. T \in SUBSET Nat /\ T # {}
    BY <1>1
  <2> QED BY <2>1, LeastNumber
<1>3. m # 0
  BY <1>1, UpToEnds
<1>4. m - 1 \in Nat /\ m - 1 \notin T
  BY <1>2, <1>3
<1>5. UpTo(K, m - 1) < n /\ UpTo(K, m - 1) \in Nat /\ UpTo(K, m) \in Nat /\ UpTo(K, m) >= n
  BY <1>0, <1>1, <1>4
<1>6. UpTo(K, (m - 1) + 1) = IF (m - 1) + 1 \in K THEN UpTo(K, m - 1) + 1 ELSE UpTo(K, m - 1)
  BY <1>4, UpToNext
<1> QED BY <1>1, <1>4, <1>5, <1>6

LEMMA RankIsUnique ==
  ASSUME NEW L \in Nat, NEW K \in SUBSET (1 .. L), NEW i \in K, NEW j \in K,
         UpTo(K, i) = UpTo(K, j)
  PROVE  i = j
<1>0. i \in Nat /\ j \in Nat
  OBVIOUS
<1>3. UpTo(K, i) \in Nat
  BY <1>0, PlacesFinite, Zenon
<1>1. ASSUME i < j PROVE FALSE
  <2>1. UpTo(K, i) < UpTo(K, j)
    BY <1>0, <1>1, UpToGrows, Zenon
  <2> QED BY <1>3, <2>1
<1>2. ASSUME j < i PROVE FALSE
  <2>1. UpTo(K, j) < UpTo(K, i)
    BY <1>0, <1>2, UpToGrows, Zenon
  <2> QED BY <1>3, <2>1
<1> QED BY <1>0, <1>1, <1>2

-----------------------------------------------------------------------------
(* Texts *)

LEMMA KeptIs ==
  ASSUME NEW C, NEW s \in Seq(C), NEW X
  PROVE  /\ Len(s) \in Nat /\ Kept(s, X) \in SUBSET (1 .. Len(s))
         /\ Cardinality(Kept(s, X)) \in Nat
<1>1. Len(s) \in Nat /\ DOMAIN s = 1 .. Len(s)
  OBVIOUS
<1>2. Kept(s, X) \in SUBSET (1 .. Len(s))
  BY <1>1 DEF Kept
<1> QED BY <1>1, <1>2, PlacesFinite, Zenon

(* The character of a rank is at the only place that has it.               *)
LEMMA WithoutAt ==
  ASSUME NEW C, NEW s \in Seq(C), NEW X, NEW i \in Kept(s, X)
  PROVE  /\ UpTo(Kept(s, X), i) \in 1 .. Cardinality(Kept(s, X))
         /\ Without(s, X)[UpTo(Kept(s, X), i)] = s[i]
<1> DEFINE K == Kept(s, X)
           n == UpTo(K, i)
<1>1. Len(s) \in Nat /\ K \in SUBSET (1 .. Len(s)) /\ i \in K /\ i \in Nat
  BY KeptIs
<1>2. n \in 1 .. Cardinality(K)
  <2> HIDE DEF K
  <2>1. UpTo(K, 0) < n /\ UpTo(K, 0) = 0
    <3>1. 0 \in Nat /\ 0 < i
      BY <1>1
    <3> QED BY <1>1, <3>1, UpToGrows, UpToEnds, Zenon
  <2>2. n \in Nat /\ n <= Cardinality(K) /\ Cardinality(K) \in Nat
    BY <1>1, PlacesFinite, Zenon
  <2> QED BY <2>1, <2>2
<1> HIDE DEF K
<1>3. Place(K, n) = i
  BY <1>1, RankIsUnique DEF Place
<1> QED BY <1>2, <1>3 DEF Without, K

LEMMA WithoutIsText ==
  ASSUME NEW C, NEW s \in Seq(C), NEW X
  PROVE  /\ Without(s, X) \in Seq(C \ X)
         /\ Len(Without(s, X)) = Cardinality(Kept(s, X))
<1> DEFINE K == Kept(s, X)
           N == Cardinality(K)
<1>1. Len(s) \in Nat /\ K \in SUBSET (1 .. Len(s)) /\ N \in Nat
  BY KeptIs
<1>2. ASSUME NEW n \in 1 .. N PROVE Without(s, X)[n] \in C \ X
  <2>1. PICK i \in K : UpTo(K, i) = n
    BY <1>1, EachRank
  <2>2. Without(s, X)[n] = s[i]
    BY <2>1, WithoutAt
  <2> QED BY <1>1, <2>1, <2>2 DEF Kept
<1>3. Without(s, X) = [n \in 1 .. N |-> Without(s, X)[n]]
  BY DEF Without
<1> HIDE DEF N
<1>4. Without(s, X) \in [1 .. N -> C \ X]
  BY <1>2, <1>3
<1> QED BY <1>1, <1>4 DEF N

LEMMA WithoutEmpty ==
  ASSUME NEW X
  PROVE  Without(<<>>, X) = <<>>
<1>1. Kept(<<>>, X) = {}
  BY DEF Kept
<1>2. Cardinality(Kept(<<>>, X)) = 0
  BY <1>1, FS_EmptySet
<1>3. <<>> \in Seq({})
  OBVIOUS
<1> QED BY <1>2, <1>3, WithoutIsText, EmptySeq

(* One more character is left at the end, or not counted.                  *)
LEMMA WithoutAppend ==
  ASSUME NEW C, NEW s \in Seq(C), NEW X, NEW c \in C
  PROVE  Without(Append(s, c), X)
           = IF c \in X THEN Without(s, X) ELSE Append(Without(s, X), c)
<1> DEFINE t == Append(s, c)
           K == Kept(s, X)
           M == Kept(t, X)
           L == Len(s)
<1>1. /\ L \in Nat /\ K \in SUBSET (1 .. L) /\ Cardinality(K) \in Nat
      /\ t \in Seq(C) /\ Len(t) = L + 1 /\ t[L + 1] = c /\ \A i \in 1 .. L : t[i] = s[i]
  BY KeptIs, AppendProperties
<1>2. M = IF c \in X THEN K ELSE K \cup {L + 1}
  <2>1. DOMAIN t = 1 .. L + 1 /\ DOMAIN s = 1 .. L
    BY <1>1
  <2>2. \A i : i \in 1 .. L + 1 <=> i \in 1 .. L \/ i = L + 1
    BY <1>1
  <2>3. L + 1 \notin 1 .. L
    BY <1>1
  <2>4. \A i : i \in M <=> (i \in 1 .. L /\ s[i] \notin X) \/ (i = L + 1 /\ c \notin X)
    <3> HIDE DEF t, L
    <3> QED BY <1>1, <2>1, <2>2, Zenon DEF Kept
  <2>5. \A i : i \in K <=> i \in 1 .. L /\ s[i] \notin X
    BY <2>1, Zenon DEF Kept
  <2> HIDE DEF t, L, M, K
  <2> QED BY <2>4, <2>5
<1>3. M \in SUBSET (1 .. L + 1)
  BY <1>1, <1>2
<1> HIDE DEF t, L, M, K
<1>4. Cardinality(M) = IF c \in X THEN Cardinality(K) ELSE Cardinality(K) + 1
  <2>0. IsFiniteSet(K)
    BY <1>1, PlacesFinite, Zenon
  <2>1. IsFiniteSet(K) /\ L + 1 \notin K
    BY <1>1, <2>0
  <2>2. Cardinality(K \cup {L + 1}) = Cardinality(K) + 1
    BY <2>1, FS_AddElement, Zenon
  <2> QED BY <1>2, <2>2
<1>5. ASSUME NEW n \in 1 .. Cardinality(K) PROVE Without(t, X)[n] = Without(s, X)[n]
  <2>1. PICK i \in K : UpTo(K, i) = n
    BY <1>1, EachRank
  <2>2. {j \in M : j <= i} = {j \in K : j <= i}
    BY <1>1, <1>2
  <2>3. i \in M /\ UpTo(M, i) = n
    BY <1>2, <2>1, <2>2 DEF UpTo
  <2>4. Without(t, X)[n] = t[i]
    BY <1>1, <2>3, WithoutAt DEF M
  <2>5. Without(s, X)[n] = s[i]
    BY <1>1, <2>1, WithoutAt DEF K
  <2> QED BY <1>1, <2>4, <2>5
<1>6. ASSUME c \notin X PROVE Without(t, X)[Cardinality(K) + 1] = c
  <2>1. L + 1 \in M /\ UpTo(M, L + 1) = Cardinality(M)
    BY <1>1, <1>2, <1>3, <1>6, UpToEnds
  <2>2. Without(t, X)[UpTo(M, L + 1)] = t[L + 1]
    BY <1>1, <2>1, WithoutAt DEF M
  <2> QED BY <1>1, <1>4, <1>6, <2>1, <2>2
<1>7. /\ Without(s, X) \in Seq(C) /\ Len(Without(s, X)) = Cardinality(K)
      /\ Without(t, X) \in Seq(C) /\ Len(Without(t, X)) = Cardinality(M)
  <2>1. /\ Without(s, X) \in Seq(C \ X) /\ Len(Without(s, X)) = Cardinality(K)
        /\ Without(t, X) \in Seq(C \ X) /\ Len(Without(t, X)) = Cardinality(M)
    BY <1>1, WithoutIsText DEF K, M
  <2> QED BY <2>1, SeqMonotonic
<1>8. CASE c \in X
  BY <1>4, <1>5, <1>7, <1>8, SeqEqual DEF t
<1>9. CASE c \notin X
  <2> DEFINE u == Append(Without(s, X), c)
  <2>1. /\ u \in Seq(C) /\ Len(u) = Cardinality(K) + 1 /\ u[Cardinality(K) + 1] = c
        /\ \A n \in 1 .. Cardinality(K) : u[n] = Without(s, X)[n]
    BY <1>7, AppendProperties
  <2>2. \A n \in 1 .. Cardinality(K) + 1 : Without(t, X)[n] = u[n]
    BY <1>1, <1>5, <1>6, <1>9, <2>1
  <2> HIDE DEF u
  <2>3. Without(t, X) = u
    BY <1>1, <1>4, <1>7, <1>9, <2>1, <2>2, SeqEqual
  <2> QED BY <1>9, <2>3 DEF t, u
<1> QED BY <1>8, <1>9

LEMMA ConcatAppend ==
  ASSUME NEW C, NEW s \in Seq(C), NEW t \in Seq(C), NEW c \in C
  PROVE  s \o Append(t, c) = Append(s \o t, c)
<1>1. <<c>> \in Seq(C) /\ s \o t \in Seq(C)
  BY ConcatProperties
<1>2. s \o Append(t, c) = s \o (t \o <<c>>) /\ Append(s \o t, c) = (s \o t) \o <<c>>
  BY <1>1, AppendIsConcat
<1> QED BY <1>1, <1>2, ConcatAssociative

(* What is left of two texts together is what is left of each.             *)
LEMMA WithoutConcat ==
  ASSUME NEW C, NEW X, NEW a \in Seq(C), NEW b \in Seq(C)
  PROVE  Without(a \o b, X) = Without(a, X) \o Without(b, X)
<1> DEFINE Splits(t) == Without(a \o t, X) = Without(a, X) \o Without(t, X)
           Odd == {n \in Nat : \E t \in Seq(C) : Len(t) = n /\ ~ Splits(t)}
<1>0. \A t \in Seq(C) : Without(t, X) \in Seq(C)
  <2>1. \A t \in Seq(C) : Without(t, X) \in Seq(C \ X)
    BY WithoutIsText
  <2> QED BY <2>1, SeqMonotonic
<1> HIDE DEF Odd
<1>1. Odd = {}
  <2> SUFFICES ASSUME Odd # {} PROVE FALSE
    OBVIOUS
  <2>1. PICK n \in Odd : \A m \in Odd : n <= m
    <3>1. Odd \in SUBSET Nat
      BY DEF Odd
    <3> QED BY <3>1, LeastNumber
  <2>2. PICK t \in Seq(C) : Len(t) = n /\ ~ Splits(t)
    BY <2>1 DEF Odd
  <2>3. t # <<>>
    <3>1. a \o <<>> = a /\ Without(a, X) \o <<>> = Without(a, X)
      BY <1>0, ConcatEmptySeq
    <3> QED BY <2>2, <3>1, WithoutEmpty
  <2>4. PICK u \in Seq(C), c \in C : t = Append(u, c)
    BY <2>3, SequenceEmptyOrAppend
  <2>5. Len(u) \in Nat /\ Len(u) + 1 = n
    BY <2>2, <2>4, AppendProperties, LenProperties
  <2>6. Splits(u)
    <3>1. n \in Nat /\ Len(u) \notin Odd
      BY <2>1, <2>5 DEF Odd
    <3> QED BY <2>5, <3>1 DEF Odd
  <2>7. a \o t = Append(a \o u, c) /\ a \o u \in Seq(C)
    BY <2>4, ConcatAppend, ConcatProperties
  <2>0. \A v \in Seq(C) : Without(Append(v, c), X)
                            = IF c \in X THEN Without(v, X) ELSE Append(Without(v, X), c)
    BY WithoutAppend
  <2>8. CASE c \in X
    <3>1. Without(a \o t, X) = Without(a \o u, X) /\ Without(t, X) = Without(u, X)
      BY <2>0, <2>4, <2>7, <2>8
    <3> QED BY <2>2, <2>6, <3>1
  <2>9. CASE c \notin X
    <3>1. /\ Without(a \o t, X) = Append(Without(a \o u, X), c)
          /\ Without(t, X) = Append(Without(u, X), c)
      BY <2>0, <2>4, <2>7, <2>9
    <3>2. Without(a, X) \o Append(Without(u, X), c) = Append(Without(a, X) \o Without(u, X), c)
      <4>1. \A v, w \in Seq(C) : v \o Append(w, c) = Append(v \o w, c)
        BY ConcatAppend
      <4> QED BY <1>0, <4>1
    <3> QED BY <2>2, <2>6, <3>1, <3>2
  <2> QED BY <2>8, <2>9
<1>2. Splits(b)
  <2>1. Len(b) \in Nat
    BY LenProperties
  <2> QED BY <1>1, <2>1 DEF Odd
<1> QED BY <1>2

LEMMA WithoutOne ==
  ASSUME NEW C, NEW c \in C, NEW X
  PROVE  Without(<<c>>, X) = IF c \in X THEN <<>> ELSE <<c>>
<1>1. <<>> \in Seq(C) /\ Append(<<>>, c) = <<c>>
  OBVIOUS
<1>2. \A v \in Seq(C) : Without(Append(v, c), X)
                          = IF c \in X THEN Without(v, X) ELSE Append(Without(v, X), c)
  BY WithoutAppend
<1> QED BY <1>1, <1>2, WithoutEmpty

LEMMA WithoutAll ==
  ASSUME NEW C, NEW s \in Seq(C), NEW X, \A i \in 1 .. Len(s) : s[i] \in X
  PROVE  Without(s, X) = <<>>
<1>1. DOMAIN s = 1 .. Len(s)
  OBVIOUS
<1>2. Kept(s, X) = {}
  BY <1>1 DEF Kept
<1>3. Cardinality(Kept(s, X)) = 0
  BY <1>2, FS_EmptySet
<1>4. Without(s, X) \in Seq(C \ X) /\ Len(Without(s, X)) = 0
  BY <1>3, WithoutIsText
<1> QED BY <1>4, EmptySeq

-----------------------------------------------------------------------------
(* Places of a text *)

LEMMA FirstPlace ==
  ASSUME NEW L \in Nat, NEW I \in SUBSET (1 .. L), I # {}
  PROVE  Min(I) \in I /\ \A y \in I : Min(I) <= y
<1>1. I \in SUBSET Nat
  OBVIOUS
<1>2. \E x \in I : \A y \in I : x <= y
  BY <1>1, LeastNumber
<1> QED BY <1>2 DEF Min

LEMMA LastPlace ==
  ASSUME NEW L \in Nat, NEW I \in SUBSET (1 .. L), I # {}
  PROVE  Max(I) \in I /\ \A y \in I : y <= Max(I)
<1>1. I \in SUBSET (0 .. L)
  OBVIOUS
<1>2. \E x \in I : \A y \in I : y <= x
  BY <1>1, GreatestNumber
<1>3. \E x \in I : \A y \in I : x >= y
  <2>1. PICK x \in I : \A y \in I : y <= x
    BY <1>2
  <2>2. \A y \in I : x >= y
    BY <1>1, <2>1
  <2> QED BY <2>2
<1>4. Max(I) \in I /\ \A y \in I : Max(I) >= y
  BY <1>3 DEF Max
<1> QED BY <1>1, <1>4

(* A text is what comes before a place and what comes from it on.          *)
LEMMA SplitText ==
  ASSUME NEW C, NEW s \in Seq(C), NEW n \in 1 .. Len(s) + 1
  PROVE  /\ SubSeq(s, 1, n - 1) \in Seq(C) /\ SubSeq(s, n, Len(s)) \in Seq(C)
         /\ s = SubSeq(s, 1, n - 1) \o SubSeq(s, n, Len(s))
         /\ Len(SubSeq(s, 1, n - 1)) = n - 1
         /\ \A i \in 1 .. n - 1 : SubSeq(s, 1, n - 1)[i] = s[i]
         /\ n <= Len(s) => SubSeq(s, n, Len(s)) # <<>> /\ SubSeq(s, n, Len(s))[1] = s[n]
<1>1. Len(s) \in Nat /\ \A i \in 1 .. Len(s) : s[i] \in C
  OBVIOUS
<1>2. SubSeq(s, 1, n - 1) \in Seq(C) /\ Len(SubSeq(s, 1, n - 1)) = n - 1
  BY <1>1
<1>3. SubSeq(s, n, Len(s)) \in Seq(C) /\ Len(SubSeq(s, n, Len(s))) = Len(s) - n + 1
  BY <1>1
<1>4. \A i \in 1 .. n - 1 : SubSeq(s, 1, n - 1)[i] = s[i]
  BY <1>1
<1>5. n <= Len(s) => SubSeq(s, n, Len(s)) # <<>> /\ SubSeq(s, n, Len(s))[1] = s[n]
  <2>1. ASSUME n <= Len(s) PROVE SubSeq(s, n, Len(s)) # <<>> /\ SubSeq(s, n, Len(s))[1] = s[n]
    <3>1. n \in Int /\ Len(s) \in Int /\ n <= Len(s)
      BY <1>1, <2>1
    <3>2. SubSeq(s, n, Len(s))[1] = s[n]
      BY <1>1, <3>1
    <3>3. Len(SubSeq(s, n, Len(s))) # 0
      BY <1>3, <3>1
    <3> QED BY <3>2, <3>3
  <2> QED BY <2>1
<1>6. s = SubSeq(s, 1, n - 1) \o SubSeq(s, n, Len(s))
  <2>1. PICK k \in Nat : k = n - 1
    OBVIOUS
  <2>2. /\ 1 \in 1 .. Len(s) + 1 /\ k \in 1 - 1 .. Len(s) /\ Len(s) \in k .. Len(s)
        /\ n = k + 1
    BY <1>1, <2>1
  <2>3. SubSeq(s, 1, k) \o SubSeq(s, k + 1, Len(s)) = SubSeq(s, 1, Len(s))
    BY <2>2, ConcatAdjacentSubSeq, Zenon
  <2>4. SubSeq(s, 1, Len(s)) = s
    BY SubSeqFull, Zenon
  <2> QED BY <2>1, <2>2, <2>3, <2>4, Zenon
<1> QED BY <1>2, <1>3, <1>4, <1>5, <1>6

LEMMA FirstAndRest ==
  ASSUME NEW C, NEW s \in Seq(C), s # <<>>
  PROVE  s[1] \in C /\ Tail(s) \in Seq(C) /\ s = <<s[1]>> \o Tail(s)
<1>1. s[1] \in C /\ Tail(s) \in Seq(C)
  OBVIOUS
<1>2. Len(s) \in Nat /\ Len(s) # 0 /\ Len(Tail(s)) = Len(s) - 1
  OBVIOUS
<1>3. 1 \in 1 .. Len(s) /\ Len(s) \in 1 .. Len(s)
  BY <1>2
<1>4. SubSeq(s, 1, Len(s)) = <<s[1]>> \o SubSeq(s, 1 + 1, Len(s))
  BY <1>3, SubSeqRecursiveFirst
<1>5. SubSeq(s, 1, Len(s)) = s /\ Tail(s) = SubSeq(s, 2, Len(s))
  BY SubSeqFull, TailIsSubSeq
<1> QED BY <1>1, <1>4, <1>5

(* Concatenation, where no more than these laws is needed of it.           *)
Cat(s, t) == s \o t

LEMMA CatIs ==
  ASSUME NEW C
  PROVE  /\ \A x, y \in Seq(C) : Cat(x, y) \in Seq(C)
         /\ \A x, y, z \in Seq(C) : Cat(Cat(x, y), z) = Cat(x, Cat(y, z))
         /\ <<>> \in Seq(C) /\ \A x \in Seq(C) : Cat(<<>>, x) = x /\ Cat(x, <<>>) = x
<1>1. \A x, y \in Seq(C) : x \o y \in Seq(C)
  BY ConcatProperties
<1>2. \A x, y, z \in Seq(C) : (x \o y) \o z = x \o (y \o z)
  BY ConcatAssociative
<1>3. <<>> \in Seq(C) /\ \A x \in Seq(C) : <<>> \o x = x /\ x \o <<>> = x
  BY ConcatEmptySeq
<1> QED BY <1>1, <1>2, <1>3, Zenon DEF Cat

(* A first character and the rest determine a text.                        *)
LEMMA FirstIs ==
  ASSUME NEW C
  PROVE  /\ \A c \in C : <<c>> \in Seq(C)
         /\ \A c \in C : \A s \in Seq(C) : Cat(<<c>>, s) # <<>> /\ Cat(<<c>>, s)[1] = c
         /\ \A c, d \in C : \A s, t \in Seq(C) :
              Cat(<<c>>, s) = Cat(<<d>>, t) => c = d /\ s = t
<1>1. \A c \in C : <<c>> \in Seq(C)
  OBVIOUS
<1>2. ASSUME NEW c \in C, NEW s \in Seq(C)
      PROVE  Cat(<<c>>, s) # <<>> /\ Cat(<<c>>, s)[1] = c /\ Tail(Cat(<<c>>, s)) = s
  <2> DEFINE t == <<c>> \o s
  <2>1. t \in Seq(C) /\ Len(t) = 1 + Len(s) /\ t[1] = c /\ \A i \in 1 .. Len(s) : t[1 + i] = s[i]
    OBVIOUS
  <2> HIDE DEF t
  <2>2. t # <<>> /\ Len(s) \in Nat
    BY <2>1
  <2>3. /\ Tail(t) \in Seq(C) /\ Len(Tail(t)) = Len(t) - 1
        /\ \A i \in 1 .. Len(Tail(t)) : Tail(t)[i] = t[i + 1]
    BY <2>1, <2>2, HeadTailProperties
  <2>4. Len(Tail(t)) = Len(s) /\ \A i \in 1 .. Len(Tail(t)) : Tail(t)[i] = s[i]
    BY <2>1, <2>2, <2>3
  <2>5. Tail(t) = s
    BY <2>3, <2>4, SeqEqual
  <2> QED BY <2>1, <2>2, <2>5 DEF Cat, t
<1>3. ASSUME NEW c \in C, NEW d \in C, NEW s \in Seq(C), NEW t \in Seq(C),
             Cat(<<c>>, s) = Cat(<<d>>, t)
      PROVE  c = d /\ s = t
  <2>1. Cat(<<c>>, s)[1] = c /\ Tail(Cat(<<c>>, s)) = s
    BY <1>2
  <2>2. Cat(<<d>>, t)[1] = d /\ Tail(Cat(<<d>>, t)) = t
    BY <1>2
  <2> QED BY <1>3, <2>1, <2>2
<1> QED BY <1>1, <1>2, <1>3

(* The first of two texts is found again by its length.                    *)
LEMMA PrefixIs ==
  ASSUME NEW C, NEW a \in Seq(C), NEW b \in Seq(C)
  PROVE  /\ Len(a) \in 0 .. Len(Cat(a, b)) /\ SubSeq(Cat(a, b), 1, Len(a)) = a
         /\ Len(a) = Len(Cat(a, b)) \/ (b # <<>> /\ Cat(a, b)[Len(a) + 1] = b[1])
<1> DEFINE t == a \o b
<1>1. /\ Len(a) \in Nat /\ Len(b) \in Nat /\ t \in Seq(C) /\ Len(t) = Len(a) + Len(b)
      /\ \A i \in 1 .. Len(a) + Len(b) : t[i] = IF i <= Len(a) THEN a[i] ELSE b[i - Len(a)]
  BY ConcatProperties
<1> HIDE DEF t
<1>2. Len(a) \in 0 .. Len(t)
  BY <1>1
<1>3. SubSeq(t, 1, Len(a)) = a
  <2> DEFINE u == SubSeq(t, 1, Len(a))
  <2>1. u \in Seq(C) /\ Len(u) = Len(a) /\ \A i \in 1 .. Len(a) : u[i] = t[i]
    BY <1>1
  <2>2. \A i \in 1 .. Len(u) : u[i] = a[i]
    BY <1>1, <2>1
  <2> HIDE DEF u
  <2>3. u = a
    BY <2>1, <2>2, SeqEqual
  <2> QED BY <2>3 DEF u
<1>4. Len(a) = Len(t) \/ (b # <<>> /\ t[Len(a) + 1] = b[1])
  <2>1. CASE Len(b) = 0
    BY <1>1, <2>1
  <2>2. CASE Len(b) # 0
    <3>1. /\ Len(a) + 1 \in 1 .. Len(a) + Len(b) /\ ~ (Len(a) + 1 <= Len(a))
          /\ (Len(a) + 1) - Len(a) = 1
      BY <1>1, <2>2
    <3> QED BY <1>1, <2>2, <3>1
  <2> QED BY <2>1, <2>2
<1> QED BY <1>2, <1>3, <1>4 DEF Cat, t

-----------------------------------------------------------------------------
(* The figures of numbers                                                  *)

FigureSet == ToSet(Figures)

LEMMA FiguresAre ==
  /\ \A c \in FigureSet : Digit[c] \in 0 .. 9 /\ Figures[Digit[c] + 1] = c
  /\ \A d \in 0 .. 9 : Figures[d + 1] \in FigureSet /\ Digit[Figures[d + 1]] = d
  /\ "0" \in FigureSet /\ Digit["0"] = 0 /\ "-" \notin FigureSet
<1>1. FigureSet = {Figures[i] : i \in 1 .. 10}
  BY DEF FigureSet, ToSet, Figures
<1>2. \A i, j \in 1 .. 10 : Figures[i] = Figures[j] => i = j
  BY DEF Figures
<1>3. Figures[1] = "0" /\ \A i \in 1 .. 10 : Figures[i] # "-"
  BY DEF Figures
<1>4. Digit = [c \in FigureSet |-> (CHOOSE f \in 1 .. 10 : Figures[f] = c) - 1]
  BY DEF Digit, FigureSet
<1> HIDE DEF FigureSet
<1>5. ASSUME NEW i \in 1 .. 10
      PROVE  Figures[i] \in FigureSet /\ Digit[Figures[i]] = i - 1
  <2>1. (CHOOSE f \in 1 .. 10 : Figures[f] = Figures[i]) = i
    BY <1>2
  <2> QED BY <1>1, <1>4, <2>1
<1>6. \A c \in FigureSet : Digit[c] \in 0 .. 9 /\ Figures[Digit[c] + 1] = c
  <2> SUFFICES ASSUME NEW i \in 1 .. 10
               PROVE  Digit[Figures[i]] \in 0 .. 9 /\ Figures[Digit[Figures[i]] + 1] = Figures[i]
    BY <1>1
  <2> QED BY <1>5
<1>7. ASSUME NEW d \in 0 .. 9 PROVE Figures[d + 1] \in FigureSet /\ Digit[Figures[d + 1]] = d
  <2>1. d + 1 \in 1 .. 10 /\ (d + 1) - 1 = d
    OBVIOUS
  <2> QED BY <1>5, <2>1
<1>8. "0" \in FigureSet /\ Digit["0"] = 0
  BY <1>3, <1>5
<1>9. "-" \notin FigureSet
  BY <1>1, <1>3
<1> QED BY <1>6, <1>7, <1>8, <1>9

LEMMA FigureSetIs ==
  "EOFC" \notin FigureSet /\ "-" \notin FigureSet /\ "EOFC" # "-"
<1>1. FigureSet = {Figures[i] : i \in 1 .. 10}
  BY DEF FigureSet, ToSet, Figures
<1>2. \A i \in 1 .. 10 : Figures[i] # "EOFC"
  BY DEF Figures
<1> QED BY <1>1, <1>2, FiguresAre

(* The numbers up to N are written as Figured writes them.                 *)
Writes(g, N) ==
  g = [n \in 0 .. N |-> IF n < 10 THEN <<Figures[n + 1]>>
                        ELSE Append(g[n \div 10], Figures[(n % 10) + 1])]

LEMMA WritesAt ==
  ASSUME NEW N \in Nat, NEW g, Writes(g, N), NEW n \in 0 .. N
  PROVE  g[n] = IF n < 10 THEN <<Figures[n + 1]>>
                ELSE Append(g[n \div 10], Figures[(n % 10) + 1])
BY DEF Writes

LEMMA Tenth ==
  /\ \A n \in Nat : /\ n \div 10 \in Nat /\ n % 10 \in 0 .. 9 /\ n = 10 * (n \div 10) + (n % 10)
                    /\ n >= 10 => n \div 10 < n /\ n \div 10 >= 1
                    /\ n < 10 => n \div 10 = 0 /\ n % 10 = n
  /\ \A n \in Nat : \A d \in 0 .. 9 : (10 * n + d) \div 10 = n /\ (10 * n + d) % 10 = d
  /\ \A m, n \in Nat : m <= n => m \div 10 <= n \div 10
OBVIOUS

LEMMA WritesAlike ==
  ASSUME NEW M \in Nat, NEW N \in Nat, M <= N, NEW g, NEW h, Writes(g, M), Writes(h, N)
  PROVE  \A n \in 0 .. M : g[n] = h[n]
<1> DEFINE Odd == {n \in 0 .. M : g[n] # h[n]}
<1> SUFFICES ASSUME Odd # {} PROVE FALSE
  OBVIOUS
<1>1. PICK n \in Odd : \A m \in Odd : n <= m
  <2>1. Odd \in SUBSET Nat
    OBVIOUS
  <2> HIDE DEF Odd
  <2> QED BY <2>1, LeastNumber
<1>2. /\ n \in 0 .. M /\ n \in 0 .. N
      /\ g[n] = IF n < 10 THEN <<Figures[n + 1]>> ELSE Append(g[n \div 10], Figures[(n % 10) + 1])
      /\ h[n] = IF n < 10 THEN <<Figures[n + 1]>> ELSE Append(h[n \div 10], Figures[(n % 10) + 1])
  BY WritesAt
<1>3. CASE n < 10
  BY <1>1, <1>2, <1>3
<1>4. CASE n >= 10
  <2>1. n \div 10 \in 0 .. M /\ ~ (n <= n \div 10)
    BY <1>2, <1>4, Tenth
  <2>2. g[n \div 10] = h[n \div 10]
    BY <1>1, <2>1
  <2> QED BY <1>1, <1>2, <1>4, <2>2
<1> QED BY <1>2, <1>3, <1>4

LEMMA SomeWrites ==
  ASSUME NEW N \in Nat
  PROVE  \E g : Writes(g, N)
<1> DEFINE Odd == {n \in Nat : ~ \E g : Writes(g, n)}
<1> SUFFICES ASSUME Odd # {} PROVE FALSE
  OBVIOUS
<1>1. PICK n \in Odd : \A m \in Odd : n <= m
  <2>1. Odd \in SUBSET Nat
    OBVIOUS
  <2> HIDE DEF Odd
  <2> QED BY <2>1, LeastNumber
<1>2. PICK g : n = 0 \/ Writes(g, n - 1)
  <2>1. n # 0 => n - 1 \in Nat /\ ~ (n <= n - 1)
    OBVIOUS
  <2>2. n # 0 => n - 1 \notin Odd
    BY <1>1, <2>1
  <2> QED BY <2>1, <2>2
<1> DEFINE old == [m \in 0 .. n |-> IF m = n THEN <<>> ELSE g[m]]
           h == [m \in 0 .. n |-> IF m < 10 THEN <<Figures[m + 1]>>
                                  ELSE Append(g[m \div 10], Figures[(m % 10) + 1])]
<1>3. ASSUME NEW m \in 0 .. n, m # n
      PROVE  h[m] = g[m]
  <2>1. m \in 0 .. n - 1 /\ n # 0
    BY <1>3
  <2>2. g[m] = IF m < 10 THEN <<Figures[m + 1]>> ELSE Append(g[m \div 10], Figures[(m % 10) + 1])
    BY <1>2, <2>1 DEF Writes
  <2> QED BY <2>2
<1>4. ASSUME NEW m \in 0 .. n, ~ (m < 10)
      PROVE  h[m \div 10] = g[m \div 10]
  <2>1. m \div 10 \in 0 .. n /\ m \div 10 # n
    BY <1>4, Tenth
  <2> HIDE DEF h
  <2> QED BY <1>3, <2>1
<1>5. h = [m \in 0 .. n |-> IF m < 10 THEN <<Figures[m + 1]>>
                            ELSE Append(h[m \div 10], Figures[(m % 10) + 1])]
  BY <1>4
<1>6. Writes(h, n)
  <2> HIDE DEF h
  <2> QED BY <1>5, Zenon DEF Writes
<1> QED BY <1>6

LEMMA FiguredIs ==
  /\ \A n \in 0 .. 9 : Figured[n] = <<Figures[n + 1]>>
  /\ \A n \in Nat : n >= 10 => Figured[n] = Append(Figured[n \div 10], Figures[(n % 10) + 1])
<1> DEFINE up[n \in Nat] == CHOOSE g : Writes(g, n)
           G == [n \in Nat |-> up[n][n]]
<1>1. ASSUME NEW n \in Nat PROVE Writes(up[n], n)
  BY SomeWrites
<1> HIDE DEF up
<1>2. ASSUME NEW n \in Nat
      PROVE  G[n] = IF n < 10 THEN <<Figures[n + 1]>>
                    ELSE Append(G[n \div 10], Figures[(n % 10) + 1])
  <2>1. up[n][n] = IF n < 10 THEN <<Figures[n + 1]>>
                   ELSE Append(up[n][n \div 10], Figures[(n % 10) + 1])
    BY <1>1, WritesAt
  <2>2. ASSUME n >= 10 PROVE up[n][n \div 10] = up[n \div 10][n \div 10]
    <3>1. n \div 10 \in Nat /\ n \div 10 <= n /\ n \div 10 \in 0 .. n \div 10
      BY <2>2, Tenth
    <3> QED BY <1>1, <3>1, WritesAlike
  <2>3. n \div 10 \in Nat
    BY Tenth
  <2> QED BY <2>1, <2>2, <2>3
<1>3. G = [n \in Nat |-> IF n < 10 THEN <<Figures[n + 1]>>
                         ELSE Append(G[n \div 10], Figures[(n % 10) + 1])]
  BY <1>2
<1> HIDE DEF G
<1>4. Figured = [n \in Nat |-> IF n < 10 THEN <<Figures[n + 1]>>
                               ELSE Append(Figured[n \div 10], Figures[(n % 10) + 1])]
  BY <1>3, Zenon DEF Figured
<1>5. ASSUME NEW n \in Nat
      PROVE  Figured[n] = IF n < 10 THEN <<Figures[n + 1]>>
                          ELSE Append(Figured[n \div 10], Figures[(n % 10) + 1])
  BY <1>4
<1>6. ASSUME NEW n \in 0 .. 9 PROVE Figured[n] = <<Figures[n + 1]>>
  <2>1. n \in Nat /\ n < 10
    OBVIOUS
  <2> QED BY <1>5, <2>1, Zenon
<1>7. ASSUME NEW n \in Nat, n >= 10
      PROVE  Figured[n] = Append(Figured[n \div 10], Figures[(n % 10) + 1])
  <2>1. ~ (n < 10)
    BY <1>7
  <2> QED BY <1>5, <2>1, Zenon
<1> QED BY <1>6, <1>7

(* The figures of a number: the last of them is its remainder by ten.      *)
LEMMA NumeralGrows ==
  ASSUME NEW n \in Nat, n >= 10, Figured[n \div 10] \in Seq(FigureSet)
  PROVE  LET b == Figured[n]  a == Figured[n \div 10]  d == Figures[(n % 10) + 1] IN
         /\ b = Append(a, d) /\ b \in Seq(FigureSet) /\ d \in FigureSet
         /\ Len(b) = Len(a) + 1 /\ b[Len(b)] = d
         /\ \A i \in 1 .. Len(a) : b[i] = a[i]
<1> DEFINE a == Figured[n \div 10]
           d == Figures[(n % 10) + 1]
<1>1. Figured[n] = Append(a, d)
  BY FiguredIs
<1>2. d \in FigureSet
  BY Tenth, FiguresAre
<1> HIDE DEF a, d
<1>3. /\ Append(a, d) \in Seq(FigureSet) /\ Len(Append(a, d)) = Len(a) + 1
      /\ Append(a, d)[Len(a) + 1] = d /\ \A i \in 1 .. Len(a) : Append(a, d)[i] = a[i]
  BY <1>2 DEF a
<1> QED BY <1>1, <1>2, <1>3 DEF a, d

LEMMA NumeralIsText ==
  \A n \in Nat : /\ Figured[n] \in Seq(FigureSet) /\ Len(Figured[n]) >= 1
                 /\ n # 0 => Figured[n][1] # "0"
<1> DEFINE Good(n) == /\ Figured[n] \in Seq(FigureSet) /\ Len(Figured[n]) >= 1
                      /\ n # 0 => Figured[n][1] # "0"
           Odd == {n \in Nat : ~ Good(n)}
<1> SUFFICES ASSUME Odd # {} PROVE FALSE
  OBVIOUS
<1>1. PICK n \in Odd : \A m \in Odd : n <= m
  <2>1. Odd \in SUBSET Nat
    OBVIOUS
  <2> HIDE DEF Odd
  <2> QED BY <2>1, LeastNumber
<1>2. n \in Nat /\ ~ Good(n)
  OBVIOUS
<1>3. CASE n < 10
  <2> DEFINE c == Figures[n + 1]
  <2>1. Figured[n] = <<c>> /\ c \in FigureSet /\ Digit[c] = n
    <3>1. n \in 0 .. 9
      BY <1>2, <1>3
    <3> QED BY <3>1, FiguredIs, FiguresAre
  <2>2. n # 0 => c # "0"
    BY <2>1, FiguresAre
  <2> HIDE DEF c
  <2> QED BY <1>2, <2>1, <2>2
<1>4. CASE n >= 10
  <2> DEFINE m == n \div 10
  <2>1. m \in Nat /\ m # 0 /\ ~ (n <= m)
    BY <1>2, <1>4, Tenth
  <2>2. Good(m)
    BY <1>1, <2>1
  <2>3. /\ Figured[n] \in Seq(FigureSet) /\ Len(Figured[n]) = Len(Figured[m]) + 1
        /\ \A i \in 1 .. Len(Figured[m]) : Figured[n][i] = Figured[m][i]
    BY <1>2, <1>4, <2>2, NumeralGrows
  <2> HIDE DEF m
  <2>4. 1 \in 1 .. Len(Figured[m])
    BY <2>2
  <2> QED BY <1>2, <2>1, <2>2, <2>3, <2>4
<1> QED BY <1>2, <1>3, <1>4

(* A greater number has no fewer figures.                                  *)
LEMMA NumeralsGrow ==
  \A n \in Nat : \A m \in 0 .. n : Len(Figured[m]) <= Len(Figured[n])
<1> DEFINE Good(n) == \A m \in 0 .. n : Len(Figured[m]) <= Len(Figured[n])
           Odd == {n \in Nat : ~ Good(n)}
<1> SUFFICES ASSUME Odd # {} PROVE FALSE
  OBVIOUS
<1>1. PICK n \in Odd : \A m \in Odd : n <= m
  <2>1. Odd \in SUBSET Nat
    OBVIOUS
  <2> HIDE DEF Odd
  <2> QED BY <2>1, LeastNumber
<1>2. PICK m \in 0 .. n : ~ (Len(Figured[m]) <= Len(Figured[n]))
  OBVIOUS
<1>3. n \in Nat /\ m \in Nat /\ m <= n
  OBVIOUS
<1>4. Len(Figured[m]) \in Nat /\ Len(Figured[n]) \in Nat /\ Len(Figured[n]) >= 1
  BY <1>3, NumeralIsText
<1>5. CASE m < 10
  <2>1. Len(Figured[m]) = 1
    <3>1. m \in 0 .. 9
      BY <1>3, <1>5
    <3>2. Figured[m] = <<Figures[m + 1]>>
      BY <3>1, FiguredIs
    <3> QED BY <3>2
  <2> QED BY <1>2, <1>4, <2>1
<1>6. CASE m >= 10
  <2>1. /\ m \div 10 \in 0 .. n \div 10 /\ n \div 10 \in Nat /\ m \div 10 \in Nat
        /\ ~ (n <= n \div 10) /\ n >= 10
    BY <1>3, <1>6, Tenth
  <2>2. Len(Figured[m \div 10]) <= Len(Figured[n \div 10])
    BY <1>1, <2>1
  <2>3. /\ Len(Figured[m]) = Len(Figured[m \div 10]) + 1
        /\ Len(Figured[n]) = Len(Figured[n \div 10]) + 1
    BY <1>3, <1>6, <2>1, NumeralGrows, NumeralIsText
  <2>4. Len(Figured[m \div 10]) \in Nat /\ Len(Figured[n \div 10]) \in Nat
    BY <2>1, NumeralIsText
  <2> QED BY <1>2, <2>2, <2>3, <2>4
<1> QED BY <1>3, <1>5, <1>6

(* Two numbers are not written alike.                                      *)
LEMMA NumeralsApart ==
  \A n \in Nat : \A m \in Nat : Figured[m] = Figured[n] => m = n
<1> DEFINE Good(n) == \A m \in Nat : Figured[m] = Figured[n] => m = n
           Odd == {n \in Nat : ~ Good(n)}
<1> SUFFICES ASSUME Odd # {} PROVE FALSE
  OBVIOUS
<1>1. PICK n \in Odd : \A m \in Odd : n <= m
  <2>1. Odd \in SUBSET Nat
    OBVIOUS
  <2> HIDE DEF Odd
  <2> QED BY <2>1, LeastNumber
<1>2. n \in Nat /\ ~ Good(n) /\ \A k \in Nat : ~ (n <= k) => Good(k)
  <2>1. n \in Nat /\ ~ Good(n)
    OBVIOUS
  <2>2. ASSUME NEW k \in Nat, ~ (n <= k) PROVE Good(k)
    BY <1>1, <2>2
  <2> QED BY <2>1, <2>2
<1>3. PICK m \in Nat : Figured[m] = Figured[n] /\ m # n
  BY <1>2
<1> HIDE DEF Odd
<1>4. ASSUME NEW k \in Nat
      PROVE  /\ k < 10 => Len(Figured[k]) = 1 /\ Figured[k][1] = Figures[k + 1]
                          /\ Digit[Figures[k + 1]] = k
             /\ k >= 10 => /\ Len(Figured[k]) = Len(Figured[k \div 10]) + 1
                           /\ Len(Figured[k]) > 1
                           /\ Figured[k][Len(Figured[k])] = Figures[(k % 10) + 1]
                           /\ Digit[Figures[(k % 10) + 1]] = k % 10
  <2>1. CASE k < 10
    <3>1. k \in 0 .. 9
      BY <2>1
    <3>2. Figured[k] = <<Figures[k + 1]>> /\ Digit[Figures[k + 1]] = k
      BY <3>1, FiguredIs, FiguresAre
    <3> QED BY <2>1, <3>2
  <2>2. CASE k >= 10
    <3>1. k \div 10 \in Nat /\ k % 10 \in 0 .. 9
      BY Tenth
    <3>2. Figured[k \div 10] \in Seq(FigureSet) /\ Len(Figured[k \div 10]) >= 1
      BY <3>1, NumeralIsText
    <3>3. /\ Len(Figured[k]) = Len(Figured[k \div 10]) + 1
          /\ Figured[k][Len(Figured[k])] = Figures[(k % 10) + 1]
      BY <2>2, <3>2, NumeralGrows
    <3>4. Digit[Figures[(k % 10) + 1]] = k % 10
      BY <3>1, FiguresAre
    <3>5. Len(Figured[k \div 10]) \in Nat
      BY <3>2
    <3>6. ~ (k < 10) /\ Len(Figured[k]) > 1
      BY <2>2, <3>2, <3>3, <3>5
    <3> QED BY <3>3, <3>4, <3>6
  <2> QED BY <2>1, <2>2
<1>5. CASE n < 10
  <2>1. Len(Figured[m]) = 1 /\ Figured[m][1] = Figures[n + 1] /\ Digit[Figures[n + 1]] = n
    BY <1>2, <1>3, <1>4, <1>5
  <2>2. m < 10
    <3>1. ~ (m >= 10)
      BY <1>4, <2>1
    <3> QED BY <3>1
  <2> QED BY <1>3, <1>4, <2>1, <2>2
<1>6. CASE n >= 10
  <2>1. m >= 10
    <3>1. Len(Figured[n]) > 1 /\ ~ (1 > 1)
      BY <1>2, <1>4, <1>6
    <3>2. ~ (m < 10)
      BY <1>3, <1>4, <3>1
    <3> QED BY <3>2
  <2>2. m % 10 = n % 10
    <3>3. /\ Figured[m][Len(Figured[m])] = Figures[(m % 10) + 1]
          /\ Figured[n][Len(Figured[n])] = Figures[(n % 10) + 1]
      BY <1>2, <1>4, <1>6, <2>1, Zenon
    <3>1. Figures[(m % 10) + 1] = Figures[(n % 10) + 1]
      BY <1>3, <3>3, Zenon
    <3>2. Digit[Figures[(m % 10) + 1]] = m % 10 /\ Digit[Figures[(n % 10) + 1]] = n % 10
      BY <1>2, <1>4, <1>6, <2>1, Zenon
    <3> QED BY <3>1, <3>2, Zenon
  <2> DEFINE a == Figured[m \div 10]
             b == Figured[n \div 10]
  <2>3. /\ m \div 10 \in Nat /\ n \div 10 \in Nat /\ ~ (n <= n \div 10)
        /\ m = 10 * (m \div 10) + (m % 10) /\ n = 10 * (n \div 10) + (n % 10)
        /\ m % 10 \in 0 .. 9
    BY <1>2, <1>6, Tenth
  <2>4. a \in Seq(FigureSet) /\ b \in Seq(FigureSet)
    BY <2>3, NumeralIsText
  <2>5. /\ Len(Figured[m]) = Len(a) + 1 /\ \A i \in 1 .. Len(a) : Figured[m][i] = a[i]
        /\ Len(Figured[n]) = Len(b) + 1 /\ \A i \in 1 .. Len(b) : Figured[n][i] = b[i]
    BY <1>2, <1>6, <2>1, <2>4, NumeralGrows
  <2>6. a = b
    <3> HIDE DEF a, b
    <3>1. Len(a) \in Nat /\ Len(b) \in Nat
      BY <2>4
    <3>2. Len(a) = Len(b)
      BY <1>3, <2>5, <3>1
    <3>3. \A i \in 1 .. Len(a) : a[i] = b[i]
      BY <1>3, <2>5, <3>2
    <3> QED BY <2>4, <3>2, <3>3, SeqEqual
  <2>7. m \div 10 = n \div 10
    <3>1. Good(n \div 10)
      BY <1>2, <2>3
    <3> QED BY <2>3, <2>6, <3>1
  <2> QED BY <1>3, <2>2, <2>3, <2>7
<1> QED BY <1>2, <1>5, <1>6

(* Figures without a zero in front are those of a number.                  *)
LEMMA NumeralOf ==
  ASSUME NEW b \in Seq(FigureSet), b # <<>>, b[1] # "0" \/ Len(b) = 1
  PROVE  \E n \in Nat : b = Figured[n]
<1> DEFINE Proper(t) == t # <<>> /\ (t[1] # "0" \/ Len(t) = 1)
           Odd == {k \in Nat : \E t \in Seq(FigureSet) :
                     Len(t) = k /\ Proper(t) /\ ~ \E n \in Nat : t = Figured[n]}
<1>0. \A t \in Seq(FigureSet) : Len(t) \in Nat
  OBVIOUS
<1>1. Odd = {}
  <2> SUFFICES ASSUME Odd # {} PROVE FALSE
    OBVIOUS
  <2>1. PICK k \in Odd : \A m \in Odd : k <= m
    <3>1. Odd \in SUBSET Nat
      OBVIOUS
    <3> HIDE DEF Odd
    <3> QED BY <3>1, LeastNumber
  <2>2. PICK t \in Seq(FigureSet) :
          Len(t) = k /\ Proper(t) /\ ~ \E n \in Nat : t = Figured[n]
    OBVIOUS
  <2>3. Len(t) \in Nat /\ Len(t) >= 1 /\ \A i \in 1 .. Len(t) : t[i] \in FigureSet
    <3>1. Len(t) # 0
      BY <2>2
    <3> QED BY <1>0, <3>1
  <2>4. CASE Len(t) = 1
    <3> DEFINE c == t[1]
    <3>1. t = <<c>> /\ c \in FigureSet
      BY <2>3, <2>4
    <3>2. Digit[c] \in Nat /\ Digit[c] \in 0 .. 9 /\ Figures[Digit[c] + 1] = c
      BY <3>1, FiguresAre
    <3> HIDE DEF c
    <3>3. Figured[Digit[c]] = <<c>>
      BY <3>2, FiguredIs
    <3> QED BY <2>2, <3>1, <3>2, <3>3
  <2>5. CASE Len(t) > 1
    <3> DEFINE a == SubSeq(t, 1, Len(t) - 1)
               c == t[Len(t)]
    <3>1. /\ a \in Seq(FigureSet) /\ Len(a) = Len(t) - 1 /\ \A i \in 1 .. Len(a) : a[i] = t[i]
          /\ c \in FigureSet
      BY <2>3, <2>5
    <3>2. t = Append(a, c)
      <4>1. /\ Append(a, c) \in Seq(FigureSet) /\ Len(Append(a, c)) = Len(t)
            /\ \A i \in 1 .. Len(t) : Append(a, c)[i] = t[i]
        <5> HIDE DEF a
        <5> QED BY <2>3, <2>5, <3>1
      <4> HIDE DEF a, c
      <4> QED BY <4>1, SeqEqual
    <3> HIDE DEF a, c
    <3>3. a # <<>> /\ a[1] = t[1] /\ t[1] # "0" /\ Len(a) \in Nat /\ ~ (k <= Len(a))
      <4>1. Len(a) \in Nat /\ Len(a) # 0 /\ 1 \in 1 .. Len(a)
        BY <2>3, <2>5, <3>1
      <4> QED BY <2>2, <2>3, <2>5, <3>1, <4>1
    <3>4. PICK m \in Nat : a = Figured[m]
      <4>1. Len(a) \notin Odd
        BY <2>1, <3>3
      <4> QED BY <3>1, <3>3, <4>1
    <3>5. m # 0
      <4>1. Figured[0] = <<"0">>
        <5>1. Figured[0] = <<Figures[0 + 1]>>
          BY FiguredIs
        <5> QED BY <5>1 DEF Figures
      <4> QED BY <3>3, <3>4, <4>1
    <3> DEFINE d == Digit[c]
               n == 10 * m + d
    <3>6. d \in 0 .. 9 /\ Figures[d + 1] = c
      BY <3>1, FiguresAre
    <3> HIDE DEF d
    <3>7. n \in Nat /\ n >= 10 /\ n \div 10 = m /\ n % 10 = d
      BY <3>5, <3>6, Tenth
    <3> HIDE DEF n
    <3>8. Figured[n] = Append(Figured[m], Figures[d + 1])
      BY <3>7, FiguredIs
    <3> QED BY <2>2, <3>2, <3>4, <3>6, <3>7, <3>8
  <2>6. Len(t) = 1 \/ Len(t) > 1
    <3>1. \A j \in Nat : j >= 1 => j = 1 \/ j > 1
      OBVIOUS
    <3> HIDE DEF Odd, Proper
    <3> QED BY <2>3, <3>1, Zenon
  <2> QED BY <2>4, <2>5, <2>6
<1> QED BY <1>0, <1>1

-----------------------------------------------------------------------------
(* The sum of a token's figures                                            *)

LEMMA WrappedIs ==
  /\ \A n \in Int : Wrapped(n) \in LLONG_MIN .. LLONG_MAX
  /\ \A n \in LLONG_MIN .. LLONG_MAX : Wrapped(n) = n
<1>1. Top \in Nat /\ Top > 0
  BY IntegerTokenAssumption
<1>2. ASSUME NEW n \in Int
      PROVE  (n + Top) % (2 * Top) \in 0 .. 2 * Top - 1
  BY <1>1
<1>3. ASSUME NEW n \in -Top .. Top - 1
      PROVE  (n + Top) % (2 * Top) = n + Top
  BY <1>1
<1> QED BY <1>1, <1>2, <1>3 DEF Wrapped, LLONG_MIN, LLONG_MAX

Sums(b, N, g) ==
  g = [i \in 0 .. N |-> IF i = 0 THEN 0 ELSE Wrapped(Wrapped(g[i - 1] * 10) + Digit[b[i]])]

LEMMA SumsAt ==
  ASSUME NEW N \in Nat, NEW b, NEW g, Sums(b, N, g)
  PROVE  /\ g[0] = 0
         /\ \A i \in 1 .. N : g[i] = Wrapped(Wrapped(g[i - 1] * 10) + Digit[b[i]])
<1>1. ASSUME NEW i \in 0 .. N
      PROVE  g[i] = IF i = 0 THEN 0 ELSE Wrapped(Wrapped(g[i - 1] * 10) + Digit[b[i]])
  BY DEF Sums
<1> QED BY <1>1

(* Every sum is a long long.                                               *)
LEMMA SumsFit ==
  ASSUME NEW N \in Nat, NEW b, NEW g, Sums(b, N, g), \A i \in 1 .. N : Digit[b[i]] \in 0 .. 9
  PROVE  \A i \in 0 .. N : g[i] \in LLONG_MIN .. LLONG_MAX
<1> DEFINE Odd == {i \in 0 .. N : g[i] \notin LLONG_MIN .. LLONG_MAX}
<1> SUFFICES ASSUME Odd # {} PROVE FALSE
  OBVIOUS
<1>0. Top \in Nat /\ Top > 0
  BY IntegerTokenAssumption
<1>1. PICK k \in Odd : \A m \in Odd : k <= m
  <2>1. Odd \in SUBSET Nat
    OBVIOUS
  <2> HIDE DEF Odd
  <2> QED BY <2>1, LeastNumber
<1>2. k \in 0 .. N /\ g[k] \notin LLONG_MIN .. LLONG_MAX
  OBVIOUS
<1>3. k # 0
  <2>1. g[0] = 0 /\ 0 \in LLONG_MIN .. LLONG_MAX
    BY <1>0, SumsAt DEF LLONG_MIN, LLONG_MAX
  <2> QED BY <1>2, <2>1
<1>4. k \in 1 .. N /\ k - 1 \in 0 .. N /\ ~ (k <= k - 1)
  BY <1>2, <1>3
<1>5. g[k - 1] \in LLONG_MIN .. LLONG_MAX
  BY <1>1, <1>4
<1> HIDE DEF Odd
<1>6. g[k - 1] * 10 \in Int /\ Digit[b[k]] \in Int
  BY <1>0, <1>4, <1>5 DEF LLONG_MIN, LLONG_MAX
<1>7. Wrapped(g[k - 1] * 10) \in Int
  <2>1. Wrapped(g[k - 1] * 10) \in LLONG_MIN .. LLONG_MAX
    BY <1>6, WrappedIs
  <2> QED BY <1>0, <2>1 DEF LLONG_MIN, LLONG_MAX
<1>8. Wrapped(g[k - 1] * 10) + Digit[b[k]] \in Int
  BY <1>6, <1>7
<1>9. g[k] = Wrapped(Wrapped(g[k - 1] * 10) + Digit[b[k]])
  BY <1>4, SumsAt
<1> QED BY <1>2, <1>8, <1>9, WrappedIs

LEMMA SomeSums ==
  ASSUME NEW N \in Nat, NEW b
  PROVE  \E g : Sums(b, N, g)
<1> DEFINE Odd == {n \in Nat : ~ \E g : Sums(b, n, g)}
<1> SUFFICES ASSUME Odd # {} PROVE FALSE
  OBVIOUS
<1>1. PICK n \in Odd : \A m \in Odd : n <= m
  <2>1. Odd \in SUBSET Nat
    OBVIOUS
  <2> HIDE DEF Odd
  <2> QED BY <2>1, LeastNumber
<1>2. PICK g : n = 0 \/ Sums(b, n - 1, g)
  <2>1. n # 0 => n - 1 \in Nat /\ ~ (n <= n - 1)
    OBVIOUS
  <2>2. n # 0 => n - 1 \notin Odd
    BY <1>1, <2>1
  <2> QED BY <2>1, <2>2
<1> DEFINE h == [i \in 0 .. n |-> IF i = 0 THEN 0 ELSE Wrapped(Wrapped(g[i - 1] * 10) + Digit[b[i]])]
<1>3. ASSUME NEW i \in 0 .. n, i # 0
      PROVE  h[i - 1] = g[i - 1]
  <2>1. i - 1 \in 0 .. n - 1 /\ n - 1 \in Nat /\ i - 1 \in 0 .. n
    BY <1>3
  <2>2. g[0] = 0 /\ \A j \in 1 .. n - 1 : g[j] = Wrapped(Wrapped(g[j - 1] * 10) + Digit[b[j]])
    BY <1>2, <2>1, SumsAt
  <2>3. h[i - 1] = IF i - 1 = 0 THEN 0 ELSE Wrapped(Wrapped(g[(i - 1) - 1] * 10) + Digit[b[i - 1]])
    BY <2>1
  <2> HIDE DEF h
  <2> QED BY <2>1, <2>2, <2>3
<1>4. h = [i \in 0 .. n |-> IF i = 0 THEN 0 ELSE Wrapped(Wrapped(h[i - 1] * 10) + Digit[b[i]])]
  BY <1>3
<1>5. Sums(b, n, h)
  <2> HIDE DEF h
  <2> QED BY <1>4, Zenon DEF Sums
<1> QED BY <1>5

LEMMA AccumulatedIs ==
  ASSUME NEW s, Len(Body(s)) \in Nat
  PROVE  \E g : Sums(Body(s), Len(Body(s)), g) /\ Accumulated(s) = g[Len(Body(s))]
<1> DEFINE b == Body(s)
           g == CHOOSE f : f = [i \in 0 .. Len(b) |->
                  IF i = 0 THEN 0 ELSE Wrapped(Wrapped(f[i - 1] * 10) + Digit[b[i]])]
<1>1. \E f : Sums(b, Len(b), f)
  BY SomeSums
<1>2. Sums(b, Len(b), g)
  BY <1>1, Zenon DEF Sums
<1>3. Accumulated(s) = g[Len(b)]
  BY Zenon DEF Accumulated
<1> QED BY <1>2, <1>3, Zenon

(* The sum of the figures of a number that fits is the number.             *)
LEMMA SumOfNumeral ==
  \A n \in Nat : n < Top =>
    \A g : Sums(Figured[n], Len(Figured[n]), g) => g[Len(Figured[n])] = n
<1> DEFINE Good(n) == \A g : Sums(Figured[n], Len(Figured[n]), g) => g[Len(Figured[n])] = n
           Odd == {n \in Nat : n < Top /\ ~ Good(n)}
<1> SUFFICES ASSUME Odd # {} PROVE FALSE
  OBVIOUS
<1>0. Top \in Nat /\ Top > 0
  BY IntegerTokenAssumption
<1>1. PICK n \in Odd : \A m \in Odd : n <= m
  <2>1. Odd \in SUBSET Nat
    OBVIOUS
  <2> HIDE DEF Odd
  <2> QED BY <2>1, LeastNumber
<1>2. n \in Nat /\ n < Top /\ ~ Good(n) /\ \A m \in Nat : m < n /\ m < Top => Good(m)
  <2>1. n \in Nat /\ n < Top /\ ~ Good(n)
    OBVIOUS
  <2>2. ASSUME NEW m \in Nat, m < n, m < Top PROVE Good(m)
    <3>1. m \notin Odd
      BY <1>1, <2>1, <2>2
    <3> QED BY <2>2, <3>1
  <2> QED BY <2>1, <2>2
<1> HIDE DEF Odd
<1> DEFINE b == Figured[n]
           d == n % 10
<1>3. PICK g : Sums(b, Len(b), g) /\ g[Len(b)] # n
  BY <1>2
<1>4. b \in Seq(FigureSet) /\ Len(b) \in Nat /\ Len(b) >= 1 /\ d \in 0 .. 9
  BY <1>2, NumeralIsText, Tenth
<1>5. g[0] = 0 /\ \A i \in 1 .. Len(b) : g[i] = Wrapped(Wrapped(g[i - 1] * 10) + Digit[b[i]])
  BY <1>3, <1>4, SumsAt
<1>6. /\ Digit[b[Len(b)]] = d /\ n = 10 * (n \div 10) + d /\ n \div 10 \in Nat
      /\ g[Len(b) - 1] = n \div 10
  <2>1. CASE n < 10
    <3>1. b = <<Figures[n + 1]>> /\ d = n /\ n \div 10 = 0
      BY <1>2, <2>1, FiguredIs, Tenth
    <3>2. Len(b) = 1 /\ b[1] = Figures[n + 1] /\ Digit[Figures[n + 1]] = n
      BY <1>2, <2>1, <3>1, FiguresAre
    <3> QED BY <1>2, <1>5, <3>1, <3>2
  <2>2. CASE n >= 10
    <3> DEFINE m == n \div 10
               a == Figured[m]
    <3>1. m \in Nat /\ ~ (n <= m) /\ m < n /\ n = 10 * m + d
      BY <1>2, <2>2, Tenth
    <3>2. a \in Seq(FigureSet) /\ Len(a) \in Nat
      <4> HIDE DEF m
      <4>1. a \in Seq(FigureSet)
        BY <3>1, NumeralIsText
      <4> QED BY <4>1
    <3>3. Len(b) = Len(a) + 1 /\ b[Len(b)] = Figures[d + 1] /\ \A i \in 1 .. Len(a) : b[i] = a[i]
      BY <1>2, <2>2, <3>2, NumeralGrows
    <3> DEFINE f == [i \in 0 .. Len(a) |-> g[i]]
    <3> HIDE DEF a, b, d
    <3>4. f[0] = 0 /\ f[Len(a)] = g[Len(a)]
      BY <1>5, <3>2
    <3>5. ASSUME NEW i \in 1 .. Len(a)
          PROVE  f[i] = Wrapped(Wrapped(f[i - 1] * 10) + Digit[a[i]])
      <4>1. i \in 1 .. Len(b) /\ i - 1 \in 0 .. Len(a) /\ i \in 0 .. Len(a)
        BY <3>2, <3>3
      <4>2. f[i] = g[i] /\ f[i - 1] = g[i - 1] /\ b[i] = a[i]
        BY <3>3, <4>1
      <4> HIDE DEF f
      <4> QED BY <1>5, <4>1, <4>2
    <3>6. Sums(a, Len(a), f)
      <4>1. f = [i \in 0 .. Len(a) |-> f[i]]
        OBVIOUS
      <4> HIDE DEF f
      <4>2. \A i \in 0 .. Len(a) :
              f[i] = IF i = 0 THEN 0 ELSE Wrapped(Wrapped(f[i - 1] * 10) + Digit[a[i]])
        BY <3>2, <3>4, <3>5
      <4> QED BY <4>1, <4>2 DEF Sums
    <3> HIDE DEF f
    <3>7. Good(m)
      <4>1. m < Top
        BY <1>0, <1>2, <3>1
      <4> QED BY <1>2, <3>1, <4>1
    <3>8. f[Len(a)] = m
      BY <3>6, <3>7 DEF a
    <3>9. Digit[Figures[d + 1]] = d
      BY <1>4, FiguresAre
    <3>10. g[Len(b) - 1] = m
      <4>1. Len(b) - 1 = Len(a)
        BY <3>2, <3>3
      <4> QED BY <3>4, <3>8, <4>1
    <3> QED BY <3>1, <3>3, <3>9, <3>10
  <2> QED BY <1>2, <2>1, <2>2
<1> HIDE DEF b, d
<1>7. Wrapped((n \div 10) * 10) = (n \div 10) * 10
  <2>1. (n \div 10) * 10 \in LLONG_MIN .. LLONG_MAX
    BY <1>0, <1>2, <1>4, <1>6 DEF LLONG_MIN, LLONG_MAX
  <2> QED BY <2>1, WrappedIs
<1>8. Wrapped((n \div 10) * 10 + d) = n
  <2>1. (n \div 10) * 10 + d = n /\ n \in LLONG_MIN .. LLONG_MAX
    BY <1>0, <1>2, <1>4, <1>6 DEF LLONG_MIN, LLONG_MAX
  <2> QED BY <2>1, WrappedIs
<1>9. Len(b) \in 1 .. Len(b)
  BY <1>4
<1>10. g[Len(b)] = n
  BY <1>5, <1>6, <1>7, <1>8, <1>9
<1> QED BY <1>3, <1>10

-----------------------------------------------------------------------------
(* The tokens that are read                                                *)

LEMMA MinusIs ==
  \A b \in Seq(FigureSet) :
    LET s == <<"-">> \o b IN
    Len(s) = Len(b) + 1 /\ s[1] = "-" /\ Tail(s) = b /\ s \in Seq(FigureSet \cup {"-"})
<1> SUFFICES ASSUME NEW b \in Seq(FigureSet)
             PROVE  LET s == <<"-">> \o b IN
                    /\ Len(s) = Len(b) + 1 /\ s[1] = "-" /\ Tail(s) = b
                    /\ s \in Seq(FigureSet \cup {"-"})
  OBVIOUS
<1> DEFINE s == <<"-">> \o b
<1>1. s \in Seq(FigureSet \cup {"-"}) /\ Len(s) = Len(b) + 1 /\ s[1] = "-"
      /\ \A i \in 1 .. Len(b) : s[i + 1] = b[i]
  OBVIOUS
<1> HIDE DEF s
<1>2. Len(b) \in Nat /\ s # <<>>
  BY <1>1
<1>3. /\ Tail(s) \in Seq(FigureSet \cup {"-"}) /\ Len(Tail(s)) = Len(s) - 1
      /\ \A i \in 1 .. Len(Tail(s)) : Tail(s)[i] = s[i + 1]
  BY <1>1, <1>2, HeadTailProperties
<1>4. Len(Tail(s)) = Len(b) /\ \A i \in 1 .. Len(Tail(s)) : Tail(s)[i] = b[i]
  BY <1>1, <1>2, <1>3
<1>5. Tail(s) = b
  BY <1>3, <1>4, SeqEqual
<1> QED BY <1>1, <1>5 DEF s

(* The numeral of a number: its sign and the figures of its absolute.      *)
LEMMA DecimalHas ==
  ASSUME NEW n \in Int
  PROVE  LET s == Decimal(n)  m == IF n < 0 THEN - n ELSE n IN
         /\ m \in Nat /\ Body(s) = Figured[m] /\ (HasMinus(s) <=> n < 0)
         /\ Len(s) = Len(Figured[m]) + (IF n < 0 THEN 1 ELSE 0)
         /\ s \in Seq(FigureSet \cup {"-"}) /\ Len(s) >= 1 /\ s # <<>>
         /\ Len(s) = Len(Figured[m]) \/ Len(s) = Len(Figured[m]) + 1
<1>1. CASE n < 0
  <2> DEFINE m == - n
  <2>1. m \in Nat /\ Figured[m] \in Seq(FigureSet) /\ Len(Figured[m]) >= 1
    BY <1>1, NumeralIsText
  <2>2. Decimal(n) = <<"-">> \o Figured[m]
    BY <1>1 DEF Decimal
  <2> HIDE DEF m
  <2>3. /\ Len(Decimal(n)) = Len(Figured[m]) + 1 /\ Decimal(n)[1] = "-"
        /\ Tail(Decimal(n)) = Figured[m] /\ Decimal(n) \in Seq(FigureSet \cup {"-"})
    BY <2>1, <2>2, MinusIs
  <2>4. Len(Figured[m]) \in Nat
    BY <2>1
  <2>5. HasMinus(Decimal(n)) /\ Body(Decimal(n)) = Figured[m]
    <3>1. Len(Decimal(n)) > 1
      BY <2>1, <2>3, <2>4
    <3> QED BY <2>3, <3>1 DEF HasMinus, Body
  <2>6. (IF n < 0 THEN - n ELSE n) = m /\ (IF n < 0 THEN 1 ELSE 0) = 1 /\ Len(Decimal(n)) >= 1
    <3>1. Len(Decimal(n)) >= 1
      BY <2>1, <2>3, <2>4
    <3> QED BY <1>1, <3>1 DEF m
  <2>7. Decimal(n) # <<>>
    BY <2>3, <2>6
  <2> QED BY <1>1, <2>1, <2>3, <2>5, <2>6, <2>7
<1>2. CASE n >= 0
  <2>1. n \in Nat /\ Figured[n] \in Seq(FigureSet) /\ Len(Figured[n]) >= 1
    BY <1>2, NumeralIsText
  <2>2. Decimal(n) = Figured[n]
    BY <1>2 DEF Decimal
  <2>3. Figured[n][1] \in FigureSet /\ Len(Figured[n]) \in Nat
    <3>1. \A b \in Seq(FigureSet) : Len(b) \in Nat /\ (Len(b) >= 1 => b[1] \in FigureSet)
      OBVIOUS
    <3> QED BY <2>1, <3>1
  <2>4. Figured[n][1] # "-"
    BY <2>3, FiguresAre
  <2>5. ~ HasMinus(Decimal(n)) /\ Body(Decimal(n)) = Figured[n]
    BY <2>2, <2>4 DEF HasMinus, Body
  <2>6. Figured[n] \in Seq(FigureSet \cup {"-"})
    <3>1. \A b \in Seq(FigureSet) : b \in Seq(FigureSet \cup {"-"})
      OBVIOUS
    <3> QED BY <2>1, <3>1
  <2>7. /\ (IF n < 0 THEN - n ELSE n) = n /\ (IF n < 0 THEN 1 ELSE 0) = 0 /\ ~ (n < 0)
        /\ Len(Figured[n]) + 0 = Len(Figured[n])
    BY <1>2, <2>3
  <2>8. Figured[n] # <<>>
    BY <2>1
  <2> QED BY <2>1, <2>2, <2>5, <2>6, <2>7, <2>8
<1>3. n < 0 \/ n >= 0
  OBVIOUS
<1> QED BY <1>1, <1>2, <1>3, Zenon

LEMMA ZeroInFront ==
  ASSUME NEW C, NEW s, Body(s) \in Seq(C), Len(Body(s)) >= 1
  PROVE  LeadingZeroes(s) > 0 <=> Body(s)[1] = "0"
<1> DEFINE b == Body(s)
           I == {i \in 1 .. Len(b) : b[i] # "0"}
           m == IF I # {} THEN Min(I) ELSE 0
<1>1. LeadingZeroes(s) = IF m = 0 THEN Len(b) ELSE m - 1
  BY Zenon DEF LeadingZeroes, SelectInSeq
<1>2. Len(b) \in Nat /\ 1 \in 1 .. Len(b) /\ I \in SUBSET (1 .. Len(b))
  OBVIOUS
<1>3. I # {} => Min(I) \in I /\ \A y \in I : Min(I) <= y
  <2> HIDE DEF I
  <2> QED BY <1>2, FirstPlace
<1>4. b[1] = "0" <=> 1 \notin I
  BY <1>2
<1> HIDE DEF b, I
<1>5. CASE I = {}
  <2>1. LeadingZeroes(s) = Len(b) /\ Len(b) >= 1
    BY <1>1, <1>2, <1>5
  <2> QED BY <1>2, <1>4, <1>5, <2>1 DEF b
<1>6. CASE I # {}
  <2>1. Min(I) \in 1 .. Len(b) /\ m = Min(I)
    BY <1>2, <1>3, <1>6
  <2> HIDE DEF m
  <2>4. m \in Nat /\ m # 0 /\ LeadingZeroes(s) = m - 1
    BY <1>1, <1>2, <2>1
  <2>2. 1 \in I => m = 1
    BY <1>2, <1>3, <1>6, <2>1
  <2>3. 1 \notin I => m > 1
    BY <1>2, <1>3, <1>6, <2>1
  <2> QED BY <1>4, <2>2, <2>3, <2>4 DEF b
<1> QED BY <1>5, <1>6

LEMMA MalformedIs ==
  ASSUME NEW C, NEW s, Body(s) \in Seq(C), Len(Body(s)) >= 1
  PROVE  /\ ~ Malformed(s) => Body(s) \in Seq(FigureSet)
         /\ ~ Malformed(s) /\ Body(s)[1] = "0" => Body(s) = <<"0">> /\ ~ HasMinus(s)
         /\ Body(s) \in Seq(FigureSet) /\ (Body(s)[1] = "0" => Body(s) = <<"0">> /\ ~ HasMinus(s))
              => ~ Malformed(s)
<1> DEFINE b == Body(s)
           z == LeadingZeroes(s)
<1>1. z > 0 <=> b[1] = "0"
  BY ZeroInFront
<1>2. Malformed(s) <=> \/ \E j \in DOMAIN b : b[j] \notin FigureSet
                       \/ z > 0 /\ (b # <<"0">> \/ HasMinus(s))
  BY Zenon DEF Malformed, FigureSet
<1> HIDE DEF z
<1>3. DOMAIN b = 1 .. Len(b)
  OBVIOUS
<1>4. (\A j \in DOMAIN b : b[j] \in FigureSet) <=> b \in Seq(FigureSet)
  <2> HIDE DEF b
  <2>1. b \in Seq(C)
    BY DEF b
  <2>2. b \in Seq(FigureSet) => \A j \in DOMAIN b : b[j] \in FigureSet
    BY <1>3
  <2>3. ASSUME \A j \in DOMAIN b : b[j] \in FigureSet PROVE b \in Seq(FigureSet)
    <3>1. Len(b) \in Nat /\ b = [j \in 1 .. Len(b) |-> b[j]] /\ \A j \in 1 .. Len(b) : b[j] \in FigureSet
      BY <1>3, <2>1, <2>3
    <3> QED BY <3>1, IsASeq
  <2> QED BY <2>2, <2>3
<1> HIDE DEF b
<1> QED BY <1>1, <1>2, <1>4 DEF b

(* Every numeral of a number that fits is read, and as that number.        *)
THEOREM NumeralsAreRead ==
  ASSUME NEW n \in LLONG_MIN .. LLONG_MAX, NEW tested \in BOOLEAN
  PROVE  ~ Refuses(Decimal(n), tested) /\ StringToLongLong(Decimal(n)) = n
<1> DEFINE s == Decimal(n)
           m == IF n < 0 THEN - n ELSE n
<1>0. Top \in Nat /\ Top > 0 /\ n \in Int
  BY IntegerTokenAssumption DEF LLONG_MIN, LLONG_MAX
<1>1. CASE n = LLONG_MIN
  BY <1>1 DEF Refuses, StringToLongLong
<1>2. CASE n # LLONG_MIN
  <2>1. n # LLONG_MIN
    BY <1>2
  <2>2. m \in Nat /\ m < Top
    BY <1>0, <2>1 DEF LLONG_MIN, LLONG_MAX
  <2>3. /\ Body(s) = Figured[m] /\ (HasMinus(s) <=> n < 0) /\ s # <<>>
        /\ Len(s) = Len(Figured[m]) \/ Len(s) = Len(Figured[m]) + 1
    BY <1>0, DecimalHas
  <2> DEFINE b == Figured[m]
  <2> HIDE DEF m, s
  <2>4. /\ b \in Seq(FigureSet) /\ Len(b) \in Nat /\ Len(b) >= 1 /\ (m # 0 => b[1] # "0")
    <3>1. b \in Seq(FigureSet) /\ Len(b) >= 1 /\ (m # 0 => b[1] # "0")
      BY <2>2, NumeralIsText
    <3> QED BY <3>1
  <2>5. Len(b) <= MaxFigures /\ MaxFigures \in Nat
    <3>1. Top \in Nat /\ m \in 0 .. Top /\ Figured[Top] \in Seq(FigureSet)
      BY <1>0, <2>2, NumeralIsText
    <3>2. Len(Figured[Top]) \in Nat
      BY <3>1
    <3> QED BY <3>1, <3>2, NumeralsGrow DEF MaxFigures
  <2>6. Accumulated(s) = m
    <3>1. \E g : Sums(b, Len(b), g) /\ Accumulated(s) = g[Len(b)]
      BY <2>3, <2>4, AccumulatedIs
    <3> QED BY <2>2, <3>1, SumOfNumeral
  <2>7. Negated(s) = n
    <3>1. - m \in LLONG_MIN .. LLONG_MAX
      BY <1>0, <2>2 DEF LLONG_MIN, LLONG_MAX
    <3>2. Wrapped(- m) = - m
      BY <3>1, WrappedIs
    <3> QED BY <1>0, <2>3, <2>6, <3>2 DEF Negated, m
  <2>8. ~ Malformed(s)
    <3>1. b[1] = "0" => b = <<"0">> /\ ~ HasMinus(s)
      <4>1. ASSUME m = 0 PROVE b = <<"0">> /\ ~ HasMinus(s)
        <5>1. b = <<Figures[0 + 1]>>
          BY <4>1, FiguredIs
        <5>2. Figures[0 + 1] = "0"
          BY DEF Figures
        <5>3. ~ (n < 0)
          BY <1>0, <4>1 DEF m
        <5> QED BY <2>3, <5>1, <5>2, <5>3
      <4> QED BY <2>4, <4>1
    <3> QED BY <2>3, <2>4, <3>1, MalformedIs
  <2>9. Equals(n, s)
    <3>1. s = Decimal(n)
      BY DEF s
    <3>2. CASE n \in {LLONG_MIN, 0}
      BY <3>1, <3>2 DEF Equals
    <3>3. CASE n \notin {LLONG_MIN, 0} /\ n < 0
      <4>1. s[1] = "-" /\ Tail(s) = Figured[- n]
        BY <2>3, <3>3 DEF HasMinus, Body, m
      <4>2. Decimal(- n) = Figured[- n] /\ s # <<>>
        BY <1>0, <2>3, <3>3 DEF Decimal
      <4> QED BY <3>3, <4>1, <4>2 DEF Equals, Unsigned
    <3>4. CASE n \notin {LLONG_MIN, 0} /\ ~ (n < 0)
      <4>1. s # <<>>
        BY <2>3
      <4> QED BY <3>1, <3>4, <4>1 DEF Equals, Unsigned
    <3> QED BY <3>2, <3>3, <3>4
  <2>10. ~ (Len(s) > MaxFigures + 1) /\ ~ (Accumulated(s) < 0)
    <3> HIDE DEF b
    <3> QED BY <2>2, <2>3, <2>4, <2>5, <2>6 DEF b
  <2>11. ~ Refuses(s, tested)
    BY <2>7, <2>8, <2>9, <2>10 DEF Refuses, Overflows
  <2>12. StringToLongLong(s) = n
    <3>1. s # Decimal(LLONG_MIN)
      <4>1. LLONG_MIN \in Int /\ LLONG_MIN < 0 /\ - LLONG_MIN = Top
        BY <1>0 DEF LLONG_MIN
      <4>2. Body(Decimal(LLONG_MIN)) = Figured[Top]
        BY <4>1, DecimalHas
      <4>3. Figured[m] # Figured[Top]
        BY <1>0, <2>2, NumeralsApart
      <4> QED BY <2>3, <4>2, <4>3
    <3> QED BY <2>7, <3>1 DEF StringToLongLong
  <2> QED BY <2>11, <2>12 DEF s
<1> QED BY <1>1, <1>2

LEMMA MinusFront ==
  ASSUME NEW C, NEW s \in Seq(C), s # <<>>, s[1] = "-"
  PROVE  /\ s = <<"-">> \o Tail(s) /\ Tail(s) \in Seq(C) /\ Len(Tail(s)) + 1 = Len(s)
         /\ Len(s) \in Nat /\ Len(s) >= 1
<1>1. /\ Len(s) \in Nat /\ Len(s) # 0 /\ Len(s) >= 1 /\ \A i \in 1 .. Len(s) : s[i] \in C
  <2>1. Len(s) \in Nat /\ Len(s) # 0 /\ \A i \in 1 .. Len(s) : s[i] \in C
    OBVIOUS
  <2> QED BY <2>1
<1>2. /\ Tail(s) \in Seq(C) /\ Len(Tail(s)) = Len(s) - 1
      /\ \A i \in 1 .. Len(Tail(s)) : Tail(s)[i] = s[i + 1]
  BY HeadTailProperties
<1> DEFINE t == Tail(s)
           u == <<"-">> \o t
<1> HIDE DEF t
<1>3. "-" \in C
  <2>1. 1 \in 1 .. Len(s)
    BY <1>1
  <2> QED BY <1>1, <2>1
<1>4. /\ u \in Seq(C) /\ Len(u) = Len(t) + 1 /\ u[1] = "-"
      /\ \A i \in 2 .. Len(u) : u[i] = t[i - 1]
  <2>1. t \in Seq(C)
    BY <1>2 DEF t
  <2> QED BY <1>3, <2>1
<1> HIDE DEF u
<1>5. Len(t) = Len(s) - 1 /\ \A i \in 1 .. Len(t) : t[i] = s[i + 1]
  BY <1>2 DEF t
<1>6. Len(u) = Len(s) /\ \A i \in 1 .. Len(s) : u[i] = s[i]
  <2>1. Len(u) = Len(s)
    BY <1>1, <1>4, <1>5
  <2>2. ASSUME NEW i \in 1 .. Len(s) PROVE u[i] = s[i]
    <3>1. CASE i = 1
      BY <1>4, <3>1
    <3>2. CASE i # 1
      <4>1. i \in 2 .. Len(u) /\ i - 1 \in 1 .. Len(t) /\ (i - 1) + 1 = i
        BY <1>1, <1>5, <2>1, <3>2
      <4> QED BY <1>4, <1>5, <4>1
    <3> QED BY <3>1, <3>2
  <2> QED BY <2>1, <2>2
<1>7. s = u
  BY <1>4, <1>6, SeqEqual
<1>8. Len(t) + 1 = Len(s)
  BY <1>1, <1>5
<1> QED BY <1>1, <1>2, <1>7, <1>8 DEF t, u

(* Whatever is read is the numeral of its value, and the value fits.       *)
THEOREM ReadIsDecimal ==
  ASSUME NEW C, NEW s \in Seq(C), s # <<>>, NEW tested \in BOOLEAN, ~ Refuses(s, tested)
  PROVE  StringToLongLong(s) \in LLONG_MIN .. LLONG_MAX /\ s = Decimal(StringToLongLong(s))
<1>0. Top \in Nat /\ Top > 0 /\ LLONG_MIN \in LLONG_MIN .. LLONG_MAX /\ 0 \in LLONG_MIN .. LLONG_MAX
  BY IntegerTokenAssumption DEF LLONG_MIN, LLONG_MAX
<1>1. CASE s = Decimal(LLONG_MIN)
  BY <1>0, <1>1 DEF StringToLongLong
<1>2. CASE s # Decimal(LLONG_MIN)
  <2> DEFINE b == Body(s)
             v == Negated(s)
  <2>1. ~ Malformed(s) /\ ~ Overflows(s) /\ StringToLongLong(s) = v
    BY <1>2 DEF Refuses, StringToLongLong
  <2>2. /\ b \in Seq(C) /\ Len(b) \in Nat /\ Len(b) >= 1 /\ Len(s) \in Nat /\ Len(b) <= Len(s)
        /\ HasMinus(s) => s = <<"-">> \o b
        /\ ~ HasMinus(s) => s = b
    <3>1. CASE HasMinus(s)
      <4>1. s[1] = "-" /\ b = Tail(s) /\ Len(s) > 1
        BY <3>1 DEF HasMinus, Body
      <4>2. /\ s = <<"-">> \o b /\ b \in Seq(C) /\ Len(b) + 1 = Len(s) /\ Len(s) \in Nat
        BY <4>1, MinusFront
      <4> HIDE DEF b
      <4>3. Len(b) \in Nat
        BY <4>2
      <4>4. Len(b) >= 1 /\ Len(b) <= Len(s)
        BY <4>1, <4>2, <4>3
      <4> QED BY <3>1, <4>2, <4>3, <4>4
    <3>2. CASE ~ HasMinus(s)
      <4>1. b = s
        BY <3>2 DEF Body
      <4>2. Len(s) \in Nat /\ Len(s) # 0
        OBVIOUS
      <4>3. Len(s) >= 1 /\ Len(s) <= Len(s)
        BY <4>2
      <4> QED BY <3>2, <4>1, <4>2, <4>3
    <3> QED BY <3>1, <3>2
  <2>3. /\ b \in Seq(FigureSet) /\ (b[1] = "0" => b = <<"0">> /\ ~ HasMinus(s))
        /\ \A i \in 1 .. Len(b) : Digit[b[i]] \in 0 .. 9
    <3>1. b \in Seq(FigureSet) /\ (b[1] = "0" => b = <<"0">> /\ ~ HasMinus(s))
      BY <2>1, <2>2, MalformedIs
    <3> HIDE DEF b
    <3>2. \A i \in 1 .. Len(b) : b[i] \in FigureSet
      BY <3>1
    <3> QED BY <3>1, <3>2, FiguresAre
  <2>4. Accumulated(s) \in LLONG_MIN .. LLONG_MAX
    <3>1. PICK g : Sums(b, Len(b), g) /\ Accumulated(s) = g[Len(b)]
      BY <2>2, AccumulatedIs
    <3>2. Len(b) \in 0 .. Len(b)
      BY <2>2
    <3> HIDE DEF b
    <3> QED BY <2>2, <2>3, <3>1, <3>2, SumsFit
  <2>5. v \in LLONG_MIN .. LLONG_MAX
    <3>1. - Accumulated(s) \in Int
      BY <1>0, <2>4 DEF LLONG_MIN, LLONG_MAX
    <3>2. Wrapped(- Accumulated(s)) \in LLONG_MIN .. LLONG_MAX
      BY <3>1, WrappedIs
    <3> QED BY <2>4, <3>2 DEF Negated
  <2>6. v \in Int
    BY <1>0, <2>5 DEF LLONG_MIN, LLONG_MAX
  <2>7. MaxFigures \in Nat
    <3>1. Figured[Top] \in Seq(FigureSet)
      BY <1>0, NumeralIsText
    <3> QED BY <3>1 DEF MaxFigures
  <2>8. CASE Len(s) >= MaxFigures
    <3>1. Equals(v, s)
      BY <2>1, <2>8 DEF Overflows
    <3> HIDE DEF v
    <3>2. CASE v \in {LLONG_MIN, 0}
      BY <2>1, <2>5, <3>1, <3>2 DEF Equals
    <3>3. CASE v \notin {LLONG_MIN, 0} /\ v < 0
      <4>1. s[1] = "-" /\ Tail(s) = Decimal(- v)
        BY <3>1, <3>3 DEF Equals, Unsigned
      <4>2. Decimal(- v) = Figured[- v] /\ Decimal(v) = <<"-">> \o Figured[- v]
        BY <2>6, <3>3 DEF Decimal
      <4>3. s = <<"-">> \o Tail(s)
        BY <4>1, MinusFront
      <4> QED BY <2>1, <2>5, <4>1, <4>2, <4>3
    <3>4. CASE v \notin {LLONG_MIN, 0} /\ ~ (v < 0)
      BY <2>1, <2>5, <3>1, <3>4 DEF Equals, Unsigned
    <3> QED BY <3>2, <3>3, <3>4
  <2>9. CASE Len(s) < MaxFigures
    <3>1. PICK n \in Nat : b = Figured[n]
      <4>1. b # <<>> /\ (b[1] # "0" \/ Len(b) = 1)
        <5> HIDE DEF b
        <5> QED BY <2>2, <2>3
      <4> HIDE DEF b
      <4> QED BY <2>3, <4>1, NumeralOf
    <3>2. n < Top
      <4>1. ASSUME n >= Top PROVE FALSE
        <5>1. Top \in 0 .. n
          BY <1>0, <4>1
        <5>2. Len(Figured[Top]) <= Len(Figured[n])
          BY <5>1, NumeralsGrow
        <5> HIDE DEF b
        <5> QED BY <2>2, <2>7, <2>9, <3>1, <5>2 DEF MaxFigures
      <4> QED BY <1>0, <4>1
    <3>3. Accumulated(s) = n
      <4>1. \E g : Sums(b, Len(b), g) /\ Accumulated(s) = g[Len(b)]
        BY <2>2, AccumulatedIs
      <4> QED BY <3>1, <3>2, <4>1, SumOfNumeral
    <3>4. CASE HasMinus(s)
      <4>1. n # 0
        <5>1. Figured[0] = <<Figures[0 + 1]>> /\ Figures[0 + 1] = "0"
          <6>1. Figures[0 + 1] = "0"
            BY DEF Figures
          <6> QED BY <6>1, FiguredIs
        <5>2. Figured[0][1] = "0"
          BY <5>1
        <5> QED BY <2>3, <3>1, <3>4, <5>2
      <4>2. - n \in LLONG_MIN .. LLONG_MAX
        BY <1>0, <3>2 DEF LLONG_MIN, LLONG_MAX
      <4>3. v = - n
        BY <3>3, <3>4, <4>2, WrappedIs DEF Negated
      <4>4. - n < 0 /\ - (- n) = n
        BY <4>1
      <4>5. Decimal(- n) = <<"-">> \o Figured[n]
        BY <4>4 DEF Decimal
      <4> HIDE DEF v, b
      <4> QED BY <2>1, <2>2, <2>5, <3>1, <3>4, <4>3, <4>5
    <3>5. CASE ~ HasMinus(s)
      <4>1. v = n
        BY <3>3, <3>5 DEF Negated
      <4>2. Decimal(n) = Figured[n]
        <5>1. ~ (n < 0)
          OBVIOUS
        <5> QED BY <5>1 DEF Decimal
      <4> HIDE DEF v, b
      <4> QED BY <2>1, <2>2, <2>5, <3>1, <3>5, <4>1, <4>2
    <3> QED BY <3>4, <3>5
  <2> QED BY <2>2, <2>7, <2>8, <2>9
<1> QED BY <1>1, <1>2
=============================================================================
