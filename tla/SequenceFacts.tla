--------------------------- MODULE SequenceFacts ----------------------------
(***************************************************************************)
(* Facts about numbers and sequences that the library does not state:      *)
(* what Min and Max choose, that the elements of a finite set of numbers   *)
(* can be listed in order, list.remove (the first occurrence goes),        *)
(* queue.get (the head goes), parts of a sequence, and a value carried     *)
(* through n steps, on which recursive functions rest.  Induction is by a  *)
(* least counterexample.                                                   *)
(***************************************************************************)
EXTENDS Naturals, SequencesExt, TLAPS, SequenceTheorems, WellFoundedInduction, FiniteSetTheorems

\* A nonempty set of naturals has the minimum that Min chooses.
LEMMA SmallestIndex ==
  ASSUME NEW I, I \subseteq Nat, I # {}
  PROVE  Min(I) \in I /\ \A i \in I : Min(I) <= i
<1>1. PICK x \in I : \A y \in I : ~(<<y, x>> \in OpToRel(<, Nat))
  BY NatLessThanWellFounded, WFMin
<1>2. ASSUME NEW y \in I PROVE x <= y
  <2>1. <<y, x>> \in OpToRel(<, Nat) <=> y < x
    BY x \in Nat, y \in Nat DEF OpToRel
  <2>2. ~(y < x)
    BY <1>1, <2>1, Zenon
  <2>3. x \in Nat /\ y \in Nat
    OBVIOUS
  <2> QED BY <2>2, <2>3
<1> QED BY <1>2 DEF Min

\* A bounded one has the maximum that Max chooses.
LEMMA LargestIndex ==
  ASSUME NEW N \in Nat, NEW I \in SUBSET (0..N), I # {}
  PROVE  Max(I) \in I /\ \A i \in I : i <= Max(I)
<1> DEFINE Bounds == {n \in Nat : \A i \in I : i <= n}
           m == Min(Bounds)
<1>1. m \in Bounds /\ \A n \in Bounds : m <= n
  <2>1. N \in Bounds /\ Bounds \subseteq Nat
    OBVIOUS
  <2> QED BY <2>1, SmallestIndex
<1> HIDE DEF m
<1>2. m \in I
  <2> SUFFICES ASSUME m \notin I PROVE FALSE
    OBVIOUS
  <2>1. \A i \in I : i \in Nat /\ i <= m /\ i # m
    BY <1>1
  <2>2. m # 0
    <3>1. PICK i \in I : TRUE
      OBVIOUS
    <3>2. i \in Nat /\ i <= m /\ i # m
      BY <2>1
    <3> QED BY <3>2
  <2>3. m - 1 \in Bounds
    BY <1>1, <2>1, <2>2
  <2> QED BY <1>1, <2>2, <2>3
<1> QED BY <1>1, <1>2 DEF Max

\* The smaller of two numbers.
LEMMA SmallerOfTwo ==
  ASSUME NEW a \in Nat, NEW b \in Nat
  PROVE  Min({a, b}) = IF a <= b THEN a ELSE b
<1>1. Min({a, b}) \in {a, b} /\ \A i \in {a, b} : Min({a, b}) <= i
  BY SmallestIndex
<1> QED BY <1>1

\* The numbers of a bounded set can be listed from the smallest to the largest.
LEMMA OrderedEnumeration ==
  ASSUME NEW N \in Nat, NEW T \in SUBSET (1..N)
  PROVE  /\ Cardinality(T) \in Nat
         /\ \E q \in [1..Cardinality(T) -> T] :
              \A i, j \in 1..Cardinality(T) : i < j => q[i] < q[j]
<1> DEFINE Listed(S) == /\ Cardinality(S) \in Nat
                        /\ \E q \in [1..Cardinality(S) -> S] :
                             \A i, j \in 1..Cardinality(S) : i < j => q[i] < q[j]
           Bad == {n \in Nat : \E S \in SUBSET (1..n) : ~Listed(S)}
           m == Min(Bad)
<1> SUFFICES ASSUME Bad # {} PROVE FALSE
  OBVIOUS
<1>1. m \in Bad /\ m \in Nat /\ \A n \in Bad : m <= n
  BY SmallestIndex
<1> HIDE DEF m
<1>2. PICK S \in SUBSET (1..m) : ~Listed(S)
  BY <1>1
<1>3. m # 0
  <2> SUFFICES ASSUME m = 0 PROVE FALSE
    OBVIOUS
  <2>1. S = {}
    OBVIOUS
  <2>2. Cardinality(S) = 0 /\ 1..Cardinality(S) = {}
    BY <2>1, FS_EmptySet
  <2>3. Cardinality(S) \in Nat
    BY <2>2
  <2>4. \E q \in [1..Cardinality(S) -> S] : \A i, j \in 1..Cardinality(S) : i < j => q[i] < q[j]
    <3>1. [i \in 1..Cardinality(S) |-> 0] \in [1..Cardinality(S) -> S]
      BY <2>2
    <3> QED BY <2>2, <3>1
  <2> QED BY <1>2, <2>3, <2>4
<1>4. m - 1 \in Nat /\ m - 1 \notin Bad
  <2> HIDE DEF Bad
  <2> QED BY <1>1, <1>3
<1> DEFINE R == S \ {m}
           c == Cardinality(R)
<1>5. Listed(R)
  <2>1. R \in SUBSET (1..(m - 1))
    <3> HIDE DEF Bad, Listed
    <3> QED BY <1>1, <1>4
  <2> HIDE DEF Listed, R
  <2> QED BY <1>4, <2>1
<1>6. m \in S
  <2> SUFFICES ASSUME m \notin S PROVE FALSE
    OBVIOUS
  <2>1. R = S
    OBVIOUS
  <2> HIDE DEF Listed, R
  <2> QED BY <1>2, <1>5, <2>1
<1>7. Cardinality(S) = c + 1 /\ c \in Nat
  <2>1. IsFiniteSet(1..m)
    BY <1>1, FS_Interval
  <2>2. IsFiniteSet(S)
    BY <2>1, FS_Subset
  <2>3. IsFiniteSet(R) /\ m \notin R /\ S = R \cup {m}
    BY <1>6, <2>2, FS_RemoveElement
  <2> HIDE DEF R
  <2> QED BY <2>3, FS_AddElement, FS_CardinalityType
<1>8. PICK q \in [1..c -> R] : \A i, j \in 1..c : i < j => q[i] < q[j]
  BY <1>5
<1> HIDE DEF c
<1> DEFINE r == [i \in 1..(c + 1) |-> IF i = c + 1 THEN m ELSE q[i]]
<1>9. r \in [1..(c + 1) -> S]
  <2>1. \A i \in 1..(c + 1) : i # c + 1 => i \in 1..c
    BY <1>7
  <2> QED BY <1>6, <1>8, <2>1
<1>10. \A i, j \in 1..(c + 1) : i < j => r[i] < r[j]
  <2> SUFFICES ASSUME NEW i \in 1..(c + 1), NEW j \in 1..(c + 1), i < j PROVE r[i] < r[j]
    OBVIOUS
  <2>1. i \in 1..c /\ r[i] = q[i] /\ q[i] \in R
    BY <1>7, <1>8
  <2>2. CASE j = c + 1
    <3>1. q[i] \in 1..m /\ q[i] # m
      BY <2>1
    <3> QED BY <1>1, <2>1, <2>2, <3>1
  <2>3. CASE j # c + 1
    <3>1. j \in 1..c
      BY <1>7, <2>3
    <3> QED BY <1>8, <2>1, <2>3, <3>1
  <2> QED BY <2>2, <2>3
<1> HIDE DEF r
<1>11. \E x \in [1..(c + 1) -> S] : \A i, j \in 1..(c + 1) : i < j => x[i] < x[j]
  BY <1>9, <1>10
<1>12. Cardinality(S) \in Nat
  BY <1>7
<1> QED BY <1>2, <1>7, <1>11, <1>12

\* Such a list leaves none of them out.
LEMMA OrderedIsOnto ==
  ASSUME NEW N \in Nat, NEW T \in SUBSET (1..N), NEW q \in [1..Cardinality(T) -> T],
         \A i, j \in 1..Cardinality(T) : i < j => q[i] < q[j]
  PROVE  \A t \in T : \E i \in 1..Cardinality(T) : q[i] = t
<1>1. IsFiniteSet(T)
  <2>1. IsFiniteSet(1..N)
    BY FS_Interval
  <2> QED BY <2>1, FS_Subset
<1>2. Cardinality(T) \in Nat
  BY <1>1, FS_CardinalityType
<1> DEFINE c == Cardinality(T)
<1> HIDE DEF c
<1>3. q \in Injection(1..c, T)
  <2>1. ASSUME NEW i \in 1..c, NEW j \in 1..c, q[i] = q[j] PROVE i = j
    <3>1. q[i] \in Nat /\ q[j] \in Nat /\ i \in Nat /\ j \in Nat
      <4>1. q[i] \in T /\ q[j] \in T
        BY DEF c
      <4>2. T \subseteq Nat
        OBVIOUS
      <4>3. c \in Nat
        BY <1>2 DEF c
      <4>4. i \in Nat /\ j \in Nat
        BY <4>3
      <4> QED BY <4>1, <4>2, <4>4, Zenon
    <3>2. ~(i < j) /\ ~(j < i)
      BY <2>1, <3>1 DEF c
    <3> QED BY <3>1, <3>2
  <2>2. q \in [1..c -> T] /\ DOMAIN q = 1..c
    BY DEF c
  <2> QED BY <2>1, <2>2 DEF Injection, IsInjective
<1>4. Cardinality(1..c) = Cardinality(T)
  BY <1>2, FS_Interval DEF c
<1>5. q \in Surjection(1..c, T)
  BY <1>1, <1>3, <1>4, FS_Injection
<1> QED BY <1>5 DEF Surjection, c

\* Removing the first occurrence of a value leaves a sequence over the same set.
LEMMA RemoveFirstType ==
  ASSUME NEW S, NEW s \in Seq(S), NEW e
  PROVE  RemoveFirst(s, e) \in Seq(S)
<1>1. CASE ~ \E i \in 1..Len(s) : s[i] = e
  BY <1>1 DEF RemoveFirst
<1>2. CASE \E i \in 1..Len(s) : s[i] = e
  <2> DEFINE I == {i \in 1..Len(s) : s[i] = e}
             k == Min(I)
  <2>1. k \in 1..Len(s)
    <3>1. I # {} /\ I \subseteq Nat /\ I \subseteq 1..Len(s)
      BY <1>2
    <3> QED BY <3>1, SmallestIndex
  <2>2. RemoveFirst(s, e) = RemoveAt(s, k)
    BY <1>2 DEF RemoveFirst, SelectInSeq
  <2> HIDE DEF k
  <2>3. SubSeq(s, 1, k - 1) \in Seq(S) /\ SubSeq(s, k + 1, Len(s)) \in Seq(S)
    <3>1. /\ \A i \in 1..(k - 1) : s[i] \in S
          /\ \A i \in (k + 1)..Len(s) : s[i] \in S
          /\ k - 1 \in Int /\ k + 1 \in Int /\ Len(s) \in Int
      BY <2>1, SMT
    <3> QED BY <3>1, SubSeqProperties
  <2> QED BY <2>2, <2>3 DEF RemoveAt
<1> QED BY <1>1, <1>2

\* Appending keeps the old positions and adds the new element at the end.
LEMMA AppendFacts ==
  ASSUME NEW S, NEW s \in Seq(S), NEW e \in S
  PROVE  /\ Append(s, e) \in Seq(S) /\ Len(Append(s, e)) = Len(s) + 1
         /\ \A i \in 1..Len(s) : Append(s, e)[i] = s[i]
         /\ Append(s, e)[Len(s) + 1] = e
BY AppendProperties

\* The elements of a sequence after the first a, up to the b-th.
LEMMA PartFacts ==
  ASSUME NEW S, NEW s \in Seq(S), NEW a \in Nat, NEW b \in 0..Len(s)
  PROVE  /\ SubSeq(s, a + 1, b) \in Seq(S)
         /\ Len(SubSeq(s, a + 1, b)) = IF a <= b THEN b - a ELSE 0
         /\ \A i \in 1..(b - a) : SubSeq(s, a + 1, b)[i] = s[a + i]
<1>1. \A i \in (a + 1)..b : s[i] \in S
  OBVIOUS
<1>2. /\ SubSeq(s, a + 1, b) \in Seq(S)
      /\ Len(SubSeq(s, a + 1, b)) = IF a + 1 <= b THEN b - (a + 1) + 1 ELSE 0
      /\ \A i \in 1..(b - (a + 1) + 1) : SubSeq(s, a + 1, b)[i] = s[a + 1 + i - 1]
  <2>1. a + 1 \in Int /\ b \in Int
    OBVIOUS
  <2> QED BY <1>1, <2>1, SubSeqProperties
<1> QED BY <1>2

\* Where the elements of two joined sequences come from.
LEMMA JoinFacts ==
  ASSUME NEW S, NEW s \in Seq(S), NEW r \in Seq(S)
  PROVE  /\ s \o r \in Seq(S) /\ Len(s \o r) = Len(s) + Len(r)
         /\ \A i \in 1..Len(s) : (s \o r)[i] = s[i]
         /\ \A i \in 1..Len(r) : (s \o r)[Len(s) + i] = r[i]
         /\ \A i \in 1..Len(s \o r) :
              \/ i \in 1..Len(s) /\ (s \o r)[i] = s[i]
              \/ /\ i > Len(s) /\ i - Len(s) \in 1..Len(r)
                 /\ (s \o r)[i] = r[i - Len(s)]
<1>1. /\ s \o r \in Seq(S) /\ Len(s \o r) = Len(s) + Len(r)
      /\ \A i \in 1..(Len(s) + Len(r)) : (s \o r)[i] = IF i <= Len(s) THEN s[i] ELSE r[i - Len(s)]
  BY ConcatProperties
<1>2. Len(s) \in Nat /\ Len(r) \in Nat
  OBVIOUS
<1> DEFINE t == s \o r
<1> HIDE DEF t
<1>3. ASSUME NEW i \in 1..Len(s) PROVE t[i] = s[i]
  BY <1>1, <1>2 DEF t
<1>4. ASSUME NEW i \in 1..Len(r) PROVE t[Len(s) + i] = r[i]
  <2>1. Len(s) + i \in 1..(Len(s) + Len(r)) /\ ~(Len(s) + i <= Len(s)) /\ Len(s) + i - Len(s) = i
    BY <1>2
  <2> QED BY <1>1, <2>1 DEF t
<1>5. ASSUME NEW i \in 1..Len(t)
      PROVE  \/ i \in 1..Len(s) /\ t[i] = s[i]
             \/ i > Len(s) /\ i - Len(s) \in 1..Len(r) /\ t[i] = r[i - Len(s)]
  <2>1. CASE i <= Len(s)
    <3>1. i \in 1..Len(s)
      BY <1>2, <2>1
    <3> QED BY <1>3, <3>1
  <2>2. CASE ~(i <= Len(s))
    <3>1. i > Len(s) /\ i - Len(s) \in 1..Len(r) /\ i \in 1..(Len(s) + Len(r))
      BY <1>1, <1>2, <2>2 DEF t
    <3> QED BY <1>1, <2>2, <3>1 DEF t
  <2> QED BY <2>1, <2>2
<1> QED BY <1>1, <1>3, <1>4, <1>5 DEF t

\* Two ordered sequences, the first wholly below the second, are ordered when joined.
LEMMA JoinedInOrder ==
  ASSUME NEW S, NEW s \in Seq(S), NEW r \in Seq(S), NEW f \in [S -> Nat],
         \A i, j \in 1..Len(s) : i < j => f[s[i]] < f[s[j]],
         \A i, j \in 1..Len(r) : i < j => f[r[i]] < f[r[j]],
         \A i \in 1..Len(s), j \in 1..Len(r) : f[s[i]] < f[r[j]]
  PROVE  \A i, j \in 1..Len(s \o r) : i < j => f[(s \o r)[i]] < f[(s \o r)[j]]
<1> DEFINE t == s \o r
<1>1. \A i \in 1..Len(t) :
        \/ i \in 1..Len(s) /\ t[i] = s[i]
        \/ i > Len(s) /\ i - Len(s) \in 1..Len(r) /\ t[i] = r[i - Len(s)]
  BY JoinFacts
<1>2. Len(s) \in Nat /\ Len(t) \in Nat
  <2>1. t \in Seq(S)
    BY JoinFacts
  <2> QED BY <2>1
<1> HIDE DEF t
<1>3. ASSUME NEW i \in 1..Len(t), NEW j \in 1..Len(t), i < j
      PROVE  f[t[i]] < f[t[j]]
  <2>1. CASE i \in 1..Len(s) /\ t[i] = s[i]
    <3>1. CASE j \in 1..Len(s) /\ t[j] = s[j]
      BY <1>3, <2>1, <3>1
    <3>2. CASE j - Len(s) \in 1..Len(r) /\ t[j] = r[j - Len(s)]
      BY <2>1, <3>2
    <3> QED BY <1>1, <3>1, <3>2
  <2>2. CASE i > Len(s) /\ i - Len(s) \in 1..Len(r) /\ t[i] = r[i - Len(s)]
    <3>1. i - Len(s) < j - Len(s) /\ j \notin 1..Len(s)
      BY <1>2, <1>3, <2>2
    <3>2. j - Len(s) \in 1..Len(r) /\ t[j] = r[j - Len(s)]
      BY <1>1, <3>1
    <3> QED BY <2>2, <3>1, <3>2
  <2> QED BY <1>1, <2>1, <2>2
<1> QED BY <1>3 DEF t

\* Taking the head leaves the other positions, one lower.
LEMMA TailFacts ==
  ASSUME NEW S, NEW s \in Seq(S), s # <<>>
  PROVE  /\ Head(s) \in S /\ Head(s) = s[1] /\ Len(s) \in Nat \ {0}
         /\ Tail(s) \in Seq(S) /\ Len(Tail(s)) = Len(s) - 1
         /\ \A i \in 1..(Len(s) - 1) : Tail(s)[i] = s[i + 1]
BY HeadTailProperties

\* What holds at 0 and passes from each number to the next holds up to n.
LEMMA StepByStep ==
  ASSUME NEW n \in Nat, NEW T, 0 \in T, \A k \in 1..n : k - 1 \in T => k \in T
  PROVE  \A k \in 0..n : k \in T
<1> DEFINE Bad == {k \in 0..n : k \notin T}
           m == Min(Bad)
<1> SUFFICES ASSUME Bad # {} PROVE FALSE
  OBVIOUS
<1>1. m \in Bad /\ \A k \in Bad : m <= k
  <2>1. Bad \subseteq Nat
    OBVIOUS
  <2> QED BY <2>1, SmallestIndex
<1> HIDE DEF m
<1>2. m \in 0..n /\ m \notin T /\ m # 0
  BY <1>1
<1>3. m \in 1..n /\ m - 1 \in 0..n /\ m - 1 \notin Bad
  BY <1>1, <1>2
<1> QED BY <1>2, <1>3

\* A value can be carried through n steps.
CarriedBy(f, S, x, n, g) ==
  f \in [0..n -> S] /\ f[0] = x /\ \A k \in 1..n : f[k] = g[k][f[k - 1]]

LEMMA CarriedThrough ==
  ASSUME NEW S, NEW x \in S, NEW n \in Nat, NEW g \in [1..n -> [S -> S]]
  PROVE  \E f : CarriedBy(f, S, x, n, g)
<1> DEFINE Carried(m) == \E f \in [0..m -> S] : f[0] = x /\ \A k \in 1..m : f[k] = g[k][f[k - 1]]
           T == {m \in 0..n : Carried(m)}
<1>1. 0 \in T
  <2> DEFINE h == [k \in 0..0 |-> x]
  <2>1. h \in [0..0 -> S] /\ h[0] = x /\ 1..0 = {} /\ 0 \in 0..n
    OBVIOUS
  <2> HIDE DEF h
  <2>2. Carried(0)
    BY <2>1
  <2> QED BY <2>1, <2>2
<1>2. ASSUME NEW m \in 1..n, m - 1 \in T PROVE m \in T
  <2>1. PICK f \in [0..(m - 1) -> S] : f[0] = x /\ \A k \in 1..(m - 1) : f[k] = g[k][f[k - 1]]
    BY <1>2
  <2> DEFINE h == [k \in 0..m |-> IF k = m THEN g[m][f[m - 1]] ELSE f[k]]
  <2>2. f[m - 1] \in S /\ g[m] \in [S -> S]
    BY <2>1
  <2>3. \A k \in 0..m : k # m => k \in 0..(m - 1)
    OBVIOUS
  <2>4. h \in [0..m -> S]
    <3>1. \A k \in 0..m : (IF k = m THEN g[m][f[m - 1]] ELSE f[k]) \in S
      BY <2>1, <2>2, <2>3
    <3> QED BY <3>1
  <2>5. h[0] = x
    BY <2>1
  <2>6. ASSUME NEW k \in 1..m PROVE h[k] = g[k][h[k - 1]]
    <3>1. k \in 0..m /\ k - 1 \in 0..m /\ k - 1 # m /\ h[k - 1] = f[k - 1]
      OBVIOUS
    <3>2. CASE k = m
      BY <3>1, <3>2
    <3>3. CASE k # m
      <4>1. k \in 1..(m - 1)
        BY <3>3
      <4> QED BY <2>1, <3>1, <3>3, <4>1
    <3> QED BY <3>2, <3>3
  <2> HIDE DEF h
  <2>7. Carried(m)
    BY <2>4, <2>5, <2>6
  <2>8. m \in 0..n
    OBVIOUS
  <2> HIDE DEF Carried
  <2> QED BY <2>7, <2>8
<1> HIDE DEF T
<1>3. n \in T
  <2>1. \A k \in 0..n : k \in T
    BY <1>1, <1>2, StepByStep
  <2> QED BY <2>1
<1> QED BY <1>3 DEF T, CarriedBy
=============================================================================
