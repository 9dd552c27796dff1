----------------------------- MODULE DivisionProofs -----------------------------
(***************************************************************************)
(* Proofs about make_tree and mt_assemble_neighborhoods, for any dataset,    *)
(* depth of the codes, number of threads and size of a leaf.                 *)
(*                                                                          *)
(* The inductive invariant of the sort, Inv, says which elements of the      *)
(* array the threads have coded, that the codes are those of the bodies in   *)
(* some order, and which elements are already in order: two that no range    *)
(* still to be sorted contains both, and in the range at hand those that the *)
(* two scans passed.                                                         *)
(*                                                                          *)
(* TreeInv adds the tree and what is read from it.  Codes that ascend have   *)
(* the bodies of a node in the order of their octants, so that the search of *)
(* each border finds it and split cuts the slice of a node into those of its *)
(* children; every node of the tree is the root or such a child, with all    *)
(* its siblings.  A walk that takes a node as a whole or goes into all its   *)
(* children then collects slices that lie one after the other, from the      *)
(* first body to the last: the leaves, and every neighbourhood.              *)
(***************************************************************************)
EXTENDS Division, SequenceLemmas, FiniteSetTheorems, WellFoundedInduction, TLAPS

Stages == {"codes", "sort", "split", "assemble", "divided"}
Bodies == Points \cup {<<>>}
Sortbods == [morton: Int, bod: Bodies]
Calls  == [start: Int, end: Int]
Ranges == [start: Int, end: Int, i: Int, l: Int, pivot: Int]

Shape ==
    /\ bodies \in Datasets
    /\ sorts \in [Index -> Sortbods]
    /\ range \in Ranges /\ calls \in Seq(Calls)
    /\ stage \in Stages

(* What each thread has coded of its slice.                                  *)
Coded == stage = "codes" =>
    /\ done \in [Threads -> Nat]
    /\ \A t \in Threads : \A k \in 0..(done[t] - 1) :
          LET e == t * CeilDiv(Count, ThreadCnt) + k IN
          e \in Index => sorts[e] = [morton |-> Morton(bodies[e], bodies), bod |-> bodies[e]]
    /\ range = NoRange /\ calls = <<>>

(* The bodies are at their places; their codes have been moved about.        *)
Rearranged == stage # "codes" =>
    /\ \A k \in Index : sorts[k].bod = bodies[k]
    /\ \E from \in Bijection(Index, Index) :
          \A k \in Index : sorts[k].morton = Morton(bodies[from[k]], bodies)

(* The ranges still to be sorted, the leftmost at hand or else last.         *)
Apart == Sorting =>
    /\ range # NoRange => /\ range.start \in Index /\ range.end \in Index
                          /\ range.start <= range.end
    /\ \A k \in DOMAIN calls : /\ calls[k].start >= 0 /\ calls[k].end \in -1..(Count - 1)
                               /\ range.end < calls[k].start
    /\ \A k, m \in DOMAIN calls : k < m => calls[m].end < calls[k].start

Within(r, a, b) == r.start <= a /\ b <= r.end
Settled(a, b) == ~Within(range, a, b) /\ \A k \in DOMAIN calls : ~Within(calls[k], a, b)
Ascending == Sorting => \A a, b \in Index :
    a < b /\ Settled(a, b) => sorts[a].morton <= sorts[b].morton

(* The scans: what they have passed, and that the first one comes to an end. *)
Scanned == Sorting /\ range # NoRange =>
    /\ range.start <= range.i /\ range.l <= range.end
    /\ \A k \in range.start..(range.i - 1) : sorts[k].morton < range.pivot
    /\ \A k \in (range.l + 1)..range.end : sorts[k].morton >= range.pivot
    /\ \E k \in range.i..range.end : sorts[k].morton >= range.pivot

Inv == Shape /\ Coded /\ Rearranged /\ Apart /\ Ascending /\ Scanned /\ CodesAscend
-------------------------------------------------------------------------------
(* Powers and bounds: what the Morton codes are made of.                     *)
LEMMA PowerOfTwo == ASSUME NEW n \in Nat PROVE 2^n \in Nat \ {0}
  <1> DEFINE S == 1..n
  <1>1. IsFiniteSet(S) /\ Cardinality(S) = n
    BY FS_Interval
  <1>2. IsFiniteSet(SUBSET S) /\ Cardinality(SUBSET S) = 2^n
    BY <1>1, FS_SUBSET
  <1>3. SUBSET S # {}
    OBVIOUS
  <1>4. QED
    BY <1>2, <1>3, FS_CardinalityType, FS_EmptySet

(* A finite set of integers that is not empty has a least and a largest      *)
(* element: no cardinality is the least one of a set without.                *)
LEMMA Extremes ==
    ASSUME NEW S, IsFiniteSet(S), S \subseteq Int, S # {}
    PROVE  /\ \E x \in S : \A y \in S : x <= y
           /\ \E x \in S : \A y \in S : x >= y
  <1> DEFINE Least(T)   == \E x \in T : \A y \in T : x <= y
             Largest(T) == \E x \in T : \A y \in T : x >= y
             Bad == {n \in Nat : \E T \in SUBSET S : /\ T # {} /\ Cardinality(T) = n
                                                     /\ ~(Least(T) /\ Largest(T))}
             R   == OpToRel(<, Nat)
  <1>1. ASSUME Bad # {} PROVE FALSE
    <2>1. PICK n \in Bad : \A m \in Bad : ~(<<m, n>> \in R)
      <3>1. Bad \subseteq Nat
        OBVIOUS
      <3>2. IsWellFoundedOn(R, Nat)
        BY NatLessThanWellFounded
      <3> HIDE DEF Bad, R
      <3>3. QED
        BY <1>1, <3>1, <3>2, WFMin
    <2>2. PICK T \in SUBSET S : T # {} /\ Cardinality(T) = n /\ ~(Least(T) /\ Largest(T))
      BY <2>1
    <2>3. PICK x \in T : TRUE
      BY <2>2
    <2> DEFINE U == T \ {x}
    <2>4. /\ IsFiniteSet(U) /\ Cardinality(U) \in Nat /\ Cardinality(U) < n
      <3>1. IsFiniteSet(T)
        BY FS_Subset
      <3>2. IsFiniteSet(U) /\ Cardinality(U) = Cardinality(T) - 1
        BY <2>3, <3>1, FS_RemoveElement
      <3>3. Cardinality(U) \in Nat /\ Cardinality(T) = n /\ n \in Nat
        BY <2>2, <3>2, FS_CardinalityType
      <3> HIDE DEF U
      <3>4. QED
        BY <3>2, <3>3
    <2>5. CASE U = {}
      <3>1. T = {x} /\ x \in Int
        BY <2>3, <2>5
      <3>2. QED
        BY <2>2, <3>1
    <2>6. CASE U # {}
      <3>1. Cardinality(U) \notin Bad
        BY <2>1, <2>4 DEF OpToRel
      <3>2. U \in SUBSET S
        OBVIOUS
      <3>3. Least(U) /\ Largest(U)
        BY <2>4, <2>6, <3>1, <3>2
      <3>4. PICK p \in U : \A y \in U : p <= y
        BY <3>3
      <3>5. PICK q \in U : \A y \in U : q >= y
        BY <3>3
      <3>6. \A y \in T : y \in U \/ y = x
        BY <2>3
      <3>7. x \in Int /\ p \in Int /\ q \in Int /\ T \subseteq Int /\ p \in T /\ q \in T
        BY <2>2, <2>3
      <3>8. Least(T)
        <4>1. CASE p <= x
          BY <3>4, <3>6, <3>7, <4>1
        <4>2. CASE x <= p
          <5>1. \A y \in T : x <= y
            BY <3>4, <3>6, <3>7, <4>2
          <5>2. QED
            BY <2>3, <5>1
        <4>3. QED
          BY <3>7, <4>1, <4>2
      <3>9. Largest(T)
        <4>1. CASE q >= x
          BY <3>5, <3>6, <3>7, <4>1
        <4>2. CASE x >= q
          <5>1. \A y \in T : x >= y
            BY <3>5, <3>6, <3>7, <4>2
          <5>2. QED
            BY <2>3, <5>1
        <4>3. QED
          BY <3>7, <4>1, <4>2
      <3>10. QED
        BY <2>2, <3>8, <3>9
    <2>7. QED
      BY <2>5, <2>6
  <1>2. Cardinality(S) \in Nat /\ Cardinality(S) \notin Bad /\ S \in SUBSET S
    BY <1>1, FS_CardinalityType
  <1>3. Least(S) /\ Largest(S)
    BY <1>2
  <1>4. QED
    BY <1>3

LEMMA MinMax ==
    ASSUME NEW S, IsFiniteSet(S), S \subseteq Int, S # {}
    PROVE  /\ Min(S) \in S /\ \A y \in S : Min(S) <= y
           /\ Max(S) \in S /\ \A y \in S : Max(S) >= y
  <1>1. PICK x \in S : \A y \in S : x <= y
    BY Extremes
  <1>2. PICK z \in S : \A y \in S : z >= y
    BY Extremes
  <1>3. QED
    BY <1>1, <1>2 DEF Min, Max
-------------------------------------------------------------------------------
(* Datasets, and that Morton codes are integers.                             *)
LEMMA DatasetFacts ==
    ASSUME NEW bs \in Datasets
    PROVE  \E n \in Nat \ {0} : /\ bs \in [0..(n - 1) -> Points]
                                /\ DOMAIN bs = 0..(n - 1) /\ Cardinality(DOMAIN bs) = n
                                /\ IsFiniteSet(DOMAIN bs)
  <1>1. PICK n \in 1..MaxBodies : bs \in [0..(n - 1) -> Points]
    BY DEF Datasets
  <1>2. n \in Nat \ {0} /\ DOMAIN bs = 0..(n - 1)
    BY <1>1, DivisionAssumption
  <1>3. IsFiniteSet(0..(n - 1)) /\ Cardinality(0..(n - 1)) = n
    <2>1. n - 1 \in Int /\ ~(0 > n - 1) /\ (n - 1) - 0 + 1 = n
      BY <1>2
    <2>2. QED
      BY <2>1, FS_Interval
  <1>4. QED
    BY <1>1, <1>2, <1>3

LEMMA CoordinatesFinite ==
    ASSUME NEW bs \in Datasets
    PROVE  IsFiniteSet(Coordinates(bs)) /\ Coordinates(bs) \subseteq Int /\ Coordinates(bs) # {}
  <1> DEFINE D == DOMAIN bs
             C == {bs[k][a] : k \in D, a \in Axes}
             f == [q \in D \X Axes |-> bs[q[1]][q[2]]]
  <1>1. IsFiniteSet(D) /\ bs \in [D -> Points]
    BY DatasetFacts
  <1>2. IsFiniteSet(Axes)
    <2>1. 1 \in Int /\ 3 \in Int
      OBVIOUS
    <2>2. IsFiniteSet(1..3)
      BY <2>1, FS_Interval
    <2>3. QED
      BY <2>2 DEF Axes
  <1>3. IsFiniteSet(D \X Axes)
    BY <1>1, <1>2, FS_Product
  <1>4. f \in Surjection(D \X Axes, C)
    <2>1. \A q \in D \X Axes : f[q] \in C
      OBVIOUS
    <2>2. \A c \in C : \E q \in D \X Axes : f[q] = c
      <3>1. ASSUME NEW k \in D, NEW a \in Axes PROVE \E q \in D \X Axes : f[q] = bs[k][a]
        <4>1. <<k, a>> \in D \X Axes /\ f[<<k, a>>] = bs[k][a]
          OBVIOUS
        <4>2. QED
          BY <4>1
      <3> HIDE DEF f, D
      <3>2. ASSUME NEW c \in C PROVE \E q \in D \X Axes : f[q] = c
        <4>1. PICK k \in D, a \in Axes : c = bs[k][a]
          OBVIOUS
        <4>2. QED
          BY <3>1, <4>1
      <3> HIDE DEF C
      <3>3. QED
        BY <3>2
    <2>3. f \in [D \X Axes -> C]
      BY <2>1
    <2> HIDE DEF f, C, D
    <2>4. QED
      BY <2>2, <2>3 DEF Surjection
  <1>5. IsFiniteSet(C)
    <2> HIDE DEF f, C, D
    <2>1. QED
      BY <1>3, <1>4, FS_Surjection
  <1>6. IsFiniteSet({0} \cup C)
    <2> HIDE DEF C
    <2>1. QED
      BY <1>5, FS_Singleton, FS_Union
  <1>7. C \subseteq Int
    <2>1. ASSUME NEW k \in D, NEW a \in Axes PROVE bs[k][a] \in Int
      <3>1. bs[k] \in Int \X Int \X Int
        BY <1>1, DivisionAssumption
      <3>2. a \in {1, 2, 3}
        BY DEF Axes
      <3>3. QED
        BY <3>1, <3>2
    <2>2. QED
      BY <2>1
  <1>8. Coordinates(bs) = {0} \cup C
    BY DEF Coordinates
  <1> HIDE DEF C
  <1>9. QED
    BY <1>6, <1>7, <1>8

LEMMA ScaledType == ASSUME NEW bs \in Datasets, NEW x \in Int PROVE Scaled(x, bs) \in Int
  <1> DEFINE high == Highest(bs)
             low  == Lowest(bs)
             m    == 2^Depth
  <1>1. high \in Int /\ low \in Int /\ low <= high
    BY CoordinatesFinite, MinMax DEF Highest, Lowest
  <1>2. m \in Int
    BY PowerOfTwo, DivisionAssumption
  <1> HIDE DEF high, low, m
  <1>3. CASE high = low
    BY <1>3 DEF Scaled, high, low
  <1>4. CASE high # low
    <2>1. high - low \in Nat \ {0} /\ (x - low) * m \in Int
      BY <1>1, <1>2, <1>4
    <2> DEFINE q == ((x - low) * m) \div (high - low)
    <2>2. q \in Int
      BY <2>1
    <2>3. Scaled(x, bs) = Min({q, m - 1})
      BY <1>4 DEF Scaled, high, low, m
    <2> HIDE DEF q
    <2>4. IsFiniteSet({q, m - 1})
      <3>1. IsFiniteSet({q}) /\ IsFiniteSet({m - 1})
        BY FS_Singleton
      <3>2. IsFiniteSet({q} \cup {m - 1})
        BY <3>1, FS_Union
      <3>3. {q, m - 1} = {q} \cup {m - 1}
        OBVIOUS
      <3>4. QED
        BY <3>2, <3>3, Zenon
    <2>5. Min({q, m - 1}) \in {q, m - 1}
      BY <1>2, <2>2, <2>4, MinMax
    <2>6. QED
      BY <1>2, <2>2, <2>3, <2>5
  <1>5. QED
    BY <1>3, <1>4
-------------------------------------------------------------------------------
(* The digits of a Morton code.                                              *)

(* The subsets of 1..n+1 are those without n + 1 and those with it.          *)
LEMMA PowerDoubles == ASSUME NEW n \in Nat PROVE 2^(n + 1) = 2 * 2^n
  <1> DEFINE A == SUBSET (1..n)
             B == {X \cup {n + 1} : X \in A}
             C == SUBSET (1..(n + 1))
             h == [X \in A |-> X \cup {n + 1}]
  <1>1. /\ IsFiniteSet(1..n) /\ Cardinality(1..n) = n
        /\ IsFiniteSet(1..(n + 1)) /\ Cardinality(1..(n + 1)) = n + 1
    BY FS_Interval
  <1>2. IsFiniteSet(A) /\ Cardinality(A) = 2^n /\ Cardinality(C) = 2^(n + 1)
    BY <1>1, FS_SUBSET
  <1>3. \A X \in A : n + 1 \notin X
    OBVIOUS
  <1>4. h \in Bijection(A, B)
    <2>1. h \in [A -> B] /\ \A X \in A : h[X] = X \cup {n + 1}
      OBVIOUS
    <2>2. \A X, Y \in A : h[X] = h[Y] => X = Y
      <3> SUFFICES ASSUME NEW X \in A, NEW Y \in A, X \cup {n + 1} = Y \cup {n + 1} PROVE X = Y
        BY <2>1
      <3> QED
        BY <1>3
    <2>3. \A b \in B : \E X \in A : h[X] = b
      BY <2>1
    <2> HIDE DEF h, A, B
    <2> QED
      BY <2>1, <2>2, <2>3 DEF Bijection, Injection, Surjection, IsInjective
  <1>5. IsFiniteSet(B) /\ Cardinality(B) = 2^n
    <2> HIDE DEF h, A, B
    <2> QED
      BY <1>2, <1>4, FS_Bijection DEF ExistsBijection
  <1>6. C = A \cup B
    <2>1. ASSUME NEW X \in C PROVE X \in A \cup B
      <3>1. CASE n + 1 \in X
        <4>1. X \ {n + 1} \in A /\ X = (X \ {n + 1}) \cup {n + 1}
          BY <3>1
        <4> QED
          BY <4>1
      <3>2. CASE n + 1 \notin X
        BY <3>2
      <3> QED
        BY <3>1, <3>2
    <2>2. A \subseteq C /\ B \subseteq C
      <3>1. n + 1 \in 1..(n + 1) /\ \A i \in 1..n : i \in 1..(n + 1)
        OBVIOUS
      <3> QED
        BY <3>1
    <2> QED
      BY <2>1, <2>2
  <1>7. A \cap B = {}
    BY <1>3
  <1>8. 2^n \in Nat
    BY PowerOfTwo
  <1> HIDE DEF A, B, C
  <1>9. Cardinality(A \cup B) = Cardinality(A) + Cardinality(B) - Cardinality(A \cap B)
    BY <1>2, <1>5, FS_Union
  <1>10. Cardinality(A \cap B) = 0
    BY <1>7, FS_EmptySet
  <1> QED
    BY <1>2, <1>5, <1>6, <1>8, <1>9, <1>10

LEMMA PowerOfNone == 2^0 = 1
  <1>1. IsFiniteSet(1..0) /\ Cardinality(1..0) = 0
    BY FS_Interval
  <1>2. Cardinality(SUBSET (1..0)) = 2^0
    BY <1>1, FS_SUBSET
  <1>3. SUBSET (1..0) = {{}}
    OBVIOUS
  <1> QED
    BY <1>2, <1>3, FS_Singleton

(* The weight of an octal digit.                                             *)
Weight(e) == 2^(3 * e)

(* Each digit weighs eight times the one after it.                           *)
LEMMA Weights ==
    /\ Weight(0) = 1
    /\ \A e \in Nat : Weight(e) \in Nat \ {0} /\ Weight(e + 1) = 8 * Weight(e)
  <1>1. Weight(0) = 1
    BY PowerOfNone DEF Weight
  <1>2. ASSUME NEW e \in Nat PROVE Weight(e) \in Nat \ {0} /\ Weight(e + 1) = 8 * Weight(e)
    <2>1. PICK n \in Nat : n = 3 * e
      OBVIOUS
    <2>2. 3 * (e + 1) = n + 1 + 1 + 1 /\ n + 1 \in Nat /\ n + 1 + 1 \in Nat
      BY <2>1
    <2>3. /\ 2^n \in Nat \ {0} /\ 2^(n + 1) = 2 * 2^n /\ 2^(n + 1 + 1) = 2 * 2^(n + 1)
          /\ 2^(n + 1 + 1 + 1) = 2 * 2^(n + 1 + 1)
      BY <2>2, PowerDoubles, PowerOfTwo
    <2>4. Weight(e) = 2^n /\ Weight(e + 1) = 2^(n + 1 + 1 + 1)
      BY <2>1, <2>2, Zenon DEF Weight
    <2> QED
      BY <2>3, <2>4
  <1> QED
    BY <1>1, <1>2, Zenon

(* Division with rest, once for all.                                         *)
LEMMA DivideWithRest ==
    ASSUME NEW m \in Int, NEW w \in Nat \ {0}
    PROVE  m \div w \in Int /\ m % w \in 0..(w - 1) /\ m = w * (m \div w) + (m % w)
  OBVIOUS

LEMMA QuotientIs ==
    ASSUME NEW w \in Nat \ {0}, NEW q \in Int, NEW r \in 0..(w - 1), NEW m, m = w * q + r
    PROVE  m \div w = q
  <1>1. m \in Int
    OBVIOUS
  <1>2. PICK x \in Int, y \in 0..(w - 1) : x = m \div w /\ m = w * x + y
    BY <1>1, DivideWithRest
  <1>3. w * (x - q) = r - y
    BY <1>2
  <1>4. ~(x >= q + 1)
    <2> SUFFICES ASSUME x >= q + 1 PROVE FALSE
      OBVIOUS
    <2>1. PICK z \in Nat : z = x - q - 1
      OBVIOUS
    <2>2. w * (x - q) = w * z + w /\ w * z >= 0
      BY <2>1
    <2> QED
      BY <1>3, <2>2
  <1>5. ~(x <= q - 1)
    <2> SUFFICES ASSUME x <= q - 1 PROVE FALSE
      OBVIOUS
    <2>1. PICK z \in Nat : z = q - 1 - x
      OBVIOUS
    <2>2. w * (x - q) = -(w * z) - w /\ w * z >= 0
      BY <2>1
    <2> QED
      BY <1>3, <2>2
  <1> QED
    BY <1>2, <1>4, <1>5

LEMMA QuotientsAscend ==
    ASSUME NEW w \in Nat \ {0}, NEW m \in Int, NEW n \in Int, m <= n
    PROVE  m \div w <= n \div w
  <1>1. PICK x \in Int, y \in 0..(w - 1) : x = m \div w /\ m = w * x + y
    BY DivideWithRest
  <1>2. PICK u \in Int, v \in 0..(w - 1) : u = n \div w /\ n = w * u + v
    BY DivideWithRest
  <1>3. ~(x >= u + 1)
    <2> SUFFICES ASSUME x >= u + 1 PROVE FALSE
      OBVIOUS
    <2>1. PICK z \in Nat : x = u + 1 + z
      <3>1. x - u - 1 \in Nat /\ x = u + 1 + (x - u - 1)
        OBVIOUS
      <3> QED
        BY <3>1
    <2>2. w * x = w * u + w + w * z /\ w * z >= 0 /\ w * u \in Int /\ w * z \in Int
      BY <2>1
    <2>3. m >= w * u + w
      BY <1>1, <2>2
    <2>4. n < w * u + w
      BY <1>2, <2>2
    <2> QED
      BY <2>2, <2>3, <2>4
  <1> QED
    BY <1>1, <1>2, <1>3

(* The first d digits of a code.                                             *)
Prefix(m, d) == m \div Weight(Depth - d)

(* A code's first d + 1 digits are its first d and the next one.             *)
LEMMA DigitFacts ==
    ASSUME NEW m \in Int, NEW d \in 0..(Depth - 1)
    PROVE  /\ Digit(m, d) \in Octants /\ Prefix(m, d) \in Int
           /\ Prefix(m, d + 1) = 8 * Prefix(m, d) + Digit(m, d)
  <1>1. PICK e \in Nat : e = Depth - 1 - d
    BY DivisionAssumption
  <1>2. Depth - d = e + 1 /\ Depth - (d + 1) = e
    BY <1>1, DivisionAssumption
  <1>3. PICK w \in Nat \ {0}, v \in Nat \ {0} : w = Weight(e) /\ v = Weight(e + 1) /\ v = 8 * w
    <2>1. e + 1 \in Nat
      OBVIOUS
    <2>2. Weight(e) \in Nat \ {0} /\ Weight(e + 1) \in Nat \ {0} /\ Weight(e + 1) = 8 * Weight(e)
      BY <2>1, Weights
    <2> QED
      BY <2>2
  <1>4. PICK q \in Int, r \in 0..(w - 1) : q = m \div w /\ m = w * q + r
    BY DivideWithRest
  <1>5. PICK p \in Int, s \in 0..7 : p = q \div 8 /\ s = q % 8 /\ q = 8 * p + s
    OBVIOUS
  <1>6. m \div v = p
    <2>1. PICK a \in Int, b \in Int : a = 8 * p /\ b = w * s
      OBVIOUS
    <2>2. w * q = w * a + w * s /\ w * a = v * p
      <3>1. q = a + s
        BY <1>5, <2>1
      <3>2. w * (a + s) = w * a + w * s
        OBVIOUS
      <3>3. w * (8 * p) = (8 * w) * p
        OBVIOUS
      <3> QED
        BY <1>3, <2>1, <3>1, <3>2, <3>3
    <2>3. 0 <= b /\ b <= 7 * w
      BY <2>1
    <2>4. m = v * p + (b + r)
      <3>1. v * p \in Int
        OBVIOUS
      <3> QED
        BY <1>4, <2>1, <2>2, <3>1
    <2>5. b + r \in 0..(v - 1)
      BY <1>3, <2>3
    <2> QED
      BY <2>4, <2>5, QuotientIs
  <1>7. Digit(m, d) = s /\ Prefix(m, d) = p /\ Prefix(m, d + 1) = q
    <2>1. Digit(m, d) = (m \div w) % 8
      BY <1>1, <1>3, Zenon DEF Digit, Weight
    <2>2. Prefix(m, d) = m \div v /\ Prefix(m, d + 1) = m \div w
      BY <1>2, <1>3, Zenon DEF Prefix
    <2> QED
      BY <1>4, <1>5, <1>6, <2>1, <2>2
  <1> QED
    BY <1>5, <1>7 DEF Octants

LEMMA PrefixesAscend ==
    ASSUME NEW m \in Int, NEW n \in Int, m <= n, NEW d \in 0..Depth
    PROVE  Prefix(m, d) \in Int /\ Prefix(n, d) \in Int /\ Prefix(m, d) <= Prefix(n, d)
  <1>1. Depth - d \in Nat
    BY DivisionAssumption
  <1>2. Weight(Depth - d) \in Nat \ {0}
    BY <1>1, Weights
  <1> DEFINE w == Weight(Depth - d)
  <1> HIDE DEF w
  <1>3. m \div w \in Int /\ n \div w \in Int /\ m \div w <= n \div w
    BY <1>2, QuotientsAscend, DivideWithRest DEF w
  <1> QED
    BY <1>3 DEF Prefix, w

(* Codes in order, with the same digits up to the d-th, have their d-th      *)
(* digits in order.                                                          *)
LEMMA DigitsAscend ==
    ASSUME NEW m \in Int, NEW n \in Int, m <= n, NEW d \in 0..(Depth - 1),
           Prefix(m, d) = Prefix(n, d)
    PROVE  Digit(m, d) <= Digit(n, d)
  <1>1. d \in 0..Depth /\ d + 1 \in 0..Depth
    BY DivisionAssumption
  <1>2. Prefix(m, d + 1) <= Prefix(n, d + 1)
    BY <1>1, PrefixesAscend
  <1>3. /\ Digit(m, d) \in Int /\ Prefix(m, d) \in Int
        /\ Prefix(m, d + 1) = 8 * Prefix(m, d) + Digit(m, d)
        /\ Digit(n, d) \in Int
        /\ Prefix(n, d + 1) = 8 * Prefix(n, d) + Digit(n, d)
    <2>1. Octants \subseteq Int
      BY DEF Octants
    <2>2. /\ Digit(m, d) \in Octants /\ Prefix(m, d) \in Int
          /\ Prefix(m, d + 1) = 8 * Prefix(m, d) + Digit(m, d)
      BY DigitFacts
    <2>3. Digit(n, d) \in Octants /\ Prefix(n, d + 1) = 8 * Prefix(n, d) + Digit(n, d)
      BY DigitFacts
    <2> QED
      BY <2>1, <2>2, <2>3
  <1> QED
    BY <1>2, <1>3

(* All codes have the same first no digits.                                  *)
LEMMA NoPrefix ==
    ASSUME NEW m \in Int, 0 <= m, m < Weight(Depth)
    PROVE  Prefix(m, 0) = 0
  <1>1. Weight(Depth) \in Nat \ {0} /\ Depth - 0 = Depth
    BY Weights, DivisionAssumption
  <1> DEFINE w == Weight(Depth)
  <1> HIDE DEF w
  <1>2. m = w * 0 + m /\ m \in 0..(w - 1)
    BY <1>1 DEF w
  <1>3. m \div w = 0
    BY <1>1, <1>2, QuotientIs DEF w
  <1> QED
    BY <1>1, <1>3 DEF Prefix, w

LEMMA BitFacts ==
    ASSUME NEW bs \in Datasets, NEW x \in Int, NEW d \in 0..(Depth - 1)
    PROVE  Bit(x, d, bs) \in 0..1
  <1>1. Depth - 1 - d \in Nat
    BY DivisionAssumption
  <1>2. 2^(Depth - 1 - d) \in Nat \ {0}
    BY <1>1, PowerOfTwo
  <1> DEFINE s == Scaled(x, bs)
             p == 2^(Depth - 1 - d)
  <1>3. s \in Int
    BY ScaledType
  <1> HIDE DEF s, p
  <1>4. s \div p \in Int
    BY <1>2, <1>3 DEF p
  <1>5. (s \div p) % 2 \in 0..1
    BY <1>4
  <1> QED
    BY <1>5 DEF Bit, s, p

(* A Morton code has Depth octal digits.                                     *)
LEMMA MortonFacts ==
    ASSUME NEW bs \in Datasets, NEW b \in Points
    PROVE  Morton(b, bs) \in Int /\ 0 <= Morton(b, bs) /\ Morton(b, bs) < Weight(Depth)
  <1> DEFINE Add(x, d) == 8 * x + 4 * Bit(b[1], d - 1, bs) + 2 * Bit(b[2], d - 1, bs)
                                + Bit(b[3], d - 1, bs)
             g == [n \in Nat |-> [x \in Int |-> IF n + 1 \in 1..Depth THEN Add(x, n + 1) ELSE x]]
             Is(f) == f = [d \in 0..Depth |-> IF d = 0 THEN 0 ELSE Add(f[d - 1], d)]
             code == CHOOSE f : Is(f)
  <1>0. Depth \in Nat \ {0} /\ b[1] \in Int /\ b[2] \in Int /\ b[3] \in Int
    BY DivisionAssumption
  <1>1. ASSUME NEW x \in Int, NEW d \in 1..Depth
        PROVE  Add(x, d) \in Int /\ 8 * x <= Add(x, d) /\ Add(x, d) <= 8 * x + 7
    <2>1. d - 1 \in 0..(Depth - 1)
      BY <1>0
    <2>2. /\ Bit(b[1], d - 1, bs) \in 0..1 /\ Bit(b[2], d - 1, bs) \in 0..1
          /\ Bit(b[3], d - 1, bs) \in 0..1
      BY <1>0, <2>1, BitFacts
    <2> QED
      BY <2>2
  <1> HIDE DEF Add
  <1>2. g \in [Nat -> [Int -> Int]]
    BY <1>1
  <1>3. ASSUME NEW d \in 1..Depth, NEW x \in Int PROVE g[d - 1][x] = Add(x, d)
    <2>1. d - 1 \in Nat /\ (d - 1) + 1 = d
      OBVIOUS
    <2> QED
      BY <2>1
  <1> HIDE DEF g
  <1>4. PICK F \in [0..Depth -> Int] : RecursUpTo(F, Depth, 0, g)
    <2>1. Depth \in Nat /\ 0 \in Int
      BY <1>0
    <2> QED
      BY <1>2, <2>1, RecursionUpTo, Zenon
  <1>5. Is(F)
    <2>1. ASSUME NEW d \in 0..Depth, d # 0 PROVE g[d - 1][F[d - 1]] = Add(F[d - 1], d)
      <3>1. d \in 1..Depth /\ d - 1 \in 0..Depth
        BY <1>0, <2>1
      <3> QED
        BY <1>3, <3>1
    <2> QED
      BY <1>4, <2>1 DEF RecursUpTo
  <1>6. Is(code)
    <2> HIDE DEF Is
    <2> QED
      BY <1>5, Zenon
  <1> HIDE DEF code
  <1>7. code[0] = 0 /\ \A d \in 1..Depth : code[d] = Add(code[d - 1], d)
    <2>1. \A d \in 0..Depth : code[d] = IF d = 0 THEN 0 ELSE Add(code[d - 1], d)
      BY <1>6
    <2>2. \A d \in 1..Depth : d \in 0..Depth /\ d # 0
      OBVIOUS
    <2> QED
      BY <1>0, <2>1, <2>2
  <1> HIDE DEF Is
  <1> DEFINE Bounded(n) == code[n] \in Int /\ 0 <= code[n] /\ code[n] < Weight(n)
             T == {n \in Nat : n <= Depth => Bounded(n)}
  <1>8. 0 \in T
    <2>1. Bounded(0)
      BY <1>7, Weights
    <2> HIDE DEF Bounded
    <2> QED
      BY <2>1
  <1>9. ASSUME NEW n \in Nat, n \in T PROVE n + 1 \in T
    <2> SUFFICES ASSUME n + 1 <= Depth PROVE Bounded(n + 1)
      OBVIOUS
    <2>1. n + 1 \in 1..Depth /\ (n + 1) - 1 = n /\ n <= Depth
      BY <1>0
    <2>2. Bounded(n)
      BY <1>9, <2>1
    <2>3. code[n + 1] = Add(code[n], n + 1)
      BY <1>7, <2>1
    <2>4. /\ Add(code[n], n + 1) \in Int /\ 8 * code[n] <= Add(code[n], n + 1)
          /\ Add(code[n], n + 1) <= 8 * code[n] + 7
      BY <1>1, <2>1, <2>2
    <2>5. Weight(n) \in Nat \ {0} /\ Weight(n + 1) = 8 * Weight(n)
      BY Weights
    <2> QED
      BY <2>2, <2>3, <2>4, <2>5
  <1>10. Bounded(Depth)
    <2> HIDE DEF T
    <2>1. Depth \in T
      BY <1>0, <1>8, <1>9, Induction
    <2> QED
      BY <1>0, <2>1 DEF T
  <1>11. Morton(b, bs) = code[Depth]
    BY DEF Morton, code, Is, Add
  <1> QED
    BY <1>10, <1>11
-------------------------------------------------------------------------------
(* The index set, the slices of the threads and a range that is opened.      *)
LEMMA IndexFacts ==
    ASSUME Shape
    PROVE  /\ Count \in Nat \ {0} /\ Index = 0..(Count - 1) /\ IsFiniteSet(Index)
           /\ bodies \in [Index -> Points]
  <1>1. PICK n \in Nat \ {0} : /\ bodies \in [0..(n - 1) -> Points]
                               /\ DOMAIN bodies = 0..(n - 1) /\ Cardinality(DOMAIN bodies) = n
                               /\ IsFiniteSet(DOMAIN bodies)
    BY DatasetFacts DEF Shape
  <1>2. QED
    BY <1>1 DEF Count, Index

LEMMA SliceOf ==
    ASSUME NEW n \in Nat \ {0}, NEW d \in Nat \ {0}, NEW e \in 0..(n - 1)
    PROVE  LET per == CeilDiv(n, d) IN
           /\ per \in Nat \ {0}
           /\ \E t \in 0..(d - 1) : \E k \in 0..(per - 1) : e = t * per + k
  <1> DEFINE per == CeilDiv(n, d)
             r   == (n + d - 1) % d
  <1>1. /\ per \in Int /\ r \in 0..(d - 1) /\ n + d - 1 = per * d + r
    <2>1. n + d - 1 \in Int
      OBVIOUS
    <2>2. QED
      BY <2>1 DEF CeilDiv
  <1> HIDE DEF per, r
  <1>2. per * d >= n
    BY <1>1
  <1>3. per \in Nat \ {0}
    <2>1. CASE per <= 0
      <3>1. per * d <= 0 /\ per * d \in Int
        BY <1>1, <2>1
      <3>2. QED
        BY <1>2, <3>1
    <2>2. QED
      BY <1>1, <2>1
  <1> DEFINE t == e \div per
             k == e % per
  <1>4. t \in Int /\ k \in 0..(per - 1) /\ e = t * per + k
    BY <1>3
  <1> HIDE DEF t, k
  <1>5. t >= 0
    <2>1. CASE t <= -1
      <3>1. t * per <= -per
        BY <1>3, <1>4, <2>1
      <3>2. t * per \in Int
        BY <1>3, <1>4
      <3>3. QED
        BY <1>3, <1>4, <3>1, <3>2
    <2>2. QED
      BY <1>4, <2>1
  <1>6. t <= d - 1
    <2>1. CASE t >= d
      <3>1. t * per >= d * per
        BY <1>3, <1>4, <2>1
      <3>2. d * per = per * d /\ t * per \in Int /\ per * d \in Int
        BY <1>3, <1>4
      <3>3. QED
        BY <1>2, <1>4, <3>1, <3>2
    <2>2. QED
      BY <1>4, <2>1
  <1>7. t \in 0..(d - 1)
    BY <1>4, <1>5, <1>6
  <1>8. QED
    BY <1>3, <1>4, <1>7 DEF per

LEMMA OpenedFacts ==
    ASSUME Shape, NEW start \in Index, NEW end \in Index, start <= end,
           NEW r, r = Opened(start, end)
    PROVE  /\ r \in Ranges /\ r # NoRange
           /\ r.start = start /\ r.end = end /\ r.i = start /\ r.l = end
           /\ \E mid \in start..end : r.pivot = sorts[mid].morton
  <1> DEFINE mid == start + ((end - start) \div 2)
  <1>1. Index = 0..(Count - 1) /\ Count \in Nat
    BY IndexFacts
  <1>2. mid \in start..end
    BY <1>1
  <1> HIDE DEF mid
  <1>3. mid \in Index
    BY <1>1, <1>2
  <1>4. sorts[mid].morton \in Int
    BY <1>3 DEF Shape, Sortbods
  <1>5. start \in Int /\ end \in Int /\ end >= 0
    BY <1>1
  <1>6. Opened(start, end) = [start |-> start, end |-> end, i |-> start, l |-> end,
                              pivot |-> sorts[mid].morton]
    BY DEF Opened, mid
  <1>7. Opened(start, end) \in Ranges
    BY <1>4, <1>5, <1>6 DEF Ranges
  <1>8. NoRange.end = -1
    BY DEF NoRange
  <1>9. Opened(start, end).end = end
    BY <1>6
  <1>10. QED
    BY <1>2, <1>5, <1>6, <1>7, <1>8, <1>9

(* msort_swap exchanges the codes of two places and nothing else.            *)
LEMMA SwapFacts ==
    ASSUME NEW D, NEW a \in [D -> Sortbods],
           NEW k \in D, NEW l \in D, k # l, NEW b, b = Swap(a, k, l)
    PROVE  /\ b \in [D -> Sortbods]
           /\ b[k].morton = a[l].morton /\ b[l].morton = a[k].morton
           /\ \A m \in D \ {k, l} : b[m] = a[m]
           /\ \A m \in D : b[m].bod = a[m].bod
  <1>1. /\ a[k] = [morton |-> a[k].morton, bod |-> a[k].bod]
        /\ a[l] = [morton |-> a[l].morton, bod |-> a[l].bod]
        /\ a[k].morton \in Int /\ a[l].morton \in Int /\ a[k].bod \in Bodies /\ a[l].bod \in Bodies
    BY DEF Sortbods
  <1>2. DOMAIN b = D
    BY DEF Swap
  <1>3. b[k] = [morton |-> a[l].morton, bod |-> a[k].bod]
    BY <1>1 DEF Swap
  <1>4. b[l] = [morton |-> a[k].morton, bod |-> a[l].bod]
    BY <1>1 DEF Swap
  <1>5. \A m \in D \ {k, l} : b[m] = a[m]
    BY DEF Swap
  <1>6. b = [m \in D |-> b[m]]
    BY <1>2 DEF Swap
  <1>7. \A m \in D : b[m] \in Sortbods
    BY <1>1, <1>3, <1>4, <1>5 DEF Sortbods
  <1>8. \A m \in D : b[m].bod = a[m].bod
    BY <1>3, <1>4, <1>5
  <1>9. QED
    BY <1>3, <1>4, <1>5, <1>6, <1>7, <1>8

LEMMA SwapBijection ==
    ASSUME NEW D, NEW f \in Bijection(D, D), NEW k \in D, NEW l \in D
    PROVE  [f EXCEPT ![k] = f[l], ![l] = f[k]] \in Bijection(D, D)
  <1> DEFINE g == [f EXCEPT ![k] = f[l], ![l] = f[k]]
  <1>1. /\ f \in [D -> D]
        /\ \A a, b \in D : f[a] = f[b] => a = b
        /\ \A t \in D : \E s \in D : f[s] = t
    BY DEF Bijection, Injection, Surjection, IsInjective
  <1>2. /\ g \in [D -> D] /\ g[k] = f[l] /\ g[l] = f[k]
        /\ \A m \in D \ {k, l} : g[m] = f[m]
    BY <1>1
  <1> HIDE DEF g
  <1>3. \A a, b \in D : g[a] = g[b] => a = b
    BY <1>1, <1>2
  <1>4. \A t \in D : \E s \in D : g[s] = t
    <2>1. ASSUME NEW t \in D PROVE \E s \in D : g[s] = t
      <3>1. PICK s \in D : f[s] = t
        BY <1>1
      <3>2. CASE s \notin {k, l}
        BY <1>2, <3>1, <3>2
      <3>3. CASE s = k
        BY <1>2, <3>1, <3>3
      <3>4. CASE s = l
        BY <1>2, <3>1, <3>4
      <3>5. QED
        BY <3>2, <3>3, <3>4
    <2>2. QED
      BY <2>1
  <1>5. g \in Bijection(D, D)
    BY <1>2, <1>3, <1>4 DEF Bijection, Injection, Surjection, IsInjective
  <1>6. QED
    BY <1>5 DEF g
-------------------------------------------------------------------------------
LEMMA InitInv == Init => Inv
  <1> SUFFICES ASSUME Init PROVE Inv
    OBVIOUS
  <1>1. /\ bodies \in Datasets /\ sorts = [k \in Index |-> Unset]
        /\ done = [t \in Threads |-> 0] /\ range = NoRange /\ calls = <<>> /\ stage = "codes"
    BY DEF Init
  <1>2. Shape
    <2>1. Unset \in Sortbods
      BY DEF Unset, Bodies, Sortbods
    <2>2. NoRange \in Ranges
      BY DEF NoRange, Ranges
    <2>3. QED
      BY <1>1, <2>1, <2>2 DEF Shape, Stages
  <1>3. Coded
    BY <1>1 DEF Coded
  <1>4. QED
    BY <1>1, <1>2, <1>3 DEF Inv, Rearranged, Apart, Ascending, Scanned, CodesAscend, Sorting, Sorted

(* What does not touch the arrays of the sort keeps the invariant.           *)
LEMMA Still ==
    ASSUME Inv, UNCHANGED <<bodies, sorts, range, calls>>,
           \/ stage' = stage /\ done' = done
           \/ Sorted /\ stage' \in {"split", "assemble", "divided"}
    PROVE  Inv'
  <1>1. stage' \in Stages /\ (Sorting' <=> Sorting) /\ (Sorted' <=> Sorted)
        /\ (stage' = "codes" <=> stage = "codes") /\ (stage' = "codes" => done' = done)
    BY DEF Inv, Shape, Stages, Sorting, Sorted
  <1>2. Shape'
    BY <1>1 DEF Inv, Shape, Index
  <1>3. Coded'
    BY <1>1 DEF Inv, Coded, Index, Count
  <1>4. Rearranged'
    BY <1>1 DEF Inv, Rearranged, Index
  <1>5. Apart'
    BY <1>1 DEF Inv, Apart, Index, Count
  <1>6. Ascending'
    BY <1>1 DEF Inv, Ascending, Settled, Within, Index
  <1>7. Scanned'
    BY <1>1 DEF Inv, Scanned
  <1>8. CodesAscend'
    BY <1>1 DEF Inv, CodesAscend, Index, Count
  <1>9. QED
    BY <1>2, <1>3, <1>4, <1>5, <1>6, <1>7, <1>8 DEF Inv

LEMMA MortThreadInv == ASSUME Inv, NEW t \in Threads, MortThread(t) PROVE Inv'
  <1> DEFINE per == CeilDiv(Count, ThreadCnt)
             e   == t * per + done[t]
             New(k) == [morton |-> Morton(bodies[k], bodies), bod |-> bodies[k]]
  <1>1. /\ stage = "codes" /\ stage' = "codes" /\ UNCHANGED <<bodies, range, calls>>
        /\ sorts' = [sorts EXCEPT ![e] = New(e)]
        /\ done' = [done EXCEPT ![t] = @ + 1]
    BY DEF MortThread
  <1>2. Shape /\ Coded
    BY DEF Inv
  <1>3. Index' = Index /\ Count' = Count
    BY <1>1 DEF Index, Count
  <1>4. sorts \in [Index -> Sortbods]
    BY <1>2 DEF Shape
  <1>5. \A k \in Index : New(k) \in Sortbods
    BY <1>2, IndexFacts, MortonFacts DEF Shape, Bodies, Sortbods
  <1> HIDE DEF New, e
  <1>6. sorts' \in [Index -> Sortbods]
    BY <1>1, <1>4, <1>5
  <1>7. Shape'
    BY <1>1, <1>2, <1>3, <1>6 DEF Shape
  <1>8. Coded'
    <2>1. done \in [Threads -> Nat] /\ done' \in [Threads -> Nat]
      BY <1>1, <1>2 DEF Coded
    <2>2. ASSUME NEW u \in Threads, NEW k \in 0..(done'[u] - 1), NEW x, x = u * per + k, x \in Index
          PROVE  sorts'[x] = New(x)
      <3>1. CASE x = e
        BY <1>1, <1>4, <2>2, <3>1
      <3>2. CASE x # e
        <4>1. k \in 0..(done[u] - 1)
          <5>1. CASE u # t
            BY <1>1, <2>1, <5>1
          <5>2. CASE u = t
            <6>1. done'[t] = done[t] + 1 /\ done[t] \in Nat
              BY <1>1, <2>1
            <6>2. k # done[t]
              BY <2>2, <3>2, <5>2 DEF e
            <6>3. QED
              BY <5>2, <6>1, <6>2
          <5>3. QED
            BY <5>1, <5>2
        <4>2. sorts[x] = New(x)
          BY <1>1, <1>2, <2>2, <4>1 DEF Coded, New
        <4>3. QED
          BY <1>1, <1>4, <2>2, <3>2, <4>2
      <3>3. QED
        BY <3>1, <3>2
    <2>3. range' = NoRange /\ calls' = <<>>
      BY <1>1, <1>2 DEF Coded
    <2> HIDE DEF per
    <2>4. \A u \in Threads : \A k \in 0..(done'[u] - 1) :
             u * per + k \in Index => sorts'[u * per + k] = New(u * per + k)
      BY <2>2
    <2>5. bodies' = bodies
      BY <1>1
    <2>6. QED
      BY <1>3, <2>1, <2>3, <2>4, <2>5 DEF Coded, New, per
  <1>9. QED
    BY <1>1, <1>7, <1>8 DEF Inv, Rearranged, Apart, Ascending, Scanned, CodesAscend, Sorting, Sorted

LEMMA MortJoinedInv == ASSUME Inv, MortJoined PROVE Inv'
  <1> DEFINE per == CeilDiv(Count, ThreadCnt)
  <1>1. /\ stage = "codes" /\ stage' = "sort" /\ UNCHANGED <<bodies, sorts, calls>>
        /\ range' = Opened(0, Count - 1)
        /\ \A t \in Threads : done[t] >= SliceLen(t, per, Count)
    BY DEF MortJoined
  <1>2. Shape /\ Coded /\ calls = <<>>
    BY <1>1 DEF Inv, Coded
  <1>3. Index' = Index /\ Count' = Count
    BY <1>1 DEF Index, Count
  <1>4. Count \in Nat \ {0} /\ Index = 0..(Count - 1)
    BY <1>2, IndexFacts
  <1>5. \A e \in Index : sorts[e] = [morton |-> Morton(bodies[e], bodies), bod |-> bodies[e]]
    <2>1. ASSUME NEW e \in Index
          PROVE  sorts[e] = [morton |-> Morton(bodies[e], bodies), bod |-> bodies[e]]
      <3>1. per \in Nat \ {0} /\ ThreadCnt \in Nat \ {0}
            /\ \E t \in 0..(ThreadCnt - 1) : \E k \in 0..(per - 1) : e = t * per + k
        <4>1. e \in 0..(Count - 1) /\ ThreadCnt \in Nat \ {0}
          BY <1>4, DivisionAssumption
        <4>2. QED
          BY <1>4, <4>1, SliceOf
      <3> HIDE DEF per
      <3>2. PICK t \in 0..(ThreadCnt - 1), k \in 0..(per - 1) : e = t * per + k
        BY <3>1
      <3>3. t \in Threads /\ done[t] \in Nat
        BY <1>1, <1>2, <3>2 DEF Threads, Coded
      <3>4. k < SliceLen(t, per, Count)
        <4>1. t * per \in Int /\ k < Count - t * per
          BY <1>4, <3>1, <3>2
        <4>2. QED
          BY <3>1, <4>1 DEF SliceLen
      <3>5. SliceLen(t, per, Count) \in Int
        <4>1. t * per \in Int
          BY <3>1, <3>2
        <4>2. QED
          BY <1>4, <3>1, <4>1 DEF SliceLen
      <3>6. k \in 0..(done[t] - 1)
        BY <1>1, <3>2, <3>3, <3>4, <3>5
      <3>7. QED
        BY <1>1, <1>2, <3>2, <3>3, <3>6 DEF Coded, per
    <2>2. QED
      BY <2>1
  <1>6. 0 \in Index /\ Count - 1 \in Index /\ 0 <= Count - 1
    BY <1>4
  <1>7. /\ range' \in Ranges /\ range' # NoRange
        /\ range'.start = 0 /\ range'.end = Count - 1 /\ range'.i = 0 /\ range'.l = Count - 1
        /\ \E mid \in 0..(Count - 1) : range'.pivot = sorts[mid].morton
    BY <1>1, <1>2, <1>6, OpenedFacts
  <1>8. Shape'
    BY <1>1, <1>2, <1>3, <1>7 DEF Shape, Stages
  <1>9. Rearranged'
    <2> DEFINE from == [k \in Index |-> k]
    <2>1. from \in Bijection(Index, Index)
      BY DEF Bijection, Injection, Surjection, IsInjective
    <2>2. \A k \in Index : sorts[k].bod = bodies[k]
                            /\ sorts[k].morton = Morton(bodies[from[k]], bodies)
      <3>1. ASSUME NEW k \in Index
            PROVE  sorts[k].bod = bodies[k] /\ sorts[k].morton = Morton(bodies[k], bodies)
        <4> DEFINE code == Morton(bodies[k], bodies)
                   place == bodies[k]
        <4>1. sorts[k] = [morton |-> code, bod |-> place]
          BY <1>5
        <4> HIDE DEF code, place
        <4>2. sorts[k].bod = place /\ sorts[k].morton = code
          BY <4>1
        <4>3. QED
          BY <4>2 DEF code, place
      <3>2. \A k \in Index : from[k] = k
        OBVIOUS
      <3> HIDE DEF from
      <3>3. QED
        BY <3>1, <3>2
    <2> HIDE DEF from
    <2>3. QED
      BY <1>1, <1>3, <2>1, <2>2 DEF Rearranged
  <1>10. Apart'
    <2>1. DOMAIN calls = {}
      BY <1>2
    <2>2. QED
      BY <1>1, <1>3, <1>6, <1>7, <2>1 DEF Apart
  <1>11. Ascending'
    <2>1. ASSUME NEW a \in Index, NEW b \in Index PROVE Within(range', a, b)
      BY <1>4, <1>7, <2>1 DEF Within
    <2>2. QED
      BY <1>3, <2>1 DEF Ascending, Settled, Within
  <1>12. Scanned'
    <2>1. \A mid \in 0..(Count - 1) : sorts[mid].morton \in Int
      BY <1>2, <1>4 DEF Shape, Sortbods
    <2>2. \E mid \in 0..(Count - 1) : sorts[mid].morton >= range'.pivot
      BY <1>7, <2>1
    <2>3. 0..(0 - 1) = {} /\ ((Count - 1) + 1)..(Count - 1) = {}
      BY <1>4
    <2>4. QED
      BY <1>1, <1>4, <1>7, <2>2, <2>3 DEF Scanned
  <1>13. QED
    BY <1>1, <1>8, <1>9, <1>10, <1>11, <1>12 DEF Inv, Coded, CodesAscend, Sorted
-------------------------------------------------------------------------------
(* Where the scans stop: i at the first code from range.i on that is not     *)
(* below the pivot, l at the last one up to range.l that is.                 *)
LEMMA ScansStop ==
    ASSUME Inv, Sorting, range # NoRange, Below # {}
    PROVE  LET i == Min(Above)
               l == Max(Below)
           IN  /\ i \in Index /\ range.i <= i /\ i <= range.end /\ sorts[i].morton >= range.pivot
               /\ l \in Index /\ l <= range.l /\ sorts[l].morton < range.pivot
               /\ \A k \in range.start..(i - 1) : sorts[k].morton < range.pivot
               /\ \A k \in (l + 1)..range.end : k \in Index => sorts[k].morton >= range.pivot
  <1> DEFINE i == Min(Above)
             l == Max(Below)
  <1>1. /\ Shape /\ range \in Ranges /\ Count \in Nat \ {0} /\ Index = 0..(Count - 1)
        /\ IsFiniteSet(Index) /\ sorts \in [Index -> Sortbods]
    BY IndexFacts DEF Inv, Shape
  <1>2. /\ range.start \in Int /\ range.end \in Int /\ range.i \in Int /\ range.l \in Int
        /\ range.pivot \in Int /\ \A k \in Index : sorts[k].morton \in Int
    BY <1>1 DEF Ranges, Sortbods
  <1>3. /\ range.start \in Index /\ range.end \in Index /\ range.start <= range.end
        /\ range.start <= range.i /\ range.l <= range.end
        /\ \A k \in range.start..(range.i - 1) : sorts[k].morton < range.pivot
        /\ \A k \in (range.l + 1)..range.end : sorts[k].morton >= range.pivot
        /\ \E k \in range.i..range.end : sorts[k].morton >= range.pivot
    BY DEF Inv, Apart, Scanned
  <1>4. PICK m \in range.i..range.end : sorts[m].morton >= range.pivot
    BY <1>3
  <1>5. m \in Above
    BY <1>1, <1>2, <1>3, <1>4 DEF Above
  <1>6. Above \subseteq Index /\ Below \subseteq Index /\ Index \subseteq Int
    BY <1>1 DEF Above, Below
  <1>7. IsFiniteSet(Above) /\ IsFiniteSet(Below)
    BY <1>1, <1>6, FS_Subset
  <1>8. i \in Above /\ (\A y \in Above : i <= y) /\ l \in Below /\ \A y \in Below : l >= y
    BY <1>5, <1>6, <1>7, MinMax
  <1> HIDE DEF i, l
  <1>9. i \in Index /\ i >= range.i /\ i <= m /\ sorts[i].morton >= range.pivot
    BY <1>5, <1>8 DEF Above
  <1>10. l \in Index /\ l <= range.l /\ sorts[l].morton < range.pivot
    BY <1>8 DEF Below
  <1>11. ASSUME NEW k \in range.start..(i - 1) PROVE sorts[k].morton < range.pivot
    <2>1. k \in Index /\ sorts[k].morton \in Int
      BY <1>1, <1>2, <1>3, <1>9
    <2>2. CASE k < range.i
      BY <1>2, <1>3, <2>2
    <2>3. CASE k >= range.i
      <3>1. k \notin Above
        BY <1>1, <1>8, <1>9, <2>1
      <3>2. QED
        BY <1>2, <2>1, <2>3, <3>1 DEF Above
    <2>4. QED
      BY <1>2, <2>1, <2>2, <2>3
  <1>12. ASSUME NEW k \in (l + 1)..range.end, k \in Index PROVE sorts[k].morton >= range.pivot
    <2>1. sorts[k].morton \in Int /\ k \in Int
      BY <1>1, <1>2, <1>12
    <2>2. CASE k > range.l
      BY <1>2, <1>3, <2>1, <2>2
    <2>3. CASE k <= range.l
      <3>1. k \notin Below
        BY <1>1, <1>8, <1>10, <1>12
      <3>2. QED
        BY <1>2, <1>12, <2>1, <2>3, <3>1 DEF Below
    <2>4. QED
      BY <1>2, <2>1, <2>2, <2>3
  <1>13. i <= range.end
    BY <1>1, <1>2, <1>4, <1>9
  <1>14. QED
    BY <1>9, <1>10, <1>11, <1>12, <1>13 DEF i, l

(* A pass that swaps: both ends of the swap are in the range at hand, and    *)
(* the scans go on from there.                                               *)
LEMMA PassSwaps ==
    ASSUME Inv, PartitionPass, NEW i, NEW l, i = Min(Above), l = Max(Below), i < l
    PROVE  Inv'
  <1>1. /\ Sorting /\ stage = "sort" /\ range # NoRange /\ Below # {}
        /\ UNCHANGED <<bodies, stage, calls>>
        /\ sorts' = Swap(sorts, i, l) /\ range' = [range EXCEPT !.i = i, !.l = l]
    <2>1. Sorting /\ stage = "sort" /\ range # NoRange /\ Below # {} /\ UNCHANGED <<bodies, stage>>
      BY DEF PartitionPass, Sorting
    <2>2. ~(i >= l)
      <3>1. i \in Int /\ l \in Int
        <4>1. i \in Index /\ l \in Index
          BY <2>1, ScansStop
        <4>2. Shape
          BY DEF Inv
        <4>3. Index \subseteq Int
          BY <4>2, IndexFacts
        <4>4. QED
          BY <4>1, <4>3
      <3>2. QED
        BY <3>1
    <2>3. QED
      BY <2>1, <2>2 DEF PartitionPass
  <1>2. /\ i \in Index /\ range.i <= i /\ i <= range.end /\ sorts[i].morton >= range.pivot
        /\ l \in Index /\ l <= range.l /\ sorts[l].morton < range.pivot
        /\ \A k \in range.start..(i - 1) : sorts[k].morton < range.pivot
        /\ \A k \in (l + 1)..range.end : k \in Index => sorts[k].morton >= range.pivot
    BY <1>1, ScansStop
  <1>3. /\ Shape /\ range \in Ranges /\ Count \in Nat \ {0} /\ Index = 0..(Count - 1)
        /\ sorts \in [Index -> Sortbods]
    BY IndexFacts DEF Inv, Shape
  <1>4. /\ range.start \in Int /\ range.end \in Int /\ range.i \in Int /\ range.l \in Int
        /\ range.pivot \in Int /\ \A k \in Index : sorts[k].morton \in Int
    BY <1>3 DEF Ranges, Sortbods
  <1>5. /\ range.start \in Index /\ range.end \in Index
        /\ range.start <= range.i /\ range.l <= range.end
    BY <1>1 DEF Inv, Apart, Scanned
  <1>6. /\ range' \in Ranges /\ range' # NoRange
        /\ range'.start = range.start /\ range'.end = range.end /\ range'.pivot = range.pivot
        /\ range'.i = i /\ range'.l = l
    <2>1. range = [start |-> range.start, end |-> range.end, i |-> range.i, l |-> range.l,
                   pivot |-> range.pivot]
      BY <1>3 DEF Ranges
    <2>2. range' = [start |-> range.start, end |-> range.end, i |-> i, l |-> l,
                    pivot |-> range.pivot]
      BY <1>1, <2>1
    <2>3. i \in Int /\ l \in Int
      BY <1>2, <1>3
    <2>4. range' \in Ranges
      BY <1>4, <2>2, <2>3 DEF Ranges
    <2>5. range'.end = range.end /\ range.end >= 0 /\ NoRange.end = -1
      BY <1>3, <1>5, <2>2 DEF NoRange
    <2>6. range' # NoRange
      BY <1>4, <2>5
    <2>7. QED
      BY <2>2, <2>4, <2>6
  <1>7. i # l /\ i \in Int /\ l \in Int
    BY <1>2, <1>3
  <1>8. /\ sorts' \in [Index -> Sortbods]
        /\ sorts'[i].morton = sorts[l].morton /\ sorts'[l].morton = sorts[i].morton
        /\ \A k \in Index \ {i, l} : sorts'[k] = sorts[k]
        /\ \A k \in Index : sorts'[k].bod = sorts[k].bod
    BY <1>1, <1>2, <1>3, <1>7, SwapFacts
  <1>9. Index' = Index /\ Count' = Count
    BY <1>1 DEF Index, Count
  <1>10. Shape'
    BY <1>1, <1>3, <1>6, <1>8, <1>9 DEF Shape
  <1>11. Rearranged'
    <2>1. PICK from \in Bijection(Index, Index) :
             \A k \in Index : sorts[k].morton = Morton(bodies[from[k]], bodies)
      BY <1>1 DEF Inv, Rearranged
    <2> DEFINE new == [from EXCEPT ![i] = from[l], ![l] = from[i]]
    <2>2. new \in Bijection(Index, Index)
      BY <1>2, SwapBijection
    <2>3. from \in [Index -> Index]
      BY DEF Bijection, Injection
    <2>4. new[i] = from[l] /\ new[l] = from[i] /\ \A k \in Index \ {i, l} : new[k] = from[k]
      BY <1>2, <1>7, <2>3
    <2> HIDE DEF new
    <2>5. ASSUME NEW k \in Index PROVE sorts'[k].morton = Morton(bodies[new[k]], bodies)
      <3>1. CASE k = i
        BY <1>2, <1>8, <2>1, <2>4, <3>1
      <3>2. CASE k = l
        BY <1>2, <1>8, <2>1, <2>4, <3>2
      <3>3. CASE k \notin {i, l}
        BY <1>8, <2>1, <2>4, <3>3
      <3>4. QED
        BY <3>1, <3>2, <3>3
    <2>6. \A k \in Index : sorts'[k].bod = bodies[k]
      BY <1>1, <1>8 DEF Inv, Rearranged
    <2>7. bodies' = bodies
      BY <1>1
    <2>8. QED
      BY <1>9, <2>2, <2>5, <2>6, <2>7 DEF Rearranged
  <1>12. Apart'
    BY <1>1, <1>6, <1>9 DEF Inv, Apart, Sorting
  <1>13. Ascending'
    <2>1. ASSUME NEW a \in Index, NEW b \in Index, a < b,
                 ~Within(range, a, b), \A k \in DOMAIN calls : ~Within(calls[k], a, b)
          PROVE  sorts'[a].morton <= sorts'[b].morton
      <3>1. \A c, d \in Index : c < d /\ Settled(c, d) => sorts[c].morton <= sorts[d].morton
        BY <1>1 DEF Inv, Ascending
      <3>2. /\ range.start <= i /\ l <= range.end /\ a \in Int /\ b \in Int
            /\ ~(range.start <= a /\ b <= range.end)
        BY <1>2, <1>3, <1>4, <1>5, <1>7, <2>1 DEF Within
      <3>3. ASSUME NEW k \in DOMAIN calls
            PROVE  range.end < calls[k].start /\ calls[k].start \in Int
        <4>1. calls \in Seq(Calls)
          BY <1>3 DEF Shape
        <4>2. calls[k] \in Calls
          BY <4>1
        <4>3. QED
          BY <1>1, <4>2 DEF Inv, Apart, Calls
      <3>4. Settled(a, b)
        BY <2>1 DEF Settled
      <3>5. CASE a \in {i, l}
        <4>1. b > range.end
          BY <1>4, <1>7, <2>1, <3>2, <3>5
        <4>2. b \notin {i, l}
          BY <1>4, <1>7, <2>1, <3>2, <4>1
        <4>3. ASSUME NEW c \in {i, l} PROVE c < b /\ Settled(c, b)
          <5>1. c < b /\ ~Within(range, c, b)
            BY <1>4, <1>7, <3>2, <4>1, <4>3 DEF Within
          <5>2. ASSUME NEW k \in DOMAIN calls PROVE ~Within(calls[k], c, b)
            BY <1>4, <1>7, <3>2, <3>3, <4>3, <5>2 DEF Within
          <5>3. QED
            BY <5>1, <5>2 DEF Settled
        <4>4. sorts[i].morton <= sorts[b].morton /\ sorts[l].morton <= sorts[b].morton
          BY <1>2, <3>1, <4>3
        <4>5. QED
          BY <1>8, <3>5, <4>2, <4>4
      <3>6. CASE b \in {i, l}
        <4>1. a < range.start
          BY <1>4, <1>7, <2>1, <3>2, <3>6
        <4>2. a \notin {i, l}
          BY <1>4, <1>7, <2>1, <3>2, <4>1
        <4>3. ASSUME NEW c \in {i, l} PROVE a < c /\ Settled(a, c)
          <5>1. a < c /\ ~Within(range, a, c)
            BY <1>4, <1>7, <3>2, <4>1, <4>3 DEF Within
          <5>2. ASSUME NEW k \in DOMAIN calls PROVE ~Within(calls[k], a, c)
            BY <1>4, <1>7, <3>2, <3>3, <4>1, <5>2 DEF Within
          <5>3. QED
            BY <5>1, <5>2 DEF Settled
        <4>4. sorts[a].morton <= sorts[i].morton /\ sorts[a].morton <= sorts[l].morton
          BY <1>2, <3>1, <4>3
        <4>5. QED
          BY <1>8, <3>6, <4>2, <4>4
      <3>7. CASE a \notin {i, l} /\ b \notin {i, l}
        BY <1>8, <2>1, <3>1, <3>4, <3>7
      <3>8. QED
        BY <3>5, <3>6, <3>7
    <2>2. \A a, b \in Index : Within(range', a, b) <=> Within(range, a, b)
      BY <1>6 DEF Within
    <2>3. calls' = calls
      BY <1>1
    <2>4. ASSUME NEW a \in Index', NEW b \in Index', a < b, Settled(a, b)'
          PROVE  sorts'[a].morton <= sorts'[b].morton
      <3>1. ~Within(range', a, b) /\ \A k \in DOMAIN calls : ~Within(calls[k], a, b)
        BY <2>3, <2>4 DEF Settled, Within
      <3>2. QED
        BY <1>9, <2>1, <2>2, <2>4, <3>1
    <2>5. QED
      BY <2>4 DEF Ascending
  <1>14. Scanned'
    <2>1. ASSUME NEW k \in range.start..(i - 1) PROVE sorts'[k].morton < range.pivot
      <3>1. /\ i \in 0..(Count - 1) /\ l \in 0..(Count - 1) /\ i < l
            /\ range.start \in 0..(Count - 1) /\ range.end \in 0..(Count - 1)
        BY <1>2, <1>3, <1>5
      <3>2. k \in 0..(Count - 1) /\ k \notin {i, l}
        BY <1>3, <3>1
      <3>3. k \in Index
        BY <1>3, <3>2
      <3>4. QED
        BY <1>2, <1>8, <3>2, <3>3
    <2>2. ASSUME NEW k \in (l + 1)..range.end PROVE sorts'[k].morton >= range.pivot
      <3>1. /\ i \in 0..(Count - 1) /\ l \in 0..(Count - 1) /\ i < l
            /\ range.start \in 0..(Count - 1) /\ range.end \in 0..(Count - 1)
        BY <1>2, <1>3, <1>5
      <3>2. k \in 0..(Count - 1) /\ k \notin {i, l}
        BY <1>3, <3>1
      <3>3. k \in Index
        BY <1>3, <3>2
      <3>4. QED
        BY <1>2, <1>8, <3>2, <3>3
    <2>3. l \in i..range.end /\ sorts'[l].morton >= range.pivot
      BY <1>2, <1>4, <1>5, <1>7, <1>8
    <2>4. range.start <= i /\ l <= range.end
      BY <1>2, <1>4, <1>5, <1>7
    <2>5. QED
      BY <1>6, <2>1, <2>2, <2>3, <2>4 DEF Scanned
  <1>15. QED
    BY <1>1, <1>10, <1>11, <1>12, <1>13, <1>14 DEF Inv, Coded, CodesAscend, Sorted

(* A pass that ends: what is left of the border is below the pivot, what is  *)
(* right of it is not, so that the two parts need no comparison any more.    *)
LEMMA PassEnds ==
    ASSUME Inv, PartitionPass, NEW i, NEW l, i = Min(Above), l = Max(Below), i >= l
    PROVE  Inv'
  <1> DEFINE right == [start |-> l + 1, end |-> range.end]
             left  == [start |-> range.start, end |-> l]
             n     == Len(calls)
  <1>1. /\ Sorting /\ stage = "sort" /\ range # NoRange /\ Below # {}
        /\ UNCHANGED <<bodies, sorts, stage>>
        /\ calls' = calls \o <<right, left>> /\ range' = NoRange
    BY DEF PartitionPass, Sorting
  <1>2. /\ i \in Index /\ range.i <= i /\ i <= range.end /\ sorts[i].morton >= range.pivot
        /\ l \in Index /\ l <= range.l /\ sorts[l].morton < range.pivot
        /\ \A k \in range.start..(i - 1) : sorts[k].morton < range.pivot
        /\ \A k \in (l + 1)..range.end : k \in Index => sorts[k].morton >= range.pivot
    BY <1>1, ScansStop
  <1>3. /\ Shape /\ range \in Ranges /\ Count \in Nat \ {0} /\ Index = 0..(Count - 1)
        /\ sorts \in [Index -> Sortbods] /\ calls \in Seq(Calls)
    BY IndexFacts DEF Inv, Shape
  <1>4. /\ range.start \in Int /\ range.end \in Int /\ range.i \in Int /\ range.l \in Int
        /\ range.pivot \in Int /\ \A k \in Index : sorts[k].morton \in Int
    BY <1>3 DEF Ranges, Sortbods
  <1>5. /\ range.start \in Index /\ range.end \in Index
        /\ range.start <= range.i /\ range.l <= range.end
    BY <1>1 DEF Inv, Apart, Scanned
  <1>6. i \in Int /\ l \in Int /\ l < i /\ l <= range.end
    <2>1. i \in Int /\ l \in Int
      BY <1>2, <1>3
    <2>2. i # l
      <3>1. sorts[i].morton \in Int /\ sorts[l].morton \in Int
        BY <1>2, <1>4
      <3>2. QED
        BY <1>2, <1>4, <3>1
    <2>3. QED
      BY <1>2, <1>4, <1>5, <2>1, <2>2
  <1>7. right \in Calls /\ left \in Calls
    BY <1>4, <1>6 DEF Calls
  <1>8. /\ right.start = l + 1 /\ right.end = range.end
        /\ left.start = range.start /\ left.end = l
    OBVIOUS
  <1> HIDE DEF right, left
  <1>9. /\ n \in Nat /\ DOMAIN calls = 1..n /\ calls' \in Seq(Calls) /\ DOMAIN calls' = 1..(n + 2)
        /\ calls'[n + 1] = right /\ calls'[n + 2] = left
        /\ \A k \in 1..n : calls'[k] = calls[k]
    BY <1>1, <1>3, <1>7
  <1> HIDE DEF n
  <1>10. \A k \in 1..n : calls[k] \in Calls /\ calls[k].start \in Int /\ calls[k].end \in Int
    <2>1. \A k \in 1..n : calls[k] \in Calls
      BY <1>3, <1>9
    <2>2. QED
      BY <2>1 DEF Calls
  <1>11. Index' = Index /\ Count' = Count
    BY <1>1 DEF Index, Count
  <1>12. Shape'
    <2>1. NoRange \in Ranges
      BY DEF NoRange, Ranges
    <2>2. QED
      BY <1>1, <1>3, <1>9, <1>11, <2>1 DEF Shape
  <1>13. Rearranged'
    BY <1>1, <1>11 DEF Inv, Rearranged
  <1>14. \A k \in 1..n : /\ calls[k].start >= 0 /\ calls[k].end \in -1..(Count - 1)
                         /\ range.end < calls[k].start
    BY <1>1, <1>9 DEF Inv, Apart
  <1>15. \A k, m \in 1..n : k < m => calls[m].end < calls[k].start
    BY <1>1, <1>9 DEF Inv, Apart
  <1>16. Apart'
    <2>1. NoRange.end = -1
      BY DEF NoRange
    <2>2. ASSUME NEW k \in 1..(n + 2)
          PROVE  calls'[k].start >= 0 /\ calls'[k].end \in -1..(Count - 1) /\ -1 < calls'[k].start
      <3>1. CASE k \in 1..n
        BY <1>9, <1>10, <1>14, <3>1
      <3>2. CASE k = n + 1
        <4>1. l + 1 >= 0 /\ range.end \in -1..(Count - 1)
          BY <1>2, <1>3, <1>5
        <4>2. QED
          BY <1>6, <1>8, <1>9, <3>2, <4>1
      <3>3. CASE k = n + 2
        <4>1. range.start >= 0 /\ l \in -1..(Count - 1)
          BY <1>2, <1>3, <1>5
        <4>2. calls'[k].start = range.start /\ calls'[k].end = l
          BY <1>8, <1>9, <3>3
        <4>3. QED
          BY <1>4, <4>1, <4>2
      <3>4. QED
        BY <1>9, <2>2, <3>1, <3>2, <3>3
    <2>3. ASSUME NEW k \in 1..(n + 2), NEW m \in 1..(n + 2), k < m
          PROVE  calls'[m].end < calls'[k].start
      <3>1. CASE m \in 1..n
        BY <1>9, <1>15, <2>3, <3>1
      <3>2. CASE m = n + 1
        <4>1. k \in 1..n
          BY <1>9, <2>3, <3>2
        <4>2. QED
          BY <1>8, <1>9, <1>14, <3>2, <4>1
      <3>3. CASE m = n + 2
        <4>1. calls'[m].end = l
          BY <1>8, <1>9, <3>3
        <4>2. CASE k \in 1..n
          <5>1. calls'[k].start \in Int /\ range.end < calls'[k].start
            BY <1>9, <1>10, <1>14, <4>2
          <5>2. QED
            BY <1>4, <1>6, <4>1, <5>1
        <4>3. CASE k = n + 1
          BY <1>6, <1>8, <1>9, <4>1, <4>3
        <4>4. QED
          BY <1>9, <2>3, <3>3, <4>2, <4>3
      <3>4. QED
        BY <1>9, <2>3, <3>1, <3>2, <3>3
    <2>4. QED
      BY <1>1, <1>9, <1>11, <2>1, <2>2, <2>3 DEF Apart
  <1>17. Ascending'
    <2>1. ASSUME NEW a \in Index, NEW b \in Index, a < b,
                 \A k \in 1..(n + 2) : ~Within(calls'[k], a, b)
          PROVE  sorts[a].morton <= sorts[b].morton
      <3>1. a \in Int /\ b \in Int /\ sorts[a].morton \in Int /\ sorts[b].morton \in Int
        BY <1>3, <1>4
      <3>2. ~Within(right, a, b) /\ ~Within(left, a, b)
        <4>1. n + 1 \in 1..(n + 2) /\ n + 2 \in 1..(n + 2)
          BY <1>9
        <4>2. QED
          BY <1>9, <2>1, <4>1
      <3>3. CASE Within(range, a, b)
        <4>1. range.start <= a /\ b <= range.end
          BY <3>3 DEF Within
        <4>2. a <= l
          BY <1>6, <1>8, <3>1, <3>2, <4>1 DEF Within
        <4>3. b > l
          BY <1>6, <1>8, <3>1, <3>2, <4>1 DEF Within
        <4>4. sorts[a].morton < range.pivot
          <5>1. a \in range.start..(i - 1)
            BY <1>4, <1>6, <3>1, <4>1, <4>2
          <5>2. QED
            BY <1>2, <5>1
        <4>5. sorts[b].morton >= range.pivot
          <5>1. b \in (l + 1)..range.end
            BY <1>4, <1>6, <3>1, <4>1, <4>3
          <5>2. QED
            BY <1>2, <5>1
        <4>6. QED
          BY <1>4, <3>1, <4>4, <4>5
      <3>4. CASE ~Within(range, a, b)
        <4>1. ASSUME NEW k \in DOMAIN calls PROVE ~Within(calls[k], a, b)
          <5>1. k \in 1..n /\ k \in 1..(n + 2)
            BY <1>9
          <5>2. QED
            BY <1>9, <2>1, <5>1
        <4>2. Settled(a, b)
          BY <3>4, <4>1 DEF Settled
        <4>3. QED
          BY <1>1, <2>1, <4>2 DEF Inv, Ascending
      <3>5. QED
        BY <3>3, <3>4
    <2>2. ASSUME NEW a \in Index', NEW b \in Index', a < b, Settled(a, b)'
          PROVE  sorts'[a].morton <= sorts'[b].morton
      <3>1. \A k \in 1..(n + 2) : ~Within(calls'[k], a, b)
        BY <1>9, <2>2 DEF Settled, Within
      <3>2. sorts' = sorts
        BY <1>1
      <3>3. QED
        BY <1>11, <2>1, <2>2, <3>1, <3>2
    <2>3. QED
      BY <2>2 DEF Ascending
  <1>18. QED
    BY <1>1, <1>12, <1>13, <1>16, <1>17 DEF Inv, Coded, Scanned, CodesAscend, Sorted

LEMMA PartitionPassInv == ASSUME Inv, PartitionPass PROVE Inv'
  <1> DEFINE i == Min(Above)
             l == Max(Below)
  <1>1. i \in Int /\ l \in Int
    <2>1. i \in Index /\ l \in Index
      BY ScansStop DEF PartitionPass, Sorting
    <2>2. Index \subseteq Int
      BY IndexFacts DEF Inv
    <2> HIDE DEF i, l
    <2>3. QED
      BY <2>1, <2>2
  <1>2. i < l => Inv'
    BY PassSwaps
  <1>3. i >= l => Inv'
    BY PassEnds
  <1> HIDE DEF i, l
  <1>4. QED
    BY <1>1, <1>2, <1>3

LEMMA BsortCallInv == ASSUME Inv, BsortCall PROVE Inv'
  <1> DEFINE n == Len(calls)
             call == calls[n]
  <1>1. /\ Sorting /\ stage = "sort" /\ range = NoRange /\ calls # <<>>
        /\ UNCHANGED <<bodies, sorts, stage>>
        /\ calls' = SubSeq(calls, 1, n - 1)
        /\ range' = IF call.start >= call.end THEN NoRange ELSE Opened(call.start, call.end)
    BY DEF BsortCall, Sorting, Front, Last
  <1>2. /\ Shape /\ Count \in Nat \ {0} /\ Index = 0..(Count - 1)
        /\ sorts \in [Index -> Sortbods] /\ calls \in Seq(Calls)
    BY IndexFacts DEF Inv, Shape
  <1>3. /\ n \in Nat \ {0} /\ DOMAIN calls = 1..n
        /\ calls' \in Seq(Calls) /\ DOMAIN calls' = 1..(n - 1)
        /\ \A k \in 1..(n - 1) : calls'[k] = calls[k]
    <2>1. n \in Nat \ {0} /\ DOMAIN calls = 1..n
      BY <1>1, <1>2
    <2>2. QED
      BY <1>1, <1>2, <2>1
  <1> HIDE DEF n
  <1>4. \A k \in 1..n : calls[k].start \in Int /\ calls[k].end \in Int
    <2>1. \A k \in 1..n : calls[k] \in Calls
      BY <1>2, <1>3
    <2>2. QED
      BY <2>1 DEF Calls
  <1>5. \A k \in 1..n : calls[k].start >= 0 /\ calls[k].end \in -1..(Count - 1)
    BY <1>1, <1>3 DEF Inv, Apart
  <1>6. \A k, m \in 1..n : k < m => calls[m].end < calls[k].start
    BY <1>1, <1>3 DEF Inv, Apart
  <1>7. n \in 1..n /\ \A k \in 1..(n - 1) : k \in 1..n /\ k < n
    BY <1>3
  <1>8. Index' = Index /\ Count' = Count
    BY <1>1 DEF Index, Count
  <1>9. call.start \in Int /\ call.end \in Int /\ call.start >= 0 /\ call.end <= Count - 1
    BY <1>2, <1>4, <1>5, <1>7
  <1> HIDE DEF call
  <1>10. CASE call.start < call.end
    <2>1. call.start \in Index /\ call.end \in Index
      BY <1>2, <1>9, <1>10
    <2>2. range' = Opened(call.start, call.end)
      BY <1>1, <1>9, <1>10
    <2>3. /\ range' \in Ranges /\ range' # NoRange
          /\ range'.start = call.start /\ range'.end = call.end
          /\ range'.i = call.start /\ range'.l = call.end
          /\ \E mid \in call.start..call.end : range'.pivot = sorts[mid].morton
      <3>1. Shape /\ call.start <= call.end
        BY <1>2, <1>9, <1>10
      <3>2. QED
        BY <2>1, <2>2, <3>1, OpenedFacts
    <2>4. Shape'
      BY <1>1, <1>2, <1>3, <1>8, <2>3 DEF Shape
    <2>5. Rearranged'
      BY <1>1, <1>8 DEF Inv, Rearranged
    <2>6. Apart'
      <3>1. \A k \in 1..(n - 1) : call.end < calls[k].start
        BY <1>6, <1>7 DEF call
      <3>2. call.start <= call.end
        BY <1>9, <1>10
      <3>3. QED
        BY <1>3, <1>5, <1>6, <1>7, <1>8, <2>1, <2>3, <3>1, <3>2 DEF Apart
    <2>7. Ascending'
      <3>1. ASSUME NEW a \in Index', NEW b \in Index', a < b, Settled(a, b)'
            PROVE  sorts'[a].morton <= sorts'[b].morton
        <4>1. a \in Index /\ b \in Index /\ a \in Int /\ b \in Int /\ b >= 0
          BY <1>2, <1>8
        <4>2. ~Within(range', a, b) /\ \A k \in 1..(n - 1) : ~Within(calls'[k], a, b)
          BY <1>3, <3>1 DEF Settled, Within
        <4>3. ~Within(call, a, b)
          BY <2>3, <4>2 DEF Within
        <4>4. ~Within(range, a, b)
          BY <1>1, <4>1 DEF Within, NoRange
        <4>5. ASSUME NEW k \in DOMAIN calls PROVE ~Within(calls[k], a, b)
          <5>1. CASE k = n
            BY <4>3, <5>1 DEF call
          <5>2. CASE k # n
            <6>1. k \in 1..(n - 1)
              BY <1>3, <5>2
            <6>2. QED
              BY <1>3, <4>2, <6>1
          <5>3. QED
            BY <5>1, <5>2
        <4>6. Settled(a, b)
          BY <4>4, <4>5 DEF Settled
        <4>7. sorts' = sorts
          BY <1>1
        <4>8. QED
          BY <1>1, <3>1, <4>1, <4>6, <4>7 DEF Inv, Ascending
      <3>2. QED
        BY <3>1 DEF Ascending
    <2>8. Scanned'
      <3>1. \A mid \in call.start..call.end : sorts[mid].morton \in Int
        <4>1. \A mid \in call.start..call.end : mid \in Index
          BY <1>2, <1>9
        <4>2. QED
          BY <1>2, <4>1 DEF Sortbods
      <3>2. \E mid \in call.start..call.end : sorts[mid].morton >= range'.pivot
        BY <2>3, <3>1
      <3>3. call.start..(call.start - 1) = {} /\ (call.end + 1)..call.end = {}
        BY <1>9
      <3>4. call.start <= call.start /\ call.end <= call.end
        BY <1>9
      <3>5. QED
        BY <1>1, <2>3, <3>2, <3>3, <3>4 DEF Scanned
    <2>9. QED
      BY <1>1, <2>4, <2>5, <2>6, <2>7, <2>8 DEF Inv, Coded, CodesAscend, Sorted
  <1>11. CASE call.start >= call.end
    <2>1. range' = NoRange /\ range = NoRange
      BY <1>1, <1>11
    <2>2. Shape'
      BY <1>1, <1>2, <1>3, <1>8, <2>1 DEF Shape
    <2>3. Rearranged'
      BY <1>1, <1>8 DEF Inv, Rearranged
    <2>4. Apart'
      <3>1. \A k \in 1..(n - 1) : NoRange.end < calls[k].start
        BY <1>1, <1>3, <1>7, <2>1 DEF Inv, Apart
      <3>2. \A k \in DOMAIN calls' : /\ calls'[k].start >= 0 /\ calls'[k].end \in -1..(Count - 1)
                                     /\ range'.end < calls'[k].start
        BY <1>3, <1>5, <1>7, <2>1, <3>1
      <3>3. \A k, m \in DOMAIN calls' : k < m => calls'[m].end < calls'[k].start
        BY <1>3, <1>6, <1>7
      <3>4. QED
        BY <1>8, <2>1, <3>2, <3>3 DEF Apart
    <2>5. Ascending'
      <3>1. ASSUME NEW a \in Index', NEW b \in Index', a < b, Settled(a, b)'
            PROVE  sorts'[a].morton <= sorts'[b].morton
        <4>1. a \in Index /\ b \in Index /\ a \in Int /\ b \in Int /\ b >= 0
          BY <1>2, <1>8
        <4>2. \A k \in 1..(n - 1) : ~Within(calls'[k], a, b)
          BY <1>3, <3>1 DEF Settled, Within
        <4>3. ~Within(call, a, b)
          BY <1>9, <1>11, <3>1, <4>1 DEF Within
        <4>4. ~Within(range, a, b)
          BY <1>1, <4>1 DEF Within, NoRange
        <4>5. ASSUME NEW k \in DOMAIN calls PROVE ~Within(calls[k], a, b)
          <5>1. CASE k = n
            BY <4>3, <5>1 DEF call
          <5>2. CASE k # n
            <6>1. k \in 1..(n - 1)
              BY <1>3, <5>2
            <6>2. QED
              BY <1>3, <4>2, <6>1
          <5>3. QED
            BY <5>1, <5>2
        <4>6. Settled(a, b)
          BY <4>4, <4>5 DEF Settled
        <4>7. sorts' = sorts
          BY <1>1
        <4>8. QED
          BY <1>1, <3>1, <4>1, <4>6, <4>7 DEF Inv, Ascending
      <3>2. QED
        BY <3>1 DEF Ascending
    <2>6. QED
      BY <1>1, <2>1, <2>2, <2>3, <2>4, <2>5 DEF Inv, Coded, Scanned, CodesAscend, Sorted
  <1>12. QED
    BY <1>9, <1>10, <1>11

LEMMA MakeRootInv == ASSUME Inv, MakeRoot PROVE Inv'
  <1>1. /\ Sorting /\ stage = "sort" /\ stage' = "split" /\ range = NoRange /\ calls = <<>>
        /\ UNCHANGED <<sorts, range, calls>>
        /\ bodies' = [k \in Index |-> sorts[k].bod]
    BY DEF MakeRoot, Sorting
  <1>2. /\ Shape /\ Count \in Nat \ {0} /\ Index = 0..(Count - 1) /\ bodies \in [Index -> Points]
    BY IndexFacts DEF Inv
  <1>3. bodies' = bodies
    <2>1. \A k \in Index : sorts[k].bod = bodies[k]
      BY <1>1 DEF Inv, Rearranged
    <2>2. bodies = [k \in Index |-> bodies[k]]
      BY <1>2
    <2>3. QED
      BY <1>1, <2>1, <2>2
  <1>4. Index' = Index /\ Count' = Count
    BY <1>3 DEF Index, Count
  <1>5. Shape'
    BY <1>1, <1>2, <1>3, <1>4 DEF Shape, Stages
  <1>6. Rearranged'
    BY <1>1, <1>3, <1>4 DEF Inv, Rearranged
  <1>7. CodesAscend'
    <2>1. ASSUME NEW k \in 1..(Count - 1) PROVE sorts[k - 1].morton <= sorts[k].morton
      <3>1. k - 1 \in Index /\ k \in Index /\ k - 1 < k /\ k \in Int /\ k >= 0
        BY <1>2
      <3>2. Settled(k - 1, k)
        <4>1. ~Within(range, k - 1, k)
          BY <1>1, <3>1 DEF Within, NoRange
        <4>2. DOMAIN calls = {}
          BY <1>1
        <4>3. QED
          BY <4>1, <4>2 DEF Settled
      <3>3. QED
        BY <1>1, <3>1, <3>2 DEF Inv, Ascending
    <2>2. QED
      BY <1>1, <1>4, <2>1 DEF CodesAscend
  <1>8. QED
    BY <1>1, <1>5, <1>6, <1>7 DEF Inv, Coded, Apart, Ascending, Scanned, Sorting
-------------------------------------------------------------------------------
LEMMA NextInv == Inv /\ [Next]_vars => Inv'
  <1> SUFFICES ASSUME Inv, [Next]_vars PROVE Inv'
    OBVIOUS
  <1>1. CASE MortJoined
    BY <1>1, MortJoinedInv
  <1>2. CASE PartitionPass
    BY <1>2, PartitionPassInv
  <1>3. CASE PartitionOverrun
    BY <1>3, Still DEF PartitionOverrun
  <1>4. CASE BsortCall
    BY <1>4, BsortCallInv
  <1>5. CASE MakeRoot
    BY <1>5, MakeRootInv
  <1>6. CASE SplitJoined
    BY <1>6, Still DEF SplitJoined, Sorted
  <1>7. CASE AssembleJoined
    BY <1>7, Still DEF AssembleJoined, Sorted
  <1>8. ASSUME NEW t \in Threads, MortThread(t) PROVE Inv'
    BY <1>8, MortThreadInv
  <1>9. ASSUME NEW t \in Threads, AssembleThread(t) PROVE Inv'
    BY <1>9, Still DEF AssembleThread, Sorted
  <1>10. ASSUME NEW t \in Threads, AssembleOverrun(t) PROVE Inv'
    BY <1>10, Still DEF AssembleOverrun
  <1>11. ASSUME NEW o \in Octants, SplitThread(o) PROVE Inv'
    BY <1>11, Still DEF SplitThread, Sorted
  <1>12. CASE UNCHANGED vars
    BY <1>12, Still DEF vars
  <1>13. QED
    BY <1>1, <1>2, <1>3, <1>4, <1>5, <1>6, <1>7, <1>8, <1>9, <1>10, <1>11, <1>12 DEF Next

(* The order that the codes are in is a bijection between the places of a    *)
(* code in the array and the bodies that have it.                            *)
LEMMA InvCodesKept == Inv => CodesKept
  <1> SUFFICES ASSUME Inv, stage # "codes", NEW c
               PROVE  Cardinality({k \in Index : sorts[k].morton = c})
                      = Cardinality({k \in Index : Morton(bodies[k], bodies) = c})
    BY DEF CodesKept
  <1>1. PICK from \in Bijection(Index, Index) :
           \A k \in Index : sorts[k].morton = Morton(bodies[from[k]], bodies)
    BY DEF Inv, Rearranged
  <1> DEFINE A == {k \in Index : sorts[k].morton = c}
             B == {k \in Index : Morton(bodies[k], bodies) = c}
             h == [k \in A |-> from[k]]
  <1>2. /\ from \in [Index -> Index]
        /\ \A a, b \in Index : from[a] = from[b] => a = b
        /\ \A t \in Index : \E s \in Index : from[s] = t
    BY DEF Bijection, Injection, Surjection, IsInjective
  <1>3. IsFiniteSet(A)
    BY IndexFacts, FS_Subset DEF Inv
  <1>4. \A k \in Index : (k \in A) <=> (from[k] \in B)
    <2>1. ASSUME NEW k \in Index PROVE (k \in A) <=> (from[k] \in B)
      <3>1. sorts[k].morton = Morton(bodies[from[k]], bodies) /\ from[k] \in Index
        BY <1>1, <1>2
      <3>2. QED
        BY <3>1
    <2>2. QED
      BY <2>1
  <1>5. A \subseteq Index /\ B \subseteq Index
    OBVIOUS
  <1> HIDE DEF A, B
  <1>6. h \in Bijection(A, B)
    <2>1. h \in [A -> B] /\ \A k \in A : h[k] = from[k]
      BY <1>2, <1>4, <1>5
    <2> HIDE DEF h
    <2>2. \A a, b \in A : h[a] = h[b] => a = b
      BY <1>2, <1>5, <2>1
    <2>3. ASSUME NEW t \in B PROVE \E s \in A : h[s] = t
      <3>1. PICK s \in Index : from[s] = t
        BY <1>2, <1>5
      <3>2. s \in A /\ h[s] = t
        BY <1>4, <2>1, <3>1
      <3>3. QED
        BY <3>2
    <2>4. QED
      BY <2>1, <2>2, <2>3 DEF Bijection, Injection, Surjection, IsInjective
  <1> HIDE DEF h
  <1>7. Cardinality(B) = Cardinality(A)
    BY <1>3, <1>6, FS_Bijection DEF ExistsBijection
  <1>8. QED
    BY <1>7 DEF A, B

(* The inductive invariant: the dataset is in the array, coded, and the      *)
(* ranges of bsort and the two scans of a pass say what is in order.         *)
THEOREM InvHolds == Spec => []Inv
  <1>1. Init => Inv
    BY InitInv
  <1>2. Inv /\ [Next]_vars => Inv'
    BY NextInv
  <1>3. QED
    BY <1>1, <1>2, PTL DEF Spec

(* However many threads code the bodies, and however the pivots fall, the    *)
(* codes in the array are those of the dataset, each as often as there       *)
(* (mort_thread, msort_swap).                                                *)
THEOREM SortKeepsCodes == Spec => []CodesKept
  <1>1. Inv => CodesKept
    BY InvCodesKept
  <1>2. QED
    BY <1>1, InvHolds, PTL

(* A sort that has come to an end leaves the codes in ascending order, also  *)
(* where l has run out of the range to its left (bsort).                     *)
THEOREM SortAscends == Spec => []CodesAscend
  <1>1. Inv => CodesAscend
    BY DEF Inv
  <1>2. QED
    BY <1>1, InvHolds, PTL
-------------------------------------------------------------------------------
(* binary_border_search.                                                     *)

HalfOf(step) == IF step \div 2 = 0 THEN 1 ELSE step \div 2
States == [i: Int, step: Nat]
IsSearch(f, H, from, count) ==
    f = [s \in States |->
            IF s.i >= count - 1 THEN count - from
            ELSE IF s.i \in H /\ s.i + 1 \notin H THEN s.i - from + 1
            ELSE f[[i |-> IF s.i \in H THEN s.i + s.step ELSE s.i - s.step,
                    step |-> HalfOf(s.step)]]]

(* The search is a loop, so that its definition defines a function.          *)
LEMMA SearchExists ==
    ASSUME NEW H, NEW from \in Nat, NEW count \in Nat
    PROVE  \E f : IsSearch(f, H, from, count)
  <1> DEFINE End == {s \in States : s.i >= count - 1}
             Found == {s \in States : s.i \in H /\ s.i + 1 \notin H}
             v == [s \in States |-> IF s \in End THEN count - from ELSE s.i - from + 1]
             next == [s \in States |-> [i |-> IF s.i \in H THEN s.i + s.step ELSE s.i - s.step,
                                        step |-> HalfOf(s.step)]]
  <1>1. v \in [States -> Int]
    BY DEF States
  <1>2. next \in [States -> States]
    BY DEF States, HalfOf
  <1>3. PICK f : Loops(f, States, End \cup Found, v, next)
    <2>1. End \cup Found \in SUBSET States
      OBVIOUS
    <2> HIDE DEF End, Found, v, next
    <2> QED
      BY <1>1, <1>2, <2>1, TailRecursion, Zenon
  <1>4. ASSUME NEW s \in States
        PROVE  (IF s \in End \cup Found THEN v[s] ELSE f[next[s]])
               = (IF s.i >= count - 1 THEN count - from
                  ELSE IF s.i \in H /\ s.i + 1 \notin H THEN s.i - from + 1
                  ELSE f[[i |-> IF s.i \in H THEN s.i + s.step ELSE s.i - s.step,
                          step |-> HalfOf(s.step)]])
    BY Zenon
  <1> HIDE DEF End, Found, v, next
  <1>5. IsSearch(f, H, from, count)
    BY <1>3, <1>4, Zenon DEF IsSearch, Loops
  <1> QED
    BY <1>5

(* The search finds the border of an octant that begins at from: its steps   *)
(* forward never pass the end, those back never pass from, and single steps  *)
(* do not pass the border.                                                   *)
LEMMA SearchFinds ==
    ASSUME NEW H, NEW count \in Nat, NEW from \in 0..(count - 1), NEW B \in (from + 1)..count,
           \A k \in from..(count - 1) : k \in H <=> k < B,
           NEW f, IsSearch(f, H, from, count)
    PROVE  f[[i |-> from, step |-> (count - from) \div 2]] = B - from
  <1> DEFINE Val(k, s) == f[[i |-> k, step |-> s]]
             Safe(k, s) == /\ k \in from..(count - 1) /\ s \in Nat
                           /\ s = 0 => k = count - 1
                           /\ s > 1 => k + 2 * s <= count
                           /\ k >= B => k < count - 1 /\ (s > 1 => k >= from + 2 * s)
             Right(k, s) == Val(k, s) = B - from
             Goes(k, s, j, r) == /\ Safe(j, r) /\ Val(k, s) = Val(j, r)
                                 /\ s = 1 => \/ k < B /\ j = k + 1 /\ j < B
                                             \/ k >= B /\ j = k - 1
  <1>1. ASSUME NEW k \in Int, NEW s \in Nat
        PROVE  /\ k >= count - 1 => Val(k, s) = count - from
               /\ k < count - 1 /\ k \in H /\ k + 1 \notin H => Val(k, s) = k - from + 1
               /\ k < count - 1 /\ k \in H /\ k + 1 \in H => Val(k, s) = Val(k + s, HalfOf(s))
               /\ k < count - 1 /\ k \notin H => Val(k, s) = Val(k - s, HalfOf(s))
    <2> DEFINE a == [i |-> k, step |-> s]
    <2>1. a \in States /\ a.i = k /\ a.step = s
      BY DEF States
    <2>2. f[a] = IF a.i >= count - 1 THEN count - from
                 ELSE IF a.i \in H /\ a.i + 1 \notin H THEN a.i - from + 1
                 ELSE f[[i |-> IF a.i \in H THEN a.i + a.step ELSE a.i - a.step,
                         step |-> HalfOf(a.step)]]
      <3> HIDE DEF a
      <3> QED
        BY <2>1 DEF IsSearch
    <2>3. f[a] = IF k >= count - 1 THEN count - from
                 ELSE IF k \in H /\ k + 1 \notin H THEN k - from + 1
                 ELSE f[[i |-> IF k \in H THEN k + s ELSE k - s, step |-> HalfOf(s)]]
      <3> HIDE DEF a
      <3> QED
        BY <2>1, <2>2, Zenon
    <2>4. (k < count - 1) <=> ~(k >= count - 1)
      OBVIOUS
    <2> QED
      BY <2>3, <2>4
  <1>2. ASSUME NEW k, NEW s, Safe(k, s)
        PROVE  Right(k, s) \/ (s >= 1 /\ \E j : Goes(k, s, j, HalfOf(s)))
    <2>0. k \in Int /\ s \in Nat /\ count \in Nat /\ from \in Nat /\ B \in Nat
      BY <1>2
    <2>1. CASE k = count - 1
      <3>0. k >= count - 1
        BY <2>0, <2>1
      <3>1. Val(k, s) = count - from
        <4> HIDE DEF Val
        <4> QED
          BY <1>1, <2>0, <3>0, Zenon
      <3>2. B = count
        BY <1>2, <2>1
      <3> QED
        BY <3>1, <3>2
    <2>2. CASE k < count - 1 /\ k >= B
      <3>1. k \notin H
        BY <1>2, <2>2
      <3>2. Val(k, s) = Val(k - s, HalfOf(s))
        BY <1>1, <2>0, <2>2, <3>1
      <3>3. Safe(k - s, HalfOf(s))
        BY <1>2, <2>0, <2>2 DEF HalfOf
      <3>4. s >= 1
        BY <1>2, <2>2
      <3> HIDE DEF Safe, Val
      <3>5. Goes(k, s, k - s, HalfOf(s))
        BY <2>0, <2>2, <3>2, <3>3
      <3> QED
        BY <3>4, <3>5
    <2>3. CASE k < count - 1 /\ k < B /\ k + 1 >= B
      <3>1. k \in H /\ k + 1 \notin H
        BY <1>2, <2>0, <2>3
      <3>2. Val(k, s) = k - from + 1
        BY <1>1, <2>0, <2>3, <3>1
      <3> QED
        BY <2>0, <2>3, <3>2
    <2>4. CASE k < count - 1 /\ k + 1 < B
      <3>1. k \in H /\ k + 1 \in H
        BY <1>2, <2>0, <2>4
      <3>2. Val(k, s) = Val(k + s, HalfOf(s))
        BY <1>1, <2>0, <2>4, <3>1
      <3>3. Safe(k + s, HalfOf(s))
        BY <1>2, <2>0, <2>4 DEF HalfOf
      <3>4. s >= 1
        BY <1>2, <2>4
      <3> HIDE DEF Safe, Val
      <3>5. Goes(k, s, k + s, HalfOf(s))
        BY <2>0, <2>4, <3>2, <3>3
      <3> QED
        BY <3>4, <3>5
    <2>5. k <= count - 1
      BY <1>2
    <2>6. \/ k = count - 1
          \/ k < count - 1 /\ k >= B
          \/ k < count - 1 /\ k < B /\ k + 1 >= B
          \/ k < count - 1 /\ k + 1 < B
      <3> HIDE DEF Safe, Right, Goes
      <3>1. count - 1 \in Int /\ k + 1 \in Int
        BY <2>0
      <3>2. k = count - 1 \/ k < count - 1
        BY <2>0, <2>5, <3>1
      <3>3. k >= B \/ (k < B /\ k + 1 >= B) \/ k + 1 < B
        BY <2>0, <3>1
      <3> QED
        BY <3>2, <3>3, Zenon
    <2> HIDE DEF Safe, Right, Goes
    <2> QED
      BY <2>1, <2>2, <2>3, <2>4, <2>6
  <1> HIDE DEF Val
  <1>3. HalfOf(1) = 1
    BY DEF HalfOf
  <1>4. \A n \in Nat : \A k : Safe(k, 1) /\ k < B /\ B - 1 - k <= n => Right(k, 1)
    <2> DEFINE T == {n \in Nat : \A k : Safe(k, 1) /\ k < B /\ B - 1 - k <= n => Right(k, 1)}
    <2>1. ASSUME NEW n \in Nat, NEW k, Safe(k, 1), k < B, B - 1 - k <= n,
                 n = 0 \/ \A j : Safe(j, 1) /\ j < B /\ B - 1 - j <= n - 1 => Right(j, 1)
          PROVE  Right(k, 1)
      <3> SUFFICES ASSUME ~Right(k, 1) PROVE FALSE
        OBVIOUS
      <3>1. PICK j : Goes(k, 1, j, 1)
        BY <1>2, <1>3, <2>1
      <3>2. k \in Int /\ Safe(j, 1) /\ j = k + 1 /\ j < B /\ Val(k, 1) = Val(j, 1)
        BY <2>1, <3>1
      <3>3. n # 0 /\ B - 1 - j <= n - 1
        BY <2>1, <3>2
      <3> HIDE DEF Safe
      <3> QED
        BY <2>1, <3>2, <3>3
    <2>2. 0 \in T
      <3> HIDE DEF Safe, Right
      <3> QED
        BY <2>1
    <2>3. ASSUME NEW n \in Nat, n \in T PROVE n + 1 \in T
      <3>1. n + 1 \in Nat /\ (n + 1) - 1 = n
        OBVIOUS
      <3> HIDE DEF Safe, Right
      <3> QED
        BY <2>1, <2>3, <3>1
    <2> HIDE DEF T
    <2>4. \A n \in Nat : n \in T
      BY <2>2, <2>3, Induction
    <2> QED
      BY <2>4 DEF T
  <1>5. ASSUME NEW k, Safe(k, 1), k < B PROVE Right(k, 1)
    <2>1. B - 1 - k \in Nat /\ B - 1 - k <= B - 1 - k
      BY <1>5
    <2> HIDE DEF Safe, Right
    <2> QED
      BY <1>4, <1>5, <2>1
  <1>6. \A n \in Nat : \A k : Safe(k, 1) /\ k >= B /\ k - B <= n => Right(k, 1)
    <2> DEFINE T == {n \in Nat : \A k : Safe(k, 1) /\ k >= B /\ k - B <= n => Right(k, 1)}
    <2>1. ASSUME NEW n \in Nat, NEW k, Safe(k, 1), k >= B, k - B <= n,
                 n = 0 \/ \A j : Safe(j, 1) /\ j >= B /\ j - B <= n - 1 => Right(j, 1)
          PROVE  Right(k, 1)
      <3> SUFFICES ASSUME ~Right(k, 1) PROVE FALSE
        OBVIOUS
      <3>1. PICK j : Goes(k, 1, j, 1)
        BY <1>2, <1>3, <2>1
      <3>2. k \in Int /\ Safe(j, 1) /\ j = k - 1 /\ Val(k, 1) = Val(j, 1)
        BY <2>1, <3>1
      <3>3. j >= B => n # 0 /\ j - B <= n - 1
        BY <2>1, <3>2
      <3>4. j \in Int
        BY <3>2
      <3>5. Right(j, 1)
        <4>1. CASE j < B
          BY <1>5, <3>2, <4>1
        <4>2. CASE j >= B
          <5> HIDE DEF Safe, Right
          <5> QED
            BY <2>1, <3>2, <3>3, <4>2
        <4> QED
          BY <3>4, <4>1, <4>2
      <3> HIDE DEF Safe
      <3> QED
        BY <3>2, <3>5
    <2>2. 0 \in T
      <3> HIDE DEF Safe, Right
      <3> QED
        BY <2>1
    <2>3. ASSUME NEW n \in Nat, n \in T PROVE n + 1 \in T
      <3>1. n + 1 \in Nat /\ (n + 1) - 1 = n
        OBVIOUS
      <3> HIDE DEF Safe, Right
      <3> QED
        BY <2>1, <2>3, <3>1
    <2> HIDE DEF T
    <2>4. \A n \in Nat : n \in T
      BY <2>2, <2>3, Induction
    <2> QED
      BY <2>4 DEF T
  <1>7. ASSUME NEW k, Safe(k, 1) PROVE Right(k, 1)
    <2>1. k \in Int
      BY <1>7
    <2>2. CASE k < B
      BY <1>5, <1>7, <2>2
    <2>3. CASE k >= B
      <3>1. k - B \in Nat /\ k - B <= k - B
        BY <2>1, <2>3
      <3> HIDE DEF Safe, Right
      <3> QED
        BY <1>6, <1>7, <2>3, <3>1
    <2> QED
      BY <2>1, <2>2, <2>3
  <1> DEFINE T == {n \in Nat : \A k, s : Safe(k, s) /\ s <= n + 1 => Right(k, s)}
  <1>8. ASSUME NEW k, NEW s, Safe(k, s), s <= 1 PROVE Right(k, s)
    <2>1. s \in Nat
      BY <1>8
    <2>2. s = 1 \/ ~(s >= 1)
      BY <1>8, <2>1
    <2> HIDE DEF Safe, Right, Goes
    <2> QED
      BY <1>2, <1>7, <1>8, <2>2
  <1>9. 0 \in T
    <2> HIDE DEF Safe, Right
    <2> QED
      BY <1>8
  <1>10. ASSUME NEW n \in Nat, n \in T PROVE n + 1 \in T
    <2> SUFFICES ASSUME NEW k, NEW s, Safe(k, s), s <= (n + 1) + 1, ~Right(k, s) PROVE FALSE
      OBVIOUS
    <2>1. s >= 1 /\ \E j : Goes(k, s, j, HalfOf(s))
      <3> HIDE DEF Safe, Right, Goes
      <3> QED
        BY <1>2
    <2>2. PICK j : Goes(k, s, j, HalfOf(s))
      BY <2>1
    <2>3. s \in Nat
      OBVIOUS
    <2>4. HalfOf(s) <= n + 1
      BY <2>1, <2>3 DEF HalfOf
    <2>5. Safe(j, HalfOf(s)) /\ Val(k, s) = Val(j, HalfOf(s))
      BY <2>2
    <2>6. Right(j, HalfOf(s))
      <3> HIDE DEF Safe, Right
      <3> QED
        BY <1>10, <2>4, <2>5
    <2> QED
      BY <2>5, <2>6
  <1>11. \A n \in Nat : n \in T
    <2> HIDE DEF T
    <2> QED
      BY <1>9, <1>10, Induction
  <1> DEFINE h == (count - from) \div 2
  <1>12. Safe(from, h) /\ h \in Nat
    OBVIOUS
  <1>13. Right(from, h)
    <2> HIDE DEF Safe, Right, h
    <2>1. h \in T /\ h <= h + 1
      BY <1>11, <1>12
    <2> QED
      BY <1>12, <2>1
  <1> QED
    BY <1>13 DEF Val

(* The octant at this level of the k-th body of a node.                      *)
OctantAt(node, k) == Digit(sorts[node.first + k].morton, Len(node.at))

(* binary_border_search on codes in order: from the first body of an octant  *)
(* or of a later one on, it ends, and gives the number of bodies of the      *)
(* octant, though its steps, halved down to one, go forward and back.        *)
THEOREM BorderFinds ==
    ASSUME NEW node, node.count \in Nat, NEW from \in 0..node.count, NEW code,
           NEW B \in from..node.count,
           \A k \in from..(node.count - 1) : OctantAt(node, k) = code <=> k < B
    PROVE  Border(node, from, code) = B - from
  <1> DEFINE count == node.count
             Has(k) == OctantAt(node, k) = code
             H == {k \in Int : Has(k)}
             Is(f) == f = [s \in [i: Int, step: Nat] |->
                            IF s.i >= count - 1 THEN count - from
                            ELSE IF Has(s.i) /\ ~Has(s.i + 1) THEN s.i - from + 1
                            ELSE f[[i |-> IF Has(s.i) THEN s.i + s.step ELSE s.i - s.step,
                                    step |-> HalfOf(s.step)]]]
             search == CHOOSE f : Is(f)
  <1>1. Border(node, from, code) = IF from = count THEN 0
                                   ELSE IF ~Has(from) THEN 0
                                   ELSE search[[i |-> from, step |-> (count - from) \div 2]]
    BY Zenon DEF Border, OctantAt, HalfOf
  <1> HIDE DEF Has
  <1>2. CASE from = count \/ ~Has(from)
    <2>1. B = from
      <3> HIDE DEF search
      <3>1. CASE from = count
        BY <3>1
      <3>2. CASE from # count
        <4>1. from \in from..(count - 1)
          BY <3>2
        <4>2. ~(from < B)
          BY <1>2, <3>2, <4>1 DEF Has
        <4> QED
          BY <4>2
      <3> QED
        BY <3>1, <3>2
    <2>2. Border(node, from, code) = 0
      <3> HIDE DEF search, count
      <3> QED
        BY <1>1, <1>2, Zenon
    <2> QED
      BY <2>1, <2>2
  <1>3. CASE from # count /\ Has(from)
    <2>1. from \in 0..(count - 1) /\ from \in from..(count - 1)
      BY <1>3
    <2>2. from < B
      BY <1>3, <2>1 DEF Has
    <2>3. B \in (from + 1)..count
      BY <2>2
    <2>4. \A k \in from..(count - 1) : k \in H <=> k < B
      <3>1. \A k \in from..(count - 1) : k \in Int
        OBVIOUS
      <3>2. \A k \in from..(count - 1) : Has(k) <=> k < B
        BY DEF Has
      <3> QED
        BY <3>1, <3>2
    <2>5. ASSUME NEW f, IsSearch(f, H, from, count) PROVE Is(f)
      <3>1. ASSUME NEW s \in States
            PROVE  (IF s.i >= count - 1 THEN count - from
                    ELSE IF s.i \in H /\ s.i + 1 \notin H THEN s.i - from + 1
                    ELSE f[[i |-> IF s.i \in H THEN s.i + s.step ELSE s.i - s.step,
                            step |-> HalfOf(s.step)]])
                   = (IF s.i >= count - 1 THEN count - from
                      ELSE IF Has(s.i) /\ ~Has(s.i + 1) THEN s.i - from + 1
                      ELSE f[[i |-> IF Has(s.i) THEN s.i + s.step ELSE s.i - s.step,
                              step |-> HalfOf(s.step)]])
        <4>1. s.i \in Int /\ s.i + 1 \in Int
          BY DEF States
        <4>2. (s.i \in H <=> Has(s.i)) /\ (s.i + 1 \in H <=> Has(s.i + 1))
          BY <4>1
        <4> HIDE DEF H, count
        <4> QED
          BY <4>2
      <3> QED
        BY <2>5, <3>1, Zenon DEF IsSearch, States
    <2>6. ASSUME NEW f, Is(f) PROVE IsSearch(f, H, from, count)
      <3>1. ASSUME NEW s \in States
            PROVE  (IF s.i >= count - 1 THEN count - from
                    ELSE IF s.i \in H /\ s.i + 1 \notin H THEN s.i - from + 1
                    ELSE f[[i |-> IF s.i \in H THEN s.i + s.step ELSE s.i - s.step,
                            step |-> HalfOf(s.step)]])
                   = (IF s.i >= count - 1 THEN count - from
                      ELSE IF Has(s.i) /\ ~Has(s.i + 1) THEN s.i - from + 1
                      ELSE f[[i |-> IF Has(s.i) THEN s.i + s.step ELSE s.i - s.step,
                              step |-> HalfOf(s.step)]])
        <4>1. s.i \in Int /\ s.i + 1 \in Int
          BY DEF States
        <4>2. (s.i \in H <=> Has(s.i)) /\ (s.i + 1 \in H <=> Has(s.i + 1))
          BY <4>1
        <4> HIDE DEF H, count
        <4> QED
          BY <4>2
      <3> QED
        BY <2>6, <3>1, Zenon DEF IsSearch, States
    <2>7. \E f : IsSearch(f, H, from, count)
      <3>1. from \in Nat /\ count \in Nat
        OBVIOUS
      <3> HIDE DEF H
      <3> QED
        BY <3>1, SearchExists, Zenon
    <2> HIDE DEF H, Is
    <2>8. IsSearch(search, H, from, count)
      <3>1. \E f : Is(f)
        BY <2>5, <2>7
      <3>2. Is(search)
        BY <3>1, Zenon
      <3> HIDE DEF search
      <3> QED
        BY <2>6, <3>2
    <2> HIDE DEF search
    <2>9. search[[i |-> from, step |-> (count - from) \div 2]] = B - from
      <3>1. count \in Nat
        OBVIOUS
      <3> HIDE DEF count
      <3> QED
        BY <2>1, <2>3, <2>4, <2>8, <3>1, SearchFinds
    <2> HIDE DEF count
    <2> QED
      BY <1>1, <1>3, <2>9
  <1> HIDE DEF count, search
  <1> QED
    BY <1>2, <1>3
-------------------------------------------------------------------------------
(* split: the slices of the children.                                        *)

(* The slice of a node in order: the bodies of one octant after those of the *)
(* one before.                                                               *)
Ordered(node) ==
    /\ node.count \in Nat
    /\ \A k \in 0..(node.count - 1) : OctantAt(node, k) \in Octants
    /\ \A j, k \in 0..(node.count - 1) : j <= k => OctantAt(node, j) <= OctantAt(node, k)

(* Where the octants of a slice begin and end.                               *)
Cuts(node, cut) ==
    /\ cut \in [0..8 -> 0..node.count] /\ cut[0] = 0 /\ cut[8] = node.count
    /\ \A o \in Octants : /\ cut[o] <= cut[o + 1]
                          /\ \A k \in cut[o]..(cut[o + 1] - 1) : OctantAt(node, k) = o

Child(node, cut, o) == [at |-> Append(node.at, o), first |-> node.first + cut[o],
                        count |-> cut[o + 1] - cut[o]]

Cut(node, o, c) == \A k \in 0..(node.count - 1) : OctantAt(node, k) < o <=> k < c

(* Codes in order have one place where the octants below o end.              *)
LEMMA CutExists ==
    ASSUME NEW node, Ordered(node), NEW o \in Int
    PROVE  \E c \in 0..node.count : Cut(node, o, c)
  <1> DEFINE T == {c \in 0..node.count : \A j \in c..(node.count - 1) : ~(OctantAt(node, j) < o)}
  <1>0. node.count \in Nat
    BY DEF Ordered
  <1>1. node.count \in T
    BY <1>0
  <1>2. T \in SUBSET Nat
    BY <1>0
  <1>3. PICK c \in T : \A d \in T : c <= d
    <2> HIDE DEF T
    <2> QED
      BY <1>1, <1>2, LeastNumber
  <1>4. ASSUME NEW k \in 0..(node.count - 1) PROVE OctantAt(node, k) < o <=> k < c
    <2>1. ASSUME k >= c PROVE ~(OctantAt(node, k) < o)
      <3>1. k \in c..(node.count - 1)
        BY <1>0, <2>1
      <3> QED
        BY <3>1
    <2>2. ASSUME k < c, ~(OctantAt(node, k) < o) PROVE FALSE
      <3>1. ASSUME NEW j \in k..(node.count - 1) PROVE ~(OctantAt(node, j) < o)
        <4>1. j \in 0..(node.count - 1) /\ k <= j
          BY <1>0
        <4>2. /\ OctantAt(node, k) \in Octants /\ OctantAt(node, j) \in Octants
              /\ OctantAt(node, k) <= OctantAt(node, j)
          BY <4>1 DEF Ordered
        <4> QED
          BY <2>2, <4>2 DEF Octants
      <3>2. k \in T
        BY <1>0, <3>1
      <3> HIDE DEF T
      <3>3. c \in Nat /\ k \in Nat
        BY <1>2
      <3> QED
        BY <1>3, <2>2, <3>2, <3>3
    <2>3. c \in Nat /\ k \in Nat
      BY <1>0
    <2> HIDE DEF T
    <2> QED
      BY <2>1, <2>2, <2>3
  <1> QED
    BY <1>4 DEF Cut

(* These places are what the borders of the eight octants add up to.         *)
LEMMA CutsExist ==
    ASSUME NEW node, Ordered(node)
    PROVE  \E cut : /\ Cuts(node, cut)
                    /\ \A o \in Octants : Border(node, cut[o], o) = cut[o + 1] - cut[o]
  <1> DEFINE cut == [o \in 0..8 |-> CHOOSE c \in 0..node.count : Cut(node, o, c)]
  <1>0. node.count \in Nat /\ Octants = 0..7
    BY DEF Ordered, Octants
  <1>1. ASSUME NEW o \in 0..8 PROVE cut[o] \in 0..node.count /\ Cut(node, o, cut[o])
    <2>1. o \in Int
      OBVIOUS
    <2>2. \E c \in 0..node.count : Cut(node, o, c)
      BY <2>1, CutExists
    <2>3. cut[o] = CHOOSE c \in 0..node.count : Cut(node, o, c)
      OBVIOUS
    <2> HIDE DEF cut
    <2> QED
      BY <2>2, <2>3, Zenon
  <1>2. cut \in [0..8 -> 0..node.count]
    <2>1. cut = [o \in 0..8 |-> cut[o]]
      OBVIOUS
    <2> HIDE DEF cut
    <2> QED
      BY <1>1, <2>1
  <1> HIDE DEF cut
  <1>3. ASSUME NEW k \in 0..(node.count - 1)
        PROVE  /\ OctantAt(node, k) \in 0..7
               /\ \A o \in 0..8 : OctantAt(node, k) < o <=> k < cut[o]
    BY <1>0, <1>1 DEF Cut, Ordered
  <1>4. cut[0] = 0
    <2> SUFFICES ASSUME cut[0] # 0 PROVE FALSE
      OBVIOUS
    <2>1. 0 \in 0..8 /\ cut[0] \in 0..node.count
      BY <1>1
    <2>2. 0 \in 0..(node.count - 1) /\ 0 < cut[0]
      BY <1>0, <2>1
    <2> QED
      BY <1>3, <2>1, <2>2
  <1>5. cut[8] = node.count
    <2> SUFFICES ASSUME cut[8] # node.count PROVE FALSE
      OBVIOUS
    <2>1. 8 \in 0..8 /\ cut[8] \in 0..node.count
      BY <1>1
    <2>2. cut[8] \in 0..(node.count - 1) /\ ~(cut[8] < cut[8])
      BY <1>0, <2>1
    <2> QED
      BY <1>3, <2>1, <2>2
  <1>6. ASSUME NEW o \in Octants
        PROVE  /\ cut[o] <= cut[o + 1]
               /\ \A k \in cut[o]..(cut[o + 1] - 1) : OctantAt(node, k) = o
               /\ Border(node, cut[o], o) = cut[o + 1] - cut[o]
    <2>1. o \in 0..8 /\ o + 1 \in 0..8 /\ o \in Int
      BY <1>0
    <2>2. PICK a \in 0..node.count, b \in 0..node.count : a = cut[o] /\ b = cut[o + 1]
      BY <1>1, <2>1
    <2>3. ASSUME NEW k \in 0..(node.count - 1)
          PROVE  /\ OctantAt(node, k) < o <=> k < a
                 /\ OctantAt(node, k) < o + 1 <=> k < b
                 /\ OctantAt(node, k) \in Int
      BY <1>3, <2>1, <2>2
    <2>4. a <= b
      <3> SUFFICES ASSUME b < a PROVE FALSE
        BY <1>0
      <3>1. b \in 0..(node.count - 1)
        BY <1>0
      <3>2. OctantAt(node, b) < o /\ ~(OctantAt(node, b) < o + 1) /\ OctantAt(node, b) \in Int
        BY <1>0, <2>3, <3>1
      <3> QED
        BY <2>1, <3>2
    <2>5. ASSUME NEW k \in a..(node.count - 1) PROVE OctantAt(node, k) = o <=> k < b
      <3>1. k \in 0..(node.count - 1) /\ ~(k < a)
        BY <1>0
      <3>2. ~(OctantAt(node, k) < o) /\ (OctantAt(node, k) < o + 1 <=> k < b)
            /\ OctantAt(node, k) \in Int
        BY <2>3, <3>1
      <3> QED
        BY <2>1, <3>2
    <2>6. \A k \in a..(b - 1) : k \in a..(node.count - 1) /\ k < b
      BY <1>0
    <2>7. Border(node, a, o) = b - a
      <3>1. b \in a..node.count
        BY <1>0, <2>4
      <3> QED
        BY <1>0, <2>5, <3>1, BorderFinds
    <2> QED
      BY <2>2, <2>4, <2>5, <2>6, <2>7
  <1> QED
    BY <1>2, <1>4, <1>5, <1>6 DEF Cuts

(* The children of a node lie one after the other in its slice, each with    *)
(* the bodies of its octant.                                                 *)
LEMMA SplitCuts ==
    ASSUME NEW node, Ordered(node)
    PROVE  \E cut : Cuts(node, cut) /\ Split(node) = {Child(node, cut, o) : o \in Octants}
  <1>1. PICK cut : /\ Cuts(node, cut)
                   /\ \A o \in Octants : Border(node, cut[o], o) = cut[o + 1] - cut[o]
    BY CutsExist
  <1> DEFINE Is(f) == f = [o \in 0..8 |->
                            IF o = 0 THEN 0 ELSE f[o - 1] + Border(node, f[o - 1], o - 1)]
             from == CHOOSE f : Is(f)
  <1>0. /\ node.count \in Nat /\ Octants = 0..7
        /\ cut \in [0..8 -> 0..node.count] /\ cut[0] = 0
    BY <1>1 DEF Ordered, Octants, Cuts
  <1>2. ASSUME NEW o \in 1..8
        PROVE cut[o] = cut[o - 1] + Border(node, cut[o - 1], o - 1)
    <2>1. o - 1 \in Octants /\ (o - 1) + 1 = o /\ o - 1 \in 0..8 /\ o \in 0..8
      BY <1>0
    <2>2. Border(node, cut[o - 1], o - 1) = cut[o] - cut[o - 1]
      BY <1>1, <2>1
    <2>3. cut[o] \in Int /\ cut[o - 1] \in Int
      BY <1>0, <2>1
    <2> QED
      BY <2>2, <2>3
  <1>3. Is(cut)
    <2>1. ASSUME NEW o \in 0..8
          PROVE cut[o] = IF o = 0 THEN 0 ELSE cut[o - 1] + Border(node, cut[o - 1], o - 1)
      <3>1. o = 0 \/ o \in 1..8
        OBVIOUS
      <3> QED
        BY <1>0, <1>2, <3>1
    <2> QED
      BY <1>0, <2>1
  <1>4. Is(from)
    <2> HIDE DEF Is
    <2> QED
      BY <1>3, Zenon
  <1> HIDE DEF from
  <1>5. \A n \in Nat : n <= 8 => from[n] = cut[n]
    <2> DEFINE T == {n \in Nat : n <= 8 => from[n] = cut[n]}
    <2>1. 0 \in T
      BY <1>0, <1>4
    <2>2. ASSUME NEW n \in Nat, n \in T PROVE n + 1 \in T
      <3> SUFFICES ASSUME n + 1 <= 8 PROVE from[n + 1] = cut[n + 1]
        OBVIOUS
      <3>1. n + 1 \in 1..8 /\ n + 1 \in 0..8 /\ (n + 1) - 1 = n /\ n + 1 # 0
        OBVIOUS
      <3>2. from[n] = cut[n]
        BY <2>2, <3>1
      <3>3. from[n + 1] = from[n] + Border(node, from[n], n)
        BY <1>4, <3>1
      <3>4. cut[n + 1] = cut[n] + Border(node, cut[n], n)
        BY <1>2, <3>1
      <3> QED
        BY <3>2, <3>3, <3>4
    <2> HIDE DEF T
    <2>3. \A n \in Nat : n \in T
      BY <2>1, <2>2, Induction
    <2> QED
      BY <2>3 DEF T
  <1>6. \A o \in Octants : from[o] = cut[o] /\ from[o + 1] = cut[o + 1]
    BY <1>0, <1>5
  <1>7. Split(node) = {[at |-> Append(node.at, o), first |-> node.first + from[o],
                        count |-> from[o + 1] - from[o]] : o \in Octants}
    BY Zenon DEF Split, from, Is
  <1>8. Split(node) = {Child(node, cut, o) : o \in Octants}
    BY <1>6, <1>7 DEF Child
  <1> QED
    BY <1>1, <1>8

LEMMA NodeFacts ==
    ASSUME NEW p \in Nodes
    PROVE  /\ p \in Seq(Octants) /\ Len(p) \in 0..Depth
           /\ \A d \in 1..Len(p) : p[d] \in Octants
  <1>1. PICK d \in 0..Depth : p \in [1..d -> Octants]
    BY DEF Nodes
  <1>2. d \in Nat
    BY <1>1, DivisionAssumption
  <1>3. p \in Seq(Octants) /\ Len(p) = d
    BY <1>1, <1>2
  <1> QED
    BY <1>1, <1>3

LEMMA ChildPath ==
    ASSUME NEW p \in Nodes, Len(p) # Depth, NEW o \in Octants
    PROVE  /\ Append(p, o) \in Nodes /\ Len(Append(p, o)) = Len(p) + 1
           /\ Append(p, o)[Len(p) + 1] = o
           /\ \A d \in 1..Len(p) : Append(p, o)[d] = p[d]
  <1>1. p \in Seq(Octants) /\ Len(p) \in 0..Depth
    BY NodeFacts
  <1> DEFINE q == Append(p, o)
  <1>2. /\ q \in Seq(Octants) /\ Len(q) = Len(p) + 1 /\ q[Len(p) + 1] = o
        /\ \A d \in 1..Len(p) : q[d] = p[d]
    BY <1>1, AppendProperties
  <1>3. Len(p) + 1 \in 0..Depth
    BY <1>1, DivisionAssumption
  <1> HIDE DEF q
  <1>4. q \in [1..Len(q) -> Octants]
    BY <1>2
  <1>5. q \in Nodes
    BY <1>2, <1>3, <1>4 DEF Nodes
  <1> QED
    BY <1>2, <1>5 DEF q

LEMMA NoPath == <<>> \in Nodes /\ Len(<<>>) = 0
  <1>1. <<>> \in [1..0 -> Octants] /\ 0 \in 0..Depth
    BY DivisionAssumption
  <1> QED
    BY <1>1 DEF Nodes

(* Two children with the same path have the same parent's path.              *)
LEMMA ParentPath ==
    ASSUME NEW p \in Nodes, NEW q \in Nodes, Len(p) # Depth, Len(q) # Depth,
           NEW o \in Octants, NEW u \in Octants, Append(p, o) = Append(q, u)
    PROVE  p = q /\ o = u
  <1>1. p \in Seq(Octants) /\ q \in Seq(Octants)
    BY NodeFacts
  <1>2. /\ Len(p) \in Nat /\ Len(q) \in Nat /\ Len(p) + 1 = Len(q) + 1
        /\ Append(p, o)[Len(p) + 1] = o /\ Append(q, u)[Len(q) + 1] = u
        /\ \A d \in 1..Len(p) : Append(p, o)[d] = p[d]
        /\ \A d \in 1..Len(q) : Append(q, u)[d] = q[d]
    BY <1>1, ChildPath, LenProperties
  <1>3. Len(p) = Len(q) /\ \A d \in 1..Len(p) : p[d] = q[d]
    BY <1>2
  <1>4. p = q
    <2>1. p \in Seq(Octants) /\ q \in Seq(Octants) /\ Len(p) = Len(q)
          /\ \A d \in 1..Len(p) : p[d] = q[d]
      BY <1>1, <1>3
    <2> QED
      BY <2>1, SeqEqual, Zenon
  <1> QED
    BY <1>2, <1>3, <1>4

(* The codes once they are sorted.                                           *)
CodesOk ==
    /\ Count \in Nat \ {0} /\ Index = 0..(Count - 1)
    /\ \A k \in Index : /\ sorts[k].morton \in Int /\ 0 <= sorts[k].morton
                        /\ sorts[k].morton < Weight(Depth)
    /\ \A j, k \in Index : j <= k => sorts[j].morton <= sorts[k].morton

(* A node has the bodies of its slice: their codes begin with its path.      *)
Body(node, k) == sorts[node.first + k].morton
Good(node) ==
    /\ node \in [at: Nodes, first: Nat, count: Nat]
    /\ node.first + node.count <= Count
    /\ \A k \in 0..(node.count - 1) : \A d \in 1..Len(node.at) :
          Digit(Body(node, k), d - 1) = node.at[d]
    /\ \A j, k \in 0..(node.count - 1) :
          Prefix(Body(node, j), Len(node.at)) = Prefix(Body(node, k), Len(node.at))

LEMMA BodyFacts ==
    ASSUME CodesOk, NEW node, Good(node), NEW k \in 0..(node.count - 1)
    PROVE  /\ node.first + k \in Index /\ Body(node, k) \in Int
           /\ 0 <= Body(node, k) /\ Body(node, k) < Weight(Depth)
           /\ \A j \in 0..(node.count - 1) : j <= k => Body(node, j) <= Body(node, k)
  <1>1. node.first \in Nat /\ node.count \in Nat /\ node.first + node.count <= Count
    BY DEF Good
  <1>2. \A j \in 0..(node.count - 1) : node.first + j \in 0..(Count - 1)
    BY <1>1 DEF CodesOk
  <1>3. \A j \in 0..(node.count - 1) : j <= k => node.first + j <= node.first + k
    BY <1>1
  <1> QED
    BY <1>2, <1>3 DEF CodesOk, Body

(* The bodies of a node ascend and begin with the same digits: they are in   *)
(* the order of the next one.                                                *)
LEMMA GoodIsOrdered ==
    ASSUME CodesOk, NEW node, Good(node), Len(node.at) # Depth
    PROVE  Ordered(node) /\ Len(node.at) \in 0..(Depth - 1)
  <1>1. node.count \in Nat /\ node.at \in Nodes
    BY DEF Good
  <1>2. Len(node.at) \in 0..(Depth - 1)
    BY <1>1, NodeFacts, DivisionAssumption
  <1>3. \A k : OctantAt(node, k) = Digit(Body(node, k), Len(node.at))
    BY DEF OctantAt, Body
  <1>4. ASSUME NEW k \in 0..(node.count - 1) PROVE OctantAt(node, k) \in Octants
    BY <1>2, <1>3, <1>4, BodyFacts, DigitFacts
  <1>5. ASSUME NEW j \in 0..(node.count - 1), NEW k \in 0..(node.count - 1), j <= k
        PROVE  OctantAt(node, j) <= OctantAt(node, k)
    <2>1. Body(node, j) \in Int /\ Body(node, k) \in Int /\ Body(node, j) <= Body(node, k)
      BY <1>5, BodyFacts
    <2>2. Prefix(Body(node, j), Len(node.at)) = Prefix(Body(node, k), Len(node.at))
      BY DEF Good
    <2>3. Digit(Body(node, j), Len(node.at)) <= Digit(Body(node, k), Len(node.at))
      BY <1>2, <2>1, <2>2, DigitsAscend
    <2> QED
      BY <1>3, <2>3
  <1> QED
    BY <1>1, <1>2, <1>4, <1>5 DEF Ordered

(* A child has the bodies whose next digit is its octant.                    *)
LEMMA GoodChild ==
    ASSUME CodesOk, NEW node, Good(node), Len(node.at) # Depth, NEW cut, Cuts(node, cut),
           NEW o \in Octants
    PROVE  Good(Child(node, cut, o))
  <1>1. /\ node.first \in Nat /\ node.count \in Nat /\ node.at \in Nodes
        /\ node.first + node.count <= Count
        /\ Len(node.at) \in 0..(Depth - 1)
    BY GoodIsOrdered DEF Good
  <1>2. PICK a \in 0..node.count, b \in 0..node.count :
            /\ a = cut[o] /\ b = cut[o + 1] /\ a <= b
            /\ \A k \in a..(b - 1) : OctantAt(node, k) = o
    <2>1. o \in 0..8 /\ o + 1 \in 0..8
      BY DEF Octants
    <2> QED
      BY <2>1 DEF Cuts
  <1> DEFINE c == Child(node, cut, o)
             q == Append(node.at, o)
             d == Len(node.at)
  <1>3. c.at = q /\ c.first = node.first + a /\ c.count = b - a
    BY <1>2 DEF Child
  <1>4. /\ q \in Nodes /\ Len(q) = d + 1 /\ q[d + 1] = o
        /\ \A e \in 1..d : q[e] = node.at[e]
    BY <1>1, ChildPath
  <1>5. c \in [at: Nodes, first: Nat, count: Nat] /\ c.first + c.count <= Count
    <2>1. node.first + a \in Nat /\ b - a \in Nat
      BY <1>1, <1>2
    <2>2. c = [at |-> q, first |-> node.first + a, count |-> b - a]
      BY <1>2 DEF Child
    <2>3. node.first + a + (b - a) <= Count
      <3>1. PICK x \in Nat, y \in Nat : x = node.first /\ y = Count
        BY <1>1 DEF CodesOk
      <3>2. PICK z \in Nat : z = node.count
        BY <1>1
      <3>3. x + z <= y /\ b <= z /\ a \in Int /\ b \in Int
        BY <1>1, <1>2, <3>1, <3>2
      <3>4. x + a + (b - a) <= y
        BY <3>1, <3>2, <3>3
      <3> QED
        BY <3>1, <3>4
    <2> HIDE DEF c, q
    <2> QED
      BY <1>3, <1>4, <2>1, <2>2, <2>3
  <1> HIDE DEF c, q
  <1>6. ASSUME NEW k \in 0..(c.count - 1)
        PROVE  /\ a + k \in 0..(node.count - 1) /\ a + k \in a..(b - 1)
               /\ Body(c, k) = Body(node, a + k)
    <2>1. a \in Nat /\ b \in Nat /\ b <= node.count /\ k \in 0..(b - a - 1)
      BY <1>1, <1>2, <1>3
    <2>2. a + k \in 0..(node.count - 1) /\ a + k \in a..(b - 1)
      BY <1>1, <2>1
    <2>3. c.first + k = node.first + (a + k)
      BY <1>1, <1>3, <2>1
    <2>4. Body(c, k) = Body(node, a + k)
      BY <2>3 DEF Body
    <2> QED
      BY <2>2, <2>4
  <1>7. ASSUME NEW k \in 0..(c.count - 1)
        PROVE  /\ Digit(Body(c, k), d) = o /\ Body(c, k) \in Int
               /\ Prefix(Body(c, k), d + 1) = 8 * Prefix(Body(c, k), d) + o
    <2>1. OctantAt(node, a + k) = o
      BY <1>2, <1>6
    <2>2. Digit(Body(c, k), d) = o
      BY <1>6, <2>1 DEF OctantAt, Body
    <2>3. Body(c, k) \in Int
      BY <1>6, BodyFacts
    <2> QED
      BY <1>1, <2>2, <2>3, DigitFacts
  <1>8. ASSUME NEW k \in 0..(c.count - 1), NEW e \in 1..(d + 1)
        PROVE  Digit(Body(c, k), e - 1) = q[e]
    <2>1. CASE e = d + 1
      <3>1. e - 1 = d
        BY <1>1, <2>1
      <3> QED
        BY <1>4, <1>7, <2>1, <3>1
    <2>2. CASE e # d + 1
      <3>1. e \in 1..d
        BY <1>1, <2>2
      <3>2. Digit(Body(node, a + k), e - 1) = node.at[e]
        BY <1>6, <3>1 DEF Good
      <3> QED
        BY <1>4, <1>6, <3>1, <3>2
    <2> QED
      BY <2>1, <2>2
  <1>9. ASSUME NEW j \in 0..(c.count - 1), NEW k \in 0..(c.count - 1)
        PROVE  Prefix(Body(c, j), d + 1) = Prefix(Body(c, k), d + 1)
    <2>1. Prefix(Body(c, j), d) = Prefix(Body(c, k), d)
      <3>1. Prefix(Body(node, a + j), d) = Prefix(Body(node, a + k), d)
        BY <1>6 DEF Good
      <3> QED
        BY <1>6, <3>1
    <2> QED
      BY <1>7, <2>1
  <1>10. Good(c)
    BY <1>3, <1>4, <1>5, <1>8, <1>9 DEF Good
  <1> QED
    BY <1>10 DEF c
-------------------------------------------------------------------------------
(* The tree.                                                                 *)

Root == [at |-> <<>>, first |-> 0, count |-> Count]

(* The nodes of a tree that has grown from the root by splits.               *)
TreeOk(T) ==
    /\ Root \in T
    /\ \A n \in T : Good(n)
    /\ \A n \in T : n = Root \/ \E m \in T : /\ Len(m.at) # Depth
                                             /\ n \in Split(m) /\ Split(m) \subseteq T

LEMMA RootIsGood == ASSUME CodesOk PROVE Good(Root)
  <1>1. Root \in [at: Nodes, first: Nat, count: Nat]
    BY NoPath DEF Root, CodesOk
  <1>2. Root.first + Root.count <= Count
    BY DEF Root, CodesOk
  <1>3. ASSUME NEW k \in 0..(Root.count - 1) PROVE Prefix(Body(Root, k), Len(Root.at)) = 0
    <2>1. Len(Root.at) = 0
      BY NoPath DEF Root
    <2>2. Root.first + k \in Index
      <3>1. Root.first = 0 /\ Root.count = Count
        BY DEF Root
      <3>2. k \in 0..(Count - 1)
        BY <3>1
      <3> QED
        BY <3>1, <3>2 DEF CodesOk
    <2>3. Body(Root, k) \in Int /\ 0 <= Body(Root, k) /\ Body(Root, k) < Weight(Depth)
      BY <2>2 DEF CodesOk, Body
    <2> QED
      BY <2>1, <2>3, NoPrefix
  <1>4. \A d \in 1..Len(Root.at) : FALSE
    <2>1. Len(Root.at) = 0
      BY NoPath DEF Root
    <2> QED
      BY <2>1
  <1> QED
    BY <1>1, <1>2, <1>3, <1>4 DEF Good

(* The children of a node of which all is known.                             *)
LEMMA Children ==
    ASSUME CodesOk, NEW node, Good(node), Len(node.at) # Depth
    PROVE  \E cut : /\ Cuts(node, cut)
                    /\ Split(node) = {Child(node, cut, o) : o \in Octants}
                    /\ \A n \in Split(node) : Good(n)
  <1>1. Ordered(node)
    BY GoodIsOrdered
  <1>2. PICK cut : Cuts(node, cut) /\ Split(node) = {Child(node, cut, o) : o \in Octants}
    BY <1>1, SplitCuts
  <1>3. \A o \in Octants : Good(Child(node, cut, o))
    BY <1>2, GoodChild
  <1> QED
    BY <1>2, <1>3

LEMMA SplitPaths ==
    ASSUME CodesOk, NEW node, Good(node), Len(node.at) # Depth, NEW n \in Split(node)
    PROVE  \E o \in Octants : n.at = Append(node.at, o)
  <1>1. PICK cut : Split(node) = {Child(node, cut, o) : o \in Octants}
    BY Children
  <1> QED
    BY <1>1 DEF Child

(* The parent of a node with this path.                                      *)
LEMMA Parent ==
    ASSUME CodesOk, NEW T, TreeOk(T), NEW n \in T, n.at # <<>>
    PROVE  \E m \in T, o \in Octants :
              /\ Len(m.at) # Depth /\ n \in Split(m) /\ Split(m) \subseteq T
              /\ Good(m) /\ m.at \in Nodes /\ n.at = Append(m.at, o)
  <1>1. n # Root
    BY DEF Root
  <1>2. PICK m \in T : Len(m.at) # Depth /\ n \in Split(m) /\ Split(m) \subseteq T
    BY <1>1 DEF TreeOk
  <1>3. Good(m)
    BY DEF TreeOk
  <1>4. PICK o \in Octants : n.at = Append(m.at, o)
    BY <1>2, <1>3, SplitPaths
  <1> QED
    BY <1>2, <1>3, <1>4 DEF Good

(* No two nodes of a tree have the same path.                                *)
LEMMA PathsDiffer ==
    ASSUME CodesOk, NEW T, TreeOk(T)
    PROVE  \A n, m \in T : n.at = m.at => n = m
  <1> DEFINE Same(d) == \A n, m \in T : n.at = m.at /\ Len(n.at) = d => n = m
             K == {d \in Nat : Same(d)}
  <1>1. \A n \in T : n.at \in Nodes /\ Len(n.at) \in Nat
    <2>1. \A n \in T : n.at \in Nodes
      BY DEF TreeOk, Good
    <2> QED
      BY <2>1, NodeFacts, DivisionAssumption
  <1>2. 0 \in K
    <2> SUFFICES ASSUME NEW n \in T, NEW m \in T, n.at = m.at, Len(n.at) = 0 PROVE n = m
      OBVIOUS
    <2>1. ASSUME NEW x \in T, Len(x.at) = 0 PROVE x = Root
      <3>1. x.at = <<>>
        BY <1>1, <2>1, NodeFacts, EmptySeq
      <3>2. SUFFICES ASSUME x # Root PROVE FALSE
        OBVIOUS
      <3>3. PICK y \in T : Len(y.at) # Depth /\ x \in Split(y)
        BY <3>2 DEF TreeOk
      <3>4. Good(y) /\ y.at \in Nodes
        BY <1>1 DEF TreeOk
      <3>5. PICK o \in Octants : x.at = Append(y.at, o)
        BY <3>3, <3>4, SplitPaths
      <3>6. Len(Append(y.at, o)) = Len(y.at) + 1
        BY <3>3, <3>4, ChildPath
      <3> QED
        BY <1>1, <2>1, <3>5, <3>6
    <2> QED
      BY <2>1
  <1>3. ASSUME NEW d \in Nat, d \in K PROVE d + 1 \in K
    <2> SUFFICES ASSUME NEW n \in T, NEW m \in T, n.at = m.at, Len(n.at) = d + 1 PROVE n = m
      OBVIOUS
    <2>1. n.at # <<>> /\ m.at # <<>>
      BY EmptySeq
    <2>2. PICK x \in T, o \in Octants :
              /\ Len(x.at) # Depth /\ n \in Split(x) /\ Good(x) /\ x.at \in Nodes
              /\ n.at = Append(x.at, o)
      BY <2>1, Parent
    <2>3. PICK y \in T, u \in Octants :
              /\ Len(y.at) # Depth /\ m \in Split(y) /\ Good(y) /\ y.at \in Nodes
              /\ m.at = Append(y.at, u)
      BY <2>1, Parent
    <2>4. x.at = y.at /\ o = u
      <3>1. Append(x.at, o) = Append(y.at, u)
        BY <2>2, <2>3
      <3> QED
        <4>1. /\ x.at \in Nodes /\ y.at \in Nodes
              /\ Len(x.at) # Depth /\ Len(y.at) # Depth
          BY <2>2, <2>3
        <4>2. x.at = y.at
          BY <3>1, <4>1, ParentPath
        <4>3. o = u
          BY <3>1, <4>1, ParentPath
        <4> QED
          BY <4>2, <4>3
    <2>5. Len(x.at) = d
      <3>1. Len(n.at) = Len(x.at) + 1
        BY <2>2, ChildPath
      <3> QED
        BY <1>1, <3>1
    <2>6. x = y
      BY <1>3, <2>4, <2>5
    <2>7. PICK cut : Split(x) = {Child(x, cut, v) : v \in Octants}
      BY <2>2, Children
    <2>8. ASSUME NEW z \in Split(x), z.at = Append(x.at, o) PROVE z = Child(x, cut, o)
      <3>1. PICK v \in Octants : z = Child(x, cut, v)
        BY <2>7
      <3>2. z.at = Append(x.at, v)
        BY <3>1 DEF Child
      <3>3. v = o
        BY <2>2, <2>8, <3>2, ParentPath
      <3> QED
        BY <3>1, <3>3
    <2> QED
      BY <2>2, <2>3, <2>4, <2>6, <2>8
  <1> HIDE DEF K
  <1>4. \A d \in Nat : d \in K
    BY <1>2, <1>3, Induction
  <1> QED
    BY <1>1, <1>4 DEF K

(* A node one of whose children is in the tree has them all there.           *)
LEMMA AllChildren ==
    ASSUME CodesOk, NEW T, TreeOk(T), NEW n \in T, NEW c \in T, NEW o \in Octants,
           c.at = Append(n.at, o)
    PROVE  /\ Len(n.at) # Depth
           /\ \E cut : Cuts(n, cut) /\ \A u \in Octants : Child(n, cut, u) \in T
  <1>1. n.at \in Nodes /\ c.at \in Nodes
    BY DEF TreeOk, Good
  <1>2. n.at \in Seq(Octants)
    BY <1>1, NodeFacts
  <1>3. c.at # <<>> /\ Len(n.at) # Depth
    <2>1. Len(c.at) = Len(n.at) + 1
      BY <1>2, LenProperties
    <2>2. Len(n.at) \in 0..Depth /\ Len(c.at) \in 0..Depth /\ Depth \in Nat
      BY <1>1, NodeFacts, DivisionAssumption
    <2>3. Len(c.at) # 0 /\ Len(n.at) # Depth
      BY <2>1, <2>2
    <2> QED
      BY <2>3, NoPath
  <1>4. PICK m \in T, u \in Octants :
            /\ Len(m.at) # Depth /\ Split(m) \subseteq T /\ Good(m) /\ m.at \in Nodes
            /\ c.at = Append(m.at, u)
    <2>1. c.at # <<>>
      BY <1>3
    <2>2. \E m \in T, u \in Octants :
              /\ Len(m.at) # Depth /\ c \in Split(m) /\ Split(m) \subseteq T
              /\ Good(m) /\ m.at \in Nodes /\ c.at = Append(m.at, u)
      BY <2>1, Parent
    <2> QED
      BY <2>2
  <1>5. n.at = m.at
    <2>1. Append(n.at, o) = Append(m.at, u)
      BY <1>4
    <2> QED
      <3>1. /\ n.at \in Nodes /\ m.at \in Nodes
            /\ Len(n.at) # Depth /\ Len(m.at) # Depth
        BY <1>1, <1>3, <1>4
      <3> QED
        BY <2>1, <3>1, ParentPath
  <1>6. n = m
    BY <1>5, PathsDiffer
  <1>7. PICK cut : Cuts(m, cut) /\ Split(m) = {Child(m, cut, v) : v \in Octants}
    BY <1>4, Children
  <1> QED
    BY <1>3, <1>4, <1>6, <1>7

(* What holds of a node when it holds of its children, from the last level   *)
(* up.                                                                       *)
LEMMA FromBelow ==
    ASSUME NEW T, \A p \in Nodes : (Len(p) # Depth => \A o \in Octants : Append(p, o) \in T)
                                   => p \in T
    PROVE  \A p \in Nodes : p \in T
  <1> DEFINE K == {n \in Nat : \A p \in Nodes : Len(p) + n = Depth => p \in T}
  <1>1. \A p \in Nodes : Len(p) \in 0..Depth /\ Depth \in Nat
    BY NodeFacts, DivisionAssumption
  <1>2. 0 \in K
    <2>1. ASSUME NEW p \in Nodes, Len(p) + 0 = Depth PROVE p \in T
      <3>1. Len(p) = Depth
        BY <1>1, <2>1
      <3> QED
        BY <3>1
    <2> QED
      BY <2>1
  <1>3. ASSUME NEW n \in Nat, n \in K PROVE n + 1 \in K
    <2>1. ASSUME NEW p \in Nodes, Len(p) + (n + 1) = Depth PROVE p \in T
      <3>1. ASSUME NEW o \in Octants, Len(p) # Depth PROVE Append(p, o) \in T
        <4>1. Append(p, o) \in Nodes /\ Len(Append(p, o)) = Len(p) + 1
          BY <3>1, ChildPath
        <4>2. Len(Append(p, o)) + n = Depth
          BY <1>1, <2>1, <4>1
        <4> QED
          BY <1>3, <4>1, <4>2
      <3> QED
        BY <3>1
    <2> QED
      BY <2>1
  <1> HIDE DEF K
  <1>4. \A n \in Nat : n \in K
    BY <1>2, <1>3, Induction
  <1>5. ASSUME NEW p \in Nodes PROVE p \in T
    <2>1. Depth - Len(p) \in K /\ Len(p) + (Depth - Len(p)) = Depth
      BY <1>1, <1>4
    <2> QED
      BY <2>1 DEF K
  <1> QED
    BY <1>5

(* What a walk over the tree collects: at an inner node what its children    *)
(* do, in their order.                                                       *)
Walk(f, Inner, base) ==
    f = [p \in Nodes |-> IF p \in Inner THEN Flatten8([o \in Octants |-> f[Append(p, o)]])
                         ELSE base[p]]
Inners == {p \in Nodes : Len(p) # Depth}

LEMMA EightParts ==
    ASSUME NEW V, NEW f, \A o \in Octants : f[o] \in Seq(V)
    PROVE  [o \in 1..8 |-> f[o - 1]] \in Seq(Seq(V)) /\ Flatten8(f) \in Seq(V)
  <1>1. \A o \in 1..8 : o - 1 \in Octants
    BY DEF Octants
  <1>2. [o \in 1..8 |-> f[o - 1]] \in Seq(Seq(V))
    <2>1. [o \in 1..8 |-> f[o - 1]] \in [1..8 -> Seq(V)]
      BY <1>1
    <2> QED
      BY <2>1
  <1>3. FlattenSeq([o \in 1..8 |-> f[o - 1]]) \in Seq(V)
    BY <1>2, FlattenLayout
  <1> QED
    BY <1>2, <1>3 DEF Flatten8

(* The walk is well defined: from the last level up, one level after the     *)
(* other, its values settle.                                                 *)
LEMMA WalkExists ==
    ASSUME NEW V, NEW Inner \in SUBSET Inners, NEW base \in [Nodes -> Seq(V)]
    PROVE  \E f : Walk(f, Inner, base)
  <1> DEFINE S == [Nodes -> Seq(V)]
             Once(f) == [p \in Nodes |->
                            IF p \in Inner THEN Flatten8([o \in Octants |-> f[Append(p, o)]])
                            ELSE base[p]]
             once == [f \in S |-> Once(f)]
             g == [n \in Nat |-> once]
  <1>1. ASSUME NEW f \in S PROVE Once(f) \in S
    <2>1. ASSUME NEW p \in Inner PROVE Flatten8([o \in Octants |-> f[Append(p, o)]]) \in Seq(V)
      <3> DEFINE h == [o \in Octants |-> f[Append(p, o)]]
      <3>1. ASSUME NEW o \in Octants PROVE h[o] \in Seq(V)
        <4>1. Append(p, o) \in Nodes
          BY ChildPath DEF Inners
        <4> QED
          BY <4>1
      <3> HIDE DEF h
      <3>2. Flatten8(h) \in Seq(V)
        BY <3>1, EightParts
      <3> QED
        BY <3>2 DEF h
    <2> QED
      BY <2>1
  <1>2. g \in [Nat -> [S -> S]]
    <2>1. once \in [S -> S]
      <3> HIDE DEF S, Once
      <3> QED
        BY <1>1
    <2> HIDE DEF S, once
    <2> QED
      BY <2>1
  <1>3. PICK F \in [Nat -> S] : Recurs(F, base, g)
    <2> HIDE DEF S, g
    <2>1. base \in S
      BY DEF S
    <2> QED
      BY <1>2, <2>1, Recursion
  <1>4. \A n \in Nat : F[n + 1] = Once(F[n])
    <2> HIDE DEF S, Once
    <2>1. \A n \in Nat : F[n + 1] = g[n][F[n]]
      BY <1>3, Zenon DEF Recurs
    <2>2. \A n \in Nat : F[n] \in S
      OBVIOUS
    <2> QED
      BY <2>1, <2>2
  <1>5. F[0] = base
    BY <1>3, Zenon DEF Recurs
  <1> DEFINE Settles(n) == \A p \in Nodes : Depth - Len(p) <= n => F[n + 1][p] = F[n][p]
             K == {n \in Nat : Settles(n)}
  <1>6. \A p \in Nodes : Len(p) \in 0..Depth /\ Depth \in Nat
    BY NodeFacts, DivisionAssumption
  <1>7. \A n \in Nat : \A p \in Nodes :
            F[n + 1][p] = IF p \in Inner THEN Flatten8([o \in Octants |-> F[n][Append(p, o)]])
                          ELSE base[p]
    BY <1>4
  <1> HIDE DEF S, once, g, Once
  <1>8. 0 \in K
    <2>1. ASSUME NEW p \in Nodes, Depth - Len(p) <= 0 PROVE F[0 + 1][p] = F[0][p]
      <3>1. p \notin Inner
        BY <1>6, <2>1 DEF Inners
      <3> QED
        BY <1>5, <1>7, <3>1
    <2> QED
      BY <2>1
  <1>9. ASSUME NEW n \in Nat, n \in K PROVE n + 1 \in K
    <2>1. ASSUME NEW p \in Nodes, Depth - Len(p) <= n + 1
          PROVE F[(n + 1) + 1][p] = F[n + 1][p]
      <3> DEFINE h(m) == [o \in Octants |-> F[m][Append(p, o)]]
      <3>0. ASSUME NEW m \in Nat
            PROVE  F[m + 1][p] = IF p \in Inner THEN Flatten8(h(m)) ELSE base[p]
        BY <1>7
      <3> HIDE DEF h
      <3>5. n + 1 \in Nat
        OBVIOUS
      <3>1. CASE p \notin Inner
        BY <3>0, <3>1, <3>5
      <3>2. CASE p \in Inner
        <4>1. ASSUME NEW o \in Octants PROVE F[n + 1][Append(p, o)] = F[n][Append(p, o)]
          <5>1. Append(p, o) \in Nodes /\ Len(Append(p, o)) = Len(p) + 1
            BY <3>2, ChildPath DEF Inners
          <5>2. Depth - Len(Append(p, o)) <= n
            BY <1>6, <2>1, <5>1
          <5> QED
            BY <1>9, <5>1, <5>2
        <4>2. h(n + 1) = h(n)
          BY <4>1 DEF h
        <4> QED
          BY <3>0, <3>2, <3>5, <4>2
      <3> QED
        BY <3>1, <3>2
    <2> QED
      BY <2>1
  <1>10. Depth \in K
    <2> HIDE DEF K
    <2> QED
      BY <1>8, <1>9, Induction, DivisionAssumption
  <1>11. Walk(F[Depth], Inner, base)
    <2>1. \A p \in Nodes : F[Depth + 1][p] = F[Depth][p]
      BY <1>6, <1>10
    <2>2. \A n \in Nat : F[n] = [p \in Nodes |-> F[n][p]]
      BY DEF S
    <2>3. Depth \in Nat /\ Depth + 1 \in Nat
      BY DivisionAssumption
    <2>4. F[Depth] = F[Depth + 1]
      BY <2>1, <2>2, <2>3
    <2>5. F[Depth + 1] = Once(F[Depth])
      BY <1>4, <2>3
    <2>6. F[Depth] = Once(F[Depth])
      BY <2>4, <2>5
    <2> QED
      BY <2>6, Zenon DEF Walk, Once
  <1> QED
    BY <1>11
-------------------------------------------------------------------------------
(* Slots that lie one after the other.                                       *)

(* The slots of a sequence lie one after the other, from a to b.             *)
Edges(s, slot, a, b, e) ==
    /\ e \in [0..Len(s) -> Int] /\ e[0] = a /\ e[Len(s)] = b
    /\ \A j \in 1..Len(s) : /\ e[j - 1] <= e[j]
                            /\ slot[s[j]].first = e[j - 1]
                            /\ slot[s[j]].count = e[j] - e[j - 1]
Tiles(s, slot, a, b) == \E e : Edges(s, slot, a, b, e)

LEMMA TilesNone == ASSUME NEW slot, NEW a \in Int PROVE Tiles(<<>>, slot, a, a)
  <1> DEFINE e == [j \in 0..0 |-> a]
  <1>1. Len(<<>>) = 0 /\ \A j \in 1..0 : FALSE
    BY NoPath
  <1>2. e \in [0..0 -> Int] /\ e[0] = a
    OBVIOUS
  <1> HIDE DEF e
  <1>3. Edges(<<>>, slot, a, a, e)
    BY <1>1, <1>2 DEF Edges
  <1> QED
    BY <1>3 DEF Tiles

LEMMA TilesOne ==
    ASSUME NEW slot, NEW v, NEW a \in Int, NEW b \in Int, a <= b,
           slot[v].first = a, slot[v].count = b - a
    PROVE  Tiles(<<v>>, slot, a, b)
  <1> DEFINE e == [j \in 0..1 |-> IF j = 0 THEN a ELSE b]
  <1>1. Len(<<v>>) = 1 /\ <<v>>[1] = v /\ \A j \in 1..1 : j = 1 /\ j - 1 = 0
    OBVIOUS
  <1>2. e \in [0..1 -> Int] /\ e[0] = a /\ e[1] = b
    OBVIOUS
  <1> HIDE DEF e
  <1>3. Edges(<<v>>, slot, a, b, e)
    <2>1. ASSUME NEW j \in 1..1
          PROVE  /\ e[j - 1] <= e[j] /\ slot[<<v>>[j]].first = e[j - 1]
                 /\ slot[<<v>>[j]].count = e[j] - e[j - 1]
      <3>1. j = 1 /\ j - 1 = 0
        OBVIOUS
      <3> QED
        BY <1>1, <1>2, <3>1
    <2> QED
      BY <1>1, <1>2, <2>1 DEF Edges
  <1> QED
    BY <1>3 DEF Tiles

(* What lies from a to b, and then from b to c, lies from a to c.            *)
LEMMA TilesConcat ==
    ASSUME NEW V, NEW s \in Seq(V), NEW t \in Seq(V), NEW slot,
           NEW a, NEW b, NEW c, Tiles(s, slot, a, b), Tiles(t, slot, b, c)
    PROVE  Tiles(s \o t, slot, a, c)
  <1>1. PICK e : Edges(s, slot, a, b, e)
    BY DEF Tiles
  <1>2. PICK f : Edges(t, slot, b, c, f)
    BY DEF Tiles
  <1>3. PICK u, p, l : u = s \o t /\ p = Len(s) /\ l = Len(t)
    OBVIOUS
  <1>4. /\ u \in Seq(V) /\ Len(u) = p + l /\ p \in Nat /\ l \in Nat
        /\ \A i \in 1..p : u[i] = s[i]
        /\ \A i \in 1..l : u[p + i] = t[i]
    BY <1>3, ConcatParts
  <1>5. /\ e \in [0..p -> Int] /\ e[0] = a /\ e[p] = b
        /\ f \in [0..l -> Int] /\ f[0] = b /\ f[l] = c
    BY <1>1, <1>2, <1>3 DEF Edges
  <1> DEFINE g == [j \in 0..(p + l) |-> IF j <= p THEN e[j] ELSE f[j - p]]
  <1>6. g \in [0..(p + l) -> Int]
    <2>1. ASSUME NEW j \in 0..(p + l) PROVE (IF j <= p THEN e[j] ELSE f[j - p]) \in Int
      <3>1. j <= p => j \in 0..p
        BY <1>4
      <3>2. ~(j <= p) => j - p \in 0..l
        BY <1>4
      <3> QED
        BY <1>5, <3>1, <3>2
    <2> QED
      BY <2>1
  <1>7. \A j \in 0..p : g[j] = e[j]
    BY <1>4
  <1>8. \A j \in 0..l : g[p + j] = f[j]
    <2>1. ASSUME NEW j \in 0..l PROVE g[p + j] = f[j]
      <3>1. p + j \in 0..(p + l) /\ (p + j) - p = j /\ (p + j <= p => j = 0)
        BY <1>4
      <3>2. CASE j = 0
        <4>1. p + j = p /\ p \in 0..p
          BY <1>4, <3>2
        <4> HIDE DEF g
        <4> QED
          BY <1>5, <1>7, <3>2, <4>1
      <3>3. CASE j # 0
        BY <3>1, <3>3
      <3> QED
        BY <3>2, <3>3
    <2> QED
      BY <2>1
  <1> HIDE DEF g
  <1>9. g[0] = a /\ g[p + l] = c
    <2>1. 0 \in 0..p /\ l \in 0..l
      BY <1>4
    <2> QED
      BY <1>5, <1>7, <1>8, <2>1
  <1>10. ASSUME NEW j \in 1..(p + l)
         PROVE  /\ g[j - 1] <= g[j] /\ slot[u[j]].first = g[j - 1]
                /\ slot[u[j]].count = g[j] - g[j - 1]
    <2>1. CASE j <= p
      <3>1. j \in 1..p /\ j \in 0..p /\ j - 1 \in 0..p
        BY <1>4, <2>1
      <3>2. /\ e[j - 1] <= e[j] /\ slot[s[j]].first = e[j - 1]
            /\ slot[s[j]].count = e[j] - e[j - 1]
        BY <1>1, <1>3, <3>1 DEF Edges
      <3> QED
        BY <1>4, <1>7, <3>1, <3>2
    <2>2. CASE j > p
      <3>1. PICK i \in 1..l : j = p + i /\ j - 1 = p + (i - 1) /\ i \in 0..l /\ i - 1 \in 0..l
        <4>1. j - p \in 1..l /\ j = p + (j - p) /\ j - 1 = p + ((j - p) - 1)
              /\ j - p \in 0..l /\ (j - p) - 1 \in 0..l
          BY <1>4, <2>2
        <4> QED
          BY <4>1
      <3>2. /\ f[i - 1] <= f[i] /\ slot[t[i]].first = f[i - 1]
            /\ slot[t[i]].count = f[i] - f[i - 1]
        BY <1>2, <1>3 DEF Edges
      <3>3. u[j] = t[i] /\ g[j] = f[i] /\ g[j - 1] = f[i - 1]
        BY <1>4, <1>8, <3>1
      <3> QED
        BY <3>2, <3>3
    <2> QED
      BY <1>4, <2>1, <2>2
  <1>11. Edges(u, slot, a, c, g)
    BY <1>4, <1>6, <1>9, <1>10 DEF Edges
  <1> QED
    BY <1>3, <1>11 DEF Tiles

LEMMA TilesEight ==
    ASSUME NEW V, NEW f, \A o \in Octants : f[o] \in Seq(V), NEW slot,
           NEW b, b \in [0..8 -> Int],
           \A o \in Octants : Tiles(f[o], slot, b[o], b[o + 1])
    PROVE  Tiles(Flatten8(f), slot, b[0], b[8])
  <1> DEFINE ss == [o \in 1..8 |-> f[o - 1]]
  <1>1. ss \in Seq(Seq(V))
    BY EightParts
  <1>2. Len(ss) = 8 /\ \A i \in 0..7 : ss[i + 1] = f[i]
    OBVIOUS
  <1>3. Flatten8(f) = FlattenSeq(ss)
    BY DEF Flatten8
  <1> HIDE DEF ss
  <1>4. PICK P \in [Nat -> Seq(V)] : IsPrefixes(P, ss)
    BY <1>1, PrefixesExist
  <1>5. FlattenSeq(ss) = P[8]
    <2>1. FlattenSeq(ss) = P[Len(ss)]
      BY <1>1, <1>4, FlattenIsPrefix
    <2> QED
      BY <1>2, <2>1
  <1>6. P[0] = <<>> /\ \A k \in 0..7 : P[k + 1] = P[k] \o f[k]
    <2>1. P[0] = <<>>
      BY <1>4 DEF IsPrefixes
    <2>2. ASSUME NEW k \in 0..7 PROVE P[k + 1] = P[k] \o f[k]
      <3>1. k \in 0..(Len(ss) - 1)
        BY <1>2
      <3>2. P[k + 1] = P[k] \o ss[k + 1]
        BY <1>4, <3>1, Zenon DEF IsPrefixes
      <3>3. ss[k + 1] = f[k]
        BY <1>2
      <3> QED
        BY <3>2, <3>3
    <2> QED
      BY <2>1, <2>2
  <1> DEFINE K == {k \in Nat : k <= 8 => Tiles(P[k], slot, b[0], b[k])}
  <1>7. 0 \in K
    BY <1>6, TilesNone
  <1>8. ASSUME NEW k \in Nat, k \in K PROVE k + 1 \in K
    <2> SUFFICES ASSUME k + 1 <= 8 PROVE Tiles(P[k + 1], slot, b[0], b[k + 1])
      OBVIOUS
    <2>1. k \in 0..7 /\ k <= 8 /\ k \in Octants
      <3>1. k \in 0..7 /\ k <= 8
        OBVIOUS
      <3> QED
        BY <3>1 DEF Octants
    <2>2. Tiles(P[k], slot, b[0], b[k]) /\ Tiles(f[k], slot, b[k], b[k + 1])
      BY <1>8, <2>1
    <2>3. P[k] \in Seq(V) /\ f[k] \in Seq(V)
      BY <2>1
    <2>4. Tiles(P[k] \o f[k], slot, b[0], b[k + 1])
      BY <2>2, <2>3, TilesConcat, Zenon
    <2> QED
      BY <1>6, <2>1, <2>4
  <1> HIDE DEF K
  <1>9. 8 \in K
    BY <1>7, <1>8, Induction
  <1> QED
    BY <1>3, <1>5, <1>9 DEF K

(* Where slots lie one after the other, every place is in one of them.       *)
Covers(slot, v, k) == slot[v].first <= k /\ k < slot[v].first + slot[v].count

LEMMA TilesCover ==
    ASSUME NEW V, NEW s \in Seq(V), NEW slot, NEW a \in Int, NEW b \in Int,
           Tiles(s, slot, a, b), NEW k \in Int, a <= k, k < b
    PROVE  \E j \in 1..Len(s) : /\ Covers(slot, s[j], k)
                                /\ \A i \in 1..Len(s) : Covers(slot, s[i], k) => i = j
  <1>1. PICK e : Edges(s, slot, a, b, e)
    BY DEF Tiles
  <1>2. PICK n \in Nat : n = Len(s)
    BY LenProperties
  <1>3. e \in [0..n -> Int] /\ e[0] = a /\ e[n] = b /\ \A j \in 1..n : e[j - 1] <= e[j]
    BY <1>1, <1>2 DEF Edges
  <1>4. ASSUME NEW j \in 1..n PROVE Covers(slot, s[j], k) <=> e[j - 1] <= k /\ k < e[j]
    <2>1. slot[s[j]].first = e[j - 1] /\ slot[s[j]].count = e[j] - e[j - 1]
      BY <1>1, <1>2 DEF Edges
    <2>2. e[j] \in Int /\ e[j - 1] \in Int
      BY <1>3
    <2>3. e[j - 1] + (e[j] - e[j - 1]) = e[j]
      BY <2>2
    <2> QED
      BY <2>1, <2>3 DEF Covers
  <1> DEFINE T == {j \in 0..n : k < e[j]}
  <1>5. PICK j \in T : \A i \in T : j <= i
    <2>1. n \in T
      BY <1>3
    <2>2. T \in SUBSET Nat
      OBVIOUS
    <2> HIDE DEF T
    <2> QED
      BY <2>1, <2>2, LeastNumber
  <1>6. j \in 1..n
    BY <1>3
  <1>7. e[j - 1] <= k /\ k < e[j]
    <2>1. j - 1 \in 0..n /\ ~(j <= j - 1)
      BY <1>6
    <2>2. j - 1 \notin T
      <3> HIDE DEF T
      <3> QED
        BY <1>5, <2>1
    <2>3. e[j - 1] \in Int
      BY <1>3, <2>1
    <2> QED
      BY <2>1, <2>2, <2>3
  (* The edges do not descend: beyond j they are all above k.                *)
  <1>8. \A i \in 0..n : i >= j => k < e[i]
    <2> DEFINE K == {d \in Nat : j + d <= n => k < e[j + d]}
    <2>1. 0 \in K
      BY <1>6, <1>7
    <2>2. ASSUME NEW d \in Nat, d \in K PROVE d + 1 \in K
      <3> SUFFICES ASSUME j + (d + 1) <= n PROVE k < e[j + (d + 1)]
        OBVIOUS
      <3>0. PICK x \in 1..n : x = j + (d + 1) /\ x - 1 = j + d /\ j + d <= n
        BY <1>6
      <3>1. k < e[x - 1]
        BY <2>2, <3>0
      <3>2. e[x - 1] <= e[x] /\ e[x] \in Int /\ e[x - 1] \in Int
        BY <1>3
      <3>3. k < e[x]
        BY <3>1, <3>2
      <3> QED
        BY <3>0, <3>3
    <2> HIDE DEF K
    <2>3. \A d \in Nat : d \in K
      BY <2>1, <2>2, Induction
    <2>4. ASSUME NEW i \in 0..n, i >= j PROVE k < e[i]
      <3>1. i - j \in Nat /\ j + (i - j) = i /\ i <= n
        BY <1>6, <2>4
      <3>2. i - j \in K
        BY <2>3, <3>1
      <3> QED
        BY <3>1, <3>2 DEF K
    <2> QED
      BY <2>4
  <1>9. ASSUME NEW i \in 1..n, Covers(slot, s[i], k) PROVE i = j
    <2>1. e[i - 1] <= k /\ k < e[i]
      BY <1>4, <1>9
    <2>2. i \in T /\ i - 1 \in 0..n /\ e[i - 1] \in Int
      BY <1>3, <2>1
    <2>3. j <= i
      <3> HIDE DEF T
      <3> QED
        BY <1>5, <2>2
    <2>4. ~(i - 1 >= j)
      BY <1>8, <2>1, <2>2
    <2> QED
      BY <1>6, <2>3, <2>4
  <1>10. Covers(slot, s[j], k)
    BY <1>4, <1>6, <1>7
  <1> QED
    BY <1>2, <1>6, <1>9, <1>10

(* Each slot begins where the one before ends.                               *)
LEMMA TilesMeet ==
    ASSUME NEW s, Len(s) \in Nat, NEW slot, NEW a, NEW b, Tiles(s, slot, a, b),
           NEW j \in 2..Len(s)
    PROVE  slot[s[j]].first = slot[s[j - 1]].first + slot[s[j - 1]].count
  <1>1. PICK e : Edges(s, slot, a, b, e)
    BY DEF Tiles
  <1>2. PICK x \in Int, y \in Int : x = e[j - 2] /\ y = e[j - 1]
    <2>1. j - 2 \in 0..Len(s) /\ j - 1 \in 0..Len(s)
      OBVIOUS
    <2> QED
      BY <1>1, <2>1 DEF Edges
  <1>3. slot[s[j]].first = y
    <2>1. j \in 1..Len(s)
      OBVIOUS
    <2> QED
      BY <1>1, <1>2, <2>1 DEF Edges
  <1>4. slot[s[j - 1]].first = x /\ slot[s[j - 1]].count = y - x
    <2>1. j - 1 \in 1..Len(s) /\ (j - 1) - 1 = j - 2
      OBVIOUS
    <2> QED
      BY <1>1, <1>2, <2>1 DEF Edges
  <1> QED
    BY <1>2, <1>3, <1>4
-------------------------------------------------------------------------------
(* The leaves and the neighbourhoods.                                        *)

(* A walk that takes each node as a whole or goes into all its children      *)
(* collects what tiles the bodies.                                           *)
LEMMA WalkTiles ==
    ASSUME CodesOk, NEW T, TreeOk(T), NEW Inner, NEW base, NEW f, Walk(f, Inner, base),
           NEW V, NEW slot,
           \A n \in T : n.at \notin Inner =>
               /\ base[n.at] \in Seq(V)
               /\ Tiles(base[n.at], slot, n.first, n.first + n.count),
           \A n \in T : n.at \in Inner => \E c \in T : c.at = Append(n.at, 0)
    PROVE  f[<<>>] \in Seq(V) /\ Tiles(f[<<>>], slot, 0, Count)
  <1> DEFINE Ok(n) == f[n.at] \in Seq(V) /\ Tiles(f[n.at], slot, n.first, n.first + n.count)
             K == {p \in Nodes : \A n \in T : n.at = p => Ok(n)}
  <1>1. ASSUME NEW n \in T PROVE n.first \in Nat /\ n.count \in Nat /\ n.at \in Nodes
    BY DEF TreeOk, Good
  <1>2. ASSUME NEW p \in Nodes, Len(p) # Depth => \A o \in Octants : Append(p, o) \in K
        PROVE  p \in K
    <2>1. SUFFICES ASSUME NEW n \in T, n.at = p PROVE Ok(n)
      OBVIOUS
    <2>2. CASE p \notin Inner
      <3>1. f[p] = base[p]
        BY <2>2 DEF Walk
      <3> QED
        BY <2>1, <2>2, <3>1
    <2>3. CASE p \in Inner
      <3>1. PICK c \in T : c.at = Append(n.at, 0)
        BY <2>1, <2>3
      <3>2. /\ Len(n.at) # Depth
            /\ \E cut : Cuts(n, cut) /\ \A u \in Octants : Child(n, cut, u) \in T
        <4>1. 0 \in Octants
          BY DEF Octants
        <4> QED
          BY <3>1, <4>1, AllChildren
      <3>3. PICK cut : Cuts(n, cut) /\ \A u \in Octants : Child(n, cut, u) \in T
        BY <3>2
      <3> DEFINE g == [o \in Octants |-> f[Append(p, o)]]
                 b == [o \in 0..8 |-> n.first + cut[o]]
      <3>4. f[p] = Flatten8(g)
        BY <2>3 DEF Walk
      <3>5. /\ cut \in [0..8 -> 0..n.count] /\ cut[0] = 0 /\ cut[8] = n.count
            /\ Octants = 0..7
        BY <3>3 DEF Cuts, Octants
      <3>6. b \in [0..8 -> Int] /\ b[0] = n.first /\ b[8] = n.first + n.count
        <4>1. PICK x \in Nat, y \in Nat : x = n.first /\ y = n.count
          BY <1>1
        <4>2. \A o \in 0..8 : cut[o] \in 0..y
          BY <3>5, <4>1
        <4>3. ASSUME NEW o \in 0..8 PROVE x + cut[o] \in Int
          <5>1. PICK z \in 0..y : z = cut[o]
            BY <4>2
          <5>2. x \in Nat /\ z \in Nat
            BY <4>1
          <5>3. x + z \in Int
            BY <5>2
          <5> QED
            BY <5>1, <5>3
        <4>4. b = [o \in 0..8 |-> x + cut[o]]
          BY <4>1
        <4>5. x + cut[0] = x /\ x + cut[8] = x + y
          BY <3>5, <4>1
        <4> HIDE DEF b
        <4> QED
          BY <4>1, <4>3, <4>4, <4>5
      <3>7. ASSUME NEW o \in Octants
            PROVE  g[o] \in Seq(V) /\ Tiles(g[o], slot, b[o], b[o + 1])
        <4> DEFINE x == Child(n, cut, o)
        <4>1. x \in T /\ x.at = Append(p, o) /\ x.first = n.first + cut[o]
              /\ x.count = cut[o + 1] - cut[o]
          BY <2>1, <3>3 DEF Child
        <4> HIDE DEF x
        <4>2. Ok(x)
          BY <1>2, <2>1, <3>2, <4>1
        <4>3. o \in 0..8 /\ o + 1 \in 0..8
          BY <3>5
        <4>4. b[o] = x.first /\ b[o + 1] = x.first + x.count
          <5>1. cut[o] \in Int /\ cut[o + 1] \in Int /\ n.first \in Int
            <6>1. \A u \in 0..8 : cut[u] \in Int
              BY <1>1, <3>5
            <6>2. n.first \in Int
              BY <1>1
            <6> HIDE DEF x, Ok, g, b, K
            <6> QED
              BY <4>3, <6>1, <6>2, Zenon
          <5>2. n.first + cut[o] + (cut[o + 1] - cut[o]) = n.first + cut[o + 1]
            BY <5>1
          <5> QED
            BY <4>1, <4>3, <5>2
        <4>5. g[o] = f[x.at]
          BY <4>1
        <4> HIDE DEF g, b
        <4> QED
          BY <4>2, <4>4, <4>5
      <3> HIDE DEF g, b
      <3>8. Flatten8(g) \in Seq(V)
        BY <3>7, EightParts
      <3>9. Tiles(Flatten8(g), slot, b[0], b[8])
        BY <3>6, <3>7, TilesEight
      <3> QED
        BY <2>1, <3>4, <3>6, <3>8, <3>9
    <2> QED
      BY <2>2, <2>3
  <1>3. \A p \in Nodes : p \in K
    <2> HIDE DEF K
    <2> QED
      BY <1>2, FromBelow
  <1>4. Root \in T /\ Root.at = <<>> /\ Root.first = 0 /\ Root.count = Count
    BY DEF TreeOk, Root
  <1>5. Ok(Root)
    <2> HIDE DEF Ok
    <2> QED
      BY <1>3, <1>4, NoPath
  <1>6. Count \in Nat /\ 0 + Count = Count
    BY DEF CodesOk
  <1> QED
    BY <1>4, <1>5, <1>6

LEMMA NodeIs ==
    ASSUME CodesOk, TreeOk(tree), NEW n \in tree
    PROVE  Node(n.at) = n
  <1>1. \A m \in tree : m.at = n.at => m = n
    BY PathsDiffer
  <1> QED
    BY <1>1 DEF Node

(* A node of the last level has no children.                                 *)
LEMMA InnersAreInner ==
    ASSUME CodesOk, TreeOk(tree), NEW p \in Nodes, ~Childless(p)
    PROVE  p \in Inners /\ \E c \in tree : c.at = Append(p, 0)
  <1>1. PICK c \in tree : c.at = Append(p, 0)
    BY DEF Childless
  <1>2. c.at \in Nodes
    BY DEF TreeOk, Good
  <1>3. Len(p) # Depth
    <2>1. 0 \in Octants /\ p \in Seq(Octants)
      BY NodeFacts DEF Octants
    <2>2. Len(c.at) = Len(p) + 1
      BY <1>1, <2>1, LenProperties
    <2>3. Len(p) \in 0..Depth /\ Len(c.at) \in 0..Depth /\ Depth \in Nat
      BY <1>2, NodeFacts, DivisionAssumption
    <2> QED
      BY <2>2, <2>3
  <1> QED
    BY <1>1, <1>3 DEF Inners

(* enumerate_leaves.                                                         *)
Paths == {n.at : n \in tree}
OfPath == [p \in Nodes |-> Node(p)]
LEMMA LeavesFacts ==
    ASSUME CodesOk, TreeOk(tree)
    PROVE  Leaves \in Seq(Paths) /\ Tiles(Leaves, OfPath, 0, Count)
  <1> DEFINE Inner == {p \in Nodes : ~Childless(p)}
             base == [p \in Nodes |-> IF Node(p).count = 0 THEN <<>> ELSE <<p>>]
             Is(f) == f = [p \in Nodes |->
                            IF ~Childless(p) THEN Flatten8([o \in Octants |-> f[Append(p, o)]])
                            ELSE IF Node(p).count = 0 THEN <<>> ELSE <<p>>]
             under == CHOOSE f : Is(f)
  <1>1. /\ Inner \in SUBSET Inners
        /\ \A n \in tree : n.at \in Inner => \E c \in tree : c.at = Append(n.at, 0)
    BY InnersAreInner
  <1>2. base \in [Nodes -> Seq(Nodes)]
    OBVIOUS
  <1>3. ASSUME NEW f PROVE Walk(f, Inner, base) <=> Is(f)
    <2> DEFINE W(p) == IF p \in Inner THEN Flatten8([o \in Octants |-> f[Append(p, o)]])
                       ELSE base[p]
               I(p) == IF ~Childless(p) THEN Flatten8([o \in Octants |-> f[Append(p, o)]])
                       ELSE IF Node(p).count = 0 THEN <<>> ELSE <<p>>
    <2>1. ASSUME NEW p \in Nodes PROVE W(p) = I(p)
      <3> DEFINE F == Flatten8([o \in Octants |-> f[Append(p, o)]])
      <3> HIDE DEF F
      <3>1. (IF p \in Inner THEN F ELSE base[p])
            = IF ~Childless(p) THEN F ELSE IF Node(p).count = 0 THEN <<>> ELSE <<p>>
        OBVIOUS
      <3> QED
        BY <3>1 DEF F
    <2>2. [p \in Nodes |-> W(p)] = [p \in Nodes |-> I(p)]
      <3> HIDE DEF W, I
      <3> QED
        BY <2>1
    <2> QED
      BY <2>2, Zenon DEF Walk
  <1>4. \E f : Is(f)
    <2> HIDE DEF Inner, base, Is
    <2> QED
      BY <1>1, <1>2, <1>3, WalkExists
  <1>5. Is(under)
    <2> HIDE DEF Is
    <2> QED
      BY <1>4, Zenon
  <1>6. Leaves = under[<<>>]
    BY Zenon DEF Leaves, under, Is
  <1>7. ASSUME NEW n \in tree, n.at \notin Inner
        PROVE  /\ base[n.at] \in Seq(Paths)
               /\ Tiles(base[n.at], OfPath, n.first, n.first + n.count)
    <2>1. n.at \in Nodes /\ n.first \in Nat /\ n.count \in Nat
      BY DEF TreeOk, Good
    <2>2. Node(n.at) = n /\ OfPath[n.at] = n
      BY <2>1, NodeIs DEF OfPath
    <2>3. CASE n.count = 0
      <3>1. base[n.at] = <<>> /\ n.first + n.count = n.first
        BY <2>1, <2>2, <2>3
      <3>2. <<>> \in Seq(Paths)
        OBVIOUS
      <3>3. Tiles(<<>>, OfPath, n.first, n.first)
        BY <2>1, TilesNone
      <3> QED
        BY <3>1, <3>2, <3>3
    <2>4. CASE n.count # 0
      <3>1. base[n.at] = <<n.at>>
        BY <2>1, <2>2, <2>4
      <3>2. n.at \in Paths
        BY DEF Paths
      <3>3. <<n.at>> \in Seq(Paths)
        BY <3>2
      <3>4. /\ n.first \in Int /\ n.first + n.count \in Int /\ n.first <= n.first + n.count
            /\ n.count = (n.first + n.count) - n.first
        BY <2>1
      <3>5. Tiles(<<n.at>>, OfPath, n.first, n.first + n.count)
        BY <2>2, <3>4, TilesOne
      <3> QED
        BY <3>1, <3>3, <3>5
    <2> QED
      BY <2>3, <2>4
  <1>8. Walk(under, Inner, base)
    BY <1>3, <1>5
  <1> HIDE DEF Inner, base, Is, under
  <1> QED
    BY <1>1, <1>6, <1>7, <1>8, WalkTiles

(* assemble_neighborhood, whatever the acceptance criterion answers.         *)
Cells == [at: Nodes, single: BOOLEAN]
OfCell == [v \in Cells |-> Node(v.at)]
LEMMA NeighborhoodFacts ==
    ASSUME CodesOk, TreeOk(tree), NEW leaf
    PROVE  Neighborhood(leaf) \in Seq(Cells) /\ Tiles(Neighborhood(leaf), OfCell, 0, Count)
  <1> DEFINE Single(p) == p # <<>> /\ Far(leaf, p)
             Inner == {p \in Nodes : ~Single(p) /\ ~Childless(p)}
             base == [p \in Nodes |-> IF Single(p) THEN <<[at |-> p, single |-> TRUE]>>
                                      ELSE <<[at |-> p, single |-> FALSE]>>]
             Is(f) == f = [p \in Nodes |->
                            IF Single(p) THEN <<[at |-> p, single |-> TRUE]>>
                            ELSE IF Childless(p) THEN <<[at |-> p, single |-> FALSE]>>
                            ELSE Flatten8([o \in Octants |-> f[Append(p, o)]])]
             from == CHOOSE f : Is(f)
  <1>6. Neighborhood(leaf) = from[<<>>]
    BY Zenon DEF Neighborhood, from, Is, Single
  <1> HIDE DEF Single
  <1>1. /\ Inner \in SUBSET Inners
        /\ \A n \in tree : n.at \in Inner => \E c \in tree : c.at = Append(n.at, 0)
    BY InnersAreInner
  <1>2. base \in [Nodes -> Seq(Cells)]
    <2>1. ASSUME NEW p \in Nodes, NEW z \in BOOLEAN
          PROVE  <<[at |-> p, single |-> z]>> \in Seq(Cells)
      <3>1. [at |-> p, single |-> z] \in Cells
        BY DEF Cells
      <3> QED
        BY <3>1
    <2>2. TRUE \in BOOLEAN /\ FALSE \in BOOLEAN
      OBVIOUS
    <2> HIDE DEF Cells
    <2>3. ASSUME NEW p \in Nodes
          PROVE  /\ <<[at |-> p, single |-> TRUE]>> \in Seq(Cells)
                 /\ <<[at |-> p, single |-> FALSE]>> \in Seq(Cells)
      BY <2>1, <2>2
    <2> QED
      BY <2>3
  <1>3. ASSUME NEW f PROVE Walk(f, Inner, base) <=> Is(f)
    <2> DEFINE W(p) == IF p \in Inner THEN Flatten8([o \in Octants |-> f[Append(p, o)]])
                       ELSE base[p]
               I(p) == IF Single(p) THEN <<[at |-> p, single |-> TRUE]>>
                       ELSE IF Childless(p) THEN <<[at |-> p, single |-> FALSE]>>
                       ELSE Flatten8([o \in Octants |-> f[Append(p, o)]])
    <2>1. ASSUME NEW p \in Nodes PROVE W(p) = I(p)
      <3> DEFINE F == Flatten8([o \in Octants |-> f[Append(p, o)]])
      <3> HIDE DEF F
      <3>1. (IF p \in Inner THEN F ELSE base[p])
            = IF Single(p) THEN <<[at |-> p, single |-> TRUE]>>
              ELSE IF Childless(p) THEN <<[at |-> p, single |-> FALSE]>> ELSE F
        BY Zenon
      <3> QED
        BY <3>1 DEF F
    <2>2. [p \in Nodes |-> W(p)] = [p \in Nodes |-> I(p)]
      <3> HIDE DEF W, I
      <3> QED
        BY <2>1
    <2> QED
      BY <2>2, Zenon DEF Walk
  <1>4. \E f : Is(f)
    <2> HIDE DEF Inner, base, Is
    <2> QED
      BY <1>1, <1>2, <1>3, WalkExists
  <1>5. Is(from)
    <2> HIDE DEF Is
    <2> QED
      BY <1>4, Zenon
  <1>7. ASSUME NEW n \in tree
        PROVE  /\ base[n.at] \in Seq(Cells)
               /\ Tiles(base[n.at], OfCell, n.first, n.first + n.count)
    <2>1. n.at \in Nodes /\ n.first \in Nat /\ n.count \in Nat
      BY DEF TreeOk, Good
    <2>2. PICK v \in Cells : v.at = n.at /\ base[n.at] = <<v>>
      <3>1. base[n.at] = <<[at |-> n.at, single |-> TRUE]>>
            \/ base[n.at] = <<[at |-> n.at, single |-> FALSE]>>
        BY <2>1
      <3>2. [at |-> n.at, single |-> TRUE] \in Cells /\ [at |-> n.at, single |-> FALSE] \in Cells
        BY <2>1 DEF Cells
      <3> HIDE DEF base
      <3> QED
        BY <3>1, <3>2
    <2>3. OfCell[v] = n
      BY <2>2, NodeIs DEF OfCell
    <2>4. /\ n.first \in Int /\ n.first + n.count \in Int /\ n.first <= n.first + n.count
          /\ n.count = (n.first + n.count) - n.first
      BY <2>1
    <2>5. Tiles(<<v>>, OfCell, n.first, n.first + n.count)
      BY <2>3, <2>4, TilesOne
    <2>6. <<v>> \in Seq(Cells)
      OBVIOUS
    <2> HIDE DEF base
    <2> QED
      BY <2>2, <2>5, <2>6
  <1>8. Walk(from, Inner, base)
    BY <1>3, <1>5
  <1> HIDE DEF Inner, base, Is, from
  <1>9. from[<<>>] \in Seq(Cells) /\ Tiles(from[<<>>], OfCell, 0, Count)
    BY <1>1, <1>7, <1>8, WalkTiles
  <1> QED
    BY <1>6, <1>9
-------------------------------------------------------------------------------
(* make_tree.                                                                *)

(* make_tree's root with its children.                                       *)
LEMMA TreeBegins == ASSUME CodesOk PROVE TreeOk({Root} \cup Split(Root))
  <1>1. Good(Root) /\ Len(Root.at) # Depth
    <2>1. Len(Root.at) = 0
      BY NoPath DEF Root
    <2> QED
      BY <2>1, RootIsGood, DivisionAssumption
  <1>2. \A n \in Split(Root) : Good(n)
    BY <1>1, Children
  <1> QED
    BY <1>1, <1>2 DEF TreeOk

(* What hangs on a node of the tree.                                         *)
Hangs(U, c) ==
    /\ c \in U
    /\ \A n \in U : /\ Good(n)
                    /\ n = c \/ \E m \in U : /\ Len(m.at) # Depth
                                             /\ n \in Split(m) /\ Split(m) \subseteq U

(* A tree with what hangs on some of its nodes is a tree.                    *)
LEMMA TreeGrows ==
    ASSUME NEW T, TreeOk(T), NEW C \in SUBSET T, NEW G, \A c \in C : Hangs(G[c], c),
           NEW U, U = T \cup UNION {G[c] : c \in C}
    PROVE  TreeOk(U)
  <1>1. Root \in U
    BY DEF TreeOk
  <1>2. ASSUME NEW n \in U
        PROVE  /\ Good(n)
               /\ n = Root \/ \E m \in U : /\ Len(m.at) # Depth
                                           /\ n \in Split(m) /\ Split(m) \subseteq U
    <2>1. CASE n \in T
      <3>1. \A m \in T : m \in U
        OBVIOUS
      <3>2. \A m : Split(m) \subseteq T => Split(m) \subseteq U
        OBVIOUS
      <3> QED
        BY <2>1, <3>1, <3>2 DEF TreeOk
    <2>2. CASE n \notin T
      <3>1. PICK c \in C : n \in G[c]
        BY <2>2
      <3>2. Hangs(G[c], c) /\ n # c
        BY <2>2
      <3>3. PICK m \in G[c] : Len(m.at) # Depth /\ n \in Split(m) /\ Split(m) \subseteq G[c]
        BY <3>1, <3>2 DEF Hangs
      <3>4. Good(n)
        BY <3>1, <3>2 DEF Hangs
      <3> QED
        BY <3>3, <3>4
    <2> QED
      BY <2>1, <2>2
  <1> QED
    BY <1>1, <1>2 DEF TreeOk

(* split_tree on a node: what grows on it.                                   *)
LEMMA GrownHangs == ASSUME CodesOk, NEW c, Good(c) PROVE Hangs(Grown(c), c)
  <1> DEFINE GN == {n \in [at: Nodes, first: Nat, count: Nat] : Good(n)}
             S == SUBSET GN
             Grows(X) == {n \in X : n.count >= LeafThreshold /\ Len(n.at) # Depth}
             Under(X) == UNION {Split(node) : node \in Grows(X)}
             g == [n \in Nat |-> [X \in S |-> Under(X)]]
             Is(f) == f = [d \in 0..Depth |->
                            IF d = 0 THEN {c}
                            ELSE UNION {Split(node) : node \in
                                {n \in f[d - 1] : n.count >= LeafThreshold /\ Len(n.at) # Depth}}]
             level == CHOOSE f : Is(f)
  <1>1. \A n : Good(n) <=> n \in GN
    BY DEF Good
  <1>2. ASSUME NEW X \in S PROVE Under(X) \in S
    <2>1. ASSUME NEW n \in Grows(X), NEW x \in Split(n) PROVE x \in GN
      <3>1. Good(n) /\ Len(n.at) # Depth
        BY <1>1
      <3> HIDE DEF GN
      <3> QED
        BY <1>1, <3>1, Children
    <2> HIDE DEF GN, Grows
    <2> QED
      BY <2>1
  <1>3. g \in [Nat -> [S -> S]]
    <2> HIDE DEF S, Under
    <2> QED
      BY <1>2
  <1>4. {c} \in S /\ Depth \in Nat
    BY <1>1, DivisionAssumption
  <1>5. PICK F \in [0..Depth -> S] : RecursUpTo(F, Depth, {c}, g)
    <2> HIDE DEF S, g
    <2> QED
      BY <1>3, <1>4, RecursionUpTo
  <1>6. ASSUME NEW d \in 0..Depth
        PROVE  F[d] = IF d = 0 THEN {c} ELSE Under(F[d - 1])
    <2>1. F[d] = IF d = 0 THEN {c} ELSE g[d - 1][F[d - 1]]
      <3> HIDE DEF g
      <3> QED
        BY <1>5, Zenon DEF RecursUpTo
    <2>2. CASE d = 0
      BY <2>1, <2>2
    <2>3. CASE d # 0
      <3>1. d - 1 \in Nat /\ d - 1 \in 0..Depth
        BY <1>4, <2>3
      <3>2. F[d - 1] \in S
        BY <3>1
      <3> HIDE DEF S, Under
      <3> QED
        BY <2>1, <2>3, <3>1, <3>2
    <2> QED
      BY <2>2, <2>3
  <1>7. Is(F)
    <2> HIDE DEF S, Under
    <2>1. F = [d \in 0..Depth |-> IF d = 0 THEN {c} ELSE Under(F[d - 1])]
      BY <1>6
    <2> QED
      BY <2>1, Zenon DEF Under
  <1>8. Is(level)
    <2> HIDE DEF Is
    <2> QED
      BY <1>7, Zenon
  <1>9. Grown(c) = UNION {level[d] : d \in 0..Depth}
    BY Zenon DEF Grown, level, Is
  <1> HIDE DEF level
  <1>10. ASSUME NEW d \in 0..Depth
         PROVE  level[d] = IF d = 0 THEN {c} ELSE Under(level[d - 1])
    <2>1. level = [e \in 0..Depth |-> IF e = 0 THEN {c} ELSE Under(level[e - 1])]
      BY <1>8, Zenon
    <2> HIDE DEF Under, Is
    <2> QED
      BY <2>1
  <1> HIDE DEF Is, Under
  <1>11. \A d \in Nat : d <= Depth => level[d] \in S
    <2> DEFINE K == {d \in Nat : d <= Depth => level[d] \in S}
    <2> HIDE DEF S
    <2>1. 0 \in K
      <3>1. 0 \in 0..Depth
        BY <1>4
      <3>2. level[0] = {c}
        BY <1>10, <3>1
      <3> QED
        BY <1>4, <3>2
    <2>2. ASSUME NEW d \in Nat, d \in K PROVE d + 1 \in K
      <3> SUFFICES ASSUME d + 1 <= Depth PROVE level[d + 1] \in S
        OBVIOUS
      <3>1. d <= Depth /\ d + 1 \in 0..Depth /\ d + 1 # 0 /\ (d + 1) - 1 = d
        BY <1>4
      <3> QED
        BY <1>2, <1>10, <2>2, <3>1
    <2> HIDE DEF K
    <2>3. \A d \in Nat : d \in K
      BY <2>1, <2>2, Induction
    <2> QED
      BY <2>3 DEF K
  <1>12. \A d \in 0..Depth : level[d] \subseteq Grown(c)
    BY <1>9
  <1>13. c \in Grown(c)
    BY <1>4, <1>10, <1>12
  <1>14. ASSUME NEW n \in Grown(c)
         PROVE  /\ Good(n)
                /\ n = c \/ \E m \in Grown(c) : /\ Len(m.at) # Depth
                                                /\ n \in Split(m) /\ Split(m) \subseteq Grown(c)
    <2>1. PICK d \in 0..Depth : n \in level[d]
      BY <1>9
    <2>2. Good(n)
      BY <1>1, <1>11, <2>1
    <2>3. ASSUME d # 0
          PROVE  \E m \in Grown(c) : /\ Len(m.at) # Depth
                                     /\ n \in Split(m) /\ Split(m) \subseteq Grown(c)
      <3>1. d - 1 \in 0..Depth
        BY <1>4, <2>3
      <3>2. n \in Under(level[d - 1])
        BY <1>10, <2>1, <2>3
      <3>3. PICK m \in Grows(level[d - 1]) : n \in Split(m)
        BY <3>2 DEF Under
      <3>4. Split(m) \subseteq level[d]
        <4>1. Split(m) \subseteq Under(level[d - 1])
          BY <3>3 DEF Under
        <4> QED
          BY <1>10, <2>3, <4>1
      <3> QED
        BY <1>12, <3>1, <3>3, <3>4
    <2>4. d = 0 => n = c
      BY <1>10, <2>1
    <2> QED
      BY <2>2, <2>3, <2>4
  <1> QED
    BY <1>13, <1>14 DEF Hangs
-------------------------------------------------------------------------------
(* The invariant of the tree and of what is read from it.                    *)

(* The codes of a sort that has ended.                                       *)
LEMMA CodesAreOk ==
    ASSUME Inv, stage # "codes", \A k \in 1..(Count - 1) : sorts[k - 1].morton <= sorts[k].morton
    PROVE  CodesOk
  <1>1. /\ Count \in Nat \ {0} /\ Index = 0..(Count - 1)
        /\ bodies \in [Index -> Points] /\ bodies \in Datasets
    BY IndexFacts DEF Inv, Shape
  <1>2. ASSUME NEW k \in Index
        PROVE  /\ sorts[k].morton \in Int /\ 0 <= sorts[k].morton
               /\ sorts[k].morton < Weight(Depth)
    <2>1. PICK from \in Bijection(Index, Index) :
             \A e \in Index : sorts[e].morton = Morton(bodies[from[e]], bodies)
      BY DEF Inv, Rearranged
    <2>2. from[k] \in Index
      BY <2>1 DEF Bijection, Injection
    <2>3. bodies[from[k]] \in Points
      BY <1>1, <2>2
    <2>4. sorts[k].morton = Morton(bodies[from[k]], bodies)
      BY <2>1
    <2>5. /\ Morton(bodies[from[k]], bodies) \in Int /\ 0 <= Morton(bodies[from[k]], bodies)
          /\ Morton(bodies[from[k]], bodies) < Weight(Depth)
      BY <1>1, <2>3, MortonFacts
    <2> QED
      BY <2>4, <2>5
  <1>3. ASSUME NEW j \in Index, NEW k \in Index, j <= k
        PROVE  sorts[j].morton <= sorts[k].morton
    <2> DEFINE K == {d \in Nat : j + d \in Index => sorts[j].morton <= sorts[j + d].morton}
    <2>1. 0 \in K
      <3>1. j + 0 = j /\ sorts[j].morton <= sorts[j].morton
        BY <1>1, <1>2
      <3> QED
        BY <3>1
    <2>2. ASSUME NEW d \in Nat, d \in K PROVE d + 1 \in K
      <3> SUFFICES ASSUME j + (d + 1) \in Index
                   PROVE  sorts[j].morton <= sorts[j + (d + 1)].morton
        OBVIOUS
      <3>1. PICK e \in 1..(Count - 1) : e = j + (d + 1) /\ e - 1 = j + d /\ e - 1 \in Index
                                        /\ e \in Index
        BY <1>1
      <3>2. /\ sorts[j].morton <= sorts[e - 1].morton
            /\ sorts[e - 1].morton <= sorts[e].morton
        BY <2>2, <3>1
      <3>3. sorts[j].morton \in Int /\ sorts[e - 1].morton \in Int /\ sorts[e].morton \in Int
        BY <1>2, <3>1
      <3>4. sorts[j].morton <= sorts[e].morton
        BY <3>2, <3>3
      <3> QED
        BY <3>1, <3>4
    <2> HIDE DEF K
    <2>3. \A d \in Nat : d \in K
      BY <2>1, <2>2, Induction
    <2>4. k - j \in Nat /\ j + (k - j) = k
      BY <1>1, <1>3
    <2>5. k - j \in K
      BY <2>3, <2>4
    <2> QED
      BY <2>4, <2>5 DEF K
  <1> QED
    BY <1>1, <1>2, <1>3 DEF CodesOk

LEMMA SortedCodes == ASSUME Inv, Sorted PROVE CodesOk
  BY CodesAreOk DEF Inv, Sorted, CodesAscend

(* The tree stands on the codes and the number of bodies.                    *)
LEMMA SplitStays == ASSUME sorts' = sorts, NEW n PROVE Split(n)' = Split(n)
  BY DEF Split, Border
LEMMA TreeStays ==
    ASSUME bodies' = bodies, sorts' = sorts, NEW T, TreeOk(T), tree' = T
    PROVE  TreeOk(tree)'
  <1>1. Count' = Count /\ Root' = Root
    BY DEF Count, Root
  <1>2. \A n : Good(n)' <=> Good(n)
    BY <1>1 DEF Good, Body
  <1>3. \A n : Split(n)' = Split(n)
    BY SplitStays
  <1> QED
    BY <1>1, <1>2, <1>3 DEF TreeOk

TreeStands == Sorted => TreeOk(tree)

(* The neighbourhoods so far, and the leaves that have theirs.               *)
Tiled == \A p \in DOMAIN neighbors : /\ neighbors[p] \in Seq(Cells)
                                     /\ Tiles(neighbors[p], OfCell, 0, Count)
Per == CeilDiv(Len(Leaves), ThreadCnt)
Dealt == stage = "assemble" =>
    /\ done \in [Threads -> Nat]
    /\ DOMAIN neighbors \subseteq ToSet(Leaves)
    /\ \A t \in Threads : \A i \in 0..(done[t] - 1) :
          t * Per + i + 1 \in DOMAIN Leaves => Leaves[t * Per + i + 1] \in DOMAIN neighbors
Assembled ==
    /\ stage \in {"codes", "sort", "split"} => DOMAIN neighbors = {}
    /\ Tiled /\ Dealt /\ AllAssembled

TreeInv == Inv /\ TreeStands /\ Assembled
-------------------------------------------------------------------------------
LEMMA InitTreeInv == Init => TreeInv
  <1> SUFFICES ASSUME Init PROVE TreeInv
    OBVIOUS
  <1>1. stage = "codes" /\ DOMAIN neighbors = {}
    BY DEF Init
  <1> QED
    BY <1>1, InitInv DEF TreeInv, TreeStands, Assembled, Tiled, Dealt, AllAssembled, Sorted

(* What is read from the tree.                                               *)
LEMMA ReadingsStay ==
    ASSUME bodies' = bodies, tree' = tree
    PROVE  Leaves' = Leaves /\ Per' = Per /\ Count' = Count /\ OfCell' = OfCell
  <1>1. Leaves' = Leaves
    BY DEF Leaves, Childless, Node
  <1>2. OfCell' = OfCell
    BY DEF OfCell, Node
  <1>3. Count' = Count
    BY DEF Count
  <1> QED
    BY <1>1, <1>2, <1>3 DEF Per

(* Nothing moves: what has been assembled stays.                             *)
LEMMA AssembledStays ==
    ASSUME Assembled, UNCHANGED <<bodies, tree, neighbors>>,
           stage' = stage, done' = done
    PROVE  Assembled'
  <1>1. Leaves' = Leaves /\ Count' = Count /\ OfCell' = OfCell
    BY ReadingsStay
  <1>2. Per' = Per
    BY ReadingsStay
  <1>3. Tiled'
    BY <1>1 DEF Assembled, Tiled
  <1>4. Dealt'
    BY <1>1, <1>2 DEF Assembled, Dealt
  <1>5. AllAssembled'
    BY <1>1 DEF Assembled, AllAssembled
  <1> QED
    BY <1>3, <1>4, <1>5 DEF Assembled

(* A step of the codes or of the sort.                                       *)
LEMMA SortingKeepsTree ==
    ASSUME TreeInv, Inv', UNCHANGED <<tree, neighbors, bodies>>,
           stage \in {"codes", "sort"}, stage' \in {"codes", "sort"}
    PROVE  TreeInv'
  <1>1. DOMAIN neighbors = {} /\ neighbors' = neighbors
    BY DEF TreeInv, Assembled
  <1>2. Assembled'
    BY <1>1 DEF Assembled, Tiled, Dealt, AllAssembled
  <1>3. TreeStands'
    BY DEF TreeStands, Sorted
  <1> QED
    BY <1>2, <1>3 DEF TreeInv

LEMMA TreeStandsStill ==
    ASSUME TreeStands, UNCHANGED <<bodies, sorts, tree>>, Sorted
    PROVE  TreeOk(tree)'
  <1>1. PICK T : T = tree
    OBVIOUS
  <1>2. TreeOk(T)
    BY <1>1 DEF TreeStands, TreeOk
  <1> QED
    BY <1>1, <1>2, TreeStays

LEMMA MakeRootTree == ASSUME TreeInv, MakeRoot PROVE TreeInv'
  <1>1. /\ Inv /\ Inv' /\ stage = "sort" /\ stage' = "split" /\ UNCHANGED <<sorts, neighbors>>
        /\ bodies' = [k \in Index |-> sorts[k].bod]
        /\ tree' = {Root} \cup Split(Root)
    BY MakeRootInv DEF TreeInv, MakeRoot, Root
  <1>2. bodies' = bodies
    <2>1. \A k \in Index : sorts[k].bod = bodies[k]
      BY <1>1 DEF Inv, Rearranged
    <2>2. bodies = [k \in Index |-> bodies[k]]
      BY <1>1, IndexFacts DEF Inv
    <2> QED
      BY <1>1, <2>1, <2>2
  <1>3. Index' = Index /\ Count' = Count
    BY <1>2 DEF Index, Count
  <1>4. CodesOk
    <2>1. \A k \in 1..(Count - 1) : sorts[k - 1].morton <= sorts[k].morton
      BY <1>1, <1>3 DEF Inv, CodesAscend, Sorted
    <2> QED
      BY <1>1, <2>1, CodesAreOk
  <1>5. PICK T : T = {Root} \cup Split(Root)
    OBVIOUS
  <1>6. TreeOk(T)
    BY <1>4, <1>5, TreeBegins
  <1>7. TreeOk(tree)'
    BY <1>1, <1>2, <1>5, <1>6, TreeStays
  <1>8. DOMAIN neighbors' = {}
    BY <1>1 DEF TreeInv, Assembled
  <1> QED
    BY <1>1, <1>7, <1>8 DEF TreeInv, TreeStands, Assembled, Tiled, Dealt, AllAssembled

LEMMA SplitThreadTree == ASSUME TreeInv, NEW o \in Octants, SplitThread(o) PROVE TreeInv'
  <1> DEFINE C == {n \in tree : n.at = <<o>>}
             G == [c \in C |-> Grown(c)]
  <1>1. /\ Inv /\ stage = "split" /\ stage' = "split"
        /\ UNCHANGED <<bodies, sorts, range, calls, neighbors>>
        /\ tree' = tree \cup UNION {Grown(c) : c \in C}
    BY DEF TreeInv, SplitThread
  <1>2. Sorted /\ CodesOk /\ TreeOk(tree)
    BY <1>1, SortedCodes DEF TreeInv, TreeStands, Sorted
  <1>3. Inv'
    BY <1>1, Still DEF Sorted
  <1>4. \A c \in C : Hangs(G[c], c)
    <2>1. \A c \in C : Good(c)
      BY <1>2 DEF TreeOk
    <2> QED
      BY <1>2, <2>1, GrownHangs
  <1>5. C \in SUBSET tree /\ UNION {Grown(c) : c \in C} = UNION {G[c] : c \in C}
    OBVIOUS
  <1> HIDE DEF C, G
  <1>6. PICK T : T = tree \cup UNION {G[c] : c \in C}
    OBVIOUS
  <1>7. TreeOk(T)
    BY <1>2, <1>4, <1>5, <1>6, TreeGrows
  <1>8. TreeOk(tree)'
    BY <1>1, <1>5, <1>6, <1>7, TreeStays
  <1>9. DOMAIN neighbors' = {}
    BY <1>1 DEF TreeInv, Assembled
  <1> QED
    BY <1>1, <1>3, <1>8, <1>9 DEF TreeInv, TreeStands, Assembled, Tiled, Dealt, AllAssembled

LEMMA SplitJoinedTree == ASSUME TreeInv, SplitJoined PROVE TreeInv'
  <1>1. /\ Inv /\ stage = "split" /\ stage' = "assemble"
        /\ UNCHANGED <<bodies, sorts, range, calls, tree, neighbors>>
        /\ done' = [t \in Threads |-> 0] /\ Sorted
    BY DEF TreeInv, SplitJoined, Sorted
  <1>2. Inv'
    BY <1>1, Still DEF Sorted
  <1>3. TreeOk(tree)'
    BY <1>1, TreeStandsStill DEF TreeInv
  <1>4. DOMAIN neighbors' = {}
    BY <1>1 DEF TreeInv, Assembled
  <1>5. Tiled' /\ AllAssembled'
    BY <1>1, <1>4 DEF Tiled, AllAssembled
  <1>6. Dealt'
    BY <1>1, <1>4 DEF Dealt
  <1> QED
    BY <1>1, <1>2, <1>3, <1>5, <1>6 DEF TreeInv, TreeStands, Assembled

LEMMA AssembleThreadTree ==
    ASSUME TreeInv, NEW t \in Threads, AssembleThread(t) PROVE TreeInv'
  <1> DEFINE k == t * Per + done[t] + 1
  <1>1. /\ Inv /\ stage = "assemble" /\ stage' = "assemble" /\ Sorted
        /\ UNCHANGED <<bodies, sorts, range, calls, tree>>
        /\ k <= Len(Leaves)
        /\ neighbors' = [p \in DOMAIN neighbors \cup {Leaves[k]} |->
                            IF p = Leaves[k] THEN Neighborhood(p) ELSE neighbors[p]]
        /\ done' = [done EXCEPT ![t] = @ + 1]
    BY DEF TreeInv, AssembleThread, Per, Sorted
  <1>2. Inv'
    BY <1>1, Still DEF Sorted
  <1>3. TreeOk(tree)'
    BY <1>1, TreeStandsStill DEF TreeInv
  <1>4. CodesOk /\ TreeOk(tree)
    BY <1>1, SortedCodes DEF TreeInv, TreeStands
  <1>5. Leaves' = Leaves /\ Count' = Count /\ OfCell' = OfCell
    BY <1>1, ReadingsStay
  <1>6. Per' = Per
    BY <1>1, ReadingsStay
  <1>7. done \in [Threads -> Nat]
    BY <1>1 DEF TreeInv, Assembled, Dealt
  <1>8. Leaves \in Seq(Paths) /\ Len(Leaves) \in Nat /\ DOMAIN Leaves = 1..Len(Leaves)
    BY <1>4, LeavesFacts, LenProperties
  <1>9. k \in DOMAIN Leaves
    <2>1. Per \in Int /\ t \in Nat /\ Per >= 0
      <3>1. PICK n \in Nat, c \in Nat \ {0} : n = Len(Leaves) /\ c = ThreadCnt
        BY <1>8, DivisionAssumption
      <3>2. n + c - 1 \in Nat
        BY <3>1
      <3>3. (n + c - 1) \div c \in Nat
        BY <3>1, <3>2
      <3> QED
        BY <3>1, <3>3 DEF Per, CeilDiv, Threads
    <2>2. PICK m \in Nat : m = t * Per
      <3>1. t * Per \in Nat
        BY <2>1
      <3> QED
        BY <3>1
    <2>3. done[t] \in Nat
      BY <1>7
    <2> QED
      BY <1>1, <1>8, <2>2, <2>3
  <1> HIDE DEF k
  <1>10. DOMAIN neighbors' = DOMAIN neighbors \cup {Leaves[k]}
    BY <1>1
  <1>11. Tiled'
    <2>1. ASSUME NEW p \in DOMAIN neighbors \cup {Leaves[k]}
          PROVE  neighbors'[p] \in Seq(Cells) /\ Tiles(neighbors'[p], OfCell, 0, Count)
      <3>1. CASE p = Leaves[k]
        <4>1. neighbors'[p] = Neighborhood(p)
          BY <1>1, <3>1
        <4> QED
          BY <1>4, <4>1, NeighborhoodFacts
      <3>2. CASE p # Leaves[k]
        <4>1. neighbors'[p] = neighbors[p] /\ p \in DOMAIN neighbors
          BY <1>1, <3>2
        <4> QED
          BY <4>1 DEF TreeInv, Assembled, Tiled
      <3> QED
        BY <3>1, <3>2
    <2> QED
      BY <1>5, <1>10, <2>1 DEF Tiled
  <1>12. Dealt'
    <2>1. done' \in [Threads -> Nat]
      BY <1>1, <1>7
    <2>2. DOMAIN neighbors' \subseteq ToSet(Leaves)
      BY <1>1, <1>9, <1>10 DEF TreeInv, Assembled, Dealt, ToSet
    <2>3. ASSUME NEW u \in Threads, NEW i \in 0..(done'[u] - 1),
                 u * Per + i + 1 \in DOMAIN Leaves
          PROVE  Leaves[u * Per + i + 1] \in DOMAIN neighbors'
      <3>1. CASE u = t /\ i = done[t]
        BY <1>10, <3>1 DEF k
      <3>2. CASE ~(u = t /\ i = done[t])
        <4>1. i \in 0..(done[u] - 1)
          BY <1>1, <1>7, <3>2
        <4> QED
          BY <1>1, <1>10, <2>3, <4>1 DEF TreeInv, Assembled, Dealt
      <3> QED
        BY <3>1, <3>2
    <2> QED
      BY <1>5, <1>6, <2>1, <2>2, <2>3 DEF Dealt
  <1>13. AllAssembled'
    BY <1>1 DEF AllAssembled
  <1> QED
    BY <1>1, <1>2, <1>3, <1>11, <1>12, <1>13 DEF TreeInv, TreeStands, Assembled

LEMMA AssembleJoinedTree == ASSUME TreeInv, AssembleJoined PROVE TreeInv'
  <1>1. /\ Inv /\ stage = "assemble" /\ stage' = "divided" /\ Sorted
        /\ UNCHANGED <<bodies, sorts, range, calls, tree, neighbors>>
        /\ \A t \in Threads : done[t] = Per \/ t * Per + done[t] >= Len(Leaves)
    BY DEF TreeInv, AssembleJoined, Per, Sorted
  <1>2. Inv'
    BY <1>1, Still DEF Sorted
  <1>3. TreeOk(tree)'
    BY <1>1, TreeStandsStill DEF TreeInv
  <1>4. CodesOk /\ TreeOk(tree)
    BY <1>1, SortedCodes DEF TreeInv, TreeStands
  <1>5. Leaves' = Leaves /\ Count' = Count /\ OfCell' = OfCell
    BY <1>1, ReadingsStay
  <1>6. Leaves \in Seq(Paths) /\ Len(Leaves) \in Nat /\ DOMAIN Leaves = 1..Len(Leaves)
    BY <1>4, LeavesFacts, LenProperties
  <1>7. ASSUME NEW j \in DOMAIN Leaves PROVE Leaves[j] \in DOMAIN neighbors
    <2>1. PICK n \in Nat \ {0}, d \in Nat \ {0} : n = Len(Leaves) /\ d = ThreadCnt
      <3>1. Len(Leaves) \in Nat \ {0}
        BY <1>6
      <3> QED
        BY <3>1, DivisionAssumption
    <2>2. j - 1 \in 0..(n - 1)
      BY <1>6, <2>1
    <2>3. Per = CeilDiv(n, d) /\ Threads = 0..(d - 1)
      BY <2>1 DEF Per, Threads
    <2>4. /\ Per \in Nat \ {0}
          /\ \E t \in 0..(d - 1) : \E i \in 0..(Per - 1) : j - 1 = t * Per + i
      <3>1. /\ CeilDiv(n, d) \in Nat \ {0}
            /\ \E t \in 0..(d - 1) : \E i \in 0..(CeilDiv(n, d) - 1) :
                  j - 1 = t * CeilDiv(n, d) + i
        BY <2>2, SliceOf, SMTT(30)
      <3> QED
        BY <2>3, <3>1
    <2>5. PICK t \in Threads, i \in 0..(Per - 1) : j - 1 = t * Per + i
      BY <2>3, <2>4
    <2>6. done[t] \in Nat
      BY <1>1 DEF TreeInv, Assembled, Dealt
    <2>7. PICK m \in Nat : m = t * Per
      <3>1. t \in Nat /\ Per \in Nat
        BY <2>3, <2>4
      <3>2. t * Per \in Nat
        BY <3>1
      <3> QED
        BY <3>2
    <2>8. i \in 0..(done[t] - 1)
      <3>1. PICK e \in Nat, r \in Nat \ {0} : e = done[t] /\ r = Per
        BY <2>4, <2>6
      <3>2. e = r \/ m + e >= n
        BY <1>1, <2>1, <2>7, <3>1
      <3>3. j - 1 = m + i /\ j <= n /\ i \in 0..(r - 1) /\ j \in Nat
        BY <1>6, <2>1, <2>5, <2>7, <3>1
      <3>4. i < e
        BY <3>2, <3>3
      <3> QED
        BY <3>1, <3>3, <3>4
    <2>9. t * Per + i + 1 = j
      BY <1>6, <2>4, <2>5, <2>7
    <2> QED
      BY <1>1, <2>8, <2>9 DEF TreeInv, Assembled, Dealt
  <1>8. AllAssembled'
    <2>1. DOMAIN neighbors \subseteq ToSet(Leaves)
      BY <1>1 DEF TreeInv, Assembled, Dealt
    <2>2. ToSet(Leaves) \subseteq DOMAIN neighbors
      BY <1>7 DEF ToSet
    <2> QED
      BY <1>1, <1>5, <2>1, <2>2 DEF AllAssembled
  <1>9. Tiled'
    BY <1>1, <1>5 DEF TreeInv, Assembled, Tiled
  <1>10. Dealt'
    BY <1>1 DEF Dealt
  <1> QED
    BY <1>1, <1>2, <1>3, <1>8, <1>9, <1>10 DEF TreeInv, TreeStands, Assembled

LEMMA IdleTree ==
    ASSUME TreeInv, UNCHANGED <<bodies, sorts, done, range, calls, tree, neighbors, stage>>
    PROVE  TreeInv'
  <1>1. Inv'
    BY Still DEF TreeInv
  <1>2. Assembled'
    BY AssembledStays DEF TreeInv
  <1>3. TreeStands'
    <2>1. Sorted' <=> Sorted
      BY DEF Sorted
    <2>2. ASSUME Sorted PROVE TreeOk(tree)'
      BY <2>2, TreeStandsStill DEF TreeInv
    <2> QED
      BY <2>1, <2>2 DEF TreeStands
  <1> QED
    BY <1>1, <1>2, <1>3 DEF TreeInv

LEMMA NextTreeInv == TreeInv /\ [Next]_vars => TreeInv'
  <1> SUFFICES ASSUME TreeInv, [Next]_vars PROVE TreeInv'
    OBVIOUS
  <1>0. Inv
    BY DEF TreeInv
  <1>1. CASE MortJoined
    BY <1>0, <1>1, MortJoinedInv, SortingKeepsTree DEF MortJoined
  <1>2. CASE PartitionPass
    BY <1>0, <1>2, PartitionPassInv, SortingKeepsTree DEF PartitionPass
  <1>3. CASE PartitionOverrun
    BY <1>3, IdleTree DEF PartitionOverrun
  <1>4. CASE BsortCall
    BY <1>0, <1>4, BsortCallInv, SortingKeepsTree DEF BsortCall
  <1>5. CASE MakeRoot
    BY <1>5, MakeRootTree
  <1>6. CASE SplitJoined
    BY <1>6, SplitJoinedTree
  <1>7. CASE AssembleJoined
    BY <1>7, AssembleJoinedTree
  <1>8. ASSUME NEW t \in Threads, MortThread(t) PROVE TreeInv'
    BY <1>0, <1>8, MortThreadInv, SortingKeepsTree DEF MortThread
  <1>9. ASSUME NEW t \in Threads, AssembleThread(t) PROVE TreeInv'
    BY <1>9, AssembleThreadTree
  <1>10. ASSUME NEW t \in Threads, AssembleOverrun(t) PROVE TreeInv'
    BY <1>10, IdleTree DEF AssembleOverrun
  <1>11. ASSUME NEW o \in Octants, SplitThread(o) PROVE TreeInv'
    BY <1>11, SplitThreadTree
  <1>12. CASE UNCHANGED vars
    BY <1>12, IdleTree DEF vars
  <1> QED
    BY <1>1, <1>2, <1>3, <1>4, <1>5, <1>6, <1>7, <1>8, <1>9, <1>10, <1>11, <1>12 DEF Next
-------------------------------------------------------------------------------
LEMMA InvLeavesTile == TreeInv => LeavesTile
  <1> SUFFICES ASSUME TreeInv, stage = "assemble" PROVE LeavesTile
    BY DEF LeavesTile
  <1>1. Inv /\ CodesOk /\ TreeOk(tree)
    BY SortedCodes DEF TreeInv, TreeStands, Sorted
  <1>2. Leaves \in Seq(Paths) /\ Tiles(Leaves, OfPath, 0, Count)
    BY <1>1, LeavesFacts
  <1>3. Len(Leaves) \in Nat /\ DOMAIN Leaves = 1..Len(Leaves)
    BY <1>2, LenProperties
  <1>4. Index = 0..(Count - 1) /\ Count \in Nat
    BY <1>1 DEF CodesOk
  <1>5. ASSUME NEW j \in DOMAIN Leaves
        PROVE  /\ Node(Leaves[j]) \in tree /\ Good(Node(Leaves[j]))
               /\ OfPath[Leaves[j]] = Node(Leaves[j])
    <2>1. Leaves[j] \in Paths
      BY <1>2, <1>3, ElementOfSeq
    <2>2. PICK n \in tree : n.at = Leaves[j]
      BY <2>1 DEF Paths
    <2>3. Good(n) /\ n.at \in Nodes
      BY <1>1 DEF TreeOk, Good
    <2>4. Node(n.at) = n
      BY <1>1, NodeIs
    <2> QED
      BY <2>2, <2>3, <2>4 DEF OfPath
  <1>6. ASSUME NEW k \in Index
        PROVE  \E j \in DOMAIN Leaves : LET n == Node(Leaves[j]) IN
                  /\ n.first <= k /\ k < n.first + n.count
                  /\ \A d \in 1..Len(n.at) : Digit(sorts[k].morton, d - 1) = n.at[d]
    <2>1. PICK j \in 1..Len(Leaves) : Covers(OfPath, Leaves[j], k)
      <3>1. k \in Int /\ 0 <= k /\ k < Count /\ 0 \in Int /\ Count \in Int
        BY <1>4
      <3> QED
        BY <1>2, <3>1, TilesCover
    <2>2. PICK n : n = Node(Leaves[j])
      OBVIOUS
    <2>3. /\ Good(n) /\ n.first <= k /\ k < n.first + n.count
      BY <1>3, <1>5, <2>1, <2>2 DEF Covers
    <2>4. n.first \in Nat /\ n.count \in Nat
      BY <2>3 DEF Good
    <2>5. PICK i \in 0..(n.count - 1) : n.first + i = k
      <3>1. k - n.first \in 0..(n.count - 1) /\ n.first + (k - n.first) = k
        BY <1>4, <2>3, <2>4
      <3> QED
        BY <3>1
    <2>6. \A d \in 1..Len(n.at) : Digit(sorts[k].morton, d - 1) = n.at[d]
      BY <2>3, <2>5 DEF Good, Body
    <2> QED
      BY <1>3, <2>2, <2>3, <2>6
  <1>7. ASSUME NEW j \in 2..Len(Leaves)
        PROVE  LET n == Node(Leaves[j - 1]) IN Node(Leaves[j]).first = n.first + n.count
    <2>1. j \in DOMAIN Leaves /\ j - 1 \in DOMAIN Leaves
      BY <1>3
    <2>2. OfPath[Leaves[j]].first = OfPath[Leaves[j - 1]].first + OfPath[Leaves[j - 1]].count
      BY <1>2, <1>3, TilesMeet
    <2> QED
      BY <1>5, <2>1, <2>2
  <1> QED
    BY <1>6, <1>7 DEF LeavesTile

LEMMA InvNeighborhoodCovers == TreeInv => NeighborhoodCovers
  <1> SUFFICES ASSUME TreeInv, NEW p \in DOMAIN neighbors, NEW k \in Index
               PROVE  Cardinality({j \in DOMAIN neighbors[p] :
                          LET n == Node(neighbors[p][j].at) IN
                          n.first <= k /\ k < n.first + n.count}) = 1
    BY DEF NeighborhoodCovers
  <1>1. Index = 0..(Count - 1) /\ Count \in Nat
    BY IndexFacts DEF TreeInv, Inv
  <1>2. PICK s : s = neighbors[p]
    OBVIOUS
  <1>3. s \in Seq(Cells) /\ Tiles(s, OfCell, 0, Count)
    BY <1>2 DEF TreeInv, Assembled, Tiled
  <1>4. DOMAIN s = 1..Len(s) /\ \A j \in 1..Len(s) : s[j] \in Cells
    BY <1>3, LenProperties, ElementOfSeq
  <1>5. PICK j \in 1..Len(s) : /\ Covers(OfCell, s[j], k)
                               /\ \A i \in 1..Len(s) : Covers(OfCell, s[i], k) => i = j
    <2>1. k \in Int /\ 0 <= k /\ k < Count /\ 0 \in Int /\ Count \in Int
      BY <1>1
    <2> QED
      BY <1>3, <2>1, TilesCover
  <1>6. \A i \in 1..Len(s) : OfCell[s[i]] = Node(s[i].at)
    BY <1>4 DEF OfCell
  <1> DEFINE J == {i \in DOMAIN s : LET n == Node(s[i].at) IN
                                    n.first <= k /\ k < n.first + n.count}
  <1>7. J = {j}
    BY <1>4, <1>5, <1>6 DEF Covers
  <1>8. Cardinality({j}) = 1
    BY FS_Singleton
  <1> QED
    BY <1>2, <1>7, <1>8

LEMMA InvAllAssembled == TreeInv => AllAssembled
  BY DEF TreeInv, Assembled

(* The inductive invariant of the tree, the leaves and the neighbourhoods.   *)
THEOREM TreeInvHolds == Spec => []TreeInv
  <1>1. Init => TreeInv
    BY InitTreeInv
  <1>2. TreeInv /\ [Next]_vars => TreeInv'
    BY NextTreeInv
  <1> QED
    BY <1>1, <1>2, PTL DEF Spec

(* From the ascending codes split, search by search, cuts the bodies into    *)
(* leaves that follow one another, without a gap, and each has the bodies of *)
(* its octants only (binary_border_search, split, enumerate_leaves).         *)
THEOREM LeavesTileTheBodies == Spec => []LeavesTile
  <1>1. TreeInv => LeavesTile
    BY InvLeavesTile
  <1> QED
    BY <1>1, TreeInvHolds, PTL

(* Whatever the acceptance criterion answers, each neighbourhood has every   *)
(* body once, in a leaf or in a cell taken as one particle                   *)
(* (assemble_neighborhood).                                                  *)
THEOREM NeighborhoodsCoverTheBodies == Spec => []NeighborhoodCovers
  <1>1. TreeInv => NeighborhoodCovers
    BY InvNeighborhoodCovers
  <1> QED
    BY <1>1, TreeInvHolds, PTL

(* Whatever the number of threads, their slices leave no leaf out            *)
(* (mt_assemble_neighborhoods, assemble_thread).                             *)
THEOREM EveryLeafIsAssembled == Spec => []AllAssembled
  <1>1. TreeInv => AllAssembled
    BY InvAllAssembled
  <1> QED
    BY <1>1, TreeInvHolds, PTL
===============================================================================
