---------------------------- MODULE SequenceLemmas ----------------------------
(***************************************************************************)
(* Facts about data that several proofs need: induction over the natural    *)
(* numbers for a set instead of a predicate (the provers cannot instantiate *)
(* the library's theorems with a predicate as a parameter), the existence   *)
(* of functions defined by recursion or as a loop, and what FlattenSeq       *)
(* makes of a sequence of sequences.                                        *)
(***************************************************************************)
EXTENDS Integers, Sequences, SequencesExt, SequenceTheorems, WellFoundedInduction, TLAPS

(* A set of numbers that is not empty has a least member.                   *)
LEMMA LeastNumber ==
    ASSUME NEW T \in SUBSET Nat, T # {}
    PROVE  \E x \in T : \A y \in T : x <= y
  <1>1. IsWellFoundedOn(OpToRel(<, Nat), Nat)
    BY NatLessThanWellFounded, Zenon
  <1>2. PICK x \in T : \A y \in T : ~(<<y, x>> \in OpToRel(<, Nat))
    BY <1>1, WFMin, Zenon
  <1>3. \A y \in T : ~(y < x)
    BY <1>2 DEF OpToRel
  <1> QED
    BY <1>3

(* A set with 0, and with the successor of each number in it, has them all. *)
LEMMA Induction ==
    ASSUME NEW T, 0 \in T, \A n \in Nat : n \in T => n + 1 \in T
    PROVE  \A n \in Nat : n \in T
  <1> SUFFICES ASSUME Nat \ T # {} PROVE FALSE
    OBVIOUS
  <1>1. PICK x \in Nat \ T : \A y \in Nat \ T : x <= y
    BY LeastNumber
  <1>2. x # 0 /\ x - 1 \in Nat
    BY <1>1
  <1>3. x - 1 \in T
    BY <1>1, <1>2
  <1> QED
    BY <1>1, <1>2, <1>3

(* A recursive definition over the natural numbers defines a function.  The *)
(* functions that obey it up to n exist for each n, and agree.              *)
Recurs(f, x0, g) == f[0] = x0 /\ \A n \in Nat : f[n + 1] = g[n][f[n]]

LEMMA Recursion ==
    ASSUME NEW S, NEW x0 \in S, NEW g \in [Nat -> [S -> S]]
    PROVE  \E f \in [Nat -> S] : Recurs(f, x0, g)
  <1> DEFINE Upto(n, f) == f[0] = x0 /\ \A i \in 0..(n - 1) : f[i + 1] = g[i][f[i]]
             Some(n) == \E f \in [0..n -> S] : Upto(n, f)
             Has == {n \in Nat : Some(n)}
             Same(n) == \A j, k \in Nat : \A f \in [0..j -> S], h \in [0..k -> S] :
                        Upto(j, f) /\ Upto(k, h) /\ n <= j /\ n <= k => f[n] = h[n]
             Agreed == {n \in Nat : Same(n)}
  <1>1. Some(0)
    <2>1. [i \in 0..0 |-> x0] \in [0..0 -> S] /\ Upto(0, [i \in 0..0 |-> x0])
      OBVIOUS
    <2> QED
      BY <2>1
  <1>2. ASSUME NEW n \in Nat, Some(n) PROVE Some(n + 1)
    <2>1. PICK f \in [0..n -> S] : Upto(n, f)
      BY <1>2
    <2> DEFINE y == g[n][f[n]]
               h == [i \in 0..(n + 1) |-> IF i = n + 1 THEN y ELSE f[i]]
    <2>2. y \in S
      <3>1. f[n] \in S
        OBVIOUS
      <3>2. g[n] \in [S -> S]
        OBVIOUS
      <3> QED
        BY <3>1, <3>2
    <2>3. h \in [0..(n + 1) -> S]
      <3> HIDE DEF y, Some
      <3> QED
        BY <2>2
    <2>4. h[0] = x0
      BY <2>1
    <2>5. ASSUME NEW i \in 0..n PROVE h[i + 1] = g[i][h[i]]
      <3>1. h[i] = f[i]
        OBVIOUS
      <3>2. CASE i = n
        BY <3>1, <3>2
      <3>3. CASE i # n
        <4>1. f[i + 1] = g[i][f[i]] /\ h[i + 1] = f[i + 1]
          <5>1. i \in 0..(n - 1) /\ i + 1 \in 0..(n + 1) /\ i + 1 # n + 1
            BY <3>3
          <5> QED
            BY <2>1, <5>1
        <4> QED
          BY <3>1, <4>1
      <3> QED
        BY <3>2, <3>3
    <2>6. n + 1 - 1 = n
      OBVIOUS
    <2>7. Upto(n + 1, h)
      <3> HIDE DEF h
      <3> QED
        BY <2>4, <2>5, <2>6
    <2> QED
      BY <2>3, <2>7
  <1>3. \A n \in Nat : Some(n)
    <2>1. 0 \in Has /\ \A n \in Nat : n \in Has => n + 1 \in Has
      <3> HIDE DEF Some
      <3> QED
        BY <1>1, <1>2
    <2> HIDE DEF Has
    <2>2. \A n \in Nat : n \in Has
      BY <2>1, Induction
    <2> HIDE DEF Some
    <2> QED
      BY <2>2 DEF Has
  <1>4. Same(0)
    OBVIOUS
  <1>5. ASSUME NEW n \in Nat, Same(n) PROVE Same(n + 1)
    <2> SUFFICES ASSUME NEW j \in Nat, NEW k \in Nat,
                        NEW f \in [0..j -> S], NEW h \in [0..k -> S],
                        Upto(j, f), Upto(k, h), n + 1 <= j, n + 1 <= k
                 PROVE  f[n + 1] = h[n + 1]
      BY ZenonT(40)
    <2>1. f[n] = h[n]
      <3>1. n <= j /\ n <= k
        OBVIOUS
      <3> HIDE DEF Upto
      <3> QED
        BY <1>5, <3>1
    <2>2. f[n + 1] = g[n][f[n]]
      <3>1. n \in 0..(j - 1)
        OBVIOUS
      <3> QED
        BY <3>1, Zenon
    <2>3. h[n + 1] = g[n][h[n]]
      <3>1. n \in 0..(k - 1)
        OBVIOUS
      <3> QED
        BY <3>1, Zenon
    <2> QED
      BY <2>1, <2>2, <2>3
  <1>6. \A n \in Nat : Same(n)
    <2>1. 0 \in Agreed /\ \A n \in Nat : n \in Agreed => n + 1 \in Agreed
      <3> HIDE DEF Same
      <3> QED
        BY <1>4, <1>5
    <2> HIDE DEF Agreed
    <2>2. \A n \in Nat : n \in Agreed
      BY <2>1, Induction
    <2> HIDE DEF Same
    <2> QED
      BY <2>2 DEF Agreed
  <1> DEFINE at == [n \in Nat |-> CHOOSE f \in [0..n -> S] : Upto(n, f)]
             F  == [n \in Nat |-> at[n][n]]
  <1> HIDE DEF Some, Same, Has, Agreed
  <1>7. ASSUME NEW n \in Nat PROVE at[n] \in [0..n -> S] /\ Upto(n, at[n])
    <2>1. \E f \in [0..n -> S] : Upto(n, f)
      BY <1>3 DEF Some
    <2> HIDE DEF Upto
    <2> QED
      BY <2>1
  <1> HIDE DEF at
  <1>8. F \in [Nat -> S]
    <2> SUFFICES ASSUME NEW n \in Nat PROVE at[n][n] \in S
      OBVIOUS
    <2>1. n \in 0..n
      OBVIOUS
    <2> QED
      BY <1>7, <2>1
  <1>9. F[0] = x0
    <2>1. at[0][0] = x0
      BY <1>7, 0 \in Nat, Zenon
    <2> QED
      BY <2>1
  <1>10. ASSUME NEW k \in Nat, NEW n \in Nat, n < k
         PROVE  at[k][n + 1] = g[n][at[k][n]]
    <2>1. n \in 0..(k - 1)
      BY <1>10
    <2> QED
      BY <1>7, <2>1, Zenon
  <1>11. ASSUME NEW n \in Nat PROVE F[n + 1] = g[n][F[n]]
    <2>1. /\ at[n + 1] \in [0..(n + 1) -> S] /\ Upto(n + 1, at[n + 1])
          /\ at[n] \in [0..n -> S] /\ Upto(n, at[n])
      <3>1. n + 1 \in Nat
        OBVIOUS
      <3> HIDE DEF Upto
      <3> QED
        BY <1>7, <3>1
    <2>2. at[n + 1][n] = at[n][n]
      <3>1. n \in Nat /\ n <= n + 1 /\ n + 1 \in Nat /\ n <= n
        OBVIOUS
      <3>2. Same(n)
        BY <1>6
      <3> HIDE DEF Upto
      <3> QED
        BY <2>1, <3>1, <3>2 DEF Same
    <2>3. at[n + 1][n + 1] = g[n][at[n + 1][n]]
      <3>1. n + 1 \in Nat /\ n < n + 1
        OBVIOUS
      <3> QED
        BY <1>10, <3>1
    <2>4. F[n + 1] = at[n + 1][n + 1] /\ F[n] = at[n][n]
      OBVIOUS
    <2> QED
      BY <2>2, <2>3, <2>4
  <1>12. Recurs(F, x0, g)
    BY <1>9, <1>11 DEF Recurs
  <1> QED
    BY <1>8, <1>12

(* The same up to a bound.                                                  *)
RecursUpTo(f, N, x0, g) == \A n \in 0..N : f[n] = IF n = 0 THEN x0 ELSE g[n - 1][f[n - 1]]

LEMMA RecursionUpTo ==
    ASSUME NEW S, NEW N \in Nat, NEW x0 \in S, NEW g \in [Nat -> [S -> S]]
    PROVE  \E F \in [0..N -> S] : RecursUpTo(F, N, x0, g)
  <1>1. PICK f \in [Nat -> S] : Recurs(f, x0, g)
    BY Recursion
  <1> DEFINE F == [n \in 0..N |-> f[n]]
  <1>2. F \in [0..N -> S]
    OBVIOUS
  <1>3. ASSUME NEW n \in 0..N PROVE F[n] = IF n = 0 THEN x0 ELSE g[n - 1][F[n - 1]]
    <2>1. CASE n = 0
      BY <1>1, <2>1 DEF Recurs
    <2>2. CASE n # 0
      <3>1. n - 1 \in Nat /\ n - 1 \in 0..N /\ (n - 1) + 1 = n
        BY <2>2
      <3>2. f[(n - 1) + 1] = g[n - 1][f[n - 1]]
        BY <1>1, <3>1 DEF Recurs
      <3> QED
        BY <2>2, <3>1, <3>2
    <2> QED
      BY <2>1, <2>2
  <1> HIDE DEF F
  <1>4. RecursUpTo(F, N, x0, g)
    BY <1>3 DEF RecursUpTo
  <1> QED
    BY <1>2, <1>4

(* A loop that moves from one state to the next until it is done, and then   *)
(* has a value, defines a function of the state it starts from, also where   *)
(* it does not end: the relation that the loop generates leads from a state  *)
(* to the same values as from the next one.                                  *)
Loops(f, A, Done, v, next) == f = [a \in A |-> IF a \in Done THEN v[a] ELSE f[next[a]]]
Member(s) == CHOOSE y : y \in s

LEMMA TailRecursion ==
    ASSUME NEW A, NEW V, NEW Done \in SUBSET A, NEW v \in [A -> V], NEW next \in [A -> A]
    PROVE  \E f : Loops(f, A, Done, v, next)
  <1> DEFINE P == A \X V
             Closed(R) == /\ \A a \in Done : <<a, v[a]>> \in R
                          /\ \A a \in A, y \in V :
                                a \notin Done /\ <<next[a], y>> \in R => <<a, y>> \in R
             L == {z \in P : \A R \in SUBSET P : Closed(R) => z \in R}
             Val(a) == {y \in V : <<a, y>> \in L}
             f == [a \in A |-> Member(Val(a))]
  <1>1. L \subseteq P /\ \A R \in SUBSET P : Closed(R) => L \subseteq R
    OBVIOUS
  <1>2. Closed(L)
    <2>1. ASSUME NEW a \in Done PROVE <<a, v[a]>> \in L
      OBVIOUS
    <2>2. ASSUME NEW a \in A, NEW y \in V, a \notin Done, <<next[a], y>> \in L
          PROVE  <<a, y>> \in L
      BY <2>2
    <2> HIDE DEF L
    <2> QED
      BY <2>1, <2>2
  <1> HIDE DEF L
  <1>3. ASSUME NEW a \in Done, NEW y \in V, <<a, y>> \in L PROVE y = v[a]
    <2> SUFFICES ASSUME y # v[a] PROVE FALSE
      OBVIOUS
    <2> DEFINE R == L \ {<<a, y>>}
    <2>1. Closed(R)
      BY <1>2
    <2>2. R \in SUBSET P
      BY <1>1
    <2> HIDE DEF Closed
    <2> QED
      BY <1>1, <1>3, <2>1, <2>2
  <1>4. ASSUME NEW a \in A, a \notin Done, NEW y \in V, <<a, y>> \in L
        PROVE  <<next[a], y>> \in L
    <2> SUFFICES ASSUME <<next[a], y>> \notin L PROVE FALSE
      OBVIOUS
    <2> DEFINE R == L \ {<<a, y>>}
    <2>1. Closed(R)
      BY <1>2, <1>4
    <2>2. R \in SUBSET P
      BY <1>1
    <2> HIDE DEF Closed
    <2> QED
      BY <1>1, <1>4, <2>1, <2>2
  <1>5. ASSUME NEW a \in Done PROVE Member(Val(a)) = v[a]
    <2>1. Val(a) = {v[a]}
      BY <1>2, <1>3
    <2> QED
      BY <2>1 DEF Member
  <1>6. ASSUME NEW a \in A, a \notin Done PROVE Val(a) = Val(next[a])
    BY <1>2, <1>4, <1>6
  <1> HIDE DEF Val, L, Closed
  <1>7. \A a \in A : f[a] = IF a \in Done THEN v[a] ELSE f[next[a]]
    BY <1>5, <1>6
  <1>8. f = [a \in A |-> f[a]]
    OBVIOUS
  <1> HIDE DEF f
  <1> QED
    BY <1>7, <1>8 DEF Loops
-------------------------------------------------------------------------------
LEMMA Associative ==
    \A S : \A s, t, u \in Seq(S) : s \o (t \o u) = (s \o t) \o u
  <1> TAKE S
  <1> TAKE s, t, u \in Seq(S)
  <1> QED
    BY ConcatAssociative, SMTT(40)

(* The first k parts of a sequence of sequences, one after the other.       *)
IsPrefixes(f, ss) ==
    /\ f[0] = <<>>
    /\ \A k \in 0..(Len(ss) - 1) : f[k + 1] = f[k] \o ss[k + 1]

LEMMA PrefixesExist ==
    ASSUME NEW S, NEW ss \in Seq(Seq(S))
    PROVE  \E f \in [Nat -> Seq(S)] : IsPrefixes(f, ss)
  <1> DEFINE g == [k \in Nat |-> [s \in Seq(S) |->
                        IF k \in 0..(Len(ss) - 1) THEN s \o ss[k + 1] ELSE s]]
  <1>0. Len(ss) \in Nat
    BY LenProperties
  <1>1. ASSUME NEW k \in 0..(Len(ss) - 1) PROVE ss[k + 1] \in Seq(S)
    <2>1. k + 1 \in 1..Len(ss)
      BY <1>0
    <2> QED
      BY <2>1, ElementOfSeq
  <1>2. g \in [Nat -> [Seq(S) -> Seq(S)]]
    <2> SUFFICES ASSUME NEW k \in Nat, NEW s \in Seq(S),  k \in 0..(Len(ss) - 1)
                 PROVE  s \o ss[k + 1] \in Seq(S)
      BY Zenon
    <2> QED
      BY <1>1, ConcatProperties
  <1>3. <<>> \in Seq(S)
    BY EmptySeq
  <1>4. PICK f \in [Nat -> Seq(S)] : Recurs(f, <<>>, g)
    <2> HIDE DEF g
    <2> QED
      BY <1>2, <1>3, Recursion
  <1>5. ASSUME NEW k \in 0..(Len(ss) - 1) PROVE f[k + 1] = f[k] \o ss[k + 1]
    <2>1. k \in Nat
      OBVIOUS
    <2>2. f[k] \in Seq(S)
      BY <2>1
    <2>3. g[k][f[k]] = f[k] \o ss[k + 1]
      BY <2>1, <2>2
    <2> HIDE DEF g
    <2> QED
      BY <1>4, <2>1, <2>3 DEF Recurs
  <1>6. f[0] = <<>>
    BY <1>4 DEF Recurs
  <1> QED
    BY <1>5, <1>6 DEF IsPrefixes

(* FlattenSeq gives the last of the prefixes.                               *)
LEMMA FlattenIsPrefix ==
    ASSUME NEW S, NEW ss \in Seq(Seq(S)),
           NEW f \in [Nat -> Seq(S)], IsPrefixes(f, ss)
    PROVE  FlattenSeq(ss) = f[Len(ss)]
  <1>0. Len(ss) \in Nat
    BY LenProperties
  <1>1. CASE Len(ss) = 0
    <2>1. ss = <<>>
      BY <1>1, EmptySeq
    <2> QED
      BY <1>1, <2>1 DEF FlattenSeq, IsPrefixes
  <1>2. CASE Len(ss) # 0
    <2> DEFINE Is(h) == h = [i \in 1..Len(ss) |-> IF i = 1 THEN ss[i] ELSE h[i - 1] \o ss[i]]
               flat == [i \in 1..Len(ss) |-> f[i]]
               h == CHOOSE h : Is(h)
    <2>1. FlattenSeq(ss) = h[Len(ss)]
      BY <1>2 DEF FlattenSeq
    <2>2. f[1] = ss[1]
      <3>1. 0 \in 0..(Len(ss) - 1) /\ 1 \in 1..Len(ss)
        BY <1>0, <1>2
      <3>2. f[0 + 1] = f[0] \o ss[0 + 1] /\ f[0] = <<>>
        BY <3>1, Zenon DEF IsPrefixes
      <3>3. ss[1] \in Seq(S)
        BY <3>1, ElementOfSeq
      <3> QED
        BY <3>2, <3>3, ConcatEmptySeq
    <2>3. ASSUME NEW i \in 1..Len(ss), i # 1 PROVE f[i] = f[i - 1] \o ss[i]
      <3>1. i - 1 \in 0..(Len(ss) - 1) /\ (i - 1) + 1 = i
        BY <1>0, <2>3
      <3> QED
        BY <3>1 DEF IsPrefixes
    <2>4. Is(flat)
      <3>1. ASSUME NEW i \in 1..Len(ss)
            PROVE  f[i] = IF i = 1 THEN ss[i] ELSE flat[i - 1] \o ss[i]
        <4>1. CASE i = 1
          BY <2>2, <4>1
        <4>2. CASE i # 1
          <5>1. i - 1 \in 1..Len(ss)
            BY <1>0, <4>2
          <5>2. flat[i - 1] = f[i - 1]
            BY <5>1
          <5> QED
            BY <2>3, <4>2, <5>2
        <4> QED
          BY <4>1, <4>2
      <3> QED
        BY <3>1, Zenon
    <2>5. Is(h)
      <3> HIDE DEF Is
      <3> QED
        BY <2>4
    <2> HIDE DEF h
    <2> DEFINE T == {n \in Nat : n + 1 <= Len(ss) => h[n + 1] = f[n + 1]}
    <2>6. 0 \in T
      <3> SUFFICES ASSUME 1 <= Len(ss) PROVE h[1] = f[1]
        OBVIOUS
      <3>1. 1 \in 1..Len(ss)
        BY <1>0
      <3>2. h[1] = ss[1]
        BY <2>5, <3>1
      <3> QED
        BY <2>2, <3>2
    <2>7. ASSUME NEW n \in Nat, n \in T PROVE n + 1 \in T
      <3> SUFFICES ASSUME n + 2 <= Len(ss) PROVE h[n + 2] = f[n + 2]
        BY n + 1 + 1 = n + 2
      <3>0. \A m \in Nat : n + 2 <= m =>
                n + 2 \in 1..m /\ n + 2 # 1 /\ (n + 2) - 1 = n + 1 /\ n + 1 <= m
        OBVIOUS
      <3>1. n + 2 \in 1..Len(ss) /\ n + 2 # 1 /\ (n + 2) - 1 = n + 1 /\ n + 1 <= Len(ss)
        BY <1>0, <3>0, Zenon
      <3>2. h[n + 2] = h[(n + 2) - 1] \o ss[n + 2]
        BY <2>5, <3>1, Zenon
      <3>3. h[n + 1] = f[n + 1]
        BY <2>7, <3>1
      <3>4. f[n + 2] = f[(n + 2) - 1] \o ss[n + 2]
        BY <2>3, <3>1
      <3> QED
        BY <3>1, <3>2, <3>3, <3>4
    <2>8. \A n \in Nat : n \in T
      <3> HIDE DEF T
      <3> QED
        BY <2>6, <2>7, Induction
    <2>9. Len(ss) - 1 \in Nat
      BY <1>0, <1>2
    <2>10. h[Len(ss)] = f[Len(ss)]
      <3>0. \A n \in Nat : (n - 1) + 1 = n /\ n <= n
        OBVIOUS
      <3>1. (Len(ss) - 1) + 1 = Len(ss) /\ Len(ss) <= Len(ss)
        BY <1>0, <3>0, Zenon
      <3> HIDE DEF Is
      <3>2. Len(ss) - 1 \in T
        BY <2>8, <2>9
      <3> QED
        BY <3>1, <3>2
    <2> QED
      BY <2>1, <2>10
  <1> QED
    BY <1>1, <1>2

LEMMA FlattenEmpty == FlattenSeq(<<>>) = <<>>
  BY DEF FlattenSeq

(* A part added at the end is added to the whole.                           *)
LEMMA FlattenAppend ==
    ASSUME NEW S, NEW ss \in Seq(Seq(S)), NEW s \in Seq(S)
    PROVE  /\ FlattenSeq(ss) \in Seq(S)
           /\ FlattenSeq(Append(ss, s)) = FlattenSeq(ss) \o s
  <1> DEFINE tt == Append(ss, s)
  <1>1. /\ tt \in Seq(Seq(S)) /\ Len(tt) = Len(ss) + 1 /\ Len(ss) \in Nat
        /\ \A i \in 1..Len(ss) : tt[i] = ss[i]
        /\ tt[Len(ss) + 1] = s
    BY AppendProperties, LenProperties
  <1> HIDE DEF tt
  <1>2. PICK f \in [Nat -> Seq(S)] : IsPrefixes(f, tt)
    BY <1>1, PrefixesExist
  <1>3. IsPrefixes(f, ss)
    <2> SUFFICES ASSUME NEW k \in 0..(Len(ss) - 1) PROVE f[k + 1] = f[k] \o ss[k + 1]
      BY <1>2 DEF IsPrefixes
    <2>1. k \in 0..(Len(tt) - 1) /\ k + 1 \in 1..Len(ss)
      BY <1>1
    <2> QED
      BY <1>1, <1>2, <2>1 DEF IsPrefixes
  <1>4. FlattenSeq(ss) = f[Len(ss)] /\ FlattenSeq(tt) = f[Len(ss) + 1]
    BY <1>1, <1>2, <1>3, FlattenIsPrefix
  <1>5. f[Len(ss) + 1] = f[Len(ss)] \o tt[Len(ss) + 1]
    <2>1. Len(ss) \in 0..(Len(tt) - 1)
      BY <1>1
    <2> QED
      BY <1>2, <2>1 DEF IsPrefixes
  <1> QED
    BY <1>1, <1>4, <1>5 DEF tt

(* A part added in front is added to the whole.                             *)
IsCons(ss, s, tt) ==
    Len(ss) = Len(tt) + 1 /\ ss[1] = s /\ \A i \in 1..Len(tt) : tt[i] = ss[i + 1]

LEMMA FlattenCons ==
    ASSUME NEW S, NEW s \in Seq(S), NEW tt \in Seq(Seq(S)), NEW ss \in Seq(Seq(S)),
           IsCons(ss, s, tt)
    PROVE  FlattenSeq(ss) = s \o FlattenSeq(tt)
  <1>1. /\ Len(tt) \in Nat /\ Len(ss) \in Nat /\ Len(ss) = Len(tt) + 1 /\ ss[1] = s
        /\ \A i \in 1..Len(tt) : tt[i] = ss[i + 1]
    BY LenProperties DEF IsCons
  <1>a. ASSUME NEW x \in Seq(S), NEW y \in Seq(S)
        PROVE  s \o (x \o y) = (s \o x) \o y
    <2>1. x \in Seq(S) /\ y \in Seq(S)
      BY <1>a
    <2> QED
      BY <2>1, ConcatAssociative, SMTT(30)
  <1>2. PICK f \in [Nat -> Seq(S)] : IsPrefixes(f, tt)
    BY <1>1, PrefixesExist
  <1> DEFINE cat == [n \in Nat |-> s \o f[n]]
             e   == <<>>
             h   == [n \in Nat |-> IF n = 0 THEN e ELSE cat[n - 1]]
  <1>c. \A n \in Nat : cat[n] = s \o f[n] /\ s \o f[n] \in Seq(S)
    BY ConcatProperties
  <1>e. e \in Seq(S)
    BY EmptySeq
  <1> HIDE DEF cat, e
  <1>3. h \in [Nat -> Seq(S)]
    <2> SUFFICES ASSUME NEW n \in Nat, n # 0 PROVE cat[n - 1] \in Seq(S)
      BY <1>e
    <2>1. n - 1 \in Nat
      OBVIOUS
    <2> QED
      BY <1>c, <2>1
  <1>h. h[0] = <<>> /\ \A n \in Nat : h[n + 1] = s \o f[n]
    <2>0. h[0] = <<>>
      BY DEF e
    <2>1. ASSUME NEW n \in Nat PROVE h[n + 1] = cat[n]
      <3>1. n + 1 \in Nat /\ n + 1 # 0 /\ n + 1 - 1 = n
        OBVIOUS
      <3> QED
        BY <3>1
    <2> HIDE DEF h
    <2> QED
      BY <1>c, <2>0, <2>1
  <1> HIDE DEF h
  <1>4. IsPrefixes(h, ss)
    <2>1. ASSUME NEW k \in 0..(Len(ss) - 1) PROVE h[k + 1] = h[k] \o ss[k + 1]
      <3>1. k \in Nat
        BY <1>1
      <3>2. h[k + 1] = s \o f[k]
        BY <1>h, <3>1
      <3>3. CASE k = 0
        <4>1. f[0] = <<>>
          BY <1>2 DEF IsPrefixes
        <4>2. h[0 + 1] = s \o <<>> /\ s \o <<>> = s
          BY <1>1, <3>2, <3>3, <4>1, ConcatEmptySeq, Zenon
        <4>3. h[0] \o ss[0 + 1] = s
          <5>1. h[0] = <<>> /\ ss[0 + 1] = s
            BY <1>1, <1>h
          <5>2. <<>> \o s = s
            BY <1>1, ConcatEmptySeq, Zenon
          <5> QED
            BY <5>1, <5>2
        <4> QED
          BY <3>3, <4>2, <4>3
      <3>4. CASE k # 0
        <4>1. k - 1 \in 0..(Len(tt) - 1) /\ k - 1 + 1 = k /\ k \in 1..Len(tt) /\ k - 1 \in Nat
          BY <1>1, <3>4
        <4>2. f[k] = f[k - 1] \o tt[k]
          BY <1>2, <4>1 DEF IsPrefixes
        <4>3. tt[k] = ss[k + 1] /\ tt[k] \in Seq(S)
          BY <1>1, <4>1, ElementOfSeq
        <4>4. h[k] = s \o f[k - 1] /\ f[k - 1] \in Seq(S)
          <5>1. h[(k - 1) + 1] = s \o f[k - 1]
            BY <1>h, <4>1
          <5> QED
            BY <4>1, <5>1
        <4>5. s \o (f[k - 1] \o tt[k]) = (s \o f[k - 1]) \o tt[k]
          <5>1. \A x, y \in Seq(S) : s \o (x \o y) = (s \o x) \o y
            BY <1>a
          <5>2. f[k - 1] \in Seq(S) /\ tt[k] \in Seq(S)
            BY <4>3, <4>4
          <5> QED
            BY <5>1, <5>2, Zenon
        <4> QED
          BY <3>2, <4>2, <4>3, <4>4, <4>5
      <3> QED
        BY <3>3, <3>4
    <2> QED
      BY <1>h, <2>1 DEF IsPrefixes
  <1>5. FlattenSeq(ss) = h[Len(ss)]
    BY <1>3, <1>4, FlattenIsPrefix
  <1>6. FlattenSeq(tt) = f[Len(tt)]
    BY <1>1, <1>2, FlattenIsPrefix
  <1>7. h[Len(tt) + 1] = s \o f[Len(tt)]
    BY <1>1, <1>h
  <1> QED
    BY <1>1, <1>5, <1>6, <1>7

LEMMA FlattenHeadTail ==
    ASSUME NEW S, NEW ss \in Seq(Seq(S)), ss # <<>>
    PROVE  FlattenSeq(ss) = Head(ss) \o FlattenSeq(Tail(ss))
  <1>1. /\ Tail(ss) \in Seq(Seq(S)) /\ Len(Tail(ss)) = Len(ss) - 1 /\ Len(ss) \in Nat \ {0}
        /\ \A i \in 1..Len(Tail(ss)) : Tail(ss)[i] = ss[i + 1]
        /\ Head(ss) \in Seq(S) /\ Head(ss) = ss[1]
    BY HeadTailProperties, LenProperties, EmptySeq
  <1>2. Len(ss) = Len(Tail(ss)) + 1
    BY <1>1
  <1> QED
    <2>1. IsCons(ss, Head(ss), Tail(ss))
      BY <1>1, <1>2 DEF IsCons
    <2>2. \A s \in Seq(S) : \A tt \in Seq(Seq(S)) :
              IsCons(ss, s, tt) => FlattenSeq(ss) = s \o FlattenSeq(tt)
      BY FlattenCons
    <2> QED
      BY <1>1, <2>1, <2>2, Zenon
-------------------------------------------------------------------------------
(* The elements of two sequences put together.                              *)
LEMMA ConcatParts ==
    ASSUME NEW S, NEW s \in Seq(S), NEW t \in Seq(S), NEW c, c = s \o t,
           NEW p, p = Len(s), NEW l, l = Len(t)
    PROVE  /\ c \in Seq(S) /\ Len(c) = p + l /\ p \in Nat /\ l \in Nat
           /\ \A i \in 1..p : c[i] = s[i]
           /\ \A i \in 1..l : c[p + i] = t[i]
  <1>1. p \in Nat /\ l \in Nat
    BY LenProperties
  <1>2. /\ c \in Seq(S) /\ Len(c) = Len(s) + Len(t)
        /\ \A i \in 1..(Len(s) + Len(t)) : c[i] = IF i <= Len(s) THEN s[i] ELSE t[i - Len(s)]
    BY ConcatProperties
  <1>3. /\ Len(c) = p + l
        /\ \A x : x \in 1..(p + l) /\ x <= p => c[x] = s[x]
        /\ \A x : x \in 1..(p + l) /\ ~(x <= p) => c[x] = t[x - p]
    BY <1>2, Zenon
  <1>4. ASSUME NEW i \in 1..p PROVE c[i] = s[i]
    <2>1. i \in 1..(p + l) /\ i <= p
      BY <1>1
    <2> QED
      BY <1>3, <2>1
  <1>5. ASSUME NEW i \in 1..l PROVE c[p + i] = t[i]
    <2> SUFFICES ASSUME NEW x, x = p + i PROVE c[x] = t[i]
      OBVIOUS
    <2>1. x \in 1..(p + l) /\ ~(x <= p) /\ x - p = i
      BY <1>1
    <2> QED
      BY <1>3, <2>1
  <1> QED
    BY <1>1, <1>2, <1>3, <1>4, <1>5, Zenon

(* Where the parts are in the whole: pos[b] elements come before part b + 1, *)
(* and every element is one of a part.                                      *)
IsPlaced(whole, ss, pos, n) ==
    /\ Len(whole) = pos[n]
    /\ \A b, k : b \in 1..n /\ k \in 1..Len(ss[b]) =>
            pos[b - 1] + k \in 1..pos[n] /\ whole[pos[b - 1] + k] = ss[b][k]
    /\ \A i \in 1..pos[n] : \E b, k :
            b \in 1..n /\ k \in 1..Len(ss[b]) /\ i = pos[b - 1] + k

IsLayout(ss, pos) ==
    pos[0] = 0 /\ \A b \in 1..Len(ss) : pos[b] = pos[b - 1] + Len(ss[b])

LEMMA FlattenLayout ==
    ASSUME NEW S, NEW ss \in Seq(Seq(S))
    PROVE  /\ FlattenSeq(ss) \in Seq(S)
           /\ \E pos \in [Nat -> Nat] :
                 IsLayout(ss, pos) /\ IsPlaced(FlattenSeq(ss), ss, pos, Len(ss))
  <1>0. Len(ss) \in Nat
    BY LenProperties
  <1>1. PICK f \in [Nat -> Seq(S)] : IsPrefixes(f, ss)
    BY PrefixesExist
  <1>2. FlattenSeq(ss) = f[Len(ss)]
    BY <1>1, FlattenIsPrefix
  <1> DEFINE pos == [n \in Nat |-> Len(f[n])]
  <1>3. pos \in [Nat -> Nat] /\ \A n \in Nat : pos[n] = Len(f[n]) /\ f[n] \in Seq(S)
    BY LenProperties
  <1> HIDE DEF pos
  <1>4. ASSUME NEW n \in Nat, n + 1 <= Len(ss)
        PROVE  /\ n + 1 \in 1..Len(ss) /\ ss[n + 1] \in Seq(S) /\ Len(ss[n + 1]) \in Nat
               /\ f[n + 1] = f[n] \o ss[n + 1]
               /\ pos[n + 1] = pos[n] + Len(ss[n + 1])
    <2>1. n + 1 \in 1..Len(ss) /\ n \in 0..(Len(ss) - 1)
      BY <1>0, <1>4
    <2>2. ss[n + 1] \in Seq(S)
      BY <2>1, ElementOfSeq
    <2>3. f[n + 1] = f[n] \o ss[n + 1]
      BY <1>1, <2>1 DEF IsPrefixes
    <2>4. Len(f[n + 1]) = Len(f[n]) + Len(ss[n + 1])
      BY <1>3, <2>2, <2>3, ConcatProperties
    <2>5. Len(ss[n + 1]) \in Nat
      BY <2>2, LenProperties
    <2>6. Len(f[n]) = pos[n] /\ Len(f[n + 1]) = pos[n + 1]
      <3>1. n + 1 \in Nat
        OBVIOUS
      <3> QED
        BY <1>3, <3>1, Zenon
    <2>7. pos[n + 1] = pos[n] + Len(ss[n + 1])
      BY <2>4, <2>6, Zenon
    <2> QED
      BY <2>1, <2>2, <2>3, <2>5, <2>7, Zenon
  <1> DEFINE T == {n \in Nat : n <= Len(ss) => IsPlaced(f[n], ss, pos, n)}
  <1>5. f[0] = <<>> /\ pos[0] = 0
    BY <1>1, <1>3, EmptySeq DEF IsPrefixes
  <1>6. 0 \in T
    <2>1. Len(f[0]) = pos[0]
      BY <1>3
    <2>2. \A p : p \notin 1..0
      OBVIOUS
    <2>3. 0 \in Nat
      OBVIOUS
    <2>4. IsPlaced(f[0], ss, pos, 0)
      BY <1>5, <2>1, <2>2, Zenon DEF IsPlaced
    <2> QED
      BY <2>3, <2>4, Zenon
  <1>7. ASSUME NEW n \in Nat, n \in T PROVE n + 1 \in T
    <2> SUFFICES ASSUME n + 1 <= Len(ss) PROVE IsPlaced(f[n + 1], ss, pos, n + 1)
      OBVIOUS
    <2>1. IsPlaced(f[n], ss, pos, n)
      BY <1>0, <1>7
    <2> DEFINE s == f[n]
               t == ss[n + 1]
               p == pos[n]
               q == pos[n + 1]
               l == Len(ss[n + 1])
    <2>2. /\ s \in Seq(S) /\ t \in Seq(S) /\ f[n + 1] = s \o t
          /\ Len(s) = p /\ Len(t) = l /\ p \in Nat /\ l \in Nat /\ q = p + l
          /\ Len(s \o t) = q
      <3>1. /\ s \in Seq(S) /\ t \in Seq(S) /\ f[n + 1] = s \o t
            /\ l \in Nat /\ q = p + l /\ p \in Nat /\ Len(s) = p
        BY <1>3, <1>4
      <3>2. Len(f[n + 1]) = q
        BY <1>3
      <3>3. Len(s \o t) = q
        BY <3>1, <3>2, Zenon
      <3> HIDE DEF s, t, p, q
      <3> QED
        BY <3>1, <3>3 DEF l, t
    <2>3. /\ \A i \in 1..p : (s \o t)[i] = s[i]
          /\ \A i \in 1..l : (s \o t)[p + i] = t[i]
      <3> HIDE DEF s, t, p, l
      <3>1. s \in Seq(S) /\ t \in Seq(S) /\ p = Len(s) /\ l = Len(t)
        BY <2>2, Zenon
      <3> QED
        BY <3>1, ConcatParts
    <2>4. /\ \A b, k : b \in 1..n /\ k \in 1..Len(ss[b]) =>
                 pos[b - 1] + k \in 1..p /\ s[pos[b - 1] + k] = ss[b][k]
          /\ \A i \in 1..p : \E b, k :
                 b \in 1..n /\ k \in 1..Len(ss[b]) /\ i = pos[b - 1] + k
      BY <2>1 DEF IsPlaced
    <2>5. ASSUME NEW b, NEW k, b \in 1..(n + 1), k \in 1..Len(ss[b])
          PROVE  pos[b - 1] + k \in 1..q /\ (s \o t)[pos[b - 1] + k] = ss[b][k]
      <3>1. CASE b = n + 1
        <4>1. b - 1 = n /\ k \in 1..l
          BY <2>5, <3>1
        <4>2. p + k \in 1..q
          <5> HIDE DEF p, q, l
          <5> QED
            BY <2>2, <4>1
        <4> QED
          BY <2>3, <3>1, <4>1, <4>2
      <3>2. CASE b # n + 1
        <4>1. b \in 1..n
          BY <2>5, <3>2
        <4>2. pos[b - 1] + k \in 1..p /\ s[pos[b - 1] + k] = ss[b][k]
          BY <2>4, <2>5, <4>1, Zenon
        <4>3. \A x \in 1..p : x \in 1..q
          <5> HIDE DEF p, q, l
          <5> QED
            BY <2>2
        <4> QED
          BY <2>3, <4>2, <4>3, Zenon
      <3> QED
        BY <3>1, <3>2
    <2>6. ASSUME NEW i \in 1..q
          PROVE  \E b, k : b \in 1..(n + 1) /\ k \in 1..Len(ss[b]) /\ i = pos[b - 1] + k
      <3>1. CASE i <= p
        <4>1. i \in 1..p
          <5> HIDE DEF p, q, l
          <5> QED
            BY <2>2, <3>1
        <4>2. PICK b, k : b \in 1..n /\ k \in 1..Len(ss[b]) /\ i = pos[b - 1] + k
          BY <2>4, <4>1, Zenon
        <4>3. b \in 1..(n + 1)
          BY <4>2
        <4> QED
          BY <4>2, <4>3, Zenon
      <3>2. CASE ~(i <= p)
        <4>1. i - p \in 1..l /\ i = p + (i - p)
          <5> HIDE DEF p, q, l
          <5> QED
            BY <2>2, <3>2
        <4>2. n + 1 \in 1..(n + 1) /\ (n + 1) - 1 = n
          OBVIOUS
        <4> QED
          BY <4>1, <4>2
      <3> QED
        BY <3>1, <3>2
    <2> HIDE DEF s, t, p, q, l
    <2>7. IsPlaced(s \o t, ss, pos, n + 1)
      <3>1. Len(s \o t) = pos[n + 1]
        BY <2>2 DEF q
      <3> QED
        BY <2>5, <2>6, <3>1, Zenon DEF IsPlaced, q
    <2> QED
      BY <2>2, <2>7, Zenon
  <1>8. \A n \in Nat : n \in T
    <2> HIDE DEF T
    <2> QED
      BY <1>6, <1>7, Induction
  <1>9. IsPlaced(f[Len(ss)], ss, pos, Len(ss))
    <2>1. \A n \in Nat : n <= n
      OBVIOUS
    <2> QED
      BY <1>0, <1>8, <2>1
  <1>10. IsLayout(ss, pos)
    <2> SUFFICES ASSUME NEW b \in 1..Len(ss) PROVE pos[b] = pos[b - 1] + Len(ss[b])
      BY <1>5 DEF IsLayout
    <2>1. b - 1 \in Nat /\ (b - 1) + 1 = b /\ b <= Len(ss)
      BY <1>0
    <2> QED
      BY <1>4, <2>1
  <1> QED
    BY <1>0, <1>2, <1>3, <1>9, <1>10
===============================================================================
