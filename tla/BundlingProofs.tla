---------------------------- MODULE BundlingProofs ----------------------------
(***************************************************************************)
(* The units the worker makes of a bundle are the leaves the dispatcher put *)
(* in it, each with its neighbourhood, for any tree, any hash function, any *)
(* number of leaves and buckets: the three invariants of Bundling.          *)
(*                                                                          *)
(* The inductive invariant says what each form of the bundle holds: the     *)
(* hash table the pairs of a cell and a leaf that were poured into it, the  *)
(* arrays of the bundle the same pairs by cells, the message the arrays, at *)
(* the offsets the worker computes, and the worker's arrays the pairs by    *)
(* leaves.                                                                  *)
(***************************************************************************)
EXTENDS Bundling, SequenceLemmas, FiniteSetTheorems

Buckets == 1..BucketCnt
Entry   == [key : Cells, subkeys : Seq(Nat)]
Tables  == [Buckets -> Seq(Entry)]

(* What the table says is fixed: the tree and the hash function.            *)
TreeOk ==
    /\ neighbors \in [LeafIds -> Seq(Cells)]
    /\ \A i \in LeafIds : IsInjective(neighbors[i])
    /\ empty \in SUBSET Cells
    /\ hash \in [Cells -> Buckets]
    /\ offset \in LeafIds

(* A set of pairs <<cell, leaf>> in a hash table: an entry has its cell's   *)
(* leaves, in the cell's bucket, and no cell has two entries.               *)
EntryOk(b, e, P) ==
    /\ e \in Entry
    /\ e.key \notin empty
    /\ hash[e.key] = b
    /\ e.subkeys # <<>>
    /\ IsInjective(e.subkeys)
    /\ \A u \in Nat : u \in ToSet(e.subkeys) <=> <<e.key, u>> \in P

ChainOk(b, chain, P) ==
    /\ chain \in Seq(Entry)
    /\ \A k \in 1..Len(chain) : EntryOk(b, chain[k], P)
    /\ \A j, k \in 1..Len(chain) : chain[j].key = chain[k].key => j = k
    /\ \A c \in Cells \ empty : \A u \in Nat :
          hash[c] = b /\ <<c, u>> \in P => \E k \in 1..Len(chain) : chain[k].key = c

Holds(table, P) ==
    /\ table \in Tables
    /\ \A b \in Buckets : ChainOk(b, table[b], P)

LEMMA FunctionIsSeq ==
    ASSUME NEW S, NEW n \in Nat, NEW f \in [1..n -> S]
    PROVE  f \in Seq(S) /\ Len(f) = n /\ DOMAIN f = 1..n
  <1>1. f \in Seq(S) /\ DOMAIN f = 1..n
    BY SeqDef
  <1>2. PICK l \in Nat : l = Len(f)
    BY <1>1, LenProperties
  <1>3. 1..l = 1..n
    BY <1>1, <1>2, LenProperties, Zenon
  <1>4. l = n
    BY <1>3
  <1> QED
    BY <1>1, <1>2, <1>4

(* A sequence with one more element in front.                               *)
LEMMA ConsProperties ==
    ASSUME NEW S, NEW u \in S, NEW s \in Seq(S)
    PROVE  /\ <<u>> \o s \in Seq(S) /\ <<u>> \o s # <<>>
           /\ ToSet(<<u>> \o s) = {u} \cup ToSet(s)
           /\ u \notin ToSet(s) /\ IsInjective(s) => IsInjective(<<u>> \o s)
  <1> DEFINE t == <<u>> \o s
             n == Len(s)
  <1>1. /\ <<u>> \in Seq(S) /\ Len(<<u>>) = 1 /\ <<u>>[1] = u
        /\ n \in Nat /\ DOMAIN s = 1..n
    BY LenProperties
  <1>2. /\ t \in Seq(S) /\ Len(t) = n + 1 /\ DOMAIN t = 1..(n + 1)
        /\ \A i \in 1..(n + 1) : t[i] = IF i <= 1 THEN u ELSE s[i - 1]
    <2>1. /\ t \in Seq(S) /\ Len(t) = Len(<<u>>) + n
          /\ \A i \in 1..(Len(<<u>>) + n) :
                t[i] = IF i <= Len(<<u>>) THEN <<u>>[i] ELSE s[i - Len(<<u>>)]
      BY <1>1, ConcatProperties
    <2>2. Len(t) = n + 1 /\ n + 1 = 1 + n
      BY <1>1, <2>1
    <2>3. DOMAIN t = 1..Len(t)
      BY <2>1, LenProperties
    <2>4. ASSUME NEW i \in 1..(n + 1) PROVE t[i] = IF i <= 1 THEN u ELSE s[i - 1]
      <3>1. i <= 1 => i = 1
        OBVIOUS
      <3>2. t[i] = IF i <= 1 THEN <<u>>[i] ELSE s[i - 1]
        BY <1>1, <2>1, <2>2, Zenon
      <3> QED
        BY <1>1, <3>1, <3>2, Zenon
    <2> QED
      BY <2>1, <2>2, <2>3, <2>4, Zenon
  <1> HIDE DEF t, n
  <1>3. t[1] = u /\ \A i \in 1..n : t[i + 1] = s[i] /\ i + 1 \in 1..(n + 1)
    <2>1. 1 \in 1..(n + 1)
      BY <1>1
    <2>2. ASSUME NEW i \in 1..n PROVE i + 1 \in 1..(n + 1) /\ t[i + 1] = s[i]
      <3>1. i + 1 \in 1..(n + 1) /\ ~(i + 1 <= 1) /\ (i + 1) - 1 = i
        BY <1>1
      <3> QED
        BY <1>2, <3>1
    <2> QED
      BY <1>2, <2>1, <2>2
  <1>4. t # <<>>
    BY <1>1, <1>2
  <1>5. ToSet(t) = {u} \cup ToSet(s)
    <2>1. ASSUME NEW x \in ToSet(t) PROVE x \in {u} \cup ToSet(s)
      <3>1. PICK i \in 1..(n + 1) : x = t[i]
        BY <1>2 DEF ToSet
      <3>2. CASE i <= 1
        BY <1>2, <3>1, <3>2
      <3>3. CASE ~(i <= 1)
        <4>1. i - 1 \in 1..n
          BY <1>1, <3>3
        <4> QED
          BY <1>1, <1>2, <3>1, <3>3, <4>1 DEF ToSet
      <3> QED
        BY <3>2, <3>3
    <2>2. ASSUME NEW x \in ToSet(s) PROVE x \in ToSet(t)
      <3>1. PICK i \in 1..n : x = s[i]
        BY <1>1 DEF ToSet
      <3>2. i + 1 \in 1..(n + 1) /\ t[i + 1] = x
        BY <1>3, <3>1
      <3> QED
        BY <1>2, <3>2 DEF ToSet
    <2>3. u \in ToSet(t)
      <3>1. 1 \in 1..(n + 1)
        BY <1>1
      <3> QED
        BY <1>2, <1>3, <3>1 DEF ToSet
    <2> QED
      BY <2>1, <2>2, <2>3
  <1>6. ASSUME u \notin ToSet(s), IsInjective(s) PROVE IsInjective(t)
    <2> SUFFICES ASSUME NEW i \in 1..(n + 1), NEW j \in 1..(n + 1), t[i] = t[j]
                 PROVE  i = j
      BY <1>2 DEF IsInjective
    <2>1. \A k \in 1..(n + 1) : k <= 1 => k = 1 /\ t[k] = u
      BY <1>2
    <2>2. \A k \in 1..(n + 1) : ~(k <= 1) => k - 1 \in 1..n /\ t[k] = s[k - 1] /\ t[k] # u
      <3> SUFFICES ASSUME NEW k \in 1..(n + 1), ~(k <= 1)
                   PROVE  k - 1 \in 1..n /\ t[k] = s[k - 1] /\ t[k] # u
        OBVIOUS
      <3>1. k - 1 \in 1..n
        BY <1>1
      <3>2. t[k] = s[k - 1]
        BY <1>2
      <3> QED
        BY <1>1, <1>6, <3>1, <3>2 DEF ToSet
    <2>3. CASE i <= 1 \/ j <= 1
      BY <2>1, <2>2, <2>3
    <2>4. CASE ~(i <= 1) /\ ~(j <= 1)
      <3>1. /\ i - 1 \in 1..n /\ j - 1 \in 1..n
            /\ t[i] = s[i - 1] /\ t[j] = s[j - 1]
        BY <2>2, <2>4, Zenon
      <3>2. i - 1 = j - 1
        BY <1>1, <1>6, <3>1, Zenon DEF IsInjective
      <3> QED
        BY <1>1, <3>2
    <2> QED
      BY <2>3, <2>4
  <1>7. t \in Seq(S)
    BY <1>2
  <1> QED
    BY <1>4, <1>5, <1>6, <1>7, Zenon DEF t

(* A chain may be replaced in the table.                                    *)
LEMMA ReplaceChain ==
    ASSUME TreeOk, NEW P, NEW Q, NEW D, Holds(D, P), NEW c \in Cells, NEW u \in Nat,
           Q = P \cup {<<c, u>>}, NEW chain, ChainOk(hash[c], chain, Q)
    PROVE  Holds([D EXCEPT ![hash[c]] = chain], Q)
  <1> DEFINE E == [D EXCEPT ![hash[c]] = chain]
  <1>1. D \in Tables /\ hash[c] \in Buckets /\ chain \in Seq(Entry)
    BY DEF Holds, TreeOk, ChainOk
  <1>2. /\ E \in Tables /\ E[hash[c]] = chain
        /\ \A b \in Buckets : b # hash[c] => E[b] = D[b]
    BY <1>1 DEF Tables
  <1>3. ASSUME NEW b \in Buckets, b # hash[c] PROVE ChainOk(b, D[b], Q)
    <2>1. ChainOk(b, D[b], P)
      BY DEF Holds
    <2>2. ASSUME NEW k \in 1..Len(D[b]) PROVE EntryOk(b, D[b][k], Q)
      <3>1. EntryOk(b, D[b][k], P)
        BY <2>1 DEF ChainOk
      <3>2. D[b][k].key # c
        BY <1>3, <3>1 DEF EntryOk
      <3>3. \A v \in Nat : <<D[b][k].key, v>> \in Q <=> <<D[b][k].key, v>> \in P
        BY <3>2
      <3> QED
        BY <3>1, <3>3 DEF EntryOk
    <2>3. ASSUME NEW d \in Cells \ empty, NEW v \in Nat, hash[d] = b, <<d, v>> \in Q
          PROVE  \E k \in 1..Len(D[b]) : D[b][k].key = d
      <3>1. <<d, v>> \in P
        BY <1>3, <2>3
      <3> QED
        BY <2>1, <2>3, <3>1 DEF ChainOk
    <2> QED
      BY <2>1, <2>2, <2>3 DEF ChainOk
  <1> HIDE DEF E
  <1>4. ASSUME NEW b \in Buckets PROVE ChainOk(b, E[b], Q)
    <2>1. CASE b = hash[c]
      BY <1>2, <2>1
    <2>2. CASE b # hash[c]
      BY <1>2, <1>3, <2>2
    <2> QED
      BY <2>1, <2>2
  <1>5. Holds(E, Q)
    BY <1>2, <1>4 DEF Holds
  <1> QED
    BY <1>5 DEF E

(* dict_insert adds one pair.                                               *)
LEMMA InsertHolds ==
    ASSUME TreeOk, NEW P, NEW D, Holds(D, P), NEW c \in Cells, NEW u \in Nat,
           <<c, u>> \notin P
    PROVE  Holds(Insert(D, c, u), P \cup {<<c, u>>})
  <1> DEFINE Q == P \cup {<<c, u>>}
             h == hash[c]
             chain == D[h]
             found == {k \in DOMAIN chain : chain[k].key = c}
             grown == [k \in DOMAIN chain |->
                          IF k \in found
                          THEN [key |-> c, subkeys |-> <<u>> \o chain[k].subkeys]
                          ELSE chain[k]]
             fresh == [key |-> c, subkeys |-> <<u>>]
             longer == Append(chain, fresh)
  <1>1. /\ D \in Tables /\ h \in Buckets /\ ChainOk(h, chain, P)
        /\ chain \in Seq(Entry) /\ Len(chain) \in Nat /\ DOMAIN chain = 1..Len(chain)
    <2>1. D \in Tables /\ h \in Buckets
      BY DEF Holds, TreeOk
    <2>2. ChainOk(h, chain, P)
      BY <2>1 DEF Holds
    <2>3. chain \in Seq(Entry)
      BY <2>2 DEF ChainOk
    <2> QED
      BY <2>1, <2>2, <2>3, LenProperties
  <1>q. Q = P \cup {<<c, u>>}
    OBVIOUS
  <1>2. CASE c \in empty
    <2>1. Insert(D, c, u) = D
      BY <1>2 DEF Insert
    <2>2. ASSUME NEW b \in Buckets PROVE ChainOk(b, D[b], Q)
      <3>1. ChainOk(b, D[b], P)
        BY DEF Holds
      <3>2. ASSUME NEW k \in 1..Len(D[b]) PROVE EntryOk(b, D[b][k], Q)
        <4>1. EntryOk(b, D[b][k], P)
          BY <3>1 DEF ChainOk
        <4>2. \A v \in Nat : <<D[b][k].key, v>> \in Q <=> <<D[b][k].key, v>> \in P
          BY <1>2, <4>1 DEF EntryOk
        <4> QED
          BY <4>1, <4>2 DEF EntryOk
      <3>3. \A d \in Cells \ empty : \A v \in Nat : <<d, v>> \in Q => <<d, v>> \in P
        BY <1>2
      <3> QED
        BY <3>1, <3>2, <3>3 DEF ChainOk
    <2> QED
      BY <1>1, <2>1, <2>2 DEF Holds
  <1>3. CASE c \notin empty /\ found = {}
    <2>1. Insert(D, c, u) = [D EXCEPT ![h] = longer]
      BY <1>3 DEF Insert
    <2>2. \A k \in 1..Len(chain) : chain[k].key # c
      BY <1>1, <1>3
    <2>3. \A v \in Nat : <<c, v>> \notin P
      BY <1>1, <1>3, <2>2 DEF ChainOk
    <2>4. fresh \in Entry /\ fresh.key = c /\ fresh.subkeys = <<u>>
      BY DEF Entry
    <2>5. EntryOk(h, fresh, Q)
      <3>1. ToSet(<<u>>) = {u} /\ IsInjective(<<u>>) /\ <<u>> # <<>>
        BY DEF ToSet, IsInjective
      <3>2. \A v \in Nat : v \in {u} <=> <<c, v>> \in Q
        BY <2>3
      <3> HIDE DEF fresh, Q
      <3> QED
        BY <1>3, <2>4, <3>1, <3>2 DEF EntryOk
    <2> HIDE DEF fresh
    <2>6. /\ longer \in Seq(Entry) /\ Len(longer) = Len(chain) + 1
          /\ \A k \in 1..Len(chain) : longer[k] = chain[k]
          /\ longer[Len(chain) + 1] = fresh
      BY <1>1, <2>4, AppendProperties
    <2> HIDE DEF longer
    <2>7. ASSUME NEW k \in 1..Len(chain) PROVE EntryOk(h, chain[k], Q)
      <3>1. EntryOk(h, chain[k], P)
        BY <1>1 DEF ChainOk
      <3>2. \A v \in Nat : <<chain[k].key, v>> \in Q <=> <<chain[k].key, v>> \in P
        BY <2>2
      <3> QED
        BY <3>1, <3>2 DEF EntryOk
    <2> DEFINE n == Len(chain)
    <2>8. n \in Nat /\ \A k \in 1..(n + 1) : k \in 1..n \/ k = n + 1
      BY <1>1
    <2>9. ChainOk(h, longer, Q)
      <3>0. /\ Len(longer) = n + 1 /\ longer[n + 1] = fresh
            /\ \A k \in 1..n : longer[k] = chain[k]
            /\ \A k \in 1..n : chain[k].key # c
        BY <2>2, <2>6
      <3>a. \A k \in 1..n : k \in 1..(n + 1)
        BY <2>8
      <3>1. ASSUME NEW k \in 1..Len(longer) PROVE EntryOk(h, longer[k], Q)
        BY <2>5, <2>7, <2>8, <3>0
      <3>2. ASSUME NEW j \in 1..Len(longer), NEW k \in 1..Len(longer),
                   longer[j].key = longer[k].key
            PROVE  j = k
        <4>1. \A i, l \in 1..n : chain[i].key = chain[l].key => i = l
          BY <1>1 DEF ChainOk
        <4> HIDE DEF chain, n
        <4> QED
          BY <2>4, <2>8, <3>0, <3>2, <4>1
      <3>3. ASSUME NEW d \in Cells \ empty, NEW v \in Nat, hash[d] = h, <<d, v>> \in Q
            PROVE  \E k \in 1..Len(longer) : longer[k].key = d
        <4>1. CASE d = c
          <5>1. n + 1 \in 1..(n + 1)
            BY <2>8
          <5> QED
            BY <2>4, <3>0, <4>1, <5>1
        <4>2. CASE d # c
          <5>1. <<d, v>> \in P
            BY <3>3, <4>2
          <5>2. PICK k \in 1..n : chain[k].key = d
            BY <1>1, <3>3, <5>1 DEF ChainOk
          <5> QED
            BY <3>0, <3>a, <5>2
        <4> QED
          BY <4>1, <4>2
      <3> HIDE DEF chain, n, Q
      <3> QED
        BY <2>6, <3>1, <3>2, <3>3 DEF ChainOk
    <2> HIDE DEF Q, longer, chain, found
    <2> QED
      <3>1. Holds([D EXCEPT ![h] = longer], Q)
        BY <1>q, <2>9, ReplaceChain
      <3> QED
        BY <1>q, <2>1, <3>1, Zenon
  <1>4. CASE c \notin empty /\ found # {}
    <2>1. Insert(D, c, u) = [D EXCEPT ![h] = grown]
      BY <1>4 DEF Insert
    <2>2. DOMAIN grown = 1..Len(chain)
      BY <1>1
    <2>3. ASSUME NEW k \in 1..Len(chain)
          PROVE  /\ EntryOk(h, grown[k], Q)
                 /\ grown[k].key = chain[k].key
      <3>1. EntryOk(h, chain[k], P)
        BY <1>1 DEF ChainOk
      <3>2. CASE chain[k].key = c
        <4> DEFINE s == chain[k].subkeys
        <4>1. s \in Seq(Nat) /\ IsInjective(s) /\ chain[k] \in Entry
          BY <3>1 DEF EntryOk, Entry
        <4>2. u \notin ToSet(s) /\ \A v \in Nat : v \in ToSet(s) <=> <<c, v>> \in P
          BY <3>1, <3>2 DEF EntryOk
        <4>3. grown[k] = [key |-> c, subkeys |-> <<u>> \o s]
          BY <1>1, <3>2
        <4> HIDE DEF s, grown, found
        <4>4. /\ <<u>> \o s \in Seq(Nat) /\ <<u>> \o s # <<>>
              /\ ToSet(<<u>> \o s) = {u} \cup ToSet(s) /\ IsInjective(<<u>> \o s)
          BY <4>1, <4>2, ConsProperties
        <4> DEFINE t == <<u>> \o s
        <4>5. /\ t \in Seq(Nat) /\ t # <<>> /\ ToSet(t) = {u} \cup ToSet(s)
              /\ IsInjective(t) /\ grown[k] = [key |-> c, subkeys |-> t]
          BY <4>3, <4>4
        <4> HIDE DEF t
        <4>6. grown[k] \in Entry /\ grown[k].key = c /\ grown[k].subkeys = t
          BY <4>5 DEF Entry
        <4>7. \A v \in Nat : v \in ToSet(t) <=> <<c, v>> \in Q
          BY <4>2, <4>5
        <4> HIDE DEF Q
        <4> QED
          BY <1>4, <3>2, <4>5, <4>6, <4>7 DEF EntryOk
      <3>3. CASE chain[k].key # c
        <4>1. grown[k] = chain[k]
          BY <1>1, <3>3
        <4>2. \A v \in Nat : <<chain[k].key, v>> \in Q <=> <<chain[k].key, v>> \in P
          BY <3>3
        <4> HIDE DEF Q, grown
        <4> QED
          BY <3>1, <4>1, <4>2 DEF EntryOk
      <3> QED
        BY <3>2, <3>3
    <2>k. PICK k0 \in 1..Len(chain) : chain[k0].key = c
      BY <1>1, <1>4
    <2> HIDE DEF grown, found
    <2>4. grown \in Seq(Entry) /\ Len(grown) = Len(chain)
      <3>1. \A k \in 1..Len(chain) : grown[k] \in Entry
        BY <2>3 DEF EntryOk
      <3>2. grown = [k \in 1..Len(chain) |-> grown[k]]
        BY <2>2 DEF grown
      <3>3. grown \in [1..Len(chain) -> Entry]
        BY <3>1, <3>2
      <3> QED
        <4>1. Len(chain) \in Nat
          BY <1>1
        <4> QED
          BY <3>3, <4>1, FunctionIsSeq
    <2>5. ChainOk(h, grown, Q)
      <3>1. ASSUME NEW j \in 1..Len(grown), NEW k \in 1..Len(grown),
                   grown[j].key = grown[k].key
            PROVE  j = k
        BY <1>1, <2>3, <2>4, <3>1 DEF ChainOk
      <3>2. ASSUME NEW d \in Cells \ empty, NEW v \in Nat, hash[d] = h, <<d, v>> \in Q
            PROVE  \E k \in 1..Len(grown) : grown[k].key = d
        <4>1. CASE d = c
          BY <2>k, <2>3, <2>4, <4>1
        <4>2. CASE d # c
          <5>1. <<d, v>> \in P
            BY <3>2, <4>2
          <5>2. PICK k \in 1..Len(chain) : chain[k].key = d
            BY <1>1, <3>2, <5>1 DEF ChainOk
          <5> QED
            BY <2>3, <2>4, <5>2
        <4> QED
          BY <4>1, <4>2
      <3> HIDE DEF Q, chain
      <3> QED
        BY <2>3, <2>4, <3>1, <3>2 DEF ChainOk
    <2> HIDE DEF Q, grown, chain
    <2> QED
      <3>1. Holds([D EXCEPT ![h] = grown], Q)
        BY <1>q, <2>5, ReplaceChain
      <3> QED
        BY <1>q, <2>1, <3>1, Zenon
  <1> QED
    BY <1>2, <1>3, <1>4

(* The cells of a leaf, poured one after the other.  A function that obeys  *)
(* the equation of Poured's table exists, so the table obeys it.            *)
Pairs(cells, u) == {<<c, u>> : c \in ToSet(cells)}

LEMMA PouredHolds ==
    ASSUME TreeOk, NEW P, Holds(dict, P), NEW cells \in Seq(Cells), IsInjective(cells),
           NEW u \in Nat, \A c \in Cells : <<c, u>> \notin P
    PROVE  Holds(Poured(cells, u), P \cup Pairs(cells, u))
  <1> DEFINE N == Len(cells)
             Sofar(n) == P \cup {<<cells[j], u>> : j \in 1..n}
             g == [n \in Nat |-> [t \in Tables |->
                      IF n + 1 <= N /\ Insert(t, cells[n + 1], u) \in Tables
                      THEN Insert(t, cells[n + 1], u) ELSE t]]
             Is(t) == t = [n \in 0..N |-> IF n = 0 THEN dict ELSE Insert(t[n - 1], cells[n], u)]
             table == CHOOSE t : Is(t)
  <1>1. /\ N \in Nat /\ DOMAIN cells = 1..N /\ dict \in Tables
        /\ \A j \in 1..N : cells[j] \in Cells
    <2>1. N \in Nat /\ DOMAIN cells = 1..N /\ dict \in Tables
      BY LenProperties DEF Holds
    <2>2. \A j \in 1..N : cells[j] \in Cells
      BY ElementOfSeq
    <2> QED
      BY <2>1, <2>2
  <1> HIDE DEF N
  <1>2. PICK F \in [Nat -> Tables] : Recurs(F, dict, g)
    <2>1. g \in [Nat -> [Tables -> Tables]]
      OBVIOUS
    <2> HIDE DEF g
    <2> QED
      BY <1>1, <2>1, Recursion
  <1>3. ASSUME NEW n \in Nat, n + 1 <= N, Holds(F[n], Sofar(n))
        PROVE  /\ F[n + 1] = Insert(F[n], cells[n + 1], u)
               /\ Holds(F[n + 1], Sofar(n + 1))
    <2>1. n + 1 \in 1..N /\ cells[n + 1] \in Cells
      BY <1>1, <1>3
    <2>2. <<cells[n + 1], u>> \notin Sofar(n)
      <3>1. \A j \in 1..n : cells[j] # cells[n + 1]
        <4> SUFFICES ASSUME NEW j \in 1..n, cells[j] = cells[n + 1] PROVE FALSE
          OBVIOUS
        <4>1. j \in 1..N /\ j # n + 1
          BY <1>1, <1>3
        <4> QED
          BY <1>1, <2>1, <4>1 DEF IsInjective
      <3> QED
        BY <2>1, <3>1
    <2>3. Sofar(n + 1) = Sofar(n) \cup {<<cells[n + 1], u>>}
      <3>1. \A j : j \in 1..(n + 1) <=> (j \in 1..n \/ j = n + 1)
        OBVIOUS
      <3> QED
        BY <3>1
    <2> DEFINE E == Insert(F[n], cells[n + 1], u)
    <2> HIDE DEF Sofar
    <2>4. Holds(E, Sofar(n + 1))
      BY <1>3, <2>1, <2>2, <2>3, InsertHolds
    <2>5. E \in Tables
      BY <2>4 DEF Holds
    <2>6. g[n][F[n]] = E
      <3>1. F[n] \in Tables
        OBVIOUS
      <3> QED
        BY <1>3, <2>5, <3>1
    <2>7. F[n + 1] = g[n][F[n]]
      BY <1>2 DEF Recurs
    <2> QED
      BY <2>4, <2>6, <2>7
  <1>4. \A n \in Nat : n <= N => Holds(F[n], Sofar(n))
    <2> DEFINE T == {n \in Nat : n <= N => Holds(F[n], Sofar(n))}
    <2>1. 0 \in T
      <3>1. Sofar(0) = P
        OBVIOUS
      <3>2. F[0] = dict
        BY <1>2 DEF Recurs
      <3> HIDE DEF Sofar
      <3> QED
        BY <3>1, <3>2
    <2>2. ASSUME NEW n \in Nat, n \in T PROVE n + 1 \in T
      <3> HIDE DEF Sofar
      <3> SUFFICES ASSUME n + 1 <= N PROVE Holds(F[n + 1], Sofar(n + 1))
        OBVIOUS
      <3>1. n <= N
        BY <1>1
      <3> QED
        BY <1>3, <2>2, <3>1
    <2> HIDE DEF T
    <2>3. \A n \in Nat : n \in T
      BY <2>1, <2>2, Induction
    <2> QED
      BY <2>3 DEF T
  <1>5. \A n \in Nat : n + 1 <= N => F[n + 1] = Insert(F[n], cells[n + 1], u)
    <2> SUFFICES ASSUME NEW n \in Nat, n + 1 <= N
                 PROVE  F[n + 1] = Insert(F[n], cells[n + 1], u)
      OBVIOUS
    <2>1. n <= N
      BY <1>1
    <2> HIDE DEF Sofar
    <2> QED
      BY <1>3, <1>4, <2>1
  <1>6. Is(table)
    <2> DEFINE t == [n \in 0..N |-> F[n]]
    <2>1. ASSUME NEW n \in 0..N
          PROVE  F[n] = IF n = 0 THEN dict ELSE Insert(t[n - 1], cells[n], u)
      <3>1. CASE n = 0
        BY <1>2, <3>1 DEF Recurs
      <3>2. CASE n # 0
        <4>1. n - 1 \in Nat /\ (n - 1) + 1 = n /\ n - 1 \in 0..N /\ n <= N
          BY <1>1, <3>2
        <4>2. t[n - 1] = F[n - 1]
          BY <4>1
        <4>3. \A m \in Nat : m + 1 = n => F[n] = Insert(F[m], cells[n], u)
          BY <1>5, <4>1
        <4> QED
          BY <3>2, <4>1, <4>2, <4>3, Zenon
      <3> QED
        BY <3>1, <3>2
    <2>2. Is(t)
      BY <2>1, Zenon
    <2> HIDE DEF Is, t
    <2> QED
      BY <2>2
  <1> HIDE DEF table
  <1>7. table[N] = F[N]
    <2> DEFINE T == {n \in Nat : n <= N => table[n] = F[n]}
    <2>0. \A n \in 0..N : table[n] = IF n = 0 THEN dict ELSE Insert(table[n - 1], cells[n], u)
      BY <1>6
    <2>1. 0 \in T
      <3>1. 0 \in 0..N
        BY <1>1
      <3>2. table[0] = dict
        BY <2>0, <3>1
      <3> QED
        BY <1>2, <3>2 DEF Recurs
    <2>2. ASSUME NEW n \in Nat, n \in T PROVE n + 1 \in T
      <3> SUFFICES ASSUME n + 1 <= N PROVE table[n + 1] = F[n + 1]
        OBVIOUS
      <3>1. n + 1 \in 0..N /\ n + 1 # 0 /\ (n + 1) - 1 = n /\ n <= N
        BY <1>1
      <3>2. table[n + 1] = Insert(table[(n + 1) - 1], cells[n + 1], u)
        BY <2>0, <3>1, Zenon
      <3>3. table[n] = F[n]
        BY <2>2, <3>1
      <3>4. F[n + 1] = Insert(F[n], cells[n + 1], u)
        BY <1>5
      <3> QED
        BY <3>1, <3>2, <3>3, <3>4, Zenon
    <2> HIDE DEF T
    <2>3. \A n \in Nat : n \in T
      BY <2>1, <2>2, Induction
    <2>4. N <= N
      BY <1>1
    <2> QED
      BY <1>1, <2>3, <2>4 DEF T
  <1>8. Poured(cells, u) = table[N]
    BY Zenon DEF Poured, table, N
  <1>9. Sofar(N) = P \cup Pairs(cells, u)
    BY <1>1 DEF Pairs, ToSet
  <1>10. Holds(F[N], Sofar(N))
    <2>1. N <= N
      BY <1>1
    <2> HIDE DEF Sofar
    <2> QED
      BY <1>1, <1>4, <2>1
  <1> HIDE DEF Sofar
  <1> QED
    BY <1>7, <1>8, <1>9, <1>10
-------------------------------------------------------------------------------
(* What the first n leaves of the bundle need.                              *)
Needs(n) == UNION {Pairs(neighbors[offset + u], u) : u \in 0..(n - 1)}

LEMMA NeedsOf ==
    ASSUME NEW n \in Nat
    PROVE  /\ \A c, u : <<c, u>> \in Needs(n)
                  <=> u \in 0..(n - 1) /\ c \in ToSet(neighbors[offset + u])
           /\ Needs(n + 1) = Needs(n) \cup Pairs(neighbors[offset + n], n)
  <1>1. ASSUME NEW c, NEW u
        PROVE  <<c, u>> \in Needs(n)
                  <=> u \in 0..(n - 1) /\ c \in ToSet(neighbors[offset + u])
    BY DEF Needs, Pairs
  <1>2. \A u : u \in 0..(n + 1 - 1) <=> u \in 0..(n - 1) \/ u = n
    OBVIOUS
  <1>3. Needs(n + 1) = Needs(n) \cup Pairs(neighbors[offset + n], n)
    BY <1>2 DEF Needs
  <1> QED
    BY <1>1, <1>3

(* The arrays of a bundle: its leaves are consecutive, and a cell comes with *)
(* the leaves of the bundle that need it.                                   *)
BundleOk(keys, cells, matches) ==
    /\ keys \in Seq(Nat) /\ cells \in Seq(Cells) /\ matches \in Seq(Seq(Nat))
    /\ Len(matches) = Len(cells)
    /\ \A k \in 1..Len(keys) : keys[k] = offset + k - 1
    /\ offset + Len(keys) <= LeafCnt
    /\ IsInjective(cells)
    /\ \A j \in 1..Len(cells) : /\ cells[j] \notin empty
                                /\ matches[j] # <<>>
                                /\ IsInjective(matches[j])
    /\ \A j \in 1..Len(cells) : \A u \in Nat :
          u \in ToSet(matches[j])
          <=> u \in 0..(Len(keys) - 1) /\ cells[j] \in ToSet(neighbors[offset + u])
    /\ \A c \in Cells \ empty : \A u \in 0..(Len(keys) - 1) :
          c \in ToSet(neighbors[offset + u]) => \E j \in 1..Len(cells) : cells[j] = c

(* bundle_dict takes every entry of the table once.                         *)
LEMMA EntriesOk ==
    ASSUME NEW P, Holds(dict, P)
    PROVE  /\ Entries \in Seq(Entry)
           /\ \A j \in 1..Len(Entries) : EntryOk(hash[Entries[j].key], Entries[j], P)
           /\ \A i, j : /\ i \in 1..Len(Entries) /\ j \in 1..Len(Entries)
                        /\ Entries[i].key = Entries[j].key
                        => i = j
           /\ \A c \in Cells \ empty : \A u \in Nat :
                 hash[c] \in Buckets /\ <<c, u>> \in P
                 => \E j \in 1..Len(Entries) : Entries[j].key = c
  <1> DEFINE ss == [b \in 1..BucketCnt |-> dict[b]]
  <1>1. BucketCnt \in Nat
    BY BundlingAssumption
  <1>2. \A b \in Buckets : ChainOk(b, dict[b], P) /\ dict[b] \in Seq(Entry) /\ ss[b] = dict[b]
    BY DEF Holds, Tables, Buckets
  <1>3. ss \in Seq(Seq(Entry)) /\ Len(ss) = BucketCnt
    <2>1. ss \in [1..BucketCnt -> Seq(Entry)]
      BY <1>2 DEF Buckets
    <2> HIDE DEF ss
    <2> QED
      BY <1>1, <2>1, FunctionIsSeq
  <1>4. Entries = FlattenSeq(ss)
    BY DEF Entries
  <1> HIDE DEF ss
  <1>5. PICK pos \in [Nat -> Nat] :
            IsLayout(ss, pos) /\ IsPlaced(Entries, ss, pos, BucketCnt)
    BY <1>3, <1>4, FlattenLayout
  <1>6. Entries \in Seq(Entry)
    BY <1>3, <1>4, FlattenLayout
  <1>7. /\ \A b \in Buckets : \A k \in 1..Len(dict[b]) :
              /\ pos[b - 1] + k \in 1..Len(Entries)
              /\ Entries[pos[b - 1] + k] = dict[b][k]
        /\ \A i \in 1..Len(Entries) : \E b, k :
              b \in Buckets /\ k \in 1..Len(dict[b]) /\ i = pos[b - 1] + k
    <2>1. /\ Len(Entries) = pos[BucketCnt]
          /\ \A b, k : b \in 1..BucketCnt /\ k \in 1..Len(ss[b]) =>
                  pos[b - 1] + k \in 1..pos[BucketCnt] /\ Entries[pos[b - 1] + k] = ss[b][k]
          /\ \A i \in 1..pos[BucketCnt] : \E b, k :
                  b \in 1..BucketCnt /\ k \in 1..Len(ss[b]) /\ i = pos[b - 1] + k
      BY <1>5, Zenon DEF IsPlaced
    <2>2. ASSUME NEW b \in Buckets, NEW k \in 1..Len(dict[b])
          PROVE  /\ pos[b - 1] + k \in 1..Len(Entries)
                 /\ Entries[pos[b - 1] + k] = dict[b][k]
      <3>1. ss[b] = dict[b]
        BY <1>2
      <3> QED
        BY <2>1, <3>1, Zenon DEF Buckets
    <2>3. ASSUME NEW i \in 1..Len(Entries)
          PROVE  \E b, k : b \in Buckets /\ k \in 1..Len(dict[b]) /\ i = pos[b - 1] + k
      <3>1. PICK b, k : b \in 1..BucketCnt /\ k \in 1..Len(ss[b]) /\ i = pos[b - 1] + k
        BY <2>1, Zenon
      <3>2. ss[b] = dict[b] /\ b \in Buckets
        BY <1>2, <3>1 DEF Buckets
      <3> QED
        BY <3>1, <3>2, Zenon
    <2> QED
      BY <2>2, <2>3, Zenon
  <1>8. ASSUME NEW i \in 1..Len(Entries)
        PROVE  \E b, k : /\ b \in Buckets /\ k \in 1..Len(dict[b]) /\ i = pos[b - 1] + k
                         /\ Entries[i] = dict[b][k]
                         /\ EntryOk(b, Entries[i], P) /\ b = hash[Entries[i].key]
    <2>1. PICK b, k : b \in Buckets /\ k \in 1..Len(dict[b]) /\ i = pos[b - 1] + k
      BY <1>7, Zenon
    <2>2. Entries[i] = dict[b][k]
      BY <1>7, <2>1, Zenon
    <2>3. ChainOk(b, dict[b], P)
      BY <1>2, <2>1
    <2>4. EntryOk(b, Entries[i], P)
      BY <2>1, <2>2, <2>3, Zenon DEF ChainOk
    <2>5. b = hash[Entries[i].key]
      BY <2>4 DEF EntryOk
    <2> QED
      BY <2>1, <2>2, <2>4, <2>5, Zenon
  <1>9. \A j \in 1..Len(Entries) : EntryOk(hash[Entries[j].key], Entries[j], P)
    BY <1>8, Zenon
  <1>10. ASSUME NEW i, NEW j, i \in 1..Len(Entries), j \in 1..Len(Entries),
                Entries[i].key = Entries[j].key
         PROVE  i = j
    <2>1. PICK b, k : /\ b \in Buckets /\ k \in 1..Len(dict[b]) /\ i = pos[b - 1] + k
                      /\ Entries[i] = dict[b][k] /\ b = hash[Entries[i].key]
      BY <1>8, <1>10, Zenon
    <2>2. PICK d, l : /\ d \in Buckets /\ l \in 1..Len(dict[d]) /\ j = pos[d - 1] + l
                      /\ Entries[j] = dict[d][l] /\ d = hash[Entries[j].key]
      BY <1>8, <1>10, Zenon
    <2>3. b = d
      BY <1>10, <2>1, <2>2, Zenon
    <2>4. ChainOk(b, dict[b], P)
      BY <1>2, <2>1
    <2>5. \A x, y \in 1..Len(dict[b]) : dict[b][x].key = dict[b][y].key => x = y
      BY <2>4 DEF ChainOk
    <2>6. dict[b][k].key = dict[b][l].key
      BY <1>10, <2>1, <2>2, <2>3, Zenon
    <2>7. k = l
      BY <2>1, <2>2, <2>3, <2>5, <2>6, Zenon
    <2> QED
      BY <2>1, <2>2, <2>3, <2>7, Zenon
  <1>11. ASSUME NEW c \in Cells \ empty, NEW u \in Nat, hash[c] \in Buckets, <<c, u>> \in P
         PROVE  \E j \in 1..Len(Entries) : Entries[j].key = c
    <2>1. ChainOk(hash[c], dict[hash[c]], P)
      BY <1>2, <1>11
    <2>2. PICK k \in 1..Len(dict[hash[c]]) : dict[hash[c]][k].key = c
      BY <1>11, <2>1 DEF ChainOk
    <2>3. /\ pos[hash[c] - 1] + k \in 1..Len(Entries)
          /\ Entries[pos[hash[c] - 1] + k] = dict[hash[c]][k]
      BY <1>7, <1>11, <2>2, Zenon
    <2> QED
      BY <2>2, <2>3, Zenon
  <1> QED
    BY <1>6, <1>9, <1>10, <1>11, Zenon

(* The list of the leaves in the course of bundle_leaves.                   *)
IdsOk ==
    /\ ids \in Seq(Nat)
    /\ \A k \in 1..Len(ids) : ids[k] = offset + Len(ids) - k
    /\ offset + Len(ids) <= LeafCnt

LEMMA OffsetNat ==
    ASSUME TreeOk
    PROVE  offset \in Nat /\ LeafCnt \in Nat
  BY BundlingAssumption DEF TreeOk, LeafIds

LEMMA BundleOfTable ==
    ASSUME TreeOk, IdsOk, Holds(dict, Needs(Len(ids)))
    PROVE  BundleOk(Reverse(ids), [j \in DOMAIN Entries |-> Entries[j].key],
                    [j \in DOMAIN Entries |-> Entries[j].subkeys])
  <1> DEFINE n == Len(ids)
             P == Needs(Len(ids))
             keys == Reverse(ids)
             m == Len(Entries)
             cells == [j \in DOMAIN Entries |-> Entries[j].key]
             matches == [j \in DOMAIN Entries |-> Entries[j].subkeys]
  <1>1. n \in Nat /\ offset \in Nat /\ LeafCnt \in Nat /\ DOMAIN ids = 1..n
    BY OffsetNat, LenProperties DEF IdsOk
  <1>2. /\ Entries \in Seq(Entry) /\ DOMAIN Entries = 1..m /\ m \in Nat
        /\ \A j \in 1..m : EntryOk(hash[Entries[j].key], Entries[j], P)
        /\ \A i, j : i \in 1..m /\ j \in 1..m /\ Entries[i].key = Entries[j].key => i = j
        /\ \A c \in Cells \ empty : \A u \in Nat :
              hash[c] \in Buckets /\ <<c, u>> \in P => \E j \in 1..m : Entries[j].key = c
    <2>1. Entries \in Seq(Entry)
      BY EntriesOk
    <2> QED
      BY <2>1, EntriesOk, LenProperties, Zenon
  <1>3. /\ keys \in Seq(Nat) /\ Len(keys) = n
        /\ \A k \in 1..n : keys[k] = offset + k - 1
    <2>1. keys = [k \in 1..n |-> ids[(n - k) + 1]]
      BY DEF Reverse
    <2>2. ASSUME NEW k \in 1..n PROVE ids[(n - k) + 1] \in Nat /\ ids[(n - k) + 1] = offset + k - 1
      <3>1. (n - k) + 1 \in 1..n
        BY <1>1
      <3>2. ids[(n - k) + 1] = offset + n - ((n - k) + 1)
        BY <3>1 DEF IdsOk
      <3> HIDE DEF n
      <3> QED
        BY <1>1, <3>1, <3>2
    <2>3. keys \in [1..n -> Nat]
      BY <2>1, <2>2
    <2>4. keys \in Seq(Nat) /\ Len(keys) = n
      <3> HIDE DEF keys, n
      <3> QED
        BY <1>1, <2>3, FunctionIsSeq
    <2> QED
      BY <2>1, <2>2, <2>4
  <1>4. \A j \in 1..m : /\ cells[j] = Entries[j].key /\ matches[j] = Entries[j].subkeys
                        /\ cells[j] \in Cells /\ matches[j] \in Seq(Nat)
    BY <1>2 DEF EntryOk, Entry
  <1>5. /\ cells \in Seq(Cells) /\ Len(cells) = m /\ DOMAIN cells = 1..m
        /\ matches \in Seq(Seq(Nat)) /\ Len(matches) = m
    <2>1. cells \in [1..m -> Cells] /\ matches \in [1..m -> Seq(Nat)]
      BY <1>2, <1>4
    <2> HIDE DEF cells, matches, m
    <2>2. cells \in Seq(Cells) /\ Len(cells) = m /\ DOMAIN cells = 1..m
      BY <1>2, <2>1, FunctionIsSeq
    <2>3. matches \in Seq(Seq(Nat)) /\ Len(matches) = m
      BY <1>2, <2>1, FunctionIsSeq
    <2> QED
      BY <2>2, <2>3
  <1> HIDE DEF keys, cells, matches, m, n, P
  <1>6. IsInjective(cells)
    BY <1>2, <1>4, <1>5 DEF IsInjective
  <1>7. ASSUME NEW j \in 1..m
        PROVE  /\ cells[j] \notin empty /\ matches[j] # <<>> /\ IsInjective(matches[j])
               /\ \A u \in Nat : u \in ToSet(matches[j]) <=> <<cells[j], u>> \in P
    <2>1. EntryOk(hash[Entries[j].key], Entries[j], P)
      BY <1>2
    <2>2. cells[j] = Entries[j].key /\ matches[j] = Entries[j].subkeys
      BY <1>4
    <2> QED
      BY <2>1, <2>2 DEF EntryOk
  <1>8. \A c, u : <<c, u>> \in P
              <=> u \in 0..(n - 1) /\ c \in ToSet(neighbors[offset + u])
    BY <1>1, NeedsOf DEF n, P
  <1>9. ASSUME NEW c \in Cells \ empty, NEW u \in 0..(n - 1),
               c \in ToSet(neighbors[offset + u])
        PROVE  \E j \in 1..m : cells[j] = c
    <2>1. u \in Nat /\ <<c, u>> \in P /\ hash[c] \in Buckets
      BY <1>1, <1>8, <1>9 DEF TreeOk
    <2> QED
      BY <1>2, <1>4, <2>1
  <1>10. offset + n <= LeafCnt
    BY DEF IdsOk, n
  <1>11. BundleOk(keys, cells, matches)
    <2>1. \A j \in 1..m : \A u \in Nat : u \in ToSet(matches[j])
              <=> u \in 0..(n - 1) /\ cells[j] \in ToSet(neighbors[offset + u])
      BY <1>7, <1>8
    <2>2. \A j \in 1..m : cells[j] \notin empty /\ matches[j] # <<>> /\ IsInjective(matches[j])
      BY <1>7
    <2> QED
      BY <1>3, <1>5, <1>6, <1>9, <1>10, <2>1, <2>2, Zenon DEF BundleOk
  <1> QED
    BY <1>11 DEF keys, cells, matches
-------------------------------------------------------------------------------
(* The message of serialize_bundle, made of parts.                          *)
Word == Nat \cup Cells \cup {Leaf(i) : i \in Nat}

IdParts(keys) == [k \in DOMAIN keys |-> <<keys[k], Leaf(keys[k])>>]

CellPart(cell, match) == <<Len(match)>> \o match \o <<cell>>

CellParts(cells, matches) == [j \in DOMAIN cells |-> CellPart(cells[j], matches[j])]

Message(keys, cells, matches) ==
    <<Len(keys), Len(cells)>> \o FlattenSeq(IdParts(keys))
        \o FlattenSeq(CellParts(cells, matches))

IsIds(A, keys, n) ==
    /\ A \in Seq(Word) /\ Len(A) = 2 * n
    /\ \A k \in 1..n : A[2 * k - 1] = keys[k] /\ A[2 * k] = Leaf(keys[k])

LEMMA IdsLayout ==
    ASSUME NEW keys \in Seq(Nat)
    PROVE  IsIds(FlattenSeq(IdParts(keys)), keys, Len(keys))
  <1> DEFINE ss == IdParts(keys)
             n == Len(keys)
             A == FlattenSeq(ss)
  <1>1. n \in Nat /\ DOMAIN keys = 1..n /\ \A k \in 1..n : keys[k] \in Nat
    <2>1. n \in Nat /\ DOMAIN keys = 1..n
      BY LenProperties
    <2> QED
      BY <2>1, ElementOfSeq
  <1>2. \A k \in 1..n : /\ ss[k] \in Seq(Word) /\ Len(ss[k]) = 2
                        /\ ss[k][1] = keys[k] /\ ss[k][2] = Leaf(keys[k])
    <2> SUFFICES ASSUME NEW k \in 1..n
                 PROVE  /\ ss[k] \in Seq(Word) /\ Len(ss[k]) = 2
                        /\ ss[k][1] = keys[k] /\ ss[k][2] = Leaf(keys[k])
      OBVIOUS
    <2>1. ss[k] = <<keys[k], Leaf(keys[k])>>
      BY <1>1 DEF IdParts
    <2>2. keys[k] \in Word /\ Leaf(keys[k]) \in Word
      BY <1>1 DEF Word
    <2>3. PICK x, y : x = keys[k] /\ y = Leaf(keys[k])
      OBVIOUS
    <2>4. <<x, y>> \in Seq(Word) /\ Len(<<x, y>>) = 2 /\ <<x, y>>[1] = x /\ <<x, y>>[2] = y
      BY <2>2, <2>3
    <2>5. ss[k] = <<x, y>>
      BY <2>1, <2>3, Zenon
    <2> QED
      BY <2>3, <2>4, <2>5, Zenon
  <1>3. ss \in Seq(Seq(Word)) /\ Len(ss) = n
    <2>1. ss = [k \in 1..n |-> ss[k]]
      BY <1>1 DEF IdParts
    <2> HIDE DEF ss
    <2>2. ss \in [1..n -> Seq(Word)]
      BY <1>2, <2>1
    <2> QED
      BY <1>1, <2>2, FunctionIsSeq
  <1> HIDE DEF ss
  <1>5. PICK pos \in [Nat -> Nat] : IsLayout(ss, pos) /\ IsPlaced(A, ss, pos, n)
    BY <1>3, FlattenLayout
  <1>6. A \in Seq(Word)
    BY <1>3, FlattenLayout
  <1> HIDE DEF A, n
  <1>7. \A k \in Nat : k <= n => pos[k] = 2 * k
    <2> DEFINE T == {k \in Nat : k <= n => pos[k] = 2 * k}
    <2>1. 0 \in T
      BY <1>5 DEF IsLayout
    <2>2. ASSUME NEW k \in Nat, k \in T PROVE k + 1 \in T
      <3> SUFFICES ASSUME k + 1 <= n PROVE pos[k + 1] = 2 * (k + 1)
        OBVIOUS
      <3>1. k + 1 \in 1..n /\ (k + 1) - 1 = k /\ pos[k] = 2 * k
        BY <1>1, <2>2
      <3>2. pos[k + 1] = pos[(k + 1) - 1] + Len(ss[k + 1])
        BY <1>3, <1>5, <3>1 DEF IsLayout
      <3>3. Len(ss[k + 1]) = 2
        BY <1>2, <3>1
      <3> QED
        BY <3>1, <3>2, <3>3
    <2> HIDE DEF T
    <2>3. \A k \in Nat : k \in T
      BY <2>1, <2>2, Induction
    <2> QED
      BY <2>3 DEF T
  <1>8. Len(A) = 2 * n
    <2>1. Len(A) = pos[n]
      BY <1>5 DEF IsPlaced
    <2>2. n <= n
      BY <1>1
    <2> QED
      BY <1>1, <1>7, <2>1, <2>2
  <1>9. ASSUME NEW k \in 1..n PROVE A[2 * k - 1] = keys[k] /\ A[2 * k] = Leaf(keys[k])
    <2>1. \A i \in 1..2 : A[pos[k - 1] + i] = ss[k][i]
      <3>1. \A i \in 1..Len(ss[k]) : A[pos[k - 1] + i] = ss[k][i]
        BY <1>5 DEF IsPlaced
      <3> QED
        BY <1>2, <3>1
    <2>2. pos[k - 1] = 2 * (k - 1)
      <3>1. k - 1 \in Nat /\ k - 1 <= n
        BY <1>1
      <3> QED
        BY <1>7, <3>1
    <2>3. pos[k - 1] + 1 = 2 * k - 1 /\ pos[k - 1] + 2 = 2 * k
      BY <2>2
    <2>4. A[pos[k - 1] + 1] = ss[k][1] /\ A[pos[k - 1] + 2] = ss[k][2]
      BY <2>1
    <2>5. A[2 * k - 1] = ss[k][1] /\ A[2 * k] = ss[k][2]
      BY <2>3, <2>4, Zenon
    <2> QED
      BY <1>2, <2>5
  <1>10. IsIds(A, keys, n)
    BY <1>6, <1>8, <1>9 DEF IsIds
  <1> QED
    BY <1>10, Zenon DEF A, ss, n

IsCellPart(p, cell, match, l) ==
    /\ p \in Seq(Word) /\ Len(p) = l + 2
    /\ p[1] = l /\ p[l + 2] = cell
    /\ \A i \in 1..l : p[1 + i] = match[i]

LEMMA CellPartLayout ==
    ASSUME NEW cell \in Cells, NEW match \in Seq(Nat)
    PROVE  IsCellPart(CellPart(cell, match), cell, match, Len(match))
  <1> DEFINE l == Len(match)
             p == CellPart(cell, match)
  <1>1. l \in Nat /\ match \in Seq(Word) /\ l \in Word /\ cell \in Word
    <2>1. l \in Nat /\ Nat \subseteq Word /\ Cells \subseteq Word
      BY LenProperties DEF Word
    <2>2. match \in [1..l -> Nat]
      BY LenProperties
    <2>3. match \in [1..l -> Word]
      BY <2>1, <2>2
    <2> QED
      BY <2>1, <2>3, FunctionIsSeq
  <1> DEFINE a == <<Len(match)>>
             b == <<cell>>
  <1>2. a = <<l>>
    OBVIOUS
  <1>3. a \in Seq(Word) /\ Len(a) = 1 /\ a[1] = l
    BY <1>1, <1>2
  <1>4. b \in Seq(Word) /\ Len(b) = 1 /\ b[1] = cell
    BY <1>1
  <1> HIDE DEF a, b
  <1> DEFINE c == a \o match
  <1>5. /\ c \in Seq(Word) /\ Len(c) = 1 + l
        /\ \A i \in 1..1 : c[i] = a[i]
        /\ \A i \in 1..l : c[1 + i] = match[i]
    <2>1. PICK x : x = 1
      OBVIOUS
    <2>2. a \in Seq(Word) /\ x = Len(a) /\ c = a \o match
      BY <1>3, <2>1
    <2> HIDE DEF c
    <2>3. /\ c \in Seq(Word) /\ Len(c) = x + l
          /\ \A i \in 1..x : c[i] = a[i]
          /\ \A i \in 1..l : c[x + i] = match[i]
      BY <1>1, <2>2, ConcatParts
    <2> QED
      BY <2>1, <2>3, Zenon
  <1>6. p = c \o b
    BY DEF CellPart, a, b
  <1> HIDE DEF c, p, l
  <1> DEFINE q == 1 + l
  <1>7. /\ p \in Seq(Word) /\ Len(p) = q + 1
        /\ \A i \in 1..q : p[i] = c[i]
        /\ \A i \in 1..1 : p[q + i] = b[i]
    <2>1. PICK x : x = 1
      OBVIOUS
    <2>2. /\ c \in Seq(Word) /\ b \in Seq(Word)
          /\ q = Len(c) /\ x = Len(b) /\ p = c \o b
      BY <1>4, <1>5, <1>6, <2>1
    <2> HIDE DEF q
    <2>3. /\ p \in Seq(Word) /\ Len(p) = q + x
          /\ \A i \in 1..q : p[i] = c[i]
          /\ \A i \in 1..x : p[q + i] = b[i]
      BY <2>2, ConcatParts
    <2> QED
      BY <2>1, <2>3, Zenon
  <1>8. p[1] = l
    <2>1. 1 \in 1..q /\ 1 \in 1..1
      BY <1>1
    <2>2. p[1] = c[1] /\ c[1] = a[1]
      BY <1>5, <1>7, <2>1, Zenon
    <2> QED
      BY <1>3, <2>2, Zenon
  <1>9. ASSUME NEW i \in 1..l PROVE p[1 + i] = match[i]
    <2>1. 1 + i \in 1..q
      BY <1>1
    <2> QED
      BY <1>5, <1>7, <2>1, Zenon
  <1>10. p[l + 2] = cell
    <2>1. p[q + 1] = b[1]
      <3>1. 1 \in 1..1
        OBVIOUS
      <3> QED
        BY <1>7, <3>1, Zenon
    <2>2. q + 1 = l + 2
      BY <1>1
    <2> QED
      BY <1>4, <2>1, <2>2, Zenon
  <1>11. Len(p) = l + 2
    <2>1. q + 1 = l + 2
      BY <1>1
    <2> QED
      BY <1>7, <2>1, Zenon
  <1>12. IsCellPart(p, cell, match, l)
    BY <1>7, <1>8, <1>9, <1>10, <1>11, Zenon DEF IsCellPart
  <1> QED
    BY <1>12, Zenon DEF p, l

(* Where the worker finds what: at[j] is where the part of cell j starts.   *)
IsMessage(m, keys, cells, matches, at) ==
    /\ m \in Seq(Word)
    /\ m[1] = Len(keys) /\ m[2] = Len(cells)
    /\ \A k \in 1..Len(keys) : m[2 * k + 1] = keys[k] /\ m[2 * k + 2] = Leaf(keys[k])
    /\ at \in [1..(Len(cells) + 1) -> Nat]
    /\ at[1] = 3 + 2 * Len(keys)
    /\ \A j \in 1..Len(cells) :
          /\ at[j] \in 1..Len(m) /\ at[j] + Len(matches[j]) <= Len(m)
          /\ m[at[j]] = Len(matches[j])
          /\ \A i \in 1..Len(matches[j]) : m[at[j] + i] = matches[j][i]
          /\ at[j + 1] = at[j] + Len(matches[j]) + 2
          /\ m[at[j + 1] - 1] = cells[j]

LEMMA MessageLayout ==
    ASSUME NEW keys \in Seq(Nat), NEW cells \in Seq(Cells), NEW matches \in Seq(Seq(Nat)),
           Len(matches) = Len(cells)
    PROVE  \E at : IsMessage(Message(keys, cells, matches), keys, cells, matches, at)
  <1> DEFINE m == Message(keys, cells, matches)
             n == Len(keys)
             w == Len(cells)
             A == FlattenSeq(IdParts(keys))
             ss == CellParts(cells, matches)
             B == FlattenSeq(ss)
             H == <<n, w>>
             HA == H \o A
  <1>1. /\ n \in Nat /\ w \in Nat /\ DOMAIN cells = 1..w
        /\ \A j \in 1..w : /\ cells[j] \in Cells /\ matches[j] \in Seq(Nat)
                           /\ Len(matches[j]) \in Nat
    <2>1. n \in Nat /\ w \in Nat /\ DOMAIN cells = 1..w
      BY LenProperties
    <2>2. \A j \in 1..w : cells[j] \in Cells /\ matches[j] \in Seq(Nat)
      BY ElementOfSeq
    <2> QED
      BY <2>1, <2>2, LenProperties
  <1>2. /\ A \in Seq(Word) /\ Len(A) = 2 * n
        /\ \A k \in 1..n : A[2 * k - 1] = keys[k] /\ A[2 * k] = Leaf(keys[k])
    <2>1. IsIds(A, keys, n)
      BY IdsLayout
    <2> QED
      BY <2>1, Zenon DEF IsIds
  <1>3. ASSUME NEW j \in 1..w
        PROVE  /\ ss[j] \in Seq(Word) /\ Len(ss[j]) = Len(matches[j]) + 2
               /\ ss[j][1] = Len(matches[j]) /\ ss[j][Len(matches[j]) + 2] = cells[j]
               /\ \A i \in 1..Len(matches[j]) : ss[j][1 + i] = matches[j][i]
    <2>1. ss[j] = CellPart(cells[j], matches[j])
      BY <1>1 DEF CellParts
    <2>2. IsCellPart(CellPart(cells[j], matches[j]), cells[j], matches[j], Len(matches[j]))
      BY <1>1, CellPartLayout
    <2> HIDE DEF ss
    <2> QED
      BY <2>1, <2>2, Zenon DEF IsCellPart
  <1>4. ss \in Seq(Seq(Word)) /\ Len(ss) = w
    <2>1. ss = [j \in 1..w |-> ss[j]]
      BY <1>1 DEF CellParts
    <2> HIDE DEF ss, w
    <2>2. ss \in [1..w -> Seq(Word)]
      BY <1>3, <2>1
    <2> QED
      BY <1>1, <2>2, FunctionIsSeq
  <1>5. H \in Seq(Word) /\ Len(H) = 2 /\ H[1] = n /\ H[2] = w
    <2>1. n \in Word /\ w \in Word
      BY <1>1 DEF Word
    <2> HIDE DEF n, w
    <2> QED
      BY <2>1
  <1>6. m = HA \o B
    BY DEF Message
  <1> HIDE DEF ss, A, H
  <1>7. /\ B \in Seq(Word)
        /\ \E pos \in [Nat -> Nat] : IsLayout(ss, pos) /\ IsPlaced(B, ss, pos, w)
    BY <1>4, FlattenLayout
  <1> HIDE DEF B, m, n, w
  <1>8. /\ HA \in Seq(Word) /\ Len(HA) = 2 + 2 * n
        /\ \A i \in 1..2 : HA[i] = H[i]
        /\ \A i \in 1..(2 * n) : HA[2 + i] = A[i]
    <2>1. PICK p, l : p = 2 /\ l = 2 * n
      OBVIOUS
    <2>2. /\ H \in Seq(Word) /\ A \in Seq(Word) /\ p = Len(H) /\ l = Len(A) /\ HA = H \o A
      BY <1>2, <1>5, <2>1
    <2> HIDE DEF HA
    <2>3. /\ HA \in Seq(Word) /\ Len(HA) = p + l
          /\ \A i \in 1..p : HA[i] = H[i]
          /\ \A i \in 1..l : HA[p + i] = A[i]
      BY <2>2, ConcatParts
    <2> QED
      BY <2>1, <2>3, Zenon
  <1> HIDE DEF HA
  <1>9. PICK q, lb : /\ q = 2 + 2 * n /\ lb = Len(B) /\ q \in Nat /\ lb \in Nat
                     /\ m \in Seq(Word) /\ Len(m) = q + lb
                     /\ \A i \in 1..q : m[i] = HA[i]
                     /\ \A i \in 1..lb : m[q + i] = B[i]
    <2>1. PICK q, lb : q = 2 + 2 * n /\ lb = Len(B)
      OBVIOUS
    <2>2. q = Len(HA)
      BY <1>8, <2>1
    <2>3. /\ m \in Seq(Word) /\ Len(m) = q + lb /\ q \in Nat /\ lb \in Nat
          /\ \A i \in 1..q : m[i] = HA[i]
          /\ \A i \in 1..lb : m[q + i] = B[i]
      <3>1. HA \in Seq(Word) /\ B \in Seq(Word) /\ m = HA \o B /\ q = Len(HA) /\ lb = Len(B)
        BY <1>6, <1>7, <1>8, <2>1, <2>2, Zenon
      <3> QED
        BY <3>1, ConcatParts
    <2> QED
      BY <2>1, <2>3, Zenon
  <1>q. q \in Nat /\ lb \in Nat
    BY <1>9, Zenon
  <1>10. m[1] = n /\ m[2] = w
    <2>1. 1 \in 1..q /\ 2 \in 1..q /\ 1 \in 1..2 /\ 2 \in 1..2
      BY <1>1, <1>9
    <2>2. HA[1] = H[1] /\ HA[2] = H[2]
      BY <1>8
    <2>3. m[1] = HA[1] /\ m[2] = HA[2]
      BY <1>9, <2>1, Zenon
    <2> QED
      BY <1>5, <2>2, <2>3, Zenon
  <1>11. ASSUME NEW k \in 1..n PROVE m[2 * k + 1] = keys[k] /\ m[2 * k + 2] = Leaf(keys[k])
    <2>1. PICK x, y : x = 2 * k - 1 /\ y = 2 * k
      OBVIOUS
    <2>2. /\ x \in 1..(2 * n) /\ y \in 1..(2 * n)
          /\ 2 + x \in 1..q /\ 2 + y \in 1..q
          /\ 2 + x = 2 * k + 1 /\ 2 + y = 2 * k + 2
      BY <1>1, <1>9, <2>1
    <2>3. m[2 + x] = A[x] /\ m[2 + y] = A[y]
      BY <1>8, <1>9, <2>2, Zenon
    <2>4. A[x] = keys[k] /\ A[y] = Leaf(keys[k])
      BY <1>2, <2>1, Zenon
    <2> QED
      BY <2>2, <2>3, <2>4, Zenon
  <1>12. PICK pos \in [Nat -> Nat] : IsLayout(ss, pos) /\ IsPlaced(B, ss, pos, w)
    BY <1>7
  <1> DEFINE at == [j \in 1..(w + 1) |-> q + 1 + pos[j - 1]]
  <1>13. at \in [1..(w + 1) -> Nat] /\ at[1] = 3 + 2 * n
    <2>1. \A j \in 1..(w + 1) : j - 1 \in Nat
      BY <1>1
    <2>2. 1 \in 1..(w + 1) /\ pos[0] = 0
      BY <1>1, <1>12 DEF IsLayout
    <2>3. \A j \in 1..(w + 1) : pos[j - 1] \in Nat
      BY <2>1
    <2>4. pos[1 - 1] = 0
      BY <2>2
    <2>5. at[1] = q + 1 + pos[1 - 1]
      BY <2>2, Zenon
    <2>6. at \in [1..(w + 1) -> Nat]
      <3> SUFFICES ASSUME NEW j \in 1..(w + 1) PROVE q + 1 + pos[j - 1] \in Nat
        BY Zenon
      <3>1. \A x \in Nat : q + 1 + x \in Nat
        BY <1>q
      <3> QED
        BY <2>3, <3>1, Zenon
    <2>7. q + 1 + 0 = 3 + 2 * n
      BY <1>1, <1>9
    <2> QED
      BY <2>4, <2>5, <2>6, <2>7, Zenon
  <1>14. ASSUME NEW j \in 1..w
         PROVE  /\ at[j] \in 1..Len(m) /\ at[j] + Len(matches[j]) <= Len(m)
                /\ m[at[j]] = Len(matches[j])
                /\ \A i \in 1..Len(matches[j]) : m[at[j] + i] = matches[j][i]
                /\ at[j + 1] = at[j] + Len(matches[j]) + 2
                /\ m[at[j + 1] - 1] = cells[j]
    <2>1. PICK p, l : p = pos[j - 1] /\ l = Len(matches[j])
      OBVIOUS
    <2>2. p \in Nat /\ l \in Nat /\ j \in 1..(w + 1) /\ j + 1 \in 1..(w + 1) /\ (j + 1) - 1 = j
      <3>1. j - 1 \in Nat
        BY <1>1
      <3> QED
        BY <1>1, <2>1, <3>1
    <2>3. pos[j] = p + (l + 2)
      <3>1. pos[j] = pos[j - 1] + Len(ss[j])
        BY <1>4, <1>12 DEF IsLayout, w
      <3> QED
        BY <1>3, <2>1, <3>1, Zenon
    <2>4. at[j] = q + 1 + p /\ at[j + 1] = q + 1 + p + l + 2
      <3>1. at[j] = q + 1 + pos[j - 1] /\ at[j + 1] = q + 1 + pos[(j + 1) - 1]
        BY <2>2
      <3>2. pos[(j + 1) - 1] = pos[j]
        BY <2>2
      <3>3. q + 1 + (p + (l + 2)) = q + 1 + p + l + 2
        BY <1>q, <2>2
      <3> HIDE DEF at
      <3> QED
        BY <2>1, <2>3, <3>1, <3>2, <3>3, Zenon
    <2> HIDE DEF at
    <2>5. ASSUME NEW i \in 1..(l + 2)
          PROVE  m[q + (p + i)] = ss[j][i] /\ q + (p + i) \in 1..Len(m)
      <3>1. i \in 1..Len(ss[j])
        BY <1>3, <2>1
      <3>2. pos[j - 1] + i \in 1..pos[w] /\ B[pos[j - 1] + i] = ss[j][i] /\ Len(B) = pos[w]
        BY <1>12, <3>1, Zenon DEF IsPlaced
      <3>3. p + i \in 1..lb /\ B[p + i] = ss[j][i]
        BY <1>9, <2>1, <3>2, Zenon
      <3>4. m[q + (p + i)] = B[p + i]
        BY <1>9, <3>3, Zenon
      <3>5. \A x \in 1..lb : q + x \in 1..(q + lb)
        BY <1>q
      <3>6. q + (p + i) \in 1..(q + lb)
        BY <3>3, <3>5, Zenon
      <3> QED
        BY <1>9, <3>3, <3>4, <3>6, Zenon
    <2>6. q + (p + 1) = at[j] /\ 1 \in 1..(l + 2)
      BY <1>q, <2>2, <2>4
    <2>7. q + (p + (l + 2)) = at[j + 1] - 1 /\ l + 2 \in 1..(l + 2)
      BY <1>q, <2>2, <2>4
    <2>8. at[j] \in 1..Len(m) /\ m[at[j]] = l
      BY <1>3, <2>1, <2>5, <2>6, Zenon
    <2>9. m[at[j + 1] - 1] = cells[j]
      <3>1. m[q + (p + (l + 2))] = ss[j][l + 2]
        BY <2>5, <2>7, Zenon
      <3>2. ss[j][l + 2] = cells[j]
        BY <1>3, <2>1, Zenon
      <3> QED
        BY <2>7, <3>1, <3>2, Zenon
    <2>10. ASSUME NEW i \in 1..l PROVE m[at[j] + i] = matches[j][i]
      <3>1. 1 + i \in 1..(l + 2) /\ q + (p + (1 + i)) = at[j] + i
        BY <1>q, <2>2, <2>4
      <3>2. m[at[j] + i] = ss[j][1 + i]
        BY <2>5, <3>1, Zenon
      <3> QED
        BY <1>3, <2>1, <3>2, Zenon
    <2>11. at[j] + l <= Len(m)
      <3>1. q + (p + (l + 2)) \in 1..Len(m)
        BY <2>5, <2>7, Zenon
      <3>2. Len(m) \in Nat
        BY <1>9
      <3> HIDE DEF m
      <3> QED
        BY <1>q, <2>2, <2>4, <3>1, <3>2
    <2>12. at[j + 1] = at[j] + l + 2
      BY <1>q, <2>2, <2>4
    <2> QED
      BY <2>1, <2>8, <2>9, <2>10, <2>11, <2>12, Zenon
  <1> HIDE DEF at
  <1>15. IsMessage(m, keys, cells, matches, at)
    BY <1>9, <1>10, <1>11, <1>13, <1>14, Zenon DEF IsMessage, n, w
  <1> QED
    BY <1>15, Zenon DEF m

(* CellOffset computes those places.                                        *)
LEMMA CellOffsetFinds ==
    ASSUME NEW keys \in Seq(Nat), NEW cells \in Seq(Cells), NEW matches \in Seq(Seq(Nat)),
           Len(matches) = Len(cells), NEW m, NEW at, IsMessage(m, keys, cells, matches, at)
    PROVE  \A j \in 1..(Len(cells) + 1) : CellOffset(m)[j] = at[j]
  <1> DEFINE w == Len(cells)
             Is(h) == h = [j \in 1..(m[2] + 1) |->
                              IF j = 1 THEN 3 + 2 * m[1] ELSE h[j - 1] + m[h[j - 1]] + 2]
             h == CHOOSE h : Is(h)
  <1>1. /\ w \in Nat /\ Len(keys) \in Nat /\ m[1] = Len(keys) /\ m[2] = w
        /\ at \in [1..(w + 1) -> Nat] /\ at[1] = 3 + 2 * m[1]
        /\ \A j \in 1..w : at[j + 1] = at[j] + m[at[j]] + 2
    BY LenProperties DEF IsMessage
  <1>2. CellOffset(m) = h
    BY Zenon DEF CellOffset, h
  <1> HIDE DEF w
  <1>3. Is(at)
    <2>1. ASSUME NEW j \in 1..(w + 1)
          PROVE  at[j] = IF j = 1 THEN 3 + 2 * m[1] ELSE at[j - 1] + m[at[j - 1]] + 2
      <3>1. CASE j = 1
        BY <1>1, <3>1
      <3>2. CASE j # 1
        <4>1. PICK i : i = j - 1
          OBVIOUS
        <4>2. i \in 1..w /\ i + 1 = j
          BY <1>1, <3>2, <4>1
        <4>3. at[i + 1] = at[i] + m[at[i]] + 2
          BY <1>1, <4>2
        <4> QED
          BY <3>2, <4>1, <4>2, <4>3, Zenon
      <3> QED
        BY <3>1, <3>2
    <2>2. at = [j \in 1..(w + 1) |-> at[j]]
      BY <1>1
    <2>3. at = [j \in 1..(w + 1) |->
                   IF j = 1 THEN 3 + 2 * m[1] ELSE at[j - 1] + m[at[j - 1]] + 2]
      BY <2>1, <2>2, Zenon
    <2> QED
      BY <1>1, <2>3, Zenon
  <1>4. Is(h)
    <2> HIDE DEF Is
    <2> QED
      BY <1>3
  <1>5. \A j \in 1..(w + 1) :
            h[j] = IF j = 1 THEN 3 + 2 * m[1] ELSE h[j - 1] + m[h[j - 1]] + 2
    <2> HIDE DEF h
    <2> QED
      BY <1>1, <1>4, Zenon
  <1> HIDE DEF h, Is
  <1> DEFINE T == {n \in Nat : n <= w => h[n + 1] = at[n + 1]}
  <1>6. 0 \in T
    <2>1. 1 \in 1..(w + 1)
      BY <1>1
    <2>2. h[1] = at[1]
      BY <1>1, <1>5, <2>1
    <2> QED
      BY <2>2
  <1>7. ASSUME NEW n \in Nat, n \in T PROVE n + 1 \in T
    <2> SUFFICES ASSUME n + 1 <= w PROVE h[n + 1 + 1] = at[n + 1 + 1]
      OBVIOUS
    <2>1. /\ n + 1 \in 1..w /\ n + 1 + 1 \in 1..(w + 1) /\ n + 1 + 1 # 1
          /\ (n + 1 + 1) - 1 = n + 1 /\ n <= w
      BY <1>1
    <2>2. h[n + 1] = at[n + 1]
      BY <1>7, <2>1
    <2>3. h[n + 1 + 1] = h[n + 1] + m[h[n + 1]] + 2
      BY <1>5, <2>1, Zenon
    <2>4. at[n + 1 + 1] = at[n + 1] + m[at[n + 1]] + 2
      BY <1>1, <2>1, Zenon
    <2> QED
      BY <2>2, <2>3, <2>4, Zenon
  <1> HIDE DEF T
  <1>8. \A n \in Nat : n \in T
    BY <1>6, <1>7, Induction
  <1>9. ASSUME NEW j \in 1..(w + 1) PROVE h[j] = at[j]
    <2>1. j - 1 \in Nat /\ j - 1 <= w /\ (j - 1) + 1 = j
      BY <1>1
    <2>2. j - 1 \in T
      BY <1>8, <2>1
    <2> QED
      BY <2>1, <2>2, Zenon DEF T
  <1> QED
    BY <1>2, <1>9, Zenon DEF w
-------------------------------------------------------------------------------
(* The cells one leaf needs, by their places: transpose_matches.            *)
RowOk(row, matches, v) ==
    /\ row \in Seq(1..Len(matches))
    /\ IsInjective(row)
    /\ \A j \in 1..Len(matches) : j \in ToSet(row) <=> v \in ToSet(matches[j])

LEMMA TransposedRow ==
    ASSUME NEW matches \in Seq(Seq(Nat)), \A j \in 1..Len(matches) : IsInjective(matches[j]),
           NEW n, NEW u \in 1..n
    PROVE  RowOk(Transposed(matches, n)[u], matches, u - 1)
  <1> DEFINE w == Len(matches)
             v == u - 1
             places(i) == {j \in DOMAIN matches[i] : matches[i][j] = v}
             ss == [i \in DOMAIN matches |-> [k \in 1..Cardinality(places(i)) |-> i]]
             row == FlattenSeq(ss)
             S == 1..w
  <1>1. w \in Nat /\ DOMAIN matches = 1..w
    BY LenProperties
  <1>2. Transposed(matches, n)[u] = row
    BY DEF Transposed
  <1> HIDE DEF w, v, S
  <1>3. ASSUME NEW i \in 1..w
        PROVE  /\ ss[i] \in Seq(S)
               /\ v \in ToSet(matches[i]) => Len(ss[i]) = 1 /\ ss[i][1] = i
               /\ v \notin ToSet(matches[i]) => Len(ss[i]) = 0
    <2> DEFINE c == Cardinality(places(i))
    <2>1. ss[i] = [k \in 1..c |-> i]
      BY <1>1
    <2>2. CASE v \in ToSet(matches[i])
      <3>1. PICK j \in DOMAIN matches[i] : matches[i][j] = v
        BY <2>2 DEF ToSet
      <3>2. places(i) = {j}
        BY <3>1 DEF IsInjective, w
      <3>3. c = 1
        BY <3>2, FS_Singleton
      <3> HIDE DEF c, ss
      <3>4. ss[i] = [k \in 1..1 |-> i]
        BY <2>1, <3>3, Zenon
      <3>5. i \in S /\ 1 \in Nat /\ 1 \in 1..1
        BY DEF S
      <3>6. [k \in 1..1 |-> i] \in [1..1 -> S] /\ [k \in 1..1 |-> i][1] = i
        BY <3>5
      <3>7. [k \in 1..1 |-> i] \in Seq(S) /\ Len([k \in 1..1 |-> i]) = 1
        BY <3>5, <3>6, FunctionIsSeq, Zenon
      <3> QED
        BY <2>2, <3>4, <3>6, <3>7, Zenon
    <2>3. CASE v \notin ToSet(matches[i])
      <3>1. places(i) = {}
        BY <2>3 DEF ToSet
      <3>2. c = 0
        BY <3>1, FS_EmptySet
      <3> HIDE DEF c, ss
      <3>3. ss[i] = [k \in 1..0 |-> i]
        BY <2>1, <3>2, Zenon
      <3>4. [k \in 1..0 |-> i] \in [1..0 -> S] /\ 0 \in Nat
        OBVIOUS
      <3>5. [k \in 1..0 |-> i] \in Seq(S) /\ Len([k \in 1..0 |-> i]) = 0
        BY <3>4, FunctionIsSeq, Zenon
      <3> QED
        BY <2>3, <3>3, <3>5, Zenon
    <2> QED
      BY <2>2, <2>3
  <1>4. ss \in Seq(Seq(S)) /\ Len(ss) = w
    <2>1. ss = [i \in 1..w |-> ss[i]]
      BY <1>1
    <2> HIDE DEF ss
    <2>2. ss \in [1..w -> Seq(S)]
      BY <1>3, <2>1
    <2> QED
      BY <1>1, <2>2, FunctionIsSeq
  <1> HIDE DEF ss
  <1>5. PICK pos \in [Nat -> Nat] : IsLayout(ss, pos) /\ IsPlaced(row, ss, pos, w)
    BY <1>4, FlattenLayout
  <1>6. row \in Seq(S)
    BY <1>4, FlattenLayout
  <1> HIDE DEF row
  <1>7. /\ Len(row) = pos[w] /\ DOMAIN row = 1..Len(row)
        /\ \A b, k : b \in 1..w /\ k \in 1..Len(ss[b]) =>
                pos[b - 1] + k \in 1..pos[w] /\ row[pos[b - 1] + k] = ss[b][k]
        /\ \A i \in 1..pos[w] : \E b, k :
                b \in 1..w /\ k \in 1..Len(ss[b]) /\ i = pos[b - 1] + k
    <2>1. DOMAIN row = 1..Len(row)
      BY <1>6, LenProperties
    <2> QED
      BY <1>5, <2>1, Zenon DEF IsPlaced
  <1>8. ASSUME NEW i \in DOMAIN row
        PROVE  /\ row[i] \in 1..w /\ v \in ToSet(matches[row[i]])
               /\ i = pos[row[i] - 1] + 1
    <2>1. PICK b, k : b \in 1..w /\ k \in 1..Len(ss[b]) /\ i = pos[b - 1] + k
      BY <1>7, Zenon
    <2>2. v \in ToSet(matches[b]) /\ Len(ss[b]) = 1 /\ ss[b][1] = b
      <3>1. CASE v \in ToSet(matches[b])
        BY <1>3, <2>1, <3>1
      <3>2. CASE v \notin ToSet(matches[b])
        <4>1. Len(ss[b]) = 0
          BY <1>3, <2>1, <3>2
        <4> QED
          BY <2>1, <4>1
      <3> QED
        BY <3>1, <3>2
    <2>3. k = 1
      BY <2>1, <2>2
    <2>4. row[i] = ss[b][k]
      BY <1>7, <2>1, Zenon
    <2>5. row[i] = b
      BY <2>2, <2>3, <2>4, Zenon
    <2> QED
      BY <2>1, <2>2, <2>3, <2>5, Zenon
  <1>9. IsInjective(row)
    BY <1>8, Zenon DEF IsInjective
  <1>10. ASSUME NEW j \in 1..w PROVE j \in ToSet(row) <=> v \in ToSet(matches[j])
    <2>1. ASSUME j \in ToSet(row) PROVE v \in ToSet(matches[j])
      BY <1>8, <2>1, Zenon DEF ToSet
    <2>2. ASSUME v \in ToSet(matches[j]) PROVE j \in ToSet(row)
      <3>1. Len(ss[j]) = 1 /\ ss[j][1] = j
        BY <1>3, <2>2
      <3>2. 1 \in 1..Len(ss[j])
        BY <3>1
      <3>3. pos[j - 1] + 1 \in DOMAIN row /\ row[pos[j - 1] + 1] = j
        BY <1>7, <3>1, <3>2, Zenon
      <3> QED
        BY <3>3, Zenon DEF ToSet
    <2> QED
      BY <2>1, <2>2
  <1>11. RowOk(row, matches, v)
    BY <1>6, <1>9, <1>10, Zenon DEF RowOk, S, w
  <1> QED
    BY <1>2, <1>11, Zenon DEF v

(* What the worker reads of the message is the bundle, turned around.       *)
Read(m) ==
    LET at == CellOffset(m)
    IN  [ids     |-> [k \in 1..m[1] |-> m[2 * k + 1]],
         locals  |-> [k \in 1..m[1] |-> m[2 * k + 2]],
         cells   |-> [j \in 1..m[2] |-> m[at[j + 1] - 1]],
         matches |-> Transposed([j \in 1..m[2] |->
                                    SubSeq(m, at[j] + 1, at[j] + m[at[j]])], m[1]),
         index   |-> 0]

ReadOk(wb, keys, cells, matches) ==
    /\ Len(wb.ids) = Len(keys)
    /\ \A k \in 1..Len(keys) : /\ wb.ids[k] = keys[k] /\ wb.locals[k] = Leaf(keys[k])
                               /\ RowOk(wb.matches[k], matches, k - 1)
    /\ \A j \in 1..Len(cells) : wb.cells[j] = cells[j]

LEMMA ReadBack ==
    ASSUME NEW keys \in Seq(Nat), NEW cells \in Seq(Cells), NEW matches \in Seq(Seq(Nat)),
           Len(matches) = Len(cells), \A j \in 1..Len(cells) : IsInjective(matches[j]),
           NEW m, m = Message(keys, cells, matches)
    PROVE  ReadOk(Read(m), keys, cells, matches)
  <1> DEFINE n == Len(keys)
             w == Len(cells)
             off == CellOffset(m)
             table == [j \in 1..m[2] |-> SubSeq(m, off[j] + 1, off[j] + m[off[j]])]
  <1>1. PICK at : IsMessage(m, keys, cells, matches, at)
    BY MessageLayout, Zenon
  <1>2. \A j \in 1..(w + 1) : off[j] = at[j]
    <2>1. \A j \in 1..(Len(cells) + 1) : CellOffset(m)[j] = at[j]
      BY <1>1, CellOffsetFinds
    <2> QED
      BY <2>1, Zenon
  <1>3. /\ n \in Nat /\ w \in Nat /\ m[1] = n /\ m[2] = w
        /\ \A k \in 1..n : m[2 * k + 1] = keys[k] /\ m[2 * k + 2] = Leaf(keys[k]) /\ keys[k] \in Nat
        /\ at \in [1..(w + 1) -> Nat]
        /\ \A j \in 1..w :
              /\ m[at[j]] = Len(matches[j])
              /\ \A i \in 1..Len(matches[j]) : m[at[j] + i] = matches[j][i]
              /\ m[at[j + 1] - 1] = cells[j]
    <2>1. n \in Nat /\ w \in Nat
      BY LenProperties
    <2>2. \A k \in 1..n : keys[k] \in Nat
      BY ElementOfSeq
    <2> QED
      BY <1>1, <2>1, <2>2, Zenon DEF IsMessage
  <1> HIDE DEF off, n, w
  <1>4. ASSUME NEW j \in 1..w PROVE table[j] = matches[j]
    <2>1. matches[j] \in Seq(Nat) /\ j \in 1..(w + 1) /\ at[j] \in Nat
      <3>1. j \in 1..(w + 1)
        BY <1>3
      <3>2. matches[j] \in Seq(Nat)
        BY ElementOfSeq DEF w
      <3> QED
        BY <1>3, <3>1, <3>2
    <2> DEFINE l == Len(matches[j])
               a == at[j]
    <2>2. l \in Nat /\ \A i \in 1..l : matches[j][i] \in Nat
      <3>1. l \in Nat
        BY <2>1, LenProperties
      <3> QED
        BY <2>1, <3>1, ElementOfSeq
    <2>3. table[j] = SubSeq(m, off[j] + 1, off[j] + m[off[j]])
      BY <1>3
    <2>4. off[j] = a /\ m[off[j]] = l /\ a \in Nat
      BY <1>2, <1>3, <2>1, Zenon
    <2>5. \A i \in 1..l : m[a + i] = matches[j][i]
      BY <1>3
    <2>6. table[j] = SubSeq(m, a + 1, a + l)
      BY <2>3, <2>4, Zenon
    <2> HIDE DEF table, l, a
    <2>7. ASSUME NEW x \in (a + 1)..(a + l) PROVE m[x] \in Nat
      <3>1. x - a \in 1..l /\ a + (x - a) = x
        BY <2>2, <2>4
      <3>2. m[a + (x - a)] = matches[j][x - a]
        BY <2>5, <3>1, Zenon
      <3> QED
        BY <2>2, <3>1, <3>2, Zenon
    <2>8. PICK p, q : p = a + 1 /\ q = a + l
      OBVIOUS
    <2>9. p \in Int /\ q \in Int /\ q - p + 1 = l
      BY <2>2, <2>4, <2>8
    <2> DEFINE s == SubSeq(m, p, q)
    <2>10. /\ s \in Seq(Nat) /\ Len(s) = IF p <= q THEN q - p + 1 ELSE 0
           /\ \A i \in 1..(q - p + 1) : s[i] = m[p + i - 1]
      <3>1. \A i \in p..q : m[i] \in Nat
        BY <2>7, <2>8
      <3>2. s \in Seq(Nat)
        BY <2>9, <3>1, SubSeqProperties
      <3>3. Len(s) = IF p <= q THEN q - p + 1 ELSE 0
        BY <2>9, <3>1, SubSeqProperties
      <3>4. \A i \in 1..(q - p + 1) : s[i] = m[p + i - 1]
        BY <2>9, <3>1, SubSeqProperties
      <3> QED
        BY <3>2, <3>3, <3>4
    <2> HIDE DEF s
    <2>11. Len(s) = l
      BY <2>2, <2>4, <2>8, <2>9, <2>10
    <2>12. ASSUME NEW i \in 1..l PROVE s[i] = matches[j][i]
      <3>1. p + i - 1 = a + i
        BY <2>2, <2>4, <2>8
      <3>2. s[i] = m[p + i - 1]
        BY <2>9, <2>10, Zenon
      <3> QED
        BY <2>5, <3>1, <3>2, Zenon
    <2>13. s = matches[j]
      <3>1. Len(s) = Len(matches[j]) /\ \A i \in 1..Len(s) : s[i] = matches[j][i]
        BY <2>11, <2>12, Zenon DEF l
      <3> QED
        BY <2>1, <2>10, <3>1, SeqEqual
    <2> QED
      BY <2>6, <2>8, <2>13, Zenon DEF s
  <1>5. table = matches
    <2>1. DOMAIN table = 1..w /\ table = [j \in 1..w |-> table[j]]
      BY <1>3
    <2>2. DOMAIN matches = 1..w /\ matches = [j \in 1..w |-> matches[j]]
      BY LenProperties DEF w
    <2> HIDE DEF table
    <2> QED
      BY <1>4, <2>1, <2>2
  <1> DEFINE wb == Read(m)
  <1>6. /\ wb.ids = [k \in 1..n |-> m[2 * k + 1]]
        /\ wb.locals = [k \in 1..n |-> m[2 * k + 2]]
        /\ wb.cells = [j \in 1..w |-> m[off[j + 1] - 1]]
        /\ wb.matches = Transposed(table, n)
    BY <1>3 DEF Read, off
  <1> HIDE DEF wb, table
  <1>7. Len(wb.ids) = n /\ \A k \in 1..n : wb.ids[k] = keys[k] /\ wb.locals[k] = Leaf(keys[k])
    <2>1. [k \in 1..n |-> m[2 * k + 1]] \in [1..n -> Nat]
      BY <1>3
    <2>2. Len(wb.ids) = n
      <3>1. wb.ids \in [1..n -> Nat]
        BY <1>6, <2>1, Zenon
      <3> QED
        BY <1>3, <3>1, FunctionIsSeq
    <2>3. ASSUME NEW k \in 1..n PROVE wb.ids[k] = keys[k] /\ wb.locals[k] = Leaf(keys[k])
      <3>1. wb.ids[k] = m[2 * k + 1] /\ wb.locals[k] = m[2 * k + 2]
        BY <1>6
      <3> QED
        BY <1>3, <3>1, Zenon
    <2> QED
      BY <2>2, <2>3
  <1>8. ASSUME NEW k \in 1..n PROVE RowOk(wb.matches[k], matches, k - 1)
    <2>1. \A j \in 1..Len(matches) : IsInjective(matches[j])
      OBVIOUS
    <2>2. RowOk(Transposed(matches, n)[k], matches, k - 1)
      BY <2>1, TransposedRow
    <2> QED
      BY <1>5, <1>6, <2>2, Zenon
  <1>9. ASSUME NEW j \in 1..w PROVE wb.cells[j] = cells[j]
    <2>1. j + 1 \in 1..(w + 1)
      BY <1>3
    <2>2. off[j + 1] = at[j + 1]
      BY <1>2, <2>1, Zenon
    <2>3. wb.cells[j] = m[off[j + 1] - 1]
      BY <1>6
    <2> QED
      BY <1>3, <2>2, <2>3, Zenon
  <1>10. ReadOk(wb, keys, cells, matches)
    BY <1>7, <1>8, <1>9, Zenon DEF ReadOk, n, w
  <1> QED
    BY <1>10, Zenon DEF wb
-------------------------------------------------------------------------------
(* A unit: the leaf at its place in the bundle, and what that leaf needs.   *)
Unit == [id : Nat, local : Word, M : Seq(Cells)]

UnitOk(unit, k) ==
    /\ unit.id = offset + k - 1
    /\ unit.local = Leaf(unit.id)
    /\ ToSet(unit.M) = ToSet(neighbors[unit.id]) \ empty
    /\ IsInjective(unit.M)

WorkOk ==
    /\ wbundle = [ids     |-> wbundle.ids,     locals |-> wbundle.locals,
                  cells   |-> wbundle.cells,
                  matches |-> wbundle.matches, index  |-> wbundle.index]
    /\ ReadOk(wbundle, bundle.keys, bundle.cells, bundle.matches)
    /\ wbundle.index \in Nat
    /\ workunits \in Seq(Unit) /\ Len(workunits) = wbundle.index
    /\ \A k \in 1..Len(workunits) : UnitOk(workunits[k], k)

BundleIsOk == BundleOk(bundle.keys, bundle.cells, bundle.matches)

TableOk == Holds(dict, Needs(Len(ids)))

BundlingInv ==
    /\ TreeOk
    /\ stage \in {"pour", "send", "receive", "kick"}
    /\ stage = "pour" => IdsOk /\ TableOk
    /\ stage # "pour" => BundleIsOk
    /\ stage = "receive" => msg = Message(bundle.keys, bundle.cells, bundle.matches)
    /\ stage # "kick" => workunits = <<>>
    /\ stage = "kick" => WorkOk

LEMMA BundlingInitially == Init => BundlingInv
  <1> SUFFICES ASSUME Init PROVE BundlingInv
    OBVIOUS
  <1>1. LeafCnt \in Nat /\ MaxNeighbors \in Nat /\ BucketCnt \in Nat
    BY BundlingAssumption
  <1>2. \A s \in Neighborhoods : s \in Seq(Cells) /\ IsInjective(s)
    <2> SUFFICES ASSUME NEW s \in Neighborhoods PROVE s \in Seq(Cells) /\ IsInjective(s)
      OBVIOUS
    <2>1. IsInjective(s) /\ s \in BoundedSeq(Cells, MaxNeighbors)
      BY DEF Neighborhoods
    <2>2. PICK n \in 0..MaxNeighbors : s \in [1..n -> Cells]
      BY <2>1 DEF BoundedSeq, SeqOf
    <2>3. n \in Nat
      BY <1>1
    <2> QED
      BY <2>1, <2>2, <2>3, FunctionIsSeq
  <1>3. TreeOk
    <2>1. neighbors \in [LeafIds -> Neighborhoods]
      BY DEF Init
    <2>2. neighbors \in [LeafIds -> Seq(Cells)] /\ \A i \in LeafIds : IsInjective(neighbors[i])
      BY <1>2, <2>1
    <2>3. empty \in SUBSET Cells /\ hash \in [Cells -> Buckets] /\ offset \in LeafIds
      BY DEF Init, Buckets
    <2> QED
      BY <2>2, <2>3 DEF TreeOk
  <1>4. ids = <<>> /\ Len(ids) = 0
    BY DEF Init
  <1>5. IdsOk
    <2>1. offset \in Nat /\ offset <= LeafCnt
      BY <1>1, <1>3 DEF TreeOk, LeafIds
    <2> QED
      BY <1>4, <2>1 DEF IdsOk
  <1>6. TableOk
    <2>1. dict \in Tables /\ \A b \in Buckets : dict[b] = <<>>
      <3>1. dict = [b \in Buckets |-> <<>>] /\ <<>> \in Seq(Entry)
        BY EmptySeq DEF Init, Buckets
      <3> QED
        BY <3>1 DEF Tables
    <2>2. \A c, u : <<c, u>> \notin Needs(0)
      <3>1. \A u : u \notin 0..(0 - 1)
        OBVIOUS
      <3> QED
        BY <3>1 DEF Needs
    <2>3. \A b \in Buckets : ChainOk(b, dict[b], Needs(0))
      <3> SUFFICES ASSUME NEW b \in Buckets PROVE ChainOk(b, dict[b], Needs(0))
        OBVIOUS
      <3>1. dict[b] = <<>>
        BY <2>1
      <3>2. ChainOk(b, <<>>, Needs(0))
        BY <2>2 DEF ChainOk
      <3> QED
        BY <3>1, <3>2
    <2> QED
      BY <1>4, <2>1, <2>3 DEF TableOk, Holds
  <1> QED
    BY <1>3, <1>5, <1>6 DEF BundlingInv, Init

(* What the fixed tree makes of the parts of the invariant in a step.       *)
LEMMA TreeKept ==
    ASSUME TreeOk, UNCHANGED tree
    PROVE  TreeOk'
  BY DEF TreeOk, tree

LEMMA TableKept ==
    ASSUME UNCHANGED tree, NEW n, n = Len(ids'), Holds(dict', Needs(n))
    PROVE  TableOk'
  <1>1. empty' = empty /\ hash' = hash /\ neighbors' = neighbors /\ offset' = offset
    BY DEF tree
  <1>2. Needs(Len(ids))' = Needs(n)
    BY <1>1 DEF Needs, Pairs
  <1>3. PICK D, P : D = dict' /\ P = Needs(n)
    OBVIOUS
  <1>4. D \in Tables /\ \A b \in Buckets : ChainOk(b, D[b], P)
    BY <1>3 DEF Holds
  <1>5. \A b \in Buckets : ChainOk(b, D[b], P)'
    <2> SUFFICES ASSUME NEW b \in Buckets PROVE ChainOk(b, D[b], P)'
      OBVIOUS
    <2>1. ChainOk(b, D[b], P)
      BY <1>4
    <2>2. \A k \in 1..Len(D[b]) : EntryOk(b, D[b][k], P)'
      BY <1>1, <2>1, Zenon DEF ChainOk, EntryOk
    <2> QED
      BY <1>1, <2>1, <2>2, Zenon DEF ChainOk
  <1>6. Holds(D, P)'
    BY <1>4, <1>5, Zenon DEF Holds
  <1> QED
    BY <1>2, <1>3, <1>4, <1>5, Zenon DEF TableOk, Holds

LEMMA BundleKept ==
    ASSUME UNCHANGED tree, NEW k, NEW c, NEW m, BundleOk(k, c, m)
    PROVE  BundleOk(k, c, m)'
  BY Zenon DEF BundleOk, tree

(* One more leaf is at the head of the list, and its cells are in the table. *)
LEMMA PourKeeps ==
    ASSUME BundlingInv, Pour
    PROVE  BundlingInv'
  <1> DEFINE i == Len(ids)
             leaf == offset + i
             cells == neighbors[leaf]
  <1>1. /\ TreeOk /\ IdsOk /\ TableOk /\ stage = "pour" /\ workunits = <<>>
        /\ UNCHANGED tree /\ stage' = stage /\ workunits' = workunits
        /\ leaf \in LeafIds /\ ids' = <<leaf>> \o ids /\ dict' = Poured(cells, i)
    BY DEF BundlingInv, Pour
  <1>2. i \in Nat /\ offset \in Nat /\ LeafCnt \in Nat /\ leaf \in Nat /\ leaf < LeafCnt
    <2>1. i \in Nat
      BY <1>1, LenProperties DEF IdsOk
    <2>2. offset \in Nat /\ LeafCnt \in Nat
      BY <1>1, OffsetNat
    <2> HIDE DEF i
    <2> QED
      BY <1>1, <2>1, <2>2 DEF LeafIds
  <1>3. cells \in Seq(Cells) /\ IsInjective(cells)
    BY <1>1 DEF TreeOk
  <1>4. TreeOk'
    BY <1>1, TreeKept
  <1> HIDE DEF i, leaf, cells
  <1>5. /\ ids' \in Seq(Nat) /\ Len(ids') = i + 1
        /\ \A k \in 1..(i + 1) : ids'[k] = offset + (i + 1) - k
    <2> DEFINE a == <<leaf>>
    <2>1. a \in Seq(Nat) /\ Len(a) = 1 /\ a[1] = leaf
      BY <1>2
    <2>2. ids \in Seq(Nat) /\ \A k \in 1..i : ids[k] = offset + i - k
      BY <1>1 DEF IdsOk, i
    <2>3. ids' = a \o ids
      BY <1>1
    <2> HIDE DEF a
    <2>4. PICK x, s : x = 1 /\ s = ids'
      OBVIOUS
    <2>5. /\ s \in Seq(Nat) /\ Len(s) = x + i
          /\ \A k \in 1..x : s[k] = a[k]
          /\ \A k \in 1..i : s[x + k] = ids[k]
      <3>1. a \in Seq(Nat) /\ ids \in Seq(Nat) /\ s = a \o ids /\ x = Len(a) /\ i = Len(ids)
        BY <2>1, <2>2, <2>3, <2>4 DEF i
      <3> QED
        BY <3>1, ConcatParts
    <2>6. ASSUME NEW k \in 1..(i + 1) PROVE s[k] = offset + (i + 1) - k
      <3>1. CASE k = 1
        <4>1. 1 \in 1..x
          BY <2>4
        <4>2. s[1] = leaf
          BY <2>1, <2>5, <4>1, Zenon
        <4>3. offset + (i + 1) - 1 = leaf
          BY <1>2 DEF leaf
        <4> QED
          BY <3>1, <4>2, <4>3, Zenon
      <3>2. CASE k # 1
        <4>1. PICK j : j = k - 1
          OBVIOUS
        <4>2. j \in 1..i /\ x + j = k /\ offset + i - j = offset + (i + 1) - k
          BY <1>2, <2>4, <3>2, <4>1
        <4>3. s[x + j] = ids[j] /\ ids[j] = offset + i - j
          BY <2>2, <2>5, <4>2, Zenon
        <4> QED
          BY <4>2, <4>3, Zenon
      <3> QED
        BY <3>1, <3>2
    <2>7. Len(s) = i + 1
      BY <1>2, <2>4, <2>5
    <2> QED
      BY <2>4, <2>5, <2>6, <2>7, Zenon
  <1>6. IdsOk'
    <2>1. offset' = offset
      BY <1>1 DEF tree
    <2>2. offset + (i + 1) <= LeafCnt
      BY <1>2 DEF leaf
    <2> QED
      BY <1>5, <2>1, <2>2, Zenon DEF IdsOk
  <1>7. Holds(dict', Needs(i + 1))
    <2>1. Holds(dict, Needs(i))
      BY <1>1 DEF TableOk, i
    <2>2. /\ \A c, u : <<c, u>> \in Needs(i)
                    => u \in 0..(i - 1) /\ c \in ToSet(neighbors[offset + u])
          /\ Needs(i + 1) = Needs(i) \cup Pairs(cells, i)
      BY <1>2, NeedsOf DEF cells, leaf
    <2>3. \A c \in Cells : <<c, i>> \notin Needs(i)
      <3>1. i \notin 0..(i - 1)
        BY <1>2
      <3> QED
        BY <2>2, <3>1, Zenon
    <2>4. Holds(Poured(cells, i), Needs(i) \cup Pairs(cells, i))
      BY <1>1, <1>2, <1>3, <2>1, <2>3, PouredHolds
    <2> QED
      BY <1>1, <2>2, <2>4, Zenon
  <1>8. TableOk'
    BY <1>1, <1>5, <1>7, TableKept
  <1>9. stage' = "pour" /\ workunits' = <<>>
    BY <1>1
  <1> QED
    BY <1>4, <1>6, <1>8, <1>9 DEF BundlingInv

LEMMA BundleDictKeeps ==
    ASSUME BundlingInv, BundleDict
    PROVE  BundlingInv'
  <1>1. /\ TreeOk /\ IdsOk /\ TableOk /\ workunits = <<>>
        /\ UNCHANGED tree /\ stage' = "send" /\ workunits' = workunits
        /\ bundle' = [keys    |-> Reverse(ids),
                      cells   |-> [j \in DOMAIN Entries |-> Entries[j].key],
                      matches |-> [j \in DOMAIN Entries |-> Entries[j].subkeys]]
    BY DEF BundlingInv, BundleDict
  <1> DEFINE k == Reverse(ids)
             c == [j \in DOMAIN Entries |-> Entries[j].key]
             m == [j \in DOMAIN Entries |-> Entries[j].subkeys]
  <1>2. BundleOk(k, c, m)
    BY <1>1, BundleOfTable DEF TableOk
  <1>3. bundle'.keys = k /\ bundle'.cells = c /\ bundle'.matches = m
    BY <1>1
  <1> HIDE DEF k, c, m
  <1>4. BundleIsOk'
    <2>1. PICK x, y, z : x = k /\ y = c /\ z = m
      OBVIOUS
    <2>2. BundleOk(x, y, z)
      BY <1>2, <2>1
    <2>3. BundleOk(x, y, z)'
      BY <1>1, <2>2, BundleKept
    <2>4. bundle'.keys = x /\ bundle'.cells = y /\ bundle'.matches = z
      BY <1>3, <2>1
    <2> QED
      BY <2>3, <2>4, Zenon DEF BundleIsOk, BundleOk
  <1>5. TreeOk'
    BY <1>1, TreeKept
  <1>6. stage' = "send" /\ workunits' = <<>>
    BY <1>1
  <1> QED
    BY <1>4, <1>5, <1>6 DEF BundlingInv

(* The bundle stays when it has been made.                                  *)
LEMMA BundleIsKept ==
    ASSUME BundleIsOk, UNCHANGED <<tree, bundle>>
    PROVE  BundleIsOk'
  <1>1. PICK x, y, z : x = bundle.keys /\ y = bundle.cells /\ z = bundle.matches
    OBVIOUS
  <1>2. BundleOk(x, y, z)
    BY <1>1 DEF BundleIsOk
  <1>3. BundleOk(x, y, z)'
    BY <1>2, BundleKept
  <1>4. bundle'.keys = x /\ bundle'.cells = y /\ bundle'.matches = z
    BY <1>1
  <1> QED
    BY <1>3, <1>4, Zenon DEF BundleIsOk, BundleOk

LEMMA SerializeKeeps ==
    ASSUME BundlingInv, SerializeBundle
    PROVE  BundlingInv'
  <1>1. /\ TreeOk /\ BundleIsOk /\ workunits = <<>>
        /\ UNCHANGED tree /\ bundle' = bundle /\ stage' = "receive" /\ workunits' = workunits
        /\ msg' = <<Len(bundle.keys), Len(bundle.cells)>>
                  \o FlattenSeq([k \in DOMAIN bundle.keys |->
                                    <<bundle.keys[k], Leaf(bundle.keys[k])>>])
                  \o FlattenSeq([j \in DOMAIN bundle.cells |->
                                    <<Len(bundle.matches[j])>> \o bundle.matches[j]
                                    \o <<bundle.cells[j]>>])
    BY DEF BundlingInv, SerializeBundle
  <1>2. msg' = Message(bundle.keys, bundle.cells, bundle.matches)
    BY <1>1, Zenon DEF Message, IdParts, CellParts, CellPart
  <1>3. TreeOk' /\ BundleIsOk'
    BY <1>1, TreeKept, BundleIsKept
  <1>4. msg' = Message(bundle.keys, bundle.cells, bundle.matches)'
    BY <1>1, <1>2, Zenon DEF Message, IdParts, CellParts, CellPart
  <1>5. stage' = "receive" /\ workunits' = <<>>
    BY <1>1
  <1> QED
    BY <1>3, <1>4, <1>5 DEF BundlingInv

LEMMA DeserializeKeeps ==
    ASSUME BundlingInv, DeserializeBundle
    PROVE  BundlingInv'
  <1>1. /\ TreeOk /\ BundleIsOk /\ workunits = <<>>
        /\ msg = Message(bundle.keys, bundle.cells, bundle.matches)
        /\ UNCHANGED tree /\ bundle' = bundle /\ stage' = "kick" /\ workunits' = workunits
        /\ wbundle' = Read(msg)
    BY Zenon DEF BundlingInv, DeserializeBundle, Read
  <1>2. /\ bundle.keys \in Seq(Nat) /\ bundle.cells \in Seq(Cells)
        /\ bundle.matches \in Seq(Seq(Nat)) /\ Len(bundle.matches) = Len(bundle.cells)
        /\ \A j \in 1..Len(bundle.cells) : IsInjective(bundle.matches[j])
    BY <1>1, Zenon DEF BundleIsOk, BundleOk
  <1>3. ReadOk(Read(msg), bundle.keys, bundle.cells, bundle.matches)
    BY <1>1, <1>2, ReadBack, Zenon
  <1>4. wbundle' = [ids     |-> wbundle'.ids,     locals |-> wbundle'.locals,
                    cells   |-> wbundle'.cells,
                    matches |-> wbundle'.matches, index  |-> wbundle'.index]
        /\ wbundle'.index = 0
    BY <1>1 DEF Read
  <1>5. WorkOk'
    <2>1. ReadOk(wbundle', bundle'.keys, bundle'.cells, bundle'.matches)
      BY <1>1, <1>3, Zenon
    <2>2. workunits' = <<>> /\ <<>> \in Seq(Unit) /\ Len(<<>>) = 0
      BY <1>1, EmptySeq
    <2>3. (\A k \in 1..Len(workunits) : UnitOk(workunits[k], k))'
      <3>1. Len(workunits') = 0
        BY <2>2, Zenon
      <3> QED
        BY <3>1
    <2> QED
      BY <1>4, <2>1, <2>2, <2>3 DEF WorkOk
  <1>6. TreeOk' /\ BundleIsOk'
    BY <1>1, TreeKept, BundleIsKept
  <1>7. stage' = "kick"
    BY <1>1
  <1> QED
    BY <1>5, <1>6, <1>7 DEF BundlingInv

(* The next unit has the neighbourhood of its leaf.                         *)
LEMMA KickBundleKeeps ==
    ASSUME BundlingInv, KickBundle
    PROVE  BundlingInv'
  <1> DEFINE u == wbundle.index + 1
             row == wbundle.matches[u]
             M == [k \in DOMAIN row |-> wbundle.cells[row[k]]]
             unit == [id |-> wbundle.ids[u], local |-> wbundle.locals[u], M |-> M]
             n == Len(bundle.keys)
             w == Len(bundle.cells)
  <1>1. /\ TreeOk /\ BundleIsOk /\ WorkOk /\ stage = "kick"
        /\ UNCHANGED tree /\ bundle' = bundle /\ stage' = stage
        /\ wbundle.index < Len(wbundle.ids)
        /\ workunits' = Append(workunits, unit)
        /\ wbundle' = [wbundle EXCEPT !.index = @ + 1]
    BY DEF BundlingInv, KickBundle
  <1>2. /\ bundle.keys \in Seq(Nat) /\ bundle.cells \in Seq(Cells)
        /\ Len(bundle.matches) = w
        /\ IsInjective(bundle.cells)
        /\ \A k \in 1..n : bundle.keys[k] = offset + k - 1
        /\ \A j \in 1..w : bundle.cells[j] \notin empty
        /\ \A j \in 1..w : \A v \in Nat :
              v \in ToSet(bundle.matches[j])
              <=> v \in 0..(n - 1) /\ bundle.cells[j] \in ToSet(neighbors[offset + v])
        /\ \A c \in Cells \ empty : \A v \in 0..(n - 1) :
              c \in ToSet(neighbors[offset + v]) => \E j \in 1..w : bundle.cells[j] = c
        /\ offset + n <= LeafCnt
    BY <1>1, Zenon DEF BundleIsOk, BundleOk
  <1>3. /\ n \in Nat /\ w \in Nat /\ offset \in Nat /\ LeafCnt \in Nat
        /\ DOMAIN bundle.cells = 1..w
        /\ \A j \in 1..w : bundle.cells[j] \in Cells
        /\ \A k \in 1..n : bundle.keys[k] \in Nat
    <2>1. n \in Nat /\ w \in Nat /\ DOMAIN bundle.cells = 1..w
      BY <1>2, LenProperties
    <2>2. offset \in Nat /\ LeafCnt \in Nat
      BY <1>1, OffsetNat
    <2>3. /\ \A j \in 1..w : bundle.cells[j] \in Cells
          /\ \A k \in 1..n : bundle.keys[k] \in Nat
      BY <1>2, ElementOfSeq
    <2> QED
      BY <2>1, <2>2, <2>3
  <1> HIDE DEF n, w
  <1>4. /\ Len(wbundle.ids) = n /\ wbundle.index \in Nat
        /\ \A k \in 1..n : /\ wbundle.ids[k] = bundle.keys[k]
                           /\ wbundle.locals[k] = Leaf(bundle.keys[k])
                           /\ RowOk(wbundle.matches[k], bundle.matches, k - 1)
        /\ \A j \in 1..w : wbundle.cells[j] = bundle.cells[j]
    BY <1>1, Zenon DEF WorkOk, ReadOk, n, w
  <1>5. u \in 1..n
    BY <1>1, <1>3, <1>4
  <1>6. /\ unit.id = bundle.keys[u] /\ unit.local = Leaf(bundle.keys[u]) /\ unit.M = M
        /\ RowOk(row, bundle.matches, u - 1)
    BY <1>4, <1>5, Zenon
  <1>7. /\ row \in Seq(1..w) /\ IsInjective(row) /\ DOMAIN row = 1..Len(row)
        /\ Len(row) \in Nat
        /\ \A k \in DOMAIN row : row[k] \in 1..w /\ wbundle.cells[row[k]] = bundle.cells[row[k]]
        /\ \A j \in 1..w : j \in ToSet(row) <=> u - 1 \in ToSet(bundle.matches[j])
    <2>1. /\ row \in Seq(1..w) /\ IsInjective(row)
          /\ \A j \in 1..w : j \in ToSet(row) <=> u - 1 \in ToSet(bundle.matches[j])
      BY <1>2, <1>6, Zenon DEF RowOk
    <2> HIDE DEF row
    <2>2. DOMAIN row = 1..Len(row) /\ Len(row) \in Nat
      BY <2>1, LenProperties
    <2>3. \A k \in DOMAIN row : row[k] \in 1..w
      BY <2>1, <2>2, ElementOfSeq
    <2> QED
      BY <1>4, <2>1, <2>2, <2>3
  <1>8. u - 1 \in Nat /\ u - 1 \in 0..(n - 1) /\ offset + (u - 1) = offset + u - 1
    BY <1>3, <1>5
  <1>9. unit.id = offset + u - 1 /\ bundle.keys[u] \in Nat
    BY <1>2, <1>3, <1>5, <1>6
  <1> HIDE DEF u, row
  <1>10. M = [k \in DOMAIN row |-> bundle.cells[row[k]]]
    BY <1>7
  <1> HIDE DEF M, unit
  <1>11. M \in Seq(Cells) /\ DOMAIN M = DOMAIN row
         /\ \A k \in DOMAIN row : M[k] = bundle.cells[row[k]]
    <2>1. M \in [1..Len(row) -> Cells]
      BY <1>3, <1>7, <1>10
    <2>2. M \in Seq(Cells)
      BY <1>7, <2>1, FunctionIsSeq
    <2> QED
      BY <1>10, <2>2
  <1>12. IsInjective(M)
    <2> SUFFICES ASSUME NEW a \in DOMAIN row, NEW b \in DOMAIN row, M[a] = M[b]
                 PROVE  a = b
      BY <1>11 DEF IsInjective
    <2>1. bundle.cells[row[a]] = bundle.cells[row[b]] /\ row[a] \in 1..w /\ row[b] \in 1..w
      BY <1>7, <1>11
    <2>2. row[a] = row[b]
      BY <1>2, <1>3, <2>1 DEF IsInjective
    <2> QED
      BY <1>7, <2>2 DEF IsInjective
  <1>13. ToSet(M) = ToSet(neighbors[unit.id]) \ empty
    <2>1. neighbors[unit.id] = neighbors[offset + (u - 1)]
      BY <1>8, <1>9
    <2>2. ASSUME NEW c \in ToSet(M) PROVE c \in ToSet(neighbors[unit.id]) \ empty
      <3>1. PICK k \in DOMAIN row : c = bundle.cells[row[k]]
        BY <1>11 DEF ToSet
      <3>2. row[k] \in 1..w /\ row[k] \in ToSet(row)
        BY <1>7 DEF ToSet
      <3>3. u - 1 \in ToSet(bundle.matches[row[k]])
        BY <1>7, <3>2
      <3>4. c \in ToSet(neighbors[offset + (u - 1)])
        BY <1>2, <1>8, <3>1, <3>2, <3>3
      <3> QED
        BY <1>2, <2>1, <3>1, <3>2, <3>4
    <2>3. ASSUME NEW c \in ToSet(neighbors[unit.id]) \ empty PROVE c \in ToSet(M)
      <3>1. c \in Cells
        <4>1. offset + (u - 1) \in LeafIds
          BY <1>2, <1>3, <1>8 DEF LeafIds
        <4>2. neighbors[unit.id] \in Seq(Cells)
          BY <1>1, <2>1, <4>1 DEF TreeOk
        <4>3. PICK s \in Seq(Cells) : s = neighbors[unit.id]
          BY <4>2
        <4>4. \A k \in DOMAIN s : s[k] \in Cells
          BY LenProperties, ElementOfSeq
        <4> QED
          BY <2>3, <4>3, <4>4 DEF ToSet
      <3>2. PICK j \in 1..w : bundle.cells[j] = c
        BY <1>2, <1>8, <2>1, <2>3, <3>1
      <3>3. u - 1 \in ToSet(bundle.matches[j])
        BY <1>2, <1>8, <2>1, <2>3, <3>2
      <3>4. PICK k \in DOMAIN row : row[k] = j
        BY <1>7, <3>3 DEF ToSet
      <3> QED
        BY <1>11, <3>2, <3>4 DEF ToSet
    <2> QED
      BY <2>2, <2>3
  <1>14. UnitOk(unit, u)
    BY <1>6, <1>9, <1>12, <1>13 DEF UnitOk
  <1>15. unit \in Unit
    <2>1. unit = [id |-> bundle.keys[u], local |-> Leaf(bundle.keys[u]), M |-> M]
      BY <1>4, <1>5 DEF unit
    <2>2. Leaf(bundle.keys[u]) \in Word
      BY <1>9 DEF Word
    <2> QED
      BY <1>9, <1>11, <2>1, <2>2 DEF Unit
  <1>16. /\ workunits' \in Seq(Unit) /\ Len(workunits') = u
         /\ \A k \in 1..u : UnitOk(workunits'[k], k)
    <2>1. /\ workunits \in Seq(Unit) /\ Len(workunits) = wbundle.index
          /\ \A k \in 1..wbundle.index : UnitOk(workunits[k], k)
      BY <1>1 DEF WorkOk
    <2>2. PICK t : t = workunits'
      OBVIOUS
    <2>3. t = Append(workunits, unit)
      BY <1>1, <2>2 DEF M, unit, row, u
    <2>4. /\ t \in Seq(Unit) /\ Len(t) = Len(workunits) + 1
          /\ \A k \in 1..Len(workunits) : t[k] = workunits[k]
          /\ t[Len(workunits) + 1] = unit
      BY <1>15, <2>1, <2>3, AppendProperties
    <2>5. Len(t) = u /\ t[u] = unit /\ \A k \in 1..wbundle.index : t[k] = workunits[k]
      BY <2>1, <2>4, Zenon DEF u
    <2>6. ASSUME NEW k \in 1..u PROVE UnitOk(t[k], k)
      <3>1. CASE k = u
        BY <1>14, <2>5, <3>1
      <3>2. CASE k # u
        <4>1. k \in 1..wbundle.index
          BY <1>4, <3>2 DEF u
        <4> QED
          BY <2>1, <2>5, <4>1
      <3> QED
        BY <3>1, <3>2
    <2> QED
      BY <2>2, <2>4, <2>5, <2>6, Zenon
  <1>17. /\ wbundle' = [ids     |-> wbundle.ids,     locals |-> wbundle.locals,
                        cells   |-> wbundle.cells,
                        matches |-> wbundle.matches, index  |-> u]
         /\ ReadOk(wbundle, bundle.keys, bundle.cells, bundle.matches)
    <2>1. /\ wbundle = [ids     |-> wbundle.ids,     locals |-> wbundle.locals,
                        cells   |-> wbundle.cells,
                        matches |-> wbundle.matches, index  |-> wbundle.index]
          /\ ReadOk(wbundle, bundle.keys, bundle.cells, bundle.matches)
      BY <1>1 DEF WorkOk
    <2>2. PICK a, b, c, d, e :
              /\ wbundle = [ids |-> a, locals |-> b, cells |-> c, matches |-> d, index |-> e]
              /\ a = wbundle.ids /\ b = wbundle.locals /\ c = wbundle.cells
              /\ d = wbundle.matches /\ e = wbundle.index
      BY <2>1, Zenon
    <2>3. [wbundle EXCEPT !.index = @ + 1]
          = [ids |-> a, locals |-> b, cells |-> c, matches |-> d, index |-> e + 1]
      BY <2>2
    <2> QED
      BY <1>1, <2>1, <2>2, <2>3, Zenon DEF u
  <1>18. WorkOk'
    <2>1. /\ wbundle'.ids = wbundle.ids /\ wbundle'.locals = wbundle.locals
          /\ wbundle'.cells = wbundle.cells /\ wbundle'.matches = wbundle.matches
          /\ wbundle'.index = u
      BY <1>17
    <2>2. wbundle' = [ids     |-> wbundle'.ids,     locals |-> wbundle'.locals,
                      cells   |-> wbundle'.cells,
                      matches |-> wbundle'.matches, index  |-> wbundle'.index]
      BY <1>17, <2>1, Zenon
    <2>3. ReadOk(wbundle', bundle'.keys, bundle'.cells, bundle'.matches)
      BY <1>1, <1>17, <2>1, Zenon DEF ReadOk
    <2>4. u \in Nat
      BY <1>4 DEF u
    <2>5. empty' = empty /\ neighbors' = neighbors /\ offset' = offset
      BY <1>1 DEF tree
    <2>6. (\A k \in 1..Len(workunits) : UnitOk(workunits[k], k))'
      <3>1. PICK t, l : t = workunits' /\ l = u
        OBVIOUS
      <3>2. \A k \in 1..l : UnitOk(t[k], k)
        BY <1>16, <3>1, Zenon
      <3>3. \A k \in 1..l : UnitOk(t[k], k)'
        BY <2>5, <3>2, Zenon DEF UnitOk
      <3>4. Len(workunits') = l
        BY <1>16, <3>1, Zenon
      <3> QED
        BY <3>1, <3>3, <3>4, Zenon DEF UnitOk
    <2>7. wbundle'.index \in Nat /\ workunits' \in Seq(Unit) /\ Len(workunits') = wbundle'.index
      BY <1>16, <2>1, <2>4, Zenon
    <2> QED
      BY <2>2, <2>3, <2>6, <2>7, Zenon DEF WorkOk
  <1>19. TreeOk' /\ BundleIsOk'
    BY <1>1, TreeKept, BundleIsKept
  <1> QED
    BY <1>1, <1>18, <1>19 DEF BundlingInv

LEMMA StutterKeeps ==
    ASSUME BundlingInv, UNCHANGED vars
    PROVE  BundlingInv'
  <1>1. /\ UNCHANGED tree /\ dict' = dict /\ ids' = ids /\ bundle' = bundle /\ msg' = msg
        /\ wbundle' = wbundle /\ workunits' = workunits /\ stage' = stage
    BY DEF vars
  <1>2. TreeOk'
    BY <1>1, TreeKept DEF BundlingInv
  <1>3. IdsOk => IdsOk'
    BY <1>1 DEF IdsOk, tree
  <1>4. TableOk => TableOk'
    <2> SUFFICES ASSUME TableOk PROVE TableOk'
      OBVIOUS
    <2>1. Len(ids) = Len(ids') /\ Holds(dict', Needs(Len(ids)))
      BY <1>1, Zenon DEF TableOk, Holds
    <2> QED
      BY <1>1, <2>1, TableKept
  <1>5. BundleIsOk => BundleIsOk'
    BY <1>1, BundleIsKept
  <1>6. WorkOk => WorkOk'
    BY <1>1, Zenon DEF WorkOk, UnitOk, tree
  <1> QED
    BY <1>1, <1>2, <1>3, <1>4, <1>5, <1>6, Zenon DEF BundlingInv

THEOREM BundlingInvariant == Spec => []BundlingInv
  <1>1. Init => BundlingInv
    BY BundlingInitially
  <1>2. BundlingInv /\ [Next]_vars => BundlingInv'
    <2> SUFFICES ASSUME BundlingInv, [Next]_vars PROVE BundlingInv'
      OBVIOUS
    <2>1. CASE Pour
      BY <2>1, PourKeeps
    <2>2. CASE BundleDict
      BY <2>2, BundleDictKeeps
    <2>3. CASE SerializeBundle
      BY <2>3, SerializeKeeps
    <2>4. CASE DeserializeBundle
      BY <2>4, DeserializeKeeps
    <2>5. CASE KickBundle
      BY <2>5, KickBundleKeeps
    <2>6. CASE UNCHANGED vars
      BY <2>6, StutterKeeps
    <2> QED
      BY <2>1, <2>2, <2>3, <2>4, <2>5, <2>6 DEF Next
  <1> QED
    BY <1>1, <1>2, PTL DEF Spec
-------------------------------------------------------------------------------
(* The units are the leaves of the bundle, each once, in the order of the   *)
(* tree, with the bodies of that leaf.                                      *)
THEOREM UnitsInOrder == Spec => []LeavesInOrder
  <1>1. BundlingInv => LeavesInOrder
    <2> SUFFICES ASSUME BundlingInv, NEW k \in DOMAIN workunits
                 PROVE  /\ workunits[k].id = offset + k - 1
                        /\ workunits[k].local = Leaf(workunits[k].id)
      BY DEF LeavesInOrder
    <2>1. stage = "kick"
      BY DEF BundlingInv
    <2>2. WorkOk /\ DOMAIN workunits = 1..Len(workunits)
      <3>1. WorkOk
        BY <2>1 DEF BundlingInv
      <3>2. workunits \in Seq(Unit)
        BY <3>1 DEF WorkOk
      <3> QED
        BY <3>1, <3>2, LenProperties
    <2>3. UnitOk(workunits[k], k)
      BY <2>2 DEF WorkOk
    <2> QED
      BY <2>3 DEF UnitOk
  <1> QED
    BY <1>1, BundlingInvariant, PTL

(* A unit has exactly the neighbourhood its leaf had on the dispatcher: the *)
(* cells with bodies, each once, and no cell of another leaf.               *)
THEOREM UnitsHaveTheirNeighborhood == Spec => []NeighborhoodKept
  <1>1. BundlingInv => NeighborhoodKept
    <2> SUFFICES ASSUME BundlingInv, NEW k \in DOMAIN workunits
                 PROVE  /\ ToSet(workunits[k].M) = ToSet(neighbors[workunits[k].id]) \ empty
                        /\ IsInjective(workunits[k].M)
      BY DEF NeighborhoodKept
    <2>1. stage = "kick"
      BY DEF BundlingInv
    <2>2. WorkOk /\ DOMAIN workunits = 1..Len(workunits)
      <3>1. WorkOk
        BY <2>1 DEF BundlingInv
      <3>2. workunits \in Seq(Unit)
        BY <3>1 DEF WorkOk
      <3> QED
        BY <3>1, <3>2, LenProperties
    <2>3. UnitOk(workunits[k], k)
      BY <2>2 DEF WorkOk
    <2> QED
      BY <2>3 DEF UnitOk
  <1> QED
    BY <1>1, BundlingInvariant, PTL

(* The message has the union of the neighbourhoods, every cell once.        *)
Wanted == UNION {ToSet(neighbors[bundle.keys[k]]) : k \in DOMAIN bundle.keys}

THEOREM EveryCellSentOnce == Spec => []CellsSentOnce
  <1>1. BundlingInv => CellsSentOnce
    <2> SUFFICES ASSUME BundlingInv, stage # "pour"
                 PROVE  IsInjective(bundle.cells) /\ ToSet(bundle.cells) = Wanted \ empty
      BY DEF CellsSentOnce, Wanted
    <2>w. \A c : c \in Wanted <=> \E k \in DOMAIN bundle.keys :
                                       c \in ToSet(neighbors[bundle.keys[k]])
      BY DEF Wanted
    <2> DEFINE n == Len(bundle.keys)
               w == Len(bundle.cells)
    <2>1. TreeOk /\ BundleIsOk
      BY DEF BundlingInv
    <2>2. /\ bundle.keys \in Seq(Nat) /\ bundle.cells \in Seq(Cells)
          /\ bundle.matches \in Seq(Seq(Nat)) /\ Len(bundle.matches) = w
          /\ IsInjective(bundle.cells) /\ offset + n <= LeafCnt
          /\ \A k \in 1..n : bundle.keys[k] = offset + k - 1
          /\ \A j \in 1..w : bundle.cells[j] \notin empty /\ bundle.matches[j] # <<>>
          /\ \A j \in 1..w : \A v \in Nat :
                v \in ToSet(bundle.matches[j])
                <=> v \in 0..(n - 1) /\ bundle.cells[j] \in ToSet(neighbors[offset + v])
          /\ \A c \in Cells \ empty : \A v \in 0..(n - 1) :
                c \in ToSet(neighbors[offset + v]) => \E j \in 1..w : bundle.cells[j] = c
      BY <2>1, Zenon DEF BundleIsOk, BundleOk
    <2>3. /\ n \in Nat /\ DOMAIN bundle.keys = 1..n /\ DOMAIN bundle.cells = 1..w
          /\ w \in Nat /\ offset \in Nat /\ LeafCnt \in Nat
      BY <2>1, <2>2, OffsetNat, LenProperties
    <2> HIDE DEF n, w
    <2>4. ASSUME NEW c \in ToSet(bundle.cells)
          PROVE  c \in Wanted \ empty
      <3>1. PICK j \in 1..w : bundle.cells[j] = c
        BY <2>3 DEF ToSet
      <3>2. bundle.matches[j] \in Seq(Nat) /\ bundle.matches[j] # <<>>
        BY <2>2, ElementOfSeq
      <3>3. PICK v \in Nat : v \in ToSet(bundle.matches[j])
        <4>1. PICK s \in Seq(Nat) : s = bundle.matches[j] /\ s # <<>>
          BY <3>2
        <4>2. 1 \in DOMAIN s /\ s[1] \in Nat
          BY <4>1, EmptySeq, LenProperties, ElementOfSeq
        <4>3. s[1] \in ToSet(s)
          BY <4>2 DEF ToSet
        <4> QED
          BY <4>1, <4>2, <4>3
      <3>4. v \in 0..(n - 1) /\ c \in ToSet(neighbors[offset + v])
        BY <2>2, <3>1, <3>3
      <3>5. v + 1 \in 1..n /\ offset + (v + 1) - 1 = offset + v
        BY <2>3, <3>4
      <3>6. bundle.keys[v + 1] = offset + v
        BY <2>2, <3>5
      <3>7. v + 1 \in DOMAIN bundle.keys /\ c \in ToSet(neighbors[bundle.keys[v + 1]])
        BY <2>3, <3>4, <3>5, <3>6, Zenon
      <3>8. c \notin empty
        BY <2>2, <3>1
      <3> QED
        BY <2>w, <3>7, <3>8
    <2>5. ASSUME NEW c, c \in Wanted, c \notin empty
          PROVE  c \in ToSet(bundle.cells)
      <3>1. PICK k \in 1..n : c \in ToSet(neighbors[bundle.keys[k]])
        BY <2>w, <2>3, <2>5
      <3>2. /\ bundle.keys[k] = offset + (k - 1) /\ k - 1 \in 0..(n - 1)
            /\ offset + (k - 1) \in LeafIds
        BY <2>2, <2>3 DEF LeafIds
      <3>3. c \in Cells
        <4>1. PICK s \in Seq(Cells) : s = neighbors[offset + (k - 1)]
          BY <2>1, <3>2 DEF TreeOk
        <4>2. \A i \in DOMAIN s : s[i] \in Cells
          BY LenProperties, ElementOfSeq
        <4> QED
          BY <3>1, <3>2, <4>1, <4>2 DEF ToSet
      <3>4. PICK j \in 1..w : bundle.cells[j] = c
        BY <2>2, <2>5, <3>1, <3>2, <3>3
      <3> QED
        BY <2>3, <3>4 DEF ToSet
    <2>6. ToSet(bundle.cells) = Wanted \ empty
      BY <2>4, <2>5
    <2> QED
      BY <2>2, <2>6
  <1> QED
    BY <1>1, BundlingInvariant, PTL
===============================================================================
