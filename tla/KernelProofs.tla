------------------------------ MODULE KernelProofs ------------------------------
(***************************************************************************)
(* Proofs about the force computation, for any group size, items to a star,  *)
(* and sizes of the work unit.                                               *)
(*                                                                          *)
(* The inductive invariant says where the items of a group can be (no two   *)
(* are more than a barrier apart), what each slot of cached_stars holds by   *)
(* the step of the item that filled it last, which bodies of M each item     *)
(* has counted, and which stars have their result.                           *)
(***************************************************************************)
EXTENDS Kernel, FiniteSetTheorems, WellFoundedInduction, TLAPS

(* Slots that a star's items look at in a chunk.                             *)
Width == GroupSize \div Tps

Counts == localcount \in Nat \ {0} /\ neighborcount \in Nat \ {0}

Shape ==
    /\ Counts
    /\ group \in Groups
    /\ steps \in [Items -> 0..(End + 2)]
    /\ j \in [Items -> 0..(Width - 1)]
    /\ DOMAIN cached_stars = Items /\ DOMAIN pos = Items /\ DOMAIN vel = Items
    /\ DOMAIN force = Items
    /\ DOMAIN n_end = 0..(ncount - 1)

(* No item is two barriers ahead of another.                                 *)
Together == \A i, k \in Items : steps[i] <= steps[k] + 1

(* Only inside the inner loop is its counter not zero.                       *)
LoopsOnly == \A i \in Items : j[i] # 0 => Looping(i) /\ steps[i] % 2 = 1

(* What a slot holds, by how far the items that write it have come.          *)
HoldsStar(s) == Leads(s) /\ steps[s] \in 1..2 =>
                    cached_stars[s] = [kind |-> "n", of |-> Star(s)]
HoldsVelocity(s) == Leads(s) /\ steps[s] >= 1 /\ steps[s + 1] <= 2 =>
                    cached_stars[s + 1] = [kind |-> "v", of |-> Star(s)]
HoldsBody(s) == steps[s] \in 3..End =>
                    cached_stars[s] = [kind |-> "m", of |-> ((steps[s] - 3) \div 2) * local + s]
HoldsForce(s) == steps[s] > End => cached_stars[s] = [kind |-> "f", of |-> force[s]]
SlotsHold == \A s \in Items : HoldsStar(s) /\ HoldsVelocity(s) /\ HoldsBody(s) /\ HoldsForce(s)

StarsRead == \A i \in Items : steps[i] >= 2 =>
    pos[i] = [kind |-> "n", of |-> Star(i)] /\ vel[i] = [kind |-> "v", of |-> Star(i)]

(* The bodies an item has counted: its slots of the chunks it has been       *)
(* through, and of the present one those before j.                           *)
Mine(i, b) == (b % local) - Offset(i) \in 0..(Width - 1)
Seen(i, b) == \/ b \div local < Chunk(i)
              \/ b \div local = Chunk(i) /\ (b % local) - Offset(i) < j[i]
Tally == \A i \in Items :
    force[i] = [b \in 0..(mcount - 1) |-> IF Mine(i, b) /\ Seen(i, b) THEN 1 ELSE 0]

(* The stars that have a result: those of the groups before, and those whose *)
(* first item has come to the end.                                           *)
StarsMoved ==
    /\ \A s \in 0..(group * Width - 1) : n_end[s] # <<>>
    /\ \A i \in Items : Leads(i) /\ steps[i] = End + 2 => n_end[Star(i)] # <<>>

(* What a result is made of: the star's own position and velocity, and of    *)
(* every chunk the bodies at the slots its items look at, each counted by    *)
(* all of its items.                                                         *)
Slots(s) == {(s % (local \div Tps)) * Tps + n : n \in 0..(local \div Tps - 1)}
Summed == \A s \in DOMAIN n_end : n_end[s] # <<>> =>
    n_end[s] = [pos   |-> [kind |-> "n", of |-> s],
                vel   |-> [kind |-> "v", of |-> s],
                force |-> [b \in 0..(mcount - 1) |->
                            IF b % local \in Slots(s) THEN Tps ELSE 0]]

Inv == Shape /\ Together /\ LoopsOnly /\ SlotsHold /\ StarsRead /\ Tally
       /\ StarsMoved /\ Summed /\ NoFault
-------------------------------------------------------------------------------
(* Division: quotient and remainder, and that nothing else is them.          *)
LEMMA Quotient ==
    ASSUME NEW a \in Int, NEW d \in Nat \ {0}
    PROVE  /\ a \div d \in Int /\ a % d \in 0..(d - 1)
           /\ a = (a \div d) * d + (a % d)
  OBVIOUS

LEMMA QuotientUnique ==
    ASSUME NEW q \in Int, NEW d \in Nat \ {0}, NEW r \in 0..(d - 1)
    PROVE  (q * d + r) \div d = q /\ (q * d + r) % d = r
  <1> DEFINE a == q * d + r
  <1>1. a \in Int /\ a \div d \in Int /\ a % d \in 0..(d - 1)
        /\ a = (a \div d) * d + (a % d)
    BY Quotient
  <1>2. (a \div d - q) * d = r - (a % d)
    BY <1>1
  <1>3. a \div d = q
    <2> DEFINE e == a \div d - q
    <2>1. e \in Int /\ e * d = r - (a % d) /\ r - (a % d) < d /\ r - (a % d) > -d
      BY <1>1, <1>2
    <2>2. CASE e >= 1
      BY <2>1, <2>2
    <2>3. CASE e <= -1
      BY <2>1, <2>3
    <2>4. QED
      BY <1>1, <2>1, <2>2, <2>3
  <1>4. QED
    BY <1>1, <1>3

LEMMA Exactly ==
    ASSUME NEW q \in Int, NEW d \in Nat \ {0}
    PROVE  (q * d) \div d = q /\ (q * d) % d = 0
  <1>1. 0 \in 0..(d - 1) /\ q * d + 0 = q * d
    OBVIOUS
  <1>2. QED
    BY <1>1, QuotientUnique

LEMMA Block == ASSUME NEW c \in Int, NEW n \in Int, NEW g \in Nat \ {0}, NEW i \in 0..(g - 1), c < n
               PROVE  c * g + i < n * g
  <1>1. (c + 1) * g <= n * g
    OBVIOUS
  <1>2. (c + 1) * g = c * g + g
    OBVIOUS
  <1>3. QED
    BY <1>1, <1>2
-------------------------------------------------------------------------------
(* The sizes of the run: padding makes the work group the full one, and the  *)
(* bodies of M whole chunks.                                                 *)
Blocks == localcount \div GroupSize + 1

LEMMA WidthFacts ==
    /\ GroupSize \in Nat \ {0} /\ Tps \in Nat \ {0, 1} /\ Unroll \in Nat \ {0}
    /\ Width \in Nat \ {0} /\ GroupSize = Width * Tps /\ Width <= Tps
    /\ Width % Unroll = 0
  <1>1. /\ GroupSize \in Nat \ {0} /\ Tps \in Nat \ {0, 1} /\ Unroll \in Nat \ {0}
        /\ GroupSize % Tps = 0 /\ GroupSize <= Tps * Tps /\ Width % Unroll = 0
    BY KernelAssumption DEF Width
  <1>2. Width \in Int /\ GroupSize = Width * Tps
    BY <1>1, Quotient DEF Width
  <1>3. Width \in Nat \ {0}
    BY <1>1, <1>2
  <1>4. Width <= Tps
    <2>1. CASE Width >= Tps + 1
      <3>1. Width * Tps >= (Tps + 1) * Tps
        BY <1>1, <1>3, <2>1
      <3>2. (Tps + 1) * Tps = Tps * Tps + Tps
        BY <1>1
      <3>3. Tps * Tps \in Int
        BY <1>1
      <3>4. QED
        BY <1>1, <1>2, <3>1, <3>2, <3>3
    <2>2. QED
      BY <1>1, <1>3, <2>1
  <1>5. QED
    BY <1>1, <1>2, <1>3, <1>4

LEMMA PaddedFacts ==
    ASSUME NEW n \in Nat
    PROVE  /\ Padded(n) \in Nat /\ Padded(n) > n /\ Padded(n) >= GroupSize
           /\ Padded(n) = (n \div GroupSize + 1) * GroupSize
           /\ n \div GroupSize \in Nat
  <1> DEFINE q == n \div GroupSize
  <1>1. q \in Int /\ n % GroupSize \in 0..(GroupSize - 1) /\ n = q * GroupSize + (n % GroupSize)
    <2>1. n \in Int /\ GroupSize \in Nat \ {0}
      BY WidthFacts
    <2>2. QED
      BY <2>1, Quotient
  <1>2. q \in Nat
    <2>1. CASE q <= -1
      <3>1. q * GroupSize <= -GroupSize
        BY <1>1, <2>1, WidthFacts
      <3>2. QED
        BY <1>1, <3>1, WidthFacts
    <2>2. QED
      BY <1>1, <2>1
  <1> HIDE DEF q
  <1>3. (q + 1) * GroupSize = q * GroupSize + GroupSize /\ q * GroupSize \in Nat
    BY <1>2, WidthFacts
  <1>4. (q + 1) * GroupSize \in Nat /\ (q + 1) * GroupSize > n /\ (q + 1) * GroupSize >= GroupSize
    BY <1>1, <1>2, <1>3, WidthFacts
  <1>5. Padded(n) = (q + 1) * GroupSize
    BY DEF Padded, q
  <1>6. QED
    BY <1>2, <1>4, <1>5 DEF q

LEMMA Sizes ==
    ASSUME Counts
    PROVE  /\ local = GroupSize
           /\ Chunks \in Nat \ {0} /\ mcount = Chunks * GroupSize /\ mcount \in Nat
           /\ Blocks \in Nat \ {0} /\ ncount = Blocks * GroupSize /\ ncount \in Nat
           /\ ncount > localcount
           /\ global % local = 0 /\ global \div local = Blocks * Tps
  <1>1. /\ ncount \in Nat /\ ncount > localcount /\ ncount >= GroupSize
        /\ ncount = Blocks * GroupSize /\ Blocks \in Nat \ {0}
    BY PaddedFacts DEF Counts, ncount, Blocks
  <1>2. local = GroupSize
    <2>1. ncount * Tps >= ncount * 2
      BY <1>1, WidthFacts
    <2>2. global > GroupSize
      BY <1>1, <2>1, WidthFacts DEF global
    <2>3. QED
      BY <2>2 DEF local
  <1>3. global = (Blocks * Tps) * GroupSize /\ Blocks * Tps \in Int
    BY <1>1, WidthFacts DEF global
  <1>4. global % local = 0 /\ global \div local = Blocks * Tps
    BY <1>2, <1>3, Exactly, WidthFacts
  <1>5. Chunks \in Nat \ {0} /\ mcount = Chunks * GroupSize /\ mcount \in Nat
    <2> DEFINE q == neighborcount \div GroupSize + 1
    <2>1. q \in Nat \ {0} /\ mcount = q * GroupSize /\ mcount \in Nat
      BY PaddedFacts, WidthFacts DEF Counts, mcount
    <2> HIDE DEF q
    <2>2. mcount \div GroupSize = q /\ mcount % GroupSize = 0
      <3>1. q \in Int /\ GroupSize \in Nat \ {0}
        BY <2>1, WidthFacts
      <3>2. (q * GroupSize) \div GroupSize = q /\ (q * GroupSize) % GroupSize = 0
        BY <3>1, Exactly
      <3>3. QED
        BY <2>1, <3>2
    <2>3. Chunks = q
      BY <1>2, <2>1, <2>2 DEF Chunks
    <2>4. QED
      BY <2>1, <2>3, WidthFacts
  <1>6. QED
    BY <1>1, <1>2, <1>4, <1>5

LEMMA Runs ==
    ASSUME Counts
    PROVE  Items = 0..(GroupSize - 1) /\ Groups = 0..(Blocks * Tps - 1)
           /\ End = 2 + 2 * Chunks /\ End \in Nat
  BY Sizes DEF Items, Groups, End
-------------------------------------------------------------------------------
(* The items of a star sit together: an item's place is its star's first item *)
(* and a number below Tps.                                                   *)
LEMMA Seats ==
    ASSUME Counts, NEW i \in Items
    PROVE  /\ i \in Nat /\ i \div Tps \in 0..(Width - 1) /\ i % Tps \in 0..(Tps - 1)
           /\ Offset(i) = (i \div Tps) * Tps /\ i = Offset(i) + (i % Tps)
           /\ Offset(i) \in Nat /\ Offset(i) + Tps <= GroupSize
  <1>1. i \in 0..(GroupSize - 1) /\ i \in Int /\ Tps \in Nat \ {0}
    BY Runs, WidthFacts
  <1>2. i \div Tps \in Int /\ i % Tps \in 0..(Tps - 1) /\ i = (i \div Tps) * Tps + (i % Tps)
    BY <1>1, Quotient
  <1> DEFINE q == i \div Tps
             r == i % Tps
  <1>3. q \in Int /\ r \in 0..(Tps - 1) /\ i = q * Tps + r
    BY <1>2
  <1>4. Offset(i) = i - r
    BY DEF Offset
  <1> HIDE DEF q, r
  <1>5. q >= 0
    <2>1. CASE q <= -1
      <3>1. q * Tps <= -Tps
        BY <1>1, <1>3, <2>1
      <3>2. QED
        BY <1>1, <1>3, <3>1
    <2>2. QED
      BY <1>3, <2>1
  <1>6. q <= Width - 1
    <2>1. CASE q >= Width
      <3>1. q * Tps >= Width * Tps
        BY <1>1, <1>3, <2>1, WidthFacts
      <3>2. q * Tps \in Int
        BY <1>1, <1>3
      <3>3. QED
        BY <1>1, <1>3, <3>1, <3>2, WidthFacts
    <2>2. QED
      BY <1>3, <2>1, WidthFacts
  <1>7. q * Tps \in Nat /\ q * Tps + Tps <= GroupSize
    <2>1. (q + 1) * Tps <= Width * Tps
      BY <1>1, <1>3, <1>5, <1>6, WidthFacts
    <2>2. (q + 1) * Tps = q * Tps + Tps
      BY <1>1, <1>3
    <2>3. QED
      BY <1>1, <1>3, <1>5, <2>1, <2>2, WidthFacts
  <1>8. i = q * Tps + r /\ Offset(i) = q * Tps
    BY <1>1, <1>3, <1>4, <1>7
  <1>9. QED
    BY <1>1, <1>3, <1>5, <1>6, <1>7, <1>8, WidthFacts DEF q, r

(* The items of a star have one first item, and it is the one that leads.    *)
LEMMA Neighbours ==
    ASSUME Counts, NEW i \in Items, NEW n \in 0..(Tps - 1)
    PROVE  /\ Offset(i) + n \in Items
           /\ Offset(Offset(i) + n) = Offset(i)
           /\ (Offset(i) + n) % Tps = n
           /\ (Offset(i) + n) \div Tps = i \div Tps
  <1> DEFINE k == Offset(i) + n
  <1>1. Offset(i) = (i \div Tps) * Tps /\ Offset(i) \in Nat /\ Offset(i) + Tps <= GroupSize
        /\ i \div Tps \in Int
    BY Seats
  <1>2. k \in Nat /\ k \in Items
    <2>1. GroupSize \in Nat /\ Tps \in Nat
      BY WidthFacts
    <2>2. k \in 0..(GroupSize - 1)
      BY <1>1, <2>1
    <2>3. QED
      BY <2>2, Runs
  <1>3. k \div Tps = i \div Tps /\ k % Tps = n
    <2>1. Tps \in Nat \ {0}
      BY WidthFacts
    <2>2. QED
      BY <1>1, <2>1, QuotientUnique
  <1>4. Offset(k) = k - n
    BY <1>3 DEF Offset
  <1>5. QED
    BY <1>1, <1>2, <1>3, <1>4, WidthFacts

LEMMA Leaders ==
    ASSUME Counts, NEW i \in Items
    PROVE  /\ Leads(i) <=> Offset(i) = i
           /\ Offset(i) \in Items /\ Leads(Offset(i)) /\ Offset(i) + 1 \in Items
           /\ Offset(Offset(i)) = Offset(i)
           /\ Leads(i) => i + 1 \in Items /\ ~Leads(i + 1) /\ Offset(i + 1) = i
  <1>1. /\ i \in Nat /\ i % Tps \in 0..(Tps - 1) /\ i = Offset(i) + (i % Tps) /\ Offset(i) \in Nat
    BY Seats
  <1>2. 0 \in 0..(Tps - 1) /\ 1 \in 0..(Tps - 1)
    BY WidthFacts
  <1>3. /\ Offset(i) + 0 \in Items /\ Offset(Offset(i) + 0) = Offset(i)
        /\ (Offset(i) + 0) % Tps = 0
    BY <1>2, Neighbours
  <1>4. /\ Offset(i) + 1 \in Items /\ Offset(Offset(i) + 1) = Offset(i)
        /\ (Offset(i) + 1) % Tps = 1
    BY <1>2, Neighbours
  <1>5. Offset(i) + 0 = Offset(i)
    BY <1>1
  <1>6. Leads(i) <=> Offset(i) = i
    BY <1>1 DEF Leads
  <1>7. QED
    BY <1>3, <1>4, <1>5, <1>6 DEF Leads

(* Stars are numbered through the groups, Width to a group.                  *)
LEMMA Stars ==
    ASSUME Counts, group \in Groups, NEW i \in Items
    PROVE  /\ group \in Nat
           /\ Star(i) = group * Width + (i \div Tps) /\ Star(i) \in 0..(ncount - 1)
           /\ Star(i) % Width = i \div Tps
           /\ Star(i) \in (group * Width)..((group + 1) * Width - 1)
  <1>1. /\ i \in Nat /\ i \div Tps \in 0..(Width - 1) /\ i % Tps \in 0..(Tps - 1)
        /\ i = (i \div Tps) * Tps + (i % Tps)
    BY Seats
  <1>2. group \in 0..(Blocks * Tps - 1) /\ Blocks \in Nat \ {0}
    BY Runs, Sizes
  <1> DEFINE q == i \div Tps
             r == i % Tps
  <1>3. q \in 0..(Width - 1) /\ r \in 0..(Tps - 1) /\ i = q * Tps + r
    BY <1>1
  <1> HIDE DEF q, r
  <1>4. group * GroupSize = (group * Width) * Tps
    BY <1>2, WidthFacts
  <1>5. group \in Nat /\ group * Width \in Nat /\ group * Width + q \in Nat
    BY <1>2, <1>3, WidthFacts
  <1>6. group * GroupSize + i = (group * Width + q) * Tps + r
    <2>1. (group * Width + q) * Tps = (group * Width) * Tps + q * Tps
      BY <1>3, <1>5, WidthFacts
    <2>2. (group * Width) * Tps \in Int /\ q * Tps \in Int
      BY <1>3, <1>5, WidthFacts
    <2>3. QED
      BY <1>3, <1>4, <2>1, <2>2, WidthFacts
  <1>7. Star(i) = group * Width + q
    <2>1. Star(i) = (group * GroupSize + i) \div Tps
      BY Sizes DEF Star, GlobalId
    <2>2. group * Width + q \in Int /\ Tps \in Nat \ {0}
      BY <1>5, WidthFacts
    <2>3. ((group * Width + q) * Tps + r) \div Tps = group * Width + q
      BY <1>3, <2>2, QuotientUnique
    <2>4. QED
      BY <1>6, <2>1, <2>3
  <1>8. (group * Width + q) % Width = q
    BY <1>3, <1>5, QuotientUnique, WidthFacts
  <1>9. (group + 1) * Width = group * Width + Width
    BY <1>5, WidthFacts
  <1>10. group * Width + q < ncount
    <2>1. (group + 1) * Width <= (Blocks * Tps) * Width
      <3>1. Blocks * Tps \in Int
        BY <1>2, WidthFacts
      <3>2. QED
        BY <1>2, <3>1, WidthFacts
    <2>2. (Blocks * Tps) * Width = Blocks * GroupSize
      BY <1>2, WidthFacts
    <2>3. QED
      BY <1>3, <1>5, <1>9, <2>1, <2>2, Sizes, WidthFacts
  <1>11. QED
    BY <1>3, <1>5, <1>7, <1>8, <1>9, <1>10, Sizes, WidthFacts DEF q
-------------------------------------------------------------------------------
(* A body of M is a slot of a chunk.                                         *)
LEMMA Bodies ==
    ASSUME Counts
    PROVE  /\ \A c \in 0..(Chunks - 1), s \in Items :
                /\ c * local + s \in 0..(mcount - 1)
                /\ (c * local + s) \div local = c /\ (c * local + s) % local = s
           /\ \A b \in 0..(mcount - 1) :
                /\ b \div local \in 0..(Chunks - 1) /\ b % local \in Items
                /\ b = (b \div local) * local + (b % local)
  <1>1. /\ local \in Nat \ {0} /\ Items = 0..(local - 1)
        /\ Chunks \in Nat \ {0} /\ mcount = Chunks * local /\ mcount \in Nat
    BY Sizes, Runs, WidthFacts
  <1>2. ASSUME NEW c \in 0..(Chunks - 1), NEW s \in Items
        PROVE  /\ c * local + s \in 0..(mcount - 1)
               /\ (c * local + s) \div local = c /\ (c * local + s) % local = s
    <2>1. c \in Int /\ s \in 0..(local - 1)
      BY <1>1
    <2>2. c * local + s < Chunks * local
      BY <1>1, <2>1, Block
    <2>3. c * local \in Nat
      BY <1>1
    <2>4. QED
      BY <1>1, <2>1, <2>2, <2>3, QuotientUnique
  <1>3. ASSUME NEW b \in 0..(mcount - 1)
        PROVE  /\ b \div local \in 0..(Chunks - 1) /\ b % local \in Items
               /\ b = (b \div local) * local + (b % local)
    <2> DEFINE q == b \div local
    <2>1. b \in Int /\ b >= 0 /\ b < Chunks * local
      BY <1>1
    <2>2. q \in Int /\ b % local \in 0..(local - 1) /\ b = q * local + (b % local)
      BY <1>1, <2>1, Quotient
    <2> HIDE DEF q
    <2>3. q >= 0
      <3>1. CASE q <= -1
        <4>1. q * local <= -local
          BY <1>1, <2>2, <3>1
        <4>2. QED
          BY <1>1, <2>1, <2>2, <4>1
      <3>2. QED
        BY <2>2, <3>1
    <2>4. q < Chunks
      <3>1. CASE q >= Chunks
        <4>1. q * local >= Chunks * local
          BY <1>1, <2>2, <3>1
        <4>2. q * local \in Int /\ Chunks * local \in Int
          BY <1>1, <2>2
        <4>3. QED
          BY <1>1, <2>1, <2>2, <4>1, <4>2
      <3>2. QED
        BY <1>1, <2>2, <3>1
    <2>5. QED
      BY <1>1, <2>2, <2>3, <2>4 DEF q
  <1>4. QED
    BY <1>2, <1>3

(* The sizes are those of the input, and stars those of the group.           *)
LEMMA Still ==
    ASSUME UNCHANGED input
    PROVE  /\ UNCHANGED <<local, Items, Groups, Chunks, End, mcount, ncount, NoForce, Blocks>>
           /\ Counts => Counts'
           /\ \A s : Slots(s)' = Slots(s)
           /\ group' = group => \A i : Star(i)' = Star(i)
  BY DEF input, local, Items, Groups, Chunks, End, mcount, ncount, global, NoForce, Blocks,
         Counts, Slots, Star, GlobalId

(* An item that goes on stays with the others.                               *)
LEMMA Reaching ==
    ASSUME Shape, Together, UNCHANGED input, NEW i \in Items,
           Passed(i), steps[i] <= End + 1, Reached(i)
    PROVE  /\ steps' \in [Items -> 0..(End + 2)] /\ Together'
           /\ steps'[i] = steps[i] + 1
           /\ \A k \in Items : k # i => steps'[k] = steps[k]
           /\ \A k \in Items : steps[k] = steps[i] \/ steps[k] = steps[i] + 1
  <1>1. End \in Nat /\ \A k \in Items : steps[k] \in Nat
    BY Runs DEF Shape
  <1>2. \A k \in Items : steps[k] >= steps[i] /\ steps[k] <= steps[i] + 1
    BY DEF Passed, Together
  <1>3. steps' = [steps EXCEPT ![i] = steps[i] + 1]
    BY DEF Reached
  <1>4. steps' \in [Items -> 0..(End + 2)]
    BY <1>1, <1>3 DEF Shape
  <1>5. Together'
    <2>1. Items' = Items /\ i \in Items /\ DOMAIN steps = Items
      BY Still DEF Shape
    <2>2. \A k \in Items : steps'[k] = IF k = i THEN steps[i] + 1 ELSE steps[k]
      BY <1>3, <2>1
    <2>3. \A k, m \in Items : steps[m] <= steps[k] + 1
      BY DEF Together
    <2>4. QED
      BY <1>1, <1>2, <2>1, <2>2, <2>3 DEF Together
  <1>6. QED
    BY <1>1, <1>2, <1>3, <1>4, <1>5 DEF Shape

(* The results of the stars stay as they are.                                *)
LEMMA ResultsStay ==
    ASSUME UNCHANGED <<input, n_end>>, Summed
    PROVE  Summed'
  BY Still DEF Summed, input

LEMMA InitInv == Init => Inv
  <1> SUFFICES ASSUME Init PROVE Inv
    OBVIOUS
  <1>0. /\ localcount \in 1..MaxLocal /\ neighborcount \in 1..MaxNeighbors /\ group = 0
        /\ steps = [i \in Items |-> 0] /\ j = [i \in Items |-> 0]
        /\ cached_stars = [i \in Items |-> None] /\ force = [i \in Items |-> NoForce]
        /\ pos = [i \in Items |-> None] /\ vel = [i \in Items |-> None]
        /\ n_end = [s \in 0..(ncount - 1) |-> <<>>]
        /\ fault = IF global % local = 0 THEN "none" ELSE "invalid work group size"
    BY DEF Init
  <1>a. group = 0 /\ \A i \in Items : steps[i] = 0 /\ j[i] = 0
    BY <1>0
  <1>1. Counts
    <2>1. localcount \in 1..MaxLocal /\ neighborcount \in 1..MaxNeighbors
      BY <1>0
    <2>2. QED
      BY <2>1, KernelAssumption DEF Counts
  <1>2. fault = "none"
    BY <1>0, <1>1, Sizes
  <1>3. Width \in Nat \ {0} /\ Blocks * Tps \in Nat \ {0} /\ End \in Nat
    <2>1. Tps \in Nat \ {0} /\ Blocks \in Nat \ {0}
      BY <1>1, WidthFacts, Sizes
    <2>2. Blocks * Tps \in Nat \ {0}
      BY <2>1
    <2>3. QED
      BY <1>1, <2>2, WidthFacts, Runs
  <1>4. Shape
    <2>1. group \in Groups
      BY <1>a, <1>1, <1>3, Runs
    <2>2. steps \in [Items -> 0..(End + 2)] /\ j \in [Items -> 0..(Width - 1)]
      <3>1. 0 \in 0..(End + 2) /\ 0 \in 0..(Width - 1)
        BY <1>3
      <3>2. QED
        BY <1>0, <3>1
    <2>3. QED
      BY <1>0, <1>1, <2>1, <2>2 DEF Shape
  <1>5. Together /\ LoopsOnly /\ SlotsHold /\ StarsRead
    <2>1. \A i \in Items : steps[i] = 0 /\ j[i] = 0
      BY <1>a
    <2>2. Together /\ LoopsOnly /\ StarsRead
      BY <2>1 DEF Together, LoopsOnly, StarsRead
    <2>3. \A s \in Items : HoldsStar(s) /\ HoldsVelocity(s) /\ HoldsBody(s) /\ HoldsForce(s)
      BY <1>3, <2>1 DEF HoldsStar, HoldsVelocity, HoldsBody, HoldsForce
    <2>4. QED
      BY <2>2, <2>3 DEF SlotsHold
  <1>6. Tally
    <2>1. ASSUME NEW i \in Items, NEW b \in 0..(mcount - 1) PROVE ~Seen(i, b)
      <3>1. Chunk(i) = -1
        BY <1>a DEF Chunk
      <3>2. b \div local \in 0..(Chunks - 1)
        BY <1>1, Bodies
      <3>3. QED
        BY <1>1, <3>1, <3>2, Sizes DEF Seen
    <2>2. QED
      BY <1>0, <2>1 DEF Tally, NoForce
  <1>7. StarsMoved
    <2>1. group * Width - 1 = -1
      BY <1>a, <1>3
    <2>2. \A i \in Items : steps[i] = 0
      BY <1>a
    <2>3. \A s \in 0..(group * Width - 1) : n_end[s] # <<>>
      BY <2>1
    <2>4. QED
      BY <1>3, <2>2, <2>3 DEF StarsMoved
  <1>8. Summed
    BY <1>0 DEF Summed
  <1>9. QED
    BY <1>2, <1>4, <1>5, <1>6, <1>7, <1>8 DEF Inv, NoFault
-------------------------------------------------------------------------------
(* What a step that only takes an item past a barrier leaves as it is.       *)
LEMMA TallyStays ==
    ASSUME Inv, UNCHANGED <<input, force, j>>, NEW i \in Items,
           steps[i] % 2 = 0 \/ ~Looping(i), steps'[i] = steps[i] + 1,
           \A k \in Items : k # i => steps'[k] = steps[k]
    PROVE  Tally'
  <1>1. /\ Counts /\ steps[i] \in 0..(End + 2) /\ End = 2 + 2 * Chunks /\ Chunks \in Nat
        /\ \A k \in Items : steps[k] \in Int /\ j[k] \in Int
    BY Sizes, Runs DEF Inv, Shape
  <1>2. j[i] = 0
    BY DEF Inv, LoopsOnly
  <1>3. ASSUME NEW k \in Items, NEW b \in 0..(mcount - 1)
        PROVE  (Mine(k, b) /\ Seen(k, b))' <=> (Mine(k, b) /\ Seen(k, b))
    <2>1. Mine(k, b)' = Mine(k, b)
      BY Still DEF Mine
    <2>2. b \div local \in 0..(Chunks - 1) /\ (b % local) - Offset(k) \in Int
      <3>1. b % local \in Int /\ Offset(k) \in Int
        BY <1>1, Bodies, Seats, Runs
      <3>2. QED
        BY <1>1, <3>1, Bodies
    <2>3. CASE k # i
      BY <2>1, <2>3, Still DEF Seen, Chunk
    <2>4. CASE k = i
      <3>1. Seen(i, b)' <=> \/ b \div local < (steps[i] - 1) \div 2
                            \/ b \div local = (steps[i] - 1) \div 2 /\ (b % local) - Offset(i) < 0
        <4>1. Chunk(i)' = (steps[i] - 1) \div 2
          BY <1>1 DEF Chunk
        <4>2. QED
          BY <1>2, <4>1, Still DEF Seen
      <3>2. Seen(i, b) <=> \/ b \div local < (steps[i] - 2) \div 2
                           \/ b \div local = (steps[i] - 2) \div 2 /\ (b % local) - Offset(i) < 0
        BY <1>2 DEF Seen, Chunk
      <3>3. Mine(i, b) => ~((b % local) - Offset(i) < 0)
        BY <2>2, WidthFacts DEF Mine
      <3>4. b \div local < (steps[i] - 1) \div 2 <=> b \div local < (steps[i] - 2) \div 2
        <4>1. CASE steps[i] % 2 = 0
          BY <1>1, <4>1
        <4>2. CASE steps[i] % 2 # 0 /\ steps[i] < 2
          BY <1>1, <2>2, <4>2
        <4>3. CASE steps[i] % 2 # 0 /\ (steps[i] - 2) \div 2 >= Chunks
          BY <1>1, <2>2, <4>3
        <4>4. QED
          BY <1>1, <4>1, <4>2, <4>3 DEF Looping, Chunk
      <3>5. QED
        BY <2>1, <2>4, <3>1, <3>2, <3>3, <3>4
    <2>5. QED
      BY <2>3, <2>4
  <1>4. QED
    BY <1>3, Still DEF Inv, Tally

LEMMA MovedStays ==
    ASSUME Inv, UNCHANGED <<input, group, n_end>>, NEW i \in Items, steps'[i] # End + 2,
           \A k \in Items : k # i => steps'[k] = steps[k]
    PROVE  StarsMoved'
  <1>1. Items' = Items /\ End' = End /\ \A k : Star(k)' = Star(k)
    BY Still
  <1>2. QED
    BY <1>1 DEF Inv, StarsMoved

(* The items load the star and its velocity.                                 *)
LEMMA LoadStarKeeps == ASSUME Inv, NEW i \in Items, LoadStar(i) PROVE Inv'
  <1>1. /\ UNCHANGED <<input, group, pos, vel, j, force, n_end, fault>> /\ steps[i] = 0
        /\ Passed(i) /\ Reached(i) /\ Shape /\ Together /\ Counts
    BY DEF LoadStar, At, Inv, Shape
  <1>2. End \in Nat /\ End >= 4
    BY <1>1, Runs, Sizes
  <1>3. /\ steps' \in [Items -> 0..(End + 2)] /\ Together' /\ steps'[i] = 1
        /\ \A k \in Items : k # i => steps'[k] = steps[k]
        /\ \A k \in Items : steps[k] = 0 \/ steps[k] = 1
    BY <1>1, <1>2, Reaching
  <1>4. \A k \in Items : j[k] = 0 /\ (steps'[k] = 0 \/ steps'[k] = 1)
    BY <1>3 DEF Inv, LoopsOnly, Looping
  <1>5. Shape'
    <2>1. DOMAIN cached_stars' = Items
      BY <1>1 DEF LoadStar, Shape
    <2>2. QED
      BY <1>1, <1>3, <2>1, Still DEF Shape
  <1>6. LoopsOnly'
    BY <1>1, <1>4, Still DEF LoopsOnly
  <1>7. SlotsHold'
    <2>1. ASSUME NEW s \in Items PROVE (HoldsStar(s) /\ HoldsVelocity(s))'
      <3>1. /\ Leads(s) => s + 1 \in Items /\ ~Leads(s + 1) /\ s # s + 1
            /\ Leads(i) => i + 1 \in Items /\ ~Leads(i + 1) /\ i # i + 1
        BY <1>1, Leaders, Seats
      <3>2. CASE s = i
        <4>1. Leads(i) => cached_stars'[i] = [kind |-> "n", of |-> Star(i)]
                          /\ cached_stars'[i + 1] = [kind |-> "v", of |-> Star(i)]
          BY <1>1, <3>1 DEF LoadStar, Shape
        <4>2. QED
          BY <1>1, <3>2, <4>1, Still DEF HoldsStar, HoldsVelocity
      <3>3. CASE s # i
        <4>1. Leads(s) => /\ cached_stars'[s] = cached_stars[s]
                          /\ cached_stars'[s + 1] = cached_stars[s + 1]
          <5>1. s + 1 = i + 1 => s = i
            BY <1>1, Runs
          <5>2. QED
            BY <1>1, <3>1, <3>3, <5>1 DEF LoadStar, Shape
        <4>2. Leads(s) => steps[s + 1] \in 0..1
          BY <1>3, <3>1
        <4>3. HoldsStar(s) /\ HoldsVelocity(s)
          BY DEF Inv, SlotsHold
        <4>4. QED
          BY <1>1, <1>3, <3>3, <4>1, <4>2, <4>3, Still DEF HoldsStar, HoldsVelocity
      <3>4. QED
        BY <3>2, <3>3
    <2>2. ASSUME NEW s \in Items PROVE (HoldsBody(s) /\ HoldsForce(s))'
      BY <1>1, <1>2, <1>4, Still DEF HoldsBody, HoldsForce
    <2>3. QED
      BY <1>1, <2>1, <2>2, Still DEF SlotsHold
  <1>8. StarsRead'
    BY <1>1, <1>4, Still DEF StarsRead
  <1>9. Tally'
    BY <1>1, <1>3, TallyStays
  <1>10. StarsMoved' /\ Summed'
    BY <1>1, <1>2, <1>3, MovedStays, ResultsStay DEF Inv
  <1>11. QED
    BY <1>1, <1>3, <1>5, <1>6, <1>7, <1>8, <1>9, <1>10 DEF Inv, NoFault

LEMMA ReadStarKeeps == ASSUME Inv, NEW i \in Items, ReadStar(i) PROVE Inv'
  <1>1. /\ UNCHANGED <<input, group, cached_stars, j, force, n_end, fault>> /\ steps[i] = 1
        /\ Passed(i) /\ Reached(i) /\ Shape /\ Together /\ Counts
    BY DEF ReadStar, At, Inv, Shape
  <1>2. End \in Nat /\ End >= 4
    BY <1>1, Runs, Sizes
  <1>3. /\ steps' \in [Items -> 0..(End + 2)] /\ Together' /\ steps'[i] = 2
        /\ \A k \in Items : k # i => steps'[k] = steps[k]
        /\ \A k \in Items : steps[k] = 1 \/ steps[k] = 2
    BY <1>1, <1>2, Reaching
  <1>4. \A k \in Items : steps'[k] = 1 \/ steps'[k] = 2
    BY <1>3
  <1>5. Shape'
    <2>1. DOMAIN pos' = Items /\ DOMAIN vel' = Items
      BY <1>1 DEF ReadStar, Shape
    <2>2. QED
      BY <1>1, <1>3, <2>1, Still DEF Shape
  <1>6. Looping(i) => steps[i] % 2 = 0
    BY <1>1 DEF Looping
  <1>7. LoopsOnly'
    <2>1. j[i] = 0
      BY <1>1, <1>6 DEF Inv, LoopsOnly
    <2>2. \A k \in Items : k # i => Looping(k)' = Looping(k)
      BY <1>1, <1>3, Still DEF Looping, Chunk
    <2>3. QED
      BY <1>1, <1>3, <2>1, <2>2, Still DEF Inv, LoopsOnly
  <1>8. SlotsHold'
    <2>1. ASSUME NEW s \in Items PROVE (HoldsStar(s) /\ HoldsVelocity(s))'
      <3>1. Leads(s) => s + 1 \in Items
        BY <1>1, Leaders
      <3>2. HoldsStar(s) /\ HoldsVelocity(s)
        BY DEF Inv, SlotsHold
      <3>3. QED
        BY <1>1, <1>3, <1>4, <3>1, <3>2, Still DEF HoldsStar, HoldsVelocity
    <2>2. ASSUME NEW s \in Items PROVE (HoldsBody(s) /\ HoldsForce(s))'
      BY <1>1, <1>2, <1>4, Still DEF HoldsBody, HoldsForce
    <2>3. QED
      BY <1>1, <2>1, <2>2, Still DEF SlotsHold
  <1>9. StarsRead'
    <2> DEFINE o == Offset(i)
    <2>1. o \in Items /\ Leads(o) /\ o + 1 \in Items
      BY <1>1, Leaders
    <2>2. cached_stars[o] = [kind |-> "n", of |-> Star(o)]
          /\ cached_stars[o + 1] = [kind |-> "v", of |-> Star(o)]
      <3>1. HoldsStar(o) /\ HoldsVelocity(o)
        BY <2>1 DEF Inv, SlotsHold
      <3>2. steps[o] \in 1..2 /\ steps[o] >= 1 /\ steps[o + 1] <= 2
        BY <1>3, <2>1
      <3>3. QED
        BY <2>1, <3>1, <3>2 DEF HoldsStar, HoldsVelocity
    <2>3. Star(o) = Star(i)
      <3>1. o + 0 = o /\ 0 \in 0..(Tps - 1)
        BY <1>1, Seats, WidthFacts
      <3>2. o \div Tps = i \div Tps
        BY <1>1, <3>1, Neighbours
      <3>3. QED
        BY <1>1, <2>1, <3>2, Stars DEF Shape
    <2>4. /\ pos'[i] = [kind |-> "n", of |-> Star(i)] /\ vel'[i] = [kind |-> "v", of |-> Star(i)]
          /\ \A k \in Items : k # i => pos'[k] = pos[k] /\ vel'[k] = vel[k]
      BY <1>1, <2>2, <2>3 DEF ReadStar, Shape
    <2>5. QED
      BY <1>1, <1>3, <2>4, Still DEF Inv, StarsRead
  <1>10. Tally'
    BY <1>1, <1>3, <1>6, TallyStays
  <1>11. StarsMoved' /\ Summed'
    BY <1>1, <1>2, <1>3, MovedStays, ResultsStay DEF Inv
  <1>12. QED
    BY <1>1, <1>3, <1>5, <1>7, <1>8, <1>9, <1>10, <1>11 DEF Inv, NoFault

(* A chunk is filled: the body is there, because the chunks are whole.        *)
LEMMA FillChunkKeeps == ASSUME Inv, NEW i \in Items, FillChunk(i) PROVE Inv'
  <1> DEFINE b == Chunk(i) * local + i
  <1>1. /\ UNCHANGED <<input, group, pos, vel, j, force, n_end>>
        /\ Looping(i) /\ steps[i] % 2 = 0
        /\ Passed(i) /\ Reached(i) /\ Shape /\ Together /\ Counts
    BY DEF FillChunk, At, Inv, Shape
  <1>2. /\ End \in Nat /\ End = 2 + 2 * Chunks /\ Chunks \in Nat \ {0} /\ steps[i] \in 0..(End + 2)
    BY <1>1, Runs, Sizes DEF Shape
  <1>3. /\ steps[i] >= 2 /\ steps[i] <= End - 2 /\ Chunk(i) \in 0..(Chunks - 1)
        /\ ((steps[i] + 1) - 3) \div 2 = Chunk(i)
    BY <1>1, <1>2 DEF Looping, Chunk
  <1>4. /\ steps' \in [Items -> 0..(End + 2)] /\ Together' /\ steps'[i] = steps[i] + 1
        /\ \A k \in Items : k # i => steps'[k] = steps[k]
        /\ \A k \in Items : steps[k] = steps[i] \/ steps[k] = steps[i] + 1
    BY <1>1, <1>2, <1>3, Reaching
  <1>5. /\ cached_stars' = [cached_stars EXCEPT ![i] = [kind |-> "m", of |-> b]]
        /\ UNCHANGED fault
    <2>1. b \in 0..(mcount - 1) /\ mcount \in Nat
      BY <1>1, <1>3, Bodies, Sizes
    <2>2. b < mcount
      BY <2>1
    <2>3. QED
      BY <2>2 DEF FillChunk
  <1>6. Shape'
    <2>1. DOMAIN cached_stars' = Items
      BY <1>5 DEF Inv, Shape
    <2>2. QED
      BY <1>1, <1>4, <2>1, Still DEF Shape
  <1>7. LoopsOnly'
    <2>1. j[i] = 0
      BY <1>1 DEF Inv, LoopsOnly
    <2>2. \A k \in Items : k # i => Looping(k)' = Looping(k)
      BY <1>1, <1>4, Still DEF Looping, Chunk
    <2>3. QED
      BY <1>1, <1>4, <2>1, <2>2, Still DEF Inv, LoopsOnly
  <1>8. SlotsHold'
    <2>1. ASSUME NEW s \in Items
          PROVE  (HoldsStar(s) /\ HoldsVelocity(s) /\ HoldsBody(s) /\ HoldsForce(s))'
      <3>1. HoldsStar(s) /\ HoldsVelocity(s) /\ HoldsBody(s) /\ HoldsForce(s)
        BY DEF Inv, SlotsHold
      <3>2. Leads(s) => s + 1 \in Items
        BY <1>1, Leaders
      <3>3. /\ cached_stars'[i] = [kind |-> "m", of |-> b]
            /\ \A k \in Items : k # i => cached_stars'[k] = cached_stars[k]
        BY <1>1, <1>5 DEF Shape
      <3>4. steps'[i] \in 3..End
        BY <1>2, <1>3, <1>4
      <3>5. steps[s] >= 1
        BY <1>2, <1>3, <1>4
      <3>6. HoldsStar(s)'
        BY <1>1, <1>4, <3>1, <3>3, <3>4, Still DEF HoldsStar
      <3>7. HoldsVelocity(s)'
        BY <1>1, <1>4, <3>1, <3>2, <3>3, <3>4, <3>5, Still DEF HoldsVelocity
      <3>8. HoldsBody(s)'
        BY <1>1, <1>3, <1>4, <3>1, <3>3, <3>4, Still DEF HoldsBody
      <3>9. HoldsForce(s)'
        BY <1>1, <1>2, <1>4, <3>1, <3>3, <3>4, Still DEF HoldsForce
      <3>10. QED
        BY <3>6, <3>7, <3>8, <3>9
    <2>2. QED
      BY <1>1, <2>1, Still DEF SlotsHold
  <1>9. StarsRead'
    BY <1>1, <1>2, <1>3, <1>4, Still DEF Inv, StarsRead
  <1>10. Tally'
    BY <1>1, <1>4, TallyStays
  <1>11. StarsMoved' /\ Summed'
    BY <1>1, <1>2, <1>3, <1>4, MovedStays, ResultsStay DEF Inv
  <1>12. QED
    BY <1>4, <1>5, <1>6, <1>7, <1>8, <1>9, <1>10, <1>11 DEF Inv, NoFault

(* A body is counted: between the barriers the slots of the star hold the    *)
(* chunk the item is at, and the loop ends at the star's last slot.           *)
LEMMA AccumulateKeeps == ASSUME Inv, NEW i \in Items, Accumulate(i) PROVE Inv'
  <1> DEFINE slot == Offset(i) + j[i]
             b    == Chunk(i) * local + slot
  <1>1. /\ UNCHANGED <<input, group, cached_stars, pos, vel, n_end>>
        /\ Looping(i) /\ steps[i] % 2 = 1
        /\ Passed(i) /\ Shape /\ Together /\ Counts
    BY DEF Accumulate, At, Inv, Shape
  <1>2. /\ End \in Nat /\ End = 2 + 2 * Chunks /\ Chunks \in Nat \ {0} /\ steps[i] \in 0..(End + 2)
        /\ local = GroupSize /\ j[i] \in 0..(Width - 1)
    BY <1>1, Runs, Sizes DEF Shape
  <1>3. /\ steps[i] >= 3 /\ steps[i] <= End - 1 /\ Chunk(i) \in 0..(Chunks - 1)
        /\ (steps[i] - 3) \div 2 = Chunk(i) /\ ((steps[i] + 1) - 3) \div 2 = Chunk(i)
        /\ ((steps[i] + 1) - 2) \div 2 = Chunk(i) + 1
    BY <1>1, <1>2 DEF Looping, Chunk
  <1>4. \A k \in Items : steps[k] = steps[i] \/ steps[k] = steps[i] + 1
    <2>1. \A k \in Items : steps[k] \in Nat /\ steps[k] >= steps[i] /\ steps[k] <= steps[i] + 1
      BY <1>1, <1>2 DEF Shape, Passed, Together
    <2>2. QED
      BY <1>2, <2>1
  <1>5. j[i] \in 0..(Tps - 1) /\ slot \in Items
    BY <1>1, <1>2, WidthFacts, Neighbours
  <1>6. cached_stars[slot] = [kind |-> "m", of |-> b]
    <2>1. HoldsBody(slot)
      BY <1>5 DEF Inv, SlotsHold
    <2>2. steps[slot] \in 3..End /\ (steps[slot] - 3) \div 2 = Chunk(i)
      BY <1>2, <1>3, <1>4, <1>5
    <2>3. QED
      BY <2>1, <2>2 DEF HoldsBody
  <1>7. b \in 0..(mcount - 1) /\ b \div local = Chunk(i) /\ b % local = slot
    BY <1>1, <1>3, <1>5, Bodies
  <1>8. force' = [force EXCEPT ![i][b] = @ + 1] /\ UNCHANGED fault
    BY <1>5, <1>6 DEF Accumulate
  <1>9. LoopOver(j[i] + 1) <=> j[i] + 1 = Width
    <2>1. local \div Tps = Width
      BY <1>2 DEF Width
    <2>2. QED
      BY <1>2, <2>1, WidthFacts DEF LoopOver
  <1>10. /\ steps' \in [Items -> 0..(End + 2)] /\ Together' /\ j' \in [Items -> 0..(Width - 1)]
         /\ \A k \in Items : k # i => steps'[k] = steps[k] /\ j'[k] = j[k]
         /\ \/ j[i] + 1 = Width /\ steps'[i] = steps[i] + 1 /\ j'[i] = 0
            \/ j[i] + 1 < Width /\ steps' = steps /\ j'[i] = j[i] + 1
    <2>0. j \in [Items -> 0..(Width - 1)] /\ 0 \in 0..(Width - 1) /\ steps \in [Items -> 0..(End + 2)]
      BY <1>1, WidthFacts DEF Shape
    <2>1. CASE LoopOver(j[i] + 1)
      <3>1. Reached(i) /\ UNCHANGED input /\ steps[i] <= End + 1 /\ j' = [j EXCEPT ![i] = 0]
        <4>1. Reached(i) /\ j' = [j EXCEPT ![i] = 0]
          BY <2>1 DEF Accumulate
        <4>2. QED
          BY <1>1, <1>2, <1>3, <4>1
      <3>2. /\ steps' \in [Items -> 0..(End + 2)] /\ Together' /\ steps'[i] = steps[i] + 1
            /\ \A k \in Items : k # i => steps'[k] = steps[k]
        BY <1>1, <3>1, Reaching
      <3>3. QED
        BY <1>9, <2>0, <2>1, <3>1, <3>2
    <2>2. CASE ~LoopOver(j[i] + 1)
      <3>1. j' = [j EXCEPT ![i] = j[i] + 1] /\ steps' = steps
        BY <2>2 DEF Accumulate
      <3>2. j[i] + 1 \in 0..(Width - 1) /\ j[i] + 1 < Width
        <4>1. j[i] + 1 # Width /\ j[i] \in 0..(Width - 1) /\ Width \in Nat
          BY <1>2, <1>9, <2>2, WidthFacts
        <4>2. QED
          BY <4>1
      <3>3. Together'
        BY <1>1, <3>1, Still DEF Together
      <3>4. QED
        BY <2>0, <3>1, <3>2, <3>3
    <2>3. QED
      BY <2>1, <2>2
  <1>11. Shape'
    <2>1. DOMAIN force' = Items
      BY <1>1, <1>8 DEF Shape
    <2>2. QED
      BY <1>1, <1>10, <2>1, Still DEF Shape
  <1>12. LoopsOnly'
    <2>1. \A k \in Items : k # i => Looping(k)' = Looping(k)
      BY <1>1, <1>10, Still DEF Looping, Chunk
    <2>2. j'[i] # 0 => steps'[i] = steps[i] /\ Looping(i)'
      BY <1>1, <1>2, <1>10, Still DEF Looping, Chunk
    <2>3. QED
      BY <1>1, <1>10, <2>1, <2>2, Still DEF Inv, LoopsOnly
  <1>13. SlotsHold'
    <2>1. ASSUME NEW s \in Items
          PROVE  (HoldsStar(s) /\ HoldsVelocity(s) /\ HoldsBody(s) /\ HoldsForce(s))'
      <3>1. HoldsStar(s) /\ HoldsVelocity(s) /\ HoldsBody(s) /\ HoldsForce(s)
        BY DEF Inv, SlotsHold
      <3>2. Leads(s) => s + 1 \in Items
        BY <1>1, Leaders
      <3>3. \A k \in Items : /\ steps[k] \in 3..End /\ steps'[k] \in 3..End
                             /\ (steps'[k] - 3) \div 2 = (steps[k] - 3) \div 2
        BY <1>2, <1>3, <1>4, <1>10
      <3>4. HoldsStar(s)' /\ HoldsVelocity(s)'
        BY <1>1, <3>2, <3>3, Still DEF HoldsStar, HoldsVelocity
      <3>5. HoldsBody(s)'
        BY <1>1, <3>1, <3>3, Still DEF HoldsBody
      <3>6. HoldsForce(s)'
        BY <1>1, <1>2, <3>3, Still DEF HoldsForce
      <3>7. QED
        BY <3>4, <3>5, <3>6
    <2>2. QED
      BY <1>1, <2>1, Still DEF SlotsHold
  <1>14. StarsRead'
    BY <1>1, <1>2, <1>3, <1>10, Still DEF Inv, StarsRead
  <1>15. Tally'
    <2>1. ASSUME NEW k \in Items, k # i
          PROVE  force'[k] = [c \in 0..(mcount - 1) |-> IF Mine(k, c)' /\ Seen(k, c)' THEN 1 ELSE 0]
      <3>1. force'[k] = force[k]
        BY <1>1, <1>8, <2>1 DEF Shape
      <3>2. \A c : Mine(k, c)' = Mine(k, c) /\ Seen(k, c)' = Seen(k, c)
        BY <1>1, <1>10, <2>1, Still DEF Mine, Seen, Chunk
      <3>3. QED
        BY <3>1, <3>2 DEF Inv, Tally
    <2>2. force'[i] = [c \in 0..(mcount - 1) |-> IF Mine(i, c)' /\ Seen(i, c)' THEN 1 ELSE 0]
      <3>1. force[i] = [c \in 0..(mcount - 1) |-> IF Mine(i, c) /\ Seen(i, c) THEN 1 ELSE 0]
        BY DEF Inv, Tally
      <3>2. force'[i] = [force[i] EXCEPT ![b] = @ + 1]
        BY <1>1, <1>8 DEF Shape
      <3>3. \A c : Mine(i, c)' = Mine(i, c)
        BY <1>1, Still DEF Mine
      <3>4. slot - Offset(i) = j[i] /\ Offset(i) \in Nat
        BY <1>1, <1>2, Seats
      <3>5. ASSUME NEW c \in 0..(mcount - 1), Mine(i, c)
            PROVE  Seen(i, c)' <=> Seen(i, c) \/ c = b
        <4> DEFINE q == c \div local
                   r == (c % local) - Offset(i)
                   n == Chunk(i)
        <4>1. /\ q \in Int /\ r \in 0..(Width - 1) /\ n \in Int
              /\ c = b <=> q = n /\ r = j[i]
          <5>1. /\ c \div local \in Int /\ c % local \in Nat
                /\ c = (c \div local) * local + (c % local)
            BY <1>1, Bodies, Runs
          <5>2. q = n /\ c % local = slot => c = b
            BY <5>1
          <5>3. c = b => q = n /\ c % local = slot
            BY <1>7
          <5>4. c % local = slot <=> r = j[i]
            BY <1>2, <3>4, <5>1
          <5>5. QED
            BY <1>3, <3>5, <5>1, <5>2, <5>3, <5>4 DEF Mine
        <4>2. Seen(i, c) <=> q < n \/ (q = n /\ r < j[i])
          BY DEF Seen
        <4>3. CASE j[i] + 1 = Width /\ steps'[i] = steps[i] + 1 /\ j'[i] = 0
          <5>1. Chunk(i)' = n + 1
            BY <1>3, <4>3 DEF Chunk
          <5>2. Seen(i, c)' <=> q < n + 1 \/ (q = n + 1 /\ r < 0)
            BY <1>1, <4>3, <5>1, Still DEF Seen
          <5> HIDE DEF q, r, n
          <5>3. QED
            BY <1>2, <4>1, <4>2, <4>3, <5>2, WidthFacts
        <4>4. CASE j[i] + 1 < Width /\ steps' = steps /\ j'[i] = j[i] + 1
          <5>1. Chunk(i)' = n
            BY <4>4 DEF Chunk
          <5>2. Seen(i, c)' <=> q < n \/ (q = n /\ r < j[i] + 1)
            BY <1>1, <4>4, <5>1, Still DEF Seen
          <5> HIDE DEF q, r, n
          <5>3. QED
            BY <1>2, <4>1, <4>2, <5>2, WidthFacts
        <4>5. QED
          BY <1>10, <4>3, <4>4
      <3>6. Mine(i, b) /\ ~Seen(i, b)
        BY <1>2, <1>3, <1>7, <3>4 DEF Mine, Seen
      <3>7. force[i][b] = 0
        BY <1>7, <3>1, <3>6
      <3> DEFINE g == [c \in 0..(mcount - 1) |-> IF Mine(i, c)' /\ Seen(i, c)' THEN 1 ELSE 0]
      <3>8. ASSUME NEW c \in 0..(mcount - 1) PROVE force'[i][c] = g[c]
        <4>1. CASE c = b
          <5>1. Mine(i, c) /\ Seen(i, c)'
            BY <3>5, <3>6, <4>1
          <5>2. force'[i][c] = 1
            BY <3>1, <3>2, <3>7, <4>1
          <5>3. QED
            BY <3>3, <5>1, <5>2
        <4>2. CASE c # b
          <5>1. force'[i][c] = force[i][c]
            BY <3>1, <3>2, <4>2
          <5>2. Mine(i, c) => (Seen(i, c)' <=> Seen(i, c))
            BY <3>5, <4>2
          <5>3. QED
            BY <3>1, <3>3, <5>1, <5>2
        <4>3. QED
          BY <4>1, <4>2
      <3>9. QED
        BY <3>1, <3>2, <3>8
    <2>3. QED
      BY <1>1, <2>1, <2>2, Still DEF Tally
  <1>16. StarsMoved' /\ Summed'
    <2>1. steps'[i] # End + 2
      BY <1>2, <1>3, <1>10
    <2>2. QED
      BY <1>1, <1>10, <2>1, MovedStays, ResultsStay DEF Inv
  <1>17. QED
    BY <1>8, <1>10, <1>11, <1>12, <1>13, <1>14, <1>15, <1>16 DEF Inv, NoFault
-------------------------------------------------------------------------------
(* Adding up the same number for every element of a set.                     *)
LEMMA FoldOfEqual ==
    ASSUME NEW S, IsFiniteSet(S), NEW c \in Nat, NEW f,
           f = [s \in SUBSET S |-> IF s = {} THEN 0 ELSE c + f[s \ {CHOOSE x \in s : TRUE}]]
    PROVE  f[S] = Cardinality(S) * c
  <1> DEFINE Bad == {s \in SUBSET S : f[s] # Cardinality(s) * c}
             R   == StrictSubsetOrdering(S)
  <1>1. IsWellFoundedOn(R, SUBSET S)
    BY FS_StrictSubsetOrderingWellFounded, FS_FiniteSubsetsOfFinite
  <1>2. ASSUME Bad # {} PROVE FALSE
    <2>1. PICK T \in Bad : \A U \in Bad : ~(<<U, T>> \in R)
      <3>1. Bad \subseteq SUBSET S
        OBVIOUS
      <3> HIDE DEF Bad, R
      <3>2. QED
        BY <1>1, <1>2, <3>1, WFMin
    <2>2. T \subseteq S /\ IsFiniteSet(T) /\ f[T] # Cardinality(T) * c
      BY <2>1, FS_Subset
    <2>3. T # {}
      <3>1. f[{}] = 0 /\ Cardinality({}) * c = 0
        BY FS_EmptySet
      <3>2. QED
        BY <2>2, <3>1
    <2> DEFINE x == CHOOSE x \in T : TRUE
               U == T \ {x}
    <2>4. x \in T
      BY <2>3
    <2>5. f[T] = c + f[U]
      BY <2>2, <2>3
    <2>6. Cardinality(U) = Cardinality(T) - 1 /\ Cardinality(T) \in Nat
      BY <2>2, <2>4, FS_RemoveElement, FS_CardinalityType
    <2>7. f[U] = Cardinality(U) * c
      <3>1. U \in SUBSET S /\ <<U, T>> \in R
        BY <2>2, <2>4 DEF StrictSubsetOrdering
      <3>2. U \notin Bad
        BY <2>1, <3>1
      <3>3. QED
        BY <3>1, <3>2
    <2> HIDE DEF x, U
    <2>8. f[T] = c + (Cardinality(T) - 1) * c
      BY <2>5, <2>6, <2>7
    <2>9. c + (Cardinality(T) - 1) * c = Cardinality(T) * c
      BY <2>6
    <2>10. QED
      BY <2>2, <2>8, <2>9
  <1>3. QED
    BY <1>2

(* What the n items after an item have stored for a body.                    *)
Others(i, b, n) == MapThenSumSet(LAMBDA k : cached_stars[i + k].of[b], 1..n)

LEMMA OneMore == ASSUME NEW n \in Int, NEW c \in Int PROVE c + (n - 1) * c = n * c
  OBVIOUS

LEMMA SumOfEqual ==
    ASSUME NEW i \in Int, NEW b, NEW c \in Nat, NEW n \in Nat,
           \A k \in 1..n : cached_stars[i + k].of[b] = c
    PROVE  Others(i, b, n) = n * c
  <1> DEFINE S == 1..n
             Fold(g) == [s \in SUBSET S |-> IF s = {} THEN 0
                                            ELSE cached_stars[i + (CHOOSE x \in s : TRUE)].of[b]
                                                    + g[s \ {CHOOSE x \in s : TRUE}]]
             Same(g) == [s \in SUBSET S |-> IF s = {} THEN 0
                                            ELSE c + g[s \ {CHOOSE x \in s : TRUE}]]
             w == [s \in SUBSET S |-> Cardinality(s) * c]
             f == CHOOSE g : g = Fold(g)
  <1>1. IsFiniteSet(S) /\ Cardinality(S) = n
    BY FS_Interval
  <1>2. ASSUME NEW g PROVE Fold(g) = Same(g)
    <2>1. ASSUME NEW s \in SUBSET S, s # {}
          PROVE  cached_stars[i + (CHOOSE x \in s : TRUE)].of[b] = c
      <3>1. (CHOOSE x \in s : TRUE) \in 1..n
        BY <2>1
      <3>2. QED
        BY <3>1
    <2>2. QED
      BY <2>1
  <1>3. w = Same(w)
    <2>1. ASSUME NEW s \in SUBSET S, s # {}
          PROVE  Cardinality(s) * c = c + w[s \ {CHOOSE x \in s : TRUE}]
      <3> DEFINE x == CHOOSE x \in s : TRUE
      <3>1. x \in s /\ IsFiniteSet(s)
        BY <1>1, <2>1, FS_Subset
      <3>2. Cardinality(s \ {x}) = Cardinality(s) - 1 /\ Cardinality(s) \in Nat
        BY <3>1, FS_RemoveElement, FS_CardinalityType
      <3>3. w[s \ {x}] = Cardinality(s \ {x}) * c
        OBVIOUS
      <3> HIDE DEF x
      <3>4. w[s \ {x}] = (Cardinality(s) - 1) * c
        BY <3>2, <3>3
      <3>5. c + (Cardinality(s) - 1) * c = Cardinality(s) * c
        BY <3>2, OneMore
      <3>6. QED
        BY <3>4, <3>5 DEF x
    <2>2. Cardinality({}) * c = 0
      BY FS_EmptySet
    <2>3. QED
      BY <2>1, <2>2
  <1>4. f = Fold(f)
    <2> HIDE DEF w, Fold, Same
    <2>1. w = Fold(w)
      BY <1>2, <1>3
    <2>2. \E g : g = Fold(g)
      BY <2>1
    <2>3. QED
      BY <2>2
  <1>5. f[S] = n * c
    <2>1. f = Same(f)
      BY <1>2, <1>4
    <2> HIDE DEF f, S
    <2>2. f[S] = Cardinality(S) * c
      BY <1>1, <2>1, FoldOfEqual
    <2>3. QED
      BY <1>1, <2>2
  <1>6. Others(i, b, n) = f[S]
    BY DEF Others, MapThenSumSet, MapThenFoldSet
  <1>7. QED
    BY <1>5, <1>6
-------------------------------------------------------------------------------
(* An item past its loop has counted every body of its slots once.           *)
LEMMA Counted ==
    ASSUME Inv, NEW i \in Items, steps[i] >= End
    PROVE  force[i] = [b \in 0..(mcount - 1) |-> IF Mine(i, b) THEN 1 ELSE 0]
  <1>1. Counts /\ End = 2 + 2 * Chunks /\ Chunks \in Nat /\ steps[i] \in Int
    BY Sizes, Runs DEF Inv, Shape
  <1>2. Chunk(i) \in Int /\ Chunk(i) >= Chunks
    BY <1>1 DEF Chunk
  <1>3. \A b \in 0..(mcount - 1) : Seen(i, b)
    <2>1. ASSUME NEW b \in 0..(mcount - 1) PROVE b \div local < Chunk(i)
      <3>1. b \div local \in 0..(Chunks - 1)
        BY <1>1, Bodies
      <3>2. QED
        BY <1>1, <1>2, <3>1
    <2>2. QED
      BY <2>1 DEF Seen
  <1>4. QED
    BY <1>3 DEF Inv, Tally

LEMMA StoreForceKeeps == ASSUME Inv, NEW i \in Items, StoreForce(i) PROVE Inv'
  <1>1. /\ UNCHANGED <<input, group, pos, vel, j, force, n_end, fault>>
        /\ cached_stars' = [cached_stars EXCEPT ![i] = [kind |-> "f", of |-> force[i]]]
        /\ steps[i] = End
        /\ Passed(i) /\ Reached(i) /\ Shape /\ Together /\ Counts
    BY DEF StoreForce, At, Inv, Shape
  <1>2. /\ End \in Nat /\ End = 2 + 2 * Chunks /\ Chunks \in Nat \ {0}
    BY <1>1, Runs, Sizes DEF Shape
  <1>3. ~Looping(i)
    BY <1>1, <1>2 DEF Looping, Chunk
  <1>4. /\ steps' \in [Items -> 0..(End + 2)] /\ Together' /\ steps'[i] = steps[i] + 1
        /\ \A k \in Items : k # i => steps'[k] = steps[k]
        /\ \A k \in Items : steps[k] = steps[i] \/ steps[k] = steps[i] + 1
    BY <1>1, <1>2, Reaching
  <1>5. \A k \in Items : /\ steps[k] = End \/ steps[k] = End + 1
                         /\ steps'[k] = End \/ steps'[k] = End + 1
    BY <1>1, <1>2, <1>4
  <1>6. Shape'
    <2>1. DOMAIN cached_stars' = Items
      BY <1>1 DEF Shape
    <2>2. QED
      BY <1>1, <1>4, <2>1, Still DEF Shape
  <1>7. LoopsOnly'
    <2>1. j[i] = 0
      BY <1>3 DEF Inv, LoopsOnly
    <2>2. \A k \in Items : k # i => Looping(k)' = Looping(k)
      BY <1>1, <1>4, Still DEF Looping, Chunk
    <2>3. QED
      BY <1>1, <1>4, <2>1, <2>2, Still DEF Inv, LoopsOnly
  <1>8. SlotsHold'
    <2>1. ASSUME NEW s \in Items
          PROVE  (HoldsStar(s) /\ HoldsVelocity(s) /\ HoldsBody(s) /\ HoldsForce(s))'
      <3>1. HoldsStar(s) /\ HoldsVelocity(s) /\ HoldsBody(s) /\ HoldsForce(s)
        BY DEF Inv, SlotsHold
      <3>2. Leads(s) => s + 1 \in Items
        BY <1>1, Leaders
      <3>3. /\ cached_stars'[i] = [kind |-> "f", of |-> force[i]]
            /\ \A k \in Items : k # i => cached_stars'[k] = cached_stars[k]
        BY <1>1 DEF Shape
      <3>4. HoldsStar(s)' /\ HoldsVelocity(s)'
        BY <1>1, <1>2, <1>5, <3>2, Still DEF HoldsStar, HoldsVelocity
      <3>5. HoldsBody(s)'
        <4>1. CASE s = i
          BY <1>1, <1>2, <1>4, <4>1, Still DEF HoldsBody
        <4>2. CASE s # i
          BY <1>1, <1>4, <3>1, <3>3, <4>2, Still DEF HoldsBody
        <4>3. QED
          BY <4>1, <4>2
      <3>6. HoldsForce(s)'
        <4>1. CASE s = i
          BY <1>1, <3>3, <4>1 DEF HoldsForce
        <4>2. CASE s # i
          BY <1>1, <1>4, <3>1, <3>3, <4>2, Still DEF HoldsForce
        <4>3. QED
          BY <4>1, <4>2
      <3>7. QED
        BY <3>4, <3>5, <3>6
    <2>2. QED
      BY <1>1, <2>1, Still DEF SlotsHold
  <1>9. StarsRead'
    BY <1>1, <1>2, <1>5, Still DEF Inv, StarsRead
  <1>10. Tally'
    BY <1>1, <1>3, <1>4, TallyStays
  <1>11. StarsMoved' /\ Summed'
    BY <1>1, <1>2, <1>4, MovedStays, ResultsStay DEF Inv
  <1>12. QED
    BY <1>1, <1>4, <1>6, <1>7, <1>8, <1>9, <1>10, <1>11 DEF Inv, NoFault

(* The first item of a star adds up what all of them have, which is the same. *)
LEMMA TotalIs ==
    ASSUME Inv, NEW i \in Items, Leads(i), \A k \in Items : steps[k] > End
    PROVE  Total(i) = [b \in 0..(mcount - 1) |-> IF b % local \in Slots(Star(i)) THEN Tps ELSE 0]
  <1>1. Counts /\ i \in Int /\ Tps \in Nat \ {0, 1} /\ local = GroupSize /\ End \in Nat
        /\ group \in Groups /\ \A k \in Items : steps[k] \in Nat
    BY Runs, Sizes, WidthFacts DEF Inv, Shape
  <1>2. ASSUME NEW k \in 0..(Tps - 1)
        PROVE  /\ i + k \in Items /\ cached_stars[i + k].of = force[i + k]
               /\ force[i + k] = [b \in 0..(mcount - 1) |-> IF Mine(i, b) THEN 1 ELSE 0]
    <2>1. Offset(i) = i
      BY <1>1, Leaders
    <2>2. i + k \in Items /\ Offset(i + k) = Offset(i)
      BY <1>1, <2>1, Neighbours
    <2>3. cached_stars[i + k] = [kind |-> "f", of |-> force[i + k]]
      BY <2>2 DEF Inv, SlotsHold, HoldsForce
    <2>4. force[i + k] = [b \in 0..(mcount - 1) |-> IF Mine(i + k, b) THEN 1 ELSE 0]
      BY <1>1, <2>2, Counted
    <2>5. \A b : Mine(i + k, b) = Mine(i, b)
      BY <2>2 DEF Mine
    <2>6. QED
      BY <2>2, <2>3, <2>4, <2>5
  <1>3. force[i] = [b \in 0..(mcount - 1) |-> IF Mine(i, b) THEN 1 ELSE 0]
    BY <1>1, Counted
  <1>4. ASSUME NEW b \in 0..(mcount - 1)
        PROVE  force[i][b] + Others(i, b, Tps - 1)
                = IF Mine(i, b) THEN Tps ELSE 0
    <2> DEFINE c == IF Mine(i, b) THEN 1 ELSE 0
    <2>1. c \in Nat /\ force[i][b] = c
      BY <1>3
    <2>2. \A k \in 1..(Tps - 1) : cached_stars[i + k].of[b] = c
      <3>1. \A k \in 1..(Tps - 1) : k \in 0..(Tps - 1)
        BY <1>1
      <3>2. QED
        BY <1>2, <3>1
    <2>3. Tps - 1 \in Nat
      BY <1>1
    <2> HIDE DEF c
    <2>4. Others(i, b, Tps - 1) = (Tps - 1) * c
      <3>1. i \in Int
        BY <1>1
      <3>2. QED
        BY <2>1, <2>2, <2>3, <3>1, SumOfEqual
    <2>5. c + (Tps - 1) * c = Tps * c
      <3>1. Tps \in Int /\ c \in Int
        BY <1>1, <2>1
      <3>2. QED
        BY <3>1, OneMore
    <2>6. Tps * c = IF Mine(i, b) THEN Tps ELSE 0
      BY <1>1 DEF c
    <2>7. QED
      BY <2>1, <2>4, <2>5, <2>6
  <1>5. ASSUME NEW b \in 0..(mcount - 1)
        PROVE  Mine(i, b) <=> b % local \in Slots(Star(i))
    <2>1. Star(i) % Width = i \div Tps /\ local \div Tps = Width
      BY <1>1, Stars DEF Width
    <2>2. Offset(i) = (i \div Tps) * Tps /\ Offset(i) \in Nat
      BY <1>1, Seats
    <2>3. b % local \in Nat
      BY <1>1, Bodies, Runs
    <2>4. Slots(Star(i)) = {Offset(i) + n : n \in 0..(Width - 1)}
      BY <2>1, <2>2 DEF Slots
    <2> DEFINE r == b % local
    <2>5. r - Offset(i) \in 0..(Width - 1) <=> \E n \in 0..(Width - 1) : r = Offset(i) + n
      <3>1. r \in Nat
        BY <2>3
      <3> HIDE DEF r
      <3>2. ASSUME r - Offset(i) \in 0..(Width - 1)
            PROVE  \E n \in 0..(Width - 1) : r = Offset(i) + n
        <4>1. r = Offset(i) + (r - Offset(i))
          BY <2>2, <3>1
        <4>2. QED
          BY <3>2, <4>1
      <3>3. ASSUME NEW n \in 0..(Width - 1), r = Offset(i) + n
            PROVE  r - Offset(i) \in 0..(Width - 1)
        BY <2>2, <3>3, WidthFacts
      <3>4. QED
        BY <3>2, <3>3
    <2>6. QED
      BY <2>4, <2>5 DEF Mine
  <1>6. Total(i) = [b \in DOMAIN force[i] |-> force[i][b] + Others(i, b, Tps - 1)]
    BY DEF Total, Others
  <1>7. QED
    BY <1>3, <1>4, <1>5, <1>6
LEMMA ReduceKeeps == ASSUME Inv, NEW i \in Items, Reduce(i) PROVE Inv'
  <1> DEFINE new == [pos |-> pos[i], vel |-> vel[i], force |-> Total(i)]
  <1>1. /\ UNCHANGED <<input, group, cached_stars, pos, vel, j, force, fault>>
        /\ n_end' = IF Leads(i) THEN [n_end EXCEPT ![Star(i)] = new] ELSE n_end
        /\ steps[i] = End + 1
        /\ Passed(i) /\ Reached(i) /\ Shape /\ Together /\ Counts
    BY DEF Reduce, At, Inv, Shape
  <1>2. /\ End \in Nat /\ End = 2 + 2 * Chunks /\ Chunks \in Nat \ {0}
    BY <1>1, Runs, Sizes DEF Shape
  <1>3. ~Looping(i)
    BY <1>1, <1>2 DEF Looping, Chunk
  <1>4. /\ steps' \in [Items -> 0..(End + 2)] /\ Together' /\ steps'[i] = steps[i] + 1
        /\ \A k \in Items : k # i => steps'[k] = steps[k]
        /\ \A k \in Items : steps[k] = steps[i] \/ steps[k] = steps[i] + 1
    BY <1>1, <1>2, Reaching
  <1>5. \A k \in Items : steps[k] > End /\ steps'[k] > End /\ steps[k] \in Nat
    BY <1>1, <1>2, <1>4
  <1>6. group \in Groups /\ Star(i) \in DOMAIN n_end
    BY <1>1, Stars DEF Shape
  <1>7. Shape'
    <2>1. DOMAIN n_end' = DOMAIN n_end
      BY <1>1
    <2>2. QED
      BY <1>1, <1>4, <2>1, Still DEF Shape
  <1>8. LoopsOnly'
    <2>1. j[i] = 0
      BY <1>3 DEF Inv, LoopsOnly
    <2>2. \A k \in Items : k # i => Looping(k)' = Looping(k)
      BY <1>1, <1>4, Still DEF Looping, Chunk
    <2>3. QED
      BY <1>1, <1>4, <2>1, <2>2, Still DEF Inv, LoopsOnly
  <1>9. SlotsHold'
    <2>1. ASSUME NEW s \in Items
          PROVE  (HoldsStar(s) /\ HoldsVelocity(s) /\ HoldsBody(s) /\ HoldsForce(s))'
      <3>1. HoldsForce(s)
        BY DEF Inv, SlotsHold
      <3>2. Leads(s) => s + 1 \in Items
        BY <1>1, Leaders
      <3>3. HoldsStar(s)' /\ HoldsVelocity(s)' /\ HoldsBody(s)'
        <4>1. \A k \in Items : ~(steps'[k] \in 1..2) /\ ~(steps'[k] <= 2) /\ ~(steps'[k] \in 3..End)
          BY <1>2, <1>4, <1>5
        <4>2. QED
          BY <1>1, <3>2, <4>1, Still DEF HoldsStar, HoldsVelocity, HoldsBody
      <3>4. HoldsForce(s)'
        BY <1>1, <1>5, <3>1 DEF HoldsForce
      <3>5. QED
        BY <3>3, <3>4
    <2>2. QED
      BY <1>1, <2>1, Still DEF SlotsHold
  <1>10. StarsRead'
    BY <1>1, <1>2, <1>5, Still DEF Inv, StarsRead
  <1>11. Tally'
    BY <1>1, <1>3, <1>4, TallyStays
  <1>12. new # <<>>
    <2>1. "pos" \in DOMAIN new /\ DOMAIN <<>> = {}
      OBVIOUS
    <2>2. QED
      BY <2>1
  <1>13. StarsMoved'
    <2>1. \A s : n_end[s] # <<>> /\ s \in DOMAIN n_end => n_end'[s] # <<>>
      BY <1>1, <1>12
    <2>2. Leads(i) => n_end'[Star(i)] # <<>>
      BY <1>1, <1>6, <1>12
    <2>3. ASSUME NEW k \in Items, Leads(k), steps'[k] = End + 2 PROVE n_end'[Star(k)] # <<>>
      <3>1. CASE k = i
        BY <2>2, <2>3, <3>1
      <3>2. CASE k # i
        <4>1. n_end[Star(k)] # <<>>
          BY <1>4, <2>3, <3>2 DEF Inv, StarsMoved
        <4>2. Star(k) \in DOMAIN n_end
          BY <1>1, <1>6, Stars DEF Shape
        <4>3. QED
          BY <2>1, <4>1, <4>2
      <3>3. QED
        BY <3>1, <3>2
    <2>4. ASSUME NEW s \in 0..(group * Width - 1) PROVE n_end'[s] # <<>>
      <3>1. n_end[s] # <<>>
        BY DEF Inv, StarsMoved
      <3>2. s \in DOMAIN n_end
        <4>1. group \in Nat /\ group * Width <= Star(i) /\ Star(i) \in 0..(ncount - 1)
              /\ group * Width \in Nat
          BY <1>1, <1>6, Stars, WidthFacts
        <4>2. QED
          BY <1>1, <4>1, Sizes DEF Shape
      <3>3. QED
        BY <2>1, <3>1, <3>2
    <2>5. QED
      BY <1>1, <2>3, <2>4, Still DEF StarsMoved
  <1>14. Summed'
    <2>1. Leads(i) =>
            new = [pos   |-> [kind |-> "n", of |-> Star(i)],
                   vel   |-> [kind |-> "v", of |-> Star(i)],
                   force |-> [b \in 0..(mcount - 1) |->
                               IF b % local \in Slots(Star(i)) THEN Tps ELSE 0]]
      <3>1. pos[i] = [kind |-> "n", of |-> Star(i)] /\ vel[i] = [kind |-> "v", of |-> Star(i)]
        BY <1>1, <1>2 DEF Inv, StarsRead
      <3>2. QED
        BY <1>5, <3>1, TotalIs
    <2>2. ASSUME NEW s \in DOMAIN n_end', n_end'[s] # <<>>
          PROVE  n_end'[s] = [pos   |-> [kind |-> "n", of |-> s],
                              vel   |-> [kind |-> "v", of |-> s],
                              force |-> [b \in 0..(mcount - 1) |->
                                          IF b % local \in Slots(s) THEN Tps ELSE 0]]
      <3>1. CASE Leads(i) /\ s = Star(i)
        BY <1>1, <1>6, <2>1, <3>1
      <3>2. CASE ~(Leads(i) /\ s = Star(i))
        <4>1. s \in DOMAIN n_end /\ n_end'[s] = n_end[s]
          BY <1>1, <3>2
        <4>2. QED
          BY <2>2, <4>1 DEF Inv, Summed
      <3>3. QED
        BY <3>1, <3>2
    <2>3. QED
      BY <1>1, <2>2, Still DEF Summed
  <1>15. QED
    BY <1>1, <1>4, <1>7, <1>8, <1>9, <1>10, <1>11, <1>13, <1>14 DEF Inv, NoFault

(* With the items at the end, every star of the groups so far has a result.  *)
LEMMA GroupMoved ==
    ASSUME Inv, \A i \in Items : steps[i] = End + 2
    PROVE  \A s \in 0..((group + 1) * Width - 1) : n_end[s] # <<>>
  <1>1. Counts /\ group \in Groups /\ group \in Nat
    BY Stars, Runs, Sizes, WidthFacts DEF Inv, Shape
  <1>2. Width \in Nat \ {0} /\ Tps \in Nat \ {0, 1} /\ GroupSize = Width * Tps
    BY WidthFacts
  <1>3. (group + 1) * Width = group * Width + Width /\ group * Width \in Nat
    BY <1>1, <1>2
  <1>4. ASSUME NEW s \in 0..((group + 1) * Width - 1), s >= group * Width
        PROVE  n_end[s] # <<>>
    <2> DEFINE q == s - group * Width
               i == q * Tps
    <2>1. q \in 0..(Width - 1)
      BY <1>2, <1>3, <1>4
    <2>2. i \in Items
      <3> HIDE DEF q
      <3>1. i + Tps <= Width * Tps
        <4>1. (q + 1) * Tps <= Width * Tps
          BY <1>2, <2>1
        <4>2. (q + 1) * Tps = q * Tps + Tps
          BY <1>2, <2>1
        <4>3. QED
          BY <4>1, <4>2
      <3>2. i \in Nat
        BY <1>2, <2>1
      <3> HIDE DEF i
      <3>3. QED
        BY <1>1, <1>2, <3>1, <3>2, Runs
    <2>3. i \div Tps = q /\ i % Tps = 0
      <3> HIDE DEF q
      <3>1. QED
        BY <1>2, <2>1, Exactly
    <2> HIDE DEF i
    <2>4. Leads(i) /\ Star(i) = group * Width + q
      BY <1>1, <2>2, <2>3, Stars DEF Leads
    <2>5. Star(i) = s
      BY <1>3, <2>4
    <2>6. QED
      BY <2>2, <2>4, <2>5 DEF Inv, StarsMoved
  <1>5. ASSUME NEW s \in 0..((group + 1) * Width - 1), ~(s >= group * Width)
        PROVE  n_end[s] # <<>>
    <2>1. s \in 0..(group * Width - 1)
      BY <1>3, <1>5
    <2>2. QED
      BY <2>1 DEF Inv, StarsMoved
  <1>6. QED
    BY <1>4, <1>5

LEMMA NextGroupKeeps == ASSUME Inv, NextGroup PROVE Inv'
  <1>1. /\ UNCHANGED input /\ UNCHANGED n_end /\ UNCHANGED fault /\ Counts /\ Shape
        /\ group + 1 \in Groups /\ group' = group + 1
        /\ \A i \in Items : steps[i] = End + 2
        /\ steps' = [i \in Items |-> 0] /\ j' = [i \in Items |-> 0]
        /\ cached_stars' = [i \in Items |-> None] /\ force' = [i \in Items |-> NoForce]
        /\ pos' = [i \in Items |-> None] /\ vel' = [i \in Items |-> None]
    BY DEF NextGroup, Inv, Shape
  <1>2. Width \in Nat \ {0} /\ End \in Nat
    BY <1>1, WidthFacts, Runs
  <1>3. \A i \in Items : steps'[i] = 0 /\ j'[i] = 0
    BY <1>1
  <1>4. Shape'
    <2>1. group' \in Groups
      BY <1>1
    <2>2. steps' \in [Items -> 0..(End + 2)] /\ j' \in [Items -> 0..(Width - 1)]
      <3>1. 0 \in 0..(End + 2) /\ 0 \in 0..(Width - 1)
        BY <1>2
      <3>2. QED
        BY <1>1, <3>1
    <2>3. /\ DOMAIN cached_stars' = Items /\ DOMAIN force' = Items
          /\ DOMAIN pos' = Items /\ DOMAIN vel' = Items
      BY <1>1
    <2>4. QED
      BY <1>1, <2>1, <2>2, <2>3, Still DEF Shape
  <1>5. Together' /\ LoopsOnly' /\ SlotsHold' /\ StarsRead'
    <2>1. Together' /\ LoopsOnly' /\ StarsRead'
      BY <1>1, <1>3, Still DEF Together, LoopsOnly, StarsRead
    <2>2. ASSUME NEW s \in Items
          PROVE  (HoldsStar(s) /\ HoldsVelocity(s) /\ HoldsBody(s) /\ HoldsForce(s))'
      BY <1>1, <1>2, <1>3, Still DEF HoldsStar, HoldsVelocity, HoldsBody, HoldsForce
    <2>3. QED
      BY <1>1, <2>1, <2>2, Still DEF SlotsHold
  <1>6. Tally'
    <2>1. ASSUME NEW i \in Items, NEW b \in 0..(mcount - 1) PROVE ~(Seen(i, b)')
      <3>1. Chunk(i)' = -1 /\ j'[i] = 0
        BY <1>3 DEF Chunk
      <3>2. b \div local \in 0..(Chunks - 1)
        BY <1>1, Bodies
      <3>3. QED
        BY <1>1, <3>1, <3>2, Sizes, Still DEF Seen
    <2>2. \A i \in Items : force'[i] = [b \in 0..(mcount - 1) |-> 0]
      BY <1>1 DEF NoForce
    <2>3. QED
      BY <1>1, <2>1, <2>2, Still DEF Tally
  <1>7. StarsMoved'
    <2>1. \A s \in 0..(group' * Width - 1) : n_end'[s] # <<>>
      BY <1>1, GroupMoved
    <2>2. QED
      BY <1>1, <1>2, <1>3, <2>1, Still DEF StarsMoved
  <1>8. Summed'
    BY <1>1, ResultsStay DEF Inv
  <1>9. QED
    BY <1>1, <1>4, <1>5, <1>6, <1>7, <1>8 DEF Inv, NoFault
-------------------------------------------------------------------------------
LEMMA StepInv == Inv /\ [Next]_vars => Inv'
  <1> SUFFICES ASSUME Inv, [Next]_vars PROVE Inv'
    OBVIOUS
  <1>1. ASSUME NEW i \in Items, LoadStar(i) \/ ReadStar(i) \/ FillChunk(i) PROVE Inv'
    BY <1>1, LoadStarKeeps, ReadStarKeeps, FillChunkKeeps
  <1>2. ASSUME NEW i \in Items, Accumulate(i) \/ StoreForce(i) \/ Reduce(i) PROVE Inv'
    BY <1>2, AccumulateKeeps, StoreForceKeeps, ReduceKeeps
  <1>3. CASE NextGroup
    BY <1>3, NextGroupKeeps
  <1>4. CASE UNCHANGED vars
    <2>1. UNCHANGED <<input, group, steps, cached_stars, pos, vel, j, force, n_end, fault>>
      BY <1>4 DEF vars
    <2>2. \A i : /\ Looping(i)' = Looping(i)
                 /\ \A b : Mine(i, b)' = Mine(i, b) /\ Seen(i, b)' = Seen(i, b)
      BY <2>1, Still DEF Looping, Chunk, Mine, Seen
    <2>3. Shape' /\ Together' /\ LoopsOnly' /\ StarsRead' /\ StarsMoved' /\ Tally'
      BY <2>1, <2>2, Still
      DEF Inv, Shape, Together, LoopsOnly, StarsRead, StarsMoved, Tally
    <2>4. SlotsHold'
      BY <2>1, Still DEF Inv, SlotsHold, HoldsStar, HoldsVelocity, HoldsBody, HoldsForce
    <2>5. QED
      BY <2>1, <2>3, <2>4, ResultsStay DEF Inv, NoFault
  <1>5. QED
    BY <1>1, <1>2, <1>3, <1>4 DEF Next

(* The inductive invariant of a group's items and of the local array they     *)
(* share between barriers (nbody in do_workunit.c).                          *)
THEOREM InvHolds == Spec => []Inv
  BY InitInv, StepInv, PTL DEF Spec

(* The kernel never reads beyond M, nor a slot that holds something else     *)
(* than a body of M, for any group size and any sizes of the work unit       *)
(* (nearest_mult_256 of bundle.c, the barriers of nbody).                    *)
THEOREM NeverFaults == Spec => []NoFault
  <1>1. Inv => NoFault
    BY DEF Inv
  <1>2. QED
    BY <1>1, InvHolds, PTL

(* However the items of a group interleave, a star's result is computed from *)
(* its own position and velocity, and which bodies go into it how often      *)
(* depends on their places in their chunks and on its own in its group, not  *)
(* on the order of the items (nbody in do_workunit.c).                       *)
THEOREM ResultsAreDetermined == Spec => []ResultsDetermined
  <1>1. ASSUME Summed PROVE ResultsDetermined
    <2> SUFFICES ASSUME NEW s \in DOMAIN n_end, NEW t \in DOMAIN n_end,
                        n_end[s] # <<>>, n_end[t] # <<>>
                 PROVE  /\ n_end[s].pos = [kind |-> "n", of |-> s]
                        /\ n_end[s].vel = [kind |-> "v", of |-> s]
                        /\ SamePlaceOfGroup(s, t) =>
                              \A b, c \in 0..(mcount - 1) : b % local = c % local =>
                                  n_end[s].force[b] = n_end[t].force[c]
      BY DEF ResultsDetermined
    <2>1. \A r \in {s, t} :
            n_end[r] = [pos   |-> [kind |-> "n", of |-> r],
                        vel   |-> [kind |-> "v", of |-> r],
                        force |-> [b \in 0..(mcount - 1) |->
                                    IF b % local \in Slots(r) THEN Tps ELSE 0]]
      BY <1>1 DEF Summed
    <2>2. SamePlaceOfGroup(s, t) => Slots(s) = Slots(t)
      BY DEF SamePlaceOfGroup, Slots
    <2>3. \A r \in {s, t} : \A b \in 0..(mcount - 1) :
            n_end[r].force[b] = IF b % local \in Slots(r) THEN Tps ELSE 0
      <3> SUFFICES ASSUME NEW r \in {s, t}, NEW b \in 0..(mcount - 1)
                   PROVE  n_end[r].force[b] = IF b % local \in Slots(r) THEN Tps ELSE 0
        OBVIOUS
      <3> DEFINE F == [x \in 0..(mcount - 1) |-> IF x % local \in Slots(r) THEN Tps ELSE 0]
      <3>1. n_end[r] = [pos |-> [kind |-> "n", of |-> r], vel |-> [kind |-> "v", of |-> r],
                        force |-> F]
        BY <2>1
      <3>2. n_end[r].force = F
        <4> HIDE DEF F
        <4>1. QED
          BY <3>1
      <3>3. QED
        BY <3>2
    <2>4. QED
      BY <2>1, <2>2, <2>3
  <1>2. Inv => ResultsDetermined
    BY <1>1 DEF Inv
  <1>3. QED
    BY <1>2, InvHolds, PTL

(* When the last group has ended every star of the work unit has a result.   *)
THEOREM AllStarsMove == Spec => []EveryStarMoved
  <1>1. ASSUME Inv, Finished PROVE \A s \in 0..(localcount - 1) : n_end[s] # <<>>
    <2>1. Counts /\ group \in Groups /\ \A i \in Items : steps[i] = End + 2
      BY <1>1 DEF Inv, Shape, Finished
    <2>2. Blocks * Tps \in Nat /\ Width \in Nat /\ Tps \in Nat /\ Blocks \in Nat
      BY <2>1, Sizes, WidthFacts
    <2>3. group + 1 = Blocks * Tps
      BY <1>1, <2>1, <2>2, Runs DEF Finished
    <2>4. (group + 1) * Width = ncount
      <3>1. (Blocks * Tps) * Width = Blocks * (Width * Tps)
        BY <2>2
      <3>2. QED
        BY <2>1, <2>3, <3>1, Sizes, WidthFacts
    <2>5. \A s \in 0..(localcount - 1) : s \in 0..(ncount - 1)
      BY <2>1, Sizes DEF Counts
    <2>6. QED
      BY <1>1, <2>1, <2>4, <2>5, GroupMoved
  <1>2. Inv => EveryStarMoved
    BY <1>1 DEF EveryStarMoved
  <1>3. QED
    BY <1>2, InvHolds, PTL
===============================================================================
