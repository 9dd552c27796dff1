-------------------------------- MODULE Kernel --------------------------------
(***************************************************************************)
(* The force computation of one work unit: what kick_bundle allocates, what  *)
(* crunch_NxM asks of OpenCL and the kernel nbody (const_source, the text     *)
(* that is compiled; the .cl files are not read).                            *)
(*                                                                          *)
(* A work group shares the array cached_stars.  Its work-items run in any    *)
(* order, a read of a body of M per step, and meet at barriers.  Groups have *)
(* in common only inputs that nobody writes and stars of their own to write, *)
(* so they run one after the other here.                                     *)
(*                                                                          *)
(* A force is the number of times each body of M went into it.               *)
(***************************************************************************)
EXTENDS Integers, FiniteSets, FiniteSetsExt

CONSTANTS
    GroupSize,      \* GROUPSIZE, and the block nearest_mult_256 rounds to
    Tps,            \* tps: threads per star
    Unroll,         \* pair_force calls in the body of the inner loop
    MaxLocal,       \* the most bodies in a work unit
    MaxNeighbors    \* the most bodies it is compared with

ASSUME KernelAssumption ==
    /\ GroupSize \in Nat \ {0} /\ Tps \in Nat \ {0, 1} /\ Unroll \in Nat \ {0}
    /\ GroupSize % Tps = 0 /\ (GroupSize \div Tps) % Unroll = 0
    /\ GroupSize <= Tps * Tps      \* a star's slots are those of its own items
    /\ MaxLocal \in Nat \ {0} /\ MaxNeighbors \in Nat \ {0}

VARIABLES
    localcount, neighborcount,
    group,          \* the work group that runs
    steps,          \* local id -> how many barriers the item has reached
    cached_stars,   \* slot -> what it holds
    pos, vel,       \* local id -> the star it read, and its velocity
    j,              \* local id -> how far its inner loop is
    force,          \* local id -> its force
    n_end,          \* star -> the force its new position was computed from
    fault

input == <<localcount, neighborcount>>
vars  == <<input, group, steps, cached_stars, pos, vel, j, force, n_end, fault>>

(* Mutant of Padded: the arrays are as long as what is in them.             *)
Unpadded(n) == n

(* nearest_mult_256: a block more, even of a multiple.                       *)
Padded(n) == (n \div GroupSize + 1) * GroupSize

ncount == Padded(localcount)
mcount == Padded(neighborcount)
global == ncount * Tps
local  == IF GroupSize < global THEN GroupSize ELSE global
Items  == 0..(local - 1)
Groups == 0..(global \div local - 1)
Chunks == mcount \div local + (IF mcount % local = 0 THEN 0 ELSE 1)
None   == [kind |-> "none", of |-> -1]
NoForce == [b \in 0..(mcount - 1) |-> 0]
-------------------------------------------------------------------------------
Init ==
    /\ localcount \in 1..MaxLocal /\ neighborcount \in 1..MaxNeighbors
    /\ group = 0
    /\ steps = [i \in Items |-> 0]
    /\ cached_stars = [i \in Items |-> None]
    /\ pos = [i \in Items |-> None] /\ vel = [i \in Items |-> None]
    /\ j = [i \in Items |-> 0] /\ force = [i \in Items |-> NoForce]
    /\ n_end = [s \in 0..(ncount - 1) |-> <<>>]
    /\ fault = IF global % local = 0 THEN "none" ELSE "invalid work group size"

(* An item goes on once all the items of the group are at its barrier.       *)
Passed(i) == \A k \in Items : steps[k] >= steps[i]
At(i, n) == fault = "none" /\ steps[i] = n /\ Passed(i)
Reached(i) == steps' = [steps EXCEPT ![i] = @ + 1]

GlobalId(i) == group * local + i

(* Mutant of Star: every group computes the stars of the first one.          *)
StarOfGroup(i) == i \div Tps

Star(i) == GlobalId(i) \div Tps
Offset(i) == i - (i % Tps)
Leads(i) == i % Tps = 0

(* The chunk an item is at in the loop over M, and whether it is there.      *)
Chunk(i)    == (steps[i] - 2) \div 2
Looping(i)  == steps[i] >= 2 /\ Chunk(i) < Chunks
End == 2 + 2 * Chunks

LoadStar(i) ==
    /\ At(i, 0) /\ Reached(i)
    /\ cached_stars' = IF Leads(i)
                       THEN [cached_stars EXCEPT ![i]     = [kind |-> "n", of |-> Star(i)],
                                                 ![i + 1] = [kind |-> "v", of |-> Star(i)]]
                       ELSE cached_stars
    /\ UNCHANGED <<input, group, pos, vel, j, force, n_end, fault>>

ReadStar(i) ==
    /\ At(i, 1) /\ Reached(i)
    /\ pos' = [pos EXCEPT ![i] = cached_stars[Offset(i)]]
    /\ vel' = [vel EXCEPT ![i] = cached_stars[Offset(i) + 1]]
    /\ UNCHANGED <<input, group, cached_stars, j, force, n_end, fault>>

(* Mutant of FillChunk: no barrier between a chunk's sum and the next chunk.  *)
FillChunkEarly(i) == LET b == Chunk(i) * local + i IN
    /\ Looping(i) /\ steps[i] % 2 = 0 /\ fault = "none" /\ Reached(i)
    /\ IF b < mcount
       THEN /\ cached_stars' = [cached_stars EXCEPT ![i] = [kind |-> "m", of |-> b]]
            /\ UNCHANGED fault
       ELSE /\ fault' = "read beyond M"
            /\ UNCHANGED cached_stars
    /\ UNCHANGED <<input, group, pos, vel, j, force, n_end>>

FillChunk(i) == LET b == Chunk(i) * local + i IN
    /\ Looping(i) /\ steps[i] % 2 = 0 /\ At(i, steps[i]) /\ Reached(i)
    /\ IF b < mcount
       THEN /\ cached_stars' = [cached_stars EXCEPT ![i] = [kind |-> "m", of |-> b]]
            /\ UNCHANGED fault
       ELSE /\ fault' = "read beyond M"
            /\ UNCHANGED cached_stars
    /\ UNCHANGED <<input, group, pos, vel, j, force, n_end>>

(* The inner loop looks at its bound every Unroll bodies only.               *)
LoopOver(n) == n % Unroll = 0 /\ n >= local \div Tps

Accumulate(i) == LET slot == Offset(i) + j[i] IN
    /\ Looping(i) /\ steps[i] % 2 = 1 /\ At(i, steps[i])
    /\ IF slot \in Items /\ cached_stars[slot].kind = "m"
       THEN /\ force' = [force EXCEPT ![i][cached_stars[slot].of] = @ + 1]
            /\ UNCHANGED fault
       ELSE /\ fault' = "not a body of M"
            /\ UNCHANGED force
    /\ IF LoopOver(j[i] + 1) THEN Reached(i) /\ j' = [j EXCEPT ![i] = 0]
       ELSE j' = [j EXCEPT ![i] = @ + 1] /\ UNCHANGED steps
    /\ UNCHANGED <<input, group, cached_stars, pos, vel, n_end>>

StoreForce(i) ==
    /\ At(i, End) /\ Reached(i)
    /\ cached_stars' = [cached_stars EXCEPT ![i] = [kind |-> "f", of |-> force[i]]]
    /\ UNCHANGED <<input, group, pos, vel, j, force, n_end, fault>>

(* The first item of a star adds up and moves it.                            *)
Total(i) ==
    [b \in DOMAIN force[i] |->
        force[i][b] + MapThenSumSet(LAMBDA k : cached_stars[i + k].of[b], 1..(Tps - 1))]

Reduce(i) ==
    /\ At(i, End + 1) /\ Reached(i)
    /\ n_end' = IF Leads(i)
                THEN [n_end EXCEPT ![Star(i)] = [pos |-> pos[i], vel |-> vel[i],
                                                 force |-> Total(i)]]
                ELSE n_end
    /\ UNCHANGED <<input, group, cached_stars, pos, vel, j, force, fault>>

(* The next group starts, with a local array and variables of its own.       *)
NextGroup ==
    /\ fault = "none" /\ \A i \in Items : steps[i] = End + 2
    /\ group + 1 \in Groups
    /\ group' = group + 1
    /\ steps' = [i \in Items |-> 0]
    /\ cached_stars' = [i \in Items |-> None]
    /\ pos' = [i \in Items |-> None] /\ vel' = [i \in Items |-> None]
    /\ j' = [i \in Items |-> 0] /\ force' = [i \in Items |-> NoForce]
    /\ UNCHANGED <<input, n_end, fault>>

Next == \/ NextGroup
        \/ \E i \in Items : LoadStar(i) \/ ReadStar(i) \/ FillChunk(i) \/ Accumulate(i)
                            \/ StoreForce(i) \/ Reduce(i)

Spec == Init /\ [][Next]_vars
-------------------------------------------------------------------------------
(* The buffers and the local array are read where they hold what the kernel  *)
(* takes it for: the padding makes every chunk whole, and a barrier stands    *)
(* between every two uses of a slot.                                         *)
NoFault == fault = "none"

(* The order in which items run makes no difference.  A star's result is     *)
(* computed from its own position and velocity, and a body of M goes into it *)
(* as often as any body at the same place of another chunk goes into any     *)
(* star at the same place of another group, whose items ran in another order.*)
SamePlaceOfGroup(s, t) == s % (local \div Tps) = t % (local \div Tps)
ResultsDetermined ==
    \A s, t \in DOMAIN n_end : n_end[s] # <<>> /\ n_end[t] # <<>> =>
        /\ n_end[s].pos = [kind |-> "n", of |-> s] /\ n_end[s].vel = [kind |-> "v", of |-> s]
        /\ SamePlaceOfGroup(s, t) =>
               \A b, c \in 0..(mcount - 1) :
                   b % local = c % local => n_end[s].force[b] = n_end[t].force[c]

(* "N CROSS M" (do_workunit.c:176): no body of M is left out of the force on *)
(* a star.                                                                   *)
NCrossM == \A s \in 0..(localcount - 1) : n_end[s] # <<>> =>
              \A b \in 0..(neighborcount - 1) : n_end[s].force[b] # 0

(* Every star of the work unit gets a result.                                *)
Finished == group + 1 \notin Groups /\ \A i \in Items : steps[i] = End + 2
EveryStarMoved == Finished => \A s \in 0..(localcount - 1) : n_end[s] # <<>>
===============================================================================
