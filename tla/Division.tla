------------------------------- MODULE Division -------------------------------
(***************************************************************************)
(* make_tree and mt_assemble_neighborhoods of divide_dataset.c, with msort:  *)
(* from the bodies of the dataset to the leaves of the octree and, for each  *)
(* leaf, the neighbourhood it will be compared with.  One thread runs the    *)
(* whole, and starts and joins threads for the Morton codes, for the eight   *)
(* subtrees and for the neighbourhoods.                                      *)
(*                                                                          *)
(* Bodies are points of unit mass with integer coordinates; bounds, centres  *)
(* of gravity and distances are exact where the code computes in floats.  A  *)
(* Morton code has Depth octal digits, 21 in the code.  Arrays are functions *)
(* of 0..n-1, as in the code.  The model has only ranges shorter than        *)
(* THREAD_THRESHOLD.  Those with something to sort go to bsort.  For a range *)
(* that is empty because l stopped before its start, l - start wraps around  *)
(* (msort_helper.c:43), so that a thread may be started for it, if semval of *)
(* a semaphore nobody made says so; it returns at once, as bsort would.      *)
(* mphore points nowhere: sem_init is taken to fail, not crash.              *)
(*                                                                          *)
(* Reading outside an array sets fault where the program cannot go on.       *)
(***************************************************************************)
EXTENDS Integers, Sequences, FiniteSets, SequencesExt, FiniteSetsExt

CONSTANTS
    Points,         \* the places of bodies: triples of integers
    MaxBodies,      \* the most bodies in a dataset
    Depth,          \* octal digits of a Morton code
    LeafThreshold,  \* LEAF_THRESHOLD
    ThreadCnt       \* THREADCOUNT, for codes and neighbourhoods

ASSUME DivisionAssumption ==
    /\ Points \subseteq Int \X Int \X Int /\ IsFiniteSet(Points)
    /\ MaxBodies \in Nat \ {0} /\ Depth \in Nat \ {0}
    /\ LeafThreshold \in Nat \ {0} /\ ThreadCnt \in Nat \ {0}

VARIABLES
    bodies,     \* the dataset's particles, in the order they came in
    sorts,      \* the t_sortbod array: a code and a body each
    done,       \* per thread of the current phase: how many it has dealt with
    range,      \* the range bsort is at, with i, l and the pivot
    calls,      \* the ranges still to be sorted, the next one last
    tree,       \* node (the octants on its way) -> its slice of the bodies
    neighbors,  \* leaf -> its neighbourhood
    stage,
    fault

vars == <<bodies, sorts, done, range, calls, tree, neighbors, stage, fault>>

Count   == Cardinality(DOMAIN bodies)
Index   == DOMAIN bodies
Threads == 0..(ThreadCnt - 1)
Octants == 0..7
Nodes   == UNION {[1..d -> Octants] : d \in 0..Depth}
Axes    == 1..3

(* Mutant of CeilDiv: the quotient is rounded down.                          *)
FloorDiv(a, b) == a \div b

CeilDiv(a, b) == (a + b - 1) \div b
Square(a) == a * a
NoRange == [start |-> 0, end |-> -1, i |-> 0, l |-> 0, pivot |-> -1]
-------------------------------------------------------------------------------
(* Bounds and Morton codes                                                   *)

(* bounds_from_bodies: one cube for all axes, and the origin is in it.       *)
Coordinates(bs) == {0} \cup {bs[k][a] : k \in DOMAIN bs, a \in Axes}
Lowest(bs)  == Min(Coordinates(bs))
Highest(bs) == Max(Coordinates(bs))

(* morton64 scales a coordinate to 0..2^Depth - 1; with a cube of no width   *)
(* the quotient is not a number, and fmax makes it 0.                        *)
Scaled(x, bs) ==
    IF Highest(bs) = Lowest(bs) THEN 0
    ELSE Min({((x - Lowest(bs)) * 2^Depth) \div (Highest(bs) - Lowest(bs)), 2^Depth - 1})
Bit(x, d, bs) == (Scaled(x, bs) \div 2^(Depth - 1 - d)) % 2

(* The octal digits of a body of a dataset, x first: mortonEncode_magicbits. *)
Morton(b, bs) ==
    LET code[d \in 0..Depth] ==
            IF d = 0 THEN 0
            ELSE 8 * code[d - 1] + 4 * Bit(b[1], d - 1, bs) + 2 * Bit(b[2], d - 1, bs)
                                 + Bit(b[3], d - 1, bs)
    IN  code[Depth]
Digit(m, d) == (m \div 2^(3 * (Depth - 1 - d))) % 8
-------------------------------------------------------------------------------
Datasets == UNION {[0..(n - 1) -> Points] : n \in 1..MaxBodies}
Unset == [morton |-> -1, bod |-> <<>>]

Init ==
    /\ bodies \in Datasets
    /\ sorts = [k \in Index |-> Unset]
    /\ done = [t \in Threads |-> 0]
    /\ range = NoRange /\ calls = <<>>
    /\ tree = {} /\ neighbors = <<>>
    /\ stage = "codes" /\ fault = "none"

(* How many of count things the t-th thread gets: at most per, and none when *)
(* the ones before it have used them up.                                     *)
SliceLen(t, per, count) == IF per < count - t * per THEN per ELSE count - t * per

(* mort_thread: the next body of the thread's slice.                         *)
MortThread(t) == LET per == CeilDiv(Count, ThreadCnt)
                     k   == t * per + done[t] IN
    /\ stage = "codes" /\ fault = "none"
    /\ done[t] < SliceLen(t, per, Count)
    /\ sorts' = [sorts EXCEPT ![k] = [morton |-> Morton(bodies[k], bodies), bod |-> bodies[k]]]
    /\ done' = [done EXCEPT ![t] = @ + 1]
    /\ UNCHANGED <<bodies, range, calls, tree, neighbors, stage, fault>>

(* A call of bsort on start..end, with its pivot in the middle.              *)
Opened(start, end) ==
    [start |-> start, end |-> end, i |-> start, l |-> end,
     pivot |-> sorts[start + (end - start) \div 2].morton]

(* The threads are joined; msort starts on the whole array.                  *)
MortJoined == LET per == CeilDiv(Count, ThreadCnt) IN
    /\ stage = "codes" /\ fault = "none"
    /\ \A t \in Threads : done[t] >= SliceLen(t, per, Count)
    /\ done' = [o \in Octants |-> 0]
    /\ range' = Opened(0, Count - 1)
    /\ stage' = "sort"
    /\ UNCHANGED <<bodies, sorts, calls, tree, neighbors, fault>>
-------------------------------------------------------------------------------
(* msort.c, msort_helper.c                                                   *)

(* Where the two scans of a pass stop: i at a code not below the pivot, l at *)
(* one below it, even beyond the start of the range.                         *)
Above == {k \in Index : k >= range.i /\ sorts[k].morton >= range.pivot}
Below == {k \in Index : k <= range.l /\ sorts[k].morton < range.pivot}

(* Mutant of Swap: one code is overwritten before it is saved.               *)
Overwrite(a, k, l) == [a EXCEPT ![k].morton = a[l].morton]

(* msort_swap: the codes change places, the bodies stay.                     *)
Swap(a, k, l) == [a EXCEPT ![k].morton = a[l].morton, ![l].morton = a[k].morton]

(* Mutant of PartitionPass: the element at the border is in neither part.    *)
PartitionPassShort ==
    /\ stage = "sort" /\ fault = "none" /\ range # NoRange /\ Below # {}
    /\ LET i == Min(Above)
           l == Max(Below)
       IN  IF i >= l
           THEN /\ calls' = calls \o <<[start |-> l + 1, end |-> range.end],
                                       [start |-> range.start, end |-> l - 1]>>
                /\ range' = NoRange
                /\ UNCHANGED sorts
           ELSE /\ sorts' = Swap(sorts, i, l)
                /\ range' = [range EXCEPT !.i = i, !.l = l]
                /\ UNCHANGED calls
    /\ UNCHANGED <<bodies, done, tree, neighbors, stage, fault>>

PartitionPass ==
    /\ stage = "sort" /\ fault = "none" /\ range # NoRange /\ Below # {}
    /\ LET i == Min(Above)
           l == Max(Below)
       IN  IF i >= l
           THEN /\ calls' = calls \o <<[start |-> l + 1, end |-> range.end],
                                       [start |-> range.start, end |-> l]>>
                /\ range' = NoRange
                /\ UNCHANGED sorts
           ELSE /\ sorts' = Swap(sorts, i, l)
                /\ range' = [range EXCEPT !.i = i, !.l = l]
                /\ UNCHANGED calls
    /\ UNCHANGED <<bodies, done, tree, neighbors, stage, fault>>

(* l runs past the first element of the array.                               *)
PartitionOverrun ==
    /\ stage = "sort" /\ fault = "none" /\ range # NoRange /\ Below = {}
    /\ fault' = "read before the array"
    /\ UNCHANGED <<bodies, sorts, done, range, calls, tree, neighbors, stage>>

(* bsort returns at once from a range of at most one element.                *)
BsortCall ==
    /\ stage = "sort" /\ fault = "none" /\ range = NoRange /\ calls # <<>>
    /\ calls' = Front(calls)
    /\ LET call == Last(calls)
       IN  range' = IF call.start >= call.end THEN NoRange
                    ELSE Opened(call.start, call.end)
    /\ UNCHANGED <<bodies, sorts, done, tree, neighbors, stage, fault>>
-------------------------------------------------------------------------------
(* The octree.  A node is known by the octants that lead to it; its bodies   *)
(* are the count ones from first.                                            *)

(* Mutant of Border: the search steps over the border.                       *)
BorderOvershoots(node, from, code) ==
    LET d == Len(node.at)
        HasCode(k) == Digit(sorts[node.first + k].morton, d) = code
        Half(step) == IF step \div 2 = 0 THEN 1 ELSE step \div 2
        search[s \in [i: Int, step: Nat]] ==
            IF s.i >= node.count - 1 THEN node.count - from
            ELSE IF HasCode(s.i) THEN search[[i |-> s.i + s.step, step |-> Half(s.step)]]
            ELSE s.i - from
    IN  IF from = node.count THEN 0
        ELSE IF ~HasCode(from) THEN 0
        ELSE search[[i |-> from, step |-> (node.count - from) \div 2]]

(* binary_border_search among the bodies of a node, from the from-th on: how *)
(* many have this octant, found by steps that halve.                         *)
Border(node, from, code) ==
    LET d == Len(node.at)
        HasCode(k) == Digit(sorts[node.first + k].morton, d) = code
        Half(step) == IF step \div 2 = 0 THEN 1 ELSE step \div 2
        search[s \in [i: Int, step: Nat]] ==
            IF s.i >= node.count - 1 THEN node.count - from
            ELSE IF HasCode(s.i) /\ ~HasCode(s.i + 1) THEN s.i - from + 1
            ELSE search[[i |-> IF HasCode(s.i) THEN s.i + s.step ELSE s.i - s.step,
                         step |-> Half(s.step)]]
    IN  IF from = node.count THEN 0
        ELSE IF ~HasCode(from) THEN 0
        ELSE search[[i |-> from, step |-> (node.count - from) \div 2]]

(* split: the eight children, each from where the last one ends.             *)
Split(node) ==
    LET from[o \in 0..8] ==
            IF o = 0 THEN 0 ELSE from[o - 1] + Border(node, from[o - 1], o - 1)
    IN  {[at |-> Append(node.at, o), first |-> node.first + from[o],
          count |-> from[o + 1] - from[o]] : o \in Octants}

(* split_tree: this node and all below it, level after level.                *)
Grown(root) ==
    LET level[d \in 0..Depth] ==
            IF d = 0 THEN {root}
            ELSE UNION {Split(node) : node \in
                    {n \in level[d - 1] : n.count >= LeafThreshold /\ Len(n.at) # Depth}}
    IN  UNION {level[d] : d \in 0..Depth}

(* make_tree after the sort; mt_split_tree always splits the root.           *)
MakeRoot == LET root == [at |-> <<>>, first |-> 0, count |-> Count] IN
    /\ stage = "sort" /\ fault = "none" /\ range = NoRange /\ calls = <<>>
    /\ bodies' = [k \in Index |-> sorts[k].bod]
    /\ tree' = {root} \cup Split(root)
    /\ stage' = "split"
    /\ UNCHANGED <<sorts, done, range, calls, neighbors, fault>>

(* split_thread: it touches the nodes under its octant and the codes and     *)
(* bodies of their slice only, so that it is one step.                       *)
SplitThread(o) ==
    /\ stage = "split" /\ fault = "none" /\ done[o] = 0
    /\ tree' = tree \cup UNION {Grown(node) : node \in {n \in tree : n.at = <<o>>}}
    /\ done' = [done EXCEPT ![o] = 1]
    /\ UNCHANGED <<bodies, sorts, range, calls, neighbors, stage, fault>>

SplitJoined ==
    /\ stage = "split" /\ fault = "none" /\ \A o \in Octants : done[o] = 1
    /\ done' = [t \in Threads |-> 0]
    /\ stage' = "assemble"
    /\ UNCHANGED <<bodies, sorts, range, calls, tree, neighbors, fault>>
-------------------------------------------------------------------------------
Node(p) == CHOOSE n \in tree : n.at = p
Childless(p) == ~\E n \in tree : n.at = Append(p, 0)
Flatten8(f) == FlattenSeq([o \in 1..8 |-> f[o - 1]])

(* enumerate_leaves, in the order of the octants; empty ones are left out.   *)
Leaves ==
    LET under[p \in Nodes] ==
            IF ~Childless(p) THEN Flatten8([o \in Octants |-> under[Append(p, o)]])
            ELSE IF Node(p).count = 0 THEN <<>> ELSE <<p>>
    IN under[<<>>]

(* Twice the distances of multipole_acceptance_criterion, times 2^Depth and   *)
(* the number of bodies, to stay in the integers: us_midpoint is half the    *)
(* width on every axis, wherever the cell is, and d may be negative.         *)
Width(p)  == (2 * (Highest(bodies) - Lowest(bodies)) * 2^Depth) \div 2^Len(p)
Mass(p)   == IF Node(p).count = 0 THEN 1 ELSE Node(p).count
Moment(p, a) ==
    MapThenSumSet(LAMBDA k : bodies[k][a],
                  Node(p).first..(Node(p).first + Node(p).count - 1))
Far(us, them) ==
    LET half == (Width(us) \div 2) * Mass(them)
        r2   == MapThenSumSet(
                    LAMBDA a : Square(2 * 2^Depth * Moment(them, a) - half), Axes)
    IN  /\ us # them
        /\ r2 < Square(half) \/ r2 > Square(Width(them) * Mass(them) + half)

(* Mutant of Neighborhood: a far cell is taken and walked into as well.       *)
NeighborhoodTwice(leaf) ==
    LET from[p \in Nodes] ==
            (IF p # <<>> /\ Far(leaf, p) THEN <<[at |-> p, single |-> TRUE]>> ELSE <<>>)
            \o (IF Childless(p) THEN <<[at |-> p, single |-> FALSE]>>
                ELSE Flatten8([o \in Octants |-> from[Append(p, o)]]))
    IN from[<<>>]

(* assemble_neighborhood: a far cell as one particle, a near leaf itself, a   *)
(* near cell with children by its children; the root is never far.           *)
Neighborhood(leaf) ==
    LET from[p \in Nodes] ==
            IF p # <<>> /\ Far(leaf, p) THEN <<[at |-> p, single |-> TRUE]>>
            ELSE IF Childless(p) THEN <<[at |-> p, single |-> FALSE]>>
            ELSE Flatten8([o \in Octants |-> from[Append(p, o)]])
    IN from[<<>>]

(* assemble_thread: the next leaf of the thread's slice, up to the NULL that *)
(* ends the array.                                                           *)
AssembleThread(t) == LET per == CeilDiv(Len(Leaves), ThreadCnt)
                         k   == t * per + done[t] + 1 IN
    /\ stage = "assemble" /\ fault = "none"
    /\ done[t] < per /\ k <= Len(Leaves)
    /\ neighbors' = [p \in DOMAIN neighbors \cup {Leaves[k]} |->
                        IF p = Leaves[k] THEN Neighborhood(p) ELSE neighbors[p]]
    /\ done' = [done EXCEPT ![t] = @ + 1]
    /\ UNCHANGED <<bodies, sorts, range, calls, tree, stage, fault>>

(* With few leaves a thread starts beyond the NULL and takes what is there   *)
(* for a leaf, or for the end.                                               *)
Beyond(t) == t * CeilDiv(Len(Leaves), ThreadCnt) > Len(Leaves)
AssembleOverrun(t) ==
    /\ stage = "assemble" /\ fault = "none" /\ Beyond(t)
    /\ fault' = "read beyond the leaves"
    /\ UNCHANGED <<bodies, sorts, done, range, calls, tree, neighbors, stage>>

AssembleJoined == LET per == CeilDiv(Len(Leaves), ThreadCnt) IN
    /\ stage = "assemble" /\ fault = "none"
    /\ \A t \in Threads : done[t] = per \/ t * per + done[t] >= Len(Leaves)
    /\ stage' = "divided"
    /\ UNCHANGED <<bodies, sorts, done, range, calls, tree, neighbors, fault>>
-------------------------------------------------------------------------------
Next ==
    \/ MortJoined \/ PartitionPass \/ PartitionOverrun \/ BsortCall \/ MakeRoot
    \/ SplitJoined \/ AssembleJoined
    \/ \E t \in Threads : MortThread(t) \/ AssembleThread(t) \/ AssembleOverrun(t)
    \/ \E o \in Octants : SplitThread(o)

Spec == Init /\ [][Next]_vars

(* The operating system runs every thread.                                   *)
FairSpec == Spec /\ WF_vars(Next)
-------------------------------------------------------------------------------
Sorting == stage = "sort"
Sorted  == stage \in {"split", "assemble", "divided"}

(* Every body gets its code from exactly one of the threads, and the sort    *)
(* moves codes about without losing or doubling any: the codes in the array  *)
(* are at every pass those of the bodies of the dataset.                     *)
CodesKept ==
    stage # "codes" =>
        \A c \in {Morton(bodies[k], bodies) : k \in Index} \cup {sorts[k].morton : k \in Index} :
            Cardinality({k \in Index : sorts[k].morton = c})
            = Cardinality({k \in Index : Morton(bodies[k], bodies) = c})

(* If msort comes to an end, the codes ascend (the order that                *)
(* binary_border_search relies on, divide_dataset.c:507).                    *)
CodesAscend == Sorted => \A k \in 1..(Count - 1) : sorts[k - 1].morton <= sorts[k].morton

(* The leaves tile the bodies: one after the other, from the first to the    *)
(* last, and all the codes of a leaf are in its octants.                     *)
LeavesTile == stage = "assemble" =>
    /\ \A k \in Index : \E j \in DOMAIN Leaves : LET n == Node(Leaves[j]) IN
          /\ n.first <= k /\ k < n.first + n.count
          /\ \A d \in 1..Len(n.at) : Digit(sorts[k].morton, d - 1) = n.at[d]
    /\ \A j \in 2..Len(Leaves) : LET n == Node(Leaves[j - 1]) IN
          Node(Leaves[j]).first = n.first + n.count

(* A neighbourhood accounts for every body once: directly in one leaf, or    *)
(* inside one cell taken as a single particle, never both and never twice,   *)
(* whatever the acceptance criterion answers.                                *)
NeighborhoodCovers == \A p \in DOMAIN neighbors : \A k \in Index :
    Cardinality({j \in DOMAIN neighbors[p] : LET n == Node(neighbors[p][j].at) IN
                    n.first <= k /\ k < n.first + n.count}) = 1

(* Every leaf that is sent has its neighbourhood: the slices of the threads  *)
(* leave none out.                                                           *)
AllAssembled == stage = "divided" => DOMAIN neighbors = ToSet(Leaves)

(* divide_dataset.c:634: "sort the bodies by their morton codes / they are   *)
(* now arranged on a z-order curve": unless it reads outside its arrays, the *)
(* sort ends, with every body at its code.                                   *)
ArrangedOnZOrder ==
    [](fault = "none")
        => <>(Sorted /\ \A k \in Index : sorts[k].morton = Morton(sorts[k].bod, bodies))
===============================================================================
