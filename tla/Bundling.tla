------------------------------- MODULE Bundling -------------------------------
(***************************************************************************)
(* The way of one bundle from the leaves of the tree to the work units.      *)
(*                                                                          *)
(* On the dispatcher, bundle_leaves pours the neighbourhoods of consecutive  *)
(* leaves into a hash table: a cell (its address) leads to the leaves that   *)
(* need it, by their place in the bundle.  bundle_dict makes arrays of it,   *)
(* serialize_bundle a message, in which every cell is sent once.  The worker *)
(* reads the message back, turns the table around (transpose_matches) and    *)
(* kick_bundle gathers the neighbourhood of one leaf after the other.        *)
(*                                                                          *)
(* A message is a sequence of words: a number, the bodies of a leaf (by the  *)
(* leaf) or the positions in a cell (by the cell).  All of it runs on one    *)
(* thread at a time, and an action is one call.                              *)
(***************************************************************************)
EXTENDS Integers, Sequences, FiniteSets, SequencesExt

CONSTANTS
    Cells,          \* the nodes of the tree that may be in a neighbourhood
    LeafCnt,        \* dispatcher->cell_count
    BucketCnt,      \* dict->size
    MaxWorkers,     \* the most workers the leaves are divided among
    MaxNeighbors    \* the most cells in a neighbourhood

ASSUME BundlingAssumption ==
    /\ IsFiniteSet(Cells) /\ LeafCnt \in Nat \ {0} /\ BucketCnt \in Nat \ {0}
    /\ MaxWorkers \in Nat \ {0} /\ MaxNeighbors \in Nat \ {0}

VARIABLES
    neighbors,      \* leaf -> the cells of its neighbourhood
    empty,          \* the cells without bodies
    hash,           \* cell -> its bucket
    offset, lpb,    \* the arguments of bundle_leaves
    dict, ids,      \* the hash table; the leaves taken, the last one first
    bundle,         \* the dispatcher's t_bundle
    msg,            \* the message of serialize_bundle
    wbundle,        \* the worker's t_bundle, index the next unit to kick
    workunits,      \* what kick_bundle returned, in order
    stage

tree == <<neighbors, empty, hash, offset, lpb>>
vars == <<tree, dict, ids, bundle, msg, wbundle, workunits, stage>>

LeafIds == 0..(LeafCnt - 1)
Leaf(i) == [leaf |-> i]             \* the bodies of a leaf
NoBundle  == [keys |-> <<>>, cells |-> <<>>, matches |-> <<>>]
NoWBundle == [ids |-> <<>>, locals |-> <<>>, cells |-> <<>>, matches |-> <<>>, index |-> 0]

CeilDiv(a, b) == (a + b - 1) \div b
-------------------------------------------------------------------------------
(* A neighbourhood holds distinct nodes of the tree, at least one.           *)
Neighborhoods == {s \in BoundedSeq(Cells, MaxNeighbors) : s # <<>> /\ IsInjective(s)}

Init ==
    /\ neighbors \in [LeafIds -> Neighborhoods]
    /\ empty \in {{}} \cup {{c} : c \in Cells}
    /\ hash \in [Cells -> 1..BucketCnt]
    /\ \E wcount \in 1..MaxWorkers : lpb = CeilDiv(LeafCnt, wcount)
    /\ offset \in {i \in LeafIds : i % lpb = 0}
    /\ dict = [b \in 1..BucketCnt |-> <<>>] /\ ids = <<>>
    /\ bundle = NoBundle /\ msg = <<>>
    /\ wbundle = NoWBundle /\ workunits = <<>>
    /\ stage = "pour"

(* Mutant of Insert: a cell that is there already gets a second entry.       *)
InsertTwice(table, cell, subkey) ==
    IF cell \in empty THEN table
    ELSE [table EXCEPT ![hash[cell]] = Append(@, [key |-> cell, subkeys |-> <<subkey>>])]

(* dict_insert: a new cell goes to the end of its bucket's chain; a leaf     *)
(* that needs a cell that is there already, to the front of its subkeys.     *)
Insert(table, cell, subkey) ==
    LET chain == table[hash[cell]]
        found == {k \in DOMAIN chain : chain[k].key = cell}
        grown == [k \in DOMAIN chain |->
                    IF k \in found
                    THEN [key |-> cell, subkeys |-> <<subkey>> \o chain[k].subkeys]
                    ELSE chain[k]]
    IN  IF cell \in empty THEN table
        ELSE IF found = {}
        THEN [table EXCEPT ![hash[cell]] = Append(@, [key |-> cell, subkeys |-> <<subkey>>])]
        ELSE [table EXCEPT ![hash[cell]] = grown]

(* The neighbourhood of a leaf, one cell after the other.                    *)
Poured(cells, subkey) ==
    LET table[n \in 0..Len(cells)] ==
            IF n = 0 THEN dict ELSE Insert(table[n - 1], cells[n], subkey)
    IN  table[Len(cells)]

(* Mutant of Pour: the leaf by its place in the tree, not in the bundle.     *)
PourAbsolute == LET i == Len(ids) IN
    /\ stage = "pour"
    /\ i < lpb /\ offset + i \in LeafIds
    /\ ids' = <<offset + i>> \o ids
    /\ dict' = Poured(neighbors[offset + i], offset + i)
    /\ UNCHANGED <<tree, bundle, msg, wbundle, workunits, stage>>

(* bundle_leaves: the next leaf, if the bundle and the array have one.       *)
Pour == LET i == Len(ids) IN
    /\ stage = "pour"
    /\ i < lpb /\ offset + i \in LeafIds
    /\ ids' = <<offset + i>> \o ids
    /\ dict' = Poured(neighbors[offset + i], i)
    /\ UNCHANGED <<tree, bundle, msg, wbundle, workunits, stage>>

Entries == FlattenSeq([b \in 1..BucketCnt |-> dict[b]])

(* Mutant of BundleDict: the leaves in the order of the list.                *)
BundleDictBackwards ==
    /\ stage = "pour" /\ (Len(ids) = lpb \/ offset + Len(ids) \notin LeafIds)
    /\ bundle' = [keys    |-> ids,
                  cells   |-> [j \in DOMAIN Entries |-> Entries[j].key],
                  matches |-> [j \in DOMAIN Entries |-> Entries[j].subkeys]]
    /\ stage' = "send"
    /\ UNCHANGED <<tree, dict, ids, msg, wbundle, workunits>>

(* bundle_dict: the keys from the end of the list to its head, the table     *)
(* bucket after bucket.                                                      *)
BundleDict ==
    /\ stage = "pour" /\ (Len(ids) = lpb \/ offset + Len(ids) \notin LeafIds)
    /\ bundle' = [keys    |-> Reverse(ids),
                  cells   |-> [j \in DOMAIN Entries |-> Entries[j].key],
                  matches |-> [j \in DOMAIN Entries |-> Entries[j].subkeys]]
    /\ stage' = "send"
    /\ UNCHANGED <<tree, dict, ids, msg, wbundle, workunits>>

(* serialize_bundle: two counts; leaf and bodies of each unit; for each cell *)
(* how many need it, which, and its positions.                               *)
SerializeBundle ==
    /\ stage = "send"
    /\ msg' = <<Len(bundle.keys), Len(bundle.cells)>>
              \o FlattenSeq([k \in DOMAIN bundle.keys |->
                                <<bundle.keys[k], Leaf(bundle.keys[k])>>])
              \o FlattenSeq([j \in DOMAIN bundle.cells |->
                                <<Len(bundle.matches[j])>> \o bundle.matches[j]
                                \o <<bundle.cells[j]>>])
    /\ stage' = "receive"
    /\ UNCHANGED <<tree, dict, ids, bundle, wbundle, workunits>>
-------------------------------------------------------------------------------
(* Where the entries of the cells start in a message.                        *)
CellOffset(m) ==
    LET at[j \in 1..(m[2] + 1)] ==
            IF j = 1 THEN 3 + 2 * m[1] ELSE at[j - 1] + m[at[j - 1]] + 2
    IN at

(* transpose_matches: for every unit the cells it needs, in the order of the *)
(* cells.                                                                    *)
Transposed(matches, idcount) ==
    [u \in 1..idcount |->
        FlattenSeq([i \in DOMAIN matches |->
            [k \in 1..Cardinality({j \in DOMAIN matches[i] : matches[i][j] = u - 1}) |-> i]])]

(* deserialize_bundle                                                        *)
DeserializeBundle == LET at == CellOffset(msg) IN
    /\ stage = "receive"
    /\ wbundle' =
        [ids     |-> [k \in 1..msg[1] |-> msg[2 * k + 1]],
         locals  |-> [k \in 1..msg[1] |-> msg[2 * k + 2]],
         cells   |-> [j \in 1..msg[2] |-> msg[at[j + 1] - 1]],
         matches |-> Transposed([j \in 1..msg[2] |->
                                    SubSeq(msg, at[j] + 1, at[j] + msg[at[j]])], msg[1]),
         index   |-> 0]
    /\ stage' = "kick"
    /\ UNCHANGED <<tree, dict, ids, bundle, msg, workunits>>

(* kick_bundle                                                               *)
KickBundle == LET u == wbundle.index + 1 IN
    /\ stage = "kick" /\ wbundle.index < Len(wbundle.ids)
    /\ workunits' = Append(workunits,
            [id |-> wbundle.ids[u], local |-> wbundle.locals[u],
             M  |-> [k \in DOMAIN wbundle.matches[u] |->
                        wbundle.cells[wbundle.matches[u][k]]]])
    /\ wbundle' = [wbundle EXCEPT !.index = @ + 1]
    /\ UNCHANGED <<tree, dict, ids, bundle, msg, stage>>

Next == Pour \/ BundleDict \/ SerializeBundle \/ DeserializeBundle \/ KickBundle

Spec == Init /\ [][Next]_vars
-------------------------------------------------------------------------------
(* The units of a bundle are its leaves, each once, in the order of the      *)
(* tree, with the bodies of that leaf (the reversed list of bundle_leaves    *)
(* and bundle_dict's filling from the end cancel out).                       *)
LeavesInOrder ==
    \A k \in DOMAIN workunits : /\ workunits[k].id = offset + k - 1
                                /\ workunits[k].local = Leaf(workunits[k].id)

(* A unit gets exactly the neighbourhood its leaf had: every cell with       *)
(* bodies, once, and no cell of another leaf, whichever cells share a bucket *)
(* and whichever leaves share a cell.                                        *)
NeighborhoodKept ==
    \A k \in DOMAIN workunits :
        /\ ToSet(workunits[k].M) = ToSet(neighbors[workunits[k].id]) \ empty
        /\ IsInjective(workunits[k].M)

(* The message carries the union of the neighbourhoods, every cell once: the *)
(* reason why bundles exist.                                                 *)
CellsSentOnce ==
    stage # "pour" =>
        /\ IsInjective(bundle.cells)
        /\ ToSet(bundle.cells)
           = (UNION {ToSet(neighbors[bundle.keys[k]]) : k \in DOMAIN bundle.keys}) \ empty
===============================================================================
