----------------------------- MODULE TickService -----------------------------
(***************************************************************************)
(* What the dispatcher promises its user: TicksCnt ticks, one after the      *)
(* other, each with the result of every cell computed from the dataset of    *)
(* that tick, in any order; then the program ends.                           *)
(***************************************************************************)
EXTENDS Integers

CONSTANTS CellIds, TicksCnt

VARIABLES
    ticks_done,     \* ticks that are over
    computed,       \* the cells whose results for this tick are there
    over            \* the program has ended

Init == ticks_done = 0 /\ computed = {} /\ over = FALSE

Integrate == \E c \in CellIds :
    /\ ticks_done < TicksCnt
    /\ computed' = computed \cup {c}
    /\ UNCHANGED <<ticks_done, over>>

EndTick ==
    /\ ticks_done < TicksCnt /\ computed = CellIds
    /\ ticks_done' = ticks_done + 1
    /\ computed' = {}
    /\ UNCHANGED over

End ==
    /\ ticks_done = TicksCnt /\ ~over
    /\ over' = TRUE
    /\ UNCHANGED <<ticks_done, computed>>

Next == Integrate \/ EndTick \/ End

Spec == Init /\ [][Next]_<<ticks_done, computed, over>>
===============================================================================
