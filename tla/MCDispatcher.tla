----------------------------- MODULE MCDispatcher -----------------------------
(* Model-checking instances of Dispatcher.                                   *)
EXTENDS Dispatcher, TLC

Symmetry == Permutations(Workers)

(* A bound: three workers while all of them are admitted before the launch   *)
(* and stay, two when one comes late or is lost; and no further once a       *)
(* worker and, by a mishap, a cell may have been lost.                       *)
InTime == losses = 0 /\ (sender_count = 0 \/ \A w \in Workers : event[w] # "absent")
Bound == /\ InTime \/ Cardinality({w \in Workers : Joined(w)}) <= 2
         /\ losses = 0 \/ mishaps \cap {"flag", "reply", "orphan"} = {}

(* Flags as exact as those of bundles of one unit are (WorkerProofs).        *)
FlagsExact == "flag" \notin mishaps

(* Of the third tick, only what is left of a simulation without mishaps.     *)
TwoTicks == mishaps = {} \/ ticks_done < 2

(* A shorter way to the third tick: nothing has gone wrong, and no result is *)
(* handled while a sender has its worker in hand.                            *)
Smoothly ==
    /\ mishaps \subseteq {"twice"}
    /\ \A s \in Senders : sender[s].link # NULL =>
            event[sender[s].link] \notin {"save", "save_last", "pop"}
===============================================================================
