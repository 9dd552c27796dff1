---------------------------- MODULE WorkerService -----------------------------
(***************************************************************************)
(* What a worker promises the dispatcher: a result for every work unit it   *)
(* was given, once, in the order it was given them.  Every result carries   *)
(* an is_last flag.  The promise about the flag is weak: when a result goes  *)
(* out and nothing more is owed, it is flagged; on the other results the    *)
(* flag may be set or not.                                                  *)
(***************************************************************************)
EXTENDS Integers, Sequences

CONSTANTS MaxBundles, UnitCounts

VARIABLES
    owed,       \* the units to answer, the oldest first
    answered,   \* the results sent, in order
    up          \* the connection stands
serviceVars == <<owed, answered, up>>

UnitsOf(b) == [i \in 1..b.idcount |-> [id |-> b.id, index |-> i - 1]]

Init == owed = <<>> /\ answered = <<>> /\ up = TRUE

Receive == \E b \in [id: 1..MaxBundles, idcount: UnitCounts] :
    /\ owed' = owed \o UnitsOf(b)
    /\ UNCHANGED <<answered, up>>

Answer == \E flag \in BOOLEAN :
    /\ up /\ owed # <<>>
    /\ Len(owed) = 1 => flag
    /\ answered' = Append(answered, [id |-> Head(owed).id, index |-> Head(owed).index,
                                     is_last |-> flag])
    /\ owed' = Tail(owed)
    /\ UNCHANGED up

Disconnect == up /\ up' = FALSE /\ UNCHANGED <<owed, answered>>

(* The results of a worker that has lost the dispatcher go nowhere.         *)
Lose == /\ ~up /\ owed # <<>>
        /\ owed' = Tail(owed)
        /\ UNCHANGED <<answered, up>>

Next == Receive \/ Answer \/ Disconnect \/ Lose

Spec == Init /\ [][Next]_serviceVars
===============================================================================
