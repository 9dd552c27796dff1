------------------------------- MODULE Channel -------------------------------
(***************************************************************************)
(* What receive_msg and send_msg promise the rest of the program about one   *)
(* direction of a connection: whole messages, each once, in the order in     *)
(* which they were sent.  Those not yet received are lost when an end goes.  *)
(***************************************************************************)
EXTENDS Integers, Sequences

CONSTANT Messages

VARIABLES sent, received

Init == sent = <<>> /\ received = <<>>

Send == \E m \in Messages : sent' = Append(sent, m) /\ UNCHANGED received

Receive ==
    /\ Len(received) < Len(sent)
    /\ received' = Append(received, sent[Len(received) + 1])
    /\ UNCHANGED sent

Next == Send \/ Receive

Spec == Init /\ [][Next]_<<sent, received>>
===============================================================================
