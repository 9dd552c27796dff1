------------------------------ MODULE LinkedQueue -----------------------------
(***************************************************************************)
(* t_queue of the dispatcher (and of the worker, whose queue_enqueue.c is    *)
(* the same): a counted singly linked list.  A link is a member of Links;    *)
(* NULL is not.  A queue is a record with the two ends, the count and the    *)
(* next field of every link.  The next fields outlive membership: popping a  *)
(* link does not reset its next, and appending a link to a list that has a   *)
(* last element does not either, so a link that is popped and enqueued again *)
(* (the dispatcher's worker links are) carries an old next into the list.    *)
(***************************************************************************)
EXTENDS Integers

CONSTANTS Links, NULL

LinkOrNull == Links \cup {NULL}
Queues == [first: LinkOrNull, last: LinkOrNull, count: Int, next: [Links -> LinkOrNull]]

NewQueue == [first |-> NULL, last |-> NULL, count |-> 0, next |-> [l \in Links |-> NULL]]

(* queue_enqueue: the three cases of the code, in its order.                *)
Enqueue(q, new) ==
    LET counted == [q EXCEPT !.count = @ + 1]
    IN  IF q.first = NULL
        THEN [counted EXCEPT !.first = new, !.next[new] = NULL]
        ELSE IF q.last = NULL
        THEN [counted EXCEPT !.last = new,
                             !.next = [[@ EXCEPT ![new] = NULL] EXCEPT ![q.first] = new]]
        ELSE [counted EXCEPT !.last = new, !.next[q.last] = new]

(* queue_pop_link: the link popped is q.first; a count of zero after the    *)
(* pop resets last but not first.                                           *)
PopLink(q) ==
    LET n == IF q.first = NULL THEN q.count ELSE q.count - 1
    IN  [q EXCEPT !.first = IF @ = NULL THEN NULL ELSE q.next[@],
                  !.count = n,
                  !.last  = IF n = 0 THEN NULL ELSE @]

(* The links met on a walk from first, as remove_link walks: N hops at most.*)
Walk(q, N) ==
    LET node[k \in 0..N] ==
            IF k = 0 THEN q.first
            ELSE IF node[k - 1] = NULL THEN NULL ELSE q.next[node[k - 1]]
    IN node

(* remove_link: unlink l if the walk meets it.  N is the number of links:   *)
(* a walk of N hops that has met neither l nor the end goes round for ever. *)
Meets(q, l, N)     == \E k \in 0..N : Walk(q, N)[k] = l
NeverEnds(q, l, N) == ~Meets(q, l, N) /\ Walk(q, N)[N] # NULL
RemoveLink(q, l, N) ==
    IF ~Meets(q, l, N) THEN q
    ELSE IF q.first = l THEN [q EXCEPT !.first = q.next[l]]
    ELSE LET k == CHOOSE i \in 0..(N - 1) :
                    /\ Walk(q, N)[i + 1] = l
                    /\ \A j \in 0..i : Walk(q, N)[j] # l
         IN [q EXCEPT !.next[Walk(q, N)[k]] = q.next[l]]
===============================================================================
