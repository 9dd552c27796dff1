--------------------------- MODULE DispatcherProofs ---------------------------
(***************************************************************************)
(* The semaphore start_sending counts the pool of bundles exactly, for any   *)
(* number of workers, leaves and ticks, however workers join late or are     *)
(* lost.  The argument: a bundle and its token enter and leave the pool in   *)
(* two steps of one thread, and the thread between them is counted: a sender *)
(* with a token in hand, a bundle thread that has still to post, an event    *)
(* thread that has put a lost worker's bundle back.  Somebody who divides    *)
(* has posted all he enqueued before he divides again.                       *)
(*                                                                          *)
(* Then the types, under the same conditions.  They hold since a bundle is a  *)
(* run of leaves, only the event thread that counted the last bundle divides *)
(* and does so only while ticks remain, and nothing is about before main has *)
(* divided.                                                                  *)
(*                                                                          *)
(* Then where the bundles are: a step moves at most one from one place to    *)
(* another, so they stay apart as long as nobody divides the leaves again    *)
(* while bundles are about.  And who is in, when all workers are there from  *)
(* the launch to the end.                                                    *)
(***************************************************************************)
EXTENDS Dispatcher, SequenceTheorems, FiniteSetTheorems, TLAPS

KeySets   == SUBSET CellIds
AnyBundle == [tick : Int, keys : KeySets] \cup {NULL}

SenderPlaces  == {"wait", "take", "queue", "send", "return"}
DividePlaces  == {"none", "assign", "count", "bundle", "done"}
ConnectPlaces == {"accept", "settings", "applied"}
EventPlaces   == {"absent", "receive", "save", "save_last", "pop", "done", "all_done", "reopen",
                  "divide", "repool", "repost", "unlink", "free", "gone"}

Hand     == [pc : SenderPlaces, link : Workers \cup {NULL}, bundle : AnyBundle]
Division == [pc : DividePlaces, keys : SUBSET KeySets, posts : SUBSET KeySets]

Takers  == {s \in Senders : sender[s].pc = "take"}
Posts   == {p \in Dividers \X KeySets : p[2] \in divide[p[1]].posts}
Reposts == {w \in Workers : event[w] = "repost"}

Shape ==
    /\ workers \in LQ!Queues
    /\ bundles \in Seq(AnyBundle) /\ start_sending \in Nat
    /\ sender \in [Senders -> Hand]
    /\ event \in [Workers -> EventPlaces]
    /\ workunit_queue \in [Workers -> Seq(AnyBundle)]
    /\ divide \in [Dividers -> Division]
    /\ connect \in [pc : ConnectPlaces, worker : Workers \cup {NULL}]
    /\ cells \in Int /\ ticks_done \in Int

DividesInTurn ==
    /\ \A d \in Dividers : /\ divide[d].keys \cap divide[d].posts = {}
                           /\ divide[d].pc # "bundle" => divide[d].posts = {}
    /\ \A w \in Workers : divide[w].pc \in {"assign", "count", "bundle"} => event[w] = "divide"

JoinsOnce ==
    connect.pc # "accept" => connect.worker \in Workers /\ event[connect.worker] = "absent"

Inv == Shape /\ DividesInTurn /\ JoinsOnce /\ TokensMatchPool
-------------------------------------------------------------------------------
LEMMA Balance ==
    TokensMatchPool <=> start_sending + Cardinality(Takers) + Cardinality(Posts)
                            + Cardinality(Reposts) = Len(bundles)
  BY DEF TokensMatchPool, Takers, Posts, Reposts, KeySets

LEMMA Recount ==
    start_sending' + Cardinality(Takers') + Cardinality(Posts') + Cardinality(Reposts')
        = Len(bundles') => TokensMatchPool'
  BY DEF TokensMatchPool, Takers, Posts, Reposts, KeySets

(* The three counts are natural numbers.                                     *)
LEMMA Counted ==
    /\ IsFiniteSet(Takers) /\ Cardinality(Takers) \in Nat
    /\ IsFiniteSet(Posts) /\ Cardinality(Posts) \in Nat
    /\ IsFiniteSet(Reposts) /\ Cardinality(Reposts) \in Nat
  <1>1. IsFiniteSet(Workers) /\ IsFiniteSet(Dividers) /\ Cardinality(Workers) \in Nat
    BY DispatcherAssumption, FS_AddElement, FS_CardinalityType DEF Dividers
  <1>2. IsFiniteSet(Senders)
    BY <1>1, FS_Interval DEF Senders
  <1>3. IsFiniteSet(KeySets)
    <2>1. IsFiniteSet(CellIds)
      BY DispatcherAssumption, FS_Interval DEF CellIds
    <2>2. QED
      BY <2>1, FS_SUBSET DEF KeySets
  <1>4. IsFiniteSet(Dividers \X KeySets)
    BY <1>1, <1>3, FS_Product
  <1>5. IsFiniteSet(Takers) /\ IsFiniteSet(Posts) /\ IsFiniteSet(Reposts)
    BY <1>1, <1>2, <1>4, FS_Subset DEF Takers, Posts, Reposts
  <1>6. QED
    BY <1>5, FS_CardinalityType

(* Every operation on the queue of workers leaves a queue of workers.        *)
LEMMA EnqueueType ==
    ASSUME workers \in LQ!Queues, NEW w \in Workers \cup {NULL}
    PROVE  LQ!Enqueue(workers, w) \in LQ!Queues
  <1>0. /\ workers.first \in Workers \cup {NULL} /\ workers.last \in Workers \cup {NULL}
        /\ workers.count \in Int /\ workers.next \in [Workers -> Workers \cup {NULL}]
    BY DEF LQ!Queues, LQ!LinkOrNull
  <1>1. LQ!Enqueue(workers, w) \in LQ!Queues
    <2> DEFINE counted == [workers EXCEPT !.count = @ + 1]
    <2>1. /\ counted \in LQ!Queues /\ counted.next = workers.next
      BY <1>0 DEF LQ!Queues
    <2>2. CASE workers.first = NULL
      <3> DEFINE next == [workers.next EXCEPT ![w] = NULL]
      <3>1. LQ!Enqueue(workers, w) = [counted EXCEPT !.first = w, !.next = next]
        BY <2>1, <2>2 DEF LQ!Enqueue, LQ!Queues
      <3>2. next \in [Workers -> Workers \cup {NULL}]
        BY <1>0
      <3> HIDE DEF counted, next
      <3>3. QED
        BY <2>1, <3>1, <3>2 DEF LQ!Queues, LQ!LinkOrNull
    <2>3. CASE workers.first # NULL /\ workers.last = NULL
      <3> DEFINE next == [[workers.next EXCEPT ![w] = NULL] EXCEPT ![workers.first] = w]
      <3>1. LQ!Enqueue(workers, w) = [counted EXCEPT !.last = w, !.next = next]
        BY <2>1, <2>3 DEF LQ!Enqueue, LQ!Queues
      <3>2. next \in [Workers -> Workers \cup {NULL}]
        BY <1>0
      <3> HIDE DEF counted, next
      <3>3. QED
        BY <2>1, <3>1, <3>2 DEF LQ!Queues, LQ!LinkOrNull
    <2>4. CASE workers.first # NULL /\ workers.last # NULL
      <3> DEFINE next == [workers.next EXCEPT ![workers.last] = w]
      <3>1. LQ!Enqueue(workers, w) = [counted EXCEPT !.last = w, !.next = next]
        BY <2>1, <2>4 DEF LQ!Enqueue, LQ!Queues
      <3>2. next \in [Workers -> Workers \cup {NULL}]
        BY <1>0
      <3> HIDE DEF counted, next
      <3>3. QED
        BY <2>1, <3>1, <3>2 DEF LQ!Queues, LQ!LinkOrNull
    <2>5. QED
      BY <2>2, <2>3, <2>4
  <1>2. QED
    BY <1>1

LEMMA RemoveType ==
    ASSUME workers \in LQ!Queues, NEW w \in Workers, NEW n
    PROVE  [LQ!RemoveLink(workers, w, n) EXCEPT !.count = @ - 1] \in LQ!Queues
  <1>1. LQ!RemoveLink(workers, w, n) \in LQ!Queues
    BY DEF LQ!RemoveLink, LQ!Queues, LQ!LinkOrNull
  <1>2. QED
    BY <1>1 DEF LQ!Queues

LEMMA PopType ==
    workers \in LQ!Queues =>
        LQ!PopLink(workers) \in LQ!Queues /\ workers.first \in Workers \cup {NULL}
  <1> SUFFICES ASSUME workers \in LQ!Queues
      PROVE  LQ!PopLink(workers) \in LQ!Queues /\ workers.first \in Workers \cup {NULL}
    OBVIOUS
  <1>0. /\ workers.first \in Workers \cup {NULL} /\ workers.last \in Workers \cup {NULL}
        /\ workers.count \in Int /\ workers.next \in [Workers -> Workers \cup {NULL}]
    BY DEF LQ!Queues, LQ!LinkOrNull
  <1>1. LQ!PopLink(workers) \in LQ!Queues
    <2> DEFINE n     == IF workers.first = NULL THEN workers.count ELSE workers.count - 1
               first == IF workers.first = NULL THEN NULL ELSE workers.next[workers.first]
               last  == IF n = 0 THEN NULL ELSE workers.last
    <2>1. n \in Int /\ first \in Workers \cup {NULL} /\ last \in Workers \cup {NULL}
      BY <1>0
    <2>2. LQ!PopLink(workers) = [workers EXCEPT !.first = first, !.count = n, !.last = last]
      BY DEF LQ!PopLink, LQ!Queues
    <2> HIDE DEF n, first, last
    <2>3. QED
      BY <2>1, <2>2 DEF LQ!Queues, LQ!LinkOrNull
  <1>2. QED
    BY <1>0, <1>1

(* The bundles of a division are sets of leaves.                             *)
LEMMA SlicesType == \A lpb \in Int : Slices(Leaves, lpb) \in SUBSET KeySets
  <1> SUFFICES ASSUME NEW lpb \in Int, NEW start \in 0..(Leaves - 1)
      PROVE start..(IF start + lpb < Leaves THEN start + lpb - 1 ELSE Leaves - 1) \subseteq CellIds
    BY DEF Slices, KeySets
  <1>1. QED
    BY DispatcherAssumption DEF CellIds
-------------------------------------------------------------------------------
LEMMA InitInv == Init => Inv
  <1> SUFFICES ASSUME Init PROVE Inv
    OBVIOUS
  <1>1. <<>> \in Seq(AnyBundle) /\ Len(<<>>) = 0
    BY EmptySeq
  <1>2. workers \in LQ!Queues
    BY DEF Init, LQ!NewQueue, LQ!Queues, LQ!LinkOrNull
  <1>3. Shape
    <2>1. NULL \in AnyBundle /\ NULL \in Workers \cup {NULL}
      BY DEF AnyBundle
    <2>2. sender \in [Senders -> Hand]
      BY <2>1 DEF Init, Hand, SenderPlaces
    <2>3. connect \in [pc : ConnectPlaces, worker : Workers \cup {NULL}]
      BY DEF Init, ConnectPlaces
    <2>4. divide \in [Dividers -> Division]
      BY DEF Init, Division, DividePlaces
    <2>5. QED
      BY <1>1, <1>2, <2>2, <2>3, <2>4 DEF Init, Shape, EventPlaces
  <1>4. DividesInTurn /\ JoinsOnce
    BY DEF Init, DividesInTurn, JoinsOnce, Dividers
  <1>5. Takers = {} /\ Posts = {} /\ Reposts = {}
    BY DEF Init, Takers, Posts, Reposts
  <1>6. QED
    BY <1>1, <1>3, <1>4, <1>5, FS_EmptySet, Balance DEF Init, Inv

(* A step that moves no bundle and no token.                                 *)
LEMMA Quiet ==
    ASSUME Inv, Shape', DividesInTurn', JoinsOnce', UNCHANGED pool,
           Takers' = Takers, Posts' = Posts, Reposts' = Reposts
    PROVE  Inv'
  BY Balance DEF Inv, pool, TokensMatchPool, Takers, Posts, Reposts, KeySets

LEMMA ConnectKeeps == Inv /\ Connect => Inv'
  <1> USE DEF pool, peers, files, tick, stop
  <1> SUFFICES ASSUME Inv, Connect PROVE Inv'
    OBVIOUS
  <1>1. ASSUME NEW w \in Workers, ConnectAccept(w) PROVE Inv'
    <2>1. Shape'
      BY <1>1, EnqueueType DEF ConnectAccept, Inv, Shape, ConnectPlaces
    <2>2. JoinsOnce'
      BY <1>1 DEF ConnectAccept, Joined, JoinsOnce
    <2>3. QED
      BY <1>1, <2>1, <2>2, Quiet
      DEF ConnectAccept, Inv, DividesInTurn, Takers, Posts, Reposts
  <1>2. ASSUME NEW w \in Workers, ConnectFaults(w) PROVE Inv'
    BY <1>2, Quiet
    DEF ConnectFaults, Fault, Inv, Shape, DividesInTurn, JoinsOnce, Takers, Posts, Reposts
  <1>3. CASE ConnectSettings
    <2>1. Shape' /\ JoinsOnce'
      BY <1>3 DEF ConnectSettings, Inv, Shape, ConnectPlaces, JoinsOnce
    <2>2. QED
      BY <1>3, <2>1, Quiet DEF ConnectSettings, Inv, DividesInTurn, Takers, Posts, Reposts
  <1>4. CASE ConnectApplied
    <2>1. connect.worker \in Workers /\ event[connect.worker] = "absent"
      BY <1>4 DEF ConnectApplied, Inv, JoinsOnce
    <2>2. connect' = [pc |-> "accept", worker |-> NULL]
          /\ event' = [event EXCEPT ![connect.worker] = "receive"]
      BY <1>4 DEF ConnectApplied
    <2>3. Shape'
      <3>1. event' \in [Workers -> EventPlaces]
        BY <2>2 DEF Inv, Shape, EventPlaces
      <3>2. connect' \in [pc : ConnectPlaces, worker : Workers \cup {NULL}]
        BY <2>2 DEF ConnectPlaces
      <3>3. QED
        BY <1>4, <3>1, <3>2 DEF ConnectApplied, Inv, Shape
    <2>4. DividesInTurn' /\ Reposts' = Reposts /\ JoinsOnce'
      BY <1>4, <2>1, <2>2 DEF ConnectApplied, Inv, Shape, DividesInTurn, JoinsOnce, Reposts
    <2>5. QED
      BY <1>4, <2>3, <2>4, Quiet DEF ConnectApplied, Takers, Posts
  <1>5. QED
    BY <1>1, <1>2, <1>3, <1>4 DEF Connect

LEMMA MainKeeps == Inv /\ (MainLaunch \/ MainExit) => Inv'
  <1> USE DEF pool, peers, files, tick, stop
  <1>1. ASSUME Inv, MainExit PROVE Inv'
    BY <1>1, Quiet
    DEF MainExit, Inv, Shape, DividesInTurn, JoinsOnce, Takers, Posts, Reposts
  <1>2. ASSUME Inv, MainLaunch PROVE Inv'
    <2>1. /\ divide' = [divide EXCEPT ![Main].pc = "assign"] /\ divide[Main].pc = "none"
          /\ Main \in Dividers /\ Main \notin Workers
      BY <1>2, DispatcherAssumption DEF MainLaunch, Main, Dividers
    <2>2. Shape'
      <3> DEFINE c == [divide[Main] EXCEPT !.pc = "assign"]
      <3>0. divide \in [Dividers -> Division] /\ divide[Main] \in Division
        BY <1>2, <2>1 DEF Inv, Shape
      <3>1. c \in Division
        BY <3>0 DEF Division, DividePlaces
      <3>2. divide' = [divide EXCEPT ![Main] = c]
        BY <2>1
      <3> HIDE DEF c
      <3>3. divide' \in [Dividers -> Division]
        BY <3>0, <3>1, <3>2
      <3>4. QED
        BY <1>2, <3>3 DEF MainLaunch, Inv, Shape
    <2>3. \A d \in Dividers : /\ divide'[d].keys = divide[d].keys
                              /\ divide'[d].posts = divide[d].posts
                              /\ d # Main => divide'[d] = divide[d]
      BY <2>1 DEF Inv, Shape, Division
    <2>4. DividesInTurn' /\ JoinsOnce'
      BY <1>2, <2>1, <2>3 DEF MainLaunch, Inv, DividesInTurn, JoinsOnce, Dividers
    <2>5. Posts' = Posts
      BY <2>3 DEF Posts
    <2>6. QED
      BY <1>2, <2>2, <2>4, <2>5, Quiet DEF MainLaunch, Takers, Reposts
  <1>3. QED
    BY <1>1, <1>2
-------------------------------------------------------------------------------
(* A step of a divider that neither enqueues nor posts.                      *)
LEMMA DivideGoesOn ==
    ASSUME Inv, NEW d \in Dividers, divide' \in [Dividers -> Division],
           \A e \in Dividers : e # d => divide'[e] = divide[e],
           divide'[d].posts = {}, divide[d].posts = {},
           divide'[d].pc = "done" \/ divide[d].pc \in {"assign", "count", "bundle"},
           event' = event, UNCHANGED <<workers, pool, sender, workunit_queue, connect>>,
           cells' \in Int, ticks_done' \in Int
    PROVE  Inv'
  <1> USE DEF pool
  <1>1. Shape'
    BY DEF Inv, Shape
  <1>2. DividesInTurn' /\ JoinsOnce'
    BY DEF Inv, DividesInTurn, JoinsOnce, Dividers
  <1>3. Posts' = Posts
    BY DEF Posts
  <1>4. QED
    BY <1>1, <1>2, <1>3, Quiet DEF Takers, Reposts

LEMMA DivideKeeps == ASSUME Inv, NEW d \in Dividers, Divide(d) PROVE Inv'
  <1> USE DEF pool, peers, files, tick, stop
  <1>0. Shape /\ DividesInTurn /\ divide[d] \in Division
    BY DEF Inv, Shape
  <1>1. CASE DivideAssign(d)
    <2>1. divide' = [divide EXCEPT ![d].pc = "count"] /\ divide[d].pc = "assign"
          /\ divide[d].posts = {}
      BY <1>0, <1>1 DEF DivideAssign, DividesInTurn
    <2>2. /\ divide' \in [Dividers -> Division] /\ divide'[d].posts = {}
          /\ \A e \in Dividers : e # d => divide'[e] = divide[e]
      <3> DEFINE c == [divide[d] EXCEPT !.pc = "count"]
      <3>1. c \in Division /\ c.posts = divide[d].posts
        BY <1>0 DEF Division, DividePlaces
      <3>2. divide' = [divide EXCEPT ![d] = c]
        BY <2>1
      <3> HIDE DEF c
      <3>3. QED
        BY <1>0, <2>1, <3>1, <3>2 DEF Shape
    <2>3. /\ event' = event /\ UNCHANGED <<workers, pool, sender, workunit_queue, connect>>
          /\ cells' \in Int /\ ticks_done' \in Int
      BY <1>0, <1>1 DEF DivideAssign, Shape
    <2>4. QED
      BY <2>1, <2>2, <2>3, DivideGoesOn
  <1>2. CASE DivideCount(d)
    <2> DEFINE keys == Slices(Leaves, CeilDiv(Leaves, workers.count))
    <2>1. divide' = [divide EXCEPT ![d] = [pc |-> "bundle", posts |-> {}, keys |-> keys]]
          /\ divide[d].pc = "count" /\ divide[d].posts = {}
      BY <1>0, <1>2 DEF DivideCount, DividesInTurn
    <2>2. keys \in SUBSET KeySets
      <3>1. workers.count \in Nat \ {0}
        BY <1>0, <1>2 DEF DivideCount, Shape, LQ!Queues
      <3>2. CeilDiv(Leaves, workers.count) \in Int
        BY <3>1, DispatcherAssumption DEF CeilDiv
      <3>3. QED
        BY <3>2, SlicesType
    <2> HIDE DEF keys
    <2>3. [pc |-> "bundle", posts |-> {}, keys |-> keys] \in Division
      BY <2>2 DEF Division, DividePlaces
    <2>4. /\ divide' \in [Dividers -> Division] /\ divide'[d].posts = {}
          /\ \A e \in Dividers : e # d => divide'[e] = divide[e]
      BY <1>0, <2>1, <2>3 DEF Shape
    <2>5. QED
      BY <1>0, <1>2, <2>1, <2>4, DivideGoesOn DEF DivideCount, Shape
  <1>3. CASE DivideCountsNone(d) \/ BundleFaults(d)
    BY <1>3, Quiet
    DEF DivideCountsNone, BundleFaults, Fault, Inv, Shape, DividesInTurn, JoinsOnce,
        Takers, Posts, Reposts
  <1>4. CASE BundleEnqueue(d)
    <2>1. PICK k \in divide[d].keys :
            /\ divide[d].pc = "bundle"
            /\ bundles' = Append(bundles, [tick |-> cells, keys |-> k])
            /\ divide' = [divide EXCEPT ![d].keys = @ \ {k}, ![d].posts = @ \cup {k}]
      BY <1>4 DEF BundleEnqueue
    <2>2. k \in KeySets /\ k \notin divide[d].posts
      BY <1>0, <2>1 DEF DividesInTurn, Division
    <2>3. /\ divide' \in [Dividers -> Division]
          /\ divide'[d].pc = "bundle" /\ divide'[d].keys = divide[d].keys \ {k}
          /\ divide'[d].posts = divide[d].posts \cup {k}
          /\ \A e \in Dividers : e # d => divide'[e] = divide[e]
      <3> DEFINE c == [divide[d] EXCEPT !.keys = @ \ {k}, !.posts = @ \cup {k}]
      <3>1. /\ c \in Division /\ c.pc = divide[d].pc
            /\ c.keys = divide[d].keys \ {k} /\ c.posts = divide[d].posts \cup {k}
        BY <1>0, <2>2 DEF Division
      <3>2. divide' = [divide EXCEPT ![d] = c]
        BY <1>0, <2>1 DEF Shape
      <3> HIDE DEF c
      <3>3. divide'[d] = c /\ \A e \in Dividers : e # d => divide'[e] = divide[e]
        BY <1>0, <3>2 DEF Shape
      <3>4. divide' \in [Dividers -> Division]
        BY <1>0, <3>1, <3>2 DEF Shape
      <3>5. QED
        BY <2>1, <3>1, <3>3, <3>4
    <2>4. bundles' \in Seq(AnyBundle) /\ Len(bundles') = Len(bundles) + 1
      <3>1. [tick |-> cells, keys |-> k] \in AnyBundle
        BY <1>0, <2>2 DEF Shape, AnyBundle
      <3>2. QED
        BY <1>0, <2>1, <3>1, AppendProperties DEF Shape
    <2>5. Posts' = Posts \cup {<<d, k>>} /\ <<d, k>> \notin Posts
      BY <2>2, <2>3 DEF Posts
    <2>6. Shape'
      BY <1>0, <1>4, <2>3, <2>4 DEF BundleEnqueue, Shape
    <2>7. DividesInTurn' /\ JoinsOnce'
      BY <1>0, <1>4, <2>1, <2>3 DEF BundleEnqueue, Inv, DividesInTurn, JoinsOnce, Dividers
    <2>8. Cardinality(Posts') = Cardinality(Posts) + 1
      BY <2>5, Counted, FS_AddElement
    <2>9. Takers' = Takers /\ Reposts' = Reposts /\ start_sending' = start_sending
      BY <1>4 DEF BundleEnqueue, Takers, Reposts
    <2>10. TokensMatchPool'
      BY <1>0, <2>4, <2>8, <2>9, Counted, Balance, Recount, LenProperties DEF Inv, Shape
    <2>11. QED
      BY <2>6, <2>7, <2>10 DEF Inv
  <1>5. CASE BundlePost(d)
    <2>1. PICK k \in divide[d].posts :
            /\ divide[d].pc = "bundle"
            /\ start_sending' = start_sending + 1
            /\ divide' = [divide EXCEPT ![d].posts = @ \ {k}]
      BY <1>5 DEF BundlePost
    <2>2. k \in KeySets
      BY <1>0, <2>1 DEF Division
    <2>3. /\ divide' \in [Dividers -> Division]
          /\ divide'[d].pc = "bundle" /\ divide'[d].keys = divide[d].keys
          /\ divide'[d].posts = divide[d].posts \ {k}
          /\ \A e \in Dividers : e # d => divide'[e] = divide[e]
      <3> DEFINE c == [divide[d] EXCEPT !.posts = @ \ {k}]
      <3>1. /\ c \in Division /\ c.pc = divide[d].pc
            /\ c.keys = divide[d].keys /\ c.posts = divide[d].posts \ {k}
        BY <1>0, <2>2 DEF Division
      <3>2. divide' = [divide EXCEPT ![d] = c]
        BY <1>0, <2>1 DEF Shape
      <3> HIDE DEF c
      <3>3. QED
        BY <1>0, <2>1, <3>1, <3>2 DEF Shape
    <2>4. Posts' = Posts \ {<<d, k>>} /\ <<d, k>> \in Posts
      BY <2>1, <2>2, <2>3 DEF Posts
    <2>5. Shape'
      BY <1>0, <1>5, <2>1, <2>3 DEF BundlePost, Shape
    <2>6. DividesInTurn' /\ JoinsOnce'
      BY <1>0, <1>5, <2>1, <2>3 DEF BundlePost, Inv, DividesInTurn, JoinsOnce, Dividers
    <2>7. Cardinality(Posts') = Cardinality(Posts) - 1
      BY <2>4, Counted, FS_RemoveElement
    <2>8. Takers' = Takers /\ Reposts' = Reposts /\ bundles' = bundles
      BY <1>5 DEF BundlePost, Takers, Reposts
    <2>9. TokensMatchPool'
      BY <1>0, <2>1, <2>7, <2>8, Counted, Balance, Recount, LenProperties DEF Inv, Shape
    <2>10. QED
      BY <2>5, <2>6, <2>9 DEF Inv
  <1>6. CASE BundlesJoined(d)
    <2>1. divide' = [divide EXCEPT ![d].pc = "done"] /\ divide[d].pc = "bundle"
          /\ divide[d].posts = {}
          /\ event' = IF d = Main THEN event ELSE [event EXCEPT ![d] = "receive"]
      BY <1>6 DEF BundlesJoined
    <2>2. /\ divide' \in [Dividers -> Division] /\ divide'[d].posts = {}
          /\ divide'[d].pc = "done"
          /\ \A e \in Dividers : e # d => divide'[e] = divide[e]
      <3> DEFINE c == [divide[d] EXCEPT !.pc = "done"]
      <3>1. c \in Division /\ c.posts = divide[d].posts /\ c.pc = "done"
        BY <1>0 DEF Division, DividePlaces
      <3>2. divide' = [divide EXCEPT ![d] = c]
        BY <2>1
      <3> HIDE DEF c
      <3>3. QED
        BY <1>0, <2>1, <3>1, <3>2 DEF Shape
    <2>3. event' \in [Workers -> EventPlaces]
      BY <1>0, <2>1 DEF Shape, EventPlaces
    <2>4. Shape'
      BY <1>0, <1>6, <2>2, <2>3 DEF BundlesJoined, Shape
    <2>5. d \in Workers => event[d] = "divide"
      BY <1>0, <2>1 DEF DividesInTurn
    <2>6. DividesInTurn'
      BY <1>0, <2>1, <2>2, <2>5 DEF Shape, DividesInTurn, Dividers
    <2>7. JoinsOnce' /\ Reposts' = Reposts
      BY <1>6, <2>1, <2>5 DEF BundlesJoined, Inv, Shape, JoinsOnce, Reposts, Dividers
    <2>8. Posts' = Posts
      BY <2>1, <2>2 DEF Posts
    <2>9. QED
      BY <1>6, <2>4, <2>6, <2>7, <2>8, Quiet DEF BundlesJoined, Takers
  <1>7. QED
    BY <1>1, <1>2, <1>3, <1>4, <1>5, <1>6 DEF Divide
-------------------------------------------------------------------------------
LEMMA SenderKeeps == ASSUME Inv, NEW s \in Senders, Sender(s) PROVE Inv'
  <1> USE DEF pool, peers, files, tick, stop
  <1>0. Shape /\ sender[s] \in Hand /\ Len(bundles) \in Nat
    BY LenProperties DEF Inv, Shape
  <1>1. CASE SenderWait(s)
    <2> DEFINE c == [sender[s] EXCEPT !.pc = "take"]
    <2>1. c \in Hand /\ c.pc = "take"
      BY <1>0 DEF Hand, SenderPlaces
    <2>2. sender' = [sender EXCEPT ![s] = c] /\ sender[s].pc = "wait"
          /\ start_sending > 0 /\ start_sending' = start_sending - 1
      BY <1>1 DEF SenderWait
    <2> HIDE DEF c
    <2>3. sender' \in [Senders -> Hand] /\ Takers' = Takers \cup {s} /\ s \notin Takers
      BY <1>0, <2>1, <2>2 DEF Shape, Takers
    <2>4. Shape'
      BY <1>0, <1>1, <2>2, <2>3 DEF SenderWait, Shape
    <2>5. Cardinality(Takers') = Cardinality(Takers) + 1
      BY <2>3, Counted, FS_AddElement
    <2>6. Posts' = Posts /\ Reposts' = Reposts /\ bundles' = bundles
      BY <1>1 DEF SenderWait, Posts, Reposts
    <2>7. TokensMatchPool'
      BY <1>0, <2>2, <2>5, <2>6, Counted, Balance, Recount DEF Inv, Shape
    <2>8. DividesInTurn' /\ JoinsOnce'
      BY <1>1 DEF SenderWait, Inv, DividesInTurn, JoinsOnce
    <2>9. QED
      BY <2>4, <2>7, <2>8 DEF Inv
  <1>2. CASE SenderTake(s)
    <2>1. s \in Takers /\ Posts' = Posts /\ Reposts' = Reposts
      BY <1>2 DEF SenderTake, Takers, Posts, Reposts
    <2>2. Cardinality(Takers) >= 1
      <3>1. Cardinality(Takers) # 0
        BY <2>1, Counted, FS_EmptySet
      <3>2. QED
        BY <3>1, Counted
    <2>3. DividesInTurn' /\ JoinsOnce'
      BY <1>2 DEF SenderTake, Inv, DividesInTurn, JoinsOnce
    <2>4. Len(bundles) >= 1 /\ bundles # <<>>
      <3>1. Len(bundles) >= 1
        BY <1>0, <2>2, Counted, Balance DEF Inv, Shape
      <3>2. QED
        BY <1>0, <3>1, EmptySeq
    <2>5. workers.first \in Workers \cup {NULL} /\ LQ!PopLink(workers) \in LQ!Queues
      BY <1>0, PopType DEF Shape
    <2>6. ASSUME NEW c \in Hand, c.pc # "take", sender' = [sender EXCEPT ![s] = c]
          PROVE  /\ sender' \in [Senders -> Hand]
                 /\ Cardinality(Takers') = Cardinality(Takers) - 1
      <3>1. sender' \in [Senders -> Hand] /\ Takers' = Takers \ {s}
        BY <1>0, <2>6 DEF Shape, Takers
      <3>2. QED
        BY <2>1, <3>1, Counted, FS_RemoveElement
    <2>7. CASE workers.first # NULL
      <3> DEFINE c == [pc |-> "queue", link |-> workers.first, bundle |-> Head(bundles)]
      <3>1. /\ bundles' \in Seq(AnyBundle) /\ Len(bundles') = Len(bundles) - 1
            /\ Head(bundles) \in AnyBundle
        <4>1. bundles \in Seq(AnyBundle) /\ bundles' = Tail(bundles)
          BY <1>0, <1>2, <2>4, <2>7 DEF SenderTake, Shape
        <4>2. QED
          BY <2>4, <4>1, HeadTailProperties
      <3>2. c \in Hand /\ c.pc # "take"
        BY <2>5, <3>1 DEF Hand, SenderPlaces
      <3>3. /\ sender' = [sender EXCEPT ![s] = c] /\ workers' = LQ!PopLink(workers)
            /\ start_sending' = start_sending
        BY <1>2, <2>4, <2>7 DEF SenderTake
      <3> HIDE DEF c
      <3>4. sender' \in [Senders -> Hand] /\ Cardinality(Takers') = Cardinality(Takers) - 1
        BY <2>6, <3>2, <3>3
      <3>5. Shape'
        BY <1>0, <1>2, <2>5, <3>1, <3>3, <3>4 DEF SenderTake, Shape
      <3>6. TokensMatchPool'
        BY <1>0, <2>1, <3>1, <3>3, <3>4, Counted, Balance, Recount DEF Inv, Shape
      <3>7. QED
        BY <2>3, <3>5, <3>6 DEF Inv
    <2>8. CASE workers.first = NULL
      <3> DEFINE c == [sender[s] EXCEPT !.pc = "wait"]
      <3>1. c \in Hand /\ c.pc # "take"
        BY <1>0 DEF Hand, SenderPlaces
      <3>2. /\ sender' = [sender EXCEPT ![s] = c] /\ start_sending' = start_sending + 1
            /\ workers' = LQ!PopLink(workers) /\ UNCHANGED bundles
        BY <1>0, <1>2, <2>4, <2>8 DEF SenderTake, Shape
      <3> HIDE DEF c
      <3>3. sender' \in [Senders -> Hand] /\ Cardinality(Takers') = Cardinality(Takers) - 1
        BY <2>6, <3>1, <3>2
      <3>4. Shape'
        BY <1>0, <1>2, <2>5, <3>2, <3>3 DEF SenderTake, Shape
      <3>5. TokensMatchPool'
        BY <1>0, <2>1, <3>2, <3>3, Counted, Balance, Recount DEF Inv, Shape
      <3>6. QED
        BY <2>3, <3>4, <3>5 DEF Inv
    <2>9. QED
      BY <2>7, <2>8
  <1>3. ASSUME NEW c \in Hand, c.pc # "take", sender[s].pc # "take",
               sender' = [sender EXCEPT ![s] = c]
        PROVE  sender' \in [Senders -> Hand] /\ Takers' = Takers
    BY <1>0, <1>3 DEF Shape, Takers
  <1>4. CASE SenderQueue(s)
    <2> DEFINE c == [sender[s] EXCEPT !.pc = "send"]
    <2>1. c \in Hand /\ c.pc # "take" /\ sender[s].bundle \in AnyBundle
      BY <1>0 DEF Hand, SenderPlaces
    <2>2. sender' = [sender EXCEPT ![s] = c] /\ sender[s].pc = "queue"
          /\ workunit_queue' = [workunit_queue EXCEPT ![sender[s].link] = Append(@, sender[s].bundle)]
      BY <1>4 DEF SenderQueue
    <2> HIDE DEF c
    <2>3. sender' \in [Senders -> Hand] /\ Takers' = Takers
      BY <1>3, <2>1, <2>2
    <2>4. workunit_queue' \in [Workers -> Seq(AnyBundle)]
      <3>1. \A q \in Seq(AnyBundle) : Append(q, sender[s].bundle) \in Seq(AnyBundle)
        BY <2>1, AppendProperties
      <3>2. CASE sender[s].link \in Workers
        <4>1. Append(workunit_queue[sender[s].link], sender[s].bundle) \in Seq(AnyBundle)
          BY <1>0, <3>1, <3>2 DEF Shape
        <4>2. QED
          BY <1>0, <2>2, <4>1 DEF Shape
      <3>3. CASE sender[s].link \notin Workers
        BY <1>0, <2>2, <3>3 DEF Shape
      <3>4. QED
        BY <3>2, <3>3
    <2>5. Shape'
      BY <1>0, <1>4, <2>3, <2>4 DEF SenderQueue, Shape
    <2>6. QED
      BY <1>4, <2>3, <2>5, Quiet
      DEF SenderQueue, Inv, DividesInTurn, JoinsOnce, Posts, Reposts
  <1>5. CASE SenderSend(s)
    <2> DEFINE c == [sender[s] EXCEPT !.pc = "return", !.bundle = NULL]
    <2>1. c \in Hand /\ c.pc # "take"
      BY <1>0 DEF Hand, SenderPlaces, AnyBundle
    <2>2. sender' = [sender EXCEPT ![s] = c] /\ sender[s].pc = "send"
      BY <1>0, <1>5 DEF SenderSend, Shape
    <2> HIDE DEF c
    <2>3. sender' \in [Senders -> Hand] /\ Takers' = Takers
      BY <1>3, <2>1, <2>2
    <2>4. Shape'
      BY <1>0, <1>5, <2>3 DEF SenderSend, Shape
    <2>5. QED
      BY <1>5, <2>3, <2>4, Quiet
      DEF SenderSend, Inv, DividesInTurn, JoinsOnce, Posts, Reposts
  <1>6. CASE SenderReturn(s)
    <2> DEFINE c == [pc |-> "wait", link |-> NULL, bundle |-> NULL]
    <2>1. c \in Hand /\ c.pc # "take"
      BY DEF Hand, SenderPlaces, AnyBundle
    <2>2. sender' = [sender EXCEPT ![s] = c] /\ sender[s].pc = "return"
          /\ workers' = LQ!Enqueue(workers, sender[s].link)
      BY <1>6 DEF SenderReturn
    <2> HIDE DEF c
    <2>3. sender' \in [Senders -> Hand] /\ Takers' = Takers
      BY <1>3, <2>1, <2>2
    <2>4. sender[s].link \in Workers \cup {NULL}
      BY <1>0 DEF Hand
    <2>5. Shape'
      BY <1>0, <1>6, <2>2, <2>3, <2>4, EnqueueType DEF SenderReturn, Shape
    <2>6. QED
      BY <1>6, <2>3, <2>5, Quiet
      DEF SenderReturn, Inv, DividesInTurn, JoinsOnce, Posts, Reposts
  <1>7. CASE SenderFaults(s)
    BY <1>7, Quiet
    DEF SenderFaults, Fault, Inv, Shape, DividesInTurn, JoinsOnce, Takers, Posts, Reposts
  <1>8. QED
    BY <1>1, <1>2, <1>4, <1>5, <1>6, <1>7 DEF Sender
-------------------------------------------------------------------------------
(* A step of the event thread of w from one place to another.                *)
LEMMA EventGoesOn ==
    ASSUME Inv, NEW w \in Workers, NEW place \in EventPlaces \ {"repost", "absent"},
           event' = [event EXCEPT ![w] = place],
           event[w] \notin {"repost", "absent", "divide"},
           UNCHANGED <<pool, sender, divide, connect, cells, ticks_done>>,
           workers' \in LQ!Queues, workunit_queue' \in [Workers -> Seq(AnyBundle)]
    PROVE  Inv'
  <1> USE DEF pool
  <1>1. event' \in [Workers -> EventPlaces]
    BY DEF Inv, Shape
  <1>2. Shape'
    BY <1>1 DEF Inv, Shape
  <1>3. DividesInTurn' /\ JoinsOnce' /\ Reposts' = Reposts
    BY DEF Inv, Shape, DividesInTurn, JoinsOnce, Reposts
  <1>4. Takers' = Takers /\ Posts' = Posts
    BY DEF Takers, Posts
  <1>5. QED
    BY <1>2, <1>3, <1>4, Quiet

(* A step that changes nothing the invariant speaks of.                      *)
LEMMA Elsewhere ==
    ASSUME Inv, UNCHANGED <<workers, pool, sender, event, workunit_queue, connect, divide,
                            cells, ticks_done>>
    PROVE  Inv'
  BY Quiet DEF Inv, Shape, DividesInTurn, JoinsOnce, Takers, Posts, Reposts, pool

LEMMA EventKeeps ==
    ASSUME Inv, NEW w \in Workers,
           EventInvalid(w) \/ EventIntegrate(w) \/ EventFaults(w) \/ EventSave(w)
             \/ EventSaveFaults(w) \/ EventPop(w) \/ EventCount(w)
             \/ AllBundlesClose(w) \/ EventClosed(w) \/ WorkerDies(w)
    PROVE  Inv'
  <1> USE DEF pool, peers, files, tick, stop
  <1>0. Shape
    BY DEF Inv
  <1>1. CASE EventInvalid(w) \/ EventFaults(w) \/ EventSaveFaults(w) \/ WorkerDies(w)
    BY <1>1, Elsewhere DEF EventInvalid, EventFaults, EventSaveFaults, WorkerDies, Fault
  <1>2. CASE EventIntegrate(w)
    <2>1. PICK place \in {"save", "save_last"} : event' = [event EXCEPT ![w] = place]
      BY <1>2 DEF EventIntegrate
    <2>2. QED
      BY <1>0, <1>2, <2>1, EventGoesOn DEF EventIntegrate, EventPlaces, Shape
  <1>3. CASE EventSave(w)
    <2>1. PICK place \in {"receive", "pop"} : event' = [event EXCEPT ![w] = place]
      BY <1>3 DEF EventSave
    <2>2. QED
      BY <1>0, <1>3, <2>1, EventGoesOn DEF EventSave, EventPlaces, Shape
  <1>4. CASE EventPop(w)
    <2>1. workunit_queue' \in [Workers -> Seq(AnyBundle)]
      <3>1. workunit_queue[w] # <<>> => Tail(workunit_queue[w]) \in Seq(AnyBundle)
        BY <1>0, HeadTailProperties DEF Shape
      <3>2. QED
        BY <1>0, <1>4, <3>1 DEF EventPop, Shape
    <2>2. QED
      BY <1>0, <1>4, <2>1, EventGoesOn DEF EventPop, EventPlaces, Shape
  <1>5. CASE EventCount(w)
    <2>1. PICK place \in {"all_done", "receive"} : event' = [event EXCEPT ![w] = place]
      BY <1>5 DEF EventCount
    <2>2. QED
      BY <1>0, <1>5, <2>1, EventGoesOn DEF EventCount, EventPlaces, Shape
  <1>6. CASE AllBundlesClose(w)
    BY <1>0, <1>6, EventGoesOn DEF AllBundlesClose, EventPlaces, Shape
  <1>7. CASE EventClosed(w)
    BY <1>0, <1>7, EventGoesOn DEF EventClosed, EventPlaces, Shape
  <1>8. QED
    BY <1>1, <1>2, <1>3, <1>4, <1>5, <1>6, <1>7

(* The tick is over; its thread divides the next one, or goes on receiving.  *)
LEMMA AllDoneKeeps == ASSUME Inv, NEW w \in Workers, AllBundlesDone(w) PROVE Inv'
  <1> USE DEF pool, peers, files, tick, stop
  <1>0. Shape /\ w \in Dividers /\ divide[w] \in Division /\ event[w] = "reopen"
    BY DEF Inv, Shape, Dividers, AllBundlesDone
  <1>1. cells' = 0 /\ ticks_done' = ticks_done + 1
        /\ UNCHANGED <<workers, pool, sender, workunit_queue, connect>>
    BY DEF AllBundlesDone
  <1>2. divide[w].posts = {}
    BY <1>0 DEF Inv, DividesInTurn
  <1>3. /\ divide' \in [Dividers -> Division] /\ divide'[w].posts = {}
        /\ divide'[w].keys = divide[w].keys
        /\ divide'[w].pc = "assign" \/ divide' = divide
        /\ \A e \in Dividers : e # w => divide'[e] = divide[e]
    <2> DEFINE c == [divide[w] EXCEPT !.pc = "assign"]
    <2>1. c \in Division /\ c.posts = {} /\ c.keys = divide[w].keys /\ c.pc = "assign"
      BY <1>0, <1>2 DEF Division, DividePlaces
    <2>2. divide' = [divide EXCEPT ![w] = c] \/ divide' = divide
      BY DEF AllBundlesDone
    <2> HIDE DEF c
    <2>3. CASE divide' = [divide EXCEPT ![w] = c]
      BY <1>0, <2>1, <2>3 DEF Shape
    <2>4. CASE divide' = divide
      BY <1>0, <1>2, <2>4 DEF Shape
    <2>5. QED
      BY <2>2, <2>3, <2>4
  <1>4. PICK place \in {"divide", "receive"} :
            /\ event' = [event EXCEPT ![w] = place]
            /\ place = "receive" => divide' = divide
    BY DEF AllBundlesDone
  <1>5. event' \in [Workers -> EventPlaces]
    BY <1>0, <1>4 DEF Shape, EventPlaces
  <1>6. Shape'
    BY <1>0, <1>1, <1>3, <1>5 DEF Shape
  <1>7. divide[w].pc \notin {"assign", "count", "bundle"}
    BY <1>0 DEF Inv, DividesInTurn
  <1>8. DividesInTurn'
    <2>1. \A d \in Dividers : /\ divide'[d].keys \cap divide'[d].posts = {}
                              /\ divide'[d].pc # "bundle" => divide'[d].posts = {}
      BY <1>3 DEF Inv, DividesInTurn
    <2>2. ASSUME NEW v \in Workers, divide'[v].pc \in {"assign", "count", "bundle"}
          PROVE  event'[v] = "divide"
      <3>1. CASE v = w
        BY <1>0, <1>4, <1>7, <2>2, <3>1 DEF Shape
      <3>2. CASE v # w
        <4>1. divide[v].pc \in {"assign", "count", "bundle"}
          BY <1>3, <2>2, <3>2 DEF Dividers
        <4>2. QED
          BY <1>0, <1>4, <3>2, <4>1 DEF Inv, Shape, DividesInTurn
      <3>3. QED
        BY <3>1, <3>2
    <2>3. QED
      BY <2>1, <2>2 DEF DividesInTurn
  <1>9. JoinsOnce' /\ Reposts' = Reposts
    BY <1>0, <1>1, <1>4 DEF Inv, Shape, JoinsOnce, Reposts
  <1>10. Takers' = Takers /\ Posts' = Posts
    BY <1>1, <1>2, <1>3 DEF Takers, Posts
  <1>11. QED
    BY <1>1, <1>6, <1>8, <1>9, <1>10, Quiet

LEMMA CleanupKeeps ==
    ASSUME Inv, NEW w \in Workers,
           CleanupRepool(w) \/ CleanupPost(w) \/ CleanupFreeQueue(w)
             \/ CleanupUnlink(w) \/ CleanupFree(w)
    PROVE  Inv'
  <1> USE DEF pool, peers, files, tick, stop
  <1>0. Shape /\ Len(bundles) \in Nat
    BY LenProperties DEF Inv, Shape
  <1>1. CASE CleanupRepool(w)
    <2>1. /\ event[w] = "repool" /\ event' = [event EXCEPT ![w] = "repost"]
          /\ workunit_queue[w] \in Seq(AnyBundle) /\ workunit_queue[w] # <<>>
          /\ bundles' = Append(bundles, Head(workunit_queue[w]))
          /\ workunit_queue' = [workunit_queue EXCEPT ![w] = Tail(@)]
      BY <1>0, <1>1 DEF CleanupRepool, Shape
    <2>2. Head(workunit_queue[w]) \in AnyBundle /\ Tail(workunit_queue[w]) \in Seq(AnyBundle)
      BY <2>1, HeadTailProperties
    <2>3. bundles' \in Seq(AnyBundle) /\ Len(bundles') = Len(bundles) + 1
      BY <1>0, <2>1, <2>2, AppendProperties DEF Shape
    <2>4. event' \in [Workers -> EventPlaces]
      BY <1>0, <2>1 DEF Shape, EventPlaces
    <2>5. Shape'
      BY <1>0, <1>1, <2>1, <2>2, <2>3, <2>4 DEF CleanupRepool, Shape
    <2>6. DividesInTurn' /\ JoinsOnce'
      BY <1>0, <1>1, <2>1 DEF CleanupRepool, Inv, Shape, DividesInTurn, JoinsOnce
    <2>7. Reposts' = Reposts \cup {w} /\ w \notin Reposts
      BY <1>0, <2>1 DEF Shape, Reposts
    <2>8. Cardinality(Reposts') = Cardinality(Reposts) + 1
      BY <2>7, Counted, FS_AddElement
    <2>9. Takers' = Takers /\ Posts' = Posts /\ start_sending' = start_sending
      BY <1>1 DEF CleanupRepool, Takers, Posts
    <2>10. TokensMatchPool'
      BY <1>0, <2>3, <2>8, <2>9, Counted, Balance, Recount DEF Inv, Shape
    <2>11. QED
      BY <2>5, <2>6, <2>10 DEF Inv
  <1>2. CASE CleanupPost(w)
    <2>1. event[w] = "repost" /\ event' = [event EXCEPT ![w] = "repool"]
          /\ start_sending' = start_sending + 1 /\ bundles' = bundles
      BY <1>2 DEF CleanupPost
    <2>2. event' \in [Workers -> EventPlaces]
      BY <1>0, <2>1 DEF Shape, EventPlaces
    <2>3. Shape'
      BY <1>0, <1>2, <2>1, <2>2 DEF CleanupPost, Shape
    <2>4. DividesInTurn' /\ JoinsOnce'
      BY <1>0, <1>2, <2>1 DEF CleanupPost, Inv, Shape, DividesInTurn, JoinsOnce
    <2>5. Reposts' = Reposts \ {w} /\ w \in Reposts
      BY <1>0, <2>1 DEF Shape, Reposts
    <2>6. Cardinality(Reposts') = Cardinality(Reposts) - 1
      BY <2>5, Counted, FS_RemoveElement
    <2>7. Takers' = Takers /\ Posts' = Posts
      BY <1>2 DEF CleanupPost, Takers, Posts
    <2>8. TokensMatchPool'
      BY <1>0, <2>1, <2>6, <2>7, Counted, Balance, Recount DEF Inv, Shape
    <2>9. QED
      BY <2>3, <2>4, <2>8 DEF Inv
  <1>3. CASE CleanupFreeQueue(w)
    BY <1>0, <1>3, EventGoesOn DEF CleanupFreeQueue, EventPlaces, Shape
  <1>4. CASE CleanupUnlink(w)
    <2>1. CASE Fault("endless list") \/ Fault("use after free")
      BY <2>1, Elsewhere DEF Fault
    <2>2. CASE /\ workers' = [LQ!RemoveLink(workers, w, N) EXCEPT !.count = @ - 1]
               /\ event' = [event EXCEPT ![w] = "free"] /\ event[w] = "unlink"
               /\ UNCHANGED <<pool, sender, workunit_queue, divide, connect, cells, ticks_done>>
      <3>1. workers' \in LQ!Queues
        BY <1>0, <2>2, RemoveType DEF Shape
      <3>2. QED
        BY <1>0, <2>2, <3>1, EventGoesOn DEF EventPlaces, Shape
    <2>3. QED
      BY <1>4, <2>1, <2>2 DEF CleanupUnlink
  <1>5. CASE CleanupFree(w)
    <2>1. workunit_queue' \in [Workers -> Seq(AnyBundle)]
      <3>1. <<>> \in Seq(AnyBundle)
        BY EmptySeq
      <3>2. QED
        BY <1>0, <1>5, <3>1 DEF CleanupFree, Shape
    <2>2. QED
      BY <1>0, <1>5, <2>1, EventGoesOn DEF CleanupFree, EventPlaces, Shape
  <1>6. QED
    BY <1>1, <1>2, <1>3, <1>4, <1>5
-------------------------------------------------------------------------------
LEMMA StepInv == Inv /\ [Next]_vars => Inv'
  <1> SUFFICES ASSUME Inv, [Next]_vars PROVE Inv'
    OBVIOUS
  <1>1. CASE Connect
    BY <1>1, ConnectKeeps
  <1>2. CASE MainLaunch \/ MainExit
    BY <1>2, MainKeeps
  <1>3. ASSUME NEW d \in Dividers, Divide(d) PROVE Inv'
    BY <1>3, DivideKeeps
  <1>4. ASSUME NEW s \in Senders, Sender(s) PROVE Inv'
    BY <1>4, SenderKeeps
  <1>5. ASSUME NEW w \in Workers, Event(w) \/ WorkerDies(w) PROVE Inv'
    BY <1>5, EventKeeps, AllDoneKeeps, CleanupKeeps DEF Event
  <1>6. CASE UNCHANGED vars
    BY <1>6, Elsewhere DEF vars, pool, tick, files, peers, stop
  <1>7. QED
    BY <1>1, <1>2, <1>3, <1>4, <1>5, <1>6 DEF Next

(* start_sending always counts the pool, with the tokens in hand or about to *)
(* be posted (sender_thread.c:28-38, divide_dataset.c, cleanup_worker.c): for *)
(* any number of workers, leaves and ticks, late joins and losses.           *)
THEOREM TokensAlwaysMatch == Spec => []TokensMatchPool
  <1>1. Inv => TokensMatchPool
    BY DEF Inv
  <1>2. QED
    BY <1>1, InitInv, StepInv, PTL DEF Spec
-------------------------------------------------------------------------------
(* Type correctness.  That every value keeps to its type needs more than the  *)
(* types: the keys of a bundle are a run of leaves (Answers takes the least),  *)
(* one thread at a time is between the last bundle of a tick and the bundles  *)
(* of the next (else ticks_done would run past TicksCnt and files and cells   *)
(* with it), and before main has sized its bundles there is nothing to do.    *)

Runs   == {k \in KeySets : \E a, b \in CellIds : a <= b /\ k = a..b}
Sliced == [tick : 1..TicksCnt, keys : Runs]

Stocked ==
    /\ bundles \in Seq(Sliced)
    /\ \A s \in Senders :
          /\ sender[s].bundle \in Sliced \cup {NULL}
          /\ sender[s].pc \in {"queue", "send"} => sender[s].bundle \in Sliced
          /\ sender[s].pc \in {"queue", "send", "return"} => sender[s].link \in Workers
          /\ sender[s].pc \in {"wait", "take"} => sender[s].link = NULL
    /\ workunit_queue \in [Workers -> Seq(Sliced)]
    /\ freed \subseteq (Workers \cup Sliced)
    /\ \A d \in Dividers : divide[d].keys \subseteq Runs

Peered ==
    /\ alive \in [Workers -> BOOLEAN]
    /\ owes \in [Workers -> Seq(Units \cup {Settings})]
    /\ losses \in 0..MaxLosses

Ticking ==
    /\ cells \in 0..TicksCnt /\ total_bundles \in Int /\ bundles_done \in Nat
    /\ ticks_done \in Nat /\ new_dataset \in [CellIds -> 0..TicksCnt]
    /\ fp \in 0..TicksCnt /\ unsaved \in [Workers -> 0..TicksCnt]
    /\ exit_sem \in Nat /\ sender_count \in Int
    /\ fault \in {"none", "use after free", "closed file", "endless bundles", "endless list"}

Flagged == exited \in BOOLEAN

Busy(w) == event[w] \in {"all_done", "reopen"} \/ divide[w].pc \in {"assign", "count", "bundle"}
OneDivides == \A v, w \in Workers : Busy(v) /\ Busy(w) => v = w

InTime == \A d \in Dividers : divide[d].pc = "assign" => ticks_done < TicksCnt

EarlyPlaces == {"absent", "receive", "repool", "unlink", "free", "gone"}
Early == divide[Main].pc \in {"none", "assign", "count"}
Idle ==
    /\ bundles = <<>> /\ ticks_done = 0
    /\ \A d \in Dividers : divide[d].keys = {} /\ divide[d].posts = {}
    /\ \A w \in Workers : /\ divide[w].pc = "none" /\ workunit_queue[w] = <<>>
                          /\ owes[w] \in Seq({Settings}) /\ event[w] \in EarlyPlaces
    /\ \A s \in Senders : sender[s].pc \in {"wait", "take"}

InTurn  == OneDivides /\ InTime /\ (Early => Idle)
Typed   == Stocked /\ Peered /\ Ticking /\ Flagged /\ InTurn
TypeInv == Inv /\ Typed
-------------------------------------------------------------------------------
LEMMA RunsAreKeys == Runs \subseteq KeySets /\ Sliced \subseteq Bundles
  BY DEF Runs, Sliced, Bundles, KeySets

(* A run has a least leaf, and its leaves follow one another.                 *)
LEMMA RunShape ==
    ASSUME NEW k \in Runs
    PROVE  \E a, b \in CellIds : /\ a <= b /\ k = a..b /\ Cardinality(k) = b - a + 1
                                 /\ a = CHOOSE i \in k : \A j \in k : i <= j
  <1>1. PICK a, b \in CellIds : a <= b /\ k = a..b
    BY DEF Runs
  <1>2. a \in Int /\ b \in Int
    BY DispatcherAssumption DEF CellIds
  <1>3. Cardinality(k) = b - a + 1
    BY <1>1, <1>2, FS_Interval
  <1>4. a \in k /\ (\A j \in k : a <= j) /\ \A i \in k : (\A j \in k : i <= j) => i = a
    BY <1>1, <1>2
  <1>5. a = CHOOSE i \in k : \A j \in k : i <= j
    BY <1>4
  <1>6. QED
    BY <1>1, <1>3, <1>5

(* The bundles of a division are runs.                                       *)
LEMMA SlicesAreRuns == \A lpb \in Nat \ {0} : Slices(Leaves, lpb) \subseteq Runs
  <1> SUFFICES ASSUME NEW lpb \in Nat \ {0}, NEW start \in 0..(Leaves - 1)
      PROVE start..(IF start + lpb < Leaves THEN start + lpb - 1 ELSE Leaves - 1) \in Runs
    BY DEF Slices
  <1> DEFINE last == IF start + lpb < Leaves THEN start + lpb - 1 ELSE Leaves - 1
  <1>1. start \in CellIds /\ last \in CellIds /\ start <= last
    BY DispatcherAssumption DEF CellIds
  <1>2. start..last \subseteq CellIds
    BY DispatcherAssumption DEF CellIds
  <1> HIDE DEF last
  <1>3. start..last \in Runs
    BY <1>1, <1>2 DEF Runs, KeySets
  <1>4. QED
    BY <1>3 DEF last

LEMMA CeilDivPositive == \A n \in Nat \ {0} : CeilDiv(Leaves, n) \in Nat \ {0}
  <1> SUFFICES ASSUME NEW n \in Nat \ {0} PROVE CeilDiv(Leaves, n) \in Nat \ {0}
    OBVIOUS
  <1>1. Leaves + n - 1 >= n /\ Leaves + n - 1 \in Nat
    BY DispatcherAssumption
  <1>2. (Leaves + n - 1) \div n >= 1 /\ (Leaves + n - 1) \div n \in Int
    BY <1>1
  <1>3. QED
    BY <1>2 DEF CeilDiv

(* What a worker will answer to a bundle.                                    *)
LEMMA AnswersType ==
    ASSUME NEW k \in Runs, NEW t \in 1..TicksCnt
    PROVE  /\ Answers(k, t) \in Seq(Units)
           /\ Len(Answers(k, t)) = Cardinality(k) /\ Cardinality(k) \in Nat \ {0}
           /\ \A i \in 1..Cardinality(k) :
                 Answers(k, t)[i] \in Units /\ Answers(k, t)[i].tick = t
                 /\ Answers(k, t)[i].type = "WORK_UNIT_DONE"
                 /\ (Answers(k, t)[i].ends <=> i = Cardinality(k))
           /\ \A c \in k : \E i \in 1..Cardinality(k) : Answers(k, t)[i].id = c
  <1>1. PICK a, b \in CellIds : /\ a <= b /\ k = a..b /\ Cardinality(k) = b - a + 1
                                /\ a = CHOOSE i \in k : \A j \in k : i <= j
    BY RunShape
  <1> DEFINE n == b - a + 1
             unit(i) == [type |-> "WORK_UNIT_DONE", tick |-> t, id |-> a + i - 1, ends |-> i = n]
  <1>2. a \in Int /\ b \in Int /\ n \in Nat \ {0}
    BY <1>1, DispatcherAssumption DEF CellIds
  <1>3. Answers(k, t) = [i \in 1..n |-> unit(i)]
    BY <1>1 DEF Answers
  <1>4. \A i \in 1..n : unit(i) \in Units
    <2> SUFFICES ASSUME NEW i \in 1..n PROVE unit(i) \in Units
      OBVIOUS
    <2>1. a + i - 1 \in CellIds
      BY <1>1, <1>2, DispatcherAssumption DEF CellIds
    <2>2. (i = n) \in BOOLEAN
      OBVIOUS
    <2>3. QED
      BY <2>1, <2>2 DEF Units
  <1>5. \A c \in k : c - a + 1 \in 1..n /\ unit(c - a + 1).id = c
    BY <1>1, <1>2
  <1>6. \A i \in 1..n : unit(i).tick = t /\ unit(i).type = "WORK_UNIT_DONE" /\ (unit(i).ends <=> i = n)
    OBVIOUS
  <1> HIDE DEF unit
  <1>7. Answers(k, t) \in Seq(Units) /\ Len(Answers(k, t)) = n
    BY <1>2, <1>3, <1>4
  <1> HIDE DEF n
  <1>8. Cardinality(k) = n
    BY <1>1 DEF n
  <1>9. \A c \in k : \E i \in 1..n : Answers(k, t)[i].id = c
    BY <1>3, <1>5
  <1>10. QED
    BY <1>2, <1>3, <1>4, <1>6, <1>7, <1>8, <1>9
-------------------------------------------------------------------------------
(* What the steps do to the record of one divider or of one sender.          *)
LEMMA DivideMoves ==
    ASSUME Inv, NEW d \in Dividers, NEW p, divide' = [divide EXCEPT ![d].pc = p]
    PROVE  /\ divide'[d].pc = p /\ divide'[d].keys = divide[d].keys
           /\ divide'[d].posts = divide[d].posts
           /\ \A e \in Dividers : e # d => divide'[e] = divide[e]
  BY DEF Inv, Shape, Division

LEMMA SenderMoves ==
    ASSUME Inv, NEW s \in Senders, NEW p, sender' = [sender EXCEPT ![s].pc = p]
    PROVE  /\ sender'[s].pc = p /\ sender'[s].link = sender[s].link
           /\ sender'[s].bundle = sender[s].bundle
           /\ \A t \in Senders : t # s => sender'[t] = sender[t]
  BY DEF Inv, Shape, Hand

LEMMA InitType == Init => TypeInv
  <1> SUFFICES ASSUME Init PROVE TypeInv
    OBVIOUS
  <1>0. <<>> \in Seq(Sliced) /\ <<>> \in Seq(Units \cup {Settings}) /\ <<>> \in Seq({Settings})
    BY EmptySeq
  <1>00. Main \in Dividers /\ Main \notin Workers
    BY DispatcherAssumption DEF Main, Dividers
  <1>1. Stocked
    BY <1>0 DEF Init, Stocked
  <1>2. Peered
    BY <1>0, DispatcherAssumption DEF Init, Peered
  <1>3. Ticking
    <2>1. 0 \in 0..TicksCnt
      BY DispatcherAssumption
    <2>2. new_dataset \in [CellIds -> 0..TicksCnt] /\ unsaved \in [Workers -> 0..TicksCnt]
      BY <2>1 DEF Init
    <2>3. QED
      BY <2>1, <2>2 DEF Init, Ticking
  <1>4. InTurn
    BY <1>0, <1>00 DEF Init, InTurn, OneDivides, Busy, InTime, Early, Idle, EarlyPlaces, Dividers
  <1>5. Flagged
    BY DEF Init, Flagged
  <1>6. QED
    BY <1>1, <1>2, <1>3, <1>4, <1>5, InitInv DEF TypeInv, Typed

(* A step of a thread that does not divide keeps the turns.                  *)
LEMMA TurnStays ==
    ASSUME InTurn, UNCHANGED <<divide, ticks_done>>,
           \A w \in Workers : event'[w] \in {"all_done", "reopen"} =>
                                event[w] \in {"all_done", "reopen"},
           Early => /\ bundles' = <<>>
                    /\ \A w \in Workers : /\ workunit_queue'[w] = <<>>
                                          /\ owes'[w] \in Seq({Settings})
                                          /\ event'[w] \in EarlyPlaces
                    /\ \A s \in Senders : sender'[s].pc \in {"wait", "take"}
    PROVE  InTurn'
  BY DEF InTurn, OneDivides, InTime, Busy, Early, Idle

LEMMA FaultTypes ==
    ASSUME TypeInv, NEW kind, Fault(kind),
           kind \in {"use after free", "closed file", "endless bundles", "endless list"}
    PROVE  Typed'
  <1> USE DEF pool, peers, files, tick, stop
  <1>1. Stocked' /\ Peered' /\ Ticking' /\ Flagged'
    BY DEF Fault, TypeInv, Typed, Stocked, Peered, Ticking, Flagged
  <1>2. InTurn'
    BY DEF Fault, TypeInv, Typed, InTurn, OneDivides, InTime, Busy, Early, Idle
  <1>3. QED
    BY <1>1, <1>2 DEF Typed

LEMMA ConnectTypes == TypeInv /\ Connect => Typed'
  <1> USE DEF pool, peers, files, tick, stop
  <1> SUFFICES ASSUME TypeInv, Connect PROVE Typed'
    OBVIOUS
  <1>0. Inv /\ Shape /\ Stocked /\ Peered /\ Ticking /\ Flagged /\ InTurn
    BY DEF TypeInv, Typed, Inv
  <1>1. ASSUME NEW w \in Workers, ConnectAccept(w) PROVE Typed'
    <2>1. Stocked' /\ Peered' /\ Ticking' /\ Flagged'
      BY <1>0, <1>1 DEF ConnectAccept, Stocked, Peered, Ticking, Flagged
    <2>2. InTurn'
      BY <1>0, <1>1 DEF ConnectAccept, InTurn, OneDivides, InTime, Busy, Early, Idle
    <2>3. QED
      BY <2>1, <2>2 DEF Typed
  <1>2. ASSUME NEW w \in Workers, ConnectFaults(w) PROVE Typed'
    BY <1>2, FaultTypes DEF ConnectFaults
  <1>3. CASE ConnectSettings
    <2>1. connect.worker \in Workers
      BY <1>0, <1>3 DEF ConnectSettings, Inv, JoinsOnce
    <2>2. ASSUME NEW S, Settings \in S, NEW q \in Seq(S) PROVE Append(q, Settings) \in Seq(S)
      BY <2>2, AppendProperties
    <2>3. owes' \in [Workers -> Seq(Units \cup {Settings})]
      BY <1>0, <1>3, <2>1, <2>2 DEF ConnectSettings, Peered
    <2>4. Early => \A w \in Workers : owes'[w] \in Seq({Settings})
      BY <1>0, <1>3, <2>1, <2>2 DEF ConnectSettings, Peered, InTurn, Idle
    <2>5. Stocked' /\ Peered' /\ Ticking' /\ Flagged'
      BY <1>0, <1>3, <2>3 DEF ConnectSettings, Stocked, Peered, Ticking, Flagged
    <2>6. InTurn'
      BY <1>0, <1>3, <2>4, TurnStays DEF ConnectSettings, InTurn, Idle
    <2>7. QED
      BY <2>5, <2>6 DEF Typed
  <1>4. CASE ConnectApplied
    <2>1. connect.worker \in Workers /\ event[connect.worker] = "absent"
      BY <1>0, <1>4 DEF ConnectApplied, Inv, JoinsOnce
    <2>2. ASSUME NEW S, NEW q \in Seq(S), q # <<>> PROVE Tail(q) \in Seq(S)
      BY <2>2, HeadTailProperties
    <2>3. /\ owes' = [owes EXCEPT ![connect.worker] = IF @ = <<>> THEN @ ELSE Tail(@)]
          /\ event' = [event EXCEPT ![connect.worker] = "receive"]
      BY <1>4 DEF ConnectApplied
    <2>4. owes' \in [Workers -> Seq(Units \cup {Settings})]
      BY <1>0, <2>1, <2>2, <2>3 DEF Peered
    <2>5. Early => \A w \in Workers : owes'[w] \in Seq({Settings}) /\ event'[w] \in EarlyPlaces
      BY <1>0, <2>1, <2>2, <2>3 DEF Peered, InTurn, Idle, Shape, EarlyPlaces
    <2>6. Stocked' /\ Peered' /\ Ticking' /\ Flagged'
      BY <1>0, <1>4, <2>4 DEF ConnectApplied, Stocked, Peered, Ticking, Flagged
    <2>7. \A w \in Workers : event'[w] \in {"all_done", "reopen"} =>
                               event[w] \in {"all_done", "reopen"}
      BY <1>0, <2>3 DEF Shape
    <2>8. InTurn'
      BY <1>0, <1>4, <2>5, <2>7, TurnStays DEF ConnectApplied, InTurn, Idle
    <2>9. QED
      BY <2>6, <2>8 DEF Typed
  <1>5. QED
    BY <1>1, <1>2, <1>3, <1>4 DEF Connect

LEMMA MainTypes == TypeInv /\ (MainLaunch \/ MainExit) => Typed'
  <1> USE DEF pool, peers, files, tick, stop
  <1> SUFFICES ASSUME TypeInv, MainLaunch \/ MainExit PROVE Typed'
    OBVIOUS
  <1>0. Inv /\ Shape /\ Stocked /\ Peered /\ Ticking /\ Flagged /\ InTurn
    BY DEF TypeInv, Typed, Inv
  <1>1. CASE MainLaunch
    <2>1. Main \in Dividers /\ Main \notin Workers
      BY DispatcherAssumption DEF Main, Dividers
    <2>2. divide' = [divide EXCEPT ![Main].pc = "assign"] /\ divide[Main].pc = "none"
      BY <1>1 DEF MainLaunch
    <2>3. /\ divide'[Main].pc = "assign" /\ divide'[Main].keys = divide[Main].keys
          /\ divide'[Main].posts = divide[Main].posts
          /\ \A e \in Dividers : e # Main => divide'[e] = divide[e]
      BY <1>0, <2>1, <2>2, DivideMoves
    <2>4. Stocked' /\ Peered' /\ Flagged'
      BY <1>0, <1>1, <2>3 DEF MainLaunch, Stocked, Peered, Flagged
    <2>5. Ticking'
      <3>1. 1 \in 0..TicksCnt /\ workers.count \in Int
        BY <1>0, DispatcherAssumption DEF Shape, LQ!Queues
      <3>2. QED
        BY <1>0, <1>1, <3>1 DEF MainLaunch, Ticking
    <2>6. Idle
      BY <1>0, <2>2 DEF InTurn, Early
    <2>7. Idle'
      BY <1>1, <2>3, <2>6, <2>1 DEF MainLaunch, Idle, Dividers
    <2>8. OneDivides'
      BY <1>0, <1>1, <2>1, <2>3 DEF MainLaunch, InTurn, OneDivides, Busy, Dividers
    <2>9. InTime'
      BY <1>1, <2>3, <2>6, <1>0, DispatcherAssumption DEF MainLaunch, Idle, InTurn, InTime
    <2>10. QED
      BY <2>4, <2>5, <2>7, <2>8, <2>9 DEF Typed, InTurn
  <1>2. CASE MainExit
    <2>1. Stocked' /\ Peered' /\ Ticking'
      <3>0. exit_sem \in Nat /\ exit_sem > 0 /\ exit_sem' = exit_sem - 1
        BY <1>0, <1>2 DEF MainExit, Ticking
      <3>1. exit_sem' \in Nat
        BY <3>0
      <3>2. QED
        BY <1>0, <1>2, <3>1 DEF MainExit, Stocked, Peered, Ticking
    <2>2. Flagged'
      BY <1>2 DEF MainExit, Flagged
    <2>3. InTurn'
      BY <1>0, <1>2 DEF MainExit, InTurn, OneDivides, InTime, Busy, Early, Idle
    <2>4. QED
      BY <2>1, <2>2, <2>3 DEF Typed
  <1>3. QED
    BY <1>1, <1>2
-------------------------------------------------------------------------------
LEMMA DivideTypes == ASSUME TypeInv, NEW d \in Dividers, Divide(d) PROVE Typed'
  <1> USE DEF pool, peers, files, tick, stop
  <1>0. /\ Inv /\ Shape /\ Stocked /\ Peered /\ Ticking /\ Flagged /\ InTurn
        /\ divide \in [Dividers -> Division] /\ divide[d] \in Division
    BY DEF TypeInv, Typed, Inv, Shape
  <1>1. Main \in Dividers /\ Main \notin Workers /\ (d \in Workers \/ d = Main)
    BY DispatcherAssumption DEF Main, Dividers
  <1>2. ASSUME divide[d].pc \in {"assign", "count", "bundle"},
               \A e \in Dividers : e # d => divide'[e] = divide[e],
               divide'[d].pc \in {"count", "bundle", "done"}, ticks_done' = ticks_done,
               \A w \in Workers : event'[w] = event[w] \/ event'[w] = "receive",
               Early' => Idle'
        PROVE  InTurn'
    <2>1. OneDivides'
      <3>1. \A w \in Workers : Busy(w)' => Busy(w)
        BY <1>0, <1>2 DEF Busy, Dividers
      <3>2. QED
        BY <1>0, <3>1 DEF InTurn, OneDivides
    <2>2. InTime'
      BY <1>0, <1>2 DEF InTurn, InTime
    <2>3. QED
      BY <1>2, <2>1, <2>2 DEF InTurn
  <1>3. ASSUME d \in Workers, divide[d].pc \in {"assign", "count", "bundle"} PROVE ~Early
    BY <1>0, <1>3 DEF InTurn, Idle
  <1>4. CASE DivideAssign(d)
    <2>1. divide[d].pc = "assign" /\ divide' = [divide EXCEPT ![d].pc = "count"]
      BY <1>4 DEF DivideAssign
    <2>2. /\ divide'[d].pc = "count" /\ divide'[d].keys = divide[d].keys
          /\ divide'[d].posts = divide[d].posts
          /\ \A e \in Dividers : e # d => divide'[e] = divide[e]
      BY <1>0, <2>1, DivideMoves
    <2>3. Stocked' /\ Peered' /\ Flagged'
      BY <1>0, <1>4, <2>2 DEF DivideAssign, Stocked, Peered, Flagged
    <2>4. Ticking'
      <3>1. ticks_done \in Nat /\ ticks_done < TicksCnt /\ workers.count \in Int
        BY <1>0, <2>1 DEF InTurn, InTime, Shape, LQ!Queues, Ticking
      <3>2. ticks_done + 1 \in 0..TicksCnt
        BY <3>1, DispatcherAssumption
      <3>3. QED
        BY <1>0, <1>4, <3>1, <3>2 DEF DivideAssign, Ticking
    <2>5. Early' => Idle'
      <3>1. CASE d = Main
        <4>1. Idle
          BY <1>0, <2>1, <3>1 DEF InTurn, Early
        <4>2. QED
          BY <1>1, <1>4, <2>2, <3>1, <4>1 DEF DivideAssign, Idle, Dividers
      <3>2. CASE d \in Workers
        BY <1>1, <1>3, <2>1, <2>2, <3>2 DEF Early
      <3>3. QED
        BY <1>1, <3>1, <3>2
    <2>6. InTurn'
      BY <1>2, <1>4, <2>1, <2>2, <2>5 DEF DivideAssign
    <2>7. QED
      BY <2>3, <2>4, <2>6 DEF Typed
  <1>5. CASE DivideCount(d)
    <2> DEFINE keys == Slices(Leaves, CeilDiv(Leaves, workers.count))
    <2>1. divide[d].pc = "count" /\ workers.count \in Nat \ {0}
          /\ divide' = [divide EXCEPT ![d] = [pc |-> "bundle", posts |-> {}, keys |-> keys]]
      BY <1>0, <1>5 DEF DivideCount, Shape, LQ!Queues
    <2>2. keys \subseteq Runs
      BY <2>1, CeilDivPositive, SlicesAreRuns
    <2> HIDE DEF keys
    <2>3. /\ divide'[d].pc = "bundle" /\ divide'[d].keys = keys
          /\ \A e \in Dividers : e # d => divide'[e] = divide[e]
      BY <1>0, <2>1
    <2>4. Stocked' /\ Peered' /\ Ticking' /\ Flagged'
      BY <1>0, <1>5, <2>2, <2>3 DEF DivideCount, Stocked, Peered, Ticking, Flagged
    <2>5. ~Early'
      BY <1>1, <1>3, <2>1, <2>3 DEF Early
    <2>6. InTurn'
      BY <1>2, <1>5, <2>1, <2>3, <2>5 DEF DivideCount
    <2>7. QED
      BY <2>4, <2>6 DEF Typed
  <1>6. CASE DivideCountsNone(d) \/ BundleFaults(d)
    BY <1>6, FaultTypes DEF DivideCountsNone, BundleFaults
  <1>7. ASSUME divide[d].pc = "bundle", divide'[d].pc \in {"bundle", "done"},
               \A e \in Dividers : e # d => divide'[e] = divide[e]
        PROVE  ~Early'
    BY <1>1, <1>3, <1>7 DEF Early
  <1>8. CASE BundleEnqueue(d)
    <2>1. PICK k \in divide[d].keys :
            /\ divide[d].pc = "bundle" /\ cells # 0
            /\ bundles' = Append(bundles, [tick |-> cells, keys |-> k])
            /\ divide' = [divide EXCEPT ![d].keys = @ \ {k}, ![d].posts = @ \cup {k}]
      BY <1>8 DEF BundleEnqueue
    <2>2. /\ divide'[d].pc = "bundle" /\ divide'[d].keys = divide[d].keys \ {k}
          /\ \A e \in Dividers : e # d => divide'[e] = divide[e]
      BY <1>0, <2>1 DEF Division
    <2>3. bundles' \in Seq(Sliced)
      <3>0. cells \in 0..TicksCnt /\ k \in Runs
        BY <1>0, <2>1 DEF Ticking, Stocked
      <3>1. cells \in 1..TicksCnt /\ k \in Runs
        BY <2>1, <3>0, DispatcherAssumption
      <3>2. [tick |-> cells, keys |-> k] \in Sliced
        BY <3>1 DEF Sliced
      <3>3. QED
        BY <1>0, <2>1, <3>2, AppendProperties DEF Stocked
    <2>4. Stocked' /\ Peered' /\ Ticking' /\ Flagged'
      BY <1>0, <1>8, <2>2, <2>3 DEF BundleEnqueue, Stocked, Peered, Ticking, Flagged
    <2>5. InTurn'
      BY <1>2, <1>7, <1>8, <2>1, <2>2 DEF BundleEnqueue
    <2>6. QED
      BY <2>4, <2>5 DEF Typed
  <1>9. CASE BundlePost(d)
    <2>1. PICK k \in divide[d].posts :
            /\ divide[d].pc = "bundle"
            /\ divide' = [divide EXCEPT ![d].posts = @ \ {k}]
      BY <1>9 DEF BundlePost
    <2>2. /\ divide'[d].pc = "bundle" /\ divide'[d].keys = divide[d].keys
          /\ \A e \in Dividers : e # d => divide'[e] = divide[e]
      BY <1>0, <2>1 DEF Division
    <2>3. Stocked' /\ Peered' /\ Ticking' /\ Flagged'
      BY <1>0, <1>9, <2>2 DEF BundlePost, Stocked, Peered, Ticking, Flagged
    <2>4. InTurn'
      BY <1>2, <1>7, <1>9, <2>1, <2>2 DEF BundlePost
    <2>5. QED
      BY <2>3, <2>4 DEF Typed
  <1>10. CASE BundlesJoined(d)
    <2>1. divide[d].pc = "bundle" /\ divide' = [divide EXCEPT ![d].pc = "done"]
          /\ event' = IF d = Main THEN event ELSE [event EXCEPT ![d] = "receive"]
      BY <1>10 DEF BundlesJoined
    <2>2. /\ divide'[d].pc = "done" /\ divide'[d].keys = divide[d].keys
          /\ \A e \in Dividers : e # d => divide'[e] = divide[e]
      BY <1>0, <2>1, DivideMoves
    <2>3. Stocked' /\ Peered' /\ Ticking' /\ Flagged'
      BY <1>0, <1>10, <2>2 DEF BundlesJoined, Stocked, Peered, Ticking, Flagged
    <2>4. \A w \in Workers : event'[w] = event[w] \/ event'[w] = "receive"
      BY <1>0, <2>1 DEF Shape
    <2>5. InTurn'
      BY <1>2, <1>7, <1>10, <2>1, <2>2, <2>4 DEF BundlesJoined
    <2>6. QED
      BY <2>3, <2>5 DEF Typed
  <1>11. QED
    BY <1>4, <1>5, <1>6, <1>8, <1>9, <1>10 DEF Divide
-------------------------------------------------------------------------------
LEMMA SenderTypes == ASSUME TypeInv, NEW s \in Senders, Sender(s) PROVE Typed'
  <1> USE DEF pool, peers, files, tick, stop
  <1>0. /\ Inv /\ Shape /\ Stocked /\ Peered /\ Ticking /\ Flagged /\ InTurn
        /\ sender \in [Senders -> Hand] /\ sender[s] \in Hand
    BY DEF TypeInv, Typed, Inv, Shape
  <1>1. CASE SenderWait(s) \/ (SenderTake(s) /\ ~(bundles # <<>> /\ workers.first # NULL))
    <2>1. PICK p \in {"take", "wait"} : sender' = [sender EXCEPT ![s].pc = p]
      BY <1>1 DEF SenderWait, SenderTake
    <2>2. /\ sender'[s].pc = p /\ sender'[s].link = sender[s].link
          /\ sender'[s].bundle = sender[s].bundle
          /\ \A t \in Senders : t # s => sender'[t] = sender[t]
      BY <1>0, <2>1, SenderMoves
    <2>3. /\ sender[s].pc \in {"wait", "take"}
          /\ UNCHANGED <<bundles, workunit_queue, freed, divide, event, owes, ticks_done>>
      BY <1>1 DEF SenderWait, SenderTake
    <2>4. Stocked'
      BY <1>0, <2>2, <2>3 DEF Stocked
    <2>5. Peered' /\ Ticking' /\ Flagged'
      BY <1>0, <1>1 DEF SenderWait, SenderTake, Peered, Ticking, Flagged
    <2>6. InTurn'
      BY <1>0, <2>2, <2>3, TurnStays DEF InTurn, Idle
    <2>7. QED
      BY <2>4, <2>5, <2>6 DEF Typed
  <1>2. ASSUME InTurn, UNCHANGED <<divide, ticks_done, event>>, ~Early PROVE InTurn'
    BY <1>2, TurnStays
  <1>3. ASSUME sender[s].pc \in {"queue", "send", "return"} PROVE ~Early
    BY <1>0, <1>3 DEF InTurn, Idle
  <1>4. CASE SenderTake(s) /\ bundles # <<>> /\ workers.first # NULL
    <2>1. /\ sender' = [sender EXCEPT ![s] = [pc |-> "queue", link |-> workers.first,
                                              bundle |-> Head(bundles)]]
          /\ bundles' = Tail(bundles) /\ UNCHANGED <<workunit_queue, freed, divide>>
      BY <1>4 DEF SenderTake
    <2>2. Head(bundles) \in Sliced /\ Tail(bundles) \in Seq(Sliced) /\ workers.first \in Workers
      BY <1>0, <1>4, HeadTailProperties, PopType DEF Stocked, Shape
    <2>3. /\ sender'[s].pc = "queue" /\ sender'[s].link = workers.first
          /\ sender'[s].bundle = Head(bundles)
          /\ \A t \in Senders : t # s => sender'[t] = sender[t]
      BY <1>0, <2>1
    <2>4. Stocked'
      BY <1>0, <2>1, <2>2, <2>3 DEF Stocked
    <2>5. Peered' /\ Ticking' /\ Flagged'
      BY <1>0, <1>4 DEF SenderTake, Peered, Ticking, Flagged
    <2>6. InTurn'
      BY <1>0, <1>2, <1>4 DEF SenderTake, InTurn, Idle
    <2>7. QED
      BY <2>4, <2>5, <2>6 DEF Typed
  <1>5. CASE SenderQueue(s)
    <2>1. /\ sender' = [sender EXCEPT ![s].pc = "send"] /\ sender[s].pc = "queue"
          /\ workunit_queue' = [workunit_queue EXCEPT ![sender[s].link] =
                                                          Append(@, sender[s].bundle)]
      BY <1>5 DEF SenderQueue
    <2>2. /\ sender'[s].pc = "send" /\ sender'[s].link = sender[s].link
          /\ sender'[s].bundle = sender[s].bundle
          /\ \A t \in Senders : t # s => sender'[t] = sender[t]
      BY <1>0, <2>1, SenderMoves
    <2>3. sender[s].link \in Workers /\ sender[s].bundle \in Sliced
      BY <1>0, <2>1 DEF Stocked
    <2>4. workunit_queue' \in [Workers -> Seq(Sliced)]
      BY <1>0, <2>1, <2>3, AppendProperties DEF Stocked
    <2>5. Stocked'
      BY <1>0, <1>5, <2>2, <2>3, <2>4 DEF SenderQueue, Stocked
    <2>6. Peered' /\ Ticking' /\ Flagged'
      BY <1>0, <1>5 DEF SenderQueue, Peered, Ticking, Flagged
    <2>7. InTurn'
      BY <1>0, <1>2, <1>3, <1>5 DEF SenderQueue
    <2>8. QED
      BY <2>5, <2>6, <2>7 DEF Typed
  <1>6. CASE SenderSend(s)
    <2> DEFINE w == sender[s].link
               answers == Answers(sender[s].bundle.keys, cells)
    <2>1. /\ sender[s].pc = "send" /\ sender[s].bundle.tick = cells
          /\ sender' = [sender EXCEPT ![s].pc = "return", ![s].bundle = NULL]
          /\ owes' = [owes EXCEPT ![w] = IF alive[w] THEN @ \o answers ELSE @]
      BY <1>6 DEF SenderSend
    <2>2. /\ sender'[s].pc = "return" /\ sender'[s].link = sender[s].link
          /\ sender'[s].bundle = NULL
          /\ \A t \in Senders : t # s => sender'[t] = sender[t]
      BY <1>0, <2>1 DEF Hand
    <2>3. w \in Workers /\ sender[s].bundle \in Sliced
      BY <1>0, <2>1 DEF Stocked
    <2>4. answers \in Seq(Units \cup {Settings})
      <3>1. cells \in 1..TicksCnt /\ sender[s].bundle.keys \in Runs
        BY <2>1, <2>3 DEF Sliced
      <3>2. answers \in Seq(Units)
        BY <3>1, AnswersType
      <3>3. Seq(Units) \subseteq Seq(Units \cup {Settings})
        OBVIOUS
      <3>4. QED
        BY <3>2, <3>3
    <2> HIDE DEF answers
    <2>5. owes' \in [Workers -> Seq(Units \cup {Settings})]
      <3>1. owes[w] \o answers \in Seq(Units \cup {Settings})
        BY <1>0, <2>3, <2>4 DEF Peered
      <3>2. QED
        BY <1>0, <2>1, <2>3, <3>1 DEF Peered
    <2>6. Stocked'
      BY <1>0, <1>6, <2>2, <2>3 DEF SenderSend, Stocked
    <2>7. Peered' /\ Ticking' /\ Flagged'
      BY <1>0, <1>6, <2>5 DEF SenderSend, Peered, Ticking, Flagged
    <2>8. InTurn'
      BY <1>0, <1>2, <1>3, <1>6 DEF SenderSend
    <2>9. QED
      BY <2>6, <2>7, <2>8 DEF Typed
  <1>7. CASE SenderReturn(s)
    <2>1. sender[s].pc = "return"
          /\ sender' = [sender EXCEPT ![s] = [pc |-> "wait", link |-> NULL, bundle |-> NULL]]
      BY <1>7 DEF SenderReturn
    <2>2. /\ sender'[s].pc = "wait" /\ sender'[s].link = NULL /\ sender'[s].bundle = NULL
          /\ \A t \in Senders : t # s => sender'[t] = sender[t]
      BY <1>0, <2>1
    <2>3. Stocked'
      BY <1>0, <1>7, <2>2 DEF SenderReturn, Stocked
    <2>4. Peered' /\ Ticking' /\ Flagged'
      BY <1>0, <1>7 DEF SenderReturn, Peered, Ticking, Flagged
    <2>5. InTurn'
      BY <1>0, <1>2, <1>3, <1>7 DEF SenderReturn
    <2>6. QED
      BY <2>3, <2>4, <2>5 DEF Typed
  <1>8. CASE SenderFaults(s)
    BY <1>8, FaultTypes DEF SenderFaults
  <1>9. QED
    BY <1>1, <1>4, <1>5, <1>6, <1>7, <1>8 DEF Sender
-------------------------------------------------------------------------------
(* A step of the event thread of w to a place that is not part of the end of  *)
(* a tick.                                                                   *)
LEMMA EventInTurn ==
    ASSUME TypeInv, NEW w \in Workers, NEW p,
           event' = [event EXCEPT ![w] = p], p \notin {"all_done", "reopen"},
           Early => p \in EarlyPlaces, UNCHANGED <<divide, ticks_done>>,
           Early => /\ bundles' = <<>>
                    /\ \A v \in Workers : workunit_queue'[v] = <<>> /\ owes'[v] \in Seq({Settings})
                    /\ sender' = sender
    PROVE  InTurn'
  <1>0. Shape /\ InTurn
    BY DEF TypeInv, Typed, Inv
  <1>1. \A v \in Workers : event'[v] = IF v = w THEN p ELSE event[v]
    BY <1>0 DEF Shape
  <1>2. \A v \in Workers : event'[v] \in {"all_done", "reopen"} =>
                              event[v] \in {"all_done", "reopen"}
    BY <1>1
  <1>3. Early => \A v \in Workers : event'[v] \in EarlyPlaces
    BY <1>0, <1>1 DEF InTurn, Idle
  <1>4. QED
    BY <1>0, <1>2, <1>3, TurnStays DEF InTurn, Idle

LEMMA EarlyInTurn ==
    ASSUME TypeInv, NEW w \in Workers, NEW p \in EarlyPlaces,
           event' = [event EXCEPT ![w] = p], UNCHANGED <<divide, ticks_done, bundles, owes, sender>>,
           Early => \A v \in Workers : workunit_queue'[v] = <<>>
    PROVE  InTurn'
  <1>1. p \notin {"all_done", "reopen"}
    BY DEF EarlyPlaces
  <1>2. Early => bundles' = <<>> /\ \A v \in Workers : owes'[v] \in Seq({Settings})
    BY DEF TypeInv, Typed, InTurn, Idle
  <1>3. QED
    BY <1>1, <1>2, EventInTurn

LEMMA EventTypes ==
    ASSUME TypeInv, NEW w \in Workers,
           EventInvalid(w) \/ EventIntegrate(w) \/ EventFaults(w) \/ EventSave(w)
             \/ EventSaveFaults(w) \/ EventPop(w) \/ EventCount(w)
             \/ AllBundlesClose(w) \/ EventClosed(w) \/ WorkerDies(w)
    PROVE  Typed'
  <1> USE DEF pool, peers, files, tick, stop
  <1>0. /\ Inv /\ Shape /\ Stocked /\ Peered /\ Ticking /\ Flagged /\ InTurn
        /\ event \in [Workers -> EventPlaces]
        /\ owes[w] \in Seq(Units \cup {Settings}) /\ workunit_queue[w] \in Seq(Sliced)
    BY DEF TypeInv, Typed, Inv, Shape, Stocked, Peered
  <1>1. ASSUME NEW S, NEW q \in Seq(S), q # <<>> PROVE Head(q) \in S /\ Tail(q) \in Seq(S)
    BY <1>1, HeadTailProperties
  <1>2. ASSUME event[w] \notin EarlyPlaces PROVE ~Early
    BY <1>0, <1>2 DEF InTurn, Idle
  <1>3. CASE EventFaults(w) \/ EventSaveFaults(w)
    BY <1>3, FaultTypes DEF EventFaults, EventSaveFaults
  <1>4. CASE EventInvalid(w)
    <2>1. owes[w] # <<>> /\ owes' = [owes EXCEPT ![w] = Tail(@)]
      BY <1>4 DEF EventInvalid
    <2>2. owes' \in [Workers -> Seq(Units \cup {Settings})]
      BY <1>0, <1>1, <2>1 DEF Peered
    <2>3. Early => \A v \in Workers : owes'[v] \in Seq({Settings})
      BY <1>0, <1>1, <2>1 DEF Peered, InTurn, Idle
    <2>4. Stocked' /\ Peered' /\ Ticking' /\ Flagged'
      BY <1>0, <1>4, <2>2 DEF EventInvalid, Stocked, Peered, Ticking, Flagged
    <2>5. InTurn'
      BY <1>0, <1>4, <2>3, TurnStays DEF EventInvalid, InTurn, Idle
    <2>6. QED
      BY <2>4, <2>5 DEF Typed
  <1>5. CASE EventIntegrate(w)
    <2> DEFINE unit == Head(owes[w])
    <2>1. PICK p \in {"save", "save_last"} :
            /\ owes[w] # <<>> /\ unit.type = "WORK_UNIT_DONE"
            /\ owes' = [owes EXCEPT ![w] = Tail(@)]
            /\ new_dataset' = [new_dataset EXCEPT ![unit.id] = unit.tick]
            /\ event' = [event EXCEPT ![w] = p] /\ event[w] = "receive"
            /\ unsaved' = [unsaved EXCEPT ![w] = unit.tick]
      BY <1>5 DEF EventIntegrate
    <2>2. unit \in Units
      <3>1. unit \in Units \cup {Settings}
        BY <1>0, <1>1, <2>1
      <3>2. unit # Settings
        BY <2>1 DEF Settings
      <3>3. QED
        BY <3>1, <3>2
    <2>3. ~Early
      <3> SUFFICES ASSUME Early PROVE FALSE
        OBVIOUS
      <3>1. owes[w] \in Seq({Settings})
        BY <1>0 DEF InTurn, Idle
      <3>2. unit = Settings
        BY <3>1, <1>1, <2>1
      <3>3. QED
        BY <2>1, <3>2 DEF Settings
    <2>4. owes' \in [Workers -> Seq(Units \cup {Settings})]
      BY <1>0, <1>1, <2>1 DEF Peered
    <2>5. unit.id \in CellIds /\ unit.tick \in 0..TicksCnt
      <3>1. unit.id \in CellIds /\ unit.tick \in 1..TicksCnt
        BY <2>2 DEF Units
      <3>2. QED
        BY <3>1, DispatcherAssumption
    <2> HIDE DEF unit
    <2>6. /\ new_dataset' \in [CellIds -> 0..TicksCnt] /\ unsaved' \in [Workers -> 0..TicksCnt]
      BY <1>0, <2>1, <2>5 DEF Ticking
    <2>7. Stocked' /\ Peered' /\ Ticking' /\ Flagged'
      BY <1>0, <1>5, <2>4, <2>6 DEF EventIntegrate, Stocked, Peered, Ticking, Flagged
    <2>8. InTurn'
      BY <1>5, <2>1, <2>3, EventInTurn DEF EventIntegrate
    <2>9. QED
      BY <2>7, <2>8 DEF Typed
  <1>6. CASE EventSave(w)
    <2>1. PICK p \in {"receive", "pop"} : event' = [event EXCEPT ![w] = p]
      BY <1>6 DEF EventSave
    <2>2. unsaved' \in [Workers -> 0..TicksCnt]
      <3>1. 0 \in 0..TicksCnt
        BY DispatcherAssumption
      <3>2. QED
        BY <1>0, <1>6, <3>1 DEF EventSave, Ticking
    <2>3. Stocked' /\ Peered' /\ Ticking' /\ Flagged'
      BY <1>0, <1>6, <2>2 DEF EventSave, Stocked, Peered, Ticking, Flagged
    <2>4. ~Early
      BY <1>2, <1>6 DEF EventSave, EarlyPlaces
    <2>5. InTurn'
      BY <1>6, <2>1, <2>4, EventInTurn DEF EventSave
    <2>6. QED
      BY <2>3, <2>5 DEF Typed
  <1>7. CASE EventPop(w)
    <2>1. /\ workunit_queue' = [workunit_queue EXCEPT ![w] = IF @ = <<>> THEN @ ELSE Tail(@)]
          /\ freed' = IF workunit_queue[w] = <<>> THEN freed
                      ELSE freed \cup {Head(workunit_queue[w])}
          /\ event' = [event EXCEPT ![w] = "done"] /\ event[w] = "pop"
      BY <1>7 DEF EventPop
    <2>2. workunit_queue' \in [Workers -> Seq(Sliced)]
      BY <1>0, <1>1, <2>1 DEF Stocked
    <2>3. freed' \subseteq (Workers \cup Sliced)
      BY <1>0, <1>1, <2>1 DEF Stocked
    <2>4. Stocked' /\ Peered' /\ Ticking' /\ Flagged'
      BY <1>0, <1>7, <2>2, <2>3 DEF EventPop, Stocked, Peered, Ticking, Flagged
    <2>5. ~Early
      BY <1>2, <2>1 DEF EarlyPlaces
    <2>6. InTurn'
      <3>1. UNCHANGED <<divide, ticks_done>>
        BY <1>7 DEF EventPop
      <3>2. QED
        BY <2>1, <2>5, <3>1, EventInTurn
    <2>7. QED
      BY <2>4, <2>6 DEF Typed
  <1>8. CASE EventCount(w)
    <2>1. PICK p \in {"all_done", "receive"} : event' = [event EXCEPT ![w] = p]
      BY <1>8 DEF EventCount
    <2>2. Stocked' /\ Peered' /\ Ticking' /\ Flagged'
      <3>1. bundles_done' = bundles_done + 1 /\ bundles_done \in Nat
        BY <1>0, <1>8 DEF EventCount, Ticking
      <3>2. bundles_done' \in Nat
        BY <3>1
      <3>3. QED
        BY <1>0, <1>8, <3>2 DEF EventCount, Stocked, Peered, Ticking, Flagged
    <2>3. ~Early
      BY <1>2, <1>8 DEF EventCount, EarlyPlaces
    <2>4. \A v \in Workers : Busy(v)' => v = w
      BY <1>0, <1>8, <2>1 DEF EventCount, BundlesDoneFree, Busy
    <2>5. InTurn'
      BY <1>0, <1>8, <2>3, <2>4 DEF EventCount, InTurn, OneDivides, InTime, Early
    <2>6. QED
      BY <2>2, <2>5 DEF Typed
  <1>9. CASE AllBundlesClose(w)
    <2>1. event' = [event EXCEPT ![w] = "reopen"] /\ event[w] = "all_done"
      BY <1>9 DEF AllBundlesClose
    <2>2. Ticking'
      <3>1. 0 \in 0..TicksCnt
        BY DispatcherAssumption
      <3>2. QED
        BY <1>0, <1>9, <3>1 DEF AllBundlesClose, Ticking
    <2>3. Stocked' /\ Peered' /\ Flagged'
      BY <1>0, <1>9 DEF AllBundlesClose, Stocked, Peered, Flagged
    <2>4. ~Early
      BY <1>2, <2>1 DEF EarlyPlaces
    <2>5. \A v \in Workers : Busy(v)' => Busy(v)
      BY <1>0, <1>9, <2>1 DEF AllBundlesClose, Busy
    <2>6. InTurn'
      BY <1>0, <1>9, <2>4, <2>5 DEF AllBundlesClose, InTurn, OneDivides, InTime, Early
    <2>7. QED
      BY <2>2, <2>3, <2>6 DEF Typed
  <1>10. CASE EventClosed(w)
    <2>1. event' = [event EXCEPT ![w] = "repool"]
      BY <1>10 DEF EventClosed
    <2>2. Stocked' /\ Peered' /\ Ticking' /\ Flagged'
      BY <1>0, <1>10 DEF EventClosed, Stocked, Peered, Ticking, Flagged
    <2>3. UNCHANGED <<divide, ticks_done, bundles, workunit_queue, owes, sender>>
      BY <1>10 DEF EventClosed
    <2>4. InTurn'
      BY <1>0, <2>1, <2>3, EarlyInTurn DEF InTurn, Idle, EarlyPlaces
    <2>5. QED
      BY <2>2, <2>4 DEF Typed
  <1>11. CASE WorkerDies(w)
    <2>1. PICK n \in 0..Len(owes[w]) : owes' = [owes EXCEPT ![w] = SubSeq(@, 1, n)]
      BY <1>11 DEF WorkerDies
    <2>2. ASSUME NEW S, owes[w] \in Seq(S) PROVE SubSeq(owes[w], 1, n) \in Seq(S)
      BY <2>2
    <2>3. owes' \in [Workers -> Seq(Units \cup {Settings})]
      BY <1>0, <2>1, <2>2 DEF Peered
    <2>4. Early => \A v \in Workers : owes'[v] \in Seq({Settings})
      BY <1>0, <2>1, <2>2 DEF Peered, InTurn, Idle
    <2>5. alive' \in [Workers -> BOOLEAN]
      BY <1>0, <1>11 DEF WorkerDies, Peered
    <2>6. losses' \in 0..MaxLosses
      BY <1>0, <1>11, DispatcherAssumption DEF WorkerDies, Peered
    <2>7. Stocked' /\ Peered' /\ Ticking' /\ Flagged'
      BY <1>0, <1>11, <2>3, <2>5, <2>6 DEF WorkerDies, Stocked, Peered, Ticking, Flagged
    <2>8. InTurn'
      BY <1>0, <1>11, <2>4, TurnStays DEF WorkerDies, InTurn, Idle
    <2>9. QED
      BY <2>7, <2>8 DEF Typed
  <1>12. QED
    BY <1>3, <1>4, <1>5, <1>6, <1>7, <1>8, <1>9, <1>10, <1>11

(* The end of a tick: ticks_done moves, and the divider's turn goes on.      *)
LEMMA AllDoneTypes == ASSUME TypeInv, NEW w \in Workers, AllBundlesDone(w) PROVE Typed'
  <1> USE DEF pool, peers, files, tick, stop
  <1>0. /\ Inv /\ Shape /\ Stocked /\ Peered /\ Ticking /\ Flagged /\ InTurn
        /\ event \in [Workers -> EventPlaces] /\ event[w] = "reopen"
        /\ w \in Dividers /\ Main \in Dividers /\ Main \notin Workers
    BY DispatcherAssumption DEF TypeInv, Typed, Inv, Shape, AllBundlesDone, Dividers, Main
  <1>1. ~Early
    BY <1>0 DEF InTurn, Idle, EarlyPlaces
  <1>2. PICK p \in {"divide", "receive"} :
            /\ event' = [event EXCEPT ![w] = p]
            /\ \/ divide' = [divide EXCEPT ![w].pc = "assign"] /\ ticks_done + 1 < TicksCnt
               \/ divide' = divide
    BY DEF AllBundlesDone
  <1>3. /\ \/ divide'[w].pc = "assign" /\ ticks_done + 1 < TicksCnt
           \/ divide'[w] = divide[w]
        /\ divide'[w].keys = divide[w].keys
        /\ \A e \in Dividers : e # w => divide'[e] = divide[e]
    BY <1>0, <1>2, DivideMoves
  <1>4. Ticking'
    <2>1. /\ ticks_done \in Nat /\ exit_sem \in Nat /\ ticks_done' = ticks_done + 1
          /\ cells' = 0 /\ bundles_done' = 0 /\ new_dataset' = [c \in CellIds |-> 0]
          /\ fp' = IF ticks_done + 1 < TicksCnt THEN ticks_done + 2 ELSE 0
          /\ exit_sem' = exit_sem \/ exit_sem' = exit_sem + 1
          /\ UNCHANGED <<total_bundles, unsaved, sender_count, fault>>
      BY <1>0 DEF AllBundlesDone, Ticking
    <2>2. ticks_done' \in Nat /\ fp' \in 0..TicksCnt /\ exit_sem' \in Nat /\ 0 \in 0..TicksCnt
      BY <2>1, DispatcherAssumption
    <2>3. new_dataset' \in [CellIds -> 0..TicksCnt]
      BY <2>1, <2>2
    <2>4. QED
      BY <1>0, <2>1, <2>2, <2>3 DEF Ticking
  <1>5. Stocked' /\ Peered' /\ Flagged'
    BY <1>0, <1>3 DEF AllBundlesDone, Stocked, Peered, Flagged
  <1>6. OneDivides'
    <2>1. Busy(w) /\ \A v \in Workers : Busy(v)' => Busy(v)
      BY <1>0, <1>2, <1>3 DEF Busy, Dividers
    <2>2. QED
      BY <1>0, <2>1 DEF InTurn, OneDivides
  <1>7. InTime'
    <2> SUFFICES ASSUME NEW d \in Dividers, divide'[d].pc = "assign" PROVE ticks_done' < TicksCnt
      BY DEF InTime
    <2>1. CASE divide[d].pc = "assign"
      <3>1. d \in Workers
        BY <1>1, <2>1 DEF Early, Dividers
      <3>2. d = w
        BY <1>0, <2>1, <3>1 DEF InTurn, OneDivides, Busy
      <3>3. QED
        BY <1>0, <2>1, <3>2 DEF Inv, DividesInTurn
    <2>2. CASE divide[d].pc # "assign"
      <3>1. ticks_done + 1 < TicksCnt
        BY <1>3, <2>2
      <3>2. QED
        BY <3>1 DEF AllBundlesDone
    <2>3. QED
      BY <2>1, <2>2
  <1>8. ~Early'
    BY <1>0, <1>1, <1>3 DEF Early
  <1>9. QED
    BY <1>4, <1>5, <1>6, <1>7, <1>8 DEF Typed, InTurn

LEMMA CleanupTypes ==
    ASSUME TypeInv, NEW w \in Workers,
           CleanupRepool(w) \/ CleanupPost(w) \/ CleanupFreeQueue(w)
             \/ CleanupUnlink(w) \/ CleanupFree(w)
    PROVE  Typed'
  <1> USE DEF pool, peers, files, tick, stop
  <1>0. /\ Inv /\ Shape /\ Stocked /\ Peered /\ Ticking /\ Flagged /\ InTurn
        /\ event \in [Workers -> EventPlaces] /\ workunit_queue[w] \in Seq(Sliced)
    BY DEF TypeInv, Typed, Inv, Shape, Stocked
  <1>1. CASE CleanupRepool(w)
    <2>1. /\ workunit_queue[w] # <<>> /\ event' = [event EXCEPT ![w] = "repost"]
          /\ bundles' = Append(bundles, Head(workunit_queue[w]))
          /\ workunit_queue' = [workunit_queue EXCEPT ![w] = Tail(@)]
          /\ UNCHANGED <<sender, freed, divide, ticks_done>>
      BY <1>1 DEF CleanupRepool
    <2>2. Head(workunit_queue[w]) \in Sliced /\ Tail(workunit_queue[w]) \in Seq(Sliced)
      BY <1>0, <2>1, HeadTailProperties
    <2>3. bundles' \in Seq(Sliced) /\ workunit_queue' \in [Workers -> Seq(Sliced)]
      BY <1>0, <2>1, <2>2, AppendProperties DEF Stocked
    <2>4. Stocked'
      BY <1>0, <2>1, <2>3 DEF Stocked
    <2>5. Peered' /\ Ticking' /\ Flagged'
      BY <1>0, <1>1 DEF CleanupRepool, Peered, Ticking, Flagged
    <2>6. ~Early
      BY <1>0, <2>1 DEF InTurn, Idle
    <2>7. InTurn'
      BY <2>1, <2>6, EventInTurn
    <2>8. QED
      BY <2>4, <2>5, <2>7 DEF Typed
  <1>2. CASE CleanupPost(w) \/ CleanupFreeQueue(w)
    <2>1. /\ \/ event' = [event EXCEPT ![w] = "repool"]
             \/ event' = [event EXCEPT ![w] = "unlink"]
          /\ UNCHANGED <<bundles, workunit_queue, owes, sender, freed, divide, ticks_done>>
      BY <1>2 DEF CleanupPost, CleanupFreeQueue
    <2>2. Stocked' /\ Peered' /\ Ticking' /\ Flagged'
      BY <1>0, <1>2, <2>1 DEF CleanupPost, CleanupFreeQueue, Stocked, Peered, Ticking, Flagged
    <2>3. InTurn'
      BY <1>0, <2>1, EventInTurn DEF InTurn, Idle, EarlyPlaces
    <2>4. QED
      BY <2>2, <2>3 DEF Typed
  <1>3. CASE CleanupUnlink(w)
    <2>1. CASE Fault("endless list") \/ Fault("use after free")
      BY <2>1, FaultTypes
    <2>2. CASE /\ event' = [event EXCEPT ![w] = "free"]
               /\ UNCHANGED <<pool, sender, sender_count, workunit_queue, peers, freed,
                              connect, divide, tick, stop, fault>>
      <3>1. Stocked' /\ Peered' /\ Ticking' /\ Flagged'
        BY <1>0, <2>2 DEF Stocked, Peered, Ticking, Flagged
      <3>2. InTurn'
        BY <1>0, <2>2, EarlyInTurn DEF InTurn, Idle, EarlyPlaces
      <3>3. QED
        BY <3>1, <3>2 DEF Typed
    <2>3. QED
      BY <1>3, <2>1, <2>2 DEF CleanupUnlink
  <1>4. CASE CleanupFree(w)
    <2>1. /\ workunit_queue' = [workunit_queue EXCEPT ![w] = <<>>]
          /\ freed' = freed \cup {w} /\ event' = [event EXCEPT ![w] = "gone"]
          /\ UNCHANGED <<bundles, owes, sender, divide, ticks_done>>
      BY <1>4 DEF CleanupFree
    <2>2. workunit_queue' \in [Workers -> Seq(Sliced)]
      <3>1. <<>> \in Seq(Sliced)
        BY EmptySeq
      <3>2. QED
        BY <1>0, <2>1, <3>1 DEF Stocked
    <2>3. Stocked'
      BY <1>0, <2>1, <2>2 DEF Stocked
    <2>4. Peered' /\ Ticking' /\ Flagged'
      BY <1>0, <1>4 DEF CleanupFree, Peered, Ticking, Flagged
    <2>5. Early => \A v \in Workers : workunit_queue'[v] = <<>>
      BY <1>0, <2>1 DEF InTurn, Idle, Stocked
    <2>6. InTurn'
      BY <2>1, <2>5, EarlyInTurn DEF EarlyPlaces
    <2>7. QED
      BY <2>3, <2>4, <2>6 DEF Typed
  <1>5. QED
    BY <1>1, <1>2, <1>3, <1>4
-------------------------------------------------------------------------------
LEMMA StepType == TypeInv /\ [Next]_vars => TypeInv'
  <1> SUFFICES ASSUME TypeInv, [Next]_vars PROVE TypeInv'
    OBVIOUS
  <1>0. Inv'
    BY StepInv DEF TypeInv
  <1>1. CASE Connect
    BY <1>0, <1>1, ConnectTypes DEF TypeInv
  <1>2. CASE MainLaunch \/ MainExit
    BY <1>0, <1>2, MainTypes DEF TypeInv
  <1>3. ASSUME NEW d \in Dividers, Divide(d) PROVE TypeInv'
    BY <1>0, <1>3, DivideTypes DEF TypeInv
  <1>4. ASSUME NEW s \in Senders, Sender(s) PROVE TypeInv'
    BY <1>0, <1>4, SenderTypes DEF TypeInv
  <1>5. ASSUME NEW w \in Workers, Event(w) \/ WorkerDies(w) PROVE TypeInv'
    <2>1. Typed'
      BY <1>5, EventTypes, AllDoneTypes, CleanupTypes DEF Event
    <2>2. QED
      BY <1>0, <2>1 DEF TypeInv
  <1>6. CASE UNCHANGED vars
    <2>1. Stocked' /\ Peered' /\ Ticking' /\ Flagged'
      BY <1>6 DEF vars, pool, tick, files, peers, stop, TypeInv, Typed, Stocked, Peered,
                  Ticking, Flagged
    <2>2. InTurn'
      BY <1>6 DEF vars, pool, tick, files, peers, stop, TypeInv, Typed, InTurn, OneDivides,
                  InTime, Busy, Early, Idle
    <2>3. QED
      BY <1>0, <2>1, <2>2 DEF TypeInv, Typed
  <1>7. QED
    BY <1>1, <1>2, <1>3, <1>4, <1>5, <1>6 DEF Next

(* What has gone wrong stays on record, and nothing else is recorded.        *)
LEMMA MishapsGrow == [Next]_vars => mishaps \subseteq mishaps' /\ mishaps' \subseteq mishaps \cup Mishaps
  <1> USE DEF pool, peers, files, tick, stop, Mishaps
  <1> DEFINE grow == mishaps \subseteq mishaps' /\ mishaps' \subseteq mishaps \cup Mishaps
  <1> SUFFICES ASSUME [Next]_vars PROVE grow
    OBVIOUS
  <1>1. ASSUME NEW mishap \in Mishaps, NEW happens, Noted(mishap, happens) PROVE grow
    BY <1>1 DEF Noted
  <1>2. CASE Connect
    <2>1. CASE ConnectApplied
      BY <1>1, <2>1 DEF ConnectApplied
    <2>2. QED
      BY <1>2, <2>1 DEF Connect, ConnectAccept, ConnectFaults, ConnectSettings, Fault
  <1>3. CASE MainLaunch \/ MainExit
    BY <1>3 DEF MainLaunch, MainExit
  <1>4. ASSUME NEW d \in Dividers, Divide(d) PROVE grow
    <2>1. CASE DivideAssign(d)
      BY <1>1, <2>1 DEF DivideAssign
    <2>2. CASE BundleFaults(d) \/ DivideCountsNone(d)
      BY <2>2 DEF BundleFaults, DivideCountsNone, Fault
    <2>3. CASE DivideCount(d) \/ BundleEnqueue(d) \/ BundlePost(d) \/ BundlesJoined(d)
      BY <2>3 DEF DivideCount, BundleEnqueue, BundlePost, BundlesJoined
    <2>4. QED
      BY <1>4, <2>1, <2>2, <2>3 DEF Divide
  <1>5. ASSUME NEW s \in Senders, Sender(s) PROVE grow
    <2>1. CASE SenderQueue(s) \/ SenderTake(s)
      BY <1>1, <2>1 DEF SenderQueue, SenderTake
    <2>2. QED
      BY <1>5, <2>1 DEF Sender, SenderWait, SenderSend, SenderReturn, SenderFaults, Fault
  <1>6. ASSUME NEW w \in Workers, Event(w) \/ WorkerDies(w) PROVE grow
    <2>1. CASE EventIntegrate(w)
      BY <1>1, <2>1 DEF EventIntegrate
    <2>2. CASE EventInvalid(w) \/ EventFaults(w) \/ EventSave(w) \/ EventSaveFaults(w) \/ EventPop(w)
      BY <2>2 DEF EventInvalid, EventFaults, EventSave, EventSaveFaults, EventPop, Fault
    <2>3. CASE EventCount(w) \/ AllBundlesClose(w) \/ AllBundlesDone(w) \/ EventClosed(w)
      BY <2>3 DEF EventCount, AllBundlesClose, AllBundlesDone, EventClosed
    <2>4. CASE CleanupRepool(w) \/ CleanupPost(w) \/ CleanupFreeQueue(w)
      BY <2>4 DEF CleanupRepool, CleanupPost, CleanupFreeQueue
    <2>5. CASE CleanupUnlink(w) \/ CleanupFree(w) \/ WorkerDies(w)
      BY <2>5 DEF CleanupUnlink, CleanupFree, WorkerDies, Fault
    <2>6. QED
      BY <1>6, <2>1, <2>2, <2>3, <2>4, <2>5 DEF Event
  <1>7. CASE UNCHANGED vars
    BY <1>7 DEF vars
  <1>8. QED
    BY <1>2, <1>3, <1>4, <1>5, <1>6, <1>7 DEF Next

LEMMA TypeInvGivesType == TypeInv /\ mishaps \subseteq Mishaps => TypeOK
  <1> SUFFICES ASSUME TypeInv, mishaps \subseteq Mishaps PROVE TypeOK
    OBVIOUS
  <1>0. Shape /\ Stocked /\ Peered /\ Ticking /\ Flagged
    BY DEF TypeInv, Typed, Inv
  <1>1. Sliced \subseteq Bundles
    BY RunsAreKeys
  <1>2. bundles \in Seq(Bundles) /\ workunit_queue \in [Workers -> Seq(Bundles)]
    <2>1. Seq(Sliced) \subseteq Seq(Bundles)
      BY <1>1
    <2>2. QED
      BY <1>0, <2>1 DEF Stocked
  <1>3. sender \in [Senders -> Hands]
    <2>1. ASSUME NEW s \in Senders PROVE sender[s] \in Hands
      <3>1. sender[s] \in Hand /\ sender[s].bundle \in Bundles \cup {NULL}
        BY <1>0, <1>1 DEF Shape, Stocked
      <3>2. QED
        BY <3>1 DEF Hand, Hands, SenderPlaces
    <2>2. QED
      BY <1>0, <2>1 DEF Shape
  <1>4. freed \subseteq (Workers \cup Bundles)
    BY <1>0, <1>1 DEF Stocked
  <1>5. divide \in [Dividers -> [pc: {"none", "assign", "count", "bundle", "done"},
                                 keys: SUBSET SUBSET CellIds, posts: SUBSET SUBSET CellIds]]
    BY <1>0 DEF Shape, Division, DividePlaces, KeySets
  <1>6. /\ workers \in LQ!Queues /\ start_sending \in Nat
        /\ connect \in [pc: {"accept", "settings", "applied"}, worker: Workers \cup {NULL}]
    BY <1>0 DEF Shape, ConnectPlaces
  <1>7. event \in [Workers -> {"absent", "receive", "save", "save_last", "pop", "done",
                              "all_done", "reopen", "divide",
                              "repool", "repost", "unlink", "free", "gone"}]
    BY <1>0 DEF Shape, EventPlaces
  <1>8. QED
    BY <1>0, <1>2, <1>3, <1>4, <1>5, <1>6, <1>7 DEF TypeOK, Peered, Ticking, Flagged

(* Every queue, semaphore, counter and thread of the dispatcher keeps to its  *)
(* type: no counter goes below zero, the tick of the cells, of the open file  *)
(* and of every result is one of the ticks to do (divide_dataset.c,           *)
(* all_workunits_done.c), whatever joins late, is lost or comes out of order. *)
THEOREM TypeCorrect == Spec => []TypeOK
  <1> DEFINE recorded == mishaps \subseteq Mishaps
  <1>1. Init => recorded
    BY DEF Init
  <1>2. recorded /\ [Next]_vars => recorded'
    BY MishapsGrow DEF Mishaps
  <1>3. TypeInv /\ recorded => TypeOK
    BY TypeInvGivesType
  <1> HIDE DEF recorded
  <1>4. QED
    BY <1>1, <1>2, <1>3, InitType, StepType, PTL DEF Spec
-------------------------------------------------------------------------------
KeysOf(q)   == {q[i].keys : i \in DOMAIN q}
Distinct(q) == \A i, j \in DOMAIN q : q[i].keys = q[j].keys => i = j
InHand(s)   == IF sender[s].pc = "queue" THEN {sender[s].bundle.keys} ELSE {}

(* The places of a bundle: still to be made by a divider, in the pool, with a *)
(* sender, in the queue of a worker.                                         *)
Spots == ({"division"} \X Dividers) \cup ({"hand"} \X Senders) \cup ({"queue"} \X Workers)
            \cup {<<"pool", NULL>>}
At(p) == IF p[1] = "division" THEN divide[p[2]].keys
         ELSE IF p[1] = "hand" THEN InHand(p[2])
         ELSE IF p[1] = "queue" THEN KeysOf(workunit_queue[p[2]])
         ELSE KeysOf(bundles)
Stock == [p \in Spots |-> At(p)]
Live  == UNION {Stock[p] : p \in Spots}

OnePlace ==
    /\ \A p, q \in Spots : p # q => Stock[p] \cap Stock[q] = {}
    /\ Distinct(bundles)
    /\ \A w \in Workers : Distinct(workunit_queue[w])
-------------------------------------------------------------------------------
(* The keys in a queue of bundles.                                           *)
LEMMA KeysAppended ==
    ASSUME NEW S, NEW q \in Seq(S), NEW b \in S
    PROVE  /\ KeysOf(Append(q, b)) = KeysOf(q) \cup {b.keys}
           /\ Distinct(q) /\ b.keys \notin KeysOf(q) => Distinct(Append(q, b))
  <1>1. /\ Len(q) \in Nat /\ DOMAIN q = 1..Len(q) /\ DOMAIN Append(q, b) = 1..(Len(q) + 1)
        /\ \A i \in 1..Len(q) : Append(q, b)[i] = q[i]
        /\ Append(q, b)[Len(q) + 1] = b
    BY AppendProperties, LenProperties
  <1>2. KeysOf(Append(q, b)) = KeysOf(q) \cup {b.keys}
    <2>1. \A i \in 1..(Len(q) + 1) : i \in 1..Len(q) \/ i = Len(q) + 1
      BY <1>1
    <2>2. 1..Len(q) \subseteq 1..(Len(q) + 1) /\ Len(q) + 1 \in 1..(Len(q) + 1)
      BY <1>1
    <2>3. QED
      BY <1>1, <2>1, <2>2 DEF KeysOf
  <1>3. ASSUME Distinct(q), b.keys \notin KeysOf(q) PROVE Distinct(Append(q, b))
    <2> SUFFICES ASSUME NEW i \in 1..(Len(q) + 1), NEW j \in 1..(Len(q) + 1),
                        Append(q, b)[i].keys = Append(q, b)[j].keys
        PROVE i = j
      BY <1>1 DEF Distinct
    <2>1. CASE i \in 1..Len(q) /\ j \in 1..Len(q)
      BY <1>1, <1>3, <2>1 DEF Distinct
    <2>2. CASE i = Len(q) + 1 /\ j \in 1..Len(q)
      BY <1>1, <1>3, <2>2 DEF KeysOf
    <2>3. CASE j = Len(q) + 1 /\ i \in 1..Len(q)
      BY <1>1, <1>3, <2>3 DEF KeysOf
    <2>4. QED
      BY <1>1, <2>1, <2>2, <2>3
  <1>4. QED
    BY <1>2, <1>3

LEMMA KeysTaken ==
    ASSUME NEW S, NEW q \in Seq(S), q # <<>>
    PROVE  /\ Head(q) \in S /\ Tail(q) \in Seq(S) /\ Len(Tail(q)) = Len(q) - 1 /\ Len(q) >= 1
           /\ \A i \in DOMAIN Tail(q) : i + 1 \in DOMAIN q /\ Tail(q)[i] = q[i + 1]
           /\ Head(q) = q[1]
           /\ \A i \in DOMAIN q : i # 1 => i - 1 \in DOMAIN Tail(q) /\ Tail(q)[i - 1] = q[i]
           /\ Head(q).keys \in KeysOf(q)
           /\ Distinct(q) => /\ Distinct(Tail(q))
                             /\ KeysOf(Tail(q)) = KeysOf(q) \ {Head(q).keys}
  <1>1. /\ Len(q) \in Nat /\ DOMAIN q = 1..Len(q) /\ Len(q) >= 1 /\ Head(q) = q[1]
        /\ Head(q) \in S /\ Tail(q) \in Seq(S) /\ Len(Tail(q)) = Len(q) - 1
        /\ DOMAIN Tail(q) = 1..(Len(q) - 1)
        /\ \A i \in 1..(Len(q) - 1) : Tail(q)[i] = q[i + 1]
    BY HeadTailProperties, LenProperties, EmptySeq
  <1>2. \A i \in DOMAIN Tail(q) : i + 1 \in DOMAIN q /\ Tail(q)[i] = q[i + 1]
    BY <1>1
  <1>3. \A i \in DOMAIN q : i # 1 => i - 1 \in DOMAIN Tail(q) /\ Tail(q)[i - 1] = q[i]
    <2> SUFFICES ASSUME NEW i \in DOMAIN q, i # 1
        PROVE i - 1 \in DOMAIN Tail(q) /\ Tail(q)[i - 1] = q[i]
      BY <1>1
    <2>1. i - 1 \in 1..(Len(q) - 1) /\ (i - 1) + 1 = i
      BY <1>1
    <2>2. QED
      BY <1>1, <2>1
  <1>4. Head(q).keys \in KeysOf(q)
    BY <1>1 DEF KeysOf
  <1>5. ASSUME Distinct(q)
        PROVE  Distinct(Tail(q)) /\ KeysOf(Tail(q)) = KeysOf(q) \ {Head(q).keys}
    <2>1. Distinct(Tail(q))
      <3> SUFFICES ASSUME NEW i \in DOMAIN Tail(q), NEW j \in DOMAIN Tail(q),
                          Tail(q)[i].keys = Tail(q)[j].keys
          PROVE i = j
        BY DEF Distinct
      <3>1. i + 1 = j + 1
        BY <1>2, <1>5 DEF Distinct
      <3>2. QED
        BY <1>1, <3>1
    <2>2. \A i \in DOMAIN Tail(q) : q[i + 1].keys # Head(q).keys
      BY <1>1, <1>5 DEF Distinct
    <2>3. KeysOf(Tail(q)) \subseteq KeysOf(q) \ {Head(q).keys}
      BY <1>2, <2>2 DEF KeysOf
    <2>4. ASSUME NEW i \in DOMAIN q, q[i].keys # Head(q).keys PROVE q[i].keys \in KeysOf(Tail(q))
      <3>1. i # 1
        BY <1>1, <2>4
      <3>2. QED
        BY <1>3, <3>1 DEF KeysOf
    <2>5. QED
      BY <2>1, <2>3, <2>4 DEF KeysOf
  <1>6. QED
    BY <1>1, <1>2, <1>3, <1>4, <1>5

(* Moving one key from a place to another keeps the places apart.            *)
LEMMA MovedApart ==
    ASSUME NEW S, NEW f, NEW g, NEW a \in S, NEW b \in S, NEW k, a # b, k \in f[a],
           \A p, q \in S : p # q => f[p] \cap f[q] = {},
           \A p \in S : p # a /\ p # b => g[p] = f[p],
           g[a] = f[a] \ {k}, g[b] = f[b] \cup {k}
    PROVE  /\ \A p, q \in S : p # q => g[p] \cap g[q] = {}
           /\ UNION {g[p] : p \in S} = UNION {f[p] : p \in S}
  <1>1. \A p \in S : \A x : x \in g[p] => (x = k /\ p = b) \/ (x # k /\ x \in f[p])
    <2> SUFFICES ASSUME NEW p \in S, NEW x, x \in g[p]
        PROVE (x = k /\ p = b) \/ (x # k /\ x \in f[p])
      OBVIOUS
    <2>1. CASE p = a
      BY <2>1
    <2>2. CASE p = b
      BY <2>2
    <2>3. CASE p # a /\ p # b
      <3>1. x \in f[p] /\ f[p] \cap f[a] = {}
        BY <2>3
      <3>2. QED
        BY <3>1
    <2>4. QED
      BY <2>1, <2>2, <2>3
  <1>2. \A p, q \in S : p # q => g[p] \cap g[q] = {}
    <2> SUFFICES ASSUME NEW p \in S, NEW q \in S, p # q, NEW x, x \in g[p], x \in g[q] PROVE FALSE
      OBVIOUS
    <2>1. x # k => x \in f[p] \cap f[q]
      BY <1>1
    <2>2. QED
      BY <1>1, <2>1
  <1>3. \A x : (\E p \in S : x \in g[p]) <=> (\E p \in S : x \in f[p])
    <2>1. \A x : (\E p \in S : x \in g[p]) => (\E p \in S : x \in f[p])
      BY <1>1
    <2>2. ASSUME NEW x, NEW p \in S, x \in f[p] PROVE \E q \in S : x \in g[q]
      <3>1. x = k => x \in g[b]
        OBVIOUS
      <3>2. x # k => x \in g[p]
        BY <2>2
      <3>3. QED
        BY <3>1, <3>2
    <2>3. QED
      BY <2>1, <2>2
  <1>4. QED
    BY <1>2, <1>3
-------------------------------------------------------------------------------
(* What each place holds, before and after a step.                           *)
LEMMA StockOf ==
    /\ \A d \in Dividers : <<"division", d>> \in Spots /\ Stock[<<"division", d>>] = divide[d].keys
    /\ \A s \in Senders : <<"hand", s>> \in Spots /\ Stock[<<"hand", s>>] = InHand(s)
    /\ \A w \in Workers : <<"queue", w>> \in Spots
                          /\ Stock[<<"queue", w>>] = KeysOf(workunit_queue[w])
    /\ <<"pool", NULL>> \in Spots /\ Stock[<<"pool", NULL>>] = KeysOf(bundles)
  <1>1. \A p \in Spots : Stock[p] = At(p)
    BY DEF Stock
  <1>2. QED
    BY <1>1 DEF Spots, At

LEMMA StockAfter ==
    /\ \A d \in Dividers : Stock'[<<"division", d>>] = divide'[d].keys
    /\ \A s \in Senders : Stock'[<<"hand", s>>] = InHand(s)'
    /\ \A w \in Workers : Stock'[<<"queue", w>>] = KeysOf(workunit_queue'[w])
    /\ Stock'[<<"pool", NULL>>] = KeysOf(bundles')
  <1>1. \A p \in Spots : Stock'[p] = At(p)'
    BY DEF Stock, Spots
  <1>2. QED
    BY <1>1 DEF Spots, At

LEMMA SpotCases ==
    ASSUME NEW p \in Spots
    PROVE  \/ \E d \in Dividers : p = <<"division", d>>
           \/ \E s \in Senders : p = <<"hand", s>>
           \/ \E w \in Workers : p = <<"queue", w>>
           \/ p = <<"pool", NULL>>
  BY DEF Spots

LEMMA LiveOf ==
    /\ \A p \in Spots : Stock[p] \subseteq Live
    /\ \A k \in Live : \E p \in Spots : k \in Stock[p]
    /\ \A k \in Live : \/ \E d \in Dividers : k \in divide[d].keys
                       \/ \E s \in Senders : sender[s].pc = "queue" /\ k = sender[s].bundle.keys
                       \/ \E w \in Workers : k \in KeysOf(workunit_queue[w])
                       \/ k \in KeysOf(bundles)
  <1>1. \A p \in Spots : Stock[p] \subseteq Live
    BY DEF Live
  <1>2. \A k \in Live : \E p \in Spots : k \in Stock[p]
    BY DEF Live
  <1>3. ASSUME NEW k \in Live
        PROVE  \/ \E d \in Dividers : k \in divide[d].keys
               \/ \E s \in Senders : sender[s].pc = "queue" /\ k = sender[s].bundle.keys
               \/ \E w \in Workers : k \in KeysOf(workunit_queue[w])
               \/ k \in KeysOf(bundles)
    <2>1. PICK p \in Spots : k \in Stock[p]
      BY <1>2
    <2>2. CASE \E d \in Dividers : p = <<"division", d>>
      BY <2>1, <2>2, StockOf
    <2>3. CASE \E s \in Senders : p = <<"hand", s>>
      <3>1. PICK s \in Senders : p = <<"hand", s>>
        BY <2>3
      <3>2. k \in InHand(s)
        BY <2>1, <3>1, StockOf
      <3>3. QED
        BY <3>2 DEF InHand
    <2>4. CASE \E w \in Workers : p = <<"queue", w>>
      BY <2>1, <2>4, StockOf
    <2>5. CASE p = <<"pool", NULL>>
      BY <2>1, <2>5, StockOf
    <2>6. QED
      BY <2>2, <2>3, <2>4, <2>5, SpotCases
  <1>4. QED
    BY <1>1, <1>2, <1>3

(* The steps by what they do to the bundles.                                 *)
Unmoved ==
    /\ bundles' = bundles /\ workunit_queue' = workunit_queue
    /\ \A d \in Dividers : divide'[d].keys = divide[d].keys
    /\ \A s \in Senders : InHand(s)' = InHand(s)

HandsFull(s) == SenderTake(s) /\ bundles # <<>> /\ workers.first # NULL

LEMMA Movements ==
    ASSUME TypeInv, [Next]_vars
    PROVE  \/ Unmoved
           \/ \E d \in Dividers : DivideCount(d) \/ BundleEnqueue(d)
           \/ \E s \in Senders : HandsFull(s) \/ SenderQueue(s)
           \/ \E w \in Workers : EventPop(w) \/ CleanupRepool(w) \/ CleanupFree(w)
  <1> USE DEF pool, peers, files, tick, stop
  <1>0. Inv /\ Shape /\ Stocked /\ Main \in Dividers /\ Workers \subseteq Dividers
    BY DEF TypeInv, Typed, Inv, Main, Dividers
  <1>1. CASE UNCHANGED vars \/ Connect \/ MainExit
    BY <1>1 DEF vars, Connect, ConnectAccept, ConnectFaults, ConnectSettings, ConnectApplied,
                MainExit, Fault, Unmoved, InHand
  <1>2. ASSUME NEW kind, Fault(kind) PROVE Unmoved
    BY <1>2 DEF Fault, Unmoved, InHand
  <1>3. ASSUME NEW d \in Dividers, NEW p, divide' = [divide EXCEPT ![d].pc = p],
               UNCHANGED <<bundles, workunit_queue, sender>>
        PROVE  Unmoved
    <2>1. divide'[d].keys = divide[d].keys /\ \A e \in Dividers : e # d => divide'[e] = divide[e]
      BY <1>0, <1>3, DivideMoves
    <2>2. QED
      BY <1>3, <2>1 DEF Unmoved, InHand
  <1>4. CASE MainLaunch
    BY <1>0, <1>3, <1>4 DEF MainLaunch
  <1>5. ASSUME NEW d \in Dividers, DivideAssign(d) \/ BundlesJoined(d) PROVE Unmoved
    BY <1>3, <1>5 DEF DivideAssign, BundlesJoined
  <1>6. ASSUME NEW d \in Dividers, DivideCountsNone(d) \/ BundleFaults(d) PROVE Unmoved
    BY <1>2, <1>6 DEF DivideCountsNone, BundleFaults
  <1>7. ASSUME NEW d \in Dividers, BundlePost(d) PROVE Unmoved
    <2>1. PICK k : divide' = [divide EXCEPT ![d].posts = @ \ {k}]
      BY <1>7 DEF BundlePost
    <2>2. \A e \in Dividers : divide'[e].keys = divide[e].keys
      BY <1>0, <2>1 DEF Shape, Division
    <2>3. QED
      BY <1>7, <2>2 DEF BundlePost, Unmoved, InHand
  <1>8. ASSUME NEW s \in Senders, sender[s].pc # "queue", sender'[s].pc # "queue",
               \A t \in Senders : t # s => sender'[t] = sender[t],
               UNCHANGED <<bundles, workunit_queue, divide>>
        PROVE  Unmoved
    BY <1>8 DEF Unmoved, InHand
  <1>9. ASSUME NEW s \in Senders, SenderWait(s) \/ (SenderTake(s) /\ ~HandsFull(s)) PROVE Unmoved
    <2>1. PICK p \in {"take", "wait"} : sender' = [sender EXCEPT ![s].pc = p]
      BY <1>9 DEF SenderWait, SenderTake, HandsFull
    <2>2. sender'[s].pc = p /\ \A t \in Senders : t # s => sender'[t] = sender[t]
      BY <1>0, <2>1, SenderMoves
    <2>3. UNCHANGED <<bundles, workunit_queue, divide>> /\ sender[s].pc # "queue"
      BY <1>9 DEF SenderWait, SenderTake, HandsFull
    <2>4. QED
      BY <1>8, <2>2, <2>3
  <1>10. ASSUME NEW s \in Senders, SenderSend(s) \/ SenderReturn(s) PROVE Unmoved
    <2>1. sender'[s].pc # "queue" /\ \A t \in Senders : t # s => sender'[t] = sender[t]
      BY <1>0, <1>10 DEF SenderSend, SenderReturn, Shape, Hand
    <2>2. UNCHANGED <<bundles, workunit_queue, divide>> /\ sender[s].pc # "queue"
      BY <1>10 DEF SenderSend, SenderReturn
    <2>3. QED
      BY <1>8, <2>1, <2>2
  <1>11. ASSUME NEW s \in Senders, SenderFaults(s) PROVE Unmoved
    BY <1>2, <1>11 DEF SenderFaults
  <1>12. ASSUME NEW w \in Workers, AllBundlesDone(w) PROVE Unmoved
    <2>1. divide' = [divide EXCEPT ![w].pc = "assign"] \/ divide' = divide
      BY <1>12 DEF AllBundlesDone
    <2>2. UNCHANGED <<bundles, workunit_queue, sender>> /\ w \in Dividers
      BY <1>0, <1>12 DEF AllBundlesDone
    <2>3. divide' = divide => Unmoved
      BY <2>2 DEF Unmoved, InHand
    <2>4. QED
      BY <1>3, <2>1, <2>2, <2>3
  <1>13. ASSUME NEW w \in Workers,
                EventInvalid(w) \/ EventIntegrate(w) \/ EventFaults(w) \/ EventSave(w)
                \/ EventSaveFaults(w) \/ EventCount(w) \/ AllBundlesClose(w) \/ EventClosed(w)
                \/ WorkerDies(w) \/ CleanupPost(w) \/ CleanupFreeQueue(w) \/ CleanupUnlink(w)
         PROVE  Unmoved
    <2>1. UNCHANGED <<bundles, workunit_queue, sender, divide>>
      BY <1>13 DEF EventInvalid, EventIntegrate, EventFaults, EventSave, EventSaveFaults,
                   EventCount, AllBundlesClose, EventClosed, WorkerDies, CleanupPost,
                   CleanupFreeQueue, CleanupUnlink, Fault
    <2>2. QED
      BY <2>1 DEF Unmoved, InHand
  <1>14. QED
    BY <1>1, <1>4, <1>5, <1>6, <1>7, <1>9, <1>10, <1>11, <1>12, <1>13
    DEF Next, Divide, Sender, Event
-------------------------------------------------------------------------------
LEMMA UnmovedStock == Unmoved => Stock' = Stock /\ Live' = Live
  <1> SUFFICES ASSUME Unmoved PROVE Stock' = Stock
    BY DEF Live, Spots
  <1>1. ASSUME NEW p \in Spots PROVE Stock'[p] = Stock[p]
    <2>1. CASE \E d \in Dividers : p = <<"division", d>>
      BY <2>1, StockOf, StockAfter DEF Unmoved
    <2>2. CASE \E s \in Senders : p = <<"hand", s>>
      BY <2>2, StockOf, StockAfter DEF Unmoved
    <2>3. CASE \E w \in Workers : p = <<"queue", w>>
      BY <2>3, StockOf, StockAfter DEF Unmoved
    <2>4. CASE p = <<"pool", NULL>>
      BY <2>4, StockOf, StockAfter DEF Unmoved
    <2>5. QED
      BY <2>1, <2>2, <2>3, <2>4, SpotCases
  <1>2. Stock = [p \in Spots |-> Stock[p]] /\ Stock' = [p \in Spots |-> Stock'[p]]
    BY DEF Stock, Spots
  <1>3. QED
    BY <1>1, <1>2

(* What the moving steps change, place by place.                             *)
LEMMA StockChanges ==
    ASSUME NEW S, S \subseteq Spots,
           \A d \in Dividers : <<"division", d>> \notin S => divide'[d].keys = divide[d].keys,
           \A s \in Senders : <<"hand", s>> \notin S => InHand(s)' = InHand(s),
           \A w \in Workers : <<"queue", w>> \notin S => workunit_queue'[w] = workunit_queue[w],
           <<"pool", NULL>> \notin S => bundles' = bundles
    PROVE  \A p \in Spots : p \notin S => Stock'[p] = Stock[p]
  <1> SUFFICES ASSUME NEW p \in Spots, p \notin S PROVE Stock'[p] = Stock[p]
    OBVIOUS
  <1>1. CASE \E d \in Dividers : p = <<"division", d>>
    BY <1>1, StockOf, StockAfter
  <1>2. CASE \E s \in Senders : p = <<"hand", s>>
    BY <1>2, StockOf, StockAfter
  <1>3. CASE \E w \in Workers : p = <<"queue", w>>
    BY <1>3, StockOf, StockAfter
  <1>4. CASE p = <<"pool", NULL>>
    BY <1>4, StockOf, StockAfter
  <1>5. QED
    BY <1>1, <1>2, <1>3, <1>4, SpotCases

(* A step that moves a bundle leaves the same bundles about.                 *)
LEMMA MoveKeeps ==
    ASSUME OnePlace, NEW a \in Spots, NEW b \in Spots, a # b, NEW k \in Stock[a],
           Stock'[a] = Stock[a] \ {k}, Stock'[b] = Stock[b] \cup {k},
           \A p \in Spots : p \notin {a, b} => Stock'[p] = Stock[p],
           Distinct(bundles'), \A w \in Workers : Distinct(workunit_queue'[w])
    PROVE  OnePlace' /\ Live' = Live
  <1>1. /\ \A p, q \in Spots : p # q => Stock'[p] \cap Stock'[q] = {}
        /\ UNION {Stock'[p] : p \in Spots} = UNION {Stock[p] : p \in Spots}
    <2>1. \A p \in Spots : p # a /\ p # b => Stock'[p] = Stock[p]
      OBVIOUS
    <2>2. QED
      BY <2>1, MovedApart DEF OnePlace
  <1>2. QED
    BY <1>1 DEF Live, Spots, OnePlace

LEMMA EnqueueMoves ==
    ASSUME TypeInv, OnePlace, NEW d \in Dividers, BundleEnqueue(d)
    PROVE  OnePlace' /\ Live' = Live
  <1> USE DEF pool, peers, files, tick, stop
  <1>0. Inv /\ Shape /\ Stocked /\ bundles \in Seq(Sliced) /\ divide[d] \in Division
    BY DEF TypeInv, Typed, Inv, Shape, Stocked
  <1>1. PICK k \in divide[d].keys :
          /\ bundles' = Append(bundles, [tick |-> cells, keys |-> k]) /\ cells # 0
          /\ divide' = [divide EXCEPT ![d].keys = @ \ {k}, ![d].posts = @ \cup {k}]
          /\ UNCHANGED <<workunit_queue, sender>>
    BY DEF BundleEnqueue
  <1>2. divide'[d].keys = divide[d].keys \ {k} /\ \A e \in Dividers : e # d => divide'[e] = divide[e]
    BY <1>0, <1>1 DEF Shape, Division
  <1> DEFINE a == <<"division", d>>
             b == <<"pool", NULL>>
             new == [tick |-> cells, keys |-> k]
  <1>3. a \in Spots /\ b \in Spots /\ a # b /\ k \in Stock[a]
    BY <1>1, StockOf
  <1>4. k \notin Stock[b]
    BY <1>3 DEF OnePlace
  <1>5. new \in Sliced /\ new.keys = k
    <2>1. cells \in 1..TicksCnt /\ k \in Runs
      <3>1. cells \in 0..TicksCnt /\ k \in Runs
        BY <1>0, <1>1 DEF TypeInv, Typed, Ticking, Stocked
      <3>2. QED
        BY <1>1, <3>1, DispatcherAssumption
    <2>2. QED
      BY <2>1 DEF Sliced
  <1>6. k \notin KeysOf(bundles)
    BY <1>4, StockOf
  <1> HIDE DEF new
  <1>7. KeysOf(bundles') = KeysOf(bundles) \cup {k} /\ Distinct(bundles')
    BY <1>0, <1>1, <1>5, <1>6, KeysAppended DEF new, OnePlace
  <1>8. Stock'[a] = Stock[a] \ {k} /\ Stock'[b] = Stock[b] \cup {k}
    BY <1>2, <1>7, StockOf, StockAfter
  <1>9. \A p \in Spots : p \notin {a, b} => Stock'[p] = Stock[p]
    BY <1>1, <1>2, <1>3, StockChanges DEF InHand
  <1> HIDE DEF a, b
  <1>10. QED
    BY <1>1, <1>3, <1>7, <1>8, <1>9, MoveKeeps DEF OnePlace

LEMMA TakeMoves ==
    ASSUME TypeInv, OnePlace, NEW s \in Senders, HandsFull(s)
    PROVE  OnePlace' /\ Live' = Live
  <1> USE DEF pool, peers, files, tick, stop
  <1>0. Inv /\ Shape /\ Stocked /\ bundles \in Seq(Sliced) /\ bundles # <<>>
    BY DEF TypeInv, Typed, Inv, Stocked, HandsFull
  <1> DEFINE k == Head(bundles).keys
             a == <<"pool", NULL>>
             b == <<"hand", s>>
  <1>1. /\ sender' = [sender EXCEPT ![s] = [pc |-> "queue", link |-> workers.first,
                                            bundle |-> Head(bundles)]]
        /\ sender[s].pc = "take" /\ bundles' = Tail(bundles) /\ UNCHANGED <<workunit_queue, divide>>
    BY DEF HandsFull, SenderTake
  <1>2. InHand(s) = {} /\ InHand(s)' = {k} /\ \A t \in Senders : t # s => InHand(t)' = InHand(t)
    BY <1>0, <1>1 DEF InHand, Shape
  <1>3. a \in Spots /\ b \in Spots /\ a # b
    BY StockOf
  <1>4. k \in KeysOf(bundles) /\ KeysOf(bundles') = KeysOf(bundles) \ {k} /\ Distinct(bundles')
    BY <1>0, <1>1, KeysTaken DEF OnePlace
  <1> HIDE DEF k
  <1>5. k \in Stock[a] /\ Stock'[a] = Stock[a] \ {k} /\ Stock'[b] = Stock[b] \cup {k}
    BY <1>2, <1>4, StockOf, StockAfter
  <1>6. \A p \in Spots : p \notin {a, b} => Stock'[p] = Stock[p]
    <2>1. /\ {a, b} \subseteq Spots
          /\ \A t \in Senders : <<"hand", t>> \notin {a, b} => InHand(t)' = InHand(t)
          /\ \A d \in Dividers : divide'[d].keys = divide[d].keys
          /\ \A w \in Workers : workunit_queue'[w] = workunit_queue[w]
      BY <1>1, <1>2, <1>3
    <2>2. QED
      BY <2>1, StockChanges
  <1> HIDE DEF a, b
  <1>7. QED
    BY <1>1, <1>3, <1>4, <1>5, <1>6, MoveKeeps DEF OnePlace

LEMMA QueueMoves ==
    ASSUME TypeInv, OnePlace, NEW s \in Senders, SenderQueue(s)
    PROVE  OnePlace' /\ Live' = Live
  <1> USE DEF pool, peers, files, tick, stop
  <1>0. Inv /\ Shape /\ Stocked /\ workunit_queue \in [Workers -> Seq(Sliced)]
    BY DEF TypeInv, Typed, Inv, Stocked
  <1> DEFINE w == sender[s].link
             new == sender[s].bundle
             k == new.keys
             a == <<"hand", s>>
             b == <<"queue", w>>
  <1>1. /\ sender[s].pc = "queue" /\ sender' = [sender EXCEPT ![s].pc = "send"]
        /\ workunit_queue' = [workunit_queue EXCEPT ![w] = Append(@, new)]
        /\ UNCHANGED <<bundles, divide>>
    BY DEF SenderQueue
  <1>2. w \in Workers /\ new \in Sliced
    BY <1>0, <1>1 DEF Stocked
  <1>3. sender'[s].pc = "send" /\ \A t \in Senders : t # s => sender'[t] = sender[t]
    BY <1>0, <1>1, SenderMoves
  <1>4. InHand(s) = {k} /\ InHand(s)' = {} /\ \A t \in Senders : t # s => InHand(t)' = InHand(t)
    BY <1>1, <1>3 DEF InHand
  <1> HIDE DEF w, new, k
  <1>5. a \in Spots /\ b \in Spots /\ a # b
    BY <1>2, StockOf
  <1>6. k \in Stock[a] /\ k \notin Stock[b]
    <2>1. k \in Stock[a]
      BY <1>4, StockOf
    <2>2. QED
      BY <2>1, <1>5 DEF OnePlace
  <1>7. k \notin KeysOf(workunit_queue[w])
    BY <1>2, <1>6, StockOf
  <1>8. /\ KeysOf(workunit_queue'[w]) = KeysOf(workunit_queue[w]) \cup {k}
        /\ Distinct(workunit_queue'[w])
        /\ \A v \in Workers : v # w => workunit_queue'[v] = workunit_queue[v]
    <2>1. workunit_queue'[w] = Append(workunit_queue[w], new) /\ workunit_queue[w] \in Seq(Sliced)
      BY <1>0, <1>1, <1>2
    <2>2. QED
      BY <1>0, <1>1, <1>2, <1>7, <2>1, KeysAppended DEF OnePlace, k
  <1>9. Stock'[a] = Stock[a] \ {k} /\ Stock'[b] = Stock[b] \cup {k}
    BY <1>2, <1>4, <1>8, StockOf, StockAfter
  <1>10. \A p \in Spots : p \notin {a, b} => Stock'[p] = Stock[p]
    <2>1. /\ {a, b} \subseteq Spots
          /\ \A t \in Senders : <<"hand", t>> \notin {a, b} => InHand(t)' = InHand(t)
          /\ \A d \in Dividers : divide'[d].keys = divide[d].keys
          /\ \A v \in Workers : <<"queue", v>> \notin {a, b} => workunit_queue'[v] = workunit_queue[v]
          /\ bundles' = bundles
      BY <1>1, <1>4, <1>5, <1>8
    <2>2. QED
      BY <2>1, StockChanges
  <1> HIDE DEF a, b
  <1>11. Distinct(bundles') /\ \A v \in Workers : Distinct(workunit_queue'[v])
    BY <1>1, <1>8 DEF OnePlace
  <1>12. QED
    BY <1>5, <1>6, <1>9, <1>10, <1>11, MoveKeeps

LEMMA RepoolMoves ==
    ASSUME TypeInv, OnePlace, NEW w \in Workers, CleanupRepool(w)
    PROVE  OnePlace' /\ Live' = Live
  <1> USE DEF pool, peers, files, tick, stop
  <1>0. Inv /\ Shape /\ Stocked /\ bundles \in Seq(Sliced) /\ workunit_queue[w] \in Seq(Sliced)
    BY DEF TypeInv, Typed, Inv, Stocked
  <1> DEFINE new == Head(workunit_queue[w])
             k == new.keys
             a == <<"queue", w>>
             b == <<"pool", NULL>>
  <1>1. /\ workunit_queue[w] # <<>> /\ bundles' = Append(bundles, new)
        /\ workunit_queue' = [workunit_queue EXCEPT ![w] = Tail(@)]
        /\ UNCHANGED <<sender, divide>>
    BY DEF CleanupRepool
  <1>2. /\ workunit_queue'[w] = Tail(workunit_queue[w])
        /\ \A v \in Workers : v # w => workunit_queue'[v] = workunit_queue[v]
    BY <1>0, <1>1 DEF Stocked
  <1>3. /\ new \in Sliced /\ k \in KeysOf(workunit_queue[w])
        /\ KeysOf(workunit_queue'[w]) = KeysOf(workunit_queue[w]) \ {k}
        /\ Distinct(workunit_queue'[w])
    BY <1>0, <1>1, <1>2, KeysTaken DEF OnePlace
  <1> HIDE DEF new, k
  <1>4. a \in Spots /\ b \in Spots /\ a # b
    BY StockOf
  <1>5. k \in Stock[a] /\ k \notin Stock[b]
    <2>1. k \in Stock[a]
      BY <1>3, StockOf
    <2>2. QED
      BY <2>1, <1>4 DEF OnePlace
  <1>6. k \notin KeysOf(bundles)
    BY <1>5, StockOf
  <1>7. KeysOf(bundles') = KeysOf(bundles) \cup {k} /\ Distinct(bundles')
    BY <1>0, <1>1, <1>3, <1>6, KeysAppended DEF OnePlace, k
  <1>8. Stock'[a] = Stock[a] \ {k} /\ Stock'[b] = Stock[b] \cup {k}
    BY <1>3, <1>7, StockOf, StockAfter
  <1>9. \A p \in Spots : p \notin {a, b} => Stock'[p] = Stock[p]
    <2>1. /\ {a, b} \subseteq Spots
          /\ \A t \in Senders : InHand(t)' = InHand(t)
          /\ \A d \in Dividers : divide'[d].keys = divide[d].keys
          /\ \A v \in Workers : <<"queue", v>> \notin {a, b} => workunit_queue'[v] = workunit_queue[v]
      BY <1>1, <1>2, <1>4 DEF InHand
    <2>2. QED
      BY <2>1, StockChanges
  <1> HIDE DEF a, b
  <1>10. \A v \in Workers : Distinct(workunit_queue'[v])
    BY <1>2, <1>3 DEF OnePlace
  <1>11. QED
    BY <1>4, <1>5, <1>7, <1>8, <1>9, <1>10, MoveKeeps
-------------------------------------------------------------------------------
(* The steps that take bundles away, and the one that makes them.            *)
LEMMA ShrinkKeeps ==
    ASSUME OnePlace, \A p \in Spots : Stock'[p] \subseteq Stock[p],
           Distinct(bundles'), \A w \in Workers : Distinct(workunit_queue'[w])
    PROVE  OnePlace'
  <1>1. \A p, q \in Spots : p # q => Stock'[p] \cap Stock'[q] = {}
    BY DEF OnePlace
  <1>2. QED
    BY <1>1 DEF OnePlace, Spots

LEMMA PopTakes ==
    ASSUME TypeInv, OnePlace, NEW w \in Workers, EventPop(w)
    PROVE  /\ OnePlace'
           /\ workunit_queue[w] # <<>> =>
                 /\ Head(workunit_queue[w]).keys \in Live
                 /\ Live' = Live \ {Head(workunit_queue[w]).keys}
  <1> USE DEF pool, peers, files, tick, stop
  <1>0. workunit_queue \in [Workers -> Seq(Sliced)] /\ workunit_queue[w] \in Seq(Sliced)
    BY DEF TypeInv, Typed, Stocked
  <1>1. /\ workunit_queue' = [workunit_queue EXCEPT ![w] = IF @ = <<>> THEN @ ELSE Tail(@)]
        /\ UNCHANGED <<bundles, sender, divide>>
    BY DEF EventPop
  <1>2. \A v \in Workers : v # w => workunit_queue'[v] = workunit_queue[v]
    BY <1>0, <1>1
  <1>3. CASE workunit_queue[w] = <<>>
    <2>1. Unmoved
      BY <1>0, <1>1, <1>3 DEF Unmoved, InHand
    <2>2. QED
      BY <1>1, <1>2, <1>3, <2>1, UnmovedStock DEF OnePlace, Spots, Unmoved
  <1>4. CASE workunit_queue[w] # <<>>
    <2> DEFINE k == Head(workunit_queue[w]).keys
               a == <<"queue", w>>
    <2>1. workunit_queue'[w] = Tail(workunit_queue[w])
      BY <1>0, <1>1, <1>4
    <2>2. /\ k \in KeysOf(workunit_queue[w]) /\ Distinct(workunit_queue'[w])
          /\ KeysOf(workunit_queue'[w]) = KeysOf(workunit_queue[w]) \ {k}
      BY <1>0, <1>4, <2>1, KeysTaken DEF OnePlace
    <2> HIDE DEF k
    <2>3. a \in Spots /\ k \in Stock[a] /\ Stock'[a] = Stock[a] \ {k}
      BY <2>2, StockOf, StockAfter
    <2>4. \A p \in Spots : p \notin {a} => Stock'[p] = Stock[p]
      <3>1. /\ {a} \subseteq Spots /\ bundles' = bundles
            /\ \A t \in Senders : InHand(t)' = InHand(t)
            /\ \A d \in Dividers : divide'[d].keys = divide[d].keys
            /\ \A v \in Workers : <<"queue", v>> \notin {a} => workunit_queue'[v] = workunit_queue[v]
        BY <1>1, <1>2, <2>3 DEF InHand
      <3>2. QED
        BY <3>1, StockChanges
    <2> HIDE DEF a
    <2>5. Live' = Live \ {k} /\ k \in Live
      <3>1. \A p \in Spots : p # a => k \notin Stock[p]
        BY <2>3 DEF OnePlace
      <3>2. \A p \in Spots : Stock'[p] = Stock[p] \ {k}
        BY <2>3, <2>4, <3>1
      <3>3. UNION {Stock'[p] : p \in Spots} = (UNION {Stock[p] : p \in Spots}) \ {k}
        BY <3>2
      <3>4. QED
        BY <2>3, <3>3 DEF Live, Spots
    <2>6. OnePlace'
      <3>1. \A p \in Spots : Stock'[p] \subseteq Stock[p]
        BY <2>3, <2>4
      <3>2. Distinct(bundles') /\ \A v \in Workers : Distinct(workunit_queue'[v])
        BY <1>1, <1>2, <2>2 DEF OnePlace
      <3>3. QED
        BY <3>1, <3>2, ShrinkKeeps
    <2>7. QED
      BY <2>5, <2>6 DEF k
  <1>5. QED
    BY <1>3, <1>4

LEMMA FreeTakes ==
    ASSUME TypeInv, OnePlace, NEW w \in Workers, CleanupFree(w)
    PROVE  OnePlace'
  <1> USE DEF pool, peers, files, tick, stop
  <1>0. workunit_queue \in [Workers -> Seq(Sliced)]
    BY DEF TypeInv, Typed, Stocked
  <1>1. /\ workunit_queue'[w] = <<>> /\ UNCHANGED <<bundles, sender, divide>>
        /\ \A v \in Workers : v # w => workunit_queue'[v] = workunit_queue[v]
    BY <1>0 DEF CleanupFree
  <1>2. KeysOf(workunit_queue'[w]) = {} /\ Distinct(workunit_queue'[w])
    BY <1>1, EmptySeq DEF KeysOf, Distinct
  <1>3. \A p \in Spots : Stock'[p] \subseteq Stock[p]
    <2> DEFINE a == <<"queue", w>>
    <2>1. a \in Spots /\ Stock'[a] \subseteq Stock[a]
      BY <1>2, StockOf, StockAfter
    <2>2. \A p \in Spots : p \notin {a} => Stock'[p] = Stock[p]
      <3>1. /\ {a} \subseteq Spots /\ bundles' = bundles
            /\ \A t \in Senders : InHand(t)' = InHand(t)
            /\ \A d \in Dividers : divide'[d].keys = divide[d].keys
            /\ \A v \in Workers : <<"queue", v>> \notin {a} => workunit_queue'[v] = workunit_queue[v]
        BY <1>1, <2>1 DEF InHand
      <3>2. QED
        BY <3>1, StockChanges
    <2> HIDE DEF a
    <2>3. QED
      BY <2>1, <2>2
  <1>4. Distinct(bundles') /\ \A v \in Workers : Distinct(workunit_queue'[v])
    BY <1>1, <1>2 DEF OnePlace
  <1>5. QED
    BY <1>3, <1>4, ShrinkKeeps

LEMMA CountMakes ==
    ASSUME TypeInv, OnePlace, NEW d \in Dividers, DivideCount(d), Live = {}
    PROVE  OnePlace' /\ Live' = Slices(Leaves, CeilDiv(Leaves, workers.count))
                     /\ divide'[d].keys = Slices(Leaves, CeilDiv(Leaves, workers.count))
  <1> USE DEF pool, peers, files, tick, stop
  <1> DEFINE keys == Slices(Leaves, CeilDiv(Leaves, workers.count))
             a == <<"division", d>>
  <1>0. divide \in [Dividers -> Division]
    BY DEF TypeInv, Inv, Shape
  <1>1. divide' = [divide EXCEPT ![d] = [pc |-> "bundle", posts |-> {}, keys |-> keys]]
        /\ UNCHANGED <<bundles, workunit_queue, sender>>
    BY DEF DivideCount
  <1> HIDE DEF keys
  <1>2. divide'[d].keys = keys /\ \A e \in Dividers : e # d => divide'[e] = divide[e]
    BY <1>0, <1>1
  <1>3. a \in Spots /\ Stock'[a] = keys
    BY <1>2, StockOf, StockAfter
  <1>4. \A p \in Spots : p \notin {a} => Stock'[p] = {}
    <2>1. /\ {a} \subseteq Spots /\ bundles' = bundles
          /\ \A t \in Senders : InHand(t)' = InHand(t)
          /\ \A e \in Dividers : <<"division", e>> \notin {a} => divide'[e].keys = divide[e].keys
          /\ \A v \in Workers : workunit_queue'[v] = workunit_queue[v]
      BY <1>1, <1>2, <1>3 DEF InHand
    <2>2. \A p \in Spots : p \notin {a} => Stock'[p] = Stock[p]
      BY <2>1, StockChanges
    <2>3. \A p \in Spots : Stock[p] = {}
      BY LiveOf
    <2>4. QED
      BY <2>2, <2>3
  <1> HIDE DEF a
  <1>5. UNION {Stock'[p] : p \in Spots} = keys
    BY <1>3, <1>4
  <1>6. Live' = keys
    BY <1>5 DEF Live, Spots
  <1>7. \A p, q \in Spots : p # q => Stock'[p] \cap Stock'[q] = {}
    BY <1>4
  <1>8. OnePlace'
    BY <1>1, <1>7 DEF OnePlace, Spots
  <1>9. QED
    BY <1>2, <1>6, <1>8 DEF keys

(* Bundles stay apart unless somebody divides while there are bundles about. *)
LEMMA OnePlaceKeeps ==
    ASSUME TypeInv, OnePlace, [Next]_vars,
           \A d \in Dividers : DivideCount(d) => Live = {}
    PROVE  OnePlace'
  <1>1. CASE Unmoved
    BY <1>1, UnmovedStock DEF OnePlace, Spots, Unmoved
  <1>2. QED
    BY <1>1, Movements, EnqueueMoves, TakeMoves, QueueMoves, RepoolMoves, PopTakes, FreeTakes,
       CountMakes

LEMMA InitApart == Init => OnePlace /\ Live = {}
  <1> SUFFICES ASSUME Init PROVE OnePlace /\ Live = {}
    OBVIOUS
  <1>1. bundles = <<>> /\ \A w \in Workers : workunit_queue[w] = <<>>
    BY DEF Init
  <1>2. KeysOf(<<>>) = {} /\ Distinct(<<>>)
    BY EmptySeq DEF KeysOf, Distinct
  <1>3. Live = {}
    <2>1. (\A d \in Dividers : divide[d].keys = {}) /\ \A s \in Senders : sender[s].pc = "wait"
      BY DEF Init
    <2>2. QED
      BY <1>1, <1>2, <2>1, LiveOf
  <1>4. QED
    BY <1>1, <1>2, <1>3, LiveOf DEF OnePlace

LEMMA OnePlaceShows == OnePlace => BundleInOnePlace
  <1> SUFFICES ASSUME OnePlace, NEW b \in Bundles PROVE Cardinality(Places(b)) <= 1
    BY DEF BundleInOnePlace
  <1> DEFINE k == b.keys
  <1>1. ASSUME NEW x \in Places(b), NEW y \in Places(b) PROVE x = y
    <2>1. ASSUME NEW z \in Places(b)
          PROVE  \/ \E i \in DOMAIN bundles : z = <<"pool", i>> /\ bundles[i] = b
                 \/ \E s \in Senders : z = <<"sender", s>> /\ sender[s].pc = "queue"
                                                           /\ sender[s].bundle = b
                 \/ \E w \in Workers : \E i \in DOMAIN workunit_queue[w] :
                        z = <<w, i>> /\ workunit_queue[w][i] = b
      BY <2>1 DEF Places
    <2>2. /\ \A i \in DOMAIN bundles : bundles[i] = b => k \in Stock[<<"pool", NULL>>]
          /\ \A s \in Senders : sender[s].pc = "queue" /\ sender[s].bundle = b =>
                                    k \in Stock[<<"hand", s>>]
          /\ \A w \in Workers : \A i \in DOMAIN workunit_queue[w] :
                 workunit_queue[w][i] = b => k \in Stock[<<"queue", w>>]
      BY StockOf DEF KeysOf, InHand
    <2>3. \A p, q \in Spots : k \in Stock[p] /\ k \in Stock[q] => p = q
      BY DEF OnePlace
    <2> HIDE DEF k
    <2>4. CASE \E i \in DOMAIN bundles : x = <<"pool", i>> /\ bundles[i] = b
      <3>1. PICK i \in DOMAIN bundles : x = <<"pool", i>> /\ bundles[i] = b
        BY <2>4
      <3>2. \A s \in Senders : ~(sender[s].pc = "queue" /\ sender[s].bundle = b)
        BY <2>2, <2>3, <3>1, StockOf
      <3>3. \A w \in Workers : \A j \in DOMAIN workunit_queue[w] : workunit_queue[w][j] # b
        BY <2>2, <2>3, <3>1, StockOf
      <3>4. PICK j \in DOMAIN bundles : y = <<"pool", j>> /\ bundles[j] = b
        BY <2>1, <3>2, <3>3
      <3>5. i = j
        BY <3>1, <3>4 DEF OnePlace, Distinct
      <3>6. QED
        BY <3>1, <3>4, <3>5
    <2>5. CASE \E s \in Senders : x = <<"sender", s>> /\ sender[s].pc = "queue"
                                                      /\ sender[s].bundle = b
      <3>1. PICK s \in Senders : x = <<"sender", s>> /\ sender[s].pc = "queue"
                                                     /\ sender[s].bundle = b
        BY <2>5
      <3>2. \A i \in DOMAIN bundles : bundles[i] # b
        BY <2>2, <2>3, <3>1, StockOf
      <3>3. \A w \in Workers : \A j \in DOMAIN workunit_queue[w] : workunit_queue[w][j] # b
        BY <2>2, <2>3, <3>1, StockOf
      <3>4. PICK t \in Senders : y = <<"sender", t>> /\ sender[t].pc = "queue"
                                                     /\ sender[t].bundle = b
        BY <2>1, <3>2, <3>3
      <3>5. <<"hand", s>> = <<"hand", t>>
        BY <2>2, <2>3, <3>1, <3>4, StockOf
      <3>6. QED
        BY <3>1, <3>4, <3>5
    <2>6. CASE \E w \in Workers : \E i \in DOMAIN workunit_queue[w] :
                    x = <<w, i>> /\ workunit_queue[w][i] = b
      <3>0. PICK w \in Workers : \E i \in DOMAIN workunit_queue[w] :
                    x = <<w, i>> /\ workunit_queue[w][i] = b
        BY <2>6
      <3>1. PICK i \in DOMAIN workunit_queue[w] : x = <<w, i>> /\ workunit_queue[w][i] = b
        BY <3>0
      <3>2. \A j \in DOMAIN bundles : bundles[j] # b
        BY <2>2, <2>3, <3>1, StockOf
      <3>3. \A s \in Senders : ~(sender[s].pc = "queue" /\ sender[s].bundle = b)
        BY <2>2, <2>3, <3>1, StockOf
      <3>4. PICK v \in Workers : \E j \in DOMAIN workunit_queue[v] :
                    y = <<v, j>> /\ workunit_queue[v][j] = b
        BY <2>1, <3>2, <3>3
      <3>5. PICK j \in DOMAIN workunit_queue[v] : y = <<v, j>> /\ workunit_queue[v][j] = b
        BY <3>4
      <3>6. <<"queue", w>> = <<"queue", v>>
        BY <2>2, <2>3, <3>1, <3>5, StockOf
      <3>7. i = j
        BY <3>1, <3>5, <3>6 DEF OnePlace, Distinct
      <3>8. QED
        BY <3>1, <3>5, <3>6, <3>7
    <2>7. QED
      BY <2>1, <2>4, <2>5, <2>6
  <1>2. CASE Places(b) = {}
    BY <1>2, FS_EmptySet
  <1>3. CASE Places(b) # {}
    <2>1. PICK x : x \in Places(b)
      BY <1>3
    <2>2. Places(b) = {x}
      BY <1>1, <2>1
    <2>3. QED
      BY <2>2, FS_Singleton
  <1>4. QED
    BY <1>2, <1>3
-------------------------------------------------------------------------------
(* With one tick to do, only main divides, before there is any bundle.        *)
MainDivides == \A w \in Workers : divide[w].pc = "none"

LEMMA MainDividesKeeps == ASSUME TicksCnt = 1, TypeInv, MainDivides, [Next]_vars PROVE MainDivides'
  <1> USE DEF pool, peers, files, tick, stop
  <1>0. Inv /\ Shape /\ ticks_done \in Nat /\ Main \notin Workers /\ Workers \subseteq Dividers
    BY DispatcherAssumption DEF TypeInv, Typed, Ticking, Inv, Main, Dividers
  <1>1. ASSUME UNCHANGED divide PROVE MainDivides'
    BY <1>1 DEF MainDivides
  <1>2. CASE Connect \/ MainExit \/ UNCHANGED vars
    BY <1>1, <1>2 DEF vars, Connect, ConnectAccept, ConnectFaults, ConnectSettings,
                      ConnectApplied, MainExit, Fault
  <1>3. CASE MainLaunch
    BY <1>0, <1>3 DEF MainLaunch, MainDivides, Shape
  <1>4. ASSUME NEW d \in Dividers, Divide(d) PROVE MainDivides'
    <2>1. CASE DivideCountsNone(d) \/ BundleFaults(d)
      BY <1>1, <2>1 DEF DivideCountsNone, BundleFaults, Fault
    <2>2. CASE ~(DivideCountsNone(d) \/ BundleFaults(d))
      <3>1. divide[d].pc # "none" /\ \A e \in Dividers : e # d => divide'[e] = divide[e]
        BY <1>0, <1>4, <2>2 DEF Divide, DivideAssign, DivideCount, BundleEnqueue, BundlePost,
                                BundlesJoined, Shape
      <3>2. QED
        BY <1>0, <3>1 DEF MainDivides
    <2>3. QED
      BY <2>1, <2>2
  <1>5. ASSUME NEW s \in Senders, Sender(s) PROVE MainDivides'
    BY <1>1, <1>5 DEF Sender, SenderWait, SenderTake, SenderQueue, SenderSend, SenderReturn,
                      SenderFaults, Fault
  <1>6. ASSUME NEW w \in Workers, Event(w) \/ WorkerDies(w) PROVE MainDivides'
    <2>1. UNCHANGED divide
      <3>1. CASE AllBundlesDone(w)
        BY <1>0, <3>1 DEF AllBundlesDone
      <3>2. CASE ~AllBundlesDone(w)
        BY <1>6, <3>2 DEF Event, EventInvalid, EventIntegrate, EventFaults, EventSave,
              EventSaveFaults, EventPop, EventCount, AllBundlesClose, EventClosed, WorkerDies,
              CleanupRepool, CleanupPost, CleanupFreeQueue, CleanupUnlink, CleanupFree, Fault
      <3>3. QED
        BY <3>1, <3>2
    <2>2. QED
      BY <1>1, <2>1
  <1>7. QED
    BY <1>2, <1>3, <1>4, <1>5, <1>6 DEF Next

LEMMA IdleIsEmpty == TypeInv /\ Early => Live = {}
  <1> SUFFICES ASSUME TypeInv, Early PROVE Live = {}
    OBVIOUS
  <1>1. Idle
    BY DEF TypeInv, Typed, InTurn
  <1>2. KeysOf(<<>>) = {}
    BY EmptySeq DEF KeysOf
  <1>3. /\ KeysOf(bundles) = {} /\ \A w \in Workers : KeysOf(workunit_queue[w]) = {}
        /\ \A s \in Senders : sender[s].pc # "queue"
        /\ \A d \in Dividers : divide[d].keys = {}
    BY <1>1, <1>2 DEF Idle
  <1>4. QED
    BY <1>3, LiveOf

(* However workers join late or are lost in a simulation of one tick, their   *)
(* bundles return to the pool and go out again without a copy: a bundle is    *)
(* once in the pool, with one sender or once in the queue of one worker       *)
(* (sender_thread.c, cleanup_worker.c:18-27).                                 *)
THEOREM BundlesAreNotCopied ==
    ASSUME TicksCnt = 1
    PROVE  Spec => []BundleInOnePlace
  <1> DEFINE I == TypeInv /\ MainDivides /\ OnePlace
  <1>1. Init => I
    BY InitType, InitApart DEF Init, MainDivides, Dividers
  <1>2. I /\ [Next]_vars => I'
    <2> SUFFICES ASSUME I, [Next]_vars PROVE I'
      OBVIOUS
    <2>1. \A d \in Dividers : DivideCount(d) => Live = {}
      BY IdleIsEmpty DEF DivideCount, MainDivides, Early, Dividers
    <2>2. QED
      BY <2>1, StepType, MainDividesKeeps, OnePlaceKeeps
  <1>3. I => BundleInOnePlace
    BY OnePlaceShows
  <1>4. QED
    BY <1>1, <1>2, <1>3, PTL DEF Spec
-------------------------------------------------------------------------------
(* Who is in.  Settled is a simulation in which every worker is there         *)
(* before the launch and stays.                                              *)
Settled == ~LateJoin /\ MaxLosses = 0 /\ Workers # {}

LostPlaces == {"repool", "repost", "unlink", "free", "gone"}
Launched   == divide[Main].pc # "none"
Holders    == {s \in Senders : sender[s].pc \in {"queue", "send", "return"}}
Accepted   == {w \in Workers : event[w] # "absent" \/ (connect.pc # "accept" /\ connect.worker = w)}

(* Who is in: a worker's link is in the queue or in a sender's hand; nobody   *)
(* leaves; when main has launched everybody is in.                            *)
Admission ==
    /\ workers.count + Cardinality(Holders) = Cardinality(Accepted)
    /\ \A w \in Accepted : alive[w]
    /\ \A w \in Workers : event[w] \notin LostPlaces
    /\ freed \subseteq Sliced
    /\ ~Launched => sender_count = 0 /\ cells = 0
    /\ Launched => sender_count # 0 /\ Accepted = Workers /\ connect.pc = "accept"
    /\ \A w \in Workers : event[w] = "absent" =>
            \/ owes[w] = <<>>
            \/ connect.pc = "applied" /\ connect.worker = w /\ owes[w] = <<Settings>>
-------------------------------------------------------------------------------
LEMMA Groups ==
    /\ IsFiniteSet(Workers) /\ N \in Nat /\ (Settled => N >= 1)
    /\ IsFiniteSet(Holders) /\ Cardinality(Holders) \in Nat
    /\ IsFiniteSet(Accepted) /\ Cardinality(Accepted) \in Nat
    /\ Main \in Dividers /\ Main \notin Workers /\ Workers \subseteq Dividers
  <1>1. IsFiniteSet(Workers) /\ N \in Nat
    BY DispatcherAssumption, FS_CardinalityType DEF N
  <1>2. Workers # {} => N # 0
    BY <1>1, FS_EmptySet DEF N
  <1>3. IsFiniteSet(Senders)
    BY <1>1, FS_Interval DEF Senders, N
  <1>4. Holders \subseteq Senders /\ Accepted \subseteq Workers
    BY DEF Holders, Accepted
  <1>5. IsFiniteSet(Holders) /\ IsFiniteSet(Accepted)
    BY <1>1, <1>3, <1>4, FS_Subset
  <1>6. Cardinality(Holders) \in Nat /\ Cardinality(Accepted) \in Nat
    BY <1>5, FS_CardinalityType
  <1>7. QED
    BY <1>1, <1>2, <1>5, <1>6, DispatcherAssumption DEF Settled, Main, Dividers

(* A step in which nobody comes and no link changes hands.                   *)
LEMMA SameCompany ==
    ASSUME Admission, workers'.count = workers.count, Holders' = Holders, alive' = alive,
           UNCHANGED <<connect, sender_count>>, freed' \subseteq Sliced,
           Launched' <=> Launched, cells' = cells \/ Launched,
           \A w \in Workers : /\ event'[w] = "absent" <=> event[w] = "absent"
                              /\ event'[w] \notin LostPlaces
                              /\ event[w] = "absent" => owes'[w] = owes[w]
    PROVE  Admission'
  <1>1. Accepted' = Accepted
    BY DEF Accepted
  <1>2. QED
    BY <1>1 DEF Admission

LEMMA EverybodyIsIn ==
    ASSUME Admission, Launched
    PROVE  \A w \in Workers : event[w] # "absent" /\ alive[w]
  BY DEF Admission, Accepted

LEMMA ConnectAdmits == ASSUME Settled, TypeInv, Admission, Connect PROVE Admission'
  <1> USE DEF pool, peers, files, tick, stop
  <1>0. /\ Inv /\ Shape /\ workers \in LQ!Queues /\ event \in [Workers -> EventPlaces]
        /\ alive \in [Workers -> BOOLEAN] /\ owes \in [Workers -> Seq(Units \cup {Settings})]
        /\ workers.count \in Int
    BY DEF TypeInv, Typed, Peered, Inv, Shape, LQ!Queues
  <1>1. ASSUME NEW w \in Workers, ConnectAccept(w) PROVE Admission'
    <2>1. /\ connect.pc = "accept" /\ event[w] = "absent" /\ sender_count = 0
          /\ workers' = LQ!Enqueue(workers, w) /\ alive' = [alive EXCEPT ![w] = TRUE]
          /\ connect' = [pc |-> "settings", worker |-> w]
          /\ UNCHANGED <<sender, sender_count, event, owes, freed, divide, cells>>
      BY <1>1 DEF ConnectAccept, Joined, Settled
    <2>2. ~Launched /\ ~Launched'
      BY <2>1 DEF Admission, Launched
    <2>3. workers'.count = workers.count + 1
      BY <1>0, <2>1 DEF LQ!Enqueue, LQ!Queues
    <2>4. Accepted' = Accepted \cup {w} /\ w \notin Accepted /\ Holders' = Holders
      BY <2>1 DEF Accepted, Holders
    <2>5. Cardinality(Accepted') = Cardinality(Accepted) + 1
      BY <2>4, Groups, FS_AddElement
    <2>6. workers'.count + Cardinality(Holders') = Cardinality(Accepted')
      BY <1>0, <2>3, <2>4, <2>5, Groups DEF Admission
    <2>7. \A v \in Accepted' : alive'[v]
      BY <1>0, <2>1, <2>4 DEF Admission, Accepted
    <2>8. \A v \in Workers : event'[v] = "absent" => owes'[v] = <<>>
      BY <2>1 DEF Admission
    <2>9. QED
      BY <2>1, <2>2, <2>6, <2>7, <2>8 DEF Admission
  <1>2. ASSUME NEW w \in Workers, ConnectFaults(w) PROVE Admission'
    BY <1>2, SameCompany DEF ConnectFaults, Fault, Holders, Launched, Admission
  <1>3. CASE ConnectSettings
    <2> DEFINE w == connect.worker
    <2>1. /\ connect.pc = "settings" /\ w \in Workers /\ event[w] = "absent"
          /\ owes' = [owes EXCEPT ![w] = IF alive[w] THEN Append(@, Settings) ELSE @]
          /\ connect' = [connect EXCEPT !.pc = "applied"]
          /\ UNCHANGED <<workers, sender, sender_count, event, alive, freed, divide, cells>>
      BY <1>0, <1>3 DEF ConnectSettings, Inv, JoinsOnce
    <2>2. connect'.pc = "applied" /\ connect'.worker = w
      BY <1>0, <2>1 DEF Shape
    <2>3. ~Launched /\ ~Launched'
      BY <2>1 DEF Admission, Launched
    <2>4. Accepted' = Accepted /\ Holders' = Holders
      BY <2>1, <2>2 DEF Accepted, Holders
    <2>5. owes[w] = <<>>
      BY <2>1 DEF Admission
    <2>6. owes'[w] = <<Settings>> \/ owes'[w] = <<>>
      BY <1>0, <2>1, <2>5
    <2>7. \A v \in Workers : v # w => owes'[v] = owes[v]
      BY <1>0, <2>1
    <2>8. \A v \in Workers : event'[v] = "absent" =>
            \/ owes'[v] = <<>>
            \/ connect'.pc = "applied" /\ connect'.worker = v /\ owes'[v] = <<Settings>>
      BY <2>1, <2>2, <2>6, <2>7 DEF Admission
    <2>9. QED
      BY <2>1, <2>3, <2>4, <2>8 DEF Admission
  <1>4. CASE ConnectApplied
    <2> DEFINE w == connect.worker
    <2>1. /\ connect.pc = "applied" /\ w \in Workers /\ event[w] = "absent"
          /\ event' = [event EXCEPT ![w] = "receive"]
          /\ owes' = [owes EXCEPT ![w] = IF @ = <<>> THEN @ ELSE Tail(@)]
          /\ connect' = [pc |-> "accept", worker |-> NULL]
          /\ UNCHANGED <<workers, sender, sender_count, alive, freed, divide, cells>>
      BY <1>0, <1>4 DEF ConnectApplied, Inv, JoinsOnce
    <2>2. ~Launched /\ ~Launched'
      BY <2>1 DEF Admission, Launched
    <2>3. \A v \in Workers : event'[v] = IF v = w THEN "receive" ELSE event[v]
      BY <1>0, <2>1
    <2>4. Accepted' = Accepted /\ Holders' = Holders
      BY <2>1, <2>3 DEF Accepted, Holders
    <2>5. \A v \in Workers : v # w => owes'[v] = owes[v]
      BY <1>0, <2>1
    <2>6. \A v \in Workers : event'[v] = "absent" => owes'[v] = <<>>
      BY <2>1, <2>3, <2>5 DEF Admission
    <2>7. \A v \in Workers : event'[v] \notin LostPlaces
      BY <2>3 DEF Admission, LostPlaces
    <2>8. QED
      BY <2>1, <2>2, <2>4, <2>6, <2>7 DEF Admission
  <1>5. QED
    BY <1>1, <1>2, <1>3, <1>4 DEF Connect

LEMMA FaultAdmits == ASSUME Admission, NEW kind, Fault(kind) PROVE Admission'
  BY SameCompany DEF Fault, pool, peers, files, tick, stop, Holders, Launched, Admission

LEMMA MainAdmits == ASSUME Settled, TypeInv, Admission, MainLaunch \/ MainExit PROVE Admission'
  <1> USE DEF pool, peers, files, tick, stop
  <1>0. Inv /\ Shape /\ divide \in [Dividers -> Division]
    BY DEF TypeInv, Inv, Shape
  <1>1. CASE MainExit
    BY <1>1, SameCompany DEF MainExit, Holders, Launched, Admission
  <1>2. CASE MainLaunch
    <2>1. /\ divide[Main].pc = "none" /\ divide' = [divide EXCEPT ![Main].pc = "assign"]
          /\ \A w \in Workers : event[w] # "absent"
          /\ sender_count' = workers.count
          /\ UNCHANGED <<workers, sender, event, alive, owes, freed, connect, cells>>
      BY <1>2 DEF MainLaunch, Settled
    <2>2. ~Launched /\ Launched' /\ Idle
      <3>1. divide'[Main].pc = "assign"
        BY <1>0, <2>1, Groups, DivideMoves
      <3>2. QED
        BY <2>1, <3>1 DEF Launched, TypeInv, Typed, InTurn, Early
    <2>3. Accepted = Workers /\ connect.pc = "accept" /\ Accepted' = Accepted
      BY <1>0, <2>1 DEF Accepted, Inv, JoinsOnce
    <2>4. Holders = {} /\ Holders' = Holders
      BY <2>1, <2>2 DEF Idle, Holders
    <2>5. workers.count # 0
      <3>1. workers.count + Cardinality(Holders) = N /\ N >= 1 /\ workers.count \in Int
        BY <1>0, <2>3, Groups DEF Admission, N, Shape, LQ!Queues
      <3>2. QED
        BY <2>4, <3>1, FS_EmptySet
    <2>6. QED
      BY <2>1, <2>2, <2>3, <2>4, <2>5 DEF Admission
  <1>3. QED
    BY <1>1, <1>2

(* Only what main has launched is divided.                                   *)
LEMMA DividersLaunched ==
    ASSUME TypeInv, NEW d \in Dividers, divide[d].pc # "none"
    PROVE  Launched
  BY Groups DEF TypeInv, Typed, InTurn, Early, Idle, Launched, Dividers

LEMMA DivideAdmits == ASSUME Settled, TypeInv, Admission, NEW d \in Dividers, Divide(d) PROVE Admission'
  <1> USE DEF pool, peers, files, tick, stop
  <1>0. Inv /\ Shape /\ divide \in [Dividers -> Division] /\ event \in [Workers -> EventPlaces]
    BY DEF TypeInv, Inv, Shape
  <1>1. CASE DivideCountsNone(d) \/ BundleFaults(d)
    BY <1>1, FaultAdmits DEF DivideCountsNone, BundleFaults
  <1>2. CASE ~(DivideCountsNone(d) \/ BundleFaults(d))
    <2>1. /\ divide[d].pc # "none" /\ divide'[d].pc # "none"
          /\ \A e \in Dividers : e # d => divide'[e] = divide[e]
      <3>1. CASE DivideAssign(d) \/ BundlesJoined(d)
        <4>1. PICK p \in {"count", "done"} : divide' = [divide EXCEPT ![d].pc = p]
          BY <3>1 DEF DivideAssign, BundlesJoined
        <4>2. divide[d].pc # "none"
          BY <3>1 DEF DivideAssign, BundlesJoined
        <4>3. QED
          BY <1>0, <4>1, <4>2, DivideMoves
      <3>2. CASE DivideCount(d)
        BY <1>0, <3>2 DEF DivideCount
      <3>3. CASE BundleEnqueue(d) \/ BundlePost(d)
        <4>1. divide[d].pc = "bundle"
          BY <3>3 DEF BundleEnqueue, BundlePost
        <4>2. PICK x, y : divide' = [divide EXCEPT ![d].keys = x, ![d].posts = y]
          <5>1. CASE BundleEnqueue(d)
            BY <5>1 DEF BundleEnqueue
          <5>2. CASE BundlePost(d)
            <6>1. PICK y : divide' = [divide EXCEPT ![d].posts = y]
              BY <5>2 DEF BundlePost
            <6>2. divide' = [divide EXCEPT ![d].keys = divide[d].keys, ![d].posts = y]
              BY <1>0, <6>1 DEF Division
            <6>3. QED
              BY <6>2
          <5>3. QED
            BY <3>3, <5>1, <5>2
        <4>3. QED
          BY <1>0, <4>1, <4>2 DEF Division
      <3>4. QED
        BY <1>2, <3>1, <3>2, <3>3 DEF Divide
    <2>2. Launched /\ Launched'
      BY <2>1, DividersLaunched, Groups DEF Launched
    <2>3. /\ UNCHANGED <<workers, sender, alive, owes, freed, connect, sender_count>>
          /\ event' = event \/ (d \in Workers /\ event' = [event EXCEPT ![d] = "receive"])
      BY <1>2 DEF Divide, DivideAssign, DivideCount, BundleEnqueue, BundlePost, BundlesJoined,
                  Dividers
    <2>4. \A w \in Workers : event'[w] # "absent" /\ event'[w] \notin LostPlaces
      BY <1>0, <2>2, <2>3, EverybodyIsIn DEF Admission, LostPlaces
    <2>5. Holders' = Holders
      BY <2>3 DEF Holders
    <2>6. QED
      BY <2>2, <2>3, <2>4, <2>5, SameCompany, EverybodyIsIn DEF Admission
  <1>3. QED
    BY <1>1, <1>2

LEMMA SenderAdmits == ASSUME Settled, TypeInv, Admission, NEW s \in Senders, Sender(s) PROVE Admission'
  <1> USE DEF pool, peers, files, tick, stop
  <1>0. /\ Inv /\ Shape /\ sender \in [Senders -> Hand] /\ workers \in LQ!Queues
        /\ workers.count \in Int
    BY DEF TypeInv, Inv, Shape, LQ!Queues
  <1>1. CASE SenderFaults(s)
    BY <1>1, FaultAdmits DEF SenderFaults
  <1>2. ASSUME workers'.count = workers.count, Holders' = Holders,
               UNCHANGED <<event, alive, connect, sender_count, freed, divide, cells>>,
               \A w \in Workers : event[w] = "absent" => owes'[w] = owes[w]
        PROVE  Admission'
    BY <1>2, SameCompany DEF Launched, Admission
  <1>2a. ASSUME workers' = workers \/ (workers.first = NULL /\ workers' = LQ!PopLink(workers))
         PROVE  workers'.count = workers.count
    BY <1>0, <1>2a DEF LQ!PopLink, LQ!Queues
  <1>3. CASE SenderWait(s) \/ (SenderTake(s) /\ ~HandsFull(s))
    <2>1. PICK p \in {"take", "wait"} : sender' = [sender EXCEPT ![s].pc = p]
      BY <1>3 DEF SenderWait, SenderTake, HandsFull
    <2>2. sender'[s].pc = p /\ \A t \in Senders : t # s => sender'[t] = sender[t]
      BY <1>0, <2>1, SenderMoves
    <2>3. sender[s].pc \in {"wait", "take"}
      BY <1>3 DEF SenderWait, SenderTake
    <2>4. Holders' = Holders
      BY <2>2, <2>3 DEF Holders
    <2>5. workers' = workers \/ (workers.first = NULL /\ workers' = LQ!PopLink(workers))
      BY <1>3 DEF SenderWait, SenderTake, HandsFull
    <2>6. QED
      BY <1>2, <1>2a, <1>3, <2>4, <2>5 DEF SenderWait, SenderTake
  <1>4. CASE HandsFull(s)
    <2>1. /\ sender[s].pc = "take" /\ workers.first # NULL
          /\ sender' = [sender EXCEPT ![s] = [pc |-> "queue", link |-> workers.first,
                                              bundle |-> Head(bundles)]]
          /\ workers' = LQ!PopLink(workers)
          /\ UNCHANGED <<event, alive, owes, connect, sender_count, freed, divide, cells>>
      BY <1>4 DEF HandsFull, SenderTake
    <2>2. Holders' = Holders \cup {s} /\ s \notin Holders
      BY <1>0, <2>1 DEF Holders
    <2>3. Cardinality(Holders') = Cardinality(Holders) + 1
      BY <2>2, Groups, FS_AddElement
    <2>4. workers'.count = workers.count - 1
      BY <1>0, <2>1 DEF LQ!PopLink, LQ!Queues
    <2>5. Accepted' = Accepted /\ (Launched' <=> Launched)
      BY <2>1 DEF Accepted, Launched
    <2>6. workers'.count + Cardinality(Holders') = Cardinality(Accepted')
      BY <1>0, <2>3, <2>4, <2>5, Groups DEF Admission
    <2>7. QED
      BY <2>1, <2>5, <2>6 DEF Admission
  <1>5. CASE SenderQueue(s)
    <2>1. sender' = [sender EXCEPT ![s].pc = "send"] /\ sender[s].pc = "queue"
      BY <1>5 DEF SenderQueue
    <2>2. sender'[s].pc = "send" /\ \A t \in Senders : t # s => sender'[t] = sender[t]
      BY <1>0, <2>1, SenderMoves
    <2>3. Holders' = Holders
      BY <2>1, <2>2 DEF Holders
    <2>4. QED
      BY <1>2, <1>5, <2>3 DEF SenderQueue
  <1>6. CASE SenderSend(s)
    <2>1. /\ sender[s].pc = "send" /\ sender'[s].pc = "return"
          /\ \A t \in Senders : t # s => sender'[t] = sender[t]
      BY <1>0, <1>6 DEF SenderSend, Hand
    <2>2. Holders' = Holders
      BY <2>1 DEF Holders
    <2>3. Launched
      BY <2>1 DEF TypeInv, Typed, InTurn, Early, Idle, Launched
    <2>4. QED
      BY <1>2, <1>6, <2>2, <2>3, EverybodyIsIn DEF SenderSend
  <1>7. CASE SenderReturn(s)
    <2>1. /\ sender[s].pc = "return"
          /\ sender' = [sender EXCEPT ![s] = [pc |-> "wait", link |-> NULL, bundle |-> NULL]]
          /\ workers' = LQ!Enqueue(workers, sender[s].link)
          /\ UNCHANGED <<event, alive, owes, connect, sender_count, freed, divide, cells>>
      BY <1>7 DEF SenderReturn
    <2>2. Holders' = Holders \ {s} /\ s \in Holders
      BY <1>0, <2>1 DEF Holders
    <2>3. Cardinality(Holders') = Cardinality(Holders) - 1
      BY <2>2, Groups, FS_RemoveElement
    <2>4. workers'.count = workers.count + 1
      BY <1>0, <2>1 DEF LQ!Enqueue, LQ!Queues
    <2>5. Accepted' = Accepted /\ (Launched' <=> Launched)
      BY <2>1 DEF Accepted, Launched
    <2>6. workers'.count + Cardinality(Holders') = Cardinality(Accepted')
      BY <1>0, <2>3, <2>4, <2>5, Groups DEF Admission
    <2>7. QED
      BY <2>1, <2>5, <2>6 DEF Admission
  <1>8. QED
    BY <1>1, <1>3, <1>4, <1>5, <1>6, <1>7 DEF Sender

LEMMA EventAdmits ==
    ASSUME Settled, TypeInv, Admission, NEW w \in Workers, Event(w) \/ WorkerDies(w)
    PROVE  Admission'
  <1> USE DEF pool, peers, files, tick, stop
  <1>0. /\ Inv /\ Shape /\ event \in [Workers -> EventPlaces] /\ Main \notin Workers
        /\ owes \in [Workers -> Seq(Units \cup {Settings})] /\ losses \in Nat
    BY Groups, DispatcherAssumption DEF TypeInv, Typed, Peered, Inv, Shape
  <1>1. ~WorkerDies(w)
    BY <1>0 DEF WorkerDies, Settled
  <1>2. event[w] \notin LostPlaces
    BY DEF Admission
  <1>3. ~EventClosed(w)
    <2> SUFFICES ASSUME event[w] = "receive" PROVE alive[w]
      BY DEF EventClosed
    <2>1. w \in Accepted
      BY DEF Accepted
    <2>2. QED
      BY <2>1 DEF Admission
  <1>4. ~(CleanupRepool(w) \/ CleanupPost(w) \/ CleanupFreeQueue(w) \/ CleanupUnlink(w) \/ CleanupFree(w))
    BY <1>2 DEF LostPlaces, CleanupRepool, CleanupPost, CleanupFreeQueue, CleanupUnlink, CleanupFree
  <1>5. CASE EventFaults(w) \/ EventSaveFaults(w)
    BY <1>5, FaultAdmits DEF EventFaults, EventSaveFaults
  <1>6. CASE EventInvalid(w) \/ EventIntegrate(w) \/ EventSave(w) \/ EventPop(w) \/ EventCount(w)
             \/ AllBundlesClose(w) \/ AllBundlesDone(w)
    <2>1. event[w] # "absent"
      BY <1>6 DEF EventInvalid, EventIntegrate, EventSave, EventPop, EventCount, AllBundlesClose,
                  AllBundlesDone
    <2>2. PICK p \in EventPlaces \ (LostPlaces \cup {"absent"}) : event' = [event EXCEPT ![w] = p]
      <3>1. CASE EventInvalid(w)
        <4>1. event' = [event EXCEPT ![w] = "receive"]
          BY <1>0, <3>1 DEF EventInvalid
        <4>2. QED
          BY <4>1 DEF EventPlaces, LostPlaces
      <3>2. CASE EventIntegrate(w) \/ EventSave(w) \/ EventPop(w) \/ EventCount(w)
        BY <3>2 DEF EventIntegrate, EventSave, EventPop, EventCount, EventPlaces, LostPlaces
      <3>3. CASE AllBundlesClose(w) \/ AllBundlesDone(w)
        BY <3>3 DEF AllBundlesClose, AllBundlesDone, EventPlaces, LostPlaces
      <3>4. QED
        BY <1>6, <3>1, <3>2, <3>3
    <2>3. /\ UNCHANGED <<workers, sender, alive, connect, sender_count>>
          /\ \A v \in Workers : v # w => owes'[v] = owes[v]
      BY <1>0, <1>6 DEF EventInvalid, EventIntegrate, EventSave, EventPop, EventCount,
                        AllBundlesClose, AllBundlesDone
    <2>4. freed' \subseteq Sliced
      <3>1. CASE EventPop(w)
        <4>1. workunit_queue[w] \in Seq(Sliced)
          BY DEF TypeInv, Typed, Stocked
        <4>2. workunit_queue[w] # <<>> => Head(workunit_queue[w]) \in Sliced
          BY <4>1, KeysTaken
        <4>3. QED
          BY <3>1, <4>2 DEF EventPop, Admission
      <3>2. CASE ~EventPop(w)
        BY <1>6, <3>2 DEF EventInvalid, EventIntegrate, EventSave, EventCount, AllBundlesClose,
                          AllBundlesDone, Admission
      <3>3. QED
        BY <3>1, <3>2
    <2>5. (Launched' <=> Launched) /\ (cells' = cells \/ Launched)
      <3>1. CASE AllBundlesDone(w)
        <4>1. divide'[Main] = divide[Main]
          BY <1>0, <3>1, Groups DEF AllBundlesDone, Shape
        <4>2. Launched
          BY <3>1 DEF AllBundlesDone, TypeInv, Typed, InTurn, Early, Idle, EarlyPlaces, Launched
        <4>3. QED
          BY <4>1, <4>2 DEF Launched
      <3>2. CASE ~AllBundlesDone(w)
        BY <1>6, <3>2 DEF EventInvalid, EventIntegrate, EventSave, EventPop, EventCount,
                          AllBundlesClose, Launched
      <3>3. QED
        BY <3>1, <3>2
    <2>6. Holders' = Holders
      BY <2>3 DEF Holders
    <2>7. \A v \in Workers : /\ event'[v] = "absent" <=> event[v] = "absent"
                             /\ event'[v] \notin LostPlaces
                             /\ event[v] = "absent" => owes'[v] = owes[v]
      BY <1>0, <2>1, <2>2, <2>3 DEF Admission
    <2>8. QED
      BY <2>3, <2>4, <2>5, <2>6, <2>7, SameCompany
  <1>7. QED
    BY <1>1, <1>3, <1>4, <1>5, <1>6 DEF Event

LEMMA AdmissionKeeps == ASSUME Settled, TypeInv, Admission, [Next]_vars PROVE Admission'
  <1>1. CASE UNCHANGED vars
    BY <1>1, SameCompany DEF vars, pool, peers, files, tick, stop, Holders, Launched, Admission
  <1>2. QED
    BY <1>1, ConnectAdmits, MainAdmits, DivideAdmits, SenderAdmits, EventAdmits DEF Next
===============================================================================
