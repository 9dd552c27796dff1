------------------------- MODULE DispatcherTickProofs -------------------------
(***************************************************************************)
(* Whole ticks, with all workers there from the launch to the end.           *)
(*                                                                          *)
(* First the accounts of a tick, over any number of ticks, as long as none   *)
(* of the dispatcher's Mishaps has happened: its bundles are                 *)
(* as many as its workers, each is counted, about to be counted or           *)
(* somewhere; a worker's queue has a bundle for each last result it owes;    *)
(* and every cell has its result or has it coming.  So when all are counted  *)
(* nothing of the tick is left anywhere, and every result is in.             *)
(*                                                                          *)
(* Then, for one tick, whose turn it is.  The list of idle workers does not  *)
(* stay a list: a link that is given back carries an old next with it        *)
(* (LinkedQueue), so a walk from the first link may go round.  What is kept  *)
(* is the front of it: the workers that were there when the bundles were     *)
(* sized, in their order, less those that have had their turn.  There are as *)
(* many of them as bundles to send, so within the tick no sender reaches a   *)
(* link that was given back; hence nobody is held twice and nobody gets two  *)
(* bundles.                                                                  *)
(*                                                                          *)
(* Last, that within one tick no cell is forgotten, whichever results are    *)
(* flagged: a cell goes from place to place and is never between them.       *)
(***************************************************************************)
EXTENDS DispatcherProofs

(* The ledger of a tick: of its N bundles, so many are counted, so many are   *)
(* about to be, so many are still about.  Nobody divides while any is.        *)
Counting  == {w \in Workers : event[w] = "done"}
Assigning == \E d \in Dividers : divide[d].pc \in {"assign", "count"}

Ledger ==
    /\ bundles_done + Cardinality(Counting) + Cardinality(Live) <= N
    /\ cells = 0 \/ Assigning => /\ Live = {} /\ Counting = {} /\ bundles_done = 0
                                 /\ \A b \in freed : b.tick <= ticks_done
    /\ \A w \in Workers : event[w] \in {"all_done", "reopen"} => bundles_done = N
    /\ cells # 0 => total_bundles = N /\ cells = ticks_done + 1
    /\ \A d \in Dividers : divide[d].pc = "count" => cells # 0
    /\ \A d \in Dividers : divide[d].pc = "assign" => cells = 0

(* Everything about is of the current tick, and what was freed is not about. *)
Current ==
    /\ \A i \in DOMAIN bundles : bundles[i].tick = cells
    /\ \A s \in Senders : sender[s].pc \in {"queue", "send"} => sender[s].bundle.tick = cells
    /\ \A w \in Workers : \A i \in DOMAIN workunit_queue[w] : workunit_queue[w][i].tick = cells
    /\ \A w \in Workers : event[w] # "absent" =>
            \A i \in DOMAIN owes[w] : owes[w][i] \in Units /\ owes[w][i].tick = cells
    /\ \A b \in freed : b.tick <= ticks_done \/ (b.tick = cells /\ b.keys \notin Live)

(* A worker's queue has one bundle for each last result it owes, is about to  *)
(* owe, or whose event thread has and has not popped the bundle for.          *)
Closes(unit) == unit.type = "WORK_UNIT_DONE" /\ unit.ends
EndsIn(q)    == {i \in DOMAIN q : Closes(q[i])}
Sending(w)   == {s \in Senders : sender[s].pc = "send" /\ sender[s].link = w}
Pending(w)   == IF event[w] \in {"save_last", "pop"} THEN 1 ELSE 0
Last(q)      == q[Len(q)]

Answered ==
    /\ \A w \in Workers : Cardinality(EndsIn(owes[w])) + Pending(w) + Cardinality(Sending(w))
                            = Len(workunit_queue[w])
    /\ \A w \in Workers : event[w] # "absent" /\ owes[w] # <<>> => Closes(owes[w][Len(owes[w])])
    /\ \A w \in Workers : event[w] = "save" => owes[w] # <<>>
    /\ \A s \in Senders : sender[s].pc = "send" =>
          /\ workunit_queue[sender[s].link] # <<>>
          /\ Last(workunit_queue[sender[s].link]) = sender[s].bundle

(* No worker is in two hands, and in none when the bundles are sized.        *)
Handed ==
    /\ \A s, t \in Senders : s # t /\ sender[s].link = sender[t].link => sender[s].link = NULL
    /\ (\E d \in Dividers : divide[d].pc = "count") => Holders = {}

(* The result of every cell is there or is coming.                           *)
Coming(c) ==
    \/ \E d \in Dividers : \E k \in divide[d].keys : c \in k
    \/ \E i \in DOMAIN bundles : c \in bundles[i].keys
    \/ \E s \in Senders : sender[s].pc \in {"queue", "send"} /\ c \in sender[s].bundle.keys
    \/ \E w \in Workers : Owed(w, c)
Whole == cells # 0 /\ ~Assigning => \A c \in CellIds : new_dataset[c] = cells \/ Coming(c)

(* The open file is that of the current tick, and what is not yet written is  *)
(* of the current tick.                                                      *)
Files ==
    /\ \A w \in Workers : unsaved[w] # 0 => /\ event[w] \in {"save", "save_last"}
                                            /\ unsaved[w] = cells
    /\ Launched /\ ticks_done < TicksCnt /\ (\A w \in Workers : event[w] # "reopen") =>
            fp = ticks_done + 1
    /\ ticks_done <= TicksCnt /\ (exit_sem > 0 => ticks_done = TicksCnt)
    /\ cells # 0 => ticks_done < TicksCnt

TickInv == /\ TypeInv /\ OnePlace /\ Admission /\ Handed
           /\ Ledger /\ Current /\ Answered /\ Whole /\ Files
-------------------------------------------------------------------------------
LEMMA EndsCounted ==
    \A q \in Seq(Units \cup {Settings}) : IsFiniteSet(EndsIn(q)) /\ Cardinality(EndsIn(q)) \in Nat
  <1> SUFFICES ASSUME NEW q \in Seq(Units \cup {Settings})
      PROVE IsFiniteSet(EndsIn(q)) /\ Cardinality(EndsIn(q)) \in Nat
    OBVIOUS
  <1>1. EndsIn(q) \subseteq 1..Len(q) /\ Len(q) \in Nat
    BY LenProperties DEF EndsIn
  <1>2. IsFiniteSet(1..Len(q))
    BY <1>1, FS_Interval
  <1>3. QED
    BY <1>1, <1>2, FS_Subset, FS_CardinalityType

(* A result is taken off what a worker owes.                                 *)
LEMMA EndsTaken ==
    ASSUME NEW q \in Seq(Units \cup {Settings}), q # <<>>
    PROVE  /\ Closes(Head(q)) => Cardinality(EndsIn(q)) = Cardinality(EndsIn(Tail(q))) + 1
           /\ ~Closes(Head(q)) => Cardinality(EndsIn(q)) = Cardinality(EndsIn(Tail(q)))
           /\ Tail(q) # <<>> => Tail(q)[Len(Tail(q))] = q[Len(q)]
           /\ Tail(q) = <<>> => q[Len(q)] = Head(q)
  <1>1. /\ Len(q) \in Nat /\ Len(q) >= 1 /\ DOMAIN q = 1..Len(q) /\ Head(q) = q[1]
        /\ Tail(q) \in Seq(Units \cup {Settings}) /\ Len(Tail(q)) = Len(q) - 1
        /\ DOMAIN Tail(q) = 1..(Len(q) - 1) /\ \A i \in 1..(Len(q) - 1) : Tail(q)[i] = q[i + 1]
    BY HeadTailProperties, LenProperties, EmptySeq
  <1> DEFINE A == EndsIn(q)
             B == EndsIn(Tail(q))
             C == A \ {1}
             f == [i \in B |-> i + 1]
  <1>2. B \subseteq 1..(Len(q) - 1) /\ C \subseteq 2..Len(q)
    BY <1>1 DEF EndsIn
  <1>3. \A i \in B : i + 1 \in C
    BY <1>1 DEF EndsIn
  <1>4. \A j \in C : j - 1 \in B /\ (j - 1) + 1 = j
    <2> SUFFICES ASSUME NEW j \in C PROVE j - 1 \in B /\ (j - 1) + 1 = j
      OBVIOUS
    <2>1. j \in 2..Len(q) /\ Closes(q[j])
      BY <1>2 DEF EndsIn
    <2>2. j - 1 \in 1..(Len(q) - 1) /\ (j - 1) + 1 = j
      BY <1>1, <2>1
    <2>3. Tail(q)[j - 1] = q[j]
      BY <1>1, <2>2
    <2>4. QED
      BY <1>1, <2>1, <2>2, <2>3 DEF EndsIn
  <1>5. IsFiniteSet(A) /\ IsFiniteSet(B) /\ Cardinality(A) \in Nat /\ Cardinality(B) \in Nat
    BY <1>1, EndsCounted
  <1>6. f \in Bijection(B, C)
    <2>1. f \in [B -> C]
      BY <1>3
    <2>2. \A i, j \in B : f[i] = f[j] => i = j
      BY <1>2
    <2>3. \A j \in C : \E i \in B : f[i] = j
      BY <1>4
    <2> HIDE DEF B, C, f
    <2>4. QED
      BY <2>1, <2>2, <2>3 DEF Bijection, Injection, Surjection, IsInjective
  <1>7. Cardinality(C) = Cardinality(B)
    <2>1. IsFiniteSet(B) /\ f \in Bijection(B, C)
      BY <1>5, <1>6
    <2> HIDE DEF B, C, f
    <2>2. QED
      BY <2>1, FS_Bijection DEF ExistsBijection
  <1>8. Closes(Head(q)) => Cardinality(A) = Cardinality(B) + 1
    <2> SUFFICES ASSUME Closes(Head(q)) PROVE Cardinality(A) = Cardinality(B) + 1
      OBVIOUS
    <2>1. 1 \in A
      BY <1>1 DEF EndsIn
    <2>2. Cardinality(C) = Cardinality(A) - 1
      BY <1>5, <2>1, FS_RemoveElement
    <2>3. QED
      BY <1>5, <1>7, <2>2
  <1>9. ~Closes(Head(q)) => Cardinality(A) = Cardinality(B)
    <2> SUFFICES ASSUME ~Closes(Head(q)) PROVE C = A
      BY <1>7
    <2>1. 1 \notin A
      BY <1>1 DEF EndsIn
    <2>2. QED
      BY <2>1
  <1>10. /\ Tail(q) # <<>> => Tail(q)[Len(Tail(q))] = q[Len(q)]
         /\ Tail(q) = <<>> => q[Len(q)] = Head(q)
    <2>1. Tail(q) = <<>> => Len(q) = 1
      <3> SUFFICES ASSUME Tail(q) = <<>> PROVE Len(q) = 1
        OBVIOUS
      <3>1. Len(Tail(q)) = 0
        BY EmptySeq
      <3>2. QED
        BY <1>1, <3>1
    <2>2. Tail(q) # <<>> => Len(q) - 1 >= 1
      BY <1>1, EmptySeq
    <2>3. QED
      BY <1>1, <2>1, <2>2
  <1>11. QED
    BY <1>8, <1>9, <1>10

(* The answers to a bundle are added to what a worker owes.                  *)
LEMMA EndsAdded ==
    ASSUME NEW q \in Seq(Units \cup {Settings}), NEW k \in Runs, NEW t \in 1..TicksCnt
    PROVE  LET more == q \o Answers(k, t) IN
           /\ more \in Seq(Units \cup {Settings}) /\ more # <<>>
           /\ Cardinality(EndsIn(more)) = Cardinality(EndsIn(q)) + 1
           /\ Closes(more[Len(more)])
           /\ \A i \in DOMAIN more : (i \in DOMAIN q /\ more[i] = q[i])
                                     \/ (more[i] \in Units /\ more[i].tick = t)
           /\ \A i \in DOMAIN q : i \in DOMAIN more /\ more[i] = q[i]
           /\ \A c \in k : \E i \in DOMAIN more : more[i].id = c
                                                  /\ more[i].type = "WORK_UNIT_DONE"
  <1> DEFINE a == Answers(k, t)
             n == Cardinality(k)
             more == q \o a
             m == Len(q)
  <1>1. /\ a \in Seq(Units) /\ Len(a) = n /\ n \in Nat \ {0}
        /\ \A i \in 1..n : /\ a[i] \in Units /\ a[i].tick = t /\ a[i].type = "WORK_UNIT_DONE"
                           /\ (a[i].ends <=> i = n)
        /\ \A c \in k : \E i \in 1..n : a[i].id = c
    BY AnswersType
  <1> HIDE DEF a, n
  <1>2. m \in Nat /\ DOMAIN q = 1..m
    BY LenProperties
  <1> HIDE DEF m
  <1>3. a \in Seq(Units \cup {Settings})
    <2>1. Seq(Units) \subseteq Seq(Units \cup {Settings})
      OBVIOUS
    <2>2. QED
      BY <1>1, <2>1
  <1>4. /\ more \in Seq(Units \cup {Settings}) /\ Len(more) = m + n /\ DOMAIN more = 1..(m + n)
        /\ \A i \in 1..(m + n) : more[i] = IF i <= m THEN q[i] ELSE a[i - m]
    BY <1>1, <1>2, <1>3 DEF m
  <1> HIDE DEF more
  <1>5. \A i \in 1..n : m + i \in 1..(m + n) /\ more[m + i] = a[i]
    <2> SUFFICES ASSUME NEW i \in 1..n PROVE m + i \in 1..(m + n) /\ more[m + i] = a[i]
      OBVIOUS
    <2>1. m + i \in 1..(m + n) /\ ~(m + i <= m) /\ (m + i) - m = i
      BY <1>1, <1>2
    <2>2. QED
      BY <1>4, <2>1
  <1>6. \A i \in 1..(m + n) : i \in 1..m \/ (i - m \in 1..n /\ more[i] = a[i - m] /\ ~(i \in 1..m))
    BY <1>1, <1>2, <1>4
  <1>7. \A i \in 1..m : i \in 1..(m + n) /\ more[i] = q[i]
    BY <1>1, <1>2, <1>4
  <1>8. EndsIn(more) = EndsIn(q) \cup {m + n} /\ m + n \notin EndsIn(q)
    <2>1. \A i \in 1..n : Closes(a[i]) <=> i = n
      BY <1>1 DEF Closes
    <2>2. \A i \in 1..(m + n) : i \notin 1..m => (Closes(more[i]) <=> i = m + n)
      <3> SUFFICES ASSUME NEW i \in 1..(m + n), i \notin 1..m
          PROVE Closes(more[i]) <=> i = m + n
        OBVIOUS
      <3>1. i - m \in 1..n /\ more[i] = a[i - m]
        BY <1>6
      <3>2. Closes(more[i]) <=> i - m = n
        BY <2>1, <3>1
      <3>3. QED
        BY <1>1, <1>2, <3>2
    <2>3. m + n \in 1..(m + n) /\ m + n \notin 1..m
      BY <1>1, <1>2
    <2>4. \A i \in 1..m : Closes(more[i]) <=> Closes(q[i])
      BY <1>7
    <2>5. QED
      BY <1>2, <1>4, <1>7, <2>2, <2>3, <2>4 DEF EndsIn
  <1>9. Cardinality(EndsIn(more)) = Cardinality(EndsIn(q)) + 1
    BY <1>8, EndsCounted, FS_AddElement
  <1>10. more # <<>> /\ Closes(more[Len(more)])
    <2>1. m + n \in EndsIn(more)
      BY <1>8
    <2>2. QED
      BY <1>4, <2>1, EmptySeq DEF EndsIn
  <1>11. \A i \in DOMAIN more : (i \in DOMAIN q /\ more[i] = q[i])
                                \/ (more[i] \in Units /\ more[i].tick = t)
    BY <1>1, <1>2, <1>4, <1>6, <1>7
  <1>12. \A c \in k : \E i \in DOMAIN more : more[i].id = c /\ more[i].type = "WORK_UNIT_DONE"
    <2> SUFFICES ASSUME NEW c \in k
        PROVE \E i \in DOMAIN more : more[i].id = c /\ more[i].type = "WORK_UNIT_DONE"
      OBVIOUS
    <2>1. PICK i \in 1..n : a[i].id = c
      BY <1>1
    <2>2. a[i].type = "WORK_UNIT_DONE" /\ m + i \in DOMAIN more /\ more[m + i] = a[i]
      BY <1>1, <1>4, <1>5
    <2>3. QED
      BY <2>1, <2>2
  <1>13. QED
    BY <1>2, <1>4, <1>7, <1>9, <1>10, <1>11, <1>12 DEF more, a
-------------------------------------------------------------------------------
(* One thread at a time is about to make the bundles of a tick.              *)
LEMMA OneAssigns ==
    ASSUME TypeInv, NEW d \in Dividers, NEW e \in Dividers,
           divide[d].pc \in {"assign", "count"}, divide[e].pc \in {"assign", "count"}
    PROVE  d = e
  <1>1. OneDivides /\ (Early => Idle)
    BY DEF TypeInv, Typed, InTurn
  <1>2. CASE d \in Workers /\ e \in Workers
    BY <1>1, <1>2 DEF OneDivides, Busy
  <1>3. CASE d = Main \/ e = Main
    BY <1>1, <1>3, Groups DEF Early, Idle, Dividers
  <1>4. QED
    BY <1>2, <1>3 DEF Dividers

(* The bundles about are a finite set.                                       *)
LEMMA LiveCounted == TypeInv => IsFiniteSet(Live) /\ Cardinality(Live) \in Nat /\ Live \subseteq Runs
  <1> SUFFICES ASSUME TypeInv PROVE IsFiniteSet(Live) /\ Live \subseteq Runs
    BY FS_CardinalityType
  <1>1. \A q \in Seq(Sliced) : KeysOf(q) \subseteq Runs
    <2> SUFFICES ASSUME NEW q \in Seq(Sliced), NEW i \in DOMAIN q PROVE q[i].keys \in Runs
      BY DEF KeysOf
    <2>1. q[i] \in Sliced
      BY LenProperties
    <2>2. QED
      BY <2>1 DEF Sliced
  <1>2. /\ bundles \in Seq(Sliced) /\ workunit_queue \in [Workers -> Seq(Sliced)]
        /\ \A d \in Dividers : divide[d].keys \subseteq Runs
        /\ \A s \in Senders : sender[s].pc = "queue" => sender[s].bundle.keys \in Runs
    BY DEF TypeInv, Typed, Stocked, Sliced
  <1>3. Live \subseteq Runs
    BY <1>1, <1>2, LiveOf
  <1>4. IsFiniteSet(KeySets)
    <2>1. IsFiniteSet(CellIds)
      BY DispatcherAssumption, FS_Interval DEF CellIds
    <2>2. QED
      BY <2>1, FS_SUBSET DEF KeySets
  <1>5. QED
    BY <1>3, <1>4, RunsAreKeys, FS_Subset

(* A worker that owes anything owes the last result of a bundle it was sent.  *)
LEMMA OwesForBundle ==
    ASSUME TypeInv, Answered, NEW w \in Workers,
           \/ event[w] # "absent" /\ owes[w] # <<>>
           \/ event[w] \in {"save", "save_last", "pop"}
           \/ \E s \in Senders : sender[s].pc = "send" /\ sender[s].link = w
    PROVE  workunit_queue[w] # <<>> /\ KeysOf(workunit_queue[w]) # {}
  <1> DEFINE q == owes[w]
             n == Cardinality(EndsIn(q))
             m == Cardinality(Sending(w))
  <1>0. q \in Seq(Units \cup {Settings}) /\ workunit_queue[w] \in Seq(Sliced)
    BY DEF TypeInv, Typed, Peered, Stocked
  <1>00. workunit_queue[w] # <<>> => KeysOf(workunit_queue[w]) # {}
    BY <1>0, KeysTaken
  <1>1. IsFiniteSet(EndsIn(q)) /\ n \in Nat
    BY <1>0, EndsCounted
  <1>2. IsFiniteSet(Sending(w)) /\ m \in Nat
    <2>1. Sending(w) \subseteq Holders
      BY DEF Sending, Holders
    <2>2. QED
      BY <2>1, Groups, FS_Subset, FS_CardinalityType
  <1>3. n + Pending(w) + m = Len(workunit_queue[w]) /\ Pending(w) \in {0, 1}
    BY DEF Answered, Pending
  <1>4. CASE event[w] \in {"save_last", "pop"}
    <2>1. Pending(w) = 1
      BY <1>4 DEF Pending
    <2> HIDE DEF n, m
    <2>2. Len(workunit_queue[w]) >= 1
      BY <1>1, <1>2, <1>3, <2>1
    <2>3. QED
      BY <1>00, <2>2, EmptySeq
  <1>5. CASE (event[w] # "absent" /\ q # <<>>) \/ event[w] = "save"
    <2>1. q # <<>> /\ Closes(q[Len(q)])
      BY <1>5 DEF Answered
    <2>2. Len(q) \in DOMAIN q
      BY <1>0, <2>1, LenProperties, EmptySeq
    <2>3. Len(q) \in EndsIn(q)
      BY <2>1, <2>2 DEF EndsIn
    <2>4. n # 0
      BY <1>1, <2>3, FS_EmptySet
    <2> HIDE DEF n, m
    <2>5. Len(workunit_queue[w]) >= 1
      BY <1>1, <1>2, <1>3, <2>4
    <2>6. QED
      BY <1>00, <2>5, EmptySeq
  <1>6. CASE \E s \in Senders : sender[s].pc = "send" /\ sender[s].link = w
    <2>1. workunit_queue[w] # <<>>
      BY <1>6 DEF Answered
    <2>2. QED
      BY <1>00, <2>1
  <1>7. QED
    BY <1>4, <1>5, <1>6

(* When no bundle is about, no thread has anything of the tick in hand.      *)
LEMMA NothingLeft ==
    ASSUME TickInv, Launched, Live = {}
    PROVE  /\ bundles = <<>>
           /\ \A d \in Dividers : divide[d].keys = {}
           /\ \A s \in Senders : sender[s].pc \notin {"queue", "send"}
           /\ \A w \in Workers : /\ workunit_queue[w] = <<>> /\ owes[w] = <<>>
                                 /\ event[w] \notin {"absent", "save", "save_last", "pop"}
                                 /\ unsaved[w] = 0
  <1>0. /\ TypeInv /\ Answered /\ Admission /\ bundles \in Seq(Sliced)
        /\ workunit_queue \in [Workers -> Seq(Sliced)] /\ unsaved \in [Workers -> 0..TicksCnt]
    BY DEF TickInv, TypeInv, Typed, Stocked, Ticking
  <1>1. \A p \in Spots : Stock[p] = {}
    BY LiveOf
  <1>2. \A q \in Seq(Sliced) : KeysOf(q) = {} => q = <<>>
    BY KeysTaken
  <1>3. bundles = <<>> /\ (\A d \in Dividers : divide[d].keys = {})
        /\ \A s \in Senders : sender[s].pc # "queue"
    BY <1>0, <1>1, <1>2, StockOf DEF InHand
  <1>4. \A w \in Workers : workunit_queue[w] = <<>>
    BY <1>0, <1>1, <1>2, StockOf
  <1>5. \A w \in Workers : /\ event[w] \notin {"absent", "save", "save_last", "pop"}
                           /\ owes[w] = <<>>
                           /\ \A s \in Senders : ~(sender[s].pc = "send" /\ sender[s].link = w)
    BY <1>0, <1>4, OwesForBundle, EverybodyIsIn
  <1>6. \A s \in Senders : sender[s].pc \notin {"queue", "send"}
    <2>1. \A s \in Senders : sender[s].pc = "send" => sender[s].link \in Workers
      BY <1>0 DEF TypeInv, Typed, Stocked
    <2>2. QED
      BY <1>3, <1>5, <2>1
  <1>7. \A w \in Workers : unsaved[w] = 0
    BY <1>5 DEF TickInv, Files
  <1>8. QED
    BY <1>3, <1>4, <1>5, <1>6, <1>7

(* When no sender has a worker in hand they are all in the queue.            *)
LEMMA AllAreIdle ==
    ASSUME TickInv, Launched, Holders = {}
    PROVE  workers.count = N
  <1>1. workers.count + 0 = N
    BY FS_EmptySet DEF TickInv, Admission, N
  <1>2. workers.count \in Int
    BY DEF TickInv, TypeInv, Inv, Shape, LQ!Queues
  <1>3. QED
    BY <1>1, <1>2

LEMMA HandsAreEmpty ==
    ASSUME TickInv, \A s \in Senders : sender[s].link = NULL
    PROVE  Holders = {}
  <1>1. \A s \in Senders : sender[s].pc \notin {"queue", "send", "return"}
    BY DispatcherAssumption DEF TickInv, TypeInv, Typed, Stocked
  <1>2. QED
    BY <1>1 DEF Holders

(* The thread that ends a tick finds all of it done.                         *)
LEMMA TickIsThrough ==
    ASSUME Settled, TickInv, NEW w \in Workers, event[w] \in {"all_done", "reopen"}
    PROVE  /\ bundles_done = N /\ Live = {} /\ Counting = {} /\ ~Assigning /\ Launched
           /\ cells = ticks_done + 1 /\ ticks_done < TicksCnt
  <1>1. bundles_done = N /\ N \in Nat /\ N >= 1
    BY Groups DEF TickInv, Ledger
  <1>2. ~(cells = 0 \/ Assigning)
    BY <1>1 DEF TickInv, Ledger
  <1>3. IsFiniteSet(Counting) /\ Cardinality(Counting) \in Nat
    <2>1. Counting \subseteq Workers
      BY DEF Counting
    <2>2. QED
      BY <2>1, Groups, FS_Subset, FS_CardinalityType
  <1>4. IsFiniteSet(Live) /\ Cardinality(Live) \in Nat
    BY LiveCounted DEF TickInv
  <1>5. Cardinality(Counting) = 0 /\ Cardinality(Live) = 0
    <2>1. bundles_done + Cardinality(Counting) + Cardinality(Live) <= N
      BY DEF TickInv, Ledger
    <2>2. QED
      BY <1>1, <1>3, <1>4, <2>1
  <1>6. Counting = {} /\ Live = {}
    BY <1>3, <1>4, <1>5, FS_EmptySet
  <1>7. cells = ticks_done + 1 /\ ticks_done < TicksCnt
    BY <1>2 DEF TickInv, Ledger, Files
  <1>8. Launched
    BY <1>2 DEF TickInv, Admission
  <1>9. QED
    BY <1>1, <1>2, <1>6, <1>7, <1>8
-------------------------------------------------------------------------------
(* The bundles of a division: at most one for each worker counted, and every  *)
(* leaf in one of them.                                                      *)
LEMMA Quotient ==
    ASSUME NEW i \in Nat, NEW b \in Nat \ {0}
    PROVE  /\ i \div b \in Nat /\ i % b \in 0..(b - 1)
           /\ b * (i \div b) + (i % b) = i
  OBVIOUS

LEMMA Multiple ==
    ASSUME NEW m \in Nat, NEW b \in Nat \ {0}
    PROVE  (b * m) % b = 0
  <1> DEFINE q == (b * m) \div b
             r == (b * m) % b
             d == m - q
  <1>1. b * m \in Nat
    OBVIOUS
  <1>2. q \in Nat /\ r \in 0..(b - 1) /\ b * q + r = b * m
    BY <1>1, Quotient
  <1> HIDE DEF q, r
  <1>3. d \in Int /\ m = q + d
    BY <1>2
  <1> HIDE DEF d
  <1>4. b * m = b * q + b * d /\ b * d \in Int
    BY <1>2, <1>3
  <1>5. r = b * d
    BY <1>1, <1>2, <1>4
  <1>6. d >= 1 => b * d >= b
    BY <1>3
  <1>7. d <= -1 => b * d <= -b
    BY <1>3
  <1>8. d = 0
    BY <1>2, <1>3, <1>5, <1>6, <1>7
  <1>9. r = 0
    BY <1>5, <1>8
  <1>10. QED
    BY <1>9 DEF r

LEMMA SlicesCover ==
    ASSUME NEW lpb \in Nat \ {0}
    PROVE  \A c \in CellIds : \E k \in Slices(Leaves, lpb) : c \in k
  <1> SUFFICES ASSUME NEW c \in CellIds PROVE \E k \in Slices(Leaves, lpb) : c \in k
    OBVIOUS
  <1> DEFINE r == c % lpb
             start == c - r
             last == IF start + lpb < Leaves THEN start + lpb - 1 ELSE Leaves - 1
  <1>1. c \in Nat /\ c <= Leaves - 1 /\ Leaves \in Nat
    BY DispatcherAssumption DEF CellIds
  <1>2. r \in 0..(lpb - 1) /\ start = lpb * (c \div lpb) /\ c \div lpb \in Nat
    <2> DEFINE m == c \div lpb
               p == lpb * m
    <2>1. m \in Nat /\ r \in 0..(lpb - 1) /\ p + r = c
      BY <1>1, Quotient
    <2>2. p \in Nat
      BY <2>1
    <2> HIDE DEF p
    <2>3. start = p
      BY <1>1, <2>1, <2>2
    <2>4. QED
      BY <2>1, <2>3 DEF p
  <1>3. start \in 0..(Leaves - 1) /\ start <= c
    BY <1>1, <1>2
  <1>4. start % lpb = 0
    BY <1>2, Multiple
  <1>5. c \in start..last
    BY <1>1, <1>2, <1>3
  <1> HIDE DEF r
  <1>6. start..last \in Slices(Leaves, lpb)
    BY <1>3, <1>4 DEF Slices
  <1>7. QED
    BY <1>5, <1>6

LEMMA SlicesEnough ==
    ASSUME NEW n \in Nat \ {0}
    PROVE  LET slices == Slices(Leaves, CeilDiv(Leaves, n))
           IN  IsFiniteSet(slices) /\ Cardinality(slices) <= n /\ Cardinality(slices) \in Nat
  <1> DEFINE b == CeilDiv(Leaves, n)
             slice(start) == start..(IF start + b < Leaves THEN start + b - 1 ELSE Leaves - 1)
             slices == Slices(Leaves, b)
             f == [j \in 1..n |-> slice(b * (j - 1))]
             image == {f[j] : j \in 1..n}
  <1>1. b \in Nat \ {0} /\ Leaves \in Nat
    BY CeilDivPositive, DispatcherAssumption
  <1>2. n * b >= Leaves
    <2>1. Leaves + n - 1 \in Nat
      BY <1>1
    <2>2. n * ((Leaves + n - 1) \div n) + ((Leaves + n - 1) % n) = Leaves + n - 1
          /\ (Leaves + n - 1) % n \in 0..(n - 1)
      BY <2>1, Quotient
    <2> DEFINE r == (Leaves + n - 1) % n
               p == n * b
    <2>3. p + r = Leaves + n - 1 /\ r \in 0..(n - 1) /\ p \in Int
      BY <1>1, <2>2 DEF CeilDiv
    <2> HIDE DEF r, p
    <2>4. p >= Leaves
      BY <1>1, <2>3
    <2>5. QED
      BY <2>4 DEF p
  <1>3. slices = {slice(start) : start \in {i \in 0..(Leaves - 1) : i % b = 0}}
    BY DEF Slices
  <1> HIDE DEF b, slices
  <1>4. ASSUME NEW i \in 0..(Leaves - 1), i % b = 0
        PROVE  \E j \in 1..n : i = b * (j - 1)
    <2> DEFINE m == i \div b
    <2>1. i \in Nat /\ m \in Nat /\ b * m = i
      BY <1>1, <1>4, Quotient
    <2> HIDE DEF m
    <2>2. m < n
      <3> SUFFICES ASSUME m >= n PROVE FALSE
        BY <2>1
      <3>1. b * m >= b * n
        <4>1. m = n + (m - n) /\ m - n \in Nat
          BY <2>1
        <4>2. b * (m - n) \in Nat /\ b * m = b * n + b * (m - n)
          BY <1>1, <2>1, <4>1
        <4>3. QED
          BY <1>1, <2>1, <4>2
      <3>2. i >= Leaves
        BY <1>1, <1>2, <2>1, <3>1
      <3>3. QED
        BY <1>1, <3>2
    <2>3. m + 1 \in 1..n /\ (m + 1) - 1 = m
      BY <2>1, <2>2
    <2>4. QED
      BY <2>1, <2>3
  <1> HIDE DEF slice
  <1>5. slices \subseteq image
    BY <1>3, <1>4
  <1>6. f \in Surjection(1..n, image)
    BY DEF Surjection
  <1>7. IsFiniteSet(1..n) /\ Cardinality(1..n) = n
    BY FS_Interval
  <1> HIDE DEF f, image
  <1>8. IsFiniteSet(image) /\ Cardinality(image) <= n
    BY <1>6, <1>7, FS_Surjection DEF ExistsSurjection
  <1>9. IsFiniteSet(slices) /\ Cardinality(slices) <= Cardinality(image)
    BY <1>5, <1>8, FS_Subset
  <1>10. Cardinality(slices) \in Nat /\ Cardinality(image) \in Nat
    BY <1>8, <1>9, FS_CardinalityType
  <1>11. QED
    BY <1>8, <1>9, <1>10 DEF slices, b
-------------------------------------------------------------------------------
(* Before the division for the first tick there is nothing of any tick.      *)
Rest == Ledger /\ Current /\ Answered /\ Whole /\ Files

Fresh ==
    /\ divide[Main].pc \in {"none", "assign"} /\ cells = 0
    /\ bundles_done = 0 /\ ticks_done = 0 /\ freed = {} /\ exit_sem = 0
    /\ \A w \in Workers : unsaved[w] = 0 /\ event[w] \in {"absent", "receive"}
                          /\ (event[w] = "receive" => owes[w] = <<>>)
    /\ Launched => fp = 1

LEMMA FreshGivesRest == TypeInv /\ Admission /\ Fresh => Rest
  <1> SUFFICES ASSUME TypeInv, Admission, Fresh PROVE Rest
    OBVIOUS
  <1>1. Early /\ Idle /\ Live = {}
    BY IdleIsEmpty DEF Fresh, Early, TypeInv, Typed, InTurn
  <1>2. /\ bundles = <<>> /\ \A w \in Workers : workunit_queue[w] = <<>>
        /\ \A d \in Dividers : divide[d].keys = {} /\ divide[d].pc # "count"
        /\ \A s \in Senders : sender[s].pc \notin {"queue", "send", "return"}
    BY <1>1 DEF Idle, Fresh, Dividers
  <1>3. Ledger
    <2>1. Counting = {}
      BY DEF Fresh, Counting
    <2>2. 0 + Cardinality(Counting) + Cardinality(Live) <= N
      BY <1>1, <2>1, Groups, FS_EmptySet
    <2>3. QED
      BY <1>1, <1>2, <2>1, <2>2 DEF Fresh, Ledger
  <1>4. Current
    BY <1>2, EmptySeq DEF Fresh, Current
  <1>5. Answered
    <2>1. \A w \in Workers : owes[w] = <<>> \/ owes[w] = <<Settings>>
      BY DEF Fresh, Admission
    <2>2. EndsIn(<<>>) = {} /\ EndsIn(<<Settings>>) = {}
      BY DEF EndsIn, Closes, Settings
    <2>3. \A w \in Workers : EndsIn(owes[w]) = {} /\ Sending(w) = {} /\ Pending(w) = 0
      BY <1>2, <2>1, <2>2 DEF Sending, Pending, Fresh
    <2>4. \A w \in Workers : Cardinality(EndsIn(owes[w])) + Pending(w) + Cardinality(Sending(w))
                               = Len(workunit_queue[w])
      <3> SUFFICES ASSUME NEW w \in Workers
          PROVE Cardinality(EndsIn(owes[w])) + Pending(w) + Cardinality(Sending(w))
                    = Len(workunit_queue[w])
        OBVIOUS
      <3>1. Cardinality(EndsIn(owes[w])) = 0 /\ Cardinality(Sending(w)) = 0
        BY <2>3, FS_EmptySet
      <3>2. Len(workunit_queue[w]) = 0
        BY <1>2, EmptySeq
      <3>3. QED
        BY <2>3, <3>1, <3>2
    <2>5. QED
      BY <1>2, <2>4 DEF Answered, Fresh
  <1>6. Whole
    BY DEF Fresh, Whole
  <1>7. Files
    BY DispatcherAssumption DEF Fresh, Files
  <1>8. QED
    BY <1>3, <1>4, <1>5, <1>6, <1>7 DEF Rest

LEMMA FreshGivesRestNext == TypeInv' /\ Admission' /\ Fresh' => Rest'
  BY FreshGivesRest, PTL

LEMMA RestIsFresh == TickInv /\ ~Launched => Fresh
  <1> SUFFICES ASSUME TickInv, ~Launched PROVE Fresh
    OBVIOUS
  <1>0. TypeInv /\ Admission /\ Ledger /\ Current /\ Answered /\ Files
    BY DEF TickInv
  <1>1. divide[Main].pc = "none" /\ Idle /\ cells = 0 /\ ticks_done = 0
    BY <1>0 DEF Launched, TypeInv, Typed, InTurn, Early, Idle, Admission
  <1>2. bundles_done = 0 /\ freed = {}
    <2>1. \A b \in freed : b \in Sliced /\ b.tick <= 0
      BY <1>0, <1>1 DEF Ledger, Admission
    <2>2. \A b \in Sliced : b.tick \in 1..TicksCnt
      BY DEF Sliced
    <2>3. QED
      BY <1>0, <1>1, <2>1, <2>2, DispatcherAssumption DEF Ledger
  <1>3. exit_sem = 0
    <2>1. exit_sem \in Nat
      BY <1>0 DEF TypeInv, Typed, Ticking
    <2>2. exit_sem > 0 => ticks_done = TicksCnt
      BY <1>0 DEF Files
    <2>3. QED
      BY <1>1, <2>1, <2>2, DispatcherAssumption
  <1>4. \A w \in Workers : event[w] \in {"absent", "receive"} /\ unsaved[w] = 0
    BY <1>0, <1>1 DEF Idle, EarlyPlaces, Admission, LostPlaces, Files
  <1>5. ASSUME NEW w \in Workers, event[w] = "receive" PROVE owes[w] = <<>>
    <2>1. workunit_queue[w] = <<>>
      BY <1>1 DEF Idle
    <2>2. QED
      BY <1>0, <1>5, <2>1, OwesForBundle
  <1>6. QED
    BY <1>1, <1>2, <1>3, <1>4, <1>5 DEF Fresh

(* A step that none of these is about.                                       *)
Still ==
    /\ UNCHANGED <<bundles, workunit_queue, owes, freed, event, new_dataset, cells,
                   total_bundles, bundles_done, ticks_done, files>>
    /\ \A d \in Dividers : divide'[d].pc = divide[d].pc /\ divide'[d].keys = divide[d].keys
    /\ \A s \in Senders : \/ sender'[s] = sender[s]
                          \/ /\ sender[s].pc \notin {"queue", "send"}
                             /\ sender'[s].pc \in {"wait", "take"}
    /\ exit_sem' > 0 => exit_sem > 0

LEMMA SameLedger ==
    ASSUME Ledger, Live' = Live,
           UNCHANGED <<cells, total_bundles, bundles_done, ticks_done, freed>>,
           \A d \in Dividers : divide'[d].pc = divide[d].pc \/ divide'[d].pc \notin {"assign", "count"},
           \A w \in Workers : /\ event'[w] = "done" <=> event[w] = "done"
                              /\ event'[w] \in {"all_done", "reopen"} => bundles_done = N
    PROVE  Ledger'
  <1>1. Counting' = Counting /\ (Assigning' => Assigning)
    BY DEF Counting, Assigning
  <1>2. N' = N
    BY DEF N
  <1>3. QED
    BY <1>1, <1>2 DEF Ledger

LEMMA SameCurrent ==
    ASSUME Current, Live' = Live, UNCHANGED <<cells, ticks_done, freed, workunit_queue, owes>>,
           \A i \in DOMAIN bundles' : bundles'[i].tick = cells,
           \A s \in Senders : sender'[s].pc \in {"queue", "send"} => sender'[s].bundle.tick = cells,
           \A w \in Workers : event'[w] = "absent" <=> event[w] = "absent"
    PROVE  Current'
  BY DEF Current

LEMMA SameAnswered ==
    ASSUME TypeInv, Answered, UNCHANGED <<workunit_queue, owes>>,
           \A s \in Senders : \/ sender'[s] = sender[s]
                              \/ sender[s].pc # "send" /\ sender'[s].pc # "send",
           \A w \in Workers : /\ Pending(w)' = Pending(w) /\ (event'[w] = "save" => event[w] = "save")
                              /\ event'[w] = "absent" <=> event[w] = "absent"
    PROVE  Answered'
  <1>1. \A w \in Workers : Sending(w)' = Sending(w) /\ EndsIn(owes[w])' = EndsIn(owes[w])
    BY DEF Sending, EndsIn
  <1>2. \A s \in Senders : sender'[s].pc = "send" => sender'[s] = sender[s]
    OBVIOUS
  <1>3. \A w \in Workers : Cardinality(EndsIn(owes[w]))' + Pending(w)' + Cardinality(Sending(w))'
                            = Len(workunit_queue'[w])
    BY <1>1 DEF Answered
  <1>4. QED
    BY <1>2, <1>3 DEF Answered, Last

LEMMA AnsweredNext ==
    ASSUME \A w \in Workers : Cardinality(EndsIn(owes[w])') + Pending(w)' + Cardinality(Sending(w)')
                                  = Len(workunit_queue'[w]),
           \A w \in Workers : event'[w] # "absent" /\ owes'[w] # <<>>
                                => Closes(owes'[w][Len(owes'[w])]),
           \A w \in Workers : event'[w] = "save" => owes'[w] # <<>>,
           \A s \in Senders : sender'[s].pc = "send" => sender'[s].link \in Workers,
           \A s \in Senders, w \in Workers : sender'[s].pc = "send" /\ sender'[s].link = w =>
                workunit_queue'[w] # <<>> /\ Last(workunit_queue'[w]) = sender'[s].bundle
    PROVE  Answered'
  <1>1. \A s \in Senders : sender'[s].pc = "send" =>
          /\ workunit_queue'[sender'[s].link] # <<>>
          /\ Last(workunit_queue'[sender'[s].link]) = sender'[s].bundle
    OBVIOUS
  <1>2. \A w \in Workers : Cardinality(EndsIn(owes[w]))' + Pending(w)' + Cardinality(Sending(w))'
                            = Len(workunit_queue'[w])
    OBVIOUS
  <1>3. QED
    BY <1>1, <1>2 DEF Answered, Last

LEMMA SameWhole ==
    ASSUME Whole, cells' = cells, Assigning => Assigning',
           \A c \in CellIds : new_dataset[c] = cells \/ Coming(c)
                                => new_dataset'[c] = cells \/ Coming(c)'
    PROVE  Whole'
  BY DEF Whole

LEMMA StillKeeps == ASSUME TypeInv, Rest, Still PROVE Rest'
  <1> USE DEF files
  <1>0. Live' = Live
    <2>1. Unmoved
      BY DEF Still, Unmoved, InHand
    <2>2. QED
      BY <2>1, UnmovedStock
  <1>1. Ledger'
    BY <1>0, SameLedger DEF Rest, Ledger, Still
  <1>2. Current'
    BY <1>0, SameCurrent DEF Rest, Current, Still
  <1>3. Answered'
    <2>1. \A w \in Workers : Pending(w)' = Pending(w)
      BY DEF Still, Pending
    <2>2. QED
      BY <2>1, SameAnswered DEF Rest, Still
  <1>4. Whole'
    <2>1. \A c \in CellIds : Coming(c) => Coming(c)'
      BY DEF Still, Coming, Owed
    <2>2. Assigning => Assigning'
      BY DEF Still, Assigning
    <2>3. QED
      BY <2>1, <2>2, SameWhole DEF Rest, Still
  <1>5. Files'
    <2>1. Launched' <=> Launched
      BY Groups DEF Still, Launched
    <2>2. QED
      BY <2>1 DEF Rest, Files, Still
  <1>6. QED
    BY <1>1, <1>2, <1>3, <1>4, <1>5 DEF Rest

LEMMA StillSteps ==
    ASSUME TypeInv,
           \/ UNCHANGED vars \/ MainExit \/ fault' # fault
           \/ \E d \in Dividers : BundlePost(d)
           \/ \E s \in Senders : SenderWait(s) \/ (SenderTake(s) /\ ~HandsFull(s)) \/ SenderReturn(s),
           [Next]_vars
    PROVE  Still
  <1> USE DEF pool, peers, files, tick, stop
  <1>0. Inv /\ Shape /\ exit_sem \in Nat
    BY DEF TypeInv, Typed, Ticking, Inv
  <1>1. CASE UNCHANGED vars
    BY <1>1 DEF vars, Still
  <1>2. CASE MainExit
    BY <1>0, <1>2 DEF MainExit, Still
  <1>3. ASSUME NEW kind, Fault(kind) PROVE Still
    BY <1>3 DEF Fault, Still
  <1>4. CASE fault' # fault /\ Next
    <2>1. \E kind \in {"use after free", "closed file", "endless bundles", "endless list"} : Fault(kind)
      <3>1. CASE \E w \in Workers : Event(w) \/ WorkerDies(w)
        <4>1. PICK w \in Workers : Event(w) \/ WorkerDies(w)
          BY <3>1
        <4>2. CASE \/ EventInvalid(w) \/ EventIntegrate(w) \/ EventSave(w) \/ EventPop(w)
                   \/ EventCount(w) \/ AllBundlesClose(w) \/ AllBundlesDone(w) \/ EventClosed(w)
                   \/ WorkerDies(w)
          BY <1>4, <4>2 DEF EventInvalid, EventIntegrate, EventSave, EventPop, EventCount,
             AllBundlesClose, AllBundlesDone, EventClosed, WorkerDies
        <4>3. CASE ~(\/ EventInvalid(w) \/ EventIntegrate(w) \/ EventSave(w) \/ EventPop(w)
                     \/ EventCount(w) \/ AllBundlesClose(w) \/ AllBundlesDone(w) \/ EventClosed(w)
                     \/ WorkerDies(w))
          BY <1>4, <4>1, <4>3 DEF Event, EventFaults, EventSaveFaults,
             CleanupRepool, CleanupPost, CleanupFreeQueue, CleanupUnlink, CleanupFree
        <4>4. QED
          BY <4>2, <4>3
      <3>2. CASE \E s \in Senders : Sender(s)
        BY <1>4, <3>2 DEF Sender, SenderWait, SenderTake, SenderQueue, SenderSend, SenderReturn,
           SenderFaults
      <3>3. CASE \E d \in Dividers : Divide(d)
        BY <1>4, <3>3 DEF Divide, DivideAssign, DivideCount, DivideCountsNone, BundleEnqueue,
           BundleFaults, BundlePost, BundlesJoined
      <3>4. CASE Connect \/ MainLaunch \/ MainExit
        BY <1>4, <3>4 DEF Connect, ConnectAccept, ConnectFaults, ConnectSettings, ConnectApplied,
           MainLaunch, MainExit
      <3>5. QED
        BY <1>4, <3>1, <3>2, <3>3, <3>4 DEF Next
    <2>2. QED
      BY <1>3, <2>1
  <1>5. ASSUME NEW d \in Dividers, BundlePost(d) PROVE Still
    <2>1. PICK k : divide' = [divide EXCEPT ![d].posts = @ \ {k}]
      BY <1>5 DEF BundlePost
    <2>2. \A e \in Dividers : divide'[e].pc = divide[e].pc /\ divide'[e].keys = divide[e].keys
      BY <1>0, <2>1 DEF Shape, Division
    <2>3. QED
      BY <1>5, <2>2 DEF BundlePost, Still
  <1>6. ASSUME NEW s \in Senders, SenderWait(s) \/ (SenderTake(s) /\ ~HandsFull(s)) PROVE Still
    <2>1. PICK p \in {"take", "wait"} : sender' = [sender EXCEPT ![s].pc = p]
      BY <1>6 DEF SenderWait, SenderTake, HandsFull
    <2>2. sender'[s].pc = p /\ \A t \in Senders : t # s => sender'[t] = sender[t]
      BY <1>0, <2>1, SenderMoves
    <2>3. sender[s].pc \notin {"queue", "send"} /\ bundles' = bundles
      BY <1>6 DEF SenderWait, SenderTake, HandsFull
    <2>4. QED
      BY <1>6, <2>2, <2>3 DEF SenderWait, SenderTake, Still
  <1>7. ASSUME NEW s \in Senders, SenderReturn(s) PROVE Still
    <2>1. sender'[s].pc = "wait" /\ \A t \in Senders : t # s => sender'[t] = sender[t]
      BY <1>0, <1>7 DEF SenderReturn, Shape
    <2>2. QED
      BY <1>7, <2>1 DEF SenderReturn, Still
  <1>8. QED
    BY <1>1, <1>2, <1>4, <1>5, <1>6, <1>7 DEF vars

(* The connect thread works before the launch.                               *)
LEMMA ConnectRest == ASSUME Settled, TickInv, Connect, TypeInv', Admission' PROVE Rest'
  <1> USE DEF pool, peers, files, tick, stop
  <1>0. /\ TypeInv /\ Admission /\ Inv /\ Shape /\ event \in [Workers -> EventPlaces]
        /\ owes \in [Workers -> Seq(Units \cup {Settings})] /\ JoinsOnce
    BY DEF TickInv, TypeInv, Typed, Peered, Inv, Shape
  <1>1. ~Launched /\ connect.pc \in {"accept", "settings", "applied"}
    <2>1. connect.pc = "accept" => \E w \in Workers : event[w] = "absent" /\ connect.pc = "accept"
      BY DEF Connect, ConnectAccept, ConnectFaults, ConnectSettings, ConnectApplied, Joined
    <2>2. QED
      BY <1>0, <2>1 DEF Admission, Accepted, Shape, ConnectPlaces
  <1>2. Fresh
    BY <1>1, RestIsFresh
  <1>3. /\ divide' = divide /\ cells' = cells /\ bundles_done' = bundles_done
        /\ ticks_done' = ticks_done /\ freed' = freed /\ exit_sem' = exit_sem
        /\ unsaved' = unsaved /\ fp' = fp
    BY DEF Connect, ConnectAccept, ConnectFaults, ConnectSettings, ConnectApplied, Fault
  <1>4. \A w \in Workers : event'[w] \in {"absent", "receive"}
                           /\ (event'[w] = "receive" => owes'[w] = <<>>)
    <2>1. CASE ConnectApplied
      <3> DEFINE v == connect.worker
      <3>1. /\ connect.pc = "applied" /\ v \in Workers /\ event[v] = "absent" /\ alive[v]
            /\ event' = [event EXCEPT ![v] = "receive"]
            /\ owes' = [owes EXCEPT ![v] = IF @ = <<>> THEN @ ELSE Tail(@)]
        BY <1>0, <2>1 DEF ConnectApplied, JoinsOnce, Admission, Accepted
      <3>2. owes[v] \in {<<>>, <<Settings>>}
        BY <1>0, <3>1 DEF Admission
      <3>3. owes'[v] = <<>>
        <4>1. Tail(<<Settings>>) = <<>>
          <5>1. <<Settings>> \in Seq({Settings}) /\ Len(<<Settings>>) = 1 /\ <<Settings>> # <<>>
            OBVIOUS
          <5>2. Tail(<<Settings>>) \in Seq({Settings}) /\ Len(Tail(<<Settings>>)) = 0
            BY <5>1, HeadTailProperties
          <5>3. QED
            BY <5>2, EmptySeq
        <4>2. owes'[v] = IF owes[v] = <<>> THEN owes[v] ELSE Tail(owes[v])
          BY <1>0, <3>1
        <4>3. QED
          BY <3>2, <4>1, <4>2
      <3>4. QED
        BY <1>0, <1>2, <3>1, <3>3 DEF Fresh
    <2>2. CASE ConnectSettings
      <3> DEFINE v == connect.worker
      <3>1. /\ connect.pc = "settings" /\ v \in Workers /\ event[v] = "absent"
            /\ event' = event /\ \A w \in Workers : w # v => owes'[w] = owes[w]
        BY <1>0, <2>2 DEF ConnectSettings, JoinsOnce
      <3>2. QED
        BY <1>2, <3>1 DEF Fresh
    <2>3. CASE event' = event /\ owes' = owes
      BY <1>2, <2>3 DEF Fresh
    <2>4. QED
      BY <2>1, <2>2, <2>3 DEF Connect, ConnectAccept, ConnectFaults, Fault
  <1>5. Fresh'
    BY <1>1, <1>2, <1>3, <1>4 DEF Fresh, Launched
  <1>6. QED
    BY <1>5, FreshGivesRestNext

LEMMA LaunchRest == ASSUME Settled, TickInv, MainLaunch, TypeInv', Admission' PROVE Rest'
  <1> USE DEF pool, peers, files, tick, stop
  <1>0. TypeInv /\ Inv /\ Shape
    BY DEF TickInv, TypeInv, Inv
  <1>1. /\ divide[Main].pc = "none" /\ divide' = [divide EXCEPT ![Main].pc = "assign"]
        /\ UNCHANGED <<cells, bundles_done, ticks_done, freed, exit_sem, unsaved, event, owes>>
        /\ fp' = 1
    BY DEF MainLaunch
  <1>2. Fresh
    BY <1>1, RestIsFresh DEF Launched
  <1>3. divide'[Main].pc = "assign"
    BY <1>0, <1>1, Groups, DivideMoves
  <1>4. Fresh'
    BY <1>1, <1>2, <1>3 DEF Fresh
  <1>5. QED
    BY <1>4, FreshGivesRestNext
-------------------------------------------------------------------------------
(* The steps of a divider.                                                   *)
LEMMA AssignRest ==
    ASSUME Settled, TickInv, NEW d \in Dividers, DivideAssign(d), mishaps' = {}
    PROVE  Rest'
  <1> USE DEF pool, peers, files, tick, stop
  <1>0. /\ TypeInv /\ Inv /\ Shape /\ Ledger /\ Current /\ Answered /\ Files /\ InTime
        /\ ticks_done \in Nat
    BY DEF TickInv, TypeInv, Typed, Ticking, Inv, InTurn
  <1>1. /\ divide[d].pc = "assign" /\ divide' = [divide EXCEPT ![d].pc = "count"]
        /\ cells' = ticks_done + 1 /\ total_bundles' = workers.count
        /\ UNCHANGED <<workers, bundles, sender, event, workunit_queue, owes, freed, new_dataset,
                       bundles_done, ticks_done, fp, unsaved, exit_sem>>
    BY DEF DivideAssign
  <1>2. /\ divide'[d].pc = "count" /\ divide'[d].keys = divide[d].keys
        /\ \A e \in Dividers : e # d => divide'[e] = divide[e]
    BY <1>0, <1>1, DivideMoves
  <1>3. Launched /\ Assigning
    BY <1>1, <1>0, DividersLaunched DEF Assigning
  <1>4. Live = {} /\ Counting = {} /\ bundles_done = 0 /\ \A b \in freed : b.tick <= ticks_done
    BY <1>0, <1>3 DEF Ledger
  <1>5. /\ bundles = <<>> /\ workers.count = N
        /\ \A s \in Senders : sender[s].pc \notin {"queue", "send"}
        /\ \A w \in Workers : /\ workunit_queue[w] = <<>> /\ owes[w] = <<>>
                              /\ event[w] \notin {"absent", "save", "save_last", "pop"}
                              /\ unsaved[w] = 0
    <2>1. \A s \in Senders : sender[s].link = NULL
      BY DEF DivideAssign, Noted
    <2>2. QED
      BY <1>3, <1>4, <2>1, NothingLeft, HandsAreEmpty, AllAreIdle
  <1>6. Unmoved
    BY <1>1, <1>2 DEF Unmoved, InHand
  <1>7. Live' = {} /\ Counting' = {} /\ N' = N
    BY <1>1, <1>4, <1>6, UnmovedStock DEF Counting, N
  <1>8. Ledger'
    <2>1. bundles_done' + Cardinality(Counting') + Cardinality(Live') <= N'
      BY <1>1, <1>4, <1>7, Groups, FS_EmptySet
    <2>2. cells' # 0
      BY <1>0, <1>1
    <2>3. \A e \in Dividers : divide'[e].pc # "assign"
      BY <1>0, <1>1, <1>2, OneAssigns
    <2>4. \A w \in Workers : event'[w] \in {"all_done", "reopen"} => bundles_done' = N'
      BY <1>0, <1>1, <1>7 DEF Ledger
    <2>5. QED
      BY <1>1, <1>4, <1>5, <1>7, <2>1, <2>2, <2>3, <2>4 DEF Ledger
  <1>9. Current'
    BY <1>1, <1>4, <1>5, EmptySeq DEF Current
  <1>10. Answered'
    BY <1>0, <1>1, SameAnswered DEF Pending
  <1>11. Whole'
    <2>1. Assigning'
      BY <1>2 DEF Assigning
    <2>2. QED
      BY <2>1 DEF Whole
  <1>12. Files'
    <2>1. Launched' <=> Launched
      BY <1>1, <1>2, Groups DEF Launched
    <2>2. ticks_done < TicksCnt
      BY <1>0, <1>1 DEF InTime
    <2>3. QED
      BY <1>0, <1>1, <1>5, <2>1, <2>2 DEF Files
  <1>13. QED
    BY <1>8, <1>9, <1>10, <1>11, <1>12 DEF Rest

LEMMA CountRest == ASSUME Settled, TickInv, NEW d \in Dividers, DivideCount(d) PROVE Rest'
  <1> USE DEF pool, peers, files, tick, stop
  <1>0. /\ TypeInv /\ Inv /\ Shape /\ Ledger /\ Current /\ Answered /\ Files /\ OnePlace
        /\ ticks_done \in Nat
    BY DEF TickInv, TypeInv, Typed, Ticking, Inv
  <1> DEFINE keys == Slices(Leaves, CeilDiv(Leaves, workers.count))
  <1>1. /\ divide[d].pc = "count"
        /\ divide' = [divide EXCEPT ![d] = [pc |-> "bundle", posts |-> {}, keys |-> keys]]
        /\ UNCHANGED <<workers, bundles, sender, event, workunit_queue, owes, freed, new_dataset,
                       cells, total_bundles, bundles_done, ticks_done, fp, unsaved, exit_sem>>
    BY DEF DivideCount
  <1> HIDE DEF keys
  <1>2. /\ divide'[d].pc = "bundle" /\ divide'[d].keys = keys
        /\ \A e \in Dividers : e # d => divide'[e] = divide[e]
    BY <1>0, <1>1 DEF Shape
  <1>3. Launched /\ Assigning /\ cells # 0
    BY <1>1, <1>0, DividersLaunched DEF Assigning, Ledger
  <1>4. Live = {} /\ Counting = {} /\ bundles_done = 0 /\ \A b \in freed : b.tick <= ticks_done
    BY <1>0, <1>3 DEF Ledger
  <1>5. /\ bundles = <<>> /\ workers.count = N
        /\ \A s \in Senders : sender[s].pc \notin {"queue", "send"}
        /\ \A w \in Workers : /\ workunit_queue[w] = <<>> /\ owes[w] = <<>>
                              /\ event[w] \notin {"absent", "save", "save_last", "pop"}
    <2>1. Holders = {}
      BY <1>1 DEF TickInv, Handed
    <2>2. QED
      BY <1>3, <1>4, <2>1, NothingLeft, AllAreIdle
  <1>6. Live' = keys
    BY <1>0, <1>4, CountMakes DEF keys
  <1>7. /\ Cardinality(keys) <= N /\ Cardinality(keys) \in Nat
        /\ \A c \in CellIds : \E k \in keys : c \in k
    <2>1. N \in Nat \ {0}
      BY Groups
    <2>2. CeilDiv(Leaves, N) \in Nat \ {0}
      BY <2>1, CeilDivPositive
    <2>3. QED
      BY <1>5, <2>1, <2>2, SlicesEnough, SlicesCover DEF keys
  <1>8. Ledger'
    <2>1. Counting' = {} /\ N' = N
      BY <1>1, <1>4 DEF Counting, N
    <2>2. 0 + Cardinality(Counting') + Cardinality(Live') <= N
      BY <1>6, <1>7, <2>1, Groups, FS_EmptySet
    <2>3. \A e \in Dividers : divide'[e].pc \notin {"assign", "count"}
      BY <1>0, <1>1, <1>2, OneAssigns
    <2>4. ~Assigning'
      BY <2>3 DEF Assigning
    <2>5. \A w \in Workers : event'[w] \in {"all_done", "reopen"} => bundles_done' = N'
      BY <1>0, <1>1, <2>1 DEF Ledger
    <2>6. cells' # 0 => total_bundles' = N' /\ cells' = ticks_done' + 1
      BY <1>0, <1>1, <2>1 DEF Ledger
    <2>7. QED
      BY <1>1, <1>3, <1>4, <2>1, <2>2, <2>3, <2>4, <2>5, <2>6 DEF Ledger
  <1>9. Current'
    BY <1>1, <1>4, <1>5, EmptySeq DEF Current
  <1>10. Answered'
    BY <1>0, <1>1, SameAnswered DEF Pending
  <1>11. Whole'
    BY <1>2, <1>7 DEF Whole, Coming
  <1>12. Files'
    <2>1. Launched' <=> Launched
      BY <1>1, <1>2, Groups DEF Launched
    <2>2. QED
      BY <1>0, <1>1, <2>1 DEF Files
  <1>13. QED
    BY <1>8, <1>9, <1>10, <1>11, <1>12 DEF Rest

LEMMA EnqueueRest == ASSUME Settled, TickInv, NEW d \in Dividers, BundleEnqueue(d) PROVE Rest'
  <1> USE DEF pool, peers, files, tick, stop
  <1>0. /\ TypeInv /\ Inv /\ Shape /\ Ledger /\ Current /\ Answered /\ Whole /\ Files /\ OnePlace
        /\ bundles \in Seq(Sliced)
    BY DEF TickInv, TypeInv, Typed, Stocked, Inv
  <1>1. PICK k \in divide[d].keys :
          /\ divide[d].pc = "bundle" /\ bundles' = Append(bundles, [tick |-> cells, keys |-> k])
          /\ divide' = [divide EXCEPT ![d].keys = @ \ {k}, ![d].posts = @ \cup {k}]
          /\ UNCHANGED <<workers, sender, event, workunit_queue, owes, freed, new_dataset,
                         cells, total_bundles, bundles_done, ticks_done, fp, unsaved, exit_sem>>
    BY DEF BundleEnqueue
  <1>2. /\ divide'[d].pc = "bundle" /\ divide'[d].keys = divide[d].keys \ {k}
        /\ \A e \in Dividers : e # d => divide'[e] = divide[e]
    BY <1>0, <1>1 DEF Shape, Division
  <1>3. Live' = Live
    BY <1>0, EnqueueMoves
  <1>4. Ledger'
    BY <1>0, <1>1, <1>2, <1>3, SameLedger DEF Ledger
  <1> DEFINE b == [tick |-> cells, keys |-> k]
             n == Len(bundles)
  <1>5. /\ n \in Nat /\ DOMAIN bundles = 1..n /\ DOMAIN bundles' = 1..(n + 1)
        /\ bundles'[n + 1] = b /\ \A i \in 1..n : bundles'[i] = bundles[i]
    BY <1>0, <1>1, AppendProperties, LenProperties
  <1>6. Current'
    <2>1. \A i \in DOMAIN bundles' : bundles'[i].tick = cells
      <3> SUFFICES ASSUME NEW i \in 1..(n + 1) PROVE bundles'[i].tick = cells
        BY <1>5
      <3> HIDE DEF n
      <3>1. CASE i \in 1..n
        BY <1>0, <1>5, <3>1 DEF Current
      <3>2. CASE i = n + 1
        BY <1>5, <3>2
      <3>3. QED
        BY <1>5, <3>1, <3>2
    <2>2. QED
      BY <1>0, <1>1, <1>3, <2>1, SameCurrent DEF Current
  <1>7. Answered'
    BY <1>0, <1>1, SameAnswered DEF Pending
  <1>8. Whole'
    <2>1. Assigning => Assigning'
      BY <1>1, <1>2 DEF Assigning
    <2>2. ASSUME NEW c \in CellIds, Coming(c) PROVE Coming(c)'
      <3> HIDE DEF n, b
      <3>1. CASE \E e \in Dividers : \E j \in divide[e].keys : c \in j
        <4>1. PICK e \in Dividers : \E j \in divide[e].keys : c \in j
          BY <3>1
        <4>2. PICK j \in divide[e].keys : c \in j
          BY <4>1
        <4>3. CASE e = d /\ j = k
          <5>1. n + 1 \in DOMAIN bundles' /\ c \in bundles'[n + 1].keys
            BY <1>5, <4>2, <4>3 DEF b
          <5>2. QED
            BY <5>1 DEF Coming
        <4>4. CASE e # d \/ j # k
          <5>1. j \in divide'[e].keys
            BY <1>2, <4>2, <4>4
          <5>2. QED
            BY <4>2, <5>1 DEF Coming
        <4>5. QED
          BY <4>3, <4>4
      <3>2. CASE \E i \in DOMAIN bundles : c \in bundles[i].keys
        <4>1. PICK i \in 1..n : c \in bundles[i].keys
          BY <1>5, <3>2
        <4>2. i \in DOMAIN bundles' /\ c \in bundles'[i].keys
          BY <1>5, <4>1
        <4>3. QED
          BY <4>2 DEF Coming
      <3>3. CASE \/ \E s \in Senders : sender[s].pc \in {"queue", "send"} /\ c \in sender[s].bundle.keys
                 \/ \E w \in Workers : Owed(w, c)
        BY <1>1, <3>3 DEF Coming, Owed
      <3>4. QED
        BY <2>2, <3>1, <3>2, <3>3 DEF Coming
    <2>3. QED
      BY <1>0, <1>1, <2>1, <2>2, SameWhole
  <1>9. Files'
    <2>1. Launched' <=> Launched
      BY <1>1, <1>2, Groups DEF Launched
    <2>2. QED
      BY <1>0, <1>1, <2>1 DEF Files
  <1>10. QED
    BY <1>4, <1>6, <1>7, <1>8, <1>9 DEF Rest

LEMMA JoinedRest == ASSUME Settled, TickInv, NEW d \in Dividers, BundlesJoined(d) PROVE Rest'
  <1> USE DEF pool, peers, files, tick, stop
  <1>0. /\ TypeInv /\ Inv /\ Shape /\ Ledger /\ Current /\ Answered /\ Whole /\ Files
        /\ DividesInTurn
    BY DEF TickInv, TypeInv, Inv
  <1>1. /\ divide[d].pc = "bundle" /\ divide' = [divide EXCEPT ![d].pc = "done"]
        /\ event' = IF d = Main THEN event ELSE [event EXCEPT ![d] = "receive"]
        /\ UNCHANGED <<workers, bundles, sender, workunit_queue, owes, freed, new_dataset,
                       cells, total_bundles, bundles_done, ticks_done, fp, unsaved, exit_sem>>
    BY DEF BundlesJoined
  <1>2. /\ divide'[d].pc = "done" /\ divide'[d].keys = divide[d].keys
        /\ \A e \in Dividers : e # d => divide'[e] = divide[e]
    BY <1>0, <1>1, DivideMoves
  <1>3. \A w \in Workers : event'[w] = event[w] \/ (event[w] = "divide" /\ event'[w] = "receive")
    BY <1>0, <1>1, Groups DEF Shape, DividesInTurn
  <1>4. Live' = Live
    <2>1. \A e \in Dividers : divide'[e].keys = divide[e].keys
      BY <1>2
    <2>2. Unmoved
      BY <1>1, <2>1 DEF Unmoved, InHand
    <2>3. QED
      BY <2>2, UnmovedStock
  <1>5. Ledger'
    BY <1>0, <1>1, <1>2, <1>3, <1>4, SameLedger DEF Ledger
  <1>6. Current'
    BY <1>0, <1>1, <1>3, <1>4, SameCurrent DEF Current
  <1>7. Answered'
    <2>1. \A w \in Workers : Pending(w)' = Pending(w)
      BY <1>3 DEF Pending
    <2>2. QED
      BY <1>0, <1>1, <1>3, <2>1, SameAnswered
  <1>8. Whole'
    <2>1. Assigning => Assigning'
      BY <1>1, <1>2 DEF Assigning
    <2>2. \A e \in Dividers : divide'[e].keys = divide[e].keys
      BY <1>2
    <2>3. \A c \in CellIds : Coming(c) => Coming(c)'
      BY <1>1, <2>2 DEF Coming, Owed
    <2>4. QED
      BY <1>0, <1>1, <2>1, <2>3, SameWhole
  <1>9. Files'
    <2>1. Launched' <=> Launched
      BY <1>1, <1>2, Groups DEF Launched
    <2>2. QED
      BY <1>0, <1>1, <1>3, <2>1 DEF Files
  <1>10. QED
    BY <1>5, <1>6, <1>7, <1>8, <1>9 DEF Rest
-------------------------------------------------------------------------------
(* The steps of a sender.                                                    *)
LEMMA TakeRest == ASSUME Settled, TickInv, NEW s \in Senders, HandsFull(s) PROVE Rest'
  <1> USE DEF pool, peers, files, tick, stop
  <1>0. /\ TypeInv /\ Inv /\ Shape /\ Ledger /\ Current /\ Answered /\ Whole /\ Files /\ OnePlace
        /\ bundles \in Seq(Sliced) /\ bundles # <<>>
    BY DEF TickInv, TypeInv, Typed, Stocked, Inv, HandsFull
  <1>1. /\ sender[s].pc = "take"
        /\ sender' = [sender EXCEPT ![s] = [pc |-> "queue", link |-> workers.first,
                                            bundle |-> Head(bundles)]]
        /\ bundles' = Tail(bundles)
        /\ UNCHANGED <<event, workunit_queue, owes, freed, new_dataset, divide,
                       cells, total_bundles, bundles_done, ticks_done, fp, unsaved, exit_sem>>
    BY DEF HandsFull, SenderTake
  <1>2. /\ sender'[s].pc = "queue" /\ sender'[s].bundle = Head(bundles)
        /\ \A t \in Senders : t # s => sender'[t] = sender[t]
    BY <1>0, <1>1 DEF Shape
  <1>3. Live' = Live
    BY <1>0, TakeMoves
  <1>4. Ledger'
    BY <1>0, <1>1, <1>3, SameLedger DEF Ledger
  <1>5. /\ Head(bundles) = bundles[1] /\ 1 \in DOMAIN bundles
        /\ \A i \in DOMAIN bundles' : i + 1 \in DOMAIN bundles /\ bundles'[i] = bundles[i + 1]
        /\ \A i \in DOMAIN bundles : i # 1 => i - 1 \in DOMAIN bundles'
                                              /\ bundles'[i - 1] = bundles[i]
    BY <1>0, <1>1, KeysTaken, LenProperties
  <1>6. Current'
    <2>1. \A i \in DOMAIN bundles' : bundles'[i].tick = cells
      BY <1>0, <1>5 DEF Current
    <2>2. \A t \in Senders : sender'[t].pc \in {"queue", "send"} => sender'[t].bundle.tick = cells
      BY <1>0, <1>2, <1>5 DEF Current
    <2>3. QED
      BY <1>0, <1>1, <1>3, <2>1, <2>2, SameCurrent
  <1>7. Answered'
    <2>1. \A t \in Senders : \/ sender'[t] = sender[t]
                             \/ sender[t].pc # "send" /\ sender'[t].pc # "send"
      BY <1>1, <1>2
    <2>2. QED
      BY <1>0, <1>1, <2>1, SameAnswered DEF Pending
  <1>8. Whole'
    <2>1. ASSUME NEW c \in CellIds, Coming(c) PROVE Coming(c)'
      <3>1. CASE \E i \in DOMAIN bundles : c \in bundles[i].keys
        <4>1. PICK i \in DOMAIN bundles : c \in bundles[i].keys
          BY <3>1
        <4>2. CASE i = 1
          BY <1>2, <1>5, <4>1, <4>2 DEF Coming
        <4>3. CASE i # 1
          <5>1. i - 1 \in DOMAIN bundles' /\ c \in bundles'[i - 1].keys
            BY <1>5, <4>1, <4>3
          <5>2. QED
            BY <5>1 DEF Coming
        <4>4. QED
          BY <4>2, <4>3
      <3>2. CASE \E t \in Senders : sender[t].pc \in {"queue", "send"} /\ c \in sender[t].bundle.keys
        <4>1. PICK t \in Senders : sender[t].pc \in {"queue", "send"} /\ c \in sender[t].bundle.keys
          BY <3>2
        <4>2. sender'[t] = sender[t]
          BY <1>1, <1>2, <4>1
        <4>3. QED
          BY <4>1, <4>2 DEF Coming
      <3>3. CASE \/ \E d \in Dividers : \E k \in divide[d].keys : c \in k
                 \/ \E w \in Workers : Owed(w, c)
        BY <1>1, <3>3 DEF Coming, Owed
      <3>4. QED
        BY <2>1, <3>1, <3>2, <3>3 DEF Coming
    <2>2. Assigning => Assigning'
      BY <1>1 DEF Assigning
    <2>3. QED
      BY <1>0, <1>1, <2>1, <2>2, SameWhole
  <1>9. Files'
    BY <1>0, <1>1 DEF Files, Launched
  <1>10. QED
    BY <1>4, <1>6, <1>7, <1>8, <1>9 DEF Rest

LEMMA QueueRest == ASSUME Settled, TickInv, NEW s \in Senders, SenderQueue(s) PROVE Rest'
  <1> USE DEF pool, peers, files, tick, stop
  <1>0. /\ TypeInv /\ Inv /\ Shape /\ Ledger /\ Current /\ Answered /\ Whole /\ Files /\ OnePlace
        /\ workunit_queue \in [Workers -> Seq(Sliced)]
        /\ owes \in [Workers -> Seq(Units \cup {Settings})]
    BY DEF TickInv, TypeInv, Typed, Stocked, Peered, Inv
  <1>p. PICK w \in Workers, b \in Sliced : sender[s].link = w /\ sender[s].bundle = b
    BY <1>0 DEF SenderQueue, TypeInv, Typed, Stocked
  <1> DEFINE q == workunit_queue[w]
             n == Len(q)
  <1>1. /\ sender[s].pc = "queue" /\ sender' = [sender EXCEPT ![s].pc = "send"]
        /\ workunit_queue' = [workunit_queue EXCEPT ![w] = Append(q, b)]
        /\ UNCHANGED <<bundles, event, owes, freed, new_dataset, divide,
                       cells, total_bundles, bundles_done, ticks_done, fp, unsaved, exit_sem>>
    BY <1>p DEF SenderQueue
  <1>2. q \in Seq(Sliced) /\ n \in Nat
    BY <1>0, LenProperties
  <1>3. /\ sender'[s].pc = "send" /\ sender'[s].link = w /\ sender'[s].bundle = b
        /\ \A t \in Senders : t # s => sender'[t] = sender[t]
    BY <1>0, <1>p, <1>1, SenderMoves
  <1>4. /\ DOMAIN q = 1..n /\ DOMAIN workunit_queue'[w] = 1..(n + 1)
        /\ Len(workunit_queue'[w]) = n + 1 /\ workunit_queue'[w][n + 1] = b
        /\ \A i \in 1..n : workunit_queue'[w][i] = q[i]
        /\ \A v \in Workers : v # w => workunit_queue'[v] = workunit_queue[v]
    BY <1>0, <1>1, <1>2, AppendProperties, LenProperties
  <1> HIDE DEF n
  <1>5. Live' = Live
    BY <1>0, QueueMoves
  <1>6. Ledger'
    BY <1>0, <1>1, <1>5, SameLedger DEF Ledger
  <1>7. Current'
    <2>1. \A v \in Workers : \A i \in DOMAIN workunit_queue'[v] : workunit_queue'[v][i].tick = cells
      <3> SUFFICES ASSUME NEW v \in Workers, NEW i \in DOMAIN workunit_queue'[v]
          PROVE workunit_queue'[v][i].tick = cells
        OBVIOUS
      <3>1. CASE v # w
        BY <1>0, <1>4, <3>1 DEF Current
      <3>2. CASE v = w /\ i \in 1..n
        BY <1>0, <1>2, <1>4, <3>2 DEF Current
      <3>3. CASE v = w /\ i = n + 1
        BY <1>0, <1>p, <1>1, <1>4, <3>3 DEF Current
      <3>4. QED
        BY <1>2, <1>4, <3>1, <3>2, <3>3
    <2>2. \A t \in Senders : sender'[t].pc \in {"queue", "send"} =>
              sender[t].pc \in {"queue", "send"} /\ sender'[t].bundle = sender[t].bundle
      BY <1>p, <1>1, <1>3
    <2>3. QED
      BY <1>0, <1>1, <1>5, <2>1, <2>2 DEF Current
  <1>8. Answered'
    <2>1. \A v \in Workers : Pending(v)' = Pending(v) /\ EndsIn(owes[v])' = EndsIn(owes[v])
      BY <1>1 DEF Pending, EndsIn
    <2>2. /\ Sending(w)' = Sending(w) \cup {s} /\ s \notin Sending(w)
          /\ \A v \in Workers : v # w => Sending(v)' = Sending(v)
      BY <1>1, <1>3 DEF Sending
    <2>3. /\ IsFiniteSet(Sending(w)) /\ Cardinality(Sending(w)) \in Nat
          /\ Cardinality(Sending(w)') = Cardinality(Sending(w)) + 1
      <3>1. Sending(w) \subseteq Holders
        BY DEF Sending, Holders
      <3>2. QED
        BY <2>2, <3>1, Groups, FS_Subset, FS_CardinalityType, FS_AddElement
    <2>4. Cardinality(EndsIn(owes[w])) \in Nat /\ Pending(w) \in Nat
      BY <1>0, <1>2, EndsCounted DEF Pending
    <2>5. Cardinality(EndsIn(owes[w])) + Pending(w) + Cardinality(Sending(w)) = n
      BY <1>0 DEF Answered, n
    <2>6. \A v \in Workers : Cardinality(EndsIn(owes[v])') + Pending(v)' + Cardinality(Sending(v)')
                               = Len(workunit_queue'[v])
      <3> SUFFICES ASSUME NEW v \in Workers
          PROVE Cardinality(EndsIn(owes[v])') + Pending(v)' + Cardinality(Sending(v)')
                               = Len(workunit_queue'[v])
        OBVIOUS
      <3>1. CASE v # w
        BY <1>0, <1>4, <2>1, <2>2, <3>1 DEF Answered
      <3>2. CASE v = w
        <4>1. Cardinality(EndsIn(owes[v])') = Cardinality(EndsIn(owes[w])) /\ Pending(v)' = Pending(w)
              /\ Cardinality(Sending(v)') = Cardinality(Sending(w)) + 1
              /\ Len(workunit_queue'[v]) = n + 1
          BY <1>2, <1>4, <2>1, <2>3, <3>2
        <4>2. QED
          BY <1>2, <2>3, <2>4, <2>5, <4>1
      <3>3. QED
        BY <3>1, <3>2
    <2>7. ASSUME NEW t \in Senders, sender'[t].pc = "send", NEW v \in Workers, sender'[t].link = v
          PROVE  workunit_queue'[v] # <<>> /\ Last(workunit_queue'[v]) = sender'[t].bundle
      <3>1. CASE t = s
        <4>1. workunit_queue'[w] # <<>>
          BY <1>2, <1>4, EmptySeq
        <4>2. QED
          BY <1>3, <1>4, <2>7, <3>1, <4>1 DEF Last
      <3>2. CASE t # s
        <4>1. sender'[t] = sender[t] /\ sender[t].pc = "send" /\ sender[t].link = v
          BY <1>3, <2>7, <3>2
        <4>2. v # w
          BY <1>p, <3>2, <4>1, DispatcherAssumption DEF TickInv, Handed
        <4>3. workunit_queue'[v] = workunit_queue[v]
          BY <1>4, <4>2
        <4>4. QED
          BY <1>0, <4>1, <4>3 DEF Answered, Last
      <3>3. QED
        BY <3>1, <3>2
    <2>9. \A t \in Senders : sender'[t].pc = "send" => sender'[t].link \in Workers
      BY <1>0, <1>3 DEF TypeInv, Typed, Stocked
    <2>10. \A v \in Workers : event'[v] # "absent" /\ owes'[v] # <<>>
                                  => Closes(owes'[v][Len(owes'[v])])
      BY <1>0, <1>1 DEF Answered
    <2>11. \A v \in Workers : event'[v] = "save" => owes'[v] # <<>>
      BY <1>0, <1>1 DEF Answered
    <2>12. QED
      BY <2>6, <2>7, <2>9, <2>10, <2>11, AnsweredNext
  <1>9. Whole'
    <2>1. \A c \in CellIds : Coming(c) => Coming(c)'
      <3>1. \A t \in Senders : sender'[t].bundle = sender[t].bundle
                               /\ (sender[t].pc \in {"queue", "send"} => sender'[t].pc \in {"queue", "send"})
        BY <1>p, <1>3
      <3>2. QED
        BY <1>1, <3>1 DEF Coming, Owed
    <2>2. Assigning => Assigning'
      BY <1>1 DEF Assigning
    <2>3. QED
      BY <1>0, <1>1, <2>1, <2>2, SameWhole
  <1>10. Files'
    BY <1>0, <1>1 DEF Files, Launched
  <1>11. QED
    BY <1>6, <1>7, <1>8, <1>9, <1>10 DEF Rest

LEMMA SendRest == ASSUME Settled, TickInv, NEW s \in Senders, SenderSend(s) PROVE Rest'
  <1> USE DEF pool, peers, files, tick, stop
  <1>0. /\ TypeInv /\ Inv /\ Shape /\ Ledger /\ Current /\ Answered /\ Whole /\ Files
        /\ owes \in [Workers -> Seq(Units \cup {Settings})] /\ Admission
        /\ workunit_queue \in [Workers -> Seq(Sliced)] /\ cells \in 0..TicksCnt
    BY DEF TickInv, TypeInv, Typed, Stocked, Peered, Ticking, Inv
  <1>p. PICK w \in Workers, b \in Sliced : sender[s].link = w /\ sender[s].bundle = b
    BY <1>0 DEF SenderSend, TypeInv, Typed, Stocked
  <1> DEFINE q == owes[w]
             more == q \o Answers(b.keys, cells)
  <1>1. /\ sender[s].pc = "send" /\ b.tick = cells
        /\ sender' = [sender EXCEPT ![s].pc = "return", ![s].bundle = NULL]
        /\ owes' = [owes EXCEPT ![w] = IF alive[w] THEN more ELSE @]
        /\ UNCHANGED <<bundles, event, workunit_queue, freed, new_dataset, divide,
                       cells, total_bundles, bundles_done, ticks_done, fp, unsaved, exit_sem>>
    BY <1>p DEF SenderSend
  <1>2. b.keys \in Runs /\ cells \in 1..TicksCnt
    BY <1>0, <1>1 DEF Sliced
  <1>3. Launched
    BY <1>0, <1>1 DEF TypeInv, Typed, InTurn, Early, Idle, Launched
  <1>4. alive[w] /\ event[w] # "absent"
    BY <1>0, <1>2, <1>3, EverybodyIsIn
  <1>5. /\ sender'[s].pc = "return" /\ sender'[s].link = w
        /\ \A t \in Senders : t # s => sender'[t] = sender[t]
    BY <1>0, <1>p, <1>1 DEF Shape, Hand
  <1>6. owes'[w] = more /\ \A v \in Workers : v # w => owes'[v] = owes[v]
    BY <1>0, <1>1, <1>2, <1>4
  <1>7. /\ more # <<>> /\ Cardinality(EndsIn(more)) = Cardinality(EndsIn(q)) + 1
        /\ Closes(more[Len(more)])
        /\ \A i \in DOMAIN more : (i \in DOMAIN q /\ more[i] = q[i])
                                     \/ (more[i] \in Units /\ more[i].tick = cells)
        /\ \A i \in DOMAIN q : i \in DOMAIN more /\ more[i] = q[i]
        /\ \A c \in b.keys : \E i \in DOMAIN more : more[i].id = c
                                                  /\ more[i].type = "WORK_UNIT_DONE"
    <2>1. q \in Seq(Units \cup {Settings})
      BY <1>0
    <2>2. PICK k \in Runs, t \in 1..TicksCnt : k = b.keys /\ t = cells
      BY <1>2
    <2> DEFINE sum == q \o Answers(k, t)
    <2>3. more = sum
      BY <2>2
    <2>4. /\ sum # <<>> /\ Cardinality(EndsIn(sum)) = Cardinality(EndsIn(q)) + 1
          /\ Closes(sum[Len(sum)])
          /\ \A i \in DOMAIN sum : (i \in DOMAIN q /\ sum[i] = q[i])
                                       \/ (sum[i] \in Units /\ sum[i].tick = t)
          /\ \A i \in DOMAIN q : i \in DOMAIN sum /\ sum[i] = q[i]
          /\ \A c \in k : \E i \in DOMAIN sum : sum[i].id = c
                                                  /\ sum[i].type = "WORK_UNIT_DONE"
      <3> HIDE DEF q
      <3>1. QED
        BY <2>1, EndsAdded
    <2> HIDE DEF sum, more, q
    <2>5. QED
      BY <2>2, <2>3, <2>4
  <1>8. Cardinality(EndsIn(q)) \in Nat
    BY <1>0, <1>2, EndsCounted
  <1> HIDE DEF more
  <1>9. Live' = Live
    <2>1. \A t \in Senders : InHand(t)' = InHand(t)
      BY <1>1, <1>5 DEF InHand
    <2>2. Unmoved
      BY <1>1, <2>1 DEF Unmoved
    <2>3. QED
      BY <2>2, UnmovedStock
  <1>10. Ledger'
    BY <1>0, <1>1, <1>9, SameLedger DEF Ledger
  <1>11. Current'
    <2>1. ASSUME NEW v \in Workers, event[v] # "absent", NEW i \in DOMAIN owes'[v]
          PROVE  owes'[v][i] \in Units /\ owes'[v][i].tick = cells
      <3>1. CASE v = w
        BY <1>0, <1>6, <1>7, <2>1, <3>1 DEF Current
      <3>2. CASE v # w
        BY <1>0, <1>6, <2>1, <3>2 DEF Current
      <3>3. QED
        BY <3>1, <3>2
    <2>2. \A t \in Senders : sender'[t].pc \in {"queue", "send"} => sender'[t] = sender[t]
      BY <1>5
    <2>3. UNCHANGED <<bundles, workunit_queue, event, freed, cells, ticks_done>>
      BY <1>1
    <2>4. \A t \in Senders : sender'[t].pc \in {"queue", "send"} => sender'[t].bundle.tick = cells
      BY <1>0, <2>2 DEF Current
    <2>5. QED
      BY <1>0, <1>9, <2>1, <2>3, <2>4 DEF Current
  <1>12. Answered'
    <2>1. \A v \in Workers : Pending(v)' = Pending(v) /\ (v # w => EndsIn(owes[v])' = EndsIn(owes[v]))
      BY <1>1, <1>6 DEF Pending, EndsIn
    <2>2. EndsIn(owes[w])' = EndsIn(more)
      BY <1>6 DEF EndsIn
    <2>3. /\ Sending(w)' = Sending(w) \ {s} /\ s \in Sending(w)
          /\ \A v \in Workers : v # w => Sending(v)' = Sending(v)
      BY <1>p, <1>1, <1>5 DEF Sending
    <2>4. /\ Cardinality(Sending(w)) \in Nat
          /\ Cardinality(Sending(w)') = Cardinality(Sending(w)) - 1
      <3>1. Sending(w) \subseteq Holders
        BY DEF Sending, Holders
      <3>2. QED
        BY <2>3, <3>1, Groups, FS_Subset, FS_CardinalityType, FS_RemoveElement
    <2>5. \A v \in Workers : Cardinality(EndsIn(owes[v])') + Pending(v)' + Cardinality(Sending(v)')
                               = Len(workunit_queue'[v])
      <3> SUFFICES ASSUME NEW v \in Workers
          PROVE Cardinality(EndsIn(owes[v])') + Pending(v)' + Cardinality(Sending(v)')
                               = Len(workunit_queue'[v])
        OBVIOUS
      <3>1. CASE v # w
        BY <1>0, <1>1, <2>1, <2>3, <3>1 DEF Answered
      <3>2. CASE v = w
        <4>1. /\ Cardinality(EndsIn(owes[v])') = Cardinality(EndsIn(q)) + 1
              /\ Pending(v)' = Pending(w) /\ Pending(w) \in Nat
              /\ Cardinality(Sending(v)') = Cardinality(Sending(w)) - 1
              /\ workunit_queue'[v] = workunit_queue[w]
          BY <1>1, <1>2, <1>7, <2>1, <2>2, <2>4, <3>2 DEF Pending
        <4>2. Cardinality(EndsIn(q)) + Pending(w) + Cardinality(Sending(w)) = Len(workunit_queue[w])
          BY <1>0, <1>2 DEF Answered
        <4>3. QED
          BY <1>8, <2>4, <4>1, <4>2
      <3>3. QED
        BY <3>1, <3>2
    <2>6. \A v \in Workers : event'[v] # "absent" /\ owes'[v] # <<>> => Closes(owes'[v][Len(owes'[v])])
      <3> SUFFICES ASSUME NEW v \in Workers, event'[v] # "absent", owes'[v] # <<>>
          PROVE Closes(owes'[v][Len(owes'[v])])
        OBVIOUS
      <3>1. CASE v = w
        BY <1>6, <1>7, <3>1
      <3>2. CASE v # w
        BY <1>0, <1>1, <1>6, <3>2 DEF Answered
      <3>3. QED
        BY <3>1, <3>2
    <2>7. \A v \in Workers : owes[v] # <<>> => owes'[v] # <<>>
      BY <1>6, <1>7
    <2>9. ASSUME NEW t \in Senders, sender'[t].pc = "send", NEW v \in Workers, sender'[t].link = v
          PROVE  workunit_queue'[v] # <<>> /\ Last(workunit_queue'[v]) = sender'[t].bundle
      <3>1. sender'[t] = sender[t] /\ workunit_queue' = workunit_queue
        BY <1>1, <1>5, <2>9
      <3>2. QED
        BY <1>0, <2>9, <3>1 DEF Answered, Last
    <2>10. \A t \in Senders : sender'[t].pc = "send" => sender'[t].link \in Workers
      BY <1>0, <1>5 DEF TypeInv, Typed, Stocked
    <2>11. \A v \in Workers : event'[v] = "save" => owes'[v] # <<>>
      BY <1>0, <1>1, <2>7 DEF Answered
    <2>12. QED
      BY <2>5, <2>6, <2>9, <2>10, <2>11, AnsweredNext
  <1>13. Whole'
    <2>1. \A c \in CellIds, v \in Workers : Owed(v, c) => Owed(v, c)'
      <3> SUFFICES ASSUME NEW c \in CellIds, NEW v \in Workers, Owed(v, c) PROVE Owed(v, c)'
        OBVIOUS
      <3>1. CASE v = w
        BY <1>6, <1>7, <3>1 DEF Owed
      <3>2. CASE v # w
        BY <1>6, <3>2 DEF Owed
      <3>3. QED
        BY <3>1, <3>2
    <2>2. \A c \in b.keys : Owed(w, c)'
      BY <1>6, <1>7 DEF Owed
    <2>3. ASSUME NEW c \in CellIds, Coming(c) PROVE Coming(c)'
      <3>1. CASE \E t \in Senders : sender[t].pc \in {"queue", "send"} /\ c \in sender[t].bundle.keys
        <4>1. PICK t \in Senders : sender[t].pc \in {"queue", "send"} /\ c \in sender[t].bundle.keys
          BY <3>1
        <4>2. CASE t = s
          BY <1>p, <2>2, <4>1, <4>2 DEF Coming
        <4>3. CASE t # s
          BY <1>5, <4>1, <4>3 DEF Coming
        <4>4. QED
          BY <4>2, <4>3
      <3>2. CASE \E v \in Workers : Owed(v, c)
        BY <2>1, <3>2 DEF Coming
      <3>3. CASE \/ \E d \in Dividers : \E k \in divide[d].keys : c \in k
                 \/ \E i \in DOMAIN bundles : c \in bundles[i].keys
        BY <1>1, <3>3 DEF Coming
      <3>4. QED
        BY <2>3, <3>1, <3>2, <3>3 DEF Coming
    <2>4. Assigning => Assigning'
      BY <1>1 DEF Assigning
    <2>5. QED
      BY <1>0, <1>1, <2>3, <2>4, SameWhole
  <1>14. Files'
    BY <1>0, <1>1 DEF Files, Launched
  <1>15. QED
    BY <1>10, <1>11, <1>12, <1>13, <1>14 DEF Rest
-------------------------------------------------------------------------------
(* The steps of an event thread.                                             *)
LEMMA IntegrateRest ==
    ASSUME Settled, TickInv, NEW w \in Workers, EventIntegrate(w), mishaps' = {}
    PROVE  Rest'
  <1> USE DEF pool, peers, files, tick, stop
  <1>0. /\ TypeInv /\ Inv /\ Shape /\ Ledger /\ Current /\ Answered /\ Whole /\ Files /\ Admission
        /\ owes \in [Workers -> Seq(Units \cup {Settings})] /\ event \in [Workers -> EventPlaces]
        /\ new_dataset \in [CellIds -> 0..TicksCnt] /\ unsaved \in [Workers -> 0..TicksCnt]
        /\ owes[w] \in Seq(Units \cup {Settings})
    BY DEF TickInv, TypeInv, Typed, Stocked, Peered, Ticking, Inv, Shape
  <1>1. /\ event[w] = "receive" /\ owes[w] # <<>> /\ cells # 0
        /\ owes' = [owes EXCEPT ![w] = Tail(@)]
        /\ new_dataset' = [new_dataset EXCEPT ![Head(owes[w]).id] = Head(owes[w]).tick]
        /\ event' = [event EXCEPT ![w] = IF Head(owes[w]).ends THEN "save_last" ELSE "save"]
        /\ unsaved' = [unsaved EXCEPT ![w] = Head(owes[w]).tick]
        /\ UNCHANGED <<bundles, sender, workunit_queue, freed, divide,
                       cells, total_bundles, bundles_done, ticks_done, fp, exit_sem>>
    BY <1>0 DEF EventIntegrate, Noted
  <1> DEFINE q == owes[w]
             rest == Tail(owes[w])
  <1>2. /\ Head(q) = q[1] /\ 1 \in DOMAIN q
        /\ \A i \in DOMAIN rest : i + 1 \in DOMAIN q /\ rest[i] = q[i + 1]
        /\ \A i \in DOMAIN q : i # 1 => i - 1 \in DOMAIN rest /\ rest[i - 1] = q[i]
    BY <1>0, <1>1, KeysTaken, LenProperties
  <1>3. PICK unit \in Units : unit = Head(q) /\ unit.tick = cells
    <2>1. \A i \in DOMAIN owes[w] : owes[w][i] \in Units /\ owes[w][i].tick = cells
      BY <1>0, <1>1 DEF Current
    <2>2. q[1] \in Units /\ q[1].tick = cells
      BY <1>2, <2>1
    <2>3. QED
      BY <1>2, <2>2
  <1>4. /\ unit.id \in CellIds /\ unit.tick = cells /\ unit.type = "WORK_UNIT_DONE"
        /\ (Closes(unit) <=> unit.ends)
    BY <1>3 DEF Units, Closes
  <1>5. /\ owes'[w] = rest /\ event'[w] = (IF unit.ends THEN "save_last" ELSE "save")
        /\ new_dataset'[unit.id] = cells /\ unsaved'[w] = cells
        /\ \A c \in CellIds : c # unit.id => new_dataset'[c] = new_dataset[c]
        /\ \A v \in Workers : v # w => owes'[v] = owes[v] /\ event'[v] = event[v]
                                       /\ unsaved'[v] = unsaved[v]
    BY <1>0, <1>1, <1>3, <1>4
  <1>6. /\ Closes(unit) => Cardinality(EndsIn(q)) = Cardinality(EndsIn(rest)) + 1
        /\ ~Closes(unit) => Cardinality(EndsIn(q)) = Cardinality(EndsIn(rest))
        /\ rest # <<>> => rest[Len(rest)] = q[Len(q)]
        /\ rest = <<>> => q[Len(q)] = unit
    <2>1. q \in Seq(Units \cup {Settings}) /\ q # <<>>
      BY <1>0, <1>1
    <2>2. unit = Head(q)
      BY <1>3
    <2> HIDE DEF q
    <2>3. QED
      BY <2>1, <2>2, EndsTaken DEF q
  <1>7. Cardinality(EndsIn(q)) \in Nat /\ Cardinality(EndsIn(rest)) \in Nat
    <2>1. rest \in Seq(Units \cup {Settings})
      BY <1>0, <1>1, KeysTaken
    <2>2. QED
      BY <1>0, <2>1, EndsCounted
  <1>8. q[Len(q)] \in Units \cup {Settings} /\ Closes(q[Len(q)])
    <2>1. Closes(q[Len(q)])
      BY <1>0, <1>1 DEF Answered
    <2>2. Len(q) \in DOMAIN q
      BY <1>0, <1>1, LenProperties, EmptySeq
    <2>3. QED
      BY <1>0, <2>1, <2>2, LenProperties
  <1> HIDE DEF q, rest
  <1>9. Live' = Live
    <2>1. Unmoved
      BY <1>1 DEF Unmoved, InHand
    <2>2. QED
      BY <2>1, UnmovedStock
  <1>10. Ledger'
    <2>1. \A v \in Workers : /\ event'[v] = "done" <=> event[v] = "done"
                             /\ event'[v] \in {"all_done", "reopen"} => bundles_done = N
      BY <1>0, <1>1, <1>5 DEF Ledger
    <2>2. QED
      BY <1>0, <1>1, <1>9, <2>1, SameLedger
  <1>11. Current'
    <2>1. ASSUME NEW v \in Workers, event'[v] # "absent", NEW i \in DOMAIN owes'[v]
          PROVE  owes'[v][i] \in Units /\ owes'[v][i].tick = cells
      <3>1. CASE v = w
        <4>1. \A j \in DOMAIN q : q[j] \in Units /\ q[j].tick = cells
          BY <1>0, <1>1 DEF Current, q
        <4>2. i \in DOMAIN rest /\ owes'[v][i] = rest[i]
          BY <1>5, <2>1, <3>1
        <4>3. i + 1 \in DOMAIN q /\ rest[i] = q[i + 1]
          BY <1>2, <4>2
        <4>4. QED
          BY <4>1, <4>2, <4>3
      <3>2. CASE v # w
        BY <1>0, <1>5, <2>1, <3>2 DEF Current
      <3>3. QED
        BY <3>1, <3>2
    <2>2. QED
      BY <1>0, <1>1, <1>9, <2>1 DEF Current
  <1>12. Answered'
    <2>1. ASSUME NEW v \in Workers
          PROVE  Cardinality(EndsIn(owes[v])') + Pending(v)' + Cardinality(Sending(v)')
                    = Len(workunit_queue'[v])
      <3>1. Sending(v)' = Sending(v)
        BY <1>1 DEF Sending
      <3>2. CASE v # w
        <4>1. EndsIn(owes[v])' = EndsIn(owes[v]) /\ Pending(v)' = Pending(v)
          BY <1>5, <3>2 DEF EndsIn, Pending
        <4>2. QED
          BY <1>0, <1>1, <3>1, <4>1 DEF Answered
      <3>3. CASE v = w
        <4>1. EndsIn(owes[v])' = EndsIn(rest)
          BY <1>5, <3>3 DEF EndsIn
        <4>2. Pending(v) = 0 /\ Pending(v)' = IF unit.ends THEN 1 ELSE 0
          BY <1>1, <1>5, <3>3 DEF Pending
        <4>3. /\ Cardinality(EndsIn(q)) + 0 + Cardinality(Sending(v)) = Len(workunit_queue[v])
              /\ Cardinality(Sending(v)) \in Nat
          <5>1. Sending(v) \subseteq Holders
            BY DEF Sending, Holders
          <5>2. Cardinality(Sending(v)) \in Nat
            BY <5>1, Groups, FS_Subset, FS_CardinalityType
          <5>3. QED
            BY <1>0, <3>3, <4>2, <5>2 DEF Answered, q
        <4>4. Cardinality(EndsIn(rest)) + Pending(v)' = Cardinality(EndsIn(q))
          BY <1>4, <1>6, <1>7, <4>2
        <4>5. QED
          BY <1>1, <1>7, <3>1, <4>1, <4>3, <4>4
      <3>4. QED
        BY <3>2, <3>3
    <2>2. \A v \in Workers : event'[v] # "absent" /\ owes'[v] # <<>>
                                => Closes(owes'[v][Len(owes'[v])])
      <3> SUFFICES ASSUME NEW v \in Workers, event'[v] # "absent", owes'[v] # <<>>
          PROVE Closes(owes'[v][Len(owes'[v])])
        OBVIOUS
      <3>1. CASE v = w
        BY <1>5, <1>6, <1>8, <3>1
      <3>2. CASE v # w
        BY <1>0, <1>5, <3>2 DEF Answered
      <3>3. QED
        BY <3>1, <3>2
    <2>3. \A v \in Workers : event'[v] = "save" => owes'[v] # <<>>
      <3> SUFFICES ASSUME NEW v \in Workers, event'[v] = "save" PROVE owes'[v] # <<>>
        OBVIOUS
      <3>1. CASE v = w
        BY <1>4, <1>5, <1>6, <1>8, <3>1
      <3>2. CASE v # w
        BY <1>0, <1>5, <3>2 DEF Answered
      <3>3. QED
        BY <3>1, <3>2
    <2>4. \A s \in Senders : sender'[s].pc = "send" => sender'[s].link \in Workers
      BY <1>0, <1>1 DEF TypeInv, Typed, Stocked
    <2>5. \A s \in Senders, v \in Workers : sender'[s].pc = "send" /\ sender'[s].link = v =>
                workunit_queue'[v] # <<>> /\ Last(workunit_queue'[v]) = sender'[s].bundle
      BY <1>0, <1>1 DEF Answered
    <2>6. QED
      BY <2>1, <2>2, <2>3, <2>4, <2>5, AnsweredNext
  <1>13. Whole'
    <2>1. ASSUME NEW c \in CellIds, new_dataset[c] = cells \/ Coming(c)
          PROVE  new_dataset'[c] = cells \/ Coming(c)'
      <3>1. CASE c = unit.id
        BY <1>5, <3>1
      <3>2. CASE new_dataset[c] = cells /\ c # unit.id
        BY <1>5, <3>2
      <3>3. CASE c # unit.id /\ \E v \in Workers : Owed(v, c)
        <4>1. PICK v \in Workers : Owed(v, c)
          BY <3>3
        <4>2. CASE v # w
          BY <1>5, <4>1, <4>2 DEF Coming, Owed
        <4>3. CASE v = w
          <5>1. PICK i \in DOMAIN q : q[i].type = "WORK_UNIT_DONE" /\ q[i].id = c
            BY <4>1, <4>3 DEF Owed, q
          <5>2. i # 1
            BY <1>2, <1>3, <3>3, <5>1
          <5>3. i - 1 \in DOMAIN rest /\ rest[i - 1] = q[i]
            BY <1>2, <5>2
          <5>4. Owed(w, c)'
            BY <1>5, <5>1, <5>3 DEF Owed
          <5>5. QED
            BY <5>4 DEF Coming
        <4>4. QED
          BY <4>2, <4>3
      <3>4. CASE \/ \E d \in Dividers : \E k \in divide[d].keys : c \in k
                 \/ \E i \in DOMAIN bundles : c \in bundles[i].keys
                 \/ \E s \in Senders : sender[s].pc \in {"queue", "send"} /\ c \in sender[s].bundle.keys
        BY <1>1, <3>4 DEF Coming
      <3>5. QED
        BY <2>1, <3>1, <3>2, <3>3, <3>4 DEF Coming
    <2>2. Assigning => Assigning'
      BY <1>1 DEF Assigning
    <2>3. QED
      BY <1>0, <1>1, <2>1, <2>2, SameWhole
  <1>14. Files'
    <2>1. \A v \in Workers : unsaved'[v] # 0 => event'[v] \in {"save", "save_last"}
                                                /\ unsaved'[v] = cells
      BY <1>0, <1>5 DEF Files
    <2>2. (\A v \in Workers : event'[v] # "reopen") => (\A v \in Workers : event[v] # "reopen")
      BY <1>1, <1>5
    <2>3. Launched' <=> Launched
      BY <1>1 DEF Launched
    <2>4. QED
      BY <1>0, <1>1, <2>1, <2>2, <2>3 DEF Files
  <1>15. QED
    BY <1>10, <1>11, <1>12, <1>13, <1>14 DEF Rest

LEMMA SaveRest == ASSUME Settled, TickInv, NEW w \in Workers, EventSave(w) PROVE Rest'
  <1> USE DEF pool, peers, files, tick, stop
  <1>0. /\ TypeInv /\ Inv /\ Shape /\ Ledger /\ Current /\ Answered /\ Whole /\ Files
        /\ event \in [Workers -> EventPlaces] /\ unsaved \in [Workers -> 0..TicksCnt]
    BY DEF TickInv, TypeInv, Typed, Ticking, Inv, Shape
  <1>1. /\ event[w] \in {"save", "save_last"}
        /\ event' = [event EXCEPT ![w] = IF @ = "save" THEN "receive" ELSE "pop"]
        /\ unsaved' = [unsaved EXCEPT ![w] = 0]
        /\ UNCHANGED <<bundles, sender, workunit_queue, owes, freed, divide, new_dataset,
                       cells, total_bundles, bundles_done, ticks_done, fp, exit_sem>>
    BY DEF EventSave
  <1>2. /\ event'[w] = (IF event[w] = "save" THEN "receive" ELSE "pop") /\ unsaved'[w] = 0
        /\ \A v \in Workers : v # w => event'[v] = event[v] /\ unsaved'[v] = unsaved[v]
    BY <1>0, <1>1
  <1>3. Live' = Live
    <2>1. Unmoved
      BY <1>1 DEF Unmoved, InHand
    <2>2. QED
      BY <2>1, UnmovedStock
  <1>4. Ledger'
    <2>1. \A v \in Workers : /\ event'[v] = "done" <=> event[v] = "done"
                             /\ event'[v] \in {"all_done", "reopen"} => bundles_done = N
      BY <1>0, <1>1, <1>2 DEF Ledger
    <2>2. QED
      BY <1>0, <1>1, <1>3, <2>1, SameLedger
  <1>5. Current'
    <2>1. \A v \in Workers : event'[v] = "absent" <=> event[v] = "absent"
      BY <1>1, <1>2
    <2>2. QED
      BY <1>0, <1>1, <1>3, <2>1, SameCurrent DEF Current
  <1>6. Answered'
    <2>1. \A v \in Workers : /\ Pending(v)' = Pending(v) /\ (event'[v] = "save" => event[v] = "save")
                             /\ event'[v] = "absent" <=> event[v] = "absent"
      BY <1>1, <1>2 DEF Pending
    <2>2. QED
      BY <1>0, <1>1, <2>1, SameAnswered
  <1>7. Whole'
    <2>1. \A c \in CellIds : Coming(c) => Coming(c)'
      BY <1>1 DEF Coming, Owed
    <2>2. Assigning => Assigning'
      BY <1>1 DEF Assigning
    <2>3. QED
      BY <1>0, <1>1, <2>1, <2>2, SameWhole
  <1>8. Files'
    <2>1. \A v \in Workers : unsaved'[v] # 0 => event'[v] \in {"save", "save_last"}
                                                /\ unsaved'[v] = cells
      BY <1>0, <1>2 DEF Files
    <2>2. (\A v \in Workers : event'[v] # "reopen") => (\A v \in Workers : event[v] # "reopen")
      BY <1>1, <1>2
    <2>3. Launched' <=> Launched
      BY <1>1 DEF Launched
    <2>4. QED
      BY <1>0, <1>1, <2>1, <2>2, <2>3 DEF Files
  <1>9. QED
    BY <1>4, <1>5, <1>6, <1>7, <1>8 DEF Rest

LEMMA PopRest == ASSUME Settled, TickInv, NEW w \in Workers, EventPop(w) PROVE Rest'
  <1> USE DEF pool, peers, files, tick, stop
  <1>0. /\ TypeInv /\ Inv /\ Shape /\ Ledger /\ Current /\ Answered /\ Whole /\ Files /\ OnePlace
        /\ event \in [Workers -> EventPlaces] /\ workunit_queue \in [Workers -> Seq(Sliced)]
        /\ owes \in [Workers -> Seq(Units \cup {Settings})] /\ bundles_done \in Nat
    BY DEF TickInv, TypeInv, Typed, Stocked, Peered, Ticking, Inv, Shape
  <1>1. /\ event[w] = "pop" /\ event' = [event EXCEPT ![w] = "done"]
        /\ workunit_queue[w] # <<>> /\ workunit_queue' = [workunit_queue EXCEPT ![w] = Tail(@)]
        /\ freed' = freed \cup {Head(workunit_queue[w])}
        /\ UNCHANGED <<bundles, sender, owes, divide, new_dataset, unsaved,
                       cells, total_bundles, bundles_done, ticks_done, fp, exit_sem>>
    <2>1. event[w] = "pop"
      BY DEF EventPop
    <2>2. workunit_queue[w] # <<>>
      BY <1>0, <2>1, OwesForBundle
    <2>3. QED
      BY <2>1, <2>2 DEF EventPop
  <1> DEFINE q == workunit_queue[w]
             rest == Tail(q)
             b == Head(q)
  <1>2. /\ event'[w] = "done" /\ workunit_queue'[w] = rest
        /\ \A v \in Workers : v # w => event'[v] = event[v] /\ workunit_queue'[v] = workunit_queue[v]
    BY <1>0, <1>1
  <1>3. /\ b = q[1] /\ b \in Sliced /\ 1 \in DOMAIN q /\ Len(rest) = Len(q) - 1 /\ Len(q) \in Nat
        /\ \A i \in DOMAIN rest : i + 1 \in DOMAIN q /\ rest[i] = q[i + 1]
        /\ \A i \in DOMAIN q : i # 1 => i - 1 \in DOMAIN rest /\ rest[i - 1] = q[i]
        /\ \A i \in DOMAIN q : i \in Nat
    BY <1>0, <1>1, KeysTaken, LenProperties
  <1>4. b.keys \in Live /\ Live' = Live \ {b.keys}
    BY <1>0, <1>1, PopTakes
  <1>5. b.tick = cells
    <2>1. \A i \in DOMAIN q : q[i].tick = cells
      BY <1>0 DEF Current
    <2>2. QED
      BY <1>3, <2>1
  <1> HIDE DEF q, rest, b
  <1>6. ~(cells = 0 \/ Assigning)
    BY <1>0, <1>4 DEF Ledger
  <1>7. Ledger'
    <2>1. Counting' = Counting \cup {w} /\ w \notin Counting /\ N' = N
      BY <1>1, <1>2 DEF Counting, N
    <2>2. Cardinality(Counting') = Cardinality(Counting) + 1 /\ Cardinality(Counting) \in Nat
      <3>1. Counting \subseteq Workers
        BY DEF Counting
      <3>2. QED
        BY <2>1, <3>1, Groups, FS_Subset, FS_AddElement, FS_CardinalityType
    <2>3. Cardinality(Live') = Cardinality(Live) - 1 /\ Cardinality(Live) \in Nat
      BY <1>0, <1>4, LiveCounted, FS_RemoveElement
    <2>4. bundles_done' + Cardinality(Counting') + Cardinality(Live') <= N'
      <3>1. bundles_done + Cardinality(Counting) + Cardinality(Live) <= N /\ N \in Nat
        BY <1>0, Groups DEF Ledger
      <3>2. QED
        BY <1>0, <1>1, <2>1, <2>2, <2>3, <3>1
    <2>5. ~(cells' = 0 \/ Assigning')
      BY <1>1, <1>6 DEF Assigning
    <2>6. \A v \in Workers : event'[v] \in {"all_done", "reopen"} => bundles_done' = N'
      BY <1>0, <1>1, <1>2, <2>1 DEF Ledger
    <2>7. cells' # 0 => total_bundles' = N' /\ cells' = ticks_done' + 1
      BY <1>0, <1>1, <2>1 DEF Ledger
    <2>8. \A d \in Dividers : divide'[d].pc \notin {"assign", "count"}
      BY <1>1, <1>6 DEF Assigning
    <2>9. QED
      BY <2>4, <2>5, <2>6, <2>7, <2>8 DEF Ledger
  <1>8. Current'
    <2>1. ASSUME NEW v \in Workers, NEW i \in DOMAIN workunit_queue'[v]
          PROVE  workunit_queue'[v][i].tick = cells
      <3>1. CASE v = w
        <4>1. i \in DOMAIN rest /\ workunit_queue'[v][i] = rest[i]
          BY <1>2, <2>1, <3>1
        <4>2. i + 1 \in DOMAIN q /\ rest[i] = q[i + 1]
          BY <1>3, <4>1
        <4>3. \A j \in DOMAIN q : q[j].tick = cells
          BY <1>0 DEF Current, q
        <4>4. QED
          BY <4>1, <4>2, <4>3
      <3>2. CASE v # w
        BY <1>0, <1>2, <2>1, <3>2 DEF Current
      <3>3. QED
        BY <3>1, <3>2
    <2>2. \A v \in Workers : event'[v] = "absent" <=> event[v] = "absent"
      BY <1>1, <1>2
    <2>3. ASSUME NEW x \in freed'
          PROVE  x.tick <= ticks_done \/ (x.tick = cells /\ x.keys \notin Live')
      <3>1. CASE x \in freed
        BY <1>0, <1>4, <3>1 DEF Current
      <3>2. CASE x = b
        BY <1>4, <1>5, <3>2
      <3>3. QED
        BY <1>1, <2>3, <3>1, <3>2 DEF b, q
    <2>4. QED
      BY <1>0, <1>1, <2>1, <2>2, <2>3 DEF Current
  <1>9. Answered'
    <2>1. ASSUME NEW v \in Workers
          PROVE  Cardinality(EndsIn(owes[v])') + Pending(v)' + Cardinality(Sending(v)')
                    = Len(workunit_queue'[v])
      <3>1. Sending(v)' = Sending(v) /\ EndsIn(owes[v])' = EndsIn(owes[v])
        BY <1>1 DEF Sending, EndsIn
      <3>2. CASE v # w
        <4>1. Pending(v)' = Pending(v)
          BY <1>2, <3>2 DEF Pending
        <4>2. QED
          BY <1>0, <1>2, <3>1, <3>2, <4>1 DEF Answered
      <3>3. CASE v = w
        <4>1. Pending(v) = 1 /\ Pending(v)' = 0
          BY <1>1, <1>2, <3>3 DEF Pending
        <4>2. Cardinality(EndsIn(owes[v])) + Pending(v) + Cardinality(Sending(v)) = Len(q)
          BY <1>0, <3>3 DEF Answered, q
        <4>3. Cardinality(EndsIn(owes[v])) \in Nat
          BY <1>0, EndsCounted
        <4>4. Cardinality(Sending(v)) \in Nat
          <5>1. Sending(v) \subseteq Holders
            BY DEF Sending, Holders
          <5>2. QED
            BY <5>1, Groups, FS_Subset, FS_CardinalityType
        <4>5. Len(workunit_queue'[v]) = Len(q) - 1
          BY <1>2, <1>3, <3>3
        <4>6. QED
          BY <1>3, <3>1, <4>1, <4>2, <4>3, <4>4, <4>5
      <3>4. QED
        BY <3>2, <3>3
    <2>2. \A v \in Workers : event'[v] # "absent" /\ owes'[v] # <<>>
                                => Closes(owes'[v][Len(owes'[v])])
      BY <1>0, <1>1, <1>2 DEF Answered
    <2>3. \A v \in Workers : event'[v] = "save" => owes'[v] # <<>>
      BY <1>0, <1>1, <1>2 DEF Answered
    <2>5. \A s \in Senders : sender'[s].pc = "send" => sender'[s].link \in Workers
      BY <1>0, <1>1 DEF TypeInv, Typed, Stocked
    <2>6. ASSUME NEW s \in Senders, NEW v \in Workers, sender'[s].pc = "send", sender'[s].link = v
          PROVE  workunit_queue'[v] # <<>> /\ Last(workunit_queue'[v]) = sender'[s].bundle
      <3>1. /\ sender[s].pc = "send" /\ sender[s].link = v /\ sender' = sender
            /\ Last(workunit_queue[v]) = sender[s].bundle /\ workunit_queue[v] # <<>>
        BY <1>0, <1>1, <2>6 DEF Answered
      <3>2. CASE v # w
        BY <1>2, <3>1, <3>2
      <3>3. CASE v = w
        <4>1. Sending(w) # {} /\ IsFiniteSet(Sending(w))
          <5>1. s \in Sending(w) /\ Sending(w) \subseteq Holders
            BY <3>1, <3>3 DEF Sending, Holders
          <5>2. QED
            BY <5>1, Groups, FS_Subset
        <4>2. Cardinality(Sending(w)) \in Nat /\ Cardinality(Sending(w)) # 0
          BY <4>1, FS_CardinalityType, FS_EmptySet
        <4>3. Cardinality(EndsIn(owes[w])) + 1 + Cardinality(Sending(w)) = Len(q)
              /\ Cardinality(EndsIn(owes[w])) \in Nat
          BY <1>0, <1>1, EndsCounted DEF Answered, Pending, q
        <4>4. Len(q) >= 2
          BY <4>2, <4>3
        <4>5. Len(q) \in DOMAIN q
          BY <1>0, <1>3, <4>4, LenProperties DEF q
        <4>6. Len(q) - 1 \in DOMAIN rest /\ rest[Len(q) - 1] = q[Len(q)] /\ Len(rest) = Len(q) - 1
          BY <1>3, <4>4, <4>5
        <4>7. rest # <<>>
          BY <4>6, EmptySeq
        <4>8. QED
          BY <1>2, <3>1, <3>3, <4>6, <4>7 DEF Last, q
      <3>4. QED
        BY <3>2, <3>3
    <2>7. QED
      BY <2>1, <2>2, <2>3, <2>5, <2>6, AnsweredNext
  <1>10. Whole'
    <2>1. \A c \in CellIds : Coming(c) => Coming(c)'
      BY <1>1 DEF Coming, Owed
    <2>2. Assigning => Assigning'
      BY <1>1 DEF Assigning
    <2>3. QED
      BY <1>0, <1>1, <2>1, <2>2, SameWhole
  <1>11. Files'
    <2>1. \A v \in Workers : unsaved'[v] # 0 => event'[v] \in {"save", "save_last"}
                                                /\ unsaved'[v] = cells
      BY <1>0, <1>1, <1>2 DEF Files
    <2>2. (\A v \in Workers : event'[v] # "reopen") => (\A v \in Workers : event[v] # "reopen")
      BY <1>1, <1>2
    <2>3. Launched' <=> Launched
      BY <1>1 DEF Launched
    <2>4. QED
      BY <1>0, <1>1, <2>1, <2>2, <2>3 DEF Files
  <1>12. QED
    BY <1>7, <1>8, <1>9, <1>10, <1>11 DEF Rest

LEMMA CountedRest == ASSUME Settled, TickInv, NEW w \in Workers, EventCount(w) PROVE Rest'
  <1> USE DEF pool, peers, files, tick, stop
  <1>0. /\ TypeInv /\ Inv /\ Shape /\ Ledger /\ Current /\ Answered /\ Whole /\ Files
        /\ event \in [Workers -> EventPlaces] /\ bundles_done \in Nat
    BY DEF TickInv, TypeInv, Typed, Ticking, Inv, Shape
  <1>1. /\ event[w] = "done" /\ BundlesDoneFree /\ bundles_done' = bundles_done + 1
        /\ event' = [event EXCEPT ![w] =
                        IF bundles_done + 1 = total_bundles THEN "all_done" ELSE "receive"]
        /\ UNCHANGED <<bundles, sender, workunit_queue, owes, freed, divide, new_dataset, unsaved,
                       cells, total_bundles, ticks_done, fp, exit_sem>>
    BY DEF EventCount
  <1>2. /\ event'[w] = (IF bundles_done + 1 = total_bundles THEN "all_done" ELSE "receive")
        /\ \A v \in Workers : v # w => event'[v] = event[v]
    BY <1>0, <1>1
  <1>3. Live' = Live
    <2>1. Unmoved
      BY <1>1 DEF Unmoved, InHand
    <2>2. QED
      BY <2>1, UnmovedStock
  <1>4. w \in Counting /\ ~(cells = 0 \/ Assigning) /\ total_bundles = N /\ cells = ticks_done + 1
    <2>1. w \in Counting
      BY <1>1 DEF Counting
    <2>2. QED
      BY <1>0, <2>1 DEF Ledger
  <1>5. Ledger'
    <2>1. Counting' = Counting \ {w} /\ N' = N
      BY <1>1, <1>2 DEF Counting, N
    <2>2. Cardinality(Counting') = Cardinality(Counting) - 1 /\ Cardinality(Counting) \in Nat
      <3>1. Counting \subseteq Workers
        BY DEF Counting
      <3>2. QED
        BY <1>4, <2>1, <3>1, Groups, FS_Subset, FS_RemoveElement, FS_CardinalityType
    <2>3. Cardinality(Live') = Cardinality(Live) /\ Cardinality(Live) \in Nat
      BY <1>0, <1>3, LiveCounted
    <2>4. bundles_done' + Cardinality(Counting') + Cardinality(Live') <= N'
      <3>1. bundles_done + Cardinality(Counting) + Cardinality(Live) <= N /\ N \in Nat
        BY <1>0, Groups DEF Ledger
      <3>2. QED
        BY <1>0, <1>1, <2>1, <2>2, <2>3, <3>1
    <2>5. ~(cells' = 0 \/ Assigning')
      BY <1>1, <1>4 DEF Assigning
    <2>6. \A v \in Workers : event'[v] \in {"all_done", "reopen"} => bundles_done' = N'
      BY <1>1, <1>2, <1>4, <2>1 DEF BundlesDoneFree
    <2>7. cells' # 0 => total_bundles' = N' /\ cells' = ticks_done' + 1
      BY <1>1, <1>4, <2>1
    <2>8. \A d \in Dividers : divide'[d].pc \notin {"assign", "count"}
      BY <1>1, <1>4 DEF Assigning
    <2>9. QED
      BY <2>4, <2>5, <2>6, <2>7, <2>8 DEF Ledger
  <1>6. Current'
    <2>1. \A v \in Workers : event'[v] = "absent" <=> event[v] = "absent"
      BY <1>1, <1>2
    <2>2. QED
      BY <1>0, <1>1, <1>3, <2>1, SameCurrent DEF Current
  <1>7. Answered'
    <2>1. \A v \in Workers : /\ Pending(v)' = Pending(v) /\ (event'[v] = "save" => event[v] = "save")
                             /\ event'[v] = "absent" <=> event[v] = "absent"
      BY <1>1, <1>2 DEF Pending
    <2>2. QED
      BY <1>0, <1>1, <2>1, SameAnswered
  <1>8. Whole'
    <2>1. \A c \in CellIds : Coming(c) => Coming(c)'
      BY <1>1 DEF Coming, Owed
    <2>2. Assigning => Assigning'
      BY <1>1 DEF Assigning
    <2>3. QED
      BY <1>0, <1>1, <2>1, <2>2, SameWhole
  <1>9. Files'
    <2>1. \A v \in Workers : unsaved'[v] # 0 => event'[v] \in {"save", "save_last"}
                                                /\ unsaved'[v] = cells
      BY <1>0, <1>1, <1>2 DEF Files
    <2>2. (\A v \in Workers : event'[v] # "reopen") => (\A v \in Workers : event[v] # "reopen")
      BY <1>1, <1>2
    <2>3. Launched' <=> Launched
      BY <1>1 DEF Launched
    <2>4. QED
      BY <1>0, <1>1, <2>1, <2>2, <2>3 DEF Files
  <1>10. QED
    BY <1>5, <1>6, <1>7, <1>8, <1>9 DEF Rest

LEMMA CloseRest == ASSUME Settled, TickInv, NEW w \in Workers, AllBundlesClose(w) PROVE Rest'
  <1> USE DEF pool, peers, files, tick, stop
  <1>0. /\ TypeInv /\ Inv /\ Shape /\ Ledger /\ Current /\ Answered /\ Whole /\ Files
        /\ event \in [Workers -> EventPlaces]
    BY DEF TickInv, TypeInv, Inv, Shape
  <1>1. /\ event[w] = "all_done" /\ event' = [event EXCEPT ![w] = "reopen"]
        /\ UNCHANGED <<bundles, sender, workunit_queue, owes, freed, divide, new_dataset, unsaved,
                       cells, total_bundles, bundles_done, ticks_done, exit_sem>>
    BY DEF AllBundlesClose
  <1>2. /\ event'[w] = "reopen" /\ \A v \in Workers : v # w => event'[v] = event[v]
    BY <1>0, <1>1
  <1>3. Live' = Live
    <2>1. Unmoved
      BY <1>1 DEF Unmoved, InHand
    <2>2. QED
      BY <2>1, UnmovedStock
  <1>4. Ledger'
    <2>1. \A v \in Workers : /\ event'[v] = "done" <=> event[v] = "done"
                             /\ event'[v] \in {"all_done", "reopen"} => bundles_done = N
      BY <1>0, <1>1, <1>2 DEF Ledger
    <2>2. QED
      BY <1>0, <1>1, <1>3, <2>1, SameLedger
  <1>5. Current'
    <2>1. \A v \in Workers : event'[v] = "absent" <=> event[v] = "absent"
      BY <1>1, <1>2
    <2>2. QED
      BY <1>0, <1>1, <1>3, <2>1, SameCurrent DEF Current
  <1>6. Answered'
    <2>1. \A v \in Workers : /\ Pending(v)' = Pending(v) /\ (event'[v] = "save" => event[v] = "save")
                             /\ event'[v] = "absent" <=> event[v] = "absent"
      BY <1>1, <1>2 DEF Pending
    <2>2. QED
      BY <1>0, <1>1, <2>1, SameAnswered
  <1>7. Whole'
    <2>1. \A c \in CellIds : Coming(c) => Coming(c)'
      BY <1>1 DEF Coming, Owed
    <2>2. Assigning => Assigning'
      BY <1>1 DEF Assigning
    <2>3. QED
      BY <1>0, <1>1, <2>1, <2>2, SameWhole
  <1>8. Files'
    <2>1. \A v \in Workers : unsaved'[v] # 0 => event'[v] \in {"save", "save_last"}
                                                /\ unsaved'[v] = cells
      BY <1>0, <1>1, <1>2 DEF Files
    <2>2. ~\A v \in Workers : event'[v] # "reopen"
      BY <1>2
    <2>3. QED
      BY <1>0, <1>1, <2>1, <2>2 DEF Files
  <1>9. QED
    BY <1>4, <1>5, <1>6, <1>7, <1>8 DEF Rest

(* The tick ends: nothing of it is left, and w divides for the next.         *)
LEMMA DoneRest == ASSUME Settled, TickInv, NEW w \in Workers, AllBundlesDone(w) PROVE Rest'
  <1> USE DEF pool, peers, files, tick, stop
  <1>0. /\ TypeInv /\ Inv /\ Shape /\ Ledger /\ Current /\ Answered /\ Whole /\ Files
        /\ event \in [Workers -> EventPlaces] /\ ticks_done \in Nat /\ exit_sem \in Nat
        /\ OneDivides /\ w \in Dividers
    BY Groups DEF TickInv, TypeInv, Typed, Ticking, Inv, Shape, InTurn
  <1>1. /\ event[w] = "reopen" /\ ticks_done' = ticks_done + 1 /\ bundles_done' = 0 /\ cells' = 0
        /\ fp' = IF ticks_done + 1 < TicksCnt THEN ticks_done + 2 ELSE 0
        /\ \/ /\ ticks_done + 1 < TicksCnt /\ divide' = [divide EXCEPT ![w].pc = "assign"]
              /\ event' = [event EXCEPT ![w] = "divide"] /\ exit_sem' = exit_sem
           \/ /\ ~(ticks_done + 1 < TicksCnt) /\ divide' = divide
              /\ event' = [event EXCEPT ![w] = "receive"] /\ exit_sem' = exit_sem + 1
        /\ UNCHANGED <<workers, bundles, sender, workunit_queue, owes, freed, unsaved>>
    BY DEF AllBundlesDone
  <1>2. /\ event'[w] \in {"divide", "receive"} /\ \A v \in Workers : v # w => event'[v] = event[v]
    BY <1>0, <1>1
  <1>3. /\ \A d \in Dividers : divide'[d].keys = divide[d].keys
        /\ \A d \in Dividers : d # w => divide'[d] = divide[d]
        /\ divide'[w].pc = "assign" \/ divide'[w].pc = divide[w].pc
    <2>1. CASE divide' = [divide EXCEPT ![w].pc = "assign"]
      BY <1>0, <2>1, DivideMoves
    <2>2. CASE divide' = divide
      BY <2>2
    <2>3. QED
      BY <1>1, <2>1, <2>2
  <1>4. /\ Live = {} /\ Counting = {} /\ ~Assigning /\ Launched
        /\ cells = ticks_done + 1 /\ ticks_done < TicksCnt
    BY <1>1, TickIsThrough
  <1>5. /\ bundles = <<>>
        /\ \A s \in Senders : sender[s].pc \notin {"queue", "send"}
        /\ \A v \in Workers : /\ workunit_queue[v] = <<>> /\ owes[v] = <<>>
                              /\ event[v] \notin {"absent", "save", "save_last", "pop"}
                              /\ unsaved[v] = 0
    BY <1>4, NothingLeft
  <1>6. Live' = {} /\ Counting' = {} /\ N' = N
    <2>1. Unmoved
      BY <1>1, <1>3 DEF Unmoved, InHand
    <2>2. QED
      BY <1>2, <1>4, <2>1, UnmovedStock DEF Counting, N
  <1>7. \A b \in freed : b.tick <= ticks_done + 1
    <2>1. \A b \in freed : b.tick <= ticks_done \/ b.tick = ticks_done + 1
      BY <1>0, <1>4 DEF Current
    <2>2. \A b \in freed : b.tick \in Int
      BY DEF TickInv, Admission, Sliced
    <2>3. QED
      BY <1>0, <2>1, <2>2
  <1>8. Ledger'
    <2>1. bundles_done' + Cardinality(Counting') + Cardinality(Live') <= N'
      BY <1>1, <1>6, Groups, FS_EmptySet
    <2>2. \A v \in Workers : event'[v] \notin {"all_done", "reopen"}
      <3> SUFFICES ASSUME NEW v \in Workers, event'[v] \in {"all_done", "reopen"} PROVE FALSE
        OBVIOUS
      <3>1. v # w /\ event[v] \in {"all_done", "reopen"}
        BY <1>2
      <3>2. Busy(v) /\ Busy(w)
        BY <1>1, <3>1 DEF Busy
      <3>3. QED
        BY <1>0, <3>1, <3>2 DEF OneDivides
    <2>3. \A d \in Dividers : divide'[d].pc # "count"
      BY <1>0, <1>3, <1>4 DEF Assigning
    <2>4. QED
      BY <1>1, <1>6, <1>7, <2>1, <2>2, <2>3 DEF Ledger
  <1>9. Current'
    BY <1>1, <1>5, <1>7, EmptySeq DEF Current
  <1>10. Answered'
    <2>1. \A v \in Workers : /\ Pending(v)' = Pending(v) /\ (event'[v] = "save" => event[v] = "save")
                             /\ event'[v] = "absent" <=> event[v] = "absent"
      BY <1>1, <1>2 DEF Pending
    <2>2. QED
      BY <1>0, <1>1, <2>1, SameAnswered
  <1>11. Whole'
    BY <1>1 DEF Whole
  <1>12. Files'
    <2>1. exit_sem = 0
      <3>1. exit_sem > 0 => ticks_done = TicksCnt
        BY <1>0 DEF Files
      <3>2. QED
        BY <1>0, <1>4, <3>1, DispatcherAssumption
    <2>2. exit_sem' > 0 => ticks_done' = TicksCnt
      BY <1>0, <1>1, <1>4, <2>1, DispatcherAssumption
    <2>3. ticks_done' < TicksCnt => fp' = ticks_done' + 1
      BY <1>0, <1>1, DispatcherAssumption
    <2>4. ticks_done' <= TicksCnt
      BY <1>0, <1>1, <1>4, DispatcherAssumption
    <2>5. QED
      BY <1>1, <1>5, <2>2, <2>3, <2>4 DEF Files
  <1>13. QED
    BY <1>8, <1>9, <1>10, <1>11, <1>12 DEF Rest
-------------------------------------------------------------------------------
(* In a steady simulation nobody is lost and no message is out of place.     *)
LEMMA NobodyIsLost ==
    ASSUME Settled, TickInv, NEW w \in Workers
    PROVE  /\ ~EventInvalid(w) /\ ~EventClosed(w) /\ ~WorkerDies(w)
           /\ ~CleanupRepool(w) /\ ~CleanupPost(w) /\ ~CleanupFreeQueue(w)
           /\ ~CleanupUnlink(w) /\ ~CleanupFree(w)
  <1>0. /\ Admission /\ Current /\ TypeInv
        /\ owes \in [Workers -> Seq(Units \cup {Settings})]
    BY DEF TickInv, TypeInv, Typed, Peered
  <1>1. ~EventInvalid(w)
    <2> SUFFICES ASSUME EventInvalid(w) PROVE FALSE
      OBVIOUS
    <2>1. /\ event[w] = "receive" /\ owes[w] # <<>> /\ Head(owes[w]).type = "SETTINGS_APPLIED"
      BY DEF EventInvalid
    <2>2. 1 \in DOMAIN owes[w] /\ Head(owes[w]) = owes[w][1]
      BY <1>0, <2>1, KeysTaken, LenProperties
    <2>3. owes[w][1] \in Units
      BY <1>0, <2>1, <2>2 DEF Current
    <2>4. QED
      BY <2>1, <2>2, <2>3 DEF Units
  <1>2. ~EventClosed(w)
    BY <1>0 DEF EventClosed, Admission, Accepted
  <1>3. ~WorkerDies(w)
    <2>1. losses \in Nat /\ MaxLosses = 0
      BY <1>0 DEF TypeInv, Typed, Peered, Settled
    <2>2. ~(losses < MaxLosses)
      BY <2>1
    <2>3. QED
      BY <2>2 DEF WorkerDies
  <1>4. /\ ~CleanupRepool(w) /\ ~CleanupPost(w) /\ ~CleanupFreeQueue(w)
        /\ ~CleanupUnlink(w) /\ ~CleanupFree(w)
    BY <1>0 DEF CleanupRepool, CleanupPost, CleanupFreeQueue, CleanupUnlink, CleanupFree,
                Admission, LostPlaces
  <1>5. QED
    BY <1>1, <1>2, <1>3, <1>4

LEMMA InitAdmits == Init => Admission
  <1> SUFFICES ASSUME Init PROVE Admission
    OBVIOUS
  <1>1. /\ workers = LQ!NewQueue /\ connect.pc = "accept" /\ freed = {} /\ cells = 0
        /\ sender_count = 0 /\ \A s \in Senders : sender[s].pc = "wait"
        /\ \A w \in Workers : event[w] = "absent" /\ owes[w] = <<>>
    BY DEF Init
  <1>2. divide[Main].pc = "none"
    BY Groups DEF Init
  <1>3. Holders = {} /\ Accepted = {}
    BY <1>1 DEF Holders, Accepted
  <1>4. workers.count + Cardinality(Holders) = Cardinality(Accepted)
    BY <1>1, <1>3, FS_EmptySet DEF LQ!NewQueue
  <1>5. \A w \in Workers : event[w] \notin LostPlaces
    BY <1>1 DEF LostPlaces
  <1>6. QED
    BY <1>1, <1>2, <1>3, <1>4, <1>5 DEF Admission, Launched

LEMMA InitHanded == Init => Handed
  <1> SUFFICES ASSUME Init PROVE Handed
    OBVIOUS
  <1>1. /\ \A s \in Senders : sender[s].link = NULL
        /\ \A d \in Dividers : divide[d].pc # "count"
    BY DEF Init
  <1>2. QED
    BY <1>1 DEF Handed

LEMMA SameHanded ==
    ASSUME Handed,
           \A s \in Senders : \/ sender'[s].link = sender[s].link
                              \/ sender'[s].link = NULL,
           Holders' \subseteq Holders \/ \A d \in Dividers : divide[d].pc # "count",
           \A d \in Dividers : divide'[d].pc = "count" => divide[d].pc = "count"
    PROVE  Handed'
  <1>1. \A s, t \in Senders : s # t /\ sender'[s].link = sender'[t].link => sender'[s].link = NULL
    BY DEF Handed
  <1>2. (\E d \in Dividers : divide'[d].pc = "count") => Holders' = {}
    BY DEF Handed
  <1>3. QED
    BY <1>1, <1>2 DEF Handed

(* A worker in two hands, or in one while the workers are counted, is a       *)
(* mishap.                                                                   *)
LEMMA HandedKeeps ==
    ASSUME TickInv, [Next]_vars, mishaps' = {}
    PROVE  Handed'
  <1> USE DEF pool, peers, files, tick, stop
  <1>0. /\ Handed /\ Inv /\ Shape /\ divide \in [Dividers -> Division] /\ Main \in Dividers
        /\ Workers \subseteq Dividers
    BY Groups DEF TickInv, TypeInv, Inv, Shape
  <1>1. ASSUME sender' = sender,
               \A d \in Dividers : divide'[d].pc = "count" => divide[d].pc = "count"
        PROVE  Handed'
    BY <1>0, <1>1, SameHanded DEF Holders
  <1>2. ASSUME NEW kind, Fault(kind) PROVE Handed'
    BY <1>1, <1>2 DEF Fault
  <1>3. CASE UNCHANGED vars \/ Connect \/ MainExit
    <2>1. ASSUME NEW w \in Workers, ConnectFaults(w) PROVE Handed'
      BY <1>2, <2>1 DEF ConnectFaults
    <2>2. QED
      BY <1>1, <1>3, <2>1 DEF vars, Connect, ConnectAccept, ConnectSettings, ConnectApplied, MainExit
  <1>4. CASE MainLaunch
    <2>1. divide'[Main].pc = "assign" /\ \A d \in Dividers : d # Main => divide'[d] = divide[d]
      BY <1>0, <1>4, DivideMoves DEF MainLaunch
    <2>2. QED
      BY <1>1, <1>4, <2>1 DEF MainLaunch
  <1>5. ASSUME NEW d \in Dividers, Divide(d) PROVE Handed'
    <2>1. CASE DivideAssign(d)
      <3>1. Holders = {} /\ sender' = sender
        <4>1. \A s \in Senders : sender[s].link = NULL
          BY <2>1 DEF DivideAssign, Noted
        <4>2. QED
          BY <2>1, <4>1, HandsAreEmpty DEF DivideAssign
      <3>2. QED
        BY <1>0, <3>1 DEF Handed, Holders
    <2>2. CASE DivideCountsNone(d) \/ BundleFaults(d)
      BY <1>2, <2>2 DEF DivideCountsNone, BundleFaults
    <2>3. CASE DivideCount(d) \/ BundleEnqueue(d) \/ BundlePost(d) \/ BundlesJoined(d)
      <3>1. sender' = sender
        BY <2>3 DEF DivideCount, BundleEnqueue, BundlePost, BundlesJoined
      <3>2. \A e \in Dividers : divide'[e].pc = "count" => divide[e].pc = "count"
        <4>1. CASE DivideCount(d) \/ BundlesJoined(d)
          BY <1>0, <4>1 DEF DivideCount, BundlesJoined, Shape, Division
        <4>2. CASE BundleEnqueue(d)
          <5>1. PICK k : divide' = [divide EXCEPT ![d].keys = @ \ {k}, ![d].posts = @ \cup {k}]
            BY <4>2 DEF BundleEnqueue
          <5>2. QED
            BY <1>0, <5>1 DEF Shape, Division
        <4>3. CASE BundlePost(d)
          <5>1. PICK k : divide' = [divide EXCEPT ![d].posts = @ \ {k}]
            BY <4>3 DEF BundlePost
          <5>2. QED
            BY <1>0, <5>1 DEF Shape, Division
        <4>4. QED
          BY <2>3, <4>1, <4>2, <4>3
      <3>3. QED
        BY <1>1, <3>1, <3>2
    <2>4. QED
      BY <1>5, <2>1, <2>2, <2>3 DEF Divide
  <1>6. ASSUME NEW s \in Senders, Sender(s) PROVE Handed'
    <2>1. CASE HandsFull(s)
      <3>1. \A d \in Dividers : divide[d].pc # "count"
        <4>1. KeysOf(bundles) # {}
          BY <2>1, KeysTaken DEF HandsFull, TickInv, TypeInv, Typed, Stocked
        <4>2. Live # {}
          BY <4>1, StockOf, LiveOf
        <4>3. QED
          BY <4>2 DEF TickInv, Ledger, Assigning
      <3>2. /\ divide' = divide
            /\ sender' = [sender EXCEPT ![s] = [pc |-> "queue", link |-> workers.first,
                                                bundle |-> Head(bundles)]]
            /\ \A t \in Senders : sender[t].link # workers.first
        BY <2>1 DEF HandsFull, SenderTake, Noted
      <3>3. sender'[s].link = workers.first /\ \A t \in Senders : t # s => sender'[t] = sender[t]
        BY <1>0, <3>2 DEF Shape
      <3>4. \A t, v \in Senders : t # v /\ sender'[t].link = sender'[v].link => sender'[t].link = NULL
        BY <1>0, <3>2, <3>3 DEF Handed
      <3>5. \A d \in Dividers : divide'[d].pc # "count"
        BY <3>1, <3>2
      <3>6. QED
        BY <3>4, <3>5 DEF Handed
    <2>2. ASSUME NEW p \in SenderPlaces, sender' = [sender EXCEPT ![s].pc = p], divide' = divide,
                 p \in {"queue", "send", "return"} => s \in Holders
          PROVE  Handed'
      <3>1. /\ \A t \in Senders : t # s => sender'[t] = sender[t]
            /\ sender'[s].pc = p /\ sender'[s].link = sender[s].link
        BY <1>0, <2>2, SenderMoves
      <3>2. Holders' \subseteq Holders
        BY <2>2, <3>1 DEF Holders
      <3>3. QED
        BY <1>0, <2>2, <3>1, <3>2, SameHanded
    <2>3. CASE SenderWait(s) \/ (SenderTake(s) /\ ~HandsFull(s)) \/ SenderQueue(s)
      <3>1. PICK p \in SenderPlaces : /\ sender' = [sender EXCEPT ![s].pc = p]
                                      /\ p \in {"queue", "send", "return"} => s \in Holders
        BY <2>3 DEF SenderWait, SenderTake, SenderQueue, HandsFull, SenderPlaces, Holders
      <3>2. divide' = divide
        BY <2>3 DEF SenderWait, SenderTake, SenderQueue
      <3>3. QED
        BY <2>2, <3>1, <3>2
    <2>4. CASE SenderSend(s)
      <3>1. /\ \A t \in Senders : t # s => sender'[t] = sender[t]
            /\ sender[s].pc = "send" /\ sender'[s].link = sender[s].link /\ divide' = divide
        BY <1>0, <2>4 DEF SenderSend, Shape, Hand
      <3>2. Holders' \subseteq Holders
        BY <3>1 DEF Holders
      <3>3. QED
        BY <1>0, <3>1, <3>2, SameHanded
    <2>5. CASE SenderReturn(s)
      <3>1. /\ \A t \in Senders : t # s => sender'[t] = sender[t]
            /\ sender'[s].pc = "wait" /\ sender'[s].link = NULL /\ divide' = divide
        BY <1>0, <2>5 DEF SenderReturn, Shape
      <3>2. Holders' \subseteq Holders
        BY <3>1 DEF Holders
      <3>3. QED
        BY <1>0, <3>1, <3>2, SameHanded
    <2>6. CASE SenderFaults(s)
      BY <1>2, <2>6 DEF SenderFaults
    <2>7. QED
      BY <1>6, <2>1, <2>3, <2>4, <2>5, <2>6 DEF Sender
  <1>7. ASSUME NEW w \in Workers, Event(w) \/ WorkerDies(w) PROVE Handed'
    <2>1. CASE EventFaults(w) \/ EventSaveFaults(w)
      BY <1>2, <2>1 DEF EventFaults, EventSaveFaults
    <2>2. CASE AllBundlesDone(w)
      <3>1. \A d \in Dividers : divide'[d].pc = "count" => divide[d].pc = "count"
        <4>1. CASE divide' = [divide EXCEPT ![w].pc = "assign"]
          BY <1>0, <4>1, DivideMoves
        <4>2. QED
          BY <2>2, <4>1 DEF AllBundlesDone
      <3>2. QED
        BY <1>1, <2>2, <3>1 DEF AllBundlesDone
    <2>3. CASE CleanupUnlink(w)
      <3>1. ~CleanupUnlink(w)
        BY DEF CleanupUnlink, TickInv, Admission, LostPlaces
      <3>2. QED
        BY <2>3, <3>1
    <2>4. QED
      BY <1>1, <1>7, <2>1, <2>2, <2>3 DEF Event, EventInvalid, EventIntegrate, EventSave, EventPop,
         EventCount, AllBundlesClose, EventClosed, CleanupRepool, CleanupPost, CleanupFreeQueue,
         CleanupFree, WorkerDies
  <1>8. QED
    BY <1>3, <1>4, <1>5, <1>6, <1>7 DEF Next

LEMMA InitTicks == Init => TickInv
  <1> SUFFICES ASSUME Init PROVE TickInv
    OBVIOUS
  <1>1. TypeInv /\ OnePlace /\ Admission
    BY InitType, InitApart, InitAdmits
  <1>2. Fresh
    BY Groups DEF Init, Fresh, Launched
  <1>3. QED
    BY <1>1, <1>2, FreshGivesRest, InitHanded DEF TickInv, Rest

LEMMA TickInvKeeps == ASSUME Settled, TickInv, [Next]_vars, mishaps' = {} PROVE TickInv'
  <1>0. TypeInv /\ OnePlace /\ Admission /\ Rest
    BY DEF TickInv, Rest
  <1>1. TypeInv' /\ Admission'
    BY <1>0, StepType, AdmissionKeeps
  <1>2. OnePlace'
    <2>1. ASSUME NEW d \in Dividers, DivideCount(d) PROVE Live = {}
      BY <1>0, <2>1 DEF DivideCount, Assigning, Rest, Ledger
    <2>2. QED
      BY <1>0, <2>1, OnePlaceKeeps
  <1>3. Rest'
    <2>1. CASE \/ UNCHANGED vars \/ MainExit \/ fault' # fault
               \/ \E d \in Dividers : BundlePost(d)
               \/ \E s \in Senders : SenderWait(s) \/ (SenderTake(s) /\ ~HandsFull(s))
                                     \/ SenderReturn(s)
      BY <1>0, <2>1, StillSteps, StillKeeps
    <2>2. CASE Connect
      BY <1>1, <2>2, ConnectRest
    <2>3. CASE MainLaunch
      BY <1>1, <2>3, LaunchRest
    <2>4. ASSUME NEW d \in Dividers, Divide(d), ~BundlePost(d), fault' = fault PROVE Rest'
      <3>1. ~DivideCountsNone(d) /\ ~BundleFaults(d)
        BY <2>4 DEF DivideCountsNone, BundleFaults, Fault, Running
      <3>2. QED
        BY <2>4, <3>1, AssignRest, CountRest, EnqueueRest, JoinedRest DEF Divide
    <2>5. ASSUME NEW s \in Senders, Sender(s), fault' = fault PROVE Rest'
      <3>1. ~SenderFaults(s)
        BY <2>5 DEF SenderFaults, Fault, Running
      <3>2. QED
        BY <2>1, <2>5, <3>1, TakeRest, QueueRest, SendRest DEF Sender
    <2>6. ASSUME NEW w \in Workers, Event(w) \/ WorkerDies(w), fault' = fault PROVE Rest'
      <3>1. ~EventFaults(w) /\ ~EventSaveFaults(w)
        BY <2>6 DEF EventFaults, EventSaveFaults, Fault, Running
      <3>2. QED
        BY <2>6, <3>1, IntegrateRest, SaveRest, PopRest, CountedRest, CloseRest, DoneRest,
           NobodyIsLost DEF Event
    <2>7. QED
      BY <2>1, <2>2, <2>3, <2>4, <2>5, <2>6 DEF Next
  <1>4. QED
    BY <1>1, <1>2, <1>3, HandedKeeps DEF TickInv, Rest
-------------------------------------------------------------------------------
(* No memory fault in a steady simulation: each of the steps that use freed   *)
(* memory or a closed file is impossible.                                     *)
LEMMA LinksAreNotFreed ==
    ASSUME TickInv
    PROVE  /\ Touched \cap freed = {} /\ workers.first \notin freed
           /\ \A w \in Workers : w \notin freed
  <1>1. freed \subseteq Bundles
    BY RunsAreKeys DEF TickInv, Admission
  <1>2. workers.first \in Workers \cup {NULL} /\ workers.last \in Workers \cup {NULL}
    BY DEF TickInv, TypeInv, Inv, Shape, LQ!Queues, LQ!LinkOrNull
  <1>3. Touched \subseteq Workers
    BY <1>2 DEF Touched
  <1>4. QED
    BY <1>1, <1>2, <1>3, ObjectsDiffer

(* A bundle that is being sent is of the current tick and in its worker's     *)
(* queue, so nobody has freed it.                                            *)
LEMMA SentBundleIsThere ==
    ASSUME TickInv, NEW s \in Senders, sender[s].pc = "send"
    PROVE  sender[s].bundle.tick = cells /\ sender[s].bundle \notin freed
  <1>1. sender[s].bundle \in Sliced /\ sender[s].link \in Workers
    BY DEF TickInv, TypeInv, Typed, Stocked
  <1>2. sender[s].bundle.tick = cells
    BY DEF TickInv, Current
  <1>3. cells \in 1..TicksCnt /\ cells = ticks_done + 1 /\ ticks_done \in Nat
    <2>1. cells \in 1..TicksCnt
      BY <1>1, <1>2 DEF Sliced
    <2>2. cells # 0
      BY <2>1, DispatcherAssumption
    <2>3. QED
      BY <2>1, <2>2 DEF TickInv, Ledger, TypeInv, Typed, Ticking
  <1>4. sender[s].bundle.keys \in Live
    <2>1. PICK i \in DOMAIN workunit_queue[sender[s].link] :
              workunit_queue[sender[s].link][i] = sender[s].bundle
      <3> DEFINE q == workunit_queue[sender[s].link]
      <3>1. q \in Seq(Sliced) /\ q # <<>> /\ q[Len(q)] = sender[s].bundle
        BY <1>1 DEF TickInv, Answered, Last, TypeInv, Typed, Stocked
      <3> HIDE DEF q
      <3>2. Len(q) \in DOMAIN q
        BY <3>1, LenProperties, EmptySeq
      <3>3. QED
        BY <3>1, <3>2 DEF q
    <2>2. sender[s].bundle.keys \in KeysOf(workunit_queue[sender[s].link])
      BY <2>1 DEF KeysOf
    <2>3. QED
      BY <1>1, <2>2, StockOf, LiveOf
  <1>5. \A b \in freed : b.tick <= ticks_done \/ (b.tick = cells /\ b.keys \notin Live)
    BY DEF TickInv, Current
  <1>6. ~(cells <= ticks_done)
    BY <1>3, DispatcherAssumption
  <1>7. QED
    BY <1>2, <1>4, <1>5, <1>6

(* While a bundle is about, the tick has its cells and its file.             *)
LEMMA TickIsOpen ==
    ASSUME Settled, TickInv, Live # {}
    PROVE  /\ cells # 0 /\ fp = cells /\ ~Assigning
           /\ \A w \in Workers : event[w] \notin {"all_done", "reopen"}
  <1>1. cells # 0 /\ ~Assigning
    BY DEF TickInv, Ledger
  <1>2. \A w \in Workers : event[w] \notin {"all_done", "reopen"}
    BY TickIsThrough
  <1>3. Launched
    BY <1>1 DEF TickInv, Admission
  <1>4. cells = ticks_done + 1 /\ ticks_done < TicksCnt
    BY <1>1 DEF TickInv, Ledger, Files
  <1>5. fp = ticks_done + 1
    BY <1>2, <1>3, <1>4 DEF TickInv, Files
  <1>6. QED
    BY <1>1, <1>2, <1>4, <1>5

LEMMA OwesIsLive ==
    ASSUME TickInv, NEW w \in Workers,
           \/ event[w] # "absent" /\ owes[w] # <<>>
           \/ event[w] \in {"save", "save_last", "pop"}
    PROVE  Live # {}
  <1>1. KeysOf(workunit_queue[w]) # {}
    BY OwesForBundle DEF TickInv
  <1>2. QED
    BY <1>1, StockOf, LiveOf

LEMMA NoConnectFaults ==
    ASSUME TickInv, NEW w \in Workers
    PROVE  ~ConnectFaults(w)
  BY LinksAreNotFreed DEF ConnectFaults

LEMMA NoSenderFaults ==
    ASSUME TickInv, NEW s \in Senders
    PROVE  ~SenderFaults(s)
  <1>1. sender[s].pc \in {"queue", "send", "return"} => sender[s].link \in Workers
    BY DEF TickInv, TypeInv, Typed, Stocked
  <1>2. QED
    BY <1>1, LinksAreNotFreed, SentBundleIsThere DEF SenderFaults

LEMMA NoDivideFaults ==
    ASSUME Settled, TickInv, NEW d \in Dividers
    PROVE  ~DivideCountsNone(d) /\ ~BundleFaults(d)
  <1>1. ASSUME DivideCountsNone(d) PROVE FALSE
    <2>1. divide[d].pc = "count" /\ workers.count <= 0
      BY <1>1 DEF DivideCountsNone
    <2>2. Holders = {} /\ cells # 0
      BY <2>1 DEF TickInv, Ledger, Handed
    <2>3. workers.count = N
      BY <2>2, AllAreIdle DEF TickInv, Admission
    <2>4. N \in Nat /\ N >= 1
      BY Groups
    <2>5. QED
      BY <2>1, <2>3, <2>4
  <1>2. ASSUME BundleFaults(d) PROVE FALSE
    <2>1. divide[d].keys # {} /\ cells = 0
      BY <1>2 DEF BundleFaults
    <2>2. Live # {}
      BY <2>1, StockOf, LiveOf
    <2>3. QED
      BY <2>1, <2>2, TickIsOpen
  <1>3. QED
    BY <1>1, <1>2

LEMMA NoEventFaults ==
    ASSUME Settled, TickInv, NEW w \in Workers
    PROVE  ~EventFaults(w) /\ ~EventSaveFaults(w)
  <1>1. ASSUME EventFaults(w) PROVE FALSE
    <2>1. event[w] = "receive" /\ owes[w] # <<>> /\ cells = 0
      BY <1>1 DEF EventFaults
    <2>2. QED
      BY <2>1, OwesIsLive, TickIsOpen
  <1>2. ASSUME EventSaveFaults(w) PROVE FALSE
    <2>1. event[w] \in {"save", "save_last"} /\ fp = 0
      BY <1>2 DEF EventSaveFaults
    <2>2. QED
      BY <2>1, OwesIsLive, TickIsOpen
  <1>3. QED
    BY <1>1, <1>2

LEMMA NoFaultStep ==
    ASSUME Settled, TickInv, fault = "none", [Next]_vars
    PROVE  fault' = "none"
  <1>1. CASE UNCHANGED vars
    BY <1>1 DEF vars
  <1>2. CASE Connect
    BY <1>2, NoConnectFaults DEF Connect, ConnectAccept, ConnectSettings, ConnectApplied
  <1>3. CASE MainLaunch \/ MainExit
    BY <1>3 DEF MainLaunch, MainExit
  <1>4. ASSUME NEW d \in Dividers, Divide(d) PROVE fault' = "none"
    BY <1>4, NoDivideFaults DEF Divide, DivideAssign, DivideCount, BundleEnqueue, BundlePost,
       BundlesJoined
  <1>5. ASSUME NEW s \in Senders, Sender(s) PROVE fault' = "none"
    BY <1>5, NoSenderFaults DEF Sender, SenderWait, SenderTake, SenderQueue, SenderSend,
       SenderReturn
  <1>6. ASSUME NEW w \in Workers, Event(w) \/ WorkerDies(w) PROVE fault' = "none"
    BY <1>6, NoEventFaults, NobodyIsLost DEF Event, EventIntegrate, EventSave, EventPop,
       EventCount, AllBundlesClose, AllBundlesDone
  <1>7. QED
    BY <1>1, <1>2, <1>3, <1>4, <1>5, <1>6 DEF Next

LEMMA SavesShow == ASSUME Settled, TickInv PROVE SavesInOwnFile
  <1> SUFFICES ASSUME NEW w \in Workers, unsaved[w] # 0 PROVE fp = unsaved[w]
    BY DEF SavesInOwnFile
  <1>1. event[w] \in {"save", "save_last"} /\ unsaved[w] = cells
    BY DEF TickInv, Files
  <1>2. QED
    BY <1>1, OwesIsLive, TickIsOpen

(* When a tick ends, every cell has its result (all_workunits_done.c:18).    *)
LEMMA AllCellsAreThere ==
    ASSUME Settled, TickInv, NEW w \in Workers, event[w] = "reopen"
    PROVE  \A c \in CellIds : new_dataset[c] = ticks_done + 1
  <1>1. Live = {} /\ ~Assigning /\ Launched /\ cells = ticks_done + 1 /\ ticks_done < TicksCnt
    BY TickIsThrough
  <1>2. ticks_done \in Nat
    BY DEF TickInv, TypeInv, Typed, Ticking
  <1>3. cells # 0
    BY <1>1, <1>2
  <1>4. \A c \in CellIds : ~Coming(c)
    BY <1>1, NothingLeft, EmptySeq DEF Coming, Owed
  <1>5. QED
    BY <1>1, <1>3, <1>4 DEF TickInv, Whole

(* Every step of the dispatcher is a step of the service, or changes nothing  *)
(* of what is seen of it.                                                    *)
Seen == <<ticks_done, Computed, exited>>

LEMMA OthersStutter ==
    ASSUME Settled, TickInv, [Next]_vars,
           ~\E w \in Workers : EventIntegrate(w) \/ AllBundlesDone(w), ~MainExit
    PROVE  UNCHANGED Seen
  <1> USE DEF tick, vars, stop, Fault
  <1> SUFFICES UNCHANGED <<new_dataset, ticks_done, exited>>
    BY DEF Seen, Computed
  <1>1. CASE UNCHANGED vars
    BY <1>1
  <1>2. CASE Connect
    BY <1>2 DEF Connect, ConnectAccept, ConnectFaults, ConnectSettings, ConnectApplied
  <1>3. CASE MainLaunch
    BY <1>3 DEF MainLaunch
  <1>4. ASSUME NEW d \in Dividers, Divide(d) PROVE UNCHANGED <<new_dataset, ticks_done, exited>>
    BY <1>4 DEF Divide, DivideAssign, DivideCount, DivideCountsNone, BundleEnqueue, BundleFaults,
       BundlePost, BundlesJoined
  <1>5. ASSUME NEW s \in Senders, Sender(s) PROVE UNCHANGED <<new_dataset, ticks_done, exited>>
    BY <1>5 DEF Sender, SenderWait, SenderTake, SenderQueue, SenderSend, SenderReturn,
       SenderFaults
  <1>6. ASSUME NEW w \in Workers, Event(w) \/ WorkerDies(w)
        PROVE  UNCHANGED <<new_dataset, ticks_done, exited>>
    BY <1>6, NobodyIsLost DEF Event, EventFaults, EventSave, EventSaveFaults,
       EventPop, EventCount, AllBundlesClose
  <1>7. QED
    BY <1>1, <1>2, <1>3, <1>4, <1>5, <1>6 DEF Next

LEMMA IntegrateSeen ==
    ASSUME TickInv, NEW w \in Workers, EventIntegrate(w)
    PROVE  Ticks!Integrate
  <1> DEFINE unit == Head(owes[w])
  <1>0. /\ owes \in [Workers -> Seq(Units \cup {Settings})] /\ ticks_done \in Nat
        /\ new_dataset \in [CellIds -> 0..TicksCnt]
    BY DEF TickInv, TypeInv, Typed, Peered, Ticking
  <1>1. /\ event[w] = "receive" /\ owes[w] # <<>> /\ cells # 0
        /\ new_dataset' = [new_dataset EXCEPT ![unit.id] = unit.tick]
        /\ UNCHANGED <<ticks_done, exited>>
    BY DEF EventIntegrate, stop
  <1>2. 1 \in DOMAIN owes[w] /\ unit = owes[w][1]
    BY <1>0, <1>1, KeysTaken, LenProperties
  <1>3. unit \in Units /\ unit.tick = cells
    BY <1>1, <1>2 DEF TickInv, Current
  <1>4. cells = ticks_done + 1 /\ ticks_done < TicksCnt
    BY <1>1 DEF TickInv, Ledger, Files
  <1>5. unit.id \in CellIds
    BY <1>3 DEF Units
  <1> HIDE DEF unit
  <1>6. Computed' = Computed \cup {unit.id}
    <2>1. \A c \in CellIds : new_dataset'[c] = IF c = unit.id THEN unit.tick ELSE new_dataset[c]
      BY <1>0, <1>1
    <2>2. \A c \in CellIds : new_dataset'[c] = ticks_done' + 1
                                <=> c = unit.id \/ new_dataset[c] = ticks_done + 1
      BY <1>1, <1>3, <1>4, <2>1
    <2>3. QED
      BY <1>5, <2>2 DEF Computed
  <1>7. QED
    BY <1>1, <1>4, <1>5, <1>6 DEF Ticks!Integrate, Computed

LEMMA EndTickSeen ==
    ASSUME Settled, TickInv, NEW w \in Workers, AllBundlesDone(w)
    PROVE  Ticks!EndTick
  <1>0. ticks_done \in Nat
    BY DEF TickInv, TypeInv, Typed, Ticking
  <1>1. /\ event[w] = "reopen" /\ ticks_done' = ticks_done + 1
        /\ new_dataset' = [c \in CellIds |-> 0] /\ exited' = exited
    BY DEF AllBundlesDone
  <1>2. ticks_done < TicksCnt /\ Computed = CellIds
    BY <1>1, TickIsThrough, AllCellsAreThere DEF Computed
  <1>3. Computed' = {}
    <2>1. ticks_done' + 1 # 0
      BY <1>0, <1>1
    <2>2. \A c \in CellIds : new_dataset'[c] = 0
      BY <1>1
    <2>3. QED
      BY <2>1, <2>2 DEF Computed
  <1>4. QED
    BY <1>1, <1>2, <1>3 DEF Ticks!EndTick, Computed

LEMMA EndSeen == ASSUME TickInv, MainExit PROVE Ticks!End
  <1>1. /\ exit_sem > 0 /\ ~exited /\ exited' = TRUE
        /\ UNCHANGED <<ticks_done, new_dataset>>
    BY DEF MainExit, Running, tick
  <1>2. ticks_done = TicksCnt
    BY <1>1 DEF TickInv, Files
  <1>3. QED
    BY <1>1, <1>2 DEF Ticks!End, Computed

LEMMA StepSeen == ASSUME Settled, TickInv, [Next]_vars PROVE [Ticks!Next]_Seen
  <1>1. CASE \E w \in Workers : EventIntegrate(w)
    BY <1>1, IntegrateSeen DEF Ticks!Next
  <1>2. CASE \E w \in Workers : AllBundlesDone(w)
    BY <1>2, EndTickSeen DEF Ticks!Next
  <1>3. CASE MainExit
    BY <1>3, EndSeen DEF Ticks!Next
  <1>4. CASE ~(\E w \in Workers : EventIntegrate(w) \/ AllBundlesDone(w)) /\ ~MainExit
    BY <1>4, OthersStutter
  <1>5. QED
    BY <1>1, <1>2, <1>3, <1>4

LEMMA InitSeen == Init => Ticks!Init
  <1> SUFFICES ASSUME Init PROVE Ticks!Init
    OBVIOUS
  <1>1. ticks_done = 0 /\ exited = FALSE /\ \A c \in CellIds : new_dataset[c] = 0
    BY DEF Init
  <1>2. QED
    BY <1>1, DispatcherAssumption DEF Ticks!Init, Computed
-------------------------------------------------------------------------------
(* Until the first mishap, the accounts of the ticks hold.                   *)
Smooth == mishaps = {} => TickInv /\ fault = "none"

LEMMA SmoothAlways == ASSUME Settled PROVE Spec => []Smooth
  <1>1. Init => Smooth
    BY InitTicks DEF Init, Smooth
  <1>2. Smooth /\ [Next]_vars => Smooth'
    <2> SUFFICES ASSUME Smooth, [Next]_vars, mishaps' = {} PROVE (TickInv /\ fault = "none")'
      BY DEF Smooth
    <2>1. TickInv /\ fault = "none"
      BY MishapsGrow DEF Smooth
    <2>2. QED
      BY <2>1, TickInvKeeps, NoFaultStep
  <1>3. QED
    BY <1>1, <1>2, PTL DEF Spec

(* With all the workers there from the launch on, however many workers,       *)
(* leaves and ticks, whatever the size of the bundles and whenever results    *)
(* come: no thread uses freed memory or a closed file, makes bundles for no   *)
(* worker, or loops over a bad list, before one of Mishaps has happened.      *)
THEOREM FaultsFollowMishaps == ASSUME Settled PROVE Spec => []NoFault
  <1>1. Smooth => NoFault
    BY DEF Smooth, NoFault
  <1>2. QED
    BY <1>1, SmoothAlways, PTL

(* A bundle stays in one place, also from one tick to the next (a division    *)
(* finds none of the last tick's bundles left), unless a mishap has happened  *)
(* in an earlier tick.                                                       *)
THEOREM BundlesAreNotCopiedLater == ASSUME Settled PROVE Spec => []BundleInOnePlace
  <1>1. CASE TicksCnt = 1
    BY <1>1, BundlesAreNotCopied
  <1>2. CASE TicksCnt # 1
    <2>1. Smooth => BundleInOnePlace
      BY <1>2, OnePlaceShows DEF Smooth, TickInv, BundleInOnePlace
    <2>2. QED
      BY <2>1, SmoothAlways, PTL
  <1>3. QED
    BY <1>1, <1>2

(* A result is written to the file of its own tick, though the thread that    *)
(* changes the file does not hold output_mutex (all_workunits_done.c:22), as   *)
(* long as no mishap has happened.                                           *)
THEOREM SavesGoToTheirFile == ASSUME Settled PROVE Spec => []SavesInOwnFile
  <1>1. Smooth => SavesInOwnFile
    <2>1. CASE mishaps = {}
      BY <2>1, SavesShow DEF Smooth
    <2>2. CASE mishaps # {}
      BY <2>2 DEF SavesInOwnFile
    <2>3. QED
      BY <2>1, <2>2
  <1>2. QED
    BY <1>1, SmoothAlways, PTL

(* The dispatcher implements the service its user sees, tick after tick, each *)
(* with every result of its own dataset, and then the end, step by step until *)
(* the first mishap: those of Mishaps are all that can go wrong with a tick   *)
(* (all_workunits_done.c).                                                   *)
THEOREM TicksAreServed == ASSUME Settled PROVE Spec => ImplementsTicks
  <1>1. Init => Ticks!Init
    BY InitSeen
  <1>2. Smooth /\ [Next]_vars => [mishaps' = {} => Ticks!Next]_Seen
    <2> SUFFICES ASSUME Smooth, [Next]_vars, mishaps' = {} PROVE [Ticks!Next]_Seen
      OBVIOUS
    <2>1. TickInv
      BY MishapsGrow DEF Smooth
    <2>2. QED
      BY <2>1, StepSeen
  <1>3. QED
    BY <1>1, <1>2, SmoothAlways, PTL DEF Spec, ImplementsTicks, Seen
-------------------------------------------------------------------------------
(* The queue of links begins with the links of q.                            *)
InFront(q, Q) ==
    /\ \A i, j \in 1..Len(q) : q[i] = q[j] => i = j
    /\ q # <<>> => Q.first = q[1]
    /\ \A i \in 1..(Len(q) - 1) : Q.next[q[i]] = q[i + 1] /\ Q.last # q[i]
    /\ Len(q) > 1 => Q.last # NULL
    /\ Len(q) <= Q.count

(* It has no other links.                                                    *)
AllOf(q, Q) ==
    /\ Len(q) = Q.count
    /\ q = <<>> => Q.first = NULL
    /\ Len(q) <= 1 => Q.last = NULL
    /\ Len(q) > 1 => Q.last = q[Len(q)]

LEMMA QueueFields ==
    ASSUME NEW Q \in LQ!Queues
    PROVE  /\ Q.first \in Workers \cup {NULL} /\ Q.last \in Workers \cup {NULL}
           /\ Q.count \in Int /\ Q.next \in [Workers -> Workers \cup {NULL}]
  BY DEF LQ!Queues, LQ!LinkOrNull

LEMMA PopFields ==
    ASSUME NEW Q \in LQ!Queues, Q.first # NULL
    PROVE  /\ LQ!PopLink(Q).first = Q.next[Q.first]
           /\ LQ!PopLink(Q).count = Q.count - 1
           /\ LQ!PopLink(Q).last = IF Q.count = 1 THEN NULL ELSE Q.last
           /\ LQ!PopLink(Q).next = Q.next
  BY QueueFields DEF LQ!PopLink, LQ!Queues

LEMMA EnqueueFields ==
    ASSUME NEW Q \in LQ!Queues, NEW w \in Workers
    PROVE  LET R == LQ!Enqueue(Q, w)
           IN  /\ R.count = Q.count + 1
               /\ Q.first = NULL => /\ R.first = w /\ R.last = Q.last
                                    /\ R.next = [Q.next EXCEPT ![w] = NULL]
               /\ Q.first # NULL /\ Q.last = NULL =>
                     /\ R.first = Q.first /\ R.last = w
                     /\ R.next = [[Q.next EXCEPT ![w] = NULL] EXCEPT ![Q.first] = w]
               /\ Q.first # NULL /\ Q.last # NULL =>
                     /\ R.first = Q.first /\ R.last = w
                     /\ R.next = [Q.next EXCEPT ![Q.last] = w]
  BY QueueFields DEF LQ!Enqueue, LQ!Queues

(* When the first link is popped, the next one is in front.                  *)
LEMMA FrontPopped ==
    ASSUME NEW Q \in LQ!Queues, NEW q \in Seq(Workers), q # <<>>, InFront(q, Q)
    PROVE  InFront(Tail(q), LQ!PopLink(Q))
  <1>1. /\ Tail(q) \in Seq(Workers) /\ Len(Tail(q)) = Len(q) - 1 /\ Len(q) \in Nat \ {0}
        /\ \A i \in 1..Len(Tail(q)) : Tail(q)[i] = q[i + 1]
    BY HeadTailProperties, LenProperties, EmptySeq
  <1>2. q[1] \in Workers /\ Q.first = q[1] /\ Q.first # NULL /\ Q.count \in Int
    BY <1>1, ElementOfSeq, QueueFields, DispatcherAssumption DEF InFront
  <1> DEFINE R == LQ!PopLink(Q)
             r == Tail(q)
  <1>3. /\ R.first = Q.next[q[1]] /\ R.count = Q.count - 1 /\ R.next = Q.next
        /\ Len(q) > 1 => R.last = Q.last
    BY <1>1, <1>2, PopFields DEF InFront
  <1> HIDE DEF R, r
  <1>4. \A i, j \in 1..Len(r) : r[i] = r[j] => i = j
    BY <1>1 DEF InFront, r
  <1>5. r # <<>> => R.first = r[1]
    <2> SUFFICES ASSUME r # <<>> PROVE R.first = r[1]
      OBVIOUS
    <2>1. Len(r) # 0
      BY <1>1, EmptySeq DEF r
    <2>2. 1 \in 1..(Len(q) - 1) /\ r[1] = q[2]
      BY <1>1, <2>1 DEF r
    <2> QED
      BY <1>3, <2>2 DEF InFront
  <1>6. ASSUME NEW i \in 1..(Len(r) - 1) PROVE R.next[r[i]] = r[i + 1] /\ R.last # r[i]
    <2>1. /\ i + 1 \in 1..(Len(q) - 1) /\ r[i] = q[i + 1] /\ r[i + 1] = q[(i + 1) + 1]
          /\ Len(q) > 1
      BY <1>1 DEF r
    <2> QED
      BY <1>3, <2>1 DEF InFront
  <1>7. Len(r) > 1 => R.last # NULL
    BY <1>1, <1>3 DEF InFront, r
  <1>8. Len(r) <= R.count
    BY <1>1, <1>2, <1>3 DEF InFront, r
  <1> QED
    BY <1>4, <1>5, <1>6, <1>7, <1>8 DEF InFront, R, r

(* A link put at the back does not disturb the front.                        *)
LEMMA FrontEnqueued ==
    ASSUME NEW Q \in LQ!Queues, NEW q \in Seq(Workers), InFront(q, Q), NEW w \in Workers,
           \A i \in 1..Len(q) : q[i] # w
    PROVE  InFront(q, LQ!Enqueue(Q, w))
  <1> DEFINE R == LQ!Enqueue(Q, w)
  <1>1. Len(q) \in Nat /\ (q # <<>> <=> Len(q) # 0) /\ \A i \in 1..Len(q) : q[i] \in Workers
    BY LenProperties, ElementOfSeq, EmptySeq
  <1>2. R.count = Q.count + 1 /\ Q.count \in Int /\ Len(q) <= R.count
    <2>1. R.count = Q.count + 1
      BY EnqueueFields
    <2>2. Q.count \in Int /\ Len(q) <= Q.count
      BY QueueFields DEF InFront
    <2> HIDE DEF R
    <2> QED
      BY <1>1, <2>1, <2>2
  <1>3. CASE Q.first = NULL
    <2>1. q = <<>> /\ Len(q) = 0
      BY <1>1, <1>3, DispatcherAssumption DEF InFront
    <2> HIDE DEF R
    <2> QED
      BY <1>2, <2>1 DEF InFront, R
  <1>4. CASE Q.first # NULL
    <2>1. R.first = Q.first /\ R.last = w
      BY <1>4, EnqueueFields
    <2>2. ASSUME NEW i \in 1..(Len(q) - 1) PROVE R.next[q[i]] = q[i + 1] /\ R.last # q[i]
      <3>1. i \in 1..Len(q) /\ q[i] \in Workers /\ q[i] # w /\ Len(q) > 1
        BY <1>1
      <3>2. Q.last # NULL /\ Q.last # q[i] /\ Q.next[q[i]] = q[i + 1]
        BY <3>1 DEF InFront
      <3>3. R.next = [Q.next EXCEPT ![Q.last] = w]
        BY <1>4, <3>2, EnqueueFields
      <3>4. R.next[q[i]] = Q.next[q[i]]
        BY <3>1, <3>2, <3>3, QueueFields
      <3> QED
        BY <2>1, <3>1, <3>2, <3>4
    <2>3. w # NULL
      BY DispatcherAssumption
    <2> HIDE DEF R
    <2>4. q # <<>> => R.first = q[1]
      BY <2>1 DEF InFront
    <2>5. Len(q) > 1 => R.last # NULL
      BY <2>1, <2>3
    <2>6. \A i, j \in 1..Len(q) : q[i] = q[j] => i = j
      BY DEF InFront
    <2> QED
      BY <1>2, <2>2, <2>4, <2>5, <2>6 DEF InFront, R
  <1> QED
    BY <1>3, <1>4

LEMMA AllEnqueued ==
    ASSUME NEW Q \in LQ!Queues, NEW q \in Seq(Workers), InFront(q, Q), AllOf(q, Q),
           NEW w \in Workers, \A i \in 1..Len(q) : q[i] # w
    PROVE  InFront(Append(q, w), LQ!Enqueue(Q, w)) /\ AllOf(Append(q, w), LQ!Enqueue(Q, w))
  <1> DEFINE R == LQ!Enqueue(Q, w)
             r == Append(q, w)
             n == Len(q)
  <1>1. /\ n \in Nat /\ (q = <<>> <=> n = 0) /\ (\A i \in 1..n : q[i] \in Workers)
        /\ r \in Seq(Workers) /\ Len(r) = n + 1 /\ r # <<>>
        /\ r[n + 1] = w /\ \A i \in 1..n : r[i] = q[i]
    BY LenProperties, ElementOfSeq, EmptySeq, AppendProperties
  <1>2. R.count = n + 1 /\ Q.count = n /\ w # NULL
    <2>1. R.count = Q.count + 1
      BY EnqueueFields
    <2>2. Q.count = n
      BY DEF AllOf
    <2> QED
      BY <2>1, <2>2, DispatcherAssumption
  <1>3. \A i, j \in 1..(n + 1) : r[i] = r[j] => i = j
    <2>1. \A i \in 1..(n + 1) : i \in 1..n \/ i = n + 1
      BY <1>1
    <2> HIDE DEF n, r
    <2> QED
      BY <1>1, <2>1 DEF InFront, n
  <1>4. CASE n = 0
    <2>1. Q.first = NULL /\ Q.last = NULL
      BY <1>1, <1>4 DEF AllOf
    <2>2. R.first = w /\ R.last = NULL
      BY <2>1, EnqueueFields
    <2>3. r[1] = w /\ Len(r) = 1
      BY <1>1, <1>4
    <2> HIDE DEF R, r
    <2>4. r # <<>> /\ Len(r) = 1 /\ ~(Len(r) > 1) /\ Len(r) - 1 = 0 /\ R.count = 1
      BY <1>1, <1>2, <1>4, <2>3
    <2>5. InFront(r, R)
      BY <1>3, <1>4, <2>2, <2>3, <2>4 DEF InFront
    <2>6. AllOf(r, R)
      BY <2>2, <2>4 DEF AllOf
    <2> QED
      BY <2>5, <2>6 DEF r, R
  <1>5. CASE n # 0
    <2>1. Q.first = q[1] /\ Q.first # NULL /\ 1 \in 1..n
      BY <1>1, <1>5, DispatcherAssumption DEF InFront
    <2>2. R.first = q[1] /\ R.last = w /\ R.first = r[1]
      BY <1>1, <2>1, EnqueueFields
    <2>3. ASSUME NEW i \in 1..n PROVE R.next[r[i]] = r[i + 1] /\ R.last # r[i]
      <3>1. r[i] = q[i] /\ q[i] \in Workers /\ q[i] # w
        BY <1>1
      <3>2. CASE n = 1
        <4>1. i = 1 /\ q[i] = Q.first /\ r[i + 1] = w /\ Q.last = NULL
          BY <1>1, <2>1, <3>2 DEF AllOf
        <4>2. R.next = [[Q.next EXCEPT ![w] = NULL] EXCEPT ![Q.first] = w]
          <5>1. Q.first # NULL /\ Q.last = NULL
            BY <2>1, <4>1
          <5> QED
            BY <5>1, EnqueueFields, Zenon
        <4>3. R.next[Q.first] = w
          BY <3>1, <4>1, <4>2, QueueFields
        <4> HIDE DEF R, r
        <4> QED
          BY <2>2, <3>1, <4>1, <4>3
      <3>3. CASE n # 1
        <4>1. n > 1 /\ Q.last = q[n] /\ Q.last # NULL /\ n \in 1..n
          BY <1>1, <1>5, <3>3, DispatcherAssumption DEF AllOf
        <4>2. R.next = [Q.next EXCEPT ![Q.last] = w]
          BY <2>1, <4>1, EnqueueFields
        <4>3. CASE i = n
          <5>1. R.next[q[n]] = w /\ r[i + 1] = w
            BY <1>1, <4>1, <4>2, <4>3, QueueFields
          <5> HIDE DEF R, r, n
          <5> QED
            BY <2>2, <3>1, <4>3, <5>1
        <4>4. CASE i # n
          <5>1. i \in 1..(n - 1) /\ i + 1 \in 1..n
            BY <1>1, <4>4
          <5>2. Q.next[q[i]] = q[i + 1] /\ Q.last # q[i]
            BY <5>1 DEF InFront
          <5>3. R.next[q[i]] = Q.next[q[i]] /\ r[i + 1] = q[i + 1]
            BY <1>1, <3>1, <4>2, <5>1, <5>2, QueueFields
          <5> HIDE DEF R, r, n
          <5> QED
            BY <2>2, <3>1, <5>2, <5>3
        <4> QED
          BY <4>3, <4>4
      <3> QED
        BY <3>2, <3>3
    <2>4. Len(r) - 1 = n /\ Len(r) > 1 /\ r[Len(r)] = w
      BY <1>1, <1>5
    <2> HIDE DEF R, r
    <2>5. InFront(r, R)
      BY <1>1, <1>2, <1>3, <2>2, <2>3, <2>4 DEF InFront
    <2>6. AllOf(r, R)
      BY <1>1, <1>2, <2>2, <2>4 DEF AllOf
    <2> QED
      BY <2>5, <2>6 DEF r, R
  <1> QED
    BY <1>4, <1>5
-------------------------------------------------------------------------------
(* A worker that has had nothing to do yet.                                  *)
NoUnits(w) == \A i \in 1..Len(owes[w]) : owes[w][i].type # "WORK_UNIT_DONE"
Untouched(w) ==
    /\ w \in Accepted /\ workunit_queue[w] = <<>> /\ NoUnits(w)
    /\ \A s \in Senders : sender[s].link # w
    /\ event[w] \in {"absent", "receive"}

(* The bundles that are still to be sent for the first time.                 *)
Demand == Cardinality(divide[Main].keys) + Len(bundles)

(* The workers whose turn is still to come, in their order: all that there    *)
(* are until the bundles are sized, as many as bundles at least from then on. *)
Line(q) ==
    /\ InFront(q, workers)
    /\ \A i \in 1..Len(q) : Untouched(q[i])
    /\ Early => AllOf(q, workers)
    /\ ~Early => Demand <= Len(q)
InLine == \E q \in Seq(Workers) : Line(q)

(* Nobody is held twice, and a bundle goes to a worker that has none.         *)
HeldOnce == \A s, t \in Senders : s # t /\ sender[s].link = sender[t].link => sender[s].link = NULL
OneEach  == \A w \in Workers : Len(workunit_queue[w]) <= 1
OneBundle ==
    /\ HeldOnce /\ OneEach
    /\ \A s \in Senders : sender[s].pc = "queue" => workunit_queue[sender[s].link] = <<>>

Company == TypeInv /\ MainDivides /\ OnePlace /\ Admission
TurnInv == Company /\ InLine /\ OneBundle
-------------------------------------------------------------------------------
(* What there is before the bundles are sized.                               *)
Clean ==
    /\ bundles = <<>>
    /\ \A w \in Workers : workunit_queue[w] = <<>> /\ NoUnits(w)
    /\ \A s \in Senders : sender[s].pc \in {"wait", "take"} /\ sender[s].link = NULL

AllUntouched == \A w \in Accepted : Untouched(w)

LEMMA NothingOwed ==
    ASSUME NEW w \in Workers, owes[w] \in Seq({Settings})
    PROVE  NoUnits(w)
  <1>1. \A i \in 1..Len(owes[w]) : owes[w][i] = Settings
    BY ElementOfSeq
  <1> QED
    BY <1>1 DEF NoUnits, Settings

LEMMA EarlyIsClean ==
    TypeInv /\ Admission /\ Early => Clean /\ AllUntouched
  <1> SUFFICES ASSUME TypeInv, Admission, Early
               PROVE  Clean /\ AllUntouched
    OBVIOUS
  <1>1. Idle
    BY DEF TypeInv, Typed, InTurn
  <1>2. \A s \in Senders : sender[s].pc \in {"wait", "take"} /\ sender[s].link = NULL
    BY <1>1 DEF Idle, TypeInv, Typed, Stocked
  <1>3. \A w \in Workers : workunit_queue[w] = <<>> /\ NoUnits(w)
    BY <1>1, NothingOwed DEF Idle
  <1>4. \A w \in Workers : event[w] \in {"absent", "receive"}
    BY <1>1 DEF Idle, EarlyPlaces, Admission, LostPlaces
  <1>5. Accepted \subseteq Workers /\ NULL \notin Workers
    BY DispatcherAssumption DEF Accepted
  <1> QED
    BY <1>1, <1>2, <1>3, <1>4, <1>5 DEF Clean, Untouched, Idle, AllUntouched

LEMMA EarlyIsCleanNext ==
    TypeInv' /\ Admission' /\ Early' => Clean' /\ AllUntouched'
  BY EarlyIsClean, PTL

LEMMA CleanIsOneBundle == Clean => OneBundle
  BY EmptySeq DEF Clean, OneBundle, HeldOnce, OneEach

LEMMA CleanIsOneBundleNext == Clean' => OneBundle'
  BY CleanIsOneBundle, PTL

(* The steps before the bundles are sized.                                   *)
LEMMA EarlySteps ==
    ASSUME Settled, Company, Early, [Next]_vars, Admission'
    PROVE  /\ workers' = workers \/ \E w \in Workers : ConnectAccept(w)
           /\ Early' \/ DivideCount(Main)
           /\ Accepted \subseteq Accepted'
  <1> USE DEF pool, peers, files, tick, stop
  <1>0. /\ Idle /\ Inv /\ Shape /\ Main \in Dividers /\ Main \notin Workers
        /\ divide \in [Dividers -> Division] /\ event \in [Workers -> EventPlaces]
    BY Groups DEF Company, TypeInv, Typed, InTurn, Inv, Shape
  <1>1. ASSUME UNCHANGED <<workers, divide, connect, event>>
        PROVE  workers' = workers /\ Early' /\ Accepted \subseteq Accepted'
    BY <1>1 DEF Early, Accepted
  <1>2. ASSUME NEW kind, Fault(kind)
        PROVE  workers' = workers /\ Early' /\ Accepted \subseteq Accepted'
    BY <1>1, <1>2 DEF Fault
  <1>3. CASE Connect
    <2>1. ASSUME NEW w \in Workers, ConnectAccept(w)
          PROVE  Early' /\ Accepted \subseteq Accepted'
      BY <2>1 DEF ConnectAccept, Early, Accepted
    <2>2. ASSUME NEW w \in Workers, ConnectFaults(w)
          PROVE  workers' = workers /\ Early' /\ Accepted \subseteq Accepted'
      BY <1>2, <2>2 DEF ConnectFaults
    <2>3. CASE ConnectSettings
      BY <1>0, <2>3 DEF ConnectSettings, Early, Accepted, Shape
    <2>4. CASE ConnectApplied
      BY <1>0, <2>4 DEF ConnectApplied, Early, Accepted
    <2> QED
      BY <1>3, <2>1, <2>2, <2>3, <2>4 DEF Connect
  <1>4. CASE MainLaunch
    <2>1. divide'[Main].pc = "assign"
      BY <1>0, <1>4, DivideMoves DEF MainLaunch
    <2> QED
      BY <1>4, <2>1 DEF MainLaunch, Early, Accepted
  <1>5. CASE MainExit \/ UNCHANGED vars
    BY <1>1, <1>5 DEF MainExit, vars
  <1>6. ASSUME NEW d \in Dividers, Divide(d)
        PROVE  workers' = workers /\ Accepted \subseteq Accepted' /\ (Early' \/ DivideCount(Main))
    <2>1. divide[d].pc # "none"
      BY <1>6 DEF Divide, DivideAssign, DivideCount, DivideCountsNone, BundleEnqueue,
                  BundleFaults, BundlePost, BundlesJoined
    <2>2. d = Main
      BY <2>1 DEF Company, MainDivides, Dividers
    <2>3. CASE DivideAssign(Main)
      <3>1. divide'[Main].pc = "count"
        BY <1>0, <2>3, DivideMoves DEF DivideAssign
      <3> QED
        BY <2>3, <3>1 DEF DivideAssign, Early, Accepted
    <2>4. CASE DivideCount(Main)
      BY <2>4 DEF DivideCount, Accepted
    <2>5. CASE DivideCountsNone(Main) \/ BundleFaults(Main)
      BY <1>2, <2>5 DEF DivideCountsNone, BundleFaults
    <2>6. ~(BundleEnqueue(Main) \/ BundlePost(Main) \/ BundlesJoined(Main))
      BY DEF BundleEnqueue, BundlePost, BundlesJoined, Early
    <2> QED
      BY <1>6, <2>2, <2>3, <2>4, <2>5, <2>6 DEF Divide
  <1>7. ASSUME NEW s \in Senders, Sender(s)
        PROVE  workers' = workers /\ Early' /\ Accepted \subseteq Accepted'
    <2>1. bundles = <<>> /\ sender[s].pc \in {"wait", "take"}
      BY <1>0 DEF Idle
    <2>2. ~(SenderQueue(s) \/ SenderSend(s) \/ SenderReturn(s) \/ SenderFaults(s))
      BY <2>1 DEF SenderQueue, SenderSend, SenderReturn, SenderFaults
    <2>3. CASE SenderWait(s) \/ SenderTake(s)
      BY <1>1, <2>1, <2>3 DEF SenderWait, SenderTake
    <2> QED
      BY <1>7, <2>2, <2>3 DEF Sender
  <1>8. ASSUME NEW w \in Workers, Event(w) \/ WorkerDies(w)
        PROVE  workers' = workers /\ Early' /\ Accepted \subseteq Accepted'
    <2>1. event[w] \in {"absent", "receive"}
      BY <1>0 DEF Idle, EarlyPlaces, Company, Admission, LostPlaces
    <2>2. ~(EventSave(w) \/ EventSaveFaults(w) \/ EventPop(w) \/ EventCount(w)
            \/ AllBundlesClose(w) \/ AllBundlesDone(w) \/ CleanupRepool(w) \/ CleanupPost(w)
            \/ CleanupFreeQueue(w) \/ CleanupUnlink(w) \/ CleanupFree(w))
      BY <2>1 DEF EventSave, EventSaveFaults, EventPop, EventCount, AllBundlesClose, AllBundlesDone,
                  CleanupRepool, CleanupPost, CleanupFreeQueue, CleanupUnlink, CleanupFree
    <2>3. CASE EventFaults(w)
      BY <1>2, <2>3 DEF EventFaults
    <2>4. CASE EventInvalid(w) \/ WorkerDies(w)
      BY <1>1, <2>4 DEF EventInvalid, WorkerDies
    <2>5. ~EventIntegrate(w) /\ ~EventClosed(w)
      <3>1. alive[w] \/ event[w] = "absent"
        BY DEF Company, Admission, Accepted
      <3>2. owes[w] = <<>> \/ Head(owes[w]) = Settings
        BY <1>0, EmptySeq DEF Idle
      <3> QED
        BY <3>1, <3>2 DEF EventIntegrate, EventClosed, Settings
    <2> QED
      BY <1>8, <2>2, <2>3, <2>4, <2>5 DEF Event
  <1> QED
    BY <1>3, <1>4, <1>5, <1>6, <1>7, <1>8 DEF Next

(* The steps from then on.                                                   *)
Nothing == UNCHANGED <<workers, bundles, sender, event, workunit_queue, alive, owes, connect,
                       divide, cells, new_dataset>>

LateEvent(w) == EventInvalid(w) \/ EventIntegrate(w) \/ EventSave(w) \/ EventPop(w)
                \/ EventCount(w) \/ AllBundlesClose(w) \/ AllBundlesDone(w)

LEMMA LateIsLaunched ==
    ASSUME Company, ~Early
    PROVE  /\ Launched /\ sender_count # 0 /\ Accepted = Workers /\ connect.pc = "accept"
           /\ \A w \in Workers : /\ event[w] # "absent" /\ event[w] \notin LostPlaces
                                 /\ alive[w]
  BY EverybodyIsIn DEF Company, Admission, Launched, Early

LEMMA LateSteps ==
    ASSUME Settled, Company, ~Early, [Next]_vars
    PROVE  \/ Nothing
           \/ BundleEnqueue(Main) \/ BundlePost(Main) \/ BundlesJoined(Main)
           \/ \E s \in Senders : SenderWait(s) \/ SenderTake(s) \/ SenderQueue(s)
                                \/ SenderSend(s) \/ SenderReturn(s)
           \/ \E w \in Workers : LateEvent(w)
  <1> USE DEF pool, peers, files, tick, stop
  <1>1. ASSUME NEW kind, Fault(kind) PROVE Nothing
    BY <1>1 DEF Fault, Nothing
  <1>2. ~Connect
    BY LateIsLaunched
    DEF Settled, Connect, ConnectAccept, ConnectFaults, ConnectSettings, ConnectApplied
  <1>3. CASE MainExit \/ UNCHANGED vars
    BY <1>3 DEF MainExit, vars, Nothing
  <1>4. ~MainLaunch
    BY DEF MainLaunch, Early
  <1>5. ASSUME NEW d \in Dividers, Divide(d)
        PROVE  Nothing \/ BundleEnqueue(Main) \/ BundlePost(Main) \/ BundlesJoined(Main)
    <2>1. divide[d].pc # "none"
      BY <1>5 DEF Divide, DivideAssign, DivideCount, DivideCountsNone, BundleEnqueue,
                  BundleFaults, BundlePost, BundlesJoined
    <2>2. d = Main
      BY <2>1 DEF Company, MainDivides, Dividers
    <2>3. ~(DivideAssign(Main) \/ DivideCount(Main) \/ DivideCountsNone(Main))
      BY DEF DivideAssign, DivideCount, DivideCountsNone, Early
    <2>4. CASE BundleFaults(Main)
      BY <1>1, <2>4 DEF BundleFaults
    <2> QED
      BY <1>5, <2>2, <2>3, <2>4 DEF Divide
  <1>6. ASSUME NEW s \in Senders, Sender(s)
        PROVE  Nothing \/ SenderWait(s) \/ SenderTake(s) \/ SenderQueue(s)
                       \/ SenderSend(s) \/ SenderReturn(s)
    BY <1>1, <1>6 DEF Sender, SenderFaults
  <1>7. ASSUME NEW w \in Workers, Event(w) \/ WorkerDies(w)
        PROVE  Nothing \/ LateEvent(w)
    <2>1. event[w] \notin LostPlaces /\ alive[w]
      BY LateIsLaunched
    <2>2. ~(EventClosed(w) \/ CleanupRepool(w) \/ CleanupPost(w) \/ CleanupFreeQueue(w)
            \/ CleanupUnlink(w) \/ CleanupFree(w))
      BY <2>1 DEF LostPlaces, EventClosed, CleanupRepool, CleanupPost, CleanupFreeQueue,
                  CleanupUnlink, CleanupFree
    <2>3. ~WorkerDies(w)
      BY DEF WorkerDies, Settled, Company, TypeInv, Typed, Peered
    <2>4. CASE EventFaults(w) \/ EventSaveFaults(w)
      BY <1>1, <2>4 DEF EventFaults, EventSaveFaults
    <2> QED
      BY <1>7, <2>2, <2>3, <2>4 DEF Event, LateEvent
  <1> QED
    BY <1>2, <1>3, <1>4, <1>5, <1>6, <1>7 DEF Next
-------------------------------------------------------------------------------
(* The line of those whose turn is to come.                                  *)
LEMMA InitLine == Init => InLine /\ Clean
  <1> SUFFICES ASSUME Init PROVE InLine /\ Clean
    OBVIOUS
  <1>1. Company /\ Early
    BY InitType, InitApart, InitAdmits DEF Init, Company, MainDivides, Early, Dividers
  <1>2. Line(<<>>)
    BY <1>1, EmptySeq DEF Init, Line, InFront, AllOf, LQ!NewQueue
  <1>3. Clean
    BY <1>1, EarlyIsClean DEF Company
  <1> QED
    BY <1>2, <1>3, EmptySeq DEF InLine

(* Before the bundles are sized: a worker that is admitted is the last.       *)
LEMMA EarlyLine ==
    ASSUME Settled, Company, InLine, Early, [Next]_vars, TypeInv', Admission', Early'
    PROVE  InLine'
  <1>1. PICK q \in Seq(Workers) : Line(q)
    BY DEF InLine
  <1>2. AllUntouched'
    BY EarlyIsCleanNext
  <1>3. InFront(q, workers) /\ AllOf(q, workers) /\ \A i \in 1..Len(q) : q[i] \in Accepted
    BY <1>1 DEF Line, Untouched
  <1>4. Accepted \subseteq Accepted'
    BY EarlySteps
  <1>5. CASE workers' = workers
    <2>1. Line(q)'
      BY <1>2, <1>3, <1>4, <1>5 DEF Line, AllUntouched
    <2> QED
      BY <2>1 DEF InLine
  <1>6. ASSUME NEW w \in Workers, ConnectAccept(w) PROVE InLine'
    <2> DEFINE r == Append(q, w)
    <2>1. w \notin Accepted /\ w \in Accepted' /\ workers' = LQ!Enqueue(workers, w)
      BY <1>6 DEF ConnectAccept, Joined, Accepted, pool, peers, tick, files, stop
    <2>2. workers \in LQ!Queues /\ \A i \in 1..Len(q) : q[i] # w
      BY <1>3, <2>1 DEF Company, TypeInv, Inv, Shape
    <2>3. InFront(r, workers') /\ AllOf(r, workers')
      BY <1>3, <2>1, <2>2, AllEnqueued
    <2>4. \A i \in 1..Len(r) : r[i] \in Accepted'
      <3>1. /\ Len(q) \in Nat /\ Len(r) = Len(q) + 1
            /\ r[Len(q) + 1] = w /\ \A i \in 1..Len(q) : r[i] = q[i]
        BY LenProperties, AppendProperties
      <3>2. \A i \in 1..Len(r) : i \in 1..Len(q) \/ i = Len(q) + 1
        BY <3>1
      <3> HIDE DEF r
      <3> QED
        BY <1>3, <1>4, <2>1, <3>1, <3>2
    <2>5. r \in Seq(Workers)
      BY AppendProperties
    <2> HIDE DEF r
    <2>6. Line(r)'
      BY <1>2, <2>3, <2>4 DEF Line, AllUntouched
    <2> QED
      BY <2>5, <2>6 DEF InLine
  <1> QED
    BY <1>5, <1>6, EarlySteps

(* The bundles are sized: not more of them than workers.                     *)
LEMMA CountLine ==
    ASSUME Company, InLine, DivideCount(Main), Accepted \subseteq Accepted'
    PROVE  InLine'
  <1> USE DEF pool, peers, files, tick, stop
  <1>0. /\ Early /\ Clean /\ divide \in [Dividers -> Division] /\ Main \in Dividers
        /\ workers.count \in Nat \ {0} /\ workers \in LQ!Queues
    BY EarlyIsClean, Groups, QueueFields
    DEF DivideCount, Early, Company, TypeInv, Inv, Shape
  <1>1. PICK q \in Seq(Workers) : Line(q)
    BY DEF InLine
  <1>2. /\ divide'[Main].keys = Slices(Leaves, CeilDiv(Leaves, workers.count))
        /\ divide'[Main].pc = "bundle"
        /\ UNCHANGED <<workers, bundles, sender, event, workunit_queue, owes>>
    BY <1>0 DEF DivideCount
  <1>3. \A w \in Workers : Untouched(w) => Untouched(w)'
    BY <1>2 DEF Untouched, NoUnits
  <1>4. ~Early' /\ Demand' <= Len(q)
    <2>1. Len(q) = workers.count
      BY <1>0, <1>1 DEF Line, AllOf
    <2>2. Cardinality(divide'[Main].keys) <= workers.count /\ Cardinality(divide'[Main].keys) \in Nat
      BY <1>0, <1>2, SlicesEnough
    <2>3. Len(bundles') = 0
      BY <1>0, <1>2, EmptySeq DEF Clean
    <2> QED
      BY <1>2, <2>1, <2>2, <2>3 DEF Early, Demand
  <1>5. Line(q)'
    <2>1. \A i \in 1..Len(q) : q[i] \in Workers
      BY ElementOfSeq
    <2> QED
      BY <1>1, <1>2, <1>3, <1>4, <2>1 DEF Line
  <1> QED
    BY <1>5 DEF InLine

(* Nobody is touched but the worker a sender takes.                          *)
LEMMA SameUntouched ==
    ASSUME NEW w \in Workers, Untouched(w), event[w] # "absent", event'[w] = event[w],
           workunit_queue'[w] = workunit_queue[w], NoUnits(w)',
           \A s \in Senders : sender'[s].link # w
    PROVE  Untouched(w)'
  BY DEF Untouched, Accepted

LEMMA LateUntouched ==
    ASSUME Settled, Company, ~Early, [Next]_vars, NEW w \in Workers, Untouched(w),
           \A s \in Senders : HandsFull(s) => w # workers.first
    PROVE  Untouched(w)'
  <1> USE DEF pool, peers, files, tick, stop
  <1>0. /\ Inv /\ event \in [Workers -> EventPlaces] /\ workunit_queue \in [Workers -> Seq(Sliced)]
        /\ owes \in [Workers -> Seq(Units \cup {Settings})] /\ sender \in [Senders -> Hand]
        /\ NULL # w /\ Stocked
    BY DispatcherAssumption DEF Company, TypeInv, Typed, Stocked, Peered, Inv, Shape
  <1>1. event[w] = "receive" /\ workunit_queue[w] = <<>> /\ NoUnits(w)
        /\ \A s \in Senders : sender[s].link # w
    BY LateIsLaunched DEF Untouched
  <1>2. ASSUME event'[w] = event[w], workunit_queue'[w] = workunit_queue[w], owes'[w] = owes[w],
               \A s \in Senders : sender'[s].link # w
        PROVE  Untouched(w)'
    BY <1>1, <1>2, SameUntouched DEF NoUnits
  <1>3. CASE Nothing
    BY <1>1, <1>2, <1>3 DEF Nothing
  <1>4. CASE BundleEnqueue(Main) \/ BundlePost(Main) \/ BundlesJoined(Main)
    BY <1>1, <1>2, <1>4 DEF BundleEnqueue, BundlePost, BundlesJoined
  <1>5. ASSUME NEW s \in Senders, SenderWait(s) \/ (SenderTake(s) /\ ~HandsFull(s))
        PROVE  Untouched(w)'
    <2>1. PICK p \in {"take", "wait"} : sender' = [sender EXCEPT ![s].pc = p]
      BY <1>5 DEF SenderWait, SenderTake, HandsFull
    <2>2. \A t \in Senders : sender'[t].link # w
      BY <1>0, <1>1, <2>1, SenderMoves
    <2>3. UNCHANGED <<event, workunit_queue, owes>>
      BY <1>5 DEF SenderWait, SenderTake
    <2> QED
      BY <1>2, <2>2, <2>3
  <1>6. ASSUME NEW s \in Senders, HandsFull(s) PROVE Untouched(w)'
    <2>1. /\ sender' = [sender EXCEPT ![s] = [pc |-> "queue", link |-> workers.first,
                                              bundle |-> Head(bundles)]]
          /\ UNCHANGED <<event, workunit_queue, owes>>
      BY <1>6 DEF HandsFull, SenderTake
    <2>2. workers.first # w
      BY <1>6
    <2>3. \A t \in Senders : sender'[t].link # w
      BY <1>0, <1>1, <2>1, <2>2
    <2> QED
      BY <1>2, <2>1, <2>3
  <1>7. ASSUME NEW s \in Senders, SenderQueue(s) PROVE Untouched(w)'
    <2>1. /\ sender' = [sender EXCEPT ![s].pc = "send"]
          /\ workunit_queue' = [workunit_queue EXCEPT ![sender[s].link] =
                                    Append(@, sender[s].bundle)]
          /\ UNCHANGED <<event, owes>>
      BY <1>7 DEF SenderQueue
    <2>2. workunit_queue'[w] = workunit_queue[w]
      BY <1>0, <1>1, <2>1
    <2>3. \A t \in Senders : sender'[t].link # w
      BY <1>0, <1>1, <2>1, SenderMoves
    <2> QED
      BY <1>2, <2>1, <2>2, <2>3
  <1>8. ASSUME NEW s \in Senders, SenderSend(s) PROVE Untouched(w)'
    <2>1. /\ UNCHANGED <<event, workunit_queue>>
          /\ \A v \in Workers : v # sender[s].link => owes'[v] = owes[v]
      BY <1>0, <1>8 DEF SenderSend
    <2>2. \A t \in Senders : sender'[t].link # w
      BY <1>0, <1>1, <1>8 DEF SenderSend, Hand
    <2> QED
      BY <1>1, <1>2, <2>1, <2>2
  <1>9. ASSUME NEW s \in Senders, SenderReturn(s) PROVE Untouched(w)'
    <2>1. /\ sender' = [sender EXCEPT ![s] = [pc |-> "wait", link |-> NULL, bundle |-> NULL]]
          /\ UNCHANGED <<event, workunit_queue, owes>>
      BY <1>9 DEF SenderReturn
    <2>2. \A t \in Senders : sender'[t].link # w
      BY <1>0, <1>1, <2>1
    <2> QED
      BY <1>2, <2>1, <2>2
  <1>10. ASSUME NEW v \in Workers, LateEvent(v) PROVE Untouched(w)'
    <2>1. UNCHANGED sender
      BY <1>10 DEF LateEvent, EventInvalid, EventIntegrate, EventSave, EventPop, EventCount,
                   AllBundlesClose, AllBundlesDone
    <2>2. CASE v # w
      <3>1. /\ event'[w] = event[w] /\ workunit_queue'[w] = workunit_queue[w]
            /\ owes'[w] = owes[w]
        <4>1. CASE EventInvalid(v) \/ EventIntegrate(v) \/ EventSave(v) \/ EventPop(v)
          BY <1>0, <2>2, <4>1 DEF EventInvalid, EventIntegrate, EventSave, EventPop
        <4>2. CASE EventCount(v) \/ AllBundlesClose(v) \/ AllBundlesDone(v)
          BY <1>0, <2>2, <4>2 DEF EventCount, AllBundlesClose, AllBundlesDone
        <4> QED
          BY <1>10, <4>1, <4>2 DEF LateEvent
      <3> QED
        BY <1>1, <1>2, <2>1, <3>1
    <2>3. CASE v = w
      <3>1. ~(EventSave(v) \/ EventPop(v) \/ EventCount(v) \/ AllBundlesClose(v)
              \/ AllBundlesDone(v))
        BY <1>1, <2>3 DEF EventSave, EventPop, EventCount, AllBundlesClose, AllBundlesDone
      <3>2. owes[w] \in Seq(Units \cup {Settings})
        BY <1>0
      <3>3. ~EventIntegrate(v)
        <4>1. owes[w] # <<>> => 1 \in 1..Len(owes[w]) /\ Head(owes[w]) = owes[w][1]
          BY <3>2, HeadTailProperties, LenProperties, EmptySeq
        <4> QED
          BY <1>1, <2>3, <4>1 DEF EventIntegrate, NoUnits
      <3>4. EventInvalid(w)
        BY <1>10, <2>3, <3>1, <3>3 DEF LateEvent
      <3>5. /\ UNCHANGED <<event, workunit_queue>> /\ owes'[w] = Tail(owes[w]) /\ owes[w] # <<>>
        BY <1>0, <3>4 DEF EventInvalid
      <3>6. NoUnits(w)'
        <4>1. /\ Len(Tail(owes[w])) = Len(owes[w]) - 1 /\ Len(owes[w]) \in Nat
              /\ \A i \in 1..Len(Tail(owes[w])) : Tail(owes[w])[i] = owes[w][i + 1]
          BY <3>2, <3>5, HeadTailProperties, LenProperties
        <4>2. \A i \in 1..Len(Tail(owes[w])) : i + 1 \in 1..Len(owes[w])
          BY <4>1
        <4> QED
          BY <1>1, <3>5, <4>1, <4>2 DEF NoUnits
      <3> QED
        BY <1>1, <2>1, <3>5, <3>6, SameUntouched
    <2> QED
      BY <2>2, <2>3
  <1> QED
    BY <1>3, <1>4, <1>5, <1>6, <1>7, <1>8, <1>9, <1>10, LateSteps DEF HandsFull

(* How many bundles are still to be sent.                                    *)
LEMMA DemandCounts ==
    TypeInv => /\ IsFiniteSet(divide[Main].keys) /\ Cardinality(divide[Main].keys) \in Nat
               /\ Len(bundles) \in Nat /\ Demand \in Nat
  <1> SUFFICES ASSUME TypeInv
               PROVE  /\ IsFiniteSet(divide[Main].keys) /\ Cardinality(divide[Main].keys) \in Nat
                      /\ Len(bundles) \in Nat /\ Demand \in Nat
    OBVIOUS
  <1>1. divide[Main].keys \subseteq Live /\ IsFiniteSet(Live)
    BY LiveCounted, LiveOf, StockOf, Groups
  <1>2. IsFiniteSet(divide[Main].keys) /\ Cardinality(divide[Main].keys) \in Nat
    BY <1>1, FS_Subset, FS_CardinalityType
  <1>3. bundles \in Seq(Sliced)
    BY DEF TypeInv, Typed, Stocked
  <1>4. Len(bundles) \in Nat
    BY <1>3, LenProperties
  <1> QED
    BY <1>2, <1>4 DEF Demand

LEMMA LateDemand ==
    ASSUME TicksCnt = 1, Settled, Company, ~Early, [Next]_vars
    PROVE  /\ ~Early'
           /\ \/ Demand' = Demand /\ \A s \in Senders : ~HandsFull(s)
              \/ \E s \in Senders : HandsFull(s) /\ Demand' = Demand - 1 /\ Demand > 0
  <1> USE DEF pool, peers, files, tick, stop
  <1>0. /\ Inv /\ divide \in [Dividers -> Division] /\ Main \in Dividers
        /\ ticks_done \in Nat /\ bundles \in Seq(Sliced) /\ divide[Main].keys \subseteq Runs
        /\ cells \in 0..TicksCnt
    BY Groups DEF Company, TypeInv, Typed, Ticking, Stocked, Inv, Shape
  <1>1. ASSUME divide' = divide, bundles' = bundles PROVE ~Early' /\ Demand' = Demand
    BY <1>1 DEF Early, Demand
  <1>2. ASSUME Nothing PROVE ~Early' /\ Demand' = Demand
    BY <1>1, <1>2 DEF Nothing
  <1>3. ASSUME BundleEnqueue(Main) PROVE ~Early' /\ Demand' = Demand
    <2>1. PICK k \in divide[Main].keys :
              /\ bundles' = Append(bundles, [tick |-> cells, keys |-> k])
              /\ divide' = [divide EXCEPT ![Main].keys = @ \ {k}, ![Main].posts = @ \cup {k}]
              /\ cells # 0
      BY <1>3 DEF BundleEnqueue
    <2>2. divide'[Main].keys = divide[Main].keys \ {k} /\ divide'[Main].pc = divide[Main].pc
      BY <1>0, <2>1 DEF Division
    <2>3. [tick |-> cells, keys |-> k] \in Sliced
      BY <1>0, <2>1, DispatcherAssumption DEF Sliced
    <2>4. Len(bundles') = Len(bundles) + 1
      BY <1>0, <2>1, <2>3, AppendProperties
    <2>5. Cardinality(divide'[Main].keys) = Cardinality(divide[Main].keys) - 1
      BY <2>1, <2>2, DemandCounts, FS_RemoveElement DEF Company
    <2> QED
      BY <2>2, <2>4, <2>5, DemandCounts DEF Company, Early, Demand
  <1>4. ASSUME BundlePost(Main) \/ BundlesJoined(Main) PROVE ~Early' /\ Demand' = Demand
    <2>1. CASE BundlePost(Main)
      <3>1. PICK k \in divide[Main].posts :
                divide' = [divide EXCEPT ![Main].posts = @ \ {k}] /\ bundles' = bundles
        BY <2>1 DEF BundlePost
      <3>2. divide'[Main].keys = divide[Main].keys /\ divide'[Main].pc = divide[Main].pc
        BY <1>0, <3>1 DEF Division
      <3> QED
        BY <3>1, <3>2 DEF Early, Demand
    <2>2. CASE BundlesJoined(Main)
      <3>1. divide' = [divide EXCEPT ![Main].pc = "done"] /\ bundles' = bundles
        BY <2>2 DEF BundlesJoined
      <3>2. divide'[Main].keys = divide[Main].keys /\ divide'[Main].pc = "done"
        BY <1>0, <3>1, DivideMoves
      <3> QED
        BY <3>1, <3>2 DEF Early, Demand
    <2> QED
      BY <1>4, <2>1, <2>2
  <1>5. ASSUME NEW s \in Senders, HandsFull(s)
        PROVE  ~Early' /\ Demand' = Demand - 1 /\ Demand > 0
    <2>1. bundles' = Tail(bundles) /\ bundles # <<>> /\ divide' = divide
      BY <1>5 DEF HandsFull, SenderTake
    <2>2. Len(bundles') = Len(bundles) - 1 /\ Len(bundles) > 0
      BY <1>0, <2>1, HeadTailProperties, LenProperties, EmptySeq
    <2> QED
      BY <2>1, <2>2, DemandCounts DEF Company, Early, Demand
  <1>6. ASSUME NEW s \in Senders, ~HandsFull(s),
               SenderWait(s) \/ SenderTake(s) \/ SenderQueue(s) \/ SenderSend(s) \/ SenderReturn(s)
        PROVE  ~Early' /\ Demand' = Demand
    BY <1>1, <1>6 DEF HandsFull, SenderWait, SenderTake, SenderQueue, SenderSend, SenderReturn
  <1>7. ASSUME NEW w \in Workers, LateEvent(w) PROVE ~Early' /\ Demand' = Demand
    <2>1. CASE AllBundlesDone(w)
      <3>1. ~(ticks_done + 1 < TicksCnt)
        BY <1>0
      <3> QED
        BY <1>1, <2>1, <3>1 DEF AllBundlesDone
    <2>2. CASE ~AllBundlesDone(w)
      BY <1>1, <1>7, <2>2 DEF LateEvent, EventInvalid, EventIntegrate, EventSave, EventPop,
                              EventCount, AllBundlesClose
    <2> QED
      BY <2>1, <2>2
  <1> QED
    BY <1>2, <1>3, <1>4, <1>5, <1>6, <1>7, LateSteps

(* A sender takes the first in line; a link given back goes behind the line.  *)
LEMMA LateLine ==
    ASSUME TicksCnt = 1, Settled, Company, InLine, ~Early, [Next]_vars
    PROVE  InLine'
  <1> USE DEF pool, peers, files, tick, stop
  <1>0. /\ workers \in LQ!Queues /\ Demand \in Nat /\ ~Early'
    BY DemandCounts, LateDemand DEF Company, TypeInv, Inv, Shape
  <1>1. PICK q \in Seq(Workers) : Line(q)
    BY DEF InLine
  <1>2. /\ InFront(q, workers) /\ Demand <= Len(q) /\ Len(q) \in Nat
        /\ \A i \in 1..Len(q) : Untouched(q[i]) /\ q[i] \in Workers
    BY <1>1, LenProperties, ElementOfSeq DEF Line
  <1>3. ASSUME NEW s \in Senders, HandsFull(s), Demand' = Demand - 1, Demand > 0
        PROVE  InLine'
    <2> DEFINE r == Tail(q)
    <2>1. q # <<>>
      BY <1>0, <1>2, <1>3, EmptySeq
    <2>2. /\ r \in Seq(Workers) /\ Len(r) = Len(q) - 1
          /\ \A i \in 1..Len(r) : r[i] = q[i + 1]
      BY <2>1, HeadTailProperties
    <2>3. workers' = LQ!PopLink(workers)
      BY <1>3 DEF HandsFull, SenderTake
    <2>4. InFront(r, workers')
      BY <1>0, <1>2, <2>1, <2>3, FrontPopped
    <2>5. ASSUME NEW i \in 1..Len(r) PROVE Untouched(r[i])'
      <3>1. i + 1 \in 1..Len(q) /\ 1 \in 1..Len(q) /\ i + 1 # 1 /\ r[i] = q[i + 1]
        BY <1>2, <2>2
      <3>2. r[i] # workers.first /\ r[i] \in Workers /\ Untouched(r[i])
        BY <1>2, <2>1, <3>1 DEF InFront
      <3> HIDE DEF r
      <3> QED
        BY <3>2, LateUntouched
    <2> HIDE DEF r
    <2>6. Line(r)'
      BY <1>0, <1>2, <1>3, <2>2, <2>4, <2>5 DEF Line
    <2> QED
      BY <2>2, <2>6 DEF InLine
  <1>4. ASSUME Demand' = Demand, \A s \in Senders : ~HandsFull(s)
        PROVE  InLine'
    <2>1. \A i \in 1..Len(q) : Untouched(q[i])'
      BY <1>2, <1>4, LateUntouched
    <2>2. InFront(q, workers')
      <3>1. ASSUME NEW s \in Senders, SenderReturn(s) PROVE InFront(q, workers')
        <4>1. /\ sender[s].link \in Workers
              /\ workers' = LQ!Enqueue(workers, sender[s].link)
          BY <3>1 DEF SenderReturn, Company, TypeInv, Typed, Stocked
        <4>2. \A i \in 1..Len(q) : q[i] # sender[s].link
          BY <1>2 DEF Untouched
        <4> QED
          BY <1>0, <1>2, <4>1, <4>2, FrontEnqueued
      <3>2. ASSUME \A s \in Senders : ~SenderReturn(s)
            PROVE  workers' = workers \/ (workers.first = NULL /\ workers' = LQ!PopLink(workers))
        <4>1. CASE Nothing \/ BundleEnqueue(Main) \/ BundlePost(Main) \/ BundlesJoined(Main)
          BY <4>1 DEF Nothing, BundleEnqueue, BundlePost, BundlesJoined
        <4>2. ASSUME NEW s \in Senders,
                     SenderWait(s) \/ SenderTake(s) \/ SenderQueue(s) \/ SenderSend(s)
              PROVE  workers' = workers \/ (workers.first = NULL /\ workers' = LQ!PopLink(workers))
          BY <1>4, <4>2 DEF HandsFull, SenderWait, SenderTake, SenderQueue, SenderSend
        <4>3. ASSUME NEW w \in Workers, LateEvent(w) PROVE workers' = workers
          BY <4>3 DEF LateEvent, EventInvalid, EventIntegrate, EventSave, EventPop, EventCount,
                      AllBundlesClose, AllBundlesDone
        <4> QED
          BY <3>2, <4>1, <4>2, <4>3, LateSteps
      <3>3. ASSUME workers.first = NULL, workers' = LQ!PopLink(workers) PROVE InFront(q, workers')
        <4>1. q = <<>> /\ Len(q) = 0
          BY <1>2, <3>3, DispatcherAssumption, EmptySeq DEF InFront
        <4>2. workers'.count = workers.count
          BY <1>0, <3>3 DEF LQ!PopLink, LQ!Queues
        <4> QED
          BY <1>2, <4>1, <4>2 DEF InFront
      <3> QED
        BY <1>2, <3>1, <3>2, <3>3
    <2>3. Line(q)'
      BY <1>0, <1>2, <1>4, <2>1, <2>2 DEF Line
    <2> QED
      BY <2>3 DEF InLine
  <1> QED
    BY <1>3, <1>4, LateDemand
-------------------------------------------------------------------------------
(* A sender takes a worker that has had nothing to do.                       *)
LEMMA TakesUntouched ==
    ASSUME TicksCnt = 1, Settled, Company, InLine, ~Early, [Next]_vars,
           NEW s \in Senders, HandsFull(s)
    PROVE  workers.first \in Workers /\ Untouched(workers.first)
  <1>1. PICK q \in Seq(Workers) : Line(q)
    BY DEF InLine
  <1>2. Demand > 0 /\ Demand \in Nat
    BY LateDemand, DemandCounts DEF Company
  <1>3. Len(q) \in Nat /\ Demand <= Len(q)
    BY <1>1, LenProperties DEF Line
  <1>4. 1 \in 1..Len(q) /\ q # <<>>
    BY <1>2, <1>3, EmptySeq
  <1> QED
    BY <1>1, <1>4, ElementOfSeq DEF Line, InFront

LEMMA LateOneBundle ==
    ASSUME TicksCnt = 1, Settled, TurnInv, ~Early, [Next]_vars
    PROVE  OneBundle'
  <1> USE DEF pool, peers, files, tick, stop
  <1>0. /\ Inv /\ sender \in [Senders -> Hand] /\ workunit_queue \in [Workers -> Seq(Sliced)]
        /\ Stocked /\ Company /\ InLine /\ NULL \notin Workers
    BY DispatcherAssumption DEF TurnInv, Company, TypeInv, Typed, Stocked, Inv, Shape
  <1>1. /\ \A s, t \in Senders : s # t /\ sender[s].link = sender[t].link => sender[s].link = NULL
        /\ \A w \in Workers : Len(workunit_queue[w]) <= 1
        /\ \A s \in Senders : sender[s].pc = "queue" => workunit_queue[sender[s].link] = <<>>
    BY DEF TurnInv, OneBundle, HeldOnce, OneEach
  <1>2. ASSUME workunit_queue' = workunit_queue,
               \A s \in Senders : /\ sender'[s].link = sender[s].link
                                  /\ sender'[s].pc = "queue" => sender[s].pc = "queue"
        PROVE  OneBundle'
    <2>1. HeldOnce'
      <3>1. \A s \in Senders : sender'[s].link = sender[s].link
        BY <1>2
      <3>2. HeldOnce
        BY DEF TurnInv, OneBundle
      <3> QED
        BY <3>1, <3>2 DEF HeldOnce
    <2>2. OneEach'
      BY <1>1, <1>2, Zenon DEF OneEach
    <2>3. ASSUME NEW s \in Senders, sender'[s].pc = "queue"
          PROVE  workunit_queue'[sender'[s].link] = <<>>
      <3>1. sender'[s].link = sender[s].link /\ sender[s].pc = "queue"
        BY <1>2, <2>3
      <3>2. workunit_queue[sender[s].link] = <<>>
        BY <1>1, <3>1, Zenon
      <3> QED
        BY <1>2, <3>1, <3>2
    <2> QED
      BY <2>1, <2>2, <2>3 DEF OneBundle
  <1>3. CASE Nothing \/ BundleEnqueue(Main) \/ BundlePost(Main) \/ BundlesJoined(Main)
    BY <1>2, <1>3 DEF Nothing, BundleEnqueue, BundlePost, BundlesJoined
  <1>4. ASSUME NEW s \in Senders, SenderWait(s) \/ (SenderTake(s) /\ ~HandsFull(s))
        PROVE  OneBundle'
    <2>1. PICK p \in {"take", "wait"} : sender' = [sender EXCEPT ![s].pc = p]
      BY <1>4 DEF SenderWait, SenderTake, HandsFull
    <2>2. workunit_queue' = workunit_queue
      BY <1>4 DEF SenderWait, SenderTake
    <2> QED
      BY <1>0, <1>2, <2>1, <2>2, SenderMoves
  <1>5. ASSUME NEW s \in Senders, HandsFull(s) PROVE OneBundle'
    <2> DEFINE w == workers.first
    <2>1. w \in Workers /\ workunit_queue[w] = <<>> /\ \A t \in Senders : sender[t].link # w
      BY <1>0, <1>5, TakesUntouched DEF Untouched
    <2>2. /\ workunit_queue' = workunit_queue
          /\ sender' = [sender EXCEPT ![s] = [pc |-> "queue", link |-> w, bundle |-> Head(bundles)]]
      BY <1>5 DEF HandsFull, SenderTake
    <2>3. sender'[s].link = w /\ \A t \in Senders : t # s => sender'[t] = sender[t]
      BY <1>0, <2>2
    <2> HIDE DEF w
    <2> QED
      BY <1>1, <2>1, <2>2, <2>3 DEF OneBundle, HeldOnce, OneEach
  <1>6. ASSUME NEW s \in Senders, SenderQueue(s) PROVE OneBundle'
    <2> DEFINE w == sender[s].link
               b == sender[s].bundle
    <2>1. w \in Workers /\ b \in Sliced /\ workunit_queue[w] = <<>> /\ sender[s].pc = "queue"
      BY <1>0, <1>1, <1>6 DEF SenderQueue, Stocked
    <2>2. sender'[s].pc = "send" /\ sender'[s].link = w
          /\ \A t \in Senders : t # s => sender'[t] = sender[t]
      BY <1>0, <1>6, SenderMoves DEF SenderQueue
    <2>3. /\ workunit_queue'[w] = Append(<<>>, b)
          /\ \A v \in Workers : v # w => workunit_queue'[v] = workunit_queue[v]
      BY <1>0, <1>6, <2>1 DEF SenderQueue
    <2> HIDE DEF w, b
    <2>4. Len(workunit_queue'[w]) = 1
      BY <2>1, <2>3
    <2>5. ASSUME NEW v \in Workers PROVE Len(workunit_queue'[v]) <= 1
      <3>1. CASE v = w
        <4>1. Len(workunit_queue'[v]) = 1
          BY <2>4, <3>1, Zenon
        <4> QED
          BY <4>1
      <3>2. CASE v # w
        <4>1. workunit_queue'[v] = workunit_queue[v]
          BY <2>3, <3>2
        <4> QED
          BY <1>1, <4>1, Zenon
      <3> QED
        BY <3>1, <3>2
    <2>6. \A t \in Senders : sender'[t].link = sender[t].link
      BY <2>2 DEF w
    <2>7. ASSUME NEW t \in Senders, sender'[t].pc = "queue"
          PROVE  workunit_queue'[sender'[t].link] = <<>>
      <3>1. t # s /\ sender[t].pc = "queue" /\ sender'[t].link = sender[t].link
        BY <2>2, <2>7
      <3>2. sender[t].link \in Workers /\ sender[t].link # w
        BY <1>0, <1>1, <2>1, <3>1 DEF Stocked, w
      <3> QED
        BY <1>1, <2>3, <3>1, <3>2
    <2> QED
      BY <1>1, <2>5, <2>6, <2>7 DEF OneBundle, HeldOnce, OneEach
  <1>7. ASSUME NEW s \in Senders, SenderSend(s) PROVE OneBundle'
    <2>1. /\ workunit_queue' = workunit_queue
          /\ \A t \in Senders : /\ sender'[t].link = sender[t].link
                                /\ sender'[t].pc = "queue" => sender[t].pc = "queue"
      BY <1>0, <1>7 DEF SenderSend, Hand
    <2> QED
      BY <1>2, <2>1
  <1>8. ASSUME NEW s \in Senders, SenderReturn(s) PROVE OneBundle'
    <2>1. /\ workunit_queue' = workunit_queue /\ sender'[s].link = NULL
          /\ sender'[s].pc = "wait" /\ \A t \in Senders : t # s => sender'[t] = sender[t]
      BY <1>0, <1>8 DEF SenderReturn
    <2> QED
      BY <1>1, <2>1 DEF OneBundle, HeldOnce, OneEach
  <1>9. ASSUME NEW w \in Workers, LateEvent(w) PROVE OneBundle'
    <2>1. CASE EventPop(w)
      <3>1. /\ sender' = sender
            /\ workunit_queue' = [workunit_queue EXCEPT ![w] = IF @ = <<>> THEN @ ELSE Tail(@)]
        BY <2>1 DEF EventPop
      <3>2. workunit_queue[w] # <<>> =>
                Len(Tail(workunit_queue[w])) <= 1 /\ workunit_queue[w] \in Seq(Sliced)
        <4>1. workunit_queue[w] \in Seq(Sliced)
          BY <1>0
        <4>2. Len(workunit_queue[w]) \in Nat /\ Len(workunit_queue[w]) <= 1
          BY <1>1, <4>1, LenProperties
        <4> QED
          BY <4>1, <4>2, HeadTailProperties
      <3>3. \A v \in Workers : /\ Len(workunit_queue'[v]) <= 1
                               /\ workunit_queue[v] = <<>> => workunit_queue'[v] = <<>>
        BY <1>0, <1>1, <3>1, <3>2
      <3>4. \A s \in Senders : sender[s].pc = "queue" => sender[s].link \in Workers
        BY <1>0 DEF Stocked
      <3> QED
        BY <1>1, <3>1, <3>3, <3>4 DEF OneBundle, HeldOnce, OneEach
    <2>2. CASE ~EventPop(w)
      BY <1>2, <1>9, <2>2 DEF LateEvent, EventInvalid, EventIntegrate, EventSave, EventCount,
                              AllBundlesClose, AllBundlesDone
    <2> QED
      BY <2>1, <2>2
  <1> QED
    BY <1>0, <1>3, <1>4, <1>5, <1>6, <1>7, <1>8, <1>9, LateSteps DEF HandsFull

LEMMA InitTurn == Init => TurnInv
  BY InitType, InitApart, InitAdmits, InitLine, CleanIsOneBundle
  DEF Init, TurnInv, Company, MainDivides, Dividers

LEMMA CompanyKeeps ==
    ASSUME TicksCnt = 1, Settled, Company, [Next]_vars
    PROVE  Company'
  <1>1. \A d \in Dividers : DivideCount(d) => Live = {}
    BY IdleIsEmpty DEF DivideCount, MainDivides, Early, Dividers, Company
  <1> QED
    BY <1>1, StepType, MainDividesKeeps, OnePlaceKeeps, AdmissionKeeps DEF Company

(* The step that sizes the bundles leaves everything else as it was.          *)
LEMMA CountIsClean == ASSUME Company, DivideCount(Main) PROVE Clean'
  <1>1. Clean
    BY EarlyIsClean DEF DivideCount, Early, Company
  <1> QED
    BY <1>1 DEF DivideCount, Clean, NoUnits, pool, peers, files, tick, stop

LEMMA TurnKeeps ==
    ASSUME TicksCnt = 1, Settled, TurnInv, [Next]_vars
    PROVE  TurnInv'
  <1>1. Company /\ Company' /\ InLine
    BY CompanyKeeps DEF TurnInv
  <1>2. CASE ~Early
    BY <1>1, <1>2, LateLine, LateOneBundle DEF TurnInv
  <1>3. CASE Early /\ Early'
    BY <1>1, <1>3, EarlyLine, EarlyIsCleanNext, CleanIsOneBundleNext DEF TurnInv, Company
  <1>4. CASE Early /\ DivideCount(Main)
    BY <1>1, <1>4, EarlySteps, CountLine, CountIsClean, CleanIsOneBundleNext DEF TurnInv, Company
  <1> QED
    BY <1>1, <1>2, <1>3, <1>4, EarlySteps DEF Company

LEMMA TurnAlways ==
    ASSUME TicksCnt = 1, Settled
    PROVE  Spec => []TurnInv
  <1>1. TurnInv /\ [Next]_vars => TurnInv'
    BY TurnKeeps
  <1> QED
    BY <1>1, InitTurn, PTL DEF Spec

(* In one tick in which nobody comes late or leaves, however many workers and *)
(* leaves there are and whenever senders, event threads and results come,     *)
(* no worker is in the hands of two senders (sender_thread.c:34, 58).         *)
THEOREM NobodyIsHeldTwice ==
    ASSUME TicksCnt = 1, Settled
    PROVE  Spec => []SingleHolder
  <1>1. TurnInv => SingleHolder
    BY DEF TurnInv, OneBundle, HeldOnce, SingleHolder
  <1> QED
    BY <1>1, TurnAlways, PTL

(* In such a tick each worker gets one bundle at most: none waits for its     *)
(* first while another one is sent a second (divide_dataset.c, bundles as     *)
(* many as workers; sender_thread.c).                                        *)
THEOREM NobodyGetsTwoBundles ==
    ASSUME TicksCnt = 1, Settled
    PROVE  Spec => []OneBundleEach
  <1>1. TurnInv => OneBundleEach
    BY DEF TurnInv, OneBundle, OneEach, OneBundleEach
  <1> QED
    BY <1>1, TurnAlways, PTL
-------------------------------------------------------------------------------
(* Where a cell of the tick is, once the bundles are sized: it has its result *)
(* or is in a bundle to be made, in the pool or with a sender, or is owed.   *)
(* No worker's queue is needed, so it does not matter when bundles are popped. *)
Kept(c) ==
    \/ new_dataset[c] = cells
    \/ \E k \in divide[Main].keys : c \in k
    \/ \E i \in DOMAIN bundles : c \in bundles[i].keys
    \/ \E s \in Senders : sender[s].pc \in {"queue", "send"} /\ c \in sender[s].bundle.keys
    \/ \E w \in Workers : Owed(w, c)

CellInv ==
    /\ Company
    /\ divide[Main].pc = "assign" => cells = 0
    /\ cells # 0 /\ ~Early => \A c \in CellIds : Kept(c)
-------------------------------------------------------------------------------
LEMMA TailFacts ==
    ASSUME NEW S, NEW s \in Seq(S), s # <<>>
    PROVE  /\ Tail(s) \in Seq(S) /\ Len(Tail(s)) = Len(s) - 1 /\ Len(s) \in Nat \ {0}
           /\ Head(s) = s[1] /\ s[1] \in S
           /\ \A i \in 1..Len(Tail(s)) : i + 1 \in 1..Len(s) /\ Tail(s)[i] = s[i + 1]
           /\ \A i \in 1..Len(s) : i # 1 => i - 1 \in 1..Len(Tail(s)) /\ Tail(s)[i - 1] = s[i]
  <1>1. /\ Tail(s) \in Seq(S) /\ Len(Tail(s)) = Len(s) - 1 /\ Len(s) \in Nat \ {0}
        /\ Head(s) = s[1] /\ \A i \in 1..Len(Tail(s)) : Tail(s)[i] = s[i + 1]
    BY HeadTailProperties, LenProperties, EmptySeq
  <1>2. s[1] \in S
    BY <1>1, ElementOfSeq
  <1>3. ASSUME NEW i \in 1..Len(s), i # 1
        PROVE  i - 1 \in 1..Len(Tail(s)) /\ Tail(s)[i - 1] = s[i]
    <2>1. i - 1 \in 1..Len(Tail(s)) /\ (i - 1) + 1 = i
      BY <1>1, <1>3
    <2> QED
      BY <1>1, <2>1
  <1>4. \A i \in 1..Len(Tail(s)) : i + 1 \in 1..Len(s)
    BY <1>1
  <1> QED
    BY <1>1, <1>2, <1>3, <1>4

LEMMA LinksOfHolders ==
    TypeInv => /\ \A s \in Senders : sender[s].pc \in {"queue", "send", "return"} => sender[s].link \in Workers
               /\ \A s \in Senders : sender[s].pc \in {"queue", "send"} => sender[s].bundle \in Sliced
               /\ sender \in [Senders -> Hand] /\ workunit_queue \in [Workers -> Seq(Sliced)]
               /\ event \in [Workers -> EventPlaces] /\ NULL \notin Workers /\ Inv
  BY DispatcherAssumption DEF TypeInv, Typed, Stocked, Inv, Shape

LEMMA OldestOwed ==
    ASSUME TypeInv, NEW w \in Workers, owes[w] # <<>>
    PROVE  /\ owes[w] \in Seq(Units \cup {Settings}) /\ Head(owes[w]) \in Units \cup {Settings}
           /\ Head(owes[w]).type = "WORK_UNIT_DONE" => Head(owes[w]) \in Units
  <1>1. owes[w] \in Seq(Units \cup {Settings})
    BY DEF TypeInv, Typed, Peered
  <1>2. Head(owes[w]) = owes[w][1] /\ owes[w][1] \in Units \cup {Settings}
    BY <1>1, TailFacts
  <1> QED
    BY <1>1, <1>2 DEF Settings

(* A worker that answers owes what it owed but the oldest answer.            *)
LEMMA StillOwed ==
    ASSUME TypeInv, NEW w \in Workers, owes[w] # <<>>, owes' = [owes EXCEPT ![w] = Tail(@)],
           NEW v \in Workers, NEW c, Owed(v, c)
    PROVE  \/ Owed(v, c)'
           \/ v = w /\ Head(owes[w]).type = "WORK_UNIT_DONE" /\ Head(owes[w]).id = c
  <1>1. owes \in [Workers -> Seq(Units \cup {Settings})]
    BY DEF TypeInv, Typed, Peered
  <1>2. CASE v # w
    BY <1>1, <1>2 DEF Owed
  <1>3. CASE v = w
    <2>1. PICK i \in DOMAIN owes[w] : owes[w][i].type = "WORK_UNIT_DONE" /\ owes[w][i].id = c
      BY <1>3 DEF Owed
    <2>2. DOMAIN owes[w] = 1..Len(owes[w]) /\ owes'[w] = Tail(owes[w])
      BY <1>1, LenProperties
    <2>3. /\ Head(owes[w]) = owes[w][1] /\ Tail(owes[w]) \in Seq(Units \cup {Settings})
          /\ i # 1 => i - 1 \in 1..Len(Tail(owes[w])) /\ Tail(owes[w])[i - 1] = owes[w][i]
      BY <1>1, <2>1, <2>2, TailFacts
    <2>4. DOMAIN Tail(owes[w]) = 1..Len(Tail(owes[w]))
      BY <2>3, LenProperties
    <2>5. CASE i = 1
      BY <1>3, <2>1, <2>3, <2>5
    <2>6. CASE i # 1
      <3>1. /\ i - 1 \in DOMAIN owes'[w] /\ owes'[w][i - 1].type = "WORK_UNIT_DONE"
            /\ owes'[w][i - 1].id = c
        BY <2>1, <2>2, <2>3, <2>4, <2>6
      <3> QED
        BY <1>3, <3>1 DEF Owed
    <2> QED
      BY <2>5, <2>6
  <1> QED
    BY <1>2, <1>3

(* A worker that is sent a bundle owes its cells, and still what it owed.    *)
LEMMA SentIsOwed ==
    ASSUME TypeInv, NEW w \in Workers, NEW k \in Runs, NEW m \in 1..TicksCnt,
           owes' = [owes EXCEPT ![w] = @ \o Answers(k, m)]
    PROVE  /\ \A v \in Workers : \A c : Owed(v, c) => Owed(v, c)'
           /\ \A c \in k : Owed(w, c)'
  <1> DEFINE s == owes[w]
             a == Answers(k, m)
             r == s \o a
             n == Cardinality(k)
  <1>1. /\ owes \in [Workers -> Seq(Units \cup {Settings})] /\ s \in Seq(Units \cup {Settings})
        /\ owes'[w] = r /\ Len(s) \in Nat /\ DOMAIN s = 1..Len(s)
        /\ \A v \in Workers : v # w => owes'[v] = owes[v]
    BY LenProperties DEF TypeInv, Typed, Peered
  <1>2. /\ a \in Seq(Units \cup {Settings}) /\ Len(a) = n /\ n \in Nat \ {0}
        /\ \A i \in 1..n : a[i].type = "WORK_UNIT_DONE"
        /\ \A c \in k : \E i \in 1..n : a[i].id = c
    BY AnswersType
  <1>3. /\ r \in Seq(Units \cup {Settings}) /\ Len(r) = Len(s) + n
        /\ \A i \in 1..(Len(s) + n) : r[i] = IF i <= Len(s) THEN s[i] ELSE a[i - Len(s)]
    <2>1. /\ r \in Seq(Units \cup {Settings}) /\ Len(r) = Len(s) + Len(a)
          /\ \A i \in 1..(Len(s) + Len(a)) : r[i] = IF i <= Len(s) THEN s[i] ELSE a[i - Len(s)]
      <3> HIDE DEF s, a
      <3> QED
        BY <1>1, <1>2, ConcatProperties
    <2> HIDE DEF s, a, r, n
    <2> QED
      BY <1>2, <2>1
  <1>4. DOMAIN r = 1..(Len(s) + n)
    BY <1>3, LenProperties
  <1> HIDE DEF s, a, r, n
  <1>5. ASSUME NEW c \in k PROVE Owed(w, c)'
    <2>1. PICK i \in 1..n : a[i].id = c /\ a[i].type = "WORK_UNIT_DONE"
      BY <1>2
    <2>2. Len(s) + i \in 1..(Len(s) + n) /\ ~(Len(s) + i <= Len(s)) /\ (Len(s) + i) - Len(s) = i
      BY <1>1, <1>2
    <2>3. Len(s) + i \in DOMAIN r /\ r[Len(s) + i] = a[i]
      BY <1>3, <1>4, <2>2
    <2> QED
      BY <1>1, <2>1, <2>3 DEF Owed
  <1>6. ASSUME NEW v \in Workers, NEW c, Owed(v, c) PROVE Owed(v, c)'
    <2>1. CASE v # w
      BY <1>1, <1>6, <2>1 DEF Owed
    <2>2. CASE v = w
      <3>1. PICK i \in DOMAIN s : s[i].type = "WORK_UNIT_DONE" /\ s[i].id = c
        BY <1>6, <2>2 DEF Owed, s
      <3>2. i \in 1..(Len(s) + n) /\ i <= Len(s)
        BY <1>1, <1>2, <3>1
      <3>3. i \in DOMAIN r /\ r[i] = s[i]
        BY <1>3, <1>4, <3>2
      <3> QED
        BY <1>1, <2>2, <3>1, <3>3 DEF Owed
    <2> QED
      BY <2>1, <2>2
  <1> QED
    BY <1>5, <1>6
-------------------------------------------------------------------------------
(* When main is about to publish the leaves, nothing was published before.   *)
LEMMA StillUnassigned ==
    ASSUME TicksCnt = 1, TypeInv, MainDivides, [Next]_vars, divide'[Main].pc = "assign"
    PROVE  /\ divide[Main].pc = "assign" \/ MainLaunch
           /\ cells' = cells \/ cells' = 0
  <1> USE DEF pool, peers, files, tick, stop
  <1>0. Inv /\ Main \in Dividers /\ Main \notin Workers /\ ticks_done \in Nat
    BY Groups DEF TypeInv, Typed, Ticking
  <1>1. ASSUME NEW kind, Fault(kind)
        PROVE  UNCHANGED <<divide, cells>>
    BY <1>1 DEF Fault
  <1>2. ASSUME UNCHANGED <<divide, cells>>
        PROVE  divide[Main].pc = "assign" /\ cells' = cells
    BY <1>2
  <1>3. CASE Connect \/ MainExit \/ UNCHANGED vars
    BY <1>1, <1>2, <1>3 DEF Connect, ConnectAccept, ConnectFaults, ConnectSettings,
                            ConnectApplied, MainExit, vars
  <1>4. CASE MainLaunch
    BY <1>4 DEF MainLaunch
  <1>5. ASSUME NEW d \in Dividers, Divide(d)
        PROVE  divide[Main].pc = "assign" /\ cells' = cells
    <2>1. divide[d].pc # "none"
      BY <1>5 DEF Divide, DivideAssign, DivideCount, DivideCountsNone, BundleEnqueue,
                  BundleFaults, BundlePost, BundlesJoined
    <2>2. d = Main
      BY <2>1 DEF MainDivides, Dividers
    <2>3. CASE DivideCountsNone(Main) \/ BundleFaults(Main)
      BY <1>1, <1>2, <2>3 DEF DivideCountsNone, BundleFaults
    <2>4. ~DivideAssign(Main) /\ ~BundlesJoined(Main)
      <3>1. ASSUME NEW p, divide' = [divide EXCEPT ![Main].pc = p] PROVE p = "assign"
        BY <1>0, <3>1, DivideMoves
      <3>2. ~DivideAssign(Main)
        BY <3>1 DEF DivideAssign
      <3>3. ~BundlesJoined(Main)
        BY <3>1 DEF BundlesJoined
      <3> QED
        BY <3>2, <3>3
    <2>5. ~DivideCount(Main)
      BY <1>0 DEF DivideCount, Inv, Shape
    <2>6. ASSUME BundleEnqueue(Main) \/ BundlePost(Main) PROVE FALSE
      <3>1. divide[Main].pc = "bundle" /\ divide[Main] \in Division
        BY <1>0, <2>6 DEF BundleEnqueue, BundlePost, Inv, Shape
      <3>2. divide'[Main].pc = divide[Main].pc
        <4>1. CASE BundleEnqueue(Main)
          <5>1. PICK k : divide' = [divide EXCEPT ![Main].keys = @ \ {k}, ![Main].posts = @ \cup {k}]
            BY <4>1 DEF BundleEnqueue
          <5> QED
            BY <1>0, <5>1 DEF Inv, Shape, Division
        <4>2. CASE BundlePost(Main)
          <5>1. PICK k : divide' = [divide EXCEPT ![Main].posts = @ \ {k}]
            BY <4>2 DEF BundlePost
          <5> QED
            BY <1>0, <5>1 DEF Inv, Shape, Division
        <4> QED
          BY <2>6, <4>1, <4>2
      <3> QED
        BY <3>1, <3>2
    <2> QED
      BY <1>5, <2>2, <2>3, <2>4, <2>5, <2>6 DEF Divide
  <1>6. ASSUME NEW s \in Senders, Sender(s)
        PROVE  divide[Main].pc = "assign" /\ cells' = cells
    BY <1>1, <1>2, <1>6 DEF Sender, SenderWait, SenderTake, SenderQueue, SenderSend, SenderReturn,
                            SenderFaults
  <1>7. ASSUME NEW w \in Workers, Event(w) \/ WorkerDies(w)
        PROVE  divide[Main].pc = "assign" /\ (cells' = cells \/ cells' = 0)
    <2>1. CASE AllBundlesDone(w)
      <3>1. divide' = divide /\ cells' = 0
        BY <1>0, <2>1 DEF AllBundlesDone
      <3> QED
        BY <3>1
    <2>2. CASE EventInvalid(w) \/ EventIntegrate(w) \/ EventSave(w) \/ EventPop(w) \/ EventCount(w)
               \/ AllBundlesClose(w) \/ EventClosed(w) \/ WorkerDies(w)
      BY <1>2, <2>2 DEF EventInvalid, EventIntegrate, EventSave, EventPop, EventCount,
                        AllBundlesClose, EventClosed, WorkerDies
    <2>3. CASE EventFaults(w) \/ EventSaveFaults(w)
      BY <1>1, <1>2, <2>3 DEF EventFaults, EventSaveFaults
    <2>4. CASE CleanupRepool(w) \/ CleanupPost(w) \/ CleanupFreeQueue(w) \/ CleanupUnlink(w)
               \/ CleanupFree(w)
      BY <1>1, <1>2, <2>4 DEF CleanupRepool, CleanupPost, CleanupFreeQueue, CleanupUnlink,
                              CleanupFree
    <2> QED
      BY <1>7, <2>1, <2>2, <2>3, <2>4 DEF Event
  <1> QED
    BY <1>3, <1>4, <1>5, <1>6, <1>7 DEF Next

(* A result that is there stays there until the tick is over.                *)
LEMMA LateResults ==
    ASSUME TicksCnt = 1, Settled, Company, ~Early, [Next]_vars, cells' # 0
    PROVE  /\ cells' = cells
           /\ \A c \in CellIds : new_dataset[c] = cells => new_dataset'[c] = cells
  <1> USE DEF pool, peers, files, tick, stop
  <1>0. TypeInv
    BY DEF Company
  <1>1. CASE Nothing \/ BundleEnqueue(Main) \/ BundlePost(Main) \/ BundlesJoined(Main)
    BY <1>1 DEF Nothing, BundleEnqueue, BundlePost, BundlesJoined
  <1>2. ASSUME NEW s \in Senders, SenderWait(s) \/ SenderTake(s) \/ SenderQueue(s)
                                  \/ SenderSend(s) \/ SenderReturn(s)
        PROVE  UNCHANGED <<cells, new_dataset>>
    BY <1>2 DEF SenderWait, SenderTake, SenderQueue, SenderSend, SenderReturn
  <1>3. ASSUME NEW w \in Workers, LateEvent(w)
        PROVE  /\ cells' = cells
               /\ \A c \in CellIds : new_dataset[c] = cells => new_dataset'[c] = cells
    <2>1. CASE EventIntegrate(w)
      <3> DEFINE unit == Head(owes[w])
      <3>1. /\ owes[w] # <<>> /\ unit.type = "WORK_UNIT_DONE" /\ cells # 0 /\ cells' = cells
            /\ new_dataset' = [new_dataset EXCEPT ![unit.id] = unit.tick]
        BY <2>1 DEF EventIntegrate
      <3>2. unit \in Units
        BY <1>0, <3>1, OldestOwed
      <3>3. unit.tick = cells
        <4>1. cells \in 0..1
          BY <1>0 DEF TypeInv, Typed, Ticking
        <4>2. unit.tick \in 1..1
          BY <3>2 DEF Units
        <4> HIDE DEF unit
        <4> QED
          BY <3>1, <4>1, <4>2
      <3>4. new_dataset \in [CellIds -> 0..TicksCnt]
        BY <1>0 DEF TypeInv, Typed, Ticking
      <3> HIDE DEF unit
      <3> QED
        BY <3>1, <3>3, <3>4
    <2>2. ~AllBundlesDone(w)
      BY DEF AllBundlesDone
    <2> QED
      BY <1>3, <2>1, <2>2 DEF LateEvent, EventInvalid, EventSave, EventPop, EventCount,
                              AllBundlesClose
  <1> QED
    BY <1>1, <1>2, <1>3, LateSteps

-------------------------------------------------------------------------------
(* What a step of a sender or of an event thread does with a cell.           *)
LEMMA SenderKeepsCell ==
    ASSUME Company, ~Early, NEW s \in Senders, NEW c \in CellIds, Kept(c),
           SenderWait(s) \/ SenderTake(s) \/ SenderQueue(s) \/ SenderSend(s) \/ SenderReturn(s)
    PROVE  Kept(c)'
  <1> USE DEF pool, peers, files, tick, stop
  <1>0. TypeInv /\ sender \in [Senders -> Hand] /\ bundles \in Seq(Sliced)
    BY LinksOfHolders DEF Company, TypeInv, Typed, Stocked
  <1>1. UNCHANGED <<cells, new_dataset, divide>>
    BY DEF SenderWait, SenderTake, SenderQueue, SenderSend, SenderReturn
  <1>2. CASE SenderWait(s)
    <2>1. \A t \in Senders : sender[t].pc \in {"queue", "send"} => sender'[t] = sender[t]
      BY <1>0, <1>2 DEF SenderWait
    <2> QED
      BY <1>1, <1>2, <2>1 DEF SenderWait, Kept, Owed
  <1>3. CASE SenderTake(s)
    <2>1. /\ sender[s].pc = "take" /\ owes' = owes
          /\ \A t \in Senders : t # s => sender'[t] = sender[t]
      BY <1>0, <1>3 DEF SenderTake
    <2>2. CASE ~(bundles # <<>> /\ workers.first # NULL)
      <3>1. bundles' = bundles
        BY <1>3, <2>2 DEF SenderTake
      <3> QED
        BY <1>1, <2>1, <3>1 DEF Kept, Owed
    <2>3. CASE bundles # <<>> /\ workers.first # NULL
      <3>1. /\ bundles' = Tail(bundles)
            /\ sender'[s].pc = "queue" /\ sender'[s].bundle = Head(bundles)
        BY <1>0, <1>3, <2>3 DEF SenderTake
      <3>2. ASSUME NEW i \in DOMAIN bundles, c \in bundles[i].keys PROVE Kept(c)'
        <4>1. /\ DOMAIN bundles = 1..Len(bundles) /\ Tail(bundles) \in Seq(Sliced)
              /\ Head(bundles) = bundles[1]
              /\ i # 1 => i - 1 \in 1..Len(Tail(bundles)) /\ Tail(bundles)[i - 1] = bundles[i]
          BY <1>0, <2>3, TailFacts, LenProperties
        <4>2. DOMAIN Tail(bundles) = 1..Len(Tail(bundles))
          BY <4>1, LenProperties
        <4>3. CASE i = 1
          BY <3>1, <3>2, <4>1, <4>3 DEF Kept
        <4>4. CASE i # 1
          <5>1. i - 1 \in DOMAIN bundles' /\ c \in bundles'[i - 1].keys
            BY <3>1, <3>2, <4>1, <4>2, <4>4
          <5> QED
            BY <5>1 DEF Kept
        <4> QED
          BY <4>3, <4>4
      <3> QED
        BY <1>1, <2>1, <3>2 DEF Kept, Owed
    <2> QED
      BY <2>2, <2>3
  <1>4. CASE SenderQueue(s)
    <2>1. /\ sender'[s].pc = "send" /\ sender'[s].bundle = sender[s].bundle
          /\ \A t \in Senders : t # s => sender'[t] = sender[t]
          /\ bundles' = bundles /\ owes' = owes
      BY <1>0, <1>4 DEF SenderQueue, Hand
    <2> QED
      BY <1>1, <2>1 DEF Kept, Owed
  <1>5. CASE SenderSend(s)
    <2>1. sender[s].link \in Workers /\ sender[s].bundle \in Sliced /\ alive[sender[s].link]
      BY <1>0, <1>5, LinksOfHolders, LateIsLaunched DEF SenderSend
    <2>2. PICK w \in Workers : w = sender[s].link
      BY <2>1
    <2>3. PICK k \in Runs : k = sender[s].bundle.keys
      BY <2>1 DEF Sliced
    <2>4. PICK m \in 1..TicksCnt : m = cells
      BY <1>5, <2>1 DEF SenderSend, Sliced
    <2>5. owes' = [owes EXCEPT ![w] = @ \o Answers(k, m)]
      BY <1>5, <2>1, <2>2, <2>3, <2>4 DEF SenderSend
    <2>6. /\ \A v \in Workers : Owed(v, c) => Owed(v, c)'
          /\ c \in k => Owed(w, c)'
      <3>1. /\ \A v \in Workers : \A e : Owed(v, e) => Owed(v, e)'
            /\ \A e \in k : Owed(w, e)'
        BY <1>0, <2>5, SentIsOwed
      <3> QED
        BY <3>1
    <2>7. bundles' = bundles /\ \A t \in Senders : t # s => sender'[t] = sender[t]
      BY <1>0, <1>5 DEF SenderSend
    <2> QED
      BY <1>1, <2>3, <2>6, <2>7 DEF Kept
  <1>6. CASE SenderReturn(s)
    <2>1. /\ sender[s].pc = "return" /\ bundles' = bundles /\ owes' = owes
          /\ \A t \in Senders : t # s => sender'[t] = sender[t]
      BY <1>0, <1>6 DEF SenderReturn
    <2> QED
      BY <1>1, <2>1 DEF Kept, Owed
  <1> QED
    BY <1>2, <1>3, <1>4, <1>5, <1>6

LEMMA EventKeepsCell ==
    ASSUME TicksCnt = 1, Company, ~Early, NEW w \in Workers, LateEvent(w), cells' # 0,
           NEW c \in CellIds, Kept(c)
    PROVE  Kept(c)'
  <1> USE DEF pool, peers, files, tick, stop
  <1>0. /\ TypeInv /\ new_dataset \in [CellIds -> 0..TicksCnt] /\ cells \in 0..1
    BY DEF Company, TypeInv, Typed, Ticking
  <1>1. CASE EventSave(w) \/ EventPop(w) \/ EventCount(w) \/ AllBundlesClose(w)
    BY <1>1 DEF EventSave, EventPop, EventCount, AllBundlesClose, Kept, Owed
  <1>2. CASE EventInvalid(w) \/ EventIntegrate(w)
    <2> DEFINE unit == Head(owes[w])
    <2>1. /\ owes[w] # <<>> /\ owes' = [owes EXCEPT ![w] = Tail(@)]
          /\ UNCHANGED <<cells, divide, bundles, sender>>
      BY <1>2 DEF EventInvalid, EventIntegrate
    <2>2. \A v \in Workers : Owed(v, c) =>
              Owed(v, c)' \/ (unit.type = "WORK_UNIT_DONE" /\ unit.id = c)
      BY <1>0, <2>1, StillOwed
    <2>3. CASE EventInvalid(w)
      <3>1. unit.type # "WORK_UNIT_DONE" /\ new_dataset' = new_dataset
        BY <2>3 DEF EventInvalid
      <3> HIDE DEF unit
      <3> QED
        BY <2>1, <2>2, <3>1 DEF Kept
    <2>4. CASE EventIntegrate(w)
      <3>1. /\ unit.type = "WORK_UNIT_DONE" /\ cells # 0
            /\ new_dataset' = [new_dataset EXCEPT ![unit.id] = unit.tick]
        BY <2>4 DEF EventIntegrate
      <3>2. unit \in Units
        BY <1>0, <2>1, <3>1, OldestOwed
      <3>3. unit.tick = cells
        <4>1. unit.tick \in 1..1
          BY <3>2 DEF Units
        <4> HIDE DEF unit
        <4> QED
          BY <1>0, <3>1, <4>1
      <3> HIDE DEF unit
      <3>4. (new_dataset[c] = cells \/ unit.id = c) => new_dataset'[c] = cells'
        BY <1>0, <2>1, <3>1, <3>3
      <3> QED
        BY <2>1, <2>2, <3>4 DEF Kept
    <2> QED
      BY <1>2, <2>3, <2>4
  <1>3. ~AllBundlesDone(w)
    BY DEF AllBundlesDone
  <1> QED
    BY <1>1, <1>2, <1>3 DEF LateEvent

(* A bundle that is made goes to the pool.                                   *)
LEMMA DivisionKeepsCell ==
    ASSUME Company, ~Early, NEW c \in CellIds, Kept(c),
           BundleEnqueue(Main) \/ BundlePost(Main) \/ BundlesJoined(Main)
    PROVE  Kept(c)'
  <1> USE DEF pool, peers, files, tick, stop
  <1>0. TypeInv /\ bundles \in Seq(Sliced) /\ divide \in [Dividers -> Division] /\ Main \in Dividers
    BY Groups DEF Company, TypeInv, Typed, Stocked, Inv, Shape
  <1>1. UNCHANGED <<cells, new_dataset, sender, owes>>
    BY DEF BundleEnqueue, BundlePost, BundlesJoined
  <1>2. CASE BundleEnqueue(Main)
    <2>1. PICK k \in divide[Main].keys :
              /\ bundles' = Append(bundles, [tick |-> cells, keys |-> k])
              /\ divide' = [divide EXCEPT ![Main].keys = @ \ {k}, ![Main].posts = @ \cup {k}]
      BY <1>2 DEF BundleEnqueue
    <2>2. divide'[Main].keys = divide[Main].keys \ {k}
      BY <1>0, <2>1 DEF Division
    <2> DEFINE b == [tick |-> cells, keys |-> k]
    <2>3. k \in Runs /\ cells \in 1..TicksCnt
      <3>1. cells # 0 /\ cells \in 0..TicksCnt /\ TicksCnt \in Nat
        BY <1>0, <1>2, DispatcherAssumption DEF BundleEnqueue, TypeInv, Typed, Ticking
      <3> QED
        BY <1>0, <3>1 DEF TypeInv, Typed, Stocked
    <2>4. b \in Sliced
      BY <2>3 DEF Sliced
    <2>5. /\ Len(bundles) \in Nat /\ Len(bundles') = Len(bundles) + 1 /\ bundles' \in Seq(Sliced)
          /\ bundles'[Len(bundles) + 1] = b /\ \A i \in 1..Len(bundles) : bundles'[i] = bundles[i]
      <3> HIDE DEF b
      <3> QED
        BY <1>0, <2>1, <2>4, AppendProperties, LenProperties DEF b
    <2>6. DOMAIN bundles = 1..Len(bundles) /\ DOMAIN bundles' = 1..(Len(bundles) + 1)
      BY <1>0, <2>5, LenProperties
    <2>7. c \in k => Len(bundles) + 1 \in DOMAIN bundles' /\ c \in bundles'[Len(bundles) + 1].keys
      BY <2>5, <2>6
    <2>8. \A i \in DOMAIN bundles : i \in DOMAIN bundles' /\ bundles'[i] = bundles[i]
      BY <2>5, <2>6
    <2> QED
      BY <1>1, <2>2, <2>7, <2>8 DEF Kept, Owed
  <1>3. CASE BundlePost(Main) \/ BundlesJoined(Main)
    <2>1. bundles' = bundles
      BY <1>3 DEF BundlePost, BundlesJoined
    <2>2. divide'[Main].keys = divide[Main].keys
      <3>1. CASE BundlePost(Main)
        <4>1. PICK k : divide' = [divide EXCEPT ![Main].posts = @ \ {k}]
          BY <3>1 DEF BundlePost
        <4> QED
          BY <1>0, <4>1 DEF Division
      <3>2. CASE BundlesJoined(Main)
        BY <1>0, <3>2 DEF BundlesJoined, Division
      <3> QED
        BY <1>3, <3>1, <3>2
    <2> QED
      BY <1>1, <2>1, <2>2 DEF Kept, Owed
  <1> QED
    BY <1>2, <1>3

LEMMA LateKeeps ==
    ASSUME TicksCnt = 1, Settled, Company, ~Early, [Next]_vars, cells' # 0,
           NEW c \in CellIds, Kept(c)
    PROVE  Kept(c)'
  <1>1. CASE Nothing
    BY <1>1 DEF Nothing, Kept, Owed
  <1> QED
    BY <1>1, LateSteps, DivisionKeepsCell, SenderKeepsCell, EventKeepsCell
-------------------------------------------------------------------------------
LEMMA CellKeeps ==
    ASSUME TicksCnt = 1, Settled, CellInv, [Next]_vars
    PROVE  CellInv'
  <1>0. TypeInv /\ Company /\ Company'
    BY CompanyKeeps DEF CellInv, Company
  <1>1. ASSUME divide'[Main].pc = "assign" PROVE cells' = 0
    <2>1. CASE divide[Main].pc = "assign"
      BY <1>0, <1>1, <2>1, StillUnassigned DEF CellInv, Company
    <2>2. CASE MainLaunch
      BY <1>0, <1>1, <2>2, StillUnassigned DEF MainLaunch, Company, Admission, Launched
    <2> QED
      BY <1>0, <1>1, <2>1, <2>2, StillUnassigned DEF Company
  <1>2. ASSUME cells' # 0, ~Early', NEW c \in CellIds
        PROVE  Kept(c)'
    <2>1. CASE ~Early
      <3>1. cells # 0
        BY <1>0, <1>2, <2>1, LateResults
      <3>2. Kept(c)
        BY <2>1, <3>1 DEF CellInv
      <3> QED
        BY <1>0, <1>2, <2>1, <3>2, LateKeeps
    <2>2. CASE Early
      <3>1. DivideCount(Main)
        BY <1>0, <1>2, <2>2, EarlySteps DEF Company
      <3>2. divide'[Main].keys = Slices(Leaves, CeilDiv(Leaves, workers.count))
        BY <1>0, <3>1, Groups DEF DivideCount, TypeInv, Inv, Shape
      <3>3. workers.count \in Nat \ {0}
        <4>1. workers.count \in Int
          BY <1>0 DEF TypeInv, Inv, Shape, LQ!Queues
        <4> QED
          BY <3>1, <4>1 DEF DivideCount
      <3>4. CeilDiv(Leaves, workers.count) \in Nat \ {0}
        BY <3>3, CeilDivPositive
      <3>5. \E k \in divide'[Main].keys : c \in k
        BY <3>2, <3>4, SlicesCover
      <3> QED
        BY <3>5 DEF Kept
    <2> QED
      BY <2>1, <2>2
  <1> QED
    BY <1>0, <1>1, <1>2 DEF CellInv

LEMMA CellsShow == ASSUME TicksCnt = 1, Settled, CellInv PROVE CellsRemembered
  <1> SUFFICES ASSUME cells # 0, NEW c \in CellIds PROVE Remembered(c)
    BY DEF CellsRemembered
  <1>0. TypeInv /\ Company /\ Main \in Dividers
    BY Groups DEF CellInv, Company
  <1>1. CASE Early
    <2>1. divide[Main].pc = "count"
      BY <1>0, <1>1 DEF Early, CellInv, Company, Admission, Launched
    <2> QED
      BY <1>0, <2>1 DEF Remembered
  <1>2. CASE ~Early
    <2>1. Kept(c)
      BY <1>2 DEF CellInv
    <2>2. \A s \in Senders : sender[s].pc = "send" => alive[sender[s].link]
      BY <1>0, <1>2, LinksOfHolders, LateIsLaunched
    <2> QED
      BY <1>0, <2>1, <2>2 DEF Kept, Remembered
  <1> QED
    BY <1>1, <1>2

LEMMA InitCells == Init => CellInv
  <1>1. Init => Early /\ cells = 0
    BY DEF Init, Early, Dividers
  <1> QED
    BY <1>1, InitTurn DEF CellInv, TurnInv

(* In a tick in which nobody comes late or leaves no cell is forgotten,       *)
(* however many workers and leaves there are and whatever result a worker     *)
(* flags as the last one of a bundle: until its result is integrated it is in *)
(* a bundle in the division, in the pool or in a sender's hands, or a worker  *)
(* will answer it (sender_thread.c, worker_event_thread.c,                   *)
(* handle_worker_done_msg.c).                                                *)
THEOREM NoCellIsForgotten ==
    ASSUME TicksCnt = 1, Settled
    PROVE  Spec => []CellsRemembered
  <1>1. CellInv /\ [Next]_vars => CellInv'
    BY CellKeeps
  <1>2. CellInv => CellsRemembered
    BY CellsShow
  <1> QED
    BY <1>1, <1>2, InitCells, PTL DEF Spec
===============================================================================
