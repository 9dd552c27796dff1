----------------------------- MODULE WorkerProofs -----------------------------
(***************************************************************************)
(* Proofs about the worker's pipeline, for any number of bundles of any     *)
(* sizes: types and the safety of the queues between the threads; the flag  *)
(* of the last result; with bundles of one unit, exact flags and one bundle *)
(* at a time; and the pipeline implements WorkerService.                    *)
(***************************************************************************)
EXTENDS WorkerRefinement, SequenceLemmas

One(P) == IF P THEN 1 ELSE 0

(* Each queue holds one item for each token of its semaphore, plus the item *)
(* of a thread that has its token and has not popped yet, plus the item of  *)
(* a thread that has enqueued and has not posted yet.                       *)
BundleTokens ==
    Len(bundle_queue) = debundle_sem + One(pc["debundle"] = "pop")
                                     + One(pc["event"] = "post_debundle")
TodoTokens ==
    Len(todo_work) = calc_thread_sem + One(pc["calc"] = "pop")
                                     + One(pc["debundle"] = "post_calc")
CompletedTokens ==
    Len(completed_work) = sender_thread_sem + One(pc["sender"] = "pop")
                                            + One(pc["calc"] = "post_sender")

Inv == TypeOK /\ BundleTokens /\ TodoTokens /\ CompletedTokens /\ NeverPopsEmpty
-------------------------------------------------------------------------------
(* What enqueuing does to a queue.                                          *)
LEMMA AppendFacts ==
    ASSUME NEW S, NEW s \in Seq(S), NEW e \in S
    PROVE  /\ Append(s, e) \in Seq(S)
           /\ Len(Append(s, e)) = Len(s) + 1
  BY AppendProperties

(* What popping does to a queue that is not empty.                          *)
LEMMA PopFacts ==
    ASSUME NEW S, NEW s \in Seq(S), NEW null, Len(s) > 0
    PROVE  /\ Popped(s, null) \in S
           /\ Rest(s) \in Seq(S)
           /\ Len(Rest(s)) = Len(s) - 1
  <1>1. s # <<>>
    BY EmptySeq
  <1>2. QED
    BY <1>1, HeadTailProperties DEF Popped, Rest

(* The NULL pointer is no unit and no bundle.                               *)
LEMMA NullFacts ==
    /\ NoUnit \notin Units
    /\ \A b \in [id: BundleIds, idcount: unit_counts, index: Nat] : b.id # 0
  BY WorkerAssumption DEF NoUnit, Units, BundleIds
-------------------------------------------------------------------------------
(* Every step of every thread keeps the invariant.                          *)
LEMMA InvStep == Inv /\ [Next]_vars => Inv'
  <1> SUFFICES ASSUME Inv, [Next]_vars PROVE Inv'
    OBVIOUS
  <1> USE WorkerAssumption, NullFacts
  <1> USE DEF Inv, TypeOK, BundleTokens, TodoTokens, CompletedTokens, NeverPopsEmpty, One,
              At, Goto, links, process, debundler, calc, sender, Threads, Labels, Messages, Bundles
  <1>1. CASE DispatcherSendsSettings
    BY <1>1, AppendFacts DEF DispatcherSendsSettings
  <1>2. CASE DispatcherSendsBundle
    <2>1. PICK n \in unit_counts : inbox' = Append(inbox,
                [type |-> "WORK_UNIT", bundle |-> [id |-> sent_bundles + 1, idcount |-> n]])
      BY <1>2 DEF DispatcherSendsBundle
    <2>2. sent_bundles + 1 \in BundleIds
      BY <1>2 DEF DispatcherSendsBundle, BundleIds
    <2>3. [type |-> "WORK_UNIT", bundle |-> [id |-> sent_bundles + 1, idcount |-> n]] \in Messages
      BY <2>2 DEF Bundles
    <2>4. inbox' \in Seq(Messages)
      BY <2>1, <2>3, AppendFacts
    <2>5. QED
      BY <1>2, <2>2, <2>4 DEF DispatcherSendsBundle, BundleIds
  <1>3. CASE DispatcherCloses
    BY <1>3 DEF DispatcherCloses
  <1>4. CASE EventSettings
    BY <1>4 DEF EventSettings
  <1>5. CASE EventBundle
    <2>1. Head(inbox) \in Messages /\ Tail(inbox) \in Seq(Messages)
      BY <1>5, HeadTailProperties DEF EventBundle
    <2>2. Head(inbox).bundle \in Bundles
      BY <1>5, <2>1 DEF EventBundle
    <2>3. /\ bundle_queue' \in Seq(Bundles)
          /\ Len(bundle_queue') = Len(bundle_queue) + 1
      BY <1>5, <2>2, AppendFacts DEF EventBundle
    <2>4. QED
      BY <1>5, <2>1, <2>3 DEF EventBundle
  <1>6. CASE EventPostDebundle
    BY <1>6 DEF EventPostDebundle
  <1>7. CASE EventClosed
    BY <1>7 DEF EventClosed
  <1>8. CASE EventPostExit
    BY <1>8 DEF EventPostExit
  <1>9. CASE MainExit
    BY <1>9 DEF MainExit
  <1>10. CASE DebundleWaitReady
    BY <1>10 DEF DebundleWaitReady
  <1>11. CASE DebundleWaitBundle
    BY <1>11 DEF DebundleWaitBundle
  <1>12. CASE DebundlePop
    <2>1. Len(bundle_queue) > 0
      BY <1>12 DEF DebundlePop
    <2>2. /\ Popped(bundle_queue, NoBundle) \in Bundles
          /\ Rest(bundle_queue) \in Seq(Bundles)
          /\ Len(Rest(bundle_queue)) = Len(bundle_queue) - 1
      BY <2>1, PopFacts
    <2>3. /\ bundle' \in [id: BundleIds, idcount: unit_counts, index: Nat]
          /\ bundle'.id # 0
      BY <1>12, <2>2 DEF DebundlePop, Bundles
    <2>4. QED
      BY <1>12, <2>2, <2>3 DEF DebundlePop
  <1>13. CASE DebundleKick
    <2>1. bundle \in [id: BundleIds, idcount: unit_counts, index: Nat]
      BY <1>13 DEF DebundleKick, NoBundle
    <2>2. [id |-> bundle.id, index |-> bundle.index, is_last |-> FALSE] \in Units
      BY <2>1 DEF Units
    <2>3. /\ todo_work' \in Seq(Units)
          /\ Len(todo_work') = Len(todo_work) + 1
      BY <1>13, <2>2, AppendFacts DEF DebundleKick
    <2>4. bundle' = [id |-> bundle.id, idcount |-> bundle.idcount, index |-> bundle.index + 1]
      BY <1>13, <2>1 DEF DebundleKick
    <2>5. bundle' \in [id: BundleIds, idcount: unit_counts, index: Nat] /\ bundle'.id # 0
      BY <2>1, <2>4
    <2>6. TypeOK'
      <3>1. pc' \in [Threads -> Labels]
        BY <1>13 DEF DebundleKick
      <3>2. QED
        BY <1>13, <2>3, <2>5, <3>1 DEF DebundleKick
    <2>7. (BundleTokens /\ TodoTokens /\ CompletedTokens)'
      <3>1. TodoTokens'
        <4>1. /\ pc' = [pc EXCEPT !["debundle"] = "post_calc"] /\ pc["debundle"] = "kick"
              /\ calc_thread_sem' = calc_thread_sem
          BY <1>13 DEF DebundleKick
        <4>2. QED
          BY <2>3, <4>1
      <3>2. BundleTokens' /\ CompletedTokens'
        BY <1>13 DEF DebundleKick
      <3>3. QED
        BY <3>1, <3>2
    <2>8. NeverPopsEmpty'
      BY <1>13, <2>5 DEF DebundleKick
    <2>9. QED
      BY <2>6, <2>7, <2>8
  <1>14. CASE DebundlePostCalc
    BY <1>14 DEF DebundlePostCalc
  <1>15. CASE DebundleSpent
    BY <1>15 DEF DebundleSpent
  <1>16. CASE CalcWait
    BY <1>16 DEF CalcWait
  <1>17. CASE CalcPop
    BY <1>17, PopFacts DEF CalcPop
  <1>18. CASE CalcWork
    <2>1. workunit \in Units
      BY <1>18 DEF CalcWork
    <2>2. [workunit EXCEPT !.is_last = TRUE] \in Units
      BY <2>1 DEF Units
    <2>3. workunit' \in Units /\ workunit' # NoUnit
      BY <1>18, <2>1, <2>2 DEF CalcWork
    <2>4. QED
      BY <1>18, <2>3 DEF CalcWork
  <1>19. CASE CalcPostReady
    BY <1>19 DEF CalcPostReady
  <1>20. CASE CalcEnqueue
    BY <1>20, AppendFacts DEF CalcEnqueue
  <1>21. CASE CalcPostSender
    BY <1>21 DEF CalcPostSender
  <1>22. CASE SenderWait
    BY <1>22 DEF SenderWait
  <1>23. CASE SenderPop
    <2>1. Len(completed_work) > 0
      BY <1>23 DEF SenderPop
    <2>2. /\ Popped(completed_work, NoUnit) \in Units
          /\ Rest(completed_work) \in Seq(Units)
          /\ Len(Rest(completed_work)) = Len(completed_work) - 1
      BY <2>1, PopFacts
    <2>3. QED
      BY <1>23, <2>2 DEF SenderPop
  <1>24. CASE SenderSend
    BY <1>24, AppendFacts DEF SenderSend
  <1>25. CASE SenderSendClosed
    BY <1>25 DEF SenderSendClosed
  <1>26. CASE UNCHANGED vars
    BY <1>26 DEF vars
  <1>27. QED
    BY <1>1, <1>2, <1>3, <1>4, <1>5, <1>6, <1>7, <1>8, <1>9, <1>10, <1>11, <1>12, <1>13, <1>14, <1>15, <1>16, <1>17, <1>18, <1>19, <1>20, <1>21, <1>22, <1>23, <1>24, <1>25, <1>26 DEF Next, Environment, Event, Debundle, Calc, Sender

(* The invariant holds when the worker starts.                              *)
LEMMA InvInit == Init => Inv
  <1> SUFFICES ASSUME Init PROVE Inv
    OBVIOUS
  <1>1. \A S : <<>> \in Seq(S) /\ Len(<<>>) = 0
    BY EmptySeq
  <1>2. /\ pc \in [Threads -> Labels]
        /\ pc["event"] = "receive" /\ pc["debundle"] = "wait_ready"
        /\ pc["calc"] = "wait" /\ pc["sender"] = "wait"
    BY DEF Init, Threads, Labels
  <1>3. TypeOK
    <2>1. connected \in BOOLEAN /\ active \in BOOLEAN /\ exited \in BOOLEAN
      BY DEF Init
    <2>2. /\ sent_bundles \in 0..MaxBundles /\ exit_sem \in Nat /\ debundle_sem \in Nat
          /\ ready_for_bundle \in Nat /\ calc_thread_sem \in Nat
          /\ sender_thread_sem \in Nat /\ settings_applied \in Nat
      BY WorkerAssumption DEF Init
    <2>3. /\ inbox \in Seq(Messages) /\ bundle_queue \in Seq(Bundles)
          /\ todo_work \in Seq(Units) /\ completed_work \in Seq(Units)
          /\ results \in Seq(Units)
      BY <1>1 DEF Init
    <2>4. /\ bundle \in [id: BundleIds, idcount: unit_counts, index: Nat] \cup {NoBundle}
          /\ workunit \in Units \cup {NoUnit} /\ send_unit \in Units \cup {NoUnit}
      BY DEF Init
    <2>5. unit_counts \subseteq UnitCounts
      BY DEF Init
    <2>6. QED
      BY <1>2, <2>1, <2>2, <2>3, <2>4, <2>5 DEF TypeOK
  <1>4. BundleTokens /\ TodoTokens /\ CompletedTokens
    BY <1>1, <1>2 DEF Init, BundleTokens, TodoTokens, CompletedTokens, One
  <1>5. NeverPopsEmpty
    BY <1>2 DEF NeverPopsEmpty
  <1>6. QED
    BY <1>3, <1>4, <1>5 DEF Inv

(* The inductive invariant holds throughout.                                *)
THEOREM InvHolds == Spec => []Inv
  <1>1. Init => Inv
    BY InvInit
  <1>2. Inv /\ [Next]_vars => Inv'
    BY InvStep
  <1>3. QED
    BY <1>1, <1>2, PTL DEF Spec

(* Every variable of the worker keeps its type.                             *)
THEOREM TypeCorrect == Spec => []TypeOK
  <1>1. Inv => TypeOK
    BY DEF Inv
  <1>2. QED
    BY <1>1, InvHolds, PTL

(* A semaphore obtained stands for an item of its queue: no thread uses a   *)
(* NULL popped from an empty queue.                                         *)
THEOREM QueuesSafe == Spec => []NeverPopsEmpty
  <1>1. Inv => NeverPopsEmpty
    BY DEF Inv
  <1>2. QED
    BY <1>1, InvHolds, PTL
-------------------------------------------------------------------------------
(* Bundles of one unit.  The initial token of ready_for_bundle is never     *)
(* multiplied.  It is in the semaphore, or with the debundler until it kicks *)
(* the unit, or it is the unit, until the calc thread gives it back.        *)

DebundlerHasTurn ==
    \/ pc["debundle"] \in {"wait_bundle", "pop"}
    \/ pc["debundle"] = "kick" /\ bundle.index = 0

OneTurn ==
    ready_for_bundle + One(DebundlerHasTurn) + Len(todo_work)
        + One(pc["calc"] \in {"work", "post_ready"}) = 1

OneKick ==
    /\ pc["debundle"] = "post_calc" => bundle.index = 1
    /\ pc["debundle"] = "kick" => bundle.index \in {0, 1} /\ bundle.idcount = 1

AllFlagged(s) == \A i \in 1..Len(s) : s[i].is_last

Flagged ==
    /\ pc["calc"] \in {"post_ready", "enqueue"} => workunit.is_last
    /\ pc["sender"] = "send" => send_unit.is_last
    /\ AllFlagged(completed_work)
    /\ AllFlagged(results)

SingleInv == OneTurn /\ OneKick /\ Flagged
-------------------------------------------------------------------------------
(* A flagged unit may be added to a queue of flagged units.                 *)
LEMMA AppendFlagged ==
    ASSUME NEW s \in Seq(Units), NEW u \in Units, AllFlagged(s), u.is_last
    PROVE  AllFlagged(Append(s, u))
  <1>1. /\ Len(Append(s, u)) = Len(s) + 1
        /\ \A i \in 1..Len(s) : Append(s, u)[i] = s[i]
        /\ Append(s, u)[Len(s) + 1] = u
    BY AppendProperties
  <1>2. Len(s) \in Nat
    BY LenProperties
  <1>3. QED
    BY <1>1, <1>2 DEF AllFlagged

(* Popping a queue of flagged units gives a flagged unit and leaves the     *)
(* others flagged.                                                          *)
LEMMA PopFlagged ==
    ASSUME NEW s \in Seq(Units), NEW null, Len(s) > 0, AllFlagged(s)
    PROVE  Popped(s, null).is_last /\ AllFlagged(Rest(s))
  <1>1. s # <<>>
    BY EmptySeq
  <1>2. /\ Len(Tail(s)) = Len(s) - 1
        /\ \A i \in 1..Len(Tail(s)) : Tail(s)[i] = s[i + 1]
    BY <1>1, HeadTailProperties
  <1>3. Len(s) \in Nat
    BY LenProperties
  <1>4. Head(s) = s[1]
    BY <1>1
  <1>5. QED
    BY <1>1, <1>2, <1>3, <1>4 DEF AllFlagged, Popped, Rest
-------------------------------------------------------------------------------
(* No step changes the sizes of the bundles.                                *)
LEMMA CountsFixed == [Next]_vars => unit_counts' = unit_counts
  BY DEF Next, Environment, Event, Debundle, Calc, Sender, vars, links,
         DispatcherSendsSettings, DispatcherSendsBundle, DispatcherCloses,
         EventSettings, EventBundle, EventPostDebundle, EventClosed, EventPostExit,
         MainExit, DebundleWaitReady, DebundleWaitBundle, DebundlePop, DebundleKick,
         DebundlePostCalc, DebundleSpent, CalcWait, CalcPop, CalcWork, CalcPostReady,
         CalcEnqueue, CalcPostSender, SenderWait, SenderPop, SenderSend,
         SenderSendClosed

(* Every step keeps the one turn where it is or hands it on.                *)
LEMMA SingleStep ==
    ASSUME unit_counts = {1}, Inv, SingleInv, [Next]_vars
    PROVE  SingleInv'
  <1> USE DEF At, Goto, links, process, debundler, calc, sender
  <1>t. /\ TypeOK /\ NeverPopsEmpty
        /\ pc \in [Threads -> Labels]
        /\ ready_for_bundle \in Nat
        /\ todo_work \in Seq(Units) /\ completed_work \in Seq(Units) /\ results \in Seq(Units)
    BY DEF Inv, TypeOK
  <1>n. /\ Len(todo_work) \in Nat /\ "debundle" \in Threads /\ "calc" \in Threads
        /\ "sender" \in Threads /\ "event" \in Threads
    BY <1>t, LenProperties DEF Threads
  <1>s. OneTurn /\ OneKick /\ Flagged
    BY DEF SingleInv
  <1>1. CASE DispatcherSendsSettings
    BY <1>t, <1>n, <1>s, <1>1 DEF DispatcherSendsSettings, SingleInv, OneTurn, OneKick, Flagged, DebundlerHasTurn, One
  <1>2. CASE DispatcherSendsBundle
    BY <1>t, <1>n, <1>s, <1>2 DEF DispatcherSendsBundle, SingleInv, OneTurn, OneKick, Flagged, DebundlerHasTurn, One
  <1>3. CASE DispatcherCloses
    BY <1>t, <1>n, <1>s, <1>3 DEF DispatcherCloses, SingleInv, OneTurn, OneKick, Flagged, DebundlerHasTurn, One
  <1>4. CASE EventSettings
    BY <1>t, <1>n, <1>s, <1>4 DEF EventSettings, SingleInv, OneTurn, OneKick, Flagged, DebundlerHasTurn, One
  <1>5. CASE EventBundle
    BY <1>t, <1>n, <1>s, <1>5 DEF EventBundle, SingleInv, OneTurn, OneKick, Flagged, DebundlerHasTurn, One
  <1>6. CASE EventPostDebundle
    BY <1>t, <1>n, <1>s, <1>6 DEF EventPostDebundle, SingleInv, OneTurn, OneKick, Flagged, DebundlerHasTurn, One
  <1>7. CASE EventClosed
    BY <1>t, <1>n, <1>s, <1>7 DEF EventClosed, SingleInv, OneTurn, OneKick, Flagged, DebundlerHasTurn, One
  <1>8. CASE EventPostExit
    BY <1>t, <1>n, <1>s, <1>8 DEF EventPostExit, SingleInv, OneTurn, OneKick, Flagged, DebundlerHasTurn, One
  <1>9. CASE MainExit
    BY <1>t, <1>n, <1>s, <1>9 DEF MainExit, SingleInv, OneTurn, OneKick, Flagged, DebundlerHasTurn, One
  <1>10. CASE DebundleWaitReady
    BY <1>t, <1>n, <1>s, <1>10 DEF DebundleWaitReady, SingleInv, OneTurn, OneKick, Flagged, DebundlerHasTurn, One
  <1>11. CASE DebundleWaitBundle
    BY <1>t, <1>n, <1>s, <1>11 DEF DebundleWaitBundle, SingleInv, OneTurn, OneKick, Flagged, DebundlerHasTurn, One
  <1>12. CASE DebundlePop
    <2>1. Popped(bundle_queue, NoBundle) \in Bundles
      <3>1. bundle_queue \in Seq(Bundles) /\ Len(bundle_queue) > 0
        BY <1>12 DEF DebundlePop, Inv, TypeOK, BundleTokens, One
      <3>2. QED
        BY <3>1, PopFacts
    <2>2. bundle'.index = 0 /\ bundle'.idcount = 1
      BY <1>12, <2>1 DEF DebundlePop, Bundles
    <2>3. QED
      BY <1>t, <1>n, <1>s, <1>12, <2>2
      DEF DebundlePop, SingleInv, OneTurn, OneKick, Flagged, DebundlerHasTurn, One
  <1>13. CASE DebundleKick
    <2>1. bundle \in [id: BundleIds, idcount: unit_counts, index: Nat]
      BY <1>t, <1>13 DEF DebundleKick, TypeOK, NoBundle
    <2>2. bundle.index = 0 /\ bundle'.index = 1
      BY <1>s, <1>13, <2>1 DEF DebundleKick, OneKick
    <2>3. [id |-> bundle.id, index |-> bundle.index, is_last |-> FALSE] \in Units
      BY <2>1 DEF Units
    <2>4. Len(todo_work') = Len(todo_work) + 1
      BY <1>t, <1>13, <2>3, AppendFacts DEF DebundleKick
    <2>5. OneTurn'
      BY <1>t, <1>n, <1>s, <1>13, <2>2, <2>4 DEF DebundleKick, OneTurn, DebundlerHasTurn, One
    <2>6. OneKick' /\ Flagged'
      BY <1>t, <1>n, <1>s, <1>13, <2>2 DEF DebundleKick, OneKick, Flagged
    <2>7. QED
      BY <2>5, <2>6 DEF SingleInv
  <1>14. CASE DebundlePostCalc
    <2>1. bundle.idcount = 1
      BY <1>t, <1>14 DEF DebundlePostCalc, TypeOK, NeverPopsEmpty, NoBundle
    <2>2. QED
      BY <1>t, <1>n, <1>s, <1>14, <2>1
      DEF DebundlePostCalc, SingleInv, OneTurn, OneKick, Flagged, DebundlerHasTurn, One
  <1>15. CASE DebundleSpent
    <2>1. bundle.index = 1
      BY <1>s, <1>15 DEF DebundleSpent, OneKick
    <2>2. pc'["debundle"] = "wait_ready" /\ \A t \in Threads \ {"debundle"} : pc'[t] = pc[t]
      BY <1>t, <1>n, <1>15 DEF DebundleSpent
    <2>3. OneTurn'
      BY <1>t, <1>n, <1>s, <1>15, <2>1, <2>2
      DEF DebundleSpent, OneTurn, DebundlerHasTurn, One, Threads
    <2>4. OneKick' /\ Flagged'
      BY <1>t, <1>n, <1>s, <1>15, <2>2 DEF DebundleSpent, OneKick, Flagged, Threads
    <2>5. QED
      BY <2>3, <2>4 DEF SingleInv
  <1>16. CASE CalcWait
    BY <1>t, <1>n, <1>s, <1>16 DEF CalcWait, SingleInv, OneTurn, OneKick, Flagged, DebundlerHasTurn, One
  <1>17. CASE CalcPop
    <2>1. Len(todo_work) > 0
      BY <1>t, <1>n, <1>17 DEF CalcPop, Inv, TypeOK, TodoTokens, One
    <2>2. Len(todo_work') = Len(todo_work) - 1
      BY <1>t, <1>17, <2>1, PopFacts DEF CalcPop
    <2>3. QED
      BY <1>t, <1>n, <1>s, <1>17, <2>2
      DEF CalcPop, SingleInv, OneTurn, OneKick, Flagged, DebundlerHasTurn, One
  <1>18. CASE CalcWork
    <2>1. Len(todo_work) = 0
      BY <1>t, <1>n, <1>s, <1>18 DEF CalcWork, OneTurn, One
    <2>2. todo_work = <<>>
      BY <1>t, <2>1, EmptySeq
    <2>3. workunit \in Units
      BY <1>t, <1>18 DEF CalcWork, TypeOK
    <2>4. workunit' = [workunit EXCEPT !.is_last = TRUE] /\ pc' = [pc EXCEPT !["calc"] = "post_ready"]
      BY <1>18, <2>2 DEF CalcWork
    <2>5. workunit'.is_last
      BY <2>3, <2>4 DEF Units
    <2>6. QED
      BY <1>t, <1>n, <1>s, <1>18, <2>4, <2>5
      DEF CalcWork, SingleInv, OneTurn, OneKick, Flagged, DebundlerHasTurn, One
  <1>19. CASE CalcPostReady
    BY <1>t, <1>n, <1>s, <1>19 DEF CalcPostReady, SingleInv, OneTurn, OneKick, Flagged, DebundlerHasTurn, One
  <1>20. CASE CalcEnqueue
    <2>1. workunit \in Units /\ workunit.is_last
      BY <1>t, <1>s, <1>20 DEF CalcEnqueue, TypeOK, NeverPopsEmpty, Flagged
    <2>2. AllFlagged(completed_work')
      BY <1>t, <1>s, <1>20, <2>1, AppendFlagged DEF CalcEnqueue, Flagged
    <2>3. QED
      BY <1>t, <1>n, <1>s, <1>20, <2>2
      DEF CalcEnqueue, SingleInv, OneTurn, OneKick, Flagged, DebundlerHasTurn, One
  <1>21. CASE CalcPostSender
    BY <1>t, <1>n, <1>s, <1>21 DEF CalcPostSender, SingleInv, OneTurn, OneKick, Flagged, DebundlerHasTurn, One
  <1>22. CASE SenderWait
    BY <1>t, <1>n, <1>s, <1>22 DEF SenderWait, SingleInv, OneTurn, OneKick, Flagged, DebundlerHasTurn, One
  <1>23. CASE SenderPop
    <2>1. Len(completed_work) > 0
      BY <1>t, <1>n, <1>23 DEF SenderPop, Inv, TypeOK, CompletedTokens, One
    <2>2. send_unit'.is_last /\ AllFlagged(completed_work')
      BY <1>t, <1>s, <1>23, <2>1, PopFlagged DEF SenderPop, Flagged
    <2>3. QED
      BY <1>t, <1>n, <1>s, <1>23, <2>2
      DEF SenderPop, SingleInv, OneTurn, OneKick, Flagged, DebundlerHasTurn, One
  <1>24. CASE SenderSend
    <2>1. send_unit \in Units /\ send_unit.is_last
      BY <1>t, <1>s, <1>24 DEF SenderSend, TypeOK, Flagged
    <2>2. AllFlagged(results')
      BY <1>t, <1>s, <1>24, <2>1, AppendFlagged DEF SenderSend, Flagged
    <2>3. QED
      BY <1>t, <1>n, <1>s, <1>24, <2>2
      DEF SenderSend, SingleInv, OneTurn, OneKick, Flagged, DebundlerHasTurn, One
  <1>25. CASE SenderSendClosed
    BY <1>t, <1>n, <1>s, <1>25 DEF SenderSendClosed, SingleInv, OneTurn, OneKick, Flagged, DebundlerHasTurn, One
  <1>26. CASE UNCHANGED vars
    BY <1>s, <1>26 DEF vars, SingleInv, OneTurn, OneKick, Flagged, DebundlerHasTurn, One, AllFlagged
  <1>27. QED
    BY <1>1, <1>2, <1>3, <1>4, <1>5, <1>6, <1>7, <1>8, <1>9, <1>10, <1>11, <1>12, <1>13, <1>14, <1>15, <1>16, <1>17, <1>18, <1>19, <1>20, <1>21, <1>22, <1>23, <1>24, <1>25, <1>26 DEF Next, Environment, Event, Debundle, Calc, Sender

(* The turn is in the semaphore when the worker starts.                     *)
LEMMA SingleInit == Init => SingleInv
  <1> SUFFICES ASSUME Init PROVE SingleInv
    OBVIOUS
  <1>1. Len(<<>>) = 0
    BY EmptySeq
  <1>2. pc["debundle"] = "wait_ready" /\ pc["calc"] = "wait" /\ pc["sender"] = "wait"
    BY DEF Init, Threads
  <1>3. OneTurn
    BY <1>1, <1>2 DEF Init, OneTurn, DebundlerHasTurn, One
  <1>4. OneKick /\ Flagged
    BY <1>1, <1>2 DEF Init, OneKick, Flagged, AllFlagged
  <1>5. QED
    BY <1>3, <1>4 DEF SingleInv

(* Bundles of one unit: the turn is never multiplied.                       *)
THEOREM SingleInvHolds == Spec => [](unit_counts = {1} => SingleInv)
  <1>1. Init => (unit_counts = {1} => SingleInv)
    BY SingleInit
  <1>2. Inv /\ (unit_counts = {1} => SingleInv) /\ [Next]_vars
        => (unit_counts = {1} => SingleInv)'
    BY SingleStep, CountsFixed
  <1>3. QED
    BY <1>1, <1>2, InvHolds, PTL DEF Spec

(* Bundles of one unit: every result the dispatcher gets is flagged as the  *)
(* last of its bundle, so its count of finished bundles is right.           *)
THEOREM SinglesFlagged == Spec => []SingleUnitsFlagged
  <1>1. Inv /\ (unit_counts = {1} => SingleInv) => SingleUnitsFlagged
    <2> SUFFICES ASSUME Inv, unit_counts = {1}, SingleInv,
                        NEW i \in DOMAIN results
                 PROVE  results[i].is_last
      BY DEF SingleUnitsFlagged
    <2>1. DOMAIN results = 1..Len(results)
      BY LenProperties DEF Inv, TypeOK
    <2>2. QED
      BY <2>1 DEF SingleInv, Flagged, AllFlagged
  <1>2. QED
    BY <1>1, InvHolds, SingleInvHolds, PTL

(* Bundles of one unit: the debundler takes a bundle only when the unit of  *)
(* the one before has been computed.                                        *)
THEOREM BundlesOneByOne == Spec => []OneBundleAtATime
  <1>1. Inv /\ (unit_counts = {1} => SingleInv) => OneBundleAtATime
    <2> SUFFICES ASSUME Inv, unit_counts = {1}, SingleInv,
                        pc["debundle"] \in {"wait_bundle", "pop"}
                 PROVE  todo_work = <<>> /\ pc["calc"] \notin {"pop", "work", "post_ready"}
      BY DEF OneBundleAtATime
    <2>1. /\ todo_work \in Seq(Units) /\ Len(todo_work) \in Nat
          /\ ready_for_bundle \in Nat /\ calc_thread_sem \in Nat
      BY LenProperties DEF Inv, TypeOK
    <2>2. Len(todo_work) = 0 /\ pc["calc"] \notin {"work", "post_ready"}
      BY <2>1 DEF SingleInv, OneTurn, DebundlerHasTurn, One
    <2>3. pc["calc"] # "pop"
      BY <2>1, <2>2 DEF Inv, TodoTokens, One
    <2>4. QED
      BY <2>1, <2>2, <2>3, EmptySeq
  <1>2. QED
    BY <1>1, InvHolds, SingleInvHolds, PTL
-------------------------------------------------------------------------------
(* The last flag.  Look at the last unit that was computed, wherever it is   *)
(* between the calc thread and the socket.  It is flagged unless there is    *)
(* more to compute: the calc thread flags a unit if it finds nothing behind  *)
(* it, and nothing gets behind it later without being computed in turn.      *)

Idle == todo_work = <<>> /\ pc["calc"] # "work"

(* The last unit computed is flagged, whoever holds it.                      *)
LastFlagged(s) == s[Len(s)].is_last

LastDone ==
    IF pc["calc"] \in {"post_ready", "enqueue"} THEN workunit.is_last
    ELSE IF completed_work # <<>> THEN LastFlagged(completed_work)
    ELSE IF send_unit # NoUnit THEN send_unit.is_last
    ELSE results # <<>> => LastFlagged(results)

FlagInv == connected /\ Idle => LastDone
-------------------------------------------------------------------------------
(* The last of a queue, after it was added to or popped.                     *)
LEMMA LastAppended ==
    ASSUME NEW s \in Seq(Units), NEW u \in Units
    PROVE  /\ Append(s, u) # <<>>
           /\ LastFlagged(Append(s, u)) <=> u.is_last
  <1>1. Len(s) \in Nat
    BY LenProperties
  <1>2. /\ Append(s, u) \in Seq(Units) /\ Len(Append(s, u)) = Len(s) + 1
        /\ Append(s, u)[Len(s) + 1] = u
    BY AppendProperties
  <1>3. QED
    BY <1>1, <1>2, EmptySeq DEF LastFlagged

LEMMA LastPopped ==
    ASSUME NEW s \in Seq(Units), s # <<>>, NEW null
    PROVE  /\ Rest(s) # <<>> => (LastFlagged(Rest(s)) <=> LastFlagged(s))
           /\ Rest(s) = <<>> => (Popped(s, null).is_last <=> LastFlagged(s))
  <1>1. /\ Len(s) \in Nat \ {0} /\ Tail(s) \in Seq(Units) /\ Len(Tail(s)) = Len(s) - 1
        /\ \A i \in 1..Len(Tail(s)) : Tail(s)[i] = s[i + 1]
    BY EmptySeq, HeadTailProperties
  <1>h. Head(s) = s[1]
    OBVIOUS
  <1>2. Rest(s) = Tail(s) /\ Popped(s, null) = s[1]
    BY <1>h DEF Rest, Popped
  <1>3. CASE Tail(s) # <<>>
    <2>1. Len(Tail(s)) \in Nat \ {0}
      BY <1>1, <1>3, EmptySeq
    <2>2. Tail(s)[Len(Tail(s))] = s[Len(s)]
      BY <1>1, <2>1
    <2>3. QED
      BY <1>2, <1>3, <2>2 DEF LastFlagged
  <1>4. CASE Tail(s) = <<>>
    <2> DEFINE t == Tail(s)
    <2>0. t \in Seq(Units) /\ t = <<>> /\ Len(s) \in Nat /\ Len(t) = Len(s) - 1
      BY <1>1, <1>4
    <2> HIDE DEF t
    <2>1. Len(t) = 0
      BY <2>0, EmptySeq
    <2>2. Len(s) = 1
      BY <2>0, <2>1
    <2>3. QED
      BY <1>2, <1>4, <2>2 DEF LastFlagged
  <1>5. QED
    BY <1>3, <1>4

(* Every step keeps the last unit computed flagged, or gives more to do.     *)
LEMMA FlagStep == Inv /\ FlagInv /\ [Next]_vars => FlagInv'
  <1> SUFFICES ASSUME Inv, FlagInv, [Next]_vars PROVE FlagInv'
    OBVIOUS
  <1> USE DEF At, Goto, links, process, debundler, calc, sender
  <1>t. /\ pc \in [Threads -> Labels]
        /\ todo_work \in Seq(Units) /\ completed_work \in Seq(Units) /\ results \in Seq(Units)
        /\ workunit \in Units \cup {NoUnit} /\ send_unit \in Units \cup {NoUnit}
        /\ {"debundle", "calc", "sender", "event"} \subseteq Threads /\ NeverPopsEmpty
    BY DEF Inv, TypeOK, Threads
  <1>1. CASE \/ DispatcherSendsSettings \/ DispatcherSendsBundle \/ EventSettings
             \/ DebundleWaitReady \/ DebundleWaitBundle \/ DebundlePop \/ DebundlePostCalc
             \/ DebundleSpent \/ EventBundle \/ EventPostDebundle \/ EventClosed
             \/ EventPostExit \/ MainExit \/ SenderWait
    <2>1. UNCHANGED <<connected, todo_work, completed_work, workunit, send_unit, results>>
          /\ pc'["calc"] = pc["calc"]
      BY <1>t, <1>1
      DEF DispatcherSendsSettings, DispatcherSendsBundle, EventSettings, DebundleWaitReady,
          DebundleWaitBundle, DebundlePop, DebundlePostCalc, DebundleSpent, EventBundle,
          EventPostDebundle, EventClosed, EventPostExit, MainExit, SenderWait
    <2>2. QED
      BY <2>1 DEF FlagInv, Idle, LastDone
  <1>2. CASE DispatcherCloses \/ SenderSendClosed
    BY <1>2 DEF DispatcherCloses, SenderSendClosed, FlagInv
  <1>3. CASE DebundleKick
    <2>1. todo_work' # <<>>
      <3>1. bundle \in [id: BundleIds, idcount: unit_counts, index: Nat]
        BY <1>3 DEF DebundleKick, Inv, TypeOK, NoBundle
      <3>2. [id |-> bundle.id, index |-> bundle.index, is_last |-> FALSE] \in Units
        BY <3>1 DEF Units
      <3>3. QED
        BY <1>t, <1>3, <3>2, LastAppended DEF DebundleKick
    <2>2. QED
      BY <2>1 DEF FlagInv, Idle
  <1>4. CASE CalcWait
    BY <1>t, <1>4 DEF CalcWait, FlagInv, Idle, LastDone
  <1>5. CASE CalcPop
    BY <1>t, <1>5 DEF CalcPop, FlagInv, Idle
  <1>6. CASE CalcWork
    <2>1. CASE todo_work = <<>>
      <3>1. workunit \in Units /\ workunit' = [workunit EXCEPT !.is_last = TRUE]
            /\ pc'["calc"] = "post_ready"
        BY <1>t, <1>6, <2>1 DEF CalcWork
      <3>2. workunit'.is_last
        BY <3>1 DEF Units
      <3>3. QED
        BY <3>1, <3>2 DEF FlagInv, LastDone
    <2>2. CASE todo_work # <<>>
      BY <1>6, <2>2 DEF CalcWork, FlagInv, Idle
    <2>3. QED
      BY <2>1, <2>2
  <1>7. CASE CalcPostReady
    BY <1>t, <1>7 DEF CalcPostReady, FlagInv, Idle, LastDone
  <1>8. CASE CalcEnqueue
    <2>1. workunit \in Units /\ completed_work' = Append(completed_work, workunit)
          /\ pc["calc"] = "enqueue" /\ pc'["calc"] = "post_sender"
          /\ UNCHANGED <<connected, todo_work>>
      BY <1>t, <1>8 DEF CalcEnqueue, NeverPopsEmpty
    <2>2. completed_work' # <<>> /\ (LastFlagged(completed_work)' <=> workunit.is_last)
      BY <1>t, <2>1, LastAppended
    <2>3. QED
      BY <2>1, <2>2 DEF FlagInv, Idle, LastDone
  <1>9. CASE CalcPostSender
    BY <1>t, <1>9 DEF CalcPostSender, FlagInv, Idle, LastDone
  <1>10. CASE SenderPop
    <2>1. completed_work # <<>>
      <3>1. Len(completed_work) > 0
        BY <1>10 DEF SenderPop, Inv, CompletedTokens, TypeOK, One
      <3>2. QED
        BY <3>1, EmptySeq
    <2>2. completed_work' = Rest(completed_work) /\ send_unit' = Popped(completed_work, NoUnit)
          /\ UNCHANGED <<connected, todo_work, workunit, results>> /\ pc'["calc"] = pc["calc"]
      BY <1>t, <1>10 DEF SenderPop
    <2>3. /\ completed_work' # <<>> => (LastFlagged(completed_work)' <=> LastFlagged(completed_work))
          /\ completed_work' = <<>> => (send_unit'.is_last <=> LastFlagged(completed_work))
      BY <1>t, <2>1, <2>2, LastPopped
    <2>4. send_unit' # NoUnit
      <3>1. Len(completed_work) > 0
        BY <1>t, <2>1, EmptySeq
      <3>2. Popped(completed_work, NoUnit) \in Units
        BY <1>t, <3>1, PopFacts
      <3>3. QED
        BY <2>2, <3>2, NullFacts
    <2>5. QED
      BY <2>1, <2>2, <2>3, <2>4 DEF FlagInv, Idle, LastDone
  <1>11. CASE SenderSend
    <2>1. send_unit \in Units /\ results' = Append(results, send_unit) /\ send_unit # NoUnit
          /\ UNCHANGED <<connected, todo_work, workunit, completed_work>>
          /\ pc'["calc"] = pc["calc"]
      BY <1>t, <1>11 DEF SenderSend
    <2>2. results' # <<>> /\ (LastFlagged(results)' <=> send_unit.is_last)
      BY <1>t, <2>1, LastAppended
    <2>3. send_unit' = NoUnit
      BY <1>11 DEF SenderSend
    <2>4. QED
      BY <2>1, <2>2, <2>3 DEF FlagInv, Idle, LastDone
  <1>12. CASE UNCHANGED vars
    BY <1>12 DEF vars, FlagInv, Idle, LastDone, LastFlagged
  <1>13. QED
    BY <1>1, <1>2, <1>3, <1>4, <1>5, <1>6, <1>7, <1>8, <1>9, <1>10, <1>11, <1>12
    DEF Next, Environment, Event, Debundle, Calc, Sender

(* However the threads interleave, the answer after which nothing is left in *)
(* the pipeline is flagged (calc_thread.c:30-35).                            *)
THEOREM LastFlagHolds == Spec => []LastAnswerFlagged
  <1>1. Init => FlagInv
    <2> SUFFICES ASSUME Init PROVE LastDone
      BY DEF FlagInv
    <2>1. pc["calc"] = "wait" /\ completed_work = <<>> /\ send_unit = NoUnit /\ results = <<>>
      BY DEF Init, Threads
    <2>2. QED
      BY <2>1 DEF LastDone
  <1>2. Inv /\ FlagInv => LastAnswerFlagged
    <2> SUFFICES ASSUME Inv, FlagInv, InPipeline = <<>>, connected, results # <<>>
                 PROVE  LastFlagged(results)
      BY DEF LastAnswerFlagged, LastFlagged
    <2>1. /\ completed_work \in Seq(Units) /\ todo_work \in Seq(Units)
          /\ Held(send_unit) \in Seq(Units) /\ Held(workunit) \in Seq(Units)
      BY DEF Inv, TypeOK, Held
    <2>2. /\ Held(send_unit) = <<>> /\ completed_work = <<>>
          /\ Held(workunit) = <<>> /\ todo_work = <<>>
      <3>1. /\ Held(send_unit) \o completed_work \in Seq(Units)
            /\ (Held(send_unit) \o completed_work) \o Held(workunit) \in Seq(Units)
        BY <2>1, ConcatProperties
      <3>2. /\ (Held(send_unit) \o completed_work) \o Held(workunit) = <<>>
            /\ todo_work = <<>>
        BY <2>1, <3>1, ConcatEqualIffEmpty DEF InPipeline
      <3>3. Held(send_unit) \o completed_work = <<>> /\ Held(workunit) = <<>>
        BY <2>1, <3>1, <3>2, ConcatEqualIffEmpty
      <3>4. QED
        BY <2>1, <3>2, <3>3, ConcatEqualIffEmpty
    <2>3. send_unit = NoUnit /\ workunit = NoUnit
      <3>1. \A u : <<u>> # <<>>
        OBVIOUS
      <3>2. QED
        BY <2>2, <3>1 DEF Held
    <2>4. pc["calc"] \notin {"work", "post_ready", "enqueue"}
      BY <2>3 DEF Inv, NeverPopsEmpty
    <2>5. QED
      BY <2>2, <2>3, <2>4 DEF FlagInv, Idle, LastDone
  <1>3. QED
    BY <1>1, <1>2, FlagStep, InvHolds, PTL DEF Spec
-------------------------------------------------------------------------------
(* The refinement of WorkerService.  What the worker owes is in six places,  *)
(* one after the other: the sender's hand, completed_work, the calc thread's *)
(* hand, todo_work, the debundler's bundle and bundle_queue.  A step either  *)
(* moves the unit at the border of two neighbouring places, or it adds a     *)
(* bundle at the end, or it takes a unit from the front.                     *)

Keys(s) == [i \in DOMAIN s |-> Key(s[i])]
Bundled == [i \in DOMAIN bundle_queue |-> ToKick(bundle_queue[i], 0)]
KeySet  == [id: BundleIds, index: Nat]
KeySeqs == Seq(KeySet)

Cat(s, t) == s \o t
Joined(a, b, c, d, e, f) == Cat(Cat(Cat(Cat(Cat(a, b), c), d), e), f)

(* A thread that has handed on what it had holds nothing.                    *)
EmptyHands ==
    /\ pc["debundle"] \in {"wait_ready", "wait_bundle", "pop"} => bundle = NoBundle
    /\ pc["calc"] \in {"wait", "pop", "post_sender"} => workunit = NoUnit
    /\ pc["sender"] \in {"wait", "pop"} => send_unit = NoUnit

LEMMA EmptyHandsStep == Inv /\ EmptyHands /\ [Next]_vars => EmptyHands'
  <1> SUFFICES ASSUME Inv, EmptyHands, [Next]_vars PROVE EmptyHands'
    OBVIOUS
  <1>t. pc \in [Threads -> Labels]
    BY DEF Inv, TypeOK
  <1> USE DEF EmptyHands, At, Goto, links, process, debundler, calc, sender, Threads
  <1>1. CASE Environment
    BY <1>1 DEF Environment, DispatcherSendsSettings, DispatcherSendsBundle, DispatcherCloses
  <1>2. CASE Event \/ MainExit
    BY <1>t, <1>2 DEF Event, EventSettings, EventBundle, EventPostDebundle, EventClosed,
                      EventPostExit, MainExit
  <1>3. CASE Debundle
    BY <1>t, <1>3 DEF Debundle, DebundleWaitReady, DebundleWaitBundle, DebundlePop, DebundleKick,
                      DebundlePostCalc, DebundleSpent
  <1>4. CASE Calc
    BY <1>t, <1>4 DEF Calc, CalcWait, CalcPop, CalcWork, CalcPostReady, CalcEnqueue,
                      CalcPostSender
  <1>5. CASE Sender
    BY <1>t, <1>5 DEF Sender, SenderWait, SenderPop, SenderSend, SenderSendClosed
  <1>6. CASE UNCHANGED vars
    BY <1>6 DEF vars
  <1> QED
    BY <1>1, <1>2, <1>3, <1>4, <1>5, <1>6 DEF Next

(* Keys of queues.                                                           *)
LEMMA KeysType ==
    ASSUME NEW s \in Seq(Units)
    PROVE  Keys(s) \in Seq(KeySet) /\ Len(Keys(s)) = Len(s) /\ DOMAIN Keys(s) = 1..Len(s)
  <1>1. Len(s) \in Nat /\ DOMAIN s = 1..Len(s)
    BY LenProperties
  <1>2. ASSUME NEW i \in 1..Len(s) PROVE Key(s[i]) \in KeySet
    <2>1. s[i] \in Units
      BY <1>1, ElementOfSeq
    <2> QED
      BY <2>1 DEF Key, Units, KeySet
  <1>3. Keys(s) \in [1..Len(s) -> KeySet]
    BY <1>1, <1>2 DEF Keys
  <1> QED
    BY <1>1, <1>3, IsASeq, LenProperties DEF Keys

LEMMA KeysConcat ==
    ASSUME NEW s \in Seq(Units), NEW t \in Seq(Units)
    PROVE  Keys(s \o t) = Keys(s) \o Keys(t)
  <1>1. /\ s \o t \in Seq(Units) /\ Len(s \o t) = Len(s) + Len(t)
        /\ \A i \in 1..(Len(s) + Len(t)) :
              (s \o t)[i] = IF i <= Len(s) THEN s[i] ELSE t[i - Len(s)]
    BY ConcatProperties
  <1>2. /\ Keys(s) \o Keys(t) \in Seq(KeySet)
        /\ Len(Keys(s) \o Keys(t)) = Len(s) + Len(t)
        /\ \A i \in 1..(Len(s) + Len(t)) : (Keys(s) \o Keys(t))[i] =
              IF i <= Len(s) THEN Keys(s)[i] ELSE Keys(t)[i - Len(s)]
    <2> DEFINE x == Keys(s)
               y == Keys(t)
    <2>1. x \in Seq(KeySet) /\ y \in Seq(KeySet) /\ Len(x) = Len(s) /\ Len(y) = Len(t)
      BY KeysType
    <2> HIDE DEF x, y
    <2>2. /\ x \o y \in Seq(KeySet) /\ Len(x \o y) = Len(x) + Len(y)
          /\ \A i \in 1..(Len(x) + Len(y)) :
                (x \o y)[i] = IF i <= Len(x) THEN x[i] ELSE y[i - Len(x)]
      BY <2>1, ConcatProperties
    <2> QED
      BY <2>1, <2>2 DEF x, y
  <1>3. Keys(s \o t) \in Seq(KeySet) /\ Len(Keys(s \o t)) = Len(s) + Len(t)
    BY <1>1, KeysType
  <1>n. Len(s) \in Nat /\ Len(t) \in Nat
    BY LenProperties
  <1>4. ASSUME NEW i \in 1..(Len(s) + Len(t))
        PROVE  Keys(s \o t)[i] = (Keys(s) \o Keys(t))[i]
    <2>1. Keys(s \o t)[i] = Key((s \o t)[i])
      BY <1>1, LenProperties DEF Keys
    <2>2. CASE i <= Len(s)
      <3>1. i \in DOMAIN s
        BY <1>n, <2>2, LenProperties
      <3> QED
        BY <1>1, <1>2, <2>1, <2>2, <3>1 DEF Keys
    <2>3. CASE ~(i <= Len(s))
      <3>1. i - Len(s) \in DOMAIN t
        BY <1>n, <2>3, LenProperties
      <3> QED
        BY <1>1, <1>2, <2>1, <2>3, <3>1 DEF Keys
    <2> QED
      BY <2>2, <2>3
  <1> QED
    BY <1>2, <1>3, <1>4, SeqEqual

LEMMA KeysOne == \A u : Keys(<<u>>) = <<Key(u)>> /\ Keys(<<>>) = <<>>
  BY DEF Keys

LEMMA KeysAppend ==
    ASSUME NEW s \in Seq(Units), NEW u \in Units
    PROVE  Keys(Append(s, u)) = Keys(s) \o <<Key(u)>>
  <1>1. Append(s, u) = s \o <<u>> /\ <<u>> \in Seq(Units)
    BY AppendIsConcat
  <1> QED
    BY <1>1, KeysConcat, KeysOne

LEMMA KeysPopped ==
    ASSUME NEW s \in Seq(Units), s # <<>>
    PROVE  /\ Head(s) \in Units /\ Tail(s) \in Seq(Units)
           /\ Keys(s) = <<Key(Head(s))>> \o Keys(Tail(s))
  <1>1. Head(s) \in Units /\ Tail(s) \in Seq(Units)
    BY HeadTailProperties
  <1>2. s = <<Head(s)>> \o Tail(s) /\ <<Head(s)>> \in Seq(Units)
    <2>1. /\ <<Head(s)>> \in Seq(Units) /\ Len(<<Head(s)>>) = 1 /\ <<Head(s)>>[1] = Head(s)
      BY <1>1
    <2>2. /\ <<Head(s)>> \o Tail(s) \in Seq(Units)
          /\ Len(<<Head(s)>> \o Tail(s)) = 1 + Len(Tail(s))
          /\ \A i \in 1..(1 + Len(Tail(s))) : (<<Head(s)>> \o Tail(s))[i] =
                IF i <= 1 THEN Head(s) ELSE Tail(s)[i - 1]
      BY <1>1, <2>1, ConcatProperties
    <2>3. /\ Len(s) \in Nat \ {0} /\ Len(Tail(s)) = Len(s) - 1 /\ Head(s) = s[1]
          /\ \A i \in 1..Len(Tail(s)) : Tail(s)[i] = s[i + 1]
      BY HeadTailProperties, LenProperties, EmptySeq
    <2>4. ASSUME NEW i \in 1..Len(s) PROVE (<<Head(s)>> \o Tail(s))[i] = s[i]
      <3>1. CASE i = 1
        BY <2>2, <2>3, <3>1
      <3>2. CASE i # 1
        <4>1. i - 1 \in 1..Len(Tail(s)) /\ i \in 1..(1 + Len(Tail(s))) /\ ~(i <= 1) /\ i - 1 + 1 = i
          BY <2>3, <3>2
        <4> QED
          BY <2>2, <2>3, <4>1
      <3> QED
        BY <3>1, <3>2
    <2>5. Len(<<Head(s)>> \o Tail(s)) = Len(s)
      BY <2>2, <2>3
    <2> QED
      BY <2>1, <2>2, <2>4, <2>5, SeqEqual
  <1>3. Keys(<<Head(s)>> \o Tail(s)) = Keys(<<Head(s)>>) \o Keys(Tail(s))
    BY <1>1, <1>2, KeysConcat
  <1> QED
    BY <1>1, <1>2, <1>3, KeysOne

LEMMA CatFacts ==
    ASSUME NEW S
    PROVE  /\ <<>> \in Seq(S)
           /\ \A s \in Seq(S) : Cat(s, <<>>) = s /\ Cat(<<>>, s) = s
           /\ \A s, t \in Seq(S) : Cat(s, t) \in Seq(S)
           /\ \A s, t, u \in Seq(S) : Cat(s, Cat(t, u)) = Cat(Cat(s, t), u)
  <1>1. \A s \in Seq(S) : Cat(s, <<>>) = s /\ Cat(<<>>, s) = s
    BY ConcatEmptySeq DEF Cat
  <1>2. \A s, t \in Seq(S) : Cat(s, t) \in Seq(S)
    BY ConcatProperties DEF Cat
  <1>3. \A s, t, u \in Seq(S) : Cat(s, Cat(t, u)) = Cat(Cat(s, t), u)
    BY Associative DEF Cat
  <1> QED
    BY <1>1, <1>2, <1>3, EmptySeq

LEMMA FrontFacts ==
    ASSUME NEW S, NEW x \in S, NEW t \in Seq(S)
    PROVE  /\ <<x>> \o t # <<>> /\ Head(<<x>> \o t) = x /\ Tail(<<x>> \o t) = t
           /\ Len(<<x>> \o t) = 1 + Len(t)
  <1>1. /\ <<x>> \in Seq(S) /\ Len(<<x>>) = 1 /\ <<x>>[1] = x
    OBVIOUS
  <1> DEFINE s == <<x>> \o t
  <1>2. /\ s \in Seq(S) /\ Len(s) = 1 + Len(t) /\ Len(t) \in Nat
        /\ \A i \in 1..(1 + Len(t)) : s[i] = IF i <= 1 THEN x ELSE t[i - 1]
    BY <1>1, ConcatProperties, LenProperties
  <1> HIDE DEF s
  <1>3. s # <<>> /\ s[1] = x
    BY <1>2, EmptySeq
  <1>4. /\ Tail(s) \in Seq(S) /\ Len(Tail(s)) = Len(s) - 1 /\ Head(s) = s[1]
        /\ \A i \in 1..Len(Tail(s)) : Tail(s)[i] = s[i + 1]
    BY <1>2, <1>3, HeadTailProperties
  <1>5. ASSUME NEW i \in 1..Len(t) PROVE Tail(s)[i] = t[i]
    <2>1. i \in 1..Len(Tail(s)) /\ i + 1 \in 1..(1 + Len(t)) /\ ~(i + 1 <= 1) /\ i + 1 - 1 = i
      BY <1>2, <1>4
    <2> QED
      BY <1>2, <1>4, <2>1
  <1>6. Tail(s) = t
    BY <1>2, <1>4, <1>5, SeqEqual
  <1> QED
    BY <1>2, <1>3, <1>4, <1>6 DEF s

(* The front of what is owed: the parts are in Seq(KeySet) throughout.       *)
Parts(a, b, c, d, e, f) ==
    /\ a \in Seq(KeySet) /\ b \in Seq(KeySet) /\ c \in Seq(KeySet)
    /\ d \in Seq(KeySet) /\ e \in Seq(KeySet) /\ f \in Seq(KeySet)

(* The bundles and the units they stand for.                                 *)
LEMMA ToKickType ==
    ASSUME NEW b, NEW i \in Nat, b.id \in BundleIds, b.idcount \in Nat
    PROVE  ToKick(b, i) \in Seq(KeySet)
  <1> DEFINE n == IF b.idcount >= i THEN b.idcount - i ELSE 0
             D == 1..(b.idcount - i)
             K(k) == [id |-> b.id, index |-> i + k - 1]
             s == [k \in D |-> K(k)]
  <1>1. n \in Nat /\ D = 1..n
    OBVIOUS
  <1>2. \A k \in 1..n : K(k) \in KeySet
    BY <1>1 DEF KeySet
  <1>3. ToKick(b, i) = s
    BY DEF ToKick
  <1> HIDE DEF n, D, K
  <1>4. s \in [1..n -> KeySet]
    BY <1>1, <1>2
  <1> HIDE DEF s
  <1> QED
    BY <1>1, <1>3, <1>4, IsASeq

LEMMA ToKickNone ==
    ASSUME NEW b, NEW i \in Nat, b.idcount \in Nat, i >= b.idcount
    PROVE  ToKick(b, i) = <<>>
  <1>1. 1..(b.idcount - i) = {}
    OBVIOUS
  <1> QED
    BY <1>1 DEF ToKick

LEMMA ToKickNext ==
    ASSUME NEW b, NEW c, NEW i \in Nat, b.id \in BundleIds, b.idcount \in Nat, i < b.idcount,
           c.id = b.id, c.idcount = b.idcount
    PROVE  ToKick(b, i) = <<[id |-> b.id, index |-> i]>> \o ToKick(c, i + 1)
  <1> DEFINE n == b.idcount - i
             k == [id |-> b.id, index |-> i]
             t == ToKick(c, i + 1)
             s == ToKick(b, i)
  <1>1. n \in Nat /\ n >= 1 /\ b.idcount - (i + 1) = n - 1
    OBVIOUS
  <1>2. t \in Seq(KeySet) /\ s \in Seq(KeySet) /\ k \in KeySet
    <2>1. k \in KeySet
      BY DEF KeySet
    <2>2. s \in Seq(KeySet)
      BY ToKickType
    <2>3. i + 1 \in Nat /\ c.id \in BundleIds /\ c.idcount \in Nat
      OBVIOUS
    <2>4. t \in Seq(KeySet)
      BY <2>3, ToKickType
    <2> QED
      BY <2>1, <2>2, <2>4
  <1>3. Len(s) = n /\ \A j \in 1..n : s[j] = [id |-> b.id, index |-> i + j - 1]
    BY <1>1 DEF ToKick
  <1>4. Len(t) = n - 1 /\ \A j \in 1..(n - 1) : t[j] = [id |-> b.id, index |-> i + 1 + j - 1]
    BY <1>1 DEF ToKick
  <1> HIDE DEF s, t, n
  <1>5. <<k>> \in Seq(KeySet) /\ Len(<<k>>) = 1 /\ <<k>>[1] = k
    BY <1>2
  <1>6. /\ <<k>> \o t \in Seq(KeySet) /\ Len(<<k>> \o t) = 1 + Len(t)
        /\ \A j \in 1..(1 + Len(t)) : (<<k>> \o t)[j] = IF j <= 1 THEN k ELSE t[j - 1]
    BY <1>2, <1>5, ConcatProperties
  <1>7. ASSUME NEW j \in 1..n PROVE (<<k>> \o t)[j] = s[j]
    <2>1. CASE j = 1
      <3>1. i + j - 1 = i
        BY <2>1
      <3> QED
        BY <1>1, <1>3, <1>4, <1>6, <2>1, <3>1
    <2>2. CASE j # 1
      <3>1. j - 1 \in 1..(n - 1) /\ j \in 1..(1 + Len(t)) /\ ~(j <= 1)
        BY <1>1, <1>4, <2>2
      <3>2. i + 1 + (j - 1) - 1 = i + j - 1
        OBVIOUS
      <3> HIDE DEF k
      <3>3. (<<k>> \o t)[j] = t[j - 1] /\ t[j - 1] = [id |-> b.id, index |-> i + 1 + (j - 1) - 1]
        BY <1>4, <1>6, <3>1
      <3> QED
        BY <1>3, <3>2, <3>3
    <2> QED
      BY <2>1, <2>2
  <1>8. Len(<<k>> \o t) = Len(s)
    BY <1>1, <1>3, <1>4, <1>6
  <1> QED
    BY <1>2, <1>3, <1>6, <1>7, <1>8, SeqEqual DEF s, t

LEMMA BundledType ==
    ASSUME Inv
    PROVE  /\ Bundled \in Seq(Seq(KeySet)) /\ FlattenSeq(Bundled) \in Seq(KeySet)
           /\ Len(Bundled) = Len(bundle_queue) /\ DOMAIN Bundled = 1..Len(bundle_queue)
  <1>1. Len(bundle_queue) \in Nat /\ DOMAIN bundle_queue = 1..Len(bundle_queue)
    BY LenProperties DEF Inv, TypeOK
  <1>2. ASSUME NEW i \in 1..Len(bundle_queue) PROVE ToKick(bundle_queue[i], 0) \in Seq(KeySet)
    <2>1. bundle_queue[i] \in Bundles
      BY <1>1, ElementOfSeq DEF Inv, TypeOK
    <2>2. bundle_queue[i].id \in BundleIds /\ bundle_queue[i].idcount \in Nat
      BY <2>1, WorkerAssumption DEF Bundles, Inv, TypeOK
    <2> QED
      BY <2>2, ToKickType
  <1>3. Bundled \in [1..Len(bundle_queue) -> Seq(KeySet)]
    BY <1>1, <1>2 DEF Bundled
  <1>4. Bundled \in Seq(Seq(KeySet)) /\ Len(Bundled) = Len(bundle_queue)
    BY <1>1, <1>3, IsASeq, LenProperties
  <1>5. FlattenSeq(Bundled) \in Seq(KeySet)
    BY <1>4, FlattenAppend, EmptySeq
  <1> QED
    BY <1>3, <1>4, <1>5

BundledTyped == Bundled \in Seq(Seq(KeySet)) /\ Len(Bundled) = Len(bundle_queue)

LEMMA BundledTypeHere == Inv => BundledTyped
  BY BundledType DEF BundledTyped

LEMMA BundledTypeNext == Inv' => BundledTyped'
  BY BundledTypeHere, PTL

(* What the worker owes, part by part.                                       *)
InSender    == Keys(Held(send_unit))
InCompleted == Keys(completed_work)
InCalc      == Keys(Held(workunit))
InTodo      == Keys(todo_work)
InBundle    == ToKick(bundle, bundle.index)
InQueue     == FlattenSeq(Bundled)

OwedIs ==
    /\ Parts(InSender, InCompleted, InCalc, InTodo, InBundle, InQueue)
    /\ Owed = Joined(InSender, InCompleted, InCalc, InTodo, InBundle, InQueue)

LEMMA OwedJoined == Inv => OwedIs
  <1> SUFFICES ASSUME Inv PROVE OwedIs
    OBVIOUS
  <1> DEFINE a == Held(send_unit)
             b == completed_work
             c == Held(workunit)
             d == todo_work
             ab == a \o b
             abc == ab \o c
  <1>1. /\ a \in Seq(Units) /\ b \in Seq(Units) /\ c \in Seq(Units) /\ d \in Seq(Units)
    BY EmptySeq DEF Held, Inv, TypeOK
  <1>2. InPipeline = abc \o d
    BY DEF InPipeline
  <1> HIDE DEF a, b, c, d
  <1>3. ab \in Seq(Units) /\ Keys(ab) = Keys(a) \o Keys(b)
    BY <1>1, ConcatProperties, KeysConcat
  <1> HIDE DEF ab
  <1>4. abc \in Seq(Units) /\ Keys(abc) = Keys(ab) \o Keys(c)
    BY <1>1, <1>3, ConcatProperties, KeysConcat
  <1> HIDE DEF abc
  <1>5. Keys(InPipeline) = Keys(abc) \o Keys(d)
    BY <1>1, <1>2, <1>4, KeysConcat
  <1>6. ToKick(bundle, bundle.index) \in Seq(KeySet)
    <2>1. CASE bundle = NoBundle
      <3>1. /\ NoBundle.index \in Nat /\ NoBundle.idcount \in Nat
            /\ NoBundle.index >= NoBundle.idcount
        BY DEF NoBundle
      <3>2. ToKick(NoBundle, NoBundle.index) = <<>>
        BY <3>1, ToKickNone
      <3> QED
        BY <2>1, <3>2, EmptySeq
    <2>2. CASE bundle # NoBundle
      <3>1. bundle.id \in BundleIds /\ bundle.idcount \in Nat /\ bundle.index \in Nat
        BY <2>2, WorkerAssumption DEF Inv, TypeOK
      <3> QED
        BY <3>1, ToKickType
    <2> QED
      BY <2>1, <2>2
  <1>7. Owed = (Keys(InPipeline) \o ToKick(bundle, bundle.index)) \o FlattenSeq(Bundled)
    BY DEF Owed, Keys, Bundled
  <1>8. /\ Keys(a) \in Seq(KeySet) /\ Keys(b) \in Seq(KeySet) /\ Keys(c) \in Seq(KeySet)
        /\ Keys(d) \in Seq(KeySet)
    BY <1>1, KeysType
  <1>9. Owed = Joined(Keys(a), Keys(b), Keys(c), Keys(d), ToKick(bundle, bundle.index),
                      FlattenSeq(Bundled))
    BY <1>3, <1>4, <1>5, <1>7 DEF Joined, Cat
  <1> QED
    BY <1>6, <1>8, <1>9, BundledType
    DEF a, b, c, d, Parts, OwedIs, InSender, InCompleted, InCalc, InTodo, InBundle, InQueue

LEMMA OwedJoinedNext == Inv' => OwedIs'
  BY OwedJoined, PTL

(* A key that crosses the border of two parts leaves the whole as it is;    *)
(* keys added to the last part are added to the whole, and what is in front *)
(* is in front of the whole.                                                *)
LEMMA Borders ==
    ASSUME NEW S, NEW a \in Seq(S), NEW b \in Seq(S), NEW c \in Seq(S), NEW d \in Seq(S),
           NEW e \in Seq(S), NEW f \in Seq(S), NEW x \in Seq(S)
    PROVE  /\ Joined(<<>>, Cat(x, b), c, d, e, f) = Joined(x, b, c, d, e, f)
           /\ Joined(a, b, x, d, e, f) = Joined(a, Cat(b, x), <<>>, d, e, f)
           /\ Joined(a, b, <<>>, Cat(x, d), e, f) = Joined(a, b, x, d, e, f)
           /\ Joined(a, b, c, d, <<>>, Cat(x, f)) = Joined(a, b, c, d, x, f)
           /\ Joined(a, b, c, d, e, Cat(f, x)) = Cat(Joined(a, b, c, d, e, f), x)
           /\ Joined(a, b, c, d, e, f) \in Seq(S)
  <1>a. ASSUME NEW p \in Seq(S), NEW q \in Seq(S)
        PROVE  Cat(p, q) \in Seq(S)
    BY CatFacts, Zenon
  <1>b. Cat(a, b) \in Seq(S)
    BY <1>a
  <1>c. Cat(Cat(a, b), c) \in Seq(S)
    BY <1>a, <1>b
  <1>d. Cat(Cat(Cat(a, b), c), d) \in Seq(S)
    BY <1>a, <1>c
  <1>e. Cat(Cat(Cat(Cat(a, b), c), d), e) \in Seq(S)
    BY <1>a, <1>d
  <1>f. Cat(Cat(Cat(Cat(Cat(a, b), c), d), e), f) \in Seq(S)
    BY <1>a, <1>e
  <1>1. /\ Cat(a, b) \in Seq(S)
        /\ Cat(Cat(a, b), c) \in Seq(S)
        /\ Cat(Cat(Cat(a, b), c), d) \in Seq(S)
        /\ Cat(Cat(Cat(Cat(a, b), c), d), e) \in Seq(S)
        /\ Cat(Cat(Cat(Cat(Cat(a, b), c), d), e), f) \in Seq(S)
    BY <1>b, <1>c, <1>d, <1>e, <1>f
  <1>2. Joined(<<>>, Cat(x, b), c, d, e, f) = Joined(x, b, c, d, e, f)
    <2>1. Cat(<<>>, Cat(x, b)) = Cat(x, b)
      <3>1. Cat(x, b) \in Seq(S)
        BY <1>a
      <3> QED
        BY <3>1, CatFacts
    <2> QED
      BY <2>1, Zenon DEF Joined
  <1>3. Joined(a, b, x, d, e, f) = Joined(a, Cat(b, x), <<>>, d, e, f)
    <2>1. Cat(Cat(a, Cat(b, x)), <<>>) = Cat(Cat(a, b), x)
      BY CatFacts
    <2> QED
      BY <2>1, Zenon DEF Joined
  <1>4. \A q \in Seq(S) : \A y \in Seq(S) : Cat(Cat(q, <<>>), Cat(x, y)) = Cat(Cat(q, x), y)
    BY CatFacts
  <1>5. Joined(a, b, <<>>, Cat(x, d), e, f) = Joined(a, b, x, d, e, f)
    <2>1. Cat(Cat(Cat(a, b), <<>>), Cat(x, d)) = Cat(Cat(Cat(a, b), x), d)
      BY <1>1, <1>4, Zenon
    <2> QED
      BY <2>1, Zenon DEF Joined
  <1>6. Joined(a, b, c, d, <<>>, Cat(x, f)) = Joined(a, b, c, d, x, f)
    BY <1>1, <1>4, Zenon DEF Joined
  <1>8. Joined(a, b, c, d, e, Cat(f, x)) = Cat(Joined(a, b, c, d, e, f), x)
    <2>1. \A q \in Seq(S) : Cat(q, Cat(f, x)) = Cat(Cat(q, f), x)
      BY CatFacts
    <2> QED
      BY <1>1, <2>1, Zenon DEF Joined
  <1>9. Joined(a, b, c, d, e, f) \in Seq(S)
    BY <1>1, Zenon DEF Joined
  <1> QED
    BY <1>2, <1>3, <1>5, <1>6, <1>8, <1>9

(* The borders one by one.                                                   *)
LEMMA BorderSender ==
    \A b, c, d, e, f, x :
        /\ b \in KeySeqs /\ c \in KeySeqs /\ d \in KeySeqs
        /\ e \in KeySeqs /\ f \in KeySeqs /\ x \in KeySeqs
        => Joined(<<>>, Cat(x, b), c, d, e, f) = Joined(x, b, c, d, e, f)
  BY Borders, SMTT(40) DEF KeySeqs
LEMMA BorderCompleted ==
    \A a, b, d, e, f, x :
        /\ a \in KeySeqs /\ b \in KeySeqs /\ d \in KeySeqs
        /\ e \in KeySeqs /\ f \in KeySeqs /\ x \in KeySeqs
        => Joined(a, b, x, d, e, f) = Joined(a, Cat(b, x), <<>>, d, e, f)
  BY Borders, SMTT(40) DEF KeySeqs
LEMMA BorderCalc ==
    \A a, b, d, e, f, x :
        /\ a \in KeySeqs /\ b \in KeySeqs /\ d \in KeySeqs
        /\ e \in KeySeqs /\ f \in KeySeqs /\ x \in KeySeqs
        => Joined(a, b, <<>>, Cat(x, d), e, f) = Joined(a, b, x, d, e, f)
  BY Borders, SMTT(40) DEF KeySeqs
LEMMA BorderTodo ==
    \A a, b, c, d, e, f, x :
        /\ a \in KeySeqs /\ b \in KeySeqs /\ c \in KeySeqs
        /\ d \in KeySeqs /\ e \in KeySeqs /\ f \in KeySeqs /\ x \in KeySeqs
        => Joined(a, b, c, d, Cat(x, e), f) = Joined(a, b, c, Cat(d, x), e, f)
  <1> TAKE a, b, c, d, e, f, x
  <1> HAVE /\ a \in KeySeqs /\ b \in KeySeqs /\ c \in KeySeqs
           /\ d \in KeySeqs /\ e \in KeySeqs /\ f \in KeySeqs /\ x \in KeySeqs
  <1>1. Cat(a, b) \in KeySeqs /\ Cat(Cat(a, b), c) \in KeySeqs
    BY CatFacts, SMTT(30) DEF KeySeqs
  <1>2. \A q \in KeySeqs : Cat(Cat(q, d), Cat(x, e)) = Cat(Cat(q, Cat(d, x)), e)
    BY CatFacts, SMTT(30) DEF KeySeqs
  <1>3. Cat(Cat(Cat(Cat(a, b), c), d), Cat(x, e)) = Cat(Cat(Cat(Cat(a, b), c), Cat(d, x)), e)
    BY <1>1, <1>2, Zenon
  <1> QED
    BY <1>3, Zenon DEF Joined
LEMMA BorderBundle ==
    \A a, b, c, d, f, x :
        /\ a \in KeySeqs /\ b \in KeySeqs /\ c \in KeySeqs
        /\ d \in KeySeqs /\ f \in KeySeqs /\ x \in KeySeqs
        => Joined(a, b, c, d, <<>>, Cat(x, f)) = Joined(a, b, c, d, x, f)
  BY Borders, SMTT(40) DEF KeySeqs

LEMMA BorderQueue ==
    \A a, b, c, d, e, f, x :
        /\ a \in KeySeqs /\ b \in KeySeqs /\ c \in KeySeqs
        /\ d \in KeySeqs /\ e \in KeySeqs /\ f \in KeySeqs /\ x \in KeySeqs
        => Joined(a, b, c, d, e, Cat(f, x)) = Cat(Joined(a, b, c, d, e, f), x)
  BY Borders, SMTT(40) DEF KeySeqs
LEMMA BorderFront ==
    \A b, c, d, e, f, x :
        /\ b \in KeySeqs /\ c \in KeySeqs /\ d \in KeySeqs
        /\ e \in KeySeqs /\ f \in KeySeqs /\ x \in KeySeqs
        => /\ Joined(x, b, c, d, e, f) = Cat(x, Joined(<<>>, b, c, d, e, f))
           /\ Joined(<<>>, b, c, d, e, f) \in KeySeqs
  <1> TAKE b, c, d, e, f, x
  <1> HAVE /\ b \in KeySeqs /\ c \in KeySeqs /\ d \in KeySeqs
           /\ e \in KeySeqs /\ f \in KeySeqs /\ x \in KeySeqs
  <1>1. \A y, z \in KeySeqs : Cat(x, y) \in KeySeqs /\ Cat(Cat(x, y), z) = Cat(x, Cat(y, z))
    BY CatFacts, SMTT(30) DEF KeySeqs
  <1>2. Cat(<<>>, b) = b
    BY CatFacts, SMTT(30) DEF KeySeqs
  <1>3. /\ Cat(b, c) \in KeySeqs /\ Cat(Cat(b, c), d) \in KeySeqs
        /\ Cat(Cat(Cat(b, c), d), e) \in KeySeqs
    BY CatFacts, Zenon DEF KeySeqs
  <1>4. Cat(Cat(x, b), c) = Cat(x, Cat(b, c))
    BY <1>1
  <1>5. Cat(Cat(x, Cat(b, c)), d) = Cat(x, Cat(Cat(b, c), d))
    BY <1>1, <1>3, Zenon
  <1>6. Cat(Cat(x, Cat(Cat(b, c), d)), e) = Cat(x, Cat(Cat(Cat(b, c), d), e))
    BY <1>1, <1>3, Zenon
  <1>7. Cat(Cat(x, Cat(Cat(Cat(b, c), d), e)), f) = Cat(x, Cat(Cat(Cat(Cat(b, c), d), e), f))
    BY <1>1, <1>3, Zenon
  <1>8. Joined(<<>>, b, c, d, e, f) \in KeySeqs
    <2>1. Cat(Cat(Cat(Cat(b, c), d), e), f) \in KeySeqs
      BY <1>3, CatFacts, Zenon DEF KeySeqs
    <2> QED
      BY <1>2, <2>1, Zenon DEF Joined
  <1> QED
    BY <1>2, <1>4, <1>5, <1>6, <1>7, <1>8, Zenon DEF Joined

LEMMA OwedKept ==
    UNCHANGED <<send_unit, completed_work, workunit, todo_work, bundle, bundle_queue>>
    => Owed' = Owed
  BY DEF Owed, InPipeline, Held, Key

(* Popping the queue of bundles takes the first bundle's units.              *)
LEMMA BundledPopped ==
    ASSUME Inv, Inv', bundle_queue # <<>>, bundle_queue' = Tail(bundle_queue)
    PROVE  FlattenSeq(Bundled) = ToKick(Head(bundle_queue), 0) \o FlattenSeq(Bundled)'
  <1>1. /\ Bundled \in Seq(Seq(KeySet)) /\ Len(Bundled) = Len(bundle_queue)
        /\ Bundled = [i \in 1..Len(bundle_queue) |-> ToKick(bundle_queue[i], 0)]
    BY BundledType, LenProperties DEF Bundled, Inv, TypeOK
  <1>2. /\ Len(bundle_queue) \in Nat \ {0}
        /\ Len(bundle_queue') = Len(bundle_queue) - 1
        /\ \A i \in 1..Len(bundle_queue') : bundle_queue'[i] = bundle_queue[i + 1]
        /\ Head(bundle_queue) = bundle_queue[1]
        /\ Head(bundle_queue) \in Bundles
        /\ DOMAIN bundle_queue' = 1..Len(bundle_queue')
    BY HeadTailProperties, LenProperties, EmptySeq DEF Inv, TypeOK
  <1>3. Bundled' = [i \in 1..Len(bundle_queue') |-> ToKick(bundle_queue'[i], 0)]
    BY <1>2 DEF Bundled
  <1>4. Bundled' \in Seq(Seq(KeySet)) /\ Len(Bundled') = Len(bundle_queue')
    BY BundledTypeNext DEF BundledTyped
  <1>5. ToKick(Head(bundle_queue), 0) \in Seq(KeySet)
    <2>1. Head(bundle_queue).id \in BundleIds /\ Head(bundle_queue).idcount \in Nat
      BY <1>2, WorkerAssumption DEF Bundles, Inv, TypeOK
    <2> QED
      BY <2>1, ToKickType
  <1> DEFINE tt == Bundled'
             ss == Bundled
             h  == ToKick(Head(bundle_queue), 0)
  <1>6. IsCons(ss, h, tt)
    <2>1. Len(ss) = Len(tt) + 1
      BY <1>1, <1>2, <1>4
    <2>2. ss[1] = h
      BY <1>1, <1>2
    <2>3. \A i \in 1..Len(tt) : tt[i] = ss[i + 1]
      <3>1. ASSUME NEW i \in 1..Len(bundle_queue') PROVE Bundled'[i] = Bundled[i + 1]
        <4>1. i + 1 \in 1..Len(bundle_queue)
          BY <1>2
        <4>2. Bundled'[i] = ToKick(bundle_queue'[i], 0)
          BY <1>3
        <4>3. Bundled[i + 1] = ToKick(bundle_queue[i + 1], 0)
          BY <1>1, <4>1
        <4> QED
          BY <1>2, <4>2, <4>3
      <3> QED
        BY <1>4, <3>1
    <2> QED
      BY <2>1, <2>2, <2>3 DEF IsCons
  <1>7. tt \in Seq(Seq(KeySet)) /\ ss \in Seq(Seq(KeySet)) /\ h \in Seq(KeySet)
    BY <1>1, <1>4, <1>5
  <1>8. FlattenSeq(ss) = h \o FlattenSeq(tt)
    <2> HIDE DEF ss, h, tt
    <2> QED
      BY <1>6, <1>7, FlattenCons
  <1> QED
    BY <1>8

LEMMA JoinedEmpty ==
    ASSUME NEW S, NEW b \in Seq(S), NEW c \in Seq(S), NEW d \in Seq(S),
           NEW e \in Seq(S), NEW f \in Seq(S), Joined(<<>>, b, c, d, e, f) = <<>>
    PROVE  b = <<>> /\ c = <<>> /\ d = <<>>
  <1>1. \A s, t \in Seq(S) : Cat(s, t) = <<>> => s = <<>> /\ t = <<>>
    BY ConcatEqualIffEmpty DEF Cat
  <1>2. /\ Cat(<<>>, b) = b /\ Cat(b, c) \in Seq(S) /\ Cat(Cat(b, c), d) \in Seq(S)
        /\ Cat(Cat(Cat(b, c), d), e) \in Seq(S)
    BY CatFacts, Zenon
  <1>3. Cat(Cat(Cat(Cat(b, c), d), e), f) = <<>>
    BY <1>2, Zenon DEF Joined
  <1>4. Cat(Cat(Cat(b, c), d), e) = <<>>
    BY <1>1, <1>2, <1>3, Zenon
  <1>5. Cat(Cat(b, c), d) = <<>>
    BY <1>1, <1>2, <1>4, Zenon
  <1>6. Cat(b, c) = <<>> /\ d = <<>>
    BY <1>1, <1>2, <1>5, Zenon
  <1> QED
    BY <1>1, <1>6, Zenon

(* Nothing is owed but the unit in the sender's hand: it is flagged.         *)
LEMMA LastOwedFlagged ==
    ASSUME Inv, FlagInv, connected, send_unit # NoUnit,
           Joined(<<>>, Keys(completed_work), Keys(Held(workunit)), Keys(todo_work),
                  ToKick(bundle, bundle.index), FlattenSeq(Bundled)) = <<>>
    PROVE  send_unit.is_last
  <1>1. /\ completed_work \in Seq(Units) /\ todo_work \in Seq(Units)
        /\ Held(workunit) \in Seq(Units)
    BY EmptySeq DEF Inv, TypeOK, Held
  <1>2. /\ Keys(completed_work) = <<>> /\ Keys(Held(workunit)) = <<>>
        /\ Keys(todo_work) = <<>>
    BY OwedJoined, JoinedEmpty
    DEF OwedIs, Parts, InSender, InCompleted, InCalc, InTodo, InBundle, InQueue
  <1>3. \A s \in Seq(Units) : Keys(s) = <<>> => s = <<>>
    BY KeysType, EmptySeq
  <1>4. completed_work = <<>> /\ Held(workunit) = <<>> /\ todo_work = <<>>
    BY <1>1, <1>2, <1>3
  <1>5. workunit = NoUnit
    <2>1. \A u : <<u>> # <<>>
      OBVIOUS
    <2> QED
      BY <1>4, <2>1 DEF Held
  <1>6. pc["calc"] \notin {"work", "post_ready", "enqueue"}
    BY <1>5 DEF Inv, NeverPopsEmpty
  <1> QED
    BY <1>4, <1>6 DEF FlagInv, Idle, LastDone

(* The unit that is handed on is the same unit, flagged or not.              *)
LEMMA PopsFull ==
    ASSUME Inv
    PROVE  /\ pc["sender"] = "pop" => Len(completed_work) > 0
           /\ pc["calc"] = "pop" => Len(todo_work) > 0
           /\ pc["debundle"] = "pop" => Len(bundle_queue) > 0
  <1>1. pc["sender"] = "pop" => Len(completed_work) > 0
    <2>1. sender_thread_sem \in Nat
      BY DEF Inv, TypeOK
    <2>2. Len(completed_work) = sender_thread_sem + One(pc["sender"] = "pop") + One(pc["calc"] = "post_sender")
      BY DEF Inv, CompletedTokens
    <2> QED
      BY <2>1, <2>2 DEF One
  <1>2. pc["calc"] = "pop" => Len(todo_work) > 0
    <2>1. calc_thread_sem \in Nat
      BY DEF Inv, TypeOK
    <2>2. Len(todo_work) = calc_thread_sem + One(pc["calc"] = "pop") + One(pc["debundle"] = "post_calc")
      BY DEF Inv, TodoTokens
    <2> QED
      BY <2>1, <2>2 DEF One
  <1>3. pc["debundle"] = "pop" => Len(bundle_queue) > 0
    <2>1. debundle_sem \in Nat
      BY DEF Inv, TypeOK
    <2>2. Len(bundle_queue) = debundle_sem + One(pc["debundle"] = "pop") + One(pc["event"] = "post_debundle")
      BY DEF Inv, BundleTokens
    <2> QED
      BY <2>1, <2>2 DEF One
  <1> QED
    BY <1>1, <1>2, <1>3

LEMMA OwedMoves ==
    ASSUME Inv, Inv', EmptyHands,
           \/ DebundlePop \/ DebundleKick \/ DebundleSpent
           \/ CalcPop \/ CalcWork \/ CalcEnqueue \/ SenderPop
    PROVE  Owed' = Owed
  <1>1. /\ InSender \in KeySeqs /\ InCompleted \in KeySeqs /\ InCalc \in KeySeqs
        /\ InTodo \in KeySeqs /\ InBundle \in KeySeqs /\ InQueue \in KeySeqs
    BY OwedJoined DEF OwedIs, Parts, KeySeqs
  <1>o. /\ Owed = Joined(InSender, InCompleted, InCalc, InTodo, InBundle, InQueue)
        /\ Owed' = Joined(InSender', InCompleted', InCalc', InTodo', InBundle', InQueue')
    BY OwedJoined, OwedJoinedNext DEF OwedIs
  <1>2. /\ InSender' \in KeySeqs /\ InCompleted' \in KeySeqs /\ InCalc' \in KeySeqs
        /\ InTodo' \in KeySeqs /\ InBundle' \in KeySeqs /\ InQueue' \in KeySeqs
    BY OwedJoinedNext DEF OwedIs, Parts, KeySeqs
  <1>t. /\ completed_work \in Seq(Units) /\ todo_work \in Seq(Units)
        /\ bundle_queue \in Seq(Bundles)
        /\ workunit \in Units \cup {NoUnit} /\ send_unit \in Units \cup {NoUnit}
        /\ bundle \in [id: BundleIds, idcount: unit_counts, index: Nat] \cup {NoBundle}
        /\ pc \in [Threads -> Labels]
    BY DEF Inv, TypeOK
  <1>n. /\ Held(NoUnit) = <<>> /\ \A u : u # NoUnit => Held(u) = <<u>>
        /\ Keys(<<>>) = <<>> /\ \A u : Keys(<<u>>) = <<Key(u)>>
    BY KeysOne DEF Held
  <1>k. \A u \in Units : Key(u) \in KeySet
    BY DEF Key, Units, KeySet
  <1>p. \A s \in Seq(Units) : s # <<>> =>
            /\ Popped(s, NoUnit) \in Units /\ Popped(s, NoUnit) # NoUnit
            /\ Keys(s) = Cat(<<Key(Popped(s, NoUnit))>>, Keys(Rest(s)))
    <2> SUFFICES ASSUME NEW s \in Seq(Units), s # <<>>
                 PROVE  /\ Popped(s, NoUnit) \in Units /\ Popped(s, NoUnit) # NoUnit
                        /\ Keys(s) = Cat(<<Key(Popped(s, NoUnit))>>, Keys(Rest(s)))
      OBVIOUS
    <2>1. Popped(s, NoUnit) = Head(s) /\ Rest(s) = Tail(s)
      BY DEF Popped, Rest
    <2>2. Head(s) \in Units /\ Keys(s) = <<Key(Head(s))>> \o Keys(Tail(s))
      BY KeysPopped
    <2> QED
      BY <2>1, <2>2, NullFacts DEF Cat
  <1>3. CASE SenderPop
    <2>1. /\ send_unit = NoUnit /\ completed_work # <<>>
      <3>1. send_unit = NoUnit
        BY <1>3 DEF SenderPop, At, EmptyHands
      <3>2. Len(completed_work) > 0
        BY <1>3, PopsFull DEF SenderPop, At
      <3> QED
        BY <3>1, <3>2, EmptySeq
    <2>2. /\ send_unit' = Popped(completed_work, NoUnit) /\ completed_work' = Rest(completed_work)
          /\ UNCHANGED <<workunit, todo_work, bundle, bundle_queue>>
      BY <1>3 DEF SenderPop, links, calc, debundler
    <2> DEFINE x == <<Key(send_unit')>>
    <2>3. x \in Seq(KeySet) /\ InSender = <<>> /\ InSender' = x /\ InCompleted = Cat(x, InCompleted')
      BY <1>t, <1>n, <1>k, <1>p, <2>1, <2>2 DEF InSender, InCompleted
    <2>4. InCalc' = InCalc /\ InTodo' = InTodo /\ InBundle' = InBundle /\ InQueue' = InQueue
      BY <2>2 DEF InCalc, InTodo, InBundle, InQueue, Bundled
    <2>x. x \in KeySeqs
      BY <2>3 DEF KeySeqs
    <2> HIDE DEF x
    <2>5. Joined(<<>>, Cat(x, InCompleted'), InCalc, InTodo, InBundle, InQueue)
          = Joined(x, InCompleted', InCalc, InTodo, InBundle, InQueue)
      BY <1>1, <1>2, <2>x, BorderSender
    <2> QED
      BY <1>o, <1>1, <1>2, <2>3, <2>4, <2>5
  <1>4. CASE CalcEnqueue
    <2>1. workunit \in Units /\ workunit # NoUnit
      BY <1>4, <1>t DEF CalcEnqueue, At, Inv, NeverPopsEmpty
    <2>2. /\ completed_work' = Append(completed_work, workunit) /\ workunit' = NoUnit
          /\ UNCHANGED <<send_unit, todo_work, bundle, bundle_queue>>
      BY <1>4 DEF CalcEnqueue, links, debundler
    <2> DEFINE x == <<Key(workunit)>>
    <2>3. x \in Seq(KeySet) /\ InCalc = x /\ InCalc' = <<>> /\ InCompleted' = Cat(InCompleted, x)
      BY <1>t, <1>n, <1>k, <2>1, <2>2, KeysAppend DEF InCompleted, InCalc, Cat
    <2>4. InSender' = InSender /\ InTodo' = InTodo /\ InBundle' = InBundle /\ InQueue' = InQueue
      BY <2>2 DEF InSender, InTodo, InBundle, InQueue, Bundled
    <2>x. x \in KeySeqs
      BY <2>3 DEF KeySeqs
    <2> HIDE DEF x
    <2>5. Joined(InSender, InCompleted, x, InTodo, InBundle, InQueue)
          = Joined(InSender, Cat(InCompleted, x), <<>>, InTodo, InBundle, InQueue)
      BY <1>1, <1>2, <2>x, BorderCompleted
    <2> QED
      BY <1>o, <1>1, <1>2, <2>3, <2>4, <2>5
  <1>5. CASE CalcPop
    <2>1. workunit = NoUnit /\ todo_work # <<>>
      <3>1. workunit = NoUnit
        BY <1>5 DEF CalcPop, At, EmptyHands
      <3>2. Len(todo_work) > 0
        BY <1>5, PopsFull DEF CalcPop, At
      <3> QED
        BY <3>1, <3>2, EmptySeq
    <2>2. /\ workunit' = Popped(todo_work, NoUnit) /\ todo_work' = Rest(todo_work)
          /\ UNCHANGED <<send_unit, completed_work, bundle, bundle_queue>>
      BY <1>5 DEF CalcPop, links, debundler, sender
    <2> DEFINE x == <<Key(workunit')>>
    <2>3. x \in Seq(KeySet) /\ InCalc = <<>> /\ InCalc' = x /\ InTodo = Cat(x, InTodo')
      BY <1>t, <1>n, <1>k, <1>p, <2>1, <2>2 DEF InCalc, InTodo
    <2>4. InSender' = InSender /\ InCompleted' = InCompleted /\ InBundle' = InBundle /\ InQueue' = InQueue
      BY <2>2 DEF InSender, InCompleted, InBundle, InQueue, Bundled
    <2>x. x \in KeySeqs
      BY <2>3 DEF KeySeqs
    <2> HIDE DEF x
    <2>5. Joined(InSender, InCompleted, <<>>, Cat(x, InTodo'), InBundle, InQueue)
          = Joined(InSender, InCompleted, x, InTodo', InBundle, InQueue)
      BY <1>1, <1>2, <2>x, BorderCalc
    <2> QED
      BY <1>o, <1>1, <1>2, <2>3, <2>4, <2>5
  <1>6. CASE CalcWork
    <2>1. /\ UNCHANGED <<send_unit, completed_work, todo_work, bundle, bundle_queue>>
          /\ workunit # NoUnit
          /\ \/ workunit' = workunit
             \/ workunit' = [workunit EXCEPT !.is_last = TRUE]
      BY <1>6 DEF CalcWork, links, debundler, sender
    <2>2. workunit \in Units /\ workunit' # NoUnit /\ Key(workunit') = Key(workunit)
      <3>1. workunit \in Units
        BY <1>t, <2>1
      <3>2. /\ workunit' \in Units
            /\ workunit'.id = workunit.id /\ workunit'.index = workunit.index
        BY <2>1, <3>1 DEF Units
      <3> QED
        BY <3>1, <3>2, NullFacts DEF Key
    <2>3. InCalc' = InCalc
      BY <1>n, <2>1, <2>2 DEF InCalc
    <2>4. InSender' = InSender /\ InCompleted' = InCompleted /\ InTodo' = InTodo /\ InBundle' = InBundle /\ InQueue' = InQueue
      BY <2>1 DEF InSender, InCompleted, InTodo, InBundle, InQueue, Bundled
    <2> QED
      BY <1>o, <1>1, <1>2, <2>3, <2>4
  <1>7. CASE DebundleKick
    <2>1. /\ bundle \in [id: BundleIds, idcount: unit_counts, index: Nat]
          /\ bundle.index < bundle.idcount
          /\ bundle' = [bundle EXCEPT !.index = @ + 1]
          /\ todo_work' = Append(todo_work, [id |-> bundle.id, index |-> bundle.index,
                                             is_last |-> FALSE])
          /\ UNCHANGED <<send_unit, completed_work, workunit, bundle_queue>>
      BY <1>7, <1>t DEF DebundleKick, links, sender, NoBundle
    <2>2. /\ bundle.id \in BundleIds /\ bundle.idcount \in Nat /\ bundle.index \in Nat
          /\ bundle'.id = bundle.id /\ bundle'.idcount = bundle.idcount
          /\ bundle'.index = bundle.index + 1
      BY <2>1, WorkerAssumption DEF Inv, TypeOK
    <2> DEFINE k == [id |-> bundle.id, index |-> bundle.index]
               u == [id |-> bundle.id, index |-> bundle.index, is_last |-> FALSE]
               x == <<k>>
    <2>3. u \in Units /\ Key(u) = k /\ k \in KeySet
      BY <2>2 DEF Units, Key, KeySet
    <2>4. InTodo' = Cat(InTodo, x) /\ x \in Seq(KeySet)
      <3>1. todo_work' = Append(todo_work, u)
        BY <2>1
      <3> HIDE DEF u, k
      <3> QED
        BY <1>t, <2>3, <3>1, KeysAppend DEF InTodo, Cat
    <2>5. InBundle = Cat(x, InBundle')
      <3>1. ASSUME NEW b, NEW e, b.id \in BundleIds, b.idcount \in Nat, b.index \in Nat,
                   b.index < b.idcount, e.id = b.id, e.idcount = b.idcount
            PROVE  ToKick(b, b.index)
                   = <<[id |-> b.id, index |-> b.index]>> \o ToKick(e, b.index + 1)
        BY <3>1, ToKickNext
      <3>2. ToKick(bundle, bundle.index)
            = <<[id |-> bundle.id, index |-> bundle.index]>> \o ToKick(bundle', bundle.index + 1)
        BY <2>1, <2>2, <3>1
      <3> QED
        BY <2>2, <3>2 DEF InBundle, Cat
    <2>6. InSender' = InSender /\ InCompleted' = InCompleted /\ InCalc' = InCalc /\ InQueue' = InQueue
      BY <2>1 DEF InSender, InCompleted, InCalc, InQueue, Bundled
    <2>x. x \in KeySeqs
      BY <2>4 DEF KeySeqs
    <2> HIDE DEF x, k
    <2>7. Joined(InSender, InCompleted, InCalc, InTodo, Cat(x, InBundle'), InQueue)
          = Joined(InSender, InCompleted, InCalc, Cat(InTodo, x), InBundle', InQueue)
      BY <1>1, <1>2, <2>x, BorderTodo
    <2> QED
      BY <1>o, <1>1, <1>2, <2>4, <2>5, <2>6, <2>7
  <1>8. CASE DebundlePop
    <2>1. bundle = NoBundle /\ bundle_queue # <<>>
      <3>1. bundle = NoBundle
        BY <1>8 DEF DebundlePop, At, EmptyHands
      <3>2. Len(bundle_queue) > 0
        BY <1>8, PopsFull DEF DebundlePop, At
      <3> QED
        BY <3>1, <3>2, EmptySeq
    <2>2. /\ bundle_queue' = Tail(bundle_queue)
          /\ bundle' = [id |-> Head(bundle_queue).id, idcount |-> Head(bundle_queue).idcount,
                        index |-> 0]
          /\ UNCHANGED <<send_unit, completed_work, workunit, todo_work>>
      BY <1>8, <2>1 DEF DebundlePop, links, calc, sender, Popped, Rest
    <2>3. InBundle = <<>>
      <3>1. /\ NoBundle.index \in Nat /\ NoBundle.idcount \in Nat
            /\ NoBundle.index >= NoBundle.idcount
        BY DEF NoBundle
      <3> QED
        BY <2>1, <3>1, ToKickNone DEF InBundle
    <2>4. InBundle' = ToKick(Head(bundle_queue), 0)
      BY <2>2 DEF InBundle, ToKick
    <2>5. InQueue = Cat(InBundle', InQueue')
      BY <2>1, <2>2, <2>4, BundledPopped DEF InQueue, Cat
    <2>6. InSender' = InSender /\ InCompleted' = InCompleted /\ InCalc' = InCalc /\ InTodo' = InTodo
      BY <2>2 DEF InSender, InCompleted, InCalc, InTodo
    <2>7. Joined(InSender, InCompleted, InCalc, InTodo, <<>>, Cat(InBundle', InQueue'))
          = Joined(InSender, InCompleted, InCalc, InTodo, InBundle', InQueue')
      BY <1>1, <1>2, BorderBundle
    <2> QED
      BY <1>o, <1>1, <1>2, <2>3, <2>5, <2>6, <2>7
  <1>9. CASE DebundleSpent
    <2>1. /\ bundle \in [id: BundleIds, idcount: unit_counts, index: Nat]
          /\ bundle.index >= bundle.idcount /\ bundle' = NoBundle
          /\ UNCHANGED <<send_unit, completed_work, workunit, todo_work, bundle_queue>>
      BY <1>9, <1>t DEF DebundleSpent, links, calc, sender, NoBundle
    <2>2. bundle.idcount \in Nat /\ bundle.index \in Nat
      BY <2>1, WorkerAssumption DEF Inv, TypeOK
    <2>3. InBundle = <<>>
      BY <2>1, <2>2, ToKickNone DEF InBundle
    <2>4. InBundle' = <<>>
      <3>1. /\ NoBundle.index \in Nat /\ NoBundle.idcount \in Nat
            /\ NoBundle.index >= NoBundle.idcount
        BY DEF NoBundle
      <3> QED
        BY <2>1, <3>1, ToKickNone DEF InBundle
    <2>5. InSender' = InSender /\ InCompleted' = InCompleted /\ InCalc' = InCalc /\ InTodo' = InTodo /\ InQueue' = InQueue
      BY <2>1 DEF InSender, InCompleted, InCalc, InTodo, InQueue, Bundled
    <2> QED
      BY <1>o, <1>1, <1>2, <2>3, <2>4, <2>5
  <1> QED
    BY <1>3, <1>4, <1>5, <1>6, <1>7, <1>8, <1>9

(* Every step of the worker is a step of the service, or none.               *)
LEMMA ServiceStep ==
    Inv /\ Inv' /\ FlagInv /\ EmptyHands /\ [Next]_vars
    => [Service!Next]_(Service!serviceVars)
  <1> SUFFICES ASSUME Inv, Inv', FlagInv, EmptyHands, [Next]_vars
               PROVE  [Service!Next]_(Service!serviceVars)
    OBVIOUS
  <1> DEFINE Still == Owed' = Owed /\ results' = results /\ connected' = connected
  <1>s. Still => [Service!Next]_(Service!serviceVars)
    BY DEF Service!serviceVars
  <1> HIDE DEF Still
  <1>1. CASE \/ DispatcherSendsSettings \/ DispatcherSendsBundle
             \/ EventSettings \/ EventPostDebundle \/ EventClosed \/ EventPostExit \/ MainExit
             \/ DebundleWaitReady \/ DebundleWaitBundle \/ DebundlePostCalc
             \/ CalcWait \/ CalcPostReady \/ CalcPostSender \/ SenderWait \/ UNCHANGED vars
    <2>1. UNCHANGED <<send_unit, completed_work, workunit, todo_work, bundle, bundle_queue>>
          /\ UNCHANGED <<results, connected>>
      BY <1>1 DEF DispatcherSendsSettings, DispatcherSendsBundle, EventSettings,
                  EventPostDebundle, EventClosed, EventPostExit, MainExit, DebundleWaitReady,
                  DebundleWaitBundle, DebundlePostCalc, CalcWait, CalcPostReady, CalcPostSender,
                  SenderWait, vars, links, process, debundler, calc, sender
    <2> QED
      BY <2>1, <1>s, OwedKept DEF Still
  <1>2. CASE \/ DebundlePop \/ DebundleKick \/ DebundleSpent
             \/ CalcPop \/ CalcWork \/ CalcEnqueue \/ SenderPop
    <2>1. UNCHANGED <<results, connected>>
      BY <1>2 DEF DebundlePop, DebundleKick, DebundleSpent, CalcPop, CalcWork, CalcEnqueue,
                  SenderPop, links
    <2>2. Owed' = Owed
      BY <1>2, OwedMoves
    <2> QED
      BY <2>1, <2>2, <1>s DEF Still
  <1>3. CASE DispatcherCloses
    <2>1. /\ UNCHANGED <<send_unit, completed_work, workunit, todo_work, bundle, bundle_queue>>
          /\ results' = results /\ connected /\ connected' = FALSE
      BY <1>3 DEF DispatcherCloses, debundler, calc, sender
    <2>2. Service!Disconnect
      BY <2>1, OwedKept DEF Service!Disconnect
    <2> QED
      BY <2>2 DEF Service!Next
  <1>4. CASE EventBundle
    <2> DEFINE h == Head(inbox).bundle
               u == ToKick(h, 0)
    <2>1. /\ inbox \in Seq(Messages) /\ inbox # <<>> /\ Head(inbox).type = "WORK_UNIT"
          /\ bundle_queue \in Seq(Bundles)
          /\ bundle_queue' = Append(bundle_queue, h)
          /\ UNCHANGED <<send_unit, completed_work, workunit, todo_work, bundle>>
          /\ UNCHANGED <<results, connected>>
      BY <1>4 DEF EventBundle, links, calc, sender, Inv, TypeOK
    <2>2. h \in Bundles
      <3>1. Head(inbox) \in Messages
        BY <2>1, HeadTailProperties
      <3> QED
        BY <2>1, <3>1 DEF Messages
    <2>3. /\ h \in [id: 1..MaxBundles, idcount: UnitCounts]
          /\ h.id \in BundleIds /\ h.idcount \in Nat
      BY <2>2, WorkerAssumption DEF Bundles, BundleIds, Inv, TypeOK
    <2>4. u \in Seq(KeySet) /\ u = Service!UnitsOf(h)
      <3>1. u \in Seq(KeySet)
        BY <2>3, ToKickType
      <3>2. h.idcount - 0 = h.idcount /\ \A i \in 1..h.idcount : 0 + i - 1 = i - 1
        BY <2>3
      <3> HIDE DEF h
      <3>3. u = Service!UnitsOf(h)
        BY <3>2 DEF ToKick, Service!UnitsOf
      <3> QED
        BY <3>1, <3>3
    <2> HIDE DEF h
    <2>5. Bundled' = Append(Bundled, u)
      <3>1. Len(bundle_queue) \in Nat
        BY <2>1, LenProperties
      <3>2. /\ Len(bundle_queue') = Len(bundle_queue) + 1
            /\ \A i \in 1..Len(bundle_queue) : bundle_queue'[i] = bundle_queue[i]
            /\ bundle_queue'[Len(bundle_queue) + 1] = h
            /\ DOMAIN bundle_queue' = 1..(Len(bundle_queue) + 1)
            /\ DOMAIN bundle_queue = 1..Len(bundle_queue)
        BY <2>1, <2>2, AppendProperties, LenProperties
      <3>3. /\ Bundled \in Seq(Seq(KeySet)) /\ Len(Bundled) = Len(bundle_queue)
            /\ Bundled' \in Seq(Seq(KeySet)) /\ Len(Bundled') = Len(bundle_queue')
        BY BundledTypeHere, BundledTypeNext DEF BundledTyped
      <3>4. /\ Append(Bundled, u) \in Seq(Seq(KeySet))
            /\ Len(Append(Bundled, u)) = Len(bundle_queue) + 1
            /\ \A i \in 1..Len(bundle_queue) : Append(Bundled, u)[i] = Bundled[i]
            /\ Append(Bundled, u)[Len(bundle_queue) + 1] = u
        BY <2>4, <3>3, AppendProperties
      <3>5. \A i \in 1..Len(bundle_queue) : Bundled[i] = ToKick(bundle_queue[i], 0)
        BY <3>2 DEF Bundled
      <3>6. \A i \in 1..(Len(bundle_queue) + 1) : Bundled'[i] = ToKick(bundle_queue'[i], 0)
        BY <3>2 DEF Bundled
      <3>7. ASSUME NEW i \in 1..(Len(bundle_queue) + 1)
            PROVE  Bundled'[i] = Append(Bundled, u)[i]
        <4>1. CASE i \in 1..Len(bundle_queue)
          BY <3>2, <3>4, <3>5, <3>6, <4>1
        <4>2. CASE i = Len(bundle_queue) + 1
          BY <3>2, <3>4, <3>6, <4>2
        <4>3. i \in 1..Len(bundle_queue) \/ i = Len(bundle_queue) + 1
          BY <3>1
        <4> QED
          BY <4>1, <4>2, <4>3
      <3> HIDE DEF u
      <3> QED
        BY <3>2, <3>3, <3>4, <3>7, SeqEqual
    <2>6. InQueue' = Cat(InQueue, u)
      <3>1. Bundled \in Seq(Seq(KeySet))
        BY BundledTypeHere DEF BundledTyped
      <3> HIDE DEF u
      <3>2. FlattenSeq(Append(Bundled, u)) = FlattenSeq(Bundled) \o u
        BY <2>4, <3>1, FlattenAppend
      <3> QED
        BY <2>5, <3>2 DEF InQueue, Cat
    <2>7. /\ InSender' = InSender /\ InCompleted' = InCompleted /\ InCalc' = InCalc
          /\ InTodo' = InTodo /\ InBundle' = InBundle
      BY <2>1 DEF InSender, InCompleted, InCalc, InTodo, InBundle
    <2>8. Owed' = Owed \o u
      <3>1. /\ Owed' = Joined(InSender', InCompleted', InCalc', InTodo', InBundle', InQueue')
            /\ Owed = Joined(InSender, InCompleted, InCalc, InTodo, InBundle, InQueue)
            /\ Parts(InSender, InCompleted, InCalc, InTodo, InBundle, InQueue)
        BY OwedJoined, OwedJoinedNext DEF OwedIs
      <3> HIDE DEF u
      <3>2. Joined(InSender, InCompleted, InCalc, InTodo, InBundle, Cat(InQueue, u))
            = Cat(Joined(InSender, InCompleted, InCalc, InTodo, InBundle, InQueue), u)
        BY <2>4, <3>1, BorderQueue DEF Parts, KeySeqs
      <3> QED
        BY <2>6, <2>7, <3>1, <3>2 DEF Cat
    <2>9. Service!Receive
      BY <2>1, <2>3, <2>4, <2>8 DEF Service!Receive
    <2> QED
      BY <2>9 DEF Service!Next
  <1>5. CASE SenderSend \/ SenderSendClosed
    <2> DEFINE R == Joined(<<>>, InCompleted, InCalc, InTodo, InBundle, InQueue)
               k == Key(send_unit)
    <2>1. /\ send_unit # NoUnit /\ send_unit \in Units /\ send_unit' = NoUnit
          /\ UNCHANGED <<completed_work, workunit, todo_work, bundle, bundle_queue, connected>>
      BY <1>5 DEF SenderSend, SenderSendClosed, links, debundler, calc, Inv, TypeOK
    <2>2. InSender = <<k>> /\ k \in KeySet /\ InSender' = <<>>
      <3>1. Held(send_unit) = <<send_unit>> /\ Held(send_unit') = <<>>
        BY <2>1 DEF Held
      <3>2. k \in KeySet
        BY <2>1 DEF Key, Units, KeySet
      <3> QED
        BY <3>1, <3>2, KeysOne DEF InSender
    <2>3. /\ InCompleted' = InCompleted /\ InCalc' = InCalc
          /\ InTodo' = InTodo /\ InBundle' = InBundle /\ InQueue' = InQueue
      BY <2>1 DEF InCompleted, InCalc, InTodo, InBundle, InQueue, Bundled
    <2>4. /\ Owed' = Joined(InSender', InCompleted', InCalc', InTodo', InBundle', InQueue')
          /\ Owed = Joined(InSender, InCompleted, InCalc, InTodo, InBundle, InQueue)
          /\ Parts(InSender, InCompleted, InCalc, InTodo, InBundle, InQueue)
      BY OwedJoined, OwedJoinedNext DEF OwedIs
    <2>5. Owed' = R
      BY <2>2, <2>3, <2>4
    <2>6. Owed = <<k>> \o R /\ R \in Seq(KeySet)
      <3> HIDE DEF k
      <3>1. <<k>> \in Seq(KeySet) /\ <<>> \in Seq(KeySet)
        BY <2>2
      <3>2. /\ Joined(<<k>>, InCompleted, InCalc, InTodo, InBundle, InQueue)
               = Cat(<<k>>, Joined(<<>>, InCompleted, InCalc, InTodo, InBundle, InQueue))
            /\ Joined(<<>>, InCompleted, InCalc, InTodo, InBundle, InQueue) \in Seq(KeySet)
        BY <2>4, <3>1, BorderFront DEF Parts, KeySeqs
      <3> QED
        BY <2>2, <2>4, <3>2 DEF Cat
    <2> HIDE DEF R
    <2>7. Owed # <<>> /\ Head(Owed) = k /\ Tail(Owed) = R /\ Len(Owed) = 1 + Len(R)
      <3> HIDE DEF k
      <3> QED
        BY <2>2, <2>6, FrontFacts
    <2>8. CASE SenderSend
      <3>1. connected /\ results' = Append(results, send_unit)
        BY <2>8 DEF SenderSend
      <3>2. Len(Owed) = 1 => send_unit.is_last
        <4> SUFFICES ASSUME Len(Owed) = 1 PROVE send_unit.is_last
          OBVIOUS
        <4>1. R = <<>>
          BY <2>6, <2>7, EmptySeq
        <4> QED
          BY <2>1, <3>1, <4>1, LastOwedFlagged
             DEF R, InCompleted, InCalc, InTodo, InBundle, InQueue
      <3>3. /\ send_unit.is_last \in BOOLEAN
            /\ send_unit = [id |-> Head(Owed).id, index |-> Head(Owed).index,
                            is_last |-> send_unit.is_last]
        BY <2>1, <2>7 DEF Units, Key
      <3>4. Service!Answer
        BY <2>1, <2>5, <2>7, <3>1, <3>2, <3>3 DEF Service!Answer
      <3> QED
        BY <3>4 DEF Service!Next
    <2>9. CASE SenderSendClosed
      <3>1. ~connected /\ results' = results
        BY <2>9 DEF SenderSendClosed, links
      <3>2. Service!Lose
        BY <2>1, <2>5, <2>7, <3>1 DEF Service!Lose
      <3> QED
        BY <3>2 DEF Service!Next
    <2> QED
      BY <1>5, <2>8, <2>9
  <1> QED
    BY <1>1, <1>2, <1>3, <1>4, <1>5 DEF Next, Environment, Event, Debundle, Calc, Sender

LEMMA ServiceInit == Init => Service!Init /\ EmptyHands
  <1> SUFFICES ASSUME Init PROVE Service!Init /\ EmptyHands
    OBVIOUS
  <1>1. /\ send_unit = NoUnit /\ completed_work = <<>> /\ workunit = NoUnit /\ todo_work = <<>>
        /\ bundle = NoBundle /\ bundle_queue = <<>> /\ results = <<>> /\ connected = TRUE
    BY DEF Init
  <1>2. /\ Held(NoUnit) = <<>> /\ Keys(<<>>) = <<>>
    BY KeysOne DEF Held
  <1>3. InSender = <<>> /\ InCompleted = <<>> /\ InCalc = <<>> /\ InTodo = <<>>
    BY <1>1, <1>2 DEF InSender, InCompleted, InCalc, InTodo
  <1>4. InBundle = <<>>
    <2>1. /\ NoBundle.index \in Nat /\ NoBundle.idcount \in Nat
          /\ NoBundle.index >= NoBundle.idcount
      BY DEF NoBundle
    <2> QED
      BY <1>1, <2>1, ToKickNone DEF InBundle
  <1>5. InQueue = <<>>
    <2>1. Bundled = <<>>
      BY <1>1 DEF Bundled
    <2> QED
      BY <2>1, FlattenEmpty DEF InQueue
  <1>6. Joined(<<>>, <<>>, <<>>, <<>>, <<>>, <<>>) = <<>>
    <2>1. Cat(<<>>, <<>>) = <<>>
      BY CatFacts
    <2> QED
      BY <2>1, Zenon DEF Joined
  <1>7. Owed = <<>>
    BY <1>3, <1>4, <1>5, <1>6, InvInit, OwedJoined DEF OwedIs
  <1> QED
    BY <1>1, <1>7 DEF Service!Init, EmptyHands

LEMMA FlagInit == Init => FlagInv
  <1> SUFFICES ASSUME Init PROVE LastDone
    BY DEF FlagInv
  <1>1. pc["calc"] = "wait" /\ completed_work = <<>> /\ send_unit = NoUnit /\ results = <<>>
    BY DEF Init, Threads
  <1> QED
    BY <1>1 DEF LastDone

(* Through all interleavings of the worker's threads no unit is lost,        *)
(* repeated or overtaken between the socket and the socket, and the result  *)
(* that settles the last debt is flagged: the pipeline of queues and        *)
(* semaphores (queue.c, *_thread.c) does what WorkerService says.           *)
THEOREM PipelineImplementsService == Spec => ImplementsService
  <1> DEFINE All == Inv /\ FlagInv /\ EmptyHands
  <1>1. Init => All /\ Service!Init
    BY InvInit, FlagInit, ServiceInit
  <1>2. All /\ [Next]_vars => All'
    BY InvStep, FlagStep, EmptyHandsStep
  <1>3. All /\ All' /\ [Next]_vars => [Service!Next]_(Service!serviceVars)
    BY ServiceStep
  <1> HIDE DEF All
  <1> QED
    BY <1>1, <1>2, <1>3, PTL DEF Spec, ImplementsService, Service!Spec
===============================================================================
