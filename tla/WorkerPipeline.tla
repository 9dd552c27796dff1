---------------------------- MODULE WorkerPipeline ----------------------------
(***************************************************************************)
(* The worker process (src/networking/Worker).  Four threads hand work to   *)
(* each other through queues and counting semaphores:                       *)
(*                                                                          *)
(*    event_thread --bundle_queue--> debundle_thread --todo_work-->         *)
(*    calc_thread --completed_work--> sender_thread --> dispatcher          *)
(*                                                                          *)
(* Putting an item in a queue and posting the semaphore of that queue are   *)
(* two steps, as are waiting for the semaphore and popping.  A fifth        *)
(* semaphore, ready_for_bundle, is posted by the calc thread when it finds  *)
(* todo_work empty, the moment at which it also flags its unit is_last.     *)
(*                                                                          *)
(* A bundle is a number (its place in the order the dispatcher sent it) and *)
(* its count of work units; a unit is its bundle, its place in it and its   *)
(* flag.  Bodies, cells and forces are left out: no step looks at them.     *)
(***************************************************************************)
EXTENDS Integers, Sequences

CONSTANTS MaxBundles,   (* how many bundles the dispatcher may send          *)
          UnitCounts    (* the numbers of work units a bundle may hold       *)

ASSUME WorkerAssumption ==
    /\ MaxBundles \in Nat
    /\ UnitCounts \subseteq Nat

VARIABLES
    unit_counts,        \* the sizes the bundles of this simulation may have
    inbox,              \* messages on the socket, dispatcher to worker
    connected,          \* FALSE once the dispatcher has closed the socket
    sent_bundles,       \* bundles the dispatcher has sent so far
    active,             \* worker->active
    exit_sem, exited,   \* the exit semaphore; main() has returned
    bundle_queue, debundle_sem, ready_for_bundle,
    bundle,             \* debundle_thread's bundle, index the next unit to kick
    todo_work, calc_thread_sem,
    workunit,           \* calc_thread's workunit
    completed_work, sender_thread_sem,
    send_unit,          \* sender_thread's workunit
    results,            \* work units sent to the dispatcher, in order
    settings_applied,   \* SETTINGS_APPLIED replies sent to the dispatcher
    pc                  \* where each thread is

links     == <<unit_counts, inbox, connected, sent_bundles, results, settings_applied>>
process   == <<active, exit_sem, exited>>
debundler == <<bundle_queue, debundle_sem, ready_for_bundle, bundle>>
calc      == <<todo_work, calc_thread_sem, workunit>>
sender    == <<completed_work, sender_thread_sem, send_unit>>
vars      == <<links, process, debundler, calc, sender, pc>>

Threads == {"event", "debundle", "calc", "sender"}
Labels  == {"receive", "post_debundle", "post_exit", "gone",
            "wait_ready", "wait_bundle", "pop", "kick", "post_calc",
            "wait", "work", "post_ready", "enqueue", "post_sender", "send"}

BundleIds == 1..MaxBundles
Bundles   == [id: BundleIds, idcount: unit_counts]
Units     == [id: BundleIds, index: Nat, is_last: BOOLEAN]
NoBundle  == [id |-> 0, idcount |-> 0, index |-> 0]
NoUnit    == [id |-> 0, index |-> 0, is_last |-> FALSE]     \* a NULL pointer
Messages  == [type: {"WORKER_SETTINGS"}] \cup [type: {"WORK_UNIT"}, bundle: Bundles]
-------------------------------------------------------------------------------
(* Mutant of Init: ready_for_bundle opens with a value of 2.                *)
InitTwoReady ==
    /\ unit_counts \in (SUBSET UnitCounts) \ {{}}
    /\ inbox = <<>> /\ connected = TRUE /\ sent_bundles = 0
    /\ active = TRUE /\ exit_sem = 0 /\ exited = FALSE
    /\ bundle_queue = <<>> /\ debundle_sem = 0 /\ ready_for_bundle = 2
    /\ bundle = NoBundle
    /\ todo_work = <<>> /\ calc_thread_sem = 0 /\ workunit = NoUnit
    /\ completed_work = <<>> /\ sender_thread_sem = 0 /\ send_unit = NoUnit
    /\ results = <<>> /\ settings_applied = 0
    /\ pc = [t \in Threads |-> IF t = "event" THEN "receive"
                              ELSE IF t = "debundle" THEN "wait_ready" ELSE "wait"]

Init ==
    /\ unit_counts \in (SUBSET UnitCounts) \ {{}}
    /\ inbox = <<>> /\ connected = TRUE /\ sent_bundles = 0
    /\ active = TRUE /\ exit_sem = 0 /\ exited = FALSE
    /\ bundle_queue = <<>> /\ debundle_sem = 0 /\ ready_for_bundle = 1
    /\ bundle = NoBundle
    /\ todo_work = <<>> /\ calc_thread_sem = 0 /\ workunit = NoUnit
    /\ completed_work = <<>> /\ sender_thread_sem = 0 /\ send_unit = NoUnit
    /\ results = <<>> /\ settings_applied = 0
    /\ pc = [t \in Threads |-> IF t = "event" THEN "receive"
                              ELSE IF t = "debundle" THEN "wait_ready" ELSE "wait"]

At(t, label) == ~exited /\ pc[t] = label
Goto(t, label) == pc' = [pc EXCEPT ![t] = label]

(* queue_pop returns NULL for an empty queue and leaves it alone.           *)
Popped(queue, null) == IF queue = <<>> THEN null ELSE Head(queue)
Rest(queue)         == IF queue = <<>> THEN <<>> ELSE Tail(queue)
-------------------------------------------------------------------------------
(* The dispatcher's end of the connection.                                  *)

DispatcherSendsSettings ==
    /\ connected
    /\ \A i \in DOMAIN inbox : inbox[i].type # "WORKER_SETTINGS"
    /\ settings_applied = 0
    /\ inbox' = Append(inbox, [type |-> "WORKER_SETTINGS"])
    /\ UNCHANGED <<unit_counts, connected, sent_bundles, results, settings_applied>>
    /\ UNCHANGED <<process, debundler, calc, sender, pc>>

DispatcherSendsBundle ==
    /\ connected /\ sent_bundles < MaxBundles
    /\ sent_bundles' = sent_bundles + 1
    /\ \E n \in unit_counts :
          inbox' = Append(inbox, [type   |-> "WORK_UNIT",
                                  bundle |-> [id |-> sent_bundles + 1, idcount |-> n]])
    /\ UNCHANGED <<unit_counts, connected, results, settings_applied>>
    /\ UNCHANGED <<process, debundler, calc, sender, pc>>

DispatcherCloses ==
    /\ connected
    /\ connected' = FALSE
    /\ UNCHANGED <<unit_counts, inbox, sent_bundles, results, settings_applied>>
    /\ UNCHANGED <<process, debundler, calc, sender, pc>>
-------------------------------------------------------------------------------
(* event_thread.c: receive a message and handle it.                         *)

EventSettings ==
    /\ At("event", "receive")
    /\ inbox # <<>> /\ Head(inbox).type = "WORKER_SETTINGS"
    /\ inbox' = Tail(inbox)
    /\ settings_applied' = settings_applied + 1
    /\ UNCHANGED <<unit_counts, connected, sent_bundles, results>>
    /\ UNCHANGED <<process, debundler, calc, sender, pc>>

EventBundle ==
    /\ At("event", "receive")
    /\ inbox # <<>> /\ Head(inbox).type = "WORK_UNIT"
    /\ inbox' = Tail(inbox)
    /\ bundle_queue' = Append(bundle_queue, Head(inbox).bundle)
    /\ Goto("event", "post_debundle")
    /\ UNCHANGED <<unit_counts, connected, sent_bundles, results, settings_applied>>
    /\ UNCHANGED <<process, debundle_sem, ready_for_bundle, bundle, calc, sender>>

EventPostDebundle ==
    /\ At("event", "post_debundle")
    /\ debundle_sem' = debundle_sem + 1
    /\ Goto("event", "receive")
    /\ UNCHANGED <<links, process, bundle_queue, ready_for_bundle, bundle, calc, sender>>

(* The end of the connection (error 0), or its reset (error -1), which      *)
(* discards what the worker had not read yet: leave the loop.               *)
EventClosed ==
    /\ At("event", "receive")
    /\ ~connected
    /\ active' = FALSE
    /\ Goto("event", "post_exit")
    /\ UNCHANGED <<links, exit_sem, exited, debundler, calc, sender>>

EventPostExit ==
    /\ At("event", "post_exit")
    /\ exit_sem' = exit_sem + 1
    /\ Goto("event", "gone")
    /\ UNCHANGED <<links, active, exited, debundler, calc, sender>>

(* main() gets the exit semaphore and returns: the process ends.            *)
MainExit ==
    /\ ~exited /\ exit_sem > 0
    /\ exit_sem' = exit_sem - 1
    /\ exited' = TRUE
    /\ UNCHANGED <<links, active, debundler, calc, sender, pc>>
-------------------------------------------------------------------------------
(* debundle_thread.c                                                        *)

(* Mutant of DebundleWaitReady: the semaphore is not waited for.            *)
DebundleSkipsReady ==
    /\ At("debundle", "wait_ready")
    /\ ready_for_bundle' = ready_for_bundle - 1
    /\ Goto("debundle", "wait_bundle")
    /\ UNCHANGED <<links, process, bundle_queue, debundle_sem, bundle, calc, sender>>

DebundleWaitReady ==
    /\ At("debundle", "wait_ready") /\ ready_for_bundle > 0
    /\ ready_for_bundle' = ready_for_bundle - 1
    /\ Goto("debundle", "wait_bundle")
    /\ UNCHANGED <<links, process, bundle_queue, debundle_sem, bundle, calc, sender>>

DebundleWaitBundle ==
    /\ At("debundle", "wait_bundle") /\ debundle_sem > 0
    /\ debundle_sem' = debundle_sem - 1
    /\ Goto("debundle", "pop")
    /\ UNCHANGED <<links, process, bundle_queue, ready_for_bundle, bundle, calc, sender>>

DebundlePop ==
    /\ At("debundle", "pop")
    /\ LET b == Popped(bundle_queue, NoBundle)
       IN bundle' = [id |-> b.id, idcount |-> b.idcount, index |-> 0]
    /\ bundle_queue' = Rest(bundle_queue)
    /\ Goto("debundle", "kick")
    /\ UNCHANGED <<links, process, debundle_sem, ready_for_bundle, calc, sender>>

(* kick_bundle makes the next unit of the bundle; the unit is queued.       *)
DebundleKick ==
    /\ At("debundle", "kick") /\ bundle.id # 0
    /\ bundle.index < bundle.idcount
    /\ todo_work' = Append(todo_work, [id |-> bundle.id, index |-> bundle.index,
                                       is_last |-> FALSE])
    /\ bundle' = [bundle EXCEPT !.index = @ + 1]
    /\ Goto("debundle", "post_calc")
    /\ UNCHANGED <<links, process, bundle_queue, debundle_sem, ready_for_bundle>>
    /\ UNCHANGED <<calc_thread_sem, workunit, sender>>

DebundlePostCalc ==
    /\ At("debundle", "post_calc")
    /\ calc_thread_sem' = calc_thread_sem + 1
    /\ Goto("debundle", "kick")
    /\ UNCHANGED <<links, process, debundler, todo_work, workunit, sender>>

(* The bundle is spent: delete_bundle, back to the top of the loop.         *)
DebundleSpent ==
    /\ At("debundle", "kick") /\ bundle.id # 0
    /\ bundle.index >= bundle.idcount
    /\ bundle' = NoBundle
    /\ Goto("debundle", "wait_ready")
    /\ UNCHANGED <<links, process, bundle_queue, debundle_sem, ready_for_bundle, calc, sender>>
-------------------------------------------------------------------------------
(* calc_thread.c                                                            *)

CalcWait ==
    /\ At("calc", "wait") /\ calc_thread_sem > 0
    /\ calc_thread_sem' = calc_thread_sem - 1
    /\ Goto("calc", "pop")
    /\ UNCHANGED <<links, process, debundler, todo_work, workunit, sender>>

CalcPop ==
    /\ At("calc", "pop")
    /\ workunit' = Popped(todo_work, NoUnit)
    /\ todo_work' = Rest(todo_work)
    /\ Goto("calc", "work")
    /\ UNCHANGED <<links, process, debundler, calc_thread_sem, sender>>

(* Mutants of CalcWork: the count compared with 1; ready_for_bundle never    *)
(* posted.                                                                  *)
CalcWorkOffByOne ==
    /\ At("calc", "work") /\ workunit # NoUnit
    /\ IF Len(todo_work) = 1
       THEN /\ workunit' = [workunit EXCEPT !.is_last = TRUE]
            /\ Goto("calc", "post_ready")
       ELSE /\ Goto("calc", "enqueue")
            /\ UNCHANGED workunit
    /\ UNCHANGED <<links, process, debundler, todo_work, calc_thread_sem, sender>>

CalcWorkSilent ==
    /\ At("calc", "work") /\ workunit # NoUnit
    /\ IF todo_work = <<>>
       THEN /\ workunit' = [workunit EXCEPT !.is_last = TRUE]
            /\ Goto("calc", "enqueue")
       ELSE /\ Goto("calc", "enqueue")
            /\ UNCHANGED workunit
    /\ UNCHANGED <<links, process, debundler, todo_work, calc_thread_sem, sender>>

(* do_workunit, then the look at todo_work->count that decides is_last.     *)
CalcWork ==
    /\ At("calc", "work") /\ workunit # NoUnit
    /\ IF todo_work = <<>>
       THEN /\ workunit' = [workunit EXCEPT !.is_last = TRUE]
            /\ Goto("calc", "post_ready")
       ELSE /\ Goto("calc", "enqueue")
            /\ UNCHANGED workunit
    /\ UNCHANGED <<links, process, debundler, todo_work, calc_thread_sem, sender>>

(* Mutant of CalcPostReady: posted twice.                                   *)
CalcPostsTwice ==
    /\ At("calc", "post_ready")
    /\ ready_for_bundle' = ready_for_bundle + 2
    /\ Goto("calc", "enqueue")
    /\ UNCHANGED <<links, process, bundle_queue, debundle_sem, bundle, calc, sender>>

CalcPostReady ==
    /\ At("calc", "post_ready")
    /\ ready_for_bundle' = ready_for_bundle + 1
    /\ Goto("calc", "enqueue")
    /\ UNCHANGED <<links, process, bundle_queue, debundle_sem, bundle, calc, sender>>

(* Mutant of CalcEnqueue: the unit goes to the front of the queue.          *)
CalcPushes ==
    /\ At("calc", "enqueue")
    /\ completed_work' = <<workunit>> \o completed_work
    /\ workunit' = NoUnit
    /\ Goto("calc", "post_sender")
    /\ UNCHANGED <<links, process, debundler, todo_work, calc_thread_sem>>
    /\ UNCHANGED <<sender_thread_sem, send_unit>>

CalcEnqueue ==
    /\ At("calc", "enqueue")
    /\ completed_work' = Append(completed_work, workunit)
    /\ workunit' = NoUnit
    /\ Goto("calc", "post_sender")
    /\ UNCHANGED <<links, process, debundler, todo_work, calc_thread_sem>>
    /\ UNCHANGED <<sender_thread_sem, send_unit>>

(* Mutant of CalcPostSender: posted twice.                                  *)
CalcPostsSenderTwice ==
    /\ At("calc", "post_sender")
    /\ sender_thread_sem' = sender_thread_sem + 2
    /\ Goto("calc", "wait")
    /\ UNCHANGED <<links, process, debundler, calc, completed_work, send_unit>>

CalcPostSender ==
    /\ At("calc", "post_sender")
    /\ sender_thread_sem' = sender_thread_sem + 1
    /\ Goto("calc", "wait")
    /\ UNCHANGED <<links, process, debundler, calc, completed_work, send_unit>>
-------------------------------------------------------------------------------
(* sender_thread.c                                                          *)

SenderWait ==
    /\ At("sender", "wait") /\ sender_thread_sem > 0
    /\ sender_thread_sem' = sender_thread_sem - 1
    /\ Goto("sender", "pop")
    /\ UNCHANGED <<links, process, debundler, calc, completed_work, send_unit>>

SenderPop ==
    /\ At("sender", "pop")
    /\ send_unit' = Popped(completed_work, NoUnit)
    /\ completed_work' = Rest(completed_work)
    /\ Goto("sender", "send")
    /\ UNCHANGED <<links, process, debundler, calc, sender_thread_sem>>

SenderSend ==
    /\ At("sender", "send") /\ send_unit # NoUnit
    /\ connected
    /\ results' = Append(results, send_unit)
    /\ send_unit' = NoUnit
    /\ Goto("sender", "wait")
    /\ UNCHANGED <<unit_counts, inbox, connected, sent_bundles, settings_applied>>
    /\ UNCHANGED <<process, debundler, calc, completed_work, sender_thread_sem>>

(* A send on a connection the dispatcher has closed goes nowhere, or raises *)
(* SIGPIPE, which the worker does not ignore: the process ends.             *)
SenderSendClosed ==
    /\ At("sender", "send") /\ send_unit # NoUnit
    /\ ~connected
    /\ exited' \in BOOLEAN
    /\ send_unit' = NoUnit
    /\ Goto("sender", "wait")
    /\ UNCHANGED <<links, active, exit_sem, debundler, calc>>
    /\ UNCHANGED <<completed_work, sender_thread_sem>>
-------------------------------------------------------------------------------
Environment == DispatcherSendsSettings \/ DispatcherSendsBundle \/ DispatcherCloses
Event       == EventSettings \/ EventBundle \/ EventPostDebundle \/ EventClosed
               \/ EventPostExit
Debundle    == DebundleWaitReady \/ DebundleWaitBundle \/ DebundlePop \/ DebundleKick
               \/ DebundlePostCalc \/ DebundleSpent
Calc        == CalcWait \/ CalcPop \/ CalcWork \/ CalcPostReady \/ CalcEnqueue
               \/ CalcPostSender
Sender      == SenderWait \/ SenderPop \/ SenderSend \/ SenderSendClosed

Next == Environment \/ Event \/ MainExit \/ Debundle \/ Calc \/ Sender

Spec == Init /\ [][Next]_vars

(* Every thread of a live process is scheduled again and again, and blocks  *)
(* only where its guard says so.  Nothing is assumed of the dispatcher.     *)
FairSpec == Spec /\ WF_vars(Event) /\ WF_vars(MainExit) /\ WF_vars(Debundle)
                 /\ WF_vars(Calc) /\ WF_vars(Sender)
-------------------------------------------------------------------------------
(* Every queue, semaphore and thread of the worker keeps to its type; no     *)
(* semaphore goes below zero.                                               *)
TypeOK ==
    /\ unit_counts \subseteq UnitCounts
    /\ inbox \in Seq(Messages) /\ connected \in BOOLEAN
    /\ sent_bundles \in 0..MaxBundles
    /\ active \in BOOLEAN /\ exit_sem \in Nat /\ exited \in BOOLEAN
    /\ bundle_queue \in Seq(Bundles)
    /\ debundle_sem \in Nat /\ ready_for_bundle \in Nat
    /\ bundle \in [id: BundleIds, idcount: unit_counts, index: Nat] \cup {NoBundle}
    /\ todo_work \in Seq(Units) /\ calc_thread_sem \in Nat
    /\ workunit \in Units \cup {NoUnit}
    /\ completed_work \in Seq(Units) /\ sender_thread_sem \in Nat
    /\ send_unit \in Units \cup {NoUnit}
    /\ results \in Seq(Units) /\ settings_applied \in Nat
    /\ pc \in [Threads -> Labels]

(* No thread ever uses the NULL that queue_pop returns for an empty queue:  *)
(* a semaphore that was obtained always stands for an item of its queue     *)
(* (debundle_thread.c:37-39, calc_thread.c:28-29, sender_thread.c:29-31).   *)
NeverPopsEmpty ==
    /\ pc["debundle"] \in {"kick", "post_calc"} => bundle.id # 0
    /\ pc["calc"] \in {"work", "post_ready", "enqueue"} => workunit # NoUnit
    /\ pc["sender"] = "send" => send_unit # NoUnit

(* The units between the debundler and the socket, the oldest first.        *)
Held(unit) == IF unit = NoUnit THEN <<>> ELSE <<unit>>
InPipeline == Held(send_unit) \o completed_work \o Held(workunit) \o todo_work

(* However the threads interleave, when the pipeline runs dry the last unit *)
(* the dispatcher got carries is_last (calc_thread.c:30-35): the flag may   *)
(* come too early, but it is not missing at the end.                        *)
LastAnswerFlagged ==
    InPipeline = <<>> /\ connected /\ results # <<>> => results[Len(results)].is_last

(* With bundles of one unit the flag is exact: every answer carries it.     *)
(* (The dispatcher makes such bundles when it has as many workers as        *)
(* leaves; its count of finished bundles is right only then.)               *)
SingleUnitsFlagged ==
    unit_counts = {1} => \A i \in DOMAIN results : results[i].is_last

(* With bundles of one unit ready_for_bundle does what its name says: the   *)
(* debundler takes a bundle only when no unit of an earlier one is left to  *)
(* compute.                                                                 *)
OneBundleAtATime ==
    unit_counts = {1} /\ pc["debundle"] \in {"wait_bundle", "pop"}
        => todo_work = <<>> /\ pc["calc"] \notin {"pop", "work", "post_ready"}

(* What calc_thread.c:37 and handle_worker_done_msg.c:78 of the dispatcher  *)
(* call the flag: "is last workunit of a bundle".  Only one unit of a       *)
(* bundle can be its last.                                                  *)
FlagIsLastOfBundle ==
    \A i, j \in DOMAIN results :
        i < j /\ results[i].id = results[j].id => ~results[i].is_last

(* Every unit of every bundle the worker has read reaches the dispatcher    *)
(* as long as the connection stands: no thread waits for ever on a          *)
(* semaphore that an interleaving failed to post.                           *)
Unanswered(b) ==
    \/ \E i \in DOMAIN bundle_queue : bundle_queue[i].id = b
    \/ bundle.id = b
    \/ \E i \in DOMAIN InPipeline : InPipeline[i].id = b
EverythingAnswered ==
    \A b \in BundleIds : Unanswered(b) ~> (~Unanswered(b) \/ ~connected)
===============================================================================
