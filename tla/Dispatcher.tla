------------------------------ MODULE Dispatcher ------------------------------
(***************************************************************************)
(* The dispatcher process (src/networking/Dispatcher) while it runs a        *)
(* simulation: the connect thread that admits workers, one event thread per  *)
(* worker, the sender threads, main, and the division of the dataset into    *)
(* bundles, done by main for the first tick and by the event thread that     *)
(* counts the last bundle for the others.                                    *)
(*                                                                          *)
(* Locks.  Every queue operation holds that queue's mutex and is one step.   *)
(* What a sender does under sender_thread_mutex is one step too: only        *)
(* senders pop bundles, all of them under that mutex, so the look at the     *)
(* count and the pop around the one access to the workers queue commute      *)
(* with whatever the other threads do.  bundles_done_mutex is held across    *)
(* steps, by the event thread that divides the dataset.                      *)
(*                                                                          *)
(* The worker at the other end is the one WorkerService describes: it owes   *)
(* results for the units it was sent and answers in order.  A result in      *)
(* flight is still counted as owed, so answering and receiving are one step. *)
(*                                                                          *)
(* A step that would use freed memory, loop for ever over a bad list or      *)
(* enqueue bundles without end sets fault; what the process does after that  *)
(* is not modelled.                                                          *)
(***************************************************************************)
EXTENDS Integers, Sequences, FiniteSets

CONSTANTS
    Workers,        \* every worker that may ever connect
    NULL,           \* the null pointer
    Leaves,         \* how many leaves (cells) the tree of a tick has
    TicksCnt,       \* dispatcher->ticks_cnt
    LateJoin,       \* TRUE: workers may still be connecting after the launch
    MaxLosses       \* how many workers may disconnect

ASSUME DispatcherAssumption ==
    /\ IsFiniteSet(Workers) /\ NULL \notin Workers /\ 0 \notin Workers
    /\ Leaves \in Nat \ {0} /\ TicksCnt \in Nat \ {0} /\ MaxLosses \in Nat
    /\ LateJoin \in BOOLEAN

LQ == INSTANCE LinkedQueue WITH Links <- Workers

Senders  == 1..Cardinality(Workers)
Main     == 0
Dividers == Workers \cup {Main}
CellIds  == 0..(Leaves - 1)
Bundles  == [tick: 1..TicksCnt, keys: SUBSET CellIds]
Units    == [type: {"WORK_UNIT_DONE"}, tick: 1..TicksCnt, id: CellIds, ends: BOOLEAN]
Settings == [type |-> "SETTINGS_APPLIED"]

(* What can go wrong without anybody noticing:                               *)
(*  "held"    a sender has a worker in hand when the workers are counted for *)
(*            a tick;                                                        *)
(*  "twice"   a sender takes a worker that another sender has in hand;       *)
(*  "flag"    is_last on another result than the last one of its bundle, or  *)
(*            not on that;                                                   *)
(*  "reply"   a result is taken for the reply to the settings;               *)
(*  "orphan"  a bundle is queued for a lost worker whose bundles have        *)
(*            already gone back to the pool.                                 *)
Mishaps == {"held", "twice", "flag", "reply", "orphan"}

(* A worker, a bundle and the null pointer are different objects in memory.  *)
ASSUME ObjectsDiffer == Workers \cap Bundles = {} /\ NULL \notin Bundles

VARIABLES
    workers,            \* the queue of idle workers
    bundles,            \* the pool: the queue of bundles to send
    start_sending,      \* semaphore
    sender,             \* per sender thread: where it is, its link, its bundle
    sender_count,       \* sender threads started
    event,              \* per worker: where its event thread is
    workunit_queue,     \* per worker: the bundles sent to it
    alive,              \* per worker: its process lives and is connected
    owes,               \* per worker: what it will answer, the oldest first
    freed,              \* the workers and bundles whose memory was freed
    connect,            \* the connect thread: where it is, its worker
    divide,             \* per divider: where it is in divide_dataset
    cells,              \* the tick whose leaves dispatcher->cells holds, 0: freed
    total_bundles, bundles_done, ticks_done,
    new_dataset,        \* per cell: the tick whose result was integrated, or 0
    fp,                 \* the tick whose output file is open, or 0
    unsaved,            \* per worker: the tick of the result its event thread
                        \* has copied and not yet written to the file, or 0
    exit_sem, exited,
    losses,             \* workers lost so far
    mishaps,            \* history: which of Mishaps have happened
    fault               \* what went wrong in memory, or "none"

pool  == <<bundles, start_sending>>
peers == <<alive, owes, losses>>
files == <<fp, unsaved>>
tick  == <<cells, total_bundles, bundles_done, ticks_done, new_dataset, files, mishaps>>
stop  == <<exit_sem, exited>>
vars  == <<workers, pool, sender, sender_count, event, workunit_queue, peers,
           freed, connect, divide, tick, stop, fault>>
-------------------------------------------------------------------------------
Init ==
    /\ workers = LQ!NewQueue
    /\ bundles = <<>> /\ start_sending = 0
    /\ sender = [s \in Senders |-> [pc |-> "wait", link |-> NULL, bundle |-> NULL]]
    /\ sender_count = 0
    /\ event = [w \in Workers |-> "absent"]
    /\ workunit_queue = [w \in Workers |-> <<>>]
    /\ alive = [w \in Workers |-> FALSE] /\ owes = [w \in Workers |-> <<>>]
    /\ freed = {}
    /\ connect = [pc |-> "accept", worker |-> NULL]
    /\ divide = [d \in Dividers |-> [pc |-> "none", keys |-> {}, posts |-> {}]]
    /\ cells = 0 /\ total_bundles = 0 /\ bundles_done = 0 /\ ticks_done = 0
    /\ new_dataset = [c \in CellIds |-> 0]
    /\ fp = 0 /\ unsaved = [w \in Workers |-> 0]
    /\ exit_sem = 0 /\ exited = FALSE /\ losses = 0
    /\ mishaps = {} /\ fault = "none"

Noted(mishap, happens) == mishaps' = IF happens THEN mishaps \cup {mishap} ELSE mishaps

Running == fault = "none" /\ ~exited

Fault(kind) ==
    /\ fault' = kind
    /\ UNCHANGED <<workers, pool, sender, sender_count, event, workunit_queue, peers,
                   freed, connect, divide, tick, stop>>

(* The link queue_enqueue writes to, besides the new one.                    *)
Touched == IF workers.first = NULL THEN {}
           ELSE IF workers.last = NULL THEN {workers.first} ELSE {workers.last}

Joined(w) == w \in {x \in Workers : event[x] # "absent"} \cup {connect.worker}
-------------------------------------------------------------------------------
(* connect_workers.c: admit a worker.  Its link is in the queue before the   *)
(* settings are sent and before its event thread exists.                     *)

ConnectAccept(w) ==
    /\ Running /\ connect.pc = "accept" /\ ~Joined(w)
    /\ LateJoin \/ sender_count = 0
    /\ ticks_done < TicksCnt       \* then the listening socket is closed
    /\ Touched \cap freed = {}
    /\ workers' = LQ!Enqueue(workers, w)
    /\ alive' = [alive EXCEPT ![w] = TRUE]
    /\ connect' = [pc |-> "settings", worker |-> w]
    /\ UNCHANGED <<pool, sender, sender_count, event, workunit_queue, owes, losses,
                   freed, divide, tick, stop, fault>>

ConnectFaults(w) ==
    /\ Running /\ connect.pc = "accept" /\ ~Joined(w)
    /\ LateJoin \/ sender_count = 0
    /\ ticks_done < TicksCnt
    /\ Touched \cap freed # {}
    /\ Fault("use after free")

ConnectSettings ==
    /\ Running /\ connect.pc = "settings"
    /\ owes' = [owes EXCEPT ![connect.worker] =
                    IF alive[connect.worker] THEN Append(@, Settings) ELSE @]
    /\ connect' = [connect EXCEPT !.pc = "applied"]
    /\ UNCHANGED <<workers, pool, sender, sender_count, event, workunit_queue, alive,
                   losses, freed, divide, tick, stop, fault>>

(* The first message from the worker is taken for the reply, whatever it is; *)
(* then the event thread starts.                                             *)
ConnectApplied == LET w == connect.worker IN
    /\ Running /\ connect.pc = "applied"
    /\ owes[w] # <<>> \/ ~alive[w]
    /\ Noted("reply", owes[w] # <<>> /\ Head(owes[w]) # Settings)
    /\ owes' = [owes EXCEPT ![w] = IF @ = <<>> THEN @ ELSE Tail(@)]
    /\ event' = [event EXCEPT ![w] = "receive"]
    /\ connect' = [pc |-> "accept", worker |-> NULL]
    /\ UNCHANGED <<workers, pool, sender, sender_count, workunit_queue, alive, losses,
                   freed, divide, cells, total_bundles, bundles_done, ticks_done, new_dataset,
                   files, stop, fault>>
-------------------------------------------------------------------------------
(* launch_simulation.c: ENTER is pressed once a worker is there.             *)

MainLaunch ==
    /\ Running /\ divide[Main].pc = "none"
    /\ IF LateJoin THEN \E w \in Workers : Joined(w)
       ELSE \A w \in Workers : event[w] # "absent"
    /\ sender_count' = workers.count
    /\ fp' = 1
    /\ divide' = [divide EXCEPT ![Main].pc = "assign"]
    /\ UNCHANGED <<workers, pool, sender, event, workunit_queue, peers, freed, connect,
                   cells, total_bundles, bundles_done, ticks_done, new_dataset, unsaved,
                   mishaps, stop, fault>>

MainExit ==
    /\ Running /\ divide[Main].pc = "done" /\ exit_sem > 0
    /\ exit_sem' = exit_sem - 1
    /\ exited' = TRUE
    /\ UNCHANGED <<workers, pool, sender, sender_count, event, workunit_queue, peers,
                   freed, connect, divide, tick, fault>>
-------------------------------------------------------------------------------
(* divide_dataset.c: divide_dataset and mt_bundle, run by d.                 *)

CeilDiv(a, b) == (a + b - 1) \div b

(* Mutant of Slices: the bundle threads stop one leaf short.                 *)
SlicesShort(count, lpb) ==
    {start..(IF start + lpb < count THEN start + lpb - 1 ELSE count - 1) :
        start \in {i \in 0..(count - 2) : i % lpb = 0}}

(* What bundle_leaves takes for each starting index.                         *)
Slices(count, lpb) ==
    {start..(IF start + lpb < count THEN start + lpb - 1 ELSE count - 1) :
        start \in {i \in 0..(count - 1) : i % lpb = 0}}

(* The tree is rebuilt; the new leaves are published; workers are counted.   *)
DivideAssign(d) ==
    /\ Running /\ divide[d].pc = "assign"
    /\ cells' = ticks_done + 1
    /\ total_bundles' = workers.count
    /\ Noted("held", \E s \in Senders : sender[s].link # NULL)
    /\ divide' = [divide EXCEPT ![d].pc = "count"]
    /\ UNCHANGED <<workers, pool, sender, sender_count, event, workunit_queue, peers,
                   freed, connect, bundles_done, ticks_done, new_dataset, files, stop, fault>>

(* Workers are counted a second time to size the bundles.  With none, the    *)
(* size is (int)ceil(inf) and a bundle thread never gets past its last leaf. *)
DivideCount(d) ==
    /\ Running /\ divide[d].pc = "count"
    /\ workers.count > 0
    /\ divide' = [divide EXCEPT ![d] =
                    [pc    |-> "bundle", posts |-> {},
                     keys  |-> Slices(Leaves, CeilDiv(Leaves, workers.count))]]
    /\ UNCHANGED <<workers, pool, sender, sender_count, event, workunit_queue, peers,
                   freed, connect, tick, stop, fault>>

DivideCountsNone(d) ==
    /\ Running /\ divide[d].pc = "count"
    /\ workers.count <= 0
    /\ Fault("endless bundles")

(* bundle_thread: bundle_leaves, enqueue, then sem_post.  Here each bundle    *)
(* has a thread.  The code has THREADCOUNT of them; when there are more       *)
(* bundles than that, a thread makes several in turn, one of the orders       *)
(* allowed here.                                                             *)
BundleEnqueue(d) == \E k \in divide[d].keys :
    /\ Running /\ divide[d].pc = "bundle" /\ cells # 0
    /\ bundles' = Append(bundles, [tick |-> cells, keys |-> k])
    /\ divide' = [divide EXCEPT ![d].keys = @ \ {k}, ![d].posts = @ \cup {k}]
    /\ UNCHANGED <<workers, start_sending, sender, sender_count, event, workunit_queue,
                   peers, freed, connect, tick, stop, fault>>

(* The tick was taken for over while its bundles were still being made.      *)
BundleFaults(d) ==
    /\ Running /\ divide[d].pc = "bundle" /\ divide[d].keys # {} /\ cells = 0
    /\ Fault("use after free")

(* Mutant of BundlePost: no token for the bundle.                            *)
BundleUnposted(d) == \E k \in divide[d].posts :
    /\ Running /\ divide[d].pc = "bundle"
    /\ divide' = [divide EXCEPT ![d].posts = @ \ {k}]
    /\ UNCHANGED <<workers, pool, sender, sender_count, event, workunit_queue, peers,
                   freed, connect, tick, stop, fault>>

BundlePost(d) == \E k \in divide[d].posts :
    /\ Running /\ divide[d].pc = "bundle"
    /\ start_sending' = start_sending + 1
    /\ divide' = [divide EXCEPT ![d].posts = @ \ {k}]
    /\ UNCHANGED <<workers, bundles, sender, sender_count, event, workunit_queue, peers,
                   freed, connect, tick, stop, fault>>

(* The bundle threads are joined.                                            *)
BundlesJoined(d) ==
    /\ Running /\ divide[d].pc = "bundle"
    /\ divide[d].keys = {} /\ divide[d].posts = {}
    /\ divide' = [divide EXCEPT ![d].pc = "done"]
    /\ event' = IF d = Main THEN event ELSE [event EXCEPT ![d] = "receive"]
    /\ UNCHANGED <<workers, pool, sender, sender_count, workunit_queue, peers, freed,
                   connect, tick, stop, fault>>
-------------------------------------------------------------------------------
(* sender_thread.c                                                           *)

(* Mutant of SenderWait: the semaphore is not waited for.                    *)
SenderDoesNotWait(s) ==
    /\ Running /\ s <= sender_count /\ sender[s].pc = "wait"
    /\ start_sending' = start_sending - 1
    /\ sender' = [sender EXCEPT ![s].pc = "take"]
    /\ UNCHANGED <<workers, bundles, sender_count, event, workunit_queue, peers, freed,
                   connect, divide, tick, stop, fault>>

SenderWait(s) ==
    /\ Running /\ s <= sender_count /\ sender[s].pc = "wait" /\ start_sending > 0
    /\ start_sending' = start_sending - 1
    /\ sender' = [sender EXCEPT ![s].pc = "take"]
    /\ UNCHANGED <<workers, bundles, sender_count, event, workunit_queue, peers, freed,
                   connect, divide, tick, stop, fault>>

(* Mutants of SenderTake: the bundle stays in the pool; the link stays in    *)
(* the queue.                                                                *)
SenderPeeksBundle(s) ==
    /\ Running /\ sender[s].pc = "take"
    /\ bundles = <<>> \/ workers.first \notin freed
    /\ IF bundles # <<>> /\ workers.first # NULL
       THEN /\ workers' = LQ!PopLink(workers)
            /\ bundles' = bundles
            /\ sender' = [sender EXCEPT ![s] = [pc |-> "queue", link |-> workers.first,
                                                bundle |-> Head(bundles)]]
            /\ UNCHANGED start_sending
       ELSE /\ start_sending' = start_sending + (IF bundles = <<>> THEN 0 ELSE 1)
            /\ sender' = [sender EXCEPT ![s].pc = "wait"]
            /\ workers' = IF bundles = <<>> THEN workers ELSE LQ!PopLink(workers)
            /\ UNCHANGED bundles
    /\ UNCHANGED <<sender_count, event, workunit_queue, peers, freed, connect, divide,
                   tick, stop, fault>>

SenderPeeksWorker(s) ==
    /\ Running /\ sender[s].pc = "take"
    /\ bundles = <<>> \/ workers.first \notin freed
    /\ IF bundles # <<>> /\ workers.first # NULL
       THEN /\ workers' = workers
            /\ bundles' = Tail(bundles)
            /\ sender' = [sender EXCEPT ![s] = [pc |-> "queue", link |-> workers.first,
                                                bundle |-> Head(bundles)]]
            /\ UNCHANGED start_sending
       ELSE /\ start_sending' = start_sending + (IF bundles = <<>> THEN 0 ELSE 1)
            /\ sender' = [sender EXCEPT ![s].pc = "wait"]
            /\ workers' = IF bundles = <<>> THEN workers ELSE LQ!PopLink(workers)
            /\ UNCHANGED bundles
    /\ UNCHANGED <<sender_count, event, workunit_queue, peers, freed, connect, divide,
                   tick, stop, fault>>

(* The critical section: a worker and a bundle for it; no worker: the token  *)
(* is put back; no bundle: the token is spent for nothing.                   *)
SenderTake(s) ==
    /\ Running /\ sender[s].pc = "take"
    /\ bundles = <<>> \/ workers.first \notin freed
    /\ IF bundles # <<>> /\ workers.first # NULL
       THEN /\ workers' = LQ!PopLink(workers)
            /\ bundles' = Tail(bundles)
            /\ sender' = [sender EXCEPT ![s] = [pc |-> "queue", link |-> workers.first,
                                                bundle |-> Head(bundles)]]
            /\ UNCHANGED start_sending
       ELSE /\ start_sending' = start_sending + (IF bundles = <<>> THEN 0 ELSE 1)
            /\ sender' = [sender EXCEPT ![s].pc = "wait"]
            /\ workers' = IF bundles = <<>> THEN workers ELSE LQ!PopLink(workers)
            /\ UNCHANGED bundles
    /\ Noted("twice", /\ bundles # <<>> /\ workers.first # NULL
                      /\ \E t \in Senders : sender[t].link = workers.first)
    /\ UNCHANGED <<sender_count, event, workunit_queue, peers, freed, connect, divide,
                   cells, total_bundles, bundles_done, ticks_done, new_dataset, files,
                   stop, fault>>

SenderQueue(s) == LET w == sender[s].link IN
    /\ Running /\ sender[s].pc = "queue"
    /\ w \notin freed
    /\ workunit_queue' = [workunit_queue EXCEPT ![w] = Append(@, sender[s].bundle)]
    /\ Noted("orphan", event[w] \in {"unlink", "free", "gone"})
    /\ sender' = [sender EXCEPT ![s].pc = "send"]
    /\ UNCHANGED <<workers, pool, sender_count, event, peers, freed, connect, divide,
                   cells, total_bundles, bundles_done, ticks_done, new_dataset, files,
                   stop, fault>>

(* What the worker will answer to a bundle of these keys, serialized from    *)
(* the cells of tick t.                                                      *)
Answers(keys, t) ==
    LET from == CHOOSE k \in keys : \A j \in keys : k <= j
    IN  [i \in 1..Cardinality(keys) |->
            [type |-> "WORK_UNIT_DONE", tick |-> t, id |-> from + i - 1,
             ends |-> i = Cardinality(keys)]]

(* serialize_bundle reads the bundle and dispatcher->cells as they are now,  *)
(* and the cells the bundle points to, which go with the tree of their tick;  *)
(* a dead worker's bundle is lost in its socket.                             *)
SenderSend(s) == LET w == sender[s].link IN
    /\ Running /\ sender[s].pc = "send"
    /\ w \notin freed /\ sender[s].bundle \notin freed /\ sender[s].bundle.tick = cells
    /\ owes' = [owes EXCEPT ![w] =
                    IF alive[w] THEN @ \o Answers(sender[s].bundle.keys, cells) ELSE @]
    /\ sender' = [sender EXCEPT ![s].pc = "return", ![s].bundle = NULL]
    /\ UNCHANGED <<workers, pool, sender_count, event, workunit_queue, alive, losses,
                   freed, connect, divide, tick, stop, fault>>

(* Mutant of SenderReturn: the worker goes to the front of the queue.        *)
SenderReturnsFirst(s) == LET w == sender[s].link IN
    /\ Running /\ sender[s].pc = "return"
    /\ w \notin freed /\ Touched \cap freed = {}
    /\ workers' = [workers EXCEPT !.first = w, !.count = @ + 1, !.next[w] = workers.first]
    /\ sender' = [sender EXCEPT ![s] = [pc |-> "wait", link |-> NULL, bundle |-> NULL]]
    /\ UNCHANGED <<pool, sender_count, event, workunit_queue, peers, freed, connect,
                   divide, tick, stop, fault>>

SenderReturn(s) == LET w == sender[s].link IN
    /\ Running /\ sender[s].pc = "return"
    /\ w \notin freed /\ Touched \cap freed = {}
    /\ workers' = LQ!Enqueue(workers, w)
    /\ sender' = [sender EXCEPT ![s] = [pc |-> "wait", link |-> NULL, bundle |-> NULL]]
    /\ UNCHANGED <<pool, sender_count, event, workunit_queue, peers, freed, connect,
                   divide, tick, stop, fault>>

(* The steps above on memory that another thread has freed.                  *)
SenderFaults(s) == LET w == sender[s].link IN
    /\ Running
    /\ \/ sender[s].pc = "take" /\ bundles # <<>> /\ workers.first \in freed
       \/ sender[s].pc \in {"queue", "send", "return"} /\ w \in freed
       \/ sender[s].pc = "send" /\ (sender[s].bundle \in freed
                                     \/ sender[s].bundle.tick # cells)
       \/ sender[s].pc = "return" /\ Touched \cap freed # {}
    /\ Fault("use after free")
-------------------------------------------------------------------------------
(* worker_event_thread.c and handle_worker_done_msg.c                        *)

BundlesDoneFree == \A w \in Workers : divide[w].pc \in {"none", "done"}
                                      /\ event[w] \notin {"all_done", "reopen"}

(* A SETTINGS_APPLIED that comes late is an invalid message: ignored.        *)
EventInvalid(w) ==
    /\ Running /\ event[w] = "receive"
    /\ owes[w] # <<>> /\ Head(owes[w]).type = "SETTINGS_APPLIED"
    /\ owes' = [owes EXCEPT ![w] = Tail(@)]
    /\ UNCHANGED <<workers, pool, sender, sender_count, event, workunit_queue, alive,
                   losses, freed, connect, divide, tick, stop, fault>>

(* The is_last flag of the oldest answer: what WorkerService leaves open      *)
(* (only the answer after which nothing is owed has to be flagged).          *)
Flags(w) == {f \in BOOLEAN : alive[w] /\ Len(owes[w]) = 1 => f}

(* A result arrives and is copied into the new dataset at the place of       *)
(* cells[id], whichever tick the cells are of by now.                        *)
EventIntegrate(w) == LET unit == Head(owes[w]) IN
    /\ Running /\ event[w] = "receive"
    /\ owes[w] # <<>> /\ unit.type = "WORK_UNIT_DONE"
    /\ cells # 0
    /\ owes' = [owes EXCEPT ![w] = Tail(@)]
    /\ new_dataset' = [new_dataset EXCEPT ![unit.id] = unit.tick]
    /\ \E is_last \in Flags(w) :
          /\ event' = [event EXCEPT ![w] = IF is_last THEN "save_last" ELSE "save"]
          /\ Noted("flag", is_last # unit.ends)
    /\ unsaved' = [unsaved EXCEPT ![w] = unit.tick]
    /\ UNCHANGED <<workers, pool, sender, sender_count, workunit_queue, alive, losses,
                   freed, connect, divide, cells, total_bundles, bundles_done,
                   ticks_done, fp, stop, fault>>

EventFaults(w) ==
    /\ Running /\ event[w] = "receive"
    /\ owes[w] # <<>> /\ Head(owes[w]).type = "WORK_UNIT_DONE"
    /\ cells = 0
    /\ Fault("use after free")

(* async_save: the result is written to the file that is open by now.        *)
EventSave(w) ==
    /\ Running /\ event[w] \in {"save", "save_last"} /\ fp # 0
    /\ unsaved' = [unsaved EXCEPT ![w] = 0]
    /\ event' = [event EXCEPT ![w] = IF @ = "save" THEN "receive" ELSE "pop"]
    /\ UNCHANGED <<workers, pool, sender, sender_count, workunit_queue, peers, freed,
                   connect, divide, cells, total_bundles, bundles_done, ticks_done,
                   new_dataset, fp, mishaps, stop, fault>>

EventSaveFaults(w) ==
    /\ Running /\ event[w] \in {"save", "save_last"} /\ fp = 0
    /\ Fault("closed file")

(* The result was the last of a bundle: the oldest bundle is done with.      *)
EventPop(w) ==
    /\ Running /\ event[w] = "pop"
    /\ workunit_queue' = [workunit_queue EXCEPT ![w] = IF @ = <<>> THEN @ ELSE Tail(@)]
    /\ freed' = IF workunit_queue[w] = <<>> THEN freed
                ELSE freed \cup {Head(workunit_queue[w])}
    /\ event' = [event EXCEPT ![w] = "done"]
    /\ UNCHANGED <<workers, pool, sender, sender_count, peers, connect, divide, tick,
                   stop, fault>>

(* Mutant of EventCount: one bundle early.                                   *)
EventCountsEarly(w) ==
    /\ Running /\ event[w] = "done" /\ BundlesDoneFree
    /\ bundles_done' = bundles_done + 1
    /\ event' = [event EXCEPT ![w] =
                    IF bundles_done + 2 = total_bundles THEN "all_done" ELSE "receive"]
    /\ UNCHANGED <<workers, pool, sender, sender_count, workunit_queue, peers, freed,
                   connect, divide, cells, total_bundles, ticks_done, new_dataset, files,
                   mishaps, stop, fault>>

EventCount(w) ==
    /\ Running /\ event[w] = "done" /\ BundlesDoneFree
    /\ bundles_done' = bundles_done + 1
    /\ event' = [event EXCEPT ![w] =
                    IF bundles_done + 1 = total_bundles THEN "all_done" ELSE "receive"]
    /\ UNCHANGED <<workers, pool, sender, sender_count, workunit_queue, peers, freed,
                   connect, divide, cells, total_bundles, ticks_done, new_dataset, files,
                   mishaps, stop, fault>>

(* all_workunits_done.c, with bundles_done_mutex held but not output_mutex:   *)
(* the tick's file is closed.                                                *)
AllBundlesClose(w) ==
    /\ Running /\ event[w] = "all_done"
    /\ fp' = 0
    /\ event' = [event EXCEPT ![w] = "reopen"]
    /\ UNCHANGED <<workers, pool, sender, sender_count, workunit_queue, peers, freed,
                   connect, divide, cells, total_bundles, bundles_done, ticks_done,
                   new_dataset, unsaved, mishaps, stop, fault>>

(* Mutant of AllBundlesDone: the count of bundles is not reset.              *)
AllDoneUnreset(w) ==
    /\ Running /\ event[w] = "reopen"
    /\ ticks_done' = ticks_done + 1
    /\ bundles_done' = bundles_done
    /\ cells' = 0
    /\ new_dataset' = [c \in CellIds |-> 0]
    /\ fp' = IF ticks_done + 1 < TicksCnt THEN ticks_done + 2 ELSE 0
    /\ IF ticks_done + 1 < TicksCnt
       THEN /\ divide' = [divide EXCEPT ![w].pc = "assign"]
            /\ event' = [event EXCEPT ![w] = "divide"]
            /\ UNCHANGED exit_sem
       ELSE /\ exit_sem' = exit_sem + 1
            /\ event' = [event EXCEPT ![w] = "receive"]
            /\ UNCHANGED divide
    /\ UNCHANGED <<workers, pool, sender, sender_count, workunit_queue, peers, freed,
                   connect, total_bundles, unsaved, mishaps, exited, fault>>

(* Then the tick is over: the next file is opened, the cells are freed, the  *)
(* new dataset becomes the dataset.                                          *)
AllBundlesDone(w) ==
    /\ Running /\ event[w] = "reopen"
    /\ ticks_done' = ticks_done + 1
    /\ bundles_done' = 0
    /\ cells' = 0
    /\ new_dataset' = [c \in CellIds |-> 0]
    /\ fp' = IF ticks_done + 1 < TicksCnt THEN ticks_done + 2 ELSE 0
    /\ IF ticks_done + 1 < TicksCnt
       THEN /\ divide' = [divide EXCEPT ![w].pc = "assign"]
            /\ event' = [event EXCEPT ![w] = "divide"]
            /\ UNCHANGED exit_sem
       ELSE /\ exit_sem' = exit_sem + 1
            /\ event' = [event EXCEPT ![w] = "receive"]
            /\ UNCHANGED divide
    /\ UNCHANGED <<workers, pool, sender, sender_count, workunit_queue, peers, freed,
                   connect, total_bundles, unsaved, mishaps, exited, fault>>
-------------------------------------------------------------------------------
(* A worker goes away; what it owed may have been sent already, or not.      *)
WorkerDies(w) ==
    /\ Running /\ losses < MaxLosses /\ alive[w]
    /\ losses' = losses + 1
    /\ alive' = [alive EXCEPT ![w] = FALSE]
    /\ \E n \in 0..Len(owes[w]) :
          owes' = [owes EXCEPT ![w] = SubSeq(@, 1, n)]
    /\ UNCHANGED <<workers, pool, sender, sender_count, event, workunit_queue, freed,
                   connect, divide, tick, stop, fault>>

EventClosed(w) ==
    /\ Running /\ event[w] = "receive" /\ ~alive[w] /\ owes[w] = <<>>
    /\ event' = [event EXCEPT ![w] = "repool"]
    /\ UNCHANGED <<workers, pool, sender, sender_count, workunit_queue, peers, freed,
                   connect, divide, tick, stop, fault>>

(* Mutant of CleanupRepool: the bundle is put back but not popped.           *)
CleanupCopies(w) ==
    /\ Running /\ event[w] = "repool" /\ workunit_queue[w] # <<>>
    /\ bundles' = Append(bundles, Head(workunit_queue[w]))
    /\ workunit_queue' = [workunit_queue EXCEPT ![w] = @]
    /\ event' = [event EXCEPT ![w] = "repost"]
    /\ UNCHANGED <<workers, start_sending, sender, sender_count, peers, freed, connect,
                   divide, tick, stop, fault>>

(* cleanup_worker.c: the bundles go back to the pool, each with its token;   *)
(* then the queue is freed, the link is taken out, the worker is freed.      *)
CleanupRepool(w) ==
    /\ Running /\ event[w] = "repool" /\ workunit_queue[w] # <<>>
    /\ bundles' = Append(bundles, Head(workunit_queue[w]))
    /\ workunit_queue' = [workunit_queue EXCEPT ![w] = Tail(@)]
    /\ event' = [event EXCEPT ![w] = "repost"]
    /\ UNCHANGED <<workers, start_sending, sender, sender_count, peers, freed, connect,
                   divide, tick, stop, fault>>

(* Mutant of CleanupPost: no token for the bundle.                           *)
CleanupUnposted(w) ==
    /\ Running /\ event[w] = "repost"
    /\ start_sending' = start_sending
    /\ event' = [event EXCEPT ![w] = "repool"]
    /\ UNCHANGED <<workers, bundles, sender, sender_count, workunit_queue, peers, freed,
                   connect, divide, tick, stop, fault>>

CleanupPost(w) ==
    /\ Running /\ event[w] = "repost"
    /\ start_sending' = start_sending + 1
    /\ event' = [event EXCEPT ![w] = "repool"]
    /\ UNCHANGED <<workers, bundles, sender, sender_count, workunit_queue, peers, freed,
                   connect, divide, tick, stop, fault>>

CleanupFreeQueue(w) ==
    /\ Running /\ event[w] = "repool" /\ workunit_queue[w] = <<>>
    /\ event' = [event EXCEPT ![w] = "unlink"]
    /\ UNCHANGED <<workers, pool, sender, sender_count, workunit_queue, peers, freed,
                   connect, divide, tick, stop, fault>>

N == Cardinality(Workers)

CleanupUnlink(w) ==
    /\ Running /\ event[w] = "unlink"
    /\ IF LQ!NeverEnds(workers, w, N)
       THEN Fault("endless list")
       ELSE IF \E k \in 0..N : LQ!Walk(workers, N)[k] \in freed
       THEN Fault("use after free")
       ELSE /\ workers' = [LQ!RemoveLink(workers, w, N) EXCEPT !.count = @ - 1]
            /\ event' = [event EXCEPT ![w] = "free"]
            /\ UNCHANGED <<pool, sender, sender_count, workunit_queue, peers, freed,
                           connect, divide, tick, stop, fault>>

CleanupFree(w) ==
    /\ Running /\ event[w] = "free"
    /\ freed' = freed \cup {w}
    /\ workunit_queue' = [workunit_queue EXCEPT ![w] = <<>>]
    /\ event' = [event EXCEPT ![w] = "gone"]
    /\ UNCHANGED <<workers, pool, sender, sender_count, peers, connect, divide, tick,
                   stop, fault>>
-------------------------------------------------------------------------------
Connect   == (\E w \in Workers : ConnectAccept(w) \/ ConnectFaults(w)) \/ ConnectSettings \/ ConnectApplied
Divide(d) == DivideAssign(d) \/ DivideCount(d) \/ DivideCountsNone(d) \/ BundleEnqueue(d)
             \/ BundleFaults(d) \/ BundlePost(d) \/ BundlesJoined(d)
Sender(s) == SenderWait(s) \/ SenderTake(s) \/ SenderQueue(s) \/ SenderSend(s)
             \/ SenderReturn(s) \/ SenderFaults(s)
Event(w)  == EventInvalid(w) \/ EventIntegrate(w) \/ EventFaults(w) \/ EventSave(w)
             \/ EventSaveFaults(w) \/ EventPop(w) \/ EventCount(w)
             \/ AllBundlesClose(w) \/ AllBundlesDone(w) \/ EventClosed(w)
             \/ CleanupRepool(w) \/ CleanupPost(w) \/ CleanupFreeQueue(w)
             \/ CleanupUnlink(w) \/ CleanupFree(w)

Next == \/ Connect \/ MainLaunch \/ MainExit
        \/ \E d \in Dividers : Divide(d)
        \/ \E s \in Senders : Sender(s)
        \/ \E w \in Workers : Event(w) \/ WorkerDies(w)

Spec == Init /\ [][Next]_vars

(* The operating system runs every thread; the operator presses ENTER; a     *)
(* live worker answers (part of Event).  Workers need not connect or die.    *)
FairSpec ==
    /\ Spec
    /\ WF_vars(Connect) /\ WF_vars(MainLaunch) /\ WF_vars(MainExit)
    /\ \A d \in Dividers : WF_vars(Divide(d))
    /\ \A s \in Senders : WF_vars(Sender(s))
    /\ \A w \in Workers : WF_vars(Event(w))
-------------------------------------------------------------------------------
Hands == [pc: {"wait", "take", "queue", "send", "return"},
          link: Workers \cup {NULL}, bundle: Bundles \cup {NULL}]

(* Every queue, semaphore, counter and thread keeps to its type.              *)
TypeOK ==
    /\ workers \in LQ!Queues
    /\ bundles \in Seq(Bundles) /\ start_sending \in Nat
    /\ sender \in [Senders -> Hands] /\ sender_count \in Int
    /\ event \in [Workers -> {"absent", "receive", "save", "save_last", "pop", "done",
                              "all_done", "reopen", "divide",
                              "repool", "repost", "unlink", "free", "gone"}]
    /\ workunit_queue \in [Workers -> Seq(Bundles)]
    /\ alive \in [Workers -> BOOLEAN]
    /\ owes \in [Workers -> Seq(Units \cup {Settings})]
    /\ freed \subseteq (Workers \cup Bundles)
    /\ connect \in [pc: {"accept", "settings", "applied"}, worker: Workers \cup {NULL}]
    /\ divide \in [Dividers -> [pc: {"none", "assign", "count", "bundle", "done"},
                                keys: SUBSET SUBSET CellIds,
                                posts: SUBSET SUBSET CellIds]]
    /\ cells \in 0..TicksCnt /\ total_bundles \in Int /\ bundles_done \in Nat
    /\ ticks_done \in Nat /\ new_dataset \in [CellIds -> 0..TicksCnt]
    /\ fp \in 0..TicksCnt /\ unsaved \in [Workers -> 0..TicksCnt]
    /\ exit_sem \in Nat /\ exited \in BOOLEAN /\ losses \in 0..MaxLosses
    /\ mishaps \subseteq Mishaps
    /\ fault \in {"none", "use after free", "closed file", "endless bundles",
                "endless list"}

(* No thread of the dispatcher uses freed memory or a closed file, walks a   *)
(* circular list or makes bundles for no worker at all, unless one of        *)
(* Mishaps has happened before.                                              *)
NoFault == mishaps = {} => fault = "none"

(* The semaphore start_sending, with the tokens in hand or about to be       *)
(* posted, counts the pool exactly: no bundle is stranded without a token,   *)
(* and a sender that got a token finds a bundle (sender_thread.c:28-38), even *)
(* as senders put tokens back and lost workers' bundles return to the pool.  *)
TokensMatchPool ==
    start_sending + Cardinality({s \in Senders : sender[s].pc = "take"})
        + Cardinality({p \in Dividers \X SUBSET CellIds : p[2] \in divide[p[1]].posts})
        + Cardinality({w \in Workers : event[w] = "repost"})
    = Len(bundles)

(* A bundle is in one place at a time: once in the pool, or with the sender  *)
(* that took it, or once in the queue of one worker.  Neither the return of  *)
(* a lost worker's bundles nor a second sender makes another copy.  In one   *)
(* tick that is so whatever happens; later, while no mishap has happened.    *)
Places(b) ==
    {<<"pool", i>> : i \in {i \in DOMAIN bundles : bundles[i] = b}}
    \cup {<<"sender", s>> : s \in {s \in Senders : sender[s].pc = "queue"
                                                   /\ sender[s].bundle = b}}
    \cup UNION {{<<w, i>> : i \in {i \in DOMAIN workunit_queue[w] :
                                    workunit_queue[w][i] = b}} : w \in Workers}
BundleInOnePlace ==
    TicksCnt = 1 \/ mishaps = {} => \A b \in Bundles : Cardinality(Places(b)) <= 1

(* Two senders never hold the same worker: its link is popped by one of      *)
(* them, and the other links keep the list whole (sender_thread.c:34, 58),   *)
(* as long as nobody is lost and every worker was there at the launch.  That *)
(* is so for one tick; in a later one a link that was enqueued with its old  *)
(* next (queue_enqueue.c:41) has made the list circular, and a worker comes  *)
(* out of it twice.                                                          *)
Undisturbed == losses = 0 /\ sender_count \in {0, N}
SingleHolder ==
    Undisturbed => \A s, t \in Senders :
                      s # t /\ sender[s].link = sender[t].link => sender[s].link = NULL

(* With as many bundles as workers the round robin of a tick in which nobody  *)
(* is lost or late gives each worker one: none is sent a second bundle while *)
(* another one waits for its first.                                          *)
OneBundleEach ==
    Undisturbed => \A w \in Workers : Len(workunit_queue[w]) <= 1

(* No cell of the current tick is forgotten: until its result is in the new  *)
(* dataset, a bundle with it is still to be made, in the pool, with a sender, *)
(* or in the queue of a worker that will answer it, or whose event thread    *)
(* will put it back ("adding lost worker's bundle back to the pool!",        *)
(* cleanup_worker.c:23).  Three mishaps do lose one: a bundle queued for a   *)
(* worker after its bundles went back, a result taken for the reply to the   *)
(* settings, and, when its worker is lost after it, a flag that came early.  *)
Owed(w, c) == \E i \in DOMAIN owes[w] : /\ owes[w][i].type = "WORK_UNIT_DONE"
                                        /\ owes[w][i].id = c
PutBack(w) == ~alive[w] /\ event[w] \notin {"unlink", "free", "gone"}
Remembered(c) ==
    \/ new_dataset[c] = cells
    \/ \E d \in Dividers : divide[d].pc = "count" \/ c \in UNION divide[d].keys
    \/ \E i \in DOMAIN bundles : c \in bundles[i].keys
    \/ \E s \in Senders : /\ sender[s].pc = "queue" \/ (sender[s].pc = "send"
                                                        /\ alive[sender[s].link])
                          /\ c \in sender[s].bundle.keys
    \/ \E w \in Workers :
        \/ Owed(w, c)
        \/ PutBack(w) /\ \E i \in DOMAIN workunit_queue[w] : c \in workunit_queue[w][i].keys
CellsRemembered ==
    /\ Running /\ cells # 0
    /\ mishaps \cap {"reply", "orphan"} = {} /\ (losses = 0 \/ "flag" \notin mishaps)
    => \A c \in CellIds : Remembered(c)

(* "all workunits done for this tick" (all_workunits_done.c:18): a tick ends *)
(* with the result of every cell of that tick in the new dataset.            *)
TickComplete ==
    [][ticks_done' # ticks_done => \A c \in CellIds : new_dataset[c] = ticks_done + 1]_vars

(* A result is written to the file of its own tick: nobody closes or changes *)
(* the file while an event thread has still a result to write, though the    *)
(* one that closes it does not hold output_mutex (all_workunits_done.c:22).  *)
(* The accounts of the tick see to it, until the first mishap.               *)
SavesInOwnFile == mishaps = {} => \A w \in Workers : unsaved[w] # 0 => fp = unsaved[w]

(* Seen from outside, senders, workers and event threads together compute     *)
(* tick after tick: no tick ends before its cells are all there, no result    *)
(* of another tick gets into its dataset, no result that is there is undone,  *)
(* and the program does not end early (all_workunits_done.c), up to the      *)
(* first mishap: the step that records one, and those after it, are free.    *)
Computed == {c \in CellIds : new_dataset[c] = ticks_done + 1}
Ticks == INSTANCE TickService WITH computed <- Computed, over <- exited
ImplementsTicks ==
    Ticks!Init /\ [][mishaps' = {} => Ticks!Next]_<<ticks_done, Computed, exited>>

(* main.c:56: launch_simulation "blocks thread until all workers are done":  *)
(* once launched, the simulation ends, or something has gone wrong on the way. *)
SimulationCompletes == divide[Main].pc # "none" ~> exited \/ mishaps # {}
===============================================================================
