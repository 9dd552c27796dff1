------------------------------ MODULE Connection ------------------------------
(***************************************************************************)
(* The connection between the dispatcher and one worker, from accept to its  *)
(* end: messages framed on a byte stream by send_worker_msg / send_msg and   *)
(* receive_msg, the exchange of the settings, then bundles and results, and  *)
(* either process going away at any time.                                    *)
(*                                                                          *)
(* Two threads of the dispatcher write to the socket (the connect thread the *)
(* settings, a sender thread the bundles) and so do two of the worker (the   *)
(* event thread the reply, the sender thread the results).  No lock keeps    *)
(* them apart: when two send at a time their bytes may mix.  A send blocks   *)
(* when the buffer is full.                                                  *)
(*                                                                          *)
(* A message is HeaderSize bytes, then the bytes of its body.  receive_msg   *)
(* takes the header with one recv, which gets what is there by then.         *)
(* The worker's calculation lies between receiving a bundle and sending its  *)
(* one result; the result remembers whether the settings were there.         *)
(***************************************************************************)
EXTENDS Integers, Sequences, SequencesExt

CONSTANTS
    BundleCnt,      \* bundles the sender threads have for this worker
    HeaderSize,     \* HEADER_SIZE
    BodySize,       \* the size of the body of a bundle or a result
    Capacity        \* of the socket buffers of one direction

ASSUME ConnectionAssumption ==
    {BundleCnt, HeaderSize, BodySize, Capacity} \subseteq Nat \ {0}

Directions == {"down", "up"}        \* to the worker, to the dispatcher
Writers    == {"connect", "sender", "w_event", "w_sender"}
Way(t)     == IF t \in {"connect", "sender"} THEN "down" ELSE "up"

Message(id, b, s) == [id |-> id, of |-> b, settled |-> s]
Settings  == Message("WORKER_SETTINGS", 0, TRUE)
Applied   == Message("SETTINGS_APPLIED", 0, TRUE)
Bundle(b) == Message("WORK_UNIT", b, TRUE)
Result(b, s) == Message("WORK_UNIT_DONE", b, s)
Garbage   == Message("garbage", 0, TRUE)    \* bytes that are no message's
Messages  == {Settings, Applied} \cup {Bundle(b) : b \in 1..BundleCnt}
             \cup {Result(b, s) : b \in 1..BundleCnt, s \in BOOLEAN}

(* A body is never empty: the reply carries " ".                             *)
Size(m) == IF m.id \in {"WORKER_SETTINGS", "SETTINGS_APPLIED"} THEN 1 ELSE BodySize

VARIABLES
    running,    \* the worker connects while the senders are at work
    stops,      \* somebody may stop a process, or it breaks
    out,        \* writer -> the bytes of its message still to be written
    stream,     \* direction -> the bytes in the socket
    open,       \* direction -> the process that writes it has its end open
    reading,    \* direction -> its reading thread runs
    reader,     \* direction -> the message being received, its bytes so far
    connect,    \* the connect thread: "settings", "reply", "done"
    active,     \* the dispatcher's worker->active
    bundles,    \* bundles sent or being sent
    settled,    \* the worker has applied the settings
    results,    \* the results the worker has still to send
    integrated, \* the results the dispatcher handled
    sent,       \* direction -> the messages whose sends began
    received,   \* direction -> the messages receive_msg returned
    cut,        \* history: a header was received before all of it was there
    raced       \* history: a send began while another thread's was under way

net  == <<stream, open, reading, reader>>
peer == <<settled, results>>
disp == <<connect, active, integrated>>
vars == <<running, stops, out, net, bundles, peer, disp, sent, received, cut, raced>>

Header == [msg |-> Garbage, got |-> -1]     \* a header comes next

Init ==
    /\ running \in BOOLEAN /\ stops \in BOOLEAN
    /\ out = [t \in Writers |-> <<>>]
    /\ stream = [d \in Directions |-> <<>>] /\ open = [d \in Directions |-> TRUE]
    /\ reading = [d \in Directions |-> TRUE] /\ reader = [d \in Directions |-> Header]
    /\ connect = "settings" /\ active = FALSE /\ integrated = <<>>
    /\ bundles = 0 /\ settled = FALSE /\ results = <<>>
    /\ sent = [d \in Directions |-> <<>>] /\ received = [d \in Directions |-> <<>>]
    /\ cut = FALSE /\ raced = FALSE
-------------------------------------------------------------------------------
(* send_worker_msg, send_msg                                                 *)

Bytes(m) == [k \in 1..(HeaderSize + Size(m)) |-> [msg |-> m, at |-> k]]

(* The thread has nothing else to write.  What others write is not looked at.*)
MaySend(t) == out[t] = <<>> /\ open[Way(t)]

Others(t) == {o \in Writers \ {t} : Way(o) = Way(t)}

SendBegins(t, m) ==
    /\ MaySend(t)
    /\ out' = [out EXCEPT ![t] = Bytes(m)]
    /\ sent' = [sent EXCEPT ![Way(t)] = Append(@, m)]
    /\ raced' = (raced \/ \E o \in Others(t) : out[o] # <<>>)

Other(d) == IF d = "up" THEN "down" ELSE "up"

(* A byte goes into the socket when there is room.                           *)
Write(t) == LET d == Way(t) IN
    /\ out[t] # <<>> /\ open[Other(d)] /\ Len(stream[d]) < Capacity
    /\ stream' = [stream EXCEPT ![d] = Append(@, Head(out[t]))]
    /\ out' = [out EXCEPT ![t] = Tail(@)]
    /\ UNCHANGED <<running, stops, cut, open, reading, reader, bundles, peer, disp, sent, raced, received>>

(* The other process is gone: send fails.  On the dispatcher's side the      *)
(* worker is marked inactive, on the worker's side SIGPIPE ends it anyway.   *)
SendFails(t) == LET d == Way(t) IN
    /\ out[t] # <<>> /\ ~open[Other(d)]
    /\ out' = [out EXCEPT ![t] = <<>>]
    /\ active' = (active /\ d # "down")
    /\ UNCHANGED <<running, stops, cut, net, bundles, peer, connect, integrated, sent, raced, received>>
-------------------------------------------------------------------------------
(* What the threads send, and when                                           *)

(* configure_worker_settings, called by the connect thread.                  *)
ConfigureSends ==
    /\ connect = "settings" /\ SendBegins("connect", Settings)
    /\ connect' = "reply"
    /\ UNCHANGED <<running, stops, cut, net, bundles, peer, active, integrated, received>>

(* Mutant of MayTake: senders are started before the worker is configured.   *)
MayTakeEarly == TRUE

(* A sender thread can have taken the worker from the queue, where it is     *)
(* since before its settings were sent.                                      *)
MayTake == running \/ connect = "done"

SenderSends ==
    /\ bundles < BundleCnt /\ MayTake
    /\ SendBegins("sender", Bundle(bundles + 1))
    /\ bundles' = bundles + 1
    /\ UNCHANGED <<running, stops, cut, net, peer, disp, received>>

(* The worker's sender thread, with the oldest completed work.               *)
WorkerSends ==
    /\ results # <<>> /\ SendBegins("w_sender", Head(results))
    /\ results' = Tail(results)
    /\ UNCHANGED <<running, stops, cut, net, bundles, settled, disp, received>>
-------------------------------------------------------------------------------
(* receive_msg, and what is done with the message                            *)

(* The dispatcher's connect thread reads up to the reply, then the event     *)
(* thread; the worker's event thread reads when it is not writing the reply. *)
Reads(d) ==
    /\ reading[d]
    /\ IF d = "down" THEN out["w_event"] = <<>>
       ELSE connect = "done" \/ (connect = "reply" /\ out["connect"] = <<>>)

(* The worker's event thread: settings are applied and answered, a bundle    *)
(* will make a result, computed with the settings of now.                    *)
WorkerHandles(m) ==
    /\ UNCHANGED <<reading, disp>>
    /\ \/ /\ m = Settings
          /\ settled' = TRUE /\ UNCHANGED results
          /\ SendBegins("w_event", Applied)
       \/ /\ m.id = "WORK_UNIT"
          /\ results' = Append(results, Result(m.of, settled))
          /\ UNCHANGED <<settled, out, sent, raced>>
       \/ /\ m \notin {Settings} /\ m.id # "WORK_UNIT"
          /\ UNCHANGED <<settled, results, out, sent, raced>>

(* Mutant of Started: the event thread does not mark the worker active.      *)
StartedInactive == active

(* worker->active once the event thread runs.                                *)
Started == active \/ connect # "done"

(* Mutant of Integrates: the id is not looked at.                            *)
IntegratesAny(m) == connect = "done"

(* handle_worker_msg: which messages are results.                            *)
Integrates(m) == connect = "done" /\ m.id = "WORK_UNIT_DONE"

(* The connect thread drops whatever message comes in place of the reply and *)
(* starts the event thread, which sets active; that one handles results and  *)
(* goes on while active.                                                     *)
DispatcherHandles(m) ==
    /\ connect' = "done"
    /\ active' = Started
    /\ reading' = [reading EXCEPT !["up"] = active']
    /\ integrated' = IF Integrates(m) THEN Append(integrated, m) ELSE integrated
    /\ UNCHANGED <<peer, out, sent, raced>>

Handles(d, m) == IF d = "up" THEN DispatcherHandles(m) ELSE WorkerHandles(m)

(* read_header: all of it is there.  The size is taken from what was read.   *)
RecvHeader(d) == LET head == SubSeq(stream[d], 1, HeaderSize) IN
    /\ Reads(d) /\ reader[d] = Header /\ Len(stream[d]) >= HeaderSize
    /\ reader' = [reader EXCEPT ![d] =
            [msg |-> IF IsPrefix(head, Bytes(head[1].msg)) THEN head[1].msg ELSE Garbage,
             got |-> 0]]
    /\ stream' = [stream EXCEPT ![d] = SubSeq(@, HeaderSize + 1, Len(@))]
    /\ UNCHANGED <<running, stops, cut, out, open, reading, bundles, peer, disp, sent, raced, received>>

(* read_header got less, "bad msg header": a message of no kind is handled.  *)
(* The dispatcher tests a recv_bytes it never set, so its thread may end.    *)
RecvShortHeader(d) ==
    /\ Reads(d) /\ reader[d] = Header
    /\ Len(stream[d]) \in 1..(HeaderSize - 1)
    /\ cut' = (cut \/ open[d])
    /\ stream' = [stream EXCEPT ![d] = <<>>]
    /\ Handles(d, Garbage)
    /\ UNCHANGED <<running, stops, open, reader, bundles, received>>

(* Mutant of ReadEnds: only an error of recv ends the thread.                *)
ReadEndsNot(d) ==
    reader' = [reader EXCEPT ![d] = Header] /\ UNCHANGED <<connect, active, reading>>

(* After recv returned 0: the thread leaves its loop; the connect thread      *)
(* goes on to start the event thread.                                        *)
ReadEnds(d) ==
    /\ IF d = "up" /\ connect # "done"
       THEN connect' = "done" /\ active' = TRUE /\ UNCHANGED reading
       ELSE /\ reading' = [reading EXCEPT ![d] = FALSE]
            /\ active' = (active /\ d # "up") /\ UNCHANGED connect
    /\ reader' = [reader EXCEPT ![d] = Header]

RecvShortHeaderEnds ==
    /\ Reads("up") /\ reader["up"] = Header /\ connect = "done"
    /\ Len(stream["up"]) \in 1..(HeaderSize - 1)
    /\ cut' = (cut \/ open["up"])
    /\ stream' = [stream EXCEPT !["up"] = <<>>]
    /\ ReadEnds("up")
    /\ UNCHANGED <<running, stops, out, open, bundles, peer, integrated, sent, raced, received>>

(* Mutants of Complete: read_body does not loop; it stops a byte short.      *)
CompleteAtOnce(m, got) == got > 0
CompleteShort(m, got) == got + 1 >= Size(m)

(* read_body asks for more until it has it all.                              *)
Complete(m, got) == got = Size(m)

RecvBody(d) == \E n \in 1..(Size(reader[d].msg) - reader[d].got) :
    LET got  == reader[d].got
        mine == SubSeq(Bytes(reader[d].msg), HeaderSize + got + 1, HeaderSize + got + n)
        m    == IF SubSeq(stream[d], 1, n) = mine THEN reader[d].msg ELSE Garbage
    IN
    /\ Reads(d) /\ reader[d] # Header /\ n <= Len(stream[d])
    /\ stream' = [stream EXCEPT ![d] = SubSeq(@, n + 1, Len(@))]
    /\ IF Complete(m, got + n)
       THEN /\ received' = [received EXCEPT ![d] = Append(@, m)]
            /\ reader' = [reader EXCEPT ![d] = Header]
            /\ Handles(d, m)
       ELSE /\ reader' = [reader EXCEPT ![d] = [msg |-> m, got |-> got + n]]
            /\ UNCHANGED <<out, reading, peer, disp, sent, raced, received>>
    /\ UNCHANGED <<running, stops, cut, open, bundles>>

(* recv returns 0: a message half received is not handled and the thread     *)
(* ends.  The connect thread starts the event thread, which gets 0 again.    *)
RecvEnd(d) ==
    /\ Reads(d) /\ stream[d] = <<>> /\ ~open[d]
    /\ ReadEnds(d)
    /\ UNCHANGED <<running, stops, cut, out, stream, open, bundles, peer, integrated, sent, raced, received>>
-------------------------------------------------------------------------------
(* A process goes: what its threads were writing is cut, and any end of what *)
(* it had written may be lost on the way.                                    *)
Goes(d) ==
    /\ open[d]
    /\ open' = [open EXCEPT ![d] = FALSE]
    /\ \E n \in 0..Len(stream[d]) :
            stream' = [stream EXCEPT ![d] = SubSeq(@, 1, n), ![Other(d)] = <<>>]
    /\ out' = [t \in Writers |-> IF Way(t) = d THEN <<>> ELSE out[t]]
    /\ reading' = [reading EXCEPT ![Other(d)] = FALSE]
    /\ UNCHANGED <<running, stops, cut, reader, bundles, peer, disp, sent, raced, received>>

(* The worker is stopped, or breaks.                                         *)
WorkerGoes == stops /\ Goes("up")

(* The worker's main after its event thread posted exit_sem.                 *)
WorkerExits == ~reading["down"] /\ Goes("up")

(* The dispatcher is stopped, breaks, or has done its last tick.             *)
DispatcherGoes == stops /\ Goes("down")

(* cleanup_worker after the event thread's loop: the socket is closed.       *)
CleanupCloses == ~reading["up"] /\ Goes("down")

Next ==
    \/ \E t \in Writers : Write(t) \/ SendFails(t)
    \/ ConfigureSends \/ SenderSends \/ WorkerSends
    \/ \E d \in Directions :
            RecvHeader(d) \/ RecvShortHeader(d) \/ RecvBody(d) \/ RecvEnd(d)
    \/ RecvShortHeaderEnds
    \/ WorkerGoes \/ WorkerExits \/ DispatcherGoes \/ CleanupCloses

Spec == Init /\ [][Next]_vars

(* Every thread runs when it can; nobody has to stop a process.              *)
Fairness ==
    /\ \A t \in Writers : WF_vars(Write(t) \/ SendFails(t))
    /\ WF_vars(ConfigureSends) /\ WF_vars(SenderSends) /\ WF_vars(WorkerSends)
    /\ \A d \in Directions :
            WF_vars(RecvHeader(d) \/ RecvShortHeader(d) \/ RecvBody(d) \/ RecvEnd(d))
    /\ WF_vars(WorkerExits) /\ WF_vars(CleanupCloses)

FairSpec == Spec /\ Fairness
-------------------------------------------------------------------------------
(* Every variable keeps its type.                                            *)
TypeOK ==
    /\ {running, stops, cut, raced} \subseteq BOOLEAN /\ active \in BOOLEAN /\ settled \in BOOLEAN
    /\ \A t \in Writers : Len(out[t]) <= HeaderSize + BodySize + 1
    /\ \A d \in Directions : Len(stream[d]) <= Capacity
    /\ open \in [Directions -> BOOLEAN] /\ reading \in [Directions -> BOOLEAN]
    /\ reader \in [Directions -> [msg : Messages \cup {Garbage}, got : -1..BodySize]]
    /\ connect \in {"settings", "reply", "done"}
    /\ bundles \in 0..BundleCnt
    /\ {results, integrated} \subseteq Seq(Messages)
    /\ sent \in [Directions -> Seq(Messages)]
    /\ received \in [Directions -> Seq(Messages \cup {Garbage})]

(* Nothing has gone wrong unnoticed: every header was received whole, and no *)
(* two threads sent at a time, which for a worker that connects before the   *)
(* launch goes without saying.                                               *)
Sound == ~cut /\ (running => ~raced)

(* Down, the worker receives the very messages the dispatcher sent, whole,   *)
(* each once and in order, however their bodies are cut and whenever an end  *)
(* goes, until a header is cut (receive_msg.c:42) or, if the worker connects *)
(* while the senders run, two threads send at a time.                        *)
DownIsAChannel == INSTANCE Channel WITH sent <- sent["down"], received <- received["down"]
ChannelDown ==
    DownIsAChannel!Init
    /\ [][Sound' => DownIsAChannel!Next]_<<sent["down"], received["down"]>>

(* Up, the dispatcher receives the very messages the worker sent, though the *)
(* reader changes from the connect thread to the event thread and the worker's*)
(* event thread and sender thread write without a lock (W/event_thread.c:19).*)
UpIsAChannel == INSTANCE Channel WITH sent <- sent["up"], received <- received["up"]
ChannelUp ==
    UpIsAChannel!Init
    /\ [][Sound' => UpIsAChannel!Next]_<<sent["up"], received["up"]>>

(* A worker that connects before the launch computes nothing before it has   *)
(* the time step and the softening of the run (configure_simulation.c).      *)
SettingsFirst ==
    ~running => \A k \in DOMAIN results : results[k].settled

(* What comes in place of the reply is the reply, for a worker that connects *)
(* before the launch: no result is dropped by the connect thread, and the    *)
(* results handled are those of the bundles, from the first on.              *)
ResultsKept ==
    ~running /\ ~cut => \A k \in DOMAIN integrated : integrated[k] = Result(k, TRUE)

(* Unless a process is stopped, every bundle sent to a worker that connected *)
(* before the launch has its result handled: no send waits for ever, no      *)
(* message is left half received, no thread leaves its loop.                 *)
AllAnswered == ~running /\ ~stops ~> Len(integrated) = BundleCnt \/ cut

(* When one process goes, the other notices and closes its end too.          *)
BothClose == (~open["up"] \/ ~open["down"]) ~> (~open["up"] /\ ~open["down"])
===============================================================================
