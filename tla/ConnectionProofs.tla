--------------------------- MODULE ConnectionProofs ---------------------------
(***************************************************************************)
(* Proofs about the connection of a worker, for any number of bundles and    *)
(* any sizes of the messages and of the socket buffers.                      *)
(*                                                                          *)
(* Settings come before work, also when sends mix and headers come in        *)
(* pieces: until the worker has applied its settings it sends nothing, so    *)
(* the connect thread is not answered and no bundle is sent: the bytes on    *)
(* the way down are harmless.  The connect thread goes on without an answer  *)
(* only when the worker is gone.                                             *)
(*                                                                          *)
(* Each direction carries whole messages, each once and in order, until a    *)
(* header is cut in transit or two threads write at a time, which for a      *)
(* worker that connects before the launch they never do: the bytes on the way *)
(* and those still to be written are those of the messages sent and not      *)
(* received, one after the other, from the place the reader has come to.     *)
(* Nothing but a tail is missing, and that only when the writer is gone.     *)
(***************************************************************************)
EXTENDS Connection, SequenceTheorems, TLAPS

Anything == Messages \cup {Garbage}
Byte     == [msg : Anything, at : Nat]
Harmless == {b \in Byte : b.msg.id # "WORK_UNIT"}
Informed == {m \in Messages : m.settled}

Shape ==
    /\ settled \in BOOLEAN /\ bundles \in Nat
    /\ open \in [Directions -> BOOLEAN] /\ DOMAIN reading = Directions
    /\ out \in [Writers -> Seq(Byte)] /\ stream \in [Directions -> Seq(Byte)]
    /\ reader \in [Directions -> [msg : Anything, got : Int]]
    /\ results \in Seq(Messages)

WorkerSilent ==
    /\ out["w_event"] = <<>> /\ out["w_sender"] = <<>>
    /\ stream["up"] = <<>> /\ results = <<>>

NoBundleSent ==
    /\ out["sender"] = <<>> /\ out["connect"] \in Seq(Harmless)
    /\ stream["down"] \in Seq(Harmless) /\ reader["down"].msg.id # "WORK_UNIT"

Unsettled ==
    /\ WorkerSilent
    /\ connect = "done" => ~reading["down"]
    /\ reading["down"] => NoBundleSent

Inv ==
    /\ Shape
    /\ ~open["up"] => ~reading["down"]
    /\ ~running => results \in Seq(Informed)
    /\ ~running /\ ~settled => Unsettled
-------------------------------------------------------------------------------
LEMMA MessageFacts ==
    /\ Garbage \in Anything /\ Settings \in Messages /\ Applied \in Messages
    /\ Garbage.id # "WORK_UNIT" /\ Settings.id # "WORK_UNIT" /\ Applied.id # "WORK_UNIT"
    /\ \A b \in 1..BundleCnt : Bundle(b) \in Messages
    /\ \A m \in Anything, s \in BOOLEAN :
          m.id = "WORK_UNIT" => Result(m.of, s) \in Messages /\ Result(m.of, s).settled = s
    /\ \A m \in Anything : Size(m) \in Nat
  <1>1. /\ Garbage \in Anything /\ Settings \in Messages /\ Applied \in Messages
        /\ \A b \in 1..BundleCnt : Bundle(b) \in Messages
        /\ \A b \in 1..BundleCnt, s \in BOOLEAN : Result(b, s) \in Messages
    BY DEF Anything, Messages
  <1>2. Garbage.id # "WORK_UNIT" /\ Settings.id # "WORK_UNIT" /\ Applied.id # "WORK_UNIT"
    BY DEF Garbage, Settings, Applied, Message
  <1>3. ASSUME NEW m \in Anything, m.id = "WORK_UNIT"
        PROVE  m.of \in 1..BundleCnt
    <2>1. CASE \E b \in 1..BundleCnt, s \in BOOLEAN : m = Result(b, s)
      BY <1>3, <2>1 DEF Result, Message
    <2>2. CASE \E b \in 1..BundleCnt : m = Bundle(b)
      BY <2>2 DEF Bundle, Message
    <2>3. QED
      BY <1>2, <1>3, <2>1, <2>2 DEF Anything, Messages
  <1>4. \A b, s : Result(b, s).settled = s
    BY DEF Result, Message
  <1>5. \A m : Size(m) \in Nat
    BY ConnectionAssumption DEF Size
  <1>6. QED
    BY <1>1, <1>2, <1>3, <1>4, <1>5

(* The bytes of a message are bytes, harmless when the message is no bundle. *)
LEMMA BytesFacts ==
    ASSUME NEW m \in Anything
    PROVE  Bytes(m) \in Seq(Byte) /\ (m.id # "WORK_UNIT" => Bytes(m) \in Seq(Harmless))
  <1>1. HeaderSize + Size(m) \in Nat
    BY ConnectionAssumption, MessageFacts
  <1>2. \A k \in 1..(HeaderSize + Size(m)) : [msg |-> m, at |-> k] \in Byte
    BY <1>1 DEF Byte
  <1>3. Bytes(m) \in [1..(HeaderSize + Size(m)) -> Byte]
    BY <1>2 DEF Bytes
  <1>4. m.id # "WORK_UNIT" => Bytes(m) \in [1..(HeaderSize + Size(m)) -> Harmless]
    BY <1>2 DEF Bytes, Harmless
  <1>5. QED
    BY <1>1, <1>3, <1>4, SeqDef

(* What is left or taken of a sequence has its elements.                     *)
LEMMA PartOf ==
    ASSUME NEW S, NEW s \in Seq(S)
    PROVE  /\ s # <<>> => Tail(s) \in Seq(S) /\ Head(s) \in S
           /\ \A n \in Nat : n <= Len(s) => SubSeq(s, n + 1, Len(s)) \in Seq(S)
           /\ \A n \in Nat : n <= Len(s) => SubSeq(s, 1, n) \in Seq(S)
  <1>1. Len(s) \in Nat /\ \A i \in 1..Len(s) : s[i] \in S
    BY LenProperties, ElementOfSeq
  <1>2. s # <<>> => Tail(s) \in Seq(S) /\ Head(s) \in S
    BY HeadTailProperties
  <1>3. ASSUME NEW n \in Nat, n <= Len(s) PROVE SubSeq(s, n + 1, Len(s)) \in Seq(S)
    <2>1. \A i \in (n + 1)..Len(s) : s[i] \in S
      BY <1>1
    <2>2. QED
      BY <1>1, <2>1, SubSeqProperties
  <1>4. ASSUME NEW n \in Nat, n <= Len(s) PROVE SubSeq(s, 1, n) \in Seq(S)
    <2>1. \A i \in 1..n : s[i] \in S
      BY <1>1, <1>4
    <2>2. QED
      BY <1>1, <2>1, SubSeqProperties
  <1>5. QED
    BY <1>2, <1>3, <1>4
-------------------------------------------------------------------------------
LEMMA InitInv == Init => Inv
  <1> SUFFICES ASSUME Init PROVE Inv
    OBVIOUS
  <1>1. \A S : <<>> \in Seq(S)
    BY EmptySeq
  <1>2. Header \in [msg : Anything, got : Int] /\ Header.msg.id # "WORK_UNIT"
    BY MessageFacts DEF Header
  <1>3. Shape
    BY <1>1, <1>2 DEF Init, Shape
  <1>4. Unsettled
    <2>1. {"w_event", "w_sender", "sender", "connect"} \subseteq Writers
          /\ {"up", "down"} \subseteq Directions
      BY DEF Writers, Directions
    <2>2. QED
      BY <1>1, <1>2, <2>1 DEF Init, Unsettled, WorkerSilent, NoBundleSent
  <1>5. QED
    BY <1>1, <1>3, <1>4 DEF Init, Inv, Directions

(* A send that begins: the bytes are those of its message.                   *)
LEMMA SendKeeps ==
    ASSUME Shape, NEW t \in Writers, NEW m \in Messages, SendBegins(t, m)
    PROVE  /\ out' \in [Writers -> Seq(Byte)]
           /\ \A u \in Writers : u # t => out'[u] = out[u]
           /\ m.id # "WORK_UNIT" => out'[t] \in Seq(Harmless)
           /\ open[Way(t)]
  BY BytesFacts DEF Shape, SendBegins, MaySend, Anything

(* What the worker does with a message.                                      *)
LEMMA HandlesKeeps ==
    ASSUME Inv, NEW m \in Anything, WorkerHandles(m), Reads("down"),
           m.id = "WORK_UNIT" => settled \/ running,
           open' = open, running' = running, connect' = connect, bundles' = bundles,
           stream' \in [Directions -> Seq(Byte)], stream'["up"] = stream["up"],
           reader' \in [Directions -> [msg : Anything, got : Int]],
           ~running /\ ~settled => stream'["down"] \in Seq(Harmless),
           reader'["down"] = Header
    PROVE  Inv'
  <1>1. Shape /\ reading["down"] /\ "down" \in Directions /\ "up" \in Directions
    BY DEF Inv, Reads, Directions
  <1>2. CASE m = Settings /\ settled' = TRUE /\ results' = results
             /\ SendBegins("w_event", Applied)
    <2>1. out' \in [Writers -> Seq(Byte)]
      BY <1>1, <1>2, SendKeeps, MessageFacts DEF Writers
    <2>2. Shape'
      BY <1>1, <1>2, <2>1 DEF Shape, WorkerHandles
    <2>3. QED
      BY <1>1, <1>2, <2>2 DEF Inv, WorkerHandles
  <1>3. CASE m.id = "WORK_UNIT" /\ results' = Append(results, Result(m.of, settled))
             /\ UNCHANGED <<settled, out, sent>>
    <2>1. Result(m.of, settled) \in Messages /\ Result(m.of, settled).settled = settled
      BY <1>1, <1>3, MessageFacts DEF Shape
    <2>2. results' \in Seq(Messages)
      BY <1>1, <1>3, <2>1, AppendProperties DEF Shape
    <2>3. ~running => settled
      BY <1>1, <1>3 DEF Shape
    <2>4. ~running => results' \in Seq(Informed)
      BY <1>3, <2>1, <2>3, AppendProperties DEF Inv, Informed
    <2>5. Shape'
      BY <1>1, <1>3, <2>2 DEF Shape, WorkerHandles
    <2>6. QED
      BY <1>1, <1>3, <2>3, <2>4, <2>5 DEF Inv, WorkerHandles
  <1>4. CASE UNCHANGED <<settled, results, out, sent>>
    <2>1. Shape'
      BY <1>1, <1>4 DEF Shape, WorkerHandles
    <2>2. Header.msg.id # "WORK_UNIT"
      BY DEF Header, Garbage, Message
    <2>3. QED
      BY <1>1, <1>4, <2>1, <2>2 DEF Inv, Unsettled, WorkerSilent, NoBundleSent, WorkerHandles
  <1>5. QED
    BY <1>2, <1>3, <1>4 DEF WorkerHandles, Reads
-------------------------------------------------------------------------------
LEMMA WriteKeeps == ASSUME Inv, NEW t \in Writers, Write(t) PROVE Inv'
  <1> USE DEF net, peer, disp
  <1> DEFINE d == Way(t)
  <1>1. d \in Directions /\ out[t] \in Seq(Byte) /\ out[t] # <<>> /\ stream[d] \in Seq(Byte)
    BY DEF Write, Inv, Shape, Way, Directions
  <1>2. Head(out[t]) \in Byte /\ Tail(out[t]) \in Seq(Byte)
    BY <1>1, PartOf
  <1>3. Shape'
    BY <1>1, <1>2, AppendProperties DEF Write, Inv, Shape
  <1>4. ASSUME ~running, ~settled, Unsettled PROVE Unsettled'
    <2>1. t \in {"connect", "sender"} /\ d = "down"
      BY <1>1, <1>4 DEF Unsettled, WorkerSilent, Writers, Way
    <2>2. WorkerSilent'
      BY <1>4, <2>1 DEF Write, Inv, Shape, Unsettled, WorkerSilent, Writers, Directions
    <2>3. ASSUME reading["down"], NoBundleSent PROVE NoBundleSent'
      <3>1. t = "connect"
        BY <1>1, <2>1, <2>3 DEF NoBundleSent
      <3>2. Head(out[t]) \in Harmless /\ Tail(out[t]) \in Seq(Harmless)
        BY <1>1, <2>3, <3>1, PartOf DEF NoBundleSent
      <3>3. Append(stream[d], Head(out[t])) \in Seq(Harmless)
        BY <2>1, <2>3, <3>2, AppendProperties DEF NoBundleSent
      <3>4. QED
        BY <2>1, <2>3, <3>1, <3>2, <3>3
        DEF Write, Inv, Shape, NoBundleSent, Writers, Directions
    <2>4. QED
      BY <1>4, <2>2, <2>3 DEF Unsettled, Write
  <1>5. QED
    BY <1>3, <1>4 DEF Inv, Write

LEMMA SendFailsKeeps == ASSUME Inv, NEW t \in Writers, SendFails(t) PROVE Inv'
  <1> USE DEF net, peer, disp
  <1>1. \A S : <<>> \in Seq(S)
    BY EmptySeq
  <1>2. Shape'
    BY <1>1 DEF SendFails, Inv, Shape, net, peer
  <1>3. Unsettled => Unsettled'
    BY <1>1 DEF SendFails, Inv, Shape, Unsettled, WorkerSilent, NoBundleSent, net, peer, Writers
  <1>4. QED
    BY <1>2, <1>3 DEF SendFails, Inv, net, peer

LEMMA SendsKeep == Inv /\ (ConfigureSends \/ SenderSends \/ WorkerSends) => Inv'
  <1> USE DEF net, peer, disp
  <1>0. {"connect", "sender", "w_event", "w_sender"} \subseteq Writers
    BY DEF Writers
  <1>1. ASSUME Inv, ConfigureSends PROVE Inv'
    <2>1. SendBegins("connect", Settings) /\ Shape
      BY <1>1 DEF ConfigureSends, Inv
    <2>2. /\ out' \in [Writers -> Seq(Byte)] /\ out'["connect"] \in Seq(Harmless)
          /\ \A u \in Writers : u # "connect" => out'[u] = out[u]
      BY <1>0, <2>1, SendKeeps, MessageFacts
    <2>3. Shape'
      BY <1>1, <2>1, <2>2 DEF ConfigureSends, Shape, net, peer
    <2>4. QED
      BY <1>0, <1>1, <2>2, <2>3
      DEF ConfigureSends, Inv, Unsettled, WorkerSilent, NoBundleSent, net, peer
  <1>2. ASSUME Inv, SenderSends PROVE Inv'
    <2>1. SendBegins("sender", Bundle(bundles + 1)) /\ Shape
      BY <1>2 DEF SenderSends, Inv
    <2>2. Bundle(bundles + 1) \in Messages
      <3>1. bundles + 1 \in 1..BundleCnt
        BY <1>2, <2>1, ConnectionAssumption DEF SenderSends, Shape
      <3>2. QED
        BY <3>1, MessageFacts
    <2>3. /\ out' \in [Writers -> Seq(Byte)]
          /\ \A u \in Writers : u # "sender" => out'[u] = out[u]
      BY <1>0, <2>1, <2>2, SendKeeps
    <2>4. Shape'
      BY <1>2, <2>1, <2>3 DEF SenderSends, Shape
    <2>5. QED
      BY <1>0, <1>2, <2>3, <2>4
      DEF SenderSends, MayTake, Inv, Unsettled, WorkerSilent, NoBundleSent
  <1>3. ASSUME Inv, WorkerSends PROVE Inv'
    <2>1. SendBegins("w_sender", Head(results)) /\ Shape /\ results # <<>>
      BY <1>3 DEF WorkerSends, Inv
    <2>2. /\ Head(results) \in Messages /\ Tail(results) \in Seq(Messages)
          /\ results \in Seq(Informed) => Tail(results) \in Seq(Informed)
      BY <2>1, PartOf DEF Shape
    <2>3. /\ out' \in [Writers -> Seq(Byte)]
          /\ \A u \in Writers : u # "w_sender" => out'[u] = out[u]
      BY <1>0, <2>1, <2>2, SendKeeps
    <2>4. Shape'
      BY <1>3, <2>1, <2>2, <2>3 DEF WorkerSends, Shape
    <2>5. QED
      BY <1>3, <2>1, <2>2, <2>4 DEF WorkerSends, Inv, Unsettled, WorkerSilent
  <1>4. QED
    BY <1>1, <1>2, <1>3
-------------------------------------------------------------------------------
LEMMA RecvHeaderKeeps == ASSUME Inv, NEW d \in Directions, RecvHeader(d) PROVE Inv'
  <1> USE DEF net, peer, disp
  <1> DEFINE head == SubSeq(stream[d], 1, HeaderSize)
             msg  == IF IsPrefix(head, Bytes(head[1].msg)) THEN head[1].msg ELSE Garbage
  <1>1. /\ stream[d] \in Seq(Byte) /\ Len(stream[d]) >= HeaderSize
        /\ HeaderSize \in Nat \ {0} /\ Shape
        /\ stream' = [stream EXCEPT ![d] = SubSeq(@, HeaderSize + 1, Len(@))]
        /\ reader' = [reader EXCEPT ![d] = [msg |-> msg, got |-> 0]]
    BY ConnectionAssumption DEF RecvHeader, Inv, Shape
  <1>2. ASSUME NEW S, stream[d] \in Seq(S)
        PROVE  head \in Seq(S) /\ head[1] \in S /\ SubSeq(stream[d], HeaderSize + 1, Len(stream[d])) \in Seq(S)
    <2>1. head \in Seq(S) /\ SubSeq(stream[d], HeaderSize + 1, Len(stream[d])) \in Seq(S)
      BY <1>1, <1>2, PartOf
    <2>2. \A i \in 1..HeaderSize : stream[d][i] \in Byte
      <3>1. Len(stream[d]) \in Nat
        BY <1>1, LenProperties
      <3>2. QED
        BY <1>1, <3>1, ElementOfSeq
    <2>3. Len(head) = HeaderSize
      BY <1>1, <2>2, SubSeqProperties
    <2>4. QED
      BY <1>1, <2>1, <2>3, ElementOfSeq
  <1>3. msg \in Anything /\ SubSeq(stream[d], HeaderSize + 1, Len(stream[d])) \in Seq(Byte)
    <2>1. head[1] \in Byte /\ SubSeq(stream[d], HeaderSize + 1, Len(stream[d])) \in Seq(Byte)
      BY <1>1, <1>2
    <2>2. head[1].msg \in Anything /\ Garbage \in Anything
      BY <2>1, MessageFacts DEF Byte
    <2>3. msg \in {head[1].msg, Garbage}
      OBVIOUS
    <2>4. QED
      BY <2>1, <2>2, <2>3
  <1>4. Shape'
    BY <1>1, <1>3 DEF RecvHeader, Shape
  <1>5. ASSUME ~running, ~settled, Unsettled PROVE Unsettled'
    <2>1. d = "down"
      <3>1. CASE d = "up"
        BY <1>1, <1>5, <3>1, EmptySeq DEF Unsettled, WorkerSilent
      <3>2. QED
        BY <3>1 DEF Directions
    <2>2. ASSUME NoBundleSent PROVE NoBundleSent'
      <3>1. stream["down"] \in Seq(Harmless)
        BY <2>2 DEF NoBundleSent
      <3>2. msg.id # "WORK_UNIT" /\ SubSeq(stream[d], HeaderSize + 1, Len(stream[d])) \in Seq(Harmless)
        <4>1. head[1] \in Harmless
              /\ SubSeq(stream[d], HeaderSize + 1, Len(stream[d])) \in Seq(Harmless)
          BY <1>2, <2>1, <3>1
        <4>2. head[1].msg.id # "WORK_UNIT" /\ Garbage.id # "WORK_UNIT"
          BY <4>1, MessageFacts DEF Harmless
        <4>3. msg \in {head[1].msg, Garbage}
          OBVIOUS
        <4>4. QED
          BY <4>1, <4>2, <4>3
      <3>3. QED
        BY <1>1, <2>1, <2>2, <3>2 DEF RecvHeader, Shape, NoBundleSent
    <2>3. QED
      BY <1>1, <1>5, <2>1, <2>2 DEF RecvHeader, Shape, Unsettled, WorkerSilent, Directions
  <1>6. QED
    BY <1>4, <1>5 DEF Inv, RecvHeader

(* While the worker has not its settings nothing comes up, so that the       *)
(* connect thread gets no message, whole or not.                             *)
LEMMA NothingComesUp ==
    ASSUME Inv, ~running, ~settled
    PROVE  Len(stream["up"]) = 0
  BY EmptySeq DEF Inv, Unsettled, WorkerSilent

(* The dispatcher's side changes nothing the worker has.                     *)
LEMMA DispatcherKeeps ==
    ASSUME Inv, running \/ settled, settled' = settled, running' = running,
           results' = results, out' = out, open' = open, bundles' = bundles,
           stream' \in [Directions -> Seq(Byte)],
           reader' \in [Directions -> [msg : Anything, got : Int]],
           DOMAIN reading' = Directions, reading'["down"] = reading["down"]
    PROVE  Inv'
  BY DEF Inv, Shape

LEMMA RecvShortHeaderKeeps == ASSUME Inv, NEW d \in Directions, RecvShortHeader(d) PROVE Inv'
  <1> USE DEF net, peer, disp
  <1>1. /\ Shape /\ stream' = [stream EXCEPT ![d] = <<>>]
        /\ Len(stream[d]) # 0
    BY DEF RecvShortHeader, Inv
  <1>2. \A S : <<>> \in Seq(S)
    BY EmptySeq
  <1>3. CASE d = "down"
    <2>1. Header.msg.id # "WORK_UNIT" /\ Garbage \in Anything /\ Garbage.id # "WORK_UNIT"
      BY MessageFacts DEF Header
    <2>2. /\ WorkerHandles(Garbage) /\ Reads("down") /\ reader["down"] = Header
          /\ UNCHANGED <<open, running, connect, bundles, reader>>
      BY <1>3 DEF RecvShortHeader, Handles, WorkerHandles
    <2>3. /\ stream' \in [Directions -> Seq(Byte)] /\ stream'["up"] = stream["up"]
          /\ stream'["down"] \in Seq(Harmless)
      BY <1>1, <1>2, <1>3 DEF Shape, Directions
    <2>4. reader' \in [Directions -> [msg : Anything, got : Int]]
      BY <1>1, <2>2 DEF Shape
    <2>5. QED
      BY <2>1, <2>2, <2>3, <2>4, HandlesKeeps
  <1>4. CASE d = "up"
    <2>1. running \/ settled
      BY <1>1, <1>4, NothingComesUp DEF Shape
    <2>2. reading' = [reading EXCEPT !["up"] = active']
      BY <1>4 DEF RecvShortHeader, Handles, DispatcherHandles
    <2>3. QED
      BY <1>1, <1>2, <1>4, <2>1, <2>2, DispatcherKeeps
      DEF RecvShortHeader, Handles, DispatcherHandles, Shape, Directions
  <1>5. QED
    BY <1>3, <1>4 DEF Directions

(* After the end of the stream; the connect thread gets there only when the  *)
(* worker is gone, or has its settings.                                      *)
LEMMA ReadEndsKeeps ==
    ASSUME Inv, NEW d \in Directions, ReadEnds(d), UNCHANGED <<running, open, out, bundles, peer>>,
           d = "up" => ~open["up"] \/ running \/ settled,
           stream' = stream \/ stream' = [stream EXCEPT !["up"] = <<>>]
    PROVE  Inv'
  <1> USE DEF net, peer, disp
  <1>1. Header \in [msg : Anything, got : Int] /\ Header.msg.id # "WORK_UNIT"
    BY MessageFacts DEF Header
  <1>2. \A S : <<>> \in Seq(S)
    BY EmptySeq
  <1>3. Shape'
    <2>1. Shape
      BY DEF Inv
    <2>2. reader' \in [Directions -> [msg : Anything, got : Int]]
      BY <1>1, <2>1 DEF Shape, ReadEnds
    <2>3. DOMAIN reading' = Directions
      BY <2>1 DEF Shape, ReadEnds
    <2>4. stream' \in [Directions -> Seq(Byte)]
      <3>1. stream \in [Directions -> Seq(Byte)]
        BY <2>1 DEF Shape
      <3>2. [stream EXCEPT !["up"] = <<>>] \in [Directions -> Seq(Byte)]
        BY <1>2, <3>1
      <3>3. QED
        BY <3>1, <3>2
    <2>5. QED
      BY <2>1, <2>2, <2>3, <2>4 DEF Shape
  <1>4. /\ reading'["down"] => reading["down"]
        /\ reader'["down"] = reader["down"] \/ reader'["down"] = Header
        /\ stream'["down"] = stream["down"] /\ (stream["up"] = <<>> => stream'["up"] = <<>>)
        /\ connect' = connect \/ d = "up"
    BY DEF Inv, Shape, ReadEnds, Directions
  <1>5. QED
    BY <1>1, <1>3, <1>4 DEF Inv, Unsettled, WorkerSilent, NoBundleSent

LEMMA RecvEndsKeep ==
    ASSUME Inv, RecvShortHeaderEnds \/ \E d \in Directions : RecvEnd(d)
    PROVE  Inv'
  <1> USE DEF net, peer, disp
  <1>1. CASE RecvShortHeaderEnds
    <2>1. running \/ settled
      BY <1>1, NothingComesUp DEF Inv, Shape, RecvShortHeaderEnds
    <2>2. QED
      BY <1>1, <2>1, ReadEndsKeeps DEF RecvShortHeaderEnds, Directions
  <1>2. ASSUME NEW d \in Directions, RecvEnd(d) PROVE Inv'
    BY <1>2, ReadEndsKeeps DEF RecvEnd
  <1>3. QED
    BY <1>1, <1>2

LEMMA GoesKeeps == ASSUME Inv, NEW d \in Directions, Goes(d) PROVE Inv'
  <1> USE DEF net, peer, disp
  <1>1. PICK n \in 0..Len(stream[d]) :
            stream' = [stream EXCEPT ![d] = SubSeq(@, 1, n), ![Other(d)] = <<>>]
    BY DEF Goes
  <1>2. \A S : <<>> \in Seq(S)
    BY EmptySeq
  <1>3. stream[d] \in Seq(Byte) /\ Len(stream[d]) \in Nat /\ Other(d) \in Directions
    BY LenProperties DEF Inv, Shape, Other, Directions
  <1>4. \A S : stream[d] \in Seq(S) => SubSeq(stream[d], 1, n) \in Seq(S)
    BY <1>3, PartOf
  <1>5. /\ out' \in [Writers -> Seq(Byte)]
        /\ \A t \in Writers : out'[t] = out[t] \/ out'[t] = <<>>
    BY <1>2 DEF Goes, Inv, Shape
  <1>6. Shape'
    BY <1>1, <1>2, <1>3, <1>4, <1>5 DEF Goes, Inv, Shape
  <1>7. /\ reading'["down"] => reading["down"]
        /\ reading'["down"] => open'["up"]
    BY <1>3 DEF Goes, Inv, Shape, Other, Directions
  <1>8. CASE d = "down"
    <2>1. stream'["up"] = <<>> /\ stream'["down"] = SubSeq(stream["down"], 1, n)
      BY <1>1, <1>3, <1>8 DEF Other, Inv, Shape, Directions
    <2>2. WorkerSilent => WorkerSilent'
      BY <1>5, <2>1 DEF Goes, WorkerSilent, Writers
    <2>3. NoBundleSent => NoBundleSent'
      <3>1. out'["sender"] \in {out["sender"], <<>>} /\ out'["connect"] \in {out["connect"], <<>>}
        BY <1>5 DEF Writers
      <3>2. stream["down"] \in Seq(Harmless) => stream'["down"] \in Seq(Harmless)
        BY <1>4, <1>8, <2>1
      <3>3. QED
        BY <1>2, <3>1, <3>2 DEF Goes, NoBundleSent
    <2>4. QED
      BY <1>6, <1>7, <2>2, <2>3 DEF Goes, Inv, Unsettled
  <1>9. CASE d = "up"
    <2>1. reading'["down"] = FALSE
      BY <1>9 DEF Goes, Inv, Shape, Other, Directions
    <2>2. stream["up"] = <<>> => stream'["up"] = <<>>
      <3>1. stream'["up"] = SubSeq(stream["up"], 1, n)
        BY <1>1, <1>3, <1>9 DEF Other, Inv, Shape, Directions
      <3>2. stream["up"] = <<>> => n = 0
        BY <1>9, EmptySeq
      <3>3. QED
        BY <3>1, <3>2, SubSeqEmpty
    <2>3. QED
      BY <1>5, <1>6, <2>1, <2>2 DEF Goes, Inv, Unsettled, WorkerSilent, Writers
  <1>10. QED
    BY <1>8, <1>9 DEF Directions

LEMMA RecvBodyKeeps == ASSUME Inv, NEW d \in Directions, RecvBody(d) PROVE Inv'
  <1> USE DEF net, peer, disp
  <1>1. Shape /\ reader[d] \in [msg : Anything, got : Int] /\ Size(reader[d].msg) \in Nat
    BY MessageFacts DEF Inv, Shape
  <1>2. PICK n \in 1..(Size(reader[d].msg) - reader[d].got), m \in {reader[d].msg, Garbage} :
            /\ Reads(d) /\ n <= Len(stream[d])
            /\ stream' = [stream EXCEPT ![d] = SubSeq(@, n + 1, Len(@))]
            /\ UNCHANGED <<running, open, bundles>>
            /\ \/ reader' = [reader EXCEPT ![d] = Header] /\ Handles(d, m)
               \/ /\ reader' = [reader EXCEPT ![d] = [msg |-> m, got |-> reader[d].got + n]]
                  /\ UNCHANGED <<out, reading, peer, disp>>
    BY DEF RecvBody
  <1>3. /\ m \in Anything /\ n \in Nat /\ n > 0 /\ reader[d].got + n \in Int
        /\ [msg |-> m, got |-> reader[d].got + n] \in [msg : Anything, got : Int]
        /\ Header \in [msg : Anything, got : Int]
    BY <1>1, <1>2, MessageFacts DEF Header
  <1>4. ASSUME NEW S, stream[d] \in Seq(S)
        PROVE  SubSeq(stream[d], n + 1, Len(stream[d])) \in Seq(S)
    BY <1>2, <1>3, <1>4, PartOf
  <1>5. stream' \in [Directions -> Seq(Byte)]
    BY <1>1, <1>2, <1>4 DEF Shape
  <1>6. reader' \in [Directions -> [msg : Anything, got : Int]]
    BY <1>1, <1>2, <1>3 DEF Shape
  <1>7. CASE d = "up"
    <2>1. running \/ settled
      <3>1. Len(stream["up"]) # 0
        BY <1>2, <1>3, <1>7
      <3>2. QED
        BY <1>1, <3>1, NothingComesUp DEF Shape
    <2>2. DOMAIN reading' = Directions /\ reading'["down"] = reading["down"]
          /\ UNCHANGED <<settled, results, out>>
      BY <1>1, <1>2, <1>7 DEF Handles, DispatcherHandles, Shape, Directions
    <2>3. QED
      BY <1>2, <1>5, <1>6, <2>1, <2>2, DispatcherKeeps
  <1>8. CASE d = "down"
    <2>1. stream'["up"] = stream["up"] /\ Reads("down") /\ reading["down"]
      BY <1>1, <1>2, <1>8 DEF Shape, Directions, Reads
    <2>2. ~running /\ ~settled => NoBundleSent /\ connect # "done" /\ m.id # "WORK_UNIT"
      BY <1>2, <1>8, <2>1, MessageFacts DEF Inv, Unsettled, NoBundleSent
    <2>3. ~running /\ ~settled => stream'["down"] \in Seq(Harmless)
      <3>1. stream'["down"] = SubSeq(stream[d], n + 1, Len(stream[d]))
        BY <1>1, <1>2, <1>8 DEF Shape, Directions
      <3>2. QED
        BY <1>4, <1>8, <2>2, <3>1 DEF NoBundleSent
    <2>4. CASE reader' = [reader EXCEPT ![d] = Header] /\ WorkerHandles(m)
      <3>1. reader'["down"] = Header /\ connect' = connect
        BY <1>1, <1>8, <2>4 DEF Shape, WorkerHandles
      <3>2. m.id = "WORK_UNIT" => settled \/ running
        BY <2>2
      <3>3. QED
        BY <1>2, <1>3, <1>5, <1>6, <2>1, <2>3, <2>4, <3>1, <3>2, HandlesKeeps
    <2>5. CASE /\ reader' = [reader EXCEPT ![d] = [msg |-> m, got |-> reader[d].got + n]]
               /\ UNCHANGED <<out, reading, peer, disp>>
      <3>1. reader'["down"].msg = m
        BY <1>1, <1>8, <2>5 DEF Shape
      <3>2. Shape'
        BY <1>1, <1>2, <1>5, <1>6, <2>5 DEF Shape
      <3>3. QED
        BY <1>2, <2>1, <2>2, <2>3, <2>5, <3>1, <3>2
        DEF Inv, Unsettled, WorkerSilent, NoBundleSent
    <2>6. QED
      BY <1>2, <1>8, <2>4, <2>5 DEF Handles
  <1>9. QED
    BY <1>7, <1>8 DEF Directions
-------------------------------------------------------------------------------
LEMMA StepInv == Inv /\ [Next]_vars => Inv'
  <1> SUFFICES ASSUME Inv, [Next]_vars PROVE Inv'
    OBVIOUS
  <1>1. ASSUME NEW t \in Writers, Write(t) \/ SendFails(t) PROVE Inv'
    BY <1>1, WriteKeeps, SendFailsKeeps
  <1>2. CASE ConfigureSends \/ SenderSends \/ WorkerSends
    BY <1>2, SendsKeep
  <1>3. ASSUME NEW d \in Directions, RecvHeader(d) \/ RecvShortHeader(d) \/ RecvBody(d) PROVE Inv'
    BY <1>3, RecvHeaderKeeps, RecvShortHeaderKeeps, RecvBodyKeeps
  <1>4. CASE RecvShortHeaderEnds \/ \E d \in Directions : RecvEnd(d)
    BY <1>4, RecvEndsKeep
  <1>5. CASE WorkerGoes \/ WorkerExits \/ DispatcherGoes \/ CleanupCloses
    BY <1>5, GoesKeeps DEF WorkerGoes, WorkerExits, DispatcherGoes, CleanupCloses, Directions
  <1>6. CASE UNCHANGED vars
    BY <1>6 DEF vars, net, peer, disp, Inv, Shape, Unsettled, WorkerSilent, NoBundleSent
  <1>7. QED
    BY <1>1, <1>2, <1>3, <1>4, <1>5, <1>6 DEF Next

(* A worker that connects before the launch never has a result computed      *)
(* without the settings of the run (event_thread.c, configure_simulation.c), *)
(* for any sizes and with any way of the kernel with sends and headers.      *)
THEOREM SettingsComeFirst == Spec => []SettingsFirst
  <1>1. Inv => SettingsFirst
    <2>1. ASSUME results \in Seq(Informed), NEW k \in DOMAIN results
          PROVE  results[k].settled
      BY <2>1, LenProperties, ElementOfSeq DEF Informed
    <2>2. QED
      BY <2>1 DEF Inv, SettingsFirst
  <1>2. QED
    BY <1>1, InitInv, StepInv, PTL DEF Spec
-------------------------------------------------------------------------------
(* Types.  A writer's bytes are those of one message, and what a reader has   *)
(* got of a body is never more than the body.                                *)
LEMMA SizeFacts ==
    ASSUME NEW m \in Anything
    PROVE  Size(m) \in 1..BodySize /\ Len(Bytes(m)) = HeaderSize + Size(m)
  <1>1. Size(m) \in 1..BodySize
    BY ConnectionAssumption DEF Size
  <1>2. HeaderSize + Size(m) \in Nat
    BY <1>1, ConnectionAssumption
  <1>3. QED
    BY <1>1, <1>2, LenProperties DEF Bytes

LEMMA InitTypes == Init => TypeOK
  <1> SUFFICES ASSUME Init PROVE TypeOK
    OBVIOUS
  <1>1. \A S : <<>> \in Seq(S) /\ Len(<<>>) = 0
    BY EmptySeq
  <1>2. Header \in [msg : Messages \cup {Garbage}, got : -1..BodySize]
    BY ConnectionAssumption DEF Header
  <1>3. \A t \in Writers : Len(out[t]) <= HeaderSize + BodySize + 1
    BY <1>1, ConnectionAssumption DEF Init
  <1>4. (\A d \in Directions : Len(stream[d]) <= Capacity) /\ bundles \in 0..BundleCnt
    BY <1>1, ConnectionAssumption DEF Init
  <1>5. {running, stops, cut, raced} \subseteq BOOLEAN /\ active \in BOOLEAN /\ settled \in BOOLEAN
    BY DEF Init
  <1>6. /\ open \in [Directions -> BOOLEAN] /\ reading \in [Directions -> BOOLEAN]
        /\ reader \in [Directions -> [msg : Messages \cup {Garbage}, got : -1..BodySize]]
        /\ connect \in {"settings", "reply", "done"}
    BY <1>2 DEF Init
  <1>7. /\ {results, integrated} \subseteq Seq(Messages)
        /\ sent \in [Directions -> Seq(Messages)]
        /\ received \in [Directions -> Seq(Messages \cup {Garbage})]
    BY <1>1 DEF Init
  <1>8. QED
    BY <1>3, <1>4, <1>5, <1>6, <1>7 DEF TypeOK

LEMMA SendTypes ==
    ASSUME Inv, TypeOK, NEW t \in Writers, NEW m \in Messages, SendBegins(t, m)
    PROVE  /\ \A u \in Writers : Len(out'[u]) <= HeaderSize + BodySize + 1
           /\ sent' \in [Directions -> Seq(Messages)] /\ raced' \in BOOLEAN
  <1>0. raced' = (raced \/ \E o \in Others(t) : out[o] # <<>>)
    BY DEF SendBegins
  <1>1. Len(Bytes(m)) <= HeaderSize + BodySize + 1
    <2>1. Size(m) \in 1..BodySize /\ Len(Bytes(m)) = HeaderSize + Size(m)
      BY SizeFacts DEF Anything
    <2>2. QED
      BY <2>1, ConnectionAssumption
  <1>2. out' = [out EXCEPT ![t] = Bytes(m)] /\ sent' = [sent EXCEPT ![Way(t)] = Append(@, m)]
    BY DEF SendBegins
  <1>3. \A u \in Writers : out'[u] = IF u = t THEN Bytes(m) ELSE out[u]
    BY <1>2 DEF Inv, Shape
  <1>4. Way(t) \in Directions
    BY DEF Way, Directions
  <1>5. sent' \in [Directions -> Seq(Messages)]
    <2>1. sent[Way(t)] \in Seq(Messages)
      BY <1>4 DEF TypeOK
    <2>2. Append(sent[Way(t)], m) \in Seq(Messages)
      BY <2>1, AppendProperties
    <2>3. QED
      BY <1>2, <2>2 DEF TypeOK
  <1>6. raced' \in BOOLEAN
    BY <1>0
  <1>7. QED
    BY <1>1, <1>3, <1>5, <1>6 DEF TypeOK

LEMMA WriteTypes == ASSUME Inv, TypeOK, NEW t \in Writers, Write(t) \/ SendFails(t) PROVE TypeOK'
  <1> USE DEF net, peer, disp
  <1>1. out[t] \in Seq(Byte) /\ out[t] # <<>> /\ Way(t) \in Directions
        /\ stream[Way(t)] \in Seq(Byte)
    BY DEF Inv, Shape, Write, SendFails, Way, Directions
  <1>2. CASE Write(t)
    <2>1. Head(out[t]) \in Byte /\ Len(Tail(out[t])) = Len(out[t]) - 1 /\ Len(out[t]) \in Nat
      BY <1>1, HeadTailProperties, LenProperties
    <2>2. Len(Append(stream[Way(t)], Head(out[t]))) = Len(stream[Way(t)]) + 1
          /\ Len(stream[Way(t)]) \in Nat
      BY <1>1, <2>1, AppendProperties, LenProperties
    <2>3. /\ stream' = [stream EXCEPT ![Way(t)] = Append(@, Head(out[t]))]
          /\ out' = [out EXCEPT ![t] = Tail(@)] /\ Len(stream[Way(t)]) < Capacity
      BY <1>2 DEF Write
    <2>4. \A u \in Writers : Len(out'[u]) <= HeaderSize + BodySize + 1
      <3>1. \A u \in Writers : out'[u] = IF u = t THEN Tail(out[t]) ELSE out[u]
        BY <2>3 DEF Inv, Shape
      <3>2. Len(out[t]) <= HeaderSize + BodySize + 1
        BY DEF TypeOK
      <3>3. Len(Tail(out[t])) <= HeaderSize + BodySize + 1
        BY <2>1, <3>2, ConnectionAssumption
      <3>4. QED
        BY <3>1, <3>3 DEF TypeOK
    <2>5. \A d \in Directions : Len(stream'[d]) <= Capacity
      <3>1. Len(stream[Way(t)]) + 1 <= Capacity
        BY <2>2, <2>3, ConnectionAssumption
      <3>2. \A d \in Directions : stream'[d] = IF d = Way(t) THEN Append(stream[d], Head(out[t]))
                                               ELSE stream[d]
        BY <2>3 DEF Inv, Shape
      <3>3. QED
        BY <2>2, <3>1, <3>2 DEF TypeOK
    <2>6. QED
      BY <1>2, <2>4, <2>5 DEF Write, TypeOK
  <1>3. CASE SendFails(t)
    <2>1. \A u \in Writers : out'[u] = IF u = t THEN <<>> ELSE out[u]
      BY <1>3 DEF SendFails, Inv, Shape
    <2>2. Len(<<>>) <= HeaderSize + BodySize + 1
      BY ConnectionAssumption, EmptySeq
    <2>3. \A u \in Writers : Len(out'[u]) <= HeaderSize + BodySize + 1
      BY <2>1, <2>2 DEF TypeOK
    <2>4. active' \in BOOLEAN
      BY <1>3 DEF SendFails, TypeOK
    <2>5. QED
      BY <1>3, <2>3, <2>4 DEF SendFails, TypeOK
  <1>4. QED
    BY <1>2, <1>3

LEMMA BeginTypes == Inv /\ TypeOK /\ (ConfigureSends \/ SenderSends \/ WorkerSends) => TypeOK'
  <1> USE DEF net, peer, disp
  <1>0. {"connect", "sender", "w_event", "w_sender"} \subseteq Writers
    BY DEF Writers
  <1>1. ASSUME Inv, TypeOK, ConfigureSends PROVE TypeOK'
    <2>1. SendBegins("connect", Settings)
      BY <1>1 DEF ConfigureSends
    <2>2. QED
      BY <1>0, <1>1, <2>1, SendTypes, MessageFacts DEF ConfigureSends, TypeOK
  <1>2. ASSUME Inv, TypeOK, SenderSends PROVE TypeOK'
    <2>1. SendBegins("sender", Bundle(bundles + 1)) /\ bundles \in 0..BundleCnt
          /\ bundles < BundleCnt
      BY <1>2 DEF SenderSends, TypeOK
    <2>2. bundles + 1 \in 1..BundleCnt
      BY <2>1, ConnectionAssumption
    <2>3. bundles + 1 \in 0..BundleCnt
      BY <2>2, ConnectionAssumption
    <2>4. QED
      BY <1>0, <1>2, <2>1, <2>2, <2>3, SendTypes, MessageFacts DEF SenderSends, TypeOK
  <1>3. ASSUME Inv, TypeOK, WorkerSends PROVE TypeOK'
    <2>1. SendBegins("w_sender", Head(results)) /\ results \in Seq(Messages) /\ results # <<>>
      BY <1>3 DEF WorkerSends, TypeOK
    <2>2. Head(results) \in Messages /\ Tail(results) \in Seq(Messages)
      BY <2>1, PartOf
    <2>3. QED
      BY <1>0, <1>3, <2>1, <2>2, SendTypes DEF WorkerSends, TypeOK
  <1>4. QED
    BY <1>1, <1>2, <1>3

(* What is done with a message keeps to the types.                           *)
LEMMA HandlesTypes ==
    ASSUME Inv, TypeOK, NEW d \in Directions, NEW m \in Anything, Handles(d, m)
    PROVE  /\ \A t \in Writers : Len(out'[t]) <= HeaderSize + BodySize + 1
           /\ sent' \in [Directions -> Seq(Messages)]
           /\ reading' \in [Directions -> BOOLEAN] /\ active' \in BOOLEAN
           /\ connect' \in {"settings", "reply", "done"} /\ settled' \in BOOLEAN
           /\ {results', integrated'} \subseteq Seq(Messages) /\ raced' \in BOOLEAN
  <1> USE DEF peer, disp
  <1>1. CASE d = "up"
    <2>1. /\ connect' = "done" /\ active' = Started
          /\ reading' = [reading EXCEPT !["up"] = active']
          /\ integrated' = IF Integrates(m) THEN Append(integrated, m) ELSE integrated
          /\ UNCHANGED <<peer, out, sent, raced>>
      BY <1>1 DEF Handles, DispatcherHandles
    <2>2. active' \in BOOLEAN
      BY <2>1 DEF Started, TypeOK
    <2>3. reading' \in [Directions -> BOOLEAN]
      BY <2>1, <2>2 DEF TypeOK
    <2>4. integrated' \in Seq(Messages)
      <3>1. Integrates(m) => m \in Messages
        BY DEF Integrates, Anything, Garbage, Message
      <3>2. QED
        BY <2>1, <3>1, AppendProperties DEF TypeOK
    <2>5. QED
      BY <2>1, <2>2, <2>3, <2>4 DEF TypeOK
  <1>2. CASE d = "down"
    <2>1. WorkerHandles(m) /\ UNCHANGED <<reading, disp>>
      BY <1>2 DEF Handles, WorkerHandles, Directions
    <2>2. CASE settled' = TRUE /\ UNCHANGED results /\ SendBegins("w_event", Applied)
      BY <2>1, <2>2, SendTypes, MessageFacts DEF TypeOK, Writers
    <2>3. CASE m.id = "WORK_UNIT" /\ results' = Append(results, Result(m.of, settled))
               /\ UNCHANGED <<settled, out, sent, raced>>
      <3>1. Result(m.of, settled) \in Messages
        BY <2>3, MessageFacts DEF TypeOK
      <3>2. results' \in Seq(Messages)
        BY <2>3, <3>1, AppendProperties DEF TypeOK
      <3>3. QED
        BY <2>1, <2>3, <3>2 DEF TypeOK
    <2>4. CASE UNCHANGED <<settled, results, out, sent, raced>>
      BY <2>1, <2>4 DEF TypeOK
    <2>5. QED
      BY <2>1, <2>2, <2>3, <2>4 DEF WorkerHandles
  <1>3. QED
    BY <1>1, <1>2 DEF Directions

LEMMA RecvHeaderTypes == ASSUME Inv, TypeOK, NEW d \in Directions, RecvHeader(d) PROVE TypeOK'
  <1> USE DEF net, peer, disp
  <1>1. RecvHeader(d) /\ Inv'
    BY RecvHeaderKeeps
  <1>2. /\ stream[d] \in Seq(Byte) /\ Len(stream[d]) >= HeaderSize /\ HeaderSize \in Nat
        /\ stream' = [stream EXCEPT ![d] = SubSeq(@, HeaderSize + 1, Len(@))]
    BY ConnectionAssumption DEF RecvHeader, Inv, Shape
  <1>3. Len(SubSeq(stream[d], HeaderSize + 1, Len(stream[d]))) <= Capacity
    <2>1. Len(stream[d]) \in Nat /\ Len(stream[d]) <= Capacity
      BY <1>2, LenProperties DEF TypeOK
    <2>2. \A i \in (HeaderSize + 1)..Len(stream[d]) : stream[d][i] \in Byte
      BY <1>2, <2>1, ElementOfSeq
    <2>3. Len(SubSeq(stream[d], HeaderSize + 1, Len(stream[d]))) = Len(stream[d]) - HeaderSize
      BY <1>2, <2>1, <2>2, SubSeqProperties
    <2>4. QED
      BY <1>2, <2>1, <2>3, ConnectionAssumption
  <1>4. \A e \in Directions : Len(stream'[e]) <= Capacity
    BY <1>2, <1>3 DEF TypeOK, Inv, Shape
  <1>5. reader' \in [Directions -> [msg : Messages \cup {Garbage}, got : -1..BodySize]]
    <2>1. PICK msg : reader' = [reader EXCEPT ![d] = [msg |-> msg, got |-> 0]]
      BY DEF RecvHeader
    <2>2. msg \in Anything
      <3>1. reader'[d].msg = msg
        BY <2>1 DEF Inv, Shape
      <3>2. QED
        BY <1>1, <3>1 DEF Inv, Shape
    <2>3. 0 \in -1..BodySize
      BY ConnectionAssumption
    <2>4. QED
      BY <2>1, <2>2, <2>3 DEF TypeOK, Anything
  <1>6. QED
    BY <1>4, <1>5 DEF RecvHeader, TypeOK

LEMMA RecvShortTypes == ASSUME Inv, TypeOK, NEW d \in Directions, RecvShortHeader(d) PROVE TypeOK'
  <1> USE DEF net, peer, disp
  <1>1. Handles(d, Garbage) /\ Garbage \in Anything /\ stream' = [stream EXCEPT ![d] = <<>>]
    BY MessageFacts DEF RecvShortHeader
  <1>2. \A e \in Directions : Len(stream'[e]) <= Capacity
    <2>1. Len(<<>>) <= Capacity
      BY ConnectionAssumption, EmptySeq
    <2>2. QED
      BY <1>1, <2>1 DEF TypeOK, Inv, Shape
  <1>3. /\ cut' = (cut \/ open[d])
        /\ UNCHANGED <<running, stops, open, reader, bundles, received>>
    BY DEF RecvShortHeader
  <1>4. cut' \in BOOLEAN
    BY <1>3
  <1>5. QED
    BY <1>1, <1>2, <1>3, <1>4, HandlesTypes DEF TypeOK

LEMMA ReadEndsTypes ==
    ASSUME Inv, TypeOK, RecvShortHeaderEnds \/ \E d \in Directions : RecvEnd(d)
    PROVE  TypeOK'
  <1> USE DEF net, peer, disp
  <1>1. PICK d \in Directions : /\ ReadEnds(d)
                                /\ stream' = stream \/ stream' = [stream EXCEPT !["up"] = <<>>]
                                /\ UNCHANGED <<running, stops, out, open, bundles, peer,
                                               integrated, sent, raced, received>>
                                /\ cut' = cut \/ cut' = (cut \/ open["up"])
    BY DEF RecvShortHeaderEnds, RecvEnd, Directions
  <1>2. \A e \in Directions : Len(stream'[e]) <= Capacity
    <2>1. Len(<<>>) <= Capacity
      BY ConnectionAssumption, EmptySeq
    <2>2. \A e \in Directions : stream'[e] = stream[e] \/ stream'[e] = <<>>
      BY <1>1 DEF Inv, Shape
    <2>3. QED
      BY <2>1, <2>2 DEF TypeOK
  <1>3. Header \in [msg : Messages \cup {Garbage}, got : -1..BodySize]
    BY ConnectionAssumption DEF Header
  <1>4. reader' \in [Directions -> [msg : Messages \cup {Garbage}, got : -1..BodySize]]
    BY <1>1, <1>3 DEF ReadEnds, TypeOK
  <1>5. reading' \in [Directions -> BOOLEAN] /\ active' \in BOOLEAN
        /\ connect' \in {"settings", "reply", "done"}
    BY <1>1 DEF ReadEnds, TypeOK
  <1>6. cut' \in BOOLEAN
    BY <1>1 DEF TypeOK
  <1>7. QED
    BY <1>1, <1>2, <1>4, <1>5, <1>6 DEF TypeOK

LEMMA GoesTypes == ASSUME Inv, TypeOK, NEW d \in Directions, Goes(d) PROVE TypeOK'
  <1> USE DEF net, peer, disp
  <1>1. PICK n \in 0..Len(stream[d]) :
            stream' = [stream EXCEPT ![d] = SubSeq(@, 1, n), ![Other(d)] = <<>>]
    BY DEF Goes
  <1>2. stream[d] \in Seq(Byte) /\ Len(stream[d]) \in Nat /\ Len(stream[d]) <= Capacity
        /\ Capacity \in Nat /\ n \in Nat /\ n <= Len(stream[d])
    BY <1>1, LenProperties, ConnectionAssumption DEF Inv, Shape, TypeOK
  <1>3. Len(SubSeq(stream[d], 1, n)) <= Capacity
    <2>1. \A i \in 1..n : stream[d][i] \in Byte
      BY <1>2, ElementOfSeq
    <2>2. Len(SubSeq(stream[d], 1, n)) = n
      BY <1>2, <2>1, SubSeqProperties
    <2>3. QED
      BY <1>2, <2>2
  <1>4. \A e \in Directions : Len(stream'[e]) <= Capacity
    <2>1. Len(<<>>) <= Capacity
      BY ConnectionAssumption, EmptySeq
    <2>2. \A e \in Directions : stream'[e] \in {stream[e], <<>>, SubSeq(stream[d], 1, n)}
      BY <1>1 DEF Inv, Shape
    <2>3. QED
      BY <1>3, <2>1, <2>2 DEF TypeOK
  <1>5. \A t \in Writers : Len(out'[t]) <= HeaderSize + BodySize + 1
    <2>1. Len(<<>>) <= HeaderSize + BodySize + 1
      BY ConnectionAssumption, EmptySeq
    <2>2. \A t \in Writers : out'[t] \in {out[t], <<>>}
      BY DEF Goes
    <2>3. QED
      BY <2>1, <2>2 DEF TypeOK
  <1>6. open' \in [Directions -> BOOLEAN] /\ reading' \in [Directions -> BOOLEAN]
    BY DEF Goes, TypeOK
  <1>7. QED
    BY <1>4, <1>5, <1>6 DEF Goes, TypeOK

LEMMA RecvBodyTypes == ASSUME Inv, TypeOK, NEW d \in Directions, RecvBody(d) PROVE TypeOK'
  <1> USE DEF net, peer, disp
  <1> DEFINE got == reader[d].got
  <1>1. PICK n \in 1..(Size(reader[d].msg) - got), m \in {reader[d].msg, Garbage} :
            /\ n <= Len(stream[d])
            /\ stream' = [stream EXCEPT ![d] = SubSeq(@, n + 1, Len(@))]
            /\ \/ /\ received' = [received EXCEPT ![d] = Append(@, m)]
                  /\ reader' = [reader EXCEPT ![d] = Header] /\ Handles(d, m)
               \/ /\ reader' = [reader EXCEPT ![d] = [msg |-> m, got |-> got + n]]
                  /\ UNCHANGED <<out, reading, peer, disp, sent, raced, received>>
            /\ UNCHANGED <<running, stops, cut, open, bundles>>
    BY DEF RecvBody
  <1>2. /\ m \in Anything /\ reader[d].msg \in Anything /\ got \in -1..BodySize
        /\ Size(reader[d].msg) \in 1..BodySize /\ BodySize \in Nat
        /\ Header \in [msg : Messages \cup {Garbage}, got : -1..BodySize]
    <2>1. reader[d] \in [msg : Messages \cup {Garbage}, got : -1..BodySize]
      BY DEF TypeOK
    <2>2. m \in Anything /\ reader[d].msg \in Anything /\ got \in -1..BodySize
      BY <1>1, <2>1, MessageFacts DEF Anything
    <2>3. QED
      BY <2>2, SizeFacts, ConnectionAssumption DEF Header
  <1>3. n \in Nat /\ got + n \in -1..BodySize
    BY <1>1, <1>2
  <1>4. \A e \in Directions : Len(stream'[e]) <= Capacity
    <2>1. Len(stream[d]) \in Nat /\ Len(stream[d]) <= Capacity /\ stream[d] \in Seq(Byte)
      BY LenProperties DEF TypeOK, Inv, Shape
    <2>2. \A i \in (n + 1)..Len(stream[d]) : stream[d][i] \in Byte
      BY <1>3, <2>1, ElementOfSeq
    <2>3. Len(SubSeq(stream[d], n + 1, Len(stream[d]))) = Len(stream[d]) - n
      BY <1>1, <1>3, <2>1, <2>2, SubSeqProperties
    <2>4. Len(SubSeq(stream[d], n + 1, Len(stream[d]))) <= Capacity
      <3>1. Capacity \in Nat
        BY ConnectionAssumption
      <3>2. ASSUME NEW z \in Nat, z <= Capacity PROVE z - n <= Capacity
        BY <1>3, <3>1, <3>2
      <3>3. QED
        BY <2>1, <2>3, <3>2
    <2>5. QED
      BY <1>1, <2>4 DEF TypeOK, Inv, Shape
  <1>5. reader' \in [Directions -> [msg : Messages \cup {Garbage}, got : -1..BodySize]]
    <2>1. [msg |-> m, got |-> got + n] \in [msg : Messages \cup {Garbage}, got : -1..BodySize]
      BY <1>2, <1>3 DEF Anything
    <2>2. QED
      BY <1>1, <1>2, <2>1 DEF TypeOK
  <1>6. received' \in [Directions -> Seq(Messages \cup {Garbage})]
    <2>1. received[d] \in Seq(Messages \cup {Garbage}) /\ m \in Messages \cup {Garbage}
      BY <1>2 DEF TypeOK, Anything
    <2>2. Append(received[d], m) \in Seq(Messages \cup {Garbage})
      BY <2>1, AppendProperties
    <2>3. QED
      BY <1>1, <2>2 DEF TypeOK
  <1>7. CASE Handles(d, m)
    BY <1>1, <1>2, <1>4, <1>5, <1>6, <1>7, HandlesTypes DEF TypeOK
  <1>8. CASE UNCHANGED <<out, reading, peer, disp, sent, raced, received>>
    BY <1>1, <1>4, <1>5, <1>8 DEF TypeOK
  <1>9. QED
    BY <1>1, <1>7, <1>8

LEMMA StepTypes == Inv /\ TypeOK /\ [Next]_vars => TypeOK'
  <1> SUFFICES ASSUME Inv, TypeOK, [Next]_vars PROVE TypeOK'
    OBVIOUS
  <1>1. ASSUME NEW t \in Writers, Write(t) \/ SendFails(t) PROVE TypeOK'
    BY <1>1, WriteTypes
  <1>2. CASE ConfigureSends \/ SenderSends \/ WorkerSends
    BY <1>2, BeginTypes
  <1>3. ASSUME NEW d \in Directions, RecvHeader(d) \/ RecvShortHeader(d) \/ RecvBody(d) PROVE TypeOK'
    BY <1>3, RecvHeaderTypes, RecvShortTypes, RecvBodyTypes
  <1>4. CASE RecvShortHeaderEnds \/ \E d \in Directions : RecvEnd(d)
    BY <1>4, ReadEndsTypes
  <1>5. CASE WorkerGoes \/ WorkerExits \/ DispatcherGoes \/ CleanupCloses
    BY <1>5, GoesTypes DEF WorkerGoes, WorkerExits, DispatcherGoes, CleanupCloses, Directions
  <1>6. CASE UNCHANGED vars
    BY <1>6 DEF vars, net, peer, disp, TypeOK
  <1>7. QED
    BY <1>1, <1>2, <1>3, <1>4, <1>5, <1>6 DEF Next

(* Buffers and messages keep to their sizes and the reader never gets more    *)
(* than the body it reads, for any sizes and with any way of the kernel with *)
(* sends and headers (receive_msg.c).                                        *)
THEOREM TypeCorrect == Spec => []TypeOK
  BY InitInv, StepInv, InitTypes, StepTypes, PTL DEF Spec
-------------------------------------------------------------------------------
(* Framing.  A direction carries the bytes of the messages sent and not yet   *)
(* received, one after the other: first those in the socket (s), then those   *)
(* the writer has still to write (o).  off[k] is where, counted from the next *)
(* byte to be read, the first byte of message k is; of message r + 1 the      *)
(* bytes before start have been read; slack bytes at the end were lost.       *)
Whole(m) == HeaderSize + Size(m)
Nth(m, a) == [msg |-> m, at |-> a]

Placed(x, s, o, m) ==
    \A a \in 1..Whole(m) :
        /\ x + a - 1 \in 1..Len(s) => s[x + a - 1] = Nth(m, a)
        /\ x + a - 1 - Len(s) \in 1..Len(o) => o[x + a - 1 - Len(s)] = Nth(m, a)

Frame(off, s, o, msgs, r, start, slack) ==
    /\ r <= Len(msgs) /\ off[r + 1] = 2 - start
    /\ Len(s) + Len(o) + slack + 1 = off[Len(msgs) + 1]
    /\ \A k \in (r + 1)..Len(msgs) : /\ off[k + 1] = off[k] + Whole(msgs[k])
                                     /\ off[k + 1] <= off[Len(msgs) + 1]
                                     /\ Placed(off[k], s, o, msgs[k])

Carries(s, o, msgs, r, start, slack) ==
    \E off \in [Nat -> Int] : Frame(off, s, o, msgs, r, start, slack)

LEMMA WholeSize == \A m \in Anything : Whole(m) \in Nat /\ Whole(m) > HeaderSize
  BY SizeFacts, ConnectionAssumption DEF Whole

(* What the steps keep of the place of one message.                          *)
LEMMA PlacedWritten ==
    ASSUME NEW s \in Seq(Byte), NEW o \in Seq(Byte), o # <<>>, NEW m \in Anything,
           NEW x \in Int, Placed(x, s, o, m)
    PROVE  Placed(x, Append(s, Head(o)), Tail(o), m)
  <1> DEFINE t == Append(s, Head(o))
             p == Tail(o)
  <1>1. /\ Len(s) \in Nat /\ Len(o) \in Nat /\ Len(o) > 0
        /\ Len(t) = Len(s) + 1 /\ Len(p) = Len(o) - 1
        /\ (\A i \in 1..Len(s) : t[i] = s[i]) /\ t[Len(s) + 1] = o[1]
        /\ \A i \in 1..(Len(o) - 1) : p[i] = o[i + 1]
    OBVIOUS
  <1>2. Whole(m) \in Nat
    BY WholeSize
  <1> SUFFICES Placed(x, t, p, m)
    OBVIOUS
  <1> HIDE DEF t, p
  <1> SUFFICES ASSUME NEW a \in 1..Whole(m), NEW i \in Int, i = x + a - 1
      PROVE /\ i \in 1..Len(t) => t[i] = Nth(m, a)
            /\ i - Len(t) \in 1..Len(p) => p[i - Len(t)] = Nth(m, a)
    BY <1>2 DEF Placed
  <1>3. /\ i \in 1..Len(s) => s[i] = Nth(m, a)
        /\ i - Len(s) \in 1..Len(o) => o[i - Len(s)] = Nth(m, a)
    BY DEF Placed
  <1>4. i \in 1..Len(t) => t[i] = Nth(m, a)
    <2>1. CASE i \in 1..Len(s)
      BY <1>1, <1>3, <2>1
    <2>2. CASE i = Len(s) + 1
      <3>1. i - Len(s) = 1 /\ 1 \in 1..Len(o)
        BY <1>1, <2>2
      <3>2. QED
        BY <1>1, <1>3, <2>2, <3>1
    <2>3. Len(t) = Len(s) + 1 /\ Len(s) \in Nat
      BY <1>1
    <2>4. i \in 1..Len(t) => i \in 1..Len(s) \/ i = Len(s) + 1
      BY <2>3
    <2>5. QED
      BY <2>1, <2>2, <2>4
  <1>5. i - Len(t) \in 1..Len(p) => p[i - Len(t)] = Nth(m, a)
    <2> SUFFICES ASSUME i - Len(t) \in 1..Len(p) PROVE p[i - Len(t)] = Nth(m, a)
      OBVIOUS
    <2>1. i - Len(t) \in 1..(Len(o) - 1) /\ (i - Len(t)) + 1 = i - Len(s)
          /\ i - Len(s) \in 1..Len(o)
      BY <1>1
    <2>2. QED
      BY <1>1, <1>3, <2>1
  <1>6. QED
    BY <1>4, <1>5

LEMMA PlacedTaken ==
    ASSUME NEW s \in Seq(Byte), NEW o \in Seq(Byte), NEW m \in Anything, NEW x \in Int,
           NEW t \in Seq(Byte), NEW n \in Nat, n <= Len(s), Len(t) = Len(s) - n,
           \A i \in 1..Len(t) : t[i] = s[i + n], Placed(x, s, o, m), NEW y \in Int, y = x - n
    PROVE  Placed(y, t, o, m)
  <1>1. Whole(m) \in Nat /\ Len(s) \in Nat /\ Len(o) \in Nat
    BY WholeSize, LenProperties
  <1>2. ASSUME NEW a \in 1..Whole(m)
        PROVE /\ y + a - 1 \in 1..Len(t) => t[y + a - 1] = Nth(m, a)
              /\ y + a - 1 - Len(t) \in 1..Len(o) => o[y + a - 1 - Len(t)] = Nth(m, a)
    <2>0. PICK i \in Int, j \in Int : i = x + a - 1 /\ j = y + a - 1
      BY <1>1
    <2>1. /\ i \in 1..Len(s) => s[i] = Nth(m, a)
          /\ i - Len(s) \in 1..Len(o) => o[i - Len(s)] = Nth(m, a)
      BY <1>1, <2>0 DEF Placed
    <2>2. j = i - n
      BY <1>1, <2>0
    <2>3. j \in 1..Len(t) => t[j] = Nth(m, a)
      <3> SUFFICES ASSUME j \in 1..Len(t) PROVE t[j] = Nth(m, a)
        OBVIOUS
      <3>1. j + n = i /\ i \in 1..Len(s)
        BY <1>1, <2>2
      <3>2. QED
        BY <2>1, <3>1
    <2>4. j - Len(t) = i - Len(s)
      BY <1>1, <2>2
    <2>5. j - Len(t) \in 1..Len(o) => o[j - Len(t)] = Nth(m, a)
      BY <2>1, <2>4
    <2>6. y + a - 1 = j
      BY <2>0
    <2> HIDE <2>0
    <2>7. QED
      BY <2>3, <2>5, <2>6
  <1>3. QED
    BY <1>2 DEF Placed

(* Bytes behind the end of a message do not disturb it.                      *)
LEMMA PlacedBefore ==
    ASSUME NEW s \in Seq(Byte), NEW o \in Seq(Byte), NEW m \in Anything, NEW x \in Int,
           Placed(x, s, <<>>, m), x + Whole(m) <= Len(s) + 1
    PROVE  Placed(x, s, o, m)
  <1>1. Whole(m) \in Nat /\ Len(s) \in Nat /\ Len(o) \in Nat
    BY WholeSize, LenProperties
  <1>2. \A a \in 1..Whole(m) : ~(x + a - 1 - Len(s) \in 1..Len(o))
    BY <1>1
  <1>3. QED
    BY <1>2 DEF Placed

LEMMA PlacedLast ==
    ASSUME NEW s \in Seq(Byte), NEW m \in Anything
    PROVE  Placed(Len(s) + 1, s, Bytes(m), m)
  <1>1. Whole(m) \in Nat /\ Len(s) \in Nat
    BY WholeSize, LenProperties
  <1>2. \A a \in 1..Whole(m) : Bytes(m)[a] = Nth(m, a)
    BY DEF Bytes, Whole, Nth
  <1>3. ASSUME NEW a \in 1..Whole(m)
        PROVE  /\ ~((Len(s) + 1) + a - 1 \in 1..Len(s))
               /\ (Len(s) + 1) + a - 1 - Len(s) = a
    BY <1>1
  <1>4. QED
    BY <1>2, <1>3 DEF Placed

(* The length of what is left after n bytes, and its bytes.                  *)
LEMMA RestOf ==
    ASSUME NEW s \in Seq(Byte), NEW n \in Nat, n <= Len(s)
    PROVE  /\ SubSeq(s, n + 1, Len(s)) \in Seq(Byte)
           /\ Len(SubSeq(s, n + 1, Len(s))) = Len(s) - n
           /\ \A i \in 1..(Len(s) - n) : SubSeq(s, n + 1, Len(s))[i] = s[i + n]
  <1> DEFINE t == SubSeq(s, n + 1, Len(s))
  <1>1. Len(s) \in Nat
    BY LenProperties
  <1>2. \A i \in (n + 1)..Len(s) : s[i] \in Byte
    BY <1>1, ElementOfSeq
  <1>3. /\ t \in Seq(Byte)
        /\ Len(t) = IF n + 1 <= Len(s) THEN Len(s) - (n + 1) + 1 ELSE 0
        /\ \A i \in 1..(Len(s) - (n + 1) + 1) : t[i] = s[(n + 1) + i - 1]
    BY <1>1, <1>2, SubSeqProperties
  <1> HIDE DEF t
  <1>4. Len(t) = Len(s) - n /\ Len(s) - (n + 1) + 1 = Len(s) - n
    BY <1>1, <1>3
  <1>5. ASSUME NEW i \in 1..(Len(s) - n) PROVE t[i] = s[i + n]
    <2>1. (n + 1) + i - 1 = i + n
      BY <1>1
    <2>2. QED
      BY <1>3, <1>4, <2>1
  <1>6. QED
    BY <1>3, <1>4, <1>5 DEF t

(* The writer writes its next byte.                                          *)
LEMMA CarriesWritten ==
    ASSUME NEW s \in Seq(Byte), NEW o \in Seq(Byte), NEW msgs \in Seq(Messages), NEW r \in Nat,
           NEW start \in Nat, NEW slack \in Nat, Carries(s, o, msgs, r, start, slack), o # <<>>
    PROVE  Carries(Append(s, Head(o)), Tail(o), msgs, r, start, slack)
  <1> DEFINE t == Append(s, Head(o))
             p == Tail(o)
  <1>1. PICK off \in [Nat -> Int] : Frame(off, s, o, msgs, r, start, slack)
    BY DEF Carries
  <1>2. /\ Len(s) \in Nat /\ Len(o) \in Nat /\ Len(o) > 0 /\ Len(msgs) \in Nat
        /\ Len(t) = Len(s) + 1 /\ Len(p) = Len(o) - 1
        /\ (\A i \in 1..Len(s) : t[i] = s[i]) /\ t[Len(s) + 1] = o[1]
        /\ \A i \in 1..(Len(o) - 1) : p[i] = o[i + 1]
    <2>1. Len(s) \in Nat /\ Len(o) \in Nat /\ Len(msgs) \in Nat
      BY LenProperties
    <2>2. /\ Len(o) > 0 /\ Head(o) = o[1] /\ Head(o) \in Byte /\ Len(p) = Len(o) - 1
          /\ \A i \in 1..(Len(o) - 1) : p[i] = o[i + 1]
      BY <2>1, HeadTailProperties, EmptySeq
    <2>3. /\ Len(t) = Len(s) + 1 /\ t[Len(s) + 1] = Head(o)
          /\ \A i \in 1..Len(s) : t[i] = s[i]
      BY <2>2, AppendProperties
    <2>4. QED
      BY <2>1, <2>2, <2>3
  <1>3. ASSUME NEW k \in (r + 1)..Len(msgs) PROVE Placed(off[k], t, p, msgs[k])
    <2>1. Placed(off[k], s, o, msgs[k])
      BY <1>1 DEF Frame
    <2>2. msgs[k] \in Anything /\ off[k] \in Int
      BY <1>2, ElementOfSeq DEF Anything
    <2>3. QED
      BY <2>1, <2>2, PlacedWritten
  <1>4. Len(t) + Len(p) + slack + 1 = off[Len(msgs) + 1]
    BY <1>1, <1>2 DEF Frame
  <1> HIDE DEF t, p
  <1>5. Frame(off, t, p, msgs, r, start, slack)
    BY <1>1, <1>3, <1>4 DEF Frame
  <1>6. QED
    BY <1>5 DEF Carries, t, p

(* A message is sent behind the others.                                      *)
LEMMA CarriesSent ==
    ASSUME NEW s \in Seq(Byte), NEW msgs \in Seq(Messages), NEW r \in Nat, NEW start \in Nat,
           NEW m \in Messages, Carries(s, <<>>, msgs, r, start, 0)
    PROVE  Carries(s, Bytes(m), Append(msgs, m), r, start, 0)
  <1> DEFINE L == Len(msgs)
             more == Append(msgs, m)
             o == Bytes(m)
  <1>1. PICK off \in [Nat -> Int] : Frame(off, s, <<>>, msgs, r, start, 0)
    BY DEF Carries
  <1> DEFINE new == [off EXCEPT ![L + 2] = off[L + 1] + Whole(m)]
  <1>2. /\ Len(s) \in Nat /\ L \in Nat /\ Len(more) = L + 1 /\ more[L + 1] = m
        /\ \A k \in 1..L : more[k] = msgs[k]
    BY LenProperties, AppendProperties
  <1>3. Whole(m) \in Nat /\ Whole(m) > 0 /\ Len(o) = Whole(m) /\ \A a \in 1..Whole(m) : o[a] = Nth(m, a)
    <2>1. Len(o) = Whole(m) /\ Whole(m) \in Nat /\ Whole(m) > 0
      BY WholeSize, SizeFacts, ConnectionAssumption DEF Whole, Anything
    <2>2. \A a \in 1..Whole(m) : o[a] = Nth(m, a)
      BY DEF Bytes, Whole, Nth
    <2>3. QED
      BY <2>1, <2>2
  <1>4. /\ r <= L /\ off[r + 1] = 2 - start /\ off[L + 1] = Len(s) + 1
    BY <1>1, <1>2, EmptySeq DEF Frame
  <1>41. off[L + 1] \in Int
    BY <1>2
  <1>5. /\ new \in [Nat -> Int] /\ new[L + 2] = off[L + 1] + Whole(m)
        /\ \A k \in 1..(L + 1) : new[k] = off[k]
    <2>1. L + 2 \in Nat /\ off[L + 1] + Whole(m) \in Int
      BY <1>2, <1>3, <1>41
    <2>2. \A k \in 1..(L + 1) : k \in Nat /\ k # L + 2
      BY <1>2
    <2>3. QED
      BY <2>1, <2>2
  <1> HIDE DEF L, more, o, new
  <1>6. ASSUME NEW k \in (r + 1)..L
        PROVE  /\ new[k + 1] = new[k] + Whole(more[k]) /\ new[k + 1] <= new[L + 2]
               /\ Placed(new[k], s, o, more[k])
    <2>1. k \in 1..L /\ k + 1 \in 1..(L + 1) /\ k \in 1..(L + 1)
      BY <1>2
    <2>2. new[k] = off[k] /\ new[k + 1] = off[k + 1] /\ more[k] = msgs[k]
          /\ off[k] \in Int /\ off[k + 1] \in Int
      <3>1. k \in Nat /\ k + 1 \in Nat
        BY <1>2
      <3>2. QED
        BY <1>2, <1>5, <2>1, <3>1
    <2>3. /\ off[k + 1] = off[k] + Whole(msgs[k]) /\ off[k + 1] <= off[L + 1]
          /\ Placed(off[k], s, <<>>, msgs[k])
      BY <1>1, <1>2 DEF Frame, L
    <2>4. new[k + 1] <= new[L + 2]
      <3>1. new[k + 1] = off[k + 1] /\ new[L + 2] = off[L + 1] + Whole(m)
            /\ off[k + 1] <= off[L + 1] /\ off[k + 1] \in Int
        BY <1>5, <2>2, <2>3
      <3>2. QED
        <4>1. PICK p \in Int, q \in Int, w \in Nat :
                p = off[k + 1] /\ q = off[L + 1] /\ w = Whole(m)
          BY <1>3, <1>41, <3>1
        <4>2. p <= q
          BY <3>1, <4>1
        <4>3. p <= q + w
          BY <4>2
        <4>4. QED
          BY <3>1, <4>1, <4>3
    <2>5. Placed(off[k], s, o, msgs[k])
      <3>1. msgs[k] \in Anything /\ o \in Seq(Byte)
        BY <2>1, ElementOfSeq, BytesFacts DEF L, Anything, o
      <3>2. off[k] + Whole(msgs[k]) <= Len(s) + 1
        BY <1>4, <2>3
      <3>3. QED
        BY <2>2, <2>3, <3>1, <3>2, PlacedBefore
    <2>6. QED
      BY <2>2, <2>3, <2>4, <2>5
  <1>7. /\ new[L + 2] = new[L + 1] + Whole(more[L + 1]) /\ new[L + 2] <= new[L + 2]
        /\ Placed(new[L + 1], s, o, more[L + 1])
    <2>1. new[L + 1] = off[L + 1] /\ new[L + 2] \in Int
      <3>1. L + 1 \in 1..(L + 1) /\ L + 2 \in Nat
        BY <1>2
      <3>2. QED
        BY <1>5, <3>1
    <2>2. Placed(Len(s) + 1, s, o, m)
      BY PlacedLast DEF o, Anything
    <2>3. QED
      BY <1>2, <1>4, <1>5, <2>1, <2>2
  <1>8. \A k \in (r + 1)..(L + 1) : /\ new[k + 1] = new[k] + Whole(more[k])
                                    /\ new[k + 1] <= new[L + 2]
                                    /\ Placed(new[k], s, o, more[k])
    <2> SUFFICES ASSUME NEW k \in (r + 1)..(L + 1)
        PROVE /\ new[k + 1] = new[k] + Whole(more[k])
              /\ new[k + 1] <= new[L + 2] /\ Placed(new[k], s, o, more[k])
      OBVIOUS
    <2>1. k \in (r + 1)..L \/ (k = L + 1 /\ k + 1 = L + 2)
      <3>1. k \in Int /\ L \in Int /\ r + 1 <= k /\ k <= L + 1
        BY <1>2
      <3>2. k = L + 1 \/ k <= L
        BY <3>1
      <3>3. QED
        BY <3>1, <3>2
    <2>2. QED
      BY <1>6, <1>7, <2>1
  <1>9. Frame(new, s, o, more, r, start, 0)
    <2>1. (L + 1) + 1 = L + 2 /\ r <= L + 1 /\ r + 1 \in 1..(L + 1)
      BY <1>2, <1>4
    <2>2. new[r + 1] = 2 - start
      BY <1>4, <1>5, <2>1
    <2>3. Len(s) + Len(o) + 0 + 1 = new[L + 2]
      <3>1. new[L + 2] = (Len(s) + 1) + Len(o) /\ Len(o) \in Nat
        BY <1>3, <1>4, <1>5
      <3>2. QED
        BY <1>2, <3>1
    <2>4. QED
      BY <1>2, <1>8, <2>1, <2>2, <2>3 DEF Frame
  <1>10. QED
    BY <1>5, <1>9 DEF Carries, more, o

(* The reader takes n bytes.                                                 *)
LEMMA CarriesTaken ==
    ASSUME NEW s \in Seq(Byte), NEW o \in Seq(Byte), NEW msgs \in Seq(Messages), NEW r \in Nat,
           NEW start \in Nat, NEW slack \in Nat, Carries(s, o, msgs, r, start, slack),
           NEW n \in Nat, n <= Len(s)
    PROVE  Carries(SubSeq(s, n + 1, Len(s)), o, msgs, r, start + n, slack)
  <1> DEFINE t == SubSeq(s, n + 1, Len(s))
  <1>1. PICK off \in [Nat -> Int] : Frame(off, s, o, msgs, r, start, slack)
    BY DEF Carries
  <1> DEFINE new == [k \in Nat |-> off[k] - n]
  <1>2. Len(s) \in Nat /\ Len(o) \in Nat /\ Len(msgs) \in Nat
    BY LenProperties
  <1>3. t \in Seq(Byte) /\ Len(t) = Len(s) - n /\ \A i \in 1..Len(t) : t[i] = s[i + n]
    <2>1. t \in Seq(Byte) /\ Len(t) = Len(s) - n /\ \A i \in 1..(Len(s) - n) : t[i] = s[i + n]
      BY RestOf
    <2> HIDE DEF t
    <2>2. QED
      BY <2>1
  <1>4. new \in [Nat -> Int] /\ \A k \in Nat : new[k] = off[k] - n
    OBVIOUS
  <1> HIDE DEF t, new
  <1>5. /\ r <= Len(msgs) /\ off[r + 1] = 2 - start
        /\ Len(s) + Len(o) + slack + 1 = off[Len(msgs) + 1]
    BY <1>1 DEF Frame
  <1>6. new[r + 1] = 2 - (start + n) /\ Len(t) + Len(o) + slack + 1 = new[Len(msgs) + 1]
    <2>1. r + 1 \in Nat /\ Len(msgs) + 1 \in Nat
      BY <1>2
    <2>2. QED
      BY <1>2, <1>3, <1>4, <1>5, <2>1
  <1>7. ASSUME NEW k \in (r + 1)..Len(msgs)
        PROVE  /\ new[k + 1] = new[k] + Whole(msgs[k]) /\ new[k + 1] <= new[Len(msgs) + 1]
               /\ Placed(new[k], t, o, msgs[k])
    <2>1. /\ off[k + 1] = off[k] + Whole(msgs[k]) /\ off[k + 1] <= off[Len(msgs) + 1]
          /\ Placed(off[k], s, o, msgs[k])
      BY <1>1 DEF Frame
    <2>2. k \in Nat /\ k + 1 \in Nat /\ Len(msgs) + 1 \in Nat
      BY <1>2
    <2>3. /\ new[k] = off[k] - n /\ new[k + 1] = off[k + 1] - n
          /\ new[Len(msgs) + 1] = off[Len(msgs) + 1] - n
          /\ off[k] \in Int /\ off[k + 1] \in Int /\ off[Len(msgs) + 1] \in Int
      BY <1>4, <2>2
    <2>4. msgs[k] \in Anything
      BY <1>2, <2>2, ElementOfSeq DEF Anything
    <2>5. Placed(off[k] - n, t, o, msgs[k])
      <3>1. ASSUME NEW x \in Int, x = off[k] PROVE Placed(x - n, t, o, msgs[k])
        <4>1. x - n \in Int /\ Placed(x, s, o, msgs[k])
          BY <2>1, <3>1
        <4>2. QED
          BY <1>3, <2>4, <4>1, PlacedTaken
      <3>2. QED
        BY <2>3, <3>1
    <2>6. Whole(msgs[k]) \in Nat
      BY <2>4, WholeSize
    <2>7. new[k + 1] = new[k] + Whole(msgs[k]) /\ new[k + 1] <= new[Len(msgs) + 1]
      <3>1. PICK p \in Int, q \in Int, z \in Int, w \in Nat :
                p = off[k] /\ q = off[k + 1] /\ z = off[Len(msgs) + 1] /\ w = Whole(msgs[k])
        BY <2>3, <2>6
      <3>2. q = p + w /\ q <= z
        BY <2>1, <3>1
      <3>3. q - n = (p - n) + w /\ q - n <= z - n
        BY <3>2
      <3>4. QED
        BY <2>3, <3>1, <3>3
    <2>8. QED
      BY <2>5, <2>3, <2>7
  <1>8. Frame(new, t, o, msgs, r, start + n, slack)
    BY <1>5, <1>6, <1>7 DEF Frame
  <1>9. QED
    BY <1>4, <1>8 DEF Carries, t

(* The bytes at the front are the next ones of the message being read.       *)
LEMMA CarriesFront ==
    ASSUME NEW s \in Seq(Byte), NEW o \in Seq(Byte), NEW msgs \in Seq(Messages), NEW r \in Nat,
           NEW start \in Nat, NEW slack \in Nat, Carries(s, o, msgs, r, start, slack),
           r < Len(msgs), NEW i \in 1..Len(s), start >= 1, start + i - 1 <= Whole(msgs[r + 1])
    PROVE  s[i] = Nth(msgs[r + 1], start + i - 1)
  <1>1. PICK off \in [Nat -> Int] : Frame(off, s, o, msgs, r, start, slack)
    BY DEF Carries
  <1>2. Len(s) \in Nat /\ Len(msgs) \in Nat /\ r + 1 \in (r + 1)..Len(msgs)
        /\ r + 1 \in 1..Len(msgs)
    BY LenProperties
  <1>3. msgs[r + 1] \in Anything
    BY <1>2, ElementOfSeq DEF Anything
  <1>4. Whole(msgs[r + 1]) \in Nat
    BY <1>3, WholeSize
  <1>5. off[r + 1] = 2 - start /\ Placed(off[r + 1], s, o, msgs[r + 1])
    BY <1>1, <1>2 DEF Frame
  <1>6. Placed(2 - start, s, o, msgs[r + 1])
    BY <1>5
  <1>7. PICK a \in Nat : a = start + i - 1
    BY <1>2
  <1>8. a \in 1..Whole(msgs[r + 1])
    BY <1>2, <1>4, <1>7
  <1>9. (2 - start) + a - 1 = i
    BY <1>2, <1>7
  <1>10. s[i] = Nth(msgs[r + 1], a)
    BY <1>2, <1>6, <1>8, <1>9 DEF Placed
  <1>11. QED
    BY <1>7, <1>10

(* A message has been read: the next one comes.                              *)
LEMMA CarriesNext ==
    ASSUME NEW s \in Seq(Byte), NEW o \in Seq(Byte), NEW msgs \in Seq(Messages), NEW r \in Nat,
           NEW start \in Nat, NEW slack \in Nat, Carries(s, o, msgs, r, start, slack),
           r < Len(msgs), start = Whole(msgs[r + 1]) + 1
    PROVE  Carries(s, o, msgs, r + 1, 1, slack)
  <1>1. PICK off \in [Nat -> Int] : Frame(off, s, o, msgs, r, start, slack)
    BY DEF Carries
  <1>2. Len(msgs) \in Nat /\ r + 1 \in (r + 1)..Len(msgs) /\ r + 1 <= Len(msgs)
        /\ (r + 1) + 1 = r + 2 /\ r + 2 \in Nat /\ r + 1 \in Nat /\ r + 1 \in 1..Len(msgs)
    BY LenProperties
  <1>3. off[r + 2] = off[r + 1] + Whole(msgs[r + 1]) /\ off[r + 1] = 2 - start
    BY <1>1, <1>2 DEF Frame
  <1>4. Whole(msgs[r + 1]) \in Nat
    BY <1>2, ElementOfSeq, WholeSize DEF Anything
  <1>5. off[(r + 1) + 1] = 2 - 1
    <2>1. PICK w \in Nat : w = Whole(msgs[r + 1])
      BY <1>4
    <2>2. off[r + 2] = (2 - start) + w /\ start = w + 1
      BY <1>3, <2>1
    <2>3. (2 - start) + w = 1
      BY <2>2
    <2>4. QED
      BY <1>2, <2>2, <2>3
  <1>6. \A k \in ((r + 1) + 1)..Len(msgs) : k \in (r + 1)..Len(msgs)
    BY <1>2
  <1>7. Frame(off, s, o, msgs, r + 1, 1, slack)
    BY <1>1, <1>2, <1>5, <1>6 DEF Frame
  <1>8. QED
    BY <1>7 DEF Carries

LEMMA NothingThere == \A i : ~(i \in 1..Len(<<>>))
  <1>1. 1..0 = {} /\ Len(<<>>) = 0
    BY EmptySeq
  <1>2. 1..Len(<<>>) = {}
    BY <1>1, Zenon
  <1>3. QED
    BY <1>2, Zenon

(* The end of what the socket holds is lost.                                 *)
LEMMA CarriesCut ==
    ASSUME NEW s \in Seq(Byte), NEW o \in Seq(Byte), NEW msgs \in Seq(Messages), NEW r \in Nat,
           NEW start \in Nat, NEW slack \in Nat, Carries(s, o, msgs, r, start, slack),
           NEW t \in Seq(Byte), Len(t) <= Len(s), \A i \in 1..Len(t) : t[i] = s[i]
    PROVE  \E lost \in Nat : Carries(t, <<>>, msgs, r, start, lost)
  <1>1. PICK off \in [Nat -> Int] : Frame(off, s, o, msgs, r, start, slack)
    BY DEF Carries
  <1>2. Len(s) \in Nat /\ Len(o) \in Nat /\ Len(t) \in Nat /\ Len(msgs) \in Nat
        /\ Len(<<>>) = 0
    BY LenProperties, EmptySeq
  <1>3. PICK lost \in Nat : lost = (Len(s) - Len(t)) + Len(o) + slack
    <2>1. (Len(s) - Len(t)) + Len(o) + slack \in Nat
      BY <1>2
    <2>2. QED
      BY <2>1, Zenon
  <1>4. Len(s) + Len(o) + slack + 1 = Len(t) + Len(<<>>) + lost + 1
    BY <1>2, <1>3
  <1>5. ASSUME NEW k \in (r + 1)..Len(msgs) PROVE Placed(off[k], t, <<>>, msgs[k])
    <2>1. Placed(off[k], s, o, msgs[k])
      BY <1>1 DEF Frame
    <2>2. \A i : i \in 1..Len(t) => i \in 1..Len(s) /\ t[i] = s[i]
      <3>1. 1..Len(t) \subseteq 1..Len(s)
        BY <1>2
      <3>2. QED
        BY <3>1, Zenon
    <2>3. \A i : ~(i \in 1..Len(<<>>))
      BY NothingThere
    <2>4. QED
      BY <2>1, <2>2, <2>3, ZenonT(20) DEF Placed
  <1>6. Frame(off, t, <<>>, msgs, r, start, lost)
    BY <1>1, <1>4, <1>5 DEF Frame
  <1>7. QED
    BY <1>6 DEF Carries

(* Nothing comes any more: the reader can as well begin with a header again. *)
LEMMA CarriesReset ==
    ASSUME NEW msgs \in Seq(Messages), NEW r \in Nat, NEW start \in Nat, start >= 1,
           NEW slack \in Nat, Carries(<<>>, <<>>, msgs, r, start, slack)
    PROVE  \E lost \in Nat : Carries(<<>>, <<>>, msgs, r, 1, lost)
  <1> DEFINE n == start - 1
  <1>1. PICK off \in [Nat -> Int] : Frame(off, <<>>, <<>>, msgs, r, start, slack)
    BY DEF Carries
  <1> DEFINE new == [k \in Nat |-> off[k] + n]
  <1>2. Len(msgs) \in Nat /\ Len(<<>>) = 0 /\ n \in Nat /\ n = start - 1
    BY LenProperties, EmptySeq
  <1>3. new \in [Nat -> Int] /\ \A k \in Nat : new[k] = off[k] + n
    BY <1>2
  <1> HIDE DEF new, n
  <1>4. r <= Len(msgs) /\ off[r + 1] = 2 - start /\ 0 + 0 + slack + 1 = off[Len(msgs) + 1]
    BY <1>1, <1>2 DEF Frame
  <1>5. new[r + 1] = 2 - 1 /\ new[Len(msgs) + 1] = Len(<<>>) + Len(<<>>) + (slack + n) + 1
    <2>1. r + 1 \in Nat /\ Len(msgs) + 1 \in Nat
      BY <1>2
    <2>2. new[r + 1] = (2 - start) + n /\ new[Len(msgs) + 1] = (0 + 0 + slack + 1) + n
      BY <1>3, <1>4, <2>1
    <2>3. (2 - start) + n = 1 /\ (0 + 0 + slack + 1) + n = 0 + 0 + (slack + n) + 1
      BY <1>2
    <2>4. QED
      BY <1>2, <2>2, <2>3
  <1>6. ASSUME NEW k \in (r + 1)..Len(msgs)
        PROVE  /\ new[k + 1] = new[k] + Whole(msgs[k]) /\ new[k + 1] <= new[Len(msgs) + 1]
               /\ Placed(new[k], <<>>, <<>>, msgs[k])
    <2>1. off[k + 1] = off[k] + Whole(msgs[k]) /\ off[k + 1] <= off[Len(msgs) + 1]
      BY <1>1 DEF Frame
    <2>2. k \in Nat /\ k + 1 \in Nat /\ Len(msgs) + 1 \in Nat /\ k \in 1..Len(msgs)
      BY <1>2
    <2>3. /\ new[k] = off[k] + n /\ new[k + 1] = off[k + 1] + n
          /\ new[Len(msgs) + 1] = off[Len(msgs) + 1] + n
          /\ off[k] \in Int /\ off[k + 1] \in Int /\ off[Len(msgs) + 1] \in Int
      BY <1>3, <2>2
    <2>4. Whole(msgs[k]) \in Nat
      BY <2>2, ElementOfSeq, WholeSize DEF Anything
    <2>5. off[k + 1] + n = (off[k] + n) + Whole(msgs[k])
          /\ off[k + 1] + n <= off[Len(msgs) + 1] + n
      <3>1. off[k] \in Int /\ off[k + 1] \in Int /\ off[Len(msgs) + 1] \in Int
            /\ Whole(msgs[k]) \in Nat /\ n \in Nat
        BY <1>2, <2>3, <2>4
      <3>2. \A p \in Int, w \in Nat, j \in Nat : (p + w) + j = (p + j) + w
        OBVIOUS
      <3>3. \A q \in Int, z \in Int, j \in Nat : q <= z => q + j <= z + j
        OBVIOUS
      <3>4. (off[k] + Whole(msgs[k])) + n = (off[k] + n) + Whole(msgs[k])
        BY <3>1, <3>2, Zenon
      <3>5. off[k + 1] + n <= off[Len(msgs) + 1] + n
        BY <2>1, <3>1, <3>3, Zenon
      <3>6. QED
        BY <2>1, <3>4, <3>5, Zenon
    <2>6. new[k + 1] = new[k] + Whole(msgs[k]) /\ new[k + 1] <= new[Len(msgs) + 1]
      BY <2>3, <2>5
    <2>7. Placed(new[k], <<>>, <<>>, msgs[k])
      <3>1. \A i : ~(i \in 1..Len(<<>>))
        BY NothingThere
      <3>2. QED
        BY <3>1, Zenon DEF Placed
    <2>8. QED
      BY <2>6, <2>7
  <1>7. Frame(new, <<>>, <<>>, msgs, r, 1, slack + n)
    BY <1>4, <1>5, <1>6 DEF Frame
  <1>8. slack + n \in Nat
    BY <1>2
  <1>9. QED
    BY <1>3, <1>7, <1>8 DEF Carries

(* No message is left: no byte is left either, nor was one lost.             *)
LEMMA CarriesNone ==
    ASSUME NEW s \in Seq(Byte), NEW o \in Seq(Byte), NEW msgs \in Seq(Messages),
           NEW start \in Nat, start >= 1, NEW slack \in Nat,
           Carries(s, o, msgs, Len(msgs), start, slack)
    PROVE  s = <<>> /\ o = <<>>
  <1>1. Len(s) \in Nat /\ Len(o) \in Nat
    BY LenProperties
  <1>2. Len(s) + Len(o) + slack + 1 = 2 - start
    BY DEF Carries, Frame
  <1>3. Len(s) = 0 /\ Len(o) = 0
    BY <1>1, <1>2
  <1>4. QED
    BY <1>3, EmptySeq
-------------------------------------------------------------------------------
(* One direction: what is in the socket (s) and still to be written (o) are   *)
(* the messages sent (msgs) and not yet received (r of them were), from where *)
(* the reader (rd) is; nothing is lost while the writing end is open (up).    *)
Heads == [msg : Anything, got : -1..BodySize]

StartOf(rd) == IF rd = Header THEN 1 ELSE HeaderSize + rd.got + 1

InMessage(msgs, r, rd) ==
    r < Len(msgs) /\ rd.msg = msgs[r + 1] /\ rd.got \in 0..(Size(msgs[r + 1]) - 1)

Link(s, o, msgs, r, rd, up) ==
    /\ rd = Header \/ InMessage(msgs, r, rd)
    /\ \E slack \in Nat : Carries(s, o, msgs, r, StartOf(rd), slack) /\ (up => slack = 0)

LEMMA StartFacts ==
    ASSUME NEW msgs, NEW r, NEW rd \in Heads, rd = Header \/ InMessage(msgs, r, rd)
    PROVE  StartOf(rd) \in Nat /\ StartOf(rd) >= 1
  <1>1. HeaderSize \in Nat /\ rd.got \in Int
    BY ConnectionAssumption DEF Heads
  <1>2. CASE rd = Header
    BY <1>2 DEF StartOf
  <1>3. CASE rd # Header
    <2>1. rd.got \in Int /\ rd.got >= 0
      <3>1. \A z : rd.got \in 0..z => rd.got >= 0
        BY <1>1
      <3>2. QED
        BY <1>1, <1>3, <3>1 DEF InMessage
    <2>2. QED
      BY <1>1, <1>3, <2>1 DEF StartOf
  <1>4. QED
    BY <1>2, <1>3

LEMMA LinkWritten ==
    ASSUME NEW s \in Seq(Byte), NEW o \in Seq(Byte), o # <<>>, NEW msgs \in Seq(Messages),
           NEW r \in Nat, NEW rd \in Heads, NEW up, Link(s, o, msgs, r, rd, up)
    PROVE  Link(Append(s, Head(o)), Tail(o), msgs, r, rd, up)
  <1>1. StartOf(rd) \in Nat
    BY StartFacts DEF Link
  <1>2. QED
    BY <1>1, CarriesWritten DEF Link

LEMMA LinkSent ==
    ASSUME NEW s \in Seq(Byte), NEW msgs \in Seq(Messages), NEW m \in Messages,
           NEW r \in Nat, NEW rd \in Heads, Link(s, <<>>, msgs, r, rd, TRUE)
    PROVE  Link(s, Bytes(m), Append(msgs, m), r, rd, TRUE)
  <1>1. StartOf(rd) \in Nat
    BY StartFacts DEF Link
  <1>2. Carries(s, <<>>, msgs, r, StartOf(rd), 0)
    BY DEF Link
  <1>3. Carries(s, Bytes(m), Append(msgs, m), r, StartOf(rd), 0)
    BY <1>1, <1>2, CarriesSent
  <1>4. ASSUME InMessage(msgs, r, rd) PROVE InMessage(Append(msgs, m), r, rd)
    <2>1. Len(msgs) \in Nat /\ Len(Append(msgs, m)) = Len(msgs) + 1
          /\ \A k \in 1..Len(msgs) : Append(msgs, m)[k] = msgs[k]
      BY LenProperties, AppendProperties
    <2>2. r < Len(msgs) /\ r + 1 \in 1..Len(msgs)
      BY <1>4, <2>1 DEF InMessage
    <2>3. r < Len(Append(msgs, m)) /\ Append(msgs, m)[r + 1] = msgs[r + 1]
      BY <2>1, <2>2
    <2>4. QED
      BY <1>4, <2>3 DEF InMessage
  <1>5. QED
    BY <1>3, <1>4 DEF Link

LEMMA LinkNone ==
    ASSUME NEW s \in Seq(Byte), NEW o \in Seq(Byte), NEW msgs \in Seq(Messages),
           NEW r \in Nat, NEW rd \in Heads, NEW up, Link(s, o, msgs, r, rd, up)
    PROVE  /\ r <= Len(msgs)
           /\ r = Len(msgs) => s = <<>> /\ o = <<>> /\ rd = Header
  <1>1. StartOf(rd) \in Nat /\ StartOf(rd) >= 1 /\ Len(msgs) \in Nat
    BY StartFacts, LenProperties DEF Link
  <1>2. PICK slack \in Nat : Carries(s, o, msgs, r, StartOf(rd), slack)
    BY DEF Link
  <1>3. r <= Len(msgs)
    BY <1>2 DEF Carries, Frame
  <1>4. r = Len(msgs) => s = <<>> /\ o = <<>>
    BY <1>1, <1>2, CarriesNone
  <1>5. r = Len(msgs) => ~(r < Len(msgs))
    BY <1>1
  <1>6. QED
    BY <1>3, <1>4, <1>5 DEF Link, InMessage

LEMMA LinkLost ==
    ASSUME NEW s \in Seq(Byte), NEW o \in Seq(Byte), NEW msgs \in Seq(Messages),
           NEW r \in Nat, NEW rd \in Heads, NEW up, Link(s, o, msgs, r, rd, up),
           NEW t \in Seq(Byte), Len(t) <= Len(s), \A i \in 1..Len(t) : t[i] = s[i]
    PROVE  Link(t, <<>>, msgs, r, rd, FALSE)
  <1>1. StartOf(rd) \in Nat
    BY StartFacts DEF Link
  <1>2. PICK slack \in Nat : Carries(s, o, msgs, r, StartOf(rd), slack)
    BY DEF Link
  <1>3. \E lost \in Nat : Carries(t, <<>>, msgs, r, StartOf(rd), lost)
    BY <1>1, <1>2, CarriesCut
  <1>4. QED
    BY <1>3 DEF Link

LEMMA LinkReset ==
    ASSUME NEW msgs \in Seq(Messages), NEW r \in Nat, NEW rd \in Heads,
           Link(<<>>, <<>>, msgs, r, rd, FALSE)
    PROVE  Link(<<>>, <<>>, msgs, r, Header, FALSE)
  <1>1. StartOf(rd) \in Nat /\ StartOf(rd) >= 1
    BY StartFacts DEF Link
  <1>2. PICK slack \in Nat : Carries(<<>>, <<>>, msgs, r, StartOf(rd), slack)
    BY DEF Link
  <1>3. \E lost \in Nat : Carries(<<>>, <<>>, msgs, r, 1, lost)
    BY <1>1, <1>2, CarriesReset
  <1>4. QED
    BY <1>3 DEF Link, StartOf

(* A first part of a sequence.                                               *)
LEMMA FrontOf ==
    ASSUME NEW s \in Seq(Byte), NEW n \in Nat, n <= Len(s)
    PROVE  /\ SubSeq(s, 1, n) \in Seq(Byte) /\ Len(SubSeq(s, 1, n)) = n
           /\ \A i \in 1..n : SubSeq(s, 1, n)[i] = s[i]
  <1> DEFINE t == SubSeq(s, 1, n)
  <1>1. Len(s) \in Nat
    BY LenProperties
  <1>2. \A i \in 1..n : s[i] \in Byte
    BY <1>1, ElementOfSeq
  <1>3. /\ t \in Seq(Byte)
        /\ Len(t) = IF 1 <= n THEN n - 1 + 1 ELSE 0
        /\ \A i \in 1..(n - 1 + 1) : t[i] = s[1 + i - 1]
    BY <1>1, <1>2, SubSeqProperties
  <1> HIDE DEF t
  <1>4. Len(t) = n /\ n - 1 + 1 = n
    BY <1>3
  <1>5. ASSUME NEW i \in 1..n PROVE t[i] = s[i]
    <2>1. 1 + i - 1 = i
      OBVIOUS
    <2>2. QED
      BY <1>3, <1>4, <2>1
  <1>6. QED
    BY <1>3, <1>4, <1>5 DEF t

(* What read_header takes is the header of the next message.                 *)
LEMMA LinkHeader ==
    ASSUME NEW s \in Seq(Byte), NEW o \in Seq(Byte), NEW msgs \in Seq(Messages),
           NEW r \in Nat, NEW up, Link(s, o, msgs, r, Header, up), Len(s) >= HeaderSize
    PROVE  /\ r < Len(msgs)
           /\ SubSeq(s, 1, HeaderSize)[1].msg = msgs[r + 1]
           /\ IsPrefix(SubSeq(s, 1, HeaderSize), Bytes(msgs[r + 1]))
           /\ Link(SubSeq(s, HeaderSize + 1, Len(s)), o, msgs, r,
                   [msg |-> msgs[r + 1], got |-> 0], up)
  <1> DEFINE head == SubSeq(s, 1, HeaderSize)
             m == msgs[r + 1]
             rest == SubSeq(s, HeaderSize + 1, Len(s))
  <1>1. HeaderSize \in Nat /\ HeaderSize >= 1 /\ BodySize \in Nat /\ Len(s) \in Nat /\ Len(msgs) \in Nat
        /\ Header \in Heads /\ Header.got = -1
    <2>1. Header \in Heads
      BY ConnectionAssumption, MessageFacts DEF Header, Heads
    <2>2. QED
      BY <2>1, ConnectionAssumption, LenProperties DEF Header
  <1>2. r < Len(msgs)
    <2>1. s # <<>>
      BY <1>1, EmptySeq
    <2>2. QED
      BY <1>1, <2>1, LinkNone
  <1>3. m \in Messages /\ m \in Anything /\ Whole(m) \in Nat /\ Whole(m) > HeaderSize
        /\ Size(m) \in 1..BodySize
    <2>1. r + 1 \in 1..Len(msgs)
      BY <1>1, <1>2
    <2>2. m \in Messages
      BY <2>1, ElementOfSeq
    <2>3. QED
      BY <2>2, WholeSize, SizeFacts DEF Anything
  <1>4. PICK slack \in Nat : Carries(s, o, msgs, r, 1, slack) /\ (up => slack = 0)
    BY DEF Link, StartOf
  <1> HIDE DEF head, m, rest
  <1>5. head \in Seq(Byte) /\ Len(head) = HeaderSize /\ \A i \in 1..HeaderSize : head[i] = s[i]
    BY <1>1, FrontOf DEF head
  <1>6. ASSUME NEW i \in 1..HeaderSize PROVE head[i] = Nth(m, i)
    <2>1. i \in 1..Len(s) /\ 1 + i - 1 = i /\ i <= Whole(m)
      BY <1>1, <1>3
    <2>2. 1 \in Nat /\ 1 >= 1 /\ 1 + i - 1 <= Whole(m)
      BY <2>1
    <2>3. s[i] = Nth(m, 1 + i - 1)
      BY <1>2, <1>4, <2>1, <2>2, CarriesFront DEF m
    <2>4. QED
      BY <1>5, <2>1, <2>3
  <1>7. head[1].msg = m
    <2>1. 1 \in 1..HeaderSize
      BY <1>1
    <2>2. head[1] = Nth(m, 1)
      BY <1>6, <2>1
    <2>3. QED
      BY <2>2 DEF Nth
  <1>8. IsPrefix(head, Bytes(m))
    <2>1. Bytes(m) \in Seq(Byte) /\ Len(Bytes(m)) = Whole(m)
      BY <1>1, <1>3, BytesFacts, WholeSize DEF Bytes, Whole
    <2>2. \A i \in 1..HeaderSize : Bytes(m)[i] = Nth(m, i)
      <3>1. \A i \in 1..HeaderSize : i \in 1..(HeaderSize + Size(m))
        BY <1>1, <1>3
      <3>2. QED
        BY <3>1 DEF Bytes, Nth
    <2>3. SubSeq(Bytes(m), 1, HeaderSize) = head
      <3>1. HeaderSize <= Len(Bytes(m))
        BY <1>1, <1>3, <2>1
      <3>2. /\ SubSeq(Bytes(m), 1, HeaderSize) \in Seq(Byte)
            /\ Len(SubSeq(Bytes(m), 1, HeaderSize)) = HeaderSize
            /\ \A i \in 1..HeaderSize : SubSeq(Bytes(m), 1, HeaderSize)[i] = Bytes(m)[i]
        BY <1>1, <2>1, <3>1, FrontOf
      <3>3. QED
        BY <1>5, <1>6, <2>2, <3>2, SeqEqual
    <2>4. QED
      BY <1>1, <1>3, <1>5, <2>1, <2>3 DEF IsPrefix
  <1>9. Carries(rest, o, msgs, r, 1 + HeaderSize, slack)
    BY <1>1, <1>4, CarriesTaken DEF rest
  <1>10. Link(rest, o, msgs, r, [msg |-> m, got |-> 0], up)
    <2>1. [msg |-> m, got |-> 0] # Header
      BY <1>1
    <2>2. StartOf([msg |-> m, got |-> 0]) = 1 + HeaderSize
      BY <1>1, <2>1 DEF StartOf
    <2>3. InMessage(msgs, r, [msg |-> m, got |-> 0])
      BY <1>1, <1>2, <1>3 DEF InMessage, m
    <2>4. QED
      BY <1>4, <1>9, <2>2, <2>3 DEF Link
  <1>11. QED
    BY <1>2, <1>7, <1>8, <1>10 DEF head, m, rest

(* What read_body takes are bytes of the message being read.                 *)
LEMMA LinkBody ==
    ASSUME NEW s \in Seq(Byte), NEW o \in Seq(Byte), NEW msgs \in Seq(Messages),
           NEW r \in Nat, NEW rd \in Heads, NEW up, Link(s, o, msgs, r, rd, up), rd # Header,
           NEW n \in 1..(Size(rd.msg) - rd.got), n <= Len(s)
    PROVE  /\ r < Len(msgs) /\ rd.msg = msgs[r + 1]
           /\ SubSeq(s, 1, n) =
                SubSeq(Bytes(rd.msg), HeaderSize + rd.got + 1, HeaderSize + rd.got + n)
           /\ rd.got + n = Size(rd.msg) =>
                Link(SubSeq(s, n + 1, Len(s)), o, msgs, r + 1, Header, up)
           /\ rd.got + n # Size(rd.msg) =>
                Link(SubSeq(s, n + 1, Len(s)), o, msgs, r,
                     [msg |-> rd.msg, got |-> rd.got + n], up)
  <1> DEFINE m == rd.msg
             g == rd.got
             front == SubSeq(s, 1, n)
             rest == SubSeq(s, n + 1, Len(s))
             mine == SubSeq(Bytes(m), HeaderSize + g + 1, HeaderSize + g + n)
  <1>1. HeaderSize \in Nat /\ BodySize \in Nat /\ Len(s) \in Nat /\ Len(msgs) \in Nat
    BY ConnectionAssumption, LenProperties
  <1>2. r < Len(msgs) /\ m = msgs[r + 1] /\ g \in 0..(Size(m) - 1)
    BY DEF Link, InMessage
  <1>3. m \in Anything /\ Size(m) \in Nat /\ Whole(m) \in Nat /\ Whole(m) = HeaderSize + Size(m)
    BY WholeSize, MessageFacts DEF Heads, Whole
  <1>4. g \in Nat /\ n \in Nat /\ n >= 1 /\ g + n <= Size(m)
    BY <1>2, <1>3
  <1>5. PICK slack \in Nat : Carries(s, o, msgs, r, HeaderSize + g + 1, slack) /\ (up => slack = 0)
    BY DEF Link, StartOf
  <1>6. front \in Seq(Byte) /\ Len(front) = n /\ \A i \in 1..n : front[i] = s[i]
    BY <1>1, <1>4, FrontOf
  <1>7. \A i \in 1..Whole(m) : Bytes(m)[i] = Nth(m, i)
    BY DEF Bytes, Whole, Nth
  <1>8. Bytes(m) \in Seq(Byte)
    BY <1>3, BytesFacts
  <1>9. Carries(rest, o, msgs, r, (HeaderSize + g + 1) + n, slack)
    <2>1. HeaderSize + g + 1 \in Nat
      BY <1>1, <1>4
    <2> HIDE DEF g
    <2>2. QED
      BY <1>4, <1>5, <2>1, CarriesTaken
  <1> HIDE DEF m, g, front, rest, mine
  <1>10. front = mine
    <2>1. /\ mine \in Seq(Byte)
          /\ Len(mine) = n
          /\ \A i \in 1..n : mine[i] = Bytes(m)[HeaderSize + g + i]
      <3>1. /\ HeaderSize + g + 1 \in Int /\ HeaderSize + g + n \in Int
            /\ HeaderSize + g + 1 <= HeaderSize + g + n
            /\ (HeaderSize + g + n) - (HeaderSize + g + 1) + 1 = n
        BY <1>1, <1>4
      <3>2. \A i \in (HeaderSize + g + 1)..(HeaderSize + g + n) : Bytes(m)[i] \in Byte
        <4>1. Len(Bytes(m)) = Whole(m)
          BY <1>3 DEF Bytes, Whole
        <4>2. \A i \in (HeaderSize + g + 1)..(HeaderSize + g + n) : i \in 1..Whole(m)
          BY <1>1, <1>3, <1>4
        <4>3. QED
          BY <1>8, <4>1, <4>2, ElementOfSeq
      <3>3. /\ mine \in Seq(Byte)
            /\ Len(mine) = IF HeaderSize + g + 1 <= HeaderSize + g + n
                           THEN (HeaderSize + g + n) - (HeaderSize + g + 1) + 1 ELSE 0
            /\ \A i \in 1..((HeaderSize + g + n) - (HeaderSize + g + 1) + 1) :
                  mine[i] = Bytes(m)[(HeaderSize + g + 1) + i - 1]
        BY <3>1, <3>2, SubSeqProperties DEF mine
      <3>4. ASSUME NEW i \in 1..n PROVE mine[i] = Bytes(m)[HeaderSize + g + i]
        <4>1. (HeaderSize + g + 1) + i - 1 = HeaderSize + g + i
          BY <1>1, <1>4
        <4>2. QED
          BY <3>1, <3>3, <4>1
      <3>5. QED
        BY <3>1, <3>3, <3>4
    <2>2. ASSUME NEW i \in 1..n PROVE front[i] = mine[i]
      <3>1. /\ i \in 1..Len(s) /\ HeaderSize + g + i \in 1..Whole(m)
            /\ HeaderSize + g + 1 \in Nat /\ HeaderSize + g + 1 >= 1
            /\ (HeaderSize + g + 1) + i - 1 = HeaderSize + g + i
            /\ (HeaderSize + g + 1) + i - 1 <= Whole(m)
        BY <1>1, <1>3, <1>4
      <3>2. s[i] = Nth(m, (HeaderSize + g + 1) + i - 1)
        BY <1>2, <1>5, <3>1, CarriesFront
      <3>3. QED
        BY <1>6, <1>7, <2>1, <3>1, <3>2
    <2>3. QED
      BY <1>4, <1>6, <2>1, <2>2, SeqEqual
  <1>11. g + n = Size(m) => Link(rest, o, msgs, r + 1, Header, up)
    <2> SUFFICES ASSUME g + n = Size(m) PROVE Link(rest, o, msgs, r + 1, Header, up)
      OBVIOUS
    <2>1. (HeaderSize + g + 1) + n = Whole(m) + 1 /\ Whole(m) + 1 \in Nat
      BY <1>1, <1>3, <1>4
    <2>2. rest \in Seq(Byte)
      BY <1>4, PartOf DEF rest
    <2>3. Carries(rest, o, msgs, r, Whole(m) + 1, slack)
      BY <1>9, <2>1
    <2>4. Carries(rest, o, msgs, r + 1, 1, slack)
      BY <1>2, <2>1, <2>2, <2>3, CarriesNext
    <2>5. QED
      BY <1>5, <2>4 DEF Link, StartOf
  <1>12. g + n # Size(m) => Link(rest, o, msgs, r, [msg |-> m, got |-> g + n], up)
    <2> SUFFICES ASSUME g + n # Size(m)
        PROVE Link(rest, o, msgs, r, [msg |-> m, got |-> g + n], up)
      OBVIOUS
    <2>1. g + n \in 0..(Size(m) - 1)
      <3>1. ASSUME NEW z \in Nat, g + n <= z, g + n # z PROVE g + n \in 0..(z - 1)
        BY <1>4, <3>1
      <3>2. QED
        BY <1>3, <1>4, <3>1
    <2>2. [msg |-> m, got |-> g + n] # Header
      BY <1>4 DEF Header
    <2>3. StartOf([msg |-> m, got |-> g + n]) = (HeaderSize + g + 1) + n
      BY <1>1, <1>4, <2>2 DEF StartOf
    <2>4. InMessage(msgs, r, [msg |-> m, got |-> g + n])
      BY <1>2, <2>1 DEF InMessage
    <2>5. QED
      BY <1>5, <1>9, <2>3, <2>4 DEF Link
  <1>13. QED
    BY <1>2, <1>10, <1>11, <1>12 DEF m, g, front, rest, mine
-------------------------------------------------------------------------------
(* The invariant of what no cut header has disturbed.  Alone: no two sends of *)
(* one direction went on at a time, since it did not happen or since the     *)
(* protocol lets only one of the two threads send at a time.                 *)
Alone == running => ~raced

(* What the writers of a direction still have to write.                      *)
RestIn(w, d) ==
    IF d = "down" THEN IF w["connect"] # <<>> THEN w["connect"] ELSE w["sender"]
                  ELSE IF w["w_event"] # <<>> THEN w["w_event"] ELSE w["w_sender"]

Rest(d) == RestIn(out, d)

(* A process that went writes nothing and nobody reads what is sent to it.   *)
Quiet ==
    /\ \A t \in Writers : ~open[Way(t)] => out[t] = <<>>
    /\ \A d \in Directions : ~open[Other(d)] => ~reading[d]
    /\ connect # "reply" => out["connect"] = <<>>

(* No other thread of the direction is writing.                              *)
Lone(t) == \A u \in Writers : Way(u) = Way(t) /\ u # t => out[u] = <<>>

Apart == Alone => \A t \in Writers : out[t] # <<>> => Lone(t)

(* A reader is at the right place of what comes.                             *)
Flow(d) ==
    Alone /\ reading[d] =>
        Link(stream[d], Rest(d), sent[d], Len(received[d]), reader[d], open[d])

(* The messages of each direction, in their order.                           *)
Down(k) == IF k = 1 THEN Settings ELSE Bundle(k - 1)
Up(k)   == IF k = 1 THEN Applied ELSE Result(k - 1, TRUE)

(* Before the connect thread is done.                                        *)
Early ==
    /\ bundles = 0 /\ results = <<>> /\ received["up"] = <<>> /\ integrated = <<>>
    /\ out["sender"] = <<>> /\ out["w_sender"] = <<>> /\ Len(sent["up"]) <= 1

DownSent ==
    /\ Len(sent["down"]) = IF connect = "settings" THEN 0 ELSE bundles + 1
    /\ \A k \in 1..Len(sent["down"]) : sent["down"][k] = Down(k)

UpSent ==
    /\ \A k \in 1..Len(sent["up"]) : sent["up"][k] = Up(k)
    /\ \A k \in 1..Len(results) : results[k] = Up(Len(sent["up"]) + k)
    /\ Len(sent["up"]) + Len(results) = Len(received["down"])
    /\ settled <=> Len(sent["up"]) # 0
    /\ ~settled => Len(results) = 0

UpHandled ==
    /\ Len(integrated) = IF Len(received["up"]) = 0 THEN 0 ELSE Len(received["up"]) - 1
    /\ \A k \in 1..Len(integrated) : integrated[k] = Up(k + 1)

Protocol ==
    /\ connect # "done" => Early
    /\ connect = "done" => out["w_event"] = <<>>
    /\ DownSent /\ UpSent /\ UpHandled

Safe ==
    /\ Inv /\ TypeOK /\ Quiet /\ Apart
    /\ ~running => Protocol
    /\ \A d \in Directions : Flow(d)

LEMMA Names ==
    /\ \A d : d \in Directions <=> d = "down" \/ d = "up"
    /\ \A t : t \in Writers <=> t = "connect" \/ t = "sender" \/ t = "w_event" \/ t = "w_sender"
    /\ Way("connect") = "down" /\ Way("sender") = "down"
    /\ Way("w_event") = "up" /\ Way("w_sender") = "up"
    /\ Other("down") = "up" /\ Other("up") = "down"
    /\ \A t \in Writers : Way(t) \in Directions
  BY DEF Directions, Writers, Way, Other

LEMMA RestFacts ==
    ASSUME NEW w
    PROVE  /\ \A t \in Writers :
                (\A u \in Writers : Way(u) = Way(t) /\ u # t => w[u] = <<>>) =>
                    RestIn(w, Way(t)) = w[t]
           /\ \A v : \A d \in Directions :
                (\A u \in Writers : Way(u) = d => w[u] = v[u]) => RestIn(w, d) = RestIn(v, d)
           /\ \A d \in Directions :
                (\A u \in Writers : Way(u) = d => w[u] = <<>>) => RestIn(w, d) = <<>>
  BY Names DEF RestIn

LEMMA InitSafe == Init => Safe
  <1> SUFFICES ASSUME Init PROVE Safe
    OBVIOUS
  <1>1. Inv /\ TypeOK
    BY InitInv, InitTypes
  <1>2. Len(<<>>) = 0 /\ 1..0 = {}
    BY EmptySeq
  <1>3. Quiet /\ Apart
    BY Names DEF Init, Quiet, Apart, Lone
  <1>4. Protocol
    <2>1. /\ sent["down"] = <<>> /\ sent["up"] = <<>> /\ received["up"] = <<>>
          /\ received["down"] = <<>> /\ out["sender"] = <<>> /\ out["w_sender"] = <<>>
      BY Names DEF Init
    <2>2. Early
      BY <1>2, <2>1 DEF Init, Early
    <2>3. DownSent /\ UpSent /\ UpHandled
      BY <1>2, <2>1 DEF Init, DownSent, UpSent, UpHandled
    <2>4. QED
      BY <2>2, <2>3 DEF Init, Protocol
  <1>5. ASSUME NEW d \in Directions PROVE Flow(d)
    <2>1. /\ stream[d] = <<>> /\ Rest(d) = <<>> /\ sent[d] = <<>> /\ received[d] = <<>>
          /\ reader[d] = Header
      BY Names DEF Init, Rest, RestIn
    <2>2. DEFINE off == [k \in Nat |-> 1]
    <2>3. Frame(off, <<>>, <<>>, <<>>, 0, 1, 0)
      BY <1>2 DEF Frame
    <2>4. Carries(<<>>, <<>>, <<>>, 0, 1, 0)
      <3>1. off \in [Nat -> Int]
        OBVIOUS
      <3>2. QED
        BY <2>3, <3>1 DEF Carries
    <2>5. Link(<<>>, <<>>, <<>>, 0, Header, open[d])
      BY <2>4 DEF Link, StartOf
    <2>6. QED
      BY <1>2, <2>1, <2>5 DEF Flow
  <1>6. QED
    BY <1>1, <1>3, <1>4, <1>5 DEF Safe
-------------------------------------------------------------------------------
(* Quiet is kept.                                                            *)
LEMMA QuietStays ==
    ASSUME Shape, Quiet, UNCHANGED <<open, reading, connect>>,
           out' \in [Writers -> Seq(Byte)],
           \A t \in Writers : out[t] = <<>> => out'[t] = <<>>
    PROVE  Quiet'
  BY Names DEF Quiet

LEMMA BeginQuiet ==
    ASSUME Shape, Quiet, NEW t \in Writers, NEW m, SendBegins(t, m), UNCHANGED <<open, reading>>,
           connect' = connect \/ connect' = "reply", t = "connect" => connect' = "reply"
    PROVE  Quiet'
  <1>1. /\ open[Way(t)] /\ \A u \in Writers : u # t => out'[u] = out[u]
    BY DEF SendBegins, MaySend, Shape
  <1>2. \A u \in Writers : ~open[Way(u)] => out[u] = <<>> /\ u # t
    BY <1>1 DEF Quiet
  <1>3. connect' # "reply" => out["connect"] = <<>> /\ t # "connect"
    BY DEF Quiet
  <1>4. QED
    BY <1>1, <1>2, <1>3, Names DEF Quiet

LEMMA HandlesQuiet ==
    ASSUME Shape, Quiet, NEW d \in Directions, NEW m, Handles(d, m), Reads(d), UNCHANGED open,
           reading \in [Directions -> BOOLEAN]
    PROVE  Quiet'
  <1> USE DEF disp, peer
  <1>1. CASE d = "up"
    <2>1. /\ connect' = "done" /\ UNCHANGED out /\ reading' = [reading EXCEPT !["up"] = active']
      BY <1>1 DEF Handles, DispatcherHandles
    <2>2. out["connect"] = <<>> /\ reading["up"]
      BY <1>1 DEF Reads, Quiet
    <2>3. \A e \in Directions : ~open[Other(e)] => ~reading'[e]
      BY <2>1, <2>2, Names DEF Quiet
    <2>4. QED
      BY <2>1, <2>2, <2>3 DEF Quiet
  <1>2. CASE d = "down"
    <2>1. UNCHANGED <<reading, connect>>
      BY <1>2 DEF Handles, WorkerHandles
    <2>2. CASE SendBegins("w_event", Applied)
      BY <2>1, <2>2, BeginQuiet, Names
    <2>3. CASE UNCHANGED out
      BY <2>1, <2>3 DEF Quiet
    <2>4. QED
      BY <1>2, <2>2, <2>3 DEF Handles, WorkerHandles
  <1>3. QED
    BY <1>1, <1>2, Names

LEMMA EndsQuiet ==
    ASSUME Shape, Quiet, NEW d \in Directions, ReadEnds(d), Reads(d), UNCHANGED <<open, out>>,
           reading \in [Directions -> BOOLEAN]
    PROVE  Quiet'
  <1>1. \A e \in Directions : reading'[e] => reading[e]
    BY DEF ReadEnds
  <1>2. connect' = connect \/ (d = "up" /\ out["connect"] = <<>>)
    BY Names DEF ReadEnds, Reads, Quiet
  <1>3. \A e \in Directions : ~open'[Other(e)] => ~reading'[e]
    BY <1>1 DEF Quiet
  <1>4. connect' # "reply" => out'["connect"] = <<>>
    BY <1>2 DEF Quiet
  <1>5. QED
    BY <1>3, <1>4 DEF Quiet

LEMMA GoesQuiet ==
    ASSUME Shape, Quiet, NEW d \in Directions, Goes(d), reading \in [Directions -> BOOLEAN]
    PROVE  Quiet'
  <1> USE DEF disp, peer
  <1>1. /\ open' = [open EXCEPT ![d] = FALSE] /\ UNCHANGED connect
        /\ \A t \in Writers : out'[t] = IF Way(t) = d THEN <<>> ELSE out[t]
        /\ reading' = [reading EXCEPT ![Other(d)] = FALSE]
    BY DEF Goes
  <1>2. ASSUME NEW t \in Writers, ~open'[Way(t)] PROVE out'[t] = <<>>
    BY <1>1, <1>2, Names DEF Quiet, Shape
  <1>3. ASSUME NEW e \in Directions, ~open'[Other(e)] PROVE ~reading'[e]
    <2>1. CASE Other(e) = d
      <3>1. e = Other(d)
        BY <2>1, Names
      <3>2. QED
        BY <1>1, <3>1
    <2>2. CASE Other(e) # d
      <3>1. ~open[Other(e)]
        BY <1>1, <1>3, <2>2, Names DEF Shape
      <3>2. ~reading[e]
        BY <3>1 DEF Quiet
      <3>3. QED
        BY <1>1, <3>2
    <2>3. QED
      BY <2>1, <2>2
  <1>4. connect' # "reply" => out'["connect"] = <<>>
    BY <1>1, Names DEF Quiet
  <1>5. QED
    BY <1>2, <1>3, <1>4 DEF Quiet

LEMMA QuietStep == Safe /\ [Next]_vars => Quiet'
  <1> USE DEF net, peer, disp
  <1> SUFFICES ASSUME Safe, [Next]_vars PROVE Quiet'
    OBVIOUS
  <1>1. Shape /\ Quiet /\ Inv /\ reading \in [Directions -> BOOLEAN]
    BY DEF Safe, Inv, TypeOK
  <1>2. ASSUME NEW t \in Writers, Write(t) \/ SendFails(t) PROVE Quiet'
    <2>1. out'[t] \in Seq(Byte) /\ out[t] # <<>> /\ UNCHANGED <<open, reading, connect>>
      <3>1. out[t] \in Seq(Byte)
        BY <1>1 DEF Shape
      <3>2. <<>> \in Seq(Byte) /\ (out[t] # <<>> => Tail(out[t]) \in Seq(Byte))
        BY <3>1, PartOf, EmptySeq
      <3>3. QED
        BY <1>1, <1>2, <3>2 DEF Write, SendFails, Shape
    <2>2. \A u \in Writers : u # t => out'[u] = out[u]
      BY <1>1, <1>2 DEF Write, SendFails, Shape
    <2>3. out' \in [Writers -> Seq(Byte)]
      <3>1. DOMAIN out' = Writers /\ out' = [u \in Writers |-> out'[u]]
        BY <1>1, <1>2 DEF Write, SendFails, Shape
      <3>2. QED
        BY <1>1, <2>1, <2>2, <3>1 DEF Shape
    <2>4. QED
      BY <1>1, <2>1, <2>2, <2>3, QuietStays
  <1>3. CASE ConfigureSends
    BY <1>1, <1>3, BeginQuiet, Names DEF ConfigureSends
  <1>4. CASE SenderSends
    BY <1>1, <1>4, BeginQuiet, Names DEF SenderSends
  <1>5. CASE WorkerSends
    BY <1>1, <1>5, BeginQuiet, Names DEF WorkerSends
  <1>6. ASSUME NEW d \in Directions, RecvHeader(d) PROVE Quiet'
    BY <1>1, <1>6 DEF RecvHeader, Quiet
  <1>7. ASSUME NEW d \in Directions, RecvShortHeader(d) PROVE Quiet'
    <2>1. Handles(d, Garbage) /\ Reads(d) /\ UNCHANGED open
      BY <1>7 DEF RecvShortHeader
    <2>2. QED
      BY <1>1, <2>1, HandlesQuiet
  <1>8. ASSUME NEW d \in Directions, RecvBody(d) PROVE Quiet'
    <2>1. /\ Reads(d) /\ UNCHANGED open
          /\ (\E m : Handles(d, m)) \/ UNCHANGED <<out, reading, connect>>
      BY <1>8 DEF RecvBody
    <2>2. CASE UNCHANGED <<out, reading, connect>>
      BY <1>1, <2>1, <2>2 DEF Quiet
    <2>3. QED
      BY <1>1, <2>1, <2>2, HandlesQuiet
  <1>9. ASSUME NEW d \in Directions, RecvEnd(d) PROVE Quiet'
    BY <1>1, <1>9, EndsQuiet DEF RecvEnd
  <1>10. CASE RecvShortHeaderEnds
    BY <1>1, <1>10, EndsQuiet, Names DEF RecvShortHeaderEnds
  <1>11. CASE WorkerGoes \/ WorkerExits \/ DispatcherGoes \/ CleanupCloses
    BY <1>1, <1>11, GoesQuiet, Names DEF WorkerGoes, WorkerExits, DispatcherGoes, CleanupCloses
  <1>12. CASE UNCHANGED vars
    BY <1>1, <1>12 DEF vars, Quiet
  <1>13. QED
    BY <1>2, <1>3, <1>4, <1>5, <1>6, <1>7, <1>8, <1>9, <1>10, <1>11, <1>12 DEF Next
-------------------------------------------------------------------------------
(* Who begins to send is alone.                                              *)
LEMMA FlowTypes ==
    ASSUME Safe, NEW d \in Directions
    PROVE  /\ Rest(d) \in Seq(Byte) /\ stream[d] \in Seq(Byte) /\ sent[d] \in Seq(Messages)
           /\ received[d] \in Seq(Anything) /\ Len(received[d]) \in Nat
           /\ Len(sent[d]) \in Nat /\ reader[d] \in Heads
           /\ \A t \in Writers : out[t] \in Seq(Byte)
           /\ results \in Seq(Messages) /\ Len(results) \in Nat
  <1>1. \A t \in Writers : out[t] \in Seq(Byte)
    BY DEF Safe, Inv, Shape
  <1>2. Rest(d) \in Seq(Byte)
    BY <1>1, Names DEF Rest, RestIn
  <1>3. stream[d] \in Seq(Byte) /\ results \in Seq(Messages)
    BY DEF Safe, Inv, Shape
  <1>4. received[d] \in Seq(Anything) /\ sent[d] \in Seq(Messages) /\ reader[d] \in Heads
    BY DEF Safe, TypeOK, Anything, Heads
  <1>5. QED
    BY <1>1, <1>2, <1>3, <1>4, LenProperties

LEMMA RunningLone ==
    ASSUME NEW t \in Writers, NEW m, SendBegins(t, m), running, running' = running, Alone'
    PROVE  Lone(t)
  BY DEF SendBegins, Alone, Lone, Others

LEMMA SendsLone ==
    ASSUME Safe, Alone', running' = running
    PROVE  /\ ConfigureSends => Lone("connect")
           /\ SenderSends => Lone("sender")
           /\ WorkerSends => Lone("w_sender")
  <1>1. ASSUME ConfigureSends PROVE Lone("connect")
    <2>1. SendBegins("connect", Settings) /\ connect = "settings"
      BY <1>1 DEF ConfigureSends
    <2>2. ~running => out["sender"] = <<>>
      BY <2>1 DEF Safe, Protocol, Early
    <2>3. QED
      BY <2>1, <2>2, RunningLone, Names DEF Lone
  <1>2. ASSUME SenderSends PROVE Lone("sender")
    <2>1. SendBegins("sender", Bundle(bundles + 1)) /\ MayTake
      BY <1>2 DEF SenderSends
    <2>2. ~running => out["connect"] = <<>>
      BY <2>1 DEF Safe, Quiet, MayTake
    <2>3. QED
      BY <2>1, <2>2, RunningLone, Names DEF Lone
  <1>3. ASSUME WorkerSends PROVE Lone("w_sender")
    <2>1. SendBegins("w_sender", Head(results)) /\ results # <<>>
      BY <1>3 DEF WorkerSends
    <2>2. ~running => out["w_event"] = <<>>
      BY <2>1 DEF Safe, Protocol, Early
    <2>3. QED
      BY <2>1, <2>2, RunningLone, Names DEF Lone
  <1>4. QED
    BY <1>1, <1>2, <1>3

(* What read_body does with what came: bytes of the message sent next.       *)
Gets(d, m) ==
    /\ Len(received[d]) < Len(sent[d]) /\ m = sent[d][Len(received[d]) + 1]
    /\ received' = [received EXCEPT ![d] = Append(@, m)]
    /\ reader' = [reader EXCEPT ![d] = Header]
    /\ Handles(d, m)
    /\ Link(stream'[d], Rest(d), sent[d], Len(received[d]) + 1, Header, open[d])

GetsPart(d) ==
    /\ \E hd \in Heads : /\ reader' = [reader EXCEPT ![d] = hd]
                         /\ Link(stream'[d], Rest(d), sent[d], Len(received[d]), hd, open[d])
    /\ UNCHANGED <<out, reading, peer, disp, sent, received>>

LEMMA BodyReceived ==
    ASSUME Safe, Alone, NEW d \in Directions, RecvBody(d)
    PROVE  /\ Reads(d) /\ \A e \in Directions : e # d => stream'[e] = stream[e]
           /\ UNCHANGED <<running, stops, open, bundles>>
           /\ (\E m \in Messages : Gets(d, m)) \/ GetsPart(d)
  <1> DEFINE r == Len(received[d])
             got == reader[d].got
             msg == reader[d].msg
  <1>1. PICK n \in 1..(Size(msg) - got) :
            /\ Reads(d) /\ reader[d] # Header /\ n <= Len(stream[d])
            /\ stream' = [stream EXCEPT ![d] = SubSeq(@, n + 1, Len(@))]
            /\ LET mine == SubSeq(Bytes(msg), HeaderSize + got + 1, HeaderSize + got + n)
                   m    == IF SubSeq(stream[d], 1, n) = mine THEN msg ELSE Garbage
               IN IF Complete(m, got + n)
                  THEN /\ received' = [received EXCEPT ![d] = Append(@, m)]
                       /\ reader' = [reader EXCEPT ![d] = Header]
                       /\ Handles(d, m)
                  ELSE /\ reader' = [reader EXCEPT ![d] = [msg |-> m, got |-> got + n]]
                       /\ UNCHANGED <<out, reading, peer, disp, sent, received>>
            /\ UNCHANGED <<running, stops, open, bundles>>
    BY DEF RecvBody
  <1>2. /\ Rest(d) \in Seq(Byte) /\ stream[d] \in Seq(Byte) /\ sent[d] \in Seq(Messages)
        /\ r \in Nat /\ reader[d] \in Heads /\ Len(sent[d]) \in Nat
    BY FlowTypes
  <1>3. Link(stream[d], Rest(d), sent[d], r, reader[d], open[d])
    BY <1>1 DEF Safe, Flow, Reads
  <1>4. /\ r < Len(sent[d]) /\ msg = sent[d][r + 1]
        /\ SubSeq(stream[d], 1, n) =
                SubSeq(Bytes(msg), HeaderSize + got + 1, HeaderSize + got + n)
        /\ got + n = Size(msg) =>
                Link(SubSeq(stream[d], n + 1, Len(stream[d])), Rest(d), sent[d], r + 1,
                     Header, open[d])
        /\ got + n # Size(msg) =>
                Link(SubSeq(stream[d], n + 1, Len(stream[d])), Rest(d), sent[d], r,
                     [msg |-> msg, got |-> got + n], open[d])
    BY <1>1, <1>2, <1>3, LinkBody
  <1>5. stream'[d] = SubSeq(stream[d], n + 1, Len(stream[d]))
        /\ \A e \in Directions : e # d => stream'[e] = stream[e]
    BY <1>1 DEF Safe, Inv, Shape
  <1>6. CASE got + n = Size(msg)
    <2>1. /\ received' = [received EXCEPT ![d] = Append(@, msg)]
          /\ reader' = [reader EXCEPT ![d] = Header] /\ Handles(d, msg)
      BY <1>1, <1>4, <1>6 DEF Complete
    <2>2. msg \in Messages
      <3>1. r + 1 \in 1..Len(sent[d])
        BY <1>2, <1>4
      <3>2. QED
        BY <1>2, <1>4, <3>1, ElementOfSeq
    <2>3. Gets(d, msg)
      BY <1>4, <1>5, <1>6, <2>1 DEF Gets
    <2>4. QED
      BY <1>1, <1>5, <2>2, <2>3
  <1>7. CASE got + n # Size(msg)
    <2>1. /\ reader' = [reader EXCEPT ![d] = [msg |-> msg, got |-> got + n]]
          /\ UNCHANGED <<out, reading, peer, disp, sent, received>>
      BY <1>1, <1>4, <1>7 DEF Complete
    <2>2. [msg |-> msg, got |-> got + n] \in Heads
      <3>1. msg \in Anything /\ Size(msg) \in 1..BodySize /\ got \in -1..BodySize /\ BodySize \in Nat
        BY <1>2, SizeFacts, ConnectionAssumption DEF Heads
      <3>2. got + n \in -1..BodySize
        BY <3>1
      <3>3. QED
        BY <3>1, <3>2 DEF Heads
    <2>3. GetsPart(d)
      BY <1>4, <1>5, <1>7, <2>1, <2>2 DEF GetsPart
    <2>4. QED
      BY <1>1, <1>5, <2>3
  <1>8. QED
    BY <1>6, <1>7
-------------------------------------------------------------------------------
(* What each side does with the message that came.                           *)
LEMMA Ids ==
    /\ Settings.id = "WORKER_SETTINGS" /\ Applied.id = "SETTINGS_APPLIED"
    /\ Garbage.id = "garbage"
    /\ \A b : Bundle(b).id = "WORK_UNIT" /\ Bundle(b).of = b
    /\ \A b, s : Result(b, s).id = "WORK_UNIT_DONE"
  BY DEF Settings, Applied, Garbage, Bundle, Result, Message

LEMMA GetsDown ==
    ASSUME Safe, ~running, NEW m \in Messages, Gets("down", m), Reads("down")
    PROVE  /\ UNCHANGED <<reading, disp>>
           /\ \/ /\ Len(received["down"]) = 0 /\ Len(sent["up"]) = 0 /\ Len(results) = 0
                 /\ connect # "done" /\ Lone("w_event")
                 /\ settled' = TRUE /\ UNCHANGED results /\ SendBegins("w_event", Applied)
              \/ /\ Len(received["down"]) >= 1 /\ settled /\ connect = "done"
                 /\ results' = Append(results, Result(Len(received["down"]), TRUE))
                 /\ UNCHANGED <<settled, out, sent>>
  <1> USE DEF disp, peer
  <1> DEFINE r == Len(received["down"])
  <1>1. /\ r \in Nat /\ Len(sent["down"]) \in Nat /\ Len(sent["up"]) \in Nat /\ Len(results) \in Nat
        /\ r < Len(sent["down"]) /\ m = sent["down"][r + 1]
    BY FlowTypes, Names DEF Gets
  <1>2. Inv /\ Protocol /\ WorkerHandles(m) /\ settled \in BOOLEAN /\ bundles \in Nat
    BY DEF Safe, Gets, Handles, Inv, Shape
  <1>3. m = Down(r + 1)
    <2>1. r + 1 \in 1..Len(sent["down"])
      BY <1>1
    <2>2. QED
      BY <1>1, <1>2, <2>1 DEF Protocol, DownSent
  <1>4. Len(sent["up"]) + Len(results) = r
    BY <1>2 DEF Protocol, UpSent
  <1>5. ~settled <=> r = 0
    <2>1. (settled <=> Len(sent["up"]) # 0) /\ (~settled => Len(results) = 0)
      BY <1>2 DEF Protocol, UpSent
    <2>2. ~settled => r = 0
      BY <1>1, <1>4, <2>1
    <2>3. r = 0 => Len(sent["up"]) = 0
      BY <1>1, <1>4
    <2>4. QED
      BY <2>1, <2>2, <2>3
  <1>6. CASE r = 0
    <2>1. m = Settings
      BY <1>3, <1>6 DEF Down
    <2>2. settled' = TRUE /\ UNCHANGED results /\ SendBegins("w_event", Applied)
      BY <1>2, <2>1, Ids DEF WorkerHandles
    <2>3. Len(sent["up"]) = 0 /\ Len(results) = 0
      BY <1>1, <1>4, <1>6
    <2>4. Unsettled
      BY <1>2, <1>5, <1>6 DEF Inv
    <2>5. connect # "done" /\ Lone("w_event")
      BY <2>4, Names DEF Unsettled, WorkerSilent, Reads, Lone
    <2>6. QED
      BY <1>2, <1>6, <2>2, <2>3, <2>5 DEF WorkerHandles
  <1>7. CASE r # 0
    <2>1. r + 1 # 1 /\ (r + 1) - 1 = r
      BY <1>1, <1>7
    <2>2. m = Bundle(r)
      BY <1>3, <2>1 DEF Down
    <2>3. results' = Append(results, Result(r, settled)) /\ UNCHANGED <<settled, out, sent>>
      <3>1. m.id = "WORK_UNIT" /\ m # Settings /\ m.of = r
        BY <2>2, Ids
      <3>2. QED
        BY <1>2, <3>1 DEF WorkerHandles
    <2>4. settled = TRUE
      BY <1>2, <1>5, <1>7
    <2>5. connect = "done"
      <3>1. ASSUME connect # "done" PROVE FALSE
        <4>1. bundles = 0 /\ Len(sent["down"]) \in {0, bundles + 1}
          BY <1>2, <3>1 DEF Protocol, Early, DownSent
        <4>2. QED
          BY <1>1, <1>7, <4>1
      <3>2. QED
        BY <3>1
    <2>6. r >= 1
      BY <1>1, <1>7
    <2>7. QED
      BY <1>2, <2>3, <2>4, <2>5, <2>6 DEF WorkerHandles
  <1>8. QED
    BY <1>6, <1>7

LEMMA GetsUp ==
    ASSUME Safe, ~running, NEW m \in Messages, Gets("up", m), Reads("up"),
           stream'["up"] \in Seq(Byte)
    PROVE  /\ connect' = "done" /\ UNCHANGED <<out, sent, peer>> /\ connect # "settings"
           /\ integrated' = IF connect = "done" /\ Len(received["up"]) >= 1
                            THEN Append(integrated, Up(Len(received["up"]) + 1)) ELSE integrated
           /\ out["w_event"] = <<>>
  <1> USE DEF disp, peer
  <1> DEFINE r == Len(received["up"])
  <1>1. /\ r \in Nat /\ Len(sent["up"]) \in Nat /\ sent["up"] \in Seq(Messages)
        /\ r < Len(sent["up"]) /\ m = sent["up"][r + 1]
        /\ Rest("up") \in Seq(Byte)
    BY FlowTypes, Names DEF Gets
  <1>2. Protocol /\ DispatcherHandles(m)
    BY DEF Safe, Gets, Handles
  <1>3. m = Up(r + 1)
    <2>1. r + 1 \in 1..Len(sent["up"])
      BY <1>1
    <2>2. QED
      BY <1>1, <1>2, <2>1 DEF Protocol, UpSent
  <1>4. (m.id = "WORK_UNIT_DONE") <=> r >= 1
    <2>1. r = 0 => m = Applied
      BY <1>3 DEF Up
    <2>2. r # 0 => m = Result((r + 1) - 1, TRUE)
      <3>1. r # 0 => r + 1 # 1
        BY <1>1
      <3>2. QED
        BY <1>3, <3>1 DEF Up
    <2>3. r = 0 \/ r >= 1
      BY <1>1
    <2>4. r = 0 => ~(r >= 1)
      BY <1>1
    <2>5. r >= 1 => r # 0
      BY <1>1
    <2>6. r = 0 => m.id # "WORK_UNIT_DONE"
      BY <2>1, Ids
    <2>7. r # 0 => m.id = "WORK_UNIT_DONE"
      <3>1. Result((r + 1) - 1, TRUE).id = "WORK_UNIT_DONE"
        BY Ids
      <3>2. QED
        BY <2>2, <3>1
    <2>8. QED
      BY <2>3, <2>4, <2>5, <2>6, <2>7
  <1>5. connect' = "done" /\ UNCHANGED <<out, sent, peer>> /\ connect # "settings"
    BY <1>2 DEF DispatcherHandles, Reads
  <1>6. integrated' = IF connect = "done" /\ r >= 1 THEN Append(integrated, m) ELSE integrated
    BY <1>2, <1>4 DEF DispatcherHandles, Integrates
  <1>7. out["w_event"] = <<>>
    <2>1. CASE connect = "done"
      BY <1>2, <2>1 DEF Protocol
    <2>2. CASE connect # "done"
      <3>1. Len(sent["up"]) <= 1 /\ r + 1 = Len(sent["up"])
        BY <1>1, <1>2, <2>2 DEF Protocol, Early
      <3>2. Link(stream'["up"], Rest("up"), sent["up"], Len(sent["up"]), Header, open["up"])
        BY <3>1 DEF Gets
      <3>3. Header \in Heads
        BY ConnectionAssumption, MessageFacts DEF Header, Heads
      <3>4. Rest("up") = <<>>
        <4>1. stream'["up"] \in Seq(Byte) /\ Rest("up") \in Seq(Byte)
              /\ sent["up"] \in Seq(Messages) /\ Len(sent["up"]) \in Nat
          BY <1>1
        <4> HIDE DEF r
        <4>2. QED
          BY <3>2, <3>3, <4>1, LinkNone
      <3>5. QED
        BY <3>4 DEF Rest, RestIn
    <2>3. QED
      BY <2>1, <2>2
  <1>8. QED
    BY <1>3, <1>5, <1>6, <1>7
-------------------------------------------------------------------------------
(* Protocol is kept, of a worker that connects before the launch.            *)
LEMMA ProtocolFrame ==
    ASSUME Protocol, UNCHANGED <<connect, bundles, results, received, integrated, sent, settled>>,
           \A t \in {"sender", "w_sender", "w_event"} : out[t] = <<>> => out'[t] = <<>>
    PROVE  Protocol'
  BY DEF Protocol, Early, DownSent, UpSent, UpHandled

LEMMA ProtocolDone ==
    ASSUME Protocol, connect # "settings", connect' = "done", out["w_event"] = <<>>,
           UNCHANGED <<bundles, results, received, integrated, sent, settled, out>>
    PROVE  Protocol'
  BY DEF Protocol, DownSent, UpSent, UpHandled

(* A sequence whose k-th element is a function of k, one longer.             *)
LEMMA Appended ==
    ASSUME NEW s \in Seq(Messages), NEW m \in Messages
    PROVE  /\ Append(s, m) \in Seq(Messages) /\ Len(Append(s, m)) = Len(s) + 1
           /\ \A k \in 1..Len(s) : Append(s, m)[k] = s[k]
           /\ Append(s, m)[Len(s) + 1] = m
           /\ \A k \in 1..(Len(s) + 1) : k \in 1..Len(s) \/ k = Len(s) + 1
  <1>1. Len(s) \in Nat
    BY LenProperties
  <1>2. \A k \in 1..(Len(s) + 1) : k \in 1..Len(s) \/ k = Len(s) + 1
    BY <1>1
  <1>3. QED
    BY <1>2, AppendProperties

LEMMA ConfigureProtocol == ASSUME Safe, ~running, ConfigureSends PROVE Protocol'
  <1> USE DEF disp, peer, net
  <1>1. /\ connect = "settings" /\ connect' = "reply"
        /\ sent' = [sent EXCEPT !["down"] = Append(@, Settings)]
        /\ out' = [out EXCEPT !["connect"] = Bytes(Settings)]
        /\ UNCHANGED <<bundles, results, received, integrated, settled>>
    BY Names DEF ConfigureSends, SendBegins
  <1>2. Protocol /\ Early /\ sent \in [Directions -> Seq(Messages)]
    BY <1>1 DEF Safe, Protocol, TypeOK
  <1>3. sent["down"] \in Seq(Messages) /\ Len(sent["down"]) = 0 /\ bundles = 0
    BY <1>1, <1>2, Names DEF Protocol, DownSent, Early
  <1>4. sent'["down"] = Append(sent["down"], Settings) /\ sent'["up"] = sent["up"]
    BY <1>1, <1>2, Names
  <1>5. Early'
    BY <1>1, <1>2, <1>4 DEF Early
  <1>6. Len(sent'["down"]) = 1 /\ \A k \in 1..1 : sent'["down"][k] = Down(k)
    <2>1. Len(sent'["down"]) = Len(sent["down"]) + 1
          /\ sent'["down"][Len(sent["down"]) + 1] = Settings
      BY <1>3, <1>4, Appended, MessageFacts
    <2>2. Len(sent'["down"]) = 1 /\ sent'["down"][1] = Settings
      BY <1>3, <2>1
    <2>3. \A k \in 1..1 : k = 1
      OBVIOUS
    <2>4. QED
      BY <2>2, <2>3 DEF Down
  <1>7. DownSent'
    BY <1>1, <1>3, <1>6 DEF DownSent
  <1>8. QED
    BY <1>1, <1>2, <1>4, <1>5, <1>7 DEF Protocol, UpSent, UpHandled

LEMMA SenderProtocol == ASSUME Safe, ~running, SenderSends PROVE Protocol'
  <1> USE DEF disp, peer, net
  <1> DEFINE L == Len(sent["down"])
             m == Bundle(bundles + 1)
  <1>1. /\ connect = "done" /\ bundles' = bundles + 1 /\ bundles < BundleCnt
        /\ sent' = [sent EXCEPT !["down"] = Append(@, m)]
        /\ out' = [out EXCEPT !["sender"] = Bytes(m)]
        /\ UNCHANGED <<connect, results, received, integrated, settled>>
    BY Names DEF SenderSends, SendBegins, MayTake
  <1>2. Protocol /\ sent \in [Directions -> Seq(Messages)] /\ bundles \in Nat
        /\ out \in [Writers -> Seq(Byte)]
    BY DEF Safe, TypeOK, Inv, Shape
  <1>3. sent["down"] \in Seq(Messages) /\ L = bundles + 1
        /\ \A k \in 1..L : sent["down"][k] = Down(k)
    BY <1>1, <1>2, Names DEF Protocol, DownSent
  <1>4. m \in Messages
    <2>1. bundles + 1 \in 1..BundleCnt
      BY <1>1, <1>2, ConnectionAssumption
    <2>2. QED
      BY <2>1, MessageFacts
  <1>5. sent'["down"] = Append(sent["down"], m) /\ sent'["up"] = sent["up"]
        /\ out'["w_event"] = out["w_event"]
    BY <1>1, <1>2, Names
  <1>6. Down(L + 1) = m
    <2>1. L + 1 # 1 /\ (L + 1) - 1 = bundles + 1
      BY <1>2, <1>3
    <2>2. QED
      BY <2>1 DEF Down
  <1> HIDE DEF m
  <1>7. Len(sent'["down"]) = L + 1 /\ \A k \in 1..(L + 1) : sent'["down"][k] = Down(k)
    BY <1>3, <1>4, <1>5, <1>6, Appended
  <1>8. DownSent'
    <2>1. Len(sent'["down"]) = bundles' + 1
      BY <1>1, <1>3, <1>7
    <2>2. QED
      BY <1>1, <1>7, <2>1 DEF DownSent
  <1>9. QED
    BY <1>1, <1>2, <1>5, <1>8 DEF Protocol, UpSent, UpHandled

LEMMA WorkerProtocol == ASSUME Safe, ~running, WorkerSends PROVE Protocol'
  <1> USE DEF disp, peer, net
  <1> DEFINE L == Len(sent["up"])
             R == Len(results)
  <1>1. /\ results # <<>> /\ results' = Tail(results)
        /\ sent' = [sent EXCEPT !["up"] = Append(@, Head(results))]
        /\ out' = [out EXCEPT !["w_sender"] = Bytes(Head(results))]
        /\ UNCHANGED <<connect, bundles, received, integrated, settled>>
    BY Names DEF WorkerSends, SendBegins
  <1>2. /\ Protocol /\ sent \in [Directions -> Seq(Messages)] /\ out \in [Writers -> Seq(Byte)]
        /\ results \in Seq(Messages) /\ settled \in BOOLEAN
    BY DEF Safe, TypeOK, Inv, Shape
  <1>3. L \in Nat /\ R \in Nat /\ R >= 1 /\ sent["up"] \in Seq(Messages)
    <2>1. sent["up"] \in Seq(Messages)
      BY <1>2, Names
    <2>2. QED
      BY <1>1, <1>2, <2>1, LenProperties, EmptySeq
  <1>4. connect = "done" /\ settled
    BY <1>1, <1>2, <1>3 DEF Protocol, Early, UpSent
  <1>5. /\ \A k \in 1..L : sent["up"][k] = Up(k)
        /\ \A k \in 1..R : results[k] = Up(L + k)
        /\ L + R = Len(received["down"])
    BY <1>2 DEF Protocol, UpSent
  <1>6. /\ Head(results) \in Messages /\ Head(results) = results[1]
        /\ Len(Tail(results)) = R - 1
        /\ \A k \in 1..(R - 1) : Tail(results)[k] = results[k + 1]
    BY <1>1, <1>2, HeadTailProperties
  <1>7. Head(results) = Up(L + 1)
    BY <1>3, <1>5, <1>6
  <1>8. /\ sent'["up"] = Append(sent["up"], Head(results)) /\ sent'["down"] = sent["down"]
        /\ out'["w_event"] = out["w_event"]
    BY <1>1, <1>2, Names
  <1>9. Len(sent'["up"]) = L + 1 /\ \A k \in 1..(L + 1) : sent'["up"][k] = Up(k)
    BY <1>3, <1>5, <1>6, <1>7, <1>8, Appended
  <1> HIDE DEF L, R
  <1>10. \A k \in 1..Len(results') : results'[k] = Up(Len(sent'["up"]) + k)
    <2> SUFFICES ASSUME NEW k \in 1..(R - 1) PROVE Tail(results)[k] = Up((L + 1) + k)
      BY <1>1, <1>6, <1>9
    <2>1. k + 1 \in 1..R /\ (L + 1) + k = L + (k + 1)
      BY <1>3
    <2>2. QED
      BY <1>5, <1>6, <2>1
  <1>11. Len(sent'["up"]) + Len(results') = Len(received'["down"]) /\ Len(sent'["up"]) # 0
    <2>1. Len(sent'["up"]) = L + 1 /\ Len(results') = R - 1
          /\ Len(received'["down"]) = L + R
      BY <1>1, <1>5, <1>6, <1>9
    <2>2. (L + 1) + (R - 1) = L + R /\ L + 1 # 0
      BY <1>3
    <2>3. QED
      BY <2>1, <2>2
  <1>12. UpSent'
    BY <1>1, <1>4, <1>9, <1>10, <1>11 DEF UpSent
  <1>13. QED
    BY <1>1, <1>2, <1>4, <1>8, <1>12 DEF Protocol, DownSent, UpHandled

LEMMA GetsDownProtocol ==
    ASSUME Safe, ~running, NEW m \in Messages, Gets("down", m), Reads("down"),
           UNCHANGED <<bundles>>
    PROVE  Protocol'
  <1> USE DEF disp, peer
  <1> DEFINE L == Len(sent["up"])
             R == Len(results)
             r == Len(received["down"])
  <1>1. /\ Protocol /\ sent \in [Directions -> Seq(Messages)] /\ out \in [Writers -> Seq(Byte)]
        /\ results \in Seq(Messages) /\ settled \in BOOLEAN
        /\ received \in [Directions -> Seq(Anything)]
    BY DEF Safe, TypeOK, Inv, Shape, Anything
  <1>2. received' = [received EXCEPT !["down"] = Append(@, m)] /\ m \in Anything
    BY DEF Gets, Anything
  <1>3. received'["up"] = received["up"] /\ Len(received'["down"]) = r + 1
    <2>1. received["down"] \in Seq(Anything)
      BY <1>1, Names
    <2>2. Len(Append(received["down"], m)) = r + 1
      BY <1>2, <2>1, AppendProperties
    <2>3. QED
      BY <1>1, <1>2, <2>2, Names
  <1>4. L \in Nat /\ R \in Nat /\ r \in Nat
    BY FlowTypes, Names
  <1>5. /\ \A k \in 1..L : sent["up"][k] = Up(k)
        /\ \A k \in 1..R : results[k] = Up(L + k)
        /\ L + R = r
    BY <1>1 DEF Protocol, UpSent
  <1>6. UNCHANGED <<reading, disp>>
    BY GetsDown
  <1>7. CASE /\ L = 0 /\ R = 0 /\ r = 0 /\ connect # "done"
             /\ settled' = TRUE /\ UNCHANGED results /\ SendBegins("w_event", Applied)
    <2>1. /\ sent' = [sent EXCEPT !["up"] = Append(@, Applied)]
          /\ out' = [out EXCEPT !["w_event"] = Bytes(Applied)]
      BY <1>7, Names DEF SendBegins
    <2>2. /\ sent'["up"] = Append(sent["up"], Applied) /\ sent'["down"] = sent["down"]
          /\ sent["up"] \in Seq(Messages)
          /\ out'["sender"] = out["sender"] /\ out'["w_sender"] = out["w_sender"]
      BY <1>1, <2>1, Names
    <2>3. Len(sent'["up"]) = L + 1 /\ sent'["up"][L + 1] = Applied
      BY <2>2, Appended, MessageFacts
    <2>4. Len(sent'["up"]) = 1 /\ \A k \in 1..1 : sent'["up"][k] = Up(k)
      <3>1. Len(sent'["up"]) = 1 /\ sent'["up"][1] = Applied
        BY <1>7, <2>3
      <3>2. \A k \in 1..1 : k = 1
        OBVIOUS
      <3>3. QED
        BY <3>1, <3>2 DEF Up
    <2>5. \A k \in 1..Len(results') : results'[k] = Up(Len(sent'["up"]) + k)
      BY <1>7
    <2>6. Len(sent'["up"]) + Len(results') = Len(received'["down"])
      BY <1>3, <1>7, <2>4
    <2>7. UpSent'
      BY <1>7, <2>4, <2>5, <2>6 DEF UpSent
    <2>8. Early'
      BY <1>1, <1>3, <1>6, <1>7, <2>2, <2>4 DEF Protocol, Early
    <2>9. DownSent' /\ UpHandled'
      BY <1>1, <1>3, <1>6, <2>2 DEF Protocol, DownSent, UpHandled
    <2>10. QED
      BY <1>6, <1>7, <2>7, <2>8, <2>9 DEF Protocol
  <1>8. CASE /\ r >= 1 /\ settled /\ connect = "done"
             /\ results' = Append(results, Result(r, TRUE)) /\ UNCHANGED <<settled, out, sent>>
    <2>1. Result(r, TRUE) \in Messages
      <3>1. bundles \in 0..BundleCnt /\ r < Len(sent["down"]) /\ Len(sent["down"]) = bundles + 1
        BY <1>1, <1>8 DEF Protocol, DownSent, Gets, Safe, TypeOK
      <3>2. r \in 1..BundleCnt
        BY <1>4, <1>8, <3>1, ConnectionAssumption
      <3>3. \A b \in 1..BundleCnt, s \in BOOLEAN : Result(b, s) \in Messages
        BY DEF Messages
      <3>4. QED
        BY <3>2, <3>3
    <2>2. Result(r, TRUE) = Up(L + (R + 1))
      <3> HIDE DEF L, R, r
      <3>0. L \in Nat /\ R \in Nat /\ r \in Nat /\ L + R = r /\ r >= 1
        BY <1>4, <1>5, <1>8
      <3>1. L + (R + 1) # 1 /\ (L + (R + 1)) - 1 = r
        BY <3>0
      <3>2. QED
        BY <3>1 DEF Up
    <2>3. /\ Len(results') = R + 1 /\ results'[R + 1] = Result(r, TRUE)
          /\ \A k \in 1..R : results'[k] = results[k]
          /\ \A k \in 1..(R + 1) : k \in 1..R \/ k = R + 1
      BY <1>1, <1>8, <2>1, Appended
    <2>4. \A k \in 1..(R + 1) : results'[k] = Up(L + k)
      BY <1>5, <2>2, <2>3
    <2>5. L + (R + 1) = r + 1
      <3> HIDE DEF L, R, r
      <3>1. QED
        BY <1>4, <1>5
    <2>6. UpSent'
      BY <1>1, <1>3, <1>5, <1>8, <2>3, <2>4, <2>5 DEF UpSent, Protocol
    <2>7. DownSent' /\ UpHandled'
      BY <1>1, <1>3, <1>6, <1>8 DEF Protocol, DownSent, UpHandled
    <2>8. QED
      BY <1>1, <1>6, <1>8, <2>6, <2>7 DEF Protocol
  <1>9. QED
    BY <1>7, <1>8, GetsDown

LEMMA GetsUpProtocol ==
    ASSUME Safe, ~running, NEW m \in Messages, Gets("up", m), Reads("up"),
           stream'["up"] \in Seq(Byte), UNCHANGED bundles
    PROVE  Protocol'
  <1> USE DEF disp, peer
  <1> DEFINE r == Len(received["up"])
             I == Len(integrated)
  <1>1. /\ Protocol /\ received \in [Directions -> Seq(Anything)] /\ integrated \in Seq(Messages)
        /\ sent["up"] \in Seq(Messages)
    BY Names DEF Safe, TypeOK, Anything
  <1>2. received' = [received EXCEPT !["up"] = Append(@, m)] /\ m \in Anything
    BY DEF Gets, Anything
  <1>3. received'["down"] = received["down"] /\ Len(received'["up"]) = r + 1
    <2>1. received["up"] \in Seq(Anything)
      BY <1>1, Names
    <2>2. Len(Append(received["up"], m)) = r + 1
      BY <1>2, <2>1, AppendProperties
    <2>3. QED
      BY <1>1, <1>2, <2>2, Names
  <1>4. r \in Nat /\ I \in Nat /\ Len(sent["up"]) \in Nat
    BY <1>1, FlowTypes, LenProperties, Names
  <1>5. /\ I = IF r = 0 THEN 0 ELSE r - 1
        /\ \A k \in 1..I : integrated[k] = Up(k + 1)
    BY <1>1 DEF Protocol, UpHandled
  <1>6. /\ connect' = "done" /\ UNCHANGED <<out, sent, peer>> /\ connect # "settings"
        /\ integrated' = IF connect = "done" /\ r >= 1 THEN Append(integrated, Up(r + 1))
                                                      ELSE integrated
        /\ out["w_event"] = <<>>
    BY GetsUp
  <1>7. DownSent' /\ UpSent'
    BY <1>1, <1>3, <1>6 DEF Protocol, DownSent, UpSent
  <1>8. UpHandled'
    <2>1. CASE r = 0
      <3>1. UNCHANGED integrated /\ I = 0 /\ Len(received'["up"]) = 1
        BY <1>3, <1>4, <1>5, <1>6, <2>1
      <3>2. QED
        BY <1>5, <3>1 DEF UpHandled
    <2>2. CASE r # 0
      <3>1. connect = "done"
        BY <1>1, <2>2, EmptySeq DEF Protocol, Early
      <3>2. r >= 1 /\ I = r - 1 /\ I + 1 = r /\ (r + 1) - 1 = I + 1 /\ r + 1 # 0
        BY <1>4, <1>5, <2>2
      <3>3. integrated' = Append(integrated, Up(r + 1))
        BY <1>6, <3>1, <3>2
      <3>4. Up(r + 1) \in Messages
        <4>1. r + 1 \in 1..Len(sent["up"])
          BY <1>4 DEF Gets
        <4>2. sent["up"][r + 1] \in Messages /\ sent["up"][r + 1] = Up(r + 1)
          BY <1>1, <4>1, ElementOfSeq DEF Protocol, UpSent
        <4>3. QED
          BY <4>2
      <3>5. /\ Len(integrated') = I + 1 /\ integrated'[I + 1] = Up(r + 1)
            /\ \A k \in 1..I : integrated'[k] = integrated[k]
            /\ \A k \in 1..(I + 1) : k \in 1..I \/ k = I + 1
        BY <1>1, <3>3, <3>4, Appended
      <3>6. \A k \in 1..(I + 1) : integrated'[k] = Up(k + 1)
        BY <1>5, <3>2, <3>5
      <3>7. QED
        BY <1>3, <3>2, <3>5, <3>6 DEF UpHandled
    <2>3. QED
      BY <2>1, <2>2
  <1>9. QED
    BY <1>6, <1>7, <1>8 DEF Protocol

LEMMA ProtocolStep == ~cut' /\ Safe /\ ~running /\ [Next]_vars => Protocol'
  <1> USE DEF disp, peer, net
  <1> SUFFICES ASSUME ~cut', Safe, ~running, [Next]_vars PROVE Protocol'
    OBVIOUS
  <1>1. /\ Protocol /\ Quiet /\ Alone /\ Shape /\ stream' \in [Directions -> Seq(Byte)]
        /\ out \in [Writers -> Seq(Byte)]
    <2>1. Inv'
      BY StepInv DEF Safe
    <2>2. QED
      BY <2>1 DEF Safe, Alone, Inv, Shape
  <1>2. ASSUME NEW t \in Writers, Write(t) \/ SendFails(t) PROVE Protocol'
    <2>1. out[t] # <<>> /\ \A u \in Writers : u # t => out'[u] = out[u]
      BY <1>1, <1>2 DEF Write, SendFails
    <2>2. \A u \in {"sender", "w_sender", "w_event"} : out[u] = <<>> => out'[u] = <<>>
      BY <2>1, Names
    <2>3. UNCHANGED <<connect, bundles, results, received, integrated, sent, settled>>
      BY <1>2 DEF Write, SendFails
    <2>4. QED
      BY <1>1, <2>2, <2>3, ProtocolFrame
  <1>3. CASE ConfigureSends
    BY <1>3, ConfigureProtocol
  <1>4. CASE SenderSends
    BY <1>4, SenderProtocol
  <1>5. CASE WorkerSends
    BY <1>5, WorkerProtocol
  <1>6. ASSUME NEW d \in Directions, RecvHeader(d) PROVE Protocol'
    BY <1>1, <1>6, ProtocolFrame DEF RecvHeader
  <1>7. ASSUME NEW d \in Directions, RecvShortHeader(d) PROVE Protocol'
    <2>1. /\ ~open[d] /\ Reads(d) /\ Handles(d, Garbage) /\ UNCHANGED <<bundles, received>>
      BY <1>7 DEF RecvShortHeader
    <2>2. CASE d = "down"
      <3>1. UNCHANGED <<connect, results, integrated, sent, settled, out>>
        BY <2>1, <2>2, Ids DEF Handles, WorkerHandles
      <3>2. QED
        BY <1>1, <2>1, <3>1, ProtocolFrame
    <2>3. CASE d = "up"
      <3>1. /\ connect' = "done" /\ UNCHANGED <<peer, out, sent, integrated>>
            /\ connect # "settings"
        BY <2>1, <2>3, Ids DEF Handles, DispatcherHandles, Integrates, Reads
      <3>2. out["w_event"] = <<>>
        BY <1>1, <2>1, <2>3, Names DEF Quiet
      <3>3. QED
        BY <1>1, <2>1, <3>1, <3>2, ProtocolDone
    <2>4. QED
      BY <2>2, <2>3, Names
  <1>8. ASSUME NEW d \in Directions, RecvBody(d) PROVE Protocol'
    <2>1. Reads(d) /\ UNCHANGED bundles /\ ((\E m \in Messages : Gets(d, m)) \/ GetsPart(d))
      BY <1>1, <1>8, BodyReceived
    <2>2. CASE GetsPart(d)
      BY <1>1, <2>1, <2>2, ProtocolFrame DEF GetsPart
    <2>3. ASSUME NEW m \in Messages, Gets(d, m) PROVE Protocol'
      <3>1. CASE d = "down"
        BY <2>1, <2>3, <3>1, GetsDownProtocol
      <3>2. CASE d = "up"
        <4>1. stream'["up"] \in Seq(Byte)
          BY <1>1, Names
        <4>2. QED
          BY <2>1, <2>3, <3>2, <4>1, GetsUpProtocol
      <3>3. QED
        BY <3>1, <3>2, Names
    <2>4. QED
      BY <2>1, <2>2, <2>3
  <1>9. ASSUME NEW d \in Directions, RecvEnd(d) PROVE Protocol'
    <2>1. /\ ~open[d] /\ Reads(d) /\ ReadEnds(d)
          /\ UNCHANGED <<bundles, results, received, integrated, sent, settled, out>>
      BY <1>9 DEF RecvEnd
    <2>2. CASE UNCHANGED connect
      BY <1>1, <2>1, <2>2, ProtocolFrame
    <2>3. CASE d = "up" /\ connect # "done"
      <3>1. connect' = "done" /\ connect # "settings" /\ out["w_event"] = <<>>
        BY <1>1, <2>1, <2>3, Names DEF ReadEnds, Reads, Quiet
      <3>2. QED
        BY <1>1, <2>1, <3>1, ProtocolDone
    <2>4. QED
      BY <2>1, <2>2, <2>3 DEF ReadEnds
  <1>10. CASE RecvShortHeaderEnds
    <2>1. UNCHANGED <<connect, bundles, results, received, integrated, sent, settled, out>>
      BY <1>10 DEF RecvShortHeaderEnds, ReadEnds
    <2>2. QED
      BY <1>1, <2>1, ProtocolFrame
  <1>11. ASSUME NEW d \in Directions, Goes(d) PROVE Protocol'
    <2>1. /\ UNCHANGED <<connect, bundles, results, received, integrated, sent, settled>>
          /\ \A t \in Writers : out'[t] = IF Way(t) = d THEN <<>> ELSE out[t]
      BY <1>11 DEF Goes
    <2>2. \A t \in {"sender", "w_sender", "w_event"} : out[t] = <<>> => out'[t] = <<>>
      BY <2>1, Names
    <2>3. QED
      BY <1>1, <2>1, <2>2, ProtocolFrame
  <1>12. CASE WorkerGoes \/ WorkerExits \/ DispatcherGoes \/ CleanupCloses
    BY <1>11, <1>12, Names DEF WorkerGoes, WorkerExits, DispatcherGoes, CleanupCloses
  <1>13. CASE UNCHANGED vars
    BY <1>1, <1>13, ProtocolFrame DEF vars
  <1>14. QED
    BY <1>2, <1>3, <1>4, <1>5, <1>6, <1>7, <1>8, <1>9, <1>10, <1>12, <1>13 DEF Next
-------------------------------------------------------------------------------
(* No two threads write to one direction at a time.                          *)
LEMMA BeginApart ==
    ASSUME Shape, Apart, Alone, NEW t \in Writers, NEW m, SendBegins(t, m), Lone(t)
    PROVE  \A u \in Writers : out'[u] # <<>> =>
                \A w \in Writers : Way(w) = Way(u) /\ w # u => out'[w] = <<>>
  <1>1. \A u \in Writers : u # t => out'[u] = out[u]
    BY DEF SendBegins, Shape
  <1> SUFFICES ASSUME NEW u \in Writers, out'[u] # <<>>, NEW w \in Writers,
                      Way(w) = Way(u), w # u
               PROVE  out'[w] = <<>>
    OBVIOUS
  <1>2. CASE u = t
    BY <1>1, <1>2 DEF Lone
  <1>3. CASE u # t
    <2>1. out[u] # <<>> /\ Way(u) # Way(t)
      BY <1>1, <1>3 DEF Lone
    <2>2. QED
      BY <1>1, <2>1 DEF Apart, Lone
  <1>4. QED
    BY <1>2, <1>3

LEMMA RunningStays == [Next]_vars => running' = running /\ (cut => cut') /\ (raced => raced')
  <1> DEFINE stays == running' = running /\ (cut => cut') /\ (raced => raced')
  <1> SUFFICES ASSUME [Next]_vars PROVE stays
    OBVIOUS
  <1>0. ASSUME NEW d \in Directions, NEW m, Handles(d, m) PROVE raced => raced'
    BY <1>0 DEF Handles, WorkerHandles, DispatcherHandles, SendBegins
  <1>1. ASSUME NEW t \in Writers, Write(t) \/ SendFails(t) PROVE stays
    BY <1>1 DEF Write, SendFails
  <1>2. CASE ConfigureSends \/ SenderSends \/ WorkerSends
    <2>1. \E t, m : SendBegins(t, m)
      BY <1>2 DEF ConfigureSends, SenderSends, WorkerSends
    <2>2. raced => raced'
      BY <2>1 DEF SendBegins
    <2>3. QED
      BY <1>2, <2>2 DEF ConfigureSends, SenderSends, WorkerSends
  <1>3. ASSUME NEW d \in Directions, RecvHeader(d) \/ RecvShortHeader(d)
        PROVE  stays
    <2>1. CASE RecvHeader(d)
      BY <2>1 DEF RecvHeader
    <2>2. CASE RecvShortHeader(d)
      <3>1. Handles(d, Garbage) /\ cut' = (cut \/ open[d]) /\ running' = running
        BY <2>2 DEF RecvShortHeader
      <3>2. QED
        BY <1>0, <3>1
    <2>3. QED
      BY <1>3, <2>1, <2>2
  <1>4. ASSUME NEW d \in Directions, RecvBody(d) \/ RecvEnd(d) PROVE stays
    BY <1>0, <1>4 DEF RecvBody, RecvEnd
  <1>5. CASE RecvShortHeaderEnds
    BY <1>5 DEF RecvShortHeaderEnds
  <1>6. CASE WorkerGoes \/ WorkerExits \/ DispatcherGoes \/ CleanupCloses
    BY <1>6 DEF WorkerGoes, WorkerExits, DispatcherGoes, CleanupCloses, Goes
  <1>7. CASE UNCHANGED vars
    BY <1>7 DEF vars
  <1>8. QED
    BY <1>1, <1>2, <1>3, <1>4, <1>5, <1>6, <1>7 DEF Next

LEMMA AloneBefore == ASSUME [Next]_vars, Alone' PROVE Alone
  BY RunningStays DEF Alone

LEMMA ApartStep == Safe /\ [Next]_vars => Apart'
  <1> USE DEF disp, peer, net
  <1> SUFFICES ASSUME Safe, [Next]_vars PROVE Apart'
    OBVIOUS
  <1>0. running' = running
    BY RunningStays
  <1> SUFFICES ASSUME Alone', NEW u \in Writers, out'[u] # <<>>
               PROVE  \A w \in Writers : Way(w) = Way(u) /\ w # u => out'[w] = <<>>
    BY DEF Apart, Lone
  <1>1. Shape /\ Apart /\ Alone /\ out \in [Writers -> Seq(Byte)]
    BY AloneBefore DEF Safe, Inv, Shape
  <1>2. ASSUME \A t \in Writers : out[t] = <<>> => out'[t] = <<>>
        PROVE  \A w \in Writers : Way(w) = Way(u) /\ w # u => out'[w] = <<>>
    BY <1>1, <1>2 DEF Apart, Lone
  <1>3. ASSUME NEW t \in Writers, Write(t) \/ SendFails(t)
        PROVE  \A w \in Writers : out[w] = <<>> => out'[w] = <<>>
    BY <1>1, <1>3 DEF Write, SendFails
  <1>4. CASE ConfigureSends
    BY <1>0, <1>1, <1>4, SendsLone, BeginApart, Names DEF ConfigureSends
  <1>5. CASE SenderSends
    BY <1>0, <1>1, <1>5, SendsLone, BeginApart, Names DEF SenderSends
  <1>6. CASE WorkerSends
    BY <1>0, <1>1, <1>6, SendsLone, BeginApart, Names DEF WorkerSends
  <1>7. ASSUME NEW d \in Directions, RecvShortHeader(d) PROVE UNCHANGED out
    <2>1. Handles(d, Garbage)
      BY <1>7 DEF RecvShortHeader
    <2>2. QED
      BY <2>1, Ids DEF Handles, WorkerHandles, DispatcherHandles
  <1>8. ASSUME NEW d \in Directions, RecvBody(d)
        PROVE  UNCHANGED out \/ (SendBegins("w_event", Applied) /\ Lone("w_event"))
    <2>1. Reads(d) /\ ((\E m \in Messages : Gets(d, m)) \/ GetsPart(d))
      BY <1>1, <1>8, BodyReceived
    <2>2. ASSUME NEW m \in Messages, Gets(d, m)
          PROVE  UNCHANGED out \/ (SendBegins("w_event", Applied) /\ Lone("w_event"))
      <3>1. UNCHANGED out \/ (d = "down" /\ SendBegins("w_event", Applied))
        BY <2>2, Names DEF Gets, Handles, WorkerHandles, DispatcherHandles
      <3>2. CASE SendBegins("w_event", Applied) /\ running
        BY <1>0, <3>2, RunningLone, Names
      <3>3. CASE d = "down" /\ ~running
        BY <2>1, <2>2, <3>3, GetsDown
      <3>4. QED
        BY <3>1, <3>2, <3>3
    <2>3. QED
      BY <2>1, <2>2 DEF GetsPart
  <1>9. ASSUME SendBegins("w_event", Applied), Lone("w_event")
        PROVE  \A w \in Writers : Way(w) = Way(u) /\ w # u => out'[w] = <<>>
    BY <1>1, <1>9, BeginApart, Names
  <1>10. ASSUME NEW d \in Directions, RecvHeader(d) \/ RecvEnd(d) PROVE UNCHANGED out
    BY <1>10 DEF RecvHeader, RecvEnd
  <1>11. RecvShortHeaderEnds => UNCHANGED out
    BY DEF RecvShortHeaderEnds
  <1>12. ASSUME NEW d \in Directions, Goes(d)
         PROVE  \A t \in Writers : out[t] = <<>> => out'[t] = <<>>
    BY <1>12 DEF Goes
  <1>13. CASE WorkerGoes \/ WorkerExits \/ DispatcherGoes \/ CleanupCloses
    BY <1>2, <1>12, <1>13, Names DEF WorkerGoes, WorkerExits, DispatcherGoes, CleanupCloses
  <1>14. UNCHANGED vars => UNCHANGED out
    BY DEF vars
  <1>15. UNCHANGED out => \A w \in Writers : Way(w) = Way(u) /\ w # u => out'[w] = <<>>
    BY <1>2
  <1>16. QED
    BY <1>2, <1>3, <1>4, <1>5, <1>6, <1>7, <1>8, <1>9, <1>10, <1>11, <1>13, <1>14, <1>15 DEF Next
-------------------------------------------------------------------------------
(* Every reader stays at the right place of what comes.                      *)
LinkNow(d) == Link(stream[d], Rest(d), sent[d], Len(received[d]), reader[d], open[d])

LEMMA LinkStill ==
    ASSUME NEW d \in Directions, LinkNow(d), stream'[d] = stream[d], sent'[d] = sent[d],
           received'[d] = received[d], reader'[d] = reader[d], open'[d] = open[d],
           \A u \in Writers : Way(u) = d => out[u] = out'[u]
    PROVE  LinkNow(d)'
  <1>1. RestIn(out, d) = RestIn(out', d)
    BY RestFacts
  <1>2. QED
    BY <1>1 DEF LinkNow, Rest

LEMMA LinkBegins ==
    ASSUME Safe, NEW t \in Writers, NEW m \in Messages, SendBegins(t, m), Lone(t),
           NEW d \in Directions, LinkNow(d), d = Way(t), UNCHANGED open, stream'[d] = stream[d],
           received'[d] = received[d], reader'[d] = reader[d]
    PROVE  LinkNow(d)'
  <1>1. /\ open[d] /\ out[t] = <<>> /\ open' = open
        /\ out' = [out EXCEPT ![t] = Bytes(m)] /\ sent'[d] = Append(sent[d], m)
        /\ out \in [Writers -> Seq(Byte)]
    BY DEF SendBegins, MaySend, Safe, TypeOK, Inv, Shape
  <1>2. Rest(d) = <<>>
    BY <1>1, RestFacts DEF Lone, Rest
  <1>3. RestIn(out', d) = Bytes(m)
    <2>1. /\ out'[t] = Bytes(m)
          /\ \A u \in Writers : Way(u) = Way(t) /\ u # t => out'[u] = <<>>
      BY <1>1 DEF Lone
    <2>2. QED
      BY <2>1, RestFacts
  <1>4. /\ stream[d] \in Seq(Byte) /\ sent[d] \in Seq(Messages) /\ Len(received[d]) \in Nat
        /\ reader[d] \in Heads
    BY FlowTypes
  <1>5. open[d] = TRUE
    BY <1>1 DEF Safe, TypeOK
  <1>6. Link(stream[d], <<>>, sent[d], Len(received[d]), reader[d], TRUE)
    BY <1>2, <1>5 DEF LinkNow
  <1>7. Link(stream[d], Bytes(m), Append(sent[d], m), Len(received[d]), reader[d], TRUE)
    BY <1>4, <1>6, LinkSent
  <1>8. QED
    BY <1>1, <1>3, <1>5, <1>7 DEF LinkNow, Rest

LEMMA LinkWrites ==
    ASSUME Safe, Alone, NEW t \in Writers, Write(t), NEW d \in Directions, LinkNow(d)
    PROVE  LinkNow(d)'
  <1> USE DEF disp, peer, net
  <1>1. /\ out \in [Writers -> Seq(Byte)] /\ stream \in [Directions -> Seq(Byte)]
        /\ out[t] # <<>> /\ Way(t) \in Directions
        /\ stream' = [stream EXCEPT ![Way(t)] = Append(@, Head(out[t]))]
        /\ out' = [out EXCEPT ![t] = Tail(@)]
        /\ UNCHANGED <<open, reader, sent, received>>
    BY Names DEF Write, Safe, Inv, Shape
  <1>2. CASE Way(t) = d
    <2>1. Lone(t)
      BY <1>1 DEF Safe, Apart
    <2>2. Rest(d) = out[t]
      BY <1>2, <2>1, RestFacts DEF Lone, Rest
    <2>3. RestIn(out', d) = Tail(out[t])
      <3>1. /\ out'[t] = Tail(out[t])
            /\ \A u \in Writers : Way(u) = Way(t) /\ u # t => out'[u] = <<>>
        BY <1>1, <2>1 DEF Lone
      <3>2. QED
        BY <1>2, <3>1, RestFacts
    <2>4. /\ stream[d] \in Seq(Byte) /\ sent[d] \in Seq(Messages) /\ Len(received[d]) \in Nat
          /\ reader[d] \in Heads /\ out[t] \in Seq(Byte)
      BY FlowTypes
    <2>5. Link(Append(stream[d], Head(out[t])), Tail(out[t]), sent[d], Len(received[d]),
               reader[d], open[d])
      BY <1>1, <2>2, <2>4, LinkWritten DEF LinkNow
    <2>6. stream'[d] = Append(stream[d], Head(out[t]))
      BY <1>1, <1>2
    <2>7. QED
      BY <1>1, <2>3, <2>5, <2>6 DEF LinkNow, Rest
  <1>3. CASE Way(t) # d
    <2>1. stream'[d] = stream[d] /\ \A u \in Writers : Way(u) = d => out[u] = out'[u]
      BY <1>1, <1>3
    <2>2. QED
      BY <1>1, <2>1, LinkStill
  <1>4. QED
    BY <1>2, <1>3

LEMMA LinkHeads ==
    ASSUME Safe, NEW e \in Directions, RecvHeader(e), NEW d \in Directions, LinkNow(d)
    PROVE  LinkNow(d)'
  <1> USE DEF disp, peer, net
  <1> DEFINE head == SubSeq(stream[e], 1, HeaderSize)
  <1>1. /\ reader[e] = Header /\ Len(stream[e]) >= HeaderSize
        /\ reader' = [reader EXCEPT ![e] =
                [msg |-> IF IsPrefix(head, Bytes(head[1].msg)) THEN head[1].msg ELSE Garbage,
                 got |-> 0]]
        /\ stream' = [stream EXCEPT ![e] = SubSeq(@, HeaderSize + 1, Len(@))]
        /\ UNCHANGED <<out, open, sent, received>>
        /\ stream \in [Directions -> Seq(Byte)] /\ DOMAIN reader = Directions
    BY DEF RecvHeader, Safe, Inv, Shape
  <1>2. CASE d = e
    <2>1. /\ stream[d] \in Seq(Byte) /\ sent[d] \in Seq(Messages) /\ Len(received[d]) \in Nat
          /\ Rest(d) \in Seq(Byte)
      BY FlowTypes
    <2>2. Link(stream[d], Rest(d), sent[d], Len(received[d]), Header, open[d])
      BY <1>1, <1>2 DEF LinkNow
    <2> DEFINE m == sent[d][Len(received[d]) + 1]
    <2>3. /\ head[1].msg = m /\ IsPrefix(head, Bytes(m))
          /\ Link(SubSeq(stream[d], HeaderSize + 1, Len(stream[d])), Rest(d), sent[d],
                  Len(received[d]), [msg |-> m, got |-> 0], open[d])
      BY <1>1, <1>2, <2>1, <2>2, LinkHeader
    <2> HIDE DEF head, m
    <2>4. reader'[d] = [msg |-> m, got |-> 0]
      BY <1>1, <1>2, <2>3
    <2>5. stream'[d] = SubSeq(stream[d], HeaderSize + 1, Len(stream[d])) /\ Rest(d)' = Rest(d)
      BY <1>1, <1>2 DEF Rest
    <2>6. QED
      BY <1>1, <2>3, <2>4, <2>5 DEF LinkNow
  <1>3. CASE d # e
    <2>1. reader'[d] = reader[d] /\ stream'[d] = stream[d]
      BY <1>1, <1>3
    <2>2. QED
      BY <1>1, <2>1, LinkStill
  <1>4. QED
    BY <1>2, <1>3

LEMMA LinkBodies ==
    ASSUME Safe, Alone, Alone', running' = running, NEW e \in Directions, RecvBody(e), NEW d \in Directions, LinkNow(d)
    PROVE  LinkNow(d)'
  <1> USE DEF disp, peer
  <1>1. /\ Reads(e) /\ (\A x \in Directions : x # e => stream'[x] = stream[x])
        /\ UNCHANGED open /\ ((\E m \in Messages : Gets(e, m)) \/ GetsPart(e))
    BY BodyReceived
  <1>2. /\ DOMAIN reader = Directions /\ sent \in [Directions -> Seq(Messages)]
        /\ received \in [Directions -> Seq(Anything)] /\ out \in [Writers -> Seq(Byte)]
    BY DEF Safe, TypeOK, Inv, Shape, Anything
  <1>3. CASE GetsPart(e)
    <2>1. PICK hd \in Heads :
            /\ reader' = [reader EXCEPT ![e] = hd]
            /\ Link(stream'[e], Rest(e), sent[e], Len(received[e]), hd, open[e])
            /\ UNCHANGED <<out, sent, received>>
      BY <1>3 DEF GetsPart
    <2>2. CASE d = e
      <3>1. reader'[d] = hd /\ Rest(d)' = Rest(d)
        BY <1>2, <2>1, <2>2 DEF Rest
      <3>2. QED
        BY <1>1, <2>1, <2>2, <3>1 DEF LinkNow
    <2>3. CASE d # e
      <3>1. reader'[d] = reader[d] /\ stream'[d] = stream[d]
        BY <1>1, <1>2, <2>1, <2>3
      <3>2. QED
        BY <1>1, <2>1, <3>1, LinkStill
    <2>4. QED
      BY <2>2, <2>3
  <1>4. ASSUME NEW m \in Messages, Gets(e, m) PROVE LinkNow(d)'
    <2>1. /\ received' = [received EXCEPT ![e] = Append(@, m)]
          /\ reader' = [reader EXCEPT ![e] = Header] /\ Handles(e, m)
          /\ Link(stream'[e], Rest(e), sent[e], Len(received[e]) + 1, Header, open[e])
      BY <1>4 DEF Gets
    <2>2. \/ UNCHANGED <<out, sent>>
          \/ e = "down" /\ SendBegins("w_event", Applied) /\ Lone("w_event")
      <3>1. UNCHANGED <<out, sent>> \/ (e = "down" /\ SendBegins("w_event", Applied))
        BY <2>1, Names DEF Handles, WorkerHandles, DispatcherHandles
      <3>2. CASE SendBegins("w_event", Applied) /\ running
        BY <3>1, <3>2, RunningLone, Names
      <3>3. CASE e = "down" /\ ~running
        BY <1>1, <1>4, <3>3, GetsDown
      <3>4. QED
        BY <3>1, <3>2, <3>3
    <2>3. CASE d = e
      <3>1. reader'[d] = Header /\ Len(received'[d]) = Len(received[d]) + 1
        <4>1. received[d] \in Seq(Anything) /\ m \in Anything
          BY <1>2 DEF Anything
        <4>2. QED
          BY <1>2, <2>1, <2>3, <4>1, AppendProperties
      <3>2. sent'[d] = sent[d] /\ \A u \in Writers : Way(u) = d => out[u] = out'[u]
        <4>1. CASE e = "down" /\ SendBegins("w_event", Applied)
          BY <1>2, <2>3, <4>1, Names DEF SendBegins
        <4>2. QED
          BY <2>2, <4>1
      <3>3. RestIn(out, d) = RestIn(out', d)
        BY <3>2, RestFacts
      <3>4. QED
        BY <1>1, <2>1, <2>3, <3>1, <3>2, <3>3 DEF LinkNow, Rest
    <2>4. CASE d # e
      <3>1. /\ received'[d] = received[d] /\ reader'[d] = reader[d] /\ stream'[d] = stream[d]
        BY <1>1, <1>2, <2>1, <2>4
      <3>2. CASE UNCHANGED <<out, sent>>
        BY <1>1, <3>1, <3>2, LinkStill
      <3>3. CASE e = "down" /\ SendBegins("w_event", Applied) /\ Lone("w_event")
        <4>1. d = "up"
          BY <2>4, <3>3, Names
        <4>2. QED
          BY <1>1, <3>1, <3>3, <4>1, LinkBegins, MessageFacts, Names
      <3>4. QED
        BY <2>2, <3>2, <3>3
    <2>5. QED
      BY <2>3, <2>4
  <1>5. QED
    BY <1>1, <1>3, <1>4

(* The writing process is gone, and with it all its threads were writing.    *)
LEMMA GoneRest == ASSUME Quiet, NEW d \in Directions, ~open[d] PROVE Rest(d) = <<>>
  BY RestFacts DEF Quiet, Rest

LEMMA LinkShort ==
    ASSUME ~cut', Safe, NEW e \in Directions, RecvShortHeader(e),
           NEW d \in Directions, LinkNow(d)
    PROVE  LinkNow(d)'
  <1> USE DEF disp, peer, net
  <1>1. /\ ~open[e] /\ stream' = [stream EXCEPT ![e] = <<>>]
        /\ UNCHANGED <<out, sent, received, reader, open>>
        /\ stream \in [Directions -> Seq(Byte)] /\ open \in [Directions -> BOOLEAN]
    <2>1. Handles(e, Garbage)
      BY DEF RecvShortHeader
    <2>2. UNCHANGED <<out, sent>>
      BY <2>1, Ids DEF Handles, WorkerHandles, DispatcherHandles
    <2>3. QED
      BY <2>2 DEF RecvShortHeader, Safe, Inv, Shape
  <1>2. CASE d = e
    <2>1. /\ stream[d] \in Seq(Byte) /\ sent[d] \in Seq(Messages) /\ Len(received[d]) \in Nat
          /\ Rest(d) \in Seq(Byte) /\ reader[d] \in Heads
      BY FlowTypes
    <2>2. Rest(d)' = <<>>
      BY <1>1, <1>2, GoneRest DEF Safe, Rest
    <2>3. <<>> \in Seq(Byte) /\ Len(<<>>) = 0 /\ Len(<<>>) <= Len(stream[d])
          /\ \A i \in 1..Len(<<>>) : <<>>[i] = stream[d][i]
      <3>1. Len(stream[d]) \in Nat
        BY <2>1, LenProperties
      <3>2. QED
        BY <3>1, EmptySeq, NothingThere
    <2>4. Link(<<>>, <<>>, sent[d], Len(received[d]), reader[d], FALSE)
      BY <2>1, <2>3, LinkLost DEF LinkNow
    <2>5. open[d] = FALSE /\ stream'[d] = <<>>
      BY <1>1, <1>2
    <2>6. QED
      BY <1>1, <2>2, <2>4, <2>5 DEF LinkNow
  <1>3. CASE d # e
    <2>1. stream'[d] = stream[d]
      BY <1>1, <1>3
    <2>2. QED
      BY <1>1, <2>1, LinkStill
  <1>4. QED
    BY <1>2, <1>3

LEMMA LinkEnds ==
    ASSUME Safe, NEW e \in Directions, RecvEnd(e), NEW d \in Directions, LinkNow(d)
    PROVE  LinkNow(d)'
  <1> USE DEF disp, peer, net
  <1>1. /\ ~open[e] /\ stream[e] = <<>> /\ reader' = [reader EXCEPT ![e] = Header]
        /\ UNCHANGED <<out, sent, received, stream, open>>
        /\ DOMAIN reader = Directions /\ open \in [Directions -> BOOLEAN]
    BY DEF RecvEnd, ReadEnds, Safe, Inv, Shape
  <1>2. CASE d = e
    <2>1. Rest(d) = <<>> /\ Rest(d)' = <<>> /\ open[d] = FALSE
      BY <1>1, <1>2, GoneRest DEF Safe, Rest
    <2>2. Link(<<>>, <<>>, sent[d], Len(received[d]), reader[d], FALSE)
      BY <1>1, <1>2, <2>1 DEF LinkNow
    <2>3. Link(<<>>, <<>>, sent[d], Len(received[d]), Header, FALSE)
      BY <2>2, FlowTypes, LinkReset
    <2>4. reader'[d] = Header
      BY <1>1, <1>2
    <2>5. QED
      BY <1>1, <1>2, <2>1, <2>3, <2>4 DEF LinkNow
  <1>3. CASE d # e
    <2>1. reader'[d] = reader[d]
      BY <1>1, <1>3
    <2>2. QED
      BY <1>1, <2>1, LinkStill
  <1>4. QED
    BY <1>2, <1>3

LEMMA LinkGoes ==
    ASSUME Safe, NEW d \in Directions, Goes(d), LinkNow(d)
    PROVE  LinkNow(d)'
  <1> USE DEF disp, peer
  <1>1. PICK n \in 0..Len(stream[d]) :
            stream' = [stream EXCEPT ![d] = SubSeq(@, 1, n), ![Other(d)] = <<>>]
    BY DEF Goes
  <1>2. /\ open' = [open EXCEPT ![d] = FALSE] /\ UNCHANGED <<reader, sent, received>>
        /\ \A t \in Writers : out'[t] = IF Way(t) = d THEN <<>> ELSE out[t]
        /\ stream \in [Directions -> Seq(Byte)] /\ open \in [Directions -> BOOLEAN]
    BY DEF Goes, Safe, Inv, Shape
  <1>3. /\ stream[d] \in Seq(Byte) /\ sent[d] \in Seq(Messages) /\ Len(received[d]) \in Nat
        /\ Rest(d) \in Seq(Byte) /\ reader[d] \in Heads
    BY FlowTypes
  <1>4. n \in Nat /\ n <= Len(stream[d])
    <2>1. Len(stream[d]) \in Nat
      BY <1>3, LenProperties
    <2>2. QED
      BY <1>1, <2>1
  <1> DEFINE t == SubSeq(stream[d], 1, n)
  <1>5. t \in Seq(Byte) /\ Len(t) = n /\ \A i \in 1..n : t[i] = stream[d][i]
    BY <1>3, <1>4, FrontOf
  <1>6. stream'[d] = t /\ open'[d] = FALSE
    <2>1. Other(d) # d
      BY Names
    <2>2. QED
      BY <1>1, <1>2, <2>1
  <1> HIDE DEF t
  <1>7. Link(t, <<>>, sent[d], Len(received[d]), reader[d], FALSE)
    BY <1>3, <1>4, <1>5, LinkLost DEF LinkNow
  <1>8. RestIn(out', d) = <<>>
    BY <1>2, RestFacts
  <1>9. QED
    BY <1>2, <1>6, <1>7, <1>8 DEF LinkNow, Rest

LEMMA FlowStep ==
    ~cut' /\ Safe /\ [Next]_vars => \A d \in Directions : Flow(d)'
  <1> USE DEF disp, peer, net
  <1> SUFFICES ASSUME ~cut', Safe, [Next]_vars, NEW d \in Directions PROVE Flow(d)'
    OBVIOUS
  <1>1. running' = running /\ Shape /\ Quiet /\ reading \in [Directions -> BOOLEAN]
    BY RunningStays DEF Safe, Inv, TypeOK
  <1> SUFFICES ASSUME Alone', reading'[d] PROVE LinkNow(d)'
    BY DEF Flow, LinkNow
  <1>2. Alone /\ (reading[d] => LinkNow(d))
    BY AloneBefore DEF Safe, Flow, LinkNow
  <1>3. ASSUME NEW t \in Writers, Write(t) PROVE LinkNow(d)'
    <2>1. UNCHANGED reading
      BY <1>3 DEF Write
    <2>2. QED
      BY <1>2, <1>3, <2>1, LinkWrites
  <1>4. ASSUME NEW t \in Writers, SendFails(t) PROVE LinkNow(d)'
    <2>1. /\ ~open[Other(Way(t))] /\ UNCHANGED <<reading, stream, sent, received, reader, open>>
          /\ \A u \in Writers : u # t => out'[u] = out[u]
      BY <1>1, <1>4 DEF SendFails, Shape
    <2>2. Way(t) # d
      BY <1>1, <2>1, Names DEF Quiet
    <2>3. QED
      BY <1>2, <2>1, <2>2, LinkStill
  <1>5. CASE ConfigureSends \/ SenderSends \/ WorkerSends
    <2>1. PICK t \in Writers, m \in Messages : SendBegins(t, m) /\ Lone(t)
      <3>1. CASE ConfigureSends
        BY <3>1, <1>1, SendsLone, MessageFacts, Names DEF ConfigureSends
      <3>2. CASE SenderSends
        <4>1. bundles + 1 \in 1..BundleCnt
          BY <3>2, ConnectionAssumption DEF SenderSends, Safe, TypeOK
        <4>2. QED
          BY <3>2, <4>1, <1>1, SendsLone, MessageFacts, Names DEF SenderSends
      <3>3. CASE WorkerSends
        <4>1. Head(results) \in Messages
          BY <1>1, <3>3, PartOf DEF WorkerSends, Shape
        <4>2. QED
          BY <3>3, <4>1, <1>1, SendsLone, Names DEF WorkerSends
      <3>4. QED
        BY <1>5, <3>1, <3>2, <3>3
    <2>2. UNCHANGED <<open, reading, stream, reader, received>>
      BY <1>5 DEF ConfigureSends, SenderSends, WorkerSends
    <2>3. CASE Way(t) = d
      BY <1>2, <2>1, <2>2, <2>3, LinkBegins
    <2>4. CASE Way(t) # d
      <3>1. sent'[d] = sent[d] /\ \A u \in Writers : Way(u) = d => out[u] = out'[u]
        BY <1>1, <2>1, <2>4 DEF SendBegins, Shape, Safe, TypeOK
      <3>2. QED
        BY <1>2, <2>2, <3>1, LinkStill
    <2>5. QED
      BY <2>3, <2>4
  <1>6. ASSUME NEW e \in Directions, RecvHeader(e) PROVE LinkNow(d)'
    <2>1. UNCHANGED reading
      BY <1>6 DEF RecvHeader
    <2>2. QED
      BY <1>2, <1>6, <2>1, LinkHeads
  <1>7. ASSUME NEW e \in Directions, NEW m, Handles(e, m), Reads(e) PROVE reading[d]
    BY <1>1, <1>7, Names DEF Handles, DispatcherHandles, WorkerHandles, Reads
  <1>8. ASSUME NEW e \in Directions, RecvShortHeader(e) PROVE LinkNow(d)'
    <2>1. Handles(e, Garbage) /\ Reads(e)
      BY <1>8 DEF RecvShortHeader
    <2>2. QED
      BY <1>2, <1>7, <1>8, <2>1, LinkShort
  <1>9. ASSUME NEW e \in Directions, RecvBody(e) PROVE LinkNow(d)'
    <2>1. Reads(e) /\ ((\E m : Handles(e, m)) \/ UNCHANGED reading)
      BY <1>9 DEF RecvBody
    <2>2. reading[d]
      BY <1>7, <2>1
    <2>3. QED
      BY <1>1, <1>2, <1>9, <2>2, LinkBodies
  <1>10. ASSUME NEW e \in Directions, RecvEnd(e) PROVE LinkNow(d)'
    <2>1. reading[d]
      BY <1>1, <1>10 DEF RecvEnd, ReadEnds
    <2>2. QED
      BY <1>2, <1>10, <2>1, LinkEnds
  <1>11. CASE RecvShortHeaderEnds
    <2>1. /\ reading' = [reading EXCEPT !["up"] = FALSE]
          /\ UNCHANGED <<out, open, sent, received>>
          /\ reader' = [reader EXCEPT !["up"] = Header]
          /\ stream' = [stream EXCEPT !["up"] = <<>>]
      BY <1>11 DEF RecvShortHeaderEnds, ReadEnds
    <2>2. d = "down" /\ reading[d]
      BY <1>1, <2>1, Names
    <2>3. stream'[d] = stream[d] /\ reader'[d] = reader[d]
      BY <1>1, <2>1, <2>2 DEF Shape
    <2>4. QED
      BY <1>2, <2>1, <2>2, <2>3, LinkStill
  <1>12. ASSUME NEW e \in Directions, Goes(e) PROVE LinkNow(d)'
    <2>1. reading' = [reading EXCEPT ![Other(e)] = FALSE]
      BY <1>12 DEF Goes
    <2>2. Other(e) # d /\ reading[d]
      BY <1>1, <2>1
    <2>3. e = d
      BY <2>2, Names
    <2>4. QED
      BY <1>2, <1>12, <2>2, <2>3, LinkGoes
  <1>13. CASE WorkerGoes \/ WorkerExits \/ DispatcherGoes \/ CleanupCloses
    BY <1>12, <1>13, Names DEF WorkerGoes, WorkerExits, DispatcherGoes, CleanupCloses
  <1>14. CASE UNCHANGED vars
    <2>1. UNCHANGED <<out, stream, open, reading, reader, sent, received>>
      BY <1>14 DEF vars
    <2>2. QED
      BY <1>2, <2>1, LinkStill
  <1>15. QED
    BY <1>3, <1>4, <1>5, <1>6, <1>8, <1>9, <1>10, <1>11, <1>13, <1>14 DEF Next

LEMMA SafeStep == ~cut' /\ Safe /\ [Next]_vars => Safe'
  <1> SUFFICES ASSUME ~cut', Safe, [Next]_vars PROVE Safe'
    OBVIOUS
  <1>1. Inv' /\ TypeOK'
    BY StepInv, StepTypes DEF Safe
  <1>2. Quiet' /\ Apart' /\ \A d \in Directions : Flow(d)'
    BY QuietStep, ApartStep, FlowStep
  <1>3. ~running' => Protocol'
    BY ProtocolStep, RunningStays
  <1>4. QED
    BY <1>1, <1>2, <1>3 DEF Safe

LEMMA AlwaysSafe == Spec => [](cut \/ Safe)
  <1>1. (cut \/ Safe) /\ [Next]_vars => cut' \/ Safe'
    BY SafeStep, RunningStays
  <1>2. QED
    BY <1>1, InitSafe, PTL DEF Spec

(* Until a header is cut, the dispatcher handles the results of a worker that *)
(* connects before the launch in the order of its bundles, from the first on *)
(* and each once, and the connect thread drops none of them.                 *)
THEOREM ResultsStay == Spec => []ResultsKept
  <1>1. cut \/ Safe => ResultsKept
    <2> SUFFICES ASSUME Safe, ~running, NEW k \in DOMAIN integrated
        PROVE integrated[k] = Result(k, TRUE)
      BY DEF ResultsKept
    <2>1. integrated \in Seq(Messages) /\ Protocol
      BY DEF Safe, TypeOK
    <2>2. k \in 1..Len(integrated) /\ k \in Nat /\ k + 1 # 1 /\ (k + 1) - 1 = k
      BY <2>1, LenProperties
    <2>3. QED
      BY <2>1, <2>2 DEF Protocol, UpHandled, Up
  <1>2. QED
    BY <1>1, AlwaysSafe, PTL
-------------------------------------------------------------------------------
(* Each direction is a channel of whole messages while no header is cut and   *)
(* no two sends of a direction go on at a time.                              *)
Sends(d) ==
    /\ \E m \in Messages : sent'[d] = Append(sent[d], m)
    /\ received'[d] = received[d]

Receives(d) ==
    /\ Len(received[d]) < Len(sent[d])
    /\ received'[d] = Append(received[d], sent[d][Len(received[d]) + 1])
    /\ sent'[d] = sent[d]

LEMMA ChannelStep ==
    ASSUME Safe, Alone, [Next]_vars, NEW d \in Directions
    PROVE  Sends(d) \/ Receives(d) \/ UNCHANGED <<sent[d], received[d]>>
  <1> USE DEF disp, peer, net
  <1>1. sent \in [Directions -> Seq(Messages)] /\ received \in [Directions -> Seq(Anything)] /\ Shape
    BY DEF Safe, TypeOK, Anything, Inv
  <1>2. ASSUME NEW t \in Writers, NEW m \in Messages, SendBegins(t, m)
        PROVE  sent'[d] = sent[d] \/ sent'[d] = Append(sent[d], m)
    BY <1>1, <1>2, Names DEF SendBegins
  <1>3. ASSUME NEW t \in Writers, Write(t) \/ SendFails(t) PROVE UNCHANGED <<sent, received>>
    BY <1>3 DEF Write, SendFails
  <1>4. CASE ConfigureSends \/ SenderSends \/ WorkerSends
    <2>1. \E t \in Writers, m \in Messages : SendBegins(t, m)
      <3>1. CASE ConfigureSends
        BY <3>1, MessageFacts, Names DEF ConfigureSends
      <3>2. CASE SenderSends
        <4>1. bundles + 1 \in 1..BundleCnt
          BY <3>2, ConnectionAssumption DEF SenderSends, Safe, TypeOK
        <4>2. QED
          BY <3>2, <4>1, MessageFacts, Names DEF SenderSends
      <3>3. CASE WorkerSends
        <4>1. Head(results) \in Messages
          BY <1>1, <3>3, PartOf DEF WorkerSends, Shape
        <4>2. QED
          BY <3>3, <4>1, Names DEF WorkerSends
      <3>4. QED
        BY <1>4, <3>1, <3>2, <3>3
    <2>2. UNCHANGED received
      BY <1>4 DEF ConfigureSends, SenderSends, WorkerSends
    <2>3. QED
      BY <1>2, <2>1, <2>2 DEF Sends
  <1>5. ASSUME NEW e \in Directions, RecvHeader(e) \/ RecvEnd(e) PROVE UNCHANGED <<sent, received>>
    BY <1>5 DEF RecvHeader, RecvEnd
  <1>6. ASSUME NEW e \in Directions, RecvShortHeader(e) PROVE UNCHANGED <<sent, received>>
    <2>1. Handles(e, Garbage) /\ UNCHANGED received
      BY <1>6 DEF RecvShortHeader
    <2>2. QED
      BY <2>1, Ids DEF Handles, WorkerHandles, DispatcherHandles
  <1>7. ASSUME NEW e \in Directions, RecvBody(e)
        PROVE  Sends(d) \/ Receives(d) \/ UNCHANGED <<sent[d], received[d]>>
    <2>1. (\E m \in Messages : Gets(e, m)) \/ GetsPart(e)
      BY <1>7, BodyReceived
    <2>2. CASE GetsPart(e)
      BY <2>2 DEF GetsPart
    <2>3. ASSUME NEW m \in Messages, Gets(e, m)
          PROVE  Sends(d) \/ Receives(d) \/ UNCHANGED <<sent[d], received[d]>>
      <3>1. /\ Len(received[e]) < Len(sent[e]) /\ m = sent[e][Len(received[e]) + 1]
            /\ received' = [received EXCEPT ![e] = Append(@, m)] /\ Handles(e, m)
        BY <2>3 DEF Gets
      <3>2. UNCHANGED sent \/ (e = "down" /\ SendBegins("w_event", Applied))
        BY <3>1, Names DEF Handles, WorkerHandles, DispatcherHandles
      <3>3. CASE d = e
        <4>1. sent'[d] = sent[d]
          BY <1>1, <3>2, <3>3, Names DEF SendBegins
        <4>2. received'[d] = Append(received[d], m)
          BY <1>1, <3>1, <3>3
        <4>3. QED
          BY <3>1, <3>3, <4>1, <4>2 DEF Receives
      <3>4. CASE d # e
        <4>1. received'[d] = received[d]
          BY <1>1, <3>1, <3>4
        <4>2. sent'[d] = sent[d] \/ sent'[d] = Append(sent[d], Applied)
          BY <1>2, <3>2, MessageFacts, Names
        <4>3. QED
          BY <4>1, <4>2, MessageFacts DEF Sends
      <3>5. QED
        BY <3>3, <3>4
    <2>4. QED
      BY <2>1, <2>2, <2>3
  <1>8. RecvShortHeaderEnds => UNCHANGED <<sent, received>>
    BY DEF RecvShortHeaderEnds
  <1>9. CASE WorkerGoes \/ WorkerExits \/ DispatcherGoes \/ CleanupCloses
    BY <1>9 DEF WorkerGoes, WorkerExits, DispatcherGoes, CleanupCloses, Goes
  <1>10. UNCHANGED vars => UNCHANGED <<sent, received>>
    BY DEF vars
  <1>11. QED
    BY <1>3, <1>4, <1>5, <1>6, <1>7, <1>8, <1>9, <1>10 DEF Next

LEMMA SoundBefore == ASSUME cut \/ Safe, [Next]_vars, Sound' PROVE Safe /\ Alone
  BY RunningStays, AloneBefore DEF Sound, Alone

(* The worker receives the very messages the dispatcher sent, whole, each     *)
(* once and in order, for any sizes, however the bodies are cut and whenever *)
(* a process goes, as long as no header is cut and, for a worker that        *)
(* connects while the senders run, no two threads send at a time.            *)
THEOREM DownImplementsChannel == Spec => ChannelDown
  <1>1. Init => DownIsAChannel!Init
    BY Names DEF Init, DownIsAChannel!Init
  <1>2. (cut \/ Safe) /\ [Next]_vars =>
            [Sound' => DownIsAChannel!Next]_<<sent["down"], received["down"]>>
    <2> SUFFICES ASSUME cut \/ Safe, [Next]_vars, Sound'
        PROVE [DownIsAChannel!Next]_<<sent["down"], received["down"]>>
      OBVIOUS
    <2>1. Sends("down") \/ Receives("down") \/ UNCHANGED <<sent["down"], received["down"]>>
      BY ChannelStep, SoundBefore, Names
    <2>2. QED
      BY <2>1 DEF Sends, Receives, DownIsAChannel!Next, DownIsAChannel!Send,
                  DownIsAChannel!Receive
  <1>3. QED
    BY <1>1, <1>2, AlwaysSafe, PTL DEF Spec, ChannelDown

(* So does the dispatcher, though its connect thread reads the reply and its  *)
(* event thread what follows, and though the worker's reply and its results  *)
(* are sent by two threads.                                                  *)
THEOREM UpImplementsChannel == Spec => ChannelUp
  <1>1. Init => UpIsAChannel!Init
    BY Names DEF Init, UpIsAChannel!Init
  <1>2. (cut \/ Safe) /\ [Next]_vars =>
            [Sound' => UpIsAChannel!Next]_<<sent["up"], received["up"]>>
    <2> SUFFICES ASSUME cut \/ Safe, [Next]_vars, Sound'
        PROVE [UpIsAChannel!Next]_<<sent["up"], received["up"]>>
      OBVIOUS
    <2>1. Sends("up") \/ Receives("up") \/ UNCHANGED <<sent["up"], received["up"]>>
      BY ChannelStep, SoundBefore, Names
    <2>2. QED
      BY <2>1 DEF Sends, Receives, UpIsAChannel!Next, UpIsAChannel!Send, UpIsAChannel!Receive
  <1>3. QED
    BY <1>1, <1>2, AlwaysSafe, PTL DEF Spec, ChannelUp
===============================================================================
