-------------------------- MODULE PageSocket_proofs --------------------------
(***************************************************************************)
(* Proofs about PageSocket, for any number of workers, senders, buffers    *)
(* and messages.                                                           *)
(*                                                                         *)
(* Between the page and the application a frame is inbound, then in        *)
(* inQueue, then with a worker.  The invariant is that these three, one    *)
(* after the other, hold the messages that follow the ones handled; only a *)
(* handshake or a close stands alone at the end (InLine).  It needs that   *)
(* one worker has all the frames (OneWorker), and, for the page's next     *)
(* message to fit, that an open page has lost nothing (WhileOpen).         *)
(*                                                                         *)
(* The refinement of MessageLink comes last (LinkInd): it needs besides    *)
(* where the frames come from (Sourced), and that a connection that is     *)
(* open has answered its handshake (Answered).                             *)
(***************************************************************************)
EXTENDS PageSocket, SequenceTheorems, TLAPS

Special == {HandshakeFrame, ClosingFrame}

(* x is the message n, or is one of S and the last of all. *)
Fits(x, n, S, last) == (x \in Messages /\ x = n) \/ (x \in S /\ last)

(* p frames (0 or 1), which are f, then q, then b: they follow message h.  *)
Line(p, f, q, b, h, S) ==
    /\ p = 1 => Fits(f, h + 1, S, q = <<>> /\ b = <<>>)
    /\ \A i \in 1 .. Len(q) : Fits(q[i], h + p + i, S, i = Len(q) /\ b = <<>>)
    /\ \A i \in 1 .. Len(b) : Fits(b[i], h + p + Len(q) + i, S, i = Len(b))

LEMMA NoneLeft == \A s \in Seq(Frames) : Len(s) = 0 => s = <<>>
  BY EmptySeq

LEMMA ReadLine ==
    ASSUME NEW p \in {0, 1}, NEW f, NEW q \in Seq(Frames), NEW b \in Seq(Frames),
           NEW h \in Nat, NEW S, Line(p, f, q, b, h, S), b # <<>>
    PROVE  Line(p, f, Append(q, Head(b)), Tail(b), h, S)
<1> DEFINE r == Append(q, Head(b))
           c == Tail(b)
<1>1. /\ Head(b) = b[1] /\ Head(b) \in Frames /\ Len(b) \in Nat /\ Len(b) >= 1
      /\ c \in Seq(Frames) /\ Len(c) = Len(b) - 1 /\ Len(c) \in Nat
      /\ \A i \in 1 .. Len(c) : c[i] = b[i + 1]
  BY HeadTailProperties, EmptySeq
<1>2. /\ Len(r) = Len(q) + 1 /\ Len(q) \in Nat /\ r # <<>>
      /\ \A i \in 1 .. Len(q) : r[i] = q[i]
      /\ r[Len(q) + 1] = Head(b)
  BY <1>1, AppendProperties
<1> HIDE DEF r, c
<1>3. p = 1 => Fits(f, h + 1, S, r = <<>> /\ c = <<>>)
  BY DEF Line, Fits
<1>4. ASSUME NEW i \in 1 .. Len(r)
      PROVE  Fits(r[i], h + p + i, S, i = Len(r) /\ c = <<>>)
  <2>1. CASE i \in 1 .. Len(q)
    BY <1>2, <2>1 DEF Line, Fits
  <2>2. CASE i = Len(q) + 1
    <3>1. Fits(b[1], h + p + Len(q) + 1, S, 1 = Len(b))
      BY <1>1 DEF Line, Fits
    <3>2. 1 = Len(b) => c = <<>>
      BY <1>1, NoneLeft
    <3> QED
      BY <1>1, <1>2, <2>2, <3>1, <3>2 DEF Fits
  <2> QED
    BY <1>2, <2>1, <2>2
<1>5. ASSUME NEW i \in 1 .. Len(c)
      PROVE  Fits(c[i], h + p + Len(r) + i, S, i = Len(c))
  <2>1. i + 1 \in 1 .. Len(b)
    BY <1>1
  <2>2. Fits(b[i + 1], h + p + Len(q) + (i + 1), S, i + 1 = Len(b))
    BY <2>1 DEF Line
  <2>3. h + p + Len(q) + (i + 1) = h + p + Len(r) + i
    BY <1>2
  <2>4. c[i] = b[i + 1] /\ (i + 1 = Len(b) => i = Len(c))
    BY <1>1
  <2> QED
    BY <2>2, <2>3, <2>4, Zenon DEF Fits
<1> QED
  BY <1>3, <1>4, <1>5 DEF Line, r, c

LEMMA TakeLine ==
    ASSUME NEW f, NEW q \in Seq(Frames), NEW b \in Seq(Frames),
           NEW h \in Nat, NEW S, Line(0, f, q, b, h, S), q # <<>>
    PROVE  Line(1, Head(q), Tail(q), b, h, S)
<1> DEFINE c == Tail(q)
<1>1. /\ Head(q) = q[1] /\ Len(q) \in Nat /\ Len(q) >= 1
      /\ c \in Seq(Frames) /\ Len(c) = Len(q) - 1 /\ Len(c) \in Nat
      /\ \A i \in 1 .. Len(c) : c[i] = q[i + 1]
  BY HeadTailProperties, EmptySeq
<1> HIDE DEF c
<1>2. Fits(Head(q), h + 1, S, c = <<>> /\ b = <<>>)
  <2>1. Fits(q[1], h + 0 + 1, S, 1 = Len(q) /\ b = <<>>)
    BY <1>1 DEF Line, Fits
  <2>2. 1 = Len(q) => c = <<>>
    BY <1>1, NoneLeft
  <2> QED
    BY <1>1, <2>1, <2>2 DEF Fits
<1>3. ASSUME NEW i \in 1 .. Len(c)
      PROVE  Fits(c[i], h + 1 + i, S, i = Len(c) /\ b = <<>>)
  <2>1. i + 1 \in 1 .. Len(q)
    BY <1>1
  <2>2. Fits(q[i + 1], h + 0 + (i + 1), S, i + 1 = Len(q) /\ b = <<>>)
    BY <2>1 DEF Line
  <2>3. h + 0 + (i + 1) = h + 1 + i
    OBVIOUS
  <2>4. c[i] = q[i + 1] /\ (i + 1 = Len(q) => i = Len(c))
    BY <1>1
  <2> QED
    BY <2>2, <2>3, <2>4, Zenon DEF Fits
<1>4. ASSUME NEW i \in 1 .. Len(b)
      PROVE  Fits(b[i], h + 1 + Len(c) + i, S, i = Len(b))
  <2>1. Fits(b[i], h + 0 + Len(q) + i, S, i = Len(b))
    BY DEF Line
  <2>2. Len(b) \in Nat /\ h + 0 + Len(q) + i = h + 1 + Len(c) + i
    BY <1>1, LenProperties
  <2> QED
    BY <2>1, <2>2
<1> QED
  BY <1>2, <1>3, <1>4 DEF Line, c

(* The worker handles the message that follows. *)
LEMMA HandleLine ==
    ASSUME NEW f \in Messages, NEW q \in Seq(Frames), NEW b \in Seq(Frames),
           NEW h \in Nat, NEW S \in SUBSET Special, Line(1, f, q, b, h, S),
           MaxMessages \in Nat
    PROVE  f = h + 1 /\ Line(0, f, q, b, h + 1, S)
<1>1. f \notin S
  BY DEF Special, Messages, HandshakeFrame, ClosingFrame
<1>2. f = h + 1
  BY <1>1 DEF Line, Fits
<1>3. Len(q) \in Nat /\ Len(b) \in Nat
  BY LenProperties
<1>4. ASSUME NEW i \in 1 .. Len(q)
      PROVE  Fits(q[i], h + 1 + 0 + i, S, i = Len(q) /\ b = <<>>)
  BY <1>3 DEF Line
<1>5. ASSUME NEW i \in 1 .. Len(b)
      PROVE  Fits(b[i], h + 1 + 0 + Len(q) + i, S, i = Len(b))
  BY <1>3 DEF Line
<1> QED
  BY <1>2, <1>4, <1>5 DEF Line

(* The worker has a handshake or a close: nothing comes after it. *)
LEMMA SpecialLine ==
    ASSUME NEW f \in Special, NEW q \in Seq(Frames), NEW b \in Seq(Frames),
           NEW h \in Nat, NEW S, Line(1, f, q, b, h, S), MaxMessages \in Nat
    PROVE  q = <<>> /\ b = <<>> /\ Line(0, f, q, b, h, S)
<1>1. f \notin Messages
  BY DEF Special, Messages, HandshakeFrame, ClosingFrame
<1>2. q = <<>> /\ b = <<>>
  BY <1>1 DEF Line, Fits
<1>3. Len(q) = 0 /\ Len(b) = 0
  BY <1>2, EmptySeq
<1> QED
  BY <1>2, <1>3 DEF Line

(* The page sends x. *)
LEMMA SendLine ==
    ASSUME NEW p \in {0, 1}, NEW f, NEW q \in Seq(Frames), NEW b \in Seq(Frames),
           NEW h \in Nat, NEW S, Line(p, f, q, b, h, {}), NEW x \in Frames,
           Fits(x, h + p + Len(q) + Len(b) + 1, S, TRUE)
    PROVE  Line(p, f, q, Append(b, x), h, S)
<1>1. /\ Len(Append(b, x)) = Len(b) + 1 /\ Len(b) \in Nat /\ Len(q) \in Nat
      /\ \A i \in 1 .. Len(b) : Append(b, x)[i] = b[i]
      /\ Append(b, x)[Len(b) + 1] = x
  BY AppendProperties, LenProperties
<1>2. p = 1 => Fits(f, h + 1, S, q = <<>> /\ Append(b, x) = <<>>)
  BY DEF Line, Fits
<1>3. ASSUME NEW i \in 1 .. Len(q)
      PROVE  Fits(q[i], h + p + i, S, i = Len(q) /\ Append(b, x) = <<>>)
  BY DEF Line, Fits
<1>4. ASSUME NEW i \in 1 .. Len(Append(b, x))
      PROVE  Fits(Append(b, x)[i], h + p + Len(q) + i, S, i = Len(Append(b, x)))
  <2>1. CASE i \in 1 .. Len(b)
    BY <1>1, <2>1 DEF Line, Fits
  <2>2. CASE i = Len(b) + 1
    <3>1. h + p + Len(q) + Len(b) + 1 = h + p + Len(q) + i
      BY <1>1, <2>2
    <3> QED
      BY <1>1, <2>2, <3>1 DEF Fits
  <2> QED
    BY <1>1, <2>1, <2>2
<1> QED
  BY <1>2, <1>3, <1>4 DEF Line

(* A reset loses the end of the line. *)
LEMMA ResetLine ==
    ASSUME NEW p \in {0, 1}, NEW f, NEW q \in Seq(Frames), NEW b \in Seq(Frames),
           NEW h \in Nat, NEW S, Line(p, f, q, b, h, S)
    PROVE  Line(p, f, q, <<>>, h, S)
<1>1. Len(<<>>) = 0
  OBVIOUS
<1> QED
  BY <1>1 DEF Line, Fits

-----------------------------------------------------------------------------
(* The invariant *)

(* Whether the connection's worker has a frame that it has not decoded, and *)
(* whether it has a buffer.                                                 *)
Pending == IF workerThread # None /\ decoding[workerThread] = "decode" THEN 1 ELSE 0
Busy == IF workerThread # None /\ decoding[workerThread] \notin {"idle", "ended"}
        THEN 1 ELSE 0

OneWorker ==
    /\ \A w \in Workers : w # workerThread => decoding[w] = "idle" /\ iqueue[w] = 0
    /\ workerThread # None => iqueue[workerThread] = Len(inQueue)
    /\ workerThread = None => inQueue = <<>>

Kept == buffers + Len(inQueue) + Busy = PoolSize

LineOf(S) == Line(Pending, frame[workerThread], inQueue, inbound, Len(handled), S)

InLine == LineOf(Special)

WhileOpen ==
    page = "open" =>
        /\ sent = Len(handled) + Pending + Len(inQueue) + Len(inbound)
        /\ LineOf({})

Empty == Pending = 0 /\ inQueue = <<>> /\ inbound = <<>>

HandshakeOnly ==
    \/ Pending = 0 /\ inQueue = <<>> /\ inbound = <<HandshakeFrame>>
    \/ Pending = 0 /\ inQueue = <<HandshakeFrame>> /\ inbound = <<>>
    \/ /\ Pending = 1 /\ inQueue = <<>> /\ inbound = <<>>
       /\ frame[workerThread] = HandshakeFrame

Connecting ==
    page = "connecting" =>
        /\ sent = 0 /\ handled = <<>>
        /\ Empty \/ (HandshakeOnly /\ outQueue = <<>>)

(* Before the handshake is decoded there is nothing else. *)
Early ==
    ~draft /\ ~(workerThread # None /\ decoding[workerThread] = "responded") =>
        /\ outQueue = <<>> /\ handled = <<>>
        /\ page \notin {"open", "closing"}
        /\ Empty \/ HandshakeOnly

Opening ==
    readystate = "NOT_YET_CONNECTED" /\ draft =>
        workerThread # None /\ decoding[workerThread] = "open"

(* The application sends after the first message. *)
SendersStarted == \A s \in Senders : sending[s] # "idle" => handled # <<>>

Ind == /\ TypeOK /\ OneWorker /\ Kept /\ InLine /\ WhileOpen
       /\ Connecting /\ Early /\ Opening /\ MessagesInOrder

SocketInd == Ind /\ SendersStarted

(* A worker that does something is the connection's. *)
LEMMA IsTheWorker ==
    ASSUME OneWorker, NEW w \in Workers, decoding[w] # "idle" \/ iqueue[w] > 0
    PROVE  w = workerThread
<1>1. iqueue[w] > 0 => iqueue[w] # 0
  OBVIOUS
<1> QED
  BY <1>1 DEF OneWorker

LEMMA Counts ==
    ASSUME TypeOK
    PROVE  /\ Pending \in {0, 1} /\ Busy \in {0, 1}
           /\ Len(inQueue) \in Nat /\ Len(inbound) \in Nat /\ Len(handled) \in Nat
           /\ buffers \in Nat
<1>1. Pending \in {0, 1} /\ Busy \in {0, 1}
  BY DEF Pending, Busy
<1>2. Len(inQueue) \in Nat /\ Len(inbound) \in Nat /\ Len(handled) \in Nat
  BY LenProperties DEF TypeOK
<1>3. buffers \in Nat
  BY SocketAssumption DEF TypeOK
<1> QED
  BY <1>1, <1>2, <1>3

(* With no frame pending it does not matter what the worker had last. *)
LEMMA NoFrame ==
    ASSUME NEW f, NEW g, NEW q, NEW b, NEW h, NEW S, Line(0, f, q, b, h, S)
    PROVE  Line(0, g, q, b, h, S)
  BY DEF Line

-----------------------------------------------------------------------------
(* Steps that move no frame *)

LEMMA Quiet ==
    ASSUME Ind, TypeOK',
           UNCHANGED <<sent, inbound, inQueue, buffers, workerThread, iqueue, frame,
                       handled>>,
           page' = page, page = "connecting" /\ outQueue = <<>> => outQueue' = <<>>,
           Pending' = Pending, Busy' = Busy, OneWorker', Early', Opening'
    PROVE  Ind'
<1>1. Kept' /\ InLine' /\ WhileOpen' /\ MessagesInOrder'
  BY DEF Ind, Kept, InLine, WhileOpen, LineOf, MessagesInOrder
<1>2. Connecting'
  BY DEF Ind, Connecting, Empty, HandshakeOnly
<1> QED
  BY <1>1, <1>2 DEF Ind

(* The same for a step of the selector or of a sender. *)
LEMMA Still ==
    ASSUME Ind, TypeOK',
           UNCHANGED <<sent, inbound, inQueue, buffers, workerThread, iqueue, frame,
                       handled, decoding, draft>>,
           page' = page, readystate' = readystate \/ readystate' # "NOT_YET_CONNECTED",
           outQueue = <<>> => outQueue' = <<>>
    PROVE  Ind'
<1>1. Pending' = Pending /\ Busy' = Busy
  BY DEF Pending, Busy
<1>2. OneWorker' /\ Opening'
  BY DEF Ind, OneWorker, Opening
<1>3. Early'
  BY <1>1 DEF Ind, Early, Empty, HandshakeOnly
<1> QED
  BY <1>1, <1>2, <1>3, Quiet

-----------------------------------------------------------------------------
(* The types, action by action *)

LEMMA InitTypes == Init => TypeOK
<1> SUFFICES ASSUME Init PROVE TypeOK
  OBVIOUS
<1>1. /\ <<HandshakeFrame>> \in Seq(Frames) /\ HandshakeFrame \in Frames
      /\ <<>> \in Seq(Frames) /\ <<>> \in Seq(Outgoing) /\ <<>> \in Seq(Messages)
  BY SocketAssumption, EmptySeq DEF HandshakeFrame, Frames, ClosingFrame
<1>2. PoolSize \in 0 .. PoolSize /\ 0 \in 0 .. MaxMessages
  BY SocketAssumption
<1>3. wakeup \in BOOLEAN /\ channel \in BOOLEAN /\ flushandclosestate \in BOOLEAN
      /\ draft \in BOOLEAN /\ connected \in BOOLEAN /\ stopped \in BOOLEAN
  BY DEF Init
<1> QED
  BY <1>1, <1>2, <1>3 DEF Init, TypeOK, Ops

LEMMA PageTypes ==
    ASSUME TypeOK, PageSends \/ PageGone
    PROVE  TypeOK'
<1>1. sent' \in 0 .. MaxMessages /\ inbound' \in Seq(Frames)
  <2>1. CASE PageSends /\ inbound' = Append(inbound, sent')
    <3>1. sent' \in Frames /\ sent' \in 0 .. MaxMessages
      BY <2>1, SocketAssumption DEF PageSends, TypeOK, Frames, ClosingFrame
    <3> QED
      BY <2>1, <3>1, AppendProperties DEF TypeOK
  <2>2. CASE PageSends /\ inbound' = Append(inbound, ClosingFrame) /\ UNCHANGED sent
    <3>1. ClosingFrame \in Frames
      BY SocketAssumption DEF Frames, ClosingFrame
    <3> QED
      BY <2>2, <3>1, AppendProperties DEF TypeOK
  <2>3. CASE PageGone
    BY <2>3, EmptySeq DEF PageGone, TypeOK
  <2> QED
    BY <2>1, <2>2, <2>3 DEF PageSends
<1>2. page' \in {"connecting", "open", "closing", "eof", "reset"}
  BY DEF PageSends, PageGone, TypeOK
<1>3. UNCHANGED <<received, selecting, readyOps, keyVars, stateVars, workVars, poolVars,
                  outVars, sending>>
  BY DEF PageSends, PageGone
<1> QED
  BY <1>1, <1>2, <1>3
     DEF TypeOK, keyVars, stateVars, workVars, poolVars, outVars

LEMMA SelectorTypes ==
    ASSUME TypeOK, Selector
    PROVE  TypeOK'
<1> USE DEF pageVars, keyVars, stateVars, workVars, poolVars, outVars
<1>1. CASE Select
  <2>1. readyOps' \in SUBSET Ops
    BY <1>1 DEF Select, TypeOK, Ready, Ops
  <2>2. wakeup' \in BOOLEAN
    BY <1>1 DEF Select
  <2>3. selecting' \in {"read", "write", "select"}
    BY <1>1 DEF Select
  <2> QED
    BY <1>1, <2>1, <2>2, <2>3 DEF Select, TypeOK
<1>2. CASE ReadFrame
  <2>1. /\ inQueue' \in Seq(Frames) /\ inbound' \in Seq(Frames)
    BY <1>2, HeadTailProperties, AppendProperties DEF ReadFrame, TypeOK
  <2>2. iqueue' \in [Workers -> Nat] /\ workerThread' \in Workers \cup {None}
    BY <1>2 DEF ReadFrame, Queue, TypeOK
  <2>3. buffers' \in 0 .. PoolSize
    BY <1>2, SocketAssumption DEF ReadFrame, TypeOK
  <2>4. selecting' \in {"write", "select"} /\ readyOps' \in SUBSET Ops
    BY <1>2 DEF ReadFrame, AfterRead
  <2> QED
    BY <1>2, <2>1, <2>2, <2>3, <2>4 DEF ReadFrame, TypeOK
<1>3. CASE ReadEnd
  BY <1>3 DEF ReadEnd, AfterRead, TypeOK
<1>4. CASE Write
  <2>1. /\ Head(outQueue) \in Outgoing /\ Tail(outQueue) \in Seq(Outgoing)
    BY <1>4, HeadTailProperties DEF Write, TypeOK
  <2>2. received' \in Seq(Outgoing) /\ outQueue' \in Seq(Outgoing)
    <3>1. Append(received, Head(outQueue)) \in Seq(Outgoing)
      BY <2>1, AppendProperties DEF TypeOK
    <3>2. received' \in {received, Append(received, Head(outQueue))}
      BY <1>4 DEF Write
    <3>3. outQueue' \in {outQueue, Tail(outQueue)}
      BY <1>4 DEF Write
    <3> QED
      BY <2>1, <3>1, <3>2, <3>3 DEF TypeOK
  <2>3. /\ page' \in {"connecting", "open", "closing", "eof", "reset"}
        /\ selecting' \in {"select", "write", "close"}
    BY <1>4 DEF Write, TypeOK
  <2> QED
    BY <1>4, <2>2, <2>3 DEF Write, TypeOK
<1>5. CASE Written
  BY <1>5 DEF Written, TypeOK
<1>6. CASE Interest
  <2>1. interestOps' \in SUBSET Ops
    BY <1>6 DEF Interest, Ops
  <2> QED
    BY <1>6, <2>1 DEF Interest, TypeOK
<1>7. CASE CloseChannel
  <2>1. channel' \in BOOLEAN /\ wakeup' \in BOOLEAN
    BY <1>7 DEF CloseChannel
  <2> QED
    BY <1>7, <2>1 DEF CloseChannel, TypeOK
<1>8. CASE RemoveConnection
  <2>1. connected' \in BOOLEAN
    BY <1>8 DEF RemoveConnection
  <2> QED
    BY <1>8, <2>1 DEF RemoveConnection, TypeOK
<1>9. CASE Closed
  BY <1>9, EmptySeq DEF Closed, TypeOK
<1>10. CASE SelectorEnds
  BY <1>10 DEF SelectorEnds, TypeOK
<1> QED
  BY <1>1, <1>2, <1>3, <1>4, <1>5, <1>6, <1>7, <1>8, <1>9, <1>10 DEF Selector

(* What write() and onWriteDemand() do *)
LEMMA OutTypes ==
    ASSUME TypeOK, (\E b \in Outgoing : Put(b)) \/ Demand
    PROVE  /\ outQueue' \in Seq(Outgoing) /\ written' \in Seq(Outgoing)
           /\ wakeup' \in BOOLEAN /\ interestOps' \in SUBSET Ops /\ channel' \in BOOLEAN
<1>1. CASE \E b \in Outgoing : Put(b)
  BY <1>1, AppendProperties DEF Put, TypeOK, keyVars
<1>2. CASE Demand
  <2>1. wakeup' \in BOOLEAN
    BY <1>2 DEF Demand
  <2>2. interestOps' \in SUBSET Ops
    BY <1>2 DEF Demand, TypeOK
  <2> QED
    BY <1>2, <2>1, <2>2, EmptySeq DEF Demand, TypeOK
<1> QED
  BY <1>1, <1>2

LEMMA WorkerTypes ==
    ASSUME Ind, NEW w \in Workers, Worker(w)
    PROVE  TypeOK'
<1> USE DEF pageVars, stateVars, poolVars
<1>0. TypeOK
  BY DEF Ind
<1>1. ASSUME NEW from, Step(w, from, "idle") \/ Step(w, from, "decode")
                       \/ Step(w, from, "responded") \/ Step(w, from, "open")
                       \/ Step(w, from, "register") \/ Step(w, from, "echo")
                       \/ Step(w, from, "flush") \/ Step(w, from, "flushed")
                       \/ Step(w, from, "closing") \/ Step(w, from, "done")
                       \/ Step(w, from, "ended")
      PROVE  /\ decoding' \in [Workers ->
                    {"idle", "decode", "responded", "open", "register", "echo", "flush",
                     "flushed", "closing", "done", "ended"}]
             /\ UNCHANGED <<pageVars, selecting, readyOps, sending>>
  BY <1>0, <1>1 DEF Step, TypeOK
<1>2. CASE Take(w)
  <2>1. inQueue # <<>>
    <3>1. w = workerThread /\ w # None /\ iqueue[w] > 0
      BY <1>2, IsTheWorker, SocketAssumption DEF Take, Ind
    <3>2. Len(inQueue) > 0
      BY <3>1 DEF Ind, OneWorker
    <3> QED
      BY <3>2, Len(<<>>) = 0
  <2>2. inQueue' \in Seq(Frames) /\ frame' \in [Workers -> Frames]
    BY <1>0, <1>2, <2>1, HeadTailProperties DEF Take, TypeOK
  <2>3. iqueue' \in [Workers -> Nat]
    BY <1>0, <1>2 DEF Take, TypeOK
  <2>4. /\ decoding' \in [Workers ->
                  {"idle", "decode", "responded", "open", "register", "echo", "flush",
                   "flushed", "closing", "done", "ended"}]
        /\ UNCHANGED <<pageVars, selecting, readyOps, sending>>
    BY <1>1, <1>2 DEF Take
  <2>5. UNCHANGED <<keyVars, stateVars, workerThread, stopped, handled, buffers, outVars>>
    BY <1>2 DEF Take
  <2> QED
    BY <1>0, <2>2, <2>3, <2>4, <2>5 DEF TypeOK, keyVars, outVars
<1>3. CASE Done(w) \/ Fatal(w)
  <2>1. w = workerThread /\ decoding[w] \notin {"idle", "ended"}
    BY <1>3, IsTheWorker DEF Done, Fatal, Step, Ind
  <2>2. Busy = 1
    BY <2>1, SocketAssumption DEF Busy
  <2>3. buffers' \in 0 .. PoolSize
    BY <1>0, <1>3, <2>2, Counts, SocketAssumption DEF Done, Fatal, Ind, Kept, TypeOK
  <2>4. stopped' \in BOOLEAN
    BY <1>0, <1>3 DEF Done, Fatal, TypeOK
  <2> QED
    BY <1>0, <1>1, <1>3, <2>3, <2>4 DEF Done, Fatal, TypeOK, keyVars, outVars
<1>4. CASE Handshake(w) \/ Echoed(w) \/ Flushed(w)
  <2>1. (\E b \in Outgoing : Put(b)) \/ Demand
    BY <1>4 DEF Handshake, Echoed, Flushed, Outgoing
  <2> QED
    BY <1>0, <1>1, <1>4, <2>1, OutTypes DEF Handshake, Echoed, Flushed, TypeOK
<1>5. CASE CloseFrame(w)
  <2>1. CASE Put("close") /\ Step(w, "decode", "echo")
    <3>1. \E b \in Outgoing : Put(b)
      BY <2>1 DEF Outgoing
    <3> QED
      BY <1>0, <1>1, <1>5, <2>1, <3>1, OutTypes DEF CloseFrame, TypeOK
  <2>2. CASE Step(w, "decode", "done") /\ UNCHANGED <<outVars, keyVars>>
    BY <1>0, <1>1, <1>5, <2>2 DEF CloseFrame, TypeOK, keyVars, outVars
  <2> QED
    BY <1>5, <2>1, <2>2 DEF CloseFrame
<1>6. CASE Responded(w)
  <2>1. draft' \in BOOLEAN
    BY <1>6 DEF Responded
  <2> QED
    BY <1>0, <1>1, <1>6, <2>1, OutTypes DEF Responded, TypeOK
<1>7. CASE Open(w) \/ Closing(w)
  BY <1>0, <1>1, <1>7 DEF Open, Closing, TypeOK, keyVars, outVars
<1>8. CASE Register(w) \/ FlushAndClose(w)
  <2>1. connected' \in BOOLEAN /\ flushandclosestate' \in BOOLEAN
    BY <1>0, <1>8 DEF Register, FlushAndClose, TypeOK
  <2> QED
    BY <1>0, <1>1, <1>8, <2>1 DEF Register, FlushAndClose, TypeOK, keyVars, outVars
<1>9. CASE Message(w)
  <2>1. handled' \in Seq(Messages)
    BY <1>0, <1>9, AppendProperties DEF Message, TypeOK
  <2> QED
    BY <1>0, <1>1, <1>9, <2>1 DEF Message, TypeOK, keyVars, outVars
<1> QED
  BY <1>2, <1>3, <1>4, <1>5, <1>6, <1>7, <1>8, <1>9 DEF Worker

LEMMA SenderTypes ==
    ASSUME TypeOK, NEW s \in Senders, Sender(s)
    PROVE  TypeOK'
<1>1. (\E b \in Outgoing : Put(b)) \/ Demand \/ UNCHANGED <<keyVars, outVars>>
  BY DEF Sender, Send, SendFrame, SendDemand, Outgoing
<1>2. sending' \in [Senders -> {"idle", "frame", "demand", "done"}]
  BY DEF Sender, Send, SendFrame, SendDemand, SendStep, TypeOK
<1>3. UNCHANGED <<pageVars, selecting, readyOps, stateVars, workVars, poolVars>>
  BY DEF Sender, Send, SendFrame, SendDemand, SendStep
<1>4. /\ outQueue' \in Seq(Outgoing) /\ written' \in Seq(Outgoing)
      /\ wakeup' \in BOOLEAN /\ interestOps' \in SUBSET Ops /\ channel' \in BOOLEAN
  BY <1>1, OutTypes DEF TypeOK, keyVars, outVars
<1> QED
  BY <1>2, <1>3, <1>4
     DEF TypeOK, pageVars, stateVars, workVars, poolVars

-----------------------------------------------------------------------------
(* The invariant, action by action *)

LEMMA PageSendsInd ==
    ASSUME Ind, TypeOK', PageSends
    PROVE  Ind'
<1> USE DEF keyVars, stateVars, workVars, poolVars, outVars
<1>1. /\ page = "open" /\ page' # "connecting"
      /\ UNCHANGED <<workerThread, decoding, frame, inQueue, handled, iqueue, buffers,
                     readystate, draft>>
      /\ Pending' = Pending /\ Busy' = Busy
  BY DEF PageSends, Pending, Busy
<1>2. OneWorker' /\ Kept' /\ Opening' /\ MessagesInOrder' /\ Connecting'
  BY <1>1 DEF Ind, OneWorker, Kept, Opening, MessagesInOrder, Connecting
<1>3. Early'
  BY <1>1 DEF Ind, Early
<1>4. /\ sent = Len(handled) + Pending + Len(inQueue) + Len(inbound)
      /\ LineOf({})
      /\ inQueue \in Seq(Frames) /\ inbound \in Seq(Frames)
      /\ Pending \in {0, 1} /\ Len(handled) \in Nat
      /\ Len(inQueue) \in Nat /\ Len(inbound) \in Nat
  BY <1>1, Counts DEF Ind, WhileOpen, TypeOK
<1>5. CASE page' = "open"
  <2>1. sent' = sent + 1 /\ sent' \in Messages /\ inbound' = Append(inbound, sent')
    BY <1>1, <1>5, SocketAssumption DEF PageSends, Ind, TypeOK, Messages
  <2>2. sent' = Len(handled) + Pending + Len(inQueue) + Len(inbound) + 1
    BY <1>4, <2>1
  <2>3. sent' \in Frames
    BY <2>1, SocketAssumption DEF Messages, Frames, ClosingFrame
  <2>4. ASSUME NEW S PROVE LineOf(S)'
    <3>1. Fits(sent', Len(handled) + Pending + Len(inQueue) + Len(inbound) + 1, S, TRUE)
      BY <2>1, <2>2 DEF Fits
    <3>2. Line(Pending, frame[workerThread], inQueue, Append(inbound, sent'),
               Len(handled), S)
      BY <1>4, <2>3, <3>1, SendLine DEF LineOf
    <3> QED
      BY <1>1, <2>1, <3>2 DEF LineOf
  <2>5. Len(inbound') = Len(inbound) + 1
    BY <1>4, <2>1, <2>3, AppendProperties
  <2>6. WhileOpen' /\ InLine'
    BY <1>1, <1>4, <2>1, <2>4, <2>5 DEF WhileOpen, InLine
  <2> QED
    BY <1>2, <1>3, <2>6 DEF Ind
<1>6. CASE page' = "closing"
  <2>1. inbound' = Append(inbound, ClosingFrame)
    BY <1>1, <1>6 DEF PageSends
  <2>2. ClosingFrame \in Frames
    BY SocketAssumption DEF Frames, ClosingFrame
  <2>3. Fits(ClosingFrame, Len(handled) + Pending + Len(inQueue) + Len(inbound) + 1,
             Special, TRUE)
    BY DEF Fits, Special
  <2>4. Line(Pending, frame[workerThread], inQueue, Append(inbound, ClosingFrame),
             Len(handled), Special)
    BY <1>4, <2>2, <2>3, SendLine DEF LineOf
  <2>5. InLine' /\ WhileOpen'
    BY <1>1, <1>6, <2>1, <2>4 DEF InLine, LineOf, WhileOpen
  <2> QED
    BY <1>2, <1>3, <2>5 DEF Ind
<1> QED
  BY <1>1, <1>5, <1>6 DEF PageSends

LEMMA PageGoneInd ==
    ASSUME Ind, TypeOK', PageGone
    PROVE  Ind'
<1> USE DEF keyVars, stateVars, workVars, poolVars, outVars
<1>1. /\ page' \notin {"open", "closing", "connecting"}
      /\ inbound' = inbound \/ inbound' = <<>>
      /\ UNCHANGED <<workerThread, decoding, frame, inQueue, handled, iqueue, buffers,
                     readystate, draft, outQueue>>
      /\ Pending' = Pending /\ Busy' = Busy
  BY DEF PageGone, Pending, Busy
<1>2. OneWorker' /\ Kept' /\ Opening' /\ MessagesInOrder' /\ Connecting' /\ WhileOpen'
  BY <1>1 DEF Ind, OneWorker, Kept, Opening, MessagesInOrder, Connecting, WhileOpen
<1>3. Early'
  BY <1>1 DEF Ind, Early, Empty, HandshakeOnly
<1>4. InLine'
  <2>1. /\ inQueue \in Seq(Frames) /\ inbound \in Seq(Frames)
        /\ Pending \in {0, 1} /\ Len(handled) \in Nat
    BY Counts DEF Ind, TypeOK
  <2>2. Line(Pending, frame[workerThread], inQueue, <<>>, Len(handled), Special)
    BY <2>1, ResetLine DEF Ind, InLine, LineOf
  <2> QED
    BY <1>1, <2>2 DEF Ind, InLine, LineOf
<1> QED
  BY <1>2, <1>3, <1>4 DEF Ind

LEMMA ReadFrameInd ==
    ASSUME Ind, TypeOK', ReadFrame
    PROVE  Ind'
<1> USE DEF pageVars, keyVars, stateVars, workVars, poolVars, outVars
<1>1. /\ inbound # <<>> /\ inbound \in Seq(Frames) /\ inQueue \in Seq(Frames)
      /\ inbound' = Tail(inbound) /\ inQueue' = Append(inQueue, Head(inbound))
      /\ UNCHANGED <<page, sent, decoding, frame, handled, readystate, draft, outQueue>>
  BY DEF ReadFrame, Ind, TypeOK
<1>2. /\ Head(inbound) \in Frames
      /\ Len(inQueue') = Len(inQueue) + 1 /\ Len(inbound') = Len(inbound) - 1
      /\ inQueue' # <<>>
  BY <1>1, HeadTailProperties, AppendProperties
<1>3. PICK w \in Workers :
        /\ workerThread \in {None, w} /\ workerThread' = w
        /\ iqueue' = [iqueue EXCEPT ![w] = @ + 1]
  BY DEF ReadFrame, Queue
<1>4. /\ Pending \in {0, 1} /\ Len(inQueue) \in Nat /\ Len(inbound) \in Nat
      /\ Len(handled) \in Nat /\ buffers \in Nat
  BY Counts DEF Ind
<1>5. w # None
  BY SocketAssumption
<1>6. OneWorker'
  <2>1. ASSUME NEW v \in Workers, v # w PROVE decoding'[v] = "idle" /\ iqueue'[v] = 0
    <3>1. v # workerThread
      BY <1>3, <2>1, SocketAssumption
    <3>2. decoding[v] = "idle" /\ iqueue[v] = 0
      BY <3>1 DEF Ind, OneWorker
    <3>3. iqueue'[v] = iqueue[v]
      BY <1>3, <2>1 DEF Ind, TypeOK
    <3> QED
      BY <1>1, <3>2, <3>3
  <2>2. iqueue[w] = Len(inQueue)
    <3>1. CASE workerThread = w
      BY <1>5, <3>1 DEF Ind, OneWorker
    <3>2. CASE workerThread = None
      BY <1>5, <3>2, Len(<<>>) = 0 DEF Ind, OneWorker
    <3> QED
      BY <1>3, <3>1, <3>2
  <2>3. iqueue'[w] = Len(inQueue')
    BY <1>2, <1>3, <2>2 DEF Ind, TypeOK
  <2> QED
    BY <1>3, <1>5, <2>1, <2>3 DEF OneWorker
<1>7. /\ Pending' = Pending /\ Busy' = Busy
      /\ Pending = 1 => workerThread' = workerThread
  BY <1>1, <1>3, <1>5 DEF Ind, OneWorker, Pending, Busy
<1>8. Kept'
  BY <1>2, <1>4, <1>7 DEF ReadFrame, Ind, Kept
<1>9. ASSUME NEW S, LineOf(S) PROVE LineOf(S)'
  <2>1. Line(Pending, frame[workerThread], inQueue', inbound', Len(handled), S)
    BY <1>1, <1>4, <1>9, ReadLine DEF LineOf
  <2>2. CASE Pending = 0
    BY <1>1, <1>7, <2>1, <2>2, NoFrame DEF LineOf
  <2>3. CASE Pending = 1
    BY <1>1, <1>7, <2>1, <2>3 DEF LineOf
  <2> QED
    BY <1>4, <2>2, <2>3
<1>10. InLine' /\ WhileOpen' /\ MessagesInOrder'
  BY <1>1, <1>2, <1>4, <1>7, <1>9 DEF Ind, InLine, WhileOpen, MessagesInOrder
<1>11. Empty \/ HandshakeOnly => HandshakeOnly' /\ HandshakeOnly
  <2>1. ASSUME inbound = <<HandshakeFrame>>, inQueue = <<>>
        PROVE  inbound' = <<>> /\ inQueue' = <<HandshakeFrame>>
    BY <1>1, <2>1
  <2> QED
    BY <1>1, <1>7, <2>1 DEF Empty, HandshakeOnly
<1>12. Connecting'
  BY <1>1, <1>11 DEF Ind, Connecting, Empty
<1>13. Early' /\ Opening'
  BY <1>1, <1>3, <1>5, <1>11 DEF Ind, Early, Opening, OneWorker
<1> QED
  BY <1>6, <1>8, <1>10, <1>12, <1>13 DEF Ind

LEMMA WriteInd ==
    ASSUME Ind, TypeOK', Write
    PROVE  Ind'
<1> USE DEF pageVars, keyVars, stateVars, workVars, poolVars, outVars
<1>1. /\ outQueue # <<>>
      /\ UNCHANGED <<sent, inbound, inQueue, buffers, workerThread, iqueue, frame,
                     handled, decoding, draft, readystate>>
  BY DEF Write
<1>2. CASE page' = page
  BY <1>1, <1>2, Still
<1>3. CASE page = "connecting" /\ page' = "open"
  <2>1. Pending' = Pending /\ Busy' = Busy
    BY <1>1 DEF Pending, Busy
  <2>2. sent = 0 /\ handled = <<>> /\ Empty
    BY <1>1, <1>3 DEF Ind, Connecting
  <2>3. WhileOpen'
    <3>1. Len(handled) = 0 /\ Len(inQueue) = 0 /\ Len(inbound) = 0 /\ Pending = 0
      BY <2>2 DEF Empty
    <3>2. LineOf({})
      BY <3>1 DEF LineOf, Line
    <3> QED
      BY <1>1, <2>1, <2>2, <3>1, <3>2 DEF WhileOpen, LineOf
  <2>4. OneWorker' /\ Kept' /\ InLine' /\ Opening' /\ MessagesInOrder' /\ Connecting'
    BY <1>1, <1>3, <2>1
       DEF Ind, OneWorker, Kept, InLine, LineOf, Opening, MessagesInOrder, Connecting
  <2>5. Early'
    BY <1>1 DEF Ind, Early
  <2> QED
    BY <2>3, <2>4, <2>5 DEF Ind
<1> QED
  BY <1>2, <1>3 DEF Write

LEMMA SelectorInd ==
    ASSUME Ind, TypeOK', Selector
    PROVE  Ind'
<1>1. CASE ReadFrame \/ Write
  BY <1>1, ReadFrameInd, WriteInd
<1>2. CASE \/ Select \/ ReadEnd \/ Written \/ Interest
           \/ CloseChannel \/ RemoveConnection \/ Closed \/ SelectorEnds
  <2>1. /\ UNCHANGED <<sent, inbound, inQueue, buffers, workerThread, iqueue, frame,
                       handled, decoding, draft, page>>
        /\ readystate' = readystate \/ readystate' # "NOT_YET_CONNECTED"
        /\ outQueue = <<>> => outQueue' = <<>>
    BY <1>2 DEF Select, ReadEnd, Written, Interest, CloseChannel,
                RemoveConnection, Closed, SelectorEnds,
                pageVars, keyVars, stateVars, workVars, poolVars, outVars
  <2> QED
    BY <2>1, Still
<1> QED
  BY <1>1, <1>2 DEF Selector

LEMMA SenderInd ==
    ASSUME Ind, SendersStarted, TypeOK', NEW s \in Senders, Sender(s)
    PROVE  Ind'
<1> USE DEF pageVars, stateVars, workVars, poolVars
<1>1. CASE Send(s) \/ SendDemand(s)
  BY <1>1, Still DEF Send, SendDemand, SendStep, Demand, outVars
<1>2. CASE SendFrame(s)
  <2>1. /\ UNCHANGED <<sent, inbound, inQueue, buffers, workerThread, iqueue, frame,
                       handled, decoding, draft, page, readystate>>
        /\ handled # <<>>
    BY <1>2 DEF SendFrame, SendStep, SendersStarted
  <2>2. Pending' = Pending /\ Busy' = Busy
    BY <2>1 DEF Pending, Busy
  <2>3. OneWorker' /\ Opening' /\ Early'
    BY <2>1 DEF Ind, OneWorker, Opening, Early
  <2>4. page # "connecting"
    BY <2>1 DEF Ind, Connecting
  <2> QED
    BY <2>1, <2>2, <2>3, <2>4, Quiet
<1> QED
  BY <1>1, <1>2 DEF Sender

-----------------------------------------------------------------------------
(* The steps of the connection's worker *)

LEMMA WorkerStep ==
    ASSUME Ind, NEW w \in Workers, NEW from, NEW to, Step(w, from, to),
           from # "idle" \/ iqueue[w] > 0, workerThread' = workerThread
    PROVE  /\ w = workerThread /\ w # None
           /\ decoding[w] = from /\ decoding'[w] = to
           /\ \A v \in Workers : v # w => decoding'[v] = "idle" /\ iqueue[v] = 0
           /\ iqueue[w] = Len(inQueue)
           /\ Pending = IF from = "decode" THEN 1 ELSE 0
           /\ Pending' = IF to = "decode" THEN 1 ELSE 0
           /\ Busy = IF from \in {"idle", "ended"} THEN 0 ELSE 1
           /\ Busy' = IF to \in {"idle", "ended"} THEN 0 ELSE 1
<1>1. w = workerThread /\ w # None
  BY IsTheWorker, SocketAssumption DEF Step, Ind
<1>2. decoding[w] = from /\ decoding' = [decoding EXCEPT ![w] = to]
  BY DEF Step
<1>3. decoding'[w] = to /\ \A v \in Workers : v # w => decoding'[v] = decoding[v]
  BY <1>2 DEF Ind, TypeOK
<1>4. \A v \in Workers : v # w => decoding'[v] = "idle" /\ iqueue[v] = 0
  BY <1>1, <1>3 DEF Ind, OneWorker
<1>5. iqueue[w] = Len(inQueue)
  BY <1>1 DEF Ind, OneWorker
<1> QED
  BY <1>1, <1>2, <1>3, <1>4, <1>5 DEF Pending, Busy

(* Steps between the decoding of a frame and the return of its buffer *)
LEMMA BetweenInd ==
    ASSUME Ind, TypeOK', NEW w \in Workers, NEW from, NEW to, Step(w, from, to),
           from \notin {"idle", "ended", "decode", "responded", "open"},
           to \notin {"idle", "ended", "decode"},
           UNCHANGED <<inQueue, buffers, workerThread, iqueue, frame, handled, draft>>,
           outQueue = <<>> => outQueue' = <<>>,
           readystate' = readystate \/ readystate' # "NOT_YET_CONNECTED"
    PROVE  Ind'
<1> USE DEF pageVars
<1>1. /\ w = workerThread /\ w # None /\ decoding[w] = from
      /\ \A v \in Workers : v # w => decoding'[v] = "idle" /\ iqueue[v] = 0
      /\ iqueue[w] = Len(inQueue)
      /\ Pending' = Pending /\ Busy' = Busy
  BY WorkerStep
<1>2. UNCHANGED <<page, sent, inbound>>
  BY DEF Step
<1>3. OneWorker'
  BY <1>1 DEF OneWorker
<1>4. Early' /\ Opening'
  BY <1>1, <1>2 DEF Ind, Early, Opening, Empty, HandshakeOnly
<1> QED
  BY <1>1, <1>2, <1>3, <1>4, Quiet

LEMMA TakeInd ==
    ASSUME Ind, TypeOK', NEW w \in Workers, Take(w)
    PROVE  Ind'
<1> USE DEF pageVars, keyVars, stateVars, workVars, poolVars, outVars
<1>1. /\ w = workerThread /\ w # None
      /\ \A v \in Workers : v # w => decoding'[v] = "idle" /\ iqueue[v] = 0
      /\ iqueue[w] = Len(inQueue) /\ decoding'[w] = "decode"
      /\ Pending = 0 /\ Pending' = 1 /\ Busy = 0 /\ Busy' = 1
  BY WorkerStep DEF Take
<1>2. /\ iqueue[w] > 0 /\ inQueue' = Tail(inQueue)
      /\ iqueue' = [iqueue EXCEPT ![w] = @ - 1]
      /\ frame' = [frame EXCEPT ![w] = Head(inQueue)]
      /\ UNCHANGED <<page, sent, inbound, workerThread, handled, readystate, draft,
                     buffers, outQueue>>
  BY DEF Take, Step
<1>3. /\ inQueue \in Seq(Frames) /\ inbound \in Seq(Frames) /\ inQueue # <<>>
      /\ Len(inQueue) \in Nat /\ Len(inbound) \in Nat /\ Len(handled) \in Nat
  <2>1. Len(inQueue) > 0 /\ Len(<<>>) = 0
    BY <1>1, <1>2
  <2> QED
    BY <2>1, Counts DEF Ind, TypeOK
<1>4. Len(inQueue') = Len(inQueue) - 1
  BY <1>2, <1>3, HeadTailProperties
<1>5. frame'[w] = Head(inQueue) /\ iqueue'[w] = Len(inQueue')
  BY <1>1, <1>2, <1>4 DEF Ind, TypeOK
<1>6. OneWorker'
  <2>1. \A v \in Workers : v # w => iqueue'[v] = iqueue[v]
    BY <1>2 DEF Ind, TypeOK
  <2> QED
    BY <1>1, <1>2, <1>5, <2>1 DEF OneWorker
<1>7. Kept'
  BY <1>1, <1>2, <1>3, <1>4, Counts DEF Ind, Kept
<1>8. ASSUME NEW S, LineOf(S) PROVE LineOf(S)'
  BY <1>1, <1>2, <1>3, <1>5, <1>8, TakeLine DEF LineOf
<1>9. InLine' /\ WhileOpen' /\ MessagesInOrder'
  BY <1>1, <1>2, <1>3, <1>4, <1>8 DEF Ind, InLine, WhileOpen, MessagesInOrder
<1>10. Empty \/ HandshakeOnly => HandshakeOnly /\ HandshakeOnly'
  <2>1. ASSUME inQueue = <<HandshakeFrame>> PROVE inQueue' = <<>> /\ Head(inQueue) = HandshakeFrame
    BY <1>2, <2>1
  <2> QED
    BY <1>1, <1>2, <1>3, <1>5, <2>1 DEF Empty, HandshakeOnly
<1>11. Connecting' /\ Early' /\ Opening'
  BY <1>1, <1>2, <1>3, <1>10 DEF Ind, Connecting, Early, Opening, Empty, Step, Take
<1> QED
  BY <1>6, <1>7, <1>9, <1>11 DEF Ind

LEMMA DoneInd ==
    ASSUME Ind, TypeOK', NEW w \in Workers, Done(w)
    PROVE  Ind'
<1> USE DEF pageVars, keyVars, stateVars, workVars, poolVars, outVars
<1>1. /\ w = workerThread /\ w # None
      /\ \A v \in Workers : v # w => decoding'[v] = "idle" /\ iqueue[v] = 0
      /\ iqueue[w] = Len(inQueue) /\ decoding[w] = "done"
      /\ Pending = 0 /\ Pending' = 0 /\ Busy = 1 /\ Busy' = 0
  BY WorkerStep DEF Done
<1>2. /\ buffers' = buffers + 1
      /\ UNCHANGED <<page, sent, inbound, inQueue, iqueue, frame, workerThread, handled,
                     readystate, draft, outQueue>>
  BY DEF Done, Step
<1>3. OneWorker'
  BY <1>1, <1>2 DEF OneWorker
<1>4. Kept'
  BY <1>1, <1>2, Counts DEF Ind, Kept
<1>5. InLine' /\ WhileOpen' /\ MessagesInOrder' /\ Connecting'
  BY <1>1, <1>2
     DEF Ind, InLine, WhileOpen, LineOf, MessagesInOrder, Connecting, Empty, HandshakeOnly
<1>6. Early' /\ Opening'
  BY <1>1, <1>2 DEF Ind, Early, Opening, Empty, HandshakeOnly
<1> QED
  BY <1>3, <1>4, <1>5, <1>6 DEF Ind

(* What is decoded before there is a draft is the handshake. *)
LEMMA HandshakeDecoded ==
    ASSUME Ind, NEW w \in Workers, decoding[w] = "decode", ~draft
    PROVE  /\ frame[workerThread] = HandshakeFrame
           /\ page \notin {"open", "closing"} /\ outQueue = <<>> /\ handled = <<>>
<1>1. w = workerThread /\ w # None
  BY IsTheWorker, SocketAssumption DEF Ind
<1>2. Pending = 1 /\ decoding[workerThread] # "responded"
  BY <1>1 DEF Pending
<1> QED
  BY <1>2 DEF Ind, Early, Empty, HandshakeOnly

(* A handshake or a close is decoded: nothing is left behind it. *)
LEMMA LastDecoded ==
    ASSUME Ind, Pending = 1, frame[workerThread] \in Special,
           UNCHANGED <<page, sent, inbound, inQueue, frame, workerThread, handled>>,
           Pending' = 0
    PROVE  Empty' /\ InLine' /\ WhileOpen'
<1>1. Line(1, frame[workerThread], inQueue, inbound, Len(handled), Special)
  BY DEF Ind, InLine, LineOf
<1>2. inQueue \in Seq(Frames) /\ inbound \in Seq(Frames) /\ Len(handled) \in Nat
  BY Counts DEF Ind, TypeOK
<1>3. /\ inQueue = <<>> /\ inbound = <<>>
      /\ Line(0, frame[workerThread], inQueue, inbound, Len(handled), Special)
  BY <1>1, <1>2, SpecialLine, SocketAssumption
<1>4. page # "open"
  <2>1. frame[workerThread] \notin Messages
    BY SocketAssumption DEF Special, Messages, HandshakeFrame, ClosingFrame
  <2>2. ~Line(1, frame[workerThread], inQueue, inbound, Len(handled), {})
    BY <2>1 DEF Line, Fits
  <2> QED
    BY <2>2 DEF Ind, WhileOpen, LineOf
<1> QED
  BY <1>3, <1>4 DEF Empty, InLine, LineOf, WhileOpen

LEMMA HandshakeInd ==
    ASSUME Ind, TypeOK', NEW w \in Workers, Handshake(w)
    PROVE  Ind'
<1> USE DEF pageVars, keyVars, stateVars, workVars, poolVars
<1>1. /\ w = workerThread /\ w # None
      /\ \A v \in Workers : v # w => decoding'[v] = "idle" /\ iqueue[v] = 0
      /\ iqueue[w] = Len(inQueue) /\ decoding[w] = "decode" /\ decoding'[w] = "responded"
      /\ Pending = 1 /\ Pending' = 0 /\ Busy = 1 /\ Busy' = 1
  BY WorkerStep DEF Handshake
<1>2. /\ readystate = "NOT_YET_CONNECTED"
      /\ UNCHANGED <<page, sent, inbound, inQueue, buffers, iqueue, frame, workerThread,
                     handled, readystate, draft>>
  BY DEF Handshake, Step
<1>3. ~draft
  BY <1>1, <1>2 DEF Ind, Opening
<1>4. frame[workerThread] = HandshakeFrame /\ handled = <<>>
  BY <1>1, <1>3, HandshakeDecoded
<1>5. Empty' /\ InLine' /\ WhileOpen'
  BY <1>1, <1>2, <1>4, LastDecoded DEF Special
<1>6. OneWorker' /\ Kept' /\ MessagesInOrder'
  BY <1>1, <1>2 DEF Ind, OneWorker, Kept, MessagesInOrder
<1>7. Connecting' /\ Early' /\ Opening'
  BY <1>1, <1>2, <1>3, <1>4, <1>5 DEF Ind, Connecting, Early, Opening
<1> QED
  BY <1>5, <1>6, <1>7 DEF Ind

LEMMA FatalInd ==
    ASSUME Ind, TypeOK', NEW w \in Workers, Fatal(w)
    PROVE  Ind'
<1> USE DEF pageVars, keyVars, stateVars, workVars, poolVars, outVars
<1>1. /\ w = workerThread /\ w # None
      /\ \A v \in Workers : v # w => decoding'[v] = "idle" /\ iqueue[v] = 0
      /\ iqueue[w] = Len(inQueue) /\ decoding[w] = "decode" /\ decoding'[w] = "ended"
      /\ Pending = 1 /\ Pending' = 0 /\ Busy = 1 /\ Busy' = 0
  BY WorkerStep DEF Fatal
<1>2. /\ ~draft /\ buffers' = buffers + 1
      /\ UNCHANGED <<page, sent, inbound, inQueue, iqueue, frame, workerThread,
                     handled, readystate, draft, outQueue>>
  BY DEF Fatal, Step
<1>3. /\ frame[workerThread] = HandshakeFrame /\ handled = <<>> /\ outQueue = <<>>
      /\ page \notin {"open", "closing"}
  BY <1>1, <1>2, HandshakeDecoded
<1>4. Empty' /\ InLine' /\ WhileOpen'
  BY <1>1, <1>2, <1>3, LastDecoded DEF Special
<1>5. OneWorker' /\ MessagesInOrder'
  BY <1>1, <1>2 DEF Ind, OneWorker, MessagesInOrder
<1>6. Kept'
  BY <1>1, <1>2, Counts DEF Ind, Kept
<1>7. Connecting' /\ Early' /\ Opening'
  BY <1>1, <1>2, <1>3, <1>4 DEF Ind, Connecting, Early, Opening
<1> QED
  BY <1>4, <1>5, <1>6, <1>7 DEF Ind

LEMMA MessageInd ==
    ASSUME Ind, TypeOK', NEW w \in Workers, Message(w)
    PROVE  Ind'
<1> USE DEF pageVars, keyVars, stateVars, workVars, poolVars, outVars
<1>1. /\ w = workerThread /\ w # None
      /\ \A v \in Workers : v # w => decoding'[v] = "idle" /\ iqueue[v] = 0
      /\ iqueue[w] = Len(inQueue) /\ decoding'[w] = "done"
      /\ Pending = 1 /\ Pending' = 0 /\ Busy = 1 /\ Busy' = 1
  BY WorkerStep DEF Message
<1>2. /\ frame[w] \in Messages /\ handled' = Append(handled, frame[w])
      /\ draft /\ readystate # "NOT_YET_CONNECTED"
      /\ UNCHANGED <<page, sent, inbound, inQueue, buffers, iqueue, frame, workerThread,
                     readystate, draft, outQueue>>
  BY DEF Message, Step
<1>3. /\ inQueue \in Seq(Frames) /\ inbound \in Seq(Frames) /\ handled \in Seq(Messages)
      /\ Len(handled) \in Nat /\ Len(inQueue) \in Nat /\ Len(inbound) \in Nat
  BY Counts DEF Ind, TypeOK
<1>4. /\ Len(handled') = Len(handled) + 1
      /\ handled'[Len(handled) + 1] = frame[w]
      /\ \A i \in 1 .. Len(handled) : handled'[i] = handled[i]
      /\ DOMAIN handled = 1 .. Len(handled) /\ DOMAIN handled' = 1 .. Len(handled')
  BY <1>2, <1>3, AppendProperties, LenProperties
<1>5. ASSUME NEW S \in SUBSET Special, LineOf(S)
      PROVE  frame[w] = Len(handled) + 1 /\ LineOf(S)'
  <2>1. Line(1, frame[w], inQueue, inbound, Len(handled), S)
    BY <1>1, <1>5 DEF LineOf
  <2>2. frame[w] = Len(handled) + 1 /\ Line(0, frame[w], inQueue, inbound, Len(handled) + 1, S)
    BY <1>2, <1>3, <2>1, HandleLine, SocketAssumption
  <2> QED
    BY <1>1, <1>2, <1>4, <2>2 DEF LineOf
<1>6. InLine' /\ frame[w] = Len(handled) + 1
  BY <1>5 DEF Ind, InLine
<1>7. WhileOpen'
  <2>1. page = "open" => LineOf({})'
    BY <1>5 DEF Ind, WhileOpen
  <2> QED
    BY <1>1, <1>2, <1>3, <1>4, <2>1 DEF Ind, WhileOpen
<1>8. MessagesInOrder'
  <2>1. ASSUME NEW i \in DOMAIN handled' PROVE handled'[i] = i
    BY <1>3, <1>4, <1>6, <2>1 DEF Ind, MessagesInOrder
  <2> QED
    BY <2>1 DEF MessagesInOrder
<1>9. OneWorker' /\ Kept' /\ Early' /\ Opening'
  BY <1>1, <1>2 DEF Ind, OneWorker, Kept, Early, Opening
<1>10. Connecting'
  <2>1. frame[w] # HandshakeFrame
    BY <1>2, SocketAssumption DEF Messages, HandshakeFrame
  <2> QED
    BY <1>1, <1>2, <2>1 DEF Ind, Connecting, Empty, HandshakeOnly
<1> QED
  BY <1>6, <1>7, <1>8, <1>9, <1>10 DEF Ind

LEMMA CloseFrameInd ==
    ASSUME Ind, TypeOK', NEW w \in Workers, CloseFrame(w)
    PROVE  Ind'
<1> USE DEF pageVars, keyVars, stateVars, workVars, poolVars
<1>1. PICK to \in {"echo", "done"} : Step(w, "decode", to)
  BY DEF CloseFrame
<1>2. /\ frame[w] = ClosingFrame /\ draft /\ readystate # "NOT_YET_CONNECTED"
      /\ UNCHANGED <<page, sent, inbound, inQueue, buffers, iqueue, frame, workerThread,
                     readystate, draft, handled>>
  BY DEF CloseFrame, Step
<1>3. /\ w = workerThread /\ w # None
      /\ \A v \in Workers : v # w => decoding'[v] = "idle" /\ iqueue[v] = 0
      /\ iqueue[w] = Len(inQueue)
      /\ Pending = 1 /\ Pending' = 0 /\ Busy = 1 /\ Busy' = 1
  BY <1>1, <1>2, WorkerStep
<1>4. Empty' /\ InLine' /\ WhileOpen'
  BY <1>2, <1>3, LastDecoded DEF Special
<1>5. OneWorker' /\ Kept' /\ MessagesInOrder' /\ Early' /\ Opening'
  BY <1>2, <1>3 DEF Ind, OneWorker, Kept, MessagesInOrder, Early, Opening
<1>6. Connecting'
  BY <1>2, <1>4 DEF Ind, Connecting
<1> QED
  BY <1>4, <1>5, <1>6 DEF Ind

LEMMA WorkerInd ==
    ASSUME Ind, TypeOK', NEW w \in Workers, Worker(w)
    PROVE  Ind'
<1> USE DEF keyVars, stateVars, workVars, poolVars, outVars
<1>1. CASE Responded(w) \/ Open(w)
  <2>1. PICK from \in {"responded", "open"}, to \in {"open", "register"} :
          Step(w, from, to) /\ (Responded(w) => from = "responded" /\ to = "open")
                            /\ (Open(w) => from = "open" /\ to = "register")
    BY <1>1 DEF Responded, Open, Step
  <2>2. /\ UNCHANGED <<inQueue, buffers, workerThread, iqueue, frame, handled>>
        /\ outQueue = <<>> => outQueue' = <<>>
        /\ Responded(w) => draft'
        /\ Open(w) => draft' = draft /\ readystate' = "OPEN"
    BY <1>1 DEF Responded, Open, Demand
  <2>3. UNCHANGED <<page, sent, inbound>>
    BY <2>1 DEF Step, pageVars
  <2>4. /\ w = workerThread /\ w # None /\ decoding[w] = from /\ decoding'[w] = to
        /\ \A v \in Workers : v # w => decoding'[v] = "idle" /\ iqueue[v] = 0
        /\ iqueue[w] = Len(inQueue)
        /\ Pending' = Pending /\ Busy' = Busy
    BY <2>1, <2>2, WorkerStep
  <2>5. OneWorker' /\ Opening'
    BY <1>1, <2>1, <2>2, <2>4 DEF OneWorker, Opening
  <2>6. Early'
    BY <1>1, <2>1, <2>2, <2>3, <2>4 DEF Ind, Early, Empty, HandshakeOnly
  <2> QED
    BY <2>2, <2>3, <2>4, <2>5, <2>6, Quiet
<1>2. CASE Register(w) \/ Echoed(w) \/ FlushAndClose(w) \/ Flushed(w) \/ Closing(w)
  <2>1. PICK from \in {"register", "echo", "flush", "flushed", "closing"},
             to \in {"done", "flush", "flushed", "closing"} : Step(w, from, to)
    BY <1>2 DEF Register, Echoed, FlushAndClose, Flushed, Closing
  <2>2. /\ UNCHANGED <<inQueue, buffers, workerThread, iqueue, frame, handled, draft>>
        /\ outQueue = <<>> => outQueue' = <<>>
        /\ readystate' = readystate \/ readystate' # "NOT_YET_CONNECTED"
    BY <1>2 DEF Register, Echoed, FlushAndClose, Flushed, Closing, Demand
  <2> QED
    BY <2>1, <2>2, BetweenInd
<1> QED
  BY <1>1, <1>2, TakeInd, DoneInd, HandshakeInd, FatalInd, MessageInd, CloseFrameInd
     DEF Worker

-----------------------------------------------------------------------------
(* The invariant holds *)

LEMMA InitInd == Init => Ind
<1> SUFFICES ASSUME Init PROVE Ind
  OBVIOUS
<1>1. TypeOK
  BY InitTypes
<1>2. /\ Len(<<>>) = 0 /\ Len(<<HandshakeFrame>>) = 1
      /\ Pending = 0 /\ Busy = 0 /\ PoolSize \in Nat
  BY SocketAssumption DEF Init, Pending, Busy
<1>3. OneWorker /\ Kept
  BY <1>2 DEF Init, OneWorker, Kept
<1>4. InLine
  BY <1>2 DEF Init, InLine, LineOf, Line, Fits, Special
<1>5. WhileOpen /\ Connecting /\ Early /\ Opening /\ MessagesInOrder
  BY <1>2 DEF Init, WhileOpen, Connecting, Early, Opening, MessagesInOrder, HandshakeOnly
<1> QED
  BY <1>1, <1>3, <1>4, <1>5 DEF Ind

(* What the application got and what was written only grows. *)
LEMMA HandledGrows ==
    ASSUME TypeOK, Next
    PROVE  /\ handled # <<>> => handled' # <<>>
           /\ written # <<>> => written' # <<>>
<1> USE DEF pageVars, keyVars, workVars, poolVars, outVars
<1>1. handled \in Seq(Messages) /\ written \in Seq(Outgoing)
  BY DEF TypeOK
<1>2. \A m \in Messages : Append(handled, m) # <<>>
  BY <1>1, AppendProperties
<1>3. \A b \in Outgoing : Append(written, b) # <<>>
  BY <1>1, AppendProperties
<1>4. CASE PageSends \/ PageGone
  BY <1>4 DEF PageSends, PageGone
<1>5. CASE Selector
  BY <1>5 DEF Selector, Select, ReadFrame, ReadEnd, Write, Written, Interest, CloseChannel,
     RemoveConnection, Closed, SelectorEnds
<1>6. ASSUME NEW w \in Workers, Worker(w)
      PROVE  /\ handled # <<>> => handled' # <<>>
             /\ written # <<>> => written' # <<>>
  <2>1. CASE Message(w)
    BY <1>2, <2>1 DEF Message
  <2>2. CASE ~Message(w)
    <3>1. handled' = handled
      BY <1>6, <2>2 DEF Worker, Take, Done, Handshake, Responded, Open, Register, CloseFrame,
         Echoed, FlushAndClose, Flushed, Closing, Fatal
    <3>2. written' = written \/ \E b \in Outgoing : Put(b)
      BY <1>6, <2>2 DEF Worker, Take, Done, Handshake, Responded, Open, Register, CloseFrame,
         Echoed, FlushAndClose, Flushed, Closing, Fatal, Demand, Outgoing
    <3> QED
      BY <1>3, <3>1, <3>2 DEF Put
  <2> QED
    BY <2>1, <2>2
<1>7. ASSUME NEW s \in Senders, Sender(s)
      PROVE  /\ handled # <<>> => handled' # <<>>
             /\ written # <<>> => written' # <<>>
  <2>1. handled' = handled
    BY <1>7 DEF Sender, Send, SendFrame, SendDemand, SendStep
  <2>2. written' = written \/ \E b \in Outgoing : Put(b)
    BY <1>7 DEF Sender, Send, SendFrame, SendDemand, Demand, Outgoing
  <2> QED
    BY <1>3, <2>1, <2>2 DEF Put
<1> QED
  BY <1>4, <1>5, <1>6, <1>7 DEF Next

(* Only a sender's own step changes where it is. *)
LEMMA SendersStep ==
    ASSUME TypeOK, Next, NEW s \in Senders, sending'[s] # sending[s]
    PROVE  Sender(s)
<1>1. CASE PageSends \/ PageGone \/ Selector \/ \E w \in Workers : Worker(w)
  BY <1>1 DEF PageSends, PageGone, Selector, Select, ReadFrame, ReadEnd, Write, Written,
     Interest, CloseChannel, RemoveConnection, Closed, SelectorEnds, Worker, Take, Done,
     Handshake, Responded, Open, Register, Message, CloseFrame, Echoed, FlushAndClose,
     Flushed, Closing, Fatal, Step
<1>2. ASSUME NEW r \in Senders, Sender(r) PROVE r = s
  BY <1>2 DEF Sender, Send, SendFrame, SendDemand, SendStep, TypeOK
<1> QED
  BY <1>1, <1>2 DEF Next

LEMMA NextStarted ==
    ASSUME TypeOK, SendersStarted, Next
    PROVE  SendersStarted'
<1> SUFFICES ASSUME NEW s \in Senders, sending'[s] # "idle" PROVE handled' # <<>>
  BY DEF SendersStarted
<1>1. CASE sending'[s] = sending[s]
  BY <1>1, HandledGrows DEF SendersStarted
<1>2. CASE sending'[s] # sending[s]
  <2>1. Sender(s)
    BY <1>2, SendersStep
  <2>2. handled # <<>>
    BY <2>1 DEF Sender, Send, SendFrame, SendDemand, SendStep, SendersStarted
  <2> QED
    BY <2>2, HandledGrows
<1> QED
  BY <1>1, <1>2

LEMMA NextInd == SocketInd /\ [Next]_vars => SocketInd'
<1> SUFFICES ASSUME Ind, SendersStarted, [Next]_vars PROVE Ind' /\ SendersStarted'
  BY DEF SocketInd
<1>1. CASE UNCHANGED vars
  BY <1>1 DEF vars, pageVars, keyVars, stateVars, workVars, poolVars, outVars, Ind,
              TypeOK, OneWorker, Kept, InLine, LineOf, WhileOpen, Connecting, Early,
              Opening, MessagesInOrder, Empty, HandshakeOnly, Pending, Busy, SendersStarted
<1>2. ASSUME PageSends \/ PageGone PROVE Ind'
  BY <1>2, PageTypes, PageSendsInd, PageGoneInd DEF Ind
<1>3. ASSUME Selector PROVE Ind'
  BY <1>3, SelectorTypes, SelectorInd DEF Ind
<1>4. ASSUME NEW w \in Workers, Worker(w) PROVE Ind'
  BY <1>4, WorkerTypes, WorkerInd
<1>5. ASSUME NEW s \in Senders, Sender(s) PROVE Ind'
  BY <1>5, SenderTypes, SenderInd DEF Ind
<1>6. CASE Next
  <2>1. SendersStarted'
    BY <1>6, NextStarted DEF Ind
  <2> QED
    BY <1>2, <1>3, <1>4, <1>5, <1>6, <2>1 DEF Next
<1> QED
  BY <1>1, <1>6

LEMMA SpecInd == Spec => []SocketInd
<1>1. Init => SocketInd
  BY InitInd DEF SocketInd, SendersStarted, Init
<1> QED
  BY <1>1, NextInd, PTL DEF Spec

(* Every variable stays in its type: the workers never take from an empty  *)
(* queue, and the pool never gets a buffer twice.                          *)
THEOREM SocketTypes == Spec => []TypeOK
<1>1. SocketInd => TypeOK
  BY DEF SocketInd, Ind
<1> QED
  BY <1>1, SpecInd, PTL

(* The application gets the page's messages in the order they were sent,   *)
(* for any number of workers, buffers and messages.                        *)
THEOREM SocketOrder == Spec => []MessagesInOrder
<1>1. SocketInd => MessagesInOrder
  BY DEF SocketInd, Ind
<1> QED
  BY <1>1, SpecInd, PTL

-----------------------------------------------------------------------------
(* The page's answers.  What was put into outQueue is what the page has    *)
(* received and what is still queued, until the queue is cleared: and then *)
(* the channel is closed, and nothing more is written to it.               *)

Answering ==
    /\ AnswersInOrder
    /\ channel /\ ~Gone => written = received \o outQueue
    /\ selecting = "write" => channel
    /\ selecting \in {"read", "interest", "close"} => channel
    /\ selecting \in {"remove", "closed"} => ~channel

(* IsPrefix, one element at a time. *)
LEMMA PrefixByElements ==
    ASSUME NEW s \in Seq(Outgoing), NEW t \in Seq(Outgoing)
    PROVE  IsPrefix(s, t) <=> /\ Len(s) <= Len(t)
                              /\ \A i \in 1 .. Len(s) : s[i] = t[i]
<1>1. Len(s) \in Nat /\ Len(t) \in Nat
  OBVIOUS
<1>2. SubSeq(s, 1, Len(s)) = s
  OBVIOUS
<1>3. ASSUME Len(s) <= Len(t)
      PROVE  /\ SubSeq(t, 1, Len(s)) \in Seq(Outgoing)
             /\ Len(SubSeq(t, 1, Len(s))) = Len(s)
             /\ \A i \in 1 .. Len(s) : SubSeq(t, 1, Len(s))[i] = t[i]
  BY <1>1, <1>3
<1>4. ASSUME Len(s) <= Len(t), \A i \in 1 .. Len(s) : s[i] = t[i]
      PROVE  SubSeq(t, 1, Len(s)) = s
  BY <1>3, <1>4, SeqEqual
<1> QED
  BY <1>2, <1>3, <1>4 DEF IsPrefix

LEMMA PutAnswers ==
    ASSUME TypeOK, Answering, NEW b \in Outgoing, Put(b),
           UNCHANGED <<received, page, selecting>>
    PROVE  Answering'
<1>1. /\ written' = Append(written, b) /\ outQueue' = Append(outQueue, b)
      /\ received' = received /\ channel' = channel /\ page' = page
      /\ selecting' = selecting
  BY DEF Put, keyVars
<1>2. /\ received \in Seq(Outgoing) /\ written \in Seq(Outgoing)
      /\ outQueue \in Seq(Outgoing) /\ Append(written, b) \in Seq(Outgoing)
  BY DEF TypeOK
<1>3. IsPrefix(received, Append(written, b))
  <2>1. IsPrefix(received, written)
    BY DEF Answering, AnswersInOrder
  <2>2. /\ Len(received) <= Len(written)
        /\ \A i \in 1 .. Len(received) : received[i] = written[i]
    BY <1>2, <2>1, PrefixByElements
  <2>3. /\ Len(Append(written, b)) = Len(written) + 1
        /\ \A i \in 1 .. Len(written) : Append(written, b)[i] = written[i]
        /\ Len(written) \in Nat /\ Len(received) \in Nat
    BY <1>2, AppendProperties
  <2>4. /\ Len(received) <= Len(Append(written, b))
        /\ \A i \in 1 .. Len(received) : received[i] = Append(written, b)[i]
    BY <2>2, <2>3
  <2> QED
    BY <1>2, <2>4, PrefixByElements
<1>4. Append(received \o outQueue, b) = received \o Append(outQueue, b)
  <2>1. /\ received \o outQueue \in Seq(Outgoing) /\ <<b>> \in Seq(Outgoing)
    BY <1>2
  <2>2. Append(received \o outQueue, b) = (received \o outQueue) \o <<b>>
    BY <2>1, AppendIsConcat
  <2>3. Append(outQueue, b) = outQueue \o <<b>>
    BY <1>2, AppendIsConcat
  <2> QED
    <3> DEFINE e == <<b>>
    <3>1. e \in Seq(Outgoing)
      BY <2>1
    <3> HIDE DEF e
    <3>2. (received \o outQueue) \o e = received \o (outQueue \o e)
      BY <1>2, <3>1, ConcatAssociative
    <3> QED
      BY <2>2, <2>3, <3>2 DEF e
<1> QED
  BY <1>1, <1>3, <1>4 DEF Answering, AnswersInOrder, Gone

LEMMA DemandAnswers ==
    ASSUME Answering, Demand, UNCHANGED <<received, page, selecting>>
    PROVE  Answering'
  BY DEF Answering, AnswersInOrder, Gone, Demand

LEMMA WriteAnswers ==
    ASSUME TypeOK, Answering, Write PROVE Answering'
<1>1. /\ received \in Seq(Outgoing) /\ written \in Seq(Outgoing)
      /\ outQueue \in Seq(Outgoing) /\ outQueue # <<>>
      /\ selecting = "write" /\ channel /\ channel' = channel /\ written' = written
  BY DEF TypeOK, Write, Answering, keyVars
<1>2. CASE UNCHANGED <<outQueue, received, page>>
  BY <1>1, <1>2 DEF Answering, AnswersInOrder, Gone, Write
<1>3. CASE /\ outQueue' = Tail(outQueue) /\ UNCHANGED selecting
           /\ received' = IF Gone THEN received ELSE Append(received, Head(outQueue))
           /\ page' = IF page = "connecting" THEN "open" ELSE page
  <2>1. Gone' = Gone
    BY <1>3 DEF Gone
  <2>2. CASE Gone
    BY <1>1, <1>3, <2>1, <2>2 DEF Answering, AnswersInOrder
  <2>3. CASE ~Gone
    <3>1. /\ Head(outQueue) \in Outgoing /\ Tail(outQueue) \in Seq(Outgoing)
          /\ outQueue = <<Head(outQueue)>> \o Tail(outQueue)
          /\ <<Head(outQueue)>> \in Seq(Outgoing)
      BY <1>1, HeadTailProperties
    <3>2. /\ received' = received \o <<Head(outQueue)>>
          /\ received' \in Seq(Outgoing)
      BY <1>1, <1>3, <2>3, <3>1, AppendIsConcat
    <3>3. written = received' \o Tail(outQueue)
      BY <1>1, <2>3, <3>1, <3>2, ConcatAssociative DEF Answering
    <3>4. IsPrefix(received', written)
      <4> DEFINE r == received'
                 q == Tail(outQueue)
      <4>1. r \in Seq(Outgoing) /\ q \in Seq(Outgoing) /\ written = r \o q
        BY <3>1, <3>2, <3>3
      <4> HIDE DEF r, q
      <4>2. Len(r) <= Len(written) /\ \A i \in 1 .. Len(r) : r[i] = written[i]
        BY <4>1, ConcatProperties
      <4>3. IsPrefix(r, written)
        BY <1>1, <4>1, <4>2, PrefixByElements
      <4> QED
        BY <4>3 DEF r
    <3> QED
      BY <1>1, <1>3, <3>3, <3>4 DEF Answering, AnswersInOrder
  <2> QED
    BY <2>2, <2>3
<1> QED
  BY <1>2, <1>3 DEF Write

LEMMA SelectorAnswers ==
    ASSUME TypeOK, Answering, Selector PROVE Answering'
<1>1. CASE Write
  BY <1>1, WriteAnswers
<1>2. CASE Select \/ ReadFrame \/ ReadEnd \/ Written \/ Interest
  <2>1. UNCHANGED <<received, outQueue, written, channel, page>>
    BY <1>2 DEF Select, ReadFrame, ReadEnd, Written, Interest, pageVars, keyVars, outVars
  <2>2. CASE Select
    <3>1. selecting' \in {"read", "write"} => channel
      BY <2>2 DEF Select
    <3>2. selecting' \in {"read", "write", "select"}
      BY <2>2 DEF Select
    <3> QED
      BY <2>1, <3>1, <3>2 DEF Answering, AnswersInOrder, Gone
  <2>3. CASE ReadFrame \/ ReadEnd \/ Written \/ Interest
    BY <2>1, <2>3 DEF Answering, AnswersInOrder, Gone, ReadFrame, ReadEnd, Written,
                      Interest, AfterRead
  <2> QED
    BY <1>2, <2>2, <2>3
<1>3. CASE CloseChannel \/ RemoveConnection \/ Closed \/ SelectorEnds
  BY <1>3 DEF Answering, AnswersInOrder, Gone, CloseChannel, RemoveConnection, Closed,
              SelectorEnds, pageVars, keyVars, outVars
<1> QED
  BY <1>1, <1>2, <1>3 DEF Selector

LEMMA WorkerAnswers ==
    ASSUME TypeOK, Answering, NEW w \in Workers, Worker(w) PROVE Answering'
<1>1. UNCHANGED <<received, page, selecting>>
  BY DEF Worker, Step, pageVars, Take, Done, Handshake, Responded, Open, Register,
         Message, CloseFrame, Echoed, FlushAndClose, Flushed, Closing, Fatal
<1>2. CASE Put("response") \/ Put("close")
  BY <1>1, <1>2, PutAnswers DEF Outgoing
<1>3. CASE Demand
  BY <1>1, <1>3, DemandAnswers
<1>4. CASE UNCHANGED <<outVars, keyVars>>
  BY <1>1, <1>4 DEF Answering, AnswersInOrder, Gone, outVars, keyVars
<1> QED
  BY <1>2, <1>3, <1>4
     DEF Worker, Take, Done, Handshake, Responded, Open, Register, Message, CloseFrame,
         Echoed, FlushAndClose, Flushed, Closing, Fatal

LEMMA SenderAnswers ==
    ASSUME TypeOK, Answering, NEW s \in Senders, Sender(s)
    PROVE  Answering'
<1>1. UNCHANGED <<received, page, selecting>>
  BY DEF Sender, Send, SendFrame, SendDemand, SendStep, pageVars
<1>2. CASE Send(s)
  BY <1>1, <1>2 DEF Send, keyVars, outVars, Answering, AnswersInOrder, Gone
<1>3. CASE SendFrame(s) \/ SendDemand(s)
  BY <1>1, <1>3, PutAnswers, DemandAnswers DEF SendFrame, SendDemand, Outgoing
<1> QED
  BY <1>2, <1>3 DEF Sender

LEMMA NextAnswers == TypeOK /\ Answering /\ [Next]_vars => Answering'
<1> SUFFICES ASSUME TypeOK, Answering, [Next]_vars PROVE Answering'
  OBVIOUS
<1>1. CASE UNCHANGED vars
  BY <1>1 DEF vars, pageVars, keyVars, outVars, Answering, AnswersInOrder, Gone
<1>2. CASE PageSends \/ PageGone
  <2>1. UNCHANGED <<received, outQueue, written, channel, selecting>>
    BY <1>2 DEF PageSends, PageGone, keyVars, outVars
  <2>2. Gone => Gone'
    BY <1>2 DEF PageSends, PageGone, Gone
  <2> QED
    BY <2>1, <2>2 DEF Answering, AnswersInOrder
<1> QED
  BY <1>1, <1>2, SelectorAnswers, WorkerAnswers, SenderAnswers DEF Next

(* The page receives what was put into outQueue, in that order and with    *)
(* nothing left out in between, whatever threads put it there.             *)
THEOREM SocketAnswers == Spec => []AnswersInOrder
<1>1. Init => Answering
  <2>1. /\ <<>> \in Seq(Outgoing) /\ Len(<<>>) = 0 /\ <<>> \o <<>> = <<>>
    OBVIOUS
  <2>2. IsPrefix(<<>>, <<>>)
    BY <2>1 DEF IsPrefix
  <2> QED
    BY <2>1, <2>2 DEF Init, Answering, AnswersInOrder
<1>2. Answering => AnswersInOrder
  BY DEF Answering
<1> QED
  BY <1>1, <1>2, NextAnswers, SocketTypes, PTL DEF Spec

-----------------------------------------------------------------------------
(* The link.  A frame that is on its way, queued or decoded is one that    *)
(* the page has sent (Sourced).  A page that is open has got an answer,    *)
(* which is the response (Answered): the handshake is decoded once,        *)
(* because whoever has written a response keeps the worker until the state *)
(* has left NOT_YET_CONNECTED.                                             *)

Known == (0 .. sent) \cup {ClosingFrame}

Sourced ==
    /\ inbound \in Seq(Known) /\ inQueue \in Seq(Known)
    /\ frame \in [Workers -> Known]

Opened == workerThread # None /\ decoding[workerThread] \in {"responded", "open"}

Answered ==
    /\ page \in {"open", "closing"} => received # <<>>
    /\ written = <<>> => readystate # "OPEN" /\ ~Opened
    /\ written # <<>> /\ readystate = "NOT_YET_CONNECTED" => Opened

(* Whoever has found the connection open puts no first answer. *)
SendersAnswered == \A s \in Senders : sending[s] # "idle" => written # <<>>

LinkInd == Ind /\ SendersStarted /\ Answering /\ Sourced /\ Answered /\ SendersAnswered

LEMMA KnownGrows ==
    ASSUME TypeOK, TypeOK', Sourced, sent' = sent \/ sent' = sent + 1
    PROVE  /\ inbound \in Seq(Known') /\ inQueue \in Seq(Known')
           /\ frame \in [Workers -> Known'] /\ 0 \in Known'
<1>1. sent \in Nat /\ sent' \in Nat /\ sent' >= sent
  BY SocketAssumption DEF TypeOK
<1>2. Known \subseteq Known' /\ 0 \in Known'
  BY <1>1 DEF Known, ClosingFrame
<1> QED
  BY <1>2 DEF Sourced

LEMMA NextSourced ==
    ASSUME LinkInd, TypeOK', Next
    PROVE  Sourced'
<1> USE DEF pageVars, workVars, poolVars
<1>1. TypeOK /\ Sourced
  BY DEF LinkInd, Ind
<1>2. CASE PageSends \/ PageGone
  <2>1. (sent' = sent \/ sent' = sent + 1) /\ inQueue' = inQueue /\ frame' = frame
    BY <1>2 DEF PageSends, PageGone
  <2>2. /\ inbound \in Seq(Known') /\ inQueue' \in Seq(Known')
        /\ frame' \in [Workers -> Known']
    BY <1>1, <2>1, KnownGrows
  <2>3. /\ inbound' \in {inbound, <<>>} \/ inbound' = Append(inbound, sent')
        \/ inbound' = Append(inbound, ClosingFrame)
    BY <1>2 DEF PageSends, PageGone
  <2>4. sent' \in Known' /\ ClosingFrame \in Known'
    <3>1. sent' \in Nat
      BY SocketAssumption DEF TypeOK
    <3> QED
      BY <3>1 DEF Known, ClosingFrame
  <2>5. inbound' \in Seq(Known')
    <3> DEFINE K == Known'
    <3>1. inbound \in Seq(K) /\ sent' \in K /\ ClosingFrame \in K
      BY <2>2, <2>4
    <3> HIDE DEF K
    <3>2. /\ <<>> \in Seq(K) /\ Append(inbound, sent') \in Seq(K)
          /\ Append(inbound, ClosingFrame) \in Seq(K)
      BY <3>1, EmptySeq, AppendProperties
    <3>3. inbound' \in Seq(K)
      BY <2>3, <3>1, <3>2
    <3> QED
      BY <3>3 DEF K
  <2> QED
    BY <2>2, <2>5 DEF Sourced
<1>3. ASSUME sent' = sent,
             \/ UNCHANGED <<inbound, inQueue, frame>>
             \/ /\ inbound # <<>> /\ inQueue' = Append(inQueue, Head(inbound))
                /\ inbound' = Tail(inbound) /\ frame' = frame
             \/ \E w \in Workers :
                   /\ inQueue # <<>> /\ inQueue' = Tail(inQueue) /\ inbound' = inbound
                   /\ frame' = [frame EXCEPT ![w] = Head(inQueue)]
      PROVE  Sourced'
  <2> DEFINE K == Known
  <2>1. Known' = K
    BY <1>3 DEF Known, ClosingFrame
  <2>2. inbound \in Seq(K) /\ inQueue \in Seq(K) /\ frame \in [Workers -> K]
    BY <1>1 DEF Sourced
  <2> HIDE DEF K
  <2>3. inbound # <<>> => Head(inbound) \in K /\ Tail(inbound) \in Seq(K)
    BY <2>2, HeadTailProperties
  <2>4. inQueue # <<>> => Head(inQueue) \in K /\ Tail(inQueue) \in Seq(K)
    BY <2>2, HeadTailProperties
  <2>5. inbound # <<>> => Append(inQueue, Head(inbound)) \in Seq(K)
    BY <2>2, <2>3, AppendProperties
  <2>6. inbound' \in Seq(K) /\ inQueue' \in Seq(K)
    BY <1>3, <2>2, <2>3, <2>4, <2>5
  <2>7. frame' \in [Workers -> K]
    BY <1>3, <2>2, <2>4
  <2> QED
    BY <2>1, <2>6, <2>7 DEF Sourced
<1>4. CASE Selector
  BY <1>3, <1>4 DEF Selector, Select, ReadFrame, ReadEnd, Write, Written, Interest,
     CloseChannel, RemoveConnection, Closed, SelectorEnds
<1>5. ASSUME NEW w \in Workers, Take(w) PROVE Sourced'
  <2>1. inQueue # <<>>
    <3>1. w = workerThread /\ iqueue[w] = Len(inQueue) /\ iqueue[w] > 0
      BY <1>5, WorkerStep DEF LinkInd, Take
    <3> QED
      BY <3>1, Len(<<>>) = 0
  <2> QED
    BY <1>3, <1>5, <2>1 DEF Take, Step
<1>6. ASSUME NEW w \in Workers, Worker(w), ~Take(w) PROVE Sourced'
  BY <1>3, <1>6 DEF Worker, Step, Done, Handshake, Responded, Open, Register, Message,
     CloseFrame, Echoed, FlushAndClose, Flushed, Closing, Fatal
<1>7. ASSUME NEW s \in Senders, Sender(s) PROVE Sourced'
  BY <1>3, <1>7 DEF Sender, Send, SendFrame, SendDemand, SendStep
<1> QED
  BY <1>2, <1>4, <1>5, <1>6, <1>7 DEF Next, Worker

LEMMA PutIsSomething ==
    ASSUME TypeOK, NEW b \in Outgoing, Put(b)
    PROVE  written' # <<>> /\ written' = Append(written, b)
<1>1. written \in Seq(Outgoing) /\ written' = Append(written, b)
  BY DEF TypeOK, Put
<1>2. Len(written') = Len(written) + 1 /\ Len(written) \in Nat
  BY <1>1, AppendProperties
<1> QED
  BY <1>1, <1>2, Len(<<>>) = 0

LEMMA WorkerAnswered ==
    ASSUME LinkInd, NEW w \in Workers, Worker(w)
    PROVE  Answered'
<1> USE DEF stateVars, workVars
<1>1. TypeOK /\ Ind /\ Answered
  BY DEF LinkInd, Ind
<1>2. workerThread' = workerThread /\ UNCHANGED <<page, received>>
  BY DEF Worker, Take, Done, Handshake, Responded, Open, Register, Message, CloseFrame,
     Echoed, FlushAndClose, Flushed, Closing, Fatal, Step, pageVars
<1>3. CASE Handshake(w)
  <2>1. w = workerThread /\ w # None /\ decoding'[w] = "responded"
    BY <1>1, <1>2, <1>3, WorkerStep DEF Handshake
  <2>2. written' # <<>>
    BY <1>1, <1>3, PutIsSomething DEF Handshake, Outgoing
  <2> QED
    BY <1>1, <1>2, <2>1, <2>2 DEF Answered, Opened
<1>4. CASE Responded(w) \/ Open(w)
  <2>1. /\ w = workerThread /\ w # None
        /\ Responded(w) => decoding[w] = "responded" /\ decoding'[w] = "open"
        /\ Open(w) => decoding[w] = "open" /\ decoding'[w] = "register"
    BY <1>1, <1>2, <1>4, WorkerStep DEF Responded, Open
  <2>2. written' = written /\ written # <<>>
    BY <1>1, <1>4, <2>1 DEF Answered, Opened, Responded, Open, Demand, outVars
  <2>3. (Responded(w) => readystate' = readystate) /\ (Open(w) => readystate' = "OPEN")
    BY DEF Responded, Open
  <2> QED
    BY <1>1, <1>2, <1>4, <2>1, <2>2, <2>3 DEF Answered, Opened
<1>5. CASE /\ ~Handshake(w) /\ ~Responded(w) /\ ~Open(w)
  <2>1. PICK from, to :
          /\ Step(w, from, to)
          /\ from # "idle" \/ iqueue[w] > 0
          /\ from \notin {"responded", "open"} /\ to \notin {"responded", "open"}
    BY <1>5 DEF Worker, Take, Done, Register, Message, CloseFrame, Echoed, FlushAndClose,
       Flushed, Closing, Fatal
  <2>2. w = workerThread /\ decoding[w] = from /\ decoding'[w] = to
    BY <1>1, <1>2, <2>1, WorkerStep
  <2>3. ~Opened /\ ~Opened'
    BY <1>2, <2>1, <2>2 DEF Opened
  <2>4. \/ written' = written /\ readystate' = readystate
        \/ written' = written /\ readystate' = "CLOSING"
        \/ Put("close") /\ readystate = "OPEN" /\ readystate' = readystate
    BY <1>5 DEF Worker, Take, Done, Register, Message, CloseFrame, Echoed, FlushAndClose,
       Flushed, Closing, Fatal, Demand, outVars
  <2>5. Put("close") => written' # <<>>
    BY <1>1, PutIsSomething DEF Outgoing
  <2> QED
    BY <1>1, <1>2, <2>3, <2>4, <2>5 DEF Answered
<1> QED
  BY <1>3, <1>4, <1>5

LEMMA NextAnswered ==
    ASSUME LinkInd, Next
    PROVE  Answered'
<1> USE DEF stateVars, workVars
<1>1. TypeOK /\ Ind /\ Answered
  BY DEF LinkInd, Ind
<1>2. CASE PageSends \/ PageGone
  <2>1. /\ UNCHANGED <<received, written, readystate, workerThread, decoding>>
        /\ page' \in {"open", "closing"} => page = "open"
    BY <1>2 DEF PageSends, PageGone, outVars
  <2> QED
    BY <1>1, <2>1 DEF Answered, Opened
<1>3. CASE Write
  <2>1. UNCHANGED <<written, readystate, workerThread, decoding>>
    BY <1>3 DEF Write
  <2>2. page' \in {"open", "closing"} => received' # <<>>
    <3>1. CASE UNCHANGED <<received, page>>
      BY <1>1, <3>1 DEF Answered
    <3>2. CASE ~UNCHANGED <<received, page>>
      <4>1. /\ outQueue # <<>> /\ outQueue \in Seq(Outgoing) /\ received \in Seq(Outgoing)
            /\ received' = IF Gone THEN received ELSE Append(received, Head(outQueue))
            /\ page' = IF page = "connecting" THEN "open" ELSE page
        BY <1>1, <1>3, <3>2 DEF Write, TypeOK
      <4>2. Len(Append(received, Head(outQueue))) = Len(received) + 1 /\ Len(received) \in Nat
        BY <4>1, HeadTailProperties, AppendProperties
      <4>3. Append(received, Head(outQueue)) # <<>>
        BY <4>2, Len(<<>>) = 0
      <4> QED
        BY <4>1, <4>3 DEF Gone
    <3> QED
      BY <3>1, <3>2
  <2> QED
    BY <1>1, <2>1, <2>2 DEF Answered, Opened
<1>4. CASE ReadFrame
  <2>1. UNCHANGED <<page, received, written, readystate, decoding>>
    BY <1>4 DEF ReadFrame, outVars
  <2>2. PICK w \in Workers : workerThread \in {None, w} /\ workerThread' = w
    BY <1>4 DEF ReadFrame, Queue
  <2>3. workerThread = None => decoding[w] = "idle"
    BY <1>1, SocketAssumption DEF Ind, OneWorker
  <2>4. Opened' <=> Opened
    BY <2>1, <2>2, <2>3, SocketAssumption DEF Opened
  <2> QED
    BY <1>1, <2>1, <2>4 DEF Answered
<1>5. CASE \/ Select \/ ReadEnd \/ Written \/ Interest
           \/ CloseChannel \/ RemoveConnection \/ Closed \/ SelectorEnds
  <2>1. /\ UNCHANGED <<page, received, written, workerThread, decoding>>
        /\ readystate' = readystate \/ readystate' = "CLOSED"
    BY <1>5 DEF Select, ReadEnd, Written, Interest, CloseChannel, RemoveConnection,
       Closed, SelectorEnds, pageVars, outVars
  <2> QED
    BY <1>1, <2>1 DEF Answered, Opened
<1>6. ASSUME NEW s \in Senders, Sender(s) PROVE Answered'
  <2>1. UNCHANGED <<page, received, readystate, workerThread, decoding>>
    BY <1>6 DEF Sender, Send, SendFrame, SendDemand, SendStep, pageVars
  <2>2. written' = written \/ (written' # <<>> /\ written # <<>>)
    <3>1. CASE SendFrame(s)
      <4>1. written # <<>>
        BY <3>1 DEF SendFrame, SendStep, LinkInd, SendersAnswered
      <4>2. TypeOK /\ Put(s) /\ s \in Outgoing
        BY <1>1, <3>1 DEF SendFrame, Outgoing
      <4> QED
        BY <4>1, <4>2, PutIsSomething
    <3>2. CASE Send(s) \/ SendDemand(s)
      BY <3>2 DEF Send, SendDemand, Demand, outVars
    <3> QED
      BY <1>6, <3>1, <3>2 DEF Sender
  <2> QED
    BY <1>1, <2>1, <2>2 DEF Answered, Opened
<1> QED
  BY <1>2, <1>3, <1>4, <1>5, <1>6, WorkerAnswered DEF Next, Selector

LEMMA NextSendersAnswered ==
    ASSUME LinkInd, Next
    PROVE  SendersAnswered'
<1> SUFFICES ASSUME NEW s \in Senders, sending'[s] # "idle" PROVE written' # <<>>
  BY DEF SendersAnswered
<1>1. TypeOK /\ Answered /\ SendersAnswered
  BY DEF LinkInd, Ind
<1>2. CASE sending'[s] = sending[s]
  BY <1>1, <1>2, HandledGrows DEF SendersAnswered
<1>3. CASE sending'[s] # sending[s]
  <2>1. Sender(s)
    BY <1>1, <1>3, SendersStep
  <2>2. written # <<>>
    <3>1. CASE Send(s)
      BY <1>1, <3>1 DEF Send, Answered
    <3>2. CASE SendFrame(s) \/ SendDemand(s)
      BY <1>1, <3>2 DEF SendFrame, SendDemand, SendStep, SendersAnswered
    <3> QED
      BY <2>1, <3>1, <3>2 DEF Sender
  <2> QED
    BY <1>1, <2>2, HandledGrows
<1> QED
  BY <1>2, <1>3

(* The message that is handled is the next one, and the page has sent it. *)
LEMMA HandledIsNext ==
    ASSUME LinkInd, NEW w \in Workers, Message(w)
    PROVE  /\ handled' = Append(handled, Len(handled) + 1)
           /\ Len(handled) < sent
<1>1. /\ Ind /\ Sourced /\ frame[w] \in Messages /\ workerThread' = workerThread
      /\ handled' = Append(handled, frame[w])
  BY DEF LinkInd, Message, workVars
<1>2. w = workerThread /\ Pending = 1
  BY <1>1, WorkerStep DEF Message
<1>3. /\ inQueue \in Seq(Frames) /\ inbound \in Seq(Frames) /\ Len(handled) \in Nat
  BY <1>1, Counts DEF Ind, TypeOK
<1>4. frame[w] = Len(handled) + 1
  <2>1. Line(1, frame[w], inQueue, inbound, Len(handled), Special)
    BY <1>1, <1>2 DEF Ind, InLine, LineOf
  <2> QED
    BY <1>1, <1>3, <2>1, HandleLine, SocketAssumption
<1>5. frame[w] \in 0 .. sent /\ sent \in Nat
  <2>1. sent \in Nat /\ MaxMessages \in Nat
    BY <1>1, SocketAssumption DEF Ind, TypeOK
  <2>2. frame[w] \in Known /\ frame[w] # ClosingFrame
    BY <1>1, <2>1 DEF Sourced, Messages, ClosingFrame
  <2> QED
    BY <2>1, <2>2 DEF Known
<1> QED
  BY <1>1, <1>3, <1>4, <1>5

(* What is put into outQueue is the response exactly when it is the first. *)
LEMMA PutLink ==
    ASSUME TypeOK, NEW b \in Outgoing, Put(b), b = "response" <=> written = <<>>,
           Usable' = Usable, UNCHANGED <<sent, handled, received>>
    PROVE  Link!Write
<1>1. written' = Append(written, b)
  BY PutIsSomething
<1> QED
  BY <1>1 DEF Link!Write

LEMMA SameUsable ==
    ASSUME channel' = channel, page' = page PROVE Usable' = Usable
  BY DEF Usable, Gone

(* A connection whose channel closes, or whose page goes, hangs up once. *)
LEMMA DownLink ==
    ASSUME ~Usable', UNCHANGED <<sent, handled, written, received>>
    PROVE  [Link!Next]_(Link!vars)
<1>0. Usable \in BOOLEAN /\ Usable' \in BOOLEAN
  BY DEF Usable
<1>1. CASE Usable
  <2>1. Usable' = FALSE
    BY <1>0
  <2> QED
    BY <1>1, <2>1 DEF Link!HangUp, Link!Next
<1>2. CASE ~Usable
  <2>1. Usable' = Usable
    BY <1>0, <1>2
  <2> QED
    BY <2>1 DEF Link!vars
<1> QED
  BY <1>1, <1>2

LEMMA PageLink ==
    ASSUME LinkInd, PageSends \/ PageGone
    PROVE  [Link!Next]_(Link!vars)
<1>1. UNCHANGED <<channel, handled, written, received>>
  BY DEF PageSends, PageGone, keyVars, workVars, outVars
<1>2. CASE PageGone
  <2>1. ~Usable' /\ sent' = sent
    BY <1>2 DEF PageGone, Usable, Gone
  <2> QED
    BY <1>1, <2>1, DownLink
<1>3. CASE PageSends
  <2>1. Usable' = Usable /\ Usable /\ received # <<>>
    BY <1>1, <1>3 DEF PageSends, Usable, Gone, LinkInd, Answered
  <2>2. CASE sent' = sent
    BY <1>1, <2>1, <2>2 DEF Link!vars
  <2>3. CASE sent' = sent + 1
    BY <1>1, <2>1, <2>3 DEF Link!Send, Link!Next
  <2> QED
    BY <1>3, <2>2, <2>3 DEF PageSends
<1> QED
  BY <1>2, <1>3

(* What is written to the socket is the next answer. *)
LEMMA WriteLink ==
    ASSUME LinkInd, Write
    PROVE  [Link!Next]_(Link!vars)
<1>1. /\ UNCHANGED <<channel, sent, handled, written>>
      /\ received \in Seq(Outgoing) /\ outQueue \in Seq(Outgoing) /\ outQueue # <<>>
      /\ channel
  BY DEF Write, keyVars, workVars, LinkInd, Ind, TypeOK, Answering
<1>2. Usable' = Usable
  BY <1>1 DEF Write, Usable, Gone
<1>3. CASE received' = received
  BY <1>1, <1>2, <1>3 DEF Link!vars
<1>4. CASE received' # received
  <2>1. received' = Append(received, Head(outQueue)) /\ ~Gone
    BY <1>4 DEF Write
  <2>2. Usable /\ written = received \o outQueue
    BY <1>1, <2>1 DEF Usable, LinkInd, Answering
  <2>3. /\ Len(received) \in Nat /\ Len(outQueue) \in Nat /\ Len(outQueue) > 0
        /\ Head(outQueue) = outQueue[1]
    BY <1>1, EmptySeq, HeadTailProperties
  <2>4. /\ Len(written) = Len(received) + Len(outQueue)
        /\ written[Len(received) + 1] = outQueue[1]
    BY <1>1, <2>2, <2>3, ConcatProperties
  <2> QED
    BY <1>1, <1>2, <2>1, <2>2, <2>3, <2>4 DEF Link!Deliver, Link!Next
<1> QED
  BY <1>3, <1>4

LEMMA SelectorLink ==
    ASSUME LinkInd, Selector
    PROVE  [Link!Next]_(Link!vars)
<1>1. CASE CloseChannel
  BY <1>1, DownLink DEF CloseChannel, Usable, pageVars, workVars, outVars
<1>2. CASE \/ Select \/ ReadFrame \/ ReadEnd \/ Written \/ Interest
           \/ RemoveConnection \/ Closed \/ SelectorEnds
  <2>1. UNCHANGED <<channel, page, sent, handled, written, received>>
    BY <1>2 DEF Select, ReadFrame, ReadEnd, Written, Interest, RemoveConnection, Closed,
       SelectorEnds, pageVars, keyVars, workVars, outVars
  <2> QED
    BY <2>1, SameUsable DEF Link!vars
<1> QED
  BY <1>1, <1>2, WriteLink DEF Selector

LEMMA WorkerLink ==
    ASSUME LinkInd, NEW w \in Workers, Worker(w)
    PROVE  [Link!Next]_(Link!vars)
<1>1. TypeOK /\ Ind /\ Answered
  BY DEF LinkInd, Ind
<1>2. UNCHANGED <<page, sent, received, channel>>
  BY DEF Worker, Take, Done, Handshake, Responded, Open, Register, Message, CloseFrame,
     Echoed, FlushAndClose, Flushed, Closing, Fatal, Step, Put, Demand, pageVars, keyVars
<1>3. Usable' = Usable
  BY <1>2, SameUsable
<1>4. CASE Message(w)
  <2>1. written' = written
    BY <1>4 DEF Message, outVars
  <2> QED
    BY <1>2, <1>3, <1>4, <2>1, HandledIsNext DEF Link!Handle, Link!Next
<1>5. CASE Handshake(w)
  <2>1. /\ Put("response") /\ handled' = handled /\ "response" \in Outgoing
        /\ readystate = "NOT_YET_CONNECTED" /\ workerThread' = workerThread
    BY <1>5 DEF Handshake, Outgoing, workVars
  <2>2. w = workerThread /\ decoding[w] = "decode"
    BY <1>1, <1>5, <2>1, WorkerStep DEF Handshake
  <2>3. written = <<>>
    BY <1>1, <2>1, <2>2 DEF Answered, Opened
  <2> QED
    BY <1>1, <1>2, <1>3, <2>1, <2>3, PutLink DEF Link!Next
<1>6. CASE CloseFrame(w) /\ Put("close")
  <2>1. handled' = handled /\ "close" \in Outgoing
    BY <1>6 DEF CloseFrame, Outgoing, workVars
  <2>2. CASE readystate = "OPEN"
    <3>1. written # <<>> /\ "close" # "response"
      BY <1>1, <2>2 DEF Answered
    <3> QED
      BY <1>1, <1>2, <1>3, <1>6, <2>1, <3>1, PutLink DEF Link!Next
  <2>3. CASE readystate # "OPEN"
    <3>1. written' = written
      BY <1>6, <2>3 DEF CloseFrame, outVars
    <3> QED
      BY <1>2, <1>3, <2>1, <3>1 DEF Link!vars
  <2> QED
    BY <2>2, <2>3
<1>7. CASE ~Message(w) /\ ~Handshake(w) /\ ~(CloseFrame(w) /\ Put("close"))
  <2>1. handled' = handled /\ written' = written
    BY <1>7 DEF Worker, Take, Done, Responded, Open, Register, CloseFrame, Echoed,
       FlushAndClose, Flushed, Closing, Fatal, Demand, workVars, outVars
  <2> QED
    BY <1>2, <1>3, <2>1 DEF Link!vars
<1> QED
  BY <1>4, <1>5, <1>6, <1>7

LEMMA SenderLink ==
    ASSUME LinkInd, NEW s \in Senders, Sender(s)
    PROVE  [Link!Next]_(Link!vars)
<1>1. UNCHANGED <<page, sent, received, handled, channel>>
  BY DEF Sender, Send, SendFrame, SendDemand, SendStep, Put, Demand, pageVars, workVars,
     keyVars
<1>2. Usable' = Usable
  BY <1>1, SameUsable
<1>3. CASE Send(s) \/ SendDemand(s)
  BY <1>1, <1>2, <1>3 DEF Send, SendDemand, Demand, outVars, Link!vars
<1>4. CASE SendFrame(s)
  <2>1. TypeOK /\ Put(s) /\ s \in Outgoing /\ written # <<>> /\ s # "response"
    BY <1>4, SocketAssumption
       DEF SendFrame, SendStep, Outgoing, LinkInd, Ind, SendersAnswered
  <2> QED
    BY <1>1, <1>2, <2>1, PutLink DEF Link!Next
<1> QED
  BY <1>3, <1>4 DEF Sender

LEMMA LinkIndInit == Init => LinkInd /\ Link!Init
<1> SUFFICES ASSUME Init PROVE LinkInd /\ Link!Init
  OBVIOUS
<1>1. Ind
  BY InitInd
<1>2. Answering
  <2>1. /\ <<>> \in Seq(Outgoing) /\ Len(<<>>) = 0 /\ <<>> \o <<>> = <<>>
    OBVIOUS
  <2>2. IsPrefix(<<>>, <<>>)
    BY <2>1 DEF IsPrefix
  <2> QED
    BY <2>1, <2>2 DEF Init, Answering, AnswersInOrder
<1>3. Sourced
  <2>1. HandshakeFrame \in Known
    BY DEF Init, Known, HandshakeFrame
  <2> QED
    BY <2>1, EmptySeq DEF Init, Sourced
<1>4. Answered
  BY DEF Init, Answered, Opened
<1>5. Link!Init
  <2>1. Usable = TRUE
    BY DEF Init, Usable, Gone
  <2> QED
    BY <2>1 DEF Init, Link!Init
<1>6. SendersStarted /\ SendersAnswered
  BY DEF Init, SendersStarted, SendersAnswered
<1> QED
  BY <1>1, <1>2, <1>3, <1>4, <1>5, <1>6 DEF LinkInd

LEMMA LinkIndNext == LinkInd /\ [Next]_vars => LinkInd'
<1> SUFFICES ASSUME LinkInd, [Next]_vars PROVE LinkInd'
  OBVIOUS
<1>1. Ind' /\ SendersStarted' /\ TypeOK' /\ Answering'
  BY NextInd, NextAnswers DEF LinkInd, SocketInd, Ind
<1>2. CASE Next
  BY <1>1, <1>2, NextSourced, NextAnswered, NextSendersAnswered DEF LinkInd
<1>3. CASE UNCHANGED vars
  <2>1. Sourced' /\ Answered' /\ SendersAnswered'
    BY <1>3 DEF vars, pageVars, stateVars, workVars, poolVars, outVars, LinkInd, Sourced,
       Known, ClosingFrame, Answered, Opened, SendersAnswered
  <2> QED
    BY <1>1, <2>1 DEF LinkInd
<1> QED
  BY <1>2, <1>3

LEMMA LinkStep == LinkInd /\ [Next]_vars => [Link!Next]_(Link!vars)
<1> SUFFICES ASSUME LinkInd, [Next]_vars PROVE [Link!Next]_(Link!vars)
  OBVIOUS
<1>1. CASE UNCHANGED vars
  <2>1. UNCHANGED <<channel, page, sent, received, handled, written>>
    BY <1>1 DEF vars, pageVars, keyVars, workVars, outVars
  <2> QED
    BY <2>1, SameUsable DEF Link!vars
<1> QED
  BY <1>1, PageLink, SelectorLink, WorkerLink, SenderLink DEF Next

(* However the selector, the workers, the senders and the page interleave, *)
(* the connection is one that goes down once, gives the application what   *)
(* the page has sent, and gives the page what was written, the response    *)
(* first and only once.                                                    *)
THEOREM LinkImplemented == Spec => ImplementsLink
<1>1. Spec => []LinkInd
  BY LinkIndInit, LinkIndNext, PTL DEF Spec
<1> QED
  BY <1>1, LinkIndInit, LinkStep, PTL DEF Spec, ImplementsLink, Link!Spec
=============================================================================
