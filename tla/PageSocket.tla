----------------------------- MODULE PageSocket -----------------------------
(***************************************************************************)
(* The WebSocket of one page, in the library that SpherlyServer runs on    *)
(* (JavaWebSocket): WebSocketServer.java, WebSocketImpl.java and           *)
(* SocketChannelIOHelper.java.                                             *)
(*                                                                         *)
(* Three kinds of threads share the connection.  The selector reads the    *)
(* socket, writes outQueue to it and closes it; workers decode what was    *)
(* read; the application's threads send.  The page is a browser: one       *)
(* handshake, then messages, then maybe a close frame, and at any time the *)
(* end of its stream or a reset.  A buffer holds one frame.                *)
(***************************************************************************)
EXTENDS Naturals, Sequences, SequencesExt, FiniteSets

CONSTANTS
    Workers,        \* the decoder threads
    Senders,        \* threads of the application; each sends once
    PoolSize,       \* buffers made so far, one for each connection that was
                    \* accepted, at most 2 * decoders + 1
    MaxMessages,    \* the bound on messages of the page
    None            \* null

ASSUME SocketAssumption ==
    /\ IsFiniteSet(Workers) /\ None \notin Workers
    /\ PoolSize \in 1 .. 2 * Cardinality(Workers) + 1
    /\ MaxMessages \in Nat
    /\ "response" \notin Senders     \* what a thread sends is no handshake

VARIABLES
    page,           \* "connecting", "open", "closing", "eof" or "reset"
    sent,           \* messages the page has sent
    inbound,        \* frames on their way to the server
    received,       \* what the page has received
    selecting,      \* where the selector thread is
    readyOps,       \* the ready set of a key in selectedKeys(), or {}
    wakeup,         \* selector.wakeup() is in effect
    interestOps,    \* the interest set of the key
    channel,        \* the channel is open and the key not cancelled
    buffers,        \* buffers in the pool
    inQueue, outQueue, readystate, flushandclosestate, draft, workerThread,
    connected,      \* the server's connections hold this one
    iqueue,         \* how often the connection is in each worker's queue
    decoding,       \* where each worker is
    frame,          \* what it decodes
    sending,        \* where each sender is
    stopped,        \* the server was stopped
    handled,        \* history: the messages the application got
    written         \* history: all that was put into outQueue

pageVars == <<page, sent, inbound, received>>
keyVars == <<wakeup, interestOps, channel>>
stateVars == <<readystate, flushandclosestate, draft, connected>>
workVars == <<iqueue, workerThread, decoding, frame, stopped, handled>>
poolVars == <<buffers, inQueue>>
outVars == <<outQueue, written>>
vars == <<pageVars, selecting, readyOps, keyVars, stateVars, workVars, poolVars,
          outVars, sending>>

(* Frames of the page: its handshake, messages by their numbers, a close.  *)
HandshakeFrame == 0
ClosingFrame == MaxMessages + 1
Messages == 1 .. MaxMessages
Frames == 0 .. ClosingFrame
Outgoing == {"response", "close"} \cup Senders
Ops == {"read", "write"}
Gone == page \in {"eof", "reset"}

-----------------------------------------------------------------------------
(* The page *)

PageSends ==
    /\ page = "open" /\ channel
    /\ \/ /\ sent < MaxMessages
          /\ sent' = sent + 1
          /\ inbound' = Append(inbound, sent')
          /\ UNCHANGED page
       \/ /\ page' = "closing"
          /\ inbound' = Append(inbound, ClosingFrame)
          /\ UNCHANGED sent
    /\ UNCHANGED <<received, selecting, readyOps, keyVars, stateVars, workVars,
                   poolVars, outVars, sending>>

(* The page ends its stream, or the connection breaks and takes along what *)
(* was on its way.                                                         *)
PageGone ==
    /\ ~Gone
    /\ \/ page' = "eof" /\ UNCHANGED inbound
       \/ page' = "reset" /\ inbound' = <<>>
    /\ UNCHANGED <<sent, received, selecting, readyOps, keyVars, stateVars, workVars,
                   poolVars, outVars, sending>>

-----------------------------------------------------------------------------
(* write() and onWriteDemand(), by any thread.  If the key is cancelled    *)
(* the queue is cleared.                                                   *)

Put(b) ==
    /\ outQueue' = Append(outQueue, b)
    /\ written' = Append(written, b)
    /\ UNCHANGED keyVars

Demand ==
    /\ wakeup' = TRUE
    /\ interestOps' = IF channel THEN Ops ELSE interestOps
    /\ outQueue' = IF channel THEN outQueue ELSE <<>>
    /\ UNCHANGED <<channel, written>>

-----------------------------------------------------------------------------
(* The selector thread *)

(* select() blocks while nothing is ready.  It adds to the ready set of a  *)
(* key that was not removed from the selected ones.                        *)
Ready ==
    (IF inbound # <<>> \/ Gone THEN {"read"} ELSE {}) \cup ({"write"} \cap interestOps)

Select ==
    /\ selecting = "select" /\ ~stopped
    /\ wakeup \/ (channel /\ Ready # {})
    /\ wakeup' = FALSE
    /\ readyOps' = IF channel THEN readyOps \cup Ready ELSE {}
    /\ selecting' = IF "read" \in readyOps' THEN "read"
                    ELSE IF "write" \in readyOps' THEN "write" ELSE "select"
    /\ UNCHANGED <<pageVars, interestOps, channel, stateVars, workVars, poolVars, outVars,
                   sending>>

AfterRead == selecting' = IF "write" \in readyOps THEN "write" ELSE "select"

(* mutation: every buffer goes to any worker *)
QueueAny(w) ==
    /\ workerThread' = w
    /\ iqueue' = [iqueue EXCEPT ![w] = @ + 1]

(* All buffers go to the worker that is chosen for the first. *)
Queue(w) ==
    /\ workerThread \in {None, w}
    /\ workerThread' = w
    /\ iqueue' = [iqueue EXCEPT ![w] = @ + 1]

(* takeBuffer() blocks while the pool is empty.  Only a read that brought  *)
(* something removes the key from the selected ones, and while read is in  *)
(* its ready set there is something to read, or the end of the stream.     *)
ReadFrame ==
    /\ selecting = "read" /\ buffers > 0 /\ inbound # <<>>
    /\ buffers' = buffers - 1
    /\ inQueue' = Append(inQueue, Head(inbound))
    /\ inbound' = Tail(inbound)
    /\ \E w \in Workers : Queue(w)
    /\ readyOps' = {}
    /\ AfterRead
    /\ UNCHANGED <<page, sent, received, keyVars, stateVars, decoding, frame, stopped,
                   handled, outVars, sending>>

(* mutation: -1 is taken for nothing to read *)
ReadEndIgnored ==
    /\ selecting = "read" /\ buffers > 0 /\ inbound = <<>> /\ Gone
    /\ AfterRead
    /\ UNCHANGED <<pageVars, readyOps, keyVars, stateVars, workVars, poolVars, outVars,
                   sending>>

(* eot() and handleIOException both come to closeConnection. *)
ReadEnd ==
    /\ selecting = "read" /\ buffers > 0 /\ inbound = <<>> /\ Gone
    /\ selecting' = "close"
    /\ UNCHANGED <<pageVars, readyOps, keyVars, stateVars, workVars, poolVars, outVars,
                   sending>>

(* mutation: a buffer leaves outQueue when only a part of it was written *)
WritePolled ==
    /\ selecting = "write" /\ outQueue # <<>>
    /\ outQueue' = Tail(outQueue)
    /\ \/ /\ received' = IF Gone THEN received ELSE Append(received, Head(outQueue))
          /\ page' = IF page = "connecting" THEN "open" ELSE page
          /\ UNCHANGED selecting
       \/ selecting' = "select" /\ UNCHANGED <<received, page>>
    /\ UNCHANGED <<sent, inbound, readyOps, keyVars, stateVars, workVars, poolVars,
                   written, sending>>

(* batch(): the head of outQueue is written and removed, as long as the    *)
(* socket takes all of it.  When the page is gone it may throw.            *)
Write ==
    /\ selecting = "write" /\ outQueue # <<>>
    /\ \/ /\ received' = IF Gone THEN received ELSE Append(received, Head(outQueue))
          /\ page' = IF page = "connecting" THEN "open" ELSE page
          /\ outQueue' = Tail(outQueue)
          /\ UNCHANGED selecting
       \/ /\ selecting' \in {"select"} \cup (IF Gone THEN {"close"} ELSE {})
          /\ UNCHANGED <<outQueue, received, page>>
    /\ UNCHANGED <<sent, inbound, readyOps, keyVars, stateVars, workVars, poolVars,
                   written, sending>>

Written ==
    /\ selecting = "write" /\ outQueue = <<>>
    /\ selecting' = IF flushandclosestate THEN "close" ELSE "interest"
    /\ UNCHANGED <<pageVars, readyOps, keyVars, stateVars, workVars, poolVars, outVars,
                   sending>>

(* A demand that was made in between is overwritten. *)
Interest ==
    /\ selecting = "interest"
    /\ interestOps' = {"read"}
    /\ selecting' = "select"
    /\ UNCHANGED <<pageVars, readyOps, wakeup, channel, stateVars, workVars, poolVars,
                   outVars, sending>>

(* closeConnection, which excludes flushAndClose: first the key and the    *)
(* channel,                                                                *)
CloseChannel ==
    /\ selecting = "close" /\ \A w \in Workers : decoding[w] # "flushed"
    /\ channel' = FALSE
    /\ wakeup' = TRUE
    /\ selecting' = "remove"
    /\ UNCHANGED <<pageVars, readyOps, interestOps, stateVars, workVars, poolVars, outVars,
                   sending>>

(* then onClose if it was registered, *)
RemoveConnection ==
    /\ selecting = "remove"
    /\ connected' = FALSE
    /\ selecting' = "closed"
    /\ UNCHANGED <<pageVars, readyOps, keyVars, readystate, flushandclosestate, draft,
                   workVars, poolVars, outVars, sending>>

(* and then the state. *)
Closed ==
    /\ selecting = "closed"
    /\ readystate' = "CLOSED"
    /\ outQueue' = <<>>
    /\ selecting' = "select"
    /\ UNCHANGED <<pageVars, readyOps, keyVars, flushandclosestate, draft, connected,
                   workVars, poolVars, written, sending>>

(* stop() interrupts the thread. *)
SelectorEnds ==
    /\ stopped /\ selecting \in {"select", "read"}
    /\ selecting' = "ended"
    /\ UNCHANGED <<pageVars, readyOps, keyVars, stateVars, workVars, poolVars, outVars,
                   sending>>

Selector ==
    \/ Select \/ ReadFrame \/ ReadEnd \/ Write \/ Written \/ Interest
    \/ CloseChannel \/ RemoveConnection \/ Closed \/ SelectorEnds

-----------------------------------------------------------------------------
(* The workers *)

Step(w, from, to) ==
    /\ decoding[w] = from
    /\ decoding' = [decoding EXCEPT ![w] = to]
    /\ UNCHANGED <<pageVars, selecting, readyOps, sending>>

(* decode() looks at readystate once. *)
Take(w) ==
    /\ Step(w, "idle", "decode") /\ iqueue[w] > 0 /\ ~stopped
    /\ iqueue' = [iqueue EXCEPT ![w] = @ - 1]
    /\ inQueue' = Tail(inQueue)
    /\ frame' = [frame EXCEPT ![w] = Head(inQueue)]
    /\ UNCHANGED <<keyVars, stateVars, workerThread, stopped, handled, buffers, outVars>>

(* mutations: the buffer is returned to the pool twice, or not at all *)
DoneTwice(w) ==
    /\ Step(w, "done", "idle")
    /\ buffers' = buffers + 2
    /\ UNCHANGED <<keyVars, stateVars, iqueue, workerThread, frame, stopped, handled,
                   inQueue, outVars>>

DoneNot(w) ==
    /\ Step(w, "done", "idle")
    /\ UNCHANGED <<keyVars, stateVars, iqueue, workerThread, frame, stopped, handled,
                   poolVars, outVars>>

Done(w) ==
    /\ Step(w, "done", "idle")
    /\ buffers' = buffers + 1
    /\ UNCHANGED <<keyVars, stateVars, iqueue, workerThread, frame, stopped, handled,
                   inQueue, outVars>>

(* mutation: whatever comes when the connection is not open is taken for a *)
(* handshake                                                               *)
HandshakeUnlessOpen(w) ==
    /\ Step(w, "decode", "responded") /\ readystate # "OPEN"
    /\ Put("response")
    /\ UNCHANGED <<stateVars, iqueue, workerThread, frame, stopped, handled, poolVars>>

(* decodeHandshake: the response is written, and then the connection is    *)
(* opened and registered.  onOpen is with the registration.                *)
Handshake(w) ==
    /\ Step(w, "decode", "responded") /\ readystate = "NOT_YET_CONNECTED"
    /\ Put("response")
    /\ UNCHANGED <<stateVars, iqueue, workerThread, frame, stopped, handled, poolVars>>

Responded(w) ==
    /\ Step(w, "responded", "open")
    /\ Demand
    /\ draft' = TRUE
    /\ UNCHANGED <<readystate, flushandclosestate, connected, iqueue, workerThread, frame,
                   stopped, handled, poolVars>>

Open(w) ==
    /\ Step(w, "open", "register")
    /\ readystate' = "OPEN"
    /\ UNCHANGED <<keyVars, flushandclosestate, draft, connected, iqueue, workerThread,
                   frame, stopped, handled, poolVars, outVars>>

Register(w) ==
    /\ Step(w, "register", "done")
    /\ connected' = TRUE
    /\ UNCHANGED <<keyVars, readystate, flushandclosestate, draft, iqueue, workerThread,
                   frame, stopped, handled, poolVars, outVars>>

(* decodeFrames: a message is handled in any state. *)
Message(w) ==
    /\ Step(w, "decode", "done") /\ readystate # "NOT_YET_CONNECTED" /\ draft
    /\ frame[w] \in Messages
    /\ handled' = Append(handled, frame[w])
    /\ UNCHANGED <<keyVars, stateVars, iqueue, workerThread, frame, stopped, poolVars,
                   outVars>>

(* The page's one close frame is echoed by close(), and the rest is left   *)
(* to the selector: flushAndClose only makes a demand.  A connection that  *)
(* is not open is closed by now.                                           *)
CloseFrame(w) ==
    /\ readystate # "NOT_YET_CONNECTED" /\ draft
    /\ frame[w] = ClosingFrame
    /\ \/ readystate = "OPEN" /\ Step(w, "decode", "echo") /\ Put("close")
       \/ /\ readystate # "OPEN" /\ Step(w, "decode", "done")
          /\ UNCHANGED <<outVars, keyVars>>
    /\ UNCHANGED <<stateVars, iqueue, workerThread, frame, stopped, handled, poolVars>>

Echoed(w) ==
    /\ Step(w, "echo", "flush")
    /\ Demand
    /\ UNCHANGED <<stateVars, iqueue, workerThread, frame, stopped, handled, poolVars>>

FlushAndClose(w) ==
    /\ Step(w, "flush", "flushed") /\ selecting \notin {"remove", "closed"}
    /\ flushandclosestate' = TRUE
    /\ UNCHANGED <<keyVars, readystate, draft, connected, iqueue, workerThread, frame,
                   stopped, handled, poolVars, outVars>>

Flushed(w) ==
    /\ Step(w, "flushed", "closing")
    /\ Demand
    /\ UNCHANGED <<stateVars, iqueue, workerThread, frame, stopped, handled, poolVars>>

Closing(w) ==
    /\ Step(w, "closing", "done")
    /\ readystate' = "CLOSING"
    /\ UNCHANGED <<keyVars, flushandclosestate, draft, connected, iqueue, workerThread,
                   frame, stopped, handled, poolVars, outVars>>

(* The connection was closed before its handshake was decoded: there is no *)
(* draft, the worker ends with an exception, and handleFatal stops the     *)
(* server.  With one page there is no connection to close.                 *)
Fatal(w) ==
    /\ Step(w, "decode", "ended") /\ readystate # "NOT_YET_CONNECTED" /\ ~draft
    /\ stopped' = TRUE
    /\ buffers' = buffers + 1
    /\ UNCHANGED <<keyVars, stateVars, iqueue, workerThread, frame, handled, inQueue,
                   outVars>>

Worker(w) ==
    \/ Take(w) \/ Done(w)
    \/ Handshake(w) \/ Responded(w) \/ Open(w) \/ Register(w)
    \/ Message(w) \/ CloseFrame(w) \/ Echoed(w) \/ FlushAndClose(w) \/ Flushed(w)
    \/ Closing(w) \/ Fatal(w)

-----------------------------------------------------------------------------
(* The application: after the first message its threads may send.  The     *)
(* state may have changed when the frame is put into the queue.            *)

SendStep(s, from, to) ==
    /\ sending[s] = from
    /\ sending' = [sending EXCEPT ![s] = to]
    /\ UNCHANGED <<pageVars, selecting, readyOps, stateVars, workVars, poolVars>>

Send(s) ==
    /\ SendStep(s, "idle", "frame") /\ handled # <<>> /\ readystate = "OPEN"
    /\ UNCHANGED <<keyVars, outVars>>

SendFrame(s) == SendStep(s, "frame", "demand") /\ Put(s)

SendDemand(s) == SendStep(s, "demand", "done") /\ Demand

Sender(s) == Send(s) \/ SendFrame(s) \/ SendDemand(s)

-----------------------------------------------------------------------------
(* The connection was accepted and the page has sent its handshake. *)
Init ==
    /\ page = "connecting" /\ sent = 0 /\ inbound = <<HandshakeFrame>> /\ received = <<>>
    /\ selecting = "select" /\ readyOps = {}
    /\ wakeup = FALSE /\ interestOps = {"read"} /\ channel = TRUE
    /\ readystate = "NOT_YET_CONNECTED" /\ flushandclosestate = FALSE
    /\ draft = FALSE /\ connected = FALSE
    /\ iqueue = [w \in Workers |-> 0] /\ workerThread = None
    /\ decoding = [w \in Workers |-> "idle"] /\ frame = [w \in Workers |-> HandshakeFrame]
    /\ stopped = FALSE /\ handled = <<>>
    /\ buffers = PoolSize /\ inQueue = <<>>
    /\ outQueue = <<>> /\ written = <<>>
    /\ sending = [s \in Senders |-> "idle"]

Next ==
    \/ PageSends \/ PageGone \/ Selector
    \/ \E w \in Workers : Worker(w)
    \/ \E s \in Senders : Sender(s)

Spec == Init /\ [][Next]_vars

(* The threads of the server run.  Nothing is assumed of the page. *)
Fairness ==
    /\ WF_vars(Selector)
    /\ \A w \in Workers : WF_vars(Worker(w))

FairSpec == Spec /\ Fairness

-----------------------------------------------------------------------------
(* Properties *)

(* Every variable stays in its type.  The pool never grows beyond what was *)
(* made for it.                                                            *)
TypeOK ==
    /\ page \in {"connecting", "open", "closing", "eof", "reset"}
    /\ sent \in 0 .. MaxMessages
    /\ inbound \in Seq(Frames) /\ inQueue \in Seq(Frames)
    /\ received \in Seq(Outgoing) /\ outQueue \in Seq(Outgoing) /\ written \in Seq(Outgoing)
    /\ selecting \in {"select", "read", "write", "interest", "close", "remove", "closed",
                      "ended"}
    /\ readyOps \in SUBSET Ops /\ interestOps \in SUBSET Ops
    /\ wakeup \in BOOLEAN /\ channel \in BOOLEAN
    /\ readystate \in {"NOT_YET_CONNECTED", "OPEN", "CLOSING", "CLOSED"}
    /\ flushandclosestate \in BOOLEAN /\ draft \in BOOLEAN /\ connected \in BOOLEAN
    /\ iqueue \in [Workers -> Nat] /\ workerThread \in Workers \cup {None}
    /\ decoding \in [Workers -> {"idle", "decode", "responded", "open", "register",
                                 "echo", "flush", "flushed", "closing", "done", "ended"}]
    /\ frame \in [Workers -> Frames]
    /\ stopped \in BOOLEAN
    /\ handled \in Seq(Messages)
    /\ buffers \in 0 .. PoolSize
    /\ sending \in [Senders -> {"idle", "frame", "demand", "done"}]

(* The application gets the page's messages in the order they were sent,   *)
(* none twice and none left out, however many workers there are.           *)
MessagesInOrder == \A i \in DOMAIN handled : handled[i] = i

(* The page receives what the server's threads put into outQueue, in that  *)
(* order, and nothing is left out in between.                              *)
AnswersInOrder == IsPrefix(received, written)

(* Both ends of the connection are open. *)
Usable == channel /\ ~Gone

Link == INSTANCE MessageLink
    WITH Answers <- Outgoing, Response <- "response", up <- Usable

(* The page and the application see two lines of messages on a connection  *)
(* that goes down once: every step of the selector, of a worker or of a    *)
(* sender is a step of MessageLink, or changes nothing of it.              *)
ImplementsLink == Link!Spec

(* What the page sends is handled as long as it stays, however few buffers *)
(* there are.  (What was on its way may be lost when a write fails.)       *)
AllHandled == \A n \in Messages : sent >= n ~> (n \in ToSet(handled) \/ Gone)

(* When the page is gone the server closes its end, whatever its threads   *)
(* are at, and also when the worker has stopped the server.                *)
GoneIsClosed == Gone ~> ~channel

(* WebSocketServer.java:56-57: connections holds "the list of active       *)
(* WebSocket connections", which "can be written to, or read from".  Once  *)
(* a connection is closed and nothing of it is being decoded, it is not    *)
(* among them, and the application was told.                               *)
ConnectedIsActive ==
    /\ ~channel /\ selecting \in {"select", "ended"}
    /\ \A w \in Workers : decoding[w] \in {"idle", "ended"} /\ iqueue[w] = 0
    => ~connected
=============================================================================
