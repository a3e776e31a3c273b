---------------------------- MODULE SpherlyServer ----------------------------
(***************************************************************************)
(* How the server connects to the robot and disconnects:                   *)
(* SpherlyWebSocketServer.java, the listener of Sphero.java and the one    *)
(* connection of bluecoveRFCOMM.java.                                      *)
(*                                                                         *)
(* onMessage runs on a worker thread and onClose on the selector's.  Every *)
(* connectToDevice starts a thread of its own, and every connection made   *)
(* starts a listener.  None of them takes a lock: they share the fields    *)
(* sp, spheros, webclientConnectedToSphero, connection and input_stream,   *)
(* and one step here reads or writes one of them between two others'.      *)
(*                                                                         *)
(* A Sphero object is modelled by whether there is one: its heading and    *)
(* packets are the subject of SpheroDevice.  One page is open at a time.   *)
(***************************************************************************)
EXTENDS Naturals, FiniteSets

CONSTANTS
    Threads,        \* connection threads (the bound on connect requests)
    MaxLinks,       \* the bound on links opened
    MaxSessions,    \* the bound on pages opened
    reconnectAttemptLimit,  \* 3
    None            \* null

ASSUME ServerAssumption ==
    /\ IsFiniteSet(Threads)
    /\ MaxLinks \in Nat /\ MaxSessions \in Nat /\ reconnectAttemptLimit \in Nat
    /\ None \notin 1..MaxLinks

Links == 1..MaxLinks

VARIABLES
    page,           \* what the page takes its session to be
    session,        \* the number of pages opened so far
    spheros,        \* spheros.get(0) is not null
    sp,             \* sp is not null
    webclientConnectedToSphero,
    connection,     \* the link that comm.connection names
    input_stream,   \* the link whose stream comm.input_stream is
    open,           \* links whose StreamConnection is open
    readable,       \* links whose input stream is open
    unclosed,       \* history: links of which a close threw an exception
    lost,           \* links that the radio has lost
    made,           \* the number of links opened so far
    pc,             \* connection threads: where they are,
    owner,          \*   and the page that asked
    listener,       \* the listener that each connection thread started
    stop,           \* the disconnect message and onClose: where they are
    overlapped,     \* history: a request came while a connection thread worked
    leftover,       \* history: a request to connect came when there still was a
                    \*   connection or a listener of an earlier one
    kept            \* history: the links that it found in connection

commVars == <<connection, input_stream, open, readable, unclosed, made>>
serverVars == <<spheros, sp, webclientConnectedToSphero>>
requestHistory == <<overlapped, leftover, kept>>
pageVars == <<page, session, owner, requestHistory>>
vars == <<commVars, serverVars, pageVars, lost, pc, listener, stop>>

PageStates == {"closed", "idle", "connecting", "connected"}
ThreadStates == {"new", "dial", "opening", "streams", "failed", "confirm", "mark",
                 "replyYes", "replyNo", "done"}
ListenerStates == {"none", "check", "read", "spin", "handler", "retry", "opening",
                   "streams", "done"}
StopStates == {"idle", "close", "null", "reset"}

Active(t) == pc[t] \notin {"new", "done"}
Listening(t) == listener[t].pc \notin {"none", "done"}
Online(t) == page # "closed" /\ owner[t] = session

Goto(t, s) == pc' = [pc EXCEPT ![t] = s]
ListenerGoto(t, s) == listener' = [listener EXCEPT ![t].pc = s]

-----------------------------------------------------------------------------
(* The page: it asks to connect when it takes itself not to be connected,  *)
(* and waits for the answer unless the user cancels.  A disconnect may     *)
(* come at any time from its power watchdog.                               *)

(* The thread that runs onClose is also the one that accepts a page.      *)
OnOpen ==
    /\ page = "closed" /\ stop["close"] = "idle"
    /\ session < MaxSessions
    /\ session' = session + 1
    /\ page' = "idle"
    /\ spheros' = TRUE
    /\ webclientConnectedToSphero' = FALSE
    /\ UNCHANGED <<commVars, sp, owner, requestHistory, lost, pc, listener, stop>>

(* onMessage looks the Sphero up before every command; a worker thread     *)
(* takes the page's messages one after the other.                          *)
OnMessage ==
    /\ page # "closed" /\ stop["disconnect"] = "idle"
    /\ sp' = spheros

Overlapping == overlapped' = (overlapped \/ \E t \in Threads : Active(t))

(* Nothing asks whether there is a connection already. *)
ConnectToDevice(t) ==
    /\ OnMessage
    /\ page = "idle" /\ pc[t] = "new" /\ spheros
    /\ page' = "connecting"
    /\ owner' = [owner EXCEPT ![t] = session]
    /\ Goto(t, "dial")
    /\ Overlapping
    /\ leftover' = (leftover \/ connection # None \/ \E u \in Threads : Listening(u))
    /\ kept' = kept \cup ({connection} \ {None})
    /\ UNCHANGED <<commVars, session, spheros, webclientConnectedToSphero,
                   lost, listener, stop>>

(* The thread is interrupted, which it never looks at. *)
CancelConnection ==
    /\ OnMessage
    /\ page = "connecting"
    /\ page' = "idle"
    /\ UNCHANGED <<commVars, session, spheros, webclientConnectedToSphero, owner,
                   requestHistory, lost, pc, listener, stop>>

(* Any other message is a matter of the Sphero object. *)
Command ==
    /\ OnMessage
    /\ UNCHANGED <<commVars, spheros, webclientConnectedToSphero, pageVars, lost, pc,
                   listener, stop>>

(* The robot sleeps; the server keeps the connection. *)
Sleep ==
    /\ OnMessage
    /\ page = "connected"
    /\ page' = "idle"
    /\ lost' = lost \cup ({connection} \cap open)
    /\ UNCHANGED <<commVars, session, spheros, webclientConnectedToSphero, owner,
                   requestHistory, pc, listener, stop>>

-----------------------------------------------------------------------------
(* Sphero.disconnect, from the message "disconnect" and from onClose *)

(* mutation: the flag is left to the end *)
BeginStopUnflagged(who) ==
    /\ stop' = [stop EXCEPT ![who] = "close"]
    /\ UNCHANGED webclientConnectedToSphero

BeginStop(who) ==
    /\ stop' = [stop EXCEPT ![who] = "close"]
    /\ webclientConnectedToSphero' = FALSE

Disconnect ==
    /\ OnMessage
    /\ page' = "idle"
    /\ Overlapping
    /\ IF spheros THEN BeginStop("disconnect")
                  ELSE UNCHANGED <<stop, webclientConnectedToSphero>>
    /\ UNCHANGED <<commVars, session, spheros, owner, leftover, kept, lost, pc, listener>>

(* With no Sphero, an exception ends onClose at once. *)
OnClose ==
    /\ page # "closed" /\ stop["close"] = "idle"
    /\ page' = "closed"
    /\ Overlapping
    /\ IF sp THEN BeginStop("close")
             ELSE UNCHANGED <<stop, webclientConnectedToSphero>>
    /\ UNCHANGED <<commVars, session, spheros, sp, owner, leftover, kept, lost, pc,
                   listener>>

(* mutations: the streams are left open; only the streams are closed *)
CloseStreamsOnly ==
    /\ readable' = readable \ {input_stream}
    /\ UNCHANGED <<open, unclosed>>
CloseLinkOnly ==
    /\ open' = open \ {connection}
    /\ UNCHANGED <<readable, unclosed>>

(* The connection, the output stream and the input stream are closed, in   *)
(* that order, and an exception skips what remains.                        *)
CloseLink ==
    \/ /\ open' = open \ {connection}
       /\ readable' = readable \ {input_stream}
       /\ UNCHANGED unclosed
    \/ /\ open' \in {open, open \ {connection}}
       /\ UNCHANGED readable
       /\ unclosed' = unclosed \cup {connection}

CommDisconnect(who) ==
    /\ stop[who] = "close"
    /\ stop' = [stop EXCEPT ![who] = "null"]
    /\ IF connection # None THEN CloseLink ELSE UNCHANGED <<open, readable, unclosed>>
    /\ UNCHANGED <<connection, input_stream, made, serverVars, pageVars, lost, pc, listener>>

CommDisconnected(who) ==
    /\ stop[who] = "null"
    /\ connection' = None
    /\ stop' = [stop EXCEPT ![who] = IF who = "close" THEN "reset" ELSE "idle"]
    /\ UNCHANGED <<input_stream, open, readable, unclosed, made, serverVars, pageVars,
                   lost, pc, listener>>

Closed ==
    /\ stop["close"] = "reset"
    /\ stop' = [stop EXCEPT !["close"] = "idle"]
    /\ sp' = FALSE /\ spheros' = FALSE
    /\ webclientConnectedToSphero' = FALSE
    /\ UNCHANGED <<commVars, pageVars, lost, pc, listener>>

-----------------------------------------------------------------------------
(* bluecoveRFCOMM.connect, by a connection thread or by a listener *)

OpenSucceeds ==
    /\ made < MaxLinks
    /\ made' = made + 1
    /\ open' = open \cup {made'}
    /\ connection' = made'
    /\ UNCHANGED <<input_stream, readable, unclosed>>

(* Whatever connection names by now is closed and forgotten, be it the     *)
(* link of another thread or of an earlier request.  Its streams stay, and *)
(* that this close fails is ignored.                                       *)
OpenFails ==
    /\ \/ open' = open \ {connection} /\ UNCHANGED unclosed
       \/ connection # None /\ unclosed' = unclosed \cup {connection} /\ UNCHANGED open
    /\ connection' = None
    /\ UNCHANGED <<input_stream, readable, made>>

StreamsOpen == connection \in open
TakeStreams ==
    /\ input_stream' = connection
    /\ readable' = readable \cup {connection}
    /\ UNCHANGED <<connection, open, unclosed, made>>

-----------------------------------------------------------------------------
(* The connection thread.  A null sp is an exception that ends it, without *)
(* an answer.                                                              *)

IfSphero(t, s) == Goto(t, IF sp THEN s ELSE "done")

(* SetUpNotificationHandlers, and sp.connect *)
Dial(t) ==
    /\ pc[t] = "dial" /\ IfSphero(t, "opening")
    /\ UNCHANGED <<commVars, serverVars, pageVars, lost, listener, stop>>

OpenReturns(t) ==
    /\ pc[t] = "opening"
    /\ \/ OpenSucceeds /\ Goto(t, "streams")
       \/ OpenFails /\ Goto(t, "failed")
    /\ UNCHANGED <<serverVars, pageVars, lost, listener, stop>>

(* The streams are those of whatever connection names by now, and          *)
(* startListening follows.                                                 *)
Streams(t) ==
    /\ pc[t] = "streams"
    /\ IF StreamsOpen THEN TakeStreams /\ Goto(t, "confirm") /\ ListenerGoto(t, "check")
                      ELSE OpenFails /\ Goto(t, "failed") /\ UNCHANGED listener
    /\ UNCHANGED <<serverVars, pageVars, lost, stop>>

(* setInactivityTimeout, and then the flag *)
Confirm(t) ==
    /\ pc[t] = "confirm" /\ IfSphero(t, "mark")
    /\ UNCHANGED <<commVars, serverVars, pageVars, lost, listener, stop>>

(* mutation: the thread of a failed connection ends without an answer *)
MarkSilently(t) ==
    /\ \/ pc[t] = "mark" /\ Goto(t, "replyYes") /\ webclientConnectedToSphero' = TRUE
       \/ pc[t] = "failed" /\ Goto(t, "done") /\ webclientConnectedToSphero' = FALSE
    /\ UNCHANGED <<commVars, spheros, sp, pageVars, lost, listener, stop>>

Mark(t) ==
    /\ \/ pc[t] = "mark" /\ Goto(t, "replyYes") /\ webclientConnectedToSphero' = TRUE
       \/ pc[t] = "failed" /\ Goto(t, "replyNo") /\ webclientConnectedToSphero' = FALSE
    /\ UNCHANGED <<commVars, spheros, sp, pageVars, lost, listener, stop>>

(* mutation: the answer goes to whatever page is open *)
ReplyAnyPage(t) ==
    /\ pc[t] \in {"replyYes", "replyNo"}
    /\ Goto(t, "done")
    /\ page' = IF page = "connecting"
               THEN IF pc[t] = "replyYes" THEN "connected" ELSE "idle"
               ELSE page
    /\ UNCHANGED <<commVars, serverVars, session, owner, requestHistory, lost,
                   listener, stop>>

(* The page that asked takes any answer while it waits for one. *)
Reply(t) ==
    /\ pc[t] \in {"replyYes", "replyNo"}
    /\ Goto(t, "done")
    /\ page' = IF Online(t) /\ page = "connecting"
               THEN IF pc[t] = "replyYes" THEN "connected" ELSE "idle"
               ELSE page
    /\ UNCHANGED <<commVars, serverVars, session, owner, requestHistory, lost,
                   listener, stop>>

-----------------------------------------------------------------------------
(* The listener *)

(* The loop goes on while there is a connection, and reads from whatever   *)
(* stream there is; at its end the error handler may be called.            *)
Check(t) ==
    /\ listener[t].pc = "check"
    /\ listener' = [listener EXCEPT
          ![t].pc = CASE connection # None -> "read"
                      [] connection = None /\ listener[t].error -> "handler"
                      [] OTHER -> "done",
          ![t].reading = IF connection # None THEN input_stream ELSE @]
    /\ UNCHANGED <<commVars, serverVars, pageVars, lost, pc, stop>>

Hears(link) == link \in readable \ lost

(* A packet clears the error, unless it is malformed.  A collision or the  *)
(* robot's power state is sent on to the page, which may take it for an    *)
(* answer; with no page, that is an exception.                             *)
Packet(t) ==
    /\ listener[t].pc = "read" /\ Hears(listener[t].reading)
    /\ \/ /\ \E e \in {FALSE, listener[t].error} :
                listener' = [listener EXCEPT ![t].pc = "check", ![t].error = e]
          /\ UNCHANGED page
       \/ /\ listener' = [listener EXCEPT ![t].pc = "check", ![t].error = ~Online(t)]
          /\ page' = IF Online(t) /\ page = "connecting" THEN "idle" ELSE page
    /\ UNCHANGED <<commVars, serverVars, session, owner, requestHistory, lost, pc,
                   stop>>

(* read() throws, and comm.read makes it null: the loop goes on.           *)
(* mutation: a null packet ends the loop                                   *)
ReadFailsBreaking(t) ==
    /\ listener[t].pc = "read" /\ ~Hears(listener[t].reading)
    /\ ListenerGoto(t, "done")
    /\ UNCHANGED <<commVars, serverVars, pageVars, lost, pc, stop>>

ReadFails(t) ==
    /\ listener[t].pc = "read" /\ ~Hears(listener[t].reading)
    /\ ListenerGoto(t, "check")
    /\ UNCHANGED <<commVars, serverVars, pageVars, lost, pc, stop>>

(* Or the stream is at its end, and comm.read tries again without end, on  *)
(* whatever input_stream is by then.                                       *)
EndOfStream(t) ==
    /\ listener[t].pc = "read" /\ listener[t].reading \in readable \cap lost
    /\ ListenerGoto(t, "spin")
    /\ UNCHANGED <<commVars, serverVars, pageVars, lost, pc, stop>>

SpinEnds(t) ==
    /\ listener[t].pc = "spin" /\ input_stream \notin readable \cap lost
    /\ ListenerGoto(t, "check")
    /\ UNCHANGED <<commVars, serverVars, pageVars, lost, pc, stop>>

(* The error handler goes on if there is no connection and the client has  *)
(* not asked for that: it warns the page, which may take the warning for   *)
(* an answer.                                                              *)
(* mutation: the handler does not ask what the client wants *)
ErrorHandlerAlways(t) ==
    /\ listener[t].pc = "handler"
    /\ ListenerGoto(t, IF connection = None /\ Online(t) THEN "retry" ELSE "done")
    /\ UNCHANGED <<commVars, serverVars, pageVars, lost, pc, stop>>

ErrorHandler(t) ==
    /\ listener[t].pc = "handler"
    /\ IF connection = None /\ webclientConnectedToSphero /\ Online(t)
       THEN /\ ListenerGoto(t, "retry")
            /\ page' = IF page = "connecting" THEN "idle" ELSE page
       ELSE ListenerGoto(t, "done") /\ UNCHANGED page
    /\ UNCHANGED <<commVars, serverVars, session, owner, requestHistory, lost, pc,
                   stop>>

(* mutation: the attempts are counted and not limited *)
RetryForever(t) ==
    /\ listener[t].pc = "retry"
    /\ IF sp /\ connection = None
       THEN listener' = [listener EXCEPT ![t].pc = "opening", ![t].attempts = @ + 1]
       ELSE ListenerGoto(t, "done")
    /\ UNCHANGED <<commVars, serverVars, pageVars, lost, pc, stop>>

Retry(t) ==
    /\ listener[t].pc = "retry"
    /\ IF sp /\ connection = None /\ listener[t].attempts < reconnectAttemptLimit
       THEN listener' = [listener EXCEPT ![t].pc = "opening", ![t].attempts = @ + 1]
       ELSE ListenerGoto(t, "done")
    /\ UNCHANGED <<commVars, serverVars, pageVars, lost, pc, stop>>

(* Sphero.reconnect; nothing listens to the new link. *)
Reconnect(t) ==
    /\ \/ /\ listener[t].pc = "opening"
          /\ \/ OpenSucceeds /\ ListenerGoto(t, "streams")
             \/ OpenFails /\ ListenerGoto(t, "retry")
       \/ /\ listener[t].pc = "streams"
          /\ IF StreamsOpen THEN TakeStreams ELSE OpenFails
          /\ ListenerGoto(t, "retry")
    /\ UNCHANGED <<serverVars, pageVars, lost, pc, stop>>

-----------------------------------------------------------------------------
(* The robot is switched off, asleep or out of range. *)
LinkLost ==
    /\ \E l \in open \ lost : lost' = lost \cup {l}
    /\ UNCHANGED <<commVars, serverVars, pageVars, pc, listener, stop>>

Init ==
    /\ page = "closed" /\ session = 0
    /\ spheros = TRUE /\ sp = TRUE /\ webclientConnectedToSphero = FALSE
    /\ connection = None /\ input_stream = None
    /\ open = {} /\ readable = {} /\ unclosed = {} /\ lost = {} /\ made = 0
    /\ pc = [t \in Threads |-> "new"]
    /\ owner = [t \in Threads |-> 0]
    /\ listener = [t \in Threads |->
                      [pc |-> "none", reading |-> None, error |-> TRUE, attempts |-> 0]]
    /\ stop = [who \in {"disconnect", "close"} |-> "idle"]
    /\ overlapped = FALSE /\ leftover = FALSE /\ kept = {}

Client ==
    \/ OnOpen \/ OnClose \/ Command \/ CancelConnection \/ Sleep \/ Disconnect
    \/ \E t \in Threads : ConnectToDevice(t)

StopStep(who) == CommDisconnect(who) \/ CommDisconnected(who) \/ (who = "close" /\ Closed)

ThreadStep(t) ==
    \/ Dial(t) \/ OpenReturns(t) \/ Streams(t) \/ Confirm(t) \/ Mark(t) \/ Reply(t)

ListenerStep(t) ==
    \/ Check(t) \/ ReadFails(t) \/ SpinEnds(t) \/ ErrorHandler(t) \/ Retry(t)
    \/ Reconnect(t)

Next ==
    \/ Client
    \/ \E who \in {"disconnect", "close"} : StopStep(who)
    \/ \E t \in Threads : ThreadStep(t) \/ ListenerStep(t) \/ Packet(t) \/ EndOfStream(t)
    \/ LinkLost

Spec == Init /\ [][Next]_vars

(* Threads are scheduled, and Connector.open returns in the end.  Nothing  *)
(* is assumed of the page, the user and the radio.                         *)
Fairness ==
    /\ \A who \in {"disconnect", "close"} : WF_vars(StopStep(who))
    /\ \A t \in Threads : WF_vars(ThreadStep(t)) /\ WF_vars(ListenerStep(t))

FairSpec == Spec /\ Fairness

-----------------------------------------------------------------------------
(* Properties.  Nothing orders the threads but the page, which waits for   *)
(* an answer before it asks again.  Sequential says that it has: no        *)
(* request came while a connection thread was at work.  It says nothing of *)
(* what an earlier request has left, such as the connection of a robot     *)
(* that was sent to sleep.                                                 *)
Sequential == ~overlapped

Untried == \A t \in Threads : listener[t].attempts = 0

(* Every variable stays in its set, and with it the number of attempts to  *)
(* reconnect in its limit.                                                 *)
TypeOK ==
    /\ page \in PageStates /\ session \in 0..MaxSessions
    /\ spheros \in BOOLEAN /\ sp \in BOOLEAN
    /\ webclientConnectedToSphero \in BOOLEAN
    /\ connection \in 1..made \cup {None} /\ input_stream \in 1..made \cup {None}
    /\ open \subseteq 1..made /\ readable \subseteq 1..made /\ unclosed \subseteq 1..made
    /\ lost \subseteq 1..made /\ kept \subseteq 1..made
    /\ made \in 0..MaxLinks
    /\ pc \in [Threads -> ThreadStates]
    /\ owner \in [Threads -> 0..MaxSessions]
    /\ listener \in [Threads -> [pc: ListenerStates, reading: Links \cup {None},
                                 error: BOOLEAN, attempts: 0..reconnectAttemptLimit]]
    /\ stop \in [{"disconnect", "close"} -> StopStates]
    /\ overlapped \in BOOLEAN /\ leftover \in BOOLEAN

(* While requests do not overlap and no listener tries to reconnect, a     *)
(* page that was told that it is connected has a connection that is open,  *)
(* the server knows that it is wanted, and a listener hears it; exactly    *)
(* one, as long as no request to connect found a connection or a listener  *)
(* of an earlier one, for it is given one more.                            *)
ConnectedMeansLinked ==
    page = "connected" /\ Sequential /\ Untried =>
        /\ webclientConnectedToSphero /\ connection \in open
        /\ \E t \in Threads : Listening(t)
        /\ ~leftover => Cardinality({t \in Threads : Listening(t)}) = 1

(* While requests do not overlap and no listener tries to reconnect, the   *)
(* server takes a connection to be wanted only if there is one, at every   *)
(* step of a disconnect: a listener cannot mistake that for an             *)
(* interruption.                                                           *)
WantedMeansLinked ==
    webclientConnectedToSphero /\ Sequential /\ Untried
        /\ (\A t \in Threads : ~Active(t))
    => connection # None

(* While requests do not overlap and none to connect finds a connection or *)
(* a listener of an earlier one, no listener connects again, whatever it   *)
(* heard last and whatever the client asked for.                           *)
NoUnwantedReconnect ==
    Sequential /\ ~leftover => \A t \in Threads : listener[t].pc # "opening"

(* While requests do not overlap and no listener tries to reconnect, every *)
(* link that is held, by its connection or by its stream, is the one that  *)
(* comm.connection names, and so will be closed, except those that a later *)
(* request to connect found there and those that could not be closed.      *)
LinksNamed ==
    Sequential /\ Untried => open \cup readable \subseteq {connection} \cup kept \cup unclosed

(* The link whose stream a listener reads: at the end of a stream comm.read *)
(* goes on with whatever input_stream is.                                  *)
ReadFrom(t) == IF listener[t].pc = "spin" THEN input_stream ELSE listener[t].reading

(* While requests do not overlap, every listener ends when the connection  *)
(* does, whether it is blocked in a read, at the end of a stream or        *)
(* between two packets, unless it reads a link that a later request to     *)
(* connect has replaced or that could not be closed.                       *)
ListenersEnd ==
    connection = None /\ Sequential
        ~> \/ connection # None \/ ~Sequential
           \/ \A t \in Threads :
                 Listening(t) => ReadFrom(t) \in kept \cup unclosed

(* The threads that work for the page that is open. *)
Requests == {t \in Threads : Active(t) /\ Online(t)}

Protocol == INSTANCE ConnectProtocol
    WITH Notes <- {}, requests <- Cardinality(Requests), inbox <- << >>

(* Each request of a page is answered at most once, and only to the page   *)
(* that made it, whatever other requests, pages and listeners did to the   *)
(* server's fields; and no page that asks to connect waits for ever.       *)
ImplementsProtocol == Protocol!FairSpec

(* SpherlyWebSocketServer.java:331: the server disconnected from the       *)
(* Sphero, but the web client has not requested it: try to reconnect.      *)
(* When the robot of a connected page is lost, a listener sooner or later  *)
(* gets that far, also if the page gives its session up first.             *)
LostLinkRetried ==
    page = "connected" /\ Sequential /\ ~leftover /\ connection \in lost
        ~> \E t \in Threads : listener[t].pc = "retry"
=============================================================================
