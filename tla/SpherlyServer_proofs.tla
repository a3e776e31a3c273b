------------------------ MODULE SpherlyServer_proofs ------------------------
(***************************************************************************)
(* Proofs about SpherlyServer, for any number of connection threads, links *)
(* and pages, and any limit on the attempts to reconnect.                  *)
(*                                                                         *)
(* What is left of earlier requests decides how much can be said.  While   *)
(* requests do not overlap, one connection thread is at work at a time and *)
(* no stop beside it (InTurn).  If no listener has tried to reconnect, only *)
(* that thread and the stops touch the connection, and each place of the   *)
(* thread fixes what connection, links and the client's flag are (Linked). *)
(* If no request to connect has found a connection or a listener, there is *)
(* one listener, which never gets as far as to try (OneListener).          *)
(***************************************************************************)
EXTENDS SpherlyServer, FiniteSetTheorems, TLAPS

Stops == {"disconnect", "close"}
Wanted == webclientConnectedToSphero = TRUE

AllIdle == \A who \in Stops : stop[who] = "idle"
NoListener == \A u \in Threads : ~Listening(u)

(* The history of requests is no more than its fields. *)
USE DEF requestHistory

(* A page that is open has no onClose under way. *)
PageOpen == page # "closed" => stop["close"] = "idle"

(* To reconnect is to have tried. *)
Tried == \A t \in Threads :
    listener[t].pc \in {"opening", "streams"} => listener[t].attempts # 0

(* One connection thread is at work at a time, and no stop beside it. *)
InTurn ==
    /\ \A t, u \in Threads : Active(t) /\ Active(u) => t = u
    /\ \A t \in Threads : Active(t) => AllIdle /\ page \notin {"closed", "connected"}

(* What connection and the flag are at each place of a thread. *)
PlacesLinked == \A t \in Threads :
    /\ pc[t] \in {"dial", "opening"} => connection \in kept \cup {None}
    /\ pc[t] \in {"streams", "confirm", "mark", "replyYes"} => connection \in open
    /\ pc[t] = "replyYes" => Wanted
    /\ pc[t] = "replyNo" => ~Wanted

(* What the flag says of the connection, at each step of a stop. *)
FlagLinked ==
    /\ page = "connected" => Wanted
    /\ Wanted /\ (\A t \in Threads : pc[t] # "failed") => connection \in open /\ AllIdle

(* A listener goes on as long as there is a connection. *)
Looping(t) == listener[t].pc \in {"check", "read", "spin"}

LinkHeard ==
    connection # None /\ (\A t \in Threads : pc[t] # "streams")
        => \E t \in Threads : Looping(t)

(* Who holds a link, and that a stop closes the one it names. *)
LinkNamed ==
    /\ open \cup readable \subseteq {connection} \cup kept \cup unclosed
    /\ connection \in readable => input_stream = connection
    /\ \A who \in Stops : stop[who] = "null" =>
          connection \notin open \cup readable \/ connection \in unclosed

Linked == PlacesLinked /\ FlagLinked /\ LinkHeard /\ LinkNamed

(* There is one listener at most, and none before the streams are open; it *)
(* gets to its error handler only without a connection, and no further.    *)
OneListener ==
    /\ \A t \in Threads :
          pc[t] \in {"dial", "opening", "streams", "failed", "replyNo"} => NoListener
    /\ \A t, u \in Threads : Listening(t) /\ Listening(u) => t = u
    /\ \A t \in Threads : listener[t].pc \notin {"retry", "opening", "streams"}
    /\ \A t \in Threads : listener[t].pc = "handler" => connection = None
    /\ Untried

Ind ==
    /\ TypeOK /\ PageOpen /\ Tried
    /\ Sequential => InTurn
    /\ Sequential /\ Untried => Linked
    /\ Sequential /\ ~leftover => OneListener

-----------------------------------------------------------------------------
(* Types *)

LEMMA Constants ==
    /\ IsFiniteSet(Threads) /\ MaxLinks \in Nat /\ MaxSessions \in Nat
    /\ reconnectAttemptLimit \in Nat /\ None \notin Links /\ Links = 1..MaxLinks
BY ServerAssumption DEF Links

(* What a place in the code leaves alone. *)
LEMMA GotoPc ==
    ASSUME TypeOK, NEW t \in Threads, NEW s \in ThreadStates, Goto(t, s)
    PROVE  /\ pc' \in [Threads -> ThreadStates]
           /\ pc'[t] = s /\ \A u \in Threads : u # t => pc'[u] = pc[u]
BY DEF TypeOK, Goto

Listeners == [pc: ListenerStates, reading: Links \cup {None},
              error: BOOLEAN, attempts: 0..reconnectAttemptLimit]

LEMMA ListenerPc ==
    ASSUME TypeOK, NEW t \in Threads, NEW s \in ListenerStates, ListenerGoto(t, s)
    PROVE  /\ listener' \in [Threads -> Listeners]
           /\ listener'[t].pc = s
           /\ \A u \in Threads : u # t => listener'[u] = listener[u]
BY DEF TypeOK, ListenerGoto, Listeners

LEMMA OpenTypes ==
    ASSUME TypeOK, OpenSucceeds \/ OpenFails
    PROVE  /\ made' \in 0..MaxLinks /\ open' \subseteq 1..made' /\ readable' \subseteq 1..made'
           /\ unclosed' \subseteq 1..made'
           /\ connection' \in 1..made' \cup {None} /\ input_stream' = input_stream
           /\ made <= made'
<1>1. CASE OpenSucceeds
  BY <1>1, Constants DEF TypeOK, OpenSucceeds
<1>2. CASE OpenFails
  <2>1. made' = made /\ connection' = None /\ input_stream' = input_stream
    BY <1>2 DEF OpenFails
  <2>2. open' \subseteq open /\ unclosed' \subseteq unclosed \cup (1..made)
    BY <1>2 DEF OpenFails, TypeOK
  <2> QED
    BY <1>2, <2>1, <2>2 DEF OpenFails, TypeOK
<1> QED
  BY <1>1, <1>2

LEMMA StreamTypes ==
    ASSUME TypeOK, StreamsOpen, TakeStreams
    PROVE  /\ made' = made /\ open' = open /\ unclosed' = unclosed
           /\ connection' = connection /\ input_stream' \in 1..made \cup {None}
           /\ readable' \subseteq 1..made
BY DEF TypeOK, StreamsOpen, TakeStreams

LEMMA LinksMade == TypeOK => 1..made \subseteq Links
BY Constants DEF TypeOK

LEMMA ClientTypes == TypeOK /\ Client => TypeOK'
<1> SUFFICES ASSUME TypeOK, Client PROVE TypeOK'
  OBVIOUS
<1> USE DEF TypeOK, commVars, serverVars, pageVars
<1>1. CASE OnOpen
  <2>1. session' \in 0..MaxSessions /\ page' \in PageStates
    BY <1>1, ServerAssumption DEF OnOpen, PageStates
  <2> QED
    BY <1>1, <2>1 DEF OnOpen
<1>2. CASE OnClose
  BY <1>2 DEF OnClose, BeginStop, Overlapping, PageStates, StopStates
<1>3. CASE Command
  BY <1>3 DEF Command, OnMessage
<1>4. CASE CancelConnection
  BY <1>4 DEF CancelConnection, OnMessage, PageStates
<1>5. CASE Sleep
  BY <1>5 DEF Sleep, OnMessage, PageStates
<1>6. CASE Disconnect
  BY <1>6 DEF Disconnect, OnMessage, BeginStop, Overlapping, PageStates, StopStates
<1>7. ASSUME NEW t \in Threads, ConnectToDevice(t) PROVE TypeOK'
  <2>1. pc' \in [Threads -> ThreadStates]
    BY <1>7 DEF ConnectToDevice, Goto, ThreadStates
  <2>2. kept' \subseteq 1..made /\ owner' \in [Threads -> 0..MaxSessions]
    BY <1>7 DEF ConnectToDevice
  <2> QED
    BY <1>7, <2>1, <2>2 DEF ConnectToDevice, OnMessage, Overlapping, PageStates
<1> QED
  BY <1>1, <1>2, <1>3, <1>4, <1>5, <1>6, <1>7 DEF Client

LEMMA StopTypes ==
    ASSUME TypeOK, NEW who \in Stops, StopStep(who)
    PROVE  TypeOK'
<1> USE DEF TypeOK, commVars, serverVars, pageVars, Stops, StopStates
<1>1. CASE CommDisconnect(who)
  BY <1>1 DEF CommDisconnect, CloseLink
<1>2. CASE CommDisconnected(who)
  BY <1>2 DEF CommDisconnected
<1>3. CASE Closed
  BY <1>3 DEF Closed
<1> QED
  BY <1>1, <1>2, <1>3 DEF StopStep

LEMMA ThreadTypes ==
    ASSUME TypeOK, NEW t \in Threads, ThreadStep(t)
    PROVE  TypeOK'
<1>g. ASSUME NEW s \in ThreadStates, Goto(t, s) PROVE pc' \in [Threads -> ThreadStates]
  BY <1>g, GotoPc
<1>s. {"opening", "streams", "failed", "confirm", "mark", "replyYes", "replyNo", "done"}
        \subseteq ThreadStates /\ "check" \in ListenerStates
  BY DEF ThreadStates, ListenerStates
<1>1. CASE Dial(t)
  BY <1>1, <1>g, <1>s DEF Dial, IfSphero, TypeOK, commVars, serverVars, pageVars
<1>2. CASE OpenReturns(t)
  <2>1. (OpenSucceeds \/ OpenFails) /\ pc' \in [Threads -> ThreadStates]
    BY <1>2, <1>g, <1>s DEF OpenReturns
  <2> QED
    BY <1>2, <2>1, OpenTypes, Constants DEF OpenReturns, TypeOK, serverVars, pageVars
<1>3. CASE Streams(t)
  <2>1. CASE StreamsOpen
    <3>1. TakeStreams /\ Goto(t, "confirm") /\ ListenerGoto(t, "check")
      BY <1>3, <2>1 DEF Streams
    <3>2. pc' \in [Threads -> ThreadStates] /\ listener' \in [Threads -> Listeners]
      BY <3>1, <1>g, <1>s, ListenerPc
    <3> QED
      BY <1>3, <2>1, <3>1, <3>2, StreamTypes
         DEF Streams, TypeOK, Listeners, serverVars, pageVars
  <2>2. CASE ~StreamsOpen
    <3>1. OpenFails /\ pc' \in [Threads -> ThreadStates] /\ listener' = listener
      BY <1>3, <2>2, <1>g, <1>s DEF Streams
    <3> QED
      BY <1>3, <3>1, OpenTypes, Constants DEF Streams, TypeOK, serverVars, pageVars
  <2> QED
    BY <2>1, <2>2
<1>4. CASE Confirm(t)
  BY <1>4, <1>g, <1>s DEF Confirm, IfSphero, TypeOK, commVars, serverVars, pageVars
<1>5. CASE Mark(t)
  BY <1>5, <1>g, <1>s DEF Mark, TypeOK, commVars, pageVars
<1>6. CASE Reply(t)
  <2>1. page' \in PageStates
    BY <1>6 DEF Reply, TypeOK, PageStates
  <2> QED
    BY <1>6, <2>1, <1>g, <1>s DEF Reply, TypeOK, commVars, serverVars
<1> QED
  BY <1>1, <1>2, <1>3, <1>4, <1>5, <1>6 DEF ThreadStep

LEMMA ListenerTypes ==
    ASSUME TypeOK, NEW t \in Threads,
           ListenerStep(t) \/ Packet(t) \/ EndOfStream(t)
    PROVE  TypeOK'
<1>g. ASSUME NEW s \in ListenerStates, ListenerGoto(t, s)
      PROVE  listener' \in [Threads -> Listeners]
  BY <1>g, ListenerPc
<1>s. {"check", "read", "spin", "handler", "retry", "opening", "streams", "done"}
        \subseteq ListenerStates
  BY DEF ListenerStates
<1>l. listener \in [Threads -> Listeners]
  BY DEF TypeOK, Listeners
<1>1. CASE Check(t)
  <2>1. PICK s \in {"read", "handler", "done"}, l \in Links \cup {None} :
            listener' = [listener EXCEPT ![t].pc = s, ![t].reading = l]
    <3>1. CASE connection # None
      BY <1>1, <3>1, LinksMade DEF Check, TypeOK
    <3>2. CASE connection = None
      <4>1. listener[t].reading \in Links \cup {None}
        BY <1>l DEF Listeners
      <4> QED
        BY <1>1, <3>2, <4>1 DEF Check
    <3> QED
      BY <3>1, <3>2
  <2>2. listener' \in [Threads -> Listeners]
    BY <1>l, <1>s, <2>1 DEF Listeners
  <2> QED
    BY <1>1, <2>2 DEF Check, TypeOK, Listeners, commVars, serverVars, pageVars
<1>2. CASE Packet(t)
  <2>1. PICK e \in BOOLEAN :
            listener' = [listener EXCEPT ![t].pc = "check", ![t].error = e]
    BY <1>2, <1>l DEF Packet, Listeners
  <2>2. listener' \in [Threads -> Listeners]
    BY <1>l, <1>s, <2>1 DEF Listeners
  <2>3. page' \in PageStates
    BY <1>2 DEF Packet, TypeOK, PageStates
  <2> QED
    BY <1>2, <2>2, <2>3 DEF Packet, TypeOK, Listeners, commVars, serverVars
<1>3. CASE ReadFails(t) \/ EndOfStream(t) \/ SpinEnds(t)
  BY <1>3, <1>g, <1>s DEF ReadFails, EndOfStream, SpinEnds, TypeOK, Listeners, commVars,
                          serverVars, pageVars
<1>4. CASE ErrorHandler(t)
  <2>1. page' \in PageStates
    BY <1>4 DEF ErrorHandler, TypeOK, PageStates
  <2> QED
    BY <1>4, <2>1, <1>g, <1>s DEF ErrorHandler, TypeOK, Listeners, commVars, serverVars
<1>5. CASE Retry(t)
  <2>1. listener' \in [Threads -> Listeners]
    <3>1. CASE listener[t].attempts < reconnectAttemptLimit /\ ~ListenerGoto(t, "done")
      <4>1. listener' = [listener EXCEPT ![t].pc = "opening", ![t].attempts = @ + 1]
        BY <1>5, <3>1 DEF Retry
      <4>2. listener[t].attempts + 1 \in 0..reconnectAttemptLimit
        BY <3>1, <1>l, Constants DEF Listeners
      <4> QED
        BY <1>l, <1>s, <4>1, <4>2 DEF Listeners
    <3>2. CASE ListenerGoto(t, "done")
      BY <3>2, <1>g, <1>s
    <3> QED
      BY <1>5, <3>1, <3>2 DEF Retry
  <2> QED
    BY <1>5, <2>1 DEF Retry, TypeOK, Listeners, commVars, serverVars, pageVars
<1>6. CASE Reconnect(t)
  <2>1. listener' \in [Threads -> Listeners]
    BY <1>6, <1>g, <1>s DEF Reconnect
  <2>2. CASE OpenSucceeds \/ OpenFails
    BY <1>6, <2>1, <2>2, OpenTypes, Constants
       DEF Reconnect, TypeOK, Listeners, serverVars, pageVars
  <2>3. CASE StreamsOpen /\ TakeStreams
    BY <1>6, <2>1, <2>3, StreamTypes DEF Reconnect, TypeOK, Listeners, serverVars, pageVars
  <2> QED
    BY <1>6, <2>2, <2>3 DEF Reconnect
<1> QED
  BY <1>1, <1>2, <1>3, <1>4, <1>5, <1>6 DEF ListenerStep

LEMMA TypeNext == TypeOK /\ [Next]_vars => TypeOK'
<1> SUFFICES ASSUME TypeOK, [Next]_vars PROVE TypeOK'
  OBVIOUS
<1>1. CASE Client
  BY <1>1, ClientTypes
<1>2. ASSUME NEW who \in {"disconnect", "close"}, StopStep(who) PROVE TypeOK'
  BY <1>2, StopTypes DEF Stops
<1>3. ASSUME NEW t \in Threads, ThreadStep(t) PROVE TypeOK'
  BY <1>3, ThreadTypes
<1>4. ASSUME NEW t \in Threads, ListenerStep(t) \/ Packet(t) \/ EndOfStream(t)
      PROVE  TypeOK'
  BY <1>4, ListenerTypes
<1>5. CASE LinkLost
  BY <1>5 DEF LinkLost, TypeOK, commVars, serverVars, pageVars
<1>6. CASE UNCHANGED vars
  BY <1>6 DEF vars, TypeOK, commVars, serverVars, pageVars
<1> QED
  BY <1>1, <1>2, <1>3, <1>4, <1>5, <1>6 DEF Next

LEMMA InitTypes == Init => TypeOK
<1> SUFFICES ASSUME Init PROVE TypeOK
  OBVIOUS
<1>1. /\ pc \in [Threads -> ThreadStates] /\ stop \in [{"disconnect", "close"} -> StopStates]
      /\ listener \in [Threads -> Listeners]
  BY Constants DEF Init, ThreadStates, StopStates, ListenerStates, Listeners
<1>2. /\ page \in PageStates /\ session \in 0..MaxSessions
      /\ owner \in [Threads -> 0..MaxSessions]
      /\ made = 0 /\ made \in 0..MaxLinks
  BY ServerAssumption DEF Init, PageStates
<1> QED
  BY <1>1, <1>2 DEF Init, TypeOK, Listeners

(* Every variable stays in its set, and a listener never attempts to       *)
(* reconnect more than reconnectAttemptLimit times.                        *)
THEOREM ServerTypes == Spec => []TypeOK
BY InitTypes, TypeNext, PTL DEF Spec

-----------------------------------------------------------------------------
(* The invariant, part by part *)

LEMMA PageOpenNext == Ind /\ [Next]_vars => PageOpen'
<1> SUFFICES ASSUME Ind, [Next]_vars PROVE PageOpen'
  OBVIOUS
<1> USE DEF PageOpen
<1>0. PageOpen /\ stop \in [{"disconnect", "close"} -> StopStates]
  BY DEF Ind, TypeOK
<1>1. CASE Client
  <2>1. CASE OnOpen \/ Command \/ CancelConnection \/ Sleep
    BY <1>0, <2>1 DEF OnOpen, Command, CancelConnection, Sleep, OnMessage, pageVars
  <2>2. CASE Disconnect
    BY <1>0, <2>2 DEF Disconnect, OnMessage, BeginStop
  <2>3. CASE OnClose
    BY <1>0, <2>3 DEF OnClose
  <2>4. ASSUME NEW t \in Threads, ConnectToDevice(t) PROVE PageOpen'
    BY <1>0, <2>4 DEF ConnectToDevice
  <2> QED
    BY <1>1, <2>1, <2>2, <2>3, <2>4 DEF Client
<1>2. ASSUME NEW who \in {"disconnect", "close"}, StopStep(who) PROVE PageOpen'
  BY <1>0, <1>2 DEF StopStep, CommDisconnect, CommDisconnected, Closed, pageVars
<1>3. ASSUME NEW t \in Threads, ThreadStep(t) PROVE PageOpen'
  BY <1>0, <1>3 DEF ThreadStep, Dial, OpenReturns, Streams, Confirm, Mark, Reply, pageVars, Online
<1>4. ASSUME NEW t \in Threads, ListenerStep(t) \/ Packet(t) \/ EndOfStream(t)
      PROVE  PageOpen'
  BY <1>0, <1>4 DEF ListenerStep, Check, ReadFails, SpinEnds, ErrorHandler, Retry, Reconnect,
        Packet, EndOfStream, pageVars, Online
<1>5. CASE LinkLost \/ UNCHANGED vars
  BY <1>0, <1>5 DEF LinkLost, vars, pageVars
<1> QED
  BY <1>1, <1>2, <1>3, <1>4, <1>5 DEF Next


(* To reconnect is to have tried, whatever else goes on. *)
LEMMA TriedNext == TypeOK /\ Tried /\ [Next]_vars => Tried'
<1> SUFFICES ASSUME TypeOK, Tried, [Next]_vars PROVE Tried'
  OBVIOUS
<1>0. listener \in [Threads -> Listeners]
  BY DEF TypeOK, Listeners
<1>1. CASE listener' = listener
  BY <1>1 DEF Tried
<1>2. ASSUME NEW t \in Threads, Streams(t) \/ Packet(t) \/ EndOfStream(t) \/ ListenerStep(t)
      PROVE  Tried'
  <2>1. /\ \A u \in Threads : u # t => listener'[u] = listener[u]
        /\ \/ listener'[t].pc \notin {"opening", "streams"}
           \/ /\ listener[t].pc = "opening" /\ listener'[t].pc = "streams"
              /\ listener'[t].attempts = listener[t].attempts
           \/ listener'[t].attempts = listener[t].attempts + 1
           \/ listener' = listener
    BY <1>0, <1>2 DEF Streams, Packet, EndOfStream, ListenerStep, Check, ReadFails, SpinEnds,
       ErrorHandler, Retry, Reconnect, ListenerGoto, Listeners
  <2>2. listener[t].attempts \in Nat
    BY <1>0, Constants DEF Listeners
  <2> QED
    BY <2>1, <2>2 DEF Tried
<1>3. CASE ~\E t \in Threads :
              Streams(t) \/ Packet(t) \/ EndOfStream(t) \/ ListenerStep(t)
  <2>1. CASE Client
    BY <1>1, <2>1 DEF Client, OnOpen, OnClose, Command, CancelConnection, Sleep, Disconnect,
       ConnectToDevice
  <2>2. CASE \E who \in {"disconnect", "close"} : StopStep(who)
    BY <1>1, <2>2 DEF StopStep, CommDisconnect, CommDisconnected, Closed
  <2>3. CASE \E t \in Threads : ThreadStep(t)
    BY <1>1, <1>3, <2>3 DEF ThreadStep, Dial, OpenReturns, Confirm, Mark, Reply
  <2>4. CASE LinkLost \/ UNCHANGED vars
    BY <1>1, <2>4 DEF LinkLost, vars
  <2> QED
    BY <1>3, <2>1, <2>2, <2>3, <2>4 DEF Next
<1> QED
  BY <1>2, <1>3

-----------------------------------------------------------------------------
(* Requests that do not overlap *)

LEMMA InTurnNext == Ind /\ [Next]_vars /\ Sequential' => InTurn'
<1> SUFFICES ASSUME Ind, [Next]_vars, ~overlapped' PROVE InTurn'
  BY DEF Sequential
<1>1. CASE Client
  <2>1. CASE OnOpen \/ Command \/ CancelConnection \/ Sleep
    <3>1. overlapped' = overlapped /\ stop' = stop /\ pc' = pc
      BY <2>1 DEF OnOpen, Command, CancelConnection, Sleep, OnMessage, pageVars
    <3>2. page = "closed" \/ page' = page \/ page' = "idle"
      BY <2>1 DEF OnOpen, Command, CancelConnection, Sleep, OnMessage, pageVars
    <3>3. InTurn
      BY <3>1 DEF Ind, Sequential
    <3> QED
      BY <3>1, <3>2, <3>3 DEF InTurn, Active, AllIdle
  <2>2. CASE Disconnect \/ OnClose
    BY <2>2 DEF Disconnect, OnClose, Overlapping, InTurn, Active
  <2>3. ASSUME NEW t \in Threads, ConnectToDevice(t) PROVE InTurn'
    <3>1. /\ page' = "connecting" /\ stop' = stop /\ \A u \in Threads : ~Active(u)
      BY <2>3 DEF ConnectToDevice, Overlapping
    <3>2. pc'[t] = "dial" /\ \A u \in Threads : u # t => pc'[u] = pc[u]
      BY <2>3, GotoPc DEF Ind, ConnectToDevice, ThreadStates
    <3>3. AllIdle
      BY <2>3 DEF Ind, PageOpen, ConnectToDevice, OnMessage, AllIdle, Stops
    <3> QED
      BY <3>1, <3>2, <3>3 DEF InTurn, Active, AllIdle
  <2> QED
    BY <1>1, <2>1, <2>2, <2>3 DEF Client
<1>2. ASSUME NEW who \in {"disconnect", "close"}, StopStep(who) PROVE InTurn'
  <2>1. InTurn /\ stop[who] # "idle" /\ pc' = pc
    BY <1>2 DEF Ind, Sequential, StopStep, CommDisconnect, CommDisconnected, Closed, pageVars
  <2>2. \A u \in Threads : ~Active(u)
    BY <2>1 DEF InTurn, AllIdle, Stops
  <2> QED
    BY <2>1, <2>2 DEF InTurn, Active
<1>3. ASSUME NEW t \in Threads, ThreadStep(t) PROVE InTurn'
  <2>1. /\ InTurn /\ Active(t) /\ stop' = stop
        /\ page' = page \/ Goto(t, "done")
    BY <1>3 DEF Ind, Sequential, ThreadStep, Dial, OpenReturns, Streams, Confirm, Mark, Reply,
       pageVars, Active
  <2>2. PICK s \in ThreadStates : Goto(t, s)
    BY <1>3 DEF ThreadStep, Dial, OpenReturns, Streams, Confirm, Mark, Reply, IfSphero,
       ThreadStates
  <2>3. pc'[t] = s /\ \A u \in Threads : u # t => pc'[u] = pc[u] /\ ~Active(u)
    BY <2>1, <2>2, GotoPc DEF Ind, InTurn
  <2>4. page' = page \/ pc'[t] = "done"
    BY <2>1, GotoPc DEF Ind, ThreadStates
  <2> QED
    BY <2>1, <2>3, <2>4 DEF InTurn, Active, AllIdle
<1>4. ASSUME NEW t \in Threads, ListenerStep(t) \/ Packet(t) \/ EndOfStream(t)
      PROVE  InTurn'
  <2>1. InTurn /\ stop' = stop /\ pc' = pc /\ page' \in {page, "idle"}
    BY <1>4 DEF Ind, Sequential, ListenerStep, Check, ReadFails, SpinEnds, ErrorHandler, Retry,
       Reconnect, Packet, EndOfStream, pageVars
  <2> QED
    BY <2>1 DEF InTurn, Active, AllIdle
<1>5. CASE LinkLost \/ UNCHANGED vars
  BY <1>5 DEF Ind, Sequential, LinkLost, vars, pageVars, InTurn, Active, AllIdle
<1> QED
  BY <1>1, <1>2, <1>3, <1>4, <1>5 DEF Next

(* History only grows. *)
LEMMA HistoryGrows ==
    ASSUME TypeOK, [Next]_vars
    PROVE  /\ overlapped => overlapped'
           /\ leftover => leftover'
           /\ Untried' => Untried
<1>0. listener \in [Threads -> Listeners]
  BY DEF TypeOK, Listeners
<1>1. CASE Client
  <2>1. listener' = listener
    BY <1>1 DEF Client, OnOpen, OnClose, Command, CancelConnection, Sleep, Disconnect,
       ConnectToDevice
  <2>2. overlapped => overlapped'
    BY <1>1 DEF Client, OnOpen, OnClose, Command, CancelConnection, Sleep, Disconnect,
       ConnectToDevice, Overlapping, pageVars
  <2>3. leftover => leftover'
    BY <1>1 DEF Client, OnOpen, OnClose, Command, CancelConnection, Sleep, Disconnect,
       ConnectToDevice, pageVars
  <2> QED
    BY <2>1, <2>2, <2>3 DEF Untried
<1>2. CASE \E who \in {"disconnect", "close"} : StopStep(who)
  BY <1>2 DEF StopStep, CommDisconnect, CommDisconnected, Closed, pageVars, Untried
<1>3. ASSUME NEW t \in Threads, ThreadStep(t) PROVE UNCHANGED requestHistory
  BY <1>3 DEF ThreadStep, Dial, OpenReturns, Streams, Confirm, Mark, Reply, pageVars
<1>4. ASSUME NEW t \in Threads, ThreadStep(t) PROVE Untried' => Untried
  <2>1. listener' = listener \/ ListenerGoto(t, "check")
    BY <1>4 DEF ThreadStep, Dial, OpenReturns, Streams, Confirm, Mark, Reply
  <2>2. \A u \in Threads : listener'[u].attempts = listener[u].attempts
    BY <1>0, <2>1 DEF ListenerGoto, Listeners
  <2> QED
    BY <2>2 DEF Untried
<1>5. ASSUME NEW t \in Threads, ListenerStep(t) \/ Packet(t) \/ EndOfStream(t)
      PROVE  UNCHANGED requestHistory
  BY <1>5 DEF ListenerStep, Check, ReadFails, SpinEnds, ErrorHandler, Retry, Reconnect, Packet,
     EndOfStream, pageVars
<1>6. ASSUME NEW t \in Threads, ListenerStep(t) \/ Packet(t) \/ EndOfStream(t)
      PROVE  Untried' => Untried
  <2>1. /\ \A u \in Threads : u # t => listener'[u] = listener[u]
        /\ listener'[t].attempts \in {listener[t].attempts, listener[t].attempts + 1}
    BY <1>0, <1>6 DEF ListenerStep, Check, ReadFails, SpinEnds, ErrorHandler, Retry, Reconnect,
       Packet, EndOfStream, ListenerGoto, Listeners
  <2>2. listener[t].attempts \in Nat
    BY <1>0, Constants DEF Listeners
  <2> QED
    BY <2>1, <2>2 DEF Untried
<1>7. CASE LinkLost \/ UNCHANGED vars
  BY <1>7 DEF LinkLost, vars, pageVars, Untried
<1> QED
  BY <1>1, <1>2, <1>3, <1>4, <1>5, <1>6, <1>7 DEF Next

-----------------------------------------------------------------------------
(* Linked, actor by actor.  Steady is where it starts from. *)

Steady == Ind /\ Sequential /\ Untried

LEMMA SteadyFacts ==
    ASSUME Steady
    PROVE  /\ TypeOK /\ PageOpen /\ InTurn /\ Linked
           /\ None \notin open \cup readable
           /\ \A t \in Threads : listener[t].pc \notin {"opening", "streams"}
<1>1. TypeOK /\ PageOpen /\ Tried /\ InTurn /\ Linked
  BY DEF Steady, Ind
<1>2. None \notin open \cup readable
  BY <1>1, LinksMade, Constants DEF TypeOK
<1> QED
  BY <1>1, <1>2 DEF Steady, Untried, Tried

(* The page opens, or asks for nothing that touches the connection. *)
LEMMA PageLinked ==
    ASSUME Steady, OnOpen \/ Command \/ CancelConnection \/ Sleep
    PROVE  Linked'
<1>1. UNCHANGED <<commVars, kept, pc, stop, listener>>
  BY DEF OnOpen, Command, CancelConnection, Sleep, pageVars
<1>2. \/ /\ page = "closed" /\ page' = "idle" /\ webclientConnectedToSphero' = FALSE
      \/ /\ page' \in {page, "idle"}
         /\ webclientConnectedToSphero' = webclientConnectedToSphero
  BY DEF OnOpen, Command, CancelConnection, Sleep, OnMessage, pageVars
<1>3. InTurn /\ Linked
  BY SteadyFacts
<1>4. PlacesLinked'
  <2>1. CASE webclientConnectedToSphero' = webclientConnectedToSphero
    BY <1>1, <1>3, <2>1 DEF Linked, PlacesLinked, Wanted, commVars
  <2>2. CASE page = "closed"
    <3>1. \A t \in Threads : pc[t] \in {"new", "done"}
      BY <1>3, <2>2 DEF InTurn, Active
    <3> QED
      BY <1>1, <3>1 DEF PlacesLinked
  <2> QED
    BY <1>2, <2>1, <2>2
<1>5. FlagLinked'
  BY <1>1, <1>2, <1>3 DEF Linked, FlagLinked, Wanted, AllIdle, commVars
<1>6. LinkHeard' /\ LinkNamed'
  BY <1>1, <1>3 DEF Linked, LinkHeard, LinkNamed, Looping, commVars
<1> QED
  BY <1>4, <1>5, <1>6 DEF Linked

(* A request to connect keeps what it finds. *)
LEMMA ConnectLinked ==
    ASSUME Steady, Sequential', NEW t \in Threads, ConnectToDevice(t)
    PROVE  Linked'
<1>1. /\ UNCHANGED <<commVars, stop, listener, webclientConnectedToSphero>>
      /\ page' = "connecting" /\ kept' = kept \cup ({connection} \ {None})
      /\ \A u \in Threads : ~Active(u)
  BY DEF ConnectToDevice, Overlapping, Sequential
<1>2. pc'[t] = "dial" /\ \A u \in Threads : u # t => pc'[u] = pc[u]
  BY SteadyFacts, GotoPc DEF ConnectToDevice, ThreadStates
<1>3. Linked /\ \A u \in Threads : pc[u] \in {"new", "done"}
  BY <1>1, SteadyFacts DEF Active
<1>4. \A u \in Threads : pc'[u] \in {"new", "done", "dial"}
  BY <1>2, <1>3
<1>5. PlacesLinked'
  <2>1. connection' \in kept' \cup {None}
    BY <1>1 DEF commVars
  <2> QED
    BY <1>4, <2>1 DEF PlacesLinked
<1>6. FlagLinked' /\ LinkHeard'
  BY <1>1, <1>3 DEF Linked, FlagLinked, LinkHeard, Looping, Wanted, AllIdle, commVars
<1>7. LinkNamed'
  BY <1>1, <1>3 DEF Linked, LinkNamed, commVars
<1> QED
  BY <1>5, <1>6, <1>7 DEF Linked

(* A stop begins when no connection thread is at work. *)
LEMMA BeginStopLinked ==
    ASSUME Steady, Sequential', Disconnect \/ OnClose
    PROVE  Linked'
<1>1. /\ UNCHANGED <<commVars, kept, pc, listener>> /\ page' # "connected"
      /\ \A u \in Threads : ~Active(u)
  BY DEF Disconnect, OnClose, Overlapping, Sequential
<1>2. Linked /\ TypeOK /\ \A u \in Threads : pc[u] \in {"new", "done"}
  BY <1>1, SteadyFacts DEF Active
<1>3. \/ stop' = stop /\ webclientConnectedToSphero' = webclientConnectedToSphero
      \/ /\ webclientConnectedToSphero' = FALSE
         /\ \E who \in Stops : stop[who] = "idle" /\ stop' = [stop EXCEPT ![who] = "close"]
  BY <1>2 DEF Disconnect, OnClose, OnMessage, BeginStop, Stops, TypeOK
<1>4. \A who \in Stops : stop'[who] = "null" <=> stop[who] = "null"
  BY <1>2, <1>3 DEF TypeOK, Stops
<1>5. PlacesLinked'
  BY <1>1, <1>2 DEF PlacesLinked
<1>6. FlagLinked' /\ LinkHeard'
  BY <1>1, <1>2, <1>3 DEF Linked, FlagLinked, LinkHeard, Looping, Wanted, AllIdle, commVars
<1>7. LinkNamed'
  BY <1>1, <1>2, <1>4 DEF Linked, LinkNamed, commVars
<1> QED
  BY <1>5, <1>6, <1>7 DEF Linked

(* While a stop is under way there is no connection thread, and the client *)
(* does not want the connection.  It closes the link that it forgets.      *)
LEMMA StopLinked ==
    ASSUME Steady, NEW who \in Stops, StopStep(who)
    PROVE  Linked'
<1>0. /\ stop \in [Stops -> StopStates] /\ InTurn /\ Linked
      /\ None \notin open \cup readable
  BY SteadyFacts DEF TypeOK, Stops
<1>1. /\ stop[who] # "idle" /\ UNCHANGED <<pc, listener, page, kept>>
  BY DEF StopStep, CommDisconnect, CommDisconnected, Closed, pageVars
<1>2. \A u \in Threads : pc[u] \in {"new", "done"}
  BY <1>0, <1>1 DEF InTurn, Active, AllIdle
<1>3. ~Wanted
  BY <1>0, <1>1, <1>2 DEF Linked, FlagLinked, AllIdle
<1>4. ~Wanted' /\ page' # "connected"
  BY <1>0, <1>1, <1>3 DEF StopStep, CommDisconnect, CommDisconnected, Closed, serverVars,
     Wanted, Linked, FlagLinked
<1>5. connection' \in {connection, None}
  BY DEF StopStep, CommDisconnect, CommDisconnected, Closed, commVars
<1>6. PlacesLinked'
  BY <1>1, <1>2 DEF PlacesLinked
<1>7. FlagLinked' /\ LinkHeard'
  BY <1>0, <1>1, <1>4, <1>5 DEF Linked, FlagLinked, LinkHeard, Looping
<1>8. CASE CommDisconnect(who)
  <2>1. /\ connection' = connection /\ input_stream' = input_stream
        /\ stop' = [stop EXCEPT ![who] = "null"]
    BY <1>8 DEF CommDisconnect
  <2>2. open' \subseteq open /\ readable' \subseteq readable /\ unclosed \subseteq unclosed'
    BY <1>8 DEF CommDisconnect, CloseLink
  <2>3. connection \notin open' \cup readable' \/ connection \in unclosed'
    <3>1. CASE connection = None
      BY <1>0, <1>8, <3>1 DEF CommDisconnect
    <3>2. CASE connection # None
      <4>1. CASE open' = open \ {connection} /\ readable' = readable \ {input_stream}
        BY <1>0, <4>1 DEF Linked, LinkNamed
      <4>2. CASE unclosed' = unclosed \cup {connection}
        BY <4>2
      <4> QED
        BY <1>8, <3>2, <4>1, <4>2 DEF CommDisconnect, CloseLink
    <3> QED
      BY <3>1, <3>2
  <2>4. LinkNamed'
    BY <1>0, <1>1, <2>1, <2>2, <2>3 DEF Linked, LinkNamed
  <2> QED
    BY <1>6, <1>7, <2>4 DEF Linked
<1>9. CASE CommDisconnected(who)
  <2>1. /\ connection' = None /\ stop[who] = "null"
        /\ UNCHANGED <<input_stream, open, readable, unclosed>>
    BY <1>9 DEF CommDisconnected
  <2>2. open \cup readable \subseteq kept \cup unclosed
    BY <1>0, <2>1 DEF Linked, LinkNamed
  <2>3. LinkNamed'
    BY <1>0, <1>1, <2>1, <2>2 DEF LinkNamed
  <2> QED
    BY <1>6, <1>7, <2>3 DEF Linked
<1>10. CASE Closed
  <2>1. /\ UNCHANGED commVars
        /\ stop["close"] = "reset" /\ stop' = [stop EXCEPT !["close"] = "idle"]
    BY <1>10 DEF Closed
  <2>2. \A w \in Stops : stop'[w] = "null" <=> stop[w] = "null"
    BY <1>0, <2>1 DEF Stops
  <2>3. LinkNamed'
    BY <1>0, <1>1, <2>1, <2>2 DEF Linked, LinkNamed, commVars
  <2> QED
    BY <1>6, <1>7, <2>3 DEF Linked
<1> QED
  BY <1>8, <1>9, <1>10 DEF StopStep

(* What holds at every place of the one connection thread. *)
LEMMA AtWork ==
    ASSUME Steady, NEW t \in Threads, Active(t)
    PROVE  /\ Linked /\ AllIdle /\ page \notin {"closed", "connected"} /\ TypeOK
           /\ None \notin open \cup readable
           /\ \A u \in Threads : u # t => pc[u] \in {"new", "done"}
BY SteadyFacts DEF InTurn, Active

(* A step of the connection thread to s, after which connection and the    *)
(* flag are as s wants them. *)
LEMMA StepPlaces ==
    ASSUME Steady, NEW t \in Threads, Active(t), NEW s \in ThreadStates, Goto(t, s),
           s \in {"dial", "opening"} => connection' \in kept' \cup {None},
           s \in {"streams", "confirm", "mark", "replyYes"} => connection' \in open',
           s = "replyYes" => Wanted',
           s = "replyNo" => ~Wanted'
    PROVE  /\ PlacesLinked'
           /\ pc'[t] = s /\ \A u \in Threads : u # t => pc'[u] \in {"new", "done"}
<1>1. pc'[t] = s /\ \A u \in Threads : u # t => pc'[u] \in {"new", "done"}
  BY AtWork, GotoPc
<1>2. \A u \in Threads : u = t \/ pc'[u] \in {"new", "done"}
  BY <1>1
<1>3. PlacesLinked'
  BY <1>1, <1>2 DEF PlacesLinked
<1> QED
  BY <1>1, <1>3

(* Steps that leave the connection alone. *)
LEMMA QuietStepLinked ==
    ASSUME Steady, NEW t \in Threads, Active(t), NEW s \in ThreadStates, Goto(t, s),
           UNCHANGED <<commVars, kept, stop, listener>>,
           pc[t] # "streams", s \notin {"streams", "failed", "dial", "new"},
           s = "opening" => pc[t] \in {"dial", "opening"},
           s \in {"confirm", "mark", "replyYes"} => connection \in open,
           s = "replyYes" => Wanted',
           s = "replyNo" => ~Wanted',
           Wanted' => connection \in open,
           page' = "connected" => Wanted'
    PROVE  Linked'
<1>1. /\ Linked /\ AllIdle /\ TypeOK
      /\ \A u \in Threads : u # t => pc[u] \in {"new", "done"}
  BY AtWork
<1>2. s = "opening" => connection' \in kept' \cup {None}
  BY <1>1 DEF Linked, PlacesLinked, commVars
<1>3. s \in {"confirm", "mark", "replyYes"} => connection' \in open'
  BY DEF commVars
<1>4. /\ PlacesLinked'
      /\ pc'[t] = s /\ \A u \in Threads : u # t => pc'[u] \in {"new", "done"}
  BY <1>2, <1>3, StepPlaces
<1>5. FlagLinked'
  BY <1>1 DEF FlagLinked, AllIdle, commVars
<1>6. \A u \in Threads : pc[u] # "streams"
  BY <1>1
<1>7. LinkHeard'
  BY <1>1, <1>6 DEF Linked, LinkHeard, Looping, commVars
<1>8. LinkNamed'
  BY <1>1 DEF Linked, LinkNamed, commVars
<1> QED
  BY <1>4, <1>5, <1>7, <1>8 DEF Linked

LEMMA ThreadLinked ==
    ASSUME Steady, NEW t \in Threads, ThreadStep(t)
    PROVE  Linked'
<1>1. Active(t) /\ UNCHANGED <<stop, kept>>
  BY DEF ThreadStep, Dial, OpenReturns, Streams, Confirm, Mark, Reply, pageVars, Active
<1>2. /\ Linked /\ AllIdle /\ page \notin {"closed", "connected"} /\ TypeOK
      /\ None \notin open \cup readable
      /\ \A u \in Threads : u # t => pc[u] \in {"new", "done"}
  BY <1>1, AtWork
<1>3. AllIdle'
  BY <1>1, <1>2 DEF AllIdle
<1>w. Wanted /\ pc[t] # "failed" => connection \in open
  BY <1>2 DEF Linked, FlagLinked
<1>s. {"opening", "streams", "failed", "confirm", "mark", "replyYes", "replyNo", "done"}
        \subseteq ThreadStates /\ "check" \in ListenerStates
  BY DEF ThreadStates, ListenerStates
<1>4. CASE Dial(t) \/ Confirm(t)
  <2>1. PICK s \in {"opening", "mark", "done"} : Goto(t, s)
    BY <1>4 DEF Dial, Confirm, IfSphero
  <2>2. /\ UNCHANGED <<commVars, listener, page, webclientConnectedToSphero>>
        /\ pc[t] \in {"dial", "confirm"}
    BY <1>4 DEF Dial, Confirm, serverVars, pageVars
  <2>3. pc'[t] = s
    BY <1>2, <1>s, <2>1, GotoPc
  <2>4. s = "opening" => pc[t] = "dial"
    BY <1>2, <1>4, <1>s, <2>3, GotoPc DEF Dial, Confirm, IfSphero
  <2>5. s = "mark" => pc[t] = "confirm"
    BY <1>2, <1>4, <1>s, <2>3, GotoPc DEF Dial, Confirm, IfSphero
  <2>6. s = "mark" => connection \in open
    BY <1>2, <2>5 DEF Linked, PlacesLinked
  <2>7. Wanted' => connection \in open
    BY <1>w, <2>2 DEF Wanted
  <2>8. page' = "connected" => Wanted'
    BY <1>2, <2>2
  <2>9. s \in ThreadStates
    BY <1>s
  <2> QED
    BY <1>1, <2>1, <2>2, <2>4, <2>6, <2>7, <2>8, <2>9, QuietStepLinked
<1>5. CASE OpenReturns(t)
  <2>1. /\ pc[t] = "opening" /\ UNCHANGED <<listener, page, webclientConnectedToSphero>>
        /\ \/ OpenSucceeds /\ Goto(t, "streams")
           \/ OpenFails /\ Goto(t, "failed")
    BY <1>5 DEF OpenReturns, serverVars, pageVars
  <2>2. connection \in kept \cup {None}
    BY <1>2, <2>1 DEF Linked, PlacesLinked
  <2>3. page' # "connected"
    BY <1>2, <2>1
  <2>4. CASE OpenSucceeds /\ Goto(t, "streams")
    <3>1. connection' = made + 1 /\ open' = open \cup {made + 1} /\ made + 1 \notin readable
      BY <1>2, <2>4, Constants DEF OpenSucceeds, TypeOK
    <3>2. PlacesLinked' /\ pc'[t] = "streams"
      BY <1>1, <1>s, <2>4, <3>1, StepPlaces
    <3>3. FlagLinked' /\ LinkHeard'
      BY <1>3, <2>3, <3>1, <3>2 DEF FlagLinked, LinkHeard
    <3>4. readable' = readable /\ unclosed' = unclosed
      BY <2>4 DEF OpenSucceeds
    <3>5. LinkNamed'
      BY <1>1, <1>2, <1>3, <2>2, <3>1, <3>4 DEF Linked, LinkNamed, AllIdle
    <3> QED
      BY <3>2, <3>3, <3>5 DEF Linked
  <2>5. CASE OpenFails /\ Goto(t, "failed")
    <3>1. /\ connection' = None /\ open' \subseteq open /\ readable' = readable
          /\ unclosed \subseteq unclosed'
      BY <2>5 DEF OpenFails
    <3>2. PlacesLinked' /\ pc'[t] = "failed"
      BY <1>1, <1>s, <2>5, StepPlaces
    <3>3. FlagLinked' /\ LinkHeard'
      BY <2>3, <3>1, <3>2 DEF FlagLinked, LinkHeard
    <3>4. LinkNamed'
      BY <1>1, <1>2, <1>3, <2>2, <3>1 DEF Linked, LinkNamed, AllIdle
    <3> QED
      BY <3>2, <3>3, <3>4 DEF Linked
  <2> QED
    BY <2>1, <2>4, <2>5
<1>6. CASE Streams(t)
  <2>1. pc[t] = "streams" /\ UNCHANGED <<page, webclientConnectedToSphero>>
    BY <1>6 DEF Streams, serverVars, pageVars
  <2>2. connection \in open
    BY <1>2, <2>1 DEF Linked, PlacesLinked
  <2>3. TakeStreams /\ Goto(t, "confirm") /\ ListenerGoto(t, "check")
    BY <1>6, <2>2 DEF Streams, StreamsOpen
  <2>4. /\ UNCHANGED <<connection, open, unclosed>> /\ input_stream' = connection
        /\ readable' = readable \cup {connection}
    BY <2>3 DEF TakeStreams
  <2>5. Looping(t)'
    BY <1>2, <1>s, <2>3, ListenerPc DEF Looping
  <2>6. PlacesLinked'
    BY <1>1, <1>s, <2>2, <2>3, <2>4, StepPlaces
  <2>7. FlagLinked' /\ LinkHeard'
    BY <1>2, <1>3, <2>1, <2>2, <2>4, <2>5 DEF FlagLinked, LinkHeard
  <2>8. LinkNamed'
    BY <1>1, <1>2, <1>3, <2>4 DEF Linked, LinkNamed, AllIdle
  <2> QED
    BY <2>6, <2>7, <2>8 DEF Linked
<1>7. CASE Mark(t)
  <2>1. /\ UNCHANGED <<commVars, listener, page>>
        /\ \/ pc[t] = "mark" /\ Goto(t, "replyYes") /\ Wanted'
           \/ pc[t] = "failed" /\ Goto(t, "replyNo") /\ ~Wanted'
    BY <1>7 DEF Mark, pageVars, Wanted
  <2>2. pc[t] = "mark" => connection \in open
    BY <1>2 DEF Linked, PlacesLinked
  <2>3. page' # "connected"
    BY <1>2, <2>1
  <2>4. CASE pc[t] = "mark" /\ Goto(t, "replyYes") /\ Wanted'
    BY <1>1, <1>s, <2>1, <2>2, <2>4, QuietStepLinked
  <2>5. CASE pc[t] = "failed" /\ Goto(t, "replyNo") /\ ~Wanted'
    BY <1>1, <1>s, <2>1, <2>3, <2>5, QuietStepLinked
  <2> QED
    BY <2>1, <2>4, <2>5
<1>8. CASE Reply(t)
  <2>1. /\ UNCHANGED <<commVars, listener, webclientConnectedToSphero>>
        /\ pc[t] \in {"replyYes", "replyNo"} /\ Goto(t, "done")
        /\ page' = "connected" => pc[t] = "replyYes"
    BY <1>2, <1>8 DEF Reply, serverVars
  <2>2. pc[t] = "replyYes" => Wanted
    BY <1>2 DEF Linked, PlacesLinked
  <2>3. Wanted' => connection \in open
    BY <1>w, <2>1 DEF Wanted
  <2>4. page' = "connected" => Wanted'
    BY <2>1, <2>2 DEF Wanted
  <2> QED
    BY <1>1, <1>s, <2>1, <2>3, <2>4, QuietStepLinked
<1> QED
  BY <1>4, <1>5, <1>6, <1>7, <1>8 DEF ThreadStep

(* A listener that does not reconnect leaves the connection alone, and     *)
(* does not end while there is one.                                        *)
LEMMA ListenerLinked ==
    ASSUME Steady, Untried', NEW t \in Threads,
           ListenerStep(t) \/ Packet(t) \/ EndOfStream(t)
    PROVE  Linked'
<1>1. /\ Linked /\ TypeOK /\ listener \in [Threads -> Listeners]
      /\ listener[t].pc \notin {"opening", "streams"}
  BY SteadyFacts DEF TypeOK, Listeners
<1>s. {"check", "spin", "done", "retry"} \subseteq ListenerStates
  BY DEF ListenerStates
<1>2. ~Reconnect(t)
  BY <1>1 DEF Reconnect
<1>3. /\ UNCHANGED <<commVars, kept, pc, stop, webclientConnectedToSphero>>
      /\ page' \in {page, "idle"}
  BY <1>2 DEF ListenerStep, Check, ReadFails, SpinEnds, ErrorHandler, Retry, Packet,
     EndOfStream, pageVars, serverVars
<1>4. \A u \in Threads : u # t => listener'[u] = listener[u]
  BY <1>1, <1>2 DEF ListenerStep, Check, ReadFails, SpinEnds, ErrorHandler, Retry, Packet,
     EndOfStream, ListenerGoto
<1>5. Looping(t) /\ connection # None => Looping(t)'
  <2>1. CASE Check(t)
    BY <1>1, <2>1 DEF Check, Looping, Listeners
  <2>2. CASE Packet(t)
    BY <1>1, <2>2 DEF Packet, Looping, Listeners
  <2>3. CASE ReadFails(t) \/ EndOfStream(t) \/ SpinEnds(t)
    BY <1>1, <1>s, <2>3, ListenerPc DEF ReadFails, EndOfStream, SpinEnds, Looping
  <2>4. CASE ErrorHandler(t) \/ Retry(t)
    BY <2>4 DEF ErrorHandler, Retry, Looping
  <2> QED
    BY <1>2, <2>1, <2>2, <2>3, <2>4 DEF ListenerStep
<1>6. LinkHeard'
  BY <1>1, <1>3, <1>4, <1>5 DEF Linked, LinkHeard, Looping, commVars
<1>7. PlacesLinked' /\ FlagLinked' /\ LinkNamed'
  BY <1>1, <1>3 DEF Linked, PlacesLinked, FlagLinked, LinkNamed, Wanted, AllIdle, commVars
<1> QED
  BY <1>6, <1>7 DEF Linked

LEMMA LinkedNext ==
    ASSUME Ind, [Next]_vars, Sequential', Untried'
    PROVE  Linked'
<1>1. Steady
  BY HistoryGrows DEF Steady, Ind, Sequential
<1>2. CASE Client
  BY <1>1, <1>2, PageLinked, ConnectLinked, BeginStopLinked DEF Client
<1>3. ASSUME NEW who \in {"disconnect", "close"}, StopStep(who) PROVE Linked'
  BY <1>1, <1>3, StopLinked DEF Stops
<1>4. ASSUME NEW t \in Threads, ThreadStep(t) PROVE Linked'
  BY <1>1, <1>4, ThreadLinked
<1>5. ASSUME NEW t \in Threads, ListenerStep(t) \/ Packet(t) \/ EndOfStream(t)
      PROVE  Linked'
  BY <1>1, <1>5, ListenerLinked
<1>6. CASE LinkLost \/ UNCHANGED vars
  <2>1. UNCHANGED <<commVars, serverVars, pageVars, pc, stop, listener>> /\ Linked
    BY <1>1, <1>6, SteadyFacts DEF LinkLost, vars
  <2>2. PlacesLinked' /\ FlagLinked'
    BY <2>1 DEF Linked, PlacesLinked, FlagLinked, Wanted, AllIdle, commVars, serverVars,
       pageVars
  <2>3. LinkHeard' /\ LinkNamed'
    BY <2>1 DEF Linked, LinkHeard, LinkNamed, Looping, commVars, pageVars
  <2> QED
    BY <2>2, <2>3 DEF Linked
<1> QED
  BY <1>2, <1>3, <1>4, <1>5, <1>6 DEF Next

-----------------------------------------------------------------------------
(* OneListener *)

EarlyPlaces == {"dial", "opening", "streams", "failed", "replyNo"}

(* Steps that leave the listeners alone and lead no thread to an early     *)
(* place while one listens, nor make a connection then.                    *)
LEMMA SameListeners ==
    ASSUME OneListener, listener' = listener,
           \A t \in Threads : pc'[t] \in EarlyPlaces => NoListener,
           NoListener \/ connection' \in {connection, None}
    PROVE  OneListener'
BY DEF OneListener, EarlyPlaces, NoListener, Listening, Untried

LEMMA OneListenerThread ==
    ASSUME Steady, OneListener, NEW t \in Threads, ThreadStep(t)
    PROVE  OneListener'
<1>1. /\ Active(t) /\ Linked /\ TypeOK /\ listener \in [Threads -> Listeners]
      /\ \A u \in Threads : u # t => pc[u] \in {"new", "done"}
  <2>1. Active(t)
    BY DEF ThreadStep, Dial, OpenReturns, Streams, Confirm, Mark, Reply, Active
  <2> QED
    BY <2>1, AtWork DEF TypeOK, Listeners
<1>2. pc[t] \in EarlyPlaces => NoListener
  BY DEF OneListener, EarlyPlaces
<1>s. /\ EarlyPlaces \subseteq ThreadStates
      /\ {"confirm", "mark", "replyYes", "done"} \subseteq ThreadStates
      /\ "check" \in ListenerStates
  BY DEF ThreadStates, ListenerStates, EarlyPlaces
<1>3. CASE Streams(t)
  <2>1. connection \in open /\ NoListener
    BY <1>1, <1>2, <1>3 DEF Streams, Linked, PlacesLinked, EarlyPlaces
  <2>2. Goto(t, "confirm") /\ ListenerGoto(t, "check")
    BY <1>3, <2>1 DEF Streams, StreamsOpen
  <2>3. /\ listener'[t].pc = "check" /\ listener'[t].attempts = listener[t].attempts
        /\ \A u \in Threads : u # t => listener'[u] = listener[u]
    BY <1>1, <2>2 DEF ListenerGoto, Listeners
  <2>4. \A u \in Threads : pc'[u] \notin EarlyPlaces
    BY <1>1, <1>s, <2>2, GotoPc DEF EarlyPlaces
  <2> QED
    BY <2>1, <2>3, <2>4 DEF OneListener, EarlyPlaces, NoListener, Listening, Untried
<1>4. CASE ~Streams(t)
  <2>1. PICK s \in ThreadStates :
            Goto(t, s) /\ (s \in EarlyPlaces => pc[t] \in EarlyPlaces)
    BY <1>4, <1>s DEF ThreadStep, Dial, OpenReturns, Confirm, Mark, Reply, IfSphero,
       EarlyPlaces
  <2>2. \A u \in Threads : pc'[u] \in EarlyPlaces => NoListener
    BY <1>1, <1>2, <2>1, GotoPc DEF EarlyPlaces
  <2>3. listener' = listener /\ (NoListener \/ connection' = connection)
    BY <1>2, <1>4 DEF ThreadStep, Dial, OpenReturns, Confirm, Mark, Reply, commVars,
       EarlyPlaces
  <2> QED
    BY <2>2, <2>3, SameListeners
<1> QED
  BY <1>3, <1>4

(* The handler finds that the client does not want the connection. *)
LEMMA OneListenerListens ==
    ASSUME Steady, OneListener, NEW t \in Threads,
           ListenerStep(t) \/ Packet(t) \/ EndOfStream(t)
    PROVE  OneListener'
<1>1. /\ Linked /\ TypeOK /\ listener \in [Threads -> Listeners]
      /\ None \notin open
  BY SteadyFacts DEF TypeOK, Listeners
<1>2. Listening(t) /\ ~Retry(t) /\ ~Reconnect(t)
  BY DEF ListenerStep, Check, ReadFails, SpinEnds, ErrorHandler, Retry, Reconnect, Packet,
     EndOfStream, Listening, OneListener
<1>3. \A u \in Threads : pc[u] \notin EarlyPlaces
  BY <1>2 DEF OneListener, NoListener, EarlyPlaces
<1>4. UNCHANGED <<pc, connection>>
  BY <1>2 DEF ListenerStep, Check, ReadFails, SpinEnds, ErrorHandler, Packet, EndOfStream,
     commVars
<1>5. /\ \A u \in Threads : u # t => listener'[u] = listener[u]
      /\ listener'[t].attempts = listener[t].attempts
      /\ listener'[t].pc \in {"check", "read", "spin", "handler", "done"}
      /\ listener'[t].pc = "handler" => connection = None
  <2>1. CASE Check(t)
    BY <1>1, <2>1 DEF Check, Listeners
  <2>2. CASE Packet(t)
    BY <1>1, <2>2 DEF Packet, Listeners
  <2>3. CASE ReadFails(t) \/ EndOfStream(t) \/ SpinEnds(t)
    BY <1>1, <2>3 DEF ReadFails, EndOfStream, SpinEnds, ListenerGoto, Listeners
  <2>4. CASE ErrorHandler(t)
    <3>1. connection = None
      BY <2>4 DEF ErrorHandler, OneListener
    <3>2. ~webclientConnectedToSphero
      BY <1>1, <1>3, <3>1 DEF Linked, FlagLinked, Wanted, TypeOK, EarlyPlaces
    <3>3. ListenerGoto(t, "done")
      BY <2>4, <3>2 DEF ErrorHandler
    <3> QED
      BY <1>1, <3>3 DEF ListenerGoto, Listeners
  <2> QED
    BY <1>2, <2>1, <2>2, <2>3, <2>4 DEF ListenerStep
<1>6. \A u \in Threads : Listening(u)' => Listening(u)
  BY <1>2, <1>5 DEF Listening
<1> QED
  BY <1>3, <1>4, <1>5, <1>6 DEF OneListener, EarlyPlaces, Listening, Untried

LEMMA OneListenerNext ==
    ASSUME Ind, [Next]_vars, Sequential', ~leftover'
    PROVE  OneListener'
<1>1. Steady /\ OneListener
  <2>1. Sequential /\ ~leftover
    BY HistoryGrows DEF Ind, Sequential
  <2> QED
    BY <2>1 DEF Steady, Ind, OneListener
<1>2. \A t \in Threads : pc[t] \in EarlyPlaces => NoListener
  BY <1>1 DEF OneListener, EarlyPlaces
<1>3. CASE UNCHANGED <<pc, listener>> /\ connection' \in {connection, None}
  BY <1>1, <1>2, <1>3, SameListeners
<1>4. CASE Client
  <2>1. ASSUME NEW t \in Threads, ConnectToDevice(t) PROVE OneListener'
    <3>1. NoListener /\ listener' = listener
      BY <2>1 DEF ConnectToDevice, NoListener
    <3> QED
      BY <1>1, <3>1, SameListeners
  <2>2. CASE ~\E t \in Threads : ConnectToDevice(t)
    BY <1>3, <1>4, <2>2 DEF Client, OnOpen, OnClose, Command, CancelConnection, Sleep,
       Disconnect, commVars, pageVars
  <2> QED
    BY <2>1, <2>2
<1>5. CASE \E who \in {"disconnect", "close"} : StopStep(who)
  BY <1>3, <1>5 DEF StopStep, CommDisconnect, CommDisconnected, Closed, commVars
<1>6. ASSUME NEW t \in Threads, ThreadStep(t) PROVE OneListener'
  BY <1>1, <1>6, OneListenerThread
<1>7. ASSUME NEW t \in Threads, ListenerStep(t) \/ Packet(t) \/ EndOfStream(t)
      PROVE  OneListener'
  BY <1>1, <1>7, OneListenerListens
<1>8. CASE LinkLost \/ UNCHANGED vars
  BY <1>3, <1>8 DEF LinkLost, vars, commVars
<1> QED
  BY <1>4, <1>5, <1>6, <1>7, <1>8 DEF Next

-----------------------------------------------------------------------------
(* The inductive step *)

LEMMA InitInd == Init => Ind
<1> SUFFICES ASSUME Init PROVE Ind
  OBVIOUS
<1>1. PageOpen /\ \A t \in Threads : /\ ~Active(t) /\ ~Listening(t) /\ pc[t] = "new"
                                       /\ listener[t].pc = "none"
                                       /\ listener[t].attempts = 0
  BY DEF Init, PageOpen, Active, Listening
<1>2. /\ page = "closed" /\ connection = None /\ open = {} /\ readable = {} /\ ~Wanted
      /\ \A who \in Stops : stop[who] = "idle"
  BY DEF Init, Wanted, Stops
<1>3. Tried /\ InTurn /\ OneListener
  BY <1>1, <1>2 DEF Tried, InTurn, OneListener, Untried
<1>4. Linked
  BY <1>1, <1>2 DEF Linked, PlacesLinked, FlagLinked, LinkHeard, LinkNamed
<1> QED
  BY <1>1, <1>3, <1>4, InitTypes DEF Ind

LEMMA NextInd == Ind /\ [Next]_vars => Ind'
<1> SUFFICES ASSUME Ind, [Next]_vars PROVE Ind'
  OBVIOUS
<1>1. TypeOK' /\ PageOpen' /\ Tried'
  BY TypeNext, PageOpenNext, TriedNext DEF Ind
<1>2. Sequential' => InTurn'
  BY InTurnNext
<1>3. Sequential' /\ Untried' => Linked'
  BY LinkedNext
<1>4. Sequential' /\ ~leftover' => OneListener'
  BY OneListenerNext
<1> QED
  BY <1>1, <1>2, <1>3, <1>4 DEF Ind

LEMMA SpecInd == Spec => []Ind
BY InitInd, NextInd, PTL DEF Spec

-----------------------------------------------------------------------------
(* While requests do not overlap and no listener has tried to reconnect, a *)
(* page that was told that it is connected has an open connection, which   *)
(* the server knows to be wanted and which a listener hears; exactly one,  *)
(* as long as no request to connect has found a connection or a listener   *)
(* of an earlier one.                                                      *)
THEOREM ConnectedIsLinked == Spec => []ConnectedMeansLinked
<1>1. Ind => ConnectedMeansLinked
  <2> SUFFICES ASSUME Ind, page = "connected", Sequential, Untried
               PROVE  /\ webclientConnectedToSphero /\ connection \in open
                      /\ \E t \in Threads : Listening(t)
                      /\ ~leftover => Cardinality({t \in Threads : Listening(t)}) = 1
    BY DEF ConnectedMeansLinked
  <2>1. /\ InTurn /\ Linked /\ TypeOK /\ None \notin open
        /\ ~leftover => OneListener
    BY SteadyFacts DEF Steady, Ind
  <2>2. \A t \in Threads : pc[t] \in {"new", "done"}
    BY <2>1 DEF InTurn, Active
  <2>3. webclientConnectedToSphero /\ connection \in open
    BY <2>1, <2>2 DEF Linked, FlagLinked, Wanted
  <2>4. PICK t \in Threads : Looping(t)
    BY <2>1, <2>2, <2>3 DEF Linked, LinkHeard
  <2>5. Listening(t)
    BY <2>4 DEF Looping, Listening
  <2>6. ASSUME ~leftover PROVE Cardinality({u \in Threads : Listening(u)}) = 1
    <3>1. {u \in Threads : Listening(u)} = {t}
      BY <2>1, <2>5, <2>6 DEF OneListener
    <3> QED
      BY <3>1, FS_Singleton
  <2> QED
    BY <2>3, <2>5, <2>6
<1> QED
  BY <1>1, SpecInd, PTL

(* While requests do not overlap and no listener has tried to reconnect,   *)
(* the server takes a connection to be wanted only if there is one, also   *)
(* in the middle of a disconnect.                                          *)
THEOREM WantedIsLinked == Spec => []WantedMeansLinked
<1>1. Ind => WantedMeansLinked
  <2> SUFFICES ASSUME Ind, webclientConnectedToSphero, Sequential, Untried,
                      \A t \in Threads : ~Active(t)
               PROVE  connection # None
    BY DEF WantedMeansLinked
  <2>1. Linked /\ None \notin open /\ TypeOK
    BY SteadyFacts DEF Steady
  <2> QED
    BY <2>1 DEF Linked, FlagLinked, Wanted, Active, TypeOK
<1> QED
  BY <1>1, SpecInd, PTL

(* While requests do not overlap and none to connect finds a connection or *)
(* a listener of an earlier one, no listener connects again.               *)
THEOREM NoReconnect == Spec => []NoUnwantedReconnect
<1>1. Ind => NoUnwantedReconnect
  BY DEF Ind, OneListener, NoUnwantedReconnect
<1> QED
  BY <1>1, SpecInd, PTL

(* While requests do not overlap and no listener has tried to reconnect,   *)
(* every link that is held is the one that connection names, one that a    *)
(* later request to connect has replaced, or one that could not be closed. *)
THEOREM NoLinkLeaks == Spec => []LinksNamed
<1>1. Ind => LinksNamed
  BY DEF Ind, Linked, LinkNamed, LinksNamed
<1> QED
  BY <1>1, SpecInd, PTL

-----------------------------------------------------------------------------
(* The protocol of ConnectProtocol: the requests of the page that is open  *)
(* are the threads that it owns, and no thread is owned by a page to come. *)
OwnersPast == \A t \in Threads : owner[t] <= session

ProtocolInd == TypeOK /\ OwnersPast

LEMMA OwnersNext ==
    ASSUME ProtocolInd, [Next]_vars
    PROVE  ProtocolInd'
<1>1. TypeOK /\ TypeOK' /\ OwnersPast
  BY TypeNext DEF ProtocolInd
<1>2. /\ session \in Nat /\ session' \in Nat
      /\ \A t \in Threads : owner[t] \in Nat /\ owner'[t] \in Nat
  BY <1>1, Constants DEF TypeOK
<1>3. CASE OnOpen
  <2>1. owner' = owner /\ session' = session + 1
    BY <1>3 DEF OnOpen
  <2>2. ASSUME NEW t \in Threads PROVE owner'[t] <= session'
    BY <1>1, <1>2, <2>1 DEF OwnersPast
  <2> QED
    BY <1>1, <2>2 DEF ProtocolInd, OwnersPast
<1>4. ASSUME NEW t \in Threads, ConnectToDevice(t) PROVE OwnersPast'
  <2>1. owner' = [owner EXCEPT ![t] = session] /\ session' = session
    BY <1>4 DEF ConnectToDevice
  <2>2. ASSUME NEW u \in Threads PROVE owner'[u] <= session'
    BY <1>1, <1>2, <2>1 DEF OwnersPast, TypeOK
  <2> QED
    BY <2>2 DEF OwnersPast
<1>5. CASE ~OnOpen /\ ~(\E t \in Threads : ConnectToDevice(t))
  <2>1. owner' = owner /\ session' = session
    <3>1. CASE Client
      BY <1>5, <3>1
         DEF Client, OnClose, Command, CancelConnection, Sleep, Disconnect, pageVars
    <3>2. CASE \E who \in {"disconnect", "close"} : StopStep(who)
      BY <3>2 DEF StopStep, CommDisconnect, CommDisconnected, Closed, pageVars
    <3>3. CASE \E t \in Threads : ThreadStep(t)
      BY <3>3 DEF ThreadStep, Dial, OpenReturns, Streams, Confirm, Mark, Reply, pageVars
    <3>4. CASE \E t \in Threads : ListenerStep(t) \/ Packet(t) \/ EndOfStream(t)
      BY <3>4 DEF ListenerStep, Check, ReadFails, SpinEnds, ErrorHandler, Retry,
         Reconnect, Packet, EndOfStream, pageVars
    <3>5. CASE LinkLost \/ UNCHANGED vars
      BY <3>5 DEF LinkLost, vars, pageVars
    <3> QED
      BY <3>1, <3>2, <3>3, <3>4, <3>5 DEF Next
  <2> QED
    BY <1>1, <2>1 DEF ProtocolInd, OwnersPast
<1> QED
  BY <1>1, <1>3, <1>4, <1>5 DEF ProtocolInd

LEMMA OwnersInit == Init => ProtocolInd
<1> SUFFICES ASSUME Init PROVE ProtocolInd
  OBVIOUS
<1>1. \A t \in Threads : owner[t] <= session
  BY DEF Init
<1> QED
  BY <1>1, InitTypes DEF ProtocolInd, OwnersPast

LEMMA RequestsCounted ==
    IsFiniteSet(Requests) /\ Cardinality(Requests) \in Nat
<1>1. Requests \subseteq Threads
  BY DEF Requests
<1> QED
  BY <1>1, Constants, FS_Subset, FS_CardinalityType

(* What leaves the threads and the page as they are is nothing to it. *)
LEMMA SameRequests ==
    ASSUME UNCHANGED <<session, owner>>, page' # "closed" <=> page # "closed",
           \A t \in Threads : Active(t)' <=> Active(t)
    PROVE  Cardinality(Requests)' = Cardinality(Requests)
<1>1. Requests' = Requests
  BY DEF Requests, Online
<1> QED
  BY <1>1

(* What takes the page at most out of a request or a session is a Leave. *)
LEMMA LeavingIsLeave ==
    ASSUME UNCHANGED <<session, owner>>, page # "closed",
           TypeOK, page' \in {page, "idle"},
           \A t \in Threads : Active(t)' <=> Active(t)
    PROVE  [Protocol!Next]_(Protocol!vars)
<1>1. Cardinality(Requests)' = Cardinality(Requests)
  BY SameRequests
<1>2. CASE page' = page
  BY <1>1, <1>2 DEF Protocol!vars
<1>3. CASE page' # page
  <2>1. page \in {"connecting", "connected"} /\ page' = "idle"
    BY <1>3 DEF TypeOK, PageStates
  <2> QED
    BY <1>1, <2>1 DEF Protocol!Leave, Protocol!Next
<1> QED
  BY <1>2, <1>3

LEMMA ClientProtocol ==
    ASSUME ProtocolInd, Client
    PROVE  [Protocol!Next]_(Protocol!vars)
<1>1. TypeOK /\ OwnersPast
  BY DEF ProtocolInd
<1>2. CASE OnOpen
  <2>1. Requests' = {}
    <3>1. \A t \in Threads : owner[t] \in Nat /\ session \in Nat /\ owner[t] <= session
      BY <1>1, Constants DEF TypeOK, OwnersPast
    <3> QED
      BY <1>2, <3>1 DEF OnOpen, Requests, Online
  <2>2. Cardinality(Requests)' = 0
    BY <2>1, FS_EmptySet
  <2> QED
    BY <1>2, <2>2 DEF OnOpen, Protocol!Open, Protocol!Next
<1>3. CASE OnClose
  <2>1. Requests' = {}
    BY <1>3 DEF OnClose, Requests, Online
  <2>2. Cardinality(Requests)' = 0
    BY <2>1, FS_EmptySet
  <2> QED
    BY <1>3, <2>2 DEF OnClose, Protocol!Close, Protocol!Next
<1>4. CASE Command \/ CancelConnection \/ Sleep \/ Disconnect
  <2>1. /\ UNCHANGED <<session, owner>> /\ page # "closed" /\ page' \in {page, "idle"}
        /\ pc' = pc
    BY <1>4 DEF Command, CancelConnection, Sleep, Disconnect, OnMessage, pageVars
  <2>2. \A t \in Threads : Active(t)' <=> Active(t)
    BY <2>1 DEF Active
  <2> QED
    BY <1>1, <2>1, <2>2, LeavingIsLeave
<1>5. ASSUME NEW t \in Threads, ConnectToDevice(t)
      PROVE  [Protocol!Next]_(Protocol!vars)
  <2>1. /\ page = "idle" /\ page' = "connecting" /\ pc[t] = "new" /\ session' = session
        /\ pc' = [pc EXCEPT ![t] = "dial"] /\ owner' = [owner EXCEPT ![t] = session]
    BY <1>5 DEF ConnectToDevice, Goto
  <2>2. Requests' = Requests \cup {t} /\ t \notin Requests
    BY <1>1, <2>1 DEF Requests, Active, Online, TypeOK
  <2>3. Cardinality(Requests)' = Cardinality(Requests) + 1
    BY <2>2, RequestsCounted, FS_AddElement
  <2> QED
    BY <2>1, <2>3 DEF Protocol!Ask, Protocol!Next
<1> QED
  BY <1>2, <1>3, <1>4, <1>5 DEF Client

LEMMA StopProtocol ==
    ASSUME NEW who \in Stops, StopStep(who)
    PROVE  UNCHANGED <<page, session, owner, pc>>
BY DEF StopStep, CommDisconnect, CommDisconnected, Closed, pageVars

(* The end of a thread takes its request away, if its page is there.       *)
LEMMA EndCounted ==
    ASSUME TypeOK, NEW t \in Threads, Active(t), Goto(t, "done"),
           UNCHANGED <<session, owner>>, page' # "closed" <=> page # "closed"
    PROVE  IF Online(t)
           THEN /\ Cardinality(Requests) > 0
                /\ Cardinality(Requests)' = Cardinality(Requests) - 1
           ELSE Cardinality(Requests)' = Cardinality(Requests)
<1>1. Requests' = Requests \ {t}
  BY DEF Requests, Active, Online, Goto, TypeOK
<1>2. CASE Online(t)
  <2>1. t \in Requests
    BY <1>2 DEF Requests
  <2>2. Cardinality(Requests)' = Cardinality(Requests) - 1 /\ Cardinality(Requests) \in Nat
    BY <1>1, <2>1, RequestsCounted, FS_RemoveElement
  <2>3. Cardinality(Requests) # 0
    BY <2>1, RequestsCounted, FS_EmptySet
  <2> QED
    BY <1>2, <2>2, <2>3
<1>3. CASE ~Online(t)
  <2>1. Requests' = Requests
    BY <1>1, <1>3 DEF Requests
  <2> QED
    BY <1>3, <2>1
<1> QED
  BY <1>2, <1>3

LEMMA ThreadProtocol ==
    ASSUME ProtocolInd, NEW t \in Threads, ThreadStep(t)
    PROVE  [Protocol!Next]_(Protocol!vars)
<1>1. TypeOK /\ Active(t) /\ UNCHANGED <<session, owner>>
  BY DEF ProtocolInd, ThreadStep, Dial, OpenReturns, Streams, Confirm, Mark, Reply,
     pageVars, Active
<1>2. CASE Reply(t)
  <2>1. page' # "closed" <=> page # "closed"
    BY <1>2 DEF Reply
  <2>2. Goto(t, "done")
    BY <1>2 DEF Reply
  <2>3. CASE Online(t)
    <3>1. /\ Cardinality(Requests) > 0
          /\ Cardinality(Requests)' = Cardinality(Requests) - 1
      BY <1>1, <2>1, <2>2, <2>3, EndCounted
    <3>2. \E answer \in Protocol!Answers : Protocol!Hear(answer)
      <4>1. CASE page = "connecting"
        <5>1. page' = IF pc[t] = "replyYes" THEN "connected" ELSE "idle"
          BY <1>2, <2>3, <4>1 DEF Reply
        <5> QED
          BY <4>1, <5>1 DEF Protocol!Answers, Protocol!Hear
      <4>2. CASE page # "connecting"
        <5>1. page' = page
          BY <1>2, <4>2 DEF Reply
        <5> QED
          BY <4>2, <5>1 DEF Protocol!Answers, Protocol!Hear
      <4> QED
        BY <4>1, <4>2
    <3> QED
      BY <3>1, <3>2 DEF Protocol!AnswerAtOnce, Protocol!Next
  <2>4. CASE ~Online(t)
    <3>1. Cardinality(Requests)' = Cardinality(Requests) /\ page' = page
      BY <1>1, <1>2, <2>1, <2>2, <2>4, EndCounted DEF Reply
    <3> QED
      BY <3>1 DEF Protocol!vars
  <2> QED
    BY <2>3, <2>4
<1>3. CASE ~Reply(t)
  <2>1. page' = page
    BY <1>3 DEF ThreadStep, Dial, OpenReturns, Streams, Confirm, Mark, pageVars
  <2>2. PICK s \in ThreadStates \ {"new"} : Goto(t, s)
    BY <1>3 DEF ThreadStep, Dial, OpenReturns, Streams, Confirm, Mark, IfSphero, ThreadStates
  <2>3. CASE s = "done"
    <3>1. Cardinality(Requests)' =
            IF Online(t) THEN Cardinality(Requests) - 1 ELSE Cardinality(Requests)
      BY <1>1, <2>1, <2>2, <2>3, EndCounted
    <3>2. Online(t) => Cardinality(Requests) > 0
      BY <1>1, <2>1, <2>2, <2>3, EndCounted
    <3> QED
      BY <2>1, <3>1, <3>2 DEF Protocol!Answer, Protocol!Next, Protocol!vars
  <2>4. CASE s # "done"
    <3>1. \A u \in Threads : Active(u)' <=> Active(u)
      BY <1>1, <2>2, <2>4 DEF Active, Goto, TypeOK
    <3> QED
      BY <1>1, <2>1, <3>1, SameRequests DEF Protocol!vars
  <2> QED
    BY <2>3, <2>4
<1> QED
  BY <1>2, <1>3

LEMMA ListenerProtocol ==
    ASSUME ProtocolInd, NEW t \in Threads,
           ListenerStep(t) \/ Packet(t) \/ EndOfStream(t)
    PROVE  [Protocol!Next]_(Protocol!vars)
<1>1. TypeOK /\ UNCHANGED <<session, owner, pc>>
  BY DEF ProtocolInd, ListenerStep, Check, ReadFails, SpinEnds, ErrorHandler, Retry,
     Reconnect, Packet, EndOfStream, pageVars
<1>2. \A u \in Threads : Active(u)' <=> Active(u)
  BY <1>1 DEF Active
<1>3. page' = page \/ (page = "connecting" /\ page' = "idle")
  BY DEF ListenerStep, Check, ReadFails, SpinEnds, ErrorHandler, Retry, Reconnect, Packet,
     EndOfStream, pageVars
<1>4. CASE page = "closed"
  BY <1>1, <1>2, <1>3, <1>4, SameRequests DEF Protocol!vars
<1>5. CASE page # "closed"
  BY <1>1, <1>2, <1>3, <1>5, LeavingIsLeave
<1> QED
  BY <1>4, <1>5

LEMMA ProtocolStep ==
    ProtocolInd /\ [Next]_vars => [Protocol!Next]_(Protocol!vars)
<1> SUFFICES ASSUME ProtocolInd, [Next]_vars PROVE [Protocol!Next]_(Protocol!vars)
  OBVIOUS
<1>1. CASE UNCHANGED <<page, session, owner, pc>>
  BY <1>1, SameRequests DEF Active, Protocol!vars
<1>2. CASE (\E who \in Stops : StopStep(who)) \/ LinkLost \/ UNCHANGED vars
  BY <1>1, <1>2, StopProtocol DEF LinkLost, vars, pageVars
<1> QED
  BY <1>2, ClientProtocol, ThreadProtocol, ListenerProtocol DEF Next, Stops

LEMMA ProtocolInit == Init => Protocol!Init
<1> SUFFICES ASSUME Init PROVE Protocol!Init
  OBVIOUS
<1>1. Requests = {} /\ page = "closed"
  BY DEF Init, Requests, Active
<1> QED
  BY <1>1, FS_EmptySet DEF Protocol!Init

(* Each request of a page is answered at most once, and only to the page   *)
(* that made it, which becomes connected only by a "yes", whatever other   *)
(* requests, pages and listeners did to the server's fields.               *)
THEOREM ServerFollows == Spec => Protocol!Spec
<1>1. Spec => []ProtocolInd
  BY OwnersInit, OwnersNext, PTL DEF Spec
<1> QED
  BY <1>1, ProtocolInit, ProtocolStep, PTL DEF Spec, Protocol!Spec
=============================================================================
