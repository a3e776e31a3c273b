------------------------ MODULE ClientSession_proofs ------------------------
(***************************************************************************)
(* Proofs about ClientSession, for any number of watchdogs, requests and   *)
(* messages and any timeout.                                               *)
(*                                                                         *)
(* The invariants hold up one another: no leftover dialog may cancel a     *)
(* session (Apart), because the answer that begins one takes the dialog's  *)
(* place; no request may take a session's callback, because its buttons    *)
(* are not those of a session (ButtonsFollow); and a session has a         *)
(* watchdog because the request that it answers had one (Watched).  That   *)
(* the session implements ConnectProtocol follows with ProtocolInd.        *)
(***************************************************************************)
EXTENDS ClientSession, SequenceTheorems, TLAPS

(* A session has an open socket, and no dialog of a request is left. *)
Apart == isConnected => socket = "open" /\ dialog = "plain"

Ind == TypeOK /\ Watched /\ HearsRobot /\ ButtonsFollow /\ Apart

-----------------------------------------------------------------------------
(* The parts of Ind that the operations share. *)

LEMMA TailMessages ==
    ASSUME NEW s \in Seq(Messages), s # <<>>
    PROVE  Tail(s) \in Seq(Messages) /\ Head(s) \in Messages
  OBVIOUS

LEMMA Stopped ==
    ASSUME TypeOK, NEW fired, stopPowerNotifications(fired)
    PROVE  /\ DOMAIN watchdogs' \subseteq TimerIds
           /\ watchdogs' \in [DOMAIN watchdogs' -> 0..power_timeout]
           /\ power_timeout_id' \in TimerIds \cup {NoTimer}
  BY DEF TypeOK, stopPowerNotifications

LEMMA Armed ==
    ASSUME TypeOK, Arm
    PROVE  /\ DOMAIN watchdogs' \subseteq TimerIds
           /\ watchdogs' \in [DOMAIN watchdogs' -> 0..power_timeout]
           /\ power_timeout_id' \in TimerIds
           /\ power_timeout_id' \in DOMAIN watchdogs'
<1>1. PICK t \in TimerIds \ DOMAIN watchdogs :
          /\ watchdogs' = [u \in DOMAIN watchdogs \cup {t} |->
                             IF u = t THEN power_timeout ELSE watchdogs[u]]
          /\ power_timeout_id' = t
  BY DEF Arm
<1>2. power_timeout \in 0..power_timeout
  BY SessionAssumption
<1> QED
  BY <1>1, <1>2 DEF TypeOK

LEMMA Asked ==
    ASSUME TypeOK, NEW request \in {"search", "connect"}, Ask(request)
    PROVE  jobs' \in [Work -> Nat]
<1>1. request \in Work /\ jobs[request] + 1 \in Nat
  BY DEF TypeOK, Work
<1> QED
  BY <1>1 DEF TypeOK, Ask

(* Leaving keeps everything that concerns the page. *)
LEMMA LeavingKeeps ==
    ASSUME Ind, NEW fired, Leave(fired)
    PROVE  /\ Watched' /\ HearsRobot' /\ ButtonsFollow' /\ Apart'
           /\ isConnected' \in BOOLEAN /\ onmessage' \in Callbacks
           /\ buttons' \in {"select", "session", "none"}
<1>1. ~isConnected' /\ isConnected' = FALSE /\ onmessage' = "none" /\ buttons' = "select"
  BY DEF Leave
<1>2. Watched' /\ HearsRobot' /\ Apart'
  BY <1>1 DEF Watched, HearsRobot, Apart
<1>3. ButtonsFollow'
  BY <1>1 DEF ButtonsFollow
<1> QED
  BY <1>1, <1>2, <1>3 DEF Callbacks

(* A request is only made by a page without a session. *)
LEMMA RequestKeeps ==
    ASSUME Ind, ~isConnected, NEW request \in {"search", "connect"}, Do(request),
           UNCHANGED <<inbox, linked, silence>>,
           socket' \in {"opening", "open", "closed"},
           wanted' \in {"nothing", "search", "connect"}
    PROVE  Ind'
<1>1. CASE listDevices
  <2>1. jobs' \in [Work -> Nat]
    BY <1>1, Asked DEF listDevices, Ind
  <2>2. TypeOK'
    BY <1>1, <2>1 DEF listDevices, Ind, TypeOK, watchVars, Callbacks
  <2> QED
    BY <1>1, <2>2 DEF listDevices, Ind, Watched, HearsRobot, ButtonsFollow, Apart
<1>2. CASE connect
  <2>1. jobs' \in [Work -> Nat]
    BY <1>2, Asked DEF connect, Ind
  <2>2. /\ DOMAIN watchdogs' \subseteq TimerIds
        /\ watchdogs' \in [DOMAIN watchdogs' -> 0..power_timeout]
        /\ power_timeout_id' \in TimerIds
        /\ power_timeout_id' \in DOMAIN watchdogs'
    BY <1>2, Armed DEF connect, Ind
  <2>3. TypeOK'
    BY <1>2, <2>1, <2>2 DEF connect, Ind, TypeOK, Callbacks
  <2> QED
    BY <1>2, <2>2, <2>3 DEF connect, Ind, Watched, HearsRobot, ButtonsFollow, Apart
<1> QED
  BY <1>1, <1>2 DEF Do

-----------------------------------------------------------------------------
(* The inductive step, one lemma for each group of actions. *)

LEMMA InitInd == Init => Ind
<1> SUFFICES ASSUME Init PROVE Ind
  OBVIOUS
<1>1. DOMAIN watchdogs = {} /\ watchdogs \in [DOMAIN watchdogs -> 0..power_timeout]
  BY DEF Init
<1>0. /\ inbox \in Seq(Messages) /\ jobs \in [Work -> Nat]
      /\ silence \in 0..power_timeout
  BY SessionAssumption DEF Init
<1>2. TypeOK
  BY <1>1, <1>0 DEF Init, TypeOK, Callbacks
<1>3. ~isConnected /\ buttons = "select" /\ onmessage = "none"
  BY DEF Init
<1> QED
  BY <1>2, <1>3 DEF Ind, Watched, HearsRobot, ButtonsFollow, Apart

LEMMA UserInd == Ind /\ User => Ind'
<1> SUFFICES ASSUME Ind, User PROVE Ind'
  OBVIOUS
<1>1. ASSUME NEW request \in {"search", "connect"}, Request(request) PROVE Ind'
  <2>1. ~isConnected
    BY <1>1 DEF Request, Ind, ButtonsFollow
  <2>2. CASE socket = "open" /\ Do(request) /\ UNCHANGED socketVars
    BY <1>1, <2>1, <2>2, RequestKeeps DEF Request, Ind, TypeOK, socketVars
  <2>3. CASE /\ socket = "closed" /\ socket' = "opening" /\ wanted' = request
             /\ onmessage' = "none"
             /\ UNCHANGED <<inbox, isConnected, buttons, dialog, watchVars, jobs>>
    <3>1. TypeOK'
      BY <1>1, <2>3 DEF Request, Ind, TypeOK, Callbacks, watchVars
    <3> QED
      BY <1>1, <2>1, <2>3, <3>1
         DEF Request, Ind, Watched, HearsRobot, ButtonsFollow, Apart
  <2> QED
    BY <1>1, <2>2, <2>3 DEF Request
<1>2. CASE Cancel
  <2>1. TypeOK'
    BY <1>2 DEF Cancel, Ind, TypeOK, Callbacks, socketVars, watchVars, serverVars
  <2> QED
    BY <1>2, <2>1 DEF Cancel, Ind, Watched, HearsRobot, ButtonsFollow, Apart
<1>3. CASE OtherDialog
  <2>1. TypeOK'
    BY <1>3 DEF OtherDialog, Ind, TypeOK, socketVars, watchVars, serverVars
  <2> QED
    BY <1>3, <2>1
       DEF OtherDialog, Ind, Watched, HearsRobot, ButtonsFollow, Apart, watchVars,
           socketVars
<1>4. CASE Disconnect
  <2>1. TypeOK'
    BY <1>4, LeavingKeeps, Stopped DEF Disconnect, Leave, Ind, TypeOK, socketVars
  <2> QED
    BY <1>4, <2>1, LeavingKeeps DEF Disconnect, Ind
<1>5. CASE Sleep
  <2>1. TypeOK'
    BY <1>5, LeavingKeeps, Stopped DEF Sleep, Leave, Ind, TypeOK, socketVars, serverVars
  <2> QED
    BY <1>5, <2>1, LeavingKeeps DEF Sleep, Ind
<1> QED
  BY <1>1, <1>2, <1>3, <1>4, <1>5 DEF User

LEMMA ServerInd == Ind /\ Server => Ind'
<1> SUFFICES ASSUME Ind, Server PROVE Ind'
  OBVIOUS
<1>1. ASSUME NEW message \in Messages, Send(message) PROVE inbox' \in Seq(Messages)
  BY <1>1 DEF Send, Ind, TypeOK
<1>2. ASSUME NEW work \in Work, Finish(work) PROVE jobs' \in [Work -> Nat]
  <2>1. jobs[work] - 1 \in Nat
    BY <1>2 DEF Finish, Ind, TypeOK
  <2> QED
    BY <1>2, <2>1 DEF Finish, Ind, TypeOK
<1>3. /\ inbox' \in Seq(Messages) /\ jobs' \in [Work -> Nat] /\ linked' \in BOOLEAN
      /\ UNCHANGED <<socket, wanted, pageVars, watchVars, silence>>
  <2>1. CASE RobotSends
    BY <1>1, <2>1 DEF RobotSends, Messages, serverVars, Ind, TypeOK
  <2>2. CASE ConnectDone
    BY <1>1, <1>2, <2>2 DEF ConnectDone, Messages, Work, Ind, TypeOK
  <2>3. CASE SearchDone
    BY <1>1, <1>2, <2>3 DEF SearchDone, Messages, Work, Ind, TypeOK
  <2> QED
    BY <2>1, <2>2, <2>3 DEF Server
<1>4. TypeOK'
  BY <1>3 DEF Ind, TypeOK, pageVars, watchVars
<1> QED
  BY <1>3, <1>4
     DEF Ind, Watched, HearsRobot, ButtonsFollow, Apart, pageVars, watchVars

LEMMA ReceivedInd == Ind /\ Received => Ind'
<1> SUFFICES ASSUME Ind, Received PROVE Ind'
  OBVIOUS
<1>1. ASSUME NEW message \in Messages, Take(message)
      PROVE  /\ inbox' \in Seq(Messages) /\ socket = "open"
             /\ UNCHANGED <<socket, wanted, jobs>>
  BY <1>1, TailMessages DEF Take, Ind, TypeOK
<1>2. CASE ConnectAnswered
  <2>1. PICK message \in Messages :
            /\ onmessage = "connect" /\ Take(message)
            /\ isConnected' = (message = "yes")
            /\ buttons' = IF message = "yes" THEN "session" ELSE "select"
            /\ dialog' = "plain" /\ onmessage' = "sphero" /\ silence' = 0
            /\ UNCHANGED <<watchVars, linked>>
    BY <1>2 DEF ConnectAnswered
  <2>2. TypeOK'
    BY <1>1, <2>1, SessionAssumption DEF Ind, TypeOK, Callbacks, watchVars
  <2> QED
    BY <1>1, <2>1, <2>2
       DEF Ind, Watched, HearsRobot, ButtonsFollow, Apart, watchVars
<1>3. CASE SearchAnswered
  <2>1. PICK message \in Messages :
            /\ onmessage = "search" /\ Take(message)
            /\ IF message = "list"
               THEN buttons' = "select" /\ dialog' = "plain" /\ onmessage' = "none"
               ELSE UNCHANGED <<buttons, dialog, onmessage>>
            /\ UNCHANGED <<isConnected, watchVars, linked, silence>>
    BY <1>3 DEF SearchAnswered
  <2>2. TypeOK'
    BY <1>1, <2>1 DEF Ind, TypeOK, Callbacks, watchVars
  <2>3. ~isConnected
    BY <2>1 DEF Ind, HearsRobot
  <2> QED
    BY <1>1, <2>1, <2>2, <2>3
       DEF Ind, Watched, HearsRobot, ButtonsFollow, Apart, watchVars
<1>4. CASE SpheroMessage
  <2>1. PICK message \in Messages :
            /\ onmessage = "sphero" /\ Take(message)
            /\ dialog' \in (IF message \in Warnings THEN {"plain"} ELSE {})
                              \cup (IF message # "charging" THEN {dialog} ELSE {})
            /\ got_power_notification' =
                  (got_power_notification \/ message \in Warnings)
            /\ silence' = IF message \in Warnings THEN 0 ELSE silence
            /\ IF message = "charging"
               THEN Leave({}) /\ linked' = FALSE
               ELSE UNCHANGED <<isConnected, onmessage, buttons, watchdogs,
                                power_timeout_id, linked>>
    BY <1>4 DEF SpheroMessage
  <2>2. dialog' \in {"plain", dialog} /\ got_power_notification' \in BOOLEAN
        /\ silence' \in 0..power_timeout
    BY <2>1, SessionAssumption DEF Ind, TypeOK
  <2>3. CASE message = "charging"
    <3>1. TypeOK'
      BY <1>1, <2>1, <2>2, <2>3, LeavingKeeps, Stopped DEF Leave, Ind, TypeOK
    <3> QED
      BY <2>1, <2>3, <3>1, LeavingKeeps DEF Ind
  <2>4. CASE message # "charging"
    <3>1. TypeOK'
      BY <1>1, <2>1, <2>2, <2>4 DEF Ind, TypeOK
    <3> QED
      BY <1>1, <2>1, <2>2, <2>4, <3>1
         DEF Ind, Watched, HearsRobot, ButtonsFollow, Apart
  <2> QED
    BY <2>3, <2>4
<1>5. CASE Ignored
  <2>1. PICK message \in Messages :
            Take(message) /\ UNCHANGED <<pageVars, watchVars, linked, silence>>
    BY <1>5 DEF Ignored
  <2>2. TypeOK'
    BY <1>1, <2>1 DEF Ind, TypeOK, pageVars, watchVars
  <2> QED
    BY <1>1, <2>1, <2>2
       DEF Ind, Watched, HearsRobot, ButtonsFollow, Apart, pageVars, watchVars
<1> QED
  BY <1>2, <1>3, <1>4, <1>5 DEF Received

LEMMA SocketInd == Ind /\ (Opened \/ Close) => Ind'
<1> SUFFICES ASSUME Ind, Opened \/ Close PROVE Ind'
  OBVIOUS
<1>1. CASE Opened
  <2>1. ~isConnected
    BY <1>1 DEF Opened, Ind, Apart
  <2>2. CASE Do(wanted)
    <3>1. wanted \in {"search", "connect"}
      BY <2>2 DEF Do
    <3> QED
      BY <1>1, <2>1, <2>2, <3>1, RequestKeeps DEF Opened
  <2>3. CASE UNCHANGED <<pageVars, watchVars, jobs>>
    <3>1. TypeOK'
      BY <1>1, <2>3 DEF Opened, Ind, TypeOK, pageVars, watchVars
    <3> QED
      BY <1>1, <2>1, <2>3, <3>1
         DEF Ind, Watched, HearsRobot, ButtonsFollow, Apart, pageVars, watchVars
  <2> QED
    BY <1>1, <2>2, <2>3 DEF Opened
<1>2. CASE Close
  <2>1. Leave({})
    BY <1>2 DEF Close
  <2>2. jobs' \in [Work -> Nat] /\ linked' \in BOOLEAN /\ inbox' \in Seq(Messages)
    <3>1. jobs["orphan"] + jobs["connect"] \in Nat /\ jobs \in [Work -> Nat]
      BY DEF Ind, TypeOK, Work
    <3>2. jobs' \in [Work -> Nat]
      BY <1>2, <3>1 DEF Close
    <3>3. linked' \in BOOLEAN
      BY <1>2 DEF Close
    <3> QED
      BY <1>2, <3>2, <3>3 DEF Close
  <2>3. TypeOK'
    BY <1>2, <2>1, <2>2, LeavingKeeps, Stopped DEF Close, Leave, Ind, TypeOK
  <2> QED
    BY <2>1, <2>3, LeavingKeeps DEF Ind
<1> QED
  BY <1>1, <1>2

LEMMA TimeInd == Ind /\ (Tick \/ \E t \in TimerIds : Fire(t)) => Ind'
<1> SUFFICES ASSUME Ind, Tick \/ \E t \in TimerIds : Fire(t) PROVE Ind'
  OBVIOUS
<1>1. CASE Tick
  <2>1. DOMAIN watchdogs' = DOMAIN watchdogs
    BY <1>1 DEF Tick
  <2>2. watchdogs' \in [DOMAIN watchdogs -> 0..power_timeout]
    <3>1. ASSUME NEW t \in DOMAIN watchdogs
          PROVE  (IF watchdogs[t] > 0 THEN watchdogs[t] - 1 ELSE 0) \in 0..power_timeout
      BY SessionAssumption DEF Ind, TypeOK
    <3> QED
      BY <1>1, <3>1 DEF Tick
  <2>3. silence' \in 0..power_timeout
    BY <1>1, SessionAssumption DEF Tick, Ind, TypeOK
  <2>4. TypeOK'
    BY <1>1, <2>1, <2>2, <2>3
       DEF Tick, Ind, TypeOK, socketVars, pageVars, serverVars
  <2> QED
    BY <1>1, <2>1, <2>4
       DEF Tick, Ind, Watched, HearsRobot, ButtonsFollow, Apart, pageVars, socketVars
<1>2. ASSUME NEW t \in TimerIds, Watch(t) PROVE Ind'
  <2>1. /\ watchdogs' = [watchdogs EXCEPT ![t] = power_timeout]
        /\ power_timeout_id' = t /\ t \in DOMAIN watchdogs
        /\ got_power_notification' = FALSE
        /\ UNCHANGED <<socketVars, pageVars, serverVars, silence>>
    BY <1>2 DEF Watch, Due
  <2>2. power_timeout \in 0..power_timeout
    BY SessionAssumption
  <2>3. /\ DOMAIN watchdogs' = DOMAIN watchdogs
        /\ watchdogs' \in [DOMAIN watchdogs -> 0..power_timeout]
    BY <2>1, <2>2 DEF Ind, TypeOK
  <2>4. TypeOK'
    BY <2>1, <2>3 DEF Ind, TypeOK, socketVars, pageVars, serverVars
  <2> QED
    BY <2>1, <2>3, <2>4
       DEF Ind, Watched, HearsRobot, ButtonsFollow, Apart, pageVars, socketVars
<1>3. ASSUME NEW t \in TimerIds, GiveUp(t) PROVE Ind'
  <2>1. TypeOK'
    BY <1>3, LeavingKeeps, Stopped DEF GiveUp, Leave, Ind, TypeOK, socketVars
  <2> QED
    BY <1>3, <2>1, LeavingKeeps DEF GiveUp, Ind
<1> QED
  BY <1>1, <1>2, <1>3 DEF Fire

LEMMA NextInd == Ind /\ [Next]_vars => Ind'
<1> SUFFICES ASSUME Ind, [Next]_vars PROVE Ind'
  OBVIOUS
<1>1. CASE UNCHANGED vars
  <2>1. TypeOK'
    BY <1>1 DEF vars, Ind, TypeOK, socketVars, pageVars, watchVars, serverVars
  <2> QED
    BY <1>1, <2>1 DEF vars, Ind, Watched, HearsRobot, ButtonsFollow, Apart,
                      socketVars, pageVars, watchVars
<1> QED
  BY <1>1, UserInd, ServerInd, ReceivedInd, SocketInd, TimeInd DEF Next

LEMMA SpecInd == Spec => []Ind
  BY InitInd, NextInd, PTL DEF Spec

-----------------------------------------------------------------------------
(* Every variable of the page's session stays in its type. *)
THEOREM SessionTypes == Spec => []TypeOK
<1>1. Ind => TypeOK
  BY DEF Ind
<1> QED
  BY <1>1, SpecInd, PTL

(* However many watchdogs are left over, a page that is connected or waits *)
(* to be has one that it remembers.                                        *)
THEOREM SessionWatched == Spec => []Watched
<1>1. Ind => Watched
  BY DEF Ind
<1> QED
  BY <1>1, SpecInd, PTL

(* A connected page listens to its robot. *)
THEOREM SessionHeard == Spec => []HearsRobot
<1>1. Ind => HearsRobot
  BY DEF Ind
<1> QED
  BY <1>1, SpecInd, PTL

(* The buttons of a session are enabled exactly while it lasts, and all    *)
(* buttons are disabled only while the callback of a request is in place.  *)
THEOREM SessionButtons == Spec => []ButtonsFollow
<1>1. Ind => ButtonsFollow
  BY DEF Ind
<1> QED
  BY <1>1, SpecInd, PTL

-----------------------------------------------------------------------------
(* The protocol of ConnectProtocol: View is the page's place in it.  A     *)
(* socket that is not open has nothing under way, and a page that waits    *)
(* for the answer to a request to connect has no button to make another.   *)
NothingUnderWay ==
    socket # "open" =>
        jobs["search"] = 0 /\ jobs["connect"] = 0 /\ inbox = <<>>

WaitingForOne ==
    onmessage = "connect" => socket = "open" /\ buttons = "none"

ProtocolInd == Ind /\ NothingUnderWay /\ WaitingForOne

LEMMA JobsKept ==
    ASSUME TypeOK, NEW w \in Work, NEW u \in Work, u # w, NEW n,
           jobs' = [jobs EXCEPT ![w] = n]
    PROVE  jobs'[w] = n /\ jobs'[u] = jobs[u]
  BY DEF TypeOK

LEMMA ProtocolInit == Init => ProtocolInd /\ Protocol!Init
<1> SUFFICES ASSUME Init PROVE ProtocolInd /\ Protocol!Init
  OBVIOUS
<1>1. jobs["search"] = 0 /\ jobs["connect"] = 0
  BY DEF Init, Work
<1>2. View = "closed"
  BY DEF Init, View
<1> QED
  BY <1>1, <1>2, InitInd
     DEF Init, ProtocolInd, NothingUnderWay, WaitingForOne, Protocol!Init

LEMMA ProtocolIndNext == ProtocolInd /\ [Next]_vars => ProtocolInd'
<1> SUFFICES ASSUME ProtocolInd, [Next]_vars PROVE ProtocolInd'
  OBVIOUS
<1>1. Ind' /\ Ind /\ TypeOK /\ NothingUnderWay /\ WaitingForOne
  BY NextInd DEF ProtocolInd, Ind
<1>2. NothingUnderWay'
  <2>1. CASE User \/ Received \/ Tick \/ (\E t \in TimerIds : Fire(t)) \/ UNCHANGED vars
    BY <1>1, <2>1
       DEF User, Request, Cancel, OtherDialog, Disconnect, Sleep, Received,
           ConnectAnswered, SearchAnswered, SpheroMessage, Ignored, Take, Tick, Fire,
           Watch, GiveUp, vars, socketVars, serverVars, NothingUnderWay
  <2>2. CASE Opened
    BY <2>2 DEF Opened, NothingUnderWay
  <2>3. CASE Close
    BY <1>1, <2>3 DEF Close, NothingUnderWay, TypeOK, Work
  <2>4. CASE Server
    <3>1. CASE socket = "open"
      BY <2>4, <3>1 DEF Server, RobotSends, ConnectDone, SearchDone, NothingUnderWay
    <3>2. CASE socket # "open"
      <4>1. Finish("orphan") /\ inbox' = inbox /\ socket' = socket
        BY <1>1, <2>4, <3>2
           DEF Server, RobotSends, ConnectDone, SearchDone, Finish, NothingUnderWay
      <4>2. jobs'["search"] = jobs["search"] /\ jobs'["connect"] = jobs["connect"]
        BY <1>1, <4>1 DEF Finish, TypeOK, Work
      <4> QED
        BY <1>1, <3>2, <4>1, <4>2 DEF NothingUnderWay
    <3> QED
      BY <3>1, <3>2
  <2> QED
    BY <2>1, <2>2, <2>3, <2>4 DEF Next
<1>3. WaitingForOne'
  <2>1. CASE User
    BY <1>1, <2>1
       DEF User, Request, Do, listDevices, connect, Cancel, OtherDialog, Disconnect,
           Sleep, Leave, socketVars, WaitingForOne
  <2>2. CASE Server \/ Tick \/ UNCHANGED vars
    BY <1>1, <2>2
       DEF Server, RobotSends, ConnectDone, SearchDone, Tick, vars, socketVars, pageVars,
           WaitingForOne
  <2>3. CASE Received
    BY <1>1, <2>3
       DEF Received, ConnectAnswered, SearchAnswered, SpheroMessage, Ignored, Take, Leave,
           pageVars, WaitingForOne
  <2>4. CASE Opened \/ Close \/ \E t \in TimerIds : Fire(t)
    BY <1>1, <2>4
       DEF Opened, Do, listDevices, connect, Close, Leave, Fire, Watch, GiveUp,
           pageVars, socketVars, WaitingForOne
  <2> QED
    BY <2>1, <2>2, <2>3, <2>4 DEF Next
<1> QED
  BY <1>1, <1>2, <1>3 DEF ProtocolInd

(* A step that keeps View and the messages keeps the protocol's state. *)
LEMMA SameView ==
    ASSUME UNCHANGED <<socket, isConnected, onmessage>>
    PROVE  View' = View
  BY DEF View

(* What does nothing but take the page out of a request or a session is a  *)
(* Leave of the protocol, or nothing to it.                                *)
LEMMA LeavingIsLeave ==
    ASSUME UNCHANGED <<socket, inbox, jobs>>, isConnected' = FALSE, onmessage' # "connect"
    PROVE  [Protocol!Next]_(Protocol!vars)
<1>1. CASE socket = "open"
  <2>1. View' = "idle" /\ View \in {"idle", "connecting", "connected"}
    BY <1>1 DEF View
  <2> QED
    BY <2>1 DEF Protocol!Leave, Protocol!Next, Protocol!vars
<1>2. CASE socket # "open"
  <2>1. View' = View
    BY <1>2 DEF View
  <2> QED
    BY <2>1 DEF Protocol!vars
<1> QED
  BY <1>1, <1>2

LEMMA UserProtocol ==
    ASSUME ProtocolInd, User
    PROVE  [Protocol!Next]_(Protocol!vars)
<1>1. TypeOK /\ ButtonsFollow /\ HearsRobot /\ Apart /\ NothingUnderWay /\ WaitingForOne
  BY DEF ProtocolInd, Ind
<1>2. ASSUME NEW request \in {"search", "connect"}, Request(request)
      PROVE  [Protocol!Next]_(Protocol!vars)
  <2>1. ~isConnected /\ onmessage # "connect"
    BY <1>1, <1>2 DEF Request, ButtonsFollow, WaitingForOne
  <2>2. CASE socket = "open" /\ listDevices /\ UNCHANGED socketVars
    <3>1. View = "idle" /\ View' = "idle"
      BY <2>1, <2>2 DEF View, listDevices, socketVars
    <3>2. jobs'["connect"] = jobs["connect"] /\ inbox' = inbox
      BY <1>1, <2>2 DEF listDevices, Ask, TypeOK, Work, socketVars
    <3> QED
      BY <3>1, <3>2 DEF Protocol!vars
  <2>3. CASE socket = "open" /\ connect /\ UNCHANGED socketVars
    <3>1. View = "idle" /\ View' = "connecting"
      BY <2>1, <2>3 DEF View, connect, socketVars
    <3>2. jobs'["connect"] = jobs["connect"] + 1 /\ inbox' = inbox
      BY <1>1, <2>3 DEF connect, Ask, TypeOK, Work, socketVars
    <3> QED
      BY <3>1, <3>2 DEF Protocol!Ask, Protocol!Next
  <2>4. CASE /\ socket = "closed" /\ socket' = "opening"
             /\ UNCHANGED <<inbox, jobs>>
    <3>1. View = "closed" /\ View' = "closed"
      BY <2>4 DEF View
    <3> QED
      BY <2>4, <3>1 DEF Protocol!vars
  <2> QED
    BY <1>2, <2>2, <2>3, <2>4 DEF Request, Do
<1>3. CASE Cancel
  <2>1. isConnected' = FALSE
    BY <1>1, <1>3 DEF Cancel, Apart, TypeOK
  <2> QED
    BY <1>3, <2>1, LeavingIsLeave DEF Cancel, socketVars, serverVars
<1>4. CASE OtherDialog
  <2>1. UNCHANGED <<socket, inbox, jobs, isConnected, onmessage>>
    BY <1>4 DEF OtherDialog, socketVars, serverVars
  <2> QED
    BY <2>1, SameView DEF Protocol!vars
<1>5. CASE Disconnect \/ Sleep
  BY <1>5, LeavingIsLeave DEF Disconnect, Sleep, Leave, socketVars, serverVars
<1> QED
  BY <1>2, <1>3, <1>4, <1>5 DEF User

LEMMA ServerProtocol ==
    ASSUME ProtocolInd, Server
    PROVE  [Protocol!Next]_(Protocol!vars)
<1>1. TypeOK /\ NothingUnderWay /\ View' = View
  BY SameView DEF ProtocolInd, Ind, Server, RobotSends, ConnectDone, SearchDone, pageVars
<1>2. View = "closed" => socket # "open"
  BY DEF View
<1>3. CASE RobotSends
  <2>1. PICK note \in Warnings \cup {"collision"} : inbox' = Append(inbox, note)
    BY <1>3 DEF RobotSends, Send
  <2>2. note \in Messages \ {"yes", "no"}
    BY DEF Warnings, Messages
  <2> QED
    BY <1>1, <1>2, <1>3, <2>1, <2>2
       DEF RobotSends, serverVars, Protocol!Tell, Protocol!Next
<1>4. CASE SearchDone
  <2>1. jobs'["connect"] = jobs["connect"] /\ socket = "open"
    BY <1>1, <1>4 DEF SearchDone, Finish, TypeOK, Work, NothingUnderWay
  <2>2. CASE Send("list")
    BY <1>1, <1>2, <2>1, <2>2 DEF Send, Messages, Protocol!Tell, Protocol!Next
  <2>3. CASE UNCHANGED inbox
    BY <1>1, <2>1, <2>3 DEF Protocol!vars
  <2> QED
    BY <1>4, <2>2, <2>3 DEF SearchDone
<1>5. CASE ConnectDone
  <2>1. CASE Finish("orphan") /\ UNCHANGED inbox
    <3>1. jobs'["connect"] = jobs["connect"]
      BY <1>1, <2>1 DEF Finish, TypeOK, Work
    <3> QED
      BY <1>1, <2>1, <3>1 DEF Protocol!vars
  <2>2. CASE Finish("connect") /\ (Send("yes") \/ Send("no"))
    <3>1. jobs["connect"] > 0 /\ jobs'["connect"] = jobs["connect"] - 1
      BY <1>1, <2>2 DEF Finish, TypeOK, Work
    <3>2. \E answer \in Protocol!Answers : inbox' = Append(inbox, answer)
      BY <2>2 DEF Send, Protocol!Answers
    <3> QED
      BY <1>1, <3>1, <3>2 DEF Protocol!Answer, Protocol!Next
  <2> QED
    BY <1>5, <2>1, <2>2 DEF ConnectDone
<1> QED
  BY <1>3, <1>4, <1>5 DEF Server

LEMMA ReceivedProtocol ==
    ASSUME ProtocolInd, Received
    PROVE  [Protocol!Next]_(Protocol!vars)
<1>1. TypeOK /\ HearsRobot
  BY DEF ProtocolInd, Ind
<1>2. /\ socket = "open" /\ socket' = socket /\ jobs' = jobs /\ inbox # <<>>
      /\ inbox' = Tail(inbox)
  BY DEF Received, ConnectAnswered, SearchAnswered, SpheroMessage, Ignored, Take
<1>3. ASSUME Protocol!Hear(Head(inbox)) PROVE Protocol!Next
  BY <1>2, <1>3 DEF Protocol!Receive, Protocol!Next
<1>4. CASE ConnectAnswered
  <2>1. ~isConnected /\ onmessage = "connect" /\ onmessage' = "sphero"
        /\ isConnected' = (Head(inbox) = "yes")
    BY <1>1, <1>4 DEF ConnectAnswered, Take, HearsRobot
  <2>2. View = "connecting"
    BY <1>2, <2>1 DEF View
  <2>3. View' = IF Head(inbox) = "yes" THEN "connected" ELSE "idle"
    BY <1>2, <2>1 DEF View
  <2> QED
    BY <1>3, <2>2, <2>3 DEF Protocol!Hear
<1>5. CASE SearchAnswered \/ Ignored
  <2>1. /\ onmessage \notin {"connect", "sphero"}
        /\ onmessage' \notin {"connect", "sphero"} /\ isConnected' = isConnected
    BY <1>5 DEF SearchAnswered, Ignored, pageVars
  <2>2. View = "idle" /\ View' = "idle"
    BY <1>1, <1>2, <2>1 DEF View, HearsRobot
  <2> QED
    BY <1>3, <2>2 DEF Protocol!Hear
<1>6. CASE SpheroMessage
  <2>1. onmessage = "sphero" /\ View \in {"idle", "connected"}
    BY <1>2, <1>6 DEF SpheroMessage, View
  <2>2. CASE Head(inbox) = "charging"
    <3>1. isConnected' = FALSE /\ onmessage' = "none"
      BY <1>6, <2>2 DEF SpheroMessage, Take, Leave
    <3>2. View' = "idle"
      BY <1>2, <3>1 DEF View
    <3>3. Head(inbox) \in Messages \ {"yes", "no"}
      BY <2>2 DEF Messages, Warnings
    <3> QED
      BY <1>3, <2>1, <3>2, <3>3 DEF Protocol!Hear
  <2>3. CASE Head(inbox) # "charging"
    <3>1. View' = View
      BY <1>2, <1>6, <2>3, SameView DEF SpheroMessage, Take
    <3> QED
      BY <1>3, <2>1, <3>1 DEF Protocol!Hear
  <2> QED
    BY <2>2, <2>3
<1> QED
  BY <1>4, <1>5, <1>6 DEF Received

LEMMA SocketProtocol ==
    ASSUME ProtocolInd, Opened \/ Close
    PROVE  [Protocol!Next]_(Protocol!vars)
<1>1. TypeOK /\ Apart /\ NothingUnderWay /\ WaitingForOne
  BY DEF ProtocolInd, Ind
<1>2. CASE Opened
  <2>1. /\ socket = "opening" /\ socket' = "open" /\ inbox' = inbox /\ View = "closed"
        /\ isConnected = FALSE /\ onmessage # "connect" /\ jobs["connect"] = 0
    BY <1>1, <1>2 DEF Opened, View, Apart, NothingUnderWay, WaitingForOne, TypeOK
  <2>2. CASE listDevices \/ UNCHANGED <<pageVars, watchVars, jobs>>
    <3>1. jobs'["connect"] = 0
      BY <1>1, <2>1, <2>2 DEF listDevices, Ask, TypeOK, Work
    <3>2. isConnected' = FALSE /\ onmessage' # "connect"
      BY <2>1, <2>2 DEF listDevices, pageVars
    <3>3. View' = "idle"
      BY <2>1, <3>2 DEF View
    <3> QED
      BY <2>1, <3>1, <3>3 DEF Protocol!Open, Protocol!Next
  <2>3. CASE connect
    <3>1. jobs'["connect"] = 1
      BY <1>1, <2>1, <2>3 DEF connect, Ask, TypeOK, Work
    <3>2. View' = "connecting"
      BY <2>1, <2>3 DEF connect, View
    <3> QED
      BY <2>1, <3>1, <3>2 DEF Protocol!Open, Protocol!Next
  <2> QED
    BY <1>2, <2>2, <2>3 DEF Opened, Do
<1>3. CASE Close
  <2>1. View' = "closed" /\ inbox' = <<>>
    BY <1>3 DEF Close, View
  <2>2. jobs'["connect"] = 0
    BY <1>1, <1>3 DEF Close, TypeOK, Work
  <2>3. CASE socket = "open"
    <3>1. View # "closed"
      BY <2>3 DEF View
    <3> QED
      BY <2>1, <2>2, <3>1 DEF Protocol!Close, Protocol!Next
  <2>4. CASE socket # "open"
    <3>1. View = "closed" /\ inbox = <<>> /\ jobs["connect"] = 0
      BY <1>1, <2>4 DEF View, NothingUnderWay
    <3> QED
      BY <2>1, <2>2, <3>1 DEF Protocol!vars
  <2> QED
    BY <2>3, <2>4
<1> QED
  BY <1>2, <1>3

LEMMA TimeProtocol ==
    ASSUME ProtocolInd, Tick \/ \E t \in TimerIds : Fire(t)
    PROVE  [Protocol!Next]_(Protocol!vars)
<1>1. CASE Tick \/ \E t \in TimerIds : Watch(t)
  <2>1. UNCHANGED <<socket, inbox, jobs, isConnected, onmessage>>
    BY <1>1 DEF Tick, Watch, socketVars, pageVars, serverVars
  <2> QED
    BY <2>1, SameView DEF Protocol!vars
<1>2. CASE \E t \in TimerIds : GiveUp(t)
  BY <1>2, LeavingIsLeave DEF GiveUp, Leave, socketVars
<1> QED
  BY <1>1, <1>2 DEF Fire

LEMMA ProtocolStep ==
    ProtocolInd /\ [Next]_vars => [Protocol!Next]_(Protocol!vars)
<1> SUFFICES ASSUME ProtocolInd, [Next]_vars PROVE [Protocol!Next]_(Protocol!vars)
  OBVIOUS
<1>1. CASE UNCHANGED vars
  <2>1. UNCHANGED <<socket, inbox, jobs, isConnected, onmessage>>
    BY <1>1 DEF vars, socketVars, pageVars, serverVars
  <2> QED
    BY <2>1, SameView DEF Protocol!vars
<1> QED
  BY <1>1, UserProtocol, ServerProtocol, ReceivedProtocol, SocketProtocol, TimeProtocol
     DEF Next

(* The page becomes connected only while it waits, by a "yes" to a request *)
(* that it made on this socket, whatever dialogs, watchdogs and leftover   *)
(* callbacks do in between; whatever else arrives while it waits is a "no" *)
(* to it, and what was meant for an earlier socket does not reach it.      *)
THEOREM SessionFollows == Spec => Protocol!Spec
<1>1. Spec => []ProtocolInd
  BY ProtocolInit, ProtocolIndNext, PTL DEF Spec
<1> QED
  BY <1>1, ProtocolInit, ProtocolStep, PTL DEF Spec, Protocol!Spec
=============================================================================
