---------------------------- MODULE ClientSession ----------------------------
(***************************************************************************)
(* The page's session with the server and the robot: SpheroConnection and  *)
(* the connection half of Sphero in SpherlyServer/assets/www/Sphero.js,    *)
(* and the toolbar and dialogs of runblockly.js.                           *)
(*                                                                         *)
(* The socket has one message callback.  A search, a request to connect    *)
(* and the connected robot each set it to a function of their own, which   *)
(* takes whatever message comes next for its answer.  Every request to     *)
(* connect starts a watchdog, of which only the last id is remembered.     *)
(* Clicks, messages and timers are turns of the browser's event loop: one  *)
(* atomic action each.  The server is as much of SpherlyServer as the page *)
(* can see: requests that are answered late, never, or for nobody.         *)
(***************************************************************************)
EXTENDS Naturals, Sequences, FiniteSets

CONSTANTS
    TimerIds,       \* the bound on watchdogs pending at the same time
    NoTimer,        \* power_timeout_id = null
    MaxJobs,        \* the bound on requests the server works on
    power_timeout,  \* in ticks
    MaxInbox        \* the bound on messages on their way to the page

ASSUME SessionAssumption ==
    /\ IsFiniteSet(TimerIds) /\ NoTimer \notin TimerIds
    /\ power_timeout \in Nat \ {0} /\ MaxJobs \in Nat /\ MaxInbox \in Nat

VARIABLES
    socket,         \* "opening", "open" or "closed"
    wanted,         \* what tryTo does once the socket is open
    onmessage,      \* the socket's callback
    inbox,          \* messages on their way
    isConnected,    \* Sphero.isConnected
    buttons,        \* the enabled buttons: select and connect, those of a
                    \* session, or none
    dialog,         \* what the dialog's button does, shown or not
    watchdogs,      \* ticks left of each pending watchdog
    power_timeout_id,
    got_power_notification,
    jobs,           \* the server's threads, counted by what they work on
    linked,         \* the server has a connection to the robot
    silence         \* history: ticks since the page heard of the robot, capped

socketVars == <<socket, wanted, inbox>>
pageVars == <<onmessage, isConnected, buttons, dialog>>
watchVars == <<watchdogs, power_timeout_id, got_power_notification>>
serverVars == <<jobs, linked>>
vars == <<socketVars, pageVars, watchVars, serverVars, silence>>

Callbacks == {"none", "search", "connect", "sphero", "log"}
Warnings == {"charging", "power"}           \* notifications of the robot's power
Messages == Warnings \cup {"list", "yes", "no", "collision"}

(* An orphan makes a connection for a page whose socket has closed. *)
Work == {"search", "connect", "orphan"}

-----------------------------------------------------------------------------
(* Watchdogs *)

Arm ==
    \E t \in TimerIds \ DOMAIN watchdogs :
        /\ watchdogs' = [u \in DOMAIN watchdogs \cup {t} |->
                            IF u = t THEN power_timeout ELSE watchdogs[u]]
        /\ power_timeout_id' = t

(* Those in fired have fired.                                              *)
stopPowerNotifications(fired) ==
    /\ watchdogs' = [t \in DOMAIN watchdogs \ (fired \cup {power_timeout_id}) |->
                        watchdogs[t]]
    /\ power_timeout_id' = NoTimer

-----------------------------------------------------------------------------
(* SpheroManager.disconnect: the buttons, the watchdog, the callback and,  *)
(* if the socket is open, the server.                                      *)
(* mutation: the callback is left                                          *)
LeaveListening(fired) ==
    /\ isConnected' = FALSE
    /\ buttons' = "select"
    /\ stopPowerNotifications(fired)
    /\ UNCHANGED onmessage

Leave(fired) ==
    /\ isConnected' = FALSE
    /\ onmessage' = "none"
    /\ buttons' = "select"
    /\ stopPowerNotifications(fired)

(* The socket closes, and the server's onClose disconnects the robot.      *)
(* Nobody hears the answers to come.                                       *)
Close ==
    /\ socket # "closed"
    /\ socket' = "closed"
    /\ wanted' = "nothing"
    /\ inbox' = <<>>
    /\ Leave({})
    /\ dialog' = "plain"
    /\ linked' = (socket = "opening" /\ linked)
    /\ jobs' = [jobs EXCEPT !["search"] = 0, !["connect"] = 0,
                            !["orphan"] = @ + jobs["connect"]]
    /\ UNCHANGED <<got_power_notification, silence>>

Disconnect ==
    /\ buttons = "session"
    /\ Leave({})
    /\ linked' = FALSE
    /\ UNCHANGED <<socketVars, dialog, got_power_notification, jobs, silence>>

(* The robot sleeps, and the server keeps its connection. *)
Sleep ==
    /\ buttons = "session"
    /\ Leave({})
    /\ UNCHANGED <<socketVars, dialog, got_power_notification, serverVars, silence>>

-----------------------------------------------------------------------------
(* Requests *)

Ask(request) ==
    /\ jobs["search"] + jobs["connect"] + jobs["orphan"] < MaxJobs
    /\ jobs' = [jobs EXCEPT ![request] = @ + 1]

listDevices ==
    /\ Ask("search")
    /\ onmessage' = "search"
    /\ buttons' = "none"
    /\ dialog' = "searching"
    /\ UNCHANGED <<isConnected, watchVars>>

(* mutation: the request sets no watchdog *)
connectUnwatched ==
    /\ Ask("connect")
    /\ onmessage' = "connect"
    /\ buttons' = "none"
    /\ dialog' = "connecting"
    /\ got_power_notification' = TRUE
    /\ UNCHANGED <<isConnected, watchdogs, power_timeout_id>>

connect ==
    /\ Ask("connect")
    /\ onmessage' = "connect"
    /\ buttons' = "none"
    /\ dialog' = "connecting"
    /\ got_power_notification' = TRUE
    /\ Arm
    /\ UNCHANGED isConnected

Do(request) == (request = "search" /\ listDevices) \/ (request = "connect" /\ connect)

(* tryTo.  A closed socket is opened first, with no callback, and the      *)
(* request is made when it is open.  The user waits for that.              *)
Request(request) ==
    /\ buttons = "select"
    /\ \/ socket = "open" /\ Do(request) /\ UNCHANGED socketVars
       \/ /\ socket = "closed"
          /\ socket' = "opening"
          /\ wanted' = request
          /\ onmessage' = "none"
          /\ UNCHANGED <<inbox, isConnected, buttons, dialog, watchVars, jobs>>
    /\ UNCHANGED <<linked, silence>>

(* A watchdog of an earlier request may have come in between. *)
Opened ==
    /\ socket = "opening"
    /\ socket' = "open"
    /\ wanted' = "nothing"
    /\ \/ Do(wanted)
       \/ wanted = "nothing" /\ UNCHANGED <<pageVars, watchVars, jobs>>
    /\ UNCHANGED <<inbox, linked, silence>>

(* Cancel in the dialog, or the Enter key when the dialog is hidden: the   *)
(* dialog keeps its button.  The server's thread goes on.                  *)
Cancel ==
    /\ dialog \in {"searching", "connecting"}
    /\ socket = "open"
    /\ buttons' = "select"
    /\ onmessage' = "log"
    /\ UNCHANGED <<socketVars, isConnected, dialog, watchVars, serverVars, silence>>

(* Any other dialog, of projects or languages, takes the place of this one. *)
OtherDialog ==
    /\ dialog # "plain"
    /\ dialog' = "plain"
    /\ UNCHANGED <<socketVars, onmessage, isConnected, buttons, watchVars,
                   serverVars, silence>>

-----------------------------------------------------------------------------
(* The server and the robot *)

Send(message) == Len(inbox) < MaxInbox /\ inbox' = Append(inbox, message)

Finish(work) == jobs[work] > 0 /\ jobs' = [jobs EXCEPT ![work] = @ - 1]

(* A request to connect that fails closes whatever connection there is.    *)
ConnectDone ==
    /\ \/ Finish("connect") /\ linked' = TRUE /\ Send("yes")
       \/ Finish("connect") /\ linked' = FALSE /\ Send("no")
       \/ Finish("orphan") /\ linked' \in BOOLEAN /\ UNCHANGED inbox
    /\ UNCHANGED <<socket, wanted, pageVars, watchVars, silence>>

(* A search that fails or is cancelled gives no answer. *)
SearchDone ==
    /\ Finish("search")
    /\ Send("list") \/ UNCHANGED inbox
    /\ UNCHANGED <<socket, wanted, pageVars, watchVars, linked, silence>>

RobotSends ==
    /\ linked /\ socket = "open"
    /\ \E message \in Warnings \cup {"collision"} : Send(message)
    /\ UNCHANGED <<socket, wanted, pageVars, watchVars, serverVars, silence>>

-----------------------------------------------------------------------------
(* Messages.  message is the first of the inbox. *)

Take(message) ==
    /\ socket = "open" /\ inbox # <<>>
    /\ message = Head(inbox)
    /\ inbox' = Tail(inbox)
    /\ UNCHANGED <<socket, wanted, jobs>>

(* The answer to the request to connect, or what is taken for it: any      *)
(* message but "yes" is a failure.                                         *)
(* mutation: the robot's messages get no callback                          *)
ConnectAnsweredOnce ==
    \E message \in Messages :
        /\ onmessage = "connect"
        /\ Take(message)
        /\ isConnected' = (message = "yes")
        /\ buttons' = IF message = "yes" THEN "session" ELSE "select"
        /\ dialog' = "plain"
        /\ onmessage' = "none"
        /\ silence' = 0
        /\ UNCHANGED <<watchVars, linked>>

ConnectAnswered ==
    \E message \in Messages :
        /\ onmessage = "connect"
        /\ Take(message)
        /\ isConnected' = (message = "yes")
        /\ buttons' = IF message = "yes" THEN "session" ELSE "select"
        /\ dialog' = "plain"
        /\ onmessage' = "sphero"
        /\ silence' = 0
        /\ UNCHANGED <<watchVars, linked>>

(* Anything but a list raises an exception in the callback, which stays.   *)
(* mutation: the callback is removed whatever it did                       *)
SearchAnsweredOnce ==
    \E message \in Messages :
        /\ onmessage = "search"
        /\ Take(message)
        /\ onmessage' = "none"
        /\ IF message = "list"
           THEN buttons' = "select" /\ dialog' = "plain"
           ELSE UNCHANGED <<buttons, dialog>>
        /\ UNCHANGED <<isConnected, watchVars, linked, silence>>

SearchAnswered ==
    \E message \in Messages :
        /\ onmessage = "search"
        /\ Take(message)
        /\ IF message = "list"
           THEN buttons' = "select" /\ dialog' = "plain" /\ onmessage' = "none"
           ELSE UNCHANGED <<buttons, dialog, onmessage>>
        /\ UNCHANGED <<isConnected, watchVars, linked, silence>>

(* A low battery is told the user, a full one is not.  The program's       *)
(* collisions are the executor's business.                                 *)
SpheroMessage ==
    \E message \in Messages :
        /\ onmessage = "sphero"
        /\ Take(message)
        /\ dialog' \in (IF message \in Warnings THEN {"plain"} ELSE {})
                        \cup (IF message # "charging" THEN {dialog} ELSE {})
        /\ got_power_notification' = (got_power_notification \/ message \in Warnings)
        /\ silence' = IF message \in Warnings THEN 0 ELSE silence
        /\ IF message = "charging"
           THEN Leave({}) /\ linked' = FALSE
           ELSE UNCHANGED <<isConnected, onmessage, buttons, watchdogs,
                            power_timeout_id, linked>>

Ignored ==
    \E message \in Messages :
        /\ onmessage \in {"none", "log"}
        /\ Take(message)
        /\ UNCHANGED <<pageVars, watchVars, linked, silence>>

-----------------------------------------------------------------------------
(* powerNotificationHandler *)

Tick ==
    /\ \E t \in DOMAIN watchdogs : watchdogs[t] > 0
    /\ watchdogs' = [t \in DOMAIN watchdogs |->
                        IF watchdogs[t] > 0 THEN watchdogs[t] - 1 ELSE 0]
    /\ silence' = IF silence < power_timeout THEN silence + 1 ELSE silence
    /\ UNCHANGED <<socketVars, pageVars, power_timeout_id, got_power_notification,
                   serverVars>>

Due(t) == t \in DOMAIN watchdogs /\ watchdogs[t] = 0

(* The watchdog is set again, and the new one's id remembered: it is called *)
(* t again.                                                                *)
(* mutation: the flag is not reset *)
WatchTrusting(t) ==
    /\ Due(t) /\ got_power_notification
    /\ watchdogs' = [watchdogs EXCEPT ![t] = power_timeout]
    /\ power_timeout_id' = t
    /\ UNCHANGED <<socketVars, pageVars, got_power_notification, serverVars, silence>>

Watch(t) ==
    /\ Due(t) /\ got_power_notification
    /\ watchdogs' = [watchdogs EXCEPT ![t] = power_timeout]
    /\ power_timeout_id' = t
    /\ got_power_notification' = FALSE
    /\ UNCHANGED <<socketVars, pageVars, serverVars, silence>>

(* "Sphero Off" *)
GiveUp(t) ==
    /\ Due(t) /\ ~got_power_notification
    /\ dialog' = "plain"
    /\ Leave({t})
    /\ linked' = (linked /\ socket # "open")
    /\ UNCHANGED <<socketVars, got_power_notification, jobs, silence>>

Fire(t) == Watch(t) \/ GiveUp(t)

-----------------------------------------------------------------------------
Init ==
    /\ socket = "opening"
    /\ wanted = "nothing"
    /\ onmessage = "none"
    /\ inbox = <<>>
    /\ isConnected = FALSE
    /\ buttons = "select"
    /\ dialog = "plain"
    /\ watchdogs = [t \in {} |-> 0]
    /\ power_timeout_id = NoTimer
    /\ got_power_notification = FALSE
    /\ jobs = [work \in Work |-> 0]
    /\ linked = FALSE
    /\ silence = 0

User ==
    \/ \E request \in {"search", "connect"} : Request(request)
    \/ Cancel \/ OtherDialog \/ Disconnect \/ Sleep

Server == RobotSends \/ ConnectDone \/ SearchDone

Received == ConnectAnswered \/ SearchAnswered \/ SpheroMessage \/ Ignored

Next ==
    \/ User \/ Server \/ Received
    \/ Opened \/ Close
    \/ Tick
    \/ \E t \in TimerIds : Fire(t)

Spec == Init /\ [][Next]_vars

(* Time passes and the browser runs every timer that is due.  Nothing is   *)
(* assumed of the user, the server and the network.                        *)
Fairness == WF_vars(Tick) /\ \A t \in TimerIds : WF_vars(Fire(t))

FairSpec == Spec /\ Fairness

-----------------------------------------------------------------------------
(* Properties *)

(* Every variable stays in the set of values the code gives it: the base   *)
(* of the proofs.                                                          *)
TypeOK ==
    /\ socket \in {"opening", "open", "closed"}
    /\ wanted \in {"nothing", "search", "connect"}
    /\ onmessage \in Callbacks
    /\ inbox \in Seq(Messages)
    /\ isConnected \in BOOLEAN
    /\ buttons \in {"select", "session", "none"}
    /\ dialog \in {"plain", "searching", "connecting"}
    /\ DOMAIN watchdogs \subseteq TimerIds
    /\ watchdogs \in [DOMAIN watchdogs -> 0..power_timeout]
    /\ power_timeout_id \in TimerIds \cup {NoTimer}
    /\ got_power_notification \in BOOLEAN
    /\ jobs \in [Work -> Nat]
    /\ linked \in BOOLEAN
    /\ silence \in 0..power_timeout

(* However many watchdogs earlier requests have left behind, a page that   *)
(* is connected, or waits to be, has one pending whose id it remembers.    *)
Watched ==
    isConnected \/ onmessage = "connect" => power_timeout_id \in DOMAIN watchdogs

(* A connected page listens to its robot: no leftover dialog and no other  *)
(* request takes the one callback from it.                                 *)
HearsRobot == isConnected => onmessage = "sphero"

(* The buttons of a session are enabled exactly while it lasts, and every  *)
(* button is disabled only while the callback of a request is in place,    *)
(* whose answer enables them again.  That answer may never come: a search  *)
(* that was refused or interrupted sends none, and only the Cancel button  *)
(* of its dialog helps, which another dialog may have replaced.            *)
ButtonsFollow ==
    /\ buttons = "session" <=> isConnected
    /\ buttons = "none" => onmessage \in {"connect", "search"}

(* What the page is in ConnectProtocol. *)
View ==
    CASE socket # "open" -> "closed"
      [] socket = "open" /\ isConnected -> "connected"
      [] socket = "open" /\ ~isConnected /\ onmessage = "connect" -> "connecting"
      [] OTHER -> "idle"

Protocol == INSTANCE ConnectProtocol
    WITH Notes <- Messages \ {"yes", "no"}, page <- View, requests <- jobs["connect"]

(* A page becomes connected only by a "yes" to a request that it made on   *)
(* this socket, late as it may come, whatever dialogs, watchdogs and       *)
(* leftover callbacks do in between.  And a request to connect ends,       *)
(* whatever the server and the network do: the watchdog gives up if no     *)
(* answer comes.                                                           *)
ImplementsProtocol == Protocol!FairSpec

(* A page does not stay connected to a silent robot: it is either told of  *)
(* its power again and again, or ends the session.                         *)
SilenceNoticed == <>[]isConnected => []<>(silence < power_timeout)

(* Sphero.js:97: "Cannot communicate with Sphero".  A connected page is    *)
(* told so only when nothing was heard for the time of a watchdog.         *)
OffMeansSilent ==
    [][isConnected /\ (\E t \in TimerIds : GiveUp(t))
            => silence >= power_timeout]_vars
=============================================================================
