-------------------------- MODULE ConnectProtocol --------------------------
(***************************************************************************)
(* How a page comes to be connected to a robot, as the page and the server *)
(* both see it, without threads, links, dialogs or timers.  A page asks,   *)
(* and the server works on its requests, of which there are more than one  *)
(* when the page has cancelled and asked again.  Each of them is answered  *)
(* at most once, and a page becomes connected only when it waits and a     *)
(* "yes" to one of them arrives.  Whatever else arrives while it waits is  *)
(* taken for a "no".  A page that has closed hears of nothing any more,    *)
(* and the next one starts with no requests.  No page waits for ever.      *)
(*                                                                         *)
(* ClientSession, with the server as an environment, and SpherlyServer,    *)
(* with the page as an environment, both implement this specification.     *)
(***************************************************************************)
EXTENDS Naturals, Sequences

CONSTANT Notes      \* what is sent to a page besides answers

VARIABLES
    page,           \* "closed", "idle", "connecting" or "connected"
    requests,       \* how many requests of this page the server works on
    inbox           \* messages on their way to the page

vars == <<page, requests, inbox>>

Answers == {"yes", "no"}

Init ==
    /\ page = "closed"
    /\ requests = 0
    /\ inbox = <<>>

(* A page may be opened in order to ask. *)
Open ==
    /\ page = "closed"
    /\ \/ page' = "idle" /\ requests' = 0
       \/ page' = "connecting" /\ requests' = 1
    /\ UNCHANGED inbox

Ask ==
    /\ page = "idle"
    /\ page' = "connecting"
    /\ requests' = requests + 1
    /\ UNCHANGED inbox

(* The page cancels, disconnects, gives up, or hears something at once     *)
(* that is no answer.  The server's work goes on.                          *)
Leave ==
    /\ page \in {"connecting", "connected"}
    /\ page' = "idle"
    /\ UNCHANGED <<requests, inbox>>

Close ==
    /\ page # "closed"
    /\ page' = "closed"
    /\ requests' = 0
    /\ inbox' = <<>>

(* The server ends its work on a request, with or without an answer. *)
Answer ==
    /\ requests > 0
    /\ requests' = requests - 1
    /\ inbox' \in {inbox} \cup {Append(inbox, answer) : answer \in Answers}
    /\ UNCHANGED page

Tell ==
    /\ page # "closed"
    /\ \E note \in Notes : inbox' = Append(inbox, note)
    /\ UNCHANGED <<page, requests>>

(* A connected page ends its session on some of what it hears. *)
Hear(message) ==
    \/ page = "connecting" /\ page' = IF message = "yes" THEN "connected" ELSE "idle"
    \/ page = "connected" /\ message \in Notes /\ page' = "idle"
    \/ page # "connecting" /\ page' = page

Receive ==
    /\ inbox # <<>>
    /\ Hear(Head(inbox))
    /\ inbox' = Tail(inbox)
    /\ UNCHANGED requests

(* An answer that arrives as soon as it is given *)
AnswerAtOnce ==
    /\ requests > 0 /\ inbox = <<>>
    /\ requests' = requests - 1
    /\ \E answer \in Answers : Hear(answer)
    /\ UNCHANGED inbox

Next ==
    \/ Open \/ Ask \/ Leave \/ Close
    \/ Answer \/ Tell \/ Receive \/ AnswerAtOnce

Spec == Init /\ [][Next]_vars

(* The page is answered, or gives up itself. *)
Answered == page = "connecting" ~> page # "connecting"

FairSpec == Spec /\ Answered
=============================================================================
