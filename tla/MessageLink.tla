---------------------------- MODULE MessageLink ----------------------------
(***************************************************************************)
(* What the WebSocket library promises to a page and to the application,   *)
(* without threads, buffers or frames: two lines of messages.  The         *)
(* application gets the page's messages one after the other, and never one *)
(* that the page has not sent.  The page gets what was written, in that    *)
(* order, as long as the connection is up; the first of it is the response *)
(* to its handshake, of which there is one, and the page sends nothing     *)
(* before it.  A connection that is down stays down.  Then the page        *)
(* neither sends nor gets anything, but the application may still be given *)
(* what has arrived, and may go on writing.                                *)
(*                                                                         *)
(* PageSocket implements this specification.                               *)
(***************************************************************************)
EXTENDS Naturals, Sequences

CONSTANTS
    Answers,        \* what may be written for the page
    Response        \* the one that answers its handshake

VARIABLES
    up,             \* both ends are open
    sent,           \* how many messages the page has sent
    handled,        \* the messages that the application was given
    written,        \* what was written for the page
    received        \* what the page got of it

vars == <<up, sent, handled, written, received>>

Init ==
    /\ up = TRUE
    /\ sent = 0
    /\ handled = <<>>
    /\ written = <<>>
    /\ received = <<>>

Send ==
    /\ up
    /\ received # <<>>
    /\ sent' = sent + 1
    /\ UNCHANGED <<up, handled, written, received>>

Handle ==
    /\ Len(handled) < sent
    /\ handled' = Append(handled, Len(handled) + 1)
    /\ UNCHANGED <<up, sent, written, received>>

Write ==
    /\ \E a \in Answers :
          /\ a = Response <=> written = <<>>
          /\ written' = Append(written, a)
    /\ UNCHANGED <<up, sent, handled, received>>

Deliver ==
    /\ up
    /\ Len(received) < Len(written)
    /\ received' = Append(received, written[Len(received) + 1])
    /\ UNCHANGED <<up, sent, handled, written>>

HangUp ==
    /\ up
    /\ up' = FALSE
    /\ UNCHANGED <<sent, handled, written, received>>

Next == Send \/ Handle \/ Write \/ Deliver \/ HangUp

Spec == Init /\ [][Next]_vars
=============================================================================
