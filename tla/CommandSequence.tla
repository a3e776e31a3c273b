-------------------------- MODULE CommandSequence --------------------------
(***************************************************************************)
(* What the page's program executor promises, without timers, handlers or  *)
(* the browser: commands wait in one sequence and are issued from its      *)
(* front.  A collision only puts commands before those that wait, a        *)
(* program is only given up for a new request of the user, and a sequence  *)
(* that waits is issued to its end.  Once a handler or a command has       *)
(* failed nothing is promised until the next request.                      *)
(*                                                                         *)
(* ProgramExecutor implements this specification.                          *)
(***************************************************************************)
EXTENDS Naturals, Sequences

CONSTANT Commands

VARIABLES
    waiting,        \* the commands not yet issued
    failed,         \* an exception has escaped since the last request
    requests,       \* requests of the user so far
    collisions      \* collisions so far

vars == <<waiting, failed, requests, collisions>>

Init ==
    /\ waiting = <<>>
    /\ failed = FALSE
    /\ requests = 0
    /\ collisions = 0

(* A button: it starts a program, ends one, or leaves it alone. *)
Request ==
    /\ requests' = requests + 1
    /\ waiting' \in Seq(Commands)
    /\ failed' \in BOOLEAN
    /\ UNCHANGED collisions

Issue ==
    /\ ~failed
    /\ waiting # <<>>
    /\ waiting' = Tail(waiting)
    /\ UNCHANGED <<failed, requests, collisions>>

(* What is in front of the commands that wait is new; they stay as they    *)
(* are.  The first of the new commands may be issued at once when nothing  *)
(* waits.                                                                  *)
Interrupt ==
    /\ ~failed
    /\ collisions' = collisions + 1
    /\ waiting' \in Seq(Commands)
    /\ Len(waiting') >= Len(waiting)
    /\ SubSeq(waiting', Len(waiting') - Len(waiting) + 1, Len(waiting')) = waiting
    /\ UNCHANGED <<failed, requests>>

(* The sequence has been issued, and the program's end adds to it. *)
Extend ==
    /\ waiting = <<>>
    /\ waiting' \in Seq(Commands)
    /\ UNCHANGED <<failed, requests, collisions>>

(* A handler or a command fails, or has failed. *)
Fail ==
    /\ failed' = TRUE
    /\ waiting' \in Seq(Commands)
    /\ collisions' \in {collisions, collisions + 1}
    /\ UNCHANGED requests

Next == Request \/ Issue \/ Interrupt \/ Extend \/ Fail

Spec == Init /\ [][Next]_vars

(* Weak fairness of Issue, with its enabling condition written out: a      *)
(* sequence does not wait for ever.                                        *)
CanIssue == ~failed /\ waiting # <<>>

Issued == <>[]CanIssue => []<><<Issue>>_vars

FairSpec == Spec /\ Issued
=============================================================================
