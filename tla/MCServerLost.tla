---------------------------- MODULE MCServerLost ----------------------------
(***************************************************************************)
(* SpherlyServer with a user who leaves a connected page alone, so that    *)
(* only the page's power watchdog ends a session (Sphero.js:94-104).  The  *)
(* watchdog waits for seconds: by then every listener has read from the    *)
(* silent robot Patience times, or is caught in a read without end.        *)
(***************************************************************************)
EXTENDS SpherlyServer

CONSTANT Patience

VARIABLE failures   \* history: each listener's reads of a lost link, up to Patience

PowerTimeout ==
    /\ page = "connected" /\ connection \in lost
    /\ \A t \in Threads : Listening(t) => failures[t] = Patience
    /\ Disconnect

LeftAlone == page = "connected" /\ page' # "connected" => PowerTimeout

ReadLost(t) == listener[t].reading \in lost /\ (ReadFails(t) \/ EndOfStream(t))

CountFailures ==
    failures' = [t \in Threads |->
        CASE ReadLost(t) /\ listener'[t].pc = "spin" -> Patience
          [] ReadLost(t) /\ listener'[t].pc # "spin" /\ failures[t] < Patience -> failures[t] + 1
          [] OTHER -> failures[t]]

LostInit == Init /\ failures = [t \in Threads |-> 0]
LostNext == Next /\ LeftAlone /\ CountFailures

lostVars == <<vars, failures>>

LostSpec ==
    /\ LostInit /\ [][LostNext]_lostVars
    /\ Fairness /\ WF_lostVars(PowerTimeout /\ CountFailures)
=============================================================================
