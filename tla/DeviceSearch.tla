---------------------------- MODULE DeviceSearch ----------------------------
(***************************************************************************)
(* The search for robots: the messages listDevices and cancelListDevices   *)
(* of SpherlyWebSocketServer.java, Sphero.FindSpheros and                  *)
(* bluecoveRFCOMM.findDevices.                                             *)
(*                                                                         *)
(* Every search has a thread of its own, which starts an inquiry of the    *)
(* Bluetooth stack and waits on a lock until a callback notifies it.  All  *)
(* of them share one vector of devices, one lock and the field sp_devices. *)
(* Threads is also the bound on searches.  Java's lock.wait() may return   *)
(* for no reason; here it only does when notified or interrupted.          *)
(***************************************************************************)
EXTENDS Naturals, FiniteSets

CONSTANTS
    Threads,
    Devices,        \* devices in range
    Spheros,        \* those with "Sphero" in their name
    None            \* null

ASSUME SearchAssumption ==
    /\ IsFiniteSet(Threads) /\ None \notin Threads
    /\ Spheros \subseteq Devices

VARIABLES
    pc,             \* where each thread is
    listDevicesThread,
    interrupted,    \* threads whose interrupt flag is set
    lock,           \* the thread that holds the lock
    devicesDiscovered,
    result,         \* what each thread got from findDevices and FindSpheros
    sp_devices,
    running,        \* the stack makes an inquiry
    completing,     \* inquiries that are over and have not called back
    answer,         \* what each thread sent to its page
    found,          \* history: what was discovered since each thread's inquiry
                    \* began
    alone           \* history: threads that no other search, no cancellation
                    \* and no refusal has touched

stackVars == <<running, completing>>
vars == <<pc, listDevicesThread, interrupted, lock, devicesDiscovered, result,
          sp_devices, stackVars, answer, found, alone>>

Results == (SUBSET Devices) \cup {None}
States == {"new", "clear", "start", "wait", "waiting", "woken", "filter",
           "filtering", "assign", "answer", "done"}

Waiting == {t \in Threads : pc[t] = "waiting"}
Active(t) == pc[t] \notin {"new", "done"}
Goto(t, s) == pc' = [pc EXCEPT ![t] = s]
Result(t, r) == result' = [result EXCEPT ![t] = r]

-----------------------------------------------------------------------------
(* Messages of the page *)

(* The new search is alone unless there is still something of another one. *)
ListDevices(t) ==
    LET others == {u \in Threads : Active(u)}
        quiet == others = {} /\ ~running /\ completing = 0
    IN  /\ pc[t] = "new"
        /\ Goto(t, "clear")
        /\ listDevicesThread' = t
        /\ alone' = (alone \ others) \cup (IF quiet THEN {t} ELSE {})
        /\ UNCHANGED <<interrupted, lock, devicesDiscovered, result, sp_devices,
                       stackVars, answer, found>>

CancelListDevices ==
    LET t == listDevicesThread IN
    /\ t # None
    /\ listDevicesThread' = None
    /\ interrupted' = interrupted \cup ({t} \cap {u \in Threads : Active(u)})
    /\ alone' = IF Active(t) THEN alone \ {t} ELSE alone
    /\ UNCHANGED <<pc, lock, devicesDiscovered, result, sp_devices, stackVars,
                   answer, found>>

-----------------------------------------------------------------------------
(* findDevices *)

(* mutation: the devices of the last search are kept *)
ClearDevicesNot(t) ==
    /\ pc[t] = "clear"
    /\ Goto(t, "start")
    /\ UNCHANGED <<listDevicesThread, interrupted, lock, devicesDiscovered, result,
                   sp_devices, stackVars, answer, found, alone>>

ClearDevices(t) ==
    /\ pc[t] = "clear"
    /\ devicesDiscovered' = {}
    /\ Goto(t, "start")
    /\ UNCHANGED <<listDevicesThread, interrupted, lock, result, sp_devices,
                   stackVars, answer, found, alone>>

(* The stack makes one inquiry at a time, and may have no Bluetooth at all *)
(* (an exception) or not start an inquiry (no devices).                    *)
Started(t) ==
    /\ ~running
    /\ running' = TRUE
    /\ found' = [found EXCEPT ![t] = {}]
    /\ Goto(t, "wait")
    /\ UNCHANGED <<result, alone>>

Refused(t) ==
    /\ Goto(t, "assign")
    /\ Result(t, None)
    /\ alone' = alone \ {t}
    /\ UNCHANGED <<running, found>>

NotStarted(t) ==
    /\ ~running
    /\ Goto(t, "filter")
    /\ alone' = alone \ {t}
    /\ UNCHANGED <<running, found, result>>

(* mutation: the inquiry is started before the lock is taken *)
StartInquiryUnlocked(t) ==
    /\ pc[t] = "start" /\ lock = None
    /\ Started(t) \/ Refused(t) \/ NotStarted(t)
    /\ UNCHANGED <<lock, listDevicesThread, interrupted, devicesDiscovered, sp_devices,
                   completing, answer>>

StartInquiry(t) ==
    /\ pc[t] = "start" /\ lock = None
    /\ Started(t) \/ Refused(t) \/ NotStarted(t)
    /\ lock' = IF pc'[t] = "wait" THEN t ELSE None
    /\ UNCHANGED <<listDevicesThread, interrupted, devicesDiscovered, sp_devices,
                   completing, answer>>

(* lock.wait() *)
Wait(t) ==
    /\ pc[t] = "wait"
    /\ lock' = None
    /\ Goto(t, "waiting")
    /\ UNCHANGED <<listDevicesThread, interrupted, devicesDiscovered, result,
                   sp_devices, stackVars, answer, found, alone>>

(* InterruptedException, also when the flag was set before the wait.  The  *)
(* inquiry goes on.                                                        *)
Interrupted(t) ==
    /\ pc[t] = "waiting" /\ t \in interrupted /\ lock = None
    /\ interrupted' = interrupted \ {t}
    /\ Goto(t, "assign")
    /\ Result(t, None)
    /\ UNCHANGED <<listDevicesThread, lock, devicesDiscovered, sp_devices, stackVars,
                   answer, found, alone>>

(* The thread was notified and has the lock again. *)
Woken(t) ==
    /\ pc[t] = "woken" /\ lock = None
    /\ Goto(t, "filter")
    /\ UNCHANGED <<listDevicesThread, interrupted, lock, devicesDiscovered, result,
                   sp_devices, stackVars, answer, found, alone>>

-----------------------------------------------------------------------------
(* The Bluetooth stack *)

DeviceDiscovered(d) ==
    /\ running
    /\ d \notin devicesDiscovered
    /\ devicesDiscovered' = devicesDiscovered \cup {d}
    /\ found' = [t \in Threads |-> IF pc[t] \in {"wait", "waiting"}
                                  THEN found[t] \cup {d} ELSE found[t]]
    /\ UNCHANGED <<pc, listDevicesThread, interrupted, lock, result, sp_devices,
                   stackVars, answer, alone>>

(* The stack may take the next inquiry before it calls back. *)
InquiryOver ==
    /\ running
    /\ running' = FALSE
    /\ completing' = completing + 1
    /\ UNCHANGED <<pc, listDevicesThread, interrupted, lock, devicesDiscovered,
                   result, sp_devices, answer, found, alone>>

(* notify() wakes any one of those that wait. *)
inquiryCompleted ==
    /\ completing > 0 /\ lock = None
    /\ completing' = completing - 1
    /\ IF Waiting = {} THEN UNCHANGED pc
                       ELSE \E t \in Waiting : Goto(t, "woken")
    /\ UNCHANGED <<listDevicesThread, interrupted, lock, devicesDiscovered, result,
                   sp_devices, running, answer, found, alone>>

-----------------------------------------------------------------------------
(* FindSpheros: it goes through the shared vector and asks each device for *)
(* its name.                                                               *)

Filter(t) ==
    /\ pc[t] = "filter"
    /\ Result(t, devicesDiscovered)
    /\ Goto(t, "filtering")
    /\ UNCHANGED <<listDevicesThread, interrupted, lock, devicesDiscovered, sp_devices,
                   stackVars, answer, found, alone>>

(* If the vector has changed, the iterator throws, unless it was done.     *)
Filtered(t) ==
    /\ pc[t] = "filtering"
    /\ \/ Result(t, result[t] \cap Spheros)
       \/ devicesDiscovered # result[t] /\ Result(t, None)
    /\ Goto(t, "assign")
    /\ UNCHANGED <<listDevicesThread, interrupted, lock, devicesDiscovered, sp_devices,
                   stackVars, answer, found, alone>>

(* listDevices: the result goes through the server's field. *)
Assign(t) ==
    /\ pc[t] = "assign"
    /\ sp_devices' = result[t]
    /\ Goto(t, "answer")
    /\ UNCHANGED <<listDevicesThread, interrupted, lock, devicesDiscovered, result,
                   stackVars, answer, found, alone>>

(* Without a result there is no answer. *)
Answer(t) ==
    /\ pc[t] = "answer"
    /\ answer' = [answer EXCEPT ![t] = sp_devices]
    /\ Goto(t, "done")
    /\ UNCHANGED <<listDevicesThread, interrupted, lock, devicesDiscovered, result,
                   sp_devices, stackVars, found, alone>>

-----------------------------------------------------------------------------
Init ==
    /\ pc = [t \in Threads |-> "new"]
    /\ listDevicesThread = None
    /\ interrupted = {}
    /\ lock = None
    /\ devicesDiscovered = {}
    /\ result = [t \in Threads |-> None]
    /\ sp_devices = None
    /\ running = FALSE
    /\ completing = 0
    /\ answer = [t \in Threads |-> None]
    /\ found = [t \in Threads |-> {}]
    /\ alone = {}

Search(t) ==
    \/ ClearDevices(t) \/ StartInquiry(t) \/ Wait(t) \/ Interrupted(t) \/ Woken(t)
    \/ Filter(t) \/ Filtered(t) \/ Assign(t) \/ Answer(t)

Stack == InquiryOver \/ inquiryCompleted

Next ==
    \/ CancelListDevices
    \/ \E t \in Threads : ListDevices(t) \/ Search(t)
    \/ \E d \in Devices : DeviceDiscovered(d)
    \/ Stack

Spec == Init /\ [][Next]_vars

(* The stack ends its inquiries and calls back, and the threads run.       *)
(* Nothing is assumed of the user.                                         *)
Fairness ==
    /\ WF_vars(InquiryOver) /\ WF_vars(inquiryCompleted)
    /\ \A t \in Threads : WF_vars(Search(t))

FairSpec == Spec /\ Fairness

-----------------------------------------------------------------------------
(* Properties *)

(* Every variable stays in its type: the base of the proofs. *)
TypeOK ==
    /\ pc \in [Threads -> States]
    /\ listDevicesThread \in Threads \cup {None}
    /\ interrupted \subseteq Threads
    /\ lock \in Threads \cup {None}
    /\ devicesDiscovered \in SUBSET Devices
    /\ result \in [Threads -> Results]
    /\ sp_devices \in Results
    /\ running \in BOOLEAN
    /\ completing \in Nat
    /\ answer \in [Threads -> Results]
    /\ found \in [Threads -> SUBSET Devices]
    /\ alone \subseteq Threads

(* bluecoveRFCOMM.java:29: the lock is not tested in a loop, so a search   *)
(* that waits relies on a notify still to come.  There is one for each, of *)
(* its own inquiry or another's, however searches and cancellations        *)
(* interleave.                                                             *)
NotifyOwed ==
    Cardinality({t \in Threads : pc[t] \in {"wait", "waiting"}})
        <= completing + (IF running THEN 1 ELSE 0)

(* A search that was neither cancelled nor refused, and that met no other  *)
(* one, answers with exactly the Spheros of its own inquiry: nothing of an *)
(* earlier search, and nothing missing.                                    *)
AloneComplete ==
    \A t \in alone : pc[t] = "done" => answer[t] = found[t] \cap Spheros

(* Every search comes to an end, answered or not, also when it was         *)
(* cancelled, or was woken by the inquiry of another.                      *)
SearchEnds == \A t \in Threads : pc[t] = "clear" ~> pc[t] = "done"
=============================================================================
