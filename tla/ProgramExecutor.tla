--------------------------- MODULE ProgramExecutor ---------------------------
(***************************************************************************)
(* The page's program executor: the Sphero object of                       *)
(* SpherlyServer/assets/www/Sphero.js and the toolbar handlers that call   *)
(* it (runblockly_program_execution.js, runblockly.js).                    *)
(*                                                                         *)
(* A Blockly program is turned into event handlers.  Running a handler     *)
(* does not drive the robot: it pushes commands on command_queue, and      *)
(* execute() pops one command, sends it, and calls setTimeout to run       *)
(* itself again.  Buttons, collision messages and timer callbacks are      *)
(* separate turns of the browser's event loop, so each of them is one      *)
(* atomic action here.                                                     *)
(***************************************************************************)
EXTENDS Integers, Sequences, FiniteSets

CONSTANTS
    Workspaces,     \* the block programs the user may have on screen
    NoHandler,      \* a handler slot that holds null
    NoTimer,        \* timeout_id = null
    Inert,          \* the id that setTimeout(undefined, 0) returns
    TimerIds,       \* the bound on timers pending at the same time
    CommandWait,    \* COMMAND_WAIT_TIME, in ticks
    LoopBudget,     \* window.loopTrap as evalCode sets it (1000)
    MaxElapsed,     \* the bound on the age of the last execute()
    MaxPresses,     \* the bound on button presses
    MaxCollisions   \* the bound on collision messages

Events == {"run", "collision", "stop", "end"}
Kinds == {"plain", "stop", "badRGB", "wait", "turnTimed", "rollForwardTimed",
          "timedCalibrate", "final_end"}

(* A step of a handler's code: a call that pushes a command, or an         *)
(* exception ("throw").  loop says that the step opens an iteration of a   *)
(* loop block, which checks window.loopTrap first.                         *)
Step == [kind: Kinds \cup {"throw"}, secs: Nat, loop: BOOLEAN]

Handler == Seq(Step) \cup {NoHandler}

(* An entry of command_queue.  block says that the entry ends with a block *)
(* id.  src and idx are history: the handler that pushed the command, and  *)
(* its place in that handler.                                              *)
Command == [kind: Kinds, secs: Nat, block: BOOLEAN,
            src: Events \cup {"wait"}, idx: Nat]

Jobs == {"execute", "halfTurn", "stop", "calibrateOff"}

(* A pending timer: what its callback does, the ticks left, and the second *)
(* half of a timed turn.                                                   *)
Timer == [job: Jobs, left: Nat, half: Nat]

ASSUME ConstantsAssumption ==
    /\ Workspaces \subseteq [Events -> Handler]
    /\ NoHandler \notin Seq(Step)
    /\ IsFiniteSet(TimerIds)
    /\ NoTimer \notin TimerIds /\ Inert \notin TimerIds /\ NoTimer # Inert
    /\ CommandWait \in Nat \ {0}
    /\ LoopBudget \in Nat \ {0}
    /\ MaxElapsed \in Nat /\ MaxPresses \in Nat /\ MaxCollisions \in Nat

VARIABLES
    command_queue,
    timers,         \* pending timers, by id
    timeout_id,     \* the one id the Sphero object remembers
    wait_time,
    elapsed,        \* Date.now() - this.then
    handlers,       \* runHandler, collisionHandler, stopHandler, endHandler
    loopTrap,       \* window.loopTrap
    isConnected,
    listening,      \* spheroMessageCallback is the socket's callback
    runButton,      \* what the run button does next: "run" or "reset"
    calibrateButton,\* what the calibrate button does next
    presses, collisions,
    history         \* what the properties remember of the past

queueVars == <<command_queue, timers, timeout_id, wait_time, elapsed>>
linkVars == <<isConnected, listening>>
uiVars == <<linkVars, runButton, calibrateButton>>
boundVars == <<presses, collisions>>
vars == <<queueVars, handlers, loopTrap, uiVars, boundVars, history>>

(* length: commands the run handler pushed; issued: the last of them that  *)
(* execute() took; pause: ticks left of the program's own wait; engaged:   *)
(* timed effects the robot was told to start and not yet to end; broken:   *)
(* an exception has escaped.  All but engaged start afresh when the queue  *)
(* is cleared.                                                             *)
History == [length: Nat, issued: Nat, pause: Nat,
            engaged: SUBSET {"rolling", "calibrating"},
            broken: BOOLEAN]

-----------------------------------------------------------------------------
(* HandleHandler.  The generated loop check is                             *)
(*   if (--window.loopTrap <= 0) throw "Infinity"                          *)
(* and HandleHandler swallows "Infinity".  Any other exception escapes,    *)
(* because its catch block names variables that are not in scope.  In both *)
(* cases the commands pushed so far stay in the queue.                     *)

Iterations(h, i) == Cardinality({j \in 1..i : h[j].loop})

Trapped(h, i, trap) == h[i].loop /\ Iterations(h, i) >= trap

Completed(h, trap) ==
    Cardinality({i \in 1..Len(h) :
                    \A j \in 1..i : h[j].kind # "throw" /\ ~Trapped(h, j, trap)})

Reached(h, trap) ==
    IF Completed(h, trap) < Len(h) THEN Completed(h, trap) + 1 ELSE Len(h)

Raises(h, trap) ==
    /\ Completed(h, trap) < Len(h)
    /\ ~Trapped(h, Completed(h, trap) + 1, trap)

Pushed(h, trap, src) ==
    [i \in 1..Completed(h, trap) |->
        [kind |-> h[i].kind, secs |-> h[i].secs, block |-> TRUE,
         src |-> src, idx |-> i]]

(* The count goes on below zero when a later handler opens a loop.         *)
TrapAfter(h, trap) == trap - Iterations(h, Reached(h, trap))

-----------------------------------------------------------------------------
(* setTimeout and clearTimeout *)

Cancel(ts, id) == [t \in DOMAIN ts \ {id} |-> ts[t]]

Arm(ts, id, timer) ==
    [t \in DOMAIN ts \cup {id} |-> IF t = id THEN timer ELSE ts[t]]

HasRoom(ts) == TimerIds \ DOMAIN ts # {}
FreshId(ts) == CHOOSE t \in TimerIds : t \notin DOMAIN ts

-----------------------------------------------------------------------------
(* execute() *)

(* execute() removes the last element of the command as its block id, so   *)
(* an entry without one loses its argument: setTimeout gets NaN, which is  *)
(* a delay of 0.                                                           *)
Seconds(c) == IF c.block THEN c.secs ELSE 0

Half(n) == (n + 1) \div 2

(* mutation: case "wait" without its return, so the default delay applies *)
WaitAfterFallThrough(c) ==
    CASE c.kind \in {"rollForwardTimed", "timedCalibrate"} -> Seconds(c)
      [] c.kind = "turnTimed" -> Half(Seconds(c))
      [] OTHER -> CommandWait

WaitAfter(c) ==
    CASE c.kind \in {"wait", "rollForwardTimed", "timedCalibrate"} -> Seconds(c)
      [] c.kind = "turnTimed" -> Half(Seconds(c))
      [] OTHER -> CommandWait

(* mutation: timed commands set the plain timer that calls execute() *)
JobAfterPlain(c) == IF c.kind = "turnTimed" THEN "halfTurn" ELSE "execute"

JobAfter(c) ==
    CASE c.kind = "turnTimed" -> "halfTurn"
      [] c.kind = "rollForwardTimed" -> "stop"
      [] c.kind = "timedCalibrate" -> "calibrateOff"
      [] OTHER -> "execute"

TimerAfter(c) ==
    [job |-> JobAfter(c), left |-> WaitAfter(c),
     half |-> IF c.kind = "turnTimed" THEN WaitAfter(c) ELSE 0]

EngagedAfter(c, e) ==
    CASE c.kind = "rollForwardTimed" -> e \cup {"rolling"}
      [] c.kind = "timedCalibrate" -> e \cup {"calibrating"}
      [] c.kind = "stop" -> e \ {"rolling"}
      [] OTHER -> e

(* execute() with a command to take.  q and ts are the queue and the other *)
(* timers once clearTimeout(this.timeout_id) is done, and h the history.   *)
(* A colour that cannot be parsed throws before the next timer is set.     *)
(* begin says that begin_execute called: it then overwrites timeout_id     *)
(* with the id of a timer that does nothing.                               *)
Dispatch(q, ts, h, trap, begin) ==
    LET c == Head(q)
        program == c.src = "run"
    IN  /\ q # <<>>
        /\ HasRoom(ts)
        /\ command_queue' = Tail(q)
        /\ elapsed' = 0
        /\ wait_time' = WaitAfter(c)
        /\ loopTrap' = trap
        /\ IF c.kind = "badRGB"
           THEN timers' = ts /\ timeout_id' = NoTimer
           ELSE /\ timers' = Arm(ts, FreshId(ts), TimerAfter(c))
                /\ timeout_id' = IF begin THEN Inert ELSE FreshId(ts)
        /\ history' = [h EXCEPT
              !.issued = IF program THEN c.idx ELSE @,
              !.pause = IF program /\ c.kind = "wait" THEN c.secs ELSE @,
              !.engaged = EngagedAfter(c, @),
              !.broken = @ \/ c.kind = "badRGB"]

FinalEnd == [kind |-> "final_end", secs |-> 0, block |-> FALSE,
             src |-> "end", idx |-> 0]

(* timeout_id when execute() sets no timer.                                *)
(* mutation: execute() does not empty the id first                         *)
IdleIdStale(begin, raises) == IF begin /\ ~raises THEN Inert ELSE timeout_id

IdleId(begin, raises) == IF begin /\ ~raises THEN Inert ELSE NoTimer

(* execute() with nothing to take: the END handler, if there is one, may   *)
(* push commands, and they are followed by a final_end entry.              *)
Finish(q, ts, h, trap, end, begin) ==
    LET more == IF end = NoHandler THEN <<>> ELSE Pushed(end, trap, "end")
        raises == end # NoHandler /\ Raises(end, trap)
    IN  /\ q = <<>>
        /\ HasRoom(ts)
        /\ elapsed' = 0
        /\ wait_time' = CommandWait
        /\ loopTrap' = IF end = NoHandler THEN trap ELSE TrapAfter(end, trap)
        /\ history' = [h EXCEPT !.broken = @ \/ raises]
        /\ IF more = <<>> \/ raises
           THEN /\ command_queue' = more
                /\ timers' = ts
                /\ timeout_id' = IdleId(begin, raises)
           ELSE /\ command_queue' = Append(more, FinalEnd)
                /\ timers' = Arm(ts, FreshId(ts),
                        [job |-> "execute", left |-> CommandWait, half |-> 0])
                /\ timeout_id' = IF begin THEN Inert ELSE FreshId(ts)

Execute(q, ts, h, trap, end, begin) ==
    \/ Dispatch(q, ts, h, trap, begin)
    \/ Finish(q, ts, h, trap, end, begin)

(* A handler is called and begin_execute follows: begin_execute itself for *)
(* the run handler, its callers for the others.  An exception that leaves  *)
(* the handler skips execute().                                            *)
HandleThenExecute(handler, src, q, ts, h, trap, end) ==
    IF handler = NoHandler THEN Execute(q, ts, h, trap, end, TRUE)
    ELSE LET pushed == Pushed(handler, trap, src)
             h2 == [h EXCEPT !.length = IF src = "run" THEN Len(pushed) ELSE @]
         IN  IF Raises(handler, trap)
             THEN /\ command_queue' = q \o pushed
                  /\ timers' = ts
                  /\ timeout_id' = NoTimer
                  /\ elapsed' = IF src = "run" THEN 0 ELSE elapsed
                  /\ loopTrap' = TrapAfter(handler, trap)
                  /\ history' = [h2 EXCEPT !.broken = TRUE]
                  /\ UNCHANGED wait_time
             ELSE Execute(q \o pushed, ts, h2, TrapAfter(handler, trap), end, TRUE)

-----------------------------------------------------------------------------
(* The event handlers' slots *)

(* clearEventHandlers: the stop handler stays. *)
Detached == [handlers EXCEPT !.run = NoHandler, !.collision = NoHandler,
                             !.end = NoHandler]

(* evalCode: the program's event blocks attach their handlers. *)
Attached(w, hs) ==
    [e \in Events |-> IF w[e] = NoHandler THEN hs[e] ELSE w[e]]

-----------------------------------------------------------------------------
(* Buttons.  The toolbar is enabled only while the Sphero is connected. *)

Press == presses < MaxPresses /\ presses' = presses + 1

ClearedHistory ==
    [length |-> 0, issued |-> 0, pause |-> 0, broken |-> FALSE,
     engaged |-> history.engaged \ {"rolling"}]

ClearedTimers == Cancel(timers, timeout_id)

(* mutation: the queue is not emptied *)
ClearTimerOnly ==
    /\ timers' = ClearedTimers
    /\ timeout_id' = NoTimer
    /\ history' = ClearedHistory
    /\ UNCHANGED <<command_queue, wait_time, elapsed, loopTrap>>

(* clearAllCommands, which also tells the robot to stop. *)
ClearAllCommands ==
    /\ command_queue' = <<>>
    /\ timers' = ClearedTimers
    /\ timeout_id' = NoTimer
    /\ history' = ClearedHistory
    /\ UNCHANGED <<wait_time, elapsed, loopTrap>>

(* The server answers a request to connect.  The robot's messages go to    *)
(* spheroMessageCallback from then on, after a "no" as well.               *)
Connect ==
    /\ Press
    /\ ~isConnected
    /\ isConnected' \in BOOLEAN
    /\ listening' = TRUE
    /\ UNCHANGED <<queueVars, handlers, loopTrap, runButton, calibrateButton,
                   collisions, history>>

(* Another search, request to connect or cancellation takes the callback.  *)
OtherCallback ==
    /\ Press
    /\ ~isConnected /\ listening
    /\ listening' = FALSE
    /\ UNCHANGED <<queueVars, handlers, loopTrap, isConnected, runButton,
                   calibrateButton, collisions, history>>

(* SpheroManager.run *)
Run(w) ==
    /\ Press
    /\ isConnected /\ runButton = "run"
    /\ runButton' = "reset"
    /\ handlers' = Attached(w, Detached)
    /\ HandleThenExecute(handlers'.run, "run", <<>>, ClearedTimers,
                         ClearedHistory, LoopBudget, handlers'.end)
    /\ UNCHANGED <<linkVars, calibrateButton, collisions>>

(* SpheroManager.resetProgram *)
Reset ==
    /\ Press
    /\ isConnected /\ runButton = "reset"
    /\ runButton' = "run"
    /\ handlers' = Detached
    /\ ClearAllCommands
    /\ UNCHANGED <<linkVars, calibrateButton, collisions>>

(* SpheroManager.stop: the code is evaluated again, and the stop handler's *)
(* commands replace the program.                                           *)
Stop(w) ==
    /\ Press
    /\ isConnected
    /\ handlers' = Attached(w, handlers)
    /\ HandleThenExecute(handlers'.stop, "stop", <<>>, ClearedTimers,
                         ClearedHistory, LoopBudget, handlers'.end)
    /\ UNCHANGED <<uiVars, collisions>>

(* SpheroManager.calibrate *)
Calibrate ==
    /\ Press
    /\ isConnected /\ calibrateButton = "calibrate"
    /\ calibrateButton' = "end"
    /\ handlers' = Detached
    /\ ClearAllCommands
    /\ UNCHANGED <<linkVars, runButton, collisions>>

(* endCalibration, from the dialog or the button *)
EndCalibrate ==
    /\ Press
    /\ calibrateButton = "end"
    /\ calibrateButton' = "calibrate"
    /\ history' = [history EXCEPT !.engaged = @ \ {"calibrating"}]
    /\ UNCHANGED <<queueVars, handlers, loopTrap, linkVars, runButton, collisions>>

(* Sphero.disconnect and Sphero.sleep, from their buttons or, connected or *)
(* not, from the power watchdog and from the loss of the server: the       *)
(* handlers stay attached.                                                 *)
Disconnect ==
    /\ Press
    /\ isConnected' = FALSE
    /\ listening' = FALSE
    /\ ClearAllCommands
    /\ UNCHANGED <<handlers, runButton, calibrateButton, collisions>>

-----------------------------------------------------------------------------
(* collisionDetected *)

(* Neither spheroMessageCallback nor collisionDetected looks at            *)
(* isConnected.                                                            *)
CollisionMessage ==
    /\ listening
    /\ collisions < MaxCollisions
    /\ collisions' = collisions + 1
    /\ UNCHANGED <<handlers, uiVars, presses>>

CollisionWhenIdle ==
    /\ CollisionMessage
    /\ timeout_id = NoTimer
    /\ handlers.collision # NoHandler
    /\ HandleThenExecute(handlers.collision, "collision", command_queue, timers,
                         history, loopTrap, handlers.end)

(* What is left of the delay before the next command. *)
(* mutation: the delay is shortened without a look at whether it is over   *)
RemainingUnchecked == wait_time - elapsed

Remaining == IF elapsed < wait_time THEN wait_time - elapsed ELSE wait_time

ReplicatedWait == [kind |-> "wait", secs |-> Remaining, block |-> FALSE,
                   src |-> "wait", idx |-> 0]

(* The collision handler's commands go before the old ones, which are put  *)
(* back behind a wait.                                                     *)
(* mutations: the old commands go first; the first old command is skipped; *)
(* the old commands are copied and not spliced off                         *)
PreemptAppending(pushed, old) == old \o pushed \o <<ReplicatedWait>>
PreemptSkipping(pushed, old) ==
    pushed \o <<ReplicatedWait>> \o (IF old = <<>> THEN old ELSE Tail(old))
PreemptCopying(pushed, old) == old \o pushed \o <<ReplicatedWait>> \o old

Preempt(pushed, old) == pushed \o <<ReplicatedWait>> \o old

(* setTimeout after clearTimeout                                           *)
(* mutation: the new timer is set first, and cleared as the remembered one *)
RestartCancelled(ts) == timers' = ts /\ timeout_id' = FreshId(ts)

Restart(ts) ==
    /\ timers' = Arm(ts, FreshId(ts), [job |-> "execute", left |-> 0, half |-> 0])
    /\ timeout_id' = FreshId(ts)

(* An exception leaves before the old commands are put back.               *)
CollisionWhenBusy ==
    LET handler == handlers.collision
        handled == handler # NoHandler
        pushed == IF handled THEN Pushed(handler, loopTrap, "collision") ELSE <<>>
        ts == ClearedTimers
    IN  /\ CollisionMessage
        /\ timeout_id # NoTimer \/ ~handled
        /\ loopTrap' = IF handled THEN TrapAfter(handler, loopTrap) ELSE loopTrap
        /\ UNCHANGED elapsed
        /\ IF handled /\ Raises(handler, loopTrap)
           THEN /\ command_queue' = pushed
                /\ wait_time' = Remaining
                /\ history' = [history EXCEPT !.broken = TRUE]
                /\ UNCHANGED <<timers, timeout_id>>
           ELSE /\ HasRoom(ts)
                /\ command_queue' = Preempt(pushed, command_queue)
                /\ wait_time' = 0
                /\ Restart(ts)
                /\ UNCHANGED history

-----------------------------------------------------------------------------
(* Time and timer callbacks.  A callback runs when its delay is over or    *)
(* later, as the event loop gets to it.                                    *)

Tick ==
    /\ \E t \in DOMAIN timers : timers[t].left > 0
    /\ timers' = [t \in DOMAIN timers |->
                    [timers[t] EXCEPT !.left = IF @ > 0 THEN @ - 1 ELSE 0]]
    /\ elapsed' = IF elapsed < MaxElapsed THEN elapsed + 1 ELSE elapsed
    /\ history' = [history EXCEPT !.pause = IF @ > 0 THEN @ - 1 ELSE 0]
    /\ UNCHANGED <<command_queue, timeout_id, wait_time, handlers, loopTrap,
                   uiVars, boundVars>>

Due(t, job) == t \in DOMAIN timers /\ timers[t].left = 0 /\ timers[t].job = job

(* mutation: the callback sets its own timer again *)
FireHalfTurnAgain(t) ==
    /\ Due(t, "halfTurn")
    /\ wait_time' = timers[t].half
    /\ timers' = [timers EXCEPT ![t].left = @ + timers[t].half]
    /\ UNCHANGED <<command_queue, timeout_id, elapsed, handlers, loopTrap, uiVars,
                   boundVars, history>>

(* The first half of a timed turn is over: the callback turns the robot    *)
(* and waits for the second half.                                          *)
FireHalfTurn(t) ==
    LET ts == Cancel(timers, t) IN
    /\ Due(t, "halfTurn")
    /\ wait_time' = timers[t].half
    /\ timers' = Arm(ts, FreshId(ts),
            [job |-> "execute", left |-> timers[t].half, half |-> 0])
    /\ timeout_id' = FreshId(ts)
    /\ UNCHANGED <<command_queue, elapsed, handlers, loopTrap, uiVars, boundVars,
                   history>>

(* The callback ends a timed effect, if it belongs to one, and calls       *)
(* execute(), which first forgets the timer it remembers.                  *)
FireExecute(t, job, ended) ==
    /\ Due(t, job)
    /\ Execute(command_queue, Cancel(Cancel(timers, t), timeout_id),
               [history EXCEPT !.engaged = @ \ ended],
               loopTrap, handlers.end, FALSE)
    /\ UNCHANGED <<handlers, uiVars, boundVars>>

FireTimer(t) ==
    \/ FireHalfTurn(t)
    \/ FireExecute(t, "execute", {})
    \/ FireExecute(t, "stop", {"rolling"})
    \/ FireExecute(t, "calibrateOff", {"calibrating"})

-----------------------------------------------------------------------------
Init ==
    /\ command_queue = <<>>
    /\ timers = [t \in {} |-> NoTimer]
    /\ timeout_id = NoTimer
    /\ wait_time = CommandWait
    /\ elapsed = 0
    /\ handlers = [e \in Events |-> NoHandler]
    /\ loopTrap = LoopBudget
    /\ isConnected = FALSE
    /\ listening = FALSE
    /\ runButton = "run"
    /\ calibrateButton = "calibrate"
    /\ presses = 0
    /\ collisions = 0
    /\ history = [length |-> 0, issued |-> 0, pause |-> 0, engaged |-> {},
                  broken |-> FALSE]

Buttons ==
    \/ Connect \/ OtherCallback \/ Reset \/ Calibrate \/ EndCalibrate \/ Disconnect
    \/ \E w \in Workspaces : Run(w) \/ Stop(w)

Next ==
    \/ Buttons
    \/ CollisionWhenIdle
    \/ CollisionWhenBusy
    \/ Tick
    \/ \E t \in TimerIds : FireTimer(t)

Spec == Init /\ [][Next]_vars

(* Time passes and the browser runs every timer that is due.  Nothing is   *)
(* assumed of the user and of the robot.                                   *)
Fairness == WF_vars(Tick) /\ \A t \in TimerIds : WF_vars(FireTimer(t))

FairSpec == Spec /\ Fairness

-----------------------------------------------------------------------------
(* Properties *)

(* Every variable stays in the set of values the code gives it. *)
TypeOK ==
    /\ command_queue \in Seq(Command)
    /\ DOMAIN timers \subseteq TimerIds
    /\ timers \in [DOMAIN timers -> Timer]
    /\ timeout_id \in TimerIds \cup {NoTimer, Inert}
    /\ wait_time \in Nat
    /\ elapsed \in Nat
    /\ handlers \in [Events -> Handler]
    /\ loopTrap \in Int
    /\ isConnected \in BOOLEAN /\ listening \in BOOLEAN
    /\ runButton \in {"run", "reset"}
    /\ calibrateButton \in {"calibrate", "end"}
    /\ presses \in 0..MaxPresses
    /\ collisions \in 0..MaxCollisions
    /\ history \in History

(* timeout_id never names a timer that has already fired or been           *)
(* cancelled: collisionDetected takes a null timeout_id to mean that       *)
(* nothing is being executed.                                              *)
RecordedTimerPending == timeout_id \in TimerIds => timeout_id \in DOMAIN timers

(* A null timeout_id does mean that: unless an exception has escaped, it   *)
(* goes with an empty queue, so the idle branch of collisionDetected never *)
(* appends to an unfinished program.                                       *)
IdleMeansDone == timeout_id = NoTimer /\ ~history.broken => command_queue = <<>>

(* Unless an exception has escaped, unfinished commands always have a      *)
(* timer that will go on with them.                                        *)
NoStall == command_queue # <<>> /\ ~history.broken => DOMAIN timers # {}

FromRun(i) == command_queue[i].src = "run"

(* The program's own commands are issued in program order: those in the    *)
(* queue are in order and none of them has been issued.                    *)
RunInOrder ==
    \A i \in DOMAIN command_queue : FromRun(i) =>
        /\ command_queue[i].idx \in history.issued + 1 .. history.length
        /\ \A j \in DOMAIN command_queue :
              i < j /\ FromRun(j) => command_queue[i].idx < command_queue[j].idx

(* No collision and no timer loses a command of the program: what has not  *)
(* been issued is still in the queue, unless an exception has escaped.     *)
RunNotLost ==
    ~history.broken =>
        \A k \in history.issued + 1 .. history.length :
            \E i \in DOMAIN command_queue : FromRun(i) /\ command_queue[i].idx = k

(* Sphero.js:292: the collision event has precedence.  No command of       *)
(* another handler stands before a collision command, unless an exception  *)
(* has escaped.                                                            *)
CollisionPrecedence ==
    ~history.broken =>
        \A i, j \in DOMAIN command_queue :
            i < j /\ command_queue[j].src = "collision"
                => command_queue[i].src \in {"collision", "wait"}

(* The executor implements CommandSequence: its queue is only issued from  *)
(* the front, extended at its end when it is empty, preceded by a          *)
(* collision's commands, or replaced at a button.                          *)
Sequence == INSTANCE CommandSequence
    WITH Commands <- Command, waiting <- command_queue,
         failed <- history.broken, requests <- presses, collisions <- collisions

ImplementsSequence == Sequence!FairSpec

(* Once collisions and button presses cease, execution comes to an end of  *)
(* the queue, or has been ended by an exception.                           *)
Drains == command_queue # <<>> ~> (command_queue = <<>> \/ history.broken)

(* The tooltip of the wait block: the program's next command is not issued *)
(* before the wait is over.                                                *)
WaitHonoured ==
    [][history'.issued > history.issued /\ history.issued > 0
            => history.pause = 0]_vars

(* A timed roll or calibration that the robot was told to start is ended.  *)
TimedEffectsEnd ==
    \A effect \in {"rolling", "calibrating"} :
        effect \in history.engaged ~> effect \notin history.engaged
=============================================================================
