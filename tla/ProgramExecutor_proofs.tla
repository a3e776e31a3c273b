----------------------- MODULE ProgramExecutor_proofs -----------------------
(***************************************************************************)
(* Proofs about ProgramExecutor, for every set of block programs, every    *)
(* number of timers, presses and collisions, and every length of the       *)
(* queue.                                                                  *)
(*                                                                         *)
(* None of the safety invariants is inductive alone: the order of the      *)
(* program's commands needs to know that nothing is lost, the precedence   *)
(* of collision commands needs IdleMeansDone (or the idle branch could     *)
(* append to an unfinished program), and all of them need the types.       *)
(* Their conjunction Ind is inductive.  The wait block needs an invariant  *)
(* of its own, Waits, which holds as long as nothing disturbs the program. *)
(***************************************************************************)
EXTENDS ProgramExecutor, FiniteSetTheorems, SequenceTheorems, TLAPS

(* The parts of Ind, for a queue q, timers ts and a history h that are not *)
(* yet the values of the variables.                                        *)
TimersOK(ts) == DOMAIN ts \subseteq TimerIds /\ ts \in [DOMAIN ts -> Timer]

InOrder(q, h) ==
    \A i \in 1..Len(q) : q[i].src = "run" =>
        /\ q[i].idx \in h.issued + 1 .. h.length
        /\ \A j \in 1..Len(q) :
              i < j /\ q[j].src = "run" => q[i].idx < q[j].idx

NotLost(q, h) ==
    ~h.broken =>
        \A k \in h.issued + 1 .. h.length :
            \E i \in 1..Len(q) : q[i].src = "run" /\ q[i].idx = k

Precedes(q, h) ==
    ~h.broken =>
        \A i, j \in 1..Len(q) :
            i < j /\ q[j].src = "collision" => q[i].src \in {"collision", "wait"}

QueueOK(q, h) ==
    /\ q \in Seq(Command)
    /\ h \in History
    /\ InOrder(q, h)
    /\ NotLost(q, h)
    /\ Precedes(q, h)

Others ==
    /\ handlers \in [Events -> Handler]
    /\ isConnected \in BOOLEAN /\ listening \in BOOLEAN
    /\ runButton \in {"run", "reset"}
    /\ calibrateButton \in {"calibrate", "end"}
    /\ presses \in 0..MaxPresses
    /\ collisions \in 0..MaxCollisions

Machine ==
    /\ QueueOK(command_queue, history)
    /\ TimersOK(timers)
    /\ timeout_id \in TimerIds \cup {NoTimer, Inert}
    /\ RecordedTimerPending
    /\ IdleMeansDone
    /\ NoStall
    /\ wait_time \in Nat
    /\ elapsed \in Nat
    /\ loopTrap \in Int

Ind == Machine /\ Others

-----------------------------------------------------------------------------
(* Handlers *)

LEMMA IterationsType ==
    ASSUME NEW h \in Seq(Step), NEW i \in Nat
    PROVE  Iterations(h, i) \in Nat
<1>1. IsFiniteSet(1..i)
  BY FS_Interval
<1>2. {j \in 1..i : h[j].loop} \in SUBSET (1..i)
  OBVIOUS
<1> QED
  BY <1>1, <1>2, FS_Subset, FS_CardinalityType DEF Iterations

(* A handler completes a prefix of its steps, and none of them throws. *)
LEMMA CompletedPrefix ==
    ASSUME NEW h \in Seq(Step), NEW trap \in Int
    PROVE  /\ Completed(h, trap) \in 0..Len(h)
           /\ \A i \in 1..Completed(h, trap) : h[i].kind # "throw"
<1> DEFINE S == {i \in 1..Len(h) :
                    \A j \in 1..i : h[j].kind # "throw" /\ ~Trapped(h, j, trap)}
           n == Cardinality(S)
<1>0. Len(h) \in Nat
  BY LenProperties
<1>1. IsFiniteSet(1..Len(h)) /\ Cardinality(1..Len(h)) = Len(h)
  BY <1>0, FS_Interval
<1>2. S \in SUBSET (1..Len(h))
  OBVIOUS
<1>3. n \in 0..Len(h)
  BY <1>0, <1>1, <1>2, FS_Subset, FS_CardinalityType
<1>4. ASSUME NEW i \in 1..n PROVE i \in S
  <2>1. SUFFICES ASSUME i \notin S PROVE FALSE
    OBVIOUS
  <2>2. S \in SUBSET (1..(i - 1))
    <3>1. ASSUME NEW k \in S, ~(k < i) PROVE FALSE
      BY <1>0, <1>3, <2>1, <3>1
    <3> QED
      BY <1>0, <1>3, <3>1
  <2>3. IsFiniteSet(1..(i - 1)) /\ Cardinality(1..(i - 1)) = i - 1
    <3> HIDE DEF n
    <3>1. i \in Int /\ i - 1 \in Int /\ i >= 1
      BY <1>0, <1>3
    <3>2. ASSUME NEW k \in Int, k >= 0 PROVE IsFiniteSet(1..k) /\ Cardinality(1..k) = k
      BY <3>2, FS_Interval
    <3> QED
      BY <3>1, <3>2
  <2>4. n <= i - 1
    BY <2>2, <2>3, FS_Subset
  <2> QED
    BY <1>3, <2>4
<1>5. Completed(h, trap) = n
  BY DEF Completed
<1> HIDE DEF n
<1>6. ASSUME NEW i \in 1..n PROVE h[i].kind # "throw"
  <2>1. i \in S /\ i \in 1..i
    BY <1>0, <1>3, <1>4
  <2> QED
    BY <2>1
<1> QED
  BY <1>3, <1>5, <1>6

LEMMA PushedType ==
    ASSUME NEW h \in Seq(Step), NEW trap \in Int, NEW src \in Events
    PROVE  /\ Pushed(h, trap, src) \in Seq(Command)
           /\ Len(Pushed(h, trap, src)) = Completed(h, trap)
           /\ Completed(h, trap) \in Nat
           /\ \A i \in 1..Completed(h, trap) :
                 Pushed(h, trap, src)[i].src = src /\ Pushed(h, trap, src)[i].idx = i
<1> DEFINE c(i) == [kind |-> h[i].kind, secs |-> h[i].secs, block |-> TRUE,
                    src |-> src, idx |-> i]
           n == Completed(h, trap)
<1>1. n \in 0..Len(h) /\ \A i \in 1..n : h[i].kind # "throw"
  BY CompletedPrefix
<1>2. Len(h) \in Nat
  BY LenProperties
<1>3. ASSUME NEW i \in 1..n PROVE c(i) \in Command
  <2>1. h[i] \in Step
    BY <1>1, <1>2, ElementOfSeq
  <2> QED
    BY <1>1, <1>2, <2>1 DEF Step, Command
<1>4. Pushed(h, trap, src) = [i \in 1..n |-> c(i)]
  BY DEF Pushed
<1> HIDE DEF n
<1>5. [i \in 1..n |-> c(i)] \in [1..n -> Command]
  BY <1>3
<1>6. [i \in 1..n |-> c(i)] \in Seq(Command)
  BY <1>1, <1>2, <1>5
<1> QED
  BY <1>1, <1>2, <1>4, <1>6 DEF n

LEMMA TrapAfterType ==
    ASSUME NEW h \in Seq(Step), NEW trap \in Int
    PROVE  TrapAfter(h, trap) \in Int
<1>1. Len(h) \in Nat /\ Completed(h, trap) \in 0..Len(h)
  BY CompletedPrefix, LenProperties
<1>2. Reached(h, trap) \in Nat
  BY <1>1 DEF Reached
<1>3. Iterations(h, Reached(h, trap)) \in Nat
  BY <1>2, IterationsType
<1> QED
  BY <1>3 DEF TrapAfter

-----------------------------------------------------------------------------
(* Timers *)

LEMMA CancelOK ==
    ASSUME NEW ts, NEW id, TimersOK(ts)
    PROVE  TimersOK(Cancel(ts, id)) /\ DOMAIN Cancel(ts, id) = DOMAIN ts \ {id}
BY DEF TimersOK, Cancel

LEMMA ArmOK ==
    ASSUME NEW ts, NEW id \in TimerIds, NEW timer \in Timer, TimersOK(ts)
    PROVE  TimersOK(Arm(ts, id, timer)) /\ id \in DOMAIN Arm(ts, id, timer)
BY DEF TimersOK, Arm

LEMMA FreshIdOK ==
    ASSUME NEW ts, HasRoom(ts)
    PROVE  FreshId(ts) \in TimerIds
BY DEF HasRoom, FreshId

LEMMA CommandTimer ==
    ASSUME NEW c \in Command
    PROVE  TimerAfter(c) \in Timer /\ WaitAfter(c) \in Nat
<1>1. Seconds(c) \in Nat
  BY DEF Seconds, Command
<1>2. Half(Seconds(c)) \in Nat
  BY <1>1 DEF Half
<1>3. WaitAfter(c) \in Nat
  BY <1>1, <1>2, ConstantsAssumption DEF WaitAfter
<1>4. JobAfter(c) \in Jobs
  BY DEF JobAfter, Jobs
<1> QED
  BY <1>3, <1>4 DEF TimerAfter, Timer

-----------------------------------------------------------------------------
(* execute() *)

(* Taking a command keeps the machine's invariants: the one taken is the   *)
(* program's next, and a timer goes on with the rest.                      *)
LEMMA DispatchMachine ==
    ASSUME NEW q, NEW ts, NEW h, NEW trap \in Int, NEW begin \in BOOLEAN,
           QueueOK(q, h), TimersOK(ts), Dispatch(q, ts, h, trap, begin)
    PROVE  Machine'
<1> DEFINE c == Head(q)
           t == FreshId(ts)
<1>1. /\ q \in Seq(Command) /\ q # <<>> /\ h \in History
      /\ InOrder(q, h) /\ NotLost(q, h) /\ Precedes(q, h)
  BY DEF QueueOK, Dispatch
<1>2. /\ command_queue' = Tail(q)
      /\ elapsed' = 0 /\ wait_time' = WaitAfter(c) /\ loopTrap' = trap
      /\ HasRoom(ts)
  BY DEF Dispatch
<1>3. /\ Len(q) \in Nat \ {0} /\ c \in Command /\ c = q[1]
      /\ Tail(q) \in Seq(Command) /\ Len(Tail(q)) = Len(q) - 1
      /\ \A i \in 1..Len(q) - 1 : Tail(q)[i] = q[i + 1]
      /\ \A i \in 1..Len(q) : q[i] \in Command
  BY <1>1
<1>4. TimerAfter(c) \in Timer /\ WaitAfter(c) \in Nat
  BY <1>3, CommandTimer
<1>5. /\ history' = [h EXCEPT
              !.issued = IF c.src = "run" THEN c.idx ELSE @,
              !.pause = IF c.src = "run" /\ c.kind = "wait" THEN c.secs ELSE @,
              !.engaged = EngagedAfter(c, @),
              !.broken = @ \/ c.kind = "badRGB"]
  BY DEF Dispatch
<1>6. history' \in History
  <2>1. EngagedAfter(c, h.engaged) \in SUBSET {"rolling", "calibrating"}
    BY <1>1 DEF EngagedAfter, History
  <2> QED
    BY <1>1, <1>3, <1>5, <2>1 DEF History, Command
<1>7. /\ history'.issued = IF c.src = "run" THEN c.idx ELSE h.issued
      /\ history'.length = h.length
      /\ history'.broken = (h.broken \/ c.kind = "badRGB")
      /\ h.issued \in Nat /\ h.length \in Nat
  BY <1>1, <1>5 DEF History
<1>8. InOrder(Tail(q), history')
  BY <1>1, <1>3, <1>7 DEF InOrder, Command
<1>9. NotLost(Tail(q), history')
  <2>1. SUFFICES ASSUME ~history'.broken, NEW k \in history'.issued + 1 .. history'.length
                 PROVE  \E i \in 1..Len(Tail(q)) :
                            Tail(q)[i].src = "run" /\ Tail(q)[i].idx = k
    BY DEF NotLost
  <2>2. c.src = "run" => c.idx \in Nat /\ c.idx >= h.issued + 1
    BY <1>1, <1>3, <1>7 DEF InOrder, Command
  <2>3. k \in h.issued + 1 .. h.length
    BY <1>3, <1>7, <2>2 DEF Command
  <2>4. PICK i \in 1..Len(q) : q[i].src = "run" /\ q[i].idx = k
    BY <1>1, <1>7, <2>1, <2>3 DEF NotLost
  <2>5. i # 1
    BY <1>3, <1>7, <2>2, <2>3, <2>4
  <2>6. i - 1 \in 1..Len(Tail(q)) /\ Tail(q)[i - 1] = q[i]
    BY <1>3, <2>5
  <2> QED
    BY <2>4, <2>6
<1>10. Precedes(Tail(q), history')
  <2>1. SUFFICES ASSUME ~history'.broken,
                        NEW i \in 1..Len(Tail(q)), NEW j \in 1..Len(Tail(q)),
                        i < j, Tail(q)[j].src = "collision"
                 PROVE  Tail(q)[i].src \in {"collision", "wait"}
    BY DEF Precedes
  <2>2. /\ i + 1 \in 1..Len(q) /\ j + 1 \in 1..Len(q) /\ i + 1 < j + 1
        /\ Tail(q)[i] = q[i + 1] /\ Tail(q)[j] = q[j + 1]
    BY <1>3, <2>1
  <2>3. ~h.broken
    BY <1>7, <2>1
  <2>4. \A a, b \in 1..Len(q) :
            a < b /\ q[b].src = "collision" => q[a].src \in {"collision", "wait"}
    BY <1>1, <2>3 DEF Precedes
  <2> QED
    BY <2>1, <2>2, <2>4
<1>11. QueueOK(command_queue', history')
  BY <1>2, <1>3, <1>6, <1>8, <1>9, <1>10 DEF QueueOK
<1>12. CASE c.kind = "badRGB"
  <2>1. timers' = ts /\ timeout_id' = NoTimer /\ history'.broken
    BY <1>7, <1>12 DEF Dispatch
  <2> QED
    BY <1>2, <1>4, <1>11, <2>1, ConstantsAssumption
       DEF Machine, RecordedTimerPending, IdleMeansDone, NoStall
<1>13. CASE c.kind # "badRGB"
  <2>1. timers' = Arm(ts, t, TimerAfter(c)) /\ timeout_id' = IF begin THEN Inert ELSE t
    BY <1>13 DEF Dispatch
  <2>2. t \in TimerIds
    BY <1>2, FreshIdOK
  <2>3. TimersOK(timers') /\ t \in DOMAIN timers'
    BY <1>4, <2>1, <2>2, ArmOK
  <2>4. timeout_id' # NoTimer
    BY <2>1, <2>2, ConstantsAssumption
  <2>5. RecordedTimerPending' /\ IdleMeansDone' /\ NoStall'
    BY <2>1, <2>3, <2>4, ConstantsAssumption
       DEF RecordedTimerPending, IdleMeansDone, NoStall
  <2> QED
    BY <1>2, <1>4, <1>11, <2>1, <2>2, <2>3, <2>5 DEF Machine
<1> QED
  BY <1>12, <1>13

(* With nothing left to take, only the END handler's commands follow.      *)
LEMMA FinishMachine ==
    ASSUME NEW q, NEW ts, NEW h, NEW trap \in Int, NEW end \in Handler,
           NEW begin \in BOOLEAN,
           QueueOK(q, h), TimersOK(ts), Finish(q, ts, h, trap, end, begin)
    PROVE  Machine'
<1> DEFINE more == IF end = NoHandler THEN <<>> ELSE Pushed(end, trap, "end")
           raises == end # NoHandler /\ Raises(end, trap)
           t == FreshId(ts)
           timer == [job |-> "execute", left |-> CommandWait, half |-> 0]
<1>1. q = <<>> /\ h \in History /\ NotLost(q, h) /\ HasRoom(ts)
  BY DEF QueueOK, Finish
<1>2. /\ more \in Seq(Command)
      /\ \A i \in 1..Len(more) : more[i].src = "end"
  <2>1. CASE end = NoHandler
    BY <2>1
  <2>2. CASE end # NoHandler
    <3>1. end \in Seq(Step) /\ "end" \in Events
      BY <2>2 DEF Handler, Events
    <3>2. more = Pushed(end, trap, "end")
      BY <2>2
    <3> DEFINE p == Pushed(end, trap, "end")
    <3>3. /\ p \in Seq(Command)
          /\ Len(p) = Completed(end, trap)
          /\ \A i \in 1..Completed(end, trap) : p[i].src = "end"
      BY <3>1, PushedType
    <3> HIDE DEF more, p
    <3> QED
      BY <3>2, <3>3 DEF p
  <2> QED
    BY <2>1, <2>2
<1>3. elapsed' = 0 /\ wait_time' = CommandWait
  BY DEF Finish
<1>4. loopTrap' \in Int
  BY TrapAfterType DEF Finish, Handler
<1>5. history' = [h EXCEPT !.broken = @ \/ raises]
  BY DEF Finish
<1> HIDE DEF raises, more
<1>6. history' \in History
  <2>1. raises \in BOOLEAN
    BY DEF raises
  <2> QED
    BY <1>1, <1>5, <2>1 DEF History
<1>7. /\ history'.issued = h.issued /\ history'.length = h.length
      /\ history'.broken = (h.broken \/ raises)
      /\ h.issued \in Nat /\ h.length \in Nat
  BY <1>1, <1>5 DEF History
<1>8. ~h.broken => ~\E k \in h.issued + 1 .. h.length : TRUE
  BY <1>1 DEF NotLost
<1>9. ASSUME NEW s \in Seq(Command), \A i \in 1..Len(s) : s[i].src = "end"
      PROVE  QueueOK(s, history')
  BY <1>6, <1>7, <1>8, <1>9 DEF QueueOK, InOrder, NotLost, Precedes
<1>10. CASE more = <<>> \/ raises
  <2>1. command_queue' = more /\ timers' = ts
        /\ timeout_id' = IF begin /\ ~raises THEN Inert ELSE NoTimer
    BY <1>10 DEF Finish, IdleId, more, raises
  <2>2. QueueOK(command_queue', history')
    BY <1>2, <1>9, <2>1
  <2>3. history'.broken \/ command_queue' = <<>>
    BY <1>7, <1>10, <2>1
  <2> QED
    BY <1>3, <1>4, <2>1, <2>2, <2>3, ConstantsAssumption
       DEF Machine, RecordedTimerPending, IdleMeansDone, NoStall
<1>11. CASE ~(more = <<>> \/ raises)
  <2>1. /\ command_queue' = Append(more, FinalEnd)
        /\ timers' = Arm(ts, t, timer)
        /\ timeout_id' = IF begin THEN Inert ELSE t
    BY <1>11 DEF Finish, more, raises
  <2>2. FinalEnd \in Command /\ FinalEnd.src = "end"
    BY DEF FinalEnd, Command, Kinds, Events
  <2>3. QueueOK(command_queue', history')
    <3>1. /\ command_queue' \in Seq(Command)
          /\ Len(command_queue') = Len(more) + 1
          /\ \A i \in 1..Len(more) : command_queue'[i] = more[i]
          /\ command_queue'[Len(more) + 1] = FinalEnd
          /\ Len(more) \in Nat
      BY <1>2, <2>1, <2>2
    <3>2. \A i \in 1..Len(command_queue') : command_queue'[i].src = "end"
      <4>1. TAKE i \in 1..Len(command_queue')
      <4>2. i \in 1..Len(more) \/ i = Len(more) + 1
        BY <3>1
      <4> QED
        BY <1>2, <2>2, <3>1, <4>2
    <3> QED
      BY <1>9, <3>1, <3>2
  <2>4. t \in TimerIds /\ timer \in Timer
    BY <1>1, FreshIdOK, ConstantsAssumption DEF Timer, Jobs
  <2>5. TimersOK(timers') /\ t \in DOMAIN timers'
    BY <2>1, <2>4, ArmOK
  <2> QED
    BY <1>3, <1>4, <2>1, <2>3, <2>4, <2>5, ConstantsAssumption
       DEF Machine, RecordedTimerPending, IdleMeansDone, NoStall
<1> QED
  BY <1>10, <1>11

LEMMA ExecuteMachine ==
    ASSUME NEW q, NEW ts, NEW h, NEW trap \in Int, NEW end \in Handler,
           NEW begin \in BOOLEAN,
           QueueOK(q, h), TimersOK(ts), Execute(q, ts, h, trap, end, begin)
    PROVE  Machine'
BY DispatchMachine, FinishMachine DEF Execute

(* Putting commands of a handler other than the run handler before a queue *)
(* or, when it is empty, commands of the run handler in it.                *)
LEMMA PushedQueue ==
    ASSUME NEW handler \in Seq(Step), NEW trap \in Int, NEW src \in Events,
           NEW q, NEW h, QueueOK(q, h), q = <<>> \/ h.broken,
           src = "run" => q = <<>> /\ h.issued = 0
    PROVE  QueueOK(q \o Pushed(handler, trap, src),
                   [h EXCEPT !.length = IF src = "run"
                                        THEN Len(Pushed(handler, trap, src)) ELSE @])
<1> DEFINE p == Pushed(handler, trap, src)
           n == Completed(handler, trap)
           h2 == [h EXCEPT !.length = IF src = "run" THEN Len(p) ELSE @]
<1>1. /\ p \in Seq(Command) /\ Len(p) = n /\ n \in Nat
      /\ \A i \in 1..n : p[i].src = src /\ p[i].idx = i
  BY PushedType
<1>2. /\ q \in Seq(Command) /\ Len(q) \in Nat /\ h \in History
      /\ InOrder(q, h) /\ NotLost(q, h)
  BY DEF QueueOK
<1> HIDE DEF p, n
<1>3. /\ h2 \in History
      /\ h2.issued = h.issued /\ h2.broken = h.broken
      /\ h2.length = IF src = "run" THEN n ELSE h.length
      /\ h.issued \in Nat /\ h.length \in Nat
  BY <1>1, <1>2 DEF History
<1> HIDE DEF h2
<1>4. CASE q = <<>>
  <2>1. q \o p = p
    BY <1>1, <1>4
  <2>2. InOrder(p, h2)
    BY <1>1, <1>3 DEF InOrder
  <2>3. NotLost(p, h2)
    <3>1. SUFFICES ASSUME ~h2.broken, NEW k \in h2.issued + 1 .. h2.length
                   PROVE  \E i \in 1..Len(p) : p[i].src = "run" /\ p[i].idx = k
      BY DEF NotLost
    <3>2. CASE src = "run"
      BY <1>1, <1>3, <3>1, <3>2
    <3>3. CASE src # "run"
      BY <1>2, <1>3, <1>4, <3>1, <3>3 DEF NotLost
    <3> QED
      BY <3>2, <3>3
  <2>4. Precedes(p, h2)
    BY <1>1 DEF Precedes
  <2>5. QueueOK(p, h2)
    BY <1>1, <1>3, <2>2, <2>3, <2>4 DEF QueueOK
  <2> QED
    BY <2>1, <2>5 DEF p, h2
<1>5. CASE q # <<>>
  <2>1. h2.broken /\ src # "run"
    BY <1>3, <1>5
  <2>2. /\ q \o p \in Seq(Command) /\ Len(q \o p) = Len(q) + n
        /\ \A i \in 1..Len(q) + n :
              (q \o p)[i] = IF i <= Len(q) THEN q[i] ELSE p[i - Len(q)]
    <3>1. q \in Seq(Command) /\ p \in Seq(Command)
      BY <1>1, <1>2
    <3>2. /\ q \o p \in Seq(Command) /\ Len(q \o p) = Len(q) + Len(p)
          /\ \A i \in 1..Len(q) + Len(p) :
                (q \o p)[i] = IF i <= Len(q) THEN q[i] ELSE p[i - Len(q)]
      BY <3>1, ConcatProperties
    <3>3. Len(p) = n
      BY <1>1
    <3> QED
      BY <3>2, <3>3
  <2>3. \A i \in 1..Len(q) + n : (q \o p)[i].src = "run" => i \in 1..Len(q)
    BY <1>1, <1>2, <2>1, <2>2
  <2>4. InOrder(q \o p, h2)
    BY <1>2, <1>3, <2>1, <2>2, <2>3 DEF InOrder
  <2>5. NotLost(q \o p, h2) /\ Precedes(q \o p, h2)
    BY <2>1 DEF NotLost, Precedes
  <2>6. QueueOK(q \o p, h2)
    BY <1>3, <2>2, <2>4, <2>5 DEF QueueOK
  <2> QED
    BY <2>6 DEF p, h2
<1> QED
  BY <1>4, <1>5

LEMMA HandleMachine ==
    ASSUME NEW handler \in Handler, NEW src \in Events, NEW q, NEW ts, NEW h,
           NEW trap \in Int, NEW end \in Handler,
           QueueOK(q, h), TimersOK(ts), q = <<>> \/ h.broken,
           src = "run" => q = <<>> /\ h.issued = 0,
           wait_time \in Nat, elapsed \in Nat,
           HandleThenExecute(handler, src, q, ts, h, trap, end)
    PROVE  Machine'
<1> DEFINE pushed == Pushed(handler, trap, src)
           h2 == [h EXCEPT !.length = IF src = "run" THEN Len(pushed) ELSE @]
<1>1. CASE handler = NoHandler
  <2>1. Execute(q, ts, h, trap, end, TRUE)
    BY <1>1 DEF HandleThenExecute
  <2> QED
    BY <2>1, ExecuteMachine
<1>2. CASE handler # NoHandler
  <2>1. handler \in Seq(Step)
    BY <1>2 DEF Handler
  <2>2. QueueOK(q \o pushed, h2) /\ TrapAfter(handler, trap) \in Int
    BY <2>1, PushedQueue, TrapAfterType
  <2>3. CASE Raises(handler, trap)
    <3>1. /\ command_queue' = q \o pushed
          /\ timers' = ts /\ timeout_id' = NoTimer
          /\ elapsed' = IF src = "run" THEN 0 ELSE elapsed
          /\ loopTrap' = TrapAfter(handler, trap)
          /\ history' = [h2 EXCEPT !.broken = TRUE]
          /\ wait_time' = wait_time
      BY <1>2, <2>3 DEF HandleThenExecute
    <3> HIDE DEF h2, pushed
    <3>2. /\ history' \in History /\ history'.broken
          /\ history'.issued = h2.issued /\ history'.length = h2.length
      BY <2>2, <3>1 DEF QueueOK, History
    <3>3. QueueOK(command_queue', history')
      BY <2>2, <3>1, <3>2 DEF QueueOK, InOrder, NotLost, Precedes
    <3> QED
      BY <2>2, <3>1, <3>2, <3>3, ConstantsAssumption
         DEF Machine, RecordedTimerPending, IdleMeansDone, NoStall
  <2>4. CASE ~Raises(handler, trap)
    <3>1. Execute(q \o pushed, ts, h2, TrapAfter(handler, trap), end, TRUE)
      BY <1>2, <2>4 DEF HandleThenExecute
    <3> HIDE DEF h2, pushed
    <3> QED
      BY <2>2, <3>1, ExecuteMachine
  <2> QED
    BY <2>3, <2>4
<1> QED
  BY <1>1, <1>2

-----------------------------------------------------------------------------
(* The actions *)

LEMMA InitInd == Init => Ind
<1> SUFFICES ASSUME Init PROVE Ind
  OBVIOUS
<1>1. history \in History /\ ~history.broken /\ history.length = 0 /\ history.issued = 0
  BY DEF Init, History
<1>2. QueueOK(command_queue, history)
  BY <1>1 DEF Init, QueueOK, InOrder, NotLost, Precedes
<1>3. TimersOK(timers)
  BY DEF Init, TimersOK
<1>4. Machine
  BY <1>2, <1>3, ConstantsAssumption
     DEF Init, Machine, RecordedTimerPending, IdleMeansDone, NoStall
<1>5. handlers \in [Events -> Handler]
  BY DEF Init, Handler
<1>6. presses \in 0..MaxPresses /\ collisions \in 0..MaxCollisions
  BY ConstantsAssumption DEF Init
<1>7. /\ isConnected \in BOOLEAN /\ listening \in BOOLEAN /\ runButton \in {"run", "reset"}
      /\ calibrateButton \in {"calibrate", "end"}
  BY DEF Init
<1> QED
  BY <1>4, <1>5, <1>6, <1>7 DEF Ind, Others

LEMMA ClearedOK ==
    ASSUME Ind
    PROVE  /\ QueueOK(<<>>, ClearedHistory)
           /\ ClearedHistory.issued = 0
           /\ TimersOK(ClearedTimers)
<1>1. history \in History /\ TimersOK(timers)
  BY DEF Ind, Machine, QueueOK
<1>2. /\ ClearedHistory \in History
      /\ ClearedHistory.issued = 0 /\ ClearedHistory.length = 0
  BY <1>1 DEF ClearedHistory, History
<1>3. TimersOK(ClearedTimers)
  BY <1>1, CancelOK DEF ClearedTimers
<1> HIDE DEF ClearedHistory
<1>4. QueueOK(<<>>, ClearedHistory)
  BY <1>2 DEF QueueOK, InOrder, NotLost, Precedes
<1> QED
  BY <1>2, <1>3, <1>4

LEMMA ClearMachine ==
    ASSUME Ind, ClearAllCommands
    PROVE  Machine'
<1>1. QueueOK(command_queue', history') /\ TimersOK(timers')
  BY ClearedOK DEF ClearAllCommands
<1> QED
  BY <1>1, ConstantsAssumption
     DEF Ind, Machine, ClearAllCommands, RecordedTimerPending, IdleMeansDone, NoStall

LEMMA HandlersType ==
    ASSUME NEW w \in Workspaces, handlers \in [Events -> Handler]
    PROVE  /\ Detached \in [Events -> Handler]
           /\ \A hs \in [Events -> Handler] : Attached(w, hs) \in [Events -> Handler]
<1>1. w \in [Events -> Handler] /\ NoHandler \in Handler
  BY ConstantsAssumption DEF Handler
<1> QED
  BY <1>1 DEF Detached, Attached

LEMMA DetachedType ==
    ASSUME handlers \in [Events -> Handler]
    PROVE  Detached \in [Events -> Handler]
BY DEF Detached, Handler

(* The busy branch of collisionDetected: the handler's commands, a wait    *)
(* and the old queue.                                                      *)
LEMMA BusyQueue ==
    ASSUME NEW pushed \in Seq(Command), NEW w \in Command, NEW q, NEW h,
           QueueOK(q, h), w.src = "wait",
           \A i \in 1..Len(pushed) : pushed[i].src = "collision"
    PROVE  QueueOK(pushed \o <<w>> \o q, h)
<1> DEFINE front == pushed \o <<w>>
           m == Len(pushed) + 1
<1>1. Len(pushed) \in Nat
  OBVIOUS
<1>2. /\ front \in Seq(Command) /\ Len(front) = m
      /\ \A i \in 1..Len(pushed) : front[i] = pushed[i]
      /\ front[m] = w
  BY <1>1
<1>3. \A i \in 1..m : front[i].src \in {"collision", "wait"}
  <2>1. TAKE i \in 1..m
  <2>2. i \in 1..Len(pushed) \/ i = m
    BY <1>1
  <2> QED
    BY <1>2, <2>2
<1>4. q \in Seq(Command) /\ Len(q) \in Nat
  BY DEF QueueOK
<1> HIDE DEF front
<1>5. /\ front \o q \in Seq(Command) /\ Len(front \o q) = m + Len(q)
      /\ \A i \in 1..m + Len(q) :
            (front \o q)[i] = IF i <= m THEN front[i] ELSE q[i - m]
  <2>1. front \in Seq(Command) /\ q \in Seq(Command) /\ Len(front) = m
    BY <1>2, <1>4
  <2> HIDE DEF m
  <2> QED
    BY <2>1, ConcatProperties
<1>6. m \in Nat
  BY <1>1
<1> HIDE DEF m
<1>7. ASSUME NEW i \in 1..m + Len(q)
      PROVE  /\ i <= m => (front \o q)[i].src \in {"collision", "wait"}
             /\ i > m => i - m \in 1..Len(q) /\ (front \o q)[i] = q[i - m]
  <2>1. CASE i <= m
    BY <1>3, <1>4, <1>5, <1>6, <2>1
  <2>2. CASE i > m
    BY <1>4, <1>5, <1>6, <2>2
  <2> QED
    BY <1>4, <1>6, <2>1, <2>2
<1>8. ASSUME NEW k \in 1..Len(q)
      PROVE  k + m \in 1..m + Len(q) /\ (front \o q)[k + m] = q[k]
  <2>1. k + m \in 1..m + Len(q) /\ ~(k + m <= m) /\ k + m - m = k
    BY <1>4, <1>6
  <2>2. (front \o q)[k + m] = q[(k + m) - m]
    BY <1>5, <2>1
  <2>3. q[(k + m) - m] = q[k]
    BY <1>4, <1>6
  <2> QED
    BY <2>1, <2>2, <2>3
<1>9. InOrder(front \o q, h)
  <2>1. SUFFICES ASSUME NEW i \in 1..m + Len(q), (front \o q)[i].src = "run"
                 PROVE  /\ (front \o q)[i].idx \in h.issued + 1 .. h.length
                        /\ \A j \in 1..m + Len(q) :
                              i < j /\ (front \o q)[j].src = "run"
                                 => (front \o q)[i].idx < (front \o q)[j].idx
    BY <1>5 DEF InOrder
  <2>2. i > m /\ i - m \in 1..Len(q) /\ (front \o q)[i] = q[i - m]
    <3>1. ~(i <= m)
      BY <1>7, <2>1
    <3>2. i > m
      BY <1>4, <1>6, <2>1, <3>1
    <3> QED
      BY <1>7, <2>1, <3>2
  <2>3. /\ q[i - m].idx \in h.issued + 1 .. h.length
        /\ \A k \in 1..Len(q) :
              i - m < k /\ q[k].src = "run" => q[i - m].idx < q[k].idx
    BY <2>1, <2>2 DEF QueueOK, InOrder
  <2>4. ASSUME NEW j \in 1..m + Len(q), i < j, (front \o q)[j].src = "run"
        PROVE  (front \o q)[i].idx < (front \o q)[j].idx
    <3>1. j > m /\ i - m < j - m
      BY <1>4, <1>6, <2>2, <2>4
    <3>2. j - m \in 1..Len(q) /\ (front \o q)[j] = q[j - m]
      BY <1>7, <2>4, <3>1
    <3> QED
      BY <2>2, <2>3, <2>4, <3>1, <3>2
  <2> QED
    BY <2>2, <2>3, <2>4
<1>10. NotLost(front \o q, h)
  <2>1. SUFFICES ASSUME ~h.broken, NEW k \in h.issued + 1 .. h.length
                 PROVE  \E i \in 1..m + Len(q) :
                            (front \o q)[i].src = "run" /\ (front \o q)[i].idx = k
    BY <1>5 DEF NotLost
  <2>2. PICK i \in 1..Len(q) : q[i].src = "run" /\ q[i].idx = k
    BY <2>1 DEF QueueOK, NotLost
  <2> QED
    BY <1>8, <2>2
<1>11. Precedes(front \o q, h)
  <2>1. SUFFICES ASSUME ~h.broken, NEW i \in 1..m + Len(q), NEW j \in 1..m + Len(q),
                        i < j, (front \o q)[j].src = "collision"
                 PROVE  (front \o q)[i].src \in {"collision", "wait"}
    BY <1>5 DEF Precedes
  <2>2. CASE i <= m
    BY <1>7, <2>2
  <2>3. CASE i > m
    <3>1. j > m /\ i - m < j - m
      BY <1>4, <1>6, <2>1, <2>3
    <3>2. /\ i - m \in 1..Len(q) /\ (front \o q)[i] = q[i - m]
          /\ j - m \in 1..Len(q) /\ (front \o q)[j] = q[j - m]
      BY <1>7, <2>3, <3>1
    <3> QED
      BY <2>1, <3>1, <3>2 DEF QueueOK, Precedes
  <2>4. i <= m \/ i > m
    BY <1>4, <1>6, <2>1
  <2> QED
    BY <2>2, <2>3, <2>4
<1>12. QueueOK(front \o q, h)
  BY <1>5, <1>9, <1>10, <1>11 DEF QueueOK
<1> QED
  BY <1>12 DEF front

LEMMA CollisionWhenIdleMachine == Ind /\ CollisionWhenIdle => Machine'
<1> SUFFICES ASSUME Ind, CollisionWhenIdle PROVE Machine'
  OBVIOUS
<1>1. /\ QueueOK(command_queue, history) /\ TimersOK(timers)
      /\ command_queue = <<>> \/ history.broken
      /\ handlers \in [Events -> Handler] /\ loopTrap \in Int
      /\ wait_time \in Nat /\ elapsed \in Nat
  BY DEF Ind, Machine, Others, CollisionWhenIdle, IdleMeansDone
<1>2. /\ handlers.collision \in Handler /\ handlers.end \in Handler
      /\ "collision" \in Events
  BY <1>1 DEF Events
<1> QED
  BY <1>1, <1>2, HandleMachine DEF CollisionWhenIdle

LEMMA CollisionWhenBusyMachine == Ind /\ CollisionWhenBusy => Machine'
<1> SUFFICES ASSUME Ind, CollisionWhenBusy PROVE Machine'
  OBVIOUS
<1> DEFINE handler == handlers.collision
           handled == handler # NoHandler
           pushed == IF handled THEN Pushed(handler, loopTrap, "collision") ELSE <<>>
           t == FreshId(ClearedTimers)
           timer == [job |-> "execute", left |-> 0, half |-> 0]
<1>1. /\ QueueOK(command_queue, history) /\ TimersOK(timers) /\ history \in History
      /\ timeout_id \in TimerIds \cup {NoTimer, Inert} /\ RecordedTimerPending
      /\ wait_time \in Nat /\ elapsed \in Nat /\ loopTrap \in Int
  BY DEF Ind, Machine, QueueOK
<1>2. handler \in Handler /\ "collision" \in Events
  BY DEF Ind, Others, Events
<1>3. pushed \in Seq(Command) /\ \A i \in 1..Len(pushed) : pushed[i].src = "collision"
  <2>1. CASE ~handled
    BY <2>1
  <2>2. CASE handled
    <3>1. handler \in Seq(Step) /\ pushed = Pushed(handler, loopTrap, "collision")
      BY <1>2, <2>2 DEF Handler
    <3> DEFINE new == Pushed(handler, loopTrap, "collision")
               n == Completed(handler, loopTrap)
    <3>2. loopTrap \in Int
      BY <1>1
    <3>3. /\ new \in Seq(Command) /\ Len(new) = n
          /\ \A i \in 1..n : new[i].src = "collision" /\ new[i].idx = i
      BY <1>2, <3>1, <3>2, PushedType
    <3> HIDE DEF handler, pushed, new, n
    <3>4. pushed = new
      BY <3>1 DEF new
    <3> QED
      BY <3>3, <3>4
  <2> QED
    BY <2>1, <2>2
<1>4. Remaining \in Nat
  BY <1>1 DEF Remaining
<1>5. elapsed' \in Nat
  BY <1>1 DEF CollisionWhenBusy
<1>6. loopTrap' \in Int
  <2>1. CASE ~handled
    BY <1>1, <2>1 DEF CollisionWhenBusy
  <2>2. CASE handled
    <3>1. handler \in Seq(Step)
      BY <1>2, <2>2 DEF Handler
    <3> QED
      BY <1>1, <2>2, <3>1, TrapAfterType DEF CollisionWhenBusy
  <2> QED
    BY <2>1, <2>2
<1>7. CASE handled /\ Raises(handler, loopTrap)
  <2>1. /\ command_queue' = pushed /\ wait_time' = Remaining
        /\ history' = [history EXCEPT !.broken = TRUE]
        /\ timers' = timers /\ timeout_id' = timeout_id
    BY <1>7 DEF CollisionWhenBusy
  <2>2. history' \in History /\ history'.broken
    BY <1>1, <2>1 DEF History
  <2> HIDE DEF pushed
  <2>3. QueueOK(command_queue', history')
    BY <1>3, <2>1, <2>2 DEF QueueOK, InOrder, NotLost, Precedes
  <2> QED
    BY <1>1, <1>4, <1>5, <1>6, <2>1, <2>2, <2>3
       DEF Machine, RecordedTimerPending, IdleMeansDone, NoStall
<1>8. CASE ~(handled /\ Raises(handler, loopTrap))
  <2>1. /\ HasRoom(ClearedTimers)
        /\ command_queue' = Preempt(pushed, command_queue)
        /\ wait_time' = 0
        /\ timers' = Arm(ClearedTimers, t, timer)
        /\ timeout_id' = t
        /\ history' = history
    BY <1>8 DEF CollisionWhenBusy, Restart
  <2>2. ReplicatedWait \in Command /\ ReplicatedWait.src = "wait"
    BY <1>4 DEF ReplicatedWait, Command, Kinds
  <2> HIDE DEF pushed
  <2>3. QueueOK(command_queue', history')
    BY <1>1, <1>3, <2>1, <2>2, BusyQueue DEF Preempt
  <2>4. t \in TimerIds /\ timer \in Timer /\ TimersOK(ClearedTimers)
    BY <1>1, <2>1, FreshIdOK, CancelOK DEF Timer, Jobs, ClearedTimers
  <2>5. TimersOK(timers') /\ t \in DOMAIN timers'
    BY <2>1, <2>4, ArmOK
  <2> QED
    BY <1>5, <1>6, <2>1, <2>3, <2>4, <2>5, ConstantsAssumption
       DEF Machine, RecordedTimerPending, IdleMeansDone, NoStall
<1> QED
  BY <1>7, <1>8

LEMMA TickMachine == Ind /\ Tick => Machine'
<1> SUFFICES ASSUME Ind, Tick PROVE Machine'
  OBVIOUS
<1>1. /\ QueueOK(command_queue, history) /\ TimersOK(timers) /\ history \in History
  BY DEF Ind, Machine, QueueOK
<1>2. history' \in History /\ history'.broken = history.broken
      /\ history'.issued = history.issued /\ history'.length = history.length
  <2>1. history.pause \in Nat /\ (IF history.pause > 0 THEN history.pause - 1 ELSE 0) \in Nat
    BY <1>1 DEF History
  <2> QED
    BY <1>1, <2>1 DEF Tick, History
<1>3. QueueOK(command_queue', history')
  BY <1>1, <1>2 DEF Tick, QueueOK, InOrder, NotLost, Precedes
<1>4. DOMAIN timers' = DOMAIN timers
  BY DEF Tick
<1>5. \A t \in DOMAIN timers : timers'[t] \in Timer
  <2>1. TAKE t \in DOMAIN timers
  <2>2. timers[t] \in Timer
    BY <1>1 DEF TimersOK
  <2>3. (IF timers[t].left > 0 THEN timers[t].left - 1 ELSE 0) \in Nat
    BY <2>2 DEF Timer
  <2>4. timers'[t] = [timers[t] EXCEPT !.left = IF @ > 0 THEN @ - 1 ELSE 0]
    BY DEF Tick
  <2> QED
    BY <2>2, <2>3, <2>4 DEF Timer
<1>6. TimersOK(timers')
  <2>1. timers' = [t \in DOMAIN timers |-> timers'[t]]
    BY DEF Tick
  <2> QED
    BY <1>1, <1>4, <1>5, <2>1 DEF TimersOK
<1>7. elapsed' \in Nat
  BY DEF Tick, Ind, Machine
<1> QED
  BY <1>2, <1>3, <1>4, <1>6, <1>7
     DEF Ind, Machine, Tick, RecordedTimerPending, IdleMeansDone, NoStall

LEMMA FireTimerMachine == \A t \in TimerIds : Ind /\ FireTimer(t) => Machine'
<1> SUFFICES ASSUME NEW t \in TimerIds, Ind, FireTimer(t) PROVE Machine'
  OBVIOUS
<1>1. /\ QueueOK(command_queue, history) /\ TimersOK(timers) /\ history \in History
      /\ loopTrap \in Int /\ handlers.end \in Handler
  BY DEF Ind, Machine, QueueOK, Others, Events
<1>2. ASSUME NEW job, NEW ended, FireExecute(t, job, ended) PROVE Machine'
  <2> DEFINE h == [history EXCEPT !.engaged = @ \ ended]
             ts == Cancel(Cancel(timers, t), timeout_id)
  <2>1. TimersOK(ts)
    BY <1>1, CancelOK
  <2>2. /\ h \in History
        /\ h.broken = history.broken /\ h.issued = history.issued
        /\ h.length = history.length
    BY <1>1 DEF History
  <2>3. Execute(command_queue, ts, h, loopTrap, handlers.end, FALSE)
    BY <1>2 DEF FireExecute
  <2> HIDE DEF h, ts
  <2>4. QueueOK(command_queue, h)
    BY <1>1, <2>2 DEF QueueOK, InOrder, NotLost, Precedes
  <2> QED
    BY <1>1, <2>1, <2>3, <2>4, ExecuteMachine
<1>3. CASE FireHalfTurn(t)
  <2> DEFINE ts == Cancel(timers, t)
             id == FreshId(ts)
             timer == [job |-> "execute", left |-> timers[t].half, half |-> 0]
  <2>1. /\ timers' = Arm(ts, id, timer) /\ timeout_id' = id
        /\ wait_time' = timers[t].half /\ t \in DOMAIN timers
        /\ UNCHANGED <<command_queue, elapsed, loopTrap, history>>
    BY <1>3 DEF FireHalfTurn, Due
  <2>2. TimersOK(ts) /\ HasRoom(ts)
    BY <1>1, <2>1, CancelOK DEF HasRoom
  <2>3. timers[t] \in Timer
    BY <1>1, <2>1 DEF TimersOK
  <2>4. id \in TimerIds /\ timer \in Timer /\ wait_time' \in Nat
    BY <2>1, <2>2, <2>3, FreshIdOK DEF Timer, Jobs
  <2>5. TimersOK(timers') /\ id \in DOMAIN timers'
    BY <2>1, <2>2, <2>4, ArmOK
  <2> QED
    BY <2>1, <2>4, <2>5, ConstantsAssumption
       DEF Ind, Machine, RecordedTimerPending, IdleMeansDone, NoStall
<1> QED
  BY <1>2, <1>3 DEF FireTimer

-----------------------------------------------------------------------------
(* The inductive step *)

LEMMA PressBound == ASSUME Ind, Press PROVE presses' \in 0..MaxPresses
BY ConstantsAssumption DEF Ind, Others, Press

LEMMA ButtonInd == Ind /\ Buttons => Ind'
<1> SUFFICES ASSUME Ind, Buttons PROVE Ind'
  OBVIOUS
<1>1. /\ Machine /\ QueueOK(command_queue, history) /\ TimersOK(timers)
      /\ wait_time \in Nat /\ elapsed \in Nat
      /\ Others /\ handlers \in [Events -> Handler] /\ history \in History
  BY DEF Ind, Machine, Others, QueueOK
<1>2. CASE Connect
  <2>1. Machine'
    BY <1>1, <1>2 DEF Connect, queueVars, Machine, RecordedTimerPending,
          IdleMeansDone, NoStall
  <2> QED
    BY <1>1, <1>2, <2>1, PressBound DEF Connect, Ind, Others
<1>9. CASE OtherCallback
  <2>1. Machine'
    BY <1>1, <1>9 DEF OtherCallback, queueVars, Machine, RecordedTimerPending,
          IdleMeansDone, NoStall
  <2> QED
    BY <1>1, <1>9, <2>1, PressBound DEF OtherCallback, Ind, Others
<1>3. CASE Reset
  <2>1. handlers' \in [Events -> Handler]
    BY <1>1, <1>3, DetachedType DEF Reset
  <2> QED
    BY <1>1, <1>3, <2>1, ClearMachine, PressBound DEF Reset, linkVars, Ind, Others
<1>4. CASE Calibrate
  <2>1. handlers' \in [Events -> Handler]
    BY <1>1, <1>4, DetachedType DEF Calibrate
  <2> QED
    BY <1>1, <1>4, <2>1, ClearMachine, PressBound DEF Calibrate, linkVars, Ind, Others
<1>5. CASE EndCalibrate
  <2>1. /\ history' \in History /\ history'.broken = history.broken
        /\ history'.issued = history.issued /\ history'.length = history.length
    BY <1>1, <1>5 DEF EndCalibrate, History
  <2>e. command_queue' = command_queue
    BY <1>5 DEF EndCalibrate, queueVars
  <2>2. QueueOK(command_queue', history')
    BY <1>1, <2>1, <2>e DEF QueueOK, InOrder, NotLost, Precedes
  <2>3. Machine'
    BY <1>1, <1>5, <2>1, <2>2
       DEF EndCalibrate, queueVars, Machine, RecordedTimerPending, IdleMeansDone, NoStall
  <2> QED
    BY <1>1, <1>5, <2>3, PressBound DEF EndCalibrate, linkVars, Ind, Others
<1>6. CASE Disconnect
  BY <1>1, <1>6, ClearMachine, PressBound DEF Disconnect, Ind, Others
<1>7. ASSUME NEW w \in Workspaces, Run(w) PROVE Ind'
  <2>1. handlers' \in [Events -> Handler]
    BY <1>1, <1>7, HandlersType DEF Run
  <2>2. handlers'.run \in Handler /\ handlers'.end \in Handler /\ "run" \in Events
    BY <2>1 DEF Events
  <2>3. Machine'
    BY <1>1, <1>7, <2>2, ClearedOK, HandleMachine, ConstantsAssumption DEF Run
  <2> QED
    BY <1>1, <1>7, <2>1, <2>3, PressBound DEF Run, linkVars, Ind, Others
<1>8. ASSUME NEW w \in Workspaces, Stop(w) PROVE Ind'
  <2>1. handlers' \in [Events -> Handler]
    BY <1>1, <1>8, HandlersType DEF Stop
  <2>2. handlers'.stop \in Handler /\ handlers'.end \in Handler /\ "stop" \in Events
    BY <2>1 DEF Events
  <2>3. Machine'
    BY <1>1, <1>8, <2>2, ClearedOK, HandleMachine, ConstantsAssumption DEF Stop
  <2> QED
    BY <1>1, <1>8, <2>1, <2>3, PressBound DEF Stop, uiVars, linkVars, Ind, Others
<1> QED
  BY <1>2, <1>3, <1>4, <1>5, <1>6, <1>7, <1>8, <1>9 DEF Buttons

LEMMA CollisionMessageOthers == ASSUME Ind, CollisionMessage PROVE Others'
BY ConstantsAssumption DEF Ind, Others, CollisionMessage, uiVars, linkVars

LEMMA NextInd == Ind /\ [Next]_vars => Ind'
<1> SUFFICES ASSUME Ind, [Next]_vars PROVE Ind'
  OBVIOUS
<1>1. CASE Buttons
  BY <1>1, ButtonInd
<1>2. CASE CollisionWhenIdle
  BY <1>2, CollisionWhenIdleMachine, CollisionMessageOthers DEF Ind, CollisionWhenIdle
<1>3. CASE CollisionWhenBusy
  BY <1>3, CollisionWhenBusyMachine, CollisionMessageOthers DEF Ind, CollisionWhenBusy
<1>4. CASE Tick
  <2>1. Others'
    BY <1>4 DEF Tick, Ind, Others, uiVars, linkVars, boundVars
  <2> QED
    BY <1>4, <2>1, TickMachine DEF Ind
<1>5. ASSUME NEW t \in TimerIds, FireTimer(t) PROVE Ind'
  <2>1. UNCHANGED <<handlers, uiVars, boundVars>>
    BY <1>5 DEF FireTimer, FireHalfTurn, FireExecute
  <2>2. Others'
    BY <2>1 DEF Ind, Others, uiVars, linkVars, boundVars
  <2> QED
    BY <1>5, <2>2, FireTimerMachine DEF Ind
<1>6. CASE UNCHANGED vars
  <2>1. Others'
    BY <1>6 DEF Ind, Others, vars, uiVars, linkVars, boundVars
  <2>2. Machine'
    BY <1>6 DEF Ind, Machine, vars, queueVars, RecordedTimerPending, IdleMeansDone, NoStall
  <2> QED
    BY <2>1, <2>2 DEF Ind
<1> QED
  BY <1>1, <1>2, <1>3, <1>4, <1>5, <1>6 DEF Next

LEMMA SpecInd == Spec => []Ind
BY InitInd, NextInd, PTL DEF Spec

LEMMA QueueDomain == ASSUME Ind PROVE DOMAIN command_queue = 1..Len(command_queue)
BY DEF Ind, Machine, QueueOK

-----------------------------------------------------------------------------
(* Every variable stays in its type. *)
THEOREM TypeCorrect == Spec => []TypeOK
<1>1. Ind => TypeOK
  BY DEF Ind, Machine, Others, QueueOK, TimersOK, TypeOK
<1> QED
  BY <1>1, SpecInd, PTL

(* timeout_id never names a timer that is gone. *)
THEOREM RecordedTimer == Spec => []RecordedTimerPending
<1>1. Ind => RecordedTimerPending
  BY DEF Ind, Machine
<1> QED
  BY <1>1, SpecInd, PTL

(* A null timeout_id goes with an empty queue, unless an exception has     *)
(* escaped.                                                                *)
THEOREM IdleIsDone == Spec => []IdleMeansDone
<1>1. Ind => IdleMeansDone
  BY DEF Ind, Machine
<1> QED
  BY <1>1, SpecInd, PTL

(* Unfinished commands have a pending timer, unless an exception has       *)
(* escaped.                                                                *)
THEOREM ExecutionGoesOn == Spec => []NoStall
<1>1. Ind => NoStall
  BY DEF Ind, Machine
<1> QED
  BY <1>1, SpecInd, PTL

(* The program's commands are issued in program order. *)
THEOREM ProgramOrder == Spec => []RunInOrder
<1>1. Ind => RunInOrder
  BY QueueDomain DEF Ind, Machine, QueueOK, InOrder, RunInOrder, FromRun
<1> QED
  BY <1>1, SpecInd, PTL

(* No command of the program is lost, unless an exception has escaped. *)
THEOREM ProgramComplete == Spec => []RunNotLost
<1>1. Ind => RunNotLost
  BY QueueDomain DEF Ind, Machine, QueueOK, NotLost, RunNotLost, FromRun
<1> QED
  BY <1>1, SpecInd, PTL

(* Collision commands have precedence, unless an exception has escaped. *)
THEOREM CollisionFirst == Spec => []CollisionPrecedence
<1>1. Ind => CollisionPrecedence
  BY QueueDomain DEF Ind, Machine, QueueOK, Precedes, CollisionPrecedence
<1> QED
  BY <1>1, SpecInd, PTL

-----------------------------------------------------------------------------
(* The executor implements CommandSequence, step by step. *)

(* What a step of the executor may do to the sequence and to broken. *)
LEMMA IndTypes ==
    ASSUME Ind
    PROVE  command_queue \in Seq(Command) /\ history.broken \in BOOLEAN
BY DEF Ind, Machine, QueueOK, History

(* A failure is remembered until the queue is cleared. *)
LEMMA BrokenStays ==
    ASSUME NEW q, NEW ts, NEW h \in History, NEW trap, NEW end, NEW begin,
           Execute(q, ts, h, trap, end, begin), h.broken
    PROVE  history'.broken
BY DEF Execute, Dispatch, Finish, History

LEMMA ButtonRefines == Ind /\ Ind' /\ Buttons => Sequence!Request
<1> SUFFICES ASSUME Ind, Ind', Buttons PROVE Sequence!Request
  OBVIOUS
<1>1. presses' = presses + 1 /\ collisions' = collisions
  BY DEF Buttons, Connect, OtherCallback, Reset, Calibrate, EndCalibrate, Disconnect, Run, Stop,
         Press, uiVars, linkVars
<1>2. command_queue' \in Seq(Command) /\ history'.broken \in BOOLEAN
  BY DEF Ind, Machine, QueueOK, History
<1> QED
  BY <1>1, <1>2 DEF Sequence!Request

(* A step of execute() on the queue as it is takes its first command, or   *)
(* extends a sequence that has been issued, or fails.                      *)
LEMMA ExecuteRefines ==
    ASSUME Ind, Ind', NEW ts, NEW h \in History, h.broken = history.broken,
           NEW trap, NEW end, UNCHANGED boundVars,
           Execute(command_queue, ts, h, trap, end, FALSE)
    PROVE  Sequence!Next
<1>1. /\ command_queue' \in Seq(Command) /\ history'.broken \in BOOLEAN
      /\ presses' = presses /\ collisions' = collisions
  BY IndTypes DEF Ind, Machine, QueueOK, History, boundVars
<1>2. history.broken \in BOOLEAN
  BY IndTypes
<1>3. history.broken => history'.broken
  BY BrokenStays
<1>4. CASE history'.broken
  BY <1>1, <1>4 DEF Sequence!Next, Sequence!Fail
<1>5. CASE ~history'.broken /\ Dispatch(command_queue, ts, h, trap, FALSE)
  <2>1. command_queue # <<>> /\ command_queue' = Tail(command_queue)
    BY <1>5 DEF Dispatch
  <2>2. history'.broken = history.broken
    BY <1>1, <1>2, <1>3, <1>5
  <2> QED
    BY <1>1, <1>3, <1>5, <2>1, <2>2 DEF Sequence!Next, Sequence!Issue
<1>6. CASE ~history'.broken /\ Finish(command_queue, ts, h, trap, end, FALSE)
  <2>1. command_queue = <<>>
    BY <1>6 DEF Finish
  <2>2. history'.broken = history.broken
    BY <1>1, <1>2, <1>3, <1>6
  <2> QED
    BY <1>1, <2>1, <2>2 DEF Sequence!Next, Sequence!Extend
<1> QED
  BY <1>1, <1>4, <1>5, <1>6 DEF Execute

LEMMA IdleRefines == Ind /\ Ind' /\ CollisionWhenIdle => Sequence!Next
<1> SUFFICES ASSUME Ind, Ind', CollisionWhenIdle PROVE Sequence!Next
  OBVIOUS
<1>1. /\ command_queue' \in Seq(Command) /\ history'.broken \in BOOLEAN
      /\ history.broken \in BOOLEAN /\ history \in History
  BY DEF Ind, Machine, QueueOK, History
<1>2. collisions' = collisions + 1 /\ presses' = presses
  BY DEF CollisionWhenIdle, CollisionMessage
<1>3. history.broken => history'.broken
  <2> DEFINE handler == handlers.collision
             h == [history EXCEPT !.length = IF "collision" = "run"
                      THEN Len(Pushed(handler, loopTrap, "collision")) ELSE @]
             q == command_queue \o Pushed(handler, loopTrap, "collision")
  <2>0. history.length \in Nat
    BY <1>1 DEF History
  <2>1. h \in History /\ h.broken = history.broken
    BY <1>1, <2>0 DEF History
  <2>2. \/ history' = [h EXCEPT !.broken = TRUE]
        \/ Execute(q, timers, h, TrapAfter(handler, loopTrap), handlers.end, TRUE)
    BY DEF CollisionWhenIdle, HandleThenExecute
  <2> HIDE DEF h, q, handler
  <2> QED
    BY <2>1, <2>2, BrokenStays DEF History
<1>4. CASE history'.broken
  BY <1>1, <1>2, <1>4 DEF Sequence!Next, Sequence!Fail
<1>5. CASE ~history'.broken
  <2>1. ~history.broken /\ command_queue = <<>>
    BY <1>3, <1>5 DEF Ind, Machine, IdleMeansDone, CollisionWhenIdle
  <2>2. Len(command_queue') \in Nat /\ Len(command_queue) = 0
    BY <1>1, <2>1
  <2>3. SubSeq(command_queue', Len(command_queue') - Len(command_queue) + 1,
               Len(command_queue')) = command_queue
    BY <1>1, <2>1, <2>2
  <2>4. history'.broken = history.broken
    BY <1>1, <1>5, <2>1
  <2> QED
    BY <1>1, <1>2, <2>1, <2>2, <2>3, <2>4 DEF Sequence!Next, Sequence!Interrupt
<1> QED
  BY <1>4, <1>5

(* The end of a concatenation is its second part. *)
LEMMA BackOfConcat ==
    ASSUME NEW S, NEW f \in Seq(S), NEW q \in Seq(S)
    PROVE  /\ Len(f \o q) >= Len(q)
           /\ SubSeq(f \o q, Len(f \o q) - Len(q) + 1, Len(f \o q)) = q
<1>1. /\ Len(f) \in Nat /\ Len(q) \in Nat
      /\ f \o q \in Seq(S) /\ Len(f \o q) = Len(f) + Len(q)
  BY LenProperties
<1>2. \A i \in 1..Len(q) : (f \o q)[Len(f) + i] = q[i]
  BY <1>1
<1> DEFINE s == SubSeq(f \o q, Len(f) + 1, Len(f) + Len(q))
<1>3. s \in Seq(S) /\ Len(s) = Len(q) /\ \A i \in 1..Len(q) : s[i] = q[i]
  BY <1>1, <1>2
<1>4. s = q
  BY <1>3, SeqEqual
<1> QED
  BY <1>1, <1>4

(* What a collision puts before the commands that wait. *)
LEMMA CollisionFront ==
    ASSUME Ind
    PROVE  (IF handlers.collision # NoHandler
            THEN Pushed(handlers.collision, loopTrap, "collision") ELSE <<>>)
               \o <<ReplicatedWait>> \in Seq(Command)
<1> DEFINE handler == handlers.collision
           pushed == Pushed(handler, loopTrap, "collision")
<1>1. ReplicatedWait \in Command
  <2>1. Remaining \in Nat
    BY DEF Ind, Machine, Remaining
  <2> QED
    BY <2>1 DEF ReplicatedWait, Command, Kinds
<1>2. handler \in Handler /\ loopTrap \in Int /\ "collision" \in Events
  BY DEF Ind, Machine, Others, Events
<1>3. CASE handler = NoHandler
  BY <1>1, <1>3
<1>4. CASE handler # NoHandler
  <2>1. pushed \in Seq(Command)
    BY <1>2, <1>4, PushedType DEF Handler
  <2> HIDE DEF pushed
  <2>2. pushed \o <<ReplicatedWait>> \in Seq(Command)
    BY <1>1, <2>1
  <2> QED
    BY <1>4, <2>2 DEF pushed
<1> QED
  BY <1>3, <1>4

LEMMA BusyRefines == Ind /\ Ind' /\ CollisionWhenBusy => Sequence!Next
<1> SUFFICES ASSUME Ind, Ind', CollisionWhenBusy PROVE Sequence!Next
  OBVIOUS
<1> DEFINE handler == handlers.collision
           handled == handler # NoHandler
           pushed == IF handled THEN Pushed(handler, loopTrap, "collision") ELSE <<>>
           front == pushed \o <<ReplicatedWait>>
<1>1. /\ command_queue \in Seq(Command) /\ command_queue' \in Seq(Command)
      /\ history'.broken \in BOOLEAN /\ history.broken \in BOOLEAN
      /\ history \in History
  BY DEF Ind, Machine, QueueOK, History
<1>2. collisions' = collisions + 1 /\ presses' = presses
  BY DEF CollisionWhenBusy, CollisionMessage
<1>3. CASE handled /\ Raises(handler, loopTrap)
  <2>1. history'.broken
    BY <1>1, <1>3 DEF CollisionWhenBusy, History
  <2> QED
    BY <1>1, <1>2, <2>1 DEF Sequence!Next, Sequence!Fail
<1>4. CASE ~(handled /\ Raises(handler, loopTrap))
  <2>1. command_queue' = front \o command_queue /\ history' = history
    BY <1>4 DEF CollisionWhenBusy, Preempt
  <2>2. CASE history.broken
    BY <1>1, <1>2, <2>1, <2>2 DEF Sequence!Next, Sequence!Fail
  <2>3. CASE ~history.broken
    <3>1. front \in Seq(Command)
      BY CollisionFront
    <3> HIDE DEF front
    <3>2. /\ Len(command_queue') >= Len(command_queue)
          /\ SubSeq(command_queue', Len(command_queue') - Len(command_queue) + 1,
                    Len(command_queue')) = command_queue
      BY <1>1, <2>1, <3>1, BackOfConcat
    <3> QED
      BY <1>1, <1>2, <2>1, <2>3, <3>2 DEF Sequence!Next, Sequence!Interrupt
  <2> QED
    BY <2>2, <2>3
<1> QED
  BY <1>3, <1>4

(* Every step of the executor is a step of the sequence or leaves it as it *)
(* is.                                                                     *)
LEMMA NextRefines == Ind /\ Ind' /\ [Next]_vars => [Sequence!Next]_(Sequence!vars)
<1> SUFFICES ASSUME Ind, Ind', [Next]_vars PROVE [Sequence!Next]_(Sequence!vars)
  OBVIOUS
<1>1. CASE Buttons
  BY <1>1, ButtonRefines DEF Sequence!Next
<1>2. CASE CollisionWhenIdle
  BY <1>2, IdleRefines
<1>3. CASE CollisionWhenBusy
  BY <1>3, BusyRefines
<1>4. CASE Tick
  <2>1. history'.broken = history.broken
    BY <1>4 DEF Tick, Ind, Machine, QueueOK, History
  <2> QED
    BY <1>4, <2>1 DEF Tick, boundVars, Sequence!vars
<1>5. ASSUME NEW t \in TimerIds, FireTimer(t) PROVE [Sequence!Next]_(Sequence!vars)
  <2>1. CASE FireHalfTurn(t)
    BY <2>1 DEF FireHalfTurn, boundVars, Sequence!vars
  <2>2. ASSUME NEW job, NEW ended, FireExecute(t, job, ended) PROVE Sequence!Next
    <3> DEFINE h == [history EXCEPT !.engaged = @ \ ended]
    <3>1. history \in History
      BY DEF Ind, Machine, QueueOK
    <3>2. h \in History /\ h.broken = history.broken
      BY <3>1 DEF History
    <3>3. /\ UNCHANGED boundVars
          /\ Execute(command_queue, Cancel(Cancel(timers, t), timeout_id), h,
                     loopTrap, handlers.end, FALSE)
      BY <2>2 DEF FireExecute
    <3> HIDE DEF h
    <3> QED
      BY <3>2, <3>3, ExecuteRefines
  <2> QED
    BY <1>5, <2>1, <2>2 DEF FireTimer
<1>6. CASE UNCHANGED vars
  BY <1>6 DEF vars, queueVars, boundVars, Sequence!vars
<1> QED
  BY <1>1, <1>2, <1>3, <1>4, <1>5, <1>6 DEF Next

(* The executor implements CommandSequence: commands are only issued from  *)
(* the front of one sequence, a collision only puts commands before those  *)
(* that wait, and only a button gives a program up, unless an exception    *)
(* has escaped.                                                            *)
THEOREM Implements == Spec => Sequence!Spec
<1>1. Init => Sequence!Init
  BY DEF Init, Sequence!Init
<1>2. Spec => []Ind
  BY SpecInd
<1> QED
  BY <1>1, <1>2, NextRefines, PTL DEF Spec, Sequence!Spec

-----------------------------------------------------------------------------
(* The wait block.  A program waits as long as it says if no collision     *)
(* comes and no button is pressed while begin_execute has the sphero       *)
(* remember the timer that does nothing and not the one that is pending:   *)
(* then only one timer is ever pending, and it lasts as long as the wait.  *)

Lost == timeout_id = Inert /\ DOMAIN timers # {}

AtMostOne(ts) == \A t, u \in DOMAIN ts : t = u

(* The program's commands have their block ids, so execute() finds their   *)
(* seconds.                                                                *)
BlocksOK(q) == \A i \in 1..Len(q) : q[i].src = "run" => q[i].block = TRUE

TimersCover(ts, pause) == \A t \in DOMAIN ts : ts[t].left >= pause

Waits ==
    /\ BlocksOK(command_queue)
    /\ AtMostOne(timers)
    /\ DOMAIN timers # {} => timeout_id = Inert \/ timeout_id \in DOMAIN timers
    /\ TimersCover(timers, history.pause)

LEMMA PushedBlocks ==
    ASSUME NEW h \in Seq(Step), NEW trap \in Int, NEW src \in Events
    PROVE  BlocksOK(Pushed(h, trap, src))
<1>1. Completed(h, trap) \in Nat /\ Len(Pushed(h, trap, src)) = Completed(h, trap)
  BY PushedType
<1> QED
  BY <1>1 DEF BlocksOK, Pushed

LEMMA ArmSingle ==
    ASSUME NEW ts, NEW id, NEW timer, DOMAIN ts = {}
    PROVE  /\ DOMAIN Arm(ts, id, timer) = {id} /\ Arm(ts, id, timer)[id] = timer
           /\ AtMostOne(Arm(ts, id, timer))
  BY DEF Arm, AtMostOne

(* execute() with no other timer pending and no wait under way. *)
LEMMA DispatchWaits ==
    ASSUME NEW q, NEW ts, NEW h, NEW trap, NEW begin \in BOOLEAN,
           QueueOK(q, h), BlocksOK(q), DOMAIN ts = {}, h.pause = 0,
           Dispatch(q, ts, h, trap, begin)
    PROVE  Waits' /\ history'.issued = IF Head(q).src = "run" THEN Head(q).idx ELSE h.issued
<1> DEFINE c == Head(q)
           t == FreshId(ts)
<1>1. /\ q \in Seq(Command) /\ q # <<>> /\ h \in History /\ command_queue' = Tail(q)
  BY DEF QueueOK, Dispatch
<1>2. /\ Len(q) \in Nat \ {0} /\ c \in Command /\ c = q[1]
      /\ Len(Tail(q)) = Len(q) - 1
      /\ \A i \in 1..Len(q) - 1 : Tail(q)[i] = q[i + 1]
  BY <1>1
<1>3. BlocksOK(command_queue')
  BY <1>1, <1>2 DEF BlocksOK
<1>4. history' = [h EXCEPT
              !.issued = IF c.src = "run" THEN c.idx ELSE @,
              !.pause = IF c.src = "run" /\ c.kind = "wait" THEN c.secs ELSE @,
              !.engaged = EngagedAfter(c, @),
              !.broken = @ \/ c.kind = "badRGB"]
  BY DEF Dispatch
<1>5. /\ history'.issued = IF c.src = "run" THEN c.idx ELSE h.issued
      /\ history'.pause = IF c.src = "run" /\ c.kind = "wait" THEN c.secs ELSE 0
  BY <1>1, <1>4 DEF History
<1>6. CASE c.kind = "badRGB"
  <2>1. timers' = ts
    BY <1>6 DEF Dispatch
  <2> QED
    BY <1>3, <1>5, <2>1 DEF Waits, AtMostOne, TimersCover
<1>7. CASE c.kind # "badRGB"
  <2>1. timers' = Arm(ts, t, TimerAfter(c)) /\ timeout_id' = IF begin THEN Inert ELSE t
    BY <1>7 DEF Dispatch
  <2>2. DOMAIN timers' = {t} /\ timers'[t] = TimerAfter(c) /\ AtMostOne(timers')
    <3> DEFINE timer == TimerAfter(c)
    <3>1. timers' = Arm(ts, t, timer)
      BY <2>1
    <3> HIDE DEF t, timer
    <3>2. /\ DOMAIN Arm(ts, t, timer) = {t} /\ Arm(ts, t, timer)[t] = timer
          /\ AtMostOne(Arm(ts, t, timer))
      BY ArmSingle
    <3> QED
      BY <3>1, <3>2 DEF timer
  <2>3. TimerAfter(c).left = WaitAfter(c) /\ WaitAfter(c) \in Nat
    BY <1>2, CommandTimer DEF TimerAfter
  <2>4. WaitAfter(c) >= history'.pause
    <3>1. CASE c.src = "run" /\ c.kind = "wait"
      <4>1. c.block = TRUE /\ c.secs \in Nat
        BY <1>2, <3>1 DEF BlocksOK, Command
      <4>2. WaitAfter(c) = c.secs
        BY <3>1, <4>1 DEF WaitAfter, Seconds
      <4> QED
        BY <1>5, <3>1, <4>1, <4>2
    <3>2. CASE ~(c.src = "run" /\ c.kind = "wait")
      BY <1>5, <2>3, <3>2
    <3> QED
      BY <3>1, <3>2
  <2>5. TimersCover(timers', history'.pause)
    BY <2>2, <2>3, <2>4 DEF TimersCover
  <2> QED
    BY <1>3, <1>5, <2>1, <2>2, <2>5 DEF Waits
<1> QED
  BY <1>6, <1>7

LEMMA FinishWaits ==
    ASSUME NEW q, NEW ts, NEW h, NEW trap \in Int, NEW end \in Handler,
           NEW begin \in BOOLEAN,
           QueueOK(q, h), DOMAIN ts = {}, h.pause = 0,
           Finish(q, ts, h, trap, end, begin)
    PROVE  Waits' /\ history'.issued = h.issued
<1> DEFINE more == IF end = NoHandler THEN <<>> ELSE Pushed(end, trap, "end")
           raises == end # NoHandler /\ Raises(end, trap)
           t == FreshId(ts)
           timer == [job |-> "execute", left |-> CommandWait, half |-> 0]
<1>1. h \in History
  BY DEF QueueOK
<1>2. more \in Seq(Command) /\ BlocksOK(more)
  <2>1. CASE end = NoHandler
    BY <2>1 DEF BlocksOK
  <2>2. CASE end # NoHandler
    <3>1. end \in Seq(Step) /\ "end" \in Events
      BY <2>2 DEF Handler, Events
    <3> QED
      BY <2>2, <3>1, PushedType, PushedBlocks
  <2> QED
    BY <2>1, <2>2
<1>3. history' = [h EXCEPT !.broken = @ \/ raises]
  BY DEF Finish
<1>4. \/ command_queue' = more /\ timers' = ts
      \/ /\ command_queue' = Append(more, FinalEnd)
         /\ timers' = Arm(ts, t, timer) /\ timeout_id' = IF begin THEN Inert ELSE t
  BY DEF Finish
<1> HIDE DEF raises, more
<1>5. history'.issued = h.issued /\ history'.pause = 0
  BY <1>1, <1>3 DEF History
<1>6. CASE command_queue' = more /\ timers' = ts
  BY <1>2, <1>5, <1>6 DEF Waits, AtMostOne, TimersCover
<1>7. CASE /\ command_queue' = Append(more, FinalEnd)
           /\ timers' = Arm(ts, t, timer) /\ timeout_id' = IF begin THEN Inert ELSE t
  <2>1. FinalEnd.src # "run"
    BY DEF FinalEnd
  <2>2. /\ Len(command_queue') = Len(more) + 1 /\ Len(more) \in Nat
        /\ \A i \in 1..Len(more) : command_queue'[i] = more[i]
        /\ command_queue'[Len(more) + 1] = FinalEnd
    BY <1>2, <1>7
  <2>3. BlocksOK(command_queue')
    <3> SUFFICES ASSUME NEW i \in 1..Len(command_queue'), command_queue'[i].src = "run"
                 PROVE  command_queue'[i].block = TRUE
      BY DEF BlocksOK
    <3>1. i \in 1..Len(more) \/ i = Len(more) + 1
      BY <2>2
    <3> QED
      BY <1>2, <2>1, <2>2, <3>1 DEF BlocksOK
  <2>4. DOMAIN timers' = {t} /\ timers'[t] = timer /\ AtMostOne(timers')
    <3>1. timers' = Arm(ts, t, timer)
      BY <1>7
    <3> HIDE DEF t, timer
    <3>2. /\ DOMAIN Arm(ts, t, timer) = {t} /\ Arm(ts, t, timer)[t] = timer
          /\ AtMostOne(Arm(ts, t, timer))
      BY ArmSingle
    <3> QED
      BY <3>1, <3>2
  <2>5. TimersCover(timers', history'.pause)
    BY <1>5, <2>4, ConstantsAssumption DEF TimersCover
  <2> QED
    BY <1>5, <1>7, <2>3, <2>4, <2>5 DEF Waits
<1> QED
  BY <1>4, <1>6, <1>7

(* A button that starts a handler leaves at most the handler's first       *)
(* command issued.                                                         *)
LEMMA HandleWaits ==
    ASSUME NEW handler \in Handler, NEW src \in Events, NEW ts, NEW h,
           NEW trap \in Int, NEW end \in Handler,
           QueueOK(<<>>, h), DOMAIN ts = {}, h.pause = 0, h.issued = 0,
           HandleThenExecute(handler, src, <<>>, ts, h, trap, end)
    PROVE  Waits' /\ history'.issued <= 1
<1> DEFINE pushed == Pushed(handler, trap, src)
           h2 == [h EXCEPT !.length = IF src = "run" THEN Len(pushed) ELSE @]
<1>1. CASE handler = NoHandler
  <2>1. Execute(<<>>, ts, h, trap, end, TRUE)
    BY <1>1 DEF HandleThenExecute
  <2>2. Finish(<<>>, ts, h, trap, end, TRUE)
    BY <2>1 DEF Execute, Dispatch
  <2>3. Waits' /\ history'.issued = h.issued
    BY <2>2, FinishWaits
  <2> QED
    BY <2>3
<1>2. CASE handler # NoHandler
  <2>1. handler \in Seq(Step)
    BY <1>2 DEF Handler
  <2>q. QueueOK(<<>> \o pushed, h2) /\ TrapAfter(handler, trap) \in Int
    BY <2>1, PushedQueue, TrapAfterType
  <2>2. /\ QueueOK(<<>> \o pushed, h2) /\ TrapAfter(handler, trap) \in Int
        /\ BlocksOK(pushed) /\ pushed \in Seq(Command) /\ <<>> \o pushed = pushed
        /\ Len(pushed) = Completed(handler, trap) /\ Completed(handler, trap) \in Nat
        /\ \A i \in 1..Completed(handler, trap) : pushed[i].idx = i
    <3>1. /\ pushed \in Seq(Command) /\ Len(pushed) = Completed(handler, trap)
          /\ Completed(handler, trap) \in Nat
          /\ \A i \in 1..Completed(handler, trap) : pushed[i].idx = i
      BY <2>1, PushedType
    <3>2. BlocksOK(pushed)
      BY <2>1, PushedBlocks
    <3> HIDE DEF pushed, h2
    <3> QED
      BY <2>q, <3>1, <3>2
  <2>3. h2.pause = 0 /\ h2.issued = 0
    BY DEF QueueOK, History
  <2>4. CASE Raises(handler, trap)
    <3>1. /\ command_queue' = pushed /\ timers' = ts
          /\ history' = [h2 EXCEPT !.broken = TRUE]
      BY <1>2, <2>2, <2>4 DEF HandleThenExecute
    <3> HIDE DEF pushed
    <3>2. history'.pause = 0 /\ history'.issued = 0
      BY <2>2, <2>3, <3>1 DEF QueueOK, History
    <3> QED
      BY <2>2, <3>1, <3>2 DEF Waits, AtMostOne, TimersCover
  <2>5. CASE ~Raises(handler, trap)
    <3>1. Execute(pushed, ts, h2, TrapAfter(handler, trap), end, TRUE)
      BY <1>2, <2>2, <2>5 DEF HandleThenExecute
    <3> HIDE DEF h2, pushed
    <3>2. CASE Dispatch(pushed, ts, h2, TrapAfter(handler, trap), TRUE)
      <4>1. Waits' /\ history'.issued = IF Head(pushed).src = "run" THEN Head(pushed).idx
                                                                   ELSE h2.issued
        BY <2>2, <2>3, <3>2, DispatchWaits
      <4>2. pushed # <<>>
        BY <3>2 DEF Dispatch
      <4>3. Head(pushed).idx = 1
        BY <2>2, <4>2
      <4> QED
        BY <2>3, <4>1, <4>3
    <3>3. CASE Finish(pushed, ts, h2, TrapAfter(handler, trap), end, TRUE)
      <4>1. Waits' /\ history'.issued = h2.issued
        BY <2>2, <2>3, <3>3, FinishWaits
      <4> QED
        BY <2>3, <4>1
    <3> QED
      BY <3>1, <3>2, <3>3 DEF Execute
  <2> QED
    BY <2>4, <2>5
<1> QED
  BY <1>1, <1>2


(* No collision and no press in the wrong moment. *)
Undisturbed == collisions' = 0 /\ (presses' # presses => ~Lost)

WaitStep == history'.issued > history.issued /\ history.issued > 0 => history.pause = 0

LEMMA InitWaits == Init => Waits
  BY DEF Init, Waits, BlocksOK, AtMostOne, TimersCover

(* What a button finds to start with: every timer gone. *)
LEMMA ClearedWaits ==
    ASSUME Ind, Waits, ~Lost
    PROVE  DOMAIN ClearedTimers = {}
<1>1. DOMAIN ClearedTimers = DOMAIN timers \ {timeout_id}
  BY DEF ClearedTimers, Cancel
<1>2. DOMAIN timers # {} => timeout_id \in DOMAIN timers
  BY DEF Waits, Lost
<1> QED
  BY <1>1, <1>2 DEF Waits, AtMostOne

LEMMA ClearWaits ==
    ASSUME Ind, Waits, ~Lost, ClearAllCommands
    PROVE  Waits' /\ history'.issued = 0
<1>1. DOMAIN timers' = {} /\ command_queue' = <<>>
  BY ClearedWaits DEF ClearAllCommands
<1>2. history'.issued = 0 /\ history'.pause = 0
  BY DEF ClearAllCommands, ClearedHistory
<1> QED
  BY <1>1, <1>2 DEF Waits, BlocksOK, AtMostOne, TimersCover

LEMMA ButtonWaits == Ind /\ Waits /\ Buttons /\ Undisturbed => Waits' /\ WaitStep
<1> SUFFICES ASSUME Ind, Waits, Buttons, Undisturbed PROVE Waits' /\ WaitStep
  OBVIOUS
<1>1. presses' = presses + 1 /\ presses \in Nat
  BY DEF Buttons, Connect, OtherCallback, Reset, Calibrate, EndCalibrate, Disconnect, Run, Stop, Press,
         Ind, Others
<1>2. ~Lost
  BY <1>1 DEF Undisturbed
<1>3. history \in History /\ history.issued \in Nat /\ handlers \in [Events -> Handler]
  BY DEF Ind, Machine, Others, QueueOK, History
<1>4. CASE Connect
  BY <1>3, <1>4 DEF Connect, queueVars, Waits, WaitStep
<1>5. CASE Reset \/ Calibrate \/ Disconnect
  <2>1. Waits' /\ history'.issued = 0
    BY <1>2, <1>5, ClearWaits DEF Reset, Calibrate, Disconnect
  <2> QED
    BY <1>3, <2>1 DEF WaitStep
<1>10. CASE OtherCallback
  <2>1. UNCHANGED <<queueVars, history>>
    BY <1>10 DEF OtherCallback
  <2> QED
    BY <1>3, <2>1 DEF queueVars, Waits, WaitStep
<1>6. CASE EndCalibrate
  <2>1. history'.issued = history.issued /\ history'.pause = history.pause
    BY <1>3, <1>6 DEF EndCalibrate, History
  <2> QED
    BY <1>3, <1>6, <2>1 DEF EndCalibrate, queueVars, Waits, WaitStep
<1>7. /\ QueueOK(<<>>, ClearedHistory) /\ ClearedHistory.issued = 0
      /\ ClearedHistory.pause = 0 /\ DOMAIN ClearedTimers = {}
  BY <1>2, ClearedOK, ClearedWaits DEF ClearedHistory
<1>8. ASSUME NEW w \in Workspaces, Run(w) PROVE Waits' /\ WaitStep
  <2>1. handlers' \in [Events -> Handler]
    BY <1>3, <1>8, HandlersType DEF Run
  <2>2. /\ handlers'.run \in Handler /\ handlers'.end \in Handler /\ "run" \in Events
        /\ LoopBudget \in Nat
    BY <2>1, ConstantsAssumption DEF Events
  <2>3. HandleThenExecute(handlers'.run, "run", <<>>, ClearedTimers, ClearedHistory,
                          LoopBudget, handlers'.end)
    BY <1>8 DEF Run
  <2>4. Waits' /\ history'.issued <= 1
    BY <1>7, <2>2, <2>3, HandleWaits
  <2>5. history'.issued \in Nat
    BY <1>8, NextInd DEF Ind, Machine, QueueOK, History, Next, Buttons
  <2> QED
    BY <1>3, <2>4, <2>5 DEF WaitStep
<1>9. ASSUME NEW w \in Workspaces, Stop(w) PROVE Waits' /\ WaitStep
  <2>1. handlers' \in [Events -> Handler]
    BY <1>3, <1>9, HandlersType DEF Stop
  <2>2. /\ handlers'.stop \in Handler /\ handlers'.end \in Handler /\ "stop" \in Events
        /\ LoopBudget \in Nat
    BY <2>1, ConstantsAssumption DEF Events
  <2>3. HandleThenExecute(handlers'.stop, "stop", <<>>, ClearedTimers, ClearedHistory,
                          LoopBudget, handlers'.end)
    BY <1>9 DEF Stop
  <2>4. Waits' /\ history'.issued <= 1
    BY <1>7, <2>2, <2>3, HandleWaits
  <2>5. history'.issued \in Nat
    BY <1>9, NextInd DEF Ind, Machine, QueueOK, History, Next, Buttons
  <2> QED
    BY <1>3, <2>4, <2>5 DEF WaitStep
<1> QED
  BY <1>4, <1>5, <1>6, <1>8, <1>9, <1>10 DEF Buttons

LEMMA TickWaits == Ind /\ Waits /\ Tick => Waits' /\ WaitStep
<1> SUFFICES ASSUME Ind, Waits, Tick PROVE Waits' /\ WaitStep
  OBVIOUS
<1>1. history \in History /\ history.pause \in Nat /\ history.issued \in Nat /\ TimersOK(timers)
  BY DEF Ind, Machine, QueueOK, History
<1>2. /\ command_queue' = command_queue /\ timeout_id' = timeout_id
      /\ DOMAIN timers' = DOMAIN timers
  BY DEF Tick
<1>3. /\ history'.issued = history.issued
      /\ history'.pause = IF history.pause > 0 THEN history.pause - 1 ELSE 0
  BY <1>1 DEF Tick, History
<1>4. ASSUME NEW t \in DOMAIN timers PROVE timers'[t].left >= history'.pause
  <2>1. timers[t] \in Timer /\ timers[t].left >= history.pause
    BY <1>1 DEF TimersOK, Waits, TimersCover
  <2>2. timers'[t] = [timers[t] EXCEPT !.left = IF @ > 0 THEN @ - 1 ELSE 0]
    BY DEF Tick
  <2>3. timers'[t].left = IF timers[t].left > 0 THEN timers[t].left - 1 ELSE 0
    BY <2>1, <2>2 DEF Timer
  <2>4. timers[t].left \in Nat
    BY <2>1 DEF Timer
  <2> QED
    BY <1>1, <1>3, <2>1, <2>3, <2>4
<1> QED
  BY <1>1, <1>2, <1>3, <1>4 DEF Waits, AtMostOne, TimersCover, WaitStep

LEMMA FireWaits ==
    ASSUME Ind, Waits, NEW t \in TimerIds, FireTimer(t)
    PROVE  Waits' /\ WaitStep
<1>1. /\ QueueOK(command_queue, history) /\ history \in History /\ TimersOK(timers)
      /\ loopTrap \in Int /\ handlers.end \in Handler
  BY DEF Ind, Machine, QueueOK, Others, Events
<1>2. t \in DOMAIN timers /\ timers[t].left = 0 /\ timers[t] \in Timer
  BY <1>1 DEF FireTimer, FireHalfTurn, FireExecute, Due, TimersOK
<1>3. history.pause = 0
  <2>1. history.pause \in Nat /\ 0 >= history.pause
    BY <1>1, <1>2 DEF Waits, TimersCover, History
  <2> QED
    BY <2>1
<1>4. WaitStep
  BY <1>3 DEF WaitStep
<1>5. DOMAIN Cancel(timers, t) = {}
  BY <1>2 DEF Waits, AtMostOne, Cancel
<1>6. CASE FireHalfTurn(t)
  <2> DEFINE ts == Cancel(timers, t)
             id == FreshId(ts)
             timer == [job |-> "execute", left |-> timers[t].half, half |-> 0]
  <2>1. /\ timers' = Arm(ts, id, timer) /\ timeout_id' = id
        /\ command_queue' = command_queue /\ history' = history
    BY <1>6 DEF FireHalfTurn
  <2>2. timer.left \in Nat
    BY <1>2 DEF Timer
  <2> HIDE DEF ts, id, timer
  <2>3. /\ DOMAIN Arm(ts, id, timer) = {id} /\ Arm(ts, id, timer)[id] = timer
        /\ AtMostOne(Arm(ts, id, timer))
    BY <1>5, ArmSingle DEF ts
  <2> QED
    BY <1>3, <1>4, <2>1, <2>2, <2>3 DEF Waits, TimersCover
<1>7. ASSUME NEW job, NEW ended, FireExecute(t, job, ended) PROVE Waits'
  <2> DEFINE h == [history EXCEPT !.engaged = @ \ ended]
             ts == Cancel(Cancel(timers, t), timeout_id)
  <2>1. DOMAIN ts = {}
    BY <1>5 DEF Cancel
  <2>2. /\ h \in History /\ h.pause = 0
        /\ h.broken = history.broken /\ h.issued = history.issued
        /\ h.length = history.length
    BY <1>1, <1>3 DEF History
  <2>3. Execute(command_queue, ts, h, loopTrap, handlers.end, FALSE)
    BY <1>7 DEF FireExecute
  <2> HIDE DEF h, ts
  <2>4. QueueOK(command_queue, h) /\ BlocksOK(command_queue)
    BY <1>1, <2>2 DEF QueueOK, InOrder, NotLost, Precedes, Waits
  <2>5. CASE Dispatch(command_queue, ts, h, loopTrap, FALSE)
    BY <2>1, <2>2, <2>4, <2>5, DispatchWaits
  <2>6. CASE Finish(command_queue, ts, h, loopTrap, handlers.end, FALSE)
    BY <1>1, <2>1, <2>2, <2>4, <2>6, FinishWaits
  <2> QED
    BY <2>3, <2>5, <2>6 DEF Execute
<1> QED
  BY <1>4, <1>6, <1>7 DEF FireTimer

LEMMA NextWaits == Ind /\ Waits /\ Undisturbed /\ [Next]_vars => Waits' /\ [WaitStep]_vars
<1> SUFFICES ASSUME Ind, Waits, Undisturbed, [Next]_vars PROVE Waits' /\ [WaitStep]_vars
  OBVIOUS
<1>1. CASE Buttons
  BY <1>1, ButtonWaits
<1>2. ~CollisionWhenIdle /\ ~CollisionWhenBusy
  BY DEF CollisionWhenIdle, CollisionWhenBusy, CollisionMessage, Undisturbed, Ind, Others
<1>3. CASE Tick
  BY <1>3, TickWaits
<1>4. ASSUME NEW t \in TimerIds, FireTimer(t) PROVE Waits' /\ [WaitStep]_vars
  BY <1>4, FireWaits
<1>5. CASE UNCHANGED vars
  BY <1>5 DEF vars, queueVars, Waits
<1> QED
  BY <1>1, <1>2, <1>3, <1>4, <1>5 DEF Next

(* The wait block holds in every behaviour without a collision in which no *)
(* button is pressed while begin_execute has the pending timer forgotten.  *)
THEOREM WaitsKept == Spec /\ [][Undisturbed]_vars => WaitHonoured
<1>1. Ind /\ Waits /\ [Next]_vars /\ [Undisturbed]_vars => Waits' /\ [WaitStep]_vars
  <2> SUFFICES ASSUME Ind, Waits, [Next]_vars, [Undisturbed]_vars
               PROVE  Waits' /\ [WaitStep]_vars
    OBVIOUS
  <2>1. CASE UNCHANGED vars
    BY <2>1 DEF vars, queueVars, Waits
  <2>2. CASE Undisturbed
    BY <2>2, NextWaits
  <2> QED
    BY <2>1, <2>2
<1>2. Spec /\ [][Undisturbed]_vars => [][WaitStep]_vars
  BY <1>1, InitWaits, SpecInd, PTL DEF Spec
<1>3. [WaitStep]_vars <=> [history'.issued > history.issued /\ history.issued > 0
                               => history.pause = 0]_vars
  BY DEF WaitStep
<1> QED
  BY <1>2, <1>3, PTL DEF WaitHonoured

(* One program in a session without collisions: nothing can be pressed in  *)
(* the wrong moment with two presses, one to connect and one to run.       *)
Alone ==
    /\ isConnected = TRUE => presses >= 1
    /\ DOMAIN timers # {} => presses >= 2

LEMMA NextAlone ==
    ASSUME MaxCollisions = 0, MaxPresses <= 2, Ind, Alone, [Next]_vars
    PROVE  Alone' /\ [Undisturbed]_vars
<1>1. /\ presses \in Nat /\ presses' \in Nat /\ presses' <= 2
      /\ collisions = 0 /\ collisions' = 0
  <2>1. Ind'
    BY NextInd
  <2> QED
    BY <2>1, ConstantsAssumption DEF Ind, Others
<1>2. CASE Buttons
  <2>1. presses' = presses + 1
    BY <1>2 DEF Buttons, Connect, OtherCallback, Reset, Calibrate, EndCalibrate, Disconnect, Run, Stop,
           Press
  <2>2. DOMAIN timers = {}
    BY <1>1, <2>1 DEF Alone
  <2>3. isConnected' = TRUE => presses' >= 1
    BY <1>1, <2>1
  <2>4. DOMAIN timers' # {} => presses' >= 2
    <3>1. CASE isConnected = TRUE
      BY <1>1, <2>1, <3>1 DEF Alone
    <3>2. CASE isConnected # TRUE
      <4>1. Connect \/ OtherCallback \/ EndCalibrate \/ Disconnect
        BY <1>2, <3>2 DEF Buttons, Reset, Calibrate, Run, Stop, Ind, Others
      <4>2. DOMAIN timers' = {}
        BY <2>2, <4>1 DEF Connect, OtherCallback, EndCalibrate, Disconnect, ClearAllCommands,
               ClearedTimers, Cancel, queueVars
      <4> QED
        BY <4>2
    <3> QED
      BY <3>1, <3>2
  <2> QED
    BY <1>1, <2>2, <2>3, <2>4 DEF Alone, Undisturbed, Lost
<1>3. ~CollisionWhenIdle /\ ~CollisionWhenBusy
  BY <1>1 DEF CollisionWhenIdle, CollisionWhenBusy, CollisionMessage
<1>4. CASE Tick \/ \E t \in TimerIds : FireTimer(t)
  <2>1. DOMAIN timers # {} /\ presses' = presses /\ isConnected' = isConnected
    BY <1>4 DEF Tick, FireTimer, FireHalfTurn, FireExecute, Due, boundVars, uiVars, linkVars
  <2> QED
    BY <1>1, <2>1 DEF Alone, Undisturbed
<1>5. CASE UNCHANGED vars
  BY <1>5 DEF vars, queueVars, uiVars, linkVars, boundVars, Alone
<1> QED
  BY <1>2, <1>3, <1>4, <1>5 DEF Next

(* With no collisions and at most two presses, every program waits as long *)
(* as its wait blocks say.                                                 *)
THEOREM WaitsAlone ==
    ASSUME MaxCollisions = 0, MaxPresses <= 2
    PROVE  Spec => WaitHonoured
<1>1. Init => Alone
  BY DEF Init, Alone
<1>2. Ind /\ Alone /\ [Next]_vars => Alone' /\ [Undisturbed]_vars
  BY NextAlone
<1>3. Spec => [][Undisturbed]_vars
  BY <1>1, <1>2, SpecInd, PTL DEF Spec
<1> QED
  BY <1>3, WaitsKept, PTL
=============================================================================
