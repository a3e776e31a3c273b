------------------------- MODULE DeviceSearch_proofs -------------------------
(***************************************************************************)
(* Proofs about DeviceSearch, for any number of searches and any devices.  *)
(*                                                                         *)
(* NotifyOwed becomes inductive with the lock: a thread between starting   *)
(* its inquiry and waiting holds it, so no callback comes in between and   *)
(* finds nobody waiting.  AloneComplete follows from AloneInd, which goes  *)
(* with a search that has met no other from place to place.                *)
(***************************************************************************)
EXTENDS DeviceSearch, FiniteSetTheorems, TLAPS

Owed == {t \in Threads : pc[t] \in {"wait", "waiting"}}
Inquiries == completing + (IF running THEN 1 ELSE 0)

LockHeld == \A t \in Threads : pc[t] = "wait" => lock = t

Ind == TypeOK /\ LockHeld /\ NotifyOwed

LEMMA OwedFinite ==
    ASSUME TypeOK
    PROVE  IsFiniteSet(Owed) /\ Cardinality(Owed) \in Nat
<1>1. Owed \subseteq Threads
  BY DEF Owed
<1> QED
  BY <1>1, SearchAssumption, FS_Subset, FS_CardinalityType

(* With fewer threads waiting no more notifies are owed. *)
LEMMA FewerOwed ==
    ASSUME TypeOK, NotifyOwed, Owed' \subseteq Owed, Inquiries' \in Nat,
           Inquiries <= Inquiries', Inquiries \in Nat
    PROVE  NotifyOwed'
<1>1. /\ IsFiniteSet(Owed') /\ Cardinality(Owed') <= Cardinality(Owed)
      /\ Cardinality(Owed') \in Nat /\ Cardinality(Owed) \in Nat
  BY OwedFinite, FS_Subset, FS_CardinalityType
<1>2. Cardinality(Owed) <= Inquiries
  BY DEF NotifyOwed, Owed, Inquiries
<1>3. Cardinality(Owed') <= Inquiries'
  BY <1>1, <1>2
<1> QED
  BY <1>3 DEF NotifyOwed, Owed, Inquiries

LEMMA InquiriesType == ASSUME TypeOK PROVE Inquiries \in Nat
<1>1. completing \in Nat /\ running \in BOOLEAN
  BY DEF TypeOK
<1>2. CASE running = TRUE
  BY <1>1, <1>2 DEF Inquiries
<1>3. CASE running = FALSE
  BY <1>1, <1>3 DEF Inquiries
<1> QED
  BY <1>1, <1>2, <1>3, Zenon

-----------------------------------------------------------------------------
(* The types, action by action. *)

LEMMA ResultTypes ==
    /\ None \in Results
    /\ \A r : r \cap Spheros \in Results
<1>1. ASSUME NEW r PROVE r \cap Spheros \in Results
  <2>1. r \cap Spheros \subseteq Devices
    BY SearchAssumption
  <2> QED
    BY <2>1 DEF Results
<1>2. None \in Results
  BY DEF Results
<1> QED
  BY <1>1, <1>2

LEMMA InitTypes == Init => TypeOK
<1> SUFFICES ASSUME Init PROVE TypeOK
  OBVIOUS
<1>1. /\ pc \in [Threads -> States]
      /\ result \in [Threads -> Results] /\ answer \in [Threads -> Results]
      /\ sp_devices \in Results
  BY ResultTypes DEF Init, States
<1>2. found \in [Threads -> SUBSET Devices]
  BY DEF Init
<1>3. running \in BOOLEAN
  BY Zenon DEF Init
<1> QED
  BY <1>1, <1>2, <1>3 DEF Init, TypeOK

LEMMA MessageTypes ==
    ASSUME TypeOK, NEW t \in Threads, ListDevices(t) \/ CancelListDevices
    PROVE  TypeOK'
<1>1. CASE ListDevices(t)
  BY <1>1 DEF ListDevices, TypeOK, Goto, States, stackVars
<1>2. CASE CancelListDevices
  BY <1>2 DEF CancelListDevices, TypeOK, stackVars
<1> QED
  BY <1>1, <1>2

LEMMA SearchTypes ==
    ASSUME TypeOK, NEW t \in Threads, Search(t)
    PROVE  TypeOK'
<1>1. CASE ClearDevices(t)
  BY <1>1 DEF ClearDevices, TypeOK, Goto, States, stackVars
<1>2. CASE StartInquiry(t)
  <2>1. /\ pc' \in [Threads -> States] /\ running' \in BOOLEAN
        /\ found' \in [Threads -> SUBSET Devices]
        /\ result' \in [Threads -> Results] /\ alone' \subseteq Threads
    <3>1. CASE Started(t)
      <4>1. /\ pc' \in [Threads -> States] /\ running' = TRUE
            /\ result' \in [Threads -> Results] /\ alone' \subseteq Threads
        BY <3>1 DEF Started, TypeOK, Goto, States
      <4>2. found' \in [Threads -> SUBSET Devices]
        BY <3>1 DEF Started, TypeOK
      <4> QED
        BY <4>1, <4>2
    <3>2. CASE Refused(t)
      BY <3>2, ResultTypes DEF Refused, TypeOK, Goto, States, Result
    <3>3. CASE NotStarted(t)
      BY <3>3 DEF NotStarted, TypeOK, Goto, States
    <3> QED
      BY <1>2, <3>1, <3>2, <3>3 DEF StartInquiry
  <2>2. lock' \in Threads \cup {None}
    BY <1>2 DEF StartInquiry
  <2> QED
    BY <1>2, <2>1, <2>2 DEF StartInquiry, TypeOK
<1>3. CASE Wait(t)
  BY <1>3 DEF Wait, TypeOK, Goto, States, stackVars
<1>4. CASE Interrupted(t)
  <2>1. result' \in [Threads -> Results]
    BY <1>4, ResultTypes DEF Interrupted, TypeOK, Result
  <2> QED
    BY <1>4, <2>1 DEF Interrupted, TypeOK, Goto, States, stackVars
<1>5. CASE Woken(t)
  BY <1>5 DEF Woken, TypeOK, Goto, States, stackVars
<1>6. CASE Filter(t)
  <2>1. result' \in [Threads -> Results]
    BY <1>6 DEF Filter, TypeOK, Result, Results
  <2> QED
    BY <1>6, <2>1 DEF Filter, TypeOK, Goto, States, stackVars
<1>7. CASE Filtered(t)
  <2>1. ASSUME NEW r \in Results, Result(t, r)
        PROVE  result' \in [Threads -> Results]
    BY <2>1 DEF TypeOK, Result
  <2>2. result' \in [Threads -> Results]
    BY <1>7, <2>1, ResultTypes DEF Filtered
  <2> QED
    BY <1>7, <2>2 DEF Filtered, TypeOK, Goto, States, stackVars
<1>8. CASE Assign(t)
  BY <1>8 DEF Assign, TypeOK, Goto, States, stackVars
<1>9. CASE Answer(t)
  BY <1>9 DEF Answer, TypeOK, Goto, States, stackVars
<1> QED
  BY <1>1, <1>2, <1>3, <1>4, <1>5, <1>6, <1>7, <1>8, <1>9 DEF Search

LEMMA StackTypes ==
    ASSUME TypeOK, Stack \/ \E d \in Devices : DeviceDiscovered(d)
    PROVE  TypeOK'
<1>1. CASE InquiryOver
  <2>1. running' \in BOOLEAN
    BY <1>1 DEF InquiryOver
  <2>2. completing' \in Nat
    BY <1>1 DEF InquiryOver, TypeOK
  <2> QED
    BY <1>1, <2>1, <2>2, Zenon DEF InquiryOver, TypeOK
<1>2. CASE inquiryCompleted
  <2>1. pc' \in [Threads -> States]
    BY <1>2 DEF inquiryCompleted, TypeOK, Goto, States, Waiting
  <2> QED
    BY <1>2, <2>1 DEF inquiryCompleted, TypeOK
<1>3. ASSUME NEW d \in Devices, DeviceDiscovered(d) PROVE TypeOK'
  <2>1. found' \in [Threads -> SUBSET Devices]
    BY <1>3 DEF DeviceDiscovered, TypeOK
  <2> QED
    BY <1>3, <2>1 DEF DeviceDiscovered, TypeOK, stackVars
<1> QED
  BY <1>1, <1>2, <1>3 DEF Stack

LEMMA NextTypes == TypeOK /\ [Next]_vars => TypeOK'
<1> SUFFICES ASSUME TypeOK, [Next]_vars PROVE TypeOK'
  OBVIOUS
<1>1. CASE UNCHANGED vars
  BY <1>1 DEF vars, TypeOK, stackVars
<1>2. CASE CancelListDevices
  BY <1>2 DEF CancelListDevices, TypeOK, stackVars
<1> QED
  BY <1>1, <1>2, MessageTypes, SearchTypes, StackTypes DEF Next

-----------------------------------------------------------------------------
(* The notifies owed *)

(* A step of a thread that neither starts an inquiry nor waits. *)
LEMMA OtherStep ==
    ASSUME Ind, TypeOK', UNCHANGED <<lock, stackVars>>,
           NEW t \in Threads, NEW s \in States \ {"wait", "waiting"}, Goto(t, s)
    PROVE  Ind'
<1>1. Owed' \subseteq Owed
  BY DEF Ind, TypeOK, Goto, Owed
<1>2. Inquiries' = Inquiries
  BY DEF Inquiries, stackVars
<1>3. NotifyOwed'
  BY <1>1, <1>2, FewerOwed, InquiriesType DEF Ind
<1>4. LockHeld'
  BY DEF Ind, TypeOK, LockHeld, Goto
<1> QED
  BY <1>3, <1>4 DEF Ind

LEMMA SearchOwed ==
    ASSUME Ind, TypeOK', NEW t \in Threads, Search(t)
    PROVE  Ind'
<1>1. CASE ClearDevices(t) \/ Woken(t) \/ Filter(t) \/ Filtered(t) \/ Assign(t)
            \/ Answer(t) \/ Interrupted(t)
  <2>1. PICK s \in States \ {"wait", "waiting"} : Goto(t, s)
    BY <1>1 DEF ClearDevices, Woken, Filter, Filtered, Assign, Answer, Interrupted,
                States
  <2>2. UNCHANGED <<lock, stackVars>>
    BY <1>1 DEF ClearDevices, Woken, Filter, Filtered, Assign, Answer, Interrupted
  <2> QED
    BY <2>1, <2>2, OtherStep
<1>2. CASE Wait(t)
  <2>1. Owed' \subseteq Owed /\ Inquiries' = Inquiries
    BY <1>2 DEF Wait, Ind, TypeOK, Goto, Owed, Inquiries, stackVars
  <2>2. NotifyOwed'
    BY <2>1, FewerOwed, InquiriesType DEF Ind
  <2>3. LockHeld'
    BY <1>2, SearchAssumption DEF Wait, Ind, TypeOK, LockHeld, Goto
  <2> QED
    BY <2>2, <2>3 DEF Ind
<1>3. CASE StartInquiry(t)
  <2>1. \A u \in Threads : pc[u] # "wait"
    BY <1>3, SearchAssumption DEF StartInquiry, Ind, LockHeld
  <2>2. CASE Refused(t) \/ NotStarted(t)
    <3>1. /\ Owed' \subseteq Owed /\ Inquiries' = Inquiries
      BY <1>3, <2>2 DEF StartInquiry, Refused, NotStarted, Ind, TypeOK, Goto, Owed,
                        Inquiries
    <3>2. NotifyOwed'
      BY <3>1, FewerOwed, InquiriesType DEF Ind
    <3>3. LockHeld'
      BY <2>1, <2>2 DEF Refused, NotStarted, Ind, TypeOK, LockHeld, Goto
    <3> QED
      BY <3>2, <3>3 DEF Ind
  <2>3. CASE Started(t)
    <3>1. Owed' = Owed \cup {t} /\ t \notin Owed
      BY <1>3, <2>3 DEF StartInquiry, Started, Ind, TypeOK, Goto, Owed
    <3>2. /\ Inquiries' = Inquiries + 1 /\ Inquiries \in Nat
          /\ Cardinality(Owed) <= Inquiries
      BY <1>3, <2>3
         DEF StartInquiry, Started, Ind, TypeOK, Inquiries, NotifyOwed, Owed
    <3>3. Cardinality(Owed') = Cardinality(Owed) + 1 /\ Cardinality(Owed) \in Nat
      BY <3>1, OwedFinite, FS_AddElement DEF Ind
    <3>4. Cardinality(Owed') <= Inquiries'
      BY <3>2, <3>3
    <3>5. NotifyOwed'
      BY <3>4 DEF NotifyOwed, Owed, Inquiries
    <3>6. LockHeld'
      BY <1>3, <2>1, <2>3 DEF StartInquiry, Started, Ind, TypeOK, LockHeld, Goto
    <3> QED
      BY <3>5, <3>6 DEF Ind
  <2> QED
    BY <1>3, <2>2, <2>3 DEF StartInquiry
<1> QED
  BY <1>1, <1>2, <1>3 DEF Search

LEMMA StackOwed ==
    ASSUME Ind, TypeOK', Stack
    PROVE  Ind'
<1>1. CASE InquiryOver
  <2>1. Owed' = Owed /\ Inquiries' = Inquiries
    BY <1>1 DEF InquiryOver, Owed, Inquiries, Ind, TypeOK
  <2>2. NotifyOwed'
    BY <2>1, FewerOwed, InquiriesType DEF Ind
  <2> QED
    BY <1>1, <2>2 DEF InquiryOver, Ind, LockHeld
<1>2. CASE inquiryCompleted
  <2>1. /\ completing' = completing - 1 /\ UNCHANGED <<running, lock>>
        /\ completing \in Nat /\ completing > 0 /\ lock = None
    BY <1>2 DEF inquiryCompleted, Ind, TypeOK
  <2>2. Inquiries' = Inquiries - 1 /\ Inquiries' \in Nat /\ Inquiries \in Nat
    BY <2>1 DEF Inquiries
  <2>3. Owed = Waiting
    BY <2>1, SearchAssumption DEF Ind, LockHeld, Owed, Waiting
  <2>4. LockHeld'
    BY <1>2, <2>1, SearchAssumption
       DEF inquiryCompleted, Ind, TypeOK, LockHeld, Goto, Waiting
  <2>5. CASE Waiting = {}
    <3>1. Owed' = {}
      BY <1>2, <2>3, <2>5 DEF inquiryCompleted, Owed
    <3>2. Cardinality(Owed') = 0
      BY <3>1, FS_EmptySet
    <3>3. Cardinality(Owed') <= Inquiries'
      BY <2>2, <3>2
    <3>4. NotifyOwed'
      BY <3>3 DEF NotifyOwed, Owed, Inquiries
    <3> QED
      BY <2>4, <3>4 DEF Ind
  <2>6. CASE Waiting # {}
    <3>1. PICK t \in Waiting : Goto(t, "woken")
      BY <1>2, <2>6 DEF inquiryCompleted
    <3>2. Owed' = Owed \ {t} /\ t \in Owed
      BY <2>3, <3>1 DEF Goto, Owed, Waiting, Ind, TypeOK
    <3>3. Cardinality(Owed') = Cardinality(Owed) - 1 /\ Cardinality(Owed) \in Nat
      BY <3>2, OwedFinite, FS_RemoveElement DEF Ind
    <3>4. Cardinality(Owed) <= Inquiries
      BY DEF Ind, NotifyOwed, Owed, Inquiries
    <3>5. Cardinality(Owed') <= Inquiries'
      BY <2>2, <3>3, <3>4
    <3>6. NotifyOwed'
      BY <3>5 DEF NotifyOwed, Owed, Inquiries
    <3> QED
      BY <2>4, <3>6 DEF Ind
  <2> QED
    BY <2>5, <2>6
<1> QED
  BY <1>1, <1>2 DEF Stack

LEMMA NextInd == Ind /\ [Next]_vars => Ind'
<1> SUFFICES ASSUME Ind, [Next]_vars PROVE Ind'
  OBVIOUS
<1>1. TypeOK'
  BY NextTypes DEF Ind
<1>2. ASSUME UNCHANGED <<pc, lock, stackVars>> PROVE Ind'
  <2>1. Owed' = Owed /\ Inquiries' = Inquiries
    BY <1>2 DEF Owed, Inquiries, stackVars
  <2>2. NotifyOwed'
    BY <2>1, FewerOwed, InquiriesType DEF Ind
  <2> QED
    BY <1>1, <1>2, <2>2 DEF Ind, LockHeld
<1>3. CASE CancelListDevices \/ UNCHANGED vars
  BY <1>2, <1>3 DEF CancelListDevices, vars
<1>4. ASSUME NEW d \in Devices, DeviceDiscovered(d) PROVE Ind'
  BY <1>2, <1>4 DEF DeviceDiscovered
<1>5. ASSUME NEW t \in Threads, ListDevices(t) PROVE Ind'
  <2>1. "clear" \in States \ {"wait", "waiting"} /\ Goto(t, "clear")
    BY <1>5 DEF ListDevices, States
  <2>2. UNCHANGED <<lock, stackVars>>
    BY <1>5 DEF ListDevices
  <2> QED
    BY <1>1, <2>1, <2>2, OtherStep
<1>6. ASSUME NEW t \in Threads, Search(t) PROVE Ind'
  BY <1>1, <1>6, SearchOwed
<1>7. CASE Stack
  BY <1>1, <1>7, StackOwed
<1> QED
  BY <1>3, <1>4, <1>5, <1>6, <1>7 DEF Next

LEMMA InitInd == Init => Ind
<1> SUFFICES ASSUME Init PROVE Ind
  OBVIOUS
<1>1. Owed = {} /\ Inquiries = 0
  BY DEF Init, Owed, Inquiries
<1>2. Cardinality(Owed) = 0
  BY <1>1, FS_EmptySet
<1>3. NotifyOwed
  BY <1>1, <1>2 DEF NotifyOwed, Owed, Inquiries
<1> QED
  BY <1>3, InitTypes DEF Ind, LockHeld, Init

LEMMA SpecInd == Spec => []Ind
  BY InitInd, NextInd, PTL DEF Spec

(* Every variable of the search stays in its type. *)
THEOREM SearchTypeCorrect == Spec => []TypeOK
<1>1. Ind => TypeOK
  BY DEF Ind
<1> QED
  BY <1>1, SpecInd, PTL

(* No search waits without a notify to come. *)
THEOREM NoLostNotify == Spec => []NotifyOwed
<1>1. Ind => NotifyOwed
  BY DEF Ind
<1> QED
  BY <1>1, SpecInd, PTL

-----------------------------------------------------------------------------
(* The search that is alone.  Stage says what it relies on at each place:  *)
(* that the stack is quiet until it starts its inquiry and after it was    *)
(* called back, and that the vector holds what its own inquiry found.      *)

Quiet == ~running /\ completing = 0
Answers(t) == found[t] \cap Spheros

Stage(t) ==
    /\ pc[t] \in {"clear", "start", "woken", "filter", "filtering"} => Quiet
    /\ pc[t] = "start" => devicesDiscovered = {}
    /\ pc[t] \in {"wait", "waiting"} => completing = (IF running THEN 0 ELSE 1)
    /\ pc[t] \in {"wait", "waiting", "woken", "filter", "filtering"}
           => devicesDiscovered = found[t]
    /\ pc[t] = "filtering" => result[t] = devicesDiscovered
    /\ pc[t] = "assign" => result[t] = Answers(t)
    /\ pc[t] = "answer" => sp_devices = Answers(t)
    /\ pc[t] = "done" => answer[t] = Answers(t)

(* It is the only one at work, and was not interrupted. *)
Single(t) ==
    /\ pc[t] # "new" /\ t \notin interrupted
    /\ Active(t) => \A u \in Threads : Active(u) => u = t

AloneOK(t) == Single(t) /\ Stage(t)

AloneInd ==
    /\ \A t \in interrupted : pc[t] # "new"
    /\ \A t \in alone : AloneOK(t)

(* What a search has answered does not change. *)
LEMMA DoneStays ==
    ASSUME TypeOK, NEW t \in Threads, AloneOK(t), pc[t] = "done",
           pc'[t] = pc[t], answer'[t] = answer[t], found'[t] = found[t],
           t \notin interrupted'
    PROVE  AloneOK(t)'
  BY DEF AloneOK, Single, Stage, Answers, Active

(* A step of a thread at work: the others stay where they are. *)
LEMMA SearchStep ==
    ASSUME TypeOK, NEW t \in Threads, Search(t)
    PROVE  /\ Active(t) /\ pc'[t] # "new"
           /\ \A u \in Threads \ {t} : /\ pc'[u] = pc[u] /\ answer'[u] = answer[u]
                                       /\ found'[u] = found[u]
           /\ interrupted' \subseteq interrupted /\ alone' \subseteq alone
<1>1. CASE ClearDevices(t) \/ Wait(t) \/ Interrupted(t) \/ Woken(t)
  BY <1>1 DEF ClearDevices, Wait, Interrupted, Woken, TypeOK, Goto, Active
<1>2. CASE Filter(t) \/ Filtered(t) \/ Assign(t) \/ Answer(t)
  BY <1>2 DEF Filter, Filtered, Assign, Answer, TypeOK, Goto, Active
<1>3. CASE StartInquiry(t)
  BY <1>3 DEF StartInquiry, Started, Refused, NotStarted, TypeOK, Goto, Active
<1> QED
  BY <1>1, <1>2, <1>3 DEF Search

LEMMA OwnStep ==
    ASSUME TypeOK, NEW t \in alone, AloneOK(t), Search(t), t \in alone'
    PROVE  Stage(t)'
<1>1. t \in Threads /\ t \notin interrupted
  BY DEF TypeOK, AloneOK, Single
<1>2. CASE ClearDevices(t)
  BY <1>1, <1>2 DEF ClearDevices, AloneOK, Stage, Quiet, stackVars, TypeOK, Goto
<1>3. CASE StartInquiry(t)
  <2>1. CASE Started(t)
    <3>1. /\ running' = TRUE /\ completing' = 0 /\ found'[t] = {}
          /\ devicesDiscovered' = {} /\ pc'[t] = "wait"
      BY <1>1, <1>3, <2>1
         DEF StartInquiry, Started, AloneOK, Stage, Quiet, TypeOK, Goto
    <3> QED
      BY <3>1 DEF Stage
  <2> QED
    BY <1>3, <2>1 DEF StartInquiry, Refused, NotStarted
<1>4. CASE Wait(t)
  <2>1. pc[t] = "wait" /\ pc'[t] = "waiting"
    BY <1>1, <1>4 DEF Wait, TypeOK, Goto
  <2> QED
    BY <1>4, <2>1 DEF Wait, AloneOK, Stage, stackVars
<1>5. CASE Interrupted(t)
  BY <1>1, <1>5 DEF Interrupted
<1>6. CASE Woken(t)
  BY <1>1, <1>6 DEF Woken, AloneOK, Stage, Quiet, stackVars, TypeOK, Goto
<1>7. CASE Filter(t)
  BY <1>1, <1>7 DEF Filter, AloneOK, Stage, Quiet, stackVars, TypeOK, Goto, Result
<1>8. CASE Filtered(t)
  <2>1. /\ pc[t] = "filtering" /\ pc'[t] = "assign"
        /\ devicesDiscovered = found[t] /\ result[t] = devicesDiscovered
        /\ found' = found
    BY <1>1, <1>8 DEF Filtered, AloneOK, Stage, TypeOK, Goto
  <2>2. result'[t] = result[t] \cap Spheros
    BY <1>1, <1>8, <2>1 DEF Filtered, TypeOK, Result
  <2> QED
    BY <2>1, <2>2 DEF Stage, Answers
<1>9. CASE Assign(t)
  BY <1>1, <1>9 DEF Assign, AloneOK, Stage, TypeOK, Goto, Answers
<1>10. CASE Answer(t)
  BY <1>1, <1>10 DEF Answer, AloneOK, Stage, TypeOK, Goto, Answers
<1> QED
  BY <1>2, <1>3, <1>4, <1>5, <1>6, <1>7, <1>8, <1>9, <1>10 DEF Search

LEMMA SearchAlone ==
    ASSUME TypeOK, AloneInd, NEW t \in Threads, Search(t)
    PROVE  AloneInd'
<1>1. ASSUME NEW u \in interrupted' PROVE pc'[u] # "new"
  BY <1>1, SearchStep DEF AloneInd, TypeOK
<1>2. ASSUME NEW u \in alone' PROVE AloneOK(u)'
  <2>1. u \in alone /\ u \in Threads /\ AloneOK(u) /\ u \notin interrupted'
    BY SearchStep DEF AloneInd, TypeOK, AloneOK, Single
  <2>2. CASE u = t
    <3>1. Single(u)'
      <4>1. \A v \in Threads \ {t} : ~Active(v)
        BY <2>1, <2>2, SearchStep DEF AloneOK, Single
      <4>2. \A v \in Threads \ {t} : ~Active(v)'
        BY <4>1, SearchStep DEF Active
      <4> QED
        BY <2>1, <2>2, <4>2, SearchStep DEF Single
    <3> QED
      BY <2>1, <2>2, <3>1, OwnStep DEF AloneOK
  <2>3. CASE u # t
    <3>1. pc[u] = "done"
      BY <2>1, <2>3, SearchStep DEF AloneOK, Single, Active
    <3> QED
      BY <2>1, <2>3, <3>1, SearchStep, DoneStays
  <2> QED
    BY <2>2, <2>3
<1> QED
  BY <1>1, <1>2 DEF AloneInd

LEMMA StackAlone ==
    ASSUME Ind, AloneInd, Stack \/ \E d \in Devices : DeviceDiscovered(d)
    PROVE  AloneInd'
<1>1. TypeOK /\ running \in BOOLEAN /\ completing \in Nat
  BY DEF Ind, TypeOK
<1>2. CASE InquiryOver
  <2>1. ASSUME NEW t \in alone PROVE AloneOK(t)'
    <3>1. running = TRUE /\ running' = FALSE /\ completing' = completing + 1
      BY <1>1, <1>2 DEF InquiryOver
    <3>2. AloneOK(t)
      BY DEF AloneInd
    <3>3. Single(t)'
      BY <1>2, <3>2 DEF InquiryOver, AloneOK, Single, Active
    <3>4. Stage(t)'
      BY <1>2, <3>1, <3>2 DEF InquiryOver, AloneOK, Stage, Quiet, Answers
    <3> QED
      BY <3>3, <3>4 DEF AloneOK
  <2> QED
    BY <1>2, <2>1 DEF InquiryOver, AloneInd
<1>3. CASE inquiryCompleted
  <2>0. /\ completing > 0 /\ completing' = completing - 1
        /\ UNCHANGED <<interrupted, devicesDiscovered, result, sp_devices, answer,
                       found, alone, running>>
    BY <1>3 DEF inquiryCompleted
  <2>1. /\ \A u \in Threads : \/ pc'[u] = pc[u]
                              \/ pc[u] = "waiting" /\ pc'[u] = "woken"
        /\ Waiting # {} => \E u \in Waiting : pc'[u] = "woken"
    <3>1. CASE Waiting = {}
      BY <1>3, <3>1 DEF inquiryCompleted
    <3>2. CASE Waiting # {}
      <4>1. PICK v \in Waiting : pc' = [pc EXCEPT ![v] = "woken"]
        BY <1>3, <3>2 DEF inquiryCompleted, Goto
      <4>2. v \in Threads /\ pc[v] = "waiting" /\ pc'[v] = "woken"
        BY <1>1, <4>1 DEF Waiting, TypeOK
      <4>3. \A u \in Threads : u = v \/ pc'[u] = pc[u]
        BY <1>1, <4>1 DEF TypeOK
      <4> QED
        BY <4>2, <4>3
    <3> QED
      BY <3>1, <3>2
  <2>2. \A u \in Threads : pc[u] # "wait"
    BY <1>3, SearchAssumption DEF inquiryCompleted, Ind, LockHeld
  <2>3. ASSUME NEW t \in alone PROVE AloneOK(t)'
    <3>1. AloneOK(t) /\ t \in Threads
      BY <1>1 DEF AloneInd, TypeOK
    <3>2. Single(t)'
      BY <1>1, <2>0, <2>1, <3>1 DEF AloneOK, Single, Active, TypeOK
    <3>3. CASE pc[t] = "waiting"
      <4>1. Waiting = {t}
        BY <3>1, <3>3 DEF AloneOK, Single, Active, Waiting
      <4>2. pc'[t] = "woken"
        BY <2>0, <2>1, <4>1
      <4>3. running' = FALSE /\ completing' = 0
        BY <1>1, <2>0, <2>1, <3>1, <3>3 DEF AloneOK, Stage
      <4>4. devicesDiscovered' = found'[t]
        BY <2>0, <2>1, <3>1, <3>3 DEF AloneOK, Stage
      <4> QED
        BY <3>2, <4>2, <4>3, <4>4 DEF AloneOK, Stage, Quiet
    <3>4. CASE pc[t] # "waiting"
      <4>1. pc'[t] = pc[t] /\ pc[t] # "wait"
        BY <2>0, <2>1, <2>2, <3>1, <3>4
      <4>2. pc[t] \notin {"clear", "start", "woken", "filter", "filtering"}
        BY <1>1, <2>0, <2>1, <3>1 DEF AloneOK, Stage, Quiet
      <4>3. Stage(t)'
        BY <2>0, <2>1, <3>1, <3>4, <4>1, <4>2 DEF AloneOK, Stage, Answers
      <4> QED
        BY <3>2, <4>3 DEF AloneOK
    <3> QED
      BY <3>3, <3>4
  <2> QED
    BY <1>1, <2>0, <2>1, <2>3 DEF AloneInd, TypeOK
<1>4. ASSUME NEW d \in Devices, DeviceDiscovered(d) PROVE AloneInd'
  <2>1. /\ running = TRUE /\ devicesDiscovered' = devicesDiscovered \cup {d}
        /\ UNCHANGED <<pc, interrupted, result, sp_devices, running, completing,
                       answer, alone>>
        /\ \A t \in Threads : found'[t] = IF pc[t] \in {"wait", "waiting"}
                                          THEN found[t] \cup {d} ELSE found[t]
    BY <1>1, <1>4 DEF DeviceDiscovered, stackVars
  <2>2. ASSUME NEW t \in alone PROVE AloneOK(t)'
    <3>1. AloneOK(t) /\ t \in Threads
      BY <1>1 DEF AloneInd, TypeOK
    <3>2. Single(t)'
      BY <2>1, <3>1 DEF AloneOK, Single, Active
    <3>3. pc[t] \notin {"clear", "start", "woken", "filter", "filtering"}
      BY <2>1, <3>1 DEF AloneOK, Stage, Quiet
    <3>4. Stage(t)'
      BY <2>1, <3>1, <3>3 DEF AloneOK, Stage, Answers
    <3> QED
      BY <3>2, <3>4 DEF AloneOK
  <2> QED
    BY <2>1, <2>2 DEF AloneInd
<1> QED
  BY <1>2, <1>3, <1>4 DEF Stack

LEMMA MessageAlone ==
    ASSUME TypeOK, AloneInd, NEW t \in Threads, ListDevices(t)
    PROVE  AloneInd'
<1> DEFINE others == {u \in Threads : Active(u)}
<1>1. /\ pc[t] = "new" /\ pc' = [pc EXCEPT ![t] = "clear"]
      /\ alone' = (alone \ others)
                      \cup (IF others = {} /\ ~running /\ completing = 0 THEN {t} ELSE {})
      /\ UNCHANGED <<interrupted, devicesDiscovered, result, sp_devices, stackVars,
                     answer, found>>
  BY DEF ListDevices, Goto
<1>2. t \notin interrupted /\ t \notin alone
  BY <1>1 DEF AloneInd, AloneOK, Single
<1>3. ASSUME NEW u \in alone' PROVE AloneOK(u)'
  <2>1. CASE u = t
    <3>1. others = {} /\ Quiet
      BY <1>1, <1>2, <2>1 DEF Quiet
    <3>2. \A v \in Threads \ {t} : pc'[v] = pc[v] /\ ~Active(v)
      BY <1>1, <3>1 DEF TypeOK
    <3>3. Single(t)'
      BY <1>1, <1>2, <3>2 DEF Single, Active, TypeOK
    <3>4. Stage(t)'
      BY <1>1, <3>1 DEF Stage, Quiet, TypeOK, stackVars
    <3> QED
      BY <2>1, <3>3, <3>4 DEF AloneOK
  <2>2. CASE u # t
    <3>1. u \in alone /\ u \in Threads /\ ~Active(u) /\ AloneOK(u)
      BY <1>1, <2>2 DEF TypeOK, AloneInd
    <3>2. pc[u] = "done"
      BY <3>1 DEF AloneOK, Single, Active
    <3> QED
      BY <1>1, <2>2, <3>1, <3>2, DoneStays DEF AloneOK, Single, TypeOK
  <2> QED
    BY <2>1, <2>2
<1>4. \A u \in interrupted' : pc'[u] # "new"
  BY <1>1, <1>2 DEF AloneInd, TypeOK
<1> QED
  BY <1>3, <1>4 DEF AloneInd

LEMMA CancelAlone ==
    ASSUME TypeOK, AloneInd, CancelListDevices
    PROVE  AloneInd'
<1> DEFINE t == listDevicesThread
<1>1. /\ interrupted' = interrupted \cup ({t} \cap {u \in Threads : Active(u)})
      /\ alone' = IF Active(t) THEN alone \ {t} ELSE alone
      /\ UNCHANGED <<pc, devicesDiscovered, result, sp_devices, stackVars, answer, found>>
  BY DEF CancelListDevices
<1>2. \A u \in interrupted' : pc'[u] # "new"
  BY <1>1 DEF AloneInd, Active
<1>3. ASSUME NEW u \in alone' PROVE AloneOK(u)'
  <2>1. u \in alone /\ AloneOK(u) /\ ~(u = t /\ Active(t))
    BY <1>1 DEF AloneInd
  <2>2. Single(u)'
    BY <1>1, <2>1 DEF AloneOK, Single, Active
  <2>3. Stage(u)'
    BY <1>1, <2>1 DEF AloneOK, Stage, Answers, Quiet, stackVars
  <2> QED
    BY <2>2, <2>3 DEF AloneOK
<1> QED
  BY <1>2, <1>3 DEF AloneInd

LEMMA NextAlone == Ind /\ AloneInd /\ [Next]_vars => AloneInd'
<1> SUFFICES ASSUME Ind, AloneInd, [Next]_vars PROVE AloneInd'
  OBVIOUS
<1>1. CASE UNCHANGED vars
  BY <1>1 DEF vars, stackVars, AloneInd, AloneOK, Single, Stage, Active, Quiet, Answers
<1> QED
  BY <1>1, SearchAlone, StackAlone, MessageAlone, CancelAlone DEF Next, Ind

(* A search that nothing disturbs answers with exactly the Spheros of its  *)
(* own inquiry, for any number of searches before and after it.            *)
THEOREM AloneIsComplete == Spec => []AloneComplete
<1>1. Init => AloneInd
  BY DEF Init, AloneInd
<1>2. AloneInd => AloneComplete
  BY DEF AloneInd, AloneOK, Stage, Answers, AloneComplete
<1> QED
  BY <1>1, <1>2, SpecInd, NextAlone, PTL DEF Spec
=============================================================================
