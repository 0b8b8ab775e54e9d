------------------------------ MODULE TimerProof ------------------------------
(***************************************************************************)
(* Theorems about Timer, for every number of timers, clients and slots.    *)
(***************************************************************************)
EXTENDS Timer, SequenceTheorems, FiniteSetTheorems, TLAPS

(* What the raw pointers in the wheel and in timeOutVec point to.          *)
PointersKnown ==
  /\ \A c \in Clients : client[c].pc # "idle" =>
       client[c].timer \in Timers /\ timer[client[c].timer].state # "unused"
  /\ \A s \in Slots : \A i \in 1..Len(timeWheel[s]) :
       timer[timeWheel[s][i]].state # "unused"

(* What was collected was due when the scan began.                         *)
CollectedWereDue ==
  /\ timeBegin <= now
  /\ \A i \in 1..Len(timeOutVec) :
       /\ timer[timeOutVec[i]].state # "unused"
       /\ timer[timeOutVec[i]].timePoint <= timeBegin

IInv == TypeOK /\ PointersKnown /\ CollectedWereDue

-----------------------------------------------------------------------------
(* The wheel has at least one slot, and slots have a width.                *)
LEMMA WheelShape == TimeNum \in Nat \ {0} /\ Width \in Nat \ {0}
<1>1. ASSUME NEW m \in Nat \ {0}, NEW n \in 1..m
      PROVE  m \div n \in 1..m
  BY SMTT(30)
<1>2. TimeNum \in 1..Round
  BY <1>1, TimerAssumption DEF TimeNum
<1>. QED
  BY <1>1, <1>2, TimerAssumption DEF Width

(* The slot computed for any delay is 0 or 1, whatever value of            *)
(* wheelIndex_ is read, in the middle of a turn or not: in a wheel of two  *)
(* slots or more it is one of them.                                        *)
LEMMA SlotIsSmall ==
  ASSUME wheelIndex \in 0..TimeNum, NEW time \in Nat
  PROVE  SlotFor(time) \in Nat /\ (TimeNum > 1 => SlotFor(time) \in Slots)
<1>1. ASSUME NEW n \in Nat \ {0}, NEW a \in 0..(n-1), NEW b \in 0..n
      PROVE  (a + b) \div n \in {0, 1}
  <2>1. a + b < 2 * n /\ a + b \in Nat
    OBVIOUS
  <2>. QED
    BY <2>1, SMTT(30)
<1>2. time \div Width \in Nat
  BY WheelShape
<1>3. (time \div Width) % TimeNum \in 0..(TimeNum - 1)
  BY <1>2, WheelShape
<1>4. SlotFor(time) \in {0, 1}
  BY <1>1, <1>3, WheelShape DEF SlotFor
<1>. QED
  BY <1>4, WheelShape DEF Slots

(* wheelIndex_ leaves the wheel by one at most, while the worker turns it. *)
LEMMA WheelIndexRead ==
  ASSUME TypeOK
  PROVE  wheelIndex \in 0..TimeNum /\ (pc # "wrap" => wheelIndex \in Slots)
BY WheelShape DEF TypeOK, Slots

(* What RemoveAt leaves, and where.                                        *)
LEMMA RemoveAtShape ==
  ASSUME NEW S, NEW q \in Seq(S), NEW i \in 1..Len(q)
  PROVE  /\ RemoveAt(q, i) \in Seq(S)
         /\ Len(RemoveAt(q, i)) = Len(q) - 1
         /\ \A j \in 1..(Len(q) - 1) : RemoveAt(q, i)[j] = q[IF j < i THEN j ELSE j + 1]
<1>. DEFINE before == SubSeq(q, 1, i-1)
            after  == SubSeq(q, i+1, Len(q))
<1>1. i \in 1..Len(q) /\ Len(q) \in Nat /\ \A j \in 1..Len(q) : q[j] \in S
  BY LenProperties, ElementOfSeq
<1>2. /\ before \in Seq(S) /\ Len(before) = i-1
      /\ \A j \in 1..(i-1) : before[j] = q[j]
  <2>1. \A j \in 1..(i-1) : q[j] \in S
    BY <1>1
  <2>. QED
    BY <1>1, <2>1, SubSeqProperties
<1>3. /\ after \in Seq(S) /\ Len(after) = Len(q) - i
      /\ \A j \in 1..(Len(q) - i) : after[j] = q[i + j]
  <2>1. \A j \in (i+1)..Len(q) : q[j] \in S
    BY <1>1
  <2>. QED
    BY <1>1, <2>1, SubSeqProperties
<1>4. RemoveAt(q, i) = before \o after
  BY DEF RemoveAt
<1>. HIDE DEF before, after
<1>5. /\ before \o after \in Seq(S)
      /\ Len(before \o after) = Len(before) + Len(after)
      /\ \A j \in 1..(Len(before) + Len(after)) :
           (before \o after)[j] = IF j <= Len(before) THEN before[j] ELSE after[j - Len(before)]
  BY <1>2, <1>3, ConcatProperties
<1>6. ASSUME NEW j \in 1..(Len(q) - 1)
      PROVE  (before \o after)[j] = q[IF j < i THEN j ELSE j + 1]
  <2>1. CASE j < i
    <3>1. (before \o after)[j] = before[j] /\ j \in 1..(i-1)
      BY <1>1, <1>2, <1>3, <1>5, <2>1
    <3>. QED
      BY <1>2, <2>1, <3>1
  <2>2. CASE ~(j < i)
    <3>1. (before \o after)[j] = after[j - (i-1)] /\ j - (i-1) \in 1..(Len(q) - i)
      <4>1. j \in 1..(Len(before) + Len(after)) /\ ~(j <= Len(before))
        BY <1>1, <1>2, <1>3, <2>2
      <4>2. (before \o after)[j] = after[j - Len(before)]
        BY <1>5, <4>1
      <4>. QED
        BY <1>1, <1>2, <2>2, <4>2
    <3>2. i + (j - (i-1)) = j + 1
      BY <1>1
    <3>. QED
      BY <1>3, <2>2, <3>1, <3>2
  <2>. QED
    BY <2>1, <2>2
<1>7. Len(before \o after) = Len(q) - 1
  BY <1>1, <1>2, <1>3, <1>5
<1>. QED
  BY <1>4, <1>5, <1>6, <1>7

(* All that is left was there.                                             *)
LEMMA RemoveAtElements ==
  ASSUME NEW S, NEW s \in Seq(S), NEW i \in 1..Len(s)
  PROVE  /\ RemoveAt(s, i) \in Seq(S)
         /\ \A j \in 1..Len(RemoveAt(s, i)) : \E k \in 1..Len(s) : RemoveAt(s, i)[j] = s[k]
<1>1. Len(s) \in Nat /\ RemoveAt(s, i) \in Seq(S) /\ Len(RemoveAt(s, i)) = Len(s) - 1
      /\ \A j \in 1..(Len(s) - 1) : RemoveAt(s, i)[j] = s[IF j < i THEN j ELSE j + 1]
  BY RemoveAtShape, LenProperties
<1>2. \A j \in 1..(Len(s) - 1) : (IF j < i THEN j ELSE j + 1) \in 1..Len(s)
  BY <1>1
<1>. QED
  BY <1>1, <1>2

-----------------------------------------------------------------------------
(* An empty wheel.                                                         *)
LEMMA InitInv == Init => IInv
<1>. SUFFICES ASSUME Init PROVE IInv
  OBVIOUS
<1>1. <<>> \in Seq(Timers) /\ Len(<<>>) = 0
  BY EmptySeq
<1>2. 0 \in Slots
  BY WheelShape DEF Slots
<1>3. Unused \in TimerObject
  BY DEF Unused, TimerObject
<1>4. Idle \in ClientState
  BY <1>2 DEF Idle, ClientState
<1>5. TypeOK
  <2>1. timer \in [Timers -> TimerObject] /\ client \in [Clients -> ClientState]
    BY <1>3, <1>4, Zenon DEF Init
  <2>2. timeWheel \in [Slots -> Seq(Timers)]
    BY <1>1 DEF Init
  <2>. QED
    BY <1>1, <1>2, <2>1, <2>2 DEF Init, TypeOK
<1>6. PointersKnown
  BY <1>1 DEF Init, PointersKnown, Idle
<1>7. CollectedWereDue
  BY <1>1 DEF Init, CollectedWereDue
<1>. QED
  BY <1>5, <1>6, <1>7 DEF IInv

(* A new timer takes an unused object: no pointer points to it yet.        *)
LEMMA NewTimerKeeps ==
  ASSUME IInv, NEW t \in Timers, timer[t].state = "unused",
         NEW obj \in TimerObject, obj.state # "unused",
         timer' = [timer EXCEPT ![t] = obj],
         UNCHANGED <<now, timeWheel, workerVars>>
  PROVE  /\ timer' \in [Timers -> TimerObject]
         /\ \A u \in Timers : timer[u].state # "unused" => timer'[u].state # "unused"
         /\ CollectedWereDue'
         /\ \A s \in Slots : \A i \in 1..Len(timeWheel'[s]) :
              timer'[timeWheel'[s][i]].state # "unused"
<1>1. /\ timer' \in [Timers -> TimerObject]
      /\ timer'[t] = obj
      /\ \A u \in Timers : u # t => timer'[u] = timer[u]
  BY DEF IInv, TypeOK
<1>2. \A u \in Timers : timer[u].state # "unused" => timer'[u] = timer[u]
  BY <1>1
<1>3. \A i \in 1..Len(timeOutVec) : timeOutVec[i] \in Timers
  BY ElementOfSeq DEF IInv, TypeOK
<1>4. \A s \in Slots : \A i \in 1..Len(timeWheel[s]) : timeWheel[s][i] \in Timers
  BY ElementOfSeq DEF IInv, TypeOK
<1>5. CollectedWereDue'
  BY <1>2, <1>3 DEF IInv, CollectedWereDue, workerVars
<1>6. \A s \in Slots : \A i \in 1..Len(timeWheel'[s]) :
        timer'[timeWheel'[s][i]].state # "unused"
  BY <1>2, <1>4 DEF IInv, PointersKnown
<1>. QED
  BY <1>1, <1>2, <1>5, <1>6

(* A new object is an object.                                              *)
LEMMA NewTimerType ==
  ASSUME now \in Nat, NEW time \in Nat, NEW repeatable \in BOOLEAN, NEW id \in Ids \cup {NoId}
  PROVE  /\ NewTimer(time, repeatable, id) \in TimerObject
         /\ NewTimer(time, repeatable, id).state = "alive"
  BY DEF NewTimer, TimerObject

(* addOnceTask puts the new object in the hands of its caller.             *)
LEMMA AddOnceInv ==
  ASSUME IInv, NEW c \in Clients, NEW t \in Timers, NEW time \in Delays, AddOnce(c, t, time)
  PROVE  IInv'
<1>. DEFINE obj == NewTimer(time, FALSE, NoId)
<1>1. time \in Nat /\ SlotFor(time) \in Nat
  BY SlotIsSmall, WheelIndexRead, TimerAssumption DEF IInv
<1>2. obj \in TimerObject /\ obj.state = "alive"
  BY <1>1, NewTimerType DEF IInv, TypeOK
<1>3. timer' = [timer EXCEPT ![t] = obj] /\ timer[t].state = "unused"
      /\ UNCHANGED <<now, timeWheel, priodTimerMap, workerVars>>
  BY DEF AddOnce
<1>4. client' = [client EXCEPT ![c] = [pc |-> "push", timer |-> t, slot |-> SlotFor(time)]]
  BY DEF AddOnce
<1>. HIDE DEF obj
<1>5. /\ timer' \in [Timers -> TimerObject]
      /\ timer'[t].state # "unused"
      /\ \A u \in Timers : timer[u].state # "unused" => timer'[u].state # "unused"
      /\ CollectedWereDue'
      /\ \A s \in Slots : \A i \in 1..Len(timeWheel'[s]) :
           timer'[timeWheel'[s][i]].state # "unused"
  BY <1>2, <1>3, NewTimerKeeps DEF IInv, TypeOK
<1>6. /\ client' \in [Clients -> ClientState]
      /\ client'[c].timer = t
      /\ \A d \in Clients : d # c => client'[d] = client[d]
  BY <1>1, <1>4 DEF IInv, TypeOK, ClientState
<1>7. TypeOK'
  BY <1>3, <1>5, <1>6 DEF IInv, TypeOK, workerVars
<1>8. PointersKnown'
  BY <1>5, <1>6 DEF IInv, PointersKnown
<1>. QED
  BY <1>5, <1>7, <1>8 DEF IInv

(* addPriodTask also enters it in priodTimerMap_.                          *)
LEMMA AddPriodInv ==
  ASSUME IInv, NEW c \in Clients, NEW t \in Timers, NEW time \in Delays, NEW id \in Ids,
         AddPriod(c, t, time, id)
  PROVE  IInv'
<1>. DEFINE obj == NewTimer(time, TRUE, id)
<1>1. time \in Nat /\ 0 \in Nat
  BY TimerAssumption
<1>2. obj \in TimerObject /\ obj.state = "alive"
  BY <1>1, NewTimerType DEF IInv, TypeOK
<1>3. timer' = [timer EXCEPT ![t] = obj] /\ timer[t].state = "unused"
      /\ UNCHANGED <<now, timeWheel, workerVars>>
  BY DEF AddPriod
<1>4. /\ client' = [client EXCEPT ![c] = [pc |-> "slot", timer |-> t, slot |-> 0]]
      /\ priodTimerMap' = [priodTimerMap EXCEPT ![id] = t]
  BY DEF AddPriod
<1>. HIDE DEF obj
<1>5. /\ timer' \in [Timers -> TimerObject]
      /\ timer'[t].state # "unused"
      /\ \A u \in Timers : timer[u].state # "unused" => timer'[u].state # "unused"
      /\ CollectedWereDue'
      /\ \A s \in Slots : \A i \in 1..Len(timeWheel'[s]) :
           timer'[timeWheel'[s][i]].state # "unused"
  BY <1>2, <1>3, NewTimerKeeps DEF IInv, TypeOK
<1>6. /\ client' \in [Clients -> ClientState]
      /\ client'[c].timer = t
      /\ \A d \in Clients : d # c => client'[d] = client[d]
  BY <1>1, <1>4 DEF IInv, TypeOK, ClientState
<1>7. TypeOK'
  BY <1>3, <1>4, <1>5, <1>6 DEF IInv, TypeOK, workerVars
<1>8. PointersKnown'
  BY <1>5, <1>6 DEF IInv, PointersKnown
<1>. QED
  BY <1>5, <1>7, <1>8 DEF IInv

(* push_back puts a constructed timer into a slot; an index outside the    *)
(* wheel leaves it in the hands of its thread.                             *)
LEMMA PushInv ==
  ASSUME IInv, NEW c \in Clients, Push(c)
  PROVE  IInv'
<1>. DEFINE s == client[c].slot
            t == client[c].timer
<1>1. t \in Timers /\ timer[t].state # "unused" /\ s \in Nat /\ client[c] \in ClientState
  BY DEF Push, IInv, PointersKnown, TypeOK, ClientState
<1>2. timeWheel' = [r \in Slots |-> IF r = s THEN Append(timeWheel[r], t) ELSE timeWheel[r]]
  BY DEF Push
<1>3. ASSUME NEW r \in Slots
      PROVE  /\ timeWheel'[r] \in Seq(Timers)
             /\ \A i \in 1..Len(timeWheel'[r]) : timer[timeWheel'[r][i]].state # "unused"
  <2>1. timeWheel[r] \in Seq(Timers) /\ \A i \in 1..Len(timeWheel[r]) : timer[timeWheel[r][i]].state # "unused"
    BY DEF IInv, TypeOK, PointersKnown
  <2>2. CASE r # s
    BY <1>2, <2>1, <2>2
  <2>3. CASE r = s
    <3>1. timeWheel'[r] = Append(timeWheel[r], t)
      BY <1>2, <2>3
    <3>2. /\ Append(timeWheel[r], t) \in Seq(Timers)
          /\ Len(Append(timeWheel[r], t)) = Len(timeWheel[r]) + 1
          /\ \A i \in 1..Len(timeWheel[r]) : Append(timeWheel[r], t)[i] = timeWheel[r][i]
          /\ Append(timeWheel[r], t)[Len(timeWheel[r]) + 1] = t
          /\ Len(timeWheel[r]) \in Nat
      BY <1>1, <2>1, AppendProperties, LenProperties
    <3>. QED
      BY <1>1, <2>1, <3>1, <3>2
  <2>. QED
    BY <2>2, <2>3
<1>4. timeWheel' \in [Slots -> Seq(Timers)]
  BY <1>2, <1>3
<1>5. /\ client' \in [Clients -> ClientState]
      /\ \A d \in Clients : client'[d].pc # "idle" =>
           client'[d].timer = client[d].timer /\ client[d].pc # "idle"
  <2>. DEFINE new == IF s \in Slots THEN Idle ELSE [client[c] EXCEPT !.pc = "outside"]
  <2>1. client' = [client EXCEPT ![c] = new] /\ client[c].pc = "push"
    BY DEF Push
  <2>2. new \in ClientState /\ (new.pc # "idle" => new.timer = client[c].timer)
    BY <1>1 DEF Idle, ClientState
  <2>. HIDE DEF new
  <2>. QED
    BY <2>1, <2>2 DEF IInv, TypeOK
<1>. HIDE DEF s, t
<1>6. TypeOK'
  BY <1>4, <1>5 DEF Push, IInv, TypeOK, workerVars
<1>7. PointersKnown'
  BY <1>3, <1>5 DEF Push, IInv, PointersKnown
<1>8. CollectedWereDue'
  BY DEF Push, IInv, CollectedWereDue, workerVars
<1>. QED
  BY <1>6, <1>7, <1>8 DEF IInv

(* The other steps of clients, and the clock.                              *)
LEMMA ClientInv ==
  ASSUME IInv, NEW c \in Clients,
         FindSlot(c) \/ Push(c) \/ (\E id \in Ids : RemovePriod(c, id)) \/ Tick
  PROVE  IInv'
<1>1. CASE FindSlot(c)
  <2>. DEFINE t == client[c].timer
  <2>1. t \in Timers /\ timer[t].state # "unused"
    BY <1>1 DEF FindSlot, IInv, PointersKnown
  <2>2. SlotFor(timer[t].period) \in Nat
    <3>1. timer[t].period \in Nat
      BY <2>1 DEF IInv, TypeOK, TimerObject
    <3>. QED
      BY <3>1, SlotIsSmall, WheelIndexRead DEF IInv
  <2>3. /\ client' \in [Clients -> ClientState]
        /\ \A d \in Clients : client'[d].timer = client[d].timer
        /\ \A d \in Clients : client'[d].pc # "idle" => client[d].pc # "idle"
    BY <1>1, <2>1, <2>2 DEF FindSlot, IInv, TypeOK, ClientState
  <2>. QED
    BY <1>1, <2>3 DEF FindSlot, IInv, TypeOK, PointersKnown, CollectedWereDue, workerVars
<1>2. CASE Push(c)
  BY <1>2, PushInv
<1>3. CASE \E id \in Ids : RemovePriod(c, id)
  BY <1>3 DEF RemovePriod, IInv, TypeOK, PointersKnown, CollectedWereDue, workerVars
<1>4. CASE Tick
  BY <1>4 DEF Tick, IInv, TypeOK, PointersKnown, CollectedWereDue, workerVars
<1>. QED
  BY <1>1, <1>2, <1>3, <1>4

-----------------------------------------------------------------------------
(* The worker takes no timer back to unused, and the scan is of a slot.    *)
LEMMA ListType ==
  ASSUME IInv, pc = "scan"
  PROVE  /\ List \in Seq(Timers) /\ Len(List) \in Nat
         /\ \A i \in 1..Len(List) : List[i] \in Timers /\ timer[List[i]].state # "unused"
<1>1. wheelIndex \in Slots /\ List \in Seq(Timers)
  BY DEF IInv, TypeOK, List
<1>2. Len(List) \in Nat /\ \A i \in 1..Len(List) : List[i] \in Timers
  BY <1>1, LenProperties, ElementOfSeq
<1>3. \A i \in 1..Len(List) : timer[List[i]].state # "unused"
  BY <1>1 DEF IInv, PointersKnown, List
<1>. QED
  BY <1>1, <1>2, <1>3

(* The steps of the worker that move no timer.                             *)
LEMMA WaitInv ==
  ASSUME IInv, Start \/ Wake \/ ScanNotDue \/ ScanEnd
  PROVE  IInv'
<1>1. CASE Start
  <2>1. wakeAt' \in Int
    BY <1>1, WheelShape DEF Start, DelayUntil, IInv, TypeOK
  <2>. QED
    BY <1>1, <2>1 DEF Start, IInv, TypeOK, PointersKnown, CollectedWereDue
<1>2. CASE Wake
  <2>1. timeOutVec' \in Seq(Timers) /\ Len(timeOutVec') = 0
    BY <1>2, EmptySeq DEF Wake
  <2>2. TypeOK'
    BY <1>2, <2>1 DEF Wake, IInv, TypeOK
  <2>3. PointersKnown'
    BY <1>2 DEF Wake, IInv, PointersKnown
  <2>4. CollectedWereDue'
    BY <1>2, <2>1 DEF Wake, IInv, TypeOK, CollectedWereDue
  <2>. QED
    BY <2>2, <2>3, <2>4 DEF IInv
<1>3. CASE ScanNotDue
  BY <1>3 DEF ScanNotDue, StepOver, IInv, TypeOK, PointersKnown, CollectedWereDue
<1>4. CASE ScanEnd
  BY <1>4 DEF ScanEnd, IInv, TypeOK, PointersKnown, CollectedWereDue
<1>. QED
  BY <1>1, <1>2, <1>3, <1>4

(* What the scan collects is due, and it only takes elements out of the    *)
(* list.                                                                   *)
LEMMA ScanDueInv ==
  ASSUME IInv, ScanDue
  PROVE  IInv'
<1>. DEFINE t == List[iter]
<1>0. pc = "scan" /\ wheelIndex \in Slots
  BY WheelIndexRead DEF ScanDue, IInv
<1>1. iter \in 1..Len(List) /\ Due(t)
  BY <1>0, ListType DEF ScanDue, IInv, TypeOK
<1>2. t \in Timers /\ timer[t].state # "unused" /\ timer[t].timePoint <= timeBegin
  BY <1>0, <1>1, ListType DEF Due
<1>3. timeOutVec' = Append(timeOutVec, t) /\ timeOutVec \in Seq(Timers)
  BY DEF ScanDue, IInv, TypeOK
<1>4. UNCHANGED <<now, timer, priodTimerMap, wheelIndex, pc, wakeAt, timeBegin, client>>
  BY DEF ScanDue
<1>5. /\ wheelIndex \in Slots
      /\ timeWheel[wheelIndex] = List
      /\ timeWheel \in [Slots -> Seq(Timers)]
  BY <1>0 DEF IInv, TypeOK, List
<1>6. /\ iter' \in Nat \ {0}
      /\ timeWheel' = timeWheel \/ timeWheel' = [timeWheel EXCEPT ![wheelIndex] = RemoveAt(List, iter)]
  <2>1. CASE timer[t].repeatable
    BY <1>0, <1>1, <2>1, ListType DEF ScanDue
  <2>2. CASE ~timer[t].repeatable
    <3>1. timeWheel' = [timeWheel EXCEPT ![wheelIndex] = RemoveAt(timeWheel[wheelIndex], iter)]
      BY <2>2 DEF ScanDue
    <3>2. iter' = AfterErase(iter)
      BY <2>2 DEF ScanDue
    <3>. QED
      BY <1>0, <1>1, <1>5, <3>1, <3>2, ListType DEF AfterErase
  <2>. QED
    BY <2>1, <2>2
<1>. HIDE DEF t
<1>7. /\ timeOutVec' \in Seq(Timers)
      /\ Len(timeOutVec') = Len(timeOutVec) + 1 /\ Len(timeOutVec) \in Nat
      /\ \A i \in 1..Len(timeOutVec) : timeOutVec'[i] = timeOutVec[i]
      /\ timeOutVec'[Len(timeOutVec) + 1] = t
  BY <1>2, <1>3, AppendProperties, LenProperties
<1>8. /\ timeWheel' \in [Slots -> Seq(Timers)]
      /\ \A s \in Slots : \A i \in 1..Len(timeWheel'[s]) :
           timer[timeWheel'[s][i]].state # "unused"
  <2>1. CASE timeWheel' = timeWheel
    BY <1>5, <2>1 DEF IInv, PointersKnown
  <2>2. CASE timeWheel' = [timeWheel EXCEPT ![wheelIndex] = RemoveAt(List, iter)]
    <3>. DEFINE new == RemoveAt(List, iter)
    <3>1. /\ new \in Seq(Timers)
          /\ \A j \in 1..Len(new) : \E k \in 1..Len(List) : new[j] = List[k]
      BY <1>0, <1>1, ListType, RemoveAtElements
    <3>2. \A j \in 1..Len(new) : timer[new[j]].state # "unused"
      BY <1>0, <3>1, ListType
    <3>. HIDE DEF new
    <3>3. /\ timeWheel' \in [Slots -> Seq(Timers)]
          /\ timeWheel'[wheelIndex] = new
          /\ \A s \in Slots : s # wheelIndex => timeWheel'[s] = timeWheel[s]
      BY <1>5, <2>2, <3>1 DEF new
    <3>. QED
      BY <3>2, <3>3 DEF IInv, PointersKnown
  <2>. QED
    BY <1>6, <2>1, <2>2
<1>9. TypeOK'
  BY <1>4, <1>6, <1>7, <1>8 DEF IInv, TypeOK
<1>10. PointersKnown'
  BY <1>4, <1>8 DEF IInv, PointersKnown
<1>11. CollectedWereDue'
  <2>1. ASSUME NEW i \in 1..Len(timeOutVec')
        PROVE  timer[timeOutVec'[i]].state # "unused" /\ timer[timeOutVec'[i]].timePoint <= timeBegin
    <3>1. CASE i = Len(timeOutVec) + 1
      BY <1>2, <1>7, <3>1
    <3>2. CASE i # Len(timeOutVec) + 1
      <4>1. i \in 1..Len(timeOutVec)
        BY <1>7, <3>2
      <4>. QED
        BY <1>7, <4>1 DEF IInv, CollectedWereDue
    <3>. QED
      BY <3>1, <3>2
  <2>. QED
    BY <1>4, <2>1 DEF IInv, CollectedWereDue
<1>. QED
  BY <1>9, <1>10, <1>11 DEF IInv

(* work() touches neither the time nor the name of the timer it runs.      *)
LEMMA WorkKeeps ==
  ASSUME IInv, Work
  PROVE  /\ Head(timeOutVec) \in Timers
         /\ timer[Head(timeOutVec)].timePoint <= now
         /\ timer' \in [Timers -> TimerObject]
         /\ \A u \in Timers : timer'[u].timePoint = timer[u].timePoint
         /\ \A u \in Timers : timer[u].state # "unused" => timer'[u].state # "unused"
         /\ \A u \in Timers : u # Head(timeOutVec) => timer'[u] = timer[u]
<1>. DEFINE t == Head(timeOutVec)
<1>1. timeOutVec \in Seq(Timers) /\ timeOutVec # <<>>
  BY DEF IInv, TypeOK, Work
<1>2. t = timeOutVec[1] /\ t \in Timers /\ 1 \in 1..Len(timeOutVec)
  BY <1>1, HeadTailProperties, EmptySeq, LenProperties, ElementOfSeq
<1>3. timer[t].timePoint <= timeBegin /\ timer[t].state # "unused"
  BY <1>2 DEF IInv, CollectedWereDue
<1>4. timeBegin <= now /\ now \in Nat /\ timeBegin \in Nat
  BY DEF IInv, CollectedWereDue, TypeOK
<1>5. timer[t] \in TimerObject /\ timer \in [Timers -> TimerObject]
  BY <1>2 DEF IInv, TypeOK
<1>6. timer[t].timePoint <= now
  <2>1. timer[t].timePoint \in Nat
    BY <1>5 DEF TimerObject
  <2>. QED
    BY <1>3, <1>4, <2>1
<1>7. timer' = [timer EXCEPT ![t] = Worked(t)]
  BY DEF Work
<1>8. /\ Worked(t) \in TimerObject
      /\ Worked(t).timePoint = timer[t].timePoint
      /\ Worked(t).state # "unused"
  <2>. DEFINE when == IF t \in NeedTimers THEN now ELSE timer[t].insertTime
              kept == IF timer[t].repeatable THEN timer[t].state ELSE "deleted"
  <2>1. when \in Nat /\ kept \in {"alive", "deleted"}
    BY <1>3, <1>4, <1>5 DEF TimerObject
  <2>2. Worked(t) = [[timer[t] EXCEPT !.insertTime = when] EXCEPT !.state = kept]
    BY DEF Worked
  <2>. HIDE DEF when, kept
  <2>3. [timer[t] EXCEPT !.insertTime = when] \in TimerObject
        /\ [timer[t] EXCEPT !.insertTime = when].timePoint = timer[t].timePoint
    BY <1>5, <2>1 DEF TimerObject
  <2>. QED
    BY <2>1, <2>2, <2>3 DEF TimerObject
<1>. HIDE DEF t
<1>9. /\ timer' \in [Timers -> TimerObject]
      /\ timer'[t] = Worked(t)
      /\ \A u \in Timers : u # t => timer'[u] = timer[u]
  BY <1>2, <1>5, <1>7, <1>8
<1>10. t = Head(timeOutVec)
  BY DEF t
<1>. QED
  BY <1>2, <1>6, <1>8, <1>9, <1>10

(* A timer that ran leaves timeOutVec.                                     *)
LEMMA WorkInv ==
  ASSUME IInv, Work
  PROVE  IInv'
<1>1. timeOutVec \in Seq(Timers) /\ timeOutVec # <<>> /\ timeOutVec' = Tail(timeOutVec)
  BY DEF IInv, TypeOK, Work
<1>2. UNCHANGED <<now, timeWheel, priodTimerMap, wheelIndex, pc, wakeAt, timeBegin, iter, client>>
  BY DEF Work
<1>3. /\ timeOutVec' \in Seq(Timers)
      /\ Len(timeOutVec') = Len(timeOutVec) - 1 /\ Len(timeOutVec) \in Nat
      /\ \A i \in 1..Len(timeOutVec') : timeOutVec'[i] = timeOutVec[i + 1]
  BY <1>1, HeadTailProperties, LenProperties
<1>4. \A i \in 1..Len(timeOutVec) : timeOutVec[i] \in Timers
  BY <1>1, ElementOfSeq
<1>5. \A s \in Slots : \A i \in 1..Len(timeWheel[s]) : timeWheel[s][i] \in Timers
  BY ElementOfSeq DEF IInv, TypeOK
<1>6. TypeOK'
  BY <1>2, <1>3, WorkKeeps DEF IInv, TypeOK
<1>7. PointersKnown'
  BY <1>2, <1>5, WorkKeeps DEF IInv, PointersKnown
<1>8. CollectedWereDue'
  <2>1. ASSUME NEW i \in 1..Len(timeOutVec')
        PROVE  timer'[timeOutVec'[i]].state # "unused" /\ timer'[timeOutVec'[i]].timePoint <= timeBegin
    <3>1. i + 1 \in 1..Len(timeOutVec) /\ timeOutVec'[i] = timeOutVec[i + 1]
      BY <1>3
    <3>2. /\ timeOutVec[i + 1] \in Timers
          /\ timer[timeOutVec[i + 1]].state # "unused"
          /\ timer[timeOutVec[i + 1]].timePoint <= timeBegin
      BY <1>4, <3>1 DEF IInv, CollectedWereDue
    <3>. QED
      BY <3>1, <3>2, WorkKeeps
  <2>. QED
    BY <1>2, <2>1 DEF IInv, CollectedWereDue
<1>. QED
  BY <1>6, <1>7, <1>8 DEF IInv

(* The wheel turns, out of its range for a moment, and back to a slot it   *)
(* has.                                                                    *)
LEMMA TurnInv ==
  ASSUME IInv, Increment \/ Wrap
  PROVE  IInv'
<1>1. CASE Increment
  <2>1. wheelIndex \in Slots /\ wheelIndex' = wheelIndex + 1 /\ pc' = "wrap"
    BY <1>1, WheelIndexRead DEF Increment, IInv
  <2>2. wheelIndex' \in 1..TimeNum
    BY <2>1, WheelShape DEF Slots
  <2>. QED
    BY <1>1, <2>1, <2>2 DEF Increment, IInv, TypeOK, PointersKnown, CollectedWereDue
<1>2. CASE Wrap
  <2>1. wheelIndex \in 1..TimeNum /\ wheelIndex' = WrapIndex /\ pc' = "wait"
    BY <1>2 DEF Wrap, IInv, TypeOK
  <2>2. wheelIndex' \in Slots
    BY <2>1, WheelShape DEF WrapIndex, Slots
  <2>3. wakeAt' \in Int
    <3>1. now \in Int /\ timeBegin \in Int /\ Width \in Int
      BY WheelShape DEF IInv, TypeOK
    <3>. QED
      BY <1>2, <3>1 DEF Wrap, DelayUntil
  <2>. QED
    BY <1>2, <2>1, <2>2, <2>3 DEF Wrap, IInv, TypeOK, PointersKnown, CollectedWereDue
<1>. QED
  BY <1>1, <1>2

-----------------------------------------------------------------------------
(* Every step of every thread keeps the invariant.                         *)
LEMMA StepInv == IInv /\ [Next]_vars => IInv'
<1>. SUFFICES ASSUME IInv, [Next]_vars PROVE IInv'
  OBVIOUS
<1>1. CASE ClientStep
  BY <1>1, AddOnceInv, AddPriodInv, ClientInv DEF ClientStep
<1>2. CASE Start
  BY <1>2, WaitInv
<1>3. CASE WorkerStep
  BY <1>3, WaitInv, ScanDueInv, WorkInv, TurnInv DEF WorkerStep
<1>4. CASE Tick
  BY <1>4 DEF Tick, IInv, TypeOK, PointersKnown, CollectedWereDue, workerVars
<1>5. CASE UNCHANGED vars
  BY <1>5 DEF vars, workerVars, IInv, TypeOK, PointersKnown, CollectedWereDue
<1>. QED
  BY <1>1, <1>2, <1>3, <1>4, <1>5 DEF Next

(* Only work() deletes a timer, and only one whose time has come.          *)
LEMMA StepNotEarly ==
  ASSUME IInv, [Next]_vars, NEW t \in Timers,
         timer[t].state = "alive", timer'[t].state = "deleted"
  PROVE  timer[t].timePoint <= now
<1>1. CASE ClientStep
  <2>. SUFFICES ASSUME NEW c \in Clients,
                       \/ \E u \in Timers, time \in Delays : AddOnce(c, u, time)
                       \/ \E u \in Timers, time \in Delays, id \in Ids : AddPriod(c, u, time, id)
                       \/ FindSlot(c) \/ Push(c)
                       \/ \E id \in Ids : RemovePriod(c, id)
                PROVE  FALSE
    BY <1>1 DEF ClientStep
  <2>1. timer \in [Timers -> TimerObject] /\ timer' # timer
    BY DEF IInv, TypeOK
  <2>2. ASSUME NEW u \in Timers, NEW time \in Delays, AddOnce(c, u, time)
        PROVE  FALSE
    <3>1. timer[u].state = "unused"
      BY <2>2 DEF AddOnce
    <3>2. timer'[t] = timer[t]
      BY <2>1, <2>2, <3>1 DEF AddOnce
    <3>. QED
      BY <3>2
  <2>3. ASSUME NEW u \in Timers, NEW time \in Delays, NEW id \in Ids, AddPriod(c, u, time, id)
        PROVE  FALSE
    <3>1. timer[u].state = "unused"
      BY <2>3 DEF AddPriod
    <3>2. timer'[t] = timer[t]
      BY <2>1, <2>3, <3>1 DEF AddPriod
    <3>. QED
      BY <3>2
  <2>4. CASE FindSlot(c) \/ Push(c) \/ \E id \in Ids : RemovePriod(c, id)
    BY <2>1, <2>4 DEF FindSlot, Push, RemovePriod
  <2>. QED
    BY <2>2, <2>3, <2>4
<1>2. CASE Work
  BY <1>2, WorkKeeps
<1>3. CASE Start \/ Wake \/ ScanDue \/ ScanNotDue \/ ScanEnd \/ Increment \/ Wrap \/ Tick \/ UNCHANGED vars
  BY <1>3 DEF Start, Wake, ScanDue, ScanNotDue, ScanEnd, Increment, Wrap, Tick, vars
<1>. QED
  BY <1>1, <1>2, <1>3 DEF Next, WorkerStep

-----------------------------------------------------------------------------
(* In every behaviour the wheel and the hands of clients hold no pointer   *)
(* to an object that was never made, and what was collected was due.       *)
THEOREM Invariance == Spec => []IInv
  BY InitInv, StepInv, PTL DEF Spec

(* Every variable of the timer keeps its type, and wheelIndex_ is out of   *)
(* the wheel only between timer.cpp:239 and :242.                          *)
THEOREM TypeCorrect == Spec => []TypeOK
<1>1. IInv => TypeOK
  BY DEF IInv
<1>. QED
  BY <1>1, Invariance, PTL

(* With a wheel of two slots or more the slot every add computes is one of *)
(* them (timer.cpp:82 indexes without a check), though an add may read     *)
(* wheelIndex_ between the two unlocked steps that turn the wheel (:239    *)
(* and :242), for every delay and any number of threads.                   *)
THEOREM SlotsInWheelHolds ==
  ASSUME TimeNum > 1
  PROVE  Spec => []SlotsInWheel
<1>1. Init => SlotsInWheel
  BY WheelShape DEF Init, Idle, SlotsInWheel, Slots
<1>2. IInv /\ SlotsInWheel /\ [Next]_vars => SlotsInWheel'
  <2>. SUFFICES ASSUME IInv, SlotsInWheel, [Next]_vars PROVE SlotsInWheel'
    OBVIOUS
  <2>1. /\ 0 \in Slots /\ wheelIndex \in 0..TimeNum
        /\ client \in [Clients -> ClientState] /\ timer \in [Timers -> TimerObject]
    BY WheelShape, WheelIndexRead DEF IInv, TypeOK, Slots
  <2>2. \A time \in Nat : SlotFor(time) \in Slots
    BY <2>1, SlotIsSmall
  <2>. SUFFICES ASSUME NEW d \in Clients PROVE client'[d].slot \in Slots
    BY DEF SlotsInWheel
  <2>3. client[d].slot \in Slots
    BY DEF SlotsInWheel
  <2>4. CASE ClientStep
    <3>. SUFFICES ASSUME NEW c \in Clients,
                         \/ \E t \in Timers, time \in Delays : AddOnce(c, t, time)
                         \/ \E t \in Timers, time \in Delays, id \in Ids : AddPriod(c, t, time, id)
                         \/ FindSlot(c) \/ Push(c)
                         \/ \E id \in Ids : RemovePriod(c, id)
                  PROVE  client'[d].slot \in Slots
      BY <2>4 DEF ClientStep
    <3>1. CASE \E t \in Timers, time \in Delays : AddOnce(c, t, time)
      <4>. PICK t \in Timers, time \in Delays : AddOnce(c, t, time)
        BY <3>1
      <4>1. SlotFor(time) \in Slots
        BY <2>2, TimerAssumption
      <4>. QED
        BY <2>1, <2>3, <4>1 DEF AddOnce
    <3>2. CASE \E t \in Timers, time \in Delays, id \in Ids : AddPriod(c, t, time, id)
      BY <2>1, <2>3, <3>2 DEF AddPriod
    <3>3. CASE FindSlot(c)
      <4>1. client[c].timer \in Timers
        BY <3>3 DEF FindSlot, IInv, PointersKnown
      <4>2. SlotFor(timer[client[c].timer].period) \in Slots
        BY <2>1, <2>2, <4>1 DEF TimerObject
      <4>. QED
        BY <2>1, <2>3, <3>3, <4>2 DEF FindSlot
    <3>4. CASE Push(c)
      <4>. DEFINE new == IF client[c].slot \in Slots THEN Idle ELSE [client[c] EXCEPT !.pc = "outside"]
      <4>1. client' = [client EXCEPT ![c] = new] /\ new = Idle
        BY <3>4 DEF Push, SlotsInWheel
      <4>. QED
        BY <2>1, <2>3, <4>1 DEF Idle
    <3>5. CASE \E id \in Ids : RemovePriod(c, id)
      BY <2>3, <3>5 DEF RemovePriod
    <3>. QED
      BY <3>1, <3>2, <3>3, <3>4, <3>5
  <2>5. CASE Start \/ WorkerStep \/ Tick \/ UNCHANGED vars
    BY <2>3, <2>5 DEF WorkerStep, Start, Wake, ScanDue, ScanNotDue, ScanEnd, Work, Increment, Wrap, Tick, vars
  <2>. QED
    BY <2>4, <2>5 DEF Next
<1>. QED
  BY <1>1, <1>2, Invariance, PTL DEF Spec

(* No timer runs before its time (timer.cpp:211-243), whatever threads add *)
(* and remove meanwhile.                                                   *)
THEOREM NeverEarlyHolds == Spec => NeverEarly
<1>1. IInv /\ [Next]_vars =>
        [\A t \in Timers :
           timer[t].state = "alive" /\ timer'[t].state = "deleted" => timer[t].timePoint <= now]_vars
  BY StepNotEarly
<1>. QED
  BY <1>1, Invariance, PTL DEF Spec, NeverEarly

-----------------------------------------------------------------------------
(***************************************************************************)
(* Where the timers are.                                                   *)
(***************************************************************************)
InHand(t)  == \E c \in Clients : client[c].timer = t
InWheel(t) == \E s \in Slots : \E i \in 1..Len(timeWheel[s]) : timeWheel[s][i] = t
InBatch(t) == \E i \in 1..Len(timeOutVec) : timeOutVec[i] = t

OneHand ==
  \A c, d \in Clients : client[c].timer = client[d].timer /\ client[c].timer # NoTimer => c = d

OneSpot ==
  \A r, s \in Slots : \A i \in 1..Len(timeWheel[r]), j \in 1..Len(timeWheel[s]) :
    timeWheel[r][i] = timeWheel[s][j] => r = s /\ i = j

OneTurn ==
  \A i, j \in 1..Len(timeOutVec) :
    timeOutVec[i] = timeOutVec[j] /\ ~timer[timeOutVec[i]].repeatable => i = j

(* No timer is in two places: none is pushed twice, and a one-shot timer   *)
(* that was collected left the wheel.                                      *)
Apart ==
  \A t \in Timers :
    /\ InHand(t) => ~InWheel(t)
    /\ InBatch(t) /\ ~timer[t].repeatable => ~InHand(t) /\ ~InWheel(t)

(* What a list points to is alive, and a periodic timer stays alive.       *)
Living ==
  \A t \in Timers :
    InHand(t) \/ InWheel(t) \/ InBatch(t) \/ timer[t].repeatable => timer[t].state = "alive"

(* Nothing alive is lost.                                                  *)
Kept ==
  \A t \in Timers : timer[t].state = "alive" =>
    InHand(t) \/ InWheel(t) \/ (InBatch(t) /\ ~timer[t].repeatable)

(* Idle clients hold nothing, and between two scans nothing is collected.   *)
EmptyHands ==
  /\ \A c \in Clients : client[c].pc = "idle" <=> client[c].timer = NoTimer
  /\ pc \in {"stopped", "wait", "wrap"} => timeOutVec = <<>>

PlacesInv == OneHand /\ OneSpot /\ OneTurn /\ Apart /\ Living /\ Kept /\ EmptyHands

-----------------------------------------------------------------------------
(* The elements of the lists are timers.                                   *)
LEMMA ListElements ==
  ASSUME IInv
  PROVE  /\ \A s \in Slots : /\ timeWheel[s] \in Seq(Timers) /\ Len(timeWheel[s]) \in Nat
                             /\ \A i \in 1..Len(timeWheel[s]) : timeWheel[s][i] \in Timers
         /\ timeOutVec \in Seq(Timers) /\ Len(timeOutVec) \in Nat
         /\ \A i \in 1..Len(timeOutVec) : timeOutVec[i] \in Timers
<1>1. \A s \in Slots : timeWheel[s] \in Seq(Timers)
  BY DEF IInv, TypeOK
<1>2. timeOutVec \in Seq(Timers)
  BY DEF IInv, TypeOK
<1>3. ASSUME NEW q \in Seq(Timers)
      PROVE  Len(q) \in Nat /\ \A i \in 1..Len(q) : q[i] \in Timers
  BY LenProperties, ElementOfSeq
<1>. QED
  BY <1>1, <1>2, <1>3

(* push_back adds one place, in one slot.                                  *)
LEMMA WheelPushed ==
  ASSUME IInv, NEW s \in Slots, NEW t \in Timers,
         timeWheel' = [r \in Slots |-> IF r = s THEN Append(timeWheel[r], t) ELSE timeWheel[r]]
  PROVE  /\ \A u \in Timers : InWheel(u)' <=> InWheel(u) \/ u = t
         /\ OneSpot /\ ~InWheel(t) => OneSpot'
<1>. DEFINE q == timeWheel[s]
            p == Append(q, t)
<1>1. q \in Seq(Timers) /\ timeWheel' = [r \in Slots |-> IF r = s THEN p ELSE timeWheel[r]]
  BY DEF IInv, TypeOK
<1>2. /\ Len(p) = Len(q) + 1 /\ Len(q) \in Nat
      /\ \A i \in 1..Len(q) : p[i] = q[i]
      /\ p[Len(q) + 1] = t
  BY <1>1, AppendProperties, LenProperties
<1>. HIDE DEF p
<1>3. timeWheel'[s] = p /\ \A r \in Slots : r # s => timeWheel'[r] = timeWheel[r]
  BY <1>1
<1>4. \A r \in Slots : Len(timeWheel[r]) \in Nat
  BY ListElements
<1>5. \A r \in Slots : \A i \in 1..Len(timeWheel[r]) :
        i \in 1..Len(timeWheel'[r]) /\ timeWheel'[r][i] = timeWheel[r][i]
  BY <1>2, <1>3, <1>4
<1>6. \A r \in Slots : \A i \in 1..Len(timeWheel'[r]) :
        \/ r = s /\ i = Len(q) + 1 /\ timeWheel'[r][i] = t
        \/ i \in 1..Len(timeWheel[r]) /\ timeWheel'[r][i] = timeWheel[r][i]
  BY <1>2, <1>3
<1>7. Len(q) + 1 \in 1..Len(timeWheel'[s]) /\ timeWheel'[s][Len(q) + 1] = t
  BY <1>2, <1>3
<1>. HIDE DEF q
<1>8. ASSUME NEW u \in Timers PROVE InWheel(u)' <=> InWheel(u) \/ u = t
  <2>1. InWheel(u) => InWheel(u)'
    BY <1>5 DEF InWheel
  <2>2. u = t => InWheel(u)'
    BY <1>7 DEF InWheel
  <2>3. InWheel(u)' => InWheel(u) \/ u = t
    BY <1>6 DEF InWheel
  <2>. QED
    BY <2>1, <2>2, <2>3
<1>9. ASSUME OneSpot, ~InWheel(t) PROVE OneSpot'
  <2>1. ASSUME NEW r \in Slots, NEW v \in Slots,
               NEW i \in 1..Len(timeWheel'[r]), NEW j \in 1..Len(timeWheel'[v]),
               timeWheel'[r][i] = timeWheel'[v][j]
        PROVE  r = v /\ i = j
    <3>1. CASE r = s /\ i = Len(q) + 1 /\ timeWheel'[r][i] = t
      <4>1. ~(j \in 1..Len(timeWheel[v]) /\ timeWheel'[v][j] = timeWheel[v][j])
        BY <1>9, <2>1, <3>1 DEF InWheel
      <4>. QED
        BY <1>6, <3>1, <4>1
    <3>2. CASE i \in 1..Len(timeWheel[r]) /\ timeWheel'[r][i] = timeWheel[r][i]
      <4>1. timeWheel'[r][i] # t
        BY <1>9, <3>2 DEF InWheel
      <4>2. j \in 1..Len(timeWheel[v]) /\ timeWheel'[v][j] = timeWheel[v][j]
        BY <1>6, <2>1, <4>1
      <4>. QED
        BY <1>9, <2>1, <3>2, <4>2 DEF OneSpot
    <3>. QED
      BY <1>6, <3>1, <3>2
  <2>. QED
    BY <2>1 DEF OneSpot
<1>. QED
  BY <1>8, <1>9

(* erase takes one place away.                                             *)
LEMMA WheelErased ==
  ASSUME IInv, OneSpot, NEW s \in Slots, NEW i \in 1..Len(timeWheel[s]),
         timeWheel' = [timeWheel EXCEPT ![s] = RemoveAt(@, i)]
  PROVE  /\ \A u \in Timers : InWheel(u)' <=> InWheel(u) /\ u # timeWheel[s][i]
         /\ OneSpot'
<1>. DEFINE q == timeWheel[s]
            p == RemoveAt(q, i)
            Old(j) == IF j < i THEN j ELSE j + 1
<1>1. q \in Seq(Timers) /\ timeWheel \in [Slots -> Seq(Timers)] /\ timeWheel' = [timeWheel EXCEPT ![s] = p]
      /\ i \in 1..Len(q) /\ Len(q) \in Nat
  BY LenProperties DEF IInv, TypeOK
<1>2. /\ Len(p) = Len(q) - 1
      /\ \A j \in 1..(Len(q) - 1) : p[j] = q[Old(j)]
  BY <1>1, RemoveAtShape
<1>. HIDE DEF p
<1>3. timeWheel'[s] = p /\ \A r \in Slots : r # s => timeWheel'[r] = timeWheel[r]
  BY <1>1
<1>4. /\ \A j \in 1..(Len(q) - 1) : Old(j) \in 1..Len(q) /\ Old(j) # i
      /\ \A j, k \in 1..(Len(q) - 1) : Old(j) = Old(k) => j = k
      /\ \A k \in 1..Len(q) : k # i => \E j \in 1..(Len(q) - 1) : k = Old(j)
  <2>1. \A j \in 1..(Len(q) - 1) : Old(j) \in 1..Len(q) /\ Old(j) # i
    BY <1>1
  <2>2. \A j, k \in 1..(Len(q) - 1) : Old(j) = Old(k) => j = k
    BY <1>1
  <2>3. ASSUME NEW k \in 1..Len(q), k # i
        PROVE  \E j \in 1..(Len(q) - 1) : k = Old(j)
    <3>1. CASE k < i
      <4>1. k \in 1..(Len(q) - 1) /\ k = Old(k)
        BY <1>1, <3>1
      <4>. QED
        BY <4>1
    <3>2. CASE k > i
      <4>1. k - 1 \in 1..(Len(q) - 1) /\ k = Old(k - 1)
        BY <1>1, <3>2
      <4>. QED
        BY <4>1
    <3>. QED
      BY <1>1, <2>3, <3>1, <3>2
  <2>. QED
    BY <2>1, <2>2, <2>3
<1>. HIDE DEF Old
<1>5. \A j \in 1..Len(timeWheel'[s]) :
        /\ j \in 1..(Len(q) - 1) /\ Old(j) \in 1..Len(timeWheel[s]) /\ Old(j) # i
        /\ timeWheel'[s][j] = timeWheel[s][Old(j)]
  BY <1>2, <1>3, <1>4
<1>6. OneSpot'
  <2>. SUFFICES ASSUME NEW r1 \in Slots, NEW r2 \in Slots,
                       NEW j \in 1..Len(timeWheel'[r1]), NEW k \in 1..Len(timeWheel'[r2]),
                       timeWheel'[r1][j] = timeWheel'[r2][k]
                PROVE  r1 = r2 /\ j = k
    BY DEF OneSpot
  <2>0. \A r \in Slots : \A m \in 1..Len(timeWheel[s]), n \in 1..Len(timeWheel[r]) :
          timeWheel[s][m] = timeWheel[r][n] => s = r /\ m = n
    BY DEF OneSpot
  <2>1. CASE r1 = s /\ r2 = s
    <3>1. /\ Old(j) \in 1..Len(timeWheel[s]) /\ timeWheel'[r1][j] = timeWheel[s][Old(j)]
          /\ Old(k) \in 1..Len(timeWheel[s]) /\ timeWheel'[r2][k] = timeWheel[s][Old(k)]
          /\ j \in 1..(Len(q) - 1) /\ k \in 1..(Len(q) - 1)
      BY <1>5, <2>1
    <3>2. Old(j) = Old(k)
      BY <2>0, <3>1
    <3>. QED
      BY <1>4, <2>1, <3>1, <3>2
  <2>2. CASE r1 = s /\ r2 # s
    <3>1. Old(j) \in 1..Len(timeWheel[s]) /\ timeWheel'[r1][j] = timeWheel[s][Old(j)]
      BY <1>5, <2>2
    <3>2. k \in 1..Len(timeWheel[r2]) /\ timeWheel'[r2][k] = timeWheel[r2][k]
      BY <1>3, <2>2
    <3>. QED
      BY <2>0, <2>2, <3>1, <3>2
  <2>3. CASE r1 # s /\ r2 = s
    <3>1. Old(k) \in 1..Len(timeWheel[s]) /\ timeWheel'[r2][k] = timeWheel[s][Old(k)]
      BY <1>5, <2>3
    <3>2. j \in 1..Len(timeWheel[r1]) /\ timeWheel'[r1][j] = timeWheel[r1][j]
      BY <1>3, <2>3
    <3>. QED
      BY <2>0, <2>3, <3>1, <3>2
  <2>4. CASE r1 # s /\ r2 # s
    BY <1>3, <2>4 DEF OneSpot
  <2>. QED
    BY <2>1, <2>2, <2>3, <2>4
<1>7. ASSUME NEW u \in Timers, InWheel(u)'
      PROVE  InWheel(u) /\ u # timeWheel[s][i]
  <2>1. PICK r \in Slots : \E j \in 1..Len(timeWheel'[r]) : timeWheel'[r][j] = u
    BY <1>7 DEF InWheel
  <2>2. CASE r = s
    <3>1. PICK j \in 1..Len(timeWheel'[s]) : timeWheel'[s][j] = u
      BY <2>1, <2>2
    <3>2. Old(j) \in 1..Len(timeWheel[s]) /\ Old(j) # i /\ timeWheel[s][Old(j)] = u
      BY <1>5, <3>1
    <3>. QED
      BY <3>2 DEF OneSpot, InWheel
  <2>3. CASE r # s
    BY <1>3, <2>1, <2>3 DEF OneSpot, InWheel
  <2>. QED
    BY <2>2, <2>3
<1>8. ASSUME NEW u \in Timers, InWheel(u), u # timeWheel[s][i]
      PROVE  InWheel(u)'
  <2>1. PICK r \in Slots : \E k \in 1..Len(timeWheel[r]) : timeWheel[r][k] = u
    BY <1>8 DEF InWheel
  <2>2. CASE r = s
    <3>1. PICK j \in 1..Len(q) : q[j] = u
      BY <2>1, <2>2
    <3>2. PICK k \in 1..(Len(q) - 1) : j = Old(k)
      BY <1>4, <1>8, <3>1
    <3>3. k \in 1..Len(timeWheel'[s]) /\ timeWheel'[s][k] = u
      BY <1>2, <1>3, <3>1, <3>2
    <3>. QED
      BY <3>3 DEF InWheel
  <2>3. CASE r # s
    BY <1>3, <2>1, <2>3 DEF InWheel
  <2>. QED
    BY <2>2, <2>3
<1>. QED
  BY <1>6, <1>7, <1>8

(* An append to timeOutVec adds one place, and the front leaves it first.  *)
LEMMA BatchAppended ==
  ASSUME IInv, NEW t \in Timers, timeOutVec' = Append(timeOutVec, t), UNCHANGED timer
  PROVE  /\ \A u \in Timers : InBatch(u)' <=> InBatch(u) \/ u = t
         /\ OneTurn /\ (InBatch(t) => timer[t].repeatable) => OneTurn'
<1>1. /\ Len(timeOutVec') = Len(timeOutVec) + 1 /\ Len(timeOutVec) \in Nat
      /\ \A i \in 1..Len(timeOutVec) : timeOutVec'[i] = timeOutVec[i]
      /\ timeOutVec'[Len(timeOutVec) + 1] = t
  BY ListElements, AppendProperties
<1>2. \A i \in 1..Len(timeOutVec') : i \in 1..Len(timeOutVec) \/ i = Len(timeOutVec) + 1
  BY <1>1
<1>3. \A i \in 1..Len(timeOutVec) : i \in 1..Len(timeOutVec')
  BY <1>1
<1>4. Len(timeOutVec) + 1 \in 1..Len(timeOutVec')
  BY <1>1
<1>5. ASSUME NEW u \in Timers
      PROVE  InBatch(u)' <=> InBatch(u) \/ u = t
  <2>1. InBatch(u) => InBatch(u)'
    BY <1>1, <1>3 DEF InBatch
  <2>2. u = t => InBatch(u)'
    BY <1>1, <1>4 DEF InBatch
  <2>3. InBatch(u)' => InBatch(u) \/ u = t
    BY <1>1, <1>2 DEF InBatch
  <2>. QED
    BY <2>1, <2>2, <2>3
<1>6. ASSUME OneTurn, InBatch(t) => timer[t].repeatable
      PROVE  OneTurn'
  <2>. SUFFICES ASSUME NEW i \in 1..Len(timeOutVec'), NEW j \in 1..Len(timeOutVec'),
                       timeOutVec'[i] = timeOutVec'[j], ~timer[timeOutVec'[i]].repeatable
                PROVE  i = j
    BY DEF OneTurn
  <2>1. CASE i \in 1..Len(timeOutVec) /\ j \in 1..Len(timeOutVec)
    BY <1>1, <1>6, <2>1 DEF OneTurn
  <2>2. CASE i \in 1..Len(timeOutVec) /\ j = Len(timeOutVec) + 1
    BY <1>1, <1>6, <2>2 DEF InBatch
  <2>3. CASE i = Len(timeOutVec) + 1 /\ j \in 1..Len(timeOutVec)
    BY <1>1, <1>6, <2>3 DEF InBatch
  <2>. QED
    BY <1>2, <2>1, <2>2, <2>3
<1>. QED
  BY <1>5, <1>6

LEMMA BatchShortened ==
  ASSUME IInv, OneTurn, timeOutVec # <<>>, timeOutVec' = Tail(timeOutVec),
         \A u \in Timers : timer'[u].repeatable = timer[u].repeatable
  PROVE  /\ Head(timeOutVec) \in Timers /\ InBatch(Head(timeOutVec))
         /\ \A u \in Timers : InBatch(u)' => InBatch(u)
         /\ \A u \in Timers : InBatch(u) /\ u # Head(timeOutVec) => InBatch(u)'
         /\ \A u \in Timers : InBatch(u)' /\ ~timer[u].repeatable => u # Head(timeOutVec)
         /\ OneTurn'
<1>. DEFINE n == Len(timeOutVec)
            t == Head(timeOutVec)
<1>1. timeOutVec \in Seq(Timers) /\ n \in Nat /\ \A i \in 1..n : timeOutVec[i] \in Timers
  BY ListElements
<1>2. /\ Len(timeOutVec') = n - 1
      /\ \A i \in 1..Len(timeOutVec') : timeOutVec'[i] = timeOutVec[i + 1]
      /\ n # 0 /\ t = timeOutVec[1]
  BY <1>1, HeadTailProperties, EmptySeq
<1>3. 1 \in 1..n /\ t \in Timers
  BY <1>1, <1>2
<1>. HIDE DEF t
<1>4. \A i \in 1..Len(timeOutVec') :
        i + 1 \in 1..n /\ i + 1 # 1 /\ timeOutVec'[i] = timeOutVec[i + 1] /\ timeOutVec'[i] \in Timers
  BY <1>1, <1>2
<1>5. \A i \in 1..n : i # 1 => i - 1 \in 1..Len(timeOutVec') /\ timeOutVec'[i - 1] = timeOutVec[i]
  <2>1. ASSUME NEW i \in 1..n, i # 1
        PROVE  i - 1 \in 1..Len(timeOutVec') /\ (i - 1) + 1 = i
    BY <1>1, <1>2, <2>1
  <2>. QED
    BY <1>2, <2>1
<1>6. OneTurn'
  <2>. SUFFICES ASSUME NEW i \in 1..Len(timeOutVec'), NEW j \in 1..Len(timeOutVec'),
                       timeOutVec'[i] = timeOutVec'[j], ~timer'[timeOutVec'[i]].repeatable
                PROVE  i = j
    BY DEF OneTurn
  <2>1. i + 1 \in 1..n /\ j + 1 \in 1..n
        /\ timeOutVec[i + 1] = timeOutVec[j + 1] /\ ~timer[timeOutVec[i + 1]].repeatable
    BY <1>4
  <2>2. i + 1 = j + 1
    BY <2>1 DEF OneTurn
  <2>. QED
    BY <1>2, <1>1, <2>2
<1>7. ASSUME NEW u \in Timers, InBatch(u)'
      PROVE  InBatch(u) /\ (~timer[u].repeatable => u # t)
  <2>1. PICK i \in 1..Len(timeOutVec') : timeOutVec'[i] = u
    BY <1>7 DEF InBatch
  <2>2. i + 1 \in 1..n /\ i + 1 # 1 /\ timeOutVec[i + 1] = u
    BY <1>4, <2>1
  <2>. QED
    BY <1>2, <1>3, <2>2 DEF InBatch, OneTurn
<1>8. ASSUME NEW u \in Timers, InBatch(u), u # t
      PROVE  InBatch(u)'
  <2>1. PICK i \in 1..n : timeOutVec[i] = u
    BY <1>8 DEF InBatch
  <2>2. i - 1 \in 1..Len(timeOutVec') /\ timeOutVec'[i - 1] = u
    BY <1>2, <1>5, <1>8, <2>1
  <2>. QED
    BY <2>2 DEF InBatch
<1>9. InBatch(t)
  BY <1>2, <1>3 DEF InBatch
<1>. QED
  BY <1>3, <1>6, <1>7, <1>8, <1>9 DEF t

(* A client that was idle takes a timer, and one that pushed has none.     *)
LEMMA HandFilled ==
  ASSUME IInv, OneHand, EmptyHands, NEW c \in Clients, client[c].pc = "idle",
         NEW t \in Timers, ~InHand(t), NEW p, NEW s, p # "idle",
         client' = [client EXCEPT ![c] = [pc |-> p, timer |-> t, slot |-> s]]
  PROVE  /\ \A u \in Timers : InHand(u)' <=> InHand(u) \/ u = t
         /\ OneHand'
         /\ \A d \in Clients : client'[d].pc = "idle" <=> client'[d].timer = NoTimer
<1>1. /\ client'[c].pc = p /\ client'[c].timer = t
      /\ \A d \in Clients : d # c => client'[d] = client[d]
  BY DEF IInv, TypeOK
<1>2. t # NoTimer /\ client[c].timer = NoTimer /\ \A u \in Timers : u # NoTimer
  BY TimerAssumption DEF EmptyHands
<1>3. OneHand'
  BY <1>1, <1>2 DEF OneHand, InHand
<1>4. \A u \in Timers : InHand(u)' <=> InHand(u) \/ u = t
  BY <1>1, <1>2 DEF InHand
<1>5. \A d \in Clients : client'[d].pc = "idle" <=> client'[d].timer = NoTimer
  BY <1>1, <1>2 DEF EmptyHands
<1>. QED
  BY <1>3, <1>4, <1>5

LEMMA HandEmptied ==
  ASSUME IInv, OneHand, EmptyHands, NEW c \in Clients, client[c].pc # "idle",
         client' = [client EXCEPT ![c] = Idle]
  PROVE  /\ \A u \in Timers : InHand(u)' <=> InHand(u) /\ u # client[c].timer
         /\ InHand(client[c].timer)
         /\ OneHand'
         /\ \A d \in Clients : client'[d].pc = "idle" <=> client'[d].timer = NoTimer
<1>1. /\ client'[c].pc = "idle" /\ client'[c].timer = NoTimer
      /\ \A d \in Clients : d # c => client'[d] = client[d]
  BY DEF IInv, TypeOK, Idle
<1>2. client[c].timer # NoTimer /\ \A u \in Timers : u # NoTimer
  BY TimerAssumption DEF EmptyHands
<1>3. OneHand'
  BY <1>1, <1>2 DEF OneHand, InHand
<1>4. \A u \in Timers : InHand(u)' <=> InHand(u) /\ u # client[c].timer
  BY <1>1, <1>2 DEF InHand, OneHand
<1>5. \A d \in Clients : client'[d].pc = "idle" <=> client'[d].timer = NoTimer
  BY <1>1, <1>2 DEF EmptyHands
<1>6. InHand(client[c].timer)
  BY DEF InHand
<1>. QED
  BY <1>3, <1>4, <1>5, <1>6

-----------------------------------------------------------------------------
(* No timer is anywhere.                                                   *)
LEMMA InitPlaces == Init => PlacesInv
<1>. SUFFICES ASSUME Init PROVE PlacesInv
  OBVIOUS
<1>1. Len(<<>>) = 0
  BY EmptySeq
<1>2. /\ \A c \in Clients : client[c].timer = NoTimer /\ client[c].pc = "idle"
      /\ \A s \in Slots : Len(timeWheel[s]) = 0
      /\ Len(timeOutVec) = 0
      /\ \A t \in Timers : timer[t].state = "unused" /\ timer[t].repeatable = FALSE
  BY <1>1 DEF Init, Idle, Unused
<1>3. \A t \in Timers : ~InHand(t) /\ ~InWheel(t) /\ ~InBatch(t)
  BY <1>2, TimerAssumption DEF InHand, InWheel, InBatch
<1>4. OneHand /\ OneSpot /\ OneTurn
  BY <1>2 DEF OneHand, OneSpot, OneTurn
<1>5. Apart /\ Living /\ Kept
  BY <1>2, <1>3 DEF Apart, Living, Kept
<1>6. EmptyHands
  BY <1>2 DEF EmptyHands, Init
<1>. QED
  BY <1>4, <1>5, <1>6 DEF PlacesInv

(* A constructed timer is in the hands of the client that made it, and     *)
(* nowhere else.                                                           *)
LEMMA MadePlaces ==
  ASSUME IInv, PlacesInv, NEW c \in Clients, NEW t \in Timers, NEW p, NEW s, NEW obj,
         client[c].pc = "idle", timer[t].state = "unused", obj.state = "alive", p # "idle",
         client' = [client EXCEPT ![c] = [pc |-> p, timer |-> t, slot |-> s]],
         timer' = [timer EXCEPT ![t] = obj],
         UNCHANGED <<timeWheel, workerVars>>
  PROVE  PlacesInv'
<1>1. ~InHand(t) /\ ~InWheel(t) /\ ~InBatch(t)
  BY DEF PlacesInv, Living
<1>2. /\ \A u \in Timers : InHand(u)' <=> InHand(u) \/ u = t
      /\ OneHand'
      /\ \A d \in Clients : client'[d].pc = "idle" <=> client'[d].timer = NoTimer
  BY <1>1, HandFilled DEF PlacesInv
<1>3. /\ timer'[t] = obj /\ \A u \in Timers : u # t => timer'[u] = timer[u]
      /\ \A u \in Timers : InWheel(u)' <=> InWheel(u)
      /\ \A u \in Timers : InBatch(u)' <=> InBatch(u)
  BY DEF IInv, TypeOK, workerVars, InWheel, InBatch
<1>4. OneSpot'
  BY DEF PlacesInv, OneSpot
<1>5. OneTurn'
  <2>1. \A i \in 1..Len(timeOutVec) : timeOutVec[i] \in Timers /\ timeOutVec[i] # t
    BY <1>1, ListElements DEF InBatch
  <2>. QED
    BY <1>3, <2>1 DEF PlacesInv, OneTurn, workerVars
<1>6. Apart'
  BY <1>1, <1>2, <1>3 DEF PlacesInv, Apart
<1>7. Living'
  BY <1>1, <1>2, <1>3 DEF PlacesInv, Living
<1>8. Kept'
  BY <1>1, <1>2, <1>3 DEF PlacesInv, Kept
<1>9. EmptyHands'
  BY <1>2 DEF PlacesInv, EmptyHands, workerVars
<1>. QED
  BY <1>2, <1>4, <1>5, <1>6, <1>7, <1>8, <1>9 DEF PlacesInv

(* push_back moves a timer from the hand of its client to the wheel.       *)
LEMMA PushPlaces ==
  ASSUME IInv, PlacesInv, NEW c \in Clients, Push(c), client[c].slot \in Slots
  PROVE  PlacesInv'
<1>. DEFINE t == client[c].timer
            s == client[c].slot
<1>1. t \in Timers /\ s \in Slots /\ client[c].pc # "idle"
  BY DEF Push, IInv, PointersKnown, TypeOK, ClientState
<1>2. /\ timeWheel' = [r \in Slots |-> IF r = s THEN Append(timeWheel[r], t) ELSE timeWheel[r]]
      /\ client' = [client EXCEPT ![c] = Idle]
      /\ UNCHANGED <<timer, workerVars>>
  BY DEF Push
<1>3. /\ \A u \in Timers : InHand(u)' <=> InHand(u) /\ u # t
      /\ InHand(t) /\ OneHand'
      /\ \A d \in Clients : client'[d].pc = "idle" <=> client'[d].timer = NoTimer
  BY <1>1, <1>2, HandEmptied DEF PlacesInv
<1>4. ~InWheel(t) /\ (InBatch(t) => timer[t].repeatable)
  BY <1>1, <1>3 DEF PlacesInv, Apart
<1>. HIDE DEF t, s
<1>5. (\A u \in Timers : InWheel(u)' <=> InWheel(u) \/ u = t) /\ OneSpot'
  BY <1>1, <1>2, <1>4, WheelPushed DEF PlacesInv
<1>6. \A u \in Timers : InBatch(u)' <=> InBatch(u)
  BY <1>2 DEF InBatch, workerVars
<1>7. OneTurn'
  BY <1>2 DEF PlacesInv, OneTurn, workerVars
<1>8. Apart'
  BY <1>1, <1>2, <1>3, <1>4, <1>5, <1>6 DEF PlacesInv, Apart
<1>9. Living'
  BY <1>1, <1>2, <1>3, <1>5, <1>6 DEF PlacesInv, Living
<1>10. Kept'
  BY <1>1, <1>2, <1>3, <1>5, <1>6 DEF PlacesInv, Kept
<1>11. EmptyHands'
  BY <1>2, <1>3 DEF PlacesInv, EmptyHands, workerVars
<1>. QED
  BY <1>3, <1>5, <1>7, <1>8, <1>9, <1>10, <1>11 DEF PlacesInv

(* The steps that move no timer.                                           *)
LEMMA StillPlaces ==
  ASSUME IInv, PlacesInv, UNCHANGED <<timer, timeWheel, timeOutVec>>,
         \A c \in Clients : /\ client'[c].timer = client[c].timer
                            /\ client'[c].pc = "idle" <=> client[c].pc = "idle",
         pc' \in {"stopped", "wait", "wrap"} => timeOutVec = <<>>
  PROVE  PlacesInv'
<1>1. \A t \in Timers : /\ InHand(t)' <=> InHand(t)
                        /\ InWheel(t)' <=> InWheel(t)
                        /\ InBatch(t)' <=> InBatch(t)
  BY DEF InHand, InWheel, InBatch
<1>2. OneHand' /\ OneSpot' /\ OneTurn'
  BY DEF PlacesInv, OneHand, OneSpot, OneTurn
<1>3. Apart' /\ Living' /\ Kept'
  BY <1>1 DEF PlacesInv, Apart, Living, Kept
<1>4. EmptyHands'
  BY DEF PlacesInv, EmptyHands
<1>. QED
  BY <1>2, <1>3, <1>4 DEF PlacesInv

(* The scan takes a due one-shot timer out of the list as it collects it;  *)
(* a periodic one stays.                                                   *)
LEMMA ScanPlaces ==
  ASSUME IInv, PlacesInv, ScanDue
  PROVE  PlacesInv'
<1>0. /\ iter \in 1..Len(timeWheel[wheelIndex]) /\ wheelIndex \in Slots
      /\ List = timeWheel[wheelIndex] /\ List[iter] \in Timers
  BY ListType, WheelIndexRead DEF ScanDue, IInv, TypeOK, List
<1>. PICK t \in Timers : t = List[iter]
  BY <1>0
<1>1. /\ iter \in 1..Len(timeWheel[wheelIndex]) /\ wheelIndex \in Slots
      /\ t = timeWheel[wheelIndex][iter] /\ t = List[iter]
  BY <1>0
<1>2. /\ timeOutVec' = Append(timeOutVec, t)
      /\ UNCHANGED <<timer, client, pc>> /\ pc = "scan"
      /\ \/ timer[t].repeatable /\ UNCHANGED timeWheel
         \/ /\ ~timer[t].repeatable
            /\ timeWheel' = [timeWheel EXCEPT ![wheelIndex] = RemoveAt(@, iter)]
  BY <1>1 DEF ScanDue
<1>3. InWheel(t)
  BY <1>1 DEF InWheel
<1>4. ~InHand(t) /\ (InBatch(t) => timer[t].repeatable) /\ timer[t].state = "alive"
  BY <1>1, <1>3 DEF PlacesInv, Apart, Living
<1>5. (\A u \in Timers : InBatch(u)' <=> InBatch(u) \/ u = t) /\ OneTurn'
  BY <1>1, <1>2, <1>4, BatchAppended DEF PlacesInv
<1>6. (\A u \in Timers : InHand(u)' <=> InHand(u)) /\ OneHand'
  BY <1>2 DEF PlacesInv, InHand, OneHand
<1>7. /\ \A u \in Timers : u # t => (InWheel(u)' <=> InWheel(u))
      /\ InWheel(t)' <=> timer[t].repeatable
      /\ OneSpot'
  <2>1. CASE timer[t].repeatable /\ UNCHANGED timeWheel
    BY <1>3, <2>1 DEF PlacesInv, OneSpot, InWheel
  <2>2. CASE /\ ~timer[t].repeatable
             /\ timeWheel' = [timeWheel EXCEPT ![wheelIndex] = RemoveAt(@, iter)]
    BY <1>1, <2>2, WheelErased DEF PlacesInv
  <2>. QED
    BY <1>2, <2>1, <2>2
<1>8. Apart'
  BY <1>1, <1>2, <1>4, <1>5, <1>6, <1>7 DEF PlacesInv, Apart
<1>9. Living'
  BY <1>1, <1>2, <1>4, <1>5, <1>6, <1>7 DEF PlacesInv, Living
<1>10. Kept'
  BY <1>1, <1>2, <1>4, <1>5, <1>6, <1>7 DEF PlacesInv, Kept
<1>11. EmptyHands'
  BY <1>2 DEF PlacesInv, EmptyHands
<1>. QED
  BY <1>5, <1>6, <1>7, <1>8, <1>9, <1>10, <1>11 DEF PlacesInv

(* work() deletes a one-shot timer as it leaves timeOutVec, its only place. *)
LEMMA WorkPlaces ==
  ASSUME IInv, PlacesInv, Work
  PROVE  PlacesInv'
<1>. DEFINE t == Head(timeOutVec)
<1>1. /\ timeOutVec # <<>> /\ timeOutVec' = Tail(timeOutVec)
      /\ timer' = [timer EXCEPT ![t] = Worked(t)]
      /\ UNCHANGED <<timeWheel, client, pc>> /\ pc = "run"
  BY DEF Work
<1>2. t \in Timers
  BY WorkKeeps
<1>3. /\ \A u \in Timers : timer'[u].repeatable = timer[u].repeatable
      /\ \A u \in Timers : u # t => timer'[u] = timer[u]
      /\ timer'[t].state = IF timer[t].repeatable THEN timer[t].state ELSE "deleted"
  <2>1. timer \in [Timers -> TimerObject] /\ timer[t] \in TimerObject
    BY <1>2 DEF IInv, TypeOK
  <2>2. /\ Worked(t).repeatable = timer[t].repeatable
        /\ Worked(t).state = IF timer[t].repeatable THEN timer[t].state ELSE "deleted"
    BY <2>1 DEF Worked, TimerObject
  <2>3. timer'[t] = Worked(t) /\ \A u \in Timers : u # t => timer'[u] = timer[u]
    BY <1>1, <1>2, <2>1
  <2>. QED
    BY <2>2, <2>3
<1>. HIDE DEF t
<1>4. /\ InBatch(t)
      /\ \A u \in Timers : InBatch(u)' => InBatch(u)
      /\ \A u \in Timers : InBatch(u) /\ u # t => InBatch(u)'
      /\ \A u \in Timers : InBatch(u)' /\ ~timer[u].repeatable => u # t
      /\ OneTurn'
  BY <1>1, <1>3, BatchShortened DEF PlacesInv, t
<1>5. /\ \A u \in Timers : InHand(u)' <=> InHand(u)
      /\ \A u \in Timers : InWheel(u)' <=> InWheel(u)
      /\ OneHand' /\ OneSpot'
  BY <1>1 DEF PlacesInv, InHand, InWheel, OneHand, OneSpot
<1>6. timer[t].state = "alive" /\ (~timer[t].repeatable => ~InHand(t) /\ ~InWheel(t))
  BY <1>2, <1>4 DEF PlacesInv, Apart, Living
<1>7. Apart'
  BY <1>3, <1>4, <1>5 DEF PlacesInv, Apart
<1>8. Living'
  BY <1>2, <1>3, <1>4, <1>5, <1>6 DEF PlacesInv, Living
<1>9. Kept'
  BY <1>2, <1>3, <1>4, <1>5, <1>6 DEF PlacesInv, Kept
<1>10. EmptyHands'
  BY <1>1 DEF PlacesInv, EmptyHands
<1>. QED
  BY <1>4, <1>5, <1>7, <1>8, <1>9, <1>10 DEF PlacesInv

(* Every step keeps every timer in its place.                              *)
LEMMA StepPlaces == IInv /\ PlacesInv /\ [Next]_vars => PlacesInv'
<1>. SUFFICES ASSUME IInv, PlacesInv, [Next]_vars PROVE PlacesInv'
  OBVIOUS
<1>1. ASSUME NEW c \in Clients, NEW t \in Timers, NEW time \in Delays, AddOnce(c, t, time)
      PROVE  PlacesInv'
  <2>. DEFINE obj == NewTimer(time, FALSE, NoId)
  <2>1. /\ client[c].pc = "idle" /\ timer[t].state = "unused" /\ obj.state = "alive"
        /\ client' = [client EXCEPT ![c] = [pc |-> "push", timer |-> t, slot |-> SlotFor(time)]]
        /\ timer' = [timer EXCEPT ![t] = obj]
        /\ UNCHANGED <<timeWheel, workerVars>>
    BY <1>1 DEF AddOnce, NewTimer
  <2>. HIDE DEF obj
  <2>. QED
    BY <2>1, MadePlaces
<1>2. ASSUME NEW c \in Clients, NEW t \in Timers, NEW time \in Delays, NEW id \in Ids,
             AddPriod(c, t, time, id)
      PROVE  PlacesInv'
  <2>. DEFINE obj == NewTimer(time, TRUE, id)
  <2>1. /\ client[c].pc = "idle" /\ timer[t].state = "unused" /\ obj.state = "alive"
        /\ client' = [client EXCEPT ![c] = [pc |-> "slot", timer |-> t, slot |-> 0]]
        /\ timer' = [timer EXCEPT ![t] = obj]
        /\ UNCHANGED <<timeWheel, workerVars>>
    BY <1>2 DEF AddPriod, NewTimer
  <2>. HIDE DEF obj
  <2>. QED
    BY <2>1, MadePlaces
<1>3. ASSUME NEW c \in Clients, FindSlot(c)
      PROVE  PlacesInv'
  <2>1. \A d \in Clients : /\ client'[d].timer = client[d].timer
                           /\ client'[d].pc = "idle" <=> client[d].pc = "idle"
    BY <1>3 DEF FindSlot, IInv, TypeOK
  <2>. QED
    BY <1>3, <2>1, StillPlaces DEF FindSlot, workerVars, PlacesInv, EmptyHands
<1>4. ASSUME NEW c \in Clients, NEW id \in Ids, RemovePriod(c, id)
      PROVE  PlacesInv'
  BY <1>4, StillPlaces DEF RemovePriod, workerVars, PlacesInv, EmptyHands
<1>5. ASSUME NEW c \in Clients, Push(c)
      PROVE  PlacesInv'
  <2>1. CASE client[c].slot \in Slots
    BY <1>5, <2>1, PushPlaces
  <2>2. CASE client[c].slot \notin Slots
    <3>1. /\ client' = [client EXCEPT ![c] = [client[c] EXCEPT !.pc = "outside"]]
          /\ client[c].pc = "push" /\ client[c] \in ClientState
      BY <1>5, <2>2 DEF Push, IInv, TypeOK
    <3>2. \A d \in Clients : /\ client'[d].timer = client[d].timer
                             /\ client'[d].pc = "idle" <=> client[d].pc = "idle"
      BY <3>1 DEF IInv, TypeOK, ClientState
    <3>3. timeWheel' = [r \in Slots |-> timeWheel[r]]
      BY <1>5, <2>2 DEF Push
    <3>4. timeWheel' = timeWheel
      BY <3>3 DEF IInv, TypeOK
    <3>. QED
      BY <1>5, <3>2, <3>4, StillPlaces DEF Push, workerVars, PlacesInv, EmptyHands
  <2>. QED
    BY <2>1, <2>2
<1>8. CASE ClientStep
  BY <1>1, <1>2, <1>3, <1>4, <1>5, <1>8 DEF ClientStep
<1>6. CASE Wake
  <2>1. timeOutVec = <<>> /\ timeOutVec' = <<>>
    BY <1>6 DEF Wake, PlacesInv, EmptyHands
  <2>. QED
    BY <1>6, <2>1, StillPlaces DEF Wake
<1>7. CASE Start \/ ScanNotDue \/ ScanEnd \/ Increment \/ Wrap \/ Tick \/ UNCHANGED vars
  <2>1. /\ UNCHANGED <<timer, timeWheel, timeOutVec, client>>
        /\ pc' \in {"stopped", "wait", "wrap"} => timeOutVec = <<>>
    BY <1>7 DEF Start, ScanNotDue, ScanEnd, Increment, Wrap, Tick, vars, workerVars, PlacesInv, EmptyHands
  <2>. QED
    BY <2>1, StillPlaces
<1>. QED
  BY <1>6, <1>7, <1>8, ScanPlaces, WorkPlaces DEF Next, WorkerStep

THEOREM PlacesInvariance == Spec => []PlacesInv
  BY InitPlaces, StepPlaces, Invariance, PTL DEF Spec

-----------------------------------------------------------------------------
(* The places as the property counts them.                                 *)
Hands(t) == {c \in Clients : client[c].timer = t}
Spots(t) == UNION {{<<s, i>> : i \in {j \in DOMAIN timeWheel[s] : timeWheel[s][j] = t}} : s \in Slots}
Turns(t) == {i \in DOMAIN timeOutVec : timeOutVec[i] = t}

(* A set of which any two elements are equal has at most one.              *)
LEMMA AtMostOneElement ==
  ASSUME NEW S, \A x, y \in S : x = y
  PROVE  Cardinality(S) = IF S = {} THEN 0 ELSE 1
<1>1. CASE S = {}
  BY <1>1, FS_EmptySet
<1>2. CASE S # {}
  <2>1. PICK x \in S : TRUE
    BY <1>2
  <2>2. S = {x}
    BY <2>1
  <2>. QED
    BY <1>2, <2>2, FS_Singleton
<1>. QED
  BY <1>1, <1>2

LEMMA PlacesCounted ==
  ASSUME IInv, PlacesInv, NEW t \in Timers
  PROVE  /\ Cardinality(Hands(t)) = IF InHand(t) THEN 1 ELSE 0
         /\ Cardinality(Spots(t)) = IF InWheel(t) THEN 1 ELSE 0
         /\ ~InBatch(t) => Times(timeOutVec, t) = 0
         /\ InBatch(t) /\ ~timer[t].repeatable => Times(timeOutVec, t) = 1
<1>1. \A s \in Slots : DOMAIN timeWheel[s] = 1..Len(timeWheel[s])
  BY ListElements, LenProperties
<1>2. DOMAIN timeOutVec = 1..Len(timeOutVec)
  BY ListElements, LenProperties
<1>3. t # NoTimer
  BY TimerAssumption
<1>4. Cardinality(Hands(t)) = IF InHand(t) THEN 1 ELSE 0
  <2>1. \A c, d \in Hands(t) : c = d
    BY <1>3 DEF Hands, PlacesInv, OneHand
  <2>2. Hands(t) = {} <=> ~InHand(t)
    BY DEF Hands, InHand
  <2>. QED
    BY <2>1, <2>2, AtMostOneElement
<1>5. Cardinality(Spots(t)) = IF InWheel(t) THEN 1 ELSE 0
  <2>1. ASSUME NEW x \in Spots(t)
        PROVE  \E s \in Slots : \E i \in 1..Len(timeWheel[s]) : x = <<s, i>> /\ timeWheel[s][i] = t
    BY <1>1 DEF Spots
  <2>2. ASSUME NEW s \in Slots, NEW i \in 1..Len(timeWheel[s]), timeWheel[s][i] = t
        PROVE  <<s, i>> \in Spots(t)
    BY <1>1, <2>2 DEF Spots
  <2>3. \A x, y \in Spots(t) : x = y
    BY <2>1 DEF PlacesInv, OneSpot
  <2>4. Spots(t) = {} <=> ~InWheel(t)
    BY <2>1, <2>2 DEF InWheel
  <2>. QED
    BY <2>3, <2>4, AtMostOneElement
<1>6. Turns(t) = {} <=> ~InBatch(t)
  BY <1>2 DEF Turns, InBatch
<1>7. Times(timeOutVec, t) = Cardinality(Turns(t))
  BY DEF Times, Turns
<1>8. ASSUME ~timer[t].repeatable PROVE \A i, j \in Turns(t) : i = j
  BY <1>2, <1>8 DEF Turns, PlacesInv, OneTurn
<1>9. ~InBatch(t) => Times(timeOutVec, t) = 0
  BY <1>6, <1>7, FS_EmptySet
<1>10. InBatch(t) /\ ~timer[t].repeatable => Times(timeOutVec, t) = 1
  BY <1>6, <1>7, <1>8, AtMostOneElement
<1>. QED
  BY <1>4, <1>5, <1>9, <1>10

(* timer.cpp:62-127, :205-262: every timer that exists is in exactly one   *)
(* place, whatever adds race with the scan that erases behind its own      *)
(* iterator: none is lost, none is deleted twice, and none that was        *)
(* deleted can still be reached.                                           *)
THEOREM EveryTimerInOnePlaceHolds == Spec => []EveryTimerInOnePlace
<1>1. ASSUME IInv, PlacesInv PROVE EveryTimerInOnePlace
  <2>. SUFFICES ASSUME NEW t \in Timers
                PROVE  /\ timer[t].repeatable => Places(t) = 1
                       /\ ~timer[t].repeatable =>
                            Places(t) + Times(timeOutVec, t) = IF timer[t].state = "alive" THEN 1 ELSE 0
                       /\ timer[t].state # "alive" => Times(timeOutVec, t) = 0
    BY DEF EveryTimerInOnePlace
  <2>1. Places(t) = Cardinality(Hands(t)) + Cardinality(Spots(t))
    BY DEF Places, Hands, Spots
  <2>2. /\ Cardinality(Hands(t)) = IF InHand(t) THEN 1 ELSE 0
        /\ Cardinality(Spots(t)) = IF InWheel(t) THEN 1 ELSE 0
        /\ ~InBatch(t) => Times(timeOutVec, t) = 0
        /\ InBatch(t) /\ ~timer[t].repeatable => Times(timeOutVec, t) = 1
    BY <1>1, PlacesCounted
  <2>3. /\ InHand(t) \/ InWheel(t) \/ InBatch(t) \/ timer[t].repeatable => timer[t].state = "alive"
        /\ timer[t].state = "alive" =>
             InHand(t) \/ InWheel(t) \/ (InBatch(t) /\ ~timer[t].repeatable)
        /\ InHand(t) => ~InWheel(t)
        /\ InBatch(t) /\ ~timer[t].repeatable => ~InHand(t) /\ ~InWheel(t)
    BY <1>1 DEF PlacesInv, Living, Kept, Apart
  <2>. QED
    BY <2>1, <2>2, <2>3
<1>. QED
  BY <1>1, Invariance, PlacesInvariance, PTL
=============================================================================
