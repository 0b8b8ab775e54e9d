-------------------------------- MODULE Timer --------------------------------
(***************************************************************************)
(* Fish::Timer, a timing wheel: the thread in start() visits one slot      *)
(* after another, takes the timers that are due out of the slot's list     *)
(* under the slot's mutex, runs them without it and moves on.  Any thread  *)
(* may add one-shot and periodic timers and remove periodic ones.          *)
(*                                                                         *)
(* Time is a count of milliseconds.  Round is the 1000 of the code, in     *)
(* units an instance can afford.                                           *)
(***************************************************************************)
EXTENDS Integers, Sequences, FiniteSets, SequencesExt

CONSTANTS
  Timers,      \* TimerTask objects
  NoTimer,     \* no object
  NeedTimers,  \* those of class NeedTime; the others are NotNeedTime
  Clients,     \* threads that add and remove timers
  Ids,         \* ids of periodic timers
  NoId,        \* the id of a one-shot timer
  Round,       \* milliseconds in a turn of the wheel
  Interval,    \* the argument of Timer::init
  Delays,      \* the delays callers ask for, in milliseconds
  MaxTime,     \* bound: the clock stops here
  CodeTakesTime \* FALSE: time passes only in delay_ms, with no add under way

TimeNum == Round \div Interval          \* timeNum_
Slots   == 0..(TimeNum - 1)
Width   == Round \div TimeNum           \* the 1000 / timeNum_ of every use

ASSUME TimerAssumption ==
  /\ NoTimer \notin Timers /\ NeedTimers \subseteq Timers /\ NoId \notin Ids
  /\ Round \in Nat \ {0} /\ Interval \in 1..Round
  /\ Delays \subseteq Nat /\ MaxTime \in Nat /\ CodeTakesTime \in BOOLEAN

VARIABLES
  now,            \* the system clock
  timer,          \* the TimerTask objects
  timeWheel,      \* timeWheel_
  priodTimerMap,  \* priodTimerMap_
  wheelIndex,     \* wheelIndex_
  pc,             \* where the worker is in start()
  wakeAt,         \* the end of delay_ms
  timeBegin,      \* timeBegin of start()
  iter,           \* the iterator of the scan, as a position in the list
  timeOutVec,     \* timeOutVec
  client          \* where each client is

workerVars == <<wheelIndex, pc, wakeAt, timeBegin, iter, timeOutVec>>
vars == <<now, timer, timeWheel, priodTimerMap, workerVars, client>>

Unused == [state |-> "unused", timePoint |-> 0, insertTime |-> 0, period |-> 0,
           repeatable |-> FALSE, id |-> NoId]

Idle == [pc |-> "idle", timer |-> NoTimer, slot |-> 0]

Init ==
  /\ now = 0
  /\ timer = [t \in Timers |-> Unused]
  /\ timeWheel = [s \in Slots |-> <<>>]
  /\ priodTimerMap = [i \in Ids |-> NoTimer]
  /\ wheelIndex = 0 /\ pc = "stopped"
  /\ wakeAt = 0 /\ timeBegin = 0
  /\ iter = 1 /\ timeOutVec = <<>>
  /\ client = [c \in Clients |-> Idle]

-----------------------------------------------------------------------------
(***************************************************************************)
(* Clients.                                                                *)
(***************************************************************************)

(* The slot for a timer that is due after time: the number of slots ahead  *)
(* plus the position of the wheel, divided (not reduced modulo) by the     *)
(* number of slots.  wheelIndex_ is read without a lock, also between its  *)
(* increment and its wrap.                                                 *)
SlotUnreduced(time) == (time \div Width) + wheelIndex   \* variant: no % at all
SlotFor(time) == (((time \div Width) % TimeNum) + wheelIndex) \div TimeNum

(* The TimerTask constructor.                                              *)
NewTimer(time, repeatable, id) ==
  [state |-> "alive", timePoint |-> now + time, insertTime |-> now, period |-> time,
   repeatable |-> repeatable, id |-> id]

(* addOnceTask up to its lock_guard.                                       *)
AddOnce(c, t, time) ==
  /\ client[c].pc = "idle"
  /\ timer[t].state = "unused"
  /\ timer' = [timer EXCEPT ![t] = NewTimer(time, FALSE, NoId)]
  /\ client' = [client EXCEPT ![c] = [pc |-> "push", timer |-> t, slot |-> SlotFor(time)]]
  /\ UNCHANGED <<now, timeWheel, priodTimerMap, workerVars>>

(* addPriodTask, the block under priodTimerGuarder_: an id that is taken   *)
(* is refused.                                                             *)
AddPriod(c, t, time, id) ==
  /\ client[c].pc = "idle"
  /\ timer[t].state = "unused"
  /\ priodTimerMap[id] = NoTimer
  /\ timer' = [timer EXCEPT ![t] = NewTimer(time, TRUE, id)]
  /\ priodTimerMap' = [priodTimerMap EXCEPT ![id] = t]
  /\ client' = [client EXCEPT ![c] = [pc |-> "slot", timer |-> t, slot |-> 0]]
  /\ UNCHANGED <<now, timeWheel, workerVars>>

(* addPriodTask, the computation of the slot.                              *)
FindSlot(c) ==
  LET t == client[c].timer IN
  /\ client[c].pc = "slot"
  /\ client' = [client EXCEPT ![c] = [pc |-> "push", timer |-> t,
                                      slot |-> SlotFor(timer[t].period)]]
  /\ UNCHANGED <<now, timer, timeWheel, priodTimerMap, workerVars>>

(* push_back under the slot's mutex, which the worker holds while it       *)
(* scans.  mutexVec[index] and timeWheel_[index] are not bounds-checked:   *)
(* with an index outside the wheel the behaviour of the code is undefined, *)
(* and the model ends.                                                     *)
SlotLocked(s) == pc = "scan" /\ wheelIndex = s

Push(c) ==
  LET s == client[c].slot IN
  /\ client[c].pc = "push"
  /\ ~SlotLocked(s)
  /\ timeWheel' = [r \in Slots |->
                     IF r = s THEN Append(timeWheel[r], client[c].timer) ELSE timeWheel[r]]
  /\ client' = [client EXCEPT ![c] = IF s \in Slots THEN Idle ELSE [@ EXCEPT !.pc = "outside"]]
  /\ UNCHANGED <<now, timer, priodTimerMap, workerVars>>

(* removePriodTask takes the id out of the map and does nothing else.      *)
RemoveAndDelete(c, id) ==   \* variant: the timer object goes with its entry
  /\ client[c].pc = "idle"
  /\ priodTimerMap[id] # NoTimer
  /\ priodTimerMap' = [priodTimerMap EXCEPT ![id] = NoTimer]
  /\ timer' = [timer EXCEPT ![priodTimerMap[id]].state = "deleted"]
  /\ UNCHANGED <<now, timeWheel, workerVars, client>>

RemovePriod(c, id) ==
  /\ client[c].pc = "idle"
  /\ priodTimerMap[id] # NoTimer
  /\ priodTimerMap' = [priodTimerMap EXCEPT ![id] = NoTimer]
  /\ UNCHANGED <<now, timer, timeWheel, workerVars, client>>

-----------------------------------------------------------------------------
(***************************************************************************)
(* The worker.  start() never returns: nothing resets working_.            *)
(***************************************************************************)
(* delay_ms(Width - elapsed), called now, returns at this time.            *)
DelayUntil(elapsed) == now + Width - elapsed

Start ==
  /\ pc = "stopped"
  /\ pc' = "wait"
  /\ wakeAt' = DelayUntil(0)
  /\ UNCHANGED <<now, timer, timeWheel, priodTimerMap, wheelIndex, timeBegin, iter, timeOutVec, client>>

(* delay_ms returns; the slot is locked and the scan begins.  (Where the   *)
(* clock stops, at MaxTime, waiting takes no time.)                        *)
Wake ==
  /\ pc = "wait"
  /\ now >= wakeAt \/ now = MaxTime
  /\ timeBegin' = now
  /\ timeOutVec' = <<>>
  /\ iter' = 1
  /\ pc' = "scan"
  /\ UNCHANGED <<now, timer, timeWheel, priodTimerMap, wheelIndex, wakeAt, client>>

List == timeWheel[wheelIndex]

(* erase(iter) gives the next element, and the iter++ of the loop then     *)
(* steps over it.  After the last element erase gives end(), whose         *)
(* successor is begin() in the circular list of libstdc++.                 *)
AfterErase(i) == IF i = Len(List) THEN 1 ELSE i + 1

DueAlways(t) == TRUE                    \* variant: the test is forgotten
Due(t)       == timer[t].timePoint <= timeBegin

ScanDue ==
  LET t == List[iter] IN
  /\ pc = "scan" /\ iter <= Len(List)
  /\ Due(t)
  /\ timeOutVec' = Append(timeOutVec, t)
  /\ \/ /\ timer[t].repeatable
        /\ iter' = iter + 1
        /\ UNCHANGED timeWheel
     \/ /\ ~timer[t].repeatable
        /\ iter' = AfterErase(iter)
        /\ timeWheel' = [timeWheel EXCEPT ![wheelIndex] = RemoveAt(@, iter)]
  /\ UNCHANGED <<now, timer, priodTimerMap, wheelIndex, pc, wakeAt, timeBegin, client>>

StepForgotten(i) == i                   \* variant: the loop without its iter++
StepOver(i)      == i + 1

ScanNotDue ==
  /\ pc = "scan" /\ iter <= Len(List)
  /\ ~Due(List[iter])
  /\ iter' = StepOver(iter)
  /\ UNCHANGED <<now, timer, timeWheel, priodTimerMap, wheelIndex, pc, wakeAt, timeBegin,
                 timeOutVec, client>>

ScanEnd ==
  /\ pc = "scan" /\ iter > Len(List)
  /\ pc' = "run"
  /\ UNCHANGED <<now, timer, timeWheel, priodTimerMap, wheelIndex, wakeAt, timeBegin,
                 iter, timeOutVec, client>>

(* work(), and the delete of a one-shot timer.  Only NeedTime remembers    *)
(* when it ran; no class moves timePoint_.                                 *)
Worked(t) ==
  [timer[t] EXCEPT !.insertTime = IF t \in NeedTimers THEN now ELSE @,
                   !.state = IF timer[t].repeatable THEN @ ELSE "deleted"]

Work ==
  LET t == Head(timeOutVec) IN
  /\ pc = "run" /\ timeOutVec # <<>>
  /\ timer' = [timer EXCEPT ![t] = Worked(t)]
  /\ timeOutVec' = Tail(timeOutVec)
  /\ UNCHANGED <<now, timeWheel, priodTimerMap, wheelIndex, pc, wakeAt, timeBegin, iter, client>>

(* wheelIndex_ is incremented, and then taken back to 0 at the end of the  *)
(* wheel: two steps, without a lock, so that adding threads see timeNum_.  *)
Increment ==
  /\ pc = "run" /\ timeOutVec = <<>>
  /\ wheelIndex' = wheelIndex + 1
  /\ pc' = "wrap"
  /\ UNCHANGED <<now, timer, timeWheel, priodTimerMap, wakeAt, timeBegin, iter, timeOutVec, client>>

WrapStuck == IF wheelIndex = TimeNum THEN TimeNum - 1 ELSE wheelIndex  \* variant: stays at the last
WrapIndex == IF wheelIndex = TimeNum THEN 0 ELSE wheelIndex

(* timeEnd is read and the next delay begins.                              *)
Wrap ==
  /\ pc = "wrap"
  /\ wheelIndex' = WrapIndex
  /\ wakeAt' = DelayUntil(now - timeBegin)
  /\ pc' = "wait"
  /\ UNCHANGED <<now, timer, timeWheel, priodTimerMap, timeBegin, iter, timeOutVec, client>>

Tick ==
  /\ now < MaxTime
  /\ \/ CodeTakesTime
     \/ /\ pc = "wait" /\ now < wakeAt
        /\ \A c \in Clients : client[c].pc = "idle"
  /\ now' = now + 1
  /\ UNCHANGED <<timer, timeWheel, priodTimerMap, workerVars, client>>

-----------------------------------------------------------------------------
ClientStep ==
  \E c \in Clients :
    \/ \E t \in Timers, time \in Delays : AddOnce(c, t, time)
    \/ \E t \in Timers, time \in Delays, id \in Ids : AddPriod(c, t, time, id)
    \/ FindSlot(c) \/ Push(c)
    \/ \E id \in Ids : RemovePriod(c, id)

WorkerStep == Wake \/ ScanDue \/ ScanNotDue \/ ScanEnd \/ Work \/ Increment \/ Wrap

(* No thread has indexed anything outside the wheel.                       *)
Defined == \A c \in Clients : client[c].pc # "outside"

Next == Defined /\ (ClientStep \/ Start \/ WorkerStep \/ Tick)

Spec == Init /\ [][Next]_vars

(* The worker, once started, and the clock go on.                          *)
FairSpec ==
  Spec /\ WF_vars(Defined /\ WorkerStep) /\ WF_vars(Defined /\ Tick) /\ WF_vars(Defined /\ Start)

-----------------------------------------------------------------------------
(***************************************************************************)
(* Properties.                                                             *)
(***************************************************************************)
TimerObject ==
  [state : {"unused", "alive", "deleted"}, timePoint : Nat, insertTime : Nat,
   period : Nat, repeatable : BOOLEAN, id : Ids \cup {NoId}]

ClientState ==
  [pc : {"idle", "slot", "push", "outside"}, timer : Timers \cup {NoTimer}, slot : Nat]

(* Every variable has its type.  Between the two steps that turn the wheel *)
(* wheelIndex_ is timeNum_ (timer.cpp:239-242), and only there.            *)
TypeOK ==
  /\ now \in Nat
  /\ timer \in [Timers -> TimerObject]
  /\ timeWheel \in [Slots -> Seq(Timers)]
  /\ priodTimerMap \in [Ids -> Timers \cup {NoTimer}]
  /\ wheelIndex \in IF pc = "wrap" THEN 1..TimeNum ELSE Slots
  /\ pc \in {"stopped", "wait", "scan", "run", "wrap"}
  /\ wakeAt \in Int /\ timeBegin \in Nat
  /\ iter \in Nat \ {0}
  /\ timeOutVec \in Seq(Timers)
  /\ client \in [Clients -> ClientState]

(* The slot an add computes indexes timeWheel_ and mutexVec, which are not *)
(* bounds-checked, though it is computed from a wheelIndex_ that the       *)
(* worker changes meanwhile without a lock, out of the wheel and back      *)
(* (timer.cpp:82 against :239-242).  In a wheel of one slot it need not.   *)
SlotsInWheel == \A c \in Clients : client[c].slot \in Slots

Times(s, t) == Cardinality({i \in DOMAIN s : s[i] = t})

(* How often a timer is about to be pushed, or in the wheel.               *)
Places(t) ==
  Cardinality({c \in Clients : client[c].timer = t})
    + Cardinality(UNION {{<<s, i>> : i \in {j \in DOMAIN timeWheel[s] : timeWheel[s][j] = t}} :
                           s \in Slots})

(* The lists hold raw pointers.  A timer that exists is in exactly one     *)
(* place, though the scan erases behind its own iterator and adds race     *)
(* with it: none is lost (it would never run, and leak), none is deleted   *)
(* twice, and nothing deleted is reachable.  A periodic timer never leaves *)
(* the wheel; a one-shot one leaves it as it enters timeOutVec.            *)
EveryTimerInOnePlace ==
  \A t \in Timers :
    /\ timer[t].repeatable => Places(t) = 1
    /\ ~timer[t].repeatable =>
         Places(t) + Times(timeOutVec, t) = IF timer[t].state = "alive" THEN 1 ELSE 0
    /\ timer[t].state # "alive" => Times(timeOutVec, t) = 0

(* A timer never runs before its time: a one-shot timer is not deleted     *)
(* before its timePoint_ (timer.h:28, "the time it should be executed").   *)
NeverEarly ==
  [][\A t \in Timers :
       timer[t].state = "alive" /\ timer'[t].state = "deleted" => timer[t].timePoint <= now]_vars

(* A one-shot timer in the wheel is eventually run, whatever else is added *)
(* and although each scan may step over it.                                *)
OneShotsRun ==
  \A t \in Timers :
    (/\ ~timer[t].repeatable /\ timer[t].timePoint <= MaxTime
     /\ \E s \in Slots : Times(timeWheel[s], t) > 0)
      ~> timer[t].state = "deleted"

(* The worker keeps turning the wheel: a scan or a batch of work ends.     *)
WheelTurns == pc \in {"scan", "run", "wrap"} ~> pc = "wait"

(***************************************************************************)
(* What comments of the code say, and the code does not do.                *)
(***************************************************************************)

(* timer.cpp:224, "mind the invalidation of the iterator here": a timer is *)
(* collected once in a scan.                                               *)
CollectedOnce == \A t \in Timers : Times(timeOutVec, t) <= 1

(* timer.h:71 gives the resolution of the timer as one interval: a timer   *)
(* that is due does not stay in the wheel for two.                         *)
WithinResolution ==
  \A t \in Timers :
    timer[t].state = "alive" /\ ~timer[t].repeatable => now <= timer[t].timePoint + 2 * Width

(* timer.h:92: periodic tasks.  Between two runs of one lies its period.   *)
PeriodBetweenRuns ==
  pc = "run" /\ timeOutVec # <<>> =>
    LET t == Head(timeOutVec) IN
    t \in NeedTimers /\ timer[t].repeatable => now - timer[t].insertTime >= timer[t].period

(* timer.h:95: removePriodTask deletes a periodic task.  A periodic timer  *)
(* about to be collected is still registered.                              *)
RemovedTimersStop ==
  \A s \in Slots : \A i \in DOMAIN timeWheel[s] :
    LET t == timeWheel[s][i] IN
    timer[t].repeatable => priodTimerMap[timer[t].id] = t
=============================================================================
