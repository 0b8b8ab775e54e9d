-------------------------------- MODULE Loop --------------------------------
(***************************************************************************)
(* Fish::Loop: a thread that runs one task over and over, and between two  *)
(* runs of it the temporary tasks others have queued.  Any thread may set  *)
(* the task, add temporary tasks, close the loop and begin it, in itself   *)
(* or in a new thread.                                                     *)
(*                                                                         *)
(* task_ and the vector tempTasks_ are plain objects.  Two threads at one  *)
(* of them, one of which writes without the mutex, is a data race; the     *)
(* outcomes modelled are the one of either order and the end of the        *)
(* program.                                                                *)
(***************************************************************************)
EXTENDS Naturals, Sequences, FiniteSets, SequencesExt

CONSTANTS
  Runners,     \* threads in which the loop is begun
  NewThreads,  \* those started for that, by beginInNewThread
  Callers,     \* threads that call the other operations
  Tasks,       \* what setTask is called with
  NoTask,      \* task_ is empty
  NoLoop,      \* UINT_MAX: the thread has no loop
  Free,        \* nobody holds the mutex
  MaxTemp,     \* bound: temporary tasks
  MaxBegins    \* bound: calls of begin in a thread

ASSUME LoopAssumption ==
  /\ NewThreads \subseteq Runners
  /\ NoTask \notin Tasks /\ NoLoop \notin Nat
  /\ Free \notin Runners \cup Callers /\ Runners \cap Callers = {}
  /\ MaxTemp \in Nat /\ MaxBegins \in Nat

VARIABLES
  flag,            \* flag_
  task,            \* task_
  tempTasks,       \* tempTasks_, numbered as they were added
  tempTaskMut,     \* who holds tempTaskMut_
  idSum,           \* the static of getLooopId
  thread_loop_id,  \* of each runner
  runner,          \* where each runner is, and temp of its round
  caller,          \* where each caller is
  begins,          \* calls of begin in each runner
  added,           \* how many temporary tasks were added
  ran,             \* the temporary tasks that were run
  closed,          \* the runners that had begun when the loop was last closed
  fault            \* an uncaught exception or a race ended the program

idVars == <<idSum, thread_loop_id>>
tempVars == <<tempTasks, tempTaskMut>>
vars == <<flag, task, tempVars, idVars, runner, caller, begins, added, ran, closed, fault>>

Idle == [pc |-> "idle", task |-> NoTask, seen |-> <<>>]

Init ==
  /\ flag = FALSE /\ task = NoTask
  /\ tempTasks = <<>> /\ tempTaskMut = Free
  /\ idSum = 0
  /\ thread_loop_id = [r \in Runners |-> NoLoop]
  /\ runner = [r \in Runners |-> [pc |-> "idle", temp |-> <<>>, id |-> 0]]
  /\ caller = [c \in Callers |-> Idle]
  /\ begins = [r \in Runners |-> 0]
  /\ added = 0 /\ ran = <<>> /\ closed = {}
  /\ fault = FALSE

(* The two ends of a MutexType::guard.                                     *)
LockIgnored(thread) == tempTaskMut' = thread   \* variant: lock does not wait
Lock(thread) == tempTaskMut = Free /\ tempTaskMut' = thread

Unlock == tempTaskMut' = Free

At(r, l)   == runner[r].pc = l
Goto(r, l) == runner' = [runner EXCEPT ![r].pc = l]

-----------------------------------------------------------------------------
(***************************************************************************)
(* beginInCurrentThread.                                                   *)
(***************************************************************************)

(* A new thread runs once.                                                 *)
Begin(r) ==
  /\ At(r, "idle")
  /\ begins[r] < (IF r \in NewThreads THEN 1 ELSE MaxBegins)
  /\ begins' = [begins EXCEPT ![r] = @ + 1]
  /\ Goto(r, "checkId")
  /\ UNCHANGED <<flag, task, tempVars, idVars, caller, added, ran, closed, fault>>

(* throw: in a thread of its own nobody catches it.                        *)
Throw(r) ==
  /\ Goto(r, "idle")
  /\ closed' = closed \ {r}
  /\ fault' = (r \in NewThreads)

Check(r, here, bad, next) ==
  /\ At(r, here)
  /\ \/ bad /\ Throw(r)
     \/ ~bad /\ Goto(r, next) /\ UNCHANGED <<closed, fault>>
  /\ UNCHANGED <<flag, task, tempVars, idVars, caller, begins, added, ran>>

CheckId(r)   == Check(r, "checkId", thread_loop_id[r] # NoLoop, "checkTask")
CheckTask(r) == Check(r, "checkTask", task = NoTask, "checkFlag")
CheckFlag(r) == Check(r, "checkFlag", flag, "reserve")

(* tempTasks_.reserve(8), without the mutex.                               *)
Reserve(r) ==
  /\ At(r, "reserve")
  /\ Goto(r, "readId")
  /\ UNCHANGED <<flag, task, tempVars, idVars, caller, begins, added, ran, closed, fault>>

(* ++idSum, a read and a write.                                            *)
ReadId(r) ==
  /\ At(r, "readId")
  /\ runner' = [runner EXCEPT ![r].pc = "writeId", ![r].id = idSum + 1]
  /\ UNCHANGED <<flag, task, tempVars, idVars, caller, begins, added, ran, closed, fault>>

WriteId(r) ==
  /\ At(r, "writeId")
  /\ idSum' = runner[r].id
  /\ thread_loop_id' = [thread_loop_id EXCEPT ![r] = runner[r].id]
  /\ Goto(r, "raise")
  /\ UNCHANGED <<flag, task, tempVars, caller, begins, added, ran, closed, fault>>

Raise(r) ==
  /\ At(r, "raise")
  /\ flag' = TRUE
  /\ Goto(r, "test")
  /\ UNCHANGED <<task, tempVars, idVars, caller, begins, added, ran, closed, fault>>

(* The loop, round by round.  A closed loop exits here and nowhere else.   *)
OpenAlways == TRUE           \* variant: while (true)
Open       == flag

Test(r) ==
  /\ At(r, "test")
  /\ \/ Open /\ Goto(r, "task") /\ UNCHANGED closed
     \/ ~Open /\ Goto(r, "idle") /\ closed' = closed \ {r}
  /\ UNCHANGED <<flag, task, tempVars, idVars, caller, begins, added, ran, fault>>

RunTask(r) ==
  /\ At(r, "task")
  /\ Goto(r, "swap")
  /\ UNCHANGED <<flag, task, tempVars, idVars, caller, begins, added, ran, closed, fault>>

(* std::swap(temp, tempTasks_) under the mutex; temp was empty.            *)
TakenLost     == <<>>                \* variant: the tasks are cleared
TakenFromBack == Reverse(tempTasks)  \* variant: the batch is run from its back
Taken         == tempTasks

Swap(r) ==
  /\ At(r, "swap")
  /\ Lock(r)
  /\ runner' = [runner EXCEPT ![r].pc = "swapped", ![r].temp = Taken]
  /\ UNCHANGED <<flag, task, tempTasks, idVars, caller, begins, added, ran, closed, fault>>

Swapped(r) ==
  /\ At(r, "swapped")
  /\ tempTasks' = <<>>
  /\ Unlock
  /\ Goto(r, "run")
  /\ UNCHANGED <<flag, task, idVars, caller, begins, added, ran, closed, fault>>

RunTemp(r) ==
  /\ At(r, "run") /\ runner[r].temp # <<>>
  /\ ran' = Append(ran, Head(runner[r].temp))
  /\ runner' = [runner EXCEPT ![r].temp = Tail(@)]
  /\ UNCHANGED <<flag, task, tempVars, idVars, caller, begins, added, closed, fault>>

RoundEnds(r) ==
  /\ At(r, "run") /\ runner[r].temp = <<>>
  /\ Goto(r, "test")
  /\ UNCHANGED <<flag, task, tempVars, idVars, caller, begins, added, ran, closed, fault>>

beginInCurrentThread(r) ==
  \/ CheckId(r) \/ CheckTask(r) \/ CheckFlag(r) \/ Reserve(r) \/ ReadId(r) \/ WriteId(r)
  \/ Raise(r) \/ Test(r) \/ RunTask(r) \/ Swap(r) \/ Swapped(r) \/ RunTemp(r) \/ RoundEnds(r)

-----------------------------------------------------------------------------
(***************************************************************************)
(* The other operations.                                                   *)
(***************************************************************************)

(* setTask: the test of flag_, which throws to the caller, ...             *)
SetTask(c, t) ==
  /\ caller[c].pc = "idle" /\ ~flag
  /\ caller' = [caller EXCEPT ![c] = [Idle EXCEPT !.pc = "assign", !.task = t]]
  /\ UNCHANGED <<flag, task, tempVars, idVars, runner, begins, added, ran, closed, fault>>

(* ... and the assignment.                                                 *)
Assign(c) ==
  /\ caller[c].pc = "assign"
  /\ task' = caller[c].task
  /\ caller' = [caller EXCEPT ![c] = Idle]
  /\ UNCHANGED <<flag, tempVars, idVars, runner, begins, added, ran, closed, fault>>

(* addTempTask: push_back under the mutex looks at the vector ...          *)
addTempTask(c) ==
  /\ caller[c].pc = "idle"
  /\ added < MaxTemp
  /\ Lock(c)
  /\ caller' = [caller EXCEPT ![c] = [Idle EXCEPT !.pc = "push", !.seen = tempTasks]]
  /\ UNCHANGED <<flag, task, tempTasks, idVars, runner, begins, added, ran, closed, fault>>

(* ... and puts the task behind what it saw.                               *)
Push(c) ==
  /\ caller[c].pc = "push"
  /\ added' = added + 1
  /\ tempTasks' = Append(caller[c].seen, added')
  /\ Unlock
  /\ caller' = [caller EXCEPT ![c] = Idle]
  /\ UNCHANGED <<flag, task, idVars, runner, begins, ran, closed, fault>>

closeLoop(c) ==
  /\ caller[c].pc = "idle"
  /\ flag' = FALSE
  /\ closed' = {r \in Runners : ~At(r, "idle")}
  /\ UNCHANGED <<task, tempVars, idVars, runner, caller, begins, added, ran, fault>>

(* Two threads at task_, or at tempTasks_ of which one is in reserve.      *)
Race ==
  /\ \/ \E c \in Callers : caller[c].pc = "assign" /\
          \/ \E r \in Runners : At(r, "checkTask") \/ At(r, "task")
          \/ \E d \in Callers \ {c} : caller[d].pc = "assign"
     \/ \E r \in Runners : At(r, "reserve") /\
          \/ \E c \in Callers : caller[c].pc = "push"
          \/ \E q \in Runners \ {r} : At(q, "reserve") \/ At(q, "swapped")
  /\ fault' = TRUE
  /\ UNCHANGED <<flag, task, tempVars, idVars, runner, caller, begins, added, ran, closed>>

RunnerStep(r) == ~fault /\ beginInCurrentThread(r)

CallerStep(c) ==
  /\ ~fault
  /\ (\E t \in Tasks : SetTask(c, t)) \/ Assign(c) \/ addTempTask(c) \/ Push(c) \/ closeLoop(c)

Next ==
  \/ \E r \in Runners : ~fault /\ Begin(r)
  \/ \E r \in Runners : RunnerStep(r)
  \/ \E c \in Callers : CallerStep(c)
  \/ ~fault /\ Race

Spec == Init /\ [][Next]_vars

(* A thread in the loop is scheduled, its task returns, and a thread that  *)
(* holds the mutex lets it go.                                             *)
FairSpec ==
  /\ Spec
  /\ \A r \in Runners : WF_vars(RunnerStep(r))
  /\ \A c \in Callers : WF_vars(~fault /\ Push(c))

-----------------------------------------------------------------------------
(***************************************************************************)
(* Properties.                                                             *)
(***************************************************************************)
RunnerPc ==
  {"idle", "checkId", "checkTask", "checkFlag", "reserve", "readId", "writeId", "raise",
   "test", "task", "swap", "swapped", "run"}

(* The tasks waiting, taken and run are among those that were added.       *)
Added         == Seq(1..added)
ThreadOfLoop  == [pc : RunnerPc, temp : Added, id : Nat]
ThreadOutside == [pc : {"idle", "assign", "push"}, task : Tasks \cup {NoTask}, seen : Added]

TypeOK ==
  /\ flag \in BOOLEAN /\ fault \in BOOLEAN
  /\ task \in Tasks \cup {NoTask}
  /\ added \in Nat
  /\ tempTasks \in Added /\ ran \in Added
  /\ tempTaskMut \in Runners \cup Callers \cup {Free}
  /\ closed \subseteq Runners
  /\ idSum \in Nat
  /\ thread_loop_id \in [Runners -> Nat \cup {NoLoop}]
  /\ runner \in [Runners -> ThreadOfLoop]
  /\ caller \in [Callers -> ThreadOutside]
  /\ begins \in [Runners -> Nat]

Swapping == {r \in Runners : At(r, "swapped")}

(* During the swap the tasks are in temp.                                  *)
Waiting == IF Swapping = {} THEN tempTasks ELSE <<>>

(* Where temporary task k is.                                              *)
PlacesIn(s, k) == {i \in DOMAIN s : s[i] = k}

TempPlaces(k) ==
  {<<"ran", i>> : i \in PlacesIn(ran, k)}
    \cup {<<"waiting", i>> : i \in PlacesIn(Waiting, k)}
    \cup UNION {{<<"taken", <<r, i>>>> : i \in PlacesIn(runner[r].temp, k)} : r \in Runners}

(* However adding, the swap and the loops of several threads interleave,   *)
(* no temporary task is lost and none is run twice.                        *)
TempTasksOnce == \A k \in 1..added : Cardinality(TempPlaces(k)) = 1

(* As long as one thread has begun the loop, temporary tasks run in the     *)
(* order they were added in, however adding and rounds interleave.         *)
TempTasksInOrder ==
  \A r \in Runners :
    (\A q \in Runners \ {r} : begins[q] = 0) =>
      ran \o runner[r].temp \o Waiting = [k \in 1..added |-> k]

InLoop(r) == runner[r].pc \in {"test", "task", "swap", "swapped", "run"}

(* A temporary task runs while the loop goes on.                           *)
TempTasksRun ==
  \A k \in 1..MaxTemp :
    (flag /\ PlacesIn(tempTasks, k) # {}) ~> (PlacesIn(ran, k) # {} \/ ~flag \/ fault)

(* A loop that is closed while it runs ends in every thread it runs in,    *)
(* unless another thread, already past the checks, raises flag_ again.     *)
ClosedInLoopEnds ==
  \A r \in Runners : (~flag /\ InLoop(r)) ~> (At(r, "idle") \/ flag \/ fault)

(***************************************************************************)
(* What comments and messages of the code say, and the code does not do.   *)
(***************************************************************************)

(* loop.h:38: closeLoop ends the loop.  One that was begun and closed ends *)
(* before it is begun again.                                               *)
ClosedLoopStops == \A r \in Runners : r \in closed ~> (At(r, "idle") \/ fault)

(* loop.cpp:29: a loop that is "looping now" is not begun a second time.   *)
LoopsInOneThread == Cardinality({r \in Runners : InLoop(r)}) <= 1

(* loop.cpp:72: "please close the current task first".  The task does not  *)
(* change while the loop is on.                                            *)
TaskFixedWhileOn == [][flag => task' = task]_vars
=============================================================================
