------------------------------ MODULE LoopProof ------------------------------
(***************************************************************************)
(* Theorems about Loop, for any number of threads that begin the loop and  *)
(* of threads that call its operations, and any number of tasks.           *)
(***************************************************************************)
EXTENDS Loop, SequenceTheorems, FiniteSetTheorems, TLAPS

(* Whoever is inside the two critical sections holds the mutex, and what   *)
(* it saw of the vector when it got in still is what the vector holds.     *)
MutexKept ==
  /\ \A c \in Callers : caller[c].pc = "push" =>
       tempTaskMut = c /\ caller[c].seen = tempTasks
  /\ \A r \in Runners : At(r, "swapped") =>
       tempTaskMut = r /\ runner[r].temp = tempTasks

(* A round has run all it took before the next swap.                       *)
TempsTaken ==
  \A r \in Runners : runner[r].pc \notin {"swapped", "run"} => runner[r].temp = <<>>

NotBegun == \A r \in Runners : begins[r] = 0 => At(r, "idle")

IInv == TypeOK /\ MutexKept /\ TempsTaken /\ NotBegun /\ TempTasksInOrder

-----------------------------------------------------------------------------
(***************************************************************************)
(* Lemmas on sequences.                                                    *)
(***************************************************************************)

(* Adding to the end is adding to the end of the last part.                *)
LEMMA AppendLast ==
  ASSUME NEW S, NEW s \in Seq(S), NEW t \in Seq(S), NEW e \in S
  PROVE  s \o Append(t, e) = Append(s \o t, e)
<1>1. <<e>> \in Seq(S) /\ s \o t \in Seq(S)
  BY ConcatProperties
<1>2. s \o Append(t, e) = s \o (t \o <<e>>) /\ Append(s \o t, e) = (s \o t) \o <<e>>
  BY <1>1, AppendIsConcat
<1>. QED
  BY <1>1, <1>2, ConcatAssociative

(* Moving the head of the second part to the end of the first keeps both.  *)
LEMMA MoveHead ==
  ASSUME NEW S, NEW s \in Seq(S), NEW t \in Seq(S), t # <<>>
  PROVE  Append(s, Head(t)) \o Tail(t) = s \o t
<1>1. Head(t) \in S /\ Tail(t) \in Seq(S) /\ <<Head(t)>> \in Seq(S)
  BY HeadTailProperties
<1>2. Append(s, Head(t)) = s \o <<Head(t)>>
  BY <1>1, AppendIsConcat
<1>3. t = <<Head(t)>> \o Tail(t)
  <2>1. Len(t) \in Nat \ {0} /\ \A i \in 1..Len(t) : t[i] \in S
    BY EmptySeq, LenProperties, ElementOfSeq
  <2>2. SubSeq(t, 1, Len(t)) = <<t[1]>> \o SubSeq(t, 2, Len(t))
    BY <2>1, SubSeqRecursiveFirst
  <2>. QED
    BY <2>2, SubSeqFull, TailIsSubSeq
<1>. QED
  BY <1>1, <1>2, <1>3, ConcatAssociative

(* One more number at the end.                                             *)
LEMMA OneMore ==
  ASSUME NEW n \in Nat
  PROVE  Append([k \in 1..n |-> k], n + 1) = [k \in 1..(n + 1) |-> k]
<1>. DEFINE s == [k \in 1..n |-> k]
            t == [k \in 1..(n + 1) |-> k]
<1>1. s \in Seq(Nat) /\ Len(s) = n /\ t \in Seq(Nat) /\ Len(t) = n + 1
  OBVIOUS
<1>2. /\ Append(s, n + 1) \in Seq(Nat) /\ Len(Append(s, n + 1)) = n + 1
      /\ \A i \in 1..n : Append(s, n + 1)[i] = s[i]
      /\ Append(s, n + 1)[n + 1] = n + 1
  BY <1>1, AppendProperties
<1>3. \A i \in 1..(n + 1) : Append(s, n + 1)[i] = t[i]
  BY <1>2
<1>. QED
  BY <1>1, <1>2, <1>3, SeqEqual

(* All the queues are sequences of numbers.                                *)
LEMMA Numbers ==
  ASSUME IInv
  PROVE  /\ ran \in Seq(Nat) /\ tempTasks \in Seq(Nat) /\ Waiting \in Seq(Nat)
         /\ \A r \in Runners : runner[r].temp \in Seq(Nat) /\ runner[r].temp \in Added
         /\ \A r \in Runners : ran \o runner[r].temp \in Seq(Nat)
         /\ added \in Nat
<1>1. 1..added \subseteq Nat /\ added \in Nat
  BY DEF IInv, TypeOK
<1>2. ran \in Added /\ tempTasks \in Added /\ \A r \in Runners : runner[r].temp \in Added
  BY DEF IInv, TypeOK, ThreadOfLoop
<1>3. /\ ran \in Seq(Nat) /\ tempTasks \in Seq(Nat)
      /\ \A r \in Runners : runner[r].temp \in Seq(Nat)
  BY <1>1, <1>2, SeqMonotonic DEF Added
<1>. QED
  BY <1>1, <1>2, <1>3, EmptySeq, ConcatProperties DEF Waiting

-----------------------------------------------------------------------------
(***************************************************************************)
(* The invariant.                                                          *)
(***************************************************************************)
LEMMA InitInv == Init => IInv
<1>. SUFFICES ASSUME Init PROVE IInv
  OBVIOUS
<1>1. <<>> \in Seq(1..0) /\ Len(<<>>) = 0
  BY EmptySeq
<1>2. Idle \in ThreadOutside
  BY <1>1 DEF Init, Idle, ThreadOutside, Added
<1>3. [pc |-> "idle", temp |-> <<>>, id |-> 0] \in ThreadOfLoop
  BY <1>1 DEF Init, ThreadOfLoop, RunnerPc, Added
<1>4. TypeOK
  BY <1>1, <1>2, <1>3 DEF Init, TypeOK, Added
<1>5. MutexKept /\ TempsTaken /\ NotBegun /\ Swapping = {}
  BY DEF Init, MutexKept, TempsTaken, NotBegun, Swapping, At, Idle
<1>6. TempTasksInOrder
  <2>1. <<>> \o <<>> \o <<>> = <<>> /\ [k \in 1..0 |-> k] = <<>>
    BY <1>1, ConcatEmptySeq
  <2>. QED
    BY <1>5, <2>1 DEF Init, TempTasksInOrder, Waiting
<1>. QED
  BY <1>4, <1>5, <1>6 DEF IInv

(* A thread of the loop moves on outside of the critical section.          *)
Moves(r) ==
  /\ runner' \in [Runners -> ThreadOfLoop]
  /\ \A q \in Runners \ {r} : runner'[q] = runner[q]
  /\ runner'[r].temp = runner[r].temp
  /\ runner[r].pc # "swapped" /\ runner'[r].pc # "swapped"
  /\ runner'[r].pc # "run" => runner[r].temp = <<>>
  /\ runner'[r].pc # "idle" => begins'[r] # 0

(* The rest of a type invariant, of what such a thread may change.         *)
Typed ==
  /\ flag' \in BOOLEAN /\ fault' \in BOOLEAN /\ closed' \subseteq Runners
  /\ idSum' \in Nat /\ thread_loop_id' \in [Runners -> Nat \cup {NoLoop}]
  /\ begins' \in [Runners -> Nat]
  /\ \A q \in Runners : begins'[q] = 0 => begins[q] = 0

QueueKept == UNCHANGED <<tempTasks, tempTaskMut, caller, added, ran, task>>

LEMMA MoveInv ==
  ASSUME IInv, NEW r \in Runners, Moves(r), Typed, QueueKept
  PROVE  IInv'
<1>. USE DEF QueueKept
<1>1. runner \in [Runners -> ThreadOfLoop]
  BY DEF IInv, TypeOK
<1>2. \A q \in Runners : runner'[q].temp = runner[q].temp
  BY DEF Moves
<1>3. TypeOK'
  <2>1. Added' = Added /\ ThreadOfLoop' = ThreadOfLoop /\ ThreadOutside' = ThreadOutside
    BY DEF Added, ThreadOfLoop, ThreadOutside
  <2>. QED
    BY <2>1 DEF IInv, TypeOK, Moves, Typed
<1>4. MutexKept'
  BY <1>1 DEF IInv, MutexKept, At, Moves
<1>5. TempsTaken' /\ NotBegun'
  BY <1>1 DEF IInv, TempsTaken, NotBegun, At, Moves, Typed
<1>6. Swapping' = Swapping
  BY <1>1 DEF Swapping, At, Moves
<1>7. TempTasksInOrder'
  <2>. SUFFICES ASSUME NEW q \in Runners, \A p \in Runners \ {q} : begins'[p] = 0
                PROVE  ran' \o runner'[q].temp
                         \o (IF Swapping' = {} THEN tempTasks' ELSE <<>>)
                         = [k \in 1..added' |-> k]
    BY DEF TempTasksInOrder, Waiting
  <2>1. ran \o runner[q].temp \o (IF Swapping = {} THEN tempTasks ELSE <<>>)
          = [k \in 1..added |-> k]
    BY DEF IInv, TempTasksInOrder, Waiting, Typed
  <2>2. runner'[q].temp = runner[q].temp
    BY <1>2
  <2>. QED
    BY <1>6, <2>1, <2>2
<1>. QED
  BY <1>3, <1>4, <1>5, <1>7 DEF IInv

(* From where a thread is to where it goes.                                *)
LEMMA GotoMoves ==
  ASSUME IInv, NEW r \in Runners, NEW pc \in RunnerPc \ {"swapped"}, NEW id \in Nat,
         runner' = [runner EXCEPT ![r].pc = pc, ![r].id = id],
         runner[r].pc # "swapped",
         runner[r].pc = "run" => runner[r].temp = <<>>,
         runner[r].pc = "idle" => begins'[r] # 0,
         begins[r] # 0 => begins'[r] # 0
  PROVE  Moves(r)
<1>1. runner \in [Runners -> ThreadOfLoop]
  BY DEF IInv, TypeOK
<1>2. /\ runner'[r].pc = pc /\ runner'[r].temp = runner[r].temp
      /\ \A q \in Runners \ {r} : runner'[q] = runner[q]
      /\ runner' \in [Runners -> ThreadOfLoop]
  BY <1>1 DEF ThreadOfLoop
<1>3. runner[r].temp = <<>> /\ begins'[r] # 0
  BY DEF IInv, TempsTaken, NotBegun, At
<1>. QED
  BY <1>2, <1>3 DEF Moves

LEMMA GotoStep ==
  ASSUME IInv, NEW r \in Runners, NEW pc \in RunnerPc \ {"swapped"}, Goto(r, pc),
         runner[r].pc # "swapped",
         runner[r].pc = "run" => runner[r].temp = <<>>,
         runner[r].pc = "idle" => begins'[r] # 0,
         begins[r] # 0 => begins'[r] # 0
  PROVE  Moves(r)
<1>1. runner \in [Runners -> ThreadOfLoop]
  BY DEF IInv, TypeOK
<1>2. /\ runner[r].id \in Nat
      /\ runner' = [runner EXCEPT ![r].pc = pc, ![r].id = runner[r].id]
  BY <1>1 DEF ThreadOfLoop, Goto
<1>. QED
  BY <1>2, GotoMoves

(* What moves one thread of the loop, and nothing the queue depends on.    *)
LEMMA LoopMovesInv ==
  ASSUME IInv, NEW r \in Runners,
         \/ Begin(r) \/ CheckId(r) \/ CheckTask(r) \/ CheckFlag(r) \/ Reserve(r)
         \/ ReadId(r) \/ WriteId(r) \/ Raise(r) \/ Test(r) \/ RunTask(r) \/ RoundEnds(r)
  PROVE  IInv'
<1>1. /\ flag \in BOOLEAN /\ fault \in BOOLEAN
      /\ closed \subseteq Runners /\ closed \ {r} \subseteq Runners
      /\ idSum \in Nat /\ idSum + 1 \in Nat
      /\ thread_loop_id \in [Runners -> Nat \cup {NoLoop}]
      /\ begins \in [Runners -> Nat]
      /\ runner \in [Runners -> ThreadOfLoop] /\ runner[r].id \in Nat
  BY DEF IInv, TypeOK, ThreadOfLoop
<1>2. {"idle", "checkId", "checkTask", "checkFlag", "reserve", "readId", "writeId", "raise",
       "test", "task", "swap", "run"} \subseteq RunnerPc \ {"swapped"}
  BY DEF RunnerPc
<1>3. CASE Begin(r)
  <2>1. begins' \in [Runners -> Nat] /\ begins'[r] # 0
        /\ \A q \in Runners : begins'[q] = 0 => begins[q] = 0
    BY <1>1, <1>3 DEF Begin
  <2>2. Goto(r, "checkId") /\ runner[r].pc = "idle"
    BY <1>3 DEF Begin, At
  <2>3. Moves(r)
    BY <1>2, <2>1, <2>2, GotoStep
  <2>4. Typed /\ QueueKept
    BY <1>1, <1>3, <2>1 DEF Begin, Typed, QueueKept, tempVars, idVars
  <2>. QED
    BY <2>3, <2>4, MoveInv
<1>4. CASE CheckId(r) \/ CheckTask(r) \/ CheckFlag(r)
  <2>1. /\ runner[r].pc \in {"checkId", "checkTask", "checkFlag"}
        /\ begins' = begins
    BY <1>4 DEF CheckId, CheckTask, CheckFlag, Check, At
  <2>2. \E pc \in {"idle", "checkTask", "checkFlag", "reserve"} : Goto(r, pc)
    BY <1>4 DEF CheckId, CheckTask, CheckFlag, Check, Throw
  <2>3. Moves(r)
    <3>1. PICK pc \in RunnerPc \ {"swapped"} : Goto(r, pc)
      BY <1>2, <2>2
    <3>. QED
      BY <2>1, <3>1, GotoStep
  <2>4. closed' \subseteq Runners /\ fault' \in BOOLEAN
    <3>1. Throw(r) => closed' \subseteq Runners /\ fault' \in BOOLEAN
      <4>1. (r \in NewThreads) \in BOOLEAN
        OBVIOUS
      <4>2. Throw(r) => fault' = (r \in NewThreads)
        BY DEF Throw
      <4>3. Throw(r) => fault' \in BOOLEAN
        BY <4>1, <4>2
      <4>. QED
        BY <1>1, <4>3 DEF Throw
    <3>2. Throw(r) \/ UNCHANGED <<closed, fault>>
      BY <1>4 DEF CheckId, CheckTask, CheckFlag, Check
    <3>. QED
      BY <1>1, <3>1, <3>2
  <2>5. Typed /\ QueueKept
    BY <1>1, <1>4, <2>4
    DEF CheckId, CheckTask, CheckFlag, Check, Typed, QueueKept, tempVars, idVars
  <2>. QED
    BY <2>3, <2>5, MoveInv
<1>5. CASE ReadId(r)
  <2>1. /\ runner[r].pc = "readId" /\ begins' = begins
        /\ runner' = [runner EXCEPT ![r].pc = "writeId", ![r].id = idSum + 1]
    BY <1>5 DEF ReadId, At
  <2>2. Moves(r)
    BY <1>1, <1>2, <2>1, GotoMoves
  <2>3. Typed /\ QueueKept
    BY <1>1, <1>5 DEF ReadId, Typed, QueueKept, tempVars, idVars
  <2>. QED
    BY <2>2, <2>3, MoveInv
<1>6. CASE WriteId(r)
  <2>1. idSum' \in Nat /\ thread_loop_id' \in [Runners -> Nat \cup {NoLoop}]
    BY <1>1, <1>6 DEF WriteId
  <2>2. Goto(r, "raise") /\ runner[r].pc = "writeId" /\ begins' = begins
    BY <1>6 DEF WriteId, At
  <2>3. Moves(r)
    BY <1>2, <2>2, GotoStep
  <2>4. Typed /\ QueueKept
    BY <1>1, <1>6, <2>1 DEF WriteId, Typed, QueueKept, tempVars
  <2>. QED
    BY <2>3, <2>4, MoveInv
<1>7. CASE Test(r)
  <2>1. runner[r].pc = "test" /\ begins' = begins
    BY <1>7 DEF Test, At
  <2>2. \E pc \in {"task", "idle"} : Goto(r, pc)
    BY <1>7 DEF Test
  <2>3. Moves(r)
    <3>1. PICK pc \in RunnerPc \ {"swapped"} : Goto(r, pc)
      BY <1>2, <2>2
    <3>. QED
      BY <2>1, <3>1, GotoStep
  <2>4. closed' \subseteq Runners
    BY <1>1, <1>7 DEF Test
  <2>5. Typed /\ QueueKept
    BY <1>1, <1>7, <2>4 DEF Test, Typed, QueueKept, tempVars, idVars
  <2>. QED
    BY <2>3, <2>5, MoveInv
<1>8. CASE Reserve(r) \/ Raise(r) \/ RunTask(r) \/ RoundEnds(r)
  <2>1. /\ runner[r].pc \in {"reserve", "raise", "task", "run"} /\ begins' = begins
        /\ runner[r].pc = "run" => runner[r].temp = <<>>
    BY <1>8 DEF Reserve, Raise, RunTask, RoundEnds, At
  <2>2. \E pc \in {"readId", "test", "swap"} : Goto(r, pc)
    BY <1>8 DEF Reserve, Raise, RunTask, RoundEnds
  <2>3. Moves(r)
    <3>1. PICK pc \in RunnerPc \ {"swapped"} : Goto(r, pc)
      BY <1>2, <2>2
    <3>. QED
      BY <2>1, <3>1, GotoStep
  <2>4. Typed /\ QueueKept
    BY <1>1, <1>8
    DEF Reserve, Raise, RunTask, RoundEnds, Typed, QueueKept, tempVars, idVars
  <2>. QED
    BY <2>3, <2>4, MoveInv
<1>. QED
  BY <1>3, <1>4, <1>5, <1>6, <1>7, <1>8

(* What others do outside of the critical sections.                        *)
LEMMA CallInv ==
  ASSUME IInv,
         \/ Race
         \/ \E c \in Callers : Assign(c) \/ closeLoop(c) \/ \E t \in Tasks : SetTask(c, t)
  PROVE  IInv'
<1>1. UNCHANGED <<tempTasks, tempTaskMut, idSum, thread_loop_id, runner, begins, added, ran>>
  BY DEF Race, Assign, closeLoop, SetTask, tempVars, idVars
<1>2. Added' = Added /\ ThreadOfLoop' = ThreadOfLoop /\ ThreadOutside' = ThreadOutside
  BY <1>1 DEF Added, ThreadOfLoop, ThreadOutside
<1>3. Idle \in ThreadOutside
  BY EmptySeq DEF Idle, ThreadOutside, Added
<1>4. /\ flag' \in BOOLEAN /\ fault' \in BOOLEAN /\ closed' \subseteq Runners
      /\ task' \in Tasks \cup {NoTask} /\ caller' \in [Callers -> ThreadOutside]
      /\ \A d \in Callers : caller'[d] = caller[d] \/ caller'[d].pc # "push"
  <2>1. CASE Race
    BY <2>1 DEF Race, IInv, TypeOK
  <2>2. CASE \E c \in Callers : Assign(c)
    BY <2>2, <1>3 DEF Assign, IInv, TypeOK, ThreadOutside, Idle
  <2>3. CASE \E c \in Callers : closeLoop(c)
    BY <2>3 DEF closeLoop, IInv, TypeOK
  <2>4. CASE \E c \in Callers : \E t \in Tasks : SetTask(c, t)
    <3>1. PICK c \in Callers, t \in Tasks : SetTask(c, t)
      BY <2>4
    <3>2. [Idle EXCEPT !.pc = "assign", !.task = t] \in ThreadOutside
      BY <1>3 DEF Idle, ThreadOutside
    <3>3. [Idle EXCEPT !.pc = "assign", !.task = t].pc # "push"
      BY DEF Idle
    <3>. QED
      BY <3>1, <3>2, <3>3 DEF SetTask, IInv, TypeOK
  <2>. QED
    BY <2>1, <2>2, <2>3, <2>4
<1>5. TypeOK'
  BY <1>1, <1>2, <1>4 DEF IInv, TypeOK
<1>6. MutexKept' /\ TempsTaken' /\ NotBegun' /\ Swapping' = Swapping
  BY <1>1, <1>4 DEF IInv, MutexKept, TempsTaken, NotBegun, Swapping, At
<1>7. TempTasksInOrder'
  BY <1>1, <1>6 DEF IInv, TempTasksInOrder, Waiting
<1>. QED
  BY <1>5, <1>6, <1>7 DEF IInv

(* push_back gets its look at the vector.                                  *)
LEMMA AddInv ==
  ASSUME IInv, NEW c \in Callers, addTempTask(c)
  PROVE  IInv'
<1>1. /\ UNCHANGED <<tempTasks, idSum, thread_loop_id, runner, begins, added, ran>>
      /\ UNCHANGED <<flag, task, closed, fault>>
      /\ tempTaskMut = Free /\ tempTaskMut' = c
  BY DEF addTempTask, Lock, idVars
<1>2. Added' = Added /\ ThreadOfLoop' = ThreadOfLoop /\ ThreadOutside' = ThreadOutside
  BY <1>1 DEF Added, ThreadOfLoop, ThreadOutside
<1>3. tempTasks \in Added /\ caller \in [Callers -> ThreadOutside]
  BY DEF IInv, TypeOK
<1>4. [Idle EXCEPT !.pc = "push", !.seen = tempTasks] \in ThreadOutside
  BY <1>3 DEF Idle, ThreadOutside
<1>5. /\ caller' \in [Callers -> ThreadOutside]
      /\ caller'[c].seen = tempTasks
      /\ \A d \in Callers \ {c} : caller'[d] = caller[d]
  BY <1>3, <1>4 DEF addTempTask, Idle
<1>6. TypeOK'
  BY <1>1, <1>2, <1>5 DEF IInv, TypeOK
<1>7. Swapping = {} /\ \A d \in Callers : caller[d].pc # "push"
  BY <1>1, LoopAssumption DEF IInv, MutexKept, Swapping
<1>8. MutexKept'
  BY <1>1, <1>5, <1>7 DEF MutexKept, Swapping, At
<1>9. TempsTaken' /\ NotBegun' /\ Swapping' = Swapping
  BY <1>1 DEF IInv, TempsTaken, NotBegun, Swapping, At
<1>10. TempTasksInOrder'
  BY <1>1, <1>9 DEF IInv, TempTasksInOrder, Waiting
<1>. QED
  BY <1>6, <1>8, <1>9, <1>10 DEF IInv

(* push_back puts the task behind everything that was added before.        *)
LEMMA PushInv ==
  ASSUME IInv, NEW c \in Callers, Push(c)
  PROVE  IInv'
<1>1. /\ UNCHANGED <<idSum, thread_loop_id, runner, begins, ran>>
      /\ UNCHANGED <<flag, task, closed, fault>>
      /\ added' = added + 1 /\ tempTaskMut' = Free
      /\ tempTasks' = Append(caller[c].seen, added + 1)
  BY DEF Push, Unlock, idVars
<1>2. tempTaskMut = c /\ caller[c].seen = tempTasks
  BY DEF IInv, MutexKept, Push
<1>3. Swapping = {} /\ \A d \in Callers \ {c} : caller[d].pc # "push"
  BY <1>2, LoopAssumption DEF IInv, MutexKept, Swapping
<1>4. added \in Nat /\ 1..added \subseteq 1..added' /\ added' \in 1..added' /\ added' \in Nat
  BY <1>1 DEF IInv, TypeOK
<1>5. Added \subseteq Added'
  BY <1>4, SeqMonotonic DEF Added
<1>6. tempTasks' \in Added'
  <2>1. tempTasks \in Seq(1..added')
    BY <1>5 DEF IInv, TypeOK, Added
  <2>. QED
    BY <1>1, <1>2, <1>4, <2>1, AppendProperties DEF Added
<1>7. /\ ThreadOfLoop \subseteq ThreadOfLoop' /\ ThreadOutside \subseteq ThreadOutside'
      /\ ran' \in Added'
  BY <1>1, <1>5 DEF ThreadOfLoop, ThreadOutside, IInv, TypeOK
<1>8. /\ runner' \in [Runners -> ThreadOfLoop']
      /\ caller' \in [Callers -> ThreadOutside']
      /\ caller'[c].pc = "idle" /\ \A d \in Callers \ {c} : caller'[d] = caller[d]
  <2>1. Idle \in ThreadOutside'
    BY EmptySeq DEF Idle, ThreadOutside, Added
  <2>2. /\ caller \in [Callers -> ThreadOutside'] /\ runner \in [Runners -> ThreadOfLoop']
    BY <1>7 DEF IInv, TypeOK
  <2>. QED
    BY <1>1, <2>1, <2>2 DEF Push, Idle
<1>9. TypeOK'
  BY <1>1, <1>4, <1>6, <1>7, <1>8 DEF IInv, TypeOK
<1>10. MutexKept' /\ TempsTaken' /\ NotBegun' /\ Swapping' = {}
  BY <1>1, <1>3, <1>8 DEF IInv, MutexKept, TempsTaken, NotBegun, Swapping, At
<1>11. TempTasksInOrder'
  <2>. SUFFICES ASSUME NEW q \in Runners, \A p \in Runners \ {q} : begins[p] = 0
                PROVE  ran \o runner[q].temp \o Append(tempTasks, added + 1)
                         = [k \in 1..(added + 1) |-> k]
    BY <1>1, <1>2, <1>10 DEF TempTasksInOrder, Waiting
  <2>1. ran \o runner[q].temp \o tempTasks = [k \in 1..added |-> k]
    BY <1>3 DEF IInv, TempTasksInOrder, Waiting
  <2>2. /\ ran \o runner[q].temp \in Seq(Nat) /\ tempTasks \in Seq(Nat)
        /\ added \in Nat /\ added + 1 \in Nat
    BY Numbers
  <2>3. ran \o runner[q].temp \o Append(tempTasks, added + 1)
          = Append(ran \o runner[q].temp \o tempTasks, added + 1)
    <3>. DEFINE s == ran \o runner[q].temp
    <3>1. s \in Seq(Nat)
      BY <2>2
    <3>. HIDE DEF s
    <3>2. s \o Append(tempTasks, added + 1) = Append(s \o tempTasks, added + 1)
      BY <2>2, <3>1, AppendLast
    <3>. QED
      BY <3>2 DEF s
  <2>. QED
    BY <2>1, <2>2, <2>3, OneMore
<1>. QED
  BY <1>9, <1>10, <1>11 DEF IInv

(* The swap: what waited is what the round has taken.                      *)
LEMMA SwapInv ==
  ASSUME IInv, NEW r \in Runners, Swap(r)
  PROVE  IInv'
<1>1. /\ UNCHANGED <<tempTasks, idSum, thread_loop_id, caller, begins, added, ran>>
      /\ UNCHANGED <<flag, task, closed, fault>>
      /\ tempTaskMut = Free /\ tempTaskMut' = r
      /\ runner[r].pc = "swap"
  BY DEF Swap, Lock, At, idVars
<1>2. Added' = Added /\ ThreadOfLoop' = ThreadOfLoop /\ ThreadOutside' = ThreadOutside
  BY <1>1 DEF Added, ThreadOfLoop, ThreadOutside
<1>3. tempTasks \in Added /\ runner \in [Runners -> ThreadOfLoop]
  BY DEF IInv, TypeOK
<1>4. /\ runner' \in [Runners -> ThreadOfLoop]
      /\ runner'[r].pc = "swapped" /\ runner'[r].temp = tempTasks
      /\ \A q \in Runners \ {r} : runner'[q] = runner[q]
  BY <1>3 DEF Swap, Taken, ThreadOfLoop, RunnerPc
<1>5. TypeOK'
  BY <1>1, <1>2, <1>4 DEF IInv, TypeOK
<1>6. Swapping = {} /\ \A d \in Callers : caller[d].pc # "push"
  BY <1>1, LoopAssumption DEF IInv, MutexKept, Swapping
<1>7. MutexKept' /\ Swapping' = {r}
  BY <1>1, <1>4, <1>6 DEF MutexKept, Swapping, At
<1>8. TempsTaken'
  BY <1>4 DEF IInv, TempsTaken
<1>9. NotBegun'
  BY <1>1, <1>4 DEF IInv, NotBegun, At
<1>10. TempTasksInOrder'
  <2>. SUFFICES ASSUME NEW q \in Runners, \A p \in Runners \ {q} : begins[p] = 0
                PROVE  ran \o runner'[q].temp \o <<>> = [k \in 1..added |-> k]
    BY <1>1, <1>7 DEF TempTasksInOrder, Waiting
  <2>1. ran \o runner[q].temp \o tempTasks = [k \in 1..added |-> k]
    BY <1>6 DEF IInv, TempTasksInOrder, Waiting
  <2>2. q = r
    BY <1>1 DEF IInv, NotBegun, At
  <2>3. runner[r].temp = <<>>
    BY <1>1 DEF IInv, TempsTaken
  <2>4. ran \in Seq(Nat) /\ tempTasks \in Seq(Nat) /\ ran \o tempTasks \in Seq(Nat)
    BY Numbers, ConcatProperties
  <2>5. ran \o <<>> = ran /\ (ran \o tempTasks) \o <<>> = ran \o tempTasks
    BY <2>4, ConcatEmptySeq
  <2>. QED
    BY <1>4, <2>1, <2>2, <2>3, <2>5
<1>. QED
  BY <1>5, <1>7, <1>8, <1>9, <1>10 DEF IInv

(* The swap is over.                                                       *)
LEMMA SwappedInv ==
  ASSUME IInv, NEW r \in Runners, Swapped(r)
  PROVE  IInv'
<1>1. /\ UNCHANGED <<idSum, thread_loop_id, caller, begins, added, ran>>
      /\ UNCHANGED <<flag, task, closed, fault>>
      /\ tempTasks' = <<>> /\ tempTaskMut' = Free
      /\ runner[r].pc = "swapped"
  BY DEF Swapped, Unlock, At, idVars
<1>2. Added' = Added /\ ThreadOfLoop' = ThreadOfLoop /\ ThreadOutside' = ThreadOutside
  BY <1>1 DEF Added, ThreadOfLoop, ThreadOutside
<1>3. tempTasks' \in Added /\ runner \in [Runners -> ThreadOfLoop]
  BY <1>1, EmptySeq DEF IInv, TypeOK, Added
<1>4. /\ runner' \in [Runners -> ThreadOfLoop]
      /\ runner'[r].pc = "run" /\ runner'[r].temp = runner[r].temp
      /\ \A q \in Runners \ {r} : runner'[q] = runner[q]
  BY <1>3 DEF Swapped, Goto, ThreadOfLoop, RunnerPc
<1>5. TypeOK'
  BY <1>1, <1>2, <1>3, <1>4 DEF IInv, TypeOK
<1>6. tempTaskMut = r
  BY <1>1 DEF IInv, MutexKept, At
<1>7. Swapping = {r} /\ \A d \in Callers : caller[d].pc # "push"
  BY <1>1, <1>6, LoopAssumption DEF IInv, MutexKept, Swapping, At
<1>8. MutexKept' /\ Swapping' = {}
  BY <1>1, <1>4, <1>7 DEF MutexKept, Swapping, At
<1>9. TempsTaken' /\ NotBegun'
  BY <1>1, <1>4 DEF IInv, TempsTaken, NotBegun, At
<1>10. TempTasksInOrder'
  <2>1. \A q \in Runners : runner'[q].temp = runner[q].temp
    BY <1>4
  <2>. QED
    BY <1>1, <1>7, <1>8, <2>1 DEF IInv, TempTasksInOrder, Waiting
<1>. QED
  BY <1>5, <1>8, <1>9, <1>10 DEF IInv

(* A temporary task runs.                                                  *)
LEMMA RunTempInv ==
  ASSUME IInv, NEW r \in Runners, RunTemp(r)
  PROVE  IInv'
<1>1. /\ UNCHANGED <<tempTasks, tempTaskMut, idSum, thread_loop_id, caller, begins, added>>
      /\ UNCHANGED <<flag, task, closed, fault>>
      /\ runner[r].pc = "run" /\ runner[r].temp # <<>>
      /\ ran' = Append(ran, Head(runner[r].temp))
  BY DEF RunTemp, At, tempVars, idVars
<1>2. Added' = Added /\ ThreadOfLoop' = ThreadOfLoop /\ ThreadOutside' = ThreadOutside
  BY <1>1 DEF Added, ThreadOfLoop, ThreadOutside
<1>3. runner \in [Runners -> ThreadOfLoop] /\ runner[r].temp \in Added /\ ran \in Added
  BY DEF IInv, TypeOK, ThreadOfLoop
<1>4. Tail(runner[r].temp) \in Added /\ ran' \in Added
  BY <1>1, <1>3, HeadTailProperties, AppendProperties DEF Added
<1>5. /\ runner' \in [Runners -> ThreadOfLoop]
      /\ runner'[r].pc = "run" /\ runner'[r].temp = Tail(runner[r].temp)
      /\ \A q \in Runners \ {r} : runner'[q] = runner[q]
  BY <1>1, <1>3, <1>4 DEF RunTemp, ThreadOfLoop
<1>6. TypeOK'
  BY <1>1, <1>2, <1>4, <1>5 DEF IInv, TypeOK
<1>7. MutexKept' /\ TempsTaken' /\ NotBegun' /\ Swapping' = Swapping
  BY <1>1, <1>5 DEF IInv, MutexKept, TempsTaken, NotBegun, Swapping, At
<1>8. TempTasksInOrder'
  <2>. SUFFICES ASSUME NEW q \in Runners, \A p \in Runners \ {q} : begins[p] = 0
                PROVE  ran' \o runner'[q].temp \o Waiting = [k \in 1..added |-> k]
    BY <1>1, <1>7 DEF TempTasksInOrder, Waiting
  <2>1. ran \o runner[q].temp \o Waiting = [k \in 1..added |-> k]
    BY DEF IInv, TempTasksInOrder, Waiting
  <2>2. q = r
    BY <1>1 DEF IInv, NotBegun, At
  <2>3. ran' \o runner'[r].temp = ran \o runner[r].temp
    BY <1>1, <1>5, Numbers, MoveHead
  <2>. QED
    BY <2>1, <2>2, <2>3
<1>. QED
  BY <1>6, <1>7, <1>8 DEF IInv

LEMMA StepInv == IInv /\ [Next]_vars => IInv'
<1>. SUFFICES ASSUME IInv, [Next]_vars PROVE IInv'
  OBVIOUS
<1>1. CASE UNCHANGED vars
  <2>1. Added' = Added /\ ThreadOfLoop' = ThreadOfLoop /\ ThreadOutside' = ThreadOutside
    BY <1>1 DEF vars, Added, ThreadOfLoop, ThreadOutside
  <2>2. TypeOK'
    BY <1>1, <2>1 DEF vars, tempVars, idVars, IInv, TypeOK
  <2>. QED
    BY <1>1, <2>2 DEF vars, tempVars, idVars, IInv, MutexKept, TempsTaken, NotBegun,
                      TempTasksInOrder, Waiting, Swapping, At
<1>2. CASE \E r \in Runners : ~fault /\ Begin(r)
  BY <1>2, LoopMovesInv
<1>3. CASE \E r \in Runners : RunnerStep(r)
  BY <1>3, LoopMovesInv, SwapInv, SwappedInv, RunTempInv
  DEF RunnerStep, beginInCurrentThread
<1>4. CASE \E c \in Callers : CallerStep(c)
  BY <1>4, CallInv, AddInv, PushInv DEF CallerStep
<1>5. CASE ~fault /\ Race
  BY <1>5, CallInv
<1>. QED
  BY <1>1, <1>2, <1>3, <1>4, <1>5 DEF Next

THEOREM Invariance == Spec => []IInv
<1>. QED
  BY InitInv, StepInv, PTL DEF Spec

(* The state has its types: what waits, was taken and has run are tasks    *)
(* that were added.                                                        *)
THEOREM TypeCorrect == Spec => []TypeOK
<1>1. IInv => TypeOK
  BY DEF IInv
<1>. QED
  BY Invariance, <1>1, PTL

(* As long as one thread has begun the loop, temporary tasks run in the    *)
(* order they were added in, each once and none forgotten, whoever adds    *)
(* them and whenever the vector is swapped.                                *)
THEOREM TasksStayInOrder == Spec => []TempTasksInOrder
<1>1. IInv => TempTasksInOrder
  BY DEF IInv
<1>. QED
  BY Invariance, <1>1, PTL

-----------------------------------------------------------------------------
(***************************************************************************)
(* Each temporary task in one place.                                       *)
(***************************************************************************)
Has(s, k) == \E i \in 1..Len(s) : s[i] = k

Distinct(s) == \A i, j \in 1..Len(s) : s[i] = s[j] => i = j

LEMMA AppendHas ==
  ASSUME NEW S, NEW s \in Seq(S), NEW e \in S
  PROVE  /\ \A k : Has(Append(s, e), k) <=> Has(s, k) \/ k = e
         /\ Distinct(s) /\ ~Has(s, e) => Distinct(Append(s, e))
<1>. DEFINE t == Append(s, e)
            n == Len(s)
<1>1. n \in Nat /\ Len(t) = n + 1 /\ (\A i \in 1..n : t[i] = s[i]) /\ t[n + 1] = e
  BY AppendProperties, LenProperties
<1>. HIDE DEF t, n
<1>2. (\A i \in 1..(n + 1) : i \in 1..n \/ i = n + 1) /\ (\A i \in 1..n : i \in 1..(n + 1))
      /\ n + 1 \in 1..(n + 1)
  BY <1>1
<1>3. ASSUME NEW k PROVE Has(t, k) <=> Has(s, k) \/ k = e
  <2>1. Has(t, k) => Has(s, k) \/ k = e
    BY <1>1, <1>2 DEF Has, n
  <2>2. Has(s, k) => Has(t, k)
    BY <1>1, <1>2 DEF Has, n
  <2>3. k = e => Has(t, k)
    BY <1>1, <1>2 DEF Has
  <2>. QED
    BY <2>1, <2>2, <2>3
<1>4. ASSUME Distinct(s), ~Has(s, e) PROVE Distinct(t)
  <2>1. \A i, j \in 1..n : s[i] = s[j] => i = j
    BY <1>4 DEF Distinct, n
  <2>2. \A i \in 1..n : s[i] # e
    BY <1>4 DEF Has, n
  <2>. QED
    BY <1>1, <1>2, <2>1, <2>2 DEF Distinct
<1>. QED
  BY <1>3, <1>4 DEF t

LEMMA TailHas ==
  ASSUME NEW S, NEW s \in Seq(S), s # <<>>, Distinct(s)
  PROVE  /\ \A k : Has(Tail(s), k) <=> Has(s, k) /\ k # Head(s)
         /\ Has(s, Head(s)) /\ Distinct(Tail(s))
<1>. DEFINE t == Tail(s)
            n == Len(s)
            h == Head(s)
<1>1. /\ n \in Nat \ {0} /\ Len(t) = n - 1 /\ (\A i \in 1..(n - 1) : t[i] = s[i + 1]) /\ h = s[1]
  BY HeadTailProperties, LenProperties, EmptySeq
<1>2. \A i, j \in 1..n : s[i] = s[j] => i = j
  BY DEF Distinct
<1>. HIDE DEF t, n, h
<1>3. /\ \A i \in 1..(n - 1) : i + 1 \in 1..n /\ i + 1 # 1
      /\ \A i \in 1..n : i # 1 => i - 1 \in 1..(n - 1) /\ (i - 1) + 1 = i
      /\ 1 \in 1..n
      /\ \A i, j \in 1..(n - 1) : i + 1 = j + 1 => i = j
  BY <1>1
<1>4. ASSUME NEW k PROVE Has(t, k) <=> Has(s, k) /\ k # h
  <2>1. Has(t, k) => Has(s, k) /\ k # h
    BY <1>1, <1>2, <1>3 DEF Has, n
  <2>2. ASSUME Has(s, k), k # h PROVE Has(t, k)
    <3>1. PICK i \in 1..n : s[i] = k
      BY <2>2 DEF Has, n
    <3>2. i - 1 \in 1..(n - 1) /\ t[i - 1] = k
      BY <1>1, <1>3, <2>2, <3>1
    <3>. QED
      BY <1>1, <3>2 DEF Has
  <2>. QED
    BY <2>1, <2>2
<1>5. Has(s, h)
  BY <1>1, <1>3 DEF Has, n
<1>6. Distinct(t)
  BY <1>1, <1>2, <1>3 DEF Distinct
<1>. QED
  BY <1>4, <1>5, <1>6 DEF t, h

OnceInv ==
  /\ Distinct(ran) /\ Distinct(Waiting)
  /\ \A r \in Runners : Distinct(runner[r].temp)
  /\ \A k \in 1..added :
       /\ Has(ran, k) \/ Has(Waiting, k) \/ \E r \in Runners : Has(runner[r].temp, k)
       /\ ~(Has(ran, k) /\ Has(Waiting, k))
       /\ \A r \in Runners : Has(runner[r].temp, k) =>
            /\ ~Has(ran, k) /\ ~Has(Waiting, k)
            /\ \A q \in Runners : Has(runner[q].temp, k) => q = r

LEMMA EmptyHas == Distinct(<<>>) /\ \A k : ~Has(<<>>, k)
<1>. DEFINE e == <<>>
<1>1. Len(e) = 0
  BY EmptySeq
<1>. HIDE DEF e
<1>2. Distinct(e) /\ \A k : ~Has(e, k)
  BY <1>1 DEF Distinct, Has
<1>. QED
  BY <1>2 DEF e

(* What is in the queues are the numbers of tasks that were added.         *)
LEMMA NumbersAdded ==
  ASSUME IInv
  PROVE  /\ ran \in Seq(1..added) /\ tempTasks \in Seq(1..added) /\ Waiting \in Seq(1..added)
         /\ \A r \in Runners : runner[r].temp \in Seq(1..added)
         /\ \A k : Has(ran, k) \/ Has(Waiting, k) \/ Has(tempTasks, k) => k \in 1..added
         /\ \A k : \A r \in Runners : Has(runner[r].temp, k) => k \in 1..added
         /\ added \in Nat
<1>1. /\ ran \in Seq(1..added) /\ tempTasks \in Seq(1..added)
      /\ \A r \in Runners : runner[r].temp \in Seq(1..added)
      /\ added \in Nat
  BY DEF IInv, TypeOK, ThreadOfLoop, Added
<1>2. Waiting \in Seq(1..added)
  BY <1>1, EmptySeq DEF Waiting
<1>3. ASSUME NEW s \in Seq(1..added), NEW k, Has(s, k) PROVE k \in 1..added
  BY <1>3, ElementOfSeq DEF Has
<1>. QED
  BY <1>1, <1>2, <1>3

LEMMA InitOnce == Init => OnceInv
<1>. SUFFICES ASSUME Init PROVE OnceInv
  OBVIOUS
<1>1. ran = <<>> /\ Waiting = <<>> /\ added = 0 /\ \A r \in Runners : runner[r].temp = <<>>
  BY DEF Init, Waiting
<1>. QED
  BY <1>1, EmptyHas DEF OnceInv

(* The steps that move no temporary task.                                  *)
LEMMA StillOnce ==
  ASSUME IInv, OnceInv, UNCHANGED <<tempTasks, ran, added>>,
         \A r \in Runners : /\ runner'[r].temp = runner[r].temp
                            /\ At(r, "swapped")' <=> At(r, "swapped")
  PROVE  OnceInv'
<1>1. Swapping' = Swapping
  BY DEF Swapping
<1>2. Waiting' = Waiting
  BY <1>1 DEF Waiting
<1>3. Distinct(ran') /\ Distinct(Waiting') /\ \A r \in Runners : Distinct(runner'[r].temp)
  BY <1>2 DEF OnceInv
<1>4. \A k : /\ Has(ran', k) <=> Has(ran, k)
             /\ Has(Waiting', k) <=> Has(Waiting, k)
             /\ \A r \in Runners : Has(runner'[r].temp, k) <=> Has(runner[r].temp, k)
  BY <1>2
<1>. QED
  BY <1>3, <1>4 DEF OnceInv

(* A step of a thread that is neither at the swap nor in it.                *)
LEMMA GotoOnce ==
  ASSUME IInv, OnceInv, UNCHANGED <<tempTasks, ran, added>>, NEW r \in Runners,
         runner[r].pc # "swapped",
         \/ \E pc \in RunnerPc \ {"swapped"} : Goto(r, pc)
         \/ \E pc \in RunnerPc \ {"swapped"}, id \in Nat :
              runner' = [runner EXCEPT ![r].pc = pc, ![r].id = id]
  PROVE  OnceInv'
<1>1. runner \in [Runners -> ThreadOfLoop]
  BY DEF IInv, TypeOK
<1>2. \A q \in Runners : /\ runner'[q].temp = runner[q].temp
                         /\ runner'[q].pc = "swapped" <=> runner[q].pc = "swapped"
  <2>1. CASE \E pc \in RunnerPc \ {"swapped"} : Goto(r, pc)
    BY <1>1, <2>1 DEF Goto, ThreadOfLoop
  <2>2. CASE \E pc \in RunnerPc \ {"swapped"}, id \in Nat :
               runner' = [runner EXCEPT ![r].pc = pc, ![r].id = id]
    <3>1. PICK pc \in RunnerPc \ {"swapped"}, id \in Nat :
            runner' = [runner EXCEPT ![r].pc = pc, ![r].id = id]
      BY <2>2
    <3>. DEFINE once == [runner EXCEPT ![r].pc = pc]
    <3>2. /\ once \in [Runners -> ThreadOfLoop]
          /\ once[r].pc = pc /\ once[r].temp = runner[r].temp
          /\ \A q \in Runners \ {r} : once[q] = runner[q]
      BY <1>1 DEF ThreadOfLoop
    <3>3. runner' = [once EXCEPT ![r].id = id]
      BY <3>1
    <3>. HIDE DEF once
    <3>4. /\ runner'[r].pc = pc /\ runner'[r].temp = runner[r].temp
          /\ \A q \in Runners \ {r} : runner'[q] = runner[q]
      BY <3>2, <3>3 DEF ThreadOfLoop
    <3>. QED
      BY <3>4
  <2>. QED
    BY <2>1, <2>2
<1>. QED
  BY <1>2, StillOnce DEF At

LEMMA LoopMovesOnce ==
  ASSUME IInv, OnceInv, NEW r \in Runners,
         \/ Begin(r) \/ CheckId(r) \/ CheckTask(r) \/ CheckFlag(r) \/ Reserve(r) \/ ReadId(r)
         \/ WriteId(r) \/ Raise(r) \/ Test(r) \/ RunTask(r) \/ RoundEnds(r)
  PROVE  OnceInv'
<1>1. UNCHANGED <<tempTasks, ran, added>> /\ runner[r].pc # "swapped"
  BY DEF Begin, CheckId, CheckTask, CheckFlag, Check, Reserve, ReadId, WriteId, Raise, Test,
         RunTask, RoundEnds, At, tempVars
<1>2. CASE ReadId(r)
  <2>1. idSum + 1 \in Nat /\ "writeId" \in RunnerPc \ {"swapped"}
    BY DEF IInv, TypeOK, RunnerPc
  <2>2. runner' = [runner EXCEPT ![r].pc = "writeId", ![r].id = idSum + 1]
    BY <1>2 DEF ReadId
  <2>. QED
    BY <1>1, <2>1, <2>2, GotoOnce
<1>3. CASE \/ Begin(r) \/ CheckId(r) \/ CheckTask(r) \/ CheckFlag(r) \/ Reserve(r)
           \/ WriteId(r) \/ Raise(r) \/ Test(r) \/ RunTask(r) \/ RoundEnds(r)
  <2>1. \E pc \in RunnerPc \ {"swapped"} : Goto(r, pc)
    BY <1>3 DEF Begin, CheckId, CheckTask, CheckFlag, Check, Throw, Reserve, WriteId, Raise, Test,
                RunTask, RoundEnds, RunnerPc
  <2>. QED
    BY <1>1, <2>1, GotoOnce
<1>. QED
  BY <1>2, <1>3

(* Callers that add nothing.                                               *)
LEMMA CallOnce ==
  ASSUME IInv, OnceInv,
         \/ Race
         \/ \E c \in Callers : Assign(c) \/ closeLoop(c) \/ addTempTask(c) \/ \E t \in Tasks : SetTask(c, t)
         \/ UNCHANGED vars
  PROVE  OnceInv'
<1>1. UNCHANGED <<tempTasks, runner, added, ran>>
  BY DEF Race, Assign, closeLoop, SetTask, addTempTask, tempVars, vars
<1>. QED
  BY <1>1, StillOnce DEF At

(* A task is added behind those that wait.                                 *)
LEMMA PushOnce ==
  ASSUME IInv, OnceInv, NEW c \in Callers, Push(c)
  PROVE  OnceInv'
<1>1. /\ UNCHANGED <<runner, ran>> /\ added' = added + 1
      /\ tempTasks' = Append(caller[c].seen, added + 1)
  BY DEF Push
<1>2. tempTaskMut = c /\ caller[c].seen = tempTasks
  BY DEF IInv, MutexKept, Push
<1>3. Swapping = {} /\ Swapping' = {}
  BY <1>1, <1>2, LoopAssumption DEF IInv, MutexKept, Swapping, At
<1>4. Waiting = tempTasks /\ Waiting' = Append(Waiting, added + 1)
  BY <1>1, <1>2, <1>3 DEF Waiting
<1>5. added \in Nat /\ added + 1 \notin 1..added /\ added + 1 \in Nat
      /\ \A k \in 1..added' : k \in 1..added \/ k = added + 1
  BY <1>1, NumbersAdded
<1>6. /\ ~Has(ran, added + 1) /\ ~Has(Waiting, added + 1)
      /\ \A r \in Runners : ~Has(runner[r].temp, added + 1)
  BY <1>5, NumbersAdded
<1>7. /\ \A k : Has(Waiting', k) <=> Has(Waiting, k) \/ k = added + 1
      /\ Distinct(Waiting')
  <2>1. Waiting \in Seq(Nat)
    BY Numbers
  <2>. QED
    BY <1>4, <1>5, <1>6, <2>1, AppendHas DEF OnceInv
<1>8. Distinct(ran') /\ \A r \in Runners : Distinct(runner'[r].temp)
  BY <1>1 DEF OnceInv
<1>9. \A k : /\ Has(ran', k) <=> Has(ran, k)
             /\ \A r \in Runners : Has(runner'[r].temp, k) <=> Has(runner[r].temp, k)
  BY <1>1
<1>10. \A k \in 1..added' :
         /\ Has(ran', k) \/ Has(Waiting', k) \/ \E r \in Runners : Has(runner'[r].temp, k)
         /\ ~(Has(ran', k) /\ Has(Waiting', k))
         /\ \A r \in Runners : Has(runner'[r].temp, k) =>
              /\ ~Has(ran', k) /\ ~Has(Waiting', k)
              /\ \A q \in Runners : Has(runner'[q].temp, k) => q = r
  BY <1>5, <1>6, <1>7, <1>9 DEF OnceInv
<1>. QED
  BY <1>7, <1>8, <1>10 DEF OnceInv

(* The swap takes all that wait into a temp that was empty.                *)
LEMMA SwapOnce ==
  ASSUME IInv, OnceInv, NEW r \in Runners, Swap(r)
  PROVE  OnceInv'
<1>1. UNCHANGED <<tempTasks, added, ran>> /\ tempTaskMut = Free /\ runner[r].pc = "swap"
  BY DEF Swap, Lock, At
<1>2. runner \in [Runners -> ThreadOfLoop]
  BY DEF IInv, TypeOK
<1>3. /\ runner'[r].pc = "swapped" /\ runner'[r].temp = tempTasks
      /\ \A q \in Runners \ {r} : runner'[q] = runner[q]
  BY <1>2 DEF Swap, Taken, ThreadOfLoop
<1>4. Swapping = {} /\ r \in Swapping'
  BY <1>1, <1>3, LoopAssumption DEF IInv, MutexKept, Swapping, At
<1>5. Waiting = tempTasks /\ Waiting' = <<>>
  BY <1>4 DEF Waiting
<1>6. runner[r].temp = <<>>
  BY <1>1 DEF IInv, TempsTaken
<1>7. Distinct(ran') /\ Distinct(Waiting') /\ \A q \in Runners : Distinct(runner'[q].temp)
  BY <1>1, <1>3, <1>5, EmptyHas DEF OnceInv
<1>8. \A k : /\ Has(ran', k) <=> Has(ran, k)
             /\ ~Has(Waiting', k) /\ ~Has(runner[r].temp, k)
             /\ Has(runner'[r].temp, k) <=> Has(Waiting, k)
             /\ \A q \in Runners \ {r} : Has(runner'[q].temp, k) <=> Has(runner[q].temp, k)
  BY <1>1, <1>3, <1>5, <1>6, EmptyHas
<1>9. \A k \in 1..added' :
         /\ Has(ran', k) \/ Has(Waiting', k) \/ \E p \in Runners : Has(runner'[p].temp, k)
         /\ ~(Has(ran', k) /\ Has(Waiting', k))
         /\ \A p \in Runners : Has(runner'[p].temp, k) =>
              /\ ~Has(ran', k) /\ ~Has(Waiting', k)
              /\ \A q \in Runners : Has(runner'[q].temp, k) => q = p
  BY <1>1, <1>8 DEF OnceInv
<1>. QED
  BY <1>7, <1>9 DEF OnceInv

(* When it is over, the vector is empty.                                   *)
LEMMA SwappedOnce ==
  ASSUME IInv, OnceInv, NEW r \in Runners, Swapped(r)
  PROVE  OnceInv'
<1>1. UNCHANGED <<added, ran>> /\ tempTasks' = <<>> /\ runner[r].pc = "swapped"
  BY DEF Swapped, At
<1>2. runner \in [Runners -> ThreadOfLoop]
  BY DEF IInv, TypeOK
<1>3. \A q \in Runners : runner'[q].temp = runner[q].temp
  BY <1>2 DEF Swapped, Goto, ThreadOfLoop
<1>4. Waiting = <<>> /\ Waiting' = <<>>
  BY <1>1 DEF Waiting, Swapping, At
<1>5. Distinct(ran') /\ Distinct(Waiting') /\ \A q \in Runners : Distinct(runner'[q].temp)
  BY <1>1, <1>3, <1>4 DEF OnceInv
<1>6. \A k : /\ Has(ran', k) <=> Has(ran, k)
             /\ Has(Waiting', k) <=> Has(Waiting, k)
             /\ \A q \in Runners : Has(runner'[q].temp, k) <=> Has(runner[q].temp, k)
  BY <1>1, <1>3, <1>4
<1>. QED
  BY <1>1, <1>5, <1>6 DEF OnceInv

(* The task at the front of temp is run.                                   *)
LEMMA RunTempOnce ==
  ASSUME IInv, OnceInv, NEW r \in Runners, RunTemp(r)
  PROVE  OnceInv'
<1>1. /\ UNCHANGED <<tempTasks, added>>
      /\ runner[r].pc = "run" /\ runner[r].temp # <<>>
      /\ ran' = Append(ran, Head(runner[r].temp))
  BY DEF RunTemp, At, tempVars
<1>2. runner \in [Runners -> ThreadOfLoop] /\ runner[r].temp \in Seq(Nat) /\ ran \in Seq(Nat)
  BY Numbers DEF IInv, TypeOK
<1>3. /\ runner'[r].pc = "run" /\ runner'[r].temp = Tail(runner[r].temp)
      /\ \A q \in Runners \ {r} : runner'[q] = runner[q]
  BY <1>1, <1>2 DEF RunTemp, ThreadOfLoop
<1>4. PICK h \in Nat : h = Head(runner[r].temp)
  BY <1>1, <1>2, HeadTailProperties
<1>5. Waiting' = Waiting
  BY <1>1, <1>3 DEF Waiting, Swapping, At
<1>6. /\ \A k : Has(runner'[r].temp, k) <=> Has(runner[r].temp, k) /\ k # h
      /\ Has(runner[r].temp, h) /\ Distinct(runner'[r].temp)
  BY <1>1, <1>2, <1>3, <1>4, TailHas DEF OnceInv
<1>7. h \in 1..added
  BY <1>6, NumbersAdded
<1>8. ~Has(ran, h) /\ ~Has(Waiting, h) /\ \A q \in Runners : Has(runner[q].temp, h) => q = r
  BY <1>6, <1>7 DEF OnceInv
<1>9. Distinct(ran') /\ \A k : Has(ran', k) <=> Has(ran, k) \/ k = h
  BY <1>1, <1>2, <1>4, <1>8, AppendHas DEF OnceInv
<1>10. Distinct(Waiting') /\ \A q \in Runners : Distinct(runner'[q].temp)
  BY <1>3, <1>5, <1>6 DEF OnceInv
<1>11. \A k : /\ Has(Waiting', k) <=> Has(Waiting, k)
              /\ \A q \in Runners \ {r} : Has(runner'[q].temp, k) <=> Has(runner[q].temp, k)
  BY <1>3, <1>5
<1>12. \A k \in 1..added' :
         /\ Has(ran', k) \/ Has(Waiting', k) \/ \E p \in Runners : Has(runner'[p].temp, k)
         /\ ~(Has(ran', k) /\ Has(Waiting', k))
         /\ \A p \in Runners : Has(runner'[p].temp, k) =>
              /\ ~Has(ran', k) /\ ~Has(Waiting', k)
              /\ \A q \in Runners : Has(runner'[q].temp, k) => q = p
  BY <1>1, <1>6, <1>8, <1>9, <1>11 DEF OnceInv
<1>. QED
  BY <1>9, <1>10, <1>12 DEF OnceInv

THEOREM OnceInvariance == Spec => []OnceInv
<1>1. IInv /\ OnceInv /\ [Next]_vars => OnceInv'
  <2>. SUFFICES ASSUME IInv, OnceInv, [Next]_vars PROVE OnceInv'
    OBVIOUS
  <2>1. CASE \E r \in Runners : ~fault /\ Begin(r)
    BY <2>1, LoopMovesOnce
  <2>2. CASE \E r \in Runners : RunnerStep(r)
    BY <2>2, LoopMovesOnce, SwapOnce, SwappedOnce, RunTempOnce DEF RunnerStep, beginInCurrentThread
  <2>3. CASE \E c \in Callers : CallerStep(c)
    BY <2>3, CallOnce, PushOnce DEF CallerStep
  <2>4. CASE (~fault /\ Race) \/ UNCHANGED vars
    BY <2>4, CallOnce
  <2>. QED
    BY <2>1, <2>2, <2>3, <2>4 DEF Next
<1>. QED
  BY <1>1, InitOnce, Invariance, PTL DEF Spec

(* Whoever adds, and in however many threads the loop was begun, a         *)
(* temporary task is in one place (loop.cpp:48-58, :94-98): it waits, is   *)
(* taken for the round of one thread, or was run, once.                    *)
THEOREM TempTasksRunOnce == Spec => []TempTasksOnce
<1>1. ASSUME IInv, OnceInv, NEW k \in 1..added
      PROVE  Cardinality(TempPlaces(k)) = 1
  <2>. DEFINE P == TempPlaces(k)
  <2>1. /\ DOMAIN ran = 1..Len(ran) /\ DOMAIN Waiting = 1..Len(Waiting)
        /\ \A r \in Runners : DOMAIN runner[r].temp = 1..Len(runner[r].temp)
    BY <1>1, Numbers, LenProperties
  <2>2. ASSUME NEW x \in P
        PROVE  \/ \E i \in 1..Len(ran) : x = <<"ran", i>> /\ ran[i] = k
               \/ \E i \in 1..Len(Waiting) : x = <<"waiting", i>> /\ Waiting[i] = k
               \/ \E r \in Runners : \E i \in 1..Len(runner[r].temp) :
                    x = <<"taken", <<r, i>>>> /\ runner[r].temp[i] = k
    BY <2>1, <2>2 DEF TempPlaces, PlacesIn
  <2>3. /\ \A i \in 1..Len(ran) : ran[i] = k => <<"ran", i>> \in P
        /\ \A i \in 1..Len(Waiting) : Waiting[i] = k => <<"waiting", i>> \in P
        /\ \A r \in Runners : \A i \in 1..Len(runner[r].temp) :
             runner[r].temp[i] = k => <<"taken", <<r, i>>>> \in P
    BY <2>1 DEF TempPlaces, PlacesIn
  <2>. HIDE DEF P
  <2>4. P # {}
    BY <1>1, <2>3 DEF OnceInv, Has
  <2>5. /\ \A i, j \in 1..Len(ran) : ran[i] = k /\ ran[j] = k => i = j
        /\ \A i, j \in 1..Len(Waiting) : Waiting[i] = k /\ Waiting[j] = k => i = j
        /\ \A r \in Runners : \A i, j \in 1..Len(runner[r].temp) :
             runner[r].temp[i] = k /\ runner[r].temp[j] = k => i = j
    BY <1>1 DEF OnceInv, Distinct
  <2>6. \A x, y \in P : x = y
    <3>. SUFFICES ASSUME NEW x \in P, NEW y \in P PROVE x = y
      OBVIOUS
    <3>1. CASE Has(ran, k)
      <4>1. ~Has(Waiting, k) /\ \A r \in Runners : ~Has(runner[r].temp, k)
        BY <1>1, <3>1 DEF OnceInv
      <4>2. \A z \in P : \E i \in 1..Len(ran) : z = <<"ran", i>> /\ ran[i] = k
        BY <2>2, <4>1 DEF Has
      <4>. QED
        BY <2>5, <4>2
    <3>2. CASE Has(Waiting, k)
      <4>1. ~Has(ran, k) /\ \A r \in Runners : ~Has(runner[r].temp, k)
        BY <1>1, <3>2 DEF OnceInv
      <4>2. \A z \in P : \E i \in 1..Len(Waiting) : z = <<"waiting", i>> /\ Waiting[i] = k
        BY <2>2, <4>1 DEF Has
      <4>. QED
        BY <2>5, <4>2
    <3>3. CASE \E r \in Runners : Has(runner[r].temp, k)
      <4>0. PICK r \in Runners : Has(runner[r].temp, k)
        BY <3>3
      <4>1. /\ ~Has(ran, k) /\ ~Has(Waiting, k)
            /\ \A q \in Runners : Has(runner[q].temp, k) => q = r
        BY <1>1, <4>0 DEF OnceInv
      <4>2. \A z \in P : \E i \in 1..Len(runner[r].temp) :
              z = <<"taken", <<r, i>>>> /\ runner[r].temp[i] = k
        BY <2>2, <4>1 DEF Has
      <4>. QED
        BY <2>5, <4>2
    <3>. QED
      BY <1>1, <3>1, <3>2, <3>3 DEF OnceInv
  <2>7. PICK x \in P : P = {x}
    BY <2>4, <2>6
  <2>8. Cardinality(P) = 1
    BY <2>7, FS_Singleton
  <2>. QED
    BY <2>8 DEF P
<1>2. IInv /\ OnceInv => TempTasksOnce
  BY <1>1 DEF TempTasksOnce
<1>. QED
  BY <1>2, Invariance, OnceInvariance, PTL
=============================================================================
