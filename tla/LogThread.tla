------------------------------ MODULE LogThread ------------------------------
(***************************************************************************)
(* The asynchronous logger.  Threads hand blocks of text to apendMessage,  *)
(* which copies them into the current buffer under mut_; a full buffer     *)
(* goes to readyBuf_, and the log thread writes what is ready to the file  *)
(* and returns the buffers to preBuf_.                                     *)
(*                                                                         *)
(* apendMessage unlocks mut_ itself when it changed the buffer, and its    *)
(* unique_lock, which still thinks it owns mut_, unlocks it again.  With   *)
(* glibc that frees the mutex, whoever holds it by then.  A step of this   *)
(* module is an operation on the shared state, small enough to show what   *)
(* two threads that are inside at once can do to each other; how the       *)
(* operations of one vector or deque would mix is not modelled.            *)
(***************************************************************************)
EXTENDS Integers, Sequences, FiniteSets, SequencesExt

CONSTANTS
  Threads,     \* the threads that log
  Worker,      \* the log thread
  None,        \* no block, an untouched byte
  OverFlow,    \* overFlowMes in a buffer
  Blocks,      \* how many blocks a thread hands over, at most
  bufSize,     \* bufSize_, in units of a block
  bufNum,      \* bufNum_
  OverIndex,   \* sizeof(overFlowMes), likewise
  maxSizePreFile, \* maxSizePreFile_, likewise
  printMes     \* printMes_, from the configuration

ASSUME LogThreadAssumption ==
  /\ Worker \notin Threads
  /\ bufNum \in Nat /\ bufNum >= 2          \* the assert of the constructor
  /\ Blocks \in Nat /\ bufSize \in Nat /\ OverIndex \in 1..(bufSize - 1)
  /\ maxSizePreFile \in Nat /\ printMes \in BOOLEAN

Procs == Threads \cup {Worker}

(* A block is named after its writer and its number.                       *)
Block == Procs \X (1..Blocks)

ASSUME OverFlowAssumption == OverFlow \notin Block

VARIABLES
  currentBuf,       \* currentBuf_: a cell is a block, OverFlow or None
  currentBufIndex,  \* currentBufIndex_
  preBuf,           \* preBuf_, a stack: only how many buffers it has matters
  readyBuf,         \* readyBuf_
  bufToWrite,       \* bufToWrite_
  reloadMes,        \* reloadMes_
  locked,           \* mut_
  files,            \* the log files, each the cells written to it
  writeBytes,       \* LogFile::writeBytes_
  pc,               \* where each thread is
  sent,             \* blocks each thread has handed over or is handing over
  changed,          \* the local flag of each apendMessage
  reported,         \* what the log thread's report says of reloadMes_
  fault             \* an assert failed or memory was overrun: the program is gone

bufVars  == <<currentBuf, currentBufIndex, preBuf, readyBuf, bufToWrite, reloadMes>>
fileVars == <<files, writeBytes>>
vars == <<bufVars, locked, fileVars, pc, sent, changed, reported, fault>>

Fresh == [i \in 1..bufSize |-> None]

Init ==
  /\ currentBuf = Fresh /\ currentBufIndex = 0
  /\ preBuf = bufNum - 1
  /\ readyBuf = <<>> /\ bufToWrite = <<>>
  /\ reloadMes = FALSE
  /\ locked = FALSE
  /\ files = << <<>> >> /\ writeBytes = 0
  /\ pc = [p \in Procs |-> IF p = Worker THEN "lock" ELSE "idle"]
  /\ sent = [p \in Procs |-> 0]
  /\ changed = [p \in Procs |-> FALSE]
  /\ reported = FALSE
  /\ fault = FALSE

Goto(p, l) == pc' = [pc EXCEPT ![p] = l]
At(p, l)   == ~fault /\ pc[p] = l

-----------------------------------------------------------------------------
(***************************************************************************)
(* apendMessage, called by any thread, the log thread included.            *)
(***************************************************************************)
Call(p) ==
  /\ At(p, "idle")
  /\ sent[p] < Blocks
  /\ sent' = [sent EXCEPT ![p] = @ + 1]
  /\ changed' = [changed EXCEPT ![p] = FALSE]
  /\ Goto(p, "acquire")
  /\ UNCHANGED <<bufVars, fileVars, locked, reported, fault>>

Acquire(p) ==
  /\ At(p, "acquire")
  /\ ~locked /\ locked' = TRUE
  /\ Goto(p, "check")
  /\ UNCHANGED <<bufVars, fileVars, sent, changed, reported, fault>>

freeSize == bufSize - currentBufIndex

(* A block takes one unit.                                                 *)
FullTooLate == freeSize < 0        \* variant: one more block than there is room for
Full        == freeSize < 1

Check(p) ==
  /\ At(p, "check")
  /\ fault' = (freeSize < 0)
  /\ Goto(p, IF Full THEN "change" ELSE "copy")
  /\ changed' = [changed EXCEPT ![p] = Full]
  /\ UNCHANGED <<bufVars, fileVars, locked, sent, reported>>

(* try_pop of preBuf_.                                                     *)
HasFree == preBuf > 0

(* changeBuf with a free buffer.                                           *)
ReadyFirst(full) == <<full>> \o readyBuf   \* variant: at the other end
ReadyLast(full)  == Append(readyBuf, full)

Change(p) ==
  /\ At(p, "change") /\ HasFree
  /\ preBuf' = preBuf - 1
  /\ readyBuf' = ReadyLast([buf |-> currentBuf, size |-> currentBufIndex])
  /\ currentBuf' = Fresh
  /\ currentBufIndex' = 0
  /\ Goto(p, "copy")
  /\ UNCHANGED <<bufToWrite, reloadMes, fileVars, locked, sent, changed, reported, fault>>

(* changeBuf without one: the text of the current buffer is given up.      *)
Overflowed == [i \in 1..bufSize |-> IF i <= OverIndex THEN OverFlow ELSE None]

ChangeOver(p) ==
  /\ At(p, "change") /\ ~HasFree
  /\ currentBuf' = Overflowed
  /\ currentBufIndex' = OverIndex
  /\ reloadMes' = TRUE
  /\ Goto(p, "copy")
  /\ UNCHANGED <<preBuf, readyBuf, bufToWrite, fileVars, locked, sent, changed, reported, fault>>

(* memcpy to where the index points.                                       *)
ToFront == 1                       \* variant: the index is not added
ToNext  == currentBufIndex + 2     \* variant: one further
Target  == currentBufIndex + 1

Copy(p) ==
  /\ At(p, "copy")
  /\ IF Target <= bufSize
       THEN /\ currentBuf' = [currentBuf EXCEPT ![Target] = <<p, sent[p]>>]
            /\ UNCHANGED fault
       ELSE fault' = TRUE /\ UNCHANGED currentBuf
  /\ Goto(p, "bump")
  /\ UNCHANGED <<currentBufIndex, preBuf, readyBuf, bufToWrite, reloadMes, fileVars, locked,
                 sent, changed, reported>>

Bump(p) ==
  /\ At(p, "bump")
  /\ currentBufIndex' = currentBufIndex + 1
  /\ Goto(p, IF changed[p] THEN "unlock" ELSE "release")
  /\ UNCHANGED <<currentBuf, preBuf, readyBuf, bufToWrite, reloadMes, fileVars, locked,
                 sent, changed, reported, fault>>

(* mut_.unlock() behind the back of guard.                                 *)
Unlock(p) ==
  /\ At(p, "unlock")
  /\ locked' = FALSE
  /\ Goto(p, "notify")
  /\ UNCHANGED <<bufVars, fileVars, sent, changed, reported, fault>>

(* notify_one: the log thread is the only one that waits.                  *)
Notify(p) ==
  /\ At(p, "notify")
  /\ pc' = [q \in Procs |-> CASE q = p -> "release"
                             [] q # p /\ pc[q] = "asleep" -> "woken"
                             [] OTHER -> pc[q]]
  /\ UNCHANGED <<bufVars, fileVars, locked, sent, changed, reported, fault>>

(* The destructor of guard.  Back in logLoop, in the case of the log thread. *)
Release(p) ==
  /\ At(p, "release")
  /\ locked' = FALSE
  /\ Goto(p, IF p = Worker THEN "lock" ELSE "idle")
  /\ UNCHANGED <<bufVars, fileVars, sent, changed, reported, fault>>

apendMessage(p) ==
  \/ Acquire(p) \/ Check(p) \/ Change(p) \/ ChangeOver(p) \/ Copy(p) \/ Bump(p)
  \/ Unlock(p) \/ Notify(p) \/ Release(p)

-----------------------------------------------------------------------------
(***************************************************************************)
(* logLoop.                                                                *)
(***************************************************************************)
Lock ==
  /\ \E l \in {"lock", "woken"} : At(Worker, l)
  /\ ~locked /\ locked' = TRUE
  /\ Goto(Worker, "test")
  /\ UNCHANGED <<bufVars, fileVars, sent, changed, reported, fault>>

Test ==
  /\ At(Worker, "test")
  /\ Goto(Worker, IF readyBuf = <<>> THEN "wait" ELSE "swap")
  /\ UNCHANGED <<bufVars, fileVars, locked, sent, changed, reported, fault>>

(* waiter_.wait: it is a waiter as soon as it lets go of mut_.             *)
LetGoNever == locked               \* variant: it sleeps with mut_
LetGo      == FALSE

Wait ==
  /\ At(Worker, "wait")
  /\ locked' = LetGo
  /\ Goto(Worker, "asleep")
  /\ UNCHANGED <<bufVars, fileVars, sent, changed, reported, fault>>

(* A wait may return without a notification.                               *)
Spurious ==
  /\ At(Worker, "asleep")
  /\ Goto(Worker, "woken")
  /\ UNCHANGED <<bufVars, fileVars, locked, sent, changed, reported, fault>>

(* The two asserts around the swap, and the swap.  The 5 of the second one *)
(* is bufNum_.                                                             *)
Swap ==
  /\ At(Worker, "swap")
  /\ fault' = (bufToWrite # <<>> \/ Len(readyBuf) > bufNum)
  /\ bufToWrite' = readyBuf /\ readyBuf' = bufToWrite
  /\ locked' = FALSE
  /\ Goto(Worker, "flush")
  /\ UNCHANGED <<currentBuf, currentBufIndex, preBuf, reloadMes, fileVars, sent, changed, reported>>

(* LogFile::writeMessage, and changeFile when the file is large enough.    *)
writeMessage(cells) ==
  LET last == Len(files)
      grown == [files EXCEPT ![last] = @ \o cells]
      bytes == writeBytes + Len(cells)
  IN  IF bytes > maxSizePreFile
        THEN files' = Append(grown, <<>>) /\ writeBytes' = 0
        ELSE files' = grown /\ writeBytes' = bytes

(* MyQueue::push refuses a buffer beyond its maxSize_, which would be lost. *)
PushNever == preBuf                        \* variant: the buffer is not returned
Push      == IF preBuf = bufNum THEN preBuf ELSE preBuf + 1

(* One round of the loop of flushToFile, from the back of the batch.       *)
FlushOne ==
  /\ At(Worker, "flush") /\ bufToWrite # <<>>
  /\ LET b == Last(bufToWrite) IN
       IF b.size <= bufSize
         THEN writeMessage(SubSeq(b.buf, 1, b.size)) /\ UNCHANGED fault
         ELSE fault' = TRUE /\ UNCHANGED fileVars
  /\ bufToWrite' = Front(bufToWrite)
  /\ preBuf' = Push
  /\ UNCHANGED <<currentBuf, currentBufIndex, readyBuf, reloadMes, locked, pc, sent, changed, reported>>

Flushed ==
  /\ At(Worker, "flush") /\ bufToWrite = <<>>
  /\ Goto(Worker, IF printMes THEN "report" ELSE "lock")
  /\ UNCHANGED <<bufVars, fileVars, locked, sent, changed, reported, fault>>

(* writeLogMes: the snprintf, which reads reloadMes_, ...                  *)
Report ==
  /\ At(Worker, "report")
  /\ reported' = reloadMes
  /\ Goto(Worker, "reset")
  /\ UNCHANGED <<bufVars, fileVars, locked, sent, changed, fault>>

(* ... and after it the reset.  The bound on blocks ends the reports.      *)
Reset ==
  /\ At(Worker, "reset")
  /\ reloadMes' = FALSE
  /\ IF sent[Worker] < Blocks
       THEN /\ sent' = [sent EXCEPT ![Worker] = @ + 1]
            /\ changed' = [changed EXCEPT ![Worker] = FALSE]
            /\ Goto(Worker, "acquire")
       ELSE Goto(Worker, "lock") /\ UNCHANGED <<sent, changed>>
  /\ UNCHANGED <<currentBuf, currentBufIndex, preBuf, readyBuf, bufToWrite, fileVars, locked,
                 reported, fault>>

logLoop ==
  Lock \/ Test \/ Wait \/ Swap \/ FlushOne \/ Flushed \/ Report \/ Reset

Next ==
  \/ \E p \in Threads : Call(p)
  \/ \E p \in Procs : apendMessage(p)
  \/ logLoop
  \/ Spurious

Spec == Init /\ [][Next]_vars

(* Every thread that is not waiting for a block to log is scheduled.       *)
FairSpec ==
  /\ Spec
  /\ \A p \in Procs : SF_vars(apendMessage(p))
  /\ SF_vars(logLoop)

-----------------------------------------------------------------------------
(***************************************************************************)
(* Properties.                                                             *)
(***************************************************************************)
Cell   == Block \cup {OverFlow, None}
Buffer == [1..bufSize -> Cell]
Filled == [buf : Buffer, size : Nat]

TypeOK ==
  /\ currentBuf \in Buffer /\ currentBufIndex \in Nat
  /\ preBuf \in 0..bufNum
  /\ readyBuf \in Seq(Filled) /\ bufToWrite \in Seq(Filled)
  /\ reloadMes \in BOOLEAN /\ locked \in BOOLEAN /\ reported \in BOOLEAN /\ fault \in BOOLEAN
  /\ files \in Seq(Seq(Cell)) /\ writeBytes \in Nat
  /\ pc \in [Procs -> {"idle", "acquire", "check", "change", "copy", "bump", "unlock", "notify",
                       "release", "lock", "test", "wait", "asleep", "woken", "swap", "flush",
                       "report", "reset"}]
  /\ sent \in [Procs -> 0..Blocks] /\ changed \in [Procs -> BOOLEAN]

(* The blocks in the filled part of a buffer.                              *)
TextOf(buf, size) == {buf[i] : i \in 1..(IF size <= bufSize THEN size ELSE bufSize)} \cap Block

TextsOf(batch) == UNION {TextOf(batch[i].buf, batch[i].size) : i \in DOMAIN batch}

InCurrent == TextOf(currentBuf, currentBufIndex)
Unwritten == InCurrent \cup TextsOf(readyBuf) \cup TextsOf(bufToWrite)
InFile    == (UNION {Range(files[i]) : i \in DOMAIN files}) \cap Block
InLog     == Unwritten \cup InFile

(* However the threads interleave, the bufNum_ buffers stay bufNum_: none  *)
(* is refused by preBuf_ and destroyed, and readyBuf_ and bufToWrite_ stay *)
(* bounded (the assert of log_thread.cpp:116).                             *)
BuffersConserved == preBuf + Len(readyBuf) + Len(bufToWrite) = bufNum - 1

(* With one thread that logs and a log thread that does not, the text of   *)
(* apendMessage is in the log when it returns, ...                         *)
AppendedIsInLog ==
  \A p \in Threads :
    pc[p] \in {"unlock", "notify", "release"} => <<p, sent[p]>> \in InLog

(* ... stays there while the buffers move from thread to thread, unless    *)
(* every buffer is full (log_thread.cpp:83), and then the file tells;      *)
LostOnlyByOverflow ==
  [][\A b \in Block : b \in InLog /\ b \notin InLog' =>
       /\ preBuf = 0 /\ b \in InCurrent
       /\ OverFlow \in {currentBuf'[i] : i \in 1..currentBufIndex'}]_vars

(* and no assert fails and no buffer is overrun.                           *)
NoFault == ~fault

(* flushToFile writes a batch from its back (log_thread.cpp:165), so the    *)
(* blocks of a thread are out of order in the files.  But a batch is older *)
(* than all that waits, what waits waits in the order it was written, and  *)
(* a block in the files is less than one batch away from its place.        *)
Older(S, T) == \A b \in S, c \in T : b[1] = c[1] => b[2] < c[2]

BatchesKeepOrder ==
  /\ Older(InFile \cup TextsOf(bufToWrite), TextsOf(readyBuf) \cup InCurrent)
  /\ \A i \in DOMAIN readyBuf :
       Older(TextsOf(SubSeq(readyBuf, 1, i)), TextsOf(SubSeq(readyBuf, i + 1, Len(readyBuf)))
                                                \cup InCurrent)
  /\ LET written == FlattenSeq(files) IN
       \A i, j \in DOMAIN written :
         /\ i < j /\ written[i] \in Block /\ written[j] \in Block
         /\ ~Older({written[i]}, {written[j]})
         => j - i < (bufNum - 1) * bufSize

(* A call of apendMessage returns: mut_ is never left locked, by the log   *)
(* thread that waits or by the one that logs.                              *)
CallsReturn == \A p \in Procs : pc[p] = "acquire" ~> pc[p] \in {"idle", "lock"} \/ fault

(***************************************************************************)
(* What comments and assertions of the code say, and the code does not do. *)
(***************************************************************************)

(* log_thread.cpp:56: assert(temp >= 0), the free size under mut_.         *)
FreeSizeNotNegative == \A p \in Procs : pc[p] = "check" => freeSize >= 0

(* log_thread.cpp:70: "wake up the worker thread".  A full buffer is       *)
(* eventually taken by it.                                                 *)
ReadyIsWritten == readyBuf # <<>> ~> readyBuf = <<>> \/ fault

(* log_thread.cpp:83: without free memory "overwrite the oldest data".     *)
(* What is given up is older than what is kept.                            *)
OldestIsOverwritten ==
  [][\A b \in Block, c \in Block :
       b \in InLog /\ b \notin InLog' /\ c \in Unwritten' /\ b[1] = c[1] => b[2] < c[2]]_vars

(* log_thread.h:74: reloadMes_ records whether text was overwritten since  *)
(* the last report.  The reset forgets nothing that was not reported.      *)
OverflowIsReported == [][reloadMes /\ ~reloadMes' => reported]_vars
=============================================================================
