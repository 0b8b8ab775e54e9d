------------------------------- MODULE LogProof -------------------------------
(***************************************************************************)
(* Theorems about LogThread, for every number of threads and of buffers,   *)
(* whatever the double unlock of apendMessage lets them do to each other;  *)
(* and, below, about the LogBuffer that hands it its blocks, for every     *)
(* size of the buffer and of a piece.                                      *)
(***************************************************************************)
EXTENDS LogThread, LogBuffer, SequenceTheorems, WellFoundedInduction, TLAPS

(* The types of the buffers, of the files and of the threads.              *)
BuffersType ==
  /\ currentBuf \in Buffer /\ currentBufIndex \in Nat
  /\ preBuf \in 0..bufNum
  /\ readyBuf \in Seq(Filled) /\ bufToWrite \in Seq(Filled)

FilesType == files \in Seq(Seq(Cell)) /\ Len(files) >= 1 /\ writeBytes \in Nat

Pcs == {"idle", "acquire", "check", "change", "copy", "bump", "unlock", "notify",
        "release", "lock", "test", "wait", "asleep", "woken", "swap", "flush",
        "report", "reset"}

(* A thread that is about to copy a block has a block to copy.              *)
Copying == {"acquire", "check", "change", "copy"}

Calling == \A p \in Procs : pc[p] \in Copying => sent[p] >= 1

ThreadsType ==
  /\ reloadMes \in BOOLEAN /\ locked \in BOOLEAN /\ reported \in BOOLEAN /\ fault \in BOOLEAN
  /\ pc \in [Procs -> Pcs]
  /\ sent \in [Procs -> 0..Blocks] /\ changed \in [Procs -> BOOLEAN]

IInv == BuffersType /\ FilesType /\ ThreadsType /\ Calling /\ BuffersConserved

(* The invariant holds the types.                                          *)
LEMMA IInvTypeOK == IInv => TypeOK
BY Zenon DEF IInv, BuffersType, FilesType, ThreadsType, Pcs, TypeOK

-----------------------------------------------------------------------------
(* Initially every buffer but the current one is free.                     *)
LEMMA InitInv == Init => IInv
<1>. SUFFICES ASSUME Init PROVE IInv
  OBVIOUS
<1>1. Fresh \in Buffer
  BY DEF Fresh, Buffer, Cell
<1>2. <<>> \in Seq(Filled) /\ <<>> \in Seq(Cell) /\ Len(<<>>) = 0
  BY EmptySeq
<1>3. bufNum - 1 \in 0..bufNum
  BY LogThreadAssumption
<1>4. BuffersType
  BY <1>1, <1>2, <1>3 DEF Init, BuffersType
<1>5. << <<>> >> \in Seq(Seq(Cell)) /\ Len(<< <<>> >>) = 1
  <2>. DEFINE empty == <<>>
  <2>1. empty \in Seq(Cell)
    BY <1>2
  <2>. HIDE DEF empty
  <2>2. <<empty>> \in Seq(Seq(Cell)) /\ Len(<<empty>>) = 1
    BY <2>1
  <2>. QED
    BY <2>2 DEF empty
<1>6. FilesType
  BY <1>5 DEF Init, FilesType
<1>7. ThreadsType
  <2>1. pc \in [Procs -> Pcs]
    BY DEF Init, Pcs
  <2>2. sent \in [Procs -> 0..Blocks] /\ changed \in [Procs -> BOOLEAN]
    BY LogThreadAssumption DEF Init
  <2>. QED
    BY <2>1, <2>2 DEF Init, ThreadsType
<1>8. BuffersConserved
  BY <1>2, <1>3 DEF Init, BuffersConserved
<1>9. Calling
  BY DEF Init, Calling, Copying
<1>. QED
  BY <1>4, <1>6, <1>7, <1>8, <1>9 DEF IInv

(* A step that only moves a thread along.                                  *)
LEMMA ThreadsOnly ==
  ASSUME IInv, ThreadsType', Calling',
         UNCHANGED <<currentBuf, currentBufIndex, preBuf, readyBuf, bufToWrite>>,
         UNCHANGED <<files, writeBytes>>
  PROVE  IInv'
BY DEF IInv, BuffersType, FilesType, BuffersConserved

(* A thread that moves is still somewhere in its code.                     *)
LEMMA GotoType ==
  ASSUME IInv, NEW p \in Procs, NEW l \in Pcs, Goto(p, l), UNCHANGED sent,
         l \in Copying => sent[p] >= 1
  PROVE  pc' \in [Procs -> Pcs] /\ Calling'
BY DEF IInv, ThreadsType, Calling, Goto

(* A thread enters apendMessage.                                           *)
LEMMA CallInv ==
  ASSUME IInv, NEW p \in Procs, Call(p)
  PROVE  IInv'
<1>1. pc' \in [Procs -> Pcs]
  BY DEF Call, Goto, Pcs, IInv, ThreadsType
<1>2. sent[p] + 1 \in 0..Blocks
  BY LogThreadAssumption DEF Call, IInv, ThreadsType
<1>3. sent' \in [Procs -> 0..Blocks] /\ changed' \in [Procs -> BOOLEAN]
  BY <1>2 DEF Call, IInv, ThreadsType
<1>4. ThreadsType'
  BY <1>1, <1>3 DEF Call, IInv, ThreadsType, bufVars
<1>5. Calling'
  <2>1. sent'[p] >= 1 /\ \A q \in Procs : q # p => sent'[q] = sent[q] /\ pc'[q] = pc[q]
    BY <1>2 DEF Call, Goto, IInv, ThreadsType
  <2>. QED
    BY <2>1 DEF IInv, Calling
<1>. QED
  BY <1>4, <1>5, ThreadsOnly DEF Call, bufVars, fileVars

(* The steps of apendMessage that touch no buffer.                         *)
LEMMA LockingInv ==
  ASSUME IInv, NEW p \in Procs,
         Acquire(p) \/ Check(p) \/ Unlock(p) \/ Notify(p) \/ Release(p)
  PROVE  IInv'
<1>1. /\ UNCHANGED bufVars /\ UNCHANGED fileVars
      /\ UNCHANGED <<sent, reported>>
  BY DEF Acquire, Check, Unlock, Notify, Release
<1>2. pc' \in [Procs -> Pcs] /\ Calling'
  <2>1. CASE Acquire(p)
    BY <2>1, GotoType DEF Acquire, At, Pcs, Copying, IInv, Calling
  <2>2. CASE Check(p)
    BY <2>2, GotoType DEF Check, At, Pcs, Copying, IInv, Calling
  <2>3. CASE Unlock(p)
    BY <2>3, GotoType DEF Unlock, Pcs, Copying
  <2>4. CASE Notify(p)
    <3>1. \A q \in Procs : pc'[q] \in Pcs /\ (pc'[q] \in Copying => pc'[q] = pc[q])
      BY <2>4, Zenon DEF Notify, IInv, ThreadsType, Pcs, Copying
    <3>2. DOMAIN pc' = Procs /\ pc' = [q \in Procs |-> pc'[q]]
      BY <2>4 DEF Notify
    <3>3. Calling'
      BY <1>1, <3>1 DEF IInv, Calling
    <3>. QED
      BY <3>1, <3>2, <3>3
  <2>5. CASE Release(p)
    BY <2>5, GotoType DEF Release, Pcs, Copying
  <2>. QED
    BY <2>1, <2>2, <2>3, <2>4, <2>5
<1>3. locked' \in BOOLEAN /\ fault' \in BOOLEAN /\ changed' \in [Procs -> BOOLEAN]
  <2>1. CASE Check(p)
    <3>1. Full \in BOOLEAN
      BY DEF Full
    <3>2. changed' \in [Procs -> BOOLEAN]
      BY <2>1, <3>1, Zenon DEF Check, IInv, ThreadsType
    <3>3. fault' \in BOOLEAN /\ locked' = locked
      BY <2>1 DEF Check
    <3>. QED
      BY <3>2, <3>3 DEF IInv, ThreadsType
  <2>2. CASE Acquire(p) \/ Unlock(p) \/ Notify(p) \/ Release(p)
    BY <2>2 DEF Acquire, Unlock, Notify, Release, IInv, ThreadsType
  <2>. QED
    BY <2>1, <2>2
<1>4. ThreadsType'
  BY <1>1, <1>2, <1>3 DEF IInv, ThreadsType, bufVars
<1>. QED
  BY <1>1, <1>2, <1>4, ThreadsOnly DEF bufVars, fileVars

(* changeBuf takes one buffer from preBuf_ and gives one to readyBuf_.     *)
LEMMA ChangeInv ==
  ASSUME IInv, NEW p \in Procs, Change(p)
  PROVE  IInv'
<1>1. Fresh \in Buffer
  BY DEF Fresh, Buffer, Cell
<1>2. [buf |-> currentBuf, size |-> currentBufIndex] \in Filled
  BY DEF Filled, IInv, BuffersType
<1>3. /\ readyBuf' \in Seq(Filled)
      /\ Len(readyBuf') = Len(readyBuf) + 1 /\ Len(readyBuf) \in Nat /\ Len(bufToWrite) \in Nat
  BY <1>2, AppendProperties, LenProperties DEF Change, ReadyLast, IInv, BuffersType
<1>4. preBuf' = preBuf - 1 /\ preBuf' \in 0..bufNum /\ preBuf \in Nat
  BY LogThreadAssumption DEF Change, HasFree, IInv, BuffersType
<1>5. BuffersType'
  BY <1>1, <1>3, <1>4 DEF Change, IInv, BuffersType
<1>6. BuffersConserved'
  <2>1. bufToWrite' = bufToWrite
    BY DEF Change
  <2>. QED
    BY <1>3, <1>4, <2>1, LogThreadAssumption DEF IInv, BuffersConserved
<1>7. pc' \in [Procs -> Pcs] /\ Calling'
  BY GotoType DEF Change, At, Pcs, Copying, IInv, Calling
<1>8. ThreadsType'
  BY <1>7 DEF Change, IInv, ThreadsType
<1>9. FilesType'
  BY DEF Change, IInv, FilesType, fileVars
<1>. QED
  BY <1>5, <1>6, <1>7, <1>8, <1>9 DEF IInv

(* The steps that write to the current buffer.                             *)
LEMMA WritingInv ==
  ASSUME IInv, NEW p \in Procs, ChangeOver(p) \/ Copy(p) \/ Bump(p)
  PROVE  IInv'
<1>1. UNCHANGED <<preBuf, readyBuf, bufToWrite, locked, sent, changed, reported>>
      /\ UNCHANGED fileVars
  BY DEF ChangeOver, Copy, Bump
<1>2. currentBuf' \in Buffer /\ currentBufIndex' \in Nat
  <2>1. CASE ChangeOver(p)
    <3>1. Overflowed \in Buffer
      BY DEF Overflowed, Buffer, Cell
    <3>. QED
      BY <2>1, <3>1, LogThreadAssumption DEF ChangeOver
  <2>2. CASE Copy(p)
    <3>1. sent[p] \in 1..Blocks
      BY <2>2, LogThreadAssumption DEF Copy, At, Copying, IInv, ThreadsType, Calling
    <3>2. <<p, sent[p]>> \in Cell
      BY <3>1 DEF Cell, Block
    <3>. QED
      BY <2>2, <3>2 DEF Copy, Target, IInv, BuffersType, Buffer
  <2>3. CASE Bump(p)
    BY <2>3 DEF Bump, IInv, BuffersType
  <2>. QED
    BY <2>1, <2>2, <2>3
<1>3. pc' \in [Procs -> Pcs] /\ Calling'
  <2>1. CASE ChangeOver(p)
    BY <2>1, GotoType DEF ChangeOver, At, Pcs, Copying, IInv, Calling
  <2>2. CASE Copy(p)
    BY <2>2, GotoType DEF Copy, Pcs, Copying
  <2>3. CASE Bump(p)
    BY <2>3, GotoType DEF Bump, Pcs, Copying
  <2>. QED
    BY <2>1, <2>2, <2>3
<1>4. reloadMes' \in BOOLEAN /\ fault' \in BOOLEAN
  BY DEF ChangeOver, Copy, Bump, IInv, ThreadsType
<1>5. BuffersType' /\ BuffersConserved' /\ FilesType'
  BY <1>1, <1>2 DEF IInv, BuffersType, BuffersConserved, FilesType, fileVars
<1>6. ThreadsType'
  BY <1>1, <1>3, <1>4 DEF IInv, ThreadsType
<1>. QED
  BY <1>3, <1>5, <1>6 DEF IInv

-----------------------------------------------------------------------------
(* The steps of logLoop that touch no buffer.                              *)
LEMMA WaitingInv ==
  ASSUME IInv, Lock \/ Test \/ Wait \/ Spurious \/ Flushed \/ Report
  PROVE  IInv'
<1>1. UNCHANGED bufVars /\ UNCHANGED fileVars /\ UNCHANGED <<sent, changed, fault>>
  BY DEF Lock, Test, Wait, Spurious, Flushed, Report
<1>2. PICK l \in Pcs \ Copying : Goto(Worker, l)
  BY DEF Lock, Test, Wait, Spurious, Flushed, Report, Pcs, Copying
<1>3. Worker \in Procs
  BY DEF Procs
<1>4. pc' \in [Procs -> Pcs] /\ Calling'
  BY <1>1, <1>2, <1>3, GotoType
<1>5. locked' \in BOOLEAN /\ reported' \in BOOLEAN
  BY DEF Lock, Test, Wait, LetGo, Spurious, Flushed, Report, IInv, ThreadsType
<1>6. ThreadsType'
  BY <1>1, <1>4, <1>5 DEF IInv, ThreadsType, bufVars
<1>. QED
  BY <1>1, <1>4, <1>6, ThreadsOnly DEF bufVars, fileVars

(* The swap exchanges the lengths of readyBuf_ and bufToWrite_.            *)
LEMMA SwapInv ==
  ASSUME IInv, Swap
  PROVE  IInv'
<1>1. Worker \in Procs
  BY DEF Procs
<1>2. pc' \in [Procs -> Pcs] /\ Calling'
  BY <1>1, GotoType DEF Swap, Pcs, Copying
<1>3. Len(readyBuf) \in Nat /\ Len(bufToWrite) \in Nat /\ preBuf \in Nat
  BY LenProperties, LogThreadAssumption DEF IInv, BuffersType
<1>4. BuffersConserved'
  BY <1>3, LogThreadAssumption DEF Swap, IInv, BuffersConserved
<1>5. BuffersType' /\ FilesType'
  BY DEF Swap, IInv, BuffersType, FilesType, fileVars
<1>6. ThreadsType'
  BY <1>2 DEF Swap, IInv, ThreadsType
<1>. QED
  BY <1>2, <1>4, <1>5, <1>6 DEF IInv

(* The reset of reloadMes_, after which the log thread logs its report.    *)
LEMMA ResetInv ==
  ASSUME IInv, Reset
  PROVE  IInv'
<1>1. Worker \in Procs
  BY DEF Procs
<1>2. CASE sent[Worker] < Blocks
  <2>1. sent[Worker] + 1 \in 0..Blocks /\ sent[Worker] + 1 >= 1
    BY <1>1, <1>2, LogThreadAssumption DEF IInv, ThreadsType
  <2>2. sent' \in [Procs -> 0..Blocks] /\ changed' \in [Procs -> BOOLEAN]
    BY <1>2, <2>1 DEF Reset, IInv, ThreadsType
  <2>3. pc' \in [Procs -> Pcs]
    BY <1>2 DEF Reset, Goto, Pcs, IInv, ThreadsType
  <2>4. Calling'
    <3>1. sent'[Worker] >= 1
          /\ \A q \in Procs : q # Worker => sent'[q] = sent[q] /\ pc'[q] = pc[q]
      BY <1>1, <1>2, <2>1 DEF Reset, Goto, IInv, ThreadsType
    <3>. QED
      BY <3>1 DEF IInv, Calling
  <2>5. ThreadsType'
    BY <2>2, <2>3 DEF Reset, IInv, ThreadsType
  <2>. QED
    BY <2>4, <2>5, ThreadsOnly DEF Reset, fileVars
<1>3. CASE ~(sent[Worker] < Blocks)
  <2>1. pc' \in [Procs -> Pcs] /\ Calling'
    BY <1>1, <1>3, GotoType DEF Reset, Pcs, Copying
  <2>2. ThreadsType'
    BY <1>3, <2>1 DEF Reset, IInv, ThreadsType
  <2>. QED
    BY <2>1, <2>2, ThreadsOnly DEF Reset, fileVars
<1>. QED
  BY <1>2, <1>3

(* flushToFile returns one buffer: preBuf_ is not full, as the buffer that *)
(* is written was not in it.                                               *)
LEMMA FlushOneInv ==
  ASSUME IInv, FlushOne
  PROVE  IInv'
<1>1. bufToWrite \in Seq(Filled) /\ bufToWrite # <<>>
  BY DEF FlushOne, IInv, BuffersType
<1>2. Len(bufToWrite) \in Nat \ {0}
  BY <1>1, EmptySeq, LenProperties
<1>3. /\ bufToWrite' \in Seq(Filled)
      /\ Len(bufToWrite') = Len(bufToWrite) - 1
  <2>1. \A i \in 1..(Len(bufToWrite) - 1) : bufToWrite[i] \in Filled
    BY <1>1, <1>2, ElementOfSeq
  <2>2. bufToWrite' = SubSeq(bufToWrite, 1, Len(bufToWrite) - 1)
    BY DEF FlushOne, Front
  <2>. QED
    <3>. DEFINE n == Len(bufToWrite) - 1
    <3>1. n \in Nat /\ \A i \in 1..n : bufToWrite[i] \in Filled
      BY <1>2, <2>1
    <3>2. Len(bufToWrite) - 1 = n
      OBVIOUS
    <3>. HIDE DEF n
    <3>3. SubSeq(bufToWrite, 1, n) \in Seq(Filled)
          /\ Len(SubSeq(bufToWrite, 1, n)) = IF 1 <= n THEN n - 1 + 1 ELSE 0
      BY <3>1, SubSeqProperties
    <3>4. Len(SubSeq(bufToWrite, 1, n)) = n
      BY <3>1, <3>3
    <3>. QED
      BY <2>2, <3>2, <3>3, <3>4
<1>4. preBuf \in Nat /\ Len(readyBuf) \in Nat /\ readyBuf' = readyBuf
  BY LenProperties, LogThreadAssumption DEF FlushOne, IInv, BuffersType
<1>5. preBuf' = preBuf + 1 /\ preBuf' \in 0..bufNum
  BY <1>2, <1>4, LogThreadAssumption DEF FlushOne, Push, IInv, BuffersConserved
<1>6. BuffersConserved'
  BY <1>2, <1>3, <1>4, <1>5, LogThreadAssumption DEF IInv, BuffersConserved
<1>7. BuffersType'
  BY <1>3, <1>4, <1>5 DEF FlushOne, IInv, BuffersType
<1>8. FilesType'
  <2>. DEFINE b     == Last(bufToWrite)
              cells == SubSeq(b.buf, 1, b.size)
  <2>1. CASE ~(b.size <= bufSize)
    BY <2>1 DEF FlushOne, IInv, FilesType, fileVars
  <2>2. CASE b.size <= bufSize
    <3>1. b \in Filled
      BY <1>1, <1>2, ElementOfSeq DEF Last
    <3>2. b.buf \in [1..bufSize -> Cell] /\ b.size \in 0..bufSize /\ bufSize \in Nat
      BY <2>2, <3>1, LogThreadAssumption DEF Filled, Buffer
    <3>. HIDE DEF b
    <3>3. b.buf \in Seq(Cell) /\ Len(b.buf) = bufSize
      BY <3>2, SeqDef, LenProperties
    <3>4. cells \in Seq(Cell)
      BY <3>2, <3>3, SubSeqProperties
    <3>5. writeMessage(cells)
      BY <2>2 DEF FlushOne, b
    <3>. HIDE DEF cells
    <3>6. Len(cells) \in Nat
      BY <3>4, LenProperties
    <3>. DEFINE grown == [files EXCEPT ![Len(files)] = files[Len(files)] \o cells]
    <3>7. files \in Seq(Seq(Cell)) /\ Len(files) \in Nat \ {0} /\ files[Len(files)] \in Seq(Cell)
      BY LenProperties, ElementOfSeq DEF IInv, FilesType
    <3>8. files[Len(files)] \o cells \in Seq(Cell)
      BY <3>4, <3>7, ConcatProperties
    <3>9. grown \in Seq(Seq(Cell)) /\ Len(grown) = Len(files)
      BY <3>7, <3>8, ExceptSeq
    <3>10. Len(grown) >= 1
      BY <3>7, <3>9
    <3>11. (files' = grown /\ writeBytes' = writeBytes + Len(cells))
           \/ (files' = Append(grown, <<>>) /\ writeBytes' = 0)
      BY <3>5 DEF writeMessage
    <3>. HIDE DEF grown
    <3>12. Append(grown, <<>>) \in Seq(Seq(Cell)) /\ Len(Append(grown, <<>>)) >= 1
      <4>1. <<>> \in Seq(Cell)
        BY EmptySeq
      <4>2. /\ Append(grown, <<>>) \in Seq(Seq(Cell))
            /\ Len(Append(grown, <<>>)) = Len(grown) + 1
        BY <3>9, <4>1, AppendProperties
      <4>3. Len(grown) \in Nat
        BY <3>7, <3>9
      <4>. QED
        BY <3>10, <4>2, <4>3
    <3>13. writeBytes + Len(cells) \in Nat
      BY <3>6 DEF IInv, FilesType
    <3>14. files' \in Seq(Seq(Cell)) /\ Len(files') >= 1 /\ writeBytes' \in Nat
      <4>1. CASE files' = grown /\ writeBytes' = writeBytes + Len(cells)
        BY <3>9, <3>10, <3>13, <4>1
      <4>2. CASE files' = Append(grown, <<>>) /\ writeBytes' = 0
        BY <3>12, <4>2
      <4>. QED
        BY <3>11, <4>1, <4>2
    <3>. QED
      BY <3>14 DEF FilesType
  <2>. QED
    BY <2>1, <2>2
<1>9. ThreadsType' /\ Calling'
  BY DEF FlushOne, IInv, ThreadsType, Calling
<1>. QED
  BY <1>6, <1>7, <1>8, <1>9 DEF IInv

-----------------------------------------------------------------------------
(* Types and the number of buffers are preserved by every step of every    *)
(* thread.                                                                 *)
THEOREM Invariance == Spec => []IInv
<1>1. IInv /\ [Next]_vars => IInv'
  <2>. SUFFICES ASSUME IInv, [Next]_vars PROVE IInv'
    OBVIOUS
  <2>1. ASSUME NEW p \in Procs, Call(p) PROVE IInv'
    BY <2>1, CallInv
  <2>2. ASSUME NEW p \in Procs, apendMessage(p) PROVE IInv'
    BY <2>2, LockingInv, ChangeInv, WritingInv DEF apendMessage
  <2>3. CASE logLoop \/ Spurious
    BY <2>3, WaitingInv, SwapInv, FlushOneInv, ResetInv DEF logLoop
  <2>4. CASE UNCHANGED vars
    BY <2>4, ThreadsOnly DEF vars, bufVars, fileVars, IInv, ThreadsType, Calling
  <2>. QED
    BY <2>1, <2>2, <2>3, <2>4 DEF Next, Procs
<1>. QED
  BY <1>1, InitInv, PTL DEF Spec

(* Every variable of the logger keeps its type, for every number of        *)
(* threads and buffers and every interleaving the double unlock allows     *)
(* (log_thread.cpp:69).                                                    *)
THEOREM TypeCorrect == Spec => []TypeOK
  BY IInvTypeOK, Invariance, PTL

(* However many threads race through apendMessage, preBuf_, readyBuf_ and  *)
(* bufToWrite_ hold bufNum_ - 1 buffers between them: flushToFile loses    *)
(* none and the assert of log_thread.cpp:116 holds.                        *)
THEOREM BuffersStayConserved == Spec => []BuffersConserved
<1>1. IInv => BuffersConserved
  BY DEF IInv
<1>. QED
  BY <1>1, Invariance, PTL

-----------------------------------------------------------------------------
(***************************************************************************)
(* One thread that logs, and a log thread that does not: the log of that   *)
(* thread.                                                                 *)
(***************************************************************************)
Alone == ~printMes /\ \A p, q \in Threads : p = q

Logging == Copying \cup {"bump", "unlock", "notify", "release"}

(* The log thread is in logLoop, the other one in apendMessage.            *)
OwnCode ==
  /\ pc[Worker] \in {"lock", "test", "wait", "asleep", "woken", "swap", "flush"}
  /\ \A p \in Threads : pc[p] \in Logging \cup {"idle"}

(* The text of a buffer is inside it; the block a thread checked for has   *)
(* room until its index is counted.                                        *)
Roomy ==
  /\ currentBufIndex <= bufSize
  /\ \A p \in Threads : pc[p] \in {"copy", "bump"} => currentBufIndex < bufSize
  /\ \A i \in 1..Len(readyBuf) : readyBuf[i].size <= bufSize
  /\ \A i \in 1..Len(bufToWrite) : bufToWrite[i].size <= bufSize

(* A batch is written as a whole before the next one is taken.             *)
EmptyBatch == pc[Worker] # "flush" => bufToWrite = <<>>

(* The block a thread copied waits behind the text for its index.          *)
Copied ==
  \A p \in Threads : pc[p] = "bump" =>
    currentBuf[currentBufIndex + 1] = <<p, sent[p]>> /\ sent[p] >= 1

OneInv == OwnCode /\ Roomy /\ EmptyBatch /\ Copied /\ AppendedIsInLog /\ NoFault

-----------------------------------------------------------------------------
(* The text of a buffer that is not overrun.                               *)
LEMMA TextOfFits ==
  ASSUME NEW buf, NEW size \in Nat, size <= bufSize
  PROVE  TextOf(buf, size) = {buf[i] : i \in 1..size} \cap Block
BY DEF TextOf

(* The blocks of a batch.                                                  *)
LEMMA TextsOfElements ==
  ASSUME NEW batch \in Seq(Filled)
  PROVE  \A b : b \in TextsOf(batch) <=> \E i \in 1..Len(batch) : b \in TextOf(batch[i].buf, batch[i].size)
<1>1. DOMAIN batch = 1..Len(batch)
  BY LenProperties
<1>. QED
  BY <1>1 DEF TextsOf

LEMMA TextsOfAppend ==
  ASSUME NEW batch \in Seq(Filled), NEW x \in Filled
  PROVE  TextsOf(Append(batch, x)) = TextsOf(batch) \cup TextOf(x.buf, x.size)
<1>. DEFINE more == Append(batch, x)
            n    == Len(batch)
<1>1. /\ more \in Seq(Filled) /\ Len(more) = n + 1 /\ n \in Nat
      /\ \A i \in 1..n : more[i] = batch[i]
      /\ more[n + 1] = x
  BY AppendProperties, LenProperties
<1>. HIDE DEF more
<1>2. \A b : b \in TextsOf(batch) <=> \E i \in 1..n : b \in TextOf(batch[i].buf, batch[i].size)
  BY TextsOfElements
<1>3. \A b : b \in TextsOf(more) <=> \E i \in 1..Len(more) : b \in TextOf(more[i].buf, more[i].size)
  BY <1>1, TextsOfElements
<1>. HIDE DEF n
<1>4. \A i \in 1..(n + 1) : i \in 1..n \/ i = n + 1
  BY <1>1
<1>5. n + 1 \in 1..(n + 1) /\ \A i \in 1..n : i \in 1..(n + 1)
  BY <1>1
<1>6. ASSUME NEW b
      PROVE  b \in TextsOf(more) <=> b \in TextsOf(batch) \/ b \in TextOf(x.buf, x.size)
  <2>1. b \in TextsOf(more) => b \in TextsOf(batch) \/ b \in TextOf(x.buf, x.size)
    BY <1>1, <1>2, <1>3, <1>4
  <2>2. b \in TextsOf(batch) => b \in TextsOf(more)
    BY <1>1, <1>2, <1>3, <1>5
  <2>3. b \in TextOf(x.buf, x.size) => b \in TextsOf(more)
    BY <1>1, <1>3, <1>5
  <2>. QED
    BY <2>1, <2>2, <2>3
<1>. QED
  BY <1>6 DEF more

LEMMA TextsOfFront ==
  ASSUME NEW batch \in Seq(Filled), batch # <<>>
  PROVE  /\ Last(batch) \in Filled
         /\ Front(batch) \in Seq(Filled) /\ Len(Front(batch)) = Len(batch) - 1
         /\ \A i \in 1..(Len(batch) - 1) : Front(batch)[i] = batch[i]
         /\ Last(batch) = batch[Len(batch)] /\ Len(batch) \in Nat \ {0}
         /\ TextsOf(batch) = TextsOf(Front(batch)) \cup TextOf(Last(batch).buf, Last(batch).size)
<1>. DEFINE n == Len(batch) - 1
            less == Front(batch)
            x == Last(batch)
<1>1. Len(batch) \in Nat \ {0} /\ \A i \in 1..Len(batch) : batch[i] \in Filled
  BY EmptySeq, LenProperties, ElementOfSeq
<1>2. n \in Nat /\ Len(batch) = n + 1
  BY <1>1
<1>3. x = batch[n + 1] /\ x \in Filled
  BY <1>1, <1>2 DEF Last
<1>4. less = SubSeq(batch, 1, n)
  BY DEF Front
<1>. HIDE DEF n, less, x
<1>5. /\ less \in Seq(Filled) /\ Len(less) = n
      /\ \A i \in 1..n : less[i] = batch[i]
  <2>1. \A i \in 1..n : batch[i] \in Filled
    BY <1>1, <1>2
  <2>2. /\ SubSeq(batch, 1, n) \in Seq(Filled)
        /\ Len(SubSeq(batch, 1, n)) = IF 1 <= n THEN n - 1 + 1 ELSE 0
        /\ \A i \in 1..(n - 1 + 1) : SubSeq(batch, 1, n)[i] = batch[1 + i - 1]
    BY <1>2, <2>1, SubSeqProperties
  <2>. QED
    BY <1>2, <1>4, <2>2
<1>6. \A b : b \in TextsOf(batch) <=> \E i \in 1..(n + 1) : b \in TextOf(batch[i].buf, batch[i].size)
  BY <1>2, TextsOfElements
<1>7. \A b : b \in TextsOf(less) <=> \E i \in 1..n : b \in TextOf(less[i].buf, less[i].size)
  BY <1>5, TextsOfElements
<1>8. \A i \in 1..(n + 1) : i \in 1..n \/ i = n + 1
  BY <1>2
<1>9. n + 1 \in 1..(n + 1) /\ \A i \in 1..n : i \in 1..(n + 1)
  BY <1>2
<1>10. ASSUME NEW b
       PROVE  b \in TextsOf(batch) <=> b \in TextsOf(less) \/ b \in TextOf(x.buf, x.size)
  <2>1. b \in TextsOf(batch) => b \in TextsOf(less) \/ b \in TextOf(x.buf, x.size)
    BY <1>3, <1>5, <1>6, <1>7, <1>8
  <2>2. b \in TextsOf(less) => b \in TextsOf(batch)
    BY <1>5, <1>6, <1>7, <1>9
  <2>3. b \in TextOf(x.buf, x.size) => b \in TextsOf(batch)
    BY <1>3, <1>6, <1>9
  <2>. QED
    BY <2>1, <2>2, <2>3
<1>. QED
  BY <1>1, <1>2, <1>3, <1>5, <1>10 DEF n, less, x

LEMMA TextsOfEmpty == TextsOf(<<>>) = {}
<1>. DEFINE empty == <<>>
<1>1. empty \in Seq(Filled) /\ Len(empty) = 0
  BY EmptySeq
<1>. HIDE DEF empty
<1>2. \A b : b \in TextsOf(empty) <=> \E i \in 1..0 : b \in TextOf(empty[i].buf, empty[i].size)
  BY <1>1, TextsOfElements
<1>3. TextsOf(empty) = {}
  BY <1>2
<1>. QED
  BY <1>3 DEF empty

(* The cells of some files.                                                *)
CellsOf(fs) == UNION {Range(fs[i]) : i \in DOMAIN fs}

LEMMA RangeElements ==
  ASSUME NEW f
  PROVE  /\ \A b : b \in Range(f) <=> \E i \in DOMAIN f : b = f[i]
         /\ \A b : b \in CellsOf(f) <=> \E i \in DOMAIN f : b \in Range(f[i])
BY DEF Range, CellsOf

(* What writeMessage adds to the files.                                    *)
LEMMA FilesGrow ==
  ASSUME FilesType, NEW cells \in Seq(Cell), writeMessage(cells)
  PROVE  InFile' = InFile \cup (Range(cells) \cap Block)
<1>. DEFINE n     == Len(files)
            grown == [files EXCEPT ![n] = files[n] \o cells]
<1>1. /\ files \in Seq(Seq(Cell)) /\ n \in Nat \ {0} /\ DOMAIN files = 1..n /\ n \in 1..n
      /\ \A i \in 1..n : files[i] \in Seq(Cell)
  <2>1. files \in Seq(Seq(Cell)) /\ n \in Nat /\ n >= 1 /\ DOMAIN files = 1..n
    BY LenProperties DEF FilesType
  <2>2. \A i \in 1..n : files[i] \in Seq(Cell)
    BY <2>1, ElementOfSeq
  <2>. QED
    BY <2>1, <2>2
<1>2. Range(files[n] \o cells) = Range(files[n]) \cup Range(cells)
  <2>. DEFINE q == files[n]
              r == q \o cells
  <2>1. /\ q \in Seq(Cell) /\ Len(q) \in Nat /\ Len(cells) \in Nat
        /\ DOMAIN q = 1..Len(q) /\ DOMAIN cells = 1..Len(cells)
    BY <1>1, LenProperties
  <2>2. /\ r \in Seq(Cell) /\ Len(r) = Len(q) + Len(cells)
        /\ \A i \in 1..(Len(q) + Len(cells)) : r[i] = IF i <= Len(q) THEN q[i] ELSE cells[i - Len(q)]
    BY <2>1, ConcatProperties
  <2>3. DOMAIN r = 1..(Len(q) + Len(cells))
    BY <2>2, LenProperties
  <2>. HIDE DEF q, r
  <2>4. \A i \in 1..(Len(q) + Len(cells)) :
          \/ i \in 1..Len(q) /\ r[i] = q[i]
          \/ i - Len(q) \in 1..Len(cells) /\ r[i] = cells[i - Len(q)]
    BY <2>1, <2>2
  <2>5. \A i \in 1..Len(q) : i \in 1..(Len(q) + Len(cells)) /\ r[i] = q[i]
    BY <2>1, <2>2
  <2>6. \A i \in 1..Len(cells) : Len(q) + i \in 1..(Len(q) + Len(cells)) /\ r[Len(q) + i] = cells[i]
    <3>1. ASSUME NEW i \in 1..Len(cells)
          PROVE  /\ Len(q) + i \in 1..(Len(q) + Len(cells)) /\ ~(Len(q) + i <= Len(q))
                 /\ (Len(q) + i) - Len(q) = i
      BY <2>1
    <3>. QED
      BY <2>2, <3>1
  <2>7. /\ \A b : b \in Range(r) <=> \E i \in 1..(Len(q) + Len(cells)) : b = r[i]
        /\ \A b : b \in Range(q) <=> \E i \in 1..Len(q) : b = q[i]
        /\ \A b : b \in Range(cells) <=> \E i \in 1..Len(cells) : b = cells[i]
    BY <2>1, <2>3, RangeElements
  <2>8. \A b : b \in Range(r) => b \in Range(q) \/ b \in Range(cells)
    BY <2>4, <2>7
  <2>9. \A b : b \in Range(q) \/ b \in Range(cells) => b \in Range(r)
    BY <2>5, <2>6, <2>7
  <2>10. Range(r) = Range(q) \cup Range(cells)
    BY <2>8, <2>9
  <2>. QED
    BY <2>10 DEF q, r
<1>3. /\ DOMAIN grown = 1..n /\ Len(grown) = n /\ grown \in Seq(Seq(Cell))
      /\ grown[n] = files[n] \o cells /\ \A i \in 1..n : i # n => grown[i] = files[i]
  <2>1. files[n] \o cells \in Seq(Cell)
    BY <1>1, ConcatProperties
  <2>2. grown \in Seq(Seq(Cell)) /\ Len(grown) = n
    BY <1>1, <2>1, ExceptSeq
  <2>. QED
    BY <1>1, <2>2
<1>4. files' = grown \/ files' = Append(grown, <<>>)
  BY DEF writeMessage
<1>. HIDE DEF grown, n
<1>5. /\ InFile = CellsOf(files) \cap Block /\ InFile' = CellsOf(files') \cap Block
      /\ \A b : b \in CellsOf(files) <=> \E i \in 1..n : b \in Range(files[i])
      /\ \A b : b \in CellsOf(grown) <=> \E i \in 1..n : b \in Range(grown[i])
  <2>1. InFile = CellsOf(files) \cap Block
    BY DEF InFile, CellsOf
  <2>2. InFile' = CellsOf(files') \cap Block
    BY DEF InFile, CellsOf
  <2>. QED
    BY <1>1, <1>3, <2>1, <2>2, RangeElements
<1>6. CellsOf(grown) = CellsOf(files) \cup Range(cells)
  <2>1. \A b : (\E i \in 1..n : b \in Range(grown[i]))
               <=> (\E i \in 1..n : b \in Range(files[i])) \/ b \in Range(cells)
    BY <1>1, <1>2, <1>3
  <2>2. \A b : b \in CellsOf(grown) <=> b \in CellsOf(files) \/ b \in Range(cells)
    BY <1>5, <2>1
  <2>. QED
    BY <2>2
<1>7. CellsOf(files') = CellsOf(grown)
  <2>1. CASE files' = grown
    BY <2>1
  <2>2. CASE files' = Append(grown, <<>>)
    <3>. DEFINE empty == <<>>
    <3>1. empty \in Seq(Cell) /\ Range(empty) = {}
      BY EmptySeq, LenProperties DEF Range
    <3>. HIDE DEF empty
    <3>2. /\ Append(grown, empty) \in Seq(Seq(Cell)) /\ Len(Append(grown, empty)) = n + 1
          /\ \A i \in 1..n : Append(grown, empty)[i] = grown[i]
          /\ Append(grown, empty)[n + 1] = empty
      BY <1>3, <3>1, AppendProperties
    <3>3. files' = Append(grown, empty)
      BY <2>2 DEF empty
    <3>4. DOMAIN files' = 1..(n + 1)
      BY <3>2, <3>3, LenProperties
    <3>5. \A b : b \in CellsOf(files') <=> \E i \in 1..(n + 1) : b \in Range(files'[i])
      BY <3>4, RangeElements
    <3>6. \A i \in 1..(n + 1) : i \in 1..n \/ i = n + 1
      BY <1>1
    <3>7. \A i \in 1..n : i \in 1..(n + 1)
      BY <1>1
    <3>8. \A b : (\E i \in 1..(n + 1) : b \in Range(files'[i])) <=> (\E i \in 1..n : b \in Range(grown[i]))
      BY <3>1, <3>2, <3>3, <3>6, <3>7
    <3>9. \A b : b \in CellsOf(files') <=> b \in CellsOf(grown)
      BY <1>5, <3>5, <3>8
    <3>. QED
      BY <3>9
  <2>. QED
    BY <1>4, <2>1, <2>2
<1>. QED
  BY <1>5, <1>6, <1>7

-----------------------------------------------------------------------------
(* The text of the current buffer.                                         *)
LEMMA CurrentText ==
  ASSUME IInv, currentBufIndex <= bufSize
  PROVE  InCurrent = {currentBuf[i] : i \in 1..currentBufIndex} \cap Block
BY TextOfFits DEF InCurrent, IInv, BuffersType

(* A thread inside apendMessage is not the log thread, and it is alone.    *)
LEMMA OneLogs ==
  ASSUME Alone, OneInv, NEW p \in Procs, pc[p] \in Logging
  PROVE  p \in Threads /\ p # Worker /\ \A q \in Threads : q = p
<1>1. pc[Worker] \notin Logging
  BY DEF OneInv, OwnCode, Logging, Copying
<1>. QED
  BY <1>1 DEF Alone, Procs

LEMMA InitOne == Init => OneInv
<1>. SUFFICES ASSUME Init PROVE OneInv
  OBVIOUS
<1>1. Len(<<>>) = 0
  BY EmptySeq
<1>2. \A p \in Threads : pc[p] = "idle"
  BY LogThreadAssumption DEF Init, Procs
<1>3. pc[Worker] = "lock"
  BY DEF Init, Procs
<1>4. Roomy
  BY <1>1, <1>2, LogThreadAssumption DEF Init, Roomy
<1>. QED
  BY <1>2, <1>3, <1>4 DEF Init, OneInv, OwnCode, EmptyBatch, Copied, AppendedIsInLog, NoFault

(* The steps that move no text.                                            *)
LEMMA QuietOne ==
  ASSUME IInv, OneInv, UNCHANGED <<bufVars, fileVars>>, ~fault', OwnCode',
         pc'[Worker] # "flush" => bufToWrite = <<>>,
         \A q \in Threads :
           /\ pc'[q] = "copy" => currentBufIndex < bufSize
           /\ pc'[q] = "bump" => pc[q] = "bump" /\ sent'[q] = sent[q]
           /\ pc'[q] \in {"unlock", "notify", "release"} =>
                pc[q] \in {"unlock", "notify", "release"} /\ sent'[q] = sent[q]
  PROVE  OneInv' /\ InLog' = InLog
<1>1. InLog' = InLog
  BY DEF InLog, Unwritten, InCurrent, InFile, bufVars, fileVars
<1>2. Roomy'
  BY DEF OneInv, Roomy, bufVars
<1>3. EmptyBatch' /\ Copied'
  BY DEF OneInv, EmptyBatch, Copied, bufVars
<1>4. AppendedIsInLog'
  BY <1>1 DEF OneInv, AppendedIsInLog
<1>. QED
  BY <1>1, <1>2, <1>3, <1>4 DEF OneInv, NoFault

(* The steps of logLoop that move no text.                                 *)
LEMMA WaitingOne ==
  ASSUME IInv, OneInv, Alone, Lock \/ Test \/ Wait \/ Spurious \/ Flushed
  PROVE  OneInv' /\ InLog' = InLog
<1>1. /\ UNCHANGED bufVars /\ UNCHANGED fileVars /\ UNCHANGED <<sent, fault>>
      /\ ~fault
  BY DEF Lock, Test, Wait, Spurious, Flushed, OneInv, NoFault
<1>2. PICK l \in {"lock", "test", "wait", "asleep", "woken", "swap"} : Goto(Worker, l)
  BY DEF Lock, Test, Wait, Spurious, Flushed, Alone
<1>3. Worker \in Procs /\ Worker \notin Threads /\ pc \in [Procs -> Pcs]
  BY LogThreadAssumption DEF Procs, IInv, ThreadsType
<1>4. pc'[Worker] = l /\ \A q \in Threads : pc'[q] = pc[q]
  BY <1>2, <1>3 DEF Goto, Procs
<1>5. bufToWrite = <<>>
  BY DEF Lock, Test, Wait, Spurious, Flushed, At, OneInv, EmptyBatch
<1>6. OwnCode'
  BY <1>4 DEF OneInv, OwnCode
<1>7. \A q \in Threads : pc'[q] = "copy" => currentBufIndex < bufSize
  BY <1>4 DEF OneInv, Roomy
<1>. QED
  BY <1>1, <1>4, <1>5, <1>6, <1>7, QuietOne

(* The steps of apendMessage that move no text.                            *)
LEMMA LockingOne ==
  ASSUME IInv, OneInv, Alone, NEW p \in Procs,
         (p \in Threads /\ Call(p)) \/ Acquire(p) \/ Check(p) \/ Unlock(p) \/ Notify(p) \/ Release(p)
  PROVE  OneInv' /\ InLog' = InLog
<1>1. p \in Threads /\ p # Worker /\ \A q \in Threads : q = p
  <2>1. CASE p \in Threads /\ Call(p)
    BY <2>1, LogThreadAssumption DEF Alone
  <2>2. CASE Acquire(p) \/ Check(p) \/ Unlock(p) \/ Notify(p) \/ Release(p)
    <3>1. pc[p] \in Logging
      BY <2>2 DEF Acquire, Check, Unlock, Notify, Release, At, Logging, Copying
    <3>. QED
      BY <3>1, OneLogs
  <2>. QED
    BY <2>1, <2>2
<1>2. UNCHANGED bufVars /\ UNCHANGED fileVars
  BY DEF Call, Acquire, Check, Unlock, Notify, Release
<1>3. Worker \in Procs /\ pc \in [Procs -> Pcs] /\ currentBufIndex \in Nat
  BY DEF Procs, IInv, ThreadsType, BuffersType
<1>4. ~fault'
  <2>1. ~(bufSize - currentBufIndex < 0) /\ ~fault
    BY <1>3, LogThreadAssumption DEF OneInv, NoFault, Roomy
  <2>2. fault' = fault \/ fault' = (bufSize - currentBufIndex < 0)
    BY Zenon DEF Call, Acquire, Check, Unlock, Notify, Release, freeSize
  <2>. QED
    BY <2>1, <2>2
<1>5. /\ pc'[Worker] = pc[Worker] \/ (pc[Worker] = "asleep" /\ pc'[Worker] = "woken")
      /\ pc'[p] \in Logging \cup {"idle"}
      /\ pc'[p] = "copy" => currentBufIndex < bufSize
      /\ pc'[p] # "bump"
      /\ pc'[p] \in {"unlock", "notify", "release"} =>
           pc[p] \in {"unlock", "notify", "release"} /\ sent'[p] = sent[p]
  <2>1. CASE Call(p)
    BY <1>1, <1>3, <2>1 DEF Call, Goto, Logging, Copying
  <2>2. CASE Acquire(p)
    BY <1>1, <1>3, <2>2 DEF Acquire, Goto, Logging, Copying
  <2>3. CASE Check(p)
    <3>1. CASE Full
      BY <1>1, <1>3, <2>3, <3>1 DEF Check, Goto, Logging, Copying
    <3>2. CASE ~Full
      <4>1. currentBufIndex < bufSize
        BY <1>3, <3>2, LogThreadAssumption DEF Full, freeSize
      <4>. QED
        BY <1>1, <1>3, <2>3, <3>2, <4>1 DEF Check, Goto, Logging, Copying
    <3>. QED
      BY <3>1, <3>2
  <2>4. CASE Unlock(p)
    BY <1>1, <1>3, <2>4 DEF Unlock, At, Goto, Logging, Copying
  <2>5. CASE Notify(p)
    <3>1. \A q \in Procs : /\ q = p => pc'[q] = "release"
                           /\ q # p /\ pc[q] = "asleep" => pc'[q] = "woken"
                           /\ q # p /\ pc[q] # "asleep" => pc'[q] = pc[q]
      BY <2>5, Zenon DEF Notify
    <3>2. pc[p] = "notify" /\ sent' = sent
      BY <2>5 DEF Notify, At
    <3>. QED
      BY <1>1, <1>3, <3>1, <3>2 DEF Logging
  <2>6. CASE Release(p)
    BY <1>1, <1>3, <2>6 DEF Release, At, Goto, Logging, Copying
  <2>. QED
    BY <2>1, <2>2, <2>3, <2>4, <2>5, <2>6
<1>6. OwnCode'
  BY <1>1, <1>5 DEF OneInv, OwnCode
<1>7. pc'[Worker] # "flush" => bufToWrite = <<>>
  BY <1>5 DEF OneInv, EmptyBatch
<1>. QED
  BY <1>1, <1>2, <1>4, <1>5, <1>6, <1>7, QuietOne

(* changeBuf moves the text of the current buffer to readyBuf_.            *)
LEMMA ChangeOne ==
  ASSUME IInv, OneInv, Alone, NEW p \in Procs, Change(p)
  PROVE  /\ OneInv' /\ InLog' = InLog
         /\ TextsOf(readyBuf') = TextsOf(readyBuf) \cup InCurrent
         /\ InCurrent' = {} /\ InFile' = InFile
<1>1. p \in Threads /\ p # Worker /\ \A q \in Threads : q = p
  BY OneLogs DEF Change, At, Logging, Copying
<1>. DEFINE full == [buf |-> currentBuf, size |-> currentBufIndex]
<1>2. full \in Filled /\ full.size = currentBufIndex /\ full.buf = currentBuf
  BY DEF IInv, BuffersType, Filled
<1>3. /\ readyBuf' = Append(readyBuf, full) /\ currentBufIndex' = 0
      /\ UNCHANGED <<bufToWrite, fileVars, sent, fault>>
      /\ readyBuf \in Seq(Filled) /\ currentBufIndex \in Nat /\ currentBufIndex <= bufSize
      /\ pc \in [Procs -> Pcs] /\ Worker \in Procs
  BY DEF Change, ReadyLast, IInv, BuffersType, ThreadsType, OneInv, Roomy, Procs
<1>. HIDE DEF full
<1>4. TextsOf(readyBuf') = TextsOf(readyBuf) \cup InCurrent
  BY <1>2, <1>3, TextsOfAppend DEF InCurrent
<1>5. InCurrent' = {}
  <2>1. TextOf(currentBuf', 0) = {currentBuf'[i] : i \in 1..0} \cap Block
    BY TextOfFits, LogThreadAssumption
  <2>. QED
    BY <1>3, <2>1 DEF InCurrent
<1>6. InFile' = InFile
  BY <1>3 DEF InFile, fileVars
<1>7. InLog' = InLog
  BY <1>3, <1>4, <1>5, <1>6 DEF InLog, Unwritten
<1>8. pc'[p] = "copy" /\ pc'[Worker] = pc[Worker]
  BY <1>1, <1>3 DEF Change, Goto
<1>9. \A i \in 1..Len(readyBuf') : readyBuf'[i].size <= bufSize
  <2>1. /\ Len(readyBuf') = Len(readyBuf) + 1 /\ Len(readyBuf) \in Nat
        /\ \A i \in 1..Len(readyBuf) : readyBuf'[i] = readyBuf[i]
        /\ readyBuf'[Len(readyBuf) + 1] = full
    BY <1>2, <1>3, AppendProperties, LenProperties
  <2>2. \A i \in 1..Len(readyBuf') : i \in 1..Len(readyBuf) \/ i = Len(readyBuf) + 1
    BY <2>1
  <2>. QED
    BY <1>2, <1>3, <2>1, <2>2 DEF OneInv, Roomy
<1>10. Roomy'
  BY <1>3, <1>9, LogThreadAssumption DEF OneInv, Roomy
<1>11. OwnCode'
  BY <1>1, <1>8 DEF OneInv, OwnCode, Logging, Copying
<1>12. EmptyBatch' /\ Copied' /\ AppendedIsInLog'
  BY <1>1, <1>3, <1>8 DEF OneInv, EmptyBatch, Copied, AppendedIsInLog
<1>. QED
  BY <1>3, <1>4, <1>5, <1>6, <1>7, <1>10, <1>11, <1>12 DEF OneInv, NoFault

(* Without a free buffer its text is given up, and overFlowMes tells.      *)
LEMMA ChangeOverOne ==
  ASSUME IInv, OneInv, Alone, NEW p \in Procs, ChangeOver(p)
  PROVE  /\ OneInv'
         /\ preBuf = 0
         /\ OverFlow \in {currentBuf'[i] : i \in 1..currentBufIndex'}
         /\ \A b : b \in InLog /\ b \notin InLog' => b \in InCurrent
<1>1. p \in Threads /\ p # Worker /\ \A q \in Threads : q = p
  BY OneLogs DEF ChangeOver, At, Logging, Copying
<1>2. /\ currentBuf' = Overflowed /\ currentBufIndex' = OverIndex
      /\ UNCHANGED <<preBuf, readyBuf, bufToWrite, fileVars, sent, fault>>
      /\ pc \in [Procs -> Pcs] /\ Worker \in Procs
  BY DEF ChangeOver, IInv, ThreadsType, Procs
<1>3. preBuf = 0
  BY LogThreadAssumption DEF ChangeOver, HasFree, IInv, BuffersType
<1>4. 1 \in 1..OverIndex /\ 1 \in 1..bufSize /\ 1 <= OverIndex
  BY LogThreadAssumption
<1>5. OverFlow \in {currentBuf'[i] : i \in 1..currentBufIndex'}
  <2>1. currentBuf'[1] = OverFlow
    BY <1>2, <1>4 DEF Overflowed
  <2>. QED
    BY <1>2, <1>4, <2>1
<1>6. InFile' = InFile /\ TextsOf(readyBuf') = TextsOf(readyBuf) /\ TextsOf(bufToWrite') = TextsOf(bufToWrite)
  BY <1>2 DEF InFile, fileVars
<1>7. \A b : b \in InLog /\ b \notin InLog' => b \in InCurrent
  BY <1>6 DEF InLog, Unwritten
<1>8. pc'[p] = "copy" /\ pc'[Worker] = pc[Worker]
  BY <1>1, <1>2 DEF ChangeOver, Goto
<1>9. Roomy'
  BY <1>2, LogThreadAssumption DEF OneInv, Roomy
<1>10. OwnCode'
  BY <1>1, <1>8 DEF OneInv, OwnCode, Logging, Copying
<1>11. EmptyBatch' /\ Copied' /\ AppendedIsInLog'
  BY <1>1, <1>2, <1>8 DEF OneInv, EmptyBatch, Copied, AppendedIsInLog
<1>. QED
  BY <1>2, <1>3, <1>5, <1>7, <1>9, <1>10, <1>11 DEF OneInv, NoFault

(* memcpy writes behind the text.                                          *)
LEMMA CopyOne ==
  ASSUME IInv, OneInv, Alone, NEW p \in Procs, Copy(p)
  PROVE  OneInv' /\ InLog' = InLog /\ InCurrent' = InCurrent
<1>1. p \in Threads /\ p # Worker /\ \A q \in Threads : q = p
  BY OneLogs DEF Copy, At, Logging, Copying
<1>2. /\ UNCHANGED <<currentBufIndex, preBuf, readyBuf, bufToWrite, fileVars, sent>>
      /\ pc \in [Procs -> Pcs] /\ Worker \in Procs
      /\ currentBufIndex \in Nat /\ currentBuf \in [1..bufSize -> Cell] /\ pc[p] = "copy" /\ ~fault
  BY DEF Copy, At, IInv, ThreadsType, BuffersType, Buffer, Procs
<1>3. currentBufIndex < bufSize
  BY <1>1, <1>2 DEF OneInv, Roomy
<1>4. currentBufIndex + 1 \in 1..bufSize /\ currentBufIndex + 1 <= bufSize
  BY <1>2, <1>3, LogThreadAssumption
<1>5. /\ currentBuf' = [currentBuf EXCEPT ![currentBufIndex + 1] = <<p, sent[p]>>]
      /\ fault' = fault
  BY <1>4 DEF Copy, Target
<1>6. /\ currentBuf'[currentBufIndex + 1] = <<p, sent[p]>>
      /\ \A i \in 1..currentBufIndex : currentBuf'[i] = currentBuf[i]
  BY <1>2, <1>3, <1>4, <1>5, LogThreadAssumption
<1>7. InCurrent' = InCurrent
  <2>1. /\ TextOf(currentBuf', currentBufIndex) = {currentBuf'[i] : i \in 1..currentBufIndex} \cap Block
        /\ TextOf(currentBuf, currentBufIndex) = {currentBuf[i] : i \in 1..currentBufIndex} \cap Block
    BY <1>2, <1>3, LogThreadAssumption, TextOfFits
  <2>2. {currentBuf'[i] : i \in 1..currentBufIndex} = {currentBuf[i] : i \in 1..currentBufIndex}
    BY <1>6
  <2>. QED
    BY <1>2, <2>1, <2>2 DEF InCurrent
<1>8. InLog' = InLog
  BY <1>2, <1>7 DEF InLog, Unwritten, InFile, fileVars
<1>9. pc'[p] = "bump" /\ pc'[Worker] = pc[Worker]
  BY <1>1, <1>2 DEF Copy, Goto
<1>10. sent[p] >= 1
  BY <1>2 DEF IInv, Calling, Copying
<1>11. Roomy' /\ Copied'
  BY <1>1, <1>2, <1>3, <1>6, <1>10 DEF OneInv, Roomy, Copied
<1>12. OwnCode'
  BY <1>1, <1>9 DEF OneInv, OwnCode, Logging
<1>13. EmptyBatch' /\ AppendedIsInLog'
  BY <1>1, <1>2, <1>9 DEF OneInv, EmptyBatch, AppendedIsInLog
<1>. QED
  BY <1>2, <1>5, <1>7, <1>8, <1>11, <1>12, <1>13 DEF OneInv, NoFault

(* The index counts it.                                                    *)
LEMMA BumpOne ==
  ASSUME IInv, OneInv, Alone, NEW p \in Procs, Bump(p)
  PROVE  /\ OneInv' /\ InLog \subseteq InLog'
         /\ InCurrent' = InCurrent \cup {<<p, sent[p]>>}
<1>1. p \in Threads /\ p # Worker /\ \A q \in Threads : q = p
  BY OneLogs DEF Bump, At, Logging, Copying
<1>2. /\ UNCHANGED <<currentBuf, preBuf, readyBuf, bufToWrite, fileVars, sent, fault>>
      /\ currentBufIndex' = currentBufIndex + 1
      /\ pc \in [Procs -> Pcs] /\ Worker \in Procs
      /\ currentBufIndex \in Nat /\ pc[p] = "bump"
  BY DEF Bump, At, IInv, ThreadsType, BuffersType, Procs
<1>3. currentBufIndex < bufSize /\ currentBuf[currentBufIndex + 1] = <<p, sent[p]>> /\ sent[p] >= 1
  BY <1>1, <1>2 DEF OneInv, Roomy, Copied
<1>4. <<p, sent[p]>> \in Block
  <2>1. sent[p] \in 1..Blocks
    BY <1>3, LogThreadAssumption DEF IInv, ThreadsType
  <2>. QED
    BY <2>1 DEF Block
<1>5. InCurrent' = InCurrent \cup {<<p, sent[p]>>}
  <2>. DEFINE n == currentBufIndex
  <2>1. n \in Nat /\ n <= bufSize /\ n + 1 <= bufSize /\ n + 1 \in Nat
    BY <1>2, <1>3, LogThreadAssumption
  <2>2. /\ TextOf(currentBuf, n) = {currentBuf[i] : i \in 1..n} \cap Block
        /\ TextOf(currentBuf, n + 1) = {currentBuf[i] : i \in 1..(n + 1)} \cap Block
    BY <2>1, TextOfFits
  <2>3. 1..(n + 1) = (1..n) \cup {n + 1}
    BY <2>1
  <2>4. {currentBuf[i] : i \in 1..(n + 1)} = {currentBuf[i] : i \in 1..n} \cup {<<p, sent[p]>>}
    BY <1>3, <2>3
  <2>. QED
    BY <1>2, <1>4, <2>2, <2>4 DEF InCurrent
<1>6. InFile' = InFile /\ TextsOf(readyBuf') = TextsOf(readyBuf) /\ TextsOf(bufToWrite') = TextsOf(bufToWrite)
  BY <1>2 DEF InFile, fileVars
<1>7. InLog \subseteq InLog' /\ <<p, sent[p]>> \in InLog'
  BY <1>5, <1>6 DEF InLog, Unwritten
<1>8. pc'[p] \in {"unlock", "release"} /\ pc'[Worker] = pc[Worker]
  BY <1>1, <1>2 DEF Bump, Goto
<1>9. Roomy'
  BY <1>1, <1>2, <1>3, <1>8, LogThreadAssumption DEF OneInv, Roomy
<1>10. OwnCode'
  BY <1>1, <1>8 DEF OneInv, OwnCode, Logging
<1>11. EmptyBatch' /\ Copied'
  BY <1>1, <1>2, <1>8 DEF OneInv, EmptyBatch, Copied
<1>12. AppendedIsInLog'
  <2>1. \A q \in Threads : <<q, sent'[q]>> = <<p, sent[p]>>
    BY <1>1, <1>2
  <2>. QED
    BY <1>7, <2>1 DEF AppendedIsInLog
<1>. QED
  BY <1>2, <1>5, <1>7, <1>9, <1>10, <1>11, <1>12 DEF OneInv, NoFault

(* The swap: what was to be written is empty, and readyBuf_ is within its  *)
(* bound.                                                                  *)
LEMMA SwapOne ==
  ASSUME IInv, OneInv, Alone, Swap
  PROVE  OneInv' /\ InLog' = InLog
<1>1. /\ UNCHANGED <<currentBuf, currentBufIndex, preBuf, fileVars, sent>>
      /\ bufToWrite' = readyBuf /\ readyBuf' = bufToWrite
      /\ pc \in [Procs -> Pcs] /\ Worker \in Procs /\ Worker \notin Threads /\ pc[Worker] = "swap"
  BY LogThreadAssumption DEF Swap, At, IInv, ThreadsType, Procs
<1>2. bufToWrite = <<>>
  BY <1>1 DEF OneInv, EmptyBatch
<1>3. Len(readyBuf) <= bufNum
  <2>1. Len(readyBuf) \in Nat /\ Len(bufToWrite) \in Nat /\ preBuf \in Nat
    BY LenProperties, LogThreadAssumption DEF IInv, BuffersType
  <2>. QED
    BY <2>1, LogThreadAssumption DEF IInv, BuffersConserved
<1>4. ~fault'
  <2>1. Len(readyBuf) \in Nat
    BY LenProperties DEF IInv, BuffersType
  <2>. QED
    <3>1. ~(bufToWrite # <<>> \/ Len(readyBuf) > bufNum)
      BY <1>2, <1>3, <2>1, LogThreadAssumption
    <3>2. fault' = (bufToWrite # <<>> \/ Len(readyBuf) > bufNum)
      BY Zenon DEF Swap
    <3>. QED
      BY <3>1, <3>2, Zenon
<1>5. InLog' = InLog
  BY <1>1 DEF InLog, Unwritten, InCurrent, InFile, fileVars
<1>6. pc'[Worker] = "flush" /\ \A q \in Threads : pc'[q] = pc[q]
  BY <1>1 DEF Swap, Goto, Procs
<1>7. Roomy'
  BY <1>1, <1>6 DEF OneInv, Roomy
<1>8. OwnCode' /\ EmptyBatch' /\ Copied' /\ AppendedIsInLog'
  BY <1>1, <1>5, <1>6 DEF OneInv, OwnCode, EmptyBatch, Copied, AppendedIsInLog
<1>. QED
  BY <1>4, <1>5, <1>7, <1>8 DEF OneInv, NoFault

(* A buffer of the batch goes to the file.                                 *)
LEMMA FlushOneOne ==
  ASSUME IInv, OneInv, Alone, FlushOne
  PROVE  /\ OneInv' /\ InLog' = InLog
         /\ \E cells \in Seq(Cell) :
              /\ Len(cells) <= bufSize /\ writeMessage(cells)
              /\ InFile' = InFile \cup (Range(cells) \cap Block)
              /\ TextsOf(bufToWrite) = TextsOf(bufToWrite') \cup (Range(cells) \cap Block)
              /\ Len(bufToWrite') = Len(bufToWrite) - 1
<1>1. /\ UNCHANGED <<currentBuf, currentBufIndex, readyBuf, sent, pc>>
      /\ bufToWrite' = Front(bufToWrite) /\ bufToWrite # <<>> /\ pc[Worker] = "flush"
      /\ bufToWrite \in Seq(Filled)
  BY DEF FlushOne, At, IInv, BuffersType
<1>. DEFINE b     == Last(bufToWrite)
            cells == SubSeq(b.buf, 1, b.size)
<1>2. /\ b \in Filled /\ b = bufToWrite[Len(bufToWrite)] /\ Len(bufToWrite) \in Nat \ {0}
      /\ Len(bufToWrite') = Len(bufToWrite) - 1
      /\ \A i \in 1..(Len(bufToWrite) - 1) : bufToWrite'[i] = bufToWrite[i]
      /\ TextsOf(bufToWrite) = TextsOf(bufToWrite') \cup TextOf(b.buf, b.size)
  BY <1>1, TextsOfFront
<1>3. b.size <= bufSize /\ b.size \in Nat /\ b.buf \in [1..bufSize -> Cell]
  <2>1. Len(bufToWrite) \in 1..Len(bufToWrite)
    BY <1>2
  <2>2. b.size <= bufSize
    BY <1>2, <2>1 DEF OneInv, Roomy
  <2>. QED
    BY <1>2, <2>2 DEF Filled, Buffer
<1>4. writeMessage(cells) /\ fault' = fault
  BY <1>3 DEF FlushOne
<1>. HIDE DEF b
<1>5. /\ cells \in Seq(Cell) /\ Len(cells) = b.size
      /\ \A i \in 1..b.size : cells[i] = b.buf[i]
  <2>1. b.buf \in Seq(Cell)
    BY <1>3, LogThreadAssumption, SeqDef
  <2>2. \A i \in 1..b.size : b.buf[i] \in Cell
    BY <1>3, LogThreadAssumption
  <2>3. /\ cells \in Seq(Cell)
        /\ Len(cells) = IF 1 <= b.size THEN b.size - 1 + 1 ELSE 0
        /\ \A i \in 1..(b.size - 1 + 1) : cells[i] = b.buf[1 + i - 1]
    BY <1>3, <2>1, <2>2, SubSeqProperties
  <2>. QED
    BY <1>3, <2>3
<1>. HIDE DEF cells
<1>6. Range(cells) = {b.buf[i] : i \in 1..b.size}
  <2>1. DOMAIN cells = 1..b.size
    BY <1>5, LenProperties
  <2>2. \A x : x \in Range(cells) <=> \E i \in 1..b.size : x = cells[i]
    BY <2>1, RangeElements
  <2>. QED
    BY <1>5, <2>2
<1>7. TextOf(b.buf, b.size) = Range(cells) \cap Block
  BY <1>3, <1>6, TextOfFits
<1>8. InFile' = InFile \cup (Range(cells) \cap Block)
  BY <1>4, <1>5, FilesGrow DEF IInv
<1>9. InLog' = InLog
  <2>1. InCurrent' = InCurrent /\ TextsOf(readyBuf') = TextsOf(readyBuf)
    BY <1>1 DEF InCurrent
  <2>. QED
    BY <1>2, <1>7, <1>8, <2>1 DEF InLog, Unwritten
<1>10. Roomy'
  <2>1. \A i \in 1..Len(bufToWrite') :
          i \in 1..Len(bufToWrite) /\ bufToWrite'[i] = bufToWrite[i]
    BY <1>2
  <2>. QED
    BY <1>1, <2>1 DEF OneInv, Roomy
<1>11. OwnCode' /\ EmptyBatch' /\ Copied' /\ AppendedIsInLog'
  BY <1>1, <1>9 DEF OneInv, OwnCode, EmptyBatch, Copied, AppendedIsInLog
<1>. QED
  BY <1>2, <1>3, <1>4, <1>5, <1>7, <1>8, <1>9, <1>10, <1>11 DEF OneInv, NoFault

(* Every step keeps the invariant, and every step but an overflow keeps    *)
(* the log.                                                                *)
LEMMA StepOne ==
  ASSUME IInv, OneInv, Alone, [Next]_vars
  PROVE  /\ OneInv'
         /\ \/ InLog \subseteq InLog'
            \/ /\ preBuf = 0
               /\ OverFlow \in {currentBuf'[i] : i \in 1..currentBufIndex'}
               /\ \A b : b \in InLog /\ b \notin InLog' => b \in InCurrent
<1>1. ASSUME NEW p \in Threads, Call(p) PROVE OneInv' /\ InLog' = InLog
  BY <1>1, LockingOne DEF Procs
<1>2. ASSUME NEW p \in Procs,
             Acquire(p) \/ Check(p) \/ Unlock(p) \/ Notify(p) \/ Release(p)
      PROVE  OneInv' /\ InLog' = InLog
  BY <1>2, LockingOne
<1>3. ASSUME Report \/ Reset PROVE FALSE
  BY <1>3 DEF Report, Reset, At, OneInv, OwnCode
<1>4. CASE UNCHANGED vars
  <2>1. UNCHANGED <<bufVars, fileVars>> /\ UNCHANGED <<pc, sent, fault>>
    BY <1>4 DEF vars
  <2>2. ~fault' /\ OwnCode' /\ (pc'[Worker] # "flush" => bufToWrite = <<>>)
        /\ \A q \in Threads : pc'[q] = "copy" => currentBufIndex < bufSize
    BY <2>1 DEF OneInv, NoFault, OwnCode, EmptyBatch, Roomy
  <2>. QED
    BY <2>1, <2>2, QuietOne
<1>. QED
  BY <1>1, <1>2, <1>3, <1>4, ChangeOne, ChangeOverOne, CopyOne, BumpOne, WaitingOne, SwapOne, FlushOneOne
     DEF Next, apendMessage, logLoop

LEMMA OneInvariance == ASSUME Alone PROVE Spec => []OneInv
<1>1. IInv /\ OneInv /\ [Next]_vars => OneInv'
  BY StepOne
<1>. QED
  BY <1>1, InitOne, Invariance, PTL DEF Spec

(* With one thread that logs, no assert of log_thread.cpp fails and no     *)
(* buffer is overrun, although the second unlock of apendMessage           *)
(* (log_thread.cpp:69) can free mut_ while the log thread holds it.        *)
THEOREM OneLoggerNoFault == ASSUME Alone PROVE Spec => []NoFault
<1>1. OneInv => NoFault
  BY DEF OneInv
<1>. QED
  BY <1>1, OneInvariance, PTL

(* What apendMessage was given is in the log when it returns               *)
(* (log_thread.cpp:47-76): in the current buffer, ready, in the batch that *)
(* is being written, or in a file.                                         *)
THEOREM OneLoggerAppends == ASSUME Alone PROVE Spec => []AppendedIsInLog
<1>1. OneInv => AppendedIsInLog
  BY DEF OneInv
<1>. QED
  BY <1>1, OneInvariance, PTL

(* Text leaves the log only where every buffer is full                     *)
(* (log_thread.cpp:83), only from the current buffer, and then             *)
(* overFlowMes is in its place.                                            *)
THEOREM OneLoggerLosesByOverflow == ASSUME Alone PROVE Spec => LostOnlyByOverflow
<1>1. IInv /\ OneInv /\ [Next]_vars =>
        [\A b \in Block : b \in InLog /\ b \notin InLog' =>
           /\ preBuf = 0 /\ b \in InCurrent
           /\ OverFlow \in {currentBuf'[i] : i \in 1..currentBufIndex'}]_vars
  BY StepOne
<1>. QED
  BY <1>1, Invariance, OneInvariance, PTL DEF Spec, LostOnlyByOverflow

-----------------------------------------------------------------------------
(***************************************************************************)
(* The order of the log.  FlattenSeq is chosen by its recursion over the   *)
(* files; that there is such a function, and that its value for the first  *)
(* k files depends on these alone, is shown by the least number of files   *)
(* for which it were not so.                                               *)
(***************************************************************************)
IsFlat(f, n, s) == f = [i \in 1..n |-> IF i = 1 THEN s[i] ELSE f[i - 1] \o s[i]]

Alike(s, t, l, S) == \A i \in 1..l : s[i] = t[i] /\ s[i] \in Seq(S)

LastGrows(s, t, n, cells) ==
  t[n] = s[n] \o cells /\ \A i \in 1..n : i # n => t[i] = s[i]

Flattens(f, n, s, S) ==
  IsFlat(f, n, s) /\ FlattenSeq(s) = f[n] /\ \A k \in 1..n : f[k] \in Seq(S)

LEMMA LeastExists ==
  ASSUME NEW T \in SUBSET Nat, T # {}
  PROVE  \E x \in T : \A y \in T : x <= y
<1>1. PICK x \in T : \A y \in T : <<y, x>> \notin OpToRel(<, Nat)
  BY NatLessThanWellFounded, WFMin
<1>2. \A y \in T : ~(y < x)
  BY <1>1 DEF OpToRel
<1>. QED
  BY <1>2

LEMMA FlattenIsChosen ==
  ASSUME NEW s, NEW n, n = Len(s), n # 0
  PROVE  FlattenSeq(s) = (CHOOSE f : IsFlat(f, n, s))[n]
BY DEF FlattenSeq, IsFlat

LEMMA FlatExtends ==
  ASSUME NEW n \in Nat, NEW s, NEW f, IsFlat(f, n, s)
  PROVE  \E g : IsFlat(g, n + 1, s)
<1>. DEFINE g == [i \in 1..(n + 1) |->
                    IF i <= n THEN f[i] ELSE IF i = 1 THEN s[i] ELSE f[i - 1] \o s[i]]
            h == [i \in 1..(n + 1) |-> IF i = 1 THEN s[i] ELSE g[i - 1] \o s[i]]
<1>1. ASSUME NEW i \in 1..(n + 1)
      PROVE  g[i] = h[i]
  <2>1. CASE i <= n
    <3>1. i \in 1..n /\ (i # 1 => i - 1 \in 1..(n + 1) /\ i - 1 <= n)
      BY <2>1
    <3>2. f[i] = IF i = 1 THEN s[i] ELSE f[i - 1] \o s[i]
      BY <3>1 DEF IsFlat
    <3>. QED
      BY <2>1, <3>1, <3>2
  <2>2. CASE ~(i <= n)
    <3>1. i # 1 => i - 1 \in 1..(n + 1) /\ i - 1 <= n
      OBVIOUS
    <3>. QED
      BY <2>2, <3>1
  <2>. QED
    BY <2>1, <2>2
<1>2. DOMAIN g = 1..(n + 1) /\ DOMAIN h = 1..(n + 1)
  OBVIOUS
<1>3. g = h
  BY <1>1, <1>2
<1>4. IsFlat(g, n + 1, s)
  BY <1>3 DEF IsFlat
<1>. QED
  BY <1>4

LEMMA FlatExists ==
  ASSUME NEW n \in Nat, NEW s
  PROVE  \E f : IsFlat(f, n, s)
<1>. DEFINE Missing == {m \in Nat : ~ \E f : IsFlat(f, m, s)}
<1>1. 0 \notin Missing
  <2>. DEFINE z == [i \in 1..0 |-> 0]
  <2>1. z = [i \in 1..0 |-> IF i = 1 THEN s[i] ELSE z[i - 1] \o s[i]]
    <3>1. \A i \in 1..0 : FALSE
      OBVIOUS
    <3>. QED
      BY <3>1
  <2>2. IsFlat(z, 0, s)
    BY <2>1 DEF IsFlat
  <2>. QED
    BY <2>2
<1>2. Missing = {}
  <2>. SUFFICES ASSUME Missing # {} PROVE FALSE
    OBVIOUS
  <2>1. PICK m \in Missing : \A k \in Missing : m <= k
    <3>. Missing \in SUBSET Nat
      OBVIOUS
    <3>. HIDE DEF Missing
    <3>. QED
      BY LeastExists
  <2>2. m \in Nat /\ m # 0
    BY <1>1
  <2>3. m - 1 \in Nat /\ m - 1 \notin Missing
    BY <2>1, <2>2
  <2>4. PICK f : IsFlat(f, m - 1, s)
    BY <2>3
  <2>5. \E g : IsFlat(g, (m - 1) + 1, s)
    BY <2>3, <2>4, FlatExtends
  <2>6. (m - 1) + 1 = m
    BY <2>2
  <2>. QED
    BY <2>5, <2>6
<1>. QED
  BY <1>2

(* What the first files give is a sequence, and that of any files that     *)
(* begin alike.                                                            *)
LEMMA FlatOfFirst ==
  ASSUME NEW S, NEW n \in Nat, NEW s, NEW f, IsFlat(f, n, s),
         NEW m \in Nat, NEW t, NEW g, IsFlat(g, m, t),
         NEW l \in Nat, l <= n, l <= m, Alike(s, t, l, S)
  PROVE  \A k \in 1..l : f[k] = g[k] /\ f[k] \in Seq(S)
<1>. DEFINE Bad == {k \in 1..l : ~(f[k] = g[k] /\ f[k] \in Seq(S))}
<1>1. Bad = {}
  <2>. SUFFICES ASSUME Bad # {} PROVE FALSE
    OBVIOUS
  <2>1. PICK k \in Bad : \A j \in Bad : k <= j
    <3>. Bad \in SUBSET Nat
      OBVIOUS
    <3>. HIDE DEF Bad
    <3>. QED
      BY LeastExists
  <2>2. k \in 1..l /\ ~(f[k] = g[k] /\ f[k] \in Seq(S)) /\ k \in 1..n /\ k \in 1..m
    OBVIOUS
  <2>3. /\ f[k] = IF k = 1 THEN s[k] ELSE f[k - 1] \o s[k]
        /\ g[k] = IF k = 1 THEN t[k] ELSE g[k - 1] \o t[k]
    BY <2>2 DEF IsFlat
  <2>4. s[k] = t[k] /\ s[k] \in Seq(S)
    BY <2>2 DEF Alike
  <2>5. k # 1
    BY <2>2, <2>3, <2>4
  <2>6. k - 1 \in 1..l /\ k - 1 \notin Bad
    BY <2>1, <2>2, <2>5
  <2>7. f[k - 1] = g[k - 1] /\ f[k - 1] \in Seq(S)
    BY <2>6
  <2>8. f[k - 1] \o s[k] \in Seq(S)
    BY <2>4, <2>7, ConcatProperties
  <2>. QED
    BY <2>2, <2>3, <2>4, <2>5, <2>7, <2>8
<1>. QED
  BY <1>1

LEMMA FlattenIs ==
  ASSUME NEW S, NEW s \in Seq(Seq(S)), NEW n, n = Len(s), n # 0
  PROVE  \E f : Flattens(f, n, s, S)
<1>1. n \in Nat /\ n <= n /\ \A i \in 1..n : s[i] \in Seq(S)
  BY LenProperties, ElementOfSeq
<1>2. PICK f : IsFlat(f, n, s) /\ FlattenSeq(s) = f[n]
  BY <1>1, FlattenIsChosen, FlatExists
<1>3. Alike(s, s, n, S)
  BY <1>1 DEF Alike
<1>4. \A k \in 1..n : f[k] = f[k] /\ f[k] \in Seq(S)
  BY <1>1, <1>2, <1>3, FlatOfFirst
<1>. QED
  BY <1>2, <1>4 DEF Flattens

Associates(x, y, z) == (x \o y) \o z = x \o (y \o z)

LEMMA ConcatThree ==
  ASSUME NEW S, NEW x \in Seq(S), NEW y \in Seq(S), NEW z \in Seq(S)
  PROVE  Associates(x, y, z)
BY ConcatAssociative DEF Associates

(* What is written to the last file comes last, ...                        *)
LEMMA FlattenLast ==
  ASSUME NEW S, NEW s \in Seq(Seq(S)), Len(s) >= 1, NEW cells \in Seq(S), NEW t \in Seq(Seq(S)),
         Len(t) = Len(s), LastGrows(s, t, Len(s), cells)
  PROVE  /\ FlattenSeq(s) \in Seq(S)
         /\ FlattenSeq(t) = FlattenSeq(s) \o cells
<1>. DEFINE n == Len(s)
<1>1. n \in Nat /\ n >= 1 /\ Len(t) = n /\ n \in 1..n /\ \A i \in 1..n : s[i] \in Seq(S)
  BY LenProperties, ElementOfSeq
<1>4. t[n] = s[n] \o cells /\ \A i \in 1..n : i # n => t[i] = s[i]
  BY DEF LastGrows
<1>c. n = Len(s) /\ n = Len(t) /\ n # 0
  BY <1>1
<1>. HIDE DEF n
<1>a. PICK f : Flattens(f, n, s, S)
  BY <1>c, FlattenIs
<1>b. PICK g : Flattens(g, n, t, S)
  BY <1>c, FlattenIs
<1>2. IsFlat(f, n, s) /\ FlattenSeq(s) = f[n] /\ \A k \in 1..n : f[k] \in Seq(S)
  BY <1>a DEF Flattens
<1>3. IsFlat(g, n, t) /\ FlattenSeq(t) = g[n]
  BY <1>b DEF Flattens
<1>5. /\ f[n] = IF n = 1 THEN s[n] ELSE f[n - 1] \o s[n]
      /\ g[n] = IF n = 1 THEN t[n] ELSE g[n - 1] \o t[n]
  BY <1>1, <1>2, <1>3 DEF IsFlat
<1>6. CASE n = 1
  BY <1>1, <1>2, <1>3, <1>4, <1>5, <1>6
<1>7. CASE n # 1
  <2>1. /\ n - 1 \in Nat /\ n - 1 <= n /\ n - 1 \in 1..(n - 1)
        /\ \A i \in 1..(n - 1) : i \in 1..n /\ i # n
    BY <1>1, <1>7
  <2>2. Alike(s, t, n - 1, S)
    BY <1>1, <1>4, <2>1 DEF Alike
  <2>3. \A k \in 1..(n - 1) : f[k] = g[k] /\ f[k] \in Seq(S)
    BY <1>1, <1>2, <1>3, <2>1, <2>2, FlatOfFirst
  <2>4. f[n - 1] = g[n - 1] /\ f[n - 1] \in Seq(S) /\ s[n] \in Seq(S)
    BY <1>1, <2>1, <2>3
  <2>5. (f[n - 1] \o s[n]) \o cells = f[n - 1] \o (s[n] \o cells)
    <3>1. Associates(f[n - 1], s[n], cells)
      BY ONLY <2>4, cells \in Seq(S), ConcatThree
    <3>. QED
      BY <3>1 DEF Associates
  <2>. QED
    BY <1>1, <1>2, <1>3, <1>4, <1>5, <1>7, <2>4, <2>5
<1>. QED
  BY <1>6, <1>7

(* ... and a new file adds nothing.                                        *)
LEMMA FlattenNew ==
  ASSUME NEW S, NEW s \in Seq(Seq(S)), Len(s) >= 1
  PROVE  FlattenSeq(Append(s, <<>>)) = FlattenSeq(s)
<1>. DEFINE n == Len(s)
            empty == <<>>
            t == Append(s, empty)
<1>1. n \in Nat /\ n >= 1 /\ \A i \in 1..n : s[i] \in Seq(S)
  BY LenProperties, ElementOfSeq
<1>2. empty \in Seq(S)
  BY EmptySeq
<1>a. PICK f : Flattens(f, n, s, S)
  BY <1>1, FlattenIs
<1>3. IsFlat(f, n, s) /\ FlattenSeq(s) = f[n] /\ \A k \in 1..n : f[k] \in Seq(S)
  BY <1>a DEF Flattens
<1>. HIDE DEF empty
<1>4. t \in Seq(Seq(S)) /\ Len(t) = n + 1 /\ t[n + 1] = empty /\ \A i \in 1..n : t[i] = s[i]
  BY <1>2, AppendProperties
<1>. HIDE DEF n, t
<1>b. PICK g : Flattens(g, n + 1, t, S)
  <2>1. n + 1 = Len(t) /\ n + 1 # 0
    BY <1>1, <1>4
  <2>. QED
    BY <1>4, <2>1, FlattenIs
<1>5. IsFlat(g, n + 1, t) /\ FlattenSeq(t) = g[n + 1]
  BY <1>b DEF Flattens
<1>6. n + 1 \in 1..(n + 1) /\ n + 1 # 1 /\ (n + 1) - 1 = n /\ n <= n + 1 /\ n <= n /\ n \in 1..n
      /\ n + 1 \in Nat
  BY <1>1
<1>7. g[n + 1] = g[n] \o t[n + 1]
  BY <1>5, <1>6 DEF IsFlat
<1>8. \A k \in 1..n : f[k] = g[k] /\ f[k] \in Seq(S)
  <2>1. Alike(s, t, n, S)
    BY <1>1, <1>4 DEF Alike
  <2>. QED
    BY <1>1, <1>3, <1>5, <1>6, <2>1, FlatOfFirst
<1>9. f[n] \o empty = f[n]
  BY <1>6, <1>8, ConcatEmptySeq DEF empty
<1>10. FlattenSeq(t) = FlattenSeq(s)
  BY <1>3, <1>4, <1>5, <1>6, <1>7, <1>8, <1>9
<1>. QED
  BY <1>10 DEF t, empty

-----------------------------------------------------------------------------
(* No block in the log is newer than the last one handed over, or, until   *)
(* the index counts that one, the one before it.                           *)
Recent ==
  \A b \in InLog : /\ b[2] <= sent[b[1]]
                   /\ pc[b[1]] \in Copying \cup {"bump"} => b[2] < sent[b[1]]

Ready(i) == TextOf(readyBuf[i].buf, readyBuf[i].size)

(* What is written and being written, the ready buffers, each behind the   *)
(* other, and the current one: each is older than the next.                *)
Queued ==
  /\ Older(InFile \cup TextsOf(bufToWrite), TextsOf(readyBuf) \cup InCurrent)
  /\ Older(TextsOf(readyBuf), InCurrent)
  /\ \A i, j \in 1..Len(readyBuf) : i < j => Older(Ready(i), Ready(j))

(* Two cells of the files: neither is a block that should come later.      *)
Before(c, d) == c \in Block /\ d \in Block => Older({c}, {d})

(* Cell m of the files is the last one of the batches before this one.     *)
BatchFrom(m, w) ==
  /\ m \in 0..Len(w)
  /\ Len(w) - m <= (bufNum - 1 - Len(bufToWrite)) * bufSize
  /\ \A i \in 1..m : \A j \in (m + 1)..Len(w) : Before(w[i], w[j])
  /\ \A i \in 1..m : w[i] \in Block => Older({w[i]}, TextsOf(bufToWrite))

Near(w) ==
  \A i, j \in 1..Len(w) :
    i < j /\ w[i] \in Block /\ w[j] \in Block /\ ~Older({w[i]}, {w[j]})
      => j - i < (bufNum - 1) * bufSize

Written == FlattenSeq(files)

WrittenInOrder ==
  /\ \A i \in 1..Len(Written) : Written[i] \in Block => Written[i] \in InFile
  /\ \E m \in Nat : BatchFrom(m, Written)
  /\ Near(Written)

OrderInv == Recent /\ Queued /\ WrittenInOrder

-----------------------------------------------------------------------------
(* The blocks in the log are blocks, of a thread and with a number.        *)
LEMMA LogIsBlocks ==
  /\ InLog \subseteq Block /\ InFile \subseteq Block /\ InCurrent \subseteq Block
  /\ TextsOf(readyBuf) \subseteq Block /\ TextsOf(bufToWrite) \subseteq Block
  /\ \A i : Ready(i) \subseteq Block
  /\ \A b \in Block : b[1] \in Procs /\ b[2] \in Nat
<1>1. \A buf, size : TextOf(buf, size) \subseteq Block
  BY DEF TextOf
<1>2. \A batch : TextsOf(batch) \subseteq Block
  BY <1>1 DEF TextsOf
<1>3. \A b \in Block : b[1] \in Procs /\ b[2] \in Nat
  BY DEF Block
<1>4. InFile \subseteq Block
  BY DEF InFile
<1>5. InCurrent \subseteq Block
  BY <1>1 DEF InCurrent
<1>6. \A i : Ready(i) \subseteq Block
  BY <1>1 DEF Ready
<1>7. InLog \subseteq Block
  BY <1>2, <1>4, <1>5 DEF InLog, Unwritten
<1>. QED
  BY <1>2, <1>3, <1>4, <1>5, <1>6, <1>7

(* A thread comes to the middle of apendMessage with a new block.          *)
Inside == Copying \cup {"bump"}

LEMMA CallsCount ==
  ASSUME IInv, OneInv, Alone, [Next]_vars, NEW q \in Procs
  PROVE  /\ sent[q] <= sent'[q]
         /\ pc'[q] \in Inside => pc[q] \in Inside \/ sent[q] < sent'[q]
<1>1. /\ pc \in [Procs -> Pcs] /\ sent \in [Procs -> 0..Blocks] /\ sent[q] \in Nat
      /\ Worker \in Procs /\ Threads \subseteq Procs
  BY LogThreadAssumption DEF IInv, ThreadsType, Procs
<1>2. ASSUME NEW p \in Procs, Call(p) PROVE (sent[q] <= sent'[q] /\ (q = p => sent[q] < sent'[q]))
                                             /\ (q # p => pc'[q] = pc[q])
  BY <1>1, <1>2 DEF Call, Goto
<1>3. ASSUME NEW p \in Procs, Acquire(p) \/ Check(p) \/ Change(p) \/ ChangeOver(p) \/ Copy(p) \/ Bump(p)
      PROVE  sent' = sent /\ pc[p] \in Inside /\ (q # p => pc'[q] = pc[q])
  BY <1>1, <1>3 DEF Acquire, Check, Change, ChangeOver, Copy, Bump, At, Goto, Inside, Copying
<1>4. ASSUME NEW p \in Procs, Unlock(p) \/ Release(p)
      PROVE  sent' = sent /\ pc'[p] \notin Inside /\ (q # p => pc'[q] = pc[q])
  BY <1>1, <1>4 DEF Unlock, Release, Goto, Inside, Copying
<1>5. ASSUME NEW p \in Procs, Notify(p)
      PROVE  sent' = sent /\ (pc'[q] \in {"release", "woken"} \/ pc'[q] = pc[q])
  BY <1>5, Zenon DEF Notify
<1>6. ASSUME logLoop \/ Spurious
      PROVE  sent' = sent /\ pc'[Worker] \notin Inside /\ (q # Worker => pc'[q] = pc[q])
  <2>1. pc[Worker] \notin {"report", "reset"} /\ ~printMes
    BY DEF OneInv, OwnCode, Alone
  <2>2. CASE Lock \/ Test \/ Wait \/ Swap \/ Flushed \/ Spurious
    BY <1>1, <2>1, <2>2 DEF Lock, Test, Wait, Swap, Flushed, Spurious, Goto, Inside, Copying
  <2>3. CASE FlushOne
    BY <1>1, <2>3 DEF FlushOne, At, Inside, Copying
  <2>4. CASE Report \/ Reset
    BY <2>1, <2>4 DEF Report, Reset, At
  <2>. QED
    BY <1>6, <2>2, <2>3, <2>4 DEF logLoop
<1>7. CASE UNCHANGED vars
  BY <1>1, <1>7 DEF vars
<1>8. CASE \E p \in Threads : Call(p)
  BY <1>1, <1>2, <1>8
<1>9. CASE \E p \in Procs : apendMessage(p)
  BY <1>1, <1>3, <1>4, <1>5, <1>9 DEF apendMessage, Inside, Copying
<1>10. CASE logLoop \/ Spurious
  BY <1>1, <1>6, <1>10
<1>. QED
  BY <1>7, <1>8, <1>9, <1>10 DEF Next

(* No block is newer than its thread says, if none is new in the log.      *)
LEMMA RecentKept ==
  ASSUME IInv, OneInv, Alone, Recent, [Next]_vars, IInv', InLog' \subseteq InLog
  PROVE  Recent'
<1>1. sent \in [Procs -> 0..Blocks] /\ sent' \in [Procs -> 0..Blocks] /\ Blocks \in Nat
  BY LogThreadAssumption DEF IInv, ThreadsType
<1>. SUFFICES ASSUME NEW b \in InLog'
     PROVE  b[2] <= sent'[b[1]] /\ (pc'[b[1]] \in Inside => b[2] < sent'[b[1]])
  BY DEF Recent, Inside
<1>2. b \in InLog /\ b[1] \in Procs /\ b[2] \in Nat
  BY LogIsBlocks
<1>3. b[2] <= sent[b[1]] /\ (pc[b[1]] \in Inside => b[2] < sent[b[1]])
  BY <1>2 DEF Recent, Inside
<1>4. /\ sent[b[1]] <= sent'[b[1]]
      /\ pc'[b[1]] \in Inside => pc[b[1]] \in Inside \/ sent[b[1]] < sent'[b[1]]
  BY <1>2, CallsCount
<1>5. PICK m, n \in Nat : m = sent[b[1]] /\ n = sent'[b[1]]
  BY <1>1, <1>2
<1>. QED
  BY <1>2, <1>3, <1>4, <1>5

(* Steps that move no text, but for text that is given up.                 *)
LEMMA QueuedKept ==
  ASSUME Queued, readyBuf' = readyBuf, bufToWrite' = bufToWrite, InFile' = InFile,
         InCurrent' \subseteq InCurrent
  PROVE  Queued' /\ InLog' \subseteq InLog
<1>1. /\ TextsOf(readyBuf') = TextsOf(readyBuf) /\ TextsOf(bufToWrite') = TextsOf(bufToWrite)
      /\ \A i : Ready(i)' = Ready(i)
  BY DEF Ready
<1>2. InLog' \subseteq InLog
  BY <1>1 DEF InLog, Unwritten
<1>3. Queued'
  BY <1>1 DEF Queued, Older
<1>. QED
  BY <1>2, <1>3

LEMMA OverflowedText ==
  ASSUME NEW p \in Procs, ChangeOver(p)
  PROVE  InCurrent' = {}
<1>1. currentBuf' = Overflowed /\ currentBufIndex' = OverIndex
  BY DEF ChangeOver
<1>2. OverIndex \in Nat /\ OverIndex <= bufSize /\ bufSize \in Nat
  BY LogThreadAssumption
<1>3. TextOf(currentBuf', OverIndex) = {currentBuf'[i] : i \in 1..OverIndex} \cap Block
  BY <1>2, TextOfFits
<1>4. \A i \in 1..OverIndex : currentBuf'[i] = OverFlow
  BY <1>1, <1>2 DEF Overflowed
<1>. QED
  BY <1>1, <1>3, <1>4, OverFlowAssumption DEF InCurrent

(* The current buffer becomes the last of the ready ones.                  *)
LEMMA ChangeQueued ==
  ASSUME IInv, OneInv, Alone, Queued, NEW p \in Procs, Change(p)
  PROVE  Queued'
<1>1. /\ TextsOf(readyBuf') = TextsOf(readyBuf) \cup InCurrent
      /\ InCurrent' = {} /\ InFile' = InFile /\ bufToWrite' = bufToWrite
  BY ChangeOne DEF Change
<1>. DEFINE full == [buf |-> currentBuf, size |-> currentBufIndex]
<1>2. full \in Filled /\ TextOf(full.buf, full.size) = InCurrent /\ readyBuf \in Seq(Filled)
  BY DEF IInv, BuffersType, Filled, InCurrent
<1>3. readyBuf' = Append(readyBuf, full)
  BY DEF Change, ReadyLast
<1>. HIDE DEF full
<1>9. PICK n \in Nat : n = Len(readyBuf)
  BY <1>2, LenProperties
<1>4. Len(readyBuf') = n + 1 /\ readyBuf'[n + 1] = full
      /\ \A i \in 1..n : readyBuf'[i] = readyBuf[i]
  BY <1>2, <1>3, <1>9, AppendProperties, LenProperties
<1>5. Ready(n + 1)' = InCurrent /\ \A i \in 1..n : Ready(i)' = Ready(i) /\ Ready(i) \subseteq TextsOf(readyBuf)
  <2>1. \A i \in 1..n : Ready(i) \subseteq TextsOf(readyBuf)
    BY <1>2, <1>9, TextsOfElements DEF Ready
  <2>. QED
    BY <1>2, <1>4, <2>1 DEF Ready
<1>6. ASSUME NEW i \in 1..(n + 1), NEW j \in 1..(n + 1), i < j
      PROVE  Older(Ready(i)', Ready(j)')
  <2>1. i \in 1..n /\ (j \in 1..n \/ j = n + 1)
    BY <1>4, <1>6
  <2>2. CASE j \in 1..n
    <3>1. Older(Ready(i), Ready(j))
      BY <1>6, <1>9, <2>1, <2>2 DEF Queued
    <3>. QED
      BY <1>5, <2>1, <2>2, <3>1
  <2>3. CASE j = n + 1
    <3>1. Older(TextsOf(readyBuf), InCurrent)
      BY DEF Queued
    <3>. QED
      <4>1. \A b \in Ready(i)' : b \in TextsOf(readyBuf)
        BY <1>5, <2>1
      <4>2. Ready(j)' = InCurrent
        BY <1>5, <2>3
      <4>. QED
        BY <3>1, <4>1, <4>2 DEF Older
  <2>. QED
    BY <2>1, <2>2, <2>3
<1>7. \A i, j \in 1..Len(readyBuf') : i < j => Older(Ready(i)', Ready(j)')
  BY <1>4, <1>6
<1>. QED
  BY <1>1, <1>7 DEF Queued, Older

(* A block that the index counts is newer than all in the log.             *)
LEMMA BumpOrder ==
  ASSUME IInv, OneInv, Alone, Recent, Queued, NEW p \in Procs, Bump(p), IInv'
  PROVE  Recent' /\ Queued'
<1>. DEFINE new == <<p, sent[p]>>
<1>1. /\ InCurrent' = InCurrent \cup {new}
      /\ readyBuf' = readyBuf /\ bufToWrite' = bufToWrite /\ InFile' = InFile /\ sent' = sent
      /\ pc[p] = "bump" /\ \A q \in Procs : q # p => pc'[q] = pc[q]
  <2>1. pc \in [Procs -> Pcs]
    BY DEF IInv, ThreadsType
  <2>. QED
    BY <2>1, BumpOne DEF Bump, At, Goto, InFile, fileVars
<1>2. pc'[p] \notin Inside
  <2>1. pc \in [Procs -> Pcs]
    BY DEF IInv, ThreadsType
  <2>. QED
    BY <2>1 DEF Bump, Goto, Inside, Copying
<1>3. new[1] = p /\ new[2] = sent[p] /\ sent[p] \in Nat
  BY LogThreadAssumption DEF IInv, ThreadsType
<1>. HIDE DEF new
<1>4. /\ TextsOf(readyBuf') = TextsOf(readyBuf) /\ TextsOf(bufToWrite') = TextsOf(bufToWrite)
      /\ \A i : Ready(i)' = Ready(i)
  BY <1>1 DEF Ready
<1>5. InLog' = InLog \cup {new}
  BY <1>1, <1>4 DEF InLog, Unwritten
<1>6. \A b \in InLog : b[1] = p => b[2] < new[2]
  BY <1>1, <1>3 DEF Recent
<1>7. Recent'
  <2>. SUFFICES ASSUME NEW b \in InLog'
       PROVE  b[2] <= sent'[b[1]] /\ (pc'[b[1]] \in Inside => b[2] < sent'[b[1]])
    BY DEF Recent, Inside
  <2>1. CASE b = new
    BY <1>1, <1>2, <1>3, <2>1
  <2>2. CASE b \in InLog
    <3>1. b[1] \in Procs
      BY <2>2, LogIsBlocks
    <3>2. b[2] <= sent[b[1]] /\ (pc[b[1]] \in Inside => b[2] < sent[b[1]])
      BY <2>2 DEF Recent, Inside
    <3>. QED
      BY <1>1, <1>2, <3>1, <3>2
  <2>. QED
    BY <1>5, <2>1, <2>2
<1>8. Queued'
  <2>1. \A b \in InFile \cup TextsOf(bufToWrite) \cup TextsOf(readyBuf) : b \in InLog
    BY DEF InLog, Unwritten
  <2>2. Older(InFile \cup TextsOf(bufToWrite), {new}) /\ Older(TextsOf(readyBuf), {new})
    BY <1>3, <1>6, <2>1 DEF Older
  <2>. QED
    BY <1>1, <1>4, <2>2 DEF Queued, Older
<1>. QED
  BY <1>7, <1>8

(* What was ready is the batch.                                            *)
LEMMA SwapQueued ==
  ASSUME IInv, OneInv, Alone, Queued, Swap
  PROVE  Queued'
<1>1. /\ bufToWrite' = readyBuf /\ readyBuf' = bufToWrite /\ InCurrent' = InCurrent /\ InFile' = InFile
      /\ bufToWrite = <<>>
  BY DEF Swap, InCurrent, InFile, fileVars, At, OneInv, EmptyBatch
<1>2. TextsOf(readyBuf') = {} /\ TextsOf(bufToWrite') = TextsOf(readyBuf)
  BY <1>1, TextsOfEmpty
<1>3. \A i \in 1..Len(readyBuf') : FALSE
  <2>1. Len(readyBuf') = 0
    BY <1>1, EmptySeq
  <2>. QED
    BY <2>1
<1>. QED
  BY <1>1, <1>2, <1>3 DEF Queued, Older

(* A buffer of the batch is in the file.                                   *)
LEMMA FlushQueued ==
  ASSUME IInv, OneInv, Alone, Queued, FlushOne
  PROVE  Queued'
<1>1. PICK cells \in Seq(Cell) :
        /\ InFile' = InFile \cup (Range(cells) \cap Block)
        /\ TextsOf(bufToWrite) = TextsOf(bufToWrite') \cup (Range(cells) \cap Block)
  BY FlushOneOne
<1>2. readyBuf' = readyBuf /\ InCurrent' = InCurrent
  BY DEF FlushOne, InCurrent
<1>3. TextsOf(readyBuf') = TextsOf(readyBuf) /\ \A i : Ready(i)' = Ready(i)
  BY <1>2 DEF Ready
<1>4. InFile' \cup TextsOf(bufToWrite') = InFile \cup TextsOf(bufToWrite)
  BY <1>1
<1>. QED
  BY <1>2, <1>3, <1>4 DEF Queued

-----------------------------------------------------------------------------
LEMMA WrittenIsSeq ==
  ASSUME FilesType
  PROVE  Written \in Seq(Cell) /\ Len(Written) \in Nat
<1>. DEFINE n == Len(files)
<1>1. files \in Seq(Seq(Cell)) /\ n = Len(files) /\ n # 0 /\ n \in 1..n
  BY LenProperties DEF FilesType
<1>. HIDE DEF n
<1>2. PICK f : Flattens(f, n, files, Cell)
  BY <1>1, FlattenIs
<1>3. Written \in Seq(Cell)
  BY <1>1, <1>2 DEF Flattens, Written
<1>. QED
  BY <1>3, LenProperties

(* What writeMessage adds to what is written.                              *)
LEMMA WrittenGrows ==
  ASSUME FilesType, NEW cells \in Seq(Cell), writeMessage(cells)
  PROVE  Written' = Written \o cells
<1>. DEFINE n == Len(files)
            grown == [files EXCEPT ![n] = files[n] \o cells]
<1>1. /\ files \in Seq(Seq(Cell)) /\ n \in Nat /\ n >= 1 /\ n \in 1..n /\ DOMAIN files = 1..n
      /\ files[n] \in Seq(Cell)
  <2>1. files \in Seq(Seq(Cell)) /\ n \in Nat /\ n >= 1 /\ DOMAIN files = 1..n
    BY LenProperties DEF FilesType
  <2>. QED
    BY <2>1, ElementOfSeq
<1>2. files[n] \o cells \in Seq(Cell)
  BY <1>1, ConcatProperties
<1>3. grown \in Seq(Seq(Cell)) /\ Len(grown) = n
  BY <1>1, <1>2, ExceptSeq
<1>8. LastGrows(files, grown, n, cells)
  BY <1>1, <1>2 DEF LastGrows
<1>4. files' = grown \/ files' = Append(grown, <<>>)
  BY DEF writeMessage
<1>5. n = Len(files)
  OBVIOUS
<1>. HIDE DEF n, grown
<1>6. FlattenSeq(grown) = FlattenSeq(files) \o cells
  BY <1>1, <1>3, <1>5, <1>8, FlattenLast
<1>7. FlattenSeq(Append(grown, <<>>)) = FlattenSeq(grown)
  BY <1>1, <1>3, FlattenNew
<1>. QED
  BY <1>4, <1>6, <1>7 DEF Written

(* Room for a batch and for one buffer more.                               *)
LEMMA Products ==
  ASSUME NEW a \in Nat, NEW b \in Nat, NEW c \in Nat, a <= b
  PROVE  a * c \in Nat /\ b * c \in Nat /\ a * c <= b * c /\ (a + 1) * c = a * c + c
<1>1. PICK d \in Nat : b = a + d
  <2>1. b - a \in Nat /\ b = a + (b - a)
    OBVIOUS
  <2>. QED
    BY <2>1
<1>2. a * c \in Nat /\ d * c \in Nat /\ (a + d) * c = a * c + d * c /\ (a + 1) * c = a * c + c
  OBVIOUS
<1>. QED
  BY <1>1, <1>2

LEMMA WrittenKept ==
  ASSUME WrittenInOrder, files' = files, bufToWrite' = bufToWrite
  PROVE  WrittenInOrder'
<1>1. Written' = Written /\ InFile' = InFile /\ TextsOf(bufToWrite') = TextsOf(bufToWrite)
  BY DEF Written, InFile
<1>. QED
  BY <1>1 DEF WrittenInOrder, BatchFrom

(* A new batch begins behind all that is written.                          *)
LEMMA SwapWritten ==
  ASSUME IInv, OneInv, Queued, WrittenInOrder, Swap
  PROVE  WrittenInOrder'
<1>1. /\ bufToWrite' = readyBuf /\ files' = files
      /\ Written' = Written /\ InFile' = InFile /\ TextsOf(bufToWrite') = TextsOf(readyBuf)
  BY DEF Swap, fileVars, Written, InFile
<1>2. PICK w \in Seq(Cell) : w = Written
  BY WrittenIsSeq DEF IInv
<1>3. PICK n \in Nat : n = Len(w)
  BY LenProperties
<1>4. 0 <= (bufNum - 1 - Len(readyBuf)) * bufSize
  <2>. DEFINE k == bufNum - 1 - Len(readyBuf)
  <2>1. k \in Nat
    <3>1. Len(readyBuf) \in Nat /\ Len(bufToWrite) \in Nat /\ preBuf \in Nat
      BY LenProperties, LogThreadAssumption DEF IInv, BuffersType
    <3>. QED
      BY <3>1, LogThreadAssumption DEF IInv, BuffersConserved
  <2>. HIDE DEF k
  <2>2. k * bufSize \in Nat
    BY <2>1, Products, LogThreadAssumption
  <2>. QED
    BY <2>2 DEF k
<1>5. \A i \in 1..n : w[i] \in Block => Older({w[i]}, TextsOf(readyBuf))
  <2>1. \A i \in 1..n : w[i] \in Block => w[i] \in InFile
    BY <1>2, <1>3 DEF WrittenInOrder
  <2>2. Older(InFile, TextsOf(readyBuf))
    BY DEF Queued, Older
  <2>. QED
    BY <2>1, <2>2 DEF Older
<1>6. \A j \in (n + 1)..n : FALSE
  OBVIOUS
<1>7. n \in 0..Len(w) /\ Len(w) - n <= (bufNum - 1 - Len(readyBuf)) * bufSize
  BY <1>3, <1>4
<1>8. BatchFrom(n, w)'
  BY <1>1, <1>3, <1>5, <1>6, <1>7 DEF BatchFrom
<1>9. /\ \A i \in 1..n : w[i] \in Block => w[i] \in InFile
      /\ Near(w)
  BY <1>2, <1>3 DEF WrittenInOrder
<1>. QED
  BY <1>1, <1>2, <1>3, <1>8, <1>9 DEF WrittenInOrder

(* The cells of a buffer come behind what is written of its batch.         *)
LEMMA FlushWritten ==
  ASSUME IInv, OneInv, Alone, WrittenInOrder, FlushOne
  PROVE  WrittenInOrder'
<1>1. PICK cells \in Seq(Cell) :
        /\ Len(cells) <= bufSize /\ writeMessage(cells)
        /\ InFile' = InFile \cup (Range(cells) \cap Block)
        /\ TextsOf(bufToWrite) = TextsOf(bufToWrite') \cup (Range(cells) \cap Block)
        /\ Len(bufToWrite') = Len(bufToWrite) - 1
  BY FlushOneOne
<1>2. PICK w \in Seq(Cell) : w = Written
  BY WrittenIsSeq DEF IInv
<1>3. PICK v \in Seq(Cell) : v = w \o cells /\ v = Written'
  <2>1. Written' = w \o cells
    BY <1>1, <1>2, WrittenGrows DEF IInv
  <2>2. w \o cells \in Seq(Cell)
    BY ConcatProperties
  <2>. QED
    BY <2>1, <2>2
<1>4. PICK n \in Nat, c \in Nat : n = Len(w) /\ c = Len(cells)
  BY LenProperties
<1>5. /\ Len(v) = n + c
      /\ \A i \in 1..(n + c) : v[i] = IF i <= n THEN w[i] ELSE cells[i - n]
  <2>1. w \in Seq(Cell) /\ cells \in Seq(Cell)
    BY <1>1, <1>2
  <2>2. /\ Len(w \o cells) = Len(w) + Len(cells)
        /\ \A i \in 1..Len(w) + Len(cells) :
             (w \o cells)[i] = IF i <= Len(w) THEN w[i] ELSE cells[i - Len(w)]
    BY ONLY <2>1, ConcatProperties
  <2>. QED
    BY ONLY <2>2, <1>3, <1>4
<1>6. \A i \in 1..n : v[i] = w[i]
  <2>1. \A i \in 1..n : i \in 1..(n + c) /\ i <= n
    OBVIOUS
  <2>. QED
    BY <1>5, <2>1
<1>7. ASSUME NEW i \in (n + 1)..(n + c), v[i] \in Block
      PROVE  v[i] \in InFile' /\ v[i] \in TextsOf(bufToWrite)
  <2>1. i \in 1..(n + c) /\ ~(i <= n) /\ i - n \in 1..c
    OBVIOUS
  <2>2. v[i] = cells[i - n] /\ i - n \in DOMAIN cells
    BY <1>4, <1>5, <2>1, LenProperties
  <2>3. v[i] \in Range(cells)
    BY <2>2 DEF Range
  <2>. QED
    BY <1>1, <1>7, <2>3
<1>8. PICK m \in Nat : BatchFrom(m, w)
  BY <1>2 DEF WrittenInOrder
<1>9. /\ m \in 0..n
      /\ n - m <= (bufNum - 1 - Len(bufToWrite)) * bufSize
      /\ \A i \in 1..m : \A j \in (m + 1)..n : Before(w[i], w[j])
      /\ \A i \in 1..m : w[i] \in Block => Older({w[i]}, TextsOf(bufToWrite))
  BY <1>4, <1>8 DEF BatchFrom
<1>10. /\ n + c - m <= (bufNum - 1 - Len(bufToWrite')) * bufSize
       /\ n + c - m <= (bufNum - 1) * bufSize
  <2>. DEFINE k == bufNum - 1 - Len(bufToWrite)
              l == bufNum - 1
              r == bufNum - 1 - Len(bufToWrite')
  <2>1. k \in Nat /\ l \in Nat /\ r = k + 1 /\ k + 1 <= l
    <3>1. Len(readyBuf) \in Nat /\ Len(bufToWrite) \in Nat \ {0} /\ preBuf \in Nat
      <4>1. bufToWrite # <<>> /\ bufToWrite \in Seq(Filled) /\ readyBuf \in Seq(Filled)
        BY DEF FlushOne, IInv, BuffersType
      <4>. QED
        BY <4>1, TextsOfFront, LenProperties, LogThreadAssumption DEF IInv, BuffersType
    <3>. QED
      BY <1>1, <3>1, LogThreadAssumption DEF IInv, BuffersConserved
  <2>2. n - m <= k * bufSize /\ m \in Nat /\ c <= bufSize /\ bufSize \in Nat
    BY <1>1, <1>4, <1>9, LogThreadAssumption
  <2>. HIDE DEF k, l, r
  <2>3. k * bufSize \in Nat /\ (k + 1) * bufSize = k * bufSize + bufSize
    BY <2>1, <2>2, Products
  <2>4. (k + 1) * bufSize \in Nat /\ l * bufSize \in Nat /\ (k + 1) * bufSize <= l * bufSize
    <3>1. k + 1 \in Nat
      BY <2>1
    <3>. QED
      BY <2>1, <2>2, <3>1, Products
  <2>. DEFINE x == k * bufSize
              y == (k + 1) * bufSize
              z == l * bufSize
  <2>5. n - m <= x /\ x \in Nat /\ y = x + bufSize /\ y \in Nat /\ z \in Nat /\ y <= z
    BY <2>2, <2>3, <2>4
  <2>6. r * bufSize = y
    BY <2>1
  <2>. HIDE DEF x, y, z
  <2>7. n + c - m <= y /\ n + c - m <= z
    BY <2>2, <2>5
  <2>. QED
    BY <2>6, <2>7 DEF y, z, l, r
<1>11. \A i \in 1..m : \A j \in (m + 1)..(n + c) : Before(v[i], v[j])
  <2>. SUFFICES ASSUME NEW i \in 1..m, NEW j \in (m + 1)..(n + c) PROVE Before(v[i], v[j])
    OBVIOUS
  <2>1. i \in 1..n /\ v[i] = w[i]
    BY <1>6, <1>9
  <2>2. CASE j <= n
    <3>1. j \in (m + 1)..n /\ j \in 1..n
      BY <1>9, <2>2
    <3>. QED
      BY <1>6, <1>9, <2>1, <3>1
  <2>3. CASE j > n
    <3>1. j \in (n + 1)..(n + c)
      BY <1>9, <2>3
    <3>. QED
      BY <1>7, <1>9, <2>1, <3>1 DEF Before, Older
  <2>. QED
    BY <1>9, <2>2, <2>3
<1>12. BatchFrom(m, v)'
  <2>1. \A i \in 1..m : v[i] \in Block => Older({v[i]}, TextsOf(bufToWrite'))
    <3>1. \A i \in 1..m : i \in 1..n /\ v[i] = w[i]
      BY <1>6, <1>9
    <3>2. TextsOf(bufToWrite') \subseteq TextsOf(bufToWrite)
      BY <1>1
    <3>. QED
      BY <1>9, <3>1, <3>2 DEF Older
  <2>2. m \in 0..(n + c)
    BY <1>9
  <2>3. Len(v) = n + c
    BY ONLY <1>5
  <2>4. Len(v) - m <= (bufNum - 1 - Len(bufToWrite')) * bufSize
    BY ONLY <1>10, <2>3
  <2>5. m \in 0..Len(v) /\ \A i \in 1..m : \A j \in (m + 1)..Len(v) : Before(v[i], v[j])
    BY ONLY <1>11, <2>2, <2>3
  <2>. QED
    BY ONLY <2>1, <2>4, <2>5 DEF BatchFrom
<1>13. \A i \in 1..(n + c) : v[i] \in Block => v[i] \in InFile'
  <2>. SUFFICES ASSUME NEW i \in 1..(n + c), v[i] \in Block PROVE v[i] \in InFile'
    OBVIOUS
  <2>1. CASE i <= n
    <3>1. i \in 1..n /\ v[i] = w[i]
      BY <1>6, <2>1
    <3>2. w[i] \in InFile
      BY <1>2, <1>4, <3>1 DEF WrittenInOrder
    <3>. QED
      BY <1>1, <3>1, <3>2
  <2>2. CASE i > n
    BY <1>7, <2>2
  <2>. QED
    BY <2>1, <2>2
<1>14. Near(v)
  <2>. SUFFICES ASSUME NEW i \in 1..(n + c), NEW j \in 1..(n + c), i < j,
                       v[i] \in Block, v[j] \in Block, ~Older({v[i]}, {v[j]})
       PROVE  j - i < (bufNum - 1) * bufSize
    BY <1>5 DEF Near
  <2>1. CASE j <= n
    <3>1. i \in 1..n /\ j \in 1..n /\ v[i] = w[i] /\ v[j] = w[j]
      BY <1>6, <2>1
    <3>2. Near(w)
      BY <1>2 DEF WrittenInOrder
    <3>. QED
      BY <1>4, <3>1, <3>2 DEF Near
  <2>2. CASE j > n
    <3>1. ~(i \in 1..m)
      <4>. SUFFICES ASSUME i \in 1..m PROVE FALSE
        OBVIOUS
      <4>1. j \in (m + 1)..(n + c)
        BY <1>9, <2>2
      <4>. QED
        BY <1>11, <4>1 DEF Before
    <3>2. i > m
      BY <1>9, <3>1
    <3>3. PICK z \in Int : z = (bufNum - 1) * bufSize
      BY LogThreadAssumption
    <3>. QED
      BY <1>9, <1>10, <3>2, <3>3
  <2>. QED
    BY <2>1, <2>2
<1>. QED
  BY <1>3, <1>5, <1>12, <1>13, <1>14 DEF WrittenInOrder

-----------------------------------------------------------------------------
LEMMA InitOrder == Init => OrderInv
<1>. SUFFICES ASSUME Init PROVE OrderInv
  OBVIOUS
<1>1. IInv
  BY InitInv
<1>2. InCurrent = {} /\ TextsOf(readyBuf) = {} /\ TextsOf(bufToWrite) = {}
  <2>1. TextOf(currentBuf, 0) = {currentBuf[i] : i \in 1..0} \cap Block
    BY TextOfFits, LogThreadAssumption
  <2>. QED
    BY <2>1, TextsOfEmpty DEF Init, InCurrent
<1>3. Written = <<>> /\ InFile = {}
  <2>. DEFINE empty == <<>>
              one == <<empty>>
  <2>1. files = one
    BY DEF Init
  <2>2. empty \in Seq(Cell) /\ DOMAIN empty = {}
    BY EmptySeq
  <2>. HIDE DEF empty
  <2>3. one \in Seq(Seq(Cell)) /\ Len(one) = 1 /\ one[1] = empty /\ DOMAIN one = {1}
    BY <2>2
  <2>. HIDE DEF one
  <2>4. PICK f : Flattens(f, 1, one, Cell)
    <3>1. one \in Seq(Seq(Cell)) /\ Len(one) # 0 /\ Len(one) = 1
      BY <2>3
    <3>2. \E f : Flattens(f, Len(one), one, Cell)
      BY ONLY <3>1, FlattenIs
    <3>. QED
      BY <3>1, <3>2
  <2>5. f[1] = one[1]
    BY <2>4 DEF Flattens, IsFlat
  <2>6. FlattenSeq(one) = empty
    BY <2>3, <2>4, <2>5 DEF Flattens
  <2>7. InFile = Range(empty) \cap Block
    BY <2>1, <2>3 DEF InFile
  <2>8. Range(empty) = {}
    BY <2>2 DEF Range
  <2>. QED
    BY <2>1, <2>6, <2>7, <2>8 DEF Written, empty
<1>4. InLog = {}
  BY <1>2, <1>3 DEF InLog, Unwritten
<1>5. Len(readyBuf) = 0 /\ Len(bufToWrite) = 0 /\ Len(Written) = 0
  BY <1>3, EmptySeq DEF Init
<1>6. BatchFrom(0, Written)
  <2>1. (bufNum - 1) * bufSize \in Nat /\ bufNum - 1 - Len(bufToWrite) = bufNum - 1
    <3>1. bufNum - 1 \in Nat /\ bufSize \in Nat
      BY LogThreadAssumption
    <3>2. (bufNum - 1) * bufSize \in Nat
      BY <3>1, Products
    <3>. QED
      BY <1>5, <3>1, <3>2
  <2>2. \A i \in 1..0 : FALSE
    OBVIOUS
  <2>. QED
    BY <1>5, <2>1, <2>2 DEF BatchFrom
<1>7. WrittenInOrder
  <2>1. \A i \in 1..Len(Written) : FALSE
    BY <1>5
  <2>. QED
    BY <1>6, <2>1 DEF WrittenInOrder, Near
<1>8. Queued
  <2>1. \A i \in 1..Len(readyBuf) : FALSE
    BY <1>5
  <2>. QED
    BY <1>2, <1>3, <2>1 DEF Queued, Older
<1>. QED
  BY <1>4, <1>7, <1>8 DEF OrderInv, Recent

(* Every step keeps the order.                                             *)
LEMMA StepOrder ==
  ASSUME IInv, OneInv, Alone, OrderInv, [Next]_vars, IInv'
  PROVE  OrderInv'
<1>. USE DEF OrderInv
<1>1. ASSUME UNCHANGED <<readyBuf, bufToWrite, files>>, InCurrent' \subseteq InCurrent
      PROVE  OrderInv'
  <2>1. InFile' = InFile
    BY <1>1 DEF InFile
  <2>2. Queued' /\ InLog' \subseteq InLog
    BY <1>1, <2>1, QueuedKept
  <2>. QED
    BY <1>1, <2>2, RecentKept, WrittenKept
<1>2. CASE UNCHANGED <<bufVars, fileVars>>
  <2>1. UNCHANGED <<readyBuf, bufToWrite, files>> /\ InCurrent' = InCurrent
    BY <1>2 DEF bufVars, fileVars, InCurrent
  <2>. QED
    BY <1>1, <2>1
<1>3. ASSUME NEW p \in Procs, Change(p) PROVE OrderInv'
  <2>1. Queued' /\ InLog' = InLog
    BY <1>3, ChangeQueued, ChangeOne
  <2>2. files' = files /\ bufToWrite' = bufToWrite
    BY <1>3 DEF Change, fileVars
  <2>. QED
    BY <2>1, <2>2, RecentKept, WrittenKept
<1>4. ASSUME NEW p \in Procs, ChangeOver(p) PROVE OrderInv'
  <2>1. UNCHANGED <<readyBuf, bufToWrite, files>> /\ InCurrent' = {}
    BY <1>4, OverflowedText DEF ChangeOver, fileVars
  <2>. QED
    BY <1>1, <2>1
<1>5. ASSUME NEW p \in Procs, Copy(p) PROVE OrderInv'
  <2>1. UNCHANGED <<readyBuf, bufToWrite, files>> /\ InCurrent' = InCurrent
    BY <1>5, CopyOne DEF Copy, fileVars
  <2>. QED
    BY <1>1, <2>1
<1>6. ASSUME NEW p \in Procs, Bump(p) PROVE OrderInv'
  <2>1. files' = files /\ bufToWrite' = bufToWrite
    BY <1>6 DEF Bump, fileVars
  <2>. QED
    BY <1>6, <2>1, BumpOrder, WrittenKept
<1>7. CASE Swap
  <2>1. Queued' /\ InLog' = InLog
    BY <1>7, SwapQueued, SwapOne
  <2>. QED
    BY <1>7, <2>1, RecentKept, SwapWritten
<1>8. CASE FlushOne
  <2>1. Queued' /\ InLog' = InLog
    BY <1>8, FlushQueued, FlushOneOne
  <2>. QED
    BY <1>8, <2>1, RecentKept, FlushWritten
<1>9. ASSUME Report \/ Reset PROVE FALSE
  BY <1>9 DEF Report, Reset, At, OneInv, OwnCode
<1>10. ASSUME NEW p \in Procs,
              Call(p) \/ Acquire(p) \/ Check(p) \/ Unlock(p) \/ Notify(p) \/ Release(p)
       PROVE  OrderInv'
  BY <1>2, <1>10 DEF Call, Acquire, Check, Unlock, Notify, Release
<1>11. CASE Lock \/ Test \/ Wait \/ Flushed \/ Spurious
  BY <1>2, <1>11 DEF Lock, Test, Wait, Flushed, Spurious
<1>12. CASE UNCHANGED vars
  BY <1>2, <1>12 DEF vars
<1>. HIDE DEF OrderInv
<1>. QED
  BY <1>3, <1>4, <1>5, <1>6, <1>7, <1>8, <1>9, <1>10, <1>11, <1>12
     DEF Next, apendMessage, logLoop, Procs

LEMMA OrderInvariance == ASSUME Alone PROVE Spec => []OrderInv
<1>1. IInv /\ OneInv /\ OrderInv /\ IInv' /\ [Next]_vars => OrderInv'
  BY StepOrder
<1>. QED
  BY <1>1, InitOrder, Invariance, OneInvariance, PTL DEF Spec

(* The blocks of the first i buffers, and those of the others.             *)
LEMMA PartsOfReady ==
  ASSUME readyBuf \in Seq(Filled), NEW i \in 1..Len(readyBuf)
  PROVE  /\ \A b \in TextsOf(SubSeq(readyBuf, 1, i)) : \E k \in 1..i : b \in Ready(k)
         /\ \A b \in TextsOf(SubSeq(readyBuf, i + 1, Len(readyBuf))) :
              \E k \in (i + 1)..Len(readyBuf) : b \in Ready(k)
<1>1. PICK n \in Nat : n = Len(readyBuf)
  BY LenProperties
<1>2. \A k \in 1..n : readyBuf[k] \in Filled
  BY <1>1, ElementOfSeq
<1>3. ASSUME NEW l \in 1..(n + 1), NEW h \in 1..n,
             NEW b \in TextsOf(SubSeq(readyBuf, l, h))
      PROVE  \E k \in l..h : b \in Ready(k)
  <2>. DEFINE part == SubSeq(readyBuf, l, h)
  <2>1. \A k \in l..h : readyBuf[k] \in Filled
    BY <1>2
  <2>2. /\ part \in Seq(Filled)
        /\ Len(part) = IF l <= h THEN h - l + 1 ELSE 0
        /\ \A k \in 1..(h - l + 1) : part[k] = readyBuf[l + k - 1]
    BY <2>1, SubSeqProperties
  <2>. HIDE DEF part
  <2>3. PICK k \in 1..Len(part) : b \in TextOf(part[k].buf, part[k].size)
    BY <2>2, TextsOfElements DEF part
  <2>4. k \in 1..(h - l + 1) /\ l + k - 1 \in l..h
    BY <2>2
  <2>. QED
    BY <2>2, <2>3, <2>4 DEF Ready
<1>4. 1 \in 1..(n + 1) /\ i \in 1..n /\ i + 1 \in 1..(n + 1) /\ n \in 1..n
  BY <1>1
<1>. QED
  BY <1>1, <1>3, <1>4

(* Batches keep the order of the calls (log_thread.cpp:116, :120), what    *)
(* waits keeps it within and among the buffers, and in the files a block   *)
(* is less than a batch away from its place (log_thread.cpp:165).          *)
THEOREM OneLoggerKeepsOrder == ASSUME Alone PROVE Spec => []BatchesKeepOrder
<1>1. IInv /\ OrderInv => BatchesKeepOrder
  <2>. SUFFICES ASSUME IInv, OrderInv PROVE BatchesKeepOrder
    OBVIOUS
  <2>1. Queued /\ WrittenInOrder /\ readyBuf \in Seq(Filled) /\ DOMAIN readyBuf = 1..Len(readyBuf)
    BY LenProperties DEF OrderInv, IInv, BuffersType
  <2>2. ASSUME NEW i \in 1..Len(readyBuf)
        PROVE  Older(TextsOf(SubSeq(readyBuf, 1, i)),
                     TextsOf(SubSeq(readyBuf, i + 1, Len(readyBuf))) \cup InCurrent)
    <3>1. Len(readyBuf) \in Nat
      BY <2>1, LenProperties
    <3>2. ASSUME NEW b \in TextsOf(SubSeq(readyBuf, 1, i)), NEW c \in InCurrent, b[1] = c[1]
          PROVE  b[2] < c[2]
      <4>1. PICK k \in 1..i : b \in Ready(k)
        BY <2>1, PartsOfReady
      <4>2. b \in TextsOf(readyBuf)
        BY <2>1, <3>1, <4>1, TextsOfElements DEF Ready
      <4>. QED
        BY <2>1, <3>2, <4>2 DEF Queued, Older
    <3>3. ASSUME NEW b \in TextsOf(SubSeq(readyBuf, 1, i)),
                 NEW c \in TextsOf(SubSeq(readyBuf, i + 1, Len(readyBuf))), b[1] = c[1]
          PROVE  b[2] < c[2]
      <4>1. PICK k \in 1..i : b \in Ready(k)
        BY <2>1, PartsOfReady
      <4>2. PICK l \in (i + 1)..Len(readyBuf) : c \in Ready(l)
        BY <2>1, PartsOfReady
      <4>3. k \in 1..Len(readyBuf) /\ l \in 1..Len(readyBuf) /\ k < l
        BY <3>1
      <4>. QED
        BY <2>1, <3>3, <4>1, <4>2, <4>3 DEF Queued, Older
    <3>. QED
      BY <3>2, <3>3 DEF Older
  <2>3. DOMAIN Written = 1..Len(Written)
    BY WrittenIsSeq, LenProperties DEF IInv
  <2>4. \A i, j \in DOMAIN Written :
          /\ i < j /\ Written[i] \in Block /\ Written[j] \in Block
          /\ ~Older({Written[i]}, {Written[j]})
          => j - i < (bufNum - 1) * bufSize
    BY <2>1, <2>3 DEF WrittenInOrder, Near
  <2>5. Older(InFile \cup TextsOf(bufToWrite), TextsOf(readyBuf) \cup InCurrent)
    BY <2>1 DEF Queued
  <2>. QED
    BY <2>1, <2>2, <2>4, <2>5 DEF BatchesKeepOrder, Written
<1>. QED
  BY <1>1, Invariance, OrderInvariance, PTL
-----------------------------------------------------------------------------
(***************************************************************************)
(* LogBuffer.                                                              *)
(***************************************************************************)
(* Between two calls the index stays below headLevel, which leaves writeEnd *)
(* its two bytes: a line that would leave more than lowLevel is handed over. *)
LineIInv == LineTypeOK /\ writeIndex <= headLevel /\ handed.size < bufferSize

(* The levels leave room for the CRLF of an end.                           *)
LEMMA Levels ==
  /\ headLevel \in Nat /\ lowLevel \in Nat
  /\ lowLevel <= headLevel /\ headLevel + 2 < bufferSize
BY LogBufferAssumption DEF headLevel, lowLevel

(* The buffer begins empty.                                                *)
LEMMA LineInitInv == LineInit => LineIInv
<1>. SUFFICES ASSUME LineInit PROVE LineIInv
  OBVIOUS
<1>1. <<>> \in Seq(Piece)
  BY EmptySeq
<1>2. LineTypeOK
  BY <1>1 DEF LineInit, LineTypeOK
<1>3. handed.size < bufferSize /\ writeIndex <= headLevel
  BY Levels, LogBufferAssumption DEF LineInit
<1>. QED
  BY <1>2, <1>3 DEF LineIInv

(* writeIn stays below headLevel or writes nothing.                        *)
LEMMA WriteInInv ==
  ASSUME LineIInv, NEW size \in PieceSizes, writeIn(size)
  PROVE  LineIInv'
<1>1. size \in Nat /\ Text(size) \in Piece
  BY LogBufferAssumption DEF Piece
<1>2. CASE Fits(size)
  <2>1. Append(data, Text(size)) \in Seq(Piece)
    BY <1>1, AppendProperties DEF LineIInv, LineTypeOK
  <2>2. data' \in Seq(Piece) /\ writeIndex' = writeIndex + size /\ handed' = handed
    BY <1>2, <2>1 DEF writeIn
  <2>3. writeIndex' \in Nat /\ writeIndex' <= headLevel
    BY <1>1, <1>2, <2>2, Levels DEF Fits, LineIInv, LineTypeOK
  <2>. QED
    BY <2>2, <2>3 DEF LineIInv, LineTypeOK
<1>3. CASE ~Fits(size)
  BY <1>3 DEF writeIn, LineIInv, LineTypeOK
<1>. QED
  BY <1>2, <1>3

(* end appends the CRLF, and empties the buffer above lowLevel.            *)
LEMMA EndInv ==
  ASSUME LineIInv, end
  PROVE  LineIInv'
<1>1. /\ Closed.data \in Seq(Piece)
      /\ Closed.size = writeIndex + 2
      /\ Closed \in [data : Seq(Piece), size : Nat]
  <2>1. CRLF \in Piece
    BY DEF Piece
  <2>2. Append(data, CRLF) \in Seq(Piece)
    BY <2>1, AppendProperties DEF LineIInv, LineTypeOK
  <2>. QED
    BY <2>2 DEF Closed, LineIInv, LineTypeOK
<1>2. CASE Closed.size >= lowLevel
  <2>1. handed' = Closed /\ data' = <<>> /\ writeIndex' = 0
    BY <1>2 DEF end, Refresh
  <2>2. Closed.size < bufferSize
    BY <1>1, Levels, LogBufferAssumption DEF LineIInv, LineTypeOK
  <2>3. <<>> \in Seq(Piece)
    BY EmptySeq
  <2>. QED
    BY <1>1, <2>1, <2>2, <2>3, Levels DEF LineIInv, LineTypeOK
<1>3. CASE ~(Closed.size >= lowLevel)
  <2>1. data' = Closed.data /\ writeIndex' = Closed.size /\ handed' = handed
    BY <1>3 DEF end
  <2>2. writeIndex' \in Nat /\ writeIndex' <= headLevel
    BY <1>1, <1>3, <2>1, Levels DEF LineIInv, LineTypeOK
  <2>. QED
    BY <1>1, <2>1, <2>2 DEF LineIInv, LineTypeOK
<1>. QED
  BY <1>2, <1>3

(* LineIInv holds in every behaviour of a thread that logs.                    *)
THEOREM LineInvariance == LineSpec => []LineIInv
<1>1. LineIInv /\ [LineNext]_lineVars => LineIInv'
  <2>. SUFFICES ASSUME LineIInv, [LineNext]_lineVars PROVE LineIInv'
    OBVIOUS
  <2>1. CASE UNCHANGED lineVars
    BY <2>1 DEF lineVars, LineIInv, LineTypeOK
  <2>. QED
    BY <2>1, WriteInInv, EndInv DEF LineNext
<1>. QED
  BY <1>1, LineInitInv, PTL DEF LineSpec

(* No write leaves the thread's 10 KB (log_buffer.cpp:10, :18), however    *)
(* long the pieces and however many lines are logged.                      *)
THEOREM WritesStayInBounds == LineSpec => []WritesInBounds
<1>1. LineIInv => WritesInBounds
  BY Levels, LogBufferAssumption DEF LineIInv, LineTypeOK, WritesInBounds
<1>. QED
  BY <1>1, LineInvariance, PTL

-----------------------------------------------------------------------------
(***************************************************************************)
(* Sums.  Bytes is a fold, that is a function chosen by its recursion over *)
(* the sets of positions of a sequence.  There is one (SumExists), and on  *)
(* the first k positions its value depends on these alone (SumOfFirst):    *)
(* both by the least number of positions for which it were not so.         *)
(***************************************************************************)
IsSum(f, n, s) ==
  f = [S \in SUBSET (1..n) |-> IF S = {} THEN 0 ELSE f[S \ {Max(S)}] + s[Max(S)].size]

(* Positions have a greatest one.                                          *)
LEMMA MaxIsGreatest ==
  ASSUME NEW n \in Nat, NEW S \in SUBSET (1..n), S # {}
  PROVE  Max(S) \in S /\ \A y \in S : y <= Max(S)
<1>. DEFINE Bounds == {m \in Nat : \A y \in S : y <= m}
<1>1. n \in Bounds
  OBVIOUS
<1>2. PICK m \in Bounds : \A b \in Bounds : m <= b
  <2>. Bounds \in SUBSET Nat /\ Bounds # {}
    BY <1>1
  <2>. HIDE DEF Bounds
  <2>. QED
    BY LeastExists
<1>3. m \in S
  <2>. SUFFICES ASSUME m \notin S PROVE FALSE
    OBVIOUS
  <2>1. PICK y \in S : y \in 1..n /\ y <= m
    OBVIOUS
  <2>2. m - 1 \in Nat
    BY <2>1
  <2>3. \A z \in S : z <= m - 1
    OBVIOUS
  <2>4. m - 1 \in Bounds
    BY <2>2, <2>3
  <2>. QED
    BY <1>2, <2>4
<1>4. \E x \in S : \A y \in S : x >= y
  BY <1>3
<1>. QED
  BY <1>4 DEF Max

LEMMA BytesAreChosen ==
  ASSUME NEW s, NEW n, DOMAIN s = 1..n
  PROVE  Bytes(s) = (CHOOSE f : IsSum(f, n, s))[1..n]
BY DEF Bytes, FoldLeft, MapThenFoldSet, IsSum

LEMMA SumExtends ==
  ASSUME NEW n \in Nat, NEW s, NEW f, IsSum(f, n, s)
  PROVE  \E g : IsSum(g, n + 1, s)
<1>. DEFINE g == [S \in SUBSET (1..(n + 1)) |->
                    IF n + 1 \in S THEN f[S \ {n + 1}] + s[n + 1].size ELSE f[S]]
<1>1. ASSUME NEW S \in SUBSET (1..(n + 1))
      PROVE  g[S] = IF S = {} THEN 0 ELSE g[S \ {Max(S)}] + s[Max(S)].size
  <2>1. CASE S = {}
    <3>1. S \in SUBSET (1..n) /\ n + 1 \notin S
      BY <2>1
    <3>2. f[S] = 0
      BY <2>1, <3>1 DEF IsSum
    <3>. QED
      BY <2>1, <3>1, <3>2
  <2>2. CASE S # {} /\ n + 1 \in S
    <3>1. Max(S) = n + 1
      <4>1. Max(S) \in S /\ \A y \in S : y <= Max(S)
        BY <2>2, MaxIsGreatest
      <4>2. Max(S) \in 1..(n + 1) /\ n + 1 <= Max(S)
        BY <2>2, <4>1
      <4>. HIDE DEF g
      <4>. QED
        BY <4>2
    <3>2. S \ {n + 1} \in SUBSET (1..(n + 1)) /\ n + 1 \notin S \ {n + 1}
      OBVIOUS
    <3>. QED
      BY <2>2, <3>1, <3>2
  <2>3. CASE S # {} /\ n + 1 \notin S
    <3>1. S \in SUBSET (1..n)
      BY <2>3
    <3>2. f[S] = f[S \ {Max(S)}] + s[Max(S)].size
      BY <2>3, <3>1 DEF IsSum
    <3>3. S \ {Max(S)} \in SUBSET (1..(n + 1)) /\ n + 1 \notin S \ {Max(S)}
      BY <2>3
    <3>. QED
      BY <2>3, <3>2, <3>3
  <2>. QED
    BY <2>1, <2>2, <2>3
<1>2. IsSum(g, n + 1, s)
  <2>. DEFINE h == [S \in SUBSET (1..(n + 1)) |->
                      IF S = {} THEN 0 ELSE g[S \ {Max(S)}] + s[Max(S)].size]
  <2>1. \A S \in SUBSET (1..(n + 1)) : g[S] = h[S]
    BY <1>1
  <2>2. DOMAIN g = SUBSET (1..(n + 1)) /\ DOMAIN h = SUBSET (1..(n + 1))
    OBVIOUS
  <2>3. g = h
    BY <2>1, <2>2
  <2>. QED
    BY <2>3 DEF IsSum
<1>. QED
  BY <1>2

LEMMA SumExists ==
  ASSUME NEW n \in Nat, NEW s
  PROVE  \E f : IsSum(f, n, s)
<1>. DEFINE Missing == {m \in Nat : ~ \E f : IsSum(f, m, s)}
<1>1. 0 \notin Missing
  <2>. DEFINE z == [S \in SUBSET (1..0) |-> 0]
  <2>1. z = [S \in SUBSET (1..0) |-> IF S = {} THEN 0 ELSE z[S \ {Max(S)}] + s[Max(S)].size]
    <3>1. \A S \in SUBSET (1..0) : S = {}
      OBVIOUS
    <3>. QED
      BY <3>1
  <2>2. IsSum(z, 0, s)
    BY <2>1 DEF IsSum
  <2>. QED
    BY <2>2
<1>2. Missing = {}
  <2>. SUFFICES ASSUME Missing # {} PROVE FALSE
    OBVIOUS
  <2>1. PICK m \in Missing : \A k \in Missing : m <= k
    <3>. Missing \in SUBSET Nat
      OBVIOUS
    <3>. HIDE DEF Missing
    <3>. QED
      BY LeastExists
  <2>2. m \in Nat /\ m # 0
    BY <1>1
  <2>3. m - 1 \in Nat /\ m - 1 \notin Missing
    BY <2>1, <2>2
  <2>4. PICK f : IsSum(f, m - 1, s)
    BY <2>3
  <2>5. \E g : IsSum(g, (m - 1) + 1, s)
    BY <2>3, <2>4, SumExtends
  <2>6. (m - 1) + 1 = m
    BY <2>2
  <2>. QED
    BY <2>5, <2>6
<1>. QED
  BY <1>2

(* The sum over the first k positions is that over one less and the last.  *)
LEMMA SumOfLast ==
  ASSUME NEW n \in Nat, NEW s, NEW f, IsSum(f, n, s), NEW k \in 1..n
  PROVE  f[1..k] = f[1..(k - 1)] + s[k].size
<1>1. k \in Nat /\ k \in 1..k /\ k <= n /\ k > 0
  OBVIOUS
<1>2. 1..k \in SUBSET (1..n) /\ 1..k # {}
  BY <1>1
<1>3. Max(1..k) \in 1..k /\ \A y \in 1..k : y <= Max(1..k)
  BY <1>1, <1>2, MaxIsGreatest
<1>4. Max(1..k) = k
  BY <1>1, <1>3
<1>5. (1..k) \ {k} = 1..(k - 1)
  <2>1. ASSUME NEW x PROVE x \in (1..k) \ {k} <=> x \in 1..(k - 1)
    <3>1. x \in 1..k <=> x \in Int /\ 1 <= x /\ x <= k
      BY <1>1
    <3>2. x \in 1..(k - 1) <=> x \in Int /\ 1 <= x /\ x <= k - 1
      BY <1>1
    <3>. QED
      BY <1>1, <3>1, <3>2
  <2>. QED
    BY <2>1
<1>6. f[1..k] = IF 1..k = {} THEN 0 ELSE f[(1..k) \ {Max(1..k)}] + s[Max(1..k)].size
  BY <1>2 DEF IsSum
<1>. QED
  BY <1>2, <1>4, <1>5, <1>6

(* Of two sequences that begin alike the sums over the beginning are equal. *)
LEMMA SumOfFirst ==
  ASSUME NEW n \in Nat, NEW s, NEW f, IsSum(f, n, s), NEW m \in Nat, NEW t, NEW g, IsSum(g, m, t),
         NEW l \in Nat, l <= n, l <= m, \A i \in 1..l : s[i] = t[i]
  PROVE  f[1..l] = g[1..l]
<1>. DEFINE Bad == {k \in 0..l : f[1..k] # g[1..k]}
<1>1. Bad = {}
  <2>. SUFFICES ASSUME Bad # {} PROVE FALSE
    OBVIOUS
  <2>1. PICK k \in Bad : \A j \in Bad : k <= j
    <3>. Bad \in SUBSET Nat
      OBVIOUS
    <3>. HIDE DEF Bad
    <3>. QED
      BY LeastExists
  <2>2. k \in 0..l /\ f[1..k] # g[1..k]
    OBVIOUS
  <2>3. 1..k \in SUBSET (1..n) /\ 1..k \in SUBSET (1..m)
    BY <2>2
  <2>4. k # 0
    <3>. SUFFICES ASSUME k = 0 PROVE FALSE
      OBVIOUS
    <3>1. 1..k = {}
      OBVIOUS
    <3>. QED
      BY <2>2, <2>3, <3>1 DEF IsSum
  <2>5. f[1..k] = f[1..(k - 1)] + s[k].size /\ g[1..k] = g[1..(k - 1)] + t[k].size
    <3>1. k \in 1..n /\ k \in 1..m
      BY <2>2, <2>4
    <3>. QED
      BY <3>1, SumOfLast
  <2>6. k - 1 \in 0..l /\ k - 1 \notin Bad
    BY <2>1, <2>2, <2>4
  <2>7. f[1..(k - 1)] = g[1..(k - 1)] /\ s[k] = t[k]
    BY <2>2, <2>4, <2>6
  <2>. QED
    BY <2>2, <2>5, <2>7
<1>. QED
  BY <1>1

(* What the fold computes: nothing, and one piece more.                    *)
LEMMA BytesOfNone == Bytes(<<>>) = 0
<1>1. PICK f : IsSum(f, 0, <<>>) /\ Bytes(<<>>) = f[1..0]
  <2>1. DOMAIN <<>> = 1..0
    OBVIOUS
  <2>. QED
    BY <2>1, BytesAreChosen, SumExists
<1>2. 1..0 = {} /\ 1..0 \in SUBSET (1..0)
  OBVIOUS
<1>. QED
  BY <1>1, <1>2 DEF IsSum

LEMMA BytesOfOneMore ==
  ASSUME NEW S, NEW s \in Seq(S), NEW e \in S
  PROVE  Bytes(Append(s, e)) = Bytes(s) + e.size
<1>. DEFINE n == Len(s)
            t == Append(s, e)
<1>1. /\ n \in Nat /\ DOMAIN s = 1..n /\ DOMAIN t = 1..(n + 1)
      /\ t[n + 1] = e /\ \A i \in 1..n : s[i] = t[i]
  OBVIOUS
<1>. HIDE DEF n, t
<1>2. PICK f : IsSum(f, n, s) /\ Bytes(s) = f[1..n]
  BY <1>1, BytesAreChosen, SumExists
<1>3. PICK g : IsSum(g, n + 1, t) /\ Bytes(t) = g[1..(n + 1)]
  <2>1. n + 1 \in Nat
    BY <1>1
  <2>. QED
    BY <1>1, <2>1, BytesAreChosen, SumExists
<1>4. f[1..n] = g[1..n]
  <2>1. n + 1 \in Nat /\ n <= n /\ n <= n + 1
    BY <1>1
  <2>. QED
    BY <1>1, <1>2, <1>3, <2>1, SumOfFirst
<1>5. g[1..(n + 1)] = g[1..n] + t[n + 1].size
  <2>1. n + 1 \in Nat /\ n + 1 \in 1..(n + 1) /\ (n + 1) - 1 = n
    BY <1>1
  <2>2. g[1..(n + 1)] = g[1..((n + 1) - 1)] + t[n + 1].size
    BY <1>3, <2>1, SumOfLast
  <2>. QED
    BY <2>1, <2>2
<1>6. Bytes(t) = Bytes(s) + e.size
  BY <1>1, <1>2, <1>3, <1>4, <1>5
<1>. QED
  BY <1>6 DEF t

-----------------------------------------------------------------------------
(* The index is the number of bytes in the buffer, whatever was dropped.   *)
LEMMA WriteInLines ==
  ASSUME LineIInv, BlocksAreWholeLines, NEW size \in PieceSizes, writeIn(size)
  PROVE  BlocksAreWholeLines'
<1>1. handed' = handed
  BY DEF writeIn
<1>2. writeIndex' = Bytes(data')
  <2>1. CASE Fits(size)
    <3>1. Text(size) \in Piece /\ Text(size).size = size /\ data \in Seq(Piece)
      BY DEF Piece, Text, LineIInv, LineTypeOK
    <3>2. Bytes(Append(data, Text(size))) = Bytes(data) + size
      BY <3>1, BytesOfOneMore
    <3>. QED
      BY <2>1, <3>2 DEF writeIn, BlocksAreWholeLines
  <2>2. CASE ~Fits(size)
    BY <2>2 DEF writeIn, BlocksAreWholeLines
  <2>. QED
    BY <2>1, <2>2
<1>. QED
  BY <1>1, <1>2 DEF BlocksAreWholeLines

LEMMA EndLines ==
  ASSUME LineIInv, BlocksAreWholeLines, end
  PROVE  BlocksAreWholeLines'
<1>1. /\ Closed.size = Bytes(Closed.data)
      /\ Closed.data[Len(Closed.data)] = CRLF
  <2>1. CRLF \in Piece /\ CRLF.size = 2 /\ data \in Seq(Piece)
    BY DEF Piece, CRLF, LineIInv, LineTypeOK
  <2>2. Bytes(Append(data, CRLF)) = Bytes(data) + 2
    BY <2>1, BytesOfOneMore
  <2>3. Append(data, CRLF)[Len(Append(data, CRLF))] = CRLF
    BY <2>1, AppendProperties
  <2>. QED
    BY <2>2, <2>3 DEF Closed, BlocksAreWholeLines
<1>2. CASE Closed.size >= lowLevel
  <2>1. handed' = Closed /\ data' = <<>> /\ writeIndex' = 0
    BY <1>2 DEF end, Refresh
  <2>. QED
    BY <1>1, <2>1, BytesOfNone DEF BlocksAreWholeLines
<1>3. CASE ~(Closed.size >= lowLevel)
  <2>1. data' = Closed.data /\ writeIndex' = Closed.size /\ handed' = handed
    BY <1>3 DEF end
  <2>. QED
    BY <1>1, <2>1 DEF BlocksAreWholeLines
<1>. QED
  BY <1>2, <1>3

(* What a thread hands to apendMessage (log_stream.h end, logger.cpp) ends *)
(* with a line end and has exactly the bytes that were written since the   *)
(* last time, for pieces and lines of any length.                          *)
THEOREM BlocksStayWholeLines == LineSpec => []BlocksAreWholeLines
<1>1. LineInit => BlocksAreWholeLines
  BY BytesOfNone DEF LineInit, BlocksAreWholeLines
<1>2. LineIInv /\ BlocksAreWholeLines /\ [LineNext]_lineVars => BlocksAreWholeLines'
  <2>. SUFFICES ASSUME LineIInv, BlocksAreWholeLines, [LineNext]_lineVars PROVE BlocksAreWholeLines'
    OBVIOUS
  <2>1. CASE UNCHANGED lineVars
    BY <2>1 DEF lineVars, BlocksAreWholeLines
  <2>. QED
    BY <2>1, WriteInLines, EndLines DEF LineNext
<1>. QED
  BY <1>1, <1>2, LineInvariance, PTL DEF LineSpec
=============================================================================
