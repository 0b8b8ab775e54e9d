------------------------------ MODULE UringProof ------------------------------
(***************************************************************************)
(* Theorems about Uring, for every number of descriptors, channels,        *)
(* openers and application threads, and every queue_size and buffer size.  *)
(***************************************************************************)
EXTENDS Uring, SequenceTheorems, FiniteSetTheorems, TLAPS

(* A thread inside addNewFd has a descriptor and a channel, a thread inside *)
(* send has a channel that was opened, a mapped channel was opened, and an  *)
(* opened channel knows its descriptor.                                     *)
ThreadsHoldChannels ==
  /\ \A o \in Openers : opener[o].pc # "idle" =>
       opener[o].fd \in FDs /\ opener[o].channel \in Channels
  /\ \A t \in Senders : sender[t].pc # "idle" =>
       sender[t].channel \in Channels /\ chan[sender[t].channel].state # "unused"
  /\ \A fd \in FDs : Mapped(fd) => chan[connections[fd]].state # "unused"
  /\ \A c \in Channels : chan[c].state # "unused" => chan[c].fd \in FDs

IInv == TypeOK /\ ThreadsHoldChannels /\ SlotsConserved

-----------------------------------------------------------------------------
(***************************************************************************)
(* Lemmas on sequences and on the index arithmetic of a buffer.            *)
(***************************************************************************)

(* Taking one element out of a sequence shortens it by one.                *)
LEMMA RemoveAtType ==
  ASSUME NEW S, NEW s \in Seq(S), NEW i \in DOMAIN s
  PROVE  /\ RemoveAt(s, i) \in Seq(S)
         /\ Len(RemoveAt(s, i)) = Len(s) - 1
<1>1. i \in 1..Len(s) /\ Len(s) \in Nat
  BY LenProperties
<1>2. \A j \in 1..Len(s) : s[j] \in S
  BY ElementOfSeq
<1>. DEFINE before == SubSeq(s, 1, i-1)
            after  == SubSeq(s, i+1, Len(s))
<1>3. before \in Seq(S) /\ Len(before) = i-1
  <2>1. \A j \in 1..(i-1) : s[j] \in S
    BY <1>1, <1>2
  <2>. QED
    BY <1>1, <2>1, SubSeqProperties
<1>4. after \in Seq(S) /\ Len(after) = Len(s) - i
  <2>1. \A j \in (i+1)..Len(s) : s[j] \in S
    BY <1>1, <1>2
  <2>. QED
    BY <1>1, <2>1, SubSeqProperties
<1>5. RemoveAt(s, i) = before \o after
  BY DEF RemoveAt
<1>. HIDE DEF before, after
<1>6. before \o after \in Seq(S) /\ Len(before \o after) = Len(before) + Len(after)
  BY <1>3, <1>4, ConcatProperties
<1>. QED
  BY <1>1, <1>3, <1>4, <1>5, <1>6

(* The batch the loop takes from a queue and what it leaves there.         *)
LEMMA BatchType ==
  ASSUME NEW S, NEW que \in Seq(S), freeNum \in Nat
  PROVE  /\ Batch(que) \in Nat /\ Batch(que) <= freeNum /\ Batch(que) <= Len(que)
         /\ Left(que) \in Seq(S)
         /\ \A i \in 1..Batch(que) : que[i] \in S
<1>1. Len(que) \in Nat /\ \A j \in 1..Len(que) : que[j] \in S
  BY LenProperties, ElementOfSeq
<1>2. /\ Batch(que) \in Nat /\ Batch(que) <= freeNum /\ Batch(que) <= Len(que)
  BY <1>1 DEF Batch
<1>3. \A j \in (Batch(que) + 1)..Len(que) : que[j] \in S
  BY <1>1, <1>2
<1>. QED
  BY <1>1, <1>2, <1>3, SubSeqProperties DEF Left

(* Every operation of a buffer keeps its fields integers.                  *)
LEMMA BufferType ==
  ASSUME NEW b \in Buffers, NEW n \in Int
  PROVE  /\ Input(b, n) \in Buffers
         /\ EraseData(b, n) \in Buffers
         /\ Already(b, n) \in Buffers
         /\ Readable(b) \in Int
         /\ Writable(b) \in Int
<1>1. \A m \in Int : ToSize(m) \in Int
  BY SizeModAssumption DEF ToSize
<1>2. b.cap \in Int /\ b.r \in Int /\ b.w \in Int
  BY DEF Buffers
<1>3. Readable(b) \in Int /\ Writable(b) \in Int
  BY <1>1, <1>2 DEF Readable, Writable
<1>4. EraseData(b, n) \in Buffers /\ Already(b, n) \in Buffers
  <2>1. b.r + n \in Int /\ b.w + n \in Int
    BY <1>2
  <2>2. NewBuffer(b.cap) \in Buffers
    BY <1>2 DEF NewBuffer, Buffers
  <2>3. [b EXCEPT !.r = b.r + n] \in Buffers
    BY <2>1 DEF Buffers
  <2>4. [b EXCEPT !.w = b.w + n] \in Buffers
    BY <2>1 DEF Buffers
  <2>. QED
    BY <2>2, <2>3, <2>4, Zenon DEF EraseData, Already
<1>5. Input(b, n) \in Buffers
  BY <1>2 DEF Buffers, Input
<1>. QED
  BY <1>3, <1>4, <1>5

(* Every assignment the code makes to a channel keeps its fields typed.    *)
LEMMA ChannelType ==
  ASSUME NEW ch \in ChannelObject
  PROVE  /\ [ch EXCEPT !.closeFlag = TRUE] \in ChannelObject
         /\ \A t \in {"null", "frame", "freed"} : [ch EXCEPT !.task = t] \in ChannelObject
         /\ \A st \in {"live", "gone", "unused"} : [ch EXCEPT !.state = st] \in ChannelObject
         /\ \A n \in Int : [ch EXCEPT !.sendFlag = n] \in ChannelObject
         /\ [ch EXCEPT !.addr = TRUE] \in ChannelObject
         /\ \A b \in Buffers : /\ [ch EXCEPT !.readBuf = b] \in ChannelObject
                               /\ [ch EXCEPT !.sendBuf = b] \in ChannelObject
         /\ ch.readBuf \in Buffers /\ ch.sendBuf \in Buffers
         /\ ch.sendFlag \in Int
  BY DEF ChannelObject

(* A new send buffer changes nothing else of a channel.                    *)
LEMMA SendBufSet ==
  ASSUME NEW ch \in ChannelObject, NEW b \in Buffers
  PROVE  /\ [ch EXCEPT !.sendBuf = b] \in ChannelObject
         /\ [ch EXCEPT !.sendBuf = b].fd = ch.fd
         /\ [ch EXCEPT !.sendBuf = b].state = ch.state
  BY DEF ChannelObject

(* Nor does a new read buffer.                                             *)
LEMMA ReadBufSet ==
  ASSUME NEW ch \in ChannelObject, NEW b \in Buffers
  PROVE  /\ [ch EXCEPT !.readBuf = b] \in ChannelObject
         /\ [ch EXCEPT !.readBuf = b].fd = ch.fd
         /\ [ch EXCEPT !.readBuf = b].state = ch.state
  BY DEF ChannelObject

-----------------------------------------------------------------------------
(***************************************************************************)
(* The parts of the invariant, step by step.                               *)
(***************************************************************************)

(* Updating one channel without forgetting its descriptor, and without     *)
(* making it unused, keeps what the invariant says of channels.            *)
LEMMA UpdateChannel ==
  ASSUME IInv, NEW c \in Channels, NEW ch \in ChannelObject,
         ch.fd = chan[c].fd,
         ch.state = "unused" <=> chan[c].state = "unused",
         chan' = [chan EXCEPT ![c] = ch]
  PROVE  /\ chan' \in [Channels -> ChannelObject]
         /\ \A d \in Channels : chan'[d].state # "unused" => chan'[d].fd \in FDs
         /\ \A d \in Channels : chan[d].state # "unused" => chan'[d].state # "unused"
<1>1. chan \in [Channels -> ChannelObject]
  BY DEF IInv, TypeOK
<1>2. chan'[c] = ch /\ \A d \in Channels : d # c => chan'[d] = chan[d]
  BY <1>1
<1>3. \A d \in Channels : chan[d].state # "unused" => chan[d].fd \in FDs
  BY DEF IInv, ThreadsHoldChannels
<1>4. chan' \in [Channels -> ChannelObject]
  BY <1>1
<1>5. ASSUME NEW d \in Channels
      PROVE  /\ chan'[d].fd = chan[d].fd
             /\ chan'[d].state = "unused" <=> chan[d].state = "unused"
  <2>1. CASE d = c
    BY <1>2, <2>1, Zenon
  <2>2. CASE d # c
    BY <1>2, <2>2, Zenon
  <2>. QED
    BY <2>1, <2>2
<1>. QED
  BY <1>3, <1>4, <1>5

(* The head of the completion ring.                                        *)
LEMMA DoneType ==
  ASSUME IInv, cq # <<>>
  PROVE  /\ Done \in Completion
         /\ Tail(cq) \in Seq(Completion)
         /\ Len(Tail(cq)) = Len(cq) - 1
  BY HeadTailProperties DEF IInv, TypeOK, Done

(* Initially everything is idle and all slots but one are free.            *)
LEMMA InitInv == Init => IInv
<1>. SUFFICES ASSUME Init PROVE IInv
  OBVIOUS
<1>1. \A S : <<>> \in Seq(S) /\ Len(<<>>) = 0
  BY EmptySeq
<1>2. Unused \in ChannelObject /\ Unused.state = "unused"
  <2>1. NewBuffer(BufSize) \in Buffers
    BY UringAssumption DEF NewBuffer, Buffers
  <2>2. NewChannel(NoFd) \in ChannelObject
    BY <2>1 DEF NewChannel, ChannelObject
  <2>. QED
    BY <2>2, ChannelType DEF Unused, NewChannel
<1>3. TypeOK
  <2>1. opener \in [Openers -> [pc : OpenerPc, fd : FDs \cup {NoFd},
                                channel : Channels \cup {NoChannel}]]
    BY DEF Init, OpenerPc
  <2>2. sender \in [Senders -> [pc : SenderPc, channel : Channels \cup {NoChannel},
                                len : Nat]]
    BY DEF Init, SenderPc
  <2>3. chan \in [Channels -> ChannelObject]
    BY <1>2, Zenon DEF Init
  <2>4. freeNum \in Nat
    BY UringAssumption DEF Init
  <2>5. /\ recvQue \in Seq(FDs) /\ sendQue \in Seq(Pending)
        /\ sq \in Seq(Request) /\ kernel \in Seq(Request) /\ cq \in Seq(Completion)
    BY <1>1, Zenon DEF Init
  <2>. QED
    BY <2>1, <2>2, <2>3, <2>4, <2>5 DEF Init, TypeOK, LoopPc
<1>4. ThreadsHoldChannels
  BY <1>2 DEF Init, ThreadsHoldChannels, Mapped
<1>5. SlotsConserved
  BY <1>1, UringAssumption DEF Init, SlotsConserved
<1>. QED
  BY <1>3, <1>4, <1>5 DEF IInv

(* A process that dies changes nothing but fault.                          *)
LEMMA FailInv ==
  ASSUME IInv, NEW place, Fail(place)
  PROVE  IInv'
  BY DEF IInv, TypeOK, ThreadsHoldChannels, SlotsConserved, Fail, allButFault, connVars,
         queueVars, ringVars, loopVars, threadVars, envVars, ChannelObject, Mapped

(* What close() keeps, whether it closes or defers.                        *)
LEMMA CloseInv ==
  ASSUME IInv, NEW c \in Channels, NEW fd \in FDs, NEW ch \in ChannelObject,
         ch.fd = chan[c].fd,
         ch.state = "unused" <=> chan[c].state = "unused",
         Close(c, fd, ch)
  PROVE  /\ connections' \in [FDs -> Channels \cup {NoChannel}]
         /\ \A d \in FDs : connections'[d] \in {connections[d], NoChannel}
         /\ chan' \in [Channels -> ChannelObject]
         /\ \A d \in Channels : chan'[d].state # "unused" => chan'[d].fd \in FDs
         /\ \A d \in Channels : chan[d].state # "unused" => chan'[d].state # "unused"
         /\ loopPc' \in LoopPc
         /\ closingFd' \in FDs \cup {NoFd}
         /\ fault' = fault
<1>1. CASE CloseDeferred(ch) /\ chan' = [chan EXCEPT ![c] = [ch EXCEPT !.closeFlag = TRUE]]
           /\ UNCHANGED <<connections, loopPc, closingFd, fault>>
  <2>. DEFINE new == [ch EXCEPT !.closeFlag = TRUE]
  <2>1. new \in ChannelObject /\ new.fd = ch.fd /\ new.state = ch.state
    BY DEF ChannelObject
  <2>2. chan' = [chan EXCEPT ![c] = new]
    BY <1>1
  <2>. HIDE DEF new
  <2>3. /\ chan' \in [Channels -> ChannelObject]
        /\ \A d \in Channels : chan'[d].state # "unused" => chan'[d].fd \in FDs
        /\ \A d \in Channels : chan[d].state # "unused" => chan'[d].state # "unused"
    BY <2>1, <2>2, UpdateChannel
  <2>. QED
    BY <1>1, <2>3 DEF IInv, TypeOK
<1>2. CASE /\ connections[fd] = c
           /\ chan' = [chan EXCEPT ![c] = [ch EXCEPT !.task = "freed", !.state = "gone"]]
           /\ connections' = Unmapped(fd)
           /\ closingFd' = fd
           /\ loopPc' = "osClose"
           /\ UNCHANGED fault
  <2>. DEFINE new == [ch EXCEPT !.task = "freed", !.state = "gone"]
  <2>1. new \in ChannelObject /\ new.fd = ch.fd /\ new.state = "gone"
    <3>1. new \in ChannelObject
      BY Zenon DEF ChannelObject
    <3>. QED
      BY <3>1 DEF ChannelObject
  <2>2. chan[c].state # "unused"
    <3>1. Mapped(fd)
      BY <1>2, UringAssumption DEF Mapped
    <3>. QED
      BY <1>2, <3>1 DEF IInv, ThreadsHoldChannels
  <2>3. chan' = [chan EXCEPT ![c] = new]
    BY <1>2
  <2>. HIDE DEF new
  <2>4. /\ chan' \in [Channels -> ChannelObject]
        /\ \A d \in Channels : chan'[d].state # "unused" => chan'[d].fd \in FDs
        /\ \A d \in Channels : chan[d].state # "unused" => chan'[d].state # "unused"
    BY <2>1, <2>2, <2>3, UpdateChannel
  <2>. QED
    BY <1>2, <2>4 DEF IInv, TypeOK, Unmapped, LoopPc
<1>. QED
  BY <1>1, <1>2 DEF Close

(* The steps of the loop that prepare and submit requests.                 *)
LEMMA SubmitInv ==
  ASSUME IInv, OsClose \/ EndOfCqes \/ Submit \/ SetErrno
  PROVE  IInv'
<1>. USE DEF IInv, TypeOK, ThreadsHoldChannels, SlotsConserved, LoopPc, Mapped,
             connVars, queueVars, ringVars, loopVars, threadVars, envVars
<1>1. CASE OsClose
  BY <1>1 DEF OsClose
<1>2. CASE EndOfCqes
  BY <1>2 DEF EndOfCqes
<1>3. CASE Submit
  <2>1. /\ kernel' \in Seq(Request) /\ sq' \in Seq(Request)
        /\ Len(kernel') = Len(kernel) + Len(sq) /\ Len(sq') = 0
    BY <1>3, ConcatProperties, EmptySeq DEF Submit
  <2>2. Len(kernel) \in Nat /\ Len(sq) \in Nat /\ Len(cq) \in Nat
    BY LenProperties
  <2>. QED
    BY <1>3, <2>1, <2>2 DEF Submit
<1>4. CASE SetErrno
  BY <1>4 DEF SetErrno
<1>. QED
  BY <1>1, <1>2, <1>3, <1>4

(* beginRecv takes as many slots as it prepares requests.                  *)
LEMMA BeginRecvInv ==
  ASSUME IInv, BeginRecv
  PROVE  IInv'
<1>. DEFINE k == Batch(recvQue)
            new == [i \in 1..k |-> ReadRequest(recvQue[i])]
<1>1. CASE Fail("beginRecv")
  BY <1>1, FailInv
<1>2. CASE /\ \A i \in 1..k : Mapped(recvQue[i])
           /\ freeNum' = freeNum - k
           /\ sq' = sq \o new
           /\ recvQue' = Left(recvQue)
           /\ loopPc' = "send"
           /\ UNCHANGED <<connVars, chan, sendQue, kernel, cq, closingFd, threadVars,
                          envVars, fault>>
  <2>1. /\ k \in Nat /\ k <= freeNum /\ freeNum \in Nat
        /\ Left(recvQue) \in Seq(FDs)
        /\ \A i \in 1..k : recvQue[i] \in FDs
    BY BatchType DEF IInv, TypeOK
  <2>2. ASSUME NEW fd \in FDs, Mapped(fd)
        PROVE  ReadRequest(fd) \in Request
    <3>1. connections[fd] \in Channels
      BY <2>2 DEF IInv, TypeOK, Mapped
    <3>2. chan[connections[fd]].readBuf \in Buffers
      BY <3>1, ChannelType DEF IInv, TypeOK
    <3>3. Writable(chan[connections[fd]].readBuf) \in Int
      BY <3>2, BufferType
    <3>. QED
      BY <3>1, <3>3 DEF ReadRequest, Request
  <2>3. \A i \in 1..k : ReadRequest(recvQue[i]) \in Request
    BY <1>2, <2>1, <2>2
  <2>4. new \in Seq(Request) /\ Len(new) = k
    BY <2>1, <2>3
  <2>. HIDE DEF k, new
  <2>5. sq' \in Seq(Request) /\ Len(sq') = Len(sq) + k
    BY <1>2, <2>4, ConcatProperties DEF IInv, TypeOK
  <2>6. Len(kernel) \in Nat /\ Len(sq) \in Nat /\ Len(cq) \in Nat
    BY LenProperties DEF IInv, TypeOK
  <2>7. SlotsConserved'
    BY <1>2, <2>1, <2>5, <2>6 DEF IInv, SlotsConserved
  <2>8. TypeOK'
    BY <1>2, <2>1, <2>5 DEF IInv, TypeOK, LoopPc, connVars, queueVars, ringVars, loopVars, threadVars, envVars
  <2>9. ThreadsHoldChannels'
    BY <1>2 DEF IInv, ThreadsHoldChannels, Mapped,
           connVars, queueVars, ringVars, loopVars, threadVars, envVars
  <2>. QED
    BY <2>7, <2>8, <2>9 DEF IInv
<1>. QED
  BY <1>1, <1>2 DEF BeginRecv

(* beginSend does the same, after beginRecv and with what that left.       *)
LEMMA BeginSendInv ==
  ASSUME IInv, BeginSend
  PROVE  IInv'
<1>. DEFINE k == Batch(sendQue)
            new == [i \in 1..k |-> WriteRequest(sendQue[i])]
<1>1. CASE Fail("beginSend")
  BY <1>1, FailInv
<1>2. CASE /\ \A i \in 1..k : Mapped(sendQue[i].fd)
           /\ freeNum' = freeNum - k
           /\ sq' = sq \o new
           /\ sendQue' = Left(sendQue)
           /\ loopPc' = "submit"
           /\ UNCHANGED <<connVars, chan, recvQue, kernel, cq, closingFd, threadVars,
                          envVars, fault>>
  <2>1. /\ k \in Nat /\ k <= freeNum /\ freeNum \in Nat
        /\ Left(sendQue) \in Seq(Pending)
        /\ \A i \in 1..k : sendQue[i] \in Pending
    BY BatchType DEF IInv, TypeOK
  <2>2. ASSUME NEW item \in Pending, Mapped(item.fd)
        PROVE  WriteRequest(item) \in Request
    BY <2>2 DEF IInv, TypeOK, Mapped, Pending, WriteRequest, Request
  <2>3. \A i \in 1..k : WriteRequest(sendQue[i]) \in Request
    BY <1>2, <2>1, <2>2
  <2>4. new \in Seq(Request) /\ Len(new) = k
    BY <2>1, <2>3
  <2>. HIDE DEF k, new
  <2>5. sq' \in Seq(Request) /\ Len(sq') = Len(sq) + k
    BY <1>2, <2>4, ConcatProperties DEF IInv, TypeOK
  <2>6. Len(kernel) \in Nat /\ Len(sq) \in Nat /\ Len(cq) \in Nat
    BY LenProperties DEF IInv, TypeOK
  <2>7. SlotsConserved'
    BY <1>2, <2>1, <2>5, <2>6 DEF IInv, SlotsConserved
  <2>8. TypeOK'
    BY <1>2, <2>1, <2>5 DEF IInv, TypeOK, LoopPc, connVars, queueVars, ringVars, loopVars, threadVars, envVars
  <2>9. ThreadsHoldChannels'
    BY <1>2 DEF IInv, ThreadsHoldChannels, Mapped,
           connVars, queueVars, ringVars, loopVars, threadVars, envVars
  <2>. QED
    BY <2>7, <2>8, <2>9 DEF IInv
<1>. QED
  BY <1>1, <1>2 DEF BeginSend

(* The READ branch of eventLoop.                                           *)
LEMMA ReadEndInv ==
  ASSUME IInv, cq # <<>>, ReadEnd
  PROVE  IInv'
<1>. DEFINE c == Done.channel
<1>1. /\ Done \in Completion /\ c \in Channels /\ Done.fd \in FDs
      /\ Tail(cq) \in Seq(Completion) /\ Len(Tail(cq)) = Len(cq) - 1
  BY DoneType DEF Completion
<1>2. chan[c] \in ChannelObject
  BY <1>1 DEF IInv, TypeOK
<1>3. CASE CloseFaults(c, Done.fd, chan[c])
  BY <1>3, FailInv DEF CloseFaults
<1>4. CASE /\ Close(c, Done.fd, chan[c])
           /\ SlotBack
           /\ cq' = Tail(cq)
           /\ UNCHANGED <<openFds, queueVars, sq, kernel, threadVars, envVars>>
  <2>1. /\ connections' \in [FDs -> Channels \cup {NoChannel}]
        /\ \A d \in FDs : connections'[d] \in {connections[d], NoChannel}
        /\ chan' \in [Channels -> ChannelObject]
        /\ \A d \in Channels : chan'[d].state # "unused" => chan'[d].fd \in FDs
        /\ \A d \in Channels : chan[d].state # "unused" => chan'[d].state # "unused"
        /\ loopPc' \in LoopPc
        /\ closingFd' \in FDs \cup {NoFd}
    BY <1>1, <1>2, <1>4, CloseInv
  <2>2. TypeOK'
    BY <1>1, <1>4, <2>1 DEF IInv, TypeOK, SlotBack, queueVars, threadVars, envVars
  <2>3. ThreadsHoldChannels'
    BY <1>4, <2>1 DEF IInv, TypeOK, ThreadsHoldChannels, Mapped, threadVars
  <2>4. SlotsConserved'
    <3>1. Len(kernel) \in Nat /\ Len(sq) \in Nat /\ Len(cq) \in Nat
      BY LenProperties DEF IInv, TypeOK
    <3>. QED
      BY <1>1, <1>4, <3>1 DEF IInv, TypeOK, SlotsConserved, SlotBack
  <2>. QED
    BY <2>2, <2>3, <2>4 DEF IInv
<1>. QED
  BY <1>3, <1>4 DEF ReadEnd

(* A receive that brought data runs the handler, which may send.           *)
LEMMA ReadDataInv ==
  ASSUME IInv, cq # <<>>, ReadData
  PROVE  IInv'
<1>. DEFINE c  == Done.channel
            ch == [chan[c] EXCEPT !.readBuf = Already(@, Done.res)]
<1>1. /\ Done \in Completion /\ c \in Channels /\ Done.fd \in FDs /\ Done.res \in Int
      /\ Tail(cq) \in Seq(Completion) /\ Len(Tail(cq)) = Len(cq) - 1
  BY DoneType DEF Completion
<1>2. chan[c] \in ChannelObject
  BY <1>1 DEF IInv, TypeOK
<1>3. ch \in ChannelObject /\ ch.fd = chan[c].fd /\ ch.state = chan[c].state
  <2>1. chan[c].readBuf \in Buffers
    BY <1>2, ChannelType
  <2>2. Already(chan[c].readBuf, Done.res) \in Buffers
    BY <1>1, <2>1, BufferType
  <2>. QED
    BY <1>2, <2>2, ReadBufSet
<1>4. PICK k \in 0..Readable(ch.readBuf), n \in 0..MaxLen : Handle(c, Done.fd, ch, k, n)
  BY DEF ReadData
<1>5. k \in Int /\ n \in Int
  BY UringAssumption
<1>. DEFINE rb  == EraseData(ch.readBuf, k)
            sb  == Input(ch.sendBuf, n)
            one == [ch EXCEPT !.readBuf = rb]
            two == [ch EXCEPT !.readBuf = rb, !.sendBuf = sb]
            cnt == Counted(two)
<1>. HIDE DEF ch
<1>6. rb \in Buffers /\ sb \in Buffers /\ Readable(sb) \in Int
  BY <1>3, <1>5, ChannelType, BufferType
<1>7. one \in ChannelObject /\ one.fd = ch.fd /\ one.state = ch.state
  BY <1>3, <1>6, ChannelType DEF ChannelObject
<1>8. two \in ChannelObject /\ two.fd = ch.fd /\ two.state = ch.state
  <2>. HIDE DEF rb, sb
  <2>1. two \in ChannelObject
    BY <1>3, <1>6, Zenon DEF ChannelObject
  <2>. QED
    BY <1>3, <2>1 DEF ChannelObject
<1>9. cnt \in ChannelObject /\ cnt.fd = ch.fd /\ cnt.state = ch.state
  <2>. HIDE DEF two
  <2>1. two.sendFlag + 1 \in Int
    <3>1. two.sendFlag \in Int
      BY <1>8 DEF ChannelObject
    <3>. QED
      BY <3>1
  <2>2. cnt \in ChannelObject
    BY <1>8, <2>1, ChannelType DEF Counted
  <2>. QED
    BY <1>8, <2>2 DEF Counted, ChannelObject
<1>10. chan' = [chan EXCEPT ![c] = one] \/ chan' = [chan EXCEPT ![c] = cnt]
  BY <1>4 DEF Handle
<1>11. /\ sendQue' \in {sendQue, Append(sendQue, WriteItem(Done.fd, c, "send", Readable(sb)))}
       /\ recvQue' = Append(recvQue, Done.fd)
       /\ sends' \in {sends, sends + 1}
  BY <1>4 DEF Handle
<1>. HIDE DEF rb, sb, one, two, cnt
<1>12. /\ chan' \in [Channels -> ChannelObject]
       /\ \A d \in Channels : chan'[d].state # "unused" => chan'[d].fd \in FDs
       /\ \A d \in Channels : chan[d].state # "unused" => chan'[d].state # "unused"
  BY <1>1, <1>3, <1>7, <1>9, <1>10, UpdateChannel
<1>13. sendQue' \in Seq(Pending) /\ recvQue' \in Seq(FDs)
  <2>1. WriteItem(Done.fd, c, "send", Readable(sb)) \in Pending
    BY <1>1, <1>6 DEF WriteItem, Pending
  <2>2. Append(sendQue, WriteItem(Done.fd, c, "send", Readable(sb))) \in Seq(Pending)
    BY <2>1, AppendProperties DEF IInv, TypeOK
  <2>3. Append(recvQue, Done.fd) \in Seq(FDs)
    BY <1>1, AppendProperties DEF IInv, TypeOK
  <2>. QED
    BY <1>11, <2>2, <2>3 DEF IInv, TypeOK
<1>14. /\ freeNum' = freeNum + 1
       /\ cq' = Tail(cq)
       /\ UNCHANGED <<connVars, sq, kernel, loopPc, closingFd, threadVars, errno, fault>>
  BY DEF ReadData, SlotBack
<1>15. TypeOK'
  BY <1>1, <1>11, <1>12, <1>13, <1>14 DEF IInv, TypeOK, connVars, threadVars
<1>16. ThreadsHoldChannels'
  BY <1>12, <1>14 DEF IInv, TypeOK, ThreadsHoldChannels, Mapped, connVars, threadVars
<1>17. SlotsConserved'
  <2>1. Len(kernel) \in Nat /\ Len(sq) \in Nat /\ Len(cq) \in Nat
    BY LenProperties DEF IInv, TypeOK
  <2>. QED
    BY <1>1, <1>14, <2>1 DEF IInv, TypeOK, SlotsConserved
<1>. QED
  BY <1>15, <1>16, <1>17 DEF IInv

(* A receive that brought none resumes the coroutine all the same.         *)
LEMMA ReadEmptyInv ==
  ASSUME IInv, cq # <<>>, ReadEmpty
  PROVE  IInv'
<1>. DEFINE c   == Done.channel
            ch  == [chan[c] EXCEPT !.readBuf = Already(@, Done.res)]
            new == [ch EXCEPT !.closeFlag = TRUE, !.task = "freed"]
<1>1. /\ Done \in Completion /\ c \in Channels /\ Done.fd \in FDs /\ Done.res \in Int
      /\ Tail(cq) \in Seq(Completion) /\ Len(Tail(cq)) = Len(cq) - 1
  BY DoneType DEF Completion
<1>2. chan[c] \in ChannelObject
  BY <1>1 DEF IInv, TypeOK
<1>3. ch \in ChannelObject /\ ch.fd = chan[c].fd /\ ch.state = chan[c].state
  <2>1. chan[c].readBuf \in Buffers
    BY <1>2, ChannelType
  <2>2. Already(chan[c].readBuf, Done.res) \in Buffers
    BY <1>1, <2>1, BufferType
  <2>. QED
    BY <1>2, <2>2, ReadBufSet
<1>4. CASE Fail("destroyRunning")
  BY <1>4, FailInv
<1>5. CASE /\ chan' = [chan EXCEPT ![c] = new]
           /\ SlotBack
           /\ cq' = Tail(cq)
           /\ UNCHANGED <<connVars, queueVars, sq, kernel, loopPc, closingFd,
                          threadVars, envVars, fault>>
  <2>. HIDE DEF ch
  <2>1. new \in ChannelObject /\ new.fd = ch.fd /\ new.state = ch.state
    <3>1. new \in ChannelObject
      BY <1>3, Zenon DEF ChannelObject
    <3>. QED
      BY <1>3, <3>1 DEF ChannelObject
  <2>. HIDE DEF new
  <2>2. /\ chan' \in [Channels -> ChannelObject]
        /\ \A d \in Channels : chan'[d].state # "unused" => chan'[d].fd \in FDs
        /\ \A d \in Channels : chan[d].state # "unused" => chan'[d].state # "unused"
    BY <1>1, <1>3, <1>5, <2>1, UpdateChannel
  <2>3. TypeOK'
    BY <1>1, <1>5, <2>2 DEF IInv, TypeOK, SlotBack, connVars, queueVars, threadVars, envVars
  <2>4. ThreadsHoldChannels'
    BY <1>5, <2>2 DEF IInv, TypeOK, ThreadsHoldChannels, Mapped, connVars, threadVars
  <2>5. SlotsConserved'
    <3>1. Len(kernel) \in Nat /\ Len(sq) \in Nat /\ Len(cq) \in Nat
      BY LenProperties DEF IInv, TypeOK
    <3>. QED
      BY <1>1, <1>5, <3>1 DEF IInv, TypeOK, SlotsConserved, SlotBack
  <2>. QED
    BY <2>3, <2>4, <2>5 DEF IInv
<1>. QED
  BY <1>4, <1>5 DEF ReadEmpty

(* The whole READ branch.                                                  *)
LEMMA OnReadInv ==
  ASSUME IInv, OnRead
  PROVE  IInv'
<1>1. CASE ReadFaults
  BY <1>1, FailInv DEF ReadFaults
<1>. QED
  BY <1>1, ReadEndInv, ReadDataInv, ReadEmptyInv DEF OnRead

(* The WRITE branch of eventLoop.                                          *)
LEMMA WriteAgainInv ==
  ASSUME IInv, cq # <<>>, WriteAgain
  PROVE  IInv'
<1>. DEFINE c    == connections[Done.fd]
            sb   == EraseData(chan[c].sendBuf, Done.res)
            new  == [chan[c] EXCEPT !.sendBuf = sb]
            item == WriteItem(Done.fd, c, "read", Writable(chan[c].readBuf))
<1>1. /\ Done \in Completion /\ Done.fd \in FDs /\ Done.res \in Int
      /\ Tail(cq) \in Seq(Completion) /\ Len(Tail(cq)) = Len(cq) - 1
  BY DoneType DEF Completion
<1>2. c \in Channels /\ chan[c] \in ChannelObject
  BY <1>1 DEF IInv, TypeOK, WriteAgain, Mapped
<1>3. chan[c].readBuf \in Buffers /\ chan[c].sendBuf \in Buffers
  BY <1>2, ChannelType
<1>4. sb \in Buffers /\ Writable(chan[c].readBuf) \in Int
  BY <1>1, <1>3, BufferType
<1>5. new \in ChannelObject /\ new.fd = chan[c].fd /\ new.state = chan[c].state
  <2>. HIDE DEF sb
  <2>. QED
    BY <1>2, <1>4, SendBufSet
<1>6. chan' = [chan EXCEPT ![c] = new]
  BY DEF WriteAgain
<1>7. sendQue' \in Seq(Pending)
  <2>1. item \in Pending
    BY <1>1, <1>2, <1>4 DEF WriteItem, Pending
  <2>2. sendQue' = Append(sendQue, item)
    BY DEF WriteAgain
  <2>. QED
    BY <2>1, <2>2, AppendProperties DEF IInv, TypeOK
<1>. HIDE DEF new
<1>8. /\ chan' \in [Channels -> ChannelObject]
      /\ \A d \in Channels : chan'[d].state # "unused" => chan'[d].fd \in FDs
      /\ \A d \in Channels : chan[d].state # "unused" => chan'[d].state # "unused"
  BY <1>2, <1>5, <1>6, UpdateChannel
<1>9. /\ cq' = Tail(cq)
      /\ UNCHANGED <<connVars, recvQue, sq, kernel, loopVars, threadVars, envVars, fault>>
  BY DEF WriteAgain
<1>10. TypeOK'
  BY <1>1, <1>7, <1>8, <1>9 DEF IInv, TypeOK, connVars, loopVars, threadVars, envVars
<1>11. ThreadsHoldChannels'
  BY <1>8, <1>9 DEF IInv, TypeOK, ThreadsHoldChannels, Mapped, connVars, threadVars
<1>12. SlotsConserved'
  <2>1. Len(kernel) \in Nat /\ Len(sq) \in Nat /\ Len(cq) \in Nat
    BY LenProperties DEF IInv, TypeOK
  <2>. QED
    BY <1>1, <1>9, <2>1, UringAssumption DEF IInv, TypeOK, SlotsConserved, loopVars
<1>. QED
  BY <1>10, <1>11, <1>12 DEF IInv

(* A write that is the last one may close the channel.                     *)
LEMMA WriteFinishedInv ==
  ASSUME IInv, cq # <<>>, WriteFinished
  PROVE  IInv'
<1>. DEFINE c  == connections[Done.fd]
            ch == [chan[c] EXCEPT !.sendBuf = EraseData(@, Done.res), !.sendFlag = @ - 1]
<1>1. /\ Done \in Completion /\ Done.fd \in FDs /\ Done.res \in Int
      /\ Tail(cq) \in Seq(Completion) /\ Len(Tail(cq)) = Len(cq) - 1
  BY DoneType DEF Completion
<1>2. c \in Channels /\ chan[c] \in ChannelObject
  BY <1>1 DEF IInv, TypeOK, WriteFinished, Mapped
<1>3. ch \in ChannelObject /\ ch.fd = chan[c].fd /\ ch.state = chan[c].state
  <2>. DEFINE sb == EraseData(chan[c].sendBuf, Done.res)
              n  == chan[c].sendFlag - 1
  <2>1. chan[c].sendBuf \in Buffers /\ chan[c].sendFlag \in Int
    BY <1>2, ChannelType
  <2>2. sb \in Buffers /\ n \in Int
    <3>1. sb \in Buffers
      BY <1>1, <2>1, BufferType
    <3>. QED
      BY <2>1, <3>1
  <2>3. ch = [chan[c] EXCEPT !.sendBuf = sb, !.sendFlag = n]
    OBVIOUS
  <2>. HIDE DEF sb, n, ch
  <2>4. ch \in ChannelObject
    BY <1>2, <2>2, <2>3, Zenon DEF ChannelObject
  <2>. QED
    BY <1>2, <2>3, <2>4 DEF ChannelObject
<1>4. CASE CloseFaults(c, Done.fd, ch)
  BY <1>4, FailInv DEF CloseFaults
<1>5. CASE /\ IF ch.sendFlag = 0 /\ ch.closeFlag
              THEN Close(c, Done.fd, ch)
              ELSE /\ chan' = [chan EXCEPT ![c] = ch]
                   /\ UNCHANGED <<connections, loopPc, closingFd, fault>>
           /\ SlotBack
           /\ cq' = Tail(cq)
           /\ UNCHANGED <<openFds, queueVars, sq, kernel, threadVars, envVars>>
  <2>. HIDE DEF ch
  <2>1. /\ connections' \in [FDs -> Channels \cup {NoChannel}]
        /\ \A d \in FDs : connections'[d] \in {connections[d], NoChannel}
        /\ chan' \in [Channels -> ChannelObject]
        /\ \A d \in Channels : chan'[d].state # "unused" => chan'[d].fd \in FDs
        /\ \A d \in Channels : chan[d].state # "unused" => chan'[d].state # "unused"
        /\ loopPc' \in LoopPc
        /\ closingFd' \in FDs \cup {NoFd}
    <3>1. CASE Close(c, Done.fd, ch)
      BY <1>1, <1>2, <1>3, <3>1, CloseInv
    <3>2. CASE /\ chan' = [chan EXCEPT ![c] = ch]
               /\ UNCHANGED <<connections, loopPc, closingFd, fault>>
      <4>1. /\ chan' \in [Channels -> ChannelObject]
            /\ \A d \in Channels : chan'[d].state # "unused" => chan'[d].fd \in FDs
            /\ \A d \in Channels : chan[d].state # "unused" => chan'[d].state # "unused"
        BY <1>2, <1>3, <3>2, UpdateChannel
      <4>. QED
        BY <3>2, <4>1 DEF IInv, TypeOK
    <3>. QED
      BY <1>5, <3>1, <3>2
  <2>2. TypeOK'
    BY <1>1, <1>5, <2>1 DEF IInv, TypeOK, SlotBack, queueVars, threadVars, envVars
  <2>3. ThreadsHoldChannels'
    BY <1>5, <2>1 DEF IInv, TypeOK, ThreadsHoldChannels, Mapped, threadVars
  <2>4. SlotsConserved'
    <3>1. Len(kernel) \in Nat /\ Len(sq) \in Nat /\ Len(cq) \in Nat
      BY LenProperties DEF IInv, TypeOK
    <3>. QED
      BY <1>1, <1>5, <3>1 DEF IInv, TypeOK, SlotsConserved, SlotBack
  <2>. QED
    BY <2>2, <2>3, <2>4 DEF IInv
<1>. QED
  BY <1>4, <1>5 DEF WriteFinished

(* The whole WRITE branch.                                                 *)
LEMMA OnWriteInv ==
  ASSUME IInv, OnWrite
  PROVE  IInv'
<1>1. CASE WriteFaults
  BY <1>1, FailInv DEF WriteFaults
<1>. QED
  BY <1>1, WriteAgainInv, WriteFinishedInv DEF OnWrite

(* The openers.                                                            *)
LEMMA OpenFdInv ==
  ASSUME IInv, NEW o \in Openers, NEW fd \in FDs, OpenFd(o, fd)
  PROVE  IInv'
<1>1. PICK c \in Channels :
        opener' = [opener EXCEPT ![o] = [pc |-> "insert", fd |-> fd, channel |-> c]]
  BY DEF OpenFd
<1>2. opener' \in [Openers -> [pc : OpenerPc, fd : FDs \cup {NoFd},
                               channel : Channels \cup {NoChannel}]]
  BY <1>1 DEF IInv, TypeOK, OpenerPc
<1>3. TypeOK'
  BY <1>2 DEF OpenFd, IInv, TypeOK, queueVars, ringVars, loopVars, envVars
<1>4. ThreadsHoldChannels'
  BY <1>1 DEF OpenFd, IInv, TypeOK, ThreadsHoldChannels, Mapped
<1>5. SlotsConserved'
  BY DEF OpenFd, IInv, SlotsConserved, ringVars, loopVars
<1>. QED
  BY <1>3, <1>4, <1>5 DEF IInv

(* An opener that moves keeps its descriptor and channel.                  *)
LEMMA GotoType ==
  ASSUME IInv, NEW o \in Openers, NEW pc \in OpenerPc, Goto(o, pc),
         pc # "idle" => opener[o].pc # "idle"
  PROVE  /\ opener' \in [Openers -> [pc : OpenerPc, fd : FDs \cup {NoFd},
                                     channel : Channels \cup {NoChannel}]]
         /\ \A p \in Openers : opener'[p].pc # "idle" =>
              opener'[p].fd \in FDs /\ opener'[p].channel \in Channels
<1>. DEFINE OpenerState == [pc : OpenerPc, fd : FDs \cup {NoFd},
                            channel : Channels \cup {NoChannel}]
<1>1. opener \in [Openers -> OpenerState]
  BY DEF IInv, TypeOK
<1>2. opener' = [opener EXCEPT ![o] = [opener[o] EXCEPT !.pc = pc]]
  BY DEF Goto
<1>3. [opener[o] EXCEPT !.pc = pc] \in OpenerState
  BY <1>1
<1>4. opener' \in [Openers -> OpenerState]
  BY <1>1, <1>2, <1>3
<1>5. \A p \in Openers : /\ opener'[p].fd = opener[p].fd
                         /\ opener'[p].channel = opener[p].channel
                         /\ opener'[p].pc # "idle" => opener[p].pc # "idle"
  BY <1>1, <1>2
<1>6. \A p \in Openers : opener[p].pc # "idle" =>
        opener[p].fd \in FDs /\ opener[p].channel \in Channels
  BY DEF IInv, ThreadsHoldChannels
<1>. QED
  BY <1>4, <1>5, <1>6

(* The channel of a new connection comes into being.                       *)
LEMMA InsertFdInv ==
  ASSUME IInv, NEW o \in Openers, InsertFd(o)
  PROVE  IInv'
<1>. DEFINE fd  == opener[o].fd
            c   == opener[o].channel
            new == NewChannel(fd)
<1>1. fd \in FDs /\ c \in Channels /\ opener[o].pc # "idle"
  BY DEF InsertFd, IInv, ThreadsHoldChannels
<1>2. CASE Fail("addNewFd")
  BY <1>2, FailInv
<1>3. CASE /\ connections' = [connections EXCEPT ![fd] = c]
           /\ chan' = [chan EXCEPT ![c] = new]
           /\ Goto(o, "start")
           /\ UNCHANGED <<openFds, queueVars, ringVars, loopVars, sender, envVars, fault>>
  <2>1. new \in ChannelObject /\ new.state = "live" /\ new.fd = fd
    <3>1. NewBuffer(BufSize) \in Buffers
      BY UringAssumption DEF NewBuffer, Buffers
    <3>. QED
      BY <1>1, <3>1 DEF NewChannel, ChannelObject
  <2>. HIDE DEF new
  <2>2. /\ chan' \in [Channels -> ChannelObject]
        /\ chan'[c] = new
        /\ \A d \in Channels : d # c => chan'[d] = chan[d]
    BY <1>1, <1>3, <2>1 DEF IInv, TypeOK
  <2>3. /\ opener' \in [Openers -> [pc : OpenerPc, fd : FDs \cup {NoFd},
                                    channel : Channels \cup {NoChannel}]]
        /\ \A p \in Openers : opener'[p].pc # "idle" =>
             opener'[p].fd \in FDs /\ opener'[p].channel \in Channels
    BY <1>1, <1>3, GotoType DEF OpenerPc
  <2>4. /\ connections' \in [FDs -> Channels \cup {NoChannel}]
        /\ \A d \in FDs : connections'[d] = IF d = fd THEN c ELSE connections[d]
    BY <1>1, <1>3 DEF IInv, TypeOK
  <2>5. \A d \in Channels : chan[d].state # "unused" => chan'[d].state # "unused"
    BY <2>1, <2>2
  <2>6. TypeOK'
    BY <1>3, <2>2, <2>3, <2>4 DEF IInv, TypeOK, queueVars, ringVars, loopVars, envVars
  <2>7. ThreadsHoldChannels'
    <3>1. \A d \in Channels : chan'[d].state # "unused" => chan'[d].fd \in FDs
      BY <1>1, <2>1, <2>2 DEF IInv, ThreadsHoldChannels
    <3>2. \A d \in FDs : connections'[d] # NoChannel => chan'[connections'[d]].state # "unused"
      <4>1. TAKE d \in FDs
      <4>2. CASE d = fd
        BY <2>1, <2>2, <2>4, <4>2
      <4>3. CASE d # fd
        BY <2>4, <2>5, <4>3 DEF IInv, TypeOK, ThreadsHoldChannels, Mapped
      <4>. QED
        BY <4>2, <4>3
    <3>3. \A t \in Senders : sender'[t].pc # "idle" =>
            sender'[t].channel \in Channels /\ chan'[sender'[t].channel].state # "unused"
      BY <1>3, <2>5 DEF IInv, ThreadsHoldChannels
    <3>. QED
      BY <2>3, <3>1, <3>2, <3>3 DEF ThreadsHoldChannels, Mapped
  <2>8. SlotsConserved'
    BY <1>3 DEF IInv, SlotsConserved, ringVars, loopVars
  <2>. QED
    BY <2>6, <2>7, <2>8 DEF IInv
<1>. QED
  BY <1>2, <1>3 DEF InsertFd

(* The coroutine queues its first receive.                                 *)
LEMMA StartCoroutineInv ==
  ASSUME IInv, NEW o \in Openers, StartCoroutine(o)
  PROVE  IInv'
<1>1. opener[o].fd \in FDs /\ opener[o].pc # "idle"
  BY DEF StartCoroutine, IInv, ThreadsHoldChannels
<1>2. /\ opener' \in [Openers -> [pc : OpenerPc, fd : FDs \cup {NoFd},
                                  channel : Channels \cup {NoChannel}]]
      /\ \A p \in Openers : opener'[p].pc # "idle" =>
           opener'[p].fd \in FDs /\ opener'[p].channel \in Channels
  BY <1>1, GotoType DEF StartCoroutine, OpenerPc
<1>3. recvQue' \in Seq(FDs)
  BY <1>1, AppendProperties DEF StartCoroutine, IInv, TypeOK
<1>4. TypeOK'
  BY <1>2, <1>3 DEF StartCoroutine, IInv, TypeOK, connVars, ringVars, loopVars, envVars
<1>5. ThreadsHoldChannels'
  BY <1>2 DEF StartCoroutine, IInv, ThreadsHoldChannels, Mapped, connVars
<1>6. SlotsConserved'
  BY DEF StartCoroutine, IInv, SlotsConserved, ringVars, loopVars
<1>. QED
  BY <1>4, <1>5, <1>6 DEF IInv

(* The two last steps of an opener change one field of its channel.        *)
LEMMA AssignTaskInv ==
  ASSUME IInv, NEW o \in Openers, AssignTask(o) \/ SetAddr(o)
  PROVE  IInv'
<1>. DEFINE c    == opener[o].channel
            task == [chan[c] EXCEPT !.task = "frame"]
            addr == [chan[c] EXCEPT !.addr = TRUE]
<1>1. c \in Channels /\ opener[o].pc # "idle"
  BY DEF AssignTask, SetAddr, IInv, ThreadsHoldChannels
<1>2. chan[c] \in ChannelObject
  BY <1>1 DEF IInv, TypeOK
<1>3. /\ task \in ChannelObject /\ task.fd = chan[c].fd /\ task.state = chan[c].state
      /\ addr \in ChannelObject /\ addr.fd = chan[c].fd /\ addr.state = chan[c].state
  BY <1>2 DEF ChannelObject
<1>4. \/ chan' = chan
      \/ chan' = [chan EXCEPT ![c] = task]
      \/ chan' = [chan EXCEPT ![c] = addr]
  BY DEF AssignTask, SetAddr
<1>. HIDE DEF task, addr
<1>5. /\ chan' \in [Channels -> ChannelObject]
      /\ \A d \in Channels : chan'[d].state # "unused" => chan'[d].fd \in FDs
      /\ \A d \in Channels : chan[d].state # "unused" => chan'[d].state # "unused"
  <2>1. CASE chan' = chan
    BY <2>1 DEF IInv, TypeOK, ThreadsHoldChannels
  <2>. QED
    BY <1>1, <1>3, <1>4, <2>1, UpdateChannel
<1>6. Goto(o, "setAddr") \/ Goto(o, "idle")
  BY DEF AssignTask, SetAddr
<1>7. /\ opener' \in [Openers -> [pc : OpenerPc, fd : FDs \cup {NoFd},
                                  channel : Channels \cup {NoChannel}]]
      /\ \A p \in Openers : opener'[p].pc # "idle" =>
           opener'[p].fd \in FDs /\ opener'[p].channel \in Channels
  BY <1>1, <1>6, GotoType DEF OpenerPc
<1>8. UNCHANGED <<connVars, queueVars, ringVars, loopVars, sender, envVars, fault>>
  BY DEF AssignTask, SetAddr
<1>9. TypeOK'
  BY <1>5, <1>7, <1>8 DEF IInv, TypeOK, connVars, queueVars, ringVars, loopVars, envVars
<1>10. ThreadsHoldChannels'
  BY <1>5, <1>7, <1>8 DEF IInv, TypeOK, ThreadsHoldChannels, Mapped, connVars
<1>11. SlotsConserved'
  BY <1>8 DEF IInv, SlotsConserved, ringVars, loopVars
<1>. QED
  BY <1>9, <1>10, <1>11 DEF IInv

(* The application threads.                                                *)
LEMMA SendBeginInv ==
  ASSUME IInv, NEW t \in Senders, NEW c \in Channels, NEW n \in 1..MaxLen,
         SendBegin(t, c, n)
  PROVE  IInv'
<1>1. n \in Nat
  BY UringAssumption
<1>2. \/ sender' = sender
      \/ sender' = [sender EXCEPT ![t] = [pc |-> "input", channel |-> c, len |-> n]]
  BY DEF SendBegin
<1>3. chan[c].state # "unused"
  BY DEF SendBegin
<1>4. /\ sender' \in [Senders -> [pc : SenderPc, channel : Channels \cup {NoChannel},
                                  len : Nat]]
      /\ \A u \in Senders : sender'[u].pc # "idle" =>
           sender'[u].channel \in Channels /\ chan[sender'[u].channel].state # "unused"
  <2>1. CASE sender' = sender
    BY <2>1 DEF IInv, TypeOK, ThreadsHoldChannels
  <2>2. CASE sender' = [sender EXCEPT ![t] = [pc |-> "input", channel |-> c, len |-> n]]
    <3>1. /\ sender' \in [Senders -> [pc : SenderPc, channel : Channels \cup {NoChannel},
                                      len : Nat]]
          /\ sender'[t].channel = c
          /\ \A u \in Senders : u # t => sender'[u] = sender[u]
      BY <1>1, <2>2 DEF IInv, TypeOK, SenderPc
    <3>2. ASSUME NEW u \in Senders, sender'[u].pc # "idle"
          PROVE  sender'[u].channel \in Channels /\ chan[sender'[u].channel].state # "unused"
      <4>1. CASE u = t
        BY <1>3, <3>1, <4>1
      <4>2. CASE u # t
        BY <3>1, <3>2, <4>2 DEF IInv, ThreadsHoldChannels
      <4>. QED
        BY <4>1, <4>2
    <3>. QED
      BY <3>1, <3>2
  <2>. QED
    BY <1>2, <2>1, <2>2
<1>5. TypeOK'
  BY <1>4 DEF SendBegin, IInv, TypeOK, connVars, queueVars, ringVars, loopVars
<1>6. ThreadsHoldChannels'
  BY <1>4 DEF SendBegin, IInv, ThreadsHoldChannels, Mapped, connVars
<1>7. SlotsConserved'
  BY DEF SendBegin, IInv, SlotsConserved, ringVars, loopVars
<1>. QED
  BY <1>5, <1>6, <1>7 DEF IInv

(* The bytes of a send are in sendBuf_, and it is queued.                  *)
LEMMA SendInputInv ==
  ASSUME IInv, NEW t \in Senders, SendInput(t)
  PROVE  IInv'
<1>. DEFINE c    == sender[t].channel
            sb   == Input(chan[c].sendBuf, sender[t].len)
            new  == [chan[c] EXCEPT !.sendBuf = sb]
            item == WriteItem(chan[c].fd, c, "send", Readable(sb))
<1>1. /\ c \in Channels /\ chan[c].fd \in FDs /\ chan[c] \in ChannelObject
      /\ sender[t].len \in Int
  <2>1. c \in Channels /\ chan[c].state # "unused"
    BY DEF SendInput, IInv, ThreadsHoldChannels
  <2>2. chan[c].fd \in FDs
    BY <2>1 DEF IInv, ThreadsHoldChannels
  <2>3. chan[c] \in ChannelObject
    BY <2>1 DEF IInv, TypeOK
  <2>4. sender[t].len \in Int
    BY DEF IInv, TypeOK
  <2>. QED
    BY <2>1, <2>2, <2>3, <2>4
<1>2. chan[c].sendBuf \in Buffers
  BY <1>1, ChannelType
<1>3. sb \in Buffers /\ Readable(sb) \in Int
  BY <1>1, <1>2, BufferType
<1>4. new \in ChannelObject /\ new.fd = chan[c].fd /\ new.state = chan[c].state
  <2>. HIDE DEF sb
  <2>. QED
    BY <1>1, <1>3, SendBufSet
<1>5. sendQue' \in Seq(Pending)
  <2>1. item \in Pending
    BY <1>1, <1>3 DEF WriteItem, Pending
  <2>2. sendQue' = Append(sendQue, item)
    BY DEF SendInput
  <2>. QED
    BY <2>1, <2>2, AppendProperties DEF IInv, TypeOK
<1>6. chan' = [chan EXCEPT ![c] = new]
  BY DEF SendInput
<1>. HIDE DEF new
<1>7. /\ chan' \in [Channels -> ChannelObject]
      /\ \A d \in Channels : chan'[d].state # "unused" => chan'[d].fd \in FDs
      /\ \A d \in Channels : chan[d].state # "unused" => chan'[d].state # "unused"
  BY <1>1, <1>4, <1>6, UpdateChannel
<1>8. /\ sender' \in [Senders -> [pc : SenderPc, channel : Channels \cup {NoChannel},
                                  len : Nat]]
      /\ \A u \in Senders : sender'[u].pc # "idle" => sender[u].pc # "idle"
      /\ \A u \in Senders : sender'[u].channel = sender[u].channel
  BY DEF SendInput, IInv, TypeOK, SenderPc
<1>9. TypeOK'
  BY <1>5, <1>7, <1>8 DEF SendInput, IInv, TypeOK, connVars, ringVars, loopVars, envVars
<1>10. ThreadsHoldChannels'
  BY <1>7, <1>8 DEF SendInput, IInv, TypeOK, ThreadsHoldChannels, Mapped, connVars
<1>11. SlotsConserved'
  BY DEF SendInput, IInv, SlotsConserved, ringVars, loopVars
<1>. QED
  BY <1>9, <1>10, <1>11 DEF IInv

(* The send is counted.                                                    *)
LEMMA SendCountInv ==
  ASSUME IInv, NEW t \in Senders, SendCount(t)
  PROVE  IInv'
<1>. DEFINE c   == sender[t].channel
            new == Counted(chan[c])
<1>1. c \in Channels /\ chan[c] \in ChannelObject
  BY DEF SendCount, IInv, TypeOK, ThreadsHoldChannels
<1>2. new \in ChannelObject /\ new.fd = chan[c].fd /\ new.state = chan[c].state
  <2>1. chan[c].sendFlag + 1 \in Int
    <3>1. chan[c].sendFlag \in Int
      BY <1>1 DEF ChannelObject
    <3>. QED
      BY <3>1
  <2>2. new \in ChannelObject
    BY <1>1, <2>1, ChannelType DEF Counted
  <2>. QED
    BY <1>1, <2>2 DEF Counted, ChannelObject
<1>3. chan' = [chan EXCEPT ![c] = new]
  BY DEF SendCount
<1>. HIDE DEF new
<1>4. /\ chan' \in [Channels -> ChannelObject]
      /\ \A d \in Channels : chan'[d].state # "unused" => chan'[d].fd \in FDs
      /\ \A d \in Channels : chan[d].state # "unused" => chan'[d].state # "unused"
  BY <1>1, <1>2, <1>3, UpdateChannel
<1>5. /\ sender' \in [Senders -> [pc : SenderPc, channel : Channels \cup {NoChannel},
                                  len : Nat]]
      /\ \A u \in Senders : sender'[u].pc # "idle" => sender[u].pc # "idle"
      /\ \A u \in Senders : sender'[u].channel = sender[u].channel
  BY DEF SendCount, IInv, TypeOK, SenderPc
<1>6. TypeOK'
  BY <1>4, <1>5 DEF SendCount, IInv, TypeOK, connVars, queueVars, ringVars, loopVars, envVars
<1>7. ThreadsHoldChannels'
  BY <1>4, <1>5 DEF SendCount, IInv, TypeOK, ThreadsHoldChannels, Mapped, connVars
<1>8. SlotsConserved'
  BY DEF SendCount, IInv, SlotsConserved, ringVars, loopVars
<1>. QED
  BY <1>6, <1>7, <1>8 DEF IInv

(* The kernel moves a request to the completion ring.                      *)
LEMMA CompleteInv ==
  ASSUME IInv, NEW i \in DOMAIN kernel, NEW res \in -1..BufSize, Complete(i, res)
  PROVE  IInv'
<1>. DEFINE req  == kernel[i]
            done == [op |-> req.op, fd |-> req.fd, channel |-> req.channel, res |-> res]
<1>1. kernel[i] \in Request
  BY ElementOfSeq, LenProperties DEF IInv, TypeOK
<1>2. done \in Completion
  BY <1>1, UringAssumption DEF Request, Completion
<1>3. /\ kernel' = RemoveAt(kernel, i) /\ cq' = Append(cq, done)
      /\ UNCHANGED <<connVars, chan, queueVars, sq, loopVars, threadVars, envVars, fault>>
  BY DEF Complete
<1>. HIDE DEF done
<1>4. kernel' \in Seq(Request) /\ Len(kernel') = Len(kernel) - 1
  BY <1>3, RemoveAtType DEF IInv, TypeOK
<1>5. cq' \in Seq(Completion) /\ Len(cq') = Len(cq) + 1
  BY <1>2, <1>3, AppendProperties DEF IInv, TypeOK
<1>6. TypeOK'
  BY <1>3, <1>4, <1>5 DEF IInv, TypeOK, connVars, queueVars, loopVars, threadVars, envVars
<1>7. ThreadsHoldChannels'
  BY <1>3 DEF IInv, ThreadsHoldChannels, Mapped, connVars, threadVars
<1>8. SlotsConserved'
  <2>1. Len(kernel) \in Nat /\ Len(sq) \in Nat /\ Len(cq) \in Nat
    BY LenProperties DEF IInv, TypeOK
  <2>. QED
    BY <1>3, <1>4, <1>5, <2>1, UringAssumption DEF IInv, TypeOK, SlotsConserved, loopVars
<1>. QED
  BY <1>6, <1>7, <1>8 DEF IInv

-----------------------------------------------------------------------------
(***************************************************************************)
(* The theorems.                                                           *)
(***************************************************************************)

(* Every step of every actor keeps the inductive invariant.                *)
LEMMA StepInv == IInv /\ [Next]_vars => IInv'
<1>. SUFFICES ASSUME IInv, [Next]_vars PROVE IInv'
  OBVIOUS
<1>1. CASE UNCHANGED vars
  BY <1>1 DEF vars, IInv, TypeOK, ThreadsHoldChannels, SlotsConserved, Mapped
<1>2. CASE LoopStep
  BY <1>2, SubmitInv, OnReadInv, OnWriteInv, BeginRecvInv, BeginSendInv DEF LoopStep
<1>3. CASE OpenerStep
  BY <1>3, OpenFdInv, InsertFdInv, StartCoroutineInv, AssignTaskInv DEF OpenerStep
<1>4. CASE SenderStep
  BY <1>4, SendBeginInv, SendInputInv, SendCountInv DEF SenderStep
<1>5. CASE KernelStep
  BY <1>5, CompleteInv DEF KernelStep
<1>6. CASE SetErrno
  BY <1>6, SubmitInv
<1>7. CASE MapRace
  BY <1>7, FailInv DEF MapRace
<1>. QED
  BY <1>1, <1>2, <1>3, <1>4, <1>5, <1>6, <1>7 DEF Next

(* The inductive invariant holds in every reachable state.                 *)
THEOREM Invariance == Spec => []IInv
<1>. QED
  BY InitInv, StepInv, PTL DEF Spec

(* Every variable keeps its type, whatever the number of connections and   *)
(* threads; freeNum_ (uring_io.h:65, unsigned) never wraps below zero.     *)
THEOREM TypeCorrect == Spec => []TypeOK
<1>1. IInv => TypeOK
  BY DEF IInv
<1>. QED
  BY <1>1, Invariance, PTL

(* Never more requests than slots: io_uring_get_sqe, whose result          *)
(* beginRecv and beginSend use unchecked, always has an entry.             *)
THEOREM SlotBoundHolds == Spec => []SlotBound
<1>1. IInv => SlotBound
  <2>. SUFFICES ASSUME IInv PROVE SlotBound
    OBVIOUS
  <2>1. Len(kernel) \in Nat /\ Len(sq) \in Nat /\ Len(cq) \in Nat /\ freeNum \in Nat
    BY LenProperties DEF IInv, TypeOK
  <2>. QED
    BY <2>1, UringAssumption DEF IInv, SlotsConserved, SlotBound
<1>. QED
  BY <1>1, Invariance, PTL

-----------------------------------------------------------------------------
(***************************************************************************)
(* Without a send no slot is lost.                                         *)
(***************************************************************************)
Reads(s) == \A i \in 1..Len(s) : s[i].op = "READ"

(* Until somebody sends there is nothing but receives, from the queue to   *)
(* the completion ring, and each of them has its slot.                     *)
OnlyReads ==
  sends = 0 =>
    /\ sendQue = <<>> /\ \A t \in Senders : sender[t].pc = "idle"
    /\ Reads(sq) /\ Reads(kernel) /\ Reads(cq)
    /\ freeNum + Len(sq) + Len(kernel) + Len(cq) = QueueSize - 1

LEMMA InitOnlyReads == Init => OnlyReads
BY EmptySeq DEF Init, OnlyReads, Reads

(* The lengths the arithmetic is about.                                    *)
LEMMA Lengths ==
  ASSUME IInv
  PROVE  /\ Len(sq) \in Nat /\ Len(kernel) \in Nat /\ Len(cq) \in Nat
         /\ freeNum \in Nat /\ sends \in Nat
  BY LenProperties DEF IInv, TypeOK

LEMMA JoinedReads ==
  ASSUME NEW S, NEW T, NEW s \in Seq(S), NEW t \in Seq(T)
  PROVE  Len(s \o t) = Len(s) + Len(t) /\ (Reads(s) /\ Reads(t) => Reads(s \o t))
<1>1. s \in Seq(S \cup T) /\ t \in Seq(S \cup T) /\ Len(s) \in Nat /\ Len(t) \in Nat
  BY LenProperties
<1>2. /\ Len(s \o t) = Len(s) + Len(t)
      /\ \A i \in 1..(Len(s) + Len(t)) : (s \o t)[i] = IF i <= Len(s) THEN s[i] ELSE t[i - Len(s)]
  BY <1>1, ConcatProperties
<1>. QED
  BY <1>1, <1>2 DEF Reads

(* A completed receive goes, and its slot comes back.                      *)
LEMMA ReadGone ==
  ASSUME IInv, OnlyReads, cq # <<>>, cq' = Tail(cq), SlotBack, sends' = 0 => sends = 0,
         UNCHANGED <<sq, kernel, sender>>, sends' = 0 => sendQue' = sendQue
  PROVE  OnlyReads'
<1>1. /\ Len(cq') = Len(cq) - 1
      /\ \A i \in 1..Len(cq') : cq'[i] = cq[i + 1] /\ i + 1 \in 1..Len(cq)
  BY HeadTailProperties, LenProperties DEF IInv, TypeOK
<1>2. Reads(cq) => Reads(cq')
  BY <1>1 DEF Reads
<1>. QED
  BY <1>1, <1>2, Lengths DEF OnlyReads, SlotBack, Reads

(* The process that dies, and steps that touch neither ring nor queue.     *)
LEMMA RingStays ==
  ASSUME OnlyReads, UNCHANGED <<sendQue, ringVars, freeNum, sender>>, sends' = 0 => sends = 0
  PROVE  OnlyReads'
  BY DEF OnlyReads, Reads, ringVars

LEMMA FailOnlyReads ==
  ASSUME OnlyReads, NEW place, Fail(place)
  PROVE  OnlyReads'
  BY RingStays DEF Fail, allButFault, queueVars, ringVars, loopVars, threadVars, envVars

LEMMA OnReadOnlyReads ==
  ASSUME IInv, OnlyReads, OnRead
  PROVE  OnlyReads'
<1>1. cq # <<>> /\ (ReadEnd \/ ReadData \/ ReadEmpty \/ ReadFaults)
  BY DEF OnRead
<1>2. ASSUME NEW place, Fail(place) PROVE OnlyReads'
  BY <1>2, FailOnlyReads
<1>3. CASE ReadFaults
  BY <1>2, <1>3 DEF ReadFaults
<1>4. CASE ReadEnd
  <2>1. CASE CloseFaults(Done.channel, Done.fd, chan[Done.channel])
    BY <1>2, <2>1 DEF CloseFaults
  <2>2. CASE SlotBack /\ cq' = Tail(cq) /\ UNCHANGED <<openFds, queueVars, sq, kernel, threadVars, envVars>>
    BY <1>1, <2>2, ReadGone DEF queueVars, threadVars, envVars
  <2>. QED
    BY <1>4, <2>1, <2>2 DEF ReadEnd
<1>5. CASE ReadEmpty
  <2>1. CASE \E place : Fail(place)
    BY <1>2, <2>1
  <2>2. CASE SlotBack /\ cq' = Tail(cq) /\ UNCHANGED <<queueVars, sq, kernel, threadVars, envVars>>
    BY <1>1, <2>2, ReadGone DEF queueVars, threadVars, envVars
  <2>. QED
    BY <1>5, <2>1, <2>2 DEF ReadEmpty
<1>6. CASE ReadData
  <2>1. SlotBack /\ cq' = Tail(cq) /\ UNCHANGED <<sq, kernel, threadVars>>
    BY <1>6 DEF ReadData
  <2>2. PICK k \in Int, n \in 0..MaxLen, ch \in {[chan[Done.channel] EXCEPT !.readBuf = Already(@, Done.res)]} :
          Handle(Done.channel, Done.fd, ch, k, n)
    <3>1. Readable([chan[Done.channel] EXCEPT !.readBuf = Already(@, Done.res)].readBuf) \in Int
            => \A k \in 0..Readable([chan[Done.channel] EXCEPT !.readBuf = Already(@, Done.res)].readBuf) : k \in Int
      OBVIOUS
    <3>. QED
      BY <1>6, <3>1 DEF ReadData
  <2>3. n \in Nat
    BY <2>2, UringAssumption
  <2>4. /\ sends' = IF n > 0 THEN sends + 1 ELSE sends
        /\ ~(n > 0) => sendQue' = sendQue
    BY <2>2 DEF Handle
  <2>. QED
    BY <1>1, <2>1, <2>3, <2>4, Lengths, ReadGone DEF threadVars
<1>. QED
  BY <1>1, <1>3, <1>4, <1>5, <1>6

(* A completed write means that somebody has sent.                         *)
LEMMA OnWriteOnlyReads ==
  ASSUME IInv, OnlyReads, OnWrite
  PROVE  OnlyReads'
<1>1. sends # 0
  <2>. SUFFICES ASSUME sends = 0 PROVE FALSE
    OBVIOUS
  <2>1. cq # <<>> /\ Done.op = "WRITE" /\ Reads(cq)
    BY DEF OnWrite, OnlyReads
  <2>2. Done = cq[1] /\ 1 \in 1..Len(cq)
    BY <2>1, HeadTailProperties, EmptySeq, LenProperties DEF IInv, TypeOK, Done
  <2>. QED
    BY <2>1, <2>2 DEF Reads
<1>2. sends' = sends
  BY DEF OnWrite, WriteAgain, WriteFinished, WriteFaults, CloseFaults, Fail, allButFault, envVars
<1>. QED
  BY <1>1, <1>2 DEF OnlyReads

(* What is prepared is receives only, one slot for each.                   *)
LEMMA PrepareOnlyReads ==
  ASSUME IInv, OnlyReads, BeginRecv \/ BeginSend
  PROVE  OnlyReads'
<1>1. ASSUME NEW place, Fail(place) PROVE OnlyReads'
  BY <1>1, FailOnlyReads
<1>2. CASE BeginRecv /\ ~Fail("beginRecv")
  <2>. DEFINE k   == Batch(recvQue)
              new == [i \in 1..k |-> ReadRequest(recvQue[i])]
  <2>1. /\ freeNum' = freeNum - k /\ sq' = sq \o new
        /\ UNCHANGED <<sendQue, kernel, cq, sender, sends>>
    BY <1>2 DEF BeginRecv, threadVars, envVars
  <2>2. k \in Nat /\ k <= freeNum
    BY BatchType DEF IInv, TypeOK
  <2>3. \A i \in 1..k : new[i].op = "READ"
    BY DEF ReadRequest
  <2>. DEFINE S == {new[i] : i \in 1..k}
  <2>4. new \in Seq(S) /\ Len(new) = k /\ Reads(new)
    BY <2>2, <2>3 DEF Reads
  <2>. HIDE DEF k, new, S
  <2>5. sq \in Seq(Request)
    BY DEF IInv, TypeOK
  <2>6. Len(sq') = Len(sq) + k /\ (Reads(sq) => Reads(sq'))
    <3>1. Len(sq \o new) = Len(sq) + Len(new) /\ (Reads(sq) /\ Reads(new) => Reads(sq \o new))
      BY <2>4, <2>5, JoinedReads
    <3>2. sq' = sq \o new
      BY <2>1
    <3>. QED
      BY <2>4, <3>1, <3>2, Zenon
  <2>7. freeNum' + Len(sq') = freeNum + Len(sq)
    BY <2>1, <2>2, <2>6, Lengths
  <2>8. freeNum' \in Int /\ Len(sq') \in Int
    BY <2>1, <2>2, <2>6, Lengths
  <2>. QED
    BY <2>1, <2>6, <2>7, <2>8, Lengths DEF OnlyReads
<1>3. CASE BeginSend /\ ~Fail("beginSend")
  <2>. SUFFICES ASSUME sends' = 0 PROVE OnlyReads'
    BY DEF OnlyReads
  <2>1. sends = 0 /\ sendQue = <<>>
    BY <1>3 DEF BeginSend, OnlyReads, envVars
  <2>2. Batch(sendQue) = 0
    BY <2>1, EmptySeq, Lengths DEF Batch
  <2>3. freeNum' = freeNum /\ sq' = sq \o <<>> /\ sendQue' = <<>>
    <3>1. [i \in 1..Batch(sendQue) |-> WriteRequest(sendQue[i])] = <<>>
      BY <2>2
    <3>2. Left(sendQue) = <<>>
      BY <2>1, <2>2 DEF Left
    <3>3. /\ freeNum' = freeNum - Batch(sendQue)
          /\ sq' = sq \o [i \in 1..Batch(sendQue) |-> WriteRequest(sendQue[i])]
          /\ sendQue' = Left(sendQue)
      BY <1>3 DEF BeginSend
    <3>4. freeNum' = freeNum
      BY <2>2, <3>3, Lengths
    <3>. QED
      BY <3>1, <3>2, <3>3, <3>4, Zenon
  <2>4. sq' = sq
    BY <2>3, ConcatEmptySeq DEF IInv, TypeOK
  <2>. QED
    BY <1>3, <2>1, <2>3, <2>4, RingStays DEF BeginSend, ringVars, threadVars, envVars
<1>. QED
  BY <1>1, <1>2, <1>3

LEMMA SubmitOnlyReads ==
  ASSUME IInv, OnlyReads, OsClose \/ EndOfCqes \/ Submit \/ SetErrno
  PROVE  OnlyReads'
<1>1. CASE Submit
  <2>1. /\ kernel' = kernel \o sq /\ sq' = <<>>
        /\ UNCHANGED <<sendQue, cq, freeNum, sender, sends>>
    BY <1>1 DEF Submit, queueVars, threadVars, envVars
  <2>2. kernel \in Seq(Request) /\ sq \in Seq(Request)
    BY DEF IInv, TypeOK
  <2>3. /\ Len(kernel') = Len(kernel) + Len(sq) /\ Len(sq') = 0
        /\ Reads(kernel) /\ Reads(sq) => Reads(kernel') /\ Reads(sq')
    BY <2>1, <2>2, JoinedReads, EmptySeq DEF Reads
  <2>. QED
    BY <2>1, <2>3, Lengths DEF OnlyReads
<1>2. CASE OsClose \/ EndOfCqes \/ SetErrno
  BY <1>2, RingStays DEF OsClose, EndOfCqes, SetErrno, queueVars, ringVars, loopVars, threadVars, envVars
<1>. QED
  BY <1>1, <1>2

LEMMA OpenerOnlyReads ==
  ASSUME OnlyReads, OpenerStep
  PROVE  OnlyReads'
<1>1. ASSUME NEW place, Fail(place) PROVE OnlyReads'
  BY <1>1, FailOnlyReads
<1>. QED
  BY <1>1, RingStays DEF OpenerStep, OpenFd, InsertFd, StartCoroutine, AssignTask, SetAddr, queueVars, ringVars,
                         loopVars, threadVars, envVars

LEMMA SenderOnlyReads ==
  ASSUME IInv, OnlyReads, SenderStep
  PROVE  OnlyReads'
<1>1. PICK t \in Senders :
        \/ \E c \in Channels, n \in 1..MaxLen : SendBegin(t, c, n)
        \/ SendInput(t) \/ SendCount(t)
  BY DEF SenderStep
<1>2. CASE \E c \in Channels, n \in 1..MaxLen : SendBegin(t, c, n)
  BY <1>2, Lengths DEF SendBegin, OnlyReads
<1>3. CASE SendInput(t) \/ SendCount(t)
  <2>1. sends # 0 /\ sends' = sends
    BY <1>3 DEF SendInput, SendCount, OnlyReads, envVars
  <2>. QED
    BY <2>1 DEF OnlyReads
<1>. QED
  BY <1>1, <1>2, <1>3

LEMMA CompleteOnlyReads ==
  ASSUME IInv, OnlyReads, NEW i \in DOMAIN kernel, NEW res \in -1..BufSize, Complete(i, res)
  PROVE  OnlyReads'
<1>. DEFINE done == [op |-> kernel[i].op, fd |-> kernel[i].fd, channel |-> kernel[i].channel,
                     res |-> res]
<1>1. /\ kernel' = RemoveAt(kernel, i) /\ cq' = Append(cq, done)
      /\ UNCHANGED <<sendQue, sq, freeNum, sender, sends>>
  BY DEF Complete, queueVars, loopVars, threadVars, envVars
<1>2. i \in 1..Len(kernel) /\ kernel[i] \in Request
  BY ElementOfSeq, LenProperties DEF IInv, TypeOK
<1>3. /\ Len(kernel') = Len(kernel) - 1
      /\ \A j \in 1..Len(kernel') : \E m \in 1..Len(kernel) : kernel'[j] = kernel[m]
  <2>1. Len(kernel') = Len(kernel) - 1
    BY <1>1, RemoveAtType DEF IInv, TypeOK
  <2>. DEFINE before == SubSeq(kernel, 1, i-1)
              after  == SubSeq(kernel, i+1, Len(kernel))
  <2>2. \A j \in 1..Len(kernel) : kernel[j] \in Request
    BY ElementOfSeq DEF IInv, TypeOK
  <2>3. /\ before \in Seq(Request) /\ Len(before) = i - 1
        /\ \A j \in 1..(i-1) : before[j] = kernel[j]
    <3>1. \A j \in 1..(i-1) : kernel[j] \in Request
      BY <1>2, <2>2, Lengths
    <3>. QED
      BY <1>2, <3>1, Lengths, SubSeqProperties
  <2>4. /\ after \in Seq(Request) /\ Len(after) = Len(kernel) - i
        /\ \A j \in 1..(Len(kernel) - i) : after[j] = kernel[i + j]
    <3>1. \A j \in (i+1)..Len(kernel) : kernel[j] \in Request
      BY <1>2, <2>2, Lengths
    <3>. QED
      BY <1>2, <3>1, Lengths, SubSeqProperties
  <2>5. kernel' = before \o after
    BY <1>1 DEF RemoveAt
  <2>. HIDE DEF before, after
  <2>6. \A j \in 1..Len(kernel') :
          kernel'[j] = IF j <= Len(before) THEN before[j] ELSE after[j - Len(before)]
    BY <2>3, <2>4, <2>5, ConcatProperties
  <2>7. ASSUME NEW j \in 1..Len(kernel')
        PROVE  \E m \in 1..Len(kernel) : kernel'[j] = kernel[m]
    <3>1. CASE j <= i - 1
      BY <1>2, <2>1, <2>3, <2>6, <3>1, Lengths
    <3>2. CASE j > i - 1
      <4>1. j - (i - 1) \in 1..(Len(kernel) - i) /\ j + 1 \in 1..Len(kernel)
        BY <1>2, <2>1, <3>2, Lengths
      <4>2. after[j - (i - 1)] = kernel[i + (j - (i - 1))]
        BY <2>4, <4>1
      <4>3. i + (j - (i - 1)) = j + 1
        BY <1>2, <2>1, Lengths
      <4>4. kernel'[j] = after[j - (i - 1)]
        <5>1. ~(j <= Len(before)) /\ Len(before) = i - 1
          BY <1>2, <2>1, <2>3, <3>2, Lengths
        <5>. QED
          BY <2>6, <5>1
      <4>5. kernel'[j] = kernel[j + 1] /\ j + 1 \in 1..Len(kernel)
        BY <4>1, <4>2, <4>3, <4>4
      <4>. QED
        BY <4>5
    <3>. QED
      BY <1>2, <3>1, <3>2, Lengths
  <2>. QED
    BY <2>1, <2>7
<1>4. done \in Completion
  BY <1>2, UringAssumption DEF Request, Completion
<1>5. done.op = kernel[i].op
  OBVIOUS
<1>. HIDE DEF done
<1>6. /\ Len(cq') = Len(cq) + 1 /\ cq'[Len(cq) + 1] = done
      /\ \A j \in 1..Len(cq) : cq'[j] = cq[j]
  BY <1>1, <1>4, AppendProperties DEF IInv, TypeOK
<1>7. Reads(kernel) => Reads(kernel')
  BY <1>3 DEF Reads
<1>8. Reads(kernel) /\ Reads(cq) => Reads(cq')
  BY <1>2, <1>5, <1>6, Lengths DEF Reads
<1>9. freeNum' + Len(sq') + Len(kernel') + Len(cq') = freeNum + Len(sq) + Len(kernel) + Len(cq)
  <2>1. /\ Len(kernel') = Len(kernel) - 1 /\ Len(cq') = Len(cq) + 1
        /\ Len(sq') = Len(sq) /\ freeNum' = freeNum
    BY <1>1, <1>3, <1>6
  <2>2. freeNum \in Nat /\ Len(sq) \in Nat /\ Len(kernel) \in Nat /\ Len(cq) \in Nat
    BY Lengths
  <2>3. freeNum + Len(sq) + (Len(kernel) - 1) + (Len(cq) + 1) = freeNum + Len(sq) + Len(kernel) + Len(cq)
    BY <2>2
  <2>. QED
    BY <2>1, <2>3
<1>. QED
  BY <1>1, <1>7, <1>8, <1>9 DEF OnlyReads

LEMMA StepOnlyReads == IInv /\ OnlyReads /\ [Next]_vars => OnlyReads'
<1>. SUFFICES ASSUME IInv, OnlyReads, [Next]_vars PROVE OnlyReads'
  OBVIOUS
<1>1. CASE UNCHANGED vars
  BY <1>1, RingStays DEF vars, ringVars
<1>2. CASE LoopStep
  BY <1>2, SubmitOnlyReads, OnReadOnlyReads, OnWriteOnlyReads, PrepareOnlyReads DEF LoopStep
<1>3. CASE OpenerStep
  BY <1>3, OpenerOnlyReads
<1>4. CASE SenderStep
  BY <1>4, SenderOnlyReads
<1>5. CASE KernelStep
  BY <1>5, CompleteOnlyReads DEF KernelStep
<1>6. CASE SetErrno
  BY <1>6, SubmitOnlyReads
<1>7. CASE MapRace
  BY <1>7, FailOnlyReads DEF MapRace
<1>. QED
  BY <1>1, <1>2, <1>3, <1>4, <1>5, <1>6, <1>7 DEF Next

(* Receives give their slot back, however they end: until somebody sends,  *)
(* every slot of the ring is free or under way, whatever peers do.         *)
THEOREM SlotsStayWithReceives == Spec => []ReceivesKeepSlots
<1>1. OnlyReads => ReceivesKeepSlots
  BY DEF OnlyReads, ReceivesKeepSlots
<1>. QED
  BY <1>1, InitOnlyReads, StepOnlyReads, Invariance, PTL DEF Spec

-----------------------------------------------------------------------------
(***************************************************************************)
(* Lemmas on how often a sequence holds members of a set V, and on what it *)
(* holds.                                                                  *)
(***************************************************************************)
Places(s, V) == {i \in DOMAIN s : s[i] \in V}
Count(s, V)  == Cardinality(Places(s, V))
Elems(s)     == {s[i] : i \in DOMAIN s}
One(x, V)    == IF x \in V THEN 1 ELSE 0

(* A count is a number, and 0 exactly when nothing of V is there.          *)
LEMMA CountType ==
  ASSUME NEW S, NEW s \in Seq(S), NEW V
  PROVE  /\ IsFiniteSet(Places(s, V))
         /\ Count(s, V) \in Nat
         /\ Count(s, V) = 0 <=> Elems(s) \cap V = {}
<1>. DEFINE P == Places(s, V)
<1>1. DOMAIN s = 1..Len(s) /\ Len(s) \in Nat
  BY LenProperties
<1>2. IsFiniteSet(1..Len(s)) /\ P \in SUBSET (1..Len(s))
  BY <1>1, FS_Interval DEF Places
<1>3. IsFiniteSet(P)
  BY <1>2, FS_Subset, Zenon
<1>4. Cardinality(P) \in Nat /\ (Cardinality(P) = 0 <=> P = {})
  BY <1>3, FS_CardinalityType, FS_EmptySet
<1>5. P = {} <=> Elems(s) \cap V = {}
  BY DEF Elems, Places
<1>. QED
  BY <1>3, <1>4, <1>5 DEF Count

LEMMA OneType ==
  ASSUME NEW x, NEW V
  PROVE  One(x, V) \in {0, 1} /\ (One(x, V) = 0 <=> x \notin V)
BY DEF One

(* Two sequences one after the other.                                      *)
LEMMA CountJoined ==
  ASSUME NEW S, NEW s \in Seq(S), NEW t \in Seq(S), NEW V
  PROVE  /\ Count(s \o t, V) = Count(s, V) + Count(t, V)
         /\ Elems(s \o t) = Elems(s) \cup Elems(t)
<1>. DEFINE m == Len(s)
            n == Len(t)
            A == Places(s, V)
            B == Places(t, V)
            C == Places(s \o t, V)
            D == {i \in C : i > m}
            f == [i \in B |-> i + m]
<1>1. /\ m \in Nat /\ n \in Nat /\ DOMAIN s = 1..m /\ DOMAIN t = 1..n
      /\ DOMAIN (s \o t) = 1..(m + n)
      /\ \A i \in 1..(m + n) : (s \o t)[i] = IF i <= m THEN s[i] ELSE t[i - m]
  BY ConcatProperties, LenProperties
<1>2. IsFiniteSet(A) /\ IsFiniteSet(B)
  BY CountType
<1>. HIDE DEF m, n
<1>3. f \in Bijection(B, D)
  <2>1. ASSUME NEW i \in B PROVE f[i] \in D
    <3>1. i \in 1..n /\ t[i] \in V
      BY <1>1 DEF Places
    <3>2. i + m \in 1..(m + n) /\ ~(i + m <= m) /\ (i + m) - m = i
      BY <1>1, <3>1
    <3>3. (s \o t)[i + m] = t[i]
      BY <1>1, <3>2
    <3>. QED
      BY <1>1, <3>1, <3>2, <3>3 DEF Places
  <2>2. ASSUME NEW j \in D PROVE \E i \in B : f[i] = j
    <3>1. j \in 1..(m + n) /\ j > m /\ (s \o t)[j] \in V
      BY <1>1 DEF Places
    <3>2. j - m \in 1..n /\ (j - m) + m = j
      BY <1>1, <3>1
    <3>3. (s \o t)[j] = t[j - m]
      BY <1>1, <3>1
    <3>4. j - m \in B
      BY <1>1, <3>1, <3>2, <3>3 DEF Places
    <3>. QED
      BY <3>2, <3>4
  <2>3. ASSUME NEW i \in B, NEW j \in B, f[i] = f[j] PROVE i = j
    BY <1>1, <2>3 DEF Places
  <2>. HIDE DEF B, D
  <2>4. f \in [B -> D]
    BY <2>1
  <2>. HIDE DEF f
  <2>. QED
    BY <2>2, <2>3, <2>4, Zenon DEF Bijection, Injection, Surjection, IsInjective
<1>4. IsFiniteSet(D) /\ Cardinality(D) = Cardinality(B)
  BY <1>2, <1>3, FS_Bijection, Zenon DEF ExistsBijection
<1>5. C = A \cup D /\ A \cap D = {}
  <2>1. \A i \in A : i \in C
    BY <1>1 DEF Places
  <2>2. \A i \in C : i \in A \/ i \in D
    BY <1>1 DEF Places
  <2>3. \A i \in A : ~(i > m)
    BY <1>1 DEF Places
  <2>. QED
    BY <2>1, <2>2, <2>3
<1>6. Cardinality(C) = Cardinality(A) + Cardinality(B)
  <2>. HIDE DEF A, B, C, D
  <2>1. /\ Cardinality(A) \in Nat /\ Cardinality(D) \in Nat
        /\ Cardinality(A \cup D) = Cardinality(A) + Cardinality(D) - Cardinality(A \cap D)
    BY <1>2, <1>4, FS_Union, FS_CardinalityType
  <2>2. Cardinality(A \cap D) = 0
    BY <1>5, FS_EmptySet
  <2>. QED
    BY <1>4, <1>5, <2>1, <2>2
<1>7. Elems(s \o t) = Elems(s) \cup Elems(t)
  <2>1. \A i \in 1..m : i \in 1..(m + n) /\ (s \o t)[i] = s[i]
    BY <1>1
  <2>2. \A i \in 1..n : i + m \in 1..(m + n) /\ (s \o t)[i + m] = t[i]
    BY <1>1
  <2>3. \A i \in 1..(m + n) : (i \in 1..m /\ (s \o t)[i] = s[i])
                                \/ (i - m \in 1..n /\ (s \o t)[i] = t[i - m])
    BY <1>1
  <2>4. ASSUME NEW x
        PROVE  x \in Elems(s \o t) <=> x \in Elems(s) \/ x \in Elems(t)
    <3>1. ASSUME x \in Elems(s \o t) PROVE x \in Elems(s) \/ x \in Elems(t)
      <4>1. PICK i \in 1..(m + n) : x = (s \o t)[i]
        BY <1>1, <3>1 DEF Elems
      <4>. QED
        BY <1>1, <2>3, <4>1 DEF Elems
    <3>2. ASSUME x \in Elems(s) PROVE x \in Elems(s \o t)
      <4>1. PICK i \in 1..m : x = s[i]
        BY <1>1, <3>2 DEF Elems
      <4>. QED
        BY <1>1, <2>1, <4>1 DEF Elems
    <3>3. ASSUME x \in Elems(t) PROVE x \in Elems(s \o t)
      <4>1. PICK i \in 1..n : x = t[i]
        BY <1>1, <3>3 DEF Elems
      <4>. QED
        BY <1>1, <2>2, <4>1 DEF Elems
    <3>. QED
      BY <3>1, <3>2, <3>3
  <2>. QED
    BY <2>4
<1>. QED
  BY <1>6, <1>7 DEF Count

LEMMA CountSingle ==
  ASSUME NEW x, NEW V
  PROVE  Count(<<x>>, V) = One(x, V) /\ Elems(<<x>>) = {x} /\ Count(<<>>, V) = 0 /\ Elems(<<>>) = {}
<1>1. Places(<<x>>, V) = IF x \in V THEN {1} ELSE {}
  BY DEF Places
<1>2. Elems(<<x>>) = {x}
  BY DEF Elems
<1>3. Places(<<>>, V) = {} /\ Elems(<<>>) = {}
  BY DEF Elems, Places
<1>4. Cardinality({1}) = 1 /\ Cardinality({}) = 0
  BY FS_Singleton, FS_EmptySet
<1>. QED
  BY <1>1, <1>2, <1>3, <1>4 DEF Count, One

(* One more at the end.                                                    *)
LEMMA CountAppended ==
  ASSUME NEW S, NEW s \in Seq(S), NEW x \in S, NEW V
  PROVE  /\ Count(Append(s, x), V) = Count(s, V) + One(x, V)
         /\ Elems(Append(s, x)) = Elems(s) \cup {x}
<1>1. Append(s, x) = s \o <<x>> /\ <<x>> \in Seq(S)
  BY AppendIsConcat
<1>. QED
  <2>1. /\ Count(s \o <<x>>, V) = Count(s, V) + Count(<<x>>, V)
        /\ Elems(s \o <<x>>) = Elems(s) \cup Elems(<<x>>)
    BY <1>1, CountJoined
  <2>2. Count(<<x>>, V) = One(x, V) /\ Elems(<<x>>) = {x}
    BY CountSingle
  <2>. QED
    BY <1>1, <2>1, <2>2

(* One less at the front.                                                  *)
LEMMA CountTail ==
  ASSUME NEW S, NEW s \in Seq(S), s # <<>>, NEW V
  PROVE  /\ Head(s) \in S /\ Tail(s) \in Seq(S)
         /\ Count(s, V) = Count(Tail(s), V) + One(Head(s), V)
         /\ Elems(s) = Elems(Tail(s)) \cup {Head(s)}
<1>1. Head(s) \in S /\ Tail(s) \in Seq(S) /\ <<Head(s)>> \in Seq(S)
  BY HeadTailProperties
<1>2. s = <<Head(s)>> \o Tail(s)
  <2>. DEFINE u == <<Head(s)>> \o Tail(s)
  <2>1. /\ Len(Tail(s)) = Len(s) - 1 /\ Head(s) = s[1]
        /\ \A i \in 1 .. Len(Tail(s)) : Tail(s)[i] = s[i+1]
        /\ Len(s) \in Nat \ {0}
    BY HeadTailProperties, EmptySeq
  <2>2. /\ u \in Seq(S) /\ Len(u) = 1 + Len(Tail(s))
        /\ \A i \in 1..(1 + Len(Tail(s))) : u[i] = IF i <= 1 THEN Head(s) ELSE Tail(s)[i - 1]
    BY <1>1, ConcatProperties
  <2>. HIDE DEF u
  <2>3. Len(u) = Len(s) /\ \A i \in 1..Len(s) : u[i] = s[i]
    <3>1. Len(u) = Len(s)
      BY <2>1, <2>2
    <3>2. ASSUME NEW i \in 1..Len(s) PROVE u[i] = s[i]
      <4>1. CASE i = 1
        BY <2>1, <2>2, <4>1
      <4>2. CASE i # 1
        <5>1. i - 1 \in 1..Len(Tail(s)) /\ i \in 1..(1 + Len(Tail(s))) /\ ~(i <= 1) /\ (i - 1) + 1 = i
          BY <2>1, <4>2
        <5>2. u[i] = Tail(s)[i - 1]
          BY <2>2, <5>1
        <5>3. Tail(s)[i - 1] = s[(i - 1) + 1]
          BY <2>1, <5>1
        <5>. QED
          BY <5>1, <5>2, <5>3
      <4>. QED
        BY <4>1, <4>2
    <3>. QED
      BY <3>1, <3>2
  <2>4. u = s
    BY <2>2, <2>3, SeqEqual
  <2>. QED
    BY <2>4 DEF u
<1>3. /\ Count(s, V) = Count(<<Head(s)>>, V) + Count(Tail(s), V)
      /\ Elems(s) = Elems(<<Head(s)>>) \cup Elems(Tail(s))
  <2>1. /\ Count(<<Head(s)>> \o Tail(s), V) = Count(<<Head(s)>>, V) + Count(Tail(s), V)
        /\ Elems(<<Head(s)>> \o Tail(s)) = Elems(<<Head(s)>>) \cup Elems(Tail(s))
    BY <1>1, CountJoined
  <2>. QED
    BY <1>2, <2>1
<1>4. Count(Tail(s), V) \in Nat /\ One(Head(s), V) \in {0, 1}
  BY <1>1, CountType, OneType
<1>. QED
  BY <1>1, <1>3, <1>4, CountSingle

(* A sequence cut in two.                                                  *)
LEMMA CountCut ==
  ASSUME NEW S, NEW s \in Seq(S), NEW k \in 0..Len(s), NEW V
  PROVE  /\ SubSeq(s, 1, k) \in Seq(S) /\ SubSeq(s, k + 1, Len(s)) \in Seq(S)
         /\ Count(s, V) = Count(SubSeq(s, 1, k), V) + Count(SubSeq(s, k + 1, Len(s)), V)
         /\ Elems(s) = Elems(SubSeq(s, 1, k)) \cup Elems(SubSeq(s, k + 1, Len(s)))
<1>1. Len(s) \in Nat /\ \A i \in 1..Len(s) : s[i] \in S
  BY LenProperties, ElementOfSeq
<1>2. SubSeq(s, 1, k) \o SubSeq(s, k + 1, Len(s)) = SubSeq(s, 1, Len(s))
  <2>1. 1 \in 1..(Len(s) + 1) /\ k \in (1 - 1)..Len(s) /\ Len(s) \in k..Len(s)
    BY <1>1
  <2>. QED
    BY <2>1, ConcatAdjacentSubSeq
<1>3. SubSeq(s, 1, Len(s)) = s
  BY SubSeqFull
<1>4. SubSeq(s, 1, k) \in Seq(S) /\ SubSeq(s, k + 1, Len(s)) \in Seq(S)
  <2>1. \A i \in 1..k : s[i] \in S
    BY <1>1
  <2>2. \A i \in (k + 1)..Len(s) : s[i] \in S
    BY <1>1
  <2>. QED
    BY <1>1, <2>1, <2>2, SubSeqProperties
<1>. QED
  <2>. DEFINE a == SubSeq(s, 1, k)
              b == SubSeq(s, k + 1, Len(s))
  <2>1. a \o b = s
    BY <1>2, <1>3
  <2>2. a \in Seq(S) /\ b \in Seq(S)
    BY <1>4
  <2>. HIDE DEF a, b
  <2>3. Count(a \o b, V) = Count(a, V) + Count(b, V) /\ Elems(a \o b) = Elems(a) \cup Elems(b)
    BY <2>2, CountJoined
  <2>4. Count(s, V) = Count(a, V) + Count(b, V) /\ Elems(s) = Elems(a) \cup Elems(b)
    BY <2>1, <2>3
  <2>. QED
    BY <2>2, <2>4 DEF a, b

(* One less, somewhere.                                                    *)
LEMMA CountRemoved ==
  ASSUME NEW S, NEW s \in Seq(S), NEW i \in DOMAIN s, NEW V
  PROVE  /\ RemoveAt(s, i) \in Seq(S) /\ s[i] \in S
         /\ Count(s, V) = Count(RemoveAt(s, i), V) + One(s[i], V)
         /\ Elems(s) = Elems(RemoveAt(s, i)) \cup {s[i]}
<1>1. i \in 1..Len(s) /\ Len(s) \in Nat /\ s[i] \in S
  BY LenProperties, ElementOfSeq
<1>. DEFINE before == SubSeq(s, 1, i - 1)
            rest   == SubSeq(s, i, Len(s))
            after  == SubSeq(s, i + 1, Len(s))
<1>2. /\ before \in Seq(S) /\ rest \in Seq(S)
      /\ Count(s, V) = Count(before, V) + Count(rest, V)
      /\ Elems(s) = Elems(before) \cup Elems(rest)
  <2>1. i - 1 \in 0..Len(s) /\ (i - 1) + 1 = i
    BY <1>1
  <2>. QED
    BY <2>1, CountCut
<1>3. after \in Seq(S)
  <2>1. i \in 0..Len(s)
    BY <1>1
  <2>. QED
    BY <2>1, CountCut
<1>4. rest = <<s[i]>> \o after
  <2>1. Len(s) \in i..Len(s)
    BY <1>1
  <2>. QED
    BY <1>1, <2>1, SubSeqRecursiveFirst
<1>5. RemoveAt(s, i) = before \o after
  BY DEF RemoveAt
<1>. HIDE DEF before, rest, after
<1>6. <<s[i]>> \in Seq(S)
  BY <1>1
<1>7. /\ Count(rest, V) = One(s[i], V) + Count(after, V)
      /\ Elems(rest) = {s[i]} \cup Elems(after)
  <2>1. /\ Count(<<s[i]>> \o after, V) = Count(<<s[i]>>, V) + Count(after, V)
        /\ Elems(<<s[i]>> \o after) = Elems(<<s[i]>>) \cup Elems(after)
    BY <1>3, <1>6, CountJoined
  <2>2. Count(<<s[i]>>, V) = One(s[i], V) /\ Elems(<<s[i]>>) = {s[i]}
    BY CountSingle
  <2>. QED
    BY <1>4, <2>1, <2>2
<1>8. /\ Count(RemoveAt(s, i), V) = Count(before, V) + Count(after, V)
      /\ Elems(RemoveAt(s, i)) = Elems(before) \cup Elems(after)
      /\ RemoveAt(s, i) \in Seq(S)
  BY <1>2, <1>3, <1>5, CountJoined, ConcatProperties
<1>9. Count(before, V) \in Nat /\ Count(after, V) \in Nat /\ One(s[i], V) \in {0, 1}
  BY <1>2, <1>3, CountType, OneType
<1>. QED
  BY <1>1, <1>2, <1>7, <1>8, <1>9

(* What the four operations do to what a sequence holds.                   *)
LEMMA Elements ==
  ASSUME NEW S, NEW s \in Seq(S)
  PROVE  /\ \A t \in Seq(S) : Elems(s \o t) = Elems(s) \cup Elems(t)
         /\ \A x \in S : Elems(Append(s, x)) = Elems(s) \cup {x}
         /\ s # <<>> => Elems(s) = Elems(Tail(s)) \cup {Head(s)}
         /\ \A i \in DOMAIN s : Elems(s) = Elems(RemoveAt(s, i)) \cup {s[i]}
<1>1. ASSUME NEW t \in Seq(S) PROVE Elems(s \o t) = Elems(s) \cup Elems(t)
  <2>1. Count(s \o t, {}) = Count(s, {}) + Count(t, {}) /\ Elems(s \o t) = Elems(s) \cup Elems(t)
    BY CountJoined
  <2>. QED
    BY <2>1
<1>2. ASSUME NEW x \in S PROVE Elems(Append(s, x)) = Elems(s) \cup {x}
  <2>1. Count(Append(s, x), {}) = Count(s, {}) + One(x, {}) /\ Elems(Append(s, x)) = Elems(s) \cup {x}
    BY CountAppended
  <2>. QED
    BY <2>1
<1>3. ASSUME s # <<>> PROVE Elems(s) = Elems(Tail(s)) \cup {Head(s)}
  <2>1. /\ Count(s, {}) = Count(Tail(s), {}) + One(Head(s), {})
        /\ Elems(s) = Elems(Tail(s)) \cup {Head(s)}
    BY <1>3, CountTail
  <2>. QED
    BY <2>1
<1>4. ASSUME NEW i \in DOMAIN s PROVE Elems(s) = Elems(RemoveAt(s, i)) \cup {s[i]}
  <2>1. /\ Count(s, {}) = Count(RemoveAt(s, i), {}) + One(s[i], {})
        /\ Elems(s) = Elems(RemoveAt(s, i)) \cup {s[i]}
    BY CountRemoved
  <2>. QED
    BY <2>1
<1>. QED
  BY <1>1, <1>2, <1>3, <1>4

-----------------------------------------------------------------------------
(***************************************************************************)
(* The receives of a connection.                                           *)
(***************************************************************************)
InFlight == {"insert", "start"}

(* The openers do not share a channel, nor a descriptor while they insert  *)
(* it; what an opener is about to insert is not mapped, and what it has    *)
(* inserted is, and is not closing, until it asks for the first receive.   *)
OpenersApart ==
  /\ \A o, p \in Openers : o # p =>
       /\ opener[o].channel # NoChannel => opener[o].channel # opener[p].channel
       /\ opener[o].pc \in InFlight /\ opener[p].pc \in InFlight => opener[o].fd # opener[p].fd
  /\ \A o \in Openers :
       /\ opener[o].pc \in InFlight => opener[o].fd \in openFds
       /\ opener[o].pc = "insert" =>
            ~Mapped(opener[o].fd) /\ chan[opener[o].channel].state = "unused"
       /\ opener[o].pc = "start" =>
            /\ connections[opener[o].fd] = opener[o].channel
            /\ ~chan[opener[o].channel].closeFlag

(* A mapped descriptor is open, and its channel is mapped there only.      *)
MappedFds ==
  \A fd \in FDs : Mapped(fd) => fd \in openFds /\ chan[connections[fd]].fd = fd

(* A descriptor about to be closed is out of the map and not yet free.     *)
ClosingApart ==
  loopPc = "osClose" =>
    /\ closingFd \in openFds /\ ~Mapped(closingFd)
    /\ \A o \in Openers : opener[o].pc \in InFlight => opener[o].fd # closingFd

Apart == OpenersApart /\ MappedFds /\ ClosingApart

Listening(fd) ==
  /\ Mapped(fd)
  /\ ~chan[connections[fd]].closeFlag
  /\ \A o \in Openers : ~(opener[o].pc = "start" /\ opener[o].fd = fd)

(* The receives under way for a descriptor, as the lemmas count them.      *)
ReadsOf(fd) == {m \in Request \cup Completion : m.op = "READ" /\ m.fd = fd}

Tokens(fd) ==
  Count(recvQue, {fd}) + Count(sq, ReadsOf(fd)) + Count(kernel, ReadsOf(fd))
    + Count(cq, ReadsOf(fd))

OneToken == \A fd \in FDs : Tokens(fd) = IF Listening(fd) THEN 1 ELSE 0

ToKernel == Elems(sq) \cup Elems(kernel)
InRing   == ToKernel \cup Elems(cq)

Pointers == \A m \in InRing : m.op = "READ" => connections[m.fd] = m.channel

Targets ==
  \A m \in ToKernel : m.op = "READ" => m.len = Writable(chan[m.channel].readBuf)

ReadsInv == Apart /\ OneToken /\ Pointers /\ Targets /\ ReadAssertsHold

(* The four sequences hold what their types say.                           *)
LEMMA ElemsType ==
  ASSUME IInv
  PROVE  /\ Elems(recvQue) \subseteq FDs
         /\ ToKernel \subseteq Request /\ Elems(cq) \subseteq Completion
         /\ \A m \in InRing : m.fd \in FDs /\ m.channel \in Channels
<1>1. /\ \A i \in DOMAIN recvQue : recvQue[i] \in FDs
      /\ \A i \in DOMAIN sq : sq[i] \in Request
      /\ \A i \in DOMAIN kernel : kernel[i] \in Request
      /\ \A i \in DOMAIN cq : cq[i] \in Completion
  BY LenProperties, ElementOfSeq DEF IInv, TypeOK
<1>2. /\ Elems(recvQue) \subseteq FDs /\ Elems(sq) \subseteq Request
      /\ Elems(kernel) \subseteq Request /\ Elems(cq) \subseteq Completion
  BY <1>1 DEF Elems
<1>3. \A m \in Request \cup Completion : m.fd \in FDs /\ m.channel \in Channels
  BY DEF Request, Completion
<1>. QED
  BY <1>2, <1>3 DEF ToKernel, InRing

(* The parts of a count are numbers.                                       *)
LEMMA TokensType ==
  ASSUME IInv, NEW fd
  PROVE  /\ Count(recvQue, {fd}) \in Nat /\ Count(sq, ReadsOf(fd)) \in Nat
         /\ Count(kernel, ReadsOf(fd)) \in Nat /\ Count(cq, ReadsOf(fd)) \in Nat
         /\ Tokens(fd) \in Nat
<1>1. Count(recvQue, {fd}) \in Nat
  BY CountType DEF IInv, TypeOK
<1>2. Count(sq, ReadsOf(fd)) \in Nat
  BY CountType DEF IInv, TypeOK
<1>3. Count(kernel, ReadsOf(fd)) \in Nat
  BY CountType DEF IInv, TypeOK
<1>4. Count(cq, ReadsOf(fd)) \in Nat
  BY CountType DEF IInv, TypeOK
<1>. QED
  BY <1>1, <1>2, <1>3, <1>4 DEF Tokens

(* They are the positions ReadTokens counts.                               *)
LEMMA TokensAreReadTokens ==
  ASSUME IInv, NEW fd \in FDs
  PROVE  ReadTokens(fd) = Tokens(fd)
<1>1. {i \in DOMAIN recvQue : recvQue[i] = fd} = Places(recvQue, {fd})
  BY DEF Places
<1>2. ASSUME NEW s, \A i \in DOMAIN s : s[i] \in Request \cup Completion
      PROVE  {i \in DOMAIN s : s[i].op = "READ" /\ s[i].fd = fd} = Places(s, ReadsOf(fd))
  BY <1>2 DEF Places, ReadsOf
<1>3. /\ \A i \in DOMAIN sq : sq[i] \in Request
      /\ \A i \in DOMAIN kernel : kernel[i] \in Request
      /\ \A i \in DOMAIN cq : cq[i] \in Completion
  BY LenProperties, ElementOfSeq DEF IInv, TypeOK
<1>4. /\ {i \in DOMAIN sq : sq[i].op = "READ" /\ sq[i].fd = fd} = Places(sq, ReadsOf(fd))
      /\ {i \in DOMAIN kernel : kernel[i].op = "READ" /\ kernel[i].fd = fd}
           = Places(kernel, ReadsOf(fd))
      /\ {i \in DOMAIN cq : cq[i].op = "READ" /\ cq[i].fd = fd} = Places(cq, ReadsOf(fd))
  BY <1>2, <1>3
<1>. QED
  BY <1>1, <1>4 DEF ReadTokens, Positions, Tokens, Count

(* Without a receive under way there is none anywhere.                     *)
LEMMA NoToken ==
  ASSUME IInv, NEW fd \in FDs, Tokens(fd) = 0
  PROVE  fd \notin Elems(recvQue) /\ \A m \in InRing : m.op = "READ" => m.fd # fd
<1>1. /\ Count(recvQue, {fd}) = 0 /\ Count(sq, ReadsOf(fd)) = 0
      /\ Count(kernel, ReadsOf(fd)) = 0 /\ Count(cq, ReadsOf(fd)) = 0
  BY TokensType DEF Tokens
<1>2. Elems(recvQue) \cap {fd} = {}
  BY <1>1, CountType DEF IInv, TypeOK
<1>3. Elems(sq) \cap ReadsOf(fd) = {}
  BY <1>1, CountType DEF IInv, TypeOK
<1>4. Elems(kernel) \cap ReadsOf(fd) = {}
  BY <1>1, CountType DEF IInv, TypeOK
<1>5. Elems(cq) \cap ReadsOf(fd) = {}
  BY <1>1, CountType DEF IInv, TypeOK
<1>. QED
  BY <1>2, <1>3, <1>4, <1>5, ElemsType DEF ReadsOf, InRing, ToKernel

(* A receive under way has its descriptor mapped.                          *)
LEMMA TokenIsMapped ==
  ASSUME IInv, ReadsInv, NEW fd \in FDs,
         fd \in Elems(recvQue) \/ \E m \in InRing : m.op = "READ" /\ m.fd = fd
  PROVE  Listening(fd) /\ Tokens(fd) = 1
BY NoToken DEF ReadsInv, OneToken

(* A receive just taken from the completion ring was the only one.         *)
LEMMA ReadTaken ==
  ASSUME IInv, ReadsInv, cq # <<>>, Done.op = "READ"
  PROVE  /\ Done \in Completion /\ Done.fd \in FDs /\ Done.channel \in Channels
         /\ Tail(cq) \in Seq(Completion)
         /\ Listening(Done.fd) /\ connections[Done.fd] = Done.channel
         /\ Count(recvQue, {Done.fd}) = 0 /\ Count(sq, ReadsOf(Done.fd)) = 0
         /\ Count(kernel, ReadsOf(Done.fd)) = 0 /\ Count(Tail(cq), ReadsOf(Done.fd)) = 0
         /\ Done.fd \notin Elems(recvQue)
         /\ \A m \in ToKernel \cup Elems(Tail(cq)) : m.op = "READ" => m.fd # Done.fd
         /\ Elems(Tail(cq)) \subseteq Elems(cq)
         /\ \A fd \in FDs : fd # Done.fd => Count(Tail(cq), ReadsOf(fd)) = Count(cq, ReadsOf(fd))
<1>. DEFINE f == Done.fd
<1>1. /\ Done \in Completion /\ Tail(cq) \in Seq(Completion)
      /\ Elems(cq) = Elems(Tail(cq)) \cup {Done}
      /\ Count(cq, ReadsOf(f)) = Count(Tail(cq), ReadsOf(f)) + One(Done, ReadsOf(f))
  BY CountTail DEF IInv, TypeOK, Done
<1>2. f \in FDs /\ Done.channel \in Channels /\ One(Done, ReadsOf(f)) = 1
  BY <1>1 DEF Completion, ReadsOf, One
<1>3. Done \in InRing
  BY <1>1 DEF InRing
<1>4. Listening(f) /\ Tokens(f) = 1 /\ connections[f] = Done.channel
  BY <1>2, <1>3, TokenIsMapped DEF ReadsInv, Pointers
<1>5. Count(Tail(cq), ReadsOf(f)) \in Nat
  BY <1>1, CountType
<1>6. /\ Count(recvQue, {f}) = 0 /\ Count(sq, ReadsOf(f)) = 0
      /\ Count(kernel, ReadsOf(f)) = 0 /\ Count(Tail(cq), ReadsOf(f)) = 0
  <2>1. Count(cq, ReadsOf(f)) = Count(Tail(cq), ReadsOf(f)) + 1
    BY <1>1, <1>2
  <2>2. /\ Count(recvQue, {f}) \in Nat /\ Count(sq, ReadsOf(f)) \in Nat
        /\ Count(kernel, ReadsOf(f)) \in Nat
    BY TokensType
  <2>3. Count(recvQue, {f}) + Count(sq, ReadsOf(f)) + Count(kernel, ReadsOf(f))
          + (Count(Tail(cq), ReadsOf(f)) + 1) = 1
    BY <1>4, <2>1 DEF Tokens
  <2>. QED
    BY <1>5, <2>2, <2>3
<1>7. Elems(recvQue) \cap {f} = {}
  BY <1>6, CountType DEF IInv, TypeOK
<1>8. Elems(sq) \cap ReadsOf(f) = {}
  BY <1>6, CountType DEF IInv, TypeOK
<1>9. Elems(kernel) \cap ReadsOf(f) = {}
  BY <1>6, CountType DEF IInv, TypeOK
<1>10. Elems(Tail(cq)) \cap ReadsOf(f) = {}
  BY <1>1, <1>6, CountType
<1>11. \A m \in ToKernel \cup Elems(Tail(cq)) : m.op = "READ" => m.fd # f
  BY <1>1, <1>8, <1>9, <1>10, ElemsType DEF ReadsOf, ToKernel
<1>12. ASSUME NEW fd \in FDs, fd # f
       PROVE  Count(Tail(cq), ReadsOf(fd)) = Count(cq, ReadsOf(fd))
  <2>1. Count(cq, ReadsOf(fd)) = Count(Tail(cq), ReadsOf(fd)) + One(Done, ReadsOf(fd))
    BY CountTail DEF IInv, TypeOK, Done
  <2>2. One(Done, ReadsOf(fd)) = 0
    BY <1>12 DEF ReadsOf, One
  <2>3. Count(Tail(cq), ReadsOf(fd)) \in Nat
    BY <1>1, CountType
  <2>. QED
    BY <2>1, <2>2, <2>3
<1>. QED
  BY <1>1, <1>2, <1>4, <1>6, <1>7, <1>11, <1>12

(* Steps that leave the map and the openers alone, and of a channel all    *)
(* that the receives depend on.                                            *)
SameOpeners ==
  \A o \in Openers :
    /\ opener'[o].channel = opener[o].channel /\ opener'[o].fd = opener[o].fd
    /\ opener[o].pc \in InFlight \/ opener'[o].pc \in InFlight => opener'[o].pc = opener[o].pc

SameChannels ==
  \A c \in Channels :
    /\ chan'[c].fd = chan[c].fd
    /\ chan'[c].closeFlag = chan[c].closeFlag
    /\ chan'[c].readBuf = chan[c].readBuf
    /\ chan'[c].state = "unused" <=> chan[c].state = "unused"

SameMap == connections' = connections /\ openFds' = openFds

SameReads ==
  /\ \A fd \in FDs : Tokens(fd)' = Tokens(fd)
  /\ \A m \in InRing' : m.op = "READ" =>
       \E n \in InRing : n.op = "READ" /\ n.fd = m.fd /\ n.channel = m.channel
  /\ \A m \in ToKernel' : m.op = "READ" => m \in ToKernel

LEMMA ApartStays ==
  ASSUME IInv, Apart, SameMap, SameOpeners, SameChannels,
         loopPc' = "osClose" => loopPc = "osClose" /\ closingFd' = closingFd
  PROVE  Apart'
<1>1. \A o \in Openers : opener[o].pc \in InFlight =>
        opener[o].fd \in FDs /\ opener[o].channel \in Channels
  BY DEF IInv, ThreadsHoldChannels, InFlight
<1>2. \A fd \in FDs : Mapped(fd) => connections[fd] \in Channels
  BY DEF IInv, TypeOK, Mapped
<1>3. OpenersApart'
  BY <1>1 DEF Apart, OpenersApart, SameMap, SameOpeners, SameChannels, Mapped, InFlight
<1>4. MappedFds'
  BY <1>2 DEF Apart, MappedFds, SameMap, SameChannels, Mapped
<1>5. ClosingApart'
  BY DEF Apart, ClosingApart, SameMap, SameOpeners, Mapped
<1>. QED
  BY <1>3, <1>4, <1>5 DEF Apart

LEMMA ReadsStay ==
  ASSUME IInv, ReadsInv, SameMap, SameOpeners, SameChannels, SameReads,
         loopPc' = "osClose" => loopPc = "osClose" /\ closingFd' = closingFd,
         ReadAssertsHold'
  PROVE  ReadsInv'
<1>1. Apart'
  BY ApartStays DEF ReadsInv
<1>2. \A fd \in FDs : Listening(fd)' <=> Listening(fd)
  <2>1. \A fd \in FDs : Mapped(fd) => connections[fd] \in Channels
    BY DEF IInv, TypeOK, Mapped
  <2>. QED
    BY <2>1 DEF Listening, SameMap, SameOpeners, SameChannels, Mapped, InFlight
<1>3. OneToken'
  BY <1>2 DEF OneToken, ReadsInv, SameReads
<1>4. Pointers'
  BY DEF Pointers, ReadsInv, SameReads, SameMap
<1>5. Targets'
  <2>1. \A m \in ToKernel : m.channel \in Channels
    BY ElemsType DEF InRing
  <2>. QED
    BY <2>1 DEF Targets, ReadsInv, SameReads, SameChannels
<1>. QED
  BY <1>1, <1>3, <1>4, <1>5 DEF ReadsInv

(* Where neither the queue nor the ring changes, no receive does.          *)
LEMMA RingSameReads ==
  ASSUME UNCHANGED <<recvQue, sq, kernel, cq>>
  PROVE  SameReads
BY DEF SameReads, Tokens, InRing, ToKernel

(* A process that dies of anything else.                                   *)
LEMMA FailReads ==
  ASSUME IInv, ReadsInv, NEW place, Fail(place),
         place \notin {"addNewFd", "beginRecv", "readFind", "removeFd"}
  PROVE  ReadsInv'
<1>1. /\ UNCHANGED <<recvQue, sq, kernel, cq, connections, openFds, chan, opener, loopPc, closingFd>>
      /\ fault' = place
  BY DEF Fail, allButFault, connVars, queueVars, ringVars, loopVars, threadVars
<1>2. SameMap /\ SameOpeners /\ SameChannels /\ ReadAssertsHold'
  BY <1>1 DEF SameMap, SameOpeners, SameChannels, ReadAssertsHold
<1>. QED
  BY <1>1, <1>2, ReadsStay, RingSameReads

(* Taking the completion of a write off the ring changes no receive.       *)
LEMMA WriteTaken ==
  ASSUME IInv, cq # <<>>, Done.op = "WRITE", cq' = Tail(cq),
         UNCHANGED <<recvQue, sq, kernel>>
  PROVE  SameReads
<1>1. Elems(cq) = Elems(Tail(cq)) \cup {Done} /\ Tail(cq) \in Seq(Completion)
  BY CountTail DEF IInv, TypeOK, Done
<1>2. ASSUME NEW fd \in FDs
      PROVE  Count(cq', ReadsOf(fd)) = Count(cq, ReadsOf(fd))
  <2>1. Count(cq, ReadsOf(fd)) = Count(Tail(cq), ReadsOf(fd)) + One(Done, ReadsOf(fd))
    BY CountTail DEF IInv, TypeOK, Done
  <2>2. One(Done, ReadsOf(fd)) = 0
    BY DEF One, ReadsOf
  <2>3. Count(Tail(cq), ReadsOf(fd)) \in Nat
    BY <1>1, CountType
  <2>. QED
    BY <2>1, <2>2, <2>3
<1>3. \A fd \in FDs : Tokens(fd)' = Tokens(fd)
  BY <1>2 DEF Tokens
<1>. QED
  BY <1>1, <1>3 DEF SameReads, InRing, ToKernel

LEMMA InitReads == Init => ReadsInv
<1>. SUFFICES ASSUME Init PROVE ReadsInv
  OBVIOUS
<1>1. \A V : Count(<<>>, V) = 0 /\ Elems(<<>>) = {}
  BY CountSingle
<1>2. recvQue = <<>> /\ sq = <<>> /\ kernel = <<>> /\ cq = <<>>
  BY DEF Init
<1>3. InRing = {} /\ ToKernel = {} /\ \A fd : Tokens(fd) = 0
  BY <1>1, <1>2 DEF InRing, ToKernel, Tokens
<1>. QED
  BY <1>3 DEF Init, ReadsInv, Apart, OpenersApart, MappedFds, ClosingApart, OneToken, Listening,
              Mapped, InFlight, Pointers, Targets, ReadAssertsHold

(* The steps of the loop between the branches of eventLoop.                *)
LEMMA SubmitReads ==
  ASSUME IInv, ReadsInv, fault = "none", OsClose \/ EndOfCqes \/ Submit \/ SetErrno
  PROVE  ReadsInv'
<1>. USE DEF connVars, queueVars, ringVars, loopVars, threadVars, envVars
<1>1. CASE OsClose
  <2>1. /\ openFds' = openFds \ {closingFd} /\ loopPc = "osClose" /\ loopPc' = "cqe"
        /\ UNCHANGED <<connections, chan, recvQue, sq, kernel, cq, opener, fault>>
    BY <1>1 DEF OsClose
  <2>2. Apart'
    <3>1. \A fd \in FDs : Mapped(fd) => fd # closingFd
      BY <2>1 DEF ReadsInv, Apart, ClosingApart
    <3>2. \A o \in Openers : opener[o].pc \in InFlight => opener[o].fd # closingFd
      BY <2>1 DEF ReadsInv, Apart, ClosingApart
    <3>. QED
      BY <2>1, <3>1, <3>2 DEF ReadsInv, Apart, OpenersApart, MappedFds, ClosingApart, Mapped
  <2>3. OneToken' /\ Pointers' /\ Targets' /\ ReadAssertsHold'
    BY <2>1 DEF ReadsInv, OneToken, Tokens, Listening, Mapped, Pointers, Targets, InRing, ToKernel,
                ReadAssertsHold
  <2>. QED
    BY <2>2, <2>3 DEF ReadsInv
<1>2. CASE EndOfCqes \/ SetErrno
  <2>1. /\ UNCHANGED <<recvQue, sq, kernel, cq, connections, openFds, chan, opener, closingFd, fault>>
        /\ loopPc' = "osClose" => loopPc = "osClose"
    BY <1>2 DEF EndOfCqes, SetErrno
  <2>2. SameMap /\ SameOpeners /\ SameChannels /\ ReadAssertsHold'
    BY <2>1 DEF SameMap, SameOpeners, SameChannels, ReadAssertsHold, ReadsInv
  <2>. QED
    BY <2>1, <2>2, ReadsStay, RingSameReads
<1>3. CASE Submit
  <2>1. /\ kernel' = kernel \o sq /\ sq' = <<>> /\ loopPc' = "cqe"
        /\ UNCHANGED <<recvQue, cq, connections, openFds, chan, opener, closingFd, fault>>
    BY <1>3 DEF Submit
  <2>2. SameMap /\ SameOpeners /\ SameChannels /\ ReadAssertsHold'
    BY <2>1 DEF SameMap, SameOpeners, SameChannels, ReadAssertsHold, ReadsInv
  <2>3. ASSUME NEW V
        PROVE  /\ Count(kernel \o sq, V) = Count(kernel, V) + Count(sq, V)
               /\ Elems(kernel \o sq) = Elems(kernel) \cup Elems(sq)
    <3>1. kernel \in Seq(Request) /\ sq \in Seq(Request)
      BY DEF IInv, TypeOK
    <3>. QED
      BY <3>1, CountJoined
  <2>4. \A V : Count(<<>>, V) = 0 /\ Elems(<<>>) = {}
    BY CountSingle
  <2>5. \A fd \in FDs : Tokens(fd)' = Tokens(fd)
    BY <2>1, <2>3, <2>4, TokensType DEF Tokens
  <2>6. SameReads
    BY <2>1, <2>3, <2>4, <2>5 DEF SameReads, InRing, ToKernel
  <2>. QED
    BY <2>1, <2>2, <2>6, ReadsStay
<1>. QED
  BY <1>1, <1>2, <1>3

(* The application threads, and the last two steps of an opener.           *)
LEMMA SenderReads ==
  ASSUME IInv, ReadsInv, fault = "none", SenderStep
  PROVE  ReadsInv'
<1>1. /\ UNCHANGED <<recvQue, sq, kernel, cq, connections, openFds, opener, loopPc, closingFd, fault>>
      /\ SameChannels
  <2>1. PICK t \in Senders :
          \/ \E c \in Channels, n \in 1..MaxLen : SendBegin(t, c, n)
          \/ SendInput(t) \/ SendCount(t)
    BY DEF SenderStep
  <2>2. sender[t].pc # "idle" => sender[t].channel \in Channels
    BY DEF IInv, ThreadsHoldChannels
  <2>3. chan \in [Channels -> ChannelObject]
    BY DEF IInv, TypeOK
  <2>4. CASE \E c \in Channels, n \in 1..MaxLen : SendBegin(t, c, n)
    BY <2>4 DEF SendBegin, SameChannels, connVars, queueVars, ringVars, loopVars
  <2>5. CASE SendInput(t)
    <3>. DEFINE c  == sender[t].channel
                sb == Input(chan[c].sendBuf, sender[t].len)
    <3>1. /\ chan' = [chan EXCEPT ![c].sendBuf = sb] /\ c \in Channels
          /\ UNCHANGED <<recvQue, sq, kernel, cq, connections, openFds, opener, loopPc, closingFd, fault>>
      BY <2>2, <2>5 DEF SendInput, connVars, ringVars, loopVars
    <3>. HIDE DEF sb, c
    <3>2. SameChannels
      BY <2>3, <3>1 DEF SameChannels, ChannelObject
    <3>. QED
      BY <3>1, <3>2
  <2>6. CASE SendCount(t)
    <3>. DEFINE c  == sender[t].channel
    <3>1. /\ chan' = [chan EXCEPT ![c] = Counted(chan[c])] /\ c \in Channels
          /\ UNCHANGED <<recvQue, sq, kernel, cq, connections, openFds, opener, loopPc, closingFd, fault>>
      BY <2>2, <2>6 DEF SendCount, connVars, queueVars, ringVars, loopVars
    <3>. HIDE DEF c
    <3>2. SameChannels
      BY <2>3, <3>1 DEF SameChannels, ChannelObject, Counted
    <3>. QED
      BY <3>1, <3>2
  <2>. QED
    BY <2>1, <2>4, <2>5, <2>6
<1>2. SameMap /\ SameOpeners /\ ReadAssertsHold'
  BY <1>1 DEF SameMap, SameOpeners, ReadAssertsHold, ReadsInv
<1>. QED
  BY <1>1, <1>2, ReadsStay, RingSameReads

(* The kernel answers a request: a receive goes from it to the ring.       *)
LEMMA CompleteReads ==
  ASSUME IInv, ReadsInv, NEW i \in DOMAIN kernel, NEW res \in -1..BufSize, Complete(i, res)
  PROVE  ReadsInv'
<1>. DEFINE req  == kernel[i]
            done == [op |-> req.op, fd |-> req.fd, channel |-> req.channel, res |-> res]
<1>1. /\ kernel' = RemoveAt(kernel, i) /\ cq' = Append(cq, done)
      /\ UNCHANGED <<recvQue, sq, connections, openFds, chan, opener, loopPc, closingFd, fault>>
  BY DEF Complete, connVars, queueVars, loopVars, threadVars
<1>2. req \in Request
  BY CountRemoved DEF IInv, TypeOK
<1>3. done \in Completion
  BY <1>2, UringAssumption DEF Request, Completion
<1>4. \A fd : One(done, ReadsOf(fd)) = One(req, ReadsOf(fd))
  BY <1>2, <1>3 DEF One, ReadsOf
<1>5. done.op = req.op /\ done.fd = req.fd /\ done.channel = req.channel
  OBVIOUS
<1>. HIDE DEF done
<1>6. ASSUME NEW fd \in FDs PROVE Tokens(fd)' = Tokens(fd)
  <2>1. /\ RemoveAt(kernel, i) \in Seq(Request)
        /\ Count(kernel, ReadsOf(fd)) = Count(RemoveAt(kernel, i), ReadsOf(fd)) + One(req, ReadsOf(fd))
    BY CountRemoved DEF IInv, TypeOK
  <2>2. Count(Append(cq, done), ReadsOf(fd)) = Count(cq, ReadsOf(fd)) + One(done, ReadsOf(fd))
    BY <1>3, CountAppended DEF IInv, TypeOK
  <2>3. Count(RemoveAt(kernel, i), ReadsOf(fd)) \in Nat /\ One(done, ReadsOf(fd)) \in {0, 1}
    BY <2>1, CountType, OneType
  <2>4. /\ Count(kernel', ReadsOf(fd)) \in Nat
        /\ Count(kernel, ReadsOf(fd)) = Count(kernel', ReadsOf(fd)) + One(req, ReadsOf(fd))
        /\ Count(cq', ReadsOf(fd)) = Count(cq, ReadsOf(fd)) + One(req, ReadsOf(fd))
        /\ One(req, ReadsOf(fd)) \in {0, 1}
    BY <1>1, <1>4, <2>1, <2>2, <2>3
  <2>5. /\ Count(recvQue, {fd}) \in Nat /\ Count(sq, ReadsOf(fd)) \in Nat
        /\ Count(cq, ReadsOf(fd)) \in Nat
    BY TokensType
  <2>6. Tokens(fd)' = Count(recvQue, {fd}) + Count(sq, ReadsOf(fd))
                          + Count(kernel', ReadsOf(fd)) + Count(cq', ReadsOf(fd))
    BY <1>1 DEF Tokens
  <2>. HIDE DEF req
  <2>. QED
    BY <2>4, <2>5, <2>6 DEF Tokens
<1>7. Elems(kernel) = Elems(kernel') \cup {req} /\ Elems(cq') = Elems(cq) \cup {done}
  <2>1. Elems(kernel) = Elems(RemoveAt(kernel, i)) \cup {req}
    BY Elements DEF IInv, TypeOK
  <2>2. Elems(Append(cq, done)) = Elems(cq) \cup {done}
    BY <1>3, Elements DEF IInv, TypeOK
  <2>. QED
    BY <1>1, <2>1, <2>2
<1>8. SameReads
  <2>1. \A m \in ToKernel' : m \in ToKernel
    BY <1>1, <1>7 DEF ToKernel
  <2>2. \A m \in InRing' : m \in InRing \/ m = done
    BY <1>7, <2>1 DEF InRing
  <2>3. req \in InRing
    BY <1>7 DEF InRing, ToKernel
  <2>. QED
    BY <1>5, <1>6, <2>1, <2>2, <2>3 DEF SameReads
<1>9. SameMap /\ SameOpeners /\ SameChannels /\ ReadAssertsHold'
  BY <1>1 DEF SameMap, SameOpeners, SameChannels, ReadAssertsHold, ReadsInv
<1>. QED
  BY <1>1, <1>8, <1>9, ReadsStay

(* beginSend prepares writes only.                                         *)
LEMMA BeginSendReads ==
  ASSUME IInv, ReadsInv, fault = "none", BeginSend
  PROVE  ReadsInv'
<1>. DEFINE k   == Batch(sendQue)
            new == [i \in 1..k |-> WriteRequest(sendQue[i])]
<1>1. CASE Fail("beginSend")
  BY <1>1, FailReads
<1>2. CASE ~Fail("beginSend")
  <2>1. /\ \A i \in 1..k : Mapped(sendQue[i].fd)
        /\ sq' = sq \o new /\ loopPc' = "submit"
        /\ UNCHANGED <<recvQue, kernel, cq, connections, openFds, chan, opener, closingFd, fault>>
    BY <1>2 DEF BeginSend, connVars, threadVars
  <2>2. k \in Nat /\ \A i \in 1..k : sendQue[i] \in Pending
    BY BatchType DEF IInv, TypeOK
  <2>3. \A i \in 1..k : new[i] \in Request /\ new[i].op = "WRITE"
    <3>1. ASSUME NEW item \in Pending, Mapped(item.fd)
          PROVE  WriteRequest(item) \in Request /\ WriteRequest(item).op = "WRITE"
      BY <3>1 DEF IInv, TypeOK, Mapped, Pending, WriteRequest, Request
    <3>. QED
      BY <2>1, <2>2, <3>1
  <2>4. new \in Seq(Request) /\ sq \in Seq(Request)
    <3>1. \A i \in 1..k : WriteRequest(sendQue[i]) \in Request
      BY <2>3
    <3>2. new \in Seq(Request)
      BY <2>2, <3>1
    <3>. QED
      BY <3>2 DEF IInv, TypeOK
  <2>5. \A m \in Elems(new) : m.op = "WRITE"
    BY <2>2, <2>3 DEF Elems
  <2>. HIDE DEF k, new
  <2>6. ASSUME NEW fd \in FDs
        PROVE  Count(sq', ReadsOf(fd)) = Count(sq, ReadsOf(fd))
    <3>1. Count(sq \o new, ReadsOf(fd)) = Count(sq, ReadsOf(fd)) + Count(new, ReadsOf(fd))
      BY <2>4, CountJoined
    <3>2. Elems(new) \cap ReadsOf(fd) = {}
      BY <2>5 DEF ReadsOf
    <3>3. Count(new, ReadsOf(fd)) = 0
      BY <2>4, <3>2, CountType
    <3>4. Count(sq, ReadsOf(fd)) \in Nat
      BY TokensType
    <3>. QED
      BY <2>1, <3>1, <3>3, <3>4
  <2>7. Elems(sq') = Elems(sq) \cup Elems(new)
    BY <2>1, <2>4, Elements
  <2>8. SameReads
    BY <2>1, <2>5, <2>6, <2>7 DEF SameReads, Tokens, InRing, ToKernel
  <2>9. SameMap /\ SameOpeners /\ SameChannels /\ ReadAssertsHold'
    BY <2>1 DEF SameMap, SameOpeners, SameChannels, ReadAssertsHold, ReadsInv
  <2>. QED
    BY <2>1, <2>8, <2>9, ReadsStay
<1>. QED
  BY <1>1, <1>2

(* beginRecv moves receives from the queue to the ring; each finds its     *)
(* channel, and names it and the room in its buffer.                       *)
LEMMA BeginRecvReads ==
  ASSUME IInv, ReadsInv, fault = "none", BeginRecv
  PROVE  ReadsInv'
<1>. DEFINE k    == Batch(recvQue)
            took == SubSeq(recvQue, 1, k)
            left == SubSeq(recvQue, k + 1, Len(recvQue))
            new  == [i \in 1..k |-> ReadRequest(recvQue[i])]
<1>1. /\ k \in 0..Len(recvQue) /\ recvQue \in Seq(FDs) /\ Len(recvQue) \in Nat
      /\ \A i \in 1..k : recvQue[i] \in FDs /\ recvQue[i] \in Elems(recvQue)
  <2>1. k \in Nat /\ k <= Len(recvQue) /\ recvQue \in Seq(FDs) /\ \A i \in 1..k : recvQue[i] \in FDs
    BY BatchType DEF IInv, TypeOK
  <2>2. Len(recvQue) \in Nat /\ DOMAIN recvQue = 1..Len(recvQue)
    BY LenProperties DEF IInv, TypeOK
  <2>. QED
    BY <2>1, <2>2 DEF Elems
<1>2. \A i \in 1..k : Listening(recvQue[i]) /\ Mapped(recvQue[i])
  BY <1>1, TokenIsMapped DEF Listening
<1>3. /\ sq' = sq \o new /\ recvQue' = left /\ loopPc' = "send"
      /\ UNCHANGED <<kernel, cq, connections, openFds, chan, opener, closingFd, fault>>
  BY <1>2 DEF BeginRecv, Left, connVars, threadVars
<1>4. \A fd \in FDs : Mapped(fd) => connections[fd] \in Channels
  BY DEF IInv, TypeOK, Mapped
<1>5. ASSUME NEW fd \in FDs, Mapped(fd)
      PROVE  /\ ReadRequest(fd) \in Request
             /\ ReadRequest(fd).op = "READ" /\ ReadRequest(fd).fd = fd
             /\ ReadRequest(fd).channel = connections[fd]
             /\ ReadRequest(fd).len = Writable(chan[connections[fd]].readBuf)
  <2>1. connections[fd] \in Channels
    BY <1>4, <1>5
  <2>2. chan[connections[fd]].readBuf \in Buffers
    BY <2>1, ChannelType DEF IInv, TypeOK
  <2>3. Writable(chan[connections[fd]].readBuf) \in Int
    BY <2>2, BufferType
  <2>. QED
    BY <2>1, <2>3 DEF ReadRequest, Request
<1>6. /\ new \in Seq(Request) /\ sq \in Seq(Request) /\ DOMAIN new = 1..k /\ Len(new) = k
      /\ \A i \in 1..k : /\ new[i].op = "READ" /\ new[i].fd = recvQue[i] /\ new[i] \in Request
                         /\ new[i].channel = connections[new[i].fd]
                         /\ new[i].len = Writable(chan[new[i].channel].readBuf)
  <2>1. \A i \in 1..k : ReadRequest(recvQue[i]) \in Request
    BY <1>1, <1>2, <1>5
  <2>2. new \in Seq(Request) /\ DOMAIN new = 1..k /\ Len(new) = k
    BY <1>1, <2>1
  <2>3. ASSUME NEW i \in 1..k
        PROVE  /\ new[i].op = "READ" /\ new[i].fd = recvQue[i] /\ new[i] \in Request
               /\ new[i].channel = connections[new[i].fd]
               /\ new[i].len = Writable(chan[new[i].channel].readBuf)
    <3>1. new[i] = ReadRequest(recvQue[i]) /\ recvQue[i] \in FDs /\ Mapped(recvQue[i])
      BY <1>1, <1>2
    <3>. HIDE DEF new
    <3>. QED
      BY <1>5, <3>1
  <2>4. sq \in Seq(Request)
    BY DEF IInv, TypeOK
  <2>. QED
    BY <2>2, <2>3, <2>4
<1>7. took \in Seq(FDs) /\ DOMAIN took = 1..k /\ \A i \in 1..k : took[i] = recvQue[i]
  <2>1. /\ took \in Seq(FDs) /\ Len(took) = IF 1 <= k THEN k - 1 + 1 ELSE 0
        /\ \A i \in 1..(k - 1 + 1) : took[i] = recvQue[1 + i - 1]
    BY <1>1, SubSeqProperties
  <2>2. DOMAIN took = 1..Len(took)
    BY <2>1, LenProperties
  <2>3. Len(took) = k /\ k - 1 + 1 = k /\ \A i \in 1..k : 1 + i - 1 = i
    BY <1>1, <2>1
  <2>. QED
    BY <2>1, <2>2, <2>3
<1>8. \A m \in Elems(new) : /\ m.op = "READ" => connections[m.fd] = m.channel
                            /\ m.op = "READ" => m.len = Writable(chan[m.channel].readBuf)
  BY <1>6 DEF Elems
<1>9. \A fd \in FDs : Places(new, ReadsOf(fd)) = Places(took, {fd})
  BY <1>6, <1>7 DEF Places, ReadsOf
<1>. HIDE DEF k, took, left, new
<1>10. ASSUME NEW fd \in FDs PROVE Tokens(fd)' = Tokens(fd)
  <2>1. /\ left \in Seq(FDs)
        /\ Count(recvQue, {fd}) = Count(took, {fd}) + Count(left, {fd})
    BY <1>1, CountCut DEF took, left
  <2>2. Count(sq \o new, ReadsOf(fd)) = Count(sq, ReadsOf(fd)) + Count(new, ReadsOf(fd))
    BY <1>6, CountJoined
  <2>3. Count(new, ReadsOf(fd)) = Count(took, {fd})
    BY <1>9 DEF Count
  <2>4. Count(took, {fd}) \in Nat
    BY <1>7, CountType
  <2>5. Count(left, {fd}) \in Nat
    BY <2>1, CountType
  <2>6. Tokens(fd)' = Count(left, {fd}) + Count(sq \o new, ReadsOf(fd)) + Count(kernel, ReadsOf(fd))
                        + Count(cq, ReadsOf(fd))
    BY <1>3 DEF Tokens
  <2>. QED
    BY <2>1, <2>2, <2>3, <2>4, <2>5, <2>6, TokensType DEF Tokens
<1>11. Elems(sq') = Elems(sq) \cup Elems(new)
  BY <1>3, <1>6, Elements
<1>12. \A fd \in FDs : Listening(fd)' <=> Listening(fd)
  BY <1>3 DEF Listening, Mapped
<1>13. OneToken'
  BY <1>10, <1>12 DEF OneToken, ReadsInv
<1>14. Pointers' /\ Targets'
  BY <1>3, <1>8, <1>11 DEF Pointers, Targets, InRing, ToKernel, ReadsInv
<1>15. Apart' /\ ReadAssertsHold'
  BY <1>3 DEF ReadsInv, Apart, OpenersApart, MappedFds, ClosingApart, Mapped, ReadAssertsHold
<1>. QED
  BY <1>13, <1>14, <1>15 DEF ReadsInv

(* A channel is marked for closing, or taken out of the map: that is the   *)
(* end of the receives on its descriptor, and of nothing else.             *)
LEMMA ChannelEnds ==
  ASSUME IInv, ReadsInv, NEW fd \in FDs, NEW c \in Channels, connections[fd] = c,
         NEW new, chan' = [chan EXCEPT ![c] = new], new.fd = chan[c].fd,
         new.state = "unused" <=> chan[c].state = "unused",
         \A o \in Openers : ~(opener[o].pc = "start" /\ opener[o].fd = fd),
         Tokens(fd)' = 0, \A f \in FDs : f # fd => Tokens(f)' = Tokens(f),
         InRing' \subseteq InRing, ToKernel' \subseteq ToKernel,
         \A m \in InRing' : m.op = "READ" => m.fd # fd,
         UNCHANGED <<openFds, opener, fault>>,
         \/ new.closeFlag /\ connections' = connections /\ loopPc' # "osClose"
         \/ connections' = Unmapped(fd) /\ closingFd' = fd /\ loopPc' = "osClose"
  PROVE  ReadsInv'
<1>1. /\ Mapped(fd) /\ fd \in openFds /\ chan[c].fd = fd
      /\ connections \in [FDs -> Channels \cup {NoChannel}]
      /\ chan \in [Channels -> ChannelObject]
  BY UringAssumption DEF ReadsInv, Apart, MappedFds, Mapped, IInv, TypeOK
<1>2. \A f \in FDs : f # fd /\ Mapped(f) => connections[f] \in Channels /\ connections[f] # c
  BY <1>1 DEF ReadsInv, Apart, MappedFds, Mapped
<1>3. \A d \in Channels : d # c => chan'[d] = chan[d]
  BY <1>1
<1>4. /\ chan'[c].fd = chan[c].fd
      /\ chan'[c].state = "unused" <=> chan[c].state = "unused"
  BY <1>1
<1>5. \A f \in FDs : /\ f # fd => connections'[f] = connections[f]
                     /\ connections'[f] \in {connections[f], NoChannel}
  BY <1>1 DEF Unmapped
<1>6. \A o \in Openers : opener[o].pc \in InFlight =>
        opener[o].fd \in FDs /\ opener[o].channel \in Channels
  BY DEF IInv, ThreadsHoldChannels, InFlight
<1>7. \A o \in Openers : opener[o].pc \in InFlight => opener[o].fd # fd
  BY <1>1 DEF InFlight, ReadsInv, Apart, OpenersApart
<1>8. OpenersApart'
  <2>1. ASSUME NEW o \in Openers, opener[o].pc = "start"
        PROVE  /\ connections'[opener[o].fd] = opener[o].channel
               /\ ~chan'[opener[o].channel].closeFlag
    <3>1. /\ connections[opener[o].fd] = opener[o].channel /\ ~chan[opener[o].channel].closeFlag
          /\ opener[o].fd \in FDs /\ opener[o].channel \in Channels /\ opener[o].fd # fd
      BY <1>6, <1>7, <2>1 DEF ReadsInv, Apart, OpenersApart, InFlight
    <3>2. opener[o].channel # c
      BY <1>2, <3>1, UringAssumption DEF Mapped
    <3>. QED
      BY <1>3, <1>5, <3>1, <3>2
  <2>2. ASSUME NEW o \in Openers, opener[o].pc = "insert"
        PROVE  ~Mapped(opener[o].fd)' /\ chan'[opener[o].channel].state = "unused"
    <3>1. /\ ~Mapped(opener[o].fd) /\ chan[opener[o].channel].state = "unused"
          /\ opener[o].fd \in FDs /\ opener[o].channel \in Channels
      BY <1>6, <2>2 DEF ReadsInv, Apart, OpenersApart, InFlight
    <3>. QED
      BY <1>3, <1>4, <1>5, <3>1 DEF Mapped
  <2>. QED
    BY <2>1, <2>2 DEF OpenersApart, ReadsInv, Apart, Mapped
<1>9. MappedFds'
  BY <1>1, <1>2, <1>3, <1>4, <1>5 DEF ReadsInv, Apart, MappedFds, Mapped
<1>10. ClosingApart'
  BY <1>1, <1>7 DEF ClosingApart, Mapped, Unmapped
<1>11. ~Listening(fd)'
  BY <1>1 DEF Listening, Mapped, Unmapped
<1>12. \A f \in FDs : f # fd => (Listening(f)' <=> Listening(f))
  BY <1>2, <1>3, <1>5 DEF Listening, Mapped
<1>13. OneToken'
  BY <1>11, <1>12 DEF OneToken, ReadsInv
<1>14. Pointers'
  BY <1>5, ElemsType DEF Pointers, ReadsInv
<1>15. Targets'
  <2>1. ASSUME NEW m \in ToKernel', m.op = "READ"
        PROVE  m.len = Writable(chan'[m.channel].readBuf)
    <3>1. m \in ToKernel /\ m \in InRing /\ m \in InRing'
      BY DEF InRing
    <3>2. m.fd \in FDs /\ m.channel \in Channels /\ m.fd # fd /\ connections[m.fd] = m.channel
      BY <2>1, <3>1, ElemsType DEF ReadsInv, Pointers
    <3>3. m.channel # c
      BY <1>2, <3>2, UringAssumption DEF Mapped
    <3>. QED
      BY <1>3, <2>1, <3>1, <3>2, <3>3 DEF ReadsInv, Targets
  <2>. QED
    BY <2>1 DEF Targets
<1>16. ReadAssertsHold'
  BY DEF ReadsInv, ReadAssertsHold
<1>. QED
  BY <1>8, <1>9, <1>10, <1>13, <1>14, <1>15, <1>16 DEF ReadsInv, Apart

(* What close() does to a channel that is mapped.                          *)
LEMMA CloseIsEnd ==
  ASSUME NEW c, NEW fd, NEW ch, Close(c, fd, ch), loopPc = "cqe"
  PROVE  \E new : /\ chan' = [chan EXCEPT ![c] = new]
                  /\ new \in {[ch EXCEPT !.closeFlag = TRUE],
                              [ch EXCEPT !.task = "freed", !.state = "gone"]}
                  /\ fault' = fault
                  /\ \/ /\ new = [ch EXCEPT !.closeFlag = TRUE]
                        /\ connections' = connections /\ loopPc' # "osClose"
                     \/ /\ new = [ch EXCEPT !.task = "freed", !.state = "gone"]
                        /\ connections' = Unmapped(fd) /\ closingFd' = fd /\ loopPc' = "osClose"
BY DEF Close

(* The tokens of a descriptor after its receive was taken from the ring.   *)
LEMMA TakenTokens ==
  ASSUME IInv, ReadsInv, cq # <<>>, Done.op = "READ", cq' = Tail(cq),
         UNCHANGED <<recvQue, sq, kernel>>, NEW fd \in FDs, fd = Done.fd
  PROVE  /\ Tokens(fd)' = 0
         /\ \A f \in FDs : f # fd => Tokens(f)' = Tokens(f)
         /\ InRing' \subseteq InRing /\ ToKernel' \subseteq ToKernel
         /\ \A m \in InRing' : m.op = "READ" => m.fd # fd
<1>1. /\ Count(recvQue, {fd}) = 0 /\ Count(sq, ReadsOf(fd)) = 0
      /\ Count(kernel, ReadsOf(fd)) = 0 /\ Count(Tail(cq), ReadsOf(fd)) = 0
      /\ \A f \in FDs : f # fd => Count(Tail(cq), ReadsOf(f)) = Count(cq, ReadsOf(f))
      /\ Elems(Tail(cq)) \subseteq Elems(cq)
      /\ \A m \in ToKernel \cup Elems(Tail(cq)) : m.op = "READ" => m.fd # fd
  BY ReadTaken
<1>2. ToKernel' = ToKernel /\ InRing' = ToKernel \cup Elems(Tail(cq))
  BY DEF ToKernel, InRing
<1>3. Tokens(fd)' = 0
  BY <1>1 DEF Tokens
<1>4. \A f \in FDs : f # fd => Tokens(f)' = Tokens(f)
  BY <1>1 DEF Tokens
<1>. QED
  BY <1>1, <1>2, <1>3, <1>4 DEF InRing

LEMMA ReadEndReads ==
  ASSUME IInv, ReadsInv, fault = "none", loopPc = "cqe", cq # <<>>, Done.op = "READ", ReadEnd
  PROVE  ReadsInv'
<1>1. PICK fd \in FDs, c \in Channels :
        /\ fd = Done.fd /\ c = Done.channel /\ connections[fd] = c /\ Listening(fd)
  BY ReadTaken
<1>2. CASE CloseFaults(c, fd, chan[c])
  BY <1>1, <1>2, FailReads DEF CloseFaults
<1>3. CASE /\ Close(c, fd, chan[c]) /\ cq' = Tail(cq)
           /\ UNCHANGED <<openFds, queueVars, sq, kernel, threadVars, envVars>>
  <2>1. UNCHANGED <<recvQue, sq, kernel, openFds, opener>>
    BY <1>3 DEF queueVars, threadVars
  <2>2. PICK new : /\ chan' = [chan EXCEPT ![c] = new]
                   /\ new \in {[chan[c] EXCEPT !.closeFlag = TRUE],
                               [chan[c] EXCEPT !.task = "freed", !.state = "gone"]}
                   /\ fault' = fault
                   /\ \/ /\ new = [chan[c] EXCEPT !.closeFlag = TRUE]
                         /\ connections' = connections /\ loopPc' # "osClose"
                      \/ /\ new = [chan[c] EXCEPT !.task = "freed", !.state = "gone"]
                         /\ connections' = Unmapped(fd) /\ closingFd' = fd
                         /\ loopPc' = "osClose"
    BY <1>3, CloseIsEnd
  <2>3. chan[c] \in ChannelObject /\ chan[c].state # "unused"
    BY <1>1 DEF IInv, TypeOK, ThreadsHoldChannels, Listening
  <2>4. /\ new.fd = chan[c].fd /\ new.state # "unused"
        /\ new = [chan[c] EXCEPT !.closeFlag = TRUE] => new.closeFlag
    BY <2>2, <2>3 DEF ChannelObject
  <2>5. \A o \in Openers : ~(opener[o].pc = "start" /\ opener[o].fd = fd)
    BY <1>1 DEF Listening
  <2>6. \/ new.closeFlag /\ connections' = connections /\ loopPc' # "osClose"
        \/ connections' = Unmapped(fd) /\ closingFd' = fd /\ loopPc' = "osClose"
    BY <2>2, <2>4
  <2>7. /\ Tokens(fd)' = 0 /\ \A f \in FDs : f # fd => Tokens(f)' = Tokens(f)
        /\ InRing' \subseteq InRing /\ ToKernel' \subseteq ToKernel
        /\ \A m \in InRing' : m.op = "READ" => m.fd # fd
    BY <1>1, <1>3, <2>1, TakenTokens
  <2>. QED
    BY <1>1, <2>1, <2>2, <2>3, <2>4, <2>5, <2>6, <2>7, ChannelEnds
<1>. QED
  BY <1>1, <1>2, <1>3 DEF ReadEnd

LEMMA ReadEmptyReads ==
  ASSUME IInv, ReadsInv, fault = "none", loopPc = "cqe", cq # <<>>, Done.op = "READ", ReadEmpty
  PROVE  ReadsInv'
<1>1. PICK fd \in FDs, c \in Channels :
        /\ fd = Done.fd /\ c = Done.channel /\ connections[fd] = c /\ Listening(fd)
  BY ReadTaken
<1>2. PICK ch : ch = [chan[c] EXCEPT !.readBuf = Already(@, Done.res)]
  OBVIOUS
<1>3. CASE Fail("destroyRunning")
  BY <1>3, FailReads
<1>4. CASE /\ chan' = [chan EXCEPT ![c] = [ch EXCEPT !.closeFlag = TRUE, !.task = "freed"]]
           /\ cq' = Tail(cq)
           /\ UNCHANGED <<connVars, queueVars, sq, kernel, loopPc, closingFd, threadVars, envVars, fault>>
  <2>1. /\ UNCHANGED <<recvQue, sq, kernel, openFds, opener, fault>>
        /\ connections' = connections /\ loopPc' # "osClose"
    BY <1>4 DEF connVars, queueVars, threadVars
  <2>2. PICK new : new = [ch EXCEPT !.closeFlag = TRUE, !.task = "freed"]
    OBVIOUS
  <2>3. new.fd = chan[c].fd /\ new.state = chan[c].state /\ new.closeFlag
    <3>1. chan[c] \in ChannelObject
      BY <1>1 DEF IInv, TypeOK
    <3>. QED
      BY <1>2, <2>2, <3>1 DEF ChannelObject
  <2>4. chan' = [chan EXCEPT ![c] = new]
    BY <1>4, <2>2
  <2>5. \A o \in Openers : ~(opener[o].pc = "start" /\ opener[o].fd = fd)
    BY <1>1 DEF Listening
  <2>6. /\ Tokens(fd)' = 0 /\ \A f \in FDs : f # fd => Tokens(f)' = Tokens(f)
        /\ InRing' \subseteq InRing /\ ToKernel' \subseteq ToKernel
        /\ \A m \in InRing' : m.op = "READ" => m.fd # fd
    BY <1>1, <1>4, <2>1, TakenTokens
  <2>. QED
    BY <1>1, <2>1, <2>3, <2>4, <2>5, <2>6, ChannelEnds
<1>. QED
  BY <1>1, <1>2, <1>3, <1>4 DEF ReadEmpty

(* Data: the handler empties the read buffer, and only then is the next    *)
(* receive asked for.                                                      *)
LEMMA ReadDataReads ==
  ASSUME IInv, ReadsInv, fault = "none", loopPc = "cqe", cq # <<>>, Done.op = "READ", ReadData
  PROVE  ReadsInv'
<1>. DEFINE c  == Done.channel
            f  == Done.fd
            ch == [chan[c] EXCEPT !.readBuf = Already(@, Done.res)]
<1>1. /\ f \in FDs /\ c \in Channels /\ connections[f] = c /\ Listening(f)
      /\ Tail(cq) \in Seq(Completion) /\ Elems(Tail(cq)) \subseteq Elems(cq)
      /\ Count(recvQue, {f}) = 0 /\ Count(sq, ReadsOf(f)) = 0
      /\ Count(kernel, ReadsOf(f)) = 0 /\ Count(Tail(cq), ReadsOf(f)) = 0
      /\ \A m \in ToKernel \cup Elems(Tail(cq)) : m.op = "READ" => m.fd # f
      /\ \A g \in FDs : g # f => Count(Tail(cq), ReadsOf(g)) = Count(cq, ReadsOf(g))
  BY ReadTaken
<1>2. PICK k \in 0..Readable(ch.readBuf), n \in 0..MaxLen : Handle(c, f, ch, k, n)
  BY DEF ReadData
<1>3. /\ cq' = Tail(cq) /\ recvQue' = Append(recvQue, f)
      /\ UNCHANGED <<openFds, connections, sq, kernel, loopPc, closingFd, opener, fault>>
  BY <1>2 DEF ReadData, Handle, connVars, threadVars
<1>4. PICK new : /\ chan' = [chan EXCEPT ![c] = new]
                 /\ new.fd = chan[c].fd /\ new.closeFlag = chan[c].closeFlag
                 /\ new.state = chan[c].state
  <2>1. chan[c] \in ChannelObject
    BY <1>1 DEF IInv, TypeOK
  <2>. DEFINE rb  == EraseData(ch.readBuf, k)
              sb  == Input(ch.sendBuf, n)
              one == [ch EXCEPT !.readBuf = rb]
              two == Counted([ch EXCEPT !.readBuf = rb, !.sendBuf = sb])
  <2>2. chan' = [chan EXCEPT ![c] = one] \/ chan' = [chan EXCEPT ![c] = two]
    BY <1>2 DEF Handle
  <2>3. /\ one.fd = chan[c].fd /\ one.closeFlag = chan[c].closeFlag /\ one.state = chan[c].state
        /\ two.fd = chan[c].fd /\ two.closeFlag = chan[c].closeFlag /\ two.state = chan[c].state
    <3>. HIDE DEF rb, sb
    <3>. QED
      BY <2>1 DEF ChannelObject, Counted
  <2>. HIDE DEF one, two
  <2>. QED
    BY <2>2, <2>3
<1>. HIDE DEF ch, c, f
<1>5. /\ chan \in [Channels -> ChannelObject]
      /\ \A g \in FDs : Mapped(g) => connections[g] \in Channels
  BY DEF IInv, TypeOK, Mapped
<1>6. \A d \in Channels : /\ chan'[d].fd = chan[d].fd /\ chan'[d].closeFlag = chan[d].closeFlag
                          /\ chan'[d].state = chan[d].state
                          /\ d # c => chan'[d] = chan[d]
  BY <1>1, <1>4, <1>5
<1>7. Apart'
  <2>1. \A o \in Openers : opener[o].pc \in InFlight => opener[o].channel \in Channels
    BY DEF IInv, ThreadsHoldChannels, InFlight
  <2>2. OpenersApart'
    BY <1>3, <1>6, <2>1 DEF ReadsInv, Apart, OpenersApart, Mapped, InFlight
  <2>3. MappedFds'
    BY <1>3, <1>5, <1>6 DEF ReadsInv, Apart, MappedFds, Mapped
  <2>4. ClosingApart'
    BY <1>3 DEF ReadsInv, Apart, ClosingApart, Mapped
  <2>. QED
    BY <2>2, <2>3, <2>4 DEF Apart
<1>8. \A g \in FDs : Listening(g)' <=> Listening(g)
  BY <1>3, <1>5, <1>6 DEF Listening, Mapped
<1>9. ASSUME NEW g \in FDs
      PROVE  Tokens(g)' = IF g = f THEN 1 ELSE Tokens(g)
  <2>1. Count(recvQue', {g}) = Count(recvQue, {g}) + One(f, {g})
    <3>1. Count(Append(recvQue, f), {g}) = Count(recvQue, {g}) + One(f, {g})
      BY <1>1, CountAppended DEF IInv, TypeOK
    <3>. QED
      BY <1>3, <3>1
  <2>2. One(f, {g}) = IF g = f THEN 1 ELSE 0
    BY DEF One
  <2>3. CASE g = f
    BY <1>1, <1>3, <2>1, <2>2, <2>3 DEF Tokens
  <2>4. CASE g # f
    <3>1. Count(recvQue, {g}) \in Nat
      BY TokensType
    <3>2. Count(recvQue', {g}) = Count(recvQue, {g})
      BY <2>1, <2>2, <2>4, <3>1
    <3>3. Count(cq', ReadsOf(g)) = Count(cq, ReadsOf(g))
      BY <1>1, <1>3, <2>4
    <3>. QED
      BY <1>3, <2>4, <3>2, <3>3 DEF Tokens
  <2>. QED
    BY <2>3, <2>4
<1>10. OneToken'
  BY <1>1, <1>8, <1>9 DEF OneToken, ReadsInv
<1>11. ToKernel' = ToKernel /\ InRing' \subseteq InRing
  BY <1>1, <1>3 DEF ToKernel, InRing
<1>12. Pointers'
  BY <1>3, <1>11 DEF Pointers, ReadsInv
<1>13. Targets'
  <2>1. ASSUME NEW m \in ToKernel, m.op = "READ"
        PROVE  m.len = Writable(chan'[m.channel].readBuf)
    <3>1. m \in InRing
      BY DEF InRing
    <3>2. m.fd \in FDs /\ m.channel \in Channels /\ m.fd # f /\ connections[m.fd] = m.channel
      BY <1>1, <2>1, <3>1, ElemsType DEF ReadsInv, Pointers
    <3>3. m.channel # c
      BY <1>1, <1>5, <3>2, UringAssumption DEF ReadsInv, Apart, MappedFds, Mapped
    <3>. QED
      BY <1>6, <2>1, <3>2, <3>3 DEF ReadsInv, Targets
  <2>. QED
    BY <1>11, <2>1 DEF Targets
<1>14. ReadAssertsHold'
  BY <1>3 DEF ReadsInv, ReadAssertsHold
<1>. QED
  BY <1>7, <1>10, <1>12, <1>13, <1>14 DEF ReadsInv

LEMMA OnReadReads ==
  ASSUME IInv, ReadsInv, fault = "none", OnRead
  PROVE  ReadsInv'
<1>1. loopPc = "cqe" /\ cq # <<>> /\ Done.op = "READ"
  BY DEF OnRead
<1>2. CASE ReadFaults
  <2>1. Mapped(Done.fd)
    BY <1>1, ReadTaken DEF Listening
  <2>2. Fail("already") \/ Fail("resume")
    BY <1>2, <2>1 DEF ReadFaults
  <2>. QED
    BY <2>2, FailReads
<1>. QED
  BY <1>1, <1>2, ReadEndReads, ReadDataReads, ReadEmptyReads DEF OnRead

(* A completed write changes no receive, unless it is the last one of a    *)
(* channel that is closing, which has none.                                *)
LEMMA OnWriteReads ==
  ASSUME IInv, ReadsInv, fault = "none", OnWrite
  PROVE  ReadsInv'
<1>. DEFINE c == connections[Done.fd]
<1>1. loopPc = "cqe" /\ cq # <<>> /\ Done.op = "WRITE"
  BY DEF OnWrite
<1>2. Done.fd \in FDs /\ (Mapped(Done.fd) => c \in Channels)
  BY <1>1, DoneType DEF IInv, TypeOK, Mapped, Completion
<1>3. chan \in [Channels -> ChannelObject]
  BY DEF IInv, TypeOK
<1>4. ASSUME Mapped(Done.fd), NEW new, chan' = [chan EXCEPT ![c] = new],
             new.fd = chan[c].fd, new.closeFlag = chan[c].closeFlag,
             new.readBuf = chan[c].readBuf, new.state = chan[c].state, cq' = Tail(cq),
             UNCHANGED <<recvQue, sq, kernel, connections, openFds, opener, fault>>,
             loopPc' # "osClose"
      PROVE  ReadsInv'
  <2>1. SameReads
    BY <1>1, <1>4, WriteTaken
  <2>2. SameMap /\ SameOpeners /\ SameChannels /\ ReadAssertsHold'
    BY <1>2, <1>3, <1>4 DEF SameMap, SameOpeners, SameChannels, ReadAssertsHold, ReadsInv
  <2>. QED
    BY <1>4, <2>1, <2>2, ReadsStay
<1>5. CASE WriteAgain
  <2>. DEFINE new == [chan[c] EXCEPT !.sendBuf = EraseData(@, Done.res)]
  <2>1. /\ Mapped(Done.fd) /\ chan' = [chan EXCEPT ![c] = new] /\ cq' = Tail(cq)
        /\ UNCHANGED <<recvQue, sq, kernel, connections, openFds, opener, fault>>
        /\ loopPc' # "osClose"
    BY <1>1, <1>5 DEF WriteAgain, connVars, loopVars, threadVars
  <2>2. /\ new.fd = chan[c].fd /\ new.closeFlag = chan[c].closeFlag
        /\ new.readBuf = chan[c].readBuf /\ new.state = chan[c].state
    BY <1>2, <1>3, <2>1 DEF ChannelObject
  <2>. HIDE DEF new, c
  <2>. QED
    BY <1>4, <2>1, <2>2
<1>6. CASE WriteFinished
  <2>. DEFINE ch == [chan[c] EXCEPT !.sendBuf = EraseData(@, Done.res), !.sendFlag = @ - 1]
  <2>1. Mapped(Done.fd)
    BY <1>6 DEF WriteFinished
  <2>2. /\ ch.fd = chan[c].fd /\ ch.closeFlag = chan[c].closeFlag
        /\ ch.readBuf = chan[c].readBuf /\ ch.state = chan[c].state
        /\ chan[c].closeFlag \in BOOLEAN /\ chan[c].state # "unused"
        /\ [ch EXCEPT !.closeFlag = TRUE].fd = ch.fd
        /\ [ch EXCEPT !.closeFlag = TRUE].state = ch.state
        /\ [ch EXCEPT !.closeFlag = TRUE].closeFlag
        /\ [ch EXCEPT !.task = "freed", !.state = "gone"].fd = ch.fd
        /\ [ch EXCEPT !.task = "freed", !.state = "gone"].state = "gone"
    <3>1. chan[c] \in ChannelObject /\ chan[c].state # "unused"
      BY <1>2, <1>3, <2>1 DEF IInv, ThreadsHoldChannels
    <3>. QED
      BY <3>1 DEF ChannelObject
  <2>3. CASE ch.closeFlag /\ CloseFaults(c, Done.fd, ch)
    BY <2>3, FailReads DEF CloseFaults
  <2>4. CASE /\ IF ch.sendFlag = 0 /\ ch.closeFlag
                  THEN Close(c, Done.fd, ch)
                  ELSE /\ chan' = [chan EXCEPT ![c] = ch]
                       /\ UNCHANGED <<connections, loopPc, closingFd, fault>>
             /\ cq' = Tail(cq)
             /\ UNCHANGED <<openFds, queueVars, sq, kernel, threadVars, envVars>>
    <3>1. UNCHANGED <<recvQue, sq, kernel, openFds, opener>>
      BY <2>4 DEF queueVars, threadVars
    <3>2. CASE ~(ch.sendFlag = 0 /\ ch.closeFlag)
      <4>1. /\ chan' = [chan EXCEPT ![c] = ch] /\ cq' = Tail(cq)
            /\ UNCHANGED <<connections, loopPc, fault>>
        BY <2>4, <3>2
      <4>. HIDE DEF ch, c
      <4>. QED
        BY <1>1, <1>4, <2>1, <2>2, <3>1, <4>1
    <3>3. CASE ch.sendFlag = 0 /\ ch.closeFlag
      <4>1. Close(c, Done.fd, ch) /\ cq' = Tail(cq) /\ chan[c].closeFlag
        BY <2>2, <2>4, <3>3
      <4>. HIDE DEF ch, c
      <4>2. PICK fd \in FDs : fd = Done.fd
        BY <1>2
      <4>3. PICK d \in Channels : d = c
        BY <1>2, <2>1
      <4>4. PICK new : /\ chan' = [chan EXCEPT ![d] = new]
                       /\ new \in {[ch EXCEPT !.closeFlag = TRUE],
                                   [ch EXCEPT !.task = "freed", !.state = "gone"]}
                       /\ fault' = fault
                       /\ \/ /\ new = [ch EXCEPT !.closeFlag = TRUE]
                             /\ connections' = connections /\ loopPc' # "osClose"
                          \/ /\ new = [ch EXCEPT !.task = "freed", !.state = "gone"]
                             /\ connections' = Unmapped(fd) /\ closingFd' = fd
                             /\ loopPc' = "osClose"
        BY <1>1, <4>1, <4>2, <4>3, CloseIsEnd
      <4>5. /\ new.fd = chan[d].fd /\ (new.state = "unused" <=> chan[d].state = "unused")
            /\ \/ new.closeFlag /\ connections' = connections /\ loopPc' # "osClose"
               \/ connections' = Unmapped(fd) /\ closingFd' = fd /\ loopPc' = "osClose"
        BY <2>2, <4>4, <4>3
      <4>6. connections[fd] = d
        BY <4>2, <4>3 DEF c
      <4>7. ~Listening(fd) /\ Tokens(fd) = 0
        BY <1>2, <4>1, <4>6, <4>3 DEF Listening, ReadsInv, OneToken
      <4>8. \A o \in Openers : ~(opener[o].pc = "start" /\ opener[o].fd = fd)
        BY <4>1, <4>6, <4>3 DEF ReadsInv, Apart, OpenersApart
      <4>9. SameReads
        BY <1>1, <3>1, <4>1, WriteTaken
      <4>10. /\ Tokens(fd)' = 0 /\ \A f \in FDs : f # fd => Tokens(f)' = Tokens(f)
        BY <1>2, <4>7, <4>9 DEF SameReads
      <4>11. Elems(Tail(cq)) \subseteq Elems(cq)
        BY <1>1, Elements DEF IInv, TypeOK
      <4>12. InRing' \subseteq InRing /\ ToKernel' \subseteq ToKernel
        BY <3>1, <4>1, <4>11 DEF InRing, ToKernel
      <4>13. \A m \in InRing' : m.op = "READ" => m.fd # fd
        BY <1>2, <4>7, <4>12, NoToken
      <4>. QED
        BY <2>1, <3>1, <4>3, <4>4, <4>5, <4>6, <4>8, <4>10, <4>12, <4>13, ChannelEnds
    <3>. QED
      BY <3>2, <3>3
  <2>. QED
    BY <1>6, <2>3, <2>4 DEF WriteFinished
<1>7. CASE WriteFaults
  BY <1>7, FailReads DEF WriteFaults
<1>. QED
  BY <1>5, <1>6, <1>7 DEF OnWrite

(* What an opener got from accept or connect belongs to nobody yet.        *)
LEMMA OpenFdReads ==
  ASSUME IInv, ReadsInv, NEW o \in Openers, NEW fd \in FDs, OpenFd(o, fd)
  PROVE  ReadsInv'
<1>1. PICK c \in Channels :
        /\ chan[c].state = "unused" /\ \A p \in Openers : opener[p].channel # c
        /\ opener' = [opener EXCEPT ![o] = [pc |-> "insert", fd |-> fd, channel |-> c]]
  BY DEF OpenFd
<1>2. /\ opener[o].pc = "idle" /\ fd \notin openFds /\ openFds' = openFds \cup {fd}
      /\ UNCHANGED <<connections, chan, recvQue, sq, kernel, cq, loopPc, closingFd, fault>>
  BY DEF OpenFd, queueVars, ringVars, loopVars
<1>3. /\ opener'[o].pc = "insert" /\ opener'[o].fd = fd /\ opener'[o].channel = c
      /\ \A p \in Openers : p # o => opener'[p] = opener[p]
  BY <1>1 DEF IInv, TypeOK
<1>4. ~Mapped(fd)
  BY <1>2 DEF ReadsInv, Apart, MappedFds
<1>5. OpenersApart'
  <2>1. ASSUME NEW p \in Openers, NEW q \in Openers, p # q
        PROVE  /\ opener'[p].channel # NoChannel => opener'[p].channel # opener'[q].channel
               /\ opener'[p].pc \in InFlight /\ opener'[q].pc \in InFlight
                    => opener'[p].fd # opener'[q].fd
    <3>1. \A r \in Openers : opener[r].pc \in InFlight => opener[r].fd # fd
      BY <1>2 DEF ReadsInv, Apart, OpenersApart
    <3>. QED
      BY <1>1, <1>3, <2>1, <3>1 DEF ReadsInv, Apart, OpenersApart
  <2>2. ASSUME NEW p \in Openers
        PROVE  /\ opener'[p].pc \in InFlight => opener'[p].fd \in openFds'
               /\ opener'[p].pc = "insert" =>
                    ~Mapped(opener'[p].fd) /\ chan[opener'[p].channel].state = "unused"
               /\ opener'[p].pc = "start" =>
                    /\ connections[opener'[p].fd] = opener'[p].channel
                    /\ ~chan[opener'[p].channel].closeFlag
    BY <1>1, <1>2, <1>3, <1>4 DEF ReadsInv, Apart, OpenersApart
  <2>. QED
    BY <1>2, <2>1, <2>2 DEF OpenersApart, Mapped
<1>6. MappedFds'
  BY <1>2 DEF ReadsInv, Apart, MappedFds, Mapped
<1>7. ClosingApart'
  BY <1>2, <1>3 DEF ReadsInv, Apart, ClosingApart, Mapped
<1>8. \A f \in FDs : Listening(f)' <=> Listening(f)
  BY <1>2, <1>3 DEF Listening, Mapped
<1>9. OneToken'
  BY <1>2, <1>8 DEF ReadsInv, OneToken, Tokens
<1>10. Pointers' /\ Targets' /\ ReadAssertsHold'
  BY <1>2 DEF ReadsInv, Pointers, Targets, InRing, ToKernel, ReadAssertsHold
<1>. QED
  BY <1>5, <1>6, <1>7, <1>9, <1>10 DEF ReadsInv, Apart

(* addNewFd maps a descriptor nothing else is mapped at, and a channel     *)
(* that is mapped nowhere; no receive names either.                        *)
LEMMA InsertFdReads ==
  ASSUME IInv, ReadsInv, NEW o \in Openers, fault = "none", InsertFd(o)
  PROVE  ReadsInv'
<1>1. PICK fd \in FDs, c \in Channels :
        /\ fd = opener[o].fd /\ c = opener[o].channel /\ ~Mapped(fd)
        /\ chan[c].state = "unused" /\ fd \in openFds
  BY DEF InsertFd, IInv, ThreadsHoldChannels, ReadsInv, Apart, OpenersApart, InFlight
<1>2. PICK new : new = NewChannel(fd)
  OBVIOUS
<1>3. /\ connections' = [connections EXCEPT ![fd] = c] /\ chan' = [chan EXCEPT ![c] = new]
      /\ Goto(o, "start")
      /\ UNCHANGED <<openFds, recvQue, sq, kernel, cq, loopPc, closingFd, fault>>
  BY <1>1, <1>2 DEF InsertFd, queueVars, ringVars, loopVars
<1>4. /\ opener'[o].pc = "start" /\ opener'[o].fd = fd /\ opener'[o].channel = c
      /\ \A p \in Openers : p # o => opener'[p] = opener[p]
  BY <1>1, <1>3 DEF Goto, IInv, TypeOK
<1>5. new.fd = fd /\ ~new.closeFlag
  BY <1>2 DEF NewChannel
<1>6. /\ connections'[fd] = c /\ chan'[c] = new
      /\ \A f \in FDs : f # fd => connections'[f] = connections[f]
      /\ \A d \in Channels : d # c => chan'[d] = chan[d]
  BY <1>3 DEF IInv, TypeOK
<1>7. \A f \in FDs : Mapped(f) => connections[f] \in Channels /\ connections[f] # c /\ f # fd
  BY <1>1 DEF IInv, TypeOK, ThreadsHoldChannels, Mapped
<1>8. opener[o].pc = "insert"
  BY DEF InsertFd
<1>9. \A p \in Openers : p # o /\ opener[p].pc \in InFlight =>
        /\ opener[p].fd \in FDs /\ opener[p].fd # fd
        /\ opener[p].channel \in Channels /\ opener[p].channel # c
  BY <1>1, <1>8, UringAssumption
     DEF IInv, ThreadsHoldChannels, ReadsInv, Apart, OpenersApart, InFlight
<1>10. OpenersApart'
  <2>1. ASSUME NEW p \in Openers, NEW q \in Openers, p # q
        PROVE  /\ opener'[p].channel # NoChannel => opener'[p].channel # opener'[q].channel
               /\ opener'[p].pc \in InFlight /\ opener'[q].pc \in InFlight
                    => opener'[p].fd # opener'[q].fd
    <3>1. \A r \in Openers : opener'[r].channel = opener[r].channel /\ opener'[r].fd = opener[r].fd
                             /\ (opener'[r].pc \in InFlight => opener[r].pc \in InFlight)
      BY <1>1, <1>4, <1>8 DEF InFlight
    <3>. QED
      BY <2>1, <3>1 DEF ReadsInv, Apart, OpenersApart
  <2>2. ASSUME NEW p \in Openers
        PROVE  /\ opener'[p].pc \in InFlight => opener'[p].fd \in openFds
               /\ opener'[p].pc = "insert" =>
                    /\ connections'[opener'[p].fd] = NoChannel
                    /\ chan'[opener'[p].channel].state = "unused"
               /\ opener'[p].pc = "start" =>
                    /\ connections'[opener'[p].fd] = opener'[p].channel
                    /\ ~chan'[opener'[p].channel].closeFlag
    <3>1. CASE p = o
      BY <1>1, <1>4, <1>5, <1>6, <3>1
    <3>2. CASE p # o
      BY <1>4, <1>6, <1>9, <3>2 DEF ReadsInv, Apart, OpenersApart, InFlight, Mapped
    <3>. QED
      BY <3>1, <3>2
  <2>. QED
    BY <1>3, <2>1, <2>2 DEF OpenersApart, Mapped
<1>11. MappedFds'
  BY <1>1, <1>3, <1>5, <1>6, <1>7 DEF ReadsInv, Apart, MappedFds, Mapped
<1>12. ClosingApart'
  <2>1. loopPc = "osClose" => closingFd # fd /\ closingFd \in FDs
    BY <1>1, <1>8, UringAssumption DEF ReadsInv, Apart, ClosingApart, InFlight, IInv, TypeOK
  <2>2. \A p \in Openers : opener'[p].fd = opener[p].fd
                           /\ (opener'[p].pc \in InFlight => opener[p].pc \in InFlight)
    BY <1>1, <1>4, <1>8 DEF InFlight
  <2>. QED
    BY <1>3, <1>6, <2>1, <2>2 DEF ReadsInv, Apart, ClosingApart, Mapped
<1>13. \A f \in FDs : Listening(f)' <=> Listening(f)
  <2>1. ~Listening(fd)' /\ ~Listening(fd)
    BY <1>1, <1>4 DEF Listening
  <2>2. ASSUME NEW f \in FDs, f # fd PROVE Listening(f)' <=> Listening(f)
    <3>1. \A p \in Openers : (opener'[p].pc = "start" /\ opener'[p].fd = f)
                               <=> (opener[p].pc = "start" /\ opener[p].fd = f)
      BY <1>1, <1>4, <2>2
    <3>. QED
      BY <1>6, <1>7, <2>2, <3>1 DEF Listening, Mapped
  <2>. QED
    BY <2>1, <2>2
<1>14. OneToken'
  BY <1>3, <1>13 DEF ReadsInv, OneToken, Tokens
<1>15. \A m \in InRing : m.op = "READ" => m.fd \in FDs /\ m.channel \in Channels /\ m.channel # c
                                          /\ m.fd # fd /\ connections[m.fd] = m.channel
  BY <1>7, ElemsType, UringAssumption DEF ReadsInv, Pointers, Mapped
<1>16. InRing' = InRing /\ ToKernel' = ToKernel /\ ToKernel \subseteq InRing
  BY <1>3 DEF InRing, ToKernel
<1>17. Pointers' /\ Targets' /\ ReadAssertsHold'
  BY <1>3, <1>6, <1>15, <1>16 DEF ReadsInv, Pointers, Targets, ReadAssertsHold
<1>. QED
  BY <1>10, <1>11, <1>12, <1>14, <1>17 DEF ReadsInv, Apart

(* The coroutine starts: the connection has its first receive.             *)
LEMMA StartCoroutineReads ==
  ASSUME IInv, ReadsInv, NEW o \in Openers, StartCoroutine(o)
  PROVE  ReadsInv'
<1>1. PICK fd \in FDs, c \in Channels :
        /\ fd = opener[o].fd /\ c = opener[o].channel /\ connections[fd] = c
        /\ ~chan[c].closeFlag /\ opener[o].pc = "start"
  BY DEF StartCoroutine, IInv, ThreadsHoldChannels, ReadsInv, Apart, OpenersApart, InFlight
<1>2. /\ recvQue' = Append(recvQue, fd) /\ Goto(o, "assign")
      /\ UNCHANGED <<openFds, connections, chan, sq, kernel, cq, loopPc, closingFd, fault>>
  BY <1>1 DEF StartCoroutine, connVars, ringVars, loopVars
<1>3. /\ opener'[o].pc = "assign" /\ opener'[o].fd = fd /\ opener'[o].channel = c
      /\ \A p \in Openers : p # o => opener'[p] = opener[p]
  BY <1>1, <1>2 DEF Goto, IInv, TypeOK
<1>4. Mapped(fd)
  BY <1>1, UringAssumption DEF Mapped
<1>5. \A p \in Openers : p # o /\ opener[p].pc \in InFlight => opener[p].fd # fd
  BY <1>1 DEF ReadsInv, Apart, OpenersApart, InFlight
<1>6. Apart'
  <2>1. \A p \in Openers : /\ opener'[p].channel = opener[p].channel /\ opener'[p].fd = opener[p].fd
                           /\ opener'[p].pc \in InFlight => opener'[p].pc = opener[p].pc
    BY <1>1, <1>3 DEF InFlight
  <2>2. OpenersApart'
    BY <1>2, <2>1 DEF ReadsInv, Apart, OpenersApart, Mapped, InFlight
  <2>3. MappedFds'
    BY <1>2 DEF ReadsInv, Apart, MappedFds, Mapped
  <2>4. ClosingApart'
    BY <1>2, <2>1 DEF ReadsInv, Apart, ClosingApart, Mapped
  <2>. QED
    BY <2>2, <2>3, <2>4 DEF Apart
<1>7. ~Listening(fd) /\ Listening(fd)'
  BY <1>1, <1>2, <1>3, <1>4, <1>5 DEF Listening, Mapped, InFlight
<1>8. \A f \in FDs : f # fd => (Listening(f)' <=> Listening(f))
  <2>1. ASSUME NEW f \in FDs, f # fd
        PROVE  \A p \in Openers : (opener'[p].pc = "start" /\ opener'[p].fd = f)
                                    <=> (opener[p].pc = "start" /\ opener[p].fd = f)
    BY <1>1, <1>3, <2>1
  <2>. QED
    BY <1>2, <2>1 DEF Listening, Mapped
<1>9. ASSUME NEW f \in FDs PROVE Tokens(f)' = Tokens(f) + (IF f = fd THEN 1 ELSE 0)
  <2>1. Count(Append(recvQue, fd), {f}) = Count(recvQue, {f}) + One(fd, {f})
    BY CountAppended DEF IInv, TypeOK
  <2>2. Count(recvQue', {f}) = Count(recvQue, {f}) + (IF f = fd THEN 1 ELSE 0)
    BY <1>2, <2>1 DEF One
  <2>3. /\ Count(recvQue, {f}) \in Nat /\ Count(sq, ReadsOf(f)) \in Nat
        /\ Count(kernel, ReadsOf(f)) \in Nat /\ Count(cq, ReadsOf(f)) \in Nat
    BY TokensType
  <2>4. Tokens(f)' = Count(recvQue', {f}) + Count(sq, ReadsOf(f)) + Count(kernel, ReadsOf(f))
                       + Count(cq, ReadsOf(f))
    BY <1>2 DEF Tokens
  <2>. QED
    BY <2>2, <2>3, <2>4 DEF Tokens
<1>10. OneToken'
  <2>1. \A f \in FDs : Tokens(f) \in Nat
    BY TokensType
  <2>. QED
    BY <1>7, <1>8, <1>9, <2>1 DEF ReadsInv, OneToken
<1>11. Pointers' /\ Targets' /\ ReadAssertsHold'
  BY <1>2 DEF ReadsInv, Pointers, Targets, InRing, ToKernel, ReadAssertsHold
<1>. QED
  BY <1>6, <1>10, <1>11 DEF ReadsInv

(* Storing the coroutine and the peer address touches nothing of these.    *)
LEMMA AssignTaskReads ==
  ASSUME IInv, ReadsInv, NEW o \in Openers, AssignTask(o) \/ SetAddr(o)
  PROVE  ReadsInv'
<1>1. /\ UNCHANGED <<openFds, connections, recvQue, sq, kernel, cq, loopPc, closingFd, fault>>
      /\ \E pc \in {"setAddr", "idle"} : Goto(o, pc)
      /\ opener[o].pc \in {"assign", "setAddr"}
  BY DEF AssignTask, SetAddr, connVars, queueVars, ringVars, loopVars
<1>2. PICK c \in Channels : c = opener[o].channel
  BY <1>1 DEF IInv, ThreadsHoldChannels
<1>3. SameChannels
  <2>1. \/ chan' = [chan EXCEPT ![c].task = "frame"] \/ chan' = [chan EXCEPT ![c].addr = TRUE]
        \/ chan' = chan
    BY <1>2 DEF AssignTask, SetAddr
  <2>2. chan \in [Channels -> ChannelObject]
    BY DEF IInv, TypeOK
  <2>. QED
    BY <2>1, <2>2 DEF SameChannels, ChannelObject
<1>4. SameOpeners
  BY <1>1 DEF SameOpeners, Goto, InFlight, IInv, TypeOK
<1>5. SameMap /\ ReadAssertsHold'
  BY <1>1 DEF SameMap, ReadAssertsHold, ReadsInv
<1>. QED
  BY <1>1, <1>3, <1>4, <1>5, ReadsStay, RingSameReads

LEMMA OpenerReads ==
  ASSUME IInv, ReadsInv, fault = "none", OpenerStep
  PROVE  ReadsInv'
BY OpenFdReads, InsertFdReads, StartCoroutineReads, AssignTaskReads DEF OpenerStep

LEMMA StepReads == IInv /\ ReadsInv /\ [Next]_vars => ReadsInv'
<1>. SUFFICES ASSUME IInv, ReadsInv, [Next]_vars PROVE ReadsInv'
  OBVIOUS
<1>1. CASE UNCHANGED vars
  <2>1. /\ UNCHANGED <<recvQue, sq, kernel, cq, connections, openFds, chan, opener, loopPc,
                       closingFd, fault>>
    BY <1>1 DEF vars
  <2>2. SameMap /\ SameOpeners /\ SameChannels /\ ReadAssertsHold'
    BY <2>1 DEF SameMap, SameOpeners, SameChannels, ReadAssertsHold, ReadsInv
  <2>. QED
    BY <2>1, <2>2, ReadsStay, RingSameReads
<1>2. CASE fault = "none" /\ LoopStep
  BY <1>2, SubmitReads, OnReadReads, OnWriteReads, BeginRecvReads, BeginSendReads DEF LoopStep
<1>3. CASE fault = "none" /\ OpenerStep
  BY <1>3, OpenerReads
<1>4. CASE fault = "none" /\ SenderStep
  BY <1>4, SenderReads
<1>5. CASE fault = "none" /\ KernelStep
  BY <1>5, CompleteReads DEF KernelStep
<1>6. CASE fault = "none" /\ SetErrno
  BY <1>6, SubmitReads
<1>7. CASE fault = "none" /\ MapRace
  <2>1. Fail("mapRace")
    BY <1>7 DEF MapRace
  <2>. QED
    BY <2>1, FailReads
<1>. QED
  BY <1>1, <1>2, <1>3, <1>4, <1>5, <1>6, <1>7 DEF Next

LEMMA ReadsInvariant == Spec => []ReadsInv
BY InitReads, StepReads, Invariance, PTL DEF Spec

(* A connection has exactly one receive under way from the moment its      *)
(* coroutine started until it is closing, and a closed descriptor none,    *)
(* whatever openers, application threads, peers and the kernel do.         *)
THEOREM OneReceivePerConnection == Spec => []OneReadToken
<1>1. IInv /\ ReadsInv => OneReadToken
  <2>. SUFFICES ASSUME IInv, ReadsInv, NEW fd \in FDs
                PROVE  ReadTokens(fd) =
                         IF /\ Mapped(fd)
                            /\ ~chan[connections[fd]].closeFlag
                            /\ \A o \in Openers : ~(opener[o].pc = "start" /\ opener[o].fd = fd)
                         THEN 1 ELSE 0
    BY DEF OneReadToken
  <2>1. ReadTokens(fd) = Tokens(fd)
    BY TokensAreReadTokens
  <2>. QED
    BY <2>1 DEF ReadsInv, OneToken, Listening
<1>. QED
  BY <1>1, ReadsInvariant, Invariance, PTL

(* The channel a receive points to is, until it completes, the one mapped  *)
(* at its descriptor: the raw pointer in the user data never dangles.      *)
THEOREM ReceivesNameLiveChannels == Spec => []ReadsPointToLiveChannel
<1>1. ReadsInv => ReadsPointToLiveChannel
  BY DEF ReadsInv, Pointers, InRing, ToKernel, Elems, ReadsPointToLiveChannel
<1>. QED
  BY <1>1, ReadsInvariant, PTL

(* The room a receive was given is the room there is when it completes:    *)
(* nobody moves the write index of a buffer the kernel writes into.        *)
THEOREM ReceiveRoomIsStable == Spec => []ReceiveTargetStable
<1>1. ReadsInv => ReceiveTargetStable
  BY DEF ReadsInv, Targets, ToKernel, Elems, ReceiveTargetStable
<1>. QED
  BY <1>1, ReadsInvariant, PTL

(* The assertions of addNewFd, beginRecv, the READ branch and removeFd     *)
(* hold in every interleaving.                                             *)
THEOREM ReadAssertionsHold == Spec => []ReadAssertsHold
<1>1. ReadsInv => ReadAssertsHold
  BY DEF ReadsInv
<1>. QED
  BY <1>1, ReadsInvariant, PTL

-----------------------------------------------------------------------------
(***************************************************************************)
(* The sends of a connection, when only handlers send.                     *)
(***************************************************************************)
OwnedBy(c)  == {p \in Pending : p.owner = c}
WritesOf(c) == {m \in Request \cup Completion : m.op = "WRITE" /\ m.channel = c}

(* The writes under way for a channel, as the lemmas count them.           *)
Sending(c) ==
  Count(sendQue, OwnedBy(c)) + Count(sq, WritesOf(c)) + Count(kernel, WritesOf(c))
    + Count(cq, WritesOf(c))

(* The descriptors and channels that writes under way name together.       *)
Queued   == {<<p.fd, p.owner>> : p \in Elems(sendQue)}
Prepared == {<<m.fd, m.channel>> : m \in {n \in InRing : n.op = "WRITE"}}
Named    == Queued \cup Prepared

FlagsCount  == \A c \in Channels : chan[c].sendFlag = Sending(c)
UnusedFresh == \A c \in Channels : chan[c].state = "unused" => chan[c].sendFlag = 0
NamesMapped == \A x \in Named : connections[x[1]] = x[2]

WritesInv == FlagsCount /\ UnusedFresh /\ NamesMapped /\ WriteAssertsHold

(* The parts of a count are numbers.                                       *)
LEMMA SendingType ==
  ASSUME IInv, NEW c
  PROVE  /\ Count(sendQue, OwnedBy(c)) \in Nat /\ Count(sq, WritesOf(c)) \in Nat
         /\ Count(kernel, WritesOf(c)) \in Nat /\ Count(cq, WritesOf(c)) \in Nat
         /\ Sending(c) \in Nat
<1>1. Count(sendQue, OwnedBy(c)) \in Nat
  BY CountType DEF IInv, TypeOK
<1>2. Count(sq, WritesOf(c)) \in Nat
  BY CountType DEF IInv, TypeOK
<1>3. Count(kernel, WritesOf(c)) \in Nat
  BY CountType DEF IInv, TypeOK
<1>4. Count(cq, WritesOf(c)) \in Nat
  BY CountType DEF IInv, TypeOK
<1>. QED
  BY <1>1, <1>2, <1>3, <1>4 DEF Sending

(* They are the positions WriteTokens counts.                              *)
LEMMA SendingIsWriteTokens ==
  ASSUME IInv, NEW c \in Channels
  PROVE  WriteTokens(c) = Sending(c)
<1>1. /\ \A i \in DOMAIN sendQue : sendQue[i] \in Pending
      /\ \A i \in DOMAIN sq : sq[i] \in Request
      /\ \A i \in DOMAIN kernel : kernel[i] \in Request
      /\ \A i \in DOMAIN cq : cq[i] \in Completion
  BY LenProperties, ElementOfSeq DEF IInv, TypeOK
<1>2. {i \in DOMAIN sendQue : sendQue[i].owner = c} = Places(sendQue, OwnedBy(c))
  BY <1>1 DEF Places, OwnedBy
<1>3. ASSUME NEW s, \A i \in DOMAIN s : s[i] \in Request \cup Completion
      PROVE  {i \in DOMAIN s : s[i].op = "WRITE" /\ s[i].channel = c} = Places(s, WritesOf(c))
  BY <1>3 DEF Places, WritesOf
<1>4. /\ {i \in DOMAIN sq : sq[i].op = "WRITE" /\ sq[i].channel = c} = Places(sq, WritesOf(c))
      /\ {i \in DOMAIN kernel : kernel[i].op = "WRITE" /\ kernel[i].channel = c}
           = Places(kernel, WritesOf(c))
      /\ {i \in DOMAIN cq : cq[i].op = "WRITE" /\ cq[i].channel = c} = Places(cq, WritesOf(c))
  BY <1>1, <1>3
<1>. QED
  BY <1>2, <1>4 DEF WriteTokens, Positions, Sending, Count

(* What is named are descriptors and channels.                             *)
LEMMA NamedType ==
  ASSUME IInv
  PROVE  /\ Elems(sendQue) \subseteq Pending
         /\ Named \subseteq FDs \X Channels
<1>1. \A i \in DOMAIN sendQue : sendQue[i] \in Pending
  BY LenProperties, ElementOfSeq DEF IInv, TypeOK
<1>2. Elems(sendQue) \subseteq Pending
  BY <1>1 DEF Elems
<1>3. Queued \subseteq FDs \X Channels
  BY <1>2 DEF Queued, Pending
<1>4. Prepared \subseteq FDs \X Channels
  BY ElemsType DEF Prepared
<1>. QED
  BY <1>2, <1>3, <1>4 DEF Named

(* A channel without a write under way is named by none.                   *)
LEMMA NoneSending ==
  ASSUME IInv, NEW c \in Channels, Sending(c) = 0
  PROVE  \A x \in Named : x[2] # c
<1>1. /\ Count(sendQue, OwnedBy(c)) = 0 /\ Count(sq, WritesOf(c)) = 0
      /\ Count(kernel, WritesOf(c)) = 0 /\ Count(cq, WritesOf(c)) = 0
  BY SendingType DEF Sending
<1>2. Elems(sendQue) \cap OwnedBy(c) = {}
  BY <1>1, CountType DEF IInv, TypeOK
<1>3. Elems(sq) \cap WritesOf(c) = {}
  BY <1>1, CountType DEF IInv, TypeOK
<1>4. Elems(kernel) \cap WritesOf(c) = {}
  BY <1>1, CountType DEF IInv, TypeOK
<1>5. Elems(cq) \cap WritesOf(c) = {}
  BY <1>1, CountType DEF IInv, TypeOK
<1>6. \A p \in Elems(sendQue) : p.owner # c
  BY <1>2, NamedType DEF OwnedBy
<1>7. \A m \in InRing : m.op = "WRITE" => m.channel # c
  BY <1>3, <1>4, <1>5, ElemsType DEF WritesOf, InRing, ToKernel
<1>. QED
  BY <1>6, <1>7 DEF Named, Queued, Prepared

(* Steps that neither add nor end a write, and unmap nothing.              *)
SameWrites ==
  /\ \A c \in Channels : Sending(c)' = Sending(c)
  /\ Named' \subseteq Named

KeepsMapped == \A fd \in FDs : Mapped(fd) => connections'[fd] = connections[fd]

KeepsFlags ==
  \A c \in Channels :
    /\ chan'[c].sendFlag = chan[c].sendFlag
    /\ chan'[c].state = "unused" => chan[c].state = "unused"

LEMMA WritesStay ==
  ASSUME IInv, WritesInv, SameWrites, KeepsMapped, KeepsFlags, WriteAssertsHold'
  PROVE  WritesInv'
<1>1. FlagsCount' /\ UnusedFresh'
  BY DEF WritesInv, FlagsCount, UnusedFresh, SameWrites, KeepsFlags
<1>2. NamesMapped'
  <2>1. \A x \in Named : x[1] \in FDs /\ x[2] \in Channels /\ connections[x[1]] = x[2]
    BY NamedType DEF WritesInv, NamesMapped
  <2>2. \A x \in Named : Mapped(x[1])
    BY <2>1, UringAssumption DEF Mapped
  <2>. QED
    BY <2>1, <2>2 DEF NamesMapped, SameWrites, KeepsMapped
<1>. QED
  BY <1>1, <1>2 DEF WritesInv

LEMMA RingSameWrites ==
  ASSUME UNCHANGED <<sendQue, sq, kernel, cq>>
  PROVE  SameWrites
BY DEF SameWrites, Sending, Named, Queued, Prepared, InRing, ToKernel

LEMMA FailWrites ==
  ASSUME IInv, WritesInv, NEW place, Fail(place),
         place \notin {"beginSend", "writeFind", "reduseSend"}
  PROVE  WritesInv'
<1>1. /\ UNCHANGED <<sendQue, sq, kernel, cq, connections, chan>>
      /\ fault' = place
  BY DEF Fail, allButFault, connVars, queueVars, ringVars
<1>2. KeepsMapped /\ KeepsFlags /\ WriteAssertsHold'
  BY <1>1 DEF KeepsMapped, KeepsFlags, WriteAssertsHold
<1>. QED
  BY <1>1, <1>2, WritesStay, RingSameWrites

(* A channel whose last write is gone may leave the map.                   *)
LEMMA SilentChannelLeaves ==
  ASSUME IInv, WritesInv, NEW fd \in FDs, NEW c \in Channels, connections[fd] = c,
         connections' = Unmapped(fd), NEW new, chan' = [chan EXCEPT ![c] = new],
         new.sendFlag = 0, new.state # "unused",
         \A d \in Channels : Sending(d)' = IF d = c THEN 0 ELSE Sending(d),
         Named' \subseteq Named, \A x \in Named' : x[2] # c,
         fault' = fault
  PROVE  WritesInv'
<1>1. chan'[c] = new /\ \A d \in Channels : d # c => chan'[d] = chan[d]
  BY DEF IInv, TypeOK
<1>2. FlagsCount' /\ UnusedFresh'
  BY <1>1 DEF WritesInv, FlagsCount, UnusedFresh
<1>3. NamesMapped'
  <2>1. ASSUME NEW x \in Named' PROVE connections'[x[1]] = x[2]
    <3>1. x \in Named /\ x[1] \in FDs /\ connections[x[1]] = x[2] /\ x[2] # c
      BY NamedType DEF WritesInv, NamesMapped
    <3>2. x[1] # fd
      BY <3>1
    <3>. QED
      BY <3>1, <3>2 DEF Unmapped, IInv, TypeOK
  <2>. QED
    BY <2>1 DEF NamesMapped
<1>4. WriteAssertsHold'
  BY DEF WritesInv, WriteAssertsHold
<1>. QED
  BY <1>2, <1>3, <1>4 DEF WritesInv

LEMMA InitWrites == Init => WritesInv
<1>. SUFFICES ASSUME Init PROVE WritesInv
  OBVIOUS
<1>1. \A V : Count(<<>>, V) = 0 /\ Elems(<<>>) = {}
  BY CountSingle
<1>2. sendQue = <<>> /\ sq = <<>> /\ kernel = <<>> /\ cq = <<>>
  BY DEF Init
<1>3. Named = {} /\ \A c : Sending(c) = 0
  BY <1>1, <1>2 DEF Named, Queued, Prepared, InRing, ToKernel, Sending
<1>4. \A c \in Channels : chan[c].sendFlag = 0
  BY DEF Init, Unused, NewChannel
<1>. QED
  BY <1>3, <1>4 DEF Init, WritesInv, FlagsCount, UnusedFresh, NamesMapped, WriteAssertsHold


LEMMA SubmitWrites ==
  ASSUME IInv, WritesInv, OsClose \/ EndOfCqes \/ Submit \/ SetErrno
  PROVE  WritesInv'
<1>. USE DEF connVars, queueVars, ringVars, loopVars, threadVars, envVars
<1>1. CASE OsClose \/ EndOfCqes \/ SetErrno
  <2>1. UNCHANGED <<sendQue, sq, kernel, cq, connections, chan, fault>>
    BY <1>1 DEF OsClose, EndOfCqes, SetErrno
  <2>2. KeepsMapped /\ KeepsFlags /\ WriteAssertsHold'
    BY <2>1 DEF KeepsMapped, KeepsFlags, WriteAssertsHold, WritesInv
  <2>. QED
    BY <2>1, <2>2, WritesStay, RingSameWrites
<1>2. CASE Submit
  <2>1. /\ kernel' = kernel \o sq /\ sq' = <<>>
        /\ UNCHANGED <<sendQue, cq, connections, chan, fault>>
    BY <1>2 DEF Submit
  <2>2. kernel \in Seq(Request) /\ sq \in Seq(Request)
    BY DEF IInv, TypeOK
  <2>3. ASSUME NEW V
        PROVE  /\ Count(kernel \o sq, V) = Count(kernel, V) + Count(sq, V)
               /\ Elems(kernel \o sq) = Elems(kernel) \cup Elems(sq)
    BY <2>2, CountJoined
  <2>4. \A V : Count(<<>>, V) = 0 /\ Elems(<<>>) = {}
    BY CountSingle
  <2>5. \A c \in Channels : Sending(c)' = Sending(c)
    BY <2>1, <2>3, <2>4, SendingType DEF Sending
  <2>6. Elems(kernel') \cup Elems(sq') = Elems(kernel) \cup Elems(sq)
    BY <2>1, <2>3, <2>4
  <2>7. SameWrites
    BY <2>1, <2>5, <2>6 DEF SameWrites, Named, Queued, Prepared, InRing, ToKernel
  <2>8. KeepsMapped /\ KeepsFlags /\ WriteAssertsHold'
    BY <2>1 DEF KeepsMapped, KeepsFlags, WriteAssertsHold, WritesInv
  <2>. QED
    BY <2>7, <2>8, WritesStay
<1>. QED
  BY <1>1, <1>2

(* The kernel answers a request: a write goes from it to the ring.         *)
LEMMA CompleteWrites ==
  ASSUME IInv, WritesInv, NEW i \in DOMAIN kernel, NEW res \in -1..BufSize, Complete(i, res)
  PROVE  WritesInv'
<1>. DEFINE req  == kernel[i]
            done == [op |-> req.op, fd |-> req.fd, channel |-> req.channel, res |-> res]
<1>1. /\ kernel' = RemoveAt(kernel, i) /\ cq' = Append(cq, done)
      /\ UNCHANGED <<sendQue, sq, connections, chan, fault>>
  BY DEF Complete, connVars, queueVars
<1>2. req \in Request
  BY CountRemoved DEF IInv, TypeOK
<1>3. done \in Completion
  BY <1>2, UringAssumption DEF Request, Completion
<1>4. \A c : One(done, WritesOf(c)) = One(req, WritesOf(c))
  BY <1>2, <1>3 DEF One, WritesOf
<1>5. done.op = req.op /\ done.fd = req.fd /\ done.channel = req.channel
  OBVIOUS
<1>. HIDE DEF done
<1>6. ASSUME NEW c \in Channels PROVE Sending(c)' = Sending(c)
  <2>1. /\ RemoveAt(kernel, i) \in Seq(Request)
        /\ Count(kernel, WritesOf(c)) = Count(RemoveAt(kernel, i), WritesOf(c)) + One(req, WritesOf(c))
    BY CountRemoved DEF IInv, TypeOK
  <2>2. Count(Append(cq, done), WritesOf(c)) = Count(cq, WritesOf(c)) + One(done, WritesOf(c))
    BY <1>3, CountAppended DEF IInv, TypeOK
  <2>3. Count(RemoveAt(kernel, i), WritesOf(c)) \in Nat /\ One(done, WritesOf(c)) \in {0, 1}
    BY <2>1, CountType, OneType
  <2>4. /\ Count(kernel', WritesOf(c)) \in Nat
        /\ Count(kernel, WritesOf(c)) = Count(kernel', WritesOf(c)) + One(req, WritesOf(c))
        /\ Count(cq', WritesOf(c)) = Count(cq, WritesOf(c)) + One(req, WritesOf(c))
        /\ One(req, WritesOf(c)) \in {0, 1}
    BY <1>1, <1>4, <2>1, <2>2, <2>3
  <2>5. /\ Count(sendQue, OwnedBy(c)) \in Nat /\ Count(sq, WritesOf(c)) \in Nat
        /\ Count(cq, WritesOf(c)) \in Nat
    BY SendingType
  <2>6. Sending(c)' = Count(sendQue, OwnedBy(c)) + Count(sq, WritesOf(c))
                          + Count(kernel', WritesOf(c)) + Count(cq', WritesOf(c))
    BY <1>1 DEF Sending
  <2>. HIDE DEF req
  <2>. QED
    BY <2>4, <2>5, <2>6 DEF Sending
<1>7. Elems(kernel) = Elems(kernel') \cup {req} /\ Elems(cq') = Elems(cq) \cup {done}
  <2>1. Elems(kernel) = Elems(RemoveAt(kernel, i)) \cup {req}
    BY Elements DEF IInv, TypeOK
  <2>2. Elems(Append(cq, done)) = Elems(cq) \cup {done}
    BY <1>3, Elements DEF IInv, TypeOK
  <2>. QED
    BY <1>1, <2>1, <2>2
<1>8. SameWrites
  <2>1. \A m \in InRing' : m \in InRing \/ m = done
    BY <1>1, <1>7 DEF InRing, ToKernel
  <2>2. req \in InRing
    BY <1>7 DEF InRing, ToKernel
  <2>3. Prepared' \subseteq Prepared
    BY <1>5, <2>1, <2>2 DEF Prepared
  <2>. QED
    BY <1>1, <1>6, <2>3 DEF SameWrites, Named, Queued
<1>9. KeepsMapped /\ KeepsFlags /\ WriteAssertsHold'
  BY <1>1 DEF KeepsMapped, KeepsFlags, WriteAssertsHold, WritesInv
<1>. QED
  BY <1>8, <1>9, WritesStay

(* Where receives only are added to the requests prepared.                 *)
LEMMA BeginRecvWrites ==
  ASSUME IInv, WritesInv, BeginRecv
  PROVE  WritesInv'
<1>. DEFINE k    == Batch(recvQue)
            new  == [i \in 1..k |-> ReadRequest(recvQue[i])]
<1>1. CASE Fail("beginRecv")
  BY <1>1, FailWrites
<1>2. CASE ~Fail("beginRecv")
  <2>1. /\ \A i \in 1..k : Mapped(recvQue[i])
        /\ sq' = sq \o new
        /\ UNCHANGED <<sendQue, kernel, cq, connections, chan, fault>>
    BY <1>2 DEF BeginRecv, connVars
  <2>2. k \in Nat /\ \A i \in 1..k : recvQue[i] \in FDs
    BY BatchType DEF IInv, TypeOK
  <2>3. ASSUME NEW fd \in FDs, Mapped(fd)
        PROVE  ReadRequest(fd) \in Request /\ ReadRequest(fd).op = "READ"
    <3>1. connections[fd] \in Channels
      BY <2>3 DEF IInv, TypeOK, Mapped
    <3>2. chan[connections[fd]].readBuf \in Buffers
      BY <3>1, ChannelType DEF IInv, TypeOK
    <3>3. Writable(chan[connections[fd]].readBuf) \in Int
      BY <3>2, BufferType
    <3>. QED
      BY <3>1, <3>3 DEF ReadRequest, Request
  <2>4. \A i \in 1..k : ReadRequest(recvQue[i]) \in Request /\ ReadRequest(recvQue[i]).op = "READ"
    BY <2>1, <2>2, <2>3
  <2>5. new \in Seq(Request) /\ DOMAIN new = 1..k
    BY <2>2, <2>4
  <2>6. sq \in Seq(Request)
    BY DEF IInv, TypeOK
  <2>7. \A m \in Elems(new) : m.op = "READ"
    BY <2>4, <2>5 DEF Elems
  <2>. HIDE DEF k, new
  <2>8. ASSUME NEW c \in Channels PROVE Sending(c)' = Sending(c)
    <3>1. Count(sq \o new, WritesOf(c)) = Count(sq, WritesOf(c)) + Count(new, WritesOf(c))
      BY <2>5, <2>6, CountJoined
    <3>2. Elems(new) \cap WritesOf(c) = {}
      BY <2>7 DEF WritesOf
    <3>3. Count(new, WritesOf(c)) = 0
      BY <2>5, <3>2, CountType
    <3>4. Count(sq', WritesOf(c)) = Count(sq, WritesOf(c))
      BY <2>1, <3>1, <3>3, SendingType
    <3>. QED
      BY <2>1, <3>4 DEF Sending
  <2>9. Elems(sq') = Elems(sq) \cup Elems(new)
    BY <2>1, <2>5, <2>6, Elements
  <2>10. SameWrites
    <3>1. Prepared' \subseteq Prepared
      BY <2>1, <2>7, <2>9 DEF Prepared, InRing, ToKernel
    <3>. QED
      BY <2>1, <2>8, <3>1 DEF SameWrites, Named, Queued
  <2>11. KeepsMapped /\ KeepsFlags /\ WriteAssertsHold'
    BY <2>1 DEF KeepsMapped, KeepsFlags, WriteAssertsHold, WritesInv
  <2>. QED
    BY <2>10, <2>11, WritesStay
<1>. QED
  BY <1>1, <1>2

(* beginSend moves writes from the queue to the ring; each finds its       *)
(* channel, the one that queued it.                                        *)
LEMMA BeginSendWrites ==
  ASSUME IInv, WritesInv, BeginSend
  PROVE  WritesInv'
<1>. DEFINE k    == Batch(sendQue)
            took == SubSeq(sendQue, 1, k)
            left == SubSeq(sendQue, k + 1, Len(sendQue))
            new  == [i \in 1..k |-> WriteRequest(sendQue[i])]
<1>1. /\ k \in 0..Len(sendQue) /\ sendQue \in Seq(Pending) /\ Len(sendQue) \in Nat
      /\ \A i \in 1..k : sendQue[i] \in Pending /\ sendQue[i] \in Elems(sendQue)
  <2>1. k \in Nat /\ k <= Len(sendQue) /\ sendQue \in Seq(Pending) /\ \A i \in 1..k : sendQue[i] \in Pending
    BY BatchType DEF IInv, TypeOK
  <2>2. Len(sendQue) \in Nat /\ DOMAIN sendQue = 1..Len(sendQue)
    BY LenProperties DEF IInv, TypeOK
  <2>. QED
    BY <2>1, <2>2 DEF Elems
<1>2. ASSUME NEW p \in Pending, p \in Elems(sendQue)
      PROVE  /\ Mapped(p.fd) /\ p.fd \in FDs /\ p.owner \in Channels
             /\ WriteRequest(p) \in Request /\ WriteRequest(p).op = "WRITE"
             /\ WriteRequest(p).fd = p.fd /\ WriteRequest(p).channel = p.owner
  <2>1. p.fd \in FDs /\ p.owner \in Channels /\ p.buf \in {"read", "send"} /\ p.len \in Int
    BY DEF Pending
  <2>2. <<p.fd, p.owner>> \in Named
    BY <1>2 DEF Named, Queued
  <2>3. connections[p.fd] = p.owner
    BY <2>2 DEF WritesInv, NamesMapped
  <2>. QED
    BY <2>1, <2>3, UringAssumption DEF Mapped, WriteRequest, Request
<1>3. /\ sq' = sq \o new /\ sendQue' = left
      /\ UNCHANGED <<kernel, cq, connections, chan, fault>>
  BY <1>1, <1>2 DEF BeginSend, Left, connVars
<1>4. /\ new \in Seq(Request) /\ sq \in Seq(Request) /\ DOMAIN new = 1..k
      /\ \A i \in 1..k : /\ new[i] \in Request /\ new[i].op = "WRITE"
                         /\ new[i].fd = sendQue[i].fd /\ new[i].channel = sendQue[i].owner
  <2>1. ASSUME NEW i \in 1..k
        PROVE  /\ new[i] \in Request /\ new[i].op = "WRITE"
               /\ new[i].fd = sendQue[i].fd /\ new[i].channel = sendQue[i].owner
    <3>1. new[i] = WriteRequest(sendQue[i]) /\ sendQue[i] \in Pending /\ sendQue[i] \in Elems(sendQue)
      BY <1>1
    <3>. HIDE DEF new
    <3>. QED
      BY <1>2, <3>1
  <2>2. \A i \in 1..k : WriteRequest(sendQue[i]) \in Request
    BY <1>1, <1>2
  <2>3. new \in Seq(Request) /\ DOMAIN new = 1..k
    BY <1>1, <2>2
  <2>4. sq \in Seq(Request)
    BY DEF IInv, TypeOK
  <2>. QED
    BY <2>1, <2>3, <2>4
<1>5. took \in Seq(Pending) /\ DOMAIN took = 1..k /\ \A i \in 1..k : took[i] = sendQue[i]
  <2>1. /\ took \in Seq(Pending) /\ Len(took) = IF 1 <= k THEN k - 1 + 1 ELSE 0
        /\ \A i \in 1..(k - 1 + 1) : took[i] = sendQue[1 + i - 1]
    BY <1>1, SubSeqProperties
  <2>2. DOMAIN took = 1..Len(took)
    BY <2>1, LenProperties
  <2>3. Len(took) = k /\ k - 1 + 1 = k /\ \A i \in 1..k : 1 + i - 1 = i
    BY <1>1, <2>1
  <2>. QED
    BY <2>1, <2>2, <2>3
<1>6. \A c \in Channels : Places(new, WritesOf(c)) = Places(took, OwnedBy(c))
  BY <1>1, <1>4, <1>5 DEF Places, WritesOf, OwnedBy
<1>7. \A m \in Elems(new) : \E p \in Elems(sendQue) : m.fd = p.fd /\ m.channel = p.owner
  BY <1>1, <1>4 DEF Elems
<1>. HIDE DEF k, took, left, new
<1>8. ASSUME NEW c \in Channels PROVE Sending(c)' = Sending(c)
  <2>1. /\ left \in Seq(Pending)
        /\ Count(sendQue, OwnedBy(c)) = Count(took, OwnedBy(c)) + Count(left, OwnedBy(c))
    BY <1>1, CountCut DEF took, left
  <2>2. Count(sq \o new, WritesOf(c)) = Count(sq, WritesOf(c)) + Count(new, WritesOf(c))
    BY <1>4, CountJoined
  <2>3. Count(new, WritesOf(c)) = Count(took, OwnedBy(c))
    BY <1>6 DEF Count
  <2>4. Count(took, OwnedBy(c)) \in Nat
    BY <1>5, CountType
  <2>5. Count(left, OwnedBy(c)) \in Nat
    BY <2>1, CountType
  <2>6. Sending(c)' = Count(left, OwnedBy(c)) + Count(sq \o new, WritesOf(c))
                        + Count(kernel, WritesOf(c)) + Count(cq, WritesOf(c))
    BY <1>3 DEF Sending
  <2>. QED
    BY <2>1, <2>2, <2>3, <2>4, <2>5, <2>6, SendingType DEF Sending
<1>9. Named' \subseteq Named
  <2>1. Elems(sq') = Elems(sq) \cup Elems(new)
    BY <1>3, <1>4, Elements
  <2>2. Elems(sendQue') \subseteq Elems(sendQue)
    <3>1. /\ Elems(sendQue) = Elems(took) \cup Elems(left)
          /\ Count(sendQue, {}) = Count(took, {}) + Count(left, {})
      BY <1>1, CountCut DEF took, left
    <3>. QED
      BY <1>3, <3>1
  <2>3. Prepared' \subseteq Prepared \cup Queued
    BY <1>3, <1>7, <2>1 DEF Prepared, Queued, InRing, ToKernel
  <2>. QED
    BY <2>2, <2>3 DEF Named, Queued
<1>10. KeepsMapped /\ KeepsFlags /\ WriteAssertsHold'
  BY <1>3 DEF KeepsMapped, KeepsFlags, WriteAssertsHold, WritesInv
<1>. QED
  BY <1>8, <1>9, <1>10, WritesStay DEF SameWrites


(* Taking the completion of a receive off the ring changes no write.       *)
LEMMA ReadLeavesWrites ==
  ASSUME IInv, cq # <<>>, Done.op = "READ"
  PROVE  /\ \A c \in Channels : Count(Tail(cq), WritesOf(c)) = Count(cq, WritesOf(c))
         /\ Elems(Tail(cq)) \subseteq Elems(cq)
<1>1. Tail(cq) \in Seq(Completion)
  BY DoneType
<1>2. ASSUME NEW c \in Channels
      PROVE  Count(Tail(cq), WritesOf(c)) = Count(cq, WritesOf(c))
  <2>1. Count(cq, WritesOf(c)) = Count(Tail(cq), WritesOf(c)) + One(Done, WritesOf(c))
    BY CountTail DEF IInv, TypeOK, Done
  <2>2. One(Done, WritesOf(c)) = 0
    BY DEF One, WritesOf
  <2>3. Count(Tail(cq), WritesOf(c)) \in Nat
    BY <1>1, CountType
  <2>. QED
    BY <2>1, <2>2, <2>3
<1>3. \A c \in Channels : Count(Tail(cq), WritesOf(c)) = Count(cq, WritesOf(c))
  BY <1>2
<1>4. Elems(Tail(cq)) \subseteq Elems(cq)
  BY Elements DEF IInv, TypeOK
<1>. QED
  BY <1>3, <1>4

LEMMA ReadTakenKeepsWrites ==
  ASSUME IInv, cq # <<>>, Done.op = "READ", cq' = Tail(cq), UNCHANGED <<sendQue, sq, kernel>>
  PROVE  SameWrites
<1>1. \A c \in Channels : Count(cq', WritesOf(c)) = Count(cq, WritesOf(c))
  BY ReadLeavesWrites
<1>2. Elems(cq') \subseteq Elems(cq)
  BY ReadLeavesWrites
<1>3. \A c \in Channels : Sending(c)' = Sending(c)
  BY <1>1 DEF Sending
<1>4. Named' \subseteq Named
  BY <1>2 DEF Named, Queued, Prepared, InRing, ToKernel
<1>. QED
  BY <1>3, <1>4 DEF SameWrites

(* Taking the completion of a write off it leaves its channel one less.    *)
LEMMA WriteLeaves ==
  ASSUME IInv, WritesInv, cq # <<>>, Done.op = "WRITE"
  PROVE  /\ Done.fd \in FDs /\ Done.channel \in Channels
         /\ connections[Done.fd] = Done.channel
         /\ \A c \in Channels : /\ Count(Tail(cq), WritesOf(c)) \in Nat
                                /\ Count(cq, WritesOf(c)) = Count(Tail(cq), WritesOf(c))
                                                              + (IF c = Done.channel THEN 1 ELSE 0)
         /\ Elems(Tail(cq)) \subseteq Elems(cq)
         /\ <<Done.fd, Done.channel>> \in Named
<1>1. /\ Done \in Completion /\ Tail(cq) \in Seq(Completion)
      /\ Done.fd \in FDs /\ Done.channel \in Channels
  BY DoneType DEF Completion
<1>2. Elems(cq) = Elems(Tail(cq)) \cup {Done}
  BY Elements DEF IInv, TypeOK, Done
<1>3. ASSUME NEW c \in Channels
      PROVE  /\ Count(Tail(cq), WritesOf(c)) \in Nat
             /\ Count(cq, WritesOf(c)) = Count(Tail(cq), WritesOf(c))
                                           + (IF c = Done.channel THEN 1 ELSE 0)
  <2>1. Count(cq, WritesOf(c)) = Count(Tail(cq), WritesOf(c)) + One(Done, WritesOf(c))
    BY CountTail DEF IInv, TypeOK, Done
  <2>2. One(Done, WritesOf(c)) = IF c = Done.channel THEN 1 ELSE 0
    BY <1>1 DEF One, WritesOf
  <2>3. Count(Tail(cq), WritesOf(c)) \in Nat
    BY <1>1, CountType
  <2>. QED
    BY <2>1, <2>2, <2>3
<1>4. <<Done.fd, Done.channel>> \in Named
  BY <1>2 DEF Named, Prepared, InRing
<1>5. connections[Done.fd] = Done.channel
  BY <1>4 DEF WritesInv, NamesMapped
<1>. QED
  BY <1>1, <1>2, <1>3, <1>4, <1>5

(* After the last one nothing names the channel any more.                  *)
LEMMA LastWriteTaken ==
  ASSUME IInv, WritesInv, cq # <<>>, Done.op = "WRITE", NEW c \in Channels, c = Done.channel,
         Sending(c) = 1, cq' = Tail(cq), UNCHANGED <<sendQue, sq, kernel>>
  PROVE  \A x \in Named' : x[2] # c
<1>1. /\ Count(sendQue, OwnedBy(c)) \in Nat /\ Count(sq, WritesOf(c)) \in Nat
      /\ Count(kernel, WritesOf(c)) \in Nat /\ Count(Tail(cq), WritesOf(c)) \in Nat
      /\ Count(cq, WritesOf(c)) = Count(Tail(cq), WritesOf(c)) + 1
  BY SendingType, WriteLeaves
<1>2. /\ Count(sendQue, OwnedBy(c)) = 0 /\ Count(sq, WritesOf(c)) = 0
      /\ Count(kernel, WritesOf(c)) = 0 /\ Count(Tail(cq), WritesOf(c)) = 0
  BY <1>1 DEF Sending
<1>3. Elems(sendQue) \cap OwnedBy(c) = {}
  BY <1>2, CountType DEF IInv, TypeOK
<1>4. Elems(sq) \cap WritesOf(c) = {}
  BY <1>2, CountType DEF IInv, TypeOK
<1>5. Elems(kernel) \cap WritesOf(c) = {}
  BY <1>2, CountType DEF IInv, TypeOK
<1>6. Elems(Tail(cq)) \cap WritesOf(c) = {} /\ Elems(Tail(cq)) \subseteq Elems(cq)
  BY <1>2, CountType, DoneType, WriteLeaves
<1>7. \A p \in Elems(sendQue) : p.owner # c
  BY <1>3, NamedType DEF OwnedBy
<1>8. \A m \in ToKernel \cup Elems(Tail(cq)) : m.op = "WRITE" => m.channel # c
  BY <1>4, <1>5, <1>6, ElemsType DEF WritesOf, ToKernel
<1>. QED
  BY <1>7, <1>8 DEF Named, Queued, Prepared, InRing, ToKernel

(* What close() does to the writes of a channel: it waits for them.        *)
LEMMA CloseWrites ==
  ASSUME IInv, WritesInv, NEW fd \in FDs, NEW c \in Channels, connections[fd] = c,
         NEW ch, Close(c, fd, ch), ch \in ChannelObject, ch.state # "unused",
         \A d \in Channels : Sending(d)' = IF d = c THEN ch.sendFlag ELSE Sending(d),
         ch.sendFlag \in Nat, Named' \subseteq Named,
         ch.sendFlag = 0 => \A x \in Named' : x[2] # c
  PROVE  WritesInv'
<1>1. CASE /\ CloseDeferred(ch)
           /\ chan' = [chan EXCEPT ![c] = [ch EXCEPT !.closeFlag = TRUE]]
           /\ UNCHANGED <<connections, loopPc, closingFd, fault>>
  <2>1. PICK new : new = [ch EXCEPT !.closeFlag = TRUE]
    OBVIOUS
  <2>2. new.sendFlag = ch.sendFlag /\ new.state # "unused"
    BY <2>1 DEF ChannelObject
  <2>3. chan'[c] = new /\ \A d \in Channels : d # c => chan'[d] = chan[d]
    BY <1>1, <2>1 DEF IInv, TypeOK
  <2>4. FlagsCount' /\ UnusedFresh'
    BY <2>2, <2>3 DEF WritesInv, FlagsCount, UnusedFresh
  <2>5. NamesMapped' /\ WriteAssertsHold'
    BY <1>1 DEF WritesInv, NamesMapped, WriteAssertsHold
  <2>. QED
    BY <2>4, <2>5 DEF WritesInv
<1>2. CASE /\ ~CloseDeferred(ch)
           /\ chan' = [chan EXCEPT ![c] = [ch EXCEPT !.task = "freed", !.state = "gone"]]
           /\ connections' = Unmapped(fd)
           /\ UNCHANGED fault
  <2>1. PICK new : new = [ch EXCEPT !.task = "freed", !.state = "gone"]
    OBVIOUS
  <2>2. ch.sendFlag = 0
    BY <1>2 DEF CloseDeferred
  <2>3. new.sendFlag = 0 /\ new.state # "unused"
    BY <2>1, <2>2 DEF ChannelObject
  <2>4. chan' = [chan EXCEPT ![c] = new]
    BY <1>2, <2>1
  <2>. QED
    BY <1>2, <2>2, <2>3, <2>4, SilentChannelLeaves
<1>. QED
  BY <1>1, <1>2 DEF Close

LEMMA ReadEndWrites ==
  ASSUME IInv, ReadsInv, WritesInv, cq # <<>>, Done.op = "READ", ReadEnd
  PROVE  WritesInv'
<1>1. PICK fd \in FDs, c \in Channels :
        /\ fd = Done.fd /\ c = Done.channel /\ connections[fd] = c /\ Listening(fd)
  BY ReadTaken
<1>2. CASE CloseFaults(c, fd, chan[c])
  BY <1>1, <1>2, FailWrites DEF CloseFaults
<1>3. CASE /\ Close(c, fd, chan[c]) /\ cq' = Tail(cq)
           /\ UNCHANGED <<openFds, queueVars, sq, kernel, threadVars, envVars>>
  <2>1. SameWrites
    BY <1>3, ReadTakenKeepsWrites DEF queueVars
  <2>2. /\ chan[c] \in ChannelObject /\ chan[c].state # "unused"
        /\ chan[c].sendFlag = Sending(c) /\ Sending(c) \in Nat
    BY <1>1, SendingType
       DEF IInv, TypeOK, ThreadsHoldChannels, Listening, WritesInv, FlagsCount
  <2>3. chan[c].sendFlag = 0 => \A x \in Named' : x[2] # c
    BY <2>1, <2>2, NoneSending DEF SameWrites
  <2>4. \A d \in Channels : Sending(d)' = IF d = c THEN chan[c].sendFlag ELSE Sending(d)
    BY <2>1, <2>2 DEF SameWrites
  <2>. QED
    BY <1>1, <1>3, <2>1, <2>2, <2>3, <2>4, CloseWrites DEF SameWrites
<1>. QED
  BY <1>1, <1>2, <1>3 DEF ReadEnd

LEMMA ReadEmptyWrites ==
  ASSUME IInv, ReadsInv, WritesInv, cq # <<>>, Done.op = "READ", ReadEmpty
  PROVE  WritesInv'
<1>1. PICK c \in Channels : c = Done.channel
  BY ReadTaken
<1>2. CASE Fail("destroyRunning")
  BY <1>2, FailWrites
<1>3. CASE ~Fail("destroyRunning")
  <2>1. PICK ch : ch = [chan[c] EXCEPT !.readBuf = Already(@, Done.res)]
    OBVIOUS
  <2>2. PICK new : new = [ch EXCEPT !.closeFlag = TRUE, !.task = "freed"]
    OBVIOUS
  <2>3. /\ chan' = [chan EXCEPT ![c] = new] /\ cq' = Tail(cq)
        /\ UNCHANGED <<sendQue, sq, kernel, connections, fault>>
    BY <1>1, <1>3, <2>1, <2>2 DEF ReadEmpty, connVars, queueVars
  <2>4. new.sendFlag = chan[c].sendFlag /\ new.state = chan[c].state
    BY <2>1, <2>2 DEF IInv, TypeOK, ChannelObject
  <2>5. KeepsMapped /\ KeepsFlags /\ WriteAssertsHold'
    BY <2>3, <2>4 DEF KeepsMapped, KeepsFlags, WriteAssertsHold, WritesInv, IInv, TypeOK
  <2>. QED
    BY <2>3, <2>5, ReadTakenKeepsWrites, WritesStay
<1>. QED
  BY <1>2, <1>3


(* One more write for a mapped channel, and one more in its flag.          *)
LEMMA OneMoreWrite ==
  ASSUME IInv, WritesInv, NEW fd \in FDs, NEW c \in Channels, connections[fd] = c,
         NEW new, chan' = [chan EXCEPT ![c] = new],
         new.sendFlag = chan[c].sendFlag + 1, new.state # "unused",
         \A d \in Channels : Sending(d)' = Sending(d) + (IF d = c THEN 1 ELSE 0),
         Named' \subseteq Named \cup {<<fd, c>>}, UNCHANGED <<connections, fault>>
  PROVE  WritesInv'
<1>1. chan'[c] = new /\ \A d \in Channels : d # c => chan'[d] = chan[d]
  BY DEF IInv, TypeOK
<1>2. \A d \in Channels : Sending(d) \in Nat
  BY SendingType
<1>3. FlagsCount' /\ UnusedFresh'
  BY <1>1, <1>2 DEF WritesInv, FlagsCount, UnusedFresh
<1>4. NamesMapped' /\ WriteAssertsHold'
  BY DEF WritesInv, NamesMapped, WriteAssertsHold
<1>. QED
  BY <1>3, <1>4 DEF WritesInv

(* What a handler answers is counted when it is queued.                    *)
LEMMA ReadDataWrites ==
  ASSUME IInv, ReadsInv, WritesInv, cq # <<>>, Done.op = "READ", ReadData
  PROVE  WritesInv'
<1>1. PICK fd \in FDs, c \in Channels :
        /\ fd = Done.fd /\ c = Done.channel /\ connections[fd] = c /\ Listening(fd)
        /\ Done.res \in Int
  BY ReadTaken DEF Completion
<1>2. PICK ch : ch = [chan[c] EXCEPT !.readBuf = Already(@, Done.res)]
  OBVIOUS
<1>3. PICK k \in 0..Readable(ch.readBuf), n \in 0..MaxLen : Handle(c, fd, ch, k, n)
  BY <1>1, <1>2 DEF ReadData
<1>4. /\ cq' = Tail(cq)
      /\ UNCHANGED <<connections, sq, kernel, fault>>
  BY DEF ReadData, connVars
<1>5. chan[c] \in ChannelObject /\ chan[c].state # "unused" /\ chan[c].sendFlag \in Int
  BY <1>1, ChannelType DEF IInv, TypeOK, ThreadsHoldChannels, Listening
<1>6. /\ ch.sendFlag = chan[c].sendFlag /\ ch.state # "unused" /\ ch.sendBuf \in Buffers
  BY <1>2, <1>5, ChannelType DEF ChannelObject
<1>7. PICK sb : sb = Input(ch.sendBuf, n)
  OBVIOUS
<1>8. PICK item : item = WriteItem(fd, c, "send", Readable(sb))
  OBVIOUS
<1>9. item \in Pending /\ item.fd = fd /\ item.owner = c
  <2>1. n \in Int
    BY UringAssumption
  <2>2. Readable(sb) \in Int
    BY <1>6, <1>7, <2>1, BufferType
  <2>. QED
    BY <1>1, <1>8, <2>2 DEF WriteItem, Pending
<1>10. CASE n > 0 /\ ~ch.closeFlag
  <2>1. PICK mid : mid = [ch EXCEPT !.readBuf = EraseData(ch.readBuf, k), !.sendBuf = sb]
    OBVIOUS
  <2>2. PICK new : new = Counted(mid)
    OBVIOUS
  <2>3. chan' = [chan EXCEPT ![c] = new] /\ sendQue' = Append(sendQue, item)
    BY <1>3, <1>7, <1>8, <1>10, <2>1, <2>2 DEF Handle
  <2>4. new.sendFlag = chan[c].sendFlag + 1 /\ new.state # "unused"
    <3>1. mid.sendFlag = chan[c].sendFlag /\ mid.state # "unused"
          /\ DOMAIN mid = DOMAIN chan[c]
      BY <1>2, <1>5, <1>6, <2>1 DEF ChannelObject
    <3>2. "sendFlag" \in DOMAIN mid /\ "state" \in DOMAIN mid
      BY <1>5, <3>1 DEF ChannelObject
    <3>. QED
      BY <2>2, <3>1, <3>2 DEF Counted
  <2>5. ASSUME NEW d \in Channels
        PROVE  Sending(d)' = Sending(d) + (IF d = c THEN 1 ELSE 0)
    <3>1. Count(Append(sendQue, item), OwnedBy(d)) = Count(sendQue, OwnedBy(d)) + One(item, OwnedBy(d))
      BY <1>9, CountAppended DEF IInv, TypeOK
    <3>2. Count(sendQue', OwnedBy(d)) = Count(sendQue, OwnedBy(d)) + (IF d = c THEN 1 ELSE 0)
      BY <1>9, <2>3, <3>1 DEF One, OwnedBy
    <3>3. Count(cq', WritesOf(d)) = Count(cq, WritesOf(d))
      BY <1>4, ReadLeavesWrites
    <3>4. Sending(d)' = Count(sendQue', OwnedBy(d)) + Count(sq, WritesOf(d))
                          + Count(kernel, WritesOf(d)) + Count(cq, WritesOf(d))
      BY <1>4, <3>3 DEF Sending
    <3>. QED
      BY <3>2, <3>4, SendingType DEF Sending
  <2>6. Named' \subseteq Named \cup {<<fd, c>>}
    <3>1. Elems(Append(sendQue, item)) = Elems(sendQue) \cup {item}
      BY <1>9, Elements DEF IInv, TypeOK
    <3>2. Queued' \subseteq Queued \cup {<<fd, c>>}
      BY <1>9, <2>3, <3>1 DEF Queued
    <3>3. Elems(cq') \subseteq Elems(cq)
      BY <1>4, ReadLeavesWrites
    <3>4. Prepared' \subseteq Prepared
      BY <1>4, <3>3 DEF Prepared, InRing, ToKernel
    <3>. QED
      BY <3>2, <3>4 DEF Named
  <2>7. \A d \in Channels : Sending(d)' = Sending(d) + (IF d = c THEN 1 ELSE 0)
    BY <2>5
  <2>8. UNCHANGED <<connections, fault>> /\ connections[fd] = c
    BY <1>1, <1>4
  <2>9. chan' = [chan EXCEPT ![c] = new]
    BY <2>3
  <2>. QED
    BY <2>4, <2>6, <2>7, <2>8, <2>9, OneMoreWrite
<1>11. CASE ~(n > 0 /\ ~ch.closeFlag)
  <2>1. PICK new : new = [ch EXCEPT !.readBuf = EraseData(ch.readBuf, k)]
    OBVIOUS
  <2>2. chan' = [chan EXCEPT ![c] = new] /\ sendQue' = sendQue
    BY <1>3, <1>11, <2>1 DEF Handle
  <2>3. new.sendFlag = chan[c].sendFlag /\ new.state # "unused"
    BY <1>2, <1>5, <1>6, <2>1 DEF ChannelObject
  <2>4. KeepsMapped /\ KeepsFlags /\ WriteAssertsHold'
    BY <1>4, <2>2, <2>3 DEF KeepsMapped, KeepsFlags, WriteAssertsHold, WritesInv, IInv, TypeOK
  <2>. QED
    BY <1>4, <2>2, <2>4, ReadTakenKeepsWrites, WritesStay
<1>. QED
  BY <1>10, <1>11

LEMMA OnReadWrites ==
  ASSUME IInv, ReadsInv, WritesInv, fault = "none", OnRead
  PROVE  WritesInv'
<1>1. cq # <<>> /\ Done.op = "READ"
  BY DEF OnRead
<1>2. CASE ReadFaults
  <2>1. Fail("readFind") \/ Fail("already") \/ Fail("resume")
    BY <1>2 DEF ReadFaults
  <2>. QED
    BY <2>1, FailWrites
<1>. QED
  BY <1>1, <1>2, ReadEndWrites, ReadDataWrites, ReadEmptyWrites DEF OnRead

(* A write that is queued again stays one write of its channel.            *)
LEMMA WriteAgainWrites ==
  ASSUME IInv, WritesInv, cq # <<>>, Done.op = "WRITE", WriteAgain
  PROVE  WritesInv'
<1>1. PICK fd \in FDs, c \in Channels :
        fd = Done.fd /\ c = Done.channel /\ connections[fd] = c /\ <<fd, c>> \in Named
  BY WriteLeaves
<1>2. PICK item : item = WriteItem(fd, c, "read", Writable(chan[c].readBuf))
  OBVIOUS
<1>3. /\ chan' = [chan EXCEPT ![c].sendBuf = EraseData(@, Done.res)]
      /\ sendQue' = Append(sendQue, item) /\ cq' = Tail(cq)
      /\ UNCHANGED <<connections, sq, kernel, fault>>
  BY <1>1, <1>2 DEF WriteAgain, connVars
<1>4. item \in Pending /\ item.fd = fd /\ item.owner = c
  <2>1. chan[c].readBuf \in Buffers
    BY <1>1, ChannelType DEF IInv, TypeOK
  <2>2. Writable(chan[c].readBuf) \in Int
    BY <2>1, BufferType
  <2>. QED
    BY <1>1, <1>2, <2>2 DEF WriteItem, Pending
<1>5. ASSUME NEW d \in Channels PROVE Sending(d)' = Sending(d)
  <2>1. Count(Append(sendQue, item), OwnedBy(d)) = Count(sendQue, OwnedBy(d)) + One(item, OwnedBy(d))
    BY <1>4, CountAppended DEF IInv, TypeOK
  <2>2. Count(sendQue', OwnedBy(d)) = Count(sendQue, OwnedBy(d)) + (IF d = c THEN 1 ELSE 0)
    BY <1>3, <1>4, <2>1 DEF One, OwnedBy
  <2>3. /\ Count(cq', WritesOf(d)) \in Nat
        /\ Count(cq, WritesOf(d)) = Count(cq', WritesOf(d)) + (IF d = c THEN 1 ELSE 0)
    BY <1>1, <1>3, WriteLeaves
  <2>4. Sending(d)' = Count(sendQue', OwnedBy(d)) + Count(sq, WritesOf(d))
                        + Count(kernel, WritesOf(d)) + Count(cq', WritesOf(d))
    BY <1>3 DEF Sending
  <2>. QED
    BY <2>2, <2>3, <2>4, SendingType DEF Sending
<1>6. Named' \subseteq Named
  <2>1. Elems(Append(sendQue, item)) = Elems(sendQue) \cup {item}
    BY <1>4, Elements DEF IInv, TypeOK
  <2>2. Queued' \subseteq Queued \cup {<<fd, c>>}
    BY <1>3, <1>4, <2>1 DEF Queued
  <2>3. Elems(cq') \subseteq Elems(cq)
    BY <1>3, WriteLeaves
  <2>4. Prepared' \subseteq Prepared
    BY <1>3, <2>3 DEF Prepared, InRing, ToKernel
  <2>. QED
    BY <1>1, <2>2, <2>4 DEF Named
<1>7. KeepsMapped /\ KeepsFlags /\ WriteAssertsHold'
  BY <1>1, <1>3 DEF KeepsMapped, KeepsFlags, WriteAssertsHold, WritesInv, IInv, TypeOK, ChannelObject
<1>. QED
  BY <1>5, <1>6, <1>7, WritesStay DEF SameWrites

(* A finished write is counted off; the last one may close its channel.    *)
LEMMA WriteFinishedWrites ==
  ASSUME IInv, WritesInv, cq # <<>>, Done.op = "WRITE", WriteFinished
  PROVE  WritesInv'
<1>1. PICK fd \in FDs, c \in Channels :
        /\ fd = Done.fd /\ c = Done.channel /\ connections[fd] = c /\ Mapped(fd)
        /\ chan[c].sendFlag > 0
  BY WriteLeaves DEF WriteFinished
<1>2. PICK ch : ch = [chan[c] EXCEPT !.sendBuf = EraseData(@, Done.res), !.sendFlag = @ - 1]
  OBVIOUS
<1>3. /\ chan[c] \in ChannelObject /\ chan[c].state # "unused"
      /\ chan[c].sendFlag = Sending(c) /\ Sending(c) \in Nat /\ Done.res \in Int
  BY <1>1, SendingType, DoneType
     DEF IInv, TypeOK, ThreadsHoldChannels, WritesInv, FlagsCount, Completion
<1>4. /\ ch.sendFlag = Sending(c) - 1 /\ ch.sendFlag \in Nat /\ ch.state # "unused"
      /\ ch \in ChannelObject
  <2>1. EraseData(chan[c].sendBuf, Done.res) \in Buffers
    BY <1>3, ChannelType, BufferType
  <2>2. PICK sb \in Buffers : sb = EraseData(chan[c].sendBuf, Done.res)
    BY <2>1
  <2>3. PICK num \in Nat : num = chan[c].sendFlag - 1 /\ num = Sending(c) - 1
    BY <1>1, <1>3
  <2>4. ch = [chan[c] EXCEPT !.sendBuf = sb, !.sendFlag = num]
    BY <1>2, <2>2, <2>3
  <2>5. ch \in ChannelObject
    <3>1. PICK mid \in ChannelObject : mid = [chan[c] EXCEPT !.sendBuf = sb]
      BY <1>3, ChannelType
    <3>2. \A n \in Int : [mid EXCEPT !.sendFlag = n] \in ChannelObject
      BY ChannelType
    <3>3. num \in Int /\ [mid EXCEPT !.sendFlag = num] = ch
      BY <2>4, <3>1 DEF ChannelObject
    <3>. QED
      BY <3>2, <3>3
  <2>6. ch.sendFlag = num /\ ch.state = chan[c].state
    BY <1>3, <2>4 DEF ChannelObject
  <2>. QED
    BY <1>3, <2>3, <2>5, <2>6
<1>5. CASE CloseFaults(c, fd, ch)
  BY <1>5, FailWrites DEF CloseFaults
<1>6. CASE /\ IF ch.sendFlag = 0 /\ ch.closeFlag
                THEN Close(c, fd, ch)
                ELSE /\ chan' = [chan EXCEPT ![c] = ch]
                     /\ UNCHANGED <<connections, loopPc, closingFd, fault>>
           /\ cq' = Tail(cq)
           /\ UNCHANGED <<openFds, queueVars, sq, kernel, threadVars, envVars>>
  <2>1. cq' = Tail(cq) /\ UNCHANGED <<sendQue, sq, kernel>>
    BY <1>6 DEF queueVars
  <2>2. ASSUME NEW d \in Channels
        PROVE  Sending(d)' = IF d = c THEN ch.sendFlag ELSE Sending(d)
    <3>1. /\ Count(cq', WritesOf(d)) \in Nat
          /\ Count(cq, WritesOf(d)) = Count(cq', WritesOf(d)) + (IF d = c THEN 1 ELSE 0)
      BY <1>1, <2>1, WriteLeaves
    <3>2. Sending(d)' = Count(sendQue, OwnedBy(d)) + Count(sq, WritesOf(d))
                          + Count(kernel, WritesOf(d)) + Count(cq', WritesOf(d))
      BY <2>1 DEF Sending
    <3>3. Sending(d) = Sending(d)' + (IF d = c THEN 1 ELSE 0) /\ Sending(d)' \in Nat
      BY <3>1, <3>2, SendingType DEF Sending
    <3>. QED
      BY <1>4, <3>3
  <2>3. Named' \subseteq Named
    BY <2>1, WriteLeaves DEF Named, Queued, Prepared, InRing, ToKernel
  <2>4. ch.sendFlag = 0 => \A x \in Named' : x[2] # c
    <3>1. ch.sendFlag = 0 => Sending(c) = 1
      BY <1>3, <1>4
    <3>. QED
      BY <1>1, <2>1, <3>1, LastWriteTaken
  <2>5. CASE ch.sendFlag = 0 /\ ch.closeFlag
    <3>1. Close(c, fd, ch)
      BY <1>6, <2>5
    <3>. QED
      BY <1>1, <1>4, <2>2, <2>3, <2>4, <3>1, CloseWrites
  <2>6. CASE ~(ch.sendFlag = 0 /\ ch.closeFlag)
    <3>1. chan' = [chan EXCEPT ![c] = ch] /\ UNCHANGED <<connections, fault>>
      BY <1>6, <2>6
    <3>2. chan'[c] = ch /\ \A d \in Channels : d # c => chan'[d] = chan[d]
      BY <3>1 DEF IInv, TypeOK
    <3>3. FlagsCount' /\ UnusedFresh'
      BY <1>4, <2>2, <3>2 DEF WritesInv, FlagsCount, UnusedFresh
    <3>4. NamesMapped' /\ WriteAssertsHold'
      BY <2>3, <3>1 DEF WritesInv, NamesMapped, WriteAssertsHold
    <3>. QED
      BY <3>3, <3>4 DEF WritesInv
  <2>. QED
    BY <2>5, <2>6
<1>. QED
  BY <1>1, <1>2, <1>5, <1>6 DEF WriteFinished

LEMMA OnWriteWrites ==
  ASSUME IInv, WritesInv, fault = "none", OnWrite
  PROVE  WritesInv'
<1>1. cq # <<>> /\ Done.op = "WRITE"
  BY DEF OnWrite
<1>2. CASE WriteFaults
  <2>1. PICK fd \in FDs, c \in Channels : fd = Done.fd /\ c = Done.channel /\ connections[fd] = c
    BY <1>1, WriteLeaves
  <2>2. Mapped(fd)
    BY <2>1, UringAssumption DEF Mapped
  <2>3. chan[c].sendFlag # 0
    <3>1. <<fd, c>> \in Named
      BY <1>1, <2>1, WriteLeaves
    <3>2. Sending(c) # 0
      BY <3>1, NoneSending
    <3>. QED
      BY <3>2 DEF WritesInv, FlagsCount
  <2>4. Fail("eraseData")
    BY <1>2, <2>1, <2>2, <2>3 DEF WriteFaults
  <2>. QED
    BY <2>4, FailWrites
<1>. QED
  BY <1>1, <1>2, WriteAgainWrites, WriteFinishedWrites DEF OnWrite

(* Openers map descriptors that no write names.                            *)
LEMMA OpenerWrites ==
  ASSUME IInv, ReadsInv, WritesInv, fault = "none", OpenerStep
  PROVE  WritesInv'
<1>1. PICK o \in Openers :
        \/ \E fd \in FDs : OpenFd(o, fd)
        \/ InsertFd(o) \/ StartCoroutine(o) \/ AssignTask(o) \/ SetAddr(o)
  BY DEF OpenerStep
<1>2. CASE (\E fd \in FDs : OpenFd(o, fd)) \/ StartCoroutine(o)
  <2>1. UNCHANGED <<sendQue, sq, kernel, cq, connections, chan, fault>>
    BY <1>2 DEF OpenFd, StartCoroutine, connVars, queueVars, ringVars
  <2>2. KeepsMapped /\ KeepsFlags /\ WriteAssertsHold'
    BY <2>1 DEF KeepsMapped, KeepsFlags, WriteAssertsHold, WritesInv
  <2>. QED
    BY <2>1, <2>2, RingSameWrites, WritesStay
<1>3. CASE AssignTask(o) \/ SetAddr(o)
  <2>1. UNCHANGED <<sendQue, sq, kernel, cq, connections, fault>>
    BY <1>3 DEF AssignTask, SetAddr, connVars, queueVars, ringVars
  <2>2. PICK c \in Channels : c = opener[o].channel
    BY <1>3 DEF AssignTask, SetAddr, IInv, ThreadsHoldChannels
  <2>3. \/ chan' = [chan EXCEPT ![c].task = "frame"] \/ chan' = [chan EXCEPT ![c].addr = TRUE]
        \/ chan' = chan
    BY <1>3, <2>2 DEF AssignTask, SetAddr
  <2>4. chan \in [Channels -> ChannelObject]
    BY DEF IInv, TypeOK
  <2>5. KeepsFlags
    BY <2>3, <2>4 DEF KeepsFlags, ChannelObject
  <2>6. KeepsMapped /\ WriteAssertsHold'
    BY <2>1 DEF KeepsMapped, WriteAssertsHold, WritesInv
  <2>. QED
    BY <2>1, <2>5, <2>6, RingSameWrites, WritesStay
<1>4. CASE InsertFd(o)
  <2>1. PICK fd \in FDs, c \in Channels :
          /\ fd = opener[o].fd /\ c = opener[o].channel /\ ~Mapped(fd)
          /\ chan[c].state = "unused"
    BY <1>4 DEF InsertFd, IInv, ThreadsHoldChannels, ReadsInv, Apart, OpenersApart, InFlight
  <2>2. /\ connections' = [connections EXCEPT ![fd] = c]
        /\ chan' = [chan EXCEPT ![c] = NewChannel(fd)]
        /\ UNCHANGED <<sendQue, sq, kernel, cq, fault>>
    BY <1>4, <2>1 DEF InsertFd, queueVars, ringVars
  <2>3. NewChannel(fd).sendFlag = 0 /\ NewChannel(fd).state = "live" /\ chan[c].sendFlag = 0
    BY <2>1 DEF NewChannel, WritesInv, UnusedFresh
  <2>4. KeepsMapped /\ KeepsFlags /\ WriteAssertsHold'
    BY <2>1, <2>2, <2>3 DEF KeepsMapped, KeepsFlags, Mapped, WriteAssertsHold, WritesInv, IInv, TypeOK
  <2>. QED
    BY <2>2, <2>4, RingSameWrites, WritesStay
<1>. QED
  BY <1>1, <1>2, <1>3, <1>4

LEMMA StepWrites ==
  Senders = {} => (IInv /\ ReadsInv /\ WritesInv /\ [Next]_vars => WritesInv')
<1>. SUFFICES ASSUME Senders = {}, IInv, ReadsInv, WritesInv, [Next]_vars PROVE WritesInv'
  OBVIOUS
<1>1. CASE UNCHANGED vars
  <2>1. UNCHANGED <<sendQue, sq, kernel, cq, connections, chan, fault>>
    BY <1>1 DEF vars
  <2>2. KeepsMapped /\ KeepsFlags /\ WriteAssertsHold'
    BY <2>1 DEF KeepsMapped, KeepsFlags, WriteAssertsHold, WritesInv
  <2>. QED
    BY <2>1, <2>2, RingSameWrites, WritesStay
<1>2. CASE fault = "none" /\ LoopStep
  BY <1>2, SubmitWrites, OnReadWrites, OnWriteWrites, BeginRecvWrites, BeginSendWrites DEF LoopStep
<1>3. CASE fault = "none" /\ OpenerStep
  BY <1>3, OpenerWrites
<1>4. CASE fault = "none" /\ SenderStep
  BY <1>4 DEF SenderStep
<1>5. CASE fault = "none" /\ KernelStep
  BY <1>5, CompleteWrites DEF KernelStep
<1>6. CASE fault = "none" /\ SetErrno
  BY <1>6, SubmitWrites
<1>7. CASE fault = "none" /\ MapRace
  <2>1. Fail("mapRace")
    BY <1>7 DEF MapRace
  <2>. QED
    BY <2>1, FailWrites
<1>. QED
  BY <1>1, <1>2, <1>3, <1>4, <1>5, <1>6, <1>7 DEF Next

LEMMA WritesInvariant == Senders = {} => (Spec => []WritesInv)
<1>. SUFFICES ASSUME Senders = {} PROVE Spec => []WritesInv
  OBVIOUS
<1>1. IInv /\ ReadsInv /\ WritesInv /\ [Next]_vars => WritesInv'
  BY StepWrites
<1>. QED
  BY <1>1, InitWrites, Invariance, ReadsInvariant, PTL DEF Spec

(* When only handlers send, sendFlag_ is the number of writes under way    *)
(* for the channel, and each of them goes to the descriptor the channel is *)
(* still mapped at, however many connections come and go.                  *)
THEOREM SendFlagIsExact == Senders = {} => (Spec => []SendFlagCountsWrites)
<1>1. IInv /\ WritesInv => SendFlagCountsWrites
  <2>. SUFFICES ASSUME IInv, WritesInv PROVE SendFlagCountsWrites
    OBVIOUS
  <2>1. \A c \in Channels : chan[c].sendFlag = WriteTokens(c)
    BY SendingIsWriteTokens DEF WritesInv, FlagsCount
  <2>2. \A i \in DOMAIN sendQue : connections[sendQue[i].fd] = sendQue[i].owner
    <3>1. ASSUME NEW i \in DOMAIN sendQue
          PROVE  connections[sendQue[i].fd] = sendQue[i].owner
      <4>1. <<sendQue[i].fd, sendQue[i].owner>> \in Named
        BY DEF Named, Queued, Elems
      <4>. QED
        BY <4>1 DEF WritesInv, NamesMapped
    <3>. QED
      BY <3>1
  <2>3. ASSUME NEW m \in InRing, m.op = "WRITE"
        PROVE  connections[m.fd] = m.channel
    <3>1. <<m.fd, m.channel>> \in Named
      BY <2>3 DEF Named, Prepared
    <3>. QED
      BY <3>1 DEF WritesInv, NamesMapped
  <2>4. \A s \in {sq, kernel, cq} : \A i \in DOMAIN s :
          s[i].op = "WRITE" => connections[s[i].fd] = s[i].channel
    BY <2>3 DEF InRing, ToKernel, Elems
  <2>. QED
    BY <2>1, <2>2, <2>4 DEF SendFlagCountsWrites
<1>. QED
  BY <1>1, Invariance, WritesInvariant, PTL

(* When only handlers send, the assertions of beginSend, of the WRITE      *)
(* branch and of reduseSend hold.                                          *)
THEOREM WriteAssertionsHold == Senders = {} => (Spec => []WriteAssertsHold)
<1>1. WritesInv => WriteAssertsHold
  BY DEF WritesInv
<1>. QED
  BY <1>1, WritesInvariant, PTL

(* When only handlers send, a descriptor is given back to the operating    *)
(* system only when no request and no queued read or write names it.       *)
THEOREM ClosedDescriptorsAreQuiet == Senders = {} => (Spec => ClosedFdsAreQuiet)
<1>. DEFINE Quiet(fd) == /\ fd \notin {recvQue[i] : i \in DOMAIN recvQue}
                         /\ fd \notin {sendQue[i].fd : i \in DOMAIN sendQue}
                         /\ \A s \in {sq, kernel, cq} : \A i \in DOMAIN s : s[i].fd # fd
<1>1. ASSUME IInv, ReadsInv, NEW fd \in FDs, WritesInv, ~Mapped(fd)
      PROVE  Quiet(fd)
  <2>1. Tokens(fd) = 0
    BY <1>1 DEF ReadsInv, OneToken, Listening
  <2>2. fd \notin Elems(recvQue) /\ \A m \in InRing : m.op = "READ" => m.fd # fd
    BY <1>1, <2>1, NoToken
  <2>3. \A x \in Named : x[1] # fd
    BY <1>1, NamedType, UringAssumption DEF WritesInv, NamesMapped, Mapped
  <2>4. ASSUME NEW m \in InRing, m.op = "WRITE" PROVE m.fd # fd
    <3>1. <<m.fd, m.channel>> \in Named
      BY <2>4 DEF Named, Prepared
    <3>. QED
      BY <2>3, <3>1
  <2>5. ASSUME NEW p \in Elems(sendQue) PROVE p.fd # fd
    <3>1. <<p.fd, p.owner>> \in Named
      BY DEF Named, Queued
    <3>. QED
      BY <2>3, <3>1
  <2>6. \A m \in InRing : m.op \in {"READ", "WRITE"}
    BY <1>1, ElemsType DEF InRing, Request, Completion
  <2>. QED
    BY <2>2, <2>4, <2>5, <2>6 DEF Elems, InRing, ToKernel
<1>2. IInv /\ ReadsInv /\ WritesInv /\ [Next]_vars =>
        [\A fd \in openFds \ openFds' : Quiet(fd)]_vars
  <2>. SUFFICES ASSUME IInv, ReadsInv, WritesInv, [Next]_vars, NEW fd \in openFds \ openFds'
                PROVE  Quiet(fd)
    OBVIOUS
  <2>1. OsClose
    <3>1. openFds' = openFds \/ OsClose \/ openFds \subseteq openFds'
      BY DEF Next, vars, LoopStep, OpenerStep, SenderStep, KernelStep, SetErrno, MapRace, Fail,
             allButFault, connVars, EndOfCqes, OnRead, ReadEnd, ReadData, ReadEmpty, ReadFaults,
             CloseFaults, OnWrite, WriteAgain, WriteFinished, WriteFaults, BeginRecv, BeginSend,
             Submit, OpenFd, InsertFd, StartCoroutine, AssignTask, SetAddr, SendBegin, SendInput,
             SendCount, Complete
    <3>. QED
      BY <3>1
  <2>2. fd = closingFd /\ ~Mapped(closingFd) /\ fd \in FDs
    BY <2>1 DEF OsClose, ReadsInv, Apart, ClosingApart, IInv, TypeOK
  <2>. QED
    BY <1>1, <2>2
<1>. QED
  BY <1>2, Invariance, ReadsInvariant, WritesInvariant, PTL DEF Spec, ClosedFdsAreQuiet

=============================================================================
