-------------------------------- MODULE Uring --------------------------------
(***************************************************************************)
(* The network core of the RPC library: TcpServer's accept path, Channel,  *)
(* the per-connection read coroutine and the io_uring event loop.          *)
(*                                                                         *)
(* Four kinds of actor run concurrently:                                   *)
(*   - the loop thread, which runs Uring::eventLoop over and over;         *)
(*   - the openers: the accept thread (TcpServer::listen_in_loop) and a    *)
(*     caller of TcpServer::createConnection, both inside addNewFd;        *)
(*   - threads of the application that call Channel::send;                 *)
(*   - the kernel, which completes submitted requests in any order.        *)
(*                                                                         *)
(* A failed assert(), and a call through a coroutine handle that is null   *)
(* or destroyed, ends the process: it sets "fault" to the place, and no    *)
(* action is enabled any more.                                             *)
(***************************************************************************)
EXTENDS Buffer, Sequences, FiniteSets, SequencesExt

CONSTANTS
  FDs,           \* file descriptors the operating system hands out
  Channels,      \* Channel objects; one per connection ever opened
  NoChannel,     \* connections_ has no entry
  NoFd,          \* no descriptor
  Openers,       \* subset of {"accept", "connect"}
  Senders,       \* application threads that call Channel::send
  QueueSize,     \* the queue_size the ring is created with
  BufSize,       \* bufSize of a Channel
  MaxLen,        \* bytes in one send
  MaxSends,      \* bound: calls of send in a behaviour
  MinIndex,      \* bound: how far failed writes take sendBuf_.readIndex_ down
  ErrnoMayBeSet, \* whether a libc call in the loop thread may leave errno # 0
  TaskKept       \* whether Channel::task() gives access to task_ (see AssignTask)

ASSUME UringAssumption ==
  /\ NoChannel \notin Channels /\ NoFd \notin FDs
  /\ Openers \subseteq {"accept", "connect"}
  /\ QueueSize \in Nat /\ QueueSize >= 2
  /\ BufSize \in Nat \ {0}
  /\ MaxLen \in Nat /\ MaxSends \in Nat /\ MinIndex \in Nat
  /\ ErrnoMayBeSet \in BOOLEAN
  /\ TaskKept \in BOOLEAN

VARIABLES
  openFds,       \* descriptors the operating system holds open
  connections,   \* Uring::connections_
  chan,          \* the Channel objects
  recvQue,       \* Uring::recvQue_
  sendQue,       \* Uring::sendQue_
  sq,            \* requests prepared and not yet submitted
  kernel,        \* requests the kernel works on
  cq,            \* completions the loop has not looked at
  freeNum,       \* Uring::freeNum_
  loopPc,        \* where the loop thread is in eventLoop
  closingFd,     \* the descriptor removeFd is about to ::close
  opener,        \* where each opener is
  sender,        \* where each application thread is in Channel::send
  sends,         \* calls of send so far
  errno,         \* errno of the loop thread is not 0
  fault          \* "none", or the place where the process died

connVars   == <<openFds, connections>>
queueVars  == <<recvQue, sendQue>>
ringVars   == <<sq, kernel, cq>>
loopVars   == <<freeNum, loopPc, closingFd>>
threadVars == <<opener, sender>>
envVars    == <<sends, errno>>

vars == <<openFds, connections, chan, recvQue, sendQue, sq, kernel, cq, freeNum,
          loopPc, closingFd, opener, sender, sends, errno, fault>>

allButFault == <<connVars, chan, queueVars, ringVars, loopVars, threadVars, envVars>>

(***************************************************************************)
(* Data.                                                                   *)
(***************************************************************************)
OpenerPc == {"idle", "insert", "start", "assign", "setAddr"}
SenderPc == {"idle", "input", "count"}
LoopPc   == {"cqe", "osClose", "recv", "send", "submit"}

(* task is the coroutine handle stored in task_: "null" when it was never  *)
(* stored, "frame" for a suspended coroutine, "freed" once destroyed.      *)
NewChannel(fd) ==
  [state |-> "live", fd |-> fd, task |-> "null", sendFlag |-> 0, closeFlag |-> FALSE,
   readBuf |-> NewBuffer(BufSize), sendBuf |-> NewBuffer(BufSize), addr |-> FALSE]

Unused == [NewChannel(NoFd) EXCEPT !.state = "unused"]

Fail(place) == fault' = place /\ UNCHANGED allButFault

(* A pending write is the <<fd, ptr, len>> that send queues.  The pointer  *)
(* is kept as the channel and the buffer it points into.                   *)
WriteItem(fd, c, buf, len) == [fd |-> fd, owner |-> c, buf |-> buf, len |-> len]

(* The room is dispWriteBuf() at the time the request is prepared.         *)
ReadRequestStale(fd) ==   \* variant: the whole buffer, whatever it holds
  [op |-> "READ", fd |-> fd, channel |-> connections[fd], owner |-> connections[fd],
   buf |-> "read", len |-> BufSize - 1]

ReadRequest(fd) ==
  [op |-> "READ", fd |-> fd, channel |-> connections[fd], owner |-> connections[fd],
   buf |-> "read", len |-> Writable(chan[connections[fd]].readBuf)]

WriteRequest(item) ==
  [op |-> "WRITE", fd |-> item.fd, channel |-> connections[item.fd],
   owner |-> item.owner, buf |-> item.buf, len |-> item.len]

Mapped(fd) == connections[fd] # NoChannel

(* freeNum_++: the slot of a finished request is free again.               *)
SlotLost == UNCHANGED freeNum   \* variant: it is not
SlotBack == freeNum' = freeNum + 1

(* sendFlag_++ in send.                                                    *)
Uncounted(ch) == ch             \* variant: forgotten
Counted(ch) == [ch EXCEPT !.sendFlag = @ + 1]

(* close() only marks a channel while sends are pending.                   *)
DeferNever(ch)  == FALSE              \* variants of the test in close()
DeferAlways(ch) == TRUE
DeferIfMany(ch) == ch.sendFlag > 1
CloseDeferred(ch) == ch.sendFlag > 0

(* connections_.erase in removeFd.                                         *)
StillMapped(fd) == connections  \* variant: nothing is erased
Unmapped(fd) == [connections EXCEPT ![fd] = NoChannel]

-----------------------------------------------------------------------------
(***************************************************************************)
(* Channel::close and Channel::reduseSend, as they run in the loop thread. *)
(* Close(c, fd, ch) is what close does to a channel whose record is ch; it *)
(* leaves the ::close of the descriptor to the loop's next step, because   *)
(* another thread may open a connection between the two.                   *)
(***************************************************************************)
Close(c, fd, ch) ==
  \/ /\ CloseDeferred(ch)
     /\ chan' = [chan EXCEPT ![c] = [ch EXCEPT !.closeFlag = TRUE]]
     /\ UNCHANGED <<connections, loopPc, closingFd, fault>>
  \/ /\ ~CloseDeferred(ch) /\ ch.task = "frame" /\ connections[fd] = c
     /\ chan' = [chan EXCEPT ![c] = [ch EXCEPT !.task = "freed", !.state = "gone"]]
     /\ connections' = Unmapped(fd)
     /\ closingFd' = fd
     /\ loopPc' = "osClose"
     /\ UNCHANGED fault

CloseFaults(c, fd, ch) ==
  /\ ~CloseDeferred(ch)
  /\ \/ ch.task # "frame" /\ Fail("destroy")
     \/ ch.task = "frame" /\ connections[fd] # c /\ Fail("removeFd")

(* ::close(fd), the last line of removeFd.                                 *)
OsClose ==
  /\ loopPc = "osClose"
  /\ openFds' = openFds \ {closingFd}
  /\ loopPc' = "cqe"
  /\ UNCHANGED <<connections, chan, queueVars, ringVars, freeNum, closingFd,
                 threadVars, envVars, fault>>

(***************************************************************************)
(* eventLoop, the READ branch.                                             *)
(***************************************************************************)
Done == Head(cq)

(* The peer closed, or the receive failed, and errno is 0.                 *)
ReadEnd ==
  LET c == Done.channel IN
  /\ Mapped(Done.fd)
  /\ Done.res <= 0 /\ ~errno
  /\ \/ /\ Close(c, Done.fd, chan[c])
        /\ SlotBack
        /\ cq' = Tail(cq)
        /\ UNCHANGED <<openFds, queueVars, sq, kernel, threadVars, envVars>>
     \/ CloseFaults(c, Done.fd, chan[c])

(* The handler the server installed runs in the loop thread.  It consumes  *)
(* k bytes of the read buffer and may answer with one send of n bytes;     *)
(* then the coroutine asks for the next receive and suspends.              *)
Handle(c, fd, ch, k, n) ==
  LET rb == EraseData(ch.readBuf, k)
      sb == Input(ch.sendBuf, n)
      answers == n > 0 /\ ~ch.closeFlag
  IN  /\ chan' = [chan EXCEPT ![c] =
                    IF answers
                    THEN Counted([ch EXCEPT !.readBuf = rb, !.sendBuf = sb])
                    ELSE [ch EXCEPT !.readBuf = rb]]
      /\ sendQue' = IF answers
                    THEN Append(sendQue, WriteItem(fd, c, "send", Readable(sb)))
                    ELSE sendQue
      /\ sends' = IF n > 0 THEN sends + 1 ELSE sends
      /\ recvQue' = Append(recvQue, fd)

ReadData ==
  LET c  == Done.channel
      ch == [chan[c] EXCEPT !.readBuf = Already(@, Done.res)]
  IN  /\ Mapped(Done.fd)
      /\ Done.res > 0 \/ errno
      /\ AlreadyAsserts(chan[c].readBuf, Done.res)
      /\ ch.task = "frame"
      /\ Readable(ch.readBuf) > 0
      /\ \E k \in 0..Readable(ch.readBuf), n \in 0..MaxLen :
           /\ n > 0 => sends < MaxSends
           /\ Handle(c, Done.fd, ch, k, n)
      /\ SlotBack
      /\ cq' = Tail(cq)
      /\ UNCHANGED <<connVars, sq, kernel, loopPc, closingFd, threadVars, errno, fault>>

(* With errno # 0 an end of stream reaches the coroutine as an empty view. *)
(* The coroutine calls close itself: either the close is deferred and the  *)
(* frame ends under the handle, or close destroys the frame it runs in.    *)
ReadEmpty ==
  LET c  == Done.channel
      ch == [chan[c] EXCEPT !.readBuf = Already(@, Done.res)]
  IN  /\ Mapped(Done.fd)
      /\ Done.res <= 0 /\ errno
      /\ AlreadyAsserts(chan[c].readBuf, Done.res)
      /\ ch.task = "frame"
      /\ Readable(ch.readBuf) = 0
      /\ \/ /\ CloseDeferred(ch)
            /\ chan' = [chan EXCEPT ![c] =
                          [ch EXCEPT !.closeFlag = TRUE, !.task = "freed"]]
            /\ SlotBack
            /\ cq' = Tail(cq)
            /\ UNCHANGED <<connVars, queueVars, sq, kernel, loopPc, closingFd,
                           threadVars, envVars, fault>>
         \/ ~CloseDeferred(ch) /\ Fail("destroyRunning")

ReadFaults ==
  LET rb == chan[Done.channel].readBuf IN
  \/ ~Mapped(Done.fd) /\ Fail("readFind")
  \/ /\ Mapped(Done.fd)
     /\ Done.res > 0 \/ errno
     /\ \/ ~AlreadyAsserts(rb, Done.res) /\ Fail("already")
        \/ /\ AlreadyAsserts(rb, Done.res)
           /\ chan[Done.channel].task # "frame"
           /\ Fail("resume")

OnRead ==
  /\ loopPc = "cqe" /\ cq # <<>> /\ Done.op = "READ"
  /\ ReadEnd \/ ReadData \/ ReadEmpty \/ ReadFaults

(***************************************************************************)
(* eventLoop, the WRITE branch.  What is left to send is asked of          *)
(* dispWriteBuf, which is the free room of the READ buffer; while there is *)
(* some, it is queued as another write and the slot is not given back.     *)
(***************************************************************************)
WriteAgain ==
  LET fd == Done.fd
      c  == connections[fd]
  IN  /\ Mapped(fd)
      /\ EraseAsserts(chan[c].sendBuf, Done.res)
      /\ Writable(chan[c].readBuf) > 0
      /\ chan' = [chan EXCEPT ![c].sendBuf = EraseData(@, Done.res)]
      /\ sendQue' = Append(sendQue, WriteItem(fd, c, "read", Writable(chan[c].readBuf)))
      /\ cq' = Tail(cq)
      /\ UNCHANGED <<connVars, recvQue, sq, kernel, loopVars, threadVars, envVars, fault>>

(* reduseSend: the last pending send of a channel marked for closing       *)
(* closes it.                                                              *)
WriteFinished ==
  LET fd == Done.fd
      c  == connections[fd]
      ch == [chan[c] EXCEPT !.sendBuf = EraseData(@, Done.res), !.sendFlag = @ - 1]
  IN  /\ Mapped(fd)
      /\ EraseAsserts(chan[c].sendBuf, Done.res)
      /\ Writable(chan[c].readBuf) = 0
      /\ chan[c].sendFlag > 0
      /\ \/ /\ IF ch.sendFlag = 0 /\ ch.closeFlag
               THEN Close(c, fd, ch)
               ELSE /\ chan' = [chan EXCEPT ![c] = ch]
                    /\ UNCHANGED <<connections, loopPc, closingFd, fault>>
            /\ SlotBack
            /\ cq' = Tail(cq)
            /\ UNCHANGED <<openFds, queueVars, sq, kernel, threadVars, envVars>>
         \/ ch.closeFlag /\ CloseFaults(c, fd, ch)

WriteFaults ==
  LET c == connections[Done.fd] IN
  \/ ~Mapped(Done.fd) /\ Fail("writeFind")
  \/ /\ Mapped(Done.fd)
     /\ \/ ~EraseAsserts(chan[c].sendBuf, Done.res) /\ Fail("eraseData")
        \/ /\ EraseAsserts(chan[c].sendBuf, Done.res)
           /\ Writable(chan[c].readBuf) = 0
           /\ chan[c].sendFlag = 0
           /\ Fail("reduseSend")

OnWrite ==
  /\ loopPc = "cqe" /\ cq # <<>> /\ Done.op = "WRITE"
  /\ WriteAgain \/ WriteFinished \/ WriteFaults

(* io_uring_for_each_cqe stops when it finds the completion ring empty.    *)
EndOfCqes ==
  /\ loopPc = "cqe" /\ cq = <<>>
  /\ loopPc' = "recv"
  /\ UNCHANGED <<connVars, chan, queueVars, ringVars, freeNum, closingFd,
                 threadVars, envVars, fault>>

(***************************************************************************)
(* beginRecv and beginSend take as many queued items as there are free     *)
(* slots, under the queue's mutex, and prepare one request for each.       *)
(***************************************************************************)
BatchTooBig(que) == Len(que)   \* variant: without looking at freeNum_
Batch(que) == IF Len(que) <= freeNum THEN Len(que) ELSE freeNum

LeftNothing(que) == <<>>       \* variant: the swap of the first branch in both
Left(que) == SubSeq(que, Batch(que) + 1, Len(que))

BeginRecv ==
  LET k == Batch(recvQue) IN
  /\ loopPc = "recv"
  /\ \/ /\ \A i \in 1..k : Mapped(recvQue[i])
        /\ freeNum' = freeNum - k
        /\ sq' = sq \o [i \in 1..k |-> ReadRequest(recvQue[i])]
        /\ recvQue' = Left(recvQue)
        /\ loopPc' = "send"
        /\ UNCHANGED <<connVars, chan, sendQue, kernel, cq, closingFd, threadVars,
                       envVars, fault>>
     \/ /\ \E i \in 1..k : ~Mapped(recvQue[i])
        /\ Fail("beginRecv")

BeginSend ==
  LET k == Batch(sendQue) IN
  /\ loopPc = "send"
  /\ \/ /\ \A i \in 1..k : Mapped(sendQue[i].fd)
        /\ freeNum' = freeNum - k
        /\ sq' = sq \o [i \in 1..k |-> WriteRequest(sendQue[i])]
        /\ sendQue' = Left(sendQue)
        /\ loopPc' = "submit"
        /\ UNCHANGED <<connVars, chan, recvQue, kernel, cq, closingFd, threadVars,
                       envVars, fault>>
     \/ /\ \E i \in 1..k : ~Mapped(sendQue[i].fd)
        /\ Fail("beginSend")

(* io_uring_submit hands everything prepared to the kernel.                *)
Submit ==
  /\ loopPc = "submit"
  /\ kernel' = kernel \o sq
  /\ sq' = <<>>
  /\ loopPc' = "cqe"
  /\ UNCHANGED <<connVars, chan, queueVars, cq, freeNum, closingFd, threadVars,
                 envVars, fault>>

(* A call made in the loop thread leaves errno set; nothing clears it.     *)
SetErrno ==
  /\ ErrnoMayBeSet /\ ~errno
  /\ errno' = TRUE
  /\ UNCHANGED <<connVars, chan, queueVars, ringVars, loopVars, threadVars, sends, fault>>

-----------------------------------------------------------------------------
(***************************************************************************)
(* Openers.  accept or connect returns a descriptor; addNewFd inserts the  *)
(* channel, starts the coroutine, whose first act is to queue a read, and  *)
(* stores the coroutine; the accept thread then sets the peer address.     *)
(***************************************************************************)
Goto(o, pc) == opener' = [opener EXCEPT ![o].pc = pc]

OpenFd(o, fd) ==
  /\ opener[o].pc = "idle"
  /\ fd \notin openFds
  /\ \E c \in Channels :
       /\ chan[c].state = "unused"
       /\ \A p \in Openers : opener[p].channel # c
       /\ opener' = [opener EXCEPT ![o] = [pc |-> "insert", fd |-> fd, channel |-> c]]
  /\ openFds' = openFds \cup {fd}
  /\ UNCHANGED <<connections, chan, queueVars, ringVars, loopVars, sender, envVars, fault>>

InsertFd(o) ==
  LET fd == opener[o].fd
      c  == opener[o].channel
  IN  /\ opener[o].pc = "insert"
      /\ \/ /\ ~Mapped(fd)
            /\ connections' = [connections EXCEPT ![fd] = c]
            /\ chan' = [chan EXCEPT ![c] = NewChannel(fd)]
            /\ Goto(o, "start")
            /\ UNCHANGED <<openFds, queueVars, ringVars, loopVars, sender, envVars, fault>>
         \/ Mapped(fd) /\ Fail("addNewFd")

(* coroutineFun runs to its first co_await: ReadWaitor::await_suspend.     *)
StartCoroutineTwice(o) ==   \* variant: addNewFd asks for a read as well
  /\ opener[o].pc = "start"
  /\ recvQue' = recvQue \o <<opener[o].fd, opener[o].fd>>
  /\ Goto(o, "assign")
  /\ UNCHANGED <<connVars, chan, sendQue, ringVars, loopVars, sender, envVars, fault>>

StartCoroutine(o) ==
  /\ opener[o].pc = "start"
  /\ recvQue' = Append(recvQue, opener[o].fd)
  /\ Goto(o, "assign")
  /\ UNCHANGED <<connVars, chan, sendQue, ringVars, loopVars, sender, envVars, fault>>

(* newChannel->task() = coroutineFun(...).  task() returns task_ by value, *)
(* so the assignment changes a temporary and task_ stays null: that is     *)
(* TaskKept = FALSE.  TaskKept = TRUE is the same program with task()      *)
(* returning a reference; it opens the rest of the read path to checking.  *)
AssignTask(o) ==
  /\ opener[o].pc = "assign"
  /\ chan' = IF TaskKept
             THEN [chan EXCEPT ![opener[o].channel].task = "frame"]
             ELSE chan
  /\ Goto(o, IF o = "accept" THEN "setAddr" ELSE "idle")
  /\ UNCHANGED <<connVars, queueVars, ringVars, loopVars, sender, envVars, fault>>

SetAddr(o) ==
  /\ opener[o].pc = "setAddr"
  /\ chan' = [chan EXCEPT ![opener[o].channel].addr = TRUE]
  /\ Goto(o, "idle")
  /\ UNCHANGED <<connVars, queueVars, ringVars, loopVars, sender, envVars, fault>>

(***************************************************************************)
(* Channel::send from an application thread that keeps a pointer to a      *)
(* channel, closed ones included.  Three steps the loop thread can         *)
(* interleave with: the test of closeFlag_, the input of the bytes with    *)
(* addWriteRequest, and sendFlag_++.                                       *)
(***************************************************************************)
SendBegin(t, c, n) ==
  /\ sender[t].pc = "idle"
  /\ sends < MaxSends
  /\ chan[c].state # "unused"
  /\ sender' = IF chan[c].closeFlag
               THEN sender
               ELSE [sender EXCEPT ![t] = [pc |-> "input", channel |-> c, len |-> n]]
  /\ sends' = sends + 1
  /\ UNCHANGED <<connVars, chan, queueVars, ringVars, loopVars, opener, errno, fault>>

SendInput(t) ==
  LET c  == sender[t].channel
      sb == Input(chan[c].sendBuf, sender[t].len)
  IN  /\ sender[t].pc = "input"
      /\ chan' = [chan EXCEPT ![c].sendBuf = sb]
      /\ sendQue' = Append(sendQue, WriteItem(chan[c].fd, c, "send", Readable(sb)))
      /\ sender' = [sender EXCEPT ![t].pc = "count"]
      /\ UNCHANGED <<connVars, recvQue, ringVars, loopVars, opener, envVars, fault>>

SendCount(t) ==
  /\ sender[t].pc = "count"
  /\ chan' = [chan EXCEPT ![sender[t].channel] = Counted(@)]
  /\ sender' = [sender EXCEPT ![t].pc = "idle"]
  /\ UNCHANGED <<connVars, queueVars, ringVars, loopVars, opener, envVars, fault>>

(***************************************************************************)
(* The kernel completes request i of those it works on: with a number of   *)
(* bytes up to the length asked for, with 0 at end of stream (reads), or   *)
(* with an error.  A receive into no room completes with 0.                *)
(***************************************************************************)
Complete(i, res) ==
  LET req == kernel[i] IN
  /\ res <= req.len
  /\ req.op = "WRITE" =>
       IF res = -1 THEN chan[req.owner].sendBuf.r > -MinIndex ELSE res > 0 \/ req.len = 0
  /\ kernel' = RemoveAt(kernel, i)
  /\ cq' = Append(cq, [op |-> req.op, fd |-> req.fd, channel |-> req.channel, res |-> res])
  /\ UNCHANGED <<connVars, chan, queueVars, sq, loopVars, threadVars, envVars, fault>>

(***************************************************************************)
(* connections_ is a plain std::map.  While an opener is inserting into    *)
(* it, a look-up or erase by another thread may go wrong; the outcome      *)
(* modelled is the look-up that fails its assertion or crashes.            *)
(***************************************************************************)
MapRace ==
  /\ \E o \in Openers : opener[o].pc = "insert"
  /\ \/ loopPc = "cqe" /\ cq # <<>>
     \/ loopPc = "recv" /\ Batch(recvQue) > 0
     \/ loopPc = "send" /\ Batch(sendQue) > 0
     \/ \E o, p \in Openers : o # p /\ opener[o].pc = "insert" /\ opener[p].pc = "insert"
  /\ Fail("mapRace")

-----------------------------------------------------------------------------
Init ==
  /\ openFds = {}
  /\ connections = [fd \in FDs |-> NoChannel]
  /\ chan = [c \in Channels |-> Unused]
  /\ recvQue = <<>> /\ sendQue = <<>>
  /\ sq = <<>> /\ kernel = <<>> /\ cq = <<>>
  /\ freeNum = QueueSize - 1
  /\ loopPc = "cqe"
  /\ closingFd = NoFd
  /\ opener = [o \in Openers |-> [pc |-> "idle", fd |-> NoFd, channel |-> NoChannel]]
  /\ sender = [t \in Senders |-> [pc |-> "idle", channel |-> NoChannel, len |-> 0]]
  /\ sends = 0
  /\ errno = FALSE
  /\ fault = "none"

LoopStep == OsClose \/ OnRead \/ OnWrite \/ EndOfCqes \/ BeginRecv \/ BeginSend \/ Submit

OpenerStep ==
  \E o \in Openers :
    \/ \E fd \in FDs : OpenFd(o, fd)
    \/ InsertFd(o) \/ StartCoroutine(o) \/ AssignTask(o) \/ SetAddr(o)

SenderStep ==
  \E t \in Senders :
    \/ \E c \in Channels, n \in 1..MaxLen : SendBegin(t, c, n)
    \/ SendInput(t) \/ SendCount(t)

KernelStep == \E i \in DOMAIN kernel, res \in -1..BufSize : Complete(i, res)

Next ==
  /\ fault = "none"
  /\ LoopStep \/ OpenerStep \/ SenderStep \/ KernelStep \/ SetErrno \/ MapRace

Spec == Init /\ [][Next]_vars

(* eventLoop is called again and again by its thread: the loop thread never *)
(* stops between two steps.  Nothing is assumed of peers or other threads.  *)
FairSpec == Spec /\ WF_vars(fault = "none" /\ LoopStep)

(* Moreover the kernel completes every send it was given, as it does once   *)
(* the peer has closed.                                                     *)
WriteDone ==
  \E i \in DOMAIN kernel, res \in -1..BufSize : kernel[i].op = "WRITE" /\ Complete(i, res)

FairKernelSpec == FairSpec /\ WF_vars(fault = "none" /\ WriteDone)

-----------------------------------------------------------------------------
(***************************************************************************)
(* Properties.                                                             *)
(***************************************************************************)
Request ==
  [op : {"READ", "WRITE"}, fd : FDs, channel : Channels, owner : Channels,
   buf : {"read", "send"}, len : Int]

Completion == [op : {"READ", "WRITE"}, fd : FDs, channel : Channels, res : Int]

Pending == [fd : FDs, owner : Channels, buf : {"read", "send"}, len : Int]

Buffers == [cap : Int, r : Int, w : Int]

ChannelObject ==
  [state : {"live", "gone", "unused"}, fd : FDs \cup {NoFd},
   task : {"null", "frame", "freed"}, sendFlag : Int, closeFlag : BOOLEAN,
   readBuf : Buffers, sendBuf : Buffers, addr : BOOLEAN]

(* Every variable has the shape the declarations give it, and freeNum_,    *)
(* an unsigned size_t, never wraps below zero (uring_io.cpp:86).           *)
TypeOK ==
  /\ openFds \subseteq FDs
  /\ connections \in [FDs -> Channels \cup {NoChannel}]
  /\ chan \in [Channels -> ChannelObject]
  /\ recvQue \in Seq(FDs)
  /\ sendQue \in Seq(Pending)
  /\ sq \in Seq(Request) /\ kernel \in Seq(Request) /\ cq \in Seq(Completion)
  /\ freeNum \in Nat
  /\ loopPc \in LoopPc
  /\ closingFd \in FDs \cup {NoFd}
  /\ opener \in [Openers -> [pc : OpenerPc, fd : FDs \cup {NoFd},
                             channel : Channels \cup {NoChannel}]]
  /\ sender \in [Senders -> [pc : SenderPc, channel : Channels \cup {NoChannel},
                             len : Nat]]
  /\ sends \in Nat
  /\ errno \in BOOLEAN

(* Requests under way never outnumber the ring: beginRecv and beginSend    *)
(* never prepare one io_uring_get_sqe has no entry for (its result is used *)
(* unchecked, uring_io.cpp:193 and :253), and the completion ring never    *)
(* overflows.                                                              *)
SlotBound == Len(sq) + Len(kernel) + Len(cq) <= QueueSize - 1

(* What makes SlotBound inductive: a slot is free or under way, or, after  *)
(* a write was queued again, lost.                                         *)
SlotsConserved == freeNum + Len(sq) + Len(kernel) + Len(cq) <= QueueSize - 1

(* The slot of a finished receive always comes back, whether the receive   *)
(* ended in data, in a close or in an empty view, and the two queues never *)
(* take a slot for less than one request: until somebody sends, every slot *)
(* is free or under way.  (Only a write that queues another write loses    *)
(* its slot, uring_io.cpp:138.)                                            *)
ReceivesKeepSlots ==
  sends = 0 => freeNum + Len(sq) + Len(kernel) + Len(cq) = QueueSize - 1

Positions(s, Test(_)) == Cardinality({i \in DOMAIN s : Test(s[i])})

(* The receives under way for a descriptor, wherever they are.             *)
ReadTokens(fd) ==
  LET reads(s) == Positions(s, LAMBDA m : m.op = "READ" /\ m.fd = fd)
  IN  Positions(recvQue, LAMBDA f : f = fd) + reads(sq) + reads(kernel) + reads(cq)

WriteTokens(c) ==
  LET writes(s) == Positions(s, LAMBDA m : m.op = "WRITE" /\ m.channel = c)
  IN  Positions(sendQue, LAMBDA m : m.owner = c) + writes(sq) + writes(kernel) + writes(cq)

(* A connection has exactly one receive under way from the moment its      *)
(* coroutine started until it is closing: the loop and the coroutine never *)
(* lose the re-arming of a read (the connection would be deaf) nor arm it  *)
(* twice (two receives would fill the same bytes, and the second           *)
(* completion would outlive the channel).  A closed descriptor has none.   *)
OneReadToken ==
  \A fd \in FDs :
    ReadTokens(fd) =
      IF /\ Mapped(fd)
         /\ ~chan[connections[fd]].closeFlag
         /\ \A o \in Openers : ~(opener[o].pc = "start" /\ opener[o].fd = fd)
      THEN 1 ELSE 0

(* The raw Channel* in the user data of a receive (framework.h:26) is      *)
(* dereferenced when it completes: until then the channel is still the one *)
(* mapped at that descriptor, though the descriptor can be closed, handed  *)
(* out again and mapped to another channel.                                *)
ReadsPointToLiveChannel ==
  \A s \in {sq, kernel, cq} : \A i \in DOMAIN s :
    s[i].op = "READ" => connections[s[i].fd] = s[i].channel

(* While the kernel may write into the read buffer nobody moves that       *)
(* buffer's write index: the room given to the kernel is the room there    *)
(* still is when the receive completes.                                    *)
ReceiveTargetStable ==
  \A s \in {sq, kernel} : \A i \in DOMAIN s :
    s[i].op = "READ" => s[i].len = Writable(chan[s[i].channel].readBuf)

(* The assertions the network core makes about its own bookkeeping that    *)
(* hold in every interleaving: a new descriptor is not mapped yet          *)
(* (uring_io.cpp:314), a queued or completed read finds its channel (:197, *)
(* :107), and removeFd removes the channel it was given (:299, :301).      *)
ReadAssertsHold == fault \notin {"addNewFd", "beginRecv", "readFind", "removeFd"}

(* When only handlers send, a completed or queued write finds its channel  *)
(* (uring_io.cpp:128, :258) and reduseSend finds a pending send            *)
(* (channel.cpp:45).                                                       *)
WriteAssertsHold == fault \notin {"beginSend", "writeFind", "reduseSend"}

(* When only handlers send, sendFlag_ is the number of writes under way    *)
(* for the channel, and each of them goes to the descriptor the channel is *)
(* still mapped at: a deferred close waits for exactly the writes that     *)
(* would otherwise reach another connection on the same descriptor.        *)
SendFlagCountsWrites ==
  /\ \A c \in Channels : chan[c].sendFlag = WriteTokens(c)
  /\ \A i \in DOMAIN sendQue : connections[sendQue[i].fd] = sendQue[i].owner
  /\ \A s \in {sq, kernel, cq} : \A i \in DOMAIN s :
       s[i].op = "WRITE" => connections[s[i].fd] = s[i].channel

(* A descriptor is given back to the operating system only when no request *)
(* names it: the kernel never works on a descriptor that may already       *)
(* belong to a new connection.                                             *)
ClosedFdsAreQuiet ==
  [][\A fd \in openFds \ openFds' :
       /\ fd \notin {recvQue[i] : i \in DOMAIN recvQue}
       /\ fd \notin {sendQue[i].fd : i \in DOMAIN sendQue}
       /\ \A s \in {sq, kernel, cq} : \A i \in DOMAIN s : s[i].fd # fd]_vars

(* As long as nobody has sent, every receive the coroutine asks for is      *)
(* handed to the kernel, whatever the other connections do (with at least  *)
(* as many slots as descriptors).                                          *)
ReadsAreSubmitted ==
  \A fd \in FDs :
    (\E i \in DOMAIN recvQue : recvQue[i] = fd)
      ~> (fault # "none" \/ sends > 0 \/ \E i \in DOMAIN kernel : kernel[i].fd = fd)

(* As long as nobody has sent, a connection whose receive ended is closed  *)
(* and its descriptor is given back (when no other call of the loop thread *)
(* left errno set, which would make the end look like data).               *)
EndedConnectionsClose ==
  \A fd \in FDs :
    (\E i \in DOMAIN cq : cq[i].fd = fd /\ cq[i].op = "READ" /\ cq[i].res <= 0)
      ~> (fault # "none" \/ sends > 0 \/ fd \notin openFds)

(***************************************************************************)
(* What comments and assertions of the code say, and the code does not do. *)
(***************************************************************************)

(* uring_io.cpp:59: there is a coroutine for every connection; resuming it *)
(* when data arrived finds it.                                             *)
CoroutineResumes == fault # "resume"

(* channel.cpp:45 asserts that a completed send was counted in sendFlag_.  *)
SendsAreCounted == fault # "reduseSend"

(* uring_io.cpp:258 asserts that a queued write finds its connection.      *)
QueuedWritesFindChannel == fault # "beginSend"

(* uring_io.cpp:138: what is sent again is data that came while sending,   *)
(* which the send buffer holds.                                            *)
ResendsComeFromSendBuf ==
  \A i \in DOMAIN sendQue : sendQue[i].buf = "send"

(* uring_io.h:65: freeNum_ is the number of requests that are free.        *)
FreeNumIsExact == freeNum + Len(sq) + Len(kernel) + Len(cq) = QueueSize - 1

(* channel.h:79: closeFlag_ delays the close; it does not cancel it.       *)
DelayedCloseHappens ==
  \A c \in Channels :
    chan[c].closeFlag ~> (fault # "none" \/ chan[c].state = "gone")
=============================================================================
