# Verification of Fish-rpc

TLA+ models of the RPC library under `src/`, checked with TLC on small instances
and proved with TLAPS for every instance.  `PROJECT.json` maps every definition
to the lines it models and lists the runs, the mutants that show what each
property can detect, the hazards and the theorems.

Contents: [the system](#the-system), [modules](#modules-and-how-they-follow-the-code),
[runs](#runs), [bounds, faults and fairness](#bounds-faults-deadlock-and-fairness),
[proofs](#proofs), [finding](#finding), [further disagreements](#further-disagreements),
[what is not modelled](#what-is-not-modelled), [plan](#plan).

## The system

A server is a `RpcRegistry` or a `RpcProvider` on top of a `TcpServer`.  Its
threads are: the *loop thread*, which runs `Uring::eventLoop` as the task of a
`Loop`; the *accept thread*, which runs `TcpServer::listen_in_loop` as the task
of another; the *timer worker* inside `Timer::start`; the *log thread* inside
`LogThread::logLoop`; and the application's own threads.

| Component | State | Operations | Talks to |
|---|---|---|---|
| `Buffer` | a vector, `readIndex_`, `writeIndex_` | `input`, `disRead`, `disWrite`, `eraseData`, `already` | owned by `Channel` |
| `Channel` | descriptor, two buffers, coroutine handle, `sendFlag_`, `closeFlag_`, peer address | `send`, `close`, `reduseSend`, `dispWriteBuf` | `Uring` (queues writes, `removeFd`) |
| `Uring` | `connections_`, `recvQue_`, `sendQue_`, the ring, `freeNum_` | `addNewFd`, `removeFd`, `eventLoop`, `beginRecv`, `beginSend` | kernel by the ring, coroutine by its handle, handler by callback |
| read coroutine | one frame per connection | suspends, is resumed on data, runs the handler | `Uring` (`recvQue_`) |
| `TcpServer` | the listening socket, two loops, callbacks | constructor, `begin`, `listen_in_loop`, `createConnection`, `stop` | `Uring::addNewFd`, `Channel::setAddr` |
| `TcpAddr` | an address string and a port | `avlid`, constructors from a string and a port, from a `sockaddr_in` | `TcpServer` |
| `Protocol` | state, header bytes, content | `create`, `result` | read buffer of the channel |
| `ProtocolManager` | `undoProtols_`: descriptor → unfinished `Protocol` | `readMes` | `Protocol`, `Channel` |
| `RpcRegistry` | `providers_` | `begin`, `handleMessage`, `handleProvider`, `providerNew` | `ProtocolManager`, `TcpServer` |
| `RpcProvider` | `methods_` | `begin`, `handleRead`, `registerMethod`, `run` | `TcpServer`, `Serializer` |
| `Loop` | `flag_`, `task_`, `tempTasks_`, `tempTaskMut_` | `beginInCurrentThread`, `beginInNewThread`, `setTask`, `addTempTask`, `closeLoop` | its callers, by plain fields and a mutex |
| `Timer` | the wheel (a list and a mutex per slot), `priodTimerMap_`, `wheelIndex_` | `addOnceTask`, `addPriodTask`, `removePriodTask`, `start` | its callers |
| `LogBuffer`, `LogStream` | a thread's line buffer | `<<`, `writeEnd`, hand-over | `LogThread::apendMessage` |
| `LogThread`, `LogFile`, `MyQueue` | `currentBuf_`, the pool `preBuf_`, `readyBuf_`, the open file | `apendMessage`, `logLoop` | logging threads, by `mut_` and a condition variable |
| `Serializer`, `SeriBuf` | a deque of bytes | `<<`, `>>`, `clear` | `RpcProvider::run`, its caller |
| examples | a `main` each | construct, `begin` | a registry, a provider |

What is hard, and what makes each part correct:

- **Connections.**  Four kinds of actor work on descriptors that the operating
  system hands out again, and completions carry raw `Channel*`.  Correct means:
  every open connection has exactly one receive under way, no completion finds a
  deleted channel, the ring is never over-filled, a descriptor is closed only
  when no request names it, and what was asked for reaches the kernel.
- **Timer.**  The worker erases from a list while it iterates, other threads add
  to it.  Correct means: no timer is lost, doubled or reachable once deleted,
  none runs early, every one runs, the wheel keeps turning.
- **Logging.**  A hand-made unlock behind a `unique_lock`, a bounded pool of
  buffers and a condition variable.  Correct means: text that was handed over
  reaches the file unless every buffer is full, no buffer is lost, nobody blocks.
- **Messages.**  TCP cuts bytes anywhere, the parser keeps its state between
  reads.  Correct means: what is dispatched is what was sent, in order and once,
  and the parser never claims bytes it was not shown.
- **Loop.**  Tests and assignments of plain fields by several threads.  Correct
  means: no temporary task is lost or run twice, they keep their order, a closed
  loop ends.
- **Start-up and addresses.**  From `listen` on three threads share the server, and
  the accept thread names a channel that is already served.  Correct means: no handler
  finds a callback, the log or the configuration missing, a peer is never entered
  under the address of another one, the memory of closed connections goes.
- **Buffers.**  The kernel reads from and writes to the buffers of a channel while
  they are used.  Correct means: a queue of bytes, whatever the indices do.
- **Calls.**  No tags tell one value from the next in the bytes of a `Serializer`.
  Correct means: a function is called with the values its caller wrote, the caller
  reads the value it returned, and nothing is left that would be taken for the next.

## Modules, and how they follow the code

Names are the code's where TLA+ allows it.  A small definition written next to
another one with the comment "variant" is a plausible slip in that line of the
code; the mutants of `PROJECT.json` use them.  Nothing else does.

| Module | Models | Built on |
|---|---|---|
| `Buffer` | the index arithmetic of `Buffer`, with `size_t` as arithmetic modulo `SizeMod` | – |
| `ByteQueue` | abstract: bytes leave in the order in which they came, each once, until the owner breaks the agreement | – |
| `ByteBuffer` | a read buffer or a send buffer with its bytes, the views the kernel has, and the results that are counted on it | `Buffer`; refines `ByteQueue` |
| `Uring` | `uring_io.cpp`, `channel.cpp`, `framework.cpp`, the accept and connect paths of `tcp_server.cpp` | `Buffer` |
| `Server` | `tcp_server.cpp`, `tcp_addr.cpp`, `begin` and the handlers of registry and provider, the examples: main, accept thread and loop thread | – |
| `Protocol` | `Protocol::create` and `result`, byte by byte | – |
| `Messages` | `ProtocolManager::readMes` and `RpcRegistry::handleMessage`, on connections reduced to their reads | `Protocol`, `Buffer` |
| `Serializer` | `serializer.h`, `serialize_buf.cpp`, `findType` of `rpc.h` | – |
| `Calls` | abstract: functions called by name with values | – |
| `Rpc` | `registerMethod`, `run`, `runMethod` of `rpc_provider.h`, between two serializers | `Serializer`; refines `Calls` |
| `Loop` | `loop.cpp` and its mutex | – |
| `Timer` | `timer.cpp` | – |
| `LogBuffer` | `log_stream.cpp`, `log_buffer.cpp`, `logger.cpp` | – |
| `LogThread` | `log_thread.cpp`, `log_file.cpp`, `safe_queue.h` | – |
| `MCUring`, `MCByteBuffer`, `MCServer`, `MCMessages`, `MCRpc` | symmetry sets, programs, messages, functions and values for TLC | the module they are named after |
| `UringProof`, `ByteBufferProof`, `ServerProof`, `MessagesProof`, `LoopProof`, `TimerProof`, `RpcProof`; `LogProof` | theorems | the module they are named after; `LogBuffer` and `LogThread` |

**Uring.**  A descriptor is a member of `FDs`, a `Channel` object a member of
`Channels` (never used twice, as `new` makes another one).  `loopPc` is the place
of the loop thread in `eventLoop`: it looks at completions (`OnRead`, `OnWrite`),
then prepares receives (`BeginRecv`), then sends (`BeginSend`), then submits.
`OsClose` is a step of its own, since another thread may be handed the descriptor
between `connections_.erase` and `::close`.  Openers are in `addNewFd`: insert,
start the coroutine (whose first act queues a receive), assign its handle.
`Senders` are application threads in `Channel::send`: test, queue, count.  The
kernel (`Complete`) answers any submitted request with any result.  A pending
write keeps the channel and the buffer its pointer goes into, not the bytes.
`AssignTask` is the line `channel->task() = ...`, which in the code stores into
a temporary.  `TaskKept = FALSE` is that program, and it does not survive the
first byte that arrives (see the finding); `TaskKept = TRUE` is the same program with
`task()` returning a reference, without which nothing behind the first resume
could be checked.  The theorems hold for both.

**Messages.**  A connection is its read buffer, the bytes in it and the bytes
on their way to it; `Read` is a completed receive of as many of them as fit or fewer,
with the whole call of `handleMessage`.  `Protocol!create` is written as the code is, with its states
FREE, LACK, WAITCONTENT, READY and its fall-outs of the `switch`.  `Stale` is
what `create` can find past the end of its view, where the code reads one byte
too many.  `Huge` stands for a content length no buffer reaches.

**Loop.**  `beginInCurrentThread` is split wherever another thread can see a
difference: the three checks, `reserve`, the two halves of `++idSum`, the raise of
`flag_`, the test of the loop, the task, the swap, each temporary task.  `push_back`
and the swap are two steps each, inside the mutex: what the first one saw of the vector
is what the second one builds on.

**Timer.**  A `list` of the wheel is a sequence; `iter` is the position of the
iterator.  One step of `ScanDue` is one round of the `for` loop of `start`, with
its `erase` and the `iter++` behind it, including the wrap past `end()` of the
circular list.  `Work` runs one collected timer; `Tick` moves the clock.  `Increment` and
`Wrap` turn the wheel in the two steps of the code, so that an adding thread reads
`wheelIndex_ = timeNum_` in between.  An index outside the wheel is undefined behaviour:
the client stays `"outside"` and the model stops (`Defined`).

**LogThread.**  A cell of a buffer is a block of text, the overflow mark or
nothing.  Both unlocks of `apendMessage` are steps: the second one frees
whatever lock is held then.  `LogBuffer` keeps the sizes of the pieces of a line
and nothing of their text.

**Buffer with its bytes.**  `ByteBuffer` has the two uses a `Channel` makes of a
`Buffer`.  A read buffer is filled by `Arrive` (the kernel stores behind `writeIndex_`,
`already` counts) and emptied by `Handle`.  A send buffer is filled by `Send` (`input`,
then a view of everything inside goes to the kernel) and emptied by `Sent`: a write ends,
in any order, with some of the first bytes of its view or with an error; its result,
whatever it is, is erased from `sendBuf_`; and unless `readBuf_` has no room, that room is
queued as another write (`Again`), whose result is erased from `sendBuf_` in turn.  A
`receive` that fails while `errno` is set is counted like one that brought data
(`ReceiveFailed`).  `mem` keeps what was in the vector, so bytes that should be gone can
come back if an index is wrong.  An `input` that does not fit writes behind the vector, and
an error can take an index below its place; the model stops there (`fault = "outside"`).
`exact` is a history variable: every result so far counted bytes of this very buffer that
had not been counted before.  It is what the code needs and does not see to.  On a send
buffer it ends with the second of two writes whose views overlap, with a write of
`readBuf_` and with an error; as every write that completes while `readBuf_` has room
queues one of those, that is soon.  On a read buffer it ends with a failed receive only.

**Server.**  `mainPc` walks through `Program`, the calls of a `main`; `Begin` is
split at each call it makes, since the loop and the accept thread start in the middle.
`AcceptThread` is `listen_in_loop`: accept, or its failure, `addNewFd`, and then the assignment of the
peer's address, a string and a port, of which a reader can see half.  `LoopThread`
runs the handlers and closes connections: a served connection may bring any complete
message.  A handler is split where it copies the address.  The port is a number whose
bytes `htons` and `ntohs` swap, after an `int` has been cut to 16 bits.  `socket`, `bind`,
`accept` and `connect` may fail whenever they are called, and the assert behind each ends
the process.

**Serializer, Rpc.**  `Encode` and `Decode` are the byte order and sign arithmetic of
`SeriBuf`.  A type is a record, and `CodecOf[t]` is what the compiler makes of the templates
for it, once for each of the constant `Types`: a new variable, what `<<` appends for each
of its `Values`, and what `>>` makes of the bytes in front.  The codec of a container is
made of the codec of its elements as the overloads are, with the cases in which those
fall through (`output`, `StringCodec`).  `TypesAssumption` says what the compiler sees to:
types are nested finitely (`depth`), and a variable holds a value of its type.  `Rpc` has
two serializers.  A function is the types `function_traits` finds in its signature and a
table of what it returns; `runMethod` fills the tuple from its first place, applies the
function and writes what it returned.  With too few arguments `output` leaves the rest of
a number uninitialized: `runMethodShort` chooses any value for it.


## Runs

Passing runs (`tlc -config <run>.cfg <module>`).  The type invariants of `Uring`,
`Timer`, `LogThread`, `Messages`, `Loop`, `ByteBuffer` and `Server` are proved for every
instance and not repeated here.

- **Uring_reads** (`MCUring`) – two openers, two descriptors, an application
  thread that sends, a ring of two slots.  `OneReadToken`: an open connection has
  exactly one receive, from `recvQue_` to the completion.
  `ReadsPointToLiveChannel`: the raw pointer in it is still the mapped channel.
  `ReceiveTargetStable`: the room given to the kernel stays as it was.
  `ReadAssertsHold`: the asserts on the read path hold in every interleaving.
  `SlotBound`: never more requests than slots.  `ReceivesKeepSlots`: receives give back the slots they take,
  however they end.
- **Uring_handlers** (`MCUring`) – only handlers send.  `SendFlagCountsWrites`:
  `sendFlag_` is the number of writes under way.  `WriteAssertsHold`: the
  asserts of `beginSend` and of the WRITE branch that look up the channel
  (uring_io.cpp:128, 258) and that of `reduseSend` (channel.cpp:45) hold.  The assert of
  `eraseData` (buffer.cpp:56) on the same path does not: the result of a write of
  `readBuf_` is erased from `sendBuf_` (`ErasedWasThere`, below), and in `Uring` that is
  the fault `eraseData`.  `ClosedFdsAreQuiet`: a descriptor is given back
  only when no request names it.  `ReadsAreSubmitted` and `EndedConnectionsClose`
  are the liveness of connections as long as nobody has sent; afterwards slots
  leak and closes wait for ever (see below), so no more can be promised.
- **Timer_wheel** (`Timer`) – `SlotsInWheel`: an add indexes the wheel, also when it
  reads `wheelIndex_` between its increment and its wrap; in a wheel of two slots, while one
  of a single slot breaks it (below).
  `EveryTimerInOnePlace`, `NeverEarly`, and under fairness `OneShotsRun` and `WheelTurns`: although a scan
  steps over elements and may start again at the front, a one-shot timer in the
  wheel runs, and no scan lasts for ever.
- **LogBuffer_lines** (`LogBuffer`, `LineSpec`) – `WritesInBounds`: the unchecked CRLF stays in
  the buffer.  `BlocksAreWholeLines`: what is handed over ends with a line.
- **LogThread_one** (`LogThread`) – one thread logs and the log thread does not.
  `AppendedIsInLog`, `LostOnlyByOverflow`: what was handed over is in memory or in
  a file, unless every buffer was full.  `BatchesKeepOrder`: a batch is written from
  its back, but never before an older one, and no block is further than a batch from its
  place.  `NoFault`: no assert fails.
- **LogThread_report** (`LogThread`) – the log thread logs too, so the double
  unlock bites.  `BuffersConserved`: still no buffer is lost.  `CallsReturn`: still
  every call returns.
- **Messages_pieces** (`MCMessages`) – messages that come in any number of reads,
  cut at any byte.  `NoFault`: `create` never claims more than it was shown.
  `HandledInOrder`, `RegisteredOnce`, `TwoReadsEach`: what is dispatched is what
  was sent, once, and never by a read that belongs to another message.
  One of the messages has a longer header, so that the length is read where its id is.
- **Loop_threads** (`Loop`) – two threads begin one loop, one of them made for it,
  and two others call the rest.  `TempTasksOnce`, `TempTasksInOrder` (while one
  thread has begun the loop), `TempTasksRun`, `ClosedInLoopEnds`.
- **Buffer_fifo** (`MCByteBuffer`) – `ImplementsQueue`: the buffer refines `ByteQueue`,
  so what leaves it left in the order in which it came, wherever the indices are, until
  the owner breaks the agreement (`exact`, above, or an input that does not fit).
  `AssertsHold`: until then the asserts of `eraseData` and `already` (buffer.cpp:56, 72)
  hold.  Two sends of a connection may be under way, with the writes of the read buffer
  they leave behind, and every receive and write may fail.
- **Server_accept** (`MCServer`) – two peers, two descriptors and one connection of the
  server's own, under a registry and under a provider.  `DiesOfSystemCallsOnly`: a main that
  reads the configuration, calls `init`, constructs, begins and then connects is ended by
  the asserts behind `socket`, `bind`, `accept` and `connect` (tcp_server.cpp:26, 41, 73,
  89, 99), say because a target refuses or no descriptor is left, and by nothing else: no
  missing callback, log, configuration, nor a mapped descriptor, from the first peer on.
  `AddressIsOwn`: an entry never has another peer's address, though the accept thread
  names channels late and descriptors come back.  `AcceptedGetAddress`: every accepted
  channel gets its address at last.  `ClosedAreFreed`: whoever refers to a closed channel
  lets go of it.  Both unless a failed system call ends the process before.
- **Rpc_calls** (`MCRpc`) – functions of none, one and two arguments, numbers of several
  widths and signs, nested containers and a void one, registered and replaced at any
  time.  `ImplementsCalls`: refines `Calls`, whose queues hold values, so that a byte too
  many or too few anywhere breaks it.  `BytesAreValues`: neither serializer keeps
  anything but whole values, also after a call of an unknown name or with too few
  arguments.

The run that expects a violation, **Uring_CoroutineResumes**, belongs to the
[finding](#finding).

## Bounds, faults, deadlock and fairness

**Bounds.**  They are constants of the modules and appear in the guards.

- `Uring`: two descriptors and two channels let a descriptor be closed, handed out
  and mapped again while requests of the old connection are under way.
  `QueueSize = 3` makes a ring of two slots: one for each descriptor, which the
  liveness properties need, and few enough that one lost slot or one write makes
  receives wait in `recvQue_`.  `BufSize = 2` leaves room for one byte: a receive
  fills the buffer, and a handler that leaves the byte there gets a receive of no
  bytes next.  `MaxSends` bounds calls of
  `send`, `MaxLen` their length; `MinIndex` bounds how far failed writes take an
  index down; `SizeMod` stands for 2^64 and is far above any index reached.
- `Timer`: `Round`, `Interval` give a wheel of two slots, the fewest that differ
  from each other and from none; three timers are the fewest with which an erase
  skips an element that is not the last.  `MaxTime` stops the clock, not the wheel.
- `LogThread`: `Blocks` blocks per thread, buffers of two blocks, `bufNum` of them:
  eleven blocks fill four buffers, force an overflow and rotate files.
- `LogBuffer`: 12 bytes with the two levels at 9 and 6, and pieces that just fit,
  fit below one level only, or need several.
- `Messages`: a header has 15 bytes; a content of 17 is longer than a header, and
  48 bytes of buffer hold one such message and most of another, so that a read can
  be cut by the buffer too.  `MaxSent = 2` messages of three kinds: what the first one
  leaves behind meets the second.  `MaxConns = 1`: what a second connection on a
  descriptor meets is one of the further disagreements.
- `Loop`: `MaxTemp` temporary tasks, `MaxBegins` begins per thread (two, for the
  begin of a loop that was left).
- `ByteBuffer`: `Size = 5` and chunks of one to three bytes fill the buffer exactly, leave
  one byte and overflow it.  `MaxViews = 2` writes of a connection under way are the fewest
  that overlap: the second view contains what the first one still sends, and the bytes go
  out twice.  `Errors = {1}`: one error code, the smallest step back of an index.
- `Server`: two peers and two descriptors let a descriptor be used again while the accept
  thread is about to name its last channel; `MaxProviders = 2` registrations.
- `Rpc`: `MaxPending = 3` arguments and `MaxResults = 2` results: a call of two arguments
  with one behind them, and an answer behind another one.  `Types` are those of the
  arguments and results of the functions, with the types in them; `Values` are the values
  of these that occur.

**Faults.**  A failed `assert` (the build does not define `NDEBUG`), a call through
a null or destroyed coroutine handle, and an exception nobody catches end the
process: they set `fault`, and nothing happens any more.  A data race on a map or a
vector is a nondeterministic choice between the order of either thread first and
such an end (`MapRace`, `Race`).  Liveness properties allow a fault to end the wait;
the safety properties about asserts say which faults never happen.  Only `Server` has the
system calls that open connections fail; in `Uring`, where openers begin with an open
descriptor, that would end the process and nothing else.

**Deadlock.**  `CHECK_DEADLOCK FALSE` in the runs of Uring, ByteBuffer, Server, Messages,
LogThread, Loop, Timer and Rpc: a fault stops the program, a server may wait for ever
for connections, bytes or a notification, the clock stops at `MaxTime`, a closed loop
rests, and the bounds end the rest.  That these waits are not deadlocks of the code is what the liveness
properties say.  `LogBuffer_lines` checks deadlock.

**Fairness.**

- `Uring!FairSpec`: weak fairness of the loop thread, whose task the surrounding
  `Loop` calls without a pause.  Nothing is assumed of peers, openers or senders.
  `FairKernelSpec` adds that the kernel completes sends.
- `Timer!FairSpec`: weak fairness of the worker, of the clock and of `start` being
  called.
- `LogThread!FairSpec`: strong fairness of each thread inside `apendMessage` and of
  the log thread.  Strong, because taking `mut_` is enabled only now and then; that a
  waiting thread gets a mutex others keep releasing is what glibc's mutex gives in
  practice.  Threads are not obliged to log, and no spurious wake-up is assumed.
- `Messages!FairSpec`: data that is there is read (this is `ReadsAreSubmitted` seen
  from above).
- `Loop!FairSpec`: a thread inside the loop is scheduled, its task returns, and a thread
  that is inside `push_back` leaves it and the mutex.
- `Server!FairSpec`: the accept thread goes on once `accept` has returned, and the loop
  thread ends the handler it is in.  Nothing is assumed of peers or of main.

## Proofs

| Theorem | States |
|---|---|
| `UringProof!TypeCorrect` | `Spec => []TypeOK` |
| `UringProof!SlotBoundHolds` | `Spec => []SlotBound` |
| `UringProof!SlotsStayWithReceives` | `Spec => []ReceivesKeepSlots` |
| `UringProof!OneReceivePerConnection` | `Spec => []OneReadToken` |
| `UringProof!ReceivesNameLiveChannels` | `Spec => []ReadsPointToLiveChannel` |
| `UringProof!ReceiveRoomIsStable` | `Spec => []ReceiveTargetStable` |
| `UringProof!ReadAssertionsHold` | `Spec => []ReadAssertsHold` |
| `UringProof!SendFlagIsExact` | `Spec => []SendFlagCountsWrites`, if `Senders = {}` |
| `UringProof!WriteAssertionsHold` | `Spec => []WriteAssertsHold`, if `Senders = {}` |
| `UringProof!ClosedDescriptorsAreQuiet` | `Spec => ClosedFdsAreQuiet`, an action property, if `Senders = {}` |
| `ServerProof!TypeCorrect` | `Spec => []TypeOK` |
| `ServerProof!AddressesStayOwn` | `Spec => []AddressIsOwn` |
| `ServerProof!InOrderDiesOfSystemCallsOnly` | `InOrder /\ avlid(ServerAddr) /\ Spec => []DiesOfSystemCallsOnly` |
| `ByteBufferProof!BufferAssertsHold` | `Spec => [](TypeOK /\ AssertsHold)` |
| `ByteBufferProof!BufferImplementsQueue` | `Spec => ImplementsQueue` |
| `MessagesProof!TypeCorrect` | `Spec => [](TypeOK /\ DataIsReadable)` |
| `MessagesProof!NeverClaimsMore` | `Spec => []NoFault` |
| `MessagesProof!ReadsPerMessage` | two reads for each message, less one on a descriptor that is used again |
| `MessagesProof!TwoReadsForEach` | `Spec => []TwoReadsEach`, if `MaxConns <= 1` |
| `MessagesProof!HandledAsSent` | `Spec => []HandledInOrder`, if `Legible` |
| `MessagesProof!RegisteredAsSent` | `Spec => []RegisteredOnce`, if `Legible` |
| `LoopProof!TypeCorrect` | `Spec => []TypeOK` |
| `LoopProof!TasksStayInOrder` | `Spec => []TempTasksInOrder` |
| `LoopProof!TempTasksRunOnce` | `Spec => []TempTasksOnce` |
| `TimerProof!TypeCorrect` | `Spec => []TypeOK` |
| `TimerProof!SlotsInWheelHolds` | `Spec => []SlotsInWheel`, if `TimeNum > 1` |
| `TimerProof!NeverEarlyHolds` | `Spec => NeverEarly`, an action property |
| `TimerProof!EveryTimerInOnePlaceHolds` | `Spec => []EveryTimerInOnePlace` |
| `LogProof!WritesStayInBounds` | `LineSpec => []WritesInBounds` |
| `LogProof!BlocksStayWholeLines` | `LineSpec => []BlocksAreWholeLines` |
| `LogProof!TypeCorrect` | `Spec => []TypeOK` |
| `LogProof!BuffersStayConserved` | `Spec => []BuffersConserved` |
| `LogProof!OneLoggerNoFault` | `Spec => []NoFault`, if `Alone` |
| `LogProof!OneLoggerAppends` | `Spec => []AppendedIsInLog`, if `Alone` |
| `LogProof!OneLoggerLosesByOverflow` | `Spec => LostOnlyByOverflow`, an action property, if `Alone` |
| `LogProof!OneLoggerKeepsOrder` | `Spec => []BatchesKeepOrder`, if `Alone` |
| `RpcProof!BytesStayValues` | `Spec => []BytesAreValues`, if `ComeBack` |
| `RpcProof!RpcImplementsCalls` | `Spec => ImplementsCalls`, if `ComeBack` |

Each proof module defines an inductive invariant `IInv` (in `LogProof` one more, `LineIInv`,
for `LogBuffer`), proves `Init => IInv`, one
lemma per action (or group of them) that the action keeps it, `Invariance` from
these, and its theorems from `Invariance`.  They use the named assumption of the
module's constants and nothing more, where the table does not say otherwise: any number
of descriptors, channels, peers, threads, timers or buffers, any size of the ring, the
wheel and the buffers.

- **Uring.**  `SlotBound` alone is not inductive: preparing a request is bounded by
  `freeNum_`, so `SlotsConserved` relates it to the ring – free slots and requests
  under way together never exceed `QueueSize - 1`.  It is an inequality because the
  branch that queues a write again loses a slot.  `ThreadsHoldChannels` says that a
  thread inside `addNewFd` or `send`, and the map, only hold channels that exist;
  without it the updates of `chan` could leave its type.  `OnlyReads` turns the
  inequality into an equation: until somebody sends, every request anywhere in the ring
  is a receive and nobody is inside `send`, so the losing branch is never reached.
  The properties of reads stand on `ReadsInv`.  `OneToken` counts the receives of a
  descriptor over `recvQue_`, the ring and the completions: one while somebody listens,
  none else; that is not inductive unless a descriptor is in one hand at a time (`Apart`:
  the openers, the map, and the loop thread about to close it), unless a receive names the
  mapped channel (`Pointers`) and unless its room is the room of that channel's buffer
  (`Targets`).  Counts are cardinalities of sets of positions, for which the
  lemmas `CountAppended`, `CountRemoved` and the like say what a change of the sequence
  does.  The properties of
  writes stand on `WritesInv` besides: `sendFlag_` is the number of writes on their way
  (`FlagsCount`), and what they name is mapped (`NamesMapped`), because a close waits while
  `sendFlag_` counts.  They need `Senders = {}`: with an application thread inside `send` they
  are false, as the further disagreements show.
- **Server.**  An entry gets its address by way of `clientAddr_`, of a channel that may
  be closed meanwhile and of the copy a handler makes.  `IInv` says of each of these
  places that it holds the address of its own peer, nothing or half of it; a lemma shows
  that swapping two bytes twice gives the port back.  For
  `DiesOfSystemCallsOnly`, `MainKnows` ties
  where main is, and which threads run, to what its earlier calls have set;
  `ChannelsServed` says that whatever is mapped was given the callbacks, and
  `MappedAreOpen`, `AcceptedIsNew`, `ClosingIsUnmapped` that a descriptor that is handed
  out is not mapped.  A failing system call ends the process and touches none of this
  (`SystemCallFails`).  `InOrder` is the order of calls the proof needs of a main; the
  examples do not have it (see below).
- **ByteBuffer.**  `IndicesInOrder` and `FreshAreFront`: a view of `sendBuf_` behind whose
  back no other write has ended starts at `readIndex_` and ends at or before `writeIndex_`,
  so its result can be erased.  An `assert` that fails shows that the result was not such
  a one.  The refinement maps the queue to what `disRead` shows, and to nothing once
  `exact` is lost or an input did not fit (`broken`).  Bytes stored behind `writeIndex_` change nothing in front of it;
  an `eraseData` that empties the buffer sends the indices to the front, where what
  `disRead` shows is the empty sequence as before.
- **Messages.**  `DataIsReadable`: the indices of a read buffer are in order and enclose
  as many bytes as are there, so that what `create` is shown is what `eraseData` may take.
  `CreateStep` then bounds what `create` returns: a header is found inside the view, or
  nowhere (`FoundInside`, from the least element of a set of positions), and is only
  skipped when its total length fits behind it; a content takes nothing.  The bytes that
  `create` reads past its view, and the digits, may be anything.  `PaceInv` counts reads:
  a Protocol that has begun has cost one.
  `StreamInv` follows the messages themselves.  What `create` has not taken yet, in the
  read buffer and on the wire, is the end of the messages sent, one behind the other
  (`Layout` gives the place of each, negative when its first bytes are gone), and the
  Protocol of the descriptor is in one of three phases: between two messages, where
  everything up to the next magic byte is content of a message already dispatched; with
  the whole header of the next message and nothing else; or stuck for good, where nothing
  is dispatched any more.  The last one is what the code does when a read ends inside a
  message and it loses the pieces: the theorem says that even then nothing wrong is
  dispatched, not that everything is.  `CreateFollows` is the step of `create`,
  `CutAndErase` that of the buffer and the wire, `LayoutExtended` that of a send;
  `EntriesInv` then counts the entries of `providers_` by what was dispatched.
  The hypothesis `Legible` says which peers the two theorems are about: the magic byte
  only begins messages and the header holds what `create` looks for (`WellFormed`),
  descriptors are not used again, and the bytes past a view are not at once a total
  length below 2 and a digit (with both, half a header becomes a message).  TLC finds
  `HandledInOrder` violated when any one of these three is dropped.  `BufSize <= Huge` is about `uint32_t`, and the lemma
  `DigitsAreLegible` shows that contents of up to 9999 bytes, laid out by a peer that
  writes the length in digits, are such messages.
- **Loop.**  `MutexKept`: what a thread saw when it got the mutex is still what the vector
  holds.  `TempsTaken`: a round has run all it took before the next swap.  `NotBegun`:
  threads that have not begun are not in the loop.  The order is that of one sequence –
  what ran, what the round has taken, what waits – of which a swap moves a part and
  which only `Push` makes longer.  For any number of threads in the loop the order is
  lost and `OnceInv` is left: no number is twice in a sequence, and one that was added is
  in exactly one of them.
- **Timer.**  The arithmetic lemma `SlotIsSmall` shows that the quotient by which
  the code picks a slot is 0 or 1 whatever `wheelIndex_` was read, `timeNum_` included: a
  slot of the wheel if there are two.  With one slot it need not be (`SlotsInWheel`, below),
  hence the condition `TimeNum > 1` of `SlotsInWheelHolds`; the other three theorems hold of
  such a wheel too, up to the step that indexes outside.  `CollectedWereDue` carries the test of the scan (`timePoint_ <= timeBegin`)
  to the moment the timer runs; `PointersKnown` says that what the wheel and the
  adding threads hold is a timer that was constructed.  `PlacesInv` follows a timer from
  the hand of the client (`OneHand`) to one position of one slot (`OneSpot`), into the
  batch (`OneTurn`) and back: these are apart, except for a periodic timer, which stays in
  the wheel while it is in the batch (`Apart`); a timer is alive where it is used
  (`Living`) and is not lost on the way (`Kept`).  The lemma `RemoveAtShape` says what an
  erase leaves.
- **LogBuffer.**  Between calls `writeIndex_ <= headLevel`, since a line that leaves
  more than `lowLevel` is handed over; `headLevel` leaves the CRLF its two bytes.
  `BlocksAreWholeLines` speaks of the sum of any number of sizes, which is a function
  chosen by its recursion.  That there is one (`SumExists`) and that the sum of the first
  pieces depends on these alone (`SumOfFirst`) is shown by the least number of pieces for
  which it would fail (`LeastExists`); `BytesOfOneMore` is then what a write adds.
- **LogThread.**  `BuffersConserved` is inductive with the types and with `Calling`
  (a thread about to copy has a block to copy): buffers move between the pool, the
  ready ones and those being written, also when two threads are in the critical
  section at once.  What is in the buffers is safe only under `Alone`: one thread logs
  and the log thread does not, so that the double unlock lets nobody else in.  Then
  `OneInv` keeps the thread and the log thread in their own code (`OwnCode`), the text
  inside its buffer (`Roomy`), the block a thread copied behind the text until it is
  counted (`Copied`), and a batch whole (`EmptyBatch`); the swap and the flush move blocks
  and lose none.  For the order, `OrderInv` says that the block in hand is newer than all
  there is (`Recent`), that what waits is in order and newer than what is written and
  being written (`Queued`), and which part of the files the present batch has written so
  far (`BatchFrom`): all before it is older than the batch, and it is no longer than the
  buffers that have left the batch hold, so that two blocks out of order are near each
  other (`Near`).  The files are one sequence for this: `FlattenLast` and `FlattenNew` say
  what a write and a new file make of it, by the least number of files as above.  The
  assumption `OverFlowAssumption` says that the overflow message is no block of text.

- **Rpc.**  `HoldsWhatWasWritten` does not say where in the bytes one value ends, so it is not
  inductive.  `Holds` does: the bytes can be cut into as many pieces as values wait, each of
  them what `<<` writes for its value.  `IInv` says this of both serializers, with the types
  of what waits.  That a value comes back (`AllBack`) is an induction over types, which are
  data: it takes a type of least `depth` for which it would fail, all types in which come
  back, and shows for each kind that this one does too (`NumbersBack`, `SequencesBack`,
  `SetsBack`, `MapsBack`, `TuplesBack`).  `CodecOf` is a recursive function on types; the
  lemmas from `RuleByParts` to `CodecIs` show that its equation holds of every type, again
  by depth.  For numbers `DecodeEncode` inverts the division byte by byte, for every width
  and both signs.  For containers `ReadsCut` and `EachBack` read a cut piece by piece, and
  `SetIsListed` says that the listing of a set loses none.  In the refinement each call of
  `run` is the call of `Calls` of the same name: `TakeFirst` says that reading the types of
  a function takes the values in front, `PutLast` that its result goes behind the others.
  The hypothesis `ComeBack` is that no type is a string and that sets are sets of numbers:
  the other two do not come back, which the further disagreements show.  TLC evaluates it
  for the types of `Rpc_calls`.

What stays with TLC: the liveness properties (`ReadsAreSubmitted`, `EndedConnectionsClose`,
`OneShotsRun`, `WheelTurns`, `CallsReturn`, `TempTasksRun`, `ClosedInLoopEnds`,
`AcceptedGetAddress`, `ClosedAreFreed`) with every use of fairness, which the prover cannot
express a proof of.  Every safety property of the runs, and both refinements, are theorems.

## Finding

**Uring_CoroutineResumes.**  `addNewFd` assigns the coroutine's handle to
`task()`, which returns `task_` by value (channel.h:24).  The handle is stored in a
temporary; the first bytes that arrive on any connection resume a null handle.  In the
shortest trace TLC finds the bytes arrive between the start of the coroutine and the
assignment (uring_io.cpp:323, a race of its own), where a reference would not
help yet; with `TaskKept = FALSE` the handle is as null in every behaviour in which the
assignment comes first.

## Further disagreements

The modules also state promises of comments, messages and asserts that the code
does not keep, in the last section of each ("What comments of the code say, and the
code does not do").  TLC finds each of them violated in the instance given here, when
the property is checked alone; constants that are not given are model values of their
own name, `Ids = {i1}`, `Huge = 1000000`, and `SizeMod = 64` for Uring and ByteBuffer,
4096 for Messages.  `DiesOfSystemCallsOnly` of `Server` and `SlotsInWheel` of `Timer` are
also properties of passing runs, for a main that makes its calls in order and for a wheel
of more than one slot.

- **`SendsAreCounted`** (`Uring`; `Spec`, `FDs={f1}`, `Channels={c1}`, `Openers={"accept"}`, `Senders={t1}`, `QueueSize=3`, `BufSize=2`, `MaxLen=1`, `MaxSends=1`, `MinIndex=1`, `ErrnoMayBeSet=FALSE`, `TaskKept=TRUE`).  At src/source/net/channel.cpp:40: send queues the write first and increments sendFlag_ after it (channel.cpp:38-40): the loop thread can prepare, submit and see the completion of the write in between, and the assertion of src/source/net/channel.cpp:45, "assert(sendFlag_>0);", fails.
- **`QueuedWritesFindChannel`** (`Uring`; `Spec`, `FDs={f1}`, `Channels={c1}`, `Openers={"accept"}`, `Senders={t1}`, `QueueSize=3`, `BufSize=2`, `MaxLen=1`, `MaxSends=1`, `MinIndex=1`, `ErrnoMayBeSet=FALSE`, `TaskKept=TRUE`).  At src/source/net/channel.cpp:30: A thread that passed the test of closeFlag_ in send queues its write although the loop thread has closed and removed the connection since: beginSend asserts at src/source/net/uring_io.cpp:258 "assert(iter != connections_.end());".
- **`ResendsComeFromSendBuf`** (`Uring`; `Spec`, `FDs={f1}`, `Channels={c1}`, `Openers={"accept"}`, `Senders={}`, `QueueSize=3`, `BufSize=2`, `MaxLen=1`, `MaxSends=1`, `MinIndex=1`, `ErrnoMayBeSet=FALSE`, `TaskKept=TRUE`).  At src/Fish/net/channel.h:44: dispWriteBuf returns readBuf_.disWrite(): what a completed write queues again is the unused part of the READ buffer, with nobody having sent anything.  src/source/net/uring_io.cpp:138 says of it "在发送过程中有额外的数据到来，还需发送" (more data came while sending and is still to be sent).
- **`FreeNumIsExact`** (`Uring`; `Spec`, `FDs={f1}`, `Channels={c1}`, `Openers={"accept"}`, `Senders={}`, `QueueSize=3`, `BufSize=2`, `MaxLen=1`, `MaxSends=1`, `MinIndex=1`, `ErrnoMayBeSet=FALSE`, `TaskKept=TRUE`).  At src/source/net/uring_io.cpp:140: In the branch that queues another write freeNum_ is not incremented, while beginSend takes a new slot for that write: slots leak until none is left.  src/Fish/net/uring_io.h:65 calls freeNum_ "当前空闲的请求数" (the number of requests that are free now).
- **`DelayedCloseHappens`** (`Uring`; `FairKernelSpec`, `FDs={f1}`, `Channels={c1}`, `Openers={"accept"}`, `Senders={}`, `QueueSize=2`, `BufSize=2`, `MaxLen=1`, `MaxSends=1`, `MinIndex=1`, `ErrnoMayBeSet=FALSE`, `TaskKept=TRUE`).  At src/source/net/uring_io.cpp:138: close only sets closeFlag_ while a send is pending; the send that completes finds room in the read buffer (channel.h:44), queues another write and never reaches reduseSend, so the channel is never closed and its descriptor never given back, even when the kernel completes every send.  src/Fish/net/channel.h:79 calls closeFlag_ "延时删除的标记位" (the mark of a delayed deletion).
- **`SlotsInWheel`** (`Timer`; `Spec`, `Timers={t1}`, `NeedTimers={}`, `Clients={c1}`, `Round=2`, `Interval=2`, `Delays={1}`, `MaxTime=3`, `CodeTakesTime=FALSE`).  At src/source/base/timer.cpp:239: wheelIndex_ is incremented and then wrapped, without a lock: in between it is timeNum_, and an add that reads it then computes the slot (index + timeNum_) / timeNum_, which is 1, and indexes behind the wheel when timeNum_ is 1.  src/source/base/timer.cpp:82 says of the computation "计算需要放入的槽位" (computes the slot to put it into).
- **`CollectedOnce`** (`Timer`; `Spec`, `Timers={t1, t2}`, `NeedTimers={}`, `Clients={c1}`, `Round=2`, `Interval=1`, `Delays={0}`, `MaxTime=2`, `CodeTakesTime=TRUE`).  At src/source/base/timer.cpp:224: After erase of the last element iter is end(), and the iter++ of the loop takes it to the first element of the circular list: a periodic timer in front is collected a second time.  The comment of src/source/base/timer.cpp:224 says "小心这里迭代器失效的问题" (mind the invalidation of the iterator).
- **`WithinResolution`** (`Timer`; `Spec`, `Timers={t1}`, `NeedTimers={}`, `Clients={c1}`, `Round=6`, `Interval=1`, `Delays={1}`, `MaxTime=9`, `CodeTakesTime=FALSE`).  At src/source/base/timer.cpp:82: The slot is computed as (index + wheelIndex_) / timeNum_, which is 0 or 1, instead of modulo timeNum_: a timer waits until the wheel is back at slot 0 or 1, up to a second.  src/Fish/base/timer.h:71 says "分辨率为10ms".
- **`PeriodBetweenRuns`** (`Timer`; `Spec`, `Timers={t1}`, `NeedTimers={t1}`, `Clients={c1}`, `Round=2`, `Interval=1`, `Delays={3}`, `MaxTime=7`, `CodeTakesTime=FALSE`).  At src/source/base/timer.cpp:32: No code moves timePoint_ after a run, so a periodic timer that is due once is due at every visit of its slot, however long its period.  src/Fish/base/timer.h:92 says "用来添加周期式任务" (adds a periodic task).
- **`RemovedTimersStop`** (`Timer`; `Spec`, `Timers={t1}`, `NeedTimers={t1}`, `Clients={c1}`, `Round=2`, `Interval=1`, `Delays={1}`, `MaxTime=3`, `CodeTakesTime=FALSE`).  At src/source/base/timer.cpp:188: removePriodTask erases the entry of priodTimerMap_ and leaves the timer in the wheel, where it runs for ever.  src/Fish/base/timer.h:95 says "用来删除周期式任务" (deletes a periodic task).
- **`FreeSizeNotNegative`** (`LogThread`; `Spec`, `Threads={a1,a2}`, `Blocks=3`, `bufSize=2`, `bufNum=2`, `OverIndex=1`, `maxSizePreFile=3`, `printMes=FALSE`).  At src/source/base/log/log_thread.cpp:69: apendMessage unlocks mut_ itself and guard unlocks it again on return: the second unlock releases the lock another thread has taken meanwhile, two threads are between the check and the bump, and the assertion of src/source/base/log/log_thread.cpp:56, "assert(temp >= 0);", fails.
- **`ReadyIsWritten`** (`LogThread`; `FairSpec`, `Threads={a1}`, `Blocks=5`, `bufSize=2`, `bufNum=3`, `OverIndex=1`, `maxSizePreFile=3`, `printMes=FALSE`).  At src/source/base/log/log_thread.cpp:69: Because of the double unlock a thread can change the buffer and notify without mut_ while the log thread has found readyBuf_ empty and does not wait yet: the notification is lost, and without another full buffer the log thread sleeps on.  src/source/base/log/log_thread.cpp:70 says "唤醒工作线程" (wake up the worker thread).
- **`OldestIsOverwritten`** (`LogThread`; `Spec`, `Threads={a1}`, `Blocks=6`, `bufSize=2`, `bufNum=2`, `OverIndex=1`, `maxSizePreFile=3`, `printMes=FALSE`).  At src/source/base/log/log_thread.cpp:85: Without a free buffer changeBuf overwrites currentBuf_, the newest text in memory, while the older buffers wait in readyBuf_.  src/source/base/log/log_thread.cpp:83 says "直接覆盖一个最旧的数据" (overwrite the oldest data).
- **`OverflowIsReported`** (`LogThread`; `Spec`, `Threads={a1}`, `Blocks=8`, `bufSize=2`, `bufNum=2`, `OverIndex=1`, `maxSizePreFile=3`, `printMes=TRUE`).  At src/source/base/log/log_thread.cpp:151: writeLogMes reads reloadMes_ for the report and clears it afterwards, without mut_: an overflow in between is cleared unreported.  src/Fish/base/log/log_thread.h:74 says "记录本次是否发生了日志覆盖" (records whether text was overwritten).
- **`LengthIsRead`** (`Messages`; `Spec`, `FDs={f1}`, `Sent <- OwnMessages`, `MaxSent=3`, `MaxConns=1`, `BufSize=64`, `Stale={0}`, `Cut=FALSE`).  At src/source/rpc/protocol.cpp:76: result() copies the bytes of the header struct, with contentLength_ in binary (and its last byte cut off); create reads the last four of its 15 bytes as decimal digits.  src/Fish/rpc/protocol.h:15 gives contentLength as a 4-byte field of the header: "|contentLength|".
- **`LackMeansIncomplete`** (`Messages`; `Spec`, `FDs={f1}`, `Sent <- LongMessages`, `MaxSent=2`, `MaxConns=1`, `BufSize=64`, `Stale={0}`, `Cut=TRUE`).  At src/source/rpc/protocol.cpp:83: create leaves the state LACK only through a case that breaks out of the switch: a message whose content came in two reads never becomes READY, though all of it arrived.  src/Fish/rpc/protocol.h:59 says of LACK "写入信息不完整" (what was written is incomplete).
- **`HandledIsErased`** (`Messages`; `Spec`, `FDs={f1}`, `Sent <- DigitMessages`, `MaxSent=3`, `MaxConns=1`, `BufSize=64`, `Stale={0}`, `Cut=FALSE`).  At src/source/rpc/protocol.cpp:92: createContent completes content_ before it computes readIdx from what content_ lacks, so the result is 0 and the content is never erased from the read buffer.  src/source/rpc/protocol.cpp:37 says "函数返回>0， 说明正常读取" (a result above 0 is a normal read).
- **`ArrivedIsHandled`** (`Messages`; `FairSpec`, `FDs={f1}`, `Sent <- DigitMessages`, `MaxSent=2`, `MaxConns=1`, `BufSize=100`, `Stale={0}`, `Cut=FALSE`).  At src/source/rpc/protocol.cpp:71: The FREE case of create ends in a break after the header, and readMes calls create once per read: a message needs two reads even if the first brought all of it.  src/Fish/provider/rpc_provider.h:78 says of handleRead "处理到来的数据" (handles the data that arrived).
- **`NewConnectionsAreNew`** (`Messages`; `Spec`, `FDs={f1}`, `Sent <- DigitMessages`, `MaxSent=3`, `MaxConns=2`, `BufSize=64`, `Stale={0}`, `Cut=FALSE`).  At src/source/rpc/protocol_manager.cpp:49: undoProtols_ is keyed by descriptor and no code erases an entry when a connection closes: the next connection on that descriptor continues the unfinished message of the last one.  src/source/rpc/protocol_manager.cpp:45 says "如果来了新的，未完成的连接" (a new, unfinished connection).
- **`ProvidersAreRegistered`** (`Messages`; `Spec`, `FDs={f1}`, `Sent <- DigitMessages`, `MaxSent=3`, `MaxConns=1`, `BufSize=64`, `Stale={0}`, `Cut=FALSE`).  At src/source/registry/rpc_registry.cpp:66: The four digits create reads begin at byte 11 of the header, which is the last byte of msgId_: with a length create can read the id is not 1 and handleProvider ignores the message.  src/source/registry/rpc_registry.cpp:68 says of id 1 "注册成为provider" (registers as a provider).
- **`ClosedLoopStops`** (`Loop`; `FairSpec`, `Runners={r1}`, `NewThreads={r1}`, `Callers={c1}`, `Tasks={t1, t2}`, `MaxTemp=1`, `MaxBegins=1`).  At src/source/base/loop.cpp:35: beginInCurrentThread sets flag_ after its checks: a closeLoop that comes before that is overwritten and the loop runs on.  src/Fish/base/loop.h:38 says of closeLoop "结束loop" (ends the loop).
- **`LoopsInOneThread`** (`Loop`; `Spec`, `Runners={r1, r2}`, `NewThreads={}`, `Callers={c1}`, `Tasks={t1, t2}`, `MaxTemp=1`, `MaxBegins=1`).  At src/source/base/loop.cpp:28: The test of flag_ and its assignment (loop.cpp:28, :35) are two steps: two threads that begin the same Loop both pass the check whose message at src/source/base/loop.cpp:29 is "Loop: looping now".
- **`TaskFixedWhileOn`** (`Loop`; `Spec`, `Runners={r1}`, `NewThreads={r1}`, `Callers={c1}`, `Tasks={t1, t2}`, `MaxTemp=1`, `MaxBegins=1`).  At src/source/base/loop.cpp:74: setTask tests flag_ and assigns task_ in two steps, and the loop can start between them; setTask is meant to refuse that: src/source/base/loop.cpp:72, "Loop: Please close the current task first".
- **`StringsComeBack`** (`Rpc`; `Spec`, `Types <- StringTypes`, `depth <- DepthOf`, `Values <- ValuesOf`, `Items <- StringItems`, `Names={m1}`, `Functions <- StringFunctions`, `MaxPending=3`, `MaxResults=2`).  At src/source/rpc/serialize_buf.cpp:158: output_string copies the bytes to &result[0] of an empty string without resizing it: the result is empty (and more than 15 bytes overrun its internal buffer).  src/Fish/rpc/serializer.h:18 lists "string" among the supported types.
- **`SetsComeBack`** (`Rpc`; `Spec`, `Types <- NestedTypes`, `depth <- DepthOf`, `Values <- ValuesOf`, `Items <- StringItems`, `Names={m1}`, `Functions <- NestedFunctions`, `MaxPending=3`, `MaxResults=2`).  At src/Fish/rpc/serializer.h:300: operator>> of the sets reads its elements with output, which has no case for a container and takes nothing: the elements stay default and their bytes stay in the buffer for the next value.  src/Fish/rpc/serializer.h:29 promises "容器-容器" (containers of containers).
- **`SecondTypeIsFound`** (`Rpc`; `Spec`, `Types <- MapTypes`, `depth <- DepthOf`, `Values <- ValuesOf`, `Items <- StringItems`, `Names={m1}`, `Functions <- MapFunctions`, `MaxPending=3`, `MaxResults=2`).  At src/Fish/rpc/rpc.h:265: findType declares both key and value with key_type, so a map is described by its key type twice.  src/Fish/rpc/rpc.h:270 says of the second call "查找第二个参数的类型" (find the type of the second parameter).
- **`InputStaysInside`** (`ByteBuffer`; `Spec`, `Bytes={0, 1}`, `Size=5`, `Chunks <- SomeChunks`, `Errors={1}`, `MaxViews=2`).  At src/source/net/buffer.cpp:33: When the data do not fit, input moves the unread bytes to a new vector and then sets writeIndex_ to the size of that vector instead of the number of bytes moved: the copy that follows starts at the end of the vector.  src/Fish/net/buffer.h:19 says of input "主动复制数据" (copies the data).
- **`ErasedWasThere`** (`ByteBuffer`; `Spec`, `Bytes={0, 1}`, `Size=5`, `Chunks <- SomeChunks`, `Errors={1}`, `MaxViews=1`).  At src/source/net/uring_io.cpp:134: The view a completed write queues again is of readBuf_ (channel.h:44), and when that write completes its result is erased from sendBuf_ (uring_io.cpp:134): with a single send the assert of buffer.cpp:56 fails, or, when something else was put there meanwhile, bytes are dropped that nobody sent.  src/source/net/uring_io.cpp:138 says of the second write "在发送过程中有额外的数据到来，还需发送" (more data came in while sending and is still to be sent).
- **`AddressIsKnown`** (`Server`; `FairSpec`, `Kinds={"registry", "provider"}`, `Program <- WholeProgram`, `ServerAddr <- Registry`, `ValidIps <- SomeIps`, `Peers={p1, p2}`, `PeerAddr <- TwoAddresses`, `Targets={t1}`, `FDs={f1, f2}`, `MaxProviders=2`).  At src/source/net/tcp_server.cpp:81: The accept thread stores the address of a peer after addNewFd, when the loop thread serves the connection already: a peer that registers first is entered with the default address, or with a half assigned one.  src/Fish/registry/rpc_registry.h:23 says of an entry "用于储存 服务提供方的所有信息" (all there is to know of a provider).
- **`BoundToItsPort`** (`Server`; `FairSpec`, `Kinds={"registry", "provider"}`, `Program <- WholeProgram`, `ServerAddr <- LastPort`, `ValidIps <- SomeIps`, `Peers={p1, p2}`, `PeerAddr <- TwoAddresses`, `Targets={t1}`, `FDs={f1, f2}`, `MaxProviders=2`).  At src/source/net/tcp_addr.cpp:69: avlid refuses only ports above 65536; htons cuts 65536 to 0, and the server listens on a port the system chooses.  src/source/net/tcp_addr.cpp:18 refuses other such ports with "TcpAddr: invalid ip or port".
- **`DiesOfSystemCallsOnly`** (`Server`; `FairSpec`, `Kinds={"registry", "provider"}`, `Program <- ExampleProgram`, `ServerAddr <- Registry`, `ValidIps <- SomeIps`, `Peers={p1, p2}`, `PeerAddr <- TwoAddresses`, `Targets={t1}`, `FDs={f1, f2}`, `MaxProviders=2`).  At src/source/provider/rpc_provider.cpp:44: Neither example calls Fish::init, so Fish::entity is null, and a message of type 0 (or, to a provider, a heartbeat whose id is not 1) makes its handler log through it.  src/source/provider/rpc_provider.cpp:44 itself calls such a message "不应该出现的情况" (should not occur); a program that calls createConnection before begin dies likewise in the assert of channel.h:59, and one that calls init without readConfig in log_thread.cpp:26.

## What is not modelled

- `HeartManager`: no code makes one, and `sendHeart` never inserts a node, so every
  other operation of it finds an empty list.
- `timePoint` (formatting of dates) and reading the configuration file (pure I/O); that
  the configuration is there before the log asks it is part of `Server`.
- The constructor of `TcpAddr` from "ip:port" (no caller); `bind` and `listen` beyond the
  port, the failure of the one and the moment from which peers connect; the set-up of the ring.
- `stop`, which cannot interrupt `accept` and has no caller, destructors and the teardown
  of singletons, except `closeLoop`.
- The bytes an `input` that does not fit overwrites, and what a negative index shows:
  `ByteBuffer` stops there.  The
  memory of a buffer that is reallocated while the kernel reads it.
- Formatting in `LogStream`, failing `fwrite`, names of log files.
- In `Serializer`: targets that are not empty, readers that ask for other types than were
  written, multisets and multimaps; in `Rpc` a call in which the length of a container
  is missing (its loop then runs for any number of elements).
- Between `Messages` and `Rpc`: no code of the repository passes a message to `run`.
- In `Timer`: a second thread in `start`.
- The static packets of `Protocol` (`hbCreate` and its siblings, which nobody sends),
  `LockGuard::lock` and `trylock`, `Buffer::clear` (no caller), and the empty bodies
  `refreshHealth`, `healthDetection`, `handleNew`, `handleClose`.
- The race on `connections_` (uring_io.h:53) beyond its end: `MapRace` ends the program,
  and what the properties of `Uring` say is said of the executions in which the map
  survives.

## Plan

Done, in this order, the most important first: `Buffer`, `Uring` with its proofs;
`Timer` with its proofs; `LogBuffer`, `LogThread` with theirs; `Protocol`, `Messages`
with its proofs; `Loop` with its mutex and its proofs; `ByteQueue`, `ByteBuffer` and the refinement, with
proofs; `Server` with proofs; `Serializer`, `Calls`, `Rpc` and the refinement, with proofs.
Next:

1. Prove: what is left of the order of `BatchesKeepOrder` when the log thread logs too.
2. Model: the second worker of `Timer::start`; readers of other types in `Serializer`.
3. Compose `Server` with `Uring`, so that the handlers of the one are the steps of the
   other: the instance is out of reach of TLC today, the refinement of the channels of
   `Server` by those of `Uring` would be a proof.
