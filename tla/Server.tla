------------------------------- MODULE Server -------------------------------
(***************************************************************************)
(* A program that runs one TcpServer: an RpcRegistry or an RpcProvider.    *)
(*                                                                         *)
(* Three threads share the server: main, which calls init and begin and    *)
(* may create connections; the accept thread, which begin starts and which *)
(* stores the address of a peer after its connection is served; and the    *)
(* loop thread of the Uring, which calls the server's handlers.  A channel *)
(* is here what these three see of it; the requests between loop and       *)
(* kernel are module Uring, the bytes of a message module Messages: here a *)
(* connection that is served may bring any complete message at any time.   *)
(***************************************************************************)
EXTENDS Integers, Sequences, FiniteSets, SequencesExt

CONSTANTS
  Kinds,        \* subset of {"registry", "provider"}: which server it may be
  Program,      \* what main calls, in order
  ServerAddr,   \* the address main constructs the server with: [ip, port]
  ValidIps,     \* strings inet_pton accepts
  Peers,        \* connections peers open to the server
  PeerAddr,     \* their addresses
  Targets,      \* connections the server opens with createConnection
  FDs,          \* file descriptors
  NoChannel,    \* a descriptor without connection
  NoFd,         \* no descriptor
  MaxProviders  \* bound: registrations

Channels == Peers \cup Targets

Ports == {n \in Int : 0 <= n /\ n < 65536}    \* in_port_t

ASSUME ServerAssumption ==
  /\ Kinds \subseteq {"registry", "provider"}
  /\ Program \in Seq({"readConfig", "init", "construct", "begin", "connect"})
  /\ ServerAddr \in [ip : STRING, port : Int]
  /\ PeerAddr \in [Peers -> [ip : ValidIps, port : Ports \ {0}]]
  /\ "none" \notin ValidIps /\ "torn" \notin ValidIps
  /\ Peers \cap Targets = {} /\ NoChannel \notin Channels /\ NoFd \notin FDs
  /\ MaxProviders \in Nat

VARIABLES
  kind,         \* which of the two servers it is
  mainPc,       \* [at, step]: the call main is in, and where
  config,       \* LocalMassage::entity() is there
  logger,       \* Fish::entity is there
  callBacks,    \* readCallBack_ is set
  port,         \* the port the listening socket is bound to, -1 if none
  uringOn,      \* the loop thread runs
  acceptPc,     \* where the accept thread is
  accepted,     \* fd and channel of listen_in_loop, and its TcpAddr
  clientAddr,   \* clientAddr_, with the port in network order
  openFds,      \* descriptors that are open
  connections,  \* connections_ of the Uring
  chan,         \* the channels
  loopPc,       \* the handler the loop thread is in
  providers,    \* providers_ of the registry
  fault         \* what ended the process, or "none"

mainVars   == <<mainPc, config, logger, callBacks, port, uringOn>>
acceptVars == <<acceptPc, accepted, clientAddr>>
netVars    == <<openFds, connections, chan>>
loopVars   == <<loopPc, providers>>
vars       == <<kind, mainVars, acceptVars, netVars, loopVars, fault>>

-----------------------------------------------------------------------------
(***************************************************************************)
(* TcpAddr.  An address is [ip, port]; without one it is the default.  The *)
(* string of an address that is being assigned is "torn".                  *)
(***************************************************************************)
NoAddr == [ip |-> "none", port |-> -1]

avlid(a) == a.ip \in ValidIps /\ 0 < a.port /\ a.port <= 65536

(* htons and ntohs, which cut an int to 16 bits and swap its two bytes.    *)
Swapped(n) == ((n % 65536) % 256) * 256 + (n % 65536) \div 256

NotSwapped(sock) == [ip |-> sock.ip, port |-> sock.port]   \* variant: without ntohs
FromSock(sock)   == [ip |-> sock.ip, port |-> Swapped(sock.port)]

-----------------------------------------------------------------------------
(***************************************************************************)
(* main.  A call that ends goes on to the next one.                        *)
(***************************************************************************)
Call == IF mainPc.at <= Len(Program) THEN Program[mainPc.at] ELSE "sleep"

In(call, step) == Call = call /\ mainPc.step = step

Return     == mainPc' = [at |-> mainPc.at + 1, step |-> "call"]
Step(step) == mainPc' = [mainPc EXCEPT !.step = step]

Die(place) ==
  /\ fault' = place
  /\ UNCHANGED <<kind, mainVars, acceptVars, netVars, loopVars>>

ReadConfig ==
  /\ In("readConfig", "call")
  /\ config' = TRUE
  /\ Return
  /\ UNCHANGED <<kind, logger, callBacks, port, uringOn, acceptVars, netVars, loopVars, fault>>

(* Fish::init: the LogThread asks the configuration in its constructor.    *)
InitLog ==
  /\ In("init", "call")
  /\ \/ /\ config \/ logger
        /\ logger' = TRUE
        /\ Return
        /\ UNCHANGED <<kind, config, callBacks, port, uringOn, acceptVars, netVars, loopVars, fault>>
     \/ ~config /\ ~logger /\ Die("config")

(* The server: its TcpAddr, and the socket its constructor binds, each     *)
(* under an assert.                                                        *)
Construct ==
  /\ In("construct", "call")
  /\ \/ /\ avlid(ServerAddr)
        /\ port' = Swapped(Swapped(ServerAddr.port))
        /\ Return
        /\ UNCHANGED <<kind, config, logger, callBacks, uringOn, acceptVars, netVars,
                       loopVars, fault>>
     \/ ~avlid(ServerAddr) /\ Die("invalid address")
     \/ avlid(ServerAddr) /\ \E call \in {"socket", "bind"} : Die(call)

(* RpcRegistry::begin and RpcProvider::begin set the callbacks and then    *)
(* call TcpServer::begin: listen, the loop thread, the accept thread.      *)
SetLast(step) ==       \* variant: the callbacks are set at the end
  CASE step = "call" -> "listen" [] step = "listen" -> "uring"
    [] step = "uring" -> "accept" [] step = "accept" -> "callBacks" [] step = "callBacks" -> "done"

After(step) ==
  CASE step = "call" -> "callBacks" [] step = "callBacks" -> "listen"
    [] step = "listen" -> "uring" [] step = "uring" -> "accept" [] step = "accept" -> "done"

Begin ==
  /\ Call = "begin"
  /\ IF After(mainPc.step) = "done" THEN Return ELSE Step(After(mainPc.step))
  /\ callBacks' = (callBacks \/ mainPc.step = "callBacks")
  /\ uringOn' = (uringOn \/ mainPc.step = "uring")
  /\ acceptPc' = IF mainPc.step = "accept" THEN "accept" ELSE acceptPc
  /\ UNCHANGED <<kind, config, logger, port, accepted, clientAddr, netVars, loopVars, fault>>

(* addNewFd: the callbacks are copied from the server, and from then on    *)
(* the connection is served.                                               *)
NewChannel(fd) == [state |-> "live", fd |-> fd, cb |-> callBacks, ip |-> "none", port |-> -1]

addNewFd(fd, c) ==
  /\ connections' = [connections EXCEPT ![fd] = c]
  /\ chan' = [chan EXCEPT ![c] = NewChannel(fd)]

(* createConnection.  A socket that is not to be had, and a target that    *)
(* refuses, fail its asserts.  Nobody stores the address that was          *)
(* connected to, and beginCallBack_ is never set.                          *)
CreateConnection ==
  /\ In("connect", "call")
  /\ \/ \E call \in {"socket", "connect"} : Die(call)
     \/ \E fd \in FDs \ openFds, c \in Targets :
          /\ chan[c].state = "unused"
          /\ \/ /\ connections[fd] = NoChannel
                /\ openFds' = openFds \cup {fd}
                /\ addNewFd(fd, c)
                /\ Return
                /\ UNCHANGED <<kind, config, logger, callBacks, port, uringOn, acceptVars,
                               loopVars, fault>>
             \/ connections[fd] # NoChannel /\ Die("addNewFd")

Main == ReadConfig \/ InitLog \/ Construct \/ Begin \/ CreateConnection

-----------------------------------------------------------------------------
(***************************************************************************)
(* The accept thread: listen_in_loop, over and over.                       *)
(***************************************************************************)
AcceptGoto(pc) == acceptPc' = pc

(* clientAddr_ = {0}, accept, and newCallBack_, which does nothing.        *)
Accept(c, fd) ==
  /\ acceptPc = "accept"
  /\ chan[c].state = "unused" /\ fd \notin openFds
  /\ openFds' = openFds \cup {fd}
  /\ clientAddr' = [ip |-> PeerAddr[c].ip, port |-> Swapped(PeerAddr[c].port)]
  /\ accepted' = [fd |-> fd, channel |-> c]
  /\ AcceptGoto("addNewFd")
  /\ UNCHANGED <<kind, mainVars, connections, chan, loopVars, fault>>

(* accept fails, say because no descriptor is left: its assert ends the    *)
(* process.                                                                *)
AcceptFails == acceptPc = "accept" /\ Die("accept")

AddAccepted ==
  /\ acceptPc = "addNewFd"
  /\ \/ /\ connections[accepted.fd] = NoChannel
        /\ addNewFd(accepted.fd, accepted.channel)
        /\ AcceptGoto("address")
        /\ UNCHANGED <<kind, mainVars, accepted, clientAddr, openFds, loopVars, fault>>
     \/ connections[accepted.fd] # NoChannel /\ Die("addNewFd")

(* TcpAddr addr(clientAddr_) throws for what is not an address; setAddr    *)
(* assigns the string, which a reader can see half done, and the port.     *)
(* The thread keeps its pointer to the channel, whatever becomes of the    *)
(* descriptor.                                                             *)
MappedChannel == IF connections[accepted.fd] = NoChannel   \* variant: found by descriptor
                   THEN accepted.channel ELSE connections[accepted.fd]
Named         == accepted.channel

SetIp ==
  /\ acceptPc = "address"
  /\ \/ /\ avlid(FromSock(clientAddr))
        /\ chan' = [chan EXCEPT ![Named].ip = "torn"]
        /\ AcceptGoto("ip")
        /\ UNCHANGED <<kind, mainVars, accepted, clientAddr, openFds, connections, loopVars, fault>>
     \/ ~avlid(FromSock(clientAddr)) /\ Die("invalid address")

SetIpEnd ==
  /\ acceptPc = "ip"
  /\ chan' = [chan EXCEPT ![Named].ip = FromSock(clientAddr).ip]
  /\ AcceptGoto("port")
  /\ UNCHANGED <<kind, mainVars, accepted, clientAddr, openFds, connections, loopVars, fault>>

SetPort ==
  /\ acceptPc = "port"
  /\ chan' = [chan EXCEPT ![Named].port = FromSock(clientAddr).port]
  /\ accepted' = [fd |-> NoFd, channel |-> NoChannel]
  /\ AcceptGoto("accept")
  /\ UNCHANGED <<kind, mainVars, clientAddr, openFds, connections, loopVars, fault>>

AcceptThread ==
  \/ \E c \in Peers, fd \in FDs : Accept(c, fd)
  \/ AcceptFails
  \/ AddAccepted \/ SetIp \/ SetIpEnd \/ SetPort

-----------------------------------------------------------------------------
(***************************************************************************)
(* The loop thread.                                                        *)
(***************************************************************************)
Served(c) == chan[c].state = "live" /\ connections[chan[c].fd] = c

Idle == [pc |-> "idle", channel |-> NoChannel, ip |-> "none"]

(* handleMessage and handleRead: the level of LOG_INFO is compiled out,    *)
(* LOG_DEBUG and LOG_FATAL go through Fish::entity.  A message to a        *)
(* provider changes nothing, the answer to a heartbeat is never filled in. *)
Logs(type, id) ==
  \/ type = "NONSENCE"
  \/ kind = "provider" /\ type = "HBEAT" /\ id # 1

Message(c, type, id) ==
  /\ loopPc = Idle
  /\ Served(c)
  /\ \/ ~chan[c].cb /\ Die("noCallBack")
     \/ /\ chan[c].cb /\ Logs(type, id) /\ ~logger
        /\ Die("logger")
     \/ /\ chan[c].cb /\ (Logs(type, id) => logger)
        /\ kind = "registry" /\ type = "PROVIDER" /\ id = 1
        /\ Len(providers) < MaxProviders
        /\ loopPc' = [pc |-> "address", channel |-> c, ip |-> chan[c].ip]
        /\ UNCHANGED <<kind, mainVars, acceptVars, netVars, providers, fault>>

(* providerNew: the address is copied, which takes time, and an entry is   *)
(* made under providers_mut_.                                              *)
CopiedIp(c) ==
  IF loopPc.ip = chan[c].ip /\ loopPc.ip # "torn"
    THEN {loopPc.ip} ELSE {loopPc.ip, chan[c].ip, "torn"}

StrongEntry(c, a) == [addr |-> a, channel |-> c, owns |-> TRUE]   \* variant: a shared_ptr
Entry(c, a)       == [addr |-> a, channel |-> c, owns |-> FALSE]

ProviderNew ==
  LET c == loopPc.channel IN
  /\ loopPc.pc = "address"
  /\ \E ip \in CopiedIp(c) :
       providers' = Append(providers, Entry(c, [ip |-> ip, port |-> chan[c].port]))
  /\ loopPc' = Idle
  /\ UNCHANGED <<kind, mainVars, acceptVars, netVars, fault>>

(* The end of a connection: closeCb_, which does nothing, connections_ and *)
(* the descriptor.                                                         *)
RemoveFd(c) ==
  /\ loopPc = Idle
  /\ Served(c)
  /\ connections' = [connections EXCEPT ![chan[c].fd] = NoChannel]
  /\ chan' = [chan EXCEPT ![c].state = "closed"]
  /\ loopPc' = [Idle EXCEPT !.pc = "close", !.channel = c]
  /\ UNCHANGED <<kind, mainVars, acceptVars, openFds, providers, fault>>

CloseFd ==
  /\ loopPc.pc = "close"
  /\ openFds' = openFds \ {chan[loopPc.channel].fd}
  /\ loopPc' = Idle
  /\ UNCHANGED <<kind, mainVars, acceptVars, connections, chan, providers, fault>>

Types == {"NONSENCE", "HBEAT", "PROVIDER", "CONSUMER"}

LoopThread ==
  /\ uringOn
  /\ \/ \E c \in Channels, type \in Types, id \in {1, 2} : Message(c, type, id)
     \/ ProviderNew
     \/ \E c \in Channels : RemoveFd(c)
     \/ CloseFd

-----------------------------------------------------------------------------
Unused == [state |-> "unused", fd |-> NoFd, cb |-> FALSE, ip |-> "none", port |-> -1]

Init ==
  /\ kind \in Kinds
  /\ mainPc = [at |-> 1, step |-> "call"]
  /\ config = FALSE /\ logger = FALSE
  /\ callBacks = FALSE /\ port = -1 /\ uringOn = FALSE
  /\ acceptPc = "off"
  /\ accepted = [fd |-> NoFd, channel |-> NoChannel]
  /\ clientAddr = [ip |-> "none", port |-> 0]
  /\ openFds = {}
  /\ connections = [fd \in FDs |-> NoChannel]
  /\ chan = [c \in Channels |-> Unused]
  /\ loopPc = Idle
  /\ providers = <<>>
  /\ fault = "none"

Next == fault = "none" /\ (Main \/ AcceptThread \/ LoopThread)

Spec == Init /\ [][Next]_vars

(* The accept thread goes on once accept has returned, and the loop thread *)
(* ends the handlers it is in.  Peers need not do anything.                *)
FairSpec ==
  /\ Spec
  /\ WF_vars(fault = "none" /\ (AddAccepted \/ SetIp \/ SetIpEnd \/ SetPort))
  /\ WF_vars(fault = "none" /\ (ProviderNew \/ CloseFd))

-----------------------------------------------------------------------------
(***************************************************************************)
(* Properties.                                                             *)
(***************************************************************************)
Ips   == ValidIps \cup {"none", "torn"}
Addrs == [ip : Ips, port : Ports \cup {-1}]

MainPc        == [at : 1..(Len(Program) + 1),
                  step : {"call", "callBacks", "listen", "uring", "accept"}]
Accepted      == [fd : FDs \cup {NoFd}, channel : Channels \cup {NoChannel}]
SockAddr      == [ip : Ips, port : Ports]
ChannelObject == [state : {"unused", "live", "closed"}, fd : FDs \cup {NoFd},
                  cb : BOOLEAN, ip : Ips, port : Ports \cup {-1}]
Handler       == [pc : {"idle", "address", "close"}, channel : Channels \cup {NoChannel}, ip : Ips]
ProviderMes   == [addr : Addrs, channel : Channels, owns : BOOLEAN]
SystemCalls   == {"socket", "bind", "connect", "accept"}
Faults        == {"config", "invalid address", "addNewFd", "noCallBack", "logger"} \cup SystemCalls

TypeOK ==
  /\ kind \in Kinds
  /\ mainPc \in MainPc
  /\ config \in BOOLEAN /\ logger \in BOOLEAN /\ callBacks \in BOOLEAN /\ uringOn \in BOOLEAN
  /\ port \in Ports \cup {-1}
  /\ acceptPc \in {"off", "accept", "addNewFd", "address", "ip", "port"}
  /\ accepted \in Accepted
  /\ clientAddr \in SockAddr
  /\ openFds \subseteq FDs
  /\ connections \in [FDs -> Channels \cup {NoChannel}]
  /\ chan \in [Channels -> ChannelObject]
  /\ loopPc \in Handler
  /\ providers \in Seq(ProviderMes)
  /\ fault \in Faults \cup {"none"}

(* A program that reads its configuration, calls init and begin and only   *)
(* then creates connections dies of nothing but a system call that fails:  *)
(* the asserts behind socket, bind, accept and connect (tcp_server.cpp:26, *)
(* 41, 73, 89, 99) end it when a descriptor, the port or the target is not *)
(* to be had.  Nothing else does, whatever peers send from the moment the  *)
(* socket listens: no connection is served without a callback              *)
(* (channel.h:59), no handler finds the log missing, and a descriptor that *)
(* is handed out again is not mapped any more (uring_io.cpp:314).          *)
DiesOfSystemCallsOnly == fault \in SystemCalls \cup {"none"}

(* The address in an entry may be missing or half written, but it is never *)
(* that of another peer, though descriptors are handed out again while the *)
(* accept thread is still about to store an address.                       *)
AddressIsOwn ==
  \A i \in DOMAIN providers :
    LET e   == providers[i]
        own == IF e.channel \in Peers THEN PeerAddr[e.channel] ELSE NoAddr
    IN  e.addr.ip \in {"none", "torn", own.ip} /\ e.addr.port \in {-1, own.port}

(* Every accepted connection is given its whole address at last, closed or *)
(* not, unless the process ends before.                                    *)
AcceptedGetAddress ==
  \A c \in Peers :
    chan[c].state # "unused" ~>
      \/ chan[c].ip = PeerAddr[c].ip /\ chan[c].port = PeerAddr[c].port
      \/ fault # "none"

(* A closed channel is freed: the accept thread, the loop and the entries  *)
(* of the registry let go of it, so that a descriptor's memory does not    *)
(* stay with providers that left, unless the process ends before.          *)
Referenced(c) ==
  \/ \E fd \in FDs : connections[fd] = c
  \/ accepted.channel = c \/ loopPc.channel = c
  \/ \E i \in DOMAIN providers : providers[i].owns /\ providers[i].channel = c

ClosedAreFreed ==
  \A c \in Channels : chan[c].state = "closed" ~> ~Referenced(c) \/ fault # "none"

(***************************************************************************)
(* What comments of the code say, and the code does not do.                *)
(***************************************************************************)

(* rpc_registry.h:23: a ProviderMes holds all there is to know of a        *)
(* provider.  An entry has its address.                                    *)
AddressIsKnown ==
  \A i \in DOMAIN providers :
    LET e == providers[i] IN e.channel \in Peers => e.addr = PeerAddr[e.channel]

(* tcp_addr.cpp:21: an address that is not valid is refused.  A server     *)
(* whose address was not refused listens on its port.                      *)
BoundToItsPort == port # -1 => port = ServerAddr.port
=============================================================================
