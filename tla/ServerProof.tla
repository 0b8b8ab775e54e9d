----------------------------- MODULE ServerProof -----------------------------
(***************************************************************************)
(* Theorems about Server, for every number of peers, connections and       *)
(* descriptors, all addresses and everything main may call.                *)
(***************************************************************************)
EXTENDS Server, SequenceTheorems, TLAPS

(* The address of the peer of a channel.                                   *)
Own(c) == IF c \in Peers THEN PeerAddr[c] ELSE NoAddr

OwnOrNot(c, addr) == addr.ip \in {"none", "torn", Own(c).ip} /\ addr.port \in {-1, Own(c).port}

(* From accept to setAddr the accept thread knows whom it accepted.        *)
AcceptKnows ==
  acceptPc \in {"addNewFd", "address", "ip", "port"} =>
    /\ accepted.fd \in FDs /\ accepted.channel \in Peers
    /\ clientAddr.ip = PeerAddr[accepted.channel].ip
    /\ clientAddr.port = Swapped(PeerAddr[accepted.channel].port)

(* Neither a channel nor the handler has the address of another peer.      *)
ChannelsNamed == \A c \in Channels : OwnOrNot(c, chan[c])

HandlerNamed ==
  loopPc.pc # "idle" =>
    loopPc.channel \in Channels /\ loopPc.ip \in {"none", "torn", Own(loopPc.channel).ip}

EntriesNamed == \A i \in 1..Len(providers) : OwnOrNot(providers[i].channel, providers[i].addr)

IInv == TypeOK /\ AcceptKnows /\ ChannelsNamed /\ HandlerNamed /\ EntriesNamed

-----------------------------------------------------------------------------
(* Swapping the bytes of a port is undone by swapping them again.          *)
Char(n) == n \in Int /\ 0 <= n /\ n < 256

LEMMA CharsOfPort ==
  ASSUME NEW n \in Int, 0 <= n, n < 65536
  PROVE  /\ Char(n \div 256) /\ Char(n % 256)
         /\ n = 256 * (n \div 256) + (n % 256)
<1>1. n % 256 \in Int /\ 0 <= n % 256 /\ n % 256 < 256
  OBVIOUS
<1>2. n \div 256 \in Int /\ 0 <= n \div 256 /\ n \div 256 < 256
  OBVIOUS
<1>3. n = 256 * (n \div 256) + (n % 256)
  OBVIOUS
<1>. QED
  BY <1>1, <1>2, <1>3 DEF Char

LEMMA SwappedIsPort == \A n \in Int : Swapped(n) \in Ports
<1>. SUFFICES ASSUME NEW n \in Int PROVE Swapped(n) \in Ports
  OBVIOUS
<1>. DEFINE m == n % 65536
<1>1. m \in Int /\ 0 <= m /\ m < 65536
  OBVIOUS
<1>2. Swapped(n) = (m % 256) * 256 + m \div 256
  BY DEF Swapped
<1>. HIDE DEF m
<1>3. Char(m % 256) /\ Char(m \div 256)
  BY <1>1, CharsOfPort
<1>4. ASSUME NEW hi, NEW lo, Char(hi), Char(lo)
      PROVE  hi * 256 + lo \in Ports
  BY <1>4 DEF Char, Ports
<1>. QED
  BY <1>2, <1>3, <1>4

LEMMA SwappedTwice == \A n \in Ports : Swapped(Swapped(n)) = n
<1>1. ASSUME NEW hi, NEW lo, Char(hi), Char(lo)
      PROVE  Swapped(hi * 256 + lo) = lo * 256 + hi
  <2>1. (hi * 256 + lo) % 65536 = hi * 256 + lo
    BY <1>1 DEF Char
  <2>2. (hi * 256 + lo) % 256 = lo
    BY <1>1 DEF Char
  <2>3. (hi * 256 + lo) \div 256 = hi
    BY <1>1 DEF Char
  <2>. QED
    BY <2>1, <2>2, <2>3 DEF Swapped
<1>. SUFFICES ASSUME NEW n \in Ports PROVE Swapped(Swapped(n)) = n
  OBVIOUS
<1>. DEFINE high == n \div 256
            low  == n % 256
<1>2. Char(high) /\ Char(low) /\ n = 256 * high + low
  BY CharsOfPort DEF Ports
<1>. HIDE DEF high, low
<1>3. n = high * 256 + low
  BY <1>2 DEF Char
<1>4. Swapped(n) = low * 256 + high
  BY <1>1, <1>2, <1>3
<1>. QED
  BY <1>1, <1>2, <1>3, <1>4

(* What the accept thread makes of the socket address is the peer's.       *)
LEMMA PeerIsNamed ==
  ASSUME AcceptKnows, acceptPc \in {"addNewFd", "address", "ip", "port"}
  PROVE  /\ FromSock(clientAddr) = PeerAddr[accepted.channel]
         /\ avlid(FromSock(clientAddr))
         /\ PeerAddr[accepted.channel] = Own(accepted.channel)
         /\ PeerAddr[accepted.channel].port \in Ports \ {0}
         /\ PeerAddr[accepted.channel].ip \in ValidIps
<1>1. /\ PeerAddr[accepted.channel] \in [ip : ValidIps, port : Ports \ {0}]
      /\ accepted.channel \in Peers
  BY ServerAssumption DEF AcceptKnows
<1>2. FromSock(clientAddr).port = PeerAddr[accepted.channel].port
  BY <1>1, SwappedTwice DEF AcceptKnows, FromSock
<1>3. FromSock(clientAddr).ip = PeerAddr[accepted.channel].ip
  BY <1>1 DEF AcceptKnows, FromSock
<1>4. FromSock(clientAddr) = PeerAddr[accepted.channel]
  BY <1>1, <1>2, <1>3 DEF FromSock
<1>. QED
  BY <1>1, <1>4 DEF avlid, Own, Ports

-----------------------------------------------------------------------------
(***************************************************************************)
(* The invariant.                                                          *)
(***************************************************************************)
LEMMA ProgramLength == Len(Program) \in Nat
BY ServerAssumption, LenProperties

LEMMA InitInv == Init => IInv
<1>. SUFFICES ASSUME Init PROVE IInv
  OBVIOUS
<1>1. TypeOK
  <2>1. mainPc \in MainPc
    BY ProgramLength DEF Init, MainPc
  <2>2. providers \in Seq(ProviderMes)
    BY DEF Init
  <2>3. Unused \in ChannelObject /\ Idle \in Handler
    BY DEF Unused, Idle, ChannelObject, Handler, Ips
  <2>4. accepted \in Accepted /\ clientAddr \in SockAddr
    BY DEF Init, Accepted, SockAddr, Ips, Ports
  <2>5. chan \in [Channels -> ChannelObject] /\ loopPc \in Handler
    BY <2>3 DEF Init
  <2>6. connections \in [FDs -> Channels \cup {NoChannel}] /\ openFds \subseteq FDs
    BY DEF Init
  <2>7. port \in Ports \cup {-1} /\ acceptPc = "off" /\ kind \in Kinds
    BY DEF Init
  <2>9. fault \in Faults \cup {"none"}
    BY DEF Init
  <2>8. config \in BOOLEAN /\ logger \in BOOLEAN /\ callBacks \in BOOLEAN /\ uringOn \in BOOLEAN
    BY DEF Init
  <2>. QED
    BY <2>1, <2>2, <2>4, <2>5, <2>6, <2>7, <2>8, <2>9 DEF TypeOK
<1>2. AcceptKnows /\ ChannelsNamed /\ HandlerNamed
  BY DEF Init, AcceptKnows, ChannelsNamed, HandlerNamed, OwnOrNot, Idle, Unused
<1>3. EntriesNamed
  BY DEF Init, EntriesNamed
<1>. QED
  BY <1>1, <1>2, <1>3 DEF IInv

(* While main is in a call, there is a next one or the end.                *)
LEMMA InProgram ==
  ASSUME TypeOK, Call # "sleep"
  PROVE  /\ mainPc.at \in 1..Len(Program) /\ Len(Program) \in Nat
         /\ Return => mainPc' \in MainPc
         /\ \A step \in {"call", "callBacks", "listen", "uring", "accept"} :
              Step(step) => mainPc' \in MainPc
<1>1. Len(Program) \in Nat /\ mainPc \in MainPc
  BY ProgramLength DEF TypeOK
<1>2. mainPc.at \in 1..Len(Program)
  BY <1>1 DEF Call, MainPc
<1>. QED
  BY <1>1, <1>2 DEF Return, Step, MainPc

(* What no call of main but createConnection touches.                      *)
LEMMA Untouched ==
  ASSUME IInv, UNCHANGED <<kind, accepted, clientAddr, openFds, connections, chan, loopPc, providers>>,
         acceptPc' \in {acceptPc, "accept"}, fault' \in Faults \cup {"none"}, mainPc' \in MainPc,
         port' \in Ports \cup {-1}, config' \in BOOLEAN, logger' \in BOOLEAN, callBacks' \in BOOLEAN,
         uringOn' \in BOOLEAN
  PROVE  IInv'
<1>1. TypeOK'
  BY DEF IInv, TypeOK
<1>2. AcceptKnows'
  BY DEF IInv, AcceptKnows
<1>3. ChannelsNamed' /\ HandlerNamed' /\ EntriesNamed'
  BY DEF IInv, ChannelsNamed, HandlerNamed, EntriesNamed, OwnOrNot
<1>. QED
  BY <1>1, <1>2, <1>3 DEF IInv

LEMMA MainInv ==
  ASSUME IInv, ReadConfig \/ InitLog \/ Construct \/ Begin
  PROVE  IInv'
<1>1. TypeOK /\ mainPc \in MainPc
  BY DEF IInv, TypeOK
<1>2. CASE \E place \in {"config", "invalid address", "socket", "bind"} : Die(place)
  <2>1. fault' \in Faults \cup {"none"} /\ UNCHANGED <<kind, mainVars, acceptVars, netVars, loopVars>>
    BY <1>2 DEF Die, Faults, SystemCalls
  <2>. QED
    BY <1>1, <2>1, Untouched DEF IInv, TypeOK, mainVars, acceptVars, netVars, loopVars
<1>3. CASE ReadConfig
  <2>1. Call # "sleep"
    BY <1>3 DEF ReadConfig, In
  <2>2. mainPc' \in MainPc
    BY <1>1, <1>3, <2>1, InProgram DEF ReadConfig
  <2>. QED
    BY <1>3, <2>2, Untouched DEF ReadConfig, IInv, TypeOK, acceptVars, netVars, loopVars
<1>4. CASE InitLog /\ ~Die("config")
  <2>1. Call # "sleep"
    BY <1>4 DEF InitLog, In
  <2>2. mainPc' \in MainPc
    BY <1>1, <1>4, <2>1, InProgram DEF InitLog
  <2>. QED
    BY <1>4, <2>2, Untouched DEF InitLog, IInv, TypeOK, acceptVars, netVars, loopVars
<1>5. CASE Construct /\ ~\E place \in {"invalid address", "socket", "bind"} : Die(place)
  <2>1. Call # "sleep"
    BY <1>5 DEF Construct, In
  <2>2. mainPc' \in MainPc
    BY <1>1, <1>5, <2>1, InProgram DEF Construct
  <2>3. port' \in Ports
    <3>1. ServerAddr.port \in Int
      BY ServerAssumption
    <3>2. Swapped(Swapped(ServerAddr.port)) \in Ports
      BY <3>1, SwappedIsPort DEF Ports
    <3>. QED
      BY <1>5, <3>2 DEF Construct
  <2>. QED
    BY <1>5, <2>2, <2>3, Untouched DEF Construct, IInv, TypeOK, acceptVars, netVars, loopVars
<1>6. CASE Begin
  <2>1. Call # "sleep"
    BY <1>6 DEF Begin
  <2>2. mainPc.step \in {"call", "callBacks", "listen", "uring", "accept"}
    BY <1>1 DEF MainPc
  <2>3. After(mainPc.step) \in {"done", "callBacks", "listen", "uring", "accept"}
    BY <2>2 DEF After
  <2>4. mainPc' \in MainPc
    BY <1>1, <1>6, <2>1, <2>3, InProgram DEF Begin
  <2>. QED
    BY <1>6, <2>4, Untouched DEF Begin, IInv, TypeOK, netVars, loopVars
<1>. QED
  BY <1>2, <1>3, <1>4, <1>5, <1>6

(* A connection that is new has no address.                                *)
LEMMA NewIsNamed ==
  ASSUME IInv, NEW fd \in FDs, NEW c \in Channels, addNewFd(fd, c)
  PROVE  /\ connections' \in [FDs -> Channels \cup {NoChannel}]
         /\ chan' \in [Channels -> ChannelObject]
         /\ chan' = [chan EXCEPT ![c] = NewChannel(fd)]
         /\ ChannelsNamed'
<1>1. NewChannel(fd) \in ChannelObject
  BY DEF IInv, TypeOK, NewChannel, ChannelObject, Ips
<1>2. chan' = [chan EXCEPT ![c] = NewChannel(fd)] /\ chan \in [Channels -> ChannelObject]
  BY DEF IInv, TypeOK, addNewFd
<1>3. ChannelsNamed'
  <2>1. OwnOrNot(c, NewChannel(fd))
    BY DEF OwnOrNot, NewChannel
  <2>2. \A d \in Channels : chan'[d] = IF d = c THEN NewChannel(fd) ELSE chan[d]
    BY <1>2
  <2>. QED
    BY <2>1, <2>2 DEF IInv, ChannelsNamed, OwnOrNot
<1>4. connections' \in [FDs -> Channels \cup {NoChannel}]
  BY DEF IInv, TypeOK, addNewFd
<1>. QED
  BY <1>1, <1>2, <1>3, <1>4

(* What changes neither the handler nor the entries.                       *)
LEMMA HandlerStays ==
  ASSUME IInv, UNCHANGED <<kind, config, logger, callBacks, port, uringOn, loopVars, fault>>,
         mainPc' \in MainPc, openFds' \subseteq FDs, AcceptKnows', ChannelsNamed',
         acceptPc' \in {"off", "accept", "addNewFd", "address", "ip", "port"},
         accepted' \in Accepted, clientAddr' \in SockAddr,
         connections' \in [FDs -> Channels \cup {NoChannel}],
         chan' \in [Channels -> ChannelObject]
  PROVE  IInv'
<1>1. TypeOK'
  BY DEF IInv, TypeOK, loopVars
<1>2. HandlerNamed' /\ EntriesNamed'
  BY DEF IInv, HandlerNamed, EntriesNamed, OwnOrNot, loopVars
<1>. QED
  BY <1>1, <1>2 DEF IInv

LEMMA DieInv ==
  ASSUME IInv, NEW place \in Faults, Die(place)
  PROVE  IInv'
BY Untouched DEF Die, IInv, TypeOK, mainVars, acceptVars, netVars, loopVars

LEMMA ConnectInv ==
  ASSUME IInv, CreateConnection
  PROVE  IInv'
<1>1. Call # "sleep" /\ TypeOK
  BY DEF CreateConnection, In, IInv
<1>2. CASE \E place \in {"socket", "connect", "addNewFd"} : Die(place)
  BY <1>2, DieInv DEF Faults, SystemCalls
<1>3. ASSUME NEW fd \in FDs \ openFds, NEW c \in Targets,
             openFds' = openFds \cup {fd}, addNewFd(fd, c), Return,
             UNCHANGED <<kind, config, logger, callBacks, port, uringOn, acceptVars,
                         loopVars, fault>>
      PROVE  IInv'
  <2>1. /\ connections' \in [FDs -> Channels \cup {NoChannel}]
        /\ chan' \in [Channels -> ChannelObject]
        /\ ChannelsNamed'
    BY <1>3, NewIsNamed DEF Channels
  <2>2. mainPc' \in MainPc
    BY <1>1, <1>3, InProgram
  <2>3. AcceptKnows'
    BY <1>3 DEF IInv, AcceptKnows, acceptVars
  <2>. QED
    BY <1>3, <2>1, <2>2, <2>3, HandlerStays DEF IInv, TypeOK, acceptVars
<1>. QED
  BY <1>2, <1>3 DEF CreateConnection

-----------------------------------------------------------------------------
(* The accept thread.                                                      *)
LEMMA AcceptInv ==
  ASSUME IInv, NEW c \in Peers, NEW fd \in FDs, Accept(c, fd)
  PROVE  IInv'
<1>1. PeerAddr[c].port \in Ports /\ PeerAddr[c].ip \in ValidIps
  BY ServerAssumption
<1>2. Swapped(PeerAddr[c].port) \in Ports
  BY <1>1, SwappedIsPort DEF Ports
<1>3. clientAddr' \in SockAddr /\ accepted' \in Accepted
  BY <1>1, <1>2 DEF Accept, SockAddr, Accepted, Ips, Channels
<1>4. AcceptKnows'
  BY DEF Accept, AcceptKnows
<1>5. ChannelsNamed'
  BY DEF Accept, IInv, ChannelsNamed, OwnOrNot
<1>. QED
  BY <1>3, <1>4, <1>5, HandlerStays DEF Accept, AcceptGoto, IInv, TypeOK, mainVars

LEMMA AcceptFailsInv ==
  ASSUME IInv, AcceptFails
  PROVE  IInv'
BY DieInv DEF AcceptFails, Faults, SystemCalls

LEMMA AddAcceptedInv ==
  ASSUME IInv, AddAccepted
  PROVE  IInv'
<1>1. CASE Die("addNewFd")
  BY <1>1, DieInv DEF Faults
<1>2. CASE ~Die("addNewFd")
  <2>1. accepted.fd \in FDs /\ accepted.channel \in Channels
    BY DEF AddAccepted, IInv, AcceptKnows, Channels
  <2>2. /\ addNewFd(accepted.fd, accepted.channel) /\ acceptPc = "addNewFd" /\ acceptPc' = "address"
        /\ UNCHANGED <<kind, mainVars, accepted, clientAddr, openFds, loopVars, fault>>
    BY <1>2 DEF AddAccepted, AcceptGoto
  <2>3. AcceptKnows'
    BY <2>2 DEF IInv, AcceptKnows
  <2>. QED
    BY <2>1, <2>2, <2>3, NewIsNamed, HandlerStays DEF IInv, TypeOK, mainVars
<1>. QED
  BY <1>1, <1>2

(* A step of setAddr leaves the channel with its own address or less.      *)
LEMMA SetStep ==
  ASSUME IInv, NEW c \in Channels, NEW r \in ChannelObject, OwnOrNot(c, r),
         chan' = [chan EXCEPT ![c] = r]
  PROVE  chan' \in [Channels -> ChannelObject] /\ ChannelsNamed'
<1>1. chan \in [Channels -> ChannelObject]
  BY DEF IInv, TypeOK
<1>2. \A d \in Channels : chan'[d] = IF d = c THEN r ELSE chan[d]
  BY <1>1
<1>. QED
  BY <1>1, <1>2 DEF IInv, ChannelsNamed, OwnOrNot

LEMMA SetAddrInv ==
  ASSUME IInv, SetIp \/ SetIpEnd \/ SetPort
  PROVE  IInv'
<1>1. CASE Die("invalid address")
  BY <1>1, DieInv DEF Faults
<1>2. CASE ~Die("invalid address")
  <2>. DEFINE c == accepted.channel
  <2>1. acceptPc \in {"addNewFd", "address", "ip", "port"}
    BY DEF SetIp, SetIpEnd, SetPort
  <2>2. c \in Channels /\ chan \in [Channels -> ChannelObject] /\ accepted.fd \in FDs
    BY <2>1 DEF IInv, TypeOK, AcceptKnows, Channels
  <2>3. /\ FromSock(clientAddr) = Own(c) /\ Own(c).port \in Ports \ {0} /\ Own(c).ip \in ValidIps
    BY <2>1, PeerIsNamed DEF IInv
  <2>4. chan[c] \in ChannelObject /\ OwnOrNot(c, chan[c])
    BY <2>2 DEF IInv, ChannelsNamed
  <2>. DEFINE torn  == [chan[c] EXCEPT !.ip = "torn"]
              named == [chan[c] EXCEPT !.ip = Own(c).ip]
              whole == [chan[c] EXCEPT !.port = Own(c).port]
  <2>5. /\ torn \in ChannelObject /\ OwnOrNot(c, torn)
        /\ named \in ChannelObject /\ OwnOrNot(c, named)
        /\ whole \in ChannelObject /\ OwnOrNot(c, whole)
    BY <2>3, <2>4 DEF ChannelObject, OwnOrNot, Ips
  <2>6. \E r \in {torn, named, whole} : chan' = [chan EXCEPT ![c] = r]
    BY <1>2, <2>2, <2>3 DEF SetIp, SetIpEnd, SetPort, Named
  <2>7. chan' \in [Channels -> ChannelObject] /\ ChannelsNamed'
    BY <2>2, <2>5, <2>6, SetStep
  <2>8. /\ UNCHANGED <<kind, mainVars, clientAddr, openFds, connections, loopVars, fault>>
        /\ \/ accepted' = accepted /\ acceptPc' \in {"ip", "port"}
           \/ accepted' = [fd |-> NoFd, channel |-> NoChannel] /\ acceptPc' = "accept"
    BY <1>2 DEF SetIp, SetIpEnd, SetPort, AcceptGoto
  <2>9. AcceptKnows' /\ accepted' \in Accepted
    BY <2>1, <2>8 DEF IInv, TypeOK, AcceptKnows, Accepted
  <2>. QED
    BY <2>7, <2>8, <2>9, HandlerStays DEF IInv, TypeOK, mainVars
<1>. QED
  BY <1>1, <1>2

-----------------------------------------------------------------------------
(* The loop thread.                                                        *)
LEMMA MessageInv ==
  ASSUME IInv, NEW c \in Channels, NEW type \in Types, NEW id \in {1, 2}, Message(c, type, id)
  PROVE  IInv'
<1>1. CASE Die("noCallBack") \/ Die("logger")
  BY <1>1, DieInv DEF Faults
<1>2. CASE /\ loopPc' = [pc |-> "address", channel |-> c, ip |-> chan[c].ip]
           /\ UNCHANGED <<kind, mainVars, acceptVars, netVars, providers, fault>>
  <2>1. chan[c] \in ChannelObject /\ OwnOrNot(c, chan[c])
    BY DEF IInv, TypeOK, ChannelsNamed
  <2>2. loopPc' \in Handler
    BY <1>2, <2>1 DEF Handler, ChannelObject
  <2>3. HandlerNamed'
    BY <1>2, <2>1 DEF HandlerNamed, OwnOrNot
  <2>4. TypeOK'
    BY <1>2, <2>2 DEF IInv, TypeOK, mainVars, acceptVars, netVars
  <2>5. AcceptKnows' /\ ChannelsNamed' /\ EntriesNamed'
    BY <1>2 DEF IInv, AcceptKnows, ChannelsNamed, EntriesNamed, OwnOrNot, acceptVars, netVars
  <2>. QED
    BY <2>3, <2>4, <2>5 DEF IInv
<1>. QED
  BY <1>1, <1>2 DEF Message

LEMMA ProviderNewInv ==
  ASSUME IInv, ProviderNew
  PROVE  IInv'
<1>. DEFINE c == loopPc.channel
<1>1. loopPc.pc = "address" /\ loopPc' = Idle
      /\ UNCHANGED <<kind, mainVars, acceptVars, netVars, fault>>
  BY DEF ProviderNew
<1>2. c \in Channels /\ loopPc.ip \in {"none", "torn", Own(c).ip}
  BY <1>1 DEF IInv, HandlerNamed
<1>3. chan[c] \in ChannelObject /\ OwnOrNot(c, chan[c])
  BY <1>2 DEF IInv, TypeOK, ChannelsNamed
<1>4. PICK ip \in CopiedIp(c) :
        providers' = Append(providers, Entry(c, [ip |-> ip, port |-> chan[c].port]))
  BY DEF ProviderNew
<1>5. ip \in {loopPc.ip, chan[c].ip, "torn"}
  BY <1>4 DEF CopiedIp
<1>. DEFINE e == Entry(c, [ip |-> ip, port |-> chan[c].port])
<1>6. loopPc.ip \in Ips
  BY DEF IInv, TypeOK, Handler
<1>7. ip \in Ips /\ chan[c].port \in Ports \cup {-1}
  BY <1>3, <1>5, <1>6 DEF ChannelObject, Ips
<1>8. e \in ProviderMes
  BY <1>2, <1>7 DEF Entry, ProviderMes, Addrs
<1>9. OwnOrNot(e.channel, e.addr)
  BY <1>2, <1>3, <1>5 DEF OwnOrNot, Entry
<1>. HIDE DEF e
<1>10. providers' = Append(providers, e) /\ providers \in Seq(ProviderMes)
  BY <1>4 DEF e, IInv, TypeOK
<1>11. /\ providers' \in Seq(ProviderMes)
       /\ Len(providers') = Len(providers) + 1 /\ Len(providers) \in Nat
       /\ \A i \in 1..Len(providers) : providers'[i] = providers[i]
       /\ providers'[Len(providers) + 1] = e
  BY <1>8, <1>10, AppendProperties
<1>12. EntriesNamed'
  <2>. SUFFICES ASSUME NEW i \in 1..(Len(providers) + 1)
                PROVE  OwnOrNot(providers'[i].channel, providers'[i].addr)
    BY <1>11 DEF EntriesNamed, OwnOrNot
  <2>1. CASE i \in 1..Len(providers)
    BY <1>11, <2>1 DEF IInv, EntriesNamed
  <2>2. CASE i = Len(providers) + 1
    BY <1>9, <1>11, <2>2
  <2>. QED
    BY <1>11, <2>1, <2>2
<1>13. Idle \in Handler
  BY DEF Idle, Handler, Ips
<1>14. TypeOK'
  BY <1>1, <1>11, <1>13 DEF IInv, TypeOK, mainVars, acceptVars, netVars
<1>15. AcceptKnows' /\ ChannelsNamed' /\ HandlerNamed'
  BY <1>1 DEF IInv, AcceptKnows, ChannelsNamed, HandlerNamed, OwnOrNot, Idle, acceptVars, netVars
<1>. QED
  BY <1>12, <1>14, <1>15 DEF IInv

LEMMA RemoveFdInv ==
  ASSUME IInv, NEW c \in Channels, RemoveFd(c)
  PROVE  IInv'
<1>. DEFINE r == [chan[c] EXCEPT !.state = "closed"]
<1>1. chan[c] \in ChannelObject /\ OwnOrNot(c, chan[c])
  BY DEF IInv, TypeOK, ChannelsNamed
<1>2. r \in ChannelObject /\ OwnOrNot(c, r)
  BY <1>1 DEF ChannelObject, OwnOrNot
<1>3. chan' = [chan EXCEPT ![c] = r]
  BY DEF RemoveFd
<1>4. chan' \in [Channels -> ChannelObject] /\ ChannelsNamed'
  BY <1>2, <1>3, SetStep
<1>5. connections' \in [FDs -> Channels \cup {NoChannel}]
  BY DEF RemoveFd, IInv, TypeOK
<1>6. loopPc' \in Handler /\ HandlerNamed'
  BY DEF RemoveFd, Idle, Handler, HandlerNamed, Ips
<1>7. TypeOK'
  BY <1>4, <1>5, <1>6 DEF RemoveFd, IInv, TypeOK, mainVars, acceptVars
<1>8. AcceptKnows' /\ EntriesNamed'
  BY DEF RemoveFd, IInv, AcceptKnows, EntriesNamed, OwnOrNot, acceptVars
<1>. QED
  BY <1>4, <1>6, <1>7, <1>8 DEF IInv

LEMMA CloseFdInv ==
  ASSUME IInv, CloseFd
  PROVE  IInv'
<1>1. loopPc' \in Handler /\ HandlerNamed' /\ openFds' \subseteq FDs
  BY DEF CloseFd, Idle, Handler, HandlerNamed, Ips, IInv, TypeOK
<1>2. TypeOK'
  BY <1>1 DEF CloseFd, IInv, TypeOK, mainVars, acceptVars
<1>3. AcceptKnows' /\ ChannelsNamed' /\ EntriesNamed'
  BY DEF CloseFd, IInv, AcceptKnows, ChannelsNamed, EntriesNamed, OwnOrNot, acceptVars
<1>. QED
  BY <1>1, <1>2, <1>3 DEF IInv

-----------------------------------------------------------------------------
LEMMA StepInv == IInv /\ [Next]_vars => IInv'
<1>. SUFFICES ASSUME IInv, [Next]_vars PROVE IInv'
  OBVIOUS
<1>1. CASE UNCHANGED vars
  BY <1>1, Untouched DEF vars, mainVars, acceptVars, netVars, loopVars, IInv, TypeOK
<1>2. CASE Main
  BY <1>2, MainInv, ConnectInv DEF Main
<1>3. CASE AcceptThread
  BY <1>3, AcceptInv, AcceptFailsInv, AddAcceptedInv, SetAddrInv DEF AcceptThread
<1>4. CASE LoopThread
  BY <1>4, MessageInv, ProviderNewInv, RemoveFdInv, CloseFdInv DEF LoopThread
<1>. QED
  BY <1>1, <1>2, <1>3, <1>4 DEF Next

(* The inductive invariant holds in every reachable state.                 *)
THEOREM Invariance == Spec => []IInv
<1>. QED
  BY InitInv, StepInv, PTL DEF Spec

(* Every variable keeps its type, whatever main calls and peers send.      *)
THEOREM TypeCorrect == Spec => []TypeOK
<1>1. IInv => TypeOK
  BY DEF IInv
<1>. QED
  BY <1>1, Invariance, PTL

(* The address in an entry of the registry (rpc_registry.cpp:82) is the    *)
(* peer's own, half written or missing, although the accept thread stores  *)
(* it in a channel that is served, and may be closed, meanwhile.           *)
THEOREM AddressesStayOwn == Spec => []AddressIsOwn
<1>1. IInv => AddressIsOwn
  <2>. SUFFICES ASSUME IInv, NEW i \in DOMAIN providers
                PROVE  LET e   == providers[i]
                           own == IF e.channel \in Peers THEN PeerAddr[e.channel] ELSE NoAddr
                       IN  e.addr.ip \in {"none", "torn", own.ip} /\ e.addr.port \in {-1, own.port}
    BY DEF AddressIsOwn
  <2>1. i \in 1..Len(providers)
    BY LenProperties DEF IInv, TypeOK
  <2>. QED
    BY <2>1 DEF IInv, EntriesNamed, OwnOrNot, Own
<1>. QED
  BY <1>1, Invariance, PTL

-----------------------------------------------------------------------------
(***************************************************************************)
(* A program whose calls are in order dies of failed system calls only.    *)
(***************************************************************************)
Before(i, call) == \E j \in 1..(i - 1) : Program[j] = call

(* main reads the configuration before init, calls init before begin and   *)
(* begin before it connects.                                               *)
InOrder ==
  \A i \in 1..Len(Program) :
    /\ Program[i] = "init" => Before(i, "readConfig")
    /\ Program[i] = "begin" => Before(i, "init")
    /\ Program[i] = "connect" => Before(i, "begin")

(* What a call that has returned, or a thread that runs, stands for.       *)
MainKnows ==
  /\ Before(mainPc.at, "readConfig") => config
  /\ Before(mainPc.at, "init") => logger
  /\ Before(mainPc.at, "begin") \/ mainPc.step \in {"listen", "uring", "accept"} => callBacks
  /\ uringOn => logger
  /\ acceptPc # "off" => callBacks

ChannelsServed ==
  \A c \in Channels :
    /\ chan[c].state = "live" => chan[c].cb
    /\ chan[c].state # "unused" => chan[c].fd \in FDs

(* A descriptor that is not open is not mapped: the accept thread's new    *)
(* one is open and nobody else's, and the loop thread takes a connection   *)
(* out of the map before it closes the descriptor.                         *)
MappedAreOpen == \A fd \in FDs : connections[fd] # NoChannel => fd \in openFds

AcceptedIsNew ==
  acceptPc = "addNewFd" =>
    /\ accepted.fd \in openFds /\ connections[accepted.fd] = NoChannel
    /\ chan[accepted.channel].state = "unused"

ClosingIsUnmapped ==
  loopPc.pc = "close" =>
    /\ loopPc.channel \in Channels /\ chan[loopPc.channel].state = "closed"
    /\ connections[chan[loopPc.channel].fd] = NoChannel
    /\ chan[loopPc.channel].fd \in openFds
    /\ acceptPc = "addNewFd" => chan[loopPc.channel].fd # accepted.fd

Kept ==
  /\ MainKnows /\ ChannelsServed /\ MappedAreOpen /\ AcceptedIsNew /\ ClosingIsUnmapped
  /\ DiesOfSystemCallsOnly

Alive == IInv /\ InOrder /\ avlid(ServerAddr) /\ Kept

LEMMA InitAlive == Init /\ InOrder /\ avlid(ServerAddr) => Alive
<1>. SUFFICES ASSUME Init, InOrder, avlid(ServerAddr) PROVE Kept
  BY InitInv DEF Alive
<1>1. MainKnows
  BY DEF Init, MainKnows, Before
<1>2. ChannelsServed /\ MappedAreOpen /\ AcceptedIsNew /\ ClosingIsUnmapped
  BY DEF Init, ChannelsServed, MappedAreOpen, AcceptedIsNew, ClosingIsUnmapped, Unused, Idle
<1>. QED
  BY <1>1, <1>2 DEF Init, Kept, DiesOfSystemCallsOnly

(* What has returned once the call main is in returns.                     *)
LEMMA Returned ==
  ASSUME TypeOK, NEW call, Call = call, call # "sleep", Return, NEW other
  PROVE  Before(mainPc.at, other)' <=> Before(mainPc.at, other) \/ other = call
<1>1. mainPc.at \in 1..Len(Program) /\ Len(Program) \in Nat /\ mainPc \in MainPc
  BY InProgram DEF TypeOK
<1>2. mainPc'.at = mainPc.at + 1 /\ Program[mainPc.at] = call
  BY <1>1 DEF Return, Call, MainPc
<1>3. \A j : j \in 1..(mainPc'.at - 1) <=> j \in 1..(mainPc.at - 1) \/ j = mainPc.at
  BY <1>1, <1>2
<1>4. Before(mainPc.at, other)' <=> \E j \in 1..(mainPc'.at - 1) : Program[j] = other
  BY DEF Before
<1>. QED
  BY <1>2, <1>3, <1>4 DEF Before

(* What the calls that are in order find done.                             *)
LEMMA CallsInOrder ==
  ASSUME Alive
  PROVE  /\ Call = "init" => config
         /\ Call = "begin" => logger
         /\ Call = "connect" => callBacks
<1>1. ASSUME Call # "sleep" PROVE mainPc.at \in 1..Len(Program) /\ Program[mainPc.at] = Call
  BY <1>1, InProgram DEF Alive, IInv, Call
<1>. QED
  BY <1>1 DEF Alive, InOrder, Kept, MainKnows

-----------------------------------------------------------------------------
(* main.                                                                   *)
LEMMA ReadConfigAlive ==
  ASSUME Alive, ReadConfig
  PROVE  Kept'
<1>1. TypeOK /\ Call = "readConfig" /\ Return
  BY DEF Alive, IInv, ReadConfig, In
<1>2. mainPc'.step = "call"
  BY <1>1 DEF Return
<1>3. MainKnows'
  BY <1>1, <1>2, Returned DEF ReadConfig, Alive, Kept, MainKnows, acceptVars
<1>. QED
  BY <1>3 DEF ReadConfig, Alive, Kept, ChannelsServed, MappedAreOpen, AcceptedIsNew,
              ClosingIsUnmapped, DiesOfSystemCallsOnly, acceptVars, netVars, loopVars

LEMMA InitLogAlive ==
  ASSUME Alive, InitLog
  PROVE  Kept'
<1>1. TypeOK /\ Call = "init" /\ config
  BY CallsInOrder DEF Alive, IInv, InitLog, In
<1>2. /\ Return /\ logger'
      /\ UNCHANGED <<kind, config, callBacks, port, uringOn, acceptVars, netVars, loopVars, fault>>
  BY <1>1 DEF InitLog
<1>3. mainPc'.step = "call"
  BY <1>2 DEF Return
<1>4. MainKnows'
  BY <1>1, <1>2, <1>3, Returned DEF Alive, Kept, MainKnows, acceptVars
<1>. QED
  BY <1>2, <1>4 DEF Alive, Kept, ChannelsServed, MappedAreOpen, AcceptedIsNew,
                    ClosingIsUnmapped, DiesOfSystemCallsOnly, acceptVars, netVars, loopVars

(* A system call that fails ends the process and touches nothing else.     *)
LEMMA SystemCallFails ==
  ASSUME Alive, NEW place \in SystemCalls, Die(place)
  PROVE  Kept'
<1>1. \A call : Before(mainPc.at, call)' <=> Before(mainPc.at, call)
  BY DEF Die, Before, mainVars
<1>2. MainKnows'
  BY <1>1 DEF Die, Alive, Kept, MainKnows, mainVars, acceptVars
<1>. QED
  BY <1>2 DEF Die, Alive, Kept, ChannelsServed, MappedAreOpen, AcceptedIsNew, ClosingIsUnmapped,
              DiesOfSystemCallsOnly, mainVars, acceptVars, netVars, loopVars

LEMMA ConstructAlive ==
  ASSUME Alive, Construct
  PROVE  Kept'
<1>1. TypeOK /\ Call = "construct"
  BY DEF Alive, IInv, Construct, In
<1>2. CASE \E call \in {"socket", "bind"} : Die(call)
  BY <1>2, SystemCallFails DEF SystemCalls
<1>3. CASE /\ Return
           /\ UNCHANGED <<kind, config, logger, callBacks, uringOn, acceptVars, netVars,
                          loopVars, fault>>
  <2>1. mainPc'.step = "call"
    BY <1>3 DEF Return
  <2>2. MainKnows'
    BY <1>1, <1>3, <2>1, Returned DEF Alive, Kept, MainKnows, acceptVars
  <2>. QED
    BY <1>3, <2>2 DEF Alive, Kept, ChannelsServed, MappedAreOpen, AcceptedIsNew,
                      ClosingIsUnmapped, DiesOfSystemCallsOnly, acceptVars, netVars, loopVars
<1>. QED
  BY <1>2, <1>3 DEF Alive, Construct

LEMMA BeginAlive ==
  ASSUME Alive, Begin
  PROVE  Kept'
<1>1. TypeOK /\ Call = "begin" /\ logger /\ mainPc \in MainPc
  BY CallsInOrder DEF Alive, IInv, TypeOK, Begin
<1>2. MainKnows'
  <2>1. CASE mainPc.step = "accept"
    <3>1. Return /\ callBacks /\ callBacks'
      BY <2>1 DEF Begin, After, Alive, Kept, MainKnows
    <3>2. mainPc'.step = "call"
      BY <3>1 DEF Return
    <3>. QED
      BY <1>1, <2>1, <3>1, <3>2, Returned DEF Begin, Alive, Kept, MainKnows
  <2>2. CASE mainPc.step # "accept"
    <3>1. /\ mainPc' = [mainPc EXCEPT !.step = After(mainPc.step)]
          /\ After(mainPc.step) \in {"callBacks", "listen", "uring", "accept"}
          /\ acceptPc' = acceptPc
      BY <1>1, <2>2 DEF Begin, After, Step, MainPc
    <3>2. mainPc'.at = mainPc.at /\ mainPc'.step = After(mainPc.step)
      BY <1>1, <3>1 DEF MainPc
    <3>3. After(mainPc.step) = "callBacks" <=> mainPc.step = "call"
      BY <1>1, <2>2 DEF After, MainPc
    <3>4. \A call : Before(mainPc.at, call)' <=> Before(mainPc.at, call)
      BY <3>2 DEF Before
    <3>. QED
      BY <1>1, <2>2, <3>1, <3>2, <3>3, <3>4 DEF Begin, Alive, Kept, MainKnows, MainPc
  <2>. QED
    BY <2>1, <2>2
<1>3. acceptPc' = "addNewFd" => acceptPc = "addNewFd"
  BY DEF Begin
<1>. QED
  BY <1>2, <1>3 DEF Begin, Alive, Kept, ChannelsServed, MappedAreOpen, AcceptedIsNew,
              ClosingIsUnmapped, DiesOfSystemCallsOnly, netVars, loopVars

(* A channel and a descriptor that nobody has are given to each other.     *)
LEMMA AddAlive ==
  ASSUME Alive, NEW fd \in FDs, NEW c \in Channels, addNewFd(fd, c), callBacks,
         connections[fd] = NoChannel, fd \in openFds', openFds \subseteq openFds',
         chan[c].state = "unused", loopPc' = loopPc,
         loopPc.pc = "close" => chan[loopPc.channel].fd # fd,
         acceptPc' = "addNewFd" => acceptPc = "addNewFd" /\ accepted' = accepted
                                    /\ accepted.fd # fd /\ accepted.channel # c
  PROVE  /\ ChannelsServed' /\ MappedAreOpen' /\ AcceptedIsNew' /\ ClosingIsUnmapped'
<1>1. /\ connections \in [FDs -> Channels \cup {NoChannel}] /\ chan \in [Channels -> ChannelObject]
      /\ connections' = [connections EXCEPT ![fd] = c]
      /\ chan' = [chan EXCEPT ![c] = NewChannel(fd)]
  BY DEF Alive, IInv, TypeOK, addNewFd
<1>2. ChannelsServed'
  BY <1>1 DEF Alive, Kept, ChannelsServed, NewChannel
<1>3. MappedAreOpen'
  BY <1>1 DEF Alive, Kept, MappedAreOpen
<1>4. AcceptedIsNew'
  BY <1>1 DEF Alive, Kept, AcceptedIsNew, IInv, AcceptKnows, Channels
<1>5. ClosingIsUnmapped'
  <2>. SUFFICES ASSUME loopPc.pc = "close" PROVE ClosingIsUnmapped'
    BY DEF ClosingIsUnmapped
  <2>1. loopPc.channel \in Channels /\ loopPc.channel # c
    BY DEF Alive, Kept, ClosingIsUnmapped
  <2>2. chan'[loopPc.channel] = chan[loopPc.channel]
    BY <1>1, <2>1
  <2>3. chan[loopPc.channel].fd \in FDs
    BY <2>1 DEF Alive, Kept, ClosingIsUnmapped, ChannelsServed
  <2>4. connections'[chan[loopPc.channel].fd] = connections[chan[loopPc.channel].fd]
    BY <1>1, <2>3
  <2>. QED
    BY <2>1, <2>2, <2>4 DEF Alive, Kept, ClosingIsUnmapped
<1>. QED
  BY <1>2, <1>3, <1>4, <1>5

LEMMA ConnectAlive ==
  ASSUME Alive, CreateConnection
  PROVE  Kept'
<1>1. TypeOK /\ Call = "connect" /\ callBacks /\ mainPc.step = "call"
  BY CallsInOrder DEF Alive, IInv, CreateConnection, In
<1>2. CASE \E call \in {"socket", "connect"} : Die(call)
  BY <1>2, SystemCallFails DEF SystemCalls
<1>3. ASSUME NEW fd \in FDs \ openFds, NEW c \in Targets, chan[c].state = "unused",
             connections[fd] = NoChannel, openFds' = openFds \cup {fd}, addNewFd(fd, c), Return,
             UNCHANGED <<kind, config, logger, callBacks, port, uringOn, acceptVars,
                         loopVars, fault>>
      PROVE  Kept'
  <2>1. mainPc'.step = "call"
    BY <1>3 DEF Return
  <2>2. MainKnows'
    BY <1>1, <1>3, <2>1, Returned DEF Alive, Kept, MainKnows, acceptVars
  <2>3. loopPc.pc = "close" => chan[loopPc.channel].fd # fd
    BY DEF Alive, Kept, ClosingIsUnmapped
  <2>4. acceptPc = "addNewFd" => accepted.fd # fd /\ accepted.channel # c
    BY ServerAssumption DEF Alive, Kept, AcceptedIsNew, IInv, AcceptKnows
  <2>5. ChannelsServed' /\ MappedAreOpen' /\ AcceptedIsNew' /\ ClosingIsUnmapped'
    BY <1>1, <1>3, <2>3, <2>4, AddAlive DEF Channels, acceptVars, loopVars
  <2>. QED
    BY <1>3, <2>2, <2>5 DEF Alive, Kept, DiesOfSystemCallsOnly
<1>4. \A fd \in FDs \ openFds : connections[fd] = NoChannel
  BY DEF Alive, Kept, MappedAreOpen
<1>. QED
  BY <1>2, <1>3, <1>4 DEF CreateConnection

-----------------------------------------------------------------------------
(* The accept thread.                                                      *)
LEMMA MainStays ==
  ASSUME Alive, UNCHANGED mainVars, acceptPc' # "off" => acceptPc # "off"
  PROVE  MainKnows'
<1>1. \A call : Before(mainPc.at, call)' <=> Before(mainPc.at, call)
  BY DEF Before, mainVars
<1>. QED
  BY <1>1 DEF Alive, Kept, MainKnows, mainVars

LEMMA AcceptAlive ==
  ASSUME Alive, NEW c \in Peers, NEW fd \in FDs, Accept(c, fd)
  PROVE  Kept'
<1>1. connections[fd] = NoChannel
  BY DEF Accept, Alive, Kept, MappedAreOpen
<1>2. MainKnows'
  BY MainStays DEF Accept, AcceptGoto
<1>3. ChannelsServed' /\ MappedAreOpen' /\ DiesOfSystemCallsOnly'
  BY DEF Accept, Alive, Kept, ChannelsServed, MappedAreOpen, DiesOfSystemCallsOnly
<1>4. AcceptedIsNew'
  BY <1>1 DEF Accept, AcceptedIsNew
<1>5. ClosingIsUnmapped'
  BY DEF Accept, Alive, Kept, ClosingIsUnmapped, loopVars
<1>. QED
  BY <1>2, <1>3, <1>4, <1>5 DEF Kept

LEMMA AcceptFailsAlive ==
  ASSUME Alive, AcceptFails
  PROVE  Kept'
BY SystemCallFails DEF AcceptFails, SystemCalls

LEMMA AddAcceptedAlive ==
  ASSUME Alive, AddAccepted
  PROVE  Kept'
<1>1. /\ accepted.fd \in FDs /\ accepted.fd \in openFds /\ connections[accepted.fd] = NoChannel
      /\ accepted.channel \in Channels /\ chan[accepted.channel].state = "unused"
      /\ acceptPc = "addNewFd" /\ callBacks
  BY DEF AddAccepted, Alive, Kept, AcceptedIsNew, MainKnows, IInv, AcceptKnows, Channels
<1>2. /\ addNewFd(accepted.fd, accepted.channel) /\ acceptPc' = "address"
      /\ UNCHANGED <<kind, mainVars, accepted, clientAddr, openFds, loopVars, fault>>
  BY <1>1 DEF AddAccepted, AcceptGoto
<1>3. loopPc.pc = "close" => chan[loopPc.channel].fd # accepted.fd
  BY <1>1 DEF Alive, Kept, ClosingIsUnmapped
<1>4. ChannelsServed' /\ MappedAreOpen' /\ AcceptedIsNew' /\ ClosingIsUnmapped'
  BY <1>1, <1>2, <1>3, AddAlive DEF loopVars
<1>5. MainKnows'
  BY <1>1, <1>2, MainStays
<1>. QED
  BY <1>2, <1>4, <1>5 DEF Alive, Kept, DiesOfSystemCallsOnly

LEMMA SetAddrAlive ==
  ASSUME Alive, SetIp \/ SetIpEnd \/ SetPort
  PROVE  Kept'
<1>1. acceptPc \in {"address", "ip", "port"}
  BY DEF SetIp, SetIpEnd, SetPort
<1>2. avlid(FromSock(clientAddr)) /\ accepted.channel \in Channels
  BY <1>1, PeerIsNamed DEF Alive, IInv, AcceptKnows, Channels
<1>3. /\ acceptPc' \in {"ip", "port", "accept"}
      /\ UNCHANGED <<kind, mainVars, clientAddr, openFds, connections, loopVars, fault>>
  BY <1>2 DEF SetIp, SetIpEnd, SetPort, AcceptGoto
<1>4. \A d \in Channels : /\ chan'[d].state = chan[d].state
                          /\ chan'[d].fd = chan[d].fd /\ chan'[d].cb = chan[d].cb
  <2>1. \E r \in {"ip", "port"}, value \in {"torn", FromSock(clientAddr).ip, FromSock(clientAddr).port} :
           \/ r = "ip" /\ chan' = [chan EXCEPT ![Named].ip = value]
           \/ r = "port" /\ chan' = [chan EXCEPT ![Named].port = value]
    BY <1>2 DEF SetIp, SetIpEnd, SetPort
  <2>2. chan \in [Channels -> ChannelObject]
    BY DEF Alive, IInv, TypeOK
  <2>. QED
    BY <1>2, <2>1, <2>2 DEF Named, ChannelObject
<1>5. MainKnows'
  BY <1>1, <1>3, MainStays
<1>6. ChannelsServed' /\ MappedAreOpen' /\ AcceptedIsNew'
  BY <1>3, <1>4 DEF Alive, Kept, ChannelsServed, MappedAreOpen, AcceptedIsNew
<1>7. ClosingIsUnmapped'
  BY <1>3, <1>4 DEF Alive, Kept, ClosingIsUnmapped, loopVars
<1>. QED
  BY <1>3, <1>5, <1>6, <1>7 DEF Alive, Kept, DiesOfSystemCallsOnly

-----------------------------------------------------------------------------
(* The loop thread.                                                        *)
LEMMA MessageAlive ==
  ASSUME Alive, uringOn, NEW c \in Channels, NEW type \in Types, NEW id \in {1, 2},
         Message(c, type, id)
  PROVE  Kept'
<1>1. chan[c].cb /\ logger
  BY DEF Message, Served, Alive, Kept, ChannelsServed, MainKnows
<1>2. /\ loopPc' = [pc |-> "address", channel |-> c, ip |-> chan[c].ip]
      /\ UNCHANGED <<kind, mainVars, acceptVars, netVars, providers, fault>>
  BY <1>1 DEF Message
<1>3. MainKnows'
  BY <1>2, MainStays DEF acceptVars
<1>. QED
  BY <1>2, <1>3 DEF Alive, Kept, ChannelsServed, MappedAreOpen, AcceptedIsNew, ClosingIsUnmapped,
                    DiesOfSystemCallsOnly, acceptVars, netVars

LEMMA ProviderNewAlive ==
  ASSUME Alive, ProviderNew
  PROVE  Kept'
<1>1. loopPc' = Idle /\ UNCHANGED <<kind, mainVars, acceptVars, netVars, fault>>
  BY DEF ProviderNew
<1>2. MainKnows'
  BY <1>1, MainStays DEF acceptVars
<1>. QED
  BY <1>1, <1>2 DEF Alive, Kept, ChannelsServed, MappedAreOpen, AcceptedIsNew, ClosingIsUnmapped,
                    DiesOfSystemCallsOnly, acceptVars, netVars, Idle

LEMMA RemoveFdAlive ==
  ASSUME Alive, NEW c \in Channels, RemoveFd(c)
  PROVE  Kept'
<1>. DEFINE fd == chan[c].fd
<1>1. /\ connections \in [FDs -> Channels \cup {NoChannel}] /\ chan \in [Channels -> ChannelObject]
      /\ chan[c].state = "live" /\ connections[fd] = c
      /\ connections' = [connections EXCEPT ![fd] = NoChannel]
      /\ chan' = [chan EXCEPT ![c].state = "closed"]
      /\ loopPc' = [Idle EXCEPT !.pc = "close", !.channel = c]
      /\ UNCHANGED <<kind, mainVars, acceptVars, openFds, providers, fault>>
  BY DEF RemoveFd, Served, Alive, IInv, TypeOK
<1>2. fd \in FDs /\ fd \in openFds /\ c # NoChannel
  BY <1>1, ServerAssumption DEF Alive, Kept, ChannelsServed, MappedAreOpen
<1>3. \A d \in Channels : /\ chan'[d].fd = chan[d].fd /\ chan'[d].cb = chan[d].cb
                          /\ d # c => chan'[d].state = chan[d].state
  BY <1>1 DEF ChannelObject
<1>4. chan'[c].state = "closed" /\ connections'[fd] = NoChannel
  BY <1>1, <1>2 DEF ChannelObject
<1>5. acceptPc = "addNewFd" => accepted.fd # fd /\ accepted.channel # c
  BY <1>1, <1>2 DEF Alive, Kept, AcceptedIsNew
<1>6. MainKnows'
  BY <1>1, MainStays DEF acceptVars
<1>7. ChannelsServed'
  BY <1>1, <1>2, <1>3, <1>4 DEF Alive, Kept, ChannelsServed
<1>8. MappedAreOpen'
  BY <1>1 DEF Alive, Kept, MappedAreOpen
<1>9. AcceptedIsNew'
  BY <1>1, <1>3, <1>5 DEF Alive, Kept, AcceptedIsNew, acceptVars, IInv, AcceptKnows, Channels
<1>10. ClosingIsUnmapped'
  <2>1. loopPc'.channel = c
    BY <1>1 DEF Idle
  <2>. QED
    BY <1>1, <1>2, <1>3, <1>4, <1>5, <2>1 DEF ClosingIsUnmapped, acceptVars
<1>. QED
  BY <1>1, <1>6, <1>7, <1>8, <1>9, <1>10 DEF Alive, Kept, DiesOfSystemCallsOnly

LEMMA CloseFdAlive ==
  ASSUME Alive, CloseFd
  PROVE  Kept'
<1>. DEFINE fd == chan[loopPc.channel].fd
<1>1. /\ loopPc' = Idle /\ openFds' = openFds \ {fd}
      /\ UNCHANGED <<kind, mainVars, acceptVars, connections, chan, providers, fault>>
      /\ connections[fd] = NoChannel /\ (acceptPc = "addNewFd" => fd # accepted.fd)
  BY DEF CloseFd, Alive, Kept, ClosingIsUnmapped
<1>2. MainKnows'
  BY <1>1, MainStays DEF acceptVars
<1>3. ChannelsServed' /\ MappedAreOpen' /\ AcceptedIsNew' /\ ClosingIsUnmapped'
  BY <1>1 DEF Alive, Kept, ChannelsServed, MappedAreOpen, AcceptedIsNew, ClosingIsUnmapped,
              acceptVars, Idle
<1>. QED
  BY <1>1, <1>2, <1>3 DEF Alive, Kept, DiesOfSystemCallsOnly

-----------------------------------------------------------------------------
LEMMA StepAlive == Alive /\ [Next]_vars => Alive'
<1>. SUFFICES ASSUME Alive, [Next]_vars PROVE Alive'
  OBVIOUS
<1>1. IInv' /\ InOrder' /\ avlid(ServerAddr)'
  BY StepInv DEF Alive, InOrder, Before, avlid
<1>2. Kept'
  <2>1. CASE UNCHANGED vars
    <3>1. MainKnows'
      BY <2>1, MainStays DEF vars, acceptVars
    <3>. QED
      BY <2>1, <3>1 DEF vars, acceptVars, netVars, loopVars, Alive, Kept, ChannelsServed,
                        MappedAreOpen, AcceptedIsNew, ClosingIsUnmapped, DiesOfSystemCallsOnly
  <2>2. CASE Main
    BY <2>2, ReadConfigAlive, InitLogAlive, ConstructAlive, BeginAlive, ConnectAlive DEF Main
  <2>3. CASE AcceptThread
    BY <2>3, AcceptAlive, AcceptFailsAlive, AddAcceptedAlive, SetAddrAlive DEF AcceptThread
  <2>4. CASE LoopThread
    BY <2>4, MessageAlive, ProviderNewAlive, RemoveFdAlive, CloseFdAlive DEF LoopThread
  <2>. QED
    BY <2>1, <2>2, <2>3, <2>4 DEF Next
<1>. QED
  BY <1>1, <1>2 DEF Alive

(* A program whose calls are in this order, with an address that is valid, *)
(* is ended by a system call that fails or not at all: neither by the      *)
(* checks of the code itself (channel.h:59, uring_io.cpp:314,              *)
(* tcp_addr.cpp:21) nor by a missing log (rpc_provider.cpp:44), whatever   *)
(* peers send and whenever they come and go.                               *)
THEOREM InOrderDiesOfSystemCallsOnly == InOrder /\ avlid(ServerAddr) /\ Spec => []DiesOfSystemCallsOnly
<1>1. Alive => DiesOfSystemCallsOnly
  BY DEF Alive, Kept
<1>. QED
  BY <1>1, InitAlive, StepAlive, PTL DEF Spec
=============================================================================
