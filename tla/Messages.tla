------------------------------ MODULE Messages ------------------------------
(***************************************************************************)
(* Messages on the connections of a server: what peers send arrives in     *)
(* pieces, each read of a connection (module Uring) ends in one call of    *)
(* RpcRegistry::handleMessage, which lets ProtocolManager::readMes take in *)
(* the bytes and dispatches the message if that completed one.             *)
(*                                                                         *)
(* All calls are made by the loop thread, one at a time.                   *)
(***************************************************************************)
EXTENDS Protocol, Buffer, FiniteSets

CONSTANTS
  FDs,         \* file descriptors
  None,        \* no Protocol
  Sent,        \* the messages peers send: [type, id, content, bytes]
  MaxSent,     \* bound: messages on a connection
  MaxConns,    \* bound: connections that use one descriptor
  BufSize,     \* bytes of readBuf_
  Stale,       \* bytes that create may find past its view
  Cut          \* whether a read may end before the bytes that arrived do

ASSUME MessagesAssumption ==
  /\ BufSize \in Nat \ {0} /\ BufSize <= SizeMod
  /\ MaxSent \in Nat /\ MaxConns \in Nat
  /\ \A m \in Sent : m.bytes \in Seq(Byte)
  /\ Stale \subseteq Byte /\ Cut \in BOOLEAN

VARIABLES
  chan,         \* a connection's Channel: whether it is there, readBuf_, its bytes
  undoProtols,  \* undoProtols_ of the ProtocolManager
  providers,    \* providers_ of the registry
  fault,        \* an assert failed
  wire,         \* bytes on their way to the server
  conns,        \* connections a descriptor has had
  sent,         \* what the peer has sent on the connection
  handled,      \* what was dispatched on it
  reads         \* how many reads it has seen

history == <<conns, sent, handled, reads>>
vars == <<chan, undoProtols, providers, fault, wire, history>>

Closed == [open |-> FALSE, buf |-> NewBuffer(BufSize), data |-> <<>>]

Init ==
  /\ chan = [fd \in FDs |-> Closed]
  /\ undoProtols = [fd \in FDs |-> None]
  /\ providers = <<>>
  /\ fault = FALSE
  /\ wire = [fd \in FDs |-> <<>>]
  /\ conns = [fd \in FDs |-> 0]
  /\ sent = [fd \in FDs |-> <<>>]
  /\ handled = [fd \in FDs |-> <<>>]
  /\ reads = [fd \in FDs |-> 0]

-----------------------------------------------------------------------------
(***************************************************************************)
(* Peers.                                                                  *)
(***************************************************************************)
Connect(fd) ==
  /\ ~fault /\ ~chan[fd].open
  /\ conns[fd] < MaxConns
  /\ chan' = [chan EXCEPT ![fd].open = TRUE]
  /\ conns' = [conns EXCEPT ![fd] = @ + 1]
  /\ UNCHANGED <<undoProtols, providers, fault, wire, sent, handled, reads>>

Send(fd, m) ==
  /\ ~fault /\ chan[fd].open
  /\ Len(sent[fd]) < MaxSent
  /\ wire' = [wire EXCEPT ![fd] = @ \o m.bytes]
  /\ sent' = [sent EXCEPT ![fd] = Append(@, m)]
  /\ UNCHANGED <<chan, undoProtols, providers, fault, conns, handled, reads>>

(* The end of a connection: the Channel goes, the Protocol stays.          *)
Close(fd) ==
  /\ ~fault /\ chan[fd].open
  /\ chan' = [chan EXCEPT ![fd] = Closed]
  /\ wire' = [wire EXCEPT ![fd] = <<>>]
  /\ sent' = [sent EXCEPT ![fd] = <<>>]
  /\ handled' = [handled EXCEPT ![fd] = <<>>]
  /\ reads' = [reads EXCEPT ![fd] = 0]
  /\ UNCHANGED <<undoProtols, providers, fault, conns>>

-----------------------------------------------------------------------------
(***************************************************************************)
(* A read, and what the server does with it.                               *)
(***************************************************************************)

(* readMes: the Protocol the descriptor left unfinished, or a new one; and *)
(* what becomes of it.                                                     *)
Current(fd) == IF undoProtols[fd] = None THEN NewProtocol ELSE undoProtols[fd]

UndoKept(p) == p                                    \* variant: it is not erased
Undo(p)     == IF p.state = "READY" THEN None ELSE p

Message(p) == [type |-> getType(p), id |-> getId(p), content |-> p.content]

(* handleMessage dispatches on the type, handleProvider on the id; its     *)
(* assert compares the state with a message type, and holds because READY  *)
(* and FRPC_PROVIDER are both 2.  providerNew numbers the entries; a       *)
(* heartbeat does nothing.                                                 *)
Registers(p) == getType(p) = <<FRPC_PROVIDER, 0>> /\ getId(p) = <<1, 0, 0, 0>>

handleMessage(fd, buf, view, beyond) ==
  LET done == create(Current(fd), view, beyond)
      p    == done.p
      size == IF done.ret < 0 THEN 0 ELSE done.ret
  IN  /\ fault' = ~EraseAsserts(buf, size)
      /\ chan' = [chan EXCEPT ![fd].buf = EraseData(buf, size),
                              ![fd].data = SubSeq(view, size + 1, Len(view))]
      /\ undoProtols' = [undoProtols EXCEPT ![fd] = Undo(p)]
      /\ IF p.state = "READY"
           THEN /\ handled' = [handled EXCEPT ![fd] = Append(@, Message(p))]
                /\ providers' = IF Registers(p)
                                  THEN Append(providers, [id |-> Len(providers), channel |-> fd])
                                  ELSE providers
           ELSE UNCHANGED <<handled, providers>>

(* TCP cuts the bytes anywhere.                                            *)
Most(fd) ==
  LET room == Writable(chan[fd].buf)
  IN  IF Len(wire[fd]) <= room THEN Len(wire[fd]) ELSE room

Read(fd) ==
  /\ ~fault /\ chan[fd].open /\ wire[fd] # <<>>
  /\ \E n \in (IF Cut THEN 1 ELSE Most(fd))..Most(fd), beyond \in Stale :
       /\ n > 0
       /\ handleMessage(fd, Already(chan[fd].buf, n), chan[fd].data \o SubSeq(wire[fd], 1, n), beyond)
       /\ wire' = [wire EXCEPT ![fd] = SubSeq(@, n + 1, Len(@))]
  /\ reads' = [reads EXCEPT ![fd] = @ + 1]
  /\ UNCHANGED <<conns, sent>>

(* A full buffer makes a read of no bytes, which the server takes for the  *)
(* end of the connection.                                                  *)
ReadFull(fd) ==
  /\ Writable(chan[fd].buf) = 0
  /\ Close(fd)

Next ==
  \E fd \in FDs :
    \/ Connect(fd) \/ Close(fd)
    \/ \E m \in Sent : Send(fd, m)
    \/ Read(fd) \/ ReadFull(fd)

Spec == Init /\ [][Next]_vars

FairSpec == Spec /\ \A fd \in FDs : WF_vars(Read(fd) \/ ReadFull(fd))

-----------------------------------------------------------------------------
(***************************************************************************)
(* Properties.                                                             *)
(***************************************************************************)
Header   == [0..(dfHeadLength - 1) -> Byte]
Partial  == [state : States, head : Header, content : Seq(Byte)]

TypeOK ==
  /\ chan \in [FDs -> [open : BOOLEAN, buf : [cap : Nat, r : Nat, w : Nat], data : Seq(Byte)]]
  /\ undoProtols \in [FDs -> Partial \cup {None}]
  /\ providers \in Seq([id : Nat, channel : FDs])
  /\ fault \in BOOLEAN
  /\ wire \in [FDs -> Seq(Byte)]
  /\ conns \in [FDs -> 0..MaxConns] /\ reads \in [FDs -> Nat]

(* However the bytes are cut into reads, create never claims more than it  *)
(* was shown (the assert of buffer.cpp:56).                                *)
NoFault == ~fault

Plain(m) == m.bytes[2] = dfHeadLength

(* On the first connection of a descriptor, and with contents without the  *)
(* magic byte, what is dispatched is what the peer sent: in order, once,   *)
(* with its type and, if its header has no extension, its content.  (With  *)
(* one, the length read depends on a byte past msg_, protocol.cpp:75.)     *)
(* The content stays in the read buffer after its message was dispatched,  *)
(* and is never taken for a message again.                                 *)
HandledInOrder ==
  \A fd \in FDs :
    /\ Len(handled[fd]) <= Len(sent[fd])
    /\ \A i \in DOMAIN handled[fd] :
         /\ handled[fd][i].type = <<sent[fd][i].type, 0>>
         /\ Plain(sent[fd][i]) => handled[fd][i].content = sent[fd][i].content

(* A registration is entered in providers_ once, whatever reads follow it  *)
(* (on the first connection of a descriptor).                              *)
RegisteredOnce ==
  \A fd \in FDs : chan[fd].open =>
    Cardinality({k \in DOMAIN providers : providers[k].channel = fd})
      <= Cardinality({i \in DOMAIN sent[fd] : sent[fd][i].type = FRPC_PROVIDER})

(* A message takes two reads of its own: the one that completes it is      *)
(* neither the one that brought its header nor one of another message,     *)
(* however the bytes were cut.                                             *)
TwoReadsEach == \A fd \in FDs : 2 * Len(handled[fd]) <= reads[fd]

(***************************************************************************)
(* What comments of the code say, and the code does not do.                *)
(***************************************************************************)

(* protocol.h:18: the length of the content is a number in the header.     *)
(* When a header was read create finds in it the length that was sent.     *)
LengthIsRead ==
  \A fd \in FDs :
    LET p == undoProtols[fd]
        n == Len(handled[fd]) + 1
    IN  p # None /\ n <= Len(sent[fd]) =>
          (p.state = "WAITCONTENT" => contentLength(p, 0) = Len(sent[fd][n].content))

(* protocol.h:59: LACK, "what was written is incomplete".                  *)
LackMeansIncomplete ==
  \A fd \in FDs :
    chan[fd].open /\ sent[fd] # <<>> /\ wire[fd] = <<>> =>
      (undoProtols[fd] # None => undoProtols[fd].state # "LACK")

(* protocol.cpp:37: a result above 0 is a normal read.  A read that        *)
(* completes a message takes bytes out of the buffer.                      *)
HandledIsErased ==
  [][\A fd \in FDs : Len(handled[fd]') > Len(handled[fd]) =>
       Len(chan[fd].data') < Len(chan[fd].data) + Len(wire[fd]) - Len(wire[fd]')]_vars

(* rpc_provider.h:78: handleRead handles the data that arrived.            *)
ArrivedIsHandled ==
  \A fd \in FDs : \A n \in 1..MaxSent :
    Len(sent[fd]) >= n ~> Len(handled[fd]) >= n \/ ~chan[fd].open

(* protocol_manager.cpp:45: undoProtols_ gets an entry when "a new,        *)
(* unfinished connection" came.  A connection that sent nothing has none.  *)
NewConnectionsAreNew ==
  \A fd \in FDs : chan[fd].open /\ sent[fd] = <<>> => undoProtols[fd] = None

(* rpc_registry.cpp:68: a provider's message with id 1 registers it.       *)
ProvidersAreRegistered ==
  \A fd \in FDs : \A i \in DOMAIN handled[fd] :
    sent[fd][i].type = FRPC_PROVIDER /\ sent[fd][i].id = 1 =>
      \E k \in DOMAIN providers : providers[k].channel = fd
=============================================================================
