----------------------------- MODULE MCMessages -----------------------------
(* Messages for TLC: a provider that registers, a heartbeat and a message  *)
(* longer than a header, with the length in digits; and a heartbeat as     *)
(* Protocol::result() lays it out.                                         *)
EXTENDS Messages

Msg(type, id, content) == [type |-> type, id |-> id, content |-> content]

Register  == Msg(FRPC_PROVIDER, 1, <<7>>)
Heartbeat == Msg(FRPC_HBEAT, 2, <<1, 2, 3>>)
Long      == Msg(FRPC_HBEAT, 3, [i \in 1..17 |-> i])

WithBytes(m, bytes) ==
  [type |-> m.type, id |-> m.id, content |-> m.content, bytes |-> bytes]

DigitMessages == {WithBytes(m, Digits(m)) : m \in {Register, Heartbeat}}
LongMessages  == {WithBytes(m, Digits(m)) : m \in {Register, Long}}

\* A registration that is understood as one: its id is not overwritten.
Wide == Msg(FRPC_PROVIDER, 1, <<1, 2>>)

MixedMessages == LongMessages \cup {WithBytes(Wide, Extended(Wide))}
OwnMessages   == {WithBytes(Heartbeat, result(Heartbeat))}
=============================================================================
