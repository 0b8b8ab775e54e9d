------------------------------ MODULE Protocol ------------------------------
(***************************************************************************)
(* Fish::Protocol: a message as its receiver takes it in, one call of      *)
(* create after another, and as its sender lays it out.                    *)
(*                                                                         *)
(* A byte is a number below 256.  The header is laid out as the compiler   *)
(* lays out struct Msg, of which the first dfHeadLength of 16 bytes travel: *)
(*                                                                         *)
(*   0 magic  1 total length  2 head length  3 version  4-5 type  6 format *)
(*   7 padding  8-11 id  12-14 (of 15) content length                      *)
(***************************************************************************)
EXTENDS Integers, Sequences, SequencesExt

dfMagic      == 204
dfVersion    == 1
dfHeadLength == 15

Byte == 0..255

(* MsgType, those the registry or a provider looks at.                     *)
FRPC_HBEAT    == 1
FRPC_PROVIDER == 2

(* A uint32_t that a negative int becomes: longer than any buffer.         *)
CONSTANT Huge
ASSUME HugeAssumption == Huge \in Nat

(* A Protocol: its handleState, the bytes of msg_ (from index 0) and       *)
(* content_.                                                               *)
States == {"FREE", "LACK", "WAITCONTENT", "READY"}

NewProtocol ==
  [state |-> "FREE", content |-> <<>>,
   head |-> [i \in 0..(dfHeadLength - 1) |->
               CASE i = 0 -> dfMagic [] i \in {1, 2} -> dfHeadLength
                 [] i = 3 -> dfVersion [] i = 6 -> 1 [] OTHER -> 0]]

getType(p) == <<p.head[4], p.head[5]>>
getId(p)   == <<p.head[8], p.head[9], p.head[10], p.head[11]>>

-----------------------------------------------------------------------------
(***************************************************************************)
(* create(view).  It may look past the view, and past msg_: what it finds  *)
(* there is the byte beyond.  Its value is the object it leaves and its    *)
(* result.                                                                 *)
(***************************************************************************)
Done(p, ret) == [p |-> p, ret |-> ret]

(* FREE: find the magic byte and copy a header from there, as long as this *)
(* object's header is.  What follows is judged by the total length that    *)
(* came with it.  The code falls out of the switch after the header.       *)
Find(view) == SelectInSeq(view, LAMBDA b : b = dfMagic)

HeadAt(view, at, beyond) ==
  [i \in 0..(dfHeadLength - 1) |-> IF at + i <= Len(view) THEN view[at + i] ELSE beyond]

SkipPast(at, total) == at + total       \* variant: an index off by one
Skip(at, total)     == at - 1 + total

createFree(p, view, beyond) ==
  LET at    == Find(view)
      head  == HeadAt(view, at, beyond)
      total == head[1]
  IN  IF at = 0 THEN Done(p, -1)
      ELSE IF Len(view) - (at - 1) < total
        THEN Done([p EXCEPT !.state = "LACK", !.head = head], -(at - 1))
        ELSE Done([p EXCEPT !.state = "WAITCONTENT", !.head = head], Skip(at, total))

(* WAITCONTENT: the last four bytes of the header, which are char and so   *)
(* signed, as decimal digits.                                              *)
Char(b) == IF b > 127 THEN b - 256 ELSE b

Digit(p, i, beyond) == Char(IF i \in DOMAIN p.head THEN p.head[i] ELSE beyond) - 48

contentLength(p, beyond) ==
  LET total == p.head[1]
      cl == 1000 * Digit(p, total - 4, beyond) + 100 * Digit(p, total - 3, beyond)
              + 10 * Digit(p, total - 2, beyond) + Digit(p, total - 1, beyond)
  IN  IF cl < 0 THEN Huge ELSE cl

(* The content stays in the buffer: readIdx grows by what content_ lacks   *)
(* after it was completed, which is nothing.  The length is also written   *)
(* over the last bytes of msg_, which nobody reads after that.             *)
createContent(p, view, beyond) ==
  LET length == contentLength(p, beyond) IN
  IF Len(view) + Len(p.content) < length
    THEN Done([p EXCEPT !.content = @ \o view, !.state = "LACK"], 0)
    ELSE Done([p EXCEPT !.content = @ \o SubSeq(view, 1, length - Len(@)),
                        !.state = "READY"], 0)

create(p, view, beyond) ==
  CASE Len(view) < dfHeadLength -> Done(p, -1)
    [] Len(view) >= dfHeadLength /\ p.state = "FREE" -> createFree(p, view, beyond)
    [] Len(view) >= dfHeadLength /\ p.state = "WAITCONTENT" -> createContent(p, view, beyond)
    [] OTHER -> Done(p, 0)

-----------------------------------------------------------------------------
(***************************************************************************)
(* The bytes of a message [type, id, content]: of fewer than 256 bytes for *)
(* result, of fewer than 10000 for digits.                                 *)
(***************************************************************************)
FrontOf(m, total, last) ==
  <<dfMagic, total, dfHeadLength, dfVersion, m.type, 0, 1, 0, m.id, 0, 0, last>>

Front12(m, last) == FrontOf(m, dfHeadLength, last)

(* result(): contentLength_ in binary, of which the last byte is cut off.  *)
result(m) == Front12(m, 0) \o <<Len(m.content), 0, 0>> \o m.content

(* What create can read: a peer that writes the length in decimal digits   *)
(* over the last bytes of the header, the first of them over its id.       *)
Digits(m) ==
  LET digit(power) == 48 + ((Len(m.content) \div power) % 10) IN
  Front12(m, digit(1000)) \o <<digit(100), digit(10), digit(1)>> \o m.content

(* A header with one byte of extension (protocol.h:17).  The digits move   *)
(* out of the id, and the last one to a byte that the receiver does not    *)
(* copy: if that is 0, the tens stand for 48 more than the length.  (This  *)
(* is for lengths of 2, 12, 22, ...)                                       *)
Extended(m) ==
  FrontOf(m, dfHeadLength + 1, 0) \o <<48, 48, 48 + ((Len(m.content) + 48) \div 10), 0>> \o m.content
=============================================================================
