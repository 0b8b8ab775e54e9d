---------------------------- MODULE MessagesProof ----------------------------
(***************************************************************************)
(* Theorems about Messages, for every set of messages, every bytes they    *)
(* consist of, every size of buffer and every cut of the bytes into reads. *)
(***************************************************************************)
EXTENDS Messages, FiniteSetTheorems, SequenceTheorems, WellFoundedInduction, TLAPS

(* The indices of a read buffer stay in order and leave the byte that      *)
(* disWrite keeps back, and the bytes are those they enclose.              *)
InOrder(c) ==
  /\ c.buf.cap = BufSize
  /\ c.buf.r <= c.buf.w /\ c.buf.w < BufSize
  /\ Len(c.data) = c.buf.w - c.buf.r

DataIsReadable == \A fd \in FDs : InOrder(chan[fd])

IInv == TypeOK /\ DataIsReadable /\ NoFault

-----------------------------------------------------------------------------
(***************************************************************************)
(* What create returns.                                                    *)
(***************************************************************************)

(* The least element is below all.                                         *)
LEMMA LeastIsLeast ==
  ASSUME NEW S \in SUBSET Nat, NEW x \in S
  PROVE  Min(S) \in S /\ Min(S) <= x
<1>1. PICK y \in S : \A z \in S : <<z, y>> \notin OpToRel(<, Nat)
  BY NatLessThanWellFounded, WFMin
<1>2. \A z \in S : ~(z < y)
  BY <1>1 DEF OpToRel
<1>3. \E y2 \in S : \A z \in S : y2 =< z
  BY <1>2
<1>. QED
  BY <1>3 DEF Min

(* The magic byte is found inside the view, or nowhere.                    *)
LEMMA FoundInside ==
  ASSUME NEW view \in Seq(Byte)
  PROVE  Find(view) \in 0..Len(view)
<1>. DEFINE I == {i \in 1..Len(view) : view[i] = dfMagic}
<1>1. Len(view) \in Nat
  OBVIOUS
<1>2. ASSUME I # {} PROVE Min(I) \in I
  <2>1. I \in SUBSET Nat
    BY <1>1
  <2>. HIDE DEF I
  <2>. QED
    BY <2>1, <1>2, LeastIsLeast
<1>3. Find(view) = IF I # {} THEN Min(I) ELSE 0
  BY DEF Find, SelectInSeq
<1>. QED
  BY <1>1, <1>2, <1>3

(* A header that create copies is one, wherever it starts.                 *)
LEMMA HeadIsHeader ==
  ASSUME NEW view \in Seq(Byte), NEW at \in 1..Len(view), NEW beyond \in Byte
  PROVE  HeadAt(view, at, beyond) \in Header
<1>1. Len(view) \in Nat /\ DOMAIN view = 1..Len(view)
  OBVIOUS
<1>2. \A j \in 1..Len(view) : view[j] \in Byte
  BY ElementOfSeq
<1>3. ASSUME NEW i \in 0..(dfHeadLength - 1)
      PROVE  (IF at + i <= Len(view) THEN view[at + i] ELSE beyond) \in Byte
  BY <1>1, <1>2 DEF dfHeadLength
<1>. QED
  BY <1>3 DEF HeadAt, Header

(* The length create reads is a number, whatever bytes it reads it from.   *)
LEMMA LengthIsNumber ==
  ASSUME NEW p \in Partial, NEW beyond \in Byte
  PROVE  contentLength(p, beyond) \in Nat
<1>1. \A i \in 0..(dfHeadLength - 1) : p.head[i] \in Byte
  BY DEF Partial, Header
<1>2. DOMAIN p.head = 0..(dfHeadLength - 1)
  BY DEF Partial, Header
<1>3. p.head[1] \in Int
  <2>1. 1 \in 0..(dfHeadLength - 1)
    BY ONLY DEF dfHeadLength
  <2>2. p.head[1] \in Byte
    BY ONLY <1>1, <2>1
  <2>. QED
    BY ONLY <2>2 DEF Byte
<1>4. ASSUME NEW i \in Int
      PROVE  Digit(p, i, beyond) \in Int
  <2>. DEFINE b == IF i \in DOMAIN p.head THEN p.head[i] ELSE beyond
  <2>1. b \in Byte
    BY <1>1, <1>2
  <2>2. Digit(p, i, beyond) = Char(b) - 48
    BY DEF Digit
  <2>. HIDE DEF b
  <2>. QED
    BY <2>1, <2>2 DEF Char, Byte
<1>. DEFINE total == p.head[1]
            cl == 1000 * Digit(p, total - 4, beyond) + 100 * Digit(p, total - 3, beyond)
                    + 10 * Digit(p, total - 2, beyond) + Digit(p, total - 1, beyond)
<1>5. /\ Digit(p, total - 4, beyond) \in Int /\ Digit(p, total - 3, beyond) \in Int
      /\ Digit(p, total - 2, beyond) \in Int /\ Digit(p, total - 1, beyond) \in Int
  <2>1. total - 4 \in Int /\ total - 3 \in Int /\ total - 2 \in Int /\ total - 1 \in Int
    BY <1>3
  <2>. QED
    BY <2>1, <1>4
<1>6. cl \in Int
  BY <1>5
<1>7. contentLength(p, beyond) = IF cl < 0 THEN Huge ELSE cl
  BY DEF contentLength
<1>. HIDE DEF cl
<1>. QED
  BY <1>6, <1>7, HugeAssumption

(* create leaves a Protocol and never claims more than it was shown.       *)
LEMMA FreeStep ==
  ASSUME NEW p \in Partial, NEW view \in Seq(Byte), NEW beyond \in Byte
  PROVE  /\ createFree(p, view, beyond).p \in Partial
         /\ createFree(p, view, beyond).ret \in Int
         /\ createFree(p, view, beyond).ret <= Len(view)
<1>. DEFINE at    == Find(view)
            head  == HeadAt(view, at, beyond)
            total == head[1]
<1>1. Len(view) \in Nat /\ at \in 0..Len(view)
  BY FoundInside
<1>2. CASE at = 0
  BY <1>1, <1>2 DEF createFree, Done
<1>3. CASE at # 0
  <2>1. at \in 1..Len(view)
    BY <1>1, <1>3
  <2>2. head \in Header
    BY <2>1, HeadIsHeader
  <2>3. total \in Nat
    <3>. HIDE DEF head
    <3>1. total \in Byte
      BY <2>2 DEF Header, dfHeadLength
    <3>. HIDE DEF total
    <3>. QED
      BY <3>1 DEF Byte
  <2>4. /\ [p EXCEPT !.state = "LACK", !.head = head] \in Partial
        /\ [p EXCEPT !.state = "WAITCONTENT", !.head = head] \in Partial
    BY <2>2 DEF Partial, States
  <2>5. createFree(p, view, beyond) =
          IF Len(view) - (at - 1) < total
            THEN Done([p EXCEPT !.state = "LACK", !.head = head], -(at - 1))
            ELSE Done([p EXCEPT !.state = "WAITCONTENT", !.head = head], at - 1 + total)
    BY <1>3 DEF createFree, Skip
  <2>. HIDE DEF at, head, total
  <2>. QED
    BY <1>1, <2>1, <2>3, <2>4, <2>5 DEF Done
<1>. QED
  BY <1>2, <1>3

LEMMA ContentStep ==
  ASSUME NEW p \in Partial, NEW view \in Seq(Byte), NEW beyond \in Byte
  PROVE  /\ createContent(p, view, beyond).p \in Partial
         /\ createContent(p, view, beyond).ret = 0
<1>. DEFINE length == contentLength(p, beyond)
<1>1. length \in Nat
  BY LengthIsNumber
<1>2. p.content \in Seq(Byte) /\ Len(p.content) \in Nat /\ Len(view) \in Nat
  BY DEF Partial
<1>3. p.content \o view \in Seq(Byte)
  BY <1>2
<1>4. ASSUME ~(Len(view) + Len(p.content) < length)
      PROVE  p.content \o SubSeq(view, 1, length - Len(p.content)) \in Seq(Byte)
  <2>1. length - Len(p.content) \in Int /\ length - Len(p.content) <= Len(view)
    BY <1>1, <1>2, <1>4
  <2>2. SubSeq(view, 1, length - Len(p.content)) \in Seq(Byte)
    BY <2>1, <1>2, SubSeqProperties
  <2>. QED
    BY <2>2, <1>2
<1>. QED
  BY <1>3, <1>4 DEF createContent, Done, Partial, States

LEMMA CreateStep ==
  ASSUME NEW p \in Partial, NEW view \in Seq(Byte), NEW beyond \in Byte
  PROVE  /\ create(p, view, beyond).p \in Partial
         /\ create(p, view, beyond).ret \in Int
         /\ create(p, view, beyond).ret <= Len(view)
<1>1. Len(view) \in Nat
  OBVIOUS
<1>2. Done(p, -1).p = p /\ Done(p, -1).ret = -1 /\ Done(p, 0).p = p /\ Done(p, 0).ret = 0
  BY DEF Done
<1>3. CASE Len(view) < dfHeadLength
  <2>1. create(p, view, beyond) = Done(p, -1)
    BY <1>1, <1>3 DEF create, dfHeadLength
  <2>. QED
    BY <1>1, <1>2, <2>1
<1>4. CASE Len(view) >= dfHeadLength /\ p.state = "FREE"
  <2>1. create(p, view, beyond) = createFree(p, view, beyond)
    BY <1>1, <1>4 DEF create, dfHeadLength
  <2>. QED
    BY <2>1, FreeStep
<1>5. CASE Len(view) >= dfHeadLength /\ p.state = "WAITCONTENT"
  <2>1. create(p, view, beyond) = createContent(p, view, beyond)
    BY <1>1, <1>5 DEF create, dfHeadLength
  <2>. QED
    BY <1>1, <2>1, ContentStep
<1>6. CASE Len(view) >= dfHeadLength /\ p.state \notin {"FREE", "WAITCONTENT"}
  <2>1. create(p, view, beyond) = Done(p, 0)
    BY <1>1, <1>6 DEF create, dfHeadLength
  <2>. QED
    BY <1>1, <1>2, <2>1
<1>. QED
  BY <1>1, <1>3, <1>4, <1>5, <1>6 DEF dfHeadLength

-----------------------------------------------------------------------------
(***************************************************************************)
(* The invariant.                                                          *)
(***************************************************************************)
IsChannel(c) == c \in [open : BOOLEAN, buf : [cap : Nat, r : Nat, w : Nat], data : Seq(Byte)]

LEMMA NewIsPartial == NewProtocol \in Partial
<1>1. \A i \in 0..14 :
        (CASE i = 0 -> 204 [] i \in {1, 2} -> 15 [] i = 3 -> 1 [] i = 6 -> 1 [] OTHER -> 0)
           \in 0..255
  OBVIOUS
<1>. QED
  BY <1>1 DEF NewProtocol, Partial, Header, States, Byte, dfMagic, dfHeadLength, dfVersion

LEMMA ClosedInOrder == IsChannel(Closed) /\ InOrder(Closed)
BY MessagesAssumption DEF IsChannel, InOrder, Closed, NewBuffer

LEMMA InitInv == Init => IInv
<1>. SUFFICES ASSUME Init PROVE IInv
  OBVIOUS
<1>1. IsChannel(Closed) /\ InOrder(Closed)
  BY ClosedInOrder
<1>2. chan \in [FDs -> [open : BOOLEAN, buf : [cap : Nat, r : Nat, w : Nat], data : Seq(Byte)]]
  BY <1>1 DEF Init, IsChannel
<1>3. DataIsReadable
  BY <1>1 DEF Init, DataIsReadable
<1>4. conns \in [FDs -> 0..MaxConns]
  BY MessagesAssumption DEF Init
<1>5. /\ undoProtols \in [FDs -> Partial \cup {None}]
      /\ providers \in Seq([id : Nat, channel : FDs])
      /\ wire \in [FDs -> Seq(Byte)]
      /\ reads \in [FDs -> Nat]
  BY DEF Init
<1>. QED
  BY <1>2, <1>3, <1>4, <1>5 DEF Init, IInv, TypeOK, NoFault

(* What a read finds room for.                                             *)
LEMMA MostFits ==
  ASSUME IInv, NEW fd \in FDs
  PROVE  /\ Most(fd) \in Nat /\ Most(fd) <= Len(wire[fd])
         /\ chan[fd].buf.w + Most(fd) < BufSize
<1>. DEFINE b == chan[fd].buf
<1>1. b \in [cap : Nat, r : Nat, w : Nat] /\ b.cap = BufSize /\ b.w < BufSize
  BY DEF IInv, TypeOK, DataIsReadable, InOrder
<1>2. BufSize - b.w - 1 \in Nat /\ BufSize - b.w - 1 < SizeMod
  BY <1>1, MessagesAssumption, SizeModAssumption
<1>3. Writable(b) = BufSize - b.w - 1
  BY <1>1, <1>2, SizeModAssumption DEF Writable, ToSize
<1>4. Len(wire[fd]) \in Nat
  BY DEF IInv, TypeOK
<1>. HIDE DEF b
<1>5. Most(fd) = IF Len(wire[fd]) <= Writable(b) THEN Len(wire[fd]) ELSE Writable(b)
  BY DEF Most, b
<1>6. Most(fd) \in Nat /\ Most(fd) <= Len(wire[fd]) /\ b.w + Most(fd) < BufSize
  BY <1>1, <1>2, <1>3, <1>4, <1>5, MessagesAssumption
<1>. QED
  BY <1>6 DEF b

(* Bytes behind a buffer, and some of all taken from its front.            *)
LEMMA FillAndErase ==
  ASSUME NEW c, IsChannel(c), InOrder(c), NEW s \in Seq(Byte), c.buf.w + Len(s) < BufSize,
         NEW size \in Nat, size <= Len(c.data \o s)
  PROVE  LET full == Already(c.buf, Len(s))
             left == [c EXCEPT !.buf = EraseData(full, size),
                               !.data = SubSeq(c.data \o s, size + 1, Len(c.data \o s))]
         IN  EraseAsserts(full, size) /\ IsChannel(left) /\ InOrder(left)
<1>. DEFINE full == Already(c.buf, Len(s))
            view == c.data \o s
            buf  == EraseData(full, size)
            rest == SubSeq(view, size + 1, Len(view))
<1>1. /\ c.buf \in [cap : Nat, r : Nat, w : Nat] /\ c.data \in Seq(Byte)
      /\ Len(c.data) \in Nat /\ Len(s) \in Nat
      /\ c.buf.cap = BufSize /\ c.buf.r <= c.buf.w /\ Len(c.data) = c.buf.w - c.buf.r
  BY DEF IsChannel, InOrder
<1>2. view \in Seq(Byte) /\ Len(view) = Len(c.data) + Len(s)
  BY <1>1
<1>3. /\ full \in [cap : Nat, r : Nat, w : Nat] /\ full.cap = BufSize
      /\ full.r = c.buf.r /\ full.w = c.buf.w + Len(s)
  BY <1>1 DEF Already
<1>4. BufSize \in Nat
  BY MessagesAssumption
<1>5. size <= full.w - full.r
  BY <1>1, <1>2, <1>3
<1>6. rest \in Seq(Byte) /\ Len(rest) = Len(view) - size
  <2>1. size + 1 \in Nat /\ Len(view) \in Nat /\ size + 1 >= 1 /\ size <= Len(view)
    BY <1>2
  <2>. HIDE DEF view
  <2>. QED
    BY <1>2, <2>1, SubSeqProperties
<1>. HIDE DEF full, view
<1>7. EraseAsserts(full, size)
  BY <1>3, <1>5 DEF EraseAsserts
<1>8. /\ buf \in [cap : Nat, r : Nat, w : Nat] /\ buf.cap = BufSize
      /\ buf.r <= buf.w /\ buf.w < BufSize /\ buf.w - buf.r = full.w - full.r - size
  <2>1. /\ full.r \in Nat /\ full.w \in Nat /\ full.w < BufSize /\ 0 < BufSize
        /\ full.r + size <= full.w
    BY <1>1, <1>3, <1>4, <1>5, MessagesAssumption
  <2>2. CASE full.r + size = full.w
    BY <1>3, <1>4, <2>1, <2>2 DEF EraseData, NewBuffer
  <2>3. CASE full.r + size # full.w
    BY <1>3, <1>4, <2>1, <2>3 DEF EraseData
  <2>. QED
    BY <2>2, <2>3
<1>. HIDE DEF buf, rest
<1>9. Len(rest) = buf.w - buf.r
  <2>1. c.buf.w \in Nat /\ c.buf.r \in Nat /\ Len(view) = c.buf.w - c.buf.r + Len(s)
    BY <1>1, <1>2
  <2>2. full.w - full.r - size = c.buf.w + Len(s) - c.buf.r - size
    BY <1>1, <1>3, <2>1
  <2>3. Len(rest) = c.buf.w - c.buf.r + Len(s) - size
    BY <1>6, <2>1
  <2>4. Len(s) \in Nat /\ size \in Nat
    BY <1>1
  <2>5. buf.w - buf.r = c.buf.w + Len(s) - c.buf.r - size
    BY <1>8, <2>2
  <2>6. c.buf.w + Len(s) - c.buf.r - size = c.buf.w - c.buf.r + Len(s) - size
    BY <2>1, <2>4
  <2>. QED
    BY <2>3, <2>5, <2>6
<1>10. IsChannel([c EXCEPT !.buf = buf, !.data = rest]) /\ InOrder([c EXCEPT !.buf = buf, !.data = rest])
  BY <1>6, <1>8, <1>9 DEF IsChannel, InOrder
<1>. QED
  BY <1>7, <1>10 DEF buf, rest, full, view

-----------------------------------------------------------------------------
(***************************************************************************)
(* Every action keeps it.                                                  *)
(***************************************************************************)

(* IInv says of every descriptor what it says of its connection.           *)
LEMMA ChanOf ==
  ASSUME IInv, NEW fd \in FDs
  PROVE  IsChannel(chan[fd]) /\ InOrder(chan[fd])
BY DEF IInv, TypeOK, DataIsReadable, IsChannel

(* One connection that is replaced by a good one leaves all of them good.  *)
LEMMA ChanReplaced ==
  ASSUME IInv, NEW fd \in FDs, NEW c, IsChannel(c), InOrder(c), chan' = [chan EXCEPT ![fd] = c]
  PROVE  /\ chan' \in [FDs -> [open : BOOLEAN, buf : [cap : Nat, r : Nat, w : Nat], data : Seq(Byte)]]
         /\ DataIsReadable'
<1>1. c \in [open : BOOLEAN, buf : [cap : Nat, r : Nat, w : Nat], data : Seq(Byte)]
  BY DEF IsChannel
<1>2. chan \in [FDs -> [open : BOOLEAN, buf : [cap : Nat, r : Nat, w : Nat], data : Seq(Byte)]]
  BY DEF IInv, TypeOK
<1>3. \A f \in FDs : InOrder(chan'[f])
  <2>1. ASSUME NEW f \in FDs PROVE InOrder(chan'[f])
    <3>1. chan'[f] = IF f = fd THEN c ELSE chan[f]
      BY <1>2
    <3>. QED
      BY <3>1, ChanOf
  <2>. QED
    BY <2>1
<1>. QED
  BY <1>1, <1>2, <1>3 DEF DataIsReadable, InOrder

LEMMA ConnectInv ==
  ASSUME IInv, NEW fd \in FDs, Connect(fd)
  PROVE  IInv'
<1>1. TypeOK /\ ~fault
  BY DEF IInv, Connect
<1>2. IsChannel([chan[fd] EXCEPT !.open = TRUE]) /\ InOrder([chan[fd] EXCEPT !.open = TRUE])
  BY ChanOf DEF IsChannel, InOrder
<1>3. chan' = [chan EXCEPT ![fd] = [chan[fd] EXCEPT !.open = TRUE]]
  BY DEF Connect
<1>4. /\ chan' \in [FDs -> [open : BOOLEAN, buf : [cap : Nat, r : Nat, w : Nat], data : Seq(Byte)]]
      /\ DataIsReadable'
  BY <1>2, <1>3, ChanReplaced
<1>5. conns' \in [FDs -> 0..MaxConns]
  <2>1. conns[fd] + 1 \in 0..MaxConns
    BY <1>1, MessagesAssumption DEF TypeOK, Connect
  <2>. QED
    BY <1>1, <2>1 DEF TypeOK, Connect
<1>. QED
  BY <1>1, <1>4, <1>5 DEF IInv, TypeOK, NoFault, Connect

LEMMA SendInv ==
  ASSUME IInv, NEW fd \in FDs, NEW m \in Sent, Send(fd, m)
  PROVE  IInv'
<1>1. TypeOK /\ ~fault
  BY DEF IInv, Send
<1>2. wire' \in [FDs -> Seq(Byte)]
  <2>1. wire[fd] \in Seq(Byte) /\ m.bytes \in Seq(Byte)
    BY <1>1, MessagesAssumption DEF TypeOK
  <2>2. wire[fd] \o m.bytes \in Seq(Byte)
    BY <2>1
  <2>. QED
    BY <1>1, <2>2 DEF TypeOK, Send
<1>3. DataIsReadable'
  BY DEF IInv, DataIsReadable, InOrder, Send
<1>. QED
  BY <1>1, <1>2, <1>3 DEF IInv, TypeOK, NoFault, Send

LEMMA CloseInv ==
  ASSUME IInv, NEW fd \in FDs, Close(fd)
  PROVE  IInv'
<1>1. TypeOK /\ ~fault
  BY DEF IInv, Close
<1>2. /\ chan' \in [FDs -> [open : BOOLEAN, buf : [cap : Nat, r : Nat, w : Nat], data : Seq(Byte)]]
      /\ DataIsReadable'
  BY ClosedInOrder, ChanReplaced DEF Close
<1>3. wire' \in [FDs -> Seq(Byte)] /\ reads' \in [FDs -> Nat]
  BY <1>1 DEF TypeOK, Close
<1>. QED
  BY <1>1, <1>2, <1>3 DEF IInv, TypeOK, NoFault, Close

(* What a read brought is handed to create, which takes no more of it than *)
(* there is.                                                               *)
LEMMA HandleStep ==
  ASSUME IInv, NEW fd \in FDs, NEW s \in Seq(Byte), NEW beyond \in Byte,
         chan[fd].buf.w + Len(s) < BufSize,
         handleMessage(fd, Already(chan[fd].buf, Len(s)), chan[fd].data \o s, beyond)
  PROVE  /\ chan' \in [FDs -> [open : BOOLEAN, buf : [cap : Nat, r : Nat, w : Nat], data : Seq(Byte)]]
         /\ DataIsReadable'
         /\ fault' = FALSE
         /\ undoProtols' \in [FDs -> Partial \cup {None}]
         /\ providers' \in Seq([id : Nat, channel : FDs])
<1>. DEFINE c    == chan[fd]
            full == Already(c.buf, Len(s))
            view == c.data \o s
            done == create(Current(fd), view, beyond)
            size == IF done.ret < 0 THEN 0 ELSE done.ret
            left == [c EXCEPT !.buf = EraseData(full, size),
                              !.data = SubSeq(view, size + 1, Len(view))]
<1>1. TypeOK /\ IsChannel(c) /\ InOrder(c)
  BY ChanOf DEF IInv
<1>2. Current(fd) \in Partial
  BY <1>1, NewIsPartial DEF Current, TypeOK
<1>3. view \in Seq(Byte) /\ Len(view) \in Nat
  BY <1>1 DEF IsChannel
<1>4. done.p \in Partial /\ done.ret \in Int /\ done.ret <= Len(view)
  <2>. HIDE DEF view
  <2>. QED
    BY <1>2, <1>3, CreateStep
<1>5. size \in Nat /\ size <= Len(view)
  <2>. HIDE DEF view, done
  <2>. QED
    BY <1>3, <1>4
<1>6. EraseAsserts(full, size) /\ IsChannel(left) /\ InOrder(left)
  <2>. HIDE DEF size
  <2>. QED
    BY <1>1, <1>5, FillAndErase
<1>7. chan' = [chan EXCEPT ![fd] = left] /\ fault' = ~EraseAsserts(full, size)
  BY DEF handleMessage
<1>8. undoProtols' = [undoProtols EXCEPT ![fd] = Undo(done.p)]
  BY DEF handleMessage
<1>9. \/ providers' = providers
      \/ providers' = Append(providers, [id |-> Len(providers), channel |-> fd])
  BY DEF handleMessage
<1>. HIDE DEF left, full, size, done
<1>10. /\ chan' \in [FDs -> [open : BOOLEAN, buf : [cap : Nat, r : Nat, w : Nat], data : Seq(Byte)]]
       /\ DataIsReadable'
  BY <1>6, <1>7, ChanReplaced
<1>11. undoProtols' \in [FDs -> Partial \cup {None}]
  BY <1>1, <1>4, <1>8 DEF TypeOK, Undo
<1>12. providers' \in Seq([id : Nat, channel : FDs])
  <2>. DEFINE Entry == [id : Nat, channel : FDs]
              entry == [id |-> Len(providers), channel |-> fd]
  <2>1. providers \in Seq(Entry)
    BY <1>1 DEF TypeOK
  <2>2. entry \in Entry
    BY <2>1
  <2>3. providers' = providers \/ providers' = Append(providers, entry)
    BY <1>9
  <2>. HIDE DEF entry, Entry
  <2>4. providers' \in Seq(Entry)
    BY <2>1, <2>2, <2>3, AppendProperties
  <2>. QED
    BY <2>4 DEF Entry
<1>. QED
  BY <1>6, <1>7, <1>10, <1>11, <1>12

LEMMA ReadInv ==
  ASSUME IInv, NEW fd \in FDs, Read(fd)
  PROVE  IInv'
<1>1. TypeOK
  BY DEF IInv
<1>2. PICK n \in (IF Cut THEN 1 ELSE Most(fd))..Most(fd), beyond \in Stale :
        /\ n > 0
        /\ handleMessage(fd, Already(chan[fd].buf, n), chan[fd].data \o SubSeq(wire[fd], 1, n), beyond)
        /\ wire' = [wire EXCEPT ![fd] = SubSeq(@, n + 1, Len(@))]
  BY DEF Read
<1>. DEFINE s == SubSeq(wire[fd], 1, n)
<1>3. /\ wire[fd] \in Seq(Byte) /\ Len(wire[fd]) \in Nat
      /\ Most(fd) \in Nat /\ Most(fd) <= Len(wire[fd]) /\ chan[fd].buf.w + Most(fd) < BufSize
  BY <1>1, MostFits DEF TypeOK
<1>4. n \in Nat /\ n <= Most(fd) /\ n <= Len(wire[fd])
  BY <1>2, <1>3
<1>5. s \in Seq(Byte) /\ Len(s) = n
  BY <1>3, <1>4, SubSeqProperties
<1>6. chan[fd].buf.w + n < BufSize
  BY <1>1, <1>3, <1>4, MessagesAssumption DEF TypeOK
<1>7. beyond \in Byte
  BY <1>2, MessagesAssumption
<1>8. /\ chan' \in [FDs -> [open : BOOLEAN, buf : [cap : Nat, r : Nat, w : Nat], data : Seq(Byte)]]
      /\ DataIsReadable'
      /\ fault' = FALSE
      /\ undoProtols' \in [FDs -> Partial \cup {None}]
      /\ providers' \in Seq([id : Nat, channel : FDs])
  <2>. HIDE DEF s
  <2>1. handleMessage(fd, Already(chan[fd].buf, Len(s)), chan[fd].data \o s, beyond)
    BY <1>2, <1>5 DEF s
  <2>. QED
    BY <1>5, <1>6, <1>7, <2>1, HandleStep
<1>9. wire' \in [FDs -> Seq(Byte)]
  <2>1. SubSeq(wire[fd], n + 1, Len(wire[fd])) \in Seq(Byte)
    BY <1>3, <1>4, SubSeqProperties
  <2>. QED
    BY <1>1, <1>2, <2>1 DEF TypeOK
<1>10. reads' \in [FDs -> Nat] /\ conns' \in [FDs -> 0..MaxConns]
  BY <1>1 DEF TypeOK, Read
<1>. QED
  BY <1>8, <1>9, <1>10 DEF IInv, TypeOK, NoFault

-----------------------------------------------------------------------------
LEMMA NextInv == IInv /\ [Next]_vars => IInv'
<1>. SUFFICES ASSUME IInv, [Next]_vars PROVE IInv'
  OBVIOUS
<1>1. ASSUME NEW fd \in FDs, Connect(fd) PROVE IInv'
  BY <1>1, ConnectInv
<1>2. ASSUME NEW fd \in FDs, Close(fd) PROVE IInv'
  BY <1>2, CloseInv
<1>3. ASSUME NEW fd \in FDs, NEW m \in Sent, Send(fd, m) PROVE IInv'
  BY <1>3, SendInv
<1>4. ASSUME NEW fd \in FDs, Read(fd) PROVE IInv'
  BY <1>4, ReadInv
<1>5. ASSUME NEW fd \in FDs, ReadFull(fd) PROVE IInv'
  BY <1>5, CloseInv DEF ReadFull
<1>6. CASE UNCHANGED vars
  BY <1>6 DEF vars, history, IInv, TypeOK, DataIsReadable, InOrder, NoFault
<1>. QED
  BY <1>1, <1>2, <1>3, <1>4, <1>5, <1>6 DEF Next

LEMMA Invariance == Spec => []IInv
BY InitInv, NextInv, PTL DEF Spec

(* Every variable keeps its type, whatever peers send and however it is    *)
(* cut: what create leaves is a Protocol, and no index of a read buffer    *)
(* leaves it.                                                              *)
THEOREM TypeCorrect == Spec => [](TypeOK /\ DataIsReadable)
BY Invariance, PTL DEF IInv

(* create never claims more than it was shown, so the assert of eraseData  *)
(* (buffer.cpp:56) holds: for any bytes that peers send, any lengths in    *)
(* them, any cut of them into reads and any byte past the view.            *)
THEOREM NeverClaimsMore == Spec => []NoFault
BY Invariance, PTL DEF IInv

-----------------------------------------------------------------------------
(***************************************************************************)
(* Reads and messages.  A Protocol that got past its header has used a     *)
(* read of the message it will complete.  The first connection of a        *)
(* descriptor starts with no Protocol; a later one may find the one its    *)
(* predecessor left, which has used its read already.                      *)
(***************************************************************************)
Started(p) == IF p # None /\ p.state # "FREE" THEN 1 ELSE 0
Found(n)   == IF n <= 1 THEN 0 ELSE 1

Pace(fd) ==
  2 * Len(handled[fd]) + Started(undoProtols[fd]) <= reads[fd] + Found(conns[fd])

PaceInv ==
  /\ handled \in [FDs -> Seq([type : Seq(Byte), id : Seq(Byte), content : Seq(Byte)])]
  /\ \A fd \in FDs :
       /\ chan[fd].open => conns[fd] >= 1 /\ Pace(fd)
       /\ ~chan[fd].open => handled[fd] = <<>> /\ reads[fd] = 0
       /\ conns[fd] = 0 => undoProtols[fd] = None

(* What is dispatched of a Protocol is a message.                          *)
LEMMA MessageHasType ==
  ASSUME NEW p \in Partial
  PROVE  Message(p) \in [type : Seq(Byte), id : Seq(Byte), content : Seq(Byte)]
<1>1. \A i \in 0..(dfHeadLength - 1) : p.head[i] \in Byte
  BY DEF Partial, Header
<1>2. p.content \in Seq(Byte)
  BY DEF Partial
<1>3. getType(p) \in Seq(Byte)
  BY <1>1 DEF getType, dfHeadLength
<1>4. getId(p) \in Seq(Byte)
  BY <1>1 DEF getId, dfHeadLength
<1>. QED
  BY <1>2, <1>3, <1>4 DEF Message

(* A Protocol becomes READY in a call of create that finds it past FREE,   *)
(* and never goes back to FREE.                                            *)
LEMMA ReadyIsStarted ==
  ASSUME NEW p \in Partial, NEW view \in Seq(Byte), NEW beyond \in Byte
  PROVE  create(p, view, beyond).p.state = "READY" => p.state # "FREE"
<1>0. Len(view) \in Nat
  OBVIOUS
<1>1. CASE Len(view) < dfHeadLength
  <2>1. create(p, view, beyond) = Done(p, -1)
    BY <1>0, <1>1 DEF create, dfHeadLength
  <2>2. create(p, view, beyond).p = p
    BY <2>1 DEF Done
  <2>. QED
    BY <2>2
<1>2. CASE Len(view) >= dfHeadLength /\ p.state = "FREE"
  <2>1. create(p, view, beyond) = createFree(p, view, beyond)
    BY <1>0, <1>2 DEF create, dfHeadLength
  <2>2. createFree(p, view, beyond).p.state \in {"FREE", "LACK", "WAITCONTENT"}
    <3>. DEFINE at    == Find(view)
                head  == HeadAt(view, at, beyond)
                total == head[1]
                lack  == [p EXCEPT !.state = "LACK", !.head = head]
                wait  == [p EXCEPT !.state = "WAITCONTENT", !.head = head]
    <3>1. lack.state = "LACK" /\ wait.state = "WAITCONTENT"
      BY DEF Partial
    <3>2. createFree(p, view, beyond).p \in {p, lack, wait}
      BY DEF createFree, Done
    <3>. HIDE DEF lack, wait
    <3>. QED
      BY <1>2, <3>1, <3>2
  <2>. QED
    BY <2>1, <2>2
<1>3. CASE p.state # "FREE"
  BY <1>3
<1>. QED
  BY <1>0, <1>1, <1>2, <1>3 DEF dfHeadLength

LEMMA InitPace == Init => PaceInv
BY DEF Init, PaceInv, Closed

(* What a read does to the pace of its connection.                         *)
LEMMA ReadPace ==
  ASSUME IInv, PaceInv, NEW fd \in FDs, Read(fd)
  PROVE  PaceInv'
<1>. DEFINE Msgs == [type : Seq(Byte), id : Seq(Byte), content : Seq(Byte)]
<1>1. PICK n \in (IF Cut THEN 1 ELSE Most(fd))..Most(fd), beyond \in Stale :
        /\ n > 0
        /\ handleMessage(fd, Already(chan[fd].buf, n), chan[fd].data \o SubSeq(wire[fd], 1, n), beyond)
        /\ wire' = [wire EXCEPT ![fd] = SubSeq(@, n + 1, Len(@))]
  BY DEF Read
<1>. DEFINE view == chan[fd].data \o SubSeq(wire[fd], 1, n)
            done == create(Current(fd), view, beyond)
<1>2. TypeOK /\ chan[fd].open /\ beyond \in Byte
  BY <1>1, MessagesAssumption DEF IInv, Read
<1>3. view \in Seq(Byte)
  <2>1. chan[fd].data \in Seq(Byte) /\ wire[fd] \in Seq(Byte) /\ Len(wire[fd]) \in Nat
    BY <1>2 DEF TypeOK
  <2>2. n \in Nat /\ n <= Len(wire[fd])
    BY <1>1, <2>1, MostFits
  <2>3. SubSeq(wire[fd], 1, n) \in Seq(Byte)
    BY <2>1, <2>2, SubSeqProperties
  <2>. QED
    BY <2>1, <2>3
<1>4. Current(fd) \in Partial
  BY <1>2, NewIsPartial DEF Current, TypeOK
<1>5. done.p \in Partial /\ (done.p.state = "READY" => Current(fd).state # "FREE")
  <2>. HIDE DEF view
  <2>. QED
    BY <1>2, <1>3, <1>4, CreateStep, ReadyIsStarted
<1>6. /\ undoProtols' = [undoProtols EXCEPT ![fd] = Undo(done.p)]
      /\ \E c : chan' = [chan EXCEPT ![fd] = [chan[fd] EXCEPT !.buf = c[1], !.data = c[2]]]
      /\ IF done.p.state = "READY" THEN handled' = [handled EXCEPT ![fd] = Append(@, Message(done.p))]
                                   ELSE handled' = handled
  <2>. DEFINE size == IF done.ret < 0 THEN 0 ELSE done.ret
              c == <<EraseData(Already(chan[fd].buf, n), size), SubSeq(view, size + 1, Len(view))>>
  <2>1. chan' = [chan EXCEPT ![fd] = [chan[fd] EXCEPT !.buf = c[1], !.data = c[2]]]
    BY <1>1 DEF handleMessage
  <2>. HIDE DEF c
  <2>. QED
    BY <1>1, <2>1 DEF handleMessage
<1>7. reads' = [reads EXCEPT ![fd] = @ + 1] /\ conns' = conns
  BY DEF Read
<1>. HIDE DEF view, done
<1>8. /\ chan'[fd].open /\ (\A f \in FDs : chan'[f].open = chan[f].open)
  BY <1>2, <1>6 DEF TypeOK
<1>9. Message(done.p) \in Msgs
  BY <1>5, MessageHasType
<1>10. handled' \in [FDs -> Seq(Msgs)]
  <2>. HIDE DEF Msgs
  <2>1. handled \in [FDs -> Seq(Msgs)]
    BY DEF PaceInv, Msgs
  <2>2. Append(handled[fd], Message(done.p)) \in Seq(Msgs)
    BY <1>9, <2>1, AppendProperties
  <2>. QED
    BY <1>6, <2>1, <2>2
<1>11. /\ undoProtols'[fd] = Undo(done.p) /\ reads'[fd] = reads[fd] + 1 /\ reads[fd] \in Nat
       /\ Len(handled[fd]) \in Nat /\ conns[fd] \in Nat
  BY <1>2, <1>6, <1>7, MessagesAssumption DEF TypeOK, PaceInv
<1>12. Pace(fd)'
  <2>1. Pace(fd) /\ Started(undoProtols[fd]) \in {0, 1} /\ Found(conns[fd]) \in {0, 1}
    BY <1>2 DEF PaceInv, Started, Found
  <2>2. CASE done.p.state = "READY"
    <3>1. undoProtols[fd] # None /\ undoProtols[fd].state # "FREE"
      <4>1. NewProtocol.state = "FREE"
        BY DEF NewProtocol
      <4>. QED
        BY <1>5, <2>2, <4>1 DEF Current
    <3>2. Started(undoProtols[fd]) = 1
      BY <3>1 DEF Started
    <3>3. Started(undoProtols'[fd]) = 0
      BY <1>11, <2>2 DEF Undo, Started
    <3>4. Len(handled'[fd]) = Len(handled[fd]) + 1
      <4>1. handled'[fd] = Append(handled[fd], Message(done.p)) /\ handled[fd] \in Seq(Msgs)
        BY <1>6, <2>2 DEF PaceInv
      <4>. QED
        BY <1>9, <4>1, AppendProperties
    <3>. QED
      BY <1>7, <1>11, <2>1, <3>2, <3>3, <3>4 DEF Pace
  <2>3. CASE done.p.state # "READY"
    <3>1. Started(undoProtols'[fd]) <= 1 /\ Started(undoProtols'[fd]) \in Nat
      BY DEF Started
    <3>2. handled' = handled
      BY <1>6, <2>3
    <3>. QED
      BY <1>7, <1>11, <2>1, <3>1, <3>2 DEF Pace
  <2>. QED
    BY <2>2, <2>3
<1>13. ASSUME NEW f \in FDs, f # fd
       PROVE  /\ handled'[f] = handled[f] /\ undoProtols'[f] = undoProtols[f]
              /\ reads'[f] = reads[f] /\ conns'[f] = conns[f]
  BY <1>2, <1>6, <1>7, <1>13 DEF TypeOK, PaceInv
<1>14. ASSUME NEW f \in FDs
       PROVE  /\ chan'[f].open => conns'[f] >= 1 /\ Pace(f)'
              /\ ~chan'[f].open => handled'[f] = <<>> /\ reads'[f] = 0
              /\ conns'[f] = 0 => undoProtols'[f] = None
  <2>1. CASE f = fd
    BY <1>2, <1>7, <1>8, <1>12, <2>1 DEF PaceInv
  <2>2. CASE f # fd
    BY <1>8, <1>13, <2>2 DEF PaceInv, Pace
  <2>. QED
    BY <2>1, <2>2
<1>. QED
  BY <1>10, <1>14 DEF PaceInv

LEMMA ClosePace ==
  ASSUME IInv, PaceInv, NEW fd \in FDs, Close(fd)
  PROVE  PaceInv'
<1>1. TypeOK
  BY DEF IInv
<1>2. /\ chan'[fd] = Closed /\ ~Closed.open /\ handled'[fd] = <<>> /\ reads'[fd] = 0
      /\ undoProtols' = undoProtols /\ conns' = conns
  BY <1>1 DEF Close, Closed, TypeOK, PaceInv
<1>3. ASSUME NEW f \in FDs, f # fd
      PROVE  chan'[f] = chan[f] /\ handled'[f] = handled[f] /\ reads'[f] = reads[f]
  BY <1>1, <1>3 DEF Close, TypeOK, PaceInv
<1>4. handled' \in [FDs -> Seq([type : Seq(Byte), id : Seq(Byte), content : Seq(Byte)])]
  <2>. DEFINE Msgs == Seq([type : Seq(Byte), id : Seq(Byte), content : Seq(Byte)])
  <2>1. handled \in [FDs -> Msgs]
    BY DEF PaceInv
  <2>2. <<>> \in Msgs
    OBVIOUS
  <2>. HIDE DEF Msgs
  <2>3. handled' = [handled EXCEPT ![fd] = <<>>]
    BY DEF Close
  <2>4. handled' \in [FDs -> Msgs]
    BY <2>1, <2>2, <2>3
  <2>. QED
    BY <2>4 DEF Msgs
<1>5. ASSUME NEW f \in FDs
      PROVE  /\ chan'[f].open => conns'[f] >= 1 /\ Pace(f)'
             /\ ~chan'[f].open => handled'[f] = <<>> /\ reads'[f] = 0
             /\ conns'[f] = 0 => undoProtols'[f] = None
  <2>1. CASE f = fd
    BY <1>2, <2>1 DEF PaceInv
  <2>2. CASE f # fd
    BY <1>2, <1>3, <2>2 DEF PaceInv, Pace
  <2>. QED
    BY <2>1, <2>2
<1>. QED
  BY <1>4, <1>5 DEF PaceInv

(* The first connection of a descriptor finds no Protocol.                 *)
LEMMA ConnectPace ==
  ASSUME IInv, PaceInv, NEW fd \in FDs, Connect(fd)
  PROVE  PaceInv'
<1>1. TypeOK /\ handled[fd] = <<>> /\ reads[fd] = 0
  BY DEF IInv, PaceInv, Connect
<1>2. /\ undoProtols' = undoProtols /\ handled' = handled /\ reads' = reads
      /\ conns'[fd] = conns[fd] + 1 /\ conns[fd] \in Nat
  BY <1>1, MessagesAssumption DEF Connect, TypeOK
<1>3. ASSUME NEW f \in FDs, f # fd
      PROVE  chan'[f] = chan[f] /\ conns'[f] = conns[f]
  BY <1>1, <1>3 DEF Connect, TypeOK
<1>4. Started(undoProtols[fd]) <= Found(conns[fd] + 1)
  <2>1. CASE conns[fd] = 0
    BY <2>1 DEF PaceInv, Started, Found
  <2>2. CASE conns[fd] # 0
    BY <1>2, <2>2 DEF Started, Found
  <2>. QED
    BY <2>1, <2>2
<1>5. Pace(fd)'
  <2>1. Started(undoProtols[fd]) \in Nat /\ Found(conns[fd] + 1) \in Nat /\ Len(handled[fd]) = 0
    BY <1>1 DEF Started, Found
  <2>. QED
    BY <1>1, <1>2, <1>4, <2>1 DEF Pace
<1>6. ASSUME NEW f \in FDs
      PROVE  /\ chan'[f].open => conns'[f] >= 1 /\ Pace(f)'
             /\ ~chan'[f].open => handled'[f] = <<>> /\ reads'[f] = 0
             /\ conns'[f] = 0 => undoProtols'[f] = None
  <2>1. CASE f = fd
    BY <1>1, <1>2, <1>5, <2>1
  <2>2. CASE f # fd
    BY <1>2, <1>3, <2>2 DEF PaceInv, Pace
  <2>. QED
    BY <2>1, <2>2
<1>. QED
  BY <1>2, <1>6 DEF PaceInv

LEMMA NextPace == IInv /\ PaceInv /\ [Next]_vars => PaceInv'
<1>. SUFFICES ASSUME IInv, PaceInv, [Next]_vars PROVE PaceInv'
  OBVIOUS
<1>1. ASSUME NEW fd \in FDs, Connect(fd) PROVE PaceInv'
  BY <1>1, ConnectPace
<1>2. ASSUME NEW fd \in FDs, Close(fd) \/ ReadFull(fd) PROVE PaceInv'
  BY <1>2, ClosePace DEF ReadFull
<1>3. ASSUME NEW fd \in FDs, NEW m \in Sent, Send(fd, m) PROVE PaceInv'
  BY <1>3 DEF Send, PaceInv, Pace
<1>4. ASSUME NEW fd \in FDs, Read(fd) PROVE PaceInv'
  BY <1>4, ReadPace
<1>5. CASE UNCHANGED vars
  BY <1>5 DEF vars, history, PaceInv, Pace
<1>. QED
  BY <1>1, <1>2, <1>3, <1>4, <1>5 DEF Next

LEMMA PaceInvariance == Spec => [](IInv /\ PaceInv)
BY InitInv, NextInv, InitPace, NextPace, PTL DEF Spec

(* On the first connection of a descriptor every message took two reads of *)
(* its own, on a later one all but the first did: that one may have been   *)
(* begun by the Protocol of an earlier connection, which close leaves in   *)
(* undoProtols_.                                                           *)
THEOREM ReadsPerMessage ==
  Spec => [](\A fd \in FDs : 2 * Len(handled[fd]) <= reads[fd] + Found(conns[fd]))
<1>1. IInv /\ PaceInv => \A fd \in FDs : 2 * Len(handled[fd]) <= reads[fd] + Found(conns[fd])
  <2>. SUFFICES ASSUME IInv, PaceInv, NEW fd \in FDs
                PROVE  2 * Len(handled[fd]) <= reads[fd] + Found(conns[fd])
    OBVIOUS
  <2>1. Started(undoProtols[fd]) \in Nat /\ Found(conns[fd]) \in Nat /\ reads[fd] \in Nat
    BY DEF Started, Found, IInv, TypeOK
  <2>2. Len(handled[fd]) \in Nat
    BY DEF PaceInv
  <2>3. CASE chan[fd].open
    BY <2>1, <2>2, <2>3 DEF PaceInv, Pace
  <2>4. CASE ~chan[fd].open
    <3>1. Len(handled[fd]) = 0
      BY <2>4 DEF PaceInv
    <3>. QED
      BY <2>1, <3>1
  <2>. QED
    BY <2>3, <2>4
<1>. QED
  BY <1>1, PaceInvariance, PTL

(* So two reads each where descriptors are not used again, for all bytes,  *)
(* all cuts of them and all bytes past the view.                           *)
THEOREM TwoReadsForEach ==
  ASSUME MaxConns <= 1
  PROVE  Spec => []TwoReadsEach
<1>1. IInv /\ (\A fd \in FDs : 2 * Len(handled[fd]) <= reads[fd] + Found(conns[fd])) => TwoReadsEach
  <2>. SUFFICES ASSUME IInv, NEW fd \in FDs,
                       2 * Len(handled[fd]) <= reads[fd] + Found(conns[fd])
                PROVE  2 * Len(handled[fd]) <= reads[fd]
    BY DEF TwoReadsEach
  <2>1. conns[fd] <= 1 /\ reads[fd] \in Nat
    BY MessagesAssumption DEF IInv, TypeOK
  <2>2. Found(conns[fd]) = 0
    BY <2>1 DEF Found
  <2>. QED
    BY <2>1, <2>2
<1>. QED
  BY <1>1, ReadsPerMessage, Invariance, PTL

-----------------------------------------------------------------------------
(***************************************************************************)
(* What is dispatched is what was sent.  The bytes of a connection that    *)
(* create has not taken yet (in the read buffer and on the wire) are the   *)
(* end of the messages sent, one after the other; off[i] is where message  *)
(* i begins in them, negative if bytes of it are gone.                     *)
(***************************************************************************)
Total(m)  == m.bytes[2]
HeadOf(m) == [i \in 0..(dfHeadLength - 1) |-> m.bytes[i + 1]]

(* A message that create can read: a whole header, no magic byte but the   *)
(* first, and without an extension the length of the content in digits.    *)
WellFormed(m) ==
  /\ m.content \in Seq(Byte)
  /\ Total(m) \in dfHeadLength..Len(m.bytes)
  /\ m.bytes[1] = dfMagic
  /\ \A i \in 2..Len(m.bytes) : m.bytes[i] # dfMagic
  /\ m.bytes[5] = m.type /\ m.bytes[6] = 0
  /\ Plain(m) =>
       /\ Len(m.bytes) = dfHeadLength + Len(m.content)
       /\ \A i \in 1..Len(m.content) : m.bytes[dfHeadLength + i] = m.content[i]
       /\ \A b \in Byte : contentLength([head |-> HeadOf(m)], b) = Len(m.content)

(* Peers send such messages, descriptors are not used again, a uint32_t    *)
(* that a negative number became is longer than a buffer, and what lies    *)
(* past a view is not taken for a short header and for digits as well.     *)
Legible ==
  /\ \A m \in Sent : WellFormed(m)
  /\ MaxConns <= 1
  /\ BufSize <= Huge
  /\ \A a, b \in Stale : a <= 1 => Char(b) < 48
  /\ None \notin Partial

(* What create is shown is the beginning of all that is under way.         *)
Begins(view, rest) ==
  Len(view) <= Len(rest) /\ \A i \in 1..Len(view) : view[i] = rest[i]

Layout(off, ms, rest) ==
  /\ off \in [1..(Len(ms) + 1) -> Int]
  /\ off[Len(ms) + 1] = Len(rest)
  /\ \A i \in 1..(Len(ms) + 1) : off[i] <= Len(rest)
  /\ \A i \in 1..Len(ms) : off[i + 1] = off[i] + Len(ms[i].bytes)
  /\ \A i \in 1..Len(ms) : \A j \in 1..Len(ms[i].bytes) :
       off[i] + j >= 1 => rest[off[i] + j] = ms[i].bytes[j]

(* Between two messages: the header of message k was the last to go.       *)
Behind(off, ms, k) == IF k = 0 THEN off[1] = 0 ELSE off[k] + Total(ms[k]) = 0

(* A Protocol with the header of message k, and nothing else of it.        *)
Begun(p, m) == p.state = "WAITCONTENT" /\ p.head = HeadOf(m) /\ p.content = <<>>

(* A Protocol that never completes: LACK, or a header of which only the    *)
(* magic byte had arrived.                                                 *)
Stuck(p) ==
  \/ p.state = "LACK"
  \/ /\ p.state = "WAITCONTENT" /\ p.content = <<>>
     /\ p.head[0] = dfMagic /\ p.head[1] \in Stale /\ p.head[1] <= 1

Phase(p, ms, k, rest) ==
  \/ p # None /\ Stuck(p)
  \/ \E off \in [1..(Len(ms) + 1) -> Int] :
       /\ Layout(off, ms, rest)
       /\ \/ p \in {None, NewProtocol} /\ Behind(off, ms, k)
          \/ /\ p # None /\ k < Len(ms)
             /\ Begun(p, ms[k + 1]) /\ off[k + 1] + Total(ms[k + 1]) = 0

Matches(h, m) == h.type = <<m.type, 0>> /\ (Plain(m) => h.content = m.content)

Received(fd) ==
  /\ Len(handled[fd]) <= Len(sent[fd])
  /\ \A i \in 1..Len(handled[fd]) : Matches(handled[fd][i], sent[fd][i])
  /\ Phase(undoProtols[fd], sent[fd], Len(handled[fd]), chan[fd].data \o wire[fd])

StreamInv ==
  /\ sent \in [FDs -> Seq(Sent)]
  /\ \A fd \in FDs :
       /\ chan[fd].open => Received(fd)
       /\ ~chan[fd].open => sent[fd] = <<>> /\ wire[fd] = <<>> /\ chan[fd].data = <<>>

-----------------------------------------------------------------------------
(* Between two messages there is no magic byte before the next one.        *)
LEMMA NoMagicBetween ==
  ASSUME Legible, NEW ms \in Seq(Sent), NEW rest \in Seq(Byte), NEW off, Layout(off, ms, rest),
         NEW k \in 0..Len(ms), Behind(off, ms, k)
  PROVE  off[k + 1] \in Nat /\ \A j \in 1..off[k + 1] : rest[j] # dfMagic
<1>1. Len(ms) \in Nat /\ Len(rest) \in Nat /\ off[k + 1] \in Int
  <2>1. Len(ms) \in Nat /\ Len(rest) \in Nat
    OBVIOUS
  <2>2. k + 1 \in 1..(Len(ms) + 1)
    BY <2>1
  <2>. QED
    BY <2>1, <2>2 DEF Layout
<1>2. CASE k = 0
  BY <1>2 DEF Behind
<1>3. CASE k # 0
  <2>. DEFINE m == ms[k]
              n == Len(m.bytes)
              t == Total(m)
              o == off[k]
  <2>1. k \in 1..Len(ms) /\ m \in Sent
    BY <1>1, <1>3
  <2>2. /\ n \in Nat /\ t \in dfHeadLength..n
        /\ \A i \in 2..n : m.bytes[i] # dfMagic
    <3>1. m.bytes \in Seq(Byte) /\ WellFormed(m)
      BY <2>1, MessagesAssumption DEF Legible
    <3>. QED
      BY <3>1 DEF WellFormed
  <2>3. o \in Int /\ o + t = 0
    BY <1>1, <1>3, <2>1 DEF Layout, Behind
  <2>4. /\ off[k + 1] = o + n
        /\ \A j \in 1..n : o + j >= 1 => rest[o + j] = m.bytes[j]
    BY <2>1 DEF Layout
  <2>. HIDE DEF m, n, t, o
  <2>5. n \in Int /\ t \in Int /\ 15 <= t /\ t <= n
    BY <2>2 DEF dfHeadLength
  <2>6. off[k + 1] \in Nat /\ off[k + 1] = n - t
    BY <2>3, <2>4, <2>5
  <2>7. ASSUME NEW j \in 1..off[k + 1] PROVE rest[j] # dfMagic
    <3>1. j + t \in 2..n /\ o + (j + t) = j /\ j >= 1
      BY <2>3, <2>5, <2>6
    <3>2. j + t \in 1..n
      BY <2>5, <3>1
    <3>3. rest[o + (j + t)] = m.bytes[j + t]
      BY <2>4, <3>1, <3>2
    <3>. QED
      BY <2>2, <3>1, <3>3
  <2>. QED
    BY <2>6, <2>7
<1>. QED
  BY <1>2, <1>3

LEMMA FindIsFirst ==
  ASSUME NEW view \in Seq(Byte)
  PROVE  /\ Find(view) # 0 => Find(view) \in 1..Len(view) /\ view[Find(view)] = dfMagic
         /\ \A i \in 1..Len(view) : view[i] = dfMagic => Find(view) # 0 /\ Find(view) <= i
<1>. DEFINE I == {i \in 1..Len(view) : view[i] = dfMagic}
<1>1. Len(view) \in Nat /\ I \in SUBSET Nat
  OBVIOUS
<1>2. Find(view) = IF I # {} THEN Min(I) ELSE 0
  BY DEF Find, SelectInSeq
<1>3. ASSUME NEW i \in I PROVE Find(view) \in I /\ Find(view) <= i
  <2>. HIDE DEF I
  <2>. QED
    BY <1>1, <1>2, <1>3, LeastIsLeast
<1>4. \A i \in I : i \in 1..Len(view) /\ i # 0 /\ view[i] = dfMagic
  BY <1>1
<1>5. \A i \in 1..Len(view) : view[i] = dfMagic => i \in I
  OBVIOUS
<1>. HIDE DEF I
<1>. QED
  BY <1>2, <1>3, <1>4, <1>5

(* So the next magic byte is the one of the next message.                  *)
LEMMA FindsNext ==
  ASSUME Legible, NEW ms \in Seq(Sent), NEW rest \in Seq(Byte), NEW off, Layout(off, ms, rest),
         NEW k \in 0..Len(ms), Behind(off, ms, k),
         NEW view \in Seq(Byte), Begins(view, rest),
         Find(view) # 0
  PROVE  k < Len(ms) /\ Find(view) = off[k + 1] + 1 /\ Find(view) \in 1..Len(view)
<1>. DEFINE at == Find(view)
            o  == off[k + 1]
<1>1. /\ Len(ms) \in Nat /\ Len(rest) \in Nat /\ Len(view) \in Nat
      /\ Len(view) <= Len(rest) /\ \A i \in 1..Len(view) : view[i] = rest[i]
  BY DEF Begins
<1>2. at \in 1..Len(view) /\ view[at] = dfMagic
  BY FindIsFirst
<1>3. o \in Nat /\ \A j \in 1..o : rest[j] # dfMagic
  BY NoMagicBetween
<1>4. at > o
  <2>. HIDE DEF at, o
  <2>. QED
    BY <1>1, <1>2, <1>3
<1>5. k # Len(ms)
  <2>1. ASSUME k = Len(ms) PROVE o = Len(rest)
    BY <2>1 DEF Layout
  <2>. HIDE DEF at, o
  <2>. QED
    BY <1>1, <1>2, <1>4, <2>1
<1>6. k < Len(ms) /\ k + 1 \in 1..Len(ms)
  BY <1>1, <1>5
<1>7. rest[o + 1] = dfMagic
  <2>. DEFINE m == ms[k + 1]
  <2>1. m \in Sent
    BY <1>6
  <2>2. m.bytes \in Seq(Byte) /\ WellFormed(m)
    BY <2>1, MessagesAssumption DEF Legible
  <2>3. 1 \in 1..Len(m.bytes) /\ m.bytes[1] = dfMagic
    BY <2>2 DEF WellFormed, dfHeadLength
  <2>4. o + 1 >= 1 => rest[o + 1] = m.bytes[1]
    BY <1>6, <2>3 DEF Layout
  <2>. HIDE DEF o, m
  <2>. QED
    BY <1>3, <2>3, <2>4
<1>8. at <= o + 1
  <2>1. o + 1 \in 1..Len(view)
    <3>. HIDE DEF at, o
    <3>. QED
      BY <1>1, <1>2, <1>3, <1>4
  <2>2. view[o + 1] = dfMagic
    <3>. HIDE DEF o
    <3>. QED
      BY <1>1, <1>7, <2>1
  <2>. QED
    BY <2>1, <2>2, FindIsFirst
<1>9. at = o + 1
  <2>. HIDE DEF at, o
  <2>. QED
    BY <1>1, <1>2, <1>3, <1>4, <1>8
<1>. QED
  BY <1>2, <1>6, <1>9

(* create between two messages: it stays there, gets stuck, or takes the   *)
(* header of the next one.                                                 *)
LEMMA HeaderTaken ==
  ASSUME Legible, NEW ms \in Seq(Sent), NEW rest \in Seq(Byte), NEW off, Layout(off, ms, rest),
         NEW k \in 0..Len(ms), Behind(off, ms, k),
         NEW view \in Seq(Byte), Begins(view, rest),
         NEW beyond \in Stale
  PROVE  LET done == createFree(NewProtocol, view, beyond) IN
         \/ done.p = NewProtocol /\ done.ret < 0
         \/ Stuck(done.p)
         \/ /\ k < Len(ms) /\ Begun(done.p, ms[k + 1])
            /\ done.ret = off[k + 1] + Total(ms[k + 1])
<1>. DEFINE done  == createFree(NewProtocol, view, beyond)
            at    == Find(view)
            head  == HeadAt(view, at, beyond)
            total == head[1]
            lack  == [NewProtocol EXCEPT !.state = "LACK", !.head = head]
            wait  == [NewProtocol EXCEPT !.state = "WAITCONTENT", !.head = head]
            o     == off[k + 1]
            m     == ms[k + 1]
<1>1. done = IF at = 0 THEN Done(NewProtocol, -1)
             ELSE IF Len(view) - (at - 1) < total THEN Done(lack, -(at - 1))
             ELSE Done(wait, Skip(at, total))
  BY DEF createFree
<1>. SUFFICES \/ done.p = NewProtocol /\ done.ret < 0
              \/ Stuck(done.p)
              \/ /\ k < Len(ms) /\ Begun(done.p, ms[k + 1])
                 /\ done.ret = off[k + 1] + Total(ms[k + 1])
  OBVIOUS
<1>. HIDE DEF done
<1>2. lack.state = "LACK" /\ wait.state = "WAITCONTENT" /\ wait.head = head /\ wait.content = <<>>
  BY DEF NewProtocol
<1>. HIDE DEF lack, wait
<1>3. CASE at = 0
  <2>1. done = Done(NewProtocol, -1)
    BY <1>1, <1>3
  <2>2. done.p = NewProtocol /\ done.ret = -1
    BY <2>1 DEF Done
  <2>. QED
    BY <2>2
<1>4. CASE at # 0 /\ Len(view) - (at - 1) < total
  <2>1. done = Done(lack, -(at - 1))
    BY <1>1, <1>4
  <2>2. done.p.state = "LACK"
    BY <1>2, <2>1 DEF Done
  <2>. QED
    BY <2>2 DEF Stuck
<1>5. CASE at # 0 /\ ~(Len(view) - (at - 1) < total)
  <2>1. done.p = wait /\ done.ret = Skip(at, total)
    <3>1. done = Done(wait, Skip(at, total))
      BY <1>1, <1>5
    <3>. QED
      BY <3>1 DEF Done
  <2>2. k < Len(ms) /\ at = o + 1 /\ at \in 1..Len(view) /\ Len(view) \in Nat
    BY <1>5, FindsNext
  <2>3. o \in Nat
    BY NoMagicBetween
  <2>4. m \in Sent /\ m.bytes \in Seq(Byte) /\ WellFormed(m)
    <3>1. k + 1 \in 1..Len(ms)
      BY <2>2
    <3>2. m \in Sent
      BY <3>1
    <3>. QED
      BY <3>2, MessagesAssumption DEF Legible
  <2>5. Total(m) \in 15..Len(m.bytes) /\ Len(m.bytes) \in Nat
    BY <2>4 DEF WellFormed, dfHeadLength
  <2>6. \A i \in 0..14 : head[i] = IF at + i <= Len(view) THEN view[at + i] ELSE beyond
    BY DEF HeadAt, dfHeadLength
  <2>7. ASSUME NEW i \in 0..14, at + i <= Len(view)
        PROVE  head[i] = m.bytes[i + 1]
    <3>1. k + 1 \in 1..Len(ms) /\ i + 1 \in 1..Len(m.bytes)
      BY <2>2, <2>5
    <3>2. o + (i + 1) >= 1 => rest[o + (i + 1)] = m.bytes[i + 1]
      BY <3>1 DEF Layout
    <3>. HIDE DEF at, head, o, m
    <3>3. at + i \in 1..Len(view) /\ o + (i + 1) = at + i /\ o + (i + 1) >= 1
      BY <2>2, <2>3, <2>7
    <3>4. head[i] = view[at + i] /\ view[at + i] = rest[at + i]
      BY <2>6, <2>7, <3>3 DEF Begins
    <3>5. rest[at + i] = m.bytes[i + 1]
      BY <3>2, <3>3
    <3>. QED
      BY <3>4, <3>5
  <2>8. CASE at + 1 <= Len(view)
    <3>1. total = Total(m)
      BY <2>7, <2>8 DEF Total
    <3>2. at + 14 <= Len(view)
      <4>. HIDE DEF at, total, m
      <4>1. /\ at \in Int /\ Len(view) \in Int /\ total \in Int /\ total >= 15
            /\ ~(Len(view) - (at - 1) < total)
        BY ONLY <1>5, <2>2, <2>5, <3>1
      <4>. QED
        BY ONLY <4>1
    <3>3. \A i \in 0..14 : at + i <= Len(view)
      <4>. HIDE DEF at
      <4>. QED
        BY <2>2, <3>2
    <3>4. head = HeadOf(m)
      <4>1. \A i \in 0..14 : head[i] = HeadOf(m)[i]
        <5>1. \A i \in 0..14 : head[i] = m.bytes[i + 1]
          BY <2>7, <3>3
        <5>2. \A i \in 0..14 : HeadOf(m)[i] = m.bytes[i + 1]
          BY DEF HeadOf, dfHeadLength
        <5>. QED
          BY <5>1, <5>2
      <4>2. head = [i \in 0..14 |-> head[i]]
        BY DEF HeadAt, dfHeadLength
      <4>3. HeadOf(m) = [i \in 0..14 |-> HeadOf(m)[i]]
        BY DEF HeadOf, dfHeadLength
      <4>. HIDE DEF head
      <4>. QED
        BY <4>1, <4>2, <4>3
    <3>5. Begun(done.p, m)
      BY <1>2, <2>1, <3>4 DEF Begun
    <3>6. done.ret = o + Total(m)
      <4>1. done.ret = at - 1 + total
        BY <2>1 DEF Skip
      <4>. HIDE DEF at, total, o, m
      <4>. QED
        BY <2>2, <2>3, <2>5, <3>1, <4>1
    <3>. QED
      BY <2>2, <3>5, <3>6
  <2>9. CASE ~(at + 1 <= Len(view))
    <3>1. at = Len(view)
      <4>. HIDE DEF at
      <4>. QED
        BY <2>2, <2>9
    <3>2. total = beyond
      BY <2>6, <2>9
    <3>3. beyond <= 1
      <4>1. beyond \in Byte
        BY MessagesAssumption
      <4>2. Len(view) - (at - 1) >= beyond
        <5>. HIDE DEF at, total
        <5>. QED
          BY <1>5, <2>2, <3>2, <4>1 DEF Byte
      <4>. HIDE DEF at, total
      <4>. QED
        BY <2>2, <3>1, <4>1, <4>2 DEF Byte
    <3>4. head[0] = dfMagic
      <4>1. at + 0 <= Len(view)
        BY <3>1, <2>2
      <4>2. head[0] = m.bytes[0 + 1]
        BY <2>7, <4>1
      <4>. QED
        BY <2>4, <4>2 DEF WellFormed
    <3>5. done.p.head[0] = dfMagic /\ done.p.head[1] \in Stale /\ done.p.head[1] <= 1
      BY <1>2, <2>1, <3>2, <3>3, <3>4
    <3>. QED
      BY <1>2, <2>1, <3>5 DEF Stuck
  <2>. QED
    BY <2>8, <2>9
<1>. QED
  BY <1>3, <1>4, <1>5

(* A Protocol that is stuck stays so: a byte past a header that is no      *)
(* digit makes the length negative, and no view is as long as that.        *)
LEMMA StuckLength ==
  ASSUME Legible, NEW p \in Partial, NEW beyond \in Stale,
         p.head[0] = dfMagic, p.head[1] \in Stale, p.head[1] <= 1
  PROVE  contentLength(p, beyond) = Huge
<1>. DEFINE t == p.head[1]
            c == Char(beyond) - 48
            D(i) == Digit(p, i, beyond)
<1>1. t \in 0..1
  <2>1. t \in Byte /\ t <= 1
    BY MessagesAssumption
  <2>. HIDE DEF t
  <2>. QED
    BY <2>1 DEF Byte
<1>2. c \in Int /\ c < 0
  <2>1. Char(beyond) \in Int
    BY MessagesAssumption DEF Char, Byte
  <2>2. Char(beyond) < 48
    BY DEF Legible
  <2>. QED
    BY <2>1, <2>2
<1>3. DOMAIN p.head = 0..14
  BY DEF Partial, Header, dfHeadLength
<1>4. ASSUME NEW i \in Int, i < 0 PROVE D(i) = c
  BY <1>3, <1>4 DEF Digit
<1>5. D(0) = -100
  BY <1>3 DEF Digit, Char, dfMagic
<1>6. contentLength(p, beyond) =
        IF 1000 * D(t - 4) + 100 * D(t - 3) + 10 * D(t - 2) + D(t - 1) < 0
          THEN Huge ELSE 1000 * D(t - 4) + 100 * D(t - 3) + 10 * D(t - 2) + D(t - 1)
  BY DEF contentLength
<1>. HIDE DEF D, c, t
<1>7. D(t - 4) = c /\ D(t - 3) = c /\ D(t - 2) = c /\ (D(t - 1) = c \/ D(t - 1) = -100)
  <2>1. t - 4 \in Int /\ t - 4 < 0 /\ t - 3 \in Int /\ t - 3 < 0 /\ t - 2 \in Int /\ t - 2 < 0
    BY <1>1
  <2>2. (t - 1 \in Int /\ t - 1 < 0) \/ t - 1 = 0
    BY <1>1
  <2>. QED
    BY <1>4, <1>5, <2>1, <2>2
<1>8. 1000 * D(t - 4) + 100 * D(t - 3) + 10 * D(t - 2) + D(t - 1) < 0
  <2>1. PICK d \in Int : d = D(t - 1) /\ d < 0
    BY <1>2, <1>7
  <2>2. 1000 * c + 100 * c + 10 * c + d < 0
    BY <1>2, <2>1
  <2>. QED
    BY <1>7, <2>1, <2>2
<1>. QED
  BY <1>6, <1>8

LEMMA StuckStays ==
  ASSUME Legible, NEW p \in Partial, Stuck(p), NEW view \in Seq(Byte), Len(view) < BufSize,
         NEW beyond \in Stale
  PROVE  Stuck(create(p, view, beyond).p)
<1>1. Len(view) \in Nat /\ BufSize \in Nat /\ Huge \in Nat
  BY MessagesAssumption, HugeAssumption
<1>2. CASE Len(view) < dfHeadLength
  <2>1. create(p, view, beyond) = Done(p, -1)
    BY <1>1, <1>2 DEF create, dfHeadLength
  <2>. QED
    BY <2>1 DEF Done
<1>3. CASE Len(view) >= dfHeadLength /\ p.state = "LACK"
  <2>1. create(p, view, beyond) = Done(p, 0)
    BY <1>1, <1>3 DEF create, dfHeadLength
  <2>. QED
    BY <2>1 DEF Done
<1>4. CASE Len(view) >= dfHeadLength /\ p.state # "LACK"
  <2>1. /\ p.state = "WAITCONTENT" /\ p.content = <<>>
        /\ p.head[0] = dfMagic /\ p.head[1] \in Stale /\ p.head[1] <= 1
    BY <1>4 DEF Stuck
  <2>2. create(p, view, beyond) = createContent(p, view, beyond)
    BY <1>1, <1>4, <2>1 DEF create, dfHeadLength
  <2>3. contentLength(p, beyond) = Huge
    BY <2>1, StuckLength
  <2>4. Len(view) + Len(p.content) < Huge
    BY <1>1, <2>1 DEF Legible
  <2>5. createContent(p, view, beyond) = Done([p EXCEPT !.content = @ \o view, !.state = "LACK"], 0)
    BY <2>3, <2>4 DEF createContent
  <2>6. create(p, view, beyond).p.state = "LACK"
    <3>. DEFINE part == [p EXCEPT !.content = @ \o view, !.state = "LACK"]
    <3>1. part.state = "LACK"
      BY DEF Partial
    <3>. HIDE DEF part
    <3>2. create(p, view, beyond) = Done(part, 0)
      BY <2>2, <2>5 DEF part
    <3>. QED
      BY <3>1, <3>2 DEF Done
  <2>. QED
    BY <2>6 DEF Stuck
<1>. QED
  BY <1>1, <1>2, <1>3, <1>4 DEF dfHeadLength

(* The content that completes a message is the one that was sent with it.  *)
LEMMA ContentMatches ==
  ASSUME Legible, NEW m \in Sent, NEW p \in Partial, Begun(p, m),
         NEW view \in Seq(Byte), NEW beyond \in Stale,
         Plain(m) => \A i \in 1..Len(view) : i <= Len(m.content) => view[i] = m.content[i],
         NEW done, done = createContent(p, view, beyond)
  PROVE  /\ done.ret = 0
         /\ \/ done.p.state = "LACK"
            \/ done.p.state = "READY" /\ Matches(Message(done.p), m)
<1>. DEFINE length == contentLength(p, beyond)
            part  == [p EXCEPT !.content = @ \o view, !.state = "LACK"]
            ready == [p EXCEPT !.content = @ \o SubSeq(view, 1, length - Len(@)), !.state = "READY"]
<1>1. done = IF Len(view) + Len(p.content) < length THEN Done(part, 0) ELSE Done(ready, 0)
  BY DEF createContent
<1>2. length \in Nat
  BY LengthIsNumber, MessagesAssumption
<1>3. p.content = <<>> /\ p.head = HeadOf(m) /\ WellFormed(m) /\ beyond \in Byte /\ m.bytes \in Seq(Byte)
  BY MessagesAssumption DEF Begun, Legible
<1>4. part.state = "LACK"
  BY DEF Partial
<1>5. /\ ready.state = "READY" /\ ready.head = HeadOf(m)
      /\ ready.content = p.content \o SubSeq(view, 1, length - Len(p.content))
  BY <1>3 DEF Partial
<1>6. Plain(m) => length = Len(m.content)
  <2>1. contentLength(p, beyond) = contentLength([head |-> HeadOf(m)], beyond)
    BY <1>3 DEF contentLength, Digit
  <2>. QED
    BY <1>3, <2>1 DEF WellFormed
<1>. HIDE DEF part, ready, length
<1>7. CASE Len(view) + Len(p.content) < length
  <2>1. done = Done(part, 0)
    BY <1>1, <1>7
  <2>. QED
    BY <1>4, <2>1 DEF Done
<1>8. CASE ~(Len(view) + Len(p.content) < length)
  <2>1. done = Done(ready, 0)
    BY <1>1, <1>8
  <2>2. done.p = ready /\ done.ret = 0
    BY <2>1 DEF Done
  <2>3. length <= Len(view) /\ Len(view) \in Nat /\ Len(p.content) = 0
    BY <1>2, <1>3, <1>8
  <2>4. ready.content = SubSeq(view, 1, length)
    <3>1. length - Len(p.content) = length
      BY <1>2, <2>3
    <3>2. SubSeq(view, 1, length) \in Seq(Byte)
      BY <1>2, <2>3, SubSeqProperties
    <3>. QED
      BY <1>3, <1>5, <3>1, <3>2
  <2>5. getType(ready) = <<m.type, 0>>
    BY <1>3, <1>5 DEF getType, HeadOf, WellFormed, dfHeadLength
  <2>6. ASSUME Plain(m) PROVE SubSeq(view, 1, length) = m.content
    <3>1. m.content \in Seq(Byte) /\ length = Len(m.content)
      BY <1>3, <1>6, <2>6 DEF WellFormed
    <3>2. /\ SubSeq(view, 1, length) \in Seq(Byte) /\ Len(SubSeq(view, 1, length)) = length
          /\ \A i \in 1..length : SubSeq(view, 1, length)[i] = view[i]
      BY <1>2, <2>3, SubSeqProperties
    <3>3. \A i \in 1..length : view[i] = m.content[i]
      BY <1>2, <2>3, <2>6, <3>1
    <3>. DEFINE s == SubSeq(view, 1, length)
                t == m.content
    <3>4. s \in Seq(Byte) /\ t \in Seq(Byte) /\ Len(s) = Len(t) /\ \A i \in 1..Len(s) : s[i] = t[i]
      BY <3>1, <3>2, <3>3
    <3>. HIDE DEF s, t
    <3>5. s = t
      BY <3>4, SeqEqual
    <3>. QED
      BY <3>5 DEF s, t
  <2>7. Matches(Message(ready), m)
    BY <2>4, <2>5, <2>6 DEF Matches, Message
  <2>. QED
    BY <1>5, <2>2, <2>7
<1>. QED
  BY <1>7, <1>8

(* Bytes taken from the front move all messages to the front.              *)
LEMMA LayoutErased ==
  ASSUME Legible, NEW ms \in Seq(Sent), NEW rest \in Seq(Byte), NEW off, Layout(off, ms, rest),
         NEW size \in 0..Len(rest)
  PROVE  Layout([i \in 1..(Len(ms) + 1) |-> off[i] - size], ms, SubSeq(rest, size + 1, Len(rest)))
<1>. DEFINE new  == [i \in 1..(Len(ms) + 1) |-> off[i] - size]
            left == SubSeq(rest, size + 1, Len(rest))
            n    == Len(ms)
            r    == Len(rest)
<1>1. n \in Nat /\ r \in Nat /\ size \in Nat /\ size <= r
  OBVIOUS
<1>2. /\ Len(left) = r - size
      /\ \A i \in 1..Len(left) : left[i] = rest[size + i]
  <2>1. size + 1 \in Nat /\ r \in Nat /\ size + 1 >= 1
    BY <1>1
  <2>. QED
    BY <1>1, <2>1, SubSeqProperties
<1>3. \A i \in 1..n : ms[i] \in Sent /\ Len(ms[i].bytes) \in Nat
  <2>1. \A i \in 1..n : ms[i] \in Sent
    OBVIOUS
  <2>. QED
    BY <2>1, MessagesAssumption
<1>4. /\ off \in [1..(n + 1) -> Int]
      /\ off[n + 1] = r
      /\ \A i \in 1..(n + 1) : off[i] <= r
      /\ \A i \in 1..n : off[i + 1] = off[i] + Len(ms[i].bytes)
      /\ \A i \in 1..n : \A j \in 1..Len(ms[i].bytes) :
           off[i] + j >= 1 => rest[off[i] + j] = ms[i].bytes[j]
  BY DEF Layout
<1>5. new \in [1..(n + 1) -> Int] /\ \A i \in 1..(n + 1) : new[i] = off[i] - size
  BY <1>1, <1>4
<1>. HIDE DEF new, left, n, r
<1>6. new[n + 1] = Len(left) /\ \A i \in 1..(n + 1) : new[i] <= Len(left)
  <2>1. n + 1 \in 1..(n + 1)
    BY <1>1
  <2>2. ASSUME NEW i \in 1..(n + 1) PROVE new[i] <= r - size
    <3>1. off[i] \in Int /\ off[i] <= r /\ new[i] = off[i] - size
      BY <1>4, <1>5
    <3>. QED
      BY <1>1, <3>1
  <2>. QED
    BY <1>2, <1>4, <1>5, <2>1, <2>2
<1>7. ASSUME NEW i \in 1..n PROVE new[i + 1] = new[i] + Len(ms[i].bytes)
  <2>1. i \in 1..(n + 1) /\ i + 1 \in 1..(n + 1)
    BY <1>1
  <2>2. /\ new[i] = off[i] - size /\ new[i + 1] = off[i + 1] - size
        /\ off[i] \in Int /\ off[i + 1] = off[i] + Len(ms[i].bytes) /\ Len(ms[i].bytes) \in Nat
    BY <1>3, <1>4, <1>5, <2>1
  <2>. QED
    BY <1>1, <2>2
<1>8. ASSUME NEW i \in 1..n, NEW j \in 1..Len(ms[i].bytes), new[i] + j >= 1
      PROVE  left[new[i] + j] = ms[i].bytes[j]
  <2>. DEFINE b == Len(ms[i].bytes)
  <2>1. i \in 1..(n + 1) /\ i + 1 \in 1..(n + 1)
    BY <1>1
  <2>2. /\ b \in Nat /\ off[i] \in Int /\ new[i] = off[i] - size
        /\ off[i] + b <= r
    BY <1>3, <1>4, <1>5, <2>1
  <2>3. j \in 1..b
    OBVIOUS
  <2>4. off[i] + j >= 1 => rest[off[i] + j] = ms[i].bytes[j]
    BY <1>4
  <2>. HIDE DEF b
  <2>5. PICK o \in Int : o = off[i]
    BY <2>2
  <2>6. (o - size) + j >= 1 /\ o + b <= r /\ new[i] = o - size
    BY <1>8, <2>2, <2>5
  <2>7. (o - size) + j \in 1..(r - size) /\ size + ((o - size) + j) = o + j /\ o + j >= 1
    BY <1>1, <2>2, <2>3, <2>6
  <2>8. left[(o - size) + j] = rest[o + j]
    BY <1>2, <2>7
  <2>. QED
    BY <2>4, <2>5, <2>6, <2>7, <2>8
<1>9. new \in [1..(n + 1) -> Int]
  BY <1>5
<1>10. Layout(new, ms, left)
  BY <1>6, <1>7, <1>8, <1>9 DEF Layout, n
<1>. QED
  BY <1>10 DEF new, left, n, r

(* Whatever create was in the middle of, what it leaves is in the middle   *)
(* of the same stream; and a message it completes is the next one.         *)
LEMMA CreateFollows ==
  ASSUME Legible, NEW ms \in Seq(Sent), NEW rest \in Seq(Byte), NEW k \in 0..Len(ms),
         NEW u \in Partial \cup {None}, Phase(u, ms, k, rest),
         NEW view \in Seq(Byte), Begins(view, rest), Len(view) < BufSize,
         NEW beyond \in Stale, NEW done,
         done = create(IF u = None THEN NewProtocol ELSE u, view, beyond),
         NEW size, size = IF done.ret < 0 THEN 0 ELSE done.ret
  PROVE  LET left == SubSeq(rest, size + 1, Len(rest)) IN
         \/ /\ done.p.state = "READY" /\ k < Len(ms) /\ Matches(Message(done.p), ms[k + 1])
            /\ Phase(None, ms, k + 1, left)
         \/ done.p.state # "READY" /\ Phase(done.p, ms, k, left)
<1>. DEFINE p == IF u = None THEN NewProtocol ELSE u
            left == SubSeq(rest, size + 1, Len(rest))
<1>1. /\ Len(ms) \in Nat /\ Len(rest) \in Nat /\ Len(view) \in Nat
      /\ p \in Partial /\ beyond \in Byte
      /\ Len(view) <= Len(rest) /\ \A i \in 1..Len(view) : view[i] = rest[i]
  BY NewIsPartial, MessagesAssumption DEF Begins
<1>2. done.p \in Partial /\ done.ret \in Int /\ done.ret <= Len(view)
  <2>. HIDE DEF p
  <2>1. done = create(p, view, beyond)
    BY DEF p
  <2>. QED
    BY <1>1, <2>1, CreateStep
<1>3. size \in 0..Len(rest) /\ done.p # None
  BY <1>1, <1>2 DEF Legible
<1>4. CASE u # None /\ Stuck(u)
  <2>1. Stuck(done.p)
    BY <1>1, <1>4, StuckStays
  <2>2. done.p.state # "READY"
    BY <2>1 DEF Stuck
  <2>. QED
    BY <1>3, <2>1, <2>2 DEF Phase
<1>5. CASE ~(u # None /\ Stuck(u))
  <2>1. PICK off \in [1..(Len(ms) + 1) -> Int] :
          /\ Layout(off, ms, rest)
          /\ \/ u \in {None, NewProtocol} /\ Behind(off, ms, k)
             \/ /\ u # None /\ k < Len(ms)
                /\ Begun(u, ms[k + 1]) /\ off[k + 1] + Total(ms[k + 1]) = 0
    BY <1>5 DEF Phase
  <2>. DEFINE new == [i \in 1..(Len(ms) + 1) |-> off[i] - size]
  <2>2. /\ new \in [1..(Len(ms) + 1) -> Int] /\ Layout(new, ms, left)
        /\ \A i \in 1..(Len(ms) + 1) : new[i] = off[i] - size /\ off[i] \in Int
    <3>1. \A i \in 1..(Len(ms) + 1) : off[i] \in Int
      BY <2>1
    <3>. QED
      BY <1>1, <1>3, <2>1, <3>1, LayoutErased
  <2>. HIDE DEF new
  <2>3. CASE Len(view) < dfHeadLength
    <3>1. done = Done(p, -1)
      <4>. HIDE DEF p
      <4>1. done = create(p, view, beyond)
        BY DEF p
      <4>. QED
        BY <1>1, <2>3, <4>1 DEF create, dfHeadLength
    <3>2. done.p = p /\ size = 0
      <4>1. done.p = p /\ done.ret = -1
        BY <3>1 DEF Done
      <4>. QED
        BY <4>1
    <3>3. \A i \in 1..(Len(ms) + 1) : new[i] = off[i]
      BY <2>2, <3>2
    <3>4. CASE u \in {None, NewProtocol} /\ Behind(off, ms, k)
      <4>1. done.p = NewProtocol
        BY <3>2, <3>4
      <4>2. Behind(new, ms, k)
        BY <1>1, <3>3, <3>4 DEF Behind
      <4>3. done.p.state # "READY"
        BY <4>1 DEF NewProtocol
      <4>. QED
        BY <1>3, <2>2, <4>1, <4>2, <4>3 DEF Phase
    <3>5. CASE u # None /\ k < Len(ms) /\ Begun(u, ms[k + 1]) /\ off[k + 1] + Total(ms[k + 1]) = 0
      <4>1. done.p = u
        BY <3>2, <3>5
      <4>2. new[k + 1] + Total(ms[k + 1]) = 0
        BY <1>1, <3>3, <3>5
      <4>3. done.p.state # "READY"
        BY <3>5, <4>1 DEF Begun
      <4>. QED
        BY <1>3, <2>2, <3>5, <4>1, <4>2, <4>3 DEF Phase
    <3>. QED
      BY <2>1, <3>4, <3>5
  <2>4. CASE Len(view) >= dfHeadLength /\ u \in {None, NewProtocol} /\ Behind(off, ms, k)
    <3>1. p = NewProtocol /\ p.state = "FREE"
      <4>1. NewProtocol.state = "FREE"
        BY DEF NewProtocol
      <4>2. p = NewProtocol
        BY <2>4
      <4>. QED
        BY <4>1, <4>2
    <3>2. done = createFree(NewProtocol, view, beyond)
      <4>. HIDE DEF p
      <4>1. done = create(p, view, beyond)
        BY DEF p
      <4>2. done = createFree(p, view, beyond)
        BY <1>1, <2>4, <3>1, <4>1 DEF create, dfHeadLength
      <4>. QED
        BY <3>1, <4>2
    <3>3. \/ done.p = NewProtocol /\ done.ret < 0
          \/ Stuck(done.p)
          \/ /\ k < Len(ms) /\ Begun(done.p, ms[k + 1])
             /\ done.ret = off[k + 1] + Total(ms[k + 1])
      <4>. HIDE DEF p, left
      <4>1. Layout(off, ms, rest) /\ Behind(off, ms, k)
        BY <2>1, <2>4
      <4>. QED
        BY <3>2, <4>1, HeaderTaken
    <3>4. CASE done.p = NewProtocol /\ done.ret < 0
      <4>1. size = 0
        BY <3>4
      <4>2. \A i \in 1..(Len(ms) + 1) : new[i] = off[i]
        BY <2>2, <4>1
      <4>3. Behind(new, ms, k)
        BY <1>1, <2>4, <4>2 DEF Behind
      <4>4. done.p.state # "READY"
        BY <3>4 DEF NewProtocol
      <4>. QED
        BY <1>3, <2>2, <3>4, <4>3, <4>4 DEF Phase
    <3>5. CASE Stuck(done.p)
      <4>1. done.p.state # "READY"
        BY <3>5 DEF Stuck
      <4>. QED
        BY <1>3, <3>5, <4>1 DEF Phase
    <3>6. CASE k < Len(ms) /\ Begun(done.p, ms[k + 1]) /\ done.ret = off[k + 1] + Total(ms[k + 1])
      <4>1. Total(ms[k + 1]) \in Nat /\ off[k + 1] \in Nat
        <5>1. ms[k + 1] \in Sent
          BY <1>1, <3>6
        <5>2. WellFormed(ms[k + 1]) /\ ms[k + 1].bytes \in Seq(Byte)
          BY <5>1, MessagesAssumption DEF Legible
        <5>3. Total(ms[k + 1]) \in Nat
          BY <5>2 DEF WellFormed, dfHeadLength
        <5>4. off[k + 1] \in Nat
          BY <2>1, <2>4, NoMagicBetween
        <5>. QED
          BY <5>3, <5>4
      <4>2. size = off[k + 1] + Total(ms[k + 1])
        BY <1>2, <3>6, <4>1
      <4>3. new[k + 1] + Total(ms[k + 1]) = 0
        <5>1. new[k + 1] = off[k + 1] - size
          BY <1>1, <2>2, <3>6
        <5>. QED
          BY <4>1, <4>2, <5>1
      <4>4. done.p.state # "READY"
        BY <3>6 DEF Begun
      <4>. QED
        BY <1>3, <2>2, <3>6, <4>3, <4>4 DEF Phase
    <3>. QED
      BY <3>3, <3>4, <3>5, <3>6
  <2>5. CASE /\ Len(view) >= dfHeadLength /\ u # None /\ k < Len(ms)
             /\ Begun(u, ms[k + 1]) /\ off[k + 1] + Total(ms[k + 1]) = 0
    <3>. DEFINE m == ms[k + 1]
                o == off[k + 1]
    <3>1. p = u /\ u.state = "WAITCONTENT" /\ u \in Partial
      BY <2>5 DEF Begun
    <3>2. done = createContent(u, view, beyond)
      BY <1>1, <2>5, <3>1 DEF create, dfHeadLength
    <3>3. m \in Sent /\ WellFormed(m) /\ m.bytes \in Seq(Byte) /\ m.content \in Seq(Byte)
      <4>1. m \in Sent
        BY <1>1, <2>5
      <4>. QED
        BY <4>1, MessagesAssumption DEF Legible, WellFormed
    <3>4. ASSUME Plain(m), NEW i \in 1..Len(view), i <= Len(m.content)
          PROVE  view[i] = m.content[i]
      <4>1. Total(m) = 15 /\ Len(m.bytes) = 15 + Len(m.content) /\ m.bytes[15 + i] = m.content[i]
        <5>1. i \in 1..Len(m.content)
          BY <3>3, <3>4
        <5>. QED
          BY <3>3, <3>4, <5>1 DEF WellFormed, Plain, Total, dfHeadLength
      <4>2. o = -15
        <5>1. o + Total(m) = 0 /\ o \in Int
          BY <1>1, <2>2, <2>5
        <5>. HIDE DEF o, m
        <5>. QED
          BY <4>1, <5>1
      <4>3. \A j \in 1..Len(m.bytes) : o + j >= 1 => rest[o + j] = m.bytes[j]
        <5>1. k + 1 \in 1..Len(ms)
          BY <1>1, <2>5
        <5>. QED
          BY <2>1, <5>1 DEF Layout
      <4>4. 15 + i \in 1..Len(m.bytes) /\ o + (15 + i) = i /\ i >= 1
        <5>1. Len(m.content) \in Nat /\ i \in Nat /\ i >= 1
          BY <3>3
        <5>. HIDE DEF o, m
        <5>. QED
          BY <3>4, <4>1, <4>2, <5>1
      <4>5. rest[i] = m.bytes[15 + i]
        <5>. HIDE DEF o, m
        <5>. QED
          BY <4>3, <4>4
      <4>. QED
        BY <1>1, <4>1, <4>5
    <3>5. /\ done.ret = 0
          /\ done.p.state = "LACK" \/ (done.p.state = "READY" /\ Matches(Message(done.p), m))
      BY <2>5, <3>1, <3>2, <3>3, <3>4, ContentMatches
    <3>6. size = 0
      BY <3>5
    <3>7. Behind(new, ms, k + 1)
      <4>1. k + 1 # 0 /\ k + 1 \in 1..(Len(ms) + 1)
        BY <1>1, <2>5
      <4>2. new[k + 1] = off[k + 1]
        BY <2>2, <3>6, <4>1
      <4>. QED
        BY <2>5, <4>1, <4>2 DEF Behind
    <3>8. CASE done.p.state = "LACK"
      BY <1>3, <3>8 DEF Phase, Stuck
    <3>9. CASE done.p.state = "READY" /\ Matches(Message(done.p), m)
      <4>1. Phase(None, ms, k + 1, left)
        BY <2>2, <3>7 DEF Phase
      <4>. QED
        BY <2>5, <3>9, <4>1
    <3>. QED
      BY <3>5, <3>8, <3>9
  <2>. QED
    BY <1>1, <2>1, <2>3, <2>4, <2>5 DEF dfHeadLength
<1>. QED
  BY <1>4, <1>5

-----------------------------------------------------------------------------
(* A message sent is laid out behind the others.                           *)
LEMMA LayoutExtended ==
  ASSUME Legible, NEW ms \in Seq(Sent), NEW rest \in Seq(Byte), NEW off, Layout(off, ms, rest),
         NEW m \in Sent, NEW new,
         new = [i \in 1..(Len(ms) + 2) |->
                  IF i <= Len(ms) + 1 THEN off[i] ELSE Len(rest) + Len(m.bytes)]
  PROVE  /\ new \in [1..(Len(Append(ms, m)) + 1) -> Int]
         /\ \A i \in 1..(Len(ms) + 1) : new[i] = off[i]
         /\ Layout(new, Append(ms, m), rest \o m.bytes)
<1>. DEFINE all == Append(ms, m)
            now == rest \o m.bytes
            n   == Len(ms)
            b   == Len(m.bytes)
            r   == Len(rest)
<1>1. n \in Nat /\ r \in Nat /\ m.bytes \in Seq(Byte) /\ b \in Nat
  BY MessagesAssumption
<1>2. /\ Len(all) = n + 1 /\ all[n + 1] = m
      /\ \A i \in 1..n : all[i] = ms[i]
  BY AppendProperties
<1>3. /\ now \in Seq(Byte) /\ Len(now) = r + b
      /\ \A i \in 1..(r + b) : now[i] = IF i <= r THEN rest[i] ELSE m.bytes[i - r]
  BY <1>1, ConcatProperties
<1>4. /\ off \in [1..(n + 1) -> Int]
      /\ off[n + 1] = r
      /\ \A i \in 1..(n + 1) : off[i] <= r
      /\ \A i \in 1..n : off[i + 1] = off[i] + Len(ms[i].bytes)
      /\ \A i \in 1..n : \A j \in 1..Len(ms[i].bytes) :
           off[i] + j >= 1 => rest[off[i] + j] = ms[i].bytes[j]
  BY DEF Layout
<1>5. \A i \in 1..n : ms[i] \in Sent /\ Len(ms[i].bytes) \in Nat
  <2>1. \A i \in 1..n : ms[i] \in Sent
    OBVIOUS
  <2>. QED
    BY <2>1, MessagesAssumption
<1>. HIDE DEF all, now, n, b, r
<1>6. /\ new \in [1..(n + 2) -> Int]
      /\ \A i \in 1..(n + 1) : new[i] = off[i]
      /\ new[n + 2] = r + b
  <2>1. new = [i \in 1..(n + 2) |-> IF i <= n + 1 THEN off[i] ELSE r + b]
    BY DEF n, r, b
  <2>. QED
    BY <1>1, <1>4, <2>1
<1>7. /\ new[Len(all) + 1] = Len(now)
      /\ \A i \in 1..(Len(all) + 1) : new[i] <= Len(now)
  <2>1. Len(all) + 1 = n + 2 /\ (n + 1) \in 1..(n + 1)
    BY <1>1, <1>2
  <2>2. ASSUME NEW i \in 1..(n + 2) PROVE new[i] <= r + b
    <3>1. CASE i \in 1..(n + 1)
      <4>1. off[i] \in Int /\ off[i] <= r /\ new[i] = off[i]
        BY <1>4, <1>6, <3>1
      <4>. QED
        BY <1>1, <4>1
    <3>2. CASE i = n + 2
      BY <1>1, <1>6, <3>2
    <3>. QED
      BY <1>1, <3>1, <3>2
  <2>. QED
    BY <1>3, <1>6, <2>1, <2>2
<1>8. \A i \in 1..Len(all) : new[i + 1] = new[i] + Len(all[i].bytes)
  <2>1. ASSUME NEW i \in 1..n PROVE new[i + 1] = new[i] + Len(all[i].bytes)
    <3>1. i \in 1..(n + 1) /\ i + 1 \in 1..(n + 1)
      BY <1>1
    <3>. QED
      BY <1>2, <1>4, <1>6, <3>1
  <2>2. new[(n + 1) + 1] = new[n + 1] + Len(all[n + 1].bytes)
    <3>1. (n + 1) + 1 = n + 2 /\ n + 1 \in 1..(n + 1)
      BY <1>1
    <3>. QED
      BY <1>2, <1>4, <1>6, <3>1 DEF b
  <2>. SUFFICES ASSUME NEW i \in 1..Len(all) PROVE new[i + 1] = new[i] + Len(all[i].bytes)
    OBVIOUS
  <2>3. i \in 1..n \/ i = n + 1
    BY <1>1, <1>2
  <2>. QED
    BY <2>1, <2>2, <2>3
<1>9. ASSUME NEW i \in 1..Len(all), NEW j \in 1..Len(all[i].bytes), new[i] + j >= 1
      PROVE  now[new[i] + j] = all[i].bytes[j]
  <2>1. CASE i \in 1..n
    <3>1. i \in 1..(n + 1) /\ i + 1 \in 1..(n + 1)
      BY <1>1, <2>1
    <3>2. all[i] = ms[i] /\ new[i] = off[i]
      BY <1>2, <1>6, <2>1, <3>1
    <3>3. PICK o \in Int, l \in Nat : o = off[i] /\ l = Len(ms[i].bytes)
      BY <1>4, <1>5, <2>1, <3>1
    <3>4. j \in 1..l
      BY <3>2, <3>3
    <3>5. o + l <= r
      BY <1>4, <2>1, <3>1, <3>3
    <3>6. o + j >= 1
      BY <1>9, <3>2, <3>3
    <3>7. o + j \in 1..(r + b) /\ o + j <= r
      <4>1. o \in Int /\ l \in Int /\ r \in Int /\ b \in Int /\ b >= 0 /\ j \in Int /\ j <= l
        BY <1>1, <3>3, <3>4
      <4>2. o + j <= r
        BY <3>5, <4>1
      <4>3. o + j <= r + b /\ o + j \in Int
        BY <4>1, <4>2
      <4>. QED
        BY <3>6, <4>1, <4>2, <4>3
    <3>8. now[o + j] = rest[o + j]
      BY <1>3, <3>7
    <3>9. rest[o + j] = ms[i].bytes[j]
      BY <1>4, <2>1, <3>3, <3>4, <3>6
    <3>. QED
      BY <3>2, <3>3, <3>8, <3>9
  <2>2. CASE i = n + 1
    <3>1. all[i] = m /\ new[i] = r /\ j \in 1..b
      <4>1. n + 1 \in 1..(n + 1)
        BY <1>1
      <4>. QED
        BY <1>2, <1>4, <1>6, <2>2, <4>1 DEF b
    <3>2. r + j \in 1..(r + b) /\ ~(r + j <= r) /\ (r + j) - r = j
      BY <1>1, <3>1
    <3>. QED
      BY <1>3, <3>1, <3>2
  <2>. QED
    BY <1>1, <1>2, <2>1, <2>2
<1>10. new \in [1..(Len(all) + 1) -> Int]
  <2>1. Len(all) + 1 = n + 2
    BY <1>1, <1>2
  <2>. QED
    BY <1>6, <2>1
<1>11. Layout(new, all, now)
  BY <1>7, <1>8, <1>9, <1>10 DEF Layout
<1>. QED
  BY <1>6, <1>10, <1>11 DEF all, now, n

LEMMA PhaseExtended ==
  ASSUME Legible, NEW ms \in Seq(Sent), NEW rest \in Seq(Byte), NEW k \in 0..Len(ms), NEW u,
         Phase(u, ms, k, rest), NEW m \in Sent
  PROVE  Phase(u, Append(ms, m), k, rest \o m.bytes)
<1>1. /\ Len(ms) \in Nat /\ Len(Append(ms, m)) = Len(ms) + 1
      /\ \A i \in 1..Len(ms) : Append(ms, m)[i] = ms[i]
  BY AppendProperties
<1>2. CASE u # None /\ Stuck(u)
  BY <1>2 DEF Phase
<1>3. CASE ~(u # None /\ Stuck(u))
  <2>1. PICK off \in [1..(Len(ms) + 1) -> Int] :
          /\ Layout(off, ms, rest)
          /\ \/ u \in {None, NewProtocol} /\ Behind(off, ms, k)
             \/ /\ u # None /\ k < Len(ms)
                /\ Begun(u, ms[k + 1]) /\ off[k + 1] + Total(ms[k + 1]) = 0
    BY <1>3 DEF Phase
  <2>2. PICK new : new = [i \in 1..(Len(ms) + 2) |->
                            IF i <= Len(ms) + 1 THEN off[i] ELSE Len(rest) + Len(m.bytes)]
    OBVIOUS
  <2>3. /\ new \in [1..(Len(Append(ms, m)) + 1) -> Int]
        /\ \A i \in 1..(Len(ms) + 1) : new[i] = off[i]
        /\ Layout(new, Append(ms, m), rest \o m.bytes)
    BY <2>1, <2>2, LayoutExtended
  <2>4. ASSUME u \in {None, NewProtocol}, Behind(off, ms, k)
        PROVE  Behind(new, Append(ms, m), k)
    BY <1>1, <2>3, <2>4 DEF Behind
  <2>5. ASSUME u # None, k < Len(ms), Begun(u, ms[k + 1]), off[k + 1] + Total(ms[k + 1]) = 0
        PROVE  /\ k < Len(Append(ms, m)) /\ Begun(u, Append(ms, m)[k + 1])
               /\ new[k + 1] + Total(Append(ms, m)[k + 1]) = 0
    BY <1>1, <2>3, <2>5
  <2>. QED
    BY <2>1, <2>3, <2>4, <2>5 DEF Phase
<1>. QED
  BY <1>2, <1>3

(* The next bytes are handed to create with those that waited, and what is *)
(* erased is the front of all that is under way.                           *)
LEMMA CutAndErase ==
  ASSUME NEW data \in Seq(Byte), NEW w \in Seq(Byte), NEW n \in 0..Len(w),
         NEW size \in 0..(Len(data) + n)
  PROVE  LET view == data \o SubSeq(w, 1, n)
             rest == data \o w
         IN  /\ view \in Seq(Byte) /\ Len(view) = Len(data) + n /\ Begins(view, rest)
             /\ SubSeq(view, size + 1, Len(view)) \o SubSeq(w, n + 1, Len(w))
                  = SubSeq(rest, size + 1, Len(rest))
<1>. DEFINE first == SubSeq(w, 1, n)
            last  == SubSeq(w, n + 1, Len(w))
            view  == data \o first
            rest  == data \o w
            d     == Len(data)
            l     == Len(w)
            kept  == SubSeq(view, size + 1, Len(view))
            left  == SubSeq(rest, size + 1, Len(rest))
<1>1. d \in Nat /\ l \in Nat /\ n \in Nat /\ n <= l /\ size \in Nat /\ size <= d + n
  OBVIOUS
<1>2. /\ first \in Seq(Byte) /\ Len(first) = n
      /\ \A i \in 1..n : first[i] = w[i]
  BY <1>1, SubSeqProperties
<1>3. /\ last \in Seq(Byte) /\ Len(last) = l - n
      /\ \A i \in 1..(l - n) : last[i] = w[n + i]
  BY <1>1, SubSeqProperties
<1>. HIDE DEF first, last
<1>4. /\ view \in Seq(Byte) /\ Len(view) = d + n
      /\ \A i \in 1..(d + n) : view[i] = IF i <= d THEN data[i] ELSE first[i - d]
  BY <1>2, ConcatProperties
<1>5. /\ rest \in Seq(Byte) /\ Len(rest) = d + l
      /\ \A i \in 1..(d + l) : rest[i] = IF i <= d THEN data[i] ELSE w[i - d]
  BY ConcatProperties
<1>. HIDE DEF view, rest
<1>6. /\ kept \in Seq(Byte) /\ Len(kept) = d + n - size
      /\ \A i \in 1..(d + n - size) : kept[i] = view[size + i]
  <2>. HIDE DEF d, l
  <2>1. size + 1 \in Int /\ Len(view) \in Int /\ \A i \in (size + 1)..Len(view) : view[i] \in Byte
    BY <1>1, <1>4
  <2>2. /\ SubSeq(view, size + 1, Len(view)) \in Seq(Byte)
        /\ Len(SubSeq(view, size + 1, Len(view)))
             = IF size + 1 <= Len(view) THEN Len(view) - (size + 1) + 1 ELSE 0
        /\ \A i \in 1..(Len(view) - (size + 1) + 1) :
             SubSeq(view, size + 1, Len(view))[i] = view[size + 1 + i - 1]
    BY <2>1, SubSeqProperties
  <2>. QED
    BY <1>1, <1>4, <2>2
<1>7. /\ left \in Seq(Byte) /\ Len(left) = d + l - size
      /\ \A i \in 1..(d + l - size) : left[i] = rest[size + i]
  <2>. HIDE DEF d, l
  <2>1. size + 1 \in Int /\ Len(rest) \in Int /\ \A i \in (size + 1)..Len(rest) : rest[i] \in Byte
    BY <1>1, <1>5
  <2>2. /\ SubSeq(rest, size + 1, Len(rest)) \in Seq(Byte)
        /\ Len(SubSeq(rest, size + 1, Len(rest)))
             = IF size + 1 <= Len(rest) THEN Len(rest) - (size + 1) + 1 ELSE 0
        /\ \A i \in 1..(Len(rest) - (size + 1) + 1) :
             SubSeq(rest, size + 1, Len(rest))[i] = rest[size + 1 + i - 1]
    BY <2>1, SubSeqProperties
  <2>. QED
    BY <1>1, <1>5, <2>2
<1>. HIDE DEF kept, left, d, l
<1>8. \A i \in 1..Len(view) : view[i] = rest[i]
  <2>. SUFFICES ASSUME NEW i \in 1..Len(view) PROVE view[i] = rest[i]
    OBVIOUS
  <2>1. i \in 1..(d + n) /\ i \in 1..(d + l)
    BY <1>1, <1>4
  <2>2. CASE i <= d
    BY <1>4, <1>5, <2>1, <2>2
  <2>3. CASE ~(i <= d)
    <3>1. i - d \in 1..n
      BY <1>1, <2>1, <2>3
    <3>2. first[i - d] = w[i - d]
      BY <1>2, <3>1
    <3>. QED
      BY <1>4, <1>5, <2>1, <2>3, <3>2
  <2>. QED
    BY <2>2, <2>3
<1>9. kept \o last = left
  <2>1. /\ kept \o last \in Seq(Byte) /\ Len(kept \o last) = Len(kept) + Len(last)
        /\ \A i \in 1..(Len(kept) + Len(last)) :
             (kept \o last)[i] = IF i <= Len(kept) THEN kept[i] ELSE last[i - Len(kept)]
    BY <1>3, <1>6, ConcatProperties
  <2>2. Len(kept \o last) = Len(left)
    BY <1>1, <1>3, <1>6, <1>7, <2>1
  <2>3. ASSUME NEW i \in 1..Len(left) PROVE (kept \o last)[i] = left[i]
    <3>1. i \in 1..(d + l - size) /\ i \in 1..(Len(kept) + Len(last)) /\ left[i] = rest[size + i]
      BY <1>1, <1>3, <1>6, <1>7
    <3>2. CASE i <= Len(kept)
      <4>1. i \in 1..(d + n - size) /\ size + i \in 1..Len(view)
        BY <1>1, <1>4, <1>6, <3>1, <3>2
      <4>. QED
        BY <1>6, <1>8, <2>1, <3>1, <3>2, <4>1
    <3>3. CASE ~(i <= Len(kept))
      <4>1. /\ i - Len(kept) \in 1..(l - n) /\ n + (i - Len(kept)) = (size + i) - d
            /\ size + i \in 1..(d + l) /\ ~(size + i <= d)
        BY <1>1, <1>3, <1>6, <3>1, <3>3
      <4>2. last[i - Len(kept)] = w[(size + i) - d]
        BY <1>3, <4>1
      <4>3. rest[size + i] = w[(size + i) - d]
        BY <1>5, <4>1
      <4>. QED
        BY <2>1, <3>1, <3>3, <4>2, <4>3
    <3>. QED
      BY <3>2, <3>3
  <2>4. \A i \in 1..Len(kept \o last) : (kept \o last)[i] = left[i]
    BY <2>2, <2>3
  <2>. QED
    BY <1>7, <2>1, <2>2, <2>4, SeqEqual
<1>10. Len(view) <= Len(rest)
  BY <1>1, <1>4, <1>5
<1>. QED
  BY <1>4, <1>8, <1>9, <1>10 DEF Begins, first, last, view, rest, kept, left, d

-----------------------------------------------------------------------------
(* The actions.                                                            *)
LEMMA InitStream == Init => StreamInv
BY DEF Init, StreamInv, Closed

LEMMA ConnectStream ==
  ASSUME Legible, IInv, PaceInv, StreamInv, NEW fd \in FDs, Connect(fd)
  PROVE  StreamInv'
<1>1. TypeOK /\ ~chan[fd].open /\ conns[fd] = 0
  <2>1. conns[fd] \in Nat /\ conns[fd] < MaxConns /\ MaxConns \in Nat /\ MaxConns <= 1
    BY MessagesAssumption DEF IInv, TypeOK, Connect, Legible
  <2>. QED
    BY <2>1 DEF IInv, Connect
<1>2. /\ undoProtols[fd] = None /\ sent[fd] = <<>> /\ handled[fd] = <<>>
      /\ wire[fd] = <<>> /\ chan[fd].data = <<>>
  BY <1>1 DEF PaceInv, StreamInv
<1>3. /\ undoProtols' = undoProtols /\ handled' = handled /\ sent' = sent /\ wire' = wire
      /\ chan'[fd].open /\ chan'[fd].data = chan[fd].data
      /\ \A f \in FDs : f # fd => chan'[f] = chan[f]
  BY <1>1 DEF Connect, TypeOK
<1>4. Phase(None, <<>>, 0, <<>>)
  <2>1. PICK off : off = [i \in 1..1 |-> 0]
    OBVIOUS
  <2>2. Len(<<>>) = 0 /\ off \in [1..(Len(<<>>) + 1) -> Int] /\ off[1] = 0
    BY <2>1
  <2>3. Layout(off, <<>>, <<>>) /\ Behind(off, <<>>, 0)
    BY <2>2 DEF Layout, Behind
  <2>. QED
    BY <2>2, <2>3 DEF Phase
<1>5. chan'[fd].data \o wire'[fd] = <<>>
  BY <1>2, <1>3
<1>6. Received(fd)'
  BY <1>2, <1>3, <1>4, <1>5 DEF Received
<1>7. ASSUME NEW f \in FDs, f # fd, chan'[f].open PROVE Received(f)'
  BY <1>3, <1>7 DEF StreamInv, Received
<1>. QED
  BY <1>3, <1>6, <1>7 DEF StreamInv

LEMMA CloseStream ==
  ASSUME IInv, PaceInv, StreamInv, NEW fd \in FDs, Close(fd)
  PROVE  StreamInv'
<1>1. TypeOK
  BY DEF IInv
<1>2. /\ chan'[fd] = Closed /\ ~Closed.open /\ Closed.data = <<>>
      /\ wire'[fd] = <<>> /\ sent'[fd] = <<>> /\ undoProtols' = undoProtols
  BY <1>1 DEF Close, Closed, TypeOK, StreamInv
<1>3. ASSUME NEW f \in FDs, f # fd
      PROVE  /\ chan'[f] = chan[f] /\ wire'[f] = wire[f] /\ sent'[f] = sent[f]
             /\ handled'[f] = handled[f]
  BY <1>1, <1>3 DEF Close, TypeOK, StreamInv, PaceInv
<1>4. sent' \in [FDs -> Seq(Sent)]
  <2>. DEFINE Msgs == Seq(Sent)
  <2>1. sent \in [FDs -> Msgs]
    BY DEF StreamInv
  <2>2. <<>> \in Msgs
    OBVIOUS
  <2>. HIDE DEF Msgs
  <2>3. sent' \in [FDs -> Msgs]
    BY <2>1, <2>2 DEF Close
  <2>. QED
    BY <2>3 DEF Msgs
<1>5. ASSUME NEW f \in FDs
      PROVE  /\ chan'[f].open => Received(f)'
             /\ ~chan'[f].open => sent'[f] = <<>> /\ wire'[f] = <<>> /\ chan'[f].data = <<>>
  <2>1. CASE f = fd
    BY <1>2, <2>1
  <2>2. CASE f # fd
    BY <1>2, <1>3, <2>2 DEF StreamInv, Received
  <2>. QED
    BY <2>1, <2>2
<1>. QED
  BY <1>4, <1>5 DEF StreamInv

LEMMA SendStream ==
  ASSUME Legible, IInv, PaceInv, StreamInv, NEW fd \in FDs, NEW m \in Sent, Send(fd, m)
  PROVE  StreamInv'
<1>1. /\ TypeOK /\ chan[fd].open /\ Received(fd)
      /\ sent[fd] \in Seq(Sent) /\ wire[fd] \in Seq(Byte) /\ chan[fd].data \in Seq(Byte)
      /\ m.bytes \in Seq(Byte) /\ Len(handled[fd]) \in Nat
  <2>1. TypeOK /\ chan[fd].open /\ Received(fd)
    BY DEF IInv, Send, StreamInv
  <2>2. sent[fd] \in Seq(Sent)
    BY DEF StreamInv
  <2>3. wire[fd] \in Seq(Byte) /\ chan[fd].data \in Seq(Byte)
    BY <2>1 DEF TypeOK
  <2>4. Len(handled[fd]) \in Nat
    BY DEF PaceInv
  <2>. QED
    BY <2>1, <2>2, <2>3, <2>4, MessagesAssumption
<1>2. /\ chan' = chan /\ undoProtols' = undoProtols /\ handled' = handled
      /\ wire'[fd] = wire[fd] \o m.bytes /\ sent'[fd] = Append(sent[fd], m)
      /\ \A f \in FDs : f # fd => wire'[f] = wire[f] /\ sent'[f] = sent[f]
  BY <1>1 DEF Send, TypeOK, StreamInv
<1>3. sent' \in [FDs -> Seq(Sent)]
  <2>. DEFINE Msgs == Seq(Sent)
  <2>1. sent \in [FDs -> Msgs]
    BY DEF StreamInv
  <2>2. Append(sent[fd], m) \in Msgs
    BY <1>1, AppendProperties
  <2>. HIDE DEF Msgs
  <2>3. sent' \in [FDs -> Msgs]
    BY <2>1, <2>2 DEF Send
  <2>. QED
    BY <2>3 DEF Msgs
<1>4. Received(fd)'
  <2>. DEFINE ms   == sent[fd]
              rest == chan[fd].data \o wire[fd]
              k    == Len(handled[fd])
  <2>1. /\ k \in 0..Len(ms) /\ Len(ms) \in Nat /\ Phase(undoProtols[fd], ms, k, rest)
        /\ \A i \in 1..k : Matches(handled[fd][i], ms[i])
    BY <1>1 DEF Received
  <2>2. rest \in Seq(Byte)
    BY <1>1
  <2>3. Phase(undoProtols[fd], Append(ms, m), k, rest \o m.bytes)
    <3>. HIDE DEF rest, k
    <3>. QED
      BY <1>1, <2>1, <2>2, PhaseExtended
  <2>4. chan[fd].data \o (wire[fd] \o m.bytes) = rest \o m.bytes
    <3>. DEFINE d == chan[fd].data
                w == wire[fd]
                b == m.bytes
    <3>1. d \in Seq(Byte) /\ w \in Seq(Byte) /\ b \in Seq(Byte)
      BY <1>1
    <3>. HIDE DEF d, w, b
    <3>2. (d \o w) \o b = d \o (w \o b)
      BY <3>1, ConcatAssociative
    <3>. QED
      BY <3>2 DEF d, w, b
  <2>5. /\ Len(Append(ms, m)) = Len(ms) + 1
        /\ \A i \in 1..Len(ms) : Append(ms, m)[i] = ms[i]
    BY <1>1, AppendProperties
  <2>6. \A i \in 1..k : Matches(handled[fd][i], Append(ms, m)[i])
    BY <2>1, <2>5
  <2>. QED
    BY <1>2, <2>1, <2>3, <2>4, <2>5, <2>6 DEF Received
<1>5. ASSUME NEW f \in FDs
      PROVE  /\ chan'[f].open => Received(f)'
             /\ ~chan'[f].open => sent'[f] = <<>> /\ wire'[f] = <<>> /\ chan'[f].data = <<>>
  <2>1. CASE f = fd
    BY <1>1, <1>2, <1>4, <2>1
  <2>2. CASE f # fd
    BY <1>2, <2>2 DEF StreamInv, Received
  <2>. QED
    BY <2>1, <2>2
<1>. QED
  BY <1>3, <1>5 DEF StreamInv

LEMMA ReadStream ==
  ASSUME Legible, IInv, PaceInv, StreamInv, NEW fd \in FDs, Read(fd)
  PROVE  StreamInv'
<1>1. PICK n \in (IF Cut THEN 1 ELSE Most(fd))..Most(fd), beyond \in Stale :
        /\ n > 0
        /\ handleMessage(fd, Already(chan[fd].buf, n), chan[fd].data \o SubSeq(wire[fd], 1, n), beyond)
        /\ wire' = [wire EXCEPT ![fd] = SubSeq(@, n + 1, Len(@))]
  BY DEF Read
<1>. DEFINE data == chan[fd].data
            w    == wire[fd]
            view == data \o SubSeq(w, 1, n)
            rest == data \o w
            ms   == sent[fd]
            k    == Len(handled[fd])
            u    == undoProtols[fd]
            done == create(Current(fd), view, beyond)
            size == IF done.ret < 0 THEN 0 ELSE done.ret
<1>2. /\ TypeOK /\ chan[fd].open /\ Received(fd)
      /\ ms \in Seq(Sent) /\ w \in Seq(Byte) /\ data \in Seq(Byte) /\ u \in Partial \cup {None}
      /\ k \in Nat
  BY DEF IInv, TypeOK, Read, StreamInv, PaceInv
<1>3. n \in 0..Len(w) /\ n \in Nat /\ Len(data) + n < BufSize
  <2>1. Most(fd) \in Nat /\ Most(fd) <= Len(w) /\ chan[fd].buf.w + Most(fd) < BufSize
    BY MostFits
  <2>2. n \in Nat /\ n <= Most(fd)
    BY <1>1, <2>1
  <2>3. /\ chan[fd].buf.r \in Nat /\ chan[fd].buf.w \in Nat
        /\ Len(data) = chan[fd].buf.w - chan[fd].buf.r
    BY <1>2 DEF IInv, TypeOK, DataIsReadable, InOrder
  <2>4. Len(w) \in Nat /\ BufSize \in Nat
    BY <1>2, MessagesAssumption
  <2>. DEFINE l == Len(data)
              b == chan[fd].buf.w
              f == chan[fd].buf.r
              o == Most(fd)
              z == Len(w)
  <2>5. o \in Nat /\ o <= z /\ b + o < BufSize /\ f \in Nat /\ b \in Nat /\ l = b - f
        /\ z \in Nat /\ n <= o
    BY <2>1, <2>2, <2>3, <2>4
  <2>. HIDE DEF l, b, f, o, z
  <2>6. n \in 0..z /\ l + n < BufSize
    BY <2>2, <2>4, <2>5
  <2>. QED
    BY <2>2, <2>6 DEF l, z
<1>4. view \in Seq(Byte) /\ Len(view) = Len(data) + n /\ Begins(view, rest)
  <2>1. 0 \in 0..(Len(data) + n)
    BY <1>2, <1>3
  <2>. HIDE DEF data, w
  <2>. QED
    BY <1>2, <1>3, <2>1, CutAndErase
<1>5. rest \in Seq(Byte)
  BY <1>2
<1>6. done.p \in Partial /\ done.ret \in Int /\ done.ret <= Len(view)
  <2>1. Current(fd) \in Partial /\ beyond \in Byte
    BY <1>2, NewIsPartial, MessagesAssumption DEF Current
  <2>. HIDE DEF view
  <2>. QED
    BY <1>4, <2>1, CreateStep
<1>7. /\ undoProtols' = [undoProtols EXCEPT ![fd] = Undo(done.p)]
      /\ chan'[fd].open /\ chan'[fd].data = SubSeq(view, size + 1, Len(view))
      /\ \A f \in FDs : f # fd => chan'[f] = chan[f]
      /\ IF done.p.state = "READY" THEN handled' = [handled EXCEPT ![fd] = Append(@, Message(done.p))]
                                   ELSE handled' = handled
  <2>. DEFINE c == <<EraseData(Already(chan[fd].buf, n), size), SubSeq(view, size + 1, Len(view))>>
  <2>1. chan' = [chan EXCEPT ![fd] = [chan[fd] EXCEPT !.buf = c[1], !.data = c[2]]]
    BY <1>1 DEF handleMessage
  <2>2. c[2] = SubSeq(view, size + 1, Len(view))
    OBVIOUS
  <2>3. chan'[fd].open /\ chan'[fd].data = c[2] /\ \A f \in FDs : f # fd => chan'[f] = chan[f]
    <3>. HIDE DEF c
    <3>1. chan \in [FDs -> [open : BOOLEAN, buf : [cap : Nat, r : Nat, w : Nat], data : Seq(Byte)]]
      BY <1>2 DEF TypeOK
    <3>. QED
      BY <1>2, <2>1, <3>1
  <2>4. /\ undoProtols' = [undoProtols EXCEPT ![fd] = Undo(done.p)]
        /\ IF done.p.state = "READY" THEN handled' = [handled EXCEPT ![fd] = Append(@, Message(done.p))]
                                     ELSE handled' = handled
    BY <1>1 DEF handleMessage
  <2>. QED
    BY <2>2, <2>3, <2>4
<1>8. wire' = [wire EXCEPT ![fd] = SubSeq(w, n + 1, Len(w))] /\ sent' = sent
  BY <1>1 DEF Read
<1>9. /\ k \in 0..Len(ms) /\ Phase(u, ms, k, rest)
      /\ \A i \in 1..k : Matches(handled[fd][i], ms[i])
  BY <1>2 DEF Received
<1>. DEFINE left == SubSeq(rest, size + 1, Len(rest))
<1>10. \/ /\ done.p.state = "READY" /\ k < Len(ms) /\ Matches(Message(done.p), ms[k + 1])
          /\ Phase(None, ms, k + 1, left)
       \/ done.p.state # "READY" /\ Phase(done.p, ms, k, left)
  <2>1. done = create(IF u = None THEN NewProtocol ELSE u, view, beyond)
    BY DEF Current
  <2>2. Len(view) < BufSize
    BY <1>3, <1>4
  <2>. DEFINE d == done
              z == size
  <2>3. d = create(IF u = None THEN NewProtocol ELSE u, view, beyond) /\ z = IF d.ret < 0 THEN 0 ELSE d.ret
    BY <2>1
  <2>. HIDE DEF d, z, view, rest, ms, k, u
  <2>4. \/ /\ d.p.state = "READY" /\ k < Len(ms) /\ Matches(Message(d.p), ms[k + 1])
           /\ Phase(None, ms, k + 1, SubSeq(rest, z + 1, Len(rest)))
        \/ d.p.state # "READY" /\ Phase(d.p, ms, k, SubSeq(rest, z + 1, Len(rest)))
    BY <1>2, <1>4, <1>5, <1>9, <2>2, <2>3, CreateFollows
  <2>. QED
    BY <2>4 DEF d, z
<1>11. chan'[fd].data \o wire'[fd] = left
  <2>1. size \in 0..(Len(data) + n)
    <3>1. Len(view) \in Nat
      <4>1. view \in Seq(Byte)
        BY <1>4
      <4>. HIDE DEF view
      <4>. QED
        BY <4>1
    <3>. HIDE DEF done, view
    <3>. QED
      BY <1>4, <1>6, <3>1
  <2>2. SubSeq(view, size + 1, Len(view)) \o SubSeq(w, n + 1, Len(w)) = left
    <3>. HIDE DEF size, data, w
    <3>. QED
      BY <1>2, <1>3, <2>1, CutAndErase
  <2>3. wire'[fd] = SubSeq(w, n + 1, Len(w))
    BY <1>2, <1>8 DEF TypeOK
  <2>. QED
    BY <1>7, <2>2, <2>3
<1>. HIDE DEF left, done, size, view, rest
<1>12. /\ undoProtols'[fd] = Undo(done.p)
       /\ \A f \in FDs : f # fd => undoProtols'[f] = undoProtols[f] /\ wire'[f] = wire[f]
  BY <1>2, <1>7, <1>8 DEF TypeOK
<1>13. Received(fd)'
  <2>1. CASE done.p.state = "READY"
    <3>1. /\ k < Len(ms) /\ Matches(Message(done.p), ms[k + 1]) /\ Phase(None, ms, k + 1, left)
      BY <1>10, <2>1
    <3>2. undoProtols'[fd] = None
      BY <1>12, <2>1 DEF Undo
    <3>3. /\ Len(handled'[fd]) = k + 1
          /\ \A i \in 1..k : handled'[fd][i] = handled[fd][i]
          /\ handled'[fd][k + 1] = Message(done.p)
      <4>1. Message(done.p) \in [type : Seq(Byte), id : Seq(Byte), content : Seq(Byte)]
        BY <1>6, MessageHasType
      <4>2. /\ handled[fd] \in Seq([type : Seq(Byte), id : Seq(Byte), content : Seq(Byte)])
            /\ handled'[fd] = Append(handled[fd], Message(done.p))
        BY <1>7, <2>1 DEF PaceInv
      <4>. QED
        BY <4>1, <4>2, AppendProperties
    <3>4. Len(handled'[fd]) <= Len(ms)
      BY <1>2, <3>1, <3>3
    <3>5. \A i \in 1..(k + 1) : Matches(handled'[fd][i], ms[i])
      <4>. HIDE DEF k, ms
      <4>1. \A i \in 1..(k + 1) : i \in 1..k \/ i = k + 1
        BY <1>2
      <4>. QED
        BY <1>9, <3>1, <3>3, <4>1 DEF k
    <3>. QED
      BY <1>8, <1>11, <3>1, <3>2, <3>3, <3>4, <3>5 DEF Received
  <2>2. CASE done.p.state # "READY"
    <3>1. undoProtols'[fd] = done.p /\ handled' = handled
      BY <1>7, <1>12, <2>2 DEF Undo
    <3>2. Phase(done.p, ms, k, left)
      BY <1>10, <2>2
    <3>. QED
      BY <1>2, <1>8, <1>11, <3>1, <3>2 DEF Received
  <2>. QED
    BY <2>1, <2>2
<1>14. ASSUME NEW f \in FDs, f # fd PROVE handled'[f] = handled[f]
  BY <1>7, <1>14 DEF PaceInv
<1>15. ASSUME NEW f \in FDs
       PROVE  /\ chan'[f].open => Received(f)'
              /\ ~chan'[f].open => sent'[f] = <<>> /\ wire'[f] = <<>> /\ chan'[f].data = <<>>
  <2>1. CASE f = fd
    BY <1>7, <1>13, <2>1
  <2>2. CASE f # fd
    BY <1>7, <1>8, <1>12, <1>14, <2>2 DEF StreamInv, Received
  <2>. QED
    BY <2>1, <2>2
<1>. QED
  BY <1>8, <1>15 DEF StreamInv

LEMMA NextStream == Legible /\ IInv /\ PaceInv /\ StreamInv /\ [Next]_vars => StreamInv'
<1>. SUFFICES ASSUME Legible, IInv, PaceInv, StreamInv, [Next]_vars PROVE StreamInv'
  OBVIOUS
<1>1. ASSUME NEW fd \in FDs, Connect(fd) PROVE StreamInv'
  BY <1>1, ConnectStream
<1>2. ASSUME NEW fd \in FDs, Close(fd) \/ ReadFull(fd) PROVE StreamInv'
  BY <1>2, CloseStream DEF ReadFull
<1>3. ASSUME NEW fd \in FDs, NEW m \in Sent, Send(fd, m) PROVE StreamInv'
  BY <1>3, SendStream
<1>4. ASSUME NEW fd \in FDs, Read(fd) PROVE StreamInv'
  BY <1>4, ReadStream
<1>5. CASE UNCHANGED vars
  BY <1>5 DEF vars, history, StreamInv, Received
<1>. QED
  BY <1>1, <1>2, <1>3, <1>4, <1>5 DEF Next

LEMMA StreamInvariance == Legible => (Spec => []StreamInv)
<1>. SUFFICES ASSUME Legible PROVE Spec => []StreamInv
  OBVIOUS
<1>1. IInv /\ PaceInv /\ StreamInv /\ [Next]_vars => StreamInv'
  BY NextStream
<1>. QED
  BY <1>1, InitStream, PaceInvariance, PTL DEF Spec

(* What peers sent is what is dispatched: in order, once, with its type    *)
(* and, without an extension, its content (protocol.cpp:40, rpc_registry   *)
(* .cpp:47), for messages of any length, however they are cut into reads   *)
(* and whatever the buffer keeps of them.                                  *)
THEOREM HandledAsSent == Legible => (Spec => []HandledInOrder)
<1>1. PaceInv /\ StreamInv => HandledInOrder
  <2>. SUFFICES ASSUME PaceInv, StreamInv, NEW fd \in FDs
                PROVE  /\ Len(handled[fd]) <= Len(sent[fd])
                       /\ \A i \in DOMAIN handled[fd] :
                            /\ handled[fd][i].type = <<sent[fd][i].type, 0>>
                            /\ Plain(sent[fd][i]) => handled[fd][i].content = sent[fd][i].content
    BY DEF HandledInOrder
  <2>1. DOMAIN handled[fd] = 1..Len(handled[fd])
    BY DEF PaceInv
  <2>2. CASE chan[fd].open
    BY <2>1, <2>2 DEF StreamInv, Received, Matches
  <2>3. CASE ~chan[fd].open
    <3>1. handled[fd] = <<>> /\ sent[fd] = <<>>
      BY <2>3 DEF StreamInv, PaceInv
    <3>. QED
      BY <3>1
  <2>. QED
    BY <2>2, <2>3
<1>. QED
  BY <1>1, PaceInvariance, StreamInvariance, PTL

-----------------------------------------------------------------------------
(***************************************************************************)
(* Registrations.  Each entry of providers_ for a descriptor was made by a *)
(* message that was dispatched on its first connection.                    *)
(***************************************************************************)
Entries(fd)    == {k \in DOMAIN providers : providers[k].channel = fd}
Registered(fd) == {i \in DOMAIN handled[fd] : handled[fd][i].type = <<FRPC_PROVIDER, 0>>}

EntriesInv ==
  \A fd \in FDs :
    /\ conns[fd] = 0 => Entries(fd) = {}
    /\ chan[fd].open => Cardinality(Entries(fd)) <= Cardinality(Registered(fd))

LEMMA FiniteParts ==
  ASSUME IInv, PaceInv, NEW fd \in FDs
  PROVE  /\ DOMAIN providers = 1..Len(providers) /\ Len(providers) \in Nat
         /\ DOMAIN handled[fd] = 1..Len(handled[fd]) /\ Len(handled[fd]) \in Nat
         /\ IsFiniteSet(Entries(fd)) /\ IsFiniteSet(Registered(fd))
         /\ Cardinality(Entries(fd)) \in Nat /\ Cardinality(Registered(fd)) \in Nat
<1>1. /\ DOMAIN providers = 1..Len(providers) /\ Len(providers) \in Nat
      /\ DOMAIN handled[fd] = 1..Len(handled[fd]) /\ Len(handled[fd]) \in Nat
  BY DEF IInv, TypeOK, PaceInv
<1>2. IsFiniteSet(DOMAIN providers) /\ IsFiniteSet(DOMAIN handled[fd])
  BY <1>1, FS_Interval
<1>3. Entries(fd) \in SUBSET (DOMAIN providers) /\ Registered(fd) \in SUBSET (DOMAIN handled[fd])
  BY DEF Entries, Registered
<1>4. IsFiniteSet(Entries(fd)) /\ IsFiniteSet(Registered(fd))
  BY <1>2, <1>3, FS_Subset, Zenon
<1>. QED
  BY <1>1, <1>4, FS_CardinalityType

LEMMA InitEntries == Init => EntriesInv
BY DEF Init, EntriesInv, Entries, Closed

LEMMA ReadEntries ==
  ASSUME IInv, PaceInv, EntriesInv, IInv', PaceInv', NEW fd \in FDs, Read(fd)
  PROVE  EntriesInv'
<1>1. PICK n \in (IF Cut THEN 1 ELSE Most(fd))..Most(fd), beyond \in Stale :
        handleMessage(fd, Already(chan[fd].buf, n), chan[fd].data \o SubSeq(wire[fd], 1, n), beyond)
  BY DEF Read
<1>2. PICK p :
        IF p.state = "READY"
          THEN /\ handled' = [handled EXCEPT ![fd] = Append(@, Message(p))]
               /\ providers' = IF Registers(p)
                                 THEN Append(providers, [id |-> Len(providers), channel |-> fd])
                                 ELSE providers
          ELSE UNCHANGED <<handled, providers>>
  BY <1>1 DEF handleMessage
<1>3. /\ chan[fd].open /\ conns' = conns
      /\ \A f \in FDs : f # fd => chan'[f] = chan[f]
  BY <1>1 DEF Read, handleMessage, IInv, TypeOK
<1>4. conns[fd] >= 1
  BY <1>3 DEF PaceInv
<1>5. CASE p.state # "READY"
  <2>1. handled' = handled /\ providers' = providers
    BY <1>2, <1>5
  <2>. QED
    BY <1>3, <1>4, <2>1 DEF EntriesInv, Entries, Registered
<1>6. CASE p.state = "READY"
  <2>. DEFINE e == [id |-> Len(providers), channel |-> fd]
              h == handled[fd]
  <2>1. /\ \A f \in FDs : f # fd => handled'[f] = handled[f]
        /\ handled'[fd] = Append(h, Message(p))
        /\ h \in Seq([type : Seq(Byte), id : Seq(Byte), content : Seq(Byte)])
    BY <1>2, <1>6 DEF PaceInv
  <2>2. /\ DOMAIN h = 1..Len(h) /\ Len(h) \in Nat
        /\ DOMAIN handled'[fd] = 1..(Len(h) + 1)
        /\ \A i \in 1..Len(h) : handled'[fd][i] = h[i]
        /\ handled'[fd][Len(h) + 1] = Message(p)
    <3>1. Len(Append(h, Message(p))) = Len(h) + 1 /\ DOMAIN Append(h, Message(p)) = 1..(Len(h) + 1)
      BY <2>1
    <3>2. Append(h, Message(p))[Len(h) + 1] = Message(p)
      BY <2>1
    <3>3. \A i \in 1..Len(h) : Append(h, Message(p))[i] = h[i]
      BY <2>1
    <3>. QED
      BY <2>1, <3>1, <3>2, <3>3
  <2>3. Registered(fd) \in SUBSET Registered(fd)' /\ (Len(h) + 1) \notin Registered(fd)
    <3>1. \A i \in DOMAIN h : i \in DOMAIN handled'[fd] /\ handled'[fd][i] = h[i]
      BY <2>2
    <3>2. (Len(h) + 1) \notin DOMAIN h
      BY <2>2
    <3>. QED
      BY <3>1, <3>2 DEF Registered
  <2>4. /\ IsFiniteSet(Registered(fd)') /\ IsFiniteSet(Registered(fd))
        /\ Cardinality(Registered(fd)') \in Nat /\ Cardinality(Registered(fd)) \in Nat
        /\ IsFiniteSet(Entries(fd)) /\ Cardinality(Entries(fd)) \in Nat
    <3>1. IsFiniteSet(Registered(fd)') /\ Cardinality(Registered(fd)') \in Nat
      <4>1. DOMAIN handled'[fd] = 1..(Len(h) + 1) /\ Len(h) + 1 \in Nat
        BY <2>2
      <4>2. IsFiniteSet(DOMAIN handled'[fd])
        BY <4>1, FS_Interval
      <4>3. Registered(fd)' \in SUBSET (DOMAIN handled'[fd])
        BY DEF Registered
      <4>4. IsFiniteSet(Registered(fd)')
        BY <4>2, <4>3, FS_Subset, Zenon
      <4>. QED
        BY <4>4, FS_CardinalityType
    <3>. QED
      BY <3>1, FiniteParts
  <2>5. Cardinality(Registered(fd)) <= Cardinality(Registered(fd)')
    BY <2>3, <2>4, FS_Subset, Zenon
  <2>6. CASE ~Registers(p)
    <3>1. providers' = providers
      BY <1>2, <1>6, <2>6
    <3>2. Cardinality(Entries(fd)) <= Cardinality(Registered(fd)')
      BY <1>3, <2>4, <2>5 DEF EntriesInv
    <3>3. \A f \in FDs : Entries(f)' = Entries(f)
      BY <3>1 DEF Entries
    <3>4. \A f \in FDs : f # fd => Registered(f)' = Registered(f)
      BY <2>1 DEF Registered
    <3>. QED
      BY <1>3, <1>4, <3>2, <3>3, <3>4 DEF EntriesInv
  <2>7. CASE Registers(p)
    <3>1. providers' = Append(providers, e)
      BY <1>2, <1>6, <2>7
    <3>2. /\ DOMAIN providers = 1..Len(providers) /\ Len(providers) \in Nat
          /\ DOMAIN providers' = 1..(Len(providers) + 1)
          /\ \A i \in 1..Len(providers) : providers'[i] = providers[i]
          /\ providers'[Len(providers) + 1] = e
      <4>1. providers \in Seq([id : Nat, channel : FDs])
        BY DEF IInv, TypeOK
      <4>. HIDE DEF e
      <4>2. Len(Append(providers, e)) = Len(providers) + 1
            /\ DOMAIN Append(providers, e) = 1..(Len(providers) + 1)
        BY <4>1
      <4>3. Append(providers, e)[Len(providers) + 1] = e
        BY <4>1
      <4>4. \A i \in 1..Len(providers) : Append(providers, e)[i] = providers[i]
        BY <4>1
      <4>. QED
        BY <3>1, <4>1, <4>2, <4>3, <4>4
    <3>3. Entries(fd)' = Entries(fd) \cup {Len(providers) + 1} /\ (Len(providers) + 1) \notin Entries(fd)
      <4>1. DOMAIN providers' = DOMAIN providers \cup {Len(providers) + 1}
        BY <3>2
      <4>2. (Len(providers) + 1) \notin DOMAIN providers
        BY <3>2
      <4>3. e.channel = fd
        OBVIOUS
      <4>. HIDE DEF e
      <4>. QED
        BY <3>2, <4>1, <4>2, <4>3 DEF Entries
    <3>4. Registered(fd)' = Registered(fd) \cup {Len(h) + 1}
      <4>1. Message(p).type = <<FRPC_PROVIDER, 0>>
        BY <2>7 DEF Registers, Message
      <4>2. DOMAIN handled'[fd] = DOMAIN h \cup {Len(h) + 1}
        BY <2>2
      <4>. QED
        BY <2>2, <4>1, <4>2 DEF Registered
    <3>5. Cardinality(Entries(fd)') = Cardinality(Entries(fd)) + 1
      BY <2>4, <3>3, FS_AddElement
    <3>6. Cardinality(Registered(fd)') = Cardinality(Registered(fd)) + 1
      <4>1. Cardinality(Registered(fd) \cup {Len(h) + 1}) = Cardinality(Registered(fd)) + 1
        BY <2>3, <2>4, FS_AddElement
      <4>. QED
        BY <3>4, <4>1
    <3>7. Cardinality(Entries(fd)') <= Cardinality(Registered(fd)')
      BY <1>3, <2>4, <3>5, <3>6 DEF EntriesInv
    <3>8. ASSUME NEW f \in FDs, f # fd
          PROVE  Entries(f)' = Entries(f) /\ Registered(f)' = Registered(f)
      <4>1. DOMAIN providers' = DOMAIN providers \cup {Len(providers) + 1}
        BY <3>2
      <4>2. e.channel # f
        BY <3>8
      <4>. HIDE DEF e
      <4>3. Entries(f)' = Entries(f)
        BY <3>2, <4>1, <4>2 DEF Entries
      <4>. QED
        BY <2>1, <3>8, <4>3 DEF Registered
    <3>. QED
      BY <1>3, <1>4, <3>7, <3>8 DEF EntriesInv
  <2>. QED
    BY <2>6, <2>7
<1>. QED
  BY <1>5, <1>6

LEMMA NextEntries ==
  MaxConns <= 1 /\ IInv /\ PaceInv /\ EntriesInv /\ IInv' /\ PaceInv' /\ [Next]_vars => EntriesInv'
<1>. SUFFICES ASSUME MaxConns <= 1, IInv, PaceInv, EntriesInv, IInv', PaceInv', [Next]_vars
              PROVE  EntriesInv'
  OBVIOUS
<1>1. ASSUME NEW fd \in FDs, Connect(fd) PROVE EntriesInv'
  <2>1. /\ conns[fd] = 0 /\ conns'[fd] = 1
        /\ \A f \in FDs : f # fd => chan'[f] = chan[f] /\ conns'[f] = conns[f]
        /\ providers' = providers /\ handled' = handled
    <3>1. conns[fd] \in Nat /\ conns[fd] < MaxConns /\ MaxConns \in Nat
      BY <1>1, MessagesAssumption DEF IInv, TypeOK, Connect
    <3>2. conns[fd] = 0
      BY <3>1
    <3>. QED
      BY <1>1, <3>2 DEF IInv, TypeOK, Connect
  <2>2. \A f \in FDs : Entries(f)' = Entries(f) /\ Registered(f)' = Registered(f)
    BY <2>1 DEF Entries, Registered
  <2>3. Cardinality(Entries(fd)) = 0 /\ Cardinality(Registered(fd)) \in Nat
    <3>1. Entries(fd) = {}
      BY <2>1 DEF EntriesInv
    <3>. QED
      BY <1>1, <3>1, FS_EmptySet, FiniteParts
  <2>4. Cardinality(Entries(fd)) <= Cardinality(Registered(fd))
    BY <2>3
  <2>. QED
    BY <2>1, <2>2, <2>4 DEF EntriesInv
<1>2. ASSUME NEW fd \in FDs, Close(fd) \/ ReadFull(fd) PROVE EntriesInv'
  <2>1. Close(fd)
    BY <1>2 DEF ReadFull
  <2>2. /\ ~chan'[fd].open /\ conns' = conns /\ providers' = providers
        /\ \A f \in FDs : f # fd => chan'[f] = chan[f] /\ handled'[f] = handled[f]
    BY <2>1 DEF Close, Closed, IInv, TypeOK, PaceInv
  <2>3. ASSUME NEW f \in FDs
        PROVE  /\ conns'[f] = 0 => Entries(f)' = {}
               /\ chan'[f].open => Cardinality(Entries(f)') <= Cardinality(Registered(f)')
    <3>1. Entries(f)' = Entries(f)
      BY <2>2 DEF Entries
    <3>2. f # fd => Registered(f)' = Registered(f)
      BY <2>2 DEF Registered
    <3>. QED
      BY <2>2, <3>1, <3>2 DEF EntriesInv
  <2>. QED
    BY <2>3 DEF EntriesInv
<1>3. ASSUME NEW fd \in FDs, NEW m \in Sent, Send(fd, m) PROVE EntriesInv'
  BY <1>3 DEF Send, EntriesInv, Entries, Registered
<1>4. ASSUME NEW fd \in FDs, Read(fd) PROVE EntriesInv'
  BY <1>4, ReadEntries
<1>5. CASE UNCHANGED vars
  BY <1>5 DEF vars, history, EntriesInv, Entries, Registered
<1>. QED
  BY <1>1, <1>2, <1>3, <1>4, <1>5 DEF Next

LEMMA EntriesInvariance == Legible => (Spec => []EntriesInv)
<1>. SUFFICES ASSUME Legible PROVE Spec => []EntriesInv
  OBVIOUS
<1>1. IInv /\ PaceInv /\ EntriesInv /\ IInv' /\ PaceInv' /\ [Next]_vars => EntriesInv'
  BY NextEntries DEF Legible
<1>. QED
  BY <1>1, InitEntries, PaceInvariance, PTL DEF Spec

(* A registration is entered once: providers_ (rpc_registry.cpp:68) has no *)
(* more entries for a descriptor than registrations were sent on it.       *)
THEOREM RegisteredAsSent == Legible => (Spec => []RegisteredOnce)
<1>1. IInv /\ PaceInv /\ StreamInv /\ EntriesInv /\ HandledInOrder => RegisteredOnce
  <2>. SUFFICES ASSUME IInv, PaceInv, StreamInv, EntriesInv, HandledInOrder,
                       NEW fd \in FDs, chan[fd].open
                PROVE  Cardinality(Entries(fd))
                         <= Cardinality({i \in DOMAIN sent[fd] : sent[fd][i].type = FRPC_PROVIDER})
    BY DEF RegisteredOnce, Entries
  <2>. DEFINE S == {i \in DOMAIN sent[fd] : sent[fd][i].type = FRPC_PROVIDER}
  <2>1. DOMAIN sent[fd] = 1..Len(sent[fd]) /\ Len(sent[fd]) \in Nat
    BY DEF StreamInv
  <2>2. DOMAIN handled[fd] = 1..Len(handled[fd]) /\ Len(handled[fd]) \in Nat
    BY FiniteParts
  <2>3. Registered(fd) \in SUBSET S
    <3>1. ASSUME NEW i \in Registered(fd) PROVE i \in S
      <4>1. i \in DOMAIN handled[fd] /\ handled[fd][i].type = <<FRPC_PROVIDER, 0>>
        BY DEF Registered
      <4>2. i \in DOMAIN sent[fd] /\ handled[fd][i].type = <<sent[fd][i].type, 0>>
        BY <2>1, <2>2, <4>1 DEF HandledInOrder
      <4>. QED
        BY <4>1, <4>2
    <3>. HIDE DEF S
    <3>. QED
      BY <3>1
  <2>4. IsFiniteSet(S)
    <3>1. IsFiniteSet(DOMAIN sent[fd]) /\ S \in SUBSET (DOMAIN sent[fd])
      BY <2>1, FS_Interval
    <3>. QED
      BY <3>1, FS_Subset, Zenon
  <2>5. Cardinality(Registered(fd)) <= Cardinality(S)
    BY <2>3, <2>4, FS_Subset, Zenon
  <2>6. Cardinality(S) \in Nat /\ Cardinality(Registered(fd)) \in Nat /\ Cardinality(Entries(fd)) \in Nat
    BY <2>4, FS_CardinalityType, FiniteParts
  <2>. HIDE DEF S
  <2>7. Cardinality(Entries(fd)) <= Cardinality(S)
    BY <2>5, <2>6 DEF EntriesInv
  <2>. QED
    BY <2>7 DEF S
<1>. QED
  BY <1>1, HandledAsSent, StreamInvariance, PaceInvariance, EntriesInvariance, PTL

(* Legible asks nothing of a content but that it lacks the magic byte: a  *)
(* message of fewer than 10000 such bytes with the length in digits is     *)
(* well formed.                                                            *)
LEMMA DigitsAreLegible ==
  ASSUME NEW m, m.type \in Byte \ {dfMagic}, m.id \in Byte \ {dfMagic},
         m.content \in Seq(Byte \ {dfMagic}), Len(m.content) < 10000
  PROVE  WellFormed([type |-> m.type, id |-> m.id, content |-> m.content, bytes |-> Digits(m)])
<1>. DEFINE n == Len(m.content)
            thousands == (n \div 1000) % 10
            hundreds == (n \div 100) % 10
            tens == (n \div 10) % 10
            ones == (n \div 1) % 10
            a == <<dfMagic, 15, 15, 1, m.type, 0, 1, 0, m.id, 0, 0, 48 + thousands>>
            b == <<48 + hundreds, 48 + tens, 48 + ones>>
            front == a \o b
            x == [type |-> m.type, id |-> m.id, content |-> m.content, bytes |-> Digits(m)]
<1>1. /\ n \in 0..9999 /\ m.content \in Seq(Byte)
      /\ thousands \in 0..9 /\ hundreds \in 0..9 /\ tens \in 0..9 /\ ones \in 0..9
      /\ 1000 * thousands + 100 * hundreds + 10 * tens + ones = n
  <2>1. n \in Nat /\ n < 10000
    OBVIOUS
  <2>2. m.content \in Seq(Byte)
    <3>1. \A i \in 1..Len(m.content) : m.content[i] \in Byte
      OBVIOUS
    <3>2. m.content \in Seq(Byte) <=> \A i \in 1..Len(m.content) : m.content[i] \in Byte
      OBVIOUS
    <3>. QED
      BY <3>1, <3>2
  <2>. HIDE DEF n
  <2>3. /\ thousands \in 0..9 /\ hundreds \in 0..9 /\ tens \in 0..9 /\ ones \in 0..9
        /\ 1000 * thousands + 100 * hundreds + 10 * tens + ones = n
    <3>1. n \div 1 = n
      BY <2>1, Z3
    <3>2. n \div 10 \in Nat /\ n \div 100 \in Nat /\ n \div 1000 \in 0..9
      BY <2>1, Z3
    <3>3. /\ n \div 100 = (n \div 10) \div 10 /\ n \div 1000 = (n \div 100) \div 10
      BY <2>1, Z3
    <3>4. \A q \in Nat : q % 10 \in 0..9 /\ q % 10 = q - 10 * (q \div 10)
      BY Z3
    <3>5. \A q \in 0..9 : q % 10 = q
      BY Z3
    <3>6. /\ ones = n - 10 * (n \div 10) /\ tens = n \div 10 - 10 * (n \div 100)
          /\ hundreds = n \div 100 - 10 * (n \div 1000) /\ thousands = n \div 1000
          /\ hundreds \in 0..9 /\ tens \in 0..9 /\ ones \in 0..9
      BY <2>1, <3>1, <3>2, <3>3, <3>4, <3>5
    <3>. QED
      BY <2>1, <3>2, <3>6
  <2>. QED
    BY <2>1, <2>2, <2>3
<1>2. Digits(m) = front \o m.content
  BY DEF Digits, Front12, FrontOf, dfHeadLength, dfVersion
<1>. HIDE DEF n, thousands, hundreds, tens, ones
<1>3. /\ front \in Seq(Byte) /\ Len(front) = 15
      /\ \A i \in 1..12 : front[i] = a[i]
      /\ \A i \in 13..15 : front[i] = b[i - 12]
  <2>1. /\ m.type \in Byte /\ m.id \in Byte /\ 48 + thousands \in Byte /\ 48 + hundreds \in Byte
        /\ 48 + tens \in Byte /\ 48 + ones \in Byte
    BY <1>1 DEF Byte
  <2>2. a \in Seq(Byte) /\ Len(a) = 12
    BY <2>1 DEF Byte, dfMagic
  <2>3. b \in Seq(Byte) /\ Len(b) = 3
    BY <2>1 DEF Byte
  <2>4. \A i \in 13..15 : i - 12 \in 1..3 /\ i > 12 /\ i \in 1..15
    OBVIOUS
  <2>5. \A i \in 1..12 : i \in 1..15 /\ i <= 12
    OBVIOUS
  <2>11. front = a \o b
    OBVIOUS
  <2>. HIDE DEF a, b, front
  <2>6. /\ front \in Seq(Byte) /\ Len(front) = Len(a) + Len(b)
        /\ \A i \in 1..(Len(a) + Len(b)) : front[i] = IF i <= Len(a) THEN a[i] ELSE b[i - Len(a)]
    BY ONLY <2>2, <2>3, <2>11, ConcatProperties
  <2>7. Len(a) + Len(b) = 15
    BY <2>2, <2>3
  <2>8. \A i \in 1..15 : front[i] = IF i <= 12 THEN a[i] ELSE b[i - 12]
    BY <2>2, <2>6, <2>7
  <2>9. \A i \in 1..12 : front[i] = a[i]
    BY <2>5, <2>8
  <2>10. \A i \in 13..15 : front[i] = b[i - 12]
    BY <2>4, <2>8
  <2>. QED
    BY <2>6, <2>7, <2>9, <2>10
<1>10. /\ front[1] = dfMagic /\ front[2] = 15 /\ front[5] = m.type /\ front[6] = 0
      /\ front[12] = 48 + thousands /\ front[13] = 48 + hundreds
      /\ front[14] = 48 + tens /\ front[15] = 48 + ones
      /\ \A i \in 2..15 : front[i] # dfMagic
  <2>1. /\ a[1] = dfMagic /\ a[2] = 15 /\ a[5] = m.type /\ a[6] = 0
        /\ a[12] = 48 + thousands /\ \A i \in 2..12 : a[i] # dfMagic
    BY <1>1 DEF dfMagic
  <2>2. /\ b[1] = 48 + hundreds /\ b[2] = 48 + tens /\ b[3] = 48 + ones
        /\ \A i \in 1..3 : b[i] # dfMagic
    BY <1>1 DEF dfMagic
  <2>. HIDE DEF a, b, front
  <2>3. \A i \in 2..15 : front[i] # dfMagic
    <3>. SUFFICES ASSUME NEW i \in 2..15 PROVE front[i] # dfMagic
      OBVIOUS
    <3>1. CASE i <= 12
      <4>1. i \in 1..12 /\ i \in 2..12
        BY <3>1
      <4>. QED
        BY ONLY <1>3, <2>1, <4>1
    <3>2. CASE i > 12
      <4>1. i \in 13..15 /\ i - 12 \in 1..3
        BY <3>2
      <4>. QED
        BY ONLY <1>3, <2>2, <4>1
    <3>. QED
      BY <3>1, <3>2
  <2>. QED
    BY <1>3, <2>1, <2>2, <2>3
<1>. HIDE DEF front, a, b
<1>4. /\ Len(Digits(m)) = 15 + n
      /\ \A i \in 1..(15 + n) : Digits(m)[i] = IF i <= 15 THEN front[i] ELSE m.content[i - 15]
  <2>1. Len(m.content) = n
    BY DEF n
  <2>. DEFINE c == m.content
              d == Digits(m)
  <2>2. c \in Seq(Byte) /\ d = front \o c /\ Len(c) = n
    BY <1>1, <1>2, <2>1
  <2>. HIDE DEF c, d
  <2>3. /\ Len(d) = Len(front) + Len(c)
        /\ \A i \in 1..(Len(front) + Len(c)) :
             d[i] = IF i <= Len(front) THEN front[i] ELSE c[i - Len(front)]
    <3>1. front \in Seq(Byte)
      BY <1>3
    <3>. QED
      BY ONLY <2>2, <3>1, ConcatProperties
  <2>4. Len(d) = 15 + n /\ \A i \in 1..(15 + n) : d[i] = IF i <= 15 THEN front[i] ELSE c[i - 15]
    BY <1>3, <2>2, <2>3
  <2>. QED
    BY <2>4 DEF c, d
<1>5. \A i \in 1..15 : Digits(m)[i] = front[i]
  BY <1>1, <1>4
<1>6. \A i \in 1..n : Digits(m)[15 + i] = m.content[i]
  BY <1>1, <1>4
<1>8. \A i \in 2..(15 + n) : Digits(m)[i] # dfMagic
  <2>. SUFFICES ASSUME NEW i \in 2..(15 + n) PROVE Digits(m)[i] # dfMagic
    OBVIOUS
  <2>1. CASE i <= 15
    BY <1>5, <1>10, <2>1
  <2>2. CASE i > 15
    <3>1. i - 15 \in 1..n /\ i = 15 + (i - 15)
      BY <1>1, <2>2
    <3>2. m.content[i - 15] \in Byte \ {dfMagic}
      BY <3>1 DEF n
    <3>. QED
      BY <1>6, <3>1, <3>2
  <2>. QED
    BY <1>1, <2>1, <2>2
<1>7. ASSUME NEW y \in Byte PROVE contentLength([head |-> HeadOf(x)], y) = n
  <2>. DEFINE p == [head |-> HeadOf(x)]
              total == p.head[1]
  <2>1. /\ DOMAIN p.head = 0..14 /\ total = 15
        /\ p.head[11] = 48 + thousands /\ p.head[12] = 48 + hundreds
        /\ p.head[13] = 48 + tens /\ p.head[14] = 48 + ones
    <3>1. \A i \in 0..14 : HeadOf(x)[i] = Digits(m)[i + 1]
      BY DEF HeadOf, dfHeadLength
    <3>2. \A i \in 0..14 : i + 1 \in 1..15
      OBVIOUS
    <3>3. \A i \in 0..14 : HeadOf(x)[i] = front[i + 1]
      BY <1>5, <3>1, <3>2
    <3>4. DOMAIN HeadOf(x) = 0..14
      BY DEF HeadOf, dfHeadLength
    <3>. HIDE DEF x
    <3>. QED
      BY <1>10, <3>3, <3>4
  <2>. HIDE DEF p
  <2>2. total - 4 = 11 /\ total - 3 = 12 /\ total - 2 = 13 /\ total - 1 = 14
    BY <2>1
  <2>. DEFINE d1 == Digit(p, total - 4, y)
              d2 == Digit(p, total - 3, y)
              d3 == Digit(p, total - 2, y)
              d4 == Digit(p, total - 1, y)
  <2>. HIDE DEF total
  <2>3. d1 = thousands /\ d2 = hundreds /\ d3 = tens /\ d4 = ones
    <3>1. \A digit \in 0..9 : Char(48 + digit) - 48 = digit
      BY DEF Char
    <3>2. total - 4 \in DOMAIN p.head /\ total - 3 \in DOMAIN p.head
      BY <2>1, <2>2
    <3>3. total - 2 \in DOMAIN p.head /\ total - 1 \in DOMAIN p.head
      BY <2>1, <2>2
    <3>4. d1 = Char(48 + thousands) - 48 /\ d2 = Char(48 + hundreds) - 48
      BY <2>1, <2>2, <3>2 DEF Digit
    <3>5. d3 = Char(48 + tens) - 48 /\ d4 = Char(48 + ones) - 48
      BY <2>1, <2>2, <3>3 DEF Digit
    <3>6. thousands \in 0..9 /\ hundreds \in 0..9 /\ tens \in 0..9 /\ ones \in 0..9
      BY ONLY <1>1
    <3>. HIDE DEF d1, d2, d3, d4
    <3>. QED
      BY ONLY <3>1, <3>4, <3>5, <3>6
  <2>4. contentLength(p, y) =
          IF 1000 * d1 + 100 * d2 + 10 * d3 + d4 < 0 THEN Huge ELSE 1000 * d1 + 100 * d2 + 10 * d3 + d4
    BY DEF contentLength, total
  <2>. HIDE DEF d1, d2, d3, d4
  <2>5. contentLength(p, y) = n
    BY <1>1, <2>3, <2>4
  <2>. QED
    BY <2>5 DEF p
<1>9. Digits(m)[1] = dfMagic /\ Digits(m)[2] = 15 /\ Digits(m)[5] = m.type /\ Digits(m)[6] = 0
  BY <1>5, <1>10
<1>11. n \in Nat /\ Len(m.content) = n /\ m.content \in Seq(Byte)
  <2>1. n \in Nat
    BY <1>1
  <2>2. Len(m.content) = n
    BY DEF n
  <2>3. m.content \in Seq(Byte)
    BY ONLY <1>1
  <2>. QED
    BY <2>1, <2>2, <2>3
<1>. QED
  BY <1>4, <1>6, <1>7, <1>8, <1>9, <1>11 DEF WellFormed, Total, Plain, dfHeadLength
=============================================================================
