----------------------------- MODULE ByteBuffer -----------------------------
(***************************************************************************)
(* Fish::Buffer with the bytes in it, as a Channel uses it: readBuf_ is    *)
(* filled by the kernel (alreadyRead) and emptied by readMes (eraseRead);  *)
(* sendBuf_ is filled by Channel::send and emptied by eraseWrite, which is *)
(* called with the result of every write of the channel.  The index        *)
(* arithmetic is that of module Buffer.                                    *)
(***************************************************************************)
EXTENDS Buffer, Sequences, SequencesExt

CONSTANTS
  Bytes,      \* values of a char
  Size,       \* what the Buffer was built with
  Chunks,     \* what arrives at once: sequences of bytes
  Errors,     \* error codes: a receive or write that fails returns one, negated
  MaxViews    \* bound: writes of a connection under way

ASSUME ByteBufferAssumption ==
  /\ Size \in Nat \ {0} /\ Size < SizeMod
  /\ 0 \in Bytes
  /\ Chunks \subseteq Seq(Bytes) \ {<<>>}
  /\ Errors \subseteq Nat \ {0}
  /\ MaxViews \in Nat

VARIABLES
  use,        \* which of the two it is
  b,          \* buf_.size(), readIndex_, writeIndex_
  mem,        \* buf_
  views,      \* the writes under way
  fault,      \* an assert failed, or an index left buf_
  port,       \* history: the bytes that came or left last
  exact       \* history: every result so far counted bytes of this buffer, once

vars == <<use, b, mem, views, fault, port, exact>>

Init ==
  /\ use \in {"read", "send"}
  /\ b = NewBuffer(Size)
  /\ mem = [i \in 0..(Size - 1) |-> 0]
  /\ views = <<>>
  /\ fault = "none"
  /\ port = [way |-> "out", bytes |-> <<>>]
  /\ exact = TRUE

-----------------------------------------------------------------------------
Part(from, n) == [i \in 1..n |-> mem[from + i - 1]]

Stored(s) ==
  [i \in DOMAIN mem |-> IF i - b.w + 1 \in DOMAIN s THEN s[i - b.w + 1] ELSE mem[i]]

(* What disRead shows.                                                     *)
disRead == Part(b.r, b.w - b.r)

Came(s) == port' = [way |-> "in", bytes |-> s]
Left(s) == port' = [way |-> "out", bytes |-> s]

(* The kernel stores what arrived in the room that disWrite showed it, and *)
(* already() counts it.                                                    *)
Arrive(s) ==
  /\ fault = "none" /\ use = "read"
  /\ Len(s) <= Writable(b)
  /\ mem' = Stored(s)
  /\ b' = Already(b, Len(s))
  /\ fault' = IF AlreadyAsserts(b, Len(s)) THEN "none" ELSE "assert"
  /\ Came(s)
  /\ UNCHANGED <<use, views, exact>>

(* A receive that failed, when errno is not 0, is counted like one that    *)
(* brought data: writeIndex_ goes back.                                    *)
ReceiveFailed(e) ==
  /\ fault = "none" /\ use = "read"
  /\ b' = Already(b, -e)
  /\ fault' = IF ~AlreadyAsserts(b, -e) THEN "assert"
               ELSE IF b'.w < b.r THEN "outside" ELSE "none"
  /\ exact' = FALSE
  /\ UNCHANGED <<use, mem, views, port>>

(* readMes: some of what disRead shows is taken, and erased.               *)
Handle ==
  /\ fault = "none" /\ use = "read"
  /\ \E n \in 0..(b.w - b.r) :
       /\ Left(Part(b.r, n))
       /\ b' = EraseData(b, n)
       /\ fault' = IF EraseAsserts(b, n) THEN "none" ELSE "assert"
  /\ UNCHANGED <<use, mem, views, exact>>

(* Channel::send: input, and a view of all that is inside for the kernel.  *)
(* An input that does not fit leaves the unread bytes in a new vector and  *)
(* then writes past the end of it; nothing is said of what follows.        *)
(* stale: another write has ended since this one was asked for.            *)
Fits(s) == Len(s) <= ToSize(b.cap - b.w)

NewView == [from |-> "send", at |-> b.r, to |-> b'.w, stale |-> FALSE]

Send(s) ==
  /\ fault = "none" /\ use = "send"
  /\ Len(views) < MaxViews
  /\ IF Fits(s)
       THEN /\ mem' = Stored(s)
            /\ b' = Input(b, Len(s))
            /\ views' = Append(views, NewView)
            /\ Came(s)
            /\ UNCHANGED fault
       ELSE /\ fault' = "outside"
            /\ UNCHANGED <<b, mem, views, port>>
  /\ UNCHANGED <<use, exact>>

(* After every write that ended, whatever is left in sendBuf_, the room of *)
(* readBuf_ is queued to be written, unless there is none.                 *)
Again(room) ==
  IF room = 0 THEN <<>>
  ELSE <<[from |-> "read", at |-> 0, to |-> room, stale |-> FALSE]>>

Others(i) ==
  LET rest == RemoveAt(views, i) IN
  [j \in DOMAIN rest |-> [rest[j] EXCEPT !.stale = TRUE]]

(* A write ends: the kernel took some of the first bytes of its view, or   *)
(* it failed.  The result, also a negative one, is erased from sendBuf_,   *)
(* whichever buffer the view was of.                                       *)
Sent(i) ==
  LET v == views[i] IN
  /\ fault = "none"
  /\ \E res \in 0..(v.to - v.at) \cup {-e : e \in Errors} :
       /\ Left(IF v.from = "send" THEN Part(v.at, res) ELSE <<>>)
       /\ exact' = (exact /\ v.from = "send" /\ ~v.stale /\ res >= 0)
       /\ IF EraseAsserts(b, res)
            THEN /\ b' = EraseData(b, res)
                 /\ \E room \in 0..(Size - 1) : views' = Others(i) \o Again(room)
                 /\ fault' = IF b'.r < 0 THEN "outside" ELSE "none"
            ELSE /\ fault' = "assert"
                 /\ UNCHANGED <<b, views>>
  /\ UNCHANGED <<use, mem>>

Next ==
  \/ \E s \in Chunks : Arrive(s) \/ Send(s)
  \/ \E e \in Errors : ReceiveFailed(e)
  \/ Handle
  \/ \E i \in DOMAIN views : Sent(i)

Spec == Init /\ [][Next]_vars

-----------------------------------------------------------------------------
(***************************************************************************)
(* Properties.                                                             *)
(***************************************************************************)
View == [from : {"send", "read"}, at : Nat, to : 0..Size, stale : BOOLEAN]

TypeOK ==
  /\ use \in {"read", "send"}
  /\ b \in [cap : Nat, r : Int, w : Int]
  /\ mem \in [0..(Size - 1) -> Bytes]
  /\ views \in Seq(View)
  /\ fault \in {"none", "assert", "outside"}
  /\ port \in [way : {"in", "out"}, bytes : Seq(Bytes)]
  /\ exact \in BOOLEAN

(* The asserts of eraseData and already (buffer.cpp:56, 72) hold as long   *)
(* as the results that were counted are of bytes of this buffer not        *)
(* counted before: with several sends whose views overlap, until a second  *)
(* of them ends; with a write of readBuf_ queued (uring_io.cpp:140), until *)
(* it ends.  They do not hold for longer.                                  *)
AssertsHold == exact => fault # "assert"

(* Bytes leave the buffer in the order in which they came and each once:   *)
(* those that eraseData drops are those that were handled, or that the     *)
(* kernel took, wherever the indices are and however often they went back  *)
(* to the front.  The agreement breaks when a result is counted that is    *)
(* not one of bytes of this buffer, or was counted before, and when an     *)
(* input does not fit.                                                     *)
Broken == ~exact \/ fault = "outside"

Queue == INSTANCE ByteQueue WITH
           queue  <- IF Broken THEN <<>> ELSE disRead,
           port   <- IF Broken THEN [way |-> "out", bytes |-> <<>>] ELSE port,
           broken <- Broken

ImplementsQueue == Queue!Spec

(***************************************************************************)
(* What comments of the code say, and the code does not do.                *)
(***************************************************************************)

(* buffer.h:19: input copies data into the buffer.                         *)
InputStaysInside == use = "send" /\ exact => fault # "outside"

(* uring_io.cpp:138: more data came in while the first was sent, and is to *)
(* be sent as well.  What it sends is then erased where it was.            *)
ErasedWasThere == use = "send" => fault # "assert"
=============================================================================
