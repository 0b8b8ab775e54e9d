------------------------------- MODULE Buffer -------------------------------
(***************************************************************************)
(* The index arithmetic of Fish::Buffer, the byte buffer every Channel     *)
(* owns twice (readBuf_ and sendBuf_).  A buffer is the record             *)
(*                                                                         *)
(*     [cap |-> buf_.size(), r |-> readIndex_, w |-> writeIndex_]          *)
(*                                                                         *)
(* The bytes themselves are left out: the owner of a Buffer decides        *)
(* everything from sizes.  readIndex_ and writeIndex_ are int, and buf_    *)
(* sizes are size_t; where the code subtracts an int from a size_t the     *)
(* result wraps, which is kept here as arithmetic modulo SizeMod.          *)
(***************************************************************************)
EXTENDS Integers

CONSTANT
  SizeMod    \* the modulus of size_t; a power of two above every buffer size

ASSUME SizeModAssumption == SizeMod \in Nat \ {0}

(* What reading negative and over-long lengths does depends on size_t.     *)
ToSize(n) == n % SizeMod

NewBuffer(size) == [cap |-> size, r |-> 0, w |-> 0]

(* disRead().size() and disWrite().size().  disWrite keeps one byte back;  *)
(* its assert(size >= 0) compares a size_t and can never fail.             *)
Readable(b) == ToSize(b.w - b.r)
WritableAll(b) == ToSize(b.cap - b.w)       \* variant: no byte is kept back
Writable(b) == ToSize(b.cap - b.w - 1)

(* input(view) of n bytes.  When they do not fit behind writeIndex_ the    *)
(* unread bytes move to the front of a new vector, and writeIndex_ becomes *)
(* the size of that vector, not the number of bytes moved.                 *)
Input(b, n) ==
  IF n > ToSize(b.cap - b.w)
  THEN LET size == b.w - b.r + n
       IN  [cap |-> size, r |-> 0, w |-> size + n]
  ELSE [b EXCEPT !.w = @ + n]

(* eraseData(n): the assertion, and the effect when it holds.              *)
EraseAsserts(b, n) == b.r + n <= b.w

EraseAll(b, n)  == NewBuffer(b.cap)         \* variant: whatever is left is dropped

EraseData(b, n) ==
  IF b.r + n = b.w
  THEN NewBuffer(b.cap)
  ELSE [b EXCEPT !.r = @ + n]

(* already(n): n bytes were stored behind writeIndex_ by somebody else.    *)
(* The assertion comes after the addition, so a negative n that takes      *)
(* writeIndex_ below zero trips it as well.                                *)

Already(b, n) == [b EXCEPT !.w = @ + n]

AlreadyAsserts(b, n) == ToSize(b.w + n) < b.cap

=============================================================================
