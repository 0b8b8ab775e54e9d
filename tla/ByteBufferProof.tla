--------------------------- MODULE ByteBufferProof ---------------------------
(***************************************************************************)
(* Theorems about ByteBuffer, for every size of buffer, every set of bytes *)
(* of chunks and of error codes, and any number of writes under way.       *)
(***************************************************************************)
EXTENDS ByteBuffer, SequenceTheorems, TLAPS

(* The indices stay in order and inside.                                   *)
IndicesInOrder ==
  /\ b.cap = Size /\ 0 <= b.r /\ b.r <= b.w /\ b.w <= Size
  /\ use = "read" => b.w < Size

(* A view of sendBuf_ that no other write has outrun is the front of what  *)
(* is unread.                                                              *)
FreshAreFront ==
  \A i \in 1..Len(views) :
    views[i].from = "send" /\ ~views[i].stale => views[i].at = b.r /\ views[i].to <= b.w

(* Only sendBuf_ is written from.                                          *)
OneUse == use = "read" => views = <<>>

IInv == /\ TypeOK /\ OneUse /\ AssertsHold
        /\ fault = "none" => IndicesInOrder /\ FreshAreFront

-----------------------------------------------------------------------------
(* A length below the modulus of size_t is itself.                         *)
LEMMA SizeIsItself ==
  ASSUME NEW n \in Nat, n < SizeMod
  PROVE  ToSize(n) = n
BY SizeModAssumption DEF ToSize

(* Whatever is at an index of the vector is a byte.                        *)
LEMMA ByteAt ==
  ASSUME TypeOK, NEW k \in Int, 0 <= k, k < Size
  PROVE  mem[k] \in Bytes
<1>1. mem \in [0..(Size - 1) -> Bytes]
  BY DEF TypeOK
<1>2. k \in 0..(Size - 1)
  BY ByteBufferAssumption
<1>. QED
  BY <1>1, <1>2

(* A part of the vector is a sequence of its bytes.                        *)
LEMMA PartIsSeq ==
  ASSUME TypeOK, NEW from \in Nat, NEW n \in Nat, from + n <= Size
  PROVE  /\ Part(from, n) \in Seq(Bytes)
         /\ Len(Part(from, n)) = n
         /\ \A i \in 1..n : Part(from, n)[i] = mem[from + i - 1]
<1>1. Size \in Nat
  BY ByteBufferAssumption
<1>2. ASSUME NEW i \in 1..n
      PROVE  mem[from + i - 1] \in Bytes
  <2>1. from + i - 1 \in Int /\ 0 <= from + i - 1 /\ from + i - 1 < Size
    BY <1>1
  <2>. QED
    BY <2>1, ByteAt
<1>. QED
  BY <1>2 DEF Part

(* Storing bytes behind writeIndex_ changes nothing in front of it.        *)
LEMMA StoredKeeps ==
  ASSUME TypeOK, IndicesInOrder, NEW s \in Seq(Bytes), b.w + Len(s) <= Size
  PROVE  /\ Stored(s) \in [0..(Size - 1) -> Bytes]
         /\ \A i \in 0..(b.w - 1) : Stored(s)[i] = mem[i]
<1>1. Size \in Nat /\ Len(s) \in Nat /\ DOMAIN s = 1..Len(s)
  BY ByteBufferAssumption, LenProperties
<1>2. b.w \in Nat /\ b.w <= Size /\ DOMAIN mem = 0..(Size - 1)
  BY DEF TypeOK, IndicesInOrder
<1>3. \A j \in 1..Len(s) : s[j] \in Bytes
  BY ElementOfSeq
<1>4. ASSUME NEW i \in 0..(Size - 1)
      PROVE  (IF i - b.w + 1 \in DOMAIN s THEN s[i - b.w + 1] ELSE mem[i]) \in Bytes
  BY <1>1, <1>2, <1>3 DEF TypeOK
<1>5. Stored(s) \in [0..(Size - 1) -> Bytes]
  BY <1>2, <1>4 DEF Stored
<1>6. ASSUME NEW i \in 0..(b.w - 1)
      PROVE  Stored(s)[i] = mem[i]
  BY <1>1, <1>2 DEF Stored
<1>. QED
  BY <1>5, <1>6

(* What an input or an arrival of a length that fits does to the indices.  *)
LEMMA FillStep ==
  ASSUME TypeOK, IndicesInOrder, NEW n \in Nat
  PROVE  /\ ToSize(b.cap - b.w) = Size - b.w
         /\ n <= Size - b.w => Input(b, n) = [b EXCEPT !.w = b.w + n]
         /\ b.w < Size => Writable(b) = Size - b.w - 1
<1>1. Size \in Nat /\ Size < SizeMod /\ SizeMod \in Nat
  BY ByteBufferAssumption, SizeModAssumption
<1>2. b \in [cap : Nat, r : Nat, w : Nat] /\ b.cap = Size /\ b.w <= Size
  BY DEF TypeOK, IndicesInOrder
<1>3. Size - b.w \in Nat /\ Size - b.w < SizeMod
  BY <1>1, <1>2
<1>4. ToSize(b.cap - b.w) = Size - b.w
  BY <1>2, <1>3, SizeIsItself
<1>5. ASSUME n <= Size - b.w
      PROVE  Input(b, n) = [b EXCEPT !.w = b.w + n]
  <2>1. ~(n > ToSize(b.cap - b.w))
    BY <1>2, <1>3, <1>4, <1>5
  <2>. QED
    BY <2>1 DEF Input
<1>6. ASSUME b.w < Size
      PROVE  Writable(b) = Size - b.w - 1
  <2>1. Size - b.w - 1 \in Nat /\ Size - b.w - 1 < SizeMod
    BY <1>1, <1>2, <1>6
  <2>. QED
    BY <1>2, <2>1, SizeIsItself DEF Writable
<1>. QED
  BY <1>4, <1>5, <1>6

(* Erasing no more than is there keeps the indices in order, unless a      *)
(* negative length takes readIndex_ below the vector.                      *)
LEMMA EraseStep ==
  ASSUME TypeOK, IndicesInOrder, NEW n \in Int, EraseAsserts(b, n), EraseData(b, n).r >= 0
  PROVE  /\ EraseData(b, n).cap = Size
         /\ EraseData(b, n).r <= EraseData(b, n).w
         /\ EraseData(b, n).w <= b.w
         /\ \/ EraseData(b, n).r = b.r + n /\ EraseData(b, n).w = b.w
            \/ b.r + n = b.w /\ EraseData(b, n).r = 0 /\ EraseData(b, n).w = 0
BY ByteBufferAssumption DEF TypeOK, IndicesInOrder, EraseAsserts, EraseData, NewBuffer

LEMMA EraseType ==
  ASSUME TypeOK, NEW n \in Int
  PROVE  EraseData(b, n) \in [cap : Nat, r : Int, w : Int]
BY DEF TypeOK, EraseData, NewBuffer

(* What is there may be erased, from the front.                            *)
LEMMA EraseThere ==
  ASSUME TypeOK, IndicesInOrder, NEW n \in 0..(b.w - b.r)
  PROVE  n \in Nat /\ n <= b.w - b.r /\ EraseAsserts(b, n) /\ EraseData(b, n).r >= 0
BY DEF TypeOK, IndicesInOrder, EraseAsserts, EraseData, NewBuffer

(* A list without one of its elements.                                     *)
LEMMA RemoveAtType ==
  ASSUME NEW S, NEW q \in Seq(S), NEW i \in 1..Len(q)
  PROVE  RemoveAt(q, i) \in Seq(S)
<1>1. i \in Nat \ {0} /\ Len(q) \in Nat /\ \A j \in 1..Len(q) : q[j] \in S
  BY LenProperties, ElementOfSeq
<1>2. SubSeq(q, 1, i-1) \in Seq(S)
  <2>1. \A j \in 1..(i-1) : q[j] \in S
    BY <1>1
  <2>. QED
    BY <1>1, <2>1, SubSeqProperties
<1>3. SubSeq(q, i+1, Len(q)) \in Seq(S)
  <2>1. \A j \in (i+1)..Len(q) : q[j] \in S
    BY <1>1
  <2>. QED
    BY <1>1, <2>1, SubSeqProperties
<1>. QED
  BY <1>2, <1>3, ConcatProperties DEF RemoveAt

(* The writes that remain when one ends, and the one queued then.          *)
LEMMA AfterWrite ==
  ASSUME TypeOK, NEW i \in 1..Len(views), NEW room \in 0..(Size - 1)
  PROVE  /\ Others(i) \o Again(room) \in Seq(View)
         /\ \A j \in 1..Len(Others(i) \o Again(room)) :
              \/ (Others(i) \o Again(room))[j].stale
              \/ (Others(i) \o Again(room))[j].from = "read"
<1>. DEFINE rest == RemoveAt(views, i)
            old  == Others(i)
            new  == Again(room)
<1>1. rest \in Seq(View) /\ Len(rest) \in Nat /\ DOMAIN rest = 1..Len(rest)
      /\ \A j \in 1..Len(rest) : rest[j] \in View
  <2>1. rest \in Seq(View)
    BY RemoveAtType DEF TypeOK
  <2>. HIDE DEF rest
  <2>. QED
    BY <2>1, LenProperties, ElementOfSeq
<1>2. old = [j \in 1..Len(rest) |-> [rest[j] EXCEPT !.stale = TRUE]]
  BY <1>1 DEF Others
<1>. HIDE DEF rest, old
<1>3. ASSUME NEW j \in 1..Len(rest)
      PROVE  [rest[j] EXCEPT !.stale = TRUE] \in View /\ [rest[j] EXCEPT !.stale = TRUE].stale
  BY <1>1 DEF View
<1>4. old \in Seq(View) /\ Len(old) = Len(rest) /\ \A j \in 1..Len(old) : old[j].stale
  <2>1. \A j \in 1..Len(rest) : old[j] \in View /\ old[j].stale
    BY <1>2, <1>3
  <2>2. old \in [1..Len(rest) -> View]
    BY <1>2, <1>3
  <2>3. old \in Seq(View) /\ Len(old) = Len(rest)
    BY <1>1, <2>2
  <2>. QED
    BY <2>1, <2>3
<1>5. new \in Seq(View) /\ Len(new) \in Nat /\ \A j \in 1..Len(new) : new[j].from = "read"
  <2>1. Size \in Nat /\ room \in Nat /\ room <= Size
    BY ByteBufferAssumption
  <2>2. CASE room = 0
    BY <2>2 DEF Again
  <2>3. CASE room # 0
    <3>. DEFINE v == [from |-> "read", at |-> 0, to |-> room, stale |-> FALSE]
    <3>1. v \in View /\ v.from = "read"
      BY <2>1 DEF View
    <3>2. new = <<v>>
      BY <2>3 DEF Again
    <3>. HIDE DEF v, new
    <3>. QED
      BY <3>1, <3>2
  <2>. QED
    BY <2>2, <2>3
<1>. HIDE DEF new
<1>6. /\ old \o new \in Seq(View)
      /\ Len(old \o new) = Len(old) + Len(new)
      /\ \A j \in 1..(Len(old) + Len(new)) :
           (old \o new)[j] = IF j <= Len(old) THEN old[j] ELSE new[j - Len(old)]
  BY <1>4, <1>5, ConcatProperties
<1>7. ASSUME NEW j \in 1..Len(old \o new)
      PROVE  (old \o new)[j].stale \/ (old \o new)[j].from = "read"
  <2>0. Len(old) \in Nat /\ j \in 1..(Len(old) + Len(new))
    BY <1>1, <1>4, <1>6
  <2>1. CASE j <= Len(old)
    <3>1. j \in 1..Len(old) /\ (old \o new)[j] = old[j]
      BY <1>6, <2>0, <2>1
    <3>. QED
      BY <1>4, <3>1
  <2>2. CASE ~(j <= Len(old))
    <3>1. j - Len(old) \in 1..Len(new) /\ (old \o new)[j] = new[j - Len(old)]
      BY <1>5, <1>6, <2>0, <2>2
    <3>. QED
      BY <1>5, <3>1
  <2>. QED
    BY <2>1, <2>2
<1>. QED
  BY <1>6, <1>7 DEF old, new

-----------------------------------------------------------------------------
(***************************************************************************)
(* The invariant.                                                          *)
(***************************************************************************)
LEMMA InitInv == Init => IInv
<1>. SUFFICES ASSUME Init PROVE IInv
  OBVIOUS
<1>1. Size \in Nat \ {0} /\ 0 \in Bytes
  BY ByteBufferAssumption
<1>2. <<>> \in Seq(View) /\ <<>> \in Seq(Bytes) /\ Len(<<>>) = 0
  OBVIOUS
<1>. QED
  BY <1>1, <1>2 DEF Init, IInv, TypeOK, IndicesInOrder, FreshAreFront, OneUse, AssertsHold, NewBuffer

LEMMA ArriveInv ==
  ASSUME IInv, NEW s \in Chunks, Arrive(s)
  PROVE  IInv'
<1>1. Size \in Nat \ {0} /\ Size < SizeMod /\ SizeMod \in Nat /\ s \in Seq(Bytes) /\ Len(s) \in Nat
  BY ByteBufferAssumption, SizeModAssumption, LenProperties
<1>2. /\ TypeOK /\ IndicesInOrder /\ views = <<>> /\ use = "read"
      /\ b \in [cap : Nat, r : Int, w : Int] /\ b.cap = Size /\ 0 <= b.r /\ b.r <= b.w /\ b.w < Size
  BY DEF IInv, TypeOK, IndicesInOrder, OneUse, Arrive
<1>3. Len(s) <= Size - b.w - 1
  BY <1>1, <1>2, FillStep DEF Arrive
<1>4. mem' \in [0..(Size - 1) -> Bytes]
  BY <1>1, <1>2, <1>3, StoredKeeps DEF Arrive
<1>5. b' = [b EXCEPT !.w = b.w + Len(s)]
  BY DEF Arrive, Already
<1>6. b.w + Len(s) \in Nat /\ b.w + Len(s) < Size
  BY <1>1, <1>2, <1>3
<1>7. AlreadyAsserts(b, Len(s))
  BY <1>1, <1>2, <1>6, SizeIsItself DEF AlreadyAsserts
<1>8. UNCHANGED <<use, views, exact>> /\ fault' = "none" /\ port' = [way |-> "in", bytes |-> s]
  BY <1>7 DEF Arrive, Came
<1>9. b' \in [cap : Nat, r : Int, w : Int] /\ IndicesInOrder'
  BY <1>1, <1>2, <1>5, <1>6, <1>8 DEF IndicesInOrder
<1>10. TypeOK' /\ AssertsHold' /\ OneUse'
  BY <1>1, <1>2, <1>4, <1>8, <1>9 DEF TypeOK, AssertsHold, OneUse
<1>11. FreshAreFront'
  BY <1>2, <1>8 DEF FreshAreFront
<1>. QED
  BY <1>9, <1>10, <1>11 DEF IInv

(* Taken back, writeIndex_ stays above readIndex_, or the model has ended. *)
LEMMA ReceiveFailedInv ==
  ASSUME IInv, NEW e \in Errors, ReceiveFailed(e)
  PROVE  IInv'
<1>1. e \in Nat \ {0} /\ Size \in Nat
  BY ByteBufferAssumption
<1>2. /\ TypeOK /\ IndicesInOrder /\ views = <<>> /\ use = "read"
      /\ b \in [cap : Nat, r : Int, w : Int] /\ b.cap = Size /\ 0 <= b.r /\ b.w < Size
  BY DEF IInv, TypeOK, IndicesInOrder, OneUse, ReceiveFailed
<1>3. b' = [b EXCEPT !.w = b.w - e] /\ b' \in [cap : Nat, r : Int, w : Int]
  BY <1>1, <1>2 DEF ReceiveFailed, Already
<1>4. /\ UNCHANGED <<use, mem, views, port>> /\ exact' = FALSE
      /\ fault' \in {"none", "assert", "outside"}
      /\ fault' = "none" => b'.r <= b'.w
  BY <1>1, <1>2, <1>3 DEF ReceiveFailed
<1>5. fault' = "none" => IndicesInOrder'
  BY <1>1, <1>2, <1>3, <1>4 DEF IndicesInOrder
<1>6. TypeOK' /\ AssertsHold' /\ OneUse'
  BY <1>2, <1>3, <1>4 DEF TypeOK, AssertsHold, OneUse
<1>7. FreshAreFront'
  BY <1>2, <1>4 DEF FreshAreFront
<1>. QED
  BY <1>5, <1>6, <1>7 DEF IInv

LEMMA HandleInv ==
  ASSUME IInv, Handle
  PROVE  IInv'
<1>1. PICK n \in 0..(b.w - b.r) :
        /\ Left(Part(b.r, n))
        /\ b' = EraseData(b, n)
        /\ fault' = IF EraseAsserts(b, n) THEN "none" ELSE "assert"
  BY DEF Handle
<1>2. /\ TypeOK /\ IndicesInOrder /\ views = <<>> /\ use = "read" /\ Size \in Nat
      /\ b \in [cap : Nat, r : Int, w : Int] /\ 0 <= b.r /\ b.r <= b.w /\ b.w < Size
  BY ByteBufferAssumption DEF IInv, TypeOK, IndicesInOrder, OneUse, Handle
<1>3. n \in Nat /\ n <= b.w - b.r /\ EraseAsserts(b, n) /\ EraseData(b, n).r >= 0
  BY <1>2, EraseThere
<1>4. b.r \in Nat /\ b.r + n <= Size
  BY <1>2, <1>3
<1>5. Part(b.r, n) \in Seq(Bytes)
  BY <1>2, <1>3, <1>4, PartIsSeq
<1>6. /\ b' \in [cap : Nat, r : Int, w : Int]
      /\ b'.cap = Size /\ 0 <= b'.r /\ b'.r <= b'.w /\ b'.w <= b.w
  <2>1. n \in Int /\ b' = EraseData(b, n)
    BY <1>1, <1>3
  <2>2. b' \in [cap : Nat, r : Int, w : Int]
    BY <1>2, <2>1, EraseType
  <2>3. b'.cap = Size /\ b'.r <= b'.w /\ b'.w <= b.w
    BY <1>2, <1>3, <2>1, EraseStep
  <2>. QED
    BY <1>3, <2>1, <2>2, <2>3
<1>7. UNCHANGED <<use, mem, views, exact>> /\ fault' = "none" /\ port' = [way |-> "out", bytes |-> Part(b.r, n)]
  BY <1>1, <1>3 DEF Handle, Left
<1>8. TypeOK' /\ AssertsHold' /\ OneUse'
  BY <1>2, <1>5, <1>6, <1>7 DEF TypeOK, AssertsHold, OneUse
<1>9. IndicesInOrder' /\ FreshAreFront'
  BY <1>2, <1>6, <1>7 DEF IndicesInOrder, FreshAreFront
<1>. QED
  BY <1>8, <1>9 DEF IInv

LEMMA SendInv ==
  ASSUME IInv, NEW s \in Chunks, Send(s)
  PROVE  IInv'
<1>1. Size \in Nat \ {0} /\ s \in Seq(Bytes) /\ Len(s) \in Nat
  BY ByteBufferAssumption, LenProperties
<1>2. /\ TypeOK /\ IndicesInOrder /\ FreshAreFront /\ use = "send"
      /\ b \in [cap : Nat, r : Int, w : Int] /\ b.cap = Size
      /\ 0 <= b.r /\ b.r <= b.w /\ b.w <= Size /\ views \in Seq(View) /\ Len(views) \in Nat
  BY LenProperties DEF IInv, TypeOK, IndicesInOrder, Send
<1>3. CASE Fits(s)
  <2>1. Len(s) <= Size - b.w
    BY <1>1, <1>2, <1>3, FillStep DEF Fits
  <2>2. b' = [b EXCEPT !.w = b.w + Len(s)]
    BY <1>1, <1>2, <1>3, <2>1, FillStep DEF Send
  <2>3. mem' \in [0..(Size - 1) -> Bytes]
    BY <1>1, <1>2, <1>3, <2>1, StoredKeeps DEF Send
  <2>4. /\ b' \in [cap : Nat, r : Int, w : Int]
        /\ b'.cap = Size /\ b'.r = b.r /\ b'.w = b.w + Len(s) /\ b'.w \in 0..Size /\ b.w <= b'.w
    BY <1>1, <1>2, <2>1, <2>2
  <2>. DEFINE v == [from |-> "send", at |-> b.r, to |-> b'.w, stale |-> FALSE]
  <2>5. views' = Append(views, v)
    BY <1>3 DEF Send, NewView
  <2>6. v \in View /\ v.at = b.r /\ v.to = b'.w
    BY <1>2, <2>4 DEF View
  <2>. HIDE DEF v
  <2>7. /\ views' \in Seq(View) /\ Len(views') = Len(views) + 1
        /\ \A i \in 1..Len(views) : views'[i] = views[i]
        /\ views'[Len(views) + 1] = v
    BY <1>2, <2>5, <2>6, AppendProperties
  <2>8. UNCHANGED <<use, exact, fault>> /\ port' = [way |-> "in", bytes |-> s]
    BY <1>3 DEF Send, Came
  <2>9. TypeOK' /\ AssertsHold' /\ OneUse'
    BY <1>1, <1>2, <2>3, <2>4, <2>7, <2>8 DEF IInv, TypeOK, AssertsHold, OneUse
  <2>10. IndicesInOrder'
    BY <1>1, <1>2, <2>4, <2>8 DEF IndicesInOrder
  <2>11. FreshAreFront'
    <3>. SUFFICES ASSUME NEW i \in 1..Len(views'), views'[i].from = "send", ~views'[i].stale
                  PROVE  views'[i].at = b'.r /\ views'[i].to <= b'.w
      BY DEF FreshAreFront
    <3>1. CASE i = Len(views) + 1
      BY <2>4, <2>6, <2>7, <3>1
    <3>2. CASE i # Len(views) + 1
      <4>1. i \in 1..Len(views) /\ views'[i] = views[i]
        BY <1>2, <2>7, <3>2
      <4>2. views[i] \in View /\ views[i].at = b.r /\ views[i].to <= b.w
        BY <1>2, <4>1, ElementOfSeq DEF FreshAreFront
      <4>. QED
        BY <1>1, <1>2, <2>4, <4>1, <4>2 DEF View
    <3>. QED
      BY <3>1, <3>2
  <2>. QED
    BY <2>9, <2>10, <2>11 DEF IInv
<1>4. CASE ~Fits(s)
  <2>1. UNCHANGED <<use, b, mem, views, port, exact>> /\ fault' = "outside"
    BY <1>4 DEF Send
  <2>. QED
    BY <2>1 DEF IInv, TypeOK, AssertsHold, OneUse
<1>. QED
  BY <1>3, <1>4

(* What a write that ended says, and which of them were counted exactly.   *)
LEMMA SentResult ==
  ASSUME IInv, NEW i \in DOMAIN views, Sent(i)
  PROVE  \E res \in Int :
           /\ i \in 1..Len(views) /\ views[i] \in View /\ use = "send" /\ fault = "none"
           /\ IndicesInOrder
           /\ port' \in [way : {"in", "out"}, bytes : Seq(Bytes)]
           /\ exact' = (exact /\ views[i].from = "send" /\ ~views[i].stale /\ res >= 0)
           /\ exact' => /\ res \in 0..(b.w - b.r)
                        /\ port' = [way |-> "out", bytes |-> Part(b.r, res)]
           /\ IF EraseAsserts(b, res)
                THEN /\ b' = EraseData(b, res)
                     /\ \E room \in 0..(Size - 1) : views' = Others(i) \o Again(room)
                     /\ fault' = IF b'.r < 0 THEN "outside" ELSE "none"
                ELSE fault' = "assert" /\ UNCHANGED <<b, views>>
           /\ UNCHANGED <<use, mem>>
<1>. DEFINE v == views[i]
<1>1. /\ TypeOK /\ IndicesInOrder /\ FreshAreFront /\ fault = "none"
      /\ views \in Seq(View) /\ DOMAIN views = 1..Len(views) /\ Len(views) \in Nat
      /\ b \in [cap : Nat, r : Int, w : Int]
  BY LenProperties DEF IInv, TypeOK, Sent
<1>2. i \in 1..Len(views) /\ v \in View
  BY <1>1, ElementOfSeq
<1>3. use = "send"
  <2>1. views # <<>>
    BY <1>1, <1>2, EmptySeq
  <2>. QED
    BY <1>1, <2>1 DEF IInv, OneUse, TypeOK
<1>4. PICK res \in 0..(v.to - v.at) \cup {-e : e \in Errors} :
        /\ Left(IF v.from = "send" THEN Part(v.at, res) ELSE <<>>)
        /\ exact' = (exact /\ v.from = "send" /\ ~v.stale /\ res >= 0)
        /\ IF EraseAsserts(b, res)
             THEN /\ b' = EraseData(b, res)
                  /\ \E room \in 0..(Size - 1) : views' = Others(i) \o Again(room)
                  /\ fault' = IF b'.r < 0 THEN "outside" ELSE "none"
             ELSE fault' = "assert" /\ UNCHANGED <<b, views>>
  BY DEF Sent
<1>5. UNCHANGED <<use, mem>>
  BY DEF Sent
<1>. HIDE DEF v
<1>6. v.at \in Nat /\ v.to \in 0..Size /\ Size \in Nat
  BY <1>2, ByteBufferAssumption DEF View
<1>7. res \in Int /\ (res >= 0 => res \in Nat /\ v.at + res <= Size /\ res \in 0..(v.to - v.at))
  BY <1>4, <1>6, ByteBufferAssumption
<1>8. Part(v.at, res) \in Seq(Bytes)
  <2>1. CASE res >= 0
    BY <1>1, <1>6, <1>7, <2>1, PartIsSeq
  <2>2. CASE res < 0
    <3>1. 1..res = {}
      BY <1>7, <2>2
    <3>2. Part(v.at, res) = <<>>
      BY <3>1 DEF Part
    <3>. QED
      BY <3>2
  <2>. QED
    BY <1>7, <2>1, <2>2
<1>9. port' \in [way : {"in", "out"}, bytes : Seq(Bytes)]
  BY <1>4, <1>8 DEF Left
<1>10. ASSUME exact'
       PROVE  res \in 0..(b.w - b.r) /\ port' = [way |-> "out", bytes |-> Part(b.r, res)]
  <2>1. v.from = "send" /\ ~v.stale /\ res >= 0
    BY <1>4, <1>10
  <2>2. v.at = b.r /\ v.to <= b.w
    BY <1>1, <1>2, <2>1 DEF FreshAreFront, v
  <2>3. res \in 0..(b.w - b.r)
    BY <1>1, <1>6, <1>7, <2>1, <2>2
  <2>. QED
    BY <1>4, <2>1, <2>2, <2>3 DEF Left
<1>. QED
  BY <1>1, <1>2, <1>3, <1>4, <1>5, <1>7, <1>9, <1>10 DEF v

LEMMA SentInv ==
  ASSUME IInv, NEW i \in DOMAIN views, Sent(i)
  PROVE  IInv'
<1>1. PICK res \in Int :
        /\ i \in 1..Len(views) /\ use = "send" /\ fault = "none" /\ IndicesInOrder
        /\ port' \in [way : {"in", "out"}, bytes : Seq(Bytes)]
        /\ exact' \in BOOLEAN
        /\ exact' => res \in 0..(b.w - b.r)
        /\ IF EraseAsserts(b, res)
             THEN /\ b' = EraseData(b, res)
                  /\ \E room \in 0..(Size - 1) : views' = Others(i) \o Again(room)
                  /\ fault' = IF b'.r < 0 THEN "outside" ELSE "none"
             ELSE fault' = "assert" /\ UNCHANGED <<b, views>>
        /\ UNCHANGED <<use, mem>>
  BY SentResult
<1>2. TypeOK
  BY DEF IInv
<1>3. CASE EraseAsserts(b, res)
  <2>1. b' = EraseData(b, res) /\ b' \in [cap : Nat, r : Int, w : Int] /\ fault' # "assert"
        /\ fault' \in {"none", "outside"} /\ (fault' = "none" => b'.r >= 0)
    <3>1. b' = EraseData(b, res) /\ b' \in [cap : Nat, r : Int, w : Int]
      BY <1>1, <1>2, <1>3, EraseType
    <3>2. fault' = IF b'.r < 0 THEN "outside" ELSE "none"
      BY <1>1, <1>3
    <3>. QED
      BY <3>1, <3>2
  <2>2. PICK room \in 0..(Size - 1) : views' = Others(i) \o Again(room)
    BY <1>1, <1>3
  <2>3. views' \in Seq(View) /\ \A j \in 1..Len(views') : views'[j].stale \/ views'[j].from = "read"
    BY <1>1, <1>2, <2>2, AfterWrite
  <2>4. TypeOK' /\ AssertsHold' /\ OneUse'
    BY <1>1, <1>2, <2>1, <2>3 DEF TypeOK, AssertsHold, OneUse
  <2>5. FreshAreFront'
    BY <2>3 DEF FreshAreFront
  <2>6. fault' = "none" => IndicesInOrder'
    <3>. SUFFICES ASSUME fault' = "none" PROVE IndicesInOrder'
      OBVIOUS
    <3>1. b'.cap = Size /\ b'.r <= b'.w /\ b'.w <= b.w
      BY <1>1, <1>2, <1>3, <2>1, EraseStep
    <3>. QED
      BY <1>1, <1>2, <2>1, <3>1, ByteBufferAssumption DEF IndicesInOrder, TypeOK
  <2>. QED
    BY <2>4, <2>5, <2>6 DEF IInv
<1>4. CASE ~EraseAsserts(b, res)
  <2>1. UNCHANGED <<use, b, mem, views>> /\ fault' = "assert"
    BY <1>1, <1>4
  <2>2. ~exact'
    BY <1>1, <1>2, <1>4, EraseThere
  <2>. QED
    BY <1>1, <1>2, <2>1, <2>2 DEF IInv, TypeOK, AssertsHold, OneUse
<1>. QED
  BY <1>3, <1>4

LEMMA InvStep ==
  ASSUME IInv, [Next]_vars
  PROVE  IInv'
<1>1. CASE \E s \in Chunks : Arrive(s)
  BY <1>1, ArriveInv
<1>2. CASE \E s \in Chunks : Send(s)
  BY <1>2, SendInv
<1>3. CASE \E e \in Errors : ReceiveFailed(e)
  BY <1>3, ReceiveFailedInv
<1>4. CASE Handle
  BY <1>4, HandleInv
<1>5. CASE \E i \in DOMAIN views : Sent(i)
  BY <1>5, SentInv
<1>6. CASE UNCHANGED vars
  BY <1>6 DEF vars, IInv, TypeOK, AssertsHold, IndicesInOrder, FreshAreFront, OneUse
<1>. QED
  BY <1>1, <1>2, <1>3, <1>4, <1>5, <1>6 DEF Next

(* As long as every result that was counted is of bytes of this buffer not *)
(* counted before, no assert of a Buffer fails, with any number of sends   *)
(* under way and whatever other writes are queued.                         *)
THEOREM BufferAssertsHold == Spec => [](TypeOK /\ AssertsHold)
<1>1. IInv => TypeOK /\ AssertsHold
  BY DEF IInv
<1>2. IInv /\ [Next]_vars => IInv'
  BY InvStep
<1>. QED
  BY InitInv, <1>1, <1>2, PTL DEF Spec

-----------------------------------------------------------------------------
(***************************************************************************)
(* A Buffer implements a queue of bytes.                                   *)
(***************************************************************************)

(* What is unread is a sequence of bytes.                                  *)
LEMMA UnreadIsSeq ==
  ASSUME TypeOK, IndicesInOrder
  PROVE  /\ disRead \in Seq(Bytes) /\ Len(disRead) = b.w - b.r
         /\ \A i \in 1..(b.w - b.r) : disRead[i] = mem[b.r + i - 1]
<1>1. b.r \in Nat /\ b.w - b.r \in Nat /\ b.r + (b.w - b.r) <= Size
  BY ByteBufferAssumption DEF TypeOK, IndicesInOrder
<1>. QED
  BY <1>1, PartIsSeq DEF disRead

(* Where the i-th of the unread bytes is, when k of them are new.          *)
LEMMA PutIndex ==
  ASSUME NEW size \in Nat, NEW r \in Nat, NEW w \in Nat, NEW k \in Nat,
         r <= w, w + k <= size, NEW i \in 1..((w - r) + k)
  PROVE  r + i - 1 \in 0..(size - 1) /\ (r + i - 1) - w + 1 = i - (w - r)
OBVIOUS

(* Bytes stored behind writeIndex_ are put at the end of what is unread.   *)
LEMMA PutStep ==
  ASSUME TypeOK, IndicesInOrder, NEW s \in Seq(Bytes), b.w + Len(s) <= Size,
         mem' = Stored(s), b' = [b EXCEPT !.w = b.w + Len(s)]
  PROVE  disRead' = disRead \o s
<1>1. /\ Size \in Nat /\ Len(s) \in Nat /\ DOMAIN s = 1..Len(s)
      /\ b \in [cap : Nat, r : Int, w : Int] /\ b.r \in Nat /\ b.w \in Nat /\ b.r <= b.w
      /\ b'.r = b.r /\ b'.w = b.w + Len(s) /\ b.w + Len(s) <= Size /\ DOMAIN mem = 0..(Size - 1)
  BY ByteBufferAssumption, LenProperties DEF TypeOK, IndicesInOrder
<1>. DEFINE n == b.w - b.r
            k == Len(s)
<1>2. n \in Nat /\ b'.w - b'.r = n + k
  BY <1>1
<1>3. /\ disRead \in Seq(Bytes) /\ Len(disRead) = n
      /\ \A i \in 1..n : disRead[i] = mem[b.r + i - 1]
  BY UnreadIsSeq
<1>4. disRead' = [i \in 1..(n + k) |-> mem'[b.r + i - 1]]
  BY <1>1, <1>2 DEF disRead, Part
<1>5. /\ disRead \o s \in Seq(Bytes)
      /\ Len(disRead \o s) = n + k
      /\ \A i \in 1..(n + k) : (disRead \o s)[i] = IF i <= n THEN disRead[i] ELSE s[i - n]
  <2>1. /\ disRead \o s \in Seq(Bytes)
        /\ Len(disRead \o s) = Len(disRead) + Len(s)
        /\ \A i \in 1..(Len(disRead) + Len(s)) :
             (disRead \o s)[i] = IF i <= Len(disRead) THEN disRead[i] ELSE s[i - Len(disRead)]
    BY <1>3, ConcatProperties
  <2>. QED
    BY <1>3, <2>1
<1>6. disRead \o s = [i \in 1..(n + k) |-> (disRead \o s)[i]]
  BY <1>5, LenProperties
<1>7. ASSUME NEW i \in 1..(n + k)
      PROVE  mem'[b.r + i - 1] = (disRead \o s)[i]
  <2>0. b.r + i - 1 \in 0..(Size - 1) /\ (b.r + i - 1) - b.w + 1 = i - n
    BY <1>1, PutIndex
  <2>1. mem'[b.r + i - 1] = IF i - n \in 1..k THEN s[i - n] ELSE mem[b.r + i - 1]
    BY <1>1, <2>0 DEF Stored
  <2>2. CASE i <= n
    <3>1. i - n \notin 1..k /\ i \in 1..n
      BY <1>2, <2>2
    <3>. QED
      BY <1>3, <1>5, <2>1, <2>2, <3>1
  <2>3. CASE ~(i <= n)
    <3>1. i - n \in 1..k
      BY <1>1, <1>2, <2>3
    <3>. QED
      BY <1>5, <2>1, <2>3, <3>1
  <2>. QED
    BY <2>2, <2>3
<1>. QED
  BY <1>4, <1>6, <1>7

(* A step that erases the first bytes takes them from the front.           *)
LEMMA TakeStep ==
  ASSUME TypeOK, IndicesInOrder, NEW n \in 0..(b.w - b.r), mem' = mem, b' = EraseData(b, n)
  PROVE  disRead = Part(b.r, n) \o disRead' /\ Part(b.r, n) \in Seq(Bytes)
<1>1. /\ b.r \in Nat /\ b.w \in Nat /\ b.r <= b.w /\ b.w <= Size /\ Size \in Nat
      /\ n \in Nat /\ b.r + n <= b.w
  BY ByteBufferAssumption DEF TypeOK, IndicesInOrder
<1>2. /\ EraseAsserts(b, n) /\ EraseData(b, n).r >= 0
      /\ b'.cap = Size /\ b'.r <= b'.w /\ b'.w <= b.w
      /\ \/ b'.r = b.r + n /\ b'.w = b.w
         \/ b.r + n = b.w /\ b'.r = 0 /\ b'.w = 0
  BY EraseThere, EraseStep
<1>. DEFINE m == b.w - b.r
            front == Part(b.r, n)
            rest  == [i \in 1..(m - n) |-> mem[b.r + n + i - 1]]
<1>3. m \in Nat /\ n \in 0..m /\ m - n \in Nat
  BY <1>1
<1>4. front \in Seq(Bytes) /\ Len(front) = n /\ \A i \in 1..n : front[i] = mem[b.r + i - 1]
  <2>1. b.r + n <= Size
    BY <1>1
  <2>. QED
    BY <1>1, <2>1, PartIsSeq
<1>5. disRead' = rest
  <2>1. disRead' = [i \in 1..(b'.w - b'.r) |-> mem[b'.r + i - 1]]
    BY DEF disRead, Part
  <2>2. CASE b'.r = b.r + n /\ b'.w = b.w
    <3>1. b'.w - b'.r = m - n
      BY <1>1, <2>2
    <3>. QED
      BY <2>1, <2>2, <3>1
  <2>3. CASE b.r + n = b.w /\ b'.r = 0 /\ b'.w = 0
    <3>1. 1..(b'.w - b'.r) = {} /\ 1..(m - n) = {}
      BY <1>1, <2>3
    <3>. QED
      BY <2>1, <3>1
  <2>. QED
    BY <1>2, <2>2, <2>3
<1>6. rest \in Seq(Bytes) /\ Len(rest) = m - n
      /\ \A i \in 1..(m - n) : rest[i] = mem[b.r + n + i - 1]
  <2>1. ASSUME NEW i \in 1..(m - n)
        PROVE  mem[b.r + n + i - 1] \in Bytes
    <3>1. /\ b.r + n + i - 1 \in Int
          /\ 0 <= b.r + n + i - 1 /\ b.r + n + i - 1 < Size
      BY <1>1, <1>3
    <3>. QED
      BY <3>1, ByteAt
  <2>. QED
    BY <1>3, <2>1
<1>7. /\ disRead \in Seq(Bytes) /\ Len(disRead) = m
      /\ \A i \in 1..m : disRead[i] = mem[b.r + i - 1]
  BY UnreadIsSeq
<1>. HIDE DEF front, rest
<1>8. /\ front \o rest \in Seq(Bytes) /\ Len(front \o rest) = n + (m - n)
      /\ \A i \in 1..(n + (m - n)) :
           (front \o rest)[i] = IF i <= n THEN front[i] ELSE rest[i - n]
  BY <1>4, <1>6, ConcatProperties
<1>9. ASSUME NEW i \in 1..m
      PROVE  disRead[i] = (front \o rest)[i]
  <2>1. CASE i <= n
    <3>1. i \in 1..n /\ i \in 1..(n + (m - n))
      BY <1>1, <1>3, <2>1
    <3>. QED
      BY <1>4, <1>7, <1>8, <2>1, <3>1
  <2>2. CASE ~(i <= n)
    <3>1. i - n \in 1..(m - n) /\ i \in 1..(n + (m - n)) /\ b.r + n + (i - n) - 1 = b.r + i - 1
      BY <1>1, <1>3, <2>2
    <3>2. rest[i - n] = mem[b.r + i - 1]
      BY <1>6, <3>1
    <3>. QED
      BY <1>7, <1>8, <2>2, <3>1, <3>2
  <2>. QED
    BY <2>1, <2>2
<1>10. disRead = front \o rest
  <2>1. Len(front \o rest) = m
    BY <1>3, <1>8
  <2>. QED
    BY <1>7, <1>8, <1>9, <2>1, SeqEqual
<1>. QED
  BY <1>4, <1>5, <1>10 DEF front

(* While the agreement is kept, every step puts or takes.                  *)
LEMMA KeptStep ==
  ASSUME IInv, IInv', Next, ~Broken, ~Broken'
  PROVE  \/ port'.way = "in"  /\ disRead' = disRead \o port'.bytes
         \/ port'.way = "out" /\ disRead = port'.bytes \o disRead'
<1>1. TypeOK /\ IndicesInOrder /\ exact /\ exact' /\ fault = "none"
  BY DEF IInv, TypeOK, AssertsHold, Broken
<1>2. b \in [cap : Nat, r : Int, w : Int] /\ b.r <= b.w /\ b.w <= Size
  BY <1>1 DEF TypeOK, IndicesInOrder
<1>3. ASSUME NEW s \in Chunks, Arrive(s)
      PROVE  port'.way = "in" /\ disRead' = disRead \o port'.bytes
  <2>1. s \in Seq(Bytes) /\ Len(s) \in Nat /\ use = "read" /\ b.w < Size /\ Size \in Nat
    BY <1>1, <1>3, ByteBufferAssumption, LenProperties DEF Arrive, IndicesInOrder
  <2>2. b.w + Len(s) <= Size
    BY <1>1, <1>2, <1>3, <2>1, FillStep DEF Arrive
  <2>3. mem' = Stored(s) /\ b' = [b EXCEPT !.w = b.w + Len(s)]
    BY <1>3 DEF Arrive, Already
  <2>4. disRead' = disRead \o s
    BY <1>1, <2>1, <2>2, <2>3, PutStep
  <2>. QED
    BY <1>3, <2>4 DEF Arrive, Came
<1>4. ASSUME NEW s \in Chunks, Send(s)
      PROVE  port'.way = "in" /\ disRead' = disRead \o port'.bytes
  <2>1. s \in Seq(Bytes) /\ Len(s) \in Nat /\ Size \in Nat
    BY ByteBufferAssumption, LenProperties
  <2>2. Fits(s)
    BY <1>4 DEF Send, Broken
  <2>3. Len(s) <= Size - b.w
    BY <1>1, <2>1, <2>2, FillStep DEF Fits
  <2>4. mem' = Stored(s) /\ b' = [b EXCEPT !.w = b.w + Len(s)] /\ Came(s)
    BY <1>1, <1>4, <2>1, <2>2, <2>3, FillStep DEF Send
  <2>5. disRead' = disRead \o s
    <3>1. b.w + Len(s) <= Size
      BY <1>2, <2>1, <2>3
    <3>. QED
      BY <1>1, <2>1, <2>4, <3>1, PutStep
  <2>. QED
    BY <2>4, <2>5 DEF Came
<1>5. ASSUME Handle
      PROVE  port'.way = "out" /\ disRead = port'.bytes \o disRead'
  <2>1. PICK n \in 0..(b.w - b.r) : Left(Part(b.r, n)) /\ b' = EraseData(b, n) /\ mem' = mem
    BY <1>5 DEF Handle
  <2>. QED
    BY <1>1, <2>1, TakeStep DEF Left
<1>6. ASSUME NEW i \in DOMAIN views, Sent(i)
      PROVE  port'.way = "out" /\ disRead = port'.bytes \o disRead'
  <2>1. PICK res \in Int :
          /\ res \in 0..(b.w - b.r) /\ port' = [way |-> "out", bytes |-> Part(b.r, res)]
          /\ EraseAsserts(b, res) => b' = EraseData(b, res)
          /\ mem' = mem
    BY <1>1, <1>6, SentResult
  <2>2. EraseAsserts(b, res)
    BY <1>1, <2>1, EraseThere
  <2>. QED
    BY <1>1, <2>1, <2>2, TakeStep
<1>7. ASSUME NEW e \in Errors, ReceiveFailed(e)
      PROVE  FALSE
  BY <1>1, <1>7 DEF ReceiveFailed
<1>. QED
  BY <1>3, <1>4, <1>5, <1>6, <1>7 DEF Next

LEMMA StepRefines ==
  ASSUME IInv, IInv', [Next]_vars
  PROVE  [Queue!Next]_<<IF Broken THEN <<>> ELSE disRead,
                        IF Broken THEN [way |-> "out", bytes |-> <<>>] ELSE port, Broken>>
<1>1. CASE UNCHANGED vars
  BY <1>1 DEF vars, disRead, Part, Broken
<1>2. CASE Next /\ Broken
  <2>1. Broken'
    BY <1>2 DEF Broken, Next, Arrive, Send, Handle, Sent, ReceiveFailed
  <2>. QED
    BY <1>2, <2>1
<1>3. CASE Next /\ ~Broken /\ Broken'
  BY <1>3 DEF Queue!Next, Queue!Quiet
<1>4. CASE Next /\ ~Broken /\ ~Broken'
  <2>1. \/ port'.way = "in"  /\ disRead' = disRead \o port'.bytes
        \/ port'.way = "out" /\ disRead = port'.bytes \o disRead'
    BY <1>4, KeptStep
  <2>2. port' \in Queue!Port
    BY DEF IInv, TypeOK, Queue!Port
  <2>3. Broken = FALSE /\ Broken' = FALSE
    BY <1>4 DEF Broken, IInv, TypeOK
  <2>. QED
    BY <2>1, <2>2, <2>3 DEF Queue!Next, Queue!Put, Queue!Take
<1>. QED
  BY <1>1, <1>2, <1>3, <1>4

(* However often its indices go back to the front, a Buffer hands out the  *)
(* bytes it was given in the order in which it was given them, each once,  *)
(* until a result is counted that is not of bytes of it, or was counted.   *)
THEOREM BufferImplementsQueue == Spec => ImplementsQueue
<1>1. Init => Queue!Init
  <2>. SUFFICES ASSUME Init PROVE Queue!Init
    OBVIOUS
  <2>1. TypeOK /\ IndicesInOrder /\ b.w - b.r = 0
    BY InitInv DEF IInv, Init, NewBuffer
  <2>2. disRead \in Seq(Bytes) /\ Len(disRead) = 0
    BY <2>1, UnreadIsSeq
  <2>3. disRead = <<>>
    BY <2>2, EmptySeq
  <2>4. Broken = FALSE
    BY DEF Init, Broken
  <2>. QED
    BY <2>3, <2>4 DEF Init, Queue!Init, Queue!Quiet
<1>2. IInv /\ [Next]_vars => IInv'
  BY InvStep
<1>3. IInv /\ IInv' /\ [Next]_vars =>
        [Queue!Next]_<<IF Broken THEN <<>> ELSE disRead,
                       IF Broken THEN [way |-> "out", bytes |-> <<>>] ELSE port, Broken>>
  BY StepRefines
<1>. QED
  BY InitInv, <1>1, <1>2, <1>3, PTL DEF Spec, ImplementsQueue, Queue!Spec
=============================================================================
