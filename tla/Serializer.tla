----------------------------- MODULE Serializer -----------------------------
(***************************************************************************)
(* Fish::Serializer on SeriBuf: operator<< appends a value to a deque of   *)
(* bytes, operator>> takes a value of a type from its front.  Nothing in   *)
(* the bytes tells the type: the reader has to ask for the types that were *)
(* written, in that order, and in this module it does.                     *)
(*                                                                         *)
(* A type is a record with a kind.  vector, list and deque differ for a    *)
(* new variable in nothing (kind "seq"); set and unordered_set are kind    *)
(* "set", map and unordered_map kind "map", whose value is a set of pairs, *)
(* and a pair is a tuple of two.  bool, float and double are numbers of    *)
(* one, four and eight bytes.  A serializer is [buf, written]: buf_ of the *)
(* SeriBuf, and, for the properties, what was written to it and not read.  *)
(***************************************************************************)
EXTENDS Integers, Sequences, FiniteSets, SequencesExt

CONSTANTS
  Types,       \* the types a program serializes, with the types in them
  Values       \* the values that variables of each type take

Byte  == 0..255
Bytes == Seq(Byte)

-----------------------------------------------------------------------------
(***************************************************************************)
(* SeriBuf: the bytes of a number, lowest first, and what output makes of  *)
(* as many bytes as the result has.                                        *)
(***************************************************************************)
Shifts(v, width) ==
  LET shifted[i \in 1..width] == IF i = 1 THEN v ELSE shifted[i - 1] \div 256 IN shifted

Encode(v, width) == LET shifted == Shifts(v, width) IN [i \in 1..width |-> shifted[i] % 256]

Numbers(width, signed) ==
  {v \in Int : Shifts(v, width)[width] \in IF signed THEN -128..127 ELSE Byte}

Decode(b, signed) ==
  LET n == Len(b)
      ofHighest[i \in 1..n] ==
        IF i > 1 THEN b[n + 1 - i] + 256 * ofHighest[i - 1]
        ELSE IF signed /\ b[n] > 127 THEN b[n] - 256 ELSE b[n]
  IN  ofHighest[n]

Rest(b, n) == SubSeq(b, n + 1, Len(b))

NumberAt(b, width, signed) ==
  [val |-> Decode(SubSeq(b, 1, width), signed), rest |-> Rest(b, width)]

(* size_t.                                                                 *)
SizeBytes(n) == Encode(n, 8)
SizeAt(b)    == NumberAt(b, 8, FALSE)
Size         == Numbers(8, FALSE)

-----------------------------------------------------------------------------
(***************************************************************************)
(* What the templates make of a type: a new variable of it, what           *)
(* operator<< appends for a value, and what operator>> makes of the bytes  *)
(* in front.                                                               *)
(***************************************************************************)
NumberCodec(t) ==
  [fresh |-> 0,
   write |-> [v \in Values[t] |-> Encode(v, t.width)],
   read  |-> [b \in Bytes |-> NumberAt(b, t.width, t.signed)]]

(* output_string copies the bytes to &result[0] of an empty string, which  *)
(* stays empty.                                                            *)
StringCodec(t) ==
  [fresh |-> <<>>,
   write |-> [v \in Values[t] |-> SizeBytes(Len(v)) \o v],
   read  |-> [b \in Bytes |-> [val |-> <<>>, rest |-> Rest(b, 8 + SizeAt(b).val)]]]

(* One value after the other is written, or read, each by its own function. *)
WriteEach(write, s) ==
  LET sent[i \in 0..Len(s)] == IF i = 0 THEN <<>> ELSE sent[i - 1] \o write[i][s[i]]
  IN  sent[Len(s)]

ReadEach(read, b) ==
  LET got[i \in 0..Len(read)] ==
        IF i = 0 THEN [val |-> <<>>, rest |-> b]
        ELSE LET before == got[i - 1]
                 one    == read[i][before.rest]
             IN  [val |-> Append(before.val, one.val), rest |-> one.rest]
  IN  got[Len(read)]

TupleCodec(values, of) ==
  [fresh |-> [i \in DOMAIN of |-> of[i].fresh],
   write |-> [v \in values |-> WriteEach([i \in DOMAIN of |-> of[i].write], v)],
   read  |-> [b \in Bytes |-> ReadEach([i \in DOMAIN of |-> of[i].read], b)]]

(* The elements in the order in which they are written, and what becomes   *)
(* of those that were read.                                                *)
Listed(t, v)    == IF t.kind = "seq" THEN v ELSE SetToSeq(v)
Collected(t, s) == IF t.kind = "seq" THEN s ELSE Range(s)

Simple(t) == t.kind \in {"number", "string"}

(* Serializer::output: what it has no case for it does not touch.          *)
output(t, codec) ==
  IF Simple(t) THEN codec.read ELSE [b \in Bytes |-> [val |-> codec.fresh, rest |-> b]]

(* The elements of a set are read with output.                             *)
ContainerCodec(t, codec) ==
  LET read == IF t.kind = "set" THEN output(t.of, codec) ELSE codec.read
  IN  [fresh |-> Collected(t, <<>>),
       write |-> [v \in Values[t] |->
                    LET s == Listed(t, v)
                    IN  SizeBytes(Len(s)) \o WriteEach([i \in 1..Len(s) |-> codec.write], s)],
       read  |-> [b \in Bytes |->
                    LET size == SizeAt(b)
                        all  == ReadEach([i \in 1..size.val |-> read], size.rest)
                    IN  [val |-> Collected(t, all.val), rest |-> all.rest]]]

Entries(t) == Values[t.key] \X Values[t.of]

CodecOf[t \in Types] ==
  IF t.kind = "number" THEN NumberCodec(t)
  ELSE IF t.kind = "string" THEN StringCodec(t)
  ELSE IF t.kind = "tuple" THEN TupleCodec(Values[t], [i \in DOMAIN t.of |-> CodecOf[t.of[i]]])
  ELSE IF t.kind = "map"
       THEN ContainerCodec(t, TupleCodec(Entries(t), <<CodecOf[t.key], CodecOf[t.of]>>))
       ELSE ContainerCodec(t, CodecOf[t.of])

Codec == [t \in Types |-> CodecOf[t]]   \* each instantiated once

-----------------------------------------------------------------------------
(***************************************************************************)
(* findType of rpc.h: the codes that describe a type.  A map is described  *)
(* by its code and twice the type of its keys, a tuple by nothing.  (The   *)
(* codes of seq, set and map are those of vector, set and map; a pair as a *)
(* type of its own is described as a map is.)                              *)
(***************************************************************************)
Code(t) ==
  CASE t.kind = "seq" -> 1
    [] t.kind = "set" -> 4
    [] t.kind = "map" -> 9
    [] t.kind = "tuple" -> 13
    [] t.kind = "number" ->
         (IF t.signed THEN 64 ELSE 68)
           + (CASE t.width = 1 -> 0 [] t.width = 2 -> 1 [] t.width = 4 -> 2 [] t.width = 8 -> 3)
    [] t.kind = "string" -> 74

findType[t \in Types] ==
  CASE Simple(t) -> <<Code(t)>>
    [] t.kind \in {"seq", "set"} -> <<Code(t)>> \o findType[t.of]
    [] t.kind = "map" -> <<Code(t)>> \o findType[t.key] \o findType[t.key]
    [] t.kind = "tuple" -> <<>>

-----------------------------------------------------------------------------
Cleared == [buf |-> <<>>, written |-> <<>>]

Written(s, item) ==
  [buf     |-> s.buf \o Codec[item.type].write[item.val],
   written |-> Append(s.written, item)]

(* A value of each of the types, one after the other.                      *)
ReadAll(ts, b) == ReadEach([i \in DOMAIN ts |-> Codec[ts[i]].read], b)

TypesOf(items) == [i \in DOMAIN items |-> items[i].type]
ValsOf(items)  == [i \in DOMAIN items |-> items[i].val]

(* The bytes are those of the values that were written and not read yet:   *)
(* whoever asks for their types gets them, and nothing is left then.       *)
HoldsWhatWasWritten(s) ==
  ReadAll(TypesOf(s.written), s.buf) = [val |-> ValsOf(s.written), rest |-> <<>>]
=============================================================================
