------------------------------ MODULE RpcProof ------------------------------
(***************************************************************************)
(* Theorems about Rpc and the Serializer, for every set of types, values   *)
(* and functions whose values come back.                                   *)
(***************************************************************************)
EXTENDS Rpc, SequenceTheorems, FiniteSetTheorems, WellFoundedInduction, TLAPS

LEMMA LeastExists ==
  ASSUME NEW T \in SUBSET Nat, T # {}
  PROVE  \E x \in T : \A y \in T : x <= y
<1>1. PICK x \in T : \A y \in T : <<y, x>> \notin OpToRel(<, Nat)
  BY NatLessThanWellFounded, WFMin
<1>2. \A y \in T : ~(y < x)
  BY <1>1 DEF OpToRel
<1>. QED
  BY <1>2

-----------------------------------------------------------------------------
(***************************************************************************)
(* The four loops.  Each is a function chosen by its recursion over the    *)
(* rounds; there is one, by the least number of rounds for which there     *)
(* were none.                                                              *)
(***************************************************************************)

IsShift(f, n, v) ==
  f = [i \in 1..n |-> IF i = 1 THEN v ELSE f[i - 1] \div 256]

LEMMA ShiftExtends ==
  ASSUME NEW n \in Nat, NEW v, NEW f, IsShift(f, n, v)
  PROVE  \E g : IsShift(g, n + 1, v)
<1>. DEFINE g == [i \in 1..(n + 1) |-> IF i <= n THEN f[i] ELSE IF i = 1 THEN v ELSE f[i - 1] \div 256]
            h == [i \in 1..(n + 1) |-> IF i = 1 THEN v ELSE g[i - 1] \div 256]
<1>1. ASSUME NEW i \in 1..(n + 1)
      PROVE  g[i] = h[i]
  <2>0. i # 1 => i - 1 \in 1..(n + 1) /\ i - 1 <= n
    OBVIOUS
  <2>1. CASE i <= n
    <3>1. i \in 1..n
      BY <2>1
    <3>2. f[i] = IF i = 1 THEN v ELSE f[i - 1] \div 256
      BY <3>1 DEF IsShift
    <3>. QED
      BY <2>0, <2>1, <3>2
  <2>2. CASE ~(i <= n)
    BY <2>0, <2>2
  <2>. QED
    BY <2>1, <2>2
<1>2. DOMAIN g = 1..(n + 1) /\ DOMAIN h = 1..(n + 1)
  OBVIOUS
<1>3. g = h
  BY <1>1, <1>2
<1>. QED
  BY <1>3 DEF IsShift

LEMMA ShiftExists ==
  ASSUME NEW n \in Nat, NEW v
  PROVE  \E f : IsShift(f, n, v)
<1>. DEFINE Missing == {m \in Nat : ~ \E f : IsShift(f, m, v)}
<1>1. 0 \notin Missing
  <2>. DEFINE z == [i \in 1..0 |-> 0]
              h == [i \in 1..0 |-> IF i = 1 THEN v ELSE z[i - 1] \div 256]
  <2>1. ASSUME NEW i \in 1..0
        PROVE  z[i] = h[i]
    OBVIOUS
  <2>2. DOMAIN z = 1..0 /\ DOMAIN h = 1..0
    OBVIOUS
  <2>3. z = h
    <3>. HIDE DEF z, h
    <3>1. z = [i \in DOMAIN z |-> z[i]] /\ h = [i \in DOMAIN h |-> h[i]]
      BY DEF z, h
    <3>. QED
      BY <2>1, <2>2, <3>1
  <2>. QED
    BY <2>3 DEF IsShift
<1>. SUFFICES ASSUME Missing # {} PROVE FALSE
  OBVIOUS
<1>2. PICK m \in Missing : \A l \in Missing : m <= l
  <2>. Missing \in SUBSET Nat
    OBVIOUS
  <2>. HIDE DEF Missing
  <2>. QED
    BY LeastExists
<1>3. m \in Nat /\ m # 0
  BY <1>1
<1>4. m - 1 \in Nat /\ m - 1 \notin Missing /\ (m - 1) + 1 = m
  BY <1>2, <1>3
<1>5. PICK f : IsShift(f, m - 1, v)
  BY <1>4
<1>6. \E g : IsShift(g, (m - 1) + 1, v)
  BY <1>4, <1>5, ShiftExtends
<1>. QED
  BY <1>4, <1>6

IsDecoded(f, n, b, k, top) ==
  f = [i \in 1..n |-> IF i > 1 THEN b[k + 1 - i] + 256 * f[i - 1] ELSE top]

LEMMA DecodedExtends ==
  ASSUME NEW n \in Nat, NEW b, NEW k, NEW top, NEW f, IsDecoded(f, n, b, k, top)
  PROVE  \E g : IsDecoded(g, n + 1, b, k, top)
<1>. DEFINE g == [i \in 1..(n + 1) |-> IF i <= n THEN f[i] ELSE IF i > 1 THEN b[k + 1 - i] + 256 * f[i - 1] ELSE top]
            h == [i \in 1..(n + 1) |-> IF i > 1 THEN b[k + 1 - i] + 256 * g[i - 1] ELSE top]
<1>1. ASSUME NEW i \in 1..(n + 1)
      PROVE  g[i] = h[i]
  <2>0. i # 1 => i - 1 \in 1..(n + 1) /\ i - 1 <= n
    OBVIOUS
  <2>1. CASE i <= n
    <3>1. i \in 1..n
      BY <2>1
    <3>2. f[i] = IF i > 1 THEN b[k + 1 - i] + 256 * f[i - 1] ELSE top
      BY <3>1 DEF IsDecoded
    <3>. QED
      BY <2>0, <2>1, <3>2
  <2>2. CASE ~(i <= n)
    BY <2>0, <2>2
  <2>. QED
    BY <2>1, <2>2
<1>2. DOMAIN g = 1..(n + 1) /\ DOMAIN h = 1..(n + 1)
  OBVIOUS
<1>3. g = h
  BY <1>1, <1>2
<1>. QED
  BY <1>3 DEF IsDecoded

LEMMA DecodedExists ==
  ASSUME NEW n \in Nat, NEW b, NEW k, NEW top
  PROVE  \E f : IsDecoded(f, n, b, k, top)
<1>. DEFINE Missing == {m \in Nat : ~ \E f : IsDecoded(f, m, b, k, top)}
<1>1. 0 \notin Missing
  <2>. DEFINE z == [i \in 1..0 |-> 0]
              h == [i \in 1..0 |-> IF i > 1 THEN b[k + 1 - i] + 256 * z[i - 1] ELSE top]
  <2>1. ASSUME NEW i \in 1..0
        PROVE  z[i] = h[i]
    OBVIOUS
  <2>2. DOMAIN z = 1..0 /\ DOMAIN h = 1..0
    OBVIOUS
  <2>3. z = h
    <3>. HIDE DEF z, h
    <3>1. z = [i \in DOMAIN z |-> z[i]] /\ h = [i \in DOMAIN h |-> h[i]]
      BY DEF z, h
    <3>. QED
      BY <2>1, <2>2, <3>1
  <2>. QED
    BY <2>3 DEF IsDecoded
<1>. SUFFICES ASSUME Missing # {} PROVE FALSE
  OBVIOUS
<1>2. PICK m \in Missing : \A l \in Missing : m <= l
  <2>. Missing \in SUBSET Nat
    OBVIOUS
  <2>. HIDE DEF Missing
  <2>. QED
    BY LeastExists
<1>3. m \in Nat /\ m # 0
  BY <1>1
<1>4. m - 1 \in Nat /\ m - 1 \notin Missing /\ (m - 1) + 1 = m
  BY <1>2, <1>3
<1>5. PICK f : IsDecoded(f, m - 1, b, k, top)
  BY <1>4
<1>6. \E g : IsDecoded(g, (m - 1) + 1, b, k, top)
  BY <1>4, <1>5, DecodedExtends
<1>. QED
  BY <1>4, <1>6

IsSent(f, n, write, s) ==
  f = [i \in 0..n |-> IF i = 0 THEN <<>> ELSE f[i - 1] \o write[i][s[i]]]

LEMMA SentExtends ==
  ASSUME NEW n \in Nat, NEW write, NEW s, NEW f, IsSent(f, n, write, s)
  PROVE  \E g : IsSent(g, n + 1, write, s)
<1>. DEFINE g == [i \in 0..(n + 1) |-> IF i <= n THEN f[i] ELSE IF i = 0 THEN <<>> ELSE f[i - 1] \o write[i][s[i]]]
            h == [i \in 0..(n + 1) |-> IF i = 0 THEN <<>> ELSE g[i - 1] \o write[i][s[i]]]
<1>1. ASSUME NEW i \in 0..(n + 1)
      PROVE  g[i] = h[i]
  <2>0. i # 0 => i - 1 \in 0..(n + 1) /\ i - 1 <= n
    OBVIOUS
  <2>1. CASE i <= n
    <3>1. i \in 0..n
      BY <2>1
    <3>2. f[i] = IF i = 0 THEN <<>> ELSE f[i - 1] \o write[i][s[i]]
      BY <3>1 DEF IsSent
    <3>. QED
      BY <2>0, <2>1, <3>2
  <2>2. CASE ~(i <= n)
    BY <2>0, <2>2
  <2>. QED
    BY <2>1, <2>2
<1>2. DOMAIN g = 0..(n + 1) /\ DOMAIN h = 0..(n + 1)
  OBVIOUS
<1>3. g = h
  BY <1>1, <1>2
<1>. QED
  BY <1>3 DEF IsSent

LEMMA SentExists ==
  ASSUME NEW n \in Nat, NEW write, NEW s
  PROVE  \E f : IsSent(f, n, write, s)
<1>. DEFINE Missing == {m \in Nat : ~ \E f : IsSent(f, m, write, s)}
<1>1. 0 \notin Missing
  <2>. DEFINE z == [i \in 0..0 |-> <<>>]
              h == [i \in 0..0 |-> IF i = 0 THEN <<>> ELSE z[i - 1] \o write[i][s[i]]]
  <2>1. ASSUME NEW i \in 0..0
        PROVE  z[i] = h[i]
    BY SMT
  <2>2. DOMAIN z = 0..0 /\ DOMAIN h = 0..0
    OBVIOUS
  <2>3. z = h
    <3>. HIDE DEF z, h
    <3>1. z = [i \in DOMAIN z |-> z[i]] /\ h = [i \in DOMAIN h |-> h[i]]
      BY DEF z, h
    <3>. QED
      BY <2>1, <2>2, <3>1
  <2>. QED
    BY <2>3 DEF IsSent
<1>. SUFFICES ASSUME Missing # {} PROVE FALSE
  OBVIOUS
<1>2. PICK m \in Missing : \A l \in Missing : m <= l
  <2>. Missing \in SUBSET Nat
    OBVIOUS
  <2>. HIDE DEF Missing
  <2>. QED
    BY LeastExists
<1>3. m \in Nat /\ m # 0
  BY <1>1
<1>4. m - 1 \in Nat /\ m - 1 \notin Missing /\ (m - 1) + 1 = m
  BY <1>2, <1>3
<1>5. PICK f : IsSent(f, m - 1, write, s)
  BY <1>4
<1>6. \E g : IsSent(g, (m - 1) + 1, write, s)
  BY <1>4, <1>5, SentExtends
<1>. QED
  BY <1>4, <1>6

ReadOne(before, one) == [val |-> Append(before.val, one.val), rest |-> one.rest]

IsGot(f, n, read, b) ==
  f = [i \in 0..n |-> IF i = 0 THEN [val |-> <<>>, rest |-> b] ELSE ReadOne(f[i - 1], read[i][f[i - 1].rest])]

LEMMA GotExtends ==
  ASSUME NEW n \in Nat, NEW read, NEW b, NEW f, IsGot(f, n, read, b)
  PROVE  \E g : IsGot(g, n + 1, read, b)
<1>. DEFINE g == [i \in 0..(n + 1) |-> IF i <= n THEN f[i] ELSE IF i = 0 THEN [val |-> <<>>, rest |-> b] ELSE ReadOne(f[i - 1], read[i][f[i - 1].rest])]
            h == [i \in 0..(n + 1) |-> IF i = 0 THEN [val |-> <<>>, rest |-> b] ELSE ReadOne(g[i - 1], read[i][g[i - 1].rest])]
<1>1. ASSUME NEW i \in 0..(n + 1)
      PROVE  g[i] = h[i]
  <2>0. i # 0 => i - 1 \in 0..(n + 1) /\ i - 1 <= n
    OBVIOUS
  <2>1. CASE i <= n
    <3>1. i \in 0..n
      BY <2>1
    <3>2. f[i] = IF i = 0 THEN [val |-> <<>>, rest |-> b] ELSE ReadOne(f[i - 1], read[i][f[i - 1].rest])
      BY <3>1 DEF IsGot
    <3>. QED
      BY <2>0, <2>1, <3>2
  <2>2. CASE ~(i <= n)
    BY <2>0, <2>2
  <2>. QED
    BY <2>1, <2>2
<1>2. DOMAIN g = 0..(n + 1) /\ DOMAIN h = 0..(n + 1)
  OBVIOUS
<1>3. g = h
  BY <1>1, <1>2
<1>. QED
  BY <1>3 DEF IsGot

LEMMA GotExists ==
  ASSUME NEW n \in Nat, NEW read, NEW b
  PROVE  \E f : IsGot(f, n, read, b)
<1>. DEFINE Missing == {m \in Nat : ~ \E f : IsGot(f, m, read, b)}
<1>1. 0 \notin Missing
  <2>. DEFINE z == [i \in 0..0 |-> [val |-> <<>>, rest |-> b]]
              h == [i \in 0..0 |-> IF i = 0 THEN [val |-> <<>>, rest |-> b] ELSE ReadOne(z[i - 1], read[i][z[i - 1].rest])]
  <2>1. ASSUME NEW i \in 0..0
        PROVE  z[i] = h[i]
    BY SMT
  <2>2. DOMAIN z = 0..0 /\ DOMAIN h = 0..0
    OBVIOUS
  <2>3. z = h
    <3>. HIDE DEF z, h
    <3>1. z = [i \in DOMAIN z |-> z[i]] /\ h = [i \in DOMAIN h |-> h[i]]
      BY DEF z, h
    <3>. QED
      BY <2>1, <2>2, <3>1
  <2>. QED
    BY <2>3 DEF IsGot
<1>. SUFFICES ASSUME Missing # {} PROVE FALSE
  OBVIOUS
<1>2. PICK m \in Missing : \A l \in Missing : m <= l
  <2>. Missing \in SUBSET Nat
    OBVIOUS
  <2>. HIDE DEF Missing
  <2>. QED
    BY LeastExists
<1>3. m \in Nat /\ m # 0
  BY <1>1
<1>4. m - 1 \in Nat /\ m - 1 \notin Missing /\ (m - 1) + 1 = m
  BY <1>2, <1>3
<1>5. PICK f : IsGot(f, m - 1, read, b)
  BY <1>4
<1>6. \E g : IsGot(g, (m - 1) + 1, read, b)
  BY <1>4, <1>5, GotExtends
<1>. QED
  BY <1>4, <1>6

LEMMA ShiftsAre ==
  ASSUME NEW n \in Nat, NEW v
  PROVE  IsShift(Shifts(v, n), n, v)
<1>1. Shifts(v, n) = CHOOSE f : IsShift(f, n, v)
  BY DEF Shifts, IsShift
<1>. QED
  BY <1>1, ShiftExists

LEMMA DecodeIs ==
  ASSUME NEW b, NEW signed, NEW n, n = Len(b), n \in Nat
  PROVE  \E f : /\ Decode(b, signed) = f[n]
               /\ IsDecoded(f, n, b, n, IF signed /\ b[n] > 127 THEN b[n] - 256 ELSE b[n])
<1>. DEFINE top == IF signed /\ b[n] > 127 THEN b[n] - 256 ELSE b[n]
<1>1. Decode(b, signed) = (CHOOSE f : IsDecoded(f, n, b, n, top))[n]
  BY DEF Decode, IsDecoded
<1>. HIDE DEF top
<1>2. \E f : IsDecoded(f, n, b, n, top)
  BY DecodedExists
<1>3. \E f : Decode(b, signed) = f[n] /\ IsDecoded(f, n, b, n, top)
  BY <1>1, <1>2
<1>. QED
  BY <1>3 DEF top

LEMMA WriteEachIs ==
  ASSUME NEW write, NEW s, NEW n, n = Len(s), n \in Nat
  PROVE  \E f : IsSent(f, n, write, s) /\ WriteEach(write, s) = f[n]
<1>1. WriteEach(write, s) = (CHOOSE f : IsSent(f, n, write, s))[n]
  BY DEF WriteEach, IsSent
<1>. QED
  BY <1>1, SentExists

LEMMA ReadEachIs ==
  ASSUME NEW read, NEW b, NEW n, n = Len(read), n \in Nat
  PROVE  \E f : IsGot(f, n, read, b) /\ ReadEach(read, b) = f[n]
<1>1. ReadEach(read, b) = (CHOOSE f : IsGot(f, n, read, b))[n]
  BY DEF ReadEach, IsGot, ReadOne
<1>. QED
  BY <1>1, GotExists

-----------------------------------------------------------------------------
(***************************************************************************)
(* Numbers.                                                                *)
(***************************************************************************)
(* What holds in a first round and, with a round, in the next one, holds   *)
(* in all of them.                                                         *)
LEMMA EveryRound ==
  ASSUME NEW low \in Nat, NEW n \in Nat, NEW T,
         low \in T, \A i \in low..(n - 1) : i \in T => i + 1 \in T
  PROVE  \A i \in low..n : i \in T
<1>. DEFINE Missing == {i \in Nat : i \in low..n /\ i \notin T}
<1>. SUFFICES ASSUME Missing # {} PROVE FALSE
  OBVIOUS
<1>1. PICK m \in Missing : \A l \in Missing : m <= l
  <2>. Missing \in SUBSET Nat
    OBVIOUS
  <2>. HIDE DEF Missing
  <2>. QED
    BY LeastExists
<1>2. m \in Nat /\ m \in low..n /\ m \notin T
  OBVIOUS
<1>3. m # low
  BY <1>2
<1>4. m - 1 \in low..(n - 1) /\ m - 1 \in Nat /\ (m - 1) + 1 = m
  BY <1>2, <1>3
<1>5. m - 1 \notin Missing
  BY <1>1, <1>4
<1>6. m - 1 \in T
  BY <1>4, <1>5
<1>. QED
  BY <1>2, <1>4, <1>6

LEMMA ShiftsAreNumbers ==
  ASSUME NEW n \in Nat, NEW v \in Int, NEW f, IsShift(f, n, v)
  PROVE  f \in [1..n -> Int]
<1>. DEFINE T == {i \in 1..n : f[i] \in Int}
<1>1. \A i \in 1..n : f[i] = IF i = 1 THEN v ELSE f[i - 1] \div 256
  BY DEF IsShift
<1>2. CASE n = 0
  BY <1>2 DEF IsShift
<1>3. CASE n # 0
  <2>1. 1 \in T
    BY <1>1, <1>3
  <2>2. ASSUME NEW i \in 1..(n - 1), i \in T
        PROVE  i + 1 \in T
    <3>1. i + 1 \in 1..n /\ i + 1 # 1 /\ (i + 1) - 1 = i
      OBVIOUS
    <3>2. f[i + 1] = f[i] \div 256
      BY <1>1, <3>1
    <3>. QED
      BY <2>2, <3>1, <3>2
  <2>3. \A i \in 1..n : i \in T
    <3>. HIDE DEF T
    <3>. QED
      BY <2>1, <2>2, EveryRound
  <2>. QED
    BY <2>3 DEF IsShift
<1>. QED
  BY <1>2, <1>3

LEMMA EncodeIsBytes ==
  ASSUME NEW n \in Nat, NEW v \in Int
  PROVE  Encode(v, n) \in Bytes /\ Len(Encode(v, n)) = n
<1>1. Shifts(v, n) \in [1..n -> Int]
  BY ShiftsAre, ShiftsAreNumbers
<1>. DEFINE s == Shifts(v, n)
<1>2. Encode(v, n) = [i \in 1..n |-> s[i] % 256]
  BY DEF Encode
<1>. HIDE DEF s
<1>3. \A x \in Int : x % 256 \in Byte
  BY DEF Byte
<1>4. s \in [1..n -> Int]
  BY <1>1 DEF s
<1>5. [i \in 1..n |-> s[i] % 256] \in [1..n -> Byte]
  BY <1>3, <1>4
<1>6. Encode(v, n) \in [1..n -> Byte]
  BY <1>2, <1>5
<1>. QED
  BY <1>6 DEF Bytes

(* Decode goes up the bytes as Encode went down.                           *)
LEMMA DecodeEncode ==
  ASSUME NEW n \in Nat \ {0}, NEW signed \in BOOLEAN, NEW v \in Numbers(n, signed)
  PROVE  Decode(Encode(v, n), signed) = v
<1>. DEFINE b   == Encode(v, n)
            s   == Shifts(v, n)
            top == IF signed /\ b[n] > 127 THEN b[n] - 256 ELSE b[n]
<1>1. IsShift(s, n, v) /\ s \in [1..n -> Int] /\ s[n] \in (IF signed THEN -128..127 ELSE Byte)
  BY ShiftsAre, ShiftsAreNumbers DEF Numbers
<1>2. Len(b) = n /\ \A i \in 1..n : b[i] = s[i] % 256
  BY EncodeIsBytes DEF Encode, Numbers
<1>3. PICK g : Decode(b, signed) = g[n] /\ IsDecoded(g, n, b, n, top)
  <2>1. n \in Nat /\ n = Len(b)
    BY <1>2
  <2>. HIDE DEF b
  <2>. QED
    BY <2>1, DecodeIs
<1>. HIDE DEF b, s
<1>4. top = s[n]
  <2>1. b[n] = s[n] % 256 /\ s[n] \in Int
    BY <1>1, <1>2
  <2>2. ASSUME NEW x \in Int, x \in (IF signed THEN -128..127 ELSE 0..255)
        PROVE  (IF signed /\ x % 256 > 127 THEN (x % 256) - 256 ELSE x % 256) = x
    <3>1. CASE signed
      BY <2>2, <3>1
    <3>2. CASE ~signed
      BY <2>2, <3>2
    <3>. QED
      BY <3>1, <3>2
  <2>3. s[n] \in (IF signed THEN -128..127 ELSE 0..255)
    BY <1>1 DEF Byte
  <2>4. (IF signed /\ s[n] % 256 > 127 THEN (s[n] % 256) - 256 ELSE s[n] % 256) = s[n]
    BY ONLY <2>1, <2>2, <2>3
  <2>. QED
    BY <2>1, <2>4
<1>. HIDE DEF top
<1>. DEFINE T == {i \in 1..n : g[i] = s[n + 1 - i]}
<1>5. \A i \in 1..n : g[i] = IF i > 1 THEN b[n + 1 - i] + 256 * g[i - 1] ELSE top
  BY <1>3 DEF IsDecoded
<1>6. 1 \in T
  BY <1>4, <1>5
<1>7. ASSUME NEW i \in 1..(n - 1), i \in T
      PROVE  i + 1 \in T
  <2>1. i + 1 \in 1..n /\ i + 1 > 1 /\ (i + 1) - 1 = i /\ n + 1 - (i + 1) = n - i
    OBVIOUS
  <2>2. g[i + 1] = b[n - i] + 256 * s[n + 1 - i]
    BY <1>5, <1>7, <2>1
  <2>3. n - i \in 1..n /\ n + 1 - i \in 1..n /\ n + 1 - i # 1 /\ (n + 1 - i) - 1 = n - i
    OBVIOUS
  <2>4. s[n + 1 - i] = s[n - i] \div 256
    BY <1>1, <2>3 DEF IsShift
  <2>5. b[n - i] = s[n - i] % 256 /\ s[n - i] \in Int
    BY <1>1, <1>2, <2>3
  <2>6. \A x \in Int : (x % 256) + 256 * (x \div 256) = x
    BY SMT
  <2>7. g[i + 1] = s[n - i]
    BY <2>2, <2>4, <2>5, <2>6
  <2>. QED
    BY <2>1, <2>7
<1>8. n \in T
  <2>1. \A i \in 1..n : i \in T
    <3>. HIDE DEF T
    <3>. QED
      BY <1>6, <1>7, EveryRound
  <2>. QED
    BY <2>1
<1>9. g[n] = s[1] /\ s[1] = v
  BY <1>1, <1>8 DEF IsShift
<1>. QED
  BY <1>3, <1>9 DEF b

(* A value is written as b if whoever reads gets it, whatever follows b.   *)
Back(read, v, b) ==
  b \in Bytes /\ \A rest \in Bytes : read[b \o rest] = [val |-> v, rest |-> rest]

LEMMA CutAgain ==
  ASSUME NEW b \in Bytes, NEW rest \in Bytes
  PROVE  /\ b \o rest \in Bytes
         /\ SubSeq(b \o rest, 1, Len(b)) = b
         /\ Rest(b \o rest, Len(b)) = rest
<1>1. b \in Seq(Byte) /\ rest \in Seq(Byte) /\ b \o rest \in Seq(Byte)
  BY ConcatProperties DEF Bytes
<1>2. Len(b \o rest) = Len(b) + Len(rest) /\ Len(b) \in Nat /\ Len(rest) \in Nat
  BY <1>1
<1>3. \A i \in 1..Len(b) : (b \o rest)[i] = b[i]
  BY <1>1
<1>4. \A i \in 1..Len(rest) : (b \o rest)[Len(b) + i] = rest[i]
  BY <1>1
<1>5. SubSeq(b \o rest, 1, Len(b)) = b
  BY <1>1, <1>2, <1>3, SubSeqProperties, SeqEqual
<1>6. Rest(b \o rest, Len(b)) = rest
  <2>. DEFINE r == SubSeq(b \o rest, Len(b) + 1, Len(b \o rest))
  <2>1. r \in Seq(Byte) /\ Len(r) = Len(rest)
    BY <1>1, <1>2
  <2>2. \A i \in 1..Len(rest) : r[i] = rest[i]
    BY <1>1, <1>2, <1>4
  <2>3. r = rest
    <3>. HIDE DEF r
    <3>. QED
      BY <1>1, <2>1, <2>2, SeqEqual
  <2>. QED
    BY <2>3 DEF Rest
<1>. QED
  BY <1>1, <1>5, <1>6 DEF Bytes

LEMMA NumberBack ==
  ASSUME NEW n \in Nat \ {0}, NEW signed \in BOOLEAN, NEW v \in Numbers(n, signed)
  PROVE  /\ Encode(v, n) \in Bytes
         /\ \A rest \in Bytes : NumberAt(Encode(v, n) \o rest, n, signed) = [val |-> v, rest |-> rest]
<1>1. v \in Int /\ n \in Nat
  BY DEF Numbers
<1>2. Encode(v, n) \in Bytes /\ Len(Encode(v, n)) = n
  BY <1>1, EncodeIsBytes
<1>3. ASSUME NEW rest \in Bytes
      PROVE  NumberAt(Encode(v, n) \o rest, n, signed) = [val |-> v, rest |-> rest]
  <2>. DEFINE b == Encode(v, n)
  <2>1. SubSeq(b \o rest, 1, n) = b /\ Rest(b \o rest, n) = rest
    <3>. HIDE DEF b
    <3>1. b \in Bytes /\ Len(b) = n
      BY <1>2 DEF b
    <3>. QED
      BY <3>1, CutAgain
  <2>2. Decode(b, signed) = v
    BY DecodeEncode
  <2>. HIDE DEF b
  <2>. QED
    BY <2>1, <2>2 DEF NumberAt, b
<1>. QED
  BY <1>2, <1>3

-----------------------------------------------------------------------------
(***************************************************************************)
(* One value after the other.                                              *)
(***************************************************************************)
(* Bytes are cut into those of n values: cut[i] is what follows the i-th.  *)
Cut(cut, w, n) ==
  /\ cut \in [0..n -> Bytes]
  /\ \A i \in 1..n : w[i] \in Bytes /\ cut[i - 1] = w[i] \o cut[i]

(* What each of n values is written as.                                    *)
WrittenAs(w, n, write, s) == \A i \in 1..n : w[i] = write[i][s[i]] /\ w[i] \in Bytes
IsTuple(all, n, s) == all = [i \in 1..n |-> s[i]]
EachComesBack(n, read, s, w) == \A i \in 1..n : Back(read[i], s[i], w[i])
Readable(n, cut, w, s, read, all) ==
  n \in Nat /\ Len(read) = n /\ Cut(cut, w, n) /\ EachComesBack(n, read, s, w) /\ IsTuple(all, n, s)

LEMMA AppendNext ==
  ASSUME NEW n \in Nat, NEW s
  PROVE  Append([j \in 1..n |-> s[j]], s[n + 1]) = [j \in 1..(n + 1) |-> s[j]]
<1>. DEFINE S == {s[j] : j \in 1..(n + 1)}
            a == [j \in 1..n |-> s[j]]
            b == [j \in 1..(n + 1) |-> s[j]]
<1>1. a \in Seq(S) /\ Len(a) = n /\ s[n + 1] \in S
  <2>1. a \in [1..n -> S]
    OBVIOUS
  <2>. HIDE DEF a
  <2>2. s[n + 1] \in S
    OBVIOUS
  <2>. HIDE DEF S
  <2>. QED
    BY <2>1, <2>2
<1>2. b \in Seq(S) /\ Len(b) = n + 1
  <2>1. b \in [1..(n + 1) -> S]
    OBVIOUS
  <2>. HIDE DEF b, S
  <2>. QED
    BY <2>1
<1>3. \A i \in 1..n : a[i] = s[i]
  OBVIOUS
<1>4. \A i \in 1..(n + 1) : b[i] = s[i]
  OBVIOUS
<1>. HIDE DEF a, b, S
<1>5. Append(a, s[n + 1]) \in Seq(S) /\ Len(Append(a, s[n + 1])) = n + 1
  BY <1>1, AppendProperties
<1>6. \A i \in 1..(n + 1) : Append(a, s[n + 1])[i] = s[i]
  BY <1>1, <1>3, AppendProperties
<1>7. Append(a, s[n + 1]) = b
  BY <1>2, <1>4, <1>5, <1>6, SeqEqual
<1>. QED
  BY <1>7 DEF a, b

LEMMA ReadsCut ==
  ASSUME NEW n, NEW cut, NEW w, NEW s, NEW read, NEW all, Readable(n, cut, w, s, read, all)
  PROVE  ReadEach(read, cut[0]) = [val |-> all, rest |-> cut[n]]
<1>. n \in Nat /\ Len(read) = n /\ Cut(cut, w, n) /\ EachComesBack(n, read, s, w)
     /\ IsTuple(all, n, s)
  BY DEF Readable
<1>1. PICK g : IsGot(g, n, read, cut[0]) /\ ReadEach(read, cut[0]) = g[n]
  BY ReadEachIs
<1>. DEFINE T == {i \in 0..n : g[i] = [val |-> [j \in 1..i |-> s[j]], rest |-> cut[i]]}
<1>2. 0 \in T
  <2>1. g[0] = [val |-> <<>>, rest |-> cut[0]]
    BY <1>1 DEF IsGot
  <2>2. [j \in 1..0 |-> s[j]] = <<>>
    OBVIOUS
  <2>. QED
    BY <2>1, <2>2
<1>3. ASSUME NEW i \in 0..(n - 1), i \in T
      PROVE  i + 1 \in T
  <2>1. i \in Nat /\ i + 1 \in 0..n /\ i + 1 \in 1..n /\ i + 1 # 0 /\ (i + 1) - 1 = i
    OBVIOUS
  <2>2. g[i + 1] = ReadOne(g[i], read[i + 1][g[i].rest])
    BY <1>1, <2>1 DEF IsGot
  <2>3. g[i] = [val |-> [j \in 1..i |-> s[j]], rest |-> cut[i]]
    BY <1>3
  <2>4. cut[i] = w[i + 1] \o cut[i + 1] /\ cut[i + 1] \in Bytes
    BY <2>1 DEF Cut
  <2>5. read[i + 1][cut[i]] = [val |-> s[i + 1], rest |-> cut[i + 1]]
    BY <2>1, <2>4 DEF EachComesBack, Back
  <2>6. g[i + 1] = [val |-> Append([j \in 1..i |-> s[j]], s[i + 1]), rest |-> cut[i + 1]]
    <3>. DEFINE before == [j \in 1..i |-> s[j]]
    <3>1. g[i] = [val |-> before, rest |-> cut[i]]
      BY <2>3
    <3>. HIDE DEF before
    <3>2. g[i].val = before /\ g[i].rest = cut[i]
      BY <3>1
    <3>. DEFINE one == read[i + 1][cut[i]]
    <3>3. g[i + 1] = ReadOne(g[i], one)
      BY <2>2, <3>2
    <3>4. one.val = s[i + 1] /\ one.rest = cut[i + 1]
      BY <2>5
    <3>. HIDE DEF one
    <3>5. g[i + 1] = [val |-> Append(before, s[i + 1]), rest |-> cut[i + 1]]
      BY <3>2, <3>3, <3>4 DEF ReadOne
    <3>. QED
      BY <3>5 DEF before
  <2>. QED
    BY <2>1, <2>6, AppendNext
<1>4. \A i \in 0..n : i \in T
  <2>. HIDE DEF T
  <2>. QED
    BY <1>2, <1>3, EveryRound
<1>. QED
  BY <1>1, <1>4 DEF IsTuple

(* Three pieces, put together from the left or from the right; what is     *)
(* left when the same piece is taken away in front.                        *)
Regroup(whole, a, b, c) ==
  whole = (a \o b) \o c => whole = a \o (b \o c) /\ b \o c \in Seq(Byte)
Cancel(whole, a, b, c) == whole = a \o b /\ whole = a \o c => b = c

LEMMA BytesConcat ==
  ASSUME NEW a \in Seq(Byte), NEW b \in Seq(Byte), NEW c \in Seq(Byte), NEW whole
  PROVE  /\ a \o b \in Seq(Byte) /\ <<>> \o a = a
         /\ Regroup(whole, a, b, c) /\ Cancel(whole, a, b, c)
<1>1. a \o b \in Seq(Byte) /\ b \o c \in Seq(Byte) /\ <<>> \o a = a
  BY ConcatProperties, ConcatEmptySeq
<1>2. (a \o b) \o c = a \o (b \o c)
  BY ConcatAssociative
<1>3. a \in Bytes /\ b \in Bytes /\ c \in Bytes
  BY DEF Bytes
<1>4. Rest(a \o b, Len(a)) = b /\ Rest(a \o c, Len(a)) = c
  BY ONLY <1>3, CutAgain
<1>5. Regroup(whole, a, b, c)
  BY ONLY <1>1, <1>2 DEF Regroup
<1>6. Cancel(whole, a, b, c)
  BY ONLY <1>4 DEF Cancel
<1>. QED
  BY ONLY <1>1, <1>5, <1>6

LEMMA WritesCut ==
  ASSUME NEW n \in Nat, NEW write, NEW s, Len(s) = n,
         NEW w, WrittenAs(w, n, write, s), NEW rest \in Bytes
  PROVE  /\ WriteEach(write, s) \in Bytes
         /\ \E cut : /\ Cut(cut, w, n)
                     /\ cut[0] = WriteEach(write, s) \o rest /\ cut[n] = rest
<1>1. PICK f : IsSent(f, n, write, s) /\ WriteEach(write, s) = f[n]
  <2>1. n = Len(s) /\ n \in Nat
    OBVIOUS
  <2>. QED
    BY ONLY <2>1, WriteEachIs
<1>2. f[0] = <<>> /\ \A i \in 1..n : f[i] = f[i - 1] \o w[i] /\ w[i] \in Seq(Byte)
  <2>1. f[0] = <<>>
    BY <1>1 DEF IsSent
  <2>2. ASSUME NEW i \in 1..n
        PROVE  f[i] = f[i - 1] \o w[i] /\ w[i] \in Seq(Byte)
    <3>1. i \in 0..n /\ i # 0 /\ w[i] = write[i][s[i]]
      BY DEF WrittenAs
    <3>2. f[i] = IF i = 0 THEN <<>> ELSE f[i - 1] \o write[i][s[i]]
      BY <1>1, <3>1 DEF IsSent
    <3>3. w[i] \in Seq(Byte)
      BY DEF WrittenAs, Bytes
    <3>. QED
      BY <3>1, <3>2, <3>3
  <2>. QED
    BY <2>1, <2>2
<1>. DEFINE T == {i \in 0..n : f[i] \in Seq(Byte)}
<1>3. \A i \in 0..n : i \in T
  <2>1. 0 \in T
    <3>1. <<>> \in Seq(Byte) /\ 0 \in 0..n
      BY EmptySeq
    <3>. QED
      BY <1>2, <3>1
  <2>2. ASSUME NEW i \in 0..(n - 1), i \in T
        PROVE  i + 1 \in T
    <3>1. i + 1 \in 0..n /\ i + 1 \in 1..n /\ (i + 1) - 1 = i
      OBVIOUS
    <3>2. f[i] \in Seq(Byte) /\ w[i + 1] \in Seq(Byte)
      BY <1>2, <2>2, <3>1
    <3>3. f[i + 1] = f[i] \o w[i + 1]
      BY <1>2, <3>1
    <3>4. f[i] \o w[i + 1] \in Seq(Byte)
      BY <3>2, BytesConcat
    <3>. QED
      BY <3>1, <3>3, <3>4
  <2>. HIDE DEF T
  <2>. QED
    BY <2>1, <2>2, EveryRound
<1>4. \A i \in 0..n : f[i] \in Seq(Byte)
  BY <1>3
<1>. DEFINE whole  == f[n] \o rest
            Ts(i)  == {t \in Seq(Byte) : whole = f[i] \o t}
            U      == {k \in 0..n : Ts(n - k) # {}}
<1>5. rest \in Ts(n) /\ whole \in Seq(Byte)
  BY <1>4, ConcatProperties DEF Bytes
<1>. HIDE DEF whole
<1>6. \A k \in 0..n : k \in U
  <2>1. 0 \in U
    BY <1>5
  <2>2. ASSUME NEW k \in 0..(n - 1), k \in U
        PROVE  k + 1 \in U
    <3>1. k + 1 \in 0..n /\ n - k \in 1..n /\ n - (k + 1) \in 0..n /\ (n - k) - 1 = n - (k + 1)
      OBVIOUS
    <3>2. PICK t \in Seq(Byte) : whole = f[n - k] \o t
      BY <2>2
    <3>3. f[n - k] = f[n - (k + 1)] \o w[n - k] /\ t \in Seq(Byte) /\ w[n - k] \in Seq(Byte) /\ f[n - (k + 1)] \in Seq(Byte)
      BY <1>2, <1>4, <3>1
    <3>4. whole = f[n - (k + 1)] \o (w[n - k] \o t) /\ w[n - k] \o t \in Seq(Byte)
      <4>1. whole = (f[n - (k + 1)] \o w[n - k]) \o t
        BY ONLY <3>2, <3>3
      <4>2. Regroup(whole, f[n - (k + 1)], w[n - k], t)
        BY ONLY <3>3, BytesConcat
      <4>. QED
        BY ONLY <4>1, <4>2 DEF Regroup
    <3>. QED
      BY <3>1, <3>4
  <2>. HIDE DEF U
  <2>. QED
    BY <2>1, <2>2, EveryRound
<1>7. ASSUME NEW i \in 0..n
      PROVE  \E t \in Seq(Byte) : whole = f[i] \o t
  <2>1. n - i \in 0..n /\ n - (n - i) = i
    OBVIOUS
  <2>2. Ts(n - (n - i)) # {}
    BY <1>6, <2>1
  <2>. QED
    BY <2>1, <2>2
<1>. DEFINE cut == [i \in 0..n |-> CHOOSE t \in Seq(Byte) : whole = f[i] \o t]
<1>8. \A i \in 0..n : cut[i] \in Seq(Byte) /\ whole = f[i] \o cut[i]
  BY <1>7
<1>9. cut \in [0..n -> Seq(Byte)]
  BY <1>8
<1>. HIDE DEF cut
<1>10. \A i \in 0..n : \A t \in Seq(Byte) : whole = f[i] \o t => cut[i] = t
  <2>. SUFFICES ASSUME NEW i \in 0..n, NEW t \in Seq(Byte), whole = f[i] \o t
                PROVE  cut[i] = t
    OBVIOUS
  <2>1. t \in Seq(Byte) /\ f[i] \in Seq(Byte) /\ cut[i] \in Seq(Byte)
        /\ whole = f[i] \o cut[i] /\ whole = f[i] \o t
    BY <1>4, <1>8
  <2>2. Cancel(whole, f[i], cut[i], t)
    BY ONLY <2>1, BytesConcat
  <2>. QED
    BY ONLY <2>1, <2>2 DEF Cancel
<1>11. ASSUME NEW i \in 1..n
       PROVE  cut[i - 1] = w[i] \o cut[i]
  <2>1. i \in 0..n /\ i - 1 \in 0..n
    OBVIOUS
  <2>2. whole = f[i] \o cut[i] /\ cut[i] \in Seq(Byte) /\ f[i - 1] \in Seq(Byte) /\ w[i] \in Seq(Byte)
    BY <1>2, <1>4, <1>8, <2>1
  <2>3. f[i] = f[i - 1] \o w[i]
    BY <1>2
  <2>4. whole = f[i - 1] \o (w[i] \o cut[i]) /\ w[i] \o cut[i] \in Seq(Byte)
    <3>1. whole = (f[i - 1] \o w[i]) \o cut[i]
      BY ONLY <2>2, <2>3
    <3>2. Regroup(whole, f[i - 1], w[i], cut[i])
      BY ONLY <2>2, BytesConcat
    <3>. QED
      BY ONLY <3>1, <3>2 DEF Regroup
  <2>. QED
    BY <1>10, <2>1, <2>4
<1>12. Cut(cut, w, n)
  <2>1. cut \in [0..n -> Bytes]
    BY <1>9 DEF Bytes
  <2>2. \A i \in 1..n : w[i] \in Bytes
    BY <1>2 DEF Bytes
  <2>. QED
    BY ONLY <1>11, <2>1, <2>2 DEF Cut
<1>13. cut[n] = rest
  <2>1. rest \in Seq(Byte) /\ n \in 0..n /\ whole = f[n] \o rest
    BY <1>5
  <2>. QED
    BY ONLY <1>10, <2>1
<1>14. cut[0] = whole
  <2>1. whole = <<>> \o whole
    BY <1>5, BytesConcat
  <2>2. 0 \in 0..n /\ whole = f[0] \o whole
    BY <1>2, <2>1
  <2>. QED
    BY <1>5, <1>10, <2>2
<1>15. f[n] \in Bytes
  BY <1>4 DEF Bytes
<1>. QED
  BY <1>1, <1>12, <1>13, <1>14, <1>15 DEF whole

LEMMA EachBack ==
  ASSUME NEW n \in Nat, NEW write, NEW read, NEW s, Len(s) = n, Len(read) = n,
         \A i \in 1..n : Back(read[i], s[i], write[i][s[i]]),
         NEW all, IsTuple(all, n, s)
  PROVE  /\ WriteEach(write, s) \in Bytes
         /\ \A rest \in Bytes :
              ReadEach(read, WriteEach(write, s) \o rest) = [val |-> all, rest |-> rest]
<1>. DEFINE w == [i \in 1..n |-> write[i][s[i]]]
<1>1. WrittenAs(w, n, write, s)
  BY DEF WrittenAs, Back
<1>2. EachComesBack(n, read, s, w)
  BY DEF EachComesBack
<1>. HIDE DEF w
<1>3. ASSUME NEW rest \in Bytes
      PROVE  /\ WriteEach(write, s) \in Bytes
             /\ ReadEach(read, WriteEach(write, s) \o rest) = [val |-> all, rest |-> rest]
  <2>0. n \in Nat /\ Len(s) = n /\ Len(read) = n /\ rest \in Bytes
        /\ IsTuple(all, n, s)
    OBVIOUS
  <2>1. WriteEach(write, s) \in Bytes
    BY ONLY <1>1, <2>0, WritesCut
  <2>2. PICK cut : Cut(cut, w, n) /\ cut[0] = WriteEach(write, s) \o rest /\ cut[n] = rest
    BY ONLY <1>1, <2>0, WritesCut
  <2>3. ReadEach(read, cut[0]) = [val |-> all, rest |-> cut[n]]
    <3>1. Readable(n, cut, w, s, read, all)
      BY ONLY <1>2, <2>0, <2>2 DEF Readable
    <3>. QED
      BY ONLY <3>1, ReadsCut
  <2>. QED
    BY ONLY <2>1, <2>2, <2>3
<1>4. <<>> \in Bytes
  BY DEF Bytes
<1>. QED
  BY <1>3, <1>4

-----------------------------------------------------------------------------
(***************************************************************************)
(* Tuples and containers, whatever is in them.                             *)
(***************************************************************************)
LEMMA SetIsListed ==
  ASSUME NEW S, IsFiniteSet(S)
  PROVE  /\ Cardinality(S) \in Nat
         /\ SetToSeq(S) \in [1..Cardinality(S) -> S]
         /\ Range(SetToSeq(S)) = S
<1>. DEFINE n == Cardinality(S)
            I == 1..n
<1>1. n \in Nat /\ ExistsBijection(I, S)
  BY FS_CardinalityType
<1>2. IsFiniteSet(I) /\ Cardinality(I) = n
  <2>. HIDE DEF n
  <2>1. n \in Int /\ 1 \in Int
    BY <1>1
  <2>2. IsFiniteSet(1..n) /\ Cardinality(1..n) = IF 1 > n THEN 0 ELSE n - 1 + 1
    BY <2>1, FS_Interval
  <2>. QED
    BY <1>1, <2>2
<1>. HIDE DEF I
<1>3. \E f \in [I -> S] : IsInjective(f)
  BY <1>1 DEF ExistsBijection, Bijection, Injection
<1>4. SetToSeq(S) = CHOOSE f \in [I -> S] : IsInjective(f)
  BY DEF SetToSeq, I
<1>5. PICK f : f = SetToSeq(S)
  OBVIOUS
<1>6. f \in Injection(I, S)
  BY <1>3, <1>4, <1>5 DEF Injection
<1>7. f \in Surjection(I, S)
  BY <1>2, <1>6, FS_Injection
<1>8. f \in [I -> S] /\ Range(f) = S
  BY <1>6, <1>7 DEF Injection, Surjection, Range
<1>. QED
  BY <1>1, <1>5, <1>8 DEF I

(* A type and a value of it, as its codec treats them.                     *)
ComesBackBy(c, v) == Back(c.read, v, c.write[v])
EachBy(of, n, v) == \A i \in 1..n : ComesBackBy(of[i], v[i])

LEMMA TupleBack ==
  ASSUME NEW n \in Nat, NEW of, DOMAIN of = 1..n, NEW values, NEW v \in values,
         Len(v) = n, IsTuple(v, n, v), EachBy(of, n, v)
  PROVE  ComesBackBy(TupleCodec(values, of), v)
<1>. DEFINE read  == [i \in 1..n |-> of[i].read]
            write == [i \in 1..n |-> of[i].write]
            c     == TupleCodec(values, of)
            sent  == WriteEach(write, v)
<1>1. Len(read) = n
  BY LenProperties
<1>2. \A i \in 1..n : Back(read[i], v[i], write[i][v[i]])
  BY DEF EachBy, ComesBackBy
<1>3. c.write[v] = sent /\ c.read = [b \in Bytes |-> ReadEach(read, b)]
  BY DEF TupleCodec
<1>. HIDE DEF read, write, c
<1>4. sent \in Bytes /\ \A rest \in Bytes : ReadEach(read, sent \o rest) = [val |-> v, rest |-> rest]
  <2>1. n \in Nat /\ Len(v) = n /\ Len(read) = n /\ IsTuple(v, n, v)
    BY <1>1
  <2>. QED
    BY ONLY <1>2, <2>1, EachBack
<1>. HIDE DEF sent
<1>5. ASSUME NEW rest \in Bytes
      PROVE  c.read[sent \o rest] = [val |-> v, rest |-> rest]
  <2>1. sent \o rest \in Bytes
    BY <1>4, CutAgain
  <2>. QED
    BY <1>3, <1>4, <2>1
<1>6. Back(c.read, v, sent)
  BY <1>4, <1>5 DEF Back
<1>. QED
  BY <1>3, <1>6 DEF ComesBackBy, c

(* What of a container is read as one of its elements, and when.           *)
ReadBy(t, codec) == IF t.kind = "set" THEN output(t.of, codec) ELSE codec.read
ElementsBack(t, codec, s) ==
  \A i \in DOMAIN s : Back(ReadBy(t, codec), s[i], codec.write[s[i]])

LEMMA SizeBack ==
  ASSUME NEW n \in Size
  PROVE  /\ SizeBytes(n) \in Bytes
         /\ \A rest \in Bytes : SizeAt(SizeBytes(n) \o rest) = [val |-> n, rest |-> rest]
<1>1. n \in Numbers(8, FALSE)
  BY DEF Size
<1>2. FALSE \in BOOLEAN /\ 8 \in Nat \ {0}
  OBVIOUS
<1>. QED
  BY ONLY <1>1, <1>2, NumberBack DEF SizeBytes, SizeAt

LEMMA ContainerBack ==
  ASSUME NEW t, NEW codec, NEW v \in Values[t],
         NEW n \in Nat, n \in Size, NEW s, s = Listed(t, v), DOMAIN s = 1..n,
         IsTuple(s, n, s), ElementsBack(t, codec, s), Collected(t, s) = v
  PROVE  ComesBackBy(ContainerCodec(t, codec), v)
<1>. DEFINE one   == ReadBy(t, codec)
            read  == [i \in 1..n |-> one]
            write == [i \in 1..n |-> codec.write]
            c     == ContainerCodec(t, codec)
            size  == SizeBytes(n)
            sent  == WriteEach(write, s)
<1>1. Len(s) = n /\ Len(read) = n
  BY LenProperties DEF IsTuple
<1>2. c.write[v] = size \o sent
  BY <1>1 DEF ContainerCodec
<1>3. \A b \in Bytes :
        c.read[b] = LET all == ReadEach([i \in 1..SizeAt(b).val |-> one], SizeAt(b).rest)
                    IN  [val |-> Collected(t, all.val), rest |-> all.rest]
  BY DEF ContainerCodec, ReadBy
<1>4. \A i \in 1..n : Back(read[i], s[i], write[i][s[i]])
  BY DEF ElementsBack
<1>. HIDE DEF one, c
<1>5. sent \in Bytes /\ \A rest \in Bytes : ReadEach(read, sent \o rest) = [val |-> s, rest |-> rest]
  <2>. HIDE DEF read, write
  <2>1. n \in Nat /\ Len(s) = n /\ Len(read) = n /\ IsTuple(s, n, s)
    BY <1>1
  <2>. QED
    BY ONLY <1>4, <2>1, EachBack
<1>. HIDE DEF sent
<1>6. size \in Bytes /\ \A rest \in Bytes : SizeAt(size \o rest) = [val |-> n, rest |-> rest]
  BY SizeBack
<1>. HIDE DEF size
<1>7. ASSUME NEW rest \in Bytes
      PROVE  c.read[(size \o sent) \o rest] = [val |-> v, rest |-> rest]
  <2>. DEFINE b == size \o (sent \o rest)
  <2>1. sent \o rest \in Bytes /\ size \o sent \in Bytes /\ b \in Bytes
    BY ONLY <1>5, <1>6, <1>7, CutAgain
  <2>2. (size \o sent) \o rest = b
    BY ONLY <1>5, <1>6, <1>7, ConcatAssociative DEF Bytes
  <2>3. SizeAt(b) = [val |-> n, rest |-> sent \o rest]
    BY <1>6, <2>1
  <2>. HIDE DEF b
  <2>4. SizeAt(b).val = n /\ SizeAt(b).rest = sent \o rest
    BY <2>3
  <2>5. ReadEach(read, sent \o rest) = [val |-> s, rest |-> rest]
    BY <1>5
  <2>6. [i \in 1..SizeAt(b).val |-> one] = read
    BY <2>4
  <2>. HIDE DEF read
  <2>7. c.read[b] = [val |-> Collected(t, s), rest |-> rest]
    <3>1. c.read[b] = LET all == ReadEach([i \in 1..SizeAt(b).val |-> one], SizeAt(b).rest)
                      IN  [val |-> Collected(t, all.val), rest |-> all.rest]
      BY <1>3, <2>1
    <3>. DEFINE all == ReadEach(read, sent \o rest)
    <3>2. c.read[b] = [val |-> Collected(t, all.val), rest |-> all.rest]
      BY <2>4, <2>6, <3>1
    <3>3. all.val = s /\ all.rest = rest
      BY <2>5
    <3>. QED
      BY ONLY <3>2, <3>3
  <2>. QED
    BY <2>2, <2>7
<1>8. size \o sent \in Bytes
  BY <1>5, <1>6, CutAgain
<1>9. Back(c.read, v, size \o sent)
  BY <1>7, <1>8 DEF Back
<1>. QED
  BY <1>2, <1>9 DEF ComesBackBy, c

-----------------------------------------------------------------------------
(***************************************************************************)
(* There is a codec of every type, as types are finitely nested.           *)
(***************************************************************************)
Rule(codecs, t) ==
  IF t.kind = "number" THEN NumberCodec(t)
  ELSE IF t.kind = "string" THEN StringCodec(t)
  ELSE IF t.kind = "tuple" THEN TupleCodec(Values[t], [i \in DOMAIN t.of |-> codecs[t.of[i]]])
  ELSE IF t.kind = "map"
       THEN ContainerCodec(t, TupleCodec(Entries(t), <<codecs[t.key], codecs[t.of]>>))
       ELSE ContainerCodec(t, codecs[t.of])

Kinds == {"number", "string", "seq", "set", "map", "tuple"}

LEMMA TypeFacts ==
  ASSUME NEW t \in Types
  PROVE  /\ t.kind \in Kinds /\ depth[t] \in Nat
         /\ \A u \in Parts(t) : u \in Types /\ depth[u] \in Nat /\ depth[u] < depth[t]
         /\ t.kind = "number" => t.width \in {1, 2, 4, 8} /\ t.signed \in BOOLEAN
         /\ t.kind = "tuple" => t.of \in Seq(Types)
         /\ \A v \in Values[t] : CanHold(t, v)
<1>1. \A u \in Types : depth[u] \in Nat
  BY TypesAssumption
<1>2. t.kind \in Kinds /\ depth[t] \in Nat
  BY TypesAssumption DEF Kinds
<1>3. \A u \in Parts(t) : u \in Types /\ depth[u] < depth[t]
  BY TypesAssumption
<1>4. t.kind = "number" => t.width \in {1, 2, 4, 8} /\ t.signed \in BOOLEAN
  BY TypesAssumption
<1>5. t.kind = "tuple" => t.of \in Seq(Types)
  BY TypesAssumption
<1>6. \A v \in Values[t] : CanHold(t, v)
  BY TypesAssumption
<1>. QED
  BY <1>1, <1>2, <1>3, <1>4, <1>5, <1>6

LEMMA PartsOf ==
  ASSUME NEW t
  PROVE  /\ t.kind \in {"seq", "set"} => Parts(t) = {t.of}
         /\ t.kind = "map" => Parts(t) = {t.key, t.of}
         /\ t.kind = "tuple" => Parts(t) = Range(t.of)
<1>1. CASE t.kind \in {"seq", "set"}
  BY <1>1 DEF Parts, Simple
<1>2. CASE t.kind = "map"
  BY <1>2 DEF Parts, Simple
<1>3. CASE t.kind = "tuple"
  BY <1>3 DEF Parts, Simple
<1>. QED
  BY <1>1, <1>2, <1>3

(* The rule looks only at the codecs of the parts.                         *)
LEMMA RuleByParts ==
  ASSUME NEW t \in Types, NEW f, NEW g, \A u \in Parts(t) : f[u] = g[u]
  PROVE  Rule(f, t) = Rule(g, t)
<1>1. CASE t.kind = "number"
  BY <1>1 DEF Rule
<1>2. CASE t.kind = "string"
  BY <1>2 DEF Rule
<1>3. CASE t.kind \in {"seq", "set"}
  <2>1. f[t.of] = g[t.of]
    BY <1>3, PartsOf
  <2>2. \A h : Rule(h, t) = ContainerCodec(t, h[t.of])
    BY <1>3 DEF Rule
  <2>. QED
    BY ONLY <2>1, <2>2
<1>4. CASE t.kind = "map"
  <2>1. f[t.of] = g[t.of] /\ f[t.key] = g[t.key]
    BY <1>4, PartsOf
  <2>2. \A h : Rule(h, t) = ContainerCodec(t, TupleCodec(Entries(t), <<h[t.key], h[t.of]>>))
    BY <1>4 DEF Rule
  <2>. QED
    BY ONLY <2>1, <2>2
<1>5. CASE t.kind = "tuple"
  <2>1. \A i \in DOMAIN t.of : f[t.of[i]] = g[t.of[i]]
    BY <1>5, PartsOf DEF Range
  <2>2. \A h : Rule(h, t) = TupleCodec(Values[t], [i \in DOMAIN t.of |-> h[t.of[i]]])
    BY <1>5 DEF Rule
  <2>. DEFINE F == [i \in DOMAIN t.of |-> f[t.of[i]]]
              G == [i \in DOMAIN t.of |-> g[t.of[i]]]
  <2>3. F = G
    BY <2>1
  <2>4. Rule(f, t) = TupleCodec(Values[t], F) /\ Rule(g, t) = TupleCodec(Values[t], G)
    BY <2>2
  <2>. QED
    BY ONLY <2>3, <2>4
<1>. QED
  BY <1>1, <1>2, <1>3, <1>4, <1>5, TypeFacts DEF Kinds

(* The codecs of the types that are nested less than k deep.               *)
Below(k) == {t \in Types : depth[t] < k}
IsCodecs(f, k) == f = [t \in Below(k) |-> Rule(f, t)]

LEMMA CodecsBelow ==
  ASSUME NEW n \in Nat
  PROVE  \A k \in 0..n : \E f : IsCodecs(f, k)
<1>. DEFINE T == {k \in 0..n : \E f : IsCodecs(f, k)}
<1>1. 0 \in T
  <2>1. \A t \in Below(0) : FALSE
    BY TypeFacts DEF Below
  <2>. DEFINE z == [t \in Below(0) |-> 0]
              h == [t \in Below(0) |-> Rule(z, t)]
  <2>2. \A t \in Below(0) : z[t] = h[t]
    BY <2>1
  <2>3. z = h
    BY <2>2
  <2>. QED
    BY <2>3 DEF IsCodecs
<1>2. ASSUME NEW k \in 0..(n - 1), k \in T
      PROVE  k + 1 \in T
  <2>1. PICK f : IsCodecs(f, k)
    BY <1>2
  <2>. DEFINE g == [t \in Below(k + 1) |-> IF depth[t] < k THEN f[t] ELSE Rule(f, t)]
              h == [t \in Below(k + 1) |-> Rule(g, t)]
  <2>2. ASSUME NEW t \in Below(k + 1)
        PROVE  g[t] = h[t]
    <3>1. t \in Types /\ depth[t] \in Nat /\ depth[t] < k + 1
      BY TypeFacts DEF Below
    <3>2. \A u \in Parts(t) : u \in Below(k + 1) /\ depth[u] < k
      BY <3>1, TypeFacts DEF Below
    <3>3. \A u \in Parts(t) : f[u] = g[u]
      BY <3>2
    <3>4. g[t] = Rule(f, t)
      <4>1. CASE depth[t] < k
        <5>1. t \in Below(k)
          BY <3>1, <4>1 DEF Below
        <5>2. f[t] = Rule(f, t)
          BY <2>1, <5>1 DEF IsCodecs
        <5>. QED
          BY <4>1, <5>2
      <4>2. CASE ~(depth[t] < k)
        BY <4>2
      <4>. QED
        BY <4>1, <4>2
    <3>. HIDE DEF g
    <3>5. Rule(f, t) = Rule(g, t)
      BY <3>1, <3>3, RuleByParts
    <3>. QED
      BY <3>4, <3>5
  <2>3. g = h
    BY <2>2
  <2>4. IsCodecs(g, k + 1)
    BY <2>3 DEF IsCodecs
  <2>5. k + 1 \in 0..n
    OBVIOUS
  <2>. QED
    BY <2>4, <2>5
<1>. HIDE DEF T
<1>3. \A k \in 0..n : k \in T
  BY <1>1, <1>2, EveryRound
<1>. QED
  BY <1>3 DEF T

LEMMA CodecsAgree ==
  ASSUME NEW k \in Nat, NEW m \in Nat, NEW f, NEW g, IsCodecs(f, k), IsCodecs(g, m)
  PROVE  \A t \in Below(k) \cap Below(m) : f[t] = g[t]
<1>. DEFINE Wrong == {t \in Below(k) \cap Below(m) : f[t] # g[t]}
            D     == {depth[t] : t \in Wrong}
<1>. SUFFICES ASSUME Wrong # {} PROVE FALSE
  OBVIOUS
<1>1. \A t \in Wrong : t \in Types /\ depth[t] \in Nat /\ t \in Below(k) /\ t \in Below(m)
  BY TypeFacts DEF Below
<1>. HIDE DEF Wrong
<1>2. D # {} /\ D \in SUBSET Nat
  BY <1>1
<1>. HIDE DEF D
<1>3. PICK d \in D : \A e \in D : d <= e
  BY <1>2, LeastExists
<1>4. PICK t \in Wrong : depth[t] = d
  BY DEF D
<1>5. ASSUME NEW u \in Parts(t)
      PROVE  f[u] = g[u]
  <2>1. u \in Types /\ depth[u] \in Nat /\ depth[u] < depth[t]
    BY <1>1, <1>4, TypeFacts
  <2>2. u \in Below(k) \cap Below(m)
    BY <1>1, <1>4, <2>1 DEF Below
  <2>3. u \notin Wrong
    <3>. SUFFICES ASSUME u \in Wrong PROVE FALSE
      OBVIOUS
    <3>1. depth[u] \in D
      BY DEF D
    <3>2. d <= depth[u]
      BY <1>3, <3>1
    <3>. QED
      BY <1>1, <1>4, <2>1, <3>2
  <2>. QED
    BY <2>2, <2>3 DEF Wrong
<1>6. Rule(f, t) = Rule(g, t)
  BY <1>1, <1>4, <1>5, RuleByParts
<1>7. f[t] = Rule(f, t) /\ g[t] = Rule(g, t)
  BY <1>1, <1>4 DEF IsCodecs
<1>. QED
  BY <1>4, <1>6, <1>7 DEF Wrong

LEMMA CodecIs ==
  \A t \in Types : Codec[t] = Rule(Codec, t)
<1>. DEFINE Of(t) == CHOOSE f : IsCodecs(f, depth[t] + 1)
            F     == [t \in Types |-> Of(t)[t]]
            G     == [t \in Types |-> Rule(F, t)]
<1>1. \A t \in Types : IsCodecs(Of(t), depth[t] + 1)
  <2>. SUFFICES ASSUME NEW t \in Types PROVE \E f : IsCodecs(f, depth[t] + 1)
    OBVIOUS
  <2>1. depth[t] + 1 \in Nat /\ depth[t] + 1 \in 0..(depth[t] + 1)
    BY TypeFacts
  <2>. QED
    BY <2>1, CodecsBelow
<1>. HIDE DEF Of
<1>2. ASSUME NEW t \in Types
      PROVE  F[t] = G[t]
  <2>1. depth[t] \in Nat /\ depth[t] + 1 \in Nat /\ t \in Below(depth[t] + 1)
    BY TypeFacts DEF Below
  <2>2. Of(t)[t] = Rule(Of(t), t)
    BY <1>1, <2>1 DEF IsCodecs
  <2>3. ASSUME NEW u \in Parts(t)
        PROVE  Of(t)[u] = F[u]
    <3>1. u \in Types /\ depth[u] \in Nat /\ depth[u] + 1 \in Nat /\ depth[u] < depth[t]
      BY TypeFacts
    <3>2. u \in Below(depth[t] + 1) \cap Below(depth[u] + 1)
      BY <2>1, <3>1 DEF Below
    <3>3. Of(t)[u] = Of(u)[u]
      BY <1>1, <2>1, <3>1, <3>2, CodecsAgree
    <3>. QED
      BY <3>1, <3>3
  <2>. HIDE DEF F
  <2>4. Rule(Of(t), t) = Rule(F, t)
    BY <2>3, RuleByParts
  <2>. QED
    BY <2>2, <2>4 DEF F
<1>3. F = G
  BY <1>2
<1>4. \E f : f = [t \in Types |-> Rule(f, t)]
  BY <1>3
<1>5. CodecOf = CHOOSE f : f = [t \in Types |-> Rule(f, t)]
  BY DEF CodecOf, Rule
<1>6. CodecOf = [t \in Types |-> Rule(CodecOf, t)]
  BY <1>4, <1>5
<1>7. ASSUME NEW t \in Types
      PROVE  Codec[t] = Rule(Codec, t)
  <2>1. \A u \in Types : Codec[u] = CodecOf[u]
    BY DEF Codec
  <2>2. Rule(Codec, t) = Rule(CodecOf, t)
    BY <2>1, TypeFacts, RuleByParts
  <2>3. CodecOf[t] = Rule(CodecOf, t)
    BY <1>6
  <2>. QED
    BY <2>1, <2>2, <2>3
<1>. QED
  BY <1>7

-----------------------------------------------------------------------------
(***************************************************************************)
(* Types, one kind after the other.                                        *)
(***************************************************************************)
AllOf(t) == \A v \in Values[t] : ComesBackBy(Codec[t], v)

LEMMA NumbersBack ==
  ASSUME NEW t \in Types, t.kind = "number"
  PROVE  AllOf(t)
<1>. SUFFICES ASSUME NEW v \in Values[t]
              PROVE  ComesBackBy(Codec[t], v)
  BY DEF AllOf
<1>1. v \in Numbers(t.width, t.signed)
  <2>1. CanHold(t, v)
    BY TypeFacts
  <2>. QED
    BY <2>1 DEF CanHold
<1>2. t.width \in Nat \ {0} /\ t.signed \in BOOLEAN
  BY TypeFacts
<1>3. Codec[t] = NumberCodec(t)
  BY CodecIs DEF Rule
<1>. DEFINE sent == Encode(v, t.width)
<1>4. Codec[t].write[v] = sent
  BY <1>3 DEF NumberCodec
<1>5. \A b \in Bytes : Codec[t].read[b] = NumberAt(b, t.width, t.signed)
  BY <1>3 DEF NumberCodec
<1>6. sent \in Bytes /\ \A rest \in Bytes : NumberAt(sent \o rest, t.width, t.signed) = [val |-> v, rest |-> rest]
  BY ONLY <1>1, <1>2, NumberBack
<1>. HIDE DEF sent
<1>7. ASSUME NEW rest \in Bytes
      PROVE  Codec[t].read[sent \o rest] = [val |-> v, rest |-> rest]
  <2>1. sent \o rest \in Bytes
    BY <1>6, CutAgain
  <2>. QED
    BY <1>5, <1>6, <2>1
<1>. QED
  BY <1>4, <1>6, <1>7 DEF ComesBackBy, Back

LEMMA SequencesBack ==
  ASSUME NEW t \in Types, t.kind = "seq", AllOf(t.of)
  PROVE  AllOf(t)
<1>. SUFFICES ASSUME NEW v \in Values[t]
              PROVE  ComesBackBy(Codec[t], v)
  BY DEF AllOf
<1>1. v \in Seq(Values[t.of]) /\ Len(v) \in Size
  <2>1. CanHold(t, v)
    BY TypeFacts
  <2>. QED
    BY <2>1 DEF CanHold
<1>. DEFINE n == Len(v)
            codec == Codec[t.of]
<1>2. n \in Nat /\ DOMAIN v = 1..n /\ IsTuple(v, n, v) /\ \A i \in 1..n : v[i] \in Values[t.of]
  BY <1>1 DEF IsTuple
<1>3. Codec[t] = ContainerCodec(t, codec)
  BY CodecIs DEF Rule
<1>4. v = Listed(t, v) /\ Collected(t, v) = v
  BY DEF Listed, Collected
<1>5. ElementsBack(t, codec, v)
  BY <1>2 DEF ElementsBack, ReadBy, AllOf, ComesBackBy
<1>6. v \in Values[t] /\ n \in Size
  BY <1>1
<1>. HIDE DEF n, codec
<1>7. ComesBackBy(ContainerCodec(t, codec), v)
  BY ONLY <1>2, <1>4, <1>5, <1>6, ContainerBack
<1>. QED
  BY <1>3, <1>7

(* A set, of whatever comes back, once its elements are read as such.      *)
LEMMA SetBack ==
  ASSUME NEW t, t.kind # "seq", NEW codec, NEW v \in Values[t],
         IsFiniteSet(v), Cardinality(v) \in Size,
         \A x \in v : Back(ReadBy(t, codec), x, codec.write[x])
  PROVE  ComesBackBy(ContainerCodec(t, codec), v)
<1>. DEFINE s == SetToSeq(v)
            n == Cardinality(v)
<1>1. n \in Nat /\ s \in [1..n -> v] /\ Range(s) = v
  BY SetIsListed
<1>2. s = Listed(t, v) /\ Collected(t, s) = Range(s)
  BY DEF Listed, Collected
<1>. HIDE DEF s, n
<1>3. DOMAIN s = 1..n /\ IsTuple(s, n, s) /\ \A i \in 1..n : s[i] \in v
  BY <1>1 DEF IsTuple
<1>4. ElementsBack(t, codec, s)
  BY <1>3 DEF ElementsBack
<1>5. v \in Values[t] /\ n \in Size /\ n \in Nat /\ Collected(t, s) = v
  BY <1>1, <1>2 DEF n
<1>. QED
  BY ONLY <1>2, <1>3, <1>4, <1>5, ContainerBack

LEMMA SetsBack ==
  ASSUME NEW t \in Types, t.kind = "set", t.of.kind = "number", AllOf(t.of)
  PROVE  AllOf(t)
<1>. SUFFICES ASSUME NEW v \in Values[t]
              PROVE  ComesBackBy(Codec[t], v)
  BY DEF AllOf
<1>1. v \in SUBSET Values[t.of] /\ IsFiniteSet(v) /\ Cardinality(v) \in Size
  <2>1. CanHold(t, v)
    BY TypeFacts
  <2>. QED
    BY <2>1 DEF CanHold
<1>2. Codec[t] = ContainerCodec(t, Codec[t.of])
  BY CodecIs DEF Rule
<1>3. ReadBy(t, Codec[t.of]) = Codec[t.of].read
  BY DEF ReadBy, output, Simple
<1>4. \A x \in v : Back(ReadBy(t, Codec[t.of]), x, Codec[t.of].write[x])
  BY <1>1, <1>3 DEF AllOf, ComesBackBy
<1>5. t.kind # "seq" /\ v \in Values[t]
  OBVIOUS
<1>6. ComesBackBy(ContainerCodec(t, Codec[t.of]), v)
  BY ONLY <1>1, <1>4, <1>5, SetBack
<1>. QED
  BY <1>2, <1>6

LEMMA MapsBack ==
  ASSUME NEW t \in Types, t.kind = "map", AllOf(t.key), AllOf(t.of)
  PROVE  AllOf(t)
<1>. SUFFICES ASSUME NEW v \in Values[t]
              PROVE  ComesBackBy(Codec[t], v)
  BY DEF AllOf
<1>1. v \in SUBSET Entries(t) /\ IsFiniteSet(v) /\ Cardinality(v) \in Size
  <2>1. CanHold(t, v)
    BY TypeFacts
  <2>. QED
    BY <2>1 DEF CanHold
<1>. DEFINE of   == <<Codec[t.key], Codec[t.of]>>
            pair == TupleCodec(Entries(t), of)
<1>2. Codec[t] = ContainerCodec(t, pair)
  BY CodecIs DEF Rule
<1>3. ASSUME NEW p \in Entries(t)
      PROVE  ComesBackBy(pair, p)
  <2>1. p[1] \in Values[t.key] /\ p[2] \in Values[t.of] /\ DOMAIN p = 1..2 /\ Len(p) = 2
    BY DEF Entries
  <2>2. IsTuple(p, 2, p)
    BY DEF Entries, IsTuple
  <2>3. EachBy(of, 2, p)
    <3>1. ComesBackBy(Codec[t.key], p[1]) /\ ComesBackBy(Codec[t.of], p[2])
      BY <2>1 DEF AllOf
    <3>2. \A i \in 1..2 : i = 1 \/ i = 2
      OBVIOUS
    <3>. QED
      BY <3>1, <3>2 DEF EachBy
  <2>4. DOMAIN of = 1..2 /\ 2 \in Nat /\ p \in Entries(t)
    OBVIOUS
  <2>. HIDE DEF of
  <2>. QED
    BY ONLY <2>1, <2>2, <2>3, <2>4, TupleBack
<1>. HIDE DEF pair
<1>4. ReadBy(t, pair) = pair.read
  BY DEF ReadBy
<1>5. \A x \in v : Back(ReadBy(t, pair), x, pair.write[x])
  BY <1>1, <1>3, <1>4 DEF ComesBackBy
<1>6. t.kind # "seq" /\ v \in Values[t]
  OBVIOUS
<1>7. ComesBackBy(ContainerCodec(t, pair), v)
  BY ONLY <1>1, <1>5, <1>6, SetBack
<1>. QED
  BY <1>2, <1>7

LEMMA TuplesBack ==
  ASSUME NEW t \in Types, t.kind = "tuple", \A i \in DOMAIN t.of : AllOf(t.of[i])
  PROVE  AllOf(t)
<1>. SUFFICES ASSUME NEW v \in Values[t]
              PROVE  ComesBackBy(Codec[t], v)
  BY DEF AllOf
<1>1. v = [i \in DOMAIN t.of |-> v[i]] /\ \A i \in DOMAIN t.of : v[i] \in Values[t.of[i]]
  <2>1. CanHold(t, v)
    BY TypeFacts
  <2>. QED
    BY <2>1 DEF CanHold
<1>. DEFINE n  == Len(t.of)
            of == [i \in DOMAIN t.of |-> Codec[t.of[i]]]
<1>2. n \in Nat /\ DOMAIN t.of = 1..n
  BY TypeFacts
<1>3. Codec[t] = TupleCodec(Values[t], of)
  BY CodecIs DEF Rule
<1>4. IsTuple(v, n, v) /\ Len(v) = n
  <2>. HIDE DEF n
  <2>1. v = [i \in 1..n |-> v[i]]
    BY <1>1, <1>2
  <2>2. DOMAIN v = 1..n
    BY <2>1
  <2>. QED
    BY <1>2, <2>1, <2>2, LenProperties DEF IsTuple
<1>5. EachBy(of, n, v)
  BY <1>1, <1>2 DEF EachBy, AllOf
<1>6. DOMAIN of = 1..n /\ v \in Values[t]
  BY <1>2
<1>. HIDE DEF of, n
<1>7. ComesBackBy(TupleCodec(Values[t], of), v)
  BY ONLY <1>2, <1>4, <1>5, <1>6, TupleBack
<1>. QED
  BY <1>3, <1>7

(* Whatever is written is what is read, however deep it is nested: there   *)
(* is no least depth at which it is not.                                   *)
LEMMA AllBack ==
  ASSUME ComeBack
  PROVE  \A t \in Types : AllOf(t)
<1>. DEFINE Wrong == {t \in Types : ~AllOf(t)}
            D     == {depth[t] : t \in Wrong}
<1>. SUFFICES ASSUME Wrong # {} PROVE FALSE
  OBVIOUS
<1>1. \A t \in Wrong : t \in Types /\ depth[t] \in Nat
  BY TypeFacts
<1>2. D # {} /\ D \in SUBSET Nat
  BY <1>1
<1>. HIDE DEF D
<1>3. PICK d \in D : \A e \in D : d <= e
  BY <1>2, LeastExists
<1>4. PICK t \in Wrong : depth[t] = d
  BY DEF D
<1>5. ASSUME NEW u \in Parts(t)
      PROVE  AllOf(u)
  <2>1. u \in Types /\ depth[u] \in Nat /\ depth[u] < depth[t]
    BY <1>1, <1>4, TypeFacts
  <2>2. u \notin Wrong
    <3>. SUFFICES ASSUME u \in Wrong PROVE FALSE
      OBVIOUS
    <3>1. depth[u] \in D
      BY DEF D
    <3>. QED
      BY <1>1, <1>3, <1>4, <2>1, <3>1
  <2>. QED
    BY <2>1, <2>2
<1>6. t \in Types /\ ~AllOf(t)
  BY <1>4
<1>. HIDE DEF Wrong
<1>7. t.kind \in Kinds /\ t.kind # "string" /\ (t.kind = "set" => t.of.kind = "number")
  BY <1>6, TypeFacts DEF ComeBack
<1>8. CASE t.kind = "number"
  BY <1>6, <1>8, NumbersBack
<1>9. CASE t.kind = "seq"
  BY <1>5, <1>6, <1>9, SequencesBack, PartsOf
<1>10. CASE t.kind = "set"
  BY <1>5, <1>6, <1>7, <1>10, SetsBack, PartsOf
<1>11. CASE t.kind = "map"
  BY <1>5, <1>6, <1>11, MapsBack, PartsOf
<1>12. CASE t.kind = "tuple"
  <2>1. \A i \in DOMAIN t.of : AllOf(t.of[i])
    BY <1>5, <1>12, PartsOf DEF Range
  <2>. QED
    BY <1>6, <1>12, <2>1, TuplesBack
<1>. QED
  BY <1>7, <1>8, <1>9, <1>10, <1>11, <1>12 DEF Kinds

-----------------------------------------------------------------------------
(***************************************************************************)
(* What a serializer holds: the bytes of the items that were written to it *)
(* and not read, one after the other, and nothing else.  (That it holds    *)
(* what reads as their values is not inductive: that does not say where    *)
(* the first of them ends.)                                                *)
(***************************************************************************)
AllValues(S) == \A x \in S : Value(x)

BytesOf(items) == [i \in DOMAIN items |-> Codec[items[i].type].write[items[i].val]]

CutFor(cut, buf, items) ==
  Cut(cut, BytesOf(items), Len(items)) /\ cut[0] = buf /\ cut[Len(items)] = <<>>
Holds(buf, items) == \E cut : CutFor(cut, buf, items)

LEMMA HoldsNothing == Holds(<<>>, <<>>)
<1>. DEFINE cut == [i \in 0..0 |-> <<>>]
<1>1. cut \in [0..0 -> Bytes] /\ cut[0] = <<>>
  BY DEF Bytes
<1>2. \A i \in 1..0 : FALSE
  OBVIOUS
<1>3. Len(<<>>) = 0
  OBVIOUS
<1>. HIDE DEF cut
<1>4. Cut(cut, BytesOf(<<>>), 0)
  BY <1>1, <1>2 DEF Cut
<1>. QED
  BY <1>1, <1>3, <1>4 DEF Holds, CutFor

(* Who reads the first k of the items gets them and leaves the others.     *)
Taken(items, buf, k) ==
  LET first == SubSeq(items, 1, k) IN
  \E cut : /\ CutFor(cut, buf, items)
           /\ ReadAll(TypesOf(first), buf) = [val |-> ValsOf(first), rest |-> cut[k]]
           /\ Holds(cut[k], SubSeq(items, k + 1, Len(items)))

LEMMA TakeFirst ==
  ASSUME ComeBack, NEW S, AllValues(S), NEW items \in Seq(S), NEW buf,
         Holds(buf, items), NEW k \in 0..Len(items)
  PROVE  Taken(items, buf, k)
<1>0. PICK first, after : first = SubSeq(items, 1, k) /\ after = SubSeq(items, k + 1, Len(items))
  OBVIOUS
<1>. DEFINE n == Len(items)
            w == BytesOf(items)
<1>1. PICK cut : CutFor(cut, buf, items)
  BY DEF Holds
<1>2. n \in Nat /\ k \in Nat /\ k \in 0..n /\ DOMAIN items = 1..n /\ \A i \in 1..n : items[i] \in S
  OBVIOUS
<1>3. first \in Seq(S) /\ Len(first) = k /\ DOMAIN first = 1..k /\ \A i \in 1..k : first[i] = items[i]
  BY <1>0, <1>2, SubSeqProperties
<1>4. after \in Seq(S) /\ Len(after) = n - k /\ DOMAIN after = 1..(n - k)
      /\ \A i \in 1..(n - k) : after[i] = items[k + i]
  <2>1. items \in Seq(S) /\ k + 1 \in 1..(n + 1) /\ n \in ((k + 1) - 1)..n /\ n = Len(items)
    BY <1>2
  <2>2. after \in Seq(S) /\ Len(after) = n - k
    <3>1. after = SubSeq(items, k + 1, n)
      BY <1>0
    <3>. HIDE DEF n
    <3>2. SubSeq(items, k + 1, n) \in Seq(S) /\ Len(SubSeq(items, k + 1, n)) = n - (k + 1) + 1
      BY ONLY <2>1, SubSeqProperties
    <3>. QED
      BY ONLY <1>2, <3>1, <3>2
  <2>3. \A i \in 1..(n - k) : after[i] = items[k + i]
    BY <1>0, <1>2, <2>1, SubSeqProperties
  <2>. HIDE DEF n
  <2>4. DOMAIN after = 1..(n - k)
    BY <2>2
  <2>. QED
    BY <2>2, <2>3, <2>4
<1>5. Cut(cut, w, n) /\ cut[0] = buf /\ cut[n] = <<>>
  BY <1>1 DEF CutFor
<1>. HIDE DEF n
<1>6. \A i \in 1..n : w[i] = Codec[items[i].type].write[items[i].val]
  BY <1>2 DEF BytesOf
<1>. HIDE DEF w
<1>. DEFINE cut1 == [i \in 0..k |-> cut[i]]
            cut2 == [i \in 0..(n - k) |-> cut[k + i]]
            vals == ValsOf(first)
            ts   == TypesOf(first)
            read == [i \in DOMAIN ts |-> Codec[ts[i]].read]
<1>7. Cut(cut1, w, k) /\ cut1[0] = buf /\ cut1[k] = cut[k]
  <2>1. cut1 \in [0..k -> Bytes]
    BY <1>2, <1>5 DEF Cut
  <2>2. ASSUME NEW i \in 1..k
        PROVE  w[i] \in Bytes /\ cut1[i - 1] = w[i] \o cut1[i]
    <3>1. i \in 1..n /\ i \in 0..k /\ i - 1 \in 0..k
      BY <1>2
    <3>2. cut1[i - 1] = cut[i - 1] /\ cut1[i] = cut[i]
      BY <3>1
    <3>. QED
      BY <1>5, <3>1, <3>2 DEF Cut
  <2>3. cut1[0] = buf /\ cut1[k] = cut[k]
    BY <1>2, <1>5
  <2>. QED
    BY ONLY <2>1, <2>2, <2>3 DEF Cut
<1>8. Cut(cut2, BytesOf(after), n - k) /\ cut2[0] = cut[k] /\ cut2[n - k] = <<>>
  <2>1. n - k \in Nat /\ cut2 \in [0..(n - k) -> Bytes]
    BY <1>2, <1>5 DEF Cut
  <2>2. ASSUME NEW i \in 1..(n - k)
        PROVE  BytesOf(after)[i] \in Bytes /\ cut2[i - 1] = BytesOf(after)[i] \o cut2[i]
    <3>1. k + i \in 1..n /\ i \in 0..(n - k) /\ i - 1 \in 0..(n - k) /\ k + (i - 1) = (k + i) - 1
      BY <1>2
    <3>2. cut2[i - 1] = cut[(k + i) - 1] /\ cut2[i] = cut[k + i]
      BY <3>1
    <3>3. BytesOf(after)[i] = w[k + i]
      BY <1>4, <1>6, <3>1 DEF BytesOf
    <3>. QED
      BY <1>5, <3>1, <3>2, <3>3 DEF Cut
  <2>3. cut2[0] = cut[k] /\ cut2[n - k] = <<>>
    <3>1. 0 \in 0..(n - k) /\ n - k \in 0..(n - k) /\ k + 0 = k /\ k + (n - k) = n
      BY <1>2
    <3>. QED
      BY <1>5, <3>1
  <2>. QED
    BY ONLY <2>1, <2>2, <2>3 DEF Cut
<1>9. Holds(cut[k], after)
  <2>. HIDE DEF cut2
  <2>. QED
    BY <1>4, <1>8 DEF Holds, CutFor
<1>. HIDE DEF cut1, cut2
<1>10. DOMAIN ts = 1..k /\ \A i \in 1..k : ts[i] = items[i].type /\ vals[i] = items[i].val
  BY <1>3 DEF TypesOf, ValsOf
<1>11. IsTuple(vals, k, vals)
  BY <1>3 DEF ValsOf, IsTuple
<1>. HIDE DEF ts, vals
<1>12. Len(read) = k
  BY <1>2, <1>10, LenProperties
<1>13. EachComesBack(k, read, vals, w)
  <2>. SUFFICES ASSUME NEW i \in 1..k
                PROVE  Back(read[i], vals[i], w[i])
    BY DEF EachComesBack
  <2>1. i \in 1..n /\ i \in DOMAIN ts
    BY <1>2, <1>10
  <2>2. Value(items[i])
    BY <1>2, <2>1 DEF AllValues
  <2>3. AllOf(items[i].type)
    BY <2>2, AllBack DEF Value
  <2>4. Back(Codec[items[i].type].read, items[i].val, Codec[items[i].type].write[items[i].val])
    BY <2>2, <2>3 DEF AllOf, ComesBackBy, Value
  <2>5. read[i] = Codec[items[i].type].read
    BY <1>10, <2>1
  <2>. HIDE DEF read
  <2>. QED
    BY <1>6, <1>10, <2>1, <2>4, <2>5
<1>14. ReadEach(read, buf) = [val |-> vals, rest |-> cut[k]]
  <2>. HIDE DEF read
  <2>1. Readable(k, cut1, w, vals, read, vals)
    BY ONLY <1>2, <1>7, <1>11, <1>12, <1>13 DEF Readable
  <2>2. ReadEach(read, cut1[0]) = [val |-> vals, rest |-> cut1[k]]
    BY ONLY <2>1, ReadsCut
  <2>. QED
    BY ONLY <1>7, <2>2
<1>15. ReadAll(TypesOf(first), buf) = [val |-> ValsOf(first), rest |-> cut[k]]
  BY <1>14 DEF ReadAll, ts, vals
<1>. QED
  BY ONLY <1>0, <1>1, <1>9, <1>15 DEF Taken

LEMMA PutLast ==
  ASSUME ComeBack, NEW S, NEW items \in Seq(S), NEW item, Value(item), NEW buf,
         Holds(buf, items)
  PROVE  Holds(buf \o Codec[item.type].write[item.val], Append(items, item))
<1>. DEFINE n    == Len(items)
            w    == BytesOf(items)
            more == Append(items, item)
            wm   == BytesOf(more)
            b    == Codec[item.type].write[item.val]
<1>1. PICK cut : CutFor(cut, buf, items)
  BY DEF Holds
<1>2. n \in Nat /\ DOMAIN items = 1..n
  OBVIOUS
<1>3. Len(more) = n + 1 /\ DOMAIN more = 1..(n + 1) /\ more[n + 1] = item
      /\ \A i \in 1..n : more[i] = items[i]
  <2>. DEFINE R == S \cup {item}
  <2>1. items \in Seq(R) /\ item \in R
    OBVIOUS
  <2>. HIDE DEF R
  <2>2. more \in Seq(R)
    BY <2>1, AppendProperties
  <2>. QED
    BY <1>2, <2>1, <2>2, AppendProperties
<1>4. Cut(cut, w, n) /\ cut[0] = buf /\ cut[n] = <<>>
  BY <1>1 DEF CutFor
<1>5. b \in Seq(Byte)
  <2>1. AllOf(item.type)
    BY AllBack DEF Value
  <2>. QED
    BY <2>1 DEF AllOf, ComesBackBy, Value, Back, Bytes
<1>. HIDE DEF n, more
<1>6. wm[n + 1] = b /\ \A i \in 1..n : wm[i] = w[i]
  BY <1>2, <1>3 DEF BytesOf
<1>. HIDE DEF w, wm, b
<1>. DEFINE cutm == [i \in 0..(n + 1) |-> IF i <= n THEN cut[i] \o b ELSE <<>>]
<1>7. \A i \in 0..n : cut[i] \in Seq(Byte) /\ cut[i] \o b \in Seq(Byte)
  <2>. SUFFICES ASSUME NEW i \in 0..n PROVE cut[i] \in Seq(Byte) /\ cut[i] \o b \in Seq(Byte)
    OBVIOUS
  <2>1. cut[i] \in Seq(Byte)
    BY <1>4 DEF Cut, Bytes
  <2>. QED
    BY ONLY <1>5, <2>1, ConcatProperties
<1>8. cutm \in [0..(n + 1) -> Bytes]
  <2>1. \A i \in 0..(n + 1) : i \in 0..n <=> i <= n
    BY <1>2
  <2>2. <<>> \in Bytes
    BY DEF Bytes
  <2>3. \A i \in 0..n : cut[i] \o b \in Bytes
    BY <1>7 DEF Bytes
  <2>. QED
    BY <2>1, <2>2, <2>3
<1>9. \A i \in 0..n : cutm[i] = cut[i] \o b
  BY <1>2
<1>10. cutm[n + 1] = <<>>
  BY <1>2
<1>. HIDE DEF cutm
<1>11. ASSUME NEW i \in 1..(n + 1)
       PROVE  wm[i] \in Bytes /\ cutm[i - 1] = wm[i] \o cutm[i]
  <2>1. CASE i \in 1..n
    <3>1. i - 1 \in 0..n /\ i \in 0..n
      BY <1>2, <2>1
    <3>2. w[i] \in Seq(Byte) /\ cut[i - 1] = w[i] \o cut[i] /\ cut[i] \in Seq(Byte)
      BY <1>4, <1>7, <2>1, <3>1 DEF Cut, Bytes
    <3>3. cutm[i - 1] = (w[i] \o cut[i]) \o b /\ cutm[i] = cut[i] \o b
      BY <1>9, <3>1, <3>2
    <3>4. Regroup(cutm[i - 1], w[i], cut[i], b)
      BY ONLY <1>5, <3>2, BytesConcat
    <3>5. cutm[i - 1] = w[i] \o cutm[i]
      BY ONLY <3>3, <3>4 DEF Regroup
    <3>. QED
      BY <1>6, <2>1, <3>2, <3>5 DEF Bytes
  <2>2. CASE i = n + 1
    <3>1. i - 1 = n /\ n \in 0..n
      BY <1>2, <2>2
    <3>2. cutm[i - 1] = <<>> \o b /\ wm[i] = b /\ cutm[i] = <<>>
      BY <1>4, <1>6, <1>9, <1>10, <2>2, <3>1
    <3>3. <<>> \o b = b /\ b \o <<>> = b
      BY ONLY <1>5, ConcatEmptySeq
    <3>. QED
      BY <1>5, <3>2, <3>3 DEF Bytes
  <2>3. i \in 1..n \/ i = n + 1
    BY <1>2
  <2>. QED
    BY ONLY <2>1, <2>2, <2>3
<1>12. cutm[0] = buf \o b
  <2>1. 0 \in 0..n
    BY <1>2
  <2>. QED
    BY ONLY <1>4, <1>9, <2>1
<1>13. Cut(cutm, wm, n + 1)
  BY ONLY <1>8, <1>11 DEF Cut
<1>14. CutFor(cutm, buf \o b, more)
  BY <1>3, <1>10, <1>12, <1>13 DEF CutFor, wm
<1>. QED
  BY <1>14 DEF Holds, b, more

-----------------------------------------------------------------------------
(***************************************************************************)
(* The inductive invariant, and what each call does to it and to the queue *)
(* of values it stands for.                                                *)
(***************************************************************************)
IInv ==
  /\ methods \in [Names -> Functions \cup {None, Empty}]
  /\ args.written \in Seq(Items) /\ Holds(args.buf, args.written)
  /\ results.written \in Seq(Results) /\ Holds(results.buf, results.written)

StepOf(CallsStep) == IInv' /\ CallsStep

LEMMA ResultsAreValues ==
  /\ \A f \in Functions : \A vals \in DOMAIN f.body : f.returns # Void => Result(f, vals) \in Results
  /\ \A r \in Results : Value(r) /\ r = [type |-> r.type, val |-> r.val]
<1>1. ASSUME NEW f \in Functions, NEW vals \in DOMAIN f.body, f.returns # Void
      PROVE  Result(f, vals) \in Results
  BY <1>1 DEF Results
<1>2. ASSUME NEW r \in Results
      PROVE  Value(r) /\ r = [type |-> r.type, val |-> r.val]
  <2>1. PICK f \in Functions : f.returns # Void /\ \E vals \in DOMAIN f.body : r = Result(f, vals)
    BY DEF Results
  <2>2. PICK vals \in DOMAIN f.body : r = Result(f, vals)
    BY <2>1
  <2>3. Value(Result(f, vals))
    BY <2>1, RpcAssumption
  <2>4. r = [type |-> r.type, val |-> r.val]
    BY <2>2 DEF Result
  <2>. QED
    BY <2>2, <2>3, <2>4
<1>. QED
  BY <1>1, <1>2

(* Both serializers hold values.                                           *)
LEMMA BothHold ==
  ASSUME IInv
  PROVE  /\ Len(args.written) \in Nat /\ Len(results.written) \in Nat
         /\ AllValues(Items) /\ AllValues(Results)
<1>1. AllValues(Items)
  BY RpcAssumption DEF AllValues
<1>. QED
  BY <1>1, ResultsAreValues DEF IInv, AllValues

LEMMA HeldIsRead ==
  ASSUME ComeBack, NEW S, AllValues(S), NEW s, s.written \in Seq(S),
         Holds(s.buf, s.written)
  PROVE  HoldsWhatWasWritten(s)
<1>. DEFINE items == s.written
            n     == Len(items)
<1>1. n \in 0..n /\ n \in Nat /\ items = SubSeq(items, 1, n)
  <2>1. n \in Nat
    OBVIOUS
  <2>2. items = SubSeq(items, 1, n)
    BY SubSeqFull
  <2>. QED
    BY <2>1, <2>2
<1>2. PICK rest : /\ ReadAll(TypesOf(items), s.buf) = [val |-> ValsOf(items), rest |-> rest]
                  /\ n = n => rest = <<>>
  <2>1. items \in Seq(S) /\ Holds(s.buf, items) /\ n \in 0..Len(items)
    BY <1>1
  <2>. HIDE DEF items
  <2>2. Taken(items, s.buf, n)
    BY <2>1, TakeFirst
  <2>. QED
    BY <1>1, <2>2 DEF Taken, CutFor
<1>. QED
  BY <1>2 DEF HoldsWhatWasWritten

LEMMA AnswerStep ==
  ASSUME ComeBack, IInv, NEW f \in Functions, NEW vals \in DOMAIN f.body, Answer(f, vals)
  PROVE  /\ Calls!Answer(f, vals)
         /\ results'.written \in Seq(Results) /\ Holds(results'.buf, results'.written)
<1>. DEFINE r == Result(f, vals)
<1>1. CASE f.returns = Void
  BY <1>1 DEF Answer, Calls!Answer, IInv
<1>2. CASE f.returns # Void
  <2>1. r \in Results /\ Value(r) /\ r = [type |-> f.returns, val |-> f.body[vals]]
    BY <1>2, ResultsAreValues DEF Result
  <2>2. results' = Written(results, r)
    BY <1>2 DEF Answer
  <2>. HIDE DEF r
  <2>3. /\ results'.buf = results.buf \o Codec[r.type].write[r.val]
        /\ results'.written = Append(results.written, r)
    BY <2>2 DEF Written
  <2>4. results.written \in Seq(Results) /\ Holds(results.buf, results.written)
    BY DEF IInv
  <2>5. Append(results.written, r) \in Seq(Results)
    BY ONLY <2>1, <2>4, AppendProperties
  <2>6. Holds(results'.buf, results'.written)
    BY <2>1, <2>3, <2>4, PutLast
  <2>7. Calls!Answer(f, vals)
    BY <1>2, <2>1, <2>3 DEF Calls!Answer
  <2>. QED
    BY <2>3, <2>5, <2>6, <2>7
<1>. QED
  BY <1>1, <1>2

(* The function the abstract calls have behind a name.                     *)
FunctionOf == [name \in Names |-> IF methods[name] = Empty THEN None ELSE methods[name]]

LEMMA MethodStep ==
  ASSUME ComeBack, IInv, NEW name \in Names, NEW f, f = methods[name],
         f \notin {None, Empty}, runMethod(f)
  PROVE  StepOf(Calls!Call(name))
<1>. DEFINE w     == args.written
            n     == Len(f.args)
            first == SubSeq(w, 1, n)
            after == SubSeq(w, n + 1, Len(w))
<1>1. f \in Functions /\ f.args \in Seq(Types) /\ n \in Nat
  <2>1. f \in Functions
    BY DEF IInv
  <2>. QED
    BY <2>1, RpcAssumption
<1>2. w \in Seq(Items) /\ Holds(args.buf, w) /\ Len(w) \in Nat
  BY BothHold DEF IInv
<1>3. TypesOf(w) \in [1..Len(w) -> {w[i].type : i \in 1..Len(w)}]
  BY <1>2 DEF TypesOf
<1>4. Len(TypesOf(w)) = Len(w)
  BY <1>2, <1>3, LenProperties
<1>5. n <= Len(w) /\ SubSeq(f.args, 1, n) = SubSeq(TypesOf(w), 1, n)
  BY <1>4 DEF runMethod, IsPrefix
<1>. HIDE DEF n
<1>6. first \in Seq(Items) /\ Len(first) = n /\ DOMAIN first = 1..n
      /\ \A i \in 1..n : first[i] = w[i]
  BY <1>1, <1>2, <1>5, SubSeqProperties
<1>7. TypesOf(first) = f.args
  <2>1. ASSUME NEW i \in 1..n
        PROVE  TypesOf(first)[i] = f.args[i]
    <3>1. i \in 1..Len(w)
      BY <1>1, <1>2, <1>5
    <3>2. SubSeq(f.args, 1, n)[i] = f.args[i] /\ SubSeq(TypesOf(w), 1, n)[i] = TypesOf(w)[i]
      <4>1. SubSeq(f.args, 1, n) = f.args
        BY <1>1, SubSeqFull DEF n
      <4>2. SubSeq(TypesOf(w), 1, n)[i] = TypesOf(w)[i]
        <5>. DEFINE T == {w[j].type : j \in 1..Len(w)}
                    t == TypesOf(w)
        <5>1. \A j \in 1..n : t[j] \in T
          BY <1>1, <1>2, <1>3, <1>5
        <5>. HIDE DEF T, t
        <5>2. n \in Int /\ 1 \in Int /\ i \in 1..(n - 1 + 1) /\ 1 + i - 1 = i
          BY <1>1
        <5>. QED
          BY <5>1, <5>2, SubSeqProperties DEF t
      <4>. QED
        BY <4>1, <4>2
    <3>3. TypesOf(w)[i] = w[i].type
      BY <1>2, <3>1 DEF TypesOf
    <3>4. TypesOf(first)[i] = first[i].type
      BY <1>6 DEF TypesOf
    <3>. QED
      BY <1>5, <1>6, <3>2, <3>3, <3>4
  <2>2. DOMAIN TypesOf(first) = 1..n /\ DOMAIN f.args = 1..n
    BY <1>1, <1>6 DEF TypesOf, n
  <2>3. TypesOf(first) = [i \in 1..n |-> TypesOf(first)[i]] /\ f.args = [i \in 1..n |-> f.args[i]]
    BY <1>1, <1>6, <2>2 DEF TypesOf
  <2>. QED
    BY ONLY <2>1, <2>3
<1>8. PICK rest : /\ ReadAll(f.args, args.buf) = [val |-> ValsOf(first), rest |-> rest]
                  /\ Holds(rest, after)
  <2>1. n \in 0..Len(w) /\ AllValues(Items)
    BY <1>1, <1>2, <1>5, BothHold
  <2>2. Taken(w, args.buf, n)
    BY <1>2, <2>1, TakeFirst
  <2>. QED
    BY <1>7, <2>2 DEF Taken
<1>9. args'.buf = rest /\ args'.written = after /\ Answer(f, ValsOf(first)) /\ methods' = methods /\ last' = last
  BY <1>8 DEF runMethod, Took, n
<1>10. ValsOf(first) \in DOMAIN f.body
  <2>. HIDE DEF first
  <2>1. first \in [1..n -> Items]
    BY <1>1, <1>6
  <2>. QED
    BY <1>1, <1>7, <2>1, RpcAssumption DEF n
<1>11. /\ Calls!Answer(f, ValsOf(first))
       /\ results'.written \in Seq(Results) /\ Holds(results'.buf, results'.written)
  BY <1>1, <1>9, <1>10, AnswerStep
<1>12. after \in Seq(Items)
  <2>1. \A i \in (n + 1)..Len(w) : w[i] \in Items
    BY <1>1, <1>2
  <2>. QED
    BY <1>1, <1>2, <2>1, SubSeqProperties
<1>13. IInv'
  BY <1>8, <1>9, <1>11, <1>12 DEF IInv
<1>14. FunctionOf[name] = f /\ f # None /\ FunctionOf' = FunctionOf
  BY <1>9 DEF FunctionOf
<1>15. Calls!Call(name)
  BY <1>5, <1>7, <1>9, <1>11, <1>14
     DEF Calls!Call, Calls!TypesOf, Calls!ValsOf, TypesOf, ValsOf, FunctionOf, n
<1>. QED
  BY <1>13, <1>15 DEF StepOf

(* The types, or the values, of items are as many, and their own prefix.   *)
LEMMA Columns ==
  ASSUME NEW S, NEW items \in Seq(S)
  PROVE  /\ Len(TypesOf(items)) = Len(items) /\ SubSeq(TypesOf(items), 1, Len(items)) = TypesOf(items)
         /\ Len(ValsOf(items)) = Len(items) /\ SubSeq(ValsOf(items), 1, Len(items)) = ValsOf(items)
<1>. DEFINE n == Len(items)
            t == TypesOf(items)
            v == ValsOf(items)
            T == {items[i].type : i \in 1..n}
            V == {items[i].val : i \in 1..n}
<1>1. n \in Nat /\ DOMAIN items = 1..n
  OBVIOUS
<1>2. t \in [1..n -> T] /\ v \in [1..n -> V]
  BY <1>1 DEF TypesOf, ValsOf
<1>. HIDE DEF n, t, v, T, V
<1>3. t \in Seq(T) /\ v \in Seq(V) /\ Len(t) = n /\ Len(v) = n
  BY <1>1, <1>2
<1>4. SubSeq(t, 1, n) = t /\ SubSeq(v, 1, n) = v
  BY <1>3, SubSeqFull
<1>. QED
  BY <1>3, <1>4 DEF n, t, v

LEMMA ShortMethodStep ==
  ASSUME ComeBack, IInv, NEW name \in Names, NEW f, f = methods[name],
         f \notin {None, Empty}, runMethodShort(f)
  PROVE  StepOf(Calls!CallShort(name))
<1>. DEFINE w == args.written
            n == Len(w)
<1>1. f \in Functions /\ f.args \in Seq(Types) /\ Len(f.args) \in Nat
  <2>1. f \in Functions
    BY DEF IInv
  <2>. QED
    BY <2>1, RpcAssumption
<1>2. w \in Seq(Items) /\ Holds(args.buf, w) /\ n \in Nat /\ AllValues(Items)
  BY BothHold DEF IInv
<1>3. /\ Len(TypesOf(w)) = n /\ SubSeq(TypesOf(w), 1, n) = TypesOf(w)
      /\ Len(ValsOf(w)) = n /\ SubSeq(ValsOf(w), 1, n) = ValsOf(w)
  BY <1>2, Columns
<1>4. n <= Len(f.args) /\ TypesOf(w) = SubSeq(f.args, 1, n) /\ TypesOf(w) # f.args
  BY <1>3 DEF runMethodShort, IsStrictPrefix, IsPrefix
<1>5. n < Len(f.args)
  <2>1. SubSeq(f.args, 1, Len(f.args)) = f.args
    BY <1>1, SubSeqFull
  <2>. QED
    BY <1>1, <1>2, <1>4, <2>1
<1>6. ReadAll(TypesOf(w), args.buf) = [val |-> ValsOf(w), rest |-> <<>>]
  <2>1. HoldsWhatWasWritten(args)
    BY <1>2, HeldIsRead
  <2>. QED
    BY <2>1 DEF HoldsWhatWasWritten
<1>7. /\ args' = [buf |-> <<>>, written |-> <<>>] /\ methods' = methods /\ last' = last
      /\ \E vals \in DOMAIN f.body : IsPrefix(ValsOf(w), vals) /\ Answer(f, vals)
  BY <1>6 DEF runMethodShort, Took
<1>8. PICK vals \in DOMAIN f.body : IsPrefix(ValsOf(w), vals) /\ Answer(f, vals)
  BY <1>7
<1>9. SubSeq(vals, 1, n) = ValsOf(w)
  BY <1>3, <1>8 DEF IsPrefix
<1>10. /\ Calls!Answer(f, vals)
       /\ results'.written \in Seq(Results) /\ Holds(results'.buf, results'.written)
  BY <1>1, <1>8, AnswerStep
<1>11. args'.written \in Seq(Items) /\ Holds(args'.buf, args'.written)
  BY <1>7, HoldsNothing, EmptySeq
<1>12. IInv'
  BY <1>7, <1>10, <1>11 DEF IInv
<1>13. FunctionOf[name] = f /\ f # None /\ FunctionOf' = FunctionOf
  BY <1>7 DEF FunctionOf
<1>14. Calls!CallShort(name)
  BY <1>4, <1>5, <1>7, <1>9, <1>10, <1>13
     DEF Calls!CallShort, Calls!TypesOf, Calls!ValsOf, TypesOf, ValsOf, FunctionOf
<1>. QED
  BY <1>12, <1>14 DEF StepOf

LEMMA RunStep ==
  ASSUME ComeBack, IInv, NEW name \in Names, run(name)
  PROVE  StepOf(Calls!Next \/ UNCHANGED Calls!vars)
<1>1. CASE methods[name] \in {None, Empty}
  <2>1. /\ methods' = [methods EXCEPT ![name] = Empty]
        /\ args' = args /\ results' = results /\ last' = last
    BY <1>1 DEF run
  <2>2. IInv'
    BY <2>1 DEF IInv
  <2>3. FunctionOf' = FunctionOf
    <3>1. \A m \in Names : (methods'[m] = Empty \/ methods'[m] = methods[m])
                           /\ (methods'[m] # methods[m] => methods[m] \in {None, Empty} /\ methods'[m] = Empty)
      BY <1>1, <2>1 DEF IInv
    <3>2. \A m \in Names : (IF methods'[m] = Empty THEN None ELSE methods'[m])
                             = (IF methods[m] = Empty THEN None ELSE methods[m])
      BY <3>1
    <3>. QED
      BY <3>2 DEF FunctionOf
  <2>. QED
    BY <2>1, <2>2, <2>3 DEF StepOf, Calls!vars, FunctionOf
<1>2. CASE methods[name] \notin {None, Empty}
  <2>1. runMethod(methods[name]) \/ runMethodShort(methods[name])
    BY <1>2 DEF run
  <2>2. StepOf(Calls!Call(name)) \/ StepOf(Calls!CallShort(name))
    BY <1>2, <2>1, MethodStep, ShortMethodStep
  <2>. QED
    BY <2>2 DEF StepOf, Calls!Next
<1>. QED
  BY <1>1, <1>2

LEMMA RegisterStep ==
  ASSUME IInv, NEW name \in Names, NEW f \in Functions, registerMethod(name, f)
  PROVE  StepOf(Calls!Next)
<1>1. /\ methods' = [methods EXCEPT ![name] = f]
      /\ args' = args /\ results' = results /\ last' = last
  BY DEF registerMethod
<1>2. IInv'
  BY <1>1 DEF IInv
<1>3. f # Empty
  BY RpcAssumption
<1>4. FunctionOf' = [FunctionOf EXCEPT ![name] = f]
  BY <1>1, <1>3 DEF FunctionOf, IInv
<1>5. Calls!Register(name, f)
  BY <1>1, <1>4 DEF Calls!Register, FunctionOf
<1>. QED
  BY <1>2, <1>5 DEF StepOf, Calls!Next

LEMMA WriteStep ==
  ASSUME ComeBack, IInv, NEW item \in Items, WriteArgument(item)
  PROVE  StepOf(Calls!Next)
<1>1. args' = Written(args, item) /\ methods' = methods /\ results' = results /\ last' = last
  BY DEF WriteArgument
<1>2. /\ args'.buf = args.buf \o Codec[item.type].write[item.val]
      /\ args'.written = Append(args.written, item)
  BY <1>1 DEF Written
<1>3. Value(item) /\ args.written \in Seq(Items) /\ Holds(args.buf, args.written)
  BY RpcAssumption DEF IInv
<1>4. Append(args.written, item) \in Seq(Items)
  BY ONLY <1>3, AppendProperties, item \in Items
<1>5. Holds(args'.buf, args'.written)
  BY <1>2, <1>3, PutLast
<1>6. IInv'
  BY <1>1, <1>2, <1>4, <1>5 DEF IInv
<1>7. Calls!Give(item)
  BY <1>1, <1>2 DEF Calls!Give
<1>. QED
  BY <1>6, <1>7 DEF StepOf, Calls!Next

LEMMA ReadStep ==
  ASSUME ComeBack, IInv, ReadResult
  PROVE  StepOf(Calls!Next)
<1>. DEFINE w    == results.written
            r    == w[1]
            n    == Len(w)
<1>1. w \in Seq(Results) /\ w # <<>> /\ n \in Nat /\ n >= 1 /\ Head(w) = r /\ r \in Results
  BY DEF IInv, ReadResult
<1>2. Value(r) /\ r = [type |-> r.type, val |-> r.val]
  BY <1>1, ResultsAreValues
<1>3. PICK cut : CutFor(cut, results.buf, w) /\ Holds(cut[1], SubSeq(w, 2, n))
  <2>1. w \in Seq(Results) /\ Holds(results.buf, w) /\ 1 \in 0..Len(w) /\ AllValues(Results)
    BY <1>1, BothHold DEF IInv
  <2>. HIDE DEF w
  <2>2. Taken(w, results.buf, 1)
    BY <2>1, TakeFirst
  <2>. QED
    BY <2>2 DEF Taken
<1>4. cut[0] = BytesOf(w)[1] \o cut[1] /\ cut[0] = results.buf /\ cut[1] \in Bytes
  <2>1. 1 \in 1..n /\ 1 \in 0..n /\ 1 - 1 = 0
    BY <1>1
  <2>2. Cut(cut, BytesOf(w), n) /\ cut[0] = results.buf
    BY <1>3 DEF CutFor
  <2>. QED
    BY <2>1, <2>2 DEF Cut
<1>5. BytesOf(w)[1] = Codec[r.type].write[r.val]
  BY <1>1 DEF BytesOf
<1>6. Back(Codec[r.type].read, r.val, Codec[r.type].write[r.val])
  <2>1. AllOf(r.type)
    BY <1>2, AllBack DEF Value
  <2>. QED
    BY <1>2, <2>1 DEF AllOf, ComesBackBy, Value
<1>7. Codec[r.type].read[results.buf] = [val |-> r.val, rest |-> cut[1]]
  BY <1>4, <1>5, <1>6 DEF Back
<1>8. /\ last' = [type |-> r.type, val |-> r.val]
      /\ results' = [buf |-> cut[1], written |-> Tail(w)]
      /\ methods' = methods /\ args' = args
  <2>1. Head(results.written) = r
    BY <1>1
  <2>. DEFINE read == Codec[r.type].read[results.buf]
  <2>2. /\ last' = [type |-> r.type, val |-> read.val]
        /\ results' = [buf |-> read.rest, written |-> Tail(w)]
        /\ methods' = methods /\ args' = args
    BY <2>1 DEF ReadResult
  <2>3. read.val = r.val /\ read.rest = cut[1]
    BY <1>7
  <2>. QED
    BY ONLY <2>2, <2>3
<1>9. Tail(w) \in Seq(Results) /\ Tail(w) = SubSeq(w, 2, n)
  BY <1>1, HeadTailProperties, TailIsSubSeq
<1>10. Holds(cut[1], Tail(w))
  BY <1>3, <1>9
<1>11. IInv'
  BY <1>8, <1>9, <1>10 DEF IInv
<1>12. Calls!TakeResult
  BY <1>1, <1>2, <1>8 DEF Calls!TakeResult
<1>. QED
  BY <1>11, <1>12 DEF StepOf, Calls!Next

LEMMA ClearStep ==
  ASSUME IInv, Clear
  PROVE  StepOf(Calls!Next)
<1>1. args' = Cleared /\ results' = Cleared /\ methods' = methods /\ last' = last
  BY DEF Clear
<1>2. Cleared.buf = <<>> /\ Cleared.written = <<>>
  BY DEF Cleared
<1>3. <<>> \in Seq(Items) /\ <<>> \in Seq(Results)
  BY EmptySeq
<1>4. IInv'
  BY <1>1, <1>2, <1>3, HoldsNothing DEF IInv
<1>5. Calls!Forget
  BY <1>1, <1>2 DEF Calls!Forget
<1>. QED
  BY <1>4, <1>5 DEF StepOf, Calls!Next

LEMMA EveryStep ==
  ASSUME ComeBack, IInv, [Next]_vars
  PROVE  StepOf(Calls!Next \/ UNCHANGED Calls!vars)
<1>1. ASSUME NEW name \in Names, run(name)
      PROVE  StepOf(Calls!Next \/ UNCHANGED Calls!vars)
  BY <1>1, RunStep
<1>2. ASSUME NEW name \in Names, NEW f \in Functions, registerMethod(name, f)
      PROVE  StepOf(Calls!Next)
  BY <1>2, RegisterStep
<1>3. ASSUME NEW item \in Items, WriteArgument(item)
      PROVE  StepOf(Calls!Next)
  BY <1>3, WriteStep
<1>4. CASE ReadResult
  BY <1>4, ReadStep DEF StepOf
<1>5. CASE Clear
  BY <1>5, ClearStep DEF StepOf
<1>6. CASE UNCHANGED vars
  BY <1>6 DEF vars, IInv, StepOf, Calls!vars
<1>. QED
  BY <1>1, <1>2, <1>3, <1>4, <1>5, <1>6 DEF Next, StepOf

LEMMA Initially == Init => IInv /\ Calls!Init
<1>. SUFFICES ASSUME Init PROVE IInv /\ Calls!Init
  OBVIOUS
<1>1. methods = [name \in Names |-> None] /\ args = Cleared /\ results = Cleared /\ last = None
  BY DEF Init
<1>2. Cleared.buf = <<>> /\ Cleared.written = <<>>
  BY DEF Cleared
<1>3. <<>> \in Seq(Items) /\ <<>> \in Seq(Results)
  BY EmptySeq
<1>4. IInv
  BY <1>1, <1>2, <1>3, HoldsNothing DEF IInv
<1>5. Calls!Init
  BY <1>1, <1>2 DEF Calls!Init
<1>. QED
  BY <1>4, <1>5

-----------------------------------------------------------------------------
(***************************************************************************)
(* Theorems.                                                               *)
(***************************************************************************)
LEMMA Invariance ==
  ASSUME ComeBack
  PROVE  Spec => []IInv
<1>1. Init => IInv
  BY Initially
<1>2. IInv /\ [Next]_vars => IInv'
  BY EveryStep DEF StepOf
<1>. QED
  BY <1>1, <1>2, PTL DEF Spec

(* Whatever values of types that come back are written and whatever calls  *)
(* are made, between two calls each serializer (serializer.h:40) holds     *)
(* exactly the bytes of the values that are still to be read.              *)
THEOREM BytesStayValues ==
  ASSUME ComeBack
  PROVE  Spec => []BytesAreValues
<1>1. IInv => BytesAreValues
  <2>. SUFFICES ASSUME IInv PROVE BytesAreValues
    OBVIOUS
  <2>1. HoldsWhatWasWritten(args)
    BY BothHold, HeldIsRead DEF IInv
  <2>2. HoldsWhatWasWritten(results)
    BY BothHold, HeldIsRead DEF IInv
  <2>. QED
    BY <2>1, <2>2 DEF BytesAreValues
<1>. QED
  BY <1>1, Invariance, PTL

(* The same calls implement calls by value: run (rpc_provider.h:37) gives  *)
(* a function the values its caller wrote, and what is read from the       *)
(* results is what the function returned, in the order of the calls.       *)
THEOREM RpcImplementsCalls ==
  ASSUME ComeBack
  PROVE  Spec => ImplementsCalls
<1>1. Init => Calls!Init
  BY Initially
<1>2. IInv /\ [Next]_vars => [Calls!Next]_Calls!vars
  BY EveryStep DEF StepOf
<1>. QED
  BY <1>1, <1>2, Invariance, PTL DEF Spec, ImplementsCalls, Calls!Spec
=============================================================================
