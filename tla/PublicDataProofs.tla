-------------------------- MODULE PublicDataProofs --------------------------
(***************************************************************************)
(* Proofs about PublicData, for any widths of the fields, any number of    *)
(* transactions and any transactions that handlers make: every record has  *)
(* DataBits bits and begins where the last one ends, a reader gets from    *)
(* the bytes what the transactions publish, encoding stops for nothing but *)
(* what a transaction is, and the two encoders write the same bytes.       *)
(*                                                                         *)
(* The encoder appends as many bits as it is told (TotalBits), does the    *)
(* same behind whole bytes as on an empty buffer (Behind), and keeps every *)
(* bit that is written (Kept).  The bits of a number are its halves, and   *)
(* Number puts the halves together again; compress_fr and decompress_fr    *)
(* are inverse to each other by what powers of ten divide.                 *)
(***************************************************************************)
EXTENDS PublicData, FiniteSetTheorems, SequenceTheorems, WellFoundedInduction, TLAPS

Byte == 0 .. 255

\* contexts between two bits
Contexts == [encoding_buf : Seq(Byte), applying_bit : 0 .. 7, encoding_char : Byte]

Between(enc) == enc \in Contexts /\ enc.encoding_char % (2 * mask[enc.applying_bit + 1]) = 0

\* the same context behind bytes that are written
Behind(bytes, enc) ==
  [encoding_buf  |-> bytes \o enc.encoding_buf, applying_bit |-> enc.applying_bit,
   encoding_char |-> enc.encoding_char]

-----------------------------------------------------------------------------
(* Bits. *)

\* The least element of a set of natural numbers: what induction is made of here.
LEMMA Least ==
  ASSUME NEW S \in SUBSET Nat, S # {}
  PROVE  \E m \in S : \A n \in S : m <= n
<1> DEFINE T == {0 .. n : n \in S}
           R == StrictSubsetOrdering(Nat)
<1>1. T \subseteq FiniteSubsetsOf(Nat) /\ T # {}
  <2>1. ASSUME NEW n \in S PROVE 0 .. n \in FiniteSubsetsOf(Nat)
    BY FS_Interval DEF FiniteSubsetsOf
  <2> QED BY <2>1
<1>2. \E x \in T : \A y \in T : ~ (<<y, x>> \in R)
  <2> HIDE DEF T, R
  <2> QED BY <1>1, FS_StrictSubsetOrderingWellFounded, WFMin DEF R
<1>3. PICK m \in S : \A n \in S : ~ (<<0 .. n, 0 .. m>> \in R)
  BY <1>2
<1>4. ASSUME NEW n \in S PROVE m <= n
  <2> SUFFICES ASSUME n < m PROVE FALSE
    OBVIOUS
  <2>1. (0 .. n) \subseteq (0 .. m) /\ m \in 0 .. m /\ m \notin 0 .. n
    OBVIOUS
  <2>2. <<0 .. n, 0 .. m>> \in R
    BY <2>1 DEF StrictSubsetOrdering
  <2> QED BY <2>2, <1>3
<1> QED
  BY <1>4

\* apply_bit writes one bit, whatever was written before.
LEMMA ApplyBitResult ==
  ASSUME NEW enc, Between(enc), NEW bit
  PROVE  /\ Between(ApplyBit(enc, bit))
         /\ TotalBits(ApplyBit(enc, bit)) = TotalBits(enc) + 1
         /\ \A bytes \in Seq(Byte) :
              ApplyBit(Behind(bytes, enc), bit) = Behind(bytes, ApplyBit(enc, bit))
<1> DEFINE k == enc.applying_bit
           buf == enc.encoding_buf
           char == IF bit = 0 THEN enc.encoding_char ELSE enc.encoding_char + mask[k + 1]
           new == ApplyBit(enc, bit)
<1>1. buf \in Seq(Byte) /\ k \in 0 .. 7 /\ enc.encoding_char \in Byte
  BY DEF Between, Contexts
<1>2. char \in Byte /\ (k < 7 => char % mask[k + 1] = 0)
  <2>1. PICK c, m : c = enc.encoding_char /\ m = mask[k + 1]  OBVIOUS
  <2>2. c \in Byte /\ c % (2 * m) = 0  BY <1>1, <2>1 DEF Between
  <2>3. \/ m = 128 \/ m = 64 \/ m = 32 \/ m = 16 \/ m = 8 \/ m = 4 \/ m = 2
        \/ m = 1 /\ k = 7
    <3>1. k \in {0, 1, 2, 3, 4, 5, 6, 7}  BY <1>1
    <3> QED BY <2>1, <3>1 DEF mask
  <2>4. c + m \in Byte
    BY <2>2, <2>3 DEF Byte
  <2>5. k < 7 => c % m = 0 /\ (c + m) % m = 0
    BY ONLY <2>2, <2>3 DEF Byte
  <2>6. char = IF bit = 0 THEN c ELSE c + m  BY <2>1
  <2> HIDE DEF char, k
  <2> QED BY <2>1, <2>2, <2>4, <2>5, <2>6
<1>3. \A j \in 0 .. 6 : 2 * mask[j + 2] = mask[j + 1]
  BY DEF mask
<1>4. CASE k = 7
  <2>1. new = [encoding_buf |-> Append(buf, char), applying_bit |-> 0, encoding_char |-> 0]
    BY <1>4 DEF ApplyBit, NextByte
  <2>2. ASSUME NEW bytes \in Seq(Byte)
        PROVE  ApplyBit(Behind(bytes, enc), bit)
                 = [encoding_buf |-> Append(bytes \o buf, char), applying_bit |-> 0, encoding_char |-> 0]
    BY <1>4 DEF ApplyBit, NextByte, Behind
  <2> HIDE DEF char, new
  <2>3. /\ Append(buf, char) \in Seq(Byte) /\ Len(Append(buf, char)) = Len(buf) + 1
        /\ \A bytes \in Seq(Byte) : Append(bytes \o buf, char) = bytes \o Append(buf, char)
    <3> HIDE DEF buf, Byte
    <3> QED BY <1>1, <1>2
  <2>4. 0 \in Byte /\ 0 % (2 * mask[0 + 1]) = 0  BY DEF Byte, mask
  <2>5. Between(new)  BY <2>1, <2>3, <2>4 DEF Between, Contexts
  <2>6. Len(buf) \in Nat  BY <1>1
  <2>7. TotalBits(new) = TotalBits(enc) + 1  BY <1>4, <2>1, <2>3, <2>6 DEF TotalBits
  <2>8. \A bytes \in Seq(Byte) : ApplyBit(Behind(bytes, enc), bit) = Behind(bytes, new)
    BY <2>1, <2>2, <2>3 DEF Behind
  <2> QED BY <2>5, <2>7, <2>8 DEF new
<1>5. CASE k < 7
  <2>1. new = [encoding_buf |-> buf, applying_bit |-> k + 1, encoding_char |-> char]
    BY <1>1, <1>5 DEF ApplyBit
  <2>2. \A bytes \in Seq(Byte) :
          ApplyBit(Behind(bytes, enc), bit)
            = [encoding_buf |-> bytes \o buf, applying_bit |-> k + 1, encoding_char |-> char]
    BY <1>1, <1>5 DEF ApplyBit, Behind
  <2> HIDE DEF char, new
  <2>3. char % (2 * mask[k + 1 + 1]) = 0
    BY <1>1, <1>2, <1>3, <1>5
  <2>4. Between(new)
    <3>1. k + 1 \in 0 .. 7  BY <1>1, <1>5
    <3> QED BY <1>1, <1>2, <2>1, <2>3, <3>1 DEF Between, Contexts
  <2>5. Len(buf) \in Nat  BY <1>1
  <2>6. TotalBits(new) = TotalBits(enc) + 1  BY <1>1, <2>1, <2>5 DEF TotalBits
  <2>7. \A bytes \in Seq(Byte) : ApplyBit(Behind(bytes, enc), bit) = Behind(bytes, new)
    BY <2>1, <2>2 DEF Behind
  <2> QED BY <2>4, <2>6, <2>7 DEF new
<1> QED BY <1>1, <1>4, <1>5

\* EncodeInt and EncodeFields define functions by recursion.  Such a function exists; which
\* one CHOOSE picks does not matter for what is shown of all of them.
BitSteps(enc, n, bits, f) ==
  f = [i \in 0 .. bits |->
         IF i = 0 THEN enc ELSE ApplyBit(f[i - 1], Halved(n, i - 1) % 2)]

LEMMA BitStepsExist ==
  ASSUME NEW enc, NEW n, NEW bits \in Nat
  PROVE  \E f : BitSteps(enc, n, bits, f) /\ EncodeInt(enc, n, bits) = f[bits]
<1> DEFINE S == {k \in Nat : ~ \E f : BitSteps(enc, n, k, f)}
<1>1. S = {}
  <2> SUFFICES ASSUME S # {} PROVE FALSE
    OBVIOUS
  <2>1. PICK m \in S : \A k \in S : m <= k
    <3> HIDE DEF S
    <3>1. S \in SUBSET Nat  BY DEF S
    <3> QED BY <3>1, Least
  <2>2. m \in Nat /\ ~ \E f : BitSteps(enc, n, m, f)  BY <2>1
  <2>3. CASE m = 0
    <3> DEFINE f == [i \in 0 .. 0 |-> enc]
    <3>1. BitSteps(enc, n, 0, f)  BY DEF BitSteps
    <3> QED BY <2>2, <2>3, <3>1
  <2>4. CASE m # 0
    <3>1. m - 1 \in Nat /\ ~(m <= m - 1)  BY <2>2, <2>4
    <3>2. m - 1 \notin S  BY <2>1, <3>1
    <3>3. PICK f : BitSteps(enc, n, m - 1, f)  BY <3>1, <3>2
    <3> DEFINE b(i) == Halved(n, i - 1) % 2
               g == [i \in 0 .. m |-> IF i = m THEN ApplyBit(f[m - 1], b(m)) ELSE f[i]]
    <3>4. f = [i \in 0 .. m - 1 |-> IF i = 0 THEN enc ELSE ApplyBit(f[i - 1], b(i))]
      BY <3>3 DEF BitSteps
    <3> HIDE DEF b
    <3>5. /\ DOMAIN f = 0 .. m - 1 /\ f[0] = enc
          /\ \A i \in 1 .. m - 1 : f[i] = ApplyBit(f[i - 1], b(i))
      <4>1. \A i \in 0 .. m - 1 : f[i] = IF i = 0 THEN enc ELSE ApplyBit(f[i - 1], b(i))
        BY <3>4
      <4>2. DOMAIN f = 0 .. m - 1  BY <3>4
      <4>3. 0 \in 0 .. m - 1  BY <3>1
      <4>4. \A i \in 1 .. m - 1 : i \in 0 .. m - 1 /\ i # 0  BY <3>1
      <4> QED BY <4>1, <4>2, <4>3, <4>4
    <3>6. \A i \in 0 .. m : g[i] = IF i = 0 THEN enc ELSE ApplyBit(g[i - 1], b(i))
      <4>1. ASSUME NEW i \in 0 .. m, i # 0, i # m PROVE g[i] = ApplyBit(g[i - 1], b(i))
        <5>1. i \in 1 .. m - 1 /\ i - 1 \in 0 .. m /\ i - 1 # m  BY <2>2, <4>1
        <5>2. g[i] = f[i] /\ g[i - 1] = f[i - 1]  BY <4>1, <5>1
        <5> QED BY <3>5, <5>1, <5>2
      <4>2. g[m] = ApplyBit(g[m - 1], b(m))
        <5>1. m \in 0 .. m /\ m - 1 \in 0 .. m /\ m - 1 # m  BY <2>2, <3>1
        <5>2. g[m] = ApplyBit(f[m - 1], b(m)) /\ g[m - 1] = f[m - 1]  BY <5>1
        <5> QED BY <5>2
      <4>3. g[0] = enc
        <5>1. 0 \in 0 .. m  BY <2>2
        <5> QED BY <2>4, <3>5, <5>1
      <4> QED BY <4>1, <4>2, <4>3, <2>4
    <3>7. g = [i \in 0 .. m |-> g[i]]  OBVIOUS
    <3> HIDE DEF g
    <3>8. g = [i \in 0 .. m |-> IF i = 0 THEN enc ELSE ApplyBit(g[i - 1], b(i))]
      BY <3>6, <3>7
    <3>9. BitSteps(enc, n, m, g)  BY <3>8 DEF BitSteps, b
    <3> QED BY <2>2, <3>9
  <2> QED BY <2>3, <2>4
<1> DEFINE after == CHOOSE f : BitSteps(enc, n, bits, f)
<1>2. BitSteps(enc, n, bits, after)  BY <1>1
<1>3. EncodeInt(enc, n, bits) = after[bits]
  BY Zenon DEF EncodeInt, BitSteps
<1> HIDE DEF after
<1> QED BY <1>2, <1>3

\* encode_primint and encode_big write so many bits, whatever the number.
LEMMA EncodeIntResult ==
  ASSUME NEW enc, Between(enc), NEW n, NEW bits \in Nat
  PROVE  /\ Between(EncodeInt(enc, n, bits))
         /\ TotalBits(EncodeInt(enc, n, bits)) = TotalBits(enc) + bits
         /\ \A bytes \in Seq(Byte) :
              EncodeInt(Behind(bytes, enc), n, bits) = Behind(bytes, EncodeInt(enc, n, bits))
<1> DEFINE b(i) == Halved(n, i - 1) % 2
<1>1. PICK f : BitSteps(enc, n, bits, f) /\ EncodeInt(enc, n, bits) = f[bits]
  BY BitStepsExist
<1>2. f[0] = enc /\ \A i \in 0 .. bits : i # 0 => f[i] = ApplyBit(f[i - 1], b(i))
  BY <1>1 DEF BitSteps
<1>3. TotalBits(enc) \in Nat
  BY DEF TotalBits, Between, Contexts
<1> HIDE DEF b
<1>4. \A i \in 0 .. bits : Between(f[i]) /\ TotalBits(f[i]) = TotalBits(enc) + i
  <2> DEFINE S == {i \in 0 .. bits : ~(Between(f[i]) /\ TotalBits(f[i]) = TotalBits(enc) + i)}
  <2> SUFFICES ASSUME S # {} PROVE FALSE
    OBVIOUS
  <2>1. PICK m \in S : \A k \in S : m <= k
    <3>1. S \in SUBSET Nat  OBVIOUS
    <3> HIDE DEF S
    <3> QED BY <3>1, Least
  <2>2. m # 0  BY <1>2, <1>3, <2>1
  <2>3. m - 1 \in 0 .. bits /\ ~(m <= m - 1)  BY <2>1, <2>2
  <2>4. PICK e : e = f[m - 1]  OBVIOUS
  <2>5. Between(e) /\ TotalBits(e) = TotalBits(enc) + (m - 1)  BY <2>1, <2>3, <2>4
  <2>6. f[m] = ApplyBit(e, b(m))  BY <1>2, <2>1, <2>2, <2>4
  <2>7. Between(f[m]) /\ TotalBits(f[m]) = TotalBits(e) + 1  BY <2>5, <2>6, ApplyBitResult
  <2>8. m \in Nat  BY <2>1
  <2> QED BY <1>3, <2>1, <2>5, <2>7, <2>8
<1>5. ASSUME NEW bytes \in Seq(Byte)
      PROVE  EncodeInt(Behind(bytes, enc), n, bits) = Behind(bytes, EncodeInt(enc, n, bits))
  <2>1. PICK g : /\ BitSteps(Behind(bytes, enc), n, bits, g)
                 /\ EncodeInt(Behind(bytes, enc), n, bits) = g[bits]
    BY BitStepsExist
  <2>2. g[0] = Behind(bytes, enc) /\ \A i \in 0 .. bits : i # 0 => g[i] = ApplyBit(g[i - 1], b(i))
    BY <2>1 DEF BitSteps, b
  <2>3. \A i \in 0 .. bits : g[i] = Behind(bytes, f[i])
    <3> DEFINE S == {i \in 0 .. bits : g[i] # Behind(bytes, f[i])}
    <3> SUFFICES ASSUME S # {} PROVE FALSE
      OBVIOUS
    <3>1. PICK m \in S : \A k \in S : m <= k
      <4>1. S \in SUBSET Nat  OBVIOUS
      <4> HIDE DEF S
      <4> QED BY <4>1, Least
    <3>2. m # 0  BY <1>2, <2>2, <3>1
    <3>3. m - 1 \in 0 .. bits /\ ~(m <= m - 1)  BY <3>1, <3>2
    <3>4. PICK e : e = f[m - 1]  OBVIOUS
    <3>5. Between(e) /\ g[m - 1] = Behind(bytes, e)  BY <1>4, <3>1, <3>3, <3>4
    <3>6. f[m] = ApplyBit(e, b(m)) /\ g[m] = ApplyBit(Behind(bytes, e), b(m))
      BY <1>2, <2>2, <3>1, <3>2, <3>4, <3>5
    <3>7. g[m] = Behind(bytes, f[m])  BY <3>5, <3>6, ApplyBitResult
    <3> QED BY <3>1, <3>7
  <2>4. bits \in 0 .. bits  OBVIOUS
  <2> QED BY <1>1, <2>1, <2>3, <2>4
<1>6. bits \in 0 .. bits  OBVIOUS
<1> QED BY <1>1, <1>4, <1>5, <1>6

FieldSteps(enc, fields, n, f) ==
  f = [i \in 0 .. n |->
         IF i = 0 THEN enc ELSE EncodeInt(f[i - 1], fields[i][1], fields[i][2])]

LEMMA FieldStepsExist ==
  ASSUME NEW enc, NEW fields, Len(fields) \in Nat
  PROVE  \E f : /\ FieldSteps(enc, fields, Len(fields), f)
                /\ EncodeFields(enc, fields) = f[Len(fields)]
<1> DEFINE S == {k \in Nat : ~ \E f : FieldSteps(enc, fields, k, f)}
<1>1. S = {}
  <2> SUFFICES ASSUME S # {} PROVE FALSE
    OBVIOUS
  <2>1. PICK m \in S : \A k \in S : m <= k
    <3> HIDE DEF S
    <3>1. S \in SUBSET Nat  BY DEF S
    <3> QED BY <3>1, Least
  <2>2. m \in Nat /\ ~ \E f : FieldSteps(enc, fields, m, f)  BY <2>1
  <2>3. CASE m = 0
    <3> DEFINE f == [i \in 0 .. 0 |-> enc]
    <3>1. FieldSteps(enc, fields, 0, f)  BY DEF FieldSteps
    <3> QED BY <2>2, <2>3, <3>1
  <2>4. CASE m # 0
    <3>1. m - 1 \in Nat /\ ~(m <= m - 1)  BY <2>2, <2>4
    <3>2. m - 1 \notin S  BY <2>1, <3>1
    <3>3. PICK f : FieldSteps(enc, fields, m - 1, f)  BY <3>1, <3>2
    <3> DEFINE step(x, i) == EncodeInt(x, fields[i][1], fields[i][2])
               g == [i \in 0 .. m |-> IF i = m THEN step(f[m - 1], m) ELSE f[i]]
    <3>4. f = [i \in 0 .. m - 1 |-> IF i = 0 THEN enc ELSE step(f[i - 1], i)]
      BY <3>3 DEF FieldSteps
    <3> HIDE DEF step
    <3>5. /\ DOMAIN f = 0 .. m - 1 /\ f[0] = enc
          /\ \A i \in 1 .. m - 1 : f[i] = step(f[i - 1], i)
      <4>1. \A i \in 0 .. m - 1 : f[i] = IF i = 0 THEN enc ELSE step(f[i - 1], i)
        BY <3>4
      <4>2. DOMAIN f = 0 .. m - 1  BY <3>4
      <4>3. 0 \in 0 .. m - 1  BY <3>1
      <4>4. \A i \in 1 .. m - 1 : i \in 0 .. m - 1 /\ i # 0  BY <3>1
      <4> QED BY <4>1, <4>2, <4>3, <4>4
    <3>6. \A i \in 0 .. m : g[i] = IF i = 0 THEN enc ELSE step(g[i - 1], i)
      <4>1. ASSUME NEW i \in 0 .. m, i # 0, i # m PROVE g[i] = step(g[i - 1], i)
        <5>1. i \in 1 .. m - 1 /\ i - 1 \in 0 .. m /\ i - 1 # m  BY <2>2, <4>1
        <5>2. g[i] = f[i] /\ g[i - 1] = f[i - 1]  BY <4>1, <5>1
        <5> QED BY <3>5, <5>1, <5>2
      <4>2. g[m] = step(g[m - 1], m)
        <5>1. m \in 0 .. m /\ m - 1 \in 0 .. m /\ m - 1 # m  BY <2>2, <3>1
        <5>2. g[m] = step(f[m - 1], m) /\ g[m - 1] = f[m - 1]  BY <5>1
        <5> QED BY <5>2
      <4>3. g[0] = enc
        <5>1. 0 \in 0 .. m  BY <2>2
        <5> QED BY <2>4, <3>5, <5>1
      <4> QED BY <4>1, <4>2, <4>3, <2>4
    <3>7. g = [i \in 0 .. m |-> g[i]]  OBVIOUS
    <3> HIDE DEF g
    <3>8. g = [i \in 0 .. m |-> IF i = 0 THEN enc ELSE step(g[i - 1], i)]
      BY <3>6, <3>7
    <3>9. FieldSteps(enc, fields, m, g)  BY <3>8 DEF FieldSteps, step
    <3> QED BY <2>2, <3>9
  <2> QED BY <2>3, <2>4
<1> DEFINE after == CHOOSE f : FieldSteps(enc, fields, Len(fields), f)
<1>2. FieldSteps(enc, fields, Len(fields), after)  BY <1>1
<1>3. EncodeFields(enc, fields) = after[Len(fields)]
  BY Zenon DEF EncodeFields, FieldSteps
<1> HIDE DEF after
<1> QED BY <1>2, <1>3

\* A record's fields follow each other: t[i] bits are written after the i-th.
LEMMA EncodeFieldsResult ==
  ASSUME NEW enc, Between(enc), NEW fields, Len(fields) \in Nat,
         \A i \in 1 .. Len(fields) : fields[i][2] \in Nat
  PROVE  /\ Between(EncodeFields(enc, fields))
         /\ \E t : /\ t[0] = TotalBits(enc)
                   /\ \A i \in 1 .. Len(fields) : t[i] = t[i - 1] + fields[i][2]
                   /\ TotalBits(EncodeFields(enc, fields)) = t[Len(fields)]
         /\ \A bytes \in Seq(Byte) :
              EncodeFields(Behind(bytes, enc), fields) = Behind(bytes, EncodeFields(enc, fields))
<1> DEFINE step(x, i) == EncodeInt(x, fields[i][1], fields[i][2])
<1>0. PICK n \in Nat : n = Len(fields)  OBVIOUS
<1>1. PICK f : FieldSteps(enc, fields, n, f) /\ EncodeFields(enc, fields) = f[n]
  BY <1>0, FieldStepsExist
<1>2. f[0] = enc /\ \A i \in 1 .. n : f[i] = step(f[i - 1], i)
  <2>1. \A i \in 0 .. n : f[i] = IF i = 0 THEN enc ELSE step(f[i - 1], i)
    BY <1>1 DEF FieldSteps
  <2> HIDE DEF step
  <2>2. 0 \in 0 .. n /\ \A i \in 1 .. n : i \in 0 .. n /\ i # 0  OBVIOUS
  <2> QED BY <2>1, <2>2
<1>3. ASSUME NEW e, Between(e), NEW i \in 1 .. n
      PROVE  /\ Between(step(e, i)) /\ TotalBits(step(e, i)) = TotalBits(e) + fields[i][2]
             /\ \A bytes \in Seq(Byte) : step(Behind(bytes, e), i) = Behind(bytes, step(e, i))
  <2>1. fields[i][2] \in Nat  BY <1>0
  <2> QED BY <1>3, <2>1, EncodeIntResult
<1> HIDE DEF step
<1>4. \A i \in 0 .. n : Between(f[i])
  <2> DEFINE S == {i \in 0 .. n : ~Between(f[i])}
  <2> SUFFICES ASSUME S # {} PROVE FALSE
    OBVIOUS
  <2>1. PICK m \in S : \A k \in S : m <= k
    <3>1. S \in SUBSET Nat  OBVIOUS
    <3> HIDE DEF S
    <3> QED BY <3>1, Least
  <2>2. m # 0  BY <1>2, <2>1
  <2>3. m - 1 \in 0 .. n /\ ~(m <= m - 1) /\ m \in 1 .. n  BY <2>1, <2>2
  <2>4. Between(f[m - 1])  BY <2>1, <2>3
  <2>5. f[m] = step(f[m - 1], m)  BY <1>2, <2>3
  <2>6. Between(f[m])  BY <1>3, <2>3, <2>4, <2>5
  <2> QED BY <2>1, <2>6
<1>5. \A i \in 1 .. n : i - 1 \in 0 .. n  OBVIOUS
<1>6. \E t : /\ t[0] = TotalBits(enc)
             /\ \A i \in 1 .. n : t[i] = t[i - 1] + fields[i][2]
             /\ TotalBits(EncodeFields(enc, fields)) = t[n]
  <2> DEFINE t == [i \in 0 .. n |-> TotalBits(f[i])]
  <2>1. \A i \in 0 .. n : t[i] = TotalBits(f[i])  OBVIOUS
  <2> HIDE DEF t
  <2>2. 0 \in 0 .. n /\ n \in 0 .. n /\ \A i \in 1 .. n : i \in 0 .. n  OBVIOUS
  <2>3. t[0] = TotalBits(enc) /\ TotalBits(EncodeFields(enc, fields)) = t[n]
    BY <1>1, <1>2, <2>1, <2>2
  <2>4. ASSUME NEW i \in 1 .. n PROVE t[i] = t[i - 1] + fields[i][2]
    <3>1. TotalBits(step(f[i - 1], i)) = TotalBits(f[i - 1]) + fields[i][2]
      BY <1>3, <1>4, <1>5
    <3> QED BY <1>2, <1>5, <2>1, <2>2, <3>1
  <2> QED BY <2>3, <2>4
<1>7. ASSUME NEW bytes \in Seq(Byte)
      PROVE  EncodeFields(Behind(bytes, enc), fields) = Behind(bytes, EncodeFields(enc, fields))
  <2>1. PICK g : /\ FieldSteps(Behind(bytes, enc), fields, n, g)
                 /\ EncodeFields(Behind(bytes, enc), fields) = g[n]
    BY <1>0, FieldStepsExist
  <2>2. g[0] = Behind(bytes, enc) /\ \A i \in 1 .. n : g[i] = step(g[i - 1], i)
    <3>1. \A i \in 0 .. n : g[i] = IF i = 0 THEN Behind(bytes, enc) ELSE step(g[i - 1], i)
      BY <2>1 DEF FieldSteps, step
    <3>2. 0 \in 0 .. n /\ \A i \in 1 .. n : i \in 0 .. n /\ i # 0  OBVIOUS
    <3> QED BY <3>1, <3>2
  <2>3. \A i \in 0 .. n : g[i] = Behind(bytes, f[i])
    <3> DEFINE S == {i \in 0 .. n : g[i] # Behind(bytes, f[i])}
    <3> SUFFICES ASSUME S # {} PROVE FALSE
      OBVIOUS
    <3>1. PICK m \in S : \A k \in S : m <= k
      <4>1. S \in SUBSET Nat  OBVIOUS
      <4> HIDE DEF S
      <4> QED BY <4>1, Least
    <3>2. m # 0  BY <1>2, <2>2, <3>1
    <3>3. m - 1 \in 0 .. n /\ ~(m <= m - 1) /\ m \in 1 .. n  BY <3>1, <3>2
    <3>4. g[m - 1] = Behind(bytes, f[m - 1]) /\ Between(f[m - 1])  BY <1>4, <3>1, <3>3
    <3>5. g[m] = step(Behind(bytes, f[m - 1]), m) /\ f[m] = step(f[m - 1], m)
      BY <1>2, <2>2, <3>3, <3>4
    <3>6. g[m] = Behind(bytes, f[m])  BY <1>3, <3>3, <3>4, <3>5
    <3> QED BY <3>1, <3>6
  <2>4. n \in 0 .. n  OBVIOUS
  <2> QED BY <1>1, <2>1, <2>3, <2>4
<1>8. n \in 0 .. n  OBVIOUS
<1> QED BY <1>0, <1>1, <1>4, <1>6, <1>7, <1>8

-----------------------------------------------------------------------------
(* Padding and records. *)

\* Padding by so many bits.
PadBits(enc, missing) ==
  LET toByte  == (8 - enc.applying_bit) % 8
      first   == IF missing < toByte THEN missing ELSE toByte
      bytes   == (missing - first) \div 8
  IN  Zeros(PutBytes(Zeros(enc, first), [i \in 1 .. bytes |-> 0]), (missing - first) % 8)

LEMMA PadBitsResult ==
  ASSUME NEW enc, Between(enc), NEW missing \in Nat
  PROVE  /\ Between(PadBits(enc, missing))
         /\ TotalBits(PadBits(enc, missing)) = TotalBits(enc) + missing
         /\ \A bytes \in Seq(Byte) :
              PadBits(Behind(bytes, enc), missing) = Behind(bytes, PadBits(enc, missing))
<1> DEFINE toByte == (8 - enc.applying_bit) % 8
           first  == IF missing < toByte THEN missing ELSE toByte
           whole  == (missing - first) \div 8
           rest   == (missing - first) % 8
           zeros  == [i \in 1 .. whole |-> 0]
           filled == Zeros(enc, first)
           wide   == PutBytes(filled, zeros)
<1>1. first \in Nat /\ whole \in Nat /\ rest \in Nat /\ missing = first + 8 * whole + rest
  <2>1. enc.applying_bit \in 0 .. 7  BY DEF Between, Contexts
  <2>2. PICK b : b = toByte  OBVIOUS
  <2>3. b \in 0 .. 7  BY <2>1, <2>2
  <2> HIDE DEF toByte
  <2>4. PICK f : f = first  OBVIOUS
  <2>5. f \in Nat /\ missing - f \in Nat  BY <2>2, <2>3, <2>4
  <2>6. PICK x \in Nat : x = missing - f  BY <2>5
  <2>7. x \div 8 \in Nat /\ x % 8 \in Nat /\ x = 8 * (x \div 8) + (x % 8)  BY ONLY x \in Nat
  <2> QED BY <2>4, <2>5, <2>6, <2>7
<1>2. PadBits(enc, missing) = Zeros(wide, rest)
  BY DEF PadBits
<1>3. \A bytes \in Seq(Byte) :
        PadBits(Behind(bytes, enc), missing)
          = Zeros(PutBytes(Zeros(Behind(bytes, enc), first), zeros), rest)
  BY DEF PadBits, Behind
<1> HIDE DEF toByte, first, whole, rest
<1>4. /\ Between(filled) /\ TotalBits(filled) = TotalBits(enc) + first
      /\ \A bytes \in Seq(Byte) : Zeros(Behind(bytes, enc), first) = Behind(bytes, filled)
  BY <1>1, EncodeIntResult DEF Zeros
<1>5. zeros \in Seq(Byte) /\ Len(zeros) = whole
  <2>1. 0 \in Byte  BY DEF Byte
  <2> QED BY <1>1, <2>1
<1> HIDE DEF zeros, filled
<1>6. PICK buf \in Seq(Byte), a \in 0 .. 7, c \in Byte :
        filled = [encoding_buf |-> buf, applying_bit |-> a, encoding_char |-> c]
  BY <1>4 DEF Between, Contexts
<1>7. wide = [encoding_buf |-> buf \o zeros, applying_bit |-> a, encoding_char |-> c]
  BY <1>6 DEF PutBytes
<1> HIDE DEF wide
<1>8. buf \o zeros \in Seq(Byte) /\ Len(buf \o zeros) = Len(buf) + whole /\ Len(buf) \in Nat
  BY <1>5
<1>9. Between(wide)
  BY <1>4, <1>6, <1>7, <1>8 DEF Between, Contexts
<1>10. TotalBits(wide) = TotalBits(enc) + first + 8 * whole
  <2>1. TotalBits(wide) = (Len(buf) + whole) * 8 + a /\ TotalBits(filled) = Len(buf) * 8 + a
    BY <1>6, <1>7, <1>8 DEF TotalBits
  <2>2. TotalBits(enc) \in Nat  BY DEF TotalBits, Between, Contexts
  <2> QED BY <1>1, <1>4, <1>8, <2>1, <2>2
<1>11. ASSUME NEW bytes \in Seq(Byte)
       PROVE  PadBits(Behind(bytes, enc), missing) = Zeros(Behind(bytes, wide), rest)
  <2>1. Behind(bytes, filled)
          = [encoding_buf |-> bytes \o buf, applying_bit |-> a, encoding_char |-> c]
    BY <1>6 DEF Behind
  <2>2. PutBytes(Behind(bytes, filled), zeros)
          = [encoding_buf |-> (bytes \o buf) \o zeros, applying_bit |-> a, encoding_char |-> c]
    BY <2>1 DEF PutBytes
  <2>3. (bytes \o buf) \o zeros = bytes \o (buf \o zeros)
    BY <1>5
  <2>4. PutBytes(Behind(bytes, filled), zeros) = Behind(bytes, wide)
    BY <1>7, <2>2, <2>3 DEF Behind
  <2> QED BY <1>3, <1>4, <2>4
<1>12. /\ Between(Zeros(wide, rest)) /\ TotalBits(Zeros(wide, rest)) = TotalBits(wide) + rest
       /\ \A bytes \in Seq(Byte) : Zeros(Behind(bytes, wide), rest) = Behind(bytes, Zeros(wide, rest))
  BY <1>1, <1>9, EncodeIntResult DEF Zeros
<1>13. TotalBits(enc) \in Nat  BY DEF TotalBits, Between, Contexts
<1>14. TotalBits(PadBits(enc, missing)) = TotalBits(enc) + missing
  BY <1>1, <1>2, <1>10, <1>12, <1>13
<1> QED BY <1>2, <1>11, <1>12, <1>14

LEMMA Remainder ==
  ASSUME NEW d \in Nat, d > 0, NEW k \in Nat, NEW r \in 0 .. d - 1
  PROVE  (k * d + r) % d = r
<1>1. k * d \in Nat /\ k * d + r \in Nat
  OBVIOUS
<1> QED
  BY <1>1

\* A record is padded to its length, wherever it begins.
LEMMA PaddingResult ==
  ASSUME NEW enc, Between(enc), NEW at \in Nat, TotalBits(enc) \in 1 .. at
  PROVE  /\ Between(Padding(enc, at))
         /\ TotalBits(Padding(enc, at)) = at
         /\ \A bytes \in Seq(Byte) : \A k \in Nat :
              Len(bytes) * 8 = k * at => Padding(Behind(bytes, enc), at) = Behind(bytes, Padding(enc, at))
<1> DEFINE t == TotalBits(enc)
           missing(n) == IF n % at = 0 THEN 0 ELSE at - (n % at)
<1>1. \A e : Padding(e, at) = PadBits(e, missing(TotalBits(e)))
  BY DEF Padding, PadBits, Aligned
<1>2. \A k \in Nat : missing(k * at + t) = at - t
  <2> SUFFICES ASSUME NEW k \in Nat PROVE missing(k * at + t) = at - t
    OBVIOUS
  <2>0. PICK r \in 1 .. at : r = t  OBVIOUS
  <2>1. CASE r < at
    <3>1. r \in 0 .. at - 1 /\ at > 0 /\ r # 0  BY <2>1
    <3>2. (k * at + r) % at = r  BY <3>1, Remainder
    <3> QED BY <2>0, <3>1, <3>2
  <2>2. CASE r = at
    <3>1. at > 0 /\ k + 1 \in Nat /\ 0 \in 0 .. at - 1 /\ (k + 1) * at \in Nat  OBVIOUS
    <3>2. ((k + 1) * at + 0) % at = 0  BY <3>1, Remainder
    <3>3. (k + 1) * at + 0 = k * at + r  BY <2>2
    <3>4. (k * at + r) % at = 0  BY <3>2, <3>3
    <3> QED BY <2>0, <2>2, <3>4
  <2> QED BY <2>1, <2>2
<1>3. t \in Nat /\ at - t \in Nat /\ 0 \in Nat /\ 0 * at + t = t
  OBVIOUS
<1>4. missing(t) = at - t
  BY <1>2, <1>3
<1>5. \A bytes \in Seq(Byte) : TotalBits(Behind(bytes, enc)) = Len(bytes) * 8 + t
  <2> SUFFICES ASSUME NEW bytes \in Seq(Byte)
               PROVE  TotalBits(Behind(bytes, enc)) = Len(bytes) * 8 + t
    OBVIOUS
  <2>1. PICK buf \in Seq(Byte), a \in 0 .. 7 : buf = enc.encoding_buf /\ a = enc.applying_bit
    BY DEF Between, Contexts
  <2>2. Len(buf) \in Nat /\ Len(bytes) \in Nat /\ Len(bytes \o buf) = Len(bytes) + Len(buf)
    OBVIOUS
  <2>3. TotalBits(Behind(bytes, enc)) = Len(bytes \o buf) * 8 + a /\ t = Len(buf) * 8 + a
    BY <2>1 DEF TotalBits, Behind
  <2> QED BY <2>2, <2>3
<1> HIDE DEF t, missing
<1>6. Padding(enc, at) = PadBits(enc, at - t)
  BY <1>1, <1>4 DEF t
<1>7. /\ Between(PadBits(enc, at - t)) /\ TotalBits(PadBits(enc, at - t)) = t + (at - t)
      /\ \A bytes \in Seq(Byte) :
           PadBits(Behind(bytes, enc), at - t) = Behind(bytes, PadBits(enc, at - t))
  BY <1>3, PadBitsResult DEF t
<1>8. ASSUME NEW bytes \in Seq(Byte), NEW k \in Nat, Len(bytes) * 8 = k * at
      PROVE  Padding(Behind(bytes, enc), at) = Behind(bytes, Padding(enc, at))
  <2>1. Padding(Behind(bytes, enc), at) = PadBits(Behind(bytes, enc), missing(k * at + t))
    BY <1>1, <1>5, <1>8
  <2> QED BY <1>2, <1>6, <1>7, <2>1
<1> QED BY <1>3, <1>6, <1>7, <1>8

LEMMA Widths ==
  /\ AccountBits \in Nat /\ TokenBits \in Nat /\ OrderBits \in Nat /\ AmountBits \in Nat
  /\ OrderIdBits \in Nat /\ KeyBits \in Nat /\ SigBits \in Nat /\ ExpBits \in Nat
  /\ FloatBits \in Nat /\ NTx \in Nat /\ NTx > 0
<1>1. \A n \in Nat \ {0} : n \in Nat /\ n > 0
  OBVIOUS
<1>2. /\ AccountBits \in Nat \ {0} /\ TokenBits \in Nat \ {0} /\ OrderBits \in Nat \ {0}
      /\ AmountBits \in Nat \ {0} /\ OrderIdBits \in Nat \ {0} /\ KeyBits \in Nat \ {0}
      /\ SigBits \in Nat \ {0} /\ ExpBits \in Nat \ {0} /\ NTx \in Nat \ {0}
  BY Zenon, PublicDataAssumption
<1>3. SigBits + ExpBits \in Nat
  BY <1>2
<1> QED
  BY <1>1, <1>2, <1>3 DEF FloatBits

\* bytes of a record
Record == DataBits \div 8

\* The longest scheme fits with its header, in whole bytes.
LEMMA DataBitsResult ==
  /\ DataBits \in Nat /\ Record \in Nat \ {0} /\ DataBits = 8 * Record
  /\ CommonBits + HeadBits <= DataBits
  /\ TradeBits + HeadBits <= DataBits
  /\ L2KeyBits + HeadBits <= DataBits
<1>1. CommonBits \in Nat /\ TradeBits \in Nat /\ L2KeyBits \in Nat
  BY Widths DEF CommonBits, TradeBits, L2KeyBits
<1>2. PICK a \in Nat, b \in Nat, c \in Nat : a = CommonBits /\ b = TradeBits /\ c = L2KeyBits
  BY <1>1
<1>3. PICK m \in Nat : m = Max({a, b, c}) /\ a <= m /\ b <= m /\ c <= m
  <2>1. \E x \in {a, b, c} : \A y \in {a, b, c} : x >= y
    OBVIOUS
  <2>2. /\ Max({a, b, c}) \in {a, b, c}
        /\ \A y \in {a, b, c} : Max({a, b, c}) >= y
    BY <2>1, Zenon DEF Max
  <2> QED BY <2>2
<1>4. PICK n \in Nat : n = m + 3
  OBVIOUS
<1>5. DataBits = n + ((8 - (n % 8)) % 8)
  BY <1>2, <1>3, <1>4 DEF DataBits, RoundUp, HeadBits
<1>6. PICK p : p = DataBits
  OBVIOUS
<1>7. p \in Nat /\ p >= n /\ p % 8 = 0 /\ p \div 8 \in Nat /\ p = 8 * (p \div 8)
  BY <1>5, <1>6
<1>8. p \div 8 # 0
  BY <1>4, <1>7
<1> QED
  BY <1>2, <1>3, <1>4, <1>6, <1>7, <1>8 DEF Record, HeadBits

\* No transaction's fields are longer than a record.
LEMMA FieldsResult ==
  ASSUME NEW tx \in Txs, NEW enc, Between(enc), TotalBits(enc) = HeadBits
  PROVE  /\ Between(EncodeFields(enc, Fields(tx)))
         /\ TotalBits(EncodeFields(enc, Fields(tx))) \in 1 .. DataBits
         /\ \A bytes \in Seq(Byte) :
              EncodeFields(Behind(bytes, enc), Fields(tx)) = Behind(bytes, EncodeFields(enc, Fields(tx)))
<1> DEFINE F == Fields(tx)
<1>1. SUFFICES /\ Len(F) \in Nat /\ \A i \in 1 .. Len(F) : F[i][2] \in Nat
               /\ \A t : /\ t[0] = HeadBits
                         /\ \A i \in 1 .. Len(F) : t[i] = t[i - 1] + F[i][2]
                         => t[Len(F)] \in 1 .. DataBits
  BY EncodeFieldsResult
<1>2. tx.type \in {"key", "deposit", "transfer", "withdraw", "trade", "nop"}
  BY TxsAssumption
<1>3. CASE tx.type = "key"
  <2>1. F = <<<<tx.from, AccountBits>>, <<tx.sign, 1>>, <<tx.ay, KeyBits>>>>
    BY <1>3 DEF Fields
  <2> HIDE DEF F
  <2>2. Len(F) = 3 /\ F[1][2] = AccountBits /\ F[2][2] = 1 /\ F[3][2] = KeyBits
    BY <2>1
  <2> QED BY <2>2, Widths, DataBitsResult DEF L2KeyBits, HeadBits
<1>4. CASE tx.type = "trade"
  <2>1. F = <<<<tx.from, AccountBits>>, <<tx.to, AccountBits>>,
              <<tx.order1.token, TokenBits>>, <<tx.order2.token, TokenBits>>>>
            \o OrderFields(tx.order1) \o OrderFields(tx.order2)
    BY <1>4 DEF Fields
  <2> HIDE DEF F
  <2>2. Len(F) = 12
    BY <2>1 DEF OrderFields
  <2>3. /\ F[1][2] = AccountBits /\ F[2][2] = AccountBits
        /\ F[3][2] = TokenBits /\ F[4][2] = TokenBits
        /\ F[5][2] = FloatBits /\ F[6][2] = FloatBits
        /\ F[7][2] = OrderBits /\ F[8][2] = OrderIdBits
        /\ F[9][2] = FloatBits /\ F[10][2] = FloatBits
        /\ F[11][2] = OrderBits /\ F[12][2] = OrderIdBits
    BY <2>1 DEF OrderFields
  <2>4. \A i \in 1 .. 12 : F[i][2] \in Nat
    <3>1. \A i \in 1 .. 12 : \/ i = 1 \/ i = 2 \/ i = 3 \/ i = 4 \/ i = 5 \/ i = 6
                             \/ i = 7 \/ i = 8 \/ i = 9 \/ i = 10 \/ i = 11 \/ i = 12
      OBVIOUS
    <3> QED BY <2>3, <3>1, Widths
  <2>5. ASSUME NEW t, t[0] = HeadBits, \A i \in 1 .. 12 : t[i] = t[i - 1] + F[i][2]
        PROVE  t[12] = HeadBits + TradeBits
    <3>1. /\ t[1] = 3 + AccountBits /\ t[2] = t[1] + AccountBits
          /\ t[3] = t[2] + TokenBits /\ t[4] = t[3] + TokenBits
          /\ t[5] = t[4] + FloatBits /\ t[6] = t[5] + FloatBits
          /\ t[7] = t[6] + OrderBits /\ t[8] = t[7] + OrderIdBits
          /\ t[9] = t[8] + FloatBits /\ t[10] = t[9] + FloatBits
          /\ t[11] = t[10] + OrderBits /\ t[12] = t[11] + OrderIdBits
      BY <2>3, <2>5 DEF HeadBits
    <3> QED BY <3>1, Widths DEF TradeBits, HeadBits
  <2> QED BY <2>2, <2>4, <2>5, Widths, DataBitsResult DEF TradeBits, HeadBits
<1>5. CASE tx.type = "nop"
  <2>1. F = <<>>  BY <1>5 DEF Fields
  <2>2. Len(F) = 0  BY <2>1
  <2> QED BY <2>2, DataBitsResult, Widths DEF HeadBits, L2KeyBits
<1>6. CASE tx.type \in {"deposit", "transfer", "withdraw"}
  <2>1. F = <<<<tx.from, AccountBits>>, <<tx.to, AccountBits>>,
              <<tx.token, TokenBits>>, <<tx.amount, AmountBits>>>>
    BY <1>6 DEF Fields
  <2> HIDE DEF F
  <2>2. /\ Len(F) = 4 /\ F[1][2] = AccountBits /\ F[2][2] = AccountBits
        /\ F[3][2] = TokenBits /\ F[4][2] = AmountBits
    BY <2>1
  <2> QED BY <2>2, Widths, DataBitsResult DEF CommonBits, HeadBits
<1> QED BY <1>2, <1>3, <1>4, <1>5, <1>6

LEMMA NewResult ==
  Between(New) /\ TotalBits(New) = 0
<1>1. <<>> \in Seq(Byte) /\ 0 \in Byte /\ 0 \in 0 .. 7 /\ 0 % (2 * mask[0 + 1]) = 0
  BY DEF Byte, mask
<1> QED
  BY <1>1 DEF Between, Contexts, New, TotalBits

\* The bytes of a transaction, wherever its record is.
Bytes(tx) == EncodeTx(New, tx).encoding_buf

\* A context of whole bytes is a new one behind them.
LEMMA WholeBytes ==
  ASSUME NEW enc, Between(enc), NEW n \in Nat, TotalBits(enc) = 8 * n
  PROVE  /\ enc.encoding_buf \in Seq(Byte) /\ Len(enc.encoding_buf) = n
         /\ enc = Behind(enc.encoding_buf, New)
         /\ enc = [encoding_buf |-> enc.encoding_buf, applying_bit |-> 0, encoding_char |-> 0]
         /\ Seal(enc) = enc.encoding_buf
<1>1. PICK buf \in Seq(Byte), a \in 0 .. 7, c \in Byte :
        enc = [encoding_buf |-> buf, applying_bit |-> a, encoding_char |-> c]
  BY DEF Between, Contexts
<1>2. Len(buf) \in Nat
  OBVIOUS
<1>3. Len(buf) * 8 + a = 8 * n
  BY <1>1 DEF TotalBits
<1>4. a = 0 /\ Len(buf) = n
  BY <1>2, <1>3
<1>5. c % 256 = 0
  BY <1>1, <1>4 DEF Between, mask
<1>6. c = 0
  BY <1>5 DEF Byte
<1>7. buf \o <<>> = buf
  OBVIOUS
<1>8. Behind(buf, New) = [encoding_buf |-> buf, applying_bit |-> 0, encoding_char |-> 0]
  BY <1>7 DEF Behind, New
<1> QED
  BY <1>1, <1>4, <1>6, <1>8 DEF Seal

\* A record begins where the last one ends, and what is before it does not change it.
LEMMA EncodeTxResult ==
  ASSUME NEW tx \in Txs
  PROVE  /\ Between(EncodeTx(New, tx)) /\ TotalBits(EncodeTx(New, tx)) = DataBits
         /\ \A bytes \in Seq(Byte) : \A k \in Nat :
              Len(bytes) * 8 = k * DataBits
                => EncodeTx(Behind(bytes, New), tx) = Behind(bytes, EncodeTx(New, tx))
<1> DEFINE head == EncodeInt(New, Header(tx), HeadBits)
           body == EncodeFields(head, Fields(tx))
<1>1. HeadBits \in Nat
  BY DEF HeadBits
<1>2. /\ Between(head) /\ TotalBits(head) = HeadBits
      /\ \A bytes \in Seq(Byte) :
           EncodeInt(Behind(bytes, New), Header(tx), HeadBits) = Behind(bytes, head)
  BY <1>1, NewResult, EncodeIntResult
<1>3. EncodeTx(New, tx) = Padding(body, DataBits)
  BY DEF EncodeTx, Padded
<1>4. \A bytes \in Seq(Byte) :
        EncodeTx(Behind(bytes, New), tx)
          = Padding(EncodeFields(EncodeInt(Behind(bytes, New), Header(tx), HeadBits), Fields(tx)), DataBits)
  BY DEF EncodeTx, Padded
<1> HIDE DEF head
<1>5. /\ Between(body) /\ TotalBits(body) \in 1 .. DataBits
      /\ \A bytes \in Seq(Byte) : EncodeFields(Behind(bytes, head), Fields(tx)) = Behind(bytes, body)
  BY <1>2, FieldsResult
<1> HIDE DEF body
<1>6. /\ Between(Padding(body, DataBits)) /\ TotalBits(Padding(body, DataBits)) = DataBits
      /\ \A bytes \in Seq(Byte) : \A k \in Nat :
           Len(bytes) * 8 = k * DataBits
             => Padding(Behind(bytes, body), DataBits) = Behind(bytes, Padding(body, DataBits))
  <2>1. DataBits \in Nat  BY DataBitsResult
  <2> QED BY <1>5, <2>1, PaddingResult
<1> QED
  BY <1>2, <1>3, <1>4, <1>5, <1>6

LEMMA RecordResult ==
  ASSUME NEW tx \in Txs
  PROVE  /\ Bytes(tx) \in Seq(Byte) /\ Len(Bytes(tx)) = Record
         /\ EncodeTx(New, tx) = Behind(Bytes(tx), New) /\ Seal(EncodeTx(New, tx)) = Bytes(tx)
<1>1. PICK e : e = EncodeTx(New, tx)
  OBVIOUS
<1>2. Between(e) /\ TotalBits(e) = 8 * Record /\ Record \in Nat
  BY <1>1, EncodeTxResult, DataBitsResult
<1> QED
  BY <1>1, <1>2, WholeBytes DEF Bytes

\* What encode_rawtx_to_pubdata adds to the bytes of k records.
LEMMA EncodeTxAppends ==
  ASSUME NEW enc, Between(enc), NEW k \in Nat, TotalBits(enc) = k * DataBits, NEW tx \in Txs
  PROVE  /\ Between(EncodeTx(enc, tx))
         /\ TotalBits(EncodeTx(enc, tx)) = (k + 1) * DataBits
         /\ Len(enc.encoding_buf) = k * Record
         /\ EncodeTx(enc, tx).encoding_buf = enc.encoding_buf \o Bytes(tx)
<1>1. PICK d \in Nat, r \in Nat : d = DataBits /\ r = Record /\ d = 8 * r
  BY DataBitsResult
<1>2. k * d = 8 * (k * r) /\ k * r \in Nat /\ (k + 1) * d = 8 * (k * r) + 8 * r
  BY <1>1
<1>3. PICK buf \in Seq(Byte) : buf = enc.encoding_buf /\ Len(buf) = k * r /\ enc = Behind(buf, New)
  BY <1>1, <1>2, WholeBytes
<1>4. Len(buf) * 8 = k * DataBits
  BY <1>1, <1>2, <1>3
<1>5. EncodeTx(enc, tx) = Behind(buf, EncodeTx(New, tx))
  BY <1>3, <1>4, EncodeTxResult
<1>6. PICK b \in Seq(Byte) : b = Bytes(tx) /\ Len(b) = r
  BY <1>1, RecordResult
<1>7. EncodeTx(New, tx) = [encoding_buf |-> b \o <<>>, applying_bit |-> 0, encoding_char |-> 0]
  BY <1>6, RecordResult DEF Behind, New, Bytes
<1>8. b \o <<>> = b /\ buf \o b \in Seq(Byte) /\ Len(buf \o b) = k * r + r
  BY <1>3, <1>6
<1>9. EncodeTx(enc, tx) = [encoding_buf |-> buf \o b, applying_bit |-> 0, encoding_char |-> 0]
  BY <1>5, <1>7, <1>8 DEF Behind
<1>10. 0 \in Byte /\ 0 \in 0 .. 7 /\ 0 % (2 * mask[0 + 1]) = 0
  BY DEF Byte, mask
<1>11. Between(EncodeTx(enc, tx))
  BY <1>8, <1>9, <1>10 DEF Between, Contexts
<1>12. TotalBits(EncodeTx(enc, tx)) = (k * r + r) * 8 + 0
  <2>1. PICK x : x = buf \o b
    OBVIOUS
  <2>2. EncodeTx(enc, tx).encoding_buf = x /\ EncodeTx(enc, tx).applying_bit = 0
    BY <1>9, <2>1
  <2>3. Len(x) = k * r + r
    BY <1>8, <2>1
  <2> QED BY <2>2, <2>3 DEF TotalBits
<1>13. (k * r + r) * 8 + 0 = (k + 1) * d
  <2>1. PICK y \in Nat : y = k * r
    BY <1>2
  <2> QED BY <1>2, <2>1
<1>14. EncodeTx(enc, tx).encoding_buf = buf \o b
  BY <1>9
<1> QED
  BY <1>1, <1>3, <1>6, <1>11, <1>12, <1>13, <1>14

\* encode_pubdata writes the same header and the same fields.
LEMMA TypedEncodedResult ==
  ASSUME NEW tx \in Txs,
         tx.type = "trade" => \A o \in {tx.order1, tx.order2} : Filled(o) = IsFilled(o)
  PROVE  TypedEncoded(tx) = Bytes(tx)
<1>1. /\ tx.type \in {"key", "deposit", "transfer", "withdraw", "trade", "nop"}
      /\ tx.type \in {"deposit", "withdraw"} => tx.to = tx.from
  BY TxsAssumption
<1>2. TypedHeader(tx) = Header(tx)
  <2>1. CASE tx.type = "trade"
    <3>1. Filled(tx.order1) = IsFilled(tx.order1) /\ Filled(tx.order2) = IsFilled(tx.order2)
      BY <2>1
    <3> QED BY <2>1, <3>1 DEF Header, TypedHeader
  <2>2. CASE tx.type # "trade"
    BY <1>1, <2>2 DEF Header, TypedHeader
  <2> QED BY <2>1, <2>2
<1>3. TypedFields(tx) = Fields(tx)
  <2>1. CASE tx.type = "trade"
    <3> DEFINE order(o) == <<<<Compress(o.sell), FloatBits>>, <<Compress(o.buy), FloatBits>>,
                           <<o.pos, OrderBits>>, <<o.id, OrderIdBits>>>>
               head == <<<<tx.from, AccountBits>>, <<tx.to, AccountBits>>,
                         <<tx.order1.token, TokenBits>>, <<tx.order2.token, TokenBits>>>>
    <3>1. \A o : order(o) = OrderFields(o)
      BY DEF OrderFields
    <3>2. TypedFields(tx) = head \o order(tx.order1) \o order(tx.order2)
      BY <2>1 DEF TypedFields
    <3>3. Fields(tx) = head \o OrderFields(tx.order1) \o OrderFields(tx.order2)
      BY <2>1 DEF Fields
    <3> HIDE DEF order, head
    <3> QED BY <3>1, <3>2, <3>3
  <2>2. CASE tx.type # "trade"
    BY <1>1, <2>2 DEF Fields, TypedFields, TypedCommon
  <2> QED BY <2>1, <2>2
<1>4. TypedEncoded(tx) = Seal(EncodeTx(New, tx))
  BY <1>2, <1>3 DEF TypedEncoded, EncodeTx, Padded
<1> QED
  BY <1>4, RecordResult

-----------------------------------------------------------------------------
(* Numbers: halves, powers, and what is read back. *)

\* f follows a first value and steps, up to n.
Follows(a, g, n, f) == f[0] = a /\ \A k \in 1 .. n : f[k] = g[k][f[k - 1]]

\* Such a function exists on all natural numbers.
LEMMA NatRecursion ==
  ASSUME NEW a \in Nat, NEW g \in [Nat -> [Nat -> Nat]]
  PROVE  \E f \in [Nat -> Nat] : f[0] = a /\ \A k \in Nat : k # 0 => f[k] = g[k][f[k - 1]]
<1>1. \A n \in Nat : \E f \in [Nat -> Nat] : Follows(a, g, n, f)
  <2> DEFINE S == {n \in Nat : ~ \E f \in [Nat -> Nat] : Follows(a, g, n, f)}
  <2> SUFFICES ASSUME S # {} PROVE FALSE
    OBVIOUS
  <2>1. PICK m \in S : \A k \in S : m <= k
    <3>1. S \in SUBSET Nat  OBVIOUS
    <3> HIDE DEF S
    <3> QED BY <3>1, Least
  <2>2. m \in Nat /\ ~ \E f \in [Nat -> Nat] : Follows(a, g, m, f)
    BY <2>1
  <2>3. CASE m = 0
    <3> DEFINE f == [k \in Nat |-> a]
    <3>1. f \in [Nat -> Nat] /\ Follows(a, g, 0, f)  BY DEF Follows
    <3> QED BY <2>2, <2>3, <3>1
  <2>4. CASE m # 0
    <3>1. m - 1 \in Nat /\ ~(m <= m - 1)  BY <2>2, <2>4
    <3>2. m - 1 \notin S  BY <2>1, <3>1
    <3>3. PICK f \in [Nat -> Nat] : Follows(a, g, m - 1, f)  BY <3>1, <3>2
    <3>4. g[m] \in [Nat -> Nat] /\ f[m - 1] \in Nat  BY <2>2, <3>1
    <3>5. PICK v \in Nat : v = g[m][f[m - 1]]  BY <3>4
    <3> DEFINE h == [k \in Nat |-> IF k = m THEN v ELSE f[k]]
    <3>6. h \in [Nat -> Nat] /\ h[m] = v /\ \A k \in Nat : k # m => h[k] = f[k]  BY <2>2
    <3> HIDE DEF h
    <3>7. h[0] = a  BY <2>4, <3>3, <3>6 DEF Follows
    <3>8. ASSUME NEW k \in 1 .. m PROVE h[k] = g[k][h[k - 1]]
      <4>1. k \in Nat /\ k - 1 \in Nat /\ k - 1 # m  BY <2>2
      <4>2. h[k - 1] = f[k - 1]  BY <3>6, <4>1
      <4>3. CASE k = m
        BY <3>5, <3>6, <4>2, <4>3
      <4>4. CASE k # m
        <5>1. k \in 1 .. m - 1  BY <2>2, <4>4
        <5>2. f[k] = g[k][f[k - 1]]  BY <3>3, <5>1 DEF Follows
        <5> QED BY <3>6, <4>1, <4>2, <4>4, <5>2
      <4> QED BY <4>3, <4>4
    <3>9. Follows(a, g, m, h)  BY <3>7, <3>8 DEF Follows
    <3> QED BY <2>2, <3>6, <3>9
  <2> QED BY <2>3, <2>4
<1>2. ASSUME NEW n \in Nat, NEW f, NEW h, Follows(a, g, n, f), Follows(a, g, n, h)
      PROVE  \A k \in 0 .. n : f[k] = h[k]
  <2> DEFINE S == {k \in 0 .. n : f[k] # h[k]}
  <2> SUFFICES ASSUME S # {} PROVE FALSE
    OBVIOUS
  <2>1. PICK m \in S : \A k \in S : m <= k
    <3>1. S \in SUBSET Nat  OBVIOUS
    <3> HIDE DEF S
    <3> QED BY <3>1, Least
  <2>2. f[0] = h[0]  BY <1>2 DEF Follows
  <2>3. m # 0  BY <2>1, <2>2
  <2>4. m - 1 \in 0 .. n /\ ~(m <= m - 1) /\ m \in 1 .. n  BY <2>1, <2>3
  <2>5. f[m - 1] = h[m - 1]  BY <2>1, <2>4
  <2>6. f[m] = g[m][f[m - 1]] /\ h[m] = g[m][h[m - 1]]  BY <1>2, <2>4 DEF Follows
  <2> QED BY <2>1, <2>5, <2>6
<1> DEFINE upto(n) == CHOOSE f : f \in [Nat -> Nat] /\ Follows(a, g, n, f)
           all == [k \in Nat |-> upto(k)[k]]
<1>3. ASSUME NEW n \in Nat PROVE upto(n) \in [Nat -> Nat] /\ Follows(a, g, n, upto(n))
  <2>1. \E f : f \in [Nat -> Nat] /\ Follows(a, g, n, f)  BY <1>1
  <2> QED BY <2>1, Zenon
<1> HIDE DEF upto
<1>4. all \in [Nat -> Nat]
  BY <1>3
<1>5. all[0] = a
  <2>1. upto(0)[0] = a  BY <1>3 DEF Follows
  <2> QED BY <2>1
<1>6. ASSUME NEW k \in Nat, k # 0 PROVE all[k] = g[k][all[k - 1]]
  <2>1. k - 1 \in Nat /\ k \in 1 .. k /\ k - 1 \in 0 .. k - 1 /\ \A j \in 1 .. k - 1 : j \in 1 .. k
    BY <1>6
  <2>2. upto(k)[k] = g[k][upto(k)[k - 1]]  BY <1>3, <2>1 DEF Follows
  <2>3. Follows(a, g, k - 1, upto(k)) /\ Follows(a, g, k - 1, upto(k - 1))
    BY <1>3, <2>1 DEF Follows
  <2>4. upto(k)[k - 1] = upto(k - 1)[k - 1]  BY <1>2, <2>1, <2>3
  <2> QED BY <2>1, <2>2, <2>4
<1> QED
  BY <1>4, <1>5, <1>6

SameSteps(n, f, h) ==
  f[0] = h[0] /\ \A k \in 1 .. n : f[k - 1] = h[k - 1] => f[k] = h[k]

\* Two functions that begin alike and step alike are alike.
LEMMA Agree ==
  ASSUME NEW n \in Nat, NEW f, NEW h, SameSteps(n, f, h)
  PROVE  \A k \in 0 .. n : f[k] = h[k]
<1>0. f[0] = h[0] /\ \A k \in 1 .. n : f[k - 1] = h[k - 1] => f[k] = h[k]
  BY DEF SameSteps
<1> DEFINE S == {k \in 0 .. n : f[k] # h[k]}
<1> SUFFICES ASSUME S # {} PROVE FALSE
  OBVIOUS
<1>1. PICK m \in S : \A k \in S : m <= k
  <2>1. S \in SUBSET Nat  OBVIOUS
  <2> HIDE DEF S
  <2> QED BY <2>1, Least
<1>2. m # 0  BY <1>0, <1>1
<1>3. m - 1 \in 0 .. n /\ ~(m <= m - 1) /\ m \in 1 .. n  BY <1>1, <1>2
<1>4. f[m - 1] = h[m - 1]  BY <1>1, <1>3
<1> QED BY <1>0, <1>1, <1>3, <1>4

HalfSteps(n, i, h) == h = [k \in 0 .. i |-> IF k = 0 THEN n ELSE h[k - 1] \div 2]

LEMMA HalvedSteps ==
  ASSUME NEW n \in Nat
  PROVE  \E f \in [Nat -> Nat] :
           /\ f[0] = n /\ \A k \in Nat : k # 0 => f[k] = f[k - 1] \div 2
           /\ \A i \in Nat : Halved(n, i) = f[i]
<1> DEFINE g == [k \in Nat |-> [x \in Nat |-> x \div 2]]
<1>1. g \in [Nat -> [Nat -> Nat]] /\ \A k \in Nat, x \in Nat : g[k][x] = x \div 2
  OBVIOUS
<1> HIDE DEF g
<1>2. PICK f \in [Nat -> Nat] : f[0] = n /\ \A k \in Nat : k # 0 => f[k] = g[k][f[k - 1]]
  BY <1>1, NatRecursion
<1>3. \A k \in Nat : k # 0 => f[k] = f[k - 1] \div 2
  <2>1. \A k \in Nat : k # 0 => k - 1 \in Nat  OBVIOUS
  <2> QED BY <1>1, <1>2, <2>1
<1>4. ASSUME NEW i \in Nat PROVE Halved(n, i) = f[i]
  <2> DEFINE h == [k \in 0 .. i |-> f[k]]
  <2>1. \A k \in 0 .. i : h[k] = IF k = 0 THEN n ELSE h[k - 1] \div 2
    <3> SUFFICES ASSUME NEW k \in 0 .. i, k # 0 PROVE h[k] = h[k - 1] \div 2
      BY <1>2
    <3>1. k \in Nat /\ k - 1 \in 0 .. i  OBVIOUS
    <3> QED BY <1>3, <3>1
  <2>2. h = [k \in 0 .. i |-> h[k]]  OBVIOUS
  <2> HIDE DEF h
  <2>3. HalfSteps(n, i, h)  BY <2>1, <2>2 DEF HalfSteps
  <2> DEFINE half == CHOOSE c : HalfSteps(n, i, c)
  <2>4. HalfSteps(n, i, half)  BY <2>3
  <2>5. Halved(n, i) = half[i]  BY Zenon DEF Halved, HalfSteps
  <2> HIDE DEF half
  <2>6. \A k \in 0 .. i : half[k] = IF k = 0 THEN n ELSE half[k - 1] \div 2
    BY <2>4 DEF HalfSteps
  <2>7. 0 \in 0 .. i /\ i \in 0 .. i /\ \A k \in 1 .. i : k \in 0 .. i /\ k # 0  OBVIOUS
  <2>8. half[0] = h[0]  BY <2>1, <2>6, <2>7
  <2>9. \A k \in 1 .. i : half[k - 1] = h[k - 1] => half[k] = h[k]  BY <2>1, <2>6, <2>7
  <2>10. SameSteps(i, half, h)  BY <2>8, <2>9 DEF SameSteps
  <2>11. \A k \in 0 .. i : half[k] = h[k]  BY <1>4, <2>10, Agree
  <2>12. h[i] = f[i]  BY <2>7 DEF h
  <2> QED BY <2>5, <2>7, <2>11, <2>12
<1> QED BY <1>2, <1>3, <1>4

LEMMA HalvedResult ==
  ASSUME NEW n \in Nat
  PROVE  /\ Halved(n, 0) = n
         /\ \A i \in Nat : /\ Halved(n, i) \in Nat
                           /\ Halved(n, i + 1) = Halved(n, i) \div 2
<1>1. PICK f \in [Nat -> Nat] :
        /\ f[0] = n /\ \A k \in Nat : k # 0 => f[k] = f[k - 1] \div 2
        /\ \A i \in Nat : Halved(n, i) = f[i]
  BY HalvedSteps
<1>2. 0 \in Nat /\ \A i \in Nat : i + 1 \in Nat /\ i + 1 # 0 /\ (i + 1) - 1 = i
  OBVIOUS
<1> QED BY <1>1, <1>2

PowSteps(b, n, h) == h = [i \in 0 .. n |-> IF i = 0 THEN 1 ELSE b * h[i - 1]]

LEMMA PowResult ==
  ASSUME NEW b \in Nat \ {0}
  PROVE  /\ Pow(b, 0) = 1
         /\ \A n \in Nat : /\ Pow(b, n) \in Nat \ {0}
                           /\ Pow(b, n + 1) = b * Pow(b, n)
<1> DEFINE g == [k \in Nat |-> [x \in Nat |-> b * x]]
<1>1. g \in [Nat -> [Nat -> Nat]] /\ \A k \in Nat, x \in Nat : g[k][x] = b * x
  OBVIOUS
<1>0. 1 \in Nat
  OBVIOUS
<1> HIDE DEF g
<1>2. PICK f \in [Nat -> Nat] : f[0] = 1 /\ \A k \in Nat : k # 0 => f[k] = g[k][f[k - 1]]
  BY <1>0, <1>1, NatRecursion
<1>3. \A k \in Nat : k # 0 => f[k] = b * f[k - 1]
  <2>1. \A k \in Nat : k # 0 => k - 1 \in Nat  OBVIOUS
  <2> QED BY <1>1, <1>2, <2>1
<1>4. ASSUME NEW n \in Nat PROVE Pow(b, n) = f[n]
  <2> DEFINE h == [k \in 0 .. n |-> f[k]]
  <2>1. \A k \in 0 .. n : h[k] = IF k = 0 THEN 1 ELSE b * h[k - 1]
    <3> SUFFICES ASSUME NEW k \in 0 .. n, k # 0 PROVE h[k] = b * h[k - 1]
      BY <1>2
    <3>1. k \in Nat /\ k - 1 \in 0 .. n  OBVIOUS
    <3> QED BY <1>3, <3>1
  <2>2. h = [k \in 0 .. n |-> h[k]]  OBVIOUS
  <2> HIDE DEF h
  <2>3. PowSteps(b, n, h)  BY <2>1, <2>2 DEF PowSteps
  <2> DEFINE power == CHOOSE c : PowSteps(b, n, c)
  <2>4. PowSteps(b, n, power)  BY <2>3
  <2>5. Pow(b, n) = power[n]  BY Zenon DEF Pow, PowSteps
  <2> HIDE DEF power
  <2>6. \A k \in 0 .. n : power[k] = IF k = 0 THEN 1 ELSE b * power[k - 1]
    BY <2>4 DEF PowSteps
  <2>7. 0 \in 0 .. n /\ n \in 0 .. n /\ \A k \in 1 .. n : k \in 0 .. n /\ k # 0  OBVIOUS
  <2>8. power[0] = h[0]  BY <2>1, <2>6, <2>7
  <2>9. \A k \in 1 .. n : power[k - 1] = h[k - 1] => power[k] = h[k]  BY <2>1, <2>6, <2>7
  <2>10. SameSteps(n, power, h)  BY <2>8, <2>9 DEF SameSteps
  <2>11. \A k \in 0 .. n : power[k] = h[k]  BY <1>4, <2>10, Agree
  <2>12. h[n] = f[n]  BY <2>7 DEF h
  <2> QED BY <2>5, <2>7, <2>11, <2>12
<1>5. \A n \in Nat : f[n] # 0
  <2> DEFINE S == {n \in Nat : f[n] = 0}
  <2> SUFFICES ASSUME S # {} PROVE FALSE
    OBVIOUS
  <2>1. PICK m \in S : \A k \in S : m <= k
    <3>1. S \in SUBSET Nat  OBVIOUS
    <3> HIDE DEF S
    <3> QED BY <3>1, Least
  <2>2. m # 0  BY <1>2, <2>1
  <2>3. m \in Nat /\ m - 1 \in Nat /\ ~(m <= m - 1)  BY <2>1, <2>2
  <2>4. f[m - 1] \in Nat /\ f[m - 1] # 0  BY <2>1, <2>3
  <2>5. f[m] = b * f[m - 1]  BY <1>3, <2>2, <2>3
  <2>6. \A x \in Nat, y \in Nat : x # 0 /\ y # 0 => x * y # 0  OBVIOUS
  <2> QED BY <2>1, <2>4, <2>5, <2>6
<1>6. 0 \in Nat /\ \A i \in Nat : i + 1 \in Nat /\ i + 1 # 0 /\ (i + 1) - 1 = i
  OBVIOUS
<1> QED BY <1>2, <1>3, <1>4, <1>5, <1>6

NumberSteps(bytes, at, n, h) ==
  h = [i \in 0 .. n |-> IF i = 0 THEN 0 ELSE 2 * h[i - 1] + Bit(bytes, at + (n - i))]

\* A reader gets the number back of which the bits are.
LEMMA NumberResult ==
  ASSUME NEW bytes, NEW at \in Nat, NEW n \in Nat, NEW v \in Nat, Fits(v, n),
         \A j \in 0 .. n - 1 : Bit(bytes, at + j) = Halved(v, j) % 2
  PROVE  Number(bytes, at, n) = v
<1> DEFINE h == [i \in 0 .. n |-> Halved(v, n - i)]
<1>1. \A i \in 0 .. n : h[i] = IF i = 0 THEN 0 ELSE 2 * h[i - 1] + Bit(bytes, at + (n - i))
  <2>1. \A i \in 0 .. n : h[i] = Halved(v, n - i)  OBVIOUS
  <2> HIDE DEF h
  <2>2. h[0] = 0
    <3>1. 0 \in 0 .. n /\ n - 0 = n  OBVIOUS
    <3> QED BY <2>1, <3>1 DEF Fits
  <2>3. ASSUME NEW i \in 0 .. n, i # 0 PROVE h[i] = 2 * h[i - 1] + Bit(bytes, at + (n - i))
    <3>1. PICK j \in Nat : j = n - i  OBVIOUS
    <3>2. i - 1 \in 0 .. n /\ n - (i - 1) = j + 1 /\ j \in 0 .. n - 1  BY <2>3, <3>1
    <3>3. h[i] = Halved(v, j) /\ h[i - 1] = Halved(v, j + 1)  BY <2>1, <3>1, <3>2
    <3>4. Bit(bytes, at + (n - i)) = Halved(v, j) % 2  BY <3>1, <3>2
    <3>5. PICK x \in Nat : x = Halved(v, j) /\ Halved(v, j + 1) = x \div 2  BY HalvedResult
    <3>6. x = 2 * (x \div 2) + (x % 2)  OBVIOUS
    <3> QED BY <3>3, <3>4, <3>5, <3>6
  <2> QED BY <2>2, <2>3
<1>2. h = [i \in 0 .. n |-> h[i]]  OBVIOUS
<1>3. h[n] = v
  <2>1. n \in 0 .. n /\ n - n = 0  OBVIOUS
  <2>2. h[n] = Halved(v, 0)  BY <2>1
  <2> QED BY <2>2, HalvedResult
<1> HIDE DEF h
<1>4. NumberSteps(bytes, at, n, h)  BY <1>1, <1>2 DEF NumberSteps
<1> DEFINE highest == CHOOSE c : NumberSteps(bytes, at, n, c)
<1>5. NumberSteps(bytes, at, n, highest)  BY <1>4
<1>6. Number(bytes, at, n) = highest[n]  BY Zenon DEF Number, NumberSteps
<1> HIDE DEF highest
<1> DEFINE b(i) == Bit(bytes, at + (n - i))
<1>7. \A k \in 0 .. n : highest[k] = IF k = 0 THEN 0 ELSE 2 * highest[k - 1] + b(k)
  BY <1>5 DEF NumberSteps
<1>8. \A k \in 0 .. n : h[k] = IF k = 0 THEN 0 ELSE 2 * h[k - 1] + b(k)
  BY <1>1
<1> HIDE DEF b
<1>9. 0 \in 0 .. n /\ \A k \in 1 .. n : k \in 0 .. n /\ k # 0  OBVIOUS
<1>10. highest[0] = h[0]  BY <1>7, <1>8, <1>9
<1>11. \A k \in 1 .. n : highest[k - 1] = h[k - 1] => highest[k] = h[k]  BY <1>7, <1>8, <1>9
<1>12. SameSteps(n, highest, h)  BY <1>10, <1>11 DEF SameSteps
<1>13. n \in 0 .. n /\ \A k \in 0 .. n : highest[k] = h[k]  BY <1>12, Agree
<1> QED BY <1>3, <1>6, <1>13

-----------------------------------------------------------------------------
(* What bits are written. *)

\* the bits of a context, those of the byte that is being filled included
BitOf(enc, i) == Bit(Append(enc.encoding_buf, enc.encoding_char), i)

\* nothing of what was written is changed
Kept(enc, new) == \A i \in 0 .. TotalBits(enc) - 1 : BitOf(new, i) = BitOf(enc, i)

\* n bits of v, the lowest first
Holds(enc, at, n, v) == \A j \in 0 .. n - 1 : BitOf(enc, at + j) = Halved(v, j) % 2

LEMMA TotalBitsNat ==
  ASSUME NEW enc, Between(enc)
  PROVE  TotalBits(enc) \in Nat
BY DEF TotalBits, Between, Contexts

LEMMA KeptTrans ==
  ASSUME NEW a, NEW b, NEW c, TotalBits(a) \in Nat, TotalBits(b) \in Nat,
         TotalBits(a) <= TotalBits(b), Kept(a, b), Kept(b, c)
  PROVE  Kept(a, c)
<1> SUFFICES ASSUME NEW i \in 0 .. TotalBits(a) - 1 PROVE BitOf(c, i) = BitOf(a, i)
  BY DEF Kept
<1>1. i \in 0 .. TotalBits(b) - 1
  OBVIOUS
<1> QED BY <1>1 DEF Kept

LEMMA HoldsKept ==
  ASSUME NEW b, NEW c, NEW at \in Nat, NEW n \in Nat, NEW v, TotalBits(b) \in Nat,
         at + n <= TotalBits(b), Holds(b, at, n, v), Kept(b, c)
  PROVE  Holds(c, at, n, v)
<1> SUFFICES ASSUME NEW j \in 0 .. n - 1 PROVE BitOf(c, at + j) = Halved(v, j) % 2
  BY DEF Holds
<1>1. at + j \in 0 .. TotalBits(b) - 1
  OBVIOUS
<1> QED BY <1>1 DEF Kept, Holds

\* In a byte of which only the first k bits are set, bit k is added and those are kept.
LEMMA ByteBits ==
  ASSUME NEW c \in Byte, NEW k \in 0 .. 7, c % (2 * mask[k + 1]) = 0
  PROVE  /\ (c \div mask[k + 1]) % 2 = 0
         /\ ((c + mask[k + 1]) \div mask[k + 1]) % 2 = 1
         /\ \A r \in 0 .. k - 1 : (c + mask[k + 1]) \div mask[r + 1] = c \div mask[r + 1]
<1>1. c \in 0 .. 255
  BY DEF Byte
<1>2. /\ mask[1] = 128 /\ mask[2] = 64 /\ mask[3] = 32 /\ mask[4] = 16
      /\ mask[5] = 8 /\ mask[6] = 4 /\ mask[7] = 2 /\ mask[8] = 1
  BY DEF mask
<1>3. k = 0 \/ k = 1 \/ k = 2 \/ k = 3 \/ k = 4 \/ k = 5 \/ k = 6 \/ k = 7
  OBVIOUS
<1>4. CASE k = 0
  <2>1. mask[k + 1] = 128  BY <1>2, <1>4
  <2>2. c % 256 = 0  BY <2>1
  <2>3. (c \div 128) % 2 = 0 /\ ((c + 128) \div 128) % 2 = 1  BY ONLY <1>1, <2>2
  <2>4. 0 .. k - 1 = {}  BY <1>4
  <2> QED BY <2>1, <2>3, <2>4
<1>5. CASE k = 1
  <2>1. mask[k + 1] = 64  BY <1>2, <1>5
  <2>2. c % 128 = 0  BY <2>1
  <2>3. (c \div 64) % 2 = 0 /\ ((c + 64) \div 64) % 2 = 1  BY ONLY <1>1, <2>2
  <2>4. (c + 64) \div 128 = c \div 128
    BY ONLY <1>1, <2>2
  <2>5. \A r \in 0 .. k - 1 : r = 0  BY <1>5
  <2>6. \A r \in 0 .. k - 1 : (c + 64) \div mask[r + 1] = c \div mask[r + 1]  BY <1>2, <2>4, <2>5
  <2> QED BY <2>1, <2>3, <2>6
<1>6. CASE k = 2
  <2>1. mask[k + 1] = 32  BY <1>2, <1>6
  <2>2. c % 64 = 0  BY <2>1
  <2>3. (c \div 32) % 2 = 0 /\ ((c + 32) \div 32) % 2 = 1  BY ONLY <1>1, <2>2
  <2>4. (c + 32) \div 128 = c \div 128 /\ (c + 32) \div 64 = c \div 64
    BY ONLY <1>1, <2>2
  <2>5. \A r \in 0 .. k - 1 : r = 0 \/ r = 1  BY <1>6
  <2>6. \A r \in 0 .. k - 1 : (c + 32) \div mask[r + 1] = c \div mask[r + 1]  BY <1>2, <2>4, <2>5
  <2> QED BY <2>1, <2>3, <2>6
<1>7. CASE k = 3
  <2>1. mask[k + 1] = 16  BY <1>2, <1>7
  <2>2. c % 32 = 0  BY <2>1
  <2>3. (c \div 16) % 2 = 0 /\ ((c + 16) \div 16) % 2 = 1  BY ONLY <1>1, <2>2
  <2>4. (c + 16) \div 128 = c \div 128 /\ (c + 16) \div 64 = c \div 64 /\ (c + 16) \div 32 = c \div 32
    BY ONLY <1>1, <2>2
  <2>5. \A r \in 0 .. k - 1 : r = 0 \/ r = 1 \/ r = 2  BY <1>7
  <2>6. \A r \in 0 .. k - 1 : (c + 16) \div mask[r + 1] = c \div mask[r + 1]  BY <1>2, <2>4, <2>5
  <2> QED BY <2>1, <2>3, <2>6
<1>8. CASE k = 4
  <2>1. mask[k + 1] = 8  BY <1>2, <1>8
  <2>2. c % 16 = 0  BY <2>1
  <2>3. (c \div 8) % 2 = 0 /\ ((c + 8) \div 8) % 2 = 1  BY ONLY <1>1, <2>2
  <2>4. /\ (c + 8) \div 128 = c \div 128 /\ (c + 8) \div 64 = c \div 64
        /\ (c + 8) \div 32 = c \div 32 /\ (c + 8) \div 16 = c \div 16
    BY ONLY <1>1, <2>2
  <2>5. \A r \in 0 .. k - 1 : r = 0 \/ r = 1 \/ r = 2 \/ r = 3  BY <1>8
  <2>6. \A r \in 0 .. k - 1 : (c + 8) \div mask[r + 1] = c \div mask[r + 1]  BY <1>2, <2>4, <2>5
  <2> QED BY <2>1, <2>3, <2>6
<1>9. CASE k = 5
  <2>1. mask[k + 1] = 4  BY <1>2, <1>9
  <2>2. c % 8 = 0  BY <2>1
  <2>3. (c \div 4) % 2 = 0 /\ ((c + 4) \div 4) % 2 = 1  BY ONLY <1>1, <2>2
  <2>4. /\ (c + 4) \div 128 = c \div 128 /\ (c + 4) \div 64 = c \div 64
        /\ (c + 4) \div 32 = c \div 32 /\ (c + 4) \div 16 = c \div 16
        /\ (c + 4) \div 8 = c \div 8
    BY ONLY <1>1, <2>2
  <2>5. \A r \in 0 .. k - 1 : r = 0 \/ r = 1 \/ r = 2 \/ r = 3 \/ r = 4  BY <1>9
  <2>6. \A r \in 0 .. k - 1 : (c + 4) \div mask[r + 1] = c \div mask[r + 1]  BY <1>2, <2>4, <2>5
  <2> QED BY <2>1, <2>3, <2>6
<1>10. CASE k = 6
  <2>1. mask[k + 1] = 2  BY <1>2, <1>10
  <2>2. c % 4 = 0  BY <2>1
  <2>3. (c \div 2) % 2 = 0 /\ ((c + 2) \div 2) % 2 = 1  BY ONLY <1>1, <2>2
  <2>4. /\ (c + 2) \div 128 = c \div 128 /\ (c + 2) \div 64 = c \div 64
        /\ (c + 2) \div 32 = c \div 32 /\ (c + 2) \div 16 = c \div 16
        /\ (c + 2) \div 8 = c \div 8 /\ (c + 2) \div 4 = c \div 4
    BY ONLY <1>1, <2>2
  <2>5. \A r \in 0 .. k - 1 : r = 0 \/ r = 1 \/ r = 2 \/ r = 3 \/ r = 4 \/ r = 5  BY <1>10
  <2>6. \A r \in 0 .. k - 1 : (c + 2) \div mask[r + 1] = c \div mask[r + 1]  BY <1>2, <2>4, <2>5
  <2> QED BY <2>1, <2>3, <2>6
<1>11. CASE k = 7
  <2>1. mask[k + 1] = 1  BY <1>2, <1>11
  <2>2. c % 2 = 0  BY <2>1
  <2>3. (c \div 1) % 2 = 0 /\ ((c + 1) \div 1) % 2 = 1  BY ONLY <1>1, <2>2
  <2>4. /\ (c + 1) \div 128 = c \div 128 /\ (c + 1) \div 64 = c \div 64
        /\ (c + 1) \div 32 = c \div 32 /\ (c + 1) \div 16 = c \div 16
        /\ (c + 1) \div 8 = c \div 8 /\ (c + 1) \div 4 = c \div 4
        /\ (c + 1) \div 2 = c \div 2
    BY ONLY <1>1, <2>2
  <2>5. \A r \in 0 .. k - 1 : r = 0 \/ r = 1 \/ r = 2 \/ r = 3 \/ r = 4 \/ r = 5 \/ r = 6  BY <1>11
  <2>6. \A r \in 0 .. k - 1 : (c + 1) \div mask[r + 1] = c \div mask[r + 1]  BY <1>2, <2>4, <2>5
  <2> QED BY <2>1, <2>3, <2>6
<1> QED BY <1>3, <1>4, <1>5, <1>6, <1>7, <1>8, <1>9, <1>10, <1>11

\* Which byte and which bit of it.
LEMMA BytePlace ==
  ASSUME NEW q \in Nat, NEW r \in 0 .. 7
  PROVE  (8 * q + r) \div 8 = q /\ (8 * q + r) % 8 = r
OBVIOUS

LEMMA ApplyBitWrites ==
  ASSUME NEW enc, Between(enc), NEW bit \in {0, 1}
  PROVE  /\ BitOf(ApplyBit(enc, bit), TotalBits(enc)) = bit
         /\ Kept(enc, ApplyBit(enc, bit))
<1> DEFINE char(m) == IF bit = 0 THEN enc.encoding_char ELSE enc.encoding_char + m
           new == ApplyBit(enc, bit)
<1>1. PICK buf \in Seq(Byte), k \in 0 .. 7, c \in Byte :
        enc = [encoding_buf |-> buf, applying_bit |-> k, encoding_char |-> c]
  BY DEF Between, Contexts
<1>2. PICK n \in Nat : n = Len(buf)
  OBVIOUS
<1>3. c % (2 * mask[k + 1]) = 0
  BY <1>1 DEF Between
<1>4. PICK h : h = IF bit = 0 THEN c ELSE c + mask[k + 1]
  OBVIOUS
<1>5. PICK s : s = Append(new.encoding_buf, new.encoding_char)
  OBVIOUS
<1>6. s[n + 1] = h /\ \A j \in 1 .. n : s[j] = buf[j]
  <2>1. CASE k = 7
    <3>1. new = [encoding_buf |-> Append(buf, h), applying_bit |-> 0, encoding_char |-> 0]
      BY <1>1, <1>4, <2>1 DEF ApplyBit, NextByte
    <3>2. s = Append(Append(buf, h), 0)
      BY <1>5, <3>1
    <3> QED BY <1>2, <3>2
  <2>2. CASE k # 7
    <3>1. new = [encoding_buf |-> buf, applying_bit |-> k + 1, encoding_char |-> h]
      BY <1>1, <1>4, <2>2 DEF ApplyBit
    <3>2. s = Append(buf, h)
      BY <1>5, <3>1
    <3> QED BY <1>2, <3>2
  <2> QED BY <2>1, <2>2
<1>7. TotalBits(enc) = 8 * n + k
  BY <1>1, <1>2 DEF TotalBits
<1>8. PICK z : z = Append(buf, c)
  OBVIOUS
<1>9. z[n + 1] = c /\ \A j \in 1 .. n : z[j] = buf[j]
  BY <1>2, <1>8
<1>10. \A i : BitOf(new, i) = Bit(s, i) /\ BitOf(enc, i) = Bit(z, i)
  BY <1>1, <1>5, <1>8 DEF BitOf
<1>11. /\ (c \div mask[k + 1]) % 2 = 0
       /\ ((c + mask[k + 1]) \div mask[k + 1]) % 2 = 1
       /\ \A r \in 0 .. k - 1 : (c + mask[k + 1]) \div mask[r + 1] = c \div mask[r + 1]
  BY <1>3, ByteBits
<1> HIDE DEF new
<1>12. Bit(s, 8 * n + k) = bit
  <2>1. (8 * n + k) \div 8 = n /\ (8 * n + k) % 8 = k
    BY BytePlace
  <2>2. Bit(s, 8 * n + k) = (h \div mask[k + 1]) % 2
    BY <1>6, <2>1 DEF Bit
  <2> QED BY <1>4, <1>11, <2>2
<1>13. ASSUME NEW i \in 0 .. 8 * n + k - 1 PROVE Bit(s, i) = Bit(z, i)
  <2>1. PICK q \in Nat, r \in 0 .. 7 : q = i \div 8 /\ r = i % 8 /\ i = 8 * q + r
    OBVIOUS
  <2>2. Bit(s, i) = (s[q + 1] \div mask[r + 1]) % 2 /\ Bit(z, i) = (z[q + 1] \div mask[r + 1]) % 2
    BY <2>1 DEF Bit
  <2>3. CASE q = n
    <3>1. r \in 0 .. k - 1
      BY <2>1, <2>3
    <3>2. h \div mask[r + 1] = c \div mask[r + 1]
      BY <1>4, <1>11, <3>1
    <3> QED BY <1>6, <1>9, <2>2, <2>3, <3>2
  <2>4. CASE q # n
    <3>1. q + 1 \in 1 .. n
      BY <2>1, <2>4
    <3> QED BY <1>6, <1>9, <2>2, <3>1
  <2> QED BY <2>3, <2>4
<1>14. Kept(enc, new)
  BY <1>7, <1>10, <1>13 DEF Kept
<1> QED
  BY <1>7, <1>10, <1>12, <1>14 DEF new

LEMMA HalvedBit ==
  ASSUME NEW n \in Nat, NEW j \in Nat
  PROVE  Halved(n, j) % 2 \in {0, 1}
<1>1. Halved(n, j) \in Nat
  BY HalvedResult
<1> QED BY <1>1

\* encode_primint and encode_big write the bits of the number.
LEMMA EncodeIntWrites ==
  ASSUME NEW enc, Between(enc), NEW n \in Nat, NEW bits \in Nat
  PROVE  /\ Kept(enc, EncodeInt(enc, n, bits))
         /\ Holds(EncodeInt(enc, n, bits), TotalBits(enc), bits, n)
<1> DEFINE b(i) == Halved(n, i - 1) % 2
           t == TotalBits(enc)
<1>1. PICK f : BitSteps(enc, n, bits, f) /\ EncodeInt(enc, n, bits) = f[bits]
  BY BitStepsExist
<1>2. f[0] = enc /\ \A i \in 0 .. bits : i # 0 => f[i] = ApplyBit(f[i - 1], b(i))
  BY <1>1 DEF BitSteps
<1>3. t \in Nat
  BY TotalBitsNat
<1>4. \A i \in Nat : i # 0 => b(i) \in {0, 1}
  <2>1. \A i \in Nat : i # 0 => i - 1 \in Nat  OBVIOUS
  <2> QED BY <2>1, HalvedBit
<1>5. \A i : b(i) = Halved(n, i - 1) % 2
  OBVIOUS
<1> HIDE DEF b, t
<1> DEFINE P(i) == /\ Between(f[i]) /\ TotalBits(f[i]) = t + i /\ Kept(enc, f[i])
                   /\ Holds(f[i], t, i, n)
<1>6. \A i \in 0 .. bits : P(i)
  <2> DEFINE S == {i \in 0 .. bits : ~P(i)}
  <2> SUFFICES ASSUME S # {} PROVE FALSE
    OBVIOUS
  <2>1. PICK m \in S : \A k \in S : m <= k
    <3>1. S \in SUBSET Nat  OBVIOUS
    <3> HIDE DEF S
    <3> QED BY <3>1, Least
  <2>2. m # 0
    <3>1. P(0)
      BY <1>2, <1>3 DEF t, Kept, Holds
    <3> QED BY <2>1, <3>1
  <2>3. m - 1 \in 0 .. bits /\ ~(m <= m - 1) /\ m \in Nat /\ m - 1 \in Nat  BY <2>1, <2>2
  <2>4. PICK e : e = f[m - 1]  OBVIOUS
  <2>5. P(m - 1)  BY <2>1, <2>3
  <2>6. /\ Between(e) /\ TotalBits(e) = t + (m - 1) /\ Kept(enc, e) /\ Holds(e, t, m - 1, n)
    BY <2>4, <2>5
  <2>7. PICK d : d = ApplyBit(e, b(m))  OBVIOUS
  <2>8. f[m] = d  BY <1>2, <2>1, <2>2, <2>4, <2>7
  <2>9. b(m) \in {0, 1}  BY <1>4, <2>2, <2>3
  <2>10. Between(d) /\ TotalBits(d) = TotalBits(e) + 1
    BY <2>6, <2>7, ApplyBitResult
  <2>11. BitOf(d, TotalBits(e)) = b(m) /\ Kept(e, d)
    BY <2>6, <2>7, <2>9, ApplyBitWrites
  <2>12. TotalBits(d) = t + m /\ TotalBits(e) \in Nat /\ t <= TotalBits(e) /\ t + (m - 1) <= TotalBits(e)
    BY <1>3, <2>3, <2>6, <2>10
  <2>13. Kept(enc, d)
    BY <1>3, <2>6, <2>11, <2>12, KeptTrans DEF t
  <2>14. Holds(d, t, m - 1, n)
    BY <1>3, <2>3, <2>6, <2>11, <2>12, HoldsKept
  <2>15. Holds(d, t, m, n)
    <3> SUFFICES ASSUME NEW j \in 0 .. m - 1 PROVE BitOf(d, t + j) = Halved(n, j) % 2
      BY DEF Holds
    <3>1. CASE j = m - 1
      BY <1>5, <2>6, <2>11, <3>1
    <3>2. CASE j # m - 1
      <4>1. j \in 0 .. (m - 1) - 1  BY <2>3, <3>2
      <4> QED BY <2>14, <4>1 DEF Holds
    <3> QED BY <3>1, <3>2
  <2>16. P(m)  BY <2>8, <2>10, <2>12, <2>13, <2>15
  <2> QED BY <2>1, <2>16
<1>7. bits \in 0 .. bits  OBVIOUS
<1>8. P(bits)  BY <1>6, <1>7
<1> QED BY <1>1, <1>8 DEF t

\* The fields of a record follow each other, and none changes the one before it.
LEMMA EncodeFieldsWrites ==
  ASSUME NEW enc, Between(enc), NEW fields, Len(fields) \in Nat,
         \A i \in 1 .. Len(fields) : fields[i][1] \in Nat /\ fields[i][2] \in Nat,
         NEW t, t[0] = TotalBits(enc),
         \A i \in 1 .. Len(fields) : t[i] = t[i - 1] + fields[i][2]
  PROVE  /\ Between(EncodeFields(enc, fields))
         /\ TotalBits(EncodeFields(enc, fields)) = t[Len(fields)]
         /\ Kept(enc, EncodeFields(enc, fields))
         /\ \A i \in 1 .. Len(fields) :
              /\ t[i - 1] \in Nat /\ t[i - 1] + fields[i][2] <= t[Len(fields)]
              /\ Holds(EncodeFields(enc, fields), t[i - 1], fields[i][2], fields[i][1])
<1> DEFINE step(x, i) == EncodeInt(x, fields[i][1], fields[i][2])
           w(i) == fields[i][2]
           v(i) == fields[i][1]
<1>0. PICK n \in Nat : n = Len(fields)  OBVIOUS
<1>1. PICK f : FieldSteps(enc, fields, n, f) /\ EncodeFields(enc, fields) = f[n]
  BY <1>0, FieldStepsExist
<1>2. f[0] = enc /\ \A i \in 1 .. n : f[i] = step(f[i - 1], i)
  <2>1. \A i \in 0 .. n : f[i] = IF i = 0 THEN enc ELSE step(f[i - 1], i)
    BY <1>1 DEF FieldSteps
  <2> HIDE DEF step
  <2>2. 0 \in 0 .. n /\ \A i \in 1 .. n : i \in 0 .. n /\ i # 0  OBVIOUS
  <2> QED BY <2>1, <2>2
<1>3. \A i \in 1 .. n : w(i) \in Nat /\ v(i) \in Nat /\ t[i] = t[i - 1] + w(i)
  BY <1>0
<1>4. ASSUME NEW e, Between(e), NEW i \in 1 .. n
      PROVE  /\ Between(step(e, i)) /\ TotalBits(step(e, i)) = TotalBits(e) + w(i)
             /\ Kept(e, step(e, i)) /\ Holds(step(e, i), TotalBits(e), w(i), v(i))
  <2>1. w(i) \in Nat /\ v(i) \in Nat  BY <1>3
  <2> QED BY <1>4, <2>1, EncodeIntResult, EncodeIntWrites
<1>5. TotalBits(enc) \in Nat
  BY TotalBitsNat
<1> HIDE DEF step, w, v
<1> DEFINE P(i) == /\ Between(f[i]) /\ TotalBits(f[i]) = t[i] /\ t[i] \in Nat
                   /\ t[0] <= t[i] /\ Kept(enc, f[i])
                   /\ \A j \in 1 .. i :
                           t[j - 1] \in Nat /\ t[j - 1] + w(j) <= t[i] /\ Holds(f[i], t[j - 1], w(j), v(j))
<1>6. \A i \in 0 .. n : P(i)
  <2> DEFINE S == {i \in 0 .. n : ~P(i)}
  <2> SUFFICES ASSUME S # {} PROVE FALSE
    OBVIOUS
  <2>1. PICK m \in S : \A k \in S : m <= k
    <3>1. S \in SUBSET Nat  OBVIOUS
    <3> HIDE DEF S
    <3> QED BY <3>1, Least
  <2>2. m # 0
    <3>1. P(0)
      BY <1>2, <1>5 DEF Kept
    <3> QED BY <2>1, <3>1
  <2>3. m - 1 \in 0 .. n /\ ~(m <= m - 1) /\ m \in 1 .. n  BY <2>1, <2>2
  <2>4. PICK e : e = f[m - 1]  OBVIOUS
  <2>5. P(m - 1)  BY <2>1, <2>3
  <2>6. /\ Between(e) /\ TotalBits(e) = t[m - 1] /\ t[m - 1] \in Nat /\ t[0] <= t[m - 1]
        /\ Kept(enc, e)
    BY <2>4, <2>5
  <2>7. \A j \in 1 .. m - 1 :
             t[j - 1] \in Nat /\ t[j - 1] + w(j) <= t[m - 1] /\ Holds(e, t[j - 1], w(j), v(j))
    BY <2>4, <2>5
  <2>8. PICK d : d = f[m]  OBVIOUS
  <2>9. /\ Between(d) /\ TotalBits(d) = TotalBits(e) + w(m)
        /\ Kept(e, d) /\ Holds(d, TotalBits(e), w(m), v(m))
    <3>1. d = step(e, m)  BY <1>2, <2>3, <2>4, <2>8
    <3> QED BY <1>4, <2>3, <2>6, <3>1
  <2>10. w(m) \in Nat /\ t[m] = t[m - 1] + w(m)  BY <1>3, <2>3
  <2>11. TotalBits(d) = t[m] /\ t[m] \in Nat /\ t[0] <= t[m] /\ t[m - 1] <= t[m]
    <3>1. PICK x \in Nat, y \in Nat : x = t[m - 1] /\ y = w(m)  BY <2>6, <2>10
    <3>2. PICK z \in Nat : z = t[0]  BY <1>5
    <3>3. t[m] = x + y /\ z <= x  BY <2>6, <2>10, <3>1, <3>2
    <3> QED BY <2>6, <2>9, <3>1, <3>2, <3>3
  <2>12. Kept(enc, d)
    BY <1>5, <2>6, <2>9, <2>11, KeptTrans
  <2>13. ASSUME NEW j \in 1 .. m
         PROVE  t[j - 1] \in Nat /\ t[j - 1] + w(j) <= t[m] /\ Holds(d, t[j - 1], w(j), v(j))
    <3>1. CASE j = m
      BY <2>6, <2>9, <2>10, <3>1
    <3>2. CASE j # m
      <4>1. j \in 1 .. m - 1 /\ j \in 1 .. n  BY <2>3, <3>2
      <4>2. w(j) \in Nat  BY <1>3, <4>1
      <4>3. t[j - 1] \in Nat /\ t[j - 1] + w(j) <= TotalBits(e) /\ Holds(e, t[j - 1], w(j), v(j))
        BY <2>6, <2>7, <4>1
      <4>4. Holds(d, t[j - 1], w(j), v(j))
        BY <2>6, <2>9, <4>2, <4>3, HoldsKept
      <4>5. t[j - 1] + w(j) <= t[m]
        BY <2>6, <2>11, <4>2, <4>3
      <4> QED BY <4>3, <4>4, <4>5
    <3> QED BY <3>1, <3>2
  <2>14. P(m)  BY <2>8, <2>9, <2>11, <2>12, <2>13
  <2> QED BY <2>1, <2>14
<1>7. n \in 0 .. n  OBVIOUS
<1>8. P(n)  BY <1>6, <1>7
<1> QED BY <1>0, <1>1, <1>8 DEF w, v

LEMMA HalvedZero ==
  \A i \in Nat : Halved(0, i) = 0
<1>0. 0 \in Nat
  OBVIOUS
<1>1. PICK f \in [Nat -> Nat] :
        /\ f[0] = 0 /\ \A k \in Nat : k # 0 => f[k] = f[k - 1] \div 2
        /\ \A i \in Nat : Halved(0, i) = f[i]
  BY <1>0, HalvedSteps
<1> DEFINE S == {i \in Nat : f[i] # 0}
<1>2. S = {}
  <2> SUFFICES ASSUME S # {} PROVE FALSE
    OBVIOUS
  <2>1. PICK m \in S : \A k \in S : m <= k
    <3>1. S \in SUBSET Nat  OBVIOUS
    <3> HIDE DEF S
    <3> QED BY <3>1, Least
  <2>2. m # 0  BY <1>1, <2>1
  <2>3. m \in Nat /\ m - 1 \in Nat /\ ~(m <= m - 1)  BY <2>1, <2>2
  <2>4. f[m - 1] = 0  BY <2>1, <2>3
  <2>5. f[m] = f[m - 1] \div 2  BY <1>1, <2>2, <2>3
  <2> QED BY <2>1, <2>4, <2>5
<1> QED BY <1>1, <1>2

\* n bits that are zero
Blank(enc, at, n) == \A j \in 0 .. n - 1 : BitOf(enc, at + j) = 0

LEMMA BlankHolds ==
  ASSUME NEW enc, NEW at \in Nat, NEW n \in Nat, Blank(enc, at, n), NEW m \in Nat, NEW w \in Nat,
         at <= m, m + w <= at + n
  PROVE  Holds(enc, m, w, 0)
<1> SUFFICES ASSUME NEW j \in 0 .. w - 1 PROVE BitOf(enc, m + j) = Halved(0, j) % 2
  BY DEF Holds
<1>1. Halved(0, j) = 0
  BY HalvedZero
<1>2. (m - at) + j \in 0 .. n - 1 /\ at + ((m - at) + j) = m + j
  OBVIOUS
<1> QED BY <1>1, <1>2 DEF Blank

LEMMA BlankKept ==
  ASSUME NEW b, NEW c, NEW at \in Nat, NEW n \in Nat, TotalBits(b) \in Nat,
         at + n <= TotalBits(b), Blank(b, at, n), Kept(b, c)
  PROVE  Blank(c, at, n)
<1> SUFFICES ASSUME NEW j \in 0 .. n - 1 PROVE BitOf(c, at + j) = 0
  BY DEF Blank
<1>1. at + j \in 0 .. TotalBits(b) - 1
  OBVIOUS
<1> QED BY <1>1 DEF Kept, Blank

LEMMA BlankBoth ==
  ASSUME NEW enc, NEW at \in Nat, NEW n \in Nat, NEW m \in Nat, Blank(enc, at, n), Blank(enc, at + n, m)
  PROVE  Blank(enc, at, n + m)
<1> SUFFICES ASSUME NEW j \in 0 .. n + m - 1 PROVE BitOf(enc, at + j) = 0
  BY DEF Blank
<1>1. CASE j < n
  <2>1. j \in 0 .. n - 1  BY <1>1
  <2> QED BY <2>1 DEF Blank
<1>2. CASE j >= n
  <2>1. j - n \in 0 .. m - 1 /\ (at + n) + (j - n) = at + j  BY <1>2
  <2> QED BY <2>1 DEF Blank
<1> QED BY <1>1, <1>2

LEMMA ZerosWrites ==
  ASSUME NEW enc, Between(enc), NEW n \in Nat
  PROVE  /\ Between(Zeros(enc, n)) /\ TotalBits(Zeros(enc, n)) = TotalBits(enc) + n
         /\ Kept(enc, Zeros(enc, n)) /\ Blank(Zeros(enc, n), TotalBits(enc), n)
<1>0. 0 \in Nat
  OBVIOUS
<1>1. PICK e : e = EncodeInt(enc, 0, n)
  OBVIOUS
<1>2. Between(e) /\ TotalBits(e) = TotalBits(enc) + n /\ Kept(enc, e) /\ Holds(e, TotalBits(enc), n, 0)
  BY <1>0, <1>1, EncodeIntResult, EncodeIntWrites
<1>3. Blank(e, TotalBits(enc), n)
  <2> SUFFICES ASSUME NEW j \in 0 .. n - 1 PROVE BitOf(e, TotalBits(enc) + j) = 0
    BY DEF Blank
  <2>1. j \in Nat  OBVIOUS
  <2>2. Halved(0, j) = 0  BY <2>1, HalvedZero
  <2> QED BY <1>2, <2>2 DEF Holds
<1> QED BY <1>1, <1>2, <1>3 DEF Zeros

\* Whole bytes are only put where a byte begins.
LEMMA PutBytesWrites ==
  ASSUME NEW enc, Between(enc), enc.applying_bit = 0, NEW n \in Nat
  PROVE  LET wide == PutBytes(enc, [i \in 1 .. n |-> 0])
         IN  /\ Between(wide) /\ TotalBits(wide) = TotalBits(enc) + 8 * n
             /\ Kept(enc, wide) /\ Blank(wide, TotalBits(enc), 8 * n)
<1>1. PICK buf \in Seq(Byte), c \in Byte :
        enc = [encoding_buf |-> buf, applying_bit |-> 0, encoding_char |-> c]
  BY DEF Between, Contexts
<1>2. PICK k \in Nat : k = Len(buf)
  OBVIOUS
<1>3. c = 0
  <2>1. c % 256 = 0  BY <1>1 DEF Between, mask
  <2>2. c \in 0 .. 255  BY <1>1 DEF Byte
  <2> QED BY ONLY <2>1, <2>2
<1>4. PICK zeros : zeros = [i \in 1 .. n |-> 0]
  OBVIOUS
<1>5. 0 \in Byte
  BY DEF Byte
<1>6. zeros \in Seq(Byte) /\ Len(zeros) = n /\ \A i \in 1 .. n : zeros[i] = 0
  BY <1>4, <1>5
<1>7. PICK b \in Seq(Byte) : b = buf \o zeros
  <2>1. buf \o zeros \in Seq(Byte)  BY <1>1, <1>6
  <2> QED BY <2>1
<1>8. Len(b) = k + n /\ (\A i \in 1 .. k : b[i] = buf[i]) /\ \A i \in k + 1 .. k + n : b[i] = 0
  <2>1. buf \in Seq(Byte)  BY <1>1
  <2>2. \A i \in 1 .. k : b[i] = buf[i]  BY <1>2, <1>6, <1>7, <2>1
  <2>3. ASSUME NEW i \in k + 1 .. k + n PROVE b[i] = 0
    <3>1. i - k \in 1 .. n  OBVIOUS
    <3>2. b[i] = zeros[i - k]  BY <1>2, <1>6, <1>7, <2>1
    <3> QED BY <1>6, <3>1, <3>2
  <2>4. Len(b) = k + n
    <3>1. zeros \in Seq(Byte) /\ Len(zeros) = n  BY <1>6
    <3>2. Len(buf \o zeros) = Len(buf) + Len(zeros)  BY ONLY <2>1, <3>1
    <3> QED BY <1>2, <1>7, <3>1, <3>2
  <2> QED BY ONLY <2>2, <2>3, <2>4
<1>9. PICK wide : wide = PutBytes(enc, [i \in 1 .. n |-> 0])
  OBVIOUS
<1>10. wide = [encoding_buf |-> b, applying_bit |-> 0, encoding_char |-> 0]
  BY <1>1, <1>3, <1>4, <1>7, <1>9 DEF PutBytes
<1>11. TotalBits(enc) = 8 * k /\ TotalBits(wide) = 8 * k + 8 * n
  BY <1>1, <1>2, <1>8, <1>10 DEF TotalBits
<1>12. Between(wide)
  <2>1. 0 \in 0 .. 7 /\ 0 % (2 * mask[0 + 1]) = 0  BY DEF mask
  <2> QED BY <1>5, <1>10, <2>1 DEF Between, Contexts
<1>13. PICK s, z : s = Append(b, 0) /\ z = Append(buf, 0)
  OBVIOUS
<1>14. \A i : BitOf(wide, i) = Bit(s, i) /\ BitOf(enc, i) = Bit(z, i)
  BY <1>1, <1>3, <1>10, <1>13 DEF BitOf
<1>15. (\A i \in 1 .. k : s[i] = z[i]) /\ \A i \in k + 1 .. k + n : s[i] = 0
  BY <1>2, <1>8, <1>13
<1>16. ASSUME NEW i \in 0 .. 8 * k - 1 PROVE Bit(s, i) = Bit(z, i)
  <2>1. i \div 8 + 1 \in 1 .. k  OBVIOUS
  <2>2. s[i \div 8 + 1] = z[i \div 8 + 1]  BY <1>15, <2>1
  <2> QED BY <2>2 DEF Bit
<1>17. ASSUME NEW j \in 0 .. 8 * n - 1 PROVE Bit(s, 8 * k + j) = 0
  <2>0. PICK i \in Nat : i = 8 * k + j
    OBVIOUS
  <2>1. PICK q \in Nat, r \in 0 .. 7 : i = 8 * k + j /\ q = i \div 8 + 1 /\ r = i % 8
    <3>1. i \div 8 + 1 \in Nat /\ i % 8 \in 0 .. 7  OBVIOUS
    <3> QED BY <2>0, <3>1
  <2>2. q \in k + 1 .. k + n  BY <2>1
  <2>3. s[q] = 0  BY <1>15, <2>2
  <2>4. Bit(s, i) = (0 \div mask[r + 1]) % 2  BY <2>1, <2>3 DEF Bit
  <2>5. mask[r + 1] \in {128, 64, 32, 16, 8, 4, 2, 1}
    <3>1. r \in {0, 1, 2, 3, 4, 5, 6, 7}  BY <2>1
    <3> QED BY <3>1 DEF mask
  <2>6. (0 \div mask[r + 1]) % 2 = 0  BY <2>5
  <2> QED BY <2>1, <2>4, <2>6
<1>18. Kept(enc, wide)
  BY <1>11, <1>14, <1>16 DEF Kept
<1>19. Blank(wide, TotalBits(enc), 8 * n)
  BY <1>11, <1>14, <1>17 DEF Blank
<1> QED BY <1>9, <1>11, <1>12, <1>18, <1>19

LEMMA PadBitsWrites ==
  ASSUME NEW enc, Between(enc), NEW missing \in Nat
  PROVE  /\ Kept(enc, PadBits(enc, missing))
         /\ Blank(PadBits(enc, missing), TotalBits(enc), missing)
<1> DEFINE toByte == (8 - enc.applying_bit) % 8
           first  == IF missing < toByte THEN missing ELSE toByte
           whole  == (missing - first) \div 8
           rest   == (missing - first) % 8
           filled == Zeros(enc, first)
           wide   == PutBytes(filled, [i \in 1 .. whole |-> 0])
           padded == Zeros(wide, rest)
<1>1. PICK a \in 0 .. 7 : a = enc.applying_bit
  BY DEF Between, Contexts
<1>2. PICK b \in 0 .. 7 : b = toByte /\ b = (8 - a) % 8
  BY <1>1
<1>3. PICK f \in Nat : f = first /\ f = IF missing < b THEN missing ELSE b
  BY <1>2
<1>4. PICK x \in Nat : x = missing - f
  BY <1>3
<1>5. PICK w \in Nat, r \in Nat : w = whole /\ r = rest /\ x = 8 * w + r /\ w = x \div 8
  BY <1>3, <1>4
<1>6. PadBits(enc, missing) = padded
  BY DEF PadBits
<1> HIDE DEF toByte, first, whole, rest
<1>7. PICK t \in Nat : t = TotalBits(enc)
  BY TotalBitsNat
<1>8. /\ Between(filled) /\ TotalBits(filled) = t + f /\ Kept(enc, filled) /\ Blank(filled, t, f)
  BY <1>3, <1>7, ZerosWrites
<1> HIDE DEF filled
<1>9. /\ Between(wide) /\ TotalBits(wide) = t + f + 8 * w
      /\ Kept(filled, wide) /\ Blank(wide, t + f, 8 * w)
  <2>1. CASE w = 0
    <3>1. PICK buf \in Seq(Byte), k \in 0 .. 7, c \in Byte :
            filled = [encoding_buf |-> buf, applying_bit |-> k, encoding_char |-> c]
      BY <1>8 DEF Between, Contexts
    <3>2. [i \in 1 .. whole |-> 0] = <<>>  BY <1>5, <2>1
    <3>3. buf \o <<>> = buf  OBVIOUS
    <3>4. wide = filled  BY <3>1, <3>2, <3>3 DEF PutBytes
    <3>5. Kept(filled, filled)  BY DEF Kept
    <3>6. Blank(filled, t + f, 0)  BY DEF Blank
    <3> QED BY <1>7, <1>3, <1>8, <2>1, <3>4, <3>5, <3>6
  <2>2. CASE w # 0
    <3>1. f = b  BY <1>3, <1>4, <1>5, <2>2
    <3>2. filled.applying_bit = 0
      <4>1. PICK n \in Nat, k \in 0 .. 7 : n = Len(filled.encoding_buf) /\ k = filled.applying_bit
        BY <1>8 DEF Between, Contexts
      <4>2. t + f = n * 8 + k  BY <1>8, <4>1 DEF TotalBits
      <4>3. PICK m \in Nat : m = Len(enc.encoding_buf)  BY DEF Between, Contexts
      <4>4. t = m * 8 + a  BY <1>1, <1>7, <4>3 DEF TotalBits
      <4>5. a + b = 0 \/ a + b = 8
        <5>1. a \in 0 .. 7 /\ b = (8 - a) % 8  BY <1>1, <1>2
        <5> QED BY ONLY <5>1
      <4>6. 8 * m + (a + b) = 8 * n + k  BY <1>1, <1>2, <3>1, <4>1, <4>2, <4>3, <4>4
      <4>7. k = 0
        <5>1. n \in Nat /\ k \in 0 .. 7 /\ m \in Nat  BY <4>1, <4>3
        <5> QED BY ONLY <4>5, <4>6, <5>1
      <4> QED BY <4>1, <4>7
    <3>3. wide = PutBytes(filled, [i \in 1 .. w |-> 0])  BY <1>5
    <3>4. TotalBits(filled) + 8 * w = t + f + 8 * w  BY <1>8
    <3> QED BY <1>8, <3>2, <3>3, <3>4, PutBytesWrites
  <2> QED BY <2>1, <2>2
<1> HIDE DEF wide
<1>10. PICK u \in Nat : u = t + f + 8 * w
  BY <1>3, <1>5, <1>7
<1>11. /\ TotalBits(padded) = u + r /\ Kept(wide, padded) /\ Blank(padded, u, r)
  BY <1>5, <1>9, <1>10, ZerosWrites
<1> HIDE DEF padded
<1>12. t + f \in Nat /\ t <= t + f /\ t + f <= u /\ t <= u /\ 8 * w \in Nat
  BY <1>10
<1>13. Kept(enc, wide)
  BY <1>7, <1>8, <1>9, <1>10, <1>12, KeptTrans
<1>14. Kept(enc, padded)
  BY <1>7, <1>9, <1>10, <1>11, <1>12, <1>13, KeptTrans
<1>15. Kept(filled, padded)
  BY <1>8, <1>9, <1>10, <1>11, <1>12, KeptTrans
<1>16. Blank(padded, t, f)
  BY <1>8, <1>12, <1>15, BlankKept
<1>17. Blank(padded, t + f, 8 * w)
  BY <1>9, <1>10, <1>11, <1>12, BlankKept
<1>18. Blank(padded, t, f + 8 * w)
  BY <1>12, <1>16, <1>17, BlankBoth
<1>19. f + 8 * w \in Nat /\ t + (f + 8 * w) = u /\ (f + 8 * w) + r = missing
  BY <1>4, <1>5, <1>10
<1>20. Blank(padded, t, (f + 8 * w) + r)
  BY <1>11, <1>18, <1>19, BlankBoth
<1> QED BY <1>6, <1>7, <1>14, <1>19, <1>20

\* A record is padded with zeros.
LEMMA PaddingWrites ==
  ASSUME NEW enc, Between(enc), NEW at \in Nat, TotalBits(enc) \in 1 .. at
  PROVE  /\ Kept(enc, Padding(enc, at))
         /\ Blank(Padding(enc, at), TotalBits(enc), at - TotalBits(enc))
<1>1. PICK t \in 1 .. at : t = TotalBits(enc)
  OBVIOUS
<1>2. Padding(enc, at) = PadBits(enc, IF t % at = 0 THEN 0 ELSE at - (t % at))
  BY <1>1 DEF Padding, PadBits, Aligned
<1>3. (IF t % at = 0 THEN 0 ELSE at - (t % at)) = at - t
  <2>1. CASE t = at
    <3>1. at > 0 /\ 1 \in Nat /\ 0 \in 0 .. at - 1 /\ 1 * at + 0 = t  BY <2>1
    <3>2. (1 * at + 0) % at = 0  BY <3>1, Remainder
    <3> QED BY <2>1, <3>1, <3>2
  <2>2. CASE t # at
    <3>1. at > 0 /\ 0 \in Nat /\ t \in 0 .. at - 1 /\ 0 * at + t = t  BY <2>2
    <3>2. (0 * at + t) % at = t  BY <3>1, Remainder
    <3> QED BY <3>1, <3>2
  <2> QED BY <2>1, <2>2
<1>4. at - t \in Nat
  BY <1>1
<1> QED BY <1>1, <1>2, <1>3, <1>4, PadBitsWrites

-----------------------------------------------------------------------------
(* Powers, and the compressed form of an amount. *)

LEMMA Quotient ==
  ASSUME NEW d \in Nat, d > 0, NEW k \in Nat, NEW r \in 0 .. d - 1
  PROVE  (k * d + r) \div d = k
<1>1. k * d \in Nat /\ k * d + r \in Nat
  OBVIOUS
<1> QED
  BY <1>1

LEMMA Divides ==
  ASSUME NEW d \in Nat, d > 0, NEW x \in Nat
  PROVE  x \div d \in Nat /\ (x % d = 0 <=> x = (x \div d) * d)
<1>1. PICK q, r : q = x \div d /\ r = x % d
  OBVIOUS
<1>2. q \in Nat /\ r \in 0 .. d - 1 /\ x = d * q + r
  BY <1>1
<1>3. d * q = q * d /\ q * d \in Nat
  BY <1>2
<1> QED BY <1>1, <1>2, <1>3

LEMMA PowAdd ==
  ASSUME NEW b \in Nat \ {0}, NEW n \in Nat
  PROVE  \A m \in Nat : Pow(b, n + m) = Pow(b, n) * Pow(b, m)
<1> DEFINE S == {m \in Nat : Pow(b, n + m) # Pow(b, n) * Pow(b, m)}
<1> SUFFICES ASSUME S # {} PROVE FALSE
  OBVIOUS
<1>1. PICK m \in S : \A k \in S : m <= k
  <2>1. S \in SUBSET Nat  OBVIOUS
  <2> HIDE DEF S
  <2> QED BY <2>1, Least
<1>2. Pow(b, 0) = 1 /\ \A k \in Nat : Pow(b, k) \in Nat \ {0} /\ Pow(b, k + 1) = b * Pow(b, k)
  BY PowResult
<1>3. m # 0
  <2>1. n + 0 = n /\ Pow(b, n) * 1 = Pow(b, n)  BY <1>2
  <2> QED BY <1>1, <1>2, <2>1
<1>4. PICK j \in Nat : m = j + 1 /\ ~(m <= j)
  <2>1. m - 1 \in Nat /\ m = (m - 1) + 1  BY <1>1, <1>3
  <2> QED BY <2>1
<1>5. Pow(b, n + j) = Pow(b, n) * Pow(b, j)
  BY <1>1, <1>4
<1>6. Pow(b, m) = b * Pow(b, j) /\ Pow(b, n + m) = b * Pow(b, n + j)
  <2>1. n + j \in Nat /\ n + m = (n + j) + 1  BY <1>4
  <2> QED BY <1>2, <1>4, <2>1
<1>7. PICK x \in Nat, y \in Nat : x = Pow(b, n) /\ y = Pow(b, j)
  BY <1>2
<1>8. b * (x * y) = x * (b * y)
  OBVIOUS
<1> QED BY <1>1, <1>5, <1>6, <1>7, <1>8

LEMMA PowGrows ==
  ASSUME NEW b \in Nat \ {0, 1}
  PROVE  \A n \in Nat : Pow(b, n) > n
<1> DEFINE S == {n \in Nat : ~(Pow(b, n) > n)}
<1> SUFFICES ASSUME S # {} PROVE FALSE
  OBVIOUS
<1>1. PICK m \in S : \A k \in S : m <= k
  <2>1. S \in SUBSET Nat  OBVIOUS
  <2> HIDE DEF S
  <2> QED BY <2>1, Least
<1>2. Pow(b, 0) = 1 /\ \A k \in Nat : Pow(b, k) \in Nat \ {0} /\ Pow(b, k + 1) = b * Pow(b, k)
  BY PowResult
<1>3. m # 0
  BY <1>1, <1>2
<1>4. PICK j \in Nat : m = j + 1 /\ ~(m <= j)
  <2>1. m - 1 \in Nat /\ m = (m - 1) + 1  BY <1>1, <1>3
  <2> QED BY <2>1
<1>5. PICK x \in Nat : x = Pow(b, j) /\ x > j
  BY <1>1, <1>2, <1>4
<1>6. b * x >= 2 * x
  <2>1. PICK c \in Nat : b = c + 2
    <3>1. b - 2 \in Nat /\ b = (b - 2) + 2  OBVIOUS
    <3> QED BY <3>1
  <2>2. b * x = c * x + 2 * x /\ c * x \in Nat  BY <2>1
  <2> QED BY <2>2
<1>7. Pow(b, m) = b * x
  BY <1>2, <1>4, <1>5
<1> QED BY <1>1, <1>4, <1>5, <1>6, <1>7

LEMMA PowOfTen ==
  /\ Pow(10, 0) = 1
  /\ \A n \in Nat : Pow(10, n) \in Nat \ {0} /\ Pow(10, n + 1) = 10 * Pow(10, n) /\ Pow(10, n) > n
<1>1. 10 \in Nat \ {0} /\ 10 \in Nat \ {0, 1}
  OBVIOUS
<1> QED BY <1>1, PowResult, PowGrows

LEMMA ExponentResult ==
  ASSUME NEW x \in Nat \ {0}
  PROVE  /\ Exponent(x) \in Nat
         /\ x % Pow(10, Exponent(x)) = 0 /\ x % Pow(10, Exponent(x) + 1) # 0
<1> DEFINE S == {k \in Nat : x % Pow(10, k + 1) # 0}
<1>1. x \in S
  <2>1. x + 1 \in Nat  OBVIOUS
  <2>2. PICK p \in Nat : p = Pow(10, x + 1) /\ p > x + 1  BY <2>1, PowOfTen
  <2>3. p > 0 /\ 0 \in Nat /\ x \in 0 .. p - 1 /\ 0 * p + x = x  BY <2>2
  <2>4. (0 * p + x) % p = x  BY <2>3, Remainder
  <2> QED BY <2>2, <2>3, <2>4
<1>2. PICK m \in S : \A k \in S : m <= k
  <2>1. S \in SUBSET Nat /\ S # {}  BY <1>1
  <2> HIDE DEF S
  <2> QED BY <2>1, Least
<1>3. m \in 0 .. x
  BY <1>1, <1>2
<1>4. x % Pow(10, m) = 0
  <2>1. CASE m = 0
    <3>1. x % 1 = 0  OBVIOUS
    <3> QED BY <2>1, <3>1, PowOfTen
  <2>2. CASE m # 0
    <3>1. m - 1 \in Nat /\ (m - 1) + 1 = m /\ ~(m <= m - 1)  BY <1>2, <2>2
    <3>2. m - 1 \notin S  BY <1>2, <3>1
    <3> QED BY <3>1, <3>2
  <2> QED BY <2>1, <2>2
<1>5. \E e \in 0 .. x : x % Pow(10, e) = 0 /\ x % Pow(10, e + 1) # 0
  BY <1>2, <1>3, <1>4
<1>6. /\ Exponent(x) \in 0 .. x
      /\ x % Pow(10, Exponent(x)) = 0 /\ x % Pow(10, Exponent(x) + 1) # 0
  BY <1>5, Zenon DEF Exponent
<1> QED BY <1>6

LEMMA SignificandResult ==
  ASSUME NEW x \in Nat \ {0}
  PROVE  Significand(x) \in Nat /\ x = Significand(x) * Pow(10, Exponent(x))
<1>1. PICK p \in Nat : p = Pow(10, Exponent(x)) /\ p > 0 /\ x % p = 0
  <2>1. Exponent(x) \in Nat /\ x % Pow(10, Exponent(x)) = 0  BY ExponentResult
  <2>2. \A n \in Nat : n \in Nat \ {0} => n > 0  OBVIOUS
  <2> QED BY <2>1, <2>2, PowOfTen
<1> QED BY <1>1, Divides DEF Significand

\* A number is made of one significand and one exponent only, of those whose significand
\* does not end in a zero.
LEMMA ExponentUnique ==
  ASSUME NEW x \in Nat \ {0}, NEW sig \in Nat, NEW e \in Nat, sig % 10 # 0, sig * Pow(10, e) = x
  PROVE  e = Exponent(x) /\ sig = Significand(x)
<1>1. PICK f \in Nat : f = Exponent(x) /\ x % Pow(10, f) = 0 /\ x % Pow(10, f + 1) # 0
  BY ExponentResult
<1>2. \A n \in Nat : n + 1 \in Nat /\ Pow(10, n) \in Nat /\ Pow(10, n) > 0 /\ Pow(10, n + 1) = 10 * Pow(10, n)
  <2>1. \A n \in Nat : n \in Nat \ {0} => n > 0  OBVIOUS
  <2> QED BY <2>1, PowOfTen
<1>3. ASSUME NEW n \in Nat, NEW m \in Nat, x % Pow(10, n + m) = 0
      PROVE  x % Pow(10, n) = 0
  <2>1. PICK p \in Nat, q \in Nat : p = Pow(10, n) /\ q = Pow(10, m) /\ p > 0 /\ q > 0
    BY <1>2
  <2>2. PICK r \in Nat : r = Pow(10, n + m) /\ r > 0
    BY <1>2
  <2>3. r = p * q
    <3>1. 10 \in Nat \ {0}  OBVIOUS
    <3> QED BY <2>1, <2>2, <3>1, PowAdd
  <2>4. PICK k \in Nat : x = k * r
    <3>1. x % r = 0  BY <1>3, <2>2
    <3>2. x \div r \in Nat /\ x = (x \div r) * r  BY <2>2, <3>1, Divides
    <3> QED BY <3>2
  <2>5. x = (k * q) * p + 0 /\ k * q \in Nat /\ 0 \in 0 .. p - 1
    BY <2>1, <2>3, <2>4
  <2>6. ((k * q) * p + 0) % p = 0
    BY <2>1, <2>5, Remainder
  <2> QED BY <2>1, <2>5, <2>6
<1>4. PICK p \in Nat : p = Pow(10, e) /\ p > 0 /\ Pow(10, e + 1) = 10 * p
  BY <1>2
<1>5. x = sig * p + 0 /\ 0 \in 0 .. p - 1
  BY <1>4
<1>6. x % Pow(10, e) = 0 /\ x \div p = sig
  <2>1. (sig * p + 0) % p = 0 /\ (sig * p + 0) \div p = sig
    BY <1>4, <1>5, Remainder, Quotient
  <2> QED BY <1>4, <1>5, <2>1
<1>7. x % Pow(10, e + 1) # 0
  <2> SUFFICES ASSUME x % Pow(10, e + 1) = 0 PROVE FALSE
    OBVIOUS
  <2>1. 10 * p \in Nat /\ 10 * p > 0  BY <1>4
  <2>2. PICK k \in Nat : x = k * (10 * p)
    <3>1. PICK d \in Nat : d = 10 * p /\ d > 0  BY <2>1
    <3>2. x % d = 0  BY <1>4, <3>1
    <3>3. x \div d \in Nat /\ x = (x \div d) * d  BY <3>1, <3>2, Divides
    <3> QED BY <3>1, <3>3
  <2>3. x = (10 * k) * p + 0 /\ 10 * k \in Nat  BY <2>2
  <2>4. x \div p = 10 * k  BY <1>4, <1>5, <2>3, Quotient
  <2>5. (10 * k) % 10 = 0  OBVIOUS
  <2> QED BY <1>6, <2>4, <2>5
<1>8. e = f
  <2>1. CASE e < f
    <3>1. f - (e + 1) \in Nat /\ (e + 1) + (f - (e + 1)) = f  BY <2>1
    <3>2. e + 1 \in Nat /\ x % Pow(10, (e + 1) + (f - (e + 1))) = 0  BY <1>1, <3>1
    <3>3. x % Pow(10, e + 1) = 0  BY <1>3, <3>1, <3>2
    <3> QED BY <1>7, <3>3
  <2>2. CASE f < e
    <3>1. e - (f + 1) \in Nat /\ (f + 1) + (e - (f + 1)) = e  BY <2>2
    <3>2. f + 1 \in Nat /\ x % Pow(10, (f + 1) + (e - (f + 1))) = 0  BY <1>6, <3>1
    <3>3. x % Pow(10, f + 1) = 0  BY <1>3, <3>1, <3>2
    <3> QED BY <1>1, <3>3
  <2> QED BY <2>1, <2>2
<1> QED BY <1>1, <1>4, <1>6, <1>8 DEF Significand

LEMMA PowOfTwo ==
  /\ Pow(2, 0) = 1
  /\ \A n \in Nat : Pow(2, n) \in Nat /\ Pow(2, n) > 0 /\ Pow(2, n + 1) = 2 * Pow(2, n)
<1>1. 2 \in Nat \ {0} /\ \A n \in Nat : n \in Nat \ {0} => n > 0
  OBVIOUS
<1> QED BY <1>1, PowResult

\* A number below 2 ^ bits fits.
LEMMA FitsBelow ==
  ASSUME NEW n \in Nat, NEW bits \in Nat, n < Pow(2, bits)
  PROVE  Fits(n, bits)
<1> DEFINE S == {i \in Nat : ~(Halved(n, i) * Pow(2, i) <= n)}
<1>1. Halved(n, 0) = n /\ \A i \in Nat : Halved(n, i) \in Nat /\ Halved(n, i + 1) = Halved(n, i) \div 2
  BY HalvedResult
<1>2. S = {}
  <2> SUFFICES ASSUME S # {} PROVE FALSE
    OBVIOUS
  <2>1. PICK m \in S : \A k \in S : m <= k
    <3>1. S \in SUBSET Nat  OBVIOUS
    <3> HIDE DEF S
    <3> QED BY <3>1, Least
  <2>2. m # 0
    <3>1. n * 1 <= n  OBVIOUS
    <3> QED BY <1>1, <2>1, <3>1, PowOfTwo
  <2>3. PICK j \in Nat : m = j + 1 /\ ~(m <= j)
    <3>1. m - 1 \in Nat /\ m = (m - 1) + 1  BY <2>1, <2>2
    <3> QED BY <3>1
  <2>4. Halved(n, j) * Pow(2, j) <= n
    BY <2>1, <2>3
  <2>5. PICK h \in Nat, p \in Nat : h = Halved(n, j) /\ p = Pow(2, j)
    BY <1>1, PowOfTwo
  <2>6. Halved(n, m) = h \div 2 /\ Pow(2, m) = 2 * p
    BY <1>1, <2>3, <2>5, PowOfTwo
  <2>7. PICK q \in Nat, r \in 0 .. 1 : q = h \div 2 /\ h = 2 * q + r
    OBVIOUS
  <2>8. h * p = q * (2 * p) + r * p /\ r * p \in Nat /\ q * (2 * p) \in Nat
    BY <2>7
  <2>9. q * (2 * p) <= n
    BY <2>4, <2>5, <2>8
  <2> QED BY <2>1, <2>6, <2>7, <2>9
<1>3. PICK h \in Nat, p \in Nat : h = Halved(n, bits) /\ p = Pow(2, bits) /\ h * p <= n
  BY <1>1, <1>2, PowOfTwo
<1>4. h = 0
  <2> SUFFICES ASSUME h # 0 PROVE FALSE
    OBVIOUS
  <2>1. PICK k \in Nat : h = k + 1
    <3>1. h - 1 \in Nat /\ h = (h - 1) + 1  OBVIOUS
    <3> QED BY <3>1
  <2>2. h * p = k * p + p /\ k * p \in Nat  BY <2>1
  <2> QED BY <1>3, <2>2
<1> QED BY <1>3, <1>4 DEF Fits

\* compress_fr of an amount it does not refuse: decompress_fr gives it back, and it fits.
LEMMA CompressResult ==
  ASSUME NEW x \in Nat, Compressible(x)
  PROVE  /\ Compress(x) \in Nat /\ Fits(Compress(x), FloatBits)
         /\ Decompress(Compress(x)) = x
<1>1. PICK p \in Nat, u \in Nat : p = Pow(2, SigBits) /\ u = Pow(2, ExpBits) /\ p > 0 /\ u > 0
  BY Widths, PowOfTwo
<1>2. Pow(2, FloatBits) = p * u
  <2>1. 2 \in Nat \ {0}  OBVIOUS
  <2> QED BY <1>1, <2>1, Widths, PowAdd DEF FloatBits
<1>3. PICK s \in 0 .. p - 1, e \in 0 .. u - 1 : Compress(x) = e * p + s /\ x = s * Pow(10, e)
  <2>1. CASE x = 0
    <3>1. 0 \in 0 .. p - 1 /\ 0 \in 0 .. u - 1 /\ 0 * p + 0 = 0 /\ 0 * 1 = 0  BY <1>1
    <3>2. Compress(x) = 0  BY <2>1 DEF Compress
    <3> QED BY <2>1, <3>1, <3>2, PowOfTen
  <2>2. CASE x # 0
    <3>1. PICK s, e : s = Significand(x) /\ e = Exponent(x)  OBVIOUS
    <3>2. s \in Nat /\ e \in Nat /\ x = s * Pow(10, e)
      BY <2>2, <3>1, ExponentResult, SignificandResult
    <3>3. s < p /\ e < u  BY <1>1, <2>2, <3>1 DEF Compressible
    <3>4. Compress(x) = e * p + s  BY <1>1, <2>2, <3>1 DEF Compress
    <3>5. s \in 0 .. p - 1 /\ e \in 0 .. u - 1  BY <1>1, <3>2, <3>3
    <3> QED BY <3>2, <3>4, <3>5
  <2> QED BY <2>1, <2>2
<1>4. (e * p + s) % p = s /\ (e * p + s) \div p = e
  BY <1>1, Remainder, Quotient
<1>5. Decompress(Compress(x)) = x
  BY <1>1, <1>3, <1>4 DEF Decompress
<1>6. e * p + s \in Nat /\ e * p + s < p * u
  <2>1. PICK d \in Nat : u = e + 1 + d
    <3>1. u - 1 - e \in Nat /\ u = e + 1 + (u - 1 - e)  OBVIOUS
    <3> QED BY <3>1
  <2>2. p * u = e * p + p + d * p /\ d * p \in Nat /\ e * p \in Nat  BY <2>1
  <2> QED BY <1>1, <2>2
<1>7. Fits(e * p + s, FloatBits)
  BY <1>2, <1>6, Widths, FitsBelow
<1> QED BY <1>3, <1>5, <1>6, <1>7

LEMMA CompressNat ==
  ASSUME NEW x \in Nat
  PROVE  Compress(x) \in Nat
<1>1. CASE x = 0
  BY <1>1 DEF Compress
<1>2. CASE x # 0
  <2>1. PICK s \in Nat, e \in Nat, p \in Nat : s = Significand(x) /\ e = Exponent(x) /\ p = Pow(2, SigBits)
    BY <1>2, ExponentResult, SignificandResult, Widths, PowOfTwo
  <2>2. e * p + s \in Nat  OBVIOUS
  <2> QED BY <1>2, <2>1, <2>2 DEF Compress
<1> QED BY <1>1, <1>2

\* An amount that compress_fr refuses is made by no significand and exponent that fit,
\* with a significand that does not end in a zero.
LEMMA IncompressibleResult ==
  ASSUME NEW x \in Nat, ~Compressible(x),
         NEW sig \in 0 .. Pow(2, SigBits) - 1, NEW e \in 0 .. Pow(2, ExpBits) - 1, sig % 10 # 0
  PROVE  sig * Pow(10, e) # x
<1>1. PICK p \in Nat, u \in Nat : p = Pow(2, SigBits) /\ u = Pow(2, ExpBits)
  BY Widths, PowOfTwo
<1>2. sig \in Nat /\ e \in Nat /\ sig < p /\ e < u
  BY <1>1
<1>3. x # 0 /\ ~(Significand(x) < p /\ Exponent(x) < u)
  BY <1>1 DEF Compressible
<1> QED BY <1>2, <1>3, ExponentUnique

-----------------------------------------------------------------------------
(* What a record says. *)

LEMMA HeaderResult ==
  ASSUME NEW tx
  PROVE  Header(tx) \in {0, 1, 2, 4, 6}
<1>1. CASE tx.type = "trade"
  <2>1. PICK a \in {0, 2} : a = IF Filled(tx.order1) THEN 2 ELSE 0  OBVIOUS
  <2>2. PICK b \in {0, 4} : b = IF Filled(tx.order2) THEN 4 ELSE 0  OBVIOUS
  <2>3. Header(tx) = a + b  BY <1>1, <2>1, <2>2 DEF Header
  <2> QED BY <2>3
<1>2. CASE tx.type # "trade"
  BY <1>2 DEF Header
<1> QED BY <1>1, <1>2

\* The fields of a transaction follow its header, the i-th between bits t[i - 1] and t[i],
\* and what is left of the record is blank.
LEMMA RecordWrites ==
  ASSUME NEW tx \in Txs, NEW fields, fields = Fields(tx), Len(fields) \in Nat,
         \A i \in 1 .. Len(fields) : fields[i][1] \in Nat /\ fields[i][2] \in Nat
  PROVE  \E t :
           /\ t[0] = HeadBits /\ \A i \in 1 .. Len(fields) : t[i] = t[i - 1] + fields[i][2]
           /\ \A i \in 1 .. Len(fields) :
                /\ t[i - 1] \in Nat /\ t[i - 1] + fields[i][2] <= DataBits
                /\ Holds(EncodeTx(New, tx), t[i - 1], fields[i][2], fields[i][1])
           /\ Holds(EncodeTx(New, tx), 0, HeadBits, Header(tx))
           /\ t[Len(fields)] \in 1 .. DataBits
           /\ Blank(EncodeTx(New, tx), t[Len(fields)], DataBits - t[Len(fields)])
<1>1. PICK head : head = EncodeInt(New, Header(tx), HeadBits)
  OBVIOUS
<1>2. PICK body : body = EncodeFields(head, fields)
  OBVIOUS
<1>3. PICK rec : rec = Padding(body, DataBits) /\ rec = EncodeTx(New, tx)
  BY <1>1, <1>2 DEF EncodeTx, Padded
<1>4. HeadBits \in Nat /\ Header(tx) \in Nat
  <2>1. Header(tx) \in {0, 1, 2, 4, 6}  BY HeaderResult
  <2> QED BY <2>1 DEF HeadBits
<1>5. Between(head) /\ TotalBits(head) = HeadBits /\ Holds(head, 0, HeadBits, Header(tx))
  <2>1. 0 + HeadBits = HeadBits  BY <1>4
  <2>2. Between(New) /\ TotalBits(New) = 0  BY NewResult
  <2> QED BY <1>1, <1>4, <2>1, <2>2, EncodeIntResult, EncodeIntWrites
<1>6. PICK t : /\ t[0] = TotalBits(head) /\ \A i \in 1 .. Len(fields) : t[i] = t[i - 1] + fields[i][2]
  BY <1>5, EncodeFieldsResult
<1>7. Between(body) /\ TotalBits(body) = t[Len(fields)] /\ Kept(head, body)
  BY <1>2, <1>5, <1>6, EncodeFieldsWrites
<1>8. ASSUME NEW i \in 1 .. Len(fields)
      PROVE  /\ t[i - 1] \in Nat /\ t[i - 1] + fields[i][2] <= t[Len(fields)]
             /\ Holds(body, t[i - 1], fields[i][2], fields[i][1])
  BY <1>2, <1>5, <1>6, EncodeFieldsWrites
<1>9. TotalBits(body) \in 1 .. DataBits
  BY <1>2, <1>5, FieldsResult
<1>10. PICK n \in 1 .. DataBits : n = TotalBits(body) /\ n = t[Len(fields)] /\ n \in Nat /\ DataBits \in Nat
  <2>1. DataBits \in Nat  BY DataBitsResult
  <2> QED BY <1>7, <1>9, <2>1
<1>11. Kept(body, rec) /\ Blank(rec, n, DataBits - n)
  BY <1>3, <1>7, <1>9, <1>10, PaddingWrites
<1>12. ASSUME NEW i \in 1 .. Len(fields)
       PROVE  /\ t[i - 1] \in Nat /\ t[i - 1] + fields[i][2] <= DataBits
              /\ Holds(rec, t[i - 1], fields[i][2], fields[i][1])
  <2>1. fields[i][2] \in Nat /\ fields[i][1] \in Nat  OBVIOUS
  <2>2. PICK u \in Nat, w \in Nat, v \in Nat : u = t[i - 1] /\ w = fields[i][2] /\ v = fields[i][1]
    BY <1>8, <2>1
  <2>3. u + w <= n /\ Holds(body, u, w, v)  BY <1>8, <1>10, <2>2
  <2>4. Holds(rec, u, w, v)  BY <1>10, <1>11, <2>3, HoldsKept
  <2>5. u + w <= DataBits  BY <1>10, <2>3
  <2> QED BY <2>2, <2>4, <2>5
<1>13. Holds(rec, 0, HeadBits, Header(tx))
  <2>1. 0 \in Nat /\ 0 + HeadBits <= HeadBits  BY <1>4
  <2>2. Holds(body, 0, HeadBits, Header(tx))
    BY <1>4, <1>5, <1>7, <2>1, HoldsKept
  <2>3. HeadBits <= n
    <3>1. CASE Len(fields) = 0
      BY <1>4, <1>5, <1>6, <1>10, <3>1
    <3>2. CASE Len(fields) # 0
      <4>1. 1 \in 1 .. Len(fields)  BY <3>2
      <4>2. PICK w \in Nat : w = fields[1][2]  BY <4>1
      <4>3. t[1 - 1] + w <= n  BY <1>8, <1>10, <4>1, <4>2
      <4>4. 1 - 1 = 0  OBVIOUS
      <4>5. HeadBits + w <= n  BY <1>5, <1>6, <4>3, <4>4
      <4> QED BY <1>4, <1>10, <4>2, <4>5
    <3> QED BY <3>1, <3>2
  <2>4. 0 + HeadBits <= n  BY <1>4, <2>3
  <2> QED BY <1>4, <1>10, <1>11, <2>2, <2>4, HoldsKept
<1> QED
  BY <1>3, <1>5, <1>6, <1>10, <1>11, <1>12, <1>13

\* Record n of some bytes, from 0 on
RecordAt(bytes, n, tx) ==
  /\ bytes \in Seq(Byte) /\ (n + 1) * Record <= Len(bytes)
  /\ SubSeq(bytes, n * Record + 1, (n + 1) * Record) = Bytes(tx)

\* A reader of the n-th record gets a number of it back.
LEMMA FieldRead ==
  ASSUME NEW tx \in Txs, NEW bytes, NEW n \in Nat, RecordAt(bytes, n, tx),
         NEW o \in Nat, NEW w \in Nat, NEW v \in Nat, o + w <= DataBits, Fits(v, w),
         Holds(EncodeTx(New, tx), o, w, v), NEW at, at = n * DataBits + o
  PROVE  Number(bytes, at, w) = v
<1>1. PICK r \in Nat, d \in Nat : r = Record /\ d = DataBits /\ d = 8 * r
  BY DataBitsResult
<1>2. PICK p \in Nat : p = n * r
  BY <1>1
<1>3. n * DataBits = 8 * p /\ (n + 1) * Record = p + r
  BY <1>1, <1>2
<1>4. at \in Nat /\ at = 8 * p + o
  BY <1>2, <1>3
<1>5. PICK b \in Seq(Byte) : b = Bytes(tx) /\ Len(b) = r /\ EncodeTx(New, tx) = Behind(b, New)
  BY <1>1, RecordResult
<1>6. PICK s : s = Append(b, 0)
  OBVIOUS
<1>7. \A i : BitOf(EncodeTx(New, tx), i) = Bit(s, i)
  <2>1. b \o <<>> = b  OBVIOUS
  <2>2. EncodeTx(New, tx) = [encoding_buf |-> b, applying_bit |-> 0, encoding_char |-> 0]
    BY <1>5, <2>1 DEF Behind, New
  <2> QED BY <1>6, <2>2 DEF BitOf
<1>8. bytes \in Seq(Byte) /\ p + r <= Len(bytes) /\ SubSeq(bytes, p + 1, p + r) = b
  BY <1>1, <1>2, <1>3, <1>5 DEF RecordAt
<1>9. \A q \in 0 .. r - 1 : s[q + 1] = b[q + 1] /\ b[q + 1] = bytes[p + q + 1]
  <2> SUFFICES ASSUME NEW q \in 0 .. r - 1
               PROVE  s[q + 1] = b[q + 1] /\ b[q + 1] = bytes[p + q + 1]
    OBVIOUS
  <2>1. q + 1 \in 1 .. Len(b)  BY <1>5
  <2>2. s[q + 1] = b[q + 1]  BY <1>6, <2>1
  <2>3. Len(bytes) \in Nat  BY <1>8
  <2>4. SubSeq(bytes, p + 1, p + r)[q + 1] = bytes[(p + 1) + (q + 1) - 1]
    BY <1>1, <1>2, <1>8, <2>3
  <2>5. (p + 1) + (q + 1) - 1 = p + q + 1  BY <1>2
  <2> QED BY <1>8, <2>2, <2>4, <2>5
<1>10. ASSUME NEW j \in 0 .. w - 1 PROVE Bit(bytes, at + j) = Halved(v, j) % 2
  <2>1. PICK i \in Nat : i = o + j /\ i < 8 * r
    BY <1>1
  <2>2. PICK q \in Nat, k \in 0 .. 7 : i = 8 * q + k
    <3>1. i \div 8 \in Nat /\ i % 8 \in 0 .. 7 /\ i = 8 * (i \div 8) + (i % 8)  OBVIOUS
    <3> QED BY <3>1
  <2>3. q \in 0 .. r - 1  BY <1>1, <2>1, <2>2
  <2>4. i \div 8 = q /\ i % 8 = k  BY <2>2, BytePlace
  <2>5. Bit(s, i) = (b[q + 1] \div mask[k + 1]) % 2  BY <1>9, <2>3, <2>4 DEF Bit
  <2>6. at + j = 8 * (p + q) + k /\ p + q \in Nat  BY <1>2, <1>4, <2>1, <2>2
  <2>7. (at + j) \div 8 = p + q /\ (at + j) % 8 = k
    <3>1. PICK z \in Nat : z = p + q /\ at + j = 8 * z + k  BY <2>6
    <3>2. (8 * z + k) \div 8 = z /\ (8 * z + k) % 8 = k  BY BytePlace
    <3> QED BY <3>1, <3>2
  <2>8. Bit(bytes, at + j) = (bytes[p + q + 1] \div mask[k + 1]) % 2  BY <2>7 DEF Bit
  <2>9. Bit(s, o + j) = Halved(v, j) % 2  BY <1>7 DEF Holds
  <2> QED BY <1>9, <2>1, <2>3, <2>5, <2>8, <2>9
<1> QED
  BY <1>4, <1>10, NumberResult

\* What encode_rawtx_to_pubdata has checked of a transaction that it wrote.
LEMMA Checked ==
  ASSUME NEW tx, EncodeCheck(New, tx) = "none"
  PROVE  /\ tx.type = "trade" =>
              /\ \A o \in {tx.order1, tx.order2} : Compressible(o.sell) /\ Compressible(o.buy)
              /\ Header(tx) # 0
         /\ \A i \in DOMAIN Fields(tx) \ Cut(tx) : Fits(Fields(tx)[i][1], Fields(tx)[i][2])
<1> DEFINE Big == tx.type = "trade" /\ \E o \in {tx.order1, tx.order2} :
                                         ~Compressible(o.sell) \/ ~Compressible(o.buy)
           Wide == \E i \in DOMAIN Fields(tx) \ Cut(tx) : ~Fits(Fields(tx)[i][1], Fields(tx)[i][2])
           Unfilled == tx.type = "trade" /\ Header(tx) = 0
<1>1. CASE Big
  BY <1>1 DEF EncodeCheck
<1>2. CASE ~Big /\ Unfilled
  BY <1>2 DEF EncodeCheck
<1>3. CASE ~Big /\ ~Unfilled /\ ~Wide
  BY <1>3
<1>4. CASE ~Big /\ ~Unfilled /\ Wide
  <2> HIDE DEF Big, Wide, Unfilled
  <2>1. EncodeCheck(New, tx) # "none"
    <3> USE DEF Big, Wide, Unfilled
    <3> QED BY <1>4 DEF EncodeCheck
  <2> QED BY <2>1
<1> QED BY <1>1, <1>2, <1>3, <1>4

LEMMA HeaderFits ==
  \A h \in {0, 1, 2, 4, 6} : h \in Nat /\ Fits(h, HeadBits)
<1>1. 0 \in Nat /\ 1 \in Nat /\ 2 \in Nat /\ 3 \in Nat /\ 0 + 1 = 1 /\ 1 + 1 = 2 /\ 2 + 1 = 3
  OBVIOUS
<1>2. Pow(2, 1) = 2 /\ Pow(2, 2) = 4 /\ Pow(2, 3) = 8
  <2>1. Pow(2, 1) = 2 * Pow(2, 0)  BY <1>1, PowOfTwo
  <2>2. Pow(2, 2) = 2 * Pow(2, 1)  BY <1>1, PowOfTwo
  <2>3. Pow(2, 3) = 2 * Pow(2, 2)  BY <1>1, PowOfTwo
  <2>4. Pow(2, 0) = 1  BY PowOfTwo
  <2> QED BY <2>1, <2>2, <2>3, <2>4
<1> SUFFICES ASSUME NEW h \in {0, 1, 2, 4, 6} PROVE h \in Nat /\ Fits(h, HeadBits)
  OBVIOUS
<1>3. h \in Nat /\ h < Pow(2, 3)
  BY <1>2
<1> QED BY <1>1, <1>3, FitsBelow DEF HeadBits

\* where each field begins and the last one ends
Places(fields, t) ==
  t[0] = HeadBits /\ \A i \in 1 .. Len(fields) : t[i] = t[i - 1] + fields[i][2]

\* a reader of the n-th record gets the fields back
Reads(bytes, n, fields, t) ==
  \A i \in 1 .. Len(fields) : \A at :
    at = n * DataBits + t[i - 1] => Number(bytes, at, fields[i][2]) = fields[i][1]

LEMMA FieldsRead ==
  ASSUME NEW tx \in Txs, NEW fields, fields = Fields(tx), Len(fields) \in Nat,
         \A i \in 1 .. Len(fields) :
           fields[i][1] \in Nat /\ fields[i][2] \in Nat /\ Fits(fields[i][1], fields[i][2]),
         NEW bytes, NEW n \in Nat, RecordAt(bytes, n, tx)
  PROVE  /\ Number(bytes, n * DataBits, HeadBits) = Header(tx)
         /\ \E t : Places(fields, t) /\ Reads(bytes, n, fields, t)
<1>1. PICK t :
        /\ t[0] = HeadBits /\ \A i \in 1 .. Len(fields) : t[i] = t[i - 1] + fields[i][2]
        /\ \A i \in 1 .. Len(fields) :
             /\ t[i - 1] \in Nat /\ t[i - 1] + fields[i][2] <= DataBits
             /\ Holds(EncodeTx(New, tx), t[i - 1], fields[i][2], fields[i][1])
        /\ Holds(EncodeTx(New, tx), 0, HeadBits, Header(tx))
  BY RecordWrites
<1>2. PICK d \in Nat : d = DataBits
  BY DataBitsResult
<1>3. Number(bytes, n * DataBits, HeadBits) = Header(tx)
  <2>1. Header(tx) \in Nat /\ Fits(Header(tx), HeadBits)
    BY HeaderResult, HeaderFits
  <2>2. 0 \in Nat /\ n * DataBits = n * DataBits + 0
    BY <1>2
  <2>3. HeadBits \in Nat /\ 0 + HeadBits <= DataBits
    <3>1. CommonBits \in Nat  BY Widths DEF CommonBits
    <3> QED BY <1>2, <3>1, DataBitsResult DEF HeadBits
  <2> QED BY <1>1, <2>1, <2>2, <2>3, FieldRead
<1>4. ASSUME NEW i \in 1 .. Len(fields), NEW at, at = n * DataBits + t[i - 1]
      PROVE  Number(bytes, at, fields[i][2]) = fields[i][1]
  <2>1. fields[i][1] \in Nat /\ fields[i][2] \in Nat /\ Fits(fields[i][1], fields[i][2])
    OBVIOUS
  <2>2. PICK u \in Nat, w \in Nat, v \in Nat : u = t[i - 1] /\ w = fields[i][2] /\ v = fields[i][1]
    BY <1>1, <2>1
  <2>3. u + w <= DataBits /\ Holds(EncodeTx(New, tx), u, w, v)
    BY <1>1, <2>2
  <2>4. Number(bytes, at, w) = v
    BY <1>4, <2>1, <2>2, <2>3, FieldRead
  <2> QED BY <2>2, <2>4
<1>5. Places(fields, t) /\ Reads(bytes, n, fields, t)
  BY <1>1, <1>4 DEF Places, Reads
<1> QED BY <1>3, <1>5

LEMMA ReadsKey ==
  ASSUME NEW tx \in Txs, tx.type = "key", NEW bytes, NEW n \in Nat, RecordAt(bytes, n, tx)
  PROVE  Decoded(bytes, n) = Published(tx)
<1> DEFINE fields == <<<<tx.from, AccountBits>>, <<tx.sign, 1>>, <<tx.ay, KeyBits>>>>
<1>1. /\ tx.from \in Nat /\ Fits(tx.from, AccountBits) /\ tx.sign \in Nat /\ Fits(tx.sign, 1)
      /\ tx.ay \in Nat /\ Fits(tx.ay, KeyBits)
  BY TxsAssumption DEF Within
<1>2. PICK f : f = fields /\ f = Fields(tx)
  BY DEF Fields
<1>3. /\ Len(f) = 3 /\ f[1][1] = tx.from /\ f[1][2] = AccountBits /\ f[2][1] = tx.sign /\ f[2][2] = 1
      /\ f[3][1] = tx.ay /\ f[3][2] = KeyBits
  BY <1>2
<1> HIDE DEF fields
<1>4. \A i \in 1 .. Len(f) : f[i][1] \in Nat /\ f[i][2] \in Nat /\ Fits(f[i][1], f[i][2])
  <2>1. \A i \in 1 .. 3 : i = 1 \/ i = 2 \/ i = 3  OBVIOUS
  <2> QED BY <1>1, <1>3, <2>1, Widths
<1>5. Len(f) \in Nat
  BY <1>3
<1>6. Number(bytes, n * DataBits, HeadBits) = 1
  <2>1. Header(tx) = 1  BY DEF Header
  <2> QED BY <1>2, <1>4, <1>5, <2>1, FieldsRead
<1>7. PICK t : Places(f, t) /\ Reads(bytes, n, f, t)
  BY <1>2, <1>4, <1>5, FieldsRead
<1>8. PICK p \in Nat, a \in Nat : p = n * DataBits /\ a = AccountBits
  BY DataBitsResult, Widths
<1>9. t[0] = 3 /\ t[1] = 3 + a /\ t[2] = 3 + a + 1
  <2>1. 1 \in 1 .. 3 /\ 2 \in 1 .. 3 /\ 1 - 1 = 0 /\ 2 - 1 = 1  OBVIOUS
  <2>2. t[1] = t[0] + f[1][2] /\ t[2] = t[1] + f[2][2]  BY <1>3, <1>7, <2>1 DEF Places
  <2> QED BY <1>7, <1>3, <1>8, <2>2 DEF HeadBits, Places
<1>10. Number(bytes, p + 3, AccountBits) = tx.from
  <2>1. 1 \in 1 .. 3 /\ 1 - 1 = 0  OBVIOUS
  <2> QED BY <1>3, <1>7, <1>8, <1>9, <2>1 DEF Reads
<1>11. Number(bytes, p + 3 + AccountBits, 1) = tx.sign
  <2>1. 2 \in 1 .. 3 /\ 2 - 1 = 1  OBVIOUS
  <2>2. p + 3 + AccountBits = p + t[1]  BY <1>8, <1>9
  <2> QED BY <1>3, <1>7, <1>8, <2>1, <2>2 DEF Reads
<1>12. Number(bytes, p + 3 + AccountBits + 1, KeyBits) = tx.ay
  <2>1. 3 \in 1 .. 3 /\ 3 - 1 = 2  OBVIOUS
  <2>2. p + 3 + AccountBits + 1 = p + t[2]  BY <1>8, <1>9
  <2> QED BY <1>3, <1>7, <1>8, <2>1, <2>2 DEF Reads
<1>13. Decoded(bytes, n) = <<tx.from, tx.from, [type |-> "key", sign |-> tx.sign, ay |-> tx.ay]>>
  <2>1. Number(bytes, p, 3) = 1  BY <1>6, <1>8 DEF HeadBits
  <2> QED BY <1>8, <1>10, <1>11, <1>12, <2>1 DEF Decoded, HeadBits
<1> QED BY <1>13 DEF Published

LEMMA ReadsCommon ==
  ASSUME NEW tx \in Txs, tx.type \in {"deposit", "transfer", "withdraw"}, EncodeCheck(New, tx) = "none",
         NEW bytes, NEW n \in Nat, RecordAt(bytes, n, tx)
  PROVE  Decoded(bytes, n) = Published(tx)
<1> DEFINE fields == <<<<tx.from, AccountBits>>, <<tx.to, AccountBits>>,
                       <<tx.token, TokenBits>>, <<tx.amount, AmountBits>>>>
<1>1. /\ tx.from \in Nat /\ Fits(tx.from, AccountBits) /\ tx.to \in Nat /\ Fits(tx.to, AccountBits)
      /\ tx.token \in Nat /\ Fits(tx.token, TokenBits) /\ tx.amount \in Nat
      /\ tx.type # "transfer" => tx.to = tx.from
  BY TxsAssumption DEF Within
<1>2. PICK f : f = fields /\ f = Fields(tx)
  BY DEF Fields
<1>3. /\ Len(f) = 4 /\ f[1][1] = tx.from /\ f[1][2] = AccountBits /\ f[2][1] = tx.to /\ f[2][2] = AccountBits
      /\ f[3][1] = tx.token /\ f[3][2] = TokenBits /\ f[4][1] = tx.amount /\ f[4][2] = AmountBits
      /\ DOMAIN f = 1 .. 4
  BY <1>2
<1> HIDE DEF fields
<1>4. Fits(tx.amount, AmountBits)
  <2>1. 4 \in DOMAIN Fields(tx) \ Cut(tx)  BY <1>2, <1>3 DEF Cut
  <2>2. Fits(Fields(tx)[4][1], Fields(tx)[4][2])  BY <2>1, Checked
  <2> QED BY <1>2, <1>3, <2>2
<1>5. \A i \in 1 .. Len(f) : f[i][1] \in Nat /\ f[i][2] \in Nat /\ Fits(f[i][1], f[i][2])
  <2>1. \A i \in 1 .. 4 : i = 1 \/ i = 2 \/ i = 3 \/ i = 4  OBVIOUS
  <2> QED BY <1>1, <1>3, <1>4, <2>1, Widths
<1>6. Len(f) \in Nat
  BY <1>3
<1>7. Number(bytes, n * DataBits, HeadBits) = IF tx.type = "withdraw" THEN 4 ELSE 0
  <2>1. Header(tx) = IF tx.type = "withdraw" THEN 4 ELSE 0  BY DEF Header
  <2> QED BY <1>2, <1>5, <1>6, <2>1, FieldsRead
<1>8. PICK t : Places(f, t) /\ Reads(bytes, n, f, t)
  BY <1>2, <1>5, <1>6, FieldsRead
<1>9. PICK p \in Nat, a \in Nat, k \in Nat : p = n * DataBits /\ a = AccountBits /\ k = TokenBits
  BY DataBitsResult, Widths
<1>10. t[0] = 3 /\ t[1] = 3 + a /\ t[2] = 3 + 2 * a /\ t[3] = 3 + 2 * a + k
  <2>1. 1 \in 1 .. 4 /\ 2 \in 1 .. 4 /\ 3 \in 1 .. 4 /\ 1 - 1 = 0 /\ 2 - 1 = 1 /\ 3 - 1 = 2  OBVIOUS
  <2>2. t[1] = t[0] + f[1][2] /\ t[2] = t[1] + f[2][2] /\ t[3] = t[2] + f[3][2]
    BY <1>3, <1>8, <2>1 DEF Places
  <2> QED BY <1>3, <1>8, <1>9, <2>2 DEF HeadBits, Places
<1>11. Number(bytes, p + 3, AccountBits) = tx.from
  <2>1. 1 \in 1 .. 4 /\ 1 - 1 = 0  OBVIOUS
  <2> QED BY <1>3, <1>8, <1>9, <1>10, <2>1 DEF Reads
<1>12. Number(bytes, p + 3 + AccountBits, AccountBits) = tx.to
  <2>1. 2 \in 1 .. 4 /\ 2 - 1 = 1  OBVIOUS
  <2>2. p + 3 + AccountBits = p + t[1]  BY <1>9, <1>10
  <2> QED BY <1>3, <1>8, <1>9, <2>1, <2>2 DEF Reads
<1>13. Number(bytes, p + 3 + 2 * AccountBits, TokenBits) = tx.token
  <2>1. 3 \in 1 .. 4 /\ 3 - 1 = 2  OBVIOUS
  <2>2. p + 3 + 2 * AccountBits = p + t[2]  BY <1>9, <1>10
  <2> QED BY <1>3, <1>8, <1>9, <2>1, <2>2 DEF Reads
<1>14. Number(bytes, p + 3 + 2 * AccountBits + TokenBits, AmountBits) = tx.amount
  <2>1. 4 \in 1 .. 4 /\ 4 - 1 = 3  OBVIOUS
  <2>2. p + 3 + 2 * AccountBits + TokenBits = p + t[3]  BY <1>9, <1>10
  <2> QED BY <1>3, <1>8, <1>9, <2>1, <2>2 DEF Reads
<1>15. Number(bytes, p, 3) = IF tx.type = "withdraw" THEN 4 ELSE 0
  BY <1>7, <1>9 DEF HeadBits
<1>16. \A type : DecodedCommon(bytes, p + 3, type) = [type |-> type, token |-> tx.token, amount |-> tx.amount]
  BY <1>13, <1>14 DEF DecodedCommon
<1>17. CASE tx.type = "withdraw"
  <2>1. Decoded(bytes, n) = <<tx.from, tx.to, DecodedCommon(bytes, p + 3, "withdraw")>>
    BY <1>1, <1>9, <1>11, <1>12, <1>15, <1>17 DEF Decoded, HeadBits
  <2>2. Published(tx) = <<tx.from, tx.to, [type |-> "withdraw", token |-> tx.token, amount |-> tx.amount]>>
    BY <1>17 DEF Published
  <2> QED BY <1>16, <2>1, <2>2
<1>18. CASE tx.type # "withdraw"
  <2>1. PICK type : type = IF tx.from = tx.to THEN "deposit" ELSE "transfer"
    OBVIOUS
  <2>2. Decoded(bytes, n) = <<tx.from, tx.to, DecodedCommon(bytes, p + 3, type)>>
    BY <1>9, <1>11, <1>12, <1>15, <1>18, <2>1 DEF Decoded, HeadBits
  <2>3. type = IF tx.type = "transfer" /\ tx.from = tx.to THEN "deposit" ELSE tx.type
    BY <1>1, <1>18, <2>1
  <2>4. Published(tx) = <<tx.from, tx.to, [type |-> type, token |-> tx.token, amount |-> tx.amount]>>
    BY <2>3 DEF Published
  <2> QED BY <1>16, <2>2, <2>4
<1> QED BY <1>17, <1>18

LEMMA ReadsNop ==
  ASSUME NEW tx \in Txs, tx.type = "nop", NEW bytes, NEW n \in Nat, RecordAt(bytes, n, tx)
  PROVE  Decoded(bytes, n) = Published(tx)
<1>1. PICK f : f = <<>> /\ f = Fields(tx) /\ Len(f) = 0
  BY DEF Fields
<1>2. PICK t :
        /\ t[0] = HeadBits
        /\ Holds(EncodeTx(New, tx), 0, HeadBits, Header(tx))
        /\ Blank(EncodeTx(New, tx), t[Len(f)], DataBits - t[Len(f)])
  <2>1. Len(f) \in Nat /\ \A i \in 1 .. Len(f) : f[i][1] \in Nat /\ f[i][2] \in Nat
    BY <1>1
  <2> QED BY <1>1, <2>1, RecordWrites
<1>3. PICK d \in Nat, p \in Nat : d = DataBits /\ p = n * DataBits /\ 3 <= d
  <2>1. CommonBits \in Nat  BY Widths DEF CommonBits
  <2>2. DataBits \in Nat /\ 3 <= DataBits  BY <2>1, DataBitsResult DEF HeadBits
  <2> QED BY <2>2
<1>4. Blank(EncodeTx(New, tx), 3, d - 3) /\ d - 3 \in Nat
  BY <1>1, <1>2, <1>3 DEF HeadBits
<1>5. ASSUME NEW o \in Nat, NEW w \in Nat, 3 <= o, o + w <= d, NEW at, at = p + o
      PROVE  Number(bytes, at, w) = 0
  <2>1. Holds(EncodeTx(New, tx), o, w, 0)
    BY <1>3, <1>4, <1>5, BlankHolds
  <2>2. 0 \in Nat /\ Fits(0, w)  BY <1>5, HalvedZero DEF Fits
  <2> QED BY <1>3, <1>5, <2>1, <2>2, FieldRead
<1>6. Number(bytes, p, 3) = 0
  <2>1. Header(tx) = 0  BY DEF Header
  <2>2. 0 \in Nat /\ 3 \in Nat /\ Fits(0, 3) /\ 0 + 3 <= DataBits /\ p = n * DataBits + 0
    BY <1>3, HalvedZero DEF Fits
  <2>3. Holds(EncodeTx(New, tx), 0, 3, 0)  BY <1>2, <2>1 DEF HeadBits
  <2> QED BY <2>2, <2>3, FieldRead
<1>7. PICK a \in Nat, k \in Nat, m \in Nat : /\ a = AccountBits /\ k = TokenBits /\ m = AmountBits
                                             /\ m + 2 * a + k + 3 <= d
  BY <1>3, Widths, DataBitsResult DEF CommonBits, HeadBits
<1>8. /\ Number(bytes, p + 3, AccountBits) = 0 /\ Number(bytes, p + 3 + AccountBits, AccountBits) = 0
      /\ Number(bytes, p + 3 + 2 * AccountBits, TokenBits) = 0
      /\ Number(bytes, p + 3 + 2 * AccountBits + TokenBits, AmountBits) = 0
  <2>1. 3 \in Nat /\ 3 + a <= d  BY <1>7
  <2>2. 3 + a \in Nat /\ 3 <= 3 + a /\ (3 + a) + a <= d /\ p + 3 + a = p + (3 + a)  BY <1>7
  <2>3. 3 + 2 * a \in Nat /\ 3 <= 3 + 2 * a /\ (3 + 2 * a) + k <= d /\ p + 3 + 2 * a = p + (3 + 2 * a)
    BY <1>7
  <2>4. /\ 3 + 2 * a + k \in Nat /\ 3 <= 3 + 2 * a + k /\ (3 + 2 * a + k) + m <= d
        /\ p + 3 + 2 * a + k = p + (3 + 2 * a + k)
    BY <1>7
  <2>5. Number(bytes, p + 3, a) = 0  BY <1>5, <2>1
  <2>6. Number(bytes, p + 3 + a, a) = 0  BY <1>5, <2>2
  <2>7. Number(bytes, p + 3 + 2 * a, k) = 0  BY <1>5, <2>3
  <2>8. Number(bytes, p + 3 + 2 * a + k, m) = 0  BY <1>5, <2>4
  <2> QED BY <1>7, <2>5, <2>6, <2>7, <2>8
<1>9. DecodedCommon(bytes, p + 3, "deposit") = [type |-> "deposit", token |-> 0, amount |-> 0]
  BY <1>8 DEF DecodedCommon
<1>10. Decoded(bytes, n) = <<0, 0, DecodedCommon(bytes, p + 3, "deposit")>>
  BY <1>3, <1>6, <1>8 DEF Decoded, HeadBits
<1> QED BY <1>9, <1>10 DEF Published

LEMMA OrderReads ==
  ASSUME NEW o, IsOrder(o), Compressible(o.sell), Compressible(o.buy), NEW bytes, NEW at,
         Number(bytes, at, FloatBits) = Compress(o.sell),
         Number(bytes, at + FloatBits, FloatBits) = Compress(o.buy),
         Number(bytes, at + 2 * FloatBits, OrderBits) = o.pos,
         Number(bytes, at + 2 * FloatBits + OrderBits, OrderIdBits) = o.id
  PROVE  DecodedOrder(bytes, at) = [sell |-> o.sell, buy |-> o.buy, pos |-> o.pos, id |-> o.id]
<1>1. o.sell \in Nat /\ o.buy \in Nat
  BY DEF IsOrder
<1>2. Decompress(Compress(o.sell)) = o.sell /\ Decompress(Compress(o.buy)) = o.buy
  BY <1>1, CompressResult
<1> QED BY <1>2 DEF DecodedOrder

\* The amounts of an order, compressed, and its other fields fit.
LEMMA OrderFits ==
  ASSUME NEW o, IsOrder(o), Compressible(o.sell), Compressible(o.buy)
  PROVE  /\ Compress(o.sell) \in Nat /\ Fits(Compress(o.sell), FloatBits)
         /\ Compress(o.buy) \in Nat /\ Fits(Compress(o.buy), FloatBits)
         /\ o.token \in Nat /\ Fits(o.token, TokenBits) /\ o.pos \in Nat /\ Fits(o.pos, OrderBits)
         /\ o.id \in Nat /\ Fits(o.id, OrderIdBits)
         /\ Filled(o) <=> (o.filledBuy = o.buy \/ o.filledSell = o.sell)
<1>1. /\ o.sell \in Nat /\ o.buy \in Nat
      /\ o.token \in Nat /\ Fits(o.token, TokenBits) /\ o.pos \in Nat /\ Fits(o.pos, OrderBits)
      /\ o.id \in Nat /\ Fits(o.id, OrderIdBits)
  BY DEF IsOrder, Within
<1>2. /\ Compress(o.sell) \in Nat /\ Fits(Compress(o.sell), FloatBits)
      /\ Decompress(Compress(o.sell)) = o.sell
  BY <1>1, CompressResult
<1>3. /\ Compress(o.buy) \in Nat /\ Fits(Compress(o.buy), FloatBits)
      /\ Decompress(Compress(o.buy)) = o.buy
  BY <1>1, CompressResult
<1>4. Filled(o) <=> (o.filledBuy = o.buy \/ o.filledSell = o.sell)
  BY <1>2, <1>3 DEF Filled
<1> QED BY <1>1, <1>2, <1>3, <1>4

\* fields of a trade, and how they are numbered
TradeFields(tx) ==
  <<<<tx.from, AccountBits>>, <<tx.to, AccountBits>>,
    <<tx.order1.token, TokenBits>>, <<tx.order2.token, TokenBits>>>>
    \o OrderFields(tx.order1) \o OrderFields(tx.order2)

LEMMA TradeShape ==
  ASSUME NEW tx, NEW f, f = TradeFields(tx)
  PROVE  /\ Len(f) = 12
         /\ f[1][1] = tx.from /\ f[1][2] = AccountBits
         /\ f[2][1] = tx.to /\ f[2][2] = AccountBits
         /\ f[3][1] = tx.order1.token /\ f[3][2] = TokenBits
         /\ f[4][1] = tx.order2.token /\ f[4][2] = TokenBits
         /\ f[5][1] = Compress(tx.order1.sell) /\ f[5][2] = FloatBits
         /\ f[6][1] = Compress(tx.order1.buy) /\ f[6][2] = FloatBits
         /\ f[7][1] = tx.order1.pos /\ f[7][2] = OrderBits
         /\ f[8][1] = tx.order1.id /\ f[8][2] = OrderIdBits
         /\ f[9][1] = Compress(tx.order2.sell) /\ f[9][2] = FloatBits
         /\ f[10][1] = Compress(tx.order2.buy) /\ f[10][2] = FloatBits
         /\ f[11][1] = tx.order2.pos /\ f[11][2] = OrderBits
         /\ f[12][1] = tx.order2.id /\ f[12][2] = OrderIdBits
<1> DEFINE a == <<<<tx.from, AccountBits>>, <<tx.to, AccountBits>>,
                  <<tx.order1.token, TokenBits>>, <<tx.order2.token, TokenBits>>>>
           b == OrderFields(tx.order1)
           c == OrderFields(tx.order2)
<1>1. f = a \o b \o c
  BY DEF TradeFields
<1>2. Len(f) = 12
  BY <1>1 DEF OrderFields
<1>3. /\ f[1] = <<tx.from, AccountBits>> /\ f[2] = <<tx.to, AccountBits>>
      /\ f[3] = <<tx.order1.token, TokenBits>> /\ f[4] = <<tx.order2.token, TokenBits>>
  BY <1>1 DEF OrderFields
<1>4. /\ f[5] = <<Compress(tx.order1.sell), FloatBits>> /\ f[6] = <<Compress(tx.order1.buy), FloatBits>>
      /\ f[7] = <<tx.order1.pos, OrderBits>> /\ f[8] = <<tx.order1.id, OrderIdBits>>
  BY <1>1 DEF OrderFields
<1>5. /\ f[9] = <<Compress(tx.order2.sell), FloatBits>> /\ f[10] = <<Compress(tx.order2.buy), FloatBits>>
      /\ f[11] = <<tx.order2.pos, OrderBits>> /\ f[12] = <<tx.order2.id, OrderIdBits>>
  BY <1>1 DEF OrderFields
<1> HIDE DEF a, b, c
<1> QED BY <1>2, <1>3, <1>4, <1>5

LEMMA TradeFits ==
  ASSUME NEW tx \in Txs, tx.type = "trade",
         \A o \in {tx.order1, tx.order2} : Compressible(o.sell) /\ Compressible(o.buy),
         NEW f, f = TradeFields(tx)
  PROVE  \A i \in 1 .. 12 : f[i][1] \in Nat /\ f[i][2] \in Nat /\ Fits(f[i][1], f[i][2])
<1>1. /\ tx.from \in Nat /\ Fits(tx.from, AccountBits) /\ tx.to \in Nat /\ Fits(tx.to, AccountBits)
      /\ IsOrder(tx.order1) /\ IsOrder(tx.order2)
  BY TxsAssumption DEF Within
<1>2. PICK o1, o2 : o1 = tx.order1 /\ o2 = tx.order2
  OBVIOUS
<1>3. /\ Compress(o1.sell) \in Nat /\ Fits(Compress(o1.sell), FloatBits)
      /\ Compress(o1.buy) \in Nat /\ Fits(Compress(o1.buy), FloatBits)
      /\ o1.token \in Nat /\ Fits(o1.token, TokenBits) /\ o1.pos \in Nat /\ Fits(o1.pos, OrderBits)
      /\ o1.id \in Nat /\ Fits(o1.id, OrderIdBits)
  BY <1>1, <1>2, OrderFits
<1>4. /\ Compress(o2.sell) \in Nat /\ Fits(Compress(o2.sell), FloatBits)
      /\ Compress(o2.buy) \in Nat /\ Fits(Compress(o2.buy), FloatBits)
      /\ o2.token \in Nat /\ Fits(o2.token, TokenBits) /\ o2.pos \in Nat /\ Fits(o2.pos, OrderBits)
      /\ o2.id \in Nat /\ Fits(o2.id, OrderIdBits)
  BY <1>1, <1>2, OrderFits
<1> DEFINE Ok(i) == f[i][1] \in Nat /\ f[i][2] \in Nat /\ Fits(f[i][1], f[i][2])
<1>5. Ok(1) /\ Ok(2) /\ Ok(3) /\ Ok(4)
  <2>1. f[1][1] = tx.from /\ f[1][2] = AccountBits  BY <1>2, TradeShape
  <2>2. f[2][1] = tx.to /\ f[2][2] = AccountBits  BY <1>2, TradeShape
  <2>3. f[3][1] = o1.token /\ f[3][2] = TokenBits  BY <1>2, TradeShape
  <2>4. f[4][1] = o2.token /\ f[4][2] = TokenBits  BY <1>2, TradeShape
  <2> QED BY <1>1, <1>3, <1>4, <2>1, <2>2, <2>3, <2>4, Widths
<1>6. Ok(5) /\ Ok(6) /\ Ok(7) /\ Ok(8)
  <2>1. f[5][1] = Compress(o1.sell) /\ f[5][2] = FloatBits  BY <1>2, TradeShape
  <2>2. f[6][1] = Compress(o1.buy) /\ f[6][2] = FloatBits  BY <1>2, TradeShape
  <2>3. f[7][1] = o1.pos /\ f[7][2] = OrderBits  BY <1>2, TradeShape
  <2>4. f[8][1] = o1.id /\ f[8][2] = OrderIdBits  BY <1>2, TradeShape
  <2> QED BY <1>1, <1>3, <1>4, <2>1, <2>2, <2>3, <2>4, Widths
<1>7. Ok(9) /\ Ok(10) /\ Ok(11) /\ Ok(12)
  <2>1. f[9][1] = Compress(o2.sell) /\ f[9][2] = FloatBits  BY <1>2, TradeShape
  <2>2. f[10][1] = Compress(o2.buy) /\ f[10][2] = FloatBits  BY <1>2, TradeShape
  <2>3. f[11][1] = o2.pos /\ f[11][2] = OrderBits  BY <1>2, TradeShape
  <2>4. f[12][1] = o2.id /\ f[12][2] = OrderIdBits  BY <1>2, TradeShape
  <2> QED BY <1>1, <1>3, <1>4, <2>1, <2>2, <2>3, <2>4, Widths
<1> HIDE DEF Ok
<1>8. \A i \in 1 .. 12 : \/ i = 1 \/ i = 2 \/ i = 3 \/ i = 4 \/ i = 5 \/ i = 6
                         \/ i = 7 \/ i = 8 \/ i = 9 \/ i = 10 \/ i = 11 \/ i = 12
  OBVIOUS
<1>9. \A i \in 1 .. 12 : Ok(i)
  BY <1>5, <1>6, <1>7, <1>8
<1> QED BY <1>9 DEF Ok

LEMMA ReadsTrade ==
  ASSUME NEW tx \in Txs, tx.type = "trade", EncodeCheck(New, tx) = "none",
         NEW bytes, NEW n \in Nat, RecordAt(bytes, n, tx)
  PROVE  Decoded(bytes, n) = Published(tx)
<1>1. PICK o1, o2 : o1 = tx.order1 /\ o2 = tx.order2
  OBVIOUS
<1>2. /\ IsOrder(o1) /\ IsOrder(o2) /\ tx.from # tx.to
      /\ Compressible(o1.sell) /\ Compressible(o1.buy) /\ Compressible(o2.sell) /\ Compressible(o2.buy)
      /\ Header(tx) # 0
  <2>1. IsOrder(o1) /\ IsOrder(o2) /\ tx.from # tx.to  BY <1>1, TxsAssumption
  <2>2. (\A o \in {tx.order1, tx.order2} : Compressible(o.sell) /\ Compressible(o.buy)) /\ Header(tx) # 0
    BY Checked
  <2> QED BY <1>1, <2>1, <2>2
<1>3. PICK f : f = TradeFields(tx) /\ f = Fields(tx)
  BY DEF Fields, TradeFields
<1>4. /\ Len(f) = 12
      /\ f[1][1] = tx.from /\ f[1][2] = AccountBits
      /\ f[2][1] = tx.to /\ f[2][2] = AccountBits
      /\ f[3][1] = o1.token /\ f[3][2] = TokenBits
      /\ f[4][1] = o2.token /\ f[4][2] = TokenBits
      /\ f[5][1] = Compress(o1.sell) /\ f[5][2] = FloatBits
      /\ f[6][1] = Compress(o1.buy) /\ f[6][2] = FloatBits
      /\ f[7][1] = o1.pos /\ f[7][2] = OrderBits
      /\ f[8][1] = o1.id /\ f[8][2] = OrderIdBits
      /\ f[9][1] = Compress(o2.sell) /\ f[9][2] = FloatBits
      /\ f[10][1] = Compress(o2.buy) /\ f[10][2] = FloatBits
      /\ f[11][1] = o2.pos /\ f[11][2] = OrderBits
      /\ f[12][1] = o2.id /\ f[12][2] = OrderIdBits
  <2>1. /\ Len(f) = 12
        /\ f[1][1] = tx.from /\ f[1][2] = AccountBits
        /\ f[2][1] = tx.to /\ f[2][2] = AccountBits
        /\ f[3][1] = tx.order1.token /\ f[3][2] = TokenBits
        /\ f[4][1] = tx.order2.token /\ f[4][2] = TokenBits
        /\ f[5][1] = Compress(tx.order1.sell) /\ f[5][2] = FloatBits
        /\ f[6][1] = Compress(tx.order1.buy) /\ f[6][2] = FloatBits
        /\ f[7][1] = tx.order1.pos /\ f[7][2] = OrderBits
        /\ f[8][1] = tx.order1.id /\ f[8][2] = OrderIdBits
        /\ f[9][1] = Compress(tx.order2.sell) /\ f[9][2] = FloatBits
        /\ f[10][1] = Compress(tx.order2.buy) /\ f[10][2] = FloatBits
        /\ f[11][1] = tx.order2.pos /\ f[11][2] = OrderBits
        /\ f[12][1] = tx.order2.id /\ f[12][2] = OrderIdBits
    BY <1>3, TradeShape
  <2> QED BY <1>1, <2>1
<1>5. \A i \in 1 .. Len(f) : f[i][1] \in Nat /\ f[i][2] \in Nat /\ Fits(f[i][1], f[i][2])
  <2>1. \A o \in {tx.order1, tx.order2} : Compressible(o.sell) /\ Compressible(o.buy)
    BY <1>1, <1>2
  <2>2. \A i \in 1 .. 12 : f[i][1] \in Nat /\ f[i][2] \in Nat /\ Fits(f[i][1], f[i][2])
    BY <1>3, <2>1, TradeFits
  <2> QED BY <1>4, <2>2
<1>6. Len(f) \in Nat
  BY <1>4
<1>7. PICK head : head = Header(tx) /\ Number(bytes, n * DataBits, HeadBits) = head
  BY <1>3, <1>5, <1>6, FieldsRead
<1>8. PICK t : Places(f, t) /\ Reads(bytes, n, f, t)
  BY <1>3, <1>5, <1>6, FieldsRead
<1>9. PICK p \in Nat, a \in Nat, k \in Nat, c \in Nat, b \in Nat, i \in Nat :
        /\ p = n * DataBits /\ a = AccountBits /\ k = TokenBits
        /\ c = FloatBits /\ b = OrderBits /\ i = OrderIdBits
  BY DataBitsResult, Widths
<1>10. \A j \in 1 .. 12 : t[j] = t[j - 1] + f[j][2]
  BY <1>4, <1>8 DEF Places
<1>11. \A j \in 1 .. 12 : \A at : at = p + t[j - 1] => Number(bytes, at, f[j][2]) = f[j][1]
  BY <1>4, <1>8, <1>9 DEF Reads
<1>12. /\ t[0] = 3 /\ t[1] = 3 + a /\ t[2] = 3 + 2 * a /\ t[3] = 3 + 2 * a + k
       /\ t[4] = 3 + 2 * a + 2 * k
  <2>1. /\ t[1] = t[0] + f[1][2] /\ t[2] = t[1] + f[2][2] /\ t[3] = t[2] + f[3][2]
        /\ t[4] = t[3] + f[4][2]
    BY <1>10
  <2>2. t[0] = 3  BY <1>8 DEF HeadBits, Places
  <2> QED BY <1>4, <1>9, <2>1, <2>2
<1>13. PICK u \in Nat, w \in Nat : /\ u = p + 3 + 2 * a + 2 * k /\ w = u + 2 * c + b + i
                                   /\ p + t[4] = u
  BY <1>9, <1>12
<1>14. /\ p + t[5] = u + c /\ p + t[6] = u + 2 * c /\ p + t[7] = u + 2 * c + b /\ p + t[8] = w
       /\ p + t[9] = w + c /\ p + t[10] = w + 2 * c /\ p + t[11] = w + 2 * c + b
  <2>1. PICK t4 \in Nat : t4 = t[4] /\ u = p + t4
    BY <1>9, <1>12, <1>13
  <2>2. /\ t[5] = t4 + c /\ t[6] = t[5] + c /\ t[7] = t[6] + b /\ t[8] = t[7] + i
        /\ t[9] = t[8] + c /\ t[10] = t[9] + c /\ t[11] = t[10] + b
    BY <1>4, <1>9, <1>10, <2>1
  <2>3. /\ t[5] = t4 + c /\ t[6] = t4 + 2 * c /\ t[7] = t4 + 2 * c + b
    BY <1>9, <2>1, <2>2
  <2>4. /\ t[8] = t4 + 2 * c + b + i /\ t[9] = t4 + 3 * c + b + i
        /\ t[10] = t4 + 4 * c + b + i /\ t[11] = t4 + 4 * c + 2 * b + i
    BY <1>9, <2>1, <2>2, <2>3
  <2> QED BY <1>9, <1>13, <2>1, <2>3, <2>4
<1>15. /\ Number(bytes, p + 3, a) = tx.from /\ Number(bytes, p + 3 + a, a) = tx.to
       /\ Number(bytes, p + 3 + 2 * a, k) = o1.token /\ Number(bytes, p + 3 + 2 * a + k, k) = o2.token
  <2>1. /\ p + 3 = p + t[1 - 1] /\ p + 3 + a = p + t[2 - 1] /\ p + 3 + 2 * a = p + t[3 - 1]
        /\ p + 3 + 2 * a + k = p + t[4 - 1]
    BY <1>12
  <2>2. Number(bytes, p + 3, f[1][2]) = f[1][1]  BY <1>11, <2>1
  <2>3. Number(bytes, p + 3 + a, f[2][2]) = f[2][1]  BY <1>11, <2>1
  <2>4. Number(bytes, p + 3 + 2 * a, f[3][2]) = f[3][1]  BY <1>11, <2>1
  <2>5. Number(bytes, p + 3 + 2 * a + k, f[4][2]) = f[4][1]  BY <1>11, <2>1
  <2> QED BY <1>4, <1>9, <2>2, <2>3, <2>4, <2>5
<1>16. DecodedOrder(bytes, u) = [sell |-> o1.sell, buy |-> o1.buy, pos |-> o1.pos, id |-> o1.id]
  <2>1. /\ u = p + t[5 - 1] /\ u + c = p + t[6 - 1] /\ u + 2 * c = p + t[7 - 1]
        /\ u + 2 * c + b = p + t[8 - 1]
    BY <1>13, <1>14
  <2>2. Number(bytes, u, f[5][2]) = f[5][1]  BY <1>11, <2>1
  <2>3. Number(bytes, u + c, f[6][2]) = f[6][1]  BY <1>11, <2>1
  <2>4. Number(bytes, u + 2 * c, f[7][2]) = f[7][1]  BY <1>11, <2>1
  <2>5. Number(bytes, u + 2 * c + b, f[8][2]) = f[8][1]  BY <1>11, <2>1
  <2> QED BY <1>2, <1>4, <1>9, <2>2, <2>3, <2>4, <2>5, OrderReads
<1>17. DecodedOrder(bytes, w) = [sell |-> o2.sell, buy |-> o2.buy, pos |-> o2.pos, id |-> o2.id]
  <2>1. /\ w = p + t[9 - 1] /\ w + c = p + t[10 - 1] /\ w + 2 * c = p + t[11 - 1]
        /\ w + 2 * c + b = p + t[12 - 1]
    BY <1>13, <1>14
  <2>2. Number(bytes, w, f[9][2]) = f[9][1]  BY <1>11, <2>1
  <2>3. Number(bytes, w + c, f[10][2]) = f[10][1]  BY <1>11, <2>1
  <2>4. Number(bytes, w + 2 * c, f[11][2]) = f[11][1]  BY <1>11, <2>1
  <2>5. Number(bytes, w + 2 * c + b, f[12][2]) = f[12][1]  BY <1>11, <2>1
  <2> QED BY <1>2, <1>4, <1>9, <2>2, <2>3, <2>4, <2>5, OrderReads
<1>18. /\ ((head \div 2) % 2 = 1) <=> (o1.filledBuy = o1.buy \/ o1.filledSell = o1.sell)
       /\ (head \div 4 = 1) <=> (o2.filledBuy = o2.buy \/ o2.filledSell = o2.sell)
       /\ head \in {2, 4, 6}
  <2>1. Filled(o1) <=> (o1.filledBuy = o1.buy \/ o1.filledSell = o1.sell)  BY <1>2, OrderFits
  <2>2. Filled(o2) <=> (o2.filledBuy = o2.buy \/ o2.filledSell = o2.sell)  BY <1>2, OrderFits
  <2>3. PICK x, y : x = (IF Filled(o1) THEN 2 ELSE 0) /\ y = (IF Filled(o2) THEN 4 ELSE 0)
    OBVIOUS
  <2>4. head = x + y /\ head # 0  BY <1>1, <1>2, <1>7, <2>3 DEF Header
  <2>5. /\ x \in {0, 2} /\ y \in {0, 4} /\ (x = 2 <=> Filled(o1)) /\ (y = 4 <=> Filled(o2))
    BY <2>3
  <2>6. ((head \div 2) % 2 = 1 <=> x = 2) /\ (head \div 4 = 1 <=> y = 4) /\ head \in {2, 4, 6}
    BY ONLY <2>4, <2>5
  <2> QED BY <2>1, <2>2, <2>5, <2>6
<1>19. PICK x \in BOOLEAN, y \in BOOLEAN :
         /\ x = (o1.filledBuy = o1.buy \/ o1.filledSell = o1.sell) /\ x = ((head \div 2) % 2 = 1)
         /\ y = (o2.filledBuy = o2.buy \/ o2.filledSell = o2.sell) /\ y = (head \div 4 = 1)
  BY <1>18
<1> DEFINE trade == [type |-> "trade", tokens |-> <<o1.token, o2.token>>,
                     orders |-> <<[sell |-> o1.sell, buy |-> o1.buy, pos |-> o1.pos, id |-> o1.id],
                                  [sell |-> o2.sell, buy |-> o2.buy, pos |-> o2.pos, id |-> o2.id]>>,
                     filled |-> <<x, y>>]
<1>20. DecodedTrade(bytes, p + 3, head) = trade
  <2>1. /\ p + 3 + 2 * AccountBits + 2 * TokenBits = u
        /\ p + 3 + 2 * AccountBits + 2 * TokenBits + 2 * FloatBits + OrderBits + OrderIdBits = w
    BY <1>9, <1>13
  <2>2. /\ Number(bytes, p + 3 + 2 * AccountBits, TokenBits) = o1.token
        /\ Number(bytes, p + 3 + 2 * AccountBits + TokenBits, TokenBits) = o2.token
    BY <1>9, <1>15
  <2>3. DecodedTrade(bytes, p + 3, head)
          = [type |-> "trade", tokens |-> <<o1.token, o2.token>>,
             orders |-> <<DecodedOrder(bytes, u), DecodedOrder(bytes, w)>>,
             filled |-> <<(head \div 2) % 2 = 1, head \div 4 = 1>>]
    BY Zenon, <2>1, <2>2 DEF DecodedTrade
  <2> QED BY Zenon, <1>16, <1>17, <1>19, <2>3
<1>21. Decoded(bytes, n) = <<tx.from, tx.to, DecodedTrade(bytes, p + 3, head)>>
  <2>1. Number(bytes, p, 3) = head  BY <1>7, <1>9 DEF HeadBits
  <2>2. Number(bytes, p + 3, AccountBits) = tx.from /\ Number(bytes, p + 3 + AccountBits, AccountBits) = tx.to
    BY <1>9, <1>15
  <2>3. head # 1 /\ head # 0 /\ ~(head = 4 /\ tx.from = tx.to)  BY <1>2, <1>18
  <2> QED BY <1>9, <2>1, <2>2, <2>3 DEF Decoded, HeadBits
<1>22. Published(tx) = <<tx.from, tx.to, trade>>
  BY <1>1, <1>19, Zenon DEF Published
<1> QED BY <1>20, <1>21, <1>22

\* Whatever a transaction is, a reader of its record gets what it publishes.
LEMMA RecordReads ==
  ASSUME NEW tx \in Txs, EncodeCheck(New, tx) = "none", NEW bytes, NEW n \in Nat, RecordAt(bytes, n, tx)
  PROVE  Decoded(bytes, n) = Published(tx)
<1>1. tx.type \in {"key", "deposit", "transfer", "withdraw", "trade", "nop"}
  BY TxsAssumption
<1> QED BY <1>1, ReadsKey, ReadsCommon, ReadsTrade, ReadsNop
-----------------------------------------------------------------------------
(* The inductive invariant: what is encoded is the records of transactions  *)
(* that were accepted, one behind the other, and so is what is finished; a   *)
(* panic names what its transaction alone is refused for.                   *)

Recorded(bytes, txs) ==
  \A n \in 1 .. Len(txs) : SubSeq(bytes, (n - 1) * Record + 1, n * Record) = Bytes(txs[n])

\* what is encoded was not refused
Accepted(txs) == \A n \in 1 .. Len(txs) : EncodeCheck(New, txs[n]) = "none"

EncoderInv ==
  /\ Between(encoder)
  /\ encoded \in Seq(Txs) /\ Len(encoded) <= NTx
  /\ TotalBits(encoder) = Len(encoded) * DataBits
  /\ Recorded(encoder.encoding_buf, encoded) /\ Accepted(encoded)

BlockInv ==
  /\ block.txs \in Seq(Txs) /\ block.public_data \in Seq(Byte)
  /\ block # NoBlock => Len(block.txs) = NTx /\ Len(block.public_data) = NTx * Record
  /\ Recorded(block.public_data, block.txs) /\ Accepted(block.txs)

PanicInv ==
  panic.why = "none" \/ (panic.tx \in Txs /\ panic.why = EncodeCheck(New, panic.tx))

IInv == EncoderInv /\ BlockInv /\ PanicInv

LEMMA RecordedAppend ==
  ASSUME NEW bytes \in Seq(Byte), NEW txs \in Seq(Txs), Len(bytes) = Len(txs) * Record,
         Recorded(bytes, txs), NEW tx \in Txs
  PROVE  Recorded(bytes \o Bytes(tx), Append(txs, tx))
<1>1. PICK r \in Nat \ {0} : r = Record
  BY DataBitsResult
<1>2. PICK k \in Nat : k = Len(txs)
  OBVIOUS
<1>3. PICK b \in Seq(Byte) : b = Bytes(tx) /\ Len(b) = r
  BY <1>1, RecordResult
<1>4. Len(bytes) = k * r
  BY <1>1, <1>2
<1>5. Len(Append(txs, tx)) = k + 1
  BY <1>2
<1>6. SUFFICES ASSUME NEW n \in 1 .. k + 1
               PROVE  SubSeq(bytes \o b, (n - 1) * r + 1, n * r) = Bytes(Append(txs, tx)[n])
  BY <1>1, <1>3, <1>5 DEF Recorded
<1>7. CASE n = k + 1
  <2>1. Append(txs, tx)[n] = tx
    BY <1>2, <1>7
  <2>2. PICK x \in Nat : x = k * r
    BY <1>1
  <2>3. (n - 1) * r + 1 = x + 1 /\ n * r = x + r
    BY <1>1, <1>7, <2>2
  <2>4. SubSeq(bytes \o b, x + 1, x + r) = SubSeq(b, 1, r)
    <3>1. x + 1 \in Len(bytes) + 1 .. Len(bytes) + Len(b) /\ x + r \in Len(bytes) + 1 .. Len(bytes) + Len(b)
      BY <1>1, <1>3, <1>4, <2>2
    <3>2. SubSeq(bytes \o b, x + 1, x + r) = SubSeq(b, x + 1 - Len(bytes), x + r - Len(bytes))
      BY ONLY <3>1, bytes \in Seq(Byte), b \in Seq(Byte), SubSeqOfConcat2
    <3>3. x + 1 - Len(bytes) = 1 /\ x + r - Len(bytes) = r
      BY <1>1, <1>4, <2>2
    <3> QED BY <3>2, <3>3
  <2>5. SubSeq(b, 1, r) = b
    BY <1>3, SubSeqFull
  <2> QED BY <1>3, <2>1, <2>3, <2>4, <2>5
<1>8. CASE n # k + 1
  <2>1. n \in 1 .. k
    BY <1>8
  <2>2. Append(txs, tx)[n] = txs[n]
    BY <1>2, <2>1
  <2>3. SubSeq(bytes, (n - 1) * r + 1, n * r) = Bytes(txs[n])
    BY <1>1, <1>2, <2>1 DEF Recorded
  <2>4. (n - 1) * r + 1 \in 1 .. Len(bytes) /\ n * r \in 1 .. Len(bytes)
    <3>1. /\ (n - 1) * r \in Nat /\ n * r \in Nat /\ n * r = (n - 1) * r + r
          /\ n * r <= k * r
      <4>1. n - 1 \in Nat /\ k - n \in Nat  BY <2>1
      <4>2. (n - 1) * r \in Nat /\ (k - n) * r \in Nat  BY <1>1, <4>1
      <4>3. n * r = (n - 1) * r + r /\ k * r = n * r + (k - n) * r  BY <1>1, <2>1
      <4> QED BY <1>1, <2>1, <4>2, <4>3
    <3>2. k * r \in Nat
      BY <1>1
    <3>3. PICK p \in Nat, q \in Nat, m \in Nat : p = (n - 1) * r /\ q = n * r /\ m = k * r
      BY <3>1, <3>2
    <3>4. r > 0 /\ q = p + r /\ q <= m
      BY <1>1, <3>1, <3>3
    <3>5. p + 1 \in 1 .. m /\ q \in 1 .. m
      BY <3>3, <3>4
    <3> QED BY <1>4, <3>3, <3>5
  <2>5. SubSeq(bytes \o b, (n - 1) * r + 1, n * r) = SubSeq(bytes, (n - 1) * r + 1, n * r)
    BY <2>4, SubSeqOfConcat1
  <2> QED BY <2>2, <2>3, <2>5
<1> QED BY <1>7, <1>8

\* Where the last record ended makes no difference to encode_rawtx_to_pubdata.
LEMMA CheckNew ==
  ASSUME NEW enc, NEW k \in Nat, TotalBits(enc) = k * DataBits, NEW tx
  PROVE  Aligned(enc, DataBits) /\ EncodeCheck(enc, tx) = EncodeCheck(New, tx)
<1>1. PICK d \in Nat : d = DataBits /\ d > 0
  BY DataBitsResult
<1>2. Aligned(enc, DataBits)
  <2>1. (k * d + 0) % d = 0 /\ k * d \in Nat
    BY <1>1, Remainder
  <2> QED BY <1>1, <2>1 DEF Aligned
<1>3. Aligned(New, DataBits)
  <2>1. (0 * d + 0) % d = 0 /\ 0 * d + 0 = 0
    BY <1>1, Remainder
  <2> QED BY <1>1, <2>1, NewResult DEF Aligned
<1> QED BY <1>2, <1>3 DEF EncodeCheck

LEMMA NotMisaligned ==
  ASSUME NEW tx
  PROVE  EncodeCheck(New, tx) # "not align"
<1>1. 0 \in Nat /\ TotalBits(New) = 0 * DataBits
  BY NewResult, DataBitsResult
<1>2. Aligned(New, DataBits)
  BY <1>1, CheckNew
<1> QED BY <1>2 DEF EncodeCheck

LEMMA InitInv == Init => IInv
<1> SUFFICES ASSUME Init PROVE IInv
  OBVIOUS
<1>1. NTx \in Nat /\ DataBits \in Nat
  BY Widths, DataBitsResult
<1>2. <<>> \in Seq(Txs) /\ Len(<<>>) = 0 /\ Len(<<>>) * DataBits = 0
  BY <1>1
<1>3. (\A bytes : Recorded(bytes, <<>>)) /\ Accepted(<<>>) /\ <<>> \in Seq(Byte)
  BY DEF Recorded, Accepted
<1>4. EncoderInv
  BY <1>1, <1>2, <1>3, NewResult DEF Init, EncoderInv
<1>5. BlockInv
  BY <1>2, <1>3 DEF Init, BlockInv, NoBlock
<1>6. PanicInv
  BY DEF Init, PanicInv, NoPanic
<1> QED
  BY <1>4, <1>5, <1>6 DEF IInv

LEMMA EncodeInv ==
  ASSUME IInv, NEW tx \in Txs, Encode(tx)
  PROVE  IInv'
<1>1. EncoderInv /\ BlockInv /\ PanicInv
  BY DEF IInv
<1>2. Len(encoded) \in Nat /\ Len(encoded) < NTx /\ NTx \in Nat /\ block' = block
  BY <1>1, Widths DEF EncoderInv, Encode
<1>3. PICK k \in Nat : k = Len(encoded)
  BY <1>2
<1>4. BlockInv'
  BY <1>1, <1>2 DEF BlockInv, Recorded, Accepted
<1>5. CASE EncodeCheck(encoder, tx) = "none"
  <2>1. encoder' = EncodeTx(encoder, tx) /\ encoded' = Append(encoded, tx) /\ panic' = panic
    BY <1>5 DEF Encode
  <2>2. PICK enc : enc = encoder
    OBVIOUS
  <2>3. Between(enc) /\ TotalBits(enc) = k * DataBits
    BY <1>1, <1>3, <2>2 DEF EncoderInv
  <2>4. /\ Between(EncodeTx(enc, tx)) /\ TotalBits(EncodeTx(enc, tx)) = (k + 1) * DataBits
        /\ Len(enc.encoding_buf) = k * Record
        /\ EncodeTx(enc, tx).encoding_buf = enc.encoding_buf \o Bytes(tx)
    BY <2>3, EncodeTxAppends
  <2>5. enc.encoding_buf \in Seq(Byte) /\ encoded \in Seq(Txs) /\ Recorded(enc.encoding_buf, encoded)
    BY <1>1, <2>2, <2>3 DEF EncoderInv, Between, Contexts
  <2>6. Recorded(enc.encoding_buf \o Bytes(tx), Append(encoded, tx))
    BY <1>3, <2>4, <2>5, RecordedAppend
  <2>7. Append(encoded, tx) \in Seq(Txs) /\ Len(Append(encoded, tx)) = k + 1 /\ k + 1 <= NTx
    BY <1>2, <1>3, <2>5
  <2>10. Accepted(Append(encoded, tx))
    <3>1. EncodeCheck(New, tx) = "none"
      BY <1>5, <2>2, <2>3, CheckNew
    <3>2. \A n \in 1 .. k + 1 : n # k + 1 => n \in 1 .. k
      OBVIOUS
    <3>3. \A n \in 1 .. k : Append(encoded, tx)[n] = encoded[n]
      BY <1>3, <2>5
    <3>4. Append(encoded, tx)[k + 1] = tx
      BY <1>3, <2>5
    <3>5. \A n \in 1 .. k : EncodeCheck(New, encoded[n]) = "none"
      BY <1>1, <1>3 DEF EncoderInv, Accepted
    <3> QED BY <2>7, <3>1, <3>2, <3>3, <3>4, <3>5 DEF Accepted
  <2>8. EncoderInv'
    BY <2>1, <2>2, <2>4, <2>6, <2>7, <2>10 DEF EncoderInv
  <2>9. PanicInv'
    BY <1>1, <2>1 DEF PanicInv
  <2> QED BY <1>4, <2>8, <2>9 DEF IInv
<1>6. CASE EncodeCheck(encoder, tx) # "none"
  <2>1. panic' = [why |-> EncodeCheck(encoder, tx), tx |-> tx] /\ encoder' = encoder /\ encoded' = encoded
    BY <1>6 DEF Encode
  <2>2. EncodeCheck(encoder, tx) = EncodeCheck(New, tx)
    <3>1. PICK enc : enc = encoder /\ TotalBits(enc) = k * DataBits
      BY <1>1, <1>3 DEF EncoderInv
    <3> QED BY <3>1, CheckNew
  <2>4. PanicInv'
    BY <2>1, <2>2 DEF PanicInv
  <2>5. EncoderInv'
    BY <1>1, <2>1 DEF EncoderInv, Recorded, Accepted
  <2> QED BY <1>4, <2>4, <2>5 DEF IInv
<1> QED BY <1>5, <1>6

LEMMA FinishInv ==
  ASSUME IInv, Finish
  PROVE  IInv'
<1>1. EncoderInv /\ PanicInv
  BY DEF IInv
<1>2. /\ Len(encoded) = NTx /\ encoder' = New /\ encoded' = <<>> /\ panic' = panic
      /\ block' = [txs |-> encoded, public_data |-> Seal(encoder)]
  BY DEF Finish
<1>3. NTx \in Nat /\ DataBits \in Nat
  BY Widths, DataBitsResult
<1>4. <<>> \in Seq(Txs) /\ Len(<<>>) = 0 /\ Len(<<>>) * DataBits = 0
  BY <1>3
<1>5. (\A bytes : Recorded(bytes, <<>>)) /\ Accepted(<<>>)
  BY DEF Recorded, Accepted
<1>6. EncoderInv'
  BY <1>2, <1>3, <1>4, <1>5, NewResult DEF EncoderInv
<1>7. BlockInv'
  <2>1. PICK r \in Nat, d \in Nat, k \in Nat : r = Record /\ d = DataBits /\ k = NTx /\ d = 8 * r
    BY <1>3, DataBitsResult
  <2>2. k * d = 8 * (k * r) /\ k * r \in Nat
    BY <2>1
  <2>3. PICK enc : enc = encoder
    OBVIOUS
  <2>4. Between(enc) /\ TotalBits(enc) = 8 * (k * r) /\ Recorded(enc.encoding_buf, encoded)
    BY <1>1, <1>2, <2>1, <2>2, <2>3 DEF EncoderInv
  <2>5. Seal(enc) = enc.encoding_buf /\ Len(enc.encoding_buf) = k * r /\ enc.encoding_buf \in Seq(Byte)
    BY <2>2, <2>4, WholeBytes
  <2>6. encoded \in Seq(Txs) /\ Accepted(encoded)
    BY <1>1 DEF EncoderInv
  <2>7. block'.txs = encoded /\ block'.public_data = enc.encoding_buf
    BY <1>2, <2>3, <2>5
  <2> QED BY <1>2, <2>1, <2>4, <2>5, <2>6, <2>7 DEF BlockInv
<1>8. PanicInv'
  BY <1>1, <1>2 DEF PanicInv
<1> QED BY <1>6, <1>7, <1>8 DEF IInv

LEMMA ReturnInv ==
  ASSUME IInv, Return
  PROVE  IInv'
<1>1. EncoderInv /\ PanicInv
  BY DEF IInv
<1>2. block' = NoBlock /\ encoder' = encoder /\ encoded' = encoded /\ panic' = panic
  BY DEF Return
<1>3. EncoderInv' /\ PanicInv'
  BY <1>1, <1>2 DEF EncoderInv, PanicInv, Recorded, Accepted
<1>4. /\ NoBlock.txs = <<>> /\ <<>> \in Seq(Txs) /\ Accepted(<<>>)
      /\ NoBlock.public_data = <<>> /\ <<>> \in Seq(Byte)
      /\ \A bytes : Recorded(bytes, <<>>)
  BY DEF NoBlock, Recorded, Accepted
<1>5. BlockInv'
  BY <1>2, <1>4 DEF BlockInv
<1> QED BY <1>3, <1>5 DEF IInv

LEMMA StutterInv ==
  ASSUME IInv, UNCHANGED vars
  PROVE  IInv'
BY DEF IInv, EncoderInv, BlockInv, PanicInv, Recorded, Accepted, vars

LEMMA NextInv == IInv /\ [Next]_vars => IInv'
BY EncodeInv, FinishInv, ReturnInv, StutterInv DEF Next

LEMMA InductiveInv == Spec => []IInv
BY InitInv, NextInv, PTL DEF Spec

-----------------------------------------------------------------------------
(* Theorems. *)

LEMMA TypeOKFollows == IInv => TypeOK
<1> SUFFICES ASSUME IInv PROVE TypeOK
  OBVIOUS
<1>1. EncoderInv /\ PanicInv
  BY DEF IInv
<1>2. Between(encoder)
  BY <1>1 DEF EncoderInv
<1>3. PICK buf : buf = encoder.encoding_buf
  OBVIOUS
<1>4. buf \in Seq(Byte) /\ encoder.applying_bit \in 0 .. 7 /\ encoder.encoding_char \in Byte
  BY <1>2, <1>3 DEF Between, Contexts
<1>5. \A i \in DOMAIN buf : buf[i] \in Byte
  BY <1>4
<1>6. encoder.encoding_char % (2 * mask[encoder.applying_bit + 1]) = 0
  BY <1>2 DEF Between
<1>7. encoded \in Seq(Txs) /\ Len(encoded) <= NTx /\ TotalBits(encoder) = Len(encoded) * DataBits
  BY <1>1 DEF EncoderInv
<1>8. panic.why \in {"none", "too big to compress", "no order filled", "not align", "can not encode number"}
  BY <1>1 DEF PanicInv, EncodeCheck
<1> QED
  BY <1>3, <1>4, <1>5, <1>6, <1>7, <1>8 DEF TypeOK, Byte

\* A record of a block is what encode_pubdata writes of its transaction, alone in a new
\* encoder.
LEMMA EncodersAgreeFollows == IInv => EncodersAgree
<1> SUFFICES ASSUME IInv, NEW n \in DOMAIN block.txs,
                    block.txs[n].type = "trade" =>
                      \A o \in {block.txs[n].order1, block.txs[n].order2} : Filled(o) = IsFilled(o)
             PROVE  SubSeq(block.public_data, (n - 1) * (DataBits \div 8) + 1, n * (DataBits \div 8))
                      = TypedEncoded(block.txs[n])
  BY DEF EncodersAgree
<1>1. PICK txs \in Seq(Txs) : txs = block.txs /\ Recorded(block.public_data, txs)
  BY DEF IInv, BlockInv
<1>2. n \in 1 .. Len(txs)
  BY <1>1
<1>3. txs[n] \in Txs
  BY <1>2
<1>4. SubSeq(block.public_data, (n - 1) * Record + 1, n * Record) = Bytes(txs[n])
  BY <1>1, <1>2 DEF Recorded
<1>5. TypedEncoded(txs[n]) = Bytes(txs[n])
  BY <1>1, <1>3, TypedEncodedResult
<1> QED
  BY <1>1, <1>4, <1>5 DEF Record

\* Every record of a block is read back as what its transaction publishes.
LEMMA DecodesBackFollows == IInv => DecodesBack
<1> SUFFICES ASSUME IInv, block # NoBlock
             PROVE  /\ Len(block.public_data) * 8 = NTx * DataBits
                    /\ \A n \in 1 .. NTx : Decoded(block.public_data, n - 1) = Published(block.txs[n])
  BY DEF DecodesBack
<1>1. PICK bytes, txs : bytes = block.public_data /\ txs = block.txs
  OBVIOUS
<1>2. /\ bytes \in Seq(Byte) /\ txs \in Seq(Txs) /\ Len(txs) = NTx /\ Len(bytes) = NTx * Record
      /\ Recorded(bytes, txs) /\ Accepted(txs)
  BY <1>1 DEF IInv, BlockInv
<1>3. PICK r \in Nat, d \in Nat, k \in Nat : r = Record /\ d = DataBits /\ k = NTx /\ d = 8 * r
  BY Widths, DataBitsResult
<1>4. Len(bytes) * 8 = NTx * DataBits
  <2>1. k * d = 8 * (k * r) /\ k * r \in Nat  BY <1>3
  <2> QED BY <1>2, <1>3, <2>1
<1>5. ASSUME NEW n \in 1 .. NTx PROVE Decoded(bytes, n - 1) = Published(txs[n])
  <2>1. n \in 1 .. Len(txs) /\ n \in 1 .. k  BY <1>2, <1>3
  <2>2. txs[n] \in Txs  BY <1>2, <2>1
  <2>3. EncodeCheck(New, txs[n]) = "none"  BY <1>2, <2>1 DEF Accepted
  <2>4. SubSeq(bytes, (n - 1) * Record + 1, n * Record) = Bytes(txs[n])  BY <1>2, <2>1 DEF Recorded
  <2>5. PICK m \in Nat : m = n - 1 /\ m + 1 = n  BY <2>1
  <2>6. (m + 1) * Record <= Len(bytes)
    <3>1. PICK j \in Nat : k = n + j
      <4>1. k - n \in Nat /\ k = n + (k - n)  BY <2>1
      <4> QED BY <4>1
    <3>2. k * r = n * r + j * r /\ j * r \in Nat /\ n * r \in Nat  BY <1>3, <2>1, <3>1
    <3> QED BY <1>2, <1>3, <2>5, <3>2
  <2>7. RecordAt(bytes, m, txs[n])  BY <1>2, <2>4, <2>5, <2>6 DEF RecordAt
  <2>8. Decoded(bytes, m) = Published(txs[n])  BY <2>2, <2>3, <2>7, RecordReads
  <2> QED BY <2>5, <2>8
<1> QED BY <1>1, <1>4, <1>5

\* What encode_rawtx_to_pubdata refuses a transaction for.
LEMMA RefusedTooBig ==
  ASSUME NEW tx \in Txs, EncodeCheck(New, tx) = "too big to compress"
  PROVE  \E o \in {tx.order1, tx.order2} : \E x \in {o.sell, o.buy} :
           \A sig \in 0 .. Pow(2, SigBits) - 1, e \in 0 .. Pow(2, ExpBits) - 1 :
             sig % 10 # 0 => sig * Pow(10, e) # x
<1>1. /\ tx.type = "trade"
      /\ \E o \in {tx.order1, tx.order2} : ~Compressible(o.sell) \/ ~Compressible(o.buy)
  BY DEF EncodeCheck
<1>2. PICK o \in {tx.order1, tx.order2} : ~Compressible(o.sell) \/ ~Compressible(o.buy)
  BY <1>1
<1>3. PICK x \in {o.sell, o.buy} : ~Compressible(x)
  BY <1>2
<1>4. x \in Nat
  <2>1. IsOrder(tx.order1) /\ IsOrder(tx.order2)  BY <1>1, TxsAssumption
  <2>2. IsOrder(o)  BY <1>2, <2>1
  <2> QED BY <1>3, <2>2 DEF IsOrder
<1>5. \A sig \in 0 .. Pow(2, SigBits) - 1, e \in 0 .. Pow(2, ExpBits) - 1 :
        sig % 10 # 0 => sig * Pow(10, e) # x
  BY <1>3, <1>4, IncompressibleResult
<1> QED BY <1>2, <1>3, <1>5

LEMMA RefusedUnfilled ==
  ASSUME NEW tx \in Txs, EncodeCheck(New, tx) = "no order filled"
  PROVE  \A o \in {tx.order1, tx.order2} : o.filledBuy # o.buy /\ o.filledSell # o.sell
<1>1. /\ tx.type = "trade" /\ Header(tx) = 0
      /\ \A o \in {tx.order1, tx.order2} : Compressible(o.sell) /\ Compressible(o.buy)
  BY DEF EncodeCheck
<1>2. IsOrder(tx.order1) /\ IsOrder(tx.order2)
  BY <1>1, TxsAssumption
<1>3. ~Filled(tx.order1) /\ ~Filled(tx.order2)
  <2>1. Header(tx) = (IF Filled(tx.order1) THEN 2 ELSE 0) + (IF Filled(tx.order2) THEN 4 ELSE 0)
    BY <1>1 DEF Header
  <2>2. PICK x \in {0, 2}, y \in {0, 4} :
          x = (IF Filled(tx.order1) THEN 2 ELSE 0) /\ y = (IF Filled(tx.order2) THEN 4 ELSE 0)
    OBVIOUS
  <2>3. x + y = 0  BY <1>1, <2>1, <2>2
  <2>4. x = 0 /\ y = 0  BY ONLY <2>2, <2>3
  <2> QED BY ONLY <2>2, <2>4
<1> SUFFICES ASSUME NEW o \in {tx.order1, tx.order2}
             PROVE  ~(o.filledBuy = o.buy \/ o.filledSell = o.sell)
  OBVIOUS
<1>4. IsOrder(o) /\ Compressible(o.sell) /\ Compressible(o.buy) /\ ~Filled(o)
  BY <1>1, <1>2, <1>3
<1> QED BY <1>4, OrderFits

LEMMA RefusedTooWide ==
  ASSUME NEW tx \in Txs, EncodeCheck(New, tx) = "can not encode number"
  PROVE  tx.type \in {"deposit", "transfer", "withdraw"} /\ ~Fits(tx.amount, AmountBits)
<1>1. /\ tx.type = "trade" =>
           \A o \in {tx.order1, tx.order2} : Compressible(o.sell) /\ Compressible(o.buy)
      /\ \E i \in DOMAIN Fields(tx) \ Cut(tx) : ~Fits(Fields(tx)[i][1], Fields(tx)[i][2])
  BY DEF EncodeCheck
<1>2. PICK i \in DOMAIN Fields(tx) : ~Fits(Fields(tx)[i][1], Fields(tx)[i][2])
  BY <1>1
<1>3. PICK f : f = Fields(tx)
  OBVIOUS
<1>4. tx.type \in {"key", "deposit", "transfer", "withdraw", "trade", "nop"}
  BY TxsAssumption
<1>5. CASE tx.type = "key"
  <2>1. f = <<<<tx.from, AccountBits>>, <<tx.sign, 1>>, <<tx.ay, KeyBits>>>>
    BY <1>3, <1>5 DEF Fields
  <2>2. Fits(tx.from, AccountBits) /\ Fits(tx.sign, 1) /\ Fits(tx.ay, KeyBits)
    BY <1>5, TxsAssumption DEF Within
  <2>3. DOMAIN f = 1 .. 3  BY ONLY <2>1
  <2>4. i = 1 \/ i = 2 \/ i = 3  BY ONLY <1>2, <1>3, <2>3
  <2>5. Fits(f[1][1], f[1][2]) /\ Fits(f[2][1], f[2][2]) /\ Fits(f[3][1], f[3][2])
    BY <2>1, <2>2
  <2> QED BY <1>2, <1>3, <2>4, <2>5
<1>6. CASE tx.type = "nop"
  <2>1. f = <<>>  BY <1>3, <1>6 DEF Fields
  <2>2. DOMAIN f = {}  BY ONLY <2>1
  <2> QED BY <1>2, <1>3, <2>2
<1>7. CASE tx.type = "trade"
  <2>1. f = TradeFields(tx)  BY <1>3, <1>7 DEF Fields, TradeFields
  <2>2. Len(f) = 12  BY <2>1, TradeShape
  <2>3. DOMAIN f = 1 .. 12  BY ONLY <2>1 DEF TradeFields, OrderFields
  <2>4. \A j \in 1 .. 12 : Fits(f[j][1], f[j][2])
    BY <1>1, <1>7, <2>1, TradeFits
  <2> QED BY <1>2, <1>3, <2>3, <2>4
<1>8. CASE tx.type \in {"deposit", "transfer", "withdraw"}
  <2>1. f = <<<<tx.from, AccountBits>>, <<tx.to, AccountBits>>,
              <<tx.token, TokenBits>>, <<tx.amount, AmountBits>>>>
    BY <1>3, <1>8 DEF Fields
  <2>2. Fits(tx.from, AccountBits) /\ Fits(tx.to, AccountBits) /\ Fits(tx.token, TokenBits)
    BY <1>8, TxsAssumption DEF Within
  <2>3. DOMAIN f = 1 .. 4  BY ONLY <2>1
  <2>4. i = 1 \/ i = 2 \/ i = 3 \/ i = 4  BY ONLY <1>2, <1>3, <2>3
  <2>5. /\ Fits(f[1][1], f[1][2]) /\ Fits(f[2][1], f[2][2]) /\ Fits(f[3][1], f[3][2])
        /\ f[4][1] = tx.amount /\ f[4][2] = AmountBits
    BY <2>1, <2>2
  <2>6. i = 4  BY <1>2, <1>3, <2>4, <2>5
  <2> QED BY <1>2, <1>3, <1>8, <2>5, <2>6
<1> QED BY <1>4, <1>5, <1>6, <1>7, <1>8

LEMMA EncodingStopsFollows == IInv => EncodingStops
<1> SUFFICES ASSUME IInv PROVE EncodingStops
  OBVIOUS
<1>1. CASE panic.why = "none"
  BY <1>1 DEF EncodingStops
<1>2. CASE panic.why # "none"
  <2>1. PICK tx \in Txs : tx = panic.tx /\ panic.why = EncodeCheck(New, tx)
    BY <1>2 DEF IInv, PanicInv
  <2>2. EncodeCheck(New, tx) \in {"too big to compress", "no order filled", "can not encode number"}
    <3>1. EncodeCheck(New, tx) # "not align"  BY NotMisaligned
    <3> QED BY <1>2, <2>1, <3>1 DEF EncodeCheck
  <2>3. CASE EncodeCheck(New, tx) = "too big to compress"
    <3>1. \E o \in {tx.order1, tx.order2} : \E x \in {o.sell, o.buy} :
            \A sig \in 0 .. Pow(2, SigBits) - 1, e \in 0 .. Pow(2, ExpBits) - 1 :
              sig % 10 # 0 => sig * Pow(10, e) # x
      BY <2>3, RefusedTooBig
    <3> QED BY <2>1, <2>3, <3>1 DEF EncodingStops
  <2>4. CASE EncodeCheck(New, tx) = "no order filled"
    <3>1. \A o \in {tx.order1, tx.order2} : o.filledBuy # o.buy /\ o.filledSell # o.sell
      BY <2>4, RefusedUnfilled
    <3> QED BY <2>1, <2>4, <3>1 DEF EncodingStops
  <2>5. CASE EncodeCheck(New, tx) = "can not encode number"
    <3>1. tx.type \in {"deposit", "transfer", "withdraw"} /\ ~Fits(tx.amount, AmountBits)
      BY <2>5, RefusedTooWide
    <3> QED BY <2>1, <2>5, <3>1 DEF EncodingStops
  <2> QED BY <2>2, <2>3, <2>4, <2>5
<1> QED BY <1>1, <1>2

\* After every step of forge_with_txs the context holds one record of DataBits bits for
\* each transaction encoded, and the byte being filled has room for the next bit, for any
\* widths of the fields: apply_bit never carries, and padding ends where a record does.
THEOREM TypeCorrect == Spec => []TypeOK
BY InductiveInv, TypeOKFollows, PTL

\* encode_rawtx_to_pubdata and encode_pubdata, which are written apart, write the same
\* bytes for a transaction, wherever in the block it is and whatever its fields are, when
\* the two agree on which orders of a trade are filled.
THEOREM EncodersStayEqual == Spec => []EncodersAgree
BY InductiveInv, EncodersAgreeFollows, PTL

\* The bytes of a block, and nothing else, tell its transactions, for any widths of the
\* fields and any number of transactions: a reader gets from each record of DataBits bits
\* what its transaction publishes, an order's amounts as they were before compress_fr and
\* which of the two orders are filled (encode_rawtx_to_pubdata, tx_encode.rs).
THEOREM BlocksDecodeBack == Spec => []DecodesBack
BY InductiveInv, DecodesBackFollows, PTL

\* encode_rawtx_to_pubdata stops the node for what the transaction itself is, and never for
\* another reason: an amount with no compressed form, a trade that fills no order, a deposit,
\* transfer or withdrawal of too large an amount; not for where the last record ended, and
\* not for a compressed amount, an account, a token, a position or a key that does not fit.
THEOREM EncodingStopsForItsTransaction == Spec => []EncodingStops
BY InductiveInv, EncodingStopsFollows, PTL

\* check_align never refuses a transaction: wherever the last record ended, the next begins
\* at a multiple of DataBits.
THEOREM NeverMisaligned == Spec => [](panic.why # "not align")
<1>1. IInv => panic.why # "not align"
  BY NotMisaligned DEF IInv, PanicInv
<1> QED
  BY <1>1, InductiveInv, PTL

\* The public data of a finished block has as many bytes as NTx records, whatever they are:
\* the length that a verifier of the hash relies on.
THEOREM PublicDataLength ==
  Spec => [](block # NoBlock => Len(block.public_data) * 8 = NTx * DataBits)
<1>1. IInv => (block # NoBlock => Len(block.public_data) * 8 = NTx * DataBits)
  <2> SUFFICES ASSUME IInv, block # NoBlock
               PROVE  Len(block.public_data) * 8 = NTx * DataBits
    OBVIOUS
  <2>1. Len(block.public_data) = NTx * Record
    BY DEF IInv, BlockInv
  <2>2. PICK r \in Nat, d \in Nat, k \in Nat : r = Record /\ d = DataBits /\ k = NTx /\ d = 8 * r
    BY Widths, DataBitsResult
  <2>3. k * d = 8 * (k * r) /\ k * r \in Nat
    BY <2>2
  <2> QED BY <2>1, <2>2, <2>3
<1> QED
  BY <1>1, InductiveInv, PTL

=============================================================================
