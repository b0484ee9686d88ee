----------------------------- MODULE WireProofs -----------------------------
(***************************************************************************)
(* Proofs about Wire: what one side writes is what the other side reads,   *)
(* for every width of IDs, names and keys, every request, every response   *)
(* of any number of rows and messages of any length, and every ID saved in *)
(* hexadecimal.                                                            *)
(***************************************************************************)
EXTENDS Wire, WellFoundedInduction, SequenceTheorems, TLAPS

-----------------------------------------------------------------------------
(* Sequences of bytes *)

LEMMA BytesAreSeqs == \A n \in Nat : \A b \in Bytes(n) : b \in Seq(Byte) /\ Len(b) = n
<1> SUFFICES ASSUME NEW n \in Nat, NEW b \in Bytes(n) PROVE b \in Seq(Byte) /\ Len(b) = n
  OBVIOUS
<1>1. b \in [1..n -> Byte]
  BY DEF Bytes
<1> QED
  BY <1>1

LEMMA Slice ==
  ASSUME NEW q \in Seq(Byte), NEW t \in Seq(Byte), NEW offset \in Nat, offset + Len(t) <= Len(q),
         \A i \in 1..Len(t) : q[offset + i] = t[i]
  PROVE  Field(q, offset, Len(t)) = t
<1> DEFINE f == Field(q, offset, Len(t))
<1>1. Len(t) \in Nat
  OBVIOUS
<1>2. f \in Seq(Byte) /\ Len(f) = Len(t) /\ \A i \in 1..Len(t) : f[i] = q[offset + i]
  BY <1>1 DEF Field
<1>3. f = t
  <2> HIDE DEF f
  <2> QED
    BY <1>2, SeqEqual
<1> QED
  BY <1>3

\* The bytes t are in q, from an offset on.
Part(q, offset, t) ==
  offset + Len(t) <= Len(q) /\ \A i \in 1..Len(t) : q[offset + i] = t[i]

LEMMA PartIsField ==
  ASSUME NEW q \in Seq(Byte), NEW t \in Seq(Byte), NEW offset \in Nat, Part(q, offset, t)
  PROVE  Field(q, offset, Len(t)) = t
BY Slice DEF Part

LEMMA PartOfPart ==
  ASSUME NEW q \in Seq(Byte), NEW p \in Seq(Byte), NEW t \in Seq(Byte),
         NEW offset \in Nat, NEW at \in Nat, Part(q, offset, p), Part(p, at, t)
  PROVE  Part(q, offset + at, t)
<1>1. offset + at + Len(t) <= Len(q)
  BY DEF Part
<1>2. ASSUME NEW i \in 1..Len(t) PROVE q[offset + at + i] = t[i]
  <2>1. at + i \in 1..Len(p) /\ p[at + i] = t[i] /\ offset + (at + i) = offset + at + i
    BY DEF Part
  <2> QED
    BY <2>1 DEF Part
<1> QED
  BY <1>1, <1>2 DEF Part

\* q is two, three, four or five sequences of bytes, one after the other.
Join(q, a, b) == a \in Seq(Byte) /\ b \in Seq(Byte) /\ q = a \o b
Join3(q, a, b, c) == {a, b, c} \subseteq Seq(Byte) /\ q = a \o b \o c
Join4(q, a, b, c, d) == {a, b, c, d} \subseteq Seq(Byte) /\ q = a \o b \o c \o d
Join5(q, a, b, c, d, e) == {a, b, c, d, e} \subseteq Seq(Byte) /\ q = a \o b \o c \o d \o e

LEMMA Joined ==
  ASSUME NEW q, NEW a, NEW b, Join(q, a, b)
  PROVE  /\ q \in Seq(Byte) /\ Len(q) = Len(a) + Len(b)
         /\ Part(q, 0, a) /\ Part(q, Len(a), b)
         /\ \A offset \in Nat : \A t \in Seq(Byte) : Part(a, offset, t) => Part(q, offset, t)
<1>0. a \in Seq(Byte) /\ b \in Seq(Byte) /\ q = a \o b
  BY DEF Join
<1>1. q \in Seq(Byte) /\ Len(q) = Len(a) + Len(b)
  BY <1>0
<1>2. \A i \in 1..Len(a) : q[i] = a[i]
  BY <1>0
<1>3. \A i \in 1..Len(b) : q[Len(a) + i] = b[i]
  BY <1>0
<1>4. Part(q, 0, a)
  BY <1>0, <1>1, <1>2 DEF Part
<1>5. Part(q, Len(a), b)
  BY <1>0, <1>1, <1>3 DEF Part
<1>6. ASSUME NEW offset \in Nat, NEW t \in Seq(Byte), Part(a, offset, t)
      PROVE  Part(q, offset, t)
  <2>1. \A i \in 1..Len(t) : offset + i \in 1..Len(a)
    BY <1>0, <1>6 DEF Part
  <2> QED
    BY <1>0, <1>1, <1>2, <1>6, <2>1 DEF Part
<1> QED
  BY <1>1, <1>4, <1>5, <1>6

LEMMA Joined3 ==
  ASSUME NEW q, NEW a, NEW b, NEW c,
         Join3(q, a, b, c)
  PROVE  /\ q \in Seq(Byte) /\ Len(q) = Len(a) + Len(b) + Len(c)
         /\ Part(q, 0, a) /\ Part(q, Len(a), b) /\ Part(q, Len(a) + Len(b), c)
<1> DEFINE p == a \o b
<1>1. Join(p, a, b) /\ Join(q, p, c)
  <2>1. a \in Seq(Byte) /\ b \in Seq(Byte) /\ c \in Seq(Byte)
    BY DEF Join3
  <2>2. p \in Seq(Byte)
    BY <2>1
  <2> QED
    BY <2>1, <2>2 DEF Join, Join3
<1> HIDE DEF p
<1>2. /\ p \in Seq(Byte) /\ Len(p) = Len(a) + Len(b)
      /\ Part(p, 0, a) /\ Part(p, Len(a), b)
  BY <1>1, Joined
<1>3. /\ q \in Seq(Byte) /\ Len(q) = Len(p) + Len(c) /\ Part(q, Len(p), c)
      /\ \A offset \in Nat : \A t \in Seq(Byte) : Part(p, offset, t) => Part(q, offset, t)
  BY <1>1, Joined
<1>4. /\ a \in Seq(Byte) /\ b \in Seq(Byte) /\ c \in Seq(Byte)
      /\ 0 \in Nat /\ Len(a) \in Nat
  <2>1. a \in Seq(Byte) /\ b \in Seq(Byte) /\ c \in Seq(Byte)
    BY DEF Join3
  <2> QED
    BY <2>1
<1>5. /\ Part(q, 0, a) /\ Part(q, Len(a), b)
  BY <1>2, <1>3, <1>4, Zenon
<1> QED
  BY <1>2, <1>3, <1>5

LEMMA Joined4 ==
  ASSUME NEW q, NEW a, NEW b, NEW c, NEW d,
         Join4(q, a, b, c, d)
  PROVE  /\ q \in Seq(Byte) /\ Len(q) = Len(a) + Len(b) + Len(c) + Len(d)
         /\ Part(q, 0, a) /\ Part(q, Len(a), b) /\ Part(q, Len(a) + Len(b), c)
         /\ Part(q, Len(a) + Len(b) + Len(c), d)
<1> DEFINE p == a \o b \o c
<1>1. Join3(p, a, b, c) /\ Join(q, p, d)
  <2>1. a \in Seq(Byte) /\ b \in Seq(Byte) /\ c \in Seq(Byte) /\ d \in Seq(Byte)
    BY DEF Join4
  <2>2. p \in Seq(Byte)
    BY <2>1
  <2> QED
    BY <2>1, <2>2 DEF Join, Join4, Join3
<1> HIDE DEF p
<1>2. /\ p \in Seq(Byte) /\ Len(p) = Len(a) + Len(b) + Len(c)
      /\ Part(p, 0, a) /\ Part(p, Len(a), b) /\ Part(p, Len(a) + Len(b), c)
  BY <1>1, Joined3, Zenon
<1>3. /\ q \in Seq(Byte) /\ Len(q) = Len(p) + Len(d) /\ Part(q, Len(p), d)
      /\ \A offset \in Nat : \A t \in Seq(Byte) : Part(p, offset, t) => Part(q, offset, t)
  BY <1>1, Joined
<1>4. /\ a \in Seq(Byte) /\ b \in Seq(Byte) /\ c \in Seq(Byte) /\ d \in Seq(Byte)
      /\ 0 \in Nat /\ Len(a) \in Nat /\ Len(a) + Len(b) \in Nat
  <2>1. a \in Seq(Byte) /\ b \in Seq(Byte) /\ c \in Seq(Byte) /\ d \in Seq(Byte)
    BY DEF Join4
  <2> QED
    BY <2>1
<1>5. /\ Part(q, 0, a) /\ Part(q, Len(a), b) /\ Part(q, Len(a) + Len(b), c)
  BY <1>2, <1>3, <1>4, Zenon
<1> QED
  BY <1>2, <1>3, <1>5

LEMMA Joined5 ==
  ASSUME NEW q, NEW a, NEW b, NEW c, NEW d, NEW e,
         Join5(q, a, b, c, d, e)
  PROVE  /\ q \in Seq(Byte) /\ Len(q) = Len(a) + Len(b) + Len(c) + Len(d) + Len(e)
         /\ Part(q, 0, a) /\ Part(q, Len(a), b) /\ Part(q, Len(a) + Len(b), c)
         /\ Part(q, Len(a) + Len(b) + Len(c), d) /\ Part(q, Len(a) + Len(b) + Len(c) + Len(d), e)
<1> DEFINE p == a \o b \o c \o d
<1>1. Join4(p, a, b, c, d) /\ Join(q, p, e)
  <2>1. a \in Seq(Byte) /\ b \in Seq(Byte) /\ c \in Seq(Byte) /\ d \in Seq(Byte) /\ e \in Seq(Byte)
    BY DEF Join5
  <2>2. p \in Seq(Byte)
    BY <2>1
  <2> QED
    BY <2>1, <2>2 DEF Join, Join5, Join4
<1> HIDE DEF p
<1>2. /\ p \in Seq(Byte) /\ Len(p) = Len(a) + Len(b) + Len(c) + Len(d)
      /\ Part(p, 0, a) /\ Part(p, Len(a), b) /\ Part(p, Len(a) + Len(b), c)
      /\ Part(p, Len(a) + Len(b) + Len(c), d)
  BY <1>1, Joined4, Zenon
<1>3. /\ q \in Seq(Byte) /\ Len(q) = Len(p) + Len(e) /\ Part(q, Len(p), e)
      /\ \A offset \in Nat : \A t \in Seq(Byte) : Part(p, offset, t) => Part(q, offset, t)
  BY <1>1, Joined
<1>4. /\ a \in Seq(Byte) /\ b \in Seq(Byte) /\ c \in Seq(Byte) /\ d \in Seq(Byte) /\ e \in Seq(Byte)
      /\ 0 \in Nat /\ Len(a) \in Nat /\ Len(a) + Len(b) \in Nat /\ Len(a) + Len(b) + Len(c) \in Nat
  <2>1. a \in Seq(Byte) /\ b \in Seq(Byte) /\ c \in Seq(Byte) /\ d \in Seq(Byte) /\ e \in Seq(Byte)
    BY DEF Join5
  <2> QED
    BY <2>1
<1>5. /\ Part(q, 0, a) /\ Part(q, Len(a), b) /\ Part(q, Len(a) + Len(b), c)
      /\ Part(q, Len(a) + Len(b) + Len(c), d)
  BY <1>2, <1>3, <1>4, Zenon
<1> QED
  BY <1>2, <1>3, <1>5

-----------------------------------------------------------------------------
(* Integers *)

LEMMA Read16 ==
  ASSUME NEW n \in Nat, n < 2^16
  PROVE  /\ appendUint16LE(n) \in Seq(Byte) /\ Len(appendUint16LE(n)) = 2
         /\ \A data : \A offset \in Nat :
              Part(data, offset, appendUint16LE(n)) => readUint16LE(data, offset) = n
<1>1. n = (n % 256) + 2^8 * ((n \div 2^8) % 256)
  BY SMTT(30)
<1>2. n % 256 \in Byte /\ (n \div 2^8) % 256 \in Byte
  BY SMTT(30) DEF Byte
<1>3. appendUint16LE(n)[1] = n % 256 /\ appendUint16LE(n)[2] = (n \div 2^8) % 256
  BY DEF appendUint16LE
<1>4. appendUint16LE(n) \in Seq(Byte) /\ Len(appendUint16LE(n)) = 2
  BY <1>2 DEF appendUint16LE
<1>5. ASSUME NEW data, NEW offset \in Nat, Part(data, offset, appendUint16LE(n))
      PROVE  readUint16LE(data, offset) = n
  <2>1. data[offset + 1] = n % 256 /\ data[offset + 2] = (n \div 2^8) % 256
    BY <1>3, <1>4, <1>5 DEF Part
  <2> QED
    BY <1>1, <2>1, Zenon DEF readUint16LE
<1> QED
  BY <1>4, <1>5

LEMMA Read32 ==
  ASSUME NEW n \in Uint32
  PROVE  /\ appendUint32LE(n) \in Seq(Byte) /\ Len(appendUint32LE(n)) = 4
         /\ \A data : \A offset \in Nat :
              Part(data, offset, appendUint32LE(n)) => readUint32LE(data, offset) = n
<1> DEFINE b == (n \div 2^8) % 256
           c == (n \div 2^16) % 256
           d == (n \div 2^24) % 256
<1>0. n \in Nat /\ n \div 2^24 < 2^8
  BY DEF Uint32
<1>1. n = (n % 256) + 2^8 * b + 2^16 * c + 2^24 * d
  BY <1>0, SMTT(30)
<1>2. n % 256 \in Byte /\ b \in Byte /\ c \in Byte /\ d \in Byte
  BY <1>0, SMTT(30) DEF Byte
<1>3. appendUint32LE(n) = <<n % 256, b, c, d>>
  BY DEF appendUint32LE
<1> HIDE DEF b, c, d
<1>4. appendUint32LE(n) \in Seq(Byte) /\ Len(appendUint32LE(n)) = 4
  BY <1>2, <1>3
<1>5. ASSUME NEW data, NEW offset \in Nat, Part(data, offset, appendUint32LE(n))
      PROVE  readUint32LE(data, offset) = n
  <2>1. data[offset + 1] = n % 256 /\ data[offset + 2] = b /\ data[offset + 3] = c /\ data[offset + 4] = d
    BY <1>3, <1>4, <1>5 DEF Part
  <2> QED
    BY <1>1, <2>1, Zenon DEF readUint32LE
<1> QED
  BY <1>4, <1>5

-----------------------------------------------------------------------------
(* Names *)

LEMMA ReadName ==
  ASSUME NEW name \in Usernames
  PROVE  /\ NameField(name) \in Seq(Byte) /\ Len(NameField(name)) = NameSize
         /\ NameIn(NameField(name)) = name
<1> DEFINE f == NameField(name)
           g == Append(f, 0)
           I == {i \in 1..Len(g) : g[i] = 0}
           n == Len(name)
<1>1. name \in Seq(1..127) /\ n \in Nat /\ n < NameSize /\ NameSize \in Nat /\ n > 0
  BY WireAssumption DEF Usernames, isValidUsername
<1>2. \A i \in 1..n : name[i] \in 1..127
  BY <1>1, ElementOfSeq
<1>3. \A i \in 1..NameSize : /\ f[i] = IF i <= n THEN name[i] ELSE 0
                             /\ f[i] \in Byte
  BY <1>1, <1>2 DEF NameField, Byte
<1>4. f \in Seq(Byte) /\ Len(f) = NameSize
  <2>1. f = [i \in 1..NameSize |-> f[i]]
    BY DEF NameField
  <2>2. f \in Bytes(NameSize)
    BY <1>3, <2>1 DEF Bytes
  <2> QED
    BY <1>1, <2>2, BytesAreSeqs
<1> HIDE DEF f
<1>5. /\ Len(g) = NameSize + 1
      /\ \A i \in 1..NameSize : g[i] = f[i]
      /\ g[NameSize + 1] = 0
  BY <1>1, <1>4
<1> HIDE DEF g
<1>6. ASSUME NEW i \in 1..NameSize + 1 PROVE g[i] = 0 <=> i > n
  <2>1. CASE i <= n
    <3>1. i \in 1..NameSize /\ i \in 1..n
      BY <1>1, <2>1
    <3>2. g[i] = name[i]
      BY <1>3, <1>5, <2>1, <3>1
    <3>3. name[i] \in 1..127
      BY <1>2, <3>1
    <3>4. g[i] # 0
      BY <3>2, <3>3
    <3>5. ~ (i > n)
      BY <1>1, <2>1
    <3> QED
      BY <3>4, <3>5
  <2>2. CASE i > n
    BY <1>1, <1>3, <1>5, <2>2
  <2> QED
    BY <1>1, <2>1, <2>2
<1>7. I = {i \in 1..NameSize + 1 : i > n}
  BY <1>5, <1>6
<1> HIDE DEF I
<1>8. Min(I) = n + 1
  <2>1. n + 1 \in I /\ \A i \in I : n + 1 <= i
    BY <1>1, <1>7
  <2>2. \A x \in I : (\A i \in I : x <= i) => x = n + 1
    BY <1>1, <1>7, <2>1
  <2> QED
    BY <2>1, <2>2 DEF Min
<1>9. SelectInSeq(g, LAMBDA byte : byte = 0) = n + 1
  BY <1>1, <1>7, <1>8 DEF SelectInSeq, I
<1>10. NameIn(f) = SubSeq(f, 1, n)
  BY <1>1, <1>9 DEF NameIn, g
<1>11. SubSeq(f, 1, n) = name
  <2>1. Field(f, 0, n) = name
    <3>1. name \in Seq(Byte)
      BY <1>1, <1>2 DEF Byte
    <3>2. \A i \in 1..n : f[0 + i] = name[i]
      BY <1>1, <1>3
    <3>3. Part(f, 0, name)
      BY <1>1, <1>4, <3>2 DEF Part
    <3> QED
      BY <1>4, <3>1, <3>3, PartIsField
  <2> QED
    BY <1>1, <2>1 DEF Field
<1> QED
  BY <1>4, <1>10, <1>11 DEF f

-----------------------------------------------------------------------------
(* Induction *)

LEMMA LeastNumber ==
  ASSUME NEW T, T \subseteq Nat, T # {}
  PROVE  \E x \in T : \A y \in T : x <= y
<1> DEFINE R == {ss \in Nat \X Nat : ss[1] < ss[2]}
<1>1. \A x, y \in Nat : y < x => <<y, x>> \in R
  OBVIOUS
<1>2. IsWellFoundedOn(R, Nat)
  BY NatLessThanWellFounded DEF OpToRel
<1> HIDE DEF R
<1>3. PICK x \in T : \A y \in T : ~ (<<y, x>> \in R)
  BY <1>2, WFMin
<1>4. ASSUME NEW y \in T PROVE x <= y
  <2>1. x \in Nat /\ y \in Nat
    OBVIOUS
  <2>2. ~ (y < x)
    BY <1>1, <1>3, <2>1, Zenon
  <2> QED
    BY <2>1, <2>2
<1> QED
  BY <1>4

LEMMA Induction ==
  ASSUME NEW K, 0 \in K, \A k \in Nat : k \in K => k + 1 \in K
  PROVE  Nat \subseteq K
<1> SUFFICES ASSUME NEW n \in Nat, n \notin K PROVE FALSE
  OBVIOUS
<1>1. PICK x \in Nat \ K : \A y \in Nat \ K : x <= y
  BY LeastNumber
<1>2. x # 0 /\ x - 1 \in Nat /\ x - 1 \in K
  BY <1>1
<1> QED
  BY <1>2

-----------------------------------------------------------------------------
(* Sequences of sequences *)

LEMMA Flattened ==
  ASSUME NEW seqs \in Seq(Seq(Byte))
  PROVE  \E p \in [0..Len(seqs) -> Seq(Byte)] :
           /\ p[0] = <<>> /\ p[Len(seqs)] = FlattenSeq(seqs)
           /\ \A i \in 1..Len(seqs) : p[i] = p[i - 1] \o seqs[i]
<1> DEFINE n == Len(seqs)
<1>1. n \in Nat /\ \A i \in 1..n : seqs[i] \in Seq(Byte)
  OBVIOUS
<1>2. CASE n = 0
  <2>1. seqs = <<>> /\ FlattenSeq(seqs) = <<>>
    BY <1>2 DEF FlattenSeq
  <2> DEFINE p == [i \in 0..n |-> <<>>]
  <2>2. p \in [0..Len(seqs) -> Seq(Byte)] /\ p[0] = <<>> /\ p[Len(seqs)] = FlattenSeq(seqs)
    BY <1>2, <2>1
  <2>3. \A i \in 1..Len(seqs) : p[i] = p[i - 1] \o seqs[i]
    BY <1>2
  <2> QED
    BY <2>2, <2>3
<1>3. CASE n > 0
  <2> DEFINE D(f, i) == IF i = 1 THEN seqs[i] ELSE f[i - 1] \o seqs[i]
             P(f, k) == f = [i \in 1..k |-> D(f, i)]
             K == {k \in Nat : \E f : P(f, k)}
             flatten == CHOOSE f : P(f, n)
  <2>1. 0 \in K
    <3> DEFINE f == [i \in 1..0 |-> <<>>]
    <3>1. P(f, 0)
      OBVIOUS
    <3> QED
      BY <3>1
  <2>2. ASSUME NEW k \in Nat, NEW g, P(g, k) PROVE \E f : P(f, k + 1)
    <3> DEFINE f == [i \in 1..k + 1 |-> D(g, i)]
    <3>1. \A i \in 1..k : f[i] = D(g, i) /\ i \in 1..k + 1
      OBVIOUS
    <3>2. \A i \in 1..k : g[i] = D(g, i)
      <4> HIDE DEF D
      <4>1. \A i \in 1..k : [j \in 1..k |-> D(g, j)][i] = D(g, i)
        OBVIOUS
      <4> QED
        BY <2>2, <4>1, Zenon
    <3>3. ASSUME NEW i \in 1..k + 1 PROVE D(f, i) = D(g, i)
      <4>1. CASE i = 1
        BY <4>1
      <4>2. CASE i # 1
        <5>1. i - 1 \in 1..k
          BY <4>2
        <5>2. f[i - 1] = g[i - 1]
          <6> HIDE DEF D, f
          <6> QED
            BY <3>1, <3>2, <5>1
        <5> HIDE DEF f
        <5> QED
          BY <4>2, <5>2
      <4> QED
        BY <4>1, <4>2
    <3>4. P(f, k + 1)
      <4> HIDE DEF D
      <4> QED
        BY <3>3, Zenon
    <3> HIDE DEF P
    <3> QED
      BY <3>4
  <2>3. \E f : P(f, n)
    <3> HIDE DEF P
    <3>1. \A k \in Nat : k \in K => k + 1 \in K
      BY <2>2
    <3>2. n \in K
      <4> HIDE DEF K
      <4> QED
        BY <1>1, <2>1, <3>1, Induction
    <3> QED
      BY <3>2
  <2>4. P(flatten, n)
    <3> HIDE DEF P
    <3> QED
      BY <2>3, Zenon
  <2>5. \A i \in 1..n : flatten[i] = D(flatten, i)
    <3> HIDE DEF D, flatten
    <3>1. \A i \in 1..n : [j \in 1..n |-> D(flatten, j)][i] = D(flatten, i)
      OBVIOUS
    <3> QED
      BY <2>4, <3>1, Zenon
  <2>6. FlattenSeq(seqs) = flatten[n]
    <3>1. Len(seqs) # 0
      BY <1>3
    <3> QED
      BY <3>1, Zenon DEF FlattenSeq
  <2> HIDE DEF flatten
  <2> DEFINE J == {k \in Nat : k \in 1..n => flatten[k] \in Seq(Byte)}
  <2>7. \A i \in 1..n : flatten[i] \in Seq(Byte)
    <3>1. 0 \in J
      OBVIOUS
    <3>2. ASSUME NEW k \in Nat, k \in J PROVE k + 1 \in J
      <4> SUFFICES ASSUME k + 1 \in 1..n PROVE flatten[k + 1] \in Seq(Byte)
        OBVIOUS
      <4>1. flatten[k + 1] = D(flatten, k + 1)
        BY <2>5
      <4>2. CASE k = 0
        BY <1>1, <4>1, <4>2
      <4>3. CASE k > 0
        <5>1. k \in 1..n /\ flatten[k] \in Seq(Byte)
          BY <3>2, <4>3
        <5>2. D(flatten, k + 1) = flatten[k] \o seqs[k + 1]
          <6>1. k + 1 # 1 /\ (k + 1) - 1 = k
            BY <4>3
          <6> QED
            BY <6>1
        <5> QED
          BY <1>1, <4>1, <5>1, <5>2
      <4> QED
        BY <4>2, <4>3
    <3> HIDE DEF J
    <3>3. Nat \subseteq J
      BY <3>1, <3>2, Induction
    <3> QED
      BY <3>3 DEF J
  <2> DEFINE p == [i \in 0..n |-> IF i = 0 THEN <<>> ELSE flatten[i]]
  <2>8. p \in [0..n -> Seq(Byte)] /\ p[0] = <<>> /\ p[n] = FlattenSeq(seqs)
    BY <1>1, <1>3, <2>6, <2>7
  <2>9. ASSUME NEW i \in 1..n PROVE p[i] = p[i - 1] \o seqs[i]
    <3>1. p[i] = D(flatten, i)
      <4>1. p[i] = flatten[i]
        OBVIOUS
      <4> HIDE DEF p, D
      <4> QED
        BY <2>5, <4>1
    <3>2. CASE i = 1
      <4>1. p[i - 1] = <<>> /\ seqs[i] \in Seq(Byte)
        BY <1>1, <3>2
      <4>2. p[i] = seqs[i]
        BY <3>1, <3>2
      <4> HIDE DEF p
      <4> QED
        BY <4>1, <4>2, ConcatEmptySeq
    <3>3. CASE i # 1
      <4>1. p[i - 1] = flatten[i - 1]
        BY <3>3
      <4> HIDE DEF p
      <4> QED
        BY <3>1, <3>3, <4>1
    <3> QED
      BY <3>2, <3>3
  <2> HIDE DEF p
  <2> QED
    BY <2>8, <2>9
<1>4. n = 0 \/ n > 0
  BY <1>1
<1> QED
  BY <1>2, <1>3, <1>4, Zenon

LEMMA Pieces ==
  ASSUME NEW seqs \in Seq(Seq(Byte))
  PROVE  /\ FlattenSeq(seqs) \in Seq(Byte)
         /\ \E at \in [0..Len(seqs) -> Nat] :
              /\ at[0] = 0 /\ at[Len(seqs)] = Len(FlattenSeq(seqs))
              /\ \A i \in 1..Len(seqs) : /\ at[i] = at[i - 1] + Len(seqs[i])
                                         /\ Part(FlattenSeq(seqs), at[i - 1], seqs[i])
<1> DEFINE n == Len(seqs)
           Starts(s, t) == Len(s) <= Len(t) /\ \A j \in 1..Len(s) : t[j] = s[j]
<1>1. n \in Nat /\ \A i \in 1..n : seqs[i] \in Seq(Byte)
  OBVIOUS
<1>2. PICK p \in [0..n -> Seq(Byte)] :
        /\ p[0] = <<>> /\ p[n] = FlattenSeq(seqs)
        /\ \A i \in 1..n : p[i] = p[i - 1] \o seqs[i]
  BY Flattened
<1> HIDE DEF n
<1> DEFINE K == {k \in Nat : k <= n => \A i \in 0..k : Starts(p[i], p[k])}
<1>3. ASSUME NEW i \in 1..n
      PROVE  /\ p[i - 1] \in Seq(Byte) /\ p[i] \in Seq(Byte) /\ seqs[i] \in Seq(Byte)
             /\ Len(p[i]) = Len(p[i - 1]) + Len(seqs[i]) /\ Starts(p[i - 1], p[i])
             /\ \A j \in 1..Len(seqs[i]) : p[i][Len(p[i - 1]) + j] = seqs[i][j]
  <2>1. p[i - 1] \in Seq(Byte) /\ p[i] \in Seq(Byte) /\ seqs[i] \in Seq(Byte)
    BY <1>1
  <2>2. p[i] = p[i - 1] \o seqs[i]
    BY <1>2
  <2>3. /\ Len(p[i - 1] \o seqs[i]) = Len(p[i - 1]) + Len(seqs[i])
        /\ \A j \in 1..Len(p[i - 1]) : (p[i - 1] \o seqs[i])[j] = p[i - 1][j]
        /\ \A j \in 1..Len(seqs[i]) : (p[i - 1] \o seqs[i])[Len(p[i - 1]) + j] = seqs[i][j]
    <3> HIDE DEF Starts
    <3>1. \A a, b \in Seq(Byte) :
            /\ Len(a \o b) = Len(a) + Len(b)
            /\ \A j \in 1..Len(a) : (a \o b)[j] = a[j]
            /\ \A j \in 1..Len(b) : (a \o b)[Len(a) + j] = b[j]
      BY Joined
    <3> QED
      BY <2>1, <3>1, Zenon
  <2>4. Len(p[i - 1]) \in Nat /\ Len(seqs[i]) \in Nat
    BY <2>1, LenProperties
  <2>5. Len(p[i - 1]) <= Len(p[i])
    <3>1. Len(p[i]) = Len(p[i - 1]) + Len(seqs[i])
      BY <2>2, <2>3, Zenon
    <3>2. \A l, m, k : l \in Nat /\ m \in Nat /\ k = l + m => l <= k
      OBVIOUS
    <3> QED
      BY <2>4, <3>1, <3>2, Zenon
  <2> QED
    BY <2>1, <2>2, <2>3, <2>5, Zenon
<1>4. 0 \in K
  <2>1. p[0] \in Seq(Byte)
    BY <1>1
  <2> QED
    BY <2>1
<1>5. ASSUME NEW k \in Nat, k \in K PROVE k + 1 \in K
  <2> SUFFICES ASSUME k + 1 <= n, NEW i \in 0..k + 1 PROVE Starts(p[i], p[k + 1])
    OBVIOUS
  <2>1. p[i] \in Seq(Byte) /\ p[k] \in Seq(Byte) /\ p[k + 1] \in Seq(Byte)
    BY <1>1
  <2>2. CASE i = k + 1
    BY <2>1, <2>2
  <2>3. CASE i # k + 1
    <3>1. Starts(p[i], p[k])
      BY <1>1, <1>5, <2>3
    <3>2. Starts(p[k], p[k + 1])
      <4>1. k + 1 \in 1..n /\ (k + 1) - 1 = k
        BY <1>1
      <4> HIDE DEF Starts
      <4> QED
        BY <1>3, <4>1
    <3> QED
      BY <2>1, <3>1, <3>2
  <2> QED
    BY <2>2, <2>3
<1>6. \A i \in 0..n : Starts(p[i], p[n])
  <2>1. n \in K
    <3> HIDE DEF K
    <3> QED
      BY <1>1, <1>4, <1>5, Induction
  <2> QED
    BY <1>1, <2>1
<1> DEFINE at == [i \in 0..n |-> Len(p[i])]
<1>7. at \in [0..n -> Nat] /\ at[0] = 0 /\ at[n] = Len(FlattenSeq(seqs))
  <2>1. \A i \in 0..n : Len(p[i]) \in Nat
    BY LenProperties
  <2>2. 0 \in 0..n /\ n \in 0..n /\ Len(p[0]) = 0
    BY <1>1, <1>2
  <2> QED
    BY <1>2, <2>1, <2>2
<1>8. ASSUME NEW i \in 1..n
      PROVE  at[i] = at[i - 1] + Len(seqs[i]) /\ Part(FlattenSeq(seqs), at[i - 1], seqs[i])
  <2>1. at[i] = Len(p[i]) /\ at[i - 1] = Len(p[i - 1])
    BY <1>1
  <2>2. Starts(p[i], FlattenSeq(seqs))
    BY <1>1, <1>2, <1>6
  <2>3. ASSUME NEW j \in 1..Len(seqs[i]) PROVE FlattenSeq(seqs)[Len(p[i - 1]) + j] = seqs[i][j]
    <3>1. Len(p[i - 1]) + j \in 1..Len(p[i])
      <4>1. Len(p[i - 1]) \in Nat /\ Len(seqs[i]) \in Nat
        BY <1>3, LenProperties
      <4>2. Len(p[i]) = Len(p[i - 1]) + Len(seqs[i])
        BY <1>3
      <4>3. \A l, m \in Nat : j \in 1..m => l + j \in 1..l + m
        OBVIOUS
      <4> QED
        BY <4>1, <4>2, <4>3
    <3> QED
      BY <1>3, <2>2, <3>1
  <2> QED
    BY <1>3, <2>1, <2>2, <2>3 DEF Part
<1>9. FlattenSeq(seqs) \in Seq(Byte)
  BY <1>1, <1>2
<1> HIDE DEF at
<1> QED
  BY <1>7, <1>8, <1>9 DEF n

LEMMA EqualPieces ==
  ASSUME NEW seqs \in Seq(Seq(Byte)), NEW size \in Nat, \A i \in 1..Len(seqs) : Len(seqs[i]) = size
  PROVE  /\ Len(FlattenSeq(seqs)) = Len(seqs) * size
         /\ \A i \in 1..Len(seqs) : Part(FlattenSeq(seqs), (i - 1) * size, seqs[i])
<1> DEFINE n == Len(seqs)
<1>1. PICK at \in [0..n -> Nat] :
        /\ at[0] = 0 /\ at[n] = Len(FlattenSeq(seqs))
        /\ \A i \in 1..n : at[i] = at[i - 1] + Len(seqs[i]) /\ Part(FlattenSeq(seqs), at[i - 1], seqs[i])
  BY Pieces
<1> DEFINE K == {k \in Nat : k <= n => at[k] = k * size}
<1>2. 0 \in K
  BY <1>1
<1>3. ASSUME NEW k \in Nat, k \in K PROVE k + 1 \in K
  <2> SUFFICES ASSUME k + 1 <= n PROVE at[k + 1] = (k + 1) * size
    OBVIOUS
  <2>1. k + 1 \in 1..n /\ (k + 1) - 1 = k /\ n \in Nat
    OBVIOUS
  <2>2. at[k + 1] = at[k] + size
    BY <1>1, <2>1
  <2>3. at[k] = k * size
    BY <1>3, <2>1
  <2>4. k * size + size = (k + 1) * size
    OBVIOUS
  <2> QED
    BY <2>2, <2>3, <2>4
<1>4. \A k \in 0..n : at[k] = k * size
  <2> HIDE DEF K
  <2>1. Nat \subseteq K
    BY <1>2, <1>3, Induction
  <2> QED
    BY <2>1 DEF K
<1>5. n \in 0..n /\ \A i \in 1..n : i - 1 \in 0..n
  OBVIOUS
<1> QED
  BY <1>1, <1>4, <1>5

-----------------------------------------------------------------------------
(* The hexadecimal ID *)

\* uuidHex32ToBytes16 reads of my.info the very ID that bytesToHex saved there.
THEOREM ReadHex ==
  ASSUME NEW n \in Nat, NEW bytes \in Bytes(n)
  PROVE  bytesToHex(bytes) \in Seq(Byte) /\ uuidHex32ToBytes16(bytesToHex(bytes)) = bytes
<1> DEFINE seqs == [i \in 1..Len(bytes) |-> Digits(bytes[i])]
           hex  == bytesToHex(bytes)
<1>1. Len(bytes) = n /\ \A i \in 1..n : bytes[i] \in 0..255
  BY BytesAreSeqs DEF Bytes, Byte
<1>2. ASSUME NEW b \in 0..255
      PROVE  /\ Digits(b) \in Seq(Byte) /\ Len(Digits(b)) = 2
             /\ Digits(b)[1] * 16 + Digits(b)[2] = b
  <2> DEFINE q == b \div 16
             r == b % 16
  <2>1. q \in 0..255 /\ r \in 0..255
    BY SMTT(30)
  <2>2. b = r + 16 * q
    <3>1. \A k \in Nat : k = (k % 16) + 16 * (k \div 16)
      BY SMTT(30)
    <3> QED
      BY <3>1
  <2>3. Digits(b) = <<q, r>>
    BY DEF Digits
  <2> HIDE DEF q, r
  <2>4. q * 16 + r = b
    BY <2>1, <2>2
  <2> QED
    BY <2>1, <2>3, <2>4 DEF Byte
<1>3. seqs \in Seq(Seq(Byte)) /\ Len(seqs) = n /\ \A i \in 1..n : seqs[i] = Digits(bytes[i])
  <2>1. \A i \in 1..n : Digits(bytes[i]) \in Seq(Byte)
    BY <1>1, <1>2
  <2>2. seqs = [i \in 1..n |-> Digits(bytes[i])]
    BY <1>1
  <2> HIDE DEF seqs
  <2>3. seqs \in [1..n -> Seq(Byte)]
    BY <2>1, <2>2
  <2> QED
    BY <2>2, <2>3
<1> HIDE DEF seqs
<1>4. hex = FlattenSeq(seqs)
  BY DEF bytesToHex, seqs
<1>5. \A i \in 1..Len(seqs) : Len(seqs[i]) = 2
  <2>1. \A i \in 1..n : Len(Digits(bytes[i])) = 2
    BY <1>1, <1>2
  <2> QED
    BY <1>3, <2>1, Zenon
<1>6. /\ Len(hex) = n * 2
      /\ \A i \in 1..n : \A j \in 1..2 : hex[(i - 1) * 2 + j] = seqs[i][j]
  <2> HIDE DEF hex
  <2> QED
    <3>1. 2 \in Nat
      OBVIOUS
    <3>2. /\ Len(FlattenSeq(seqs)) = Len(seqs) * 2
          /\ \A i \in 1..Len(seqs) : Part(FlattenSeq(seqs), (i - 1) * 2, seqs[i])
      BY <1>3, <1>5, <3>1, EqualPieces, Zenon
    <3> QED
      BY <1>3, <1>4, <1>5, <3>2 DEF Part
<1>7. hex \in Seq(Byte)
  BY <1>3, <1>4, Pieces
<1>8. Len(hex) \div 2 = n
  BY <1>6
<1>9. ASSUME NEW i \in 1..n PROVE hex[2 * i - 1] * 16 + hex[2 * i] = bytes[i]
  <2>1. (i - 1) * 2 + 1 = 2 * i - 1 /\ (i - 1) * 2 + 2 = 2 * i
    OBVIOUS
  <2>2. hex[2 * i - 1] = Digits(bytes[i])[1] /\ hex[2 * i] = Digits(bytes[i])[2]
    <3>1. hex[(i - 1) * 2 + 1] = seqs[i][1] /\ hex[(i - 1) * 2 + 2] = seqs[i][2]
      BY <1>6
    <3> HIDE DEF hex
    <3> QED
      BY <1>3, <2>1, <3>1
  <2> HIDE DEF hex
  <2> QED
    BY <1>1, <1>2, <2>2
<1>10. uuidHex32ToBytes16(hex) = [i \in 1..n |-> bytes[i]]
  <2> HIDE DEF hex
  <2> QED
    BY <1>8, <1>9 DEF uuidHex32ToBytes16
<1>11. bytes = [i \in 1..n |-> bytes[i]]
  BY DEF Bytes
<1> QED
  BY <1>7, <1>10, <1>11

-----------------------------------------------------------------------------
(* Requests *)

LEMMA Sizes ==
  /\ IdSize \in Nat \ {0} /\ NameSize \in Nat \ {0} /\ KeySize \in Nat \ {0}
  /\ RequestHeader = IdSize + 7 /\ ReplyHeader = 7 /\ TypeAt = IdSize + 4
BY WireAssumption DEF RequestHeader, ReplyHeader, TypeAt

LEMMA RequestKinds ==
  ASSUME NEW r \in Requests
  PROVE  /\ r.id \in Bytes(IdSize)
         /\ \/ r.code = 700 /\ r = [code |-> 700, id |-> r.id, name |-> r.name, key |-> r.key]
               /\ r.name \in Usernames /\ r.key \in Bytes(KeySize)
            \/ r.code \in {701, 704} /\ r = [code |-> r.code, id |-> r.id]
            \/ r.code = 702 /\ r = [code |-> 702, id |-> r.id, target |-> r.target]
               /\ r.target \in Bytes(IdSize)
            \/ r.code = 703 /\ r = [code |-> 703, id |-> r.id, target |-> r.target, type |-> r.type,
                                    content |-> r.content]
               /\ r.target \in Bytes(IdSize) /\ r.type \in 1..3 /\ r.content \in Seq(Byte)
               /\ (r.type = 1 => r.content = <<>>)
<1> DEFINE Id == Bytes(IdSize)
<1>1. CASE r \in [code : {700}, id : Id, name : Usernames, key : Bytes(KeySize)]
  BY <1>1
<1>2. CASE r \in [code : {701, 704}, id : Id]
  BY <1>2
<1>3. CASE r \in [code : {702}, id : Id, target : Id]
  BY <1>3
<1>4. CASE r \in [code : {703}, id : Id, target : Id, type : {1}, content : {<<>>}]
  <2>1. r.content \in {<<>>} /\ r.type = 1
    BY <1>4
  <2>2. <<>> \in Seq(Byte)
    OBVIOUS
  <2>3. r.content = <<>> /\ r.content \in Seq(Byte)
    BY <2>1, <2>2
  <2>4. r = [code |-> 703, id |-> r.id, target |-> r.target, type |-> r.type, content |-> r.content]
    BY <1>4
  <2>5. r.id \in Id /\ r.target \in Id /\ r.code = 703
    BY <1>4
  <2> QED
    BY <2>1, <2>3, <2>4, <2>5
<1>5. CASE r \in [code : {703}, id : Id, target : Id, type : {2, 3}, content : Seq(Byte)]
  BY <1>5
<1> QED
  BY <1>1, <1>2, <1>3, <1>4, <1>5 DEF Requests

LEMMA PayloadLayout ==
  ASSUME NEW r \in Requests
  PROVE  /\ r.code = 700 =>
              /\ Payload(r) \in Seq(Byte) /\ Len(Payload(r)) = NameSize + KeySize
              /\ Field(Payload(r), 0, NameSize) = NameField(r.name)
              /\ Field(Payload(r), NameSize, KeySize) = r.key
         /\ r.code \in {701, 704} => Payload(r) = <<>>
         /\ r.code = 702 => Payload(r) = r.target
         /\ r.code = 703 /\ Len(r.content) \in Uint32 =>
              /\ Payload(r) \in Seq(Byte) /\ Len(Payload(r)) = IdSize + 5 + Len(r.content)
              /\ Field(Payload(r), 0, IdSize) = r.target
              /\ Payload(r)[IdSize + 1] = r.type
              /\ readUint32LE(Payload(r), IdSize + 1) = Len(r.content)
              /\ Field(Payload(r), IdSize + 5, Len(r.content)) = r.content
<1> DEFINE p == Payload(r)
<1>1. ASSUME r.code = 700
      PROVE  /\ p \in Seq(Byte) /\ Len(p) = NameSize + KeySize
             /\ Field(p, 0, NameSize) = NameField(r.name)
             /\ Field(p, NameSize, KeySize) = r.key
  <2> DEFINE name == NameField(r.name)
  <2>1. r.name \in Usernames /\ r.key \in Bytes(KeySize)
    BY <1>1, RequestKinds
  <2>2. name \in Seq(Byte) /\ Len(name) = NameSize
    BY <2>1, ReadName
  <2>3. r.key \in Seq(Byte) /\ Len(r.key) = KeySize
    BY <2>1, Sizes, BytesAreSeqs
  <2>4. p = name \o r.key
    <3>1. r.code # 702 /\ r.code # 703
      BY <1>1
    <3> QED
      BY <1>1, <3>1, Zenon DEF Payload
  <2> HIDE DEF p, name
  <2>5. Join(p, name, r.key)
    BY <2>2, <2>3, <2>4 DEF Join
  <2>6. /\ p \in Seq(Byte) /\ Len(p) = NameSize + KeySize
        /\ Part(p, 0, name) /\ Part(p, NameSize, r.key)
    BY <2>2, <2>3, <2>5, Joined
  <2>7. Field(p, 0, NameSize) = name /\ Field(p, NameSize, KeySize) = r.key
    BY <2>2, <2>3, <2>6, Sizes, PartIsField
  <2> QED
    BY <2>6, <2>7 DEF name
<1>2. r.code \in {701, 704} => p = <<>>
  BY DEF Payload
<1>3. r.code = 702 => p = r.target
  BY DEF Payload
<1>4. ASSUME r.code = 703, Len(r.content) \in Uint32
      PROVE  /\ p \in Seq(Byte) /\ Len(p) = IdSize + 5 + Len(r.content)
             /\ Field(p, 0, IdSize) = r.target
             /\ p[IdSize + 1] = r.type
             /\ readUint32LE(p, IdSize + 1) = Len(r.content)
             /\ Field(p, IdSize + 5, Len(r.content)) = r.content
  <2> DEFINE target  == r.target
             content == r.content
             n    == Len(content)
             size == appendUint32LE(n)
             type == <<r.type>>
  <2>1. target \in Bytes(IdSize) /\ r.type \in 1..3 /\ content \in Seq(Byte)
    BY <1>4, RequestKinds
  <2>2. target \in Seq(Byte) /\ Len(target) = IdSize
    BY <2>1, Sizes, BytesAreSeqs
  <2>3. type \in Seq(Byte) /\ Len(type) = 1 /\ type[1] = r.type
    BY <2>1 DEF Byte
  <2>4. /\ size \in Seq(Byte) /\ Len(size) = 4
        /\ \A data : \A offset \in Nat : Part(data, offset, size) => readUint32LE(data, offset) = n
    <3> HIDE DEF n
    <3> QED
      BY <1>4, Read32 DEF n, content
  <2>5. p = target \o type \o size \o content
    <3>1. r.code # 700 /\ r.code # 702
      BY <1>4
    <3> QED
      BY <1>4, <3>1, Zenon DEF Payload
  <2>6. n = Len(content) /\ n \in Nat
    BY <2>1
  <2> HIDE DEF p, n, size, type, target, content
  <2>7. Join4(p, target, type, size, content)
    BY <2>1, <2>2, <2>3, <2>4, <2>5 DEF Join4
  <2>8. /\ p \in Seq(Byte) /\ Len(p) = Len(target) + Len(type) + Len(size) + Len(content)
        /\ Part(p, 0, target) /\ Part(p, Len(target), type)
        /\ Part(p, Len(target) + Len(type), size)
        /\ Part(p, Len(target) + Len(type) + Len(size), content)
    BY <2>7, Joined4
  <2>9. IdSize \in Nat /\ IdSize + 1 + 4 = IdSize + 5
    BY Sizes
  <2>10. /\ Len(p) = IdSize + 5 + n /\ Part(p, 0, target) /\ Part(p, IdSize, type)
         /\ Part(p, IdSize + 1, size) /\ Part(p, IdSize + 5, content)
    BY <2>2, <2>3, <2>4, <2>6, <2>8, <2>9
  <2>11. Field(p, 0, IdSize) = target /\ Field(p, IdSize + 5, n) = content
    BY <2>1, <2>2, <2>6, <2>8, <2>9, <2>10, PartIsField
  <2>12. p[IdSize + 1] = r.type
    BY <2>3, <2>10 DEF Part
  <2>13. readUint32LE(p, IdSize + 1) = n
    BY <2>4, <2>9, <2>10
  <2> QED
    BY <2>6, <2>8, <2>10, <2>11, <2>12, <2>13 DEF target, content
<1> QED
  BY <1>1, <1>2, <1>3, <1>4

LEMMA Below ==
  ASSUME NEW m \in Uint32, NEW n \in Nat, n <= m
  PROVE  n \in Uint32
<1>1. m \in Nat /\ m \div 2^24 < 2^8
  BY DEF Uint32
<1>2. n \div 2^24 < 2^8
  BY <1>1, SMTT(30)
<1> QED
  BY <1>2 DEF Uint32

\* The payload of a request is no longer than its size field can say.
Small(r) ==
  /\ r.code = 700 => NameSize + KeySize \in Uint32
  /\ r.code = 702 => IdSize \in Uint32
  /\ r.code = 703 => IdSize + 5 + Len(r.content) \in Uint32

LEMMA SmallContent ==
  ASSUME NEW r \in Requests, Small(r), r.code = 703
  PROVE  Len(r.content) \in Uint32
<1> DEFINE n == Len(r.content)
<1>1. n \in Nat /\ IdSize + 5 + n \in Uint32 /\ IdSize \in Nat
  BY RequestKinds, Sizes DEF Small
<1> HIDE DEF n
<1>2. IdSize + 5 + n \in Uint32 /\ n <= IdSize + 5 + n
  BY <1>1
<1>3. n \in Uint32
  BY <1>1, <1>2, Below
<1> QED
  BY <1>3 DEF n

LEMMA PayloadSizes ==
  ASSUME NEW r \in Requests, Small(r)
  PROVE  Payload(r) \in Seq(Byte) /\ Len(Payload(r)) \in Uint32
<1>1. CASE r.code = 700
  BY <1>1, PayloadLayout DEF Small
<1>2. CASE r.code \in {701, 704}
  <2>1. Payload(r) = <<>>
    BY <1>2, PayloadLayout
  <2>2. 0 \in Uint32
    BY DEF Uint32
  <2> QED
    BY <2>1, <2>2
<1>3. CASE r.code = 702
  <2>1. r.target \in Bytes(IdSize) /\ Payload(r) = r.target
    BY <1>3, PayloadLayout, RequestKinds
  <2>2. r.target \in Seq(Byte) /\ Len(r.target) = IdSize
    BY <2>1, Sizes, BytesAreSeqs
  <2> QED
    BY <1>3, <2>1, <2>2 DEF Small
<1>4. CASE r.code = 703
  <2>1. Len(r.content) \in Uint32
    BY <1>4, SmallContent
  <2>2. Payload(r) \in Seq(Byte) /\ Len(Payload(r)) = IdSize + 5 + Len(r.content)
    BY <1>4, <2>1, PayloadLayout
  <2> QED
    BY <1>4, <2>2 DEF Small
<1> QED
  BY <1>1, <1>2, <1>3, <1>4, RequestKinds

LEMMA RequestLayout ==
  ASSUME NEW r \in Requests, Small(r)
  PROVE  /\ createBuffer(r) \in Seq(Byte) /\ Payload(r) \in Seq(Byte)
         /\ Len(createBuffer(r)) = RequestHeader + Len(Payload(r))
         /\ Field(createBuffer(r), 0, IdSize) = r.id
         /\ createBuffer(r)[IdSize + 1] = 1
         /\ readUint16LE(createBuffer(r), IdSize + 1) = r.code
         /\ readUint32LE(createBuffer(r), IdSize + 3) = Len(Payload(r))
         /\ SubSeq(createBuffer(r), RequestHeader + 1, Len(createBuffer(r))) = Payload(r)
<1> DEFINE q       == createBuffer(r)
           p       == Payload(r)
           n       == Len(p)
           id      == r.id
           version == <<1>>
           code    == appendUint16LE(r.code)
           size    == appendUint32LE(n)
<1>1. r.id \in Bytes(IdSize)
  BY RequestKinds
<1>2. id \in Seq(Byte) /\ Len(id) = IdSize
  BY <1>1, Sizes, BytesAreSeqs
<1>3. version \in Seq(Byte) /\ Len(version) = 1 /\ version[1] = 1
  BY DEF Byte
<1>4. r.code \in Nat /\ r.code < 2^16
  BY RequestKinds
<1>5. /\ code \in Seq(Byte) /\ Len(code) = 2
      /\ \A data : \A offset \in Nat : Part(data, offset, code) => readUint16LE(data, offset) = r.code
  BY <1>4, Read16
<1>6. p \in Seq(Byte) /\ n \in Uint32 /\ n = Len(p) /\ n \in Nat
  BY PayloadSizes DEF Uint32
<1>7. /\ size \in Seq(Byte) /\ Len(size) = 4
      /\ \A data : \A offset \in Nat : Part(data, offset, size) => readUint32LE(data, offset) = n
  <2> HIDE DEF n
  <2> QED
    BY <1>6, Read32
<1>8. q = id \o version \o code \o size \o p
  BY DEF createBuffer
<1>9. id = r.id /\ p = Payload(r) /\ q = createBuffer(r)
  OBVIOUS
<1> HIDE DEF q, p, n, id, version, code, size
<1>10. Join5(q, id, version, code, size, p)
  BY <1>2, <1>3, <1>5, <1>6, <1>7, <1>8 DEF Join5
<1>11. /\ q \in Seq(Byte) /\ Len(q) = Len(id) + Len(version) + Len(code) + Len(size) + Len(p)
       /\ Part(q, 0, id) /\ Part(q, Len(id), version) /\ Part(q, Len(id) + Len(version), code)
       /\ Part(q, Len(id) + Len(version) + Len(code), size)
       /\ Part(q, Len(id) + Len(version) + Len(code) + Len(size), p)
  BY <1>10, Joined5
<1>12. IdSize \in Nat /\ RequestHeader = IdSize + 7
  BY Sizes
<1>13. /\ Len(q) = RequestHeader + n
       /\ Part(q, 0, id) /\ Part(q, IdSize, version) /\ Part(q, IdSize + 1, code)
       /\ Part(q, IdSize + 3, size) /\ Part(q, RequestHeader, p)
  BY <1>2, <1>3, <1>5, <1>6, <1>7, <1>11, <1>12
<1>14. Field(q, 0, IdSize) = id /\ Field(q, RequestHeader, n) = p
  BY <1>2, <1>6, <1>11, <1>12, <1>13, PartIsField
<1>15. q[IdSize + 1] = 1
  BY <1>3, <1>13 DEF Part
<1>16. readUint16LE(q, IdSize + 1) = r.code /\ readUint32LE(q, IdSize + 3) = n
  BY <1>5, <1>7, <1>12, <1>13
<1>17. SubSeq(q, RequestHeader + 1, Len(q)) = p
  BY <1>13, <1>14 DEF Field
<1> QED
  BY <1>6, <1>9, <1>11, <1>13, <1>14, <1>15, <1>16, <1>17

\* How request_handler_main splits the bytes of a request.
Splits(q, id, code, p) ==
  /\ Field(q, 0, IdSize) = id /\ q[IdSize + 1] = 1 /\ readUint16LE(q, IdSize + 1) = code
  /\ readUint32LE(q, IdSize + 3) = Len(p)
  /\ SubSeq(q, RequestHeader + 1, Len(q)) = p

LEMMA Dispatch ==
  ASSUME NEW q, NEW id, NEW p, NEW code, Splits(q, id, code, p)
  PROVE  /\ code = 700 => ParseRequest(q) = RegisterRequest(id, p)
         /\ code = 702 /\ Len(p) = IdSize => ParseRequest(q) = [code |-> code, id |-> id, target |-> p]
         /\ code = 703 => ParseRequest(q) = SendRequest(id, p)
         /\ code \in {701, 704} /\ p = <<>> => ParseRequest(q) = [code |-> code, id |-> id]
<1> DEFINE C == readUint16LE(q, IdSize + 1)
           P == SubSeq(q, RequestHeader + 1, Len(q))
           I == Field(q, 0, IdSize)
           n == readUint32LE(q, IdSize + 3)
           x == [code |-> C, id |-> I, target |-> P]
           y == [code |-> C, id |-> I]
           r == ParseRequest(q)
           R == RegisterRequest(I, P)
           S == SendRequest(I, P)
<1>1. r = CASE Len(P) # n \/ q[IdSize + 1] # 1 -> None
            [] C = 700                          -> R
            [] C = 702 /\ Len(P) = IdSize       -> x
            [] C = 703                          -> S
            [] C \in {701, 704} /\ P = <<>>     -> y
            [] OTHER                            -> None
  BY Zenon DEF ParseRequest, PayloadSize
<1>2. C = code /\ P = p /\ I = id /\ n = Len(p) /\ q[IdSize + 1] = 1
  BY DEF Splits
<1> HIDE DEF C, P, I, n, x, y, r, R, S
<1>3. Len(P) = n
  BY <1>2
<1>4. /\ C = 700 => r = R
      /\ C = 702 /\ Len(P) = IdSize => r = x
      /\ C = 703 => r = S
      /\ C \in {701, 704} /\ P = <<>> => r = y
  BY <1>1, <1>2, <1>3
<1> QED
  BY <1>2, <1>4 DEF x, y, r, R, S

\* request_handler_main reads of the bytes that createBuffer made of a request
\* that very request.
THEOREM ReadRequest ==
  ASSUME NEW r \in Requests, Small(r)
  PROVE  ParseRequest(createBuffer(r)) = r
<1> DEFINE q  == createBuffer(r)
           p  == Payload(r)
           id == r.id
           code == r.code
<1>1. Splits(q, id, code, p)
  BY RequestLayout DEF Splits
<1>2. id = r.id /\ p = Payload(r) /\ q = createBuffer(r) /\ code = r.code
  OBVIOUS
<1> HIDE DEF q, p, id, code
<1>3. CASE r.code = 700
  <2>1. /\ r = [code |-> 700, id |-> id, name |-> r.name, key |-> r.key]
        /\ r.name \in Usernames /\ r.key \in Bytes(KeySize)
    BY <1>2, <1>3, RequestKinds
  <2>2. ParseRequest(q) = RegisterRequest(id, p)
    BY <1>1, <1>2, <1>3, Dispatch
  <2>3. /\ Len(p) = NameSize + KeySize /\ Field(p, 0, NameSize) = NameField(r.name)
        /\ Field(p, NameSize, KeySize) = r.key
    BY <1>2, <1>3, PayloadLayout
  <2>4. NameIn(Field(p, 0, NameSize)) = r.name
    BY <2>1, <2>3, ReadName
  <2>5. r.name # <<>> /\ \A i \in 1..Len(r.name) : r.name[i] < 128
    BY <2>1 DEF Usernames, isValidUsername
  <2>6. RegisterRequest(id, p) = [code |-> 700, id |-> id, name |-> r.name, key |-> r.key]
    BY <2>3, <2>4, <2>5 DEF RegisterRequest
  <2> QED
    BY <1>2, <2>1, <2>2, <2>6
<1>4. CASE r.code \in {701, 704}
  <2>1. r = [code |-> code, id |-> id]
    BY <1>2, <1>4, RequestKinds
  <2>2. p = <<>>
    BY <1>2, <1>4, PayloadLayout
  <2>3. ParseRequest(q) = [code |-> code, id |-> id]
    BY <1>1, <1>2, <1>4, <2>2, Dispatch
  <2> QED
    BY <1>2, <2>1, <2>3
<1>5. CASE r.code = 702
  <2>1. r = [code |-> 702, id |-> id, target |-> r.target] /\ r.target \in Bytes(IdSize)
    BY <1>2, <1>5, RequestKinds
  <2>2. p = r.target /\ Len(p) = IdSize
    BY <1>2, <1>5, <2>1, PayloadLayout, BytesAreSeqs, Sizes
  <2>3. ParseRequest(q) = [code |-> 702, id |-> id, target |-> p]
    BY <1>1, <1>2, <1>5, <2>2, Dispatch
  <2> QED
    BY <1>2, <1>5, <2>1, <2>2, <2>3
<1>6. CASE r.code = 703
  <2> DEFINE n == Len(r.content)
  <2>1. /\ r = [code |-> 703, id |-> id, target |-> r.target, type |-> r.type, content |-> r.content]
        /\ r.type \in 1..3 /\ (r.type = 1 => r.content = <<>>) /\ r.content \in Seq(Byte)
    BY <1>2, <1>6, RequestKinds
  <2>2. ParseRequest(q) = SendRequest(id, p)
    BY <1>1, <1>2, <1>6, Dispatch
  <2>3. n \in Uint32
    BY <1>6, SmallContent
  <2>4. /\ Len(p) = IdSize + 5 + n /\ Field(p, 0, IdSize) = r.target /\ p[IdSize + 1] = r.type
        /\ readUint32LE(p, IdSize + 1) = n /\ Field(p, IdSize + 5, n) = r.content
    BY <1>2, <1>6, <2>3, PayloadLayout
  <2>5. n \in Nat /\ (r.type = 1 => n = 0)
    BY <2>1
  <2> HIDE DEF n
  <2>6. SendRequest(id, p) =
          [code |-> 703, id |-> id, target |-> r.target, type |-> r.type, content |-> r.content]
    BY <2>1, <2>4, <2>5, Sizes DEF SendRequest
  <2> QED
    BY <1>2, <2>1, <2>2, <2>6
<1> QED
  BY <1>3, <1>4, <1>5, <1>6, RequestKinds

-----------------------------------------------------------------------------
(* Rows *)

LEMMA DivMod ==
  ASSUME NEW n \in Nat, NEW size \in Nat \ {0}
  PROVE  (n * size) % size = 0 /\ (n * size) \div size = n
<1> DEFINE m == n * size
<1>1. m \in Nat /\ size \in Nat /\ size > 0
  BY SMTT(30)
<1>2. m = (m \div size) * size + (m % size) /\ m % size \in 0..size - 1
  <2> HIDE DEF m
  <2> QED
    BY <1>1, SMTT(30)
<1> DEFINE d == m \div size
<1>3. d \in Nat
  <2> HIDE DEF m
  <2> QED
    BY <1>1, SMTT(30)
<1>4. ~ (d < n) /\ ~ (d > n)
  <2> HIDE DEF d
  <2>1. m = d * size + (m % size)
    BY <1>2 DEF d
  <2> QED
    BY <1>1, <1>2, <1>3, <2>1, SMTT(30)
<1> QED
  BY <1>2, <1>3, <1>4, SMTT(30)

LEMMA RowLayout ==
  ASSUME NEW row \in Rows
  PROVE  /\ RowPayload(row) \in Seq(Byte) /\ Len(RowPayload(row)) = IdSize + NameSize
         /\ \A data \in Seq(Byte) : \A offset \in Nat :
              Part(data, offset, RowPayload(row)) => ReadRow(data, offset) = row
<1> DEFINE p    == RowPayload(row)
           id   == row.id
           name == NameField(row.name)
<1>0. row.id \in Bytes(IdSize) /\ row.name \in Usernames /\ row = [id |-> row.id, name |-> row.name]
  BY DEF Rows
<1>1. id \in Seq(Byte) /\ Len(id) = IdSize /\ IdSize \in Nat /\ NameSize \in Nat
  BY <1>0, Sizes, BytesAreSeqs
<1>2. name \in Seq(Byte) /\ Len(name) = NameSize /\ NameIn(name) = row.name
  BY <1>0, ReadName
<1>3. p = id \o name /\ id = row.id
  BY DEF RowPayload
<1> HIDE DEF p, id, name
<1>4. Join(p, id, name)
  BY <1>1, <1>2, <1>3 DEF Join
<1>5. p \in Seq(Byte) /\ Len(p) = IdSize + NameSize /\ Part(p, 0, id) /\ Part(p, IdSize, name)
  BY <1>1, <1>2, <1>4, Joined
<1>6. ASSUME NEW data \in Seq(Byte), NEW offset \in Nat, Part(data, offset, p)
      PROVE  ReadRow(data, offset) = row
  <2>1. Part(data, offset, id) /\ Part(data, offset + IdSize, name)
    BY <1>1, <1>2, <1>5, <1>6, PartOfPart
  <2>2. Field(data, offset, IdSize) = id /\ Field(data, offset + IdSize, NameSize) = name
    BY <1>1, <1>2, <2>1, PartIsField
  <2> QED
    BY <1>0, <1>2, <1>3, <2>2 DEF ReadRow
<1> QED
  BY <1>5, <1>6 DEF p

LEMMA ReadAllRows ==
  ASSUME NEW rows \in Seq(Rows)
  PROVE  LET p == RowsPayload(rows) IN
         /\ p \in Seq(Byte) /\ Len(p) = Len(rows) * (IdSize + NameSize)
         /\ ReadRows(p) = [code |-> 2101, rows |-> rows]
<1> DEFINE seqs == [i \in 1..Len(rows) |-> RowPayload(rows[i])]
           p    == FlattenSeq(seqs)
           n    == Len(rows)
           size == IdSize + NameSize
<1>1. n \in Nat /\ size \in Nat \ {0} /\ \A i \in 1..n : rows[i] \in Rows
  BY Sizes
<1>2. \A i \in 1..n : RowPayload(rows[i]) \in Seq(Byte) /\ Len(RowPayload(rows[i])) = size
  BY <1>1, RowLayout
<1>3. seqs \in Seq(Seq(Byte)) /\ Len(seqs) = n /\ \A i \in 1..n : seqs[i] = RowPayload(rows[i])
  <2>1. seqs = [i \in 1..n |-> RowPayload(rows[i])]
    OBVIOUS
  <2> HIDE DEF seqs, n, size
  <2>2. seqs \in [1..n -> Seq(Byte)]
    BY <1>2, <2>1
  <2> QED
    BY <1>1, <2>1, <2>2
<1>4. p = FlattenSeq(seqs) /\ size = IdSize + NameSize
  OBVIOUS
<1> HIDE DEF seqs, p, size
<1>5. /\ p \in Seq(Byte) /\ Len(p) = n * size
      /\ \A i \in 1..n : Part(p, (i - 1) * size, RowPayload(rows[i]))
  <2>1. \A i \in 1..Len(seqs) : Len(seqs[i]) = size
    BY <1>2, <1>3
  <2>2. /\ Len(FlattenSeq(seqs)) = Len(seqs) * size
        /\ \A i \in 1..Len(seqs) : Part(FlattenSeq(seqs), (i - 1) * size, seqs[i])
    BY <1>1, <1>3, <2>1, EqualPieces
  <2>3. FlattenSeq(seqs) \in Seq(Byte)
    BY <1>3, Pieces
  <2> QED
    BY <1>3, <1>4, <2>2, <2>3
<1>6. \A i \in 1..n : ReadRow(p, (i - 1) * size) = rows[i]
  <2>1. \A i \in 1..n : (i - 1) * size \in Nat
    BY <1>1, SMTT(30)
  <2> QED
    BY <1>1, <1>5, <2>1, RowLayout
<1>7. Len(p) % size = 0 /\ Len(p) \div size = n
  BY <1>1, <1>5, DivMod
<1>8. ReadRows(p) = [code |-> 2101, rows |-> [i \in 1..n |-> ReadRow(p, (i - 1) * size)]]
  BY <1>4, <1>7 DEF ReadRows
<1>9. [i \in 1..n |-> ReadRow(p, (i - 1) * size)] = rows
  <2>1. rows = [i \in 1..n |-> rows[i]]
    OBVIOUS
  <2> HIDE DEF n
  <2> QED
    BY <1>6, <2>1
<1> QED
  BY <1>4, <1>5, <1>8, <1>9 DEF p, seqs, RowsPayload

-----------------------------------------------------------------------------
(* Records *)

\* What the client keeps of a message.
Seen(m) == [from |-> m.from, type |-> m.type, content |-> m.content]

LEMMA RecordLayout ==
  ASSUME NEW m \in Messages, Len(m.content) \in Uint32
  PROVE  /\ RecordPayload(m) \in Seq(Byte)
         /\ Len(RecordPayload(m)) = TypeAt + 5 + Len(m.content)
         /\ \A data \in Seq(Byte) : \A offset \in Nat :
              Part(data, offset, RecordPayload(m)) =>
                /\ Field(data, offset, IdSize) = m.from
                /\ data[offset + TypeAt + 1] = m.type
                /\ readUint32LE(data, offset + TypeAt + 1) = Len(m.content)
                /\ Field(data, offset + TypeAt + 5, Len(m.content)) = m.content
<1> DEFINE p       == RecordPayload(m)
           from    == m.from
           no      == appendUint32LE(m.no)
           type    == <<m.type>>
           content == m.content
           n       == Len(content)
           size    == appendUint32LE(n)
<1>0. m.from \in Bytes(IdSize) /\ m.no \in Uint32 /\ m.type \in Byte /\ m.content \in Seq(Byte)
  BY DEF Messages
<1>1. from \in Seq(Byte) /\ Len(from) = IdSize /\ IdSize \in Nat /\ TypeAt = IdSize + 4
  BY <1>0, Sizes, BytesAreSeqs
<1>2. no \in Seq(Byte) /\ Len(no) = 4
  BY <1>0, Read32
<1>3. type \in Seq(Byte) /\ Len(type) = 1 /\ type[1] = m.type
  BY <1>0
<1>4. content \in Seq(Byte) /\ Len(content) = n /\ n \in Nat /\ n \in Uint32
  BY <1>0
<1>5. /\ size \in Seq(Byte) /\ Len(size) = 4
      /\ \A data : \A offset \in Nat : Part(data, offset, size) => readUint32LE(data, offset) = n
  <2> HIDE DEF n
  <2> QED
    BY <1>4, Read32
<1>6. p = from \o no \o type \o size \o content
  BY DEF RecordPayload
<1>7. p = RecordPayload(m) /\ from = m.from /\ content = m.content /\ n = Len(m.content)
  OBVIOUS
<1> HIDE DEF p, from, no, type, content, n, size
<1>8. Join5(p, from, no, type, size, content)
  BY <1>1, <1>2, <1>3, <1>4, <1>5, <1>6 DEF Join5
<1>9. /\ p \in Seq(Byte) /\ Len(p) = Len(from) + Len(no) + Len(type) + Len(size) + Len(content)
      /\ Part(p, 0, from) /\ Part(p, Len(from), no) /\ Part(p, Len(from) + Len(no), type)
      /\ Part(p, Len(from) + Len(no) + Len(type), size)
      /\ Part(p, Len(from) + Len(no) + Len(type) + Len(size), content)
  BY <1>8, Joined5
<1>10. /\ Len(p) = TypeAt + 5 + n /\ Part(p, 0, from) /\ Part(p, TypeAt, type)
       /\ Part(p, TypeAt + 1, size) /\ Part(p, TypeAt + 5, content)
  BY <1>1, <1>2, <1>3, <1>4, <1>5, <1>9
<1>11. ASSUME NEW data \in Seq(Byte), NEW offset \in Nat, Part(data, offset, p)
       PROVE  /\ Field(data, offset, IdSize) = from
              /\ data[offset + TypeAt + 1] = m.type
              /\ readUint32LE(data, offset + TypeAt + 1) = n
              /\ Field(data, offset + TypeAt + 5, n) = content
  <2>1. /\ TypeAt \in Nat /\ TypeAt + 1 \in Nat /\ TypeAt + 5 \in Nat
        /\ offset + 0 = offset /\ offset + (TypeAt + 1) = offset + TypeAt + 1
        /\ offset + (TypeAt + 5) = offset + TypeAt + 5
        /\ offset + TypeAt + 1 \in Nat /\ offset + TypeAt + 5 \in Nat
    BY <1>1
  <2>2. /\ Part(data, offset, from) /\ Part(data, offset + TypeAt, type)
        /\ Part(data, offset + TypeAt + 1, size) /\ Part(data, offset + TypeAt + 5, content)
    <3>1. Part(data, offset + 0, from)
      BY <1>1, <1>9, <1>10, <1>11, PartOfPart
    <3>2. Part(data, offset + TypeAt, type)
      BY <1>3, <1>9, <1>10, <1>11, <2>1, PartOfPart
    <3>3. Part(data, offset + (TypeAt + 1), size)
      BY <1>5, <1>9, <1>10, <1>11, <2>1, PartOfPart
    <3>4. Part(data, offset + (TypeAt + 5), content)
      BY <1>4, <1>9, <1>10, <1>11, <2>1, PartOfPart
    <3> QED
      BY <2>1, <3>1, <3>2, <3>3, <3>4
  <2>3. Field(data, offset, IdSize) = from /\ Field(data, offset + TypeAt + 5, n) = content
    BY <1>1, <1>4, <2>1, <2>2, PartIsField
  <2>4. data[offset + TypeAt + 1] = m.type
    BY <1>3, <2>2 DEF Part
  <2>5. readUint32LE(data, offset + TypeAt + 1) = n
    BY <1>5, <2>1, <2>2
  <2> QED
    BY <2>3, <2>4, <2>5
<1> QED
  BY <1>7, <1>9, <1>10, <1>11

LEMMA SizeIsNat ==
  ASSUME NEW data \in Seq(Byte), NEW offset \in Nat, offset + 4 <= Len(data)
  PROVE  readUint32LE(data, offset) \in Nat
<1>1. data[offset + 1] \in Byte /\ data[offset + 2] \in Byte
      /\ data[offset + 3] \in Byte /\ data[offset + 4] \in Byte
  OBVIOUS
<1>2. \A a, b, c, d \in 0..255 : a + 2^8 * b + 2^16 * c + 2^24 * d \in Nat
  OBVIOUS
<1> QED
  BY <1>1, <1>2, Zenon DEF readUint32LE, Byte

\* A turn of the loop reads nothing of the later turns but what they read.
LEMMA LaterTurns ==
  ASSUME NEW data \in Seq(Byte), NEW offset \in 0..Len(data), NEW f, NEW g,
         \A next \in offset + 1..Len(data) : f[next] = g[next]
  PROVE  ReadFrom(data, offset, f) = ReadFrom(data, offset, g)
<1> DEFINE size == readUint32LE(data, offset + TypeAt + 1)
           next == offset + TypeAt + 5 + size
<1>1. TypeAt \in Nat /\ offset \in Nat /\ Len(data) \in Nat
  BY Sizes
<1>2. CASE offset + TypeAt + 5 <= Len(data) /\ next <= Len(data)
  <2>1. offset + TypeAt + 1 \in Nat /\ offset + TypeAt + 1 + 4 <= Len(data)
    BY <1>1, <1>2
  <2>2. size \in Nat
    BY <2>1, SizeIsNat
  <2> HIDE DEF size
  <2>3. next \in offset + 1..Len(data)
    BY <1>1, <1>2, <2>2
  <2>4. f[next] = g[next]
    BY <2>3
  <2> QED
    BY <2>4 DEF ReadFrom, size
<1>3. CASE ~ (offset + TypeAt + 5 <= Len(data) /\ next <= Len(data))
  BY <1>3 DEF ReadFrom
<1> QED
  BY <1>2, <1>3

\* What the turns of responseWaitingMessages read, each from its offset on.
AllTurns(data, records) ==
  /\ records = [offset \in 0..Len(data) |-> ReadFrom(data, offset, records)]
  /\ ReadRecords(data) =
       IF Contains(records[0], None) THEN None ELSE [code |-> 2104, msgs |-> records[0]]

LEMMA Turns ==
  ASSUME NEW data \in Seq(Byte)
  PROVE  \E records : AllTurns(data, records)
<1> DEFINE n       == Len(data)
           P(f, k) == f = [offset \in n + 1 - k..n |-> ReadFrom(data, offset, f)]
           K       == {k \in Nat : k <= n + 1 => \E f : P(f, k)}
           Q(f)    == f = [offset \in 0..Len(data) |-> ReadFrom(data, offset, f)]
           records == CHOOSE f : Q(f)
<1>1. n \in Nat
  OBVIOUS
<1>2. 0 \in K
  <2> DEFINE f == [offset \in n + 1 - 0..n |-> ReadFrom(data, offset, <<>>)]
  <2>1. n + 1 - 0..n = {}
    BY <1>1
  <2>2. P(f, 0)
    BY <2>1
  <2> HIDE DEF P
  <2> QED
    BY <2>2
<1>3. ASSUME NEW k \in Nat, k + 1 <= n + 1, NEW g, P(g, k)
      PROVE  \E f : P(f, k + 1)
  <2> DEFINE f == [offset \in n + 1 - (k + 1)..n |-> ReadFrom(data, offset, g)]
  <2>1. \A offset \in n + 1 - k..n : g[offset] = ReadFrom(data, offset, g)
    <3>1. \A offset \in n + 1 - k..n :
            [o \in n + 1 - k..n |-> ReadFrom(data, o, g)][offset] = ReadFrom(data, offset, g)
      OBVIOUS
    <3> QED
      BY <1>3, <3>1, Zenon
  <2>2. \A offset \in n + 1 - k..n : f[offset] = g[offset]
    <3>1. \A offset \in n + 1 - k..n : f[offset] = ReadFrom(data, offset, g)
      BY <1>1, <1>3
    <3> HIDE DEF f
    <3> QED
      BY <2>1, <3>1
  <2>3. ASSUME NEW offset \in n + 1 - (k + 1)..n
        PROVE  ReadFrom(data, offset, f) = ReadFrom(data, offset, g)
    <3>1. offset \in 0..Len(data)
      BY <1>1, <1>3
    <3>2. \A next \in offset + 1..Len(data) : next \in n + 1 - k..n
      BY <1>1, <1>3
    <3>3. \A next \in offset + 1..Len(data) : f[next] = g[next]
      <4> HIDE DEF f
      <4> QED
        BY <2>2, <3>2
    <3> HIDE DEF f
    <3> QED
      BY <3>1, <3>3, LaterTurns
  <2>4. P(f, k + 1)
    BY <2>3, Zenon
  <2> HIDE DEF P
  <2> QED
    BY <2>4
<1>4. \E f : P(f, n + 1)
  <2> HIDE DEF P
  <2>1. \A k \in Nat : k \in K => k + 1 \in K
    BY <1>1, <1>3
  <2>2. n + 1 \in K
    <3> HIDE DEF K
    <3> QED
      BY <1>1, <1>2, <2>1, Induction
  <2> QED
    BY <1>1, <2>2
<1>5. n + 1 - (n + 1)..n = 0..Len(data)
  BY <1>1
<1>6. \E f : Q(f)
  <2> HIDE DEF n
  <2> QED
    BY <1>4, <1>5, Zenon
<1>7. Q(records)
  <2> HIDE DEF Q
  <2> QED
    BY <1>6, Zenon
<1>8. ReadRecords(data) = IF Contains(records[0], None) THEN None
                          ELSE [code |-> 2104, msgs |-> records[0]]
  BY Zenon DEF ReadRecords
<1>9. AllTurns(data, records)
  BY <1>7, <1>8, Zenon DEF AllTurns
<1> HIDE DEF records
<1> QED
  BY <1>9

LEMMA Prepended ==
  ASSUME NEW T, NEW e \in T, NEW s \in Seq(T), NEW t \in Seq(T),
         Len(t) = Len(s) + 1, t[1] = e, \A j \in 1..Len(s) : t[j + 1] = s[j]
  PROVE  t = <<e>> \o s
<1> DEFINE q == <<e>> \o s
<1>1. <<e>> \in Seq(T) /\ Len(<<e>>) = 1 /\ <<e>>[1] = e
  OBVIOUS
<1>2. q \in Seq(T) /\ Len(q) = Len(t) /\ q[1] = t[1]
  BY <1>1
<1>3. ASSUME NEW i \in 1..Len(t) PROVE q[i] = t[i]
  <2>1. CASE i = 1
    BY <1>2, <2>1
  <2>2. CASE i # 1
    <3>1. i - 1 \in 1..Len(s) /\ (i - 1) + 1 = i
      BY <2>2
    <3>2. q[i] = s[i - 1]
      BY <1>1, <3>1
    <3> HIDE DEF q
    <3> QED
      BY <3>1, <3>2
  <2> QED
    BY <2>1, <2>2
<1>4. t = q
  <2> HIDE DEF q
  <2> QED
    BY <1>2, <1>3, SeqEqual
<1> QED
  BY <1>4

LEMMA ReadAllRecords ==
  ASSUME NEW msgs \in Seq(Messages),
         \A i \in 1..Len(msgs) : Len(msgs[i].content) \in Uint32 /\ Seen(msgs[i]) # None
  PROVE  LET p == RecordsPayload(msgs) IN
         /\ p \in Seq(Byte)
         /\ ReadRecords(p) = [code |-> 2104, msgs |-> [i \in 1..Len(msgs) |-> Seen(msgs[i])]]
<1> DEFINE seqs == [i \in 1..Len(msgs) |-> RecordPayload(msgs[i])]
           p    == FlattenSeq(seqs)
           n    == Len(msgs)
<1>1. n \in Nat /\ \A i \in 1..n : msgs[i] \in Messages
  OBVIOUS
<1>2. \A i \in 1..n : /\ RecordPayload(msgs[i]) \in Seq(Byte)
                      /\ Len(RecordPayload(msgs[i])) = TypeAt + 5 + Len(msgs[i].content)
  BY <1>1, RecordLayout
<1>3. seqs \in Seq(Seq(Byte)) /\ Len(seqs) = n /\ \A i \in 1..n : seqs[i] = RecordPayload(msgs[i])
  <2>1. seqs = [i \in 1..n |-> RecordPayload(msgs[i])]
    OBVIOUS
  <2> HIDE DEF seqs, n
  <2>2. seqs \in [1..n -> Seq(Byte)]
    BY <1>2, <2>1
  <2> QED
    BY <1>1, <2>1, <2>2
<1>4. p = FlattenSeq(seqs) /\ n = Len(msgs)
  OBVIOUS
<1> HIDE DEF seqs, p, n
<1>5. PICK at \in [0..n -> Nat] :
        /\ at[0] = 0 /\ at[n] = Len(p)
        /\ \A i \in 1..n : /\ at[i] = at[i - 1] + Len(RecordPayload(msgs[i]))
                           /\ Part(p, at[i - 1], RecordPayload(msgs[i]))
  <2>1. \E at \in [0..Len(seqs) -> Nat] :
          /\ at[0] = 0 /\ at[Len(seqs)] = Len(FlattenSeq(seqs))
          /\ \A i \in 1..Len(seqs) : /\ at[i] = at[i - 1] + Len(seqs[i])
                                     /\ Part(FlattenSeq(seqs), at[i - 1], seqs[i])
    BY <1>3, Pieces
  <2>2. PICK at \in [0..n -> Nat] :
          /\ at[0] = 0 /\ at[n] = Len(p)
          /\ \A i \in 1..n : at[i] = at[i - 1] + Len(seqs[i]) /\ Part(p, at[i - 1], seqs[i])
    BY <1>3, <1>4, <2>1
  <2> QED
    BY <1>3, <2>2
<1>6. p \in Seq(Byte)
  BY <1>3, <1>4, Pieces
<1>7. PICK records : AllTurns(p, records)
  BY <1>6, Turns
<1>8. \A offset \in 0..Len(p) : records[offset] = ReadFrom(p, offset, records)
  <2>1. \A offset \in 0..Len(p) :
          [o \in 0..Len(p) |-> ReadFrom(p, o, records)][offset] = ReadFrom(p, offset, records)
    OBVIOUS
  <2>2. records = [offset \in 0..Len(p) |-> ReadFrom(p, offset, records)]
    BY <1>7, Zenon DEF AllTurns
  <2> QED
    BY <2>1, <2>2, Zenon
<1>9. ASSUME NEW i \in 1..n
      PROVE  /\ at[i - 1] \in 0..Len(p) /\ at[i] \in 0..Len(p)
             /\ records[at[i - 1]] = <<Seen(msgs[i])>> \o records[at[i]]
  <2> DEFINE m    == msgs[i]
             l    == Len(m.content)
             from == at[i - 1]
             to   == at[i]
  <2>1. m \in Messages /\ l \in Uint32 /\ l \in Nat
    BY <1>1, <1>4 DEF Uint32
  <2>2. from \in Nat /\ to \in Nat
    BY <1>1, <1>5
  <2>3. to = from + TypeAt + 5 + l /\ to <= Len(p)
    <3>1. Len(RecordPayload(m)) = TypeAt + 5 + l
      BY <1>2
    <3>2. to = from + Len(RecordPayload(m)) /\ Part(p, from, RecordPayload(m))
      BY <1>5
    <3> HIDE DEF m, l, from, to
    <3> QED
      BY <2>1, <2>2, <3>1, <3>2, Sizes DEF Part
  <2>4. /\ Field(p, from, IdSize) = m.from /\ p[from + TypeAt + 1] = m.type
        /\ readUint32LE(p, from + TypeAt + 1) = l
        /\ Field(p, from + TypeAt + 5, l) = m.content
    <3>1. Part(p, from, RecordPayload(m))
      BY <1>5
    <3> HIDE DEF m, from
    <3> QED
      BY <1>6, <2>1, <2>2, <3>1, RecordLayout DEF l
  <2>5. TypeAt \in Nat /\ Len(p) \in Nat
    BY <1>6, Sizes
  <2>6. l = Len(msgs[i].content) /\ from = at[i - 1] /\ to = at[i] /\ m = msgs[i]
    OBVIOUS
  <2> HIDE DEF l, from, to, m
  <2>7. /\ from # Len(p) /\ from < Len(p) /\ from + TypeAt + 5 <= Len(p)
        /\ from \in 0..Len(p) /\ to \in 0..Len(p)
    BY <2>1, <2>2, <2>3, <2>5
  <2>8. ReadFrom(p, from, records) = <<Seen(m)>> \o records[to]
    <3> DEFINE next == from + TypeAt + 5 + readUint32LE(p, from + TypeAt + 1)
    <3>1. next = to /\ ~ (to > Len(p)) /\ ~ (from + TypeAt + 5 > Len(p))
      BY <2>2, <2>3, <2>4, <2>5, <2>7
    <3>2. ReadFrom(p, from, records) =
            CASE from = Len(p)                                    -> <<>>
              [] from < Len(p) /\ from + TypeAt + 5 > Len(p)      -> <<None>>
              [] from + TypeAt + 5 <= Len(p) /\ next > Len(p)     -> <<None>>
              [] from + TypeAt + 5 <= Len(p) /\ next <= Len(p)    ->
                   <<[from |-> Field(p, from, IdSize), type |-> p[from + TypeAt + 1],
                      content |-> Field(p, from + TypeAt + 5, readUint32LE(p, from + TypeAt + 1))]>>
                     \o records[next]
      BY Zenon DEF ReadFrom
    <3> HIDE DEF next
    <3>3. ReadFrom(p, from, records) =
            <<[from |-> Field(p, from, IdSize), type |-> p[from + TypeAt + 1],
               content |-> Field(p, from + TypeAt + 5, readUint32LE(p, from + TypeAt + 1))]>>
              \o records[next]
      BY <2>3, <2>7, <3>1, <3>2
    <3> QED
      BY <2>4, <3>1, <3>3 DEF Seen
  <2> QED
    BY <1>8, <2>6, <2>7, <2>8
<1>10. records[at[n]] = <<>>
  <2>1. Len(p) \in 0..Len(p)
    BY <1>6
  <2>2. ReadFrom(p, Len(p), records) = <<>>
    <3>1. ~ (Len(p) < Len(p)) /\ ~ (Len(p) + TypeAt + 5 <= Len(p))
      BY <1>6, Sizes
    <3> QED
      BY <3>1, Zenon DEF ReadFrom
  <2> QED
    BY <1>5, <1>8, <2>1, <2>2
<1> DEFINE Rest(k) == [j \in 1..k |-> Seen(msgs[n - k + j])]
           K == {k \in Nat : k <= n => records[at[n - k]] = Rest(k)}
<1>11. 0 \in K
  <2>1. Rest(0) = <<>>
    OBVIOUS
  <2> HIDE DEF Rest
  <2> QED
    BY <1>1, <1>10, <2>1
<1>12. ASSUME NEW k \in Nat, k \in K PROVE k + 1 \in K
  <2> SUFFICES ASSUME k + 1 <= n PROVE records[at[n - (k + 1)]] = Rest(k + 1)
    OBVIOUS
  <2>1. n - k \in 1..n /\ (n - k) - 1 = n - (k + 1)
    BY <1>1
  <2>2. records[at[n - (k + 1)]] = <<Seen(msgs[n - k])>> \o records[at[n - k]]
    BY <1>9, <2>1
  <2>3. records[at[n - k]] = Rest(k)
    BY <1>1, <1>12
  <2>4. Rest(k + 1) = <<Seen(msgs[n - k])>> \o Rest(k)
    <3> DEFINE T == {Seen(m) : m \in Messages}
               e == Seen(msgs[n - k])
               b == Rest(k)
               c == Rest(k + 1)
    <3>1. \A i \in 1..n : Seen(msgs[i]) \in T
      BY <1>1, <1>4
    <3> HIDE DEF T
    <3>2. /\ n - k \in 1..n /\ n - (k + 1) + 1 = n - k
          /\ \A j \in 1..k : n - k + j \in 1..n /\ n - (k + 1) + (j + 1) = n - k + j
          /\ \A j \in 1..k + 1 : n - (k + 1) + j \in 1..n
      BY <1>1
    <3>3. e \in T /\ b \in [1..k -> T] /\ c \in [1..k + 1 -> T]
      BY <3>1, <3>2
    <3>4. b \in Seq(T) /\ Len(b) = k /\ c \in Seq(T) /\ Len(c) = Len(b) + 1
      BY <3>3
    <3>5. c[1] = e
      BY <3>2
    <3>6. \A j \in 1..k : b[j] = Seen(msgs[n - k + j]) /\ c[j + 1] = Seen(msgs[n - (k + 1) + (j + 1)])
      OBVIOUS
    <3>7. \A j \in 1..k : c[j + 1] = b[j]
      <4> HIDE DEF b, c
      <4> QED
        BY <3>2, <3>6
    <3> HIDE DEF b, c, e
    <3>8. c = <<e>> \o b
      BY <3>3, <3>4, <3>5, <3>7, Prepended
    <3> QED
      BY <3>8 DEF b, c, e
  <2> HIDE DEF Rest
  <2> QED
    BY <2>2, <2>3, <2>4
<1>13. records[0] = [i \in 1..n |-> Seen(msgs[i])]
  <2>1. Nat \subseteq K
    <3> HIDE DEF K
    <3> QED
      BY <1>11, <1>12, Induction
  <2>2. records[at[n - n]] = Rest(n)
    <3> HIDE DEF Rest
    <3> QED
      BY <1>1, <2>1
  <2>3. n - n = 0 /\ \A i \in 1..n : n - n + i = i
    BY <1>1
  <2> QED
    BY <1>5, <2>2, <2>3
<1>14. ~ Contains(records[0], None)
  <2>1. Len(records[0]) = n /\ \A i \in 1..n : records[0][i] = Seen(msgs[i])
    BY <1>1, <1>13
  <2> QED
    BY <1>4, <2>1 DEF Contains
<1>15. ReadRecords(p) = [code |-> 2104, msgs |-> [i \in 1..n |-> Seen(msgs[i])]]
  <2>1. ReadRecords(p) = IF Contains(records[0], None) THEN None ELSE [code |-> 2104, msgs |-> records[0]]
    BY <1>7, Zenon DEF AllTurns
  <2>2. ReadRecords(p) = [code |-> 2104, msgs |-> records[0]]
    BY <1>14, <2>1
  <2> QED
    BY <1>13, <2>2
<1> QED
  BY <1>4, <1>6, <1>15 DEF p, seqs, RecordsPayload

-----------------------------------------------------------------------------
(* Responses *)

LEMMA ReplyKinds ==
  ASSUME NEW a \in Responses
  PROVE  \/ a.code = 2100 /\ a = [code |-> 2100, id |-> a.id] /\ a.id \in Bytes(IdSize)
         \/ a.code = 2101 /\ a = [code |-> 2101, rows |-> a.rows] /\ a.rows \in Seq(Rows)
         \/ a.code = 2102 /\ a = [code |-> 2102, id |-> a.id, key |-> a.key]
            /\ a.id \in Bytes(IdSize) /\ a.key \in Bytes(KeySize)
         \/ a.code = 2103 /\ a = [code |-> 2103, id |-> a.id, no |-> a.no]
            /\ a.id \in Bytes(IdSize) /\ a.no \in Uint32
         \/ a.code = 2104 /\ a = [code |-> 2104, msgs |-> a.msgs] /\ a.msgs \in Seq(Messages)
         \/ a.code = 9000 /\ a = [code |-> 9000]
<1> DEFINE Id == Bytes(IdSize)
<1>1. CASE a \in [code : {2100}, id : Id]
  BY <1>1
<1>2. CASE a \in [code : {2101}, rows : Seq(Rows)]
  BY <1>2
<1>3. CASE a \in [code : {2102}, id : Id, key : Bytes(KeySize)]
  BY <1>3
<1>4. CASE a \in [code : {2103}, id : Id, no : Uint32]
  BY <1>4
<1>5. CASE a \in [code : {2104}, msgs : Seq(Messages)]
  BY <1>5
<1>6. CASE a = [code |-> 9000]
  BY <1>6
<1> QED
  BY <1>1, <1>2, <1>3, <1>4, <1>5, <1>6 DEF Responses

\* The client can show whatever messages there are.
Readable(a) ==
  a.code = 2104 =>
    \A i \in 1..Len(a.msgs) : Len(a.msgs[i].content) \in Uint32 /\ Seen(a.msgs[i]) # None

LEMMA TwoParts ==
  ASSUME NEW q, NEW a, NEW b, Join(q, a, b)
  PROVE  /\ q \in Seq(Byte) /\ Len(q) = Len(a) + Len(b) /\ Part(q, Len(a), b)
         /\ Field(q, 0, Len(a)) = a /\ Field(q, Len(a), Len(b)) = b
<1>1. a \in Seq(Byte) /\ b \in Seq(Byte)
  BY DEF Join
<1>2. q \in Seq(Byte) /\ Len(q) = Len(a) + Len(b) /\ Part(q, 0, a) /\ Part(q, Len(a), b)
  BY Joined
<1>3. 0 \in Nat /\ Len(a) \in Nat
  BY <1>1
<1> QED
  BY <1>1, <1>2, <1>3, PartIsField

LEMMA ReplyPayloadLayout ==
  ASSUME NEW a \in Responses, Readable(a)
  PROVE  /\ ReplyPayload(a) \in Seq(Byte)
         /\ a.code = 2100 => Field(ReplyPayload(a), 0, IdSize) = a.id /\ Len(ReplyPayload(a)) = IdSize
         /\ a.code = 2101 => /\ ReadRows(ReplyPayload(a)) = a
                             /\ Len(ReplyPayload(a)) = Len(a.rows) * (IdSize + NameSize)
         /\ a.code = 2102 => /\ Len(ReplyPayload(a)) = IdSize + KeySize
                             /\ Field(ReplyPayload(a), 0, IdSize) = a.id
                             /\ Field(ReplyPayload(a), IdSize, KeySize) = a.key
         /\ a.code = 2103 => /\ Len(ReplyPayload(a)) = IdSize + 4
                             /\ Field(ReplyPayload(a), 0, IdSize) = a.id
                             /\ readUint32LE(ReplyPayload(a), IdSize) = a.no
         /\ a.code = 2104 =>
              ReadRecords(ReplyPayload(a)) =
                [code |-> 2104, msgs |-> [i \in 1..Len(a.msgs) |-> Seen(a.msgs[i])]]
         /\ a.code = 9000 => Len(ReplyPayload(a)) = 0
<1> DEFINE p  == ReplyPayload(a)
           id == a.id
<1>1. (a.code = 2102 => p = id \o a.key) /\ (a.code = 2103 => p = id \o appendUint32LE(a.no))
  <2> DEFINE code == a.code
             rows == RowsPayload(a.rows)
             key  == a.id \o a.key
             no   == a.id \o appendUint32LE(a.no)
             msgs == RecordsPayload(a.msgs)
  <2>1. p = CASE code = 2100 -> id [] code = 2101 -> rows [] code = 2102 -> key
              [] code = 2103 -> no [] code = 2104 -> msgs [] OTHER -> <<>>
    BY Zenon DEF ReplyPayload
  <2>2. code = a.code /\ key = id \o a.key /\ no = id \o appendUint32LE(a.no)
    OBVIOUS
  <2> HIDE DEF code, id, rows, key, no, msgs, p
  <2>3. (code = 2102 => p = key) /\ (code = 2103 => p = no)
    BY <2>1
  <2> QED
    BY <2>2, <2>3
<1>2. p = ReplyPayload(a) /\ id = a.id
  OBVIOUS
<1>3. a.code \in {2100, 2102, 2103} => id \in Seq(Byte) /\ Len(id) = IdSize
  BY ReplyKinds, Sizes, BytesAreSeqs
<1> HIDE DEF p, id
<1>4. ASSUME a.code = 2100 PROVE p \in Seq(Byte) /\ Field(p, 0, IdSize) = id /\ Len(p) = IdSize
  <2>1. p = id
    <3>1. a.code # 2101 /\ a.code # 2102 /\ a.code # 2103 /\ a.code # 2104 /\ a.code # 9000
      BY <1>4
    <3>2. ReplyPayload(a) = a.id
      BY <1>4, <3>1 DEF ReplyPayload
    <3> QED
      BY <1>2, <3>2
  <2>2. Part(p, 0, id)
    BY <1>3, <1>4, <2>1 DEF Part
  <2> QED
    BY <1>3, <1>4, <2>1, <2>2, PartIsField
<1>5. ASSUME a.code = 2101
      PROVE p \in Seq(Byte) /\ ReadRows(p) = a /\ Len(p) = Len(a.rows) * (IdSize + NameSize)
  <2> DEFINE rows == a.rows
  <2>1. rows \in Seq(Rows) /\ a = [code |-> 2101, rows |-> rows]
    BY <1>5, ReplyKinds
  <2>2. p = RowsPayload(rows)
    <3>1. a.code # 2100 /\ a.code # 2102 /\ a.code # 2103 /\ a.code # 2104 /\ a.code # 9000
      BY <1>5
    <3>2. ReplyPayload(a) = RowsPayload(a.rows)
      BY <1>5, <3>1 DEF ReplyPayload
    <3> QED
      BY <1>2, <3>2
  <2> HIDE DEF rows
  <2>3. /\ p \in Seq(Byte) /\ Len(p) = Len(rows) * (IdSize + NameSize)
        /\ ReadRows(p) = [code |-> 2101, rows |-> rows]
    BY <2>1, <2>2, ReadAllRows
  <2> QED
    BY <2>1, <2>3 DEF rows
<1>6. ASSUME a.code = 2102
      PROVE  /\ p \in Seq(Byte) /\ Len(p) = IdSize + KeySize
             /\ Field(p, 0, IdSize) = id /\ Field(p, IdSize, KeySize) = a.key
  <2> DEFINE key == a.key
  <2>1. key \in Seq(Byte) /\ Len(key) = KeySize
    BY <1>6, ReplyKinds, Sizes, BytesAreSeqs
  <2>2. p = id \o key
    BY <1>1, <1>6
  <2>3. Join(p, id, key)
    BY <1>3, <1>6, <2>1, <2>2 DEF Join
  <2> HIDE DEF key
  <2>4. /\ p \in Seq(Byte) /\ Len(p) = Len(id) + Len(key)
        /\ Field(p, 0, Len(id)) = id /\ Field(p, Len(id), Len(key)) = key
    BY <2>3, TwoParts
  <2> QED
    BY <1>3, <1>6, <2>1, <2>4 DEF key
<1>7. ASSUME a.code = 2103
      PROVE  /\ p \in Seq(Byte) /\ Len(p) = IdSize + 4
             /\ Field(p, 0, IdSize) = id /\ readUint32LE(p, IdSize) = a.no
  <2> DEFINE no  == a.no
             size == appendUint32LE(no)
  <2>1. no \in Uint32 /\ no = a.no
    BY <1>7, ReplyKinds
  <2>2. p = id \o size
    BY <1>1, <1>7
  <2>3. /\ size \in Seq(Byte) /\ Len(size) = 4
        /\ \A data : \A offset \in Nat : Part(data, offset, size) => readUint32LE(data, offset) = no
    <3> HIDE DEF no
    <3> QED
      BY <2>1, Read32
  <2> HIDE DEF no, size
  <2>4. p \in Seq(Byte) /\ Len(p) = Len(id) + 4 /\ Part(p, Len(id), size) /\ Field(p, 0, Len(id)) = id
    <3>1. Join(p, id, size)
      BY <1>3, <1>7, <2>2, <2>3 DEF Join
    <3>2. /\ p \in Seq(Byte) /\ Len(p) = Len(id) + Len(size)
          /\ Part(p, Len(id), size) /\ Field(p, 0, Len(id)) = id
      BY <3>1, TwoParts
    <3> QED
      BY <2>3, <3>2
  <2>5. Len(id) = IdSize /\ IdSize \in Nat
    BY <1>3, <1>7, Sizes
  <2> QED
    BY <2>1, <2>3, <2>4, <2>5
<1>8. ASSUME a.code = 2104
      PROVE  /\ p \in Seq(Byte)
             /\ ReadRecords(p) = [code |-> 2104, msgs |-> [i \in 1..Len(a.msgs) |-> Seen(a.msgs[i])]]
  <2> DEFINE msgs == a.msgs
  <2>1. /\ msgs \in Seq(Messages)
        /\ \A i \in 1..Len(msgs) : Len(msgs[i].content) \in Uint32 /\ Seen(msgs[i]) # None
    BY <1>8, ReplyKinds DEF Readable
  <2>2. p = RecordsPayload(msgs)
    <3>1. a.code # 2100 /\ a.code # 2101 /\ a.code # 2102 /\ a.code # 2103 /\ a.code # 9000
      BY <1>8
    <3>2. ReplyPayload(a) = RecordsPayload(a.msgs)
      BY <1>8, <3>1 DEF ReplyPayload
    <3> QED
      BY <1>2, <3>2
  <2> HIDE DEF msgs
  <2>3. /\ p \in Seq(Byte)
        /\ ReadRecords(p) = [code |-> 2104, msgs |-> [i \in 1..Len(msgs) |-> Seen(msgs[i])]]
    BY <2>1, <2>2, ReadAllRecords
  <2> QED
    BY <2>3 DEF msgs
<1>9. ASSUME a.code = 9000 PROVE p \in Seq(Byte) /\ Len(p) = 0
  <2>1. p = <<>>
    <3>1. a.code # 2100 /\ a.code # 2101 /\ a.code # 2102 /\ a.code # 2103 /\ a.code # 2104
      BY <1>9
    <3>2. ReplyPayload(a) = <<>>
      BY <1>9, <3>1 DEF ReplyPayload
    <3> QED
      BY <1>2, <3>2
  <2> QED
    BY <2>1
<1> QED
  BY <1>2, <1>4, <1>5, <1>6, <1>7, <1>8, <1>9, ReplyKinds

\* The payload of a response is no longer than its size field can say.
SmallReply(a) == Readable(a) /\ Len(ReplyPayload(a)) \in Uint32

LEMMA ReplyLayout ==
  ASSUME NEW a \in Responses, SmallReply(a)
  PROVE  /\ _build_response(a) \in Seq(Byte) /\ ReplyPayload(a) \in Seq(Byte)
         /\ Len(_build_response(a)) = ReplyHeader + Len(ReplyPayload(a))
         /\ readUint16LE(_build_response(a), 1) = a.code
         /\ readUint32LE(_build_response(a), 3) = Len(ReplyPayload(a))
         /\ SubSeq(_build_response(a), ReplyHeader + 1, Len(_build_response(a))) = ReplyPayload(a)
<1> DEFINE q       == _build_response(a)
           p       == ReplyPayload(a)
           n       == Len(p)
           version == <<2>>
           code    == appendUint16LE(a.code)
           size    == appendUint32LE(n)
<1>1. version \in Seq(Byte) /\ Len(version) = 1
  BY DEF Byte
<1>2. a.code \in Nat /\ a.code < 2^16
  BY ReplyKinds
<1>3. /\ code \in Seq(Byte) /\ Len(code) = 2
      /\ \A data : \A offset \in Nat : Part(data, offset, code) => readUint16LE(data, offset) = a.code
  BY <1>2, Read16
<1>4. p \in Seq(Byte) /\ n \in Uint32 /\ n = Len(p) /\ n \in Nat
  BY ReplyPayloadLayout DEF SmallReply, Uint32
<1>5. /\ size \in Seq(Byte) /\ Len(size) = 4
      /\ \A data : \A offset \in Nat : Part(data, offset, size) => readUint32LE(data, offset) = n
  <2> HIDE DEF n
  <2> QED
    BY <1>4, Read32
<1>6. q = version \o code \o size \o p
  BY DEF _build_response
<1>7. p = ReplyPayload(a) /\ q = _build_response(a)
  OBVIOUS
<1> HIDE DEF q, p, n, version, code, size
<1>8. Join4(q, version, code, size, p)
  BY <1>1, <1>3, <1>4, <1>5, <1>6 DEF Join4
<1>9. /\ q \in Seq(Byte) /\ Len(q) = Len(version) + Len(code) + Len(size) + Len(p)
      /\ Part(q, 0, version) /\ Part(q, Len(version), code)
      /\ Part(q, Len(version) + Len(code), size)
      /\ Part(q, Len(version) + Len(code) + Len(size), p)
  BY <1>8, Joined4
<1>10. /\ Len(q) = ReplyHeader + n /\ Part(q, 1, code) /\ Part(q, 3, size)
       /\ Part(q, ReplyHeader, p) /\ ReplyHeader \in Nat
  BY <1>1, <1>3, <1>4, <1>5, <1>9, Sizes
<1>11. Field(q, ReplyHeader, n) = p
  BY <1>4, <1>9, <1>10, PartIsField
<1>12. readUint16LE(q, 1) = a.code /\ readUint32LE(q, 3) = n
  BY <1>3, <1>5, <1>10
<1>13. SubSeq(q, ReplyHeader + 1, Len(q)) = p
  BY <1>10, <1>11 DEF Field
<1> QED
  BY <1>4, <1>7, <1>9, <1>10, <1>12, <1>13

\* How responseClientMain splits the bytes of a response.
SplitsReply(q, code, p) ==
  readUint16LE(q, 1) = code /\ SubSeq(q, ReplyHeader + 1, Len(q)) = p

LEMMA ReplyDispatch ==
  ASSUME NEW q, NEW p, NEW code, SplitsReply(q, code, p)
  PROVE  /\ code \notin 2100..2104 => ParseReply(q) = [code |-> code]
         /\ code = 2100 /\ Len(p) >= IdSize => ParseReply(q) = [code |-> code, id |-> Field(p, 0, IdSize)]
         /\ code = 2101 => ParseReply(q) = ReadRows(p)
         /\ code = 2102 /\ Len(p) >= IdSize + KeySize =>
              ParseReply(q) = [code |-> code, id |-> Field(p, 0, IdSize), key |-> Field(p, IdSize, KeySize)]
         /\ code = 2103 /\ Len(p) >= IdSize + 4 =>
              ParseReply(q) = [code |-> code, id |-> Field(p, 0, IdSize), no |-> readUint32LE(p, IdSize)]
         /\ code = 2104 => ParseReply(q) = ReadRecords(p)
<1> DEFINE C  == readUint16LE(q, 1)
           P  == SubSeq(q, ReplyHeader + 1, Len(q))
           id == Field(P, 0, IdSize)
           n  == Len(P)
           x  == [code |-> C, id |-> id]
           y  == [code |-> C, id |-> id, key |-> Field(P, IdSize, KeySize)]
           z  == [code |-> C, id |-> id, no |-> readUint32LE(P, IdSize)]
           e  == [code |-> C]
           r  == ParseReply(q)
<1>1. r = CASE C \notin 2100..2104               -> e
            [] C = 2100 /\ n >= IdSize           -> x
            [] C = 2101                          -> ReadRows(P)
            [] C = 2102 /\ n >= IdSize + KeySize -> y
            [] C = 2103 /\ n >= IdSize + 4       -> z
            [] C = 2104                          -> ReadRecords(P)
            [] OTHER                                -> None
  BY Zenon DEF ParseReply
<1>2. C = code /\ P = p
  BY DEF SplitsReply
<1> HIDE DEF C, P, id, n, x, y, z, e, r
<1>3. /\ C \notin 2100..2104 => r = e
      /\ C = 2100 /\ n >= IdSize => r = x
      /\ C = 2101 => r = ReadRows(P)
      /\ C = 2102 /\ n >= IdSize + KeySize => r = y
      /\ C = 2103 /\ n >= IdSize + 4 => r = z
      /\ C = 2104 => r = ReadRecords(P)
  BY <1>1
<1> QED
  BY <1>2, <1>3 DEF id, n, x, y, z, e, r

\* What the client gets of a response.
Kept(a) ==
  IF a.code = 2104 THEN [code |-> 2104, msgs |-> [i \in 1..Len(a.msgs) |-> Seen(a.msgs[i])]] ELSE a

\* responseClientMain reads of the bytes that _build_response made of a
\* response that very response, but for the numbers of messages, which it skips.
THEOREM ReadReply ==
  ASSUME NEW a \in Responses, SmallReply(a)
  PROVE  ParseReply(_build_response(a)) = Kept(a)
<1> DEFINE q    == _build_response(a)
           p    == ReplyPayload(a)
           code == a.code
<1>1. SplitsReply(q, code, p)
  BY ReplyLayout DEF SplitsReply
<1>2. Readable(a) /\ IdSize \in Nat /\ KeySize \in Nat
  BY Sizes DEF SmallReply
<1>3. p = ReplyPayload(a) /\ q = _build_response(a) /\ code = a.code
  OBVIOUS
<1> HIDE DEF q, p, code
<1>4. CASE a.code = 2100
  <2>1. Field(p, 0, IdSize) = a.id /\ Len(p) = IdSize
    BY <1>2, <1>3, <1>4, ReplyPayloadLayout
  <2>2. ParseReply(q) = [code |-> code, id |-> Field(p, 0, IdSize)]
    BY <1>1, <1>2, <1>3, <1>4, <2>1, ReplyDispatch
  <2>3. a = [code |-> 2100, id |-> a.id]
    BY <1>4, ReplyKinds
  <2> QED
    BY <1>3, <1>4, <2>1, <2>2, <2>3 DEF Kept
<1>5. CASE a.code = 2101
  <2>1. ReadRows(p) = a
    BY <1>2, <1>3, <1>5, ReplyPayloadLayout
  <2>2. ParseReply(q) = ReadRows(p)
    BY <1>1, <1>3, <1>5, ReplyDispatch
  <2> QED
    BY <1>3, <1>5, <2>1, <2>2 DEF Kept
<1>6. CASE a.code = 2102
  <2>1. Len(p) = IdSize + KeySize /\ Field(p, 0, IdSize) = a.id /\ Field(p, IdSize, KeySize) = a.key
    BY <1>2, <1>3, <1>6, ReplyPayloadLayout
  <2>2. ParseReply(q) = [code |-> code, id |-> Field(p, 0, IdSize), key |-> Field(p, IdSize, KeySize)]
    BY <1>1, <1>2, <1>3, <1>6, <2>1, ReplyDispatch
  <2>3. a = [code |-> 2102, id |-> a.id, key |-> a.key]
    BY <1>6, ReplyKinds
  <2> QED
    BY <1>3, <1>6, <2>1, <2>2, <2>3 DEF Kept
<1>7. CASE a.code = 2103
  <2>1. Len(p) = IdSize + 4 /\ Field(p, 0, IdSize) = a.id /\ readUint32LE(p, IdSize) = a.no
    BY <1>2, <1>3, <1>7, ReplyPayloadLayout
  <2>2. ParseReply(q) = [code |-> code, id |-> Field(p, 0, IdSize), no |-> readUint32LE(p, IdSize)]
    BY <1>1, <1>2, <1>3, <1>7, <2>1, ReplyDispatch
  <2>3. a = [code |-> 2103, id |-> a.id, no |-> a.no]
    BY <1>7, ReplyKinds
  <2> QED
    BY <1>3, <1>7, <2>1, <2>2, <2>3 DEF Kept
<1>8. CASE a.code = 2104
  <2>1. ReadRecords(p) = [code |-> 2104, msgs |-> [i \in 1..Len(a.msgs) |-> Seen(a.msgs[i])]]
    BY <1>2, <1>3, <1>8, ReplyPayloadLayout
  <2>2. ParseReply(q) = ReadRecords(p)
    BY <1>1, <1>3, <1>8, ReplyDispatch
  <2> QED
    BY <1>3, <1>8, <2>1, <2>2 DEF Kept
<1>9. CASE a.code = 9000
  <2>1. code \notin 2100..2104
    BY <1>3, <1>9
  <2>2. ParseReply(q) = [code |-> code]
    BY <1>1, <2>1, ReplyDispatch
  <2>3. a = [code |-> 9000]
    BY <1>9, ReplyKinds
  <2> QED
    BY <1>3, <1>9, <2>2, <2>3 DEF Kept
<1> QED
  BY <1>3, <1>4, <1>5, <1>6, <1>7, <1>8, <1>9, ReplyKinds
=============================================================================
