--------------------------- MODULE RTTStreamProofs ----------------------------
(***************************************************************************)
(* The stream of the scope channel for packets, rings and numbers of       *)
(* writes of any size: once synchronised, the reader loses no byte and, if *)
(* the server polls within the time for which synchronize_rtt_channel      *)
(* waits, cuts the stream where the packets begin.                         *)
(*                                                                         *)
(* The argument is about InFlight, what is on its way: the actions only    *)
(* append packets to it and drop bytes from its front.                     *)
(***************************************************************************)
EXTENDS RTTStream, SequenceTheorems, TLAPS

-----------------------------------------------------------------------------
(* Sequences of bytes.                                                     *)

\* s runs through packets one after the other: from a byte one reaches the rest
\* of its packet and then the first byte of the next.
Chained(s) ==
  \A i, j \in 1 .. Len(s) : i <= j =>
    /\ j - i <= Size - s[i].pos =>
         s[j].of = s[i].of /\ s[j].pos = s[i].pos + (j - i)
    /\ j - i = Size - s[i].pos + 1 =>
         s[j].of = s[i].of + 1 /\ s[j].pos = 1

\* s ends where packet n does.
EndsWith(s, n) == s # <<>> => s[Len(s)].of = n /\ s[Len(s)].pos = Size

LEMMA SizeIsPositive == Size \in Nat /\ Size >= 1
  BY StreamAssumption

\* The fields of a byte, which determine it.
LEMMA ByteFields ==
  ASSUME NEW b \in Bytes
  PROVE  b.of \in Nat /\ b.pos \in 1 .. Size /\ b = [of |-> b.of, pos |-> b.pos]
  BY DEF Bytes

LEMMA PacketType ==
  ASSUME NEW n \in Nat
  PROVE  /\ PacketBytes(n) \in Seq(Bytes)
         /\ Len(PacketBytes(n)) = Size
         /\ \A i \in 1 .. Size : /\ PacketBytes(n)[i] \in Bytes
                                 /\ PacketBytes(n)[i].of = n
                                 /\ PacketBytes(n)[i].pos = i
  BY SizeIsPositive DEF PacketBytes, Bytes

\* A suffix, by its elements.
LEMMA DropType ==
  ASSUME NEW s \in Seq(Bytes), NEW n \in 0 .. Len(s)
  PROVE  /\ DropFirst(n, s) \in Seq(Bytes)
         /\ Len(DropFirst(n, s)) = Len(s) - n
         /\ \A i \in 1 .. Len(s) - n : DropFirst(n, s)[i] = s[i + n]
<1>1. \A i \in n + 1 .. Len(s) : s[i] \in Bytes
  OBVIOUS
<1>2. n + 1 \in Int /\ Len(s) \in Int
  OBVIOUS
<1>3. /\ SubSeq(s, n + 1, Len(s)) \in Seq(Bytes)
      /\ Len(SubSeq(s, n + 1, Len(s))) =
           IF n + 1 <= Len(s) THEN Len(s) - (n + 1) + 1 ELSE 0
      /\ \A i \in 1 .. Len(s) - (n + 1) + 1 :
           SubSeq(s, n + 1, Len(s))[i] = s[n + 1 + i - 1]
  BY ONLY <1>1, <1>2, SubSeqProperties
<1>. QED
  BY <1>2, <1>3 DEF DropFirst

\* A prefix, and what it leaves.
LEMMA SplitSeq ==
  ASSUME NEW s \in Seq(Bytes), NEW n \in 0 .. Len(s)
  PROVE  /\ SubSeq(s, 1, n) \in Seq(Bytes)
         /\ Len(SubSeq(s, 1, n)) = n
         /\ \A i \in 1 .. n : SubSeq(s, 1, n)[i] = s[i]
         /\ SubSeq(s, 1, n) \o DropFirst(n, s) = s
<1>1. Len(s) \in Nat /\ n \in Nat /\ n <= Len(s)
  OBVIOUS
<1>2. /\ SubSeq(s, 1, n) \in Seq(Bytes)
      /\ Len(SubSeq(s, 1, n)) = n
      /\ \A i \in 1 .. n : SubSeq(s, 1, n)[i] = s[i]
  OBVIOUS
<1>3. SubSeq(s, 1, n) \o SubSeq(s, n + 1, Len(s)) = SubSeq(s, 1, Len(s))
  <2>1. 1 \in 1 .. Len(s) + 1 /\ n \in 1 - 1 .. Len(s) /\ Len(s) \in n .. Len(s)
    BY <1>1
  <2>. QED
    BY <2>1, ConcatAdjacentSubSeq
<1>4. SubSeq(s, 1, Len(s)) = s
  BY SubSeqFull
<1>. QED
  BY <1>2, <1>3, <1>4 DEF DropFirst

\* Concatenations.
LEMMA Concat ==
  ASSUME NEW s \in Seq(Bytes), NEW r \in Seq(Bytes), NEW u \in Seq(Bytes)
  PROVE  /\ s \o r \in Seq(Bytes) /\ Len(s \o r) = Len(s) + Len(r)
         /\ (s \o r) \o u = s \o (r \o u)
         /\ <<>> \o s = s
<1>1. (s \o r) \o u = s \o (r \o u)
  BY ConcatAssociative
<1>2. /\ s \o r \in Seq(Bytes) /\ Len(s \o r) = Len(s) + Len(r)
  BY ConcatProperties
<1>3. <<>> \o s = s
  BY ConcatEmptySeq
<1>. QED
  BY <1>1, <1>2, <1>3

\* Named, so that a proof can regroup without every way of doing so.
Associates(s, r, u) == (s \o r) \o u = s \o (r \o u)

LEMMA Reassociate ==
  ASSUME NEW S, NEW s \in Seq(S), NEW r \in Seq(S), NEW u \in Seq(S)
  PROVE  Associates(s, r, u)
  BY ConcatAssociative DEF Associates

\* Bytes that move from one part of the stream to the one before it.
LEMMA Regroup ==
  ASSUME NEW s \in Seq(Bytes), NEW r \in Seq(Bytes), NEW n \in 0 .. Len(r)
  PROVE  /\ s \o SubSeq(r, 1, n) \in Seq(Bytes)
         /\ Len(s \o SubSeq(r, 1, n)) = Len(s) + n
         /\ DropFirst(n, r) \in Seq(Bytes)
         /\ Len(DropFirst(n, r)) = Len(r) - n
         /\ (s \o SubSeq(r, 1, n)) \o DropFirst(n, r) = s \o r
<1>. DEFINE p == SubSeq(r, 1, n)
            d == DropFirst(n, r)
<1>1. p \in Seq(Bytes) /\ Len(p) = n /\ p \o d = r
  BY SplitSeq
<1>2. d \in Seq(Bytes) /\ Len(d) = Len(r) - n
  BY DropType
<1>. HIDE DEF p, d
<1>3. s \o p \in Seq(Bytes) /\ Len(s \o p) = Len(s) + Len(p)
  BY <1>1, Concat
<1>4. (s \o p) \o d = s \o (p \o d)
  <2>1. p \in Seq(Bytes) /\ d \in Seq(Bytes)
    BY <1>1, <1>2
  <2>2. Associates(s, p, d)
    BY ONLY <2>1, Reassociate
  <2>. QED
    BY ONLY <2>2 DEF Associates
<1>. QED
  BY <1>1, <1>2, <1>3, <1>4 DEF p, d

\* Dropping from a concatenation what its first part has.
LEMMA DropOfConcat ==
  ASSUME NEW s \in Seq(Bytes), NEW r \in Seq(Bytes), NEW n \in 0 .. Len(s)
  PROVE  DropFirst(n, s \o r) = DropFirst(n, s) \o r
<1>1. /\ s \o r \in Seq(Bytes) /\ Len(s \o r) = Len(s) + Len(r)
      /\ \A i \in 1 .. Len(s) + Len(r) :
           (s \o r)[i] = IF i <= Len(s) THEN s[i] ELSE r[i - Len(s)]
  BY ConcatProperties
<1>2. Len(s) \in Nat /\ Len(r) \in Nat /\ n \in 0 .. Len(s \o r)
  BY <1>1
<1>. DEFINE d == DropFirst(n, s \o r)
            e == DropFirst(n, s)
<1>3. /\ d \in Seq(Bytes) /\ Len(d) = Len(s) + Len(r) - n
      /\ \A i \in 1 .. Len(s) + Len(r) - n : d[i] = (s \o r)[i + n]
  <2>1. /\ d \in Seq(Bytes) /\ Len(d) = Len(s \o r) - n
        /\ \A i \in 1 .. Len(s \o r) - n : d[i] = (s \o r)[i + n]
    BY <1>1, <1>2, DropType
  <2>. QED
    BY <1>1, <2>1
<1>4. /\ e \in Seq(Bytes) /\ Len(e) = Len(s) - n
      /\ \A i \in 1 .. Len(s) - n : e[i] = s[i + n]
  BY DropType
<1>. HIDE DEF d, e
<1>5. /\ e \o r \in Seq(Bytes) /\ Len(e \o r) = Len(e) + Len(r)
      /\ \A i \in 1 .. Len(e) + Len(r) :
           (e \o r)[i] = IF i <= Len(e) THEN e[i] ELSE r[i - Len(e)]
  BY <1>4, ConcatProperties
<1>6. Len(d) = Len(e \o r)
  BY <1>2, <1>3, <1>4, <1>5
<1>7. ASSUME NEW i \in 1 .. Len(d) PROVE d[i] = (e \o r)[i]
  <2>1. d[i] = IF i + n <= Len(s) THEN s[i + n] ELSE r[i + n - Len(s)]
    BY <1>1, <1>2, <1>3
  <2>2. CASE i + n <= Len(s)
    <3>1. i \in 1 .. Len(e) /\ i \in 1 .. Len(e) + Len(r)
      BY <1>2, <1>3, <1>4, <2>2
    <3>2. e[i] = s[i + n]
      BY <1>2, <1>4, <3>1
    <3>3. (e \o r)[i] = e[i]
      BY <1>2, <1>4, <1>5, <3>1
    <3>. QED
      BY <2>1, <2>2, <3>2, <3>3
  <2>3. CASE i + n > Len(s)
    <3>1. /\ i \in 1 .. Len(e) + Len(r) /\ ~(i <= Len(e)) /\ ~(i + n <= Len(s))
          /\ i - Len(e) = i + n - Len(s)
      BY <1>2, <1>3, <1>4, <2>3
    <3>2. (e \o r)[i] = r[i - Len(e)]
      BY <1>5, <3>1
    <3>. QED
      BY <2>1, <3>1, <3>2
  <2>4. i + n <= Len(s) \/ i + n > Len(s)
    BY <1>2, <1>3
  <2>. QED
    BY <2>2, <2>3, <2>4
<1>8. d = e \o r
  BY <1>3, <1>5, <1>6, <1>7, SeqEqual
<1>. QED
  BY <1>8 DEF d, e

\* The target appends a packet.
LEMMA AppendPacket ==
  ASSUME NEW s \in Seq(Bytes), NEW n \in Nat, Chained(s), EndsWith(s, n)
  PROVE  /\ Chained(s \o PacketBytes(n + 1))
         /\ EndsWith(s \o PacketBytes(n + 1), n + 1)
         /\ s # <<>> => (s \o PacketBytes(n + 1))[1] = s[1]
         /\ s = <<>> => (s \o PacketBytes(n + 1))[1] = PacketBytes(n + 1)[1]
         /\ s \o PacketBytes(n + 1) # <<>>
<1>. DEFINE p == PacketBytes(n + 1)
            r == s \o p
<1>1. /\ p \in Seq(Bytes) /\ Len(p) = Size
      /\ \A i \in 1 .. Size : p[i].of = n + 1 /\ p[i].pos = i
  BY PacketType
<1>2. Size \in Nat /\ Size >= 1 /\ Len(s) \in Nat
  BY SizeIsPositive
<1>. HIDE DEF p
<1>3. /\ r \in Seq(Bytes) /\ Len(r) = Len(s) + Size
      /\ \A i \in 1 .. Len(s) + Size : r[i] = IF i <= Len(s) THEN s[i] ELSE p[i - Len(s)]
  BY <1>1, ConcatProperties
<1>. HIDE DEF r
<1>4. ASSUME NEW i \in 1 .. Len(r), NEW j \in 1 .. Len(r), i <= j
      PROVE  /\ j - i <= Size - r[i].pos =>
                  r[j].of = r[i].of /\ r[j].pos = r[i].pos + (j - i)
             /\ j - i = Size - r[i].pos + 1 =>
                  r[j].of = r[i].of + 1 /\ r[j].pos = 1
  <2>1. CASE j <= Len(s)
    <3>1. r[i] = s[i] /\ r[j] = s[j] /\ i \in 1 .. Len(s) /\ j \in 1 .. Len(s)
      BY <1>2, <1>3, <2>1, <1>4
    <3>. QED
      BY <3>1, <1>4 DEF Chained
  <2>2. CASE i > Len(s)
    <3>1. /\ i - Len(s) \in 1 .. Size /\ j - Len(s) \in 1 .. Size
          /\ r[i] = p[i - Len(s)] /\ r[j] = p[j - Len(s)]
      BY <1>2, <1>3, <2>2, <1>4
    <3>2. /\ r[i].of = n + 1 /\ r[i].pos = i - Len(s)
          /\ r[j].of = n + 1 /\ r[j].pos = j - Len(s)
      BY <3>1, <1>1
    <3>. QED
      BY <1>2, <1>3, <3>2, <3>1
  <2>3. CASE i <= Len(s) /\ j > Len(s)
    <3>1. /\ i \in 1 .. Len(s) /\ Len(s) \in 1 .. Len(s)
          /\ r[i] = s[i] /\ j - Len(s) \in 1 .. Size /\ r[j] = p[j - Len(s)]
          /\ s # <<>>
      BY <1>2, <1>3, <2>3
    <3>2. r[j].of = n + 1 /\ r[j].pos = j - Len(s)
      BY <3>1, <1>1
    <3>3. s[i].pos \in 1 .. Size /\ s[i].of \in Nat
      BY <3>1, ByteFields
    <3>4. s[Len(s)].of = n /\ s[Len(s)].pos = Size
      BY <3>1 DEF EndsWith
    <3>5. Len(s) - i <= Size - s[i].pos =>
            s[Len(s)].of = s[i].of /\ s[Len(s)].pos = s[i].pos + (Len(s) - i)
      BY <3>1, <2>3 DEF Chained
    <3>. DEFINE q == s[i].pos
                m == s[i].of
    <3>6. /\ q \in 1 .. Size /\ r[i].pos = q /\ r[i].of = m
          /\ Len(s) - i <= Size - q => n = m /\ Size = q + (Len(s) - i)
      BY <3>1, <3>3, <3>4, <3>5
    <3>. HIDE DEF q, m
    <3>7. /\ ~(j - i <= Size - q)
          /\ j - i = Size - q + 1 => n = m /\ j - Len(s) = 1
      BY ONLY <1>2, <2>3, <3>1, <3>6
    <3>. QED
      BY ONLY <3>2, <3>6, <3>7
  <2>. QED
    BY <1>2, <1>3, <2>1, <2>2, <2>3
<1>5. Chained(r)
  BY <1>4 DEF Chained
<1>6. r[Len(r)] = p[Size] /\ Size \in 1 .. Size
  BY <1>2, <1>3
<1>7. EndsWith(r, n + 1)
  BY <1>1, <1>6 DEF EndsWith
<1>8. r # <<>> /\ (s # <<>> => r[1] = s[1]) /\ (s = <<>> => r[1] = p[1])
  BY <1>2, <1>3
<1>. QED
  BY <1>5, <1>7, <1>8 DEF r, p

\* Bytes are dropped from the front.
LEMMA DropChained ==
  ASSUME NEW s \in Seq(Bytes), NEW n \in 0 .. Len(s), NEW m \in Nat,
         Chained(s), EndsWith(s, m)
  PROVE  Chained(DropFirst(n, s)) /\ EndsWith(DropFirst(n, s), m)
<1>. DEFINE d == DropFirst(n, s)
<1>1. /\ d \in Seq(Bytes) /\ Len(d) = Len(s) - n
      /\ \A i \in 1 .. Len(s) - n : d[i] = s[i + n]
  BY DropType
<1>. HIDE DEF d
<1>2. Len(s) \in Nat /\ n \in Nat /\ n <= Len(s)
  OBVIOUS
<1>3. ASSUME NEW i \in 1 .. Len(d), NEW j \in 1 .. Len(d), i <= j
      PROVE  /\ j - i <= Size - d[i].pos =>
                  d[j].of = d[i].of /\ d[j].pos = d[i].pos + (j - i)
             /\ j - i = Size - d[i].pos + 1 =>
                  d[j].of = d[i].of + 1 /\ d[j].pos = 1
  <2>1. /\ d[i] = s[i + n] /\ d[j] = s[j + n]
        /\ i + n \in 1 .. Len(s) /\ j + n \in 1 .. Len(s)
        /\ i + n <= j + n /\ (j + n) - (i + n) = j - i
    BY <1>1, <1>2, <1>3
  <2>2. /\ (j + n) - (i + n) <= Size - s[i + n].pos =>
             s[j + n].of = s[i + n].of
               /\ s[j + n].pos = s[i + n].pos + ((j + n) - (i + n))
        /\ (j + n) - (i + n) = Size - s[i + n].pos + 1 =>
             s[j + n].of = s[i + n].of + 1 /\ s[j + n].pos = 1
    BY <2>1 DEF Chained
  <2>. QED
    BY <2>1, <2>2
<1>4. Chained(d)
  BY <1>3 DEF Chained
<1>5. ASSUME d # <<>> PROVE d[Len(d)] = s[Len(s)] /\ s # <<>>
  <2>1. Len(d) \in 1 .. Len(s) - n
    BY <1>1, <1>2, <1>5
  <2>2. d[Len(d)] = s[Len(d) + n] /\ Len(d) + n = Len(s)
    BY <1>1, <1>2, <2>1
  <2>. QED
    BY <2>1, <2>2, <1>2
<1>6. EndsWith(d, m)
  BY <1>5 DEF EndsWith
<1>. QED
  BY <1>4, <1>6 DEF d

\* The bytes cut from the front of a stream, and what comes after them.
LEMMA FrontPacket ==
  ASSUME NEW s \in Seq(Bytes), NEW m \in Nat, Chained(s), EndsWith(s, m),
         Len(s) >= Size
  PROVE  /\ s[1].of \in Nat
         /\ s[1].pos = 1 => SubSeq(s, 1, Size) = PacketBytes(s[1].of)
         /\ DropFirst(Size, s) = <<>> => s[1].of = m /\ s[1].pos = 1
         /\ DropFirst(Size, s) # <<>> =>
              /\ DropFirst(Size, s)[1].of = s[1].of + 1
              /\ DropFirst(Size, s)[1].pos = s[1].pos
<1>1. Size \in Nat /\ Size >= 1 /\ Len(s) \in Nat
  BY SizeIsPositive
<1>2. /\ 1 \in 1 .. Len(s) /\ s[1] \in Bytes /\ s[1].of \in Nat
      /\ s[1].pos \in 1 .. Size
  BY <1>1, ByteFields
<1>. DEFINE p == PacketBytes(s[1].of)
            q == SubSeq(s, 1, Size)
            b == Size - s[1].pos + 2
<1>3. /\ p \in Seq(Bytes) /\ Len(p) = Size
      /\ \A i \in 1 .. Size : p[i] \in Bytes /\ p[i].of = s[1].of /\ p[i].pos = i
  BY <1>2, PacketType
<1>4. Size \in 0 .. Len(s)
  BY <1>1
<1>5. q \in Seq(Bytes) /\ Len(q) = Size /\ \A i \in 1 .. Size : q[i] = s[i]
  BY <1>4, SplitSeq
<1>. HIDE DEF p, q
<1>6. ASSUME s[1].pos = 1, NEW i \in 1 .. Size PROVE q[i] = p[i]
  <2>1. i \in 1 .. Len(s) /\ 1 <= i /\ i - 1 <= Size - s[1].pos
    BY <1>1, <1>6
  <2>2. s[i].of = s[1].of /\ s[i].pos = 1 + (i - 1)
    BY <1>2, <1>6, <2>1 DEF Chained
  <2>3. q[i] \in Bytes /\ p[i] \in Bytes
    BY <1>3, <1>5, <2>1
  <2>4. q[i].of = p[i].of /\ q[i].pos = p[i].pos
    BY <1>3, <1>5, <2>2
  <2>. QED
    BY <2>3, <2>4, ByteFields
<1>7. s[1].pos = 1 => q = p
  BY <1>3, <1>5, <1>6, SeqEqual
<1>8. /\ Len(DropFirst(Size, s)) = Len(s) - Size
      /\ DropFirst(Size, s) \in Seq(Bytes)
      /\ \A i \in 1 .. Len(s) - Size : DropFirst(Size, s)[i] = s[i + Size]
  BY <1>4, DropType
\* The next packet begins at b.
<1>9. b \in 2 .. Size + 1 /\ b - 1 = Size - s[1].pos + 1
  BY <1>1, <1>2
<1>. HIDE DEF b
<1>10. ASSUME b <= Len(s), NEW j \in b .. Size + 1, j <= Len(s)
       PROVE  s[j].of = s[1].of + 1 /\ s[j].pos = 1 + (j - b)
  <2>1. s[b].of = s[1].of + 1 /\ s[b].pos = 1
    <3>1. b \in 1 .. Len(s) /\ 1 <= b
      BY <1>1, <1>9, <1>10
    <3>. QED
      BY <1>2, <1>9, <3>1 DEF Chained
  <2>2. /\ b \in 1 .. Len(s) /\ j \in 1 .. Len(s) /\ b <= j
        /\ j - b <= Size - 1
    BY <1>1, <1>9, <1>10
  <2>. QED
    BY <2>1, <2>2 DEF Chained
<1>11. ASSUME DropFirst(Size, s) = <<>> PROVE s[1].of = m /\ s[1].pos = 1
  <2>1. Len(s) = Size /\ s # <<>> /\ Size \in 1 .. Len(s)
    BY <1>1, <1>8, <1>11
  <2>2. s[Size].of = m /\ s[Size].pos = Size
    BY <2>1 DEF EndsWith
  <2>3. CASE s[1].pos = 1
    <3>1. s[Size].of = s[1].of
      BY <1>1, <1>2, <2>1, <2>3 DEF Chained
    <3>. QED
      BY <2>2, <2>3, <3>1
  <2>4. CASE s[1].pos # 1
    <3>1. b <= Size /\ b <= Len(s) /\ Size \in b .. Size + 1 /\ Size <= Len(s)
      BY <1>1, <1>2, <1>9, <2>1, <2>4
    <3>2. s[Size].pos = 1 + (Size - b)
      BY <1>10, <3>1
    <3>. QED
      BY <1>1, <1>9, <2>2, <3>2
  <2>. QED
    BY <2>3, <2>4
<1>12. ASSUME DropFirst(Size, s) # <<>>
       PROVE  /\ DropFirst(Size, s)[1].of = s[1].of + 1
              /\ DropFirst(Size, s)[1].pos = s[1].pos
  <2>1. Size + 1 \in 1 .. Len(s) /\ DropFirst(Size, s)[1] = s[Size + 1]
    BY <1>1, <1>8, <1>12
  <2>2. b <= Len(s) /\ Size + 1 \in b .. Size + 1 /\ Size + 1 <= Len(s)
    BY <1>1, <1>9, <2>1
  <2>. DEFINE j == Size + 1
  <2>3. s[j].of = s[1].of + 1 /\ s[j].pos = 1 + (j - b)
    <3>. HIDE DEF j
    <3>1. j \in b .. Size + 1 /\ j <= Len(s)
      BY <2>2 DEF j
    <3>. QED
      BY <1>10, <2>2, <3>1
  <2>. QED
    BY <1>1, <1>2, <1>9, <2>1, <2>3
<1>. QED
  BY <1>2, <1>7, <1>11, <1>12 DEF p, q

-----------------------------------------------------------------------------
(* The invariant.                                                          *)

\* When the drain has seen the ring empty and holds nothing, what has come into
\* the ring since then begins with a packet.
DrainIsClean ==
  sync = "drain" /\ quiet /\ rttnet = <<>> => ring = <<>> \/ ring[1].pos = 1

\* Before the loop nothing is buffered or cut.
NothingCutYet ==
  sync \in {"before", "drain", "resume"} => buffer = <<>> /\ decoded = <<>>

\* What was cut last ends where what is on its way begins.
NextInLine ==
  sync = "loop" /\ decoded # <<>> =>
    /\ InFlight = <<>> => decoded[1].of = writes /\ decoded[1].pos = 1
    /\ InFlight # <<>> => /\ InFlight[1].of = decoded[1].of + 1
                         /\ InFlight[1].pos = decoded[1].pos

\* What takes polling in time.
InTime == ~SlowPolling => StreamAligned /\ PacketsAreWhole

IInv ==
  /\ StreamTypeOK
  /\ Chained(InFlight) /\ EndsWith(InFlight, writes)
  /\ DrainIsClean
  /\ NothingCutYet
  /\ NextInLine
  /\ InTime

\* The types, and those of what is made from them.
LEMMA TypeFacts ==
  ASSUME StreamTypeOK
  PROVE  /\ ring \in Seq(Bytes) /\ rttnet \in Seq(Bytes) /\ buffer \in Seq(Bytes)
         /\ decoded \in Seq(Bytes) /\ writes \in Nat
         /\ rttnet \o ring \in Seq(Bytes) /\ InFlight \in Seq(Bytes)
         /\ InFlight = buffer \o (rttnet \o ring)
         /\ buffer \o rttnet \in Seq(Bytes)
         /\ Len(InFlight) = Len(buffer) + Len(rttnet) + Len(ring)
<1>1. /\ ring \in Seq(Bytes) /\ rttnet \in Seq(Bytes) /\ buffer \in Seq(Bytes)
      /\ decoded \in Seq(Bytes) /\ writes \in Nat
  BY StreamAssumption DEF StreamTypeOK
<1>2. /\ rttnet \o ring \in Seq(Bytes) /\ buffer \o rttnet \in Seq(Bytes)
      /\ Len(buffer \o rttnet) = Len(buffer) + Len(rttnet)
  BY <1>1, ConcatProperties
<1>3. /\ InFlight \in Seq(Bytes)
      /\ Len(InFlight) = Len(buffer \o rttnet) + Len(ring)
  BY <1>1, <1>2, ConcatProperties DEF InFlight
<1>4. InFlight = buffer \o (rttnet \o ring)
  BY <1>1, ConcatAssociative DEF InFlight
<1>. QED
  BY <1>1, <1>2, <1>3, <1>4

\* Moving bytes from the ring to the connection changes nothing for the reader,
LEMMA PollKeeps ==
  ASSUME StreamTypeOK, NEW n \in 1 .. Len(ring),
         rttnet' = rttnet \o SubSeq(ring, 1, n), ring' = DropFirst(n, ring),
         buffer' = buffer
  PROVE  /\ InFlight' = InFlight
         /\ rttnet' \in Seq(Bytes) /\ ring' \in Seq(Bytes)
         /\ Len(ring') <= Len(ring) /\ rttnet' # <<>>
<1>1. ring \in Seq(Bytes) /\ rttnet \in Seq(Bytes) /\ buffer \in Seq(Bytes)
  BY TypeFacts
<1>2. n \in 0 .. Len(ring) /\ Len(ring) \in Nat /\ n >= 1 /\ n \in Nat
      /\ Len(rttnet) \in Nat
  BY <1>1
<1>3. /\ rttnet' \in Seq(Bytes) /\ Len(rttnet') = Len(rttnet) + n
      /\ ring' \in Seq(Bytes) /\ Len(ring') = Len(ring) - n
      /\ rttnet' \o ring' = rttnet \o ring
  BY <1>1, <1>2, Regroup
<1>4. (buffer \o rttnet') \o ring' = buffer \o (rttnet' \o ring')
  <2>1. \A s, r, u \in Seq(Bytes) : (s \o r) \o u = s \o (r \o u)
    BY ONLY Concat
  <2>2. buffer \in Seq(Bytes) /\ rttnet' \in Seq(Bytes) /\ ring' \in Seq(Bytes)
    BY <1>1, <1>3
  <2>. QED
    BY ONLY <2>1, <2>2, Zenon
<1>5. InFlight = buffer \o (rttnet \o ring)
  BY TypeFacts
<1>6. InFlight' = InFlight
  BY <1>3, <1>4, <1>5 DEF InFlight
<1>7. Len(rttnet') # 0 /\ Len(ring') <= Len(ring)
  BY <1>2, <1>3
<1>8. rttnet' # <<>>
  BY <1>7
<1>. QED
  BY <1>3, <1>6, <1>7, <1>8

\* nor does reading them into the buffer.
LEMMA ReadKeeps ==
  ASSUME StreamTypeOK, NEW n \in 1 .. Len(rttnet),
         buffer' = buffer \o SubSeq(rttnet, 1, n), rttnet' = DropFirst(n, rttnet),
         ring' = ring
  PROVE  InFlight' = InFlight /\ rttnet' \in Seq(Bytes) /\ buffer' \in Seq(Bytes)
<1>1. ring \in Seq(Bytes) /\ rttnet \in Seq(Bytes) /\ buffer \in Seq(Bytes)
  BY TypeFacts
<1>2. n \in 0 .. Len(rttnet)
  BY <1>1
<1>3. /\ buffer' \in Seq(Bytes) /\ rttnet' \in Seq(Bytes)
      /\ buffer' \o rttnet' = buffer \o rttnet
  BY <1>1, <1>2, Regroup
<1>. QED
  BY <1>3 DEF InFlight

\* The rest of what an earlier client read is the end of packet 0.
LEMMA InitOK == StreamInit => IInv
<1>. SUFFICES ASSUME StreamInit PROVE IInv
  OBVIOUS
<1>1. Size \in Nat /\ Size >= 1 /\ 0 \in Nat /\ <<>> \in Seq(Bytes)
  BY SizeIsPositive
<1>2. PICK n \in 0 .. Size - 1 :
        n <= Capacity /\ ring = SubSeq(PacketBytes(0), Size - n + 1, Size)
  BY DEF StreamInit
<1>. DEFINE p == PacketBytes(0)
            m == Size - n
<1>3. /\ p \in Seq(Bytes) /\ Len(p) = Size
      /\ \A i \in 1 .. Size : p[i] \in Bytes /\ p[i].of = 0 /\ p[i].pos = i
  BY <1>1, PacketType
<1>4. m \in 0 .. Size /\ ring = DropFirst(m, p) /\ n = Size - m
  BY <1>1, <1>2, <1>3 DEF DropFirst
<1>. HIDE DEF p, m
<1>5. /\ ring \in Seq(Bytes) /\ Len(ring) = n
  BY <1>3, <1>4, DropType
<1>6. Chained(p) /\ EndsWith(p, 0)
  BY <1>1, <1>3 DEF Chained, EndsWith
<1>7. Chained(ring) /\ EndsWith(ring, 0)
  BY <1>1, <1>3, <1>4, <1>6, DropChained
<1>8. /\ rttnet = <<>> /\ buffer = <<>> /\ decoded = <<>> /\ writes = 0
      /\ sync = "before" /\ running \in BOOLEAN /\ client = FALSE /\ quiet = FALSE
  BY DEF StreamInit
<1>9. StreamTypeOK
  <2>1. Len(ring) <= Capacity
    BY <1>2, <1>5
  <2>2. writes \in 0 .. MaxWrites
    BY <1>8, StreamAssumption
  <2>. QED
    BY <1>1, <1>5, <1>8, <2>1, <2>2 DEF StreamTypeOK
<1>10. <<>> \o <<>> \o ring = ring
  BY <1>1, <1>5, ConcatEmptySeq
<1>11. InFlight = ring
  BY <1>8, <1>10 DEF InFlight
<1>. QED
  BY <1>7, <1>8, <1>9, <1>11 DEF IInv, DrainIsClean, NothingCutYet, InTime,
                                StreamAligned, PacketsAreWhole, NextInLine

\* Every step keeps the invariant.
LEMMA NextOK ==
  ASSUME IInv, [StreamNext]_rttStream
  PROVE  IInv'
<1>1. /\ ring \in Seq(Bytes) /\ rttnet \in Seq(Bytes) /\ buffer \in Seq(Bytes)
      /\ decoded \in Seq(Bytes) /\ writes \in Nat
      /\ rttnet \o ring \in Seq(Bytes) /\ InFlight \in Seq(Bytes)
      /\ InFlight = buffer \o (rttnet \o ring)
      /\ buffer \o rttnet \in Seq(Bytes)
      /\ Len(InFlight) = Len(buffer) + Len(rttnet) + Len(ring)
  BY TypeFacts DEF IInv
<1>2. Size \in Nat /\ Size >= 1
  BY SizeIsPositive
<1>3. CASE TargetWrites
  <2>. DEFINE p == PacketBytes(writes + 1)
  <2>1. /\ p \in Seq(Bytes) /\ Len(p) = Size /\ p[1].pos = 1 /\ p[1].of = writes + 1
    BY <1>1, <1>2, PacketType
  <2>2. /\ Chained(InFlight \o p) /\ EndsWith(InFlight \o p, writes + 1)
        /\ InFlight # <<>> => (InFlight \o p)[1] = InFlight[1]
        /\ InFlight = <<>> => (InFlight \o p)[1] = p[1]
        /\ InFlight \o p # <<>>
    BY <1>1, AppendPacket DEF IInv
  <2>3. /\ ring \o p \in Seq(Bytes) /\ Len(ring \o p) = Len(ring) + Size
        /\ (ring \o p)[1] = IF 1 <= Len(ring) THEN ring[1] ELSE p[1 - Len(ring)]
    <3>1. /\ ring \o p \in Seq(Bytes) /\ Len(ring \o p) = Len(ring) + Len(p)
          /\ \A i \in 1 .. Len(ring) + Len(p) :
               (ring \o p)[i] = IF i <= Len(ring) THEN ring[i] ELSE p[i - Len(ring)]
      BY <1>1, <2>1, ConcatProperties
    <3>2. 1 \in 1 .. Len(ring) + Len(p)
      BY <1>1, <1>2, <2>1
    <3>. QED
      BY <2>1, <3>1, <3>2
  <2>. HIDE DEF p
  <2>4. /\ ring' = ring \o p /\ writes' = writes + 1 /\ writes < MaxWrites
        /\ Len(ring) + Size <= Capacity
        /\ UNCHANGED <<running, client, rttnet, quiet, sync, buffer, decoded>>
    BY <1>3 DEF TargetWrites, server, reader, p
  <2>5. InFlight' = InFlight \o p
    <3>1. ((buffer \o rttnet) \o ring) \o p = (buffer \o rttnet) \o (ring \o p)
      <4>1. buffer \o rttnet \in Seq(Bytes) /\ ring \in Seq(Bytes) /\ p \in Seq(Bytes)
        BY <1>1, <2>1
      <4>2. \A s, r, u \in Seq(Bytes) : (s \o r) \o u = s \o (r \o u)
        BY Concat
      <4>. QED
        BY ONLY <4>1, <4>2, Zenon
    <3>. QED
      BY <2>4, <3>1 DEF InFlight
  <2>6. StreamTypeOK'
    BY <1>1, <2>3, <2>4, StreamAssumption DEF IInv, StreamTypeOK
  <2>7. DrainIsClean'
    <3>. SUFFICES ASSUME sync = "drain", quiet, rttnet = <<>> PROVE ring'[1].pos = 1
      BY <2>4 DEF DrainIsClean
    <3>1. CASE ring = <<>>
      <4>1. Len(ring) = 0
        BY <3>1
      <4>. QED
        <5>1. ~(1 <= Len(ring)) /\ 1 - Len(ring) = 1
          BY ONLY <4>1
        <5>2. (ring \o p)[1] = p[1]
          BY ONLY <5>1, <2>3
        <5>. QED
          BY ONLY <5>2, <2>1, <2>4
    <3>2. CASE ring # <<>>
      <4>1. 1 <= Len(ring)
        BY <1>1, <3>2
      <4>. QED
        BY <2>3, <2>4, <3>2, <4>1 DEF IInv, DrainIsClean
    <3>. QED
      BY <3>1, <3>2
  <2>8. NothingCutYet'
    BY <2>4 DEF IInv, NothingCutYet
  <2>9. InTime'
    <3>1. StreamAligned => StreamAligned'
      BY <2>1, <2>2, <2>4, <2>5 DEF StreamAligned
    <3>2. PacketsAreWhole => PacketsAreWhole'
      BY <2>4 DEF PacketsAreWhole
    <3>. QED
      BY <3>1, <3>2 DEF IInv, InTime
  <2>10. NextInLine'
    BY <2>1, <2>2, <2>4, <2>5 DEF IInv, NextInLine
  <2>. QED
    BY <2>2, <2>4, <2>5, <2>6, <2>7, <2>8, <2>9, <2>10 DEF IInv
<1>4. ASSUME NEW n \in 1 .. Len(ring), Poll,
             rttnet' = rttnet \o SubSeq(ring, 1, n), ring' = DropFirst(n, ring),
             quiet' = quiet
      PROVE  IInv'
  <2>1. UNCHANGED <<running, writes, client, sync, buffer, decoded>>
    BY <1>4 DEF Poll, reader
  <2>2. /\ InFlight' = InFlight
        /\ rttnet' \in Seq(Bytes) /\ ring' \in Seq(Bytes)
        /\ Len(ring') <= Len(ring) /\ rttnet' # <<>>
    BY <1>4, <2>1, PollKeeps DEF IInv
  <2>3. StreamTypeOK'
    BY <1>1, <1>4, <2>1, <2>2, StreamAssumption DEF IInv, StreamTypeOK
  <2>. QED
    BY <2>1, <2>2, <2>3 DEF IInv, DrainIsClean, NothingCutYet, NextInLine,
                           InTime, StreamAligned, PacketsAreWhole
<1>5. CASE Poll /\ ring = <<>> /\ quiet' = TRUE /\ UNCHANGED <<ring, rttnet>>
  <2>1. UNCHANGED <<running, writes, client, sync, buffer, decoded, ring, rttnet>>
    BY <1>5 DEF Poll, reader
  <2>2. InFlight' = InFlight
    BY <2>1 DEF InFlight
  <2>. QED
    BY <1>5, <2>1, <2>2 DEF IInv, StreamTypeOK, DrainIsClean, NothingCutYet,
                           NextInLine, InTime, StreamAligned, PacketsAreWhole
<1>6. CASE DrainRead
  <2>1. PICK n \in 1 .. Len(rttnet) : rttnet' = DropFirst(n, rttnet)
    BY <1>6 DEF DrainRead
  <2>2. /\ sync = "drain" /\ quiet' = FALSE
        /\ UNCHANGED <<running, ring, writes, client, sync, buffer, decoded>>
    BY <1>6 DEF DrainRead, target, reader
  <2>3. n \in 0 .. Len(rttnet) /\ buffer = <<>> /\ decoded = <<>>
    BY <1>1, <2>2 DEF IInv, NothingCutYet
  <2>4. rttnet' \in Seq(Bytes)
    BY <1>1, <2>1, <2>3, DropType
  <2>5. InFlight = rttnet \o ring /\ InFlight' = rttnet' \o ring
    <3>1. /\ <<>> \o rttnet = rttnet /\ <<>> \o rttnet' = rttnet'
      BY <1>1, <2>4, ConcatEmptySeq
    <3>. QED
      BY <2>2, <2>3, <3>1 DEF InFlight
  <2>6. InFlight' = DropFirst(n, InFlight) /\ n \in 0 .. Len(InFlight)
    <3>1. DropFirst(n, rttnet \o ring) = DropFirst(n, rttnet) \o ring
      BY <1>1, <2>3, DropOfConcat
    <3>2. Len(InFlight) = Len(rttnet) + Len(ring)
      BY <1>1, <2>3
    <3>. QED
      BY <1>1, <2>1, <2>3, <2>5, <3>1, <3>2
  <2>7. Chained(InFlight)' /\ EndsWith(InFlight, writes)'
    BY <1>1, <2>2, <2>6, DropChained DEF IInv
  <2>8. StreamTypeOK'
    BY <2>2, <2>4 DEF IInv, StreamTypeOK
  <2>. QED
    BY <2>2, <2>3, <2>7, <2>8 DEF IInv, DrainIsClean, NothingCutYet, NextInLine,
                                 InTime, StreamAligned, PacketsAreWhole
<1>7. CASE DrainEnds
  <2>1. /\ sync = "drain" /\ sync' = "resume" /\ rttnet = <<>>
        /\ ~SlowPolling => quiet
        /\ UNCHANGED <<running, ring, writes, client, rttnet, quiet, buffer, decoded>>
    BY <1>7 DEF DrainEnds, NothingComes, target, server
  <2>2. InFlight' = InFlight
    BY <2>1 DEF InFlight
  <2>3. InFlight = ring
    <3>1. buffer = <<>> /\ <<>> \o <<>> \o ring = ring
      BY <1>1, <2>1, ConcatEmptySeq DEF IInv, NothingCutYet
    <3>. QED
      BY <2>1, <3>1 DEF InFlight
  <2>4. InTime'
    <3>1. ASSUME ~SlowPolling PROVE StreamAligned'
      BY <2>1, <2>2, <2>3, <3>1 DEF IInv, DrainIsClean, StreamAligned
    <3>. QED
      BY <2>1, <3>1 DEF IInv, InTime, PacketsAreWhole
  <2>. QED
    BY <2>1, <2>2, <2>4 DEF IInv, StreamTypeOK, DrainIsClean, NothingCutYet,
                           NextInLine
<1>8. CASE Read
  <2>1. PICK n \in 1 .. Len(rttnet) : /\ buffer' = buffer \o SubSeq(rttnet, 1, n)
                                      /\ rttnet' = DropFirst(n, rttnet)
    BY <1>8 DEF Read
  <2>2. /\ sync = "loop"
        /\ UNCHANGED <<running, ring, writes, client, quiet, sync, decoded>>
    BY <1>8 DEF Read, target
  <2>3. InFlight' = InFlight /\ rttnet' \in Seq(Bytes) /\ buffer' \in Seq(Bytes)
    BY <2>1, <2>2, ReadKeeps DEF IInv
  <2>. QED
    BY <2>2, <2>3 DEF IInv, StreamTypeOK, DrainIsClean, NothingCutYet, NextInLine,
                     InTime, StreamAligned, PacketsAreWhole
<1>9. CASE Cut
  <2>1. /\ sync = "loop" /\ Len(buffer) >= Size
        /\ decoded' = SubSeq(buffer, 1, Size) /\ buffer' = DropFirst(Size, buffer)
        /\ UNCHANGED <<running, ring, writes, client, rttnet, quiet, sync>>
    BY <1>9 DEF Cut, Uncut, target, server
  <2>2. /\ Size \in 0 .. Len(buffer) /\ Len(buffer) \in Nat /\ 1 \in 1 .. Len(buffer)
        /\ Len(rttnet \o ring) \in Nat
    BY <1>1, <1>2, <2>1
  <2>3. /\ decoded' \in Seq(Bytes) /\ Len(decoded') = Size
        /\ \A i \in 1 .. Size : decoded'[i] = buffer[i]
        /\ buffer' \in Seq(Bytes)
    BY <1>1, <2>1, <2>2, SplitSeq, DropType
  <2>4. InFlight' = DropFirst(Size, InFlight)
    <3>1. DropFirst(Size, buffer \o (rttnet \o ring)) =
            DropFirst(Size, buffer) \o (rttnet \o ring)
      BY <1>1, <2>2, DropOfConcat
    <3>2. DropFirst(Size, buffer) \o (rttnet \o ring) =
            DropFirst(Size, buffer) \o rttnet \o ring
      <4>1. DropFirst(Size, buffer) \in Seq(Bytes) /\ rttnet \in Seq(Bytes)
            /\ ring \in Seq(Bytes)
        BY <1>1, <2>1, <2>3
      <4>. QED
        BY ONLY <4>1, Concat
    <3>. QED
      BY <1>1, <2>1, <3>1, <3>2 DEF InFlight
  <2>5. \A i \in 1 .. Len(buffer) : InFlight[i] = buffer[i]
    <3>1. \A i \in 1 .. Len(buffer) + Len(rttnet \o ring) :
            (buffer \o (rttnet \o ring))[i] =
              IF i <= Len(buffer) THEN buffer[i]
              ELSE (rttnet \o ring)[i - Len(buffer)]
      BY <1>1, ConcatProperties
    <3>2. \A i \in 1 .. Len(buffer) : /\ i \in 1 .. Len(buffer) + Len(rttnet \o ring)
                                      /\ i <= Len(buffer)
      BY <2>2
    <3>. QED
      BY <1>1, <3>1, <3>2
  <2>6. Len(InFlight) >= Size /\ InFlight # <<>> /\ Size \in 0 .. Len(InFlight)
    BY <1>1, <1>2, <2>2
  <2>7. StreamAligned => InFlight[1].pos = 1
    BY <2>1, <2>6 DEF StreamAligned
  <2>8. /\ InFlight[1].of \in Nat
        /\ InFlight[1].pos = 1 => SubSeq(InFlight, 1, Size) = PacketBytes(InFlight[1].of)
        /\ DropFirst(Size, InFlight) = <<>> =>
             InFlight[1].of = writes /\ InFlight[1].pos = 1
        /\ DropFirst(Size, InFlight) # <<>> =>
             /\ DropFirst(Size, InFlight)[1].of = InFlight[1].of + 1
             /\ DropFirst(Size, InFlight)[1].pos = InFlight[1].pos
    BY <1>1, <2>6, FrontPacket DEF IInv
  <2>9. decoded' = SubSeq(InFlight, 1, Size)
    <3>1. /\ SubSeq(InFlight, 1, Size) \in Seq(Bytes)
          /\ Len(SubSeq(InFlight, 1, Size)) = Size
          /\ \A i \in 1 .. Size : SubSeq(InFlight, 1, Size)[i] = InFlight[i]
      BY <1>1, <2>6, SplitSeq
    <3>2. \A i \in 1 .. Size : i \in 1 .. Len(buffer)
      BY <1>2, <2>1, <2>2
    <3>3. \A i \in 1 .. Size : decoded'[i] = SubSeq(InFlight, 1, Size)[i]
      BY <2>3, <2>5, <3>1, <3>2
    <3>. QED
      BY <2>3, <3>1, <3>3, SeqEqual
  <2>10. decoded'[1] = InFlight[1]
    <3>1. 1 \in 1 .. Size
      BY <1>2
    <3>. QED
      BY <2>2, <2>3, <2>5, <3>1
  <2>11. Chained(InFlight)' /\ EndsWith(InFlight, writes)'
    <3>1. /\ Chained(DropFirst(Size, InFlight))
          /\ EndsWith(DropFirst(Size, InFlight), writes)
      BY <1>1, <2>6, DropChained DEF IInv
    <3>. QED
      BY <2>1, <2>4, <3>1
  <2>12. StreamTypeOK'
    BY <2>1, <2>3 DEF IInv, StreamTypeOK
  <2>13. NextInLine'
    BY <2>1, <2>4, <2>8, <2>10 DEF NextInLine
  <2>14. InTime'
    <3>. SUFFICES ASSUME StreamAligned PROVE StreamAligned' /\ PacketsAreWhole'
      BY DEF IInv, InTime
    <3>1. StreamAligned'
      BY <2>4, <2>7, <2>8 DEF StreamAligned
    <3>2. PacketsAreWhole'
      BY <2>7, <2>8, <2>9, <2>10 DEF PacketsAreWhole
    <3>. QED
      BY <3>1, <3>2
  <2>. QED
    BY <2>1, <2>11, <2>12, <2>13, <2>14 DEF IInv, DrainIsClean, NothingCutYet
<1>10. CASE BeginDrain \/ BeginLoop \/ EndReading
  <2>1. InFlight' = InFlight /\ UNCHANGED <<ring, rttnet, buffer, decoded, writes>>
    BY <1>10 DEF BeginDrain, BeginLoop, EndReading, InFlight, target, server
  <2>2. StreamTypeOK'
    BY <1>10 DEF IInv, StreamTypeOK, BeginDrain, BeginLoop, EndReading, target, server
  <2>3. DrainIsClean' /\ NothingCutYet' /\ NextInLine' /\ InTime'
    BY <1>10, <2>1 DEF IInv, DrainIsClean, NothingCutYet, NextInLine, InTime,
                       StreamAligned, PacketsAreWhole, BeginDrain, BeginLoop, EndReading
  <2>. QED
    BY <2>1, <2>2, <2>3 DEF IInv
<1>11. CASE Accept \/ (\E b \in BOOLEAN : SetRunning(b)) \/ UNCHANGED rttStream
  <2>1. /\ UNCHANGED <<ring, writes, rttnet, quiet, sync, buffer, decoded>>
        /\ InFlight' = InFlight
    BY <1>11 DEF Accept, SetRunning, rttStream, InFlight, target, server, reader
  <2>2. StreamTypeOK'
    BY <1>11, <2>1 DEF IInv, StreamTypeOK, Accept, SetRunning, rttStream, target, server
  <2>. QED
    BY <2>1, <2>2 DEF IInv, DrainIsClean, NothingCutYet, NextInLine,
                     InTime, StreamAligned, PacketsAreWhole
<1>12. CASE Poll
  <2>1. CASE ring = <<>> /\ quiet' = TRUE /\ UNCHANGED <<ring, rttnet>>
    BY <1>5, <1>12, <2>1
  <2>2. CASE \E n \in 1 .. Len(ring) : /\ rttnet' = rttnet \o SubSeq(ring, 1, n)
                                       /\ ring' = DropFirst(n, ring)
                                       /\ UNCHANGED quiet
    BY <1>4, <1>12, <2>2
  <2>. QED
    BY <1>12, <2>1, <2>2 DEF Poll
<1>. QED
  BY <1>3, <1>6, <1>7, <1>8, <1>9, <1>10, <1>11, <1>12 DEF StreamNext

-----------------------------------------------------------------------------
(* The theorems.  "Polled in time" is the assumption on SlowPolling.       *)

LEMMA Invariance == StreamSpec => []IInv
<1>1. IInv /\ [StreamNext]_rttStream => IInv'
  BY NextOK
<1>. QED
  BY <1>1, InitOK, PTL DEF StreamSpec

\* Every variable keeps its type and the ring its capacity.
THEOREM StreamTypeCorrect == StreamSpec => []StreamTypeOK
  BY Invariance, PTL DEF IInv

\* Polled in time, the reader begins where a packet does, for every size of
\* packets and of the ring: what synchronize_rtt_channel is for.
THEOREM AlignmentCorrect ==
  ASSUME ~SlowPolling
  PROVE  StreamSpec => []StreamAligned
<1>1. IInv => StreamAligned
  BY DEF IInv, InTime
<1>. QED
  BY <1>1, Invariance, PTL

\* Polled in time, every packet cut is one the target wrote.
THEOREM PacketsCorrect ==
  ASSUME ~SlowPolling
  PROVE  StreamSpec => []PacketsAreWhole
<1>1. IInv => PacketsAreWhole
  BY DEF IInv, InTime
<1>. QED
  BY <1>1, Invariance, PTL

\* No packet that fitted into the ring is lost, repeated or overtaken; polled too
\* slowly, the reader may cut in the wrong places, but it still loses nothing.
THEOREM NoPacketLost == StreamSpec => NothingIsLost
<1>1. ASSUME IInv, [StreamNext]_rttStream, decoded' # decoded, decoded # <<>>
      PROVE  decoded'[1].of = decoded[1].of + 1
  <2>1. Cut
    BY <1>1 DEF StreamNext, TargetWrites, SetRunning, Accept, Poll, BeginDrain,
                DrainRead, DrainEnds, BeginLoop, Read, EndReading, rttStream, target,
                server, reader
  <2>2. sync = "loop" /\ Len(buffer) >= Size /\ decoded' = SubSeq(buffer, 1, Size)
    BY <2>1 DEF Cut
  <2>3. /\ buffer \in Seq(Bytes) /\ rttnet \o ring \in Seq(Bytes)
        /\ InFlight = buffer \o (rttnet \o ring)
    BY <1>1, TypeFacts DEF IInv
  <2>4. /\ Size \in Nat /\ Size >= 1 /\ Len(buffer) \in Nat /\ Size \in 0 .. Len(buffer)
        /\ 1 \in 1 .. Size /\ 1 <= Len(buffer)
        /\ 1 \in 1 .. Len(buffer) + Len(rttnet \o ring)
    BY <2>2, <2>3, SizeIsPositive
  <2>5. decoded'[1] = buffer[1]
    BY <2>2, <2>3, <2>4, SplitSeq
  <2>6. /\ InFlight[1] = buffer[1]
        /\ Len(InFlight) = Len(buffer) + Len(rttnet \o ring)
    BY <2>3, <2>4, ConcatProperties
  <2>7. InFlight # <<>>
    BY <2>3, <2>4, <2>6
  <2>. QED
    BY <1>1, <2>2, <2>5, <2>6, <2>7 DEF IInv, NextInLine
<1>2. IInv /\ [StreamNext]_rttStream =>
        [decoded' # decoded /\ decoded # <<>> =>
           decoded'[1].of = decoded[1].of + 1]_rttStream
  BY <1>1
<1>. QED
  BY <1>2, Invariance, PTL DEF StreamSpec, NothingIsLost

\* The drain of a target that stands still has an end: every step of OpenOCD or
\* of the reader that changes what it waits for leaves less of it.
LEMMA DrainStep ==
  ASSUME StreamTypeOK, StreamNext, sync = "drain", sync' = "drain", ~running
  PROVE  Backlog' < Backlog \/ UNCHANGED <<ring, rttnet, quiet>>
<1>1. /\ ring \in Seq(Bytes) /\ rttnet \in Seq(Bytes) /\ quiet \in BOOLEAN
      /\ Len(ring) \in Nat /\ Len(rttnet) \in Nat
  BY DEF StreamTypeOK
<1>. DEFINE wait == IF quiet THEN 0 ELSE 1
<1>2. /\ Backlog = 3 * Len(ring) + 2 * Len(rttnet) + wait
      /\ Backlog' = 3 * Len(ring') + 2 * Len(rttnet') + wait'
  BY DEF Backlog
<1>3. wait \in {0, 1} /\ wait' \in {0, 1}
  OBVIOUS
<1>4. CASE Poll /\ ring = <<>>
  <2>1. UNCHANGED <<ring, rttnet>> /\ quiet' = TRUE
    BY <1>4 DEF Poll
  <2>2. CASE quiet
    BY <1>1, <2>1, <2>2
  <2>3. CASE ~quiet
    <3>1. Backlog = 3 * Len(ring) + 2 * Len(rttnet) + 1
      BY ONLY <2>3 DEF Backlog
    <3>2. Backlog' = 3 * Len(ring) + 2 * Len(rttnet)
      BY ONLY <1>1, <2>1 DEF Backlog
    <3>. QED
      BY ONLY <1>1, <3>1, <3>2
  <2>. QED
    BY <2>2, <2>3
<1>5. CASE Poll /\ ring # <<>>
  <2>1. PICK n \in 1 .. Len(ring) :
          /\ rttnet' = rttnet \o SubSeq(ring, 1, n)
          /\ ring' = DropFirst(n, ring)
          /\ UNCHANGED quiet
    BY <1>5 DEF Poll
  <2>2. n \in 0 .. Len(ring)
    BY <1>1
  <2>3. Len(rttnet') = Len(rttnet) + n /\ Len(ring') = Len(ring) - n
    BY ONLY <1>1, <2>1, <2>2, Regroup
  <2>4. wait' = wait
    BY <2>1
  <2>. HIDE DEF wait
  <2>5. 3 * Len(ring') + 2 * Len(rttnet') = 3 * Len(ring) + 2 * Len(rttnet) - n
    BY ONLY <1>1, <2>2, <2>3
  <2>. QED
    BY ONLY <1>1, <1>2, <1>3, <2>2, <2>4, <2>5, n \in 1 .. Len(ring)
<1>6. CASE DrainRead
  <2>1. PICK n \in 1 .. Len(rttnet) : rttnet' = DropFirst(n, rttnet)
    BY <1>6 DEF DrainRead
  <2>2. n \in 0 .. Len(rttnet) /\ ring' = ring
    BY <1>1, <1>6 DEF DrainRead, target
  <2>3. Len(rttnet') = Len(rttnet) - n
    BY ONLY <1>1, <2>1, <2>2, DropType
  <2>. HIDE DEF wait
  <2>. QED
    BY ONLY <1>1, <1>2, <1>3, <2>2, <2>3, n \in 1 .. Len(rttnet)
<1>7. CASE ~Poll /\ ~DrainRead
  <2>1. \/ \E r \in BOOLEAN : SetRunning(r)
        \/ Accept
    BY <1>7 DEF StreamNext, TargetWrites, BeginDrain, DrainEnds, BeginLoop, Read, Cut,
                EndReading
  <2>. QED
    BY <2>1 DEF SetRunning, Accept, target, server
<1>. QED
  BY <1>4, <1>5, <1>6, <1>7

THEOREM DrainShrinks == StreamSpec => DrainProgress
<1>1. IInv /\ [StreamNext]_rttStream =>
        [sync = "drain" /\ sync' = "drain" /\ ~running =>
           Backlog' < Backlog \/ UNCHANGED <<ring, rttnet, quiet>>]_rttStream
  BY DrainStep DEF IInv
<1>. QED
  BY <1>1, Invariance, PTL DEF StreamSpec, DrainProgress

=============================================================================
