------------------------------ MODULE RoqProofs ------------------------------
(***************************************************************************)
(* RTP over QUIC for every number of threads, flows and packets, and for    *)
(* pieces of every size.  Three parts: the integers of the wire are read as *)
(* they were written; a reader of a stream is always behind a packet with   *)
(* the bytes of the next one, as far as they came; and what the senders     *)
(* write to a stream is the flow ID and then whole packets.                 *)
(***************************************************************************)
EXTENDS Roq, Induction, SequenceTheorems

LEMMA ByteNatural == \A x \in Byte : x \in Nat /\ x <= 255
BY DEF Byte

\* What Accumulate computes, one byte after the other.
LEMMA AccumulateIs ==
    ASSUME NEW v \in Nat, NEW b \in Seq(Byte)
    PROVE  \E r \in [0 .. Len(b) -> Nat] :
              /\ Accumulate(v, b) = r[Len(b)]
              /\ r[0] = v /\ \A i \in 1 .. Len(b) : r[i] = 256 * r[i - 1] + b[i]
<1> DEFINE Body(r) == [i \in 0 .. Len(b) |-> IF i = 0 THEN v ELSE 256 * r[i - 1] + b[i]]
           F == [i \in 1 .. Len(b) |-> [x \in Nat |-> 256 * x + b[i]]]
<1>1. Len(b) \in Nat /\ \A i \in 1 .. Len(b) : b[i] \in Nat
  <2>1. \A i \in 1 .. Len(b) : b[i] \in Byte
    OBVIOUS
  <2>. QED  BY <2>1, ByteNatural
<1>2. F \in [1 .. Len(b) -> [Nat -> Nat]]
  BY <1>1
<1>3. PICK g \in [0 .. Len(b) -> Nat] : g[0] = v /\ \A i \in 1 .. Len(b) : g[i] = F[i][g[i - 1]]
  <2> HIDE DEF F
  <2>1. Runs(Nat, v, Len(b), F) # {}
    BY ONLY <1>1, <1>2, v \in Nat, LoopRuns
  <2>. QED  BY <2>1 DEF Runs
<1>4. g = Body(g)
  <2>1. ASSUME NEW i \in 1 .. Len(b) PROVE g[i] = 256 * g[i - 1] + b[i]
    <3>1. i - 1 \in 0 .. Len(b)
      BY <1>1
    <3>. QED  BY <1>3, <3>1
  <2>. QED  BY <1>3, <2>1
<1> DEFINE r == CHOOSE r : r = Body(r)
<1>5. r = Body(r)
  <2> HIDE DEF Body
  <2>. QED  BY <1>4
<1>6. Accumulate(v, b) = r[Len(b)]
  BY DEF Accumulate
<1> HIDE DEF r
<1>7. r[0] = v /\ \A i \in 1 .. Len(b) : r[i] = 256 * r[i - 1] + b[i]
  BY <1>1, <1>5
<1>8. g[0] = v /\ \A i \in 1 .. Len(b) : g[i] = 256 * g[i - 1] + b[i]
  <2>1. ASSUME NEW i \in 1 .. Len(b) PROVE g[i] = 256 * g[i - 1] + b[i]
    <3>1. i - 1 \in 0 .. Len(b)
      BY <1>1
    <3>. QED  BY <1>3, <3>1
  <2>. QED  BY <1>3, <2>1
<1>9. r[Len(b)] = g[Len(b)]
  <2> DEFINE n == Len(b)
             T == {i \in 0 .. n : r[i] = g[i]}
  <2>1. n \in Nat /\ n \in 0 .. n
    BY <1>1
  <2> HIDE DEF n
  <2>2. 0 \in T
    BY <1>7, <1>8, <2>1
  <2>3. \A i \in 1 .. n : i - 1 \in T => i \in T
    <3>1. \A i \in 1 .. n : r[i] = 256 * r[i - 1] + b[i] /\ g[i] = 256 * g[i - 1] + b[i] /\ i \in 0 .. n
      BY <1>7, <1>8, <2>1 DEF n
    <3>. QED  BY <3>1
  <2>4. 0 .. n \subseteq T
    <3> HIDE DEF T
    <3>. QED  BY <2>1, <2>2, <2>3, UpTo
  <2>. QED  BY <2>1, <2>4 DEF n
<1>. QED  BY <1>6, <1>8, <1>9

-----------------------------------------------------------------------------
(* Variable-size integers.                                                  *)

\* The numbers that a QUIC integer holds: up to IMQUIC_MAX_VARINT.
VarintValues == {v \in Nat : v <= 4611686018427387903}

LEMMA PowersOf256 == 256^0 = 1 /\ 256^1 = 256 /\ 256^2 = 65536 /\ 256^3 = 16777216
OBVIOUS

LEMMA PowersOf2 == 2^0 = 1 /\ 2^1 = 2 /\ 2^2 = 4 /\ 2^3 = 8
OBVIOUS

\* The base-256 digit of v that has weight p.
Octet(v, p) == (v \div p) % 256

LEMMA DigitsAre ==
    ASSUME NEW v \in Nat
    PROVE  /\ Digits(v, 1) = <<Octet(v, 1)>>
           /\ Digits(v, 2) = <<Octet(v, 256), Octet(v, 1)>>
           /\ Digits(v, 4) = <<Octet(v, 16777216), Octet(v, 65536), Octet(v, 256), Octet(v, 1)>>
<1>1. Digits(v, 1) = <<Octet(v, 256^0)>>
  BY DEF Digits, Octet
<1>2. Digits(v, 2) = <<Octet(v, 256^1), Octet(v, 256^0)>>
  BY DEF Digits, Octet
<1>3. Digits(v, 4) = <<Octet(v, 256^3), Octet(v, 256^2), Octet(v, 256^1), Octet(v, 256^0)>>
  BY DEF Digits, Octet
<1>. QED  BY <1>1, <1>2, <1>3, PowersOf256

\* The four forms.
LEMMA VarintIs ==
    ASSUME NEW v \in VarintValues
    PROVE  LET h == (v \div 65536) \div 65536 IN
           /\ v <= 63 => WriteVarint(v, 2048) = <<v>>
           /\ v > 63 /\ v <= 16383 => WriteVarint(v, 2048) = <<64 + v \div 256, Octet(v, 1)>>
           /\ v > 16383 /\ v <= 1073741823 =>
                 WriteVarint(v, 2048) =
                    <<128 + v \div 16777216, Octet(v, 65536), Octet(v, 256), Octet(v, 1)>>
           /\ v > 1073741823 =>
                 WriteVarint(v, 2048) =
                    <<192 + h \div 16777216, Octet(h, 65536), Octet(h, 256), Octet(h, 1)>>
                       \o <<Octet(v, 16777216), Octet(v, 65536), Octet(v, 256), Octet(v, 1)>>
<1> DEFINE h == (v \div 65536) \div 65536
<1>1. v \in Nat /\ h \in Nat /\ h <= 1073741823
  BY SMT DEF VarintValues
<1> HIDE DEF h
<1>2. /\ Digits(v, 1) = <<Octet(v, 1)>>
      /\ Digits(v, 2) = <<Octet(v, 256), Octet(v, 1)>>
      /\ Digits(v, 4) = <<Octet(v, 16777216), Octet(v, 65536), Octet(v, 256), Octet(v, 1)>>
      /\ Digits(h, 4) = <<Octet(h, 16777216), Octet(h, 65536), Octet(h, 256), Octet(h, 1)>>
  BY <1>1, DigitsAre, SMT
<1>3. ASSUME v <= 63 PROVE WriteVarint(v, 2048) = <<v>>
  <2>1. WriteVarint(v, 2048) = <<Octet(v, 1) + 0>>
    BY <1>1, <1>2, <1>3, SMT DEF WriteVarint, Marked
  <2>2. Octet(v, 1) + 0 = v
    BY <1>1, <1>3, SMT DEF Octet
  <2>. QED  BY <2>1, <2>2, SMT
<1>4. ASSUME v > 63, v <= 16383 PROVE WriteVarint(v, 2048) = <<64 + v \div 256, Octet(v, 1)>>
  <2>1. WriteVarint(v, 2048) = <<Octet(v, 256) + 64, Octet(v, 1)>>
    BY <1>1, <1>2, <1>4, SMT DEF WriteVarint, Marked
  <2>2. Octet(v, 256) + 64 = 64 + v \div 256
    BY <1>1, <1>4, SMT DEF Octet
  <2>. QED  BY <2>1, <2>2, SMT
<1>5. ASSUME v > 16383, v <= 1073741823
      PROVE  WriteVarint(v, 2048) =
                <<128 + v \div 16777216, Octet(v, 65536), Octet(v, 256), Octet(v, 1)>>
  <2>1. WriteVarint(v, 2048) =
           <<Octet(v, 16777216) + 128, Octet(v, 65536), Octet(v, 256), Octet(v, 1)>>
    BY <1>1, <1>2, <1>5, SMT DEF WriteVarint, Marked
  <2>2. Octet(v, 16777216) + 128 = 128 + v \div 16777216
    BY <1>1, <1>5, SMT DEF Octet
  <2>. QED  BY <2>1, <2>2, SMT
<1>6. ASSUME v > 1073741823
      PROVE  WriteVarint(v, 2048) =
                <<192 + h \div 16777216, Octet(h, 65536), Octet(h, 256), Octet(h, 1)>>
                   \o <<Octet(v, 16777216), Octet(v, 65536), Octet(v, 256), Octet(v, 1)>>
  <2>1. WriteVarint(v, 2048) = Marked(h, 4, 192, 4) \o Digits(v, 4)
    BY <1>1, <1>6, SMT DEF WriteVarint, h
  <2>2. Marked(h, 4, 192, 4) =
           <<Octet(h, 16777216) + 192, Octet(h, 65536), Octet(h, 256), Octet(h, 1)>>
    BY <1>1, <1>2, SMT DEF Marked
  <2>3. Octet(h, 16777216) + 192 = 192 + h \div 16777216
    BY <1>1, SMT DEF Octet
  <2>4. Marked(h, 4, 192, 4) =
           <<192 + h \div 16777216, Octet(h, 65536), Octet(h, 256), Octet(h, 1)>>
    BY <2>2, <2>3, SMT
  <2> DEFINE high == <<192 + h \div 16777216, Octet(h, 65536), Octet(h, 256), Octet(h, 1)>>
             low == <<Octet(v, 16777216), Octet(v, 65536), Octet(v, 256), Octet(v, 1)>>
  <2>5. Marked(h, 4, 192, 4) = high /\ Digits(v, 4) = low
    BY <1>2, <2>4, SMT
  <2>6. WriteVarint(v, 2048) = high \o low
    <3> HIDE DEF high, low
    <3>. QED  BY ONLY <2>1, <2>5, SMT
  <2>. QED  BY ONLY <2>6, SMT
<1>. QED  BY <1>3, <1>4, <1>5, <1>6, SMT DEF h

\* A reader takes 1, 2, 4 or 8 bytes, as the first one says.
LEMMA VarintLengthIs ==
    ASSUME NEW x \in Byte
    PROVE  /\ x < 64 => VarintLength(x) = 1
           /\ x >= 64 /\ x < 128 => VarintLength(x) = 2
           /\ x >= 128 /\ x < 192 => VarintLength(x) = 4
           /\ x >= 192 => VarintLength(x) = 8
<1>1. x \in Nat /\ x <= 255
  BY ByteNatural
<1>2. /\ x < 64 => x \div 64 = 0
      /\ x >= 64 /\ x < 128 => x \div 64 = 1
      /\ x >= 128 /\ x < 192 => x \div 64 = 2
      /\ x >= 192 => x \div 64 = 3
  BY <1>1
<1>. QED  BY <1>1, <1>2, PowersOf2 DEF VarintLength

Accumulated(v, b) ==
    /\ Len(b) = 0 => Accumulate(v, b) = v
    /\ Len(b) = 1 => Accumulate(v, b) = 256 * v + b[1]
    /\ Len(b) = 3 => Accumulate(v, b) = 256 * (256 * (256 * v + b[1]) + b[2]) + b[3]
    /\ Len(b) = 7 => Accumulate(v, b) =
                 256 * (256 * (256 * (256 * (256 * (256 * (256 * v + b[1]) + b[2]) + b[3])
                    + b[4]) + b[5]) + b[6]) + b[7]

LEMMA AccumulateOf ==
    ASSUME NEW v \in Nat, NEW b \in Seq(Byte)
    PROVE  Accumulated(v, b)
<1>1. PICK r \in [0 .. Len(b) -> Nat] :
              /\ Accumulate(v, b) = r[Len(b)]
              /\ r[0] = v /\ \A i \in 1 .. Len(b) : r[i] = 256 * r[i - 1] + b[i]
  BY AccumulateIs
<1>2. ASSUME Len(b) >= 1 PROVE r[1] = 256 * v + b[1]
  BY <1>1, <1>2
<1>3. ASSUME Len(b) >= 3 PROVE r[2] = 256 * r[1] + b[2] /\ r[3] = 256 * r[2] + b[3]
  BY <1>1, <1>3
<1>4. ASSUME Len(b) >= 7
      PROVE  /\ r[4] = 256 * r[3] + b[4] /\ r[5] = 256 * r[4] + b[5]
             /\ r[6] = 256 * r[5] + b[6] /\ r[7] = 256 * r[6] + b[7]
  BY <1>1, <1>4
<1>5. Accumulate(v, b) = r[Len(b)] /\ r[0] = v
  BY <1>1
<1>6. CASE Len(b) = 0
  BY <1>5, <1>6 DEF Accumulated
<1>7. CASE Len(b) = 1
  BY <1>5, <1>2, <1>7 DEF Accumulated
<1>8. CASE Len(b) = 3
  BY <1>5, <1>2, <1>3, <1>8 DEF Accumulated
<1>9. CASE Len(b) = 7
  <2>1. r[7] = 256 * (256 * (256 * (256 * (256 * (256 * (256 * v + b[1]) + b[2]) + b[3])
                    + b[4]) + b[5]) + b[6]) + b[7]
    BY <1>2, <1>3, <1>4, <1>9
  <2>. QED  BY <1>5, <1>9, <2>1 DEF Accumulated
<1>. QED  BY <1>6, <1>7, <1>8, <1>9 DEF Accumulated

\* What a reader makes of bytes: nothing unless all those of the number are there.
LEMMA ReadVarintIs ==
    ASSUME NEW b \in Seq(Byte), b # <<>>
    PROVE  /\ b[1] < 64 => ReadVarint(b) = Parsed(b[1], 1)
           /\ b[1] >= 64 /\ b[1] < 128 /\ Len(b) >= 2 =>
                 ReadVarint(b) = Parsed(256 * (b[1] - 64) + b[2], 2)
           /\ b[1] >= 128 /\ b[1] < 192 /\ Len(b) >= 4 =>
                 ReadVarint(b) = Parsed(256 * (256 * (256 * (b[1] - 128) + b[2]) + b[3]) + b[4], 4)
           /\ b[1] >= 192 /\ Len(b) >= 8 =>
                 ReadVarint(b) =
                    Parsed(256 * (256 * (256 * (256 * (256 * (256 * (256 * (b[1] - 192) + b[2]) + b[3])
                       + b[4]) + b[5]) + b[6]) + b[7]) + b[8], 8)
           /\ VarintLength(b[1]) > Len(b) => ReadVarint(b) = Refused
<1> DEFINE n == VarintLength(b[1])
           c == b[1] % 64
           t == SubSeq(b, 2, n)
<1>1. b[1] \in Byte /\ b[1] \in Nat /\ b[1] <= 255 /\ Len(b) \in Nat /\ Len(b) >= 1
  BY ByteNatural
<1>2. c \in Nat /\ c = IF b[1] < 64 THEN b[1] ELSE IF b[1] < 128 THEN b[1] - 64
                       ELSE IF b[1] < 192 THEN b[1] - 128 ELSE b[1] - 192
  BY <1>1
<1>3. /\ b[1] < 64 => n = 1
      /\ b[1] >= 64 /\ b[1] < 128 => n = 2
      /\ b[1] >= 128 /\ b[1] < 192 => n = 4
      /\ b[1] >= 192 => n = 8
  BY <1>1, VarintLengthIs
<1>4. /\ n <= Len(b) => ReadVarint(b) = Parsed(Accumulate(c, t), n)
      /\ n > Len(b) => ReadVarint(b) = Refused
  <2>1. n \in Nat
    BY <1>1, <1>3
  <2> HIDE DEF n
  <2>. QED  BY <1>1, <2>1 DEF ReadVarint, n
<1>5. ASSUME n <= Len(b)
      PROVE  t \in Seq(Byte) /\ Len(t) = n - 1 /\ \A i \in 1 .. n - 1 : t[i] = b[i + 1]
  <2>1. n \in 1 .. Len(b)
    BY <1>1, <1>3, <1>5
  <2> HIDE DEF n
  <2>. QED  BY <1>1, <2>1
<1> HIDE DEF n, c, t
<1>10. n <= Len(b) => Accumulated(c, t)
  BY <1>2, <1>5, AccumulateOf
<1>6. CASE b[1] < 64
  <2>1. n = 1 /\ Len(t) = 0
    BY <1>1, <1>3, <1>5, <1>6
  <2>2. Accumulate(c, t) = c
    BY <2>1, <1>10 DEF Accumulated
  <2>. QED  BY <1>1, <1>2, <1>4, <1>6, <2>1, <2>2 DEF n
<1>7. CASE b[1] >= 64 /\ b[1] < 128
  <2>1. n = 2
    BY <1>3, <1>7
  <2>2. ASSUME Len(b) >= 2 PROVE Accumulate(c, t) = 256 * (b[1] - 64) + b[2]
    <3>1. t \in Seq(Byte) /\ Len(t) = 1 /\ t[1] = b[2]
      BY <1>5, <2>1, <2>2
    <3>2. Accumulate(c, t) = 256 * c + t[1]
      BY <3>1, <1>10, <2>2, <2>1 DEF Accumulated
    <3>. QED  BY <1>1, <1>2, <1>7, <3>1, <3>2
  <2>. QED  BY <1>1, <1>4, <1>7, <2>1, <2>2 DEF n
<1>8. CASE b[1] >= 128 /\ b[1] < 192
  <2>1. n = 4
    BY <1>3, <1>8
  <2>2. ASSUME Len(b) >= 4
        PROVE  Accumulate(c, t) = 256 * (256 * (256 * (b[1] - 128) + b[2]) + b[3]) + b[4]
    <3>1. t \in Seq(Byte) /\ Len(t) = 3 /\ t[1] = b[2] /\ t[2] = b[3] /\ t[3] = b[4]
      BY <1>5, <2>1, <2>2
    <3>2. Accumulate(c, t) = 256 * (256 * (256 * c + t[1]) + t[2]) + t[3]
      BY <3>1, <1>10, <2>2, <2>1 DEF Accumulated
    <3>. QED  BY <1>1, <1>2, <1>8, <3>1, <3>2
  <2>. QED  BY <1>1, <1>4, <1>8, <2>1, <2>2 DEF n
<1>9. CASE b[1] >= 192
  <2>1. n = 8
    BY <1>3, <1>9
  <2>2. ASSUME Len(b) >= 8
        PROVE  Accumulate(c, t) =
                  256 * (256 * (256 * (256 * (256 * (256 * (256 * (b[1] - 192) + b[2]) + b[3])
                       + b[4]) + b[5]) + b[6]) + b[7]) + b[8]
    <3>1. /\ t \in Seq(Byte) /\ Len(t) = 7 /\ t[1] = b[2] /\ t[2] = b[3] /\ t[3] = b[4]
          /\ t[4] = b[5] /\ t[5] = b[6] /\ t[6] = b[7] /\ t[7] = b[8]
      BY <1>5, <2>1, <2>2
    <3>2. Accumulate(c, t) =
                 256 * (256 * (256 * (256 * (256 * (256 * (256 * c + t[1]) + t[2]) + t[3])
                    + t[4]) + t[5]) + t[6]) + t[7]
      BY <3>1, <1>10, <2>2, <2>1 DEF Accumulated
    <3>3. c = b[1] - 192
      BY <1>1, <1>2, <1>9
    <3>. QED  BY <3>1, <3>2, <3>3
  <2>. QED  BY <1>1, <1>4, <1>9, <2>1, <2>2 DEF n
<1>. QED  BY <1>1, <1>6, <1>7, <1>8, <1>9

\* Digits make the number again.
Joined(n) ==
    /\ n \div 16777216 \in Nat /\ n \div 65536 \in Nat /\ n \div 256 \in Nat
    /\ 256 * (n \div 256) + Octet(n, 1) = n
    /\ 256 * (n \div 65536) + Octet(n, 256) = n \div 256
    /\ 256 * (n \div 16777216) + Octet(n, 65536) = n \div 65536
    /\ 256 * ((n \div 65536) \div 65536) + Octet(n, 16777216) = n \div 16777216

LEMMA OctetsJoin == ASSUME NEW n \in Nat PROVE Joined(n)
BY SMT DEF Joined, Octet

LEMMA OctetsAreBytes ==
    ASSUME NEW n \in Nat
    PROVE  /\ Octet(n, 1) \in Byte /\ Octet(n, 256) \in Byte
           /\ Octet(n, 65536) \in Byte /\ Octet(n, 16777216) \in Byte
BY SMT DEF Octet, Byte

LEMMA FirstBytes ==
    ASSUME NEW v \in Nat
    PROVE  /\ v <= 63 => v \in Byte
           /\ v > 63 /\ v <= 16383 => 64 + v \div 256 \in Byte /\ 64 + v \div 256 >= 64 /\ 64 + v \div 256 < 128
           /\ v <= 1073741823 =>
                 /\ 128 + v \div 16777216 \in Byte
                 /\ 128 + v \div 16777216 >= 128 /\ 128 + v \div 16777216 < 192
                 /\ 192 + v \div 16777216 \in Byte /\ 192 + v \div 16777216 >= 192
BY SMT DEF Byte

\* w are the bytes of the number v: whatever follows them a reader takes just these,
\* and nothing when it has some of them only.
VarintOf(v, w) ==
    /\ w \in Seq(Byte) /\ Len(w) \in {1, 2, 4, 8}
    /\ \A b \in Seq(Byte) :
          /\ Len(b) >= Len(w) /\ (\A i \in 1 .. Len(w) : b[i] = w[i]) => ReadVarint(b) = Parsed(v, Len(w))
          /\ b # <<>> /\ b[1] = w[1] /\ Len(b) < Len(w) => ReadVarint(b) = Refused

LEMMA FormLengths == \A x \in {1, 2, 4, 8} : x \in Nat /\ x > 0
OBVIOUS

(* imquic_varint_write and imquic_varint_read (utils.c): what is written for *)
(* a number up to IMQUIC_MAX_VARINT is read back as that number, wherever    *)
(* the bytes that arrive end, and never as another one.                      *)
THEOREM VarintRoundTrip == \A v \in VarintValues : VarintOf(v, WriteVarint(v, 2048))
<1> SUFFICES ASSUME NEW v \in VarintValues PROVE VarintOf(v, WriteVarint(v, 2048))
  OBVIOUS
<1> DEFINE w == WriteVarint(v, 2048)
           h == (v \div 65536) \div 65536
<1>1. v \in Nat /\ h \in Nat /\ h <= 1073741823
  BY SMT DEF VarintValues
<1> HIDE DEF h, w
<1>2. /\ v <= 63 => w = <<v>>
      /\ v > 63 /\ v <= 16383 => w = <<64 + v \div 256, Octet(v, 1)>>
      /\ v > 16383 /\ v <= 1073741823 =>
            w = <<128 + v \div 16777216, Octet(v, 65536), Octet(v, 256), Octet(v, 1)>>
      /\ v > 1073741823 =>
            w = <<192 + h \div 16777216, Octet(h, 65536), Octet(h, 256), Octet(h, 1)>>
                   \o <<Octet(v, 16777216), Octet(v, 65536), Octet(v, 256), Octet(v, 1)>>
  BY VarintIs DEF w, h
<1>9. Joined(v) /\ Joined(h)
  BY <1>1, OctetsJoin
<1> DEFINE Agrees(b) == Len(b) >= Len(w) /\ \A i \in 1 .. Len(w) : b[i] = w[i]
           Whole == /\ w \in Seq(Byte) /\ Len(w) \in {1, 2, 4, 8} /\ VarintLength(w[1]) = Len(w)
                    /\ \A b \in Seq(Byte) : Agrees(b) => ReadVarint(b) = Parsed(v, Len(w))
<1>3. ASSUME v <= 63 PROVE Whole
  <2>1. w \in Seq(Byte) /\ Len(w) = 1 /\ w[1] = v /\ VarintLength(w[1]) = 1
    <3>1. v \in Byte /\ VarintLength(v) = 1
      BY <1>1, <1>3, FirstBytes, VarintLengthIs
    <3>2. w = <<v>>
      BY <1>2, <1>3
    <3>. QED  BY <3>1, <3>2
  <2>2. ASSUME NEW b \in Seq(Byte), Agrees(b) PROVE ReadVarint(b) = Parsed(v, 1)
    <3>1. b # <<>> /\ b[1] = v
      BY <2>1, <2>2
    <3>. QED  BY <1>1, <1>3, <3>1, ReadVarintIs
  <2>. QED  BY <2>1, <2>2
<1>4. ASSUME v > 63, v <= 16383 PROVE Whole
  <2>1. /\ 64 + v \div 256 \in Byte /\ 64 + v \div 256 >= 64 /\ 64 + v \div 256 < 128
        /\ Octet(v, 1) \in Byte
    BY <1>1, <1>4, FirstBytes, OctetsAreBytes
  <2>2. /\ w \in Seq(Byte) /\ Len(w) = 2 /\ w[1] = 64 + v \div 256 /\ w[2] = Octet(v, 1)
        /\ VarintLength(w[1]) = 2
    <3>1. VarintLength(64 + v \div 256) = 2
      BY <2>1, VarintLengthIs
    <3>2. w = <<64 + v \div 256, Octet(v, 1)>>
      BY <1>2, <1>4
    <3>. QED  BY <2>1, <3>1, <3>2
  <2>3. ASSUME NEW b \in Seq(Byte), Agrees(b) PROVE ReadVarint(b) = Parsed(v, 2)
    <3>1. b # <<>> /\ Len(b) >= 2 /\ b[1] = 64 + v \div 256 /\ b[2] = Octet(v, 1)
      BY <2>2, <2>3
    <3>2. ReadVarint(b) = Parsed(256 * (b[1] - 64) + b[2], 2)
      BY <2>1, <3>1, ReadVarintIs
    <3>3. 256 * (b[1] - 64) + b[2] = v
      BY <1>1, <3>1, <1>9 DEF Joined
    <3>. QED  BY <3>2, <3>3
  <2>. QED  BY <2>2, <2>3
<1>5. ASSUME v > 16383, v <= 1073741823 PROVE Whole
  <2> DEFINE f == 128 + v \div 16777216
  <2>1. /\ f \in Byte /\ f >= 128 /\ f < 192
        /\ Octet(v, 65536) \in Byte /\ Octet(v, 256) \in Byte /\ Octet(v, 1) \in Byte
    BY <1>1, <1>5, FirstBytes, OctetsAreBytes
  <2>2. /\ w \in Seq(Byte) /\ Len(w) = 4 /\ w[1] = f /\ w[2] = Octet(v, 65536)
        /\ w[3] = Octet(v, 256) /\ w[4] = Octet(v, 1) /\ VarintLength(w[1]) = 4
    <3>1. VarintLength(f) = 4
      BY <2>1, VarintLengthIs
    <3>2. w = <<f, Octet(v, 65536), Octet(v, 256), Octet(v, 1)>>
      BY <1>2, <1>5
    <3> HIDE DEF f
    <3>. QED  BY <2>1, <3>1, <3>2
  <2>3. ASSUME NEW b \in Seq(Byte), Agrees(b) PROVE ReadVarint(b) = Parsed(v, 4)
    <3>1. /\ b # <<>> /\ Len(b) >= 4 /\ b[1] = f /\ b[2] = Octet(v, 65536)
          /\ b[3] = Octet(v, 256) /\ b[4] = Octet(v, 1)
      BY <2>2, <2>3
    <3>2. ReadVarint(b) = Parsed(256 * (256 * (256 * (b[1] - 128) + b[2]) + b[3]) + b[4], 4)
      BY <2>1, <3>1, ReadVarintIs
    <3>3. 256 * (256 * (256 * (b[1] - 128) + b[2]) + b[3]) + b[4] = v
      <4> DEFINE d == v \div 16777216
      <4>1. d \in Nat /\ b[1] - 128 = d
        BY <1>9, <3>1 DEF Joined
      <4>2. 256 * (256 * (256 * d + Octet(v, 65536)) + Octet(v, 256)) + Octet(v, 1) = v
        <5> HIDE DEF d
        <5>1. 256 * d + Octet(v, 65536) = v \div 65536
          BY <1>9 DEF Joined, d
        <5>2. 256 * (v \div 65536) + Octet(v, 256) = v \div 256
          BY <1>9 DEF Joined
        <5>3. 256 * (v \div 256) + Octet(v, 1) = v
          BY <1>9 DEF Joined
        <5>. QED  BY ONLY <5>1, <5>2, <5>3
      <4>. QED  BY ONLY <3>1, <4>1, <4>2
    <3>. QED  BY <3>2, <3>3
  <2>. QED  BY <2>2, <2>3
<1>6. ASSUME v > 1073741823 PROVE Whole
  <2> DEFINE f == 192 + h \div 16777216
             p == <<f, Octet(h, 65536), Octet(h, 256), Octet(h, 1)>>
             q == <<Octet(v, 16777216), Octet(v, 65536), Octet(v, 256), Octet(v, 1)>>
  <2>1. /\ f \in Byte /\ f >= 192
        /\ Octet(h, 65536) \in Byte /\ Octet(h, 256) \in Byte /\ Octet(h, 1) \in Byte
    <3>1. f \in Byte /\ f >= 192
      BY <1>1, SMT DEF Byte
    <3> HIDE DEF f
    <3>. QED  BY <1>1, <3>1, OctetsAreBytes
  <2>2. /\ Octet(v, 16777216) \in Byte /\ Octet(v, 65536) \in Byte
        /\ Octet(v, 256) \in Byte /\ Octet(v, 1) \in Byte
    BY <1>1, OctetsAreBytes
  <2>3. p \in Seq(Byte) /\ q \in Seq(Byte) /\ Len(p) = 4 /\ Len(q) = 4
    BY <2>1, <2>2
  <2>4. /\ w \in Seq(Byte) /\ Len(w) = 8 /\ w[1] = p[1] /\ w[2] = p[2] /\ w[3] = p[3] /\ w[4] = p[4]
        /\ w[5] = q[1] /\ w[6] = q[2] /\ w[7] = q[3] /\ w[8] = q[4]
    <3>1. w = p \o q
      BY <1>2, <1>6
    <3> DEFINE m == 4
    <3>2. p \in Seq(Byte) /\ q \in Seq(Byte) /\ Len(p) = m /\ Len(q) = m /\ m \in Nat
      BY <2>3
    <3>3. m = 4
      OBVIOUS
    <3>4. p \o q \in Seq(Byte) /\ Len(p \o q) = m + m
      <4> HIDE DEF p, q, m
      <4>. QED  BY ONLY <3>2
    <3>5. \A i \in 1 .. m : (p \o q)[i] = p[i] /\ (p \o q)[i + m] = q[i]
      <4> HIDE DEF p, q, m
      <4>. QED  BY ONLY <3>2
    <3>6. 1 \in 1 .. m /\ 2 \in 1 .. m /\ 3 \in 1 .. m /\ 4 \in 1 .. m
      OBVIOUS
    <3>7. /\ w[1] = p[1] /\ w[2] = p[2] /\ w[3] = p[3] /\ w[4] = p[4]
          /\ w[1 + m] = q[1] /\ w[2 + m] = q[2] /\ w[3 + m] = q[3] /\ w[4 + m] = q[4]
      <4> HIDE DEF p, q, m
      <4>. QED  BY ONLY <3>1, <3>5, <3>6
    <3>8. w \in Seq(Byte) /\ Len(w) = m + m
      <4> HIDE DEF p, q, m
      <4>. QED  BY ONLY <3>1, <3>4
    <3>9. Len(w) = 8
      BY ONLY <3>8
    <3> HIDE DEF p, q
    <3>. QED  BY ONLY <3>7, <3>8, <3>9
  <2>5. VarintLength(w[1]) = 8
    BY <2>1, <2>4, VarintLengthIs
  <2>6. ASSUME NEW b \in Seq(Byte), Agrees(b) PROVE ReadVarint(b) = Parsed(v, 8)
    <3>1. /\ b # <<>> /\ Len(b) >= 8 /\ b[1] = f /\ b[2] = Octet(h, 65536)
          /\ b[3] = Octet(h, 256) /\ b[4] = Octet(h, 1) /\ b[5] = Octet(v, 16777216)
          /\ b[6] = Octet(v, 65536) /\ b[7] = Octet(v, 256) /\ b[8] = Octet(v, 1)
      BY <2>4, <2>6
    <3> DEFINE top == 256 * (256 * (256 * (b[1] - 192) + b[2]) + b[3]) + b[4]
    <3>2. ReadVarint(b) = Parsed(256 * (256 * (256 * (256 * top + b[5]) + b[6]) + b[7]) + b[8], 8)
      BY <2>1, <3>1, ReadVarintIs
    <3>3. top = h
      <4> DEFINE d == h \div 16777216
      <4>1. d \in Nat /\ b[1] - 192 = d
        BY <1>9, <3>1 DEF Joined
      <4>2. 256 * (256 * (256 * d + Octet(h, 65536)) + Octet(h, 256)) + Octet(h, 1) = h
        <5> HIDE DEF d
        <5>1. 256 * d + Octet(h, 65536) = h \div 65536
          BY <1>9 DEF Joined, d
        <5>2. 256 * (h \div 65536) + Octet(h, 256) = h \div 256
          BY <1>9 DEF Joined
        <5>3. 256 * (h \div 256) + Octet(h, 1) = h
          BY <1>9 DEF Joined
        <5>. QED  BY ONLY <5>1, <5>2, <5>3
      <4>. QED  BY ONLY <3>1, <4>1, <4>2
    <3>4. 256 * h + b[5] = v \div 16777216
      BY <1>1, <3>1, <1>9 DEF Joined, h
    <3>5. 256 * (256 * (256 * (v \div 16777216) + b[6]) + b[7]) + b[8] = v
      <4>1. 256 * (v \div 16777216) + b[6] = v \div 65536
        BY <1>9, <3>1 DEF Joined
      <4>2. 256 * (v \div 65536) + b[7] = v \div 256
        BY <1>9, <3>1 DEF Joined
      <4>3. 256 * (v \div 256) + b[8] = v
        BY <1>9, <3>1 DEF Joined
      <4>. QED  BY ONLY <4>1, <4>2, <4>3
    <3> HIDE DEF top
    <3>. QED  BY ONLY <3>2, <3>3, <3>4, <3>5
  <2>. QED  BY <2>4, <2>5, <2>6
<1>7. Whole
  BY <1>1, <1>3, <1>4, <1>5, <1>6
<1>8. ASSUME NEW b \in Seq(Byte), b # <<>>, b[1] = w[1], Len(b) < Len(w)
      PROVE  ReadVarint(b) = Refused
  BY <1>7, <1>8, ReadVarintIs
<1>. QED  BY <1>7, <1>8 DEF VarintOf, w

-----------------------------------------------------------------------------
(* The bytes of a stream and the packets in them.                           *)

SizeOf(p) == WriteVarint(Len(p.bytes), 2048)

Frames == [flow : Nat, bytes : {b \in Seq(Byte) : Len(b) \in VarintValues /\ Len(b) > 0}]

\* The bytes w are the flow ID f and the packets ps, each behind its size; the i-th ends at off[i].
Layout(w, f, ps, off) ==
    /\ w \in Seq(Byte) /\ f \in VarintValues /\ ps \in Seq(Frames) /\ off \in [0 .. Len(ps) -> 0 .. Len(w)]
    /\ off[0] = Len(WriteVarint(f, 2048)) /\ off[Len(ps)] = Len(w)
    /\ \A j \in 1 .. off[0] : w[j] = WriteVarint(f, 2048)[j]
    /\ \A i \in 1 .. Len(ps) :
          /\ ps[i].flow = f
          /\ off[i] = off[i - 1] + Len(SizeOf(ps[i])) + Len(ps[i].bytes)
          /\ \A j \in 1 .. Len(SizeOf(ps[i])) : w[off[i - 1] + j] = SizeOf(ps[i])[j]
          /\ \A j \in 1 .. Len(ps[i].bytes) :
                w[off[i] - Len(ps[i].bytes) + j] = ps[i].bytes[j]

\* What is kept of the packet after the k-th when e bytes have been taken: the last ones of these.
Keeps(w, ps, off, e, pkt, k) ==
    /\ pkt \in [rtpLen : Nat, buffer : Seq(Byte)] /\ k \in 0 .. Len(ps)
    /\ Len(pkt.buffer) <= e
    /\ \A j \in 1 .. Len(pkt.buffer) : pkt.buffer[j] = w[e - Len(pkt.buffer) + j]
    /\ pkt.rtpLen = 0 => e - Len(pkt.buffer) = off[k]
    /\ pkt.rtpLen # 0 => /\ k < Len(ps) /\ pkt.rtpLen = Len(ps[k + 1].bytes)
                         /\ e - Len(pkt.buffer) + pkt.rtpLen = off[k + 1]

\* More bytes are needed for the size or for the packet.
Incomplete(pkt) ==
    IF pkt.rtpLen = 0 THEN ReadVarint(pkt.buffer).length = 0 ELSE Len(pkt.buffer) < pkt.rtpLen

LEMMA Cut ==
    ASSUME NEW b \in Seq(Byte), NEW m \in 0 .. Len(b)
    PROVE  /\ SubSeq(b, m + 1, Len(b)) \in Seq(Byte) /\ Len(SubSeq(b, m + 1, Len(b))) = Len(b) - m
           /\ \A j \in 1 .. Len(b) - m : SubSeq(b, m + 1, Len(b))[j] = b[m + j]
           /\ SubSeq(b, 1, m) \in Seq(Byte) /\ Len(SubSeq(b, 1, m)) = m
           /\ \A j \in 1 .. m : SubSeq(b, 1, m)[j] = b[j]
OBVIOUS

LEMMA ReadsNothing ==
    ASSUME NEW b \in Seq(Byte)
    PROVE  ReadVarint(b).length = 0 => ReadVarint(b) = Refused
<1>1. CASE b = <<>>
  BY <1>1 DEF ReadVarint
<1>2. CASE b # <<>>
  <2>1. b[1] \in Byte /\ b[1] \in Nat
    BY <1>2, ByteNatural
  <2>2. VarintLength(b[1]) \in {1, 2, 4, 8}
    BY <2>1, VarintLengthIs
  <2>3. VarintLength(b[1]) <= Len(b) => ReadVarint(b).length = VarintLength(b[1])
    <3>1. Len(b) \in Nat
      OBVIOUS
    <3>. QED  BY <1>2, <2>2, <3>1 DEF ReadVarint, Parsed
  <2>4. VarintLength(b[1]) > Len(b) => ReadVarint(b) = Refused
    BY <1>2, ReadVarintIs
  <2>. QED  BY <2>2, <2>3, <2>4
<1>. QED  BY <1>1, <1>2

\* Where the i-th packet is.
PacketAt(w, f, ps, off, i) ==
    /\ i - 1 \in 0 .. Len(ps) /\ off[i - 1] \in 0 .. Len(w) /\ off[i] \in 0 .. Len(w)
    /\ ps[i].flow = f /\ ps[i].bytes \in Seq(Byte) /\ Len(ps[i].bytes) \in Nat /\ Len(ps[i].bytes) > 0
    /\ VarintOf(Len(ps[i].bytes), SizeOf(ps[i])) /\ Len(SizeOf(ps[i])) \in {1, 2, 4, 8}
    /\ off[i] = off[i - 1] + Len(SizeOf(ps[i])) + Len(ps[i].bytes)
    /\ \A j \in 1 .. Len(SizeOf(ps[i])) : w[off[i - 1] + j] = SizeOf(ps[i])[j]
    /\ \A j \in 1 .. Len(ps[i].bytes) : w[off[i] - Len(ps[i].bytes) + j] = ps[i].bytes[j]

LEMMA PacketOf ==
    ASSUME NEW w, NEW f, NEW ps, NEW off, Layout(w, f, ps, off), NEW i \in 1 .. Len(ps)
    PROVE  PacketAt(w, f, ps, off, i)
<1>1. ps \in Seq(Frames) /\ off \in [0 .. Len(ps) -> 0 .. Len(w)] /\ Len(w) \in Nat /\ Len(ps) \in Nat
  BY DEF Layout
<1>2. ps[i] \in Frames /\ i - 1 \in 0 .. Len(ps) /\ i \in 0 .. Len(ps)
  BY <1>1
<1>3. ps[i].bytes \in Seq(Byte) /\ Len(ps[i].bytes) \in VarintValues /\ Len(ps[i].bytes) > 0
  BY <1>2 DEF Frames
<1>4. VarintOf(Len(ps[i].bytes), SizeOf(ps[i]))
  BY <1>3, VarintRoundTrip DEF SizeOf
<1>5. Len(SizeOf(ps[i])) \in {1, 2, 4, 8}
  BY <1>4 DEF VarintOf
<1>6. /\ ps[i].flow = f /\ off[i] = off[i - 1] + Len(SizeOf(ps[i])) + Len(ps[i].bytes)
      /\ \A j \in 1 .. Len(SizeOf(ps[i])) : w[off[i - 1] + j] = SizeOf(ps[i])[j]
      /\ \A j \in 1 .. Len(ps[i].bytes) : w[off[i] - Len(ps[i].bytes) + j] = ps[i].bytes[j]
  BY DEF Layout
<1>7. off[i - 1] \in 0 .. Len(w) /\ off[i] \in 0 .. Len(w) /\ Len(ps[i].bytes) \in Nat
  <2>1. \A m \in 0 .. Len(ps) : off[m] \in 0 .. Len(w)
    BY <1>1
  <2>2. off[i - 1] \in 0 .. Len(w) /\ off[i] \in 0 .. Len(w)
    BY <1>2, <2>1
  <2>3. Len(ps[i].bytes) \in Nat
    BY <1>3
  <2>. QED  BY <2>2, <2>3
<1>. QED  BY <1>2, <1>3, <1>4, <1>5, <1>6, <1>7 DEF PacketAt

\* Behind the k-th packet a reader finds the size of the next one, or too few bytes of it.
LEMMA SizeNext ==
    ASSUME NEW w, NEW f, NEW ps, NEW off, NEW e \in 0 .. Len(w), NEW pkt, NEW k,
           Layout(w, f, ps, off), Keeps(w, ps, off, e, pkt, k), pkt.rtpLen = 0,
           ReadVarint(pkt.buffer).length # 0
    PROVE  /\ k < Len(ps) /\ Len(SizeOf(ps[k + 1])) <= Len(pkt.buffer)
           /\ ReadVarint(pkt.buffer) = Parsed(Len(ps[k + 1].bytes), Len(SizeOf(ps[k + 1])))
<1> DEFINE b == pkt.buffer
           z == SizeOf(ps[k + 1])
<1>1. /\ b \in Seq(Byte) /\ Len(b) \in Nat /\ b # <<>> /\ Len(b) > 0 /\ k \in 0 .. Len(ps)
      /\ Len(ps) \in Nat /\ Len(w) \in Nat /\ e \in Nat
  <2>1. b \in Seq(Byte) /\ k \in 0 .. Len(ps) /\ ps \in Seq(Frames) /\ w \in Seq(Byte)
    BY DEF Keeps, Layout
  <2>2. b # <<>>
    BY DEF ReadVarint, Refused, Parsed
  <2>. QED  BY <2>1, <2>2
<1>2. e - Len(b) = off[k]
  BY DEF Keeps
<1>3. k < Len(ps)
  <2>1. off[Len(ps)] = Len(w)
    BY DEF Layout
  <2>. QED  BY <1>1, <1>2, <2>1
<1>4. /\ off[k] \in 0 .. Len(w) /\ VarintOf(Len(ps[k + 1].bytes), z) /\ Len(z) \in {1, 2, 4, 8}
      /\ \A j \in 1 .. Len(z) : w[off[k] + j] = z[j]
  <2> DEFINE i == k + 1
  <2>1. i \in 1 .. Len(ps) /\ i - 1 = k
    BY <1>1, <1>3
  <2> HIDE DEF i
  <2>2. /\ off[i - 1] \in 0 .. Len(w) /\ VarintOf(Len(ps[i].bytes), SizeOf(ps[i]))
        /\ Len(SizeOf(ps[i])) \in {1, 2, 4, 8}
        /\ \A j \in 1 .. Len(SizeOf(ps[i])) : w[off[i - 1] + j] = SizeOf(ps[i])[j]
    <3>1. PacketAt(w, f, ps, off, i)
      BY <2>1, PacketOf
    <3>. QED  BY <3>1 DEF PacketAt
  <2>. QED  BY <2>1, <2>2 DEF i
<1>5. ASSUME NEW j \in 1 .. Len(b), j <= Len(z) PROVE b[j] = z[j]
  <2>1. b[j] = w[e - Len(b) + j]
    BY DEF Keeps
  <2>2. j \in 1 .. Len(z)
    BY <1>4, <1>5
  <2>. QED  BY <1>2, <1>4, <2>1, <2>2
<1> HIDE DEF b, z
<1>6. ASSUME Len(b) < Len(z) PROVE FALSE
  <2>1. b[1] = z[1]
    BY <1>1, <1>4, <1>5
  <2>2. ReadVarint(b) = Refused
    BY <1>1, <1>4, <1>6, <2>1 DEF VarintOf
  <2>. QED  BY <2>2 DEF Refused, Parsed, b
<1>7. Len(z) <= Len(b)
  BY <1>1, <1>4, <1>6
<1>8. ReadVarint(b) = Parsed(Len(ps[k + 1].bytes), Len(z))
  <2>1. \A j \in 1 .. Len(z) : b[j] = z[j]
    BY <1>1, <1>4, <1>5, <1>7
  <2>. QED  BY <1>1, <1>4, <1>7, <2>1 DEF VarintOf
<1>. QED  BY <1>3, <1>7, <1>8 DEF b, z

LEMMA BehindSize ==
    ASSUME NEW a \in Nat, NEW z \in Nat, NEW o \in Nat, NEW n \in Nat, NEW e \in Nat, NEW l, NEW x,
           z <= a, a <= e, l = a - z, e - a = o, x = o + z + n
    PROVE  e - l + n = x /\ l <= e
OBVIOUS

LEMMA SizeTaken ==
    ASSUME NEW w, NEW f, NEW ps, NEW off, NEW e \in 0 .. Len(w), NEW pkt, NEW k,
           Layout(w, f, ps, off), Keeps(w, ps, off, e, pkt, k)
    PROVE  LET p == NextPacket(pkt) IN
           /\ pkt.rtpLen = 0 /\ ReadVarint(pkt.buffer).length = 0 => p = pkt
           /\ pkt.rtpLen # 0 \/ ReadVarint(pkt.buffer).length # 0 =>
                 Keeps(w, ps, off, e, p, k) /\ p.rtpLen # 0 /\ Len(p.buffer) <= Len(pkt.buffer)
<1> DEFINE b == pkt.buffer
           p == NextPacket(pkt)
<1>1. /\ pkt \in [rtpLen : Nat, buffer : Seq(Byte)] /\ b \in Seq(Byte) /\ Len(b) \in Nat
      /\ k \in 0 .. Len(ps) /\ ps \in Seq(Frames) /\ Len(ps) \in Nat
      /\ w \in Seq(Byte) /\ Len(w) \in Nat /\ e \in Nat
  BY DEF Keeps, Layout
<1>2. CASE pkt.rtpLen # 0
  BY <1>1, <1>2 DEF NextPacket
<1>3. CASE pkt.rtpLen = 0 /\ ReadVarint(b).length = 0
  <2>1. ReadVarint(b) = Refused
    BY <1>1, <1>3, ReadsNothing
  <2>2. p = [rtpLen |-> 0, buffer |-> SubSeq(b, 1, Len(b))]
    BY <1>3, <2>1 DEF NextPacket, Refused, Parsed
  <2>3. SubSeq(b, 1, Len(b)) = b
    BY <1>1, SubSeqFull
  <2>. QED  BY <1>1, <1>3, <2>2, <2>3
<1>4. CASE pkt.rtpLen = 0 /\ ReadVarint(b).length # 0
  <2> DEFINE i == k + 1
             z == Len(SizeOf(ps[i]))
             n == Len(ps[i].bytes)
             t == SubSeq(b, z + 1, Len(b))
  <2>1. k < Len(ps) /\ z <= Len(b) /\ ReadVarint(b) = Parsed(n, z)
    BY <1>4, SizeNext
  <2>2. i \in 1 .. Len(ps) /\ i - 1 = k /\ k + 1 = i
    BY <1>1, <2>1
  <2> HIDE DEF i
  <2>3. /\ off[k] \in Nat /\ off[i] = off[k] + z + n /\ n \in Nat /\ n > 0 /\ z \in {1, 2, 4, 8}
    <3>1. off[i - 1] \in 0 .. Len(w)
      BY <2>2, PacketOf DEF PacketAt
    <3>2. off[i] = off[i - 1] + z + n /\ n \in Nat /\ n > 0 /\ z \in {1, 2, 4, 8}
      BY <2>2, PacketOf DEF PacketAt
    <3>. QED  BY <1>1, <2>2, <3>1, <3>2
  <2>4. p = [rtpLen |-> n, buffer |-> t]
    BY <1>4, <2>1 DEF NextPacket, Parsed
  <2> HIDE DEF z, n
  <2>5. z \in 0 .. Len(b)
    BY <1>1, <2>1, <2>3
  <2>6. /\ t \in Seq(Byte) /\ Len(t) = Len(b) - z
        /\ \A j \in 1 .. Len(b) - z : t[j] = b[z + j]
    BY <1>1, <2>5, Cut
  <2> HIDE DEF t
  <2>7. e - Len(b) = off[k] /\ Len(b) <= e /\ \A j \in 1 .. Len(b) : b[j] = w[e - Len(b) + j]
    BY <1>4 DEF Keeps
  <2>8. ASSUME NEW j \in 1 .. Len(t) PROVE t[j] = w[e - Len(t) + j]
    <3>1. z + j \in 1 .. Len(b) /\ t[j] = b[z + j]
      BY <1>1, <2>5, <2>6
    <3>2. e - Len(b) + (z + j) = e - Len(t) + j
      BY <1>1, <2>5, <2>6
    <3>3. b[z + j] = w[e - Len(b) + (z + j)]
      BY <2>7, <3>1
    <3>. QED  BY <3>1, <3>2, <3>3
  <2>9. Keeps(w, ps, off, e, p, k)
    <3>1. p \in [rtpLen : Nat, buffer : Seq(Byte)] /\ p.rtpLen = n /\ p.buffer = t /\ n # 0
      BY <2>3, <2>4, <2>6
    <3>2. k < Len(ps) /\ n = Len(ps[k + 1].bytes)
      BY <2>1, <2>2 DEF n
    <3>3. e - Len(t) + n = off[k + 1] /\ Len(t) <= e
      <4>1. Len(t) = Len(b) - z /\ e - Len(b) = off[k] /\ Len(b) <= e /\ off[i] = off[k] + z + n
        BY <2>3, <2>6, <2>7
      <4>2. Len(b) \in Nat /\ z \in Nat /\ z <= Len(b) /\ e \in Nat /\ n \in Nat /\ off[k] \in Nat
        BY <1>1, <2>1, <2>3
      <4>3. e - Len(t) + n = off[i] /\ Len(t) <= e
        BY ONLY <4>1, <4>2, BehindSize
      <4>. QED  BY <2>2, <4>3
    <3>. QED  BY <1>1, <2>8, <3>1, <3>2, <3>3 DEF Keeps
  <2>10. p.rtpLen # 0 /\ Len(p.buffer) <= Len(b)
    <3>1. Len(t) = Len(b) - z /\ Len(b) \in Nat /\ z \in Nat
      BY <1>1, <2>3, <2>6
    <3>2. Len(t) <= Len(b) /\ n # 0
      BY ONLY <3>1, <2>3
    <3>. QED  BY <2>4, <3>2
  <2>. QED  BY <1>4, <2>9, <2>10
<1>. QED  BY <1>2, <1>3, <1>4

\* The next packet is whole: these are its bytes, and what follows is kept.
NextTaken(w, ps, off, e, p, k) ==
    LET t == SubSeq(p.buffer, p.rtpLen + 1, Len(p.buffer)) IN
    /\ k < Len(ps) /\ SubSeq(p.buffer, 1, p.rtpLen) = ps[k + 1].bytes
    /\ Keeps(w, ps, off, e, [rtpLen |-> 0, buffer |-> t], k + 1)
    /\ Len(t) < Len(p.buffer)

LEMMA PacketTaken ==
    ASSUME NEW w, NEW f, NEW ps, NEW off, NEW e \in 0 .. Len(w), NEW p, NEW k,
           Layout(w, f, ps, off), Keeps(w, ps, off, e, p, k),
           p.rtpLen # 0, p.rtpLen <= Len(p.buffer)
    PROVE  NextTaken(w, ps, off, e, p, k)
<1> DEFINE b == p.buffer
           n == p.rtpLen
           i == k + 1
           t == SubSeq(b, n + 1, Len(b))
           u == SubSeq(b, 1, n)
<1>1. /\ p \in [rtpLen : Nat, buffer : Seq(Byte)] /\ b \in Seq(Byte) /\ Len(b) \in Nat /\ n \in Nat /\ n > 0
      /\ k \in 0 .. Len(ps) /\ ps \in Seq(Frames) /\ Len(ps) \in Nat
      /\ w \in Seq(Byte) /\ Len(w) \in Nat /\ e \in Nat
  <2>1. /\ p \in [rtpLen : Nat, buffer : Seq(Byte)] /\ k \in 0 .. Len(ps)
        /\ ps \in Seq(Frames) /\ w \in Seq(Byte)
    BY DEF Keeps, Layout
  <2>2. b \in Seq(Byte) /\ n \in Nat
    BY <2>1
  <2>3. Len(b) \in Nat /\ Len(ps) \in Nat /\ Len(w) \in Nat
    BY <2>1, <2>2, LenProperties
  <2>. QED  BY <2>1, <2>2, <2>3
<1>2. /\ k < Len(ps) /\ n = Len(ps[i].bytes) /\ e - Len(b) + n = off[i] /\ Len(b) <= e
      /\ \A j \in 1 .. Len(b) : b[j] = w[e - Len(b) + j]
  BY DEF Keeps
<1>3. i \in 1 .. Len(ps) /\ i \in 0 .. Len(ps) /\ n \in 0 .. Len(b) /\ n <= Len(b)
  BY <1>1, <1>2
<1> HIDE DEF i
<1>4. /\ off[i] \in 0 .. Len(w) /\ ps[i].bytes \in Seq(Byte)
      /\ \A j \in 1 .. Len(ps[i].bytes) : w[off[i] - Len(ps[i].bytes) + j] = ps[i].bytes[j]
  BY <1>3, PacketOf DEF PacketAt
<1>5. /\ t \in Seq(Byte) /\ Len(t) = Len(b) - n /\ \A j \in 1 .. Len(b) - n : t[j] = b[n + j]
      /\ u \in Seq(Byte) /\ Len(u) = n /\ \A j \in 1 .. n : u[j] = b[j]
  <2> HIDE DEF b, n
  <2>. QED  BY <1>1, <1>3, Cut
<1> HIDE DEF b, n, t, u
<1>6. u = ps[i].bytes
  <2>1. ASSUME NEW j \in 1 .. n PROVE u[j] = ps[i].bytes[j]
    <3>1. u[j] = b[j] /\ b[j] = w[e - Len(b) + j]
      BY <1>1, <1>2, <1>3, <1>5
    <3>2. e - Len(b) + j = off[i] - n + j
      BY <1>1, <1>2, <1>4
    <3>. QED  BY <1>2, <1>4, <3>1, <3>2
  <2>. QED  BY <1>2, <1>4, <1>5, <2>1, SeqEqual
<1>7. ASSUME NEW j \in 1 .. Len(t) PROVE t[j] = w[e - Len(t) + j]
  <2>1. n + j \in 1 .. Len(b) /\ t[j] = b[n + j]
    BY <1>1, <1>3, <1>5
  <2>2. e - Len(b) + (n + j) = e - Len(t) + j
    BY <1>1, <1>3, <1>5
  <2>3. b[n + j] = w[e - Len(b) + (n + j)]
    BY <1>2, <2>1
  <2>. QED  BY <2>1, <2>2, <2>3
<1>8. Keeps(w, ps, off, e, [rtpLen |-> 0, buffer |-> t], i)
  <2>1. Len(t) <= e /\ e - Len(t) = off[i]
    <3>1. Len(t) = Len(b) - n /\ e - Len(b) + n = off[i] /\ Len(b) <= e
      BY <1>2, <1>5
    <3>. QED  BY ONLY <1>1, <3>1
  <2>. QED  BY <1>3, <1>5, <1>7, <2>1 DEF Keeps
<1>9. Len(t) < Len(b)
  BY <1>1, <1>3, <1>5
<1>. QED  BY <1>2, <1>6, <1>8, <1>9 DEF b, n, t, u, i, NextTaken

\* A state of the loop of imquic_roq_buffer_data that started behind the m-th packet.
LoopStates == [pkt : [rtpLen : Nat, buffer : Seq(Byte)], found : Seq(Seq(Byte)), more : BOOLEAN]

Loop(w, ps, off, e, m) ==
    {st \in LoopStates :
        /\ Keeps(w, ps, off, e, st.pkt, m + Len(st.found))
        /\ \A i \in 1 .. Len(st.found) : st.found[i] = ps[m + i].bytes
        /\ ~st.more => Incomplete(st.pkt)}

LEMMA LoopState ==
    ASSUME NEW w, NEW ps, NEW off, NEW e, NEW m \in Nat, NEW pkt, NEW found \in Seq(Seq(Byte)),
           NEW more \in BOOLEAN, Keeps(w, ps, off, e, pkt, m + Len(found)),
           \A i \in 1 .. Len(found) : found[i] = ps[m + i].bytes,
           ~more => Incomplete(pkt)
    PROVE  [pkt |-> pkt, found |-> found, more |-> more] \in Loop(w, ps, off, e, m)
<1>1. pkt \in [rtpLen : Nat, buffer : Seq(Byte)]
  BY DEF Keeps
<1>. QED  BY <1>1 DEF Loop, LoopStates

LEMMA StateOfLoop ==
    ASSUME NEW w, NEW ps, NEW off, NEW e, NEW m \in Nat, NEW st \in Loop(w, ps, off, e, m)
    PROVE  /\ st = [pkt |-> st.pkt, found |-> st.found, more |-> st.more]
           /\ st.pkt \in [rtpLen : Nat, buffer : Seq(Byte)] /\ st.pkt.buffer \in Seq(Byte)
           /\ Len(st.pkt.buffer) \in Nat /\ st.pkt.rtpLen \in Nat
           /\ st.found \in Seq(Seq(Byte)) /\ Len(st.found) \in Nat /\ st.more \in BOOLEAN
           /\ Keeps(w, ps, off, e, st.pkt, m + Len(st.found))
           /\ \A i \in 1 .. Len(st.found) : st.found[i] = ps[m + i].bytes
           /\ ~st.more => Incomplete(st.pkt)
<1>1. st \in LoopStates
  BY DEF Loop
<1>2. /\ st = [pkt |-> st.pkt, found |-> st.found, more |-> st.more]
      /\ st.pkt \in [rtpLen : Nat, buffer : Seq(Byte)]
      /\ st.found \in Seq(Seq(Byte)) /\ st.more \in BOOLEAN
  BY <1>1 DEF LoopStates
<1>3. /\ st.pkt.buffer \in Seq(Byte) /\ Len(st.pkt.buffer) \in Nat /\ st.pkt.rtpLen \in Nat
      /\ Len(st.found) \in Nat
  BY <1>2
<1>. QED  BY <1>2, <1>3 DEF Loop

\* A turn finds the next packet whole or leaves it incomplete.
LEMMA TurnKept ==
    ASSUME NEW w, NEW f, NEW ps, NEW off, NEW e \in 0 .. Len(w), NEW m \in Nat,
           Layout(w, f, ps, off), NEW st \in Loop(w, ps, off, e, m)
    PROVE  /\ BufferTurn(st) \in Loop(w, ps, off, e, m)
           /\ st.more /\ st.pkt.buffer # <<>> =>
                 \/ ~BufferTurn(st).more
                 \/ Len(BufferTurn(st).pkt.buffer) < Len(st.pkt.buffer)
           /\ ~st.more \/ st.pkt.buffer = <<>> => BufferTurn(st) = st
<1> DEFINE pkt == st.pkt
           p == NextPacket(pkt)
           n == p.rtpLen
           k == m + Len(st.found)
           noSize == pkt.rtpLen = 0 /\ ReadVarint(pkt.buffer).length = 0
           t == SubSeq(p.buffer, n + 1, Len(p.buffer))
           u == SubSeq(p.buffer, 1, n)
<1>1. /\ st = [pkt |-> st.pkt, found |-> st.found, more |-> st.more]
      /\ pkt \in [rtpLen : Nat, buffer : Seq(Byte)] /\ pkt.buffer \in Seq(Byte)
      /\ Len(pkt.buffer) \in Nat /\ pkt.rtpLen \in Nat
      /\ st.found \in Seq(Seq(Byte)) /\ Len(st.found) \in Nat /\ st.more \in BOOLEAN
      /\ Keeps(w, ps, off, e, pkt, k)
      /\ \A i \in 1 .. Len(st.found) : st.found[i] = ps[m + i].bytes
  BY StateOfLoop
<1>2. CASE ~st.more \/ pkt.buffer = <<>>
  BY <1>2 DEF BufferTurn
<1>3. CASE st.more /\ pkt.buffer # <<>> /\ noSize
  <2>1. p = pkt
    <3>1. Keeps(w, ps, off, e, pkt, k) /\ pkt.rtpLen = 0 /\ ReadVarint(pkt.buffer).length = 0
      BY <1>1, <1>3
    <3> HIDE DEF pkt, k
    <3>. QED  BY ONLY Layout(w, f, ps, off), e \in 0 .. Len(w), <3>1, SizeTaken
  <2>2. BufferTurn(st) = [pkt |-> pkt, found |-> st.found, more |-> FALSE]
    <3> HIDE DEF p
    <3>1. BufferTurn(st) = [st EXCEPT !.pkt = p, !.more = FALSE]
      BY <1>3 DEF BufferTurn, p
    <3>. QED  BY <1>1, <2>1, <3>1
  <2>3. Incomplete(pkt)
    BY <1>3 DEF Incomplete
  <2>4. [pkt |-> pkt, found |-> st.found, more |-> FALSE] \in Loop(w, ps, off, e, m)
    <3> HIDE DEF pkt
    <3>. QED  BY <1>1, <2>3, LoopState
  <2>. QED  BY <1>3, <2>2, <2>4
<1>4. CASE st.more /\ pkt.buffer # <<>> /\ ~noSize
  <2>1. Keeps(w, ps, off, e, p, k) /\ n # 0 /\ Len(p.buffer) <= Len(pkt.buffer)
    BY <1>1, <1>4, SizeTaken
  <2>2. p \in [rtpLen : Nat, buffer : Seq(Byte)] /\ p.buffer \in Seq(Byte) /\ Len(p.buffer) \in Nat /\ n \in Nat
    BY <2>1 DEF Keeps
  <2> HIDE DEF p
  <2>3. CASE n > Len(p.buffer)
    <3>1. BufferTurn(st) = [pkt |-> p, found |-> st.found, more |-> FALSE]
      <4>1. BufferTurn(st) = [st EXCEPT !.pkt = p, !.more = FALSE]
        BY <1>4, <2>3 DEF BufferTurn, p
      <4>. QED  BY <1>1, <4>1
    <3>2. Incomplete(p)
      BY <2>1, <2>2, <2>3 DEF Incomplete
    <3>3. [pkt |-> p, found |-> st.found, more |-> FALSE] \in Loop(w, ps, off, e, m)
      BY <1>1, <2>1, <3>2, LoopState
    <3>. QED  BY <1>4, <3>1, <3>3
  <2>4. CASE ~(n > Len(p.buffer))
    <3> DEFINE q == [rtpLen |-> 0, buffer |-> t]
               found == Append(st.found, u)
    <3>1. /\ k < Len(ps) /\ u = ps[k + 1].bytes /\ Keeps(w, ps, off, e, q, k + 1)
          /\ Len(t) < Len(p.buffer)
      <4>1. n <= Len(p.buffer)
        BY <2>2, <2>4
      <4>2. NextTaken(w, ps, off, e, p, k)
        <5> HIDE DEF k
        <5>. QED  BY ONLY Layout(w, f, ps, off), e \in 0 .. Len(w), <2>1, <4>1, PacketTaken
      <4>. QED  BY <4>2 DEF NextTaken
    <3>2. BufferTurn(st) = [pkt |-> q, found |-> found, more |-> TRUE]
      <4>1. n > 0
        BY <2>1, <2>2
      <4>2. BufferTurn(st) = [st EXCEPT !.pkt = q, !.found = IF n > 0 THEN Append(@, u) ELSE @]
        BY <1>4, <2>4 DEF BufferTurn, p
      <4>. QED  BY <1>1, <1>4, <4>1, <4>2
    <3>3. u \in Seq(Byte)
      <4>1. n \in 0 .. Len(p.buffer)
        BY <2>2, <2>4
      <4> HIDE DEF n
      <4>. QED  BY <2>2, <4>1, Cut
    <3> HIDE DEF n, t, u
    <3>4. /\ found \in Seq(Seq(Byte)) /\ Len(found) = Len(st.found) + 1
          /\ found[Len(st.found) + 1] = u
          /\ \A j \in 1 .. Len(st.found) : found[j] = st.found[j]
      <4>1. st.found \in Seq(Seq(Byte))
        BY <1>1
      <4>. QED  BY ONLY <3>3, <4>1, AppendProperties
    <3>5. ASSUME NEW i \in 1 .. Len(found) PROVE found[i] = ps[m + i].bytes
      <4> HIDE DEF found
      <4>0. Len(st.found) \in Nat
        BY <1>1
      <4>1. CASE i = Len(found)
        <5>1. found[i] = u
          BY ONLY <3>4, <4>1
        <5>2. m + i = k + 1
          BY <1>1, <3>4, <4>1
        <5>. QED  BY <3>1, <5>1, <5>2
      <4>2. CASE i # Len(found)
        <5>1. i \in 1 .. Len(st.found) /\ found[i] = st.found[i]
          BY ONLY <3>4, <4>0, <4>2, i \in 1 .. Len(found)
        <5>. QED  BY <1>1, <5>1
      <4>. QED  BY <4>1, <4>2
    <3>6. m + Len(found) = k + 1
      BY <1>1, <3>4
    <3>7. BufferTurn(st) \in Loop(w, ps, off, e, m)
      <4>1. Keeps(w, ps, off, e, q, m + Len(found))
        BY <3>1, <3>6
      <4> HIDE DEF found, q
      <4>2. [pkt |-> q, found |-> found, more |-> TRUE] \in Loop(w, ps, off, e, m)
        BY <3>4, <3>5, <4>1, LoopState
      <4>. QED  BY <3>2, <4>2
    <3>8. Len(t) < Len(pkt.buffer)
      BY <1>1, <2>1, <2>2, <3>1
    <3>. QED  BY <1>4, <3>2, <3>7, <3>8
  <2>. QED  BY <2>3, <2>4
<1>. QED  BY <1>2, <1>3, <1>4

LEMMA BufferDataIs ==
    ASSUME NEW pkt, NEW S, NEW a \in S, a = [pkt |-> pkt, found |-> <<>>, more |-> TRUE],
           Len(pkt.buffer) \in Nat, \A st \in S : BufferTurn(st) \in S
    PROVE  \E g \in [0 .. Len(pkt.buffer) -> S] :
              /\ BufferData(pkt) = g[Len(pkt.buffer)] /\ g[0] = a
              /\ \A i \in 1 .. Len(pkt.buffer) : g[i] = BufferTurn(g[i - 1])
<1> DEFINE n == Len(pkt.buffer)
           turn == [st \in S |-> BufferTurn(st)]
           F == [i \in 1 .. n |-> turn]
           Body(r) == [i \in 0 .. n |-> IF i = 0 THEN [pkt |-> pkt, found |-> <<>>, more |-> TRUE]
                                        ELSE BufferTurn(r[i - 1])]
<1>1. F \in [1 .. n -> [S -> S]]
  OBVIOUS
<1>2. PICK g \in [0 .. n -> S] : g[0] = a /\ \A i \in 1 .. n : g[i] = F[i][g[i - 1]]
  <2> HIDE DEF F, n
  <2>1. n \in Nat
    BY DEF n
  <2>2. Runs(S, a, n, F) # {}
    BY ONLY <1>1, <2>1, a \in S, LoopRuns
  <2>. QED  BY <2>2 DEF Runs
<1>3. \A i \in 1 .. n : g[i] = BufferTurn(g[i - 1])
  <2>1. ASSUME NEW i \in 1 .. n PROVE i - 1 \in 0 .. n
    OBVIOUS
  <2>. QED  BY <1>2, <2>1
<1>4. g = Body(g)
  BY <1>2, <1>3
<1> DEFINE r == CHOOSE r : r = Body(r)
<1>5. r = Body(r)
  <2> HIDE DEF Body
  <2>. QED  BY <1>4
<1>6. BufferData(pkt) = r[n]
  BY DEF BufferData
<1> HIDE DEF r, n, F
<1>7. n \in Nat
  BY DEF n
<1>8. r[0] = g[0] /\ \A i \in 1 .. n : r[i] = BufferTurn(r[i - 1])
  <2>1. 0 \in 0 .. n /\ \A i \in 1 .. n : i \in 0 .. n /\ i # 0
    BY <1>7
  <2>2. r[0] = a
    BY <1>5, <2>1
  <2>3. ASSUME NEW i \in 1 .. n PROVE r[i] = BufferTurn(r[i - 1])
    BY <1>5, <2>1
  <2>. QED  BY <1>2, <2>2, <2>3
<1>9. r[n] = g[n]
  <2> DEFINE T == {i \in 0 .. n : r[i] = g[i]}
  <2>1. 0 \in T
    BY <1>7, <1>8
  <2>2. \A i \in 1 .. n : i - 1 \in T => i \in T
    BY <1>3, <1>7, <1>8
  <2>3. n \in 0 .. n
    BY <1>7
  <2>4. 0 .. n \subseteq T
    <3> HIDE DEF T
    <3>. QED  BY <1>7, <2>1, <2>2, UpTo
  <2>. QED  BY <2>3, <2>4
<1>. QED  BY <1>2, <1>3, <1>6, <1>9 DEF n

\* Every packet that is whole is found, and the next one is incomplete.
LEMMA Buffered ==
    ASSUME NEW w, NEW f, NEW ps, NEW off, NEW e \in 0 .. Len(w), NEW m \in Nat, NEW pkt,
           Layout(w, f, ps, off), Keeps(w, ps, off, e, pkt, m)
    PROVE  BufferData(pkt) \in Loop(w, ps, off, e, m) /\ Incomplete(BufferData(pkt).pkt)
<1> DEFINE n == Len(pkt.buffer)
           S == Loop(w, ps, off, e, m)
           a == [pkt |-> pkt, found |-> <<>>, more |-> TRUE]
<1>1. pkt \in [rtpLen : Nat, buffer : Seq(Byte)] /\ n \in Nat
  BY DEF Keeps
<1>2. a \in S
  <2>1. <<>> \in Seq(Seq(Byte)) /\ Len(<<>>) = 0 /\ m + 0 = m
    OBVIOUS
  <2>2. Keeps(w, ps, off, e, pkt, m + Len(<<>>)) /\ (~TRUE => Incomplete(pkt))
    BY <2>1
  <2>3. ASSUME NEW i \in 1 .. Len(<<>>) PROVE <<>>[i] = ps[m + i].bytes
    BY <2>1
  <2>. QED  BY ONLY m \in Nat, <2>1, <2>2, <2>3, LoopState
<1>3. ASSUME NEW st \in S
      PROVE  /\ BufferTurn(st) \in S
             /\ st.more /\ st.pkt.buffer # <<>> =>
                 \/ ~BufferTurn(st).more
                 \/ Len(BufferTurn(st).pkt.buffer) < Len(st.pkt.buffer)
             /\ ~st.more \/ st.pkt.buffer = <<>> => BufferTurn(st) = st
  BY TurnKept
<1>4. ASSUME NEW st \in S
      PROVE  /\ st.pkt.buffer \in Seq(Byte) /\ Len(st.pkt.buffer) \in Nat /\ st.pkt.rtpLen \in Nat
             /\ ~st.more => Incomplete(st.pkt)
  BY StateOfLoop
<1> HIDE DEF S
<1>5. PICK g \in [0 .. n -> S] :
              /\ BufferData(pkt) = g[n] /\ g[0] = a
              /\ \A i \in 1 .. n : g[i] = BufferTurn(g[i - 1])
  BY <1>1, <1>2, <1>3, BufferDataIs
<1> DEFINE Left(i) == ~g[i].more \/ g[i].pkt.buffer = <<>> \/ Len(g[i].pkt.buffer) + i <= n
           T == {i \in 0 .. n : Left(i)}
<1>6. 0 .. n \subseteq T
  <2>1. 0 \in T
    BY <1>1, <1>5
  <2>2. ASSUME NEW i \in 1 .. n, i - 1 \in T PROVE i \in T
    <3>1. i - 1 \in 0 .. n /\ i \in 0 .. n /\ g[i - 1] \in S /\ g[i] \in S /\ g[i] = BufferTurn(g[i - 1])
      <4>1. i - 1 \in 0 .. n /\ i \in 0 .. n
        BY <1>1
      <4>. QED  BY ONLY <1>5, <4>1, i \in 1 .. n
    <3>2. CASE ~g[i - 1].more \/ g[i - 1].pkt.buffer = <<>>
      BY <1>3, <3>1, <3>2
    <3>3. CASE g[i - 1].more /\ g[i - 1].pkt.buffer # <<>>
      <4> DEFINE before == Len(g[i - 1].pkt.buffer)
                 after == Len(g[i].pkt.buffer)
      <4>1. before + (i - 1) <= n
        BY <2>2, <3>3
      <4>2. ~g[i].more \/ after < before
        BY <1>3, <3>1, <3>3
      <4>3. before \in Nat /\ after \in Nat /\ i \in Nat /\ n \in Nat
        BY <1>1, <1>4, <3>1
      <4>4. ASSUME after < before PROVE after + i <= n
        <5> HIDE DEF before, after, n
        <5>. QED  BY ONLY <4>1, <4>3, <4>4
      <4>5. Left(i)
        BY <4>2, <4>4
      <4>. QED  BY <3>1, <4>5
    <3>. QED  BY <3>2, <3>3
  <2> HIDE DEF T
  <2>. QED  BY <1>1, <2>1, <2>2, UpTo
<1>7. Left(n) /\ g[n] \in S
  <2>1. n \in 0 .. n
    BY <1>1
  <2>. QED  BY <1>5, <1>6, <2>1
<1>8. Incomplete(g[n].pkt)
  <2>1. CASE ~g[n].more
    BY <1>4, <1>7, <2>1
  <2>2. CASE g[n].pkt.buffer = <<>>
    <3>1. g[n].pkt.rtpLen \in Nat /\ Len(<<>>) = 0
      BY <1>4, <1>7
    <3>2. ReadVarint(<<>>).length = 0
      BY DEF ReadVarint, Refused, Parsed
    <3>. QED  BY <2>2, <3>1, <3>2 DEF Incomplete
  <2>3. CASE Len(g[n].pkt.buffer) + n <= n
    <3>1. g[n].pkt.buffer \in Seq(Byte) /\ Len(g[n].pkt.buffer) \in Nat
      BY <1>4, <1>7
    <3>2. g[n].pkt.buffer = <<>>
      BY <1>1, <2>3, <3>1
    <3>. QED  BY <2>2, <3>2
  <2>. QED  BY <1>7, <2>1, <2>2, <2>3
<1>. QED  BY <1>5, <1>7, <1>8 DEF S

\* The first piece of a stream, when it holds the flow ID.
LEMMA FirstPiece ==
    ASSUME NEW w, NEW f, NEW ps, NEW off, Layout(w, f, ps, off), NEW n \in 0 .. Len(w),
           ReadVarint(SubSeq(w, 1, n)).length # 0
    PROVE  LET b == SubSeq(w, 1, n)
               r == ReadVarint(b) IN
           /\ r.value = f /\ b # <<>>
           /\ Keeps(w, ps, off, n, [buffer |-> SubSeq(b, r.length + 1, Len(b)), rtpLen |-> 0], 0)
<1> DEFINE b == SubSeq(w, 1, n)
           z == WriteVarint(f, 2048)
           c == SubSeq(b, Len(z) + 1, Len(b))
<1>1. /\ w \in Seq(Byte) /\ Len(w) \in Nat /\ f \in VarintValues /\ ps \in Seq(Frames) /\ Len(ps) \in Nat
      /\ off[0] = Len(z) /\ \A j \in 1 .. Len(z) : w[j] = z[j]
  BY DEF Layout
<1>2. /\ b \in Seq(Byte) /\ Len(b) = n /\ n \in Nat /\ \A j \in 1 .. n : b[j] = w[j]
  BY <1>1, Cut
<1>3. b # <<>> /\ n > 0
  <2>1. b # <<>>
    <3>1. ReadVarint(b).length # 0
      OBVIOUS
    <3> HIDE DEF b
    <3>. QED  BY ONLY <3>1 DEF ReadVarint, Refused, Parsed
  <2>. QED  BY <1>2, <2>1
<1> HIDE DEF b, z
<1>4. VarintOf(f, z) /\ Len(z) \in {1, 2, 4, 8} /\ z \in Seq(Byte)
  <2>1. VarintOf(f, z)
    BY <1>1, VarintRoundTrip DEF z
  <2>. QED  BY <2>1 DEF VarintOf
<1>5. ASSUME n < Len(z) PROVE FALSE
  <2>1. b[1] = z[1]
    BY <1>1, <1>2, <1>3, <1>4
  <2>2. ReadVarint(b) = Refused
    BY <1>2, <1>3, <1>4, <1>5, <2>1 DEF VarintOf
  <2>. QED  BY <2>2 DEF Refused, Parsed, b
<1>6. Len(z) <= n /\ Len(z) \in Nat
  BY <1>2, <1>4, <1>5
<1>7. ReadVarint(b) = Parsed(f, Len(z))
  <2>1. \A j \in 1 .. Len(z) : b[j] = z[j]
    BY <1>1, <1>2, <1>6
  <2>. QED  BY <1>2, <1>4, <1>6, <2>1 DEF VarintOf
<1>8. /\ c \in Seq(Byte) /\ Len(c) = n - Len(z) /\ \A j \in 1 .. n - Len(z) : c[j] = b[Len(z) + j]
  <2>1. Len(z) \in 0 .. Len(b)
    BY <1>2, <1>6
  <2>. QED  BY <1>2, <2>1, Cut
<1> HIDE DEF c
<1>9. Keeps(w, ps, off, n, [buffer |-> c, rtpLen |-> 0], 0)
  <2>1. Len(c) <= n /\ n - Len(c) = off[0]
    BY <1>1, <1>2, <1>6, <1>8
  <2>2. ASSUME NEW j \in 1 .. Len(c) PROVE c[j] = w[n - Len(c) + j]
    <3>1. Len(z) + j \in 1 .. n /\ c[j] = b[Len(z) + j] /\ n - Len(c) + j = Len(z) + j
      BY <1>2, <1>6, <1>8
    <3>. QED  BY <1>2, <3>1
  <2>3. 0 \in 0 .. Len(ps)
    BY <1>1
  <2>. QED  BY <1>8, <2>1, <2>2, <2>3 DEF Keeps
<1>. QED
  <2>1. ReadVarint(b).value = f /\ ReadVarint(b).length = Len(z)
    BY <1>7 DEF Parsed
  <2>2. SubSeq(b, ReadVarint(b).length + 1, Len(b)) = c
    BY <2>1 DEF c
  <2>. QED  BY <1>3, <1>9, <2>1, <2>2 DEF b

LEMMA WithBuffer ==
    ASSUME NEW pkt \in [rtpLen : Nat, buffer : Seq(Byte)], NEW b \in Seq(Byte)
    PROVE  LET q == [pkt EXCEPT !.buffer = b] IN
           q \in [rtpLen : Nat, buffer : Seq(Byte)] /\ q.buffer = b /\ q.rtpLen = pkt.rtpLen
OBVIOUS

\* Another piece.
LEMMA NextPiece ==
    ASSUME NEW w \in Seq(Byte), NEW ps, NEW off, NEW e \in 0 .. Len(w), NEW n \in 0 .. Len(w) - e, NEW pkt, NEW k,
           Keeps(w, ps, off, e, pkt, k)
    PROVE  Keeps(w, ps, off, e + n, [pkt EXCEPT !.buffer = @ \o SubSeq(w, e + 1, e + n)], k)
<1> DEFINE b == pkt.buffer
           c == SubSeq(w, e + 1, e + n)
           d == b \o c
           q == [pkt EXCEPT !.buffer = @ \o c]
<1>1. /\ pkt \in [rtpLen : Nat, buffer : Seq(Byte)] /\ b \in Seq(Byte) /\ Len(b) \in Nat
      /\ k \in 0 .. Len(ps) /\ Len(b) <= e /\ \A j \in 1 .. Len(b) : b[j] = w[e - Len(b) + j]
      /\ Len(w) \in Nat /\ e \in Nat /\ n \in Nat /\ pkt.rtpLen \in Nat
  BY DEF Keeps
<1>2. c \in Seq(Byte) /\ Len(c) = n /\ \A j \in 1 .. n : c[j] = w[e + j]
  OBVIOUS
<1>3. /\ d \in Seq(Byte) /\ Len(d) = Len(b) + n
      /\ \A j \in 1 .. Len(b) + n : d[j] = IF j <= Len(b) THEN b[j] ELSE c[j - Len(b)]
  <2> HIDE DEF b, c
  <2>. QED  BY <1>1, <1>2, ConcatProperties
<1>4. q \in [rtpLen : Nat, buffer : Seq(Byte)] /\ q.buffer = d /\ q.rtpLen = pkt.rtpLen
  <2>1. q = [pkt EXCEPT !.buffer = d]
    OBVIOUS
  <2>2. pkt \in [rtpLen : Nat, buffer : Seq(Byte)] /\ d \in Seq(Byte)
    BY <1>1, <1>3
  <2> HIDE DEF d, q
  <2>. QED  BY ONLY <2>1, <2>2, WithBuffer
<1> HIDE DEF b, c, d, q
<1>5. ASSUME NEW j \in 1 .. Len(d) PROVE d[j] = w[(e + n) - Len(d) + j]
  <2>1. (e + n) - Len(d) + j = e - Len(b) + j /\ j \in 1 .. Len(b) + n
    BY <1>1, <1>3
  <2>2. CASE j <= Len(b)
    <3>1. j \in 1 .. Len(b)
      BY <1>1, <2>1, <2>2
    <3>2. d[j] = b[j]
      BY <1>3, <2>1, <2>2
    <3>. QED  BY <1>1, <2>1, <3>1, <3>2
  <2>3. CASE ~(j <= Len(b))
    <3>1. j - Len(b) \in 1 .. n /\ d[j] = c[j - Len(b)] /\ e + (j - Len(b)) = e - Len(b) + j
      BY <1>1, <1>3, <2>1, <2>3
    <3>. QED  BY <1>2, <2>1, <3>1
  <2>. QED  BY <2>2, <2>3
<1>6. Len(d) <= e + n /\ (e + n) - Len(d) = e - Len(b)
  <2>1. Len(b) \in Nat /\ n \in Nat /\ e \in Nat /\ Len(b) <= e /\ Len(d) = Len(b) + n
    BY <1>1, <1>3
  <2>. QED  BY ONLY <2>1
<1>7. /\ q.rtpLen = 0 => (e + n) - Len(q.buffer) = off[k]
      /\ q.rtpLen # 0 => /\ k < Len(ps) /\ q.rtpLen = Len(ps[k + 1].bytes)
                         /\ (e + n) - Len(q.buffer) + q.rtpLen = off[k + 1]
  BY <1>4, <1>6 DEF Keeps, b
<1>8. Keeps(w, ps, off, e + n, q, k)
  BY <1>1, <1>4, <1>5, <1>6, <1>7 DEF Keeps
<1>. QED  BY <1>8 DEF q, c

\* When all there is was taken nothing is kept back.
LEMMA AllTaken ==
    ASSUME NEW w, NEW f, NEW ps, NEW off, NEW pkt, NEW k,
           Layout(w, f, ps, off), Keeps(w, ps, off, Len(w), pkt, k), Incomplete(pkt)
    PROVE  k = Len(ps)
<1> DEFINE b == pkt.buffer
           i == k + 1
           z == SizeOf(ps[i])
<1> SUFFICES ASSUME k # Len(ps) PROVE FALSE
  OBVIOUS
<1>1. /\ pkt \in [rtpLen : Nat, buffer : Seq(Byte)] /\ b \in Seq(Byte) /\ Len(b) \in Nat /\ pkt.rtpLen \in Nat
      /\ k \in 0 .. Len(ps) /\ ps \in Seq(Frames) /\ Len(ps) \in Nat /\ w \in Seq(Byte) /\ Len(w) \in Nat
      /\ Len(b) <= Len(w) /\ \A j \in 1 .. Len(b) : b[j] = w[Len(w) - Len(b) + j]
  BY DEF Keeps, Layout
<1>2. i \in 1 .. Len(ps) /\ i - 1 = k
  BY <1>1
<1> HIDE DEF i
<1>3. /\ off[k] \in 0 .. Len(w) /\ off[i] \in 0 .. Len(w) /\ VarintOf(Len(ps[i].bytes), z)
      /\ Len(z) \in {1, 2, 4, 8} /\ Len(ps[i].bytes) \in Nat
      /\ off[i] = off[k] + Len(z) + Len(ps[i].bytes)
      /\ \A j \in 1 .. Len(z) : w[off[k] + j] = z[j]
  <2>1. /\ off[i - 1] \in 0 .. Len(w) /\ off[i] \in 0 .. Len(w) /\ VarintOf(Len(ps[i].bytes), z)
        /\ Len(z) \in {1, 2, 4, 8} /\ Len(ps[i].bytes) \in Nat
        /\ off[i] = off[i - 1] + Len(z) + Len(ps[i].bytes)
        /\ \A j \in 1 .. Len(z) : w[off[i - 1] + j] = z[j]
    BY <1>2, PacketOf DEF PacketAt
  <2>. QED  BY <1>2, <2>1
<1>4. CASE pkt.rtpLen # 0
  <2>1. Len(w) - Len(b) + pkt.rtpLen = off[i] /\ Len(b) < pkt.rtpLen
    BY <1>4 DEF Keeps, Incomplete, i
  <2>. QED  BY <1>1, <1>3, <2>1
<1>5. CASE pkt.rtpLen = 0
  <2>1. Len(w) - Len(b) = off[k] /\ ReadVarint(b).length = 0
    BY <1>5 DEF Keeps, Incomplete
  <2> HIDE DEF z, b
  <2>2. Len(z) <= Len(b) /\ Len(z) \in Nat /\ Len(z) > 0
    <3> DEFINE y == Len(ps[i].bytes)
    <3>1. /\ Len(w) - Len(b) = off[k] /\ off[i] = off[k] + Len(z) + y /\ off[i] <= Len(w)
          /\ Len(w) \in Nat /\ Len(b) \in Nat /\ off[k] \in Nat /\ y \in Nat
      BY <1>1, <1>3, <2>1
    <3>2. Len(z) \in Nat /\ Len(z) > 0
      <4>1. Len(z) \in {1, 2, 4, 8}
        BY <1>3
      <4>. QED  BY ONLY <4>1, FormLengths, Zenon
    <3> HIDE DEF y
    <3>. QED  BY ONLY <3>1, <3>2
  <2>3. ASSUME NEW j \in 1 .. Len(z) PROVE b[j] = z[j]
    <3>1. j \in 1 .. Len(b)
      BY <1>1, <2>2
    <3>2. b[j] = w[off[k] + j]
      BY <1>1, <2>1, <3>1
    <3>. QED  BY <1>3, <3>2
  <2>4. ReadVarint(b) = Parsed(Len(ps[i].bytes), Len(z))
    BY <1>1, <1>3, <2>2, <2>3 DEF VarintOf
  <2>. QED  BY <2>1, <2>2, <2>4 DEF Parsed
<1>. QED  BY <1>4, <1>5

\* A stream that was opened holds the flow ID and no packet yet.
LEMMA LayoutOpened ==
    ASSUME NEW f \in VarintValues
    PROVE  \E off : Layout(WriteVarint(f, 2048), f, <<>>, off)
<1> DEFINE w == WriteVarint(f, 2048)
           off == [i \in 0 .. 0 |-> Len(w)]
<1>1. w \in Seq(Byte) /\ Len(w) \in Nat
  <2>1. VarintOf(f, w)
    BY VarintRoundTrip
  <2> HIDE DEF w
  <2>. QED  BY <2>1 DEF VarintOf
<1>2. <<>> \in Seq(Frames) /\ Len(<<>>) = 0
  OBVIOUS
<1> HIDE DEF w
<1>3. off \in [0 .. 0 -> 0 .. Len(w)] /\ off[0] = Len(w)
  BY <1>1
<1>4. Layout(w, f, <<>>, off)
  <2> HIDE DEF off
  <2>. QED  BY <1>1, <1>2, <1>3 DEF Layout, w
<1>. QED  BY <1>4 DEF w

Longer(w, ps, p, off) ==
    [i \in 0 .. Len(ps) + 1 |-> IF i = Len(ps) + 1 THEN Len(w \o (SizeOf(p) \o p.bytes)) ELSE off[i]]

LEMMA Within ==
    ASSUME NEW a \in Nat, NEW s \in Nat, NEW y \in Nat, NEW l \in Nat, NEW o, o = a + s + y, o <= l, NEW j
    PROVE  (j \in 1 .. s => a + j \in 1 .. l) /\ (j \in 1 .. y => o - y + j \in 1 .. l)
OBVIOUS

\* A packet more at its end.
LEMMA LayoutLonger ==
    ASSUME NEW w, NEW f, NEW ps, NEW off, Layout(w, f, ps, off), NEW p \in Frames, p.flow = f
    PROVE  Layout(w \o (SizeOf(p) \o p.bytes), f, Append(ps, p), Longer(w, ps, p, off))
<1> DEFINE z == SizeOf(p)
           b == p.bytes
           x == z \o b
           v == w \o x
           n == Len(ps)
           qs == Append(ps, p)
           o == Longer(w, ps, p, off)
<1>1. /\ w \in Seq(Byte) /\ Len(w) \in Nat /\ f \in VarintValues /\ ps \in Seq(Frames) /\ n \in Nat
      /\ off \in [0 .. n -> 0 .. Len(w)] /\ off[0] = Len(WriteVarint(f, 2048)) /\ off[n] = Len(w)
      /\ \A j \in 1 .. off[0] : w[j] = WriteVarint(f, 2048)[j]
  BY DEF Layout
<1>2. b \in Seq(Byte) /\ Len(b) \in VarintValues /\ Len(b) \in Nat
  BY DEF Frames
<1>3. z \in Seq(Byte) /\ Len(z) \in Nat
  <2>1. VarintOf(Len(b), z)
    BY <1>2, VarintRoundTrip DEF SizeOf
  <2>. QED  BY <2>1 DEF VarintOf
<1> HIDE DEF z, b
<1>4. /\ x \in Seq(Byte) /\ Len(x) = Len(z) + Len(b)
      /\ \A j \in 1 .. Len(z) : x[j] = z[j]
      /\ \A j \in 1 .. Len(b) : x[Len(z) + j] = b[j]
  BY <1>2, <1>3
<1> HIDE DEF x
<1>5. /\ v \in Seq(Byte) /\ Len(v) = Len(w) + Len(x)
      /\ \A j \in 1 .. Len(w) : v[j] = w[j]
      /\ \A j \in 1 .. Len(x) : v[Len(w) + j] = x[j]
  <2>1. Len(x) \in Nat
    BY <1>2, <1>3, <1>4
  <2>. QED  BY <1>1, <1>4, <2>1
<1> HIDE DEF v
<1>6. Len(v) \in Nat /\ Len(v) = Len(w) + Len(z) + Len(b)
  BY <1>1, <1>2, <1>3, <1>4, <1>5
<1>7. /\ qs \in Seq(Frames) /\ Len(qs) = n + 1 /\ qs[n + 1] = p /\ \A i \in 1 .. n : qs[i] = ps[i]
  BY <1>1
<1>8. o = [i \in 0 .. n + 1 |-> IF i = n + 1 THEN Len(v) ELSE off[i]]
  BY DEF Longer, v, x, z, b
<1> HIDE DEF o, qs, n
<1>9. /\ o \in [0 .. n + 1 -> 0 .. Len(v)] /\ o[n + 1] = Len(v) /\ \A i \in 0 .. n : o[i] = off[i]
  <2>1. ASSUME NEW i \in 0 .. n + 1 PROVE (IF i = n + 1 THEN Len(v) ELSE off[i]) \in 0 .. Len(v)
    <3>1. Len(v) >= Len(w)
      BY <1>1, <1>2, <1>3, <1>6
    <3>2. i # n + 1 => off[i] \in 0 .. Len(w)
      BY <1>1
    <3>. QED  BY <1>1, <1>6, <3>1, <3>2
  <2>2. n + 1 \in 0 .. n + 1 /\ \A i \in 0 .. n : i \in 0 .. n + 1 /\ i # n + 1
    BY <1>1
  <2>. QED  BY <1>8, <2>1, <2>2
<1>10. /\ o[0] = Len(WriteVarint(f, 2048)) /\ \A j \in 1 .. o[0] : v[j] = WriteVarint(f, 2048)[j]
  <2>1. 0 \in 0 .. n /\ o[0] = off[0] /\ off[0] \in 0 .. Len(w)
    BY <1>1, <1>9
  <2>2. ASSUME NEW j \in 1 .. off[0] PROVE v[j] = w[j]
    BY <1>1, <1>5, <2>1
  <2>. QED  BY <1>1, <2>1, <2>2
<1>11. ASSUME NEW i \in 1 .. n + 1
       PROVE  /\ qs[i].flow = f
              /\ o[i] = o[i - 1] + Len(SizeOf(qs[i])) + Len(qs[i].bytes)
              /\ \A j \in 1 .. Len(SizeOf(qs[i])) : v[o[i - 1] + j] = SizeOf(qs[i])[j]
              /\ \A j \in 1 .. Len(qs[i].bytes) : v[o[i] - Len(qs[i].bytes) + j] = qs[i].bytes[j]
  <2>1. CASE i = n + 1
    <3>1. qs[i] = p /\ o[i] = Len(v) /\ i - 1 = n /\ o[i - 1] = Len(w)
      BY <1>1, <1>7, <1>9, <2>1
    <3>2. o[i] = o[i - 1] + Len(z) + Len(b)
      BY <1>6, <3>1
    <3>3. ASSUME NEW j \in 1 .. Len(z) PROVE v[Len(w) + j] = z[j]
      <4>1. j \in 1 .. Len(x)
        BY <1>2, <1>3, <1>4
      <4>. QED  BY <1>4, <1>5, <4>1
    <3>4. ASSUME NEW j \in 1 .. Len(b) PROVE v[Len(v) - Len(b) + j] = b[j]
      <4>1. Len(z) + j \in 1 .. Len(x)
        BY <1>2, <1>3, <1>4
      <4>2. Len(v) - Len(b) + j = Len(w) + (Len(z) + j)
        BY <1>1, <1>2, <1>3, <1>6
      <4>. QED  BY <1>4, <1>5, <4>1, <4>2
    <3>. QED  BY <3>1, <3>2, <3>3, <3>4 DEF z, b
  <2>2. CASE i # n + 1
    <3> DEFINE y == ps[i].bytes
               s == SizeOf(ps[i])
    <3>1. i \in 1 .. n /\ i - 1 \in 0 .. n /\ i \in 0 .. n
      BY <1>1, <2>2
    <3>2. qs[i] = ps[i] /\ o[i] = off[i] /\ o[i - 1] = off[i - 1]
      BY <1>7, <1>9, <3>1
    <3>3. /\ off[i - 1] \in 0 .. Len(w) /\ off[i] \in 0 .. Len(w) /\ ps[i].flow = f
          /\ Len(y) \in Nat /\ Len(s) \in {1, 2, 4, 8}
          /\ off[i] = off[i - 1] + Len(s) + Len(y)
          /\ \A j \in 1 .. Len(s) : w[off[i - 1] + j] = s[j]
          /\ \A j \in 1 .. Len(y) : w[off[i] - Len(y) + j] = y[j]
      <4>1. i \in 1 .. Len(ps)
        BY <3>1 DEF n
      <4>2. PacketAt(w, f, ps, off, i)
        BY ONLY Layout(w, f, ps, off), <4>1, PacketOf
      <4>. QED  BY ONLY <4>2 DEF PacketAt
    <3>4. Len(s) \in Nat
      BY <3>3, FormLengths, Zenon
    <3> HIDE DEF y, s
    <3>5. /\ off[i] = off[i - 1] + Len(s) + Len(y) /\ off[i - 1] \in Nat /\ off[i] <= Len(w)
          /\ Len(w) \in Nat /\ Len(y) \in Nat /\ Len(s) \in Nat
      BY <1>1, <3>3, <3>4
    <3>6. ASSUME NEW j \in 1 .. Len(s) PROVE v[off[i - 1] + j] = s[j]
      <4>1. off[i - 1] + j \in 1 .. Len(w)
        BY ONLY <3>5, j \in 1 .. Len(s), Within
      <4>. QED  BY <1>5, <3>3, <4>1
    <3>7. ASSUME NEW j \in 1 .. Len(y) PROVE v[off[i] - Len(y) + j] = y[j]
      <4>1. off[i] - Len(y) + j \in 1 .. Len(w)
        BY ONLY <3>5, j \in 1 .. Len(y), Within
      <4>. QED  BY <1>5, <3>3, <4>1
    <3>. QED  BY <3>2, <3>3, <3>6, <3>7 DEF y, s
  <2>. QED  BY <2>1, <2>2
<1>12. Layout(v, f, qs, o)
  BY <1>1, <1>5, <1>7, <1>9, <1>10, <1>11 DEF Layout
<1>. QED  BY <1>12 DEF v, x, z, b, qs, o

\* What is kept of a stream does not change when it grows.
LEMMA KeptLonger ==
    ASSUME NEW w, NEW f, NEW ps, NEW off, Layout(w, f, ps, off), NEW p \in Frames, p.flow = f,
           NEW e \in 0 .. Len(w), NEW pkt, NEW k, Keeps(w, ps, off, e, pkt, k)
    PROVE  Keeps(w \o (SizeOf(p) \o p.bytes), Append(ps, p), Longer(w, ps, p, off), e, pkt, k)
<1> DEFINE x == SizeOf(p) \o p.bytes
           v == w \o x
           n == Len(ps)
           qs == Append(ps, p)
           o == Longer(w, ps, p, off)
           b == pkt.buffer
<1>1. /\ w \in Seq(Byte) /\ Len(w) \in Nat /\ ps \in Seq(Frames) /\ n \in Nat
      /\ pkt \in [rtpLen : Nat, buffer : Seq(Byte)] /\ Len(b) \in Nat /\ k \in 0 .. n /\ Len(b) <= e
      /\ \A j \in 1 .. Len(b) : b[j] = w[e - Len(b) + j]
  BY DEF Layout, Keeps
<1>2. x \in Seq(Byte)
  <2>1. p.bytes \in Seq(Byte) /\ Len(p.bytes) \in VarintValues
    BY DEF Frames
  <2>2. VarintOf(Len(p.bytes), SizeOf(p))
    BY <2>1, VarintRoundTrip DEF SizeOf
  <2>3. SizeOf(p) \in Seq(Byte)
    BY <2>2 DEF VarintOf
  <2>. QED  BY <2>1, <2>3
<1> HIDE DEF x
<1>3. \A j \in 1 .. Len(w) : v[j] = w[j]
  BY <1>1, <1>2
<1>4. ASSUME NEW j \in 1 .. Len(b) PROVE b[j] = v[e - Len(b) + j]
  <2>1. e - Len(b) + j \in 1 .. Len(w)
    BY <1>1
  <2>. QED  BY <1>1, <1>3, <2>1
<1>5. /\ Len(qs) = n + 1 /\ \A i \in 1 .. n : qs[i] = ps[i]
  BY <1>1
<1>6. \A i \in 0 .. n : o[i] = off[i]
  BY <1>1 DEF Longer
<1> HIDE DEF v, qs, o, n
<1>7. k \in 0 .. Len(qs) /\ o[k] = off[k]
  BY <1>1, <1>5, <1>6
<1>8. ASSUME k < n PROVE qs[k + 1] = ps[k + 1] /\ o[k + 1] = off[k + 1] /\ k < Len(qs)
  <2>1. k + 1 \in 1 .. n /\ k + 1 \in 0 .. n
    BY <1>1, <1>8
  <2>. QED  BY <1>1, <1>5, <1>6, <1>8, <2>1
<1>9. /\ pkt.rtpLen = 0 => e - Len(b) = off[k]
      /\ pkt.rtpLen # 0 => /\ k < n /\ pkt.rtpLen = Len(ps[k + 1].bytes)
                           /\ e - Len(b) + pkt.rtpLen = off[k + 1]
  BY DEF Keeps, n
<1>10. Keeps(v, qs, o, e, pkt, k)
  BY <1>1, <1>4, <1>7, <1>8, <1>9 DEF Keeps
<1>. QED  BY <1>10 DEF v, x, qs, o

-----------------------------------------------------------------------------
(* The senders.                                                              *)

(* What the application owes RoQ: a flow is sent on by one thread (the fields *)
(* of imquic_roq_stream are read and written without the lock), and flow IDs  *)
(* and sizes are numbers that the wire has.                                   *)
Legal ==
    /\ \A t, u \in Threads : t # u => FlowsOf[t] \cap FlowsOf[u] = {}
    /\ \A f \in Flows : f \in VarintValues
    /\ \A size \in RtpSizes : size \in VarintValues

Calls == [flow : Flows, bytes : {b \in Seq(Byte) : Len(b) \in VarintValues /\ Len(b) > 0},
          close : BOOLEAN, stream : Streams, fresh : BOOLEAN]

SendTypes ==
    /\ flowsOut \in [Flows -> Streams \cup {None}]
    /\ newStream \in [Streams -> BOOLEAN] /\ fin \in [Streams -> BOOLEAN]
    /\ opened \in 0 .. MaxStreams /\ calls \in 0 .. MaxPackets
    /\ wire \in [Streams -> Seq(Byte)] /\ sent \in [Streams -> Seq(Frames)]
    /\ pc \in [Threads -> {"idle", "test", "clear", "write", "forget"}]
    /\ call \in [Threads -> Calls \cup {Idle}]

\* The call of a thread is about the stream that its flow has, and the others are done with it.
Owned ==
    /\ \A t \in Threads : pc[t] # "idle" =>
          call[t] \in Calls /\ call[t].flow \in FlowsOf[t] /\ flowsOut[call[t].flow] = call[t].stream
    /\ \A f \in Flows : flowsOut[f] # None => flowsOut[f] <= opened
    /\ \A f, g \in Flows : flowsOut[f] # None /\ flowsOut[f] = flowsOut[g] => f = g

\* A stream that nobody opened yet, and one that nothing was written to.
Unused ==
    /\ \A s \in Streams : s > opened => ~newStream[s] /\ sent[s] = <<>>
    /\ \A s \in Streams : sent[s] = <<>> => wire[s] = <<>> /\ ~fin[s]

\* The flow ID goes first and once, and nothing follows the FIN.
Staged ==
    /\ \A t \in Threads :
          LET s == call[t].stream IN
          /\ pc[t] = "test"   => ~fin[s] /\ (newStream[s] <=> sent[s] = <<>>)
          /\ pc[t] = "clear"  => ~fin[s] /\ call[t].fresh /\ sent[s] = <<>>
          /\ pc[t] = "write"  => ~fin[s] /\ ~newStream[s] /\ (call[t].fresh <=> sent[s] = <<>>)
          /\ pc[t] = "forget" => ~newStream[s] /\ sent[s] # <<>> /\ (fin[s] => call[t].close)
    /\ \A f \in Flows :
          LET s == flowsOut[f] IN
          s # None /\ (\A t \in Threads : pc[t] # "idle" => call[t].flow # f) =>
             ~fin[s] /\ ~newStream[s] /\ sent[s] # <<>>

\* The packets on the stream of a flow are of this flow.
OneFlow ==
    \A f \in Flows : flowsOut[f] # None =>
       \A i \in 1 .. Len(sent[flowsOut[f]]) : sent[flowsOut[f]][i].flow = f

SendInv == SendTypes /\ Owned /\ Unused /\ Staged /\ OneFlow

LEMMA NoneIsNoStream == None \notin Nat /\ None \notin Streams /\ \A s \in Streams : s \in Nat
BY RoqAssumption DEF Streams

LEMMA FlowsAre == \A t \in Threads : \A f \in FlowsOf[t] : f \in Flows /\ f \in Nat
BY RoqAssumption DEF Flows

LEMMA FlowsAreNaturals == \A f \in Flows : f \in Nat
BY RoqAssumption DEF Flows

LEMMA SendInit == ASSUME Init PROVE SendInv
<1>1. SendTypes
  BY RoqAssumption DEF Init, SendTypes
<1>. QED  BY <1>1, NoneIsNoStream DEF Init, SendInv, SendTypes, Owned, Unused, Staged, OneFlow

LEMMA SendQuiet == ASSUME SendInv, UNCHANGED sendVars PROVE SendInv'
BY DEF sendVars, SendInv, SendTypes, Owned, Unused, Staged, OneFlow, Calls

\* Other threads have other flows and other streams.
LEMMA Others ==
    ASSUME SendInv, Legal, NEW t \in Threads, NEW f \in FlowsOf[t],
           NEW u \in Threads, u # t, pc[u] # "idle"
    PROVE  /\ call[u].flow \in Flows /\ call[u].flow # f
           /\ call[u].stream = flowsOut[call[u].flow] /\ call[u].stream \in Streams
           /\ call[u].stream # flowsOut[f] /\ call[u].stream <= opened
<1>1. /\ call[u] \in Calls /\ call[u].flow \in FlowsOf[u] /\ flowsOut[call[u].flow] = call[u].stream
  BY DEF SendInv, Owned
<1>2. call[u].flow \in Flows /\ f \in Flows /\ call[u].flow # f
  BY <1>1, FlowsAre DEF Legal
<1>3. call[u].stream \in Streams /\ call[u].stream # None
  BY <1>1, NoneIsNoStream DEF Calls
<1>4. flowsOut[call[u].flow] <= opened /\ flowsOut[call[u].flow] # flowsOut[f]
  BY <1>1, <1>2, <1>3 DEF SendInv, Owned
<1>. QED  BY <1>1, <1>2, <1>3, <1>4

LEMMA RtpIs ==
    ASSUME NEW n \in Nat, NEW size \in RtpSizes, size >= 12, Legal
    PROVE  Rtp(n, size) \in {b \in Seq(Byte) : Len(b) \in VarintValues /\ Len(b) > 0}
<1>1. size \in Nat /\ size \in VarintValues /\ size > 0
  BY RoqAssumption DEF Legal
<1>2. n % 256 \in Byte
  BY DEF Byte
<1>3. Rtp(n, size) \in Seq(Byte) /\ Len(Rtp(n, size)) = size
  BY <1>1, <1>2 DEF Rtp
<1>. QED  BY <1>1, <1>3

LEMMA LookupKept ==
    ASSUME SendInv, Legal, NEW t \in Threads, LookupStream(t)
    PROVE  SendInv'
<1>1. PICK f \in FlowsOf[t], size \in RtpSizes, close \in BOOLEAN :
        LET s == IF flowsOut[f] = None THEN opened + 1 ELSE flowsOut[f]
        IN  /\ size >= 12
            /\ s \in Streams
            /\ flowsOut' = [flowsOut EXCEPT ![f] = s]
            /\ newStream' = [newStream EXCEPT ![s] = @ \/ flowsOut[f] = None]
            /\ opened' = IF flowsOut[f] = None THEN s ELSE opened
            /\ call' = [call EXCEPT ![t] = [flow |-> f, bytes |-> Rtp(calls + 1, size),
                                            close |-> close, stream |-> s, fresh |-> FALSE]]
  BY DEF LookupStream
<1> DEFINE fresh == flowsOut[f] = None
           s == IF flowsOut[f] = None THEN opened + 1 ELSE flowsOut[f]
           c == [flow |-> f, bytes |-> Rtp(calls + 1, size), close |-> close, stream |-> s, fresh |-> FALSE]
<1>2. /\ size >= 12 /\ s \in Streams /\ flowsOut' = [flowsOut EXCEPT ![f] = s]
      /\ newStream' = [newStream EXCEPT ![s] = @ \/ fresh]
      /\ opened' = (IF fresh THEN s ELSE opened) /\ call' = [call EXCEPT ![t] = c]
  BY <1>1
<1>3. /\ pc[t] = "idle" /\ calls < MaxPackets /\ calls' = calls + 1
      /\ pc' = [pc EXCEPT ![t] = "test"] /\ wire' = wire /\ fin' = fin /\ sent' = sent
  BY DEF LookupStream
<1>4. f \in Flows /\ SendTypes /\ Owned /\ Unused /\ Staged /\ OneFlow
  BY FlowsAre DEF SendInv
<1>5. c \in Calls
  <2>1. Rtp(calls + 1, size) \in {b \in Seq(Byte) : Len(b) \in VarintValues /\ Len(b) > 0}
    BY <1>2, <1>4, RtpIs DEF SendTypes
  <2>. QED  BY <1>2, <1>4, <2>1 DEF Calls
<1>6. (fresh => s = opened + 1) /\ (~fresh => s = flowsOut[f] /\ s <= opened) /\ s \in Nat /\ opened \in Nat
  BY <1>2, <1>4, NoneIsNoStream DEF Owned, SendTypes
<1> HIDE DEF s, fresh
<1>7. /\ f \in DOMAIN flowsOut /\ s \in DOMAIN newStream /\ t \in DOMAIN call /\ t \in DOMAIN pc
  BY <1>2, <1>4 DEF SendTypes
<1>8. /\ flowsOut'[f] = s /\ \A g \in Flows : g # f => flowsOut'[g] = flowsOut[g]
      /\ newStream'[s] = (newStream[s] \/ fresh) /\ \A r \in Streams : r # s => newStream'[r] = newStream[r]
      /\ call'[t] = c /\ pc'[t] = "test"
      /\ \A u \in Threads : u # t => call'[u] = call[u] /\ pc'[u] = pc[u]
  BY <1>2, <1>3, <1>4, <1>7 DEF SendTypes
<1> HIDE DEF c
<1>9. c.flow = f /\ c.stream = s /\ c.fresh = FALSE
  BY DEF c
<1>10. SendTypes'
  <2>1. opened' \in 0 .. MaxStreams
    BY <1>2, <1>4 DEF Streams, SendTypes
  <2>2. calls' \in 0 .. MaxPackets
    BY <1>3, <1>4, RoqAssumption DEF SendTypes
  <2>3. newStream' \in [Streams -> BOOLEAN]
    BY <1>2, <1>4 DEF SendTypes, fresh
  <2>4. flowsOut' \in [Flows -> Streams \cup {None}]
    BY <1>2, <1>4 DEF SendTypes
  <2>5. pc' \in [Threads -> {"idle", "test", "clear", "write", "forget"}]
    BY <1>3, <1>4 DEF SendTypes
  <2>6. call' \in [Threads -> Calls \cup {Idle}]
    BY <1>2, <1>4, <1>5 DEF SendTypes
  <2>7. wire' \in [Streams -> Seq(Byte)] /\ sent' \in [Streams -> Seq(Frames)] /\ fin' \in [Streams -> BOOLEAN]
    BY <1>3, <1>4 DEF SendTypes
  <2>. QED  BY <2>1, <2>2, <2>3, <2>4, <2>5, <2>6, <2>7 DEF SendTypes, Calls
<1>11. ASSUME NEW u \in Threads, u # t, pc[u] # "idle"
       PROVE  /\ call[u].flow \in Flows /\ call[u].flow # f
              /\ call[u].stream = flowsOut[call[u].flow] /\ call[u].stream \in Streams
              /\ call[u].stream # s /\ call[u].stream <= opened
  <2>1. /\ call[u].flow \in Flows /\ call[u].flow # f
        /\ call[u].stream = flowsOut[call[u].flow] /\ call[u].stream \in Streams
        /\ call[u].stream # flowsOut[f] /\ call[u].stream <= opened
    BY <1>11, Others
  <2>2. call[u].stream # s
    BY <1>6, <2>1, NoneIsNoStream
  <2>. QED  BY <2>1, <2>2
<1>12. Owned'
  <2>1. ASSUME NEW u \in Threads, pc'[u] # "idle"
        PROVE  call'[u] \in Calls /\ call'[u].flow \in FlowsOf[u] /\ flowsOut'[call'[u].flow] = call'[u].stream
    <3>1. CASE u = t
      BY <1>5, <1>8, <1>9, <3>1
    <3>2. CASE u # t
      BY <1>4, <1>8, <1>11, <2>1, <3>2 DEF Owned
    <3>. QED  BY <3>1, <3>2
  <2>2. ASSUME NEW g \in Flows, flowsOut'[g] # None PROVE flowsOut'[g] <= opened'
    <3>1. CASE g = f
      BY <1>2, <1>6, <1>8, <3>1
    <3>2. CASE g # f
      <4>1. flowsOut[g] <= opened /\ flowsOut[g] \in Nat
        BY <1>4, <1>8, <2>2, <3>2, NoneIsNoStream DEF Owned, SendTypes
      <4>2. opened <= opened' /\ opened' \in Nat
        BY <1>2, <1>6
      <4>. QED  BY <1>6, <1>8, <3>2, <4>1, <4>2
    <3>. QED  BY <3>1, <3>2
  <2>3. ASSUME NEW g \in Flows, NEW h \in Flows, flowsOut'[g] # None, flowsOut'[g] = flowsOut'[h] PROVE g = h
    <3>1. ASSUME NEW k \in Flows, k # f, flowsOut'[k] = s PROVE FALSE
      <4>1. flowsOut[k] = s /\ flowsOut[k] # None
        BY <1>2, <1>8, <3>1, NoneIsNoStream
      <4>2. s <= opened /\ flowsOut[k] # flowsOut[f]
        BY <1>4, <3>1, <4>1 DEF Owned
      <4>. QED  BY <1>6, <4>1, <4>2
    <3>2. CASE g # f /\ h # f
      BY <1>4, <1>8, <2>3, <3>2 DEF Owned
    <3>. QED  BY <1>8, <2>3, <3>1, <3>2
  <2>. QED  BY <2>1, <2>2, <2>3 DEF Owned, Calls
<1>13. Unused'
  <2>1. ASSUME NEW r \in Streams, r > opened' PROVE ~newStream'[r] /\ sent'[r] = <<>>
    <3>1. r > opened /\ r # s
      BY <1>2, <1>6, <2>1, NoneIsNoStream
    <3>. QED  BY <1>3, <1>4, <1>8, <3>1 DEF Unused
  <2>. QED  BY <1>3, <1>4, <2>1 DEF Unused
<1>14. (fresh => sent[s] = <<>>) /\ ~fin[s] /\ (~fresh => (newStream[s] <=> sent[s] = <<>>))
  <2>1. CASE fresh
    BY <1>2, <1>4, <1>6, <2>1 DEF Unused
  <2>2. CASE ~fresh
    <3>1. \A u \in Threads : pc[u] # "idle" => call[u].flow # f
      BY <1>3, <1>11
    <3>2. flowsOut[f] = s /\ s # None
      BY <1>2, <1>6, <2>2, NoneIsNoStream
    <3>3. ~fin[s] /\ ~newStream[s] /\ sent[s] # <<>>
      BY <1>4, <3>1, <3>2 DEF Staged
    <3>. QED  BY <2>2, <3>3
  <2>. QED  BY <2>1, <2>2
<1>15. Staged'
  <2>1. ASSUME NEW u \in Threads
        PROVE  LET r == call'[u].stream IN
               /\ pc'[u] = "test"   => ~fin'[r] /\ (newStream'[r] <=> sent'[r] = <<>>)
               /\ pc'[u] = "clear"  => ~fin'[r] /\ call'[u].fresh /\ sent'[r] = <<>>
               /\ pc'[u] = "write"  => ~fin'[r] /\ ~newStream'[r] /\ (call'[u].fresh <=> sent'[r] = <<>>)
               /\ pc'[u] = "forget" => ~newStream'[r] /\ sent'[r] # <<>> /\ (fin'[r] => call'[u].close)
    <3>1. CASE u = t
      BY <1>3, <1>8, <1>9, <1>14, <3>1
    <3>2. CASE u # t /\ pc[u] # "idle"
      <4>1. call'[u] = call[u] /\ pc'[u] = pc[u] /\ newStream'[call[u].stream] = newStream[call[u].stream]
        BY <1>8, <1>11, <3>2
      <4>. QED  BY <1>3, <1>4, <4>1 DEF Staged
    <3>3. CASE u # t /\ pc[u] = "idle"
      BY <1>8, <3>3
    <3>. QED  BY <3>1, <3>2, <3>3
  <2>2. ASSUME NEW g \in Flows, flowsOut'[g] # None,
               \A u \in Threads : pc'[u] # "idle" => call'[u].flow # g
        PROVE  ~fin'[flowsOut'[g]] /\ ~newStream'[flowsOut'[g]] /\ sent'[flowsOut'[g]] # <<>>
    <3>1. g # f
      BY <1>8, <1>9, <2>2
    <3>2. flowsOut'[g] = flowsOut[g] /\ flowsOut[g] \in Streams /\ flowsOut[g] # None
      BY <1>4, <1>8, <2>2, <3>1 DEF SendTypes
    <3>3. \A u \in Threads : pc[u] # "idle" => call[u].flow # g
      BY <1>3, <1>8, <2>2
    <3>4. ~fin[flowsOut[g]] /\ ~newStream[flowsOut[g]] /\ sent[flowsOut[g]] # <<>>
      BY <1>4, <3>2, <3>3 DEF Staged
    <3>5. flowsOut[g] # s
      BY <1>4, <1>6, <3>1, <3>2 DEF Owned
    <3>. QED  BY <1>3, <1>8, <3>2, <3>4, <3>5
  <2>. QED  BY <2>1, <2>2 DEF Staged
<1>16. OneFlow'
  <2>1. ASSUME NEW g \in Flows, flowsOut'[g] # None, NEW i \in 1 .. Len(sent[flowsOut'[g]])
        PROVE  sent[flowsOut'[g]][i].flow = g
    <3>1. CASE g = f /\ fresh
      <4>1. sent[s] = <<>> /\ flowsOut'[g] = s
        BY <1>8, <1>14, <3>1
      <4>. QED  BY <4>1
    <3>2. CASE g # f \/ ~fresh
      <4>1. flowsOut'[g] = flowsOut[g]
        BY <1>6, <1>8, <3>2
      <4>. QED  BY <1>4, <2>1, <4>1 DEF OneFlow
    <3>. QED  BY <3>1, <3>2
  <2>. QED  BY <1>3, <2>1 DEF OneFlow
<1>. QED  BY <1>10, <1>12, <1>13, <1>15, <1>16 DEF SendInv

\* What a thread in a call knows of it.
LEMMA InCall ==
    ASSUME SendInv, Legal, NEW t \in Threads, pc[t] # "idle"
    PROVE  LET c == call[t] IN
           /\ c \in Calls /\ c.flow \in FlowsOf[t] /\ c.flow \in Flows /\ c.stream \in Streams
           /\ flowsOut[c.flow] = c.stream /\ c.stream # None /\ c.stream <= opened
           /\ \A u \in Threads : u # t /\ pc[u] # "idle" =>
                 call[u].flow # c.flow /\ call[u].stream # c.stream /\ call[u].stream \in Streams
           /\ \A g \in Flows : flowsOut[g] = c.stream => g = c.flow
<1>1. /\ call[t] \in Calls /\ call[t].flow \in FlowsOf[t] /\ flowsOut[call[t].flow] = call[t].stream
  BY DEF SendInv, Owned
<1>2. call[t].flow \in Flows /\ call[t].stream \in Streams /\ call[t].stream # None
  BY <1>1, NoneIsNoStream DEF Calls
<1>3. ASSUME NEW u \in Threads, u # t, pc[u] # "idle"
      PROVE  call[u].flow # call[t].flow /\ call[u].stream # call[t].stream /\ call[u].stream \in Streams
  BY <1>1, <1>3, Others
<1>. QED  BY <1>1, <1>2, <1>3 DEF SendInv, Owned

\* The steps between the lock and the write change the flag of the stream of the call only.
LEMMA FlagKept ==
    ASSUME SendInv, Legal, NEW t \in Threads, TestNew(t) \/ ClearNew(t)
    PROVE  SendInv'
<1> DEFINE c == call[t]
           s == c.stream
<1>1. pc[t] = "test" \/ pc[t] = "clear"
  BY DEF TestNew, ClearNew
<1>2. /\ c \in Calls /\ c.flow \in FlowsOf[t] /\ c.flow \in Flows /\ s \in Streams
      /\ flowsOut[c.flow] = s /\ s # None /\ s <= opened
      /\ \A u \in Threads : u # t /\ pc[u] # "idle" =>
            call[u].flow # c.flow /\ call[u].stream # s /\ call[u].stream \in Streams
      /\ \A g \in Flows : flowsOut[g] = s => g = c.flow
  BY <1>1, InCall
<1>3. SendTypes /\ Owned /\ Unused /\ Staged /\ OneFlow
  BY DEF SendInv
<1>4. /\ flowsOut' = flowsOut /\ opened' = opened /\ wire' = wire /\ fin' = fin
      /\ calls' = calls /\ sent' = sent
  BY DEF TestNew, ClearNew
<1>5. /\ call' \in [Threads -> Calls \cup {Idle}] /\ pc' \in [Threads -> {"idle", "test", "clear", "write", "forget"}]
      /\ newStream' \in [Streams -> BOOLEAN]
      /\ call'[t] \in Calls /\ call'[t].flow = c.flow /\ call'[t].stream = s
      /\ \A u \in Threads : u # t => call'[u] = call[u] /\ pc'[u] = pc[u]
      /\ \A r \in Streams : r # s => newStream'[r] = newStream[r]
      /\ pc[t] = "test" /\ newStream[s] => pc'[t] = "clear" /\ call'[t].fresh /\ newStream'[s]
      /\ pc[t] = "test" /\ ~newStream[s] => pc'[t] = "write" /\ ~call'[t].fresh /\ ~newStream'[s]
      /\ pc[t] = "clear" => pc'[t] = "write" /\ call'[t].fresh = c.fresh /\ ~newStream'[s]
  <2>1. CASE TestNew(t)
    <3> DEFINE d == [c EXCEPT !.fresh = newStream[s]]
    <3>1. /\ pc[t] = "test" /\ call' = [call EXCEPT ![t] = d] /\ newStream' = newStream
          /\ pc' = [pc EXCEPT ![t] = IF newStream[s] THEN "clear" ELSE "write"]
      BY <2>1, <1>3 DEF TestNew, SendTypes
    <3>2. newStream[s] \in BOOLEAN
      BY <1>2, <1>3 DEF SendTypes
    <3>3. d \in Calls /\ d.flow = c.flow /\ d.stream = s /\ d.fresh = newStream[s]
      BY <1>2, <3>2 DEF Calls
    <3> HIDE DEF d
    <3>. QED  BY <1>2, <1>3, <3>1, <3>2, <3>3 DEF SendTypes
  <2>2. CASE ClearNew(t)
    <3>1. /\ pc[t] = "clear" /\ newStream' = [newStream EXCEPT ![s] = FALSE]
          /\ pc' = [pc EXCEPT ![t] = "write"] /\ call' = call /\ c.fresh
      BY <2>2, <1>3 DEF ClearNew, Staged
    <3>. QED  BY <1>2, <1>3, <3>1 DEF SendTypes
  <2>. QED  BY <2>1, <2>2
<1> HIDE DEF c
<1>6. SendTypes'
  BY <1>3, <1>4, <1>5 DEF SendTypes, Calls
<1>7. Owned'
  <2>1. ASSUME NEW u \in Threads, pc'[u] # "idle"
        PROVE  call'[u] \in Calls /\ call'[u].flow \in FlowsOf[u] /\ flowsOut'[call'[u].flow] = call'[u].stream
    <3>1. CASE u = t
      BY <1>2, <1>4, <1>5, <3>1
    <3>2. CASE u # t
      BY <1>3, <1>4, <1>5, <2>1, <3>2 DEF Owned
    <3>. QED  BY <3>1, <3>2
  <2>. QED  BY <1>3, <1>4, <2>1 DEF Owned, Calls
<1>8. Unused'
  <2>1. ASSUME NEW r \in Streams, r > opened PROVE r # s
    BY <1>2, <1>3, <2>1, NoneIsNoStream DEF SendTypes
  <2>. QED  BY <1>3, <1>4, <1>5, <2>1 DEF Unused
<1>9. Staged'
  <2>1. ASSUME NEW u \in Threads
        PROVE  LET r == call'[u].stream IN
               /\ pc'[u] = "test"   => ~fin'[r] /\ (newStream'[r] <=> sent'[r] = <<>>)
               /\ pc'[u] = "clear"  => ~fin'[r] /\ call'[u].fresh /\ sent'[r] = <<>>
               /\ pc'[u] = "write"  => ~fin'[r] /\ ~newStream'[r] /\ (call'[u].fresh <=> sent'[r] = <<>>)
               /\ pc'[u] = "forget" => ~newStream'[r] /\ sent'[r] # <<>> /\ (fin'[r] => call'[u].close)
    <3>1. CASE u = t
      <4>1. /\ pc[t] = "test"  => ~fin[s] /\ (newStream[s] <=> sent[s] = <<>>)
            /\ pc[t] = "clear" => ~fin[s] /\ c.fresh /\ sent[s] = <<>>
        BY <1>3 DEF Staged, c
      <4>. QED  BY <1>1, <1>4, <1>5, <3>1, <4>1
    <3>2. CASE u # t /\ pc[u] # "idle"
      <4>1. call'[u] = call[u] /\ pc'[u] = pc[u] /\ newStream'[call[u].stream] = newStream[call[u].stream]
        BY <1>2, <1>5, <3>2
      <4>. QED  BY <1>3, <1>4, <4>1 DEF Staged
    <3>3. CASE u # t /\ pc[u] = "idle"
      BY <1>5, <3>3
    <3>. QED  BY <3>1, <3>2, <3>3
  <2>2. ASSUME NEW g \in Flows, flowsOut[g] # None,
               \A u \in Threads : pc'[u] # "idle" => call'[u].flow # g
        PROVE  ~fin[flowsOut[g]] /\ ~newStream'[flowsOut[g]] /\ sent[flowsOut[g]] # <<>>
    <3>1. pc'[t] # "idle" /\ call'[t].flow = c.flow
      BY <1>1, <1>5
    <3>2. g # c.flow /\ flowsOut[g] \in Streams
      BY <1>3, <2>2, <3>1 DEF SendTypes
    <3>3. \A u \in Threads : pc[u] # "idle" => call[u].flow # g
      BY <1>5, <2>2, <3>2 DEF c
    <3>4. ~fin[flowsOut[g]] /\ ~newStream[flowsOut[g]] /\ sent[flowsOut[g]] # <<>>
      BY <1>3, <2>2, <3>3 DEF Staged
    <3>. QED  BY <1>2, <1>5, <3>2, <3>4
  <2>. QED  BY <1>4, <2>1, <2>2 DEF Staged
<1>10. OneFlow'
  BY <1>3, <1>4 DEF OneFlow
<1>. QED  BY <1>6, <1>7, <1>8, <1>9, <1>10 DEF SendInv

LEMMA ForgetKept ==
    ASSUME SendInv, Legal, NEW t \in Threads, Forget(t)
    PROVE  SendInv'
<1> DEFINE c == call[t]
           s == c.stream
<1>1. /\ pc[t] = "forget" /\ pc' = [pc EXCEPT ![t] = "idle"] /\ call' = [call EXCEPT ![t] = Idle]
      /\ flowsOut' = IF c.close THEN [flowsOut EXCEPT ![c.flow] = None] ELSE flowsOut
      /\ newStream' = newStream /\ opened' = opened /\ wire' = wire /\ fin' = fin
      /\ calls' = calls /\ sent' = sent
  BY DEF Forget
<1>2. /\ c \in Calls /\ c.flow \in FlowsOf[t] /\ c.flow \in Flows /\ s \in Streams
      /\ flowsOut[c.flow] = s /\ s # None /\ s <= opened
      /\ \A u \in Threads : u # t /\ pc[u] # "idle" =>
            call[u].flow # c.flow /\ call[u].stream # s /\ call[u].stream \in Streams
      /\ \A g \in Flows : flowsOut[g] = s => g = c.flow
  BY <1>1, InCall
<1>3. SendTypes /\ Owned /\ Unused /\ Staged /\ OneFlow
  BY DEF SendInv
<1>4. ~newStream[s] /\ sent[s] # <<>> /\ (fin[s] => c.close)
  BY <1>1, <1>3 DEF Staged
<1>5. /\ pc'[t] = "idle" /\ \A u \in Threads : u # t => call'[u] = call[u] /\ pc'[u] = pc[u]
      /\ \A g \in Flows : g # c.flow => flowsOut'[g] = flowsOut[g]
      /\ flowsOut'[c.flow] = IF c.close THEN None ELSE s
      /\ flowsOut' \in [Flows -> Streams \cup {None}]
  BY <1>1, <1>2, <1>3 DEF SendTypes
<1> HIDE DEF c
<1>6. SendTypes'
  BY <1>1, <1>3, <1>5 DEF SendTypes, Calls
<1>7. Owned'
  BY <1>1, <1>2, <1>3, <1>5 DEF Owned, Calls
<1>8. Unused'
  BY <1>1, <1>3 DEF Unused
<1>9. Staged'
  <2>1. ASSUME NEW u \in Threads, pc'[u] # "idle"
        PROVE  u # t /\ call'[u] = call[u] /\ pc'[u] = pc[u]
    BY <1>5, <2>1
  <2>2. ASSUME NEW g \in Flows, flowsOut'[g] # None,
               \A u \in Threads : pc'[u] # "idle" => call'[u].flow # g
        PROVE  ~fin[flowsOut'[g]] /\ ~newStream[flowsOut'[g]] /\ sent[flowsOut'[g]] # <<>>
    <3>1. CASE g = c.flow
      BY <1>4, <1>5, <2>2, <3>1
    <3>2. CASE g # c.flow
      <4>1. flowsOut'[g] = flowsOut[g]
        BY <1>5, <3>2
      <4>2. \A u \in Threads : pc[u] # "idle" => call[u].flow # g
        BY <1>5, <2>2, <3>2 DEF c
      <4>. QED  BY <1>3, <2>2, <4>1, <4>2 DEF Staged
    <3>. QED  BY <3>1, <3>2
  <2>. QED  BY <1>1, <1>3, <2>1, <2>2 DEF Staged
<1>10. OneFlow'
  <2>1. \A g \in Flows : flowsOut'[g] # None => flowsOut'[g] = flowsOut[g]
    BY <1>2, <1>5
  <2>. QED  BY <1>1, <1>3, <2>1 DEF OneFlow
<1>. QED  BY <1>6, <1>7, <1>8, <1>9, <1>10 DEF SendInv

\* What a write adds, and that it is never refused.
Appended(t) ==
    LET c == call[t]
        s == c.stream
        p == Packet(c.flow, c.bytes) IN
    /\ s \in Streams /\ ~fin[s] /\ p \in Frames /\ p.flow \in VarintValues
    /\ Framed(c) \in Seq(Byte)
    /\ wire' = [wire EXCEPT ![s] = @ \o Framed(c)]
    /\ fin' = [fin EXCEPT ![s] = c.close]
    /\ sent' = [sent EXCEPT ![s] = Append(@, p)]
    /\ pc' = [pc EXCEPT ![t] = "forget"]
    /\ UNCHANGED <<flowsOut, newStream, opened, call, calls, recvVars>>
    /\ Framed(c) = IF sent[s] = <<>>
                   THEN WriteVarint(p.flow, 2048) \o (SizeOf(p) \o p.bytes)
                   ELSE SizeOf(p) \o p.bytes
    /\ \A i \in 1 .. Len(sent[s]) : sent[s][i].flow = p.flow

Joins(a, b, c) == (a \o b) \o c = a \o (b \o c)

LEMMA Assoc == \A a, b, c \in Seq(Byte) : Joins(a, b, c)
<1> SUFFICES ASSUME NEW a \in Seq(Byte), NEW b \in Seq(Byte), NEW c \in Seq(Byte)
             PROVE  (a \o b) \o c = a \o (b \o c)
  BY DEF Joins
<1>. QED  BY ConcatAssociative

LEMMA Written ==
    ASSUME SendInv, Legal, NEW t \in Threads, Write(t)
    PROVE  Appended(t)
<1> DEFINE c == call[t]
           s == c.stream
           p == Packet(c.flow, c.bytes)
           z == SizeOf(p)
           g == WriteVarint(c.flow, 2048)
<1>1. pc[t] = "write"
  BY DEF Write
<1>2. c \in Calls /\ c.flow \in Flows /\ s \in Streams /\ flowsOut[c.flow] = s /\ s # None
  BY <1>1, InCall
<1>3. ~fin[s] /\ (c.fresh <=> sent[s] = <<>>)
  BY <1>1 DEF SendInv, Staged
<1>4. /\ c.flow \in VarintValues /\ c.flow \in Nat
      /\ c.bytes \in Seq(Byte) /\ Len(c.bytes) \in VarintValues /\ Len(c.bytes) > 0
  BY <1>2, FlowsAreNaturals DEF Legal, Calls
<1>5. p \in Frames /\ p.flow = c.flow /\ p.bytes = c.bytes
  BY <1>4 DEF Packet, Frames
<1>6. z \in Seq(Byte) /\ g \in Seq(Byte)
  <2>1. VarintOf(Len(c.bytes), z) /\ VarintOf(c.flow, g)
    BY <1>4, <1>5, VarintRoundTrip DEF SizeOf
  <2>. QED  BY <2>1 DEF VarintOf
<1>7. Framed(c) = IF sent[s] = <<>> THEN g \o (z \o p.bytes) ELSE z \o p.bytes
  <2>1. Framed(c) = (IF c.fresh THEN g ELSE <<>>) \o z \o p.bytes
    BY <1>5 DEF Framed, SizeOf
  <2>2. (g \o z) \o p.bytes = g \o (z \o p.bytes) /\ <<>> \o z = z
    <3> DEFINE b == p.bytes
    <3>1. b \in Seq(Byte)
      BY <1>4, <1>5
    <3> HIDE DEF g, z, p, b
    <3>2. (g \o z) \o b = g \o (z \o b)
      BY ONLY <1>6, <3>1, Assoc DEF Joins
    <3>3. <<>> \o z = z
      BY <1>6, ConcatEmptySeq
    <3>. QED  BY <3>2, <3>3 DEF b
  <2> HIDE DEF g, z, p
  <2>. QED  BY <1>3, <2>1, <2>2
<1>8. Framed(c) \in Seq(Byte)
  <2>1. p.bytes \in Seq(Byte)
    BY <1>4, <1>5
  <2> HIDE DEF g, z, p
  <2>. QED  BY <1>6, <1>7, <2>1, ConcatProperties
<1>9. /\ wire' = [wire EXCEPT ![s] = @ \o Framed(c)]
      /\ fin' = [fin EXCEPT ![s] = c.close]
      /\ sent' = [sent EXCEPT ![s] = Append(@, p)]
      /\ pc' = [pc EXCEPT ![t] = "forget"]
      /\ UNCHANGED <<flowsOut, newStream, opened, call, calls, recvVars>>
  BY <1>3 DEF Write
<1>10. \A i \in 1 .. Len(sent[s]) : sent[s][i].flow = c.flow
  BY <1>2 DEF SendInv, OneFlow
<1>11. Framed(c) = IF sent[s] = <<>> THEN WriteVarint(p.flow, 2048) \o (SizeOf(p) \o p.bytes)
                   ELSE SizeOf(p) \o p.bytes
  <2>1. g = WriteVarint(p.flow, 2048)
    BY <1>5
  <2> HIDE DEF p, g, c, s
  <2>. QED  BY <1>7, <2>1
<1>12. (\A i \in 1 .. Len(sent[s]) : sent[s][i].flow = p.flow) /\ p.flow \in VarintValues
  BY <1>4, <1>5, <1>10
<1> HIDE DEF z, g
<1>. QED  BY ONLY <1>2, <1>3, <1>5, <1>8, <1>9, <1>11, <1>12 DEF Appended

LEMMA WriteKept ==
    ASSUME SendInv, Legal, NEW t \in Threads, Write(t)
    PROVE  SendInv'
<1> DEFINE c == call[t]
           s == c.stream
           p == Packet(c.flow, c.bytes)
<1>1. /\ s \in Streams /\ ~fin[s] /\ p \in Frames /\ Framed(c) \in Seq(Byte)
      /\ wire' = [wire EXCEPT ![s] = @ \o Framed(c)]
      /\ fin' = [fin EXCEPT ![s] = c.close]
      /\ sent' = [sent EXCEPT ![s] = Append(@, p)]
      /\ pc' = [pc EXCEPT ![t] = "forget"]
      /\ flowsOut' = flowsOut /\ newStream' = newStream /\ opened' = opened /\ call' = call /\ calls' = calls
      /\ \A i \in 1 .. Len(sent[s]) : sent[s][i].flow = c.flow
  <2>0. Appended(t)
    BY Written
  <2>1. p.flow = c.flow
    BY DEF Packet
  <2>2. /\ s \in Streams /\ ~fin[s] /\ p \in Frames /\ Framed(c) \in Seq(Byte)
        /\ wire' = [wire EXCEPT ![s] = @ \o Framed(c)]
        /\ fin' = [fin EXCEPT ![s] = c.close]
        /\ sent' = [sent EXCEPT ![s] = Append(@, p)]
        /\ pc' = [pc EXCEPT ![t] = "forget"]
        /\ UNCHANGED <<flowsOut, newStream, opened, call, calls, recvVars>>
    BY <2>0 DEF Appended
  <2>3. \A i \in 1 .. Len(sent[s]) : sent[s][i].flow = p.flow
    BY <2>0 DEF Appended
  <2>. QED  BY <2>1, <2>2, <2>3
<1>2. pc[t] = "write"
  BY DEF Write
<1>3. /\ c \in Calls /\ c.flow \in FlowsOf[t] /\ c.flow \in Flows /\ s \in Streams
      /\ flowsOut[c.flow] = s /\ s # None /\ s <= opened
      /\ \A u \in Threads : u # t /\ pc[u] # "idle" =>
            call[u].flow # c.flow /\ call[u].stream # s /\ call[u].stream \in Streams
      /\ \A g \in Flows : flowsOut[g] = s => g = c.flow
  BY <1>2, InCall
<1>4. SendTypes /\ Owned /\ Unused /\ Staged /\ OneFlow
  BY DEF SendInv
<1>5. ~newStream[s] /\ p.flow = c.flow /\ c.close \in BOOLEAN
  BY <1>2, <1>3, <1>4 DEF Staged, Packet, Calls
<1> HIDE DEF c, p
<1>6. /\ sent[s] \in Seq(Frames) /\ sent'[s] = Append(sent[s], p) /\ sent'[s] # <<>>
      /\ fin'[s] = c.close /\ pc'[t] = "forget"
      /\ \A r \in Streams : r # s => sent'[r] = sent[r] /\ wire'[r] = wire[r] /\ fin'[r] = fin[r]
      /\ \A u \in Threads : u # t => pc'[u] = pc[u]
  <2>1. sent[s] \in Seq(Frames) /\ sent'[s] = Append(sent[s], p)
    BY <1>1, <1>4 DEF SendTypes
  <2>2. sent'[s] # <<>>
    BY <1>1, <2>1, AppendProperties
  <2>3. fin'[s] = c.close /\ pc'[t] = "forget" /\ \A u \in Threads : u # t => pc'[u] = pc[u]
    BY <1>1, <1>4 DEF SendTypes
  <2>4. \A r \in Streams : r # s => sent'[r] = sent[r] /\ wire'[r] = wire[r] /\ fin'[r] = fin[r]
    BY <1>1, <1>4 DEF SendTypes
  <2>. QED  BY <2>1, <2>2, <2>3, <2>4
<1>7. SendTypes'
  <2>1. wire' \in [Streams -> Seq(Byte)]
    BY <1>1, <1>4 DEF SendTypes
  <2>2. sent' \in [Streams -> Seq(Frames)]
    BY <1>1, <1>4 DEF SendTypes
  <2>3. fin' \in [Streams -> BOOLEAN]
    BY <1>1, <1>4, <1>5 DEF SendTypes
  <2>4. pc' \in [Threads -> {"idle", "test", "clear", "write", "forget"}]
    BY <1>1, <1>4 DEF SendTypes
  <2>. QED  BY <1>1, <1>4, <2>1, <2>2, <2>3, <2>4 DEF SendTypes, Calls
<1>8. Owned'
  <2>1. ASSUME NEW u \in Threads, pc'[u] # "idle" PROVE pc[u] # "idle"
    BY <1>2, <1>6, <2>1
  <2>. QED  BY <1>1, <1>4, <2>1 DEF Owned, Calls
<1>9. Unused'
  <2>1. ASSUME NEW r \in Streams, r > opened PROVE r # s
    BY <1>3, <1>4, <2>1, NoneIsNoStream DEF SendTypes
  <2>. QED  BY <1>1, <1>4, <1>6, <2>1 DEF Unused
<1>10. Staged'
  <2>1. ASSUME NEW u \in Threads
        PROVE  LET r == call[u].stream IN
               /\ pc'[u] = "test"   => ~fin'[r] /\ (newStream[r] <=> sent'[r] = <<>>)
               /\ pc'[u] = "clear"  => ~fin'[r] /\ call[u].fresh /\ sent'[r] = <<>>
               /\ pc'[u] = "write"  => ~fin'[r] /\ ~newStream[r] /\ (call[u].fresh <=> sent'[r] = <<>>)
               /\ pc'[u] = "forget" => ~newStream[r] /\ sent'[r] # <<>> /\ (fin'[r] => call[u].close)
    <3>1. CASE u = t
      BY <1>5, <1>6, <3>1 DEF c
    <3>2. CASE u # t /\ pc[u] # "idle"
      <4>1. /\ pc'[u] = pc[u] /\ fin'[call[u].stream] = fin[call[u].stream]
            /\ sent'[call[u].stream] = sent[call[u].stream]
        BY <1>3, <1>6, <3>2
      <4>. QED  BY <1>4, <4>1 DEF Staged
    <3>3. CASE u # t /\ pc[u] = "idle"
      BY <1>6, <3>3
    <3>. QED  BY <3>1, <3>2, <3>3
  <2>2. ASSUME NEW g \in Flows, flowsOut[g] # None,
               \A u \in Threads : pc'[u] # "idle" => call[u].flow # g
        PROVE  ~fin'[flowsOut[g]] /\ ~newStream[flowsOut[g]] /\ sent'[flowsOut[g]] # <<>>
    <3>1. g # c.flow /\ flowsOut[g] \in Streams
      BY <1>4, <1>6, <2>2 DEF c, SendTypes
    <3>2. \A u \in Threads : pc[u] # "idle" => call[u].flow # g
      BY <1>6, <2>2, <3>1 DEF c
    <3>3. ~fin[flowsOut[g]] /\ ~newStream[flowsOut[g]] /\ sent[flowsOut[g]] # <<>>
      BY <1>4, <2>2, <3>2 DEF Staged
    <3>. QED  BY <1>3, <1>6, <3>1, <3>3
  <2>. QED  BY <1>1, <2>1, <2>2 DEF Staged
<1>11. OneFlow'
  <2>1. ASSUME NEW g \in Flows, flowsOut[g] # None, NEW i \in 1 .. Len(sent'[flowsOut[g]])
        PROVE  sent'[flowsOut[g]][i].flow = g
    <3>1. CASE flowsOut[g] = s
      <4>1. g = c.flow
        BY <1>3, <3>1
      <4>2. i \in 1 .. Len(sent[s]) + 1
        BY <1>6, <2>1, <3>1
      <4>3. CASE i = Len(sent[s]) + 1
        BY <1>5, <1>6, <3>1, <4>1, <4>3
      <4>4. CASE i # Len(sent[s]) + 1
        <5>1. i \in 1 .. Len(sent[s]) /\ sent'[s][i] = sent[s][i]
          BY <1>6, <4>2, <4>4
        <5>. QED  BY <1>1, <3>1, <4>1, <5>1
      <4>. QED  BY <4>3, <4>4
    <3>2. CASE flowsOut[g] # s
      <4>1. sent'[flowsOut[g]] = sent[flowsOut[g]]
        BY <1>4, <1>6, <2>1, <3>2 DEF SendTypes
      <4>. QED  BY <1>4, <2>1, <4>1 DEF OneFlow
    <3>. QED  BY <3>1, <3>2
  <2>. QED  BY <1>1, <2>1 DEF OneFlow
<1>. QED  BY <1>7, <1>8, <1>9, <1>10, <1>11 DEF SendInv

-----------------------------------------------------------------------------
(* The receiver.                                                             *)

(* What the peer knows of a stream with the bytes w, the FIN fn and the      *)
(* packets ps: it was given the packets got, and unless the session is gone  *)
(* it has what it took of the next one, and nothing more than that.          *)
Reception(w, fn, ps, got, fl, pk, e, d, ses) ==
    /\ got \in Seq(Frames) /\ Len(got) <= Len(ps) /\ \A i \in 1 .. Len(got) : got[i] = ps[i]
    /\ e \in 0 .. Len(w) /\ (d => fn /\ e = Len(w))
    /\ (ps = <<>> \/ ~ses) => fl = None
    /\ ps = <<>> => e = 0
    /\ fl = None => pk = None
    /\ fl # None => pk # None
    /\ (ses /\ ps # <<>> /\ fl = None) => (e = 0 /\ got = <<>>) \/ (d /\ Len(got) = Len(ps))
    /\ ps # <<>> => \E off :
          /\ Layout(w, ps[1].flow, ps, off)
          /\ fl # None => fl = ps[1].flow /\ Keeps(w, ps, off, e, pk, Len(got)) /\ Incomplete(pk)

\* A stream that grows by a packet.
Adds(ps, p) ==
    IF ps = <<>> THEN WriteVarint(p.flow, 2048) \o (SizeOf(p) \o p.bytes) ELSE SizeOf(p) \o p.bytes

LEMMA ReceptionLonger ==
    ASSUME NEW w \in Seq(Byte), NEW fn, NEW ps \in Seq(Frames), NEW got, NEW fl, NEW pk, NEW e, NEW d, NEW ses,
           ~d, Reception(w, FALSE, ps, got, fl, pk, e, d, ses), ps = <<>> => w = <<>>,
           NEW p \in Frames, p.flow \in VarintValues, \A i \in 1 .. Len(ps) : ps[i].flow = p.flow
    PROVE  Reception(w \o Adds(ps, p), fn, Append(ps, p), got, fl, pk, e, d, ses)
<1> DEFINE x == SizeOf(p) \o p.bytes
           g == Adds(ps, p)
           v == w \o g
           qs == Append(ps, p)
<1>a. /\ x \in Seq(Byte) /\ SizeOf(p) \in Seq(Byte) /\ WriteVarint(p.flow, 2048) \in Seq(Byte)
      /\ g = IF ps = <<>> THEN WriteVarint(p.flow, 2048) \o x ELSE x
  <2>1. p.bytes \in Seq(Byte) /\ Len(p.bytes) \in VarintValues
    BY DEF Frames
  <2>2. VarintOf(Len(p.bytes), SizeOf(p)) /\ VarintOf(p.flow, WriteVarint(p.flow, 2048))
    BY <2>1, VarintRoundTrip DEF SizeOf
  <2>3. SizeOf(p) \in Seq(Byte) /\ WriteVarint(p.flow, 2048) \in Seq(Byte)
    BY <2>2 DEF VarintOf
  <2>4. x \in Seq(Byte)
    BY <2>1, <2>3, ConcatProperties
  <2>. QED  BY <2>3, <2>4 DEF Adds
<1> HIDE DEF x, g
<1>0. w \in Seq(Byte) /\ p \in Frames
  OBVIOUS
<1>1. /\ got \in Seq(Frames) /\ Len(got) <= Len(ps) /\ \A i \in 1 .. Len(got) : got[i] = ps[i]
      /\ e \in 0 .. Len(w) /\ (ps = <<>> \/ ~ses => fl = None) /\ (ps = <<>> => e = 0)
      /\ (fl = None => pk = None) /\ (fl # None => pk # None)
      /\ (ses /\ ps # <<>> /\ fl = None) => (e = 0 /\ got = <<>>) \/ (d /\ Len(got) = Len(ps))
  BY DEF Reception
<1>2. x \in Seq(Byte) /\ g \in Seq(Byte) /\ v \in Seq(Byte) /\ Len(w) <= Len(v)
  <2>5. g \in Seq(Byte)
    BY ONLY <1>a, ConcatProperties
  <2>6. v \in Seq(Byte) /\ Len(v) = Len(w) + Len(g)
    BY ONLY <1>0, <2>5, ConcatProperties
  <2>7. Len(g) \in Nat /\ Len(w) \in Nat
    BY ONLY <1>0, <2>5, LenProperties
  <2> HIDE DEF v
  <2>8. Len(w) <= Len(v)
    BY ONLY <2>6, <2>7
  <2>. QED  BY ONLY <1>a, <2>5, <2>6, <2>8
<1>3. /\ qs \in Seq(Frames) /\ Len(qs) = Len(ps) + 1 /\ qs # <<>> /\ Len(ps) \in Nat
      /\ \A i \in 1 .. Len(ps) : qs[i] = ps[i]
      /\ qs[Len(ps) + 1] = p
  BY AppendProperties, LenProperties
<1>4. qs[1].flow = p.flow /\ (ps # <<>> => ps[1].flow = p.flow)
  <2>1. CASE ps = <<>>
    BY <1>3, <2>1
  <2>2. CASE ps # <<>>
    <3>1. 1 \in 1 .. Len(ps)
      BY <1>3, <2>2
    <3>. QED  BY <1>3, <3>1
  <2>. QED  BY <2>1, <2>2
<1>5. \E off :
        /\ Layout(v, p.flow, qs, off)
        /\ fl # None => fl = p.flow /\ Keeps(v, qs, off, e, pk, Len(got)) /\ Incomplete(pk)
  <2>1. CASE ps = <<>>
    <3> DEFINE z == WriteVarint(p.flow, 2048)
    <3>1. PICK off : Layout(z, p.flow, <<>>, off)
      BY LayoutOpened
    <3>2. Layout(z \o (SizeOf(p) \o p.bytes), p.flow, Append(<<>>, p), Longer(z, <<>>, p, off))
      <4> HIDE DEF z
      <4>1. p.flow = p.flow
        OBVIOUS
      <4>. QED  BY ONLY <1>0, <3>1, <4>1, LayoutLonger
    <3>3. v = z \o x
      <4>1. w = <<>> /\ g = z \o x
        BY <1>a, <2>1
      <4>2. <<>> \o g = g
        BY ONLY <1>2, ConcatEmptySeq
      <4> HIDE DEF z
      <4>. QED  BY ONLY <4>1, <4>2
    <3>4. fl = None
      BY <1>1, <2>1
    <3>. QED  BY <2>1, <3>2, <3>3, <3>4 DEF x
  <2>2. CASE ps # <<>>
    <3>1. PICK off :
            /\ Layout(w, ps[1].flow, ps, off)
            /\ fl # None => fl = ps[1].flow /\ Keeps(w, ps, off, e, pk, Len(got)) /\ Incomplete(pk)
      BY <2>2 DEF Reception
    <3>2. Layout(w, p.flow, ps, off)
      BY <1>4, <2>2, <3>1
    <3>3. Layout(w \o (SizeOf(p) \o p.bytes), p.flow, qs, Longer(w, ps, p, off))
      BY <3>2, LayoutLonger
    <3>4. ASSUME fl # None
          PROVE  Keeps(w \o (SizeOf(p) \o p.bytes), qs, Longer(w, ps, p, off), e, pk, Len(got))
      BY <1>1, <3>1, <3>2, <3>4, KeptLonger
    <3>5. v = w \o x
      BY <1>a, <2>2
    <3>. QED  BY <1>4, <2>2, <3>1, <3>3, <3>4, <3>5 DEF x
  <2>. QED  BY <2>1, <2>2
<1>6. (ses /\ fl = None) => (e = 0 /\ got = <<>>) \/ (d /\ Len(got) = Len(qs))
  <2>1. CASE ps = <<>>
    <3>1. Len(got) = 0
      BY <1>1, <2>1
    <3>2. got = <<>> /\ e = 0
      BY <1>1, <2>1, <3>1, EmptySeq
    <3>. QED  BY <3>2
  <2>2. CASE ps # <<>>
    BY <1>1, <2>2
  <2>. QED  BY <2>1, <2>2
<1>7. e \in 0 .. Len(v)
  <2> HIDE DEF v
  <2>1. Len(w) \in Nat /\ Len(v) \in Nat
    BY <1>2, LenProperties
  <2>2. e \in 0 .. Len(w) /\ Len(w) <= Len(v)
    BY <1>1, <1>2
  <2>. QED  BY ONLY <2>1, <2>2
<1>8. Len(got) <= Len(qs) /\ \A i \in 1 .. Len(got) : got[i] = qs[i]
  <2>1. Len(got) \in Nat
    BY <1>1, LenProperties
  <2>. QED  BY <1>1, <1>3, <2>1
<1> HIDE DEF v, qs
<1>9. (ps = <<>> \/ ~ses => fl = None) /\ (fl = None => pk = None) /\ (fl # None => pk # None)
  BY <1>1
<1>10. \E off :
        /\ Layout(v, qs[1].flow, qs, off)
        /\ fl # None => fl = qs[1].flow /\ Keeps(v, qs, off, e, pk, Len(got)) /\ Incomplete(pk)
  BY <1>4, <1>5
<1>11. got \in Seq(Frames) /\ ~d /\ qs # <<>>
  BY <1>1, <1>3
<1>12. Reception(v, fn, qs, got, fl, pk, e, d, ses)
  BY ONLY <1>6, <1>7, <1>8, <1>9, <1>10, <1>11 DEF Reception
<1>. QED  BY <1>12 DEF v, qs, g

\* The packets found are the ones behind those that were given before.
Given(f, got, found) == got \o [i \in DOMAIN found |-> Packet(f, found[i])]

LEMMA GivenNext ==
    ASSUME NEW w, NEW f, NEW ps, NEW off, Layout(w, f, ps, off), NEW got \in Seq(Frames), NEW e,
           \A i \in 1 .. Len(got) : got[i] = ps[i], NEW st \in Loop(w, ps, off, e, Len(got))
    PROVE  /\ Given(f, got, st.found) \in Seq(Frames)
           /\ Len(Given(f, got, st.found)) <= Len(ps)
           /\ \A i \in 1 .. Len(Given(f, got, st.found)) : Given(f, got, st.found)[i] = ps[i]
           /\ Keeps(w, ps, off, e, st.pkt, Len(Given(f, got, st.found)))
<1> DEFINE m == Len(got)
           n == Len(st.found)
           h == [i \in DOMAIN st.found |-> Packet(f, st.found[i])]
           g == Given(f, got, st.found)
<1>1. m \in Nat /\ ps \in Seq(Frames) /\ Len(ps) \in Nat /\ got \in Seq(Frames)
  BY LenProperties DEF Layout
<1>2. /\ st.found \in Seq(Seq(Byte)) /\ n \in Nat /\ Keeps(w, ps, off, e, st.pkt, m + n)
      /\ \A i \in 1 .. n : st.found[i] = ps[m + i].bytes
  <2>1. m \in Nat /\ st \in Loop(w, ps, off, e, m)
    BY <1>1
  <2> HIDE DEF m
  <2>. QED  BY ONLY <2>1, StateOfLoop
<1>3. m + n <= Len(ps)
  BY <1>1, <1>2 DEF Keeps
<1>4. \A i \in 1 .. Len(ps) : ps[i] \in Frames /\ ps[i].flow = f
  BY <1>1 DEF Layout
<1>5. ASSUME NEW i \in 1 .. n PROVE Packet(f, st.found[i]) = ps[m + i] /\ ps[m + i] \in Frames
  <2>1. m + i \in 1 .. Len(ps)
    BY <1>1, <1>2, <1>3
  <2>2. ps[m + i] \in Frames /\ ps[m + i].flow = f /\ st.found[i] = ps[m + i].bytes
    BY <1>2, <1>4, <2>1
  <2>. QED  BY <2>2 DEF Packet, Frames
<1>6. DOMAIN st.found = 1 .. n
  BY <1>2
<1>7. h \in Seq(Frames) /\ Len(h) = n /\ \A i \in 1 .. n : h[i] = ps[m + i]
  <2>1. h = [i \in 1 .. n |-> Packet(f, st.found[i])]
    BY <1>6
  <2>2. \A i \in 1 .. n : Packet(f, st.found[i]) \in Frames /\ Packet(f, st.found[i]) = ps[m + i]
    BY <1>5
  <2> HIDE DEF n, m, h
  <2>. QED  BY <1>2, <2>1, <2>2
<1>8. g = got \o h
  BY DEF Given
<1> HIDE DEF n, h, g
<1>9. g \in Seq(Frames) /\ Len(g) = m + n
  BY <1>1, <1>7, <1>8, ConcatProperties
<1>10. ASSUME NEW i \in 1 .. m + n PROVE g[i] = ps[i]
  <2>1. CASE i \in 1 .. m
    BY <1>1, <1>7, <1>8, <2>1, ConcatProperties
  <2>2. CASE i \notin 1 .. m
    <3>1. i - m \in 1 .. n /\ i = m + (i - m)
      BY <1>1, <1>2, <2>2
    <3>2. g[i] = h[i - m]
      BY <1>1, <1>7, <1>8, <2>2, ConcatProperties
    <3>. QED  BY <1>7, <3>1, <3>2
  <2>. QED  BY <2>1, <2>2
<1>. QED  BY <1>2, <1>3, <1>9, <1>10 DEF g

\* A piece of a stream: the flow ID is known or in it, and what is taken is kept or given.
Behind(fl, pk, b) ==
    LET flow == IF fl # None THEN Parsed(fl, 0) ELSE ReadVarint(b)
        old == IF pk = None THEN [buffer |-> <<>>, rtpLen |-> 0] ELSE pk IN
    [old EXCEPT !.buffer = @ \o SubSeq(b, flow.length + 1, Len(b))]

LEMMA PieceKept ==
    ASSUME NEW w, NEW ps, NEW off, NEW fl, NEW pk, NEW e \in 0 .. Len(w), NEW n \in 0 .. Len(w) - e, NEW k,
           ps # <<>>, Layout(w, ps[1].flow, ps, off),
           fl = None => pk = None /\ e = 0 /\ k = 0 /\ ReadVarint(SubSeq(w, 1, n)).length # 0,
           fl # None => pk # None /\ fl = ps[1].flow /\ Keeps(w, ps, off, e, pk, k)
    PROVE  Keeps(w, ps, off, e + n, Behind(fl, pk, SubSeq(w, e + 1, e + n)), k)
<1> DEFINE b == SubSeq(w, e + 1, e + n)
<1>1. w \in Seq(Byte) /\ Len(w) \in Nat /\ e \in Nat /\ n \in Nat
  BY LenProperties DEF Layout
<1>2. CASE fl = None
  <2>1. e = 0 /\ e + 1 = 1 /\ e + n = n /\ n \in 0 .. Len(w) /\ k = 0 /\ pk = None
    BY <1>1, <1>2
  <2>2. b = SubSeq(w, 1, n)
    BY <2>1
  <2>3. ReadVarint(SubSeq(w, 1, n)).length # 0
    BY <1>2
  <2> DEFINE c == SubSeq(b, ReadVarint(b).length + 1, Len(b))
             a == [buffer |-> c, rtpLen |-> 0]
  <2>4. Keeps(w, ps, off, n, a, 0)
    <3> DEFINE x == SubSeq(w, 1, n)
    <3>1. Layout(w, ps[1].flow, ps, off) /\ n \in 0 .. Len(w)
      BY <2>1
    <3>2. Keeps(w, ps, off, n, [buffer |-> SubSeq(x, ReadVarint(x).length + 1, Len(x)), rtpLen |-> 0], 0)
      BY ONLY <2>3, <3>1, FirstPiece
    <3>. QED  BY <2>2, <3>2
  <2>5. c \in Seq(Byte)
    BY <2>4 DEF Keeps
  <2> HIDE DEF c
  <2>6. <<>> \o c = c
    BY <2>5, ConcatEmptySeq
  <2>7. Behind(fl, pk, b) = [[buffer |-> <<>>, rtpLen |-> 0] EXCEPT !.buffer = @ \o c]
    BY <1>2, <2>1 DEF Behind, c
  <2>8. Behind(fl, pk, b) = a
    BY <2>6, <2>7
  <2>. QED  BY <2>1, <2>4, <2>8
<1>3. CASE fl # None
  <2>1. Keeps(w, ps, off, e, pk, k) /\ pk # None
    BY <1>3
  <2>2. Keeps(w, ps, off, e + n, [pk EXCEPT !.buffer = @ \o b], k)
    BY <1>1, <2>1, NextPiece
  <2>3. SubSeq(b, 0 + 1, Len(b)) = b
    <3>1. b \in Seq(Byte)
      BY <1>1
    <3> HIDE DEF b
    <3>. QED  BY <3>1
  <2>4. Behind(fl, pk, b) = [pk EXCEPT !.buffer = @ \o SubSeq(b, 0 + 1, Len(b))]
    BY <1>3, <2>1 DEF Behind, Parsed
  <2>. QED  BY <2>2, <2>3, <2>4
<1>. QED  BY <1>2, <1>3

\* What is known of the flow when a piece comes.
FlowOf(fl, b) == IF fl # None THEN Parsed(fl, 0) ELSE ReadVarint(b)

Received(w, fn, ps, got, fl, pk, e, n, cp) ==
    LET b == SubSeq(w, e + 1, e + n)
        v == FlowOf(fl, b).value
        out == BufferData(Behind(fl, pk, b)) IN
    /\ fl = None => ReadVarint(b).length # 0
    /\ Reception(w, fn, ps, Given(v, got, out.found), IF cp THEN None ELSE v, IF cp THEN None ELSE out.pkt,
                 e + n, cp, TRUE)

LEMMA ReceptionPiece ==
    ASSUME NEW w, NEW fn, NEW ps \in Seq(Frames), NEW got, NEW fl, NEW pk, NEW e,
           Reception(w, fn, ps, got, fl, pk, e, FALSE, TRUE), ps # <<>>,
           NEW n \in 0 .. Len(w) - e, NEW cp \in BOOLEAN, cp => fn /\ e + n = Len(w),
           e = 0 => ReadVarint(SubSeq(w, 1, n)).length # 0
    PROVE  Received(w, fn, ps, got, fl, pk, e, n, cp)
<1> DEFINE b == SubSeq(w, e + 1, e + n)
           out == BufferData(Behind(fl, pk, b))
<1>b. b = SubSeq(w, e + 1, e + n) /\ out = BufferData(Behind(fl, pk, b))
  OBVIOUS
<1> HIDE DEF b, out
<1> DEFINE f == ps[1].flow
           new == Given(f, got, out.found)
<1>1. PICK off :
        /\ Layout(w, f, ps, off)
        /\ fl # None => fl = f /\ Keeps(w, ps, off, e, pk, Len(got)) /\ Incomplete(pk)
  BY DEF Reception
<1>2. /\ got \in Seq(Frames) /\ Len(got) \in Nat /\ \A i \in 1 .. Len(got) : got[i] = ps[i]
      /\ e \in 0 .. Len(w) /\ (fl = None => pk = None /\ e = 0 /\ got = <<>>) /\ (fl # None => pk # None)
  BY LenProperties DEF Reception
<1>3. w \in Seq(Byte) /\ Len(w) \in Nat /\ e + n \in 0 .. Len(w) /\ e + 0 = e
  BY <1>1, <1>2, LenProperties DEF Layout
<1>4. fl = None => Len(got) = 0 /\ b = SubSeq(w, 1, n)
  <2>1. fl = None => e + 1 = 1 /\ e + n = n /\ got = <<>>
    BY <1>2, <1>3
  <2>. QED  BY <1>b, <2>1
<1>5. FlowOf(fl, b).value = f /\ f \in Nat /\ f # None
  <2>1. 1 \in 1 .. Len(ps)
    BY EmptySeq, LenProperties
  <2>2. f \in Nat
    <3>1. ps[1] \in Frames
      BY <2>1
    <3>. QED  BY ONLY <3>1 DEF Frames
  <2>3. CASE fl = None
    <3> DEFINE x == SubSeq(w, 1, n)
    <3>1. ReadVarint(x).length # 0 /\ n \in 0 .. Len(w) /\ Layout(w, f, ps, off)
      BY <1>1, <1>2, <1>3, <2>3
    <3>2. ReadVarint(x).value = f
      BY ONLY <3>1, FirstPiece
    <3>. QED  BY <1>4, <2>2, <2>3, <3>2, NoneIsNoStream DEF FlowOf
  <2>4. CASE fl # None
    BY <1>1, <2>2, <2>4, NoneIsNoStream DEF FlowOf, Parsed
  <2>. QED  BY <2>3, <2>4
<1>6. Keeps(w, ps, off, e + n, Behind(fl, pk, b), Len(got))
  BY <1>1, <1>2, <1>4, PieceKept DEF b
<1>7. out \in Loop(w, ps, off, e + n, Len(got)) /\ Incomplete(out.pkt)
  <2> DEFINE a == Behind(fl, pk, b)
             m == Len(got)
             x == e + n
  <2>1. Layout(w, f, ps, off) /\ Keeps(w, ps, off, x, a, m) /\ x \in 0 .. Len(w) /\ m \in Nat /\ out = BufferData(a)
    BY <1>b, <1>1, <1>2, <1>3, <1>6
  <2> HIDE DEF a, m, x, f
  <2>2. BufferData(a) \in Loop(w, ps, off, x, m) /\ Incomplete(BufferData(a).pkt)
    BY ONLY <2>1, Buffered
  <2>. QED  BY <2>1, <2>2 DEF a, m, x
<1>8. /\ new \in Seq(Frames) /\ Len(new) <= Len(ps) /\ \A i \in 1 .. Len(new) : new[i] = ps[i]
      /\ Keeps(w, ps, off, e + n, out.pkt, Len(new))
  <2> DEFINE x == e + n
  <2>1. Layout(w, f, ps, off) /\ got \in Seq(Frames) /\ (\A i \in 1 .. Len(got) : got[i] = ps[i])
    BY <1>1, <1>2
  <2>2. out \in Loop(w, ps, off, x, Len(got))
    BY <1>7
  <2> HIDE DEF f, x
  <2>3. /\ Given(f, got, out.found) \in Seq(Frames)
        /\ Len(Given(f, got, out.found)) <= Len(ps)
        /\ \A i \in 1 .. Len(Given(f, got, out.found)) : Given(f, got, out.found)[i] = ps[i]
        /\ Keeps(w, ps, off, x, out.pkt, Len(Given(f, got, out.found)))
    BY ONLY <2>1, <2>2, GivenNext
  <2>. QED  BY <2>3 DEF x
<1>9. out.pkt # None
  <2>1. out.pkt \in [rtpLen : Nat, buffer : Seq(Byte)]
    BY <1>8 DEF Keeps
  <2>. QED  BY <2>1, RoqAssumption
<1>10. cp => Len(new) = Len(ps)
  <2> HIDE DEF new, f
  <2>1. cp => Keeps(w, ps, off, Len(w), out.pkt, Len(new))
    BY <1>8
  <2>. QED  BY <1>1, <1>7, <2>1, AllTaken
<1>11. fl = None => ReadVarint(b).length # 0
  BY <1>2, <1>4
<1> DEFINE v == FlowOf(fl, b).value
           x == e + n
<1>12. v = f /\ v # None
  BY <1>5
<1>13. /\ x \in 0 .. Len(w) /\ (cp => fn /\ x = Len(w))
       /\ new \in Seq(Frames) /\ Len(new) <= Len(ps) /\ (\A i \in 1 .. Len(new) : new[i] = ps[i])
       /\ Layout(w, f, ps, off) /\ Keeps(w, ps, off, x, out.pkt, Len(new)) /\ Incomplete(out.pkt)
  BY <1>1, <1>3, <1>7, <1>8
<1> HIDE DEF new, x, v
<1>14. Reception(w, fn, ps, new, IF cp THEN None ELSE v, IF cp THEN None ELSE out.pkt, x, cp, TRUE)
  BY <1>9, <1>10, <1>12, <1>13 DEF Reception
<1>. QED  BY <1>5, <1>11, <1>14 DEF new, x, v, b, out, Received

RecvTypes ==
    /\ flowsIn \in [Streams -> Nat \cup {None}]
    /\ packets \in [Streams -> [rtpLen : Nat, buffer : Seq(Byte)] \cup {None}]
    /\ taken \in [Streams -> Nat] /\ ended \in [Streams -> BOOLEAN] /\ session \in BOOLEAN
    /\ rtpIncoming \in [Streams -> Seq(Frames)]

SentFlows == \A s \in Streams : \A i \in 1 .. Len(sent[s]) : sent[s][i].flow \in Flows

Receptions ==
    \A s \in Streams : Reception(wire[s], fin[s], sent[s], rtpIncoming[s], flowsIn[s], packets[s],
                                 taken[s], ended[s], session)

RecvInv == RecvTypes /\ SentFlows /\ Receptions

LEMMA RecvInit == ASSUME Init PROVE RecvInv
<1>1. RecvTypes
  BY DEF Init, RecvTypes
<1>2. ASSUME NEW s \in Streams
      PROVE  Reception(wire[s], fin[s], sent[s], rtpIncoming[s], flowsIn[s], packets[s],
                       taken[s], ended[s], session)
  <2>1. /\ wire[s] = <<>> /\ fin[s] = FALSE /\ sent[s] = <<>> /\ rtpIncoming[s] = <<>>
        /\ flowsIn[s] = None /\ packets[s] = None /\ taken[s] = 0 /\ ended[s] = FALSE /\ session = TRUE
    BY <1>2 DEF Init
  <2>. QED  BY <2>1 DEF Reception
<1>3. SentFlows
  BY DEF Init, SentFlows
<1>. QED  BY <1>1, <1>2, <1>3 DEF RecvInv, Receptions

LEMMA RecvQuiet ==
    ASSUME RecvInv, wire' = wire, fin' = fin, sent' = sent, UNCHANGED recvVars
    PROVE  RecvInv'
BY DEF recvVars, RecvInv, RecvTypes, SentFlows, Receptions

\* A write makes the stream longer; what the peer has of it stays.
LEMMA RecvWrite ==
    ASSUME SendInv, RecvInv, Legal, NEW t \in Threads, Write(t)
    PROVE  RecvInv'
<1>1. Appended(t)
  BY Written
<1> DEFINE c == call[t]
           s == c.stream
           p == Packet(c.flow, c.bytes)
           g == Adds(sent[s], p)
<1>2. /\ s \in Streams /\ ~fin[s] /\ p \in Frames /\ p.flow \in VarintValues
      /\ wire' = [wire EXCEPT ![s] = @ \o g]
      /\ fin' = [fin EXCEPT ![s] = c.close]
      /\ sent' = [sent EXCEPT ![s] = Append(@, p)]
      /\ UNCHANGED recvVars
      /\ \A i \in 1 .. Len(sent[s]) : sent[s][i].flow = p.flow
  <2>1. Framed(c) = g
    BY <1>1 DEF Appended, Adds
  <2>. QED  BY <1>1, <2>1 DEF Appended
<1>3. p.flow \in Flows
  <2>1. c.flow \in Flows
    BY InCall DEF Write
  <2>. QED  BY <2>1 DEF Packet
<1>4. /\ wire \in [Streams -> Seq(Byte)] /\ sent \in [Streams -> Seq(Frames)] /\ fin \in [Streams -> BOOLEAN]
      /\ wire[s] \in Seq(Byte) /\ sent[s] \in Seq(Frames) /\ (sent[s] = <<>> => wire[s] = <<>>)
  BY <1>2 DEF SendInv, SendTypes, Unused
<1> DEFINE d == ended[s]
           R(w, fn, ps) == Reception(w, fn, ps, rtpIncoming[s], flowsIn[s], packets[s], taken[s], d, session)
<1>5. R(wire[s], fin[s], sent[s])
  BY <1>2 DEF RecvInv, Receptions
<1>6. fin[s] = FALSE
  BY <1>2, <1>4
<1>7. ~d
  BY <1>5, <1>6 DEF Reception
<1>8. R(wire[s] \o g, c.close, Append(sent[s], p))
  <2>1. R(wire[s], FALSE, sent[s])
    BY <1>5, <1>6
  <2>3. p \in Frames /\ p.flow \in VarintValues /\ \A i \in 1 .. Len(sent[s]) : sent[s][i].flow = p.flow
    BY <1>2
  <2>4. wire[s] \in Seq(Byte) /\ sent[s] \in Seq(Frames) /\ (sent[s] = <<>> => wire[s] = <<>>)
    BY <1>4
  <2> DEFINE w == wire[s]
             ps == sent[s]
             got == rtpIncoming[s]
             fl == flowsIn[s]
             pk == packets[s]
             e == taken[s]
             fn == c.close
  <2>5. Reception(w, FALSE, ps, got, fl, pk, e, d, session)
    BY <2>1
  <2> HIDE DEF g, p, d, c, w, ps, got, fl, pk, e, fn
  <2>6. Reception(w \o g, fn, Append(ps, p), got, fl, pk, e, d, session)
    <3>1. /\ w \in Seq(Byte) /\ ps \in Seq(Frames) /\ (ps = <<>> => w = <<>>)
          /\ \A i \in 1 .. Len(ps) : ps[i].flow = p.flow
          /\ g = Adds(ps, p)
      BY <2>3, <2>4 DEF w, ps, g
    <3>. QED  BY ONLY <1>7, <2>3, <2>5, <3>1, ReceptionLonger
  <2>. QED  BY <2>6 DEF w, ps, got, fl, pk, e, fn
<1> HIDE DEF p, g
<1>9. /\ wire'[s] = wire[s] \o g /\ fin'[s] = c.close /\ sent'[s] = Append(sent[s], p)
      /\ \A r \in Streams : r # s => wire'[r] = wire[r] /\ fin'[r] = fin[r] /\ sent'[r] = sent[r]
  BY <1>2, <1>4
<1>10. /\ flowsIn' = flowsIn /\ packets' = packets /\ taken' = taken /\ ended' = ended
       /\ session' = session /\ rtpIncoming' = rtpIncoming
  BY <1>2 DEF recvVars
<1>11. Receptions'
  <2>1. ASSUME NEW r \in Streams
        PROVE  Reception(wire'[r], fin'[r], sent'[r], rtpIncoming[r], flowsIn[r], packets[r],
                         taken[r], ended[r], session)
    <3>1. CASE r = s
      BY <1>8, <1>9, <3>1
    <3>2. CASE r # s
      BY <1>9, <3>2 DEF RecvInv, Receptions
    <3>. QED  BY <3>1, <3>2
  <2>. QED  BY <1>10, <2>1 DEF Receptions
<1>12. SentFlows'
  <2>1. ASSUME NEW r \in Streams, NEW i \in 1 .. Len(sent'[r]) PROVE sent'[r][i].flow \in Flows
    <3>1. CASE r = s
      <4>1. sent'[r] = Append(sent[s], p) /\ sent[s] \in Seq(Frames) /\ i \in 1 .. Len(Append(sent[s], p))
        BY <1>4, <1>9, <2>1, <3>1
      <4>2. CASE i = Len(sent[s]) + 1
        <5>1. Append(sent[s], p)[i] = p
          BY <1>4, <4>2, AppendProperties
        <5>. QED  BY <1>3, <4>1, <5>1
      <4>3. CASE i # Len(sent[s]) + 1
        <5>1. i \in 1 .. Len(sent[s]) /\ Append(sent[s], p)[i] = sent[s][i]
          BY <4>1, <4>3
        <5>. QED  BY <1>2, <1>3, <4>1, <5>1
      <4>. QED  BY <4>2, <4>3
    <3>2. CASE r # s
      BY <1>9, <2>1, <3>2 DEF RecvInv, SentFlows
    <3>. QED  BY <3>1, <3>2
  <2>. QED  BY <2>1 DEF SentFlows, Flows
<1>13. RecvTypes'
  BY <1>10 DEF RecvInv, RecvTypes
<1>. QED  BY <1>11, <1>12, <1>13 DEF RecvInv

\* Bytes that nobody looks at, or none.
LEMMA ReceptionPassed ==
    ASSUME NEW w \in Seq(Byte), NEW fn, NEW ps, NEW got, NEW fl, NEW pk, NEW e, NEW ses,
           Reception(w, fn, ps, got, fl, pk, e, FALSE, ses), ps # <<>>,
           NEW n \in Nat, e + n <= Len(w), NEW cp \in BOOLEAN, cp => fn /\ e + n = Len(w),
           ~ses \/ (n = 0 /\ e > 0)
    PROVE  Reception(w, fn, ps, got, fl, pk, e + n, cp, ses)
<1>1. Len(w) \in Nat /\ e \in 0 .. Len(w) /\ e + n \in 0 .. Len(w)
  BY LenProperties DEF Reception
<1>2. CASE ~ses
  BY <1>1, <1>2 DEF Reception
<1>3. CASE ses
  <2>1. n = 0 /\ e > 0 /\ e + n = e
    BY <1>1, <1>3
  <2>. QED  BY <1>1, <1>3, <2>1 DEF Reception
<1>. QED  BY <1>2, <1>3

LEMMA DeliverKept ==
    ASSUME SendInv, RecvInv, Legal, ~SplitFlow, NEW s \in Streams, NEW n \in Int, NEW complete \in BOOLEAN,
           n \in PieceSizes \cup {Len(wire[s]) - taken[s]}, Piece(s, n, complete)
    PROVE  RecvInv'
<1> DEFINE w == wire[s]
           ps == sent[s]
           got == rtpIncoming[s]
           fl == flowsIn[s]
           pk == packets[s]
           e == taken[s]
           fn == fin[s]
           b == SubSeq(w, e + 1, e + n)
           flow == FlowOf(fl, b)
           out == BufferData(Behind(fl, pk, b))
           new == Given(flow.value, got, out.found)
<1>1. /\ ~ended[s] /\ e + n <= Len(w) /\ (complete => fn /\ e + n = Len(w)) /\ (n > 0 \/ complete)
      /\ SplitFlow \/ e > 0 \/ n = 0 \/ ReadVarint(SubSeq(w, 1, n)).length > 0
      /\ taken' = [taken EXCEPT ![s] = e + n] /\ ended' = [ended EXCEPT ![s] = complete]
      /\ session' = session /\ wire' = wire /\ fin' = fin /\ sent' = sent
  BY DEF Piece, sendVars
<1>2. RecvTypes /\ SentFlows /\ SendTypes
  BY DEF RecvInv, SendInv
<1>3. /\ w \in Seq(Byte) /\ Len(w) \in Nat /\ ps \in Seq(Frames) /\ fn \in BOOLEAN /\ session \in BOOLEAN
      /\ e \in Nat /\ ended[s] = FALSE
  BY <1>1, <1>2, LenProperties DEF SendTypes, RecvTypes
<1>4. Reception(w, fn, ps, got, fl, pk, e, FALSE, session)
  BY <1>3 DEF RecvInv, Receptions
<1>5. e \in 0 .. Len(w)
  BY <1>4 DEF Reception
<1>6. n \in 0 .. Len(w) - e /\ n \in Nat /\ e + n \in Nat /\ e + n \in 0 .. Len(w)
  <2>1. n \in Nat
    BY <1>3, <1>5, RoqAssumption
  <2>. QED  BY <1>1, <1>3, <1>5, <2>1
<1>7. ps # <<>> /\ (n = 0 => e > 0)
  <2>1. ps = <<>> => w = <<>> /\ ~fn
    BY DEF SendInv, Unused
  <2>2. w = <<>> => Len(w) = 0
    OBVIOUS
  <2>3. ps # <<>>
    <3>1. CASE ps = <<>>
      <4>1. Len(w) = 0 /\ ~fn
        BY <2>1, <2>2, <3>1
      <4>2. n = 0 /\ complete
        <5>1. n \in 0 .. Len(w) - e /\ e \in Nat /\ (n > 0 \/ complete)
          BY <1>1, <1>3, <1>6
        <5> HIDE DEF w, e
        <5>. QED  BY <4>1, <5>1
      <4>. QED  BY <1>1, <4>1, <4>2
    <3>. QED  BY <3>1
  <2>4. Len(w) > 0
    <3>1. PICK off : Layout(w, ps[1].flow, ps, off)
      BY <1>4, <2>3 DEF Reception
    <3>2. /\ off[0] \in 0 .. Len(w) /\ off[0] = Len(WriteVarint(ps[1].flow, 2048))
          /\ VarintOf(ps[1].flow, WriteVarint(ps[1].flow, 2048))
      BY <3>1, VarintRoundTrip, LenProperties DEF Layout
    <3>3. off[0] > 0
      BY <3>2, FormLengths DEF VarintOf
    <3>. QED  BY <1>3, <3>2, <3>3
  <2>5. n = 0 => e = Len(w)
    BY <1>1, <1>3, <1>6
  <2>. QED  BY <2>3, <2>4, <2>5
<1>8. e = 0 => ReadVarint(SubSeq(w, 1, n)).length # 0
  BY <1>1, <1>7
<1>9. b = <<>> <=> n = 0
  <2> HIDE DEF w, e
  <2>1. b \in Seq(Byte) /\ Len(b) = n
    BY <1>3, <1>5, <1>6
  <2> HIDE DEF b
  <2>. QED  BY <2>1, EmptySeq
<1> DEFINE fl2 == flowsIn'[s]
           pk2 == packets'[s]
           got2 == rtpIncoming'[s]
<1>10. /\ Reception(w, fn, ps, got2, fl2, pk2, e + n, complete, session)
       /\ flowsIn' = [flowsIn EXCEPT ![s] = fl2] /\ packets' = [packets EXCEPT ![s] = pk2]
       /\ rtpIncoming' = [rtpIncoming EXCEPT ![s] = got2]
  <2>1. CASE ~session \/ b = <<>>
    <3>1. flowsIn' = flowsIn /\ packets' = packets /\ rtpIncoming' = rtpIncoming
      <4>1. StreamIncoming(s, b, complete)
        BY DEF Piece
      <4> HIDE DEF b
      <4>. QED  BY <2>1, <4>1 DEF StreamIncoming
    <3>2. Reception(w, fn, ps, got, fl, pk, e + n, complete, session)
      <4>1. ~session \/ (n = 0 /\ e > 0)
        BY <1>7, <1>9, <2>1
      <4> HIDE DEF w, ps, got, fl, pk, e, fn, b
      <4>. QED  BY <1>1, <1>3, <1>4, <1>6, <1>7, <4>1, ReceptionPassed
    <3>3. /\ flowsIn = [flowsIn EXCEPT ![s] = fl] /\ packets = [packets EXCEPT ![s] = pk]
          /\ rtpIncoming = [rtpIncoming EXCEPT ![s] = got]
      BY <1>2 DEF RecvTypes
    <3>. QED  BY <3>1, <3>2, <3>3
  <2>2. CASE session /\ b # <<>>
    <3> DEFINE r == Reception(w, fn, ps, new, IF complete THEN None ELSE flow.value,
                              IF complete THEN None ELSE out.pkt, e + n, complete, TRUE)
    <3>1. (fl = None => ReadVarint(b).length # 0) /\ r
      <4>1. Reception(w, fn, ps, got, fl, pk, e, FALSE, TRUE)
        BY <1>4, <2>2
      <4>2. complete => fn /\ e + n = Len(w)
        BY <1>1
      <4> HIDE DEF w, ps, got, fl, pk, e, fn
      <4>4. ps # <<>> /\ ps \in Seq(Frames) /\ n \in 0 .. Len(w) - e /\ complete \in BOOLEAN
        BY <1>3, <1>6, <1>7
      <4>5. Received(w, fn, ps, got, fl, pk, e, n, complete)
        BY ONLY <1>8, <4>1, <4>2, <4>4, ReceptionPiece
      <4>. QED  BY <4>5 DEF Received
    <3>2. /\ flowsIn' = [flowsIn EXCEPT ![s] = IF complete THEN None ELSE flow.value]
          /\ packets' = [packets EXCEPT ![s] = IF complete THEN None ELSE out.pkt]
          /\ rtpIncoming' = [rtpIncoming EXCEPT ![s] = new]
      <4> DEFINE known == KnownFlow(s, b)
                 old == IF packets[s] = None THEN [buffer |-> <<>>, rtpLen |-> 0] ELSE packets[s]
                 more == SubSeq(b, known.length + 1, Len(b))
      <4>1. known = flow
        BY DEF KnownFlow, FlowOf
      <4>2. Behind(fl, pk, b) = [old EXCEPT !.buffer = @ \o more]
        BY DEF Behind, KnownFlow
      <4>3. StreamIncoming(s, b, complete)
        BY DEF Piece
      <4>4. fl = None => known.length # 0
        BY <3>1 DEF KnownFlow
      <4> HIDE DEF b, known
      <4>5. /\ flowsIn' = [flowsIn EXCEPT ![s] = IF complete THEN None ELSE known.value]
            /\ packets' = [packets EXCEPT ![s] = IF complete THEN None
                                                ELSE BufferData([old EXCEPT !.buffer = @ \o more]).pkt]
            /\ rtpIncoming' = [rtpIncoming EXCEPT ![s] =
                  @ \o [i \in DOMAIN BufferData([old EXCEPT !.buffer = @ \o more]).found |->
                           Packet(known.value, BufferData([old EXCEPT !.buffer = @ \o more]).found[i])]]
        BY <2>2, <4>3, <4>4 DEF StreamIncoming, known
      <4>. QED  BY <4>1, <4>2, <4>5 DEF Given
    <3>3. /\ fl2 = (IF complete THEN None ELSE flow.value)
          /\ pk2 = (IF complete THEN None ELSE out.pkt) /\ got2 = new
      <4> HIDE DEF new, out, flow
      <4>. QED  BY <1>2, <3>2 DEF RecvTypes
    <3> HIDE DEF new, out, flow
    <3>. QED  BY <2>2, <3>1, <3>2, <3>3
  <2>. QED  BY <1>3, <2>1, <2>2
<1> HIDE DEF w, ps, got, fl, pk, e, fn, fl2, pk2, got2
<1>11. fl2 \in Nat \cup {None} /\ pk2 \in [rtpLen : Nat, buffer : Seq(Byte)] \cup {None} /\ got2 \in Seq(Frames)
  <2>1. /\ got2 \in Seq(Frames) /\ (fl2 = None => pk2 = None)
        /\ fl2 # None => \E off : fl2 = ps[1].flow /\ Keeps(w, ps, off, e + n, pk2, Len(got2))
    BY <1>7, <1>10 DEF Reception
  <2>2. ps[1].flow \in Nat
    <3>1. ps[1] \in Frames
      BY ONLY <1>3, <1>7, EmptySeq, LenProperties
    <3>. QED  BY ONLY <3>1 DEF Frames
  <2>. QED  BY <2>1, <2>2 DEF Keeps
<1>12. RecvTypes'
  BY <1>1, <1>2, <1>6, <1>10, <1>11 DEF RecvTypes
<1>13. SentFlows'
  BY <1>1, <1>2 DEF SentFlows, Flows
<1>14. /\ taken'[s] = e + n /\ ended'[s] = complete
       /\ \A r \in Streams : r # s =>
             /\ flowsIn'[r] = flowsIn[r] /\ packets'[r] = packets[r] /\ rtpIncoming'[r] = rtpIncoming[r]
             /\ taken'[r] = taken[r] /\ ended'[r] = ended[r]
  BY <1>1, <1>2, <1>10 DEF RecvTypes
<1>15. Receptions'
  <2>1. ASSUME NEW r \in Streams
        PROVE  Reception(wire[r], fin[r], sent[r], rtpIncoming'[r], flowsIn'[r], packets'[r],
                         taken'[r], ended'[r], session)
    <3>1. CASE r = s
      BY <1>10, <1>14, <3>1 DEF w, ps, fn, fl2, pk2, got2
    <3>2. CASE r # s
      BY <1>14, <3>2 DEF RecvInv, Receptions
    <3>. QED  BY <3>1, <3>2
  <2>. QED  BY <1>1, <2>1 DEF Receptions
<1>. QED  BY <1>12, <1>13, <1>15 DEF RecvInv

LEMMA GoneKept == ASSUME SendInv, RecvInv, ConnectionGone PROVE RecvInv'
<1>1. /\ session' = FALSE /\ flowsIn' = [s \in Streams |-> None] /\ packets' = [s \in Streams |-> None]
      /\ taken' = taken /\ ended' = ended /\ rtpIncoming' = rtpIncoming
      /\ wire' = wire /\ fin' = fin /\ sent' = sent
  BY DEF ConnectionGone, sendVars
<1>2. RecvTypes'
  BY <1>1 DEF RecvInv, RecvTypes
<1>3. ASSUME NEW s \in Streams
      PROVE  Reception(wire[s], fin[s], sent[s], rtpIncoming[s], None, None, taken[s], ended[s], FALSE)
  <2> DEFINE w == wire[s]
             ps == sent[s]
             got == rtpIncoming[s]
             fl == flowsIn[s]
             pk == packets[s]
             e == taken[s]
             d == ended[s]
             fn == fin[s]
  <2>1. Reception(w, fn, ps, got, fl, pk, e, d, session)
    BY <1>3 DEF RecvInv, Receptions
  <2> HIDE DEF w, ps, got, fl, pk, e, d, fn
  <2>2. Reception(w, fn, ps, got, None, None, e, d, FALSE)
    BY <2>1 DEF Reception
  <2>. QED  BY <2>2 DEF w, ps, got, e, d, fn
<1>4. Receptions'
  BY <1>1, <1>3 DEF Receptions
<1>5. SentFlows'
  BY <1>1 DEF RecvInv, SentFlows, Flows
<1>. QED  BY <1>2, <1>4, <1>5 DEF RecvInv

-----------------------------------------------------------------------------
RoqInv == SendInv /\ RecvInv

LEMMA RoqNext == ASSUME RoqInv, [Next]_vars, Legal, ~SplitFlow PROVE RoqInv'
<1>1. SendInv /\ RecvInv
  BY DEF RoqInv
<1>2. CASE UNCHANGED vars
  <2>1. UNCHANGED sendVars /\ UNCHANGED recvVars /\ wire' = wire /\ fin' = fin /\ sent' = sent
    BY <1>2 DEF vars, sendVars
  <2>. QED  BY <1>1, <2>1, SendQuiet, RecvQuiet DEF RoqInv
<1>3. ASSUME NEW t \in Threads, Send(t) PROVE RoqInv'
  <2>1. CASE LookupStream(t)
    <3>1. wire' = wire /\ fin' = fin /\ sent' = sent /\ UNCHANGED recvVars
      BY <2>1 DEF LookupStream
    <3>. QED  BY <1>1, <2>1, <3>1, LookupKept, RecvQuiet DEF RoqInv
  <2>2. CASE TestNew(t) \/ ClearNew(t)
    <3>1. wire' = wire /\ fin' = fin /\ sent' = sent /\ UNCHANGED recvVars
      BY <2>2 DEF TestNew, ClearNew
    <3>. QED  BY <1>1, <2>2, <3>1, FlagKept, RecvQuiet DEF RoqInv
  <2>3. CASE Write(t)
    BY <1>1, <2>3, WriteKept, RecvWrite DEF RoqInv
  <2>4. CASE Forget(t)
    <3>1. wire' = wire /\ fin' = fin /\ sent' = sent /\ UNCHANGED recvVars
      BY <2>4 DEF Forget
    <3>. QED  BY <1>1, <2>4, <3>1, ForgetKept, RecvQuiet DEF RoqInv
  <2>. QED  BY <1>3, <2>1, <2>2, <2>3, <2>4 DEF Send
<1>4. ASSUME NEW s \in Streams, Deliver(s) PROVE RoqInv'
  <2>1. PICK n \in PieceSizes \cup {Len(wire[s]) - taken[s]}, complete \in BOOLEAN : Piece(s, n, complete)
    BY <1>4 DEF Deliver
  <2>2. n \in Int
    <3>1. Len(wire[s]) \in Nat /\ taken[s] \in Nat
      BY <1>1, <1>4, LenProperties DEF SendInv, SendTypes, RecvInv, RecvTypes
    <3>. QED  BY <2>1, <3>1, RoqAssumption
  <2>3. RecvInv'
    BY <1>1, <1>4, <2>1, <2>2, DeliverKept
  <2>4. UNCHANGED sendVars
    BY <2>1 DEF Piece
  <2>. QED  BY <1>1, <2>3, <2>4, SendQuiet DEF RoqInv
<1>5. CASE ConnectionGone
  <2>1. UNCHANGED sendVars
    BY <1>5 DEF ConnectionGone
  <2>. QED  BY <1>1, <1>5, <2>1, GoneKept, SendQuiet DEF RoqInv
<1>. QED  BY <1>2, <1>3, <1>4, <1>5 DEF Next

LEMMA RoqSafe == ASSUME Legal, ~SplitFlow PROVE Spec => []RoqInv
<1>1. Init => RoqInv
  BY SendInit, RecvInit DEF RoqInv
<1>2. RoqInv /\ [Next]_vars => RoqInv'
  BY RoqNext
<1>. QED  BY <1>1, <1>2, PTL DEF Spec

\* What the application was given are the first packets that were sent, and no fewer than arrived.
LEMMA GivenInOrder == ASSUME RoqInv PROVE RtpInOrder
<1> SUFFICES ASSUME NEW s \in Streams
             PROVE  /\ IsPrefix(rtpIncoming[s], sent[s])
                    /\ session /\ taken[s] = Len(wire[s]) => Len(rtpIncoming[s]) = Len(sent[s])
  BY DEF RtpInOrder
<1> DEFINE w == wire[s]
           ps == sent[s]
           got == rtpIncoming[s]
           fl == flowsIn[s]
           pk == packets[s]
           e == taken[s]
           d == ended[s]
<1>1. Reception(w, fin[s], ps, got, fl, pk, e, d, session)
  BY DEF RoqInv, RecvInv, Receptions
<1>2. w \in Seq(Byte) /\ ps \in Seq(Frames) /\ Len(ps) \in Nat /\ Len(w) \in Nat
  BY LenProperties DEF RoqInv, SendInv, SendTypes
<1>3. got \in Seq(Frames) /\ Len(got) \in Nat /\ Len(got) <= Len(ps) /\ \A i \in 1 .. Len(got) : got[i] = ps[i]
  BY <1>1, LenProperties DEF Reception
<1> HIDE DEF w, ps, got, fl, pk, e, d
<1>4. IsPrefix(got, ps)
  <2>1. SubSeq(ps, 1, Len(got)) \in Seq(Frames) /\ Len(SubSeq(ps, 1, Len(got))) = Len(got)
    BY <1>2, <1>3
  <2>2. \A i \in 1 .. Len(got) : SubSeq(ps, 1, Len(got))[i] = got[i]
    BY <1>2, <1>3
  <2>3. SubSeq(ps, 1, Len(got)) = got
    BY <1>3, <2>1, <2>2, SeqEqual
  <2>. QED  BY <1>3, <2>3 DEF IsPrefix
<1>5. session /\ e = Len(w) => Len(got) = Len(ps)
  <2>1. SUFFICES ASSUME session, e = Len(w) PROVE Len(got) = Len(ps)
    OBVIOUS
  <2>2. CASE ps = <<>>
    BY <1>3, <2>2
  <2>3. CASE ps # <<>> /\ fl # None
    <3>1. PICK off : Layout(w, ps[1].flow, ps, off) /\ Keeps(w, ps, off, Len(w), pk, Len(got)) /\ Incomplete(pk)
      BY <1>1, <2>1, <2>3 DEF Reception
    <3>. QED  BY <3>1, AllTaken
  <2>4. CASE ps # <<>> /\ fl = None
    <3>1. PICK off : Layout(w, ps[1].flow, ps, off)
      BY <1>1, <2>4 DEF Reception
    <3>2. /\ off[0] \in 0 .. Len(w) /\ off[0] = Len(WriteVarint(ps[1].flow, 2048))
          /\ VarintOf(ps[1].flow, WriteVarint(ps[1].flow, 2048))
      BY <1>2, <3>1, VarintRoundTrip DEF Layout
    <3>3. off[0] > 0
      BY <3>2, FormLengths DEF VarintOf
    <3>4. e # 0
      BY <1>2, <2>1, <3>2, <3>3
    <3>. QED  BY <1>1, <2>1, <2>4, <3>4 DEF Reception
  <2>. QED  BY <2>2, <2>3, <2>4
<1>. QED  BY <1>4, <1>5 DEF w, ps, got, e

LEMMA TypesKept == ASSUME RoqInv PROVE TypeOK
<1>1. SendTypes /\ RecvTypes /\ SentFlows
  BY DEF RoqInv, SendInv, RecvInv
<1>2. ASSUME NEW s \in Streams
      PROVE  /\ wire[s] \in Seq(Byte) /\ taken[s] \in 0 .. Len(wire[s])
             /\ flowsIn[s] \in Flows \cup {None}
             /\ packets[s] = None \/ Len(packets[s].buffer) <= taken[s]
  <2> DEFINE w == wire[s]
             ps == sent[s]
             got == rtpIncoming[s]
             fl == flowsIn[s]
             pk == packets[s]
             e == taken[s]
             d == ended[s]
  <2>1. Reception(w, fin[s], ps, got, fl, pk, e, d, session)
    BY DEF RoqInv, RecvInv, Receptions
  <2>2. w \in Seq(Byte) /\ ps \in Seq(Frames) /\ \A i \in 1 .. Len(ps) : ps[i].flow \in Flows
    BY <1>1 DEF SendTypes, SentFlows
  <2> HIDE DEF w, ps, got, fl, pk, e, d
  <2>3. e \in 0 .. Len(w) /\ (fl = None => pk = None)
    BY <2>1 DEF Reception
  <2>4. fl # None => ps # <<>> /\ fl = ps[1].flow /\ Len(pk.buffer) <= e
    BY <2>1 DEF Reception, Keeps
  <2>5. ps # <<>> => 1 \in 1 .. Len(ps)
    BY <2>2, EmptySeq, LenProperties
  <2>. QED  BY <2>2, <2>3, <2>4, <2>5 DEF w, fl, pk, e
<1>3. flowsIn \in [Streams -> Flows \cup {None}]
  BY <1>1, <1>2 DEF RecvTypes
<1>. QED  BY <1>1, <1>2, <1>3 DEF TypeOK, SendTypes, RecvTypes

(* imquic_roq_buffer_data and imquic_roq_send_rtp: the application is given  *)
(* the packets of a stream as they were sent, and all of those whose bytes   *)
(* have been taken.                                                          *)
THEOREM PacketsInOrder == ASSUME Legal, ~SplitFlow PROVE Spec => []RtpInOrder
<1>1. RoqInv => RtpInOrder
  BY GivenInOrder
<1>. QED  BY <1>1, RoqSafe, PTL

(* imquic_roq_send_rtp: no packet is written to a stream that was closed,    *)
(* and the tables of both ends have their types.                             *)
THEOREM WritesAccepted == ASSUME Legal, ~SplitFlow PROVE Spec => []NeverRefused
<1>1. RoqInv => NeverRefused
  <2>1. ASSUME RoqInv PROVE \A t \in Threads : pc[t] = "write" => ~fin[call[t].stream]
    BY <2>1 DEF RoqInv, SendInv, Staged
  <2>. QED  BY <2>1, TypesKept DEF NeverRefused
<1>. QED  BY <1>1, RoqSafe, PTL

=============================================================================
