------------------------------- MODULE Varint -------------------------------
(***************************************************************************)
(* The variable-size integers of the wire formats: QUIC's (utils.c), MoQ's *)
(* own from version 17 on (moq.c) and QPACK's prefixed integers (utils.c). *)
(* A reader returns the value and how many bytes it took, a writer the     *)
(* bytes; taking or writing nothing is how both refuse.                    *)
(***************************************************************************)
EXTENDS Naturals, Sequences, SequencesExt

Byte == 0..255

Parsed(v, n) == [value |-> v, length |-> n]
Refused == Parsed(0, 0)

(* The big-endian value of bytes that follow the most significant bits v. *)
Accumulate(v, bytes) ==
    LET r[i \in 0..Len(bytes)] == IF i = 0 THEN v ELSE 256 * r[i - 1] + bytes[i] IN r[Len(bytes)]

(* The n lowest base-256 digits of v, most significant first. *)
Digits(v, n) == [i \in 1..n |-> (v \div 256^(n - i)) % 256]

(* v in n bytes, marker added to the first: nothing if there is no room. *)
Marked(v, n, marker, room) ==
    IF room < n THEN <<>> ELSE [Digits(v, n) EXCEPT ![1] = @ + marker]

-----------------------------------------------------------------------------
(* QUIC: the two highest bits are the logarithm of the length. *)

VarintLength(first) == 2^(first \div 64)

ReadVarint(bytes) ==
    IF bytes = <<>> \/ VarintLength(bytes[1]) > Len(bytes)
    THEN Refused
    ELSE LET n == VarintLength(bytes[1])
         IN  Parsed(Accumulate(bytes[1] % 64, SubSeq(bytes, 2, n)), n)

\* Mutant: the first boundary is off by one.
WriteVarintOff(v, room) ==
    IF v <= 64 THEN Marked(v, 1, 0, room)
    ELSE IF v <= 16383 THEN Marked(v, 2, 64, room)
    ELSE IF v <= 1073741823 THEN Marked(v, 4, 128, room)
    ELSE IF room < 8 THEN <<>> ELSE <<192, 0, 0, 0>> \o Digits(v, 4)

(* Numbers from 2^30 take eight bytes, those from 2^62 (IMQUIC_MAX_VARINT) are *)
(* refused; the high half is computed without a number that TLC has not.      *)
WriteVarint(v, room) ==
    IF v <= 63 THEN Marked(v, 1, 0, room)
    ELSE IF v <= 16383 THEN Marked(v, 2, 64, room)
    ELSE IF v <= 1073741823 THEN Marked(v, 4, 128, room)
    ELSE LET high == (v \div 65536) \div 65536
         IN  IF room < 8 \/ high > 1073741823 THEN <<>>
             ELSE Marked(high, 4, 192, 4) \o Digits(v, 4)

-----------------------------------------------------------------------------
(* MoQ: as many leading ones as bytes follow the first. *)

MoqintLength(first) ==
    CASE first < 128 -> 1 [] first \in 128..191 -> 2 [] first \in 192..223 -> 3
      [] first \in 224..239 -> 4 [] first \in 240..247 -> 5 [] first \in 248..251 -> 6
      [] first \in 252..253 -> 7 [] first = 254 -> 8 [] first = 255 -> 9

(* The bits of the first byte that belong to the value. *)
MoqintHead(first) ==
    LET n == MoqintLength(first) IN IF n < 8 THEN first % 2^(8 - n) ELSE 0

(* The base-256 digits of the integer the bytes start with: a uint64_t as a  *)
(* sequence, which TLC can hold where it has no number.                      *)
MoqintDigits(version, bytes) ==
    IF \/ bytes = <<>>
       \/ bytes[1] = 252 /\ version < 18
       \/ MoqintLength(bytes[1]) > Len(bytes)
    THEN Parsed(<<>>, 0)
    ELSE LET n == MoqintLength(bytes[1])
         IN  Parsed(<<MoqintHead(bytes[1])>> \o SubSeq(bytes, 2, n), n)

ReadMoqint(version, bytes) ==
    IF version <= 16 THEN ReadVarint(bytes)
    ELSE LET r == MoqintDigits(version, bytes) IN Parsed(Accumulate(0, r.value), r.length)

(* The eight digits of v, computed without 256^7. *)
Word(v) == Digits((v \div 65536) \div 65536, 4) \o Digits(v, 4)

(* Whether k bytes hold the word beside k - 1 leading ones and a zero. *)
FitsIn(word, k) == /\ \A i \in 1..(8 - k) : word[i] = 0
                   /\ word[9 - k] < 2^(8 - k)

\* Mutant: version 17 writes the seven-byte form too.
MoqintFormsAll(version) == 1..8

(* The lengths the writer has; nine bytes take any word. *)
MoqintForms(version) == IF version < 18 THEN (1..6) \cup {8} ELSE 1..8

(* The shortest form; the ones are added to the first of its bytes, which    *)
(* the word leaves free.                                                     *)
WriteWord(version, word, room) ==
    LET fits == {k \in MoqintForms(version) : FitsIn(word, k)}
        n == IF fits = {} THEN 9 ELSE CHOOSE k \in fits : \A j \in fits : k <= j
    IN  IF room < n THEN <<>>
        ELSE IF n = 9 THEN <<255>> \o word
        ELSE [SubSeq(word, 9 - n, 8) EXCEPT ![1] = @ + 256 - 2^(9 - n)]

WriteMoqint(version, v, room) ==
    IF version <= 16 THEN WriteVarint(v, room) ELSE WriteWord(version, Word(v), room)

-----------------------------------------------------------------------------
(* QPACK: n bits of the first byte (whose other bits are prefix), then    *)
(* seven bits per byte, least significant first.                          *)

ReadPfxint(n, bytes) ==
    LET cap   == 2^n - 1
        first == bytes[1] % 2^n
        ends  == {i \in 2..Len(bytes) : bytes[i] < 128}
        last  == CHOOSE i \in ends : \A j \in ends : i <= j
        tail  == FoldRight(LAMBDA b, r : (b % 128) + 128 * r, SubSeq(bytes, 2, last), 0)
    IN  IF n > 8 \/ bytes = <<>> THEN Refused
        ELSE IF first < cap THEN Parsed(first, 1)
        ELSE IF ends = {} THEN Refused
        ELSE Parsed(cap + tail, last)

(* The seven-bit groups of v; every one but the last says that more follow. *)
Groups(v) ==
    LET k == CHOOSE i \in 1..10 : v < 128^i /\ \A j \in 1..(i - 1) : v >= 128^j
    IN  [i \in 1..k |-> ((v \div 128^(i - 1)) % 128) + (IF i < k THEN 128 ELSE 0)]

WritePfxint(v, n, prefix, room) ==
    LET cap  == 2^n - 1
        rest == Groups(v - cap)
    IN  IF n > 8 \/ room = 0 THEN <<>>
        ELSE IF v < cap THEN <<prefix + v>>
        ELSE IF room < 1 + Len(rest) THEN <<>> ELSE <<prefix + cap>> \o rest
=============================================================================
