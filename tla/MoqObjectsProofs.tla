-------------------------- MODULE MoqObjectsProofs --------------------------
(***************************************************************************)
(* Objects of MoQ arrive as they were sent, for every number of threads,    *)
(* groups and objects and pieces of every size, although a stream carries   *)
(* differences of IDs.  Three parts: what is written of an object after     *)
(* another is read back as that object; a reader of a stream is always at   *)
(* an object with a part of the next one; and what the senders write to a   *)
(* stream is its header and then whole objects.                             *)
(***************************************************************************)
EXTENDS MoqObjects, Induction, SequenceTheorems

-----------------------------------------------------------------------------
(* Differences of IDs.                                                       *)

LEMMA ModIs ==
    ASSUME NEW W \in Nat \ {0}, NEW n \in Int
    PROVE  n % W \in 0 .. W - 1 /\ n \div W \in Int /\ n = W * (n \div W) + (n % W)
OBVIOUS

LEMMA SmallMod ==
    ASSUME NEW W \in Nat \ {0}, NEW n \in Int
    PROVE  /\ 0 <= n /\ n < W => n % W = n
           /\ n < 0 /\ -W <= n => n % W = n + W
           /\ W <= n /\ n < 2 * W => n % W = n - W
<1> DEFINE q == n \div W
           r == n % W
<1>1. r \in 0 .. W - 1 /\ q \in Int /\ n = W * q + r
  BY ModIs
<1> HIDE DEF q, r
<1>2. q >= 2 => W * q >= 2 * W
  BY <1>1
<1>3. q <= -2 => W * q <= -2 * W
  BY <1>1
<1>4. q >= 2 \/ q <= -2 \/ q = 0 \/ q = 1 \/ q = -1
  BY <1>1
<1>5. /\ q = 0 => W * q = 0
      /\ q = 1 => W * q = W
      /\ q = -1 => W * q = -W
  BY <1>1
<1> DEFINE m == W * q
<1>6. m \in Int /\ n = m + r
  BY <1>1
<1> HIDE DEF m
<1>7. ASSUME 0 <= n, n < W PROVE r = n
  BY <1>1, <1>2, <1>3, <1>4, <1>5, <1>6, <1>7 DEF m
<1>8. ASSUME n < 0, -W <= n PROVE r = n + W
  BY <1>1, <1>2, <1>3, <1>4, <1>5, <1>6, <1>8 DEF m
<1>9. ASSUME W <= n, n < 2 * W PROVE r = n - W
  BY <1>1, <1>2, <1>3, <1>4, <1>5, <1>6, <1>9 DEF m
<1>. QED  BY <1>7, <1>8, <1>9 DEF r

\* A difference and a sum that wrap give the other number back.
LEMMA WrapBack ==
    ASSUME NEW a \in Nat, NEW b \in Nat, a < Wrap, b < Wrap
    PROVE  /\ (a - b) % Wrap \in Nat
           /\ (((a - b) % Wrap) + b) % Wrap = a
           /\ (b - ((b - a) % Wrap)) % Wrap = a
           /\ (a - b) % Wrap = 0 => a = b
           /\ (a - b) % Wrap = 1 => (b + 1) % Wrap = a
<1>1. Wrap \in Nat \ {0}
  BY ObjectsAssumption
<1> DEFINE d == a - b
           e == b - a
<1>d. /\ d \in Int /\ e \in Int /\ d < Wrap /\ e < Wrap /\ -Wrap <= d /\ -Wrap <= e
      /\ (a >= b <=> 0 <= d) /\ (b >= a <=> 0 <= e)
  BY <1>1
<1> HIDE DEF d, e
<1>s. /\ 0 <= d /\ d < Wrap => d % Wrap = d
      /\ d < 0 /\ -Wrap <= d => d % Wrap = d + Wrap
      /\ 0 <= e /\ e < Wrap => e % Wrap = e
      /\ e < 0 /\ -Wrap <= e => e % Wrap = e + Wrap
  BY ONLY <1>1, <1>d, SmallMod, Zenon
<1>2. d % Wrap = IF a >= b THEN d ELSE d + Wrap
  BY <1>1, <1>d, <1>s
<1>3. e % Wrap = IF b >= a THEN e ELSE e + Wrap
  BY <1>1, <1>d, <1>s
<1> USE DEF d, e
<1>4. (((a - b) % Wrap) + b) % Wrap = a
  <2>1. CASE a >= b
    BY <1>1, <1>2, <2>1, SmallMod
  <2>2. CASE a < b
    BY <1>1, <1>2, <2>2, SmallMod
  <2>. QED  BY <2>1, <2>2
<1>5. (b - ((b - a) % Wrap)) % Wrap = a
  <2>1. CASE b >= a
    BY <1>1, <1>3, <2>1, SmallMod
  <2>2. CASE b < a
    BY <1>1, <1>3, <2>2, SmallMod
  <2>. QED  BY <2>1, <2>2
<1>6. ASSUME (a - b) % Wrap = 1 PROVE (b + 1) % Wrap = a
  <2>1. CASE a >= b
    BY <1>1, <1>2, <1>6, <2>1, SmallMod
  <2>2. CASE a < b
    <3>1. b + 1 = a + Wrap
      BY <1>1, <1>2, <1>6, <2>2
    <3>. QED  BY <1>1, <3>1, SmallMod
  <2>. QED  BY <2>1, <2>2
<1>. QED  BY <1>1, <1>2, <1>4, <1>5, <1>6

-----------------------------------------------------------------------------
(* What is written of an object.                                             *)

\* The type of the streams of subgroups.
Ordinary == SubgroupType(TRUE, FALSE, TRUE, TRUE, TRUE, TRUE)

LEMMA OrdinaryIs ==
    /\ Ordinary \in {29, 93} /\ Ordinary \in Nat /\ Ordinary # FETCH_HEADER /\ ValidType(Ordinary)
    /\ SubgroupFields(Ordinary).subgroup /\ SubgroupFields(Ordinary).prop
    /\ SubgroupFields(Ordinary).priority /\ ~SubgroupFields(Ordinary).violation
<1>1. Ordinary \in {29, 93} /\ (Ordinary = 93 => Version >= 18)
  BY ObjectsAssumption DEF Ordinary, SubgroupType, Flag
<1>2. ValidType(Ordinary)
  BY <1>1 DEF ValidType
<1>3. \A n \in {29, 93} : /\ SubgroupFields(n).subgroup /\ SubgroupFields(n).prop
                          /\ SubgroupFields(n).priority /\ ~SubgroupFields(n).violation
  <2>1. /\ Bit(29, 4) /\ Bit(29, 1) /\ ~Bit(29, 32) /\ Bit(29, 16)
        /\ Bit(93, 4) /\ Bit(93, 1) /\ ~Bit(93, 32) /\ Bit(93, 16)
    BY DEF Bit
  <2>2. ASSUME NEW n
        PROVE  /\ SubgroupFields(n).subgroup = Bit(n, 4) /\ SubgroupFields(n).prop = Bit(n, 1)
               /\ SubgroupFields(n).priority = ~Bit(n, 32) /\ SubgroupFields(n).violation = ~Bit(n, 16)
    BY DEF SubgroupFields
  <2>. QED  BY <2>1, <2>2
<1>. QED  BY <1>1, <1>2, <1>3 DEF FETCH_HEADER

\* The objects that the application may be given.
Shows ==
    {p \in [group : Nat, subgroup : Nat, id : Nat, status : Nat, priority : {PRIORITY},
            payload : Seq(Nat), properties : Seq(Nat), eos : BOOLEAN] :
        /\ p.properties = <<>> \/ p.properties = <<9>>
        /\ p.payload = <<>> \/ (p.status = 0 /\ \E n \in Nat : p.payload = <<n>>)}

LEMMA JoinNone == ASSUME NEW a \in Nat PROVE <<a>> \o <<>> = <<a>>
<1>1. <<a>> \in Seq(Nat)
  OBVIOUS
<1>. QED  BY <1>1, ConcatEmptySeq

LEMMA JoinOneOne ==
    ASSUME NEW a \in Nat, NEW b \in Nat
    PROVE  <<a>> \o <<b>> = <<a, b>>
<1>1. /\ <<a>> \in Seq(Nat) /\ Len(<<a>>) = 1 /\ <<a>>[1] = a
      /\ <<b>> \in Seq(Nat) /\ Len(<<b>>) = 1 /\ <<b>>[1] = b
  OBVIOUS
<1> DEFINE u == <<a>> \o <<b>>
           t == <<a, b>>
<1>2. u \in Seq(Nat) /\ Len(u) = 2 /\ u[1] = a /\ u[2] = b
  BY <1>1, ConcatProperties
<1>3. t \in Seq(Nat) /\ Len(t) = 2 /\ t[1] = a /\ t[2] = b
  OBVIOUS
<1> HIDE DEF u, t
<1>4. \A i \in 1 .. Len(u) : u[i] = t[i]
  BY ONLY <1>2, <1>3
<1>5. u = t
  BY ONLY <1>2, <1>3, <1>4, SeqEqual
<1>. QED  BY <1>5 DEF u, t

LEMMA JoinOneTwo ==
    ASSUME NEW a \in Nat, NEW b \in Nat, NEW c \in Nat
    PROVE  <<a>> \o <<b, c>> = <<a, b, c>>
<1>1. /\ <<a>> \in Seq(Nat) /\ Len(<<a>>) = 1 /\ <<a>>[1] = a
      /\ <<b, c>> \in Seq(Nat) /\ Len(<<b, c>>) = 2 /\ <<b, c>>[1] = b /\ <<b, c>>[2] = c
  OBVIOUS
<1> DEFINE u == <<a>> \o <<b, c>>
           t == <<a, b, c>>
<1>2. u \in Seq(Nat) /\ Len(u) = 3 /\ u[1] = a /\ u[2] = b /\ u[3] = c
  BY <1>1, ConcatProperties
<1>3. t \in Seq(Nat) /\ Len(t) = 3 /\ t[1] = a /\ t[2] = b /\ t[3] = c
  OBVIOUS
<1> HIDE DEF u, t
<1>4. \A i \in 1 .. Len(u) : u[i] = t[i]
  BY ONLY <1>2, <1>3
<1>5. u = t
  BY ONLY <1>2, <1>3, <1>4, SeqEqual
<1>. QED  BY <1>5 DEF u, t

LEMMA JoinTwoTwo ==
    ASSUME NEW a \in Nat, NEW b \in Nat, NEW c \in Nat, NEW d \in Nat
    PROVE  <<a, b>> \o <<c, d>> = <<a, b, c, d>>
<1>1. /\ <<a, b>> \in Seq(Nat) /\ Len(<<a, b>>) = 2 /\ <<a, b>>[1] = a /\ <<a, b>>[2] = b
      /\ <<c, d>> \in Seq(Nat) /\ Len(<<c, d>>) = 2 /\ <<c, d>>[1] = c /\ <<c, d>>[2] = d
  OBVIOUS
<1> DEFINE u == <<a, b>> \o <<c, d>>
           t == <<a, b, c, d>>
<1>2. u \in Seq(Nat) /\ Len(u) = 4 /\ u[1] = a /\ u[2] = b /\ u[3] = c /\ u[4] = d
  BY <1>1, ConcatProperties
<1>3. t \in Seq(Nat) /\ Len(t) = 4 /\ t[1] = a /\ t[2] = b /\ t[3] = c /\ t[4] = d
  OBVIOUS
<1> HIDE DEF u, t
<1>4. \A i \in 1 .. Len(u) : u[i] = t[i]
  BY ONLY <1>2, <1>3
<1>5. u = t
  BY ONLY <1>2, <1>3, <1>4, SeqEqual
<1>. QED  BY <1>5 DEF u, t

LEMMA JoinTwoOne ==
    ASSUME NEW a \in Nat, NEW b \in Nat, NEW c \in Nat
    PROVE  <<a, b>> \o <<c>> = <<a, b, c>>
<1>1. /\ <<a, b>> \in Seq(Nat) /\ Len(<<a, b>>) = 2 /\ <<a, b>>[1] = a /\ <<a, b>>[2] = b
      /\ <<c>> \in Seq(Nat) /\ Len(<<c>>) = 1 /\ <<c>>[1] = c
  OBVIOUS
<1> DEFINE u == <<a, b>> \o <<c>>
           t == <<a, b, c>>
<1>2. u \in Seq(Nat) /\ Len(u) = 3 /\ u[1] = a /\ u[2] = b /\ u[3] = c
  BY <1>1, ConcatProperties
<1>3. t \in Seq(Nat) /\ Len(t) = 3 /\ t[1] = a /\ t[2] = b /\ t[3] = c
  OBVIOUS
<1> HIDE DEF u, t
<1>4. \A i \in 1 .. Len(u) : u[i] = t[i]
  BY ONLY <1>2, <1>3
<1>5. u = t
  BY ONLY <1>2, <1>3, <1>4, SeqEqual
<1>. QED  BY <1>5 DEF u, t

LEMMA JoinThreeOne ==
    ASSUME NEW a \in Nat, NEW b \in Nat, NEW c \in Nat, NEW d \in Nat
    PROVE  <<a, b, c>> \o <<d>> = <<a, b, c, d>>
<1>1. /\ <<a, b, c>> \in Seq(Nat) /\ Len(<<a, b, c>>) = 3 /\ <<a, b, c>>[1] = a /\ <<a, b, c>>[2] = b /\ <<a, b, c>>[3] = c
      /\ <<d>> \in Seq(Nat) /\ Len(<<d>>) = 1 /\ <<d>>[1] = d
  OBVIOUS
<1> DEFINE u == <<a, b, c>> \o <<d>>
           t == <<a, b, c, d>>
<1>2. u \in Seq(Nat) /\ Len(u) = 4 /\ u[1] = a /\ u[2] = b /\ u[3] = c /\ u[4] = d
  BY <1>1, ConcatProperties
<1>3. t \in Seq(Nat) /\ Len(t) = 4 /\ t[1] = a /\ t[2] = b /\ t[3] = c /\ t[4] = d
  OBVIOUS
<1> HIDE DEF u, t
<1>4. \A i \in 1 .. Len(u) : u[i] = t[i]
  BY ONLY <1>2, <1>3
<1>5. u = t
  BY ONLY <1>2, <1>3, <1>4, SeqEqual
<1>. QED  BY <1>5 DEF u, t

LEMMA JoinFourOne ==
    ASSUME NEW a \in Nat, NEW b \in Nat, NEW c \in Nat, NEW d \in Nat, NEW e \in Nat
    PROVE  <<a, b, c, d>> \o <<e>> = <<a, b, c, d, e>>
<1>1. /\ <<a, b, c, d>> \in Seq(Nat) /\ Len(<<a, b, c, d>>) = 4 /\ <<a, b, c, d>>[1] = a /\ <<a, b, c, d>>[2] = b /\ <<a, b, c, d>>[3] = c /\ <<a, b, c, d>>[4] = d
      /\ <<e>> \in Seq(Nat) /\ Len(<<e>>) = 1 /\ <<e>>[1] = e
  OBVIOUS
<1> DEFINE u == <<a, b, c, d>> \o <<e>>
           t == <<a, b, c, d, e>>
<1>2. u \in Seq(Nat) /\ Len(u) = 5 /\ u[1] = a /\ u[2] = b /\ u[3] = c /\ u[4] = d /\ u[5] = e
  BY <1>1, ConcatProperties
<1>3. t \in Seq(Nat) /\ Len(t) = 5 /\ t[1] = a /\ t[2] = b /\ t[3] = c /\ t[4] = d /\ t[5] = e
  OBVIOUS
<1> HIDE DEF u, t
<1>4. \A i \in 1 .. Len(u) : u[i] = t[i]
  BY ONLY <1>2, <1>3
<1>5. u = t
  BY ONLY <1>2, <1>3, <1>4, SeqEqual
<1>. QED  BY <1>5 DEF u, t

\* What follows the IDs.
Body(p) == AddProperties(p.properties) \o
              (IF p.payload = <<>> THEN <<0, p.status>> ELSE <<Len(p.payload)>> \o p.payload)

LEMMA BodyIs ==
    ASSUME NEW p \in Shows
    PROVE  \/ p.properties = <<>> /\ p.payload = <<>> /\ Body(p) = <<0, 0, p.status>>
           \/ p.properties = <<9>> /\ p.payload = <<>> /\ Body(p) = <<1, 9, 0, p.status>>
           \/ \E n \in Nat : /\ p.properties = <<>> /\ p.payload = <<n>> /\ p.status = 0
                             /\ Body(p) = <<0, 1, n>>
           \/ \E n \in Nat : /\ p.properties = <<9>> /\ p.payload = <<n>> /\ p.status = 0
                             /\ Body(p) = <<1, 9, 1, n>>
<1>1. p.properties = <<>> \/ p.properties = <<9>>
  BY DEF Shows
<1>2. AddProperties(<<>>) = <<0>> /\ AddProperties(<<9>>) = <<1, 9>>
  <2>1. Len(<<>>) = 0 /\ Len(<<9>>) = 1 /\ 0 \in Nat /\ 1 \in Nat /\ 9 \in Nat
    OBVIOUS
  <2>2. <<0>> \o <<>> = <<0>> /\ <<1>> \o <<9>> = <<1, 9>>
    BY ONLY <2>1, JoinNone, JoinOneOne
  <2>. QED  BY <2>1, <2>2 DEF AddProperties
<1>3. CASE p.payload = <<>>
  <2>0. p.status \in Nat /\ 0 \in Nat /\ 1 \in Nat /\ 9 \in Nat
    BY DEF Shows
  <2>1. <<0>> \o <<0, p.status>> = <<0, 0, p.status>>
    BY ONLY <2>0, JoinOneTwo
  <2>2. <<1, 9>> \o <<0, p.status>> = <<1, 9, 0, p.status>>
    BY ONLY <2>0, JoinTwoTwo
  <2>. QED  BY <1>1, <1>2, <1>3, <2>1, <2>2 DEF Body
<1>4. CASE p.payload # <<>>
  <2>1. p.status = 0 /\ \E n \in Nat : p.payload = <<n>>
    BY <1>4 DEF Shows
  <2>2. PICK n \in Nat : p.payload = <<n>>
    BY <2>1
  <2>3. <<Len(p.payload)>> \o p.payload = <<1, n>>
    <3>1. Len(p.payload) = 1 /\ 1 \in Nat
      BY <2>2
    <3>2. <<1>> \o <<n>> = <<1, n>>
      BY ONLY <3>1, n \in Nat, JoinOneOne
    <3>. QED  BY <2>2, <3>1, <3>2
  <2>4. <<0>> \o <<1, n>> = <<0, 1, n>> /\ <<1, 9>> \o <<1, n>> = <<1, 9, 1, n>>
    <3>1. 0 \in Nat /\ 1 \in Nat /\ 9 \in Nat /\ n \in Nat
      OBVIOUS
    <3>2. <<0>> \o <<1, n>> = <<0, 1, n>>
      BY ONLY <3>1, JoinOneTwo
    <3>3. <<1, 9>> \o <<1, n>> = <<1, 9, 1, n>>
      BY ONLY <3>1, JoinTwoTwo
    <3>. QED  BY <3>2, <3>3
  <2>. QED  BY <1>1, <1>2, <1>4, <2>1, <2>2, <2>3, <2>4 DEF Body
<1>. QED  BY <1>3, <1>4

LEMMA BodySeq ==
    ASSUME NEW p \in Shows
    PROVE  Body(p) \in Seq(Nat) /\ Len(Body(p)) \in Nat /\ Len(Body(p)) >= 3
<1>1. p.status \in Nat
  BY DEF Shows
<1>2. CASE Body(p) = <<0, 0, p.status>>
  BY <1>1, <1>2
<1>3. CASE Body(p) = <<1, 9, 0, p.status>>
  BY <1>1, <1>3
<1>4. ASSUME NEW n \in Nat, Body(p) = <<0, 1, n>> PROVE Body(p) \in Seq(Nat) /\ Len(Body(p)) \in Nat /\ Len(Body(p)) >= 3
  BY <1>4
<1>5. ASSUME NEW n \in Nat, Body(p) = <<1, 9, 1, n>> PROVE Body(p) \in Seq(Nat) /\ Len(Body(p)) \in Nat /\ Len(Body(p)) >= 3
  BY <1>5
<1>6. \/ Body(p) = <<0, 0, p.status>> \/ Body(p) = <<1, 9, 0, p.status>>
      \/ \E n \in Nat : Body(p) = <<0, 1, n>>
      \/ \E n \in Nat : Body(p) = <<1, 9, 1, n>>
  BY BodyIs
<1>. QED  BY <1>2, <1>3, <1>4, <1>5, <1>6, Zenon

LEMMA OneOf ==
    ASSUME NEW b \in Seq(Nat), NEW i \in 1 .. Len(b)
    PROVE  SubSeq(b, i, i) = <<b[i]>> /\ SubSeq(b, i + 1, i) = <<>>
<1>1. Len(b) \in Nat /\ b[i] \in Nat
  OBVIOUS
<1>2. SubSeq(b, i, i) \in Seq(Nat) /\ Len(SubSeq(b, i, i)) = 1 /\ SubSeq(b, i, i)[1] = b[i]
  BY <1>1, SubSeqProperties
<1>3. <<b[i]>> \in Seq(Nat) /\ Len(<<b[i]>>) = 1 /\ <<b[i]>>[1] = b[i]
  BY <1>1
<1>4. SubSeq(b, i, i) = <<b[i]>>
  <2> DEFINE u == SubSeq(b, i, i)
             t == <<b[i]>>
  <2>1. \A j \in 1 .. Len(u) : u[j] = t[j]
    BY <1>2, <1>3
  <2>2. Len(u) = Len(t) /\ u \in Seq(Nat) /\ t \in Seq(Nat)
    BY <1>2, <1>3
  <2> HIDE DEF u, t
  <2>3. u = t
    BY ONLY <2>1, <2>2, SeqEqual
  <2>. QED  BY <2>3 DEF u, t
<1>5. SubSeq(b, i + 1, i) = <<>>
  BY <1>1, SubSeqProperties, EmptySeq
<1>. QED  BY <1>4, <1>5

\* The length of the properties ends at j, v is the length of the payload, after k.
RestAt(b, i, j, v, k) ==
    /\ b \in Seq(Nat) /\ i \in Nat /\ j \in Nat /\ v \in Nat /\ k \in Nat
    /\ i + 1 < Len(b) /\ b[i + 1] < Len(b) - (i + 1) /\ j = i + 1 + b[i + 1]
    /\ j + 1 < Len(b) /\ v = b[j + 1] /\ v <= Len(b) - k
    /\ k = IF v = 0 THEN j + 2 ELSE j + 1

Rest(b, i, j, v, k) ==
    [properties |-> SubSeq(b, i + 2, j), status |-> IF v = 0 THEN b[j + 2] ELSE 0,
     payload |-> SubSeq(b, k + 1, k + v), end |-> k + v]

LEMMA RestParts ==
    \A b, i, j, v, k : RestAt(b, i, j, v, k) => RestOfObject(b, i, TRUE) = Rest(b, i, j, v, k)
<1> SUFFICES ASSUME NEW b, NEW i, NEW j, NEW v, NEW k, RestAt(b, i, j, v, k)
             PROVE  RestOfObject(b, i, TRUE) = Rest(b, i, j, v, k)
  OBVIOUS
<1>1. /\ b \in Seq(Nat) /\ i \in Nat /\ j \in Nat /\ v \in Nat /\ k \in Nat
      /\ i + 1 < Len(b) /\ b[i + 1] < Len(b) - (i + 1) /\ j = i + 1 + b[i + 1]
      /\ j + 1 < Len(b) /\ v = b[j + 1] /\ v <= Len(b) - k
      /\ k = IF v = 0 THEN j + 2 ELSE j + 1
  BY DEF RestAt
<1>2. Len(b) \in Nat
  BY <1>1
<1> DEFINE n == Len(b)
<1>3. j + 1 < n /\ v <= n - k /\ n \in Nat
  BY <1>1, <1>2
<1> HIDE DEF n
<1>4. ~(j + 1 >= n) /\ ~(v > n - k)
  <2>1. j \in Nat /\ v \in Nat /\ k \in Nat
    BY <1>1
  <2>. QED  BY ONLY <1>3, <2>1
<1> USE DEF n
<1>. QED  BY <1>1, <1>4 DEF RestOfObject, Rest

\* The fields f behind the i-th, as far as they are there.
Behind(b, i, f) == \A j \in 1 .. Len(f) : i + j <= Len(b) => b[i + j] = f[j]

IsThree(b, i, f, x, y, z) == f = <<x, y, z>> /\ Behind(b, i, f)
IsFour(b, i, f, x, y, z, u) == f = <<x, y, z, u>> /\ Behind(b, i, f)
HasThree(b, i, f, x, y, z) ==
    /\ Len(f) = 3
    /\ i + 1 <= Len(b) => b[i + 1] = x
    /\ i + 2 <= Len(b) => b[i + 2] = y
    /\ i + 3 <= Len(b) => b[i + 3] = z
HasFour(b, i, f, x, y, z, u) ==
    /\ Len(f) = 4
    /\ i + 1 <= Len(b) => b[i + 1] = x
    /\ i + 2 <= Len(b) => b[i + 2] = y
    /\ i + 3 <= Len(b) => b[i + 3] = z
    /\ i + 4 <= Len(b) => b[i + 4] = u

LEMMA BehindThree ==
    ASSUME NEW b, NEW i, NEW f, NEW x, NEW y, NEW z, IsThree(b, i, f, x, y, z)
    PROVE  HasThree(b, i, f, x, y, z)
<1>a. f = <<x, y, z>> /\ Behind(b, i, f)
  BY DEF IsThree
<1>1. Len(f) = 3 /\ f[1] = x /\ f[2] = y /\ f[3] = z
  BY <1>a
<1>2. 1 \in 1 .. 3 /\ 2 \in 1 .. 3 /\ 3 \in 1 .. 3
  OBVIOUS
<1>3. \A j \in 1 .. 3 : i + j <= Len(b) => b[i + j] = f[j]
  BY ONLY <1>a, <1>1 DEF Behind
<1>. QED  BY ONLY <1>1, <1>2, <1>3 DEF HasThree

LEMMA BehindFour ==
    ASSUME NEW b, NEW i, NEW f, NEW x, NEW y, NEW z, NEW u, IsFour(b, i, f, x, y, z, u)
    PROVE  HasFour(b, i, f, x, y, z, u)
<1>a. f = <<x, y, z, u>> /\ Behind(b, i, f)
  BY DEF IsFour
<1>1. Len(f) = 4 /\ f[1] = x /\ f[2] = y /\ f[3] = z /\ f[4] = u
  BY <1>a
<1>2. 1 \in 1 .. 4 /\ 2 \in 1 .. 4 /\ 3 \in 1 .. 4 /\ 4 \in 1 .. 4
  OBVIOUS
<1>3. \A j \in 1 .. 4 : i + j <= Len(b) => b[i + j] = f[j]
  BY ONLY <1>a, <1>1 DEF Behind
<1>. QED  BY ONLY <1>1, <1>2, <1>3 DEF HasFour

\* The length of the properties or of the payload is not there.
LEMMA RestCut ==
    ASSUME NEW b, NEW i, NEW j, j = i + 1 + b[i + 1],
           ~(i + 1 < Len(b) /\ b[i + 1] < Len(b) - (i + 1)) \/ j + 1 >= Len(b)
    PROVE  RestOfObject(b, i, TRUE) = None
BY DEF RestOfObject

LEMMA RestCutAt ==
    ASSUME NEW b, NEW i \in Nat, NEW m \in 0 .. 1, Len(b) \in Nat, i + 1 <= Len(b) => b[i + 1] = m,
           Len(b) < i + 3 + m
    PROVE  RestOfObject(b, i, TRUE) = None
<1>1. CASE i + 1 < Len(b) /\ b[i + 1] < Len(b) - (i + 1)
  <2>1. b[i + 1] = m
    BY <1>1
  <2>2. i + 1 + m + 1 >= Len(b)
    BY ONLY <1>1, <2>1, i \in Nat, m \in 0 .. 1, Len(b) \in Nat, Len(b) < i + 3 + m
  <2>. QED  BY ONLY <2>1, <2>2, RestCut
<1>2. CASE ~(i + 1 < Len(b) /\ b[i + 1] < Len(b) - (i + 1))
  BY ONLY <1>2, RestCut
<1>. QED  BY <1>1, <1>2

(* imquic_moq_parse_subgroup_header_object and                              *)
(* imquic_moq_parse_fetch_header_object: what follows the IDs is read as it *)
(* was written, once it is all there.                                       *)
LEMMA RestRead ==
    ASSUME NEW b \in Seq(Nat), NEW i \in Nat \ {0}, NEW p \in Shows,
           \A j \in 1 .. Len(Body(p)) : i + j <= Len(b) => b[i + j] = Body(p)[j]
    PROVE  /\ Len(b) < i + Len(Body(p)) => RestOfObject(b, i, TRUE) = None
           /\ Len(b) >= i + Len(Body(p)) =>
                 RestOfObject(b, i, TRUE) =
                    [properties |-> p.properties, status |-> p.status, payload |-> p.payload,
                     end |-> i + Len(Body(p))]
<1>1. Len(b) \in Nat /\ i \in Nat
  OBVIOUS
<1>b. Behind(b, i, Body(p))
  BY DEF Behind
<1>2. CASE p.properties = <<>> /\ p.payload = <<>> /\ Body(p) = <<0, 0, p.status>>
  <2>1. /\ Len(Body(p)) = 3
        /\ i + 1 <= Len(b) => b[i + 1] = 0
        /\ i + 2 <= Len(b) => b[i + 2] = 0
        /\ i + 3 <= Len(b) => b[i + 3] = p.status
    <3>1. IsThree(b, i, Body(p), 0, 0, p.status)
      BY ONLY <1>b, <1>2 DEF IsThree
    <3>2. HasThree(b, i, Body(p), 0, 0, p.status)
      BY ONLY <3>1, BehindThree
    <3>. QED  BY ONLY <3>2 DEF HasThree
  <2>2. ASSUME Len(b) < i + 3 PROVE RestOfObject(b, i, TRUE) = None
    <3>1. 0 \in 0 .. 1 /\ i + 3 + 0 = i + 3
      BY ONLY <1>1
    <3>. QED  BY ONLY <1>1, <2>1, <2>2, <3>1, RestCutAt
  <2>3. ASSUME Len(b) >= i + 3
        PROVE  RestOfObject(b, i, TRUE) = [properties |-> <<>>, status |-> p.status, payload |-> <<>>, end |-> i + 3]
    <3>1. SubSeq(b, i + 2, i + 1) = <<>> /\ SubSeq(b, i + 3 + 1, i + 3) = <<>>
      BY <1>1, <2>3, OneOf
    <3>2. i + 1 + 0 = i + 1 /\ (i + 1) + 1 = i + 2 /\ (i + 1) + 2 = i + 3 /\ i + 3 + 0 = i + 3
      OBVIOUS
    <3> DEFINE j == i + 1
               v == 0
               k == i + 3
    <3>3. RestAt(b, i, j, v, k)
      <4>1. j \in Nat /\ v \in Nat /\ k \in Nat /\ i \in Nat
        OBVIOUS
      <4>2. i + 1 < Len(b) /\ j + 1 < Len(b) /\ v <= Len(b) - k /\ k = IF v = 0 THEN j + 2 ELSE j + 1
        BY <1>1, <2>3
      <4>3. b[i + 1] < Len(b) - (i + 1) /\ j = i + 1 + b[i + 1] /\ v = b[j + 1]
        <5>1. i + 1 <= Len(b) /\ i + 2 <= Len(b) /\ i + 3 <= Len(b)
          BY ONLY <1>1, <2>3
        <5>2. b[i + 1] < Len(b) - (i + 1)
          BY ONLY <1>1, <2>1, <2>3, <5>1
        <5>. QED  BY ONLY <2>1, <3>2, <5>1, <5>2 DEF j, v
      <4>. QED  BY <4>1, <4>2, <4>3 DEF RestAt
    <3> HIDE DEF j, v, k
    <3>4. RestOfObject(b, i, TRUE) = Rest(b, i, j, v, k)
      BY <3>3, RestParts
    <3>. QED  BY <1>1, <2>1, <2>3, <3>1, <3>2, <3>4 DEF j, v, k, Rest
  <2>. QED  BY <1>2, <2>1, <2>2, <2>3
<1>3. CASE p.properties = <<9>> /\ p.payload = <<>> /\ Body(p) = <<1, 9, 0, p.status>>
  <2>1. /\ Len(Body(p)) = 4
        /\ i + 1 <= Len(b) => b[i + 1] = 1
        /\ i + 2 <= Len(b) => b[i + 2] = 9
        /\ i + 3 <= Len(b) => b[i + 3] = 0
        /\ i + 4 <= Len(b) => b[i + 4] = p.status
    <3>1. IsFour(b, i, Body(p), 1, 9, 0, p.status)
      BY ONLY <1>b, <1>3 DEF IsFour
    <3>2. HasFour(b, i, Body(p), 1, 9, 0, p.status)
      BY ONLY <3>1, BehindFour
    <3>. QED  BY ONLY <3>2 DEF HasFour
  <2>2. ASSUME Len(b) < i + 4 PROVE RestOfObject(b, i, TRUE) = None
    <3>1. 1 \in 0 .. 1 /\ i + 3 + 1 = i + 4
      BY ONLY <1>1
    <3>. QED  BY ONLY <1>1, <2>1, <2>2, <3>1, RestCutAt
  <2>3. ASSUME Len(b) >= i + 4
        PROVE  RestOfObject(b, i, TRUE) = [properties |-> <<9>>, status |-> p.status, payload |-> <<>>, end |-> i + 4]
    <3>1. SubSeq(b, i + 2, i + 2) = <<9>> /\ SubSeq(b, i + 4 + 1, i + 4) = <<>>
      BY <1>1, <2>1, <2>3, OneOf
    <3>2. i + 1 + 1 = i + 2 /\ (i + 2) + 1 = i + 3 /\ (i + 2) + 2 = i + 4 /\ i + 4 + 0 = i + 4
      OBVIOUS
    <3> DEFINE j == i + 2
               v == 0
               k == i + 4
    <3>3. RestAt(b, i, j, v, k)
      <4>1. j \in Nat /\ v \in Nat /\ k \in Nat /\ i \in Nat
        OBVIOUS
      <4>2. i + 1 < Len(b) /\ j + 1 < Len(b) /\ v <= Len(b) - k /\ k = IF v = 0 THEN j + 2 ELSE j + 1
        BY <1>1, <2>3
      <4>3. b[i + 1] < Len(b) - (i + 1) /\ j = i + 1 + b[i + 1] /\ v = b[j + 1]
        <5>1. i + 1 <= Len(b) /\ i + 2 <= Len(b) /\ i + 3 <= Len(b)
          BY ONLY <1>1, <2>3
        <5>2. b[i + 1] < Len(b) - (i + 1)
          BY ONLY <1>1, <2>1, <2>3, <5>1
        <5>. QED  BY ONLY <2>1, <3>2, <5>1, <5>2 DEF j, v
      <4>. QED  BY <4>1, <4>2, <4>3 DEF RestAt
    <3> HIDE DEF j, v, k
    <3>4. RestOfObject(b, i, TRUE) = Rest(b, i, j, v, k)
      BY <3>3, RestParts
    <3>. QED  BY <1>1, <2>1, <2>3, <3>1, <3>2, <3>4 DEF j, v, k, Rest
  <2>. QED  BY <1>3, <2>1, <2>2, <2>3
<1>4. ASSUME NEW n \in Nat, p.properties = <<>>, p.payload = <<n>>, p.status = 0, Body(p) = <<0, 1, n>>
      PROVE  /\ Len(b) < i + 3 => RestOfObject(b, i, TRUE) = None
             /\ Len(b) >= i + 3 => RestOfObject(b, i, TRUE) =
                   [properties |-> <<>>, status |-> 0, payload |-> <<n>>, end |-> i + 3]
             /\ Len(Body(p)) = 3
  <2>1. /\ Len(Body(p)) = 3
        /\ i + 1 <= Len(b) => b[i + 1] = 0
        /\ i + 2 <= Len(b) => b[i + 2] = 1
        /\ i + 3 <= Len(b) => b[i + 3] = n
    <3>1. IsThree(b, i, Body(p), 0, 1, n)
      BY ONLY <1>b, <1>4 DEF IsThree
    <3>2. HasThree(b, i, Body(p), 0, 1, n)
      BY ONLY <3>1, BehindThree
    <3>. QED  BY ONLY <3>2 DEF HasThree
  <2>2. ASSUME Len(b) < i + 3 PROVE RestOfObject(b, i, TRUE) = None
    <3>1. 0 \in 0 .. 1 /\ i + 3 + 0 = i + 3
      BY ONLY <1>1
    <3>. QED  BY ONLY <1>1, <2>1, <2>2, <3>1, RestCutAt
  <2>3. ASSUME Len(b) >= i + 3
        PROVE  RestOfObject(b, i, TRUE) = [properties |-> <<>>, status |-> 0, payload |-> <<n>>, end |-> i + 3]
    <3>1. SubSeq(b, i + 2, i + 1) = <<>> /\ SubSeq(b, i + 3, i + 3) = <<n>>
      BY <1>1, <2>1, <2>3, OneOf
    <3>2. /\ i + 1 + 0 = i + 1 /\ (i + 1) + 1 = i + 2 /\ (i + 2) + 1 = i + 3
      OBVIOUS
    <3> DEFINE j == i + 1
               v == 1
               k == i + 2
    <3>3. RestAt(b, i, j, v, k)
      <4>1. j \in Nat /\ v \in Nat /\ k \in Nat /\ i \in Nat
        OBVIOUS
      <4>2. i + 1 < Len(b) /\ j + 1 < Len(b) /\ v <= Len(b) - k /\ k = IF v = 0 THEN j + 2 ELSE j + 1
        BY <1>1, <2>3
      <4>3. b[i + 1] < Len(b) - (i + 1) /\ j = i + 1 + b[i + 1] /\ v = b[j + 1]
        <5>1. i + 1 <= Len(b) /\ i + 2 <= Len(b) /\ i + 3 <= Len(b)
          BY ONLY <1>1, <2>3
        <5>2. b[i + 1] < Len(b) - (i + 1)
          BY ONLY <1>1, <2>1, <2>3, <5>1
        <5>. QED  BY ONLY <2>1, <3>2, <5>1, <5>2 DEF j, v
      <4>. QED  BY <4>1, <4>2, <4>3 DEF RestAt
    <3> HIDE DEF j, v, k
    <3>4. RestOfObject(b, i, TRUE) = Rest(b, i, j, v, k)
      BY <3>3, RestParts
    <3>. QED  BY <1>1, <2>1, <2>3, <3>1, <3>2, <3>4 DEF j, v, k, Rest
  <2>. QED  BY <2>1, <2>2, <2>3
<1>5. ASSUME NEW n \in Nat, p.properties = << 9 >>, p.payload = <<n>>, p.status = 0, Body(p) = <<1, 9, 1, n>>
      PROVE  /\ Len(b) < i + 4 => RestOfObject(b, i, TRUE) = None
             /\ Len(b) >= i + 4 => RestOfObject(b, i, TRUE) =
                   [properties |-> <<9>>, status |-> 0, payload |-> <<n>>, end |-> i + 4]
             /\ Len(Body(p)) = 4
  <2>1. /\ Len(Body(p)) = 4
        /\ i + 1 <= Len(b) => b[i + 1] = 1
        /\ i + 2 <= Len(b) => b[i + 2] = 9
        /\ i + 3 <= Len(b) => b[i + 3] = 1
        /\ i + 4 <= Len(b) => b[i + 4] = n
    <3>1. IsFour(b, i, Body(p), 1, 9, 1, n)
      BY ONLY <1>b, <1>5 DEF IsFour
    <3>2. HasFour(b, i, Body(p), 1, 9, 1, n)
      BY ONLY <3>1, BehindFour
    <3>. QED  BY ONLY <3>2 DEF HasFour
  <2>2. ASSUME Len(b) < i + 4 PROVE RestOfObject(b, i, TRUE) = None
    <3>1. 1 \in 0 .. 1 /\ i + 3 + 1 = i + 4
      BY ONLY <1>1
    <3>. QED  BY ONLY <1>1, <2>1, <2>2, <3>1, RestCutAt
  <2>3. ASSUME Len(b) >= i + 4
        PROVE  RestOfObject(b, i, TRUE) = [properties |-> <<9>>, status |-> 0, payload |-> <<n>>, end |-> i + 4]
    <3>1. SubSeq(b, i + 2, i + 2) = <<9>> /\ SubSeq(b, i + 4, i + 4) = <<n>>
      <4>1. i + 2 \in 1 .. Len(b) /\ i + 4 \in 1 .. Len(b)
        BY ONLY <1>1, <2>3
      <4>2. b[i + 2] = 9 /\ b[i + 4] = n
        BY ONLY <1>1, <2>1, <2>3
      <4>3. SubSeq(b, i + 2, i + 2) = <<b[i + 2]>> /\ SubSeq(b, i + 4, i + 4) = <<b[i + 4]>>
        BY <4>1, OneOf
      <4>. QED  BY ONLY <4>2, <4>3
    <3>2. /\ i + 1 + 1 = i + 2 /\ (i + 2) + 1 = i + 3 /\ (i + 3) + 1 = i + 4
      OBVIOUS
    <3> DEFINE j == i + 2
               v == 1
               k == i + 3
    <3>3. RestAt(b, i, j, v, k)
      <4>1. j \in Nat /\ v \in Nat /\ k \in Nat /\ i \in Nat
        OBVIOUS
      <4>2. i + 1 < Len(b) /\ j + 1 < Len(b) /\ v <= Len(b) - k /\ k = IF v = 0 THEN j + 2 ELSE j + 1
        BY <1>1, <2>3
      <4>3. b[i + 1] < Len(b) - (i + 1) /\ j = i + 1 + b[i + 1] /\ v = b[j + 1]
        <5>1. i + 1 <= Len(b) /\ i + 2 <= Len(b) /\ i + 3 <= Len(b)
          BY ONLY <1>1, <2>3
        <5>2. b[i + 1] < Len(b) - (i + 1)
          BY ONLY <1>1, <2>1, <2>3, <5>1
        <5>. QED  BY ONLY <2>1, <3>2, <5>1, <5>2 DEF j, v
      <4>. QED  BY <4>1, <4>2, <4>3 DEF RestAt
    <3> HIDE DEF j, v, k
    <3>4. RestOfObject(b, i, TRUE) = Rest(b, i, j, v, k)
      BY <3>3, RestParts
    <3>. QED  BY <1>1, <2>1, <2>3, <3>1, <3>2, <3>4 DEF j, v, k, Rest
  <2>. QED  BY <2>1, <2>2, <2>3
<1>6. CASE \E n \in Nat : /\ p.properties = <<>> /\ p.payload = <<n>> /\ p.status = 0
                          /\ Body(p) = <<0, 1, n>>
  BY <1>4, <1>6
<1>7. CASE \E n \in Nat : /\ p.properties = <<9>> /\ p.payload = <<n>> /\ p.status = 0
                          /\ Body(p) = <<1, 9, 1, n>>
  BY <1>5, <1>7
<1>. QED  BY <1>2, <1>3, <1>6, <1>7, BodyIs

-----------------------------------------------------------------------------
(* An object behind another one.                                             *)

\* What a stream's last IDs are behind its first k objects.
Before(ps, k) == IF k = 0 THEN [got |-> FALSE, group |-> 0, id |-> 0]
                 ELSE [got |-> TRUE, group |-> ps[k].group, id |-> ps[k].id]
Marks == [got : BOOLEAN, group : Nat, id : Nat]

\* An object that may be sent behind another one.
Follows(fetch, prev, p) ==
    /\ prev \in Marks /\ p \in Shows
    /\ fetch => /\ p.group < Wrap /\ p.id < Wrap
                /\ prev.got => /\ prev.group < Wrap /\ prev.id < Wrap
                               /\ p.group # prev.group \/ p.id # prev.id
    /\ ~fetch => IF prev.got THEN p.id > prev.id ELSE prev.id = 0

SameGroup(prev, p) == Version >= 18 /\ prev.got /\ p.group = prev.group
Skip(prev, p) == (p.id - prev.id) % Wrap
GroupField(prev, p) ==
    IF Version < 18 \/ ~prev.got THEN p.group
    ELSE (IF OkAscending THEN p.group - prev.group ELSE prev.group - p.group) % Wrap

\* What is written of its IDs.
Ids(fetch, prev, p) ==
    IF ~fetch THEN <<p.id - prev.id - Flag(prev.got, 1)>>
    ELSE IF ~SameGroup(prev, p) THEN <<63, GroupField(prev, p), p.subgroup, p.id, PRIORITY>>
    ELSE IF Skip(prev, p) > 1 THEN <<55, p.subgroup, Skip(prev, p), PRIORITY>>
    ELSE <<51, p.subgroup, PRIORITY>>

Frame(fetch, prev, p) == Ids(fetch, prev, p) \o Body(p)

LEMMA IdsSeq ==
    ASSUME NEW fetch \in BOOLEAN, NEW prev, NEW p, Follows(fetch, prev, p)
    PROVE  Ids(fetch, prev, p) \in Seq(Nat) /\ Len(Ids(fetch, prev, p)) \in {1, 3, 4, 5}
<1>1. /\ prev.got \in BOOLEAN /\ prev.group \in Nat /\ prev.id \in Nat
      /\ p.group \in Nat /\ p.subgroup \in Nat /\ p.id \in Nat /\ PRIORITY \in Nat
  BY DEF Follows, Marks, Shows, PRIORITY
<1>2. CASE ~fetch
  <2>1. p.id - prev.id - Flag(prev.got, 1) \in Nat
    BY <1>1, <1>2 DEF Follows, Flag
  <2>. QED  BY <1>2, <2>1 DEF Ids
<1>3. CASE fetch
  <2>1. Wrap \in Nat \ {0}
    BY ObjectsAssumption
  <2>2. Skip(prev, p) \in Nat
    BY <1>1, <2>1, ModIs DEF Skip
  <2>3. GroupField(prev, p) \in Nat
    <3>1. (p.group - prev.group) % Wrap \in Nat /\ (prev.group - p.group) % Wrap \in Nat
      <4>1. /\ p.group - prev.group \in Int /\ prev.group - p.group \in Int
            /\ \A n \in 0 .. Wrap - 1 : n \in Nat
        BY <1>1, <2>1
      <4>2. (p.group - prev.group) % Wrap \in 0 .. Wrap - 1
        BY ONLY <2>1, <4>1, ModIs
      <4>3. (prev.group - p.group) % Wrap \in 0 .. Wrap - 1
        BY ONLY <2>1, <4>1, ModIs
      <4>. QED  BY ONLY <4>1, <4>2, <4>3
    <3>. QED  BY <1>1, <3>1 DEF GroupField
  <2>. QED  BY <1>1, <1>3, <2>2, <2>3 DEF Ids
<1>. QED  BY <1>2, <1>3

\* The fields of a frame.
FrameOf(fetch, prev, p, f) ==
    LET a == Ids(fetch, prev, p)
        b == Body(p) IN
    /\ f \in Seq(Nat) /\ Len(f) \in Nat /\ Len(f) >= 4 /\ Len(f) = Len(a) + Len(b)
    /\ a \in Seq(Nat) /\ Len(a) \in {1, 3, 4, 5} /\ b \in Seq(Nat) /\ Len(b) \in Nat /\ Len(b) >= 3
    /\ \A j \in 1 .. Len(a) : f[j] = a[j]
    /\ \A j \in 1 .. Len(b) : f[Len(a) + j] = b[j]

LEMMA FrameIs ==
    ASSUME NEW fetch \in BOOLEAN, NEW prev, NEW p, Follows(fetch, prev, p)
    PROVE  FrameOf(fetch, prev, p, Frame(fetch, prev, p))
<1> DEFINE a == Ids(fetch, prev, p)
           b == Body(p)
           f == a \o b
<1>1. p \in Shows
  BY DEF Follows
<1>2. a \in Seq(Nat) /\ Len(a) \in {1, 3, 4, 5}
  BY IdsSeq
<1>3. b \in Seq(Nat) /\ Len(b) \in Nat /\ Len(b) >= 3
  BY <1>1, BodySeq
<1> HIDE DEF a, b
<1>4. f \in Seq(Nat) /\ Len(f) = Len(a) + Len(b)
  BY <1>2, <1>3, ConcatProperties
<1>5. Len(a) \in Nat /\ Len(a) >= 1
  BY <1>2
<1>6. \A j \in 1 .. Len(a) : f[j] = a[j]
  BY <1>2, <1>3, <1>5, ConcatProperties
<1>7. \A j \in 1 .. Len(b) : f[Len(a) + j] = b[j]
  BY <1>2, <1>3, <1>5, ConcatProperties
<1> HIDE DEF f
<1>8. Len(f) \in Nat /\ Len(f) >= 4
  BY <1>3, <1>4, <1>5
<1>9. Frame(fetch, prev, p) = f
  BY DEF Frame, f, a, b
<1>. QED  BY <1>2, <1>3, <1>4, <1>6, <1>7, <1>8, <1>9 DEF FrameOf, a, b

-----------------------------------------------------------------------------
(* What is read of an object.                                                *)

\* A reader of a stream that is behind an object.
Ready(fetch, prev, x) ==
    /\ x \in SubscriberStreams /\ x.got = prev.got /\ x.lastObject = prev.id
    /\ IF fetch THEN x.type = FETCH_HEADER /\ x.lastGroup = prev.group /\ x.ascending = OkAscending
       ELSE x.type = Ordinary /\ x.priority = PRIORITY

WithEnd(p, c) ==
    [group |-> p.group, subgroup |-> p.subgroup, id |-> p.id, status |-> p.status,
     priority |-> PRIORITY, payload |-> p.payload, properties |-> p.properties, eos |-> c]

\* The reader y is x behind the object p of n fields.
Moved(fetch, x, p, c, n, y) ==
    /\ y \in SubscriberStreams /\ y.type = x.type /\ y.group = x.group /\ y.subgroup = x.subgroup
    /\ y.priority = x.priority /\ y.ascending = x.ascending /\ y.parsed = x.parsed
    /\ y.got = TRUE /\ y.lastObject = p.id /\ (fetch => y.lastGroup = p.group)
    /\ y.closed = (x.closed \/ c) /\ y.buffer = SubSeq(x.buffer, n + 1, Len(x.buffer))

\* An object is taken once all its fields are there, and no field before.
ReadIs(fetch, x, p, c, n, r) ==
    /\ Len(x.buffer) < n => r.res = "more" /\ r.x = x
    /\ Len(x.buffer) >= n => /\ r.res = "ok" /\ r.object = WithEnd(p, c)
                             /\ Moved(fetch, x, p, c, n, r.x)

Begins(b, f) == \A j \in 1 .. Len(f) : j <= Len(b) => b[j] = f[j]

LEMMA FieldsOf ==
    ASSUME NEW x \in SubscriberStreams
    PROVE  /\ x.type \in Nat /\ x.group \in Nat /\ x.subgroup \in Nat /\ x.priority \in Nat
           /\ x.first \in BOOLEAN /\ x.ascending \in BOOLEAN /\ x.parsed \in BOOLEAN
           /\ x.buffer \in Seq(Nat) /\ Len(x.buffer) \in Nat /\ x.got \in BOOLEAN
           /\ x.lastGroup \in Nat /\ x.lastObject \in Nat /\ x.lastPriority \in Nat
           /\ x.closed \in BOOLEAN
<1>1. x.buffer \in Seq(Nat)
  BY DEF SubscriberStreams
<1>. QED  BY <1>1, LenProperties DEF SubscriberStreams

\* What is left of a buffer.
LEMMA LeftOf ==
    ASSUME NEW b \in Seq(Nat), NEW n \in 0 .. Len(b)
    PROVE  /\ SubSeq(b, n + 1, Len(b)) \in Seq(Nat) /\ Len(SubSeq(b, n + 1, Len(b))) = Len(b) - n
           /\ \A j \in 1 .. Len(b) - n : SubSeq(b, n + 1, Len(b))[j] = b[n + j]
OBVIOUS

SubgroupNext(x, p, c, n) ==
    [x EXCEPT !.subgroup = x.subgroup, !.got = TRUE, !.lastObject = p.id,
              !.buffer = SubSeq(x.buffer, n + 1, Len(x.buffer)), !.closed = @ \/ c]

LEMMA SubgroupMoved ==
    ASSUME NEW x \in SubscriberStreams, NEW p \in Shows, NEW c \in BOOLEAN, NEW n \in 0 .. Len(x.buffer)
    PROVE  Moved(FALSE, x, p, c, n, SubgroupNext(x, p, c, n))
<1> DEFINE d == SubSeq(x.buffer, n + 1, Len(x.buffer))
           z == x.closed \/ c
           y == [x EXCEPT !.subgroup = x.subgroup, !.got = TRUE, !.lastObject = p.id, !.buffer = d,
                          !.closed = z]
<1>1. p.id \in Nat /\ x.subgroup \in Nat /\ d \in Seq(Nat) /\ z \in BOOLEAN
  BY FieldsOf, LeftOf DEF Shows
<1>2. SubgroupNext(x, p, c, n) = y
  BY DEF SubgroupNext
<1> HIDE DEF d, z
<1>3. y \in SubscriberStreams
  BY <1>1 DEF SubscriberStreams
<1>4. /\ y.type = x.type /\ y.group = x.group /\ y.subgroup = x.subgroup
      /\ y.priority = x.priority /\ y.ascending = x.ascending /\ y.parsed = x.parsed
      /\ y.got = TRUE /\ y.lastObject = p.id /\ y.closed = z /\ y.buffer = d
  BY <1>1 DEF SubscriberStreams
<1> HIDE DEF y
<1>. QED  BY <1>2, <1>3, <1>4 DEF Moved, d, z

FetchNext(x, p, c, n) ==
    [x EXCEPT !.got = TRUE, !.lastGroup = p.group, !.lastObject = p.id, !.lastPriority = PRIORITY,
              !.closed = @ \/ c, !.buffer = SubSeq(x.buffer, n + 1, Len(x.buffer))]

LEMMA FetchMoved ==
    ASSUME NEW x \in SubscriberStreams, NEW p \in Shows, NEW c \in BOOLEAN, NEW n \in 0 .. Len(x.buffer)
    PROVE  Moved(TRUE, x, p, c, n, FetchNext(x, p, c, n))
<1> DEFINE d == SubSeq(x.buffer, n + 1, Len(x.buffer))
           z == x.closed \/ c
           y == [x EXCEPT !.got = TRUE, !.lastGroup = p.group, !.lastObject = p.id,
                          !.lastPriority = PRIORITY, !.closed = z, !.buffer = d]
<1>1. p.id \in Nat /\ p.group \in Nat /\ PRIORITY \in Nat /\ d \in Seq(Nat) /\ z \in BOOLEAN
  BY FieldsOf, LeftOf DEF Shows, PRIORITY
<1>2. FetchNext(x, p, c, n) = y
  BY DEF FetchNext
<1> HIDE DEF d, z
<1>3. y \in SubscriberStreams
  BY <1>1 DEF SubscriberStreams
<1>4. /\ y.type = x.type /\ y.group = x.group /\ y.subgroup = x.subgroup
      /\ y.priority = x.priority /\ y.ascending = x.ascending /\ y.parsed = x.parsed
      /\ y.got = TRUE /\ y.lastObject = p.id /\ y.lastGroup = p.group
      /\ y.closed = z /\ y.buffer = d
  BY <1>1 DEF SubscriberStreams
<1> HIDE DEF y
<1>. QED  BY <1>2, <1>3, <1>4 DEF Moved, d, z

\* What is found behind the IDs, in the fields b, of an object of n fields.
RestIs(rest, b, p, n) ==
    /\ Len(b) < n => rest = None
    /\ Len(b) >= n => /\ rest # None /\ rest.end = n /\ rest.status = p.status
                      /\ rest.payload = p.payload /\ rest.properties = p.properties

LEMMA BodyBegins ==
    ASSUME NEW fetch, NEW prev, NEW p \in Shows, NEW f, FrameOf(fetch, prev, p, f),
           NEW b \in Seq(Nat), Begins(b, f), NEW i, i = Len(Ids(fetch, prev, p))
    PROVE  RestIs(RestOfObject(b, i, TRUE), b, p, Len(f))
<1> DEFINE a == Ids(fetch, prev, p)
           q == Body(p)
           n == i + Len(q)
           rest == RestOfObject(b, i, TRUE)
           whole == [properties |-> p.properties, status |-> p.status, payload |-> p.payload, end |-> n]
<1>1. /\ i \in {1, 3, 4, 5} /\ Len(f) = n /\ Len(q) \in Nat /\ Len(f) \in Nat
      /\ \A j \in 1 .. Len(q) : f[i + j] = q[j]
  BY DEF FrameOf
<1>2. Len(b) \in Nat /\ i \in Nat \ {0} /\ n \in Nat
  BY <1>1, LenProperties
<1>3. ASSUME NEW j \in 1 .. Len(q), i + j <= Len(b) PROVE b[i + j] = q[j]
  <2>1. i + j \in 1 .. Len(f)
    BY <1>1, <1>2
  <2>. QED  BY <1>1, <1>3, <2>1 DEF Begins
<1>4. (Len(b) < n => rest = None) /\ (Len(b) >= n => rest = whole)
  BY ONLY <1>2, <1>3, b \in Seq(Nat), p \in Shows, RestRead
<1>5. whole \in Rests
  BY <1>2 DEF Shows, Rests
<1>6. whole # None
  BY <1>5, ObjectsAssumption
<1>7. /\ whole.end = n /\ whole.status = p.status /\ whole.payload = p.payload
      /\ whole.properties = p.properties
  OBVIOUS
<1> HIDE DEF rest, whole, n
<1>. QED  BY <1>1, <1>4, <1>6, <1>7 DEF RestIs, rest

(* imquic_moq_parse_subgroup_header_object *)
LEMMA SubgroupRead ==
    ASSUME NEW prev, NEW p, Follows(FALSE, prev, p), NEW x, Ready(FALSE, prev, x),
           p.group = x.group, p.subgroup = x.subgroup, NEW f, FrameOf(FALSE, prev, p, f),
           Begins(x.buffer, f), NEW c \in BOOLEAN
    PROVE  ReadIs(FALSE, x, p, c, Len(f), ParseSubgroupObject(x, c))
<1> DEFINE b == x.buffer
           rest == RestOfObject(b, 1, TRUE)
           r == ParseSubgroupObject(x, c)
<1>1. /\ p \in Shows /\ x \in SubscriberStreams /\ prev.got \in BOOLEAN /\ prev.id \in Nat
      /\ x.type = Ordinary /\ x.priority = PRIORITY /\ x.got = prev.got /\ x.lastObject = prev.id
  BY DEF Follows, Ready, Marks
<1>2. b \in Seq(Nat) /\ Len(b) \in Nat
  BY <1>1, FieldsOf
<1>3. SubgroupFields(x.type).prop /\ SubgroupFields(x.type).subgroup
  BY <1>1, OrdinaryIs
<1> DEFINE a == Ids(FALSE, prev, p)
           delta == p.id - prev.id - Flag(prev.got, 1)
<1>4. a = <<delta>>
  BY DEF Ids
<1>5. Len(f) \in Nat /\ Len(f) >= 4 /\ Len(a) = 1 /\ f[1] = delta
  <2>1. Len(f) \in Nat /\ Len(f) >= 4 /\ \A j \in 1 .. Len(a) : f[j] = a[j]
    BY DEF FrameOf
  <2> HIDE DEF a, delta
  <2>2. Len(a) = 1 /\ a[1] = delta /\ 1 \in 1 .. 1
    BY <1>4
  <2>. QED  BY <2>1, <2>2
<1>6. RestIs(rest, b, p, Len(f))
  BY ONLY <1>1, <1>2, <1>5, FrameOf(FALSE, prev, p, f), Begins(x.buffer, f), BodyBegins
<1>d. Len(b) \in Nat /\ Len(f) \in Nat
  BY <1>2, <1>5
<1> DEFINE sg == IF ~x.got /\ ~SubgroupFields(x.type).subgroup /\ ~SubgroupFields(x.type).sgid0
                 THEN b[1] ELSE x.subgroup
<1>7. sg = x.subgroup
  BY <1>3
<1>8. CASE Len(b) < Len(f)
  <2>1. r = [res |-> "more", x |-> x]
    BY <1>3, <1>6, <1>8 DEF ParseSubgroupObject, RestIs
  <2> HIDE DEF r
  <2>2. r.res = "more" /\ r.x = x /\ ~(Len(b) >= Len(f))
    BY <1>2, <1>5, <1>8, <2>1
  <2>. QED  BY <2>2 DEF ReadIs, r
<1>9. CASE Len(b) >= Len(f)
  <2>1. rest # None /\ ~(Len(b) < 2) /\ ~(Len(b) < Len(f))
    <3>1. rest # None
      BY ONLY <1>6, <1>9 DEF RestIs
    <3> HIDE DEF b, rest
    <3>2. Len(f) >= 4
      BY <1>5
    <3>3. ~(Len(b) < 2) /\ ~(Len(b) < Len(f))
      BY ONLY <1>d, <1>9, <3>2
    <3>. QED  BY <3>1, <3>3
  <2>2. SubgroupId(x, b[1]) = p.id
    <3>1. b[1] = f[1]
      BY <1>2, <1>5, <1>9 DEF Begins
    <3>2. p.id \in Nat
      BY <1>1 DEF Shows
    <3>. QED  BY <1>1, <1>5, <3>1, <3>2 DEF SubgroupId, Flag
  <2> DEFINE y == [x EXCEPT !.subgroup = sg, !.got = TRUE, !.lastObject = SubgroupId(x, b[1]),
                            !.buffer = SubSeq(b, rest.end + 1, Len(b)), !.closed = @ \/ c]
             o == [group |-> x.group, subgroup |-> sg, id |-> SubgroupId(x, b[1]), status |-> rest.status,
                   priority |-> x.priority, payload |-> rest.payload,
                   properties |-> rest.properties, eos |-> c]
  <2>3. r = [res |-> "ok", x |-> y, object |-> o]
    <3>1. SubgroupFields(x.type).prop = TRUE
      BY <1>3 DEF SubgroupFields, Bit
    <3>. QED  BY <2>1, <3>1 DEF ParseSubgroupObject
  <2>4. rest.end = Len(f) /\ rest.status = p.status /\ rest.payload = p.payload /\ rest.properties = p.properties
    BY <1>6, <1>9 DEF RestIs
  <2>5. o = WithEnd(p, c)
    <3> HIDE DEF rest, sg
    <3>. QED  BY <1>1, <1>7, <2>2, <2>4 DEF WithEnd
  <2>6. y = SubgroupNext(x, p, c, Len(f))
    <3> DEFINE i == SubgroupId(x, b[1])
    <3>1. i = p.id /\ sg = x.subgroup /\ rest.end = Len(f)
      BY <1>7, <2>2, <2>4
    <3> HIDE DEF rest, sg, i
    <3>. QED  BY <3>1 DEF SubgroupNext, i
  <2> HIDE DEF y, o
  <2>7. Moved(FALSE, x, p, c, Len(f), y)
    <3>1. p \in Shows /\ x \in SubscriberStreams
      BY <1>1
    <3>2. Len(f) \in 0 .. Len(x.buffer)
      BY ONLY <1>d, <1>9
    <3>. QED  BY ONLY <2>6, <3>1, <3>2, c \in BOOLEAN, SubgroupMoved
  <2> HIDE DEF r
  <2>8. r.res = "ok" /\ r.object = o /\ r.x = y
    BY <2>3
  <2>. QED  BY <2>1, <2>5, <2>7, <2>8 DEF ReadIs, r
<1> HIDE DEF b, r
<1>10. Len(b) < Len(f) \/ Len(b) >= Len(f)
  BY ONLY <1>d
<1>. QED  BY ONLY <1>8, <1>9, <1>10 DEF b, r

\* imquic_moq_generate_fetch_serialization_flags, the three that are used, and what they say.
LEMMA FlagsAre ==
    /\ FetchFields(63) = [plusOne |-> FALSE, oid |-> TRUE, group |-> TRUE, priority |-> TRUE, prop |-> TRUE]
    /\ FetchFields(55) = [plusOne |-> FALSE, oid |-> TRUE, group |-> FALSE, priority |-> TRUE, prop |-> TRUE]
    /\ FetchFields(51) = [plusOne |-> FALSE, oid |-> FALSE, group |-> FALSE, priority |-> TRUE, prop |-> TRUE]
<1>1. /\ (63 % 4 = 2) = FALSE /\ Bit(63, 4) = TRUE /\ Bit(63, 8) = TRUE /\ Bit(63, 16) = TRUE /\ Bit(63, 32) = TRUE
      /\ (55 % 4 = 2) = FALSE /\ Bit(55, 4) = TRUE /\ Bit(55, 8) = FALSE /\ Bit(55, 16) = TRUE /\ Bit(55, 32) = TRUE
      /\ (51 % 4 = 2) = FALSE /\ Bit(51, 4) = FALSE /\ Bit(51, 8) = FALSE /\ Bit(51, 16) = TRUE /\ Bit(51, 32) = TRUE
  BY DEF Bit
<1>2. \A n : FetchFields(n) = [plusOne |-> n % 4 = 2, oid |-> Bit(n, 4), group |-> Bit(n, 8),
                               priority |-> Bit(n, 16), prop |-> Bit(n, 32)]
  BY DEF FetchFields
<1>. QED  BY ONLY <1>1, <1>2, Zenon

\* An object of a FETCH whose group is there if g, whose ID is there if q, and n fields in front of the priority.
FetchParsed(x, c, g, q, n) ==
    LET b == x.buffer
        rest == RestOfObject(b, n + 1, TRUE)
        group == IF g THEN GroupId(x, b[2]) ELSE x.lastGroup
        id == IF ~q THEN (x.lastObject + 1) % Wrap
              ELSE IF Version >= 18 /\ ~g THEN (b[n] + x.lastObject) % Wrap ELSE b[n]
        priority == b[n + 1]
    IN  IF Len(b) <= n \/ rest = None THEN [res |-> "more", x |-> x]
        ELSE [res |-> "ok",
              x |-> [x EXCEPT !.got = TRUE, !.lastGroup = group, !.lastObject = id,
                              !.lastPriority = priority, !.closed = @ \/ c,
                              !.buffer = SubSeq(b, rest.end + 1, Len(b))],
              object |-> [group |-> group, subgroup |-> b[2 + Flag(g, 1)], id |-> id,
                          status |-> rest.status, priority |-> priority,
                          payload |-> rest.payload, properties |-> rest.properties,
                          eos |-> c]]

FetchTaken(x, c, group, subgroup, id, priority, rest) ==
    [res |-> "ok",
     x |-> [x EXCEPT !.got = TRUE, !.lastGroup = group, !.lastObject = id,
                     !.lastPriority = priority, !.closed = @ \/ c,
                     !.buffer = SubSeq(x.buffer, rest.end + 1, Len(x.buffer))],
     object |-> [group |-> group, subgroup |-> subgroup, id |-> id,
                 status |-> rest.status, priority |-> priority,
                 payload |-> rest.payload, properties |-> rest.properties,
                 eos |-> c]]

LEMMA FetchShape ==
    ASSUME NEW x, NEW c, NEW g \in BOOLEAN, NEW q \in BOOLEAN, NEW n,
           n = 1 + Flag(g, 1) + 1 + Flag(q, 1),
           FetchFields(x.buffer[1]) =
              [plusOne |-> FALSE, oid |-> q, group |-> g, priority |-> TRUE, prop |-> TRUE],
           ~(Len(x.buffer) < 3), x.got \/ (g /\ q)
    PROVE  ParseFetchObject(x, c) = FetchParsed(x, c, g, q, n)
<1> DEFINE f == FetchFields(x.buffer[1])
<1>1. f.plusOne = FALSE /\ f.oid = q /\ f.group = g /\ f.priority = TRUE /\ f.prop = TRUE
  OBVIOUS
<1> HIDE DEF f
<1>2. /\ 1 + Flag(f.group, 1) + Flag(~f.plusOne, 1) + Flag(f.oid, 1) = n
      /\ Flag(f.priority, 1) = 1
  BY <1>1 DEF Flag
<1>3. ~(~x.got /\ (~f.group \/ f.plusOne \/ ~f.oid \/ ~f.priority))
  BY <1>1
<1> DEFINE b == x.buffer
           rest == RestOfObject(b, n + 1, TRUE)
<1>4. FetchFields(b[1]) = f /\ ~(Len(b) < 3)
  BY DEF f
<1> HIDE DEF b
<1>5. CASE Len(b) <= n \/ rest = None
  <2>1. FetchParsed(x, c, g, q, n) = [res |-> "more", x |-> x]
    BY <1>5 DEF FetchParsed, b
  <2>2. ParseFetchObject(x, c) = [res |-> "more", x |-> x]
    <3>1. CASE Len(b) <= n
      BY <1>1, <1>2, <1>4, <3>1 DEF ParseFetchObject, b
    <3>2. CASE rest = None
      BY <1>1, <1>2, <1>3, <1>4, <3>2 DEF ParseFetchObject, b
    <3>. QED  BY <1>5, <3>1, <3>2
  <2>. QED  BY <2>1, <2>2
<1>6. CASE ~(Len(b) <= n \/ rest = None)
  <2> DEFINE nf == 1 + Flag(f.group, 1) + Flag(~f.plusOne, 1) + Flag(f.oid, 1)
             group == IF f.group THEN GroupId(x, b[2]) ELSE x.lastGroup
             subgroup == IF f.plusOne THEN x.subgroup + 1 ELSE b[2 + Flag(f.group, 1)]
             id == IF ~f.oid THEN (x.lastObject + 1) % Wrap
                   ELSE IF Version >= 18 /\ ~f.group THEN (b[nf] + x.lastObject) % Wrap ELSE b[nf]
             priority == IF f.priority THEN b[nf + 1] ELSE x.lastPriority
             left == RestOfObject(b, nf + Flag(f.priority, 1), f.prop)
             groupIs == IF g THEN GroupId(x, b[2]) ELSE x.lastGroup
             subgroupIs == b[2 + Flag(g, 1)]
             idIs == IF ~q THEN (x.lastObject + 1) % Wrap
                     ELSE IF Version >= 18 /\ ~g THEN (b[n] + x.lastObject) % Wrap ELSE b[n]
  <2>1. nf = n
    BY ONLY <1>2
  <2>2. left = rest
    BY ONLY <1>1, <1>2, <2>1
  <2>3. /\ ~(Len(b) < 3 \/ Len(b) <= nf) /\ left # None
        /\ ~(~x.got /\ (~f.group \/ f.plusOne \/ ~f.oid \/ ~f.priority))
    BY ONLY <1>3, <1>4, <1>6, <2>1, <2>2
  <2>4. ParseFetchObject(x, c) = FetchTaken(x, c, group, subgroup, id, priority, left)
    BY ONLY <2>3 DEF ParseFetchObject, FetchTaken, b, f
  <2>5. group = groupIs /\ subgroup = subgroupIs
    BY ONLY <1>1
  <2>6. id = idIs
    BY ONLY <1>1, <2>1
  <2>7. priority = b[n + 1]
    BY ONLY <1>1, <2>1
  <2>8. FetchParsed(x, c, g, q, n) = FetchTaken(x, c, groupIs, subgroupIs, idIs, b[n + 1], rest)
    BY ONLY <1>6 DEF FetchParsed, FetchTaken, b
  <2> HIDE DEF group, subgroup, id, priority, left, groupIs, subgroupIs, idIs, rest
  <2>. QED  BY ONLY <2>2, <2>4, <2>5, <2>6, <2>7, <2>8
<1>. QED  BY <1>5, <1>6

\* The IDs in the fields of x are those of p.
Names(x, p, g, q, n) ==
    LET b == x.buffer IN
    /\ (IF g THEN GroupId(x, b[2]) ELSE x.lastGroup) = p.group
    /\ (IF ~q THEN (x.lastObject + 1) % Wrap
        ELSE IF Version >= 18 /\ ~g THEN (b[n] + x.lastObject) % Wrap ELSE b[n]) = p.id
    /\ b[2 + Flag(g, 1)] = p.subgroup /\ b[n + 1] = PRIORITY

LEMMA FetchParsedIs ==
    ASSUME NEW x \in SubscriberStreams, NEW p \in Shows, NEW c \in BOOLEAN, NEW g, NEW q,
           NEW n \in Nat, NEW l \in Nat, l > n + 1,
           RestIs(RestOfObject(x.buffer, n + 1, TRUE), x.buffer, p, l),
           Len(x.buffer) >= l => Names(x, p, g, q, n)
    PROVE  ReadIs(TRUE, x, p, c, l, FetchParsed(x, c, g, q, n))
<1> DEFINE b == x.buffer
           rest == RestOfObject(b, n + 1, TRUE)
           r == FetchParsed(x, c, g, q, n)
<1>1. Len(b) \in Nat
  BY FieldsOf
<1>2. RestIs(rest, b, p, l)
  OBVIOUS
<1>3. CASE Len(b) < l
  <2>1. rest = None
    BY <1>2, <1>3 DEF RestIs
  <2>2. r = [res |-> "more", x |-> x]
    BY <2>1 DEF FetchParsed
  <2> HIDE DEF r, b
  <2>3. ~(Len(b) >= l)
    BY ONLY <1>1, <1>3, l \in Nat
  <2>4. r.res = "more" /\ r.x = x
    BY <2>2
  <2>. QED  BY <2>3, <2>4 DEF ReadIs, b, r
<1>4. CASE Len(b) >= l
  <2> DEFINE group == IF g THEN GroupId(x, b[2]) ELSE x.lastGroup
             id == IF ~q THEN (x.lastObject + 1) % Wrap
                   ELSE IF Version >= 18 /\ ~g THEN (b[n] + x.lastObject) % Wrap ELSE b[n]
             sg == b[2 + Flag(g, 1)]
             priority == b[n + 1]
             y == [x EXCEPT !.got = TRUE, !.lastGroup = group, !.lastObject = id, !.lastPriority = priority,
                            !.closed = @ \/ c, !.buffer = SubSeq(b, rest.end + 1, Len(b))]
             o == [group |-> group, subgroup |-> sg, id |-> id, status |-> rest.status,
                   priority |-> priority, payload |-> rest.payload,
                   properties |-> rest.properties, eos |-> c]
  <2>1. /\ rest # None /\ rest.end = l /\ rest.status = p.status /\ rest.payload = p.payload
        /\ rest.properties = p.properties
    BY <1>2, <1>4 DEF RestIs
  <2>2. ~(Len(b) <= n) /\ ~(Len(b) < l) /\ l \in 0 .. Len(x.buffer)
    BY <1>1, <1>4
  <2>3. r = [res |-> "ok", x |-> y, object |-> o]
    BY <2>1, <2>2 DEF FetchParsed
  <2>4. group = p.group /\ id = p.id /\ sg = p.subgroup /\ priority = PRIORITY
    BY <1>4 DEF Names
  <2> HIDE DEF group, id, sg, priority, rest
  <2>5. o = WithEnd(p, c)
    BY <2>1, <2>4 DEF WithEnd
  <2>6. y = FetchNext(x, p, c, l)
    BY <2>1, <2>4 DEF FetchNext
  <2> HIDE DEF y, o, r
  <2>7. Moved(TRUE, x, p, c, l, y)
    BY ONLY <2>2, <2>6, x \in SubscriberStreams, p \in Shows, c \in BOOLEAN, FetchMoved
  <2>8. r.res = "ok" /\ r.object = o /\ r.x = y
    BY <2>3
  <2>. QED  BY <2>2, <2>5, <2>7, <2>8 DEF ReadIs, r
<1> HIDE DEF b, r
<1>5. Len(b) < l \/ Len(b) >= l
  BY ONLY <1>1, l \in Nat
<1>. QED  BY ONLY <1>3, <1>4, <1>5 DEF r

\* Before the IDs are there nothing is taken.
LEMMA TooShort ==
    ASSUME NEW x, NEW p, NEW c, NEW l, l \in Nat, l > 3, Len(x.buffer) \in Nat, Len(x.buffer) < 3
    PROVE  ReadIs(TRUE, x, p, c, l, ParseFetchObject(x, c))
<1>1. ParseFetchObject(x, c) = [res |-> "more", x |-> x]
  BY DEF ParseFetchObject
<1>2. ~(Len(x.buffer) >= l)
  OBVIOUS
<1>. QED  BY <1>1, <1>2 DEF ReadIs


\* Which of its fields an object of a FETCH has.
FlagsOf(prev, p) ==
    IF ~SameGroup(prev, p) THEN 63 ELSE IF Skip(prev, p) > 1 THEN 55 ELSE 51

LEMMA FetchIds ==
    ASSUME NEW prev, NEW p, Follows(TRUE, prev, p), NEW x, Ready(TRUE, prev, x), NEW f,
           FrameOf(TRUE, prev, p, f), Begins(x.buffer, f), Len(x.buffer) >= Len(f)
    PROVE  /\ FlagsOf(prev, p) = 63 => Names(x, p, TRUE, TRUE, 4)
           /\ FlagsOf(prev, p) = 55 => Names(x, p, FALSE, TRUE, 3)
           /\ FlagsOf(prev, p) = 51 => Names(x, p, FALSE, FALSE, 2)
<1> DEFINE b == x.buffer
           a == Ids(TRUE, prev, p)
<1>1. /\ p \in Shows /\ x \in SubscriberStreams /\ prev.got \in BOOLEAN /\ prev.id \in Nat /\ prev.group \in Nat
      /\ p.group < Wrap /\ p.id < Wrap
      /\ prev.got => /\ prev.group < Wrap /\ prev.id < Wrap /\ (p.group # prev.group \/ p.id # prev.id)
      /\ x.got = prev.got /\ x.lastObject = prev.id /\ x.lastGroup = prev.group /\ x.ascending = OkAscending
  BY DEF Follows, Ready, Marks
<1>2. p.group \in Nat /\ p.subgroup \in Nat /\ p.id \in Nat
  BY <1>1 DEF Shows
<1> HIDE DEF a, b
<1>3. ASSUME NEW j \in 1 .. Len(a) PROVE b[j] = a[j]
  <2>1. /\ Len(a) \in {1, 3, 4, 5} /\ Len(Body(p)) \in Nat /\ Len(f) = Len(a) + Len(Body(p)) /\ Len(b) \in Nat
        /\ Len(b) >= Len(f)
    BY <1>1, FieldsOf DEF FrameOf, a, b
  <2>3. f[j] = a[j]
    BY DEF FrameOf, a
  <2> DEFINE l == Len(a)
             m == Len(Body(p))
  <2>a. l \in Nat /\ m \in Nat /\ Len(f) = l + m /\ Len(b) \in Nat /\ Len(b) >= Len(f) /\ j \in 1 .. l
    <3>1. l \in {1, 3, 4, 5}
      BY <2>1
    <3> HIDE DEF l
    <3>2. l \in Nat
      BY ONLY <3>1
    <3>. QED  BY <2>1, <3>2 DEF l
  <2> HIDE DEF l, m
  <2>2. j \in 1 .. Len(f) /\ j <= Len(b)
    BY ONLY <2>a
  <2>. QED  BY <2>2, <2>3 DEF Begins, b
<1>v. Version \in Nat /\ OkAscending \in BOOLEAN
  BY ObjectsAssumption
<1>4. CASE ~SameGroup(prev, p)
  <2>1. /\ Len(a) = 5 /\ a[2] = GroupField(prev, p) /\ a[3] = p.subgroup /\ a[4] = p.id /\ a[5] = PRIORITY
        /\ {2, 3, 4, 5} \subseteq 1 .. 5
    <3>1. a = <<63, GroupField(prev, p), p.subgroup, p.id, PRIORITY>>
      BY <1>4 DEF Ids, a
    <3>. QED  BY ONLY <3>1
  <2>2. b[2] = GroupField(prev, p) /\ b[3] = p.subgroup /\ b[4] = p.id /\ b[5] = PRIORITY
    BY <1>3, <2>1
  <2>3. GroupId(x, b[2]) = p.group
    <3>1. CASE Version < 18 \/ ~x.got
      BY <1>1, <2>2, <3>1 DEF GroupId, GroupField
    <3>w. ASSUME x.got PROVE p.group \in Nat /\ prev.group \in Nat /\ p.group < Wrap /\ prev.group < Wrap
      BY <1>1, <1>2, <3>w
    <3>2. CASE ~(Version < 18 \/ ~x.got) /\ OkAscending
      <4>1. (((p.group - prev.group) % Wrap) + prev.group) % Wrap = p.group
        BY ONLY <3>w, <3>2, WrapBack, Zenon
      <4>. QED  BY <1>1, <2>2, <3>2, <4>1 DEF GroupId, GroupField
    <3>3. CASE ~(Version < 18 \/ ~x.got) /\ ~OkAscending
      <4>1. (prev.group - ((prev.group - p.group) % Wrap)) % Wrap = p.group
        BY ONLY <3>w, <3>3, WrapBack, Zenon
      <4>. QED  BY <1>1, <2>2, <3>3, <4>1 DEF GroupId, GroupField
    <3>. QED  BY <3>1, <3>2, <3>3
  <2>4. Names(x, p, TRUE, TRUE, 4)
    BY <2>2, <2>3 DEF Names, Flag, b
  <2>5. FlagsOf(prev, p) = 63
    BY <1>4 DEF FlagsOf
  <2>6. 63 # 55 /\ 63 # 51
    OBVIOUS
  <2>. QED  BY ONLY <2>4, <2>5, <2>6
<1>5. CASE SameGroup(prev, p)
  <2>1. Version >= 18 /\ prev.got /\ p.group = prev.group /\ p.id # prev.id
    BY <1>1, <1>5 DEF SameGroup
  <2>2. /\ Skip(prev, p) \in Nat /\ (Skip(prev, p) + prev.id) % Wrap = p.id
        /\ Skip(prev, p) # 0 /\ (Skip(prev, p) = 1 => (prev.id + 1) % Wrap = p.id)
    <3> DEFINE u == p.id
               v == prev.id
    <3>1. u \in Nat /\ v \in Nat /\ u < Wrap /\ v < Wrap /\ u # v
      BY <1>1, <1>2, <2>1
    <3> HIDE DEF u, v
    <3>2. /\ (u - v) % Wrap \in Nat /\ (((u - v) % Wrap) + v) % Wrap = u
          /\ (u - v) % Wrap # 0 /\ ((u - v) % Wrap = 1 => (v + 1) % Wrap = u)
      BY ONLY <3>1, WrapBack
    <3>. QED  BY ONLY <3>2 DEF Skip, u, v
  <2>3. CASE Skip(prev, p) > 1
    <3>1. Len(a) = 4 /\ a[2] = p.subgroup /\ a[3] = Skip(prev, p) /\ a[4] = PRIORITY /\ {2, 3, 4} \subseteq 1 .. 4
      <4>1. a = <<55, p.subgroup, Skip(prev, p), PRIORITY>>
        BY <1>5, <2>3 DEF Ids, a
      <4>. QED  BY ONLY <4>1
    <3>2. b[2] = p.subgroup /\ b[3] = Skip(prev, p) /\ b[4] = PRIORITY
      BY <1>3, <3>1
    <3>3. Names(x, p, FALSE, TRUE, 3)
      BY <1>1, <2>1, <2>2, <3>2 DEF Names, Flag, b
    <3>4. FlagsOf(prev, p) = 55
      BY <1>5, <2>3 DEF FlagsOf
    <3>5. 55 # 63 /\ 55 # 51
      OBVIOUS
    <3>. QED  BY ONLY <3>3, <3>4, <3>5
  <2>4. CASE ~(Skip(prev, p) > 1)
    <3>1. Len(a) = 3 /\ a[2] = p.subgroup /\ a[3] = PRIORITY /\ {2, 3} \subseteq 1 .. 3
      <4>1. a = <<51, p.subgroup, PRIORITY>>
        BY <1>5, <2>4 DEF Ids, a
      <4>. QED  BY ONLY <4>1
    <3>2. b[2] = p.subgroup /\ b[3] = PRIORITY
      BY <1>3, <3>1
    <3>3. Skip(prev, p) = 1
      BY <2>2, <2>4
    <3>4. Names(x, p, FALSE, FALSE, 2)
      BY <1>1, <2>1, <2>2, <3>2, <3>3 DEF Names, Flag, b
    <3>5. FlagsOf(prev, p) = 51
      BY <1>5, <2>4 DEF FlagsOf
    <3>6. 51 # 63 /\ 51 # 55
      OBVIOUS
    <3>. QED  BY ONLY <3>4, <3>5, <3>6
  <2>. QED  BY <2>3, <2>4
<1>. QED  BY <1>4, <1>5

\* An object that has its group if g, and its ID if q.
ReadsAs(prev, p, x, f, c, g, q, n) ==
    /\ Follows(TRUE, prev, p) /\ Ready(TRUE, prev, x) /\ FrameOf(TRUE, prev, p, f) /\ Begins(x.buffer, f)
    /\ c \in BOOLEAN /\ g \in BOOLEAN /\ q \in BOOLEAN /\ n \in Nat /\ n = 1 + Flag(g, 1) + 1 + Flag(q, 1)
    /\ Len(Ids(TRUE, prev, p)) = n + 1
    /\ FetchFields(x.buffer[1]) =
          [plusOne |-> FALSE, oid |-> q, group |-> g, priority |-> TRUE, prop |-> TRUE]
    /\ ~(Len(x.buffer) < 3) /\ (x.got \/ (g /\ q))
    /\ Len(x.buffer) >= Len(f) => Names(x, p, g, q, n)

LEMMA FetchReadAs ==
    ASSUME NEW prev, NEW p, NEW x, NEW f, NEW c, NEW g, NEW q, NEW n, ReadsAs(prev, p, x, f, c, g, q, n)
    PROVE  ReadIs(TRUE, x, p, c, Len(f), ParseFetchObject(x, c))
<1>. /\ Follows(TRUE, prev, p) /\ Ready(TRUE, prev, x) /\ FrameOf(TRUE, prev, p, f) /\ Begins(x.buffer, f)
     /\ c \in BOOLEAN /\ g \in BOOLEAN /\ q \in BOOLEAN /\ n \in Nat /\ n = 1 + Flag(g, 1) + 1 + Flag(q, 1)
     /\ Len(Ids(TRUE, prev, p)) = n + 1
     /\ FetchFields(x.buffer[1]) =
           [plusOne |-> FALSE, oid |-> q, group |-> g, priority |-> TRUE, prop |-> TRUE]
     /\ ~(Len(x.buffer) < 3) /\ (x.got \/ (g /\ q))
     /\ (Len(x.buffer) >= Len(f) => Names(x, p, g, q, n))
  BY DEF ReadsAs
<1>1. p \in Shows /\ x \in SubscriberStreams
  BY DEF Follows, Ready
<1>2. x.buffer \in Seq(Nat)
  BY <1>1, FieldsOf
<1>3. Len(f) \in Nat /\ Len(f) > n + 1
  <2>1. /\ Len(f) \in Nat /\ Len(f) = Len(Ids(TRUE, prev, p)) + Len(Body(p))
        /\ Len(Body(p)) \in Nat /\ Len(Body(p)) >= 3
    BY DEF FrameOf
  <2> DEFINE l == Len(Ids(TRUE, prev, p))
             m == Len(Body(p))
  <2>2. l = n + 1 /\ Len(f) = l + m /\ m \in Nat /\ m >= 3 /\ Len(f) \in Nat
    BY <2>1
  <2> HIDE DEF l, m
  <2>. QED  BY ONLY <2>2, n \in Nat
<1>4. RestIs(RestOfObject(x.buffer, n + 1, TRUE), x.buffer, p, Len(f))
  <2> DEFINE i == n + 1
  <2>1. i = Len(Ids(TRUE, prev, p))
    OBVIOUS
  <2> HIDE DEF i
  <2>2. RestIs(RestOfObject(x.buffer, i, TRUE), x.buffer, p, Len(f))
    BY ONLY <1>1, <1>2, <2>1, FrameOf(TRUE, prev, p, f), Begins(x.buffer, f), BodyBegins
  <2>. QED  BY <2>2 DEF i
<1>5. ParseFetchObject(x, c) = FetchParsed(x, c, g, q, n)
  BY FetchShape
<1>6. ReadIs(TRUE, x, p, c, Len(f), FetchParsed(x, c, g, q, n))
  BY <1>1, <1>3, <1>4, FetchParsedIs
<1>. QED  BY <1>5, <1>6

(* imquic_moq_parse_fetch_header_object *)
LEMMA FetchRead ==
    ASSUME NEW prev, NEW p, Follows(TRUE, prev, p), NEW x, Ready(TRUE, prev, x), NEW f,
           FrameOf(TRUE, prev, p, f), Begins(x.buffer, f), NEW c \in BOOLEAN
    PROVE  ReadIs(TRUE, x, p, c, Len(f), ParseFetchObject(x, c))
<1> DEFINE b == x.buffer
           a == Ids(TRUE, prev, p)
           v == FlagsOf(prev, p)
<1>1. Len(b) \in Nat /\ Len(f) \in Nat /\ Len(f) > 3 /\ x.got = prev.got
  <2>1. x \in SubscriberStreams /\ x.got = prev.got
    BY DEF Ready
  <2>2. Len(f) \in Nat /\ Len(f) >= 4
    BY DEF FrameOf
  <2>. QED  BY <2>1, <2>2, FieldsOf
<1>2. CASE Len(b) < 3
  BY <1>1, <1>2, TooShort
<1>3. CASE ~(Len(b) < 3)
  <2>1. b[1] = a[1]
    <3>0. Len(a) \in {1, 3, 4, 5}
      BY DEF FrameOf
    <3>1. 1 \in 1 .. Len(f) /\ 1 <= Len(b) /\ 1 \in 1 .. Len(a)
      <4> HIDE DEF a, b
      <4>1. 1 \in 1 .. Len(f) /\ 1 <= Len(b)
        BY ONLY <1>1, <1>3
      <4>2. 1 \in 1 .. Len(a)
        BY ONLY <3>0
      <4>. QED  BY <4>1, <4>2
    <3>2. f[1] = a[1] /\ b[1] = f[1]
      BY <3>1 DEF FrameOf, Begins
    <3>. QED  BY <3>2
  <2>2. \/ v = 63 /\ Len(a) = 5 /\ a[1] = 63
        \/ v = 55 /\ Len(a) = 4 /\ a[1] = 55 /\ prev.got
        \/ v = 51 /\ Len(a) = 3 /\ a[1] = 51 /\ prev.got
    <3>1. CASE ~SameGroup(prev, p)
      <4>1. a = <<63, GroupField(prev, p), p.subgroup, p.id, PRIORITY>> /\ v = 63
        BY <3>1 DEF Ids, FlagsOf
      <4> HIDE DEF a, v
      <4>2. Len(a) = 5 /\ a[1] = 63
        BY ONLY <4>1
      <4>. QED  BY ONLY <4>1, <4>2
    <3>2. CASE SameGroup(prev, p) /\ Skip(prev, p) > 1
      <4>1. a = <<55, p.subgroup, Skip(prev, p), PRIORITY>> /\ v = 55 /\ prev.got
        BY <3>2 DEF Ids, FlagsOf, SameGroup
      <4> HIDE DEF a, v
      <4>2. Len(a) = 4 /\ a[1] = 55
        BY ONLY <4>1
      <4>3. v = 55 /\ prev.got
        BY ONLY <4>1
      <4>. QED  BY ONLY <4>2, <4>3, Zenon
    <3>3. CASE SameGroup(prev, p) /\ ~(Skip(prev, p) > 1)
      <4>1. a = <<51, p.subgroup, PRIORITY>> /\ v = 51 /\ prev.got
        BY <3>3 DEF Ids, FlagsOf, SameGroup
      <4> HIDE DEF a, v
      <4>2. Len(a) = 3 /\ a[1] = 51
        BY ONLY <4>1
      <4>3. v = 51 /\ prev.got
        BY ONLY <4>1
      <4>. QED  BY ONLY <4>2, <4>3, Zenon
    <3>. QED  BY <3>1, <3>2, <3>3
  <2>3. /\ Len(b) >= Len(f) /\ v = 63 => Names(x, p, TRUE, TRUE, 4)
        /\ Len(b) >= Len(f) /\ v = 55 => Names(x, p, FALSE, TRUE, 3)
        /\ Len(b) >= Len(f) /\ v = 51 => Names(x, p, FALSE, FALSE, 2)
    BY FetchIds
  <2> HIDE DEF a, v
  <2>4. CASE v = 63 /\ Len(a) = 5 /\ a[1] = 63
    <3> DEFINE g == TRUE
               q == TRUE
               n == 4
    <3>1. n \in Nat /\ n = 1 + Flag(g, 1) + 1 + Flag(q, 1) /\ Len(a) = n + 1 /\ g \in BOOLEAN /\ q \in BOOLEAN
      BY <2>4 DEF Flag
    <3>2. FetchFields(b[1]) = [plusOne |-> FALSE, oid |-> q, group |-> g, priority |-> TRUE, prop |-> TRUE]
      BY <2>1, <2>4, FlagsAre
    <3>3. Len(b) >= Len(f) => Names(x, p, g, q, n)
      BY <2>3, <2>4
    <3>4. x.got \/ (g /\ q)
      OBVIOUS
    <3> HIDE DEF g, q, n
    <3>5. ReadsAs(prev, p, x, f, c, g, q, n)
      BY <1>3, <3>1, <3>2, <3>3, <3>4 DEF ReadsAs, a
    <3>. QED  BY ONLY <3>5, FetchReadAs
  <2>5. CASE v = 55 /\ Len(a) = 4 /\ a[1] = 55 /\ prev.got
    <3> DEFINE g == FALSE
               q == TRUE
               n == 3
    <3>1. n \in Nat /\ n = 1 + Flag(g, 1) + 1 + Flag(q, 1) /\ Len(a) = n + 1 /\ g \in BOOLEAN /\ q \in BOOLEAN
      BY <2>5 DEF Flag
    <3>2. FetchFields(b[1]) = [plusOne |-> FALSE, oid |-> q, group |-> g, priority |-> TRUE, prop |-> TRUE]
      BY <2>1, <2>5, FlagsAre
    <3>3. Len(b) >= Len(f) => Names(x, p, g, q, n)
      BY <2>3, <2>5
    <3>4. x.got \/ (g /\ q)
      BY <1>1, <2>5
    <3> HIDE DEF g, q, n
    <3>5. ReadsAs(prev, p, x, f, c, g, q, n)
      BY <1>3, <3>1, <3>2, <3>3, <3>4 DEF ReadsAs, a
    <3>. QED  BY ONLY <3>5, FetchReadAs
  <2>6. CASE v = 51 /\ Len(a) = 3 /\ a[1] = 51 /\ prev.got
    <3> DEFINE g == FALSE
               q == FALSE
               n == 2
    <3>1. n \in Nat /\ n = 1 + Flag(g, 1) + 1 + Flag(q, 1) /\ Len(a) = n + 1 /\ g \in BOOLEAN /\ q \in BOOLEAN
      BY <2>6 DEF Flag
    <3>2. FetchFields(b[1]) = [plusOne |-> FALSE, oid |-> q, group |-> g, priority |-> TRUE, prop |-> TRUE]
      BY <2>1, <2>6, FlagsAre
    <3>3. Len(b) >= Len(f) => Names(x, p, g, q, n)
      BY <2>3, <2>6
    <3>4. x.got \/ (g /\ q)
      BY <1>1, <2>6
    <3> HIDE DEF g, q, n
    <3>5. ReadsAs(prev, p, x, f, c, g, q, n)
      BY <1>3, <3>1, <3>2, <3>3, <3>4 DEF ReadsAs, a
    <3>. QED  BY ONLY <3>5, FetchReadAs
  <2>. QED  BY <2>2, <2>4, <2>5, <2>6
<1>. QED  BY <1>2, <1>3

\* An object on a stream of either kind.
LEMMA ObjectRead ==
    ASSUME NEW fetch \in BOOLEAN, NEW prev, NEW p, NEW x, NEW f, NEW c \in BOOLEAN,
           Follows(fetch, prev, p), Ready(fetch, prev, x), FrameOf(fetch, prev, p, f), Begins(x.buffer, f),
           ~fetch => p.group = x.group /\ p.subgroup = x.subgroup
    PROVE  ReadIs(fetch, x, p, c, Len(f), ParseObject(x, c))
<1>1. CASE fetch
  <2>1. fetch = TRUE
    BY <1>1
  <2>2. ReadIs(TRUE, x, p, c, Len(f), ParseFetchObject(x, c))
    BY <2>1, FetchRead
  <2>3. x.type = FETCH_HEADER
    BY <2>1 DEF Ready
  <2>. QED  BY <2>1, <2>2, <2>3 DEF ParseObject
<1>2. CASE ~fetch
  <2>1. fetch = FALSE
    BY <1>2
  <2>2. ReadIs(FALSE, x, p, c, Len(f), ParseSubgroupObject(x, c))
    BY <2>1, SubgroupRead
  <2>3. x.type # FETCH_HEADER
    <3>1. x.type = Ordinary
      BY <2>1 DEF Ready
    <3>. QED  BY <3>1, OrdinaryIs
  <2>. QED  BY <2>1, <2>2, <2>3 DEF ParseObject
<1>. QED  BY <1>1, <1>2

-----------------------------------------------------------------------------
(* What is written to a stream, and a reader of it.                          *)

LEMMA WithEndShown ==
    ASSUME NEW p \in Shows, NEW c \in BOOLEAN
    PROVE  /\ WithEnd(p, c) \in Shows /\ WithEnd(p, c).group = p.group /\ WithEnd(p, c).subgroup = p.subgroup
           /\ WithEnd(p, c).id = p.id /\ WithEnd(p, c).eos = c
<1> DEFINE q == WithEnd(p, c)
<1>1. /\ p.group \in Nat /\ p.subgroup \in Nat /\ p.id \in Nat /\ p.status \in Nat
      /\ p.payload \in Seq(Nat) /\ p.properties \in Seq(Nat)
      /\ p.properties = <<>> \/ p.properties = <<9>>
      /\ p.payload = <<>> \/ (p.status = 0 /\ \E n \in Nat : p.payload = <<n>>)
  BY DEF Shows
<1>2. /\ q.group = p.group /\ q.subgroup = p.subgroup /\ q.id = p.id /\ q.status = p.status
      /\ q.payload = p.payload /\ q.properties = p.properties /\ q.eos = c
  BY DEF WithEnd
<1>3. q \in [group : Nat, subgroup : Nat, id : Nat, status : Nat, priority : {PRIORITY},
             payload : Seq(Nat), properties : Seq(Nat), eos : BOOLEAN]
  BY <1>1 DEF WithEnd
<1> HIDE DEF q
<1>4. q \in Shows
  BY <1>1, <1>2, <1>3 DEF Shows
<1>. QED  BY <1>2, <1>4 DEF q

IsFetch(w) == w[1] = FETCH_HEADER

\* The i-th object of w is behind off[i - 1].
ObjectAt(w, ps, off, i) ==
    LET f == Frame(IsFetch(w), Before(ps, i - 1), ps[i]) IN
    /\ Follows(IsFetch(w), Before(ps, i - 1), ps[i])
    /\ ~IsFetch(w) => ps[i].group = w[3] /\ ps[i].subgroup = w[4]
    /\ off[i] = off[i - 1] + Len(f)
    /\ \A j \in 1 .. Len(f) : w[off[i - 1] + j] = f[j]

\* The header of a stream: w has it, and it has n fields.
HeaderIs(w, n) ==
    \/ n = 2 /\ w[1] = FETCH_HEADER
    \/ n = 5 /\ w[1] = Ordinary /\ w[5] = PRIORITY

\* The fields w are a header and the objects ps, the i-th of which ends at off[i].
Layout(w, ps, off) ==
    /\ w \in Seq(Nat) /\ Len(w) \in Nat /\ ps \in Seq(Shows) /\ Len(ps) \in Nat
    /\ off \in [0 .. Len(ps) -> 0 .. Len(w)] /\ off[Len(ps)] = Len(w)
    /\ HeaderIs(w, off[0])
    /\ \A i \in 1 .. Len(ps) : ObjectAt(w, ps, off, i)

\* A reader x that was given the first e fields of w is behind the k-th object.
At(w, ps, off, e, x, k) ==
    /\ k \in 0 .. Len(ps) /\ Ready(IsFetch(w), Before(ps, k), x) /\ x.parsed
    /\ ~IsFetch(w) => x.group = w[3] /\ x.subgroup = w[4]
    /\ e - Len(x.buffer) = off[k]
    /\ \A j \in 1 .. Len(x.buffer) : x.buffer[j] = w[off[k] + j]

\* The object behind the k-th is not all there.
Incomplete(ps, off, e, k) == k < Len(ps) => e < off[k + 1]

LEMMA AtFields ==
    ASSUME NEW w, NEW ps, NEW off, NEW e, NEW x, NEW k, Layout(w, ps, off), At(w, ps, off, e, x, k)
    PROVE  /\ k \in Nat /\ k <= Len(ps) /\ Len(ps) \in Nat /\ off[k] \in Nat /\ off[k] <= Len(w)
           /\ x \in SubscriberStreams /\ x.buffer \in Seq(Nat) /\ Len(x.buffer) \in Nat
           /\ e - Len(x.buffer) = off[k]
<1>1. x \in SubscriberStreams /\ k \in 0 .. Len(ps) /\ e - Len(x.buffer) = off[k]
  BY DEF At, Ready
<1>2. Len(ps) \in Nat /\ off \in [0 .. Len(ps) -> 0 .. Len(w)] /\ Len(w) \in Nat
  BY DEF Layout
<1>. QED  BY <1>1, <1>2, FieldsOf

\* What a turn of the loop finds.
Turned(w, ps, off, e, x, k, c, r) ==
    \/ r.res = "more" /\ r.x = x /\ Incomplete(ps, off, e, k)
    \/ /\ k < Len(ps) /\ r.res = "ok" /\ r.object = WithEnd(ps[k + 1], c)
       /\ At(w, ps, off, e, r.x, k + 1) /\ r.x.closed = (x.closed \/ c)
       /\ Len(r.x.buffer) < Len(x.buffer)

\* A reader behind one object is behind the next one.
LEMMA MovedAt ==
    ASSUME NEW w, NEW ps, NEW off, NEW e \in 0 .. Len(w), NEW x, NEW k, NEW c, NEW y, NEW n \in Nat,
           Layout(w, ps, off), At(w, ps, off, e, x, k), k < Len(ps), n > 0,
           off[k + 1] = off[k] + n, Len(x.buffer) >= n, Moved(IsFetch(w), x, ps[k + 1], c, n, y)
    PROVE  At(w, ps, off, e, y, k + 1) /\ Len(y.buffer) < Len(x.buffer)
<1> DEFINE b == x.buffer
           d == SubSeq(b, n + 1, Len(b))
           fetch == IsFetch(w)
<1>1. /\ k \in Nat /\ Len(ps) \in Nat /\ off[k] \in Nat
      /\ b \in Seq(Nat) /\ Len(b) \in Nat /\ e - Len(b) = off[k]
  BY AtFields
<1>2. /\ d \in Seq(Nat) /\ Len(d) = Len(b) - n /\ \A j \in 1 .. Len(b) - n : d[j] = b[n + j]
  <2>1. n \in 0 .. Len(b)
    BY <1>1
  <2> HIDE DEF b
  <2>. QED  BY ONLY <1>1, <2>1, LeftOf
<1>3. /\ y \in SubscriberStreams /\ y.type = x.type /\ y.group = x.group /\ y.subgroup = x.subgroup
      /\ y.priority = x.priority /\ y.ascending = x.ascending /\ y.parsed = x.parsed
      /\ y.got = TRUE /\ y.lastObject = ps[k + 1].id /\ (fetch => y.lastGroup = ps[k + 1].group)
      /\ y.buffer = d
  BY DEF Moved
<1>4. \A j \in 1 .. Len(b) : b[j] = w[off[k] + j]
  BY DEF At
<1>5. Before(ps, k + 1) = [got |-> TRUE, group |-> ps[k + 1].group, id |-> ps[k + 1].id]
  <2>1. k + 1 # 0
    BY <1>1
  <2>. QED  BY <2>1 DEF Before
<1>6. Ready(fetch, Before(ps, k + 1), y)
  <2>1. /\ fetch => x.type = FETCH_HEADER /\ x.ascending = OkAscending
        /\ ~fetch => x.type = Ordinary /\ x.priority = PRIORITY
    BY DEF At, Ready
  <2> DEFINE m == Before(ps, k + 1)
  <2>2. m.got = TRUE /\ m.group = ps[k + 1].group /\ m.id = ps[k + 1].id
    BY <1>5
  <2> HIDE DEF m, fetch, d
  <2>3. Ready(fetch, m, y)
    BY <1>3, <2>1, <2>2 DEF Ready
  <2>. QED  BY <2>3 DEF m
<1> HIDE DEF d, b, fetch
<1>7. k + 1 \in 0 .. Len(ps)
  BY <1>1
<1>8. e - Len(d) = off[k + 1] /\ Len(d) < Len(b)
  BY <1>1, <1>2
<1>9. ASSUME NEW j \in 1 .. Len(d) PROVE d[j] = w[off[k + 1] + j]
  <2>2. j \in 1 .. Len(b) - n
    BY <1>2
  <2>1. n + j \in 1 .. Len(b) /\ off[k] + (n + j) = off[k + 1] + j /\ j \in 1 .. Len(b) - n
    <3>1. off[k + 1] = off[k] + n
      OBVIOUS
    <3>. QED  BY ONLY <1>1, <2>2, <3>1, n \in Nat
  <2>. QED  BY <1>2, <1>4, <2>1
<1>10. x.parsed /\ (~fetch => x.group = w[3] /\ x.subgroup = w[4])
  BY DEF At, fetch
<1>11. At(w, ps, off, e, y, k + 1)
  BY <1>3, <1>6, <1>7, <1>8, <1>9, <1>10 DEF At, fetch
<1>. QED  BY <1>3, <1>8, <1>11 DEF b

LEMMA TurnAt ==
    ASSUME NEW w, NEW ps, NEW off, NEW e \in 0 .. Len(w), NEW x, NEW k, NEW c \in BOOLEAN,
           Layout(w, ps, off), At(w, ps, off, e, x, k), x.buffer # <<>>
    PROVE  Turned(w, ps, off, e, x, k, c, ParseObject(x, c))
<1> DEFINE b == x.buffer
           i == k + 1
           p == ps[i]
           prev == Before(ps, k)
           fetch == IsFetch(w)
           f == Frame(fetch, prev, p)
           r == ParseObject(x, c)
<1>1. /\ k \in Nat /\ k <= Len(ps) /\ Len(ps) \in Nat /\ off[k] \in Nat /\ off[k] <= Len(w)
      /\ x \in SubscriberStreams /\ b \in Seq(Nat) /\ Len(b) \in Nat /\ e - Len(b) = off[k]
  BY AtFields
<1>2. Len(w) \in Nat /\ off[Len(ps)] = Len(w)
  BY DEF Layout
<1>3. k < Len(ps)
  <2>1. Len(b) > 0
    BY <1>1
  <2>2. k # Len(ps)
    BY <1>1, <1>2, <2>1
  <2>. QED  BY <1>1, <2>2
<1>4. i \in 1 .. Len(ps) /\ i - 1 = k
  BY <1>1, <1>3
<1> HIDE DEF i
<1>5. ObjectAt(w, ps, off, i)
  BY <1>4 DEF Layout
<1>6. /\ Follows(fetch, prev, p) /\ (~fetch => p.group = w[3] /\ p.subgroup = w[4])
      /\ off[i] = off[k] + Len(f) /\ \A j \in 1 .. Len(f) : w[off[k] + j] = f[j]
  BY <1>4, <1>5 DEF ObjectAt
<1>7. fetch \in BOOLEAN
  BY DEF IsFetch
<1> HIDE DEF fetch, prev, p, f
<1>8. FrameOf(fetch, prev, p, f)
  BY <1>6, <1>7, FrameIs DEF f
<1>9. Len(f) \in Nat /\ Len(f) > 0
  BY <1>8 DEF FrameOf
<1>10. /\ Ready(fetch, prev, x) /\ (~fetch => x.group = w[3] /\ x.subgroup = w[4])
       /\ \A j \in 1 .. Len(b) : b[j] = w[off[k] + j]
  BY DEF At, fetch, prev
<1>11. Begins(b, f)
  <2> SUFFICES ASSUME NEW j \in 1 .. Len(f), j <= Len(b) PROVE b[j] = f[j]
    BY DEF Begins
  <2> HIDE DEF b
  <2>1. j \in 1 .. Len(b)
    BY <1>1, <1>9
  <2>. QED  BY <1>6, <1>10, <2>1
<1>12. ReadIs(fetch, x, p, c, Len(f), r)
  <2>1. ~fetch => p.group = x.group /\ p.subgroup = x.subgroup
    BY <1>6, <1>10
  <2>. QED  BY ONLY c \in BOOLEAN, <1>6, <1>7, <1>8, <1>10, <1>11, <2>1, ObjectRead
<1> HIDE DEF r
<1>13. CASE Len(b) < Len(f)
  <2>1. r.res = "more" /\ r.x = x
    BY <1>12, <1>13 DEF ReadIs
  <2>2. e < off[i]
    <3> HIDE DEF b
    <3>. QED  BY <1>1, <1>6, <1>9, <1>13
  <2>3. Incomplete(ps, off, e, k)
    BY <2>2 DEF Incomplete, i
  <2>. QED  BY <2>1, <2>3 DEF Turned, r
<1>14. CASE Len(b) >= Len(f)
  <2>1. r.res = "ok" /\ r.object = WithEnd(p, c) /\ Moved(fetch, x, p, c, Len(f), r.x)
    BY <1>12, <1>14 DEF ReadIs
  <2>2. At(w, ps, off, e, r.x, k + 1) /\ Len(r.x.buffer) < Len(x.buffer)
    <3>1. off[k + 1] = off[k] + Len(f) /\ Moved(IsFetch(w), x, ps[k + 1], c, Len(f), r.x)
      BY <1>6, <2>1 DEF fetch, p, i
    <3> DEFINE n == Len(f)
               y == r.x
    <3>2. n \in Nat /\ n > 0 /\ Len(x.buffer) >= n /\ off[k + 1] = off[k] + n /\ Moved(IsFetch(w), x, ps[k + 1], c, n, y)
      BY <1>9, <1>14, <3>1
    <3> HIDE DEF n, y
    <3>3. At(w, ps, off, e, y, k + 1) /\ Len(y.buffer) < Len(x.buffer)
      BY ONLY e \in 0 .. Len(w), Layout(w, ps, off), At(w, ps, off, e, x, k), <1>3, <3>2, MovedAt
    <3>. QED  BY <3>3 DEF y
  <2>3. r.x.closed = (x.closed \/ c)
    BY <2>1 DEF Moved
  <2>. QED  BY <1>3, <2>1, <2>2, <2>3 DEF Turned, p, i, r
<1>15. Len(b) < Len(f) \/ Len(b) >= Len(f)
  <2> HIDE DEF b
  <2>. QED  BY ONLY <1>1, <1>9
<1>. QED  BY <1>13, <1>14, <1>15

\* A state of the loop of imquic_moq_parse_message that started behind the m-th object.
LoopStates == [res : {"ok", "more"}, x : SubscriberStreams, found : Seq(Shows)]

Loop(w, ps, off, e, m, c) ==
    {st \in LoopStates :
        /\ At(w, ps, off, e, st.x, m + Len(st.found))
        /\ \A i \in 1 .. Len(st.found) : st.found[i] = WithEnd(ps[m + i], c)
        /\ st.x.closed = (c /\ st.found # <<>>)
        /\ st.res = "more" => Incomplete(ps, off, e, m + Len(st.found))}

LEMMA LoopState ==
    ASSUME NEW w, NEW ps, NEW off, NEW e, NEW m \in Nat, NEW c \in BOOLEAN, NEW res \in {"ok", "more"}, NEW x,
           NEW found \in Seq(Shows), At(w, ps, off, e, x, m + Len(found)),
           \A i \in 1 .. Len(found) : found[i] = WithEnd(ps[m + i], c),
           x.closed = (c /\ found # <<>>),
           res = "more" => Incomplete(ps, off, e, m + Len(found))
    PROVE  [res |-> res, x |-> x, found |-> found] \in Loop(w, ps, off, e, m, c)
<1>1. x \in SubscriberStreams
  BY DEF At, Ready
<1>. QED  BY <1>1 DEF Loop, LoopStates

LoopHas(w, ps, off, e, m, c, st) ==
    /\ st = [res |-> st.res, x |-> st.x, found |-> st.found]
    /\ st.res \in {"ok", "more"} /\ st.x \in SubscriberStreams /\ st.x.buffer \in Seq(Nat)
    /\ Len(st.x.buffer) \in Nat /\ st.found \in Seq(Shows) /\ Len(st.found) \in Nat
    /\ At(w, ps, off, e, st.x, m + Len(st.found))
    /\ \A i \in 1 .. Len(st.found) : st.found[i] = WithEnd(ps[m + i], c)
    /\ st.x.closed = (c /\ st.found # <<>>)
    /\ st.res = "more" => Incomplete(ps, off, e, m + Len(st.found))

LEMMA StateOfLoop ==
    ASSUME NEW w, NEW ps, NEW off, NEW e, NEW m \in Nat, NEW c \in BOOLEAN, NEW st \in Loop(w, ps, off, e, m, c)
    PROVE  LoopHas(w, ps, off, e, m, c, st)
<1>1. st \in LoopStates
  BY DEF Loop
<1>2. /\ st = [res |-> st.res, x |-> st.x, found |-> st.found]
      /\ st.res \in {"ok", "more"} /\ st.x \in SubscriberStreams /\ st.found \in Seq(Shows)
  BY <1>1 DEF LoopStates
<1>3. st.x.buffer \in Seq(Nat) /\ Len(st.x.buffer) \in Nat /\ Len(st.found) \in Nat
  BY <1>2, FieldsOf
<1>. QED  BY <1>2, <1>3 DEF Loop, LoopHas

LEMMA OneMore ==
    ASSUME NEW found \in Seq(Shows), NEW o \in Shows
    PROVE  /\ Append(found, o) \in Seq(Shows) /\ Len(Append(found, o)) = Len(found) + 1
           /\ Append(found, o)[Len(found) + 1] = o /\ Append(found, o) # <<>>
           /\ \A i \in 1 .. Len(found) : Append(found, o)[i] = found[i]
<1>1. /\ Append(found, o) \in Seq(Shows) /\ Len(Append(found, o)) = Len(found) + 1
      /\ Append(found, o)[Len(found) + 1] = o
      /\ \A i \in 1 .. Len(found) : Append(found, o)[i] = found[i]
  BY AppendProperties
<1>2. Len(found) \in Nat
  OBVIOUS
<1> DEFINE g == Append(found, o)
<1>3. g # <<>>
  <2>1. Len(g) # 0
    <3> HIDE DEF g
    <3>. QED  BY <1>1, <1>2 DEF g
  <2> HIDE DEF g
  <2>. QED  BY <2>1
<1>. QED  BY <1>1, <1>3

\* A turn takes the next object whole or finds it incomplete.
LEMMA TurnKept ==
    ASSUME NEW w, NEW ps, NEW off, NEW e \in 0 .. Len(w), NEW m \in Nat, NEW c \in BOOLEAN,
           Layout(w, ps, off), NEW st \in Loop(w, ps, off, e, m, c)
    PROVE  /\ ParseTurn(st, c) \in Loop(w, ps, off, e, m, c)
           /\ st.res = "ok" /\ st.x.buffer # <<>> =>
                 \/ ParseTurn(st, c).res = "more"
                 \/ Len(ParseTurn(st, c).x.buffer) < Len(st.x.buffer)
           /\ st.res # "ok" \/ st.x.buffer = <<>> => ParseTurn(st, c) = st
<1> DEFINE x == st.x
           found == st.found
           k == m + Len(found)
           r == ParseObject(x, c)
<1>1. /\ st = [res |-> st.res, x |-> st.x, found |-> st.found]
      /\ st.res \in {"ok", "more"} /\ x \in SubscriberStreams /\ x.buffer \in Seq(Nat)
      /\ Len(x.buffer) \in Nat /\ found \in Seq(Shows) /\ Len(found) \in Nat
      /\ At(w, ps, off, e, x, k)
      /\ \A i \in 1 .. Len(found) : found[i] = WithEnd(ps[m + i], c)
      /\ x.closed = (c /\ found # <<>>)
      /\ st.res = "more" => Incomplete(ps, off, e, k)
  <2>1. LoopHas(w, ps, off, e, m, c, st)
    BY StateOfLoop
  <2>. QED  BY <2>1 DEF LoopHas
<1>2. CASE st.res # "ok" \/ x.buffer = <<>>
  BY <1>2 DEF ParseTurn
<1>3. CASE st.res = "ok" /\ x.buffer # <<>>
  <2>1. Turned(w, ps, off, e, x, k, c, r)
    <3> HIDE DEF x, k, r
    <3>. QED  BY ONLY e \in 0 .. Len(w), c \in BOOLEAN, Layout(w, ps, off), <1>1, <1>3, TurnAt DEF r
  <2>2. ParseTurn(st, c) = [res |-> r.res, x |-> r.x,
                            found |-> IF r.res = "ok" THEN Append(found, r.object) ELSE found]
    BY <1>3 DEF ParseTurn
  <2> HIDE DEF r, x, found, k
  <2>3. CASE r.res = "more" /\ r.x = x /\ Incomplete(ps, off, e, k)
    <3>1. ParseTurn(st, c) = [res |-> "more", x |-> x, found |-> found]
      BY <2>2, <2>3
    <3>2. [res |-> "more", x |-> x, found |-> found] \in Loop(w, ps, off, e, m, c)
      BY <1>1, <2>3, LoopState DEF k
    <3>. QED  BY <1>3, <3>1, <3>2 DEF x
  <2>4. CASE /\ k < Len(ps) /\ r.res = "ok" /\ r.object = WithEnd(ps[k + 1], c)
             /\ At(w, ps, off, e, r.x, k + 1) /\ r.x.closed = (x.closed \/ c)
             /\ Len(r.x.buffer) < Len(x.buffer)
    <3> DEFINE o == r.object
               g == Append(found, o)
    <3>1. ParseTurn(st, c) = [res |-> "ok", x |-> r.x, found |-> g]
      BY <2>2, <2>4
    <3>2. o = WithEnd(ps[k + 1], c) /\ o \in Shows
      <4>1. k + 1 \in 1 .. Len(ps) /\ ps \in Seq(Shows)
        BY <1>1, <2>4 DEF k, Layout
      <4>2. ps[k + 1] \in Shows
        BY <4>1
      <4>. QED  BY <2>4, <4>2, WithEndShown
    <3> HIDE DEF o
    <3>3. /\ g \in Seq(Shows) /\ Len(g) = Len(found) + 1 /\ g[Len(found) + 1] = o /\ g # <<>>
          /\ \A i \in 1 .. Len(found) : g[i] = found[i]
      BY <1>1, <3>2, OneMore
    <3> HIDE DEF g
    <3>4. ASSUME NEW i \in 1 .. Len(g) PROVE g[i] = WithEnd(ps[m + i], c)
      <4>1. CASE i = Len(found) + 1
        <5>1. m + i = k + 1
          BY <1>1, <4>1 DEF k
        <5>. QED  BY <3>2, <3>3, <4>1, <5>1
      <4>2. CASE i # Len(found) + 1
        <5>1. i \in 1 .. Len(found)
          BY <1>1, <3>3, <4>2
        <5>. QED  BY <1>1, <3>3, <5>1
      <4>. QED  BY <4>1, <4>2
    <3>5. m + Len(g) = k + 1
      BY <1>1, <3>3 DEF k
    <3>6. r.x.closed = (c /\ g # <<>>)
      <4>1. r.x.closed = (x.closed \/ c) /\ x.closed = (c /\ found # <<>>) /\ g # <<>>
        BY <1>1, <2>4, <3>3
      <4>. QED  BY ONLY <4>1, c \in BOOLEAN
    <3>7. [res |-> "ok", x |-> r.x, found |-> g] \in Loop(w, ps, off, e, m, c)
      <4> DEFINE y == r.x
                 res == "ok"
      <4>1. At(w, ps, off, e, y, m + Len(g)) /\ y.closed = (c /\ g # <<>>)
        BY <2>4, <3>5, <3>6
      <4>2. res \in {"ok", "more"} /\ (res = "more" => Incomplete(ps, off, e, m + Len(g)))
        OBVIOUS
      <4> HIDE DEF y, res
      <4>3. [res |-> res, x |-> y, found |-> g] \in Loop(w, ps, off, e, m, c)
        BY ONLY m \in Nat, c \in BOOLEAN, <3>3, <3>4, <4>1, <4>2, LoopState
      <4>. QED  BY <4>3 DEF y, res
    <3>8. ParseTurn(st, c).x = r.x
      BY <3>1
    <3>. QED  BY <1>3, <2>4, <3>1, <3>7, <3>8 DEF x
  <2>. QED  BY <2>1, <2>3, <2>4 DEF Turned
<1>. QED  BY <1>1, <1>2, <1>3

Stays(S, c) == \A st \in S : ParseTurn(st, c) \in S

\* The states g that the loop goes through.
TurnsOf(x, c, S, a, g) ==
    /\ g \in [0 .. Len(x.buffer) -> S] /\ ParseObjects(x, c) = g[Len(x.buffer)] /\ g[0] = a
    /\ \A i \in 1 .. Len(x.buffer) : g[i] = ParseTurn(g[i - 1], c)

LEMMA ParseObjectsIs ==
    ASSUME NEW x, NEW c, NEW S, NEW a, a \in S, a = [res |-> "ok", x |-> x, found |-> <<>>],
           Len(x.buffer) \in Nat, Stays(S, c)
    PROVE  \E g : TurnsOf(x, c, S, a, g)
<1> DEFINE n == Len(x.buffer)
           turn == [st \in S |-> ParseTurn(st, c)]
           F == [i \in 1 .. n |-> turn]
           Turns(r) == [i \in 0 .. n |-> IF i = 0 THEN [res |-> "ok", x |-> x, found |-> <<>>]
                                         ELSE ParseTurn(r[i - 1], c)]
<1>1. F \in [1 .. n -> [S -> S]]
  BY DEF Stays
<1>2. PICK g \in [0 .. n -> S] : g[0] = a /\ \A i \in 1 .. n : g[i] = F[i][g[i - 1]]
  <2> HIDE DEF F, n
  <2>1. n \in Nat
    BY DEF n
  <2>2. Runs(S, a, n, F) # {}
    BY ONLY <1>1, <2>1, a \in S, LoopRuns
  <2>. QED  BY <2>2 DEF Runs
<1>3. \A i \in 1 .. n : g[i] = ParseTurn(g[i - 1], c)
  <2>1. ASSUME NEW i \in 1 .. n PROVE i - 1 \in 0 .. n
    OBVIOUS
  <2>. QED  BY <1>2, <2>1
<1>4. g = Turns(g)
  BY <1>2, <1>3
<1> DEFINE r == CHOOSE r : r = Turns(r)
<1>5. r = Turns(r)
  <2> HIDE DEF Turns
  <2>. QED  BY <1>4
<1>6. ParseObjects(x, c) = r[n]
  BY DEF ParseObjects
<1> HIDE DEF r, n, F
<1>7. n \in Nat
  BY DEF n
<1>8. r[0] = g[0] /\ \A i \in 1 .. n : r[i] = ParseTurn(r[i - 1], c)
  <2>1. 0 \in 0 .. n /\ \A i \in 1 .. n : i \in 0 .. n /\ i # 0
    BY <1>7
  <2>2. r[0] = a
    BY <1>5, <2>1
  <2>3. ASSUME NEW i \in 1 .. n PROVE r[i] = ParseTurn(r[i - 1], c)
    BY <1>5, <2>1
  <2>. QED  BY <1>2, <2>2, <2>3
<1>9. r[n] = g[n]
  <2> DEFINE T == {i \in 0 .. n : r[i] = g[i]}
  <2>1. 0 \in T
    BY <1>7, <1>8
  <2>2. \A i \in 1 .. n : i - 1 \in T => i \in T
    BY <1>3, <1>7, <1>8
  <2>3. n \in 0 .. n
    BY <1>7
  <2>4. 0 .. n \subseteq T
    <3> HIDE DEF T
    <3>. QED  BY <1>7, <2>1, <2>2, UpTo
  <2>. QED  BY <2>3, <2>4
<1>. QED  BY <1>2, <1>3, <1>6, <1>9 DEF n, TurnsOf

\* Every object that is whole is found, and the next one is incomplete.
LEMMA Parsed ==
    ASSUME NEW w, NEW ps, NEW off, NEW e \in 0 .. Len(w), NEW m \in Nat, NEW c \in BOOLEAN, NEW x,
           Layout(w, ps, off), At(w, ps, off, e, x, m), ~x.closed
    PROVE  LET st == ParseObjects(x, c) IN
           st \in Loop(w, ps, off, e, m, c) /\ Incomplete(ps, off, e, m + Len(st.found))
<1> DEFINE n == Len(x.buffer)
           S == Loop(w, ps, off, e, m, c)
           a == [res |-> "ok", x |-> x, found |-> <<>>]
<1>1. n \in Nat
  BY AtFields
<1>2. a \in S
  <2> DEFINE res == "ok"
             found == <<>>
  <2>1. found \in Seq(Shows) /\ Len(found) = 0 /\ m + 0 = m /\ found = <<>>
    OBVIOUS
  <2>2. res \in {"ok", "more"} /\ (res = "more" => Incomplete(ps, off, e, m + Len(found)))
    OBVIOUS
  <2>3. x.closed = (c /\ found # <<>>)
    <3>1. x.closed \in BOOLEAN
      <4>1. x \in SubscriberStreams
        BY AtFields
      <4>. QED  BY <4>1, FieldsOf
    <3>2. (c /\ found # <<>>) = FALSE
      OBVIOUS
    <3>3. x.closed = FALSE
      BY <3>1
    <3>. QED  BY ONLY <3>2, <3>3
  <2> HIDE DEF res, found
  <2>4. At(w, ps, off, e, x, m + Len(found))
    BY <2>1
  <2>5. ASSUME NEW i \in 1 .. Len(found) PROVE found[i] = WithEnd(ps[m + i], c)
    BY <2>1
  <2>6. [res |-> res, x |-> x, found |-> found] \in Loop(w, ps, off, e, m, c)
    BY ONLY m \in Nat, c \in BOOLEAN, <2>1, <2>2, <2>3, <2>4, <2>5, LoopState
  <2>. QED  BY <2>6 DEF res, found
<1>3. ASSUME NEW st \in S
      PROVE  /\ ParseTurn(st, c) \in S
             /\ st.res = "ok" /\ st.x.buffer # <<>> =>
                 \/ ParseTurn(st, c).res = "more"
                 \/ Len(ParseTurn(st, c).x.buffer) < Len(st.x.buffer)
             /\ st.res # "ok" \/ st.x.buffer = <<>> => ParseTurn(st, c) = st
  BY TurnKept
<1>4. ASSUME NEW st \in S
      PROVE  /\ st.res \in {"ok", "more"} /\ st.x.buffer \in Seq(Nat) /\ Len(st.x.buffer) \in Nat
             /\ At(w, ps, off, e, st.x, m + Len(st.found))
             /\ st.res = "more" => Incomplete(ps, off, e, m + Len(st.found))
  <2>1. LoopHas(w, ps, off, e, m, c, st)
    BY StateOfLoop
  <2>. QED  BY <2>1 DEF LoopHas
<1> HIDE DEF S
<1>5. PICK g \in [0 .. n -> S] :
              /\ ParseObjects(x, c) = g[n] /\ g[0] = a
              /\ \A i \in 1 .. n : g[i] = ParseTurn(g[i - 1], c)
  <2>1. a = [res |-> "ok", x |-> x, found |-> <<>>]
    OBVIOUS
  <2>2. Stays(S, c)
    BY <1>3 DEF Stays
  <2> HIDE DEF a
  <2>3. Len(x.buffer) \in Nat
    BY <1>1
  <2>4. PICK g : TurnsOf(x, c, S, a, g)
    BY ONLY <1>2, <2>1, <2>2, <2>3, ParseObjectsIs
  <2>. QED  BY <2>4 DEF TurnsOf
<1> DEFINE Left(i) == g[i].res = "more" \/ g[i].x.buffer = <<>> \/ Len(g[i].x.buffer) + i <= n
           T == {i \in 0 .. n : Left(i)}
<1>6. 0 .. n \subseteq T
  <2>1. 0 \in T
    BY <1>1, <1>5
  <2>2. ASSUME NEW i \in 1 .. n, i - 1 \in T PROVE i \in T
    <3>1. i - 1 \in 0 .. n /\ i \in 0 .. n /\ g[i - 1] \in S /\ g[i] \in S /\ g[i] = ParseTurn(g[i - 1], c)
      <4>1. i - 1 \in 0 .. n /\ i \in 0 .. n
        BY <1>1
      <4>. QED  BY ONLY <1>5, <4>1, i \in 1 .. n
    <3>2. CASE g[i - 1].res # "ok" \/ g[i - 1].x.buffer = <<>>
      <4>1. g[i] = g[i - 1] /\ g[i - 1].res \in {"ok", "more"}
        BY <1>3, <1>4, <3>1, <3>2
      <4>. QED  BY <3>1, <3>2, <4>1
    <3>3. CASE g[i - 1].res = "ok" /\ g[i - 1].x.buffer # <<>>
      <4> DEFINE before == Len(g[i - 1].x.buffer)
                 after == Len(g[i].x.buffer)
      <4>1. before + (i - 1) <= n
        BY <2>2, <3>3
      <4>2. g[i].res = "more" \/ after < before
        BY <1>3, <3>1, <3>3
      <4>3. before \in Nat /\ after \in Nat /\ i \in Nat /\ n \in Nat
        BY <1>1, <1>4, <3>1
      <4>4. ASSUME after < before PROVE after + i <= n
        <5> HIDE DEF before, after, n
        <5>. QED  BY ONLY <4>1, <4>3, <4>4
      <4>5. Left(i)
        BY <4>2, <4>4
      <4>. QED  BY <3>1, <4>5
    <3>. QED  BY <3>2, <3>3
  <2> HIDE DEF T
  <2>. QED  BY <1>1, <2>1, <2>2, UpTo
<1>7. Left(n) /\ g[n] \in S
  <2>1. n \in 0 .. n
    BY <1>1
  <2>. QED  BY <1>5, <1>6, <2>1
<1> DEFINE y == g[n].x
           k == m + Len(g[n].found)
<1>8. Incomplete(ps, off, e, k)
  <2>1. CASE g[n].res = "more"
    BY <1>4, <1>7, <2>1
  <2>2. CASE y.buffer = <<>>
    <3>1. At(w, ps, off, e, y, k)
      BY <1>4, <1>7
    <3> HIDE DEF y, k
    <3>2. e = off[k] /\ k \in Nat
      <4>1. e - Len(y.buffer) = off[k] /\ k \in Nat
        BY <3>1, AtFields
      <4>. QED  BY <2>2, <4>1
    <3>3. ASSUME k < Len(ps) PROVE off[k] < off[k + 1]
      <4> DEFINE i == k + 1
                 f == Frame(IsFetch(w), Before(ps, i - 1), ps[i])
      <4>1. i \in 1 .. Len(ps) /\ i - 1 = k /\ i \in 0 .. Len(ps) /\ k \in 0 .. Len(ps)
        BY <3>2, <3>3 DEF Layout
      <4>2. ObjectAt(w, ps, off, i)
        BY <4>1 DEF Layout
      <4>3. off[i] = off[k] + Len(f) /\ Follows(IsFetch(w), Before(ps, i - 1), ps[i])
        BY <4>1, <4>2 DEF ObjectAt
      <4>4. Len(f) \in Nat /\ Len(f) >= 4
        <5>1. IsFetch(w) \in BOOLEAN
          BY DEF IsFetch
        <5>2. FrameOf(IsFetch(w), Before(ps, i - 1), ps[i], f)
          BY <4>3, <5>1, FrameIs
        <5>. QED  BY <5>2 DEF FrameOf
      <4>5. off[k] \in Nat
        BY <3>1, AtFields
      <4> HIDE DEF f
      <4>. QED  BY <4>3, <4>4, <4>5
    <3>. QED  BY <3>2, <3>3 DEF Incomplete
  <2>3. CASE Len(y.buffer) + n <= n
    <3>1. y.buffer \in Seq(Nat) /\ Len(y.buffer) \in Nat
      BY <1>4, <1>7
    <3>2. y.buffer = <<>>
      <4> HIDE DEF y, n
      <4>1. Len(y.buffer) = 0
        BY ONLY <1>1, <2>3, <3>1
      <4>. QED  BY ONLY <3>1, <4>1, EmptySeq
    <3>. QED  BY <2>2, <3>2
  <2>. QED  BY <1>7, <2>1, <2>2, <2>3
<1>. QED  BY <1>5, <1>7, <1>8 DEF S

LEMMA Increases ==
    ASSUME NEW w, NEW ps, NEW off, NEW k \in Nat, Layout(w, ps, off), k < Len(ps)
    PROVE  off[k] \in Nat /\ off[k + 1] \in Nat /\ off[k] < off[k + 1] /\ off[k + 1] <= Len(w)
<1> DEFINE i == k + 1
           f == Frame(IsFetch(w), Before(ps, i - 1), ps[i])
<1>1. i \in 1 .. Len(ps) /\ i - 1 = k /\ i \in 0 .. Len(ps) /\ k \in 0 .. Len(ps)
  BY DEF Layout
<1>2. ObjectAt(w, ps, off, i)
  BY <1>1 DEF Layout
<1>3. off[i] = off[k] + Len(f) /\ Follows(IsFetch(w), Before(ps, i - 1), ps[i])
  BY <1>1, <1>2 DEF ObjectAt
<1>4. Len(f) \in Nat /\ Len(f) >= 4
  <2>1. IsFetch(w) \in BOOLEAN
    BY DEF IsFetch
  <2>2. FrameOf(IsFetch(w), Before(ps, i - 1), ps[i], f)
    BY <1>3, <2>1, FrameIs
  <2>. QED  BY <2>2 DEF FrameOf
<1>5. off[k] \in 0 .. Len(w) /\ off[i] \in 0 .. Len(w) /\ Len(w) \in Nat
  BY <1>1 DEF Layout
<1> HIDE DEF f, i
<1>6. off[k] \in Nat /\ off[i] \in Nat /\ off[k] < off[i] /\ off[i] <= Len(w)
  BY ONLY <1>3, <1>4, <1>5
<1>. QED  BY <1>6 DEF i

\* When all there is was taken every object was given.
LEMMA AllTaken ==
    ASSUME NEW w, NEW ps, NEW off, NEW x, NEW k, Layout(w, ps, off), At(w, ps, off, Len(w), x, k),
           Incomplete(ps, off, Len(w), k)
    PROVE  k = Len(ps)
<1>1. k \in Nat /\ k <= Len(ps) /\ Len(ps) \in Nat
  BY AtFields
<1>2. Len(w) \in Nat
  BY DEF Layout
<1>3. CASE k < Len(ps)
  <2>1. off[k + 1] \in Nat /\ off[k + 1] <= Len(w)
    BY <1>1, <1>3, Increases
  <2>2. Len(w) < off[k + 1]
    BY <1>3 DEF Incomplete
  <2>. QED  BY ONLY <1>2, <2>1, <2>2
<1>. QED  BY <1>1, <1>3

\* A reader with more in its buffer.
Filled(x, b) == [x EXCEPT !.buffer = @ \o b]

LEMMA WithBuffer ==
    ASSUME NEW x \in SubscriberStreams, NEW b \in Seq(Nat)
    PROVE  LET y == [x EXCEPT !.buffer = b] IN
           /\ y \in SubscriberStreams /\ y.type = x.type /\ y.group = x.group /\ y.subgroup = x.subgroup
           /\ y.priority = x.priority /\ y.ascending = x.ascending /\ y.parsed = x.parsed /\ y.got = x.got
           /\ y.lastGroup = x.lastGroup /\ y.lastObject = x.lastObject /\ y.closed = x.closed
           /\ y.buffer = b
BY DEF SubscriberStreams

LEMMA PieceOf ==
    ASSUME NEW w \in Seq(Nat), NEW e \in 0 .. Len(w), NEW n \in 0 .. Len(w) - e
    PROVE  /\ SubSeq(w, e + 1, e + n) \in Seq(Nat) /\ Len(SubSeq(w, e + 1, e + n)) = n
           /\ \A j \in 1 .. n : SubSeq(w, e + 1, e + n)[j] = w[e + j]
OBVIOUS

\* With the next n fields in its buffer the reader x is where it was.
MoreAt(w, ps, off, e, n, x, k) ==
    LET y == Filled(x, SubSeq(w, e + 1, e + n)) IN
    At(w, ps, off, e + n, y, k) /\ y.closed = x.closed

LEMMA NextPiece ==
    ASSUME NEW w, NEW ps, NEW off, NEW e \in 0 .. Len(w), NEW n \in 0 .. Len(w) - e, NEW x, NEW k,
           Layout(w, ps, off), At(w, ps, off, e, x, k)
    PROVE  MoreAt(w, ps, off, e, n, x, k)
<1> DEFINE b == x.buffer
           c == SubSeq(w, e + 1, e + n)
           d == b \o c
           y == [x EXCEPT !.buffer = d]
<1>1. /\ k \in Nat /\ off[k] \in Nat /\ x \in SubscriberStreams /\ b \in Seq(Nat) /\ Len(b) \in Nat
      /\ e - Len(b) = off[k] /\ w \in Seq(Nat) /\ Len(w) \in Nat /\ e \in Nat /\ n \in Nat
      /\ k \in 0 .. Len(ps)
  <2>1. w \in Seq(Nat) /\ Len(w) \in Nat /\ k \in 0 .. Len(ps)
    BY DEF Layout, At
  <2>. QED  BY <2>1, AtFields
<1>2. c \in Seq(Nat) /\ Len(c) = n /\ \A j \in 1 .. n : c[j] = w[e + j]
  BY <1>1, PieceOf
<1>3. /\ d \in Seq(Nat) /\ Len(d) = Len(b) + n
      /\ \A j \in 1 .. Len(b) + n : d[j] = IF j <= Len(b) THEN b[j] ELSE c[j - Len(b)]
  <2> HIDE DEF b, c
  <2>. QED  BY <1>1, <1>2, ConcatProperties
<1>4. Filled(x, c) = y
  BY DEF Filled
<1> HIDE DEF b, c, d
<1>5. /\ y \in SubscriberStreams /\ y.type = x.type /\ y.group = x.group /\ y.subgroup = x.subgroup
      /\ y.priority = x.priority /\ y.ascending = x.ascending /\ y.parsed = x.parsed /\ y.got = x.got
      /\ y.lastGroup = x.lastGroup /\ y.lastObject = x.lastObject /\ y.closed = x.closed
      /\ y.buffer = d
  BY <1>1, <1>3, WithBuffer
<1> HIDE DEF y
<1>6. \A j \in 1 .. Len(b) : b[j] = w[off[k] + j]
  BY DEF At, b
<1>7. ASSUME NEW j \in 1 .. Len(d) PROVE d[j] = w[off[k] + j]
  <2>1. j \in 1 .. Len(b) + n
    BY <1>3
  <2>2. CASE j <= Len(b)
    <3>1. j \in 1 .. Len(b)
      BY <1>1, <2>1, <2>2
    <3>. QED  BY <1>3, <1>6, <2>1, <2>2, <3>1
  <2>3. CASE ~(j <= Len(b))
    <3>1. j - Len(b) \in 1 .. n /\ e + (j - Len(b)) = off[k] + j
      BY ONLY <1>1, <2>1, <2>3
    <3>2. d[j] = c[j - Len(b)]
      BY <1>3, <2>1, <2>3
    <3>. QED  BY <1>2, <3>1, <3>2
  <2>. QED  BY <2>2, <2>3
<1>8. (e + n) - Len(d) = off[k]
  BY ONLY <1>1, <1>3
<1>9. Ready(IsFetch(w), Before(ps, k), y)
  <2>1. Ready(IsFetch(w), Before(ps, k), x)
    BY DEF At
  <2>. QED  BY <1>5, <2>1 DEF Ready
<1>10. x.parsed /\ (~IsFetch(w) => x.group = w[3] /\ x.subgroup = w[4])
  BY DEF At
<1>11. At(w, ps, off, e + n, y, k)
  BY <1>1, <1>5, <1>7, <1>8, <1>9, <1>10 DEF At
<1>. QED  BY <1>4, <1>5, <1>11 DEF c, MoreAt

\* What a piece b gives to a reader x.
Received(x, b, c) == IF b # <<>> THEN ParseObjects(Filled(x, b), c) ELSE [res |-> "ok", x |-> x, found |-> <<>>]

LEMMA ReceivedIs ==
    ASSUME NEW w, NEW ps, NEW off, NEW e \in 0 .. Len(w), NEW n \in 0 .. Len(w) - e, NEW x, NEW k,
           Layout(w, ps, off), At(w, ps, off, e, x, k), ~x.closed, Incomplete(ps, off, e, k),
           NEW c \in BOOLEAN
    PROVE  LET st == Received(x, SubSeq(w, e + 1, e + n), c) IN
           LoopHas(w, ps, off, e + n, k, c, st) /\ Incomplete(ps, off, e + n, k + Len(st.found))
<1> DEFINE b == SubSeq(w, e + 1, e + n)
           st == Received(x, b, c)
<1>1. /\ w \in Seq(Nat) /\ Len(w) \in Nat /\ k \in Nat /\ e \in Nat /\ n \in Nat /\ e + n \in 0 .. Len(w)
      /\ x \in SubscriberStreams
  <2>1. w \in Seq(Nat) /\ Len(w) \in Nat
    BY DEF Layout
  <2>. QED  BY <2>1, AtFields
<1>2. b \in Seq(Nat) /\ Len(b) = n
  BY <1>1
<1>3. At(w, ps, off, e + n, Filled(x, b), k) /\ Filled(x, b).closed = x.closed
  <2>1. MoreAt(w, ps, off, e, n, x, k)
    BY NextPiece
  <2>. QED  BY <2>1 DEF MoreAt
<1> HIDE DEF b
<1>4. CASE b # <<>>
  <2> DEFINE y == Filled(x, b)
             l == e + n
  <2>1. l \in 0 .. Len(w) /\ At(w, ps, off, l, y, k) /\ ~y.closed
    BY <1>1, <1>3
  <2>2. st = ParseObjects(y, c)
    BY <1>4 DEF Received
  <2> HIDE DEF y, l, st
  <2>3. ParseObjects(y, c) \in Loop(w, ps, off, l, k, c) /\ Incomplete(ps, off, l, k + Len(ParseObjects(y, c).found))
    BY ONLY <1>1, <2>1, c \in BOOLEAN, Layout(w, ps, off), Parsed
  <2>4. LoopHas(w, ps, off, l, k, c, st)
    BY <1>1, <2>2, <2>3, StateOfLoop
  <2>. QED  BY <2>2, <2>3, <2>4 DEF l, st, b
<1>5. CASE b = <<>>
  <2>1. n = 0 /\ e + n = e
    BY <1>1, <1>2, <1>5
  <2>2. st = [res |-> "ok", x |-> x, found |-> <<>>]
    BY <1>5 DEF Received
  <2>3. st.res = "ok" /\ st.x = x /\ st.found = <<>> /\ Len(st.found) = 0 /\ k + 0 = k /\ st.found \in Seq(Shows)
    BY <1>1, <2>2
  <2>4. x.closed = (c /\ <<>> # <<>>)
    BY <1>1, FieldsOf
  <2>5. x.buffer \in Seq(Nat) /\ Len(x.buffer) \in Nat
    BY <1>1, FieldsOf
  <2> HIDE DEF st
  <2>6. LoopHas(w, ps, off, e, k, c, st)
    <3>1. st = [res |-> st.res, x |-> st.x, found |-> st.found]
      BY <2>2, <2>3
    <3>2. At(w, ps, off, e, st.x, k + Len(st.found))
      BY <2>3
    <3>3. \A i \in 1 .. Len(st.found) : st.found[i] = WithEnd(ps[k + i], c)
      BY <2>3
    <3>. QED  BY <1>1, <2>3, <2>4, <2>5, <3>1, <3>2, <3>3 DEF LoopHas
  <2>7. Incomplete(ps, off, e, k + Len(st.found))
    BY <2>3
  <2>. QED  BY <2>1, <2>6, <2>7 DEF st, b
<1>. QED  BY <1>4, <1>5

LEMMA NewReader ==
    ASSUME NEW type \in Nat, NEW x, x = SubscriberStream(type)
    PROVE  /\ x \in SubscriberStreams /\ x.type = type /\ x.got = FALSE /\ x.lastObject = 0
           /\ x.lastGroup = 0 /\ x.closed = FALSE /\ x.buffer = <<>>
<1>1. <<>> \in Seq(Nat)
  OBVIOUS
<1>. QED  BY <1>1 DEF SubscriberStream, SubscriberStreams

\* The header of a subgroup's stream, in the fields b behind the type.
HeadOf(x, b) ==
    [res |-> "ok", used |-> 4,
     x |-> [x EXCEPT !.group = b[2], !.subgroup = b[3], !.priority = b[4],
                     !.first = SubgroupFields(x.type).first, !.parsed = TRUE]]

LEMMA SubgroupHeaderRead ==
    ASSUME NEW x, NEW b, x.type = Ordinary, ~(Len(b) < 4), ~(Len(b) <= 3)
    PROVE  ParseSubgroupHeader(x, b) = HeadOf(x, b)
<1> DEFINE f == SubgroupFields(x.type)
<1>1. f.subgroup = TRUE /\ f.priority = TRUE /\ f.violation = FALSE
  BY OrdinaryIs DEF SubgroupFields, Bit
<1> HIDE DEF f
<1>2. Flag(f.subgroup, 1) = 1 /\ Flag(f.priority, 1) = 1
  BY <1>1 DEF Flag
<1>3. 2 + 1 = 3 /\ 3 + 1 = 4
  OBVIOUS
<1> DEFINE y == [x EXCEPT !.group = b[2], !.subgroup = IF f.subgroup THEN b[3] ELSE 0,
                          !.priority = IF f.priority THEN b[3 + 1] ELSE 0,
                          !.first = f.first, !.parsed = TRUE]
<1>4. ParseSubgroupHeader(x, b) = [res |-> "ok", used |-> 3 + 1, x |-> y]
  BY <1>1, <1>2, <1>3 DEF ParseSubgroupHeader, f
<1>5. y = [x EXCEPT !.group = b[2], !.subgroup = b[3], !.priority = b[4], !.first = f.first, !.parsed = TRUE]
  BY <1>1, <1>3
<1>. QED  BY <1>3, <1>4, <1>5 DEF HeadOf, f

\* A new reader is in front of the first object.
LEMMA NewAt ==
    ASSUME NEW w, NEW ps, NEW off, NEW y \in SubscriberStreams, off[0] \in Nat, Len(ps) \in Nat,
           y.got = FALSE, y.lastObject = 0, y.lastGroup = 0, y.parsed, y.buffer = <<>>,
           \/ IsFetch(w) /\ y.type = FETCH_HEADER /\ y.ascending = OkAscending
           \/ /\ ~IsFetch(w) /\ y.type = Ordinary /\ y.priority = PRIORITY
              /\ y.group = w[3] /\ y.subgroup = w[4]
    PROVE  At(w, ps, off, off[0], y, 0)
<1> DEFINE m == Before(ps, 0)
<1>1. m.got = FALSE /\ m.group = 0 /\ m.id = 0
  BY DEF Before
<1> HIDE DEF m
<1>2. Ready(IsFetch(w), m, y)
  BY <1>1 DEF Ready
<1>3. off[0] - Len(y.buffer) = off[0] /\ Len(y.buffer) = 0 /\ 0 \in 0 .. Len(ps)
  OBVIOUS
<1>4. \A j \in 1 .. Len(y.buffer) : y.buffer[j] = w[off[0] + j]
  BY <1>3
<1>. QED  BY <1>2, <1>3, <1>4 DEF At, m

\* A new reader whose header has been read.
LEMMA HeaderRead ==
    ASSUME NEW w, NEW ps, NEW off, Layout(w, ps, off), NEW n \in 0 .. Len(w), n >= off[0],
           Ascending = OkAscending, NEW h, h = ParseHeader(SubSeq(w, 1, n))
    PROVE  \/ h.res = "crash"
           \/ h.res = "ok" /\ h.used = off[0] - 1 /\ At(w, ps, off, off[0], h.x, 0) /\ ~h.x.closed
<1> DEFINE b == SubSeq(w, 1, n)
           t == Tail(b)
<1>1. /\ w \in Seq(Nat) /\ Len(w) \in Nat /\ Len(ps) \in Nat /\ off[0] \in 0 .. Len(w) /\ HeaderIs(w, off[0])
  <2>1. Len(ps) \in Nat /\ off \in [0 .. Len(ps) -> 0 .. Len(w)] /\ 0 \in 0 .. Len(ps)
    BY DEF Layout
  <2>. QED  BY <2>1 DEF Layout
<1>2. n \in Nat /\ off[0] \in {2, 5} /\ n >= 2
  BY <1>1 DEF HeaderIs
<1>3. b \in Seq(Nat) /\ Len(b) = n /\ \A j \in 1 .. n : b[j] = w[j]
  <2>1. n \in 0 .. Len(w)
    OBVIOUS
  <2>. QED  BY ONLY <1>1, <2>1
<1> HIDE DEF b
<1>4. t \in Seq(Nat) /\ Len(t) = n - 1 /\ \A j \in 1 .. n - 1 : t[j] = b[j + 1]
  BY <1>2, <1>3, HeadTailProperties
<1> HIDE DEF t
<1>5. b[1] = w[1]
  BY <1>2, <1>3
<1>6. Before(ps, 0) = [got |-> FALSE, group |-> 0, id |-> 0] /\ 0 \in 0 .. Len(ps)
  BY <1>1 DEF Before
<1>a. /\ Ascending \in BOOLEAN /\ OkAscending \in BOOLEAN /\ Version \in Nat
  BY ObjectsAssumption
<1>7. CASE off[0] = 2 /\ w[1] = FETCH_HEADER
  <2> DEFINE x == SubscriberStream(FETCH_HEADER)
             y == [x EXCEPT !.ascending = OkAscending, !.parsed = TRUE]
  <2>1. h = ParseFetchHeader(x, t)
    BY <1>5, <1>7 DEF ParseHeader, ValidType, b, t
  <2>2. t # <<>>
    BY <1>2, <1>4
  <2>3. CASE ~FetchRequested
    BY <2>1, <2>2, <2>3 DEF ParseFetchHeader
  <2>4. CASE FetchRequested
    <3>1. h = [res |-> "ok", used |-> 1, x |-> y]
      BY <2>1, <2>2, <2>4 DEF ParseFetchHeader
    <3>a. /\ x \in SubscriberStreams /\ x.type = FETCH_HEADER /\ x.got = FALSE /\ x.lastObject = 0
          /\ x.lastGroup = 0 /\ x.closed = FALSE /\ x.buffer = <<>>
      <4>1. FETCH_HEADER \in Nat
        BY DEF FETCH_HEADER
      <4>. QED  BY <4>1, NewReader
    <3> HIDE DEF x
    <3>2. /\ y \in SubscriberStreams /\ y.type = FETCH_HEADER /\ y.ascending = OkAscending /\ y.parsed = TRUE
          /\ y.got = FALSE /\ y.lastObject = 0 /\ y.lastGroup = 0 /\ y.closed = FALSE /\ y.buffer = <<>>
      BY <1>a, <3>a DEF SubscriberStreams
    <3> HIDE DEF y
    <3>3. At(w, ps, off, off[0], y, 0)
      <4>1. IsFetch(w)
        BY <1>7 DEF IsFetch
      <4>2. off[0] \in Nat
        BY <1>2
      <4>. QED  BY <1>1, <3>2, <4>1, <4>2, NewAt
    <3>4. h.res = "ok" /\ h.used = off[0] - 1 /\ h.x = y
      BY <1>7, <3>1
    <3>. QED  BY <3>2, <3>3, <3>4
  <2>. QED  BY <2>3, <2>4
<1>8. CASE off[0] = 5 /\ w[1] = Ordinary /\ w[5] = PRIORITY
  <2> DEFINE x == SubscriberStream(Ordinary)
             f == SubgroupFields(Ordinary)
             y == [x EXCEPT !.group = w[3], !.subgroup = w[4], !.priority = PRIORITY,
                            !.first = f.first, !.parsed = TRUE]
  <2>1. h = ParseSubgroupHeader(x, t)
    <3>1. ValidType(Ordinary) /\ Ordinary # FETCH_HEADER
      BY OrdinaryIs
    <3>. QED  BY <1>5, <1>8, <3>1 DEF ParseHeader, b, t
  <2>2. f.subgroup /\ f.priority /\ ~f.violation /\ f.first \in BOOLEAN
    BY OrdinaryIs DEF SubgroupFields
  <2>3. f.subgroup = TRUE /\ f.priority = TRUE
    BY <2>2 DEF SubgroupFields, Bit
  <2>4. x.type = Ordinary
    BY DEF SubscriberStream
  <2>5. /\ Len(t) = n - 1 /\ n >= 5 /\ t[2] = w[3] /\ t[3] = w[4] /\ t[4] = PRIORITY
    <3>1. n >= 5 /\ {2, 3, 4} \subseteq 1 .. n - 1 /\ {3, 4, 5} \subseteq 1 .. n
      BY <1>2, <1>8
    <3>2. t[2] = b[3] /\ t[3] = b[4] /\ t[4] = b[5]
      BY <1>4, <3>1
    <3>3. b[3] = w[3] /\ b[4] = w[4] /\ b[5] = w[5]
      BY <1>3, <3>1
    <3>. QED  BY <1>4, <1>8, <3>1, <3>2, <3>3
  <2> HIDE DEF f
  <2>6. h = [res |-> "ok", used |-> 4, x |-> y]
    <3>1. f = SubgroupFields(x.type)
      BY <2>4 DEF f
    <3>2. ~(Len(t) < 4) /\ ~(Len(t) <= 3)
      BY <1>2, <2>5
    <3> HIDE DEF x
    <3>3. ParseSubgroupHeader(x, t) = HeadOf(x, t)
      BY <2>4, <3>2, SubgroupHeaderRead
    <3>. QED  BY <2>1, <2>5, <3>1, <3>3 DEF HeadOf
  <2>7. w[3] \in Nat /\ w[4] \in Nat /\ PRIORITY \in Nat /\ Ordinary \in Nat
    <3>1. {3, 4} \subseteq 1 .. Len(w)
      BY <1>1, <1>8
    <3>. QED  BY <1>1, <3>1, OrdinaryIs DEF PRIORITY
  <2>a. /\ x \in SubscriberStreams /\ x.type = Ordinary /\ x.got = FALSE /\ x.lastObject = 0
        /\ x.lastGroup = 0 /\ x.closed = FALSE /\ x.buffer = <<>>
    BY <2>7, NewReader
  <2> HIDE DEF x
  <2>8. /\ y \in SubscriberStreams /\ y.type = Ordinary /\ y.priority = PRIORITY /\ y.parsed = TRUE
        /\ y.group = w[3] /\ y.subgroup = w[4] /\ y.lastGroup = 0
        /\ y.got = FALSE /\ y.lastObject = 0 /\ y.closed = FALSE /\ y.buffer = <<>>
    BY <2>2, <2>7, <2>a DEF SubscriberStreams
  <2> HIDE DEF y
  <2>9. At(w, ps, off, off[0], y, 0)
    <3>1. ~IsFetch(w)
      BY <1>8, OrdinaryIs DEF IsFetch
    <3>2. off[0] \in Nat
      BY <1>2
    <3>. QED  BY <1>1, <2>8, <3>1, <3>2, NewAt
  <2>10. h.res = "ok" /\ h.used = off[0] - 1 /\ h.x = y
    BY <1>8, <2>6
  <2>. QED  BY <2>8, <2>9, <2>10
<1>. QED  BY <1>1, <1>7, <1>8 DEF HeaderIs

LEMMA RestOfFirst ==
    ASSUME NEW w \in Seq(Nat), NEW n \in 0 .. Len(w), NEW z \in 0 .. n
    PROVE  /\ SubSeq(SubSeq(w, 1, n), z + 1, n) = SubSeq(w, z + 1, z + (n - z))
           /\ Len(SubSeq(w, 1, n)) = n
<1> DEFINE b == SubSeq(w, 1, n)
           u == SubSeq(b, z + 1, n)
           v == SubSeq(w, z + 1, z + (n - z))
<1>1. Len(w) \in Nat /\ n \in Nat /\ z \in Nat /\ z <= n /\ n <= Len(w)
  OBVIOUS
<1>2. b \in Seq(Nat) /\ Len(b) = n /\ \A j \in 1 .. n : b[j] = w[j]
  BY <1>1
<1>3. v \in Seq(Nat) /\ Len(v) = n - z /\ \A j \in 1 .. n - z : v[j] = w[z + j]
  <2>1. z \in 0 .. Len(w) /\ n - z \in 0 .. Len(w) - z
    BY <1>1
  <2>. QED  BY ONLY w \in Seq(Nat), <2>1, PieceOf
<1>4. u \in Seq(Nat) /\ Len(u) = n - z /\ \A j \in 1 .. n - z : u[j] = b[z + j]
  <2>1. z \in 0 .. Len(b) /\ n = Len(b)
    BY <1>1, <1>2
  <2>2. b \in Seq(Nat)
    BY <1>2
  <2> HIDE DEF b
  <2>3. /\ SubSeq(b, z + 1, Len(b)) \in Seq(Nat) /\ Len(SubSeq(b, z + 1, Len(b))) = Len(b) - z
        /\ \A j \in 1 .. Len(b) - z : SubSeq(b, z + 1, Len(b))[j] = b[z + j]
    BY ONLY <2>1, <2>2, LeftOf
  <2>. QED  BY ONLY <2>1, <2>3
<1> HIDE DEF b, u, v
<1>5. ASSUME NEW j \in 1 .. Len(u) PROVE u[j] = v[j]
  <2>1. j \in 1 .. n - z /\ z + j \in 1 .. n
    BY <1>1, <1>4
  <2>. QED  BY <1>2, <1>3, <1>4, <2>1
<1>6. u = v
  BY ONLY <1>3, <1>4, <1>5, SeqEqual
<1>. QED  BY <1>2, <1>6 DEF u, v, b

-----------------------------------------------------------------------------
(* What is written to a stream grows at its end.                             *)

LEMMA HeaderWritten ==
    ASSUME NEW w \in Seq(Nat), HeaderIs(w, Len(w))
    PROVE  \E off : Layout(w, <<>>, off)
<1> DEFINE off == [i \in 0 .. 0 |-> Len(w)]
<1>1. Len(w) \in Nat /\ <<>> \in Seq(Shows) /\ Len(<<>>) = 0
  OBVIOUS
<1>2. off \in [0 .. 0 -> 0 .. Len(w)] /\ off[0] = Len(w)
  BY <1>1
<1> HIDE DEF off
<1>3. Layout(w, <<>>, off)
  BY <1>1, <1>2 DEF Layout
<1>. QED  BY <1>3

\* The fields v are w with more, and their objects qs are ps with one more.
Extends(w, ps, off, v, qs, o) ==
    /\ Len(v) \in Nat /\ Len(w) < Len(v) /\ \A j \in 1 .. Len(w) : v[j] = w[j]
    /\ Len(qs) = Len(ps) + 1 /\ \A i \in 1 .. Len(ps) : qs[i] = ps[i]
    /\ \A i \in 0 .. Len(ps) : o[i] = off[i]
    /\ o[Len(ps) + 1] = Len(v) /\ IsFetch(v) = IsFetch(w) /\ (~IsFetch(w) => v[3] = w[3] /\ v[4] = w[4])

LEMMA SameBefore ==
    ASSUME NEW ps, NEW qs, NEW n \in Nat, \A i \in 1 .. n : qs[i] = ps[i], NEW k \in 0 .. n
    PROVE  Before(qs, k) = Before(ps, k)
<1>1. k # 0 => qs[k] = ps[k]
  OBVIOUS
<1>. QED  BY <1>1 DEF Before

LEMMA HeaderKept ==
    ASSUME NEW w, NEW ps, NEW off, NEW v, Layout(w, ps, off), \A j \in 1 .. Len(w) : v[j] = w[j]
    PROVE  /\ HeaderIs(v, off[0]) /\ IsFetch(v) = IsFetch(w)
           /\ ~IsFetch(w) => v[3] = w[3] /\ v[4] = w[4]
<1>1. off[0] \in 0 .. Len(w) /\ Len(w) \in Nat /\ HeaderIs(w, off[0])
  <2>1. Len(ps) \in Nat /\ off \in [0 .. Len(ps) -> 0 .. Len(w)] /\ 0 \in 0 .. Len(ps)
    BY DEF Layout
  <2>. QED  BY <2>1 DEF Layout
<1>2. CASE off[0] = 2 /\ w[1] = FETCH_HEADER
  <2>1. v[1] = w[1]
    BY <1>1, <1>2
  <2>. QED  BY <1>2, <2>1 DEF HeaderIs, IsFetch
<1>3. CASE off[0] = 5 /\ w[1] = Ordinary /\ w[5] = PRIORITY
  <2>1. v[1] = w[1] /\ v[3] = w[3] /\ v[4] = w[4] /\ v[5] = w[5]
    BY <1>1, <1>3
  <2>. QED  BY <1>3, <2>1 DEF HeaderIs, IsFetch
<1>. QED  BY <1>1, <1>2, <1>3 DEF HeaderIs

\* An object more at its end.
LEMMA LayoutLonger ==
    ASSUME NEW w, NEW ps, NEW off, Layout(w, ps, off), NEW p,
           Follows(IsFetch(w), Before(ps, Len(ps)), p),
           ~IsFetch(w) => p.group = w[3] /\ p.subgroup = w[4],
           NEW f, f = Frame(IsFetch(w), Before(ps, Len(ps)), p)
    PROVE  \E o : Layout(w \o f, Append(ps, p), o) /\ Extends(w, ps, off, w \o f, Append(ps, p), o)
<1> DEFINE v == w \o f
           n == Len(ps)
           qs == Append(ps, p)
           o == [i \in 0 .. n + 1 |-> IF i = n + 1 THEN Len(v) ELSE off[i]]
<1>1. /\ w \in Seq(Nat) /\ Len(w) \in Nat /\ ps \in Seq(Shows) /\ n \in Nat
      /\ off \in [0 .. n -> 0 .. Len(w)] /\ off[n] = Len(w)
  BY DEF Layout
<1>2. p \in Shows
  BY DEF Follows
<1>3. f \in Seq(Nat) /\ Len(f) \in Nat /\ Len(f) >= 4
  <2>1. IsFetch(w) \in BOOLEAN
    BY DEF IsFetch
  <2>2. FrameOf(IsFetch(w), Before(ps, Len(ps)), p, f)
    BY <2>1, FrameIs
  <2>. QED  BY <2>2 DEF FrameOf
<1>4. /\ v \in Seq(Nat) /\ Len(v) = Len(w) + Len(f)
      /\ \A j \in 1 .. Len(w) : v[j] = w[j]
      /\ \A j \in 1 .. Len(f) : v[Len(w) + j] = f[j]
  BY <1>1, <1>3, ConcatProperties
<1>5. qs \in Seq(Shows) /\ Len(qs) = n + 1 /\ qs[n + 1] = p /\ \A i \in 1 .. n : qs[i] = ps[i]
  BY <1>1, <1>2, AppendProperties
<1> HIDE DEF v, n, qs
<1>6. Len(v) \in Nat /\ Len(w) < Len(v)
  BY <1>1, <1>3, <1>4
<1>7. o \in [0 .. n + 1 -> 0 .. Len(v)] /\ o[n + 1] = Len(v) /\ \A i \in 0 .. n : o[i] = off[i]
  <2>1. ASSUME NEW i \in 0 .. n + 1 PROVE (IF i = n + 1 THEN Len(v) ELSE off[i]) \in 0 .. Len(v)
    <3>1. i # n + 1 => off[i] \in 0 .. Len(w)
      BY <1>1
    <3>. QED  BY <1>1, <1>6, <3>1
  <2>2. n + 1 \in 0 .. n + 1 /\ \A i \in 0 .. n : i \in 0 .. n + 1 /\ i # n + 1
    BY <1>1
  <2>. QED  BY <2>1, <2>2
<1> HIDE DEF o
<1>8. HeaderIs(v, off[0]) /\ IsFetch(v) = IsFetch(w) /\ (~IsFetch(w) => v[3] = w[3] /\ v[4] = w[4])
  BY <1>4, HeaderKept
<1>9. o[0] = off[0]
  BY <1>1, <1>7
<1>10. ASSUME NEW i \in 1 .. n + 1 PROVE ObjectAt(v, qs, o, i)
  <2>0. i - 1 \in 0 .. n
    BY <1>1
  <2>1. Before(qs, i - 1) = Before(ps, i - 1) /\ o[i - 1] = off[i - 1]
    <3>1. Before(qs, i - 1) = Before(ps, i - 1)
      BY <1>1, <1>5, <2>0, SameBefore
    <3>2. o[i - 1] = off[i - 1]
      BY <1>1, <1>7, <2>0
    <3>. QED  BY ONLY <3>1, <3>2
  <2> DEFINE g == Frame(IsFetch(w), Before(ps, i - 1), qs[i])
  <2>2. CASE i = n + 1
    <3>1. qs[i] = p /\ o[i] = Len(v) /\ i - 1 = n /\ o[i - 1] = Len(w) /\ g = f
      BY <1>1, <1>5, <1>7, <2>1, <2>2 DEF n
    <3>2. Follows(IsFetch(w), Before(ps, n), p) /\ (~IsFetch(w) => p.group = w[3] /\ p.subgroup = w[4])
      BY DEF n
    <3> HIDE DEF g
    <3>3. o[i] = o[i - 1] + Len(g) /\ \A j \in 1 .. Len(g) : v[o[i - 1] + j] = g[j]
      BY <1>4, <3>1
    <3>. QED  BY <1>8, <2>1, <3>1, <3>2, <3>3 DEF ObjectAt, g
  <2>3. CASE i # n + 1
    <3>1. i \in 1 .. n /\ i \in 0 .. n
      BY <1>1, <2>3
    <3>2. qs[i] = ps[i] /\ o[i] = off[i]
      BY <1>5, <1>7, <3>1
    <3>3. ObjectAt(w, ps, off, i)
      BY <3>1 DEF Layout, n
    <3>4. /\ Follows(IsFetch(w), Before(ps, i - 1), ps[i])
          /\ ~IsFetch(w) => ps[i].group = w[3] /\ ps[i].subgroup = w[4]
          /\ off[i] = off[i - 1] + Len(g)
          /\ \A j \in 1 .. Len(g) : w[off[i - 1] + j] = g[j]
      BY <3>2, <3>3 DEF ObjectAt
    <3>5. Len(g) \in Nat
      <4>1. IsFetch(w) \in BOOLEAN
        BY DEF IsFetch
      <4>2. FrameOf(IsFetch(w), Before(ps, i - 1), ps[i], g)
        BY <3>2, <3>4, <4>1, FrameIs
      <4>. QED  BY <4>2 DEF FrameOf
    <3>6. off[i - 1] \in 0 .. Len(w) /\ off[i] \in 0 .. Len(w)
      BY <1>1, <2>0, <3>1
    <3> HIDE DEF g
    <3>7. ASSUME NEW j \in 1 .. Len(g) PROVE v[off[i - 1] + j] = g[j]
      <4> DEFINE a == off[i - 1]
                 z == off[i]
                 l == Len(g)
      <4>2. a \in 0 .. Len(w) /\ z \in 0 .. Len(w) /\ z = a + l /\ l \in Nat /\ j \in 1 .. l
        BY <3>4, <3>5, <3>6
      <4> HIDE DEF a, z, l
      <4>3. a + j \in 1 .. Len(w)
        BY ONLY <1>1, <4>2
      <4>1. off[i - 1] + j \in 1 .. Len(w)
        BY <4>3 DEF a
      <4>. QED  BY <1>4, <3>4, <4>1
    <3>. QED  BY <1>8, <2>1, <3>2, <3>4, <3>7 DEF ObjectAt, g
  <2>. QED  BY <2>2, <2>3
<1>11. Layout(v, qs, o)
  BY <1>4, <1>5, <1>6, <1>7, <1>8, <1>9, <1>10 DEF Layout
<1>12. Extends(w, ps, off, v, qs, o)
  BY <1>4, <1>5, <1>6, <1>7, <1>8 DEF Extends, n
<1>. QED  BY <1>11, <1>12 DEF v, qs

\* Where a reader is does not change when there is more to read.
LEMMA AtLonger ==
    ASSUME NEW w, NEW ps, NEW off, NEW v, NEW qs, NEW o, NEW e \in 0 .. Len(w), NEW x, NEW k,
           Layout(w, ps, off), Extends(w, ps, off, v, qs, o), At(w, ps, off, e, x, k), Incomplete(ps, off, e, k)
    PROVE  At(v, qs, o, e, x, k) /\ Incomplete(qs, o, e, k)
<1>1. /\ k \in Nat /\ k <= Len(ps) /\ Len(ps) \in Nat /\ off[k] \in Nat /\ off[k] <= Len(w)
      /\ x \in SubscriberStreams /\ Len(x.buffer) \in Nat
      /\ e - Len(x.buffer) = off[k]
  BY AtFields
<1>2. /\ Len(v) \in Nat /\ Len(w) < Len(v) /\ \A j \in 1 .. Len(w) : v[j] = w[j]
      /\ Len(qs) = Len(ps) + 1 /\ \A i \in 1 .. Len(ps) : qs[i] = ps[i]
      /\ \A i \in 0 .. Len(ps) : o[i] = off[i]
      /\ o[Len(ps) + 1] = Len(v) /\ IsFetch(v) = IsFetch(w) /\ (~IsFetch(w) => v[3] = w[3] /\ v[4] = w[4])
  BY DEF Extends
<1>3. Len(w) \in Nat
  BY DEF Layout
<1>4. k \in 0 .. Len(ps) /\ k \in 0 .. Len(qs) /\ o[k] = off[k]
  BY <1>1, <1>2
<1>5. Before(qs, k) = Before(ps, k)
  BY <1>1, <1>2, <1>4, SameBefore
<1>6. ASSUME NEW j \in 1 .. Len(x.buffer) PROVE x.buffer[j] = v[o[k] + j]
  <2>1. off[k] + j \in 1 .. Len(w)
    BY ONLY <1>1, <1>3, e \in 0 .. Len(w), j \in 1 .. Len(x.buffer)
  <2>. QED  BY <1>2, <1>4, <2>1 DEF At
<1>7. At(v, qs, o, e, x, k)
  BY <1>2, <1>4, <1>5, <1>6 DEF At
<1>8. ASSUME k < Len(qs) PROVE e < o[k + 1]
  <2>1. CASE k = Len(ps)
    BY <1>2, <1>3, <2>1
  <2>2. CASE k # Len(ps)
    <3>1. k < Len(ps) /\ k + 1 \in 0 .. Len(ps)
      BY <1>1, <2>2
    <3>. QED  BY <1>2, <3>1 DEF Incomplete
  <2>. QED  BY <2>1, <2>2
<1>. QED  BY <1>7, <1>8 DEF Incomplete

-----------------------------------------------------------------------------
(* What the publisher writes.                                                *)

\* The objects of the calls of imquic_moq_send_object.
ObjectsOf ==
    [key : Keys, group : Nat, subgroup : Nat, id : Nat, length : {0, 1},
     status : {"normal", "end_of_group", "end_of_track"}, eos : BOOLEAN, first : {TRUE}, number : Nat]
OkObject(o) ==
    /\ o \in ObjectsOf /\ o.id \in ObjectIds \cup {0}
    /\ o.length = 1 => o.status = "normal"
    /\ ValidPacket(o) => o.id \in ObjectIds
    /\ o.key = FetchKey => o.group \in FetchGroups
    /\ o.key # FetchKey => o.group = o.key[1] /\ o.subgroup = o.key[2]

LEMMA ShownIs ==
    ASSUME NEW o, OkObject(o), NEW c \in BOOLEAN, NEW p, p = Shown(o, c)
    PROVE  /\ p \in Shows /\ p.group = o.group /\ p.subgroup = o.subgroup /\ p.id = o.id
           /\ p.status = StatusCode(o.status) /\ p.properties = Properties(o) /\ p.payload = Payload(o)
           /\ IF o.length = 1 THEN p.payload = <<o.number>> ELSE o.length = 0 /\ p.payload = <<>>
<1>1. /\ o.group \in Nat /\ o.subgroup \in Nat /\ o.id \in Nat /\ o.length \in {0, 1} /\ o.number \in Nat
      /\ o.status \in {"normal", "end_of_group", "end_of_track"}
      /\ o.length = 1 => o.status = "normal"
  BY DEF OkObject, ObjectsOf
<1>2. StatusCode(o.status) \in Nat /\ (o.status = "normal" => StatusCode(o.status) = 0)
  BY <1>1 DEF StatusCode
<1>3. Properties(o) = <<>> \/ Properties(o) = <<9>>
  BY DEF Properties
<1>e. <<>> \in Seq(Nat) /\ <<9>> \in Seq(Nat) /\ \A n \in Nat : <<n>> \in Seq(Nat)
  OBVIOUS
<1>4. Properties(o) \in Seq(Nat)
  BY ONLY <1>3, <1>e
<1>5. IF o.length = 1 THEN Payload(o) = <<o.number>> ELSE o.length = 0 /\ Payload(o) = <<>>
  <2>1. CASE o.length = 1
    <3>1. Payload(o) = [i \in 1 .. 1 |-> o.number]
      BY <2>1 DEF Payload
    <3>. QED  BY <2>1, <3>1
  <2>2. CASE o.length = 0
    <3>1. Payload(o) = [i \in 1 .. 0 |-> o.number]
      BY <2>2 DEF Payload
    <3>. QED  BY <2>2, <3>1
  <2>. QED  BY <1>1, <2>1, <2>2
<1>6. Payload(o) \in Seq(Nat)
  BY ONLY <1>1, <1>5, <1>e
<1>7. /\ p.group = o.group /\ p.subgroup = o.subgroup /\ p.id = o.id
      /\ p.status = StatusCode(o.status) /\ p.properties = Properties(o) /\ p.payload = Payload(o)
  BY DEF Shown
<1>8. p \in [group : Nat, subgroup : Nat, id : Nat, status : Nat, priority : {PRIORITY},
             payload : Seq(Nat), properties : Seq(Nat), eos : BOOLEAN]
  BY <1>1, <1>2, <1>4, <1>6 DEF Shown
<1>9. p.payload = <<>> \/ (p.status = 0 /\ \E n \in Nat : p.payload = <<n>>)
  BY <1>1, <1>2, <1>5, <1>7
<1>10. p \in Shows
  BY <1>3, <1>7, <1>8, <1>9 DEF Shows
<1>. QED  BY <1>5, <1>7, <1>10

\* imquic_moq_add_properties and the payload or the status.
LEMMA BodyWritten ==
    ASSUME NEW o, OkObject(o), NEW c \in BOOLEAN
    PROVE  /\ AddProperties(Properties(o)) \o AddPayload(o) = Body(Shown(o, c))
           /\ AddProperties(Properties(o)) \in Seq(Nat) /\ AddPayload(o) \in Seq(Nat)
<1> DEFINE p == Shown(o, c)
<1>1. /\ p \in Shows /\ p.status = StatusCode(o.status) /\ p.properties = Properties(o) /\ p.payload = Payload(o)
      /\ IF o.length = 1 THEN p.payload = <<o.number>> ELSE o.length = 0 /\ p.payload = <<>>
  BY ShownIs
<1>2. p.status \in Nat /\ o.number \in Nat /\ (p.properties = <<>> \/ p.properties = <<9>>)
  BY <1>1 DEF Shows, OkObject, ObjectsOf
<1> HIDE DEF p
<1>3. AddPayload(o) = IF p.payload = <<>> THEN <<0, p.status>> ELSE <<Len(p.payload)>> \o p.payload
  <2>1. CASE o.length = 1
    <3>1. p.payload = <<o.number>>
      BY ONLY <1>1, <2>1
    <3>2. Len(<<o.number>>) = 1 /\ <<o.number>> # <<>>
      OBVIOUS
    <3>3. HasPayload(o)
      BY ONLY <2>1 DEF HasPayload
    <3>4. AddPayload(o) = <<o.length>> \o Payload(o)
      BY ONLY <3>3 DEF AddPayload
    <3>5. Payload(o) = p.payload /\ Len(p.payload) = 1 /\ p.payload # <<>>
      BY ONLY <1>1, <3>1, <3>2
    <3>. QED  BY ONLY <2>1, <3>4, <3>5
  <2>2. CASE o.length # 1
    <3>1. o.length = 0 /\ p.payload = <<>>
      BY <1>1, <2>2
    <3>2. ~HasPayload(o)
      BY <3>1 DEF HasPayload
    <3>. QED  BY <1>1, <3>1, <3>2 DEF AddPayload
  <2>. QED  BY <2>1, <2>2
<1>4. AddPayload(o) \in Seq(Nat)
  <2>1. CASE p.payload = <<>>
    BY <1>2, <1>3, <2>1
  <2>2. CASE p.payload # <<>>
    <3>1. p.payload \in Seq(Nat)
      BY <1>1 DEF Shows
    <3>2. <<Len(p.payload)>> \in Seq(Nat)
      BY <3>1
    <3>. QED  BY <1>3, <2>2, <3>1, <3>2, ConcatProperties
  <2>. QED  BY <2>1, <2>2
<1>5. AddProperties(Properties(o)) \in Seq(Nat)
  <2>1. p.properties \in Seq(Nat)
    BY <1>1 DEF Shows
  <2>2. <<Len(p.properties)>> \in Seq(Nat)
    BY <2>1
  <2>. QED  BY <1>1, <2>1, <2>2, ConcatProperties DEF AddProperties
<1>6. AddProperties(Properties(o)) \o AddPayload(o) = Body(p)
  BY <1>1, <1>3 DEF Body
<1>. QED  BY <1>4, <1>5, <1>6 DEF p

LEMMA ThreeJoined ==
    ASSUME NEW a \in Seq(Nat), NEW b \in Seq(Nat), NEW c \in Seq(Nat)
    PROVE  (a \o b) \o c = a \o (b \o c)
<1> DEFINE u == (a \o b) \o c
           v == a \o (b \o c)
<1>1. /\ a \o b \in Seq(Nat) /\ Len(a \o b) = Len(a) + Len(b)
      /\ b \o c \in Seq(Nat) /\ Len(b \o c) = Len(b) + Len(c)
      /\ Len(a) \in Nat /\ Len(b) \in Nat /\ Len(c) \in Nat
  BY ConcatProperties
<1>. QED  BY ONLY <1>1, a \in Seq(Nat), b \in Seq(Nat), c \in Seq(Nat), ConcatAssociative

\* The last IDs of the publisher's stream m are those of the object in front.
AgreeWith(k, m, prev) ==
    /\ m.got = prev.got /\ m.lastObject = prev.id
    /\ k = FetchKey => /\ m.lastGroup = prev.group
                       /\ prev.got => prev.group < Wrap /\ prev.id < Wrap

\* imquic_moq_add_subgroup_header_object
WritesSubgroup(k, m, prev, o, c) ==
    /\ AgreeWith(k, m, prev) /\ m.type = Ordinary /\ OkObject(o) /\ prev \in Marks
    /\ o.id - prev.id - Flag(prev.got, 1) \in Nat /\ c \in BOOLEAN

SubgroupIs(m, prev, o, c) == AddSubgroupObject(m.type, SubgroupDelta(m, o.id), o) = Frame(FALSE, prev, Shown(o, c))

LEMMA SubgroupWritten ==
    ASSUME NEW k, NEW m, NEW prev, NEW o, NEW c, WritesSubgroup(k, m, prev, o, c)
    PROVE  SubgroupIs(m, prev, o, c)
<1>. /\ AgreeWith(k, m, prev) /\ m.type = Ordinary /\ OkObject(o) /\ prev \in Marks
     /\ o.id - prev.id - Flag(prev.got, 1) \in Nat /\ c \in BOOLEAN
  BY DEF WritesSubgroup
<1> DEFINE p == Shown(o, c)
           delta == p.id - prev.id - Flag(prev.got, 1)
           a == AddProperties(Properties(o))
           b == AddPayload(o)
<1>1. p.id = o.id
  BY ShownIs
<1>2. SubgroupDelta(m, o.id) = delta /\ delta \in Nat
  BY <1>1 DEF SubgroupDelta, AgreeWith
<1>3. SubgroupFields(m.type).prop = TRUE
  BY OrdinaryIs DEF SubgroupFields, Bit
<1>4. AddSubgroupObject(m.type, SubgroupDelta(m, o.id), o) = <<delta>> \o a \o b
  BY <1>2, <1>3 DEF AddSubgroupObject
<1>5. a \o b = Body(p) /\ a \in Seq(Nat) /\ b \in Seq(Nat)
  BY BodyWritten
<1>6. <<delta>> \in Seq(Nat)
  BY <1>2
<1> HIDE DEF a, b, delta
<1>d. a \in Seq(Nat) /\ b \in Seq(Nat) /\ <<delta>> \in Seq(Nat)
  BY ONLY <1>5, <1>6
<1>7. (<<delta>> \o a) \o b = <<delta>> \o (a \o b)
  BY ONLY <1>d, ThreeJoined
<1>8. Ids(FALSE, prev, p) = <<delta>>
  BY DEF Ids, delta
<1>. QED  BY <1>4, <1>5, <1>7, <1>8 DEF Frame, SubgroupIs

\* imquic_moq_add_fetch_header_object
WritesFetch(m, prev, o, c, p) ==
    /\ AgreeWith(FetchKey, m, prev) /\ m.ascending = OkAscending /\ OkObject(o) /\ prev \in Marks
    /\ c \in BOOLEAN /\ p = Shown(o, c) /\ Follows(TRUE, prev, p)

LEMMA FetchWritten ==
    ASSUME NEW m, NEW prev, NEW o, NEW c, NEW p, WritesFetch(m, prev, o, c, p)
    PROVE  FetchEncode(m, o) = Frame(TRUE, prev, p)
<1>. /\ AgreeWith(FetchKey, m, prev) /\ m.ascending = OkAscending /\ OkObject(o) /\ prev \in Marks
     /\ c \in BOOLEAN /\ p = Shown(o, c) /\ Follows(TRUE, prev, p)
  BY DEF WritesFetch
<1> DEFINE same == Version >= 18 /\ m.got /\ o.group = m.lastGroup
           skip == (o.id - m.lastObject) % Wrap
           flags == FetchFlags(~same \/ skip > 1, ~same, TRUE, TRUE)
           v == IF same THEN skip ELSE o.id
           gf == FetchGroup(m, o.group)
           a == AddProperties(Properties(o))
           b == AddPayload(o)
           ids == Ids(TRUE, prev, p)
<1>1. p.group = o.group /\ p.subgroup = o.subgroup /\ p.id = o.id
  BY ShownIs
<1>2. m.got = prev.got /\ m.lastObject = prev.id /\ m.lastGroup = prev.group
  BY DEF AgreeWith
<1>3. same = SameGroup(prev, p) /\ skip = Skip(prev, p) /\ gf = GroupField(prev, p)
  BY <1>1, <1>2 DEF SameGroup, Skip, GroupField, FetchGroup
<1>4. a \o b = Body(p) /\ a \in Seq(Nat) /\ b \in Seq(Nat)
  BY BodyWritten
<1>5. ids \in Seq(Nat)
  BY IdsSeq
<1> HIDE DEF a, b, ids
<1>6. (ids \o a) \o b = ids \o (a \o b)
  BY ONLY <1>4, <1>5, ThreeJoined
<1>7. o.subgroup \in Nat /\ o.id \in Nat /\ PRIORITY \in Nat
  BY DEF OkObject, ObjectsOf, PRIORITY
<1>8. FetchEncode(m, o) = AddFetchObject(flags, gf, v, o)
  BY DEF FetchEncode
<1> HIDE DEF gf, skip, same
<1>9. CASE ~same
  <2>1. flags = 63
    BY <1>9 DEF FetchFlags, Flag
  <2>2. AddFetchObject(63, gf, v, o) =
          <<63>> \o <<gf>> \o <<o.subgroup>> \o <<v>> \o <<PRIORITY>> \o a \o b
    <3>1. /\ FetchFields(63).group = TRUE /\ FetchFields(63).oid = TRUE
          /\ FetchFields(63).priority = TRUE /\ FetchFields(63).prop = TRUE
      BY FlagsAre
    <3>. QED  BY ONLY <3>1 DEF AddFetchObject, a, b
  <2>3. ids = <<63, gf, o.subgroup, v, PRIORITY>> /\ v = o.id
    BY <1>1, <1>3, <1>9 DEF Ids, ids
  <2>4. gf \in Nat
    <3>1. 2 \in 1 .. Len(ids) /\ ids[2] = gf
      BY <2>3
    <3>. QED  BY <1>5, <3>1
  <2> HIDE DEF v, ids
  <2>5. <<63>> \o <<gf>> \o <<o.subgroup>> \o <<v>> \o <<PRIORITY>> = <<63, gf, o.subgroup, v, PRIORITY>>
    <3>1. v \in Nat /\ 63 \in Nat
      BY <1>7, <2>3
    <3>2. <<63>> \o <<gf>> = <<63, gf>>
      BY ONLY <2>4, <3>1, JoinOneOne
    <3>3. <<63, gf>> \o <<o.subgroup>> = <<63, gf, o.subgroup>>
      BY ONLY <1>7, <2>4, <3>1, JoinTwoOne
    <3>4. <<63, gf, o.subgroup>> \o <<v>> = <<63, gf, o.subgroup, v>>
      BY ONLY <1>7, <2>4, <3>1, JoinThreeOne
    <3>5. <<63, gf, o.subgroup, v>> \o <<PRIORITY>> = <<63, gf, o.subgroup, v, PRIORITY>>
      BY ONLY <1>7, <2>4, <3>1, JoinFourOne
    <3>. QED  BY ONLY <3>2, <3>3, <3>4, <3>5
  <2>. QED  BY <1>4, <1>6, <1>8, <2>1, <2>2, <2>3, <2>5 DEF Frame, ids
<1>10. CASE same /\ skip > 1
  <2>1. flags = 55 /\ v = skip
    BY <1>10 DEF FetchFlags, Flag
  <2>2. AddFetchObject(55, gf, v, o) = <<55>> \o <<>> \o <<o.subgroup>> \o <<v>> \o <<PRIORITY>> \o a \o b
    <3>1. /\ FetchFields(55).group = FALSE /\ FetchFields(55).oid = TRUE
          /\ FetchFields(55).priority = TRUE /\ FetchFields(55).prop = TRUE
      BY FlagsAre
    <3>. QED  BY ONLY <3>1 DEF AddFetchObject, a, b
  <2>3. ids = <<55, o.subgroup, skip, PRIORITY>>
    BY <1>1, <1>3, <1>10 DEF Ids, ids
  <2>4. skip \in Nat
    <3>1. 3 \in 1 .. Len(ids) /\ ids[3] = skip
      BY <2>3
    <3>. QED  BY <1>5, <3>1
  <2> HIDE DEF v, ids
  <2>5. <<55>> \o <<>> \o <<o.subgroup>> \o <<v>> \o <<PRIORITY>> = <<55, o.subgroup, v, PRIORITY>>
    <3>1. v \in Nat /\ 55 \in Nat
      BY <2>1, <2>4
    <3>2. <<55>> \o <<>> = <<55>> /\ <<55>> \o <<o.subgroup>> = <<55, o.subgroup>>
      BY ONLY <1>7, <3>1, JoinNone, JoinOneOne
    <3>3. <<55, o.subgroup>> \o <<v>> = <<55, o.subgroup, v>>
      BY ONLY <1>7, <3>1, JoinTwoOne
    <3>4. <<55, o.subgroup, v>> \o <<PRIORITY>> = <<55, o.subgroup, v, PRIORITY>>
      BY ONLY <1>7, <3>1, JoinThreeOne
    <3>. QED  BY ONLY <3>2, <3>3, <3>4
  <2>. QED  BY <1>4, <1>6, <1>8, <2>1, <2>2, <2>3, <2>5 DEF Frame, ids
<1>11. CASE same /\ ~(skip > 1)
  <2>1. flags = 51 /\ v = skip
    BY <1>11 DEF FetchFlags, Flag
  <2>2. AddFetchObject(51, gf, v, o) = <<51>> \o <<>> \o <<o.subgroup>> \o <<>> \o <<PRIORITY>> \o a \o b
    <3>1. /\ FetchFields(51).group = FALSE /\ FetchFields(51).oid = FALSE
          /\ FetchFields(51).priority = TRUE /\ FetchFields(51).prop = TRUE
      BY FlagsAre
    <3>. QED  BY ONLY <3>1 DEF AddFetchObject, a, b
  <2>3. ids = <<51, o.subgroup, PRIORITY>>
    BY <1>1, <1>3, <1>11 DEF Ids, ids
  <2> HIDE DEF v, ids
  <2>5. <<51>> \o <<>> \o <<o.subgroup>> \o <<>> \o <<PRIORITY>> = <<51, o.subgroup, PRIORITY>>
    <3>1. 51 \in Nat
      OBVIOUS
    <3>2. <<51>> \o <<>> = <<51>> /\ <<51>> \o <<o.subgroup>> = <<51, o.subgroup>>
      BY ONLY <1>7, <3>1, JoinNone, JoinOneOne
    <3>3. <<51, o.subgroup>> \o <<PRIORITY>> = <<51, o.subgroup, PRIORITY>>
      BY ONLY <1>7, <3>1, JoinTwoOne
    <3>4. <<51, o.subgroup>> \o <<>> = <<51, o.subgroup>>
      <4>1. <<51, o.subgroup>> \in Seq(Nat)
        BY <1>7
      <4>. QED  BY <4>1, ConcatEmptySeq
    <3>. QED  BY ONLY <3>2, <3>3, <3>4
  <2>. QED  BY <1>4, <1>6, <1>8, <2>1, <2>2, <2>3, <2>5 DEF Frame, ids
<1>. QED  BY <1>9, <1>10, <1>11

-----------------------------------------------------------------------------
(* The senders.                                                              *)

(* What the application owes the library: the objects of a subgroup, or of a *)
(* FETCH, are sent by one thread (the last IDs of imquic_moq_stream are read  *)
(* and written without the lock).                                            *)
OneWriter == \A t, u \in Threads : t # u => KeysOf[t] \cap KeysOf[u] = {}

PubStreams == [type : Nat, ascending : BOOLEAN, got : BOOLEAN, lastGroup : Nat, lastObject : ObjectIds \cup {0}]
Calls == [object : {o \in ObjectsOf : OkObject(o)}, stream : Streams, bytes : Seq(Nat)]
Stages == {"idle", "header", "encode", "write", "forget"}

\* The fields w with the objects ps, or a stream that was only opened.
Written(w, fn, ps) ==
    /\ w = <<>> => ps = <<>> /\ ~fn
    /\ w # <<>> => \E off : Layout(w, ps, off)

\* What a write adds to a stream: its header, its FIN, or an object.
GrowsBy(w, ps, p, v, qs) ==
    LET prev == Before(ps, Len(ps)) IN
    /\ Follows(IsFetch(w), prev, p) /\ (~IsFetch(w) => p.group = w[3] /\ p.subgroup = w[4])
    /\ v = w \o Frame(IsFetch(w), prev, p) /\ qs = Append(ps, p)
Grows(w, f, ps, v, g, qs) ==
    \/ v = w /\ g = f /\ qs = ps
    \/ w = <<>> /\ ~f /\ ~g /\ v # <<>> /\ v \in Seq(Nat) /\ HeaderIs(v, Len(v)) /\ qs = ps
    \/ w # <<>> /\ ~f /\ v = w /\ qs = ps
    \/ w # <<>> /\ ~f /\ \E p : GrowsBy(w, ps, p, v, qs)

\* The publisher's stream m of the key k, and what was written to it.
Kind(k, m, w) ==
    IF k = FetchKey THEN m.type = FETCH_HEADER /\ m.ascending = OkAscending /\ (w # <<>> => IsFetch(w))
    ELSE m.type = Ordinary /\ (w # <<>> => ~IsFetch(w) /\ w[3] = k[1] /\ w[4] = k[2])
Agrees(k, m, ps) == AgreeWith(k, m, Before(ps, Len(ps)))

\* A FETCH does not send an object twice in a row.
Novel(m, o) == o.key = FetchKey /\ m.got => o.group # m.lastGroup \/ o.id # m.lastObject

\* Between calls.
Settled(k, m, w, f, ps) == w # <<>> /\ ~f /\ Kind(k, m, w) /\ Agrees(k, m, ps)

\* The object of a call once its fields are chosen.
Encoded(c, m, ps) ==
    LET o == c.object
        prev == Before(ps, Len(ps))
        p == Shown(o, Closes(o))
    IN  IF ValidPacket(o)
        THEN /\ Follows(o.key = FetchKey, prev, p) /\ c.bytes = Frame(o.key = FetchKey, prev, p)
             /\ AgreeWith(o.key, m, [got |-> TRUE, group |-> p.group, id |-> p.id])
        ELSE c.bytes = <<>> /\ Agrees(o.key, m, ps)

\* Within a call.
Stage(p, c, m, w, f, ps) ==
    LET k == c.object.key IN
    /\ Kind(k, m, w)
    /\ p = "header" => w = <<>> /\ ~f /\ c.bytes = <<>> /\ Agrees(k, m, ps) /\ Novel(m, c.object)
    /\ p = "encode" => w # <<>> /\ ~f /\ c.bytes = <<>> /\ Agrees(k, m, ps) /\ Novel(m, c.object)
    /\ p = "write"  => w # <<>> /\ ~f /\ Encoded(c, m, ps)
    /\ p = "forget" => w # <<>>

SendTypes ==
    /\ streamOf \in [Keys -> Streams \cup {None}] /\ served \in BOOLEAN
    /\ out \in [Streams -> PubStreams] /\ opened \in 0 .. MaxStreams /\ calls \in 0 .. MaxObjects
    /\ wire \in [Streams -> Seq(Nat)] /\ fin \in [Streams -> BOOLEAN] /\ sent \in [Streams -> Seq(Shows)]
    /\ pc \in [Threads -> Stages] /\ call \in [Threads -> Calls \cup {None}]

\* The call of a thread is about the stream of its key, and the others are not.
Owned ==
    /\ \A t \in Threads : pc[t] # "idle" =>
          call[t] \in Calls /\ call[t].object.key \in KeysOf[t] /\ streamOf[call[t].object.key] = call[t].stream
    /\ \A k \in Keys : streamOf[k] # None => streamOf[k] <= opened
    /\ \A k, g \in Keys : streamOf[k] # None /\ streamOf[k] = streamOf[g] => k = g

Unused == \A s \in Streams : s > opened => wire[s] = <<>> /\ ~fin[s] /\ sent[s] = <<>>

InCalls ==
    \A t \in Threads : pc[t] # "idle" =>
       LET s == call[t].stream IN Stage(pc[t], call[t], out[s], wire[s], fin[s], sent[s])

Busy(k) == \E t \in Threads : pc[t] # "idle" /\ call[t].object.key = k
BetweenCalls ==
    \A k \in Keys : streamOf[k] # None /\ ~Busy(k) =>
       LET s == streamOf[k] IN Settled(k, out[s], wire[s], fin[s], sent[s])

AllWritten == \A s \in Streams : Written(wire[s], fin[s], sent[s])

SendInv == SendTypes /\ Owned /\ Unused /\ InCalls /\ BetweenCalls /\ AllWritten

LEMMA StreamsAre == None \notin Streams /\ \A s \in Streams : s \in Nat
BY ObjectsAssumption DEF Streams

LEMMA KeysAre ==
    /\ \A t \in Threads : \A k \in KeysOf[t] : k \in Keys
    /\ \A k \in Keys : k # FetchKey => k[1] \in Nat /\ k[2] \in Nat
BY ObjectsAssumption DEF Keys

LEMMA SendInit == ASSUME Init PROVE SendInv
<1>1. NoStream \in PubStreams
  BY DEF NoStream, PublisherStream, PubStreams
<1>2. <<>> \in Seq(Nat) /\ <<>> \in Seq(Shows)
  OBVIOUS
<1>3. /\ streamOf = [k \in Keys |-> None] /\ served \in BOOLEAN /\ out = [s \in Streams |-> NoStream]
      /\ opened = 0 /\ calls = 0 /\ wire = [s \in Streams |-> <<>>] /\ fin = [s \in Streams |-> FALSE]
      /\ sent = [s \in Streams |-> <<>>] /\ pc = [t \in Threads |-> "idle"] /\ call = [t \in Threads |-> None]
  BY DEF Init
<1>4. SendTypes
  <2>1. opened \in 0 .. MaxStreams /\ calls \in 0 .. MaxObjects
    BY <1>3, ObjectsAssumption
  <2>2. pc \in [Threads -> Stages] /\ call \in [Threads -> Calls \cup {None}]
    BY ONLY <1>3 DEF Stages
  <2>. QED  BY ONLY <1>1, <1>2, <1>3, <2>1, <2>2 DEF SendTypes
<1>5. Owned /\ Unused /\ InCalls /\ BetweenCalls
  BY ONLY <1>3 DEF Owned, Unused, InCalls, BetweenCalls
<1>6. AllWritten
  BY ONLY <1>3 DEF AllWritten, Written
<1>. QED  BY <1>4, <1>5, <1>6 DEF SendInv

LEMMA SendQuiet == ASSUME SendInv, UNCHANGED sendVars PROVE SendInv'
BY DEF sendVars, SendInv, SendTypes, Owned, Unused, InCalls, BetweenCalls, Busy, AllWritten

LEMMA WrittenLonger ==
    ASSUME NEW w \in Seq(Nat), NEW f, NEW ps \in Seq(Shows), NEW v, NEW g, NEW qs,
           Written(w, f, ps), Grows(w, f, ps, v, g, qs)
    PROVE  Written(v, g, qs)
<1>1. CASE v = w /\ g = f /\ qs = ps
  BY <1>1
<1>2. CASE w = <<>> /\ v # <<>> /\ v \in Seq(Nat) /\ HeaderIs(v, Len(v)) /\ qs = ps
  <2>1. qs = <<>>
    BY <1>2 DEF Written
  <2>2. \E off : Layout(v, <<>>, off)
    BY <1>2, HeaderWritten
  <2>. QED  BY <1>2, <2>1, <2>2 DEF Written
<1>3. CASE w # <<>> /\ v = w /\ qs = ps
  BY <1>3 DEF Written
<1>4. ASSUME w # <<>>, NEW p, GrowsBy(w, ps, p, v, qs) PROVE Written(v, g, qs)
  <2> DEFINE b == Frame(IsFetch(w), Before(ps, Len(ps)), p)
  <2>1. PICK off : Layout(w, ps, off)
    BY <1>4 DEF Written
  <2>2. /\ Follows(IsFetch(w), Before(ps, Len(ps)), p) /\ (~IsFetch(w) => p.group = w[3] /\ p.subgroup = w[4])
        /\ v = w \o b /\ qs = Append(ps, p)
    BY <1>4 DEF GrowsBy
  <2>3. PICK o : Layout(w \o b, Append(ps, p), o) /\ Extends(w, ps, off, w \o b, Append(ps, p), o)
    BY <2>1, <2>2, LayoutLonger
  <2>4. Len(w) < Len(v)
    BY <2>2, <2>3 DEF Extends
  <2>5. v # <<>>
    <3>1. Len(w) \in Nat /\ Len(<<>>) = 0
      OBVIOUS
    <3>. QED  BY <2>4, <3>1
  <2>. QED  BY <2>2, <2>3, <2>5 DEF Written
<1>. QED  BY <1>1, <1>2, <1>3, <1>4 DEF Grows

\* A step of the thread t on the stream s of the key k, which has z afterwards.
OneStep(t, k, s, z, m, w, f, ps, p, c) ==
    /\ streamOf' = [streamOf EXCEPT ![k] = z] /\ out' = [out EXCEPT ![s] = m]
    /\ wire' = [wire EXCEPT ![s] = w] /\ fin' = [fin EXCEPT ![s] = f] /\ sent' = [sent EXCEPT ![s] = ps]
    /\ pc' = [pc EXCEPT ![t] = p] /\ call' = [call EXCEPT ![t] = c]

\* The counters after a step.
Counters(s) ==
    /\ s <= opened' /\ opened <= opened' /\ opened' \in 0 .. MaxStreams
    /\ calls' \in 0 .. MaxObjects /\ served' \in BOOLEAN

\* What the step is told of its arguments and leaves behind.
Leaves(t, k, s, z, m, w, f, ps, p, c) ==
    /\ t \in Threads /\ k \in KeysOf[t] /\ s \in Streams /\ z \in {s, None} /\ m \in PubStreams
    /\ w \in Seq(Nat) /\ f \in BOOLEAN /\ ps \in Seq(Shows) /\ p \in Stages /\ c \in Calls \cup {None}
    /\ Grows(wire[s], fin[s], sent[s], w, f, ps) /\ Counters(s)
    /\ pc[t] # "idle" => call[t].object.key = k
    /\ \A g \in Keys : g # k => streamOf[g] # s
    /\ p # "idle" => c \in Calls /\ c.object.key = k /\ c.stream = s /\ z = s /\ Stage(p, c, m, w, f, ps)
    /\ p = "idle" /\ z = s => Settled(k, m, w, f, ps)

\* Other threads have other keys and other streams.
LEMMA Others ==
    ASSUME SendInv, OneWriter, NEW t \in Threads, NEW k \in KeysOf[t],
           NEW u \in Threads, u # t, pc[u] # "idle"
    PROVE  /\ call[u] \in Calls /\ call[u].object.key \in Keys /\ call[u].object.key # k
           /\ call[u].stream = streamOf[call[u].object.key] /\ call[u].stream \in Streams
<1>1. call[u] \in Calls /\ call[u].object.key \in KeysOf[u] /\ streamOf[call[u].object.key] = call[u].stream
  BY DEF SendInv, Owned
<1>2. call[u].object.key \in Keys /\ call[u].object.key # k
  BY <1>1, KeysAre DEF OneWriter
<1>3. call[u].stream \in Streams
  BY <1>1 DEF Calls
<1>. QED  BY <1>1, <1>2, <1>3

LEMMA StepKept ==
    ASSUME SendInv, OneWriter, NEW t, NEW k, NEW s, NEW z, NEW m, NEW w, NEW f, NEW ps, NEW p, NEW c,
           OneStep(t, k, s, z, m, w, f, ps, p, c), Leaves(t, k, s, z, m, w, f, ps, p, c)
    PROVE  SendInv'
<1>1. /\ t \in Threads /\ k \in KeysOf[t] /\ s \in Streams /\ z \in {s, None} /\ m \in PubStreams
      /\ w \in Seq(Nat) /\ f \in BOOLEAN /\ ps \in Seq(Shows) /\ p \in Stages /\ c \in Calls \cup {None}
  BY DEF Leaves
<1>2. /\ Grows(wire[s], fin[s], sent[s], w, f, ps)
      /\ pc[t] # "idle" => call[t].object.key = k
      /\ \A g \in Keys : g # k => streamOf[g] # s
      /\ p # "idle" => c \in Calls /\ c.object.key = k /\ c.stream = s /\ z = s /\ Stage(p, c, m, w, f, ps)
      /\ p = "idle" /\ z = s => Settled(k, m, w, f, ps)
  BY DEF Leaves
<1>3. /\ s <= opened' /\ opened <= opened' /\ opened' \in 0 .. MaxStreams
      /\ calls' \in 0 .. MaxObjects /\ served' \in BOOLEAN
  BY DEF Leaves, Counters
<1>4. k \in Keys /\ s # None /\ s \in Nat
  BY <1>1, KeysAre, StreamsAre
<1>5. SendTypes /\ Owned /\ Unused /\ InCalls /\ BetweenCalls /\ AllWritten
  BY DEF SendInv
<1>6. opened \in Nat /\ opened' \in Nat
  BY <1>3, <1>5 DEF SendTypes
<1>7. /\ streamOf'[k] = z /\ \A g \in Keys : g # k => streamOf'[g] = streamOf[g]
      /\ pc'[t] = p /\ call'[t] = c /\ \A u \in Threads : u # t => pc'[u] = pc[u] /\ call'[u] = call[u]
  BY <1>1, <1>4, <1>5 DEF OneStep, SendTypes
<1>8. /\ out'[s] = m /\ wire'[s] = w /\ fin'[s] = f /\ sent'[s] = ps
      /\ \A r \in Streams : r # s => /\ out'[r] = out[r] /\ wire'[r] = wire[r]
                                     /\ fin'[r] = fin[r] /\ sent'[r] = sent[r]
  BY <1>1, <1>5 DEF OneStep, SendTypes
<1>9. SendTypes'
  <2>1. streamOf' \in [Keys -> Streams \cup {None}]
    <3>1. z \in Streams \cup {None} /\ streamOf \in [Keys -> Streams \cup {None}]
      BY <1>1, <1>5 DEF SendTypes
    <3>. QED  BY <3>1 DEF OneStep
  <2>2. out' \in [Streams -> PubStreams]
    BY <1>1, <1>5 DEF OneStep, SendTypes
  <2>3. wire' \in [Streams -> Seq(Nat)] /\ fin' \in [Streams -> BOOLEAN]
    BY <1>1, <1>5 DEF OneStep, SendTypes
  <2>4. sent' \in [Streams -> Seq(Shows)]
    BY <1>1, <1>5 DEF OneStep, SendTypes
  <2>5. pc' \in [Threads -> Stages]
    BY <1>1, <1>5 DEF OneStep, SendTypes
  <2>6. call' \in [Threads -> Calls \cup {None}]
    BY <1>1, <1>5 DEF OneStep, SendTypes
  <2>. QED  BY <1>3, <2>1, <2>2, <2>3, <2>4, <2>5, <2>6 DEF SendTypes
<1>10. ASSUME NEW u \in Threads, u # t, pc[u] # "idle"
       PROVE  /\ call[u] \in Calls /\ call[u].object.key \in Keys /\ call[u].object.key # k
              /\ call[u].stream = streamOf[call[u].object.key] /\ call[u].stream \in Streams
              /\ call[u].stream # s
  <2>1. /\ call[u] \in Calls /\ call[u].object.key \in Keys /\ call[u].object.key # k
        /\ call[u].stream = streamOf[call[u].object.key] /\ call[u].stream \in Streams
    BY <1>1, <1>10, Others
  <2>. QED  BY <1>2, <2>1
<1>11. Owned'
  <2>1. ASSUME NEW u \in Threads, pc'[u] # "idle"
        PROVE  /\ call'[u] \in Calls /\ call'[u].object.key \in KeysOf[u]
               /\ streamOf'[call'[u].object.key] = call'[u].stream
    <3>1. CASE u = t
      BY <1>1, <1>2, <1>7, <2>1, <3>1
    <3>2. CASE u # t
      <4>1. pc[u] # "idle" /\ call'[u] = call[u]
        BY <1>7, <2>1, <3>2
      <4>2. call[u].object.key \in KeysOf[u] /\ streamOf[call[u].object.key] = call[u].stream
        BY <1>5, <4>1 DEF Owned
      <4>. QED  BY <1>7, <1>10, <3>2, <4>1, <4>2
    <3>. QED  BY <3>1, <3>2
  <2>2. ASSUME NEW g \in Keys, streamOf'[g] # None PROVE streamOf'[g] <= opened'
    <3>1. CASE g = k
      BY <1>1, <1>3, <1>7, <2>2, <3>1
    <3>2. CASE g # k
      <4>1. streamOf'[g] = streamOf[g] /\ streamOf[g] <= opened /\ streamOf[g] \in Nat
        BY <1>5, <1>7, <2>2, <3>2, StreamsAre DEF Owned, SendTypes
      <4>. QED  BY ONLY <1>3, <1>6, <4>1
    <3>. QED  BY <3>1, <3>2
  <2>3. ASSUME NEW g \in Keys, NEW h \in Keys, streamOf'[g] # None, streamOf'[g] = streamOf'[h] PROVE g = h
    <3>1. CASE g # k /\ h # k
      BY <1>5, <1>7, <2>3, <3>1 DEF Owned
    <3>2. CASE g = k \/ h = k
      BY <1>1, <1>2, <1>7, <2>3, <3>2
    <3>. QED  BY <3>1, <3>2
  <2>. QED  BY <2>1, <2>2, <2>3 DEF Owned
<1>12. Unused'
  <2>1. ASSUME NEW r \in Streams, r > opened' PROVE wire'[r] = <<>> /\ ~fin'[r] /\ sent'[r] = <<>>
    <3>1. r \in Nat
      BY StreamsAre
    <3>2. r > opened /\ r # s
      BY ONLY <1>3, <1>4, <1>6, <2>1, <3>1
    <3>. QED  BY <1>5, <1>8, <3>2 DEF Unused
  <2>. QED  BY <2>1 DEF Unused
<1>13. InCalls'
  <2>1. ASSUME NEW u \in Threads, pc'[u] # "idle"
        PROVE  Stage(pc'[u], call'[u], out'[call'[u].stream], wire'[call'[u].stream],
                     fin'[call'[u].stream], sent'[call'[u].stream])
    <3>1. CASE u = t
      BY <1>2, <1>7, <1>8, <2>1, <3>1
    <3>2. CASE u # t
      <4>1. pc'[u] = pc[u] /\ call'[u] = call[u] /\ pc[u] # "idle"
        BY <1>7, <2>1, <3>2
      <4>2. call[u].stream \in Streams /\ call[u].stream # s
        BY <1>10, <3>2, <4>1
      <4>3. Stage(pc[u], call[u], out[call[u].stream], wire[call[u].stream],
                  fin[call[u].stream], sent[call[u].stream])
        BY <1>5, <4>1 DEF InCalls
      <4>. QED  BY <1>8, <4>1, <4>2, <4>3
    <3>. QED  BY <3>1, <3>2
  <2>. QED  BY <2>1 DEF InCalls
<1>14. BetweenCalls'
  <2>1. ASSUME NEW g \in Keys, streamOf'[g] # None, ~Busy(g)'
        PROVE  Settled(g, out'[streamOf'[g]], wire'[streamOf'[g]], fin'[streamOf'[g]], sent'[streamOf'[g]])
    <3>1. CASE g = k
      <4>1. z = s
        BY <1>1, <1>7, <2>1, <3>1
      <4>2. p = "idle"
        BY <1>1, <1>2, <1>7, <2>1, <3>1 DEF Busy
      <4>. QED  BY <1>2, <1>7, <1>8, <3>1, <4>1, <4>2
    <3>2. CASE g # k
      <4>1. ~Busy(g)
        <5>1. ASSUME NEW u \in Threads, pc[u] # "idle", call[u].object.key = g PROVE FALSE
          <6>1. u # t
            BY <1>2, <3>2, <5>1
          <6>2. pc'[u] # "idle" /\ call'[u].object.key = g
            BY <1>7, <5>1, <6>1
          <6>. QED  BY <2>1, <6>2 DEF Busy
        <5>. QED  BY <5>1 DEF Busy
      <4>2. streamOf'[g] = streamOf[g] /\ streamOf[g] # None /\ streamOf[g] # s /\ streamOf[g] \in Streams
        BY <1>2, <1>5, <1>7, <2>1, <3>2 DEF SendTypes
      <4>3. Settled(g, out[streamOf[g]], wire[streamOf[g]], fin[streamOf[g]], sent[streamOf[g]])
        BY <1>5, <4>1, <4>2 DEF BetweenCalls
      <4>. QED  BY <1>8, <4>2, <4>3
    <3>. QED  BY <3>1, <3>2
  <2>. QED  BY <2>1 DEF BetweenCalls
<1>15. AllWritten'
  <2>1. ASSUME NEW r \in Streams PROVE Written(wire'[r], fin'[r], sent'[r])
    <3>1. CASE r = s
      <4>1. wire[s] \in Seq(Nat) /\ sent[s] \in Seq(Shows) /\ Written(wire[s], fin[s], sent[s])
        BY <1>1, <1>5 DEF SendTypes, AllWritten
      <4>2. Written(w, f, ps)
        BY <1>2, <4>1, WrittenLonger
      <4>. QED  BY <1>8, <3>1, <4>2
    <3>2. CASE r # s
      BY <1>5, <1>8, <3>2 DEF AllWritten
    <3>. QED  BY <3>1, <3>2
  <2>. QED  BY <2>1 DEF AllWritten
<1>. QED  BY <1>9, <1>11, <1>12, <1>13, <1>14, <1>15 DEF SendInv

\* What a thread in a call knows of it.
LEMMA InCall ==
    ASSUME SendInv, NEW t \in Threads, pc[t] # "idle", NEW c, c = call[t], NEW k, k = c.object.key, NEW s, s = c.stream
    PROVE  /\ c \in Calls /\ OkObject(c.object) /\ k \in KeysOf[t] /\ k \in Keys /\ s \in Streams
           /\ streamOf[k] = s /\ s # None /\ s <= opened /\ \A g \in Keys : g # k => streamOf[g] # s
           /\ out[s] \in PubStreams /\ wire[s] \in Seq(Nat) /\ fin[s] \in BOOLEAN /\ sent[s] \in Seq(Shows)
           /\ Stage(pc[t], c, out[s], wire[s], fin[s], sent[s]) /\ Written(wire[s], fin[s], sent[s])
<1>1. c \in Calls /\ k \in KeysOf[t] /\ streamOf[k] = s
  BY DEF SendInv, Owned
<1>2. s \in Streams /\ OkObject(c.object)
  BY <1>1 DEF Calls
<1>3. k \in Keys /\ s # None
  BY <1>1, <1>2, KeysAre, StreamsAre
<1>4. s <= opened /\ \A g \in Keys : g # k => streamOf[g] # s
  BY <1>1, <1>3 DEF SendInv, Owned
<1>5. out[s] \in PubStreams /\ wire[s] \in Seq(Nat) /\ fin[s] \in BOOLEAN /\ sent[s] \in Seq(Shows)
  BY <1>2 DEF SendInv, SendTypes
<1>6. Stage(pc[t], c, out[s], wire[s], fin[s], sent[s]) /\ Written(wire[s], fin[s], sent[s])
  BY <1>2 DEF SendInv, InCalls, AllWritten
<1>. QED  BY <1>1, <1>2, <1>3, <1>4, <1>5, <1>6

\* What a step within a call leaves behind.
Remains(t, k, s, z, m, w, f, ps, p, c) ==
    /\ k = call[t].object.key /\ s = call[t].stream
    /\ z \in {s, None} /\ m \in PubStreams
    /\ w \in Seq(Nat) /\ f \in BOOLEAN /\ ps \in Seq(Shows) /\ p \in Stages /\ c \in Calls \cup {None}
    /\ Grows(wire[s], fin[s], sent[s], w, f, ps)
    /\ opened' = opened /\ calls' = calls /\ served' \in BOOLEAN /\ UNCHANGED recvVars
    /\ p # "idle" => c \in Calls /\ c.object.key = k /\ c.stream = s /\ z = s /\ Stage(p, c, m, w, f, ps)
    /\ p = "idle" /\ z = s => Settled(k, m, w, f, ps)

\* The fields of one stream grow.
Longer ==
    /\ UNCHANGED recvVars
    /\ \E s \in Streams : \E w, f, ps :
          /\ wire' = [wire EXCEPT ![s] = w] /\ fin' = [fin EXCEPT ![s] = f] /\ sent' = [sent EXCEPT ![s] = ps]
          /\ Grows(wire[s], fin[s], sent[s], w, f, ps)

LEMMA CallKept ==
    ASSUME SendInv, OneWriter, NEW t \in Threads, pc[t] # "idle",
           NEW k, NEW s, NEW z, NEW m, NEW w, NEW f, NEW ps, NEW p, NEW c,
           OneStep(t, k, s, z, m, w, f, ps, p, c), Remains(t, k, s, z, m, w, f, ps, p, c)
    PROVE  SendInv' /\ Longer
<1>1. k = call[t].object.key /\ s = call[t].stream
  BY DEF Remains
<1>2. k \in KeysOf[t] /\ s \in Streams /\ s <= opened /\ \A g \in Keys : g # k => streamOf[g] # s
  BY <1>1, InCall
<1>3. opened \in 0 .. MaxStreams /\ opened \in Nat /\ calls \in 0 .. MaxObjects
  BY DEF SendInv, SendTypes
<1>4. Counters(s)
  BY <1>2, <1>3 DEF Remains, Counters
<1>5. Leaves(t, k, s, z, m, w, f, ps, p, c)
  BY <1>1, <1>2, <1>4 DEF Remains, Leaves
<1>6. Longer
  BY <1>2 DEF Longer, Remains, OneStep
<1>. QED  BY <1>5, <1>6, StepKept

LEMMA Unchanged ==
    ASSUME SendInv, NEW s \in Streams
    PROVE  /\ out = [out EXCEPT ![s] = out[s]] /\ wire = [wire EXCEPT ![s] = wire[s]]
           /\ fin = [fin EXCEPT ![s] = fin[s]] /\ sent = [sent EXCEPT ![s] = sent[s]]
           /\ \A k \in Keys : streamOf = [streamOf EXCEPT ![k] = streamOf[k]]
           /\ \A t \in Threads : call = [call EXCEPT ![t] = call[t]]
BY DEF SendInv, SendTypes

\* Objects, with the groups G and the status l that ends a stream.
WithPayload(k, G) == {Object(k, g, id, 1, "normal", eos) : g \in G, id \in ObjectIds, eos \in BOOLEAN}
WithStatus(k, G, l, e) == {Object(k, g, id, 0, l, e) : g \in G, id \in ObjectIds}
OnlyEnd(k, G) == {Object(k, g, 0, 0, "normal", TRUE) : g \in G}
ObjectsIn(k, G, l) == WithPayload(k, G) \cup WithStatus(k, G, l, FALSE) \cup OnlyEnd(k, G)
ShapeIn(G, l, g, id, length, status, eos) ==
    /\ g \in G /\ id \in ObjectIds \cup {0} /\ eos \in BOOLEAN
    /\ \/ length = 1 /\ status = "normal" /\ id \in ObjectIds
       \/ length = 0 /\ status = l /\ id \in ObjectIds
       \/ length = 0 /\ status = "normal"

LEMMA WithStatusIs ==
    ASSUME NEW k, NEW G, NEW l, NEW e, NEW o \in WithStatus(k, G, l, e)
    PROVE  \E g \in G, id \in ObjectIds : o = Object(k, g, id, 0, l, e)
BY DEF WithStatus

LEMMA ObjectsShape ==
    ASSUME NEW k, NEW G, NEW l, NEW o \in ObjectsIn(k, G, l)
    PROVE  \E g, id, length, status, eos :
              ShapeIn(G, l, g, id, length, status, eos) /\ o = Object(k, g, id, length, status, eos)
<1>1. CASE o \in WithPayload(k, G)
  <2>1. PICK g \in G, id \in ObjectIds, eos \in BOOLEAN : o = Object(k, g, id, 1, "normal", eos)
    BY ONLY <1>1 DEF WithPayload
  <2>. QED  BY <2>1 DEF ShapeIn
<1>2. CASE o \in WithStatus(k, G, l, FALSE)
  <2> DEFINE e == FALSE
  <2>1. o \in WithStatus(k, G, l, e)
    BY <1>2
  <2> HIDE DEF e
  <2>2. PICK g \in G, id \in ObjectIds : o = Object(k, g, id, 0, l, e)
    BY ONLY <2>1, WithStatusIs
  <2>3. o = Object(k, g, id, 0, l, FALSE)
    BY ONLY <2>2 DEF e
  <2>4. ShapeIn(G, l, g, id, 0, l, FALSE)
    BY <2>2 DEF ShapeIn
  <2>. QED  BY ONLY <2>3, <2>4
<1>3. CASE o \in OnlyEnd(k, G)
  <2>1. PICK g \in G : o = Object(k, g, 0, 0, "normal", TRUE)
    BY ONLY <1>3 DEF OnlyEnd
  <2>. QED  BY <2>1 DEF ShapeIn
<1>. QED  BY <1>1, <1>2, <1>3 DEF ObjectsIn

LEMMA ObjectsAre ==
    ASSUME NEW k \in Keys, calls \in Nat, NEW o \in Objects(k)
    PROVE  OkObject(o) /\ o.key = k /\ ~Repeats(o) /\ o.first = TRUE
<1> DEFINE groups == IF k = FetchKey THEN FetchGroups ELSE {k[1]}
           last == IF k = FetchKey THEN "end_of_track" ELSE "end_of_group"
<1>a. Objects(k) = {x \in ObjectsIn(k, groups, last) : ~Repeats(x)}
  BY DEF Objects, ObjectsIn, WithPayload, WithStatus, OnlyEnd
<1>g. \A x \in groups : x \in Nat /\ (k = FetchKey => x \in FetchGroups) /\ (k # FetchKey => x = k[1])
  BY KeysAre, ObjectsAssumption
<1>l. last \in {"end_of_track", "end_of_group"}
  OBVIOUS
<1> HIDE DEF groups, last
<1>1. o \in ObjectsIn(k, groups, last) /\ ~Repeats(o)
  BY <1>a
<1>2. PICK g, id, length, status, eos :
         ShapeIn(groups, last, g, id, length, status, eos) /\ o = Object(k, g, id, length, status, eos)
  BY <1>1, ObjectsShape
<1>s. /\ g \in groups /\ id \in ObjectIds \cup {0} /\ eos \in BOOLEAN
      /\ \/ length = 1 /\ status = "normal" /\ id \in ObjectIds
         \/ length = 0 /\ status = last /\ id \in ObjectIds
         \/ length = 0 /\ status = "normal"
  BY <1>2 DEF ShapeIn
<1>3. /\ g \in Nat /\ id \in Nat /\ status \in {"normal", "end_of_group", "end_of_track"} /\ length \in {0, 1}
      /\ eos \in BOOLEAN /\ id \in ObjectIds \cup {0}
  BY <1>g, <1>l, <1>s, ObjectsAssumption
<1>4. /\ o.key = k /\ o.group = g /\ o.id = id /\ o.length = length /\ o.status = status /\ o.eos = eos
      /\ o.first = TRUE /\ o.number = calls + 1 /\ o.subgroup = IF k = FetchKey THEN 0 ELSE k[2]
  BY <1>2 DEF Object
<1>5. o.subgroup \in Nat
  BY <1>4, KeysAre
<1>6. o \in ObjectsOf
  <2>1. o = [key |-> k, group |-> g, subgroup |-> IF k = FetchKey THEN 0 ELSE k[2], id |-> id,
             length |-> length, status |-> status, eos |-> eos, first |-> TRUE, number |-> calls + 1]
    BY ONLY <1>2 DEF Object
  <2>2. (IF k = FetchKey THEN 0 ELSE k[2]) \in Nat /\ calls + 1 \in Nat
    BY <1>4, <1>5
  <2>. QED  BY ONLY <1>3, <2>1, <2>2, k \in Keys DEF ObjectsOf
<1>7. OkObject(o)
  <2>1. o.length = 1 => o.status = "normal"
    BY <1>g, <1>s, <1>4
  <2>2. ValidPacket(o) => o.id \in ObjectIds
    BY <1>s, <1>4 DEF ValidPacket, HasPayload
  <2>3. o.key = FetchKey => o.group \in FetchGroups
    BY <1>g, <1>s, <1>4
  <2>4. o.key # FetchKey => o.group = o.key[1] /\ o.subgroup = o.key[2]
    BY <1>g, <1>s, <1>4
  <2>. QED  BY <1>3, <1>4, <1>6, <2>1, <2>2, <2>3, <2>4 DEF OkObject
<1>. QED  BY <1>1, <1>4, <1>7

\* The lookups under the lock, with the stream m for a new one.
Lookup(t, k, o, m) ==
    LET known == streamOf[k] # None
        s == IF known THEN streamOf[k] ELSE opened + 1
    IN  /\ pc[t] = "idle" /\ calls < MaxObjects /\ calls' = calls + 1 /\ s \in Streams
        /\ streamOf' = [streamOf EXCEPT ![k] = s]
        /\ out' = (IF known THEN out ELSE [out EXCEPT ![s] = m])
        /\ opened' = (IF known THEN opened ELSE s)
        /\ call' = [call EXCEPT ![t] = [object |-> o, stream |-> s, bytes |-> <<>>]]
        /\ pc' = [pc EXCEPT ![t] = IF known THEN "encode" ELSE "header"]
        /\ UNCHANGED <<served, wire, fin, sent, recvVars>>
NewStream(k, m) ==
    /\ m \in PubStreams /\ m.got = FALSE /\ m.lastGroup = 0 /\ m.lastObject = 0
    /\ IF k = FetchKey THEN m.type = FETCH_HEADER /\ m.ascending = OkAscending ELSE m.type = Ordinary

LEMMA LookupKept ==
    ASSUME SendInv, OneWriter, NEW t \in Threads, NEW k \in KeysOf[t], NEW o \in Objects(k), NEW m,
           NewStream(k, m), Lookup(t, k, o, m)
    PROVE  SendInv' /\ Longer
<1> DEFINE known == streamOf[k] # None
           s == IF known THEN streamOf[k] ELSE opened + 1
           d == IF known THEN out[s] ELSE m
           c == [object |-> o, stream |-> s, bytes |-> <<>>]
           p == IF known THEN "encode" ELSE "header"
<1>1. /\ pc[t] = "idle" /\ calls < MaxObjects /\ calls' = calls + 1 /\ s \in Streams
      /\ streamOf' = [streamOf EXCEPT ![k] = s]
      /\ out' = (IF known THEN out ELSE [out EXCEPT ![s] = m])
      /\ opened' = (IF known THEN opened ELSE s)
      /\ call' = [call EXCEPT ![t] = c] /\ pc' = [pc EXCEPT ![t] = p]
      /\ served' = served /\ wire' = wire /\ fin' = fin /\ sent' = sent /\ UNCHANGED recvVars
  BY DEF Lookup
<1>2. SendTypes /\ Owned /\ Unused /\ InCalls /\ BetweenCalls
  BY DEF SendInv
<1>3. k \in Keys /\ s # None /\ s \in Nat
  BY <1>1, KeysAre, StreamsAre
<1>4. /\ opened \in 0 .. MaxStreams /\ opened \in Nat /\ calls \in 0 .. MaxObjects /\ calls \in Nat
      /\ MaxStreams \in Nat /\ MaxObjects \in Nat
  BY <1>2, ObjectsAssumption DEF SendTypes
<1>5. OkObject(o) /\ o.key = k /\ ~Repeats(o)
  BY <1>3, <1>4, ObjectsAre
<1>6. (known => s = streamOf[k] /\ s <= opened) /\ (~known => s = opened + 1)
  BY <1>2, <1>3 DEF Owned
<1>7. c \in Calls /\ c.object = o /\ c.stream = s /\ c.bytes = <<>>
  <2>1. o \in ObjectsOf
    BY <1>5 DEF OkObject
  <2>. QED  BY <1>1, <1>5, <2>1 DEF Calls
<1> HIDE DEF s, c
<1>8. ASSUME NEW g \in Keys, g # k PROVE streamOf[g] # s
  <2>1. CASE known
    BY <1>2, <1>3, <1>6, <1>8, <2>1 DEF Owned
  <2>2. CASE ~known
    <3>1. streamOf[g] # None => streamOf[g] <= opened
      BY <1>2, <1>8 DEF Owned
    <3>2. ~(s <= opened)
      BY <1>4, <1>6, <2>2
    <3>. QED  BY <1>3, <3>1, <3>2
  <2>. QED  BY <2>1, <2>2
<1>9. d \in PubStreams /\ wire[s] \in Seq(Nat) /\ fin[s] \in BOOLEAN /\ sent[s] \in Seq(Shows)
  BY <1>1, <1>2 DEF SendTypes, NewStream
<1>10. Counters(s)
  <2>1. s \in 0 .. MaxStreams
    BY ONLY <1>1, <1>4 DEF Streams
  <2>2. CASE known
    BY <1>1, <1>2, <1>4, <1>6, <2>2 DEF Counters, SendTypes
  <2>3. CASE ~known
    BY <1>1, <1>2, <1>3, <1>4, <1>6, <2>1, <2>3 DEF Counters, SendTypes
  <2>. QED  BY <2>2, <2>3
<1>11. Stage(p, c, d, wire[s], fin[s], sent[s])
  <2>1. CASE known
    <3>1. ~Busy(k)
      <4>1. ASSUME NEW u \in Threads, pc[u] # "idle", call[u].object.key = k PROVE FALSE
        <5>1. u # t
          BY <1>1, <4>1
        <5>. QED  BY <4>1, <5>1, Others
      <4>. QED  BY <4>1 DEF Busy
    <3>2. Settled(k, d, wire[s], fin[s], sent[s])
      BY <1>2, <1>3, <1>6, <2>1, <3>1 DEF BetweenCalls
    <3>3. Novel(d, o)
      BY <1>3, <1>5, <1>6, <2>1 DEF Repeats, Novel
    <3>. QED  BY <1>5, <1>7, <2>1, <3>2, <3>3 DEF Stage, Settled
  <2>2. CASE ~known
    <3>1. wire[s] = <<>> /\ ~fin[s] /\ sent[s] = <<>>
      <4>1. s > opened
        BY <1>4, <1>6, <2>2
      <4>. QED  BY <1>1, <1>2, <4>1 DEF Unused
    <3>2. Kind(k, m, <<>>)
      BY DEF NewStream, Kind
    <3>3. Agrees(k, m, <<>>)
      <4>1. Before(<<>>, Len(<<>>)) = [got |-> FALSE, group |-> 0, id |-> 0]
        BY DEF Before
      <4> DEFINE prev == Before(<<>>, Len(<<>>))
      <4>2. prev.got = FALSE /\ prev.group = 0 /\ prev.id = 0
        BY <4>1
      <4> HIDE DEF prev
      <4>3. AgreeWith(k, m, prev)
        BY <4>2 DEF AgreeWith, NewStream
      <4>. QED  BY <4>3 DEF Agrees, prev
    <3>4. Novel(m, o)
      BY DEF Novel, NewStream
    <3>. QED  BY <1>5, <1>7, <2>2, <3>1, <3>2, <3>3, <3>4 DEF Stage
  <2>. QED  BY <2>1, <2>2
<1>12. p \in Stages /\ p # "idle"
  BY DEF Stages
<1>13. OneStep(t, k, s, s, d, wire[s], fin[s], sent[s], p, c)
  <2>1. out' = [out EXCEPT ![s] = d]
    BY <1>1, Unchanged
  <2>. QED  BY <1>1, <2>1, Unchanged DEF OneStep
<1>14. Leaves(t, k, s, s, d, wire[s], fin[s], sent[s], p, c)
  <2>1. Grows(wire[s], fin[s], sent[s], wire[s], fin[s], sent[s])
    BY DEF Grows
  <2>. QED  BY <1>1, <1>5, <1>7, <1>8, <1>9, <1>10, <1>11, <1>12, <2>1 DEF Leaves
<1>15. Longer
  BY <1>1, <1>13, <1>14 DEF Longer, Leaves, OneStep
<1>. QED  BY <1>13, <1>14, <1>15, StepKept

LEMMA LookupsKept ==
    ASSUME SendInv, OneWriter, NEW t \in Threads, LookupSubgroup(t) \/ LookupFetch(t)
    PROVE  SendInv' /\ Longer
<1>0. calls \in Nat
  BY DEF SendInv, SendTypes
<1>1. CASE LookupSubgroup(t)
  <2> DEFINE m == PublisherStream(SubgroupType(TRUE, FALSE, TRUE, TRUE, TRUE, TRUE), TRUE)
  <2>0. /\ pc[t] = "idle" /\ calls < MaxObjects /\ calls' = calls + 1
        /\ UNCHANGED <<served, wire, fin, sent, recvVars>>
    BY <1>1 DEF LookupSubgroup
  <2>1. PICK k \in KeysOf[t] \ {FetchKey} : \E o \in Objects(k) :
          LET known == streamOf[o.key] # None
              s == IF known THEN streamOf[o.key] ELSE opened + 1
          IN  /\ s \in Streams
              /\ streamOf' = [streamOf EXCEPT ![o.key] = s]
              /\ out' = IF known THEN out ELSE
                     [out EXCEPT ![s] = PublisherStream(
                          SubgroupType(TRUE, FALSE, TRUE, TRUE, TRUE, o.first), TRUE)]
              /\ opened' = IF known THEN opened ELSE s
              /\ call' = [call EXCEPT ![t] = [object |-> o, stream |-> s, bytes |-> <<>>]]
              /\ pc' = [pc EXCEPT ![t] = IF known THEN "encode" ELSE "header"]
    BY <1>1 DEF LookupSubgroup
  <2>3. PICK o \in Objects(k) :
          LET known == streamOf[o.key] # None
              s == IF known THEN streamOf[o.key] ELSE opened + 1
          IN  /\ s \in Streams
              /\ streamOf' = [streamOf EXCEPT ![o.key] = s]
              /\ out' = IF known THEN out ELSE
                     [out EXCEPT ![s] = PublisherStream(
                          SubgroupType(TRUE, FALSE, TRUE, TRUE, TRUE, o.first), TRUE)]
              /\ opened' = IF known THEN opened ELSE s
              /\ call' = [call EXCEPT ![t] = [object |-> o, stream |-> s, bytes |-> <<>>]]
              /\ pc' = [pc EXCEPT ![t] = IF known THEN "encode" ELSE "header"]
    BY <2>1
  <2>4. o.key = k /\ o.first = TRUE
    BY <1>0, KeysAre, ObjectsAre
  <2>5. Lookup(t, k, o, m)
    BY <2>0, <2>3, <2>4 DEF Lookup
  <2>2. NewStream(k, m)
    BY OrdinaryIs DEF NewStream, PublisherStream, PubStreams, Ordinary
  <2>. QED  BY <2>2, <2>5, LookupKept
<1>2. CASE LookupFetch(t)
  <2> DEFINE m == PublisherStream(FETCH_HEADER, OkAscending)
  <2>1. /\ FetchKey \in KeysOf[t] /\ pc[t] = "idle" /\ calls < MaxObjects /\ calls' = calls + 1
        /\ UNCHANGED <<served, wire, fin, sent, recvVars>>
    BY <1>2 DEF LookupFetch
  <2>2. PICK o \in Objects(FetchKey) : Lookup(t, FetchKey, o, m)
    BY <1>2, <2>1 DEF LookupFetch, Lookup
  <2>3. NewStream(FetchKey, m)
    BY ObjectsAssumption DEF NewStream, PublisherStream, PubStreams, FETCH_HEADER
  <2>. QED  BY <2>1, <2>2, <2>3, LookupKept
<1>. QED  BY <1>1, <1>2

\* The header of the stream of an object.
LEMMA HeaderSent ==
    ASSUME NEW o, OkObject(o), NEW m, Kind(o.key, m, <<>>), NEW v,
           v = (IF o.key = FetchKey THEN AddFetchHeader ELSE AddSubgroupHeader(m.type, o))
    PROVE  v \in Seq(Nat) /\ v # <<>> /\ HeaderIs(v, Len(v)) /\ Kind(o.key, m, v)
<1>1. o.group \in Nat /\ o.subgroup \in Nat /\ PRIORITY \in Nat
  BY DEF OkObject, ObjectsOf, PRIORITY
<1>2. CASE o.key = FetchKey
  <2>1. v = <<FETCH_HEADER, 2>> /\ FETCH_HEADER \in Nat
    BY <1>2 DEF AddFetchHeader, FETCH_HEADER
  <2>2. v \in Seq(Nat) /\ Len(v) = 2 /\ v[1] = FETCH_HEADER /\ v # <<>>
    BY ONLY <2>1
  <2>. QED  BY <1>2, <2>2 DEF HeaderIs, Kind, IsFetch
<1>3. CASE o.key # FetchKey
  <2>1. m.type = Ordinary /\ o.group = o.key[1] /\ o.subgroup = o.key[2]
    BY <1>3 DEF Kind, OkObject
  <2>2. SubgroupFields(Ordinary).subgroup = TRUE /\ SubgroupFields(Ordinary).priority = TRUE
    BY OrdinaryIs DEF SubgroupFields, Bit
  <2>3. AddSubgroupHeader(Ordinary, o) = <<Ordinary, 1, o.group>> \o <<o.subgroup>> \o <<PRIORITY>>
    BY ONLY <2>2 DEF AddSubgroupHeader
  <2>4. Ordinary \in Nat /\ 1 \in Nat /\ Ordinary # FETCH_HEADER
    BY OrdinaryIs
  <2>5. <<Ordinary, 1, o.group>> \o <<o.subgroup>> = <<Ordinary, 1, o.group, o.subgroup>>
    BY ONLY <1>1, <2>4, JoinThreeOne
  <2>6. <<Ordinary, 1, o.group, o.subgroup>> \o <<PRIORITY>> = <<Ordinary, 1, o.group, o.subgroup, PRIORITY>>
    BY ONLY <1>1, <2>4, JoinFourOne
  <2>7. v = <<Ordinary, 1, o.group, o.subgroup, PRIORITY>>
    BY <1>3, <2>1, <2>3, <2>5, <2>6
  <2>8. /\ v \in Seq(Nat) /\ Len(v) = 5 /\ v[1] = Ordinary /\ v[3] = o.group /\ v[4] = o.subgroup
        /\ v[5] = PRIORITY /\ v # <<>>
    BY ONLY <1>1, <2>4, <2>7
  <2>. QED  BY <1>3, <2>1, <2>4, <2>8 DEF HeaderIs, Kind, IsFetch
<1>. QED  BY <1>2, <1>3

LEMMA HeaderKeptIn ==
    ASSUME SendInv, OneWriter, NEW t \in Threads, SendHeader(t)
    PROVE  SendInv' /\ Longer
<1> DEFINE c == call[t]
           o == c.object
           k == o.key
           s == c.stream
           m == out[s]
           v == IF k = FetchKey THEN AddFetchHeader ELSE AddSubgroupHeader(m.type, o)
<1>1. /\ pc[t] = "header" /\ pc' = [pc EXCEPT ![t] = "encode"]
      /\ wire' = [wire EXCEPT ![s] = @ \o v]
      /\ streamOf' = streamOf /\ served' = served /\ out' = out /\ opened' = opened /\ fin' = fin
      /\ call' = call /\ calls' = calls /\ sent' = sent /\ UNCHANGED recvVars
  BY DEF SendHeader
<1>2. /\ c \in Calls /\ OkObject(o) /\ k \in KeysOf[t] /\ k \in Keys /\ s \in Streams
      /\ streamOf[k] = s /\ m \in PubStreams /\ wire[s] \in Seq(Nat) /\ fin[s] \in BOOLEAN /\ sent[s] \in Seq(Shows)
      /\ Stage("header", c, m, wire[s], fin[s], sent[s])
  BY <1>1, InCall
<1>3. /\ wire[s] = <<>> /\ ~fin[s] /\ c.bytes = <<>> /\ Agrees(k, m, sent[s]) /\ Novel(m, o) /\ Kind(k, m, <<>>)
  BY <1>2 DEF Stage
<1>4. v \in Seq(Nat) /\ v # <<>> /\ HeaderIs(v, Len(v)) /\ Kind(k, m, v)
  BY <1>2, <1>3, HeaderSent
<1> HIDE DEF v
<1>5. wire' = [wire EXCEPT ![s] = v]
  <2>1. <<>> \o v = v
    BY <1>4, ConcatEmptySeq
  <2>2. wire[s] \o v = v
    BY ONLY <1>3, <2>1
  <2>. QED  BY ONLY <1>1, <2>2
<1>6. OneStep(t, k, s, s, m, v, fin[s], sent[s], "encode", c)
  <2>1. /\ out = [out EXCEPT ![s] = out[s]] /\ wire = [wire EXCEPT ![s] = wire[s]]
        /\ fin = [fin EXCEPT ![s] = fin[s]] /\ sent = [sent EXCEPT ![s] = sent[s]]
        /\ streamOf = [streamOf EXCEPT ![k] = streamOf[k]] /\ call = [call EXCEPT ![t] = call[t]]
    BY <1>1, <1>2, Unchanged
  <2>. QED  BY <1>1, <1>2, <1>5, <2>1 DEF OneStep
<1>7. Stage("encode", c, m, v, fin[s], sent[s])
  BY <1>3, <1>4 DEF Stage
<1>8. Grows(wire[s], fin[s], sent[s], v, fin[s], sent[s])
  BY <1>3, <1>4 DEF Grows
<1>9. served' \in BOOLEAN
  BY <1>1 DEF SendInv, SendTypes
<1>10. Remains(t, k, s, s, m, v, fin[s], sent[s], "encode", c)
  BY <1>1, <1>2, <1>4, <1>7, <1>8, <1>9 DEF Remains, Stages
<1>. QED  BY <1>1, <1>6, <1>10, CallKept

\* What a stream's last IDs are behind its objects.
LEMMA LastOf ==
    ASSUME NEW ps \in Seq(Shows), NEW prev, prev = Before(ps, Len(ps))
    PROVE  prev \in Marks /\ (~prev.got => prev.id = 0)
<1>1. Len(ps) \in Nat
  OBVIOUS
<1>2. CASE Len(ps) = 0
  <2>1. prev = [got |-> FALSE, group |-> 0, id |-> 0]
    BY <1>2 DEF Before
  <2>. QED  BY ONLY <2>1 DEF Marks
<1>3. CASE Len(ps) # 0
  <2>1. prev = [got |-> TRUE, group |-> ps[Len(ps)].group, id |-> ps[Len(ps)].id]
    BY <1>3 DEF Before
  <2>2. ps[Len(ps)] \in Shows
    BY <1>1, <1>3
  <2>3. ps[Len(ps)].group \in Nat /\ ps[Len(ps)].id \in Nat
    BY ONLY <2>2 DEF Shows
  <2>. QED  BY ONLY <2>1, <2>3 DEF Marks
<1>. QED  BY <1>2, <1>3

\* A step that chooses the fields of an object.
Encodes(t, m, b) ==
    LET s == call[t].stream IN
    /\ pc' = [pc EXCEPT ![t] = "write"] /\ call' = [call EXCEPT ![t].bytes = b] /\ out' = [out EXCEPT ![s] = m]
    /\ UNCHANGED <<streamOf, served, opened, wire, fin, calls, sent, recvVars>>

LEMMA EncodesKept ==
    ASSUME SendInv, OneWriter, NEW t \in Threads, pc[t] = "encode", NEW m, NEW b, Encodes(t, m, b),
           b \in Seq(Nat), m \in PubStreams, Kind(call[t].object.key, m, wire[call[t].stream]),
           Encoded([call[t] EXCEPT !.bytes = b], m, sent[call[t].stream])
    PROVE  SendInv' /\ Longer
<1> DEFINE o == call[t].object
           k == o.key
           s == call[t].stream
           c == [call[t] EXCEPT !.bytes = b]
<1>1. /\ pc' = [pc EXCEPT ![t] = "write"] /\ out' = [out EXCEPT ![s] = m]
      /\ streamOf' = streamOf /\ served' = served /\ opened' = opened /\ wire' = wire /\ fin' = fin
      /\ calls' = calls /\ sent' = sent /\ UNCHANGED recvVars
  BY DEF Encodes
<1>2. call' = [call EXCEPT ![t] = c]
  BY DEF Encodes
<1>3. /\ call[t] \in Calls /\ k \in KeysOf[t] /\ k \in Keys /\ s \in Streams
      /\ streamOf[k] = s /\ wire[s] \in Seq(Nat) /\ fin[s] \in BOOLEAN /\ sent[s] \in Seq(Shows)
      /\ Stage("encode", call[t], out[s], wire[s], fin[s], sent[s])
  BY InCall
<1>4. c \in Calls /\ c.object = o /\ c.stream = s
  BY <1>3 DEF Calls
<1>5. wire[s] # <<>> /\ ~fin[s]
  BY <1>3 DEF Stage
<1>6. Encoded(c, m, sent[s])
  OBVIOUS
<1> HIDE DEF c
<1>7. Stage("write", c, m, wire[s], fin[s], sent[s])
  BY <1>4, <1>5, <1>6 DEF Stage
<1>8. OneStep(t, k, s, s, m, wire[s], fin[s], sent[s], "write", c)
  BY <1>1, <1>2, <1>3, Unchanged DEF OneStep
<1>9. Grows(wire[s], fin[s], sent[s], wire[s], fin[s], sent[s])
  BY DEF Grows
<1>10. served' \in BOOLEAN
  BY <1>1 DEF SendInv, SendTypes
<1>11. Remains(t, k, s, s, m, wire[s], fin[s], sent[s], "write", c)
  BY <1>1, <1>3, <1>4, <1>7, <1>9, <1>10 DEF Remains, Stages
<1>. QED  BY <1>8, <1>11, CallKept

LEMMA ClosesIs == ASSUME NEW o, OkObject(o) PROVE Closes(o) \in BOOLEAN
BY DEF Closes, OkObject, ObjectsOf

\* What a thread that is about to choose the fields of its object knows.
LEMMA ToEncode ==
    ASSUME SendInv, NEW t \in Threads, pc[t] = "encode", NEW c, c = call[t], NEW o, o = c.object,
           NEW k, k = o.key, NEW s, s = c.stream, NEW ps, ps = sent[s], NEW prev, prev = Before(ps, Len(ps))
    PROVE  /\ c \in Calls /\ OkObject(o) /\ k \in KeysOf[t] /\ k \in Keys /\ s \in Streams
           /\ streamOf[k] = s /\ out[s] \in PubStreams /\ wire[s] \in Seq(Nat) /\ fin[s] \in BOOLEAN
           /\ ps \in Seq(Shows) /\ wire[s] # <<>> /\ ~fin[s] /\ c.bytes = <<>> /\ Kind(k, out[s], wire[s])
           /\ Agrees(k, out[s], ps) /\ AgreeWith(k, out[s], prev) /\ Novel(out[s], o)
           /\ prev \in Marks /\ (~prev.got => prev.id = 0)
<1>1. /\ c \in Calls /\ OkObject(o) /\ k \in KeysOf[t] /\ k \in Keys /\ s \in Streams
      /\ streamOf[k] = s /\ out[s] \in PubStreams /\ wire[s] \in Seq(Nat) /\ fin[s] \in BOOLEAN
      /\ ps \in Seq(Shows) /\ Stage("encode", c, out[s], wire[s], fin[s], ps)
  BY InCall
<1>2. /\ wire[s] # <<>> /\ ~fin[s] /\ c.bytes = <<>> /\ Kind(k, out[s], wire[s])
      /\ Agrees(k, out[s], ps) /\ Novel(out[s], o)
  BY <1>1 DEF Stage
<1>3. prev \in Marks /\ (~prev.got => prev.id = 0)
  BY ONLY <1>1, prev = Before(ps, Len(ps)), LastOf
<1>4. AgreeWith(k, out[s], prev)
  BY <1>2 DEF Agrees
<1>. QED  BY <1>1, <1>2, <1>3, <1>4

\* Nothing is encoded for a call that only ends the stream.
LEMMA NothingEncoded ==
    ASSUME SendInv, OneWriter, NEW t \in Threads, pc[t] = "encode", ~ValidPacket(call[t].object),
           pc' = [pc EXCEPT ![t] = "write"], UNCHANGED <<call, out>>,
           UNCHANGED <<streamOf, served, opened, wire, fin, calls, sent, recvVars>>
    PROVE  SendInv' /\ Longer
<1> DEFINE c == call[t]
           o == c.object
           k == o.key
           s == c.stream
<1>1. /\ c \in Calls /\ s \in Streams /\ out[s] \in PubStreams /\ c.bytes = <<>>
      /\ Kind(k, out[s], wire[s]) /\ Agrees(k, out[s], sent[s])
  BY ToEncode
<1>2. [c EXCEPT !.bytes = <<>>] = c
  BY <1>1 DEF Calls
<1>3. call' = [call EXCEPT ![t].bytes = <<>>]
  <2>1. call \in [Threads -> Calls \cup {None}]
    BY DEF SendInv, SendTypes
  <2>. QED  BY <1>2, <2>1
<1>4. out' = [out EXCEPT ![s] = out[s]]
  BY <1>1, Unchanged
<1>5. Encodes(t, out[s], <<>>)
  BY <1>3, <1>4 DEF Encodes
<1>6. Encoded([c EXCEPT !.bytes = <<>>], out[s], sent[s])
  BY <1>1, <1>2 DEF Encoded
<1>7. <<>> \in Seq(Nat)
  OBVIOUS
<1>. QED  BY <1>1, <1>5, <1>6, <1>7, EncodesKept

LEMMA EncodeSubgroupKept ==
    ASSUME SendInv, OneWriter, NEW t \in Threads, EncodeSubgroup(t)
    PROVE  SendInv' /\ Longer
<1> DEFINE c == call[t]
           o == c.object
           k == o.key
           s == c.stream
           m == out[s]
           ps == sent[s]
           prev == Before(ps, Len(ps))
           old == ValidPacket(o) /\ m.got /\ o.id <= m.lastObject
           p == Shown(o, Closes(o))
           b == AddSubgroupObject(m.type, SubgroupDelta(m, o.id), o)
           n == [m EXCEPT !.got = TRUE, !.lastObject = o.id]
<1>1. pc[t] = "encode" /\ k # FetchKey
  BY DEF EncodeSubgroup
<1>2. /\ c \in Calls /\ OkObject(o) /\ k \in KeysOf[t] /\ k \in Keys /\ s \in Streams
      /\ streamOf[k] = s /\ m \in PubStreams /\ wire[s] \in Seq(Nat) /\ fin[s] \in BOOLEAN
      /\ ps \in Seq(Shows) /\ wire[s] # <<>> /\ ~fin[s] /\ Kind(k, m, wire[s])
      /\ Agrees(k, m, ps) /\ AgreeWith(k, m, prev) /\ prev \in Marks /\ (~prev.got => prev.id = 0)
  BY <1>1, ToEncode
<1>3. UNCHANGED <<streamOf, served, opened, wire, fin, calls, sent, recvVars>>
  BY DEF EncodeSubgroup
<1>4. CASE old
  <2>1. pc' = [pc EXCEPT ![t] = "idle"] /\ call' = [call EXCEPT ![t] = None] /\ out' = out
    BY <1>4 DEF EncodeSubgroup
  <2>2. OneStep(t, k, s, s, m, wire[s], fin[s], ps, "idle", None)
    BY <1>2, <1>3, <2>1, Unchanged DEF OneStep
  <2>3. Settled(k, m, wire[s], fin[s], ps)
    BY <1>2 DEF Settled
  <2>4. Grows(wire[s], fin[s], ps, wire[s], fin[s], ps)
    BY DEF Grows
  <2>5. served' \in BOOLEAN
    BY <1>3 DEF SendInv, SendTypes
  <2>6. Remains(t, k, s, s, m, wire[s], fin[s], ps, "idle", None)
    BY <1>2, <1>3, <2>3, <2>4, <2>5 DEF Remains, Stages
  <2>. QED  BY <1>1, <2>2, <2>6, CallKept
<1>5. CASE ~ValidPacket(o)
  <2>1. pc' = [pc EXCEPT ![t] = "write"] /\ UNCHANGED <<call, out>>
    BY <1>5 DEF EncodeSubgroup
  <2>. QED  BY <1>1, <1>3, <1>5, <2>1, NothingEncoded
<1>6. CASE ValidPacket(o) /\ ~old
  <2>1. /\ pc' = [pc EXCEPT ![t] = "write"] /\ call' = [call EXCEPT ![t].bytes = b]
        /\ out' = [out EXCEPT ![s].got = TRUE, ![s].lastObject = o.id]
    BY <1>6 DEF EncodeSubgroup
  <2>2. out' = [out EXCEPT ![s] = n]
    BY <1>2, <2>1
  <2>3. Encodes(t, n, b)
    BY <1>3, <2>1, <2>2 DEF Encodes
  <2>4. o.id \in ObjectIds /\ o.id \in Nat
    BY <1>2, <1>6, ObjectsAssumption DEF OkObject
  <2>5. /\ n \in PubStreams /\ n.type = m.type /\ n.got = TRUE /\ n.lastObject = o.id
    BY <1>2, <2>4 DEF PubStreams
  <2>6. m.type = Ordinary /\ m.got = prev.got /\ m.lastObject = prev.id /\ prev.id \in Nat /\ prev.got \in BOOLEAN
    BY <1>1, <1>2 DEF Kind, AgreeWith, Marks
  <2>7. IF prev.got THEN o.id > prev.id ELSE prev.id = 0
    <3>1. ~(m.got /\ o.id <= m.lastObject)
      BY <1>6
    <3>2. /\ o.id \in Nat /\ m.got = prev.got /\ m.lastObject = prev.id /\ prev.id \in Nat
          /\ (~prev.got => prev.id = 0)
      BY <1>2, <2>4, <2>6
    <3> HIDE DEF o, m, prev
    <3>. QED  BY ONLY <3>1, <3>2
  <2>8. o.id - prev.id - Flag(prev.got, 1) \in Nat
    BY <2>4, <2>6, <2>7 DEF Flag
  <2>9. Closes(o) \in BOOLEAN
    BY <1>2, ClosesIs
  <2>10. p \in Shows /\ p.id = o.id
    BY <1>2, <2>9, ShownIs
  <2>11. b = Frame(FALSE, prev, p)
    <3> DEFINE e == Closes(o)
    <3>1. /\ AgreeWith(k, m, prev) /\ m.type = Ordinary /\ OkObject(o) /\ prev \in Marks
          /\ o.id - prev.id - Flag(prev.got, 1) \in Nat /\ e \in BOOLEAN
      BY <1>2, <2>6, <2>8, <2>9
    <3> HIDE DEF k, m, prev, o, e
    <3>2. AddSubgroupObject(m.type, SubgroupDelta(m, o.id), o) = Frame(FALSE, prev, Shown(o, e))
      <4>1. WritesSubgroup(k, m, prev, o, e)
        BY ONLY <3>1 DEF WritesSubgroup
      <4>2. SubgroupIs(m, prev, o, e)
        BY ONLY <4>1, SubgroupWritten
      <4>. QED  BY ONLY <4>2 DEF SubgroupIs
    <3>. QED  BY <3>2 DEF e
  <2> HIDE DEF b, p, n, prev
  <2>12. Follows(FALSE, prev, p)
    BY <1>2, <2>7, <2>10 DEF Follows
  <2>13. b \in Seq(Nat)
    BY <2>11, <2>12, FrameIs DEF FrameOf
  <2>14. Kind(k, n, wire[s])
    BY <1>1, <1>2, <2>5 DEF Kind
  <2>15. AgreeWith(k, n, [got |-> TRUE, group |-> p.group, id |-> p.id])
    BY <1>1, <2>5, <2>10 DEF AgreeWith
  <2>16. Encoded([c EXCEPT !.bytes = b], n, ps)
    <3> DEFINE d == [c EXCEPT !.bytes = b]
    <3>1. d.object = o /\ d.bytes = b
      BY <1>2 DEF Calls
    <3> HIDE DEF d
    <3>2. Follows(k = FetchKey, prev, p) /\ d.bytes = Frame(k = FetchKey, prev, p)
      <4>1. (k = FetchKey) = FALSE
        BY <1>1
      <4>. QED  BY ONLY <2>11, <2>12, <3>1, <4>1
    <3>3. Encoded(d, n, ps)
      BY <1>6, <2>15, <3>1, <3>2 DEF Encoded, p, prev
    <3>. QED  BY <3>3 DEF d
  <2>. QED  BY <1>1, <2>3, <2>5, <2>13, <2>14, <2>16, EncodesKept
<1>. QED  BY <1>4, <1>5, <1>6

LEMMA EncodeFetchKept ==
    ASSUME SendInv, OneWriter, NEW t \in Threads, EncodeFetch(t)
    PROVE  SendInv' /\ Longer
<1> DEFINE c == call[t]
           o == c.object
           k == o.key
           s == c.stream
           m == out[s]
           ps == sent[s]
           prev == Before(ps, Len(ps))
           p == Shown(o, Closes(o))
           b == FetchEncode(m, o)
           n == [m EXCEPT !.got = TRUE, !.lastGroup = o.group, !.lastObject = o.id]
<1>1. pc[t] = "encode" /\ k = FetchKey /\ pc' = [pc EXCEPT ![t] = "write"]
  BY DEF EncodeFetch
<1>2. /\ c \in Calls /\ OkObject(o) /\ k \in KeysOf[t] /\ k \in Keys /\ s \in Streams
      /\ streamOf[k] = s /\ m \in PubStreams /\ wire[s] \in Seq(Nat) /\ fin[s] \in BOOLEAN
      /\ ps \in Seq(Shows) /\ wire[s] # <<>> /\ ~fin[s] /\ Kind(k, m, wire[s])
      /\ AgreeWith(k, m, prev) /\ Novel(m, o) /\ prev \in Marks
  BY <1>1, ToEncode
<1>3. UNCHANGED <<streamOf, served, opened, wire, fin, calls, sent, recvVars>>
  BY DEF EncodeFetch
<1>4. CASE ~ValidPacket(o)
  <2>1. UNCHANGED <<call, out>>
    BY <1>4 DEF EncodeFetch
  <2>. QED  BY <1>1, <1>3, <1>4, <2>1, NothingEncoded
<1>5. CASE ValidPacket(o)
  <2>1. /\ call' = [call EXCEPT ![t].bytes = b]
        /\ out' = [out EXCEPT ![s].got = TRUE, ![s].lastGroup = o.group, ![s].lastObject = o.id]
    BY <1>5 DEF EncodeFetch
  <2>2. out' = [out EXCEPT ![s] = n]
    BY <1>2, <2>1
  <2>3. Encodes(t, n, b)
    BY <1>1, <1>3, <2>1, <2>2 DEF Encodes
  <2>4. o.id \in ObjectIds /\ o.group \in FetchGroups /\ o.id < Wrap /\ o.group < Wrap /\ o.group \in Nat
    BY <1>1, <1>2, <1>5, ObjectsAssumption DEF OkObject
  <2>5. /\ n \in PubStreams /\ n.type = m.type /\ n.ascending = m.ascending /\ n.got = TRUE
        /\ n.lastGroup = o.group /\ n.lastObject = o.id
    BY <1>2, <2>4 DEF PubStreams
  <2>6. /\ m.ascending = OkAscending /\ m.got = prev.got /\ m.lastObject = prev.id /\ m.lastGroup = prev.group
        /\ prev.got => prev.group < Wrap /\ prev.id < Wrap
    BY <1>1, <1>2 DEF Kind, AgreeWith
  <2>7. prev.got => o.group # prev.group \/ o.id # prev.id
    BY <1>1, <1>2, <2>6 DEF Novel
  <2>8. Closes(o) \in BOOLEAN
    BY <1>2, ClosesIs
  <2>9. p \in Shows /\ p.id = o.id /\ p.group = o.group
    BY <1>2, <2>8, ShownIs
  <2>10. Follows(TRUE, prev, p)
    <3> HIDE DEF prev, p, o
    <3>. QED  BY <1>2, <2>4, <2>6, <2>7, <2>9 DEF Follows
  <2>11. b = Frame(TRUE, prev, p)
    <3> DEFINE e == Closes(o)
    <3>1. /\ AgreeWith(FetchKey, m, prev) /\ m.ascending = OkAscending /\ OkObject(o) /\ prev \in Marks
          /\ e \in BOOLEAN /\ p = Shown(o, e) /\ Follows(TRUE, prev, p)
      BY <1>1, <1>2, <2>6, <2>8, <2>10
    <3> HIDE DEF m, prev, o, e, p
    <3>2. FetchEncode(m, o) = Frame(TRUE, prev, p)
      <4>1. WritesFetch(m, prev, o, e, p)
        BY ONLY <3>1 DEF WritesFetch
      <4>. QED  BY ONLY <4>1, FetchWritten
    <3>. QED  BY <3>2
  <2> HIDE DEF b, p, n, prev
  <2>13. b \in Seq(Nat)
    BY <2>10, <2>11, FrameIs DEF FrameOf
  <2>14. Kind(k, n, wire[s])
    BY <1>1, <1>2, <2>5 DEF Kind
  <2>15. AgreeWith(k, n, [got |-> TRUE, group |-> p.group, id |-> p.id])
    BY <1>1, <2>4, <2>5, <2>9 DEF AgreeWith
  <2>16. Encoded([c EXCEPT !.bytes = b], n, ps)
    <3> DEFINE d == [c EXCEPT !.bytes = b]
    <3>1. d.object = o /\ d.bytes = b
      BY <1>2 DEF Calls
    <3> HIDE DEF d
    <3>2. Follows(k = FetchKey, prev, p) /\ d.bytes = Frame(k = FetchKey, prev, p)
      <4>1. (k = FetchKey) = TRUE
        BY <1>1
      <4>. QED  BY ONLY <2>10, <2>11, <3>1, <4>1
    <3>3. Encoded(d, n, ps)
      BY <1>5, <2>15, <3>1, <3>2 DEF Encoded, p, prev
    <3>. QED  BY <3>3 DEF d
  <2>. QED  BY <1>1, <2>3, <2>5, <2>13, <2>14, <2>16, EncodesKept
<1>. QED  BY <1>4, <1>5

\* What is on a stream once the object of a call was written, or only its end.
WrittenBy(k, m, w, f, ps, e, v, qs) ==
    /\ v \in Seq(Nat) /\ v # <<>> /\ qs \in Seq(Shows) /\ Kind(k, m, v) /\ Agrees(k, m, qs)
    /\ Grows(w, f, ps, v, e, qs)

LEMMA ObjectWritten ==
    ASSUME NEW k, NEW m, NEW w \in Seq(Nat), NEW f, NEW ps \in Seq(Shows), NEW e, NEW o, OkObject(o), k = o.key,
           w # <<>>, ~f, Written(w, f, ps), Kind(k, m, w), NEW prev, prev = Before(ps, Len(ps)),
           NEW p, p = Shown(o, e), e \in BOOLEAN, Follows(k = FetchKey, prev, p),
           AgreeWith(k, m, [got |-> TRUE, group |-> p.group, id |-> p.id])
    PROVE  WrittenBy(k, m, w, f, ps, e, w \o Frame(k = FetchKey, prev, p), Append(ps, p))
<1> DEFINE b == Frame(k = FetchKey, prev, p)
           v == w \o b
           qs == Append(ps, p)
<1>1. IsFetch(w) = (k = FetchKey)
  BY DEF Kind, IsFetch
<1>2. p \in Shows /\ p.group = o.group /\ p.subgroup = o.subgroup
  BY ShownIs
<1>3. ~IsFetch(w) => p.group = w[3] /\ p.subgroup = w[4]
  BY <1>1, <1>2 DEF Kind, OkObject
<1>4. GrowsBy(w, ps, p, v, qs)
  BY <1>1, <1>3 DEF GrowsBy
<1>5. Grows(w, f, ps, v, e, qs)
  BY <1>4 DEF Grows
<1>6. PICK off : Layout(w, ps, off)
  BY DEF Written
<1>7. /\ Follows(IsFetch(w), prev, p) /\ prev = Before(ps, Len(ps)) /\ b = Frame(IsFetch(w), Before(ps, Len(ps)), p)
      /\ Follows(IsFetch(w), Before(ps, Len(ps)), p)
  BY <1>1
<1> HIDE DEF b
<1>8. PICK u : Layout(v, qs, u) /\ Extends(w, ps, off, v, qs, u)
  BY ONLY <1>3, <1>6, <1>7, LayoutLonger
<1>9. v \in Seq(Nat) /\ qs \in Seq(Shows)
  BY <1>8 DEF Layout
<1>10. IsFetch(v) = IsFetch(w) /\ (~IsFetch(w) => v[3] = w[3] /\ v[4] = w[4]) /\ Len(v) > Len(w) /\ Len(v) \in Nat
  BY <1>8 DEF Extends
<1>11. v # <<>>
  <2>1. Len(w) \in Nat /\ Len(<<>>) = 0
    OBVIOUS
  <2>. QED  BY <1>10, <2>1
<1> HIDE DEF v
<1>12. Kind(k, m, v)
  BY <1>1, <1>10 DEF Kind
<1>13. Agrees(k, m, qs)
  <2>1. Len(ps) \in Nat /\ Len(qs) = Len(ps) + 1 /\ qs[Len(ps) + 1] = p
    BY <1>2, AppendProperties
  <2> HIDE DEF qs
  <2>2. Before(qs, Len(qs)) = [got |-> TRUE, group |-> p.group, id |-> p.id]
    BY <2>1 DEF Before
  <2>. QED  BY <2>2 DEF Agrees
<1>14. WrittenBy(k, m, w, f, ps, e, v, qs)
  BY <1>5, <1>9, <1>11, <1>12, <1>13 DEF WrittenBy
<1>. QED  BY <1>14 DEF b, v

LEMMA WriteKept ==
    ASSUME SendInv, OneWriter, NEW t \in Threads, Write(t)
    PROVE  SendInv' /\ Longer
<1> DEFINE c == call[t]
           o == c.object
           k == o.key
           s == c.stream
           m == out[s]
           w == wire[s]
           f == fin[s]
           ps == sent[s]
           prev == Before(ps, Len(ps))
           e == Closes(o)
           p == Shown(o, e)
           stage == IF e THEN "forget" ELSE "idle"
           d == IF e THEN c ELSE None
<1>1. pc[t] = "write" /\ pc' = [pc EXCEPT ![t] = stage]
  BY DEF Write
<1>2. /\ c \in Calls /\ OkObject(o) /\ k \in KeysOf[t] /\ k \in Keys /\ s \in Streams
      /\ streamOf[k] = s /\ m \in PubStreams /\ w \in Seq(Nat) /\ f \in BOOLEAN
      /\ ps \in Seq(Shows) /\ Stage("write", c, m, w, f, ps) /\ Written(w, f, ps)
  BY <1>1, InCall
<1>3. w # <<>> /\ ~f /\ Kind(k, m, w) /\ Encoded(c, m, ps)
  BY <1>2 DEF Stage
<1>4. e \in BOOLEAN
  BY <1>2, ClosesIs
<1>5. /\ UNCHANGED <<streamOf, served, out, opened, calls, recvVars>>
      /\ wire' = [wire EXCEPT ![s] = @ \o c.bytes] /\ fin' = [fin EXCEPT ![s] = e]
      /\ sent' = (IF ~ValidPacket(o) THEN sent ELSE [sent EXCEPT ![s] = Append(@, p)])
      /\ call' = IF e THEN call ELSE [call EXCEPT ![t] = None]
  BY <1>3 DEF Write
<1>6. call' = [call EXCEPT ![t] = d]
  <2>1. call = [call EXCEPT ![t] = call[t]]
    BY <1>2, Unchanged
  <2> HIDE DEF e
  <2>2. CASE e
    BY <1>5, <2>1, <2>2
  <2>3. CASE ~e
    BY <1>5, <2>3
  <2>. QED  BY <2>2, <2>3
<1>7. PICK v, qs : /\ WrittenBy(k, m, w, f, ps, e, v, qs)
                   /\ wire' = [wire EXCEPT ![s] = v] /\ sent' = [sent EXCEPT ![s] = qs]
  <2>1. CASE ValidPacket(o)
    <3>1. /\ Follows(k = FetchKey, prev, p) /\ c.bytes = Frame(k = FetchKey, prev, p)
          /\ AgreeWith(k, m, [got |-> TRUE, group |-> p.group, id |-> p.id])
      BY <1>3, <2>1 DEF Encoded
    <3>2. /\ wire' = [wire EXCEPT ![s] = w \o Frame(k = FetchKey, prev, p)]
          /\ sent' = [sent EXCEPT ![s] = Append(ps, p)]
      BY <1>5, <2>1, <3>1
    <3>3. WrittenBy(k, m, w, f, ps, e, w \o Frame(k = FetchKey, prev, p), Append(ps, p))
      <4>1. k = o.key /\ prev = Before(ps, Len(ps)) /\ p = Shown(o, e)
        OBVIOUS
      <4> HIDE DEF k, m, w, f, ps, prev, e, p, o
      <4>. QED  BY ONLY <1>2, <1>3, <1>4, <3>1, <4>1, ObjectWritten
    <3>. QED  BY ONLY <3>2, <3>3
  <2>2. CASE ~ValidPacket(o)
    <3>1. c.bytes = <<>> /\ Agrees(k, m, ps)
      BY <1>3, <2>2 DEF Encoded
    <3>2. w \o <<>> = w
      BY <1>2, ConcatEmptySeq
    <3>3. wire' = [wire EXCEPT ![s] = w] /\ sent' = [sent EXCEPT ![s] = ps]
      BY <1>2, <1>5, <2>2, <3>1, <3>2, Unchanged
    <3>4. WrittenBy(k, m, w, f, ps, e, w, ps)
      BY <1>2, <1>3, <3>1 DEF WrittenBy, Grows
    <3>. QED  BY ONLY <3>3, <3>4
  <2>. QED  BY <2>1, <2>2
<1>8. /\ v \in Seq(Nat) /\ v # <<>> /\ qs \in Seq(Shows) /\ Kind(k, m, v) /\ Agrees(k, m, qs)
      /\ Grows(w, f, ps, v, e, qs)
  BY <1>7 DEF WrittenBy
<1>9. OneStep(t, k, s, s, m, v, e, qs, stage, d)
  <2>1. /\ out = [out EXCEPT ![s] = out[s]] /\ wire = [wire EXCEPT ![s] = wire[s]]
        /\ fin = [fin EXCEPT ![s] = fin[s]] /\ sent = [sent EXCEPT ![s] = sent[s]]
        /\ streamOf = [streamOf EXCEPT ![k] = streamOf[k]] /\ call = [call EXCEPT ![t] = call[t]]
    BY <1>1, <1>2, Unchanged
  <2>. QED  BY <1>1, <1>2, <1>5, <1>6, <1>7, <2>1 DEF OneStep
<1>10. stage # "idle" => Stage(stage, c, m, v, e, qs) /\ d = c
  BY <1>8 DEF Stage
<1>11. stage = "idle" => Settled(k, m, v, e, qs)
  BY <1>8 DEF Settled
<1>12. served' \in BOOLEAN
  BY <1>5 DEF SendInv, SendTypes
<1>13. stage \in Stages /\ d \in Calls \cup {None}
  BY <1>2 DEF Stages
<1>14. Remains(t, k, s, s, m, v, e, qs, stage, d)
  <2> HIDE DEF stage, d, e
  <2>. QED  BY <1>2, <1>4, <1>5, <1>8, <1>10, <1>11, <1>12, <1>13 DEF Remains
<1>. QED  BY <1>1, <1>9, <1>14, CallKept

LEMMA ForgetKept ==
    ASSUME SendInv, OneWriter, NEW t \in Threads, Forget(t)
    PROVE  SendInv' /\ Longer
<1> DEFINE c == call[t]
           k == c.object.key
           s == c.stream
<1>1. /\ pc[t] = "forget" /\ pc' = [pc EXCEPT ![t] = "idle"] /\ call' = [call EXCEPT ![t] = None]
      /\ streamOf' = [streamOf EXCEPT ![k] = None] /\ served' = (served /\ k # FetchKey)
      /\ UNCHANGED <<out, opened, wire, fin, calls, sent, recvVars>>
  BY DEF Forget
<1>2. /\ s \in Streams /\ s # None /\ out[s] \in PubStreams /\ wire[s] \in Seq(Nat) /\ fin[s] \in BOOLEAN
      /\ sent[s] \in Seq(Shows)
  BY <1>1, InCall
<1>3. OneStep(t, k, s, None, out[s], wire[s], fin[s], sent[s], "idle", None)
  BY <1>1, <1>2, Unchanged DEF OneStep
<1>4. Grows(wire[s], fin[s], sent[s], wire[s], fin[s], sent[s])
  BY DEF Grows
<1>5. served' \in BOOLEAN
  BY <1>1 DEF SendInv, SendTypes
<1>6. Remains(t, k, s, None, out[s], wire[s], fin[s], sent[s], "idle", None)
  BY <1>1, <1>2, <1>4, <1>5 DEF Remains, Stages
<1>. QED  BY <1>1, <1>3, <1>6, CallKept

LEMMA SendKept ==
    ASSUME SendInv, OneWriter, NEW t \in Threads, Send(t)
    PROVE  SendInv' /\ Longer
BY LookupsKept, HeaderKeptIn, EncodeSubgroupKept, EncodeFetchKept, WriteKept, ForgetKept DEF Send

-----------------------------------------------------------------------------
(* The receiver.                                                             *)

Givens == [group : Nat, subgroup : Nat, id : Nat, status : Nat, priority : Nat,
           payload : Seq(Nat), properties : Seq(Nat), eos : BOOLEAN]

\* The objects got are the first of ps, their end of stream aside.
InOrder(got, ps) ==
    /\ got \in Seq(Shows) /\ Len(got) \in Nat /\ Len(got) <= Len(ps)
    /\ \A i \in 1 .. Len(got) : \E c \in BOOLEAN : got[i] = WithEnd(ps[i], c)

\* incoming_object was called with the objects got, and perhaps the end of the stream.
Gives(inc, got, ps) ==
    InOrder(got, ps) /\ (inc = got \/ \E m \in SubscriberStreams : inc = Append(got, EndOfStream(m)))

\* The reader x was given e fields of w and gave what was whole in them.
ReadingAt(w, ps, off, inc, x, e) ==
    Layout(w, ps, off) /\ At(w, ps, off, e, x, Len(inc)) /\ Incomplete(ps, off, e, Len(inc))
Reading(w, ps, inc, x, e) ==
    InOrder(inc, ps) /\ x \in SubscriberStreams /\ ~x.closed /\ \E off : ReadingAt(w, ps, off, inc, x, e)

\* All was given, and last the end of the stream.
Told(inc, ps) == inc # <<>> /\ Last(inc).eos /\ \E got : Gives(inc, got, ps) /\ Len(got) = Len(ps)

(* What the subscriber knows of a stream with the fields w, the FIN fn and   *)
(* the objects ps, e fields and perhaps the FIN of which were delivered.     *)
Reception(w, fn, ps, inc, x, e, d, open) ==
    /\ e \in 0 .. Len(w) /\ d \in BOOLEAN /\ (d => fn /\ e = Len(w))
    /\ x = None \/ (x \in SubscriberStreams /\ Len(x.buffer) <= e)
    /\ \E got : Gives(inc, got, ps)
    /\ open => /\ e = 0 => x = None /\ inc = <<>> /\ ~d
               /\ e > 0 /\ ~d => Reading(w, ps, inc, x, e)
               /\ d => x = None /\ Told(inc, ps)

RecvTypes ==
    /\ okTaken \in BOOLEAN /\ connection \in {"open", "closed", "crashed"}
    /\ in \in [Streams -> SubscriberStreams \cup {None}] /\ incoming \in [Streams -> Seq(Givens)]
    /\ taken \in [Streams -> Nat] /\ ended \in [Streams -> BOOLEAN]

Receptions ==
    \A s \in Streams : Reception(wire[s], fin[s], sent[s], incoming[s], in[s], taken[s], ended[s], connection = "open")

RecvInv == RecvTypes /\ Receptions

LEMMA NothingGiven == ASSUME NEW ps, Len(ps) \in Nat PROVE Gives(<<>>, <<>>, ps)
<1>1. <<>> \in Seq(Shows) /\ Len(<<>>) = 0
  OBVIOUS
<1>. QED  BY <1>1 DEF Gives, InOrder

LEMMA NothingReceived == ASSUME NEW f, NEW open PROVE Reception(<<>>, f, <<>>, <<>>, None, 0, FALSE, open)
<1>1. Len(<<>>) = 0 /\ 0 \in 0 .. 0 /\ FALSE \in BOOLEAN
  OBVIOUS
<1>2. \E got : Gives(<<>>, got, <<>>)
  <2>1. Gives(<<>>, <<>>, <<>>)
    BY <1>1, NothingGiven
  <2>. QED  BY <2>1
<1> DEFINE d == FALSE
<1>3. ~d /\ d \in BOOLEAN
  OBVIOUS
<1> HIDE DEF d
<1>4. Reception(<<>>, f, <<>>, <<>>, None, 0, d, open)
  BY ONLY <1>1, <1>2, <1>3 DEF Reception
<1>. QED  BY <1>4 DEF d

LEMMA RecvInit == ASSUME Init PROVE RecvInv
<1>1. /\ okTaken = FALSE /\ connection = "open" /\ in = [s \in Streams |-> None]
      /\ taken = [s \in Streams |-> 0] /\ ended = [s \in Streams |-> FALSE]
      /\ incoming = [s \in Streams |-> <<>>] /\ wire = [s \in Streams |-> <<>>] /\ sent = [s \in Streams |-> <<>>]
  BY DEF Init
<1>2. RecvTypes
  <2>1. <<>> \in Seq(Givens)
    OBVIOUS
  <2>. QED  BY ONLY <1>1, <2>1 DEF RecvTypes
<1>3. ASSUME NEW s \in Streams
      PROVE  Reception(wire[s], fin[s], sent[s], incoming[s], in[s], taken[s], ended[s], connection = "open")
  <2>1. /\ wire[s] = <<>> /\ sent[s] = <<>> /\ incoming[s] = <<>> /\ in[s] = None /\ taken[s] = 0 /\ ended[s] = FALSE
    BY <1>1
  <2>2. fin[s] \in BOOLEAN /\ (connection = "open") = TRUE
    BY <1>1 DEF Init
  <2>. QED  BY <2>1, <2>2, NothingReceived
<1>. QED  BY <1>2, <1>3 DEF RecvInv, Receptions

LEMMA RecvQuiet ==
    ASSUME RecvInv, UNCHANGED <<in, taken, ended, connection, incoming>>, okTaken' \in BOOLEAN,
           UNCHANGED <<wire, fin, sent>>
    PROVE  RecvInv'
<1>1. RecvTypes'
  BY DEF RecvInv, RecvTypes
<1>2. Receptions'
  BY DEF RecvInv, Receptions
<1>. QED  BY <1>1, <1>2 DEF RecvInv

LEMMA InOrderLonger ==
    ASSUME NEW got, NEW ps \in Seq(Shows), NEW p \in Shows, InOrder(got, ps)
    PROVE  InOrder(got, Append(ps, p))
<1>1. Len(Append(ps, p)) = Len(ps) + 1 /\ Len(ps) \in Nat /\ \A i \in 1 .. Len(ps) : Append(ps, p)[i] = ps[i]
  OBVIOUS
<1> DEFINE qs == Append(ps, p)
<1> HIDE DEF qs
<1>2. Len(got) \in Nat /\ Len(got) <= Len(qs)
  BY <1>1 DEF InOrder, qs
<1>3. ASSUME NEW i \in 1 .. Len(got) PROVE \E c \in BOOLEAN : got[i] = WithEnd(qs[i], c)
  <2>1. i \in 1 .. Len(ps)
    BY <1>1 DEF InOrder
  <2>2. qs[i] = ps[i]
    BY <1>1, <2>1 DEF qs
  <2>. QED  BY <2>2 DEF InOrder
<1>. QED  BY <1>2, <1>3 DEF InOrder, qs

\* A stream that grows does not change what was read of it.
LEMMA ReceptionLonger ==
    ASSUME NEW w \in Seq(Nat), NEW fn, NEW ps \in Seq(Shows), NEW v, NEW g, NEW qs, NEW inc, NEW x, NEW e, NEW d,
           NEW open, Reception(w, fn, ps, inc, x, e, d, open), Grows(w, fn, ps, v, g, qs)
    PROVE  Reception(v, g, qs, inc, x, e, d, open)
<1>1. CASE v = w /\ g = fn /\ qs = ps
  BY <1>1
<1>2. CASE w = <<>> /\ ~fn /\ v \in Seq(Nat) /\ qs = ps
  <2>1. Len(v) \in Nat /\ Len(w) = 0
    BY <1>2, LenProperties
  <2>2. e = 0 /\ ~d /\ e \in 0 .. Len(v)
    BY <1>2, <2>1 DEF Reception
  <2>. QED  BY <1>2, <2>2 DEF Reception
<1>3. CASE ~fn /\ v = w /\ qs = ps
  BY <1>3 DEF Reception
<1>4. ASSUME ~fn, NEW p, GrowsBy(w, ps, p, v, qs) PROVE Reception(v, g, qs, inc, x, e, d, open)
  <2>1. /\ Follows(IsFetch(w), Before(ps, Len(ps)), p) /\ (~IsFetch(w) => p.group = w[3] /\ p.subgroup = w[4])
        /\ v = w \o Frame(IsFetch(w), Before(ps, Len(ps)), p) /\ qs = Append(ps, p)
    BY <1>4 DEF GrowsBy
  <2>2. p \in Shows
    BY <2>1 DEF Follows
  <2>3. ~d
    BY <1>4 DEF Reception
  <2>4. Len(w) \in Nat /\ e \in 0 .. Len(w)
    BY DEF Reception
  <2>5. e \in 0 .. Len(v)
    <3>1. Frame(IsFetch(w), Before(ps, Len(ps)), p) \in Seq(Nat)
      BY <2>1, FrameIs DEF FrameOf, IsFetch
    <3>2. Len(v) = Len(w) + Len(Frame(IsFetch(w), Before(ps, Len(ps)), p))
      BY <2>1, <3>1, ConcatProperties
    <3>3. Len(Frame(IsFetch(w), Before(ps, Len(ps)), p)) \in Nat
      BY <3>1, LenProperties
    <3>. QED  BY ONLY <2>4, <3>2, <3>3
  <2>6. \E got : Gives(inc, got, qs)
    <3>1. PICK got : Gives(inc, got, ps)
      BY DEF Reception
    <3>2. InOrder(got, qs)
      BY <2>1, <2>2, <3>1, InOrderLonger DEF Gives
    <3>. QED  BY <3>1, <3>2 DEF Gives
  <2>7. open /\ e > 0 => Reading(v, qs, inc, x, e)
    <3> SUFFICES ASSUME open, e > 0 PROVE Reading(v, qs, inc, x, e)
      OBVIOUS
    <3>1. Reading(w, ps, inc, x, e)
      BY <2>3 DEF Reception
    <3>2. PICK off : Layout(w, ps, off) /\ At(w, ps, off, e, x, Len(inc)) /\ Incomplete(ps, off, e, Len(inc))
      BY <3>1 DEF Reading, ReadingAt
    <3>3. PICK o : Layout(v, qs, o) /\ Extends(w, ps, off, v, qs, o)
      BY <2>1, <3>2, LayoutLonger
    <3>4. At(v, qs, o, e, x, Len(inc)) /\ Incomplete(qs, o, e, Len(inc))
      BY ONLY <2>4, <3>2, <3>3, AtLonger
    <3>5. InOrder(inc, qs)
      BY <2>1, <2>2, <3>1, InOrderLonger DEF Reading
    <3>6. ReadingAt(v, qs, o, inc, x, e)
      BY <3>3, <3>4 DEF ReadingAt
    <3>. QED  BY <3>1, <3>5, <3>6 DEF Reading
  <2>. QED  BY <2>3, <2>5, <2>6, <2>7 DEF Reception
<1>. QED  BY <1>1, <1>2, <1>3, <1>4 DEF Grows

LEMMA RecvLonger == ASSUME SendInv, RecvInv, Longer PROVE RecvInv'
<1>0. PICK s \in Streams : \E w, f, ps :
         /\ wire' = [wire EXCEPT ![s] = w] /\ fin' = [fin EXCEPT ![s] = f] /\ sent' = [sent EXCEPT ![s] = ps]
         /\ Grows(wire[s], fin[s], sent[s], w, f, ps)
  BY DEF Longer
<1>1. PICK w, f, ps :
         /\ wire' = [wire EXCEPT ![s] = w] /\ fin' = [fin EXCEPT ![s] = f] /\ sent' = [sent EXCEPT ![s] = ps]
         /\ Grows(wire[s], fin[s], sent[s], w, f, ps)
  BY <1>0
<1>2. UNCHANGED recvVars
  BY DEF Longer
<1>3. SendTypes /\ RecvTypes /\ Receptions
  BY DEF SendInv, RecvInv
<1>4. /\ wire'[s] = w /\ fin'[s] = f /\ sent'[s] = ps
      /\ \A r \in Streams : r # s => wire'[r] = wire[r] /\ fin'[r] = fin[r] /\ sent'[r] = sent[r]
  BY <1>1, <1>3 DEF SendTypes
<1>5. RecvTypes'
  BY <1>2, <1>3 DEF recvVars, RecvTypes
<1>6. ASSUME NEW r \in Streams
      PROVE  Reception(wire'[r], fin'[r], sent'[r], incoming[r], in[r], taken[r], ended[r], connection = "open")
  <2>1. Reception(wire[r], fin[r], sent[r], incoming[r], in[r], taken[r], ended[r], connection = "open")
    BY <1>3 DEF Receptions
  <2>2. CASE r = s
    <3>1. wire[s] \in Seq(Nat) /\ sent[s] \in Seq(Shows)
      BY <1>3 DEF SendTypes
    <3>2. Reception(w, f, ps, incoming[s], in[s], taken[s], ended[s], connection = "open")
      BY <1>1, <2>1, <2>2, <3>1, ReceptionLonger
    <3>. QED  BY <1>4, <2>2, <3>2
  <2>3. CASE r # s
    BY <1>4, <2>1, <2>3
  <2>. QED  BY <2>2, <2>3
<1>7. Receptions'
  BY <1>2, <1>6 DEF recvVars, Receptions
<1>. QED  BY <1>5, <1>7 DEF RecvInv

\* What a piece that was read leaves behind: the state st of the loop, and perhaps the end.
PieceGiven(w, fn, ps, inc, e, st, c) ==
    LET end == Finish(st.x, c, st.found) IN
    /\ st.res # "violation" /\ st.res # "crash" /\ inc \o end.told \in Seq(Givens)
    /\ end.x \in SubscriberStreams \cup {None}
    /\ Reception(w, fn, ps, inc \o end.told, end.x, e, c, TRUE)

LEMMA GivensAre ==
    /\ \A p \in Shows : p \in Givens
    /\ \A m \in SubscriberStreams : EndOfStream(m) \in Givens /\ EndOfStream(m).eos = TRUE
<1>1. ASSUME NEW p \in Shows PROVE p \in Givens
  <2>1. p \in [group : Nat, subgroup : Nat, id : Nat, status : Nat, priority : {PRIORITY},
               payload : Seq(Nat), properties : Seq(Nat), eos : BOOLEAN]
    BY DEF Shows
  <2>2. PRIORITY \in Nat
    BY DEF PRIORITY
  <2>. QED  BY ONLY <2>1, <2>2 DEF Givens
<1>2. ASSUME NEW m \in SubscriberStreams PROVE EndOfStream(m) \in Givens /\ EndOfStream(m).eos = TRUE
  <2>1. m.group \in Nat /\ m.subgroup \in Nat /\ <<>> \in Seq(Nat)
    BY DEF SubscriberStreams
  <2>. QED  BY ONLY <2>1 DEF EndOfStream, Givens
<1>. QED  BY <1>1, <1>2

LEMMA MoreInOrder ==
    ASSUME NEW ps, NEW inc, NEW c \in BOOLEAN, NEW found \in Seq(Shows), InOrder(inc, ps), Len(ps) \in Nat,
           Len(inc) + Len(found) <= Len(ps),
           \A i \in 1 .. Len(found) : found[i] = WithEnd(ps[Len(inc) + i], c)
    PROVE  InOrder(inc \o found, ps) /\ Len(inc \o found) = Len(inc) + Len(found)
<1>1. inc \in Seq(Shows) /\ Len(inc) \in Nat /\ Len(found) \in Nat
  BY LenProperties DEF InOrder
<1> DEFINE got == inc \o found
<1>2. /\ got \in Seq(Shows) /\ Len(got) = Len(inc) + Len(found)
      /\ \A i \in 1 .. Len(inc) + Len(found) : got[i] = IF i <= Len(inc) THEN inc[i] ELSE found[i - Len(inc)]
  BY <1>1, ConcatProperties
<1> HIDE DEF got
<1>3. ASSUME NEW i \in 1 .. Len(got) PROVE \E d \in BOOLEAN : got[i] = WithEnd(ps[i], d)
  <2>1. CASE i <= Len(inc)
    <3>1. i \in 1 .. Len(inc) /\ got[i] = inc[i]
      BY <1>1, <1>2, <2>1
    <3>. QED  BY <3>1 DEF InOrder
  <2>2. CASE ~(i <= Len(inc))
    <3>1. i - Len(inc) \in 1 .. Len(found) /\ got[i] = found[i - Len(inc)] /\ Len(inc) + (i - Len(inc)) = i
      BY <1>1, <1>2, <2>2
    <3>2. found[i - Len(inc)] = WithEnd(ps[Len(inc) + (i - Len(inc))], c)
      BY <3>1
    <3>. QED  BY <3>1, <3>2
  <2>. QED  BY <2>1, <2>2
<1>4. Len(got) \in Nat /\ Len(got) <= Len(ps)
  BY <1>1, <1>2
<1>. QED  BY <1>2, <1>3, <1>4 DEF InOrder, got

LEMMA ReceptionLast ==
    ASSUME NEW w, NEW fn, NEW ps, NEW all, NEW e, NEW open, Told(all, ps), fn, e = Len(w), e \in 0 .. Len(w), e > 0
    PROVE  Reception(w, fn, ps, all, None, e, TRUE, open)
<1> DEFINE d == TRUE
<1>1. d \in BOOLEAN /\ d
  OBVIOUS
<1> HIDE DEF d
<1>2. \E got : Gives(all, got, ps)
  BY DEF Told
<1>3. Reception(w, fn, ps, all, None, e, d, open)
  BY <1>1, <1>2 DEF Reception
<1>. QED  BY <1>3 DEF d

\* The loop without the FIN, with it and an object, and with the FIN alone.
LEMMA PieceOpen ==
    ASSUME NEW w, NEW fn, NEW ps, NEW off, NEW inc, NEW e \in 0 .. Len(w), NEW st, Layout(w, ps, off),
           InOrder(inc, ps), LoopHas(w, ps, off, e, Len(inc), FALSE, st), e > 0,
           Incomplete(ps, off, e, Len(inc) + Len(st.found))
    PROVE  PieceGiven(w, fn, ps, inc, e, st, FALSE)
<1> DEFINE c == FALSE
           k == Len(inc) + Len(st.found)
           x == st.x
           new == inc \o st.found
<1>1. /\ x \in SubscriberStreams /\ st.found \in Seq(Shows) /\ st.res \in {"ok", "more"}
      /\ At(w, ps, off, e, x, k) /\ x.closed = FALSE
      /\ \A i \in 1 .. Len(st.found) : st.found[i] = WithEnd(ps[Len(inc) + i], c)
  BY DEF LoopHas
<1>2. k <= Len(ps) /\ Len(ps) \in Nat /\ Len(x.buffer) \in Nat /\ off[k] \in Nat /\ e - Len(x.buffer) = off[k]
  <2> HIDE DEF k, x
  <2>. QED  BY ONLY <1>1, Layout(w, ps, off), AtFields
<1>3. InOrder(new, ps) /\ Len(new) = k
  <2>1. c \in BOOLEAN
    OBVIOUS
  <2> HIDE DEF c
  <2>. QED  BY <1>1, <1>2, <2>1, MoreInOrder
<1>4. Finish(x, FALSE, st.found) = [x |-> x, told |-> st.found]
  BY DEF Finish
<1> HIDE DEF x, new, k
<1>5. Reading(w, ps, new, x, e)
  <2>1. ReadingAt(w, ps, off, new, x, e)
    BY <1>1, <1>3 DEF ReadingAt, k
  <2>. QED  BY <1>1, <1>3, <2>1 DEF Reading
<1>6. Gives(new, new, ps)
  BY <1>3 DEF Gives
<1>7. new \in Seq(Givens)
  BY <1>3, GivensAre, SeqMonotonic DEF InOrder
<1>8. Len(x.buffer) <= e
  BY <1>2
<1>9. c \in BOOLEAN /\ ~c
  OBVIOUS
<1> HIDE DEF c
<1>10. Reception(w, fn, ps, new, x, e, c, TRUE)
  BY <1>1, <1>5, <1>6, <1>8, <1>9 DEF Reception
<1>11. inc \o st.found = new /\ st.x = x
  BY DEF new, x
<1>12. st.res # "violation" /\ st.res # "crash"
  BY <1>1
<1> DEFINE end == Finish(st.x, c, st.found)
<1>13. end.x = x /\ end.told = st.found
  <2>1. end = [x |-> x, told |-> st.found]
    BY ONLY <1>4, <1>11 DEF c
  <2> HIDE DEF end
  <2>. QED  BY ONLY <2>1
<1> HIDE DEF end
<1>14. PieceGiven(w, fn, ps, inc, e, st, c)
  BY <1>1, <1>7, <1>10, <1>11, <1>12, <1>13 DEF PieceGiven, end
<1>. QED  BY <1>14 DEF c

LEMMA PieceLast ==
    ASSUME NEW w, NEW fn, NEW ps, NEW off, NEW inc, NEW e, NEW st, Layout(w, ps, off), fn, e = Len(w),
           InOrder(inc, ps), LoopHas(w, ps, off, e, Len(inc), TRUE, st), e > 0,
           Incomplete(ps, off, e, Len(inc) + Len(st.found))
    PROVE  PieceGiven(w, fn, ps, inc, e, st, TRUE)
<1> DEFINE c == TRUE
           k == Len(inc) + Len(st.found)
           x == st.x
           found == st.found
           new == inc \o found
<1>1. /\ x \in SubscriberStreams /\ found \in Seq(Shows) /\ st.res \in {"ok", "more"}
      /\ At(w, ps, off, Len(w), x, k) /\ x.closed = (found # <<>>)
      /\ \A i \in 1 .. Len(found) : found[i] = WithEnd(ps[Len(inc) + i], c)
  BY DEF LoopHas
<1>2. k = Len(ps) /\ Len(ps) \in Nat /\ ps \in Seq(Shows)
  <2>1. k = Len(ps)
    BY <1>1, AllTaken
  <2>. QED  BY <2>1 DEF Layout
<1>3. InOrder(new, ps) /\ Len(new) = k
  <2>1. c \in BOOLEAN
    OBVIOUS
  <2>2. Len(inc) + Len(found) <= Len(ps)
    BY <1>2
  <2>3. k = Len(inc) + Len(found)
    OBVIOUS
  <2> HIDE DEF c, found, x, k
  <2>. QED  BY ONLY <1>1, <1>2, <2>1, <2>2, <2>3, InOrder(inc, ps), MoreInOrder
<1>4. Len(found) \in Nat /\ Len(inc) \in Nat /\ inc \in Seq(Shows)
  BY <1>1, LenProperties DEF InOrder
<1>5. e \in 0 .. Len(w) /\ Len(w) \in Nat
  BY DEF Layout
<1> DEFINE all == inc \o Finish(x, TRUE, found).told
<1>6. Finish(x, TRUE, found).x = None
  BY DEF Finish
<1> HIDE DEF x, new, k, found
<1>7. CASE found # <<>>
  <2>1. Finish(x, TRUE, found).told = found
    BY <1>1, <1>7 DEF Finish
  <2>2. all = new
    BY <2>1 DEF new
  <2>3. Len(found) \in 1 .. Len(found) /\ Len(found) > 0
    BY <1>1, <1>4, <1>7
  <2>4. found[Len(found)] = WithEnd(ps[k], c)
    BY <1>1, <2>3 DEF k, found
  <2>5. ps[k] \in Shows
    BY <1>2, <1>4, <2>3, ElementOfSeq DEF k, found
  <2>6. new[k] = found[Len(found)] /\ Len(new) = k /\ k > 0
    <3>1. k \in 1 .. Len(inc) + Len(found) /\ ~(k <= Len(inc)) /\ k - Len(inc) = Len(found) /\ k > 0
      BY <1>4, <2>3 DEF k, found
    <3>2. (inc \o found)[k] = found[k - Len(inc)]
      BY <1>1, <1>4, <3>1, ConcatProperties
    <3>. QED  BY <1>3, <3>1, <3>2 DEF new
  <2>7. Last(new).eos = TRUE
    <3>1. Last(new) = WithEnd(ps[k], c)
      BY <2>4, <2>6 DEF Last
    <3>2. c \in BOOLEAN /\ c = TRUE
      OBVIOUS
    <3> HIDE DEF c
    <3>3. WithEnd(ps[k], c).eos = c
      BY ONLY <2>5, <3>2, WithEndShown
    <3>. QED  BY <3>1, <3>2, <3>3
  <2>8. new # <<>>
    BY <2>6
  <2>9. Gives(new, new, ps)
    BY <1>3 DEF Gives
  <2>10. Told(all, ps)
    BY <1>2, <1>3, <2>2, <2>7, <2>8, <2>9 DEF Told
  <2>11. all \in Seq(Givens)
    BY <1>3, <2>2, GivensAre, SeqMonotonic DEF InOrder
  <2>12. Reception(w, fn, ps, all, None, e, TRUE, TRUE)
    BY ONLY <1>5, <2>10, fn, e = Len(w), e > 0, ReceptionLast
  <2>. QED  BY <1>1, <1>6, <2>11, <2>12 DEF PieceGiven, x, found
<1>8. CASE found = <<>>
  <2> DEFINE E == EndOfStream(x)
  <2>1. Finish(x, TRUE, found).told = Append(<<>>, E)
    BY <1>1, <1>8 DEF Finish
  <2>2. E \in Givens /\ E.eos = TRUE
    BY <1>1, GivensAre
  <2>3. inc \in Seq(Givens) /\ <<>> \in Seq(Givens)
    BY <1>4, GivensAre, SeqMonotonic
  <2> HIDE DEF E
  <2>4. all = Append(inc, E)
    <3>1. Append(<<>>, E) = <<>> \o <<E>> /\ Append(inc, E) = inc \o <<E>>
      BY <2>2, <2>3, AppendIsConcat
    <3>2. <<E>> \in Seq(Givens)
      BY <2>2
    <3>3. <<>> \o <<E>> = <<E>>
      BY <3>2, ConcatEmptySeq
    <3>. QED  BY <2>1, <3>1, <3>3
  <2>5. /\ all \in Seq(Givens) /\ all # <<>> /\ Len(all) = Len(inc) + 1 /\ all[Len(inc) + 1] = E
    <3> DEFINE z == Append(inc, E)
    <3>1. z \in Seq(Givens) /\ z # <<>> /\ Len(z) = Len(inc) + 1 /\ z[Len(inc) + 1] = E
      BY ONLY <2>2, <2>3, AppendProperties
    <3> HIDE DEF z, all
    <3>2. all = z
      BY <2>4 DEF z
    <3>. QED  BY ONLY <3>1, <3>2
  <2>6. Last(all).eos = TRUE
    BY <2>2, <2>5 DEF Last
  <2>7. Len(inc) = Len(ps)
    <3>1. Len(found) = 0
      BY <1>8
    <3>. QED  BY <1>2, <1>4, <3>1 DEF k, found
  <2>8. Gives(all, inc, ps)
    BY <1>1, <2>4 DEF Gives, E
  <2>9. Told(all, ps)
    BY <2>5, <2>6, <2>7, <2>8 DEF Told
  <2>10. Reception(w, fn, ps, all, None, e, TRUE, TRUE)
    BY ONLY <1>5, <2>9, fn, e = Len(w), e > 0, ReceptionLast
  <2>. QED  BY <1>1, <1>6, <2>5, <2>10 DEF PieceGiven, x, found
<1>. QED  BY <1>7, <1>8

\* A piece of n fields behind the first u, for a reader y that was given those.
LEMMA PieceRead ==
    ASSUME NEW w, NEW fn, NEW ps, NEW off, NEW inc, NEW u \in 0 .. Len(w), NEW n \in 0 .. Len(w) - u, NEW y,
           NEW c \in BOOLEAN, NEW st, st = Received(y, SubSeq(w, u + 1, u + n), c),
           Layout(w, ps, off), At(w, ps, off, u, y, Len(inc)), ~y.closed, Incomplete(ps, off, u, Len(inc)),
           InOrder(inc, ps), u + n > 0, c => fn /\ u + n = Len(w)
    PROVE  PieceGiven(w, fn, ps, inc, u + n, st, c)
<1>1. LoopHas(w, ps, off, u + n, Len(inc), c, st) /\ Incomplete(ps, off, u + n, Len(inc) + Len(st.found))
  BY ReceivedIs
<1>2. u + n \in 0 .. Len(w)
  BY DEF Layout
<1> DEFINE e == u + n
<1> HIDE DEF e
<1>3. CASE c = TRUE
  <2>1. e = Len(w) /\ fn /\ e > 0
    BY <1>3 DEF e
  <2>2. LoopHas(w, ps, off, e, Len(inc), TRUE, st) /\ Incomplete(ps, off, e, Len(inc) + Len(st.found))
    BY <1>1, <1>3 DEF e
  <2>3. PieceGiven(w, fn, ps, inc, e, st, TRUE)
    BY ONLY <2>1, <2>2, Layout(w, ps, off), InOrder(inc, ps), PieceLast
  <2>. QED  BY <1>3, <2>3 DEF e
<1>4. CASE c = FALSE
  <2>1. e \in 0 .. Len(w) /\ e > 0
    BY <1>2 DEF e
  <2>2. LoopHas(w, ps, off, e, Len(inc), FALSE, st) /\ Incomplete(ps, off, e, Len(inc) + Len(st.found))
    BY <1>1, <1>4 DEF e
  <2>3. PieceGiven(w, fn, ps, inc, e, st, FALSE)
    BY ONLY <2>1, <2>2, Layout(w, ps, off), InOrder(inc, ps), PieceOpen
  <2>. QED  BY <1>4, <2>3 DEF e
<1>. QED  BY <1>3, <1>4

\* What imquic_moq_parse_message does with a piece b of the stream s whose header is known or read.
HeadIn(s, b) ==
    IF in[s] = None /\ b # <<>> THEN ParseHeader(b) ELSE [res |-> "ok", x |-> in[s], used |-> 0]
BodyIn(s, b, used) == SubSeq(b, Flag(in[s] = None, 1) + used + 1, Len(b))
Outcome(s, x, told, o) ==
    in' = [in EXCEPT ![s] = x] /\ incoming' = [incoming EXCEPT ![s] = @ \o told] /\ connection' = o

LEMMA MessageParsed ==
    ASSUME NEW s, NEW b, NEW c, ParseMessage(s, b, c), in[s] # None \/ b # <<>>,
           NEW h, h = HeadIn(s, b), h.res = "ok", h.x.parsed,
           NEW st, st = Received(h.x, BodyIn(s, b, h.used), c), st.res # "violation",
           NEW end, end = Finish(st.x, c, st.found)
    PROVE  Outcome(s, end.x, end.told, connection)
<1> DEFINE fresh == in[s] = None
           head == IF fresh /\ b # <<>> THEN ParseHeader(b) ELSE [res |-> "ok", x |-> in[s], used |-> 0]
           x == head.x
           body == SubSeq(b, Flag(fresh, 1) + head.used + 1, Len(b))
           objects == IF head.res = "ok" /\ x.parsed /\ body # <<>>
                      THEN ParseObjects([x EXCEPT !.buffer = @ \o body], c)
                      ELSE [res |-> "ok", x |-> x, found |-> <<>>]
           fin2 == Finish(objects.x, c, objects.found)
<1>1. head = h
  BY DEF HeadIn
<1>2. body = BodyIn(s, b, h.used)
  BY <1>1 DEF BodyIn
<1>3. ParseMessage(s, b, c) <=>
         IF fresh /\ b = <<>> THEN UNCHANGED <<in, incoming, connection>>
         ELSE IF head.res = "crash"
         THEN connection' = "crashed" /\ UNCHANGED <<in, incoming>>
         ELSE IF head.res = "broken"
         THEN in' = [in EXCEPT ![s] = x] /\ UNCHANGED <<incoming, connection>>
         ELSE IF objects.res = "violation"
         THEN /\ connection' = "closed"
              /\ in' = [in EXCEPT ![s] = objects.x]
              /\ incoming' = [incoming EXCEPT ![s] = @ \o objects.found]
         ELSE /\ in' = [in EXCEPT ![s] = fin2.x]
              /\ incoming' = [incoming EXCEPT ![s] = @ \o fin2.told]
              /\ UNCHANGED connection
  BY DEF ParseMessage
<1> HIDE DEF head, body
<1>4. objects = st
  BY <1>1, <1>2 DEF Received, Filled
<1>5. fin2 = end
  <2> HIDE DEF objects
  <2>. QED  BY <1>4
<1>6. ~(fresh /\ b = <<>>) /\ head.res # "crash" /\ head.res # "broken"
  BY <1>1
<1> HIDE DEF fresh, objects, fin2
<1>. QED  BY <1>3, <1>4, <1>5, <1>6 DEF Outcome

LEMMA ReceptionAny ==
    ASSUME NEW w, NEW fn, NEW ps, NEW inc, NEW x, NEW e, NEW d, NEW open, NEW gone,
           Reception(w, fn, ps, inc, x, e, d, open), gone => open
    PROVE  Reception(w, fn, ps, inc, x, e, d, gone)
BY DEF Reception

\* A piece of a stream leaves it with the reader x, the objects inc more and the connection o.
DeliveredAs(s, n, c, x, told, o) ==
    /\ Outcome(s, x, told, o) /\ o \in {"open", "crashed"}
    /\ x \in SubscriberStreams \cup {None} /\ incoming[s] \o told \in Seq(Givens)
    /\ Reception(wire[s], fin[s], sent[s], incoming[s] \o told, x, taken[s] + n, c, o = "open")

\* What a piece of a stream is.
Delivering(s, n, c) ==
    /\ SendInv /\ RecvInv /\ s \in Streams /\ n \in Nat /\ c \in BOOLEAN
    /\ Piece(s, n, c)

LEMMA PieceFacts ==
    ASSUME NEW s, NEW n, NEW c, Delivering(s, n, c)
    PROVE  /\ wire[s] \in Seq(Nat) /\ Len(wire[s]) \in Nat /\ sent[s] \in Seq(Shows) /\ fin[s] \in BOOLEAN
           /\ taken[s] \in 0 .. Len(wire[s]) /\ taken[s] \in Nat /\ n \in 0 .. Len(wire[s]) - taken[s] /\ n \in Nat
           /\ (c => fin[s] /\ taken[s] + n = Len(wire[s])) /\ (n > 0 \/ c) /\ c \in BOOLEAN
           /\ wire[s] # <<>> /\ (\E off : Layout(wire[s], sent[s], off))
           /\ Reception(wire[s], fin[s], sent[s], incoming[s], in[s], taken[s], FALSE, TRUE)
           /\ connection = "open" /\ taken[s] + n > 0
           /\ ParseMessage(s, SubSeq(wire[s], taken[s] + 1, taken[s] + n), c)
<1> DEFINE w == wire[s]
           e == taken[s]
           ps == sent[s]
<1>1. /\ connection = "open" /\ ~ended[s] /\ e + n <= Len(w) /\ (c => fin[s] /\ e + n = Len(w))
      /\ (n > 0 \/ c) /\ ParseMessage(s, SubSeq(w, e + 1, e + n), c)
  BY DEF Piece, Delivering
<1>2. SendTypes /\ RecvTypes /\ Receptions /\ AllWritten /\ s \in Streams /\ n \in Nat /\ c \in BOOLEAN
  BY DEF Delivering, SendInv, RecvInv
<1>3. w \in Seq(Nat) /\ ps \in Seq(Shows) /\ fin[s] \in BOOLEAN /\ e \in Nat /\ ended[s] = FALSE
  BY <1>1, <1>2 DEF SendTypes, RecvTypes
<1>4. Len(w) \in Nat
  BY <1>3, LenProperties
<1>5. Reception(w, fin[s], ps, incoming[s], in[s], e, FALSE, TRUE)
  <2>1. Reception(w, fin[s], ps, incoming[s], in[s], e, ended[s], connection = "open")
    BY <1>2 DEF Receptions
  <2>2. (connection = "open") = TRUE
    BY <1>1
  <2>. QED  BY <1>3, <2>1, <2>2
<1>6. Written(w, fin[s], ps)
  BY <1>2 DEF AllWritten
<1> HIDE DEF w, e, ps
<1>7. e \in 0 .. Len(w) /\ n \in 0 .. Len(w) - e
  BY ONLY <1>1, <1>2, <1>3, <1>4
<1>8. w # <<>>
  <2>1. SUFFICES ASSUME w = <<>> PROVE FALSE
    OBVIOUS
  <2>2. Len(w) = 0 /\ ~fin[s]
    BY <1>6, <2>1 DEF Written
  <2>3. n = 0
    BY ONLY <1>7, <2>2, <1>3
  <2>. QED  BY <1>1, <2>2, <2>3
<1>9. \E off : Layout(w, ps, off)
  BY <1>6, <1>8 DEF Written
<1>10. e + n > 0
  <2>1. Len(w) # 0
    BY <1>3, <1>8
  <2>. QED  BY <1>1, <1>2, <1>3, <1>4, <2>1
<1>. QED  BY <1>1, <1>2, <1>3, <1>4, <1>5, <1>7, <1>8, <1>9, <1>10 DEF w, e, ps

LEMMA KnownDelivered ==
    ASSUME NEW s, NEW n, NEW c, Delivering(s, n, c), taken[s] > 0
    PROVE  \E x, told, o : DeliveredAs(s, n, c, x, told, o)
<1> DEFINE w == wire[s]
           fn == fin[s]
           ps == sent[s]
           inc == incoming[s]
           y == in[s]
           e == taken[s]
           b == SubSeq(w, e + 1, e + n)
           st == Received(y, b, c)
           end == Finish(st.x, c, st.found)
<1>1. /\ w \in Seq(Nat) /\ Len(w) \in Nat /\ e \in 0 .. Len(w) /\ n \in 0 .. Len(w) - e /\ c \in BOOLEAN
      /\ (c => fn /\ e + n = Len(w)) /\ e + n > 0 /\ connection = "open" /\ ParseMessage(s, b, c)
      /\ Reception(w, fn, ps, inc, y, e, FALSE, TRUE)
  BY PieceFacts
<1>2. Reading(w, ps, inc, y, e)
  <2> HIDE DEF w, fn, ps, inc, y
  <2>. QED  BY <1>1 DEF Reception
<1>3. PICK off : ReadingAt(w, ps, off, inc, y, e)
  BY <1>2 DEF Reading
<1>4. /\ Layout(w, ps, off) /\ At(w, ps, off, e, y, Len(inc)) /\ Incomplete(ps, off, e, Len(inc))
      /\ InOrder(inc, ps) /\ ~y.closed /\ y \in SubscriberStreams
  BY <1>2, <1>3 DEF Reading, ReadingAt
<1>5. y # None /\ y.parsed
  BY <1>4, ObjectsAssumption DEF At
<1>6. b \in Seq(Nat)
  BY <1>1, PieceOf
<1>7. BodyIn(s, b, 0) = b
  <2> HIDE DEF b
  <2>1. Flag(in[s] = None, 1) + 0 + 1 = 1
    BY <1>5 DEF Flag
  <2>. QED  BY <1>6, <2>1, SubSeqFull DEF BodyIn
<1>8. PieceGiven(w, fn, ps, inc, e + n, st, c)
  <2> HIDE DEF w, fn, ps, inc, y, e, st
  <2>1. st = Received(y, SubSeq(w, e + 1, e + n), c)
    BY DEF st
  <2>. QED  BY ONLY <1>1, <1>4, <2>1, PieceRead
<1>9. Outcome(s, end.x, end.told, connection)
  <2> DEFINE h == [res |-> "ok", x |-> y, used |-> 0]
  <2>1. h = HeadIn(s, b)
    <3> HIDE DEF b
    <3>. QED  BY <1>5 DEF HeadIn
  <2>2. h.res = "ok" /\ h.x = y /\ h.used = 0
    OBVIOUS
  <2> HIDE DEF h
  <2>3. st = Received(h.x, BodyIn(s, b, h.used), c) /\ st.res # "violation"
    BY <1>7, <1>8, <2>2 DEF PieceGiven
  <2>4. h.x.parsed /\ in[s] # None
    BY <1>5, <2>2
  <2> HIDE DEF b, st, y
  <2>5. end = Finish(st.x, c, st.found)
    OBVIOUS
  <2> HIDE DEF end
  <2>. QED  BY ONLY <1>1, <2>1, <2>2, <2>3, <2>4, <2>5, MessageParsed
<1>10. DeliveredAs(s, n, c, end.x, end.told, "open")
  <2> HIDE DEF st
  <2>1. ("open" = "open") = TRUE
    OBVIOUS
  <2>. QED  BY <1>1, <1>8, <1>9, <2>1 DEF DeliveredAs, PieceGiven
<1>. QED  BY <1>10

LEMMA FreshDelivered ==
    ASSUME NEW s, NEW n, NEW c, Delivering(s, n, c), taken[s] = 0, Ascending = OkAscending, ~SplitHeader
    PROVE  \E x, told, o : DeliveredAs(s, n, c, x, told, o)
<1> DEFINE w == wire[s]
           fn == fin[s]
           ps == sent[s]
           b == SubSeq(w, 1, n)
           h == ParseHeader(b)
<1>1. /\ w \in Seq(Nat) /\ Len(w) \in Nat /\ n \in 0 .. Len(w) /\ n \in Nat /\ c \in BOOLEAN
      /\ (c => fn /\ n = Len(w)) /\ n > 0 /\ connection = "open" /\ w # <<>>
      /\ Reception(w, fn, ps, incoming[s], in[s], 0, FALSE, TRUE)
      /\ ParseMessage(s, b, c) /\ \E off : Layout(w, ps, off)
  <2>0. n \in Nat /\ Len(w) \in Nat
    BY PieceFacts
  <2>1. 0 + 1 = 1 /\ 0 + n = n /\ Len(w) - 0 = Len(w)
    <3> HIDE DEF w
    <3>. QED  BY ONLY <2>0
  <2>. QED  BY <2>1, PieceFacts
<1>2. in[s] = None /\ incoming[s] = <<>> /\ \E got : Gives(<<>>, got, ps)
  <2> HIDE DEF w, fn, ps
  <2>. QED  BY <1>1 DEF Reception
<1>3. PICK off : Layout(w, ps, off)
  BY <1>1
<1> DEFINE z == off[0]
<1>4. z \in Nat /\ n >= z /\ z >= 2 /\ Len(ps) \in Nat /\ z \in 0 .. n /\ n - z \in Nat
  <2>1. HeaderIs(w, z) /\ Len(ps) \in Nat
    BY <1>3 DEF Layout
  <2>2. n >= HeaderLength(s)
    BY DEF Delivering, Piece
  <2>3. HeaderLength(s) = z /\ z \in {2, 5}
    BY <2>1, OrdinaryIs DEF HeaderLength, HeaderIs
  <2> HIDE DEF z
  <2>. QED  BY <1>1, <2>1, <2>2, <2>3
<1>5. b \in Seq(Nat) /\ Len(b) = n /\ b # <<>>
  <2> HIDE DEF w
  <2>1. b \in Seq(Nat) /\ Len(b) = n
    BY <1>1
  <2> HIDE DEF b
  <2>. QED  BY <1>1, <2>1
<1>6. HeadIn(s, b) = h
  <2> HIDE DEF b
  <2>. QED  BY <1>2, <1>5 DEF HeadIn
<1>7. \/ h.res = "crash"
      \/ h.res = "ok" /\ h.used = z - 1 /\ At(w, ps, off, z, h.x, 0) /\ ~h.x.closed
  <2> HIDE DEF w, ps, b, h
  <2>1. h = ParseHeader(SubSeq(w, 1, n))
    BY DEF h, b
  <2>. QED  BY <1>1, <1>3, <1>4, <2>1, HeaderRead
<1>8. CASE h.res = "crash"
  <2>1. connection' = "crashed" /\ in' = in /\ incoming' = incoming
    <3> HIDE DEF b
    <3>. QED  BY <1>1, <1>2, <1>5, <1>8 DEF ParseMessage
  <2>2. Outcome(s, None, <<>>, "crashed")
    <3>1. RecvTypes /\ s \in Streams
      BY DEF Delivering, RecvInv
    <3>2. in = [in EXCEPT ![s] = None]
      BY <1>2, <3>1 DEF RecvTypes
    <3>3. incoming = [incoming EXCEPT ![s] = @ \o <<>>]
      <4>1. incoming[s] \o <<>> = incoming[s]
        BY <3>1, ConcatEmptySeq DEF RecvTypes
      <4>. QED  BY <3>1, <4>1 DEF RecvTypes
    <3>. QED  BY <2>1, <3>2, <3>3 DEF Outcome
  <2>3. incoming[s] \o <<>> = <<>> /\ <<>> \in Seq(Givens)
    BY <1>2
  <2>4. Reception(w, fn, ps, <<>>, None, 0 + n, c, "crashed" = "open")
    <3>1. 0 + n \in 0 .. Len(w) /\ 0 + n = n /\ ("crashed" = "open") = FALSE
      BY <1>1
    <3> HIDE DEF w, fn, ps
    <3>. QED  BY <1>1, <1>2, <3>1 DEF Reception
  <2>5. DeliveredAs(s, n, c, None, <<>>, "crashed")
    BY <2>2, <2>3, <2>4 DEF DeliveredAs
  <2>. QED  BY <2>5
<1>9. CASE h.res = "ok" /\ h.used = z - 1 /\ At(w, ps, off, z, h.x, 0) /\ ~h.x.closed
  <2> DEFINE y == h.x
             v == n - z
             st == Received(y, SubSeq(w, z + 1, z + v), c)
             end == Finish(st.x, c, st.found)
  <2>1. BodyIn(s, b, h.used) = SubSeq(w, z + 1, z + v)
    <3>1. Flag(in[s] = None, 1) + h.used + 1 = z + 1
      BY <1>2, <1>4, <1>9 DEF Flag
    <3>2. SubSeq(SubSeq(w, 1, n), z + 1, n) = SubSeq(w, z + 1, z + v)
      <4> HIDE DEF w, z
      <4>. QED  BY <1>1, <1>4, RestOfFirst
    <3> HIDE DEF z, h
    <3>. QED  BY <1>5, <3>1, <3>2 DEF BodyIn
  <2>2. PieceGiven(w, fn, ps, <<>>, z + v, st, c)
    <3>1. Len(<<>>) = 0 /\ z \in 0 .. Len(w) /\ v \in 0 .. Len(w) - z /\ z + v = n
      BY <1>1, <1>4
    <3>2. Incomplete(ps, off, z, 0)
      <4>1. 0 \in Nat /\ 0 + 1 = 1
        OBVIOUS
      <4>2. 0 < Len(ps) => off[0] < off[1]
        BY ONLY <1>3, <4>1, Increases
      <4>. QED  BY <4>1, <4>2 DEF Incomplete
    <3>3. InOrder(<<>>, ps)
      <4>1. <<>> \in Seq(Shows) /\ Len(<<>>) = 0
        OBVIOUS
      <4>. QED  BY <1>4, <4>1 DEF InOrder
    <3>4. z + v > 0 /\ (c => fn /\ z + v = Len(w))
      BY <1>1, <3>1
    <3>5. Incomplete(ps, off, z, Len(<<>>)) /\ At(w, ps, off, z, y, Len(<<>>)) /\ ~y.closed
      BY <1>9, <3>1, <3>2
    <3>6. st = Received(y, SubSeq(w, z + 1, z + v), c)
      OBVIOUS
    <3> HIDE DEF w, fn, ps, y, z, v, st
    <3>. QED  BY ONLY <1>1, <1>3, <3>1, <3>3, <3>4, <3>5, <3>6, PieceRead
  <2>3. Outcome(s, end.x, end.told, connection)
    <3>1. h.x.parsed
      BY <1>9 DEF At
    <3>2. st = Received(h.x, BodyIn(s, b, h.used), c) /\ st.res # "violation"
      BY <2>1, <2>2 DEF PieceGiven
    <3> HIDE DEF b, h, st
    <3>3. end = Finish(st.x, c, st.found)
      OBVIOUS
    <3> HIDE DEF end
    <3>. QED  BY ONLY <1>1, <1>5, <1>6, <1>9, <3>1, <3>2, <3>3, MessageParsed
  <2>4. DeliveredAs(s, n, c, end.x, end.told, "open")
    <3>1. ("open" = "open") = TRUE /\ z + v = 0 + n
      BY <1>1, <1>4
    <3> HIDE DEF st, z, v
    <3>. QED  BY <1>1, <1>2, <2>2, <2>3, <3>1 DEF DeliveredAs, PieceGiven
  <2>. QED  BY <2>4
<1>. QED  BY <1>7, <1>8, <1>9

LEMMA DeliverKept ==
    ASSUME SendInv, RecvInv, Ascending = OkAscending, ~SplitHeader, NEW s \in Streams, NEW n \in Nat,
           NEW c \in BOOLEAN, Piece(s, n, c)
    PROVE  RecvInv'
<1>1. Delivering(s, n, c)
  BY DEF Delivering
<1>2. PICK x, told, o : DeliveredAs(s, n, c, x, told, o)
  <2>1. taken[s] \in Nat
    BY DEF RecvInv, RecvTypes
  <2>2. CASE taken[s] > 0
    BY <1>1, <2>2, KnownDelivered
  <2>3. CASE taken[s] = 0
    BY <1>1, <2>3, FreshDelivered
  <2>. QED  BY <2>1, <2>2, <2>3
<1>3. /\ in' = [in EXCEPT ![s] = x] /\ incoming' = [incoming EXCEPT ![s] = incoming[s] \o told]
      /\ connection' = o /\ o \in {"open", "crashed"}
      /\ x \in SubscriberStreams \cup {None} /\ incoming[s] \o told \in Seq(Givens)
      /\ Reception(wire[s], fin[s], sent[s], incoming[s] \o told, x, taken[s] + n, c, o = "open")
  BY <1>2 DEF DeliveredAs, Outcome
<1>4. /\ taken' = [taken EXCEPT ![s] = taken[s] + n] /\ ended' = [ended EXCEPT ![s] = c]
      /\ okTaken' = okTaken /\ wire' = wire /\ fin' = fin /\ sent' = sent /\ connection = "open"
  BY DEF Piece, sendVars
<1>5. RecvTypes /\ Receptions
  BY DEF RecvInv
<1>6. taken[s] + n \in Nat
  BY <1>5 DEF RecvTypes
<1>7. RecvTypes'
  BY ONLY <1>3, <1>4, <1>5, <1>6, c \in BOOLEAN DEF RecvTypes
<1>8. /\ in'[s] = x /\ incoming'[s] = incoming[s] \o told /\ taken'[s] = taken[s] + n /\ ended'[s] = c
      /\ \A r \in Streams : r # s => /\ in'[r] = in[r] /\ incoming'[r] = incoming[r]
                                     /\ taken'[r] = taken[r] /\ ended'[r] = ended[r]
  BY ONLY <1>3, <1>4, <1>5, s \in Streams DEF RecvTypes
<1>9. ASSUME NEW r \in Streams
      PROVE  Reception(wire[r], fin[r], sent[r], incoming'[r], in'[r], taken'[r], ended'[r], o = "open")
  <2>1. CASE r = s
    BY ONLY <1>3, <1>8, <2>1
  <2>2. CASE r # s
    <3>1. Reception(wire[r], fin[r], sent[r], incoming[r], in[r], taken[r], ended[r], connection = "open")
      BY <1>5 DEF Receptions
    <3>2. Reception(wire[r], fin[r], sent[r], incoming[r], in[r], taken[r], ended[r], o = "open")
      BY <1>4, <3>1, ReceptionAny
    <3>. QED  BY <1>8, <2>2, <3>2
  <2>. QED  BY <2>1, <2>2
<1>10. Receptions'
  BY <1>3, <1>4, <1>9 DEF Receptions
<1>. QED  BY <1>7, <1>10 DEF RecvInv

-----------------------------------------------------------------------------
ObjectsInv == SendInv /\ RecvInv

LEMMA ObjectsNext ==
    ASSUME ObjectsInv, [Next]_vars, OneWriter, Ascending = OkAscending, ~SplitHeader
    PROVE  ObjectsInv'
<1>1. SendInv /\ RecvInv
  BY DEF ObjectsInv
<1>2. CASE UNCHANGED vars
  <2>1. UNCHANGED sendVars /\ UNCHANGED recvVars
    BY <1>2 DEF vars
  <2>2. /\ UNCHANGED <<in, taken, ended, connection, incoming>> /\ UNCHANGED <<wire, fin, sent>>
        /\ okTaken' = okTaken
    BY <2>1 DEF sendVars, recvVars
  <2>3. okTaken' \in BOOLEAN
    BY <1>1, <2>2 DEF RecvInv, RecvTypes
  <2>. QED  BY <1>1, <2>1, <2>2, <2>3, SendQuiet, RecvQuiet DEF ObjectsInv
<1>3. ASSUME NEW t \in Threads, Send(t) PROVE ObjectsInv'
  BY <1>1, <1>3, SendKept, RecvLonger DEF ObjectsInv
<1>4. ASSUME NEW s \in Streams, Deliver(s) PROVE ObjectsInv'
  <2>1. PICK n \in PieceSizes \cup {Len(wire[s]) - taken[s]}, c \in BOOLEAN : Piece(s, n, c)
    BY <1>4 DEF Deliver
  <2>2. n \in Nat
    <3>1. Reception(wire[s], fin[s], sent[s], incoming[s], in[s], taken[s], ended[s], connection = "open")
      BY <1>1 DEF RecvInv, Receptions
    <3>2. taken[s] \in 0 .. Len(wire[s])
      BY <3>1 DEF Reception
    <3>3. Len(wire[s]) \in Nat
      BY <1>1, LenProperties DEF SendInv, SendTypes
    <3>. QED  BY <2>1, <3>2, <3>3, ObjectsAssumption
  <2>3. RecvInv'
    BY <1>1, <2>1, <2>2, DeliverKept
  <2>4. UNCHANGED sendVars
    BY <2>1 DEF Piece
  <2>. QED  BY <1>1, <2>3, <2>4, SendQuiet DEF ObjectsInv
<1>5. CASE TakeFetchOk
  <2>1. /\ UNCHANGED <<in, taken, ended, connection, incoming>> /\ UNCHANGED sendVars
        /\ UNCHANGED <<wire, fin, sent>> /\ okTaken' \in BOOLEAN
    BY <1>5 DEF TakeFetchOk, sendVars
  <2>. QED  BY <1>1, <2>1, SendQuiet, RecvQuiet DEF ObjectsInv
<1>. QED  BY <1>2, <1>3, <1>4, <1>5 DEF Next

LEMMA ObjectsSafe == ASSUME OneWriter, Ascending = OkAscending, ~SplitHeader PROVE Spec => []ObjectsInv
<1>1. Init => ObjectsInv
  BY SendInit, RecvInit DEF ObjectsInv
<1>2. ObjectsInv /\ [Next]_vars => ObjectsInv'
  BY ObjectsNext
<1>. QED  BY <1>1, <1>2, PTL DEF Spec

\* Without the end of the stream what was given are the objects.
LEMMA WithoutEnd ==
    ASSUME NEW inc, NEW got, NEW ps, Gives(inc, got, ps)
    PROVE  (IF inc # <<>> /\ Last(inc) = EndOfStream(Last(inc)) THEN Front(inc) ELSE inc) = got
<1>1. got \in Seq(Shows) /\ Len(got) \in Nat
  BY DEF Gives, InOrder
<1>2. CASE inc = got
  <2>1. ASSUME inc # <<>> PROVE Last(inc) # EndOfStream(Last(inc))
    <3>1. got[Len(got)] \in Shows
      <4>1. Len(got) \in 1 .. Len(got)
        BY <1>1, <1>2, <2>1
      <4>. QED  BY ONLY <1>1, <4>1, ElementOfSeq
    <3>2. Last(inc) \in Shows
      BY <1>2, <3>1 DEF Last
    <3> DEFINE p == Last(inc)
    <3> HIDE DEF p
    <3>3. p.priority = PRIORITY /\ PRIORITY = 7
      BY <3>2 DEF Shows, PRIORITY, p
    <3>4. EndOfStream(p).priority = 128
      BY DEF EndOfStream
    <3>5. p # EndOfStream(p)
      BY <3>3, <3>4
    <3>. QED  BY <3>5 DEF p
  <2>. QED  BY <1>2, <2>1
<1>3. ASSUME NEW m \in SubscriberStreams, inc = Append(got, EndOfStream(m))
      PROVE  (IF inc # <<>> /\ Last(inc) = EndOfStream(Last(inc)) THEN Front(inc) ELSE inc) = got
  <2> DEFINE E == EndOfStream(m)
  <2>1. EndOfStream(E) = E
    BY DEF EndOfStream
  <2>2. E \in Givens /\ got \in Seq(Givens)
    BY <1>1, GivensAre, SeqMonotonic
  <2> HIDE DEF E
  <2>3. /\ inc \in Seq(Givens) /\ inc # <<>> /\ Len(inc) = Len(got) + 1 /\ inc[Len(got) + 1] = E
        /\ \A i \in 1 .. Len(got) : inc[i] = got[i]
    BY <1>3, <2>2, AppendProperties DEF E
  <2>4. Last(inc) = E
    BY <2>3 DEF Last
  <2>5. Front(inc) = SubSeq(inc, 1, Len(got))
    <3>1. Len(inc) - 1 = Len(got)
      BY <1>1, <2>3
    <3>. QED  BY <3>1 DEF Front
  <2> DEFINE f == SubSeq(inc, 1, Len(got))
  <2>6. f \in Seq(Givens) /\ Len(f) = Len(got) /\ \A i \in 1 .. Len(got) : f[i] = inc[i]
    BY <1>1, <2>3
  <2> HIDE DEF f
  <2>7. f = got
    BY ONLY <2>2, <2>3, <2>6, SeqEqual
  <2>. QED  BY <2>1, <2>3, <2>4, <2>5, <2>7 DEF f
<1>. QED  BY <1>2, <1>3 DEF Gives

LEMMA SameContent ==
    ASSUME NEW p \in Shows, NEW c \in BOOLEAN
    PROVE  Content(WithEnd(p, c)) = Content(p)
<1> DEFINE F == {"group", "subgroup", "id", "status", "priority", "payload", "properties", "eos"}
           q == WithEnd(p, c)
<1>1. DOMAIN p = F /\ p.priority = PRIORITY
  BY DEF Shows
<1>2. DOMAIN q = F
  BY DEF WithEnd
<1>3. ASSUME NEW f \in F \ {"eos"} PROVE q[f] = p[f]
  BY <1>1, <1>3 DEF WithEnd
<1> HIDE DEF q, F
<1>4. [f \in DOMAIN q \ {"eos"} |-> q[f]] = [f \in DOMAIN p \ {"eos"} |-> p[f]]
  BY <1>1, <1>2, <1>3
<1>. QED  BY <1>4 DEF Content, q

LEMMA ContentsAre ==
    ASSUME NEW ps \in Seq(Shows)
    PROVE  \E S : /\ Contents(ps) \in Seq(S) /\ Len(Contents(ps)) = Len(ps)
                  /\ \A i \in 1 .. Len(ps) : Contents(ps)[i] = Content(ps[i])
<1> DEFINE S == {Content(p) : p \in Shows}
<1>1. DOMAIN ps = 1 .. Len(ps) /\ Len(ps) \in Nat /\ \A i \in 1 .. Len(ps) : ps[i] \in Shows
  BY LenProperties
<1>2. Contents(ps) = [i \in 1 .. Len(ps) |-> Content(ps[i])]
  BY <1>1 DEF Contents
<1>3. \A i \in 1 .. Len(ps) : Content(ps[i]) \in S
  BY <1>1
<1> HIDE DEF S
<1>4. [i \in 1 .. Len(ps) |-> Content(ps[i])] \in Seq(S)
  BY <1>1, <1>3
<1>5. Len([i \in 1 .. Len(ps) |-> Content(ps[i])]) = Len(ps)
  BY <1>1
<1>6. Contents(ps) \in Seq(S) /\ Len(Contents(ps)) = Len(ps)
  BY <1>2, <1>4, <1>5
<1>7. \A i \in 1 .. Len(ps) : Contents(ps)[i] = Content(ps[i])
  BY <1>2
<1>. QED  BY <1>6, <1>7

\* The objects got are the first of ps, and all of them when all there is was taken.
LEMMA PrefixOfSent ==
    ASSUME NEW got, NEW ps \in Seq(Shows), InOrder(got, ps)
    PROVE  IsPrefix(Contents(got), Contents(ps))
<1>1. got \in Seq(Shows) /\ Len(got) \in Nat /\ Len(ps) \in Nat /\ Len(got) <= Len(ps)
  BY LenProperties DEF InOrder
<1>2. PICK S : /\ Contents(ps) \in Seq(S) /\ Len(Contents(ps)) = Len(ps)
               /\ \A i \in 1 .. Len(ps) : Contents(ps)[i] = Content(ps[i])
  BY ContentsAre
<1>3. PICK T : /\ Contents(got) \in Seq(T) /\ Len(Contents(got)) = Len(got)
               /\ \A i \in 1 .. Len(got) : Contents(got)[i] = Content(got[i])
  BY <1>1, ContentsAre
<1>4. ASSUME NEW i \in 1 .. Len(got) PROVE Contents(got)[i] = Contents(ps)[i]
  <2>1. i \in 1 .. Len(ps)
    BY <1>1
  <2>2. ps[i] \in Shows
    BY <2>1, ElementOfSeq
  <2>3. PICK c \in BOOLEAN : got[i] = WithEnd(ps[i], c)
    BY DEF InOrder
  <2>4. Content(got[i]) = Content(ps[i])
    BY <2>2, <2>3, SameContent
  <2>. QED  BY <1>2, <1>3, <2>1, <2>4
<1> DEFINE a == Contents(got)
           b == Contents(ps)
           u == SubSeq(a, 1, Len(a))
           v == SubSeq(b, 1, Len(a))
           R == S \cup T
<1>5. a \in Seq(R) /\ b \in Seq(R) /\ Len(a) = Len(got) /\ Len(b) = Len(ps)
  BY <1>2, <1>3, SeqMonotonic
<1>6. \A i \in 1 .. Len(a) : a[i] = b[i]
  BY <1>3, <1>4
<1> HIDE DEF a, b, R
<1>7. /\ u \in Seq(R) /\ Len(u) = Len(a) /\ \A i \in 1 .. Len(a) : u[i] = a[i]
      /\ v \in Seq(R) /\ Len(v) = Len(a) /\ \A i \in 1 .. Len(a) : v[i] = b[i]
  BY <1>1, <1>5
<1> HIDE DEF u, v
<1>8. u = v
  <2>1. \A i \in 1 .. Len(u) : u[i] = v[i]
    BY <1>6, <1>7
  <2>. QED  BY ONLY <1>7, <2>1, SeqEqual
<1>9. Len(a) <= Len(b)
  BY <1>1, <1>5
<1>. QED  BY <1>8, <1>9 DEF IsPrefix, a, b, u, v

\* What a stream gave, once all its fields were taken.
TakenWhole(w, fn, ps, inc, x, e, d) ==
    Reception(w, fn, ps, inc, x, e, d, TRUE) /\ Written(w, fn, ps) /\ e = Len(w) /\ (w # <<>> => e > 0)

LEMMA GivenWhole ==
    ASSUME NEW w, NEW fn, NEW ps, NEW inc, NEW x, NEW e, NEW d, Len(ps) \in Nat, TakenWhole(w, fn, ps, inc, x, e, d)
    PROVE  \E got : Gives(inc, got, ps) /\ Len(got) = Len(ps)
<1>. /\ Reception(w, fn, ps, inc, x, e, d, TRUE) /\ Written(w, fn, ps) /\ e = Len(w) /\ (w # <<>> => e > 0)
  BY DEF TakenWhole
<1>1. d \in BOOLEAN
  BY DEF Reception
<1>2. CASE d
  <2>1. Told(inc, ps)
    BY <1>2 DEF Reception
  <2>. QED  BY <2>1 DEF Told
<1>3. CASE ~d /\ w = <<>>
  <2>1. ps = <<>>
    BY <1>3 DEF Written
  <2>2. PICK got : Gives(inc, got, ps)
    BY DEF Reception
  <2>3. Len(got) \in Nat /\ Len(got) <= Len(ps) /\ Len(ps) = 0
    BY <2>1, <2>2 DEF Gives, InOrder
  <2>. QED  BY <2>2, <2>3
<1>4. CASE ~d /\ w # <<>>
  <2>1. Reading(w, ps, inc, x, e)
    BY <1>4 DEF Reception
  <2>2. PICK off : ReadingAt(w, ps, off, inc, x, e)
    BY <2>1 DEF Reading
  <2>3. Len(inc) = Len(ps)
    BY <2>2, AllTaken DEF ReadingAt
  <2>4. Gives(inc, inc, ps)
    BY <2>1 DEF Reading, Gives
  <2>. QED  BY <2>3, <2>4
<1>. QED  BY <1>1, <1>2, <1>3, <1>4

LEMMA AsSent == ASSUME ObjectsInv PROVE ObjectsAsSent
<1> SUFFICES ASSUME NEW s \in Streams
             PROVE  /\ IsPrefix(Contents(Given(s)), Contents(sent[s]))
                    /\ connection = "open" /\ taken[s] = Len(wire[s]) => Len(Given(s)) = Len(sent[s])
  BY DEF ObjectsAsSent
<1> DEFINE w == wire[s]
           ps == sent[s]
           inc == incoming[s]
           e == taken[s]
           open == connection = "open"
           given == IF inc # <<>> /\ Last(inc) = EndOfStream(Last(inc)) THEN Front(inc) ELSE inc
<1>1. Given(s) = given
  BY DEF Given
<1>2. w \in Seq(Nat) /\ ps \in Seq(Shows) /\ Len(w) \in Nat /\ Written(w, fin[s], ps)
  BY LenProperties DEF ObjectsInv, SendInv, SendTypes, AllWritten
<1>3. Reception(w, fin[s], ps, inc, in[s], e, ended[s], open)
  BY DEF ObjectsInv, RecvInv, Receptions
<1> HIDE DEF w, ps, inc, e, open, given
<1>4. IsPrefix(Contents(given), Contents(ps))
  <2>1. PICK got : Gives(inc, got, ps)
    BY <1>3 DEF Reception
  <2>2. given = got
    BY <2>1, WithoutEnd DEF given
  <2>3. InOrder(got, ps)
    BY <2>1 DEF Gives
  <2>. QED  BY <1>2, <2>2, <2>3, PrefixOfSent
<1>5. ASSUME open, e = Len(w) PROVE Len(given) = Len(ps)
  <2>1. open = TRUE
    BY <1>5 DEF open
  <2>2. w # <<>> => e > 0
    BY <1>2, <1>5
  <2>3. PICK got : Gives(inc, got, ps) /\ Len(got) = Len(ps)
    <3>1. Reception(w, fin[s], ps, inc, in[s], e, ended[s], TRUE)
      BY <1>3, <2>1
    <3>2. e = Len(w)
      BY <1>5
    <3>3. TakenWhole(w, fin[s], ps, inc, in[s], e, ended[s]) /\ Len(ps) \in Nat
      BY ONLY <1>2, <2>2, <3>1, <3>2, LenProperties DEF TakenWhole
    <3>. QED  BY ONLY <3>3, GivenWhole
  <2>4. given = got
    BY <2>3, WithoutEnd DEF given
  <2>. QED  BY <2>3, <2>4
<1>. QED  BY <1>1, <1>4, <1>5 DEF w, ps, e, open

LEMMA ObjectsTypes == ASSUME ObjectsInv PROVE TypeOK
<1>1. SendTypes /\ RecvTypes /\ Owned
  BY DEF ObjectsInv, SendInv, RecvInv
<1>2. \A k \in Keys : streamOf[k] = None \/ streamOf[k] \in 1 .. opened
  <2>1. ASSUME NEW k \in Keys, streamOf[k] # None PROVE streamOf[k] \in 1 .. opened
    <3>1. streamOf[k] \in Streams /\ streamOf[k] <= opened /\ opened \in 0 .. MaxStreams
      BY <1>1, <2>1 DEF SendTypes, Owned
    <3>. QED  BY <3>1, ObjectsAssumption DEF Streams
  <2>. QED  BY <2>1
<1>3. ASSUME NEW s \in Streams
      PROVE  /\ wire[s] \in Seq(Nat) /\ taken[s] \in 0 .. Len(wire[s])
             /\ in[s] = None \/ (in[s] \in SubscriberStreams /\ Len(in[s].buffer) <= taken[s])
             /\ out[s].lastObject \in ObjectIds \cup {0}
  <2>1. Reception(wire[s], fin[s], sent[s], incoming[s], in[s], taken[s], ended[s], connection = "open")
    BY DEF ObjectsInv, RecvInv, Receptions
  <2>2. wire[s] \in Seq(Nat) /\ out[s] \in PubStreams
    BY <1>1 DEF SendTypes
  <2>3. out[s].lastObject \in ObjectIds \cup {0}
    BY ONLY <2>2 DEF PubStreams
  <2>4. taken[s] \in 0 .. Len(wire[s]) /\ (in[s] = None \/ (in[s] \in SubscriberStreams /\ Len(in[s].buffer) <= taken[s]))
    BY <2>1 DEF Reception
  <2>. QED  BY <2>2, <2>3, <2>4
<1>4. /\ served \in BOOLEAN /\ okTaken \in BOOLEAN /\ opened \in 0 .. MaxStreams /\ calls \in 0 .. MaxObjects
      /\ fin \in [Streams -> BOOLEAN] /\ ended \in [Streams -> BOOLEAN]
      /\ \A t \in Threads : pc[t] \in {"idle", "header", "encode", "write", "forget"}
      /\ connection \in {"open", "closed", "crashed"}
  BY <1>1 DEF SendTypes, RecvTypes, Stages
<1>. QED  BY <1>2, <1>3, <1>4 DEF TypeOK

LEMMA TablesOpen ==
    ASSUME ObjectsInv, NEW k \in Keys, streamOf[k] # None, \A t \in Threads : pc[t] # "forget"
    PROVE  ~fin[streamOf[k]]
<1>1. Owned /\ InCalls /\ BetweenCalls /\ SendTypes
  BY DEF ObjectsInv, SendInv
<1>2. CASE Busy(k)
  <2>1. PICK t \in Threads : pc[t] # "idle" /\ call[t].object.key = k
    BY <1>2 DEF Busy
  <2>2. streamOf[k] = call[t].stream
    BY <1>1, <2>1 DEF Owned
  <2> DEFINE s == call[t].stream
  <2>3. Stage(pc[t], call[t], out[s], wire[s], fin[s], sent[s])
    BY <1>1, <2>1 DEF InCalls
  <2>4. pc[t] \in {"header", "encode", "write"}
    BY <1>1, <2>1 DEF SendTypes, Stages
  <2>5. ~fin[s]
    BY <2>3, <2>4 DEF Stage
  <2>. QED  BY <2>2, <2>5
<1>3. CASE ~Busy(k)
  <2> DEFINE s == streamOf[k]
  <2>1. Settled(k, out[s], wire[s], fin[s], sent[s])
    BY <1>1, <1>3 DEF BetweenCalls
  <2>. QED  BY <2>1 DEF Settled
<1>. QED  BY <1>2, <1>3

(* imquic_moq_send_object and incoming_object: for threads that each have    *)
(* subgroups or a FETCH of their own, the subscriber is given the objects    *)
(* that were sent on a stream, in order and with their IDs, and all of them  *)
(* once all fields have arrived, in whatever pieces.                         *)
THEOREM ObjectsArriveAsSent ==
    ASSUME OneWriter, Ascending = OkAscending, ~SplitHeader PROVE Spec => []ObjectsAsSent
<1>1. ObjectsInv => ObjectsAsSent
  BY AsSent
<1>. QED  BY <1>1, ObjectsSafe, PTL

(* imquic_moq_parse_message: the last thing the subscriber is given of a     *)
(* stream whose FIN arrived says that it ended.                              *)
THEOREM EndOfStreamTold ==
    ASSUME OneWriter, Ascending = OkAscending, ~SplitHeader PROVE Spec => []EndIsTold
<1>1. ObjectsInv => EndIsTold
  <2>1. ASSUME ObjectsInv, NEW s \in Streams, connection = "open", ended[s]
        PROVE  incoming[s] # <<>> /\ Last(incoming[s]).eos
    <3>1. Reception(wire[s], fin[s], sent[s], incoming[s], in[s], taken[s], ended[s], connection = "open")
      BY <2>1 DEF ObjectsInv, RecvInv, Receptions
    <3>2. Told(incoming[s], sent[s])
      BY <2>1, <3>1 DEF Reception
    <3>. QED  BY <3>2 DEF Told
  <2>. QED  BY <2>1 DEF EndIsTold
<1>. QED  BY <1>1, ObjectsSafe, PTL

(* imquic_moq_send_object: no thread is given a stream whose FIN was sent,   *)
(* and every variable has its type.                                          *)
THEOREM TablesHoldOpenStreams ==
    ASSUME OneWriter, Ascending = OkAscending, ~SplitHeader PROVE Spec => []OpenStreamsOnly
<1>1. ObjectsInv => OpenStreamsOnly
  <2>1. ASSUME ObjectsInv PROVE OpenStreamsOnly
    BY <2>1, ObjectsTypes, TablesOpen DEF OpenStreamsOnly
  <2>. QED  BY <2>1
<1>. QED  BY <1>1, ObjectsSafe, PTL
=============================================================================
