------------------------------ MODULE MoqNames ------------------------------
(***************************************************************************)
(* Namespaces (tuples of bytes) and track names, and the text that stands  *)
(* for them in URLs, command lines and logs (imquic-moq.c): letters,       *)
(* digits and underscores as they are, every other byte as a dot and two   *)
(* hexadecimal digits, dashes between tuples.                              *)
(***************************************************************************)
EXTENDS Naturals, Sequences, SequencesExt

CONSTANTS Tuples32,   \* 32: the tuples of a namespace
          NameBytes   \* 4096: the bytes of a namespace and of a name

ASSUME NamesAssumption == {Tuples32, NameBytes} \subseteq Nat \ {0}

Dash == 45
Dot == 46
Plain == (48..57) \cup (65..90) \cup (97..122) \cup {95}

HexDigit(d) == IF d < 10 THEN 48 + d ELSE 87 + d
HexDigits == (48..57) \cup (97..102) \cup (65..70)
HexValue(c) == CASE c \in 48..57 -> c - 48 [] c \in 97..102 -> c - 87 [] c \in 65..70 -> c - 55

(* No byte is 256: this stands for NULL. *)
NoText == <<256>>
NoName == <<256>>

\* Mutant: the dash that separates tuples is taken for a letter.
RenderDash(bytes) ==
    FlattenSeq([i \in 1..Len(bytes) |->
        IF bytes[i] \in Plain \cup {Dash} THEN <<bytes[i]>>
        ELSE <<Dot, HexDigit(bytes[i] \div 16), HexDigit(bytes[i] % 16)>>])

Render(bytes) ==
    FlattenSeq([i \in 1..Len(bytes) |->
        IF bytes[i] \in Plain THEN <<bytes[i]>>
        ELSE <<Dot, HexDigit(bytes[i] \div 16), HexDigit(bytes[i] % 16)>>])

(* No dash before the second tuple if the first was empty. *)
NamespaceText(ns) ==
    FoldLeft(LAMBDA text, tuple : text \o (IF text = <<>> THEN <<>> ELSE <<Dash>>) \o Render(tuple), <<>>, ns)

(* A buffer of room characters, the end of the text included. *)
NamespaceStr(ns, room) == LET text == NamespaceText(ns) IN IF Len(text) >= room THEN NoText ELSE text

TrackStr(name, room) == IF name # <<>> /\ Len(Render(name)) >= room THEN NoText ELSE Render(name)

(* One byte at a time: p is what was read and where it goes on. *)
ReadByte(text, p) ==
    IF p.at > Len(text) \/ p.bytes = NoName THEN p
    ELSE IF text[p.at] \in Plain THEN [at |-> p.at + 1, bytes |-> Append(p.bytes, text[p.at])]
    ELSE IF text[p.at] # Dot \/ Len(text) - p.at < 2 \/ text[p.at + 1] \notin HexDigits THEN [p EXCEPT !.bytes = NoName]
    ELSE [at |-> p.at + 3,
          bytes |-> Append(p.bytes, IF text[p.at + 2] \in HexDigits
                                    THEN 16 * HexValue(text[p.at + 1]) + HexValue(text[p.at + 2])
                                    ELSE HexValue(text[p.at + 1]))]

TrackFromStr(text) ==
    FoldLeft(LAMBDA p, i : ReadByte(text, p), [at |-> 1, bytes |-> <<>>], [i \in 1..Len(text) |-> i]).bytes

(* The texts between the dashes; none at all of an empty text. *)
Fields(text) ==
    IF text = <<>> THEN <<>>
    ELSE FoldLeft(LAMBDA fs, c : IF c = Dash THEN Append(fs, <<>>)
                                 ELSE [fs EXCEPT ![Len(fs)] = Append(@, c)],
                  <<<<>>>>, text)

NamespaceFromStr(text) ==
    LET fields == Fields(text)
        tuples == [i \in 1..Len(fields) |-> TrackFromStr(fields[i])]
    IN  IF \E i \in DOMAIN tuples : tuples[i] = NoName THEN NoName ELSE tuples

NamespaceEquals(first, second) == first # <<>> /\ second # <<>> /\ first = second

NamespaceContains(parent, child) == parent = <<>> \/ IsPrefix(parent, child)

NamespaceDuplicate(ns) == SubSeq(ns, 1, IF Len(ns) < Tuples32 THEN Len(ns) ELSE Tuples32)

(* The tuples are counted in a byte; a first tuple that is a dot alone is    *)
(* reserved.                                                                 *)
NamespaceValid(ns, failIfEmpty) ==
    IF ns = <<>> THEN ~failIfEmpty
    ELSE /\ \A i \in DOMAIN ns : ns[i] # <<>>
         /\ ns[1] # <<Dot>>
         /\ Len(ns) % 256 <= Tuples32
         /\ FoldLeft(LAMBDA n, tuple : n + Len(tuple), 0, ns) <= NameBytes

TrackEquals(first, second) == first = second

TrackDuplicate(name) == name

TrackValid(name) == Len(name) < NameBytes
=============================================================================
