------------------------------- MODULE Qpack --------------------------------
(***************************************************************************)
(* Header compression (qpack.c): the Huffman code, the tables, the encoder *)
(* of field sections, their decoder, and the decoder of the instructions a *)
(* peer sends on its encoder stream.  A text is a sequence of characters;  *)
(* of the 256 characters of the code and the 99 entries of the static      *)
(* table a few stand for all, with their own codes and positions.          *)
(***************************************************************************)
EXTENDS Varint, FiniteSetsExt

CONSTANT EncodedRoom   \* bytes of the buffer one text is encoded into (100 in the code)
ASSUME EncodedRoomAssumption == EncodedRoom \in Nat \ {0}

Room == 1024           \* bytes of the buffer a field section is put together in

(* What a character is on the wire when it is not compressed, and its code. *)
Character == [c \in {":", "m", "C", "c", "/", "0", "2", "-", "quote", "brace"} |->
    CASE c = ":" -> 58 [] c = "m" -> 109 [] c = "C" -> 67 [] c = "c" -> 99 [] c = "/" -> 47 [] c = "0" -> 48
      [] c = "2" -> 50 [] c = "-" -> 45 [] c = "quote" -> 34 [] c = "brace" -> 123]

Code == [c \in DOMAIN Character |->
    CASE c = "0" -> <<0,0,0,0,0>>           [] c = "2" -> <<0,0,0,1,0>>     [] c = "c" -> <<0,0,1,0,0>>
      [] c = "-" -> <<0,1,0,1,1,0>>         [] c = "/" -> <<0,1,1,0,0,0>>   [] c = "m" -> <<1,0,1,0,0,1>>
      [] c = ":" -> <<1,0,1,1,1,0,0>>       [] c = "C" -> <<1,0,1,1,1,1,0>>
      [] c = "quote" -> <<1,1,1,1,1,1,1,0,0,1>>
      [] c = "brace" -> <<1,1,1,1,1,1,1,1,1,1,1,1,1,1,0>>]

Newline == "newline"   \* what the decoder adds to a text that is not compressed
NoValue == <<>>        \* the NULL value of a header, and the empty one

-----------------------------------------------------------------------------
(* The Huffman code. *)

\* Mutant: the last byte is filled with zeros.
PaddingZeros(n) == [i \in 1..((8 - (n % 8)) % 8) |-> 0]

Padding(n) == [i \in 1..((8 - (n % 8)) % 8) |-> 1]

ByteOf(bits, k) == FoldLeft(LAMBDA r, b : 2 * r + b, 0, SubSeq(bits, 8 * k - 7, 8 * k))

(* A text that does not fit the buffer is encoded to nothing. *)
HuffmanEncode(text) ==
    LET codes == FlattenSeq([i \in DOMAIN text |-> Code[text[i]]])
        bits  == codes \o Padding(Len(codes))
    IN  IF Len(codes) > 8 * EncodedRoom THEN <<>>
        ELSE [k \in 1..(Len(bits) \div 8) |-> ByteOf(bits, k)]

BitsOf(bytes) == FlattenSeq([i \in DOMAIN bytes |-> [k \in 1..8 |-> (bytes[i] \div 2^(8 - k)) % 2]])

RECURSIVE Symbols(_)
Symbols(bits) ==
    LET whole == {c \in DOMAIN Code : Len(Code[c]) <= Len(bits) /\ SubSeq(bits, 1, Len(Code[c])) = Code[c]}
    IN  IF Len(bits) < 5 \/ whole = {} THEN <<>>
        ELSE LET c == CHOOSE x \in whole : TRUE
             IN  <<c>> \o Symbols(SubSeq(bits, Len(Code[c]) + 1, Len(bits)))

HuffmanDecode(bytes) == Symbols(BitsOf(bytes))

-----------------------------------------------------------------------------
(* Tables. *)

Entry(name, value) == [name |-> name, value |-> value]

Method == <<":", "m">>
Path == <<":", "/">>
Status == <<":", "2">>
Server == <<"m", "m">>

(* The entries at both sides of the positions where a reference grows. *)
Static == [i \in {0, 1, 14, 15, 16, 25, 62, 63, 64, 92} |->
    CASE i = 0  -> Entry(<<":", "c">>, NoValue)
      [] i = 1  -> Entry(Path, <<"/">>)
      [] i = 14 -> Entry(<<"c", "-">>, NoValue)
      [] i = 15 -> Entry(Method, <<"C">>)
      [] i = 16 -> Entry(Method, <<"m">>)
      [] i = 25 -> Entry(Status, <<"2", "0">>)
      [] i = 62 -> Entry(<<"-", "m">>, <<"0">>)
      [] i = 63 -> Entry(Status, <<"0">>)
      [] i = 64 -> Entry(Status, <<"2">>)
      [] i = 92 -> Entry(Server, NoValue)]

(* A dynamic table: the entries by their number, from 0. *)
EmptyTable == <<>>
Context == [ltable |-> EmptyTable, rtable |-> EmptyTable]
Holds(table, id) == id < Len(table)
Get(table, id) == table[id + 1]

Lower(text) == [i \in DOMAIN text |-> IF text[i] = "C" THEN "c" ELSE text[i]]
SameText(a, b) == Lower(a) = Lower(b)

Reference(id, dynamic, full) == [id |-> id, dynamic |-> dynamic, full |-> full]
(* The first static entry that is the header, else the newest dynamic one,  *)
(* else the first static entry of that name, else the newest dynamic one.   *)
FindEntry(table, e) ==
    LET named(entries, ids) == {i \in ids : SameText(entries[i].name, e.name)}
        whole(entries, ids) == {i \in named(entries, ids) : SameText(entries[i].value, e.value)}
        static  == DOMAIN Static
        dynamic == DOMAIN table
    IN  IF whole(Static, static) # {} THEN {Reference(Min(whole(Static, static)), FALSE, TRUE)}
        ELSE IF whole(table, dynamic) # {} THEN {Reference(Max(whole(table, dynamic)) - 1, TRUE, TRUE)}
        ELSE IF named(Static, static) # {} THEN {Reference(Min(named(Static, static)), FALSE, FALSE)}
        ELSE IF named(table, dynamic) # {} THEN {Reference(Max(named(table, dynamic)) - 1, TRUE, FALSE)}
        ELSE {}

-----------------------------------------------------------------------------
(* Encoding. *)

Compressed(n, prefix, text) ==
    LET h == HuffmanEncode(text) IN WritePfxint(Len(h), n, prefix, Room) \o h

(* A header: a reference, a name by reference and a value, or both spelt out. *)
Line(table, e) ==
    LET found == FindEntry(table, e)
        ref   == CHOOSE r \in found : TRUE
    IN  CASE found = {} -> Compressed(3, 32 + 16 + 8, e.name) \o Compressed(7, 128, e.value)
          [] found # {} /\ ref.full -> WritePfxint(ref.id, 6, 128 + (IF ref.dynamic THEN 0 ELSE 64), Room)
          [] OTHER -> WritePfxint(ref.id, 4, 64 + 32 + (IF ref.dynamic THEN 0 ELSE 16), Room) \o Compressed(7, 128, e.value)

(* The local table never gets an entry: the required insert count is zero. *)
FieldSection(ctx, headers) ==
    <<0, 0>> \o FlattenSeq([i \in DOMAIN headers |-> Line(ctx.ltable, headers[i])])

-----------------------------------------------------------------------------
(* Decoding.  A reader returns what it read and how many bytes that took, 0 *)
(* bytes when the number in front of a text is cut.                         *)

From(bytes, p) == SubSeq(bytes, p, Len(bytes))

Plainly(bytes) == [i \in DOMAIN bytes |-> CHOOSE c \in DOMAIN Character : Character[c] = bytes[i]] \o <<Newline>>

ReadString(n, bytes) ==
    LET number == ReadPfxint(n, bytes)
        text   == SubSeq(bytes, number.length + 1, number.length + number.value)
    IN  IF bytes = <<>> \/ number.length = 0 THEN [text |-> NoValue, length |-> 0]
        ELSE [text   |-> IF (bytes[1] \div 2^n) % 2 = 1 THEN HuffmanDecode(text) ELSE Plainly(text),
              length |-> number.length + number.value]

(* Nothing is ever evicted: every entry counts as being of size 0. *)
Insert(table, e) == Append(table, e)

(* The instructions of one piece of the peer's encoder stream.  An entry that *)
(* is not there is not copied; what follows a cut instruction is dropped.     *)
RECURSIVE Decode(_, _)
Decode(table, bytes) ==
    LET number(n) == ReadPfxint(n, bytes)
        value     == ReadString(7, From(bytes, number(6).length + 1))
        name      == ReadString(5, bytes)
        named     == ReadString(7, From(bytes, name.length + 1))
        isStatic  == (bytes[1] \div 64) % 2 = 1
        known     == isStatic \/ Holds(table, number(6).value)
        source    == IF isStatic THEN Static[number(6).value] ELSE Get(table, number(6).value)
    IN  IF bytes = <<>> THEN table
        ELSE IF bytes[1] >= 128                                    \* Insert with Name Reference
        THEN IF number(6).length = 0 \/ value.length = 0 THEN table
             ELSE Decode(IF known THEN Insert(table, Entry(source.name, value.text)) ELSE table,
                         From(bytes, number(6).length + value.length + 1))
        ELSE IF bytes[1] >= 64                                     \* Insert with Literal Name
        THEN IF name.length = 0 \/ named.length = 0 THEN table
             ELSE Decode(Insert(table, Entry(name.text, named.text)), From(bytes, name.length + named.length + 1))
        ELSE IF bytes[1] >= 32                                     \* Set Dynamic Table Capacity
        THEN IF number(5).length = 0 THEN table ELSE Decode(table, From(bytes, number(5).length + 1))
        ELSE IF number(6).length = 0 THEN table                    \* Duplicate
             ELSE Decode(IF Holds(table, number(6).value) THEN Insert(table, Get(table, number(6).value)) ELSE table,
                         From(bytes, number(6).length + 1))

QpackDecode(ctx, bytes) == [ctx EXCEPT !.rtable = Decode(@, bytes)]

Unreadable == <<Entry(<<Newline>>, <<Newline>>)>>   \* no header is like this one

Then(header, rest) == IF rest = Unreadable THEN Unreadable ELSE header \o rest

(* The headers of a field section.  A dynamic entry is looked up by the       *)
(* number in the reference, whatever its base; a name given by reference is   *)
(* looked up in the static table, whatever the reference says.                *)
RECURSIVE Lines(_, _)
Lines(table, bytes) ==
    LET number(n) == ReadPfxint(n, bytes)
        text(n)   == ReadString(7, From(bytes, number(n).length + 1))
        name      == ReadString(3, bytes)
        named     == ReadString(7, From(bytes, name.length + 1))
        held(id)  == IF Holds(table, id) THEN <<Get(table, id)>> ELSE <<>>
        after(n)  == Lines(table, From(bytes, n + 1))
    IN  IF bytes = <<>> THEN <<>>
        ELSE IF bytes[1] >= 128                                    \* Indexed Field Line
        THEN IF number(6).length = 0 THEN Unreadable
             ELSE Then(IF bytes[1] >= 192 THEN <<Static[number(6).value]>> ELSE held(number(6).value),
                       after(number(6).length))
        ELSE IF bytes[1] >= 64                                     \* Literal with Name Reference
        THEN IF number(4).length = 0 \/ text(4).length = 0 THEN Unreadable
             ELSE Then(<<Entry(Static[number(4).value].name, text(4).text)>>, after(number(4).length + text(4).length))
        ELSE IF bytes[1] >= 32                                     \* Literal with Literal Name
        THEN IF name.length = 0 \/ named.length = 0 THEN Unreadable
             ELSE Then(<<Entry(name.text, named.text)>>, after(name.length + named.length))
        ELSE IF bytes[1] >= 16                                     \* Indexed with Post-Base Index
        THEN IF number(4).length = 0 THEN Unreadable ELSE Then(held(number(4).value), after(number(4).length))
        ELSE IF number(3).length = 0 \/ text(3).length = 0 THEN Unreadable \* Literal with Post-Base Name
             ELSE Then([i \in DOMAIN held(number(3).value) |-> Entry(held(number(3).value)[i].name, text(3).text)],
                       after(number(3).length + text(3).length))

(* Behind the required insert count and the base, which are not used. *)
Process(ctx, bytes) ==
    LET count == ReadPfxint(8, bytes)
        base  == ReadPfxint(7, From(bytes, count.length + 1))
    IN  IF bytes = <<>> \/ count.length = 0 \/ base.length = 0 THEN Unreadable
        ELSE Lines(ctx.rtable, From(bytes, count.length + base.length + 1))
=============================================================================
