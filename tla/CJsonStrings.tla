---------------------------- MODULE CJsonStrings ----------------------------
(***************************************************************************)
(* cJSON.c: what stands between the quotes of a JSON string, and the bytes *)
(* that it means.  A literal is a sequence of units: a byte as it is, an   *)
(* escape of one character, or a \u with the four characters after it.     *)
(* These may be other than hexadecimal digits, but not backslashes; only   *)
(* at the end of a literal there may be fewer.                             *)
(***************************************************************************)
EXTENDS Integers, Sequences, SequencesExt

Quote     == 34
Backslash == 92
NoDigit   == 16

Plain(c) == [tag |-> "plain", c |-> c]
Esc(c)   == [tag |-> "esc", c |-> c]
Uni(d)   == [tag |-> "uni", d |-> d]

(* What a literal is made of.                                              *)
IsUnit(u)    == \/ u.tag \in {"plain", "esc"} /\ u.c \in 1 .. 255
                \/ u.tag = "uni" /\ u.d \in Seq(0 .. NoDigit) /\ Len(u.d) <= 4
IsLiteral(l) ==
    /\ l \in Seq(Range(l)) /\ \A n \in DOMAIN l : IsUnit(l[n])
    /\ \A n \in DOMAIN l : n < Len(l) /\ l[n].tag = "uni" => Len(l[n].d) = 4

(* The escapes of one character (b, f, n, r, t, the quote, the backslash   *)
(* and the slash), and the byte of each.                                   *)
Escapes == [c \in {98, 102, 110, 114, 116, Quote, Backslash, 47} |->
              CASE c = 98 -> 8 [] c = 102 -> 12 [] c = 110 -> 10
                [] c = 114 -> 13 [] c = 116 -> 9 [] OTHER -> c]

Hex(d) == IF d < 10 THEN 48 + d ELSE 87 + d
CharsOf(u) == CASE u.tag = "plain" -> <<u.c>>
                [] u.tag = "esc"   -> <<Backslash, u.c>>
                [] u.tag = "uni"   -> <<Backslash, 117>> \o [n \in DOMAIN u.d |-> Hex(u.d[n])]

Chars(units) == FlattenSeq([n \in DOMAIN units |-> CharsOf(units[n])])

(* The string that a program sees ends at the first null byte.             *)
UpToNull(bytes) ==
    LET end == SelectInSeq(bytes, LAMBDA b : b = 0)
    IN  IF end = 0 THEN bytes ELSE SubSeq(bytes, 1, end - 1)
-----------------------------------------------------------------------------
(* Reading.                                                                *)

(* parse_hex4: what is not four hexadecimal digits counts as zero.         *)
ParseHex4(d) == IF \E n \in 1 .. 4 : d[n] = NoDigit THEN 0
                ELSE 16 * (16 * (16 * d[1] + d[2]) + d[3]) + d[4]

Leading(code)  == code \in 55296 .. 56319
Trailing(code) == code \in 56320 .. 57343

(* Mutant of Pair: the pair is not moved beyond the first plane.           *)
PairInPlane(first, second) == 1024 * (first % 1024) + (second % 1024)

(* The size of the first plane.                                            *)
Plane == 64 * 1024

Pair(first, second) == Plane + 1024 * (first % 1024) + (second % 1024)

Utf8Length(cp) == CASE cp < 128 -> 1 [] cp < 2048 -> 2 [] cp < Plane -> 3 [] OTHER -> 4

(* Six bits of the character in each byte after the first, which is        *)
(* marked; what a byte cannot hold is cut off.                             *)
Utf8(cp) ==
    LET other(c) == 128 + (c % 64)
        one   == cp \div 64
        two   == one \div 64
        three == two \div 64
    IN  CASE Utf8Length(cp) = 1 -> <<cp % 128>>
          [] Utf8Length(cp) = 2 -> <<(192 + one) % 256, other(cp)>>
          [] Utf8Length(cp) = 3 -> <<(224 + two) % 256, other(one), other(cp)>>
          [] Utf8Length(cp) = 4 -> <<(240 + three) % 256, other(two), other(one), other(cp)>>

(* The character of the unit at n and how many units are used; none if the *)
(* string fails there.  A \u fails where the end of the string is nearer   *)
(* than its four digits would be.                                          *)
IsUni(units, n) == n \in DOMAIN units /\ units[n].tag = "uni" /\ Len(units[n].d) = 4
Code(units, n)  == ParseHex4(units[n].d)

Utf16LiteralToUtf8(units, n) ==
    IF ~IsUni(units, n) \/ Trailing(Code(units, n)) THEN [used |-> 0, out |-> << >>]
    ELSE IF ~Leading(Code(units, n)) THEN [used |-> 1, out |-> Utf8(Code(units, n))]
    ELSE IF IsUni(units, n + 1) /\ Trailing(Code(units, n + 1))
         THEN [used |-> 2, out |-> Utf8(Pair(Code(units, n), Code(units, n + 1)))]
         ELSE [used |-> 0, out |-> << >>]

Piece(units, n) ==
    CASE units[n].tag = "plain" -> [used |-> 1, out |-> <<units[n].c>>]
      [] units[n].tag = "uni"   -> Utf16LiteralToUtf8(units, n)
      [] units[n].tag = "esc"   -> IF units[n].c \in DOMAIN Escapes
                                   THEN [used |-> 1, out |-> <<Escapes[units[n].c]>>]
                                   ELSE [used |-> 0, out |-> << >>]

(* parse_string: the bytes that are written, and whether it succeeds.      *)
ParseString(units) ==
    LET from[n \in 1 .. Len(units) + 1] ==
            IF n > Len(units) THEN [ok |-> TRUE, out |-> << >>]
            ELSE LET piece == Piece(units, n)
                 IN  IF piece.used = 0 THEN [ok |-> FALSE, out |-> << >>]
                     ELSE LET rest == from[n + piece.used]
                          IN  [ok |-> rest.ok, out |-> piece.out \o rest.out]
    IN  from[1]

(* The bytes allocated for them: the characters, without the backslashes.  *)
AllocationLength(units) ==
    1 + Len(Chars(units)) - Len(SelectSeq(units, LAMBDA u : u.tag # "plain")) + 1
-----------------------------------------------------------------------------
(* Printing.                                                               *)

Short(b) == {c \in DOMAIN Escapes : Escapes[c] = b /\ c # 47}

(* print_string_ptr: each byte as it is or escaped, up to the first null.  *)
EscapeOf(b) ==
    IF Short(b) # {} THEN Esc(CHOOSE c \in Short(b) : TRUE)
    ELSE IF b < 32 THEN Uni(<<0, 0, b \div 16, b % 16>>)
    ELSE Plain(b)

Escaped(bytes)     == [n \in DOMAIN bytes |-> EscapeOf(bytes[n])]
PrintString(bytes) == Escaped(UpToNull(bytes))

(* The characters that escaping adds, and all that are written.            *)
EscapeCharacters(bytes) ==
    FoldLeft(LAMBDA n, b : n + (IF Short(b) # {} THEN 1 ELSE IF b < 32 THEN 5 ELSE 0),
             0, bytes)

EscapedLength(bytes) == Len(bytes) + EscapeCharacters(bytes)
OutputLength(bytes)  == EscapedLength(UpToNull(bytes))
=============================================================================
