---------------------------- MODULE JsonDocument ----------------------------
(***************************************************************************)
(* A document from the text of a reply to its end: it is parsed, fields    *)
(* are looked up by their paths, it is printed (the jsonb column of the    *)
(* foreign table is a printed result) and deleted.                         *)
(***************************************************************************)
EXTENDS CJsonParser, CJsonPrinter, JsonPath

CONSTANTS Prebuffers,  \* sizes of the buffer that cJSON_PrintBuffered starts with
          Slack        \* how much more than it needs a given buffer may have

ASSUME BufferAssumption == Prebuffers \subseteq Nat /\ Slack \subseteq Int

(* Words have their texts, and numbers are printed by their digits.        *)
ASSUME ValueAssumption == DOMAIN TextOfWord = Words /\ Numbers \subseteq Nat

VARIABLE out           \* what was printed
doc_vars == <<vars, out>>

NoOutput == [text |-> NULL, over |-> FALSE, format |-> FALSE]

DocInit == Init /\ out = NoOutput

Step == Parse /\ UNCHANGED out

Reports(printed, format) ==
    /\ pc' = "printed"
    /\ out' = [text |-> printed.text, over |-> printed.over, format |-> format]
    /\ UNCHANGED <<text_vars, ok, offset, depth, stack, cur, heap, copies, root>>

Failing == 0 .. IF faults < MaxFaults THEN 3 ELSE 0

Faults(n) == faults' = IF n = 0 THEN faults ELSE faults + 1

DoPrint(format) ==
    \E n \in Failing : Reports(PrintText(heap, root, format, n), format) /\ Faults(n)

DoPrintBuffered(format) ==
    \E n \in Failing, size \in Prebuffers :
        Reports(PrintBuffered(heap, root, size, format, n), format) /\ Faults(n)

(* The size of the text with its null byte.                                *)
Needed(format) == Len(PrintText(heap, root, format, 0).text) + 1

DoPrintPreallocated(format) ==
    /\ PrintText(heap, root, format, 0).text # NULL
    /\ \E more \in Slack :
          Reports(PrintPreallocated(heap, root, Max({0, Needed(format) + more}), format), format)
    /\ UNCHANGED faults

DeleteDocument ==
    /\ pc \in {"done", "printed"} /\ root # NULL
    /\ Deleted(root)
    /\ root' = NULL
    /\ pc' = "deleted"
    /\ out' = NoOutput
    /\ UNCHANGED <<text_vars, ok, offset, depth, stack, cur, faults>>

DocNext ==
    \/ Step
    \/ /\ pc = "done" /\ root # NULL
       /\ \E format \in BOOLEAN :
             DoPrint(format) \/ DoPrintBuffered(format) \/ DoPrintPreallocated(format)
    \/ DeleteDocument

DocSpec == DocInit /\ [][DocNext]_doc_vars
-----------------------------------------------------------------------------
(* Reference: the grammar of JSON, over the lexemes without the blanks.    *)

Solid(s) == SelectSeq(s, LAMBDA t : t # Blank)

(* A literal is that of a string if its escapes are complete and known and *)
(* its surrogates are paired.  Two rules of JSON, which the parser has not *)
(* got, are left out: that control characters are escaped, and that the    *)
(* digits are hexadecimal.                                                 *)
Hexadecimal(u)     == Len(u.d) = 4 /\ NoDigit \notin Range(u.d)
IsHex(units, n)    == n \in DOMAIN units /\ units[n].tag = "uni" /\ Hexadecimal(units[n])
HighHalf(units, n) == IsHex(units, n) /\ units[n].d[1] = 13 /\ units[n].d[2] \in 8 .. 11
LowHalf(units, n)  == IsHex(units, n) /\ units[n].d[1] = 13 /\ units[n].d[2] \in 12 .. 15

WellFormed(units) ==
    \A n \in DOMAIN units :
        /\ units[n].tag = "esc" => units[n].c \in DOMAIN Escapes
        /\ units[n].tag = "uni" => Len(units[n].d) = 4
        /\ HighHalf(units, n) => LowHalf(units, n + 1)
        /\ LowHalf(units, n) => HighHalf(units, n - 1)

IsString(t) == t.kind = "str" /\ WellFormed(t.units)
IsScalar(t) == t.kind \in {"word", "num"} \/ IsString(t)

(* s is a value: is[kind, i, j] for its lexemes from i to j.               *)
IsJson(s) ==
    LET is[kind \in {"value", "elements", "pair", "pairs"}, i \in 1 .. Len(s) + 1,
           j \in 0 .. Len(s)] ==
            CASE kind = "value" ->
                    \/ i = j /\ IsScalar(s[i])
                    \/ /\ i < j
                       /\ \/ /\ s[i] = Sign("[") /\ s[j] = Sign("]")
                             /\ j = i + 1 \/ is["elements", i + 1, j - 1]
                          \/ /\ s[i] = Sign("{") /\ s[j] = Sign("}")
                             /\ j = i + 1 \/ is["pairs", i + 1, j - 1]
              [] kind = "elements" ->
                    \/ is["value", i, j]
                    \/ \E k \in i + 1 .. j - 1 : /\ s[k] = Sign(",")
                                                 /\ is["value", i, k - 1]
                                                 /\ is["elements", k + 1, j]
              [] kind = "pair" ->
                    i + 2 <= j /\ IsString(s[i]) /\ s[i + 1] = Sign(":") /\ is["value", i + 2, j]
              [] kind = "pairs" ->
                    \/ is["pair", i, j]
                    \/ \E k \in i + 1 .. j - 1 : /\ s[k] = Sign(",")
                                                 /\ is["pair", i, k - 1]
                                                 /\ is["pairs", k + 1, j]
    IN  is["value", 1, Len(s)]

(* How deep the brackets of s are nested.                                  *)
Opening == {"[", "{"}
Matching(kind) == IF kind = "[" THEN Sign("]") ELSE Sign("}")

(* What would close the brackets that are open after s, the inmost first.  *)
Closing(s) ==
    FoldLeft(LAMBDA c, t : IF t.kind \in Opening THEN <<Matching(t.kind)>> \o c
                           ELSE IF c # << >> /\ t = c[1] THEN Tail(c) ELSE c,
             << >>, s)

Nesting(s) == Max({Len(Closing(SubSeq(s, 1, n))) : n \in 0 .. Len(s)})

(* One of these and the closing brackets complete whatever can still       *)
(* become a JSON text.                                                     *)
Null == Word(CHOOSE w \in Words : TRUE)
Fills == {<< >>, <<Null>>, <<Sign(":"), Null>>, <<Str(<< >>), Sign(":"), Null>>}

(* Whether s is, or can be continued to, JSON that is not nested too deep. *)
Viable(s) ==
    LET whole == IF s # << >> /\ Last(s) = Nul THEN {Front(s)}
                 ELSE {s \o fill \o Closing(s) : fill \in Fills}
    IN  \E w \in whole : w # << >> /\ IsJson(w) /\ Nesting(w) <= NestingLimit
-----------------------------------------------------------------------------
(* Reference: the bytes that a text comes to when it is printed.           *)

CharsOfLexeme(t) ==
    CASE t.kind = "word" -> TextOfWord[t.word]
      [] t.kind = "num"  -> Digits[t.num]
      [] t.kind = "str"  -> <<Quote>> \o Chars(PrintString(ParseString(t.units).out)) \o <<Quote>>
      [] OTHER -> <<CASE t.kind = "[" -> 91 [] t.kind = "]" -> 93 [] t.kind = "{" -> 123
                      [] t.kind = "}" -> 125 [] t.kind = "," -> 44 [] t.kind = ":" -> 58>>

Canonical(s) == FlattenSeq([n \in DOMAIN s |-> CharsOfLexeme(s[n])])

(* The lexemes that the document was made from.                            *)
Consumed == SelectSeq(SubSeq(text, 1, offset - 1), LAMBDA t : t \notin {Blank, Nul})

White == {9, 10, 32}
-----------------------------------------------------------------------------
(* Reference: the characters that a string stands for, and UTF-8.          *)

Surrogate(code) == code \in 55296 .. 57343

(* The characters of a literal whose digits are hexadecimal.               *)
Meant(units) ==
    LET code(n) == FoldLeft(LAMBDA c, digit : 16 * c + digit, 0, units[n].d)
        from[n \in 1 .. Len(units) + 2] ==
            IF n > Len(units) THEN << >>
            ELSE CASE units[n].tag = "plain" -> <<units[n].c>> \o from[n + 1]
                   [] units[n].tag = "esc"   -> <<Escapes[units[n].c]>> \o from[n + 1]
                   [] OTHER -> IF HighHalf(units, n)
                               THEN <<65536 + (code(n) - 55296) * 1024
                                            + (code(n + 1) - 56320)>> \o from[n + 2]
                               ELSE <<code(n)>> \o from[n + 1]
    IN  from[1]

(* The character whose bytes b begin at n, where there is one: the         *)
(* shortest form, no surrogate, nothing beyond the last plane.             *)
Decoded(b, n) ==
    LET size == CASE b[n] < 128 -> 1 [] b[n] \in 192 .. 223 -> 2
                  [] b[n] \in 224 .. 239 -> 3 [] OTHER -> 4
        head == CASE size = 1 -> b[n] [] size = 2 -> b[n] - 192
                  [] size = 3 -> b[n] - 224 [] OTHER -> b[n] - 240
        tail == SubSeq(b, n + 1, n + size - 1)
        cp   == FoldLeft(LAMBDA c, x : 64 * c + (x - 128), head, tail)
        low  == CASE size = 1 -> 0 [] size = 2 -> 128 [] size = 3 -> 2048 [] OTHER -> 65536
    IN  [size |-> size, cp |-> cp,
         ok   |-> /\ Len(tail) = size - 1 /\ \A k \in DOMAIN tail : tail[k] \in 128 .. 191
                  /\ cp >= low /\ cp <= 1114111 /\ ~Surrogate(cp)]

Characters(b) ==
    LET from[n \in 1 .. Len(b) + 4] ==
            IF n > Len(b) THEN [ok |-> TRUE, s |-> << >>]
            ELSE LET one  == Decoded(b, n)
                     rest == from[n + one.size]
                 IN  [ok |-> one.ok /\ rest.ok, s |-> <<one.cp>> \o rest.s]
    IN  from[1]
-----------------------------------------------------------------------------
(* Reference: the items that a path names.                                 *)

Position(p, i) == SelectInSeq(List(heap, p), LAMBDA j : j = i) - 1

(* The member of an object that is the first of its name, the element of   *)
(* an array at a position.  A name that is empty or consists of digits is  *)
(* none that a path can tell: it is taken for a position.                  *)
Named(p, segment) ==
    {i \in ToSet(List(heap, p)) :
        \/ /\ heap[p].type = "object" /\ StrToMaybeInt(segment) = -1 /\ heap[i].string = segment
           /\ \A j \in ToSet(List(heap, p)) :
                 heap[j].string = segment => Position(p, i) <= Position(p, j)
        \/ heap[p].type = "array" /\ segment = Digits[Position(p, i)]}

(* The code takes a position in an object too.                             *)
Placed(p, segment) == {i \in ToSet(List(heap, p)) : segment = Digits[Position(p, i)]}

(* The items that are a segment beyond those of S, with those at positions *)
(* in objects or without; the items at the end of a path.                  *)
Beyond(S, segment, placed) ==
    UNION {Named(p, segment) \union IF placed THEN Placed(p, segment) ELSE {} : p \in S}

Reached(path, placed) ==
    FoldLeft(LAMBDA S, segment : Beyond(S, segment, placed), {root}, path)

(* The names of the document, also in lower case, and the positions under  *)
(* ten.                                                                    *)
Segments ==
    LET names == {heap[i].string : i \in DOMAIN heap} \ {NoName}
    IN  {s \in names \union {Lower[s] : s \in names \intersect DOMAIN Lower} : StrToMaybeInt(s) = -1}
            \union {Digits[k] : k \in 0 .. 9}

(* Paths of one or two segments.                                           *)
Paths == {<<a>> : a \in Segments} \union {<<a, b>> : a \in Segments, b \in Segments}
-----------------------------------------------------------------------------
Address == 1 .. MaxText + 1

ItemOK(item) ==
    /\ {item.next, item.prev, item.child} \subseteq DOMAIN heap \union {NULL}
    /\ item.type \in {"invalid", "num", "string", "array", "object"} \union Words
    /\ item.string # NoName => item.string \in Seq(1 .. 255)
    /\ item.type = "num" => item.value \in Numbers
    /\ item.copy => item.value \in Seq(1 .. 255)

(* Every variable has values of its kind; nesting stays within its limit.  *)
TypeOK ==
    /\ text \in Seq(FirstLexemes) /\ Len(text) <= MaxText + 1
    /\ require \in BOOLEAN /\ ok \in BOOLEAN
    /\ pc \in {"start", "value", "open", "member", "name", "colon", "return", "done",
              "printed", "deleted"}
    /\ offset \in 0 .. Len(text) + 1
    /\ depth \in 0 .. NestingLimit
    /\ cur \in Address \union {NULL} /\ root \in DOMAIN heap \union {NULL}
    /\ DOMAIN heap \subseteq Address /\ \A i \in DOMAIN heap : ItemOK(heap[i])
    /\ \A f \in ToSet(stack) :
          /\ f.kind \in {"array", "object"} /\ f.item \in DOMAIN heap
          /\ {f.head, f.last} \subseteq DOMAIN heap \union {NULL}
    /\ copies \in Nat /\ faults \in 0 .. MaxFaults

(* The recursion of parse_value is bounded for every text, as cJSON.h:135  *)
(* says, and by what is open, not by what was read: until parsing fails,   *)
(* the depth that is compared with the limit is that of the C stack, after *)
(* any number of arrays and objects that ended.                            *)
Failed == ~ok /\ pc \in {"return", "done", "printed", "deleted"}

RecursionBounded ==
    /\ Len(stack) <= NestingLimit
    /\ ~Failed => depth = Len(stack)

(* Where the parser looks at a byte there is one: parse_string,            *)
(* parse_array and the end of cJSON_ParseWithOpts read without, or         *)
(* after, a test of the length, also at the end of a text that breaks off. *)
ReadsInside ==
    /\ pc \in {"value", "open", "name", "colon"} /\ ~Starved => Here \in DOMAIN text
    /\ pc = "return" /\ ok /\ stack # << >> /\ ~Starved => Here \in DOMAIN text

(* The first item of the document, and of the lists that are being read.   *)
Top(n) == IF n = 0 THEN root ELSE stack[n].head

(* Wherever parsing fails, and whichever allocation fails, every item is   *)
(* in the document or in the list of just one array or object that is      *)
(* still being read, every string belongs to an item, and nothing is left  *)
(* of a text that was refused or of a document that was deleted.           *)
Owned ==
    LET tree(n) == Freed(heap, Top(n))
        parts   == 0 .. Len(stack)
    IN  /\ DOMAIN heap = UNION {tree(n) : n \in parts}
        /\ \A n, m \in parts : n # m => tree(n) \intersect tree(m) = {}
        /\ copies = OwnedStrings(heap, DOMAIN heap)

(* A text is accepted just if it is JSON (its beginning is, if what        *)
(* follows does not matter) that is nested no deeper than the limit; it is *)
(* refused where it cannot become JSON any more.                           *)
AcceptsJson ==
    pc = "done" /\ faults = 0 =>
        IF root # NULL
        THEN IsJson(Consumed) /\ Nesting(Consumed) <= NestingLimit /\ (require => Ended)
        ELSE ~Viable(Solid(text))

(* What is printed is the text that was parsed, member for member and in   *)
(* its order, whatever the buffer it was printed into; formatting adds     *)
(* only white space.                                                       *)
PrintsWhatWasParsed ==
    out.text # NULL =>
        Canonical(Consumed) = IF out.format
                              THEN SelectSeq(out.text, LAMBDA c : c \notin White)
                              ELSE out.text

(* No print writes, or looks for the end of a string, beyond its buffer,   *)
(* however small that is and wherever growing it fails; and a buffer with  *)
(* five bytes more than needed is enough, as cJSON.h:160 says.             *)
PrintingFits ==
    /\ ~out.over
    /\ pc = "done" /\ root # NULL =>
          \A format \in BOOLEAN :
              PrintText(heap, root, format, 0).text # NULL =>
                  PrintPreallocated(heap, root, Needed(format) + 5, format).text # NULL

(* A string is taken just if its escapes are complete and known and its    *)
(* surrogates are paired; its bytes fit what is allocated for them, and    *)
(* are the UTF-8 of the characters that were written, where the digits of  *)
(* its escapes are hexadecimal.  Printing counts the characters it writes, *)
(* and what it writes reads back as the string up to its first null, which *)
(* is all of it that a program sees.                                       *)
StringsMeanTheirCharacters ==
    text # << >> /\ Last(text).kind = "str" =>
        LET units == Last(text).units
            read  == ParseString(units)
            shown == PrintString(read.out)
        IN  /\ read.ok <=> WellFormed(units)
            /\ read.ok =>
                  /\ Len(read.out) + 1 <= AllocationLength(units)
                  /\ Len(Chars(shown)) = OutputLength(read.out)
                  /\ ParseString(shown) = [ok |-> TRUE, out |-> UpToNull(read.out)]
                  /\ (\A n \in DOMAIN units : units[n].tag = "uni" => Hexadecimal(units[n])) =>
                        Characters(read.out) = [ok |-> TRUE, s |-> Meant(units)]

(* A path of names and of positions under ten finds the item it names, the *)
(* first if several do, and no other; names are told apart by case.        *)
PathsFindTheirItems ==
    pc = "done" /\ root # NULL =>
        \A path \in Paths :
            LET found == GetJsonField(heap, root, path)
                named == Reached(path, FALSE)
            IN  IF named # {} THEN found \in named
                ELSE found \in {NULL} \union Reached(path, TRUE)
=============================================================================
