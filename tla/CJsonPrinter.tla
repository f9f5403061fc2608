---------------------------- MODULE CJsonPrinter ----------------------------
(***************************************************************************)
(* cJSON.c: printing an item into a buffer that grows, or that the caller  *)
(* gave.  print_value and the functions under it are a sequence of steps   *)
(* on the buffer: Put reserves room, writes bytes at the offset and moves  *)
(* it, Update moves it to the end of the string that starts there.         *)
(*                                                                         *)
(* The memory of the buffer is cells, Junk where nothing was written; over *)
(* tells that the code went beyond it.                                     *)
(***************************************************************************)
EXTENDS CJsonHeap, CJsonStrings

CONSTANTS
    IntMax,       \* INT_MAX
    DefaultSize,  \* default_buffer_size
    TextOfWord    \* TextOfWord[w]: the bytes of null, true and false

ASSUME SizeAssumption == IntMax \in Nat /\ DefaultSize \in Nat

(* A text has bytes, and none of them is null.                             *)
ASSUME TextAssumption ==
    /\ NULL \notin Seq(Int)
    /\ \A w \in DOMAIN TextOfWord : TextOfWord[w] \in Seq(1 .. 255)

Junk == -1
Cells(n) == [c \in 1 .. n |-> Junk]

Buffer(n, noalloc, fails) ==
    [cells |-> Cells(n), null |-> FALSE, offset |-> 0, noalloc |-> noalloc,
     ok |-> TRUE, over |-> FALSE, allocs |-> 0, fails |-> fails]
Length(b) == Len(b.cells)

(* Whether the next allocation fails: that is the one numbered fails.      *)
OutOfMemory(b) == b.allocs + 1 = b.fails
-----------------------------------------------------------------------------
(* ensure.                                                                 *)

(* Mutant of NewSize: nothing is kept in reserve.                          *)
NewSizeHalf(total) == IF total > IntMax \div 2 THEN IntMax ELSE total \div 2

NewSize(total) == IF total > IntMax \div 2 THEN IntMax ELSE 2 * total

(* The buffer grows, keeping what is before the offset.                    *)
Grow(b, size) ==
    IF OutOfMemory(b) THEN [b EXCEPT !.ok = FALSE, !.null = TRUE, !.cells = << >>]
    ELSE [b EXCEPT !.allocs = @ + 1,
                   !.cells = [c \in 1 .. size |-> IF c <= b.offset + 1 /\ c <= Len(@)
                                                  THEN @[c] ELSE Junk]]

(* Mutant of Ensure: the offset is forgotten.                              *)
EnsureHere(b, needed) ==
    IF needed + 1 <= Length(b) THEN b
    ELSE IF b.noalloc \/ needed + b.offset + 1 > IntMax THEN [b EXCEPT !.ok = FALSE]
    ELSE Grow(b, NewSize(needed + b.offset + 1))

(* Room for more bytes behind the offset, and one.                         *)
Ensure(b, needed) ==
    LET total == needed + b.offset + 1
    IN  IF (Length(b) > 0 /\ b.offset >= Length(b)) \/ needed > IntMax THEN [b EXCEPT !.ok = FALSE]
        ELSE IF total <= Length(b) THEN b
        ELSE IF b.noalloc \/ total > IntMax THEN [b EXCEPT !.ok = FALSE]
        ELSE Grow(b, NewSize(total))
-----------------------------------------------------------------------------
(* Steps.                                                                  *)

Put(needed, bytes, advance) ==
    [step |-> "put", needed |-> needed, bytes |-> bytes, advance |-> advance]
Update     == [step |-> "update"]
Impossible == [step |-> "fail"]

Write(b, bytes) ==
    LET end == b.offset + Len(bytes)
    IN  [b EXCEPT !.over = @ \/ end > Len(b.cells),
                  !.cells = [c \in DOMAIN @ |-> IF c \in b.offset + 1 .. end
                                                THEN bytes[c - b.offset] ELSE @[c]]]

(* update_offset: strlen from the offset on.                               *)
UpdateOffset(b) ==
    LET ends == {c \in b.offset + 1 .. Length(b) : b.cells[c] = 0}
    IN  IF ends = {} THEN [b EXCEPT !.over = TRUE] ELSE [b EXCEPT !.offset = Min(ends) - 1]

Do(b, s) ==
    IF ~b.ok THEN b
    ELSE CASE s.step = "update" -> UpdateOffset(b)
           [] s.step = "fail"   -> [b EXCEPT !.ok = FALSE]
           [] s.step = "put"    ->
                 LET room == Ensure(b, s.needed)
                 IN  IF ~room.ok THEN room
                     ELSE [Write(room, s.bytes) EXCEPT !.offset = @ + s.advance]
-----------------------------------------------------------------------------
(* print_value.                                                            *)

Digits[n \in Nat] == IF n < 10 THEN <<48 + n>> ELSE Digits[n \div 10] \o <<48 + (n % 10)>>

(* print_string_ptr: the quote and the end are written where they are      *)
(* expected, and what is between them before that.                         *)
PutQuoted(n, inside) ==
    Put(n + 3,
        [c \in 1 .. Max({n + 3, Len(inside) + 1}) |->
            CASE c = n + 2 \/ c = 1    -> Quote
              [] c = n + 3             -> 0
              [] c - 1 \in DOMAIN inside /\ c \notin {1, n + 2, n + 3} -> inside[c - 1]
              [] OTHER                 -> Junk],
        0)

PutString(bytes) == PutQuoted(OutputLength(bytes), Chars(PrintString(bytes)))

PutName(string) == IF string = NoName THEN Put(3, <<Quote, Quote, 0>>, 0) ELSE PutString(string)

If(b, s) == IF b THEN s ELSE << >>
Tabs(n)  == [t \in 1 .. n |-> 9]

(* print_array: what comes between two members, and around all.            *)
PrintArray(members, format) ==
    LET gap == If(format, <<32>>)
        Member(n) == members[n] \o <<Update>> \o
                     If(n < Len(members), <<Put(Len(gap) + 2, <<44>> \o gap \o <<0>>, Len(gap) + 1)>>)
    IN  <<Put(1, <<91>>, 1)>> \o FlattenSeq([n \in DOMAIN members |-> Member(n)])
            \o <<Put(2, <<93, 0>>, 0)>>

(* print_object: names, one member to a line and indented if formatted.    *)
PrintObject(names, members, format, depth) ==
    LET one(c)    == <<c>> \o If(format, <<IF c = 123 THEN 10 ELSE 9>>)
        end(n)    == If(n < Len(members), <<44>>) \o If(format, <<10>>)
        Member(n) == If(format, <<Put(depth + 1, Tabs(depth + 1), depth + 1)>>)
                     \o <<PutName(names[n]), Update, Put(Len(one(58)), one(58), Len(one(58)))>>
                     \o members[n]
                     \o <<Update, Put(Len(end(n)) + 1, end(n) \o <<0>>, Len(end(n)))>>
    IN  <<Put(Len(one(123)) + 1, one(123), Len(one(123)))>>
            \o FlattenSeq([n \in DOMAIN members |-> Member(n)])
            \o <<Put(IF format THEN depth + 2 ELSE 2, If(format, Tabs(depth)) \o <<125, 0>>, 0)>>

(* print_value for an item, with the steps for each member.                *)
ItemSteps(h, i, value, format, depth) ==
    LET list    == List(h, i)
        names   == [n \in DOMAIN list |-> h[list[n]].string]
        members == [n \in DOMAIN list |-> value[list[n]]]
    IN  CASE h[i].type \in DOMAIN TextOfWord ->
                <<Put(Len(TextOfWord[h[i].type]) + 1, TextOfWord[h[i].type] \o <<0>>, 0)>>
          [] h[i].type = "num"    -> LET n == Digits[h[i].value]
                                     IN  <<Put(Len(n) + 1, n \o <<0>>, Len(n))>>
          [] h[i].type = "string" -> <<PutString(h[i].value)>>
          [] h[i].type = "array"  -> PrintArray(members, format)
          [] h[i].type = "object" -> PrintObject(names, members, format, depth)
          [] OTHER                -> <<Impossible>>

(* The steps for the items at a depth, from the deepest up.                *)
Steps(h, item, format) ==
    LET deepest == Cardinality(DOMAIN h)
        value[up \in 0 .. deepest] ==
            [i \in DOMAIN h |-> IF up = 0 THEN <<Impossible>>
                                ELSE ItemSteps(h, i, value[up - 1], format, deepest - up)]
    IN  value[deepest][item]

PrintValue(h, item, b, format) == FoldLeft(Do, b, Steps(h, item, format))
-----------------------------------------------------------------------------
(* The three ways to print: the text, NULL if there is none, and whether   *)
(* memory was overrun.                                                     *)

Printed(bytes, over) == [text |-> bytes, over |-> over]
NotPrinted(over) == Printed(NULL, over)

StringIn(b) == UpToNull(b.cells)

(* print, for cJSON_Print and cJSON_PrintUnformatted: the buffer is cut to *)
(* the length of the text.                                                 *)
PrintText(h, item, format, fails) ==
    LET b    == [Buffer(DefaultSize, FALSE, fails) EXCEPT !.allocs = 1]
        done == PrintValue(h, item, b, format)
        cut  == UpdateOffset(done)
    IN  IF fails = 1 THEN NotPrinted(FALSE)
        ELSE IF ~done.ok \/ OutOfMemory(done) THEN NotPrinted(done.over)
        ELSE Printed(SubSeq(cut.cells, 1, cut.offset), cut.over)

(* cJSON_PrintBuffered.                                                    *)
PrintBuffered(h, item, prebuffer, format, fails) ==
    LET b    == [Buffer(prebuffer, FALSE, fails) EXCEPT !.allocs = 1]
        done == PrintValue(h, item, b, format)
    IN  IF fails = 1 THEN NotPrinted(FALSE)
        ELSE IF ~done.ok THEN NotPrinted(done.over)
        ELSE Printed(StringIn(done), done.over)

(* cJSON_PrintPreallocated.                                                *)
PrintPreallocated(h, item, len, format) ==
    LET done == PrintValue(h, item, Buffer(len, TRUE, 0), format)
    IN  IF done.ok THEN Printed(StringIn(done), done.over) ELSE NotPrinted(done.over)
=============================================================================
