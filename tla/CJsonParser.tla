---------------------------- MODULE CJsonParser ----------------------------
(***************************************************************************)
(* cJSON.c: cJSON_ParseWithOpts and what it calls, parse_value,            *)
(* parse_array, parse_object and parse_string.  The C stack is a sequence  *)
(* of frames, one for each array and object that is being read.            *)
(*                                                                         *)
(* The text is a sequence of lexemes, at whose bounds the code decides:    *)
(* brackets, comma and colon, white space, the three words, numerals,      *)
(* strings, whatever is none of these, and the null byte at the end.  It   *)
(* is not known before it is read: Supply draws the next lexeme when the   *)
(* parser comes to it, so that only texts that it reads are considered.    *)
(* Each allocation may fail.                                               *)
(***************************************************************************)
EXTENDS CJsonHeap, CJsonStrings

CONSTANTS
    Words,         \* null, false and true
    Numbers,       \* the values of numerals
    Literals,      \* what stands between the quotes of strings
    FirstLiterals, \* bound: the same, of the strings that begin a text
    NestingLimit,  \* CJSON_NESTING_LIMIT
    MaxText,       \* bound: the lexemes of a text, before its end
    MaxFaults      \* bound: the allocations that fail

ASSUME LimitAssumption ==
    NestingLimit \in Nat /\ MaxText \in Nat \ {0} /\ MaxFaults \in Nat

(* Pointers, names and values can be told apart.                           *)
ASSUME NullAssumption ==
    /\ NULL \notin Nat /\ NoName \notin Seq(1 .. 255)
    /\ Words \cap {"invalid", "num", "string", "array", "object"} = {}

(* A literal is made of units.                                             *)
ASSUME LiteralAssumption == \A l \in Literals \union FirstLiterals : IsLiteral(l)

VARIABLES
    text,     \* the lexemes drawn
    require,  \* require_null_terminated
    pc,       \* what the parser does next
    ok,       \* what the function returned that has returned
    offset,   \* the lexeme before which the parser stands
    depth,    \* how deeply nested it is
    stack,    \* the arrays and objects that are being read, the inmost last
    cur,      \* the item that parse_value fills
    heap,     \* the items that are allocated
    copies,   \* the number of strings that are allocated
    root,     \* the document
    faults    \* the allocations that failed

text_vars  == <<text, require>>
parse_vars == <<pc, ok, offset, depth, stack, cur>>
mem_vars   == <<heap, copies, root, faults>>
vars       == <<text_vars, parse_vars, mem_vars>>

Sign(s)   == [kind |-> s]
Blank     == Sign("blank")
Bad       == Sign("bad")
Nul       == Sign("nul")
Word(w)   == [kind |-> "word", word |-> w]
Num(n)    == [kind |-> "num", num |-> n]
Str(lit)  == [kind |-> "str", units |-> lit]

Lexemes == {Sign(s) : s \in {"[", "]", "{", "}", ",", ":"}} \union {Blank, Bad, Nul}
               \union {Word(w) : w \in Words} \union {Num(n) : n \in Numbers}
               \union {Str(lit) : lit \in Literals}
FirstLexemes == Lexemes \union {Str(lit) : lit \in FirstLiterals}

Close == [array |-> "]", object |-> "}"]

NewItem == [next |-> NULL, prev |-> NULL, child |-> NULL, string |-> NoName,
            ref |-> FALSE, type |-> "invalid", value |-> NULL, copy |-> FALSE]

Fresh == CHOOSE i \in 1 .. Cardinality(DOMAIN heap) + 1 : i \notin DOMAIN heap
-----------------------------------------------------------------------------
(* The buffer.                                                             *)

Ended == text # << >> /\ Last(text) = Nul

(* The parser comes to what is not yet drawn.                              *)
Starved == ~Ended /\ \A p \in offset .. Len(text) : text[p] = Blank

(* Mutant of SkipWhitespace: it does not step back from the end.           *)
SkipWhitespaceOver(o) ==
    Min({p \in o .. Len(text) + 1 : p \in DOMAIN text => text[p] \notin {Blank, Nul}})

(* The null byte is white space too; from behind it the code steps back.   *)
SkipWhitespace(o) ==
    LET p == Min({p \in o .. Len(text) + 1 : p \in DOMAIN text => text[p] \notin {Blank, Nul}})
    IN  IF p > Len(text) THEN p - 1 ELSE p

Here    == SkipWhitespace(offset)
Sees(s) == Here \in DOMAIN text /\ text[Here].kind = s

(* Where the code looks at the text.                                       *)
Reading ==
    \/ pc \in {"value", "open", "name", "colon"}
    \/ pc = "return" /\ ok /\ (stack # << >> \/ require)

(* The lexemes that may come next: no numeral follows a numeral, or they   *)
(* would be one, and no blank a blank.                                     *)
Following ==
    IF text = << >> THEN FirstLexemes
    ELSE IF Len(text) = MaxText THEN {Nul}
    ELSE {t \in Lexemes : ~(t.kind = Last(text).kind /\ t.kind \in {"num", "blank"})}

(* The text goes on.                                                       *)
Supply ==
    /\ Reading
    /\ Starved
    /\ \E t \in Following : text' = Append(text, t)
    /\ UNCHANGED <<require, parse_vars, mem_vars>>
-----------------------------------------------------------------------------
(* Results.                                                                *)

Becomes(h, c) == heap' = h /\ copies' = c
SameMemory    == Becomes(heap, copies)

Return(result) == ok' = result /\ pc' = "return"

OwnedStrings(h, S) ==
    Cardinality({i \in S : h[i].copy}) + Cardinality({i \in S : h[i].string # NoName})

(* cJSON_Delete.                                                           *)
Deleted(item) ==
    LET freed == Freed(heap, item)
    IN  Becomes([i \in DOMAIN heap \ freed |-> heap[i]], copies - OwnedStrings(heap, freed))

Fault == faults < MaxFaults /\ faults' = faults + 1

(* Mutant of FailMember: what was read is not deleted.                     *)
FailMemberKept ==
    /\ SameMemory
    /\ stack' = Front(stack)
    /\ Return(FALSE)

(* goto fail in parse_array and parse_object.                              *)
FailMember ==
    /\ Deleted(Last(stack).head)
    /\ stack' = Front(stack)
    /\ Return(FALSE)
-----------------------------------------------------------------------------
Init ==
    /\ text = << >>
    /\ require \in BOOLEAN
    /\ pc = "start"
    /\ ok = FALSE
    /\ offset = 1
    /\ depth = 0
    /\ stack = << >>
    /\ cur = NULL
    /\ heap = << >>
    /\ copies = 0
    /\ root = NULL
    /\ faults = 0

(* cJSON_ParseWithOpts, up to parse_value.                                 *)
Start ==
    /\ pc = "start"
    /\ \/ /\ heap' = WithItem(heap, Fresh, NewItem)
          /\ root' = Fresh
          /\ cur' = Fresh
          /\ pc' = "value"
          /\ UNCHANGED faults
       \/ /\ Fault
          /\ pc' = "done"
          /\ UNCHANGED <<heap, root, cur>>
    /\ UNCHANGED <<text_vars, ok, offset, depth, stack, copies>>

(* A null, false or true.                                                  *)
ParseWord ==
    /\ pc = "value" /\ ~Starved
    /\ Sees("word")
    /\ heap' = [heap EXCEPT ![cur].type = text[Here].word]
    /\ offset' = Here + 1
    /\ Return(TRUE)
    /\ UNCHANGED <<text_vars, depth, stack, cur, copies, root, faults>>

(* parse_number.                                                           *)
ParseNumber ==
    /\ pc = "value" /\ ~Starved
    /\ Sees("num")
    /\ heap' = [heap EXCEPT ![cur].type = "num", ![cur].value = text[Here].num]
    /\ offset' = Here + 1
    /\ Return(TRUE)
    /\ UNCHANGED <<text_vars, depth, stack, cur, copies, root, faults>>

(* A string as a value: memory is allocated before it is read, and freed   *)
(* if it cannot be.                                                        *)
ParseStringValue ==
    /\ pc = "value" /\ ~Starved
    /\ Sees("str")
    /\ LET string == ParseString(text[Here].units)
       IN  \/ /\ string.ok
              /\ Becomes([heap EXCEPT ![cur].type = "string", ![cur].value = UpToNull(string.out),
                                      ![cur].copy = TRUE], copies + 1)
              /\ offset' = Here + 1
              /\ Return(TRUE)
              /\ UNCHANGED faults
           \/ /\ IF string.ok THEN Fault ELSE UNCHANGED faults
              /\ SameMemory
              /\ offset' = Here
              /\ Return(FALSE)
    /\ UNCHANGED <<text_vars, depth, stack, cur, root>>

(* Mutant of TooDeep: one level more than the limit.                       *)
TooDeepLate == depth > NestingLimit

TooDeep     == depth >= NestingLimit
Opens(kind) == IF kind = "array" THEN Sees("[") ELSE Sees("{")

(* The beginning of parse_array and parse_object.                          *)
Open(kind) ==
    /\ pc = "value" /\ ~Starved
    /\ Opens(kind)
    /\ IF TooDeep
       THEN offset' = Here /\ Return(FALSE) /\ UNCHANGED <<depth, stack>>
       ELSE /\ offset' = Here + 1
            /\ depth' = depth + 1
            /\ stack' = Append(stack, [kind |-> kind, item |-> cur, head |-> NULL, last |-> NULL])
            /\ pc' = "open"
            /\ UNCHANGED ok
    /\ UNCHANGED <<text_vars, cur, mem_vars>>

(* Anything else is no value.                                              *)
Reject ==
    /\ pc = "value" /\ ~Starved
    /\ \A s \in {"word", "num", "str", "[", "{"} : ~Sees(s)
    /\ offset' = Here
    /\ Return(FALSE)
    /\ UNCHANGED <<text_vars, depth, stack, cur, mem_vars>>

(* Mutant of Succeed: the depth is counted up only.                        *)
SucceedDeeper ==
    LET frame == Last(stack)
    IN  /\ heap' = [heap EXCEPT ![frame.item].type = frame.kind, ![frame.item].child = frame.head]
        /\ stack' = Front(stack)
        /\ offset' = Here + 1
        /\ Return(TRUE)
        /\ UNCHANGED depth

(* success: the array or object is complete.                               *)
Succeed ==
    LET frame == Last(stack)
    IN  /\ heap' = [heap EXCEPT ![frame.item].type = frame.kind, ![frame.item].child = frame.head]
        /\ stack' = Front(stack)
        /\ depth' = depth - 1
        /\ offset' = Here + 1
        /\ Return(TRUE)

(* Nothing between the brackets, or the first member: the code steps back, *)
(* to go forward again.                                                    *)
FirstMember ==
    /\ pc = "open" /\ ~Starved
    /\ IF Sees(Close[Last(stack).kind]) THEN Succeed
       ELSE /\ offset' = Here - 1
            /\ pc' = "member"
            /\ UNCHANGED <<ok, depth, stack, heap>>
    /\ UNCHANGED <<text_vars, cur, copies, root, faults>>

(* The next member is allocated and linked to the one before.              *)
NewMember ==
    /\ pc = "member"
    /\ \/ LET frame == Last(stack)
              h     == WithItem(heap, Fresh, [NewItem EXCEPT !.prev = frame.last])
          IN  /\ heap' = IF frame.head = NULL THEN h ELSE [h EXCEPT ![frame.last].next = Fresh]
              /\ stack' = [stack EXCEPT ![Len(stack)] =
                              [frame EXCEPT !.last = Fresh,
                                            !.head = IF frame.head = NULL THEN Fresh ELSE frame.head]]
              /\ cur' = Fresh
              /\ offset' = offset + 1
              /\ pc' = IF frame.kind = "array" THEN "value" ELSE "name"
              /\ UNCHANGED <<ok, copies, faults>>
       \/ Fault /\ FailMember /\ UNCHANGED <<offset, cur>>
    /\ UNCHANGED <<text_vars, depth, root>>

(* The name of an object's member: a string, moved to its place.           *)
ParseName ==
    /\ pc = "name" /\ ~Starved
    /\ \/ /\ Sees("str")
          /\ LET string == ParseString(text[Here].units)
             IN  /\ string.ok
                 /\ Becomes([heap EXCEPT ![cur].string = UpToNull(string.out),
                                         ![cur].type = "string"], copies + 1)
          /\ offset' = Here + 1
          /\ pc' = "colon"
          /\ UNCHANGED <<ok, stack, faults>>
       \/ /\ IF Sees("str") /\ ParseString(text[Here].units).ok THEN Fault ELSE UNCHANGED faults
          /\ FailMember
          /\ offset' = Here
    /\ UNCHANGED <<text_vars, depth, cur, root>>

ParseColon ==
    /\ pc = "colon" /\ ~Starved
    /\ IF Sees(":")
       THEN /\ offset' = Here + 1
            /\ pc' = "value"
            /\ SameMemory
            /\ UNCHANGED <<ok, stack>>
       ELSE FailMember /\ offset' = Here
    /\ UNCHANGED <<text_vars, depth, cur, root, faults>>

(* parse_value returns to parse_array or parse_object.                     *)
NextMember ==
    /\ pc = "return" /\ stack # << >>
    /\ ok => ~Starved
    /\ \/ /\ ok
          /\ Sees(",")
          /\ offset' = Here
          /\ pc' = "member"
          /\ SameMemory
          /\ UNCHANGED <<ok, depth, stack>>
       \/ /\ ok
          /\ Sees(Close[Last(stack).kind])
          /\ Succeed
          /\ UNCHANGED copies
       \/ /\ ok => ~Sees(",") /\ ~Sees(Close[Last(stack).kind])
          /\ FailMember
          /\ offset' = IF ok THEN Here ELSE offset
          /\ UNCHANGED depth
    /\ UNCHANGED <<text_vars, cur, root, faults>>

(* The end of cJSON_ParseWithOpts.                                         *)
Finish ==
    /\ pc = "return" /\ stack = << >>
    /\ require /\ ok => ~Starved
    /\ IF ok /\ (require => Sees("nul"))
       THEN SameMemory /\ UNCHANGED root
       ELSE Deleted(root) /\ root' = NULL
    /\ offset' = IF require /\ ok THEN Here ELSE offset
    /\ pc' = "done"
    /\ UNCHANGED <<text_vars, ok, depth, stack, cur, faults>>

Parse ==
    \/ Supply
    \/ Start
    \/ ParseWord
    \/ ParseNumber
    \/ ParseStringValue
    \/ \E kind \in {"array", "object"} : Open(kind)
    \/ Reject
    \/ FirstMember
    \/ NewMember
    \/ ParseName
    \/ ParseColon
    \/ NextMember
    \/ Finish
=============================================================================
