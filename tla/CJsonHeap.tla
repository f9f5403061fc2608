------------------------------ MODULE CJsonHeap ------------------------------
(***************************************************************************)
(* cJSON.c: the items of a document in memory, and the walks over them     *)
(* that building, parsing, printing and looking up share.  A heap maps the *)
(* address of each allocated item to the item: next and prev link it to    *)
(* the members of the same parent, child points to its own first member,   *)
(* ref tells that it shares the members of another item.                   *)
(***************************************************************************)
EXTENDS Lists

CONSTANTS
    NULL,    \* the null pointer
    NoName,  \* for an item that has no name
    Lower    \* Lower[k]: the name k in lower case

(* A heap with one more item.                                              *)
WithItem(h, i, item) == [j \in DOMAIN h \union {i} |-> IF j = i THEN item ELSE h[j]]

(* What the function frees that follows the list from an item and goes     *)
(* down from each.                                                         *)
Freed(h, item) ==
    Reachable({item} \ {NULL},
              [i \in DOMAIN h |-> {h[i].next, IF h[i].ref THEN NULL ELSE h[i].child} \ {NULL}])

(* The list that starts with the child of an item.                         *)
List(h, item) ==
    LET first[n \in 0 .. Cardinality(DOMAIN h)] ==
            IF n = 0 THEN << >>
            ELSE LET l    == first[n - 1]
                     next == IF l = << >> THEN h[item].child ELSE h[Last(l)].next
                 IN  IF next = NULL THEN l ELSE Append(l, next)
    IN  first[Cardinality(DOMAIN h)]

GetArrayItem(h, array, index) ==
    IF index < Len(List(h, array)) THEN List(h, array)[index + 1] ELSE NULL

(* The loop ends at an item without a name when case matters, and passes   *)
(* it when it does not.                                                    *)
GetObjectItem(h, object, string, case) ==
    LET list  == List(h, object)
        stop  == SelectInSeq(list, LAMBDA i :
                    IF case THEN h[i].string \in {string, NoName}
                    ELSE h[i].string # NoName /\ Lower[h[i].string] = Lower[string])
    IN  IF stop = 0 \/ h[list[stop]].string = NoName THEN NULL ELSE list[stop]
=============================================================================
