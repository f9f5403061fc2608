------------------------- MODULE JsonDocumentProofs -------------------------
(***************************************************************************)
(* What holds of the parser for texts of any length: how deeply it calls   *)
(* itself, that it reads within the text, and that it neither loses nor    *)
(* shares an item or a string, whatever is wrong with the text and         *)
(* whichever allocation fails; of the printer, that it stays within its    *)
(* buffer; and of paths, that they find the items they name.               *)
(*                                                                         *)
(* The sections follow what the proof needs: the depth; what cJSON_Delete  *)
(* frees; the shape of the heap while a text is read, a forest with one    *)
(* tree for each list on the stack; what strings come to; the strings that *)
(* items own; the step of each action; the invariant that joins them; for  *)
(* the printer, the steps of an item and what they make of a buffer; for   *)
(* paths, which items have names, and what a segment finds.                *)
(***************************************************************************)
EXTENDS JsonDocument, ListTheorems

IsStack(s) == s \in Seq(Range(s))

(* Between two calls of parse_value an array or object is open.            *)
DepthRight ==
    /\ IsStack(stack)
    /\ depth \in 0 .. NestingLimit
    /\ pc \in {"open", "member", "name", "colon"} => stack # << >>
    /\ Len(stack) <= depth
    /\ ~Failed => depth = Len(stack)
-----------------------------------------------------------------------------
(* What the parser does to its stack.                                      *)

(* An empty stack.                                                         *)
LEMMA Emptied == IsStack(<< >>) /\ Len(<< >>) = 0
BY DEF IsStack

(* A list is a stack.                                                      *)
LEMMA OfItsOwn == ASSUME NEW S, NEW s \in Seq(S) PROVE IsStack(s)
BY DEF IsStack, Range

(* A stack with one more element.                                          *)
LEMMA Pushed ==
    ASSUME NEW s, IsStack(s), NEW x
    PROVE  /\ IsStack(Append(s, x))
           /\ Len(Append(s, x)) = Len(s) + 1
           /\ Append(s, x) # << >>
<1> DEFINE S == Range(s) \union {x}
<1>1. s \in Seq(S)
    BY DEF IsStack
<1>x. x \in S
    OBVIOUS
<1> HIDE DEF S
<1>2. Append(s, x) \in Seq(S) /\ Len(Append(s, x)) = Len(s) + 1 /\ Append(s, x) # << >>
    BY <1>1, <1>x, AppendProperties
<1>q. QED BY <1>2, OfItsOwn

(* A stack without its last element.                                       *)
LEMMA Popped ==
    ASSUME NEW s, IsStack(s), s # << >>
    PROVE  /\ IsStack(Front(s))
           /\ Len(Front(s)) = Len(s) - 1
<1> DEFINE S == Range(s)
<1>1. s \in Seq(S)
    BY DEF IsStack
<1> HIDE DEF S
<1>2. Len(s) \in Nat \ {0}
    BY <1>1, EmptySeq
<1>3. Front(s) \in Seq(S) /\ Len(Front(s)) = Len(s) - 1
    <2>1. \A i \in 1 .. Len(s) - 1 : s[i] \in S
        BY <1>1, <1>2, ElementOfSeq
    <2> DEFINE n == Len(s) - 1
    <2>2. n \in Nat
        BY <1>2
    <2> HIDE DEF n
    <2>3. /\ SubSeq(s, 1, n) \in Seq(S)
          /\ Len(SubSeq(s, 1, n)) = IF 1 <= n THEN n - 1 + 1 ELSE 0
        BY <2>1, <2>2, SubSeqProperties DEF n
    <2>4. Front(s) = SubSeq(s, 1, n)
        BY DEF Front, n
    <2>5. Len(SubSeq(s, 1, n)) = n
        BY <2>2, <2>3
    <2>q. QED BY <2>3, <2>4, <2>5 DEF n
<1>q. QED BY <1>3, OfItsOwn

(* A stack whose last element is another.                                  *)
LEMMA Changed ==
    ASSUME NEW s, IsStack(s), s # << >>, NEW x
    PROVE  LET t == [s EXCEPT ![Len(s)] = x]
           IN  IsStack(t) /\ Len(t) = Len(s) /\ t # << >>
<1> DEFINE S == Range(s) \union {x}
           t == [s EXCEPT ![Len(s)] = x]
<1>1. s \in Seq(S)
    BY DEF IsStack
<1>2. x \in S
    OBVIOUS
<1> HIDE DEF S
<1>3. Len(s) \in Nat \ {0}
    BY <1>1, EmptySeq
<1>4. t \in Seq(S) /\ Len(t) = Len(s)
    BY <1>1, <1>2, <1>3, ExceptSeq
<1>5. t # << >>
    BY <1>3, <1>4, EmptySeq
<1>q. QED BY <1>4, <1>5, OfItsOwn
-----------------------------------------------------------------------------
(* The depth is right at first.                                            *)
LEMMA Initially == DocInit => DepthRight
BY Emptied, LimitAssumption DEF DocInit, Init, DepthRight, Failed

(* An array or object that fails, or ends.                                 *)
LEMMA FailStep ==
    ASSUME DepthRight, stack # << >>, stack' = Front(stack), Return(FALSE), depth' = depth
    PROVE  DepthRight'
BY Popped, LimitAssumption DEF DepthRight, Failed, Return

(* An array or object that ends.                                           *)
LEMMA SucceedStep ==
    ASSUME DepthRight, stack # << >>, ~Failed, stack' = Front(stack), depth' = depth - 1,
           Return(TRUE)
    PROVE  DepthRight'
BY Popped, LimitAssumption DEF DepthRight, Failed, Return

(* A step that leaves the stack as it is.                                  *)
LEMMA SameStack ==
    ASSUME DepthRight, stack' = stack, depth' = depth,
           pc' \in {"open", "member", "name", "colon"} => stack # << >>,
           ~Failed' => ~Failed
    PROVE  DepthRight'
BY DEF DepthRight

(* An array or object that begins.                                         *)
LEMMA OpenStep == DepthRight /\ (\E kind \in {"array", "object"} : Open(kind)) => DepthRight'
<1> SUFFICES ASSUME DepthRight, NEW kind \in {"array", "object"}, Open(kind)
             PROVE  DepthRight'
    OBVIOUS
<1>1. CASE TooDeep
    BY <1>1, SameStack DEF Open, Return, Failed
<1>2. CASE ~TooDeep
    <2> DEFINE frame == [kind |-> kind, item |-> cur, head |-> NULL, last |-> NULL]
    <2>1. depth' = depth + 1 /\ stack' = Append(stack, frame) /\ pc' = "open" /\ ~Failed
        BY <1>2 DEF Open, Failed
    <2>2. depth < NestingLimit
        BY <1>2, LimitAssumption DEF TooDeep, DepthRight
    <2>3. IsStack(stack') /\ Len(stack') = Len(stack) + 1 /\ stack' # << >>
        BY <2>1, Pushed DEF DepthRight
    <2>q. QED BY <2>1, <2>2, <2>3, LimitAssumption DEF DepthRight, Failed, IsStack
<1>q. QED BY <1>1, <1>2

(* A member that begins.                                                   *)
LEMMA NewMemberStep == DepthRight /\ NewMember => DepthRight'
<1> SUFFICES ASSUME DepthRight, NewMember PROVE DepthRight'
    OBVIOUS
<1>1. stack # << >> /\ depth' = depth /\ ~Failed
    BY DEF NewMember, DepthRight, Failed
<1>2. CASE FailMember
    BY <1>1, <1>2, FailStep DEF FailMember
<1>3. CASE ~FailMember
    <2>1. PICK frame : /\ stack' = [stack EXCEPT ![Len(stack)] = frame]
                       /\ pc' \in {"value", "name"}
        BY <1>3 DEF NewMember
    <2>q. QED BY <1>1, <2>1, Changed DEF DepthRight, Failed
<1>q. QED BY <1>2, <1>3

(* A value that is read.                                                   *)
LEMMA ParseStep == DepthRight /\ Parse => DepthRight'
<1> SUFFICES ASSUME DepthRight, Parse PROVE DepthRight'
    OBVIOUS
<1>1. CASE Supply
    BY <1>1, SameStack DEF Supply, parse_vars, Failed, DepthRight
<1>2. CASE Start
    BY <1>2, SameStack DEF Start, Failed
<1>3. CASE ParseWord \/ ParseNumber \/ ParseStringValue \/ Reject
    BY <1>3, SameStack DEF ParseWord, ParseNumber, ParseStringValue, Reject, Return, Failed
<1>4. CASE \E kind \in {"array", "object"} : Open(kind)
    BY <1>4, OpenStep
<1>5. CASE FirstMember
    <2>1. stack # << >> /\ ~Failed
        BY <1>5 DEF FirstMember, DepthRight, Failed
    <2>2. CASE Succeed
        BY <2>1, <2>2, SucceedStep DEF Succeed
    <2>3. CASE ~Succeed
        BY <1>5, <2>1, <2>3, SameStack DEF FirstMember, Failed
    <2>q. QED BY <2>2, <2>3
<1>6. CASE NewMember
    BY <1>6, NewMemberStep
<1>7. CASE ParseName \/ ParseColon
    <2>1. stack # << >> /\ ~Failed /\ depth' = depth
        BY <1>7 DEF ParseName, ParseColon, DepthRight, Failed
    <2>2. CASE FailMember
        BY <2>1, <2>2, FailStep DEF FailMember
    <2>3. CASE ~FailMember
        BY <1>7, <2>1, <2>3, SameStack DEF ParseName, ParseColon, Failed
    <2>q. QED BY <2>2, <2>3
<1>8. CASE NextMember
    <2>1. CASE FailMember /\ depth' = depth
        BY <1>8, <2>1, FailStep DEF NextMember, FailMember
    <2>2. CASE ok /\ Succeed
        BY <1>8, <2>2, SucceedStep DEF NextMember, Succeed, Failed
    <2>3. CASE ok /\ pc' = "member" /\ UNCHANGED <<ok, depth, stack>>
        BY <1>8, <2>3, SameStack DEF NextMember, Failed
    <2>q. QED BY <1>8, <2>1, <2>2, <2>3 DEF NextMember
<1>9. CASE Finish
    BY <1>9, SameStack DEF Finish, Failed
<1>q. QED BY <1>1, <1>2, <1>3, <1>4, <1>5, <1>6, <1>7, <1>8, <1>9 DEF Parse

(* Every step keeps the depth right.                                       *)
LEMMA Inductive == DepthRight /\ [DocNext]_doc_vars => DepthRight'
<1> SUFFICES ASSUME DepthRight, [DocNext]_doc_vars PROVE DepthRight'
    OBVIOUS
<1>1. CASE Step
    BY <1>1, ParseStep DEF Step
<1>2. CASE /\ pc = "done"
           /\ \E format \in BOOLEAN :
                 DoPrint(format) \/ DoPrintBuffered(format) \/ DoPrintPreallocated(format)
    <2>1. pc' = "printed" /\ UNCHANGED <<ok, depth, stack>>
        BY <1>2 DEF DoPrint, DoPrintBuffered, DoPrintPreallocated, Reports
    <2>q. QED BY <1>2, <2>1, SameStack DEF Failed
<1>3. CASE DeleteDocument
    BY <1>3, SameStack DEF DeleteDocument, Failed
<1>4. CASE UNCHANGED doc_vars
    BY <1>4, SameStack DEF doc_vars, vars, parse_vars, Failed, DepthRight
<1>q. QED BY <1>1, <1>2, <1>3, <1>4 DEF DocNext
-----------------------------------------------------------------------------
(* For texts of any length, whatever is nested in them, the parser calls   *)
(* itself no deeper than the limit, and its depth is that of what is open. *)
THEOREM DepthIsBounded == DocSpec => []RecursionBounded
<1>1. DepthRight => RecursionBounded
    BY LimitAssumption DEF DepthRight, RecursionBounded, IsStack
<1>q. QED BY Initially, Inductive, <1>1, PTL DEF DocSpec
-----------------------------------------------------------------------------
(* What cJSON_Delete frees.                                                *)

(* What an item leads to.                                                  *)
After(h, i) == {h[i].next, IF h[i].ref THEN NULL ELSE h[i].child} \ {NULL}

(* What an item leads to is in the heap.                                   *)
Linked(h) == IsFiniteSet(DOMAIN h) /\ \A i \in DOMAIN h : After(h, i) \subseteq DOMAIN h

(* The item, if it is one.                                                 *)
At(r) == {r} \ {NULL}

(* What cJSON_Delete frees is the item and all that its members lead to.   *)
LEMMA FreedIs ==
    ASSUME NEW h, Linked(h), NEW r, At(r) \subseteq DOMAIN h
    PROVE  LET F == Freed(h, r)
           IN  /\ F \subseteq DOMAIN h /\ At(r) \subseteq F
               /\ \A i \in F : After(h, i) \subseteq F
               /\ \A S : At(r) \subseteq S /\ (\A i \in S \cap DOMAIN h : After(h, i) \subseteq S)
                            => F \subseteq S
<1> DEFINE V  == DOMAIN h
           to == [i \in V |-> {h[i].next, IF h[i].ref THEN NULL ELSE h[i].child} \ {NULL}]
<1>1. Freed(h, r) = Reachable(At(r), to)
    BY DEF Freed, At
<1>2. IsFiniteSet(V) /\ At(r) \in SUBSET V /\ to \in [V -> SUBSET V]
    BY DEF Linked, After
<1>3. \A i \in V : to[i] = After(h, i)
    BY DEF After
<1> HIDE DEF V, to
<1> DEFINE F == Reachable(At(r), to)
<1>4. /\ F \in SUBSET V /\ At(r) \subseteq F
      /\ \A i \in F : to[i] \subseteq F
      /\ \A C : At(r) \subseteq C /\ (\A i \in C \cap V : to[i] \subseteq C) => F \subseteq C
    BY <1>2, ReachableIs
<1> HIDE DEF F
<1>5. \A i \in F : After(h, i) \subseteq F
    BY <1>3, <1>4
<1>6. ASSUME NEW S, At(r) \subseteq S, \A i \in S \cap V : After(h, i) \subseteq S
      PROVE  F \subseteq S
    BY <1>3, <1>4, <1>6
<1>q. QED BY <1>1, <1>4, <1>5, <1>6 DEF F, V

(* A set that nothing leads out of has all that is freed.                  *)
LEMMA FreedWithin ==
    ASSUME NEW h, Linked(h), NEW r, At(r) \subseteq DOMAIN h, NEW S, At(r) \subseteq S,
           \A i \in S \cap DOMAIN h : After(h, i) \subseteq S
    PROVE  Freed(h, r) \subseteq S
BY FreedIs

(* Nothing is freed from the null pointer.                                 *)
LEMMA FreedNull == ASSUME NEW h, Linked(h) PROVE Freed(h, NULL) = {}
<1>1. At(NULL) = {}
    BY DEF At
<1> DEFINE e == {}
<1>2. Freed(h, NULL) \subseteq e
    BY <1>1, FreedWithin
<1>q. QED BY <1>2

(* What is freed depends only on what is freed.                            *)
LEMMA FreedSame ==
    ASSUME NEW h, NEW g, Linked(h), Linked(g), NEW r, At(r) \subseteq DOMAIN h,
           \A i \in Freed(h, r) : i \in DOMAIN g /\ After(g, i) = After(h, i)
    PROVE  Freed(g, r) = Freed(h, r)
<1> DEFINE F == Freed(h, r)  G == Freed(g, r)
<1>1. F \subseteq DOMAIN h /\ At(r) \subseteq F /\ \A i \in F : After(h, i) \subseteq F
    BY FreedIs
<1>2. At(r) \subseteq DOMAIN g /\ \A i \in F : After(g, i) = After(h, i)
    BY <1>1
<1>3. At(r) \subseteq G /\ \A i \in G : After(g, i) \subseteq G
    BY <1>2, FreedIs
<1> HIDE DEF F, G
<1>4. G \subseteq F
    <2>1. \A i \in F \cap DOMAIN g : After(g, i) \subseteq F
        BY <1>1, <1>2
    <2>q. QED BY <1>1, <1>2, <2>1, FreedWithin DEF G
<1>5. F \subseteq G
    <2> DEFINE S == F \cap G
    <2>1. \A i \in S \cap DOMAIN h : After(h, i) \subseteq S
        BY <1>1, <1>2, <1>3
    <2>2. At(r) \subseteq S
        BY <1>1, <1>3
    <2> HIDE DEF S
    <2>3. F \subseteq S
        BY <2>1, <2>2, FreedWithin DEF F
    <2>q. QED BY <2>3 DEF S
<1>q. QED BY <1>4, <1>5 DEF F, G

(* The same, with a name for what does not change.                         *)
Keeps(h, g, S) == \A i \in S : i \in DOMAIN g /\ After(g, i) = After(h, i)

LEMMA FreedKept ==
    ASSUME NEW h, NEW g, Linked(h), Linked(g), NEW r, At(r) \subseteq DOMAIN h,
           Keeps(h, g, Freed(h, r))
    PROVE  Freed(g, r) = Freed(h, r)
BY FreedSame DEF Keeps

(* One item leads to what it led to and to another: what is freed is what  *)
(* was, and what is freed from there.                                      *)
LEMMA FreedMore ==
    ASSUME NEW h, NEW g, Linked(h), Linked(g), NEW r, At(r) \subseteq DOMAIN h,
           NEW x \in Freed(h, r), NEW y, At(y) \subseteq DOMAIN g,
           \A i \in Freed(h, r) : /\ i \in DOMAIN g
                                  /\ After(g, i) = IF i = x THEN After(h, i) \union At(y)
                                                   ELSE After(h, i)
    PROVE  Freed(g, r) = Freed(h, r) \union Freed(g, y)
<1> DEFINE F == Freed(h, r)  G == Freed(g, r)  Y == Freed(g, y)
<1>1. F \subseteq DOMAIN h /\ At(r) \subseteq F /\ \A i \in F : After(h, i) \subseteq F
    BY FreedIs
<1>2. /\ At(r) \subseteq DOMAIN g /\ \A i \in F : After(h, i) \subseteq After(g, i)
      /\ \A i \in F : After(g, i) \subseteq After(h, i) \union At(y)
      /\ At(y) \subseteq After(g, x)
    BY <1>1
<1>3. At(r) \subseteq G /\ \A i \in G : After(g, i) \subseteq G
    BY <1>2, FreedIs
<1>4. At(y) \subseteq Y /\ \A i \in Y : After(g, i) \subseteq Y
    BY FreedIs
<1> HIDE DEF F, G, Y
<1>5. G \subseteq F \union Y
    <2> DEFINE S == F \union Y
    <2>1. \A i \in S \cap DOMAIN g : After(g, i) \subseteq S
        BY <1>1, <1>2, <1>4
    <2>2. At(r) \subseteq S
        BY <1>1
    <2> HIDE DEF S
    <2>3. G \subseteq S
        BY <1>2, <2>1, <2>2, FreedWithin DEF G
    <2>q. QED BY <2>3 DEF S
<1>6. F \subseteq G
    <2> DEFINE S == F \cap G
    <2>1. \A i \in S \cap DOMAIN h : After(h, i) \subseteq S
        BY <1>1, <1>2, <1>3
    <2>2. At(r) \subseteq S
        BY <1>1, <1>3
    <2> HIDE DEF S
    <2>3. F \subseteq S
        BY <2>1, <2>2, FreedWithin DEF F
    <2>q. QED BY <2>3 DEF S
<1>7. Y \subseteq G
    <2>1. x \in G
        BY <1>6 DEF F
    <2>2. At(y) \subseteq G
        BY <1>2, <1>3, <2>1
    <2>3. \A i \in G \cap DOMAIN g : After(g, i) \subseteq G
        BY <1>3
    <2>q. QED BY <2>2, <2>3, FreedWithin DEF Y
<1>q. QED BY <1>5, <1>6, <1>7 DEF F, G, Y
-----------------------------------------------------------------------------
(* The shape of the heap while a text is read.                             *)

Types   == {"invalid", "num", "string", "array", "object"} \union Words
Values  == Numbers \union Seq(1 .. 255) \union {NULL}
Strings == Seq(1 .. 255) \union {NoName}

(* An item whose pointers are to items of D.                               *)
Cell(D) == [next : D \union {NULL}, prev : D \union {NULL}, child : D \union {NULL},
            string : Strings, ref : {FALSE}, type : Types, value : Values, copy : BOOLEAN]

HeapOK(h) == /\ IsFiniteSet(DOMAIN h) /\ DOMAIN h \subseteq Nat
             /\ h \in [DOMAIN h -> Cell(DOMAIN h)]

Frames == [kind : {"array", "object"}, item : Nat \union {NULL}, head : Nat \union {NULL},
           last : Nat \union {NULL}]

(* The n-th list that is being read: the document, then the members of     *)
(* each array or object on the stack.  Its first item, its last, and all   *)
(* that is below them.                                                     *)
First(st, r, n)   == IF n = 0 THEN r ELSE st[n].head
Inmost(st, r, n)  == IF n = 0 THEN r ELSE st[n].last
Below(h, st, r, n) == Freed(h, First(st, r, n))

(* What is read next belongs to the last item of the list before.          *)
FrameOK(h, st, r, n) ==
    /\ st[n].item = Inmost(st, r, n - 1) /\ st[n].item # NULL /\ h[st[n].item].child = NULL
    /\ st[n].head = NULL <=> st[n].last = NULL
    /\ st[n].head # NULL => st[n].last \in Below(h, st, r, n) /\ h[st[n].last].next = NULL

(* Every item is below the first item of just one of the lists.            *)
Shape(h, st, r) ==
    /\ HeapOK(h) /\ st \in Seq(Frames)
    /\ \A n \in 0 .. Len(st) : At(First(st, r, n)) \subseteq DOMAIN h
    /\ \A n \in 1 .. Len(st) : FrameOK(h, st, r, n)
    /\ \A i \in DOMAIN h : \E n \in 0 .. Len(st) : i \in Below(h, st, r, n)
    /\ \A n, m \in 0 .. Len(st) : n # m => Below(h, st, r, n) \cap Below(h, st, r, m) = {}
    /\ \A n \in 0 .. Len(st) : \A i \in Below(h, st, r, n) :
          h[i].prev \in Below(h, st, r, n) \union {NULL}
-----------------------------------------------------------------------------
(* A heap of items is linked.                                              *)
LEMMA HeapLinked ==
    ASSUME NEW h, HeapOK(h)
    PROVE  /\ Linked(h) /\ NULL \notin DOMAIN h
           /\ \A i \in DOMAIN h : After(h, i) = At(h[i].next) \union At(h[i].child)
<1>1. \A i \in DOMAIN h : h[i] \in Cell(DOMAIN h)
    BY DEF HeapOK
<1>2. ASSUME NEW i \in DOMAIN h
      PROVE  /\ After(h, i) = At(h[i].next) \union At(h[i].child)
             /\ After(h, i) \subseteq DOMAIN h
    BY <1>1 DEF Cell, After, At
<1>q. QED BY <1>2, NullAssumption DEF HeapOK, Linked

(* What is below each list.                                                *)
LEMMA ShapeLists ==
    ASSUME NEW h, NEW st, NEW r, Shape(h, st, r), NEW n \in 0 .. Len(st)
    PROVE  LET B == Below(h, st, r, n)
           IN  /\ B \subseteq DOMAIN h /\ At(First(st, r, n)) \subseteq B
               /\ \A i \in B : After(h, i) \subseteq B
               /\ Inmost(st, r, n) # NULL => Inmost(st, r, n) \in B
<1>1. Linked(h) /\ At(First(st, r, n)) \subseteq DOMAIN h
    BY HeapLinked DEF Shape
<1>2. LET B == Below(h, st, r, n)
      IN  /\ B \subseteq DOMAIN h /\ At(First(st, r, n)) \subseteq B
          /\ \A i \in B : After(h, i) \subseteq B
    BY <1>1, FreedIs DEF Below
<1>3. Len(st) \in Nat
    BY DEF Shape
<1>4. Inmost(st, r, n) # NULL => Inmost(st, r, n) \in Below(h, st, r, n)
    <2>1. CASE n = 0
        BY <1>2, <2>1 DEF Inmost, First, At
    <2>2. CASE n # 0
        <3>1. n \in 1 .. Len(st)
            BY <1>3, <2>2
        <3>q. QED BY <2>2, <3>1 DEF Shape, FrameOK, Inmost
    <2>q. QED BY <2>1, <2>2
<1>q. QED BY <1>2, <1>4
-----------------------------------------------------------------------------
(* Values change, and no pointer.                                          *)
LEMMA SameShape ==
    ASSUME NEW h, NEW st, NEW r, Shape(h, st, r),
           NEW g, HeapOK(g), DOMAIN g = DOMAIN h,
           \A i \in DOMAIN h : /\ g[i].next = h[i].next /\ g[i].prev = h[i].prev
                               /\ g[i].child = h[i].child
    PROVE  Shape(g, st, r)
<1>1. Linked(h) /\ Linked(g) /\ \A i \in DOMAIN h : After(g, i) = After(h, i)
    BY HeapLinked DEF Shape
<1>2. ASSUME NEW n \in 0 .. Len(st)  PROVE Below(g, st, r, n) = Below(h, st, r, n)
    <2>1. Below(h, st, r, n) \subseteq DOMAIN h
        BY ShapeLists
    <2>2. At(First(st, r, n)) \subseteq DOMAIN h
        BY DEF Shape
    <2>q. QED BY <1>1, <2>1, <2>2, FreedSame DEF Below
<1>3. ASSUME NEW n \in 1 .. Len(st)  PROVE FrameOK(g, st, r, n)
    <2>1. Len(st) \in Nat
        BY DEF Shape
    <2>2. n \in 0 .. Len(st) /\ n - 1 \in 0 .. Len(st)
        BY <2>1
    <2>3. FrameOK(h, st, r, n)
        BY DEF Shape
    <2>4. st[n].item \in DOMAIN h
        <3>1. Inmost(st, r, n - 1) \in Below(h, st, r, n - 1)
            BY <2>2, <2>3, ShapeLists DEF FrameOK
        <3>q. QED BY <2>2, <2>3, <3>1, ShapeLists DEF FrameOK
    <2>5. st[n].head # NULL => st[n].last \in DOMAIN h
        BY <2>2, <2>3, ShapeLists DEF FrameOK
    <2>q. QED BY <1>2, <2>2, <2>3, <2>4, <2>5 DEF FrameOK
<1>4. \A n \in 0 .. Len(st) : Below(h, st, r, n) \subseteq DOMAIN h
    BY ShapeLists
<1>q. QED BY <1>2, <1>3, <1>4 DEF Shape

(* All but the last of a list.                                             *)
LEMMA FrontIs ==
    ASSUME NEW S, NEW s \in Seq(S), s # << >>
    PROVE  /\ Len(s) \in Nat \ {0} /\ Last(s) = s[Len(s)] /\ s[Len(s)] \in S
           /\ Front(s) \in Seq(S) /\ Len(Front(s)) = Len(s) - 1
           /\ \A i \in 1 .. Len(s) - 1 : Front(s)[i] = s[i]
<1>2. Len(s) \in Nat \ {0}
    BY EmptySeq
<1> DEFINE n == Len(s) - 1
<1>3. n \in Nat /\ \A i \in 1 .. n : s[i] \in S
    BY <1>2, ElementOfSeq
<1>4. s[Len(s)] \in S
    BY <1>2, ElementOfSeq
<1>5. Front(s) = SubSeq(s, 1, n)
    BY DEF Front
<1> HIDE DEF n
<1>6. /\ SubSeq(s, 1, n) \in Seq(S) /\ Len(SubSeq(s, 1, n)) = IF 1 <= n THEN n - 1 + 1 ELSE 0
      /\ \A i \in 1 .. n - 1 + 1 : SubSeq(s, 1, n)[i] = s[1 + i - 1]
    BY <1>3, SubSeqProperties
<1>7. /\ Len(SubSeq(s, 1, n)) = n
      /\ \A i \in 1 .. n : SubSeq(s, 1, n)[i] = s[i]
    BY <1>3, <1>6
<1>q. QED BY <1>2, <1>4, <1>5, <1>6, <1>7 DEF n, Last

(* An array or object begins to be read: its list is empty.                *)
LEMMA OpenShape ==
    ASSUME NEW h, NEW st, NEW r, Shape(h, st, r),
           NEW c, c = Inmost(st, r, Len(st)), c # NULL, h[c].child = NULL,
           NEW kind \in {"array", "object"}
    PROVE  Shape(h, Append(st, [kind |-> kind, item |-> c, head |-> NULL, last |-> NULL]), r)
<1> DEFINE k == Len(st)
           f == [kind |-> kind, item |-> c, head |-> NULL, last |-> NULL]
           s == Append(st, f)
<1>1. k \in Nat /\ st \in Seq(Frames) /\ HeapOK(h) /\ Linked(h)
    BY HeapLinked DEF Shape
<1>2. c \in DOMAIN h /\ c \in Nat
    <2>1. k \in 0 .. Len(st)
        BY <1>1
    <2>2. c \in Below(h, st, r, k) /\ Below(h, st, r, k) \subseteq DOMAIN h
        BY <2>1, ShapeLists
    <2>q. QED BY <1>1, <2>2 DEF HeapOK
<1>3. f \in Frames
    BY <1>2 DEF Frames
<1>4. f.kind = kind /\ f.item = c /\ f.head = NULL /\ f.last = NULL
    OBVIOUS
<1> HIDE DEF f
<1>5. /\ s \in Seq(Frames) /\ Len(s) = k + 1 /\ s[k + 1] = f
      /\ \A i \in 1 .. k : s[i] = st[i]
    BY <1>1, <1>3, AppendProperties
<1> HIDE DEF s
<1>6. \A n \in 0 .. k : /\ First(s, r, n) = First(st, r, n) /\ Inmost(s, r, n) = Inmost(st, r, n)
                        /\ Below(h, s, r, n) = Below(h, st, r, n)
    BY <1>1, <1>5 DEF First, Inmost, Below
<1>7. First(s, r, k + 1) = NULL /\ Below(h, s, r, k + 1) = {}
    <2>1. First(s, r, k + 1) = NULL
        BY <1>1, <1>4, <1>5 DEF First
    <2>q. QED BY <1>1, <2>1, FreedNull DEF Below
<1> HIDE DEF k
<1>8. \A n \in 0 .. Len(s) : n \in 0 .. k \/ n = k + 1
    BY <1>1, <1>5
<1>9. ASSUME NEW n \in 1 .. Len(s)  PROVE FrameOK(h, s, r, n)
    <2>1. CASE n \in 1 .. k
        <3>1. n \in 0 .. k /\ n - 1 \in 0 .. k /\ s[n] = st[n] /\ FrameOK(h, st, r, n)
            BY <1>1, <1>5, <2>1 DEF Shape, k
        <3>q. QED BY <1>6, <3>1 DEF FrameOK
    <2>2. CASE n = k + 1
        <3>1. k \in 0 .. k /\ n - 1 = k
            BY <1>1, <2>2
        <3>q. QED BY <1>4, <1>5, <1>6, <2>2, <3>1 DEF FrameOK, k
    <2>q. QED BY <1>1, <1>5, <2>1, <2>2
<1>10. \A n \in 0 .. Len(s) : At(First(s, r, n)) \subseteq DOMAIN h
    BY <1>6, <1>7, <1>8 DEF Shape, At, k
<1>11. \A i \in DOMAIN h : \E n \in 0 .. Len(s) : i \in Below(h, s, r, n)
    BY <1>1, <1>5, <1>6 DEF Shape, k
<1>12. \A n, m \in 0 .. Len(s) : n # m => Below(h, s, r, n) \cap Below(h, s, r, m) = {}
    BY <1>6, <1>7, <1>8 DEF Shape, k
<1>13. \A n \in 0 .. Len(s) : \A i \in Below(h, s, r, n) :
          h[i].prev \in Below(h, s, r, n) \union {NULL}
    BY <1>6, <1>7, <1>8 DEF Shape, k
<1>q. QED BY <1>1, <1>5, <1>9, <1>10, <1>11, <1>12, <1>13 DEF Shape, s, f

(* An array or object is complete: its list becomes its members.           *)
LEMMA CloseShape ==
    ASSUME NEW h, NEW st, NEW r, Shape(h, st, r), st # << >>,
           NEW g, HeapOK(g), DOMAIN g = DOMAIN h,
           \A i \in DOMAIN h : /\ g[i].next = h[i].next /\ g[i].prev = h[i].prev
                               /\ g[i].child = IF i = Last(st).item THEN Last(st).head
                                               ELSE h[i].child
    PROVE  Shape(g, Front(st), r)
<1> DEFINE k == Len(st)
           m == k - 1
           s == Front(st)
           x == st[k].item
           y == st[k].head
<1>1. st \in Seq(Frames) /\ Linked(h) /\ Linked(g) /\ HeapOK(h)
    BY HeapLinked DEF Shape
<1>2. /\ k \in Nat \ {0} /\ m \in Nat /\ k = m + 1 /\ Last(st) = st[k] /\ s \in Seq(Frames)
      /\ Len(s) = m /\ \A i \in 1 .. m : s[i] = st[i]
    BY <1>1, FrontIs
<1> HIDE DEF k, s
<1>i. /\ \A n \in 0 .. m : n \in 0 .. Len(st) /\ n # k /\ (n = 0 \/ n \in 1 .. m)
      /\ \A n \in 0 .. Len(st) : n \in 0 .. m \/ n = k
    <2>1. k \in Nat /\ m \in Nat /\ k = m + 1 /\ Len(st) = k
        BY <1>2 DEF k
    <2> HIDE DEF m
    <2>q. QED BY <2>1
<1>3. \A n \in 0 .. m : /\ n \in 0 .. Len(st) /\ n # k
                        /\ First(s, r, n) = First(st, r, n) /\ Inmost(s, r, n) = Inmost(st, r, n)
    <2> TAKE n \in 0 .. m
    <2>1. n \in 0 .. Len(st) /\ n # k /\ (n = 0 \/ n \in 1 .. m)
        BY <1>i
    <2>2. n # 0 => s[n] = st[n]
        BY <1>2, <2>1
    <2>q. QED BY <2>1, <2>2 DEF First, Inmost
<1>4. /\ k \in 0 .. Len(st) /\ FrameOK(h, st, r, k) /\ First(st, r, k) = y
      /\ \A n \in 0 .. Len(st) : n \in 0 .. m \/ n = k
    <2>1. k \in 1 .. Len(st) /\ k \in 0 .. Len(st) /\ k # 0
        BY <1>2 DEF k
    <2>q. QED BY <1>i, <2>1 DEF Shape, First
<1> HIDE DEF m
<1>m. m \in 0 .. m /\ m \in Nat
    BY <1>2
<1>5. x \in Below(h, st, r, m) /\ x \in DOMAIN h /\ h[x].child = NULL /\ At(y) \subseteq DOMAIN h
    <2>1. x = Inmost(st, r, m) /\ x # NULL /\ h[x].child = NULL
        BY <1>2, <1>4 DEF FrameOK
    <2>q. QED BY <1>3, <1>4, <1>m, <2>1, ShapeLists DEF Shape
<1>6. \A n \in 0 .. Len(st) : /\ Below(h, st, r, n) \subseteq DOMAIN h
                              /\ At(First(st, r, n)) \subseteq DOMAIN h
    BY ShapeLists DEF Shape
<1>7. \A i \in DOMAIN h : After(g, i) = IF i = x THEN After(h, i) \union At(y) ELSE After(h, i)
    <2>1. \A i \in DOMAIN h : /\ After(g, i) = At(g[i].next) \union At(g[i].child)
                              /\ After(h, i) = At(h[i].next) \union At(h[i].child)
        BY <1>1, HeapLinked
    <2>2. At(NULL) = {}
        BY DEF At
    <2>3. x = Last(st).item /\ y = Last(st).head
        BY <1>2
    <2> HIDE DEF x, y
    <2> TAKE i \in DOMAIN h
    <2>4. CASE i = x
        <3>1. g[i].next = h[i].next /\ g[i].child = y /\ h[i].child = NULL
            BY <1>5, <2>3, <2>4
        <3>q. QED BY <2>1, <2>2, <2>4, <3>1
    <2>5. CASE i # x
        <3>1. g[i].next = h[i].next /\ g[i].child = h[i].child
            BY <2>3, <2>5
        <3>q. QED BY ZenonT(60), <2>1, <2>5, <3>1
    <2>q. QED BY <2>4, <2>5
<1> HIDE DEF x, y
<1>8. \A n \in 0 .. Len(st) : n # m => x \notin Below(h, st, r, n)
    BY <1>3, <1>5, <1>m DEF Shape
<1>9. ASSUME NEW n \in 0 .. Len(st), n # m  PROVE Freed(g, First(st, r, n)) = Below(h, st, r, n)
    <2>1. \A i \in Below(h, st, r, n) : i \in DOMAIN g /\ After(g, i) = After(h, i)
        BY <1>6, <1>7, <1>8, <1>9
    <2>q. QED BY <1>1, <1>6, <2>1, FreedSame DEF Below
<1>10. \A n \in 0 .. m : n # m => Below(g, s, r, n) = Below(h, st, r, n)
    BY <1>3, <1>9 DEF Below
<1>11. Below(g, s, r, m) = Below(h, st, r, m) \union Below(h, st, r, k)
    <2>1. Freed(g, y) = Below(h, st, r, k)
        BY <1>2, <1>4, <1>9
    <2>2. m \in 0 .. Len(st)
        BY <1>3, <1>m
    <2>3. \A i \in Below(h, st, r, m) :
              i \in DOMAIN g /\ After(g, i) = IF i = x THEN After(h, i) \union At(y) ELSE After(h, i)
        BY <1>6, <1>7, <2>2
    <2>4. Freed(g, First(st, r, m)) = Below(h, st, r, m) \union Freed(g, y)
        BY <1>1, <1>5, <1>6, <2>2, <2>3, FreedMore DEF Below
    <2>q. QED BY <1>3, <1>m, <2>1, <2>4 DEF Below
<1>12. ASSUME NEW n \in 1 .. Len(s)  PROVE FrameOK(g, s, r, n)
    <2>1. n \in 0 .. m /\ n - 1 \in 0 .. m /\ n - 1 # m /\ s[n] = st[n] /\ n \in 1 .. Len(st)
        BY <1>2, <1>m DEF k
    <2>2. FrameOK(h, st, r, n) /\ n \in 0 .. Len(st) /\ n - 1 \in 0 .. Len(st)
        BY <1>3, <2>1 DEF Shape
    <2>3. st[n].item \in DOMAIN h /\ st[n].item # x
        <3>1. st[n].item \in Below(h, st, r, n - 1)
            BY <2>2, ShapeLists DEF FrameOK
        <3>q. QED BY <1>6, <1>8, <2>1, <2>2, <3>1
    <2>4. st[n].head # NULL => st[n].last \in DOMAIN h
        BY <1>6, <2>2 DEF FrameOK
    <2>5. Below(h, st, r, n) \subseteq Below(g, s, r, n)
        BY <1>10, <1>11, <2>1
    <2>q. QED BY <1>2, <1>3, <2>1, <2>2, <2>3, <2>4, <2>5 DEF FrameOK, x
<1>13. \A n \in 0 .. Len(s) : At(First(s, r, n)) \subseteq DOMAIN g
    BY <1>2, <1>3, <1>6
<1>14. \A i \in DOMAIN g : \E n \in 0 .. Len(s) : i \in Below(g, s, r, n)
    <2> TAKE i \in DOMAIN g
    <2>1. PICK n \in 0 .. Len(st) : i \in Below(h, st, r, n)
        BY DEF Shape
    <2>2. CASE n \in 0 .. m
        BY <1>2, <1>10, <1>11, <2>1, <2>2
    <2>3. CASE n = k
        BY <1>2, <1>11, <1>m, <2>1, <2>3
    <2>q. QED BY <1>4, <2>2, <2>3
<1>15. \A n, l \in 0 .. Len(s) : n # l => Below(g, s, r, n) \cap Below(g, s, r, l) = {}
    <2>1. \A n, l \in 0 .. Len(st) : n # l => Below(h, st, r, n) \cap Below(h, st, r, l) = {}
        BY DEF Shape
    <2>2. \A n \in 0 .. m : n \in 0 .. Len(st) /\ n # k
        BY <1>3
    <2>3. \A n \in 0 .. m : n # m => Below(g, s, r, n) \cap Below(g, s, r, m) = {}
        BY <1>4, <1>10, <1>11, <1>m, <2>1, <2>2
    <2>4. \A n, l \in 0 .. m : n # l /\ n # m /\ l # m => Below(g, s, r, n) \cap Below(g, s, r, l) = {}
        BY <1>10, <2>1, <2>2
    <2>q. QED BY <1>2, <2>3, <2>4
<1>16. \A n \in 0 .. Len(s) : \A i \in Below(g, s, r, n) :
          g[i].prev \in Below(g, s, r, n) \union {NULL}
    <2>1. \A n \in 0 .. Len(st) : \A i \in Below(h, st, r, n) :
              i \in DOMAIN h /\ h[i].prev \in Below(h, st, r, n) \union {NULL}
        BY <1>6 DEF Shape
    <2>2. \A n \in 0 .. Len(st) : \A i \in Below(h, st, r, n) :
              g[i].prev \in Below(h, st, r, n) \union {NULL}
        BY <2>1
    <2>q. QED BY <1>2, <1>3, <1>4, <1>10, <1>11, <1>m, <2>2
<1>q. QED BY <1>2, <1>12, <1>13, <1>14, <1>15, <1>16 DEF Shape, s

(* The list that is being read is deleted.                                 *)
LEMMA DropShape ==
    ASSUME NEW h, NEW st, NEW r, Shape(h, st, r), st # << >>,
           NEW g, g = [i \in DOMAIN h \ Freed(h, Last(st).head) |-> h[i]]
    PROVE  Shape(g, Front(st), r)
<1> DEFINE k == Len(st)
           m == k - 1
           s == Front(st)
           D == DOMAIN h \ Below(h, st, r, k)
<1>1. st \in Seq(Frames) /\ Linked(h) /\ HeapOK(h)
    BY HeapLinked DEF Shape
<1>2. /\ k \in Nat \ {0} /\ m \in Nat /\ k = m + 1 /\ Last(st) = st[k] /\ s \in Seq(Frames)
      /\ Len(s) = m /\ \A i \in 1 .. m : s[i] = st[i]
    BY <1>1, FrontIs
<1> HIDE DEF k, s
<1>i. /\ \A n \in 0 .. m : n \in 0 .. Len(st) /\ n # k /\ (n = 0 \/ n \in 1 .. m)
      /\ \A n \in 0 .. Len(st) : n \in 0 .. m \/ n = k
      /\ k \in 0 .. Len(st) /\ k # 0
    <2>1. k \in Nat /\ m \in Nat /\ k = m + 1 /\ Len(st) = k
        BY <1>2 DEF k
    <2> HIDE DEF m
    <2>q. QED BY <2>1
<1>3. \A n \in 0 .. m : First(s, r, n) = First(st, r, n) /\ Inmost(s, r, n) = Inmost(st, r, n)
    <2> TAKE n \in 0 .. m
    <2>1. n # 0 => s[n] = st[n]
        BY <1>2, <1>i
    <2>q. QED BY <2>1 DEF First, Inmost
<1> HIDE DEF m
<1>4. DOMAIN g = D /\ \A i \in D : g[i] = h[i] /\ i \in DOMAIN h
    <2>1. Freed(h, Last(st).head) = Below(h, st, r, k)
        BY <1>2, <1>i DEF Below, First
    <2>q. QED BY <2>1
<1>5. \A n \in 0 .. m : /\ Below(h, st, r, n) \subseteq D
                        /\ \A i \in Below(h, st, r, n) :
                              /\ At(h[i].next) \subseteq D /\ At(h[i].child) \subseteq D
                              /\ h[i].prev \in D \union {NULL}
    <2> TAKE n \in 0 .. m
    <2>1. Below(h, st, r, n) \subseteq DOMAIN h /\ \A i \in Below(h, st, r, n) :
              After(h, i) \subseteq Below(h, st, r, n)
        BY <1>i, ShapeLists
    <2>2. Below(h, st, r, n) \cap Below(h, st, r, k) = {}
        BY <1>i DEF Shape
    <2>3. \A i \in Below(h, st, r, n) : h[i].prev \in Below(h, st, r, n) \union {NULL}
        BY <1>i DEF Shape
    <2>4. \A i \in Below(h, st, r, n) : After(h, i) = At(h[i].next) \union At(h[i].child)
        BY <1>1, <2>1, HeapLinked DEF Shape
    <2>q. QED BY <2>1, <2>2, <2>3, <2>4
<1>6. \A i \in D : \E n \in 0 .. m : i \in Below(h, st, r, n)
    BY <1>i DEF Shape
<1>7. HeapOK(g)
    <2>1. IsFiniteSet(D) /\ D \subseteq Nat
        BY <1>1, FS_Subset DEF HeapOK
    <2>2. ASSUME NEW i \in D  PROVE g[i] \in Cell(D)
        <3>1. h[i] \in Cell(DOMAIN h) /\ g[i] = h[i]
            BY <1>1, <1>4 DEF HeapOK
        <3>2. At(h[i].next) \subseteq D /\ At(h[i].child) \subseteq D /\ h[i].prev \in D \union {NULL}
            BY <1>5, <1>6
        <3>3. h[i].next \in D \union {NULL} /\ h[i].child \in D \union {NULL}
            BY <3>2 DEF At
        <3> HIDE DEF D
        <3>q. QED BY <3>1, <3>2, <3>3 DEF Cell
    <2>3. g = [i \in DOMAIN g |-> g[i]]
        OBVIOUS
    <2> HIDE DEF D
    <2>q. QED BY <1>4, <2>1, <2>2, <2>3 DEF HeapOK
<1>8. Linked(g)
    BY <1>7, HeapLinked
<1> HIDE DEF D
<1>9. ASSUME NEW n \in 0 .. m  PROVE Below(g, s, r, n) = Below(h, st, r, n)
    <2> DEFINE q == First(st, r, n)
    <2>1. At(q) \subseteq DOMAIN h
        BY <1>i DEF Shape
    <2>2. Keeps(h, g, Freed(h, q))
        BY <1>4, <1>5 DEF After, Below, Keeps
    <2>4. First(s, r, n) = q
        BY <1>3
    <2> HIDE DEF q
    <2>5. Linked(h) /\ Linked(g)
        BY <1>1, <1>8
    <2>3. Freed(g, q) = Freed(h, q)
        BY <2>1, <2>2, <2>5, FreedKept
    <2>q. QED BY <2>3, <2>4 DEF Below, q
<1>10. ASSUME NEW n \in 1 .. Len(s)  PROVE FrameOK(g, s, r, n)
    <2>1. n \in 0 .. m /\ n - 1 \in 0 .. m /\ s[n] = st[n] /\ n \in 1 .. Len(st)
        BY <1>2 DEF k
    <2>2. FrameOK(h, st, r, n) /\ n \in 0 .. Len(st) /\ n - 1 \in 0 .. Len(st)
        BY <1>i, <2>1 DEF Shape
    <2>3. st[n].item \in D
        BY <1>5, <2>1, <2>2, ShapeLists DEF FrameOK
    <2>4. st[n].head # NULL => st[n].last \in D
        BY <1>5, <2>1, <2>2 DEF FrameOK
    <2>q. QED BY <1>3, <1>4, <1>9, <2>1, <2>2, <2>3, <2>4 DEF FrameOK
<1>11. \A n \in 0 .. Len(s) : At(First(s, r, n)) \subseteq DOMAIN g
    <2> TAKE n \in 0 .. Len(s)
    <2>1. n \in 0 .. m /\ n \in 0 .. Len(st)
        BY <1>2, <1>i
    <2>2. At(First(st, r, n)) \subseteq Below(h, st, r, n)
        BY <2>1, ShapeLists
    <2>q. QED BY <1>3, <1>4, <1>5, <2>1, <2>2
<1>12. \A i \in DOMAIN g : \E n \in 0 .. Len(s) : i \in Below(g, s, r, n)
    BY <1>2, <1>4, <1>6, <1>9, ZenonT(40)
<1>13. \A n, l \in 0 .. Len(s) : n # l => Below(g, s, r, n) \cap Below(g, s, r, l) = {}
    <2>1. \A n, l \in 0 .. Len(st) : n # l => Below(h, st, r, n) \cap Below(h, st, r, l) = {}
        BY DEF Shape
    <2>2. \A n, l \in 0 .. m : n # l => Below(h, st, r, n) \cap Below(h, st, r, l) = {}
        BY <1>i, <2>1
    <2>q. QED BY <1>2, <1>9, <2>2
<1>14. \A n \in 0 .. Len(s) : \A i \in Below(g, s, r, n) :
          g[i].prev \in Below(g, s, r, n) \union {NULL}
    <2> TAKE n \in 0 .. Len(s)
    <2>1. n \in 0 .. m /\ n \in 0 .. Len(st)
        BY <1>2, <1>i
    <2>2. \A i \in Below(h, st, r, n) : h[i].prev \in Below(h, st, r, n) \union {NULL}
        BY <2>1 DEF Shape
    <2>q. QED BY <1>4, <1>5, <1>9, <2>1, <2>2
<1>q. QED BY <1>2, <1>7, <1>10, <1>11, <1>12, <1>13, <1>14 DEF Shape, s

(* A new item is added at the end of the list that is being read.          *)
LEMMA GrowShape ==
    ASSUME NEW h, NEW st, NEW r, Shape(h, st, r), st # << >>,
           NEW x \in Nat, x \notin DOMAIN h,
           NEW g, HeapOK(g), DOMAIN g = DOMAIN h \union {x},
           \A i \in DOMAIN h :
               /\ g[i].prev = h[i].prev /\ g[i].child = h[i].child
               /\ g[i].next = IF Last(st).head # NULL /\ i = Last(st).last THEN x ELSE h[i].next,
           g[x].next = NULL, g[x].child = NULL, g[x].prev = Last(st).last,
           NEW f \in Frames, f.item = Last(st).item, f.last = x,
           f.head = IF Last(st).head = NULL THEN x ELSE Last(st).head
    PROVE  Shape(g, [st EXCEPT ![Len(st)] = f], r)
<1> DEFINE k == Len(st)
           s == [st EXCEPT ![k] = f]
           y == st[k].head
           z == st[k].last
           Old(n) == Below(h, st, r, n)
           New(n) == Below(g, s, r, n)
<1>1. st \in Seq(Frames) /\ Linked(h) /\ Linked(g) /\ HeapOK(h) /\ NULL \notin DOMAIN h /\ x # NULL
    BY HeapLinked, NullAssumption DEF Shape
<1>2. /\ k \in Nat \ {0} /\ Last(st) = st[k] /\ s \in Seq(Frames) /\ Len(s) = k /\ s[k] = f
      /\ \A i \in 1 .. k : i # k => s[i] = st[i]
    <2>1. k \in Nat \ {0} /\ Last(st) = st[k]
        BY <1>1, FrontIs
    <2>2. s \in Seq(Frames) /\ Len(s) = k /\ \A i \in 1 .. k : s[i] = IF i = k THEN f ELSE st[i]
        BY <1>1, <2>1, ExceptSeq
    <2>3. k \in 1 .. k
        BY <2>1
    <2>q. QED BY <2>1, <2>2, <2>3
<1> HIDE DEF k, s
<1>3. /\ \A n \in 0 .. Len(st) : n = k \/ n = 0 \/ (n \in 1 .. k /\ n # k)
      /\ k \in 0 .. Len(st) /\ k \in 1 .. Len(st) /\ k # 0 /\ Len(s) = Len(st)
    BY <1>2 DEF k
<1>4. \A n \in 0 .. Len(st) : n # k => /\ First(s, r, n) = First(st, r, n)
                                       /\ Inmost(s, r, n) = Inmost(st, r, n)
    <2> TAKE n \in 0 .. Len(st)
    <2>1. n # 0 /\ n # k => s[n] = st[n]
        BY <1>2, <1>3
    <2>q. QED BY <2>1 DEF First, Inmost
<1>5. /\ FrameOK(h, st, r, k) /\ First(st, r, k) = y /\ First(s, r, k) = f.head
      /\ Inmost(s, r, k) = x
    BY <1>2, <1>3 DEF Shape, First, Inmost
<1>6. \A n \in 0 .. Len(st) : /\ Old(n) \subseteq DOMAIN h /\ At(First(st, r, n)) \subseteq Old(n)
                              /\ Inmost(st, r, n) # NULL => Inmost(st, r, n) \in Old(n)
    BY ShapeLists
<1>7. \A n, l \in 0 .. Len(st) : n # l => Old(n) \cap Old(l) = {}
    BY DEF Shape
<1>y. y # NULL => z \in Old(k) /\ h[z].next = NULL
    BY <1>5 DEF FrameOK
<1>8. \A i \in DOMAIN h : After(g, i) = IF y # NULL /\ i = z THEN After(h, i) \union At(x) ELSE After(h, i)
    <2> TAKE i \in DOMAIN h
    <2>1. After(h, i) = At(h[i].next) \union At(h[i].child)
        BY <1>1, HeapLinked
    <2>2. After(g, i) = At(g[i].next) \union At(g[i].child)
        BY <1>1, HeapLinked
    <2>3. At(NULL) = {}
        BY DEF At
    <2>4. g[i].child = h[i].child
        OBVIOUS
    <2>5. CASE y # NULL /\ i = z
        <3>1. g[i].next = x /\ h[i].next = NULL
            BY <1>2, <1>y, <2>5
        <3>q. QED BY <2>1, <2>2, <2>3, <2>4, <2>5, <3>1
    <2>6. CASE ~(y # NULL /\ i = z)
        <3>1. g[i].next = h[i].next
            BY <1>2, <2>6
        <3>q. QED BY <2>1, <2>2, <2>4, <2>6, <3>1
    <2>q. QED BY <2>5, <2>6
<1>9. Freed(g, x) = {x}
    <2>1. After(g, x) = {}
        <3>1. x \in DOMAIN g
            OBVIOUS
        <3>2. After(g, x) = At(g[x].next) \union At(g[x].child)
            BY <3>1, HeapLinked
        <3>q. QED BY <3>2 DEF At
    <2>2. At(x) = {x}
        BY <1>1 DEF At
    <2> DEFINE e == {x}
    <2>3. At(x) \subseteq e /\ \A i \in e \cap DOMAIN g : After(g, i) \subseteq e
        BY <2>1, <2>2
    <2> HIDE DEF e
    <2>4. Freed(g, x) \subseteq e /\ At(x) \subseteq Freed(g, x)
        BY <1>1, <2>2, <2>3, FreedWithin, FreedIs
    <2>q. QED BY <2>2, <2>4 DEF e
<1>10. ASSUME NEW n \in 0 .. Len(st), n # k  PROVE New(n) = Old(n)
    <2>1. At(First(st, r, n)) \subseteq DOMAIN h
        BY <1>6
    <2>2. \A i \in Old(n) : i \in DOMAIN g /\ After(g, i) = After(h, i)
        <3> TAKE i \in Old(n)
        <3>1. i \in DOMAIN h
            BY <1>6
        <3>2. ~(y # NULL /\ i = z)
            BY <1>3, <1>7, <1>10, <1>y
        <3>q. QED BY <1>8, <3>1, <3>2
    <2>3. Freed(g, First(st, r, n)) = Freed(h, First(st, r, n))
        BY <1>1, <2>1, <2>2, FreedSame DEF Below
    <2>q. QED BY <1>4, <1>10, <2>3 DEF Below
<1>11. New(k) = Old(k) \union {x}
    <2>1. CASE y = NULL
        <3>1. Old(k) = {}
            BY <1>1, <1>5, <2>1, FreedNull DEF Below
        <3>2. New(k) = {x}
            BY <1>2, <1>5, <1>9, <2>1 DEF Below
        <3>q. QED BY <3>1, <3>2
    <2>2. CASE y # NULL
        <3>1. At(y) \subseteq DOMAIN h /\ At(x) \subseteq DOMAIN g /\ z \in Old(k)
            BY <1>3, <1>5, <1>6, <1>y, <2>2 DEF At
        <3>2. \A i \in Old(k) :
                  /\ i \in DOMAIN g
                  /\ After(g, i) = IF i = z THEN After(h, i) \union At(x) ELSE After(h, i)
            <4> TAKE i \in Old(k)
            <4>1. i \in DOMAIN h
                BY <1>3, <1>6
            <4>q. QED BY <1>8, <2>2, <4>1
        <3>3. Old(k) = Freed(h, y)
            BY <1>5 DEF Below
        <3> HIDE DEF y, z
        <3>4. Freed(g, y) = Freed(h, y) \union Freed(g, x)
            BY <1>1, <3>1, <3>2, <3>3, FreedMore
        <3>5. New(k) = Freed(g, y)
            BY <1>2, <1>5, <2>2 DEF Below, y
        <3>q. QED BY <1>9, <3>3, <3>4, <3>5
    <2>q. QED BY <2>1, <2>2
<1>12. ASSUME NEW n \in 1 .. Len(s)  PROVE FrameOK(g, s, r, n)
    <2>1. n \in 0 .. Len(st) /\ n - 1 \in 0 .. Len(st) /\ n - 1 # k /\ n \in 1 .. Len(st)
        BY <1>2, <1>3 DEF k
    <2>2. FrameOK(h, st, r, n)
        BY <2>1 DEF Shape
    <2>3. st[n].item = Inmost(s, r, n - 1) /\ st[n].item \in DOMAIN h
        BY <1>4, <1>6, <2>1, <2>2 DEF FrameOK
    <2>4. g[st[n].item].child = NULL /\ st[n].item # NULL
        BY <2>2, <2>3 DEF FrameOK
    <2>5. CASE n # k
        <3>1. s[n] = st[n]
            BY <1>2, <1>3, <2>1, <2>5
        <3>2. st[n].head # NULL => st[n].last \in Old(n) /\ h[st[n].last].next = NULL
            BY <2>2 DEF FrameOK
        <3>3. st[n].head # NULL => g[st[n].last].next = NULL
            <4> HAVE st[n].head # NULL
            <4>1. st[n].last \in DOMAIN h
                BY <1>6, <2>1, <3>2
            <4>2. ~(y # NULL /\ st[n].last = z)
                BY <1>3, <1>7, <1>y, <2>1, <2>5, <3>2
            <4>q. QED BY <1>2, <3>2, <4>1, <4>2
        <3>q. QED BY <1>10, <2>1, <2>2, <2>3, <2>4, <2>5, <3>1, <3>2, <3>3 DEF FrameOK
    <2>6. CASE n = k
        <3>1. s[n] = f /\ f.item = st[n].item /\ f.head # NULL /\ f.last # NULL
            BY <1>1, <1>2, <2>6
        <3>2. f.last \in New(n) /\ g[f.last].next = NULL
            BY <1>11, <2>6
        <3>q. QED BY <2>3, <2>4, <3>1, <3>2 DEF FrameOK
    <2>q. QED BY <2>5, <2>6
<1>13. \A n \in 0 .. Len(s) : At(First(s, r, n)) \subseteq DOMAIN g
    <2> TAKE n \in 0 .. Len(s)
    <2>1. CASE n # k
        BY <1>3, <1>4, <1>6, <2>1
    <2>2. CASE n = k
        <3>1. f.head = x \/ f.head = First(st, r, k)
            BY <1>2, <1>5
        <3>2. At(x) \subseteq DOMAIN g /\ At(First(st, r, k)) \subseteq DOMAIN h
            BY <1>3, <1>6 DEF At
        <3>q. QED BY <1>5, <2>2, <3>1, <3>2
    <2>q. QED BY <2>1, <2>2
<1>14. \A i \in DOMAIN g : \E n \in 0 .. Len(s) : i \in New(n)
    <2> TAKE i \in DOMAIN g
    <2>1. CASE i = x
        BY <1>3, <1>11, <2>1
    <2>2. CASE i \in DOMAIN h
        <3>1. PICK n \in 0 .. Len(st) : i \in Old(n)
            BY <2>2 DEF Shape
        <3>2. i \in New(n)
            BY <1>10, <1>11, <3>1
        <3>q. QED BY <1>3, <3>2
    <2>q. QED BY <2>1, <2>2
<1>15. \A n, l \in 0 .. Len(s) : n # l => New(n) \cap New(l) = {}
    <2>1. \A n \in 0 .. Len(st) : x \notin Old(n)
        BY <1>6
    <2>2. \A n \in 0 .. Len(st) : New(n) = IF n = k THEN Old(n) \union {x} ELSE Old(n)
        BY <1>10, <1>11
    <2> HIDE DEF Old, New
    <2>q. QED BY <1>3, <1>7, <2>1, <2>2
<1>16. \A n \in 0 .. Len(s) : \A i \in New(n) : g[i].prev \in New(n) \union {NULL}
    <2> TAKE n \in 0 .. Len(s)
    <2> TAKE i \in New(n)
    <2>1. \A j \in Old(n) : j \in DOMAIN h /\ g[j].prev \in Old(n) \union {NULL}
        <3>1. \A j \in Old(n) : j \in DOMAIN h
            BY <1>3, <1>6
        <3>2. \A j \in Old(n) : h[j].prev \in Old(n) \union {NULL}
            BY <1>3 DEF Shape
        <3>q. QED BY <3>1, <3>2
    <2>2. CASE i \in Old(n)
        BY <1>3, <1>10, <1>11, <2>1, <2>2
    <2>3. CASE i \notin Old(n)
        <3>1. n = k /\ i = x
            BY <1>3, <1>10, <1>11, <2>3
        <3>2. g[x].prev = z
            BY <1>2
        <3>3. z = NULL \/ z \in Old(k)
            BY <1>5, <1>y DEF FrameOK
        <3>q. QED BY <1>11, <3>1, <3>2, <3>3
    <2>q. QED BY <2>2, <2>3
<1>q. QED BY <1>2, <1>12, <1>13, <1>14, <1>15, <1>16 DEF Shape, s, k

(* The same, with names for what changes.                                  *)
Extends(g, h, st, x) ==
    /\ DOMAIN g = DOMAIN h \union {x}
    /\ \A i \in DOMAIN h :
          /\ g[i].prev = h[i].prev /\ g[i].child = h[i].child
          /\ g[i].next = IF Last(st).head # NULL /\ i = Last(st).last THEN x ELSE h[i].next
    /\ g[x].next = NULL /\ g[x].child = NULL /\ g[x].prev = Last(st).last

Lengthens(f, st, x) ==
    /\ f \in Frames /\ f.item = Last(st).item /\ f.last = x
    /\ f.head = IF Last(st).head = NULL THEN x ELSE Last(st).head

LEMMA ExtendsShape ==
    ASSUME NEW h, NEW st, NEW r, Shape(h, st, r), st # << >>, NEW x \in Nat, x \notin DOMAIN h,
           NEW g, HeapOK(g), Extends(g, h, st, x), NEW f, Lengthens(f, st, x)
    PROVE  Shape(g, [st EXCEPT ![Len(st)] = f], r)
BY ZenonT(60), GrowShape DEF Extends, Lengthens

(* Nothing is allocated.                                                   *)
LEMMA EmptyShape ==
    ASSUME NEW h, DOMAIN h = {} PROVE Shape(h, << >>, NULL)
<1> DEFINE e == << >>
<1>1. e \in Seq(Frames) /\ Len(e) = 0
    OBVIOUS
<1>2. HeapOK(h)
    <2>1. \A i \in DOMAIN h : h[i] \in Cell(DOMAIN h)
        OBVIOUS
    <2>2. h \in [DOMAIN h -> Cell(DOMAIN h)]
        BY <2>1
    <2>q. QED BY <2>2, FS_EmptySet DEF HeapOK
<1>3. Linked(h)
    BY <1>2, HeapLinked
<1> HIDE DEF e
<1>4. \A n \in 0 .. Len(e) : n = 0
    BY <1>1
<1>5. First(e, NULL, 0) = NULL /\ Below(h, e, NULL, 0) = {} /\ At(NULL) = {}
    BY <1>3, FreedNull DEF First, Below, At
<1>6. \A n \in 1 .. Len(e) : FALSE
    BY <1>1
<1>q. QED BY <1>1, <1>2, <1>4, <1>5, <1>6 DEF Shape, e

(* One item is allocated: the document.                                    *)
LEMMA StartShape ==
    ASSUME NEW h, HeapOK(h), NEW x \in Nat, DOMAIN h = {x},
           h[x].next = NULL, h[x].child = NULL, h[x].prev = NULL
    PROVE  Shape(h, << >>, x)
<1> DEFINE e == << >>
<1>1. e \in Seq(Frames) /\ Len(e) = 0
    OBVIOUS
<1>2. Linked(h) /\ x # NULL /\ At(x) = {x}
    BY HeapLinked, NullAssumption DEF At
<1> HIDE DEF e
<1>3. \A n \in 0 .. Len(e) : n = 0
    BY <1>1
<1>4. 0 \in 0 .. Len(e)
    BY <1>1
<1>5. \A n \in 1 .. Len(e) : FALSE
    BY <1>1
<1>6. First(e, x, 0) = x
    BY DEF First
<1>7. Below(h, e, x, 0) = {x}
    <2>1. Freed(h, x) \subseteq DOMAIN h /\ At(x) \subseteq Freed(h, x)
        BY <1>2, FreedIs
    <2>q. QED BY <1>2, <1>6, <2>1 DEF Below
<1>8. \A n, m \in 0 .. Len(e) : n # m => Below(h, e, x, n) \cap Below(h, e, x, m) = {}
    BY <1>3
<1>q. QED BY <1>1, <1>2, <1>3, <1>4, <1>5, <1>6, <1>7, <1>8 DEF Shape, e
-----------------------------------------------------------------------------
(* What strings come to.                                                   *)

(* Four digits are a number.                                               *)
LEMMA HexIs == ASSUME NEW d \in Seq(0 .. NoDigit), Len(d) = 4 PROVE ParseHex4(d) \in Nat
<1>1. \A n \in 1 .. 4 : d[n] \in Nat
    <2>1. \A n \in 1 .. 4 : d[n] \in 0 .. NoDigit
        BY ElementOfSeq
    <2>q. QED BY SMTT(30), <2>1 DEF NoDigit
<1>2. d[1] \in Nat /\ d[2] \in Nat /\ d[3] \in Nat /\ d[4] \in Nat
    BY <1>1
<1>3. ParseHex4(d) = 0 \/ ParseHex4(d) = 16 * (16 * (16 * d[1] + d[2]) + d[3]) + d[4]
    BY DEF ParseHex4
<1>4. \A a, b, c, e \in Nat : 16 * (16 * (16 * a + b) + c) + e \in Nat
    OBVIOUS
<1>q. QED BY <1>2, <1>3, <1>4

(* The bytes of a character.                                               *)
LEMMA Utf8Is == ASSUME NEW cp \in Nat PROVE Utf8(cp) \in Seq(0 .. 255)
<1> DEFINE one == cp \div 64  two == one \div 64  three == two \div 64
           other(c) == 128 + (c % 64)
<1>1. one \in Nat /\ two \in Nat /\ three \in Nat
    OBVIOUS
<1>2. \A c \in Nat : other(c) \in 0 .. 255
    OBVIOUS
<1>3. cp % 128 \in 0 .. 255 /\ \A c \in Nat : c % 256 \in 0 .. 255
    OBVIOUS
<1>4. Utf8Length(cp) \in {1, 2, 3, 4}
    BY DEF Utf8Length
<1>5. Utf8(cp) = CASE Utf8Length(cp) = 1 -> <<cp % 128>>
          [] Utf8Length(cp) = 2 -> <<(192 + one) % 256, other(cp)>>
          [] Utf8Length(cp) = 3 -> <<(224 + two) % 256, other(one), other(cp)>>
          [] Utf8Length(cp) = 4 -> <<(240 + three) % 256, other(two), other(one), other(cp)>>
    BY DEF Utf8
<1>6. /\ (192 + one) % 256 \in 0 .. 255 /\ (224 + two) % 256 \in 0 .. 255
      /\ (240 + three) % 256 \in 0 .. 255
    BY <1>1, <1>3
<1>7. other(cp) \in 0 .. 255 /\ other(one) \in 0 .. 255 /\ other(two) \in 0 .. 255
    BY <1>1, <1>2
<1> DEFINE B == 0 .. 255
           a1 == cp % 128  a2 == (192 + one) % 256  a3 == (224 + two) % 256
           a4 == (240 + three) % 256  b1 == other(cp)  b2 == other(one)  b3 == other(two)
<1>8. /\ a1 \in B /\ a2 \in B /\ a3 \in B /\ a4 \in B /\ b1 \in B /\ b2 \in B /\ b3 \in B
      /\ Utf8(cp) \in {<<a1>>, <<a2, b1>>, <<a3, b2, b1>>, <<a4, b3, b2, b1>>}
    <2>1. /\ Utf8Length(cp) = 1 => Utf8(cp) = <<a1>>
          /\ Utf8Length(cp) = 2 => Utf8(cp) = <<a2, b1>>
          /\ Utf8Length(cp) = 3 => Utf8(cp) = <<a3, b2, b1>>
          /\ Utf8Length(cp) = 4 => Utf8(cp) = <<a4, b3, b2, b1>>
        <3> HIDE DEF a1, a2, a3, a4, b1, b2, b3
        <3>q. QED BY <1>5 DEF a1, a2, a3, a4, b1, b2, b3
    <2>q. QED BY <1>3, <1>4, <1>6, <1>7, <2>1
<1> HIDE DEF B, a1, a2, a3, a4, b1, b2, b3
<1>9. Utf8(cp) \in Seq(B)
    <2>1. /\ <<a1>> \in Seq(B) /\ <<a2, b1>> \in Seq(B) /\ <<a3, b2, b1>> \in Seq(B)
          /\ <<a4, b3, b2, b1>> \in Seq(B)
        BY <1>8
    <2>q. QED BY <1>8, <2>1
<1>q. QED BY <1>9 DEF B

(* The bytes of two surrogates.                                            *)
LEMMA PairIs == ASSUME NEW a \in Nat, NEW b \in Nat PROVE Pair(a, b) \in Nat
<1>1. a % 1024 \in Nat /\ b % 1024 \in Nat
    OBVIOUS
<1>2. Plane \in Nat
    BY DEF Plane
<1>q. QED BY <1>1, <1>2 DEF Pair

(* An escape stands for a byte.                                            *)
LEMMA EscapeMeans == ASSUME NEW c \in DOMAIN Escapes PROVE Escapes[c] \in 0 .. 255
<1>1. c \in {98, 102, 110, 114, 116, 34, 92, 47}
    BY DEF Escapes, Quote, Backslash
<1>2. Escapes[c] \in {8, 9, 10, 12, 13, c}
    BY DEF Escapes
<1>q. QED BY <1>1, <1>2

(* One unit, or two, are taken, and make bytes.                            *)
LEMMA PieceIs ==
    ASSUME NEW l, IsLiteral(l), NEW n \in 1 .. Len(l)
    PROVE  /\ Piece(l, n).used \in {0, 1, 2} /\ Piece(l, n).out \in Seq(0 .. 255)
           /\ n + Piece(l, n).used <= Len(l) + 1
<1> DEFINE B == 0 .. 255
           None == [used |-> 0, out |-> << >>]
<1>1. Len(l) \in Nat /\ DOMAIN l = 1 .. Len(l) /\ n \in DOMAIN l /\ IsUnit(l[n])
    BY DEF IsLiteral
<1>2. \A x \in B : <<x>> \in Seq(B)
    OBVIOUS
<1>3. << >> \in Seq(B)
    OBVIOUS
<1>n. n + 0 <= Len(l) + 1 /\ n + 1 <= Len(l) + 1
    BY <1>1
<1>4. CASE l[n].tag = "plain"
    <2>1. l[n].c \in B
        BY <1>1, <1>4 DEF IsUnit
    <2>2. Piece(l, n).used = 1 /\ Piece(l, n).out = <<l[n].c>>
        BY <1>4 DEF Piece
    <2> HIDE DEF B
    <2>q. QED BY <1>2, <1>n, <2>1, <2>2 DEF B
<1>5. CASE l[n].tag = "esc"
    <2>1. CASE l[n].c \in DOMAIN Escapes
        <3>1. Escapes[l[n].c] \in B
            BY <2>1, EscapeMeans
        <3>2. Piece(l, n).used = 1 /\ Piece(l, n).out = <<Escapes[l[n].c]>>
            BY <1>5, <2>1 DEF Piece
        <3> HIDE DEF B
        <3>q. QED BY <1>2, <1>n, <3>1, <3>2 DEF B
    <2>2. CASE l[n].c \notin DOMAIN Escapes
        <3>1. Piece(l, n).used = 0 /\ Piece(l, n).out = << >>
            BY <1>5, <2>2 DEF Piece
        <3>q. QED BY <1>3, <1>n, <3>1
    <2>q. QED BY <2>1, <2>2
<1>6. CASE l[n].tag = "uni"
    <2>1. ASSUME NEW m \in Nat, IsUni(l, m)  PROVE Code(l, m) \in Nat
        <3>1. m \in DOMAIN l /\ l[m].tag = "uni" /\ Len(l[m].d) = 4 /\ IsUnit(l[m])
            BY <2>1 DEF IsUni, IsLiteral
        <3>2. l[m].d \in Seq(0 .. NoDigit)
            BY <3>1 DEF IsUnit
        <3>q. QED BY <3>1, <3>2, HexIs DEF Code
    <2> DEFINE u == Utf16LiteralToUtf8(l, n)
               one == Code(l, n)
               two == Pair(Code(l, n), Code(l, n + 1))
    <2>2. Piece(l, n) = u
        BY <1>6 DEF Piece
    <2>3. \/ u = None
          \/ IsUni(l, n) /\ u = [used |-> 1, out |-> Utf8(one)]
          \/ /\ IsUni(l, n) /\ IsUni(l, n + 1)
             /\ u = [used |-> 2, out |-> Utf8(two)]
        BY DEF Utf16LiteralToUtf8
    <2>4. IsUni(l, n) => one \in Nat
        BY <1>1, <2>1
    <2>5. IsUni(l, n) /\ IsUni(l, n + 1) => two \in Nat /\ n + 2 <= Len(l) + 1
        <3> HAVE IsUni(l, n) /\ IsUni(l, n + 1)
        <3>1. n + 1 \in 1 .. Len(l)
            BY <1>1 DEF IsUni
        <3>2. Code(l, n) \in Nat /\ Code(l, n + 1) \in Nat
            BY <2>1, <3>1
        <3>3. two \in Nat
            BY <3>2, PairIs
        <3>4. n + 2 <= Len(l) + 1
            BY <1>1, <3>1
        <3>q. QED BY <3>3, <3>4
    <2> HIDE DEF u, one, two
    <2>6. CASE u = None
        BY <1>3, <1>n, <2>2, <2>6
    <2>7. CASE IsUni(l, n) /\ u = [used |-> 1, out |-> Utf8(one)]
        BY <1>n, <2>2, <2>4, <2>7, Utf8Is
    <2>8. CASE /\ IsUni(l, n) /\ IsUni(l, n + 1)
               /\ u = [used |-> 2, out |-> Utf8(two)]
        BY <2>2, <2>5, <2>8, Utf8Is
    <2>q. QED BY <2>3, <2>6, <2>7, <2>8
<1>q. QED BY <1>1, <1>4, <1>5, <1>6 DEF IsUnit

(* parse_string writes bytes.                                              *)
LEMMA ParseStringIs ==
    ASSUME NEW l, IsLiteral(l)
    PROVE  /\ ParseString(l).ok \in BOOLEAN /\ ParseString(l).out \in Seq(0 .. 255)
<1> DEFINE k == Len(l)
           R == [ok : BOOLEAN, out : Seq(0 .. 255)]
           Value(n, rest) == [ok |-> rest.ok, out |-> Piece(l, n).out \o rest.out]
           No == [ok |-> FALSE, out |-> << >>]
           Yes == [ok |-> TRUE, out |-> << >>]
           Right(f, n) == IF n > Len(l) THEN [ok |-> TRUE, out |-> << >>]
                          ELSE LET piece == Piece(l, n)
                               IN  IF piece.used = 0 THEN [ok |-> FALSE, out |-> << >>]
                                   ELSE LET rest == f[n + piece.used]
                                        IN  [ok |-> rest.ok, out |-> piece.out \o rest.out]
           Solves(f) == f = [n \in 1 .. Len(l) + 1 |->
               IF n > Len(l) THEN [ok |-> TRUE, out |-> << >>]
               ELSE LET piece == Piece(l, n)
                    IN  IF piece.used = 0 THEN [ok |-> FALSE, out |-> << >>]
                        ELSE LET rest == f[n + piece.used]
                             IN  [ok |-> rest.ok, out |-> piece.out \o rest.out]]
           from == CHOOSE f : Solves(f)
<1>1. k \in Nat
    BY DEF IsLiteral
<1>2. \A n \in 1 .. k : /\ Piece(l, n).used \in {0, 1, 2} /\ Piece(l, n).out \in Seq(0 .. 255)
                         /\ n + Piece(l, n).used <= k + 1
    BY PieceIs
<1>3. No \in R /\ Yes \in R
    OBVIOUS
<1>4. \A n \in 1 .. k, rest \in R : Value(n, rest) \in R
    <2> TAKE n \in 1 .. k, rest \in R
    <2>1. Piece(l, n).out \in Seq(0 .. 255) /\ rest.out \in Seq(0 .. 255) /\ rest.ok \in BOOLEAN
        BY <1>2
    <2>2. Piece(l, n).out \o rest.out \in Seq(0 .. 255)
        BY <2>1
    <2>q. QED BY <2>1, <2>2
<1>5. ParseString(l) = from[1]
    BY DEF ParseString
<1> DEFINE W == R \X R
           used(n) == Piece(l, n).used
           next(n, q) == IF used(n) = 0 THEN No
                         ELSE Value(n, IF used(n) = 1 THEN q[1] ELSE q[2])
           Decode == [q \in W \X (1 .. k) |-> <<next(k + 1 - q[2], q[1]), q[1][1]>>]
           base == <<Yes, Yes>>
<1>6. Solves(from)
    <2> HIDE DEF k, R, Value, No, Yes, used
    <2>1. base \in W
        BY <1>3
    <2>2. \A q \in W, n \in 1 .. k : next(n, q) \in R
        BY <1>3, <1>4
    <2>3. Decode \in [W \X (1 .. k) -> W]
        <3>1. ASSUME NEW q \in W \X (1 .. k)
              PROVE  <<next(k + 1 - q[2], q[1]), q[1][1]>> \in W
            <4>1. q[1] \in W /\ k + 1 - q[2] \in 1 .. k /\ q[1][1] \in R
                BY <1>1, <3>1
            <4>2. next(k + 1 - q[2], q[1]) \in R
                BY <2>2, <4>1
            <4> HIDE DEF next
            <4>q. QED BY <4>1, <4>2
        <3> HIDE DEF W, next
        <3>q. QED BY <3>1
    <2>4. \A q \in W, i \in 1 .. k : Decode[<<q, i>>] = <<next(k + 1 - i, q), q[1]>>
        OBVIOUS
    <2> HIDE DEF Decode, base, next
    <2>5. PICK h \in [0 .. k -> W] : Follows(h, k, base, Decode)
        BY <1>1, <2>1, <2>3, StepsExist
    <2>6. h[0] = base /\ \A i \in 1 .. k : h[i] = <<next(k + 1 - i, h[i - 1]), h[i - 1][1]>>
        <3>1. ASSUME NEW i \in 1 .. k  PROVE h[i] = <<next(k + 1 - i, h[i - 1]), h[i - 1][1]>>
            <4>1. i - 1 \in 0 .. k
                BY <1>1
            <4>2. h[i - 1] \in W
                BY <2>5, <4>1
            <4>3. h[i] = Decode[<<h[i - 1], i>>]
                BY <2>5 DEF Follows
            <4> HIDE DEF W
            <4>q. QED BY <2>4, <4>2, <4>3
        <3>q. QED BY <2>5, <3>1 DEF Follows
    <2> DEFINE f == [n \in 1 .. k + 1 |-> h[k + 1 - n][1]]
    <2>7. f[k + 1] = Yes
        <3>1. k + 1 \in 1 .. k + 1 /\ k + 1 - (k + 1) = 0
            BY <1>1
        <3>q. QED BY <2>6, <3>1 DEF base
    <2>8. ASSUME NEW n \in 1 .. k
          PROVE  f[n] = IF used(n) = 0 THEN No ELSE Value(n, f[n + used(n)])
        <3> DEFINE i == k + 1 - n
        <3>1. /\ i \in 1 .. k /\ n \in 1 .. k + 1 /\ n + 1 \in 1 .. k + 1
              /\ k + 1 - i = n /\ i - 1 = k + 1 - (n + 1)
            BY <1>1
        <3>2. f[n] = next(n, h[i - 1])
            <4>1. h[i] = <<next(n, h[i - 1]), h[i - 1][1]>>
                BY <2>6, <3>1
            <4>2. f[n] = h[i][1]
                BY <3>1
            <4>q. QED BY <4>1, <4>2
        <3>3. h[i - 1][1] = f[n + 1]
            BY <3>1
        <3>4. used(n) = 2 => h[i - 1][2] = f[n + 2]
            <4> HAVE used(n) = 2
            <4>1. n + 2 <= k + 1
                BY <1>2 DEF used
            <4>2. i - 1 \in 1 .. k /\ n + 2 \in 1 .. k + 1 /\ i - 1 - 1 = k + 1 - (n + 2)
                BY <1>1, <3>1, <4>1
            <4>3. h[i - 1][2] = h[i - 1 - 1][1]
                BY <2>6, <4>2
            <4>q. QED BY <4>2, <4>3
        <3>5. used(n) \in {0, 1, 2}
            BY <1>2 DEF used
        <3> HIDE DEF f, i
        <3>q. QED BY <3>2, <3>3, <3>4, <3>5 DEF next
    <2> HIDE DEF f
    <2>9. \A n \in 1 .. k + 1 : f[n] = Right(f, n)
        <3> TAKE n \in 1 .. k + 1
        <3>1. CASE n = k + 1
            <4>1. n > Len(l)
                BY <1>1, <3>1 DEF k
            <4>q. QED BY <2>7, <3>1, <4>1 DEF Yes
        <3>2. CASE n # k + 1
            <4>1. n \in 1 .. k /\ ~(n > Len(l))
                BY <1>1, <3>2 DEF k
            <4>q. QED BY <2>8, <4>1 DEF used, Value, No
        <3>q. QED BY <3>1, <3>2
    <2>10. f = [n \in 1 .. k + 1 |-> f[n]]
        BY DEF f
    <2>11. Solves(f)
        BY SMTT(30), <2>9, <2>10 DEF k
    <2> HIDE DEF Solves
    <2>q. QED BY <2>11
<1> HIDE DEF from
<1>7. \A n \in 1 .. k + 1 : from[n] = Right(from, n)
    BY Zenon, <1>6
<1>8. /\ from[k + 1] = Yes
      /\ \A n \in 1 .. k : from[n] = IF used(n) = 0 THEN No ELSE Value(n, from[n + used(n)])
    <2>1. k + 1 \in 1 .. k + 1 /\ k + 1 > k /\ \A n \in 1 .. k : n \in 1 .. k + 1 /\ ~(n > k)
        BY <1>1
    <2>2. from[k + 1] = Right(from, k + 1) /\ \A n \in 1 .. k : from[n] = Right(from, n)
        BY <1>7, <2>1
    <2>q. QED BY <2>1, <2>2
<1> HIDE DEF Right, Solves, Value, No, Yes, used, k
<1> DEFINE P == {i \in 0 .. k : \A n \in 1 .. k + 1 : n >= k + 1 - i => from[n] \in R}
<1>9. 0 \in P
    <2>1. \A n \in 1 .. k + 1 : n >= k + 1 - 0 => n = k + 1
        BY <1>1
    <2> HIDE DEF R
    <2>q. QED BY <1>1, <1>3, <1>8, <2>1
<1>10. ASSUME NEW i \in 1 .. k, i - 1 \in P  PROVE i \in P
    <2>1. \A n \in 1 .. k + 1 : n >= k + 1 - (i - 1) => from[n] \in R
        BY <1>10
    <2>2. ASSUME NEW n \in 1 .. k + 1, n >= k + 1 - i  PROVE from[n] \in R
        <3>1. CASE n >= k + 1 - (i - 1)
            BY <2>1, <3>1
        <3>2. CASE ~(n >= k + 1 - (i - 1))
            <4>1. n \in 1 .. k /\ n = k + 1 - i
                BY <1>1, <2>2, <3>2
            <4>2. used(n) \in {0, 1, 2} /\ n + used(n) <= k + 1
                BY <1>2, <4>1 DEF used
            <4>3. CASE used(n) = 0
                BY <1>3, <1>8, <4>1, <4>3
            <4>4. CASE used(n) # 0
                <5>1. n + used(n) \in 1 .. k + 1 /\ n + used(n) >= k + 1 - (i - 1)
                    BY <1>1, <4>1, <4>2, <4>4
                <5>2. from[n + used(n)] \in R
                    BY <2>1, <5>1
                <5> HIDE DEF R
                <5>q. QED BY <1>4, <1>8, <4>1, <4>4, <5>2
            <4>q. QED BY <4>3, <4>4
        <3>q. QED BY <3>1, <3>2
    <2>3. i \in 0 .. k
        BY <1>1
    <2> HIDE DEF R
    <2>q. QED BY <2>2, <2>3
<1>11. k \in P
    <2> HIDE DEF P
    <2>1. 0 .. k \subseteq P
        BY <1>1, <1>9, <1>10, Along
    <2>q. QED BY <1>1, <2>1
<1>12. from[1] \in R
    <2>1. 1 \in 1 .. k + 1 /\ 1 >= k + 1 - k
        BY <1>1
    <2> HIDE DEF R
    <2>q. QED BY <1>11, <2>1
<1>q. QED BY <1>5, <1>12

(* The string that a program sees has no null byte.                        *)
LEMMA UpToNullIs == ASSUME NEW b \in Seq(0 .. 255) PROVE UpToNull(b) \in Seq(1 .. 255)
<1> DEFINE k == Len(b)
           I == {i \in 1 .. Len(b) : b[i] = 0}
           end == SelectInSeq(b, LAMBDA x : x = 0)
<1>1. k \in Nat /\ \A i \in 1 .. k : b[i] \in 0 .. 255
    BY ElementOfSeq
<1>2. end = IF I # {} THEN Min(I) ELSE 0
    BY DEF SelectInSeq
<1>3. UpToNull(b) = IF end = 0 THEN b ELSE SubSeq(b, 1, end - 1)
    BY DEF UpToNull
<1>4. CASE I = {}
    <2>1. \A i \in 1 .. k : b[i] \in 1 .. 255
        <3>1. \A i \in 1 .. k : b[i] # 0
            BY <1>4
        <3>q. QED BY <1>1, <3>1
    <2>2. b = [i \in 1 .. k |-> b[i]]
        BY SeqDef
    <2>3. b \in Seq(1 .. 255)
        <3> DEFINE S == 1 .. 255
        <3>1. b \in [1 .. k -> S]
            BY <2>1, <2>2
        <3> HIDE DEF S, k
        <3>2. [1 .. k -> S] \subseteq Seq(S)
            BY <1>1, SeqDef
        <3>3. b \in Seq(S)
            BY <3>1, <3>2
        <3>q. QED BY <3>3 DEF S
    <2>q. QED BY <1>2, <1>3, <1>4, <2>3
<1>5. CASE I # {}
    <2>1. \E x \in I : \A y \in I : x <= y
        <3>1. I \subseteq Nat
            BY <1>1
        <3> HIDE DEF I
        <3>q. QED BY <1>5, <3>1, LeastNatural
    <2>2. end \in I /\ \A y \in I : end <= y
        <3> HIDE DEF I, end
        <3>q. QED BY <1>2, <1>5, <2>1 DEF Min
    <2> DEFINE m == end - 1
    <2>3. end \in 1 .. k /\ m \in Nat /\ m < k /\ end # 0
        BY <1>1, <2>2
    <2>4. \A i \in 1 .. m : b[i] \in 1 .. 255
        <3> TAKE i \in 1 .. m
        <3>1. i \in 1 .. k /\ ~(end <= i)
            BY <1>1, <2>3
        <3>2. b[i] # 0
            BY <2>2, <3>1
        <3>q. QED BY <1>1, <3>1, <3>2
    <2> HIDE DEF m, end
    <2> DEFINE S == 1 .. 255
    <2>6. \A i \in 1 .. m : b[i] \in S
        BY <2>4
    <2> HIDE DEF S
    <2>5. SubSeq(b, 1, m) \in Seq(S)
        BY <2>3, <2>6, SubSeqProperties
    <2>q. QED BY <1>3, <2>3, <2>5 DEF m, S
<1>q. QED BY <1>4, <1>5
-----------------------------------------------------------------------------
(* The strings that items own.                                             *)

(* The address of a new item is not in use.                                *)
LEMMA FreshIs ==
    ASSUME IsFiniteSet(DOMAIN heap)
    PROVE  /\ Fresh \in 1 .. Cardinality(DOMAIN heap) + 1 /\ Cardinality(DOMAIN heap) \in Nat
           /\ Fresh \notin DOMAIN heap
<1> DEFINE D == DOMAIN heap
           k == Cardinality(D)
           J == 1 .. k + 1
<1>1. k \in Nat
    BY FS_CardinalityType
<1>2. ~(J \subseteq D)
    <2>1. IsFiniteSet(J) /\ Cardinality(J) = k + 1
        <3> HIDE DEF k
        <3>q. QED BY <1>1, FS_Interval
    <2> HIDE DEF J
    <2>2. J \subseteq D => Cardinality(J) <= k
        BY FS_Subset
    <2>q. QED BY <1>1, <2>1, <2>2
<1>3. \E i \in J : i \notin D
    BY <1>2
<1>4. Fresh = CHOOSE i \in J : i \notin D
    BY DEF Fresh
<1> HIDE DEF D, k, J
<1>5. Fresh \in J /\ Fresh \notin D
    BY <1>3, <1>4
<1>q. QED BY <1>1, <1>5 DEF D, k, J

Copying(h, S) == {i \in S : h[i].copy}
Naming(h, S)  == {i \in S : h[i].string # NoName}

(* The strings that items own are their copies and their names.            *)
LEMMA OwnedIs ==
    ASSUME NEW h, NEW S, IsFiniteSet(S)
    PROVE  /\ OwnedStrings(h, S) = Cardinality(Copying(h, S)) + Cardinality(Naming(h, S))
           /\ IsFiniteSet(Copying(h, S)) /\ IsFiniteSet(Naming(h, S))
           /\ Cardinality(Copying(h, S)) \in Nat /\ Cardinality(Naming(h, S)) \in Nat
<1>1. OwnedStrings(h, S) = Cardinality(Copying(h, S)) + Cardinality(Naming(h, S))
    BY DEF OwnedStrings, Copying, Naming
<1>2. Copying(h, S) \in SUBSET S /\ Naming(h, S) \in SUBSET S
    BY DEF Copying, Naming
<1> HIDE DEF Copying, Naming
<1>3. IsFiniteSet(Copying(h, S)) /\ IsFiniteSet(Naming(h, S))
    BY <1>2, FS_Subset
<1>q. QED BY <1>1, <1>3, FS_CardinalityType

(* No string comes or goes, and no item.                                   *)
LEMMA OwnedUnchanged ==
    ASSUME NEW h, NEW g, NEW S,
           \A i \in S : h[i].copy = g[i].copy /\ h[i].string = g[i].string
    PROVE  OwnedStrings(g, S) = OwnedStrings(h, S)
<1>1. Copying(g, S) = Copying(h, S)
    BY Zenon DEF Copying
<1>2. Naming(g, S) = Naming(h, S)
    BY DEF Naming
<1>q. QED BY <1>1, <1>2 DEF OwnedStrings, Copying, Naming

(* An item has a copy of its own.                                          *)
LEMMA OwnedCopy ==
    ASSUME NEW h, NEW g, NEW S, IsFiniteSet(S), NEW c \in S,
           \A i \in S : g[i].string = h[i].string /\ (i # c => g[i].copy = h[i].copy),
           ~h[c].copy, g[c].copy
    PROVE  OwnedStrings(g, S) = OwnedStrings(h, S) + 1
<1>1. Copying(g, S) = Copying(h, S) \union {c} /\ c \notin Copying(h, S)
    BY Zenon DEF Copying
<1>2. Naming(g, S) = Naming(h, S)
    BY DEF Naming
<1>3. Cardinality(Copying(g, S)) = Cardinality(Copying(h, S)) + 1
    BY <1>1, OwnedIs, FS_AddElement
<1>q. QED BY <1>2, <1>3, OwnedIs

(* An item has a name.                                                     *)
LEMMA OwnedName ==
    ASSUME NEW h, NEW g, NEW S, IsFiniteSet(S), NEW c \in S,
           \A i \in S : g[i].copy = h[i].copy /\ (i # c => g[i].string = h[i].string),
           h[c].string = NoName, g[c].string # NoName
    PROVE  OwnedStrings(g, S) = OwnedStrings(h, S) + 1
<1>1. Naming(g, S) = Naming(h, S) \union {c} /\ c \notin Naming(h, S)
    BY DEF Naming
<1>2. Copying(g, S) = Copying(h, S)
    BY Zenon DEF Copying
<1>3. Cardinality(Naming(g, S)) = Cardinality(Naming(h, S)) + 1
    BY <1>1, OwnedIs, FS_AddElement
<1>q. QED BY <1>2, <1>3, OwnedIs

(* Some items are deleted, with their strings.                             *)
LEMMA OwnedLess ==
    ASSUME NEW h, NEW g, NEW S, IsFiniteSet(S), NEW F \in SUBSET S,
           \A i \in S \ F : g[i] = h[i]
    PROVE  OwnedStrings(g, S \ F) = OwnedStrings(h, S) - OwnedStrings(h, F)
<1>1. IsFiniteSet(F) /\ IsFiniteSet(S \ F)
    BY FS_Subset
<1>2. ASSUME NEW A, NEW B, NEW C, IsFiniteSet(A), B = A \ C, C \subseteq A
      PROVE  Cardinality(B) = Cardinality(A) - Cardinality(C)
    <2>1. A \cap C = C
        BY <1>2
    <2>2. Cardinality(A \ C) = Cardinality(A) - Cardinality(A \cap C)
        BY <1>2, FS_Difference
    <2>q. QED BY <1>2, <2>1, <2>2
<1>3. Copying(g, S \ F) = Copying(h, S) \ Copying(h, F) /\ Copying(h, F) \subseteq Copying(h, S)
    <2>1. \A i \in S \ F : g[i].copy <=> h[i].copy
        BY Zenon
    <2>2. \A i : i \in Copying(g, S \ F) <=> i \in S /\ i \notin F /\ g[i].copy
        BY Zenon DEF Copying
    <2>3. \A i : /\ i \in Copying(h, S) <=> i \in S /\ h[i].copy
                 /\ i \in Copying(h, F) <=> i \in F /\ h[i].copy
        BY Zenon DEF Copying
    <2>4. Copying(h, F) \subseteq Copying(h, S)
        BY Zenon, <2>3
    <2>5. \A i : i \in Copying(g, S \ F) <=> i \in Copying(h, S) /\ i \notin Copying(h, F)
        BY Zenon, <2>1, <2>2, <2>3
    <2> HIDE DEF Copying
    <2>q. QED BY <2>4, <2>5
<1>4. Naming(g, S \ F) = Naming(h, S) \ Naming(h, F) /\ Naming(h, F) \subseteq Naming(h, S)
    BY Zenon DEF Naming
<1>5. /\ IsFiniteSet(Copying(h, S)) /\ IsFiniteSet(Naming(h, S))
      /\ OwnedStrings(h, S) = Cardinality(Copying(h, S)) + Cardinality(Naming(h, S))
      /\ OwnedStrings(h, F) = Cardinality(Copying(h, F)) + Cardinality(Naming(h, F))
      /\ OwnedStrings(g, S \ F) = Cardinality(Copying(g, S \ F)) + Cardinality(Naming(g, S \ F))
      /\ Cardinality(Copying(h, S)) \in Nat /\ Cardinality(Naming(h, S)) \in Nat
      /\ Cardinality(Copying(h, F)) \in Nat /\ Cardinality(Naming(h, F)) \in Nat
    BY <1>1, OwnedIs
<1>6. /\ Cardinality(Copying(g, S \ F)) = Cardinality(Copying(h, S)) - Cardinality(Copying(h, F))
      /\ Cardinality(Naming(g, S \ F)) = Cardinality(Naming(h, S)) - Cardinality(Naming(h, F))
    BY <1>2, <1>3, <1>4, <1>5
<1>q. QED BY <1>5, <1>6
-----------------------------------------------------------------------------
(* Where the parser stands.                                                *)

(* Where the parser stands, or will stand when it comes to the next member. *)
Standing == IF pc = "member" THEN offset + 1 ELSE offset

TextRight ==
    /\ text \in Seq(FirstLexemes) /\ Len(text) <= MaxText + 1
    /\ Len(text) = MaxText + 1 => Ended

(* The parser stands in the text, behind what it has read of it, and never *)
(* behind its end.                                                         *)
PlaceRight ==
    /\ offset \in 1 .. Len(text) + 1
    /\ Standing <= IF Ended THEN Len(text) ELSE Len(text) + 1
    /\ pc = "open" => offset >= 2

(* The place behind white space is in the text, no earlier than before;    *)
(* what is seen there, but the null byte, is not the end.                  *)
LEMMA HereIs ==
    ASSUME TextRight, PlaceRight, pc # "member", ~Starved
    PROVE  /\ Here \in offset .. Len(text)
           /\ Here \in DOMAIN text
           /\ Ended /\ text[Here].kind # "nul" => Here + 1 <= Len(text)
<1> DEFINE n == Len(text)
           S == {p \in offset .. n + 1 : p \in DOMAIN text => text[p] \notin {Blank, Nul}}
           m == Min(S)
<1>1. n \in Nat /\ DOMAIN text = 1 .. n /\ offset \in 1 .. n + 1 /\ (Ended => offset <= n)
    BY DEF TextRight, PlaceRight, Standing
<1>2. m \in offset .. n + 1
    <2>1. S \subseteq Nat /\ n + 1 \in S
        BY <1>1
    <2>2. \E x \in S : \A y \in S : x <= y
        BY <2>1, LeastNatural
    <2> HIDE DEF S
    <2>3. m \in S
        BY <2>2 DEF Min
    <2>q. QED BY <2>3 DEF S
<1>3. Here = IF m > n THEN m - 1 ELSE m
    BY DEF Here, SkipWhitespace
<1>4. offset <= n
    <2>1. CASE Ended
        BY <1>1, <2>1
    <2>2. CASE ~Ended
        <3>1. \E p \in offset .. n : text[p] # Blank
            BY <2>2 DEF Starved
        <3>q. QED BY <1>1, <3>1
    <2>q. QED BY <2>1, <2>2
<1> HIDE DEF n, m
<1>5. Here \in offset .. n
    BY <1>1, <1>2, <1>3, <1>4
<1>6. Ended => text[n].kind = "nul"
    BY DEF Ended, Last, n, Nul, Sign
<1>7. Ended /\ text[Here].kind # "nul" => Here + 1 <= n
    BY <1>1, <1>5, <1>6
<1>q. QED BY <1>1, <1>5, <1>7 DEF n
-----------------------------------------------------------------------------
(* What the parser does to memory.                                         *)

(* What parse_value fills is the last item of the list that is being read, *)
(* and new.                                                                *)
CurRight ==
    pc \in {"value", "name", "colon"} =>
        /\ cur = Inmost(stack, root, Len(stack)) /\ cur \in DOMAIN heap
        /\ heap[cur].child = NULL /\ heap[cur].copy = FALSE
        /\ pc = "name" => heap[cur].string = NoName

ValuesRight == \A i \in DOMAIN heap : /\ heap[i].type = "num" => heap[i].value \in Numbers
                                      /\ heap[i].copy => heap[i].value \in Seq(1 .. 255)

CopiesRight == copies = OwnedStrings(heap, DOMAIN heap)

Outside == {"start", "done", "printed", "deleted"}

(* The items that are allocated, and the strings.                          *)
MemoryRight ==
    /\ Shape(heap, stack, root) /\ CurRight /\ ValuesRight /\ CopiesRight
    /\ pc \in Outside => stack = << >>
    /\ pc = "start" => DOMAIN heap = {} /\ root = NULL

(* What lexemes hold.                                                      *)
LEMMA LexemeIs ==
    ASSUME NEW t \in FirstLexemes
    PROVE  /\ t.kind = "word" => t.word \in Words
           /\ t.kind = "num" => t.num \in Numbers
           /\ t.kind = "str" => IsLiteral(t.units)
<1>1. CASE t \in {Sign(s) : s \in {"[", "]", "{", "}", ",", ":"}} \union {Blank, Bad, Nul}
    <2>1. PICK s \in {"[", "]", "{", "}", ",", ":", "blank", "bad", "nul"} : t = [kind |-> s]
        BY <1>1 DEF Sign, Blank, Bad, Nul
    <2>2. t.kind = s
        BY <2>1
    <2>q. QED BY <2>1, <2>2
<1>2. CASE t \in {Word(w) : w \in Words}
    BY <1>2 DEF Word
<1>3. CASE t \in {Num(n) : n \in Numbers}
    BY <1>3 DEF Num
<1>4. CASE t \in {Str(lit) : lit \in Literals} \union {Str(lit) : lit \in FirstLiterals}
    BY <1>4, LiteralAssumption DEF Str
<1>q. QED BY <1>1, <1>2, <1>3, <1>4 DEF FirstLexemes, Lexemes

(* The lexeme that the parser sees.                                        *)
LEMMA SeesIs ==
    ASSUME TextRight, NEW s, Sees(s)
    PROVE  /\ text[Here] \in FirstLexemes
           /\ s = "word" => text[Here].word \in Words
           /\ s = "num" => text[Here].num \in Numbers
           /\ s = "str" => IsLiteral(text[Here].units)
<1>1. text[Here] \in FirstLexemes /\ text[Here].kind = s
    BY DEF TextRight, Sees
<1>q. QED BY <1>1, LexemeIs

(* What a string means is bytes, as a program sees it.                     *)
LEMMA StringIs ==
    ASSUME TextRight, Sees("str")
    PROVE  UpToNull(ParseString(text[Here].units).out) \in Seq(1 .. 255)
<1>1. IsLiteral(text[Here].units)
    BY SeesIs
<1>q. QED BY <1>1, ParseStringIs, UpToNullIs

(* How the parser changes an item.                                         *)
WithType(c, w)       == [c EXCEPT !.type = w]
WithValue(c, w, x)   == [c EXCEPT !.type = w, !.value = x]
WithCopy(c, w, x, b) == [c EXCEPT !.type = w, !.value = x, !.copy = b]
WithName(c, w, x)    == [c EXCEPT !.string = x, !.type = w]
WithMembers(c, w, x) == [c EXCEPT !.type = w, !.child = x]

(* An item with another type.                                              *)
LEMMA Retyped ==
    ASSUME NEW D, NEW c \in Cell(D), NEW w \in Types
    PROVE  LET v == WithType(c, w)
           IN  /\ v \in Cell(D) /\ v.next = c.next /\ v.prev = c.prev /\ v.child = c.child
               /\ v.type = w /\ v.copy = c.copy /\ v.value = c.value /\ v.string = c.string
BY DEF Cell, WithType

(* An item with a value.                                                   *)
LEMMA Valued ==
    ASSUME NEW D, NEW c \in Cell(D), NEW w \in Types, NEW x \in Values
    PROVE  LET v == WithValue(c, w, x)
           IN  /\ v \in Cell(D) /\ v.next = c.next /\ v.prev = c.prev /\ v.child = c.child
               /\ v.type = w /\ v.copy = c.copy /\ v.value = x /\ v.string = c.string
BY DEF Cell, WithValue

(* An item with a copy of a string.                                        *)
LEMMA Copied ==
    ASSUME NEW D, NEW c \in Cell(D), NEW w \in Types, NEW x \in Values, NEW b \in BOOLEAN
    PROVE  LET v == WithCopy(c, w, x, b)
           IN  /\ v \in Cell(D) /\ v.next = c.next /\ v.prev = c.prev /\ v.child = c.child
               /\ v.type = w /\ v.copy = b /\ v.value = x /\ v.string = c.string
BY DEF Cell, WithCopy

(* An item with a name.                                                    *)
LEMMA Titled ==
    ASSUME NEW D, NEW c \in Cell(D), NEW w \in Types, NEW x \in Strings
    PROVE  LET v == WithName(c, w, x)
           IN  /\ v \in Cell(D) /\ v.next = c.next /\ v.prev = c.prev /\ v.child = c.child
               /\ v.type = w /\ v.copy = c.copy /\ v.value = c.value /\ v.string = x
BY DEF Cell, WithName

(* An item with members.                                                   *)
LEMMA Closed ==
    ASSUME NEW D, NEW c \in Cell(D), NEW w \in Types, NEW x \in D \union {NULL}
    PROVE  LET v == WithMembers(c, w, x)
           IN  /\ v \in Cell(D) /\ v.next = c.next /\ v.prev = c.prev /\ v.child = x
               /\ v.type = w /\ v.copy = c.copy /\ v.value = c.value /\ v.string = c.string
BY DEF Cell, WithMembers

(* One item is another.                                                    *)
LEMMA Revalued ==
    ASSUME NEW h, HeapOK(h), NEW c \in DOMAIN h, NEW v \in Cell(DOMAIN h)
    PROVE  LET g == [h EXCEPT ![c] = v]
           IN  /\ HeapOK(g) /\ DOMAIN g = DOMAIN h /\ g[c] = v
               /\ \A i \in DOMAIN h : i # c => g[i] = h[i]
BY DEF HeapOK

(* The value, the type or the name of an item is set.                      *)
LEMMA SameTree ==
    ASSUME MemoryRight, NEW c \in DOMAIN heap, NEW v \in Cell(DOMAIN heap),
           heap' = [heap EXCEPT ![c] = v], UNCHANGED <<stack, root>>,
           v.next = heap[c].next, v.prev = heap[c].prev, v.child = heap[c].child,
           v.type = "num" => v.value \in Numbers,
           v.copy => v.value \in Seq(1 .. 255),
           CopiesRight', CurRight', pc' \notin Outside
    PROVE  MemoryRight'
<1>1. HeapOK(heap) /\ Shape(heap, stack, root) /\ ValuesRight
    BY DEF MemoryRight, Shape
<1>2. /\ HeapOK(heap') /\ DOMAIN heap' = DOMAIN heap /\ heap'[c] = v
      /\ \A i \in DOMAIN heap : i # c => heap'[i] = heap[i]
    BY <1>1, Revalued
<1>3. Shape(heap', stack, root)
    <2>1. \A i \in DOMAIN heap : /\ heap'[i].next = heap[i].next /\ heap'[i].prev = heap[i].prev
                                 /\ heap'[i].child = heap[i].child
        BY <1>2
    <2>q. QED BY <1>1, <1>2, <2>1, SameShape
<1>4. ValuesRight'
    <2> SUFFICES ASSUME NEW i \in DOMAIN heap
                 PROVE  /\ heap'[i].type = "num" => heap'[i].value \in Numbers
                        /\ heap'[i].copy => heap'[i].value \in Seq(1 .. 255)
        BY <1>2 DEF ValuesRight
    <2>1. CASE i = c
        BY <1>2, <2>1
    <2>2. CASE i # c
        <3>1. heap'[i] = heap[i]
            BY <1>2, <2>2
        <3>q. QED BY <1>1, <3>1 DEF ValuesRight
    <2>q. QED BY <2>1, <2>2
<1>5. Shape(heap, stack, root)'
    BY <1>3
<1>6. pc' # "start"
    BY DEF Outside
<1>q. QED BY <1>4, <1>5, <1>6 DEF MemoryRight

(* The item that is filled.                                                *)
LEMMA CurIs ==
    ASSUME MemoryRight, pc \in {"value", "name", "colon"}
    PROVE  /\ cur \in DOMAIN heap /\ heap[cur] \in Cell(DOMAIN heap) /\ cur # NULL
           /\ cur = Inmost(stack, root, Len(stack))
           /\ heap[cur].child = NULL /\ heap[cur].copy = FALSE
           /\ pc = "name" => heap[cur].string = NoName
           /\ IsFiniteSet(DOMAIN heap) /\ HeapOK(heap)
<1>1. HeapOK(heap)
    BY DEF MemoryRight, Shape
<1>2. NULL \notin DOMAIN heap
    BY <1>1, HeapLinked
<1>q. QED BY <1>1, <1>2 DEF MemoryRight, CurRight, HeapOK

(* A word is read.                                                         *)
LEMMA WordMemory == MemoryRight /\ TextRight /\ ParseWord => MemoryRight'
<1> SUFFICES ASSUME MemoryRight, TextRight, ParseWord PROVE MemoryRight'
    OBVIOUS
<1> DEFINE D == DOMAIN heap
           w == text[Here].word
           v == WithType(heap[cur], w)
<1>1. cur \in D /\ heap[cur] \in Cell(D) /\ IsFiniteSet(D) /\ HeapOK(heap) /\ copies = OwnedStrings(heap, D)
    BY CurIs DEF ParseWord, MemoryRight, CopiesRight
<1>2. w \in Words /\ w # "num"
    BY SeesIs, NullAssumption DEF ParseWord
<1>3. heap' = [heap EXCEPT ![cur] = v] /\ pc' = "return" /\ UNCHANGED <<stack, root, copies>>
    BY DEF ParseWord, Return, WithType
<1> HIDE DEF w
<1>4. /\ v \in Cell(D) /\ v.next = heap[cur].next /\ v.prev = heap[cur].prev
      /\ v.child = heap[cur].child /\ v.type = w /\ v.copy = heap[cur].copy
      /\ v.value = heap[cur].value /\ v.string = heap[cur].string
    <2>1. w \in Types
        BY <1>2 DEF Types
    <2> HIDE DEF D
    <2>q. QED BY <1>1, <2>1, Retyped
<1>5. v.copy => v.value \in Seq(1 .. 255)
    BY <1>1, <1>4 DEF MemoryRight, ValuesRight
<1> HIDE DEF v
<1>6. HeapOK(heap') /\ DOMAIN heap' = D /\ heap'[cur] = v /\ \A i \in D : i # cur => heap'[i] = heap[i]
    BY <1>1, <1>3, <1>4, Revalued
<1>7. OwnedStrings(heap', D) = OwnedStrings(heap, D)
    <2>1. \A i \in D : heap[i].copy = heap'[i].copy /\ heap[i].string = heap'[i].string
        BY <1>4, <1>6
    <2>q. QED BY <2>1, OwnedUnchanged
<1>8. CopiesRight' /\ CurRight' /\ pc' \notin Outside
    BY <1>1, <1>3, <1>6, <1>7 DEF CopiesRight, CurRight, Outside
<1>q. QED BY <1>1, <1>2, <1>3, <1>4, <1>5, <1>8, SameTree

(* A numeral is read.                                                      *)
LEMMA NumberMemory == MemoryRight /\ TextRight /\ ParseNumber => MemoryRight'
<1> SUFFICES ASSUME MemoryRight, TextRight, ParseNumber PROVE MemoryRight'
    OBVIOUS
<1> DEFINE D == DOMAIN heap
           x == text[Here].num
           v == WithValue(heap[cur], "num", x)
<1>1. /\ cur \in D /\ heap[cur] \in Cell(D) /\ IsFiniteSet(D) /\ HeapOK(heap)
      /\ copies = OwnedStrings(heap, D) /\ heap[cur].copy = FALSE
    BY CurIs DEF ParseNumber, MemoryRight, CopiesRight
<1>2. x \in Numbers /\ x \in Values /\ "num" \in Types
    BY SeesIs DEF ParseNumber, Values, Types
<1>3. heap' = [heap EXCEPT ![cur] = v] /\ pc' = "return" /\ UNCHANGED <<stack, root, copies>>
    BY <1>1 DEF ParseNumber, Return, HeapOK, WithValue
<1> HIDE DEF x
<1>4. /\ v \in Cell(D) /\ v.next = heap[cur].next /\ v.prev = heap[cur].prev
      /\ v.child = heap[cur].child /\ v.type = "num" /\ v.copy = heap[cur].copy
      /\ v.value = x /\ v.string = heap[cur].string
    BY <1>1, <1>2, Valued
<1> HIDE DEF v
<1>6. HeapOK(heap') /\ DOMAIN heap' = D /\ heap'[cur] = v /\ \A i \in D : i # cur => heap'[i] = heap[i]
    BY <1>1, <1>3, <1>4, Revalued
<1>7. OwnedStrings(heap', D) = OwnedStrings(heap, D)
    <2>1. \A i \in D : heap[i].copy = heap'[i].copy /\ heap[i].string = heap'[i].string
        BY <1>4, <1>6
    <2>q. QED BY <2>1, OwnedUnchanged
<1>8. CopiesRight' /\ CurRight' /\ pc' \notin Outside
    BY <1>1, <1>3, <1>6, <1>7 DEF CopiesRight, CurRight, Outside
<1>q. QED BY <1>1, <1>2, <1>3, <1>4, <1>8, SameTree

(* Nothing changes in memory.                                              *)
LEMMA SameMemoryRight ==
    ASSUME MemoryRight, UNCHANGED <<heap, copies, stack, root>>,
           CurRight', pc' \notin Outside
    PROVE  MemoryRight'
BY DEF MemoryRight, ValuesRight, CopiesRight, Outside

(* A string is read as a value.                                            *)
LEMMA StringMemory == MemoryRight /\ TextRight /\ ParseStringValue => MemoryRight'
<1> SUFFICES ASSUME MemoryRight, TextRight, ParseStringValue PROVE MemoryRight'
    OBVIOUS
<1> DEFINE D == DOMAIN heap
           x == UpToNull(ParseString(text[Here].units).out)
           t == TRUE
           v == WithCopy(heap[cur], "string", x, t)
<1>1. /\ cur \in D /\ heap[cur] \in Cell(D) /\ IsFiniteSet(D) /\ HeapOK(heap)
      /\ copies = OwnedStrings(heap, D) /\ heap[cur].copy = FALSE
    BY CurIs DEF ParseStringValue, MemoryRight, CopiesRight
<1>2. x \in Seq(1 .. 255) /\ x \in Values /\ "string" \in Types
    BY StringIs DEF ParseStringValue, Values, Types
<1>s. UNCHANGED <<stack, root>> /\ pc' = "return"
    BY DEF ParseStringValue, Return
<1>r. CurRight' /\ pc' \notin Outside
    BY <1>s DEF CurRight, Outside
<1>3. CASE SameMemory
    BY <1>3, <1>s, <1>r, SameMemoryRight DEF SameMemory, Becomes
<1>4. CASE ~SameMemory
    <2>1. heap' = [heap EXCEPT ![cur] = v] /\ copies' = copies + 1
        BY <1>1, <1>4 DEF ParseStringValue, Becomes, HeapOK, WithCopy
    <2> HIDE DEF x, t
    <2>2. /\ v \in Cell(D) /\ v.next = heap[cur].next /\ v.prev = heap[cur].prev
          /\ v.child = heap[cur].child /\ v.type = "string" /\ v.copy = t
          /\ v.value = x /\ v.string = heap[cur].string
        <3>1. heap[cur] \in Cell(D) /\ "string" \in Types /\ x \in Values /\ t \in BOOLEAN
            BY <1>1, <1>2 DEF t
        <3> HIDE DEF D
        <3>q. QED BY <3>1, Copied
    <2> HIDE DEF v
    <2>3. HeapOK(heap') /\ DOMAIN heap' = D /\ heap'[cur] = v /\ \A i \in D : i # cur => heap'[i] = heap[i]
        BY <1>1, <2>1, <2>2, Revalued
    <2>4. OwnedStrings(heap', D) = OwnedStrings(heap, D) + 1
        <3>1. \A i \in D : heap'[i].string = heap[i].string /\ (i # cur => heap'[i].copy = heap[i].copy)
            BY <2>2, <2>3
        <3>2. heap'[cur].copy
            BY <2>2, <2>3 DEF t
        <3>q. QED BY <1>1, <3>1, <3>2, OwnedCopy
    <2>5. CopiesRight'
        BY <1>1, <2>1, <2>3, <2>4 DEF CopiesRight
    <2>6. v.type # "num" /\ v.value \in Seq(1 .. 255)
        BY <1>2, <2>2
    <2>q. QED BY <1>1, <1>s, <1>r, <2>1, <2>2, <2>5, <2>6, SameTree
<1>q. QED BY <1>3, <1>4

(* An array or object begins.                                              *)
LEMMA OpenMemory ==
    ASSUME MemoryRight, NEW kind \in {"array", "object"}, Open(kind)
    PROVE  MemoryRight'
<1>1. UNCHANGED <<heap, copies, root>> /\ pc = "value"
    BY DEF Open, mem_vars
<1>2. CASE TooDeep
    <2>1. UNCHANGED stack /\ pc' = "return"
        BY <1>2 DEF Open, Return
    <2>q. QED BY <1>1, <2>1, SameMemoryRight DEF CurRight, Outside
<1>3. CASE ~TooDeep
    <2>1. /\ stack' = Append(stack, [kind |-> kind, item |-> cur, head |-> NULL, last |-> NULL])
          /\ pc' = "open"
        BY <1>3 DEF Open
    <2>2. cur = Inmost(stack, root, Len(stack)) /\ cur # NULL /\ heap[cur].child = NULL
        BY <1>1, CurIs
    <2>0. Shape(heap, stack, root)
        BY DEF MemoryRight
    <2>3. Shape(heap, stack', root)
        BY ZenonT(60), <2>0, <2>1, <2>2, OpenShape
    <2>4. Shape(heap, stack, root)'
        BY <1>1, <2>3
    <2>5. ValuesRight' /\ CopiesRight' /\ CurRight' /\ pc' \notin Outside
        BY <1>1, <2>1 DEF MemoryRight, ValuesRight, CopiesRight, CurRight, Outside
    <2>q. QED BY <2>4, <2>5 DEF MemoryRight, Outside
<1>q. QED BY <1>2, <1>3

(* The list that is being read is deleted.                                 *)
LEMMA DeletedIs ==
    ASSUME HeapOK(heap), ValuesRight, CopiesRight, NEW r, At(r) \subseteq DOMAIN heap, Deleted(r)
    PROVE  /\ heap' = [i \in DOMAIN heap \ Freed(heap, r) |-> heap[i]]
           /\ ValuesRight' /\ CopiesRight'
<1> DEFINE D == DOMAIN heap
           F == Freed(heap, r)
<1>1. F \subseteq D /\ IsFiniteSet(D)
    BY HeapLinked, FreedIs DEF HeapOK
<1>2. heap' = [i \in D \ F |-> heap[i]] /\ copies' = copies - OwnedStrings(heap, F)
    BY DEF Deleted, Becomes
<1> HIDE DEF F
<1>3. DOMAIN heap' = D \ F /\ \A i \in D \ F : heap'[i] = heap[i] /\ i \in D
    BY <1>2
<1>4. ValuesRight'
    BY <1>3 DEF ValuesRight
<1>5. OwnedStrings(heap', D \ F) = OwnedStrings(heap, D) - OwnedStrings(heap, F)
    BY <1>1, <1>3, OwnedLess
<1>6. CopiesRight'
    BY <1>2, <1>3, <1>5 DEF CopiesRight
<1>q. QED BY <1>2, <1>4, <1>6 DEF F

(* An array or object fails.                                               *)
LEMMA FailMemory ==
    ASSUME MemoryRight, FailMember, stack # << >>, UNCHANGED root
    PROVE  MemoryRight'
<1>1. Deleted(Last(stack).head) /\ stack' = Front(stack) /\ pc' = "return"
    BY DEF FailMember, Return
<1>2. HeapOK(heap) /\ Shape(heap, stack, root) /\ ValuesRight /\ CopiesRight
    BY DEF MemoryRight, Shape
<1>3. At(Last(stack).head) \subseteq DOMAIN heap
    <2>1. stack \in Seq(Frames)
        BY <1>2 DEF Shape
    <2>2. Len(stack) \in Nat \ {0} /\ Last(stack) = stack[Len(stack)]
        BY <2>1, FrontIs
    <2>3. Len(stack) \in 0 .. Len(stack) /\ First(stack, root, Len(stack)) = Last(stack).head
        BY <2>2 DEF First
    <2>q. QED BY <1>2, <2>3 DEF Shape
<1>4. /\ heap' = [i \in DOMAIN heap \ Freed(heap, Last(stack).head) |-> heap[i]]
      /\ ValuesRight' /\ CopiesRight'
    BY <1>1, <1>2, <1>3, DeletedIs
<1>5. Shape(heap', stack', root)
    BY <1>1, <1>2, <1>4, DropShape
<1>6. Shape(heap, stack, root)'
    BY <1>5
<1>7. CurRight' /\ pc' \notin Outside
    BY <1>1 DEF CurRight, Outside
<1>q. QED BY <1>4, <1>6, <1>7 DEF MemoryRight, Outside

(* An array or object ends.                                                *)
LEMMA SucceedMemory ==
    ASSUME MemoryRight, Succeed, stack # << >>, UNCHANGED <<root, copies>>
    PROVE  MemoryRight'
<1> DEFINE D == DOMAIN heap
           f == Last(stack)
           v == WithMembers(heap[f.item], f.kind, f.head)
<1>1. HeapOK(heap) /\ Shape(heap, stack, root) /\ ValuesRight /\ CopiesRight /\ IsFiniteSet(D)
    BY DEF MemoryRight, Shape, HeapOK
<1>2. f \in Frames /\ f.item \in D /\ At(f.head) \subseteq D
    <2> DEFINE k == Len(stack)
    <2>1. stack \in Seq(Frames)
        BY <1>1 DEF Shape
    <2>2. k \in Nat \ {0} /\ f = stack[k] /\ stack[k] \in Frames
        BY <2>1, FrontIs
    <2>3. k \in 0 .. k /\ k \in 1 .. k /\ k - 1 \in 0 .. k /\ First(stack, root, k) = f.head
        BY <2>2 DEF First
    <2>4. f.item = Inmost(stack, root, k - 1) /\ f.item # NULL
        BY <1>1, <2>2, <2>3 DEF Shape, FrameOK
    <2>5. f.item \in D
        BY <1>1, <2>3, <2>4, ShapeLists
    <2>q. QED BY <1>1, <2>2, <2>3, <2>5 DEF Shape
<1>3. /\ heap' = [heap EXCEPT ![f.item] = v] /\ stack' = Front(stack) /\ pc' = "return"
    BY <1>1, <1>2 DEF Succeed, Return, HeapOK, WithMembers
<1>4. heap[f.item] \in Cell(D) /\ f.kind \in Types /\ f.kind # "num" /\ f.head \in D \union {NULL}
    BY <1>1, <1>2 DEF HeapOK, Frames, Types, At
<1> HIDE DEF f
<1>5. /\ v \in Cell(D) /\ v.next = heap[f.item].next /\ v.prev = heap[f.item].prev
      /\ v.child = f.head /\ v.type = f.kind /\ v.copy = heap[f.item].copy
      /\ v.value = heap[f.item].value /\ v.string = heap[f.item].string
    BY <1>4, Closed
<1> HIDE DEF v
<1>6. /\ HeapOK(heap') /\ DOMAIN heap' = D /\ heap'[f.item] = v
      /\ \A i \in D : i # f.item => heap'[i] = heap[i]
    BY <1>1, <1>2, <1>3, <1>5, Revalued
<1>7. \A i \in D : /\ heap'[i].next = heap[i].next /\ heap'[i].prev = heap[i].prev
                    /\ heap'[i].child = IF i = f.item THEN f.head ELSE heap[i].child
    BY <1>5, <1>6
<1>8. Shape(heap', stack', root)
    BY <1>1, <1>3, <1>6, <1>7, CloseShape DEF f
<1>9. Shape(heap, stack, root)'
    BY <1>8
<1>10. OwnedStrings(heap', D) = OwnedStrings(heap, D)
    <2>1. \A i \in D : heap[i].copy = heap'[i].copy /\ heap[i].string = heap'[i].string
        BY <1>5, <1>6
    <2>q. QED BY <2>1, OwnedUnchanged
<1>11. CopiesRight' /\ CurRight' /\ pc' \notin Outside
    BY <1>1, <1>3, <1>6, <1>10 DEF CopiesRight, CurRight, Outside
<1>12. ValuesRight'
    <2> SUFFICES ASSUME NEW i \in D
                 PROVE  /\ heap'[i].type = "num" => heap'[i].value \in Numbers
                        /\ heap'[i].copy => heap'[i].value \in Seq(1 .. 255)
        BY <1>6 DEF ValuesRight
    <2>1. CASE i = f.item
        BY <1>1, <1>2, <1>4, <1>5, <1>6, <2>1 DEF ValuesRight
    <2>2. CASE i # f.item
        <3>1. heap'[i] = heap[i]
            BY <1>6, <2>2
        <3>q. QED BY <1>1, <3>1 DEF ValuesRight
    <2>q. QED BY <2>1, <2>2
<1>q. QED BY <1>9, <1>11, <1>12 DEF MemoryRight, Outside

(* An item of a heap is one of a larger heap.                              *)
LEMMA CellMonotone ==
    ASSUME NEW D, NEW E, D \subseteq E, NEW c \in Cell(D)
    PROVE  c \in Cell(E)
<1> DEFINE M == D \union {NULL}  N == E \union {NULL}
<1>1. M \subseteq N
    OBVIOUS
<1>2. c \in [next : M, prev : M, child : M, string : Strings, ref : {FALSE},
             type : Types, value : Values, copy : BOOLEAN]
    BY DEF Cell
<1> HIDE DEF M, N
<1>3. c \in [next : N, prev : N, child : N, string : Strings, ref : {FALSE},
             type : Types, value : Values, copy : BOOLEAN]
    BY <1>1, <1>2
<1>q. QED BY <1>3 DEF Cell, N

(* A heap with a new item.                                                 *)
LEMMA Enlarged ==
    ASSUME NEW h, HeapOK(h), NEW x \in Nat, x \notin DOMAIN h,
           NEW v \in Cell(DOMAIN h \union {x})
    PROVE  LET g == WithItem(h, x, v)
           IN  /\ HeapOK(g) /\ DOMAIN g = DOMAIN h \union {x} /\ g[x] = v
               /\ \A i \in DOMAIN h : g[i] = h[i]
<1> DEFINE D == DOMAIN h
           E == D \union {x}
           g == WithItem(h, x, v)
<1>1. /\ g = [j \in E |-> g[j]] /\ DOMAIN g = E /\ g[x] = v
      /\ \A i \in D : g[i] = h[i]
    BY DEF WithItem
<1>2. IsFiniteSet(E) /\ E \subseteq Nat
    BY FS_AddElement DEF HeapOK
<1>3. \A i \in E : g[i] \in Cell(E)
    <2>1. \A i \in D : h[i] \in Cell(D)
        BY DEF HeapOK
    <2>2. D \subseteq E
        OBVIOUS
    <2>q. QED BY <1>1, <2>1, <2>2, CellMonotone
<1> HIDE DEF E, g
<1>4. HeapOK(g)
    BY <1>1, <1>2, <1>3 DEF HeapOK
<1>q. QED BY <1>1, <1>4 DEF E, g

WithPrev(c, p) == [c EXCEPT !.prev = p]

(* The new item.                                                           *)
LEMMA NewItemIs ==
    ASSUME NEW D
    PROVE  /\ NewItem \in Cell(D) /\ NewItem.next = NULL /\ NewItem.prev = NULL
           /\ NewItem.child = NULL /\ NewItem.string = NoName /\ NewItem.copy = FALSE
           /\ NewItem.type = "invalid"
<1>1. NULL \in Values /\ NoName \in Strings /\ "invalid" \in Types /\ NULL \in D \union {NULL}
    BY DEF Values, Strings, Types
<1>2. NewItem \in Cell(D)
    BY <1>1 DEF Cell, NewItem
<1>q. QED BY <1>2 DEF NewItem

(* The new item behind another.                                            *)
LEMMA NewAfterIs ==
    ASSUME NEW D, NEW p \in D \union {NULL}
    PROVE  LET v == WithPrev(NewItem, p)
           IN  /\ v \in Cell(D) /\ v.next = NULL /\ v.prev = p /\ v.child = NULL
               /\ v.string = NoName /\ v.copy = FALSE /\ v.type = "invalid"
<1>1. ASSUME NEW c \in Cell(D), NEW v, v = WithPrev(c, p)
      PROVE  /\ v \in Cell(D) /\ v.next = c.next /\ v.prev = p /\ v.child = c.child
             /\ v.string = c.string /\ v.copy = c.copy /\ v.type = c.type
    BY <1>1 DEF Cell, WithPrev
<1>2. NewItem \in Cell(D)
    BY NewItemIs
<1>3. LET v == WithPrev(NewItem, p)
      IN  /\ v \in Cell(D) /\ v.next = NewItem.next /\ v.prev = p /\ v.child = NewItem.child
          /\ v.string = NewItem.string /\ v.copy = NewItem.copy /\ v.type = NewItem.type
    BY <1>1, <1>2
<1>q. QED BY <1>3, NewItemIs

(* The document is allocated.                                              *)
LEMMA StartMemory == MemoryRight /\ Start => MemoryRight'
<1> SUFFICES ASSUME MemoryRight, Start PROVE MemoryRight'
    OBVIOUS
<1>1. /\ Shape(heap, stack, root) /\ HeapOK(heap) /\ ValuesRight /\ CopiesRight
      /\ pc = "start" /\ DOMAIN heap = {} /\ root = NULL /\ stack = << >>
      /\ UNCHANGED <<stack, copies>>
    BY DEF MemoryRight, Start, Outside, Shape
<1>2. CASE pc' = "done"
    <2>1. UNCHANGED <<heap, root>>
        BY <1>2 DEF Start
    <2>q. QED BY <1>1, <1>2, <2>1
              DEF MemoryRight, ValuesRight, CopiesRight, CurRight, Outside
<1>3. CASE pc' # "done"
    <2> DEFINE x == Fresh
    <2>1. heap' = WithItem(heap, x, NewItem) /\ root' = x /\ cur' = x /\ pc' = "value"
        BY <1>3 DEF Start
    <2>2. x \in Nat /\ x \notin DOMAIN heap
        BY <1>1, FreshIs DEF HeapOK
    <2> HIDE DEF x
    <2>4. /\ NewItem \in Cell(DOMAIN heap \union {x}) /\ NewItem.next = NULL /\ NewItem.prev = NULL
          /\ NewItem.child = NULL /\ NewItem.string = NoName /\ NewItem.copy = FALSE
          /\ NewItem.type = "invalid"
        BY NewItemIs
    <2>5. /\ HeapOK(heap') /\ DOMAIN heap' = DOMAIN heap \union {x} /\ heap'[x] = NewItem
        BY <1>1, <2>1, <2>2, <2>4, Enlarged
    <2>6. DOMAIN heap' = {x}
        BY <1>1, <2>5
    <2>7. Shape(heap', << >>, x)
        BY <2>2, <2>4, <2>5, <2>6, StartShape
    <2>8. Shape(heap, stack, root)'
        <3>1. stack' = << >> /\ root' = x
            BY SMTT(30), <1>1, <2>1
        <3>q. QED BY <2>7, <3>1
    <2>9. CurRight'
        <3>1. Len(stack') = 0
            BY <1>1
        <3>2. cur' = Inmost(stack', root', Len(stack'))
            BY <2>1, <3>1 DEF Inmost
        <3>3. heap'[cur'].child = NULL /\ heap'[cur'].copy = FALSE /\ cur' \in DOMAIN heap'
            BY <2>1, <2>4, <2>5, <2>6
        <3>q. QED BY Zenon, <2>1, <3>2, <3>3 DEF CurRight
    <2>10. ValuesRight'
        BY <2>4, <2>5, <2>6 DEF ValuesRight
    <2>11. CopiesRight'
        <3>1. OwnedStrings(heap', DOMAIN heap') = OwnedStrings(heap, DOMAIN heap)
            <4> DEFINE S == DOMAIN heap  T == DOMAIN heap'
            <4>1. S \subseteq T /\ \A i \in S : FALSE
                BY <1>1
            <4>2. \A i \in T \ S : heap'[i].copy = FALSE /\ heap'[i].string = NoName
                BY <2>4, <2>5, <2>6
            <4> HIDE DEF S, T
            <4>3. Copying(heap', T) = Copying(heap, S)
                BY Zenon, <4>1, <4>2 DEF Copying
            <4>4. Naming(heap', T) = Naming(heap, S)
                BY <4>1, <4>2 DEF Naming
            <4>5. OwnedStrings(heap', T) = OwnedStrings(heap, S)
                BY <4>3, <4>4 DEF OwnedStrings, Copying, Naming
            <4>q. QED BY <4>5 DEF S, T
        <3>q. QED BY <1>1, <3>1 DEF CopiesRight
    <2>q. QED BY <1>1, <2>1, <2>8, <2>9, <2>10, <2>11 DEF MemoryRight, Outside
<1>q. QED BY <1>2, <1>3

WithNext(c, x) == [c EXCEPT !.next = x]
Grown(f, x)    == [f EXCEPT !.last = x, !.head = IF f.head = NULL THEN x ELSE f.head]

(* An item with a successor.                                               *)
LEMMA NextIs ==
    ASSUME NEW D, NEW c \in Cell(D), NEW x \in D \union {NULL}
    PROVE  LET v == WithNext(c, x)
           IN  /\ v \in Cell(D) /\ v.next = x /\ v.prev = c.prev /\ v.child = c.child
               /\ v.type = c.type /\ v.copy = c.copy /\ v.value = c.value /\ v.string = c.string
BY DEF Cell, WithNext

(* A list with one more member.                                            *)
LEMMA GrownIs ==
    ASSUME NEW f \in Frames, NEW x \in Nat
    PROVE  LET g == Grown(f, x)
           IN  /\ g \in Frames /\ g.kind = f.kind /\ g.item = f.item /\ g.last = x
               /\ g.head = IF f.head = NULL THEN x ELSE f.head
<1> DEFINE N == Nat \union {NULL}
           K == {"array", "object"}
           y == IF f.head = NULL THEN x ELSE f.head
           g == Grown(f, x)
<1>1. f \in [kind : K, item : N, head : N, last : N]
    BY DEF Frames
<1>2. x \in N /\ y \in N
    BY <1>1
<1>3. g = [f EXCEPT !.last = x, !.head = y]
    BY DEF Grown
<1> HIDE DEF N, K, y, g
<1>4. /\ g \in [kind : K, item : N, head : N, last : N]
      /\ g.kind = f.kind /\ g.item = f.item /\ g.last = x /\ g.head = y
    BY <1>1, <1>2, <1>3
<1>q. QED BY <1>4 DEF Frames, N, K, y, g

(* A member begins at x.                                                   *)
Grows(x) ==
    /\ heap' = LET h == WithItem(heap, x, WithPrev(NewItem, Last(stack).last))
               IN  IF Last(stack).head = NULL THEN h
                   ELSE [h EXCEPT ![Last(stack).last] = WithNext(h[Last(stack).last], x)]
    /\ stack' = [stack EXCEPT ![Len(stack)] = Grown(Last(stack), x)]
    /\ cur' = x /\ pc' \in {"value", "name"} /\ UNCHANGED <<root, copies>>

(* The new item is the last of its list, and has no type and no name; what *)
(* the others hold is as it was.                                           *)
OneMore(x) ==
    /\ DOMAIN heap' = DOMAIN heap \union {x} /\ x \notin DOMAIN heap
    /\ heap'[x].type = "invalid" /\ heap'[x].string = NoName
    /\ heap'[x].next = NULL /\ heap'[x].child = NULL /\ heap'[x].prev = Last(stack).last
    /\ \A i \in DOMAIN heap :
          /\ heap'[i].type = heap[i].type /\ heap'[i].copy = heap[i].copy
          /\ heap'[i].prev = heap[i].prev
          /\ heap'[i].string = heap[i].string /\ heap'[i].child = heap[i].child
          /\ heap'[i].next = IF Last(stack).head # NULL /\ i = Last(stack).last THEN x
                             ELSE heap[i].next
    /\ Len(stack') = Len(stack) /\ stack'[Len(stack)] = Grown(Last(stack), x)
    /\ \A n \in 1 .. Len(stack) : n # Len(stack) => stack'[n] = stack[n]

(* A member begins.                                                        *)
LEMMA GrowMemory ==
    ASSUME MemoryRight, stack # << >>, NEW x, x = Fresh, Grows(x)
    PROVE  MemoryRight' /\ OneMore(x)
<1> DEFINE D == DOMAIN heap
           E == D \union {x}
           f == Last(stack)
           v == WithPrev(NewItem, f.last)
           h == WithItem(heap, x, v)
<1>1. /\ HeapOK(heap) /\ Shape(heap, stack, root) /\ ValuesRight /\ CopiesRight /\ IsFiniteSet(D)
      /\ stack \in Seq(Frames) /\ NULL \notin D
    BY HeapLinked DEF MemoryRight, Shape, HeapOK
<1>2. x \in Nat /\ x \notin D
    BY <1>1, FreshIs
<1>3. /\ f \in Frames /\ f.last \in D \union {NULL} /\ (f.head = NULL <=> f.last = NULL)
    <2> DEFINE k == Len(stack)
    <2>1. k \in Nat \ {0} /\ f = stack[k] /\ stack[k] \in Frames
        BY <1>1, FrontIs
    <2>2. k \in 0 .. k /\ k \in 1 .. k /\ Inmost(stack, root, k) = f.last
        BY <2>1 DEF Inmost
    <2>3. f.last # NULL => f.last \in D
        BY <1>1, <2>2, ShapeLists
    <2>4. FrameOK(heap, stack, root, k)
        BY <1>1, <2>2 DEF Shape
    <2>q. QED BY <2>1, <2>3, <2>4 DEF FrameOK
<1> HIDE DEF f
<1>4. /\ v \in Cell(E) /\ v.next = NULL /\ v.prev = f.last /\ v.child = NULL
      /\ v.string = NoName /\ v.copy = FALSE /\ v.type = "invalid"
    <2>1. f.last \in E \union {NULL}
        BY <1>3
    <2> HIDE DEF E
    <2>q. QED BY <2>1, NewAfterIs
<1> HIDE DEF v
<1>5. HeapOK(h) /\ DOMAIN h = E /\ h[x] = v /\ \A i \in D : h[i] = heap[i]
    BY <1>1, <1>2, <1>4, Enlarged
<1>6. heap' = IF f.head = NULL THEN h ELSE [h EXCEPT ![f.last] = WithNext(h[f.last], x)]
    BY DEF v, f, Grows
<1> HIDE DEF h
<1>7. /\ HeapOK(heap') /\ DOMAIN heap' = E /\ heap'[x] = v
      /\ \A i \in D : ~(f.head # NULL /\ i = f.last) => heap'[i] = heap[i]
      /\ f.head # NULL => f.last \in D /\ heap'[f.last] = WithNext(heap[f.last], x)
    <2>1. CASE f.head = NULL
        <3>1. heap' = h
            BY <1>6, <2>1
        <3>q. QED BY <1>5, <2>1, <3>1
    <2>2. CASE f.head # NULL
        <3> DEFINE z == f.last
                   w == WithNext(h[z], x)
        <3>1. z \in D /\ z \in E /\ z # x /\ x \in E \union {NULL}
            BY <1>2, <1>3, <2>2
        <3>2. h[z] \in Cell(E) /\ h[z] = heap[z]
            BY <1>5, <3>1 DEF HeapOK
        <3>6. x \in E /\ \A i \in D : i \in E
            OBVIOUS
        <3> HIDE DEF E
        <3>3. w \in Cell(E)
            BY <3>1, <3>2, NextIs
        <3>9. w = WithNext(heap[z], x)
            BY <3>2
        <3> HIDE DEF w, z
        <3>4. heap' = [h EXCEPT ![z] = w]
            BY <1>6, <2>2 DEF w, z
        <3>5. HeapOK(heap') /\ DOMAIN heap' = E /\ heap'[z] = w /\ \A i \in E : i # z => heap'[i] = h[i]
            BY <1>5, <3>1, <3>3, <3>4, Revalued
        <3>7. heap'[x] = v
            BY <1>5, <3>1, <3>5, <3>6
        <3>8. \A i \in D : i # z => heap'[i] = heap[i]
            BY <1>5, <3>5, <3>6
        <3>q. QED BY <2>2, <3>1, <3>5, <3>7, <3>8, <3>9 DEF z
    <2>q. QED BY <2>1, <2>2
<1> HIDE DEF E
<1>k. ASSUME NEW i \in D
      PROVE  /\ heap'[i].prev = heap[i].prev /\ heap'[i].child = heap[i].child
             /\ heap'[i].next = IF f.head # NULL /\ i = f.last THEN x ELSE heap[i].next
             /\ heap'[i].type = heap[i].type /\ heap[i].copy = heap'[i].copy
             /\ heap'[i].value = heap[i].value /\ heap[i].string = heap'[i].string
    <2>1. CASE f.head # NULL /\ i = f.last
        <3> DEFINE c == heap[i]  w == WithNext(c, x)
        <3>1. c \in Cell(E)
            <4>1. c \in Cell(D) /\ D \subseteq E
                BY <1>1 DEF HeapOK, E
            <4>q. QED BY <4>1, CellMonotone
        <3>2. x \in E \union {NULL}
            BY DEF E
        <3> HIDE DEF c, w
        <3>3. /\ w.next = x /\ w.prev = c.prev /\ w.child = c.child
              /\ w.type = c.type /\ w.copy = c.copy /\ w.value = c.value
              /\ w.string = c.string
            BY <3>1, <3>2, NextIs DEF w
        <3>4. heap'[i] = w
            BY <1>7, <2>1 DEF w, c
        <3>q. QED BY <2>1, <3>3, <3>4 DEF c
    <2>2. CASE ~(f.head # NULL /\ i = f.last)
        <3>1. heap'[i] = heap[i]
            BY <1>7, <2>2
        <3>2. heap'[i].next = IF f.head # NULL /\ i = f.last THEN x ELSE heap[i].next
            BY <2>2, <3>1
        <3>q. QED BY <3>1, <3>2
    <2>q. QED BY <2>1, <2>2
<1> DEFINE p == Grown(f, x)
<1>8. /\ p \in Frames /\ p.item = f.item /\ p.last = x
      /\ p.head = IF f.head = NULL THEN x ELSE f.head
    BY <1>2, <1>3, GrownIs
<1>9. stack' = [stack EXCEPT ![Len(stack)] = p]
    BY DEF f, Grows
<1>g. cur' = x /\ pc' \in {"value", "name"} /\ UNCHANGED <<root, copies>>
    BY DEF Grows
<1> HIDE DEF p
<1>10. Shape(heap', stack', root)
    <2>1. DOMAIN heap' = DOMAIN heap \union {x}
        BY <1>7 DEF E
    <2>2. heap'[x].next = NULL /\ heap'[x].child = NULL /\ heap'[x].prev = f.last
        BY <1>4, <1>7
    <2>3. \A i \in DOMAIN heap :
              /\ heap'[i].prev = heap[i].prev /\ heap'[i].child = heap[i].child
              /\ heap'[i].next = IF Last(stack).head # NULL /\ i = Last(stack).last THEN x
                                 ELSE heap[i].next
        <3> HIDE DEF D
        <3>1. \A i \in D :
                  /\ heap'[i].prev = heap[i].prev /\ heap'[i].child = heap[i].child
                  /\ heap'[i].next = IF f.head # NULL /\ i = f.last THEN x ELSE heap[i].next
            BY <1>k
        <3>q. QED BY <3>1 DEF f, D
    <2>4. /\ p.item = Last(stack).item /\ heap'[x].prev = Last(stack).last
          /\ p.head = IF Last(stack).head = NULL THEN x ELSE Last(stack).head
        BY <1>8, <2>2 DEF f
    <2>5. Shape(heap', [stack EXCEPT ![Len(stack)] = p], root)
        <3>1. Shape(heap, stack, root) /\ stack # << >> /\ x \in Nat /\ x \notin DOMAIN heap
            BY <1>1, <1>2
        <3>2. HeapOK(heap') /\ p \in Frames /\ p.last = x
            BY <1>7, <1>8
        <3>3. Extends(heap', heap, stack, x)
            BY <2>1, <2>2, <2>3, <2>4 DEF Extends
        <3>4. Lengthens(p, stack, x)
            BY <1>8, <2>4 DEF Lengthens
        <3>q. QED BY <3>1, <3>2, <3>3, <3>4, ExtendsShape
    <2>q. QED BY <1>9, <2>5
<1>11. Shape(heap, stack, root)'
    BY <1>g, <1>10
<1>12. CurRight'
    <2>1. Len(stack) \in Nat \ {0} /\ Len(stack') = Len(stack) /\ stack'[Len(stack)] = p
        <3>1. Len(stack) \in Nat \ {0}
            BY <1>1, FrontIs
        <3>2. /\ Len(stack') = Len(stack)
              /\ \A i \in 1 .. Len(stack) : stack'[i] = IF i = Len(stack) THEN p ELSE stack[i]
            BY <1>1, <1>8, <1>9, <3>1, ExceptSeq
        <3>3. Len(stack) \in 1 .. Len(stack)
            BY <3>1
        <3>q. QED BY <3>1, <3>2, <3>3
    <2>2. Inmost(stack', root', Len(stack')) = x
        BY <1>8, <2>1 DEF Inmost
    <2>3. /\ heap'[x].child = NULL /\ heap'[x].copy = FALSE /\ x \in DOMAIN heap'
          /\ heap'[x].string = NoName
        BY <1>4, <1>7 DEF E
    <2>q. QED BY <1>g, <2>2, <2>3 DEF CurRight
<1>13. ValuesRight'
    <2> SUFFICES ASSUME NEW i \in E
                 PROVE  /\ heap'[i].type = "num" => heap'[i].value \in Numbers
                        /\ heap'[i].copy => heap'[i].value \in Seq(1 .. 255)
        BY <1>7 DEF ValuesRight
    <2>1. CASE i = x
        BY <1>4, <1>7, <2>1
    <2>2. CASE i \in D
        <3>1. /\ heap[i].type = "num" => heap[i].value \in Numbers
              /\ heap[i].copy => heap[i].value \in Seq(1 .. 255)
            BY <1>1, <2>2 DEF ValuesRight
        <3>2. /\ heap'[i].type = heap[i].type /\ heap[i].copy = heap'[i].copy
              /\ heap'[i].value = heap[i].value
            BY <1>k, <2>2
        <3>q. QED BY Zenon, <3>1, <3>2
    <2>q. QED BY <2>1, <2>2 DEF E
<1>14. CopiesRight'
    <2>1. D \subseteq E
        BY DEF E
    <2>2. \A i \in D : heap[i].copy = heap'[i].copy /\ heap[i].string = heap'[i].string
        BY <1>k
    <2>3. \A i \in E \ D : heap'[i].copy = FALSE /\ heap'[i].string = NoName
        BY <1>4, <1>7 DEF E
    <2> HIDE DEF D
    <2>4. OwnedStrings(heap', E) = OwnedStrings(heap, D)
        <3> HIDE DEF E
        <3> DEFINE h0 == heap  h1 == heap'
        <3>1. /\ D \subseteq E
              /\ \A i \in D : h0[i].copy = h1[i].copy /\ h0[i].string = h1[i].string
              /\ \A i \in E \ D : h1[i].copy = FALSE /\ h1[i].string = NoName
            BY <2>1, <2>2, <2>3
        <3> HIDE DEF h0, h1
        <3>2. Copying(h1, E) = Copying(h0, D)
            BY Zenon, <3>1 DEF Copying
        <3>3. Naming(h1, E) = Naming(h0, D)
            BY <3>1 DEF Naming
        <3>4. OwnedStrings(h1, E) = OwnedStrings(h0, D)
            BY <3>2, <3>3 DEF OwnedStrings, Copying, Naming
        <3>q. QED BY <3>4 DEF h0, h1
    <2>q. QED BY <1>1, <1>7, <1>g, <2>4 DEF CopiesRight, D
<1>15. pc' \notin Outside /\ pc' # "start"
    BY <1>g DEF Outside
<1>16. OneMore(x)
    <2>1. Len(stack) \in Nat \ {0} /\ Len(stack) \in 1 .. Len(stack)
        <3>1. Len(stack) \in Nat \ {0}
            BY <1>1, FrontIs
        <3>q. QED BY <3>1
    <2>2. /\ Len(stack') = Len(stack)
          /\ \A n \in 1 .. Len(stack) : stack'[n] = IF n = Len(stack) THEN p ELSE stack[n]
        BY <1>1, <1>8, <1>9, <2>1, ExceptSeq
    <2>3. /\ heap'[x].type = "invalid" /\ heap'[x].string = NoName
          /\ heap'[x].next = NULL /\ heap'[x].child = NULL /\ heap'[x].prev = f.last
        BY <1>4, <1>7
    <2>4. DOMAIN heap' = DOMAIN heap \union {x} /\ x \notin DOMAIN heap
        BY <1>2, <1>7 DEF E
    <2>5. \A i \in DOMAIN heap :
              /\ heap'[i].type = heap[i].type /\ heap'[i].copy = heap[i].copy
              /\ heap'[i].prev = heap[i].prev
              /\ heap'[i].string = heap[i].string /\ heap'[i].child = heap[i].child
              /\ heap'[i].next = IF f.head # NULL /\ i = f.last THEN x ELSE heap[i].next
        BY <1>k
    <2>6. stack'[Len(stack)] = Grown(Last(stack), x)
        BY <2>1, <2>2 DEF p, f
    <2>q. QED BY <2>2, <2>3, <2>4, <2>5, <2>6 DEF OneMore, f
<1>q. QED BY <1>11, <1>12, <1>13, <1>14, <1>15, <1>16 DEF MemoryRight

(* A member begins, or there is no memory for it.                          *)
LEMMA NewMemberMemory == MemoryRight /\ stack # << >> /\ NewMember => MemoryRight'
<1> SUFFICES ASSUME MemoryRight, stack # << >>, NewMember PROVE MemoryRight'
    OBVIOUS
<1>1. UNCHANGED root
    BY DEF NewMember
<1>2. CASE FailMember
    BY <1>1, <1>2, FailMemory
<1>3. CASE ~FailMember
    <2> DEFINE x == Fresh
    <2>1. HeapOK(heap) /\ stack \in Seq(Frames)
        BY DEF MemoryRight, Shape
    <2>2. Len(stack) \in Nat \ {0} /\ Last(stack) = stack[Len(stack)] /\ stack[Len(stack)] \in Frames
        BY <2>1, FrontIs
    <2>3. stack' = [stack EXCEPT ![Len(stack)] = Grown(Last(stack), x)]
        BY <1>3 DEF NewMember, Grown
    <2>4. heap' = LET h == WithItem(heap, x, WithPrev(NewItem, Last(stack).last))
                  IN  IF Last(stack).head = NULL THEN h
                      ELSE [h EXCEPT ![Last(stack).last] = WithNext(h[Last(stack).last], x)]
        BY <1>3 DEF NewMember, WithPrev, WithNext
    <2>5. cur' = x /\ pc' \in {"value", "name"} /\ UNCHANGED copies
        BY <1>3 DEF NewMember
    <2> HIDE DEF x
    <2>6. Grows(x)
        BY <1>1, <2>3, <2>4, <2>5 DEF Grows
    <2>q. QED BY <2>6, GrowMemory DEF x
<1>q. QED BY <1>2, <1>3

(* A member's name is read.                                                *)
LEMMA NameMemory == MemoryRight /\ TextRight /\ stack # << >> /\ ParseName => MemoryRight'
<1> SUFFICES ASSUME MemoryRight, TextRight, stack # << >>, ParseName PROVE MemoryRight'
    OBVIOUS
<1>1. CASE FailMember
    BY <1>1, FailMemory DEF ParseName
<1>2. CASE ~FailMember
    <2> DEFINE D == DOMAIN heap
               x == UpToNull(ParseString(text[Here].units).out)
               v == WithName(heap[cur], "string", x)
    <2>1. /\ cur \in D /\ heap[cur] \in Cell(D) /\ IsFiniteSet(D) /\ HeapOK(heap)
          /\ copies = OwnedStrings(heap, D) /\ heap[cur].copy = FALSE /\ heap[cur].child = NULL
          /\ heap[cur].string = NoName /\ cur = Inmost(stack, root, Len(stack))
        BY CurIs DEF ParseName, MemoryRight, CopiesRight
    <2>2. x \in Seq(1 .. 255) /\ x \in Strings /\ "string" \in Types /\ x # NoName
        BY <1>2, StringIs, NullAssumption DEF ParseName, Strings, Types
    <2>3. /\ heap' = [heap EXCEPT ![cur] = v] /\ copies' = copies + 1 /\ pc' = "colon"
          /\ UNCHANGED <<stack, root, cur>>
        BY <1>2, <2>1 DEF ParseName, Becomes, HeapOK, WithName
    <2> HIDE DEF x
    <2>4. /\ v \in Cell(D) /\ v.next = heap[cur].next /\ v.prev = heap[cur].prev
          /\ v.child = heap[cur].child /\ v.type = "string" /\ v.copy = heap[cur].copy
          /\ v.value = heap[cur].value /\ v.string = x
        <3>1. heap[cur] \in Cell(D) /\ "string" \in Types /\ x \in Strings
            BY <2>1, <2>2
        <3> HIDE DEF D
        <3>q. QED BY <3>1, Titled
    <2> HIDE DEF v
    <2>5. HeapOK(heap') /\ DOMAIN heap' = D /\ heap'[cur] = v /\ \A i \in D : i # cur => heap'[i] = heap[i]
        BY <2>1, <2>3, <2>4, Revalued
    <2>6. OwnedStrings(heap', D) = OwnedStrings(heap, D) + 1
        <3>1. \A i \in D : heap'[i].copy = heap[i].copy /\ (i # cur => heap'[i].string = heap[i].string)
            BY <2>4, <2>5
        <3>2. heap[cur].string = NoName /\ heap'[cur].string # NoName
            BY <2>1, <2>2, <2>4, <2>5
        <3>q. QED BY <2>1, <3>1, <3>2, OwnedName
    <2>7. CopiesRight' /\ CurRight' /\ pc' \notin Outside
        BY <2>1, <2>3, <2>4, <2>5, <2>6 DEF CopiesRight, CurRight, Outside
    <2>8. v.type # "num" /\ (v.copy => v.value \in Seq(1 .. 255))
        BY <2>1, <2>4
    <2>q. QED BY <2>1, <2>3, <2>4, <2>7, <2>8, SameTree
<1>q. QED BY <1>1, <1>2

(* The colon behind a name.                                                *)
LEMMA ColonMemory == MemoryRight /\ stack # << >> /\ ParseColon => MemoryRight'
<1> SUFFICES ASSUME MemoryRight, stack # << >>, ParseColon PROVE MemoryRight'
    OBVIOUS
<1>1. CASE FailMember
    BY <1>1, FailMemory DEF ParseColon
<1>2. CASE ~FailMember
    <2>1. pc = "colon" /\ pc' = "value" /\ UNCHANGED <<heap, copies, stack, root, cur>>
        BY <1>2 DEF ParseColon, SameMemory, Becomes
    <2>q. QED BY <2>1, SameMemoryRight DEF MemoryRight, CurRight, Outside
<1>q. QED BY <1>1, <1>2

(* Nothing between the brackets, or the first member.                      *)
LEMMA FirstMemory == MemoryRight /\ stack # << >> /\ FirstMember => MemoryRight'
<1> SUFFICES ASSUME MemoryRight, stack # << >>, FirstMember PROVE MemoryRight'
    OBVIOUS
<1>1. CASE Succeed
    BY <1>1, SucceedMemory DEF FirstMember
<1>2. CASE ~Succeed
    <2>1. pc' = "member" /\ UNCHANGED <<heap, copies, stack, root>>
        BY <1>2 DEF FirstMember
    <2>q. QED BY <2>1, SameMemoryRight DEF CurRight, Outside
<1>q. QED BY <1>1, <1>2

(* Behind a member.                                                        *)
LEMMA NextMemory == MemoryRight /\ NextMember => MemoryRight'
<1> SUFFICES ASSUME MemoryRight, NextMember PROVE MemoryRight'
    OBVIOUS
<1>1. stack # << >> /\ UNCHANGED root
    BY DEF NextMember
<1>2. CASE FailMember
    BY <1>1, <1>2, FailMemory
<1>3. CASE Succeed /\ UNCHANGED copies
    BY <1>1, <1>3, SucceedMemory
<1>4. CASE SameMemory /\ pc' = "member" /\ UNCHANGED stack
    BY <1>1, <1>4, SameMemoryRight DEF CurRight, Outside, SameMemory, Becomes
<1>q. QED BY <1>2, <1>3, <1>4 DEF NextMember

(* The document is deleted, or was not complete.                           *)
LEMMA EmptiedMemory ==
    ASSUME MemoryRight, stack = << >>, Deleted(root), root' = NULL, UNCHANGED stack,
           pc' \in {"done", "deleted"}
    PROVE  MemoryRight'
<1>1. HeapOK(heap) /\ Shape(heap, stack, root) /\ ValuesRight /\ CopiesRight
    BY DEF MemoryRight, Shape
<1>2. Len(stack) = 0 /\ First(stack, root, 0) = root
    BY DEF First
<1>3. At(root) \subseteq DOMAIN heap /\ DOMAIN heap \subseteq Freed(heap, root)
    <2>1. 0 \in 0 .. Len(stack) /\ \A n \in 0 .. Len(stack) : n = 0
        BY <1>2
    <2>2. At(First(stack, root, 0)) \subseteq DOMAIN heap
        BY <1>1, <2>1 DEF Shape
    <2>3. \A i \in DOMAIN heap : i \in Below(heap, stack, root, 0)
        BY <1>1, <2>1 DEF Shape
    <2>q. QED BY <1>2, <2>2, <2>3 DEF Below
<1>4. /\ heap' = [i \in DOMAIN heap \ Freed(heap, root) |-> heap[i]]
      /\ ValuesRight' /\ CopiesRight'
    BY <1>1, <1>3, DeletedIs
<1>5. DOMAIN heap' = {}
    BY <1>3, <1>4
<1>6. Shape(heap', << >>, NULL)
    BY <1>5, EmptyShape
<1>7. Shape(heap, stack, root)'
    BY <1>6
<1>q. QED BY <1>4, <1>7 DEF MemoryRight, CurRight, Outside

(* Memory is as it was, where no item is read.                             *)
LEMMA StillMemory ==
    ASSUME MemoryRight, UNCHANGED <<heap, copies, stack, root>>,
           pc' \notin {"start", "value", "name", "colon"}, pc' \in Outside => stack = << >>
    PROVE  MemoryRight'
BY DEF MemoryRight, ValuesRight, CopiesRight, CurRight

(* The parser returns.                                                     *)
LEMMA FinishMemory == MemoryRight /\ Finish => MemoryRight'
<1> SUFFICES ASSUME MemoryRight, Finish PROVE MemoryRight'
    OBVIOUS
<1>1. stack = << >> /\ UNCHANGED stack /\ pc' = "done"
    BY DEF Finish
<1>2. CASE SameMemory /\ UNCHANGED root
    BY <1>1, <1>2, StillMemory DEF SameMemory, Becomes
<1>3. CASE Deleted(root) /\ root' = NULL
    BY <1>1, <1>3, EmptiedMemory
<1>q. QED BY <1>2, <1>3 DEF Finish

(* Every step keeps memory right.                                          *)
LEMMA MemoryStep ==
    MemoryRight /\ DepthRight /\ TextRight /\ [DocNext]_doc_vars => MemoryRight'
<1> SUFFICES ASSUME MemoryRight, DepthRight, TextRight, [DocNext]_doc_vars PROVE MemoryRight'
    OBVIOUS
<1>0. ASSUME pc \in {"open", "member", "name", "colon"} PROVE stack # << >>
    BY <1>0 DEF DepthRight
<1>1. CASE Supply
    BY <1>1 DEF Supply, parse_vars, mem_vars, MemoryRight, ValuesRight, CopiesRight, CurRight
<1>2. CASE Start
    BY <1>2, StartMemory
<1>3. CASE ParseWord \/ ParseNumber \/ ParseStringValue
    BY <1>3, WordMemory, NumberMemory, StringMemory
<1>4. CASE \E kind \in {"array", "object"} : Open(kind)
    BY <1>4, OpenMemory
<1>5. CASE Reject
    BY <1>5, StillMemory DEF Reject, Return, mem_vars, Outside
<1>6. CASE FirstMember
    BY <1>0, <1>6, FirstMemory DEF FirstMember
<1>7. CASE NewMember
    BY <1>0, <1>7, NewMemberMemory DEF NewMember
<1>8. CASE ParseName
    BY <1>0, <1>8, NameMemory DEF ParseName
<1>9. CASE ParseColon
    BY <1>0, <1>9, ColonMemory DEF ParseColon
<1>10. CASE NextMember
    BY <1>10, NextMemory
<1>11. CASE Finish
    BY <1>11, FinishMemory
<1>12. CASE /\ pc = "done"
            /\ \E format \in BOOLEAN :
                  DoPrint(format) \/ DoPrintBuffered(format) \/ DoPrintPreallocated(format)
    <2>1. pc' = "printed" /\ UNCHANGED <<heap, copies, stack, root>>
        BY <1>12 DEF DoPrint, DoPrintBuffered, DoPrintPreallocated, Reports
    <2>q. QED BY <1>12, <2>1, StillMemory DEF MemoryRight, Outside
<1>13. CASE DeleteDocument
    <2>1. stack = << >>
        BY <1>13 DEF DeleteDocument, MemoryRight, Outside
    <2>q. QED BY <1>13, <2>1, EmptiedMemory DEF DeleteDocument
<1>14. CASE UNCHANGED doc_vars
    BY <1>14 DEF doc_vars, vars, parse_vars, mem_vars, MemoryRight, ValuesRight, CopiesRight, CurRight
<1>q. QED BY <1>1, <1>2, <1>3, <1>4, <1>5, <1>6, <1>7, <1>8, <1>9, <1>10, <1>11, <1>12,
             <1>13, <1>14 DEF DocNext, Step, Parse

(* Memory is right at first.                                               *)
LEMMA MemoryInit == DocInit => MemoryRight
<1> SUFFICES ASSUME DocInit PROVE MemoryRight
    OBVIOUS
<1>1. DOMAIN heap = {} /\ stack = << >> /\ root = NULL /\ copies = 0 /\ pc = "start"
    BY DEF DocInit, Init
<1>2. Shape(heap, stack, root)
    BY <1>1, EmptyShape
<1>3. OwnedStrings(heap, DOMAIN heap) = 0
    <2>1. \A S : {i \in {} : heap[i].copy} = {} /\ {i \in {} : heap[i].string # NoName} = {}
        OBVIOUS
    <2>q. QED BY <1>1, <2>1, FS_EmptySet DEF OwnedStrings
<1>q. QED BY <1>1, <1>2, <1>3 DEF MemoryRight, CurRight, ValuesRight, CopiesRight, Outside
-----------------------------------------------------------------------------
(* The text grows by a lexeme, up to its bound.                            *)
LEMMA TextStep == TextRight /\ [DocNext]_doc_vars => TextRight'
<1> SUFFICES ASSUME TextRight, [DocNext]_doc_vars PROVE TextRight'
    OBVIOUS
<1>1. CASE Supply
    <2>1. PICK t \in Following : text' = Append(text, t)
        BY <1>1 DEF Supply
    <2> DEFINE F == FirstLexemes  n == Len(text)
    <2>2. t \in F /\ Nul \in F
        BY DEF Following, FirstLexemes, Lexemes
    <2>3. text \in Seq(F) /\ n \in Nat /\ n <= MaxText + 1 /\ ~Ended
        BY <1>1 DEF TextRight, Supply, Starved
    <2>4. n # MaxText + 1
        BY <2>3 DEF TextRight
    <2>5. n = MaxText => t = Nul
        BY LimitAssumption DEF Following
    <2>6. text' \in Seq(F) /\ Len(text') = n + 1 /\ text'[n + 1] = t /\ text' # << >>
        <3> HIDE DEF F
        <3>q. QED BY <2>1, <2>2, <2>3, AppendProperties
    <2>7. Last(text') = t
        BY <2>6 DEF Last
    <2>8. Ended' <=> t = Nul
        BY <2>6, <2>7 DEF Ended
    <2>q. QED BY <2>3, <2>4, <2>5, <2>6, <2>8, LimitAssumption DEF TextRight
<1>2. CASE UNCHANGED text
    BY <1>2 DEF TextRight, Ended
<1>3. CASE Step /\ ~Supply
    BY <1>2, <1>3 DEF Step, Parse, Start, ParseWord, ParseNumber, ParseStringValue, Open, Reject,
          FirstMember, NewMember, ParseName, ParseColon, NextMember, Finish, text_vars
<1>4. CASE DocNext /\ ~Step
    BY <1>2, <1>4 DEF DocNext, DoPrint, DoPrintBuffered, DoPrintPreallocated, Reports,
          DeleteDocument, text_vars
<1>q. QED BY <1>1, <1>2, <1>3, <1>4 DEF doc_vars, vars, text_vars, DocNext, Step
-----------------------------------------------------------------------------
(* Where each step leaves the parser.                                      *)

(* The kinds of what is being read.                                        *)
LEMMA KindIs ==
    ASSUME MemoryRight, stack # << >>
    PROVE  /\ Last(stack).kind \in {"array", "object"}
           /\ Close[Last(stack).kind] \in {"]", "}"}
<1>1. stack \in Seq(Frames)
    BY DEF MemoryRight, Shape
<1>2. Last(stack) \in Frames
    BY <1>1, FrontIs
<1>3. Last(stack).kind \in {"array", "object"}
    BY <1>2 DEF Frames
<1>4. CASE Last(stack).kind = "array"
    <2>1. Close["array"] = "]"
        BY DEF Close
    <2>q. QED BY <1>3, <1>4, <2>1
<1>5. CASE Last(stack).kind = "object"
    <2>1. Close["object"] = "}"
        BY DEF Close
    <2>q. QED BY <1>3, <1>5, <2>1
<1>q. QED BY <1>3, <1>4, <1>5

(* The parser goes on behind a lexeme, or stays before it.                 *)
LEMMA Forward ==
    ASSUME TextRight, PlaceRight, pc # "member", ~Starved, text' = text, pc' # "open",
           \/ offset' \in {offset, Here} /\ pc' # "member"
           \/ offset' = Here + 1 /\ pc' # "member" /\ text[Here].kind # "nul"
           \/ offset' = Here /\ pc' = "member" /\ text[Here].kind # "nul"
           \/ offset' = Here - 1 /\ pc' = "member" /\ offset >= 2
    PROVE  PlaceRight'
<1>1. /\ Here \in offset .. Len(text) /\ Here \in DOMAIN text
      /\ Ended /\ text[Here].kind # "nul" => Here + 1 <= Len(text)
    BY HereIs
<1>2. Len(text) \in Nat
    BY DEF TextRight
<1>3. Ended' <=> Ended
    BY DEF Ended
<1>4. /\ offset \in 1 .. Len(text) + 1 /\ offset <= IF Ended THEN Len(text) ELSE Len(text) + 1
    BY DEF PlaceRight, Standing
<1> DEFINE H == Here  n == Len(text)
<1> HIDE DEF H
<1>5. /\ offset' \in 1 .. n + 1
      /\ (IF pc' = "member" THEN offset' + 1 ELSE offset') <= IF Ended THEN n ELSE n + 1
    <2>1. /\ H \in offset .. n /\ offset \in 1 .. n + 1 /\ n \in Nat
          /\ Ended /\ text[H].kind # "nul" => H + 1 <= n
        BY <1>1, <1>2, <1>4 DEF H
    <2> HIDE DEF n
    <2>2. CASE offset' \in {offset, H} /\ pc' # "member"
        BY <1>4, <2>1, <2>2 DEF n
    <2>3. CASE offset' = H + 1 /\ pc' # "member" /\ text[H].kind # "nul"
        BY <2>1, <2>3
    <2>4. CASE offset' = H /\ pc' = "member" /\ text[H].kind # "nul"
        BY <2>1, <2>4
    <2>5. CASE offset' = H - 1 /\ pc' = "member" /\ offset >= 2
        BY <2>1, <2>5
    <2>q. QED BY <2>2, <2>3, <2>4, <2>5 DEF H
<1>q. QED BY <1>3, <1>5 DEF PlaceRight, Standing

(* The parser stays where it is.                                           *)
LEMMA Staying ==
    ASSUME TextRight, PlaceRight, UNCHANGED <<text, offset>>, pc' \notin {"member", "open"}
    PROVE  PlaceRight'
<1>1. (Ended' <=> Ended) /\ Len(text) \in Nat
    BY DEF Ended, TextRight
<1>q. QED BY <1>1 DEF PlaceRight, Standing

(* An array or object begins.                                              *)
LEMMA OpenPlace ==
    ASSUME TextRight, PlaceRight, NEW kind \in {"array", "object"}, Open(kind)
    PROVE  PlaceRight'
<1>1. pc = "value" /\ ~Starved /\ text' = text
    BY DEF Open, text_vars
<1>2. text[Here].kind # "nul"
    BY DEF Open, Opens, Sees
<1>3. CASE TooDeep
    BY <1>1, <1>3, Forward DEF Open, Return
<1>4. CASE ~TooDeep
    <2>1. offset' = Here + 1 /\ pc' = "open"
        BY <1>4 DEF Open
    <2>2. /\ Here \in offset .. Len(text) /\ (Ended => Here + 1 <= Len(text))
          /\ offset \in 1 .. Len(text) + 1 /\ Len(text) \in Nat /\ (Ended' <=> Ended)
        BY <1>1, <1>2, HereIs DEF PlaceRight, TextRight, Ended
    <2> DEFINE H == Here  n == Len(text)
    <2> HIDE DEF H
    <2>3. /\ offset' \in 1 .. n + 1 /\ offset' >= 2
          /\ offset' <= IF Ended THEN n ELSE n + 1
        BY <2>1, <2>2 DEF H
    <2>q. QED BY <1>1, <2>1, <2>2, <2>3 DEF PlaceRight, Standing
<1>q. QED BY <1>3, <1>4

(* A member begins.                                                        *)
LEMMA MemberPlace == TextRight /\ PlaceRight /\ NewMember => PlaceRight'
<1> SUFFICES ASSUME TextRight, PlaceRight, NewMember PROVE PlaceRight'
    OBVIOUS
<1>1. /\ pc = "member" /\ text' = text /\ pc' \notin {"member", "open"}
      /\ offset' \in {offset, offset + 1}
    BY DEF NewMember, FailMember, Return, text_vars
<1>2. Len(text) \in Nat /\ (Ended' <=> Ended)
    BY <1>1 DEF TextRight, Ended
<1> DEFINE n == Len(text)
<1>3. offset \in 1 .. n + 1 /\ offset + 1 <= IF Ended THEN n ELSE n + 1
    BY <1>1 DEF PlaceRight, Standing
<1>4. offset' \in 1 .. n + 1 /\ offset' <= IF Ended THEN n ELSE n + 1
    <2> HIDE DEF n
    <2>1. n \in Nat
        BY <1>2 DEF n
    <2>q. QED BY <1>1, <1>3, <2>1
<1>q. QED BY <1>1, <1>2, <1>4 DEF PlaceRight, Standing

(* The text goes on.                                                       *)
LEMMA SupplyPlace == TextRight /\ PlaceRight /\ Supply => PlaceRight'
<1> SUFFICES ASSUME TextRight, PlaceRight, Supply PROVE PlaceRight'
    OBVIOUS
<1>1. PICK t \in Following : text' = Append(text, t)
    BY DEF Supply
<1>2. ~Ended /\ UNCHANGED <<offset, pc>> /\ Len(text) \in Nat
    BY DEF Supply, Starved, parse_vars, TextRight
<1>3. Len(text') = Len(text) + 1
    BY <1>1, AppendProperties DEF TextRight, Following, FirstLexemes
<1>q. QED BY <1>2, <1>3 DEF PlaceRight, Standing

(* Every step keeps the parser in its place.                               *)
LEMMA PlaceStep ==
    TextRight /\ PlaceRight /\ DepthRight /\ MemoryRight /\ [DocNext]_doc_vars => PlaceRight'
<1> SUFFICES ASSUME TextRight, PlaceRight, DepthRight, MemoryRight, [DocNext]_doc_vars
             PROVE  PlaceRight'
    OBVIOUS
<1>0. ASSUME pc \in {"open", "member", "name", "colon"} PROVE stack # << >>
    BY <1>0 DEF DepthRight
<1>1. CASE Supply
    BY <1>1, SupplyPlace
<1>2. CASE Start
    BY <1>2, Staying DEF Start, text_vars
<1>3. CASE ParseWord \/ ParseNumber \/ ParseStringValue \/ Reject
    BY <1>3, Forward DEF ParseWord, ParseNumber, ParseStringValue, Reject, Return, text_vars, Sees
<1>4. CASE \E kind \in {"array", "object"} : Open(kind)
    BY <1>4, OpenPlace
<1>5. CASE FirstMember
    <2>1. /\ Close[Last(stack).kind] # "nul" /\ pc = "open" /\ ~Starved /\ text' = text
          /\ offset >= 2
        BY <1>0, <1>5, KindIs DEF FirstMember, text_vars, PlaceRight
    <2>2. CASE Succeed /\ Sees(Close[Last(stack).kind])
        BY <2>1, <2>2, Forward DEF Succeed, Return, Sees
    <2>3. CASE offset' = Here - 1 /\ pc' = "member"
        BY <2>1, <2>3, Forward
    <2>q. QED BY <1>5, <2>2, <2>3 DEF FirstMember
<1>6. CASE NewMember
    BY <1>6, MemberPlace
<1>7. CASE ParseName \/ ParseColon
    BY <1>7, Forward DEF ParseName, ParseColon, FailMember, Return, text_vars, Sees
<1>8. CASE NextMember
    <2>1. stack # << >> /\ pc = "return" /\ text' = text /\ (ok => ~Starved)
        BY <1>8 DEF NextMember, text_vars
    <2>2. CASE ok /\ Sees(",") /\ offset' = Here /\ pc' = "member"
        BY <2>1, <2>2, Forward DEF Sees
    <2>3. CASE ok /\ Sees(Close[Last(stack).kind]) /\ Succeed
        BY <2>1, <2>3, KindIs, Forward DEF Succeed, Return, Sees
    <2>4. CASE FailMember /\ offset' = IF ok THEN Here ELSE offset
        BY <2>1, <2>4, Forward, Staying DEF FailMember, Return
    <2>q. QED BY <1>8, <2>2, <2>3, <2>4 DEF NextMember
<1>9. CASE Finish
    <2>1. /\ pc = "return" /\ text' = text /\ pc' = "done"
          /\ offset' = IF require /\ ok THEN Here ELSE offset
          /\ require /\ ok => ~Starved
        BY <1>9 DEF Finish, text_vars
    <2>q. QED BY <2>1, Forward, Staying
<1>10. CASE DocNext /\ ~Step
    BY <1>10, Staying DEF DocNext, DoPrint, DoPrintBuffered, DoPrintPreallocated, Reports,
          DeleteDocument, text_vars
<1>11. CASE UNCHANGED doc_vars
    BY <1>11 DEF doc_vars, vars, text_vars, parse_vars, PlaceRight, Standing, Ended
<1>q. QED BY <1>1, <1>2, <1>3, <1>4, <1>5, <1>6, <1>7, <1>8, <1>9, <1>10, <1>11
          DEF DocNext, Step, Parse
-----------------------------------------------------------------------------
(* A lexeme at least was read for each item that is allocated, so that     *)
(* their addresses are within the bound.                                   *)
Items == Cardinality(DOMAIN heap)

CountRight ==
    /\ DOMAIN heap \subseteq Address /\ cur \in Address \union {NULL}
    /\ pc \in {"value", "name", "member"} => Items <= offset
    /\ pc \in {"open", "colon"} \/ (pc = "return" /\ ok) => Items <= offset - 1

(* No item is allocated.                                                   *)
LEMMA NoMore ==
    ASSUME MemoryRight, MemoryRight', DOMAIN heap' \subseteq DOMAIN heap
    PROVE  Items \in Nat /\ Items' \in Nat /\ Items' <= Items
<1> DEFINE D == DOMAIN heap  E == DOMAIN heap'
<1>1. IsFiniteSet(D) /\ E \subseteq D
    BY DEF MemoryRight, Shape, HeapOK
<1> HIDE DEF D, E
<1>2. IsFiniteSet(E) /\ Cardinality(E) <= Cardinality(D)
    BY <1>1, FS_Subset
<1>3. Cardinality(E) \in Nat /\ Cardinality(D) \in Nat
    BY <1>1, <1>2, FS_CardinalityType
<1>q. QED BY <1>2, <1>3 DEF Items, D, E

(* What does not allocate.                                                 *)
LEMMA CountLess ==
    ASSUME CountRight, MemoryRight, MemoryRight', DOMAIN heap' \subseteq DOMAIN heap, cur' = cur,
           offset \in Nat, offset' \in Nat,
           pc' \in {"value", "name", "member"} => Items <= offset',
           pc' \in {"open", "colon"} \/ (pc' = "return" /\ ok') => Items <= offset' - 1
    PROVE  CountRight'
<1>1. Items \in Nat /\ Items' \in Nat /\ Items' <= Items
    BY NoMore
<1> DEFINE N == Items  M == Items'
<1>2. N \in Nat /\ M \in Nat /\ M <= N
    BY <1>1
<1>3. /\ DOMAIN heap' \subseteq Address /\ cur' \in Address \union {NULL}
      /\ pc' \in {"value", "name", "member"} => N <= offset'
      /\ pc' \in {"open", "colon"} \/ (pc' = "return" /\ ok') => N <= offset' - 1
    BY DEF CountRight
<1> HIDE DEF N, M
<1>4. /\ pc' \in {"value", "name", "member"} => M <= offset'
      /\ pc' \in {"open", "colon"} \/ (pc' = "return" /\ ok') => M <= offset' - 1
    BY <1>2, <1>3
<1>q. QED BY <1>3, <1>4 DEF CountRight, Address, M

(* A member's address is within the bound.                                 *)
LEMMA MemberCount ==
    ASSUME CountRight, TextRight, PlaceRight, MemoryRight, MemoryRight', NewMember
    PROVE  CountRight'
<1>1. pc = "member" /\ Items <= offset
    BY DEF NewMember, CountRight
<1>2. /\ offset \in Nat /\ Len(text) \in Nat
      /\ offset + 1 <= IF Ended THEN Len(text) ELSE Len(text) + 1
      /\ Len(text) <= MaxText + 1 /\ (Len(text) = MaxText + 1 => Ended) /\ MaxText \in Nat
    BY <1>1, LimitAssumption DEF PlaceRight, TextRight, Standing
<1>3. offset + 1 <= MaxText + 1
    BY <1>2
<1>4. Fresh \in 1 .. Items + 1 /\ Items \in Nat /\ IsFiniteSet(DOMAIN heap)
    BY FreshIs DEF MemoryRight, Shape, HeapOK, Items
<1>5. CASE FailMember /\ UNCHANGED <<offset, cur>>
    <2>1. DOMAIN heap' \subseteq DOMAIN heap /\ pc' = "return" /\ ok' = FALSE
        BY <1>5 DEF FailMember, Deleted, Becomes, Return
    <2>q. QED BY <1>2, <1>5, <2>1, CountLess
<1>6. CASE ~(FailMember /\ UNCHANGED <<offset, cur>>)
    <2>1. /\ cur' = Fresh /\ offset' = offset + 1 /\ pc' \in {"value", "name"}
          /\ DOMAIN heap' = DOMAIN heap \union {Fresh}
        BY <1>6 DEF NewMember, WithItem
    <2> DEFINE x == Fresh  D == DOMAIN heap  E == DOMAIN heap'
    <2> HIDE DEF x
    <2>2. Cardinality(E) <= Cardinality(D) + 1
        <3>1. IsFiniteSet(D) /\ E = D \union {x}
            BY <1>4, <2>1 DEF x
        <3> HIDE DEF D, E
        <3>2. /\ Cardinality(D) \in Nat
              /\ Cardinality(D \union {x}) = IF x \in D THEN Cardinality(D) ELSE Cardinality(D) + 1
            BY <3>1, FS_AddElement, FS_CardinalityType
        <3>q. QED BY <3>1, <3>2
    <2>3. Items' \in Nat /\ Items' <= Items + 1
        <3>1. IsFiniteSet(DOMAIN heap')
            BY DEF MemoryRight, Shape, HeapOK
        <3>q. QED BY <2>2, <3>1, FS_CardinalityType DEF Items
    <2>4. Fresh \in Address /\ Items' <= offset'
        <3> HIDE DEF Items
        <3>q. QED BY <1>1, <1>2, <1>3, <1>4, <2>1, <2>3 DEF Address
    <2>q. QED BY <2>1, <2>4 DEF CountRight, Address
<1>q. QED BY <1>5, <1>6

(* Every step keeps the count right.                                       *)
LEMMA CountStep ==
    ASSUME CountRight, TextRight, PlaceRight, DepthRight, MemoryRight,
           TextRight', PlaceRight', MemoryRight', [DocNext]_doc_vars
    PROVE  CountRight'
<1>1. offset \in Nat /\ offset' \in Nat /\ offset >= 1
    BY DEF PlaceRight, TextRight
<1>2. ~Starved /\ pc # "member" => Here \in Nat /\ offset <= Here
    <2> SUFFICES ASSUME ~Starved, pc # "member" PROVE Here \in Nat /\ offset <= Here
        OBVIOUS
    <2>1. Here \in offset .. Len(text)
        BY HereIs
    <2> DEFINE H == Here
    <2> HIDE DEF H
    <2>q. QED BY <1>1, <2>1 DEF H
<1>3. Items \in Nat
    BY FS_CardinalityType DEF MemoryRight, Shape, HeapOK, Items
<1>4. /\ pc \in {"value", "name", "member"} => Items <= offset
      /\ pc \in {"open", "colon"} \/ (pc = "return" /\ ok) => Items <= offset - 1
    BY DEF CountRight
<1> DEFINE H == Here  N == Items
<1>5. /\ ~Starved /\ pc # "member" => H \in Nat /\ offset <= H
      /\ pc \in {"value", "name", "member"} => N <= offset
      /\ pc \in {"open", "colon"} \/ (pc = "return" /\ ok) => N <= offset - 1
      /\ N \in Nat
    BY <1>2, <1>3, <1>4
<1>6. ASSUME DOMAIN heap' \subseteq DOMAIN heap, cur' = cur,
             pc' \in {"value", "name", "member"} => N <= offset',
             pc' \in {"open", "colon"} \/ (pc' = "return" /\ ok') => N <= offset' - 1
      PROVE  CountRight'
    BY <1>1, <1>6, CountLess
<1>7. FailMember => DOMAIN heap' \subseteq DOMAIN heap /\ pc' = "return" /\ ok' = FALSE
    BY DEF FailMember, Deleted, Becomes, Return
<1> HIDE DEF N
<1>8. CASE Supply
    BY <1>5, <1>6, <1>8 DEF Supply, parse_vars, mem_vars
<1>9. CASE Start
    <2>1. DOMAIN heap = {} /\ pc = "start"
        BY <1>9 DEF Start, MemoryRight
    <2>2. CASE pc' = "done"
        BY <1>6, <1>9, <2>2 DEF Start
    <2>3. CASE pc' # "done"
        <3> DEFINE x == Fresh
        <3>1. cur' = x /\ pc' = "value" /\ DOMAIN heap' = {x} /\ offset' = offset
            BY <1>9, <2>1, <2>3 DEF Start, WithItem
        <3>2. Items = 0
            BY <2>1, FS_EmptySet DEF Items
        <3>3. x \in 1 .. 0 + 1
            BY <3>2, FreshIs DEF MemoryRight, Shape, HeapOK, Items
        <3> HIDE DEF x
        <3>4. Items' = 1
            BY <3>1, FS_Singleton DEF Items
        <3>q. QED BY <1>1, <3>1, <3>3, <3>4, LimitAssumption DEF CountRight, Address
    <2>q. QED BY <2>2, <2>3
<1>10. CASE ParseWord \/ ParseNumber \/ ParseStringValue \/ Reject
    <2>1. /\ DOMAIN heap' \subseteq DOMAIN heap /\ cur' = cur /\ pc = "value" /\ ~Starved
          /\ pc' = "return" /\ (ok' => offset' = H + 1)
        BY <1>10 DEF ParseWord, ParseNumber, ParseStringValue, Reject, Return, SameMemory, Becomes,
                     mem_vars
    <2> HIDE DEF H
    <2>c. H \in Nat /\ offset <= H /\ N <= offset /\ N \in Nat
        BY <1>1, <1>5, <2>1
    <2>2. pc' \in {"value", "name", "member"} => N <= offset'
        BY <2>1
    <2>3. pc' \in {"open", "colon"} \/ (pc' = "return" /\ ok') => N <= offset' - 1
        <3>1. CASE ok' = FALSE
            BY <2>1, <3>1
        <3>2. CASE offset' = H + 1
            <4>1. N <= offset' - 1
                BY <1>1, <2>c, <3>2
            <4>q. QED BY <4>1
        <3>q. QED BY <2>1, <3>1, <3>2
    <2>q. QED BY <1>6, <2>1, <2>2, <2>3
<1>11. CASE \E kind \in {"array", "object"} : Open(kind)
    <2>1. /\ DOMAIN heap' \subseteq DOMAIN heap /\ cur' = cur /\ pc = "value" /\ ~Starved
          /\ \/ pc' = "return" /\ ok' = FALSE
             \/ pc' = "open" /\ offset' = H + 1
        BY <1>11 DEF Open, Return, mem_vars
    <2> HIDE DEF H
    <2>c. H \in Nat /\ offset <= H /\ N <= offset /\ N \in Nat
        BY <1>1, <1>5, <2>1
    <2>2. pc' \in {"value", "name", "member"} => N <= offset'
        BY <2>1
    <2>3. pc' \in {"open", "colon"} \/ (pc' = "return" /\ ok') => N <= offset' - 1
        <3>1. CASE pc' = "return" /\ ok' = FALSE
            BY <2>1, <3>1
        <3>2. CASE offset' = H + 1
            <4>1. N <= offset' - 1
                BY <1>1, <2>c, <3>2
            <4>q. QED BY <4>1
        <3>q. QED BY <2>1, <3>1, <3>2
    <2>q. QED BY <1>6, <2>1, <2>2, <2>3
<1>12. CASE FirstMember
    <2>1. /\ DOMAIN heap' \subseteq DOMAIN heap /\ cur' = cur /\ pc = "open" /\ ~Starved
          /\ \/ pc' = "return" /\ offset' = H + 1
             \/ pc' = "member" /\ offset' = H - 1
        BY <1>12 DEF FirstMember, Succeed, Return
    <2> HIDE DEF H
    <2>c. H \in Nat /\ offset <= H /\ N <= offset - 1 /\ N \in Nat
        BY <1>1, <1>5, <2>1
    <2>2. pc' \in {"value", "name", "member"} => N <= offset'
        BY <1>1, <2>1, <2>c
    <2>3. pc' \in {"open", "colon"} \/ (pc' = "return" /\ ok') => N <= offset' - 1
        <3>1. CASE pc' = "return" /\ offset' = H + 1
            <4>1. N <= offset' - 1
                BY <1>1, <2>c, <3>1
            <4>q. QED BY <4>1
        <3>2. CASE pc' = "member"
            BY <3>2
        <3>q. QED BY <2>1, <3>1, <3>2
    <2>q. QED BY <1>6, <2>1, <2>2, <2>3
<1>13. CASE NewMember
    BY <1>13, MemberCount
<1>14. CASE ParseName \/ ParseColon
    <2>1. /\ DOMAIN heap' \subseteq DOMAIN heap /\ cur' = cur /\ pc \in {"name", "colon"} /\ ~Starved
          /\ \/ pc' = "return" /\ ok' = FALSE
             \/ pc' \in {"colon", "value"} /\ offset' = H + 1
        BY <1>7, <1>14 DEF ParseName, ParseColon, SameMemory, Becomes
    <2> HIDE DEF H
    <2>b. pc # "member" /\ ~Starved => H \in Nat /\ offset <= H
        BY <1>5
    <2>c. H \in Nat /\ offset <= H /\ N <= offset /\ N \in Nat
        BY <1>1, <1>5, <2>1, <2>b
    <2>2. pc' \in {"value", "name", "member"} => N <= offset'
        BY <1>1, <2>1, <2>c
    <2>3. pc' \in {"open", "colon"} \/ (pc' = "return" /\ ok') => N <= offset' - 1
        <3>1. CASE pc' = "return" /\ ok' = FALSE
            BY <3>1
        <3>2. CASE pc' \in {"colon", "value"} /\ offset' = H + 1
            <4>1. N <= offset' - 1
                BY <1>1, <2>c, <3>2
            <4>q. QED BY <4>1
        <3>q. QED BY <2>1, <3>1, <3>2
    <2>q. QED BY <1>6, <2>1, <2>2, <2>3
<1>15. CASE NextMember
    <2>1. /\ DOMAIN heap' \subseteq DOMAIN heap /\ cur' = cur /\ pc = "return" /\ (ok => ~Starved)
          /\ \/ pc' = "return" /\ ok' = FALSE
             \/ ok /\ pc' = "return" /\ offset' = H + 1
             \/ ok /\ pc' = "member" /\ offset' = H
        BY <1>7, <1>15 DEF NextMember, Succeed, SameMemory, Becomes, Return
    <2> HIDE DEF H
    <2>c. ok => H \in Nat /\ offset <= H /\ N <= offset - 1 /\ N \in Nat
        BY <1>1, <1>5, <2>1
    <2>2. pc' \in {"value", "name", "member"} => N <= offset'
        BY <1>1, <2>1, <2>c
    <2>3. pc' \in {"open", "colon"} \/ (pc' = "return" /\ ok') => N <= offset' - 1
        BY <1>1, <2>1, <2>c
    <2>q. QED BY <1>6, <2>1, <2>2, <2>3
<1>16. CASE Finish
    BY <1>6, <1>16 DEF Finish, SameMemory, Becomes, Deleted
<1>17. CASE DocNext /\ ~Step
    <2>1. DOMAIN heap' \subseteq DOMAIN heap /\ cur' = cur /\ pc' \in {"printed", "deleted"}
        BY <1>17 DEF DocNext, DoPrint, DoPrintBuffered, DoPrintPreallocated, Reports,
              DeleteDocument, Deleted, Becomes
    <2>q. QED BY <1>6, <2>1
<1>18. CASE UNCHANGED doc_vars
    BY <1>5, <1>6, <1>18 DEF doc_vars, vars, parse_vars, mem_vars
<1>q. QED BY <1>8, <1>9, <1>10, <1>11, <1>12, <1>13, <1>14, <1>15, <1>16, <1>17, <1>18
          DEF DocNext, Step, Parse
-----------------------------------------------------------------------------
(* Results, and the invariant.                                             *)

(* Results, and what the program counter may be.                           *)
ResultRight ==
    /\ require \in BOOLEAN /\ ok \in BOOLEAN /\ faults \in 0 .. MaxFaults
    /\ pc \in {"start", "value", "open", "member", "name", "colon", "return", "done",
              "printed", "deleted"}

(* Allocations fail one at a time, up to the bound.                        *)
LEMMA FaultIs ==
    ASSUME faults \in 0 .. MaxFaults,
           \/ UNCHANGED faults
           \/ Fault
           \/ \E n \in Failing : Faults(n)
    PROVE  faults' \in 0 .. MaxFaults
<1>1. CASE UNCHANGED faults \/ Fault
    BY <1>1, LimitAssumption DEF Fault
<1>2. CASE \E n \in Failing : Faults(n)
    <2>1. PICK n \in Failing : Faults(n)
        BY <1>2
    <2>2. CASE faults < MaxFaults
        BY <2>1, <2>2, LimitAssumption DEF Faults
    <2>3. CASE ~(faults < MaxFaults)
        BY <2>1, <2>3, LimitAssumption DEF Faults, Failing
    <2>q. QED BY <2>2, <2>3
<1>q. QED BY <1>1, <1>2

(* Every step keeps results of their kinds.                                *)
LEMMA ResultStep == ResultRight /\ [DocNext]_doc_vars => ResultRight'
<1> SUFFICES ASSUME ResultRight, [DocNext]_doc_vars PROVE ResultRight'
    OBVIOUS
<1>1. CASE Supply
    BY <1>1 DEF Supply, parse_vars, mem_vars, ResultRight
<1>2. CASE Start
    BY <1>2, FaultIs DEF Start, text_vars, ResultRight
<1>3. CASE ParseWord \/ ParseNumber \/ Reject
    BY <1>3 DEF ParseWord, ParseNumber, Reject, Return, text_vars, mem_vars, ResultRight
<1>4. CASE ParseStringValue
    BY <1>4, FaultIs DEF ParseStringValue, Return, text_vars, ResultRight
<1>5. CASE \E kind \in {"array", "object"} : Open(kind)
    BY <1>5 DEF Open, Return, text_vars, mem_vars, ResultRight
<1>6. CASE FirstMember
    BY <1>6 DEF FirstMember, Succeed, Return, text_vars, ResultRight
<1>7. CASE NewMember
    BY <1>7, FaultIs DEF NewMember, FailMember, Return, text_vars, ResultRight
<1>8. CASE ParseName
    BY <1>8, FaultIs DEF ParseName, FailMember, Return, text_vars, ResultRight
<1>9. CASE ParseColon
    BY <1>9 DEF ParseColon, FailMember, Return, text_vars, ResultRight
<1>10. CASE NextMember
    BY <1>10 DEF NextMember, Succeed, FailMember, Return, text_vars, ResultRight
<1>11. CASE Finish
    BY <1>11 DEF Finish, text_vars, ResultRight
<1>12. CASE \E format \in BOOLEAN :
                DoPrint(format) \/ DoPrintBuffered(format) \/ DoPrintPreallocated(format)
    <2>1. /\ pc' = "printed" /\ UNCHANGED <<text, require, ok>>
          /\ UNCHANGED faults \/ \E n \in Failing : Faults(n)
        BY <1>12 DEF DoPrint, DoPrintBuffered, DoPrintPreallocated, Reports, text_vars
    <2>q. QED BY <2>1, FaultIs DEF ResultRight
<1>13. CASE DeleteDocument
    BY <1>13 DEF DeleteDocument, text_vars, ResultRight
<1>14. CASE UNCHANGED doc_vars
    BY <1>14 DEF doc_vars, vars, text_vars, parse_vars, mem_vars, ResultRight
<1>q. QED BY <1>1, <1>2, <1>3, <1>4, <1>5, <1>6, <1>7, <1>8, <1>9, <1>10, <1>11, <1>12,
             <1>13, <1>14 DEF DocNext, Step, Parse
-----------------------------------------------------------------------------
(* All of it.                                                              *)
DocRight == /\ DepthRight /\ TextRight /\ PlaceRight /\ MemoryRight /\ CountRight /\ ResultRight

(* It holds at first.                                                      *)
LEMMA DocRightInit == DocInit => DocRight
<1> SUFFICES ASSUME DocInit PROVE DocRight
    OBVIOUS
<1>1. DepthRight /\ MemoryRight
    BY Initially, MemoryInit
<1>2. Len(text) = 0 /\ text \in Seq(FirstLexemes) /\ ~Ended
    BY DEF DocInit, Init, Ended
<1>3. TextRight
    BY <1>2, LimitAssumption DEF TextRight
<1>5. PlaceRight
    BY <1>2 DEF DocInit, Init, PlaceRight, Standing
<1>6. ResultRight
    <2>1. require \in BOOLEAN /\ ok = FALSE /\ faults = 0 /\ pc = "start"
        BY DEF DocInit, Init
    <2>2. ok \in BOOLEAN
        BY <2>1
    <2>3. faults \in 0 .. MaxFaults
        BY <2>1, LimitAssumption
    <2>q. QED BY <2>1, <2>2, <2>3 DEF ResultRight
<1>4. CountRight
    BY DEF DocInit, Init, CountRight
<1>q. QED BY <1>1, <1>3, <1>4, <1>5, <1>6 DEF DocRight

(* Every step keeps it.                                                    *)
LEMMA DocRightStep == DocRight /\ [DocNext]_doc_vars => DocRight'
<1> SUFFICES ASSUME DocRight, [DocNext]_doc_vars PROVE DocRight'
    OBVIOUS
<1>1. DepthRight /\ TextRight /\ PlaceRight /\ MemoryRight /\ CountRight /\ ResultRight
    BY DEF DocRight
<1>2. DepthRight' /\ TextRight' /\ ResultRight'
    BY <1>1, Inductive, TextStep, ResultStep
<1>3. MemoryRight' /\ PlaceRight'
    BY <1>1, MemoryStep, PlaceStep
<1>4. CountRight'
    BY <1>1, <1>2, <1>3, CountStep
<1>q. QED BY <1>2, <1>3, <1>4 DEF DocRight

(* It always holds.                                                        *)
LEMMA DocRightAlways == DocSpec => []DocRight
BY DocRightInit, DocRightStep, PTL DEF DocSpec
-----------------------------------------------------------------------------
(* In texts of any length, wherever the parser looks at a lexeme there is  *)
(* one.                                                                    *)
THEOREM TextIsReadInside == DocSpec => []ReadsInside
<1>1. DocRight => ReadsInside
    <2> SUFFICES ASSUME TextRight, PlaceRight PROVE ReadsInside
        BY DEF DocRight
    <2>1. pc # "member" /\ ~Starved => Here \in DOMAIN text
        BY HereIs
    <2>q. QED BY <2>1 DEF ReadsInside
<1>q. QED BY <1>1, DocRightAlways, PTL

(* However long the text is, whatever is wrong with it and whichever       *)
(* allocation fails, no item and no string is lost, and none is owned      *)
(* twice.                                                                  *)
THEOREM NothingIsLost == DocSpec => []Owned
<1>1. MemoryRight => Owned
    <2> SUFFICES ASSUME MemoryRight PROVE Owned
        OBVIOUS
    <2> DEFINE tree(n) == Freed(heap, Top(n))
               parts == 0 .. Len(stack)
    <2>1. \A n : tree(n) = Below(heap, stack, root, n)
        BY DEF Top, Below, First
    <2>2. Shape(heap, stack, root) /\ HeapOK(heap)
        BY DEF MemoryRight, Shape
    <2>3. \A n \in parts : tree(n) \subseteq DOMAIN heap
        BY <2>1, <2>2, ShapeLists
    <2>4. \A i \in DOMAIN heap : \E n \in parts : i \in tree(n)
        BY <2>1, <2>2 DEF Shape
    <2>5. \A n, m \in parts : n # m => tree(n) \intersect tree(m) = {}
        BY <2>1, <2>2 DEF Shape
    <2>6. DOMAIN heap = UNION {tree(n) : n \in parts}
        <3> HIDE DEF tree, parts
        <3>q. QED BY <2>3, <2>4
    <2>7. copies = OwnedStrings(heap, DOMAIN heap)
        BY DEF MemoryRight, CopiesRight
    <2>q. QED BY <2>5, <2>6, <2>7 DEF Owned
<1>q. QED BY <1>1, DocRightAlways, PTL DEF DocRight

(* The items of the stack are allocated.                                   *)
LEMMA StackIs ==
    ASSUME MemoryRight, NEW f \in Range(stack)
    PROVE  /\ f.kind \in {"array", "object"} /\ f.item \in DOMAIN heap
           /\ {f.head, f.last} \subseteq DOMAIN heap \union {NULL}
<1>1. Shape(heap, stack, root) /\ stack \in Seq(Frames)
    BY DEF MemoryRight, Shape
<1>2. PICK n \in 1 .. Len(stack) : f = stack[n]
    BY <1>1 DEF Range
<1>3. Len(stack) \in Nat /\ n \in 0 .. Len(stack) /\ n - 1 \in 0 .. Len(stack) /\ n # 0
    BY <1>1
<1>4. f \in Frames
    BY <1>1, <1>2
<1>5. FrameOK(heap, stack, root, n)
    BY <1>1 DEF Shape
<1>6. f.item \in DOMAIN heap
    <2>1. f.item = Inmost(stack, root, n - 1) /\ f.item # NULL
        BY <1>2, <1>5 DEF FrameOK
    <2>q. QED BY <1>1, <1>3, <2>1, ShapeLists
<1>7. f.head \in DOMAIN heap \union {NULL}
    <2>1. First(stack, root, n) = f.head
        BY <1>2, <1>3 DEF First
    <2>2. At(f.head) \subseteq DOMAIN heap
        BY <1>1, <1>3, <2>1 DEF Shape
    <2>q. QED BY <2>2 DEF At
<1>8. f.last \in DOMAIN heap \union {NULL}
    <2>1. Inmost(stack, root, n) = f.last
        BY <1>2, <1>3 DEF Inmost
    <2>q. QED BY <1>1, <1>3, <2>1, ShapeLists
<1>q. QED BY <1>4, <1>6, <1>7, <1>8 DEF Frames

(* Every variable has values of its kind, for texts of any length.         *)
THEOREM DocumentTypes == DocSpec => []TypeOK
<1>1. DocRight => TypeOK
    <2> SUFFICES ASSUME DocRight PROVE TypeOK
        OBVIOUS
    <2>1. DepthRight /\ TextRight /\ PlaceRight /\ MemoryRight /\ CountRight /\ ResultRight
        BY DEF DocRight
    <2>2. Shape(heap, stack, root) /\ HeapOK(heap) /\ ValuesRight /\ CopiesRight
        BY <2>1 DEF MemoryRight, Shape
    <2>3. root \in DOMAIN heap \union {NULL}
        <3>1. stack \in Seq(Frames) /\ First(stack, root, 0) = root
            BY <2>2 DEF Shape, First
        <3>2. 0 \in 0 .. Len(stack)
            BY <3>1
        <3>3. At(root) \subseteq DOMAIN heap
            BY <2>2, <3>1, <3>2 DEF Shape
        <3>q. QED BY <3>3 DEF At
    <2>4. \A i \in DOMAIN heap : ItemOK(heap[i])
        <3> SUFFICES ASSUME NEW i \in DOMAIN heap PROVE ItemOK(heap[i])
            OBVIOUS
        <3> DEFINE c == heap[i]  D == DOMAIN heap
        <3>1. c \in Cell(D)
            BY <2>2 DEF HeapOK
        <3>2. /\ c.type = "num" => c.value \in Numbers
              /\ c.copy => c.value \in Seq(1 .. 255)
            BY <2>2 DEF ValuesRight
        <3> HIDE DEF c, D
        <3>3. /\ {c.next, c.prev, c.child} \subseteq D \union {NULL}
              /\ c.type \in Types /\ c.string \in Strings
            BY <3>1 DEF Cell
        <3>4. c.type \in {"invalid", "num", "string", "array", "object"} \union Words
            BY <3>3 DEF Types
        <3>5. c.string # NoName => c.string \in Seq(1 .. 255)
            BY <3>3 DEF Strings
        <3>6. {c.next, c.prev, c.child} \subseteq DOMAIN heap \union {NULL}
            BY <3>3 DEF D
        <3>7. ItemOK(c)
            BY <3>2, <3>4, <3>5, <3>6 DEF ItemOK
        <3>q. QED BY <3>7 DEF c
    <2>5. copies \in Nat
        <3>1. IsFiniteSet(DOMAIN heap)
            BY <2>2 DEF HeapOK
        <3>q. QED BY <2>2, <3>1, OwnedIs DEF CopiesRight
    <2>6. \A f \in ToSet(stack) :
              /\ f.kind \in {"array", "object"} /\ f.item \in DOMAIN heap
              /\ {f.head, f.last} \subseteq DOMAIN heap \union {NULL}
        <3>1. ToSet(stack) = Range(stack)
            BY DEF ToSet, Range
        <3>q. QED BY <2>1, <3>1, StackIs
    <2>7. offset \in 0 .. Len(text) + 1 /\ depth \in 0 .. NestingLimit
        BY <2>1 DEF PlaceRight, TextRight, DepthRight
    <2>q. QED BY <2>1, <2>3, <2>4, <2>5, <2>6, <2>7
              DEF TypeOK, TextRight, ResultRight, CountRight
<1>q. QED BY <1>1, DocRightAlways, PTL
-----------------------------------------------------------------------------
(* The steps of print_value.                                               *)

(* The steps of print_value: those that write, and the two others.         *)
Puts     == [step : {"put"}, needed : Nat, bytes : Seq(0 .. 255), advance : Nat]
AnyStep  == Puts \union {Update, Impossible}

(* A put that ends the string, and for which just the room is reserved     *)
(* that it needs.                                                          *)
Closes(s) ==
    /\ s \in Puts
    /\ Len(s.bytes) # 0 /\ s.bytes[Len(s.bytes)] = 0
    /\ \A c \in 1 .. Len(s.bytes) - 1 : s.bytes[c] # 0
    /\ s.needed = Len(s.bytes) /\ s.advance < Len(s.bytes)

(* A put that moves the offset behind what it writes.                      *)
Moves(s) ==
    /\ s \in Puts
    /\ s.advance = Len(s.bytes)
    /\ s.needed \in {Len(s.bytes), Len(s.bytes) + 1}

(* The offset is not moved to the end of the string.                       *)
Lags(s) == Closes(s) /\ s.advance # Len(s.bytes) - 1

(* The end of the string can be looked for.                                *)
Ready(s) == Closes(s) \/ s = Impossible

(* Every update comes after the end of a string, and the offset is moved   *)
(* to the end of a string before more is written.                          *)
Complete(L) ==
    /\ L \in Seq(AnyStep)
    /\ \A n \in 1 .. Len(L) :
          /\ L[n] \in Puts => Closes(L[n]) \/ Moves(L[n])
          /\ L[n] = Update => n # 1 /\ Ready(L[n - 1])
          /\ Lags(L[n]) => n # Len(L) /\ L[n + 1] = Update

(* The steps for a value: an update may follow, but has not.               *)
OfValue(L) == L \in Seq(AnyStep) /\ Complete(L \o <<Update>>)

(* Steps are told apart.                                                   *)
LEMMA StepKinds ==
    /\ Update \in AnyStep /\ Impossible \in AnyStep /\ Puts \subseteq AnyStep
    /\ Update \notin Puts /\ Impossible \notin Puts /\ Update # Impossible
    /\ Update.step = "update" /\ Impossible.step = "fail"
    /\ \A s \in Puts : /\ s.step = "put" /\ s.needed \in Nat /\ s.advance \in Nat
                       /\ s.bytes \in Seq(0 .. 255) /\ Len(s.bytes) \in Nat
<1>1. Update.step = "update" /\ Impossible.step = "fail"
  BY DEF Update, Impossible
<1>2. \A s \in Puts : /\ s.step = "put" /\ s.needed \in Nat /\ s.advance \in Nat
                      /\ s.bytes \in Seq(0 .. 255) /\ Len(s.bytes) \in Nat
  BY DEF Puts
<1> QED  BY <1>1, <1>2 DEF AnyStep

(* A put is one of the steps that write.                                   *)
LEMMA PutIs ==
    ASSUME NEW k \in Nat, NEW b \in Seq(0 .. 255), NEW a \in Nat
    PROVE  LET s == Put(k, b, a)
           IN  s \in Puts /\ s.needed = k /\ s.bytes = b /\ s.advance = a
BY DEF Put, Puts

(* Lists of steps are put together in any order.                           *)
LEMMA StepsAssociate ==
    ASSUME NEW r \in Seq(AnyStep), NEW s \in Seq(AnyStep), NEW u \in Seq(AnyStep)
    PROVE  (r \o s) \o u = r \o (s \o u)
<1> DEFINE S == AnyStep
<1> HIDE DEF S
<1>1. \A x, y, z \in Seq(S) : (x \o y) \o z = x \o (y \o z)
  BY ConcatAssociative, SMTT(30)
<1> QED  BY <1>1, Zenon DEF S

(* One list of steps after the other.                                      *)
LEMMA CompleteConcat ==
    ASSUME NEW A, Complete(A), NEW B, Complete(B)
    PROVE  Complete(A \o B)
<1> DEFINE a == Len(A)  b == Len(B)  L == A \o B
<1>1. /\ A \in Seq(AnyStep) /\ B \in Seq(AnyStep) /\ a \in Nat /\ b \in Nat
  BY DEF Complete
<1>2. /\ L \in Seq(AnyStep) /\ Len(L) = a + b
      /\ \A n \in 1 .. a + b : L[n] = IF n <= a THEN A[n] ELSE B[n - a]
  BY <1>1, ConcatProperties
<1>3. /\ \A n \in 1 .. a : /\ A[n] \in Puts => Closes(A[n]) \/ Moves(A[n])
                           /\ A[n] = Update => n # 1 /\ Ready(A[n - 1])
                           /\ Lags(A[n]) => n # a /\ A[n + 1] = Update
      /\ \A n \in 1 .. b : /\ B[n] \in Puts => Closes(B[n]) \/ Moves(B[n])
                           /\ B[n] = Update => n # 1 /\ Ready(B[n - 1])
                           /\ Lags(B[n]) => n # b /\ B[n + 1] = Update
  BY DEF Complete
<1> HIDE DEF L, a, b
<1>4. ASSUME NEW n \in 1 .. Len(L)
      PROVE  /\ L[n] \in Puts => Closes(L[n]) \/ Moves(L[n])
             /\ L[n] = Update => n # 1 /\ Ready(L[n - 1])
             /\ Lags(L[n]) => n # Len(L) /\ L[n + 1] = Update
  <2>1. CASE n <= a
    <3>1. n \in 1 .. a /\ L[n] = A[n] /\ n \in 1 .. a + b
      BY <1>1, <1>2, <2>1
    <3>2. n # 1 => n - 1 \in 1 .. a + b /\ n - 1 <= a /\ L[n - 1] = A[n - 1]
      BY <1>1, <1>2, <3>1
    <3>3. n # a => n + 1 \in 1 .. a + b /\ n + 1 <= a /\ L[n + 1] = A[n + 1] /\ n # a + b
      BY <1>1, <1>2, <3>1
    <3> QED  BY <1>2, <1>3, <3>1, <3>2, <3>3
  <2>2. CASE ~(n <= a)
    <3> DEFINE m == n - a
    <3>2. m # 1 => n - 1 \in 1 .. a + b /\ ~(n - 1 <= a) /\ (n - 1) - a = m - 1 /\ n # 1
      BY <1>1, <1>2, <2>2
    <3>3. m # 1 => L[n - 1] = B[m - 1] /\ n # 1
      BY <1>2, <3>2
    <3>4. m # b => n + 1 \in 1 .. a + b /\ ~(n + 1 <= a) /\ (n + 1) - a = m + 1 /\ n # a + b
      BY <1>1, <1>2, <2>2
    <3>5. ASSUME m # b  PROVE L[n + 1] = B[m + 1] /\ n # a + b
      <4> DEFINE k == n + 1
      <4>1. k \in 1 .. a + b /\ ~(k <= a) /\ k - a = m + 1 /\ n # a + b
        BY <3>4, <3>5
      <4> HIDE DEF k
      <4>2. L[k] = B[k - a]
        BY <1>2, <4>1
      <4>3. L[k] = B[m + 1]
        BY <4>1, <4>2
      <4> QED  BY <4>1, <4>3 DEF k
    <3>6. m \in 1 .. b /\ L[n] = B[m]
      BY <1>1, <1>2, <2>2
    <3> HIDE DEF m
    <3> QED  BY <1>2, <1>3, <3>3, <3>5, <3>6
  <2> QED  BY <2>1, <2>2
<1> QED  BY <1>2, <1>4 DEF L, Complete

(* No step.                                                                *)
LEMMA CompleteNone == Complete(<< >>)
BY DEF Complete

(* One step.                                                               *)
LEMMA CompleteOne ==
    ASSUME NEW s, Moves(s) \/ (Closes(s) /\ ~Lags(s))
    PROVE  Complete(<<s>>)
<1>1. s \in Puts /\ s \in AnyStep /\ ~Lags(s) /\ s # Update /\ (Closes(s) \/ Moves(s))
  <2>1. s \in Puts
    BY DEF Moves, Closes
  <2>2. ~Lags(s)
    BY <2>1, StepKinds DEF Moves, Lags, Closes
  <2> QED  BY <2>1, <2>2, StepKinds
<1>2. <<s>> \in Seq(AnyStep) /\ Len(<<s>>) = 1 /\ <<s>>[1] = s
  BY <1>1
<1> QED  BY <1>1, <1>2 DEF Complete

(* A step that ends a string, or fails.                                    *)
LEMMA ValueOne ==
    ASSUME NEW s, Ready(s)
    PROVE  OfValue(<<s>>)
<1> DEFINE L == <<s, Update>>
<1>1. s \in AnyStep /\ s # Update /\ (s \in Puts => Closes(s)) /\ ~Lags(Update)
  BY StepKinds DEF Ready, Closes, Lags
<1>2. /\ <<s>> \in Seq(AnyStep) /\ L = <<s>> \o <<Update>> /\ L \in Seq(AnyStep)
      /\ Len(L) = 2 /\ L[1] = s /\ L[2] = Update
  BY <1>1, StepKinds
<1> HIDE DEF L
<1>3. Complete(L)
  <2>1. ASSUME NEW n \in 1 .. Len(L)
        PROVE  /\ L[n] \in Puts => Closes(L[n]) \/ Moves(L[n])
               /\ L[n] = Update => n # 1 /\ Ready(L[n - 1])
               /\ Lags(L[n]) => n # Len(L) /\ L[n + 1] = Update
    <3>1. n = 1 \/ n = 2
      BY <1>2
    <3>2. L[2 - 1] = s /\ L[1 + 1] = Update
      BY <1>2
    <3> QED  BY <1>1, <1>2, <3>1, <3>2, StepKinds
  <2> QED  BY <1>2, <2>1 DEF Complete
<1> QED  BY <1>2, <1>3 DEF OfValue

(* Steps, and a step that ends a string.                                   *)
LEMMA ValueLast ==
    ASSUME NEW A, Complete(A), NEW s, Ready(s)
    PROVE  OfValue(A \o <<s>>)
<1> DEFINE z == <<s>>  u == <<Update>>
<1>1. OfValue(z) /\ u \in Seq(AnyStep)
  BY ValueOne, StepKinds
<1> HIDE DEF z, u
<1>2. A \in Seq(AnyStep) /\ z \in Seq(AnyStep)
  BY <1>1 DEF Complete, OfValue
<1>3. Complete(z \o u)
  BY <1>1 DEF OfValue, u
<1>4. Complete(A \o (z \o u)) /\ A \o z \in Seq(AnyStep)
  BY <1>2, <1>3, CompleteConcat, ConcatProperties
<1>5. (A \o z) \o u = A \o (z \o u)
  BY <1>1, <1>2, StepsAssociate, Zenon
<1> QED  BY <1>4, <1>5 DEF OfValue, z, u

(* The steps around those for a value.                                     *)
LEMMA CompleteAround ==
    ASSUME NEW A, Complete(A), NEW v, OfValue(v), NEW s, Complete(<<s>>)
    PROVE  Complete((A \o v) \o <<Update, s>>)
<1> DEFINE z == <<s>>  u == <<Update>>
<1>1. /\ u \in Seq(AnyStep) /\ z \in Seq(AnyStep) /\ A \in Seq(AnyStep) /\ v \in Seq(AnyStep)
      /\ <<Update, s>> = u \o z /\ Complete(v \o u) /\ Complete(z)
  <2>1. z \in Seq(AnyStep)
    BY DEF Complete
  <2>2. s \in AnyStep
    <3>1. Len(z) = 1 /\ z[1] = s
      OBVIOUS
    <3> HIDE DEF z
    <3> QED  BY <2>1, <3>1, ElementOfSeq
  <2>3. <<Update, s>> = u \o z /\ u \in Seq(AnyStep)
    BY <2>2, StepKinds
  <2>4. v \in Seq(AnyStep) /\ Complete(v \o u)
    BY DEF OfValue
  <2>5. A \in Seq(AnyStep)
    BY DEF Complete
  <2> QED  BY <2>1, <2>3, <2>4, <2>5
<1> HIDE DEF z, u
<1>2. Complete((A \o (v \o u)) \o z)
  BY <1>1, CompleteConcat
<1>3. A \o (v \o u) = (A \o v) \o u
  BY <1>1, StepsAssociate, Zenon
<1>4. A \o v \in Seq(AnyStep)
  BY <1>1, ConcatProperties
<1>5. ((A \o v) \o u) \o z = (A \o v) \o (u \o z)
  BY <1>1, <1>4, StepsAssociate, Zenon
<1> QED  BY <1>1, <1>2, <1>3, <1>5

(* Many lists of steps.                                                    *)
LEMMA CompleteFlatten ==
    ASSUME NEW n \in Nat, NEW seqs, seqs = [i \in 1 .. n |-> seqs[i]],
           \A i \in 1 .. n : Complete(seqs[i])
    PROVE  Complete(FlattenSeq(seqs))
<1>1. seqs \in [1 .. n -> Seq(AnyStep)]
  BY DEF Complete
<1>2. PICK h \in [0 .. n -> Seq(AnyStep)] : Flattens(h, seqs)
  BY <1>1, FlattenSteps
<1>3. Len(seqs) = n
  BY <1>1
<1> DEFINE P == {i \in 0 .. n : Complete(h[i])}
<1>4. 0 \in P
  BY <1>2, CompleteNone DEF Flattens
<1>5. ASSUME NEW i \in 1 .. n, i - 1 \in P  PROVE i \in P
  <2>1. h[i] = h[i - 1] \o seqs[i] /\ Complete(h[i - 1]) /\ Complete(seqs[i])
    BY <1>2, <1>3, <1>5 DEF Flattens
  <2>2. Complete(h[i])
    BY <2>1, CompleteConcat
  <2> QED  BY <2>2
<1>6. n \in P
  <2> HIDE DEF P
  <2>1. 0 .. n \subseteq P
    BY <1>4, <1>5, Along
  <2> QED  BY <2>1
<1> QED  BY <1>2, <1>3, <1>6 DEF Flattens
-----------------------------------------------------------------------------
(* The bytes that are printed for strings and for numbers.                 *)

(* The characters that escaping adds to a byte.                            *)
Extra(b) == IF Short(b) # {} THEN 1 ELSE IF b < 32 THEN 5 ELSE 0

(* What is printed for a byte.                                             *)
LEMMA EscapeIs ==
    ASSUME NEW b \in 1 .. 255
    PROVE  LET s == CharsOf(EscapeOf(b))
           IN  s \in Seq(1 .. 255) /\ Len(s) = 1 + Extra(b) /\ Extra(b) \in Nat
<1>1. CASE Short(b) # {}
  <2> DEFINE c == CHOOSE x \in Short(b) : TRUE
  <2>1. c \in Short(b)
    BY <1>1
  <2>2. EscapeOf(b) = Esc(c)
    BY <1>1 DEF EscapeOf
  <2> HIDE DEF c
  <2>3. c \in 1 .. 255
    BY <2>1 DEF Short, Escapes, Quote, Backslash
  <2>4. CharsOf(EscapeOf(b)) = <<Backslash, c>>
    BY <2>2 DEF CharsOf, Esc
  <2> QED  BY <1>1, <2>3, <2>4 DEF Backslash, Extra
<1>2. CASE Short(b) = {} /\ b < 32
  <2> DEFINE d == <<0, 0, b \div 16, b % 16>>
             hex == [n \in DOMAIN d |-> Hex(d[n])]
  <2>1. CharsOf(EscapeOf(b)) = <<Backslash, 117>> \o hex
    BY <1>2 DEF EscapeOf, CharsOf, Uni
  <2>2. b \div 16 \in 0 .. 15 /\ b % 16 \in 0 .. 15
    BY <1>2
  <2>3. DOMAIN d = 1 .. 4 /\ \A n \in 1 .. 4 : d[n] \in 0 .. 15
    BY <2>2
  <2> HIDE DEF d
  <2>4. \A x \in 0 .. 15 : Hex(x) \in 1 .. 255
    BY DEF Hex
  <2>5. hex \in [1 .. 4 -> 1 .. 255]
    BY <2>3, <2>4, ZenonT(40)
  <2>6. hex \in Seq(1 .. 255) /\ Len(hex) = 4
    BY <2>5
  <2> HIDE DEF hex
  <2> DEFINE C == 1 .. 255  pre == <<Backslash, 117>>
  <2>7. pre \in Seq(C) /\ Len(pre) = 2 /\ hex \in Seq(C)
    BY <2>6 DEF Backslash
  <2>8. CharsOf(EscapeOf(b)) \in Seq(C) /\ Len(CharsOf(EscapeOf(b))) = 2 + 4
    <3> HIDE DEF C, pre
    <3>1. pre \o hex \in Seq(C) /\ Len(pre \o hex) = Len(pre) + Len(hex)
      BY <2>7, ConcatProperties
    <3>q. QED BY <2>1, <2>6, <2>7, <3>1 DEF pre
  <2>9. Extra(b) = 5
    BY <1>2 DEF Extra
  <2> QED  BY <2>8, <2>9
<1>3. CASE Short(b) = {} /\ ~(b < 32)
  <2>1. CharsOf(EscapeOf(b)) = <<b>>
    BY <1>3 DEF EscapeOf, CharsOf, Plain
  <2>2. Extra(b) = 0
    BY <1>3 DEF Extra
  <2> QED  BY <2>1, <2>2
<1> QED  BY <1>1, <1>2, <1>3

(* A string of bytes without a null is all seen.                           *)
LEMMA NoNull == ASSUME NEW bytes \in Seq(1 .. 255) PROVE UpToNull(bytes) = bytes
<1> DEFINE B == 1 .. 255
<1>1. DOMAIN bytes = 1 .. Len(bytes) /\ 0 \notin B
  OBVIOUS
<1> HIDE DEF B
<1>2. \A i \in 1 .. Len(bytes) : bytes[i] \in B
  BY ElementOfSeq DEF B
<1>3. ~ \E i \in DOMAIN bytes : bytes[i] = 0
  BY <1>1, <1>2
<1>4. SelectInSeq(bytes, LAMBDA b : b = 0) = 0
  BY <1>3 DEF SelectInSeq
<1> QED  BY <1>4 DEF UpToNull

(* The loop of EscapeCharacters.                                           *)
LEMMA EscapeSteps ==
    ASSUME NEW bytes \in Seq(1 .. 255)
    PROVE  \E h \in [0 .. Len(bytes) -> Nat] :
               /\ h[0] = 0 /\ h[Len(bytes)] = EscapeCharacters(bytes)
               /\ \A i \in 1 .. Len(bytes) : h[i] = h[i - 1] + Extra(bytes[i])
<1> DEFINE n         == Len(bytes)
           Op(v, b)  == v + (IF Short(b) # {} THEN 1 ELSE IF b < 32 THEN 5 ELSE 0)
           Solves(g) == g = [t \in SUBSET DOMAIN bytes |->
                                IF t = {} THEN 0
                                ELSE Op(g[t \ {Max(t)}], bytes[Max(t)])]
           G         == CHOOSE g : Solves(g)
<1>0. n \in Nat /\ DOMAIN bytes = 1 .. n /\ \A i \in 1 .. n : bytes[i] \in 1 .. 255
  BY ElementOfSeq
<1>1. EscapeCharacters(bytes) = G[DOMAIN bytes]
  BY DEF EscapeCharacters, FoldLeft, MapThenFoldSet
<1>2. \A v \in Nat, b \in 1 .. 255 : Op(v, b) \in Nat
  OBVIOUS
<1>e. \A v, b : Op(v, b) = v + Extra(b)
  BY DEF Extra
<1> HIDE DEF n, Op
<1>3. \E g : Solves(g)
  <2> DEFINE Turn == [x \in Nat \X (1 .. n) |-> Op(x[1], bytes[x[2]])]
  <2>1. Turn \in [Nat \X (1 .. n) -> Nat]
    BY <1>0, <1>2
  <2> HIDE DEF Turn
  <2>2. PICK g \in [SUBSET (1 .. n) -> Nat] : Folds(g, n, 0, Turn)
    BY <1>0, <2>1, FoldExists
  <2>3. ASSUME NEW t \in SUBSET (1 .. n), t # {}
        PROVE  Turn[<<g[t \ {Max(t)}], Max(t)>>] = Op(g[t \ {Max(t)}], bytes[Max(t)])
    <3>1. g[t \ {Max(t)}] \in Nat /\ Max(t) \in 1 .. n
      BY <1>0, <2>3, MaxOfInterval
    <3> QED  BY <3>1 DEF Turn
  <2>4. \A t \in SUBSET (1 .. n) :
            g[t] = IF t = {} THEN 0 ELSE Op(g[t \ {Max(t)}], bytes[Max(t)])
    BY <2>2, <2>3 DEF Folds
  <2>5. Solves(g)
    BY Zenon, <1>0, <2>4
  <2> HIDE DEF Solves
  <2> QED  BY <2>5
<1>4. Solves(G)
  BY Zenon, <1>3
<1> HIDE DEF G
<1> DEFINE h == [i \in 0 .. n |-> G[1 .. i]]
<1>5. h[0] = 0 /\ h[n] = EscapeCharacters(bytes)
  BY <1>0, <1>1, <1>4
<1>6. ASSUME NEW i \in 1 .. n  PROVE h[i] = Op(h[i - 1], bytes[i])
  <2>1. i \in Nat \ {0} /\ 1 .. i \in SUBSET (1 .. n) /\ i - 1 \in 0 .. n
    BY <1>0
  <2>2. 1 .. i # {} /\ Max(1 .. i) = i /\ (1 .. i) \ {Max(1 .. i)} = 1 .. i - 1
    BY <2>1, MaxOfPrefix
  <2>3. G[1 .. i] = Op(G[(1 .. i) \ {Max(1 .. i)}], bytes[Max(1 .. i)])
    BY <1>0, <1>4, <2>1, <2>2
  <2>4. G[1 .. i] = Op(G[1 .. i - 1], bytes[i])
    BY <2>2, <2>3
  <2>5. h[i] = G[1 .. i] /\ h[i - 1] = G[1 .. i - 1]
    BY <2>1, <1>0
  <2> HIDE DEF h
  <2> QED  BY Zenon, <2>4, <2>5
<1>7. h \in [0 .. n -> Nat]
  <2> DEFINE P == {i \in 0 .. n : h[i] \in Nat}
  <2>1. 0 \in P
    BY <1>0, <1>5
  <2>2. ASSUME NEW i \in 1 .. n, i - 1 \in P  PROVE i \in P
    <3> HIDE DEF h
    <3>1. h[i - 1] \in Nat /\ bytes[i] \in 1 .. 255 /\ i \in 0 .. n
      BY <1>0, <2>2
    <3>2. Op(h[i - 1], bytes[i]) \in Nat
      BY <1>2, <3>1
    <3> QED  BY <1>6, <3>1, <3>2
  <2>3. 0 .. n \subseteq P
    <3> HIDE DEF P
    <3> QED  BY <1>0, <2>1, <2>2, Along
  <2> HIDE DEF h
  <2>4. \A i \in 0 .. n : h[i] \in Nat
    BY <2>3
  <2> QED  BY <2>4 DEF h
<1> HIDE DEF h
<1> QED  BY <1>5, <1>6, <1>7, <1>e DEF n

(* What is printed for a string is as long as was counted.                 *)
LEMMA PrintedLength ==
    ASSUME NEW bytes \in Seq(1 .. 255)
    PROVE  LET inside == Chars(PrintString(bytes))
           IN  inside \in Seq(1 .. 255) /\ Len(inside) = OutputLength(bytes)
<1> DEFINE n == Len(bytes)
           units == PrintString(bytes)
           seqs  == [i \in DOMAIN units |-> CharsOf(units[i])]
           C     == 1 .. 255
<1>0. n \in Nat /\ DOMAIN bytes = 1 .. n /\ \A i \in 1 .. n : bytes[i] \in 1 .. 255
  BY ElementOfSeq
<1>s. UpToNull(bytes) = bytes
  BY NoNull
<1>1. seqs = [i \in 1 .. n |-> CharsOf(EscapeOf(bytes[i]))]
  BY <1>0, <1>s DEF PrintString, Escaped
<1>2. Chars(units) = FlattenSeq(seqs)
  BY DEF Chars
<1> HIDE DEF n, seqs, units, C
<1>3. \A i \in 1 .. n : /\ CharsOf(EscapeOf(bytes[i])) \in Seq(C)
                        /\ Len(CharsOf(EscapeOf(bytes[i]))) = 1 + Extra(bytes[i])
                        /\ Extra(bytes[i]) \in Nat
  BY <1>0, EscapeIs DEF C
<1>4. seqs \in [1 .. n -> Seq(C)] /\ Len(seqs) = n
  BY <1>0, <1>1, <1>3
<1>5. PICK h \in [0 .. n -> Seq(C)] : Flattens(h, seqs)
  BY <1>0, <1>4, FlattenSteps
<1>6. PICK e \in [0 .. n -> Nat] :
         /\ e[0] = 0 /\ e[n] = EscapeCharacters(bytes)
         /\ \A i \in 1 .. n : e[i] = e[i - 1] + Extra(bytes[i])
  BY EscapeSteps DEF n
<1> DEFINE P == {i \in 0 .. n : Len(h[i]) = i + e[i]}
<1>7. 0 \in P
  BY <1>0, <1>5, <1>6, SMTT(30) DEF Flattens
<1>8. ASSUME NEW i \in 1 .. n, i - 1 \in P  PROVE i \in P
  <2> DEFINE a == h[i - 1]  b == CharsOf(EscapeOf(bytes[i]))
  <2>1. /\ a \in Seq(C) /\ b \in Seq(C) /\ h[i] = a \o b /\ Len(a) = (i - 1) + e[i - 1]
        /\ Len(b) = 1 + Extra(bytes[i]) /\ Extra(bytes[i]) \in Nat
    <3>1. seqs[i] = b /\ i - 1 \in 0 .. n
      BY <1>0, <1>1
    <3>2. h[i] = h[i - 1] \o seqs[i]
      BY <1>4, <1>5 DEF Flattens
    <3> QED  BY <1>3, <1>8, <3>1, <3>2
  <2> HIDE DEF a, b
  <2>2. Len(h[i]) = Len(a) + Len(b)
    BY <2>1, ConcatProperties
  <2>3. e[i] = e[i - 1] + Extra(bytes[i]) /\ e[i - 1] \in Nat /\ i \in 0 .. n
    <3>1. i - 1 \in 0 .. n /\ i \in 0 .. n
      BY <1>0
    <3> QED  BY <1>6, <3>1
  <2>4. Len(h[i]) = i + e[i]
    <3> DEFINE E == e[i - 1]  X == Extra(bytes[i])
    <3>1. i \in Int /\ E \in Int /\ X \in Int
      BY <1>0, <2>1, <2>3
    <3>2. Len(h[i]) = ((i - 1) + E) + (1 + X) /\ e[i] = E + X
      BY <2>1, <2>2, <2>3
    <3> HIDE DEF E, X
    <3>q. QED BY <3>1, <3>2
  <2> QED  BY <2>3, <2>4
<1>9. n \in P
  <2> HIDE DEF P
  <2>1. 0 .. n \subseteq P
    BY <1>0, <1>7, <1>8, Along
  <2> QED  BY <1>0, <2>1
<1>10. h[n] = Chars(units) /\ h[n] \in Seq(C)
  BY <1>0, <1>2, <1>4, <1>5 DEF Flattens
<1>11. Len(Chars(units)) = n + EscapeCharacters(bytes)
  BY <1>6, <1>9, <1>10
<1> QED  BY <1>10, <1>11, <1>s DEF units, C, n, OutputLength, EscapedLength

(* A string is put with its end.                                           *)
LEMMA StringCloses ==
    ASSUME NEW bytes \in Seq(1 .. 255)
    PROVE  Closes(PutString(bytes))
<1> DEFINE n      == OutputLength(bytes)
           inside == Chars(PrintString(bytes))
           size   == Max({n + 3, Len(inside) + 1})
           text_  == [c \in 1 .. size |->
                        CASE c = n + 2 \/ c = 1    -> Quote
                          [] c = n + 3             -> 0
                          [] c - 1 \in DOMAIN inside /\ c \notin {1, n + 2, n + 3} -> inside[c - 1]
                          [] OTHER                 -> Junk]
<1>1. inside \in Seq(1 .. 255) /\ Len(inside) = n /\ n \in Nat
  <2>1. inside \in Seq(1 .. 255) /\ Len(inside) = n
    BY PrintedLength
  <2> QED  BY <2>1, LenProperties
<1>2. PutString(bytes) = Put(n + 3, text_, 0)
  BY DEF PutString, PutQuoted
<1> HIDE DEF n, inside
<1>3. size = n + 3
  BY <1>1 DEF Max
<1> HIDE DEF size
<1>4. \A c \in 1 .. n + 2 : text_[c] \in 1 .. 255
  <2> TAKE c \in 1 .. n + 2
  <2>1. CASE c = n + 2 \/ c = 1
    <3>1. c \in 1 .. size
      BY <1>1, <1>3
    <3>2. text_[c] = Quote
      BY <1>1, <2>1, <3>1
    <3> QED  BY <3>2 DEF Quote
  <2>2. CASE ~(c = n + 2 \/ c = 1)
    <3>1. c - 1 \in 1 .. n /\ c # n + 3 /\ c \notin {1, n + 2, n + 3} /\ c \in 1 .. size
      BY <1>1, <1>3, <2>2
    <3>2. inside[c - 1] \in 1 .. 255 /\ c - 1 \in DOMAIN inside
      <4> DEFINE C == 1 .. 255
      <4>1. inside \in Seq(C) /\ DOMAIN inside = 1 .. n
        BY <1>1
      <4> HIDE DEF C
      <4>2. inside[c - 1] \in C
        BY <1>1, <3>1, <4>1, ElementOfSeq
      <4>q. QED BY <3>1, <4>1, <4>2 DEF C
    <3>3. text_[c] = inside[c - 1]
      BY <2>2, <3>1, <3>2
    <3> QED  BY <3>2, <3>3
  <2> QED  BY <2>1, <2>2
<1>5. text_[n + 3] = 0
  BY <1>1, <1>3
<1>6. text_ \in Seq(0 .. 255) /\ Len(text_) = n + 3
  <2> DEFINE B == 0 .. 255
  <2>1. \A c \in 1 .. size : text_[c] \in B
    <3> TAKE c \in 1 .. size
    <3>1. c \in 1 .. n + 2 \/ c = n + 3
      BY <1>1, <1>3
    <3> HIDE DEF text_
    <3> QED  BY <1>4, <1>5, <3>1, SMTT(30)
  <2> HIDE DEF B
  <2>2. text_ \in [1 .. size -> B]
    BY <2>1
  <2>3. size \in Nat /\ DOMAIN text_ = 1 .. size
    BY <1>1, <1>3
  <2> HIDE DEF text_
  <2>4. text_ \in Seq(B) /\ Len(text_) = size
    BY <2>2, <2>3
  <2> QED  BY <1>3, <2>4 DEF B
<1> HIDE DEF text_
<1>7. LET s == PutString(bytes)
      IN  s \in Puts /\ s.needed = n + 3 /\ s.bytes = text_ /\ s.advance = 0
  BY <1>1, <1>2, <1>6, PutIs
<1>8. \A c \in 1 .. n + 2 : text_[c] # 0
  <2> TAKE c \in 1 .. n + 2
  <2>1. text_[c] \in 1 .. 255
    BY <1>4
  <2>2. \A x \in 1 .. 255 : x # 0
    OBVIOUS
  <2> QED  BY Zenon, <2>1, <2>2
<1>9. (n + 3) - 1 = n + 2 /\ n + 3 # 0 /\ 0 < n + 3
  BY <1>1
<1> DEFINE s == PutString(bytes)
<1> HIDE DEF s
<1>10. /\ s \in Puts /\ Len(s.bytes) = n + 3 /\ s.needed = n + 3 /\ s.advance = 0
       /\ s.bytes = text_
  BY <1>6, <1>7 DEF s
<1>11. Closes(s)
  BY <1>5, <1>8, <1>9, <1>10 DEF Closes
<1> QED  BY <1>11 DEF s

(* f gives the digits of each number up to k.                              *)
Numeral(f, n) == IF n < 10 THEN <<48 + n>> ELSE f[n \div 10] \o <<48 + (n % 10)>>
Numerals(f, k) == f \in [0 .. k -> Seq(48 .. 57)] /\ \A n \in 0 .. k : f[n] = Numeral(f, n)

(* Dividing by ten.                                                        *)
LEMMA TenthIs ==
    ASSUME NEW n \in Nat, ~(n < 10)
    PROVE  n \div 10 \in Nat /\ n \div 10 < n
OBVIOUS

(* A digit.                                                                *)
LEMMA NumeralIs ==
    ASSUME NEW f, NEW n \in Nat, ~(n < 10) => f[n \div 10] \in Seq(48 .. 57)
    PROVE  Numeral(f, n) \in Seq(48 .. 57)
<1> DEFINE D == 48 .. 57
<1>1. CASE n < 10
  BY <1>1 DEF Numeral
<1>2. CASE ~(n < 10)
  <2> DEFINE d == 48 + (n % 10)  a == f[n \div 10]
  <2>1. d \in D /\ a \in Seq(D)
    BY <1>2
  <2> HIDE DEF d, a, D
  <2>2. a \o <<d>> \in Seq(D)
    BY <2>1
  <2> QED  BY <1>2, <2>2 DEF Numeral, a, d, D
<1> QED  BY <1>1, <1>2

(* There are digits for the numbers up to any.                             *)
LEMMA NumeralsExist == \A k \in Nat : \E f : Numerals(f, k)
<1> DEFINE D == Seq(48 .. 57)
           P == {k \in Nat : \E f : Numerals(f, k)}
<1>1. 0 \in P
  <2> DEFINE f == [n \in 0 .. 0 |-> <<48>>]
  <2>1. f \in [0 .. 0 -> Seq(48 .. 57)] /\ \A n \in 0 .. 0 : f[n] = Numeral(f, n)
    BY DEF Numeral
  <2>2. Numerals(f, 0)
    BY <2>1 DEF Numerals
  <2> QED  BY <2>2
<1>2. ASSUME NEW k \in P  PROVE k + 1 \in P
  <2>0. k \in Nat /\ k + 1 \in Nat
    OBVIOUS
  <2>1. PICK f : Numerals(f, k)
    OBVIOUS
  <2>2. f \in [0 .. k -> D] /\ \A n \in 0 .. k : f[n] = Numeral(f, n)
    BY <2>1 DEF Numerals
  <2>3. Numeral(f, k + 1) \in D
    <3>1. ~(k + 1 < 10) => (k + 1) \div 10 \in 0 .. k
      BY <2>0, TenthIs
    <3>2. ~(k + 1 < 10) => f[(k + 1) \div 10] \in D
      BY <2>2, <3>1
    <3> QED  BY <2>0, <3>2, NumeralIs
  <2> DEFINE g == [n \in 0 .. k + 1 |-> IF n = k + 1 THEN Numeral(f, k + 1) ELSE f[n]]
  <2>4. g \in [0 .. k + 1 -> D]
    <3>1. \A n \in 0 .. k + 1 : n = k + 1 \/ n \in 0 .. k
      BY <2>0
    <3> HIDE DEF D
    <3> QED  BY <2>2, <2>3, <3>1
  <2>5. \A n \in 0 .. k : g[n] = f[n] /\ n \in 0 .. k + 1
    BY <2>0
  <2>6. g[k + 1] = Numeral(f, k + 1)
    BY <2>0
  <2> HIDE DEF g
  <2>7. ASSUME NEW n \in 0 .. k + 1  PROVE Numeral(g, n) = Numeral(f, n)
    <3>1. CASE n < 10
      BY <3>1 DEF Numeral
    <3>2. CASE ~(n < 10)
      <4>1. n \div 10 \in 0 .. k
        BY <2>0, <3>2, TenthIs
      <4>2. g[n \div 10] = f[n \div 10]
        BY <2>5, <4>1
      <4> QED  BY <3>2, <4>2 DEF Numeral
    <3> QED  BY <3>1, <3>2
  <2>8. \A n \in 0 .. k + 1 : g[n] = Numeral(g, n)
    <3> TAKE n \in 0 .. k + 1
    <3>1. n = k + 1 \/ n \in 0 .. k
      BY <2>0
    <3> QED  BY <2>2, <2>5, <2>6, <2>7, <3>1
  <2>9. Numerals(g, k + 1)
    BY <2>4, <2>8 DEF Numerals
  <2> QED  BY <2>0, <2>9
<1>3. P = Nat
  <2> HIDE DEF P
  <2>1. P \subseteq Nat
    BY DEF P
  <2> QED  BY <1>1, <1>2, <2>1, Induction
<1> QED  BY <1>3

(* And only one sequence of digits for each.                               *)
LEMMA NumeralsAgree ==
    ASSUME NEW k \in Nat, NEW m \in Nat, k <= m, NEW f, Numerals(f, k), NEW g, Numerals(g, m)
    PROVE  \A n \in 0 .. k : f[n] = g[n]
<1> DEFINE T == {n \in 0 .. k : f[n] # g[n]}
<1> SUFFICES ASSUME T # {} PROVE FALSE
  OBVIOUS
<1>1. T \subseteq Nat
  OBVIOUS
<1>2. PICK t \in T : \A y \in T : t <= y
  <2> HIDE DEF T
  <2> QED  BY <1>1, LeastNatural
<1>3. t \in 0 .. k /\ t \in 0 .. m /\ f[t] # g[t] /\ t \in Nat
  OBVIOUS
<1>4. f[t] = Numeral(f, t) /\ g[t] = Numeral(g, t)
  BY <1>3 DEF Numerals
<1>5. ~(t < 10)
  BY <1>3, <1>4 DEF Numeral
<1>6. t \div 10 \in 0 .. k /\ ~(t <= t \div 10)
  BY <1>3, <1>5, TenthIs
<1>7. f[t \div 10] = g[t \div 10]
  BY <1>2, <1>6
<1> QED  BY <1>3, <1>4, <1>5, <1>7 DEF Numeral

(* The digits of a number.                                                 *)
LEMMA DigitsAre == \A n \in Nat : Digits[n] = Numeral(Digits, n) /\ Digits[n] \in Seq(48 .. 57)
<1> DEFINE of(n) == CHOOSE f : Numerals(f, n)
           D == [n \in Nat |-> of(n)[n]]
           Solves(f) == f = [n \in Nat |-> IF n < 10 THEN <<48 + n>>
                                           ELSE f[n \div 10] \o <<48 + (n % 10)>>]
<1>1. \A n \in Nat : Numerals(of(n), n)
  BY NumeralsExist
<1> HIDE DEF of
<1>2. ASSUME NEW n \in Nat  PROVE D[n] = Numeral(D, n) /\ D[n] \in Seq(48 .. 57)
  <2>1. D[n] = of(n)[n] /\ n \in 0 .. n
    OBVIOUS
  <2>2. of(n)[n] = Numeral(of(n), n) /\ of(n)[n] \in Seq(48 .. 57)
    BY <1>1, <2>1 DEF Numerals
  <2>3. CASE n < 10
    BY <2>1, <2>2, <2>3 DEF Numeral
  <2>4. CASE ~(n < 10)
    <3> DEFINE q == n \div 10
    <3>1. q \in Nat /\ q <= n /\ q \in 0 .. q
      BY <2>4, TenthIs
    <3> HIDE DEF q
    <3>2. of(q)[q] = of(n)[q]
      BY <1>1, <3>1, NumeralsAgree
    <3>3. D[q] = of(q)[q]
      BY <3>1
    <3> HIDE DEF D
    <3>4. D[n \div 10] = of(n)[n \div 10]
      BY <3>2, <3>3 DEF q
    <3> QED  BY <2>1, <2>2, <2>4, <3>4 DEF Numeral
  <2> QED  BY <2>3, <2>4
<1>3. Solves(D)
  <2>1. \A n \in Nat : D[n] = IF n < 10 THEN <<48 + n>> ELSE D[n \div 10] \o <<48 + (n % 10)>>
    BY <1>2 DEF Numeral
  <2>2. D = [n \in Nat |-> D[n]]
    OBVIOUS
  <2> HIDE DEF D
  <2> QED  BY <2>1, <2>2
<1>4. Digits = CHOOSE f : Solves(f)
  BY DEF Digits
<1>5. Solves(Digits)
  <2> HIDE DEF Solves, D
  <2> QED  BY <1>3, <1>4
<1>6. \A n \in Nat : Digits[n] = Numeral(Digits, n)
  BY <1>5 DEF Numeral
<1>7. ASSUME NEW n \in Nat  PROVE Digits[n] \in Seq(48 .. 57)
  <2> DEFINE T == {i \in 0 .. n : Digits[i] \notin Seq(48 .. 57)}
  <2> SUFFICES ASSUME T # {} PROVE FALSE
    OBVIOUS
  <2>1. PICK t \in T : \A y \in T : t <= y
    <3>1. T \subseteq Nat
      OBVIOUS
    <3> HIDE DEF T
    <3> QED  BY <3>1, LeastNatural
  <2>2. t \in 0 .. n /\ t \in Nat
    OBVIOUS
  <2>3. ~(t < 10) => Digits[t \div 10] \in Seq(48 .. 57)
    <3> SUFFICES ASSUME ~(t < 10) PROVE Digits[t \div 10] \in Seq(48 .. 57)
      OBVIOUS
    <3>1. t \div 10 \in 0 .. n /\ ~(t <= t \div 10)
      BY <2>2, TenthIs
    <3> QED  BY <2>1, <3>1
  <2>4. Numeral(Digits, t) \in Seq(48 .. 57)
    BY <2>2, <2>3, NumeralIs
  <2> QED  BY <1>6, <2>2, <2>4
<1> QED  BY <1>6, <1>7
-----------------------------------------------------------------------------
(* The steps for a value: whatever is printed, every update finds the end  *)
(* of a string.                                                            *)

(* A text is put with its end.                                             *)
LEMMA TextCloses ==
    ASSUME NEW t \in Seq(1 .. 255), NEW a \in 0 .. Len(t), NEW k, k = Len(t) + 1
    PROVE  /\ Closes(Put(k, t \o <<0>>, a))
           /\ a = Len(t) => ~Lags(Put(k, t \o <<0>>, a))
<1> DEFINE B == 0 .. 255  C == 1 .. 255  z == <<0>>  b == t \o z
           s == Put(k, b, a)
<1>1. Len(t) \in Nat /\ \A c \in 1 .. Len(t) : t[c] \in C
  BY ElementOfSeq
<1>2. t \in Seq(B) /\ z \in Seq(B) /\ Len(z) = 1 /\ z[1] = 0
  <2>1. C \subseteq B
    OBVIOUS
  <2>2. t \in Seq(C) /\ z \in Seq(B)
    OBVIOUS
  <2> HIDE DEF B, C
  <2> QED  BY <2>1, <2>2, SeqMonotonic
<1> HIDE DEF B, z
<1>3. /\ b \in Seq(B) /\ Len(b) = Len(t) + 1
      /\ \A c \in 1 .. Len(t) + 1 : b[c] = IF c <= Len(t) THEN t[c] ELSE z[c - Len(t)]
  BY <1>2, ConcatProperties
<1> HIDE DEF b
<1>4. b[Len(t) + 1] = 0
  BY <1>1, <1>2, <1>3
<1>5. \A c \in 1 .. Len(t) : b[c] # 0
  <2> TAKE c \in 1 .. Len(t)
  <2>1. b[c] = t[c] /\ t[c] \in 1 .. 255
    BY <1>1, <1>3
  <2>2. \A x \in 1 .. 255 : x # 0
    OBVIOUS
  <2> QED  BY Zenon, <2>1, <2>2
<1>6. s \in Puts /\ s.needed = k /\ s.bytes = b /\ s.advance = a
  BY <1>1, <1>3, PutIs DEF B
<1> HIDE DEF s
<1>7. Len(b) - 1 = Len(t) /\ Len(b) # 0 /\ k = Len(b) /\ a < Len(b)
  BY <1>1, <1>3
<1>8. Closes(s)
  BY <1>3, <1>4, <1>5, <1>6, <1>7 DEF Closes
<1>9. a = Len(t) => ~Lags(s)
  BY <1>6, <1>7 DEF Lags
<1> QED  BY <1>8, <1>9 DEF s, b, z

(* A text is put, and the offset moved behind it.                          *)
LEMMA TextMoves ==
    ASSUME NEW t \in Seq(0 .. 255), NEW k \in {Len(t), Len(t) + 1}
    PROVE  Moves(Put(k, t, Len(t)))
<1> DEFINE s == Put(k, t, Len(t))
<1>1. Len(t) \in Nat /\ k \in Nat
  OBVIOUS
<1>2. s \in Puts /\ s.needed = k /\ s.bytes = t /\ s.advance = Len(t)
  BY <1>1, PutIs
<1> HIDE DEF s
<1>3. Moves(s)
  BY <1>1, <1>2 DEF Moves
<1> QED  BY <1>3 DEF s

(* A number is put with its end.                                           *)
LEMMA NumberCloses ==
    ASSUME NEW n \in Nat
    PROVE  Closes(Put(Len(Digits[n]) + 1, Digits[n] \o <<0>>, Len(Digits[n])))
<1> DEFINE d == Digits[n]  C == 1 .. 255  D == 48 .. 57
<1>1. d \in Seq(D) /\ D \subseteq C
  BY DigitsAre
<1>2. d \in Seq(C)
  <2> HIDE DEF d, C, D
  <2> QED  BY <1>1, SeqMonotonic
<1> HIDE DEF d
<1>3. Len(d) \in 0 .. Len(d)
  BY <1>2
<1> QED  BY <1>2, <1>3, TextCloses DEF d

(* A name is put with its end.                                             *)
LEMMA NameCloses ==
    ASSUME NEW x \in Strings
    PROVE  Closes(PutName(x))
<1>1. CASE x = NoName
  <2> DEFINE t == <<Quote, Quote>>  z == <<0>>
  <2>1. t \in Seq(1 .. 255) /\ Len(t) = 2
    BY DEF Quote
  <2>2. PutName(x) = Put(3, t \o z, 0)
    <3>1. <<Quote, Quote, 0>> = t \o z
      OBVIOUS
    <3> HIDE DEF t, z
    <3> QED  BY <1>1, <3>1 DEF PutName, t, z
  <2> HIDE DEF t
  <2>3. Closes(Put(3, t \o z, 0))
    <3>1. 0 \in 0 .. Len(t) /\ 3 = Len(t) + 1
      BY <2>1
    <3> QED  BY <2>1, <3>1, TextCloses
  <2> QED  BY <2>2, <2>3
<1>2. CASE x # NoName
  BY <1>2, StringCloses DEF PutName, Strings
<1> QED  BY <1>1, <1>2

(* The steps for an array.                                                 *)
LEMMA ArrayIsValue ==
    ASSUME NEW n \in Nat, NEW members, members = [i \in 1 .. n |-> members[i]],
           \A i \in 1 .. n : OfValue(members[i]), NEW format \in BOOLEAN
    PROVE  OfValue(PrintArray(members, format))
<1> DEFINE gap == If(format, <<32>>)
           comma == <<44>> \o gap
           between(i) == If(i < n, <<Put(Len(gap) + 2, comma \o <<0>>, Len(gap) + 1)>>)
           part(i) == members[i] \o <<Update>> \o between(i)
           parts   == [i \in 1 .. n |-> part(i)]
           begin   == Put(1, <<91>>, 1)
           end     == Put(2, <<93, 0>>, 0)
<1>0. Len(members) = n /\ DOMAIN members = 1 .. n
  BY LenProperties
<1>1. PrintArray(members, format) = <<begin>> \o FlattenSeq(parts) \o <<end>>
  BY <1>0, Zenon DEF PrintArray
<1>2. comma \in Seq(1 .. 255) /\ Len(comma) = Len(gap) + 1 /\ Len(gap) \in Nat
  <2>1. CASE format
    <3>1. gap = <<32>>
      BY <2>1 DEF If
    <3>2. comma = <<44, 32>>
      <4>1. <<44>> \o <<32>> = <<44, 32>>
        BY ConcatTwo
      <4> HIDE DEF gap
      <4> QED  BY <3>1, <4>1
    <3> HIDE DEF gap, comma
    <3> QED  BY <3>1, <3>2
  <2>2. CASE ~format
    <3>1. gap = << >> /\ comma = <<44>>
      BY <2>2 DEF If
    <3> HIDE DEF gap, comma
    <3> QED  BY <3>1
  <2> QED  BY <2>1, <2>2
<1> HIDE DEF gap, comma
<1>3. \A i \in 1 .. n : Complete(between(i))
  <2> TAKE i \in 1 .. n
  <2> DEFINE s == Put(Len(gap) + 2, comma \o <<0>>, Len(gap) + 1)
  <2>1. Closes(s) /\ ~Lags(s)
    <3>1. Len(gap) + 1 \in 0 .. Len(comma) /\ Len(gap) + 2 = Len(comma) + 1
      BY <1>2
    <3> QED  BY <1>2, <3>1, TextCloses
  <2> HIDE DEF s
  <2>2. Complete(<<s>>) /\ Complete(<< >>)
    BY <2>1, CompleteOne, CompleteNone
  <2> QED  BY <2>2 DEF If, s
<1> HIDE DEF between
<1>4. \A i \in 1 .. n : Complete(parts[i])
  <2> TAKE i \in 1 .. n
  <2>1. Complete(members[i] \o <<Update>>)
    BY DEF OfValue
  <2>2. Complete(between(i))
    BY <1>3
  <2>3. Complete(part(i))
    BY <2>1, <2>2, CompleteConcat
  <2>4. parts[i] = part(i)
    OBVIOUS
  <2> HIDE DEF parts, part
  <2> QED  BY <2>3, <2>4
<1>5. parts = [i \in 1 .. n |-> parts[i]]
  OBVIOUS
<1> HIDE DEF parts
<1>6. Complete(FlattenSeq(parts))
  BY <1>4, <1>5, CompleteFlatten
<1>7. Complete(<<begin>>)
  <2> DEFINE t == <<91>>
  <2>1. t \in Seq(0 .. 255) /\ Len(t) = 1
    OBVIOUS
  <2> HIDE DEF t
  <2>2. Moves(Put(1, t, 1))
    BY <2>1, TextMoves
  <2> QED  BY <2>2, CompleteOne DEF t
<1>8. Ready(end)
  <2> DEFINE t == <<93>>  z == <<0>>
  <2>1. t \in Seq(1 .. 255) /\ Len(t) = 1 /\ <<93, 0>> = t \o z
    OBVIOUS
  <2> HIDE DEF t
  <2>2. Closes(Put(2, t \o z, 0))
    <3>1. 0 \in 0 .. Len(t) /\ 2 = Len(t) + 1
      BY <2>1
    <3> QED  BY <2>1, <3>1, TextCloses
  <2> QED  BY <2>1, <2>2 DEF Ready
<1> HIDE DEF begin, end
<1>9. Complete(<<begin>> \o FlattenSeq(parts))
  BY <1>6, <1>7, CompleteConcat
<1>10. OfValue((<<begin>> \o FlattenSeq(parts)) \o <<end>>)
  BY <1>8, <1>9, ValueLast
<1> QED  BY <1>1, <1>10

(* A text, and what follows it in print_object: a byte, and one more if    *)
(* the text is formatted.                                                  *)
LEMMA OneOrTwo ==
    ASSUME NEW a \in Seq(1 .. 255), Len(a) <= 1, NEW format \in BOOLEAN, NEW x \in 1 .. 255
    PROVE  LET t == a \o If(format, <<x>>)
           IN  t \in Seq(1 .. 255) /\ Len(t) \in Nat
<1> DEFINE C == 1 .. 255  y == If(format, <<x>>)
<1>1. y \in Seq(C)
  <2> DEFINE z == <<x>>
  <2>1. z \in Seq(C) /\ << >> \in Seq(C)
    OBVIOUS
  <2> HIDE DEF z, C
  <2> QED  BY <2>1 DEF If, z
<1> HIDE DEF y
<1>2. a \o y \in Seq(C) /\ Len(a \o y) \in Nat
  BY <1>1, ConcatProperties
<1> QED  BY <1>2 DEF y

(* A step before others, if there is one.                                  *)
LEMMA CompleteIf ==
    ASSUME NEW b \in BOOLEAN, NEW L, b => Complete(L)
    PROVE  Complete(If(b, L))
BY CompleteNone DEF If

(* The indentation.                                                        *)
LEMMA TabsAre ==
    ASSUME NEW n \in Nat
    PROVE  Tabs(n) \in Seq(1 .. 255) /\ Len(Tabs(n)) = n
<1> DEFINE t == [i \in 1 .. n |-> 9]  C == 1 .. 255
<1>1. \A i \in 1 .. n : 9 \in C
  OBVIOUS
<1> HIDE DEF C
<1>2. t \in Seq(C) /\ Len(t) = n
  BY <1>1
<1> QED  BY <1>2 DEF t, Tabs, C

(* The steps for an object.                                                *)
LEMMA ObjectIsValue ==
    ASSUME NEW n \in Nat, NEW members, members = [i \in 1 .. n |-> members[i]],
           \A i \in 1 .. n : OfValue(members[i]), NEW format \in BOOLEAN,
           NEW names, \A i \in 1 .. n : names[i] \in Strings, NEW level \in Nat
    PROVE  OfValue(PrintObject(names, members, format, level))
<1> DEFINE one(c)    == <<c>> \o If(format, <<IF c = 123 THEN 10 ELSE 9>>)
           end(i)    == If(i < n, <<44>>) \o If(format, <<10>>)
           indent    == If(format, <<Put(level + 1, Tabs(level + 1), level + 1)>>)
           name(i)   == PutName(names[i])
           colon     == Put(Len(one(58)), one(58), Len(one(58)))
           next(i)   == Put(Len(end(i)) + 1, end(i) \o <<0>>, Len(end(i)))
           part(i)   == ((indent \o <<name(i), Update, colon>>) \o members[i]) \o <<Update, next(i)>>
           parts     == [i \in 1 .. n |-> part(i)]
           begin     == Put(Len(one(123)) + 1, one(123), Len(one(123)))
           last      == Put(IF format THEN level + 2 ELSE 2, If(format, Tabs(level)) \o <<125, 0>>, 0)
<1>0. Len(members) = n /\ DOMAIN members = 1 .. n
  BY LenProperties
<1>1. PrintObject(names, members, format, level) = (<<begin>> \o FlattenSeq(parts)) \o <<last>>
  BY <1>0, ZenonT(40) DEF PrintObject
<1>2. Complete(indent)
  <2> DEFINE s == Put(level + 1, Tabs(level + 1), level + 1)
  <2>1. Tabs(level + 1) \in Seq(1 .. 255) /\ Len(Tabs(level + 1)) = level + 1
    BY TabsAre
  <2>2. Tabs(level + 1) \in Seq(0 .. 255)
    <3> DEFINE C == 1 .. 255  B == 0 .. 255
    <3>1. C \subseteq B
      OBVIOUS
    <3> HIDE DEF B, C
    <3> QED  BY <2>1, <3>1, SeqMonotonic DEF B, C
  <2>3. Moves(s)
    BY <2>1, <2>2, TextMoves
  <2> HIDE DEF s
  <2>4. Complete(<<s>>)
    BY <2>3, CompleteOne
  <2> QED  BY <2>4, CompleteIf DEF s
<1>3. \A c \in {58, 123} : one(c) \in Seq(1 .. 255) /\ one(c) \in Seq(0 .. 255) /\ Len(one(c)) \in Nat
  <2> TAKE c \in {58, 123}
  <2> DEFINE a == <<c>>  x == IF c = 123 THEN 10 ELSE 9  C == 1 .. 255  B == 0 .. 255
  <2>1. a \in Seq(1 .. 255) /\ Len(a) <= 1 /\ x \in 1 .. 255
    OBVIOUS
  <2> HIDE DEF a, x
  <2>2. one(c) = a \o If(format, <<x>>)
    BY DEF a, x
  <2> DEFINE t == one(c)
  <2>t. t = a \o If(format, <<x>>)
    BY <2>2
  <2> HIDE DEF t
  <2>o. t \in Seq(C) /\ Len(t) \in Nat
    BY <2>1, <2>t, OneOrTwo, ZenonT(40)
  <2>3. one(c) \in Seq(C) /\ Len(one(c)) \in Nat
    BY <2>o DEF t
  <2> HIDE DEF one
  <2>4. C \subseteq B
    OBVIOUS
  <2>5. one(c) \in Seq(B)
    <3> HIDE DEF B, C
    <3> QED  BY <2>3, <2>4, SeqMonotonic
  <2> QED  BY <2>3, <2>5
<1>4. \A i \in 1 .. n : end(i) \in Seq(1 .. 255) /\ Len(end(i)) \in Nat
  <2> TAKE i \in 1 .. n
  <2> DEFINE a == If(i < n, <<44>>)
  <2>1. a \in Seq(1 .. 255) /\ Len(a) <= 1
    <3> DEFINE z == <<44>>  C == 1 .. 255
    <3>1. z \in Seq(C) /\ << >> \in Seq(C) /\ Len(z) <= 1 /\ Len(<< >>) <= 1
      OBVIOUS
    <3> HIDE DEF z, C
    <3>2. a = z \/ a = << >>
      BY DEF If, z
    <3> HIDE DEF a
    <3>3. a \in Seq(C) /\ Len(a) <= 1
      BY <3>1, <3>2, Zenon
    <3> QED  BY <3>3 DEF C
  <2>2. end(i) = a \o If(format, <<10>>)
    OBVIOUS
  <2> HIDE DEF a, end
  <2>3. 10 \in 1 .. 255
    OBVIOUS
  <2>4. a \o If(format, <<10>>) \in Seq(1 .. 255) /\ Len(a \o If(format, <<10>>)) \in Nat
    BY <2>1, <2>3, OneOrTwo, ZenonT(40)
  <2> QED  BY Zenon, <2>2, <2>4
<1> HIDE DEF one, end
<1>5. Complete(<<begin>>) /\ Complete(<<colon>>)
  <2> DEFINE a == one(123)  b == one(58)
  <2>1. Moves(Put(Len(a) + 1, a, Len(a))) /\ Moves(Put(Len(b), b, Len(b)))
    BY <1>3, TextMoves
  <2> QED  BY <2>1, CompleteOne
<1>6. Ready(last)
  <2> DEFINE a == If(format, Tabs(level))  t == a \o <<125>>  C == 1 .. 255  z == <<0>>  y == <<125>>
             k == IF format THEN level + 2 ELSE 2
  <2>1. a \in Seq(C) /\ Len(a) = IF format THEN level ELSE 0
    BY TabsAre DEF If
  <2>2. y \in Seq(C) /\ Len(y) = 1 /\ z \in Seq(0 .. 255) /\ y \in Seq(0 .. 255)
    OBVIOUS
  <2>3. <<125, 0>> = y \o z
    BY ConcatTwo
  <2> HIDE DEF a, y, z, C
  <2>4. t = a \o y /\ a \o y \in Seq(C) /\ Len(a \o y) = Len(a) + 1
    BY <2>1, <2>2, ConcatProperties DEF y
  <2>5. a \o (y \o z) = (a \o y) \o z
    <3> DEFINE B == 0 .. 255
    <3>1. C \subseteq B
      BY DEF C
    <3> HIDE DEF B
    <3>2. a \in Seq(B)
      BY <2>1, <3>1, SeqMonotonic
    <3>3. y \in Seq(B) /\ z \in Seq(B)
      BY <2>2 DEF B
    <3>4. \A r, s, u \in Seq(B) : (r \o s) \o u = r \o (s \o u)
      BY ConcatAssociative, SMTT(30)
    <3> QED  BY <3>2, <3>3, <3>4, Zenon
  <2> HIDE DEF t
  <2>6. last = Put(k, t \o z, 0)
    BY <2>3, <2>4, <2>5 DEF a
  <2>7. k = Len(t) + 1 /\ 0 \in 0 .. Len(t)
    BY <2>1, <2>4
  <2> HIDE DEF k
  <2>8. Closes(Put(k, t \o <<0>>, 0))
    BY <2>4, <2>7, TextCloses DEF C
  <2> QED  BY <2>6, <2>8 DEF Ready, z
<1> HIDE DEF indent, colon, begin, last
<1>7. \A i \in 1 .. n : Complete(parts[i])
  <2> TAKE i \in 1 .. n
  <2> DEFINE e == end(i)  s == Put(Len(e) + 1, e \o <<0>>, Len(e))
             q == name(i)  A == indent \o <<q, Update, colon>>
  <2>1. Closes(s) /\ ~Lags(s)
    <3>1. e \in Seq(1 .. 255) /\ Len(e) \in 0 .. Len(e)
      BY <1>4
    <3> HIDE DEF e
    <3> QED  BY <3>1, TextCloses
  <2>2. Complete(<<s>>)
    <3> HIDE DEF s
    <3> QED  BY <2>1, CompleteOne
  <2>3. OfValue(<<q>>) /\ q \in AnyStep
    <3>1. Closes(q)
      BY NameCloses
    <3> HIDE DEF q
    <3> QED  BY <3>1, ValueOne, StepKinds DEF Ready, Closes
  <2>4. A = (indent \o <<q>>) \o <<Update, colon>>
    <3>1. <<q, Update, colon>> = <<q>> \o <<Update, colon>>
      BY ConcatThree
    <3>2. colon \in AnyStep
      <4> DEFINE z == <<colon>>
      <4>1. z \in Seq(AnyStep) /\ Len(z) = 1 /\ z[1] = colon
        BY <1>5 DEF Complete
      <4> HIDE DEF z, colon
      <4>2. 1 \in 1 .. Len(z)
        BY <4>1
      <4>3. z[1] \in AnyStep
        BY <4>1, <4>2, ElementOfSeq
      <4> QED  BY <4>1, <4>3
    <3>3. <<q>> \in Seq(AnyStep) /\ <<Update, colon>> \in Seq(AnyStep) /\ indent \in Seq(AnyStep)
      <4> HIDE DEF q
      <4> QED  BY <1>2, <2>3, <3>2, StepKinds DEF Complete
    <3> HIDE DEF q, indent, colon
    <3>4. (indent \o <<q>>) \o <<Update, colon>> = indent \o (<<q>> \o <<Update, colon>>)
      BY <3>3, StepsAssociate
    <3> QED  BY <3>1, <3>4
  <2> HIDE DEF q, s
  <2>5. Complete((indent \o <<q>>) \o <<Update, colon>>)
    BY <1>2, <1>5, <2>3, CompleteAround
  <2>6. Complete(A)
    BY <2>4, <2>5
  <2>7. parts[i] = (A \o members[i]) \o <<Update, s>>
    BY DEF q, s
  <2> HIDE DEF A, parts
  <2>8. OfValue(members[i])
    OBVIOUS
  <2>9. Complete((A \o members[i]) \o <<Update, s>>)
    BY <2>2, <2>6, <2>8, CompleteAround
  <2> QED  BY <2>7, <2>9
<1>8. parts = [i \in 1 .. n |-> parts[i]]
  OBVIOUS
<1> HIDE DEF parts
<1>9. Complete(FlattenSeq(parts))
  BY <1>7, <1>8, CompleteFlatten
<1>10. Complete(<<begin>> \o FlattenSeq(parts))
  BY <1>5, <1>9, CompleteConcat
<1>11. OfValue((<<begin>> \o FlattenSeq(parts)) \o <<last>>)
  BY <1>6, <1>10, ValueLast
<1> QED  BY <1>1, <1>11

(* A list with the item that is next, where there is one.                  *)
Continued(h, p, s) == LET next == IF s = << >> THEN h[p].child ELSE h[Last(s)].next
                      IN  IF next = NULL THEN s ELSE Append(s, next)

(* What goes on from an empty list to the next one goes for the list of    *)
(* an item.                                                                *)
LEMMA ListKept ==
    ASSUME NEW h, IsFiniteSet(DOMAIN h), NEW p, NEW V, << >> \in V,
           \A s \in V : Continued(h, p, s) \in V
    PROVE  List(h, p) \in V
<1> DEFINE k         == Cardinality(DOMAIN h)
           More(s)   == LET next == IF s = << >> THEN h[p].child ELSE h[Last(s)].next
                        IN  IF next = NULL THEN s ELSE Append(s, next)
           Solves(g) == g = [j \in 0 .. k |-> IF j = 0 THEN << >> ELSE More(g[j - 1])]
           G         == CHOOSE g : Solves(g)
           Turn      == [q \in V \X (1 .. k) |-> More(q[1])]
<1>1. k \in Nat /\ \A s \in V : More(s) \in V
  BY FS_CardinalityType DEF Continued
<1>3. List(h, p) = G[k]
  BY DEF List
<1> HIDE DEF k, More
<1>4. Turn \in [V \X (1 .. k) -> V] /\ \A s \in V, i \in 1 .. k : Turn[<<s, i>>] = More(s)
  BY <1>1
<1> HIDE DEF Turn
<1>5. PICK f \in [0 .. k -> V] : Follows(f, k, << >>, Turn)
  BY <1>1, <1>4, StepsExist
<1>6. \A j \in 0 .. k : f[j] = IF j = 0 THEN << >> ELSE More(f[j - 1])
  <2> TAKE j \in 0 .. k
  <2>1. CASE j = 0
    BY <1>5, <2>1 DEF Follows
  <2>2. CASE j # 0
    <3>1. j \in 1 .. k /\ j - 1 \in 0 .. k /\ f[j - 1] \in V
      BY <1>1, <1>5, <2>2
    <3>2. f[j] = Turn[<<f[j - 1], j>>]
      BY <1>5, <3>1 DEF Follows
    <3> QED  BY <1>4, <2>2, <3>1, <3>2
  <2> QED  BY <2>1, <2>2
<1>7. Solves(f)
  <2>1. f = [j \in 0 .. k |-> f[j]]
    BY <1>5
  <2> QED  BY <1>6, <2>1
<1>8. Solves(G)
  <2> HIDE DEF Solves
  <2> QED  BY <1>7
<1> HIDE DEF G
<1> DEFINE P == {j \in 0 .. k : G[j] \in V}
<1>9. G[0] = << >> /\ \A j \in 1 .. k : G[j] = More(G[j - 1])
  BY <1>1, <1>8
<1>10. 0 .. k \subseteq P
  <2>1. 0 \in P
    BY <1>1, <1>9
  <2>2. ASSUME NEW j \in 1 .. k, j - 1 \in P  PROVE j \in P
    BY <1>1, <1>9, <2>2
  <2> HIDE DEF P
  <2> QED  BY <1>1, <2>1, <2>2, Along
<1>11. k \in P
  BY <1>1, <1>10
<1> QED  BY <1>3, <1>11

(* The items of a list are where the pointers lead.                        *)
LEMMA ListWithin ==
    ASSUME NEW h, HeapOK(h), NEW p \in DOMAIN h, NEW X \in SUBSET DOMAIN h,
           At(h[p].child) \subseteq X, \A i \in X : At(h[i].next) \subseteq X
    PROVE  List(h, p) \in Seq(X)
<1> DEFINE V == Seq(X)
<1>1. << >> \in V /\ IsFiniteSet(DOMAIN h)
  BY DEF HeapOK
<1>2. ASSUME NEW s \in V  PROVE Continued(h, p, s) \in V
  <2> DEFINE next == IF s = << >> THEN h[p].child ELSE h[Last(s)].next
  <2>1. s # << >> => Last(s) \in X
    BY FrontIs
  <2>2. next # NULL => next \in X
    BY <2>1 DEF At
  <2>3. \A x \in X : Append(s, x) \in V
    OBVIOUS
  <2>4. Continued(h, p, s) = IF next = NULL THEN s ELSE Append(s, next)
    BY DEF Continued
  <2> HIDE DEF next, V
  <2> QED  BY <2>2, <2>3, <2>4
<1> HIDE DEF V
<1>3. List(h, p) \in V
  BY <1>1, <1>2, ListKept
<1> QED  BY <1>3 DEF V

(* No item is twice in a list that reads backward as it reads forward.     *)
LEMMA ListOnce ==
    ASSUME NEW h, HeapOK(h), NEW p \in DOMAIN h,
           \A i \in DOMAIN h : h[i].next # NULL => h[h[i].next].prev = i,
           h[p].child # NULL => h[h[p].child].prev = NULL,
           NEW n \in 1 .. Len(List(h, p)), NEW m \in 1 .. Len(List(h, p)),
           List(h, p)[n] = List(h, p)[m]
    PROVE  n = m
<1> DEFINE D == DOMAIN h  l == List(h, p)
           Back(s) == \A k \in 1 .. Len(s) : h[s[k]].prev = IF k = 1 THEN NULL ELSE s[k - 1]
           V == {s \in Seq(D) : Back(s)}
<1>1. << >> \in V /\ IsFiniteSet(D) /\ NULL \notin D
  BY HeapLinked DEF HeapOK
<1>2. ASSUME NEW s \in V  PROVE Continued(h, p, s) \in V
  <2> DEFINE next == IF s = << >> THEN h[p].child ELSE h[Last(s)].next
             r == Append(s, next)
  <2>1. s \in Seq(D) /\ Back(s) /\ Len(s) \in Nat
    OBVIOUS
  <2>2. IF s = << >> THEN Len(s) = 0
        ELSE Len(s) \in Nat \ {0} /\ Last(s) = s[Len(s)] /\ Last(s) \in D
    BY <2>1, FrontIs
  <2>3. \A i \in D : {h[i].child, h[i].next} \subseteq D \union {NULL}
    BY ZenonT(40) DEF HeapOK, Cell
  <2>4. next # NULL => next \in D
    BY <2>2, <2>3
  <2>5. Continued(h, p, s) = IF next = NULL THEN s ELSE r
    BY DEF Continued
  <2>6. next # NULL => h[next].prev = IF s = << >> THEN NULL ELSE s[Len(s)]
    BY <2>2
  <2> HIDE DEF next, r, Back
  <2>7. ASSUME next # NULL
        PROVE  /\ r \in Seq(D) /\ Len(r) = Len(s) + 1 /\ r[Len(s) + 1] = next
               /\ \A i \in 1 .. Len(s) : r[i] = s[i]
    BY <2>1, <2>4, <2>7, AppendProperties DEF r
  <2>8. ASSUME next # NULL, NEW k \in 1 .. Len(r)
        PROVE  h[r[k]].prev = IF k = 1 THEN NULL ELSE r[k - 1]
    <3>1. CASE k \in 1 .. Len(s)
      <4>1. k # 1 => k - 1 \in 1 .. Len(s)
        BY <2>1, <3>1
      <4> QED  BY <2>1, <2>7, <2>8, <3>1, <4>1 DEF Back
    <3>2. CASE k = Len(s) + 1
      <4>1. r[k] = next /\ k - 1 = Len(s) /\ (k = 1 <=> s = << >>)
        BY <2>1, <2>2, <2>7, <2>8, <3>2
      <4>2. s # << >> => r[Len(s)] = s[Len(s)]
        BY <2>2, <2>7, <2>8
      <4> QED  BY <2>6, <2>8, <4>1, <4>2
    <3>3. k \in 1 .. Len(s) \/ k = Len(s) + 1
      BY <2>1, <2>7, <2>8
    <3> QED  BY <3>1, <3>2, <3>3
  <2>9. next # NULL => Back(r)
    BY <2>8 DEF Back
  <2> HIDE DEF D
  <2> QED  BY <2>1, <2>5, <2>7, <2>9
<1>3. l \in V
  <2> HIDE DEF V
  <2> QED  BY <1>1, <1>2, ListKept
<1> HIDE DEF l
<1>4. Len(l) \in Nat /\ \A k \in 1 .. Len(l) : l[k] \in D
  BY <1>3
<1>5. \A k \in 1 .. Len(l) : h[l[k]].prev = IF k = 1 THEN NULL ELSE l[k - 1]
  BY <1>3
<1> HIDE DEF V, D
<1> DEFINE P == {k \in 0 .. Len(l) : k # 0 => \A q \in 1 .. Len(l) : l[k] = l[q] => k = q}
<1>6. 0 \in P
  BY <1>4
<1>7. ASSUME NEW k \in 1 .. Len(l), k - 1 \in P  PROVE k \in P
  <2>1. k \in 0 .. Len(l)
    BY <1>4
  <2>2. ASSUME NEW q \in 1 .. Len(l), l[k] = l[q]  PROVE k = q
    <3>1. (k # 1 => k - 1 \in 1 .. Len(l)) /\ (q # 1 => q - 1 \in 1 .. Len(l))
      BY <1>4
    <3>2. (IF k = 1 THEN NULL ELSE l[k - 1]) = IF q = 1 THEN NULL ELSE l[q - 1]
      BY <1>5, <2>2
    <3>3. CASE k = 1 \/ q = 1
      BY <1>1, <1>4, <3>1, <3>2, <3>3
    <3>4. CASE k # 1 /\ q # 1
      <4>1. l[k - 1] = l[q - 1] /\ k - 1 # 0
        BY <3>1, <3>2, <3>4
      <4>2. k - 1 = q - 1
        BY <1>7, <3>1, <3>4, <4>1
      <4> QED  BY <1>4, <4>2
    <3> QED  BY <3>3, <3>4
  <2> QED  BY <2>1, <2>2
<1>8. n \in 1 .. Len(l) /\ m \in 1 .. Len(l) /\ l[n] = l[m]
  BY DEF l
<1>9. n \in P
  <2> HIDE DEF P
  <2>1. 0 .. Len(l) \subseteq P
    BY <1>4, <1>6, <1>7, Along
  <2> QED  BY <1>4, <1>8, <2>1
<1>10. n # 0
  BY <1>4, <1>8
<1> QED  BY <1>8, <1>9, <1>10

(* The items of a list are items of the heap.                              *)
LEMMA ListIn ==
    ASSUME NEW h, HeapOK(h), NEW p \in DOMAIN h
    PROVE  List(h, p) \in Seq(DOMAIN h)
<1>1. \A i \in DOMAIN h : At(h[i].child) \subseteq DOMAIN h /\ At(h[i].next) \subseteq DOMAIN h
  BY DEF HeapOK, Cell, At
<1> QED  BY <1>1, ListWithin

(* Numbers and strings have their values.                                  *)
Printable(h) ==
    /\ HeapOK(h)
    /\ \A i \in DOMAIN h : /\ h[i].type = "num" => h[i].value \in Numbers
                           /\ h[i].type = "string" => h[i].value \in Seq(1 .. 255)

(* The steps for an item, from those for its members.                      *)
LEMMA ItemIsValue ==
    ASSUME NEW h, Printable(h), NEW i \in DOMAIN h, NEW format \in BOOLEAN, NEW level \in Nat,
           NEW value, \A j \in DOMAIN h : OfValue(value[j])
    PROVE  OfValue(ItemSteps(h, i, value, format, level))
<1> DEFINE list    == List(h, i)
           names   == [n \in DOMAIN list |-> h[list[n]].string]
           members == [n \in DOMAIN list |-> value[list[n]]]
           type    == h[i].type
           word    == TextOfWord[type]
           digits  == Digits[h[i].value]
           L       == ItemSteps(h, i, value, format, level)
           k       == Len(list)
<1> SUFFICES OfValue(L)
  OBVIOUS
<1>1. list \in Seq(DOMAIN h) /\ k \in Nat /\ DOMAIN list = 1 .. k /\ \A n \in 1 .. k : list[n] \in DOMAIN h
  <2>1. list \in Seq(DOMAIN h)
    BY ListIn DEF Printable
  <2> HIDE DEF list
  <2> QED  BY <2>1, ElementOfSeq
<1>2. type \in Types /\ \A j \in DOMAIN h : h[j].string \in Strings
  BY DEF Printable, HeapOK, Cell
<1>3. /\ members = [n \in 1 .. k |-> members[n]] /\ names = [n \in 1 .. k |-> names[n]]
      /\ \A n \in 1 .. k : OfValue(members[n]) /\ names[n] \in Strings
  <2> HIDE DEF list, k
  <2> QED  BY <1>1, <1>2
<1>4. CASE type \in DOMAIN TextOfWord
  <2>0. type \notin {"num", "string", "array", "object"}
    BY <1>4, ValueAssumption, NullAssumption
  <2>1. L = <<Put(Len(word) + 1, word \o <<0>>, 0)>>
    BY <1>4, <2>0, Zenon DEF ItemSteps
  <2>2. word \in Seq(1 .. 255)
    BY <1>4, TextAssumption
  <2> HIDE DEF word, L
  <2>3. 0 \in 0 .. Len(word)
    BY <2>2
  <2>4. Closes(Put(Len(word) + 1, word \o <<0>>, 0))
    BY <2>2, <2>3, TextCloses
  <2> QED  BY <2>1, <2>4, ValueOne DEF Ready
<1>5. CASE type \notin DOMAIN TextOfWord /\ type = "num"
  <2>1. L = <<Put(Len(digits) + 1, digits \o <<0>>, Len(digits))>>
    BY <1>5 DEF ItemSteps
  <2>2. h[i].value \in Nat
    BY <1>5, ValueAssumption DEF Printable
  <2>3. Closes(Put(Len(digits) + 1, digits \o <<0>>, Len(digits)))
    BY <2>2, NumberCloses
  <2> HIDE DEF digits, L
  <2> QED  BY <2>1, <2>3, ValueOne DEF Ready
<1>6. CASE type \notin DOMAIN TextOfWord /\ type = "string"
  <2>1. L = <<PutString(h[i].value)>>
    BY <1>6 DEF ItemSteps
  <2>2. Closes(PutString(h[i].value))
    BY <1>6, StringCloses DEF Printable
  <2> HIDE DEF L
  <2> QED  BY <2>1, <2>2, ValueOne DEF Ready
<1>7. CASE type \notin DOMAIN TextOfWord /\ type = "array"
  <2>1. L = PrintArray(members, format)
    BY <1>7 DEF ItemSteps
  <2> HIDE DEF L, members, k
  <2> QED  BY <1>1, <1>3, <2>1, ArrayIsValue
<1>8. CASE type \notin DOMAIN TextOfWord /\ type = "object"
  <2>1. L = PrintObject(names, members, format, level)
    BY <1>8 DEF ItemSteps
  <2> HIDE DEF L, members, names, k
  <2> QED  BY <1>1, <1>3, <2>1, ObjectIsValue
<1>9. CASE /\ type \notin DOMAIN TextOfWord /\ type \notin {"num", "string", "array", "object"}
  <2>1. L = <<Impossible>>
    BY <1>9 DEF ItemSteps
  <2> HIDE DEF L
  <2> QED  BY <2>1, ValueOne DEF Ready
<1> HIDE DEF type, L
<1> QED  BY <1>4, <1>5, <1>6, <1>7, <1>8, <1>9

(* The steps for an item, from its members' up.                            *)
LEMMA StepsAreValue ==
    ASSUME NEW h, Printable(h), NEW item \in DOMAIN h, NEW format \in BOOLEAN
    PROVE  OfValue(Steps(h, item, format))
<1> DEFINE k           == Cardinality(DOMAIN h)
           W           == {L \in Seq(AnyStep) : OfValue(L)}
           V           == [DOMAIN h -> W]
           Base        == [i \in DOMAIN h |-> <<Impossible>>]
           Round(v, n) == [i \in DOMAIN h |-> ItemSteps(h, i, v, format, k - n)]
           Solves(g)   == g = [n \in 0 .. k |->
                                 [i \in DOMAIN h |-> IF n = 0 THEN <<Impossible>>
                                                     ELSE ItemSteps(h, i, g[n - 1], format, k - n)]]
           G           == CHOOSE g : Solves(g)
           Turn        == [q \in V \X (1 .. k) |-> Round(q[1], q[2])]
<1>1. k \in Nat
  BY FS_CardinalityType DEF Printable, HeapOK
<1>2. Base \in V
  BY ValueOne DEF Ready, OfValue
<1>3. Steps(h, item, format) = G[k][item]
  BY DEF Steps
<1> HIDE DEF k
<1>4. \A v \in V, n \in 1 .. k : Round(v, n) \in V
  <2> TAKE v \in V, n \in 1 .. k
  <2>1. k - n \in Nat /\ \A j \in DOMAIN h : OfValue(v[j])
    BY <1>1
  <2> HIDE DEF V
  <2>2. \A i \in DOMAIN h : OfValue(ItemSteps(h, i, v, format, k - n))
    BY <2>1, ItemIsValue
  <2>3. \A i \in DOMAIN h : ItemSteps(h, i, v, format, k - n) \in W
    BY <2>2 DEF OfValue
  <2> HIDE DEF W
  <2> QED  BY <2>3 DEF V
<1> HIDE DEF V
<1>5. /\ Turn \in [V \X (1 .. k) -> V]
      /\ \A v \in V, n \in 1 .. k : Turn[<<v, n>>] = Round(v, n)
  <2> HIDE DEF Round
  <2> QED  BY <1>4
<1> HIDE DEF Turn, Base
<1>6. PICK f \in [0 .. k -> V] : Follows(f, k, Base, Turn)
  BY <1>1, <1>2, <1>5, StepsExist
<1>7. \A n \in 0 .. k : f[n] = [i \in DOMAIN h |-> IF n = 0 THEN <<Impossible>>
                                                ELSE ItemSteps(h, i, f[n - 1], format, k - n)]
  <2> TAKE n \in 0 .. k
  <2>1. CASE n = 0
    BY <1>6, <2>1 DEF Follows, Base
  <2>2. CASE n # 0
    <3>1. n \in 1 .. k /\ n - 1 \in 0 .. k /\ f[n - 1] \in V
      BY <1>1, <1>6, <2>2
    <3>2. f[n] = Turn[<<f[n - 1], n>>]
      BY <1>6, <3>1 DEF Follows
    <3>3. f[n] = Round(f[n - 1], n)
      BY <1>5, <3>1, <3>2
    <3> QED  BY <2>2, <3>3
  <2> QED  BY <2>1, <2>2
<1>8. Solves(f)
  <2>1. f = [n \in 0 .. k |-> f[n]]
    BY <1>6
  <2> QED  BY <1>7, <2>1, Zenon
<1>9. Solves(G)
  <2> HIDE DEF Solves
  <2> QED  BY <1>8
<1> HIDE DEF G, Round
<1>10. /\ G[0] = Base
       /\ \A n \in 1 .. k : G[n] = Round(G[n - 1], n)
  <2>1. \A n \in 0 .. k : G[n] = [i \in DOMAIN h |-> IF n = 0 THEN <<Impossible>>
                                                ELSE ItemSteps(h, i, G[n - 1], format, k - n)]
    BY <1>9, Zenon
  <2>2. 0 \in 0 .. k /\ \A n \in 1 .. k : n \in 0 .. k /\ n # 0
    BY <1>1
  <2> HIDE DEF Solves
  <2> QED  BY <2>1, <2>2, ZenonT(40) DEF Base, Round
<1> DEFINE P == {n \in 0 .. k : G[n] \in V}
<1>11. 0 .. k \subseteq P
  <2>1. 0 \in P
    BY <1>1, <1>2, <1>10
  <2>2. ASSUME NEW n \in 1 .. k, n - 1 \in P  PROVE n \in P
    BY <1>1, <1>4, <1>10, <2>2
  <2> HIDE DEF P
  <2> QED  BY <1>1, <2>1, <2>2, Along
<1>12. G[k] \in V
  BY <1>1, <1>11
<1> QED  BY <1>3, <1>12 DEF V
-----------------------------------------------------------------------------
(* The items of a document that is complete have their values.             *)

(* What parse_value fills, or has just failed to fill, may bear the type   *)
(* of its name.                                                            *)
Pending == pc \in {"value", "name", "colon"} \/ (pc = "return" /\ ~ok)

(* The item is the last of one of the lists that are being read: of any    *)
(* but the inmost, it is an array or object that is not complete.          *)
Unfinished(i) ==
    \E n \in 0 .. Len(stack) : i = Inmost(stack, root, n) /\ (n = Len(stack) => Pending)

(* A string has its copy, unless it is an item that is not finished: a     *)
(* member that has its name is called a string before its value is read.   *)
StringsRight ==
    \A i \in DOMAIN heap : heap[i].type = "string" => heap[i].copy \/ Unfinished(i)

(* Memory is as it was.                                                    *)
LEMMA SameStrings ==
    ASSUME StringsRight, UNCHANGED <<heap, stack, root>>, Pending => Pending'
    PROVE  StringsRight'
BY DEF StringsRight, Unfinished

(* The item that is read has its value.                                    *)
LEMMA ValueStrings ==
    ASSUME StringsRight, MemoryRight, pc \in {"value", "name", "colon"}, UNCHANGED <<stack, root>>,
           NEW v, heap' = [heap EXCEPT ![cur] = v],
           v.type = "string" => v.copy \/ Pending'
    PROVE  StringsRight'
<1>1. cur \in DOMAIN heap /\ cur = Inmost(stack, root, Len(stack)) /\ Len(stack) \in Nat
  <2>1. stack \in Seq(Frames)
    BY DEF MemoryRight, Shape
  <2>2. Len(stack) \in Nat
    BY <2>1
  <2> QED  BY <2>2, CurIs
<1>2. DOMAIN heap' = DOMAIN heap /\ heap'[cur] = v /\ \A i \in DOMAIN heap : i # cur => heap'[i] = heap[i]
  BY <1>1
<1> SUFFICES ASSUME NEW i \in DOMAIN heap, heap'[i].type = "string", ~heap'[i].copy
             PROVE  Unfinished(i)'
  BY <1>2 DEF StringsRight
<1>3. CASE i = cur
  <2>1. Pending'
    BY <1>2, <1>3
  <2>2. Len(stack) \in 0 .. Len(stack)
    BY <1>1
  <2> QED  BY <1>1, <1>3, <2>1, <2>2 DEF Unfinished
<1>4. CASE i # cur
  <2>1. PICK n \in 0 .. Len(stack) : i = Inmost(stack, root, n) /\ (n = Len(stack) => Pending)
    BY <1>2, <1>4 DEF StringsRight, Unfinished
  <2>2. n # Len(stack)
    BY <1>1, <1>4, <2>1
  <2> QED  BY <2>1, <2>2 DEF Unfinished
<1> QED  BY <1>3, <1>4

(* A value is read.                                                        *)
LEMMA ReadStrings ==
    StringsRight /\ MemoryRight /\ TextRight /\ (ParseWord \/ ParseNumber \/ ParseStringValue)
        => StringsRight'
<1> SUFFICES ASSUME StringsRight, MemoryRight, TextRight,
                    ParseWord \/ ParseNumber \/ ParseStringValue
             PROVE  StringsRight'
  OBVIOUS
<1>0. pc = "value" /\ UNCHANGED <<stack, root>>
  BY DEF ParseWord, ParseNumber, ParseStringValue
<1>1. cur \in DOMAIN heap /\ heap[cur] \in Cell(DOMAIN heap)
  BY <1>0, CurIs
<1>2. CASE ParseWord
  <2> DEFINE w == text[Here].word  v == WithType(heap[cur], w)
  <2>1. w \in Words /\ w # "string"
    BY <1>2, SeesIs, NullAssumption DEF ParseWord
  <2>2. heap' = [heap EXCEPT ![cur] = v]
    BY <1>2 DEF ParseWord, WithType
  <2>3. v.type = w
    <3> DEFINE D == DOMAIN heap
    <3>1. w \in Types
      BY <2>1 DEF Types
    <3> HIDE DEF D, w
    <3> QED  BY <1>1, <3>1, Retyped
  <2> HIDE DEF v, w
  <2> QED  BY <1>0, <2>1, <2>2, <2>3, ValueStrings
<1>3. CASE ParseNumber
  <2> DEFINE x == text[Here].num  v == WithValue(heap[cur], "num", x)
  <2>1. x \in Values /\ "num" \in Types
    BY <1>3, SeesIs DEF ParseNumber, Values, Types
  <2>2. heap' = [heap EXCEPT ![cur] = v]
    BY <1>1, <1>3 DEF ParseNumber, WithValue, MemoryRight, Shape, HeapOK
  <2> HIDE DEF x
  <2>3. v.type = "num"
    BY <1>1, <2>1, Valued
  <2> HIDE DEF v
  <2> QED  BY <1>0, <2>2, <2>3, ValueStrings
<1>4. CASE ParseStringValue /\ ok' = FALSE
  <2>1. Pending' /\ UNCHANGED heap
    BY <1>4 DEF ParseStringValue, SameMemory, Becomes, Pending, Return
  <2> QED  BY <1>0, <2>1, SameStrings
<1>5. CASE ParseStringValue /\ ok' # FALSE
  <2> DEFINE x == UpToNull(ParseString(text[Here].units).out)
             t == TRUE
             v == WithCopy(heap[cur], "string", x, t)
  <2>1. x \in Values /\ "string" \in Types /\ t \in BOOLEAN
    BY <1>5, StringIs DEF ParseStringValue, Values, Types
  <2>2. heap' = [heap EXCEPT ![cur] = v]
    BY <1>1, <1>5 DEF ParseStringValue, Becomes, MemoryRight, Shape, HeapOK, WithCopy, Return
  <2> HIDE DEF x, t
  <2>3. v.copy = t
    BY <1>1, <2>1, Copied
  <2> HIDE DEF v
  <2> QED  BY <1>0, <2>2, <2>3, ValueStrings DEF t
<1> QED  BY <1>2, <1>3, <1>4, <1>5

(* The inmost list.                                                        *)
LEMMA InmostIs ==
    ASSUME MemoryRight, stack # << >>
    PROVE  /\ Len(stack) \in Nat \ {0} /\ Last(stack) = stack[Len(stack)]
           /\ Len(Front(stack)) = Len(stack) - 1
           /\ \A n \in 0 .. Len(stack) - 1 : Inmost(Front(stack), root, n) = Inmost(stack, root, n)
           /\ Last(stack).item = Inmost(stack, root, Len(stack) - 1)
           /\ Last(stack).item \in DOMAIN heap
           /\ \A i \in DOMAIN heap : i = Inmost(stack, root, Len(stack))
                                        => i \in Freed(heap, Last(stack).head)
<1>1. Shape(heap, stack, root) /\ stack \in Seq(Frames) /\ HeapOK(heap)
  BY DEF MemoryRight, Shape
<1> DEFINE k == Len(stack)
<1>2. /\ k \in Nat \ {0} /\ Last(stack) = stack[k] /\ Len(Front(stack)) = k - 1
      /\ \A n \in 1 .. k - 1 : Front(stack)[n] = stack[n]
  BY <1>1, FrontIs
<1>3. \A n \in 0 .. k - 1 : Inmost(Front(stack), root, n) = Inmost(stack, root, n)
  <2> TAKE n \in 0 .. k - 1
  <2>1. n = 0 \/ n \in 1 .. k - 1
    BY <1>2
  <2> QED  BY <1>2, <2>1 DEF Inmost
<1>4. k \in 0 .. k /\ k \in 1 .. k /\ k - 1 \in 0 .. k
  BY <1>2
<1>5. stack[k].item = Inmost(stack, root, k - 1) /\ stack[k].item # NULL
  BY <1>1, <1>4 DEF Shape, FrameOK
<1>6. stack[k].item \in DOMAIN heap
  BY <1>1, <1>4, <1>5, ShapeLists
<1>7. Below(heap, stack, root, k) = Freed(heap, Last(stack).head)
  BY <1>2 DEF Below, First
<1>8. NULL \notin DOMAIN heap
  BY <1>1, HeapLinked
<1> QED  BY <1>1, <1>2, <1>3, <1>4, <1>5, <1>6, <1>7, <1>8, ShapeLists

(* An array or object fails.                                               *)
LEMMA FailStrings ==
    ASSUME StringsRight, MemoryRight, FailMember, stack # << >>, UNCHANGED root
    PROVE  StringsRight'
<1> DEFINE k == Len(stack)
<1>1. /\ stack' = Front(stack) /\ pc' = "return" /\ ok' = FALSE
      /\ heap' = [i \in DOMAIN heap \ Freed(heap, Last(stack).head) |-> heap[i]]
  BY DEF FailMember, Return, Deleted, Becomes
<1>2. Pending'
  BY <1>1 DEF Pending
<1> SUFFICES ASSUME NEW i \in DOMAIN heap \ Freed(heap, Last(stack).head),
                    heap[i].type = "string", ~heap[i].copy
             PROVE  Unfinished(i)'
  BY <1>1 DEF StringsRight
<1>3. PICK n \in 0 .. k : i = Inmost(stack, root, n)
  BY DEF StringsRight, Unfinished
<1>4. n # k
  BY <1>3, InmostIs
<1>5. k \in Nat \ {0} /\ Len(stack') = k - 1
  BY <1>1, InmostIs
<1>6. n \in 0 .. Len(stack') /\ n \in 0 .. k - 1
  BY <1>4, <1>5
<1>7. i = Inmost(stack', root', n)
  BY <1>1, <1>3, <1>6, InmostIs
<1> QED  BY <1>2, <1>6, <1>7 DEF Unfinished

(* An array or object ends.                                                *)
LEMMA SucceedStrings ==
    ASSUME StringsRight, MemoryRight, Succeed, stack # << >>, UNCHANGED root, ~Pending
    PROVE  StringsRight'
<1> DEFINE k == Len(stack)  f == Last(stack)
           v == WithMembers(heap[f.item], f.kind, f.head)
<1>1. stack' = Front(stack) /\ k \in Nat \ {0} /\ Len(stack') = k - 1
  BY InmostIs DEF Succeed
<1>2. f.item \in DOMAIN heap /\ f.item = Inmost(stack, root, k - 1) /\ f.kind \in {"array", "object"}
  BY InmostIs, KindIs
<1>3. heap' = [heap EXCEPT ![f.item] = v]
  BY <1>2 DEF Succeed, WithMembers, MemoryRight, Shape, HeapOK
<1>4. v.type = f.kind
  <2> DEFINE c == heap[f.item]
  <2>1. c \in Cell(DOMAIN heap)
    BY <1>2 DEF MemoryRight, Shape, HeapOK
  <2> HIDE DEF c, f
  <2>2. \A w, x : WithMembers(c, w, x).type = w
    BY <2>1 DEF WithMembers, Cell
  <2> QED  BY <2>2 DEF c
<1> HIDE DEF v, f
<1>5. DOMAIN heap' = DOMAIN heap /\ heap'[f.item] = v /\ \A i \in DOMAIN heap : i # f.item => heap'[i] = heap[i]
  BY <1>2, <1>3
<1> SUFFICES ASSUME NEW i \in DOMAIN heap, heap'[i].type = "string", ~heap'[i].copy
             PROVE  Unfinished(i)'
  BY <1>5 DEF StringsRight
<1>6. i # f.item
  BY <1>2, <1>4, <1>5
<1>7. PICK n \in 0 .. k : i = Inmost(stack, root, n) /\ n # k
  BY <1>5, <1>6 DEF StringsRight, Unfinished
<1>8. n # k - 1
  BY <1>2, <1>6, <1>7
<1>9. n \in 0 .. Len(stack') /\ n # Len(stack') /\ n \in 0 .. k - 1
  BY <1>1, <1>7, <1>8
<1>10. i = Inmost(stack', root', n)
  BY <1>1, <1>7, <1>9, InmostIs
<1> QED  BY <1>9, <1>10 DEF Unfinished

(* A member begins.                                                        *)
LEMMA GrowStrings ==
    ASSUME StringsRight, MemoryRight, stack # << >>, NEW x, OneMore(x), UNCHANGED root, ~Pending
    PROVE  StringsRight'
<1> DEFINE k == Len(stack)
<1>1. k \in Nat \ {0}
  BY InmostIs
<1> SUFFICES ASSUME NEW i \in DOMAIN heap, heap[i].type = "string", ~heap[i].copy
             PROVE  Unfinished(i)'
  BY DEF StringsRight, OneMore
<1>2. PICK n \in 0 .. k : i = Inmost(stack, root, n) /\ n # k
  BY DEF StringsRight, Unfinished
<1>3. Len(stack') = k /\ (n # 0 => stack'[n] = stack[n])
  BY <1>1, <1>2 DEF OneMore
<1>4. i = Inmost(stack', root', n)
  BY <1>2, <1>3 DEF Inmost
<1> QED  BY <1>2, <1>3, <1>4 DEF Unfinished

(* Every step keeps it.                                                    *)
LEMMA StringsStep ==
    ASSUME StringsRight, MemoryRight, MemoryRight', DepthRight, TextRight, [DocNext]_doc_vars
    PROVE  StringsRight'
<1>0. pc \in {"open", "member", "name", "colon"} => stack # << >>
  BY DEF DepthRight
<1>s. pc \notin {"value", "name", "colon", "return"} => ~Pending
  BY DEF Pending
<1>e. DOMAIN heap' = {} => StringsRight'
  BY DEF StringsRight
<1>1. CASE Supply
  BY <1>1, SameStrings DEF Supply, parse_vars, mem_vars, Pending
<1>2. CASE Start
  <2>1. CASE pc' = "done"
    BY <1>2, <2>1, <1>s, SameStrings DEF Start
  <2>2. CASE pc' # "done"
    <3> DEFINE x == Fresh
    <3>1. heap' = WithItem(heap, x, NewItem) /\ DOMAIN heap = {}
      BY <1>2, <2>2 DEF Start, MemoryRight
    <3> HIDE DEF x
    <3>2. DOMAIN heap' = {x} /\ heap'[x] = NewItem
      BY <3>1 DEF WithItem
    <3>3. NewItem.type # "string"
      BY DEF NewItem
    <3> QED  BY <3>2, <3>3 DEF StringsRight
  <2> QED  BY <2>1, <2>2
<1>3. CASE ParseWord \/ ParseNumber \/ ParseStringValue
  BY <1>3, ReadStrings
<1>4. CASE \E kind \in {"array", "object"} : Open(kind)
  <2>1. UNCHANGED <<heap, root>> /\ pc = "value"
    BY <1>4 DEF Open, mem_vars
  <2>2. CASE TooDeep
    BY <1>4, <2>1, <2>2, SameStrings DEF Open, Return, Pending
  <2>3. CASE ~TooDeep
    <3>1. PICK frame : stack' = Append(stack, frame)
      BY <1>4, <2>3 DEF Open
    <3>2. /\ Len(stack) \in Nat /\ Len(stack') = Len(stack) + 1
          /\ \A n \in 1 .. Len(stack) : stack'[n] = stack[n]
      <4> DEFINE V == Range(stack) \union {frame}
      <4>1. stack \in Seq(Frames)
        BY DEF MemoryRight, Shape
      <4>2. stack \in Seq(Frames \union {frame}) /\ frame \in Frames \union {frame}
        <5> DEFINE F == Frames  G == Frames \union {frame}
        <5>1. F \subseteq G /\ stack \in Seq(F)
          BY <4>1
        <5> HIDE DEF F, G
        <5>2. stack \in Seq(G)
          BY <5>1, SeqMonotonic
        <5> QED  BY <5>2 DEF G
      <4> QED  BY <3>1, <4>2, AppendProperties
    <3> SUFFICES ASSUME NEW i \in DOMAIN heap, heap[i].type = "string", ~heap[i].copy
                 PROVE  Unfinished(i)'
      BY <2>1 DEF StringsRight
    <3>3. PICK n \in 0 .. Len(stack) : i = Inmost(stack, root, n)
      BY DEF StringsRight, Unfinished
    <3>4. n \in 0 .. Len(stack') /\ n # Len(stack') /\ (n # 0 => stack'[n] = stack[n])
      BY <3>2, <3>3
    <3>5. i = Inmost(stack', root', n)
      BY <2>1, <3>3, <3>4 DEF Inmost
    <3> QED  BY <3>4, <3>5 DEF Unfinished
  <2> QED  BY <2>2, <2>3
<1>5. CASE Reject
  BY <1>5, SameStrings DEF Reject, Return, mem_vars, Pending
<1>6. CASE FirstMember
  <2>1. stack # << >> /\ ~Pending /\ UNCHANGED root
    BY <1>0, <1>6, <1>s DEF FirstMember
  <2>2. CASE Succeed
    BY <2>1, <2>2, SucceedStrings
  <2>3. CASE ~Succeed
    BY <1>6, <2>1, <2>3, SameStrings DEF FirstMember
  <2> QED  BY <2>2, <2>3
<1>7. CASE NewMember
  <2>1. stack # << >> /\ ~Pending /\ UNCHANGED root
    BY <1>0, <1>7, <1>s DEF NewMember
  <2>2. CASE FailMember
    BY <2>1, <2>2, FailStrings
  <2>3. CASE ~FailMember
    <3> DEFINE x == Fresh
    <3>1. stack' = [stack EXCEPT ![Len(stack)] = Grown(Last(stack), x)]
      BY <1>7, <2>3 DEF NewMember, Grown
    <3>2. heap' = LET h == WithItem(heap, x, WithPrev(NewItem, Last(stack).last))
                  IN  IF Last(stack).head = NULL THEN h
                      ELSE [h EXCEPT ![Last(stack).last] = WithNext(h[Last(stack).last], x)]
      BY <1>7, <2>3 DEF NewMember, WithPrev, WithNext
    <3>3. cur' = x /\ pc' \in {"value", "name"} /\ UNCHANGED copies
      BY <1>7, <2>3 DEF NewMember
    <3>4. x = Fresh
      OBVIOUS
    <3> HIDE DEF x
    <3>5. Grows(x)
      BY <2>1, <3>1, <3>2, <3>3 DEF Grows
    <3>6. OneMore(x)
      BY <2>1, <3>4, <3>5, GrowMemory
    <3> QED  BY <2>1, <3>6, GrowStrings
  <2> QED  BY <2>2, <2>3
<1>8. CASE ParseName
  <2>1. stack # << >> /\ UNCHANGED root /\ pc = "name"
    BY <1>0, <1>8 DEF ParseName
  <2>2. CASE FailMember
    BY <2>1, <2>2, FailStrings
  <2>3. CASE ~FailMember
    <3> DEFINE x == UpToNull(ParseString(text[Here].units).out)
               v == WithName(heap[cur], "string", x)
    <3>1. cur \in DOMAIN heap /\ heap[cur] \in Cell(DOMAIN heap)
      BY <2>1, CurIs
    <3>2. heap' = [heap EXCEPT ![cur] = v] /\ pc' = "colon" /\ UNCHANGED stack
      BY <1>8, <2>3, <3>1 DEF ParseName, Becomes, WithName, MemoryRight, Shape, HeapOK
    <3> HIDE DEF v
    <3>3. Pending'
      BY <3>2 DEF Pending
    <3> QED  BY <2>1, <3>2, <3>3, ValueStrings
  <2> QED  BY <2>2, <2>3
<1>9. CASE ParseColon
  <2>1. stack # << >> /\ UNCHANGED root
    BY <1>0, <1>9 DEF ParseColon
  <2>2. CASE FailMember
    BY <2>1, <2>2, FailStrings
  <2>3. CASE ~FailMember
    BY <1>9, <2>1, <2>3, SameStrings DEF ParseColon, SameMemory, Becomes, Pending
  <2> QED  BY <2>2, <2>3
<1>10. CASE NextMember
  <2>1. stack # << >> /\ UNCHANGED root /\ pc = "return" /\ (ok => ~Pending)
    BY <1>10 DEF NextMember, Pending
  <2>2. CASE FailMember
    BY <2>1, <2>2, FailStrings
  <2>3. CASE Succeed /\ ok
    BY <2>1, <2>3, SucceedStrings
  <2>4. CASE SameMemory /\ ok /\ UNCHANGED stack
    BY <2>1, <2>4, SameStrings DEF SameMemory, Becomes
  <2> QED  BY <1>10, <2>2, <2>3, <2>4 DEF NextMember
<1>x. ASSUME stack' = << >>, root' = NULL  PROVE DOMAIN heap' = {}
  <2>1. Shape(heap', stack', root') /\ Len(stack') = 0 /\ HeapOK(heap')
    BY <1>x DEF MemoryRight, Shape
  <2>2. \A i \in DOMAIN heap' : i \in Below(heap', stack', root', 0)
    <3>1. \A n \in 0 .. Len(stack') : n = 0
      BY <2>1
    <3> QED  BY <2>1, <3>1 DEF Shape
  <2>3. Below(heap', stack', root', 0) = {}
    BY <1>x, <2>1, HeapLinked, FreedNull DEF Below, First
  <2> QED  BY <2>2, <2>3
<1>11. CASE Finish
  <2>1. stack = << >> /\ UNCHANGED stack /\ pc = "return" /\ pc' = "done" /\ UNCHANGED ok
    BY <1>11 DEF Finish
  <2>2. CASE UNCHANGED <<heap, root>> /\ ok
    BY <2>1, <2>2, SameStrings DEF Pending
  <2>3. CASE root' = NULL
    BY <1>e, <1>x, <2>1, <2>3
  <2> QED  BY <1>11, <2>2, <2>3 DEF Finish, SameMemory, Becomes
<1>12. CASE /\ pc = "done"
            /\ \E format \in BOOLEAN :
                  DoPrint(format) \/ DoPrintBuffered(format) \/ DoPrintPreallocated(format)
  <2>1. UNCHANGED <<heap, copies, stack, root>>
    BY <1>12 DEF DoPrint, DoPrintBuffered, DoPrintPreallocated, Reports
  <2> QED  BY <1>12, <1>s, <2>1, SameStrings
<1>13. CASE DeleteDocument
  <2>1. stack = << >> /\ UNCHANGED stack /\ root' = NULL
    BY <1>13 DEF DeleteDocument, MemoryRight, Outside
  <2> QED  BY <1>e, <1>x, <2>1
<1>14. CASE UNCHANGED doc_vars
  BY <1>14, SameStrings DEF doc_vars, vars, parse_vars, mem_vars, Pending
<1> QED  BY <1>1, <1>2, <1>3, <1>4, <1>5, <1>6, <1>7, <1>8, <1>9, <1>10, <1>11, <1>12,
            <1>13, <1>14 DEF DocNext, Step, Parse

(* It holds at first.                                                      *)
LEMMA StringsInit == DocInit => StringsRight
BY DEF DocInit, Init, StringsRight

(* A document can be printed.                                              *)
LEMMA DocumentPrints ==
    ASSUME StringsRight, MemoryRight, pc = "done"
    PROVE  Printable(heap)
<1>1. stack = << >> /\ HeapOK(heap) /\ ValuesRight
  BY DEF MemoryRight, Outside, Shape
<1>2. \A i \in DOMAIN heap : ~Unfinished(i)
  <2>1. Len(stack) = 0 /\ ~Pending
    BY <1>1 DEF Pending
  <2> QED  BY <2>1 DEF Unfinished
<1> QED  BY <1>1, <1>2 DEF Printable, StringsRight, ValuesRight
-----------------------------------------------------------------------------
(* What the steps make of a buffer.                                        *)

(* The buffers that are printed into.                                      *)
Buffers == [cells : Seq(Int), null : BOOLEAN, offset : Nat, noalloc : BOOLEAN, ok : BOOLEAN,
            over : BOOLEAN, allocs : Nat, fails : Nat]

(* The first null byte from the offset on is behind the e-th cell.         *)
Terminated(b, e) ==
    /\ e \in Nat /\ b.offset <= e /\ e + 1 <= Length(b)
    /\ b.cells[e + 1] = 0
    /\ \A c \in b.offset + 1 .. e : b.cells[c] # 0

(* The fields of a buffer that is changed.                                 *)
LEMMA BufferIs ==
    ASSUME NEW b \in Buffers
    PROVE  /\ b.cells \in Seq(Int) /\ b.offset \in Nat /\ b.noalloc \in BOOLEAN /\ b.ok \in BOOLEAN
           /\ b.over \in BOOLEAN /\ b.allocs \in Nat /\ b.fails \in Nat
           /\ Length(b) \in Nat /\ Length(b) = Len(b.cells) /\ DOMAIN b.cells = 1 .. Length(b)
<1>1. /\ b.cells \in Seq(Int) /\ b.offset \in Nat /\ b.noalloc \in BOOLEAN /\ b.ok \in BOOLEAN
      /\ b.over \in BOOLEAN /\ b.allocs \in Nat /\ b.fails \in Nat
  BY DEF Buffers
<1>2. Length(b) \in Nat /\ Length(b) = Len(b.cells) /\ DOMAIN b.cells = 1 .. Length(b)
  BY <1>1 DEF Length
<1> QED  BY <1>1, <1>2

Moved(b, o) == [b EXCEPT !.offset = o]

(* The offset is moved.                                                    *)
LEMMA MovedIs ==
    ASSUME NEW b \in Buffers, NEW o \in Nat
    PROVE  LET r == Moved(b, o)
           IN  /\ r \in Buffers /\ r.offset = o /\ r.cells = b.cells /\ r.over = b.over
               /\ r.ok = b.ok /\ r.noalloc = b.noalloc /\ r.fails = b.fails
<1> DEFINE S == Seq(Int)
<1>1. b \in [cells : S, null : BOOLEAN, offset : Nat, noalloc : BOOLEAN, ok : BOOLEAN,
             over : BOOLEAN, allocs : Nat, fails : Nat] /\ << >> \in S
  BY DEF Buffers
<1> HIDE DEF S
<1> QED  BY <1>1 DEF Buffers, S, Moved

Refused(b) == [b EXCEPT !.ok = FALSE]

(* Printing fails.                                                         *)
LEMMA RefusedIs ==
    ASSUME NEW b \in Buffers
    PROVE  LET r == Refused(b)
           IN  /\ r \in Buffers /\ r.offset = b.offset /\ r.cells = b.cells /\ r.over = b.over
               /\ ~r.ok /\ r.noalloc = b.noalloc /\ r.fails = b.fails
<1> DEFINE S == Seq(Int)
<1>1. b \in [cells : S, null : BOOLEAN, offset : Nat, noalloc : BOOLEAN, ok : BOOLEAN,
             over : BOOLEAN, allocs : Nat, fails : Nat] /\ << >> \in S
  BY DEF Buffers
<1> HIDE DEF S
<1> QED  BY <1>1 DEF Buffers, S, Refused

Filled(b, v, c) == [b EXCEPT !.over = v, !.cells = c]

(* Bytes are written.                                                      *)
LEMMA FilledIs ==
    ASSUME NEW b \in Buffers, NEW v \in BOOLEAN, NEW c \in Seq(Int)
    PROVE  LET r == Filled(b, v, c)
           IN  /\ r \in Buffers /\ r.offset = b.offset /\ r.cells = c /\ r.over = v
               /\ r.ok = b.ok /\ r.noalloc = b.noalloc /\ r.fails = b.fails
<1> DEFINE S == Seq(Int)
<1>1. b \in [cells : S, null : BOOLEAN, offset : Nat, noalloc : BOOLEAN, ok : BOOLEAN,
             over : BOOLEAN, allocs : Nat, fails : Nat] /\ << >> \in S
  BY DEF Buffers
<1> HIDE DEF S
<1> QED  BY <1>1 DEF Buffers, S, Filled

Resized(b, a, c) == [b EXCEPT !.allocs = a, !.cells = c]

(* The buffer gets a new size.                                             *)
LEMMA ResizedIs ==
    ASSUME NEW b \in Buffers, NEW a \in Nat, NEW c \in Seq(Int)
    PROVE  LET r == Resized(b, a, c)
           IN  /\ r \in Buffers /\ r.offset = b.offset /\ r.cells = c /\ r.over = b.over
               /\ r.ok = b.ok /\ r.noalloc = b.noalloc /\ r.fails = b.fails
<1> DEFINE S == Seq(Int)
<1>1. b \in [cells : S, null : BOOLEAN, offset : Nat, noalloc : BOOLEAN, ok : BOOLEAN,
             over : BOOLEAN, allocs : Nat, fails : Nat] /\ << >> \in S
  BY DEF Buffers
<1> HIDE DEF S
<1> QED  BY <1>1 DEF Buffers, S, Resized

Released(b) == [b EXCEPT !.ok = FALSE, !.null = TRUE, !.cells = << >>]

(* The buffer is freed.                                                    *)
LEMMA ReleasedIs ==
    ASSUME NEW b \in Buffers
    PROVE  LET r == Released(b)
           IN  /\ r \in Buffers /\ r.offset = b.offset /\ r.over = b.over /\ ~r.ok
               /\ r.noalloc = b.noalloc /\ r.fails = b.fails
<1> DEFINE S == Seq(Int)
<1>1. b \in [cells : S, null : BOOLEAN, offset : Nat, noalloc : BOOLEAN, ok : BOOLEAN,
             over : BOOLEAN, allocs : Nat, fails : Nat] /\ << >> \in S
  BY DEF Buffers
<1> HIDE DEF S
<1> QED  BY <1>1 DEF Buffers, S, Released

Overrun(b) == [b EXCEPT !.over = TRUE]

(* The end is looked for in vain.                                          *)
LEMMA OverrunIs ==
    ASSUME NEW b \in Buffers
    PROVE  LET r == Overrun(b)
           IN  r \in Buffers /\ r.offset = b.offset /\ r.cells = b.cells /\ r.ok = b.ok
<1> DEFINE S == Seq(Int)
<1>1. b \in [cells : S, null : BOOLEAN, offset : Nat, noalloc : BOOLEAN, ok : BOOLEAN,
             over : BOOLEAN, allocs : Nat, fails : Nat] /\ << >> \in S
  BY DEF Buffers
<1> HIDE DEF S
<1> QED  BY <1>1 DEF Buffers, S, Overrun

(* The size that the buffer grows to is enough.                            *)
LEMMA SizeIs ==
    ASSUME NEW total \in Nat, total <= IntMax
    PROVE  NewSize(total) \in Nat /\ total <= NewSize(total)
BY SizeAssumption DEF NewSize

(* A buffer that grows.                                                    *)
LEMMA GrowIs ==
    ASSUME NEW b \in Buffers, NEW size \in Nat
    PROVE  LET r == Grow(b, size)
           IN  /\ r \in Buffers /\ r.offset = b.offset /\ r.over = b.over /\ r.noalloc = b.noalloc
               /\ r.fails = b.fails /\ (r.ok => b.ok /\ Length(r) = size)
<1>1. CASE OutOfMemory(b)
  BY <1>1, ReleasedIs DEF Grow, Released
<1>2. CASE ~OutOfMemory(b)
  <2> DEFINE cells == [c \in 1 .. size |-> IF c <= b.offset + 1 /\ c <= Len(b.cells)
                                           THEN b.cells[c] ELSE Junk]
             a == b.allocs + 1
             r == Resized(b, a, cells)
  <2>1. cells \in Seq(Int) /\ Len(cells) = size
    <3>1. \A c \in 1 .. size : cells[c] \in Int
      <4> TAKE c \in 1 .. size
      <4>1. c <= Len(b.cells) => b.cells[c] \in Int
        BY BufferIs, ElementOfSeq
      <4>2. Junk \in Int
        BY DEF Junk
      <4> QED  BY <4>1, <4>2
    <3>2. cells = [c \in 1 .. size |-> cells[c]]
      OBVIOUS
    <3> HIDE DEF cells
    <3> QED  BY <3>1, <3>2
  <2>2. a \in Nat
    BY BufferIs
  <2>3. Grow(b, size) = r
    BY <1>2 DEF Grow, Resized
  <2> HIDE DEF cells, a
  <2>4. /\ r \in Buffers /\ r.offset = b.offset /\ r.over = b.over /\ r.noalloc = b.noalloc
        /\ r.fails = b.fails /\ r.ok = b.ok /\ r.cells = cells
    BY <2>1, <2>2, ResizedIs
  <2> HIDE DEF r
  <2>5. Length(r) = size
    BY <2>1, <2>4 DEF Length
  <2> QED  BY <2>3, <2>4, <2>5
<1> QED  BY <1>1, <1>2

(* Room is made, or there is none; a buffer that was given is not changed. *)
LEMMA EnsureIs ==
    ASSUME NEW b \in Buffers, NEW needed \in Nat
    PROVE  LET r == Ensure(b, needed)
           IN  /\ r \in Buffers /\ r.offset = b.offset /\ r.over = b.over /\ r.noalloc = b.noalloc
               /\ r.fails = b.fails
               /\ r.ok => b.ok /\ needed <= IntMax /\ needed + b.offset + 1 <= Length(r)
               /\ b.noalloc => Length(r) = Length(b)
               /\ b.ok /\ needed <= IntMax /\ needed + b.offset + 1 <= Length(b) => r.ok
<1> DEFINE total == needed + b.offset + 1
           r     == Ensure(b, needed)
           no    == Refused(b)
<1>1. /\ no \in Buffers /\ no.offset = b.offset /\ no.cells = b.cells /\ no.over = b.over
      /\ ~no.ok /\ no.noalloc = b.noalloc /\ no.fails = b.fails /\ Length(no) = Length(b)
  BY RefusedIs DEF Length
<1>2. b.offset \in Nat /\ Length(b) \in Nat /\ total \in Nat /\ IntMax \in Nat
  BY BufferIs, SizeAssumption
<1>3. CASE (Length(b) > 0 /\ b.offset >= Length(b)) \/ needed > IntMax
  <2>1. r = no
    BY <1>3 DEF Ensure, Refused
  <2>2. ~(needed <= IntMax /\ total <= Length(b))
    BY <1>2, <1>3
  <2> HIDE DEF r, no
  <2> QED  BY <1>1, <2>1, <2>2 DEF r
<1>4. CASE ~((Length(b) > 0 /\ b.offset >= Length(b)) \/ needed > IntMax)
  <2>0. needed <= IntMax
    BY <1>2, <1>4
  <2>1. CASE total <= Length(b)
    <3>1. r = b
      BY <1>4, <2>1 DEF Ensure
    <3> HIDE DEF r
    <3> QED  BY <2>0, <2>1, <3>1 DEF r
  <2>2. CASE ~(total <= Length(b)) /\ (b.noalloc \/ total > IntMax)
    <3>1. r = no
      BY <1>4, <2>2 DEF Ensure, Refused
    <3> HIDE DEF r, no
    <3> QED  BY <1>1, <2>2, <3>1 DEF r
  <2>3. CASE ~(total <= Length(b)) /\ ~(b.noalloc \/ total > IntMax)
    <3> DEFINE size == NewSize(total)
    <3>1. r = Grow(b, size)
      BY <1>4, <2>3 DEF Ensure
    <3>2. size \in Nat /\ total <= size
      BY <1>2, <2>3, SizeIs
    <3> HIDE DEF size, r
    <3>3. /\ r \in Buffers /\ r.offset = b.offset /\ r.over = b.over /\ r.noalloc = b.noalloc
          /\ r.fails = b.fails /\ (r.ok => b.ok /\ Length(r) = size)
      BY <3>1, <3>2, GrowIs
    <3>4. r.ok => total <= Length(r)
      BY <3>2, <3>3
    <3> QED  BY <2>0, <2>3, <3>3, <3>4 DEF r
  <2> QED  BY <2>1, <2>2, <2>3
<1> QED  BY <1>3, <1>4

(* Bytes are written from the offset on.                                   *)
LEMMA WriteIs ==
    ASSUME NEW b \in Buffers, NEW bytes \in Seq(0 .. 255)
    PROVE  LET r == Write(b, bytes)
           IN  /\ r \in Buffers /\ r.offset = b.offset /\ Length(r) = Length(b)
               /\ r.ok = b.ok /\ r.noalloc = b.noalloc /\ r.fails = b.fails
               /\ r.over = (b.over \/ b.offset + Len(bytes) > Length(b))
               /\ \A c \in 1 .. Length(b) : r.cells[c] = IF c \in b.offset + 1 .. b.offset + Len(bytes)
                                                        THEN bytes[c - b.offset] ELSE b.cells[c]
<1> DEFINE end   == b.offset + Len(bytes)
           k     == Length(b)
           cells == [c \in 1 .. k |-> IF c \in b.offset + 1 .. end
                                      THEN bytes[c - b.offset] ELSE b.cells[c]]
           over  == b.over \/ end > k
           r     == Filled(b, over, cells)
<1>1. /\ b.cells \in Seq(Int) /\ b.offset \in Nat /\ k \in Nat /\ k = Len(b.cells)
      /\ DOMAIN b.cells = 1 .. k /\ Len(bytes) \in Nat
  BY BufferIs
<1>2. Write(b, bytes) = r
  BY <1>1 DEF Write, Filled
<1>3. \A c \in 1 .. k : cells[c] \in Int
  <2> TAKE c \in 1 .. k
  <2>1. CASE c \in b.offset + 1 .. end
    <3>1. c - b.offset \in 1 .. Len(bytes)
      BY <1>1, <2>1
    <3>2. bytes[c - b.offset] \in 0 .. 255
      BY <3>1, ElementOfSeq
    <3>3. \A x \in 0 .. 255 : x \in Int
      OBVIOUS
    <3>4. bytes[c - b.offset] \in Int
      BY <3>2, <3>3, Zenon
    <3> QED  BY <2>1, <3>4
  <2>2. CASE c \notin b.offset + 1 .. end
    <3>1. b.cells[c] \in Int
      BY <1>1, ElementOfSeq
    <3> QED  BY <2>2, <3>1
  <2> QED  BY <2>1, <2>2
<1>4. cells \in Seq(Int) /\ Len(cells) = k
  <2>1. cells = [c \in 1 .. k |-> cells[c]]
    OBVIOUS
  <2>2. k \in Nat
    BY <1>1
  <2> HIDE DEF cells, k
  <2> QED  BY <1>3, <2>1, <2>2
<1>5. \A c \in 1 .. k : cells[c] = IF c \in b.offset + 1 .. end
                                  THEN bytes[c - b.offset] ELSE b.cells[c]
  OBVIOUS
<1>6. over \in BOOLEAN
  BY <1>1
<1> HIDE DEF cells, over, k
<1>7. /\ r \in Buffers /\ r.offset = b.offset /\ r.cells = cells /\ r.over = over
      /\ r.ok = b.ok /\ r.noalloc = b.noalloc /\ r.fails = b.fails
  BY <1>4, <1>6, FilledIs
<1> HIDE DEF r
<1>8. Length(r) = k
  BY <1>4, <1>7 DEF Length
<1> QED  BY <1>2, <1>5, <1>7, <1>8 DEF k, over

(* A step that writes.                                                     *)
LEMMA DoPutIs ==
    ASSUME NEW b \in Buffers, b.ok, NEW s \in Puts
    PROVE  LET r == Do(b, s)
           IN  /\ r \in Buffers /\ r.noalloc = b.noalloc /\ r.fails = b.fails
               /\ b.noalloc => Length(r) = Length(b)
               /\ r.ok => s.needed <= IntMax /\ r.offset = b.offset + s.advance
               /\ s.needed <= IntMax /\ s.needed + b.offset + 1 <= Length(b) => r.ok
               /\ Closes(s) \/ Moves(s) => r.over = b.over
               /\ r.ok /\ Closes(s) => Terminated(r, b.offset + Len(s.bytes) - 1)
<1> DEFINE room == Ensure(b, s.needed)
           wet  == Write(room, s.bytes)
           last == wet.offset + s.advance
           r    == Do(b, s)
           n    == Len(s.bytes)
<1>1. /\ s.step = "put" /\ s.needed \in Nat /\ s.advance \in Nat /\ s.bytes \in Seq(0 .. 255) /\ n \in Nat
      /\ b.offset \in Nat
  BY StepKinds, BufferIs
<1>2. r = IF ~room.ok THEN room ELSE Moved(wet, last)
  BY <1>1 DEF Do, Moved
<1> HIDE DEF r
<1>3. /\ room \in Buffers /\ room.offset = b.offset /\ room.over = b.over /\ room.noalloc = b.noalloc
      /\ room.fails = b.fails
      /\ room.ok => s.needed <= IntMax /\ s.needed + b.offset + 1 <= Length(room)
      /\ b.noalloc => Length(room) = Length(b)
      /\ s.needed <= IntMax /\ s.needed + b.offset + 1 <= Length(b) => room.ok
  BY <1>1, EnsureIs
<1>4. CASE ~room.ok
  <2> HIDE DEF room
  <2>1. r = room /\ Length(r) = Length(room)
    BY <1>2, <1>4
  <2> QED  BY <1>3, <1>4, <2>1 DEF r
<1>5. CASE room.ok
  <2> HIDE DEF room
  <2>1. /\ wet \in Buffers /\ wet.offset = b.offset /\ Length(wet) = Length(room)
        /\ wet.ok /\ wet.noalloc = b.noalloc /\ wet.fails = b.fails
        /\ wet.over = (b.over \/ b.offset + n > Length(room))
        /\ \A c \in 1 .. Length(room) : c \in b.offset + 1 .. b.offset + n
                                          => wet.cells[c] = s.bytes[c - b.offset]
    BY <1>1, <1>3, <1>5, WriteIs
  <2> HIDE DEF wet
  <2>2. last \in Nat /\ last = b.offset + s.advance
    BY <1>1, <2>1
  <2>3. /\ r \in Buffers /\ r.offset = last /\ r.cells = wet.cells /\ r.over = wet.over
        /\ r.ok /\ r.noalloc = b.noalloc /\ r.fails = b.fails
    BY <1>2, <1>5, <2>1, <2>2, MovedIs
  <2> HIDE DEF last
  <2>4. Length(r) = Length(room) /\ Length(room) \in Nat
    BY <1>3, <2>1, <2>3, BufferIs DEF Length
  <2>5. Closes(s) \/ Moves(s) => n <= s.needed
    BY <1>1 DEF Closes, Moves
  <2>6. Closes(s) \/ Moves(s) => r.over = b.over
    <3>1. Closes(s) \/ Moves(s) => ~(b.offset + n > Length(room))
      BY <1>1, <1>3, <1>5, <2>4, <2>5
    <3>2. b.over \in BOOLEAN
      BY BufferIs
    <3> QED  BY <2>1, <2>3, <3>1, <3>2, Zenon
  <2>7. ASSUME Closes(s)  PROVE Terminated(r, b.offset + n - 1)
    <3> DEFINE e == b.offset + n - 1
    <3>1. n # 0 /\ s.bytes[n] = 0 /\ s.needed = n /\ s.advance < n /\ \A c \in 1 .. n - 1 : s.bytes[c] # 0
      BY <2>7 DEF Closes
    <3>2. e \in Nat /\ r.offset <= e /\ e + 1 <= Length(r) /\ e + 1 = b.offset + n
      BY <1>1, <1>3, <1>5, <2>2, <2>3, <2>4, <3>1
    <3>3. r.cells[e + 1] = 0
      <4> DEFINE c == b.offset + n
      <4>1. c \in 1 .. Length(room) /\ c \in b.offset + 1 .. b.offset + n /\ c - b.offset = n
        BY <1>1, <2>4, <3>1, <3>2
      <4> HIDE DEF c
      <4>2. wet.cells[c] = 0
        BY <2>1, <3>1, <4>1
      <4> QED  BY <2>3, <3>2, <4>2 DEF c
    <3>4. \A c \in r.offset + 1 .. e : r.cells[c] # 0
      <4> TAKE c \in r.offset + 1 .. e
      <4>1. c \in 1 .. Length(room) /\ c \in b.offset + 1 .. b.offset + n /\ c - b.offset \in 1 .. n - 1
        <5> DEFINE o == r.offset  q == b.offset  a == s.advance  w == Length(room)
        <5>1. o = q + a /\ e + 1 <= w /\ w \in Nat /\ e + 1 = q + n /\ e \in Nat /\ c \in o + 1 .. e
          BY <2>2, <2>3, <2>4, <3>2
        <5>2. q \in Nat /\ a \in Nat /\ n \in Nat
          BY <1>1
        <5> HIDE DEF o, q, a, w, e, n
        <5>3. c \in 1 .. w /\ c \in q + 1 .. q + n /\ c - q \in 1 .. n - 1
          BY <5>1, <5>2
        <5> QED  BY <5>3 DEF w, q
      <4>2. wet.cells[c] = s.bytes[c - b.offset]
        BY <2>1, <4>1
      <4> QED  BY <2>3, <3>1, <4>1, <4>2
    <3> QED  BY <3>2, <3>3, <3>4 DEF Terminated
  <2> QED  BY <1>3, <1>5, <2>2, <2>3, <2>4, <2>6, <2>7 DEF r
<1> QED  BY <1>4, <1>5

(* A buffer of a string that ends.                                         *)
LEMMA UpdateIs ==
    ASSUME NEW b \in Buffers, NEW e, Terminated(b, e)
    PROVE  LET r == UpdateOffset(b)
           IN  /\ r \in Buffers /\ r.offset = e /\ r.cells = b.cells /\ r.over = b.over /\ r.ok = b.ok
               /\ r.noalloc = b.noalloc /\ r.fails = b.fails
<1> DEFINE ends == {c \in b.offset + 1 .. Length(b) : b.cells[c] = 0}
           m    == Min(ends)
<1>1. b.offset \in Nat /\ Length(b) \in Nat /\ e \in Nat /\ e + 1 \in ends
  BY BufferIs DEF Terminated
<1>2. \A c \in ends : e + 1 <= c
  <2> TAKE c \in ends
  <2>1. c \in b.offset + 1 .. Length(b) /\ b.cells[c] = 0 /\ ~(c \in b.offset + 1 .. e)
    BY DEF Terminated
  <2> QED  BY <1>1, <2>1
<1>3. ends \subseteq Nat
  BY <1>1
<1> HIDE DEF ends
<1>4. m = e + 1
  <2>1. m \in ends /\ \A c \in ends : m <= c
    <3>1. \E x \in ends : \A y \in ends : x <= y
      BY <1>1, <1>2
    <3> QED  BY <3>1 DEF Min
  <2> HIDE DEF m
  <2> QED  BY <1>1, <1>2, <1>3, <2>1
<1>5. UpdateOffset(b) = Moved(b, m - 1)
  <2>1. ends # {}
    BY <1>1
  <2> QED  BY <2>1 DEF UpdateOffset, Moved, ends
<1>6. m - 1 = e
  BY <1>1, <1>4
<1> HIDE DEF m
<1> QED  BY <1>1, <1>5, <1>6, MovedIs

(* Every step makes a buffer of a buffer.                                  *)
LEMMA DoIn ==
    ASSUME NEW b \in Buffers, NEW s \in AnyStep
    PROVE  Do(b, s) \in Buffers /\ (~b.ok => Do(b, s) = b)
<1>1. CASE ~b.ok
  BY <1>1 DEF Do
<1>2. CASE b.ok /\ s \in Puts
  BY <1>2, DoPutIs
<1>3. CASE b.ok /\ s = Impossible
  <2>1. Do(b, s) = Refused(b)
    BY <1>3, StepKinds DEF Do, Refused
  <2> QED  BY <1>3, <2>1, RefusedIs
<1>4. CASE b.ok /\ s = Update
  <2>1. Do(b, s) = UpdateOffset(b)
    BY <1>4, StepKinds DEF Do
  <2> DEFINE ends == {c \in b.offset + 1 .. Length(b) : b.cells[c] = 0}
             m    == Min(ends)
  <2>2. CASE ends = {}
    <3>1. Do(b, s) = Overrun(b)
      BY <2>1, <2>2 DEF UpdateOffset, Overrun
    <3> QED  BY <1>4, <3>1, OverrunIs
  <2>3. CASE ends # {}
    <3>1. ends \subseteq Nat /\ 0 \notin ends
      BY BufferIs
    <3>2. \E x \in ends : \A y \in ends : x <= y
      <4> HIDE DEF ends
      <4> QED  BY <2>3, <3>1, LeastNatural
    <3>3. m - 1 \in Nat
      <4> HIDE DEF ends
      <4>1. m \in ends
        BY <3>2 DEF Min
      <4> HIDE DEF m
      <4> QED  BY <3>1, <4>1
    <3>4. Do(b, s) = Moved(b, m - 1)
      BY <2>1, <2>3 DEF UpdateOffset, Moved
    <3> HIDE DEF m
    <3> QED  BY <1>4, <3>3, <3>4, MovedIs
  <2> QED  BY <2>2, <2>3
<1> QED  BY <1>1, <1>2, <1>3, <1>4 DEF AnyStep
-----------------------------------------------------------------------------
(* The steps of a value, one after the other.                              *)

(* How far the n-th step moves the offset.                                 *)
Advance(M, n) ==
    IF M[n] \in Puts THEN M[n].advance
    ELSE IF n # 1 /\ M[n] = Update /\ M[n - 1] \in Puts THEN Len(M[n - 1].bytes) - 1 - M[n - 1].advance
    ELSE 0

(* Where the offset stands after each step, if none fails.                 *)
Positions(p, M) ==
    /\ p \in [0 .. Len(M) -> Nat] /\ p[0] = 0
    /\ \A n \in 1 .. Len(M) : p[n] = p[n - 1] + Advance(M, n)

(* A step does not move the offset back.                                   *)
LEMMA AdvanceIs ==
    ASSUME NEW M, Complete(M), NEW n \in 1 .. Len(M)
    PROVE  Advance(M, n) \in Nat
<1>1. CASE M[n] \in Puts
  BY <1>1, StepKinds DEF Advance
<1>2. CASE M[n] \notin Puts /\ n # 1 /\ M[n] = Update /\ M[n - 1] \in Puts
  <2>1. Closes(M[n - 1])
    BY <1>2, StepKinds DEF Complete, Ready
  <2> DEFINE s == M[n - 1]
  <2>2. Len(s.bytes) \in Nat /\ s.advance \in Nat /\ s.advance < Len(s.bytes)
    BY <2>1, StepKinds DEF Closes
  <2> HIDE DEF s
  <2>3. Len(s.bytes) - 1 - s.advance \in Nat
    BY <2>2
  <2> QED  BY <1>2, <2>3 DEF Advance, s
<1>3. CASE M[n] \notin Puts /\ ~(n # 1 /\ M[n] = Update /\ M[n - 1] \in Puts)
  BY <1>3 DEF Advance
<1> QED  BY <1>1, <1>2, <1>3

(* There are such places for every list of steps.                          *)
LEMMA PositionsExist ==
    ASSUME NEW M, Complete(M)
    PROVE  \E p : Positions(p, M)
<1> DEFINE k == Len(M)
           Turn == [q \in Nat \X (1 .. k) |-> q[1] + Advance(M, q[2])]
<1>1. k \in Nat
  BY DEF Complete
<1>2. \A x \in Nat, n \in 1 .. k : x + Advance(M, n) \in Nat
  BY AdvanceIs
<1> HIDE DEF k
<1>3. Turn \in [Nat \X (1 .. k) -> Nat] /\ \A x \in Nat, n \in 1 .. k : Turn[<<x, n>>] = x + Advance(M, n)
  BY <1>2
<1> HIDE DEF Turn
<1>4. PICK p \in [0 .. k -> Nat] : Follows(p, k, 0, Turn)
  BY <1>1, <1>3, StepsExist
<1>5. p[0] = 0 /\ \A n \in 1 .. k : p[n] = p[n - 1] + Advance(M, n)
  <2>1. \A n \in 1 .. k : n - 1 \in 0 .. k /\ p[n - 1] \in Nat
    BY <1>1, <1>4
  <2> QED  BY <1>3, <1>4, <2>1 DEF Follows
<1> QED  BY <1>4, <1>5 DEF Positions, k

(* The offset is never moved back.                                         *)
LEMMA PositionsGrow ==
    ASSUME NEW M, Complete(M), NEW p, Positions(p, M), NEW n \in 0 .. Len(M)
    PROVE  p[n] <= p[Len(M)]
<1> DEFINE k == Len(M)
           P == {i \in 0 .. k - n : p[n] <= p[n + i]}
<1>1. k \in Nat /\ p \in [0 .. k -> Nat] /\ k - n \in Nat
  BY DEF Complete, Positions
<1>2. \A i \in 1 .. k : p[i - 1] <= p[i]
  <2> TAKE i \in 1 .. k
  <2>1. Advance(M, i) \in Nat /\ p[i] = p[i - 1] + Advance(M, i) /\ i - 1 \in 0 .. k
    BY <1>1, AdvanceIs DEF Positions
  <2>2. p[i - 1] \in Nat
    BY <1>1, <2>1
  <2> QED  BY <2>1, <2>2
<1> HIDE DEF k
<1>3. 0 \in P
  BY <1>1
<1>4. ASSUME NEW i \in 1 .. k - n, i - 1 \in P  PROVE i \in P
  <2>1. n + i \in 1 .. k /\ n + (i - 1) = (n + i) - 1
    BY <1>1
  <2>2. p[n] <= p[n + (i - 1)]
    BY <1>4
  <2>3. p[(n + i) - 1] <= p[n + i]
    BY <1>2, <2>1
  <2>4. p[n] \in Nat /\ p[n + (i - 1)] \in Nat /\ p[n + i] \in Nat
    BY <1>1, <2>1
  <2> QED  BY <2>1, <2>2, <2>3, <2>4
<1>5. k - n \in P
  <2> HIDE DEF P
  <2>1. 0 .. k - n \subseteq P
    BY <1>1, <1>3, <1>4, Along
  <2> QED  BY <1>1, <2>1
<1>6. n + (k - n) = k
  BY <1>1
<1> QED  BY <1>5, <1>6 DEF k

(* What a step reserves is within the length of the text with its end.     *)
LEMMA NeededIs ==
    ASSUME NEW M, Complete(M), NEW p, Positions(p, M), NEW n \in 1 .. Len(M), M[n] \in Puts
    PROVE  p[n - 1] + M[n].needed <= p[Len(M)] + 1
<1> DEFINE k == Len(M)  s == M[n]
<1>1. k \in Nat /\ p \in [0 .. k -> Nat] /\ n - 1 \in 0 .. k /\ n \in 0 .. k
  BY DEF Complete, Positions
<1>2. p[n - 1] \in Nat /\ p[n] \in Nat /\ p[k] \in Nat /\ k \in 0 .. k
  BY <1>1
<1>3. p[n] = p[n - 1] + s.advance /\ p[n] <= p[k]
  BY <1>1, PositionsGrow DEF Positions, Advance
<1>4. s.needed \in Nat /\ s.advance \in Nat /\ Len(s.bytes) \in Nat
  BY StepKinds
<1> HIDE DEF s
<1>5. Closes(s) \/ Moves(s)
  BY DEF Complete, s
<1>6. CASE Moves(s)
  <2>1. s.needed <= s.advance + 1
    BY <1>4, <1>6 DEF Moves
  <2> QED  BY <1>2, <1>3, <1>4, <2>1, SMTT(30) DEF s, k
<1>7. CASE Closes(s) /\ ~Lags(s)
  <2>1. s.needed = s.advance + 1
    BY <1>4, <1>7 DEF Closes, Lags
  <2> QED  BY <1>2, <1>3, <1>4, <2>1, SMTT(30) DEF s, k
<1>8. CASE Lags(s)
  <2> DEFINE m == n + 1
  <2>1. n # k /\ M[m] = Update /\ Closes(s)
    BY <1>8 DEF Complete, s, Lags
  <2>2. m \in 1 .. k /\ m # 1 /\ m - 1 = n /\ m \in 0 .. k
    BY <1>1, <2>1
  <2> HIDE DEF m
  <2>3. Advance(M, m) = Len(s.bytes) - 1 - s.advance
    BY <2>1, <2>2, StepKinds DEF Advance, s
  <2>4. p[m] = p[n] + Advance(M, m) /\ p[m] <= p[k]
    BY <2>2, PositionsGrow DEF Positions
  <2>5. s.needed = Len(s.bytes) /\ p[m] \in Nat
    BY <1>1, <2>1, <2>2 DEF Closes
  <2> DEFINE q == p[n - 1]  a == s.advance  w == Len(s.bytes)
  <2>6. p[n] = q + a /\ p[m] = (q + a) + (w - 1 - a) /\ p[m] <= p[k] /\ q \in Nat /\ a \in Nat /\ w \in Nat
    BY <1>2, <1>3, <1>4, <2>3, <2>4, <2>5
  <2> HIDE DEF q, a, w
  <2>7. q + w <= p[k] + 1
    BY <1>2, <2>6
  <2> QED  BY <2>5, <2>7 DEF s, k, q, w
<1> QED  BY <1>5, <1>6, <1>7, <1>8

(* The buffer after each step.                                             *)
Runs(r, b, L) ==
    /\ r \in [0 .. Len(L) -> Buffers]
    /\ r[0] = b /\ r[Len(L)] = FoldLeft(Do, b, L)
    /\ \A n \in 1 .. Len(L) : r[n] = Do(r[n - 1], L[n])

(* There are such buffers for every list of steps.                         *)
LEMMA RunsExist ==
    ASSUME NEW b \in Buffers, NEW L \in Seq(AnyStep)
    PROVE  \E r : Runs(r, b, L)
<1> DEFINE n         == Len(L)
           Solves(g) == g = [t \in SUBSET DOMAIN L |->
                                IF t = {} THEN b ELSE Do(g[t \ {Max(t)}], L[Max(t)])]
           G         == CHOOSE g : Solves(g)
<1>0. n \in Nat /\ DOMAIN L = 1 .. n /\ \A i \in 1 .. n : L[i] \in AnyStep
  BY ElementOfSeq
<1>1. FoldLeft(Do, b, L) = G[DOMAIN L]
  BY DEF FoldLeft, MapThenFoldSet
<1>2. \A v \in Buffers, s \in AnyStep : Do(v, s) \in Buffers
  BY DoIn
<1> HIDE DEF n
<1>3. \E g : Solves(g)
  <2> DEFINE Turn == [x \in Buffers \X (1 .. n) |-> Do(x[1], L[x[2]])]
  <2>1. Turn \in [Buffers \X (1 .. n) -> Buffers]
    BY <1>0, <1>2
  <2>s. \A v \in Buffers, i \in 1 .. n : Turn[<<v, i>>] = Do(v, L[i])
    OBVIOUS
  <2> HIDE DEF Turn
  <2>2. PICK g \in [SUBSET (1 .. n) -> Buffers] : Folds(g, n, b, Turn)
    BY <1>0, <2>1, FoldExists
  <2>3. ASSUME NEW t \in SUBSET (1 .. n), t # {}
        PROVE  Turn[<<g[t \ {Max(t)}], Max(t)>>] = Do(g[t \ {Max(t)}], L[Max(t)])
    <3>1. g[t \ {Max(t)}] \in Buffers /\ Max(t) \in 1 .. n
      BY <1>0, <2>3, MaxOfInterval
    <3> QED  BY <2>s, <3>1
  <2>4. \A t \in SUBSET (1 .. n) :
            g[t] = IF t = {} THEN b ELSE Do(g[t \ {Max(t)}], L[Max(t)])
    BY <2>2, <2>3 DEF Folds
  <2>5. Solves(g)
    BY Zenon, <1>0, <2>4
  <2> HIDE DEF Solves
  <2> QED  BY <2>5
<1>4. Solves(G)
  BY Zenon, <1>3
<1> HIDE DEF G
<1> DEFINE r == [i \in 0 .. n |-> G[1 .. i]]
<1>5. r[0] = b /\ r[n] = FoldLeft(Do, b, L)
  BY <1>0, <1>1, <1>4
<1>6. ASSUME NEW i \in 1 .. n  PROVE r[i] = Do(r[i - 1], L[i])
  <2>1. i \in Nat \ {0} /\ 1 .. i \in SUBSET (1 .. n) /\ i - 1 \in 0 .. n
    BY <1>0
  <2>2. 1 .. i # {} /\ Max(1 .. i) = i /\ (1 .. i) \ {Max(1 .. i)} = 1 .. i - 1
    BY <2>1, MaxOfPrefix
  <2>3. G[1 .. i] = Do(G[(1 .. i) \ {Max(1 .. i)}], L[Max(1 .. i)])
    BY <1>0, <1>4, <2>1, <2>2
  <2>4. G[1 .. i] = Do(G[1 .. i - 1], L[i])
    BY <2>2, <2>3
  <2>5. r[i] = G[1 .. i] /\ r[i - 1] = G[1 .. i - 1]
    BY <2>1, <1>0
  <2> HIDE DEF r
  <2> QED  BY Zenon, <2>4, <2>5
<1>7. r \in [0 .. n -> Buffers]
  <2> DEFINE P == {i \in 0 .. n : r[i] \in Buffers}
  <2>1. 0 \in P
    BY <1>0, <1>5
  <2>2. ASSUME NEW i \in 1 .. n, i - 1 \in P  PROVE i \in P
    <3> HIDE DEF r
    <3>1. r[i - 1] \in Buffers /\ L[i] \in AnyStep /\ i \in 0 .. n
      BY <1>0, <2>2
    <3>2. Do(r[i - 1], L[i]) \in Buffers
      BY <1>2, <3>1
    <3> QED  BY <1>6, <3>1, <3>2
  <2>3. 0 .. n \subseteq P
    <3> HIDE DEF P
    <3> QED  BY <1>0, <2>1, <2>2, Along
  <2> QED  BY <2>3
<1> HIDE DEF r
<1>8. Runs(r, b, L)
  BY <1>5, <1>6, <1>7 DEF Runs, n
<1> QED  BY <1>8

(* What holds after a step: nothing beyond the buffer was written, and, if *)
(* printing goes on, the offset is where the steps move it, and the string *)
(* ends where the last step has ended it.                                  *)
Stands(r, M, p, n) ==
    /\ ~r[n].over /\ r[n].noalloc = r[0].noalloc /\ r[n].fails = r[0].fails
    /\ r[0].noalloc => Length(r[n]) = Length(r[0])
    /\ r[n].ok =>
          /\ r[n].offset = p[n]
          /\ n # 0 => /\ r[n - 1].ok /\ M[n] # Impossible
                      /\ M[n] \in Puts => M[n].needed <= IntMax
                      /\ Closes(M[n]) => Terminated(r[n], p[n - 1] + Len(M[n].bytes) - 1)

(* Where an update moves the offset to.                                    *)
LEMMA UpdatedIs ==
    ASSUME NEW M, Complete(M), NEW p, Positions(p, M), NEW n \in 1 .. Len(M), n # 1,
           M[n] = Update, Closes(M[n - 1])
    PROVE  p[(n - 1) - 1] + Len(M[n - 1].bytes) - 1 = p[n]
<1> DEFINE t == M[n - 1]  q == p[(n - 1) - 1]  a == t.advance  w == Len(t.bytes)
<1>1. t \in Puts /\ Len(M) \in Nat
  BY DEF Closes, Complete
<1>2. Advance(M, n) = w - 1 - a /\ Advance(M, n - 1) = a
  BY <1>1, StepKinds DEF Advance
<1>3. n - 1 \in 1 .. Len(M) /\ (n - 1) - 1 \in 0 .. Len(M) /\ n - 1 \in 0 .. Len(M)
  BY <1>1
<1>4. p[n] = p[n - 1] + Advance(M, n) /\ p[n - 1] = q + Advance(M, n - 1) /\ q \in Nat
  BY <1>3 DEF Positions
<1>5. a \in Nat /\ w \in Nat
  BY <1>1, StepKinds
<1>6. p[n] = (q + a) + (w - 1 - a)
  BY <1>2, <1>4
<1> HIDE DEF q, a, w
<1>7. q + w - 1 = p[n]
  BY <1>4, <1>5, <1>6
<1> QED  BY <1>7 DEF q, w

(* r are the buffers of the steps M, all but the last step of them done.   *)
LEMMA RunIs ==
    ASSUME NEW M, Complete(M), NEW p, Positions(p, M), NEW k \in 0 .. Len(M), NEW r,
           r \in [0 .. k -> Buffers], \A n \in 1 .. k : r[n] = Do(r[n - 1], M[n]),
           r[0].ok, ~r[0].over, r[0].offset = 0
    PROVE  \A n \in 0 .. k : Stands(r, M, p, n)
<1>1. M \in Seq(AnyStep) /\ Len(M) \in Nat /\ k \in Nat /\ p[0] = 0
  BY DEF Complete, Positions
<1> DEFINE P == {n \in 0 .. k : Stands(r, M, p, n)}
<1>2. 0 \in P
  BY <1>1 DEF Stands
<1>3. ASSUME NEW n \in 1 .. k, n - 1 \in P  PROVE n \in P
  <2> DEFINE b == r[n - 1]  s == M[n]
  <2>1. /\ n \in 1 .. Len(M) /\ n - 1 \in 0 .. k /\ n \in 0 .. k /\ s \in AnyStep
        /\ b \in Buffers /\ r[n] = Do(b, s) /\ Stands(r, M, p, n - 1) /\ n # 0
    <3>1. n \in 1 .. Len(M) /\ n - 1 \in 0 .. k /\ n \in 0 .. k /\ n # 0
      BY <1>1
    <3> QED  BY <1>1, <1>3, <3>1, ElementOfSeq
  <2>2. /\ p[n] = p[n - 1] + Advance(M, n) /\ p[n - 1] \in Nat
        /\ ~b.over /\ b.noalloc = r[0].noalloc /\ b.fails = r[0].fails
        /\ r[0].noalloc => Length(b) = Length(r[0])
        /\ b.ok => b.offset = p[n - 1]
    <3>1. n - 1 \in 0 .. Len(M)
      BY <1>1
    <3> QED  BY <2>1, <3>1 DEF Positions, Stands
  <2>3. CASE ~b.ok
    <3>1. r[n] = b
      BY <2>1, <2>3, DoIn
    <3> QED  BY <2>1, <2>2, <2>3, <3>1 DEF Stands
  <2>4. CASE b.ok /\ s = Impossible
    <3>1. r[n] = Refused(b)
      BY <2>1, <2>4, StepKinds DEF Do, Refused
    <3>2. ~r[n].ok /\ r[n].over = b.over /\ r[n].noalloc = b.noalloc /\ r[n].fails = b.fails
          /\ Length(r[n]) = Length(b)
      BY <2>1, <3>1, RefusedIs DEF Length
    <3> QED  BY <2>1, <2>2, <3>2 DEF Stands
  <2>5. CASE b.ok /\ s \in Puts
    <3>1. Closes(s) \/ Moves(s)
      BY <2>1, <2>5 DEF Complete
    <3>2. /\ r[n].noalloc = b.noalloc /\ r[n].fails = b.fails
          /\ b.noalloc => Length(r[n]) = Length(b)
          /\ r[n].ok => s.needed <= IntMax /\ r[n].offset = b.offset + s.advance
          /\ r[n].over = b.over
          /\ r[n].ok /\ Closes(s) => Terminated(r[n], b.offset + Len(s.bytes) - 1)
      BY <2>1, <2>5, <3>1, DoPutIs
    <3>3. Advance(M, n) = s.advance /\ s # Impossible
      BY <2>5, StepKinds DEF Advance
    <3>4. n \in 0 .. k
      BY <2>1
    <3> HIDE DEF b, s
    <3>5. r[n].ok => r[n].offset = p[n]
      BY <2>2, <2>5, <3>2, <3>3
    <3> QED  BY <2>1, <2>2, <2>5, <3>2, <3>3, <3>5 DEF Stands, b, s
  <2>6. CASE b.ok /\ s = Update
    <3>1. n # 1 /\ Ready(M[n - 1])
      BY <2>1, <2>6 DEF Complete
    <3>2. n - 1 # 0
      BY <1>1, <3>1
    <3> DEFINE t == M[n - 1]  e == p[(n - 1) - 1] + Len(t.bytes) - 1
    <3>3. t # Impossible /\ (Closes(t) => Terminated(b, e))
      BY <2>1, <2>6, <3>2 DEF Stands
    <3>4. Closes(t) /\ t \in Puts
      BY <3>1, <3>3 DEF Ready, Closes
    <3>5. r[n] = UpdateOffset(b)
      BY <2>1, <2>6, StepKinds DEF Do
    <3>6. /\ r[n].offset = e /\ r[n].cells = b.cells /\ r[n].over = b.over /\ r[n].ok
          /\ r[n].noalloc = b.noalloc /\ r[n].fails = b.fails
      BY <2>1, <2>6, <3>3, <3>4, <3>5, UpdateIs
    <3>7. Length(r[n]) = Length(b)
      BY <3>6 DEF Length
    <3>8. e = p[n]
      BY <2>1, <2>6, <3>1, <3>4, UpdatedIs
    <3>9. s # Impossible /\ s \notin Puts /\ ~Closes(s)
      BY <2>6, StepKinds DEF Closes
    <3> HIDE DEF t, e, b, s
    <3> QED  BY <2>1, <2>2, <2>6, <3>6, <3>7, <3>8, <3>9 DEF Stands, b, s
  <2> QED  BY <2>1, <2>3, <2>4, <2>5, <2>6 DEF AnyStep
<1>4. 0 .. k \subseteq P
  <2> HIDE DEF P
  <2> QED  BY <1>1, <1>2, <1>3, Along
<1> QED  BY <1>4

(* A buffer that printing starts with.                                     *)
Unused(b) == b \in Buffers /\ b.ok /\ ~b.over /\ b.offset = 0

(* What the steps of a value leave: a string that ends where the steps and *)
(* an update would have moved the offset.                                  *)
LEMMA ValueRuns ==
    ASSUME NEW L, OfValue(L), NEW p, Positions(p, L \o <<Update>>), NEW b, Unused(b)
    PROVE  LET d == FoldLeft(Do, b, L)
           IN  /\ d \in Buffers /\ ~d.over /\ d.noalloc = b.noalloc /\ d.fails = b.fails
               /\ d.ok => Terminated(d, p[Len(L) + 1])
<1> DEFINE M == L \o <<Update>>  k == Len(L)
<1>1. /\ L \in Seq(AnyStep) /\ k \in Nat /\ Len(M) = k + 1 /\ M[k + 1] = Update
      /\ \A n \in 1 .. k : M[n] = L[n]
  <2>1. L \in Seq(AnyStep) /\ <<Update>> \in Seq(AnyStep) /\ Len(<<Update>>) = 1 /\ <<Update>>[1] = Update
    BY StepKinds DEF OfValue
  <2>2. Len(M) = Len(L) + Len(<<Update>>)
        /\ \A n \in 1 .. Len(L) + Len(<<Update>>) :
               M[n] = IF n <= Len(L) THEN L[n] ELSE <<Update>>[n - Len(L)]
    BY <2>1, ConcatProperties
  <2>3. Len(L) \in Nat /\ Len(L) + 1 \in 1 .. Len(L) + 1 /\ ~(Len(L) + 1 <= Len(L))
        /\ (Len(L) + 1) - Len(L) = 1 /\ \A n \in 1 .. Len(L) : n \in 1 .. Len(L) + 1 /\ n <= Len(L)
    BY <2>1
  <2> HIDE DEF M
  <2> QED  BY <2>1, <2>2, <2>3
<1>2. Complete(M)
  BY DEF OfValue
<1>3. PICK r : Runs(r, b, L)
  BY <1>1, RunsExist DEF Unused
<1> HIDE DEF M, k
<1>4. /\ r \in [0 .. k -> Buffers] /\ r[0] = b /\ r[k] = FoldLeft(Do, b, L)
      /\ \A n \in 1 .. k : r[n] = Do(r[n - 1], M[n])
  BY <1>1, <1>3 DEF Runs, k
<1>5. k \in 0 .. Len(M) /\ k \in 0 .. k
  BY <1>1
<1>6. Stands(r, M, p, k)
  <2>1. Positions(p, M) /\ r[0].ok /\ ~r[0].over /\ r[0].offset = 0
    BY <1>4 DEF Unused, M
  <2> QED  BY <1>2, <1>4, <1>5, <2>1, RunIs
<1>7. ASSUME r[k].ok  PROVE Terminated(r[k], p[k + 1])
  <2> DEFINE n == k + 1
  <2>1. n \in 1 .. Len(M) /\ n - 1 = k /\ M[n] = Update
    BY <1>1
  <2> HIDE DEF n
  <2>2. n # 1 /\ Ready(M[n - 1])
    BY <1>2, <2>1 DEF Complete
  <2>3. k # 0
    BY <2>1, <2>2
  <2>4. M[k] # Impossible /\ (Closes(M[k]) => Terminated(r[k], p[k - 1] + Len(M[k].bytes) - 1))
    BY <1>6, <1>7, <2>3 DEF Stands
  <2>5. Closes(M[k])
    BY <2>1, <2>2, <2>4 DEF Ready
  <2>6. p[(n - 1) - 1] + Len(M[n - 1].bytes) - 1 = p[n]
    BY <1>2, <2>1, <2>2, <2>5, UpdatedIs DEF M
  <2>7. Terminated(r[k], p[n])
    BY <2>1, <2>4, <2>5, <2>6
  <2> QED  BY <2>7 DEF n
<1> QED  BY <1>4, <1>5, <1>6, <1>7 DEF Stands, k

(* Room for one byte more than the text and its end is room for every      *)
(* step.                                                                   *)
LEMMA RoomIs ==
    ASSUME NEW L, OfValue(L), NEW p, Positions(p, L \o <<Update>>), NEW g, Unused(g),
           FoldLeft(Do, g, L).ok, NEW b, Unused(b), b.noalloc, p[Len(L) + 1] + 2 <= Length(b)
    PROVE  FoldLeft(Do, b, L).ok
<1> DEFINE M == L \o <<Update>>  k == Len(L)
<1>1. /\ L \in Seq(AnyStep) /\ k \in Nat /\ Len(M) = k + 1
      /\ \A n \in 1 .. k : M[n] = L[n]
  <2>1. L \in Seq(AnyStep) /\ <<Update>> \in Seq(AnyStep) /\ Len(<<Update>>) = 1
    BY StepKinds DEF OfValue
  <2>2. Len(M) = Len(L) + Len(<<Update>>)
        /\ \A n \in 1 .. Len(L) + Len(<<Update>>) :
               M[n] = IF n <= Len(L) THEN L[n] ELSE <<Update>>[n - Len(L)]
    BY <2>1, ConcatProperties
  <2>3. Len(L) \in Nat /\ \A n \in 1 .. Len(L) : n \in 1 .. Len(L) + 1 /\ n <= Len(L)
    BY <2>1
  <2> HIDE DEF M
  <2> QED  BY <2>1, <2>2, <2>3
<1>2. Complete(M) /\ Positions(p, M)
  BY DEF OfValue
<1>3. PICK r : Runs(r, g, L)
  BY <1>1, RunsExist DEF Unused
<1>4. PICK q : Runs(q, b, L)
  BY <1>1, RunsExist DEF Unused
<1> HIDE DEF M, k
<1>5. /\ r \in [0 .. k -> Buffers] /\ r[0] = g /\ r[k] = FoldLeft(Do, g, L)
      /\ \A n \in 1 .. k : r[n] = Do(r[n - 1], M[n])
      /\ q \in [0 .. k -> Buffers] /\ q[0] = b /\ q[k] = FoldLeft(Do, b, L)
      /\ \A n \in 1 .. k : q[n] = Do(q[n - 1], M[n])
  BY <1>1, <1>3, <1>4 DEF Runs, k
<1>6. k \in 0 .. Len(M)
  BY <1>1
<1>7. \A n \in 0 .. k : Stands(r, M, p, n) /\ Stands(q, M, p, n)
  <2>1. /\ r[0].ok /\ ~r[0].over /\ r[0].offset = 0
        /\ q[0].ok /\ ~q[0].over /\ q[0].offset = 0
    BY <1>5 DEF Unused
  <2>2. \A n \in 0 .. k : Stands(r, M, p, n)
    BY <1>2, <1>5, <1>6, <2>1, RunIs
  <2>3. \A n \in 0 .. k : Stands(q, M, p, n)
    BY <1>2, <1>5, <1>6, <2>1, RunIs
  <2> QED  BY <2>2, <2>3
(* Nothing failed in the buffer that grows.                                *)
<1>8. \A n \in 0 .. k : r[n].ok
  <2> DEFINE P == {i \in 0 .. k : r[k - i].ok}
  <2>1. 0 \in P
    <3>1. k - 0 = k /\ 0 \in 0 .. k
      BY <1>1
    <3> QED  BY <1>5, <3>1
  <2>2. ASSUME NEW i \in 1 .. k, i - 1 \in P  PROVE i \in P
    <3> DEFINE n == k - (i - 1)
    <3>1. n \in 0 .. k /\ n # 0 /\ n - 1 = k - i /\ i \in 0 .. k
      BY <1>1
    <3>2. r[n].ok
      BY <2>2
    <3> HIDE DEF n
    <3>3. r[n - 1].ok
      BY <1>7, <3>1, <3>2 DEF Stands
    <3> QED  BY <3>1, <3>3
  <2>3. 0 .. k \subseteq P
    <3> HIDE DEF P
    <3> QED  BY <1>1, <2>1, <2>2, Along
  <2> TAKE n \in 0 .. k
  <2>4. k - n \in 0 .. k /\ k - (k - n) = n
    BY <1>1
  <2> QED  BY <2>3, <2>4
<1> DEFINE P == {n \in 0 .. k : q[n].ok}
<1>9. 0 \in P
  BY <1>1, <1>5 DEF Unused
<1>10. ASSUME NEW n \in 1 .. k, n - 1 \in P  PROVE n \in P
  <2> DEFINE c == q[n - 1]  s == M[n]
  <2>1. /\ n \in 1 .. Len(M) /\ n - 1 \in 0 .. k /\ n \in 0 .. k /\ n # 0 /\ s \in AnyStep
    <3>1. n \in 1 .. Len(M) /\ n - 1 \in 0 .. k /\ n \in 0 .. k /\ n # 0 /\ n \in 1 .. Len(L)
      BY <1>1 DEF k
    <3> QED  BY <1>1, <3>1, ElementOfSeq
  <2>2. c \in Buffers /\ c.ok /\ q[n] = Do(c, s) /\ Stands(q, M, p, n - 1)
    BY <1>5, <1>7, <1>10, <2>1
  <2>3. Stands(r, M, p, n) /\ r[n].ok
    BY <1>7, <1>8, <2>1
  <2>4. s # Impossible
    BY <2>1, <2>3 DEF Stands
  <2>5. CASE s \in Puts
    <3>1. s.needed <= IntMax /\ s.needed \in Nat
      BY <2>1, <2>3, <2>5, StepKinds DEF Stands
    <3>2. c.offset = p[n - 1] /\ Length(c) = Length(b) /\ c.offset \in Nat /\ Length(b) \in Nat
      <4>1. c.offset = p[n - 1] /\ Length(c) = Length(b)
        BY <1>5, <2>2 DEF Stands
      <4> QED  BY <2>2, <4>1, BufferIs
    <3>3. p[n - 1] + s.needed <= p[k + 1] + 1 /\ p[k + 1] \in Nat
      <4>1. p[n - 1] + s.needed <= p[Len(M)] + 1
        BY <1>2, <2>1, <2>5, NeededIs
      <4>2. Len(M) \in 0 .. Len(M)
        BY <1>1
      <4> QED  BY <1>1, <1>2, <4>1, <4>2 DEF Positions
    <3>4. s.needed + c.offset + 1 <= Length(c)
      <4> DEFINE x == p[n - 1]  y == p[k + 1]  z == s.needed  w == Length(b)
      <4>1. x + z <= y + 1 /\ y + 2 <= w /\ x \in Nat /\ y \in Nat /\ z \in Nat /\ w \in Nat
        BY <3>1, <3>2, <3>3 DEF k
      <4> HIDE DEF x, y, z, w
      <4>2. z + x + 1 <= w
        BY <4>1
      <4> QED  BY <3>2, <4>2 DEF x, y, z, w
    <3> HIDE DEF c, s
    <3>5. q[n].ok
      BY <2>2, <2>5, <3>1, <3>4, DoPutIs
    <3> QED  BY <2>1, <3>5
  <2>6. CASE s = Update
    <3>1. n # 1 /\ Ready(M[n - 1])
      BY <1>2, <2>1, <2>6 DEF Complete
    <3>2. n - 1 # 0
      BY <1>1, <3>1
    <3>3. \E e : Terminated(c, e)
      BY <2>2, <3>1, <3>2 DEF Stands, Ready
    <3>4. q[n] = UpdateOffset(c)
      BY <2>2, <2>6, StepKinds DEF Do
    <3> HIDE DEF c
    <3>5. q[n].ok
      BY <2>2, <3>3, <3>4, UpdateIs
    <3> QED  BY <2>1, <3>5
  <2> QED  BY <2>1, <2>4, <2>5, <2>6 DEF AnyStep
<1>11. 0 .. k \subseteq P
  <2> HIDE DEF P
  <2> QED  BY <1>1, <1>9, <1>10, Along
<1>12. k \in 0 .. k
  BY <1>1
<1> QED  BY <1>5, <1>11, <1>12
-----------------------------------------------------------------------------
(* The three ways to print.                                                *)

Counting(b) == [b EXCEPT !.allocs = 1]

(* The buffers that the three ways to print start with.                    *)
LEMMA UnusedIs ==
    ASSUME NEW n \in Nat, NEW noalloc \in BOOLEAN, NEW fails \in Nat
    PROVE  LET b == Buffer(n, noalloc, fails)
           IN  /\ Unused(b) /\ Length(b) = n /\ b.noalloc = noalloc /\ b.fails = fails
               /\ Unused(Counting(b)) /\ Counting(b).fails = fails
<1> DEFINE S == Seq(Int)
           c == Cells(n)
           b == [cells |-> c, null |-> FALSE, offset |-> 0, noalloc |-> noalloc,
                 ok |-> TRUE, over |-> FALSE, allocs |-> 0, fails |-> fails]
<1>1. c \in S /\ Len(c) = n
  <2>1. c = [i \in 1 .. n |-> -1] /\ -1 \in Int
    BY DEF Cells, Junk
  <2> QED  BY <2>1
<1>2. Buffer(n, noalloc, fails) = b
  BY DEF Buffer
<1> HIDE DEF S, c
<1>3. b \in [cells : S, null : BOOLEAN, offset : Nat, noalloc : BOOLEAN, ok : BOOLEAN,
             over : BOOLEAN, allocs : Nat, fails : Nat]
  BY <1>1
<1>4. Unused(b) /\ Length(b) = n /\ b.noalloc = noalloc /\ b.fails = fails
  BY <1>1, <1>3 DEF Unused, Buffers, S, Length
<1>5. Unused(Counting(b)) /\ Counting(b).fails = fails
  BY <1>3 DEF Unused, Buffers, S, Counting
<1> QED  BY <1>2, <1>4, <1>5

(* What the program sees of the bytes is bytes.                            *)
LEMMA SeenIs ==
    ASSUME NEW cells \in Seq(Int)
    PROVE  UpToNull(cells) \in Seq(Int)
<1> DEFINE end == SelectInSeq(cells, LAMBDA x : x = 0)
           I   == {i \in 1 .. Len(cells) : cells[i] = 0}
<1>1. end = IF I # {} THEN Min(I) ELSE 0
  BY DEF SelectInSeq
<1>2. UpToNull(cells) = IF end = 0 THEN cells ELSE SubSeq(cells, 1, end - 1)
  BY DEF UpToNull
<1>3. end \in 0 .. Len(cells)
  <2>1. CASE I # {}
    <3>1. I \subseteq Nat
      OBVIOUS
    <3>2. \E x \in I : \A y \in I : x <= y
      <4> HIDE DEF I
      <4> QED  BY <2>1, <3>1, LeastNatural
    <3>3. end \in I
      <4> HIDE DEF I, end
      <4> QED  BY <1>1, <2>1, <3>2 DEF Min
    <3> HIDE DEF end
    <3> QED  BY <3>3
  <2>2. CASE I = {}
    <3> HIDE DEF end
    <3> QED  BY <1>1, <2>2
  <2> QED  BY <2>1, <2>2
<1> HIDE DEF end
<1>4. CASE end = 0
  BY <1>2, <1>4
<1>5. CASE end # 0
  <2> DEFINE m == end - 1
  <2>1. m \in Nat /\ \A i \in 1 .. m : i \in 1 .. Len(cells)
    BY <1>3, <1>5
  <2> HIDE DEF m
  <2>2. \A i \in 1 .. m : cells[i] \in Int
    BY <2>1, ElementOfSeq
  <2>3. SubSeq(cells, 1, m) \in Seq(Int)
    BY <2>1, <2>2, SubSeqProperties
  <2> QED  BY <1>2, <1>5, <2>3 DEF m
<1> QED  BY <1>4, <1>5

(* The steps that print an item, and where they move the offset.           *)
(* Every step keeps that.                                                  *)
LEMMA PrintSteps ==
    ASSUME NEW h, Printable(h), NEW item \in DOMAIN h, NEW format \in BOOLEAN
    PROVE  LET L == Steps(h, item, format)
           IN  OfValue(L) /\ \E p : Positions(p, L \o <<Update>>)
<1>1. OfValue(Steps(h, item, format))
  BY StepsAreValue
<1> QED  BY <1>1, PositionsExist DEF OfValue

(* Nothing is written beyond any of the buffers.                           *)
LEMMA PrintInside ==
    ASSUME NEW h, Printable(h), NEW item \in DOMAIN h, NEW format \in BOOLEAN
    PROVE  /\ \A fails \in Nat : ~PrintText(h, item, format, fails).over
           /\ \A size, fails \in Nat : ~PrintBuffered(h, item, size, format, fails).over
           /\ \A len \in Nat : ~PrintPreallocated(h, item, len, format).over
<1> DEFINE L == Steps(h, item, format)
<1>1. PICK p : OfValue(L) /\ Positions(p, L \o <<Update>>)
  BY PrintSteps
<1>2. ASSUME NEW b, Unused(b)
      PROVE  /\ PrintValue(h, item, b, format) = FoldLeft(Do, b, L)
             /\ FoldLeft(Do, b, L) \in Buffers /\ ~FoldLeft(Do, b, L).over
             /\ FoldLeft(Do, b, L).ok => Terminated(FoldLeft(Do, b, L), p[Len(L) + 1])
  <2> HIDE DEF L
  <2>1. /\ FoldLeft(Do, b, L) \in Buffers /\ ~FoldLeft(Do, b, L).over
        /\ FoldLeft(Do, b, L).ok => Terminated(FoldLeft(Do, b, L), p[Len(L) + 1])
    BY <1>1, <1>2, ValueRuns
  <2>2. PrintValue(h, item, b, format) = FoldLeft(Do, b, L)
    BY DEF PrintValue, L
  <2> QED  BY <2>1, <2>2
<1>3. ASSUME NEW fails \in Nat  PROVE ~PrintText(h, item, format, fails).over
  <2> DEFINE b    == Counting(Buffer(DefaultSize, FALSE, fails))
             done == PrintValue(h, item, b, format)
             cut  == UpdateOffset(done)
  <2>1. PrintText(h, item, format, fails) =
            IF fails = 1 THEN NotPrinted(FALSE)
            ELSE IF ~done.ok \/ OutOfMemory(done) THEN NotPrinted(done.over)
            ELSE Printed(SubSeq(cut.cells, 1, cut.offset), cut.over)
    BY DEF PrintText, Counting
  <2>2. Unused(b)
    BY UnusedIs, SizeAssumption
  <2> HIDE DEF b
  <2>3. ~done.over /\ (done.ok => ~cut.over)
    <3>1. done \in Buffers /\ ~done.over /\ (done.ok => Terminated(done, p[Len(L) + 1]))
      BY <1>2, <2>2
    <3> HIDE DEF done
    <3> QED  BY <3>1, UpdateIs
  <2> HIDE DEF done, cut
  <2> QED  BY <2>1, <2>3 DEF NotPrinted, Printed
<1>4. ASSUME NEW size \in Nat, NEW fails \in Nat
      PROVE  ~PrintBuffered(h, item, size, format, fails).over
  <2> DEFINE b    == Counting(Buffer(size, FALSE, fails))
             done == PrintValue(h, item, b, format)
  <2>1. PrintBuffered(h, item, size, format, fails) =
            IF fails = 1 THEN NotPrinted(FALSE)
            ELSE IF ~done.ok THEN NotPrinted(done.over)
            ELSE Printed(StringIn(done), done.over)
    BY DEF PrintBuffered, Counting
  <2>2. Unused(b)
    BY UnusedIs
  <2> HIDE DEF b
  <2>3. ~done.over
    BY <1>2, <2>2
  <2> HIDE DEF done
  <2> QED  BY <2>1, <2>3 DEF NotPrinted, Printed
<1>5. ASSUME NEW len \in Nat  PROVE ~PrintPreallocated(h, item, len, format).over
  <2> DEFINE b    == Buffer(len, TRUE, 0)
             done == PrintValue(h, item, b, format)
  <2>1. PrintPreallocated(h, item, len, format) =
            IF done.ok THEN Printed(StringIn(done), done.over) ELSE NotPrinted(done.over)
    BY DEF PrintPreallocated
  <2>2. Unused(b)
    BY UnusedIs
  <2> HIDE DEF b
  <2>3. ~done.over
    BY <1>2, <2>2
  <2> HIDE DEF done
  <2> QED  BY <2>1, <2>3 DEF NotPrinted, Printed
<1> QED  BY <1>3, <1>4, <1>5

(* A buffer with one byte more than the text with its end is enough.       *)
LEMMA GivenIsEnough ==
    ASSUME NEW h, Printable(h), NEW item \in DOMAIN h, NEW format \in BOOLEAN,
           PrintText(h, item, format, 0).text # NULL
    PROVE  LET n == Len(PrintText(h, item, format, 0).text)
           IN  /\ n \in Nat
               /\ \A len \in Nat : n + 2 <= len => PrintPreallocated(h, item, len, format).text # NULL
<1> DEFINE L    == Steps(h, item, format)
           b    == Counting(Buffer(DefaultSize, FALSE, 0))
           done == FoldLeft(Do, b, L)
           cut  == UpdateOffset(done)
<1>1. PICK p : OfValue(L) /\ Positions(p, L \o <<Update>>)
  BY PrintSteps
<1>2. Unused(b)
  BY UnusedIs, SizeAssumption
<1>3. PrintText(h, item, format, 0) =
          IF ~done.ok \/ OutOfMemory(done) THEN NotPrinted(done.over)
          ELSE Printed(SubSeq(cut.cells, 1, cut.offset), cut.over)
  BY DEF PrintText, PrintValue, Counting
<1> HIDE DEF L, b
<1>4. done \in Buffers /\ (done.ok => Terminated(done, p[Len(L) + 1]))
  BY <1>1, <1>2, ValueRuns
<1> HIDE DEF done
<1>5. done.ok /\ PrintText(h, item, format, 0).text = SubSeq(cut.cells, 1, cut.offset)
  <2> HIDE DEF cut
  <2> QED  BY <1>3 DEF NotPrinted, Printed
<1> DEFINE e == p[Len(L) + 1]
<1>6. e \in Nat /\ e + 1 <= Length(done) /\ cut.offset = e /\ cut.cells = done.cells
  BY <1>4, <1>5, UpdateIs DEF Terminated
<1> HIDE DEF e, cut
<1>7. Len(PrintText(h, item, format, 0).text) = e
  <2>1. /\ DOMAIN done.cells = 1 .. Length(done) /\ Length(done) \in Nat /\ done.cells \in Seq(Int)
        /\ Length(done) = Len(done.cells)
    BY <1>4, BufferIs
  <2>2. \A i \in 1 .. e : i \in 1 .. Len(done.cells)
    BY <1>6, <2>1
  <2>3. \A i \in 1 .. e : done.cells[i] \in Int
    BY <2>1, <2>2, ElementOfSeq
  <2>4. Len(SubSeq(done.cells, 1, e)) = IF 1 <= e THEN e - 1 + 1 ELSE 0
    BY <1>6, <2>3, SubSeqProperties
  <2> QED  BY <1>5, <1>6, <2>4
<1>8. ASSUME NEW len \in Nat, e + 2 <= len
      PROVE  PrintPreallocated(h, item, len, format).text # NULL
  <2> DEFINE c == Buffer(len, TRUE, 0)
             d == FoldLeft(Do, c, L)
  <2>1. PrintPreallocated(h, item, len, format) =
            IF d.ok THEN Printed(StringIn(d), d.over) ELSE NotPrinted(d.over)
    BY DEF PrintPreallocated, PrintValue, L
  <2>2. Unused(c) /\ Length(c) = len /\ c.noalloc
    BY UnusedIs
  <2> HIDE DEF c
  <2>3. d \in Buffers
    BY <1>1, <2>2, ValueRuns
  <2>4. d.ok
    BY <1>1, <1>2, <1>5, <1>8, <2>2, RoomIs DEF done, e
  <2> HIDE DEF d
  <2>5. UpToNull(d.cells) \in Seq(Int)
    BY <2>3, BufferIs, SeenIs
  <2> QED  BY <2>1, <2>4, <2>5, TextAssumption DEF Printed, StringIn
<1> QED  BY <1>6, <1>7, <1>8

-----------------------------------------------------------------------------
(* Nothing was written beyond a buffer.                                    *)
NotOverrun == ~out.over

(* Every step keeps that.                                                  *)
LEMMA PrintStep ==
    ASSUME NotOverrun, StringsRight, MemoryRight, [DocNext]_doc_vars
    PROVE  NotOverrun'
<1>1. CASE UNCHANGED out
  BY <1>1 DEF NotOverrun
<1>2. CASE Step
  BY <1>2 DEF Step, NotOverrun
<1>3. CASE DeleteDocument
  BY <1>3 DEF DeleteDocument, NoOutput, NotOverrun
<1>4. ASSUME pc = "done", root # NULL, NEW format \in BOOLEAN,
             DoPrint(format) \/ DoPrintBuffered(format) \/ DoPrintPreallocated(format)
      PROVE  NotOverrun'
  <2>1. Printable(heap) /\ root \in DOMAIN heap
    <3>1. stack \in Seq(Frames) /\ First(stack, root, 0) = root /\ Shape(heap, stack, root)
      BY DEF MemoryRight, Shape, First
    <3>2. 0 \in 0 .. Len(stack)
      BY <3>1
    <3>3. At(root) \subseteq DOMAIN heap
      BY <3>1, <3>2 DEF Shape
    <3> QED  BY <1>4, <3>3, DocumentPrints DEF At
  <2>2. Failing \subseteq Nat
    BY DEF Failing
  <2>3. ASSUME NEW printed, Reports(printed, format), ~printed.over  PROVE NotOverrun'
    BY <2>3 DEF Reports, NotOverrun
  <2>4. CASE DoPrint(format)
    BY <2>1, <2>2, <2>3, <2>4, PrintInside DEF DoPrint
  <2>5. CASE DoPrintBuffered(format)
    BY <2>1, <2>2, <2>3, <2>5, BufferAssumption, PrintInside DEF DoPrintBuffered
  <2>6. CASE DoPrintPreallocated(format)
    <3>1. PICK more \in Slack :
              Reports(PrintPreallocated(heap, root, Max({0, Needed(format) + more}), format), format)
      BY <2>6 DEF DoPrintPreallocated
    <3> DEFINE x == Needed(format) + more  len == Max({0, x})
    <3>2. x \in Int
      <4>1. Len(PrintText(heap, root, format, 0).text) \in Nat
        BY <2>1, <2>6, GivenIsEnough DEF DoPrintPreallocated
      <4> QED  BY <4>1, BufferAssumption DEF Needed
    <3> HIDE DEF x
    <3>3. len \in Nat
      <4>1. \E y \in {0, x} : \A z \in {0, x} : y >= z
        BY <3>2
      <4>2. len \in {0, x} /\ \A z \in {0, x} : len >= z
        BY <4>1 DEF Max
      <4> HIDE DEF len
      <4> QED  BY <3>2, <4>2
    <3> HIDE DEF len
    <3>4. ~PrintPreallocated(heap, root, len, format).over
      BY <2>1, <3>3, PrintInside
    <3> QED  BY <2>3, <3>1, <3>4 DEF len, x
  <2> QED  BY <1>4, <2>4, <2>5, <2>6
<1> QED  BY <1>1, <1>2, <1>3, <1>4 DEF DocNext, doc_vars

(* A document of any size and depth, formatted or not, is printed inside   *)
(* its buffer, wherever growing it fails; and what the buffer that grows   *)
(* could take, a given one takes that has five bytes more than it needs.   *)
THEOREM PrintingAlwaysFits == DocSpec => []PrintingFits
<1> DEFINE Fit == DocRight /\ StringsRight /\ NotOverrun
<1>1. DocInit => Fit
  <2>1. DocInit => DocRight /\ StringsRight
    BY DocRightInit, StringsInit
  <2>2. DocInit => NotOverrun
    BY DEF DocInit, NoOutput, NotOverrun
  <2> QED  BY <2>1, <2>2
<1>2. Fit /\ [DocNext]_doc_vars => Fit'
  <2> SUFFICES ASSUME Fit, [DocNext]_doc_vars  PROVE Fit'
    OBVIOUS
  <2>1. DocRight'
    BY DocRightStep
  <2>2. StringsRight'
    BY <2>1, StringsStep DEF DocRight
  <2>3. NotOverrun'
    BY PrintStep DEF DocRight
  <2> QED  BY <2>1, <2>2, <2>3
<1>3. Fit => PrintingFits
  <2> SUFFICES ASSUME Fit  PROVE PrintingFits
    OBVIOUS
  <2>1. ASSUME pc = "done", root # NULL, NEW format \in BOOLEAN,
               PrintText(heap, root, format, 0).text # NULL
        PROVE  PrintPreallocated(heap, root, Needed(format) + 5, format).text # NULL
    <3>1. MemoryRight /\ StringsRight
      BY DEF DocRight
    <3>2. stack \in Seq(Frames) /\ First(stack, root, 0) = root /\ Shape(heap, stack, root)
      BY <3>1 DEF MemoryRight, Shape, First
    <3>3. 0 \in 0 .. Len(stack)
      BY <3>2
    <3>4. root \in DOMAIN heap
      BY <2>1, <3>2, <3>3 DEF Shape, At
    <3>5. Printable(heap)
      BY <2>1, <3>1, DocumentPrints
    <3> DEFINE n == Len(PrintText(heap, root, format, 0).text)
    <3>6. n \in Nat /\ \A len \in Nat : n + 2 <= len
                           => PrintPreallocated(heap, root, len, format).text # NULL
      BY <2>1, <3>4, <3>5, GivenIsEnough
    <3>7. Needed(format) = n + 1
      BY DEF Needed
    <3> HIDE DEF n
    <3>8. Needed(format) + 5 \in Nat /\ n + 2 <= Needed(format) + 5
      BY <3>6, <3>7
    <3> QED  BY <3>6, <3>8
  <2>2. ~out.over
    BY DEF NotOverrun
  <2> QED  BY <2>1, <2>2 DEF PrintingFits
<1>4. DocSpec => []Fit
  <2> HIDE DEF Fit
  <2> QED  BY <1>1, <1>2, PTL DEF DocSpec
<1> HIDE DEF Fit
<1> QED  BY <1>3, <1>4, PTL
-----------------------------------------------------------------------------
(* The members of objects have names, and those of arrays have none.       *)

(* The items that have a name, or are about to get one.                    *)
Bearers == {i \in DOMAIN heap : heap[i].string # NoName \/ (pc = "name" /\ i = cur)}

(* Lists read backward as they read forward.  Either all members of a list *)
(* have names or none has: those of an object have, and those of an array  *)
(* have not, also while they are being read.                               *)
MembersRight ==
    /\ \A i \in DOMAIN heap :
          /\ heap[i].next # NULL =>
                /\ heap[heap[i].next].prev = i
                /\ heap[i].next \in Bearers <=> i \in Bearers
          /\ heap[i].child # NULL =>
                /\ heap[heap[i].child].prev = NULL /\ heap[i].type \in {"array", "object"}
                /\ heap[i].child \in Bearers <=> heap[i].type = "object"
    /\ \A n \in 1 .. Len(stack) : \A i \in {stack[n].head, stack[n].last} \ {NULL} :
          /\ i \in Bearers <=> stack[n].kind = "object"
          /\ i = stack[n].head => heap[i].prev = NULL

(* The lists that are being read are lists of items.                       *)
LEMMA FramesWithin ==
    ASSUME NEW h, NEW st, NEW r, Shape(h, st, r), NEW n \in 1 .. Len(st)
    PROVE  {st[n].head, st[n].last} \ {NULL} \subseteq DOMAIN h
<1>1. n \in 0 .. Len(st) /\ n # 0
  <2>1. Len(st) \in Nat
    BY DEF Shape
  <2> QED  BY <2>1
<1>2. At(First(st, r, n)) \subseteq DOMAIN h
  BY <1>1 DEF Shape
<1>3. Inmost(st, r, n) # NULL => Inmost(st, r, n) \in DOMAIN h
  BY <1>1, ShapeLists
<1> QED  BY <1>1, <1>2, <1>3 DEF First, Inmost, At

(* Items are taken away, or values change; lists end, or a list begins.    *)
LEMMA KeptMembers ==
    ASSUME MembersRight, MemoryRight, MemoryRight', DOMAIN heap' \subseteq DOMAIN heap,
           \A i \in DOMAIN heap' :
              /\ heap'[i].next = heap[i].next /\ heap'[i].child = heap[i].child
              /\ heap'[i].prev = heap[i].prev
              /\ heap[i].child # NULL => heap'[i].type = heap[i].type
              /\ i \in Bearers' <=> i \in Bearers,
           \A n \in 1 .. Len(stack') :
              \/ n \in 1 .. Len(stack) /\ stack'[n] = stack[n]
              \/ stack'[n].head = NULL /\ stack'[n].last = NULL
    PROVE  MembersRight'
<1>1. Shape(heap', stack', root') /\ HeapOK(heap')
  BY DEF MemoryRight, Shape
<1>2. \A i \in DOMAIN heap' : {heap'[i].next, heap'[i].child} \subseteq DOMAIN heap' \union {NULL}
  BY <1>1 DEF HeapOK, Cell
<1>3. \A n \in 1 .. Len(stack') : {stack'[n].head, stack'[n].last} \ {NULL} \subseteq DOMAIN heap'
  BY <1>1, FramesWithin
<1>4. ASSUME NEW i \in DOMAIN heap'
      PROVE  /\ heap'[i].next # NULL =>
                   /\ heap'[heap'[i].next].prev = i
                   /\ heap'[i].next \in Bearers' <=> i \in Bearers'
             /\ heap'[i].child # NULL =>
                   /\ heap'[heap'[i].child].prev = NULL /\ heap'[i].type \in {"array", "object"}
                   /\ heap'[i].child \in Bearers' <=> heap'[i].type = "object"
  BY <1>2 DEF MembersRight
<1>5. ASSUME NEW n \in 1 .. Len(stack'), NEW i \in {stack'[n].head, stack'[n].last} \ {NULL}
      PROVE  /\ i \in Bearers' <=> stack'[n].kind = "object"
             /\ i = stack'[n].head => heap'[i].prev = NULL
  <2>1. n \in 1 .. Len(stack) /\ stack'[n] = stack[n]
    BY <1>5
  <2>2. i \in DOMAIN heap' /\ i \in {stack[n].head, stack[n].last} \ {NULL}
    BY <1>3, <2>1
  <2> QED  BY <2>1, <2>2 DEF MembersRight
<1> QED  BY <1>4, <1>5 DEF MembersRight

(* Memory is as it was.                                                    *)
LEMMA SameMembers ==
    ASSUME MembersRight, MemoryRight, MemoryRight', UNCHANGED <<heap, stack, cur>>,
           pc = "name" <=> pc' = "name"
    PROVE  MembersRight'
<1>1. \A i \in DOMAIN heap : i \in Bearers' <=> i \in Bearers
  BY DEF Bearers
<1> QED  BY <1>1, KeptMembers

(* The item that is read has its value.                                    *)
LEMMA ValueMembers ==
    ASSUME MembersRight, MemoryRight, MemoryRight', UNCHANGED <<stack, cur>>,
           pc \in {"value", "name"}, pc' # "name",
           NEW v, heap' = [heap EXCEPT ![cur] = v],
           v.next = heap[cur].next, v.child = heap[cur].child, v.prev = heap[cur].prev,
           v.string # NoName <=> (heap[cur].string # NoName \/ pc = "name")
    PROVE  MembersRight'
<1>1. cur \in DOMAIN heap /\ heap[cur].child = NULL
  BY CurIs
<1>2. DOMAIN heap' = DOMAIN heap /\ heap'[cur] = v /\ \A i \in DOMAIN heap : i # cur => heap'[i] = heap[i]
  BY <1>1
<1>3. \A i \in DOMAIN heap : i \in Bearers' <=> i \in Bearers
  BY <1>2 DEF Bearers
<1>4. \A i \in DOMAIN heap' :
         /\ heap'[i].next = heap[i].next /\ heap'[i].child = heap[i].child
         /\ heap'[i].prev = heap[i].prev
         /\ heap[i].child # NULL => heap'[i].type = heap[i].type
  BY <1>1, <1>2
<1> QED  BY <1>2, <1>3, <1>4, KeptMembers

(* An array or object fails.                                               *)
LEMMA FailMembers ==
    ASSUME MembersRight, MemoryRight, MemoryRight', FailMember, stack # << >>, UNCHANGED <<root, cur>>
    PROVE  MembersRight'
<1> DEFINE gone == Freed(heap, Last(stack).head)
<1>1. heap' = [i \in DOMAIN heap \ gone |-> heap[i]] /\ stack' = Front(stack) /\ pc' = "return"
  BY DEF FailMember, Return, Deleted, Becomes
<1>2. pc = "name" => cur \in gone
  BY InmostIs, CurIs
<1> HIDE DEF gone
<1>3. DOMAIN heap' \subseteq DOMAIN heap /\ \A i \in DOMAIN heap' : heap'[i] = heap[i] /\ i \notin gone
  BY <1>1
<1>4. \A i \in DOMAIN heap' : i \in Bearers' <=> i \in Bearers
  BY <1>1, <1>2, <1>3 DEF Bearers
<1>5. \A n \in 1 .. Len(stack') : n \in 1 .. Len(stack) /\ stack'[n] = stack[n]
  <2>1. stack \in Seq(Frames)
    BY DEF MemoryRight, Shape
  <2> QED  BY <1>1, <2>1, FrontIs
<1> QED  BY <1>3, <1>4, <1>5, KeptMembers

(* An array or object ends.                                                *)
LEMMA SucceedMembers ==
    ASSUME MembersRight, MemoryRight, MemoryRight', Succeed, stack # << >>, pc # "name"
    PROVE  MembersRight'
<1> DEFINE k == Len(stack)  f == Last(stack)
           v == WithMembers(heap[f.item], f.kind, f.head)
<1>1. stack \in Seq(Frames) /\ HeapOK(heap)
  BY DEF MemoryRight, Shape
<1>2. /\ stack' = Front(stack) /\ pc' = "return" /\ k \in Nat \ {0} /\ f = stack[k]
      /\ \A n \in 1 .. Len(stack') : n \in 1 .. k /\ stack'[n] = stack[n]
  BY <1>1, FrontIs DEF Succeed, Return
<1>3. f.item \in DOMAIN heap /\ f.kind \in {"array", "object"}
  BY InmostIs, KindIs
<1>4. heap' = [heap EXCEPT ![f.item] = v]
  BY <1>1, <1>3 DEF Succeed, WithMembers, HeapOK
<1>5. /\ v.type = f.kind /\ v.child = f.head /\ v.next = heap[f.item].next
      /\ v.prev = heap[f.item].prev /\ v.string = heap[f.item].string
  <2> DEFINE c == heap[f.item]
  <2>1. c \in Cell(DOMAIN heap)
    BY <1>1, <1>3 DEF HeapOK
  <2> HIDE DEF c, f
  <2>2. \A w, x : LET u == WithMembers(c, w, x)
                  IN  /\ u.type = w /\ u.child = x /\ u.next = c.next
                      /\ u.prev = c.prev /\ u.string = c.string
    BY <2>1 DEF WithMembers, Cell
  <2> QED  BY <2>2 DEF c
<1>6. f.head # NULL => heap[f.head].prev = NULL /\ (f.head \in Bearers <=> f.kind = "object")
  BY <1>2 DEF MembersRight
<1>p. (f.head # NULL => f.head \in DOMAIN heap)
      /\ \A i \in DOMAIN heap : {heap[i].next, heap[i].child} \subseteq DOMAIN heap \union {NULL}
  <2>1. k \in 1 .. Len(stack) /\ Shape(heap, stack, root)
    BY <1>2 DEF MemoryRight
  <2> HIDE DEF k, f
  <2>2. {stack[k].head, stack[k].last} \ {NULL} \subseteq DOMAIN heap
    BY <2>1, FramesWithin
  <2> QED  BY <1>1, <1>2, <2>2 DEF HeapOK, Cell
<1> HIDE DEF v, f
<1>7. DOMAIN heap' = DOMAIN heap /\ heap'[f.item] = v /\ \A i \in DOMAIN heap : i # f.item => heap'[i] = heap[i]
  BY <1>3, <1>4
<1>8. \A i \in DOMAIN heap : /\ heap'[i].string = heap[i].string /\ heap'[i].next = heap[i].next
                             /\ heap'[i].prev = heap[i].prev
  BY <1>5, <1>7
<1>9. Bearers' = Bearers
  BY <1>2, <1>7, <1>8 DEF Bearers
<1>10. ASSUME NEW i \in DOMAIN heap'
       PROVE  /\ heap'[i].next # NULL =>
                    /\ heap'[heap'[i].next].prev = i
                    /\ heap'[i].next \in Bearers' <=> i \in Bearers'
              /\ heap'[i].child # NULL =>
                    /\ heap'[heap'[i].child].prev = NULL /\ heap'[i].type \in {"array", "object"}
                    /\ heap'[i].child \in Bearers' <=> heap'[i].type = "object"
  <2>1. CASE i = f.item
    BY <1>3, <1>5, <1>6, <1>7, <1>8, <1>9, <1>p, <2>1 DEF MembersRight
  <2>2. CASE i # f.item
    BY <1>7, <1>8, <1>9, <1>p, <2>2 DEF MembersRight
  <2> QED  BY <2>1, <2>2
<1>11. ASSUME NEW n \in 1 .. Len(stack'), NEW i \in {stack'[n].head, stack'[n].last} \ {NULL}
       PROVE  /\ i \in Bearers' <=> stack'[n].kind = "object"
              /\ i = stack'[n].head => heap'[i].prev = NULL
  <2>1. n \in 1 .. Len(stack) /\ stack'[n] = stack[n]
    BY <1>2
  <2>2. i \in {stack[n].head, stack[n].last} \ {NULL} /\ Shape(heap, stack, root)
    BY <2>1 DEF MemoryRight
  <2>3. i \in DOMAIN heap
    BY <2>1, <2>2, FramesWithin
  <2> QED  BY <1>8, <1>9, <2>1, <2>2, <2>3 DEF MembersRight
<1> QED  BY <1>10, <1>11 DEF MembersRight

(* A member begins.                                                        *)
LEMMA GrowMembers ==
    ASSUME MembersRight, MemoryRight, MemoryRight', stack # << >>, NEW x, OneMore(x),
           pc = "member", cur' = x, pc' = IF Last(stack).kind = "array" THEN "value" ELSE "name"
    PROVE  MembersRight'
<1> DEFINE k == Len(stack)  f == Last(stack)  g == stack'[k]  D == DOMAIN heap
           object == f.kind = "object"
<1>1. stack \in Seq(Frames) /\ HeapOK(heap) /\ HeapOK(heap') /\ NULL \notin D
  BY HeapLinked DEF MemoryRight, Shape
<1>2. k \in Nat \ {0} /\ f = stack[k] /\ f \in Frames /\ k \in 1 .. k
  <2>1. k \in Nat \ {0} /\ f = stack[k] /\ f \in Frames
    BY <1>1, FrontIs
  <2> QED  BY <2>1
<1>3. f.kind \in {"array", "object"}
  BY <1>2 DEF Frames
<1>4. DOMAIN heap' = D \union {x} /\ x \notin D /\ x \in Nat /\ x # NULL
  <2>1. DOMAIN heap' = D \union {x} /\ x \notin D
    BY DEF OneMore
  <2> QED  BY <1>1, <2>1, NullAssumption DEF HeapOK
<1>5. /\ g.kind = f.kind /\ g.last = x /\ g.head = IF f.head = NULL THEN x ELSE f.head
      /\ Len(stack') = k /\ \A n \in 1 .. k : n # k => stack'[n] = stack[n]
  <2>1. g = Grown(f, x) /\ Len(stack') = k /\ \A n \in 1 .. k : n # k => stack'[n] = stack[n]
    BY DEF OneMore
  <2> HIDE DEF g, f
  <2> QED  BY <1>2, <1>4, <2>1, GrownIs
<1>6. \A i \in D : /\ heap'[i].string = heap[i].string /\ heap'[i].type = heap[i].type
                   /\ heap'[i].child = heap[i].child /\ heap'[i].prev = heap[i].prev
                   /\ heap'[i].next = IF f.head # NULL /\ i = f.last THEN x ELSE heap[i].next
  BY DEF OneMore
<1>7. /\ heap'[x].string = NoName /\ heap'[x].next = NULL /\ heap'[x].child = NULL
      /\ heap'[x].prev = f.last
  BY DEF OneMore
<1>s. Shape(heap, stack, root)
  BY DEF MemoryRight
<1>8. {f.head, f.last} \ {NULL} \subseteq D
  BY <1>2, <1>s, FramesWithin
<1>9. \A i \in {f.head, f.last} \ {NULL} : /\ i \in Bearers <=> object
                                           /\ i = f.head => heap[i].prev = NULL
  <2>1. \A i \in {stack[k].head, stack[k].last} \ {NULL} :
           /\ i \in Bearers <=> stack[k].kind = "object"
           /\ i = stack[k].head => heap[i].prev = NULL
    BY <1>2 DEF MembersRight
  <2> QED  BY <1>2, <2>1
<1>f. f.head = NULL <=> f.last = NULL
  BY <1>2, <1>s DEF Shape, FrameOK
<1>10. \A i \in D : {heap[i].next, heap[i].child} \subseteq D \union {NULL}
  BY <1>1 DEF HeapOK, Cell
<1> HIDE DEF f, g, k
<1>11. (\A i \in D : i \in Bearers' <=> i \in Bearers) /\ (x \in Bearers' <=> object)
  <2>1. \A i \in D : i \in Bearers' <=> i \in Bearers
    BY <1>4, <1>6 DEF Bearers
  <2>2. pc' = "name" <=> object
    BY <1>3 DEF f
  <2> QED  BY <1>4, <1>7, <2>1, <2>2 DEF Bearers
<1> HIDE DEF D, object
<1>12. ASSUME NEW i \in DOMAIN heap'
       PROVE  /\ heap'[i].next # NULL =>
                    /\ heap'[heap'[i].next].prev = i
                    /\ heap'[i].next \in Bearers' <=> i \in Bearers'
              /\ heap'[i].child # NULL =>
                    /\ heap'[heap'[i].child].prev = NULL /\ heap'[i].type \in {"array", "object"}
                    /\ heap'[i].child \in Bearers' <=> heap'[i].type = "object"
  <2>1. CASE i = x
    BY <1>4, <1>7, <2>1
  <2>2. CASE i \in D
    <3>1. /\ heap[i].next # NULL =>
                /\ heap[heap[i].next].prev = i
                /\ heap[i].next \in Bearers <=> i \in Bearers
          /\ heap[i].child # NULL =>
                /\ heap[heap[i].child].prev = NULL /\ heap[i].type \in {"array", "object"}
                /\ heap[i].child \in Bearers <=> heap[i].type = "object"
      BY <2>2 DEF MembersRight, D
    <3>2. /\ heap'[i].child # NULL =>
                /\ heap'[heap'[i].child].prev = NULL /\ heap'[i].type \in {"array", "object"}
                /\ heap'[i].child \in Bearers' <=> heap'[i].type = "object"
      BY <1>6, <1>10, <1>11, <2>2, <3>1
    <3>3. CASE f.head # NULL /\ i = f.last
      <4>1. heap'[i].next = x /\ x # NULL /\ i # NULL
        BY <1>1, <1>4, <1>6, <2>2, <3>3
      <4>2. heap'[x].prev = i /\ (x \in Bearers' <=> object) /\ (i \in Bearers' <=> object)
        BY <1>7, <1>9, <1>11, <2>2, <3>3, <4>1
      <4> QED  BY <3>2, <4>1, <4>2
    <3>4. CASE ~(f.head # NULL /\ i = f.last)
      <4>1. heap'[i].next = heap[i].next /\ heap[i].next \in D \union {NULL}
        BY <1>6, <1>10, <2>2, <3>4
      <4> QED  BY <1>6, <1>11, <2>2, <3>1, <3>2, <4>1
    <3> QED  BY <3>3, <3>4
  <2> QED  BY <1>4, <2>1, <2>2
<1>13. ASSUME NEW n \in 1 .. Len(stack'), NEW i \in {stack'[n].head, stack'[n].last} \ {NULL}
       PROVE  /\ i \in Bearers' <=> stack'[n].kind = "object"
              /\ i = stack'[n].head => heap'[i].prev = NULL
  <2>1. CASE n = k
    <3>1. i = x \/ (i \in {f.head, f.last} \ {NULL} /\ i # x)
      BY <1>5, <2>1 DEF g
    <3>2. stack'[n].kind = f.kind /\ stack'[n].head = IF f.head = NULL THEN x ELSE f.head
      BY <1>5, <2>1 DEF g
    <3>3. CASE i = x
      <4>1. x \notin {f.head} \ {NULL}
        BY <1>4, <1>8 DEF D
      <4> QED  BY <1>7, <1>11, <1>f, <3>2, <3>3, <4>1 DEF object
    <3>4. CASE i \in {f.head, f.last} \ {NULL} /\ i # x
      <4>1. i \in D
        BY <1>8, <3>4
      <4>2. i = stack'[n].head => i = f.head
        BY <3>2, <3>4
      <4>3. heap'[i].prev = heap[i].prev /\ (i \in Bearers' <=> i \in Bearers)
        BY <1>6, <1>11, <4>1
      <4>4. (i \in Bearers <=> object) /\ (i = f.head => heap[i].prev = NULL)
        BY <1>9, <3>4
      <4> QED  BY <3>2, <4>2, <4>3, <4>4 DEF object
    <3> QED  BY <3>1, <3>3, <3>4
  <2>2. CASE n # k
    <3>1. n \in 1 .. Len(stack) /\ stack'[n] = stack[n]
      BY <1>5, <2>2 DEF k
    <3>2. i \in D /\ i \in {stack[n].head, stack[n].last} \ {NULL}
      BY <1>s, <3>1, FramesWithin DEF D
    <3> QED  BY <1>6, <1>11, <3>1, <3>2 DEF MembersRight
  <2> QED  BY <2>1, <2>2
<1> QED  BY <1>12, <1>13 DEF MembersRight

(* Every step keeps it.                                                    *)
LEMMA MembersStep ==
    ASSUME MembersRight, MemoryRight, MemoryRight', DepthRight, TextRight, [DocNext]_doc_vars
    PROVE  MembersRight'
<1>0. pc \in {"open", "member", "name", "colon"} => stack # << >>
  BY DEF DepthRight
<1>1. CASE Supply
  BY <1>1, SameMembers DEF Supply, parse_vars, mem_vars
<1>2. CASE Start
  <2>1. CASE pc' = "done"
    BY <1>2, <2>1, SameMembers DEF Start
  <2>2. CASE pc' # "done"
    <3> DEFINE x == Fresh
    <3>1. heap' = WithItem(heap, x, NewItem) /\ DOMAIN heap = {} /\ stack = << >> /\ UNCHANGED stack
      BY <1>2, <2>2 DEF Start, MemoryRight, Outside
    <3> HIDE DEF x
    <3>2. DOMAIN heap' = {x} /\ heap'[x] = NewItem
      BY <3>1 DEF WithItem
    <3>3. NewItem.next = NULL /\ NewItem.child = NULL
      BY DEF NewItem
    <3>4. NULL \notin DOMAIN heap'
      BY HeapLinked DEF MemoryRight, Shape
    <3>5. 1 .. Len(stack') = {}
      BY <3>1, Emptied
    <3> QED  BY <3>2, <3>3, <3>4, <3>5 DEF MembersRight
  <2> QED  BY <2>1, <2>2
<1>3. CASE ParseWord
  <2> DEFINE v == WithType(heap[cur], text[Here].word)
  <2>1. cur \in DOMAIN heap /\ heap[cur] \in Cell(DOMAIN heap)
    BY <1>3, CurIs DEF ParseWord
  <2>2. heap' = [heap EXCEPT ![cur] = v] /\ pc = "value" /\ pc' = "return" /\ UNCHANGED <<stack, cur>>
    BY <1>3 DEF ParseWord, WithType, Return
  <2>3. /\ v.next = heap[cur].next /\ v.child = heap[cur].child
        /\ v.prev = heap[cur].prev /\ v.string = heap[cur].string
    BY <2>1 DEF WithType, Cell
  <2> HIDE DEF v
  <2> QED  BY <2>2, <2>3, ValueMembers
<1>4. CASE ParseNumber
  <2> DEFINE x == text[Here].num  v == WithValue(heap[cur], "num", x)
  <2>1. cur \in DOMAIN heap /\ heap[cur] \in Cell(DOMAIN heap)
    BY <1>4, CurIs DEF ParseNumber
  <2>2. heap' = [heap EXCEPT ![cur] = v]
    <3>1. heap \in [DOMAIN heap -> Cell(DOMAIN heap)]
      BY DEF MemoryRight, Shape, HeapOK
    <3> QED  BY <1>4, <2>1, <3>1 DEF ParseNumber, WithValue
  <2>4. pc = "value" /\ pc' = "return" /\ UNCHANGED <<stack, cur>>
    BY <1>4 DEF ParseNumber, Return
  <2>3. /\ v.next = heap[cur].next /\ v.child = heap[cur].child
        /\ v.prev = heap[cur].prev /\ v.string = heap[cur].string
    BY <2>1 DEF WithValue, Cell
  <2> HIDE DEF v
  <2> QED  BY <2>2, <2>3, <2>4, ValueMembers
<1>5. CASE ParseStringValue
  <2>0. pc = "value" /\ pc' = "return" /\ UNCHANGED <<stack, cur>>
    BY <1>5 DEF ParseStringValue, Return
  <2>1. CASE UNCHANGED heap
    BY <2>0, <2>1, SameMembers
  <2>2. CASE ~UNCHANGED heap
    <3> DEFINE v == WithCopy(heap[cur], "string", UpToNull(ParseString(text[Here].units).out), TRUE)
    <3>1. cur \in DOMAIN heap /\ heap[cur] \in Cell(DOMAIN heap)
      BY <2>0, CurIs
    <3>2. heap' = [heap EXCEPT ![cur] = v]
      BY <1>5, <2>2, <3>1 DEF ParseStringValue, SameMemory, Becomes, MemoryRight, Shape, HeapOK, WithCopy
    <3>3. /\ v.next = heap[cur].next /\ v.child = heap[cur].child
          /\ v.prev = heap[cur].prev /\ v.string = heap[cur].string
      BY <3>1 DEF WithCopy, Cell
    <3> HIDE DEF v
    <3> QED  BY <2>0, <3>2, <3>3, ValueMembers
  <2> QED  BY <2>1, <2>2
<1>6. CASE \E kind \in {"array", "object"} : Open(kind)
  <2>1. UNCHANGED <<heap, cur>> /\ pc = "value" /\ pc' # "name"
    BY <1>6 DEF Open, mem_vars, Return
  <2>2. CASE TooDeep
    BY <1>6, <2>1, <2>2, SameMembers DEF Open
  <2>3. CASE ~TooDeep
    <3> DEFINE f(kind) == [kind |-> kind, item |-> cur, head |-> NULL, last |-> NULL]
    <3>1. PICK kind \in {"array", "object"} : stack' = Append(stack, f(kind))
      BY <1>6, <2>3 DEF Open
    <3>2. f(kind).head = NULL /\ f(kind).last = NULL /\ f(kind) \in Frames
      <4>1. cur \in DOMAIN heap /\ HeapOK(heap)
        BY <2>1, CurIs
      <4>2. cur \in Nat
        BY <4>1 DEF HeapOK
      <4> QED  BY <4>2 DEF Frames
    <3>3. stack \in Seq(Frames)
      BY DEF MemoryRight, Shape
    <3> DEFINE g == f(kind)
    <3> HIDE DEF g
    <3>4. \A n \in 1 .. Len(stack') : (n \in 1 .. Len(stack) /\ stack'[n] = stack[n]) \/ stack'[n] = g
      <4>1. g \in Frames /\ stack' = Append(stack, g)
        BY <3>1, <3>2 DEF g
      <4>2. /\ Len(stack) \in Nat /\ Len(stack') = Len(stack) + 1 /\ stack'[Len(stack) + 1] = g
            /\ \A n \in 1 .. Len(stack) : stack'[n] = stack[n]
        BY <3>3, <4>1, AppendProperties
      <4> QED  BY <4>2
    <3>5. \A i \in DOMAIN heap : i \in Bearers' <=> i \in Bearers
      BY <2>1 DEF Bearers
    <3> QED  BY <2>1, <3>2, <3>4, <3>5, KeptMembers DEF g
  <2> QED  BY <2>2, <2>3
<1>7. CASE Reject
  BY <1>7, SameMembers DEF Reject, Return, mem_vars
<1>8. CASE FirstMember
  <2>1. stack # << >> /\ pc = "open" /\ UNCHANGED cur
    BY <1>0, <1>8 DEF FirstMember
  <2>2. CASE Succeed
    BY <2>1, <2>2, SucceedMembers
  <2>3. CASE ~Succeed
    BY <1>8, <2>1, <2>3, SameMembers DEF FirstMember
  <2> QED  BY <2>2, <2>3
<1>9. CASE NewMember
  <2>1. stack # << >> /\ pc = "member" /\ UNCHANGED root
    BY <1>0, <1>9 DEF NewMember
  <2>2. CASE FailMember /\ UNCHANGED cur
    BY <2>1, <2>2, FailMembers
  <2>3. CASE ~(FailMember /\ UNCHANGED cur)
    <3> DEFINE x == Fresh
    <3>1. stack' = [stack EXCEPT ![Len(stack)] = Grown(Last(stack), x)]
      BY <1>9, <2>3 DEF NewMember, Grown
    <3>2. heap' = LET h == WithItem(heap, x, WithPrev(NewItem, Last(stack).last))
                  IN  IF Last(stack).head = NULL THEN h
                      ELSE [h EXCEPT ![Last(stack).last] = WithNext(h[Last(stack).last], x)]
      BY <1>9, <2>3 DEF NewMember, WithPrev, WithNext
    <3>3. /\ cur' = x /\ pc' = IF Last(stack).kind = "array" THEN "value" ELSE "name"
          /\ UNCHANGED copies
      BY <1>9, <2>3 DEF NewMember
    <3>4. x = Fresh
      OBVIOUS
    <3> HIDE DEF x
    <3>5. Grows(x)
      BY <2>1, <3>1, <3>2, <3>3 DEF Grows
    <3>6. OneMore(x)
      BY <2>1, <3>4, <3>5, GrowMemory
    <3> QED  BY <2>1, <3>3, <3>6, GrowMembers
  <2> QED  BY <2>2, <2>3
<1>10. CASE ParseName
  <2>1. stack # << >> /\ UNCHANGED <<root, cur>> /\ pc = "name"
    BY <1>0, <1>10 DEF ParseName
  <2>2. CASE FailMember
    BY <2>1, <2>2, FailMembers
  <2>3. CASE ~FailMember
    <3> DEFINE x == UpToNull(ParseString(text[Here].units).out)
               v == WithName(heap[cur], "string", x)
    <3>1. cur \in DOMAIN heap /\ heap[cur] \in Cell(DOMAIN heap)
      BY <2>1, CurIs
    <3>2. heap' = [heap EXCEPT ![cur] = v] /\ pc' = "colon" /\ UNCHANGED stack
      BY <1>10, <2>3, <3>1 DEF ParseName, Becomes, WithName, MemoryRight, Shape, HeapOK
    <3>3. x # NoName
      BY <1>10, <2>3, StringIs, NullAssumption DEF ParseName
    <3> HIDE DEF x
    <3>4. /\ v.next = heap[cur].next /\ v.child = heap[cur].child
          /\ v.prev = heap[cur].prev /\ v.string = x
      BY <3>1 DEF WithName, Cell
    <3> HIDE DEF v
    <3> QED  BY <2>1, <3>2, <3>3, <3>4, ValueMembers
  <2> QED  BY <2>2, <2>3
<1>11. CASE ParseColon
  <2>1. stack # << >> /\ UNCHANGED <<root, cur>> /\ pc = "colon"
    BY <1>0, <1>11 DEF ParseColon
  <2>2. CASE FailMember
    BY <2>1, <2>2, FailMembers
  <2>3. CASE ~FailMember
    BY <1>11, <2>1, <2>3, SameMembers DEF ParseColon, SameMemory, Becomes
  <2> QED  BY <2>2, <2>3
<1>12. CASE NextMember
  <2>1. stack # << >> /\ UNCHANGED <<root, cur>> /\ pc = "return"
    BY <1>12 DEF NextMember
  <2>2. CASE FailMember
    BY <2>1, <2>2, FailMembers
  <2>3. CASE Succeed
    BY <2>1, <2>3, SucceedMembers
  <2>4. CASE SameMemory /\ pc' = "member" /\ UNCHANGED stack
    BY <2>1, <2>4, SameMembers DEF SameMemory, Becomes
  <2> QED  BY <1>12, <2>2, <2>3, <2>4 DEF NextMember
<1>f. ASSUME stack' = << >>, pc # "name", pc' # "name", NEW S,
             heap' = [i \in DOMAIN heap \ S |-> heap[i]]
      PROVE  MembersRight'
  <2>1. DOMAIN heap' \subseteq DOMAIN heap /\ \A i \in DOMAIN heap' : heap'[i] = heap[i]
    BY <1>f
  <2>2. \A i \in DOMAIN heap' : i \in Bearers' <=> i \in Bearers
    BY <1>f, <2>1 DEF Bearers
  <2>3. 1 .. Len(stack') = {}
    BY <1>f, Emptied
  <2> QED  BY <2>1, <2>2, <2>3, KeptMembers
<1>13. CASE Finish
  <2>1. stack = << >> /\ UNCHANGED <<stack, cur>> /\ pc = "return" /\ pc' = "done"
    BY <1>13 DEF Finish
  <2>2. CASE UNCHANGED heap
    BY <2>1, <2>2, SameMembers
  <2>3. CASE Deleted(root)
    <3>1. heap' = [i \in DOMAIN heap \ Freed(heap, root) |-> heap[i]]
      BY <2>3 DEF Deleted, Becomes
    <3> QED  BY <1>f, <2>1, <3>1
  <2> QED  BY <1>13, <2>2, <2>3 DEF Finish, SameMemory, Becomes
<1>14. CASE /\ pc = "done"
            /\ \E format \in BOOLEAN :
                  DoPrint(format) \/ DoPrintBuffered(format) \/ DoPrintPreallocated(format)
  <2>1. UNCHANGED <<heap, stack, cur>> /\ pc' = "printed"
    BY <1>14 DEF DoPrint, DoPrintBuffered, DoPrintPreallocated, Reports
  <2> QED  BY <1>14, <2>1, SameMembers
<1>15. CASE DeleteDocument
  <2>1. stack = << >> /\ UNCHANGED stack /\ pc # "name" /\ pc' # "name"
    BY <1>15 DEF DeleteDocument, MemoryRight, Outside
  <2>2. heap' = [i \in DOMAIN heap \ Freed(heap, root) |-> heap[i]]
    BY <1>15 DEF DeleteDocument, Deleted, Becomes
  <2> QED  BY <1>f, <2>1, <2>2
<1>16. CASE UNCHANGED doc_vars
  BY <1>16, SameMembers DEF doc_vars, vars, parse_vars, mem_vars
<1> QED  BY <1>1, <1>2, <1>3, <1>4, <1>5, <1>6, <1>7, <1>8, <1>9, <1>10, <1>11, <1>12,
            <1>13, <1>14, <1>15, <1>16 DEF DocNext, Step, Parse

(* It holds at first.                                                      *)
LEMMA MembersInit == DocInit => MembersRight
<1> SUFFICES ASSUME DocInit  PROVE MembersRight
  OBVIOUS
<1>1. DOMAIN heap = {} /\ stack = << >>
  BY DEF DocInit, Init
<1> QED  BY <1>1, Emptied DEF MembersRight
-----------------------------------------------------------------------------
(* What a path finds.                                                      *)

(* The least of the places that pass.                                      *)
LEMMA MinOfInterval ==
    ASSUME NEW n \in Nat, NEW T \in SUBSET (1 .. n), T # {}
    PROVE  Min(T) \in T /\ \A x \in T : Min(T) <= x
<1>1. T \subseteq Nat
  OBVIOUS
<1>2. \E x \in T : \A y \in T : x <= y
  BY <1>1, LeastNatural
<1> QED  BY <1>2 DEF Min

(* The place of an item is the first where it stands.                      *)
LEMMA PositionIs ==
    ASSUME NEW p, NEW S, List(heap, p) \in Seq(S), NEW i \in ToSet(List(heap, p))
    PROVE  LET l == List(heap, p)
           IN  /\ Position(p, i) \in Nat /\ Position(p, i) + 1 \in 1 .. Len(l)
               /\ l[Position(p, i) + 1] = i
               /\ \A n \in 1 .. Len(l) : l[n] = i => Position(p, i) + 1 <= n
<1> DEFINE l == List(heap, p)
           T == {n \in 1 .. Len(l) : l[n] = i}
           m == Min(T)
<1>1. Len(l) \in Nat /\ DOMAIN l = 1 .. Len(l)
  OBVIOUS
<1>2. T # {}
  BY <1>1 DEF ToSet
<1>3. Position(p, i) = m - 1
  BY <1>2 DEF Position, SelectInSeq
<1> HIDE DEF l
<1>4. m \in T /\ \A x \in T : m <= x
  <2>1. T \in SUBSET (1 .. Len(l))
    OBVIOUS
  <2> HIDE DEF T
  <2> QED  BY <1>1, <1>2, <2>1, MinOfInterval
<1>5. m \in 1 .. Len(l) /\ l[m] = i /\ \A n \in 1 .. Len(l) : l[n] = i => m <= n
  BY <1>4
<1> HIDE DEF T, m
<1>6. m - 1 \in Nat /\ (m - 1) + 1 = m
  BY <1>1, <1>5
<1> QED  BY <1>3, <1>5, <1>6 DEF l

(* The numeral of a position under ten is one byte, and no other's.        *)
LEMMA DigitsDiffer ==
    ASSUME NEW n \in Nat, NEW k \in 0 .. 9, Digits[n] = Digits[k]
    PROVE  n = k
<1> DEFINE D == Digits
<1>1. \A m \in Nat : /\ D[m] = IF m < 10 THEN <<48 + m>> ELSE D[m \div 10] \o <<48 + (m % 10)>>
                     /\ D[m] \in Seq(48 .. 57)
  BY DigitsAre DEF Numeral
<1> HIDE DEF D
<1>k. k \in Nat /\ k < 10
  OBVIOUS
<1>e. D[n] = D[k]
  BY DEF D
<1>2. D[n] = D[k] /\ D[k] = <<48 + k>>
  BY <1>1, <1>k, <1>e
<1>3. CASE n < 10
  <2>1. D[n] = <<48 + n>>
    BY <1>1, <1>3
  <2>2. <<48 + n>>[1] = <<48 + k>>[1]
    BY <1>2, <2>1
  <2>3. 48 + n = 48 + k
    BY <2>2
  <2> QED  BY <1>k, <2>3
<1>4. CASE ~(n < 10)
  <2> DEFINE m == n \div 10  x == 48 + (n % 10)  a == D[m]
  <2>1. m \in Nat /\ x \in Int
    BY TenthIs, <1>4
  <2>2. D[n] = a \o <<x>>
    BY <1>1, <1>4
  <2>3. Len(a) \in Nat \ {0} /\ a \in Seq(48 .. 57)
    <3> DEFINE q == m \div 10  b == D[q]  y == <<48 + (m % 10)>>
    <3>1. a \in Seq(48 .. 57)
      BY <1>1, <2>1
    <3>2. CASE m < 10
      <4>1. a = <<48 + m>>
        BY <1>1, <2>1, <3>2
      <4> QED  BY <3>1, <4>1
    <3>3. CASE ~(m < 10)
      <4>1. a = b \o y /\ q \in Nat
        BY <1>1, <2>1, <3>3, TenthIs
      <4>2. b \in Seq(Int) /\ y \in Seq(Int) /\ Len(y) = 1
        <5>1. b \in Seq(48 .. 57)
          BY <1>1, <4>1
        <5>2. m % 10 \in Int
          BY <2>1
        <5> QED  BY <5>1, <5>2
      <4> HIDE DEF b, y
      <4>3. Len(b \o y) = Len(b) + Len(y) /\ Len(b) \in Nat
        <5> DEFINE S == Int
        <5>1. b \in Seq(S) /\ y \in Seq(S)
          BY <4>2
        <5> HIDE DEF S
        <5> QED  BY <5>1, ConcatProperties
      <4>4. Len(a) = Len(b) + 1
        BY <4>1, <4>2, <4>3
      <4> QED  BY <3>1, <4>3, <4>4
    <3> QED  BY <3>2, <3>3
  <2> HIDE DEF m, x, a
  <2>4. a \in Seq(Int) /\ <<x>> \in Seq(Int) /\ Len(<<x>>) = 1
    BY <2>1, <2>3
  <2>5. Len(D[n]) = Len(a) + 1
    BY <2>2, <2>4
  <2>6. Len(D[k]) = 1
    BY <1>2
  <2> QED  BY <1>2, <2>3, <2>5, <2>6
<1> QED  BY <1>3, <1>4

(* The steps of the count that str_to_maybe_int keeps.                     *)
Counts(r, s) ==
    /\ r \in [0 .. Len(s) -> Nat]
    /\ r[0] = 0 /\ r[Len(s)] = StrToMaybeInt(s)
    /\ \A n \in 1 .. Len(s) : r[n] = r[n - 1] + 10 * r[n - 1] + (s[n] - 48)

(* Digits are counted.                                                     *)
LEMMA CountsExist ==
    ASSUME NEW L \in Seq(48 .. 57)
    PROVE  \E r : Counts(r, L)
<1> DEFINE n         == Len(L)
           Op(v, c)  == v + 10 * v + (c - 48)
           Solves(g) == g = [t \in SUBSET DOMAIN L |->
                                IF t = {} THEN 0 ELSE Op(g[t \ {Max(t)}], L[Max(t)])]
           G         == CHOOSE g : Solves(g)
<1>0. n \in Nat /\ DOMAIN L = 1 .. n /\ \A i \in 1 .. n : L[i] \in 48 .. 57
  BY ElementOfSeq
<1>1. StrToMaybeInt(L) = G[DOMAIN L]
  <2>1. ~\E i \in DOMAIN L : ~IsDigit(L[i])
    BY <1>0 DEF IsDigit
  <2> QED  BY <2>1 DEF StrToMaybeInt, FoldLeft, MapThenFoldSet
<1>2. \A v \in Nat, c \in 48 .. 57 : Op(v, c) \in Nat
  OBVIOUS
<1>o. \A v, c : Op(v, c) = v + 10 * v + (c - 48)
  OBVIOUS
<1> HIDE DEF n, Op
<1>3. \E g : Solves(g)
  <2> DEFINE Turn == [x \in Nat \X (1 .. n) |-> Op(x[1], L[x[2]])]
  <2>1. Turn \in [Nat \X (1 .. n) -> Nat]
    BY <1>0, <1>2
  <2>s. \A v \in Nat, i \in 1 .. n : Turn[<<v, i>>] = Op(v, L[i])
    OBVIOUS
  <2> HIDE DEF Turn
  <2>2. PICK g \in [SUBSET (1 .. n) -> Nat] : Folds(g, n, 0, Turn)
    BY <1>0, <2>1, FoldExists
  <2>3. ASSUME NEW t \in SUBSET (1 .. n), t # {}
        PROVE  Turn[<<g[t \ {Max(t)}], Max(t)>>] = Op(g[t \ {Max(t)}], L[Max(t)])
    <3>1. g[t \ {Max(t)}] \in Nat /\ Max(t) \in 1 .. n
      BY <1>0, <2>3, MaxOfInterval
    <3> QED  BY <2>s, <3>1
  <2>4. \A t \in SUBSET (1 .. n) :
            g[t] = IF t = {} THEN 0 ELSE Op(g[t \ {Max(t)}], L[Max(t)])
    BY <2>2, <2>3 DEF Folds
  <2>5. Solves(g)
    BY Zenon, <1>0, <2>4
  <2> HIDE DEF Solves
  <2> QED  BY <2>5
<1>4. Solves(G)
  BY Zenon, <1>3
<1> HIDE DEF G
<1> DEFINE r == [i \in 0 .. n |-> G[1 .. i]]
<1>5. r[0] = 0 /\ r[n] = StrToMaybeInt(L)
  BY <1>0, <1>1, <1>4
<1>6. ASSUME NEW i \in 1 .. n  PROVE r[i] = Op(r[i - 1], L[i])
  <2>1. i \in Nat \ {0} /\ 1 .. i \in SUBSET (1 .. n) /\ i - 1 \in 0 .. n
    BY <1>0
  <2>2. 1 .. i # {} /\ Max(1 .. i) = i /\ (1 .. i) \ {Max(1 .. i)} = 1 .. i - 1
    BY <2>1, MaxOfPrefix
  <2>3. G[1 .. i] = Op(G[(1 .. i) \ {Max(1 .. i)}], L[Max(1 .. i)])
    BY <1>0, <1>4, <2>1, <2>2
  <2>4. G[1 .. i] = Op(G[1 .. i - 1], L[i])
    BY <2>2, <2>3
  <2>5. r[i] = G[1 .. i] /\ r[i - 1] = G[1 .. i - 1]
    BY <2>1, <1>0
  <2> HIDE DEF r
  <2> QED  BY Zenon, <2>4, <2>5
<1>7. r \in [0 .. n -> Nat]
  <2> DEFINE P == {i \in 0 .. n : r[i] \in Nat}
  <2>1. 0 \in P
    BY <1>0, <1>5
  <2>2. ASSUME NEW i \in 1 .. n, i - 1 \in P  PROVE i \in P
    <3> HIDE DEF r
    <3>1. r[i - 1] \in Nat /\ L[i] \in 48 .. 57 /\ i \in 0 .. n
      BY <1>0, <2>2
    <3>2. Op(r[i - 1], L[i]) \in Nat
      BY <1>2, <3>1
    <3> QED  BY <1>6, <3>1, <3>2
  <2>3. 0 .. n \subseteq P
    <3> HIDE DEF P
    <3> QED  BY <1>0, <2>1, <2>2, Along
  <2> QED  BY <2>3
<1> HIDE DEF r
<1>8. Counts(r, L)
  BY <1>5, <1>6, <1>7, <1>o DEF Counts, n
<1> QED  BY <1>8

(* A numeral is a position, and one under ten is read as what it is.       *)
LEMMA DigitsCount ==
    /\ \A n \in Nat : StrToMaybeInt(Digits[n]) # -1
    /\ \A k \in 0 .. 9 : StrToMaybeInt(Digits[k]) = k
<1>1. \A n \in Nat : Digits[n] \in Seq(48 .. 57) /\ (n < 10 => Digits[n] = <<48 + n>>)
  BY DigitsAre DEF Numeral
<1>2. ASSUME NEW n \in Nat  PROVE StrToMaybeInt(Digits[n]) # -1
  <2> DEFINE s == Digits[n]
  <2>1. s \in Seq(48 .. 57)
    BY <1>1
  <2> HIDE DEF s
  <2>2. PICK r : Counts(r, s)
    BY <2>1, CountsExist
  <2>3. Len(s) \in 0 .. Len(s)
    BY <2>1
  <2>4. StrToMaybeInt(s) \in Nat
    BY <2>2, <2>3 DEF Counts
  <2> QED  BY <2>4 DEF s
<1>3. ASSUME NEW k \in 0 .. 9  PROVE StrToMaybeInt(Digits[k]) = k
  <2> DEFINE s == Digits[k]
  <2>1. s \in Seq(48 .. 57) /\ s = <<48 + k>>
    BY <1>1
  <2>2. Len(s) = 1 /\ s[1] = 48 + k
    BY <2>1
  <2> HIDE DEF s
  <2>3. PICK r : Counts(r, s)
    BY <2>1, CountsExist
  <2>4. 1 \in 1 .. Len(s) /\ 1 - 1 = 0
    BY <2>2
  <2>5. r[0] = 0 /\ r[1] = r[0] + 10 * r[0] + (s[1] - 48) /\ r[1] = StrToMaybeInt(s)
    BY <2>2, <2>3, <2>4 DEF Counts
  <2>6. r[1] = k
    BY <2>2, <2>5
  <2> QED  BY <2>5, <2>6 DEF s
<1> QED  BY <1>2, <1>3

(* What a segment finds in an item, and that is the item it names, if it   *)
(* names one, or else one at its place.                                    *)
Finds(p, s) ==
    LET f == Follow(heap, p, s)
    IN  /\ f \in DOMAIN heap \union {NULL} /\ Named(p, s) \subseteq {f} /\ NULL \notin Named(p, s)
        /\ f \in {NULL} \union Named(p, s) \union Placed(p, s)

(* A position finds what stands there.                                     *)
LEMMA PlaceFinds ==
    ASSUME HeapOK(heap), MembersRight, NEW p \in DOMAIN heap, NEW k \in 0 .. 9
    PROVE  Finds(p, Digits[k])
<1> DEFINE D == DOMAIN heap  l == List(heap, p)  s == Digits[k]
           f == Follow(heap, p, s)
<1>1. /\ l \in Seq(D) /\ NULL \notin D
      /\ \A n, m \in 1 .. Len(l) : l[n] = l[m] => n = m
  BY ListIn, ListOnce, HeapLinked DEF MembersRight
<1>2. StrToMaybeInt(s) = k /\ k \in Nat /\ p # NULL
  BY <1>1, DigitsCount
<1>3. f = IF k < Len(l) THEN l[k + 1] ELSE NULL
  BY <1>2 DEF Follow, GetArrayItem
<1>4. \A i \in ToSet(l) : Position(p, i) \in Nat /\ (s = Digits[Position(p, i)] <=> Position(p, i) = k)
  BY <1>1, <1>2, PositionIs, DigitsDiffer
<1>5. \A i \in ToSet(l) : /\ i \in D /\ Position(p, i) + 1 \in 1 .. Len(l) /\ l[Position(p, i) + 1] = i
                          /\ \A n \in 1 .. Len(l) : l[n] = i => Position(p, i) + 1 <= n
  BY <1>1, PositionIs DEF ToSet
<1>6. Len(l) \in Nat /\ DOMAIN l = 1 .. Len(l)
  BY <1>1
<1> HIDE DEF l, f, s
<1>7. \A i \in Named(p, s) : i \in ToSet(l) /\ Position(p, i) = k
  <2> TAKE i \in Named(p, s)
  <2>1. StrToMaybeInt(s) # -1
    BY <1>2
  <2>2. i \in ToSet(l) /\ s = Digits[Position(p, i)]
    BY <2>1 DEF Named, l
  <2> QED  BY <1>4, <2>2
<1>8. \A i \in Named(p, s) : i = f /\ i # NULL
  <2> TAKE i \in Named(p, s)
  <2>1. k + 1 \in 1 .. Len(l) /\ l[k + 1] = i /\ i \in D
    BY <1>5, <1>7
  <2>2. k < Len(l)
    BY <1>2, <1>6, <2>1
  <2> QED  BY <1>1, <1>3, <2>1, <2>2
<1>9. ASSUME f # NULL  PROVE f \in D /\ f \in Placed(p, s)
  <2>1. k < Len(l) /\ f = l[k + 1]
    BY <1>3, <1>9
  <2>2. k + 1 \in 1 .. Len(l)
    BY <1>2, <1>6, <2>1
  <2>3. f \in ToSet(l)
    BY <1>6, <2>1, <2>2 DEF ToSet
  <2> DEFINE x == Position(p, f)
  <2>4. x \in Nat /\ l[x + 1] = f /\ x + 1 \in 1 .. Len(l)
    BY <1>4, <1>5, <2>3
  <2> HIDE DEF x
  <2>5. x = k
    <3>1. x + 1 = k + 1
      BY <1>1, <2>1, <2>2, <2>4 DEF l
    <3> QED  BY <1>2, <2>4, <3>1
  <2>6. s = Digits[x]
    BY <2>5 DEF s
  <2> QED  BY <1>5, <2>3, <2>6 DEF Placed, l, x
<1> QED  BY <1>8, <1>9 DEF Finds, f, s

(* A name finds the first member of an object that bears it.               *)
LEMMA NameFinds ==
    ASSUME HeapOK(heap), MembersRight, pc # "name", NEW p \in DOMAIN heap,
           NEW s, StrToMaybeInt(s) = -1
    PROVE  Finds(p, s)
<1> DEFINE D == DOMAIN heap  l == List(heap, p)
           T == {n \in 1 .. Len(l) : heap[l[n]].string \in {s, NoName}}
           stop == IF T # {} THEN Min(T) ELSE 0
           f == Follow(heap, p, s)
           X == IF heap[p].type = "object" THEN Bearers ELSE D \ Bearers
<1>1. l \in Seq(X)
  <2>1. X \subseteq D /\ \A i \in D : i \in Bearers <=> heap[i].string # NoName
    BY DEF Bearers
  <2>2. \A i \in D : {heap[i].next, heap[i].child} \subseteq D \union {NULL}
    BY DEF HeapOK, Cell
  <2>3. At(heap[p].child) \subseteq X
    BY <2>2 DEF MembersRight, At
  <2>4. \A i \in X : At(heap[i].next) \subseteq X
    BY <2>1, <2>2 DEF MembersRight, At
  <2> HIDE DEF X
  <2> QED  BY <2>1, <2>3, <2>4, ListWithin
<1>2. NULL \notin D /\ X \subseteq D /\ \A i \in X : heap[p].type = "object" <=> heap[i].string # NoName
  BY HeapLinked DEF Bearers
<1>3. Len(l) \in Nat /\ DOMAIN l = 1 .. Len(l) /\ \A n \in 1 .. Len(l) : l[n] \in X
  BY <1>1
<1>4. f = IF stop = 0 \/ heap[l[stop]].string = NoName THEN NULL ELSE l[stop]
  <2>1. p # NULL /\ ~(StrToMaybeInt(s) >= 0)
    BY <1>2
  <2>2. f = GetObjectItem(heap, p, s, TRUE)
    BY <2>1 DEF Follow
  <2>3. stop = SelectInSeq(l, LAMBDA i : heap[i].string \in {s, NoName})
    BY DEF SelectInSeq
  <2> HIDE DEF stop, f
  <2> QED  BY <2>2, <2>3 DEF GetObjectItem
<1>5. \A i \in ToSet(l) : /\ i \in X /\ Position(p, i) \in Nat
                          /\ Position(p, i) + 1 \in 1 .. Len(l) /\ l[Position(p, i) + 1] = i
                          /\ \A n \in 1 .. Len(l) : l[n] = i => Position(p, i) + 1 <= n
  BY <1>1, <1>3, PositionIs DEF ToSet
<1> HIDE DEF l, f, X
<1>6. IF T = {} THEN stop = 0 ELSE stop \in T /\ stop \in Nat \ {0} /\ \A n \in T : stop <= n
  <2>1. T \in SUBSET (1 .. Len(l))
    OBVIOUS
  <2> HIDE DEF T
  <2>2. T # {} => Min(T) \in T /\ \A n \in T : Min(T) <= n
    BY <1>3, <2>1, MinOfInterval
  <2>3. \A n \in T : n \in Nat \ {0}
    BY <1>3, <2>1
  <2> QED  BY <2>2, <2>3
<1> HIDE DEF stop
<1>7. CASE heap[p].type # "object"
  <2>1. f = NULL
    <3>1. CASE stop = 0
      BY <1>4, <3>1
    <3>2. CASE stop # 0
      <4>1. stop \in 1 .. Len(l)
        BY <1>6, <3>2
      <4> QED  BY <1>2, <1>3, <1>4, <1>7, <4>1
    <3> QED  BY <3>1, <3>2
  <2>2. Named(p, s) = {}
    <3> SUFFICES ASSUME NEW i \in Named(p, s)  PROVE FALSE
      OBVIOUS
    <3>1. i \in ToSet(l) /\ s = Digits[Position(p, i)]
      BY <1>7 DEF Named, l
    <3>2. Position(p, i) \in Nat
      BY <1>5, <3>1
    <3> QED  BY <3>1, <3>2, DigitsCount
  <2> QED  BY <2>1, <2>2 DEF Finds, f
<1>8. CASE heap[p].type = "object"
  <2>1. \A n \in 1 .. Len(l) : heap[l[n]].string # NoName /\ (n \in T <=> heap[l[n]].string = s)
    BY <1>2, <1>3, <1>8
  <2>2. f = IF stop = 0 THEN NULL ELSE l[stop]
    <3>1. stop # 0 => stop \in 1 .. Len(l)
      BY <1>6
    <3> QED  BY <1>4, <2>1, <3>1
  <2>3. \A i \in Named(p, s) : /\ i \in ToSet(l) /\ heap[i].string = s
                               /\ \A j \in ToSet(l) : heap[j].string = s => Position(p, i) <= Position(p, j)
    BY <1>8 DEF Named, l
  <2>4. \A i \in ToSet(l) : heap[i].string = s => Position(p, i) + 1 \in T
    BY <1>5, <2>1
  <2>5. ASSUME stop # 0
        PROVE  /\ f \in ToSet(l) /\ f \in D /\ heap[f].string = s /\ Position(p, f) + 1 = stop
               /\ \A j \in ToSet(l) : heap[j].string = s => Position(p, f) <= Position(p, j)
    <3>1. stop \in T /\ stop \in 1 .. Len(l) /\ f = l[stop]
      BY <1>6, <2>2, <2>5
    <3>2. f \in ToSet(l) /\ heap[f].string = s
      BY <1>3, <2>1, <3>1 DEF ToSet
    <3>3. \A j \in ToSet(l) : heap[j].string = s => stop <= Position(p, j) + 1
      BY <1>6, <2>4, <3>1
    <3>4. Position(p, f) + 1 = stop
      <4>1. Position(p, f) + 1 <= stop /\ stop <= Position(p, f) + 1 /\ Position(p, f) \in Nat
        BY <1>5, <3>1, <3>2, <3>3
      <4> QED  BY <3>1, <4>1
    <3>5. \A j \in ToSet(l) : heap[j].string = s => Position(p, f) <= Position(p, j)
      BY <1>5, <3>2, <3>3, <3>4
    <3> QED  BY <1>2, <1>5, <3>2, <3>4, <3>5
  <2>6. \A i \in Named(p, s) : i = f /\ i # NULL
    <3> TAKE i \in Named(p, s)
    <3>1. Position(p, i) + 1 \in T
      BY <2>3, <2>4
    <3>2. stop # 0
      BY <1>6, <3>1
    <3>3. Position(p, i) <= Position(p, f) /\ Position(p, f) <= Position(p, i)
      BY <2>3, <2>5, <3>2
    <3>4. Position(p, i) = Position(p, f)
      BY <1>5, <2>3, <2>5, <3>2, <3>3
    <3>5. i = f
      BY <1>5, <2>3, <2>5, <3>2, <3>4
    <3> QED  BY <1>2, <2>5, <3>2, <3>5
  <2>7. stop # 0 => f \in Named(p, s)
    BY <1>8, <2>5 DEF Named, l
  <2> QED  BY <2>2, <2>5, <2>6, <2>7 DEF Finds, f
<1> QED  BY <1>7, <1>8

(* The items on the way along a path.                                      *)
Way(r, L) ==
    /\ r[0] = root /\ r[Len(L)] = GetJsonField(heap, root, L)
    /\ \A i \in 1 .. Len(L) : r[i] = Follow(heap, r[i - 1], L[i])

(* There is a way along every path.                                        *)
LEMMA FieldSteps ==
    ASSUME NEW V, root \in V, NEW L \in Seq(Segments),
           \A v \in V, s \in Segments : Follow(heap, v, s) \in V
    PROVE  \E r : Way(r, L)
<1> DEFINE n         == Len(L)
           Op(v, s)  == Follow(heap, v, s)
           Solves(g) == g = [t \in SUBSET DOMAIN L |->
                                IF t = {} THEN root ELSE Op(g[t \ {Max(t)}], L[Max(t)])]
           G         == CHOOSE g : Solves(g)
<1>0. n \in Nat /\ DOMAIN L = 1 .. n /\ \A i \in 1 .. n : L[i] \in Segments
  BY ElementOfSeq
<1>1. GetJsonField(heap, root, L) = G[DOMAIN L]
  BY DEF GetJsonField, FoldLeft, MapThenFoldSet
<1>2. \A v \in V, s \in Segments : Op(v, s) \in V
  OBVIOUS
<1>o. \A v, s : Op(v, s) = Follow(heap, v, s)
  OBVIOUS
<1> HIDE DEF n, Op
<1>3. \E g : Solves(g)
  <2> DEFINE Turn == [x \in V \X (1 .. n) |-> Op(x[1], L[x[2]])]
  <2>1. Turn \in [V \X (1 .. n) -> V]
    BY <1>0, <1>2
  <2>s. \A v \in V, i \in 1 .. n : Turn[<<v, i>>] = Op(v, L[i])
    OBVIOUS
  <2> HIDE DEF Turn
  <2>2. PICK g \in [SUBSET (1 .. n) -> V] : Folds(g, n, root, Turn)
    BY <1>0, <2>1, FoldExists
  <2>3. ASSUME NEW t \in SUBSET (1 .. n), t # {}
        PROVE  Turn[<<g[t \ {Max(t)}], Max(t)>>] = Op(g[t \ {Max(t)}], L[Max(t)])
    <3>1. g[t \ {Max(t)}] \in V /\ Max(t) \in 1 .. n
      BY <1>0, <2>3, MaxOfInterval
    <3> QED  BY <2>s, <3>1
  <2>4. \A t \in SUBSET (1 .. n) :
            g[t] = IF t = {} THEN root ELSE Op(g[t \ {Max(t)}], L[Max(t)])
    BY <2>2, <2>3 DEF Folds
  <2>5. Solves(g)
    BY Zenon, <1>0, <2>4
  <2> HIDE DEF Solves
  <2> QED  BY <2>5
<1>4. Solves(G)
  BY Zenon, <1>3
<1> HIDE DEF G
<1> DEFINE r == [i \in 0 .. n |-> G[1 .. i]]
<1>5. r[0] = root /\ r[n] = GetJsonField(heap, root, L)
  BY <1>0, <1>1, <1>4
<1>6. ASSUME NEW i \in 1 .. n  PROVE r[i] = Op(r[i - 1], L[i])
  <2>1. i \in Nat \ {0} /\ 1 .. i \in SUBSET (1 .. n) /\ i - 1 \in 0 .. n
    BY <1>0
  <2>2. 1 .. i # {} /\ Max(1 .. i) = i /\ (1 .. i) \ {Max(1 .. i)} = 1 .. i - 1
    BY <2>1, MaxOfPrefix
  <2>3. G[1 .. i] = Op(G[(1 .. i) \ {Max(1 .. i)}], L[Max(1 .. i)])
    BY <1>0, <1>4, <2>1, <2>2
  <2>4. G[1 .. i] = Op(G[1 .. i - 1], L[i])
    BY <2>2, <2>3
  <2>5. r[i] = G[1 .. i] /\ r[i - 1] = G[1 .. i - 1]
    BY <2>1, <1>0
  <2> HIDE DEF r
  <2> QED  BY Zenon, <2>4, <2>5
<1> HIDE DEF r
<1> QED  BY <1>5, <1>6, <1>o DEF Way, n

(* The items that the beginnings of a path name.                           *)
Ways(r, L, placed) ==
    /\ r[0] = {root} /\ r[Len(L)] = Reached(L, placed)
    /\ \A i \in 1 .. Len(L) : r[i] = Beyond(r[i - 1], L[i], placed)

(* They exist for every path.                                              *)
LEMMA ReachedSteps ==
    ASSUME NEW V, {root} \in V, NEW L \in Seq(Segments), NEW placed \in BOOLEAN,
           \A v \in V, s \in Segments : Beyond(v, s, placed) \in V
    PROVE  \E r : Ways(r, L, placed)
<1> DEFINE n         == Len(L)
           Op(v, s)  == Beyond(v, s, placed)
           Solves(g) == g = [t \in SUBSET DOMAIN L |->
                                IF t = {} THEN {root} ELSE Op(g[t \ {Max(t)}], L[Max(t)])]
           G         == CHOOSE g : Solves(g)
<1>0. n \in Nat /\ DOMAIN L = 1 .. n /\ \A i \in 1 .. n : L[i] \in Segments
  BY ElementOfSeq
<1>1. Reached(L, placed) = G[DOMAIN L]
  BY DEF Reached, FoldLeft, MapThenFoldSet
<1>2. \A v \in V, s \in Segments : Op(v, s) \in V
  OBVIOUS
<1>o. \A v, s : Op(v, s) = Beyond(v, s, placed)
  OBVIOUS
<1> HIDE DEF n, Op
<1>3. \E g : Solves(g)
  <2> DEFINE Turn == [x \in V \X (1 .. n) |-> Op(x[1], L[x[2]])]
  <2>1. Turn \in [V \X (1 .. n) -> V]
    BY <1>0, <1>2
  <2>s. \A v \in V, i \in 1 .. n : Turn[<<v, i>>] = Op(v, L[i])
    OBVIOUS
  <2> HIDE DEF Turn
  <2>2. PICK g \in [SUBSET (1 .. n) -> V] : Folds(g, n, {root}, Turn)
    BY <1>0, <2>1, FoldExists
  <2>3. ASSUME NEW t \in SUBSET (1 .. n), t # {}
        PROVE  Turn[<<g[t \ {Max(t)}], Max(t)>>] = Op(g[t \ {Max(t)}], L[Max(t)])
    <3>1. g[t \ {Max(t)}] \in V /\ Max(t) \in 1 .. n
      BY <1>0, <2>3, MaxOfInterval
    <3> QED  BY <2>s, <3>1
  <2>4. \A t \in SUBSET (1 .. n) :
            g[t] = IF t = {} THEN {root} ELSE Op(g[t \ {Max(t)}], L[Max(t)])
    BY <2>2, <2>3 DEF Folds
  <2>5. Solves(g)
    BY Zenon, <1>0, <2>4
  <2> HIDE DEF Solves
  <2> QED  BY <2>5
<1>4. Solves(G)
  BY Zenon, <1>3
<1> HIDE DEF G
<1> DEFINE r == [i \in 0 .. n |-> G[1 .. i]]
<1>5. r[0] = {root} /\ r[n] = Reached(L, placed)
  BY <1>0, <1>1, <1>4
<1>6. ASSUME NEW i \in 1 .. n  PROVE r[i] = Op(r[i - 1], L[i])
  <2>1. i \in Nat \ {0} /\ 1 .. i \in SUBSET (1 .. n) /\ i - 1 \in 0 .. n
    BY <1>0
  <2>2. 1 .. i # {} /\ Max(1 .. i) = i /\ (1 .. i) \ {Max(1 .. i)} = 1 .. i - 1
    BY <2>1, MaxOfPrefix
  <2>3. G[1 .. i] = Op(G[(1 .. i) \ {Max(1 .. i)}], L[Max(1 .. i)])
    BY <1>0, <1>4, <2>1, <2>2
  <2>4. G[1 .. i] = Op(G[1 .. i - 1], L[i])
    BY <2>2, <2>3
  <2>5. r[i] = G[1 .. i] /\ r[i - 1] = G[1 .. i - 1]
    BY <2>1, <1>0
  <2> HIDE DEF r
  <2> QED  BY Zenon, <2>4, <2>5
<1> HIDE DEF r
<1> QED  BY <1>5, <1>6, <1>o DEF Ways, n

(* A path finds the item it names, and no other item if it names one.      *)
LEMMA PathFinds ==
    ASSUME HeapOK(heap), MembersRight, pc # "name", root \in DOMAIN heap,
           NEW path \in Seq(Segments)
    PROVE  LET found == GetJsonField(heap, root, path)
               named == Reached(path, FALSE)
           IN  IF named # {} THEN found \in named
               ELSE found \in {NULL} \union Reached(path, TRUE)
<1> DEFINE D == DOMAIN heap  k == Len(path)
<1>1. NULL \notin D /\ k \in Nat /\ \A n \in 1 .. k : path[n] \in Segments
  BY HeapLinked
<1>2. \A p \in D, s \in Segments : Finds(p, s)
  <2> TAKE p \in D, s \in Segments
  <2>1. StrToMaybeInt(s) = -1 \/ \E i \in 0 .. 9 : s = Digits[i]
    BY DEF Segments
  <2> QED  BY <2>1, PlaceFinds, NameFinds
<1>3. \A s : Follow(heap, NULL, s) = NULL
  BY DEF Follow
<1>4. \A v \in D \union {NULL}, s \in Segments : Follow(heap, v, s) \in D \union {NULL}
  BY <1>2, <1>3 DEF Finds
<1>5. PICK r : Way(r, path)
  <2> DEFINE V == D \union {NULL}
  <2>1. root \in V /\ \A v \in V, s \in Segments : Follow(heap, v, s) \in V
    BY <1>4
  <2> HIDE DEF V
  <2> QED  BY <2>1, FieldSteps
<1>6. \A p, s : Named(p, s) \subseteq ToSet(List(heap, p)) /\ Placed(p, s) \subseteq ToSet(List(heap, p))
  BY DEF Named, Placed
<1>7. \A S \in SUBSET D : \A s : \A placed \in BOOLEAN : Beyond(S, s, placed) \in SUBSET D
  <2>1. \A p \in D : ToSet(List(heap, p)) \subseteq D
    <3> TAKE p \in D
    <3> DEFINE l == List(heap, p)
    <3>1. l \in Seq(D)
      BY ListIn
    <3> HIDE DEF l, D
    <3> QED  BY <3>1 DEF ToSet, l
  <2> HIDE DEF D
  <2> QED  BY <1>6, <2>1 DEF Beyond
<1>8. ASSUME NEW placed \in BOOLEAN
      PROVE  \E q : Ways(q, path, placed)
  <2> DEFINE V == SUBSET D
  <2>1. {root} \in V /\ \A v \in V, s \in Segments : Beyond(v, s, placed) \in V
    BY <1>7
  <2> HIDE DEF V
  <2> QED  BY <2>1, ReachedSteps
<1>9. PICK q : Ways(q, path, FALSE)
  BY <1>8
<1>10. PICK t : Ways(t, path, TRUE)
  BY <1>8
<1>w. /\ r[0] = root /\ r[k] = GetJsonField(heap, root, path)
      /\ q[0] = {root} /\ q[k] = Reached(path, FALSE)
      /\ t[0] = {root} /\ t[k] = Reached(path, TRUE)
      /\ \A i \in 1 .. k : /\ r[i] = Follow(heap, r[i - 1], path[i])
                           /\ q[i] = Beyond(q[i - 1], path[i], FALSE)
                           /\ t[i] = Beyond(t[i - 1], path[i], TRUE)
  BY <1>5, <1>9, <1>10 DEF Way, Ways
<1> HIDE DEF D, k
<1> DEFINE P == {i \in 0 .. k : /\ r[i] \in D \union {NULL}
                               /\ q[i] \subseteq {r[i]} /\ NULL \notin q[i]
                               /\ r[i] \in {NULL} \union t[i]}
<1>11. 0 \in P
  BY <1>1, <1>w DEF D
<1>12. ASSUME NEW i \in 1 .. k, i - 1 \in P  PROVE i \in P
  <2> DEFINE x == r[i - 1]  y == r[i]  s == path[i]
  <2>1. /\ x \in D \union {NULL} /\ q[i - 1] \subseteq {x} /\ NULL \notin q[i - 1]
        /\ x \in {NULL} \union t[i - 1]
    BY <1>12
  <2>2. i \in 0 .. k /\ y = Follow(heap, x, s) /\ s \in Segments
    <3>1. i \in 0 .. k /\ s \in Segments
      BY <1>1
    <3>2. y = Follow(heap, x, s)
      BY <1>w
    <3> QED  BY <3>1, <3>2
  <2>3. q[i] = Beyond(q[i - 1], s, FALSE) /\ t[i] = Beyond(t[i - 1], s, TRUE)
    BY <1>w
  <2> DEFINE Q == q[i - 1]  T == t[i - 1]  q1 == q[i]  t1 == t[i]
  <2>4. x \in D => Finds(x, s)
    BY <1>2, <2>2 DEF D
  <2>5. q1 = UNION {Named(p, s) : p \in Q} /\ t1 = UNION {Named(p, s) \union Placed(p, s) : p \in T}
    BY <2>3 DEF Beyond
  <2>6. Q \subseteq {x} /\ NULL \notin Q /\ x \in {NULL} \union T /\ x \in D \union {NULL}
    BY <2>1
  <2> HIDE DEF x, y, s, Q, T, q1, t1
  <2>7. y \in D \union {NULL} /\ q1 \subseteq {y} /\ NULL \notin q1 /\ y \in {NULL} \union t1
    <3>1. CASE x = NULL
      <4>1. Q = {} /\ y = NULL
        BY <1>3, <2>2, <2>6, <3>1
      <4> QED  BY <2>5, <4>1
    <3>2. CASE x # NULL
      <4>1. /\ y \in D \union {NULL} /\ Named(x, s) \subseteq {y} /\ NULL \notin Named(x, s)
            /\ y \in {NULL} \union Named(x, s) \union Placed(x, s) /\ x \in T
        BY <2>2, <2>4, <2>6, <3>2 DEF Finds, D
      <4>2. q1 \subseteq Named(x, s) /\ Named(x, s) \union Placed(x, s) \subseteq t1
        BY <2>5, <2>6, <4>1
      <4> QED  BY <4>1, <4>2
    <3> QED  BY <3>1, <3>2
  <2> QED  BY <2>2, <2>7 DEF x, y, q1, t1
<1>13. k \in P
  <2> HIDE DEF P
  <2>1. 0 .. k \subseteq P
    BY <1>1, <1>11, <1>12, Along DEF k
  <2> QED  BY <1>1, <2>1 DEF k
<1> QED  BY <1>w, <1>13

(* A path of names and of positions finds the item that it names, and no   *)
(* other, in every document: the members of objects have names and those   *)
(* of arrays have none, so that the search for a name ends where it should.*)
THEOREM PathsAlwaysFind == DocSpec => []PathsFindTheirItems
<1> DEFINE Right == DocRight /\ MembersRight
<1>1. DocInit => Right
  BY DocRightInit, MembersInit
<1>2. Right /\ [DocNext]_doc_vars => Right'
  <2> SUFFICES ASSUME Right, [DocNext]_doc_vars  PROVE Right'
    OBVIOUS
  <2>1. DocRight'
    BY DocRightStep
  <2> QED  BY <2>1, MembersStep DEF DocRight
<1>3. Right => PathsFindTheirItems
  <2> SUFFICES ASSUME Right, pc = "done", root # NULL, NEW path \in Paths
               PROVE  LET found == GetJsonField(heap, root, path)
                          named == Reached(path, FALSE)
                      IN  IF named # {} THEN found \in named
                          ELSE found \in {NULL} \union Reached(path, TRUE)
    BY DEF PathsFindTheirItems
  <2>1. HeapOK(heap) /\ Shape(heap, stack, root) /\ stack = << >>
    BY DEF DocRight, MemoryRight, Outside, Shape
  <2>2. root \in DOMAIN heap
    <3>1. 0 \in 0 .. Len(stack)
      BY <2>1
    <3> QED  BY <2>1, <3>1 DEF Shape, First, At
  <2>3. path \in Seq(Segments)
    <3> DEFINE S == Segments
    <3>1. (\E a \in S : path = <<a>>) \/ (\E a, b \in S : path = <<a, b>>)
      BY DEF Paths
    <3> HIDE DEF S
    <3>2. CASE \E a \in S : path = <<a>>
      <4>1. PICK a \in S : path = <<a>>
        BY <3>2
      <4>2. <<a>> \in Seq(S)
        OBVIOUS
      <4> QED  BY <4>1, <4>2 DEF S
    <3>3. CASE \E a, b \in S : path = <<a, b>>
      <4>1. PICK a \in S, b \in S : path = <<a, b>>
        BY <3>3
      <4>2. <<a, b>> \in Seq(S)
        OBVIOUS
      <4> QED  BY <4>1, <4>2 DEF S
    <3> QED  BY <3>1, <3>2, <3>3
  <2> HIDE DEF Right
  <2> QED  BY <2>1, <2>2, <2>3, PathFinds DEF Right
<1> QED  BY <1>1, <1>2, <1>3, PTL DEF DocSpec
=============================================================================
