-------------------------- MODULE ForeignScanProofs --------------------------
(***************************************************************************)
(* Theorems about ForeignScan, for every plan, every server and any number *)
(* of scans: handles are owned, rows are of the question asked, EXPLAIN is *)
(* silent, no row is missed, and the scan implements ResultStream.         *)
(*                                                                         *)
(* ScanInv is about the handles and the question, Keeps about the answer.  *)
(* What the conditions evaluate to is a fold (Found), whose steps are the  *)
(* quals in their order.                                                   *)
(***************************************************************************)
EXTENDS ForeignScan, ListTheorems, FiniteSetTheorems

(* What reaches the scan of a list of conditions is the qual of each one   *)
(* that has a column of the table on a side, once with the column on the   *)
(* left, and nothing else on that side: none is lost and none made up.     *)
THEOREM QualsExtracted ==
    ASSUME NEW V, NEW conds \in Seq(V), NEW rels
    PROVE  /\ ExtractRestrictions(conds, rels) \in Seq(QualsOf(conds, rels))
           /\ Range(ExtractRestrictions(conds, rels)) = QualsOf(conds, rels)
<1> DEFINE S  == Pushed(conds, rels)
           of == [e \in S |-> CanonicalOpExpr(e, rels)]
<1>1. S \in SUBSET Range(conds) /\ ToSet(conds) = Range(conds)
  BY DEF Pushed, ToSet, Range
<1>2. OfSome(conds, S, of) = [e \in ToSet(conds) |->
          IF e.tag = "OpExpr" THEN ExtractClauseFromOpExpr(e, rels) ELSE << >>]
  <2>1. \A e \in ToSet(conds) :
           (IF e \in S THEN <<of[e]>> ELSE << >>)
               = IF e.tag = "OpExpr" THEN ExtractClauseFromOpExpr(e, rels) ELSE << >>
    BY DEF Pushed, ExtractClauseFromOpExpr
  <2> HIDE DEF S, of
  <2> QED  BY <1>1, <2>1 DEF OfSome
<1>3. ExtractRestrictions(conds, rels) = Collect(conds, OfSome(conds, S, of))
  BY <1>2 DEF ExtractRestrictions
<1>4. QualsOf(conds, rels) = {of[e] : e \in S}
  BY DEF QualsOf
<1> HIDE DEF S, of
<1> DEFINE all == Collect(conds, OfSome(conds, S, of))
<1>5. all \in Seq({of[e] : e \in S}) /\ Range(all) = {of[e] : e \in S}
  BY <1>1, CollectOfSome
<1> HIDE DEF all
<1> QED  BY <1>3, <1>4, <1>5 DEF all
-----------------------------------------------------------------------------
(* The state of the scan and the heap are records, lost is a number, the   *)
(* rows are a sequence.                                                    *)
Shapes ==
    /\ DOMAIN scan = DOMAIN NoScan
    /\ DOMAIN heap = DOMAIN NoHeap /\ heap = [k \in DOMAIN heap |-> heap[k]]
    /\ heap.apis \in Int
    /\ lost \in Int
    /\ rows \in Seq(Range(rows))

(* Without a statement no handle belongs to the scan.                      *)
CountsRight ==
    /\ phase = "none" => scan = NoScan
    /\ HandlesOwned

(* A request is sent for a question, before the first row, and not for     *)
(* EXPLAIN.                                                                *)
QuestionRight ==
    /\ phase = "submitting" =>
          /\ explain = FALSE
          /\ scan.qual_value \notin {NoText, Junk}
          /\ scan.cursor = 0
          /\ rows = << >>
    /\ RowsAreOfTheQuestion

ScanInv == Shapes /\ CountsRight /\ QuestionRight
-----------------------------------------------------------------------------
(* The empty list is a list of its own elements.                           *)
LEMMA EmptyRows == << >> \in Seq(Range(<< >>))
  OBVIOUS

(* The invariant of the scan holds at first.                               *)
LEMMA Initially == Init => ScanInv
  BY EmptyRows DEF Init, ScanInv, Shapes, CountsRight, QuestionRight, HandlesOwned,
         RowsAreOfTheQuestion, NoScan, NoHeap, NotAsked

(* Beginning a scan, when only the given number of handles is open that no *)
(* statement owns.                                                         *)
LEMMA BeginStep ==
    ASSUME ScanInv, NEW flag \in BOOLEAN, NEW params, NEW open, open = lost,
           BeginForeignScan(flag, params, open)
    PROVE  ScanInv'
<1> PICK found \in Found(plan, params) :
        LET request == Requests(flag, found.q)
        IN  /\ scan' = [NoScan EXCEPT !.qual_value = found.q,
                                      !.min_confidence = found.c,
                                      !.api = request]
            /\ heap' = [heap EXCEPT !.apis = open + IF request THEN 1 ELSE 0]
            /\ phase' = IF found.q = Junk THEN "crashed"
                        ELSE IF request THEN "submitting" ELSE "open"
  BY DEF BeginForeignScan
<1> DEFINE request == Requests(flag, found.q)
<1>1. rows' = << >> /\ lost' = lost /\ lost \in Int /\ explain' = flag
  BY DEF BeginForeignScan, ScanInv, Shapes
<1>2. DOMAIN scan' = DOMAIN NoScan /\ scan'.api = request /\ scan'.cursor = 0
      /\ scan'.qual_value = found.q
  BY DEF NoScan
<1>3. /\ DOMAIN heap' = DOMAIN NoHeap /\ heap' = [k \in DOMAIN heap' |-> heap'[k]]
      /\ heap'.apis = lost + IF request THEN 1 ELSE 0
  BY DEF ScanInv, Shapes, NoHeap
<1>4. phase' = "submitting" => request
  OBVIOUS
<1>5. phase' # "none"
  OBVIOUS
<1>6. request \in BOOLEAN /\ (request => found.q \notin {NoText, Junk} /\ flag = FALSE)
  BY DEF Requests
<1>7. Shapes'
  BY <1>1, <1>2, <1>3, EmptyRows DEF Shapes
<1>8. CountsRight'
  BY <1>1, <1>2, <1>3, <1>5 DEF CountsRight, HandlesOwned
<1>9. QuestionRight'
  BY <1>1, <1>2, <1>4, <1>6 DEF QuestionRight, RowsAreOfTheQuestion
<1> QED  BY <1>7, <1>8, <1>9 DEF ScanInv

(* A scan that the executor forgets leaves its handle to no one.           *)
LEMMA ForgetStep ==
    ASSUME Forget, DOMAIN heap' = DOMAIN NoHeap, heap' = [k \in DOMAIN heap' |-> heap'[k]],
           NEW n \in Int, heap'.apis = n, lost' = n
    PROVE  ScanInv'
<1>1. scan' = NoScan /\ phase' = "none" /\ rows' = << >>
  BY DEF Forget
<1>2. Shapes'
  BY <1>1, EmptyRows DEF Shapes
<1>3. CountsRight'
  <2>1. scan'.api = FALSE
    BY <1>1 DEF NoScan
  <2> QED  BY <1>1, <2>1 DEF CountsRight, HandlesOwned
<1>4. QuestionRight'
  BY <1>1 DEF QuestionRight, RowsAreOfTheQuestion, NoScan
<1> QED  BY <1>2, <1>3, <1>4 DEF ScanInv

(* An answer arrives, or the request fails.                                *)
LEMMA RespondStep ==
    ASSUME ScanInv, NEW reply, Respond(reply)
    PROVE  ScanInv'
<1> DEFINE response == DoRequest(reply)
           new      == Allocated(reply)
           ok       == Succeeds(reply) /\ OcgeoResponseOk(response)
<1>1. /\ phase = "submitting" /\ rows = << >> /\ rows' = rows /\ lost' = lost
      /\ scan.cursor = 0 /\ scan.qual_value # NoText
  BY DEF ScanInv, QuestionRight, Respond
<1>2. CASE Succeeds(reply) /\ Aborts(reply)
  <2>1. phase' = "crashed" /\ scan' = scan /\ heap' = heap /\ asked' = asked
    BY <1>2 DEF Respond
  <2> QED  BY <1>1, <2>1, EmptyRows DEF ScanInv, Shapes, CountsRight, QuestionRight,
             HandlesOwned, RowsAreOfTheQuestion
<1>3. CASE ~(Succeeds(reply) /\ Aborts(reply))
  <2>1. /\ phase' = "open"
        /\ scan' = [scan EXCEPT !.response = response,
                                !.cursor = IF ok THEN response.head ELSE 0]
        /\ heap' = [k \in DOMAIN heap |->
                       IF k \in DOMAIN new THEN heap[k] + new[k] ELSE heap[k]]
        /\ asked' = [q |-> scan.qual_value, granted |-> ok]
    BY <1>3 DEF Respond
  <2>2. "apis" \notin DOMAIN new
    BY DEF Allocated
  <2>3. /\ DOMAIN heap' = DOMAIN NoHeap /\ heap' = [k \in DOMAIN heap' |-> heap'[k]]
        /\ heap'.apis = heap.apis
    BY <2>1, <2>2 DEF ScanInv, Shapes, NoHeap
  <2>4. DOMAIN scan' = DOMAIN NoScan /\ scan'.api = scan.api
        /\ scan'.qual_value = scan.qual_value
    BY <2>1 DEF ScanInv, Shapes, NoScan
  <2>5. asked'.q = scan.qual_value
    BY <2>1
  <2>6. Shapes'
    BY <1>1, <2>3, <2>4, EmptyRows DEF ScanInv, Shapes
  <2>7. CountsRight'
    BY <1>1, <2>1, <2>3, <2>4 DEF ScanInv, CountsRight, HandlesOwned
  <2>8. QuestionRight'
    BY <1>1, <2>1, <2>4, <2>5 DEF QuestionRight, RowsAreOfTheQuestion
  <2> QED  BY <2>6, <2>7, <2>8 DEF ScanInv
<1> QED  BY <1>2, <1>3

(* A row is returned.                                                      *)
LEMMA IterateStep == ScanInv /\ Iterate => ScanInv'
<1> SUFFICES ASSUME ScanInv, Iterate  PROVE ScanInv'
  OBVIOUS
<1> DEFINE result == scan.response.cells[scan.cursor]
           row    == Row(scan.qual_value, result.internal)
<1>1. /\ phase = "open" /\ phase' = phase /\ scan.cursor # 0
      /\ rows' = Append(rows, row)
      /\ scan' = [scan EXCEPT !.cursor = result.next]
      /\ heap' = heap /\ lost' = lost /\ asked' = asked
  BY DEF Iterate, Fetchable
<1>2. rows \in Seq(Range(rows)) /\ scan.qual_value = asked.q /\ asked.q # NoText
  BY <1>1 DEF ScanInv, Shapes, QuestionRight, RowsAreOfTheQuestion
<1>3. rows' \in Seq(Range(rows) \union {row})
  BY <1>1, <1>2
<1>4. /\ DOMAIN rows' = 1 .. Len(rows) + 1 /\ Len(rows) \in Nat /\ DOMAIN rows = 1 .. Len(rows)
      /\ \A i \in DOMAIN rows : rows'[i] = rows[i]
      /\ rows'[Len(rows) + 1] = row
  BY <1>1, <1>2
<1>5. rows' \in Seq(Range(rows'))
  BY <1>3 DEF Range
<1>6. row.q = asked.q
  BY <1>2 DEF Row
<1>7. \A i \in DOMAIN rows' : rows'[i].q = asked.q
  BY <1>4, <1>6 DEF ScanInv, QuestionRight, RowsAreOfTheQuestion
<1>8. DOMAIN scan' = DOMAIN NoScan /\ scan'.qual_value = scan.qual_value /\ scan'.api = scan.api
  BY <1>1 DEF ScanInv, Shapes, NoScan
<1>9. Shapes'
  BY <1>1, <1>5, <1>8 DEF ScanInv, Shapes
<1>10. CountsRight'
  BY <1>1, <1>8 DEF ScanInv, CountsRight, HandlesOwned
<1>11. QuestionRight'
  BY <1>1, <1>2, <1>7, <1>8 DEF QuestionRight, RowsAreOfTheQuestion
<1> QED  BY <1>9, <1>10, <1>11 DEF ScanInv

(* Every step keeps the invariant of the scan.                             *)
LEMMA Inductive == ScanInv /\ [Next]_vars => ScanInv'
<1> SUFFICES ASSUME ScanInv, [Next]_vars  PROVE ScanInv'
  OBVIOUS
<1> USE DEF ScanInv, Shapes, CountsRight, HandlesOwned
<1>1. ASSUME NEW flag \in BOOLEAN, NEW params \in Bindings, Start(flag, params)
      PROVE  ScanInv'
  <2>1. heap.apis = lost
    BY <1>1 DEF Start, NoScan
  <2> QED  BY <1>1, <2>1, BeginStep DEF Start
<1>2. ASSUME NEW params \in Bindings, ReScan(params)
      PROVE  ScanInv'
  <2>1. Open = lost
    BY DEF Open
  <2> QED  BY <1>2, <2>1, BeginStep DEF ReScan
<1>3. ASSUME NEW reply, Respond(reply)
      PROVE  ScanInv'
  BY <1>3, RespondStep
<1>4. CASE Iterate
  BY <1>4, IterateStep
<1>5. CASE IterateEnd
  BY <1>5 DEF IterateEnd, Fetchable, QuestionRight, RowsAreOfTheQuestion
<1>6. CASE End
  <2>1. /\ Forget
        /\ DOMAIN heap' = DOMAIN NoHeap /\ heap' = [k \in DOMAIN heap' |-> heap'[k]]
        /\ heap'.apis = Open /\ lost' = lost
    BY <1>6 DEF End, NoHeap
  <2> QED  BY <2>1, ForgetStep DEF Open
<1>7. CASE Fail
  <2>1. Forget /\ heap' = heap /\ lost' = lost + IF scan.api THEN 1 ELSE 0
    BY <1>7 DEF Fail
  <2> QED  BY <2>1, ForgetStep
<1>8. CASE Reconnect
  <2>1. Forget /\ heap' = NoHeap /\ lost' = 0
    BY <1>8 DEF Reconnect
  <2> QED  BY <2>1, ForgetStep DEF NoHeap
<1>9. CASE UNCHANGED vars
  BY <1>9 DEF vars, QuestionRight, RowsAreOfTheQuestion
<1> QED  BY <1>1, <1>2, <1>3, <1>4, <1>5, <1>6, <1>7, <1>8, <1>9 DEF Next

(* The invariant of the scan holds always.                                 *)
LEMMA Invariant == Spec => []ScanInv
  BY Initially, Inductive, PTL DEF Spec

(* Whatever happens, a handle that is open is the scan's or that of a      *)
(* statement that failed.                                                  *)
THEOREM NoHandleLost == Spec => []HandlesOwned
<1>1. ScanInv => HandlesOwned
  BY DEF ScanInv, CountsRight
<1> QED  BY <1>1, Invariant, PTL

(* No row is of any question but the one asked since the scan was last     *)
(* (re)started.                                                            *)
THEOREM RowsAnswerTheQuestion == Spec => []RowsAreOfTheQuestion
<1>1. ScanInv => RowsAreOfTheQuestion
  BY DEF ScanInv, QuestionRight
<1> QED  BY <1>1, Invariant, PTL

(* EXPLAIN takes no step but the one that begins it, where the condition   *)
(* that guards the request is false.                                       *)
LEMMA ExplainStep ==
    ScanInv /\ [Next]_vars => [explain' => heap' = heap /\ asked' = NotAsked]_vars
<1> SUFFICES ASSUME ScanInv, Next, explain'
             PROVE  heap' = heap /\ asked' = NotAsked
  OBVIOUS
<1>1. ASSUME NEW flag \in BOOLEAN, NEW params \in Bindings, Start(flag, params)
      PROVE  heap' = heap /\ asked' = NotAsked
  <2>1. explain' = flag /\ asked' = NotAsked
    BY <1>1 DEF Start, BeginForeignScan
  <2>2. PICK found \in Found(plan, params) :
            heap' = [heap EXCEPT !.apis = heap.apis + IF Requests(flag, found.q) THEN 1 ELSE 0]
    BY <1>1 DEF Start, BeginForeignScan
  <2>3. Requests(flag, found.q) = FALSE
    BY <2>1 DEF Requests
  <2>4. heap' = [heap EXCEPT !.apis = heap.apis]
    BY <2>2, <2>3 DEF ScanInv, Shapes
  <2>5. [heap EXCEPT !.apis = heap.apis] = [k \in DOMAIN heap |-> heap[k]]
    OBVIOUS
  <2> QED  BY <2>1, <2>4, <2>5 DEF ScanInv, Shapes
<1>2. ASSUME NEW params \in Bindings, ReScan(params)
      PROVE  FALSE
  BY <1>2 DEF ReScan, BeginForeignScan
<1>3. ASSUME NEW reply, Respond(reply)
      PROVE  FALSE
  BY <1>3 DEF Respond, ScanInv, QuestionRight
<1>4. CASE Iterate \/ IterateEnd
  BY <1>4 DEF Iterate, IterateEnd, Fetchable
<1>5. CASE End \/ Fail \/ Reconnect
  BY <1>5 DEF End, Fail, Reconnect, Forget
<1> QED  BY <1>1, <1>2, <1>3, <1>4, <1>5 DEF Next

(* EXPLAIN without ANALYZE sends no request and opens no handle.           *)
THEOREM ExplainAsksNothing == Spec => ExplainIsSilent
<1> QED  BY Invariant, ExplainStep, PTL DEF Spec, ExplainIsSilent
-----------------------------------------------------------------------------
(* Every Datum that evaluating some quals may leave behind, and everything *)
(* that they may find.                                                     *)
Leavings(quals, params) ==
    {Unset, Junk} \union UNION {Datums(qual.right, params, Unset) : qual \in Range(quals)}

Finds(quals, params) ==
    [q : Text \union {NoText, Junk}, c : MinConfidences, last : Leavings(quals, params)]

(* One step of Found.                                                      *)
TryEach(S, qual, params) == UNION {Try(found, qual, params) : found \in S}
Nothing == [q |-> NoText, c |-> 0, last |-> Junk]

(* Using one qual adds the question that its value asks.                   *)
LEMMA TryStep ==
    ASSUME NEW quals, NEW params, NEW qual \in Range(quals),
           NEW found \in Finds(quals, params), NEW x \in Try(found, qual, params)
    PROVE  /\ x \in Finds(quals, params)
           /\ \E v \in Datums(qual.right, params, found.last) :
              \E int \in JunkInts :
                 LET used == Use(found, qual, v, int) IN x.q = used.q /\ x.c = used.c
<1> DEFINE L == Leavings(quals, params)
<1>1. PICK v \in Datums(qual.right, params, found.last), int \in JunkInts :
         x = [Use(found, qual, v, int) EXCEPT !.last = IF v = Null THEN Unset ELSE v]
  BY DEF Try
<1>2. /\ found = [q |-> found.q, c |-> found.c, last |-> found.last]
      /\ found.q \in Text \union {NoText, Junk} /\ found.c \in MinConfidences
      /\ found.last \in L
  BY DEF Finds
<1>3. v \in L
  <2>1. Unset \in L /\ Junk \in L
    BY DEF Leavings
  <2>2. Datums(qual.right, params, Unset) \subseteq L
    BY DEF Leavings
  <2>3. v \in Datums(qual.right, params, Unset) \union {found.last}
    BY DEF Datums
  <2> QED  BY <1>2, <2>2, <2>3
<1>4. Unset \in L
  BY DEF Leavings
<1> HIDE DEF L
<1>5. Use(found, qual, v, int) \in [q : Text \union {NoText, Junk}, c : MinConfidences, last : L]
  BY <1>2 DEF Use, MinConfidences
<1>6. /\ x \in [q : Text \union {NoText, Junk}, c : MinConfidences, last : L]
      /\ x.q = Use(found, qual, v, int).q /\ x.c = Use(found, qual, v, int).c
  BY <1>1, <1>3, <1>4, <1>5
<1> QED  BY <1>6 DEF Finds, L

(* The loop over the quals, one qual after another.                        *)
LEMMA FoundSteps ==
    ASSUME NEW V, NEW conds \in Seq(V), NEW params
    PROVE  LET quals == ExtractRestrictions(conds, Rels)
           IN  \E h : /\ h[0] = {Nothing}
                      /\ \A i \in 1 .. Len(quals) : h[i] = TryEach(h[i - 1], quals[i], params)
                      /\ h[Len(quals)] = Found(conds, params)
<1> DEFINE quals == ExtractRestrictions(conds, Rels)
           n     == Len(quals)
           F     == Finds(quals, params)
           Solves(g) == g = [t \in SUBSET DOMAIN quals |->
                                IF t = {} THEN {Nothing}
                                ELSE TryEach(g[t \ {Max(t)}], quals[Max(t)], params)]
           G         == CHOOSE g : Solves(g)
<1>1. n \in Nat /\ DOMAIN quals = 1 .. n /\ \A i \in 1 .. n : quals[i] \in Range(quals)
  <2>1. quals \in Seq(QualsOf(conds, Rels))
    BY QualsExtracted
  <2> HIDE DEF quals
  <2> QED  BY <2>1 DEF Range
<1>2. Found(conds, params) = G[DOMAIN quals]
  BY DEF Found, FoldLeft, MapThenFoldSet, TryEach, Nothing
<1> HIDE DEF n, quals
<1>3. \E g : Solves(g)
  <2> DEFINE W == SUBSET F
             Step == [x \in W \X (1 .. n) |-> TryEach(x[1], quals[x[2]], params)]
  <2>1. Step \in [W \X (1 .. n) -> W] /\ {Nothing} \in W
    <3>1. ASSUME NEW S \in SUBSET F, NEW i \in 1 .. n
          PROVE  TryEach(S, quals[i], params) \in SUBSET F
      <4>1. quals[i] \in Range(quals)
        BY <1>1
      <4> QED  BY <4>1, TryStep DEF TryEach
    <3>2. Nothing \in F
      BY DEF Nothing, Finds, Leavings, MinConfidences
    <3> HIDE DEF F
    <3> QED  BY <3>1, <3>2
  <2> HIDE DEF Step, W
  <2>2. PICK g \in [SUBSET (1 .. n) -> W] : Folds(g, n, {Nothing}, Step)
    BY <1>1, <2>1, FoldExists
  <2>3. ASSUME NEW t \in SUBSET (1 .. n), t # {}
        PROVE  Step[<<g[t \ {Max(t)}], Max(t)>>] = TryEach(g[t \ {Max(t)}], quals[Max(t)], params)
    <3>1. g[t \ {Max(t)}] \in W /\ Max(t) \in 1 .. n
      BY <1>1, <2>3, MaxOfInterval
    <3> QED  BY <3>1 DEF Step
  <2>4. \A t \in SUBSET (1 .. n) :
            g[t] = IF t = {} THEN {Nothing} ELSE TryEach(g[t \ {Max(t)}], quals[Max(t)], params)
    BY <2>2, <2>3 DEF Folds
  <2>5. Solves(g)
    BY <1>1, <2>4
  <2> HIDE DEF Solves
  <2> QED  BY <2>5
<1>4. Solves(G)
  BY <1>3
<1> HIDE DEF G
<1> DEFINE h == [i \in 0 .. n |-> G[1 .. i]]
<1>5. h[0] = {Nothing} /\ h[n] = Found(conds, params)
  BY <1>1, <1>2, <1>4
<1>6. ASSUME NEW i \in 1 .. n  PROVE h[i] = TryEach(h[i - 1], quals[i], params)
  <2>1. i \in Nat \ {0} /\ 1 .. i \in SUBSET (1 .. n) /\ i - 1 \in 0 .. n
    BY <1>1
  <2>2. 1 .. i # {} /\ Max(1 .. i) = i /\ (1 .. i) \ {Max(1 .. i)} = 1 .. i - 1
    BY <2>1, MaxOfPrefix
  <2>3. G[1 .. i] = TryEach(G[(1 .. i) \ {Max(1 .. i)}], quals[Max(1 .. i)], params)
    BY <1>1, <1>4, <2>1, <2>2
  <2>4. G[1 .. i] = TryEach(G[1 .. i - 1], quals[i], params)
    BY <2>2, <2>3
  <2> QED  BY <2>1, <2>4
<1> HIDE DEF h
<1> QED  BY <1>5, <1>6 DEF n, quals

(* What may be found has its type.                                         *)
LEMMA FoundTyped ==
    ASSUME NEW V, NEW conds \in Seq(V), NEW params, NEW found \in Found(conds, params)
    PROVE  found.q \in Text \union {NoText, Junk} /\ found.c \in MinConfidences
<1> DEFINE quals == ExtractRestrictions(conds, Rels)
           n     == Len(quals)
           F     == Finds(quals, params)
<1>1. n \in Nat /\ DOMAIN quals = 1 .. n /\ \A i \in 1 .. n : quals[i] \in Range(quals)
  <2>1. quals \in Seq(QualsOf(conds, Rels))
    BY QualsExtracted
  <2> HIDE DEF quals
  <2> QED  BY <2>1 DEF Range
<1>2. PICK h : /\ h[0] = {Nothing}
               /\ \A i \in 1 .. n : h[i] = TryEach(h[i - 1], quals[i], params)
               /\ h[n] = Found(conds, params)
  BY FoundSteps
<1> HIDE DEF n, quals
<1> DEFINE P == {i \in 0 .. n : h[i] \subseteq F}
<1>3. 0 \in P
  BY <1>1, <1>2 DEF Nothing, Finds, Leavings, MinConfidences
<1>4. ASSUME NEW i \in 1 .. n, i - 1 \in P  PROVE i \in P
  <2>1. i \in 0 .. n /\ h[i - 1] \subseteq F /\ quals[i] \in Range(quals)
    BY <1>1, <1>4
  <2>2. TryEach(h[i - 1], quals[i], params) \subseteq F
    BY <2>1, TryStep DEF TryEach
  <2> QED  BY <1>2, <2>1, <2>2
<1>5. n \in P
  <2> HIDE DEF P
  <2>1. 0 .. n \subseteq P
    BY <1>1, <1>3, <1>4, Along
  <2> QED  BY <1>1, <2>1
<1>6. found \in F
  BY <1>2, <1>5
<1> QED  BY <1>6 DEF Finds

(* The value that evaluating a side gives.                                 *)
ValueOf(node, params) == IF node.tag = "Const" THEN node.val ELSE params[node.id]

Gives(qual, att, op) == qual.left.att = att /\ qual.op = op

(* A qual means what its condition does, commuted or not: a row that       *)
(* satisfies the condition has the q that the qual gives, and at least its *)
(* confidence.                                                             *)
LEMMA QualMeaning ==
    ASSUME NEW conds, NEW e \in Pushed(conds, Rels), e.op \in DOMAIN Commutator,
           NEW row, NEW params, HoldsOp(e, row, params),
           NEW qual, qual = CanonicalOpExpr(e, Rels), qual.right.tag \in {"Const", "Param"}
    PROVE  /\ Gives(qual, "q", "=") =>
                 ValueOf(qual.right, params) = row.q /\ row.q # Null
           /\ Gives(qual, "confidence", ">=") =>
                 /\ ValueOf(qual.right, params) # Null
                 /\ ValueOf(qual.right, params) <= row.result.confidence
<1> DEFINE l == UnnestClause(e.args[1])
           r == UnnestClause(e.args[2])
           lv == ValueIn(e.args[1], row, params)
           rv == ValueIn(e.args[2], row, params)
<1>1. qual = IF ToSwap(l, r, e.op, Rels)
             THEN [left |-> r, op |-> Commutator[e.op], right |-> l]
             ELSE [left |-> l, op |-> e.op, right |-> r]
  BY DEF CanonicalOpExpr, SwapOperandsAsNeeded
<1>2. OnTarget(qual, Rels)
  BY DEF Pushed, Extractable
<1>3. Compare(e.op, lv, rv)
  BY DEF HoldsOp
<1>4. /\ l.tag = "Var" => lv = IF l.att = "q" THEN row.q ELSE row.result.confidence
      /\ r.tag = "Var" => rv = IF r.att = "q" THEN row.q ELSE row.result.confidence
      /\ l.tag \in {"Const", "Param"} => lv = ValueOf(l, params)
      /\ r.tag \in {"Const", "Param"} => rv = ValueOf(r, params)
  BY DEF ValueIn, ValueOf
<1> HIDE DEF lv, rv, l, r
<1>5. CASE ToSwap(l, r, e.op, Rels)
  <2>1. /\ qual.left = r /\ qual.op = Commutator[e.op] /\ qual.right = l
        /\ r.tag = "Var" /\ Commutator[e.op] # NoOperator
    BY <1>1, <1>5 DEF ToSwap
  <2>2. Commutator[qual.op] = e.op
    BY <2>1, CommutatorAssumption
  <2>3. (qual.op = "=" => e.op = "=") /\ (qual.op = ">=" => e.op = "<=")
    BY <2>2, CommutatorAssumption
  <2> QED  BY <1>3, <1>4, <2>1, <2>3 DEF Compare, Gives
<1>6. CASE ~ToSwap(l, r, e.op, Rels)
  <2>1. qual.left = l /\ qual.op = e.op /\ qual.right = r /\ l.tag = "Var"
    BY <1>1, <1>2, <1>6 DEF OnTarget
  <2> QED  BY <1>3, <1>4, <2>1 DEF Compare, Gives
<1> QED  BY <1>5, <1>6

(* The parameters are set.                                                 *)
IsSet(params) == \A id \in DOMAIN ParamValues : params[id] \in ParamValues[id]

(* For a row that satisfies the conditions, a scan finds the value of q    *)
(* and asks for no more than its confidence, in whatever order.            *)
LEMMA FoundRight ==
    ASSUME NEW V, NEW conds \in Seq(V), Evaluable(conds), NEW params, IsSet(params),
           NEW row \in AllRows, \A i \in DOMAIN conds : Holds(conds[i], row, params),
           NEW found \in Found(conds, params)
    PROVE  found.q = row.q /\ found.c <= row.result.confidence
<1> DEFINE quals == ExtractRestrictions(conds, Rels)
           n     == Len(quals)
           F     == Finds(quals, params)
<1>1. Range(quals) = QualsOf(conds, Rels) /\ ToSet(quals) = Range(quals)
  BY QualsExtracted DEF Range, ToSet
<1>2. n \in Nat /\ DOMAIN quals = 1 .. n /\ \A i \in 1 .. n : quals[i] \in Range(quals)
  <2>1. quals \in Seq(QualsOf(conds, Rels))
    BY QualsExtracted
  <2> HIDE DEF quals
  <2> QED  BY <2>1 DEF Range
<1>3. PICK h : /\ h[0] = {Nothing}
               /\ \A i \in 1 .. n : h[i] = TryEach(h[i - 1], quals[i], params)
               /\ h[n] = Found(conds, params)
  BY FoundSteps
<1>4. row.q \in Text /\ row.result.confidence \in Nat
  <2>1. PICK t \in Text : \E i \in DOMAIN Results[t] : row = Row(t, Results[t][i])
    BY DEF AllRows
  <2>2. PICK i \in DOMAIN Results[t] : row = Row(t, Results[t][i])
    BY <2>1
  <2>3. Results[t][i] \in ToSet(Results[t])
    BY DEF ToSet
  <2> QED  BY <2>2, <2>3, ServerAssumption DEF Row
<1>5. /\ \E qual \in Range(quals) : Gives(qual, "q", "=")
      /\ \A qual \in Range(quals) :
            /\ qual.right.tag \in {"Const", "Param"}
            /\ ValueOf(qual.right, params) \in KnownValues(qual.right)
            /\ Gives(qual, "q", "=") => KnownValues(qual.right) \subseteq Text \union {Null}
            /\ Gives(qual, "confidence", ">=") =>
                  KnownValues(qual.right) \subseteq Confidence \union {0, Null}
  BY <1>1 DEF Evaluable, Gives, KnownValues, ValueOf, IsSet
<1>6. \A qual \in Range(quals) :
            /\ Gives(qual, "q", "=") => ValueOf(qual.right, params) = row.q
            /\ Gives(qual, "confidence", ">=") =>
                  ValueOf(qual.right, params) <= row.result.confidence
  <2> TAKE qual \in Range(quals)
  <2>1. PICK e \in Pushed(conds, Rels) : qual = CanonicalOpExpr(e, Rels)
    BY <1>1 DEF QualsOf
  <2>2. e \in Range(conds) /\ e.tag = "OpExpr"
    BY DEF Pushed, ToSet, Range
  <2>3. HoldsOp(e, row, params)
    BY <2>2 DEF Range, Holds
  <2>4. e.op \in DOMAIN Commutator
    BY <2>2 DEF Evaluable, Range, ToSet
  <2>5. qual.right.tag \in {"Const", "Param"}
    BY <1>5
  <2> HIDE DEF quals
  <2> QED  BY <2>1, <2>3, <2>4, <2>5, QualMeaning
<1> HIDE DEF n, quals
<1> DEFINE Right(f) == f.q \in {NoText, row.q} /\ f.c <= row.result.confidence
           P == {i \in 0 .. n : \A f \in h[i] :
                    /\ f \in F /\ Right(f)
                    /\ (\E j \in 1 .. i : Gives(quals[j], "q", "=")) => f.q = row.q}
<1>7. 0 \in P
  BY <1>2, <1>3, <1>4 DEF Nothing, Finds, Leavings, MinConfidences
<1>8. ASSUME NEW i \in 1 .. n, i - 1 \in P  PROVE i \in P
  <2> DEFINE qual == quals[i]
  <2>1. i \in 0 .. n /\ qual \in Range(quals) /\ 1 .. i = (1 .. i - 1) \union {i}
    BY <1>2
  <2> SUFFICES ASSUME NEW x \in h[i]
               PROVE  /\ x \in F /\ Right(x)
                      /\ (\E j \in 1 .. i : Gives(quals[j], "q", "=")) => x.q = row.q
    BY <2>1
  <2>2. PICK f \in h[i - 1] : x \in Try(f, qual, params)
    BY <1>3 DEF TryEach
  <2>3. /\ f \in F /\ Right(f)
        /\ (\E j \in 1 .. i - 1 : Gives(quals[j], "q", "=")) => f.q = row.q
    BY <1>8, <2>2
  <2> HIDE DEF qual, P
  <2>4. x \in F /\ \E v \in Datums(qual.right, params, f.last), int \in JunkInts :
                      x.q = Use(f, qual, v, int).q /\ x.c = Use(f, qual, v, int).c
    BY <2>1, <2>2, <2>3, TryStep
  <2>5. Datums(qual.right, params, f.last) = {ValueOf(qual.right, params)}
    BY <1>5, <2>1 DEF Datums, ValueOf
  <2> DEFINE v == ValueOf(qual.right, params)
  <2>6. PICK int \in JunkInts : x.q = Use(f, qual, v, int).q /\ x.c = Use(f, qual, v, int).c
    BY <2>4, <2>5
  <2>7. v \in KnownValues(qual.right)
    BY <1>5, <2>1
  <2>8. f = [q |-> f.q, c |-> f.c, last |-> f.last]
    BY <2>3 DEF Finds
  <2> HIDE DEF v
  <2>9. CASE Gives(qual, "q", "=")
    <3>1. v = row.q /\ ~Skipped(v)
      BY <1>6, <1>4, <2>1, <2>9, ValuesAssumption DEF Skipped, v
    <3>2. x.q = row.q /\ x.c = f.c
      BY <1>4, <2>6, <2>8, <2>9, <3>1 DEF Use, Gives
    <3> QED  BY <2>3, <2>4, <3>2
  <2>10. CASE Gives(qual, "confidence", ">=")
    <3>1. v <= row.result.confidence
      BY <1>6, <2>1, <2>10 DEF v
    <3>2. x.q = f.q /\ x.c \in {f.c, v}
      <4>1. v \in Confidence \union {0, Null}
        BY <1>5, <2>1, <2>7, <2>10
      <4>2. ~Skipped(v) => v \in Confidence
        BY <4>1 DEF Skipped
      <4> QED  BY <2>6, <2>8, <2>10, <4>2 DEF Use, Gives
    <3>3. x.c <= row.result.confidence
      BY <1>4, <2>3, <3>1, <3>2
    <3>4. ~Gives(qual, "q", "=")
      BY <2>10 DEF Gives
    <3> QED  BY <2>1, <2>3, <2>4, <3>2, <3>3, <3>4 DEF qual
  <2>11. CASE ~Gives(qual, "q", "=") /\ ~Gives(qual, "confidence", ">=")
    <3>1. x.q = f.q /\ x.c = f.c
      BY <2>6, <2>8, <2>11 DEF Use, Gives
    <3> QED  BY <2>1, <2>3, <2>4, <2>11, <3>1 DEF qual
  <2> QED  BY <2>9, <2>10, <2>11
<1>9. n \in P
  <2> HIDE DEF P
  <2>1. 0 .. n \subseteq P
    BY Zenon, <1>2, <1>7, <1>8, Along
  <2> QED  BY <1>2, <2>1
<1>10. \E j \in 1 .. n : Gives(quals[j], "q", "=")
  BY <1>2, <1>5 DEF Range
<1> QED  BY <1>3, <1>9, <1>10

(* For a query that can be evaluated, a scan finds a text or a confidence  *)
(* only where one is written, with the parameters as they are.             *)
IsWritten(found, quals, params) ==
    /\ found.q # NoText =>
          /\ found.q \in Text
          /\ \E qual \in quals : /\ Gives(qual, "q", "=")
                                 /\ found.q = ValueOf(qual.right, params)
    /\ found.c # 0 =>
          /\ found.c \in Confidence
          /\ \E qual \in quals : /\ Gives(qual, "confidence", ">=")
                                 /\ found.c = ValueOf(qual.right, params)

(* The parameters have values of theirs, or are not set yet.               *)
IsBound(params) == \A id \in DOMAIN ParamValues : params[id] \in ParamValues[id] \union {Unset}

LEMMA FoundIsWritten ==
    ASSUME NEW V, NEW conds \in Seq(V), Evaluable(conds), NEW params, IsBound(params),
           NEW found \in Found(conds, params)
    PROVE  IsWritten(found, QualsOf(conds, Rels), params)
<1> DEFINE quals == ExtractRestrictions(conds, Rels)
           n     == Len(quals)
           F     == Finds(quals, params)
           Good(f) == IsWritten(f, Range(quals), params)
<1>1. Range(quals) = QualsOf(conds, Rels) /\ ToSet(quals) = Range(quals)
  BY QualsExtracted DEF Range, ToSet
<1>2. n \in Nat /\ DOMAIN quals = 1 .. n /\ \A i \in 1 .. n : quals[i] \in Range(quals)
  <2>1. quals \in Seq(QualsOf(conds, Rels))
    BY QualsExtracted
  <2> HIDE DEF quals
  <2> QED  BY <2>1 DEF Range
<1>3. PICK h : /\ h[0] = {Nothing}
               /\ \A i \in 1 .. n : h[i] = TryEach(h[i - 1], quals[i], params)
               /\ h[n] = Found(conds, params)
  BY FoundSteps
<1>4. \A qual \in Range(quals) :
         /\ qual.right.tag \in {"Const", "Param"}
         /\ ValueOf(qual.right, params) \in KnownValues(qual.right) \union {Unset}
         /\ Gives(qual, "q", "=") => KnownValues(qual.right) \subseteq Text \union {Null}
         /\ Gives(qual, "confidence", ">=") =>
               KnownValues(qual.right) \subseteq Confidence \union {0, Null}
  BY <1>1 DEF Evaluable, Gives, KnownValues, ValueOf, IsBound
<1> HIDE DEF n, quals
<1> DEFINE P == {i \in 0 .. n : \A f \in h[i] : f \in F /\ Good(f)}
<1>5. 0 \in P
  BY <1>2, <1>3 DEF Nothing, Finds, Leavings, MinConfidences, IsWritten
<1>6. ASSUME NEW i \in 1 .. n, i - 1 \in P  PROVE i \in P
  <2> DEFINE qual == quals[i]
             v == ValueOf(qual.right, params)
  <2>1. i \in 0 .. n /\ qual \in Range(quals)
    BY <1>2
  <2> SUFFICES ASSUME NEW x \in h[i]  PROVE x \in F /\ Good(x)
    BY <2>1
  <2>2. PICK f \in h[i - 1] : x \in Try(f, qual, params)
    BY <1>3 DEF TryEach
  <2>3. f \in F /\ Good(f)
    BY <1>6, <2>2
  <2> HIDE DEF qual, P
  <2>4. x \in F /\ \E w \in Datums(qual.right, params, f.last), int \in JunkInts :
                      x.q = Use(f, qual, w, int).q /\ x.c = Use(f, qual, w, int).c
    BY <2>1, <2>2, <2>3, TryStep
  <2>5. Datums(qual.right, params, f.last) = {v}
    BY <1>4, <2>1 DEF Datums, ValueOf
  <2>6. PICK int \in JunkInts : x.q = Use(f, qual, v, int).q /\ x.c = Use(f, qual, v, int).c
    BY <2>4, <2>5
  <2>7. v \in KnownValues(qual.right) \union {Unset}
    BY <1>4, <2>1
  <2>8. f = [q |-> f.q, c |-> f.c, last |-> f.last]
    BY <2>3 DEF Finds
  <2> HIDE DEF v
  <2>9. CASE Skipped(v)
    <3>1. x.q = f.q /\ x.c = f.c
      BY <2>6, <2>9 DEF Use
    <3> QED  BY <2>3, <2>4, <3>1 DEF IsWritten
  <2>10. CASE ~Skipped(v) /\ Gives(qual, "q", "=")
    <3>1. v \in Text
      BY <1>4, <2>1, <2>7, <2>10 DEF Skipped
    <3>2. x.q = v /\ x.c = f.c
      BY <2>6, <2>8, <2>10, <3>1 DEF Use, Gives
    <3> QED  BY <2>1, <2>3, <2>4, <2>10, <3>1, <3>2 DEF IsWritten, v
  <2>11. CASE ~Skipped(v) /\ Gives(qual, "confidence", ">=")
    <3>1. v \in Confidence
      BY <1>4, <2>1, <2>7, <2>11 DEF Skipped
    <3>2. x.q = f.q /\ x.c = v
      BY <2>6, <2>8, <2>11, <3>1 DEF Use, Gives
    <3> QED  BY <2>1, <2>3, <2>4, <2>11, <3>1, <3>2 DEF IsWritten, v
  <2>12. CASE ~Gives(qual, "q", "=") /\ ~Gives(qual, "confidence", ">=")
    <3>1. x.q = f.q /\ x.c = f.c
      BY <2>6, <2>12 DEF Use, Gives
    <3> QED  BY <2>3, <2>4, <3>1 DEF IsWritten
  <2> QED  BY <2>9, <2>10, <2>11, <2>12
<1>7. n \in P
  <2> HIDE DEF P
  <2>1. 0 .. n \subseteq P
    BY Zenon, <1>2, <1>5, <1>6, Along
  <2> QED  BY <1>2, <2>1
<1> QED  BY <1>1, <1>3, <1>7

(* The list of a response is that of some results.                         *)
IsList(results) == results \in Seq(Range(results))

(* The cells of a list of results: one for each, in order.                 *)
LEMMA LinkedList ==
    ASSUME NEW results, IsList(results)
    PROVE  LET n     == Len(results)
               cells == Linked(results)
           IN  /\ n \in Nat /\ DOMAIN results = 1 .. n
               /\ DOMAIN cells = 1 .. n /\ Len(cells) = n
               /\ \A c \in 1 .. n : /\ cells[c].internal = results[c]
                                    /\ cells[c].next = IF c = n THEN 0 ELSE c + 1
<1>1. Len(results) \in Nat /\ DOMAIN results = 1 .. Len(results)
  BY DEF IsList
<1>2. DOMAIN Linked(results) = 1 .. Len(results)
  BY <1>1 DEF Linked
<1>3. Linked(results) \in Seq(Range(Linked(results)))
  BY <1>1 DEF Linked, Range
<1>4. Len(Linked(results)) = Len(results)
  BY SMTT(30), <1>1, <1>2, <1>3, LenProperties
<1>5. \A c \in 1 .. Len(results) :
         /\ Linked(results)[c].internal = results[c]
         /\ Linked(results)[c].next = IF c = Len(results) THEN 0 ELSE c + 1
  BY Zenon, <1>1 DEF Linked
<1> QED  BY Zenon, <1>1, <1>2, <1>4, <1>5

(* A confidence that is asked for is an int.                               *)
LEMMA ConfidencesAreInts == MinConfidences \subseteq Int
<1>1. Confidence \subseteq Int /\ JunkInts \subseteq Int
  BY ValuesAssumption
<1> QED  BY <1>1 DEF MinConfidences

(* The answer to a question: the results of sufficient confidence.         *)
LEMMA AnswerResults ==
    ASSUME NEW t \in Text, NEW c \in Int
    PROVE  /\ IsList(Answer(t, c))
           /\ \A i \in DOMAIN Results[t] : Results[t][i].confidence >= c =>
                 \E j \in DOMAIN Answer(t, c) : Answer(t, c)[j] = Results[t][i]
<1> DEFINE all == Results[t]
           S   == {r \in ToSet(all) : r.confidence >= c}
           A   == KeepOnly(all, S)
<1>1. all \in Seq(ToSet(all))
  BY ServerAssumption
<1>2. A = Answer(t, c)
  BY DEF Answer
<1> HIDE DEF all, S
<1>3. A \in Seq(ToSet(all)) /\ Range(A) = Range(all) \cap S
  BY <1>1, KeepOnlyMembers
<1> HIDE DEF A
<1>4. A \in Seq(Range(A))
  BY <1>3 DEF Range
<1>5. ASSUME NEW i \in DOMAIN all, all[i].confidence >= c
      PROVE  \E j \in DOMAIN A : A[j] = all[i]
  <2>1. all[i] \in Range(A)
    BY <1>3, <1>5 DEF Range, ToSet, S
  <2> QED  BY <2>1 DEF Range
<1> QED  BY <1>2, <1>4, <1>5 DEF IsList, all

(* A response is of a list of results, and is only taken for an answer     *)
(* when it is the answer.                                                  *)
LEMMA ResponseOf ==
    ASSUME NEW t \in Text, NEW c \in Int, NEW reply \in BadReplies \union {Granted(t, c)},
           ~(Succeeds(reply) /\ Aborts(reply))
    PROVE  LET response == DoRequest(reply)
           IN  /\ \E results : IsList(results) /\ response.cells = Linked(results)
               /\ Allocated(reply) \in [{"urls", "docs", "arrays", "bounds"} -> Nat]
               /\ Succeeds(reply) /\ OcgeoResponseOk(response) =>
                     /\ response.cells = Linked(Answer(t, c))
                     /\ response.head = IF Len(Answer(t, c)) = 0 THEN 0 ELSE 1
<1> DEFINE A == Answer(t, c)
           Counted(cells) == {i \in DOMAIN cells : cells[i].internal.bounds = Object}
<1>1. IsList(A) /\ Len(A) \in Nat /\ DOMAIN A = 1 .. Len(A)
  BY AnswerResults DEF IsList
<1>2. IsList(<< >>) /\ << >> = Linked(<< >>)
  BY DEF IsList, Linked, Range
<1>3. A = << >> <=> Len(A) = 0
  BY <1>1 DEF IsList
<1> HIDE DEF A
<1>4. \E results : /\ IsList(results) /\ DoRequest(reply).cells = Linked(results)
                   /\ Succeeds(reply) /\ OcgeoResponseOk(DoRequest(reply)) =>
                         /\ results = A
                         /\ DoRequest(reply).head = IF Len(A) = 0 THEN 0 ELSE 1
  <2>1. CASE ~Succeeds(reply)
    BY <1>2, <2>1 DEF DoRequest, NullResponse
  <2>2. CASE Succeeds(reply) /\ reply = Granted(t, c)
    <3>1. reply.total = Len(A) /\ reply.results = A
      BY <2>2 DEF Granted, A
    <3> QED  BY <1>1, <1>2, <1>3, <2>2, <3>1 DEF DoRequest, ParseResponseJson
  <2>3. CASE Succeeds(reply) /\ reply \in BadReplies
    <3>1. reply \in BadReplies \ {Lost, Garbage} /\ ~Aborts(reply)
      BY <2>3 DEF Succeeds
    <3>2. /\ reply.code # OCGEO_CODE_OK /\ reply.total \in Int
          /\ reply.total > 0 => IsList(reply.results)
      BY <3>1, ServerAssumption DEF IsList, Range, ToSet
    <3>3. DoRequest(reply).code = reply.code
      BY <2>3 DEF DoRequest, ParseResponseJson
    <3>4. ~OcgeoResponseOk(DoRequest(reply))
      BY <3>2, <3>3 DEF OcgeoResponseOk
    <3> QED  BY <1>2, <2>3, <3>2, <3>4 DEF DoRequest, ParseResponseJson
  <2> QED  BY <2>1, <2>2, <2>3
<1>5. PICK results : /\ IsList(results) /\ DoRequest(reply).cells = Linked(results)
                     /\ Succeeds(reply) /\ OcgeoResponseOk(DoRequest(reply)) =>
                           /\ results = A
                           /\ DoRequest(reply).head = IF Len(A) = 0 THEN 0 ELSE 1
  BY <1>4
<1>6. Cardinality(Counted(DoRequest(reply).cells)) \in Nat
  <2> DEFINE n == Len(results)
  <2>1. n \in Nat /\ DOMAIN DoRequest(reply).cells = 1 .. n
    BY <1>5, LinkedList
  <2> HIDE DEF n
  <2>2. IsFiniteSet(1 .. n)
    BY <2>1, FS_Interval
  <2>3. Counted(DoRequest(reply).cells) \in SUBSET (1 .. n)
    BY <2>1
  <2> HIDE DEF Counted
  <2>4. IsFiniteSet(Counted(DoRequest(reply).cells))
    BY <2>2, <2>3, FS_Subset
  <2> QED  BY <2>4, FS_CardinalityType
<1>7. Allocated(reply) \in [{"urls", "docs", "arrays", "bounds"} -> Nat]
  <2>1. CASE ~Succeeds(reply)
    BY <2>1 DEF Allocated
  <2>2. CASE Succeeds(reply)
    <3>1. DoRequest(reply) = ParseResponseJson(reply)
      BY <2>2 DEF DoRequest
    <3>2. Cardinality(Counted(ParseResponseJson(reply).cells)) \in Nat
      BY <1>6, <3>1
    <3> QED  BY <2>2, <3>2 DEF Allocated
  <2> QED  BY <2>1, <2>2
<1> QED  BY <1>5, <1>7 DEF A
-----------------------------------------------------------------------------
Ready == \A p \in ExecParams : bind[p] # Unset
Running == phase \in {"submitting", "open"}

(* The parameters that are set have values of theirs.                      *)
MayBe(p) == ParamValues[p] \union IF p \in ExecParams THEN {Unset} ELSE {}
ParamsBound == Running => \A p \in DOMAIN ParamValues : bind[p] \in MayBe(p)

(* The question asked is about every row that the query wants.             *)
KeepsWanted ==
    Running /\ ~explain /\ Ready /\ Evaluable(plan) =>
        \A row \in Wanted : /\ scan.qual_value = row.q
                            /\ scan.min_confidence <= row.result.confidence

(* The list that the cursor points into is that of the answer, and what is *)
(* before the cursor has been returned.                                    *)
Returned == IF scan.cursor = 0 THEN Len(Answer(asked.q, scan.min_confidence))
            ELSE scan.cursor - 1
Delivers ==
    LET A == Answer(asked.q, scan.min_confidence)
    IN  /\ scan.cursor \in 0 .. Len(A)
        /\ scan.response.cells = Linked(A)
        /\ rows = [i \in 1 .. Returned |-> Row(asked.q, A[i])]
AnswerRight ==
    /\ \E results : IsList(results) /\ scan.response.cells = Linked(results)
    /\ asked.granted => asked.q \in Text /\ asked.q = scan.qual_value /\ Delivers
    /\ ~asked.granted => scan.cursor = 0 /\ rows = << >>
    /\ phase # "open" => asked = NotAsked
    /\ phase = "open" /\ ~explain /\ scan.qual_value # NoText => asked.q = scan.qual_value
    /\ ended => phase = "open" /\ ~explain /\ Ready /\ scan.cursor = 0

Keeps == TypeOK /\ ParamsBound /\ KeepsWanted /\ AnswerRight
-----------------------------------------------------------------------------
(* An empty list of results has no cells.                                  *)
LEMMA NoList == IsList(<< >>) /\ NullResponse.cells = Linked(<< >>)
  BY DEF IsList, Linked, Range, NullResponse

(* Types and answers are right at first.                                   *)
LEMMA InitiallyKeeps == Init => Keeps
<1> SUFFICES ASSUME Init  PROVE Keeps
  OBVIOUS
<1>1. TypeOK
  <2>1. NoHeap \in [{"apis", "urls", "docs", "arrays", "bounds"} -> Nat]
    BY DEF NoHeap
  <2>2. bind \in Bindings
    BY DEF Init, Bindings
  <2>3. /\ scan.qual_value = NoText /\ scan.min_confidence = 0 /\ scan.api = FALSE
        /\ scan.cursor = 0 /\ asked \in [q : Text \union {NoText}, granted : BOOLEAN]
    BY DEF Init, NoScan, NotAsked
  <2>4. scans \in 0 .. MaxScans
    BY ValuesAssumption DEF Init
  <2> QED  BY <2>1, <2>2, <2>3, <2>4 DEF Init, TypeOK, MinConfidences
<1>2. ParamsBound /\ KeepsWanted
  BY DEF Init, ParamsBound, KeepsWanted, Running
<1>3. AnswerRight
  BY NoList DEF Init, AnswerRight, NoScan, NotAsked
<1> QED  BY <1>1, <1>2, <1>3 DEF Keeps

(* A scan that begins keeps them.                                          *)
LEMMA BeginKeeps ==
    ASSUME Keeps, NEW flag \in BOOLEAN, NEW params \in Bindings, NEW open \in Nat,
           \A p \in DOMAIN ParamValues : params[p] \in MayBe(p),
           BeginForeignScan(flag, params, open)
    PROVE  Keeps'
<1>1. PICK found \in Found(plan, params) :
        LET request == Requests(flag, found.q)
        IN  /\ scan' = [NoScan EXCEPT !.qual_value = found.q,
                                      !.min_confidence = found.c,
                                      !.api = request]
            /\ heap' = [heap EXCEPT !.apis = open + IF request THEN 1 ELSE 0]
            /\ phase' = IF found.q = Junk THEN "crashed"
                        ELSE IF request THEN "submitting" ELSE "open"
  BY DEF BeginForeignScan
<1> DEFINE request == Requests(flag, found.q)
<1>2. /\ rows' = << >> /\ lost' = lost /\ explain' = flag /\ bind' = params /\ plan' = plan
      /\ asked' = NotAsked /\ ended' = FALSE /\ scans' = scans + 1 /\ scans < MaxScans
  BY DEF BeginForeignScan
<1>3. plan \in Plans /\ plan \in Seq(ToSet(plan))
  BY ValuesAssumption DEF Keeps, TypeOK
<1>4. found.q \in Text \union {NoText, Junk} /\ found.c \in MinConfidences
  BY <1>3, FoundTyped
<1>5. /\ scan'.qual_value = found.q /\ scan'.min_confidence = found.c /\ scan'.api = request
      /\ scan'.response = NullResponse /\ scan'.cursor = 0
  BY <1>1 DEF NoScan
<1>6. request \in BOOLEAN /\ (request <=> flag = FALSE /\ found.q \notin {NoText, Junk})
  BY DEF Requests
<1>7. TypeOK'
  <2>1. heap' \in [{"apis", "urls", "docs", "arrays", "bounds"} -> Nat]
    BY <1>1 DEF Keeps, TypeOK
  <2>2. scans' \in 0 .. MaxScans
    BY <1>2, ValuesAssumption DEF Keeps, TypeOK
  <2>3. asked' \in [q : Text \union {NoText}, granted : BOOLEAN]
    BY <1>2 DEF NotAsked
  <2>4. phase' \in {"none", "submitting", "open", "crashed"}
    BY <1>1
  <2> QED  BY <1>2, <1>4, <1>5, <1>6, <2>1, <2>2, <2>3, <2>4 DEF Keeps, TypeOK
<1>8. ParamsBound'
  BY <1>2 DEF ParamsBound, MayBe
<1>9. KeepsWanted'
  <2> SUFFICES ASSUME Running', ~explain', Ready', Evaluable(plan), NEW row \in Wanted'
               PROVE  found.q = row.q /\ found.c <= row.result.confidence
    BY <1>2, <1>5 DEF KeepsWanted
  <2>1. IsSet(params)
    <3> SUFFICES ASSUME NEW p \in DOMAIN ParamValues  PROVE params[p] \in ParamValues[p]
      BY DEF IsSet
    <3>1. params[p] \in MayBe(p)
      OBVIOUS
    <3>2. p \in ExecParams => params[p] # Unset
      BY <1>2 DEF Ready
    <3> QED  BY <3>1, <3>2 DEF MayBe
  <2>2. row \in AllRows /\ \A i \in DOMAIN plan : Holds(plan[i], row, params)
    BY <1>2 DEF Wanted
  <2> QED  BY <1>3, <2>1, <2>2, FoundRight
<1>10. AnswerRight'
  <2>1. phase' = "open" /\ ~explain' => found.q = NoText
    BY <1>1, <1>2, <1>6
  <2> QED  BY <1>2, <1>5, <2>1, NoList DEF AnswerRight, NotAsked
<1> QED  BY <1>7, <1>8, <1>9, <1>10 DEF Keeps

(* A scan that is forgotten keeps them.                                    *)
LEMMA ForgetKeeps ==
    ASSUME Keeps, Forget, heap' \in [{"apis", "urls", "docs", "arrays", "bounds"} -> Nat],
           lost' \in Nat
    PROVE  Keeps'
<1>1. /\ phase' = "none" /\ scan' = NoScan /\ explain' = FALSE /\ asked' = NotAsked
      /\ rows' = << >> /\ ended' = FALSE /\ plan' = plan /\ scans' = scans
      /\ bind' = [p \in DOMAIN ParamValues |-> Unset]
  BY DEF Forget
<1>2. bind' \in Bindings
  BY <1>1 DEF Bindings
<1>3. asked' \in [q : Text \union {NoText}, granted : BOOLEAN]
  BY <1>1 DEF NotAsked
<1>4. /\ scan'.qual_value = NoText /\ scan'.min_confidence = 0 /\ scan'.api = FALSE
      /\ scan'.response = NullResponse /\ scan'.cursor = 0
  BY <1>1 DEF NoScan
<1>5. TypeOK'
  BY <1>1, <1>2, <1>3, <1>4 DEF Keeps, TypeOK, MinConfidences
<1>6. ParamsBound' /\ KeepsWanted'
  BY <1>1 DEF ParamsBound, KeepsWanted, Running
<1>7. AnswerRight'
  BY <1>1, <1>4, NoList DEF AnswerRight, NotAsked
<1> QED  BY <1>5, <1>6, <1>7 DEF Keeps

(* An answer keeps them.                                                   *)
LEMMA RespondKeeps ==
    ASSUME ScanInv, Keeps,
           NEW reply \in BadReplies \union {Granted(scan.qual_value, scan.min_confidence)},
           Respond(reply)
    PROVE  Keeps'
<1> DEFINE response == DoRequest(reply)
           new      == Allocated(reply)
           ok       == Succeeds(reply) /\ OcgeoResponseOk(response)
           t        == scan.qual_value
           c        == scan.min_confidence
<1>1. /\ phase = "submitting" /\ rows = << >> /\ ~explain /\ asked = NotAsked
      /\ scan.cursor = 0 /\ t \in Text /\ c \in MinConfidences /\ c \in Int
      /\ UNCHANGED <<plan, explain, bind, rows, ended, lost, scans>> /\ ~ended
  BY ConfidencesAreInts DEF ScanInv, QuestionRight, Respond, Keeps, TypeOK, AnswerRight
<1>2. CASE Succeeds(reply) /\ Aborts(reply)
  <2>1. phase' = "crashed" /\ scan' = scan /\ heap' = heap /\ asked' = asked
    BY <1>2 DEF Respond
  <2>2. TypeOK'
    BY <1>1, <2>1 DEF Keeps, TypeOK
  <2>3. ParamsBound' /\ KeepsWanted'
    BY <2>1 DEF ParamsBound, KeepsWanted, Running
  <2>4. AnswerRight'
    BY <1>1, <2>1 DEF Keeps, AnswerRight, NotAsked
  <2> QED  BY <2>2, <2>3, <2>4 DEF Keeps
<1>3. CASE ~(Succeeds(reply) /\ Aborts(reply))
  <2>1. /\ phase' = "open"
        /\ scan' = [scan EXCEPT !.response = response,
                                !.cursor = IF ok THEN response.head ELSE 0]
        /\ heap' = [k \in DOMAIN heap |->
                       IF k \in DOMAIN new THEN heap[k] + new[k] ELSE heap[k]]
        /\ asked' = [q |-> t, granted |-> ok]
    BY <1>3 DEF Respond
  <2> DEFINE A == Answer(t, c)
  <2>2. /\ \E results : IsList(results) /\ response.cells = Linked(results)
        /\ new \in [{"urls", "docs", "arrays", "bounds"} -> Nat]
        /\ ok => /\ response.cells = Linked(A)
                 /\ response.head = IF Len(A) = 0 THEN 0 ELSE 1
    BY <1>1, <1>3, ResponseOf
  <2>3. /\ IsList(A) /\ Len(A) \in Nat /\ DOMAIN A = 1 .. Len(A)
        /\ DOMAIN Linked(A) = 1 .. Len(A)
    BY <1>1, AnswerResults DEF IsList, Linked
  <2> HIDE DEF response, new, A
  <2>4. /\ scan'.qual_value = t /\ scan'.min_confidence = c /\ scan'.api = scan.api
        /\ scan'.response = response /\ scan'.cursor = IF ok THEN response.head ELSE 0
    BY <2>1 DEF ScanInv, Shapes, NoScan
  <2>5. asked'.q = t /\ asked'.granted = ok /\ ok \in BOOLEAN
    BY <2>1 DEF Succeeds, OcgeoResponseOk
  <2> HIDE DEF ok
  <2>6. TypeOK'
    <3>1. heap' \in [{"apis", "urls", "docs", "arrays", "bounds"} -> Nat]
      BY SMTT(30), <2>1, <2>2 DEF Keeps, TypeOK
    <3>2. scan'.cursor \in {0} \union DOMAIN scan'.response.cells
      BY <2>2, <2>3, <2>4
    <3>3. asked' \in [q : Text \union {NoText}, granted : BOOLEAN]
      BY <1>1, <2>1, <2>5
    <3> QED  BY <1>1, <2>1, <2>4, <3>1, <3>2, <3>3 DEF Keeps, TypeOK
  <2>7. ParamsBound'
    BY <1>1, <2>1 DEF Keeps, ParamsBound, Running, MayBe
  <2>8. KeepsWanted'
    <3>1. Wanted' = Wanted /\ (Ready' <=> Ready) /\ Running
      BY <1>1 DEF Wanted, Ready, Running
    <3> QED  BY <1>1, <2>4, <3>1 DEF Keeps, KeepsWanted
  <2>9. AnswerRight'
    <3>1. ok => Delivers'
      <4> SUFFICES ASSUME ok  PROVE Delivers'
        OBVIOUS
      <4>1. scan'.cursor \in 0 .. Len(A) /\ scan'.response.cells = Linked(A)
        BY <2>2, <2>3, <2>4
      <4>2. Returned' = 0
        BY <2>2, <2>3, <2>4, <2>5 DEF Returned, A
      <4>3. rows' = [i \in 1 .. Returned' |-> Row(t, A[i])]
        BY <1>1, <4>2
      <4> QED  BY <2>4, <2>5, <4>1, <4>3 DEF Delivers, A
    <3>2. ~ok => scan'.cursor = 0 /\ rows' = << >>
      BY <1>1, <2>4
    <3> QED  BY <1>1, <2>1, <2>2, <2>4, <2>5, <3>1, <3>2 DEF AnswerRight
  <2> QED  BY <2>6, <2>7, <2>8, <2>9 DEF Keeps
<1> QED  BY <1>2, <1>3

(* A row that is returned keeps them.                                      *)
LEMMA IterateKeeps == ScanInv /\ Keeps /\ Iterate => Keeps'
<1> SUFFICES ASSUME ScanInv, Keeps, Iterate  PROVE Keeps'
  OBVIOUS
<1> DEFINE A      == Answer(asked.q, scan.min_confidence)
           n      == Len(A)
           cell   == scan.response.cells[scan.cursor]
<1>1. /\ phase = "open" /\ ~explain /\ Ready /\ scan.cursor # 0
      /\ rows' = Append(rows, Row(scan.qual_value, cell.internal))
      /\ scan' = [scan EXCEPT !.cursor = cell.next]
      /\ UNCHANGED <<plan, phase, explain, bind, heap, asked, ended, lost, scans>>
  BY DEF Iterate, Fetchable, Ready
<1>2. /\ asked.granted /\ asked.q \in Text /\ asked.q = scan.qual_value /\ Delivers
      /\ ~ended
  BY <1>1 DEF Keeps, AnswerRight
<1>3. IsList(A)
  BY <1>2, AnswerResults, ConfidencesAreInts DEF Keeps, TypeOK
<1>4. /\ n \in Nat /\ scan.cursor \in 1 .. n /\ scan.response.cells = Linked(A)
      /\ cell.internal = A[scan.cursor]
      /\ cell.next = IF scan.cursor = n THEN 0 ELSE scan.cursor + 1
      /\ DOMAIN Linked(A) = 1 .. n
  <2>1. scan.cursor \in 0 .. n /\ scan.response.cells = Linked(A)
    BY <1>2 DEF Delivers
  <2>2. /\ n \in Nat /\ DOMAIN Linked(A) = 1 .. n
        /\ \A k \in 1 .. n : /\ Linked(A)[k].internal = A[k]
                             /\ Linked(A)[k].next = IF k = n THEN 0 ELSE k + 1
    BY <1>3, LinkedList
  <2> HIDE DEF A, n
  <2> QED  BY <1>1, <2>1, <2>2
<1>5. rows = [i \in 1 .. scan.cursor - 1 |-> Row(asked.q, A[i])]
  BY <1>1, <1>2 DEF Delivers, Returned
<1> HIDE DEF cell, A, n
<1>6. /\ scan'.qual_value = scan.qual_value /\ scan'.min_confidence = scan.min_confidence
      /\ scan'.api = scan.api /\ scan'.response = scan.response /\ scan'.cursor = cell.next
  BY <1>1 DEF ScanInv, Shapes, NoScan
<1>7. scan'.cursor \in 0 .. n /\ scan'.cursor = IF scan.cursor = n THEN 0 ELSE scan.cursor + 1
  BY <1>4, <1>6
<1>8. Returned' = scan.cursor
  BY <1>1, <1>4, <1>6, <1>7 DEF Returned, A, n
<1>9. rows' = [i \in 1 .. scan.cursor |-> Row(asked.q, A[i])]
  <2> DEFINE k == scan.cursor
  <2>1. rows' = Append([i \in 1 .. k - 1 |-> Row(asked.q, A[i])], Row(asked.q, A[k]))
    BY <1>1, <1>2, <1>4, <1>5
  <2>2. k \in Nat \ {0}
    BY <1>4
  <2> HIDE DEF k
  <2> QED  BY <2>1, <2>2 DEF k
<1>10. TypeOK'
  BY SMTT(30), <1>1, <1>4, <1>6, <1>7 DEF Keeps, TypeOK
<1>11. ParamsBound' /\ KeepsWanted'
  BY <1>1, <1>6 DEF Keeps, ParamsBound, KeepsWanted, Running, Ready, Wanted, MayBe
<1>12. Delivers'
  BY <1>1, <1>4, <1>6, <1>7, <1>8, <1>9 DEF Delivers, A, n
<1>13. AnswerRight'
  BY <1>1, <1>2, <1>6, <1>12 DEF Keeps, AnswerRight
<1> QED  BY <1>10, <1>11, <1>13 DEF Keeps

(* Every step keeps them.                                                  *)
LEMMA KeepsStep == ScanInv /\ Keeps /\ [Next]_vars => Keeps'
<1> SUFFICES ASSUME ScanInv, Keeps, [Next]_vars  PROVE Keeps'
  OBVIOUS
<1>1. /\ phase = "none" => heap.apis \in Nat
      /\ Open \in Nat /\ lost \in Nat
      /\ heap \in [{"apis", "urls", "docs", "arrays", "bounds"} -> Nat]
  <2>1. heap.apis = lost + IF scan.api THEN 1 ELSE 0
    BY DEF ScanInv, CountsRight, HandlesOwned
  <2>2. lost \in Nat /\ heap \in [{"apis", "urls", "docs", "arrays", "bounds"} -> Nat]
    BY DEF Keeps, TypeOK
  <2> QED  BY <2>1, <2>2 DEF Open
<1>2. ASSUME NEW flag \in BOOLEAN, NEW params \in Bindings, Start(flag, params)
      PROVE  Keeps'
  <2>1. \A p \in DOMAIN ParamValues : params[p] \in MayBe(p)
    BY <1>2 DEF Start, MayBe
  <2> QED  BY <1>1, <1>2, <2>1, BeginKeeps DEF Start
<1>3. ASSUME NEW params \in Bindings, ReScan(params)
      PROVE  Keeps'
  <2>1. \A p \in DOMAIN ParamValues : params[p] \in MayBe(p)
    BY <1>3 DEF ReScan, Rebound, Keeps, ParamsBound, Running, MayBe
  <2> QED  BY <1>1, <1>3, <2>1, BeginKeeps DEF ReScan
<1>4. ASSUME NEW reply \in BadReplies, Respond(reply)
      PROVE  Keeps'
  BY <1>4, RespondKeeps
<1>5. CASE Respond(Granted(scan.qual_value, scan.min_confidence))
  BY <1>5, RespondKeeps
<1>6. CASE Iterate
  BY <1>6, IterateKeeps
<1>7. CASE IterateEnd
  <2>1. /\ UNCHANGED <<plan, phase, explain, bind, scan, heap, asked, rows, lost, scans>>
        /\ ended' = TRUE /\ phase = "open" /\ ~explain /\ Ready /\ scan.cursor = 0
    BY <1>7 DEF IterateEnd, Fetchable, Ready
  <2>2. TypeOK' /\ ParamsBound' /\ KeepsWanted'
    BY <2>1 DEF Keeps, TypeOK, ParamsBound, KeepsWanted, Running, Ready, Wanted, MayBe
  <2>3. AnswerRight'
    BY <2>1 DEF Keeps, AnswerRight, Delivers, Returned, Ready
  <2> QED  BY <2>2, <2>3 DEF Keeps
<1>8. CASE End
  <2>1. heap' \in [{"apis", "urls", "docs", "arrays", "bounds"} -> Nat] /\ lost' = lost
    BY <1>1, <1>8 DEF End
  <2> QED  BY <1>1, <1>8, <2>1, ForgetKeeps DEF End
<1>9. CASE Fail
  <2>1. heap' = heap /\ lost' \in Nat
    BY <1>1, <1>9 DEF Fail
  <2> QED  BY <1>1, <1>9, <2>1, ForgetKeeps DEF Fail
<1>10. CASE Reconnect
  <2>1. heap' \in [{"apis", "urls", "docs", "arrays", "bounds"} -> Nat] /\ lost' \in Nat
    BY <1>10 DEF Reconnect, NoHeap
  <2> QED  BY <1>10, <2>1, ForgetKeeps DEF Reconnect
<1>11. CASE UNCHANGED vars
  <2>1. TypeOK' /\ ParamsBound' /\ KeepsWanted'
    BY <1>11 DEF vars, Keeps, TypeOK, ParamsBound, KeepsWanted, Running, Ready, Wanted, MayBe
  <2>2. AnswerRight'
    BY <1>11 DEF vars, Keeps, AnswerRight, Delivers, Returned, Ready
  <2> QED  BY <2>1, <2>2 DEF Keeps
<1> QED  BY <1>2, <1>3, <1>4, <1>5, <1>6, <1>7, <1>8, <1>9, <1>10, <1>11 DEF Next

(* Types and answers are right always.                                     *)
LEMMA KeepsInvariant == Spec => []Keeps
  BY InitiallyKeeps, KeepsStep, Invariant, PTL DEF Spec

(* Whatever is asked and answered, every variable has its type; the cursor *)
(* is NULL or in the list of results.                                      *)
THEOREM ScanTyped == Spec => []TypeOK
<1>1. Keeps => TypeOK
  BY DEF Keeps
<1> QED  BY <1>1, KeepsInvariant, PTL

(* The question of a scan is written in its query.                         *)
ScanIsWritten ==
    Evaluable(plan) =>
        IsWritten([q |-> scan.qual_value, c |-> scan.min_confidence], QualsOf(plan, Rels), bind)

(* Beginning a scan takes what is written; nothing else takes anything.    *)
LEMMA BeginWrites ==
    ASSUME Keeps, NEW flag, NEW params, IsBound(params), NEW open,
           BeginForeignScan(flag, params, open)
    PROVE  ScanIsWritten'
<1>1. PICK found \in Found(plan, params) :
         scan' = [NoScan EXCEPT !.qual_value = found.q, !.min_confidence = found.c,
                                !.api = Requests(flag, found.q)]
  BY DEF BeginForeignScan
<1>2. scan'.qual_value = found.q /\ scan'.min_confidence = found.c
  BY <1>1 DEF NoScan
<1>3. bind' = params /\ plan' = plan
  BY DEF BeginForeignScan
<1>4. plan \in Seq(ToSet(plan))
  BY ValuesAssumption DEF Keeps, TypeOK
<1> SUFFICES ASSUME Evaluable(plan)
             PROVE  IsWritten([q |-> found.q, c |-> found.c], QualsOf(plan, Rels), params)
  BY <1>2, <1>3 DEF ScanIsWritten
<1>5. IsWritten(found, QualsOf(plan, Rels), params)
  BY <1>4, FoundIsWritten
<1> QED  BY <1>5 DEF IsWritten

LEMMA WrittenStep == ScanInv /\ Keeps /\ ScanIsWritten /\ [Next]_vars => ScanIsWritten'
<1> SUFFICES ASSUME ScanInv, Keeps, ScanIsWritten, [Next]_vars  PROVE ScanIsWritten'
  OBVIOUS
<1>1. ASSUME NEW flag \in BOOLEAN, NEW params \in Bindings, Start(flag, params)
      PROVE  ScanIsWritten'
  <2>1. IsBound(params)
    BY <1>1 DEF Start, IsBound
  <2> QED  BY <1>1, <2>1, BeginWrites DEF Start
<1>2. ASSUME NEW params \in Bindings, ReScan(params)
      PROVE  ScanIsWritten'
  <2>1. \A p \in DOMAIN ParamValues : bind[p] \in MayBe(p)
    BY <1>2 DEF ReScan, Rebound, Keeps, ParamsBound, Running
  <2>2. IsBound(params)
    BY <1>2, <2>1 DEF ReScan, Rebound, IsBound, MayBe
  <2> QED  BY <1>2, <2>2, BeginWrites DEF ReScan
<1>3. ASSUME UNCHANGED <<plan, bind>>, scan'.qual_value = scan.qual_value,
             scan'.min_confidence = scan.min_confidence
      PROVE  ScanIsWritten'
  BY <1>3 DEF ScanIsWritten
<1>4. ASSUME NEW reply, Respond(reply)
      PROVE  ScanIsWritten'
  <2>1. UNCHANGED <<plan, bind>>
    BY <1>4 DEF Respond
  <2>2. /\ scan'.qual_value = scan.qual_value
        /\ scan'.min_confidence = scan.min_confidence
    BY <1>4 DEF Respond, ScanInv, Shapes, NoScan
  <2> QED  BY <1>3, <2>1, <2>2
<1>5. CASE Iterate \/ IterateEnd \/ UNCHANGED vars
  <2>1. UNCHANGED <<plan, bind>>
    BY <1>5 DEF Iterate, IterateEnd, vars
  <2>2. /\ scan'.qual_value = scan.qual_value
        /\ scan'.min_confidence = scan.min_confidence
    BY <1>5 DEF Iterate, IterateEnd, vars, ScanInv, Shapes, NoScan
  <2> QED  BY <1>3, <2>1, <2>2
<1>6. CASE End \/ Fail \/ Reconnect
  <2>1. plan' = plan /\ scan' = NoScan
    BY <1>6 DEF End, Fail, Reconnect, Forget
  <2>2. scan'.qual_value = NoText /\ scan'.min_confidence = 0
    BY <2>1 DEF NoScan
  <2> QED  BY <2>2 DEF ScanIsWritten, IsWritten
<1> QED  BY <1>1, <1>2, <1>4, <1>5, <1>6 DEF Next

(* For every query that can be evaluated and however its parameters are    *)
(* set: the text and the confidence that are asked for are those of its    *)
(* constants, or of its parameters as they are since the last rescan.      *)
THEOREM AsksOnlyWhatIsWritten == Spec => []AsksWhatIsWritten
<1>1. Init => ScanIsWritten
  BY DEF Init, NoScan, ScanIsWritten, IsWritten
<1>2. ASSUME Keeps, ScanIsWritten  PROVE AsksWhatIsWritten
  <2> SUFFICES ASSUME Evaluable(plan)
               PROVE  /\ scan.qual_value # NoText =>
                            scan.qual_value \in Text \cap Written("q", "=")
                      /\ scan.min_confidence # 0 =>
                            scan.min_confidence \in
                                Confidence \cap Written("confidence", ">=")
    BY DEF AsksWhatIsWritten
  <2>1. plan \in Seq(ToSet(plan))
    BY <1>2, ValuesAssumption DEF Keeps, TypeOK
  <2>2. ToSet(ExtractRestrictions(plan, Rels)) = QualsOf(plan, Rels)
    BY <2>1, QualsExtracted DEF Range, ToSet
  <2>3. \A att, op, v :
            (\E qual \in QualsOf(plan, Rels) :
                Gives(qual, att, op) /\ v = ValueOf(qual.right, bind))
            => v \in Written(att, op)
    BY <2>2 DEF Written, Gives, ValueOf
  <2> QED  BY <1>2, <2>3 DEF ScanIsWritten, IsWritten
<1> QED  BY <1>1, <1>2, WrittenStep, Invariant, KeepsInvariant, PTL DEF Spec

(* For every plan of conditions on constants and parameters that gives a   *)
(* value for q, and every server: a scan that has ended has returned every *)
(* row that satisfies the conditions, unless its request failed.           *)
THEOREM NoRowMissed == Spec => [](Evaluable(plan) => NothingMissed)
<1>1. ASSUME Keeps, Evaluable(plan)  PROVE NothingMissed
  <2> SUFFICES ASSUME ended, asked.q # NoText => asked.granted, NEW row \in Wanted
               PROVE  row \in {rows[i] : i \in DOMAIN rows}
    BY DEF NothingMissed
  <2>1. phase = "open" /\ ~explain /\ Ready /\ scan.cursor = 0
    BY <1>1 DEF Keeps, AnswerRight
  <2>2. scan.qual_value = row.q /\ scan.min_confidence <= row.result.confidence
    BY <1>1, <2>1 DEF Keeps, KeepsWanted, Running
  <2>3. PICK t \in Text : \E i \in DOMAIN Results[t] : row = Row(t, Results[t][i])
    BY DEF Wanted, AllRows
  <2>4. PICK i \in DOMAIN Results[t] : row = Row(t, Results[t][i])
    BY <2>3
  <2>5. row.q = t /\ row.result = Results[t][i]
    BY <2>4 DEF Row
  <2>6. asked.q = t /\ t # NoText
    BY <1>1, <2>1, <2>2, <2>5, ValuesAssumption DEF Keeps, AnswerRight, NoText
  <2> DEFINE A == Answer(t, scan.min_confidence)
  <2>7. asked.granted /\ Delivers
    BY <1>1, <2>6 DEF Keeps, AnswerRight
  <2>8. rows = [j \in 1 .. Len(A) |-> Row(t, A[j])]
    BY <2>1, <2>6, <2>7 DEF Delivers, Returned
  <2>9. scan.min_confidence \in Int /\ Results[t][i].confidence \in Nat
    <3>1. Results[t][i] \in ToSet(Results[t])
      BY DEF ToSet
    <3>2. scan.min_confidence \in Int
      BY <1>1, ConfidencesAreInts DEF Keeps, TypeOK
    <3>3. Results[t][i].confidence \in Nat
      <4> DEFINE r == Results[t][i]
      <4>1. \A x \in ToSet(Results[t]) : x.confidence \in Nat
        BY ServerAssumption
      <4> HIDE DEF r
      <4>2. r \in ToSet(Results[t])
        BY <3>1 DEF r
      <4>3. r.confidence \in Nat
        BY <4>1, <4>2
      <4> QED  BY <4>3 DEF r
    <3> QED  BY <3>2, <3>3
  <2>10. PICK j \in DOMAIN A : A[j] = Results[t][i]
    BY <2>2, <2>5, <2>9, AnswerResults
  <2>11. DOMAIN A = 1 .. Len(A)
    BY <2>9, AnswerResults DEF IsList
  <2> HIDE DEF A
  <2>12. rows[j] = row /\ j \in DOMAIN rows
    BY <2>4, <2>8, <2>10, <2>11
  <2> QED  BY <2>12
<1> QED  BY <1>1, KeepsInvariant, PTL
-----------------------------------------------------------------------------
(* The rows still to come, in closed form.                                 *)
Rest(results, c, v) ==
    IF c = 0 THEN << >>
    ELSE [j \in 1 .. Len(results) - c + 1 |-> Row(v, results[c + j - 1])]

(* The rows from a cell on: its own, and those from the next cell on.      *)
LEMMA RestStep ==
    ASSUME NEW results, IsList(results), NEW c \in 1 .. Len(results), NEW v
    PROVE  Rest(results, c, v) =
              <<Row(v, results[c])>> \o Rest(results, IF c = Len(results) THEN 0 ELSE c + 1, v)
<1> DEFINE n == Len(results)
           R == {Row(v, results[i]) : i \in 1 .. n}
           next == IF c = n THEN 0 ELSE c + 1
           s == Rest(results, c, v)
           t == Rest(results, next, v)
           u == <<Row(v, results[c])>>
<1>1. n \in Nat /\ c \in 1 .. n
  BY DEF IsList
<1> HIDE DEF n
<1>2. s \in Seq(R) /\ Len(s) = n - c + 1 /\ \A j \in 1 .. n - c + 1 : s[j] = Row(v, results[c + j - 1])
  <2>1. n - c + 1 \in Nat /\ c # 0
    BY <1>1
  <2>2. \A j \in 1 .. n - c + 1 : c + j - 1 \in 1 .. n
    BY <1>1
  <2> QED  BY <2>1, <2>2 DEF Rest, n
<1>3. /\ t \in Seq(R) /\ Len(t) = n - c /\ \A j \in 1 .. n - c : t[j] = Row(v, results[c + j])
  <2>1. CASE c = n
    BY <1>1, <2>1 DEF Rest
  <2>2. CASE c # n
    <3>1. n - c \in Nat /\ c + 1 # 0 /\ n - (c + 1) + 1 = n - c
      BY <1>1, <2>2
    <3>2. \A j \in 1 .. n - c : c + j \in 1 .. n /\ (c + 1) + j - 1 = c + j
      BY <1>1
    <3>3. t = [j \in 1 .. n - (c + 1) + 1 |-> Row(v, results[(c + 1) + j - 1])]
      BY Zenon, <2>2, <3>1 DEF Rest, n
    <3>4. t = [j \in 1 .. n - c |-> Row(v, results[c + j])]
      BY <3>1, <3>2, <3>3
    <3> HIDE DEF t
    <3> QED  BY SMTT(30), <3>1, <3>2, <3>4
  <2> QED  BY <2>1, <2>2
<1>4. u \in Seq(R) /\ Len(u) = 1 /\ u[1] = Row(v, results[c])
  BY <1>1
<1> HIDE DEF s, t, u, R
<1>5. u \o t \in Seq(R) /\ Len(u \o t) = n - c + 1
  <2>1. u \o t \in Seq(R) /\ Len(u \o t) = Len(u) + Len(t)
    BY <1>3, <1>4, ConcatProperties
  <2> QED  BY <1>1, <1>3, <1>4, <2>1
<1>6. ASSUME NEW j \in 1 .. n - c + 1  PROVE (u \o t)[j] = s[j]
  <2>1. (u \o t)[j] = IF j <= 1 THEN u[j] ELSE t[j - 1]
    <3>1. j \in 1 .. Len(u) + Len(t)
      BY <1>1, <1>3, <1>4
    <3>2. (u \o t)[j] = IF j <= Len(u) THEN u[j] ELSE t[j - Len(u)]
      BY <1>3, <1>4, <3>1, ConcatProperties
    <3> QED  BY <1>4, <3>2
  <2>2. CASE j = 1
    BY <1>1, <1>2, <1>4, <2>1, <2>2
  <2>3. CASE j # 1
    <3>1. j - 1 \in 1 .. n - c /\ c + (j - 1) = c + j - 1
      BY <1>1, <2>3
    <3> QED  BY <1>1, <1>2, <1>3, <2>1, <2>3, <3>1
  <2> QED  BY <2>2, <2>3
<1>7. s = u \o t
  BY <1>2, <1>5, <1>6, SeqEqual
<1> QED  BY <1>7 DEF s, t, u, n

(* What Pending follows through the list of some results.                  *)
LEMMA PendingIsRest ==
    ASSUME NEW results, IsList(results), scan.response.cells = Linked(results),
           scan.cursor \in 0 .. Len(results)
    PROVE  Pending = Rest(results, scan.cursor, scan.qual_value)
<1> DEFINE n     == Len(results)
           cells == scan.response.cells
           v     == scan.qual_value
           Solves(f) == f = [c \in 0 .. Len(cells) |->
                                IF c = 0 THEN << >>
                                ELSE <<Row(v, cells[c].internal)>> \o f[cells[c].next]]
           from  == CHOOSE f : Solves(f)
           Next_(c) == IF c = n THEN 0 ELSE c + 1
<1>1. Pending = from[scan.cursor]
  BY DEF Pending
<1>2. /\ n \in Nat /\ Len(cells) = n
      /\ \A c \in 1 .. n : cells[c].internal = results[c] /\ cells[c].next = Next_(c)
  BY LinkedList
<1> HIDE DEF cells, v, n
<1>3. \A c \in 1 .. n : Rest(results, c, v) = <<Row(v, results[c])>> \o Rest(results, Next_(c), v)
  BY RestStep DEF n
<1>4. \E f : Solves(f)
  <2> DEFINE f == [c \in 0 .. n |-> Rest(results, c, v)]
  <2>1. f[0] = << >>
    BY <1>2 DEF Rest
  <2>2. ASSUME NEW c \in 1 .. n
        PROVE  f[c] = <<Row(v, cells[c].internal)>> \o f[cells[c].next]
    <3>1. cells[c].next = Next_(c) /\ Next_(c) \in 0 .. n /\ cells[c].internal = results[c]
      BY <1>2
    <3> QED  BY <1>2, <1>3, <3>1
  <2>3. f = [c \in 0 .. n |-> f[c]]
    OBVIOUS
  <2> HIDE DEF f
  <2>4. \A c \in 0 .. n : f[c] = IF c = 0 THEN << >>
                                ELSE <<Row(v, cells[c].internal)>> \o f[cells[c].next]
    <3> TAKE c \in 0 .. n
    <3>1. c = 0 \/ (c \in 1 .. n /\ c # 0)
      BY <1>2
    <3> QED  BY <2>1, <2>2, <3>1
  <2>5. Solves(f)
    BY Zenon, <1>2, <2>3, <2>4
  <2> HIDE DEF Solves
  <2> QED  BY <2>5
<1>5. Solves(from)
  BY Zenon, <1>4
<1> HIDE DEF from
<1>6. /\ from[0] = << >>
      /\ \A c \in 1 .. n : from[c] = <<Row(v, results[c])>> \o from[Next_(c)]
  <2>1. \A c \in 0 .. n : from[c] = IF c = 0 THEN << >>
                                ELSE <<Row(v, cells[c].internal)>> \o from[cells[c].next]
    BY <1>2, <1>5
  <2>2. 0 \in 0 .. n /\ \A c \in 1 .. n : c \in 0 .. n /\ c # 0
    BY <1>2
  <2> QED  BY <1>2, <2>1, <2>2
<1> DEFINE P == {d \in 0 .. n : \A c \in 1 .. n : n - c < d => from[c] = Rest(results, c, v)}
<1>7. 0 \in P
  BY <1>2
<1>8. ASSUME NEW d \in 1 .. n, d - 1 \in P  PROVE d \in P
  <2>1. d \in 0 .. n
    BY <1>2
  <2>2. ASSUME NEW c \in 1 .. n, n - c < d  PROVE from[c] = Rest(results, c, v)
    <3>1. from[Next_(c)] = Rest(results, Next_(c), v)
      <4>1. CASE c = n
        BY <1>2, <1>6, <4>1 DEF Rest
      <4>2. CASE c # n
        <5>1. c + 1 \in 1 .. n /\ n - (c + 1) < d - 1
          BY <1>2, <2>2, <4>2
        <5> QED  BY <1>8, <4>2, <5>1
      <4> QED  BY <4>1, <4>2
    <3> QED  BY <1>3, <1>6, <3>1
  <2> QED  BY <2>1, <2>2
<1>9. n \in P
  <2> HIDE DEF P
  <2>1. 0 .. n \subseteq P
    BY <1>2, <1>7, <1>8, Along
  <2> QED  BY <1>2, <2>1
<1>10. \A c \in 0 .. n : from[c] = Rest(results, c, v)
  <2> TAKE c \in 0 .. n
  <2>1. CASE c = 0
    BY <1>6, <2>1 DEF Rest
  <2>2. CASE c # 0
    <3>1. c \in 1 .. n /\ n - c < n
      BY <1>2, <2>2
    <3> QED  BY <1>9, <3>1
  <2> QED  BY <2>1, <2>2
<1> QED  BY <1>1, <1>10 DEF n, v

(* The rows still to come are the rest of the answer to the question.      *)
LEMMA PendingValue ==
    Keeps => /\ scan.cursor = 0 => Pending = << >>
             /\ scan.cursor # 0 =>
                   Pending = Rest(Answer(asked.q, scan.min_confidence), scan.cursor, asked.q)
<1> SUFFICES ASSUME Keeps
             PROVE  /\ scan.cursor = 0 => Pending = << >>
                    /\ scan.cursor # 0 =>
                          Pending = Rest(Answer(asked.q, scan.min_confidence), scan.cursor, asked.q)
  OBVIOUS
<1>1. CASE scan.cursor = 0
  <2>1. PICK results : IsList(results) /\ scan.response.cells = Linked(results)
    BY DEF Keeps, AnswerRight
  <2>2. scan.cursor \in 0 .. Len(results)
    BY <1>1, <2>1 DEF IsList
  <2>3. Pending = Rest(results, scan.cursor, scan.qual_value)
    BY <2>1, <2>2, PendingIsRest
  <2> QED  BY <1>1, <2>3 DEF Rest
<1>2. CASE scan.cursor # 0
  <2> DEFINE A == Answer(asked.q, scan.min_confidence)
  <2>1. asked.q \in Text /\ asked.q = scan.qual_value /\ Delivers
    BY <1>2 DEF Keeps, AnswerRight
  <2>2. scan.min_confidence \in Int
    BY ConfidencesAreInts DEF Keeps, TypeOK
  <2>3. IsList(A) /\ scan.response.cells = Linked(A) /\ scan.cursor \in 0 .. Len(A)
    BY <2>1, <2>2, AnswerResults DEF Delivers
  <2> HIDE DEF A
  <2>4. Pending = Rest(A, scan.cursor, scan.qual_value)
    BY <2>3, PendingIsRest
  <2> QED  BY <1>2, <2>1, <2>4 DEF A
<1> QED  BY <1>1, <1>2

(* An answer is a step of the stream, or none.                             *)
LEMMA RespondStreams ==
    ASSUME ScanInv, Keeps, Keeps', NEW reply, Respond(reply)
    PROVE  [Stream!Next]_<<Pending, rows>>
<1> DEFINE A == Answer(asked.q, scan.min_confidence)'
           t == asked'.q
           n == Len(A)
<1>1. phase = "submitting" /\ rows = << >> /\ scan.cursor = 0 /\ rows' = rows
  BY DEF ScanInv, QuestionRight, Respond
<1>2. Pending = << >>
  BY <1>1, PendingValue
<1>3. /\ scan'.cursor = 0 => Pending' = << >>
      /\ scan'.cursor # 0 => Pending' = Rest(A, scan'.cursor, t)
  <2>1. (Keeps => /\ scan.cursor = 0 => Pending = << >>
                  /\ scan.cursor # 0 =>
                       Pending = Rest(Answer(asked.q, scan.min_confidence), scan.cursor, asked.q))'
    BY PendingValue, PTL
  <2> QED  BY <2>1
<1>4. CASE scan'.cursor = 0
  BY <1>1, <1>2, <1>3, <1>4
<1>5. CASE scan'.cursor # 0
  <2>1. t \in Text /\ scan'.min_confidence \in MinConfidences /\ Delivers'
    BY <1>5 DEF Keeps, AnswerRight, TypeOK
  <2>2. scan'.min_confidence \in Int
    BY <2>1, ConfidencesAreInts
  <2>3. IsList(A) /\ n \in Nat /\ DOMAIN A = 1 .. n
    BY <2>1, <2>2, AnswerResults DEF IsList
  <2>4. /\ scan'.cursor \in 1 .. n
        /\ rows' = [i \in 1 .. scan'.cursor - 1 |-> Row(t, A[i])]
    BY <1>5, <2>1, <2>3 DEF Delivers, Returned
  <2> HIDE DEF A, n, t
  <2>5. scan'.cursor = 1
    <3>1. DOMAIN rows' = {} /\ DOMAIN rows' = 1 .. scan'.cursor - 1
      BY <1>1, <2>4
    <3>2. scan'.cursor - 1 \notin 1 .. scan'.cursor - 1
      BY <3>1
    <3> QED  BY <2>3, <2>4, <3>2
  <2>6. Pending' = [j \in 1 .. n |-> Row(t, A[j])]
    <3>1. Pending' = [j \in 1 .. n - 1 + 1 |-> Row(t, A[1 + j - 1])]
      BY <1>3, <2>5 DEF Rest, n
    <3>2. n - 1 + 1 = n /\ \A j \in 1 .. n : 1 + j - 1 = j
      BY <2>3
    <3> QED  BY <3>1, <3>2
  <2>7. Pending' \in AllAnswers
    BY <2>1, <2>3, <2>6 DEF AllAnswers, A, t
  <2> QED  BY <1>1, <1>2, <2>7 DEF Stream!Next, Stream!Receive
<1> QED  BY <1>4, <1>5

(* A row that is returned is taken from the stream.                        *)
LEMMA IterateStreams ==
    ASSUME Keeps, Keeps', ScanInv, Iterate
    PROVE  Stream!Deliver
<1> DEFINE A == Answer(asked.q, scan.min_confidence)
           c == scan.cursor
           t == asked.q
           n == Len(A)
           next == IF c = n THEN 0 ELSE c + 1
<1>1. /\ phase = "open" /\ c # 0
      /\ rows' = Append(rows, Row(scan.qual_value, scan.response.cells[c].internal))
      /\ scan' = [scan EXCEPT !.cursor = scan.response.cells[c].next]
      /\ asked' = asked
  BY DEF Iterate, Fetchable
<1>2. asked.granted /\ t \in Text /\ t = scan.qual_value /\ Delivers
  BY <1>1 DEF Keeps, AnswerRight
<1>3. scan.min_confidence \in Int
  BY ConfidencesAreInts DEF Keeps, TypeOK
<1>4. IsList(A) /\ n \in Nat
  BY SMTT(30), <1>2, <1>3, AnswerResults DEF IsList
<1>5. scan.response.cells = Linked(A) /\ c \in 1 .. n
  BY <1>1, <1>2, <1>4 DEF Delivers
<1>6. /\ scan'.min_confidence = scan.min_confidence /\ scan'.response = scan.response
      /\ scan'.cursor = scan.response.cells[c].next
  BY <1>1 DEF ScanInv, Shapes, NoScan
<1> HIDE DEF A, n, c, t
<1>7. Linked(A)[c].internal = A[c] /\ Linked(A)[c].next = next
  BY <1>4, <1>5, LinkedList DEF n
<1>8. Pending = Rest(A, c, t)
  BY <1>1, PendingValue DEF A, c, t
<1>9. Pending' = Rest(A, next, t)
  <2>1. (Keeps => /\ scan.cursor = 0 => Pending = << >>
                  /\ scan.cursor # 0 =>
                       Pending = Rest(Answer(asked.q, scan.min_confidence), scan.cursor, asked.q))'
    BY PendingValue, PTL
  <2>2. scan'.cursor = next
    BY <1>5, <1>6, <1>7
  <2>3. next = 0 => Rest(A, next, t) = << >>
    BY DEF Rest
  <2>4. Answer(asked.q, scan.min_confidence)' = A /\ asked'.q = t
    BY <1>1, <1>6 DEF A, t
  <2> HIDE DEF next
  <2> QED  BY <2>1, <2>2, <2>3, <2>4
<1>10. rows' = Append(rows, Row(t, A[c]))
  BY <1>1, <1>2, <1>5, <1>7
<1>11. Pending = <<Row(t, A[c])>> \o Pending'
  BY <1>4, <1>5, <1>8, <1>9, RestStep DEF n
<1>12. Pending' \in Seq({Row(t, A[i]) : i \in 1 .. n})
  <2>1. CASE next = 0
    BY <1>9, <2>1 DEF Rest
  <2>2. CASE next # 0
    <3>1. Pending' = [j \in 1 .. n - next + 1 |-> Row(t, A[next + j - 1])]
      BY <1>9, <2>2 DEF Rest, n
    <3>2. next \in 1 .. n
      BY <1>4, <1>5, <2>2
    <3> HIDE DEF next
    <3>3. n - next + 1 \in Nat /\ \A j \in 1 .. n - next + 1 : next + j - 1 \in 1 .. n
      BY <1>4, <3>2
    <3> QED  BY <3>1, <3>3
  <2> QED  BY <2>1, <2>2
<1>13. Pending # << >> /\ Head(Pending) = Row(t, A[c]) /\ Tail(Pending) = Pending'
  <2> DEFINE p == Pending'  r == Row(t, A[c])  R == {Row(t, A[i]) : i \in 1 .. n} \union {r}
  <2>1. p \in Seq(R)
    BY <1>12
  <2> HIDE DEF p, r, R
  <2>2. r \in R
    BY DEF R
  <2>3. <<r>> \o p # << >> /\ Head(<<r>> \o p) = r /\ Tail(<<r>> \o p) = p
    BY <2>1, <2>2
  <2> QED  BY <1>11, <2>3 DEF p, r
<1> QED  BY <1>10, <1>13 DEF Stream!Deliver

(* Every step of the scan is one of the stream, or none.                   *)
LEMMA StreamStep ==
    ScanInv /\ Keeps /\ Keeps' /\ [Next]_vars => [Stream!Next]_<<Pending, rows>>
<1> SUFFICES ASSUME ScanInv, Keeps, Keeps', [Next]_vars
             PROVE  [Stream!Next]_<<Pending, rows>>
  OBVIOUS
<1>1. ASSUME scan'.cursor = 0, rows' = << >>
      PROVE  Stream!Restart
  <2>1. (Keeps => /\ scan.cursor = 0 => Pending = << >>
                  /\ scan.cursor # 0 =>
                       Pending = Rest(Answer(asked.q, scan.min_confidence), scan.cursor, asked.q))'
    BY PendingValue, PTL
  <2>2. Pending' = << >>
    BY <1>1, <2>1
  <2> QED  BY <1>1, <2>2 DEF Stream!Restart
<1>2. ASSUME NEW flag, NEW params, NEW open, BeginForeignScan(flag, params, open)
      PROVE  Stream!Restart
  <2>1. scan'.cursor = 0
    BY <1>2 DEF BeginForeignScan, NoScan
  <2> QED  BY <1>1, <1>2, <2>1 DEF BeginForeignScan
<1>3. ASSUME Forget  PROVE Stream!Restart
  BY <1>1, <1>3 DEF Forget, NoScan
<1>4. ASSUME scan' = scan, rows' = rows
      PROVE  UNCHANGED <<Pending, rows>>
  BY <1>4 DEF Pending
<1>5. ASSUME NEW reply, Respond(reply)
      PROVE  [Stream!Next]_<<Pending, rows>>
  BY <1>5, RespondStreams
<1>6. CASE Iterate
  BY <1>6, IterateStreams DEF Stream!Next
<1>7. CASE IterateEnd \/ UNCHANGED vars
  BY <1>4, <1>7 DEF IterateEnd, vars
<1>8. CASE (\E flag \in BOOLEAN, params \in Bindings : Start(flag, params))
           \/ (\E params \in Bindings : ReScan(params))
  BY <1>2, <1>8 DEF Start, ReScan, Stream!Next
<1>9. CASE End \/ Fail \/ Reconnect
  BY <1>3, <1>9 DEF End, Fail, Reconnect, Stream!Next
<1> QED  BY <1>5, <1>6, <1>7, <1>8, <1>9 DEF Next

(* The linked list of the results, the cursor and the rescans implement    *)
(* the abstract stream: each answer's rows are delivered one at a time, in *)
(* their order, none twice and none left out.                              *)
THEOREM ScanIsAStream == Spec => ImplementsStream
<1>1. Init => Stream!Init
  <2> SUFFICES ASSUME Init  PROVE Stream!Init
    OBVIOUS
  <2>1. scan.cursor = 0 /\ rows = << >>
    BY DEF Init, NoScan
  <2> QED  BY <2>1, InitiallyKeeps, PendingValue DEF Stream!Init
<1> QED  BY <1>1, StreamStep, Invariant, KeepsInvariant, PTL DEF Spec, ImplementsStream, Stream!Spec
=============================================================================
