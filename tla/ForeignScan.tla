---------------------------- MODULE ForeignScan ----------------------------
(***************************************************************************)
(* One scan node of the foreign table in one backend: BeginForeignScan,    *)
(* IterateForeignScan, ReScanForeignScan and EndForeignScan of             *)
(* ocgeo_fdw.c, with the requests of ocgeo_api.c they make, driven by the  *)
(* executor of PostgreSQL.                                                 *)
(*                                                                         *)
(* Beginning a scan evaluates the conditions pushed down, and when they    *)
(* give a value for q sends the request.  That is two actions, for the     *)
(* request may fail to return; the throttling is RateLimiter's.            *)
(***************************************************************************)
EXTENDS Pushdown, OcgeoApi, Lists

CONSTANTS
    Text,         \* values of q
    Confidence,   \* the confidences a condition may name, 0 excepted
    TableRel,     \* the relation that is the foreign table
    Plans,        \* conditions of the plans considered (fdw_exprs)
    ParamValues,  \* ParamValues[p]: the values parameter p may take
    ExecParams,   \* the parameters set by a nested loop, before each rescan
    Unset,        \* the zero Datum of a parameter that is not yet set
    Junk,         \* a Datum never written
    JunkInts,     \* what a Datum that is no confidence may be as an int
    Results,      \* Results[t]: the results that the API has for question t
    BadReplies,   \* replies other than the answer
    MaxScans      \* bound: how often a scan is begun, in a session

Rels == {TableRel}

(* The server's answer to question t, where only confidence c is enough.   *)
Answer(t, c) ==
    KeepOnly(Results[t], {r \in ToSet(Results[t]) : r.confidence >= c})
Granted(t, c) == [code |-> OCGEO_CODE_OK, rate |-> Object,
                  total |-> Len(Answer(t, c)), results |-> Answer(t, c)]

(* A text is no other kind of value; the conditions of a plan are a list.  *)
ASSUME ValuesAssumption ==
    /\ Text \cap {Null, Unset, Junk, 0} = {}
    /\ Confidence \subseteq Nat /\ MaxScans \in Nat
    /\ JunkInts \subseteq Int /\ JunkInts # {}
    /\ \A conds \in Plans : conds \in Seq(ToSet(conds))

(* A document has as many results as it says, each result has a confidence *)
(* and the status is 200 only for the answer.                              *)
ASSUME ServerAssumption ==
    /\ \A t \in Text : /\ Results[t] \in Seq(ToSet(Results[t]))
                       /\ \A r \in ToSet(Results[t]) : r.confidence \in Nat
    /\ \A r \in BadReplies \ {Lost, Garbage} : ~Aborts(r) =>
          /\ r.code # OCGEO_CODE_OK
          /\ r.total \in Int
          /\ r.total > 0 => /\ r.results \in Seq(ToSet(r.results))
                            /\ r.total = Len(r.results)

VARIABLES
    plan,     \* the conditions of the statement
    phase,    \* "none", "submitting", "open" or "crashed"
    explain,  \* EXPLAIN without ANALYZE
    bind,     \* the values of the parameters
    scan,     \* the state of the scan
    heap,     \* what is allocated with malloc, by kind
    asked,    \* history: the question asked since the scan was (re)started
    rows,     \* history: the rows returned since then
    ended,    \* history: it has returned no row since then
    lost,     \* history: handles of statements that failed
    scans     \* history: how often a scan was begun

vars == <<plan, phase, explain, bind, scan, heap, asked, rows, ended,
          lost, scans>>

NoText == Null
NoScan == [qual_value |-> NoText, min_confidence |-> 0, api |-> FALSE,
           response |-> NullResponse, cursor |-> 0]
NoHeap == [apis |-> 0, urls |-> 0, docs |-> 0, arrays |-> 0, bounds |-> 0]
NotAsked == [q |-> NoText, granted |-> FALSE]

Row(q, result) == [q |-> q, result |-> result]
-----------------------------------------------------------------------------
(* Evaluating the conditions.                                              *)

(* The Datums that evaluating the right side of a qual may yield.  What is *)
(* neither a parameter nor a constant leaves the variable as it was: zero, *)
(* the Datum of the qual before, or never written.                         *)
Datums(node, params, last) ==
    CASE node.tag = "Const" -> {node.val}
      [] node.tag = "Param" -> {params[node.id]}
      [] OTHER              -> {Unset, last, Junk}

(* Mutant of Skipped: only what is NULL in SQL is passed over.             *)
SkippedNull(v) == v = Null

Skipped(v) == v \in {Null, Unset, 0}

(* The effect of one qual: found.q is the value for q, found.c the minimal *)
(* confidence.  A Datum that is no text makes a text out of nowhere, and   *)
(* one that is no confidence is read as an int all the same.               *)
Use(found, qual, v, int) ==
    CASE Skipped(v) -> found
      [] ~Skipped(v) /\ qual.left.att = "q" /\ qual.op = "=" ->
            [found EXCEPT !.q = IF v \in Text THEN v ELSE Junk]
      [] ~Skipped(v) /\ qual.left.att = "confidence" /\ qual.op = ">=" ->
            [found EXCEPT !.c = IF v \in Confidence THEN v ELSE int]
      [] OTHER -> found

Try(found, qual, params) ==
    {[Use(found, qual, v, int) EXCEPT !.last = IF v = Null THEN Unset ELSE v] :
        v \in Datums(qual.right, params, found.last), int \in JunkInts}

(* What the loop over the quals may find.                                  *)
Found(conds, params) ==
    FoldLeft(LAMBDA S, qual : UNION {Try(found, qual, params) : found \in S},
             {[q |-> NoText, c |-> 0, last |-> Junk]},
             ExtractRestrictions(conds, Rels))
-----------------------------------------------------------------------------
Init ==
    /\ plan \in Plans
    /\ phase = "none"
    /\ explain = FALSE
    /\ bind = [p \in DOMAIN ParamValues |-> Unset]
    /\ scan = NoScan
    /\ heap = NoHeap
    /\ asked = NotAsked
    /\ rows = << >>
    /\ ended = FALSE
    /\ lost = 0
    /\ scans = 0

(* Mutant of Requests: EXPLAIN makes the request too.                      *)
RequestsAnyway(flag, q) == q \notin {NoText, Junk}

(* No request is made for EXPLAIN, or without a value for q.               *)
Requests(flag, q) == ~flag /\ q \notin {NoText, Junk}

(* BeginForeignScan, up to the request: the values found decide whether    *)
(* there is one.  A text out of nowhere ends the backend.  open tells how  *)
(* many handles are still open when it is called.                          *)
BeginForeignScan(flag, params, open) ==
    /\ scans < MaxScans
    /\ scans' = scans + 1
    /\ explain' = flag
    /\ bind' = params
    /\ asked' = NotAsked
    /\ rows' = << >>
    /\ ended' = FALSE
    /\ \E found \in Found(plan, params) :
          LET request == Requests(flag, found.q)
          IN  /\ scan' = [NoScan EXCEPT !.qual_value = found.q,
                                        !.min_confidence = found.c,
                                        !.api = request]
              /\ heap' = [heap EXCEPT !.apis = open + IF request THEN 1 ELSE 0]
              /\ phase' = IF found.q = Junk THEN "crashed"
                          ELSE IF request THEN "submitting" ELSE "open"
    /\ UNCHANGED <<plan, lost>>

(* The executor starts a plan: a nested loop has not set its parameters.   *)
Start(flag, params) ==
    /\ phase = "none"
    /\ \A p \in DOMAIN ParamValues :
          params[p] \in IF p \in ExecParams THEN {Unset} ELSE ParamValues[p]
    /\ BeginForeignScan(flag, params, heap.apis)

(* EndForeignScan closes the handle.                                       *)
Open == heap.apis - IF scan.api THEN 1 ELSE 0

(* The nested loop has set its parameters to other values.                 *)
Rebound(params) ==
    /\ phase = "open"
    /\ ~explain
    /\ \A p \in DOMAIN ParamValues :
          params[p] \in IF p \in ExecParams THEN ParamValues[p] ELSE {bind[p]}

(* Mutant of ReScan: the handle is not closed first.                       *)
ReScanUnclosed(params) ==
    /\ Rebound(params)
    /\ BeginForeignScan(FALSE, params, heap.apis)

(* Mutant of ReScan: goes back to the first result and asks nothing.       *)
ReScanRewind(params) ==
    /\ Rebound(params)
    /\ scans < MaxScans
    /\ scans' = scans + 1
    /\ bind' = params
    /\ scan' = [scan EXCEPT !.cursor = scan.response.head]
    /\ asked' = NotAsked
    /\ rows' = << >>
    /\ ended' = FALSE
    /\ UNCHANGED <<plan, phase, explain, heap, lost>>

(* ReScanForeignScan: ends the scan and begins it again.                   *)
ReScan(params) ==
    /\ Rebound(params)
    /\ BeginForeignScan(FALSE, params, Open)

(* The request is over: do_request, and the scan points to the results     *)
(* when the status is 200.  An abort of the parser ends the backend.       *)
Respond(reply) ==
    /\ phase = "submitting"
    /\ LET response == DoRequest(reply)
           new == Allocated(reply)
           ok  == Succeeds(reply) /\ OcgeoResponseOk(response)
       IN  IF Succeeds(reply) /\ Aborts(reply)
           THEN /\ phase' = "crashed"
                /\ UNCHANGED <<scan, heap, asked>>
           ELSE /\ phase' = "open"
                /\ scan' = [scan EXCEPT !.response = response,
                                        !.cursor = IF ok THEN response.head ELSE 0]
                /\ heap' = [k \in DOMAIN heap |->
                               IF k \in DOMAIN new THEN heap[k] + new[k] ELSE heap[k]]
                /\ asked' = [q |-> scan.qual_value, granted |-> ok]
    /\ UNCHANGED <<plan, explain, bind, rows, ended, lost, scans>>

(* The executor fetches only when the parameters are set.                  *)
Fetchable == phase = "open" /\ ~explain /\ \A p \in ExecParams : bind[p] # Unset

(* Mutant of Iterate: the cursor stays where it is.                        *)
IterateStuck ==
    /\ Fetchable
    /\ scan.cursor # 0
    /\ rows' = Append(rows, Row(scan.qual_value,
                                scan.response.cells[scan.cursor].internal))
    /\ UNCHANGED <<plan, phase, explain, bind, scan, heap, asked, ended, lost, scans>>

(* IterateForeignScan: the row of the cursor, which moves to the next.     *)
Iterate ==
    /\ Fetchable
    /\ scan.cursor # 0
    /\ LET result == scan.response.cells[scan.cursor]
       IN  /\ rows' = Append(rows, Row(scan.qual_value, result.internal))
           /\ scan' = [scan EXCEPT !.cursor = result.next]
    /\ UNCHANGED <<plan, phase, explain, bind, heap, asked, ended, lost, scans>>

(* IterateForeignScan: an empty slot.                                      *)
IterateEnd ==
    /\ Fetchable
    /\ scan.cursor = 0
    /\ ended' = TRUE
    /\ UNCHANGED <<plan, phase, explain, bind, scan, heap, asked, rows, lost, scans>>

(* The scan is over: its state goes with the memory of the statement.      *)
Forget ==
    /\ phase' = "none"
    /\ scan' = NoScan
    /\ explain' = FALSE
    /\ bind' = [p \in DOMAIN ParamValues |-> Unset]
    /\ asked' = NotAsked
    /\ rows' = << >>
    /\ ended' = FALSE
    /\ UNCHANGED <<plan, scans>>

End ==
    /\ phase = "open"
    /\ heap' = [heap EXCEPT !.apis = Open]
    /\ Forget
    /\ UNCHANGED lost

(* The statement fails, in the scan or elsewhere: EndForeignScan is not    *)
(* called.  While the request is under way only the scan itself can fail   *)
(* (a division by zero in the throttle).                                   *)
Fail ==
    /\ phase \in {"submitting", "open"}
    /\ lost' = lost + IF scan.api THEN 1 ELSE 0
    /\ UNCHANGED heap
    /\ Forget

(* The backend that crashed is replaced by a new one.                      *)
Reconnect ==
    /\ phase = "crashed"
    /\ heap' = NoHeap
    /\ lost' = 0
    /\ Forget

Bindings == [DOMAIN ParamValues -> (UNION {ParamValues[p] : p \in DOMAIN ParamValues})
                                      \union {Unset}]

Next ==
    \/ \E flag \in BOOLEAN, params \in Bindings : Start(flag, params)
    \/ \E params \in Bindings : ReScan(params)
    \/ \E reply \in BadReplies : Respond(reply)
    \/ Respond(Granted(scan.qual_value, scan.min_confidence))
    \/ Iterate
    \/ IterateEnd
    \/ End
    \/ Fail
    \/ Reconnect

Spec == Init /\ [][Next]_vars
-----------------------------------------------------------------------------
(* Properties.                                                             *)

MinConfidences == Confidence \union JunkInts \union {0}

(* Every variable has its type.                                            *)
TypeOK ==
    /\ plan \in Plans
    /\ phase \in {"none", "submitting", "open", "crashed"}
    /\ explain \in BOOLEAN
    /\ bind \in Bindings
    /\ scan.qual_value \in Text \union {NoText, Junk}
    /\ scan.min_confidence \in MinConfidences
    /\ scan.api \in BOOLEAN
    /\ scan.cursor \in {0} \union DOMAIN scan.response.cells
    /\ heap \in [{"apis", "urls", "docs", "arrays", "bounds"} -> Nat]
    /\ asked \in [q : Text \union {NoText}, granted : BOOLEAN]
    /\ ended \in BOOLEAN
    /\ lost \in Nat
    /\ scans \in 0 .. MaxScans

(* The rows that a list of cells starting at the cursor still holds.       *)
Pending ==
    LET cells == scan.response.cells
        from[c \in 0 .. Len(cells)] ==
            IF c = 0 THEN << >>
            ELSE <<Row(scan.qual_value, cells[c].internal)>> \o from[cells[c].next]
    IN  from[scan.cursor]

AllAnswers == {[i \in DOMAIN Answer(t, c) |-> Row(t, Answer(t, c)[i])] :
                   t \in Text, c \in MinConfidences}

Stream == INSTANCE ResultStream WITH Answers <- AllAnswers, pending <- Pending,
                                     delivered <- rows

(* The linked list, the cursor and the rescans deliver the rows of each    *)
(* answer one at a time, in order, none twice and none left out.           *)
ImplementsStream == Stream!Spec

(* The conditions of the query, as SQL understands them.                   *)
ValueIn(node, row, params) ==
    LET n == UnnestClause(node)
    IN  CASE n.tag = "Var" -> IF n.att = "q" THEN row.q ELSE row.result.confidence
          [] n.tag = "Const" -> n.val
          [] OTHER -> params[n.id]

Compare(op, a, b) ==
    /\ Null \notin {a, b}
    /\ CASE op = ">=" -> a >= b
         [] op = "<=" -> a <= b
         [] OTHER     -> a = b

HoldsOp(e, row, params) ==
    Compare(e.op, ValueIn(e.args[1], row, params), ValueIn(e.args[2], row, params))

Holds(e, row, params) ==
    IF e.tag = "OpExpr" THEN HoldsOp(e, row, params)
    ELSE \E i \in DOMAIN e.args : HoldsOp(e.args[i], row, params)

AllRows == UNION {{Row(t, Results[t][i]) : i \in DOMAIN Results[t]} : t \in Text}

Wanted == {row \in AllRows : \A i \in DOMAIN plan : Holds(plan[i], row, bind)}

(* The plans that the code is made for: one condition at least gives a     *)
(* value for q, and the quals compare their columns with constants and     *)
(* parameters of the right type.                                           *)
KnownValues(node) ==
    CASE node.tag = "Const" -> {node.val}
      [] node.tag = "Param" -> ParamValues[node.id]

Evaluable(conds) ==
    LET quals == ToSet(ExtractRestrictions(conds, Rels))
        On(qual, att, op) == qual.left.att = att /\ qual.op = op
    IN  /\ \E qual \in quals : On(qual, "q", "=")
        /\ \A qual \in quals :
              /\ \/ qual.right.tag = "Const"
                 \/ qual.right.tag = "Param" /\ qual.right.id \in DOMAIN ParamValues
              /\ On(qual, "q", "=") => KnownValues(qual.right) \subseteq Text \union {Null}
              /\ On(qual, "confidence", ">=") =>
                    KnownValues(qual.right) \subseteq Confidence \union {0, Null}
        /\ \A cond \in ToSet(conds) : cond.tag = "OpExpr" => cond.op \in DOMAIN Commutator

(* What the parameters and constants opposite a column are now.            *)
Written(att, op) ==
    {IF qual.right.tag = "Const" THEN qual.right.val ELSE bind[qual.right.id] :
        qual \in {x \in ToSet(ExtractRestrictions(plan, Rels)) :
                      x.left.att = att /\ x.op = op}}

(* A query that can be evaluated asks only for what is written in it: the  *)
(* text and the confidence of a request are those of its constants and of  *)
(* its parameters as they are since the last rescan.  NULL and the zero    *)
(* Datum of a parameter that is not yet set, which BeginForeignScan tells  *)
(* apart by the value alone, become neither a text nor a confidence.       *)
AsksWhatIsWritten ==
    Evaluable(plan) =>
        /\ scan.qual_value # NoText => scan.qual_value \in Text \cap Written("q", "=")
        /\ scan.min_confidence # 0 =>
              scan.min_confidence \in Confidence \cap Written("confidence", ">=")

(* No row is missed: once the scan has returned its last row, it has       *)
(* returned every row that satisfies the conditions of the query, unless   *)
(* the request for it failed.  In particular, no condition is pushed down  *)
(* that asks for more than the query does, and the API is not called only  *)
(* when no row can satisfy the query.                                      *)
NothingMissed ==
    (ended /\ (asked.q # NoText => asked.granted))
        => Wanted \subseteq {rows[i] : i \in DOMAIN rows}

(* Only the question of the current rescan is answered: every row has the  *)
(* q that was asked, and IterateForeignScan, which compares the name of    *)
(* each column with qual_key, finds it set.                                *)
RowsAreOfTheQuestion ==
    /\ \A i \in DOMAIN rows : rows[i].q = asked.q
    /\ scan.cursor # 0 => scan.qual_value = asked.q /\ asked.q # NoText

(* Every handle that is open belongs to the scan, or to a statement that   *)
(* failed: ending and restarting a scan release exactly what they took.    *)
HandlesOwned == heap.apis = lost + IF scan.api THEN 1 ELSE 0

(* EXPLAIN allocates nothing and asks nothing.                             *)
ExplainIsSilent == [][explain' => heap' = heap /\ asked' = NotAsked]_vars
=============================================================================
