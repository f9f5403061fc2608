--------------------------- MODULE MCForeignScan ---------------------------
(* Small instances of ForeignScan for TLC.                                 *)
EXTENDS ForeignScan

CONSTANTS api, users, paris, rome, p, ext

Commute == [op \in {"=", ">=", "<=", "~~"} |->
               CASE op = "=" -> "=" [] op = ">=" -> "<=" [] op = "<=" -> ">="
                 [] OTHER -> NoOperator]

q          == Var(api, "q")
confidence == Var(api, "confidence")

Is(l, r)    == OpExpr("=", <<l, r>>)
AtLeast(l, r) == OpExpr(">=", <<l, r>>)

(* Conditions on constants, each way round, and ones not pushed down.      *)
Constants ==
    {<<Is(q, Const(paris))>>,
     <<Is(Const(rome), RelabelType(q)), AtLeast(confidence, Const(5))>>,
     <<Is(q, Const(paris)), AtLeast(Const(5), confidence)>>,
     <<Is(q, Const(paris)), AtLeast(confidence, Const(5)), AtLeast(confidence, Const(1))>>,
     <<Is(q, Const(paris)), Is(q, Const(rome))>>,
     <<Is(q, Const(Null)), AtLeast(confidence, Const(0))>>,
     <<Is(q, Const(rome)), OpExpr("~~", <<Const(paris), q>>),
       BoolExpr(<<Is(q, Const(paris)), AtLeast(confidence, Const(5))>>)>>}

(* Conditions on parameters, of a nested loop and of a prepared statement. *)
Joins ==
    {<<Is(q, Param(p))>>,
     <<Is(RelabelType(Param(p)), q), AtLeast(confidence, Param(ext))>>,
     <<Is(q, Param(p)), Is(q, Const(rome))>>}

AllPlans == Constants \union Joins

(* Joins on an expression over a row of users, which cannot be evaluated   *)
(* as the others can: for q, and for the confidence.                       *)
ExpressionJoin == {<<Is(q, Expr(p, {users}, FALSE))>>,
                   <<Is(q, Const(paris)), AtLeast(confidence, Expr(ext, {users}, FALSE))>>}

ASSUME PlansAssumption == /\ \A conds \in AllPlans : Evaluable(conds)
                          /\ \A conds \in ExpressionJoin : ~Evaluable(conds)

Values == [x \in {p, ext} |-> IF x = p THEN {paris, rome, Null} ELSE {5, Null}]

R(n, c) == [id |-> n, confidence |-> c, geometry |-> Object,
            bounds |-> IF c = 9 THEN Object ELSE Missing]

SomeResults == [t \in {paris, rome} |->
    IF t = paris THEN <<R(1, 9), R(2, 1), R(3, 5)>> ELSE <<R(4, 5)>>]

(* A success with one result.                                              *)
One(result) == [code |-> OCGEO_CODE_OK, rate |-> Missing, total |-> 1,
                results |-> <<result>>]

(* Quota exceeded; an error with a result that has neither bounds nor a    *)
(* geometry; a page with no status; a rate, bounds and a geometry that     *)
(* lack a member; no results; no answer; an answer that is not JSON.       *)
Bad == {[code |-> 402, rate |-> Object, total |-> 0, results |-> << >>],
        [One([R(5, 1) EXCEPT !.geometry = Missing]) EXCEPT !.code = 500],
        [code |-> Missing, rate |-> Missing, total |-> Missing, results |-> Missing],
        [One(R(5, 1)) EXCEPT !.rate = Partial],
        One([R(5, 1) EXCEPT !.bounds = Partial]),
        One([R(5, 1) EXCEPT !.geometry = Partial]),
        [One(R(5, 1)) EXCEPT !.results = Missing],
        Lost, Garbage}
NoBad == {}
=============================================================================
