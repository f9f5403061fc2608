------------------------------ MODULE MCPlanner ------------------------------
(* Queries of a few conditions and joins, for TLC.                         *)
EXTENDS Planner

CONSTANTS users, cities, paris, five, p

Commute == [op \in {"=", ">=", "<=", "~~"} |->
               CASE op = "=" -> "=" [] op = ">=" -> "<=" [] op = "<=" -> ">="
                 [] OTHER -> NoOperator]

Is(l, r)      == OpExpr("=", <<l, r>>)
AtLeast(l, r) == OpExpr(">=", <<l, r>>)

formatted  == Var(TableRel, "formatted")
confidence == Var(TableRel, "confidence")
address    == Var(users, "address")
city       == Var(cities, "name")

TheColumns == <<"q", "formatted", "confidence">>

Conditions ==
    {Is(q, Const(paris)), Is(Const(paris), q), Is(q, Param(p)), Is(q, formatted),
     Is(RelabelType(q), Const(paris)), AtLeast(confidence, Const(five)),
     AtLeast(confidence, Param(p)), OpExpr("<=", <<Const(five), confidence>>),
     Is(Expr("lower", {TableRel}, FALSE), Const(paris)), Is(formatted, Const(paris)),
     OpExpr("~~", <<formatted, Const(paris)>>), NullTest(confidence),
     ScalarArrayOpExpr("=", <<q, Const(paris)>>), BoolExpr(<<NullTest(q)>>),
     BoolExpr(<<Is(formatted, Const(paris)),
                BoolExpr(<<Is(q, Const(paris)), BoolExpr(<<NullTest(confidence)>>)>>)>>)}

Base == {<< >>} \union {<<c>> : c \in Conditions}
            \union {<<c, d>> : c \in Conditions, d \in Conditions}

Class(relids, members, sources) ==
    [relids |-> relids, members |-> members, sources |-> sources]

(* No join on q; with a column, two columns, an expression; a sort order.  *)
Classes ==
    {{}, {Class({TableRel}, 1, {})}, {Class({TableRel}, 2, {Is(q, Const(paris))})},
     {Class({TableRel, users}, 2, {Is(q, address)})},
     {Class({TableRel, users}, 2, {Is(Expr("upper", {users}, FALSE), q)})},
     {Class({TableRel, users, cities}, 3, {Is(q, address), Is(address, city)})},
     {Class({TableRel, users}, 2, {Is(q, address)}),
      Class({TableRel, cities}, 2, {Is(Expr("lower", {TableRel}, FALSE), city)})},
     {Class({users, cities}, 2, {Is(address, city)})}}

(* users LEFT JOIN the table, the table LEFT JOIN cities.                  *)
OuterJoins == {{}, {[clause |-> Is(address, q), outer_relids |-> {users}]},
               {[clause |-> Is(q, city), outer_relids |-> {TableRel}]}}

Targets == {{q}, {formatted}, {q, formatted}}

(* The columns that a join compares are used above the scan.               *)
AllQueries ==
    {[base |-> b, classes |-> cl, outer |-> o, target |-> t] :
        b \in Base, cl \in Classes, o \in OuterJoins, t \in Targets}
WithJoinColumns == {k \in AllQueries : k.outer # {} \/ k.classes # {} => q \in k.target}
=============================================================================
