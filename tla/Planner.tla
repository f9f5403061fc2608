------------------------------- MODULE Planner -------------------------------
(***************************************************************************)
(* ocgeo_fdw.c: planning a scan of the foreign table, from the conditions  *)
(* of a query to the plan whose quals and columns the scan works with.     *)
(* The planner of PostgreSQL calls ocgeoGetForeignRelSize,                 *)
(* ocgeoGetForeignPaths and, for a path that it takes, ocgeoGetForeignPlan.*)
(*                                                                         *)
(* A query is what PostgreSQL hands over: base, the conditions on the      *)
(* table alone; classes, the equivalence classes, with the relations, the  *)
(* number of the members and the conditions each was made from; outer, the *)
(* conditions of outer joins, each with the relations on its outer side;   *)
(* target, the columns that are used above the scan.                       *)
(***************************************************************************)
EXTENDS Pushdown, Lists, FiniteSets

CONSTANTS
    TableRel,     \* the foreign table
    Columns,      \* its columns, in their order
    TextColumns,  \* those whose type is text or varchar
    Queries       \* bound: the queries

VARIABLES
    query,
    pc,            \* what is called next, or how planning ended
    remote_conds,
    local_conds,
    paths,
    plan

vars == <<query, pc, remote_conds, local_conds, paths, plan>>

q == Var(TableRel, "q")

(* The conditions under an AND, OR or NOT in its place, and the tests of a *)
(* condition, in which these are nested three deep at most.                *)
Opened(conds) ==
    {c \in conds : c.tag # "BoolExpr"}
        \union UNION {ToSet(c.args) : c \in {c \in conds : c.tag = "BoolExpr"}}
Tests(cond) == Opened(Opened(Opened({cond})))

(* pull_var_clause, for an expression and for a condition.  A function of  *)
(* the table is one of its q.                                              *)
VarsIn(node) ==
    CASE node.tag = "Var"         -> {node}
      [] node.tag = "RelabelType" -> IF node.arg.tag = "Var" THEN {node.arg} ELSE {}
      [] node.tag = "Expr"        -> IF TableRel \in node.rels THEN {q} ELSE {}
      [] OTHER                    -> {}
RelsIn(node) == IF node.tag = "RelabelType" THEN Varnos(node.arg) ELSE Varnos(node)

Vars(cond) == UNION {UNION {VarsIn(arg) : arg \in ToSet(test.args)} : test \in Tests(cond)}
RelsOf(cond) == UNION {RelsIn(arg) : arg \in ToSet(cond.args)}

(* The columns that the scan reads for the rest of the query, and for its  *)
(* conditions on the table.                                                *)
Used(k) == k.target \union UNION {Vars(c) : c \in ToSet(k.base)}
JoinClauses(k) == (UNION {class.sources : class \in k.classes})
                     \union {join.clause : join \in k.outer}

ASSUME ColumnsAssumption ==
    /\ Columns \in Seq(ToSet(Columns)) /\ IsInjective(Columns)
    /\ ToSet(Columns) \cap SystemColumns = {}

IsColumn(v)   == v = Var(v.rel, v.att) /\ (v.rel = TableRel => v.att \in ToSet(Columns))
IsOperator(c) == /\ c = OpExpr(c.op, c.args) /\ c.args \in Seq(ToSet(c.args))
                 /\ \A v \in Vars(c) : IsColumn(v)

(* What PostgreSQL guarantees of a query: it mentions columns of the table *)
(* (not the whole row), those of the conditions that join it too among     *)
(* what is used.  A class knows the relations of its conditions.  The      *)
(* inner side of an outer join is taken to mention the table alone, and    *)
(* AND, OR and NOT to be nested three deep at most.                        *)
ASSUME QueriesAssumption ==
    \A k \in Queries :
        /\ k.base \in Seq(ToSet(k.base))
        /\ \A c \in ToSet(k.base) : /\ \A test \in Tests(c) : test.tag # "BoolExpr"
                                    /\ \A v \in Vars(c) : IsColumn(v)
                                    /\ c.tag = "OpExpr" => IsOperator(c)
        /\ \A v \in k.target : IsColumn(v)
        /\ \A c \in JoinClauses(k) :
              /\ IsOperator(c) /\ Len(c.args) = 2
              /\ \A v \in Vars(c) : v.rel = TableRel => v \in Used(k)
        /\ IsFiniteSet(JoinClauses(k))
        /\ \A class \in k.classes : \A c \in class.sources : RelsOf(c) \subseteq class.relids
        /\ \A join \in k.outer :
              /\ join.outer_relids # {}
              /\ TableRel \notin join.outer_relids
                    => RelsOf(join.clause) \subseteq join.outer_relids \union {TableRel}
-----------------------------------------------------------------------------
(* classifyConditions: q = anything, confidence >= anything.  A condition  *)
(* that begins with no column passes the test if it ends with a constant,  *)
(* but what is read as its relation is none of the table's.                *)

(* Mutant of IsRemote: both restrictions are asked of the same condition.  *)
IsRemoteBoth(cond) ==
    /\ cond.tag = "OpExpr" /\ Len(cond.args) = 2
    /\ cond.args[1].tag = "Var" /\ cond.args[1].rel = TableRel
    /\ cond.op = "=" /\ cond.args[1].att = "q" /\ cond.op = ">="

IsRemote(cond) ==
    /\ cond.tag = "OpExpr" /\ Len(cond.args) = 2
    /\ cond.args[1].tag = "Var" /\ cond.args[1].rel = TableRel
    /\ \/ cond.op = "=" /\ cond.args[1].att = "q"
       \/ cond.op = ">=" /\ cond.args[1].att = "confidence"

Init ==
    /\ query \in Queries
    /\ pc = "size"
    /\ remote_conds = << >>
    /\ local_conds = << >>
    /\ paths = {}
    /\ plan = [quals |-> << >>, columns |-> << >>]

GetForeignRelSize ==
    /\ pc = "size"
    /\ LET remote == {c \in ToSet(query.base) : IsRemote(c)}
       IN  /\ remote_conds' = KeepOnly(query.base, remote)
           /\ local_conds' = KeepOnly(query.base, ToSet(query.base) \ remote)
    /\ pc' = "paths"
    /\ UNCHANGED <<query, paths, plan>>
-----------------------------------------------------------------------------
(* findPaths and ocgeoGetForeignPaths.                                     *)

(* isAttrInRestrictInfo *)
OnQuery(cond) == q \in Vars(cond)

(* clausesInvolvingAttr: a class with one member is left alone.            *)
ClausesInvolvingAttr(class) ==
    IF class.members > 1 THEN {c \in class.sources : OnQuery(c)} ELSE {}

Joined == {class \in query.classes : ClausesInvolvingAttr(class) # {}}
Outer  == {join \in query.outer : OnQuery(join.clause)}

Clauses     == (UNION {ClausesInvolvingAttr(class) : class \in Joined})
                   \union {join.clause : join \in Outer}
OuterRelids == (UNION {class.relids : class \in Joined})
                   \union (UNION {join.outer_relids : join \in Outer})

(* Mutant of ReqOuter: the table is among the relations that it requires.  *)
ReqOuterAll == OuterRelids

(* bms_difference: the relations that the path requires.                   *)
ReqOuter == OuterRelids \ {TableRel}

Path(required, clauses) == [required |-> required, clauses |-> clauses]
DefaultPath == Path({}, {})

FindPaths ==
    IF "q" \in ToSet(Columns) /\ ReqOuter # {} THEN {Path(ReqOuter, Clauses)} ELSE {}

(* A default path only where there is none with parameters, and a remote   *)
(* condition.                                                              *)
GetForeignPaths ==
    /\ pc = "paths"
    /\ paths' = IF FindPaths # {} THEN FindPaths
                ELSE IF remote_conds # << >> THEN {DefaultPath} ELSE {}
    /\ pc' = IF paths' = {} THEN "failed" ELSE "plan"
    /\ UNCHANGED <<query, remote_conds, local_conds, plan>>
-----------------------------------------------------------------------------
(* ocgeoGetForeignPlan.                                                    *)

(* Mutant of ColumnList: only operators are searched for columns.          *)
ColumnListOfOperators ==
    KeepOnly(Columns, {v.att : v \in query.target \union
                 UNION {Vars(c) : c \in {c \in ToSet(query.base) : c.tag = "OpExpr"}}})

(* The columns that are used above the scan or by a condition.             *)
ColumnList == KeepOnly(Columns, {c \in ToSet(Columns) : Var(TableRel, c) \in Used(query)})

(* printRestrictInfoList takes the sides of an operator for a column and a *)
(* constant.  A parameter read as the text of a constant ends the backend, *)
(* another expression may; what is no column may have the number of one,   *)
(* or its name is not found.                                               *)
Printing(cond) ==
    IF cond.tag # "OpExpr" THEN {"plan"}
    ELSE LET first == cond.args[1] second == cond.args[2]
         IN  CASE first.tag = "Const"  -> {"plan"}
               [] first.tag \notin {"Var", "Const"} -> {"plan", "failed"}
               [] first.tag = "Var" /\ (first.att \notin TextColumns \/ second.tag = "Const")
                     -> {"plan"}
               [] first.tag = "Var" /\ first.att \in TextColumns /\ second.tag = "Param"
                     -> {"crashed"}
               [] OTHER -> {"plan", "crashed"}

(* How printing a list ends: the first condition that does not go on to   *)
(* the next stops it.                                                      *)
PrintRestrictInfoList(conds) ==
    LET Reached(n) == \A i \in 1 .. n - 1 : "plan" \in Printing(conds[i])
    IN  (UNION {Printing(conds[n]) \ {"plan"} : n \in {n \in 1 .. Len(conds) : Reached(n)}})
           \union {end \in {"plan"} : Reached(Len(conds) + 1)}

(* The executor sets parameters to the columns of other relations.         *)
Parameter(node) ==
    IF node.tag = "Var" /\ node.rel # TableRel THEN Param(<<node.rel, node.att>>) ELSE node
Parameterised(cond) == [cond EXCEPT !.args = [n \in DOMAIN @ |-> Parameter(@[n])]]

(* Mutant of ScanClauses: what the server looks after is not checked again.*)
ScanClausesLocal(path) == local_conds \o SetToSeq({Parameterised(c) : c \in path.clauses})

(* All conditions: the executor checks them again.                         *)
ScanClauses(path) == query.base \o SetToSeq({Parameterised(c) : c \in path.clauses})

GetForeignPlan ==
    /\ pc = "plan"
    /\ \E path \in paths, end \in PrintRestrictInfoList(query.base) :
          IF end = "plan"
          THEN /\ plan' = [quals |-> ScanClauses(path), columns |-> ColumnList]
               /\ pc' = "planned"
          ELSE pc' = end /\ UNCHANGED plan
    /\ UNCHANGED <<query, remote_conds, local_conds, paths>>

Next == GetForeignRelSize \/ GetForeignPaths \/ GetForeignPlan

Spec == Init /\ [][Next]_vars
-----------------------------------------------------------------------------
(* A table that is joined on q is scanned once for each row of the others, *)
(* and in no other way: its only path requires other relations, not the    *)
(* table, and all those that its conditions mention.  (Left out are joins  *)
(* in which the table is on the outer side: their conditions are added     *)
(* without the relations on the inner one.)                                *)
JoinsAreNested ==
    \A path \in paths : path # DefaultPath =>
        /\ paths = {path}
        /\ path.required # {} /\ TableRel \notin path.required
        /\ (\A join \in Outer : TableRel \notin join.outer_relids) =>
              UNION {RelsOf(c) : c \in path.clauses} \subseteq path.required \union {TableRel}

(* What the planner counts as remote, with a constant or a parameter on    *)
(* the right, is what the scan will extract from its quals (utils.c), as   *)
(* is the condition of a join with a column; and nothing that the query    *)
(* asks for is left out of the quals that are checked again.               *)
PlannedIsAsked ==
    pc = "planned" =>
        LET asked == ToSet(ExtractRestrictions(plan.quals, {TableRel}))
            Asked(op, att, right) == [left |-> Var(TableRel, att), op |-> op, right |-> right] \in asked
        IN  /\ \A c \in ToSet(remote_conds) :
                  c.args[2].tag \in {"Const", "Param"} => Asked(c.op, c.args[1].att, c.args[2])
            /\ \A path \in paths : \A c \in path.clauses, n \in 1 .. 2 :
                  LET other == c.args[3 - n]
                  IN  c.op = "=" /\ c.args[n] = q /\ other.tag = "Var" /\ other.rel # TableRel
                          => Asked("=", "q", Parameter(other))
            /\ ToSet(query.base) \subseteq ToSet(plan.quals)

(* The columns of the plan, which alone get values, are all that the rest  *)
(* of the query and the quals need: those of every operator, IN or IS NULL *)
(* however deep in AND, OR and NOT, of conditions that the server looks    *)
(* after too, and of joins; each once and in the order of the table.       *)
ColumnsAreRead ==
    pc = "planned" =>
        /\ \A v \in query.target \union UNION {Vars(c) : c \in ToSet(plan.quals)} :
              v.rel = TableRel => v.att \in ToSet(plan.columns)
        /\ \A n, m \in DOMAIN plan.columns :
              n < m => SelectInSeq(Columns, LAMBDA c : c = plan.columns[n])
                          < SelectInSeq(Columns, LAMBDA c : c = plan.columns[m])

(* The queries that README.md shows are planned: a column on the left and  *)
(* a constant on the right of each condition, one of them q = constant, or *)
(* a join on q.                                                            *)
AsDocumented ==
    /\ \A c \in ToSet(query.base) :
          c.tag = "OpExpr" /\ Len(c.args) = 2 /\ c.args[1].tag = "Var" /\ c.args[2].tag = "Const"
    /\ \/ \E c \in ToSet(query.base) : c.op = "=" /\ c.args[1] = q
       \/ \E class \in query.classes :
             /\ class.members > 1 /\ class.relids # {TableRel}
             /\ \E c \in class.sources : OnQuery(c)
       \/ \E join \in query.outer : OnQuery(join.clause) /\ TableRel \notin join.outer_relids

DocumentedQueriesArePlanned == AsDocumented => pc \notin {"failed", "crashed"}
=============================================================================
