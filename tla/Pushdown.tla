------------------------------ MODULE Pushdown ------------------------------
(***************************************************************************)
(* utils.c: which conditions of a query, in which form, reach the scan.    *)
(*                                                                         *)
(* An expression is a record with a tag: a column of a relation, a         *)
(* constant, a parameter, one of these under a cast that changes nothing,  *)
(* or anything else, of which only the relations it mentions, whether it   *)
(* is volatile and a name for its value are kept.  A condition is an       *)
(* operator applied to expressions, another test of expressions, or AND,   *)
(* OR or NOT applied to conditions.                                        *)
(***************************************************************************)
EXTENDS Lists

CONSTANTS Commutator,    \* Commutator[op]: the operator with its operands swapped
          NoOperator,    \* for an operator that has no commutator
          SystemColumns  \* columns that are not the table's own

(* An operator is the commutator of its commutator, if it has one; those   *)
(* of the operators that the server knows are given.                       *)
ASSUME CommutatorAssumption ==
    /\ {"=", ">=", "<="} \subseteq DOMAIN Commutator /\ NoOperator \notin DOMAIN Commutator
    /\ Commutator["="] = "=" /\ Commutator[">="] = "<="
    /\ \A op \in DOMAIN Commutator : Commutator[op] # NoOperator =>
          Commutator[op] \in DOMAIN Commutator /\ Commutator[Commutator[op]] = op

Var(rel, att)          == [tag |-> "Var", rel |-> rel, att |-> att]
Const(val)             == [tag |-> "Const", val |-> val]
Param(id)              == [tag |-> "Param", id |-> id]
RelabelType(arg)       == [tag |-> "RelabelType", arg |-> arg]
Expr(id, rels, mutable) == [tag |-> "Expr", id |-> id, rels |-> rels, mutable |-> mutable]
OpExpr(op, args)       == [tag |-> "OpExpr", op |-> op, args |-> args]
NullTest(arg)          == [tag |-> "NullTest", args |-> <<arg>>]
ScalarArrayOpExpr(op, args) == [tag |-> "ScalarArrayOpExpr", op |-> op, args |-> args]
BoolExpr(args)         == [tag |-> "BoolExpr", args |-> args]

(* pull_varnos and contain_volatile_functions, on the right of a clause.   *)
Varnos(node) == CASE node.tag = "Var"  -> {node.rel}
                  [] node.tag = "Expr" -> node.rels
                  [] OTHER             -> {}
Mutable(node) == node.tag = "Expr" /\ node.mutable

UnnestClause(node) == IF node.tag = "RelabelType" THEN node.arg ELSE node

(* The target relation's column goes to the left, when the operator has a  *)
(* commutator.                                                             *)
ToSwap(l, r, op, rels) ==
    /\ r.tag = "Var"
    /\ l.tag = "Var" => l.rel \notin rels /\ r.rel \in rels
    /\ Commutator[op] # NoOperator

(* Mutant of SwapOperandsAsNeeded: the operator is not commuted.           *)
SwapOperandsOnly(l, r, op, rels) ==
    IF ToSwap(l, r, op, rels)
    THEN [left |-> r, op |-> op, right |-> l]
    ELSE [left |-> l, op |-> op, right |-> r]

SwapOperandsAsNeeded(l, r, op, rels) ==
    IF ToSwap(l, r, op, rels)
    THEN [left |-> r, op |-> Commutator[op], right |-> l]
    ELSE [left |-> l, op |-> op, right |-> r]

(* A binary condition with a column of the target relation on the left.    *)
CanonicalOpExpr(e, rels) ==
    SwapOperandsAsNeeded(UnnestClause(e.args[1]), UnnestClause(e.args[2]), e.op, rels)

OnTarget(clause, rels) == /\ clause.left.tag = "Var"
                          /\ clause.left.rel \in rels
                          /\ clause.left.att \notin SystemColumns

(* The qual that a condition yields: none when it is not canonical, or if   *)
(* its right side is volatile or mentions the target relation too.         *)
Extractable(clause, rels) == /\ OnTarget(clause, rels)
                             /\ ~Mutable(clause.right)
                             /\ ~(rels \subseteq Varnos(clause.right))

ExtractClauseFromOpExpr(e, rels) ==
    IF Len(e.args) = 2 /\ Extractable(CanonicalOpExpr(e, rels), rels)
    THEN <<CanonicalOpExpr(e, rels)>>
    ELSE << >>

(* The quals of a list of conditions, in their order; what is no operator  *)
(* is skipped with a warning.                                              *)
ExtractRestrictions(conds, rels) ==
    Collect(conds, [e \in ToSet(conds) |->
                       IF e.tag = "OpExpr" THEN ExtractClauseFromOpExpr(e, rels) ELSE << >>])
-----------------------------------------------------------------------------
(* What should reach the scan: the conditions that have a qual, and their  *)
(* quals.                                                                  *)
Pushed(conds, rels) ==
    {e \in ToSet(conds) : /\ e.tag = "OpExpr" /\ Len(e.args) = 2
                          /\ Extractable(CanonicalOpExpr(e, rels), rels)}

QualsOf(conds, rels) == {CanonicalOpExpr(e, rels) : e \in Pushed(conds, rels)}
=============================================================================
