--------------------------- MODULE PlannerProofs ---------------------------
(***************************************************************************)
(* What holds of the paths and of the plan of any query, whatever its      *)
(* conditions, classes and outer joins.                                    *)
(***************************************************************************)
EXTENDS Planner, ListTheorems

Remote == {c \in ToSet(query.base) : IsRemote(c)}

PlanInv ==
    /\ query \in Queries
    /\ paths \in {{}, FindPaths, {DefaultPath}}
    /\ pc # "size" => remote_conds = KeepOnly(query.base, Remote)
    /\ pc = "planned" => /\ \E path \in paths : plan.quals = ScanClauses(path)
                         /\ plan.columns = ColumnList

(* An operator is the one test of itself.                                  *)
LEMMA VarsOfOperator ==
    ASSUME NEW c, c.tag # "BoolExpr"
    PROVE  Vars(c) = UNION {VarsIn(arg) : arg \in ToSet(c.args)}
<1>1. Opened({c}) = {c}
    BY DEF Opened
<1>2. Tests(c) = {c}
    BY <1>1 DEF Tests
<1>q. QED BY <1>2 DEF Vars

(* Each callback leaves behind what its definition says of the query.      *)
LEMMA PlanInvariant == Spec => []PlanInv
<1>1. Init => PlanInv
    BY DEF Init, PlanInv
<1>2. PlanInv /\ [Next]_vars => PlanInv'
    <2> SUFFICES ASSUME PlanInv, [Next]_vars PROVE PlanInv'
        OBVIOUS
    <2>0. ASSUME UNCHANGED query
          PROVE  /\ FindPaths' = FindPaths /\ Remote' = Remote /\ ColumnList' = ColumnList
                 /\ \A path : ScanClauses(path)' = ScanClauses(path)
        BY <2>0 DEF FindPaths, ReqOuter, OuterRelids, Clauses, Joined, Outer, Remote,
                   ColumnList, ScanClauses
    <2>1. CASE GetForeignRelSize
        BY <2>0, <2>1 DEF GetForeignRelSize, PlanInv, Remote
    <2>2. CASE GetForeignPaths
        BY <2>0, <2>2 DEF GetForeignPaths, PlanInv
    <2>3. CASE GetForeignPlan
        <3>1. /\ pc = "plan" /\ UNCHANGED <<query, remote_conds, paths>>
              /\ pc' = "planned" => /\ \E path \in paths : plan'.quals = ScanClauses(path)
                                    /\ plan'.columns = ColumnList
            <4>1. PICK path \in paths, end \in PrintRestrictInfoList(query.base) :
                      IF end = "plan"
                      THEN /\ plan' = [quals |-> ScanClauses(path), columns |-> ColumnList]
                           /\ pc' = "planned"
                      ELSE pc' = end /\ UNCHANGED plan
                BY <2>3 DEF GetForeignPlan
            <4>2. end # "planned"
                <5>1. \A c : Printing(c) \subseteq {"plan", "failed", "crashed"}
                    BY DEF Printing
                <5>2. end = "plan" \/ \E n \in 1 .. Len(query.base) : end \in Printing(query.base[n])
                    <6> DEFINE Reached(n) ==
                               \A i \in 1 .. n - 1 : "plan" \in Printing(query.base[i])
                    <6>1. \/ end \in {e \in {"plan"} : Reached(Len(query.base) + 1)}
                          \/ end \in UNION {Printing(query.base[n]) \ {"plan"} :
                                             n \in {n \in 1 .. Len(query.base) : Reached(n)}}
                        BY DEF PrintRestrictInfoList
                    <6> HIDE DEF Reached
                    <6>q. QED BY <6>1
                <5> HIDE DEF Printing
                <5>q. QED BY <5>1, <5>2
            <4>q. QED BY <2>3, <4>1, <4>2 DEF GetForeignPlan
        <3>q. QED BY <2>0, <3>1 DEF PlanInv
    <2>4. CASE UNCHANGED vars
        BY <2>0, <2>4 DEF vars, PlanInv
    <2>q. QED BY <2>1, <2>2, <2>3, <2>4 DEF Next
<1>q. QED BY <1>1, <1>2, PTL DEF Spec

(* The conditions of the path mention what it requires, and the table.     *)
LEMMA ClausesCovered ==
    ASSUME query \in Queries, \A join \in Outer : TableRel \notin join.outer_relids,
           NEW c \in Clauses
    PROVE  RelsOf(c) \subseteq ReqOuter \union {TableRel}
<1>1. ASSUME NEW class \in Joined, c \in ClausesInvolvingAttr(class)
      PROVE  RelsOf(c) \subseteq OuterRelids
    <2>1. class \in query.classes /\ c \in class.sources
        BY <1>1 DEF Joined, ClausesInvolvingAttr
    <2>2. RelsOf(c) \subseteq class.relids
        BY <2>1, QueriesAssumption
    <2>q. QED BY <1>1, <2>2 DEF OuterRelids
<1>2. ASSUME NEW join \in Outer, c = join.clause
      PROVE  RelsOf(c) \subseteq OuterRelids \union {TableRel}
    <2>1. join \in query.outer /\ TableRel \notin join.outer_relids
        BY <1>2 DEF Outer
    <2>2. RelsOf(c) \subseteq join.outer_relids \union {TableRel}
        BY <1>2, <2>1, QueriesAssumption
    <2>q. QED BY <1>2, <2>2 DEF OuterRelids
<1>3. \/ \E class \in Joined : c \in ClausesInvolvingAttr(class)
      \/ \E join \in Outer : c = join.clause
    BY DEF Clauses
<1>q. QED BY <1>1, <1>2, <1>3 DEF ReqOuter

(* A join on q is planned as a nested loop or not at all: its path is the  *)
(* only one, and can be run as soon as the relations that it requires      *)
(* have a row.                                                             *)
THEOREM JoinsNested == Spec => []JoinsAreNested
<1>1. ASSUME PlanInv PROVE JoinsAreNested
    <2> SUFFICES ASSUME NEW path \in paths, path # DefaultPath
                 PROVE  /\ paths = {path}
                        /\ path.required # {} /\ TableRel \notin path.required
                        /\ (\A join \in Outer : TableRel \notin join.outer_relids) =>
                              UNION {RelsOf(c) : c \in path.clauses}
                                  \subseteq path.required \union {TableRel}
        BY DEF JoinsAreNested
    <2>1. paths = FindPaths /\ path \in FindPaths
        BY <1>1 DEF PlanInv
    <2>2. /\ FindPaths = {path} /\ path = Path(ReqOuter, Clauses) /\ ReqOuter # {}
        BY <2>1 DEF FindPaths
    <2>3. path.required = ReqOuter /\ path.clauses = Clauses
        BY <2>2 DEF Path
    <2>4. TableRel \notin ReqOuter
        BY DEF ReqOuter
    <2>5. ASSUME \A join \in Outer : TableRel \notin join.outer_relids
          PROVE  UNION {RelsOf(c) : c \in Clauses} \subseteq ReqOuter \union {TableRel}
        BY <1>1, <2>5, ClausesCovered DEF PlanInv
    <2>q. QED BY <2>1, <2>2, <2>3, <2>4, <2>5
<1>q. QED BY <1>1, PlanInvariant, PTL
-----------------------------------------------------------------------------
(* The conditions of a path are conditions of joins: there are finitely    *)
(* many, and as many with parameters in them.                              *)
LEMMA PathClauses ==
    ASSUME PlanInv, NEW path \in paths
    PROVE  /\ path.clauses \subseteq JoinClauses(query)
           /\ LET params == {Parameterised(c) : c \in path.clauses}
              IN  SetToSeq(params) \in Seq(params) /\ Range(SetToSeq(params)) = params
<1>1. path.clauses \in {Clauses, {}}
    BY DEF PlanInv, FindPaths, DefaultPath, Path
<1>2. Clauses \subseteq JoinClauses(query)
    <2>1. ASSUME NEW class \in Joined
          PROVE  class \in query.classes /\ ClausesInvolvingAttr(class) \subseteq class.sources
        BY DEF Joined, ClausesInvolvingAttr
    <2>2. UNION {ClausesInvolvingAttr(class) : class \in Joined} \subseteq JoinClauses(query)
        BY <2>1 DEF JoinClauses
    <2>3. {join.clause : join \in Outer} \subseteq JoinClauses(query)
        <3>1. Outer \subseteq query.outer
            BY DEF Outer
        <3>q. QED BY <3>1 DEF JoinClauses
    <2>q. QED BY <2>2, <2>3 DEF Clauses
<1>3. IsFiniteSet(path.clauses)
    <2>1. IsFiniteSet(JoinClauses(query))
        BY QueriesAssumption DEF PlanInv
    <2>q. QED BY <1>1, <1>2, <2>1, FS_Subset
<1> DEFINE params == {Parameterised(c) : c \in path.clauses}
           f == [c \in path.clauses |-> Parameterised(c)]
<1>4. IsFiniteSet(params)
    <2>1. f \in Surjection(path.clauses, params)
        BY DEF Surjection
    <2> HIDE DEF f, params
    <2>q. QED BY <1>3, <2>1, FS_Surjection
<1> HIDE DEF params
<1>5. SetToSeq(params) \in Seq(params) /\ Range(SetToSeq(params)) = params
    BY <1>4, SetToSeqMembers
<1>q. QED BY <1>1, <1>2, <1>5 DEF params

(* The quals of a plan are the conditions on the table and those of the    *)
(* joins, with parameters.                                                 *)
LEMMA QualsOfPlan ==
    ASSUME PlanInv, NEW path \in paths, plan.quals = ScanClauses(path)
    PROVE  /\ plan.quals \in Seq(ToSet(plan.quals))
           /\ ToSet(plan.quals) = Range(plan.quals)
           /\ ToSet(plan.quals) =
                 ToSet(query.base) \union {Parameterised(c) : c \in path.clauses}
<1> DEFINE params == {Parameterised(c) : c \in path.clauses}
           b == query.base  j == SetToSeq(params)
<1>1. j \in Seq(params) /\ Range(j) = params
    BY PathClauses
<1>2. b \in Seq(ToSet(b))
    BY QueriesAssumption DEF PlanInv
<1>3. plan.quals = b \o j
    BY DEF ScanClauses
<1> HIDE DEF params, b, j
<1> DEFINE V == ToSet(b) \union params
<1>4. /\ b \in Seq(V) /\ j \in Seq(V)
    <2>1. ToSet(b) \subseteq V /\ params \subseteq V
        OBVIOUS
    <2> HIDE DEF V
    <2>q. QED BY <1>1, <1>2, <2>1
<1> HIDE DEF V
<1>5. /\ b \o j \in Seq(V) /\ Len(b) \in Nat /\ Len(j) \in Nat
      /\ DOMAIN b = 1 .. Len(b) /\ DOMAIN j = 1 .. Len(j)
      /\ DOMAIN (b \o j) = 1 .. Len(b) + Len(j)
      /\ \A i \in 1 .. Len(b) : (b \o j)[i] = b[i]
      /\ \A i \in 1 .. Len(j) : (b \o j)[Len(b) + i] = j[i]
    BY <1>4
<1> DEFINE r == b \o j
<1>6. ToSet(r) = ToSet(b) \union ToSet(j)
    <2> HIDE DEF r
    <2>1. ASSUME NEW i \in DOMAIN r
          PROVE  i \in DOMAIN b \/ (i - Len(b) \in DOMAIN j /\ i = Len(b) + (i - Len(b)))
        BY <1>5 DEF r
    <2>2. ToSet(r) \subseteq ToSet(b) \union ToSet(j)
        <3> SUFFICES ASSUME NEW i \in DOMAIN r PROVE r[i] \in ToSet(b) \union ToSet(j)
            BY DEF ToSet
        <3>1. CASE i \in DOMAIN b
            BY <1>5, <3>1 DEF ToSet, r
        <3>2. CASE i - Len(b) \in DOMAIN j /\ i = Len(b) + (i - Len(b))
            <4>1. r[i] = j[i - Len(b)]
                BY <1>5, <3>2 DEF r
            <4>q. QED BY <3>2, <4>1 DEF ToSet
        <3>q. QED BY <2>1, <3>1, <3>2
    <2>3. ToSet(b) \subseteq ToSet(r)
        <3>1. \A i \in DOMAIN b : i \in DOMAIN r /\ r[i] = b[i]
            BY <1>5 DEF r
        <3>q. QED BY <3>1 DEF ToSet
    <2>4. ToSet(j) \subseteq ToSet(r)
        <3>1. \A i \in DOMAIN j : Len(b) + i \in DOMAIN r /\ r[Len(b) + i] = j[i]
            BY <1>5 DEF r
        <3>q. QED BY <3>1 DEF ToSet
    <2>q. QED BY <2>2, <2>3, <2>4
<1>7. ToSet(j) = params
    BY <1>1 DEF ToSet, Range
<1>8. V = ToSet(r)
    BY <1>6, <1>7 DEF V
<1>9. r \in Seq(ToSet(r))
    BY <1>5, <1>8
<1>10. ToSet(r) = Range(r)
    BY DEF ToSet, Range
<1> HIDE DEF r
<1>q. QED BY <1>3, <1>6, <1>7, <1>9, <1>10 DEF r, b, params
-----------------------------------------------------------------------------
(* What utils.c extracts from a list of conditions is the qual of each one *)
(* that has one.                                                           *)
LEMMA QualsExtracted ==
    ASSUME NEW V, NEW conds \in Seq(V), NEW rels
    PROVE  /\ ExtractRestrictions(conds, rels) \in Seq(QualsOf(conds, rels))
           /\ Range(ExtractRestrictions(conds, rels)) = QualsOf(conds, rels)
<1> DEFINE S  == Pushed(conds, rels)
           of == [e \in S |-> CanonicalOpExpr(e, rels)]
<1>1. S \in SUBSET Range(conds) /\ ToSet(conds) = Range(conds)
  BY DEF Pushed, ToSet, Range
<1>2. OfSome(conds, S, of) = [e \in ToSet(conds) |->
          IF e.tag = "OpExpr" THEN ExtractClauseFromOpExpr(e, rels) ELSE << >>]
  <2>1. \A e \in ToSet(conds) :
           (IF e \in S THEN <<of[e]>> ELSE << >>)
               = IF e.tag = "OpExpr" THEN ExtractClauseFromOpExpr(e, rels) ELSE << >>
    BY DEF Pushed, ExtractClauseFromOpExpr
  <2> HIDE DEF S, of
  <2> QED  BY <1>1, <2>1 DEF OfSome
<1>3. ExtractRestrictions(conds, rels) = Collect(conds, OfSome(conds, S, of))
  BY <1>2 DEF ExtractRestrictions
<1>4. QualsOf(conds, rels) = {of[e] : e \in S}
  BY DEF QualsOf
<1> HIDE DEF S, of
<1> DEFINE all == Collect(conds, OfSome(conds, S, of))
<1>5. all \in Seq({of[e] : e \in S}) /\ Range(all) = {of[e] : e \in S}
  BY <1>1, CollectOfSome
<1> HIDE DEF all
<1> QED  BY <1>3, <1>4, <1>5 DEF all

(* A remote condition with a constant or a parameter is one that utils.c   *)
(* extracts, as it stands.                                                 *)
LEMMA RemoteExtracted ==
    ASSUME NEW c, IsOperator(c), IsRemote(c), c.args[2].tag \in {"Const", "Param"},
           NEW quals, c \in ToSet(quals)
    PROVE  [left |-> Var(TableRel, c.args[1].att), op |-> c.op, right |-> c.args[2]]
               \in QualsOf(quals, {TableRel})
<1> DEFINE l == c.args[1]  r == c.args[2]  rels == {TableRel}
<1>1. /\ c.tag = "OpExpr" /\ Len(c.args) = 2 /\ l.tag = "Var" /\ l.rel = TableRel
      /\ r.tag \in {"Const", "Param"}
    BY DEF IsRemote
<1>2. l = Var(TableRel, l.att) /\ l.att \notin SystemColumns
    <2>1. l \in ToSet(c.args)
        BY <1>1 DEF IsOperator, ToSet
    <2>2. VarsIn(l) = {l}
        BY <1>1 DEF VarsIn
    <2>3. l \in Vars(c)
        BY <1>1, <2>1, <2>2, VarsOfOperator
    <2>q. QED BY <1>1, <2>3, ColumnsAssumption DEF IsOperator, IsColumn
<1>3. CanonicalOpExpr(c, rels) = [left |-> l, op |-> c.op, right |-> r]
    BY <1>1 DEF CanonicalOpExpr, UnnestClause, SwapOperandsAsNeeded, ToSwap
<1>4. Extractable([left |-> l, op |-> c.op, right |-> r], rels)
    BY <1>1, <1>2 DEF Extractable, OnTarget, Mutable, Varnos
<1>5. c \in Pushed(quals, rels)
    BY <1>1, <1>3, <1>4 DEF Pushed, ToSet, Range
<1>6. CanonicalOpExpr(c, rels) \in QualsOf(quals, rels)
    BY <1>5 DEF QualsOf
<1>q. QED BY <1>2, <1>3, <1>6

(* A join of q with a column, once that is a parameter, is one that        *)
(* utils.c extracts, whichever side q is on.                               *)
LEMMA JoinExtracted ==
    ASSUME NEW c, IsOperator(c), Len(c.args) = 2, NEW n \in 1 .. 2,
           c.op = "=", c.args[n] = q, c.args[3 - n].tag = "Var", c.args[3 - n].rel # TableRel,
           "q" \in ToSet(Columns),
           NEW quals, Parameterised(c) \in ToSet(quals)
    PROVE  [left |-> q, op |-> "=", right |-> Parameter(c.args[3 - n])]
               \in QualsOf(quals, {TableRel})
<1> DEFINE d == Parameterised(c)  p == Parameter(c.args[3 - n])  rels == {TableRel}
<1>1. /\ d.tag = "OpExpr" /\ d.op = "="
      /\ d.args = [m \in DOMAIN c.args |-> Parameter(c.args[m])]
    BY DEF Parameterised, IsOperator, OpExpr
<1>2. /\ Len(d.args) = 2 /\ d.args[1] = Parameter(c.args[1]) /\ d.args[2] = Parameter(c.args[2])
    <2>1. DOMAIN c.args = 1 .. 2
        BY DEF IsOperator
    <2>2. d.args \in Seq({Parameter(c.args[m]) : m \in 1 .. 2}) /\ DOMAIN d.args = 1 .. 2
        BY <1>1, <2>1
    <2>q. QED BY <1>1, <2>1, <2>2
<1>3. Parameter(q) = q /\ q.tag = "Var" /\ q.rel = TableRel /\ q.att = "q"
    BY DEF Parameter, q, Var
<1>4. p.tag = "Param"
    BY DEF Parameter, Param
<1>5. \/ d.args[1] = q /\ d.args[2] = p
      \/ d.args[1] = p /\ d.args[2] = q
    BY <1>2, <1>3
<1>6. CanonicalOpExpr(d, rels) = [left |-> q, op |-> "=", right |-> p]
    <2>1. Commutator["="] = "=" /\ Commutator["="] # NoOperator
        BY CommutatorAssumption
    <2> HIDE DEF p, d
    <2>2. CASE d.args[1] = q /\ d.args[2] = p
        BY <1>1, <1>3, <1>4, <2>2
           DEF CanonicalOpExpr, UnnestClause, SwapOperandsAsNeeded, ToSwap
    <2>3. CASE d.args[1] = p /\ d.args[2] = q
        BY <1>1, <1>3, <1>4, <2>1, <2>3
           DEF CanonicalOpExpr, UnnestClause, SwapOperandsAsNeeded, ToSwap
    <2>q. QED BY <1>5, <2>2, <2>3
<1>7. Extractable([left |-> q, op |-> "=", right |-> p], rels)
    <2>1. "q" \notin SystemColumns
        BY ColumnsAssumption
    <2> HIDE DEF p
    <2>q. QED BY <1>3, <1>4, <2>1 DEF Extractable, OnTarget, Mutable, Varnos
<1>8. d \in Pushed(quals, rels)
    BY <1>1, <1>2, <1>6, <1>7 DEF Pushed, ToSet, Range
<1>9. CanonicalOpExpr(d, rels) \in QualsOf(quals, rels)
    <2> HIDE DEF d
    <2>q. QED BY <1>8 DEF QualsOf
<1>q. QED BY <1>6, <1>9

(* What the planner relies on, utils.c delivers: each remote condition     *)
(* with a constant or a parameter and each join of q with a column becomes *)
(* a qual of the scan, and no condition of the query is left unchecked.    *)
THEOREM WhatIsPlannedIsAsked == Spec => []PlannedIsAsked
<1>1. ASSUME PlanInv PROVE PlannedIsAsked
    <2> SUFFICES ASSUME pc = "planned" PROVE PlannedIsAsked
        BY DEF PlannedIsAsked
    <2> USE <1>1
    <2>1. PICK taken \in paths : plan.quals = ScanClauses(taken)
        BY DEF PlanInv
    <2>2. paths = {taken}
        BY <2>1 DEF PlanInv, FindPaths
    <2>3. /\ plan.quals \in Seq(ToSet(plan.quals))
          /\ ToSet(plan.quals) =
                ToSet(query.base) \union {Parameterised(c) : c \in taken.clauses}
        BY <2>1, QualsOfPlan
    <2> DEFINE extracted == ExtractRestrictions(plan.quals, {TableRel})
    <2>4. ToSet(extracted) = QualsOf(plan.quals, {TableRel})
        <3>1. Range(extracted) = QualsOf(plan.quals, {TableRel})
            BY <2>3, QualsExtracted
        <3> HIDE DEF extracted
        <3>q. QED BY <3>1 DEF ToSet, Range
    <2> HIDE DEF extracted
    <2>5. ASSUME NEW c \in ToSet(remote_conds), c.args[2].tag \in {"Const", "Param"}
          PROVE  [left |-> Var(TableRel, c.args[1].att), op |-> c.op, right |-> c.args[2]]
                     \in ToSet(extracted)
        <3>1. c \in ToSet(query.base) /\ IsRemote(c)
            <4>1. remote_conds = KeepOnly(query.base, Remote) /\ query.base \in Seq(ToSet(query.base))
                BY QueriesAssumption DEF PlanInv
            <4>2. Range(remote_conds) = Range(query.base) \cap Remote
                <5> HIDE DEF Remote
                <5>q. QED BY <4>1, KeepOnlyMembers
            <4>q. QED BY <4>2 DEF ToSet, Range, Remote
        <3>2. IsOperator(c)
            BY <3>1, QueriesAssumption DEF PlanInv, IsRemote
        <3>3. c \in ToSet(plan.quals)
            BY <2>3, <3>1
        <3>q. QED BY <2>4, <2>5, <3>1, <3>2, <3>3, RemoteExtracted
    <2>6. ASSUME NEW path \in paths, NEW c \in path.clauses, NEW n \in 1 .. 2,
                 c.op = "=", c.args[n] = q, c.args[3 - n].tag = "Var", c.args[3 - n].rel # TableRel
          PROVE  [left |-> Var(TableRel, "q"), op |-> "=", right |-> Parameter(c.args[3 - n])]
                     \in ToSet(extracted)
        <3>1. path = taken
            BY <2>2
        <3>2. c \in JoinClauses(query)
            BY PathClauses
        <3>3. IsOperator(c) /\ Len(c.args) = 2
            BY <3>2, QueriesAssumption DEF PlanInv
        <3>4. "q" \in ToSet(Columns)
            <4>1. q \in ToSet(c.args) /\ VarsIn(q) = {q}
                BY <2>6, <3>3 DEF IsOperator, ToSet, VarsIn, q, Var
            <4>2. q \in Vars(c) /\ q.rel = TableRel /\ q.att = "q"
                <5>1. c.tag = "OpExpr"
                    BY <3>3 DEF IsOperator, OpExpr
                <5>2. q \in Vars(c)
                    BY <4>1, <5>1, VarsOfOperator
                <5>q. QED BY <5>2 DEF q, Var
            <4>q. QED BY <3>3, <4>2 DEF IsOperator, IsColumn
        <3>5. Parameterised(c) \in ToSet(plan.quals)
            BY <2>3, <3>1
        <3>6. [left |-> q, op |-> "=", right |-> Parameter(c.args[3 - n])]
                  \in QualsOf(plan.quals, {TableRel})
            BY <2>6, <3>3, <3>4, <3>5, JoinExtracted
        <3>q. QED BY <2>4, <3>6 DEF q
    <2>7. ToSet(query.base) \subseteq ToSet(plan.quals)
        BY <2>3
    <2>q. QED BY <2>5, <2>6, <2>7 DEF PlannedIsAsked, extracted
<1>q. QED BY <1>1, PlanInvariant, PTL
-----------------------------------------------------------------------------
(* The columns of the table that a condition mentions when it has          *)
(* parameters are those that it mentioned before.                          *)
LEMMA ParametersAreOfOthers ==
    ASSUME NEW c, IsOperator(c), NEW v \in Vars(Parameterised(c)), v.rel = TableRel
    PROVE  v \in Vars(c)
<1>1. /\ Parameterised(c).args = [m \in DOMAIN c.args |-> Parameter(c.args[m])]
      /\ Parameterised(c).tag = "OpExpr" /\ c.tag = "OpExpr"
    BY DEF Parameterised, IsOperator, OpExpr
<1>2. PICK m \in DOMAIN c.args : v \in VarsIn(Parameter(c.args[m]))
    <2> DEFINE d == Parameterised(c)
    <2> HIDE DEF d
    <2>1. v \in UNION {VarsIn(arg) : arg \in ToSet(d.args)}
        BY <1>1, VarsOfOperator DEF d
    <2>2. ToSet(d.args) = {Parameter(c.args[m]) : m \in DOMAIN c.args}
        BY <1>1 DEF ToSet, d
    <2>q. QED BY <2>1, <2>2
<1>3. Parameter(c.args[m]) = c.args[m]
    <2>1. VarsIn(Param(<<c.args[m].rel, c.args[m].att>>)) = {}
        BY DEF VarsIn, Param
    <2>q. QED BY <1>2, <2>1 DEF Parameter
<1>q. QED BY <1>1, <1>2, <1>3, VarsOfOperator DEF ToSet

(* Where a column stands among the columns of the table.                   *)
Place(c) == LET I == {i \in 1 .. Len(Columns) : Columns[i] = c}
            IN  IF I # {} THEN Min(I) ELSE 0

(* Each stands in one place only.                                          *)
LEMMA PlaceOfColumn == ASSUME NEW a \in DOMAIN Columns PROVE Place(Columns[a]) = a
<1> DEFINE I == {i \in 1 .. Len(Columns) : Columns[i] = Columns[a]}
<1>1. DOMAIN Columns = 1 .. Len(Columns) /\ Len(Columns) \in Nat
    BY ColumnsAssumption
<1>2. I = {a}
    BY <1>1, ColumnsAssumption DEF IsInjective
<1>3. Min({a}) = a
    BY <1>1 DEF Min
<1>4. Place(Columns[a]) = IF I # {} THEN Min(I) ELSE 0
    BY DEF Place
<1> HIDE DEF I
<1>q. QED BY <1>2, <1>3, <1>4

(* A plan reads every column that the query and the conditions that are    *)
(* checked again need, once and in the order of the table.                 *)
THEOREM NeededColumnsAreRead == Spec => []ColumnsAreRead
<1>1. ASSUME PlanInv PROVE ColumnsAreRead
    <2> SUFFICES ASSUME pc = "planned" PROVE ColumnsAreRead
        BY DEF ColumnsAreRead
    <2> USE <1>1
    <2>1. PICK taken \in paths : plan.quals = ScanClauses(taken)
        BY DEF PlanInv
    <2>2. ToSet(plan.quals) = ToSet(query.base) \union {Parameterised(c) : c \in taken.clauses}
        BY <2>1, QualsOfPlan
    <2> DEFINE needed == {c \in ToSet(Columns) : Var(TableRel, c) \in Used(query)}
    <2>3. plan.columns = KeepOnly(Columns, needed)
        BY DEF PlanInv, ColumnList
    <2>4. Columns \in Seq(ToSet(Columns))
        BY ColumnsAssumption
    <2> HIDE DEF needed
    <2>5. ToSet(plan.columns) = ToSet(Columns) \cap needed
        <3>1. Range(plan.columns) = Range(Columns) \cap needed
            BY <2>3, <2>4, KeepOnlyMembers
        <3>q. QED BY <3>1 DEF ToSet, Range
    <2>6. ASSUME NEW v \in Used(query)
          PROVE  IsColumn(v) /\ (v.rel = TableRel => v.att \in ToSet(plan.columns))
        <3>1. IsColumn(v)
            <4>1. CASE v \in query.target
                BY <4>1, QueriesAssumption DEF PlanInv
            <4>2. CASE v \notin query.target
                <5>1. PICK c \in ToSet(query.base) : v \in Vars(c)
                    BY <4>2 DEF Used
                <5>q. QED BY <5>1, QueriesAssumption DEF PlanInv
            <4>q. QED BY <4>1, <4>2
        <3>2. v.rel = TableRel => v.att \in needed /\ v.att \in ToSet(Columns)
            BY <3>1 DEF IsColumn, needed
        <3>q. QED BY <2>5, <3>1, <3>2
    <2>7. ASSUME NEW c \in ToSet(plan.quals), NEW v \in Vars(c), v.rel = TableRel
          PROVE  v \in Used(query)
        <3>1. CASE c \in ToSet(query.base)
            BY <2>7, <3>1 DEF Used
        <3>2. ASSUME NEW d \in taken.clauses, c = Parameterised(d)
              PROVE  v \in Used(query)
            <4>1. d \in JoinClauses(query)
                BY PathClauses
            <4>2. IsOperator(d) /\ \A w \in Vars(d) : w.rel = TableRel => w \in Used(query)
                BY <4>1, QueriesAssumption DEF PlanInv
            <4>3. v \in Vars(d)
                BY <2>7, <3>2, <4>2, ParametersAreOfOthers
            <4>q. QED BY <2>7, <4>2, <4>3
        <3>q. QED BY <2>2, <3>1, <3>2
    <2>8. ASSUME NEW n \in DOMAIN plan.columns, NEW m \in DOMAIN plan.columns, n < m
          PROVE  SelectInSeq(Columns, LAMBDA c : c = plan.columns[n])
                     < SelectInSeq(Columns, LAMBDA c : c = plan.columns[m])
        <3>1. PICK a \in DOMAIN Columns, b \in DOMAIN Columns :
                  a < b /\ plan.columns[n] = Columns[a] /\ plan.columns[m] = Columns[b]
            BY <2>3, <2>4, <2>8, KeepOnlyOrder
        <3>2. /\ SelectInSeq(Columns, LAMBDA c : c = plan.columns[n]) = Place(plan.columns[n])
              /\ SelectInSeq(Columns, LAMBDA c : c = plan.columns[m]) = Place(plan.columns[m])
            BY DEF SelectInSeq, Place
        <3>3. Place(plan.columns[n]) = a /\ Place(plan.columns[m]) = b
            BY <3>1, PlaceOfColumn
        <3>q. QED BY <3>1, <3>2, <3>3
    <2>9. ASSUME NEW v \in query.target \union UNION {Vars(c) : c \in ToSet(plan.quals)},
                 v.rel = TableRel
          PROVE  v \in Used(query)
        BY <2>7, <2>9 DEF Used
    <2>q. QED BY <2>6, <2>8, <2>9 DEF ColumnsAreRead
<1>q. QED BY <1>1, PlanInvariant, PTL
-----------------------------------------------------------------------------
(* A join on q, of the kind that README.md shows, has a path.              *)
LEMMA JoinHasPath ==
    ASSUME PlanInv,
           \/ \E class \in query.classes :
                 /\ class.members > 1 /\ class.relids # {TableRel}
                 /\ \E c \in class.sources : OnQuery(c)
           \/ \E join \in query.outer : OnQuery(join.clause) /\ TableRel \notin join.outer_relids
    PROVE  FindPaths # {}
<1>0. ASSUME NEW c, IsOperator(c), OnQuery(c)
      PROVE  "q" \in ToSet(Columns) /\ TableRel \in RelsOf(c)
    <2>1. q \in Vars(c) /\ q.rel = TableRel /\ q.att = "q"
        BY <1>0 DEF OnQuery, q, Var
    <2>2. "q" \in ToSet(Columns)
        BY <1>0, <2>1 DEF IsOperator, IsColumn
    <2>3. PICK arg \in ToSet(c.args) : q \in VarsIn(arg)
        BY <1>0, <2>1, VarsOfOperator DEF IsOperator, OpExpr
    <2>4. TableRel \in RelsIn(arg)
        BY <2>1, <2>3 DEF VarsIn, RelsIn, Varnos
    <2>q. QED BY <2>2, <2>4 DEF RelsOf
<1>1. CASE \E class \in query.classes :
               /\ class.members > 1 /\ class.relids # {TableRel}
               /\ \E c \in class.sources : OnQuery(c)
    <2>1. PICK class \in query.classes : /\ class.members > 1 /\ class.relids # {TableRel}
                                         /\ \E c \in class.sources : OnQuery(c)
        BY <1>1
    <2>2. PICK c \in class.sources : OnQuery(c)
        BY <2>1
    <2>3. c \in JoinClauses(query)
        BY DEF JoinClauses
    <2>4. IsOperator(c) /\ RelsOf(c) \subseteq class.relids
        BY <2>3, QueriesAssumption DEF PlanInv
    <2>5. class \in Joined
        BY <2>1, <2>2 DEF Joined, ClausesInvolvingAttr
    <2>6. class.relids \subseteq OuterRelids
        BY <2>5 DEF OuterRelids
    <2>7. "q" \in ToSet(Columns) /\ ReqOuter # {}
        BY <1>0, <2>1, <2>2, <2>4, <2>6 DEF ReqOuter
    <2>q. QED BY <2>7 DEF FindPaths
<1>2. CASE \E join \in query.outer : OnQuery(join.clause) /\ TableRel \notin join.outer_relids
    <2>1. PICK join \in query.outer : OnQuery(join.clause) /\ TableRel \notin join.outer_relids
        BY <1>2
    <2>2. join.clause \in JoinClauses(query)
        BY DEF JoinClauses
    <2>3. IsOperator(join.clause) /\ join.outer_relids # {}
        BY <2>2, QueriesAssumption DEF PlanInv
    <2>4. join.outer_relids \subseteq OuterRelids
        BY <2>1 DEF OuterRelids, Outer
    <2>5. "q" \in ToSet(Columns) /\ ReqOuter # {}
        BY <1>0, <2>1, <2>3, <2>4 DEF ReqOuter
    <2>q. QED BY <2>5 DEF FindPaths
<1>q. QED BY <1>1, <1>2

(* Each query of the kind that README.md shows has a path, and its         *)
(* conditions are printed.                                                 *)
LEMMA DocumentedStep ==
    ASSUME PlanInv, [Next]_vars, AsDocumented, pc \notin {"failed", "crashed"}
    PROVE  pc' \notin {"failed", "crashed"}
<1>1. CASE GetForeignRelSize
    BY <1>1 DEF GetForeignRelSize
<1>2. CASE GetForeignPaths
    <2>1. FindPaths # {} \/ remote_conds # << >>
        <3>1. CASE \E c \in ToSet(query.base) : c.op = "=" /\ c.args[1] = q
            <4>1. PICK c \in ToSet(query.base) : c.op = "=" /\ c.args[1] = q
                BY <3>1
            <4>2. c \in Remote
                BY <4>1 DEF AsDocumented, Remote, IsRemote, q, Var
            <4>3. remote_conds = KeepOnly(query.base, Remote) /\ query.base \in Seq(ToSet(query.base))
                BY <1>2, QueriesAssumption DEF PlanInv, GetForeignPaths
            <4>4. Range(remote_conds) = Range(query.base) \cap Remote
                <5> HIDE DEF Remote
                <5>q. QED BY <4>3, KeepOnlyMembers
            <4>5. c \in Range(remote_conds)
                BY <4>2, <4>4 DEF ToSet, Range
            <4>q. QED BY <4>5 DEF Range
        <3>2. CASE ~ \E c \in ToSet(query.base) : c.op = "=" /\ c.args[1] = q
            BY <3>2, JoinHasPath DEF AsDocumented
        <3>q. QED BY <3>1, <3>2
    <2>q. QED BY <1>2, <2>1 DEF GetForeignPaths
<1>3. CASE GetForeignPlan
    <2>1. ASSUME NEW c \in ToSet(query.base)  PROVE Printing(c) = {"plan"}
        <3>1. c.tag = "OpExpr" /\ c.args[1].tag = "Var" /\ c.args[2].tag = "Const"
            BY DEF AsDocumented
        <3>q. QED BY <3>1 DEF Printing
    <2>2. \A n \in 1 .. Len(query.base) : query.base[n] \in ToSet(query.base)
        BY QueriesAssumption DEF PlanInv, ToSet
    <2>3. \A n \in 1 .. Len(query.base) : Printing(query.base[n]) = {"plan"}
        BY <2>1, <2>2
    <2>4. PrintRestrictInfoList(query.base) \subseteq {"plan"}
        <3> HIDE DEF Printing
        <3>q. QED BY <2>3 DEF PrintRestrictInfoList
    <2>q. QED BY <1>3, <2>4 DEF GetForeignPlan
<1>4. CASE UNCHANGED vars
    BY <1>4 DEF vars
<1>q. QED BY <1>1, <1>2, <1>3, <1>4 DEF Next

(* Queries as README.md shows them, whatever their number of conditions    *)
(* and joins, are planned: none is refused and none ends the backend.      *)
THEOREM DocumentedArePlanned == Spec => []DocumentedQueriesArePlanned
<1>1. Init => DocumentedQueriesArePlanned
    BY DEF Init, DocumentedQueriesArePlanned
<1>2. PlanInv /\ DocumentedQueriesArePlanned /\ [Next]_vars => DocumentedQueriesArePlanned'
    <2> SUFFICES ASSUME PlanInv, DocumentedQueriesArePlanned, [Next]_vars, AsDocumented'
                 PROVE  pc' \notin {"failed", "crashed"}
        BY DEF DocumentedQueriesArePlanned
    <2>1. query' = query
        BY DEF Next, GetForeignRelSize, GetForeignPaths, GetForeignPlan, vars
    <2>2. AsDocumented
        BY <2>1 DEF AsDocumented
    <2>q. QED BY <2>2, DocumentedStep DEF DocumentedQueriesArePlanned
<1>q. QED BY <1>1, <1>2, PlanInvariant, PTL DEF Spec
=============================================================================
