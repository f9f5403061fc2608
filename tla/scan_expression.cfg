\* A join of users on an expression.
CONSTANTS
    api = api  users = users  paris = paris  rome = rome  p = p  ext = ext
    Missing = Missing  Lost = Lost  Garbage = Garbage  Object = Object  Partial = Partial
    Null = Null  Unset = Unset  Junk = Junk  NoOperator = NoOperator
    Commutator <- Commute
    SystemColumns = {"ctid"}
    Text = {paris, rome}
    Confidence = {1, 5}
    TableRel = api
    Plans <- ExpressionJoin
    ParamValues <- Values
    ExecParams = {p}
    Results <- SomeResults
    JunkInts = {0, 3, 11}
    BadReplies <- NoBad
    MaxScans = 2
SPECIFICATION Spec
INVARIANT NothingMissed
CHECK_DEADLOCK FALSE
