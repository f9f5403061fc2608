\* Every kind of plan, and every kind of reply.
CONSTANTS
    api = api  users = users  paris = paris  rome = rome  p = p  ext = ext
    Missing = Missing  Lost = Lost  Garbage = Garbage  Object = Object  Partial = Partial
    Null = Null  Unset = Unset  Junk = Junk  NoOperator = NoOperator
    Commutator <- Commute
    SystemColumns = {"ctid"}
    Text = {paris, rome}
    Confidence = {1, 5}
    TableRel = api
    Plans <- AllPlans
    ParamValues <- Values
    ExecParams = {p}
    Results <- SomeResults
    JunkInts = {0, 3, 11}
    BadReplies <- Bad
    MaxScans = 3
SPECIFICATION Spec
INVARIANTS TypeOK NothingMissed AsksWhatIsWritten RowsAreOfTheQuestion HandlesOwned
PROPERTIES ImplementsStream ExplainIsSilent
CHECK_DEADLOCK FALSE
