\* Up to two conditions on the table, simple or nested, joins with none, one or two others.
CONSTANTS
    TableRel = api
    users = users  cities = cities
    paris = paris  five = five  p = p
    Commutator <- Commute
    NoOperator = NoOperator
    SystemColumns = {"ctid"}
    Columns <- TheColumns
    TextColumns = {"q", "formatted"}
    Queries <- WithJoinColumns
CHECK_DEADLOCK FALSE
SPECIFICATION Spec
INVARIANTS JoinsAreNested PlannedIsAsked ColumnsAreRead DocumentedQueriesArePlanned
