\* Two users with or without a mapping; three requests; an int of five bits.
CONSTANTS
    NULL = NULL
    u1 = u1  u2 = u2
    User = {u1, u2}
    PUBLIC = PUBLIC
    Address = Address
    Given = {"uri", "api_key", "max_reqs_sec", "other"}
    Text <- Texts
    IntMax = 15
    LongMax = 127
    Commands = 4
    Months = {0, 6}
    Requests = 3
SYMMETRY Users
SPECIFICATION Spec
INVARIANTS TypeOK  PlansAsWritten  ReportsEveryEntry
