\* A customer who pays, or whose first request failed, asks for statistics.
CONSTANTS
    NULL = NULL
    u1 = u1  u2 = u2
    User = {u1, u2}
    PUBLIC = PUBLIC
    Address = Address
    Given = {"uri", "api_key"}
    Text <- Texts
    IntMax = 15
    LongMax = 127
    Commands = 2
    Months = {6}
    Requests = 1
SPECIFICATION Spec
INVARIANT NoResetIsNull
