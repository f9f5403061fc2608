\* Two sessions of the same user, whose plan is one request per second.
CONSTANTS
    b1 = b1  b2 = b2  u1 = u1  u2 = u2  m1 = m1  m2 = m2
    full = full  low = low  NoRate = NoRate  NoMapping = NoMapping
    Backend = {b1, b2}
    Mapping = {m1}
    User = {u1}
    UserOf <- OneUser
    OptionsOf <- PlanOf1
    TopRate = 1
    Replies <- JustSuccess
    IntMax = 100000
    Faults <- NoFault
    Ticks <- HalfSecond
    JumpBacks <- Nothing
    MaxClock = 2000000
    MaxSetBack = 0
    LastStart = 2000000
    MaxCalls = 4
SPECIFICATION Spec
INVARIANT PlanPerSecond
CHECK_DEADLOCK FALSE
