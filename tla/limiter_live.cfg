\* One session; signals, a clock that is set back, options that change.
CONSTANTS
    b1 = b1  b2 = b2  u1 = u1  u2 = u2  m1 = m1  m2 = m2
    full = full  low = low  NoRate = NoRate  NoMapping = NoMapping
    Backend = {b1}
    Mapping = {m1}
    User = {u1}
    UserOf <- OneUser
    OptionsOf <- AnyPlan
    TopRate = 2000
    Replies <- AllReplies
    IntMax = 100000
    Faults <- MaySignal
    Ticks <- HalfSecond
    JumpBacks <- Back700Msec
    MaxClock = 3000000
    MaxSetBack = 700000
    LastStart = 500000
    MaxCalls = 2
SPECIFICATION FairSpec
INVARIANTS StatsAccount
PROPERTY NeverStarves
CHECK_DEADLOCK FALSE
