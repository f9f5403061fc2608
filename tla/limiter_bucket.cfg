\* One session at a time, two servers of one user with different plans.
CONSTANTS
    b1 = b1  b2 = b2  u1 = u1  u2 = u2  m1 = m1  m2 = m2
    full = full  low = low  NoRate = NoRate  NoMapping = NoMapping
    Backend = {b1}
    Mapping = {m1, m2}
    User = {u1}
    UserOf <- OneUser
    OptionsOf <- MixedPlans
    TopRate = 2
    Replies <- JustSuccess
    IntMax = 100000
    Faults <- MayExit
    Ticks <- SubMillis
    JumpBacks <- Nothing
    MaxClock = 1700000
    MaxSetBack = 0
    LastStart = 1700000
    MaxCalls = 4
SPECIFICATION Spec
INVARIANTS TypeOK BucketInv Envelope SleepsOnce
PROPERTY ImplementsLeakyBucket
CHECK_DEADLOCK FALSE
