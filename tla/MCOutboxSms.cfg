\* One SMS, the sweep and one request, two faults: every stale-claim race.
CONSTANTS
    m1 = m1
    m2 = m2
    sweeper = sweeper
    w1 = w1
    Messages = {m1}
    Workers = {sweeper, w1}
    Sweeper = sweeper
    Channel <- OneSms
    Sensitive <- NotSecret
    MaxAttempts = 2
    RateLimit = 1
    MaxEpoch = 1
    MaxRequeues = 1
    MaxHandOvers = 2
    MaxFaults = 2
SPECIFICATION SafetySpec
INVARIANTS
    TypeOK
    SendRightConserved
    SentWasAccepted
PROPERTIES
    FinalByStaffOnly
    ImplementsContract
