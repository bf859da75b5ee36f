\* Cancelling an unknown SMS and retrying it needs no confirmation.
CONSTANTS
    m1 = m1
    m2 = m2
    sweeper = sweeper
    w1 = w1
    Messages = {m1}
    Workers = {sweeper, w1}
    Sweeper = sweeper
    Channel <- OneSms
    Sensitive <- NotSecret
    MaxAttempts = 2
    RateLimit = 1
    MaxEpoch = 0
    MaxRequeues = 1
    MaxHandOvers = 2
    MaxFaults = 1
SPECIFICATION SafetySpec
INVARIANT
    DuplicateOnlyIfConfirmed
