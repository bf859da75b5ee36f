\* Two emails, one secret, share the sweep: budget, deferral, liveness.
CONSTANTS
    m1 = m1
    m2 = m2
    sweeper = sweeper
    w1 = w1
    Messages = {m1, m2}
    Workers = {sweeper, w1}
    Sweeper = sweeper
    Channel <- TwoEmails
    Sensitive <- SecondIsSecret
    MaxAttempts = 1
    RateLimit = 1
    MaxEpoch = 0
    MaxRequeues = 0
    MaxHandOvers = 1
    MaxFaults = 1
SPECIFICATION Spec
INVARIANTS
    BodyWhileDeliverable
    SensitiveBodyCleared
PROPERTIES
    EventuallyFinal
