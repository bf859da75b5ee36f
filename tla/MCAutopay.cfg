\* A run of each task and a manual retry run, two days, two attempts, one
\* schedule, one incident.
CONSTANTS
    c1 = c1
    r1 = r1
    r2 = r2
    Collectors = {c1}
    Retriers = {r1, r2}
    Manual = {r2}
    MaxAttempts = 2
    MaxDays = 2
    MaxSchedules = 1
    MaxIncidents = 1
SPECIFICATION Spec
INVARIANTS
    TypeOK
    OneCallPerKey
    PassedOverOnlyByFailure
    SucceededWasCharged

    
CHECK_DEADLOCK FALSE
