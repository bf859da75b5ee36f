\* One run of each task, no fault: the charge is settled between two reads.
CONSTANTS
    c1 = c1
    r1 = r1
    r2 = r2
    Collectors = {c1}
    Retriers = {r1}
    Manual = {}
    MaxAttempts = 2
    MaxDays = 2
    MaxSchedules = 1
    MaxIncidents = 0
SPECIFICATION Spec
INVARIANTS
    BilledOnce
CHECK_DEADLOCK FALSE
