\* One client, dispatched twice without a fault or a second worker.
CONSTANTS
    c1 = c1
    w1 = w1
    Clients = {c1}
    Manual = {}
    Reports = {}
    MaxDispatches = 2
    MaxIncidents = 0
SPECIFICATION SafetySpec
PROPERTIES
    NoRedispatchWhileUnresolved
CHECK_DEADLOCK FALSE
