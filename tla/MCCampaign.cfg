\* One client, a scheduled and a manual run, two dispatches, one incident.
CONSTANTS
    c1 = c1
    w1 = w1
    Clients = {c1}
    Manual = {w1}
    Reports = {"delivered", "rejected"}
    MaxDispatches = 2
    MaxIncidents = 1
SPECIFICATION Spec
INVARIANTS
    TypeOK
    OneQueuedPerClient
    OwnedByOne
    CountedOnce
    CountedAll
    SentIsOver
    SentWasTaken
    OneCopyPerDispatch
PROPERTIES
    CampaignEnds
CHECK_DEADLOCK FALSE
