\* Two deliveries, two refund requests, one fault.
CONSTANTS
    h1 = h1
    h2 = h2
    r1 = r1
    r2 = r2
    Hooks = {h1, h2}
    Refunders = {r1, r2}
    Subscriptions <- EventSets
    MaxFaults = 1
SPECIFICATION Spec
SYMMETRY Symmetry
INVARIANTS
    TypeOK
    LedgerMatchesPayment
    ReversedWasReturned
    BooksFollowMoney
    CapturedNotDemoted
    OneRefundAtProvider
    OneDeliveryProcesses
PROPERTIES
    OutcomeKept
CHECK_DEADLOCK FALSE
