\* The process stops between the cancellation and the release.
CONSTANTS
    p1 = p1
    p2 = p2
    c1 = c1
    c2 = c2
    r1 = r1
    r2 = r2
    Payments = {p1, p2}
    Invoices = {1, 2}
    Clients = {c1, c2}
    Requests = {r1, r2}
    Total <- TotalTwoOne
    Billed <- BilledFirst
    Amounts = {1, 2}
    Moves = {}
    Paid <- PaidTwoAndOne
    Payer <- PayerFirst
    Stamped = {1}
    MaxRows = 3
    MaxStarted = 4
SPECIFICATION Spec
INVARIANT
    TerminalHoldsNoMoney
CHECK_DEADLOCK FALSE
