\* A restored payment races with an allocation to the same invoice.
CONSTANTS
    p1 = p1
    p2 = p2
    c1 = c1
    c2 = c2
    r1 = r1
    r2 = r2
    Payments = {p1, p2}
    Invoices = {1}
    Clients = {c1, c2}
    Requests = {r1, r2}
    Total <- TotalOne
    Billed <- BilledOne
    Amounts = {1}
    Moves = {}
    Paid <- PaidOneEach
    Payer <- PayerFirst
    Stamped = {}
    MaxRows = 3
    MaxStarted = 4
SPECIFICATION Spec
INVARIANT
    InvoiceNeverOvercollected
CHECK_DEADLOCK FALSE
