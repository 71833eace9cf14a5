SPECIFICATION FairSpec
CONSTANTS
    Users = {u1}
    Periods = {monthly, yearly}
    Coupons = {}
    CustomerIds = {k1}
    SubIds = {s1}
    InvoiceIds = {i1, i2}
    Requests = {r1}
    None = None
    InOrder = TRUE
    Redeliver = FALSE
    MaxEvents = 6
    MaxRows = 4
    MaxFaults = 1
INVARIANT InSyncWhenSettled
INVARIANT PaidOnce
PROPERTY CancelReachesRow
CHECK_DEADLOCK FALSE
