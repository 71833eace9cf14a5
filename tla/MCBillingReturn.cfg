SPECIFICATION FairSpec
CONSTANTS
    Users = {u1}
    Periods = {monthly}
    Coupons = {}
    CustomerIds = {k1}
    SubIds = {s1, s2}
    InvoiceIds = {i1, i2}
    Requests = {r1}
    None = None
    InOrder = TRUE
    Redeliver = FALSE
    MaxEvents = 5
    MaxRows = 3
    MaxFaults = 0
PROPERTY ResubscriptionIsRecorded
CHECK_DEADLOCK FALSE
