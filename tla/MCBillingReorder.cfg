SPECIFICATION Spec
CONSTANTS
    Users = {u1, u2}
    Periods = {monthly}
    Coupons = {c1}
    CustomerIds = {k1, k2}
    SubIds = {s1, s2}
    InvoiceIds = {i1, i2}
    Requests = {r1}
    None = None
    InOrder = FALSE
    Redeliver = TRUE
    MaxEvents = 4
    MaxRows = 2
    MaxFaults = 1
SYMMETRY Symmetry
INVARIANT FlagsAgree
INVARIANT CanceledIsFinal
INVARIANT InvoicesBacked
INVARIANT RowOwner
CHECK_DEADLOCK FALSE
