SPECIFICATION Spec
CONSTANTS
    Users = {u1}
    Requests = {r1}
    None = None
    MaxCount = 2
    Delay = 2
    MaxCodes = 5
    MaxTime = 4
    MaxFaults = 1
INVARIANT SingleUse
INVARIANT LastMailedWorks
INVARIANT Throttled
CHECK_DEADLOCK FALSE
