SPECIFICATION FairSpec
CONSTANTS
    Ids = {n1}
    Requests = {r1}
    None = None
    Subscribers = {u1}
    Staff = {w1}
    Listed = {u1}
    MaxSaves = 2
    MaxTime = 3
    MaxFaults = 1
INVARIANT JobsMatchRows
INVARIANT DeliveredOnce
INVARIANT SentAsPlanned
PROPERTY ScheduledGetsDone
CHECK_DEADLOCK FALSE
