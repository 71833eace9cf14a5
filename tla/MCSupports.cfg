SPECIFICATION Spec
CONSTANTS
    Users = {u1}
    Admins = {a1}
    Chats = {c1}
    Requests = {r1, r2}
    Readers = {u1, a1}
    None = None
    Limit = 2
    MaxMessages = 3
    MaxAsked = 4
    MaxFaults = 1
INVARIANT LastMessageLags
INVARIANT UnreadIsTrue
INVARIANT NoGap
INVARIANT ListFollows
PROPERTY DeskSpec
CHECK_DEADLOCK FALSE
SYMMETRY Symmetry
