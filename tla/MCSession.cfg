SPECIFICATION Spec
CONSTANTS
    Users = {u1}
    SessionIds = {s1, s2, s3}
    Requests = {r1, r2}
    None = None
    Lifetimes = {1, 3}
    MaxUserSession = 2
    InactiveDays = 1
    Serial = TRUE
    MaxTokens = 3
    MaxDay = 2
    MaxFaults = 1
SYMMETRY Symmetry
INVARIANT SessionLimit
INVARIANT HolderKeepsAccess
PROPERTY RevokedIsFinal
PROPERTY RotationIsFresh
