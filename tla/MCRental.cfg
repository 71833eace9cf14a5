CONSTANTS
    a1 = a1
    a2 = a2
    r1 = r1
    r2 = r2
    None = None
    Analyses = {a1, a2}
    Existing = {a1}
    Requests = {r1, r2}
    Kinds = {"e", "i"}
    Forms <- MCForms
    MaxIds = 3
    MaxAsked = 3
    MaxFaults = 1
SPECIFICATION Spec
SYMMETRY Symmetry
INVARIANT AnswerWhole
INVARIANT CopyMatches
INVARIANT CountBacked
PROPERTY SavedStays
CHECK_DEADLOCK FALSE
