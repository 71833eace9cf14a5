CONSTANTS
    r1 = r1
    r2 = r2
    Null = Null
    NaN = NaN
    Slots = {"i", "e"}
    Savers = {r1, r2}
    Bodies <- MCBodies
    MaxSaves = 3
    MaxBreakdowns = 1
SPECIFICATION CostSpec
SYMMETRY Symmetry
INVARIANT TotalIsSum
INVARIANT AnswerMatches
CHECK_DEADLOCK FALSE
