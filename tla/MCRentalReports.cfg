CONSTANTS
    r1 = r1
    r2 = r2
    None = None
    Requests = {r1, r2}
    Rents = {0, 2700, 2800, 3600}
    Charges = {200, 450}
    Acquisitions <- MCAcquisitions
    Forms <- MCForms
    Views <- MCViews
    Defaults <- MCDefaults
    MaxAsked = 3
    MaxFaults = 1
SPECIFICATION Spec
SYMMETRY Symmetry
INVARIANT ComparisonFollows
INVARIANT PagesAgree
INVARIANT ProjectionsAgree
PROPERTY GradeFollows
CHECK_DEADLOCK FALSE
