SPECIFICATION Spec
CONSTANTS
    Files = {f1, f2}
    Guides = {g1}
    Ads = {a1}
    Statuses = {draft, published}
    Requests = {r1, r2}
    None = None
    MaxLinks = 3
    MaxRequests = 4
    MaxFaults = 1
SYMMETRY Symmetry
INVARIANT LinksSurvive
INVARIANT OldFilesGo
INVARIANT CountsTrue

CHECK_DEADLOCK FALSE
