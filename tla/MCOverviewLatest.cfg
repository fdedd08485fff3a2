SPECIFICATION OverviewSpec
CONSTANTS
    Owners = {p1}
    Off = Off
    Blank = Blank
    MaxMoves = 0
    MaxReports = 2
    MaxGlances = 1
    p1 = p1
CHECK_DEADLOCK FALSE
INVARIANTS
    LatestReviewIsReported
