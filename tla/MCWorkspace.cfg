SPECIFICATION Spec
CONSTANTS
    Owners = {o1, o2}
    Off = Off
    Blank = Blank
    MaxMoves = 2
    MaxEvents = 2
    MaxActs = 1
    Locales = {"en", "zh"}
    MaxItems = 2
    MaxEdits = 2
    MaxChanges = 3
    MaxTurns = 1
    MaxHistory = 2
    MaxPackages = 2
    MaxRestores = 2
    MaxSteps = 7
    MaxTrips = 3
    MaxPicks = 3
    MaxForms = 3
    MaxReports = 2
    MaxGlances = 3
    Uploads = {s1, s2}
    MaxRequests = 4
    MaxMoments = 1
    Users = {u1, u2}
    Nobody = Nobody
    MaxClaims = 4
    MaxTicks = 3
    LeaseTTL = 2
INVARIANTS
    TypeOK
    QuietScreenIsCurrent
    ForeignDataIsStray
    SuccessIsShown
    WorkIsKept
    TitlesFollowLocale
    MonitorSettles
    OneAction
    AppliesWhatWasChecked
    PageFollowsRoute
    SessionIsOwn
    ReuseShowsItsShot
    PanelsAgree
    SomeoneGoverns
    OneActivePrompt
    BlockersAreCurrent
    UploadsSettle
    LeaseIsHeld
CHECK_DEADLOCK FALSE
