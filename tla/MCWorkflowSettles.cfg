SPECIFICATION FairSpec
CONSTANTS
    Runs = {r1, r2}
    Handlers = {h1}
    Workers = {w1}
    MaxAttempts = 2
    Calls = {"start", "retry"}
    Faults = {"gatewaySave"}
    None = None
    r1 = r1
    r2 = r2
    h1 = h1
    w1 = w1
INVARIANTS
    QuietRunAgrees
PROPERTIES
    QueuedRunsEnd
