SPECIFICATION FairSpec
CONSTANTS
    Runs = {r1}
    Handlers = {h1}
    Workers = {w1}
    Callbacks = {c1}
    Reports = {"running", "completed", "failed"}
    MaxAttempts = 3
    Calls = {"start", "retry"}
    Faults = {}
    None = None
    r1 = r1
    h1 = h1
    w1 = w1
    c1 = c1
PROPERTIES
    FailedRenderRecovers
