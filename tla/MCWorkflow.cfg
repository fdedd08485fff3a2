SPECIFICATION Spec
CONSTANTS
    Runs = {r1}
    Handlers = {h1, h2}
    Workers = {w1, w2}
    MaxAttempts = 2
    Calls = {"start", "retry", "cancel"}
    Faults = {}
    None = None
    r1 = r1
    h1 = h1
    h2 = h2
    w1 = w1
    w2 = w2
SYMMETRY Symmetry
INVARIANTS
    TypeOK
    StatusIsEarned
    OneJobPerAttempt
    TrailIsLegal
PROPERTIES
    KeepsContract
    JobsNeverReopen
