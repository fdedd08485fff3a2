SPECIFICATION Spec
CONSTANTS
    Runs = {r1}
    Handlers = {h1, h2}
    Workers = {w1}
    Callbacks = {c1}
    Reports = {"completed", "failed"}
    MaxAttempts = 2
    Calls = {"start", "retry"}
    Faults = {}
    None = None
    r1 = r1
    h1 = h1
    h2 = h2
    w1 = w1
    c1 = c1
SYMMETRY Symmetry
INVARIANTS
    TypeOK
    QueuedRenderHasJob
    AudioRunIsLinked
PROPERTIES
    ExecutedOnce
