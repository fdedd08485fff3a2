SPECIFICATION Spec
CONSTANTS
    Runs = {r1}
    Handlers = {h1}
    Workers = {w1, w2}
    MaxAttempts = 2
    Calls = {"start", "retry", "cancel"}
    Faults = {"abort", "read"}
    None = None
    r1 = r1
    h1 = h1
    w1 = w1
    w2 = w2
SYMMETRY Symmetry
INVARIANTS
    OneEffect
    IndInv
