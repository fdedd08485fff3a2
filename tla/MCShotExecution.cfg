SPECIFICATION Spec
CONSTANTS
    Shots = {s1}
    Handlers = {h1, h2}
    MaxRuns = 2
    Costs = {0, 2}
    Limits = {3}
    Calls = {"start", "setBudget", "candidate", "primary", "submit"}
    Faults = {"read"}
    None = None
    s1 = s1
    h1 = h1
    h2 = h2
SYMMETRY Symmetry
INVARIANTS
    TypeOK
    RunNumbersDense
    SpendBounded
    ChargesMatchRuns
    SubmittedIsGated
