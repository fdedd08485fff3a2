SPECIFICATION Spec
CONSTANTS
    Shots = {s1, s2}
    Handlers = {h1, h2}
    MaxRuns = 2
    Costs = {2}
    Limits = {3}
    Calls = {"start"}
    Faults = {}
    None = None
    s1 = s1
    s2 = s2
    h1 = h1
    h2 = h2
SYMMETRY Symmetry
INVARIANTS
    NeverOverspent
