SPECIFICATION Spec
CONSTANTS
    Clients = {c1}
    Api = {p1}
    Remote = {}
    MaxEvents = 3
    Buffer = 1
    RingSize = 2
    Faults = {}
    c1 = c1
    p1 = p1
SYMMETRY Symmetry
INVARIANTS
    DroppedIsRecoverable
