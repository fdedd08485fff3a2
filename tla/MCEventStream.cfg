SPECIFICATION Spec
CONSTANTS
    Clients = {c1}
    Api = {p1, p2}
    Remote = {w1}
    MaxEvents = 3
    Buffer = 1
    RingSize = 2
    Faults = {"append", "reply", "list", "restart"}
    c1 = c1
    p1 = p1
    p2 = p2
    w1 = w1
SYMMETRY Symmetry
INVARIANTS
    TypeOK
    NoDuplicate
    NoGap
