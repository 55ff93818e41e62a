SPECIFICATION Spec
CONSTANTS
    Daemon = {d1, d2}
    Client = {c1, c2, c3}
    Name = {n1}
    Value = {v1, v2}
    None = None
    StartRule = "gone"
SYMMETRY Symmetry
INVARIANTS
    ReachableWhileAlive
PROPERTIES
    Promise
CHECK_DEADLOCK FALSE
