SPECIFICATION Spec
CONSTANTS
    Daemon = {d1, d2}
    Client = {c1, c2}
    Name = {n1}
    Value = {v1}
    None = None
    StartRule = "stopped"
INVARIANTS
    ReachableWhileAlive
CHECK_DEADLOCK FALSE
