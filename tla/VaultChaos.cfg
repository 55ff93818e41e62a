SPECIFICATION FairSpec
CONSTANTS
    Daemon = {d1, d2}
    Client = {c1, c2}
    Name = {n1}
    Value = {v1}
    None = None
    StartRule = "any"
INVARIANTS
    NoTornSecret
PROPERTIES
    EveryCallReturns
CHECK_DEADLOCK FALSE
