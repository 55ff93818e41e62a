SPECIFICATION Spec
CONSTANTS
    Proc = {p1}
    NoProc = NoProc
    NMod = 3
    Preflight = 0
    Exits = {1}
    MaxRuns = 3
PROPERTIES
    ResumeRetriesFailing
