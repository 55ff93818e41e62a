SPECIFICATION HostSpec
CONSTANTS
    Proc = {p1, p2}
    NoProc = NoProc
    NMod = 2
    Preflight = 0
    Exits = {1}
    MaxRuns = 2
    NoCopy = NoCopy
    Garbled = Garbled
    MaxTurns = 3
    MaxUserEdits = 1
    Rev = {c1, c2}
    NoRev = NoRev
    Tries = 3
    MaxJobs = 3
    MaxMeddling = 2
    MaxPins = 1
    Output = {o1, o2}
    Res = {r1, r2}
    Base = {b1, b2}
    NoOne = NoOne
    Torn = Torn
    MaxWorld = 1
    MaxStarts = 3
    MaxFaults = 1
    MaxOverlap = 2
    Note = {n1, n2}
    Drawer = {d1, d2}
    Nobody = Nobody
    AllNotes = AllNotes
    MaxNotes = 3
    MaxVisits = 3
    Path = {x1, x2, x3}
    Hand = {h1, h2}
    NoHand = NoHand
    NoFile = NoFile
    Broken = Broken
    MaxRibbons = 2
    MaxToggles = 4
    MaxLeaving = 1
    Doc = {f1}
    Embedder = {e1, e2}
    Cut <- MCCut
    Finder = {p1, p2}
    NoDoc = NoDoc
    MaxLines = 2
    MaxWrites = 1
    MaxFinds = 2
    NoStack = NoStack
    MaxSplices = 2
    MaxHands = 1
SYMMETRY Symmetric
INVARIANTS
    HostTypes
    OneRealRun
    ResumePointIsBehind
    AllOrNothing
    HealedStaysHealed
    FirstBackupStays
    HalfClonesGo
    BuiltIsPinned
    ReconcileSettles
    NotesAreSeenFirst
    SplicesAreSafeOrSeen
PROPERTIES
    LedgerSpec
    SavedRunsAreRecorded
    ExitCodeHonest
    OwnFilesStay
    PrimarySticks
    QueueIsANoteBook
    OneRibbonAtATime
    BackupIsThePast
    RerunIsExact
