SPECIFICATION LiveSpec
CONSTANTS
    MaxChanges = 2
    MaxExits = 1
    Pick = {q1, q2}
    NoPick = NoPick
    MaxCrashes = 1
INVARIANTS
    NothingFallsThrough
    AnswerWakes
    NobodyIsForgotten
PROPERTIES
    RunsArePaid
    HeardIsHandled
    MonitorsCatchUp
    EveryPickReturns
    EveryRunEnds
