SPECIFICATION BootSpec
CONSTANTS
    NoCopy = NoCopy
    Garbled = Garbled
    MaxTurns = 4
    MaxUserEdits = 2
INVARIANTS
    BackupIsPristine
CHECK_DEADLOCK FALSE
