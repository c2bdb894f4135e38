SPECIFICATION Spec
CONSTANTS
    Limit = {2, 3}
    LoadLimit = 2
    Time = {1, 2}
    Tries = 2
    MaxRuns = 4
    MaxDamages = 2
    MaxCrashes = 2
INVARIANTS
    TypeOK
    NothingTorn
    DamagedFilesAreKept
    SavedRunsSurvive
    HistoryIsOrdered
CHECK_DEADLOCK FALSE
