SPECIFICATION FairSpec
CONSTANTS
    Worker = Worker
    Timer = {s1}
    Request = {r1}
    Reader = {v1}
    Caller = Caller
    Free = Free
    MaxCalls = 4
INVARIANTS
    TypeOK
    JobsKeepTheirEpoch
    RunsUseTheCurrentHost
    NoCallAfterClose
    StoppedMeansQuiet
PROPERTIES
    CallsEnd
    ImplementsEpochs
CHECK_DEADLOCK FALSE
