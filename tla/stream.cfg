SPECIFICATION Spec
CONSTANTS
    failedEvent = failedEvent
    completedEvent = completedEvent
    deltaEvent = deltaEvent
    noName = noName
    Failing = {failedEvent}
    Final = {completedEvent}
    Other = {deltaEvent}
    NoName = noName
    Object <- Events
    Answer <- Answers
    MaxLines = 4
INVARIANTS
    TypeOK
    SuccessIsCompleted
    CompletionSucceeds
    LateAnswersAreRefused
CHECK_DEADLOCK FALSE
