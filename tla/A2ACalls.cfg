CONSTANTS
    MaxEvents = 3
    Kinds = {"not_found", "bad_request"}
SPECIFICATION FairCallsSpec
INVARIANTS
    HeardAsWritten
    AnswerIsTrue
PROPERTIES
    CallReturns
CHECK_DEADLOCK FALSE
