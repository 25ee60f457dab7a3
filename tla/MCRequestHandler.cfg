SPECIFICATION FairSpec
CONSTANTS
    Requests = {r1, r2}
    BeginErrors = {INVALID_ARGUMENT, NOT_FOUND}
    EndStatuses = {OK, INTERNAL}
    OK = OK
    NoMessage = {}
    NoReply = NoReply
INVARIANTS
    NoAssertionFails
    ErrorNotMasked
    NoUseAfterFree
PROPERTIES
    EventuallyFreed
    ImplementsRequestReply
CHECK_DEADLOCK FALSE
