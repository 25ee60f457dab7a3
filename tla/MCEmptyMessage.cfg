SPECIFICATION Spec
CONSTANTS
    Requests = {r1}
    BeginErrors = {INVALID_ARGUMENT}
    EndStatuses = {OK, INTERNAL, INTERNAL_NO_MESSAGE}
    OK = OK
    NoMessage = {INTERNAL_NO_MESSAGE}
    NoReply = NoReply
INVARIANT
    NoAssertionFails
CHECK_DEADLOCK FALSE
