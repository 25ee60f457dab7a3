CONSTANTS
    Clients = {c1}
    Server = server
    DwordRange = 4
    Timeout = 3
    Elapsed <- MCElapsed
SPECIFICATION FairSpec
INVARIANTS TypeOK NoEarlyEnd BudgetKept ConnectedFirst HonestExit
PROPERTY Terminates
CHECK_DEADLOCK FALSE
