SPECIFICATION FairSpec
CONSTANTS
    Clients = {c}
    MaxConnects <- MCMaxConnects
    Requests = {r1, r2}
    Replies = {ok, error}
    NoItem = NoItem
    NoWaiter = NoWaiter
    ConnQueue = ConnQueue
    Acceptor = Acceptor
INVARIANTS
    TypeOK
    NoTerminate
    OwnConnection
PROPERTIES
    QueueProtocol
    ImplementsRequestReply
    EventuallyAnswered
    EventuallyAccepted
CHECK_DEADLOCK FALSE
