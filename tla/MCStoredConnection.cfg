SPECIFICATION ShutdownSpec
CONSTANTS
    conn_queue_ = conn_queue_
    Acceptor = Acceptor
    Queues = {conn_queue_}
    Waiters = {Acceptor}
    QueueOf <- MCQueueOf
    Copying = {Acceptor}
    Items = {x1, x2, x3}
    NoItem = NoItem
    NoWaiter = NoWaiter
    CallsClose = TRUE
INVARIANT NoItemLeft
CHECK_DEADLOCK FALSE
