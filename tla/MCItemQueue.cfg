SPECIFICATION FairSpec
CONSTANTS
    q1 = q1
    q2 = q2
    w1 = w1
    w2 = w2
    w3 = w3
    Queues = {q1, q2}
    Waiters = {w1, w2, w3}
    QueueOf <- MCQueueOf
    Copying = {w3}
    Items = {x1, x2, x3}
    NoItem = NoItem
    NoWaiter = NoWaiter
INVARIANTS
    TypeOK
    Exclusive
    OwnQueue
    NoLostWakeup
    ItemsOnce
PROPERTIES
    EveryItemTaken
    ImplementsHandoff
CHECK_DEADLOCK FALSE
