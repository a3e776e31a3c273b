SPECIFICATION FairSpec
CONSTANTS
    w1 = w1
    w2 = w2
    s1 = s1
    s2 = s2
    Workers <- SomeWorkers
    Senders <- SomeSenders
    PoolSize = 2
    MaxMessages = 2
    None = None
CHECK_DEADLOCK FALSE
INVARIANTS
    TypeOK
    MessagesInOrder
    AnswersInOrder
PROPERTIES
    ImplementsLink
    AllHandled
    GoneIsClosed
