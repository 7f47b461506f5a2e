\* Two commands, one of them by a listener, two events; the socket may end and a read may fail.
SPECIFICATION FairSpec
CONSTANTS
    t1 = t1  t2 = t2
    Tasks <- TwoTasks
    Listeners <- OneListener
    MaxEvents = 2
INVARIANTS
    TypeOK
    EntriesMatchCalls
    EventsPrecedeReply
    StreamEndsWithSocket
PROPERTY
    CallReturns
    ImplementsExchange
\* The commands of an instance are finite: when they are over nothing happens.
CHECK_DEADLOCK FALSE
