\* One life of a replica; of the three times only the order matters.
SPECIFICATION FairSpec
CONSTANTS
    send = send
    resync = resync
    ack1 = ack1
    ack2 = ack2
    sweep = sweep
    s1 = s1
    s2 = s2
    Requests = {send, resync, ack1, ack2, sweep}
    Kind <- KindOf
    StreamOf <- StreamFor
    Streams = {s1, s2}
    MaxConnections = 2
    EndpointLag = 1
    DrainDelay = 2
    Grace = 3
INVARIANTS
    TransactionsNeverDeadlock
    PoolWaitersBlockNobody
    DrainLosesNothing
PROPERTY EverythingEnds
\* A replica that got no signal waits for requests.
CHECK_DEADLOCK FALSE
