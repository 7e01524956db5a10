SPECIFICATION FairSpec
CONSTANTS
    t1 = t1
    t2 = t2
    None = None
    Threads <- TwoThreads
    AutoReconnect <- OnOrOff
    RECONNECT_MAX = 1
    StraysMax = 1
INVARIANTS TypeOK OneTor
PROPERTIES ReadyIsFresh NotDeaf AttemptsSpend RetriesEnd
