SPECIFICATION FairSpec
CONSTANTS
    t1 = t1
    t2 = t2
    Threads <- TwoThreads
    AutoReconnect <- OnOrOff
    CONN_FAIL_MAX = 2
    REPAIR_THRESHOLD = 3
    INERT_EXIT_TICKS = 3
    Exceptions <- NoException
INVARIANTS TypeOK OneTunnelWatched
PROPERTIES RepairIsJustified NeverInert InertiaEnds
