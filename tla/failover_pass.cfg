SPECIFICATION FairSpec
CONSTANTS
    Configs <- AllConfigs
    AUTH_COOLDOWN = 2
    AUTH_PASS_MAX = 2
    RECONNECT_MAX = 1
    CircuitCheck = FALSE
    TickInPlan = FALSE
INVARIANT EachAccountOnce
PROPERTIES PassCoversProvider GivesUp LoopSpends
CHECK_DEADLOCK FALSE
