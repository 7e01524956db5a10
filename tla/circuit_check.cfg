SPECIFICATION FairSpec
CONSTANTS
    MaxTry = 2
    MaxTunnels = 8
    MaxCuts = 1
    Results <- AllResults
INVARIANTS TypeOK KbsIsCurrent
PROPERTIES KillIsRedraw Settles RedrawsEnd
CHECK_DEADLOCK FALSE
