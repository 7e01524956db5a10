SPECIFICATION Spec
CONSTANTS
    Configs <- PlanConfigs
    AUTH_COOLDOWN = 2
    AUTH_PASS_MAX = 2
    RECONNECT_MAX = 1
    CircuitCheck = TRUE
    TickInPlan = TRUE
INVARIANTS TypeOK PlanSound
PROPERTY QuarantinedLast
CHECK_DEADLOCK FALSE
