SPECIFICATION Spec
CONSTANTS
    Main = Main
    Loop = Loop
    None = None
    Tuns <- TwoTuns
    Subnets = {s1}
    Faults <- FailOrRaise
    JumpsMax = 2
INVARIANTS TypeOK BlockedIsJumped RulesSound RulesAreKnown
