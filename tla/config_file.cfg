SPECIFICATION Spec
CONSTANTS
    None = None
    Partial = Partial
    Spoilt = Spoilt
    VersionsMax = 3
INVARIANTS TypeOK KeptSafe
