SPECIFICATION Spec
CONSTANTS
    Gateways = {codex}
    Versions = {1, 2}
    MaxAsks = 3
    MaxGiveUps = 6
    MaxDeaths = 1
    MaxForgets = 1
    PortsMayBeTaken = TRUE
INVARIANTS
    WindowsShowWhatServes
    RestartsServeTheirSnapshot
PROPERTIES
    RestartsNeverBlink
CHECK_DEADLOCK FALSE
