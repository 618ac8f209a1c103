SPECIFICATION Spec
CONSTANTS
    Gateways = {codex}
    Versions = {1, 2}
    MaxAsks = 3
    MaxGiveUps = 0
    MaxDeaths = 0
    MaxForgets = 0
    PortsMayBeTaken = TRUE
INVARIANTS
    ShownIsServed
CHECK_DEADLOCK FALSE
