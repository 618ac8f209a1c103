SPECIFICATION Spec
CONSTANTS
    Gateways = {codex, claude}
    Versions = {1}
    MaxAsks = 2
    MaxGiveUps = 4
    MaxDeaths = 1
    MaxForgets = 0
    PortsMayBeTaken = TRUE
PROPERTIES
    EveryActSettles
CHECK_DEADLOCK FALSE
