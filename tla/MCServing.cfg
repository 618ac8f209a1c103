SPECIFICATION PartsSpec
CONSTANTS
    TheGateway = g
    Gateways = {g}
    Versions = {1, 2}
    MaxAsks = 6
    MaxGiveUps = 0
    MaxDeaths = 0
    MaxForgets = 0
    PortsMayBeTaken = TRUE
    MaxJobs = 2
    MaxReadings = 3
    MaxEdits = 2
    OneActAtATime = TRUE
    StepsAreQuick = TRUE
    None = None
    entry = entry
    sorter = sorter
    inner = inner
    a = a
    b = b
    c = c
    d = d
    judge = judge
    Memory = Memory
    conversation = conversation
    w = w
    k1 = k1
    k2 = k2
    Keys = {k1, k2}
    MaxTurns = 3
    MaxOut = 2
    Children = 2
    MaxChunks = 3
INVARIANTS
    AnswersComeFromOneChild
    SocketsCarryOneTalk
PROPERTIES
    StoredMeansServed
    EveryWaitEnds
CHECK_DEADLOCK FALSE
