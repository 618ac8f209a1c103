SPECIFICATION Spec
CONSTANTS
    None = None
    entry = entry
    ladder = ladder
    sorter = sorter
    a = a
    b = b
    c = c
    judge = judge
    Memory = Memory
    Nodes <- LoneNodes
    Entry = entry
    Table <- LoneTable
    Walks = {w1, w2}
    Conversations = {talk}
    Apart = {talk}
    AttemptLimit = 8
    Signals = {"none", "promise"}
    OneDrain = TRUE
INVARIANTS
    StandDownsAreHeeded
PROPERTIES
    EveryWalkEnds
CHECK_DEADLOCK FALSE
