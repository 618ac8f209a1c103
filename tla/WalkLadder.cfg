SPECIFICATION Spec
CONSTANTS
    None = None
    entry = entry
    ladder = ladder
    sorter = sorter
    a = a
    b = b
    c = c
    judge = judge
    Memory = Memory
    Nodes <- LadderNodes
    Entry = entry
    Table <- LadderTable
    Walks = {w1, w2}
    Conversations = {talk, crowd}
    Apart = {talk}
    AttemptLimit = 2
    Signals = {"none", "promise"}
    OneDrain = FALSE
INVARIANTS
    TypeOK
    NoChildIsTriedTwice
    SealedTurnsNeverSpread
    AWaitIsPromisedByEveryTry
SYMMETRY WalkSymmetry
CHECK_DEADLOCK FALSE
