SPECIFICATION Spec
CONSTANTS
    None = None
    entry = entry
    ladder = ladder
    sorter = sorter
    a = a
    b = b
    c = c
    judge = judge
    Memory = Memory
    Nodes <- SorterNodes
    Entry = entry
    Table <- SorterTable
    Walks = {w1, w2}
    Conversations = {talk}
    Apart = {talk}
    AttemptLimit = 4
    Signals = {"none"}
    OneDrain = TRUE
INVARIANTS
    NoTurnIsTakenTwice
    JudgedAtMostTwice
    UnjudgedIsNeverServed
    ExhaustedMeansNobodyWasLeft
    DeadDescentsHoldNoTurn
SYMMETRY WalkSymmetry
CHECK_DEADLOCK FALSE
