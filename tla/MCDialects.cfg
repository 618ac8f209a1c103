SPECIFICATION Spec
CONSTANTS
    None = None
    a = a
INVARIANTS
    WhatIsReadIsKept
    WhatIsSaidIsTold
PROPERTIES
    ReadersHearAHubStream
    EveryStreamIsEnded
CHECK_DEADLOCK FALSE
