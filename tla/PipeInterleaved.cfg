SPECIFICATION PipeSpec
CONSTANTS
    None = None
    Blocks={0, 1, 2, 3, 4}
    Held=1
    MaxSaid=2
    Places={}
    Ids={}
    MaxBlocks=3
    Orderly=FALSE
PROPERTIES
    TheTransformEnds
CHECK_DEADLOCK FALSE
