\* Three blocks, which fill a chunk; a pause, a resume and an end.
CONSTANTS
    ChunkUnits = 3
    BlockSizes = {1}
    CaptureDepth = 1
    SenderDepth = 1
    MaxUnits = 3
    MaxGeneration = 2
    MaxPresses = 3
SPECIFICATION Spec
INVARIANTS EndsAgree AudioKeepsItsOrder
CHECK_DEADLOCK FALSE
