\* A source whose numbers wrap while packets are lost, late and reordered
\* across two gaps, and one that replaces it.
CONSTANTS
    Modulus = 8
    TimestampModulus = 8
    FirstSequence = 6
    FirstTimestamp = 6
    PacketSamples = 2
    ChunkSamples = 5
    MaxReorder = 3
    MaxWait = 2
    MaxOutput = 1
    HistoryLimit = 1
    MaxGeneration = 2
    MaxIndex <- MCMaxIndex
    Retimable = {2, 3}
    MaxTime = 2
SPECIFICATION Spec
INVARIANTS PlacedByNumber GapsAreAccounted
PROPERTIES DeliversEverySource
CHECK_DEADLOCK FALSE
