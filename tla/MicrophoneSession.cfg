\* Every interleaving of capture, dashboard and worker on one short call.
CONSTANTS
    ChunkUnits = 3
    MaxQueue = 2
    HistoryLimit = 2
    MaxUnits = 9
    MaxGeneration = 3
SPECIFICATION Spec
INVARIANTS NumbersAgree AudioIsConserved StatusIsTruthful
PROPERTIES DeliversTheCall CallSettles
CHECK_DEADLOCK FALSE
