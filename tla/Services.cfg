SPECIFICATION Spec
CONSTANTS
    r1 = r1
    r2 = r2
    Runs = {r1, r2}
    Pairings <- MCPairings
CHECK_DEADLOCK FALSE
INVARIANTS
    NothingLeftUnnoticed
PROPERTIES
    BoundedRunsEnd
