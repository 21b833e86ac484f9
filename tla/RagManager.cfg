\* Two calls whose revisions supersede one another under a full manager, which
\* two threads start and close.
CONSTANTS
    s1 = s1  s2 = s2  t1 = t1  t2 = t2  t3 = t3
    Scopes = {s1, s2}
    MaxRevision = 1
    Callers = {t1, t2}
    MaxWorkers = 1
    Capacity = 2
SPECIFICATION Spec
INVARIANTS TypeOK ReservationsMatch OnlyCurrentIsKept AtMostOnce StartIsLed ClosedHoldsNothing
PROPERTIES NothingWaitsForever
CHECK_DEADLOCK FALSE
