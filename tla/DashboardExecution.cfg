SPECIFICATION Spec
CONSTANTS
    Pages = {p1, p2}
    Capacity = 1
    MaxUploads = 1
    MaxResources = 2
    MaxManagers = 1
    MaxRevision = 2
SYMMETRY PageSymmetry
INVARIANT RunsEndInASnapshot
INVARIANT ManagersAreReleased
PROPERTY SnapshotsOnlyAdvance
CONSTRAINT MCShortRuns
