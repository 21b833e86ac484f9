SPECIFICATION Spec
CONSTANTS
    Pages = {p1}
    Capacity = 2
    MaxUploads = 2
    MaxResources = 2
    MaxManagers = 1
    MaxRevision = 1
INVARIANT FreshFileCanStart
