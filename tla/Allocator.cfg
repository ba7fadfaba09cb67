SPECIFICATION Spec
CONSTANTS
    Allocs = {R, a, b, c}
    Root = R
    NoAlloc = NoAlloc
    Jobs = {j1, j2}
    MaxAdoptions = 2
SYMMETRY Symmetry
INVARIANTS WellLinked NoLeak FreeingWaitsForJobs
PROPERTY FreesOnlyOrphans
CHECK_DEADLOCK FALSE
