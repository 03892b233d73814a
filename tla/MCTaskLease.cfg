SPECIFICATION Spec
CONSTANTS
    Procs = {p1, p2, p3}
    Tasks = {1, 2}
    MaxRevision = 1
SYMMETRY Interchangeable
INVARIANTS
    TypeOK
    Exclusive
    DeletesAsPreviewed
    NothingOrphaned
    NoMutualRefusal
PROPERTY UpdatesNotLost
