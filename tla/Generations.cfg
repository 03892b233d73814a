SPECIFICATION Spec
CONSTANT MaxGenerations = 4
INVARIANTS
    TypeOK
    AcknowledgedSurvive
    AtMostOneAhead
    ReadyIsClean
PROPERTY ImplementsPublication
