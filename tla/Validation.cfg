SPECIFICATION Spec
CONSTANTS
    File <- Table
    Tops <- TopNames
    WorkLimits = {1, 6, 14, 90}
    Poll = 2
    MaxCost = 2
    MaxDepth = 2
    MaxTrips = 1
    EmbeddedDocs = 4
    EmbeddedBytes = 4
INVARIANTS
    NoFalseAccusation
    CompleteUnlessTold
    StopsInTime
PROPERTY
    Terminates
