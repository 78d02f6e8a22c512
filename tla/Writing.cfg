SPECIFICATION Spec
CONSTANTS
    Docs <- AllDocs
    ContainerMax = 5
    IndexCost = 1
    Padding = 2
INVARIANTS
    NilMeansWritten
    ErrorNeverWhole
PROPERTY
    SaveKeepsPromise
