SPECIFICATION Spec
CONSTANTS
    Top = Top
    Files <- AllFiles
INVARIANTS
    MemoryBounded
    RightObject
    NothingSilentlyMissing
    BrokenIsFilesFault
