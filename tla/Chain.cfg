SPECIFICATION FairSpec
CONSTANTS
    NoPrev = NoPrev
    Absent = Absent
    Files <- AllFiles
    Window = 2
INVARIANTS
    ChainLinks
    UnbrokenComplete
    NothingInterrupted
    NewestWins
PROPERTY
    Terminates
