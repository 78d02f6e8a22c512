CONSTANTS
    None = None
    Unreadable = Unreadable
    Bases <- Files
    MaxUpdates = 3

SPECIFICATION ReviewSpec

INVARIANTS
    EveryChangeSeen
    WhatIsSeenIsSigned
    OrdinaryKeepsIntact

CHECK_DEADLOCK FALSE
