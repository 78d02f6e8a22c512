SPECIFICATION Spec
CONSTANTS
    F1 = F1
    P1 = P1
    c1 = c1
    MaxNestingDepth = 1
    MarkedMax = 2
    Fonts <- MCFonts
    Patterns <- MCPatterns
    Comps <- MCComps
    Unset = Unset
INVARIANT BytesComplete
PROPERTY ReaderFollows
