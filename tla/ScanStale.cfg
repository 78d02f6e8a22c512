SPECIFICATION Spec
CONSTANTS
    Top = Top
    Files <- StaleFiles
INVARIANTS
    TopLevelNewer
