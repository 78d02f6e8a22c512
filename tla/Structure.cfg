\* Trees of every kind set, replaced and removed in any order, while pages and
\* annotations are added, the version changes and PDF/UA is declared.
SPECIFICATION StructureSpec
CONSTANTS
    None = None
    Pages <- ThePages
    Forms <- TheForms
    Annots <- TheAnnots
    Gone <- TheGone
    ResourceDicts <- TheDicts
    XObjects <- Nested
    ResourcesOf <- OwnDicts
    Inherited = None
    Standard = {"P", "Document"}
    Only20 = {"Title"}
    Trees <- AllTrees
    MaxMCID = 2
    MaxNestingDepth = 1
    MaxStructureDepth = 3
    Starts <- TheStarts
INVARIANTS
    MarksLeadToOwners
    TypesDefined
    RefusedBeforeWriting
