\* Pages that draw what the root of the page tree lists, and one tree after
\* another over them.
SPECIFICATION StructureSpec
CONSTANTS
    None = None
    Pages <- ThePages
    Forms <- TheForms
    Annots <- TheAnnots
    Gone <- TheGone
    ResourceDicts <- TheDicts
    XObjects <- AtTheRoot
    ResourcesOf <- NoDicts
    Inherited = "Root"
    Standard = {"P", "Document"}
    Only20 = {"Title"}
    Trees <- FormTrees
    MaxMCID = 2
    MaxNestingDepth = 1
    MaxStructureDepth = 3
    Starts <- TheStarts
INVARIANT
    FormsLetGo
