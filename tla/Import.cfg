\* Every source of two pages with links, a form or layers, into targets with and
\* without pages, fields and layers of their own.
SPECIFICATION ImportSpec
CONSTANTS
    None = None
    Documents <- Sources
    Targets <- Joins
    Requests <- Asked
INVARIANTS
    PagesApart
    LinksLead
    FormTree
    HiddenStays
