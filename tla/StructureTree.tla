---------------------------- MODULE StructureTree -----------------------------
(***************************************************************************)
(* SetStructureTree and what it has to keep in step: the elements, the      *)
(* parent tree that leads from a mark back to its element, the indices into *)
(* it on pages, forms and annotations, and the namespaces the elements'     *)
(* types are read in.  A tree is set, replaced and removed while pages and  *)
(* annotations are added and PDF/UA is declared, in any order.              *)
(***************************************************************************)
EXTENDS Integers, FiniteSets, SequencesExt

CONSTANTS
    None,
    Pages, Forms, Annots,   \* the objects a tree may name
    Gone,                   \* the annotations whose object is not there
    ResourceDicts,
    XObjects,               \* [ResourceDicts -> Seq(Forms)]
    ResourcesOf,            \* /Resources of a page or a form, None without
    Inherited,              \* /Resources of the page tree's root, or None
    Standard, Only20,       \* types of both namespaces, of PDF 2.0's alone
    Trees,                  \* what callers pass to SetStructureTree
    MaxMCID, MaxNestingDepth, MaxStructureDepth,
    Starts                  \* what a Document may start as

VARIABLES
    writable,               \* there is a catalog, and the document is not Locked
    pages, annots,          \* the page list, and each page's /Annots
    index,                  \* /StructParents, or /StructParent of an annotation
    tree,                   \* /StructTreeRoot with all under it, and /MarkInfo
    version, declared,      \* DeclaredVersion; the PDF/UA part claimed
    asked,                  \* the last tree the caller set
    broken                  \* a call has failed after it began to write

structureVars == <<writable, pages, annots, index, tree, version, declared, asked, broken>>

ASSUME StructureAssumption ==
    /\ None \notin Nat \cup Trees \cup Pages \cup Forms \cup Annots
    /\ IsFiniteSet(Pages) /\ IsFiniteSet(Forms) /\ IsFiniteSet(Annots)
    /\ Pages \cap Forms = {} /\ Pages \cap Annots = {} /\ Forms \cap Annots = {}
    /\ Gone \subseteq Annots
    /\ MaxMCID \in Nat /\ MaxNestingDepth \in Nat
    /\ \A r \in ResourceDicts : XObjects[r] \in Seq(Forms)
    /\ \A t \in Trees : DOMAIN t.elems = 1..Len(t.elems)

NoTree  == [kind |-> "none"]
Foreign == [kind |-> "foreign"]    \* another program's, that Read found

-----------------------------------------------------------------------------
(* What a caller describes: [elems, root, roles], the elements numbered in   *)
(* the order they are read, the root a sequence of them.  An element has a   *)
(* tag, a page or None, an id or None, the IDs its Headers attribute lists,  *)
(* what its attributes are ("plain", "pdf20", "malformed") and its kids.     *)

MCIDKid(n)        == [kind |-> "mcid", mcid |-> n]
FormMCIDKid(f, n) == [kind |-> "form", form |-> f, mcid |-> n]
AnnotKid(a)       == [kind |-> "annot", annot |-> a]
ElemKid(i)        == [kind |-> "elem", elem |-> i]
NoKid             == [kind |-> "none"]

KidsOf(t, i) == ToSet(t.elems[i].kids)

\* The element an element is a kid of, 0 at the top.
Under(t, i) ==
    IF i \in ToSet(t.root) THEN 0
    ELSE CHOOSE j \in DOMAIN t.elems : ElemKid(i) \in KidsOf(t, j)

\* The elements from one up to the top: it, the one it is a kid of, and so on.
Line(t, i) ==
    LET closed == {s \in SUBSET DOMAIN t.elems :
                      i \in s /\ \A j \in s : Under(t, j) # 0 => Under(t, j) \in s}
    IN  {j \in DOMAIN t.elems : \A s \in closed : j \in s}

DepthOf == [t \in Trees |-> [i \in DOMAIN t.elems |-> Cardinality(Line(t, i)) - 1]]

\* An element's own page, or the one the nearest of its ancestors states: an
\* element is numbered after the one it is a kid of.
PageOf ==
    [t \in Trees |-> [i \in DOMAIN t.elems |->
        LET stated  == {j \in Line(t, i) : t.elems[j].page # None}
            nearest == {j \in stated : \A other \in stated : other <= j}
        IN  IF nearest = {} THEN None ELSE t.elems[CHOOSE j \in nearest : TRUE].page]]

\* A kid that claims content for its element; the one of an element does not.
Claim(t, i, n) ==
    LET k == t.elems[i].kids[n]
        of(on, mcid) == {[kind |-> k.kind, on |-> on, mcid |-> mcid, owner |-> i, at |-> n]}
    IN  CASE k.kind = "mcid"  -> of(PageOf[t][i], k.mcid)
          [] k.kind = "form"  -> of(k.form, k.mcid)
          [] k.kind = "annot" -> of(k.annot, 0)
          [] OTHER -> {}

\* The claims of a tree.
Claims ==
    [t \in Trees |->
        UNION {UNION {Claim(t, i, n) : n \in DOMAIN t.elems[i].kids} : i \in DOMAIN t.elems}]

\* What no two claims may have in common.
Mark(c) == <<c.kind, c.on, c.mcid>>

-----------------------------------------------------------------------------
(* structureCheck and checkStructurePages: nothing is written before them.  *)

IsPDF20 == version = "2.0"

\* A type that is standard here, or that the role map gives a meaning.
TagKnown(tag, roles) ==
    IF tag \in Standard THEN TRUE
    ELSE IF tag \in Only20 THEN IsPDF20
    ELSE tag # "" /\ tag \in DOMAIN roles

\* With the identifiers claimed remembered for one element at a time.
ClaimsOnceEach(t) ==
    /\ \A c \in Claims[t] : c.mcid \in 0..MaxMCID
    /\ \A c, d \in Claims[t] : c # d /\ c.owner = d.owner => Mark(c) # Mark(d)

\* The identifiers of a mark are in range and on a stream of their own, and no
\* identifier and no annotation belongs to two elements.
ClaimsOnce(t) ==
    /\ \A c \in Claims[t] : c.mcid \in 0..MaxMCID
    /\ \A c, d \in Claims[t] : c # d => Mark(c) # Mark(d)

\* Whatever names content has a page to name it on.
PageStated(t) ==
    \A i \in DOMAIN t.elems :
        (\E k \in KidsOf(t, i) : k.kind \in {"mcid", "form", "annot"}) => PageOf[t][i] # None

AttributesTold(t) ==
    \A i \in DOMAIN t.elems :
        /\ t.elems[i].attrs \in IF IsPDF20 THEN {"plain", "pdf20"} ELSE {"plain"}
        /\ t.elems[i].headers \subseteq {t.elems[j].id : j \in DOMAIN t.elems} \ {None}

IDsUnique(t) ==
    \A i, j \in DOMAIN t.elems : i # j /\ t.elems[i].id # None => t.elems[i].id # t.elems[j].id

RolesStandard(t) == \A tag \in DOMAIN t.roles : t.roles[tag] \in Standard

\* The pages named are this document's, the annotations on them, the forms forms.
\* A page is one by the page list, however it is found.
OnItsPages(t) ==
    \A i \in DOMAIN t.elems :
        /\ t.elems[i].page # None => t.elems[i].page \in ToSet(pages)
        /\ \A k \in KidsOf(t, i) :
              /\ k.kind = "annot" => k.annot \in annots[PageOf[t][i]] \ Gone
              /\ k.kind = "form" => k.form \in Forms

\* elems calls itself for the children of an element that has none, too.
NotTooDeep(t) == \A i \in DOMAIN t.elems : DepthOf[t][i] + 1 <= MaxStructureDepth

Accepted(t) ==
    /\ NotTooDeep(t)
    /\ \A i \in DOMAIN t.elems :
          TagKnown(t.elems[i].tag, t.roles) /\ NoKid \notin KidsOf(t, i)
    /\ IDsUnique(t) /\ PageStated(t) /\ ClaimsOnce(t)
    /\ AttributesTold(t) /\ RolesStandard(t) /\ OnItsPages(t)

-----------------------------------------------------------------------------
(* clearStructureIndices.                                                   *)

\* The dictionaries clearXObjectStructParents has entered when it comes back
\* from one, with so many levels left: each is entered once, where it is first
\* met, and those of the forms it names after it.
Entered[left \in 0..(MaxNestingDepth + 1)] ==
    [dict \in ResourceDicts \cup {None}, seen \in SUBSET ResourceDicts |->
        IF left = 0 \/ dict = None \/ dict \in seen THEN seen
        ELSE FoldLeft(LAMBDA entered, form : Entered[left - 1][ResourcesOf[form], entered],
                      seen \cup {dict}, XObjects[dict])]

\* The forms it clears, from one page after another of a list: a page's own
\* /Resources, for the page list does not carry what it inherits.
FormsCleared(list) ==
    LET entered == FoldLeft(LAMBDA seen, p : Entered[MaxNestingDepth + 1][ResourcesOf[p], seen], {}, list)
    IN  UNION {ToSet(XObjects[r]) : r \in entered}

ReachedForms == FormsCleared(pages)

ReachedAnnots == (UNION {annots[p] : p \in ToSet(pages)}) \ Gone

\* With only the forms the pages name themselves.
ClearedIndexOfPages ==
    [x \in DOMAIN index |->
        IF x \in ToSet(pages) \cup ReachedAnnots
                 \cup UNION {ToSet(XObjects[ResourcesOf[p]]) : p \in ToSet(pages)}
        THEN None ELSE index[x]]

ClearedIndex ==
    [x \in DOMAIN index |->
        IF x \in ToSet(pages) \cup ReachedForms \cup ReachedAnnots THEN None ELSE index[x]]

-----------------------------------------------------------------------------
(* writeStructLevel and writeParentTree.                                    *)

\* What a tree claims content on, in the order of the keys of the parent tree:
\* its pages, its forms and its annotations, those of a kind in some order.
Stamped ==
    [t \in Trees |->
        LET on(kind) == SetToSeq({c.on : c \in {d \in Claims[t] : d.kind = kind}})
        IN  on("mcid") \o on("form") \o on("annot")]

Key(t, x) == (CHOOSE n \in DOMAIN Stamped[t] : Stamped[t][n] = x) - 1

\* What a key leads to: of a stream, an array by identifier as long as its
\* highest, with nulls (0) in its gaps; of an annotation, its element.
Entry(t, x) ==
    LET claims == {c \in Claims[t] : c.on = x}
        owner(mcid) == LET here == {c \in claims : c.mcid = mcid}
                       IN  IF here = {} THEN 0 ELSE (CHOOSE c \in here : TRUE).owner
    IN  IF \E c \in claims : c.kind = "annot" THEN [of |-> "object", owner |-> owner(0)]
        ELSE [of |-> "stream",
              owners |-> [mcid \in {m \in 0..MaxMCID : \E c \in claims : m <= c.mcid} |-> owner(mcid)]]

\* Only a type that PDF 2.0 alone has is written with its namespace.
Written(t) ==
    [i \in DOMAIN t.elems |->
        [tag |-> t.elems[i].tag, ns |-> t.elems[i].tag \in Only20 \ Standard]]

\* namespaces counts the PDF 2.0 entries of /Namespaces; marked is /MarkInfo.
WrittenTree(t) ==
    [kind |-> "written", elems |-> Written(t), root |-> ToSet(t.root), roles |-> t.roles, marked |-> TRUE,
     nums |-> [n \in DOMAIN Stamped[t] |-> Entry(t, Stamped[t][n])],
     ids |-> {<<t.elems[i].id, i>> : i \in {j \in DOMAIN t.elems : t.elems[j].id # None}},
     namespaces |-> IF \E i \in DOMAIN t.elems : Written(t)[i].ns THEN 1 ELSE 0]

\* What the writer would trip over: a page it has no reference for, an identifier
\* taken, an object of the parent tree that is not there.
Trips(t) ==
    \/ \E c \in Claims[t] : c.on = None \/ c.on \in Gone
    \/ \E c, d \in Claims[t] : c # d /\ c.kind # "annot" /\ Mark(c) = Mark(d)
    \/ \E c \in Claims[t] : c.kind = "form" /\ c.on \notin Forms

-----------------------------------------------------------------------------
(* placeDocumentInPDF20Namespace.                                           *)

\* With the namespace listed for every element moved into it.
PlacedAnew(s) ==
    LET moved == {i \in s.root : s.elems[i].tag = "Document" /\ ~s.elems[i].ns}
    IN  [s EXCEPT !.elems = [i \in DOMAIN s.elems |-> [s.elems[i] EXCEPT !.ns = @ \/ i \in moved]],
                  !.namespaces = @ + Cardinality(moved)]

\* The top-level Document elements without a namespace are put in PDF 2.0's,
\* which is listed unless it already is.
Placed(s) ==
    LET moved == {i \in s.root : s.elems[i].tag = "Document" /\ ~s.elems[i].ns}
    IN  [s EXCEPT !.elems = [i \in DOMAIN s.elems |-> [s.elems[i] EXCEPT !.ns = @ \/ i \in moved]],
                  !.namespaces = IF moved = {} \/ @ > 0 THEN @ ELSE @ + 1]

-----------------------------------------------------------------------------
(* What a page draws.                                                       *)

\* The forms a page's content can draw: those of its resources, its own or the
\* ones it inherits, and those of their resources, as deep as content nests.
Drawn(p) ==
    LET mine == IF ResourcesOf[p] # None THEN ResourcesOf[p] ELSE Inherited
        dicts[d \in 0..MaxNestingDepth] ==
            IF d = 0 THEN {mine} \ {None}
            ELSE {ResourcesOf[f] : f \in UNION {ToSet(XObjects[r]) : r \in dicts[d - 1]}} \ {None}
        named == UNION {dicts[d] : d \in 0..MaxNestingDepth}
    IN  {f \in Forms : \E r \in named : f \in ToSet(XObjects[r])}

\* "The form must be one the element's page draws": SetStructureTree leaves
\* that to its caller.
DrawnWhereNamed(t) ==
    \A i \in DOMAIN t.elems : \A k \in KidsOf(t, i) :
        k.kind = "form" /\ k.form \in Forms /\ PageOf[t][i] \in Pages => k.form \in Drawn(PageOf[t][i])

\* What a page shows, draws or carries is what a reader meets.
OnThePages(list, carried) ==
    (UNION {{p} \cup Drawn(p) \cup carried[p] : p \in ToSet(list)}) \ Gone

\* A document is taken as it is read, with an index only on what is on its pages.
ASSUME StartsAssumption ==
    \A f \in Starts :
        /\ f.pages \in Seq(Pages) /\ IsInjective(f.pages)
        /\ f.annots \in [Pages -> SUBSET Annots]
        /\ f.index \in [Pages \cup Forms \cup Annots -> Nat \cup {None}]
        /\ f.version \in {"1.7", "2.0"}
        /\ \A x \in DOMAIN f.index : f.index[x] # None => x \in OnThePages(f.pages, f.annots)

\* The walk meets every form a page draws.  It does not where a page inherits its
\* resources, nor where it first meets a dictionary too deep to go on from it.
WalkFindsAll ==
    \A n \in 0..Cardinality(Pages) : \A list \in [1..n -> Pages] :
        \A p \in ToSet(list) : Drawn(p) \subseteq FormsCleared(list)

-----------------------------------------------------------------------------
(* The actions: the calls of the Document.                                  *)

StructureInit ==
    /\ writable \in BOOLEAN
    /\ \E f \in Starts :
          /\ pages = f.pages /\ annots = f.annots /\ index = f.index
          /\ tree = IF \A x \in DOMAIN f.index : f.index[x] = None THEN NoTree ELSE Foreign
          /\ version = f.version
    /\ declared = 0 /\ asked = None /\ broken = FALSE

\* A nil tree removes the one there is.
RemoveTree ==
    /\ writable
    /\ index' = ClearedIndex /\ tree' = NoTree /\ asked' = None
    /\ UNCHANGED <<writable, pages, annots, version, declared, broken>>

\* A tree that is refused changes nothing.
SetStructureTree(t) ==
    /\ writable /\ Accepted(t)
    /\ IF Trips(t)
       THEN broken' = TRUE /\ index' = ClearedIndex /\ UNCHANGED <<tree, asked>>
       ELSE /\ index' = [x \in DOMAIN index |->
                   IF x \in ToSet(Stamped[t]) THEN Key(t, x) ELSE ClearedIndex[x]]
            /\ tree' = IF declared = 2 THEN Placed(WrittenTree(t)) ELSE WrittenTree(t)
            /\ asked' = t /\ UNCHANGED broken
    /\ UNCHANGED <<writable, pages, annots, version, declared>>

\* The metadata is taken to hold the title and the language the parts require.
DeclarePDFUA(part) ==
    /\ writable /\ (part = 2 <=> IsPDF20)
    /\ declared' = part
    /\ tree' = IF part = 2 /\ tree.kind = "written" THEN Placed(tree) ELSE tree
    /\ UNCHANGED <<writable, pages, annots, index, version, asked, broken>>

\* AddPage and AppendPages: a page with no index, whose forms may be another
\* page's as well.
AddPage(p) ==
    /\ writable /\ p \notin ToSet(pages)
    /\ pages' = Append(pages, p)
    /\ UNCHANGED <<writable, annots, index, tree, version, declared, asked, broken>>

\* The caller puts an annotation in a page's /Annots, with no index of its own yet.
AddAnnotation(p, a) ==
    /\ writable /\ p \in ToSet(pages) /\ a \notin annots[p]
    /\ annots' = [annots EXCEPT ![p] = @ \cup {a}]
    /\ UNCHANGED <<writable, pages, index, tree, version, declared, asked, broken>>

\* The caller sets Document.Version.
SetVersion(v) ==
    /\ v # version
    /\ version' = v
    /\ UNCHANGED <<writable, pages, annots, index, tree, declared, asked, broken>>

StructureNext ==
    \/ RemoveTree
    \/ \E t \in Trees : DrawnWhereNamed(t) /\ SetStructureTree(t)
    \/ \E part \in {1, 2} : DeclarePDFUA(part)
    \/ \E p \in Pages : AddPage(p)
    \/ \E p \in Pages, a \in Annots \ Gone : AddAnnotation(p, a)
    \/ \E v \in {"1.7", "2.0"} : SetVersion(v)

StructureSpec == StructureInit /\ [][StructureNext]_structureVars

-----------------------------------------------------------------------------
(* What a reader of the document sees.                                      *)

\* The element a mark leads to, through the index of what it is on; 0 if none.
Lookup(x, mcid) ==
    IF index[x] = None \/ tree.kind # "written" THEN 0
    ELSE IF index[x] + 1 \notin DOMAIN tree.nums THEN 0
    ELSE LET e == tree.nums[index[x] + 1]
         IN  IF x \in Annots THEN (IF e.of = "object" THEN e.owner ELSE 0)
             ELSE IF e.of = "stream" /\ mcid \in DOMAIN e.owners THEN e.owners[mcid] ELSE 0

\* The elements the caller said a mark belongs to.
OwnersAsked(x, mcid) ==
    IF asked = None THEN {}
    ELSE {c.owner : c \in {d \in Claims[asked] : d.on = x /\ d.mcid = mcid}}

ReadsRight(x) ==
    \A mcid \in IF x \in Annots THEN {0} ELSE 0..MaxMCID : OwnersAsked(x, mcid) = {Lookup(x, mcid)} \ {0}

-----------------------------------------------------------------------------
(* Properties.                                                              *)

StructureTypes ==
    /\ writable \in BOOLEAN
    /\ pages \in Seq(Pages) /\ IsInjective(pages)
    /\ annots \in [Pages -> SUBSET Annots]
    /\ DOMAIN index = Pages \cup Forms \cup Annots
    /\ \A x \in DOMAIN index : index[x] \in Nat \cup {None}
    /\ tree.kind \in {"none", "foreign", "written"}
    /\ version \in {"1.7", "2.0"} /\ declared \in 0..2
    /\ broken \in BOOLEAN

\* "starting from any mark on any page", a reader finds the element that owns
\* it, and from a mark the tree does not name it finds none, whatever trees were
\* set before and whatever was added since.
MarksLeadToOwners ==
    tree.kind # "foreign" =>
        \A x \in OnThePages(pages, annots) :
            ReadsRight(x) /\ (index[x] # None => tree # NoTree)

\* The part of it that is about forms: with the indices of "every XObject its
\* resources reach" cleared, no mark is attributed "to whichever element now has
\* that slot".
FormsLetGo ==
    tree.kind # "foreign" => \A x \in UNION {Drawn(p) : p \in ToSet(pages)} : ReadsRight(x)

\* "Nothing past this point can be refused": what the checks let through, the
\* writer has a page, a free identifier and an object for.
RefusedBeforeWriting == ~broken

\* Every element's type is one its namespace has or the role map explains; the
\* namespace is listed once if an element is in it; and in a document that
\* declares PDF/UA-2 a top-level Document is in it, whichever came first.
TypesDefined ==
    tree.kind = "written" =>
        /\ \A i \in DOMAIN tree.elems : LET e == tree.elems[i] IN
              /\ e.ns => e.tag \in Only20 \cup {"Document"}
              /\ ~e.ns => e.tag \in Standard \cup {tag \in DOMAIN tree.roles : tree.roles[tag] \in Standard}
              /\ (declared = 2 /\ i \in tree.root /\ e.tag = "Document") => e.ns
        /\ (\E i \in DOMAIN tree.elems : tree.elems[i].ns) => tree.namespaces = 1
        /\ \A i \in DOMAIN asked.elems : \A h \in asked.elems[i].headers :
              Cardinality({e \in tree.ids : e[1] = h}) = 1
=============================================================================
