------------------------------ MODULE PageImport ------------------------------
(***************************************************************************)
(* ExtractPages and AppendPages: importPages numbers a copy of every page   *)
(* asked for, finds out which annotations and form fields go with each, and *)
(* copies page by page, an object at a time off a list of what has a number *)
(* and no value yet; then hangs the pages under the target's tree and joins *)
(* their fields and layers to the target's.                                 *)
(***************************************************************************)
EXTENDS Integers, FiniteSets, SequencesExt

CONSTANTS
    Documents,      \* the sources: [object, oc, readable]
    Targets,        \* the targets: [locked, rooted, held, count,
                    \* turn, names, oc], held pages in its tree
    Requests,       \* the pages asked for, each a sequence of page objects
    None            \* an entry that is not there; no such page

VARIABLES
    src, ask, dst,  \* what the import is given
    step, at,       \* where importPages is, and at which page
    bound,          \* what collectBound found
    copies,         \* the numbers allocated in the target, and their values
    pending,        \* the copies with a number and no value
    tree,           \* the target's page tree: its kids, /Count
    form, layers    \* the target's /Fields and /OCProperties

given      == <<src, ask, dst>>
importVars == <<given, step, at, bound, copies, pending, tree, form, layers>>

\* A dictionary: its kind, the name of a field, an attribute of a page, the page
\* its destination or /P names, and the objects its other entries refer to.
Keys  == {"Annots", "Kids", "Parent", "A", "Next", "Refs"}

IsSequence(s) == s \in Seq(ToSet(s))

\* What goes where in a source: only links and actions have a destination, /A is
\* one action, an annotation is none and no page, and what a page draws with is
\* neither an annotation of a page nor a field.
IsDocument(d) ==
    /\ \A n \in DOMAIN d.object : None \notin {n, [of |-> n, ord |-> 0]}
    /\ \A n \in DOMAIN d.object : LET o == d.object[n] IN
          /\ o.type # "null"
          /\ \A k \in Keys : IsSequence(o.ref[k])
          /\ o.type = "page" => o.turn = None \/ o.turn \in Int
          /\ o.dest # None => o.type \in {"Link", "GoTo"}
          /\ Len(o.ref["A"]) <= 1
          /\ \A a \in ToSet(o.ref["A"]) \cap DOMAIN d.object :
                d.object[a].type \notin {"page", "Link"}
          /\ \A a \in ToSet(o.ref["Annots"]) :
                /\ o.type = "page"
                /\ a \in DOMAIN d.object => d.object[a].type \notin {"page", "GoTo", "Thread"}
          /\ o.type = "page" => \A r \in ToSet(o.ref["Refs"]), m \in DOMAIN d.object :
                r \notin ToSet(d.object[m].ref["Annots"]) \cup ToSet(d.object[m].ref["Parent"])
    /\ \A l \in d.oc.groups : l \in DOMAIN d.object => d.object[l].type = "layer"
    /\ d.oc.on \cup d.oc.off \subseteq d.oc.groups /\ IsFiniteSet(d.oc.groups)

\* Its form: fields and widgets are over and under each other both ways, and in no
\* circle; nothing else has kids, or is under a field; what a page lists is no field
\* that is not a widget.
IsFormed(d) ==
    LET Up(n)   == ToSet(d.object[n].ref["Parent"])
        Part(n) == d.object[n].type \in {"widget", "field"}
    IN  /\ \A S \in SUBSET DOMAIN d.object : S = {} \/ \E n \in S : Up(n) \cap S = {}
        /\ \A n \in DOMAIN d.object : LET o == d.object[n] IN
              /\ Len(o.ref["Parent"]) <= 1 /\ Up(n) \subseteq DOMAIN d.object
              /\ \A p \in Up(n) : IF Part(n) THEN d.object[p].type = "field" /\ n \in ToSet(d.object[p].ref["Kids"])
                                ELSE ~Part(p)
              /\ o.ref["Kids"] # <<>> => o.type = "field"
              /\ \A a \in ToSet(o.ref["Annots"]) \cap DOMAIN d.object : d.object[a].type # "field"
              /\ \A kid \in ToSet(o.ref["Kids"]) \cap DOMAIN d.object :
                    Part(kid) /\ d.object[kid].ref["Parent"] = <<n>>
              /\ o.name # None => o.name = [text |-> o.name.text, suffix |-> o.name.suffix] /\ IsSequence(o.name.suffix)

\* The layers of a target are objects of its own, and its /Count is its pages or
\* wrong in a way that shows.
IsTarget(t) ==
    /\ IsSequence(t.names)
    /\ t.held \in Nat
    /\ t.count = None \/ t.count < 0 \/ t.count = t.held
    /\ t.count # None => t.count \in Int
    /\ t.turn = None \/ t.turn \in Int
    /\ t.oc.has \in BOOLEAN /\ DOMAIN t.oc = {"has", "base", "groups", "on", "off"}

OwnLayers(t, d) == \A g \in d.oc.groups : [of |-> g, ord |-> 0] \notin t.oc.on \cup t.oc.off

\* A request is for pages of the source, and None stands for an index past them.
IsRequest(r, d) ==
    /\ IsSequence(r)
    /\ \A i \in DOMAIN r : r[i] = None \/ (r[i] \in DOMAIN d.object /\ d.object[r[i]].type = "page")

ASSUME ImportAssumption ==
    /\ None \notin Int
    /\ \A t \in Targets : IsTarget(t)
    /\ \A d \in Documents : /\ IsDocument(d)
                            /\ \A t \in Targets : OwnLayers(t, d)
                            /\ \A r \in Requests : IsRequest(r, d)

ASSUME FormAssumption == \A d \in Documents : IsFormed(d)

Nodes == DOMAIN src.object
Pages == {n \in Nodes : src.object[n].type = "page"}

\* A placeholder for a value drain has still to write.
Empty == [type |-> "null"]

-----------------------------------------------------------------------------
(* Before anything is copied.                                               *)

\* The repetition of its page that the i-th one asked for is.
Instance(i) == [of |-> ask[i], ord |-> Cardinality({j \in 1..(i - 1) : ask[j] = ask[i]})]
Instances   == {Instance(i) : i \in DOMAIN ask}

\* checkImportSource, the target's lock, its page tree, the page indices.
Refused == \/ ~src.readable \/ dst.locked \/ ~dst.rooted
           \/ \E i \in DOMAIN ask : ask[i] = None

Begin ==
    /\ step = "check"
    /\ IF Refused
       THEN step' = "refused" /\ UNCHANGED copies
       ELSE /\ step' = "bind"
            /\ copies' = [c \in Instances |-> Empty]
    /\ UNCHANGED <<given, at, bound, pending, tree, form, layers>>

\* Those of a sequence at some places, in order; and those that are in a set.
Picked(seq, where) ==
    [i \in 1..Cardinality(where) |-> seq[CHOOSE k \in where : Cardinality({j \in where : j <= k}) = i]]
Only(seq, S) == Picked(seq, {k \in DOMAIN seq : seq[k] \in S})

\* The nodes above a widget: the fewest with its parent and theirs; a reference
\* to nothing ends them.
Parent(n) == ToSet(src.object[n].ref["Parent"]) \cap Nodes
Above(n)  == {m \in Nodes : \A S \in SUBSET Nodes :
                 (\A x \in S \cup {n} : Parent(x) \subseteq S) => m \in S}

Widget(n)  == n \in Nodes /\ src.object[n].type = "widget"
TopOf(n)   == IF Above(n) # {} THEN CHOOSE m \in Above(n) : Parent(m) = {}
              ELSE IF src.object[n].name # None THEN n ELSE None

\* Every annotation listed, for the repetition of the page listing it.
Annots(i)  == src.object[ask[i]].ref["Annots"]
Listed     == FlattenSeq([i \in DOMAIN ask |->
                  [k \in DOMAIN Annots(i) |-> [of |-> Annots(i)[k], ord |-> Instance(i).ord]]])
Lists(i)   == {[of |-> a, ord |-> Instance(i).ord] : a \in ToSet(Annots(i))}

collectBound ==
    /\ step = "bind"
    /\ LET keys    == UNION {Lists(i) : i \in DOMAIN ask}
           widgets == {k \in keys : Widget(k.of)}
           fields  == UNION {{[of |-> f, ord |-> w.ord] : f \in Above(w.of)} : w \in widgets}
           shown   == Only(Listed, widgets)
           tops    == [k \in DOMAIN shown |-> [of |-> TopOf(shown[k].of), ord |-> shown[k].ord]]
       IN  bound' = [annots |-> {k.of : k \in keys},
                     nodes  |-> {k.of : k \in fields},
                     keep   |-> fields \cup widgets,
                     owner  |-> [k \in keys |-> Instance(CHOOSE i \in DOMAIN ask :
                                    k \in Lists(i) /\ \A j \in 1..(i - 1) : k \notin Lists(j))],
                     roots  |-> Picked(tops, {k \in DOMAIN tops : /\ tops[k].of # None
                                                                  /\ \A j \in 1..(k - 1) : tops[j] # tops[k]})]
    /\ step' = "copy" /\ at' = 1
    /\ UNCHANGED <<given, copies, pending, tree, form, layers>>

-----------------------------------------------------------------------------
(* Copying.                                                                 *)

Imported(page) == page \in ToSet(ask)

\* A link or an action whose only purpose was to lead to a page not imported.
dropsOut[n \in Nodes] ==
    LET o == src.object[n]
    IN  \/ o.type = "GoTo" /\ ~Imported(o.dest)
        \/ o.type = "Thread"
        \/ o.type = "Link" /\ o.dest # None /\ ~Imported(o.dest)
        \/ /\ o.type = "Link" /\ o.dest = None
           /\ \E a \in ToSet(o.ref["A"]) : a \in Nodes /\ dropsOut[a]

\* With nothing dropped but a page not asked for.
CarriedAlways(n) == n \in Pages => Imported(n)

\* copyRef: whether a reference is carried, and to which copy.
Carried(n)    == IF n \in Pages THEN Imported(n) ELSE n \in Nodes => ~dropsOut[n]
IsBound(n)    == n \in bound.annots \cup bound.nodes

\* With one copy of an annotation for every repetition of its page.
CopiedOnce(n, ord) == [of |-> n, ord |-> 0]

CopyOf(n, ord) == [of |-> n, ord |-> IF n \in Pages \/ ~IsBound(n) THEN 0 ELSE ord]

CopyRefs(refs, ord) ==
    LET kept == Only(refs, {n \in ToSet(refs) : Carried(n)}) IN [k \in DOMAIN kept |-> CopyOf(kept[k], ord)]

\* With what was kept for the first repetition of a page kept for every one.
KeptForFirst(kids, ord) == CopyRefs(Only(kids, {k.of : k \in {b \in bound.keep : b.ord = 0}}), ord)

\* keptKids: of a field's kids, those on an imported page.
KeptKids(kids, ord) == CopyRefs(Only(kids, {k.of : k \in {b \in bound.keep : b.ord = ord}}), ord)

\* remapDest.
remapDest(page) == IF page # None /\ Imported(page) THEN [of |-> page, ord |-> 0] ELSE None

CopyDict(n, ord) ==
    LET o == src.object[n]
    IN  [type |-> o.type, name |-> o.name, turn |-> o.turn,
         dest |-> remapDest(o.dest),
         p    |-> IF n \in bound.annots /\ o.p # None /\ [of |-> n, ord |-> ord] \in DOMAIN bound.owner
                  THEN bound.owner[[of |-> n, ord |-> ord]]
                  ELSE remapDest(o.p),
         ref  |-> [k \in Keys |-> IF k = "Kids" /\ n \in bound.nodes
                                  THEN KeptKids(o.ref[k], ord)
                                  ELSE CopyRefs(o.ref[k], ord)]]

\* copyRef numbers what it has not met; what the source defines is put on the
\* list, and a reference to nothing stays null.
Numbered(refs) == [c \in refs \cup DOMAIN copies |-> IF c \in DOMAIN copies THEN copies[c] ELSE Empty]
ToFill(refs)   == SetToSeq({c \in refs \ DOMAIN copies : c.of \in Nodes})
RefsOf(value)  == UNION {ToSet(value.ref[k]) : k \in Keys}

FillIn(c, rest) ==
    LET value == CopyDict(c.of, c.ord)
    IN  /\ copies' = [Numbered(RefsOf(value)) EXCEPT ![c] = value]
        /\ pending' = ToFill(RefsOf(value)) \o rest

CopyPage ==
    /\ step = "copy" /\ pending = <<>> /\ at <= Len(ask)
    /\ FillIn(Instance(at), <<>>)
    /\ at' = at + 1
    /\ UNCHANGED <<given, step, bound, tree, form, layers>>

\* drain, one object.
drain ==
    /\ pending # <<>>
    /\ FillIn(Head(pending), Tail(pending))
    /\ UNCHANGED <<given, step, at, bound, tree, form, layers>>

-----------------------------------------------------------------------------
(* Joining the target.                                                      *)

\* appendToPageTree, with shieldInherited; a page without /Rotate does not take
\* the root's.
Hang ==
    /\ step = "copy" /\ pending = <<>> /\ at > Len(ask)
    /\ copies' = [c \in DOMAIN copies |->
                     IF c \in Instances /\ copies[c].turn = None /\ dst.turn # None
                     THEN [copies[c] EXCEPT !.turn = 0] ELSE copies[c]]
    /\ LET count == IF dst.count = None \/ dst.count < 0 THEN dst.held ELSE dst.count
       IN  tree' = [kids |-> [i \in DOMAIN ask |-> Instance(i)], count |-> count + Len(ask)]
    /\ step' = "form"
    /\ UNCHANGED <<given, at, bound, pending, form, layers>>

\* uniqueFieldName: the name itself, or with the first suffix not taken.
UniqueName(name, taken) ==
    IF name \notin taken THEN name
    ELSE LET unused(k) == [name EXCEPT !.suffix = Append(@, k)] \notin taken
             n == CHOOSE k \in 2..(Cardinality(taken) + 2) : unused(k) /\ \A j \in 2..(k - 1) : ~unused(j)
         IN  [name EXCEPT !.suffix = Append(@, n)]

\* mergeAcroForm: each root in turn takes a name, if it has one, and joins.
Joining == Only(bound.roots, DOMAIN copies)
Renamed[k \in DOMAIN Joining] ==
    LET name == copies[Joining[k]].name
    IN  IF name = None THEN None
        ELSE UniqueName(name, ToSet(dst.names) \cup ({Renamed[j] : j \in 1..(k - 1)} \ {None}))

MergeForm ==
    /\ step = "form"
    /\ form' = Joining
    /\ copies' = [c \in DOMAIN copies |->
                     IF c \in ToSet(Joining)
                     THEN [copies[c] EXCEPT !.name = Renamed[CHOOSE k \in DOMAIN Joining : Joining[k] = c]]
                     ELSE copies[c]]
    /\ step' = "catalog"
    /\ UNCHANGED <<given, at, bound, pending, tree, layers>>

\* A layer's state under a configuration: /ON, then /OFF, over the base.
Off(oc, l) == l \in oc.off \/ (oc.base = "OFF" /\ l \notin oc.on)

\* With the base state forgotten.
ListedAway == src.oc.off

\* The source's layers that are off.
Away == {l \in src.oc.groups : Off(src.oc, l)}

\* carryOptionalContent: as it was into a target with none, otherwise with a
\* state of its own where the target's base says another.
CarryLayers ==
    /\ step = "catalog"
    /\ LET Refs(s) == {CopyOf(l, 0) : l \in s}
       IN  IF ~src.oc.has THEN UNCHANGED <<layers, copies, pending>>
           ELSE /\ layers' = IF ~layers.has
                             THEN [has |-> TRUE, base |-> src.oc.base, groups |-> Refs(src.oc.groups),
                                   on |-> Refs(src.oc.on), off |-> Refs(src.oc.off)]
                             ELSE [layers EXCEPT
                                     !.groups = @ \cup Refs(src.oc.groups),
                                     !.off = IF layers.base = "OFF" THEN @ ELSE @ \cup Refs(Away),
                                     !.on  = IF layers.base = "OFF" THEN @ \cup Refs(src.oc.groups \ Away) ELSE @]
                /\ copies' = Numbered(Refs(src.oc.groups))
                /\ pending' = ToFill(Refs(src.oc.groups))
    /\ step' = "finish"
    /\ UNCHANGED <<given, at, bound, tree, form>>

Finish ==
    /\ step = "finish" /\ pending = <<>>
    /\ step' = "done"
    /\ UNCHANGED <<given, at, bound, copies, pending, tree, form, layers>>

Returned == step \in {"done", "refused"} /\ UNCHANGED importVars

ImportInit ==
    /\ src \in Documents /\ ask \in Requests /\ dst \in Targets
    /\ step = "check" /\ at = 0
    /\ bound = None
    /\ copies = <<>>
    /\ pending = <<>>
    /\ tree = [kids |-> <<>>, count |-> dst.count]
    /\ form = <<>>
    /\ layers = dst.oc

ImportNext == \/ Begin \/ collectBound \/ CopyPage \/ drain \/ Hang
        \/ MergeForm \/ CarryLayers \/ Finish \/ Returned

ImportSpec == ImportInit /\ [][ImportNext]_importVars

-----------------------------------------------------------------------------
(* Properties.                                                              *)

Done  == step = "done"
Shown == UNION {ToSet(copies[c].ref["Annots"]) : c \in Instances}
Copied(kind) == {c \in DOMAIN copies : copies[c].type = kind}

\* A page asked for twice is two pages: in the target are the pages asked for and
\* no other, in order, counted, each turned as it was; the two share what they
\* draw with and no annotation, and what a listed annotation says of its page is
\* a page listing it.  Nothing numbered is left without its value.
PagesApart == Done =>
    /\ tree = [kids |-> [i \in DOMAIN ask |-> Instance(i)], count |-> dst.held + Len(ask)]
    /\ Copied("page") = Instances
    /\ \A c \in Instances :
          LET own == copies[c].turn
          IN  (IF own # None THEN own ELSE IF dst.turn # None THEN dst.turn ELSE 0)
                = (IF src.object[c.of].turn = None THEN 0 ELSE src.object[c.of].turn)
    /\ \A c, d \in Instances : c # d /\ c.of = d.of =>
          /\ copies[c].ref["Refs"] = copies[d].ref["Refs"]
          /\ ToSet(copies[c].ref["Annots"]) \cap ToSet(copies[d].ref["Annots"]) = {}
    /\ \A a \in Shown \ Copied("null") : copies[a].p # None =>
          copies[a].p \in Instances /\ a \in ToSet(copies[copies[a].p].ref["Annots"])
    /\ \A c \in Copied("null") : c.of \notin Nodes

\* Every destination in the target names a page that was imported, none of a link
\* or an action is left without one, and a link is left out only when it leads,
\* itself or by its action, to no page that was.
LinksLead == Done =>
    /\ \A c \in DOMAIN copies \ Copied("null") :
          /\ copies[c].dest # None => copies[c].dest \in Instances
          /\ src.object[c.of].dest # None \/ copies[c].type = "GoTo" => copies[c].dest # None
          /\ copies[c].type = "Link" /\ src.object[c.of].ref["A"] # <<>> /\ copies[c].dest = None
                => copies[c].ref["A"] # <<>>
    /\ \A i \in DOMAIN ask : \A a \in ToSet(src.object[ask[i]].ref["Annots"]) :
          CopyOf(a, Instance(i).ord) \notin Shown =>
              LET o == src.object[a]
                  ends == IF o.dest # None THEN {o.dest} ELSE {src.object[x].dest : x \in ToSet(o.ref["A"])}
              IN  o.type = "Link" /\ ends \cap ToSet(ask) = {}

\* The field hierarchy over a copy.
Over[c \in DOMAIN copies] ==
    IF copies[c].type = "null" \/ copies[c].ref["Parent"] = <<>> THEN <<>>
    ELSE copies[c].ref["Parent"] \o Over[copies[c].ref["Parent"][1]]

NoNameTwice ==
    \A k \in DOMAIN form : LET name == copies[form[k]].name IN
        name # None => /\ name \notin ToSet(dst.names)
                       /\ \A j \in DOMAIN form \ {k} : copies[form[j]].name # name

\* In the target's form, every widget shown hangs from a top-level field through
\* fields that each list the one below; what those list is shown on a page; and
\* no two top-level fields have one name.
FormTree == Done =>
    /\ \A w \in Shown \cap Copied("widget") :
          src.object[w.of].name # None \/ Over[w] # <<>> =>
              /\ (IF Over[w] = <<>> THEN w ELSE Last(Over[w])) \in ToSet(form)
              /\ LET line == <<w>> \o Over[w]
                 IN  \A k \in 2..Len(line) : line[k - 1] \in ToSet(copies[line[k]].ref["Kids"])
    /\ \A f \in ToSet(form) \cup UNION {ToSet(Over[w]) : w \in Shown} : \A kid \in ToSet(copies[f].ref["Kids"]) :
          copies[kid].ref["Parent"] = <<f>> /\ (copies[kid].type = "widget" => kid \in Shown)
    /\ NoNameTwice

\* A layer hidden in the source is hidden in the target, and one that was not is
\* not, whatever base state each document starts from.
HiddenStays == Done /\ src.oc.has =>
    \A l \in src.oc.groups :
        /\ CopyOf(l, 0) \in layers.groups
        /\ Off(layers, CopyOf(l, 0)) = Off(src.oc, l)

-----------------------------------------------------------------------------
(* What is true half-way.  A number is given only to what is carried, and a  *)
(* page only to one asked for; what has its value has the one copyDict makes *)
(* of the source's, all of whose references have numbers; and what has not   *)
(* is on the list, is a page still to come, or is nothing in the source.     *)

Copying == step \in {"copy", "form", "catalog", "finish", "done"}
Hung    == step \in {"form", "catalog", "finish", "done"}
Drawn   == UNION {ToSet(src.object[ask[i]].ref["Refs"]) : i \in DOMAIN ask}

GivenInv ==
    /\ IsDocument(src) /\ IsTarget(dst) /\ OwnLayers(dst, src) /\ IsRequest(ask, src)
    /\ step \in {"check", "refused", "bind", "copy", "form", "catalog", "finish", "done"}
    /\ step \notin {"check", "refused"} => \A i \in DOMAIN ask : ask[i] \in Pages

BoundInv ==
    Copying =>
        /\ bound.annots = UNION {ToSet(Annots(i)) : i \in DOMAIN ask}
        /\ bound.nodes \cap Drawn = {}
        /\ DOMAIN bound.owner = UNION {Lists(i) : i \in DOMAIN ask}
        /\ \A k \in DOMAIN bound.owner : \E i \in DOMAIN ask : k \in Lists(i) /\ bound.owner[k] = Instance(i)

Reached(c) == \/ c \in Instances
              \/ c = [of |-> c.of, ord |-> c.ord] /\ c.of \notin Pages /\ Carried(c.of)

Filled(c) ==
    /\ c.of \in Nodes
    /\ DOMAIN copies[c] = {"type", "name", "turn", "dest", "p", "ref"}
    /\ LET value == CopyDict(c.of, c.ord)
       IN  /\ copies[c].type = value.type /\ copies[c].dest = value.dest
           /\ copies[c].p = value.p /\ copies[c].ref = value.ref
           /\ RefsOf(value) \subseteq DOMAIN copies

\* A page whose turn has not come.
ToCome(c) == \/ step = "bind"
             \/ step = "copy" /\ \E i \in at..Len(ask) : c = Instance(i)

CopyInv ==
    /\ step = "bind" => copies = [c \in Instances |-> Empty] /\ pending = <<>>
    /\ step \in {"check", "refused", "form", "catalog", "done"} => pending = <<>>
    /\ step = "copy" => at \in 1..(Len(ask) + 1)
    /\ Copying =>
        /\ Instances \subseteq DOMAIN copies
        /\ pending \in Seq({c \in DOMAIN copies \ Instances : c.of \in Nodes})
        /\ \A c \in DOMAIN copies :
              /\ Reached(c)
              /\ \/ Filled(c)
                 \/ "type" \in DOMAIN copies[c] /\ copies[c].type = "null"
              /\ copies[c].type = "null" => c \in ToSet(pending) \/ ToCome(c) \/ c.of \notin Nodes

TurnInv ==
    Copying => \A c \in Instances : copies[c].type # "null" =>
        copies[c].turn = IF Hung /\ src.object[c.of].turn = None /\ dst.turn # None
                         THEN 0 ELSE src.object[c.of].turn

JoinInv ==
    /\ Hung => tree = [kids |-> [i \in DOMAIN ask |-> Instance(i)], count |-> dst.held + Len(ask)]
    /\ step \notin {"finish", "done"} => layers = dst.oc
    /\ step \in {"finish", "done"} /\ src.oc.has => \A l \in src.oc.groups :
          /\ CopyOf(l, 0) \in layers.groups
          /\ Off(layers, CopyOf(l, 0)) = Off(src.oc, l)

ImportInv == GivenInv /\ BoundInv /\ CopyInv /\ TurnInv /\ JoinInv

\* Of the forms: what is bound are the widgets of the pages asked for, with what
\* is over them; a copy has the name of its source until its form is joined; and
\* every root has joined it under a name of its own, to be written no more.
Borne      == {k \in UNION {Lists(i) : i \in DOMAIN ask} : Widget(k.of)}
FieldsOver == UNION {{[of |-> f, ord |-> w.ord] : f \in Above(w.of)} : w \in Borne}
TopsOver   == {[of |-> TopOf(w.of), ord |-> w.ord] : w \in {k \in Borne : TopOf(k.of) # None}}

RootsInv ==
    Copying =>
        /\ bound.nodes = {k.of : k \in FieldsOver} /\ bound.keep = FieldsOver \cup Borne
        /\ ToSet(bound.roots) = TopsOver /\ IsInjective(bound.roots) /\ IsSequence(bound.roots)

NamesInv ==
    step \in {"copy", "form"} => \A c \in DOMAIN copies :
        copies[c].type # "null" => copies[c].name = src.object[c.of].name

FormInv ==
    step \in {"catalog", "finish", "done"} =>
        ToSet(form) = ToSet(bound.roots) /\ ToSet(form) \subseteq DOMAIN copies \ ToSet(pending) /\ NoNameTwice

TreeInv == IsFormed(src) /\ RootsInv /\ NamesInv /\ FormInv
=============================================================================
