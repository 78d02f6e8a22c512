-------------------------- MODULE MCSignatureReview --------------------------
(***************************************************************************)
(* Files of a page with its content: one with a form, whose empty field is   *)
(* in an object stream with the content; one linearized, with no form; one   *)
(* linearized with no marker at its end, the form in the catalog.            *)
(***************************************************************************)
EXTENDS SignatureReview

Body    == <<"body", 0>>
Form    == <<"form", 0>>
Objects == <<"con", 0>>

Catalog(form, inline) ==
    [kind |-> "cat", rest |-> 0, form |-> form, inline |-> inline, dss |-> None, perms |-> None]
PageOf(annots) == [kind |-> "page", rest |-> 0, annots |-> annots]
Content        == [kind |-> "body", rest |-> 0]
EmptyField     == [kind |-> "field", rest |-> 0, v |-> None, area |-> TRUE, ap |-> None]
FormWith(f)    == [kind |-> "form", rest |-> 0, flags |-> 0, fields |-> <<f>>]

Direct(os) == [o \in os |-> At(1)]
Section(at, table) == [at |-> at, table |-> table, free |-> {}]

\* The marker at the end, or the one at the front that names no section.
Marked(at) == {[states |-> at, at |-> Span]}
Front1     == {[states |-> 0, at |-> 2]}

Base(objects, sections, markers, content0) ==
    [part |-> [objects |-> objects, sections |-> sections, markers |-> markers], content |-> content0]

Packed ==
    LET c == Cat :> Catalog(Form, None) @@ Page :> PageOf(<<Slot>>) @@ Form :> FormWith(Slot)
             @@ Objects :> [kind |-> "con", rest |-> 0,
                            members |-> <<[number |-> Slot, value |-> EmptyField],
                                          [number |-> Body, value |-> Content]>>]
        inside == [o \in {Slot, Body} |-> [part |-> 0, con |-> Objects, index |-> IF o = Slot THEN 1 ELSE 2]]
    IN  Base(c, <<Section(5, Direct(DOMAIN c) @@ inside)>>, Marked(5),
             c @@ Slot :> EmptyField @@ Body :> Content)

Linear(form, annots, markers) ==
    LET c == Cat :> Catalog(None, form) @@ Page :> PageOf(annots)
             @@ Slot :> EmptyField @@ Body :> Content
    IN  Base(c, <<Section(1, Direct({Cat, Page})), Section(8, Direct({Slot, Body}))>>, markers, c)

Files == {Packed, Linear(None, <<>>, Front1 \union Marked(1)), Linear(FormWith(Slot), <<Slot>>, Front1)}
=============================================================================
