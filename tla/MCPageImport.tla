----------------------------- MODULE MCPageImport -----------------------------
(***************************************************************************)
(* Sources of two pages with links, with a form, or with layers.            *)
(***************************************************************************)
EXTENDS PageImport

Refs0 == [k \in Keys |-> <<>>]
Object(type) == [type |-> type, name |-> None, turn |-> None, dest |-> None, p |-> None, ref |-> Refs0]
Refer(o, key, refs) == [o EXCEPT !.ref[key] = refs]

NoLayers == [has |-> FALSE, base |-> "ON", groups |-> {}, on |-> {}, off |-> {}]
Document(objects, oc) == [object |-> objects, oc |-> oc, readable |-> TRUE]

\* A page, and a page drawing with the content both share and a missing object.
Page(annots, turn) == Refer([Refer(Object("page"), "Annots", annots) EXCEPT !.turn = turn], "Refs", <<"content", "gone">>)

\* Links on both pages: a destination, or an action, and what comes after it.
LinkDocs ==
    {Document("P" :> Page(<<"la", "lb">>, turn) @@ "Q" :> Page(<<"lb">>, None)
              @@ "content" :> Refer(Object("stream"), "Refs", <<"Q">>)
              @@ "la" :> [Refer(Object("Link"), "A", act) EXCEPT !.dest = to, !.p = "P"]
              @@ "lb" :> [Refer(Object("Link"), "A", <<"go">>) EXCEPT !.p = "Q"]
              @@ "go" :> [Refer(Object("GoTo"), "Next", <<"next", "thread">>) EXCEPT !.dest = goes]
              @@ "next" :> [Object("GoTo") EXCEPT !.dest = then]
              @@ "thread" :> Object("Thread"),
              NoLayers) :
        turn \in {None, 90}, act \in {<<>>, <<"go">>, <<"thread">>},
        to \in {None, "P", "Q"}, goes \in {None, "P", "Q"}, then \in {"P", "Q"}}

X == [text |-> "x", suffix |-> <<>>]

\* A form: a widget on each page, under one field, under a field of a field, or
\* each a field of its own; the first may refer to the second.
Under(parent) == Refer(Object("widget"), "Parent", IF parent = None THEN <<>> ELSE <<parent>>)

FormDocs ==
    {Document("P" :> Page(onP, None) @@ "Q" :> Page(<<"v">>, 90)
              @@ "content" :> Object("stream")
              @@ "w" :> [Refer(Under(pw), "Refs", about) EXCEPT !.p = "P", !.name = IF pw = None THEN X ELSE None]
              @@ "v" :> [Under(pv) EXCEPT !.p = "Q", !.name = IF pv = None THEN named ELSE None]
              @@ "f" :> [Refer(Refer(Object("field"), "Kids", SelectSeq(<<"w", "v">>, LAMBDA n :
                               (n = "w" /\ pw = "f") \/ (n = "v" /\ pv = "f"))),
                               "Parent", IF nested THEN <<"top">> ELSE <<>>) EXCEPT !.name = X]
              @@ "top" :> [Refer(Object("field"), "Kids", SelectSeq(<<"f", "v">>, LAMBDA n :
                               (n = "f" /\ nested) \/ (n = "v" /\ pv = "top"))) EXCEPT !.name = X],
              NoLayers) :
        onP \in {<<"w">>, <<"w", "v">>}, pw \in {None, "f"}, pv \in {None, "f", "top"},
        nested \in BOOLEAN, named \in {None, X}, about \in {<<>>, <<"v">>}}

\* Two layers in every state.
LayerDocs ==
    {Document("P" :> Refer(Object("page"), "Refs", <<"y">>) @@ "Q" :> Object("page")
              @@ "y" :> Object("layer") @@ "z" :> Object("layer"),
              [has |-> TRUE, base |-> base, groups |-> {"y", "z"}, on |-> on, off |-> off]) :
        base \in {"ON", "OFF"}, on \in SUBSET {"y", "z"}, off \in SUBSET {"y", "z"}}

Unreadable == {[d EXCEPT !.readable = FALSE] : d \in {CHOOSE d \in LayerDocs : TRUE}}

Sources == LinkDocs \cup FormDocs \cup LayerDocs \cup Unreadable

Asked == {<<"P">>, <<"Q">>, <<"P", "P">>, <<"P", "Q", "P">>, <<"Q", "Q", "P">>, <<"P", None>>}

Own == [of |-> "own", ord |-> 0]
Plain == [locked |-> FALSE, rooted |-> TRUE, held |-> 0, count |-> 0, turn |-> None, names |-> <<>>, oc |-> NoLayers]

Joins ==
    {Plain, [Plain EXCEPT !.locked = TRUE], [Plain EXCEPT !.rooted = FALSE],
     [Plain EXCEPT !.held = 2, !.count = None, !.turn = 90, !.names = <<X, [X EXCEPT !.suffix = <<2>>]>>,
                   !.oc = [NoLayers EXCEPT !.has = TRUE, !.base = "OFF", !.groups = {Own}]],
     [Plain EXCEPT !.held = 1, !.count = -1, !.turn = 0, !.names = <<X>>,
                   !.oc = [NoLayers EXCEPT !.has = TRUE, !.groups = {Own}, !.off = {Own}]]}
=============================================================================
