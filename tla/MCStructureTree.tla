--------------------------- MODULE MCStructureTree ----------------------------
(***************************************************************************)
(* Two pages that draw forms, one of them in a form of both, with two       *)
(* annotations, and trees of up to four elements over them.                 *)
(***************************************************************************)
EXTENDS StructureTree, TLC

ThePages  == {"p", "q"}
TheForms  == {"f", "g"}
TheAnnots == {"a", "b", "gone"}
TheGone   == {"gone"}
TheDicts  == {"Rp", "Rq", "Rf", "Root"}

\* p draws f, which draws g; q draws f by a dictionary of its own.
Nested      == "Rp" :> <<"f">> @@ "Rq" :> <<"f">> @@ "Rf" :> <<"g">> @@ "Root" :> <<>>
OwnDicts    == "p" :> "Rp" @@ "q" :> "Rq" @@ "f" :> "Rf" @@ "g" :> None
\* Both pages inherit what they draw.
AtTheRoot   == "Rp" :> <<>> @@ "Rq" :> <<>> @@ "Rf" :> <<>> @@ "Root" :> <<"f", "g">>
NoDicts     == "p" :> None @@ "q" :> None @@ "f" :> None @@ "g" :> None
NoIndex == [x \in ThePages \cup TheForms \cup TheAnnots |-> None]

\* A new document, and documents read of which another program tagged a page
\* and a form, or a page, a form inside one and the annotations.
TheStarts ==
    {[pages |-> <<"p">>, annots |-> "p" :> {"a"} @@ "q" :> {"b"}, index |-> NoIndex, version |-> "2.0"],
     [pages |-> <<"q", "p">>, annots |-> "p" :> {"a", "gone"} @@ "q" :> {"a"},
      index |-> [NoIndex EXCEPT !["p"] = 1, !["f"] = 0], version |-> "1.7"],
     [pages |-> <<"p", "q">>, annots |-> "p" :> {"a"} @@ "q" :> {"b"},
      index |-> [NoIndex EXCEPT !["q"] = 0, !["g"] = 1, !["a"] = 1, !["b"] = 2], version |-> "2.0"]}

Elem(tag, page, kids) ==
    [tag |-> tag, page |-> page, id |-> None, headers |-> {}, attrs |-> "plain", kids |-> kids]
Tree(elems, root) == [elems |-> elems, root |-> root, roles |-> [tag \in {} |-> None]]

Kids == {MCIDKid(0), MCIDKid(1), FormMCIDKid("f", 0), FormMCIDKid("g", 1), AnnotKid("a"), AnnotKid("b")}
OddKids == {MCIDKid(MaxMCID + 1), MCIDKid(-1), FormMCIDKid("a", 0), AnnotKid("gone"), NoKid}

\* One element, of a page, of none and of what is no page, with any one kid;
\* two that may claim the same; an element between the marks of its parent,
\* whose page it may inherit; three over both pages.
Single == {Tree(<<Elem("P", page, <<k>>)>>, <<1>>) : page \in {"p", "q", "a", None}, k \in Kids \cup OddKids}
Double == {Tree(<<Elem("P", "p", <<k>>), Elem("P", "q", <<m>>)>>, <<1, 2>>) : k \in Kids, m \in Kids}
Inner  == {Tree(<<Elem("Document", page, <<k, ElemKid(2), MCIDKid(1)>>), Elem("P", own, <<MCIDKid(0)>>)>>, <<1>>) :
             page \in {"p", None}, own \in {"q", None}, k \in Kids}

\* Types, alone and at the top of a PDF/UA tree, and their roles.
Typed == {[Tree(<<Elem(top, "p", <<ElemKid(2)>>), Elem(tag, None, <<MCIDKid(0)>>)>>, <<1>>) EXCEPT !.roles = roles] :
             top \in {"Document", "Title"}, tag \in {"Document", "Title", "Mine", ""},
             roles \in {[m \in {} |-> None], "Mine" :> "P", "Mine" :> "Title"}}

\* Cells that name headers, attributes PDF 2.0 added, trees as deep as allowed.
Cell(id, headers, attrs) == [Elem("P", None, <<>>) EXCEPT !.id = id, !.headers = headers, !.attrs = attrs]
Tables == {Tree(<<Cell(id, {}, attrs), Cell("y", headers, "plain")>>, <<1, 2>>) :
              id \in {None, "x", "y"}, headers \in SUBSET {"x", "y"}, attrs \in {"plain", "pdf20", "malformed"}}
Deep(n) == Tree([i \in 1..n |-> Elem("P", "p", IF i = n THEN <<MCIDKid(0)>> ELSE <<ElemKid(i + 1)>>)], <<1>>)

AllTrees  == Single \cup Double \cup Inner \cup Typed \cup Tables \cup {Deep(3), Deep(4)}
FormTrees == Single

\* Where no resources are inherited, what the pages draw is walked.
ASSUME NestedIsWalked == Inherited # None \/ WalkFindsAll
===============================================================================
