---------------------------- MODULE MCObjStmLoad ----------------------------
(***************************************************************************)
(* Files of two containers, 1 and 2, for the objects 3 and 4.              *)
(***************************************************************************)
EXTENDS ObjStmLoad

Item(n, cost, parses) == [num |-> n, cost |-> cost, parses |-> parses]

Container(data, size, index) == [data |-> data, size |-> size, index |-> index]

\* Container 1 holds both objects, one, or one that does not parse, in few
\* bytes or in many; or it is one that cannot be unpacked.
Unopened(c) == {Container(data, 2, <<>>) : data \in Data \ {"decodes"}}
FirstContainers ==
    {Container("decodes", size, index) :
        size \in {1, 3, 4},
        index \in {<<Item(3, 2, TRUE), Item(4, 2, TRUE)>>,
                   <<Item(4, 1, FALSE), Item(3, 2, TRUE)>>,
                   <<Item(3, 1, TRUE)>>}}
    \cup Unopened(1)

\* Container 2 lists them the other way round, another version of one, or the
\* number 0 and a number nothing refers to.
SecondContainers ==
    {Container("decodes", size, index) :
        size \in {1, 3, 4},
        index \in {<<Item(4, 2, TRUE), Item(3, 2, TRUE)>>,
                   <<Item(4, 1, TRUE)>>,
                   <<Item(0, 1, TRUE), Item(5, 1, TRUE)>>}}
    \cup Unopened(2)

File(rebuilt, top, first, second, placed, total) ==
    [rebuilt    |-> rebuilt,
     top        |-> top \cup {1, 2},
     containers |-> [c \in {1, 2} |-> IF c = 1 THEN first ELSE second],
     placed     |-> placed,
     total      |-> total,
     perStream  |-> 3,
     position   |-> [n \in top \cup {1, 2} |-> n]]

\* Where the table says 3 and 4 are: in either container or in one that is not
\* there, at the first, the second or a third entry; 0 may be listed too.
Where == [container : {1, 2, 9}, index : 1..2]
Tables ==
    {[n \in {3, 4} |-> IF n = 3 THEN w ELSE x] : w \in Where, x \in Where}
    \cup {[n \in {0, 3} |-> [container |-> 1, index |-> 3]]}

TabledFiles ==
    {File(FALSE, {}, first, second, placed, total) :
        first \in FirstContainers, second \in SecondContainers,
        placed \in Tables, total \in {3, 5, 9}}

\* Rebuilt, with object 3 found at the top level too, or not.
ScannedFiles ==
    {File(TRUE, top, first, second, [n \in {} |-> 0], total) :
        top \in {{}, {3}}, first \in FirstContainers, second \in SecondContainers,
        total \in {3, 5, 9}}

AllFiles == TabledFiles \cup ScannedFiles

\* Rebuilt from a file whose containers come after its top-level objects, or
\* before them.
StaleFiles ==
    {[f EXCEPT !.position = [n \in DOMAIN f.position |-> 9 - n]] : f \in ScannedFiles}
=============================================================================
