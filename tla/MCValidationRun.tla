--------------------------- MODULE MCValidationRun ---------------------------
(***************************************************************************)
(* Files of up to three checks, embedding one another, and themselves.     *)
(***************************************************************************)
EXTENDS ValidationRun

Item(i, c) == [item |-> i, cost |-> c]
Search(steps) == [kind |-> "search", byte |-> FALSE, steps |-> steps]
Byte(steps)   == [kind |-> "search", byte |-> TRUE, steps |-> steps]
Embeds(names) ==
    [kind |-> "embedded", byte |-> FALSE,
     steps |-> [i \in 1..Len(names) |-> Item(<<"file", names[i]>>, 1)]]

Doc(checks) ==
    [data |-> "document", size |-> 1, part |-> 2, read |-> TRUE, limited |-> FALSE,
     checks |-> checks]
Other(data) == [Doc(<<>>) EXCEPT !.data = data]

Passes == Search(<<Item("other", 2), Item("other", 2), Item("other", 1), Item("good", 2)>>)
Fails  == Search(<<Item("other", 1), Item("other", 1)>>)
Clean  == Byte(<<Item("good", 1)>>)

Leaves == {"sound", "unsound", "newer", "big", "huge", "blind"} \cup (Data \ {"document"})
Leaf(n) ==
    CASE n = "sound"   -> Doc(<<Passes, Clean>>)
      [] n = "unsound" -> Doc(<<Fails, Clean>>)
      [] n = "newer"   -> [Doc(<<Clean>>) EXCEPT !.part = 3]
      [] n = "big"     -> [Doc(<<Clean>>) EXCEPT !.size = 4]
      [] n = "huge"    -> Doc(<<Search(<<Item("deep", 0), Item("good", 1)>>)>>)
      [] n = "blind"   -> Doc(<<Search(<<Item("declined", 1)>>), Clean>>)
      [] n = "over a limit" -> [Doc(<<Clean>>) EXCEPT !.data = n]
      [] OTHER -> Other(n)

\* A file that embeds itself, one that embeds such a file, and one of each kind
\* of file after a sound one.
Inner == {"quine", "quine holder"}
AFile(n) ==
    CASE n \in Leaves        -> Leaf(n)
      [] n = "quine"         -> Doc(<<Embeds(<<"quine">>), Clean>>)
      [] n = "quine holder"  -> Doc(<<Passes, Embeds(<<"unsound", "quine">>)>>)

\* Top-level files: each embeds two files, between two checks.
Pairs == {<<"sound", n>> : n \in Leaves \cup Inner} \cup {<<"blind", "huge">>, <<"quine holder", "quine holder">>}
Singles == {"unread", "limited", "failing", "faulty", "declining"}
TopFile(n) ==
    CASE n \in Pairs     -> Doc(<<Passes, Embeds(n), Fails>>)
      [] n[2] = "unread"    -> [Doc(<<Passes, Clean, Clean>>) EXCEPT !.read = FALSE]
      [] n[2] = "limited"   -> [Doc(<<Passes, Clean>>) EXCEPT !.limited = TRUE]
      [] n[2] = "failing"   -> Doc(<<Fails, Passes, Byte(<<Item("other", 1)>>)>>)
      [] n[2] = "faulty"    -> Doc(<<Search(<<Item("fault", 0)>>), Fails>>)
      [] n[2] = "declining" -> Doc(<<Search(<<Item("declined", 1), Item("other", 1)>>),
                                  Search(<<Item("other", 1), Item("declined", 1)>>), Fails>>)

Embeddable == {<<"file", n>> : n \in Leaves \cup Inner}
TopNames == Pairs \cup {<<"top", s>> : s \in Singles}

Table ==
    [n \in TopNames \cup Embeddable |->
        IF n \in Embeddable THEN AFile(n[2]) ELSE TopFile(n)]
=============================================================================
