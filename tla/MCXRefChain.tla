----------------------------- MODULE MCXRefChain -----------------------------
(***************************************************************************)
(* Every file of three offsets, and chains of four sections, for XRefChain. *)
(***************************************************************************)
EXTENDS XRefChain

\* What the section at an offset lists: a number redefined, one freed and one
\* defined again after it was freed, over an older section that has them all.
Used(o) == <<{1, 2}, {2, 3}, {3}, {1, 2, 3}>>[o + 1]
Free(o) == <<{3}, {1}, {2}, {}>>[o + 1]

Place(o, kind, reads, prev) ==
    [kind |-> kind, reads |-> reads, prev |-> prev,
     used |-> IF kind = "other" THEN {} ELSE Used(o),
     free |-> IF kind = "other" THEN {} ELSE Free(o)]

\* A section that cannot be read: bytes that are no section, a malformed table
\* or stream, one over the decode limit, one with a filter pdf0 lacks.
Unreadable(o) ==
    {Place(o, "other", "malformed", NoPrev),
     Place(o, "table", "malformed", NoPrev),
     Place(o, "stream", "malformed", NoPrev),
     Place(o, "stream", "limit", NoPrev),
     Place(o, "hybrid", "unsupported", NoPrev)}

File(at, start, nearEnd, header, budget) ==
    [size |-> Cardinality(DOMAIN at), at |-> at, start |-> start,
     nearEnd |-> nearEnd, header |-> header, budget |-> budget]

\* Files of three places, each a table or a stream that leads anywhere, or
\* unreadable; the offsets count from the start of the file or from a header
\* one byte into it, and 3 lies outside.
SmallPlace(o) ==
    Unreadable(o) \cup
    {Place(o, kind, "section", prev) :
        kind \in {"table", "stream"}, prev \in {NoPrev, 0, 1, 2, 3}}
SmallFiles ==
    {File(at, start, TRUE, header, 9) :
        at \in {[o \in 0..2 |-> <<p, q, r>>[o + 1]] :
                   p \in SmallPlace(0), q \in SmallPlace(1), r \in SmallPlace(2)},
        start \in {1, 3}, header \in {0, 1}}

\* Files of four places whose chain usually goes the whole way back, with the
\* budget at and below what it lists, and every kind of startxref.
LongPlace(o) ==
    {Place(o, kind, "section", IF o = 3 THEN NoPrev ELSE o + 1) :
        kind \in {"table", "hybrid"}}
    \cup {Place(o, "stream", "section", IF o = 3 THEN 0 ELSE o + 1),
          Place(o, "other", "malformed", NoPrev),
          Place(o, "stream", "limit", NoPrev)}
LongFiles ==
    {File(at, start, nearEnd, 0, budget) :
        at \in {[o \in 0..3 |-> <<p, q, r, s>>[o + 1]] :
                   p \in LongPlace(0), q \in LongPlace(1),
                   r \in LongPlace(2), s \in LongPlace(3)},
        start \in {0, Absent}, nearEnd \in BOOLEAN, budget \in {2, 5, 8}}

AllFiles == SmallFiles \cup LongFiles

=============================================================================
