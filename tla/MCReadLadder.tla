---------------------------- MODULE MCReadLadder ----------------------------
(***************************************************************************)
(* Files of a few pieces, each with every outcome of the chain walk.        *)
(***************************************************************************)
EXTENDS ReadLadder

Item(kind, num) ==
    [kind |-> kind, num |-> num, parses |-> TRUE, intact |-> TRUE,
     typed |-> TRUE, holds |-> {}, root |-> 0]
Box(num, holds)  == [Item("container", num) EXCEPT !.holds = holds]
XRef(num, r)     == [Item("xref", num) EXCEPT !.root = r]
Keyword(r)       == [Item("trailer", 0) EXCEPT !.root = r]
Untyped(p)       == [p EXCEPT !.typed = FALSE]
Corrupt(p)       == [p EXCEPT !.intact = FALSE]
Noise(num)       == [Item("dict", num) EXCEPT !.parses = FALSE]

\* A table with an update; cross-reference streams and containers, with an
\* update that moves the catalog, and one that takes an object out of its
\* container; both kinds of trailer, in either order; no trailer at all.
Plain == <<
    <<Item("dict", 1), Item("stream", 2), Keyword(1), Item("array", 2), Keyword(1)>>,
    <<Item("dict", 1), Item("dict", 2), Keyword(1), Keyword(2)>>,
    <<Item("dict", 3), Box(4, {1, 2}), XRef(5, 1)>>,
    <<Item("dict", 1), Box(4, {2}), XRef(5, 1), Item("dict", 3), XRef(6, 3)>>,
    <<Box(4, {1, 2}), XRef(5, 1), Item("string", 2), XRef(6, 1)>>,
    <<Item("dict", 1), Keyword(1), Item("dict", 2), Box(4, {3}), XRef(5, 2)>>,
    <<Item("dict", 2), XRef(5, 2), Item("dict", 1), Keyword(1)>>,
    <<Item("stream", 3), Box(4, {1, 2}), Box(5, {6})>>,
    <<Item("dict", 1), Untyped(Box(4, {2})), XRef(5, 1)>>,
    <<Item("dict", 1), Item("stream", 2), Noise(2), Keyword(1)>>>>

\* The same with an /Encrypt dictionary.
Ciphered == <<
    <<Item("dict", 1), Item("stream", 2), Item("encrypt", 7), Keyword(1)>>,
    <<Item("dict", 1), Item("array", 2), Item("encrypt", 7), Keyword(1)>>,
    <<Item("dict", 1), Box(4, {2, 3}), Item("encrypt", 7), XRef(5, 1)>>,
    <<Item("dict", 1), Corrupt(Box(4, {2, 3})), Item("encrypt", 7), XRef(5, 1)>>,
    <<Item("dict", 1), Untyped(Box(4, {2})), Item("encrypt", 7), XRef(5, 1)>>,
    <<Item("dict", 1), Corrupt(Item("stream", 2)), Item("encrypt", 7), Keyword(1),
      Item("string", 3), XRef(5, 1)>>>>

\* The table of the pieces, as a program that wrote them would have it.
Numbers(at) == {at[o].num : o \in DOMAIN at} \ {0}
LastAt(at, n) == Max({o \in DOMAIN at : at[o].num = n /\ at[o].parses})
TopOf(at) == [n \in Numbers(at) |-> LastAt(at, n)]
BoxesOf(at) == {o \in DOMAIN at : at[o].kind = "container"}
PlacedOf(at) ==
    [n \in UNION {at[o].holds : o \in BoxesOf(at)} \ Numbers(at) |->
        at[CHOOSE o \in BoxesOf(at) : n \in at[o].holds].num]
RootOf(at) == LET t == {o \in DOMAIN at : at[o].root # 0}
              IN  IF t = {} THEN 0 ELSE at[Max(t)].root

Outcome(at, outcome, top0, placed0, cut) ==
    [outcome |-> outcome, top |-> top0, placed |-> placed0, root |-> RootOf(at), cut |-> cut]

\* The chain reads; an offset of it misses its object, or is outside the file;
\* a second number, or the free-list head, is given the place of the first; the
\* second number has it alone; an older section is cut off with what only it has;
\* the newest does not read.
Chains(at) ==
    LET t  == TopOf(at)
        pl == PlacedOf(at)
        n  == Max(DOMAIN t)
        less == [m \in DOMAIN t \ {1} |-> t[m]]
    IN  {Outcome(at, "read", t, pl, "none"),
         Outcome(at, "read", [t EXCEPT ![n] = 0], pl, "none"),
         Outcome(at, "read", [m \in DOMAIN t \cup {0} |-> IF m = 0 THEN 1 ELSE t[m]], pl, "none")}
        \cup {Outcome(at, "read", [m \in DOMAIN t \cup {8} |-> IF m = 8 THEN t[k] ELSE t[m]],
                      pl, "none") : k \in DOMAIN t}
        \cup {Outcome(at, "read", [m \in (DOMAIN t \ {k}) \cup {8} |-> IF m = 8 THEN t[k] ELSE t[m]],
                      pl, "none") : k \in DOMAIN t}
        \cup {Outcome(at, "read", less, pl, cut) : cut \in {"malformed"} \cup DeclinedFor}
        \cup {Outcome(at, outcome, Empty, Empty, "none") : outcome \in {"malformed"} \cup DeclinedFor}

File(at, enc, opens, cipher) ==
    {[at |-> at, enc |-> enc, opens |-> opens, cipher |-> cipher,
      catalogs |-> {1} \cap (Numbers(at) \cup DOMAIN PlacedOf(at)), chain |-> c] :
        c \in Chains(at)}

\* One more update at the end of each: of an object, of one in a container, with
\* a number above the second one, or with a container of its own.
Updates == {<<>>, <<Item("array", 2), Keyword(1)>>, <<Item("string", 3), XRef(9, 3)>>,
            <<Item("string", 12), Item("dict", 13), Keyword(1)>>,
            <<Box(10, {11}), XRef(9, 1)>>}

AllFiles ==
    UNION {File(Plain[i] \o u, FALSE, TRUE, "RC4") : i \in DOMAIN Plain, u \in Updates}
    \cup UNION {File(Ciphered[i] \o u, TRUE, opens, cipher) :
                    i \in DOMAIN Ciphered, u \in Updates, opens \in BOOLEAN, cipher \in Ciphers}
=============================================================================
