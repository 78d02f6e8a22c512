--------------------------- MODULE SourceRevisions ---------------------------
(***************************************************************************)
(* The file a document was read from, as Source keeps it for the signature  *)
(* verifier: the cross-reference sections of its chain, the %%EOF markers   *)
(* that close its updates, the revisions they make, and signedFile.Diff,    *)
(* which compares the state at the end of one with the file as it stands.   *)
(*                                                                         *)
(* A file is a sequence of parts, the base and the updates appended to it.  *)
(* Part k takes the positions after Span * (k - 1) up to Span * k: its      *)
(* objects, then its cross-reference section, then its marker.              *)
(***************************************************************************)
EXTENDS Integers, SequencesExt

CONSTANTS
    None,           \* no object, no entry: nil
    Unreadable      \* an error instead of an object

Span == 10

\* Where the objects of part k end, and the part itself.
Start(k)     == Span * (k - 1)
ObjectEnd(k) == Start(k) + 4
End(k)       == Span * k

Length(file) == End(Len(file))

-----------------------------------------------------------------------------
(* The chain, and the revisions of its sections. Section <<k, j>> is the      *)
(* j-th of part k, whose newest is its first.                                 *)

Chain(file) == UNION {{<<k, j>> : j \in DOMAIN file[k].sections} : k \in DOMAIN file}
SectionOf(file, a) == file[a[1]].sections[a[2]]
Older(a, b) == a[1] < b[1] \/ (a[1] = b[1] /\ a[2] > b[2])

\* Every "startxref N %%EOF" of the file.
Markers(file) == UNION {file[k].markers : k \in DOMAIN file}

\* Where the update a section belongs to ends: at the last marker that states
\* the section, else at the first one after it.
SectionEnd(file, a) ==
    LET at     == SectionOf(file, a).at
        naming == {m.at : m \in {x \in Markers(file) : x.states = at}}
        after  == {m.at : m \in {x \in Markers(file) : x.at > at}}
    IN  IF naming # {} THEN Max(naming)
        ELSE IF after # {} THEN Min(after) ELSE -1

\* The end of a section's revision: the furthest one so far, oldest first.
RevisionOfSection(file, a) ==
    Max({SectionEnd(file, b) : b \in {x \in Chain(file) : x = a \/ Older(x, a)}})

\* A revision no %%EOF closes has no end, and nothing follows it.
RevisionEnds(file) ==
    LET ends == {RevisionOfSection(file, a) : a \in Chain(file)}
    IN  IF -1 \in ends THEN {} ELSE ends

-----------------------------------------------------------------------------
(* The objects of one state of the file.                                    *)

Mentions(sec, o) == o \in DOMAIN sec.table \/ o \in sec.free

\* Of some sections, the entry a section has that no newer one mentions.
Places(file, secs, a, o) ==
    /\ o \in DOMAIN SectionOf(file, a).table
    /\ \A b \in secs : Older(a, b) => ~Mentions(SectionOf(file, b), o)

\* The newest section that mentions an object has it: an entry, or free.
MergeSections(file, secs) ==
    LET placed == UNION {{o \in DOMAIN SectionOf(file, a).table : Places(file, secs, a, o)} : a \in secs}
    IN  [o \in placed |-> SectionOf(file, CHOOSE a \in secs : Places(file, secs, a, o)).table[o]]

Compressed(e) == e.con # None

\* parseAt: what lies outside the bytes of the state defines nothing.
ParseAt(file, end, e, o) == IF Start(e.part) >= end THEN None ELSE file[e.part].objects[o]

\* A container the state does not define, or that is not in its bytes.
ContainerMissing(file, end, table, con) ==
    con \in DOMAIN table => ~Compressed(table[con]) /\ ParseAt(file, end, table[con], con) = None

\* What a compressed entry leads to once its container is decoded.
Unpack(file, end, table, o) ==
    LET e     == table[o]
        outer == table[e.con]
        con   == ParseAt(file, end, outer, e.con)
    IN  IF \/ Compressed(outer)
           \/ con.kind # "con"
           \/ e.index \notin DOMAIN con.members
        THEN Unreadable
        ELSE IF con.members[e.index].number # o
             THEN Unreadable
             ELSE con.members[e.index].value

Object(file, end, table, o) ==
    IF o \notin DOMAIN table THEN None
    ELSE IF ~Compressed(table[o]) THEN ParseAt(file, end, table[o], o)
    ELSE IF ContainerMissing(file, end, table, table[o].con) THEN None
    ELSE Unpack(file, end, table, o)

\* What a reader of one state finds.
StateOf(file, end, table) ==
    LET read == [o \in DOMAIN table |-> Object(file, end, table, o)]
    IN  [o \in {x \in DOMAIN table : read[x] # None} |-> read[o]]

\* Two objects asked for in a container that is not there: objStm remembers the
\* container as nil, and for the second one reads the error of what it remembers.
NilContainer(file, end, table, asked) ==
    LET lost == {o \in asked \intersect DOMAIN table :
                    Compressed(table[o]) /\ ContainerMissing(file, end, table, table[o].con)}
    IN  \E o \in lost, p \in lost : o # p /\ table[o].con = table[p].con

-----------------------------------------------------------------------------
(* The comparison of a revision with the file as it stands.                 *)

\* The sections that lie before a revision's end, and belong to none after it.
SectionsBefore(file, end) ==
    {a \in Chain(file) : SectionOf(file, a).at < end /\ RevisionOfSection(file, a) <= end}

Closed(file, secs, end) == \E a \in secs : SectionEnd(file, a) = end

\* With BytesAnywhere an entry both tables hold is taken to name the same bytes
\* wherever they lie, its container's entry not looked at.
BytesAnywhere(e, old, new, end) == TRUE

\* An entry both tables hold names bytes that end with the state, or before it.
SameBytesBefore(e, old, new, end) ==
    IF Compressed(e)
    THEN /\ e.con \in DOMAIN old \intersect DOMAIN new
         /\ old[e.con] = new[e.con]
         /\ ~Compressed(old[e.con])
         /\ ObjectEnd(old[e.con].part) <= end
    ELSE ObjectEnd(e.part) <= end

\* The objects read in both states.
Compared(old, new, end) ==
    {o \in DOMAIN old \union DOMAIN new :
        ~ /\ o \in DOMAIN old \intersect DOMAIN new
          /\ old[o] = new[o]
          /\ SameBytesBefore(new[o], old, new, end)}

=============================================================================
