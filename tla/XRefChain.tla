------------------------------- MODULE XRefChain -------------------------------
(***************************************************************************)
(* How Read finds the cross-reference table of a file: it locates the      *)
(* newest section, walks the /Prev chain back from it, and merges what it  *)
(* found into one table, or gives the chain up and rebuilds the table by   *)
(* scanning.  The caller's context may be canceled at any moment.          *)
(*                                                                         *)
(* A file is what lies at each of its byte offsets, as far as a            *)
(* cross-reference parse can tell: the kind of thing the bytes begin,      *)
(* whether a section reads there, the numbers it lists, and its /Prev.     *)
(***************************************************************************)
EXTENDS Integers, Sequences, FiniteSets

CONSTANTS
    Files,      \* the files Read may be given
    Window,     \* how far back a misplaced offset is searched: 1024 bytes
    NoPrev,     \* the /Prev of a section that has none
    Absent      \* the startxref of a file that has none

ASSUME WindowAssumption == Window \in Nat /\ NoPrev \notin Int /\ Absent \notin Int

Declined == {"limit", "unsupported"}    \* what core.ReasonOf tells apart

\* A place of a file.  "table" and "hybrid" begin with the xref keyword, and
\* "stream" and "hybrid" have a cross-reference stream decoded to be read.
IsPlace(p) ==
    /\ p.kind  \in {"table", "hybrid", "stream", "other"}
    /\ p.reads \in {"section", "malformed"} \cup Declined
    /\ p.prev  \in Int \cup {NoPrev}
    /\ p.used \subseteq Nat /\ IsFiniteSet(p.used)
    /\ p.free \subseteq Nat /\ p.used \cap p.free = {}
    /\ p.kind = "other" => p.reads = "malformed" /\ p.used = {}
    /\ p.kind = "table" => p.reads \notin Declined

\* start is the last startxref of the file, nearEnd when it lies in the last
\* 1024 bytes; header is where %PDF- is, and budget the in-use entries the
\* file's size allows.
IsFile(f) ==
    /\ f.size \in Nat
    /\ \A o \in 0..f.size - 1 : IsPlace(f.at[o])
    /\ DOMAIN f.at = 0..f.size - 1
    /\ f.start \in Int \cup {Absent}
    /\ f.nearEnd \in BOOLEAN
    /\ f.header \in Nat
    /\ f.budget \in Nat

ASSUME FilesAssumption == \A f \in Files : IsFile(f)

VARIABLES
    file,           \* the file being read
    phase,          \* where readDocument is
    canceled,       \* the caller's context is done
    stated,         \* the offset the file states for the section to read next
    adjust,         \* what is added to every stated offset
    visited,        \* the places the walk has been to
    first,          \* why the section did not read at its stated offset
    sections,       \* the sections read, newest first
    broken,         \* the chain ended before its oldest section
    failure,        \* why it did: the walk's err, or its cut
    left,           \* entries the budget still allows
    merged,         \* number -> the place whose entry the table holds
    hidden,         \* numbers a merged section freed
    done,           \* sections merged so far
    noted,          \* the reason recorded for the caller in the read limits
    interrupted     \* a parse ended because the context was done

walk  == <<stated, adjust, visited, first, sections, broken, failure, left>>
table == <<merged, hidden, done>>
vars  == <<file, phase, canceled, walk, table, noted, interrupted>>

Final == {"merged", "rebuilt", "failed", "stopped"}

Inside(o)    == o \in 0..file.size - 1
Keywords     == {o \in DOMAIN file.at : file.at[o].kind \in {"table", "hybrid"}}
LooksValid(o) == Inside(o) /\ file.at[o].kind # "other"

Init ==
    /\ file \in Files
    /\ phase = "locate"
    /\ canceled = FALSE
    /\ stated = 0 /\ adjust = 0
    /\ visited = {}
    /\ first = "none"
    /\ sections = <<>>
    /\ broken = FALSE
    /\ failure = "none"
    /\ left = file.budget
    /\ merged = [n \in {} |-> 0] /\ hidden = {} /\ done = 0
    /\ noted = "none"
    /\ interrupted = FALSE

-----------------------------------------------------------------------------
(* The caller.                                                              *)

Cancel ==
    /\ ~canceled
    /\ phase \notin Final
    /\ canceled' = TRUE
    /\ UNCHANGED <<file, phase, walk, table, noted, interrupted>>

-----------------------------------------------------------------------------
(* Finding the newest section.                                              *)

\* A startxref far from the end of the file is believed only when a section
\* seems to be where it points.
Usable ==
    /\ file.start # Absent
    /\ \/ file.nearEnd
       \/ LooksValid(file.start)
       \/ LooksValid(file.start + file.header)

\* Offsets count from the start of the file, unless only counting them from
\* the header lands on a section.
Adjustment ==
    IF ~LooksValid(file.start) /\ LooksValid(file.start + file.header)
    THEN file.header
    ELSE 0

\* Without the range check the walk starts anywhere.
LocatedAnywhere == Usable

Located == Usable /\ Inside(file.start + Adjustment)

LocateXRef ==
    /\ phase = "locate"
    /\ IF Located
       THEN /\ stated' = file.start
            /\ adjust' = Adjustment
            /\ phase' = "walk"
            /\ UNCHANGED failure
       ELSE /\ failure' = "malformed"
            /\ phase' = "rebuild"
            /\ UNCHANGED <<stated, adjust>>
    /\ UNCHANGED <<file, canceled, visited, first, sections, broken, left,
                   table, noted, interrupted>>

-----------------------------------------------------------------------------
(* Reading a section.                                                       *)

\* Every in-use entry is charged as it is read, whether or not the section
\* turns out to be readable; a stream that is not decoded has none to charge.
Charge(p) ==
    IF p.kind = "stream" /\ p.reads \in Declined
    THEN 0
    ELSE Cardinality(p.used)

\* With a budget that reaches zero and goes on counting.
OutcomesUnbounded(o) ==
    {[reads |-> file.at[o].reads, left |-> left - Charge(file.at[o])]}

\* What comes of parsing a section at o: how it reads and what is left of the
\* budget.  Only decoding a stream looks at the context.  What an interrupted
\* parse has charged is left out: nothing is read after it.
Outcomes(o) ==
    LET p == file.at[o]
        whole == IF Charge(p) > left
                 THEN [reads |-> "malformed", left |-> 0]
                 ELSE [reads |-> p.reads, left |-> left - Charge(p)]
    IN  IF canceled /\ p.kind \in {"stream", "hybrid"}
        THEN {[reads |-> "canceled", left |-> left]}
                \cup (IF whole.reads = "section" THEN {} ELSE {whole})
        ELSE {whole}

\* The places of the xref keywords a relocation from o may go to, and the
\* nearest of them.
Before(o) == {k \in Keywords : o - Window <= k /\ k <= o}
IsNearest(k, o) == k \in Before(o) /\ \A j \in Before(o) : j <= k

\* The section read at o joins the chain, which goes on at its /Prev.
Found(o) ==
    /\ sections' = Append(sections, [stated |-> stated, offset |-> o])
    /\ IF file.at[o].prev = NoPrev
       THEN phase' = "walked" /\ UNCHANGED stated
       ELSE phase' = "walk" /\ stated' = file.at[o].prev
    /\ UNCHANGED <<broken, failure>>

\* With the cut of an older section left unsaid.
LostQuietly(reason) ==
    /\ broken' = FALSE
    /\ failure' = reason
    /\ phase' = "walked"
    /\ UNCHANGED <<sections, stated>>

\* Nothing read: the newest section's reason is the walk's error, an older
\* one's ends the chain there.
Lost(reason) ==
    /\ broken' = (sections # <<>>)
    /\ failure' = reason
    /\ phase' = "walked"
    /\ UNCHANGED <<sections, stated>>

\* With the loop going round again at a place it has been to.
CycleSkipped(o) ==
    /\ o \in visited
    /\ UNCHANGED <<phase, visited, sections, broken, failure>>

\* A /Prev that leads back into the chain ends it.
Cycle(o) ==
    /\ o \in visited
    /\ phase' = "walked"
    /\ UNCHANGED <<visited, sections, broken, failure>>

\* The top of the walk's loop, to the parse.
Enter ==
    /\ phase = "walk"
    /\ LET o == stated + adjust
       IN  \/ /\ canceled
              /\ sections' = <<>>
              /\ broken' = FALSE
              /\ failure' = "canceled"
              /\ phase' = "walked"
              /\ UNCHANGED visited
           \/ /\ ~canceled /\ ~Inside(o)
              /\ broken' = TRUE
              /\ phase' = "walked"
              /\ UNCHANGED <<visited, sections, failure>>
           \/ ~canceled /\ Inside(o) /\ Cycle(o)
           \/ /\ ~canceled /\ Inside(o) /\ o \notin visited
              /\ visited' = visited \cup {o}
              /\ phase' = "parse"
              /\ UNCHANGED <<sections, broken, failure>>
    /\ first' = "none"
    /\ UNCHANGED <<file, canceled, stated, adjust, left, table, noted,
                   interrupted>>

\* The section at its stated offset.
Parse ==
    /\ phase = "parse"
    /\ \E r \in Outcomes(stated + adjust) :
         /\ left' = r.left
         /\ interrupted' = (interrupted \/ r.reads = "canceled")
         /\ IF r.reads = "section"
            THEN /\ Found(stated + adjust)
                 /\ UNCHANGED first
            ELSE /\ first' = r.reads
                 /\ phase' = "relocate"
                 /\ UNCHANGED <<stated, sections, broken, failure>>
    /\ UNCHANGED <<file, canceled, adjust, visited, table, noted>>

\* With the place a relocation goes to left unmarked.
MarkedNot(k) == visited

Marked(k) == visited \cup {k}

\* An offset that is not a section's may point into its entries: the section
\* is looked for at the nearest xref keyword before it.  A section that was
\* declined where the file said it is keeps that reason.
Relocate ==
    /\ phase = "relocate"
    /\ LET o == stated + adjust
       IN  \/ \E k \in Keywords \ visited :
                /\ IsNearest(k, o)
                /\ visited' = Marked(k)
                /\ \E r \in Outcomes(k) :
                     /\ left' = r.left
                     /\ interrupted' = (interrupted \/ r.reads = "canceled")
                     /\ IF r.reads = "section"
                        THEN Found(k)
                        ELSE Lost(IF first \in Declined THEN first ELSE r.reads)
           \/ /\ ~ \E k \in Keywords \ visited : IsNearest(k, o)
              /\ Lost(first)
              /\ UNCHANGED <<visited, left, interrupted>>
    /\ UNCHANGED <<file, canceled, adjust, first, table, noted>>

-----------------------------------------------------------------------------
(* What readDocument makes of the walk.                                     *)

\* The reason a section was declined is recorded in the document's read
\* limits, where its caller finds it; a malformed one is the file's own defect.
Note == noted' = IF failure \in Declined THEN failure ELSE noted

\* With the context not looked at again after the walk.
StoppedNever == FALSE

Stopped == canceled

\* A canceled context ends the read whatever the walk returned.  Otherwise the
\* table is rebuilt when the newest section did not read, or merged.
UseChain ==
    /\ phase = "walked"
    /\ \/ /\ Stopped
          /\ phase' = "stopped"
          /\ UNCHANGED noted
       \/ /\ ~Stopped /\ sections = <<>> /\ failure # "none"
          /\ phase' = "rebuild"
          /\ UNCHANGED noted
       \/ /\ ~Stopped /\ ~(sections = <<>> /\ failure # "none")
          /\ phase' = "merge"
          /\ Note
    /\ UNCHANGED <<file, canceled, walk, table, interrupted>>

\* With a newer section's free entry hiding nothing.
ClaimsUnhidden(p) == p.used \ DOMAIN merged

\* The numbers no newer section mentions.
Claims(p) == p.used \ (DOMAIN merged \cup hidden)

\* One section of the merge: its in-use entries count unless a newer section
\* lists the number, in use or free.
MergeSection ==
    /\ phase = "merge"
    /\ done < Len(sections)
    /\ LET o   == sections[done + 1].offset
           new == Claims(file.at[o])
       IN  /\ merged' = [n \in DOMAIN merged \cup new |->
                            IF n \in new THEN o ELSE merged[n]]
           /\ hidden' = hidden \cup file.at[o].free
    /\ done' = done + 1
    /\ phase' = IF done + 1 = Len(sections) THEN "merged" ELSE "merge"
    /\ UNCHANGED <<file, canceled, walk, noted, interrupted>>

\* The scan finds the object headers in the file; a cross-reference stream
\* has one.  With none the read fails.
Rebuild ==
    /\ phase = "rebuild"
    /\ \/ phase' = "rebuilt" /\ Note
       \/ /\ \A o \in DOMAIN file.at : file.at[o].kind # "stream"
          /\ phase' = "failed"
          /\ UNCHANGED noted
    /\ UNCHANGED <<file, canceled, walk, table, interrupted>>

-----------------------------------------------------------------------------
Reader ==
    \/ LocateXRef \/ Enter \/ Parse \/ Relocate
    \/ UseChain \/ MergeSection \/ Rebuild

\* A read that is over does nothing more.
Over == phase \in Final /\ UNCHANGED vars

Next == Reader \/ Cancel \/ Over

Spec == Init /\ [][Next]_vars

\* Read runs on the caller's goroutine and never waits: each step is taken.
FairSpec == Spec /\ WF_vars(Reader)

-----------------------------------------------------------------------------
(* Properties.                                                               *)

Reasons == {"none", "malformed", "canceled"} \cup Declined

\* Every variable holds a value of its kind.
TypeOK ==
    /\ IsFile(file)
    /\ phase \in {"locate", "walk", "parse", "relocate", "walked", "rebuild",
                  "merge"} \cup Final
    /\ canceled \in BOOLEAN /\ broken \in BOOLEAN /\ interrupted \in BOOLEAN
    /\ stated \in Int /\ adjust \in Nat
    /\ visited \subseteq DOMAIN file.at
    /\ first \in Reasons /\ failure \in Reasons
    /\ sections \in Seq([stated : Int, offset : DOMAIN file.at])
    /\ left \in 0..file.budget
    /\ DOMAIN merged \subseteq Nat /\ hidden \subseteq Nat
    /\ done \in 0..Len(sections)
    /\ noted \in {"none"} \cup Declined

At(i) == file.at[sections[i].offset]

\* The sections read are the chain the file states: each is where the newer
\* one's /Prev leads, or at the nearest xref keyword before that, and none is
\* read twice, so that no update's entries are taken for another's.
ChainLinks ==
    \A i \in 1..Len(sections) :
        /\ sections[i].stated = IF i = 1 THEN file.start ELSE At(i - 1).prev
        /\ LET o == sections[i].stated + adjust
           IN  sections[i].offset = o \/ IsNearest(sections[i].offset, o)
        /\ \A j \in 1..i - 1 : sections[j].offset # sections[i].offset

\* A chain not reported broken was read to its end: its last section has no
\* /Prev, or one that leads back into the chain.  The allocator trusts this:
\* only for a broken chain does Read scan the file for the numbers the unread
\* sections use.
Complete ==
    LET last == At(Len(sections))
    IN  \/ last.prev = NoPrev
        \/ \E i \in 1..Len(sections) :
              last.prev + adjust \in {sections[i].stated + adjust,
                                      sections[i].offset}
UnbrokenComplete == phase \in {"merge", "merged"} /\ ~broken => Complete

\* The table is only ever merged from at least one section: readDocument takes
\* the trailer of the first without looking.
NewestPresent == phase \in {"merge", "merged"} => sections # <<>>

\* No table comes of a walk that a canceled context cut short, neither merged
\* from the sections read before it nor rebuilt for want of them.
NothingInterrupted ==
    interrupted => phase \in {"relocate", "walk", "parse", "walked", "stopped"}

\* A document whose chain stopped at a section pdf0 declined to decode says so,
\* even when the relocation found a malformed one in its place.
DeclineKept ==
    /\ phase \in {"merge", "merged", "rebuilt"}
    /\ first \in Declined
    /\ failure # "none"
    => noted = first

\* At the end of the merge a number is located by the newest section that
\* mentions it, and by none when that section frees it.
Mentioned(i) == At(i).used \cup At(i).free
Settled(i) ==
    \A n \in Mentioned(i) :
        (\A j \in 1..i - 1 : n \notin Mentioned(j)) =>
            IF n \in At(i).used
            THEN n \in DOMAIN merged /\ merged[n] = sections[i].offset
            ELSE n \notin DOMAIN merged
NewestWins == phase = "merged" => \A i \in 1..Len(sections) : Settled(i)

\* What makes the walk's properties hold of every step: where the next section
\* is stated to be, which places the sections read account for, and that no
\* reason is given for ending a walk that read nothing and was not canceled.
WalkInv ==
    /\ phase = "locate" => sections = <<>> /\ visited = {}
    /\ phase \notin {"merge", "merged"} => done = 0
    /\ phase \in {"walk", "parse", "relocate"} =>
         stated = IF sections = <<>> THEN file.start ELSE At(Len(sections)).prev
    /\ phase = "walk" /\ sections = <<>> => Inside(stated + adjust)
    /\ phase = "walk" =>
         \A o \in visited : \E i \in 1..Len(sections) :
             o \in {sections[i].stated + adjust, sections[i].offset}
    /\ phase \in {"parse", "relocate"} =>
         /\ Inside(stated + adjust) /\ stated + adjust \in visited
         /\ \A o \in visited \ {stated + adjust} : \E i \in 1..Len(sections) :
               o \in {sections[i].stated + adjust, sections[i].offset}
    /\ phase = "relocate" => first # "none"
    /\ \A i \in 1..Len(sections) :
         /\ sections[i].offset \in visited
         /\ phase = "parse" => sections[i].offset # stated + adjust
    /\ phase = "walked" =>
         /\ sections = <<>> => failure # "none"
         /\ broken \/ sections = <<>> \/ Complete
    /\ interrupted => canceled

\* The inductive invariant.
IInv ==
    /\ TypeOK /\ ChainLinks /\ UnbrokenComplete /\ NewestPresent
    /\ NothingInterrupted /\ WalkInv

\* What makes DeclineKept hold: the reason a walk is given up for is that of
\* the stated offset, if the section was declined there.
ReasonInv ==
    /\ phase = "locate" => first = "none"
    /\ phase \in {"locate", "walk", "parse", "relocate"} => failure = "none"
    /\ phase \in {"walked", "rebuild"} /\ first \in Declined /\ failure # "none" =>
         failure = first
    /\ DeclineKept

\* What makes NewestWins hold: the table so far settles what the sections merged
\* so far mention, and nothing else.
SettledInv ==
    /\ DOMAIN merged \cup hidden = UNION {Mentioned(i) : i \in 1..done}
    /\ \A i \in 1..done : Settled(i)
    /\ phase = "merged" => done = Len(sections)

\* The inductive invariant of the table, on top of IInv.
TableInv == ReasonInv /\ SettledInv

\* Read comes to an end: a /Prev chain that cycles is not walked forever.
Terminates == <>(phase \in Final)

=============================================================================
