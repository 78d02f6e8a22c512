---------------------------- MODULE Reading_proofs ----------------------------
(***************************************************************************)
(* Proofs about reading a file.  The walk of XRefChain reads the chain the  *)
(* file states, for every set of files and every window.  What readDocument *)
(* makes of that chain, in ReadLadder, is the document the file has, layer  *)
(* by layer, or is recorded as less, for every set of files.                *)
(***************************************************************************)
EXTENDS XRefChain, ReadLadder, FiniteSetTheorems, WellFoundedInduction, TLAPS

\* A place inside the file is a place, and what its section charges is a number.
LEMMA PlaceInside ==
    ASSUME IsFile(file), NEW o, Inside(o)
    PROVE  /\ IsPlace(file.at[o])
           /\ o \in DOMAIN file.at /\ o \in Int
           /\ Charge(file.at[o]) \in Nat
<1>1. IsPlace(file.at[o]) /\ o \in DOMAIN file.at /\ o \in Int
  BY DEF IsFile, Inside
<1>2. Cardinality(file.at[o].used) \in Nat
  BY <1>1, FS_CardinalityType DEF IsPlace
<1> QED
  BY <1>1, <1>2 DEF Charge

\* Parsing a section leaves part of the budget, gives a reason when it fails,
\* and is interrupted only by a canceled context.
LEMMA OutcomesType ==
    ASSUME TypeOK, NEW o, Inside(o), NEW r \in Outcomes(o)
    PROVE  /\ r.left \in 0..file.budget
           /\ r.reads \in ({"section"} \cup Reasons) \ {"none"}
           /\ r.reads = "canceled" => canceled
<1>1. /\ IsPlace(file.at[o]) /\ Charge(file.at[o]) \in Nat
      /\ left \in 0..file.budget /\ file.budget \in Nat
  BY PlaceInside DEF TypeOK, IsFile
<1> DEFINE whole == IF Charge(file.at[o]) > left
                    THEN [reads |-> "malformed", left |-> 0]
                    ELSE [reads |-> file.at[o].reads,
                          left |-> left - Charge(file.at[o])]
<1>2. /\ whole.left \in 0..file.budget
      /\ whole.reads \in {"section", "malformed"} \cup Declined
  BY <1>1 DEF IsPlace
<1>3. r = whole \/ (canceled /\ r = [reads |-> "canceled", left |-> left])
  BY DEF Outcomes
<1> QED
  BY <1>1, <1>2, <1>3 DEF Reasons, Declined

\* A relocation goes to a place of the file.
LEMMA KeywordInside ==
    ASSUME IsFile(file), NEW k \in Keywords
    PROVE  Inside(k)
BY DEF Keywords, Inside, IsFile

\* A section joining the chain where the walk is: what it keeps true.
LEMMA FoundKeeps ==
    ASSUME IInv, NEW k, Inside(k), Found(k),
           phase \in {"parse", "relocate"},
           k = stated + adjust \/ IsNearest(k, stated + adjust),
           \A i \in 1..Len(sections) : sections[i].offset # k,
           visited' = visited \cup {k, stated + adjust},
           file' = file, adjust' = adjust
    PROVE  /\ sections' \in Seq([stated : Int, offset : DOMAIN file.at])
           /\ phase' \in {"walk", "walked"}
           /\ stated' \in Int
           /\ broken' = broken /\ failure' = failure
           /\ sections' # <<>> /\ Len(sections') = Len(sections) + 1
           /\ ChainLinks'
           /\ phase' = "walk" => stated' = At(Len(sections))'.prev
           /\ \A i \in 1..Len(sections') : sections'[i].offset \in visited'
           /\ phase' = "walked" => Complete'
           /\ \A o \in visited' : \E i \in 1..Len(sections') :
                o \in {sections'[i].stated + adjust, sections'[i].offset}
<1>0. /\ Len(sections) \in Nat
      /\ sections \in Seq([stated : Int, offset : DOMAIN file.at])
  BY DEF IInv, TypeOK
<1> PICK n \in Nat : n = Len(sections)
  BY <1>0
<1> DEFINE s == [stated |-> stated, offset |-> k]
<1>1. /\ IsFile(file) /\ stated \in Int /\ adjust \in Nat
      /\ sections \in Seq([stated : Int, offset : DOMAIN file.at]) /\ n \in Nat
  BY <1>0 DEF IInv, TypeOK
<1>2. /\ IsPlace(file.at[k]) /\ k \in DOMAIN file.at /\ k \in Int
  BY <1>1, PlaceInside
<1>3. /\ s \in [stated : Int, offset : DOMAIN file.at]
      /\ sections' = Append(sections, s)
  BY <1>1, <1>2 DEF Found
<1>4. /\ sections' \in Seq([stated : Int, offset : DOMAIN file.at])
      /\ Len(sections') = n + 1
      /\ sections'[n + 1] = s
      /\ \A i \in 1..n : sections'[i] = sections[i]
  BY <1>1, <1>3
<1>5. /\ phase' \in {"walk", "walked"} /\ stated' \in Int
      /\ broken' = broken /\ failure' = failure
  BY <1>1, <1>2 DEF Found, IsPlace
<1>6. At(n + 1)' = file.at[k]
  BY <1>4 DEF At
<1>7. \A i \in 1..n : At(i)' = At(i)
  BY <1>1, <1>4 DEF At
<1>8. \A j, o : IsNearest(j, o)' <=> IsNearest(j, o)
  BY DEF IsNearest, Before, Keywords
<1>9. ChainLinks'
  <2> SUFFICES ASSUME NEW i \in 1..n + 1
               PROVE  /\ sections'[i].stated =
                            IF i = 1 THEN file.start ELSE At(i - 1)'.prev
                      /\ \/ sections'[i].offset = sections'[i].stated + adjust
                         \/ IsNearest(sections'[i].offset,
                                      sections'[i].stated + adjust)
                      /\ \A j \in 1..i - 1 :
                            sections'[j].offset # sections'[i].offset
    BY <1>4, <1>8 DEF ChainLinks
  <2>1. CASE i \in 1..n
    <3>1. /\ sections'[i] = sections[i]
          /\ \A j \in 1..i - 1 : sections'[j] = sections[j]
      BY <2>1, <1>1, <1>4
    <3>2. i # 1 => At(i - 1)' = At(i - 1)
      BY <2>1, <1>1, <1>7
    <3> QED
      BY <2>1, <3>1, <3>2 DEF IInv, ChainLinks
  <2>2. CASE i = n + 1
    <3>1. sections'[i] = s
      BY <2>2, <1>4
    <3>2. stated = IF sections = <<>> THEN file.start ELSE At(n).prev
      BY DEF IInv, WalkInv
    <3>3. stated = IF i = 1 THEN file.start ELSE At(i - 1)'.prev
      BY <2>2, <3>2, <1>1, <1>7
    <3>4. \A j \in 1..i - 1 : j \in 1..n /\ sections'[j] = sections[j]
      BY <2>2, <1>4
    <3> QED
      BY <3>1, <3>3, <3>4
  <2> QED
    BY <2>1, <2>2
<1>10. \A i \in 1..Len(sections') : sections'[i].offset \in visited'
  <2> TAKE i \in 1..Len(sections')
  <2>1. CASE i \in 1..n
    BY <2>1, <1>4 DEF IInv, WalkInv
  <2>2. CASE i = n + 1
    BY <2>2, <1>4
  <2> QED
    BY <2>1, <2>2, <1>4
<1>11. \A o \in visited' : \E i \in 1..Len(sections') :
          o \in {sections'[i].stated + adjust, sections'[i].offset}
  <2> TAKE o \in visited'
  <2>1. CASE o \in {k, stated + adjust}
    <3>1. /\ n + 1 \in 1..Len(sections')
          /\ o \in {sections'[n + 1].stated + adjust, sections'[n + 1].offset}
      BY <2>1, <1>1, <1>4
    <3> QED
      BY <3>1
  <2>2. CASE o \notin {k, stated + adjust}
    <3>1. o \in visited \ {stated + adjust}
      BY <2>2
    <3>2. PICK i \in 1..n : o \in {sections[i].stated + adjust, sections[i].offset}
      BY <3>1 DEF IInv, WalkInv
    <3>3. i \in 1..Len(sections') /\ sections'[i] = sections[i]
      BY <1>4
    <3> QED
      BY <3>2, <3>3
  <2> QED
    BY <2>1, <2>2
<1>12. phase' = "walked" => Complete'
  BY <1>4, <1>6 DEF Found, Complete
<1>13. phase' = "walk" => stated' = At(Len(sections))'.prev
  BY <1>4, <1>6 DEF Found
<1>14. sections' # <<>>
  BY <1>1, <1>3, <1>4
<1> QED
  BY <1>4, <1>5, <1>9, <1>10, <1>11, <1>12, <1>13, <1>14

-----------------------------------------------------------------------------
(* The invariant holds at first and through every step.                     *)

LEMMA InitInv == Init => IInv
<1> SUFFICES ASSUME Init PROVE IInv
  OBVIOUS
<1>1. IsFile(file)
  BY FilesAssumption DEF Init
<1>2. TypeOK
  <2>1. file.budget \in Nat /\ left \in 0..file.budget
    BY <1>1 DEF Init, IsFile
  <2>2. sections = <<>> /\ sections \in Seq([stated : Int, offset : DOMAIN file.at])
    BY DEF Init
  <2>3. DOMAIN merged \subseteq Nat /\ hidden \subseteq Nat
    BY DEF Init
  <2>4. done \in 0..Len(sections)
    BY <2>2 DEF Init
  <2>5. /\ phase = "locate" /\ visited = {}
        /\ first = "none" /\ failure = "none" /\ noted = "none"
    BY DEF Init
  <2>6. stated \in Int /\ adjust \in Nat
    BY DEF Init
  <2>7. canceled \in BOOLEAN /\ broken \in BOOLEAN /\ interrupted \in BOOLEAN
    BY DEF Init
  <2> QED
    BY <1>1, <2>1, <2>2, <2>3, <2>4, <2>5, <2>6, <2>7 DEF TypeOK, Reasons
<1>3. ChainLinks /\ UnbrokenComplete /\ NewestPresent /\ NothingInterrupted
  BY DEF Init, ChainLinks, UnbrokenComplete, NewestPresent, NothingInterrupted
<1>4. WalkInv
  BY DEF Init, WalkInv
<1> QED
  BY <1>2, <1>3, <1>4 DEF IInv

\* A step that leaves the sections alone leaves their links alone.
LEMMA LinksKept ==
    ASSUME ChainLinks, file' = file, sections' = sections, adjust' = adjust
    PROVE  /\ ChainLinks'
           /\ Complete' <=> Complete
           /\ At(Len(sections))' = At(Len(sections))
<1>1. \A i : At(i)' = At(i)
  BY DEF At
<1>2. \A k, o : IsNearest(k, o)' <=> IsNearest(k, o)
  BY DEF IsNearest, Before, Keywords
<1>3. At(Len(sections))' = At(Len(sections))
  BY DEF At
<1> QED
  BY <1>1, <1>2, <1>3 DEF ChainLinks, Complete

LEMMA CancelInv == IInv /\ Cancel => IInv'
<1> SUFFICES ASSUME IInv, Cancel PROVE IInv'
  OBVIOUS
<1> USE DEF Cancel, walk, table
<1>1. TypeOK'
  BY DEF IInv, TypeOK, IsFile
<1>2. ChainLinks' /\ (Complete' <=> Complete)
       /\ At(Len(sections))' = At(Len(sections))
  BY LinksKept DEF IInv
<1>3. UnbrokenComplete' /\ NewestPresent' /\ NothingInterrupted'
  BY <1>2 DEF IInv, UnbrokenComplete, NewestPresent, NothingInterrupted
<1>4. WalkInv'
  BY <1>2 DEF IInv, WalkInv, Inside
<1> QED
  BY <1>1, <1>2, <1>3, <1>4 DEF IInv

LEMMA LocateInv == IInv /\ LocateXRef => IInv'
<1> SUFFICES ASSUME IInv, LocateXRef PROVE IInv'
  OBVIOUS
<1> USE DEF table
<1>1. /\ file' = file /\ sections' = sections /\ sections = <<>>
      /\ visited' = {} /\ ~interrupted /\ interrupted' = interrupted
      /\ phase' \in {"walk", "rebuild"} /\ done' = 0
  BY DEF LocateXRef, IInv, WalkInv, NothingInterrupted
<1>2. TypeOK'
  <2>1. phase' = "walk" => stated' \in Int /\ adjust' \in Nat
    BY DEF LocateXRef, Located, Usable, Adjustment, Inside, IInv, TypeOK, IsFile
  <2>2. stated' \in Int /\ adjust' \in Nat
    BY <2>1 DEF LocateXRef, IInv, TypeOK
  <2> QED
    BY <1>1, <2>2 DEF LocateXRef, IInv, TypeOK, Reasons, Final, IsFile
<1>3. ChainLinks' /\ UnbrokenComplete' /\ NewestPresent' /\ NothingInterrupted'
  BY <1>1 DEF ChainLinks, UnbrokenComplete, NewestPresent, NothingInterrupted
<1>4. WalkInv'
  BY <1>1 DEF LocateXRef, Located, WalkInv, Inside
<1> QED
  BY <1>2, <1>3, <1>4 DEF IInv

LEMMA EnterInv == IInv /\ Enter => IInv'
<1> SUFFICES ASSUME IInv, Enter PROVE IInv'
  OBVIOUS
<1> USE DEF table
<1> DEFINE o == stated + adjust
<1>0. /\ file' = file /\ adjust' = adjust /\ stated' = stated
      /\ canceled' = canceled /\ interrupted' = interrupted
      /\ phase = "walk" /\ first' = "none"
      /\ done' = 0 /\ done = 0 /\ left' = left /\ noted' = noted
      /\ merged' = merged /\ hidden' = hidden
  BY DEF Enter, IInv, WalkInv
<1>1. CASE /\ canceled /\ sections' = <<>> /\ broken' = FALSE
           /\ failure' = "canceled" /\ phase' = "walked" /\ UNCHANGED visited
  <2>1. TypeOK'
    <3>1. /\ sections' \in Seq([stated : Int, offset : DOMAIN file.at])
          /\ Len(sections') = 0
      BY <1>1
    <3>2. done' \in 0..Len(sections')
      BY <1>0, <3>1
    <3> QED
      BY <1>0, <1>1, <3>1, <3>2 DEF IInv, TypeOK, Reasons
  <2> QED
    BY <1>0, <1>1, <2>1 DEF IInv, ChainLinks, UnbrokenComplete, NewestPresent,
       NothingInterrupted, WalkInv
<1>2. CASE /\ ~canceled /\ ~Inside(o) /\ broken' = TRUE /\ phase' = "walked"
           /\ UNCHANGED <<visited, sections, failure>>
  <2>1. TypeOK'
    BY <1>0, <1>2 DEF IInv, TypeOK, Reasons
  <2>2. ChainLinks'
    BY <1>0, <1>2, LinksKept DEF IInv
  <2>3. sections # <<>>
    BY <1>0, <1>2 DEF IInv, WalkInv
  <2> QED
    BY <1>0, <1>2, <2>1, <2>2, <2>3 DEF IInv, UnbrokenComplete, NewestPresent,
       NothingInterrupted, WalkInv
<1>3. CASE /\ ~canceled /\ Cycle(o)
  <2>0. /\ o \in visited /\ phase' = "walked"
        /\ UNCHANGED <<visited, sections, broken, failure>>
    BY <1>3 DEF Cycle
  <2>1. TypeOK'
    BY <1>0, <2>0 DEF IInv, TypeOK, Reasons
  <2>2. ChainLinks' /\ (Complete' <=> Complete)
    BY <1>0, <2>0, LinksKept DEF IInv
  <2>3. PICK i \in 1..Len(sections) :
            o \in {sections[i].stated + adjust, sections[i].offset}
    BY <1>0, <2>0 DEF IInv, WalkInv
  <2>4. sections # <<>>
    BY <2>3
  <2>5. Complete
    BY <1>0, <2>3, <2>4 DEF IInv, WalkInv, Complete
  <2> QED
    BY <1>0, <1>3, <2>0, <2>1, <2>2, <2>4, <2>5 DEF IInv, UnbrokenComplete,
       NewestPresent, NothingInterrupted, WalkInv
<1>4. CASE /\ ~canceled /\ Inside(o) /\ o \notin visited
           /\ visited' = visited \cup {o} /\ phase' = "parse"
           /\ UNCHANGED <<sections, broken, failure>>
  <2>1. TypeOK'
    <3>1. o \in DOMAIN file.at
      BY <1>4, PlaceInside DEF IInv, TypeOK
    <3> QED
      BY <3>1, <1>0, <1>4 DEF IInv, TypeOK, Reasons
  <2>2. /\ ChainLinks' /\ (Complete' <=> Complete)
        /\ At(Len(sections))' = At(Len(sections))
    BY <1>0, <1>4, LinksKept DEF IInv
  <2>3. WalkInv'
    BY <1>0, <1>4, <2>2 DEF IInv, WalkInv, Inside
  <2> QED
    BY <1>0, <1>4, <2>1, <2>2, <2>3 DEF IInv, UnbrokenComplete, NewestPresent,
       NothingInterrupted
<1> QED
  BY <1>1, <1>2, <1>3, <1>4 DEF Enter

LEMMA ParseInv == IInv /\ Parse => IInv'
<1> SUFFICES ASSUME IInv, Parse PROVE IInv'
  OBVIOUS
<1> USE DEF table
<1> DEFINE o == stated + adjust
<1>0. /\ file' = file /\ adjust' = adjust /\ canceled' = canceled
      /\ visited' = visited /\ phase = "parse"
      /\ done' = 0 /\ done = 0 /\ noted' = noted
      /\ merged' = merged /\ hidden' = hidden
  BY DEF Parse, IInv, WalkInv
<1>1. Inside(o) /\ o \in visited
  BY <1>0 DEF IInv, WalkInv
<1>2. PICK r \in Outcomes(o) :
        /\ left' = r.left
        /\ interrupted' = (interrupted \/ r.reads = "canceled")
        /\ IF r.reads = "section"
           THEN Found(o) /\ UNCHANGED first
           ELSE /\ first' = r.reads
                /\ phase' = "relocate"
                /\ UNCHANGED <<stated, sections, broken, failure>>
  BY DEF Parse
<1>3. /\ r.left \in 0..file.budget
      /\ r.reads \in ({"section"} \cup Reasons) \ {"none"}
      /\ r.reads = "canceled" => canceled
  BY <1>1, OutcomesType DEF IInv
<1>4. interrupted' \in BOOLEAN /\ (interrupted' => canceled')
  BY <1>0, <1>2, <1>3 DEF IInv, TypeOK, WalkInv
<1>5. CASE r.reads = "section"
  <2>1. Found(o) /\ first' = first
    BY <1>2, <1>5
  <2>2. \A i \in 1..Len(sections) : sections[i].offset # o
    BY <1>0 DEF IInv, WalkInv
  <2>3. visited' = visited \cup {o, stated + adjust}
    BY <1>0, <1>1
  <2>4. /\ sections' \in Seq([stated : Int, offset : DOMAIN file.at])
        /\ phase' \in {"walk", "walked"}
        /\ stated' \in Int
        /\ broken' = broken /\ failure' = failure
        /\ sections' # <<>> /\ Len(sections') = Len(sections) + 1
        /\ ChainLinks'
        /\ phase' = "walk" => stated' = At(Len(sections))'.prev
        /\ \A i \in 1..Len(sections') : sections'[i].offset \in visited'
        /\ phase' = "walked" => Complete'
        /\ \A v \in visited' : \E i \in 1..Len(sections') :
             v \in {sections'[i].stated + adjust, sections'[i].offset}
    BY <2>1, <2>2, <2>3, <1>0, <1>1, FoundKeeps
  <2>5. TypeOK'
    <3>1. done' \in 0..Len(sections')
      BY <1>0, <2>4 DEF IInv, TypeOK
    <3> QED
      BY <1>0, <1>2, <1>3, <1>4, <2>1, <2>4, <3>1 DEF IInv, TypeOK, Reasons
  <2>6. WalkInv'
    BY <1>0, <1>4, <2>4 DEF WalkInv
  <2> QED
    BY <2>4, <2>5, <2>6 DEF IInv, UnbrokenComplete, NewestPresent,
       NothingInterrupted
<1>6. CASE r.reads # "section"
  <2>0. /\ first' = r.reads /\ phase' = "relocate"
        /\ UNCHANGED <<stated, sections, broken, failure>>
    BY <1>2, <1>6
  <2>1. TypeOK'
    BY <1>0, <1>2, <1>3, <1>4, <1>6, <2>0 DEF IInv, TypeOK, Reasons
  <2>2. ChainLinks' /\ At(Len(sections))' = At(Len(sections))
    BY <1>0, <2>0, LinksKept DEF IInv
  <2>3. WalkInv'
    BY <1>0, <1>3, <1>4, <2>0, <2>2 DEF IInv, WalkInv, Inside
  <2> QED
    BY <2>0, <2>1, <2>2, <2>3 DEF IInv, UnbrokenComplete, NewestPresent,
       NothingInterrupted
<1> QED
  BY <1>5, <1>6

\* A step that loses a section ends the walk with a reason.
LEMMA LostKeeps ==
    ASSUME IInv, NEW reason, reason \in Reasons \ {"none"}, Lost(reason),
           phase = "relocate", NEW left2 \in 0..file.budget, left' = left2,
           file' = file, adjust' = adjust, first' = first, noted' = noted,
           canceled' = canceled, UNCHANGED table,
           visited \subseteq visited', visited' \subseteq DOMAIN file.at,
           interrupted' \in BOOLEAN, interrupted' => canceled
    PROVE  IInv'
<1> USE DEF table
<1>0. /\ phase' = "walked" /\ failure' = reason /\ broken' = (sections # <<>>)
      /\ sections' = sections /\ stated' = stated /\ done' = 0 /\ done = 0
      /\ merged' = merged /\ hidden' = hidden
  BY DEF Lost, IInv, WalkInv
<1>1. TypeOK'
  BY <1>0 DEF IInv, TypeOK, Reasons
<1>2. ChainLinks'
  BY <1>0, LinksKept DEF IInv
<1>3. WalkInv'
  BY <1>0 DEF IInv, WalkInv
<1> QED
  BY <1>0, <1>1, <1>2, <1>3 DEF IInv, UnbrokenComplete, NewestPresent,
     NothingInterrupted

LEMMA RelocateInv == IInv /\ Relocate => IInv'
<1> SUFFICES ASSUME IInv, Relocate PROVE IInv'
  OBVIOUS
<1> DEFINE o == stated + adjust
<1>0. /\ file' = file /\ adjust' = adjust /\ canceled' = canceled
      /\ first' = first /\ phase = "relocate" /\ noted' = noted
      /\ merged' = merged /\ hidden' = hidden /\ done' = 0 /\ done = 0
  BY DEF Relocate, table, IInv, WalkInv
<1>1. first \in Reasons \ {"none"} /\ o \in visited
  BY <1>0 DEF IInv, TypeOK, WalkInv
<1>2. CASE \E k \in Keywords \ visited :
             /\ IsNearest(k, o)
             /\ visited' = Marked(k)
             /\ \E r \in Outcomes(k) :
                  /\ left' = r.left
                  /\ interrupted' = (interrupted \/ r.reads = "canceled")
                  /\ IF r.reads = "section"
                     THEN Found(k)
                     ELSE Lost(IF first \in Declined THEN first ELSE r.reads)
  <2>1. PICK k \in Keywords \ visited :
             /\ IsNearest(k, o)
             /\ visited' = visited \cup {k}
             /\ \E r \in Outcomes(k) :
                  /\ left' = r.left
                  /\ interrupted' = (interrupted \/ r.reads = "canceled")
                  /\ IF r.reads = "section"
                     THEN Found(k)
                     ELSE Lost(IF first \in Declined THEN first ELSE r.reads)
    BY <1>2 DEF Marked
  <2>2. PICK r \in Outcomes(k) :
             /\ left' = r.left
             /\ interrupted' = (interrupted \/ r.reads = "canceled")
             /\ IF r.reads = "section"
                THEN Found(k)
                ELSE Lost(IF first \in Declined THEN first ELSE r.reads)
    BY <2>1
  <2>3. Inside(k) /\ k \in DOMAIN file.at
    BY KeywordInside, PlaceInside DEF IInv, TypeOK
  <2>4. /\ r.left \in 0..file.budget
        /\ r.reads \in ({"section"} \cup Reasons) \ {"none"}
        /\ r.reads = "canceled" => canceled
    BY <2>3, OutcomesType DEF IInv
  <2>5. interrupted' \in BOOLEAN /\ (interrupted' => canceled)
    BY <2>2, <2>4 DEF IInv, TypeOK, WalkInv
  <2>6. visited' \subseteq DOMAIN file.at /\ visited \subseteq visited'
    BY <2>1, <2>3 DEF IInv, TypeOK
  <2>7. CASE r.reads = "section"
    <3>1. Found(k)
      BY <2>2, <2>7
    <3>2. \A i \in 1..Len(sections) : sections[i].offset # k
      BY <2>1 DEF IInv, WalkInv
    <3>3. visited' = visited \cup {k, stated + adjust}
      BY <2>1, <1>1
    <3>4. /\ sections' \in Seq([stated : Int, offset : DOMAIN file.at])
          /\ phase' \in {"walk", "walked"}
          /\ stated' \in Int
          /\ broken' = broken /\ failure' = failure
          /\ sections' # <<>> /\ Len(sections') = Len(sections) + 1
          /\ ChainLinks'
          /\ phase' = "walk" => stated' = At(Len(sections))'.prev
          /\ \A i \in 1..Len(sections') : sections'[i].offset \in visited'
          /\ phase' = "walked" => Complete'
          /\ \A v \in visited' : \E i \in 1..Len(sections') :
               v \in {sections'[i].stated + adjust, sections'[i].offset}
      BY <3>1, <3>2, <3>3, <2>1, <2>3, <1>0, FoundKeeps
    <3>5. TypeOK'
      <4>1. done' \in 0..Len(sections')
        BY <1>0, <3>4 DEF IInv, TypeOK
      <4> QED
        BY <1>0, <2>2, <2>4, <2>5, <2>6, <3>4, <4>1 DEF IInv, TypeOK, Reasons
    <3>6. WalkInv'
      BY <1>0, <2>5, <3>4 DEF WalkInv
    <3> QED
      BY <3>4, <3>5, <3>6 DEF IInv, UnbrokenComplete, NewestPresent,
         NothingInterrupted
  <2>8. CASE r.reads # "section"
    <3> DEFINE reason == IF first \in Declined THEN first ELSE r.reads
    <3>1. Lost(reason) /\ reason \in Reasons \ {"none"}
      BY <2>2, <2>4, <2>8, <1>1
    <3>2. left' \in 0..file.budget /\ UNCHANGED table
      BY <1>0, <2>2, <2>4 DEF table
    <3> HIDE DEF reason
    <3> QED
      BY <3>1, <3>2, <1>0, <2>5, <2>6, LostKeeps
  <2> QED
    BY <2>7, <2>8
<1>3. CASE /\ Lost(first)
           /\ UNCHANGED <<visited, left, interrupted>>
  <2>1. /\ left' \in 0..file.budget /\ UNCHANGED table
        /\ visited \subseteq visited' /\ visited' \subseteq DOMAIN file.at
        /\ interrupted' \in BOOLEAN /\ (interrupted' => canceled)
    BY <1>0, <1>3 DEF IInv, TypeOK, WalkInv, table
  <2> QED
    BY <1>0, <1>1, <1>3, <2>1, LostKeeps
<1> QED
  BY <1>2, <1>3 DEF Relocate

LEMMA UseChainInv == IInv /\ UseChain => IInv'
<1> SUFFICES ASSUME IInv, UseChain PROVE IInv'
  OBVIOUS
<1>0. /\ UNCHANGED <<file, canceled, walk, table, interrupted>>
      /\ phase = "walked" /\ done = 0
      /\ phase' \in {"stopped", "rebuild", "merge"}
      /\ phase' # "stopped" => ~canceled
      /\ phase' = "merge" => ~(sections = <<>> /\ failure # "none")
  BY DEF UseChain, Stopped, IInv, WalkInv
<1> USE DEF walk, table
<1>1. noted' \in {"none"} \cup Declined
  BY DEF UseChain, Note, IInv, TypeOK
<1>2. TypeOK'
  BY <1>0, <1>1 DEF IInv, TypeOK, Final
<1>3. ChainLinks' /\ (Complete' <=> Complete)
  BY <1>0, LinksKept DEF IInv
<1>4. NewestPresent' /\ NothingInterrupted' /\ UnbrokenComplete'
  BY <1>0, <1>3 DEF IInv, WalkInv, NewestPresent, NothingInterrupted,
     UnbrokenComplete
<1>5. WalkInv'
  BY <1>0 DEF IInv, WalkInv
<1> QED
  BY <1>2, <1>3, <1>4, <1>5 DEF IInv

LEMMA MergeInv == IInv /\ MergeSection => IInv'
<1> SUFFICES ASSUME IInv, MergeSection PROVE IInv'
  OBVIOUS
<1>0. /\ UNCHANGED <<file, canceled, walk, noted, interrupted>>
      /\ phase = "merge" /\ phase' \in {"merge", "merged"}
      /\ done < Len(sections) /\ done' = done + 1
  BY DEF MergeSection
<1> USE DEF walk
<1>1. /\ done \in Nat /\ Len(sections) \in Nat /\ IsFile(file)
      /\ sections \in Seq([stated : Int, offset : DOMAIN file.at])
  BY DEF IInv, TypeOK
<1>2. done' \in 0..Len(sections)
  BY <1>0, <1>1
<1>3. DOMAIN merged' \subseteq Nat /\ hidden' \subseteq Nat
  <2> DEFINE p == file.at[sections[done + 1].offset]
  <2>1. sections[done + 1].offset \in DOMAIN file.at
    <3>1. done + 1 \in 1..Len(sections)
      BY <1>0, <1>1
    <3> DEFINE Link == [stated : Int, offset : DOMAIN file.at]
    <3>2. sections \in Seq(Link)
      BY <1>1
    <3> HIDE DEF Link
    <3>3. sections[done + 1] \in Link
      BY <3>1, <3>2
    <3> QED
      BY <3>3 DEF Link
  <2>2. IsPlace(p)
    BY <2>1, <1>1 DEF IsFile
  <2>3. Claims(p) \subseteq Nat /\ p.free \subseteq Nat
    BY <2>2 DEF IsPlace, Claims
  <2>4. DOMAIN merged' = DOMAIN merged \cup Claims(p)
        /\ hidden' = hidden \cup p.free
    BY DEF MergeSection
  <2> QED
    BY <2>3, <2>4 DEF IInv, TypeOK
<1>4. TypeOK'
  BY <1>0, <1>2, <1>3 DEF IInv, TypeOK, Final
<1>5. ChainLinks' /\ (Complete' <=> Complete)
  BY <1>0, LinksKept DEF IInv
<1>6. UnbrokenComplete' /\ NewestPresent' /\ NothingInterrupted'
  BY <1>0, <1>5 DEF IInv, UnbrokenComplete, NewestPresent, NothingInterrupted
<1>7. WalkInv'
  BY <1>0 DEF IInv, WalkInv
<1> QED
  BY <1>4, <1>5, <1>6, <1>7 DEF IInv

LEMMA RebuildInv == IInv /\ Rebuild => IInv'
<1> SUFFICES ASSUME IInv, Rebuild PROVE IInv'
  OBVIOUS
<1>0. /\ UNCHANGED <<file, canceled, walk, table, interrupted>>
      /\ phase = "rebuild" /\ phase' \in {"rebuilt", "failed"}
  BY DEF Rebuild
<1> USE DEF walk, table
<1>1. noted' \in {"none"} \cup Declined
  BY DEF Rebuild, Note, IInv, TypeOK
<1>2. TypeOK'
  BY <1>0, <1>1 DEF IInv, TypeOK, Final
<1>3. ChainLinks'
  BY <1>0, LinksKept DEF IInv
<1>4. UnbrokenComplete' /\ NewestPresent' /\ NothingInterrupted' /\ WalkInv'
  BY <1>0 DEF IInv, WalkInv, NewestPresent, NothingInterrupted, UnbrokenComplete
<1> QED
  BY <1>2, <1>3, <1>4 DEF IInv

LEMMA StutterInv == IInv /\ UNCHANGED vars => IInv'
<1> SUFFICES ASSUME IInv, UNCHANGED vars PROVE IInv'
  OBVIOUS
<1> USE DEF vars, walk, table
<1>1. /\ ChainLinks' /\ (Complete' <=> Complete)
      /\ At(Len(sections))' = At(Len(sections))
  BY LinksKept DEF IInv
<1>2. TypeOK'
  BY DEF IInv, TypeOK
<1>3. WalkInv'
  BY <1>1 DEF IInv, WalkInv, Inside
<1> QED
  BY <1>1, <1>2, <1>3 DEF IInv, UnbrokenComplete, NewestPresent,
     NothingInterrupted

LEMMA StepInv == IInv /\ [Next]_vars => IInv'
BY CancelInv, LocateInv, EnterInv, ParseInv, RelocateInv, UseChainInv, MergeInv,
   RebuildInv, StutterInv DEF Next, Reader, Over

THEOREM Invariance == Spec => []IInv
BY InitInv, StepInv, PTL DEF Spec

-----------------------------------------------------------------------------
(* What it gives.                                                           *)

\* Every variable of the reader keeps its type, and the budget is never
\* overdrawn (document.go walkXRefChain, xref.go take).
THEOREM TypeCorrect == Spec => []TypeOK
BY Invariance, PTL DEF IInv

\* Whatever the file's bytes say and wherever relocations lead, the sections
\* walkXRefChain returns are the chain from startxref, each read once.
THEOREM ReadsTheChain == Spec => []ChainLinks
BY Invariance, PTL DEF IInv

\* A chain the reader calls whole is whole: Source.finish scans for the numbers
\* of unread sections in every case there are some.
THEOREM WholeChain == Spec => []UnbrokenComplete
BY Invariance, PTL DEF IInv

\* readDocument never takes the trailer of a section that is not there.
THEOREM TrailerThere == Spec => []NewestPresent
BY Invariance, PTL DEF IInv

\* A table never comes of a walk that a canceled context cut short.
THEOREM CancelEndsRead == Spec => []NothingInterrupted
BY Invariance, PTL DEF IInv

-----------------------------------------------------------------------------
(* The table, and the reason a section was declined.                        *)

LEMMA MergeTable ==
    ASSUME IInv, SettledInv, MergeSection
    PROVE  SettledInv'
<1> DEFINE k == done + 1
           p == At(k)
           new == Claims(p)
<1>1. /\ UNCHANGED <<file, sections>>
      /\ done' = k /\ done < Len(sections)
      /\ merged' = [n \in DOMAIN merged \cup new |->
                      IF n \in new THEN sections[k].offset ELSE merged[n]]
      /\ hidden' = hidden \cup p.free
      /\ phase' = IF k = Len(sections) THEN "merged" ELSE "merge"
  BY DEF MergeSection, walk, At
<1>2. /\ done \in Nat /\ Len(sections) \in Nat /\ IsFile(file)
      /\ sections \in Seq([stated : Int, offset : DOMAIN file.at])
  BY DEF IInv, TypeOK
<1>3. IsPlace(p)
  <2> DEFINE Link == [stated : Int, offset : DOMAIN file.at]
  <2>1. k \in 1..Len(sections) /\ sections \in Seq(Link)
    BY <1>1, <1>2
  <2> HIDE DEF Link
  <2>2. sections[k] \in Link
    BY <2>1
  <2> USE DEF Link
  <2>3. sections[k].offset \in DOMAIN file.at
    BY <2>2
  <2> QED
    BY <2>3, <1>2 DEF IsFile, At
<1>4. p.used \cap p.free = {}
  BY <1>3 DEF IsPlace
<1>5. \A i : At(i)' = At(i) /\ Mentioned(i)' = Mentioned(i)
  BY <1>1 DEF At, Mentioned
<1>6. /\ new \cap (DOMAIN merged \cup hidden) = {}
      /\ new \subseteq p.used
      /\ p.used \subseteq new \cup DOMAIN merged \cup hidden
  BY DEF Claims
<1>7. Mentioned(k) = p.used \cup p.free
  BY DEF Mentioned
<1>8. 1..k = 1..done \cup {k} /\ k \notin 1..done /\ 1..k - 1 = 1..done
  BY <1>2
<1>9. DOMAIN merged' = DOMAIN merged \cup new
  BY <1>1
<1> HIDE DEF k, p, new
<1>10. DOMAIN merged' \cup hidden' = UNION {Mentioned(i)' : i \in 1..k}
  <2>1. DOMAIN merged' \cup hidden' = DOMAIN merged \cup hidden \cup Mentioned(k)
    BY <1>1, <1>6, <1>7, <1>9
  <2>2. ASSUME NEW n
        PROVE  n \in DOMAIN merged' \cup hidden' <=> \E i \in 1..k : n \in Mentioned(i)
    <3>1. n \in DOMAIN merged \cup hidden <=> \E i \in 1..done : n \in Mentioned(i)
      BY DEF SettledInv
    <3> QED
      BY <2>1, <3>1, <1>8
  <2>3. ASSUME NEW n
        PROVE  n \in UNION {Mentioned(i)' : i \in 1..k}
                 <=> \E i \in 1..k : n \in Mentioned(i)
    BY <1>5
  <2> QED
    BY <2>2, <2>3
<1>11. \A i \in 1..k : Settled(i)'
  <2> SUFFICES ASSUME NEW i \in 1..k PROVE Settled(i)'
    OBVIOUS
  <2> SUFFICES ASSUME NEW n \in Mentioned(i),
                      \A j \in 1..i - 1 : n \notin Mentioned(j)
               PROVE  IF n \in At(i).used
                      THEN n \in DOMAIN merged' /\ merged'[n] = sections[i].offset
                      ELSE n \notin DOMAIN merged'
    BY <1>1, <1>5 DEF Settled
  <2>1. CASE i \in 1..done
    <3>1. n \in DOMAIN merged \cup hidden
      BY <2>1 DEF SettledInv
    <3>2. n \notin new
      BY <3>1, <1>6
    <3>3. IF n \in At(i).used
          THEN n \in DOMAIN merged /\ merged[n] = sections[i].offset
          ELSE n \notin DOMAIN merged
      BY <2>1 DEF SettledInv, Settled
    <3> QED
      BY <1>1, <1>9, <3>2, <3>3
  <2>2. CASE i = k
    <3>1. n \notin DOMAIN merged \cup hidden
      BY <2>2, <1>8 DEF SettledInv
    <3>2. n \in p.used \cup p.free /\ At(i) = p
      BY <2>2, <1>7 DEF p
    <3>3. CASE n \in p.used
      <4>1. n \in new
        BY <3>1, <3>3, <1>6
      <4> QED
        BY <4>1, <1>1, <2>2, <3>2, <3>3
    <3>4. CASE n \notin p.used
      BY <3>1, <3>2, <3>4, <1>6, <1>9
    <3> QED
      BY <3>3, <3>4
  <2> QED
    BY <2>1, <2>2, <1>8
<1>12. phase' = "merged" => done' = Len(sections')
  BY <1>1
<1> QED
  BY <1>1, <1>10, <1>11, <1>12 DEF SettledInv

\* Every other step leaves the table as it is, and takes or leaves sections
\* only while none is merged.
LEMMA OtherTable ==
    ASSUME SettledInv, UNCHANGED table,
           done = 0 \/ UNCHANGED <<file, sections>>,
           phase' = "merged" => phase = "merged" /\ UNCHANGED sections
    PROVE  SettledInv'
<1>1. CASE done = 0
  <2>1. 1..done = {}
    BY <1>1
  <2>2. DOMAIN merged \cup hidden = {}
    BY <2>1 DEF SettledInv
  <2> QED
    BY <1>1, <2>1, <2>2 DEF SettledInv, table
<1>2. CASE UNCHANGED <<file, sections>>
  BY <1>2 DEF SettledInv, table, Settled, Mentioned, At
<1> QED
  BY <1>1, <1>2

LEMMA TableStep == IInv /\ SettledInv /\ [Next]_vars => SettledInv'
<1> SUFFICES ASSUME IInv, SettledInv, [Next]_vars PROVE SettledInv'
  OBVIOUS
<1> USE DEF walk
<1>1. phase \notin {"merge", "merged"} => done = 0
  BY DEF IInv, WalkInv
<1>2. CASE MergeSection
  BY <1>2, MergeTable
<1>3. CASE Cancel \/ Over \/ UNCHANGED vars
  BY <1>3, OtherTable DEF Cancel, Over, vars
<1>4. CASE LocateXRef
  BY <1>1, <1>4, OtherTable DEF LocateXRef
<1>5. CASE Enter
  <2>1. UNCHANGED table /\ phase = "walk" /\ phase' \in {"walked", "parse"}
    BY <1>5 DEF Enter, Cycle
  <2> QED
    BY <1>1, <2>1, OtherTable
<1>6. CASE Parse
  <2>1. UNCHANGED table /\ phase = "parse" /\ phase' \in {"walk", "walked", "relocate"}
    BY <1>6 DEF Parse, Found
  <2> QED
    BY <1>1, <2>1, OtherTable
<1>7. CASE Relocate
  <2>1. UNCHANGED table /\ phase = "relocate" /\ phase' \in {"walk", "walked"}
    BY <1>7 DEF Relocate, Found, Lost
  <2> QED
    BY <1>1, <2>1, OtherTable
<1>8. CASE UseChain
  <2>1. UNCHANGED table /\ phase = "walked" /\ phase' \in {"stopped", "rebuild", "merge"}
    BY <1>8 DEF UseChain
  <2> QED
    BY <1>1, <2>1, OtherTable
<1>9. CASE Rebuild
  <2>1. UNCHANGED table /\ phase = "rebuild" /\ phase' \in {"rebuilt", "failed"}
    BY <1>9 DEF Rebuild
  <2> QED
    BY <1>1, <2>1, OtherTable
<1> QED
  BY <1>2, <1>3, <1>4, <1>5, <1>6, <1>7, <1>8, <1>9 DEF Next, Reader

LEMMA ReasonStep == IInv /\ ReasonInv /\ [Next]_vars => ReasonInv'
<1> SUFFICES ASSUME IInv, ReasonInv, [Next]_vars PROVE ReasonInv'
  OBVIOUS
<1> USE DEF walk, ReasonInv, DeclineKept, Declined
<1>1. CASE Cancel \/ Over \/ UNCHANGED vars
  BY <1>1 DEF Cancel, Over, vars
<1>2. CASE LocateXRef
  <2>1. first' = "none" /\ phase = "locate" /\ failure = "none"
    BY <1>2 DEF LocateXRef
  <2> QED
    BY <1>2, <2>1 DEF LocateXRef
<1>3. CASE Enter
  <2>1. first' = "none" /\ phase = "walk" /\ failure = "none"
    BY <1>3 DEF Enter
  <2> QED
    BY <1>3, <2>1 DEF Enter, Cycle
<1>4. CASE Parse
  BY <1>4 DEF Parse, Found
<1>5. CASE Relocate
  BY <1>5 DEF Relocate, Found, Lost
<1>6. CASE UseChain
  BY <1>6 DEF UseChain, Note
<1>7. CASE MergeSection
  BY <1>7 DEF MergeSection
<1>8. CASE Rebuild
  BY <1>8 DEF Rebuild, Note
<1> QED
  BY <1>1, <1>2, <1>3, <1>4, <1>5, <1>6, <1>7, <1>8 DEF Next, Reader

LEMMA TableInvariance == Spec => []TableInv
<1>1. Init => TableInv
  BY DEF Init, TableInv, SettledInv, ReasonInv, DeclineKept, Declined
<1>2. IInv /\ TableInv /\ [Next]_vars => TableInv'
  BY TableStep, ReasonStep DEF TableInv
<1> QED
  BY <1>1, <1>2, Invariance, PTL DEF Spec

\* The merged table locates every number where the newest section that mentions
\* it says, and no number that section frees (document.go mergeSections).
THEOREM NewestEntry == Spec => []NewestWins
<1>1. TableInv => NewestWins
  BY DEF TableInv, SettledInv, NewestWins
<1> QED
  BY <1>1, TableInvariance, PTL

\* A reader that declined the section where the file said it is tells its
\* caller so, whatever the relocation found.
THEOREM ReasonKept == Spec => []DeclineKept
<1>1. TableInv => DeclineKept
  BY DEF TableInv, ReasonInv
<1> QED
  BY <1>1, TableInvariance, PTL

-----------------------------------------------------------------------------
(* What Read does with the chain: ReadLadder.                               *)


\* The greatest of some offsets is one of them.
LEMMA MaxIs ==
    ASSUME NEW k \in Nat, NEW S, S \subseteq 1..k, S # {}
    PROVE  Max(S) \in S /\ \A y \in S : y <= Max(S)
  <1> DEFINE R == {ss \in Nat \X Nat : ss[1] < ss[2]}
             T == {k - y : y \in S}
  <1>1. R = OpToRel(<, Nat)
    BY DEF OpToRel
  <1>2. IsWellFoundedOn(R, Nat)
    BY <1>1, NatLessThanWellFounded
  <1>3. \A x, y \in Nat : <<y, x>> \in R <=> y < x
    OBVIOUS
  <1>4. T \subseteq Nat /\ T # {}
    <2>1. T \subseteq Nat
      OBVIOUS
    <2>2. PICK y \in S : TRUE
      OBVIOUS
    <2> QED BY <2>1, <2>2
  <1> HIDE DEF R
  <1>5. PICK t \in T : \A y \in T : ~(<<y, t>> \in R)
    <2> HIDE DEF T
    <2> QED BY <1>2, <1>4, WFMin
  <1>6. PICK x \in S : t = k - x
    BY <1>5
  <1>7. \A y \in S : x >= y
    <2> TAKE y \in S
    <2>1. k - y \in T /\ k - y \in Nat /\ t \in Nat
      BY <1>4, <1>5
    <2>2. ~(k - y < t)
      BY <1>3, <1>5, <2>1
    <2> QED BY <1>6, <2>2
  <1>8. \E z \in S : \A y \in S : z >= y
    BY <1>7
  <1>9. Max(S) \in S /\ \A y \in S : Max(S) >= y
    <2> HIDE DEF T
    <2> QED BY <1>8, Zenon DEF Max
  <1> QED BY <1>9

\* A piece that is no trailer has a number.
LEMMA PieceFacts ==
    ASSUME IsInput(input), NEW o \in DOMAIN input.at
    PROVE  /\ IsPiece(Piece(o)) /\ o \in 1..Len(input.at) /\ Len(input.at) \in Nat
           /\ (Piece(o).num = 0) = (Piece(o).kind = "trailer")
           /\ Piece(o).num \in Nat
           /\ Piece(o).kind # "trailer" => Piece(o).kind \in ObjectKinds
  BY DEF IsInput, IsPiece, Piece

\* The last header of a number is where the scan finds it.
LEMMA LastIs ==
    ASSUME IsInput(input), NEW n \in Defined
    PROVE  /\ LastOf(n) \in DOMAIN input.at /\ Piece(LastOf(n)).num = n /\ n # 0 /\ n \in Nat
           /\ Piece(LastOf(n)).kind # "trailer"
           /\ LastOf(n) \in Live
           /\ \A o \in DOMAIN input.at : Piece(o).num = n => o <= LastOf(n)
  <1> DEFINE S == {o \in DOMAIN input.at : Piece(o).num = n}
  <1>1. PICK p \in DOMAIN input.at : Piece(p).kind # "trailer" /\ n = Piece(p).num
    BY DEF Defined
  <1>2. S \subseteq 1..Len(input.at) /\ Len(input.at) \in Nat /\ S # {} /\ n # 0 /\ n \in Nat
    BY <1>1, PieceFacts
  <1>3. Max(S) \in S /\ \A y \in S : y <= Max(S)
    <2> HIDE DEF S
    <2> QED BY <1>2, MaxIs
  <1>4. LastOf(n) = Max(S)
    BY DEF LastOf
  <1>5. LastOf(n) \in DOMAIN input.at /\ Piece(LastOf(n)).num = n
    BY <1>3, <1>4
  <1>6. Piece(LastOf(n)).kind # "trailer"
    BY <1>2, <1>5, PieceFacts
  <1> QED BY <1>2, <1>3, <1>4, <1>5, <1>6 DEF Live

\* The scan's table is the last header of each number.
LEMMA ScanIs ==
    ASSUME IsInput(input)
    PROVE  /\ ScannedTable.top = [n \in Defined |-> LastOf(n)]
           /\ ScannedTable.placed = Empty
  <1> DEFINE headers == {o \in DOMAIN input.at : Piece(o).kind # "trailer"}
             last(n) == Max({o \in headers : Piece(o).num = n})
  <1>1. {Piece(o).num : o \in headers} = Defined
    BY DEF Defined
  <1>2. ASSUME NEW n \in Defined
        PROVE  last(n) = LastOf(n)
    <2>1. n # 0
      BY LastIs
    <2>2. {o \in headers : Piece(o).num = n} = {o \in DOMAIN input.at : Piece(o).num = n}
      BY <2>1, PieceFacts
    <2> QED BY <2>2 DEF LastOf
  <1>3. ScannedTable.top = [n \in {Piece(o).num : o \in headers} |-> last(n)]
    BY DEF ScannedTable
  <1>4. ScannedTable.placed = Empty
    BY DEF ScannedTable
  <1> HIDE DEF headers, last
  <1> QED BY <1>1, <1>2, <1>3, <1>4

-----------------------------------------------------------------------------
(* No step changes the file, nor what is said of it.                        *)

LEMMA FileStays ==
    ASSUME [LadderNext]_ladderVars
    PROVE  input' = input
  BY
    DEF LadderNext, ladderVars, EndContext, Stop, ChainRead, ChainFailed, Load, LoadStopped,
        LoadFailed, LoadObjects, RebuildTable, Reload, ReloadStopped, ChooseTrailer,
        Decrypt, Unpack, UnpackStopped, Materialize, MaterializeStopped, FindRoot, Finish,
        Ended

LEMMA SaidOfFile ==
    ASSUME input' = input
    PROVE  /\ IsInput(input)' = IsInput(input)
           /\ ScannedTable' = ScannedTable
           /\ Reason' = Reason
           /\ Trailers' = Trailers
           /\ TrailerByScan' = TrailerByScan
           /\ Enciphered(input)' = Enciphered(input)
           /\ \A o : Piece(o)' = Piece(o)
  <1>1. \A o : Piece(o)' = Piece(o)
    BY DEF Piece
  <1>2. ScannedTable' = ScannedTable
    BY DEF ScannedTable, Piece
  <1>3. Trailers' = Trailers
    BY DEF Trailers, Piece, Live, LastOf
  <1>4. TrailerByScan' = TrailerByScan
    BY DEF TrailerByScan, Piece
  <1>5. Enciphered(input)' = Enciphered(input)
    BY DEF Enciphered
  <1>6. IsInput(input)' = IsInput(input) /\ Reason' = Reason
    BY DEF IsInput, Reason
  <1> QED BY <1>1, <1>2, <1>3, <1>4, <1>5, <1>6

LEMMA SaidOfTable ==
    ASSUME input' = input, located' = located
    PROVE  /\ LoadedTop' = LoadedTop
           /\ Entries' = Entries
           /\ \A n : Parses(n)' = Parses(n)
           /\ Boxes' = Boxes
           /\ Outside' = Outside
  <1>1. \A n : Parses(n)' = Parses(n)
    BY DEF Parses, Piece
  <1>2. Entries' = Entries
    BY DEF Entries
  <1>3. LoadedTop' = LoadedTop
    BY DEF LoadedTop, Entries, Parses, Piece
  <1>4. Boxes' = Boxes
    BY <1>3 DEF Boxes, Piece
  <1>5. Outside' = Outside
    BY <1>3 DEF Outside
  <1> QED BY <1>1, <1>2, <1>3, <1>4, <1>5

-----------------------------------------------------------------------------
(* The invariant, part by part.                                             *)

LEMMA LadderInitInv == LadderInit => LadderInv
  <1> SUFFICES ASSUME LadderInit PROVE LadderInv
    OBVIOUS
  <1>1. IsInput(input)
    BY InputsAssumption DEF LadderInit
  <1>2. stage = "walk" /\ packed = Empty /\ layer = Empty /\ handler = "none" /\ encrypted = FALSE
        /\ trailerScanned = FALSE /\ rebuilt = FALSE
    BY DEF LadderInit
  <1> QED BY <1>1, <1>2
            DEF LadderInv, LocatedInv, TrailerInv, LoadInv, LayerInv, UnpackInv, Going,
                Later

LEMMA LadderTableStep ==
    ASSUME LadderInv, [LadderNext]_ladderVars
    PROVE  LocatedInv'
  <1>1. input' = input /\ IsInput(input)' /\ ScannedTable' = ScannedTable /\ Reason' = Reason
    BY FileStays, SaidOfFile DEF LadderInv, LocatedInv
  <1>2. LocatedInv
    BY DEF LadderInv
  <1> HIDE DEF LadderInv
  <1>3. CASE EndContext
    BY <1>1, <1>2, <1>3
      DEF LocatedInv, Going, Later, ladderVars, EndContext, graphVars, trailerVars
  <1>4. CASE Stop("walk") \/ LoadStopped \/ Stop("again") \/ UnpackStopped \/ MaterializeStopped \/ ReloadStopped
    BY <1>1, <1>2, <1>4
      DEF LocatedInv, Going, Later, ladderVars, Stop, LoadStopped, UnpackStopped,
          MaterializeStopped, ReloadStopped
  <1>5. CASE ChainRead
    BY <1>1, <1>2, <1>5 DEF LocatedInv, Going, Later, ladderVars, ChainRead
  <1>6. CASE ChainFailed
    BY <1>1, <1>2, <1>6 DEF LocatedInv, Going, Later, ladderVars, ChainFailed
  <1>7. CASE Load \/ LoadFailed \/ Reload
    BY <1>1, <1>2, <1>7
      DEF LocatedInv, Going, Later, ladderVars, Load, LoadFailed, Reload, LoadObjects,
          trailerVars
  <1>8. CASE RebuildTable
    BY <1>1, <1>2, <1>8 DEF LocatedInv, Going, Later, ladderVars, RebuildTable, trailerVars
  <1>9. CASE ChooseTrailer
    BY <1>1, <1>2, <1>9 DEF LocatedInv, Going, Later, ladderVars, ChooseTrailer
  <1>10. CASE Decrypt \/ Finish
    BY <1>1, <1>2, <1>10
      DEF LocatedInv, Going, Later, ladderVars, Decrypt, Finish, trailerVars
  <1>11. CASE Unpack \/ Materialize
    BY <1>1, <1>2, <1>11
      DEF LocatedInv, Going, Later, ladderVars, Unpack, Materialize, trailerVars
  <1>12. CASE FindRoot
    BY <1>1, <1>2, <1>12 DEF LocatedInv, Going, Later, ladderVars, FindRoot
  <1>13. CASE Ended \/ UNCHANGED ladderVars
    BY <1>1, <1>2, <1>13 DEF LocatedInv, Going, Later, ladderVars, Ended, trailerVars
  <1> QED BY <1>3, <1>4, <1>5, <1>6, <1>7, <1>8, <1>9, <1>10, <1>11, <1>12, <1>13
            DEF LadderNext

\* The latest trailer is the latest keyword, or the latest cross-reference
\* stream among what was loaded.
LEMMA ScannedTrailer ==
    ASSUME IsInput(input), located = ScannedTable, top = LoadedTop, Trailers # {},
           trailerAt = TrailerByScan
    PROVE  /\ Max(Trailers) \in Trailers
           /\ IF XRefStreamTrailer > trailerAt THEN XRefStreamTrailer = Max(Trailers)
              ELSE trailerAt = Max(Trailers)
  <1> DEFINE words   == {o \in DOMAIN input.at : Piece(o).kind = "trailer" /\ Piece(o).root # 0}
             streams == {top[n] : n \in {m \in Loaded("xref") : Piece(top[m]).root # 0}}
             N       == Len(input.at)
  <1>1. N \in Nat /\ DOMAIN input.at = 1..N
    BY DEF IsInput
  <1>2. Trailers \subseteq 1..N
    BY <1>1 DEF Trailers
  <1>3. Max(Trailers) \in Trailers /\ \A y \in Trailers : y <= Max(Trailers)
    BY <1>1, <1>2, MaxIs
  <1>4. words \subseteq Trailers
    BY DEF Trailers
  <1>5. DOMAIN top = {m \in Defined \ {0} : Parses(m)}
        /\ \A n \in DOMAIN top : top[n] = LastOf(n) /\ n \in Defined
    BY ScanIs DEF LoadedTop, Entries
  <1>6. \A n \in DOMAIN top : top[n] \in DOMAIN input.at /\ top[n] \in Live /\ Piece(top[n]).parses
    BY <1>5, ScanIs, LastIs DEF Parses
  <1>7. streams \subseteq Trailers
    BY <1>6 DEF Trailers, Loaded
  <1>8. Trailers \subseteq words \cup streams
    <2> SUFFICES ASSUME NEW o \in Trailers, o \notin words
                 PROVE  o \in streams
      OBVIOUS
    <2>1. o \in DOMAIN input.at /\ Piece(o).root # 0 /\ Piece(o).kind = "xref"
      BY PieceFacts DEF Trailers, IsPiece
    <2>2. o \in Live /\ Piece(o).parses
      BY <2>1 DEF Trailers
    <2>3. o = LastOf(Piece(o).num) /\ Piece(o).num \in Defined
      BY <2>1, <2>2 DEF Live, Defined
    <2>4. Piece(o).num # 0
      BY <2>3, LastIs
    <2>5. Parses(Piece(o).num)
      BY <2>1, <2>2, <2>3, ScanIs DEF Parses, ObjectKinds
    <2>6. Piece(o).num \in DOMAIN top /\ top[Piece(o).num] = o
      BY <1>5, <2>3, <2>4, <2>5
    <2> QED BY <2>1, <2>6 DEF Loaded
  <1>9. words # {} => Max(words) \in words /\ \A y \in words : y <= Max(words)
    <2>1. words \subseteq 1..N
      BY <1>2, <1>4
    <2> HIDE DEF words
    <2> QED BY <1>1, <2>1, MaxIs
  <1>10. streams # {} => Max(streams) \in streams /\ \A y \in streams : y <= Max(streams)
    <2>1. streams \subseteq 1..N
      BY <1>2, <1>7
    <2> HIDE DEF streams
    <2> QED BY <1>1, <2>1, MaxIs
  <1>11. trailerAt = IF words = {} THEN 0 ELSE Max(words)
    BY DEF TrailerByScan
  <1>12. XRefStreamTrailer = IF streams = {} THEN 0 ELSE Max(streams)
    BY DEF XRefStreamTrailer
  <1> HIDE DEF words, streams, N
  <1>13. \A y \in Trailers : y \in Nat /\ y > 0
    BY <1>1, <1>2
  <1> QED BY <1>3, <1>4, <1>7, <1>8, <1>9, <1>10, <1>11, <1>12, <1>13

LEMMA TrailerStep ==
    ASSUME LadderInv, [LadderNext]_ladderVars
    PROVE  TrailerInv'
  <1>1. /\ input' = input /\ IsInput(input) /\ Trailers' = Trailers /\ TrailerByScan' = TrailerByScan
        /\ \A o : Piece(o)' = Piece(o)
    BY FileStays, SaidOfFile DEF LadderInv, LocatedInv
  <1>2. LocatedInv /\ TrailerInv /\ LoadInv
    BY DEF LadderInv
  <1>3. Piece(Max(Trailers))' = Piece(Max(Trailers))
    BY <1>1 DEF Piece
  <1>4. Piece(trailerAt)' = input.at[trailerAt']
    BY <1>1 DEF Piece
  <1>5. CASE EndContext
    BY <1>1, <1>2, <1>3, <1>4, <1>5
      DEF TrailerInv, LocatedInv, Going, Later, ladderVars, trailerVars, EndContext
  <1>6. CASE Stop("walk") \/ LoadStopped \/ Stop("again") \/ UnpackStopped \/ MaterializeStopped \/ ReloadStopped
    BY <1>1, <1>2, <1>3, <1>4, <1>6
      DEF TrailerInv, LocatedInv, Going, Later, ladderVars, trailerVars, Stop, LoadStopped,
          UnpackStopped, MaterializeStopped, ReloadStopped
  <1>7. CASE ChainRead
    BY <1>1, <1>2, <1>3, <1>4, <1>7
      DEF TrailerInv, LocatedInv, Going, Later, ladderVars, trailerVars, ChainRead
  <1>8. CASE ChainFailed
    <2>1. CASE DOMAIN ScannedTable.top = {}
      BY <1>2, <1>8, <2>1 DEF TrailerInv, Going, Later, trailerVars, ChainFailed
    <2>2. CASE DOMAIN ScannedTable.top # {}
      <3>1. /\ trailerAt' = TrailerByScan /\ stage' = "load" /\ trailerScanned' = TRUE
            /\ root' = IF TrailerByScan = 0 THEN 0 ELSE Piece(TrailerByScan).root
            /\ encrypted' = (TrailerByScan # 0 /\ input.enc)
        BY <1>8, <2>2 DEF ChainFailed, TakeTrailer
      <3>2. input.enc \in BOOLEAN
        BY <1>1 DEF IsInput
      <3>3. Piece(trailerAt)' = Piece(TrailerByScan)
        BY <1>1, <3>1 DEF Piece
      <3>4. (trailerAt # 0 => root = Piece(trailerAt).root /\ encrypted = input.enc)'
        BY <1>1, <3>1, <3>2, <3>3
      <3>5. (encrypted => input.enc)' /\ (trailerAt = TrailerByScan)'
        BY <1>1, <3>1
      <3> QED BY <1>1, <3>1, <3>4, <3>5 DEF TrailerInv, Going, Later
    <2> QED BY <2>1, <2>2
  <1>9. CASE Load \/ LoadFailed \/ Reload
    BY <1>1, <1>2, <1>3, <1>4, <1>9
      DEF TrailerInv, LocatedInv, Going, Later, ladderVars, trailerVars, Load, LoadFailed,
          Reload, LoadObjects
  <1>10. CASE RebuildTable
    BY <1>1, <1>2, <1>3, <1>4, <1>10
      DEF TrailerInv, LocatedInv, Going, Later, ladderVars, trailerVars, RebuildTable
  <1>11. CASE ChooseTrailer
    <2>1. /\ stage = "trailer" /\ stage' = "decrypt" /\ trailerScanned' = trailerScanned
          /\ input.enc \in BOOLEAN /\ Going
      BY <1>1, <1>11 DEF ChooseTrailer, IsInput, Going
    <2>2. CASE trailerScanned /\ XRefStreamTrailer > trailerAt
      <3>1. /\ trailerAt' = XRefStreamTrailer
            /\ root' = IF XRefStreamTrailer = 0 THEN 0 ELSE Piece(XRefStreamTrailer).root
            /\ encrypted' = (XRefStreamTrailer # 0 /\ input.enc)
        BY <1>11, <2>2 DEF ChooseTrailer, TakeTrailer
      <3>2. Trailers # {} => XRefStreamTrailer = Max(Trailers) /\ Max(Trailers) \in Trailers
        BY <1>1, <1>2, <2>1, <2>2, ScannedTrailer DEF LocatedInv, TrailerInv, LoadInv, Going
      <3>3. \A o \in Trailers : o # 0
        BY <1>1, PieceFacts DEF Trailers
      <3>4. Trailers # {} => root' = Piece(Max(Trailers)).root /\ encrypted' = input.enc
        BY <2>1, <3>1, <3>2, <3>3
      <3>5. (encrypted => input.enc)'
        BY <1>1, <3>1
      <3> QED BY <1>1, <1>3, <2>1, <2>2, <3>4, <3>5 DEF TrailerInv, Going, Later
    <2>3. CASE ~(trailerScanned /\ XRefStreamTrailer > trailerAt)
      <3>1. UNCHANGED <<trailerAt, root, encrypted>>
        BY <1>11, <2>3 DEF ChooseTrailer
      <3>2. trailerScanned /\ Trailers # {} => trailerAt = Max(Trailers) /\ Max(Trailers) \in Trailers
        BY <1>1, <1>2, <2>1, <2>3, ScannedTrailer DEF LocatedInv, TrailerInv, LoadInv, Going
      <3>3. \A o \in Trailers : o # 0
        BY <1>1, PieceFacts DEF Trailers
      <3>4. trailerScanned /\ Trailers # {} => root = Piece(Max(Trailers)).root /\ encrypted = input.enc
        BY <1>2, <2>1, <3>2, <3>3 DEF TrailerInv
      <3> QED BY <1>1, <1>2, <1>3, <2>1, <3>1, <3>4 DEF TrailerInv, Going, Later
    <2> QED BY <2>2, <2>3
  <1>12. CASE Decrypt \/ Finish
    BY <1>1, <1>2, <1>3, <1>4, <1>12
      DEF TrailerInv, LocatedInv, Going, Later, ladderVars, trailerVars, Decrypt, Finish
  <1>13. CASE Unpack \/ Materialize
    BY <1>1, <1>2, <1>3, <1>4, <1>13
      DEF TrailerInv, LocatedInv, Going, Later, ladderVars, trailerVars, Unpack, Materialize
  <1>14. CASE FindRoot
    <2>1. /\ stage = "root" /\ stage' \in {"finish", "failed"}
          /\ encrypted' = encrypted /\ trailerScanned' = trailerScanned
          /\ root # 0 => root' = root
      BY <1>14 DEF FindRoot
    <2>2. Trailers # {} => Max(Trailers) \in Trailers
      BY <1>1, MaxIs DEF IsInput, Trailers
    <2>3. Trailers # {} => Piece(Max(Trailers)).root # 0
      BY <2>2 DEF Trailers
    <2> QED BY <1>1, <1>2, <1>3, <2>1, <2>3 DEF TrailerInv, Going, Later
  <1>15. CASE Ended \/ UNCHANGED ladderVars
    BY <1>1, <1>2, <1>3, <1>4, <1>15
      DEF TrailerInv, LocatedInv, Going, Later, ladderVars, trailerVars, Ended
  <1> QED BY <1>5, <1>6, <1>7, <1>8, <1>9, <1>10, <1>11, <1>12, <1>13, <1>14, <1>15
            DEF LadderNext

\* What leaves the document is what is there for the reader alone.
LEMMA StaysLoaded ==
    ASSUME top = LoadedTop
    PROVE  Restrict(top, DOMAIN top \ Plumbing)
             = Restrict(LoadedTop, {n \in DOMAIN LoadedTop :
                  LET p == Piece(LoadedTop[n]) IN
                      p.kind # "xref" /\ ~(p.kind = "container" /\ p.typed)})
  <1>1. DOMAIN top \ Plumbing = {n \in DOMAIN LoadedTop :
                  LET p == Piece(LoadedTop[n]) IN
                      p.kind # "xref" /\ ~(p.kind = "container" /\ p.typed)}
    BY DEF Plumbing
  <1> QED BY <1>1

LEMMA LoadStep ==
    ASSUME LadderInv, [LadderNext]_ladderVars
    PROVE  LoadInv'
  <1>1. input' = input /\ \A o : Piece(o)' = Piece(o)
    BY FileStays, SaidOfFile
  <1>2. LocatedInv /\ LoadInv
    BY DEF LadderInv
  <1>3. located' = located => /\ LoadedTop' = LoadedTop /\ Entries' = Entries
                              /\ \A n : Parses(n)' = Parses(n)
    BY <1>1, SaidOfTable
  <1> DEFINE Shown == Restrict(LoadedTop, {n \in DOMAIN LoadedTop :
                  LET p == Piece(LoadedTop[n]) IN
                      p.kind # "xref" /\ ~(p.kind = "container" /\ p.typed)})
  <1>4. located' = located => Shown' = Shown
    BY <1>1, <1>3 DEF Piece
  <1>5. LoadInv <=>
          /\ stage \in {"trailer", "decrypt"} \cup Later => top = LoadedTop
          /\ stage = "done" => top = Shown
          /\ stage \in {"trailer", "decrypt", "done"} \cup Later /\ ~rebuilt =>
               \A n \in Entries : Parses(n)
    BY DEF LoadInv
  <1>6. LoadInv' <=>
          /\ stage' \in {"trailer", "decrypt"} \cup Later => top' = LoadedTop'
          /\ stage' = "done" => top' = Shown'
          /\ stage' \in {"trailer", "decrypt", "done"} \cup Later /\ ~rebuilt' =>
               \A n \in Entries' : Parses(n)'
    BY DEF LoadInv, Later
  <1>7. top = LoadedTop => Restrict(top, DOMAIN top \ Plumbing) = Shown
    BY StaysLoaded
  <1> HIDE DEF Shown
  <1>8. CASE stage' \in {"walk", "load", "again", "reload", "failed", "stopped"}
    BY <1>6, <1>8 DEF Later
  <1>9. CASE EndContext
    BY <1>1, <1>2, <1>3, <1>4, <1>5, <1>6, <1>9
      DEF LocatedInv, Later, ladderVars, trailerVars, graphVars, EndContext
  <1>10. CASE Load \/ Reload
    BY <1>1, <1>2, <1>3, <1>4, <1>5, <1>6, <1>10
      DEF LocatedInv, Later, ladderVars, trailerVars, graphVars, Load, Reload, LoadObjects
  <1>11. CASE ChooseTrailer
    BY <1>1, <1>2, <1>3, <1>4, <1>5, <1>6, <1>11
      DEF LocatedInv, Later, ladderVars, trailerVars, graphVars, ChooseTrailer
  <1>12. CASE Decrypt
    BY <1>1, <1>2, <1>3, <1>4, <1>5, <1>6, <1>12
      DEF LocatedInv, Later, ladderVars, trailerVars, graphVars, Decrypt
  <1>13. CASE Unpack \/ Materialize
    BY <1>1, <1>2, <1>3, <1>4, <1>5, <1>6, <1>13
      DEF LocatedInv, Later, ladderVars, trailerVars, graphVars, Unpack, Materialize
  <1>14. CASE FindRoot
    BY <1>1, <1>2, <1>3, <1>4, <1>5, <1>6, <1>14
      DEF LocatedInv, Later, ladderVars, trailerVars, graphVars, FindRoot
  <1>15. CASE Ended \/ UNCHANGED ladderVars
    BY <1>1, <1>2, <1>3, <1>4, <1>5, <1>6, <1>15
      DEF LocatedInv, Later, ladderVars, trailerVars, graphVars, Ended
  <1>16. CASE Finish
    BY <1>1, <1>2, <1>3, <1>4, <1>5, <1>6, <1>7, <1>16 DEF Later, Finish, trailerVars
  <1>17. CASE \/ Stop("walk") \/ ChainRead \/ ChainFailed \/ LoadStopped \/ LoadFailed
              \/ Stop("again") \/ RebuildTable \/ ReloadStopped \/ UnpackStopped \/ MaterializeStopped
    <2>1. stage' \in {"load", "again", "reload", "failed", "stopped"}
      BY <1>17
        DEF Stop, ChainRead, ChainFailed, LoadStopped, LoadFailed, RebuildTable,
            ReloadStopped, UnpackStopped, MaterializeStopped
    <2> QED BY <1>8, <2>1
  <1> QED BY <1>9, <1>10, <1>11, <1>12, <1>13, <1>14, <1>15, <1>16, <1>17 DEF LadderNext

\* What is loaded lies in the file, and is finitely much.
LEMMA LoadedIs ==
    ASSUME IsInput(input), LocatedInv, Going
    PROVE  /\ IsFiniteSet(DOMAIN LoadedTop)
           /\ \A n \in DOMAIN LoadedTop :
                /\ LoadedTop[n] = located.top[n] /\ LoadedTop[n] \in DOMAIN input.at
                /\ Piece(LoadedTop[n]).kind \in ObjectKinds
                /\ Piece(LoadedTop[n]).parses
                /\ n # 0 /\ n \in DOMAIN located.top
  <1>1. IsFiniteSet(Defined)
    <2> DEFINE S == {p \in DOMAIN input.at : Piece(p).kind # "trailer"}
               f == [o \in S |-> Piece(o).num]
    <2>1. DOMAIN input.at = 1..Len(input.at) /\ Len(input.at) \in Nat
      BY DEF IsInput
    <2>2. IsFiniteSet(S)
      BY <2>1, FS_Interval, FS_Subset, 1 \in Int, Len(input.at) \in Int
    <2>3. f \in Surjection(S, Defined)
      BY DEF Defined, Surjection
    <2> HIDE DEF S, f
    <2> QED BY <2>2, <2>3, FS_Surjection
  <1>2. IsFiniteSet(DOMAIN located.top)
    <2>1. CASE rebuilt
      <3>1. DOMAIN located.top = Defined
        BY <2>1, ScanIs DEF LocatedInv
      <3> QED BY <1>1, <3>1
    <2>2. CASE ~rebuilt
      BY <2>2 DEF LocatedInv, IsInput
    <2> QED BY <2>1, <2>2
  <1>3. DOMAIN LoadedTop \subseteq DOMAIN located.top
    BY DEF LoadedTop, Entries
  <1>4. IsFiniteSet(DOMAIN LoadedTop)
    BY <1>2, <1>3, FS_Subset
  <1>5. \A n \in DOMAIN LoadedTop :
                /\ LoadedTop[n] = located.top[n] /\ LoadedTop[n] \in DOMAIN input.at
                /\ Piece(LoadedTop[n]).kind \in ObjectKinds
                /\ Piece(LoadedTop[n]).parses
                /\ n # 0 /\ n \in DOMAIN located.top
    BY DEF LoadedTop, Entries, Parses
  <1> QED BY <1>4, <1>5

\* The least of some numbers is one of them.
LEMMA MinIs ==
    ASSUME NEW S \in SUBSET Nat, S # {}
    PROVE  Min(S) \in S
  <1> DEFINE R == {ss \in Nat \X Nat : ss[1] < ss[2]}
  <1>1. R = OpToRel(<, Nat)
    BY DEF OpToRel
  <1>2. IsWellFoundedOn(R, Nat)
    BY <1>1, NatLessThanWellFounded
  <1>3. \A x, y \in Nat : <<y, x>> \in R <=> y < x
    OBVIOUS
  <1> HIDE DEF R
  <1>4. PICK x \in S : \A y \in S : ~(<<y, x>> \in R)
    BY <1>2, WFMin
  <1>5. \A y \in S : x =< y
    <2> TAKE y \in S
    <2>1. ~(y < x)
      BY <1>3, <1>4
    <2> QED BY <2>1
  <1> QED BY <1>5, Zenon DEF Min

\* The numbers a document has objects under are numbers.
LEMMA NumbersAre ==
    ASSUME IsInput(input), LocatedInv, Going, top = LoadedTop
    PROVE  DOMAIN top \subseteq Nat
  <1>1. DOMAIN top \subseteq DOMAIN located.top
    BY DEF LoadedTop, Entries
  <1>2. CASE rebuilt
    <2>1. DOMAIN located.top = Defined
      BY <1>2, ScanIs DEF LocatedInv
    <2>2. Defined \subseteq Nat
      BY DEF Defined, IsInput, IsPiece, Piece
    <2> QED BY <1>1, <2>1, <2>2
  <1>3. CASE ~rebuilt
    BY <1>1, <1>3 DEF LocatedInv, IsInput
  <1> QED BY <1>2, <1>3

\* What no two numbers share has one.
LEMMA AliasesOfOne ==
    ASSUME NEW n \in DOMAIN top, IsFiniteSet(DOMAIN top), ~Shared(top[n])
    PROVE  Aliases(top[n]) = {n}
  <1> DEFINE A == Aliases(top[n])
  <1>1. IsFiniteSet(A) /\ n \in A
    BY FS_Subset DEF Aliases
  <1> HIDE DEF A
  <1>2. IsFiniteSet(A \ {n}) /\ Cardinality(A \ {n}) = Cardinality(A) - 1
    BY <1>1, FS_RemoveElement
  <1>3. ~(Cardinality(A) > 1)
    BY DEF Shared, A
  <1>4. Cardinality(A \ {n}) \in Nat /\ Cardinality(A) \in Nat
    BY <1>1, <1>2, FS_CardinalityType
  <1>5. Cardinality(A \ {n}) = 0
    BY <1>2, <1>3, <1>4
  <1>6. A \ {n} = {}
    BY <1>2, <1>5, FS_EmptySet
  <1> QED BY <1>1, <1>6 DEF A

\* A value decrypted is in the clear or noticed, of those that can be told.
LEMMA PeelTells ==
    ASSUME IsInput(input), LocatedInv, Going, top = LoadedTop, input.enc,
           NEW numbers, NEW kept, Peel(numbers, kept),
           NEW n \in numbers \cap kept, n \in DOMAIN top,
           layer[n] = Enciphered(input)[top[n]]
    PROVE  \/ layer'[n] = {}
           \/ Under(n) \in failures'
           \/ input.cipher = "RC4" /\ ~Piece(top[n]).intact
           \/ Shared(top[n]) /\ Piece(top[n]).kind = "array"
           \/ ~OwnKey(n)
  <1> DEFINE o == top[n]
             u == Under(n)
  <1>1. o \in DOMAIN input.at /\ Piece(o).kind \in ObjectKinds /\ IsFiniteSet(DOMAIN top)
    BY LoadedIs
  <1>2. layer[n] = IF Exempt(n) THEN {}
                   ELSE {Key(input, Piece(o).num)} \cup (IF Piece(o).intact THEN {} ELSE {Damage})
    BY <1>1 DEF Enciphered, Exempt, Piece, ObjectKinds
  <1>3. PICK noticed :
           /\ \A k \in Wrong(n) : k = u /\ Key(input, k) \in layer[n] => k \in noticed
           /\ layer'[n] = Undone(n)
           /\ failures' = failures \cup noticed
    BY DEF Peel
  <1>4. CASE Exempt(n)
    <2>1. Passes(n) = {} /\ layer[n] = {}
      BY <1>2, <1>4 DEF Passes, Exempt
    <2>2. Undone(n) = {}
      BY <2>1 DEF Undone
    <2> QED BY <1>3, <2>2
  <1>5. CASE ~Exempt(n) /\ ~(Shared(o) /\ Piece(o).kind = "array") /\ OwnKey(n)
                        /\ ~(input.cipher = "RC4" /\ ~Piece(o).intact)
    <2>1. Passes(n) = {u}
      <3>1. CASE Piece(o).kind = "array"
        <4>1. Aliases(o) = {n}
          BY <1>1, <1>5, <3>1, AliasesOfOne
        <4>2. {n} \in SUBSET Nat
          BY NumbersAre
        <4>3. Min({n}) \in {n}
          BY <4>2, MinIs
        <4>4. Under(n) = n
          BY <3>1, <4>1, <4>3 DEF FirstAlias, Under
        <4> QED BY <1>5, <3>1, <4>1, <4>4 DEF Passes, Under
      <3>2. CASE Piece(o).kind # "array"
        BY <1>5, <3>2 DEF Passes
      <3> QED BY <3>1, <3>2
    <2>2. Key(input, u) = Key(input, Piece(o).num)
      BY <1>5 DEF OwnKey
    <2>3. CASE input.cipher = "RC4"
      <3>1. layer[n] = {u}
        BY <1>2, <1>5, <2>2, <2>3 DEF Key
      <3>2. Undone(n) = {}
        BY <2>1, <2>3, <3>1 DEF Undone
      <3> QED BY <1>3, <3>2
    <2>4. CASE input.cipher # "RC4"
      <3>1. CASE Wrong(n) = {}
        <4>1. Undone(n) = {}
          BY <2>1, <2>4, <3>1 DEF Undone
        <4> QED BY <1>3, <4>1
      <3>2. CASE Wrong(n) # {}
        <4>1. u \in Wrong(n)
          BY <2>1, <3>2 DEF Wrong
        <4>2. Key(input, u) \in layer[n]
          BY <1>2, <1>5, <2>2
        <4> QED BY <1>3, <4>1, <4>2
      <3> QED BY <3>1, <3>2
    <2> QED BY <2>3, <2>4
  <1> QED BY <1>4, <1>5

\* What a number stands for is the same when the reader's own objects leave the
\* document.
LEMMA NumberStays ==
    ASSUME input' = input, top' \in {top, Restrict(top, DOMAIN top \ Plumbing)},
           NEW n \in DOMAIN top'
    PROVE  /\ n \in DOMAIN top /\ top'[n] = top[n]
           /\ Under(n)' = Under(n) /\ OwnKey(n)' = OwnKey(n)
           /\ Shared(top[n])' = Shared(top[n])
  <1>1. \A m \in DOMAIN top' : m \in DOMAIN top /\ top'[m] = top[m]
    BY DEF Restrict
  <1>2. \A m \in DOMAIN top : top[m] = top[n] => m \in DOMAIN top'
    <2>1. CASE top' = top
      BY <2>1
    <2>2. CASE top' = Restrict(top, DOMAIN top \ Plumbing)
      <3>1. DOMAIN top' = DOMAIN top \ Plumbing
        BY <2>2 DEF Restrict
      <3> QED BY <1>1, <3>1 DEF Plumbing
    <2> QED BY <2>1, <2>2
  <1>3. {m \in DOMAIN top' : top'[m] = top'[n]} = {m \in DOMAIN top : top[m] = top[n]}
    BY <1>1, <1>2
  <1>4. Aliases(top[n])' = Aliases(top[n])
    BY <1>3 DEF Aliases
  <1>5. FirstAlias(top[n])' = FirstAlias(top[n]) /\ Shared(top[n])' = Shared(top[n])
    BY <1>4 DEF FirstAlias, Shared
  <1>6. Piece(top[n])' = Piece(top[n])
    BY <1>1 DEF Piece
  <1>7. Under(n)' = Under(n)
    BY <1>5, <1>6 DEF Under
  <1>8. OwnKey(n)' = OwnKey(n)
    BY <1>6, <1>7 DEF OwnKey, Key
  <1> QED BY <1>1, <1>5, <1>7, <1>8

\* A value that is told of stays so.
LEMMA ToldStays ==
    ASSUME input' = input, top' \in {top, Restrict(top, DOMAIN top \ Plumbing)},
           NEW n \in DOMAIN top',
           layer'[n] = layer[n], failures \subseteq failures', Told(n)
    PROVE  Told(n)'
  <1>1. Piece(top[n])' = Piece(top[n])
    BY NumberStays DEF Piece
  <1> QED BY <1>1, NumberStays DEF Told

\* What is said of a value once decrypted is said of it in the next state.
LEMMA ToldAfter ==
    ASSUME input' = input, top' \in {top, Restrict(top, DOMAIN top \ Plumbing)},
           NEW n \in DOMAIN top',
           \/ layer'[n] = {}
           \/ Under(n) \in failures'
           \/ input.cipher = "RC4" /\ ~Piece(top[n]).intact
           \/ Shared(top[n]) /\ Piece(top[n]).kind = "array"
           \/ ~OwnKey(n)
    PROVE  Told(n)'
  <1>1. Piece(top[n])' = Piece(top[n])
    BY NumberStays DEF Piece
  <1> QED BY <1>1, NumberStays DEF Told

\* A body is decrypted with the strings or at the end, as long as the objects and
\* the table are the same.
LEMMA SaidOfGraph ==
    ASSUME input' = input, located' = located, top' = top
    PROVE  \A o : DecryptedNow(o)' = DecryptedNow(o)
  BY DEF DecryptedNow, IsContainer, FirstAlias, Aliases, Piece

LEMMA LayerStep ==
    ASSUME LadderInv, [LadderNext]_ladderVars
    PROVE  LayerInv'
  <1>1. /\ input' = input /\ (\A o : Piece(o)' = Piece(o)) /\ Enciphered(input)' = Enciphered(input)
        /\ IsInput(input)
    BY FileStays, SaidOfFile DEF LadderInv, LocatedInv
  <1>2. LocatedInv /\ TrailerInv /\ LoadInv /\ LayerInv
    BY DEF LadderInv
  <1> DEFINE Early  == {"walk", "load", "again", "reload", "trailer", "decrypt"}
             Same   == \A n \in DOMAIN top : layer[n] = Enciphered(input)[top[n]]
             Half   == \A n \in DOMAIN top : IF DecryptedNow(top[n]) THEN Told(n)
                                             ELSE layer[n] = Enciphered(input)[top[n]]
             Whole  == \A n \in DOMAIN top : Told(n)
  <1>3. LayerInv <=> /\ stage \in Early => handler = "none"
                     /\ stage \in {"trailer", "decrypt", "done"} \cup Later => DOMAIN layer = DOMAIN top
                     /\ stage \in {"trailer", "decrypt"} => Same
                     /\ stage \in {"done"} \cup Later =>
                          /\ handler \in {"none", "open", "locked"} /\ (handler = "none" <=> ~encrypted)
                          /\ handler # "open" => Same
                     /\ stage \in Later /\ handler = "open" => Half
                     /\ stage = "done" /\ handler = "open" => Whole
    BY DEF LayerInv
  <1>4. LayerInv' <=> /\ stage' \in Early => handler' = "none"
                      /\ stage' \in {"trailer", "decrypt", "done"} \cup Later => DOMAIN layer' = DOMAIN top'
                      /\ stage' \in {"trailer", "decrypt"} => Same'
                      /\ stage' \in {"done"} \cup Later =>
                           /\ handler' \in {"none", "open", "locked"} /\ (handler' = "none" <=> ~encrypted')
                           /\ handler' # "open" => Same'
                      /\ stage' \in Later /\ handler' = "open" => Half'
                      /\ stage' = "done" /\ handler' = "open" => Whole'
    BY DEF LayerInv, Later
  <1>5. top' = top /\ layer' = layer => Same' = Same
    BY <1>1
  <1>6. located' = located /\ top' = top /\ layer' = layer /\ failures' = failures => (Half => Half')
    BY <1>1, SaidOfGraph, ToldStays
  <1>7. top' = top /\ layer' = layer /\ failures' = failures => (Whole => Whole')
    BY <1>1, ToldStays
  <1>8. Early = {"walk", "load", "again", "reload", "trailer", "decrypt"}
    OBVIOUS
  <1> HIDE DEF Half, Same, Whole, Early
  <1>9. CASE Load \/ Reload
    <2>1. /\ stage \in Early /\ stage' = "trailer" /\ handler' = handler
          /\ top' = LoadedTop
          /\ layer' = [n \in DOMAIN LoadedTop |-> Enciphered(input)[LoadedTop[n]]]
      BY <1>8, <1>9 DEF Load, Reload, LoadObjects, cryptVars
    <2>2. DOMAIN layer' = DOMAIN top' /\ Same'
      BY <1>1, <2>1 DEF Same
    <2> QED BY <1>2, <1>3, <1>4, <1>8, <2>1, <2>2 DEF Later
  <1>10. CASE ChooseTrailer
    <2>1. /\ stage = "trailer" /\ stage' = "decrypt" /\ handler' = handler /\ top' = top /\ layer' = layer
      BY <1>10 DEF ChooseTrailer, graphVars, cryptVars
    <2> QED BY <1>2, <1>3, <1>4, <1>5, <1>8, <2>1 DEF Later
  <1>11. CASE ChainRead \/ ChainFailed \/ LoadFailed \/ RebuildTable
    <2>1. stage \in Early /\ stage' \in {"load", "again", "reload", "failed"} /\ handler' = handler
      BY <1>8, <1>11 DEF ChainRead, ChainFailed, LoadFailed, RebuildTable, cryptVars
    <2> QED BY <1>2, <1>3, <1>4, <1>8, <2>1 DEF Later
  <1>12. CASE Stop("walk") \/ Stop("again") \/ LoadStopped \/ UnpackStopped \/ MaterializeStopped \/ ReloadStopped
    <2>1. stage' \in {"failed", "stopped"}
      BY <1>12 DEF Stop, LoadStopped, UnpackStopped, MaterializeStopped, ReloadStopped
    <2> QED BY <1>4, <1>8, <2>1 DEF Later
  <1>13. CASE Decrypt
    <2>1. /\ stage = "decrypt" /\ stage' = "unpack" /\ Same /\ handler = "none"
          /\ encrypted' = encrypted /\ located' = located /\ top' = top /\ top = LoadedTop
          /\ DOMAIN layer = DOMAIN top
      BY <1>2, <1>3, <1>8, <1>13 DEF Decrypt, trailerVars, LoadInv
    <2>2. CASE ~encrypted
      <3>1. layer' = layer /\ handler' = "none"
        BY <1>13, <2>1, <2>2 DEF Decrypt
      <3> QED BY <1>4, <1>5, <1>8, <2>1, <2>2, <3>1 DEF Later
    <2>3. CASE encrypted /\ ~Opens
      <3>1. layer' = layer /\ handler' = "locked"
        BY <1>13, <2>3 DEF Decrypt
      <3> QED BY <1>4, <1>5, <1>8, <2>1, <2>3, <3>1 DEF Later
    <2>4. CASE encrypted /\ Opens
      <3> DEFINE numbers == {n \in DOMAIN top : DecryptedNow(top[n])}
      <3>1. handler' = "open" /\ Peel(numbers, DOMAIN top)
        BY <1>13, <2>4 DEF Decrypt
      <3>2. input.enc
        BY <1>2, <2>4 DEF TrailerInv
      <3>3. layer' = [n \in DOMAIN top |-> IF n \in numbers THEN Undone(n) ELSE layer[n]]
        BY <3>1 DEF Peel
      <3>4. Going
        BY <2>1 DEF Going
      <3>5. ASSUME NEW n \in DOMAIN top PROVE IF DecryptedNow(top[n]) THEN Told(n)'
                                              ELSE layer'[n] = Enciphered(input)[top[n]]
        <4>1. layer[n] = Enciphered(input)[top[n]]
          BY <2>1 DEF Same
        <4>2. CASE DecryptedNow(top[n])
          <5>1. n \in numbers \cap DOMAIN top
            BY <4>2
          <5> HIDE DEF numbers
          <5>2. \/ layer'[n] = {}
                \/ Under(n) \in failures'
                \/ input.cipher = "RC4" /\ ~Piece(top[n]).intact
                \/ Shared(top[n]) /\ Piece(top[n]).kind = "array"
                \/ ~OwnKey(n)
            BY <1>1, <1>2, <2>1, <3>1, <3>2, <3>4, <4>1, <5>1, PeelTells
          <5> QED BY <1>1, <2>1, <4>2, <5>2, ToldAfter
        <4>3. CASE ~DecryptedNow(top[n])
          BY <3>3, <4>1, <4>3
        <4> QED BY <4>2, <4>3
      <3>6. Half'
        BY <1>1, <2>1, <3>5, SaidOfGraph DEF Half
      <3>7. DOMAIN layer' = DOMAIN top'
        BY <2>1, <3>3
      <3> QED BY <1>4, <1>8, <2>1, <2>4, <3>1, <3>6, <3>7 DEF Later
    <2> QED BY <2>2, <2>3, <2>4
  <1>14. CASE Unpack \/ Materialize \/ FindRoot
    <2>1. /\ stage \in Later /\ layer' = layer /\ handler' = handler /\ encrypted' = encrypted
          /\ failures' = failures
          /\ located' = located /\ top' = top /\ stage' \in Later \cup {"failed"}
      BY <1>14 DEF Unpack, Materialize, FindRoot, Later, trailerVars, graphVars, cryptVars
    <2> QED BY <1>2, <1>3, <1>4, <1>5, <1>6, <1>8, <2>1 DEF Later
  <1>15. CASE Finish
    <2>1. /\ stage = "finish" /\ stage' = "done" /\ handler' = handler /\ encrypted' = encrypted
          /\ located' = located /\ top = LoadedTop /\ top' = Restrict(top, DOMAIN top \ Plumbing)
          /\ DOMAIN layer = DOMAIN top
      BY <1>2, <1>3, <1>15 DEF Finish, trailerVars, LoadInv, Later
    <2>2. DOMAIN top' = DOMAIN top \ Plumbing /\ \A n \in DOMAIN top' : n \in DOMAIN top /\ top'[n] = top[n]
      BY <2>1 DEF Restrict
    <2>3. CASE handler # "open"
      <3>1. layer' = Restrict(layer, DOMAIN top \ Plumbing) /\ Same
        BY <1>2, <1>3, <1>15, <2>1, <2>3 DEF Finish, Later
      <3>2. DOMAIN layer' = DOMAIN top' /\ \A n \in DOMAIN top' : layer'[n] = layer[n]
        BY <2>1, <2>2, <3>1 DEF Restrict
      <3>3. Same'
        BY <1>1, <2>2, <3>1, <3>2 DEF Same
      <3> QED BY <1>2, <1>3, <1>4, <1>8, <2>1, <2>3, <3>2, <3>3 DEF Later
    <2>4. CASE handler = "open"
      <3> DEFINE numbers == {n \in DOMAIN top : ~DecryptedNow(top[n])}
                 kept    == DOMAIN top \ Plumbing
      <3>1. Peel(numbers, kept)
        BY <1>15, <2>4 DEF Finish
      <3>2. input.enc
        BY <1>2, <1>3, <2>1, <2>4 DEF TrailerInv, Later
      <3>3. /\ layer' = [n \in kept |-> IF n \in numbers THEN Undone(n) ELSE layer[n]]
            /\ failures \subseteq failures'
        BY <3>1 DEF Peel
      <3>4. Going /\ Half
        BY <1>2, <1>3, <2>1, <2>4 DEF Going, Later
      <3>5. ASSUME NEW n \in DOMAIN top' PROVE Told(n)'
        <4>1. CASE DecryptedNow(top[n])
          <5>1. layer'[n] = layer[n]
            BY <2>2, <3>3, <4>1
          <5>2. Told(n)
            BY <2>2, <3>4, <4>1 DEF Half
          <5> QED BY <1>1, <2>1, <3>3, <5>1, <5>2, ToldStays
        <4>2. CASE ~DecryptedNow(top[n])
          <5>1. n \in numbers \cap kept /\ n \in DOMAIN top
            BY <2>2, <4>2
          <5>2. layer[n] = Enciphered(input)[top[n]]
            BY <3>4, <4>2, <5>1 DEF Half
          <5> HIDE DEF numbers, kept
          <5>3. \/ layer'[n] = {}
                \/ Under(n) \in failures'
                \/ input.cipher = "RC4" /\ ~Piece(top[n]).intact
                \/ Shared(top[n]) /\ Piece(top[n]).kind = "array"
                \/ ~OwnKey(n)
            BY <1>1, <1>2, <2>1, <3>1, <3>2, <3>4, <5>1, <5>2, PeelTells
          <5> QED BY <1>1, <2>1, <5>3, ToldAfter
        <4> QED BY <4>1, <4>2
      <3>6. Whole'
        BY <3>5 DEF Whole
      <3>7. DOMAIN layer' = DOMAIN top'
        BY <2>2, <3>3
      <3> QED BY <1>2, <1>3, <1>4, <1>8, <2>1, <2>4, <3>6, <3>7 DEF Later
    <2> QED BY <2>3, <2>4
  <1>16. CASE EndContext \/ Ended \/ UNCHANGED ladderVars
    <2>1. UNCHANGED <<stage, located, top, layer, handler, encrypted, failures>>
      BY <1>16 DEF EndContext, Ended, ladderVars, trailerVars, graphVars, cryptVars
    <2> QED BY <1>2, <1>3, <1>4, <1>5, <1>6, <1>7, <1>8, <2>1
  <1> QED BY <1>9, <1>10, <1>11, <1>12, <1>13, <1>14, <1>15, <1>16 DEF LadderNext

\* What a visit gives is what the containers it opens hold, and what it does not
\* give is set down under the container that should have.
LEMMA VisitGives ==
    ASSUME NEW containers, NEW given, Visit(containers, given),
           packed = Empty, given = [n \in DOMAIN given |-> given[n]]
    PROVE  /\ packed' = [n \in DOMAIN packed' |-> packed'[n]]
           /\ \A n \in DOMAIN packed' : /\ n \in DOMAIN given /\ packed'[n] = given[n]
                                        /\ n \in Piece(top[given[n]]).holds
           /\ \A n \in DOMAIN given \ DOMAIN packed' : given[n] \in undecoded' \cup skipped'
           /\ \A c \in containers : c \in undecoded' \cup skipped' \/ Readable(c)
  <1> DEFINE streams   == {c \in containers : IsStream(c)}
             locked    == {c \in streams : Ciphertext(c)}
             opened    == {c \in streams \ locked : Readable(c)}
             supplied  == {n \in DOMAIN given : given[n] \in opened /\ n \in Piece(top[given[n]]).holds}
             failing   == (containers \ opened) \cup {given[n] : n \in DOMAIN given \ supplied}
  <1>1. /\ packed' = [n \in DOMAIN packed \cup supplied |-> IF n \in supplied THEN given[n] ELSE packed[n]]
        /\ skipped' = skipped \cup locked
        /\ undecoded' = undecoded \cup (failing \ locked)
    BY DEF Visit
  <1>2. supplied \subseteq DOMAIN given /\ \A n \in supplied : n \in Piece(top[given[n]]).holds
    OBVIOUS
  <1>3. \A n \in DOMAIN given \ supplied : given[n] \in failing
    OBVIOUS
  <1>4. \A c \in containers : c \in failing \/ Readable(c)
    OBVIOUS
  <1>5. DOMAIN packed = {}
    BY DEF Empty
  <1> HIDE DEF streams, locked, opened, supplied, failing
  <1>6. DOMAIN packed' = supplied /\ \A n \in supplied : packed'[n] = given[n]
    BY <1>1, <1>5
  <1>7. packed' = [n \in DOMAIN packed' |-> packed'[n]]
    BY <1>1
  <1>8. failing \subseteq undecoded' \cup skipped'
    BY <1>1
  <1> QED BY <1>2, <1>3, <1>4, <1>6, <1>7, <1>8

LEMMA UnpackStep ==
    ASSUME LadderInv, [LadderNext]_ladderVars
    PROVE  UnpackInv'
  <1>1. input' = input /\ (\A o : Piece(o)' = Piece(o)) /\ IsInput(input)
    BY FileStays, SaidOfFile DEF LadderInv, LocatedInv
  <1>2. LocatedInv /\ LoadInv /\ UnpackInv
    BY DEF LadderInv
  <1> DEFINE Early == {"walk", "load", "again", "reload", "trailer", "decrypt", "unpack", "materialize"}
             ByTable == /\ DOMAIN packed \subseteq DOMAIN located.placed \ Outside
                        /\ \A n \in DOMAIN packed : packed[n] = located.placed[n]
                        /\ \A n \in DOMAIN located.placed \ (Outside \cup DOMAIN packed) :
                              located.placed[n] \in undecoded \cup skipped
             ByScan == /\ \A n \in DOMAIN packed : /\ n \notin Outside /\ packed[n] \in Boxes
                                                   /\ n \in Piece(LoadedTop[packed[n]]).holds
                       /\ \A c \in Boxes : \A n \in Piece(LoadedTop[c]).holds \ (Outside \cup DOMAIN packed) :
                             \E d \in Boxes \cap (undecoded \cup skipped) : n \in Piece(LoadedTop[d]).holds
  <1>3. UnpackInv <=> /\ stage \in Early => packed = Empty
                      /\ stage \in {"root", "finish", "done"} =>
                           /\ packed = [n \in DOMAIN packed |-> packed[n]]
                           /\ ~rebuilt => ByTable
                           /\ rebuilt => ByScan
    BY DEF UnpackInv
  <1>4. UnpackInv' <=> /\ stage' \in Early => packed' = Empty
                       /\ stage' \in {"root", "finish", "done"} =>
                           /\ packed' = [n \in DOMAIN packed' |-> packed'[n]]
                           /\ ~rebuilt' => ByTable'
                           /\ rebuilt' => ByScan'
    BY DEF UnpackInv
  <1>5. located' = located => LoadedTop' = LoadedTop /\ Boxes' = Boxes /\ Outside' = Outside
    BY <1>1, SaidOfTable
  <1>6. UNCHANGED <<located, packed, undecoded, skipped>> => (ByTable <=> ByTable') /\ (ByScan <=> ByScan')
    BY <1>1, <1>5
  <1>7. CASE Unpack
    <2> DEFINE given == Restrict(located.placed, Wanted)
    <2>1. /\ Visit(Range(given), given) /\ stage = "unpack" /\ located' = located /\ rebuilt' = rebuilt
          /\ stage' = IF rebuilt THEN "materialize" ELSE "root"
      BY <1>7 DEF Unpack
    <2>2. top = LoadedTop /\ packed = Empty
      BY <1>2, <2>1 DEF LoadInv, Later, UnpackInv
    <2>3. /\ given = [n \in DOMAIN given |-> given[n]] /\ DOMAIN given = Wanted
          /\ \A n \in Wanted : given[n] = located.placed[n]
      BY DEF Restrict
    <2>4. Wanted = DOMAIN located.placed \ Outside
      BY <2>2 DEF Wanted, Outside
    <2> HIDE DEF given
    <2>5. /\ packed' = [n \in DOMAIN packed' |-> packed'[n]]
          /\ \A n \in DOMAIN packed' : n \in DOMAIN given /\ packed'[n] = given[n]
          /\ \A n \in DOMAIN given \ DOMAIN packed' : given[n] \in undecoded' \cup skipped'
      BY <2>1, <2>2, <2>3, VisitGives
    <2>6. CASE rebuilt
      <3>1. DOMAIN located.placed = {}
        BY <1>2, <2>1, <2>6, ScanIs DEF LocatedInv, Going, Empty
      <3>2. DOMAIN packed' = {}
        BY <2>3, <2>4, <2>5, <3>1
      <3>3. packed' = Empty
        BY <2>5, <3>2 DEF Empty
      <3> QED BY <1>4, <2>1, <2>6, <3>3
    <2>7. CASE ~rebuilt
      <3>1. ByTable'
        BY <1>5, <2>1, <2>3, <2>4, <2>5
      <3> HIDE DEF ByTable, ByScan
      <3> QED BY <1>4, <2>1, <2>5, <2>7, <3>1
    <2> QED BY <2>6, <2>7
  <1>8. CASE Materialize
    <2> DEFINE holding(n) == {c \in Scanned : Readable(c) /\ n \in Piece(top[c]).holds}
               numbers == UNION {Piece(top[c]).holds : c \in {d \in Scanned : Readable(d)}}
               given   == [n \in numbers \ (DOMAIN top \cup DOMAIN packed \cup {0}) |-> Min(holding(n))]
    <2>1. /\ Visit(Scanned, given) /\ stage = "materialize" /\ located' = located /\ rebuilt' = rebuilt
          /\ stage' = "root"
      BY <1>8 DEF Materialize
    <2>2. top = LoadedTop /\ packed = Empty /\ DOMAIN packed = {} /\ rebuilt
      BY <1>2, <2>1 DEF LoadInv, Later, UnpackInv, LocatedInv, Empty
    <2>3. Scanned = Boxes /\ Scanned \subseteq DOMAIN LoadedTop
      BY <2>2 DEF Scanned, Boxes, Loaded
    <2>4. DOMAIN LoadedTop \subseteq Nat
      <3>1. DOMAIN LoadedTop \subseteq Defined
        BY <1>1, <1>2, <2>1, <2>2, ScanIs DEF LocatedInv, Going, LoadedTop, Entries
      <3> QED BY <1>1, <3>1, LastIs
    <2>5. \A n \in numbers : Min(holding(n)) \in holding(n)
      <3> TAKE n \in numbers
      <3>1. PICK c \in Scanned : Readable(c) /\ n \in Piece(top[c]).holds
        OBVIOUS
      <3>2. holding(n) \in SUBSET Nat /\ holding(n) # {}
        BY <2>3, <2>4, <3>1
      <3> HIDE DEF holding
      <3> QED BY <3>2, MinIs
    <2>6. DOMAIN given = numbers \ Outside /\ \A n \in DOMAIN given : given[n] = Min(holding(n))
      BY <2>2 DEF Outside
    <2>7. \A n \in DOMAIN given : given[n] \in Boxes /\ n \in Piece(LoadedTop[given[n]]).holds
      <3> TAKE n \in DOMAIN given
      <3>1. n \in numbers /\ given[n] = Min(holding(n))
        BY <2>6
      <3>2. given[n] \in holding(n)
        BY <2>5, <3>1
      <3> QED BY <2>2, <2>3, <3>2
    <2>8. \A c \in Boxes : Readable(c) => Piece(LoadedTop[c]).holds \subseteq numbers
      BY <2>2, <2>3
    <2>9. given = [n \in DOMAIN given |-> given[n]]
      OBVIOUS
    <2> HIDE DEF given, numbers, holding
    <2>10. /\ packed' = [n \in DOMAIN packed' |-> packed'[n]]
           /\ \A n \in DOMAIN packed' : n \in DOMAIN given /\ packed'[n] = given[n]
           /\ \A n \in DOMAIN given \ DOMAIN packed' : given[n] \in undecoded' \cup skipped'
           /\ \A c \in Scanned : c \in undecoded' \cup skipped' \/ Readable(c)
      BY <2>1, <2>2, <2>9, VisitGives
    <2>11. ByScan'
      <3>1. ASSUME NEW n \in DOMAIN packed'
            PROVE  n \notin Outside /\ packed'[n] \in Boxes /\ n \in Piece(LoadedTop[packed'[n]]).holds
        BY <2>6, <2>7, <2>10
      <3>2. ASSUME NEW c \in Boxes, NEW n \in Piece(LoadedTop[c]).holds \ (Outside \cup DOMAIN packed')
            PROVE  \E d \in Boxes \cap (undecoded' \cup skipped') : n \in Piece(LoadedTop[d]).holds
        <4>1. CASE c \in undecoded' \cup skipped'
          BY <4>1
        <4>2. CASE Readable(c)
          <5>1. n \in DOMAIN given
            BY <2>6, <2>8, <4>2
          <5>2. given[n] \in undecoded' \cup skipped'
            BY <2>10, <5>1
          <5> QED BY <2>7, <5>1, <5>2
        <4> QED BY <2>3, <2>10, <4>1, <4>2
      <3> QED BY <1>1, <1>5, <2>1, <3>1, <3>2
    <2> HIDE DEF ByTable, ByScan
    <2> QED BY <1>4, <2>1, <2>2, <2>10, <2>11
  <1>9. CASE FindRoot \/ Finish
    <2>1. /\ UNCHANGED <<located, rebuilt, packed, undecoded, skipped>>
          /\ stage \in {"root", "finish"} /\ stage' \in {"finish", "done", "failed"}
      BY <1>9 DEF FindRoot, Finish, graphVars, containerVars
    <2> HIDE DEF ByTable, ByScan
    <2> QED BY <1>2, <1>3, <1>4, <1>6, <2>1
  <1>10. CASE EndContext \/ Ended \/ UNCHANGED ladderVars
    <2>1. UNCHANGED <<located, rebuilt, packed, undecoded, skipped, stage>>
      BY <1>10 DEF EndContext, Ended, ladderVars, graphVars, containerVars
    <2> HIDE DEF ByTable, ByScan, Early
    <2> QED BY <1>2, <1>3, <1>4, <1>6, <2>1
  <1>11. CASE \/ Stop("walk") \/ ChainRead \/ ChainFailed \/ Load \/ LoadStopped \/ LoadFailed
              \/ Stop("again") \/ RebuildTable \/ Reload \/ ReloadStopped \/ ChooseTrailer \/ Decrypt
              \/ UnpackStopped \/ MaterializeStopped
    <2>1. /\ stage \in Early /\ packed' = packed
          /\ stage' \in {"load", "again", "reload", "trailer", "decrypt", "unpack", "failed", "stopped"}
      BY <1>11
        DEF Stop, ChainRead, ChainFailed, Load, LoadStopped, LoadFailed, LoadObjects,
            RebuildTable, Reload, ReloadStopped, ChooseTrailer, Decrypt, UnpackStopped,
            MaterializeStopped, graphVars
    <2> HIDE DEF ByTable, ByScan
    <2> QED BY <1>2, <1>3, <1>4, <2>1
  <1> QED BY <1>7, <1>8, <1>9, <1>10, <1>11 DEF LadderNext

-----------------------------------------------------------------------------
(* At the end.                                                              *)

\* A file whose table is true, or was made by a scan, has everything loaded that
\* it defines outside its containers, from where it is last defined.
LEMMA LoadedWhole ==
    ASSUME LadderInv, stage = "done", Regular, TableTrue
    PROVE  /\ LoadedTop = [n \in Defined |-> LastOf(n)]
           /\ ~rebuilt => located.placed = [n \in PackedOnly |-> Piece(BoxOf(n)).num]
  <1>1. IsInput(input) /\ LocatedInv /\ LoadInv /\ Going
    BY DEF LadderInv, LocatedInv, Going
  <1>2. \A n \in Defined : /\ LastOf(n) \in DOMAIN input.at /\ n # 0
                           /\ Piece(LastOf(n)).kind \in ObjectKinds /\ Piece(LastOf(n)).parses
    BY <1>1, LastIs, PieceFacts DEF Regular
  <1>3. CASE rebuilt
    <2>1. located.top = [n \in Defined |-> LastOf(n)]
      BY <1>1, <1>3, ScanIs DEF LocatedInv
    <2>2. {m \in Entries : Parses(m)} = Defined
      BY <1>2, <2>1 DEF Entries, Parses
    <2> QED BY <1>3, <2>1, <2>2 DEF LoadedTop
  <1>4. CASE ~rebuilt
    <2>1. /\ input.chain.outcome = "read" /\ located.top = input.chain.top /\ located.placed = input.chain.placed
          /\ \A n \in Entries : Parses(n)
      <3>1. trailerScanned = (input.chain.outcome # "read") /\ (trailerScanned => rebuilt)
            /\ located = IF rebuilt THEN ScannedTable
                         ELSE [top |-> input.chain.top, placed |-> input.chain.placed]
        BY <1>1 DEF LocatedInv
      <3>2. input.chain.outcome = "read"
        BY <1>4, <3>1
      <3>3. located.top = input.chain.top /\ located.placed = input.chain.placed
        BY <1>4, <3>1
      <3>4. \A n \in Entries : Parses(n)
        BY <1>1, <1>4 DEF LoadInv
      <3> QED BY <3>2, <3>3, <3>4
    <2>2. ~ \E n \in DOMAIN input.chain.top \ {0} : LET o == input.chain.top[n] IN
                  o \notin DOMAIN input.at \/ Piece(o).kind = "trailer" \/ ~Piece(o).parses
      BY <2>1 DEF Entries, Parses, ObjectKinds
    <2>3. /\ Restrict(input.chain.top, DOMAIN input.chain.top \ {0}) = [n \in Defined |-> LastOf(n)]
          /\ input.chain.placed = [n \in PackedOnly |-> Piece(BoxOf(n)).num]
      BY <2>1, <2>2 DEF TableTrue
    <2>4. {m \in Entries : Parses(m)} = DOMAIN input.chain.top \ {0}
      BY <2>1 DEF Entries
    <2>5. LoadedTop = Restrict(input.chain.top, DOMAIN input.chain.top \ {0})
      BY <2>1, <2>4 DEF LoadedTop, Restrict
    <2> QED BY <1>4, <2>1, <2>3, <2>5
  <1> QED BY <1>3, <1>4

\* And the document keeps what is not the reader's own.
LEMMA TopIsContent ==
    ASSUME LadderInv, stage = "done", Regular, TableTrue
    PROVE  top = [n \in Content |-> LastOf(n)]
  <1>1. IsInput(input)
    BY DEF LadderInv, LocatedInv
  <1>2. LoadedTop = [n \in Defined |-> LastOf(n)]
    BY LoadedWhole
  <1> DEFINE kept == {n \in DOMAIN LoadedTop : LET p == Piece(LoadedTop[n]) IN
                         p.kind # "xref" /\ ~(p.kind = "container" /\ p.typed)}
  <1>3. top = Restrict(LoadedTop, kept)
    BY DEF LadderInv, LoadInv
  <1>4. \A n \in Defined : Piece(LastOf(n)).kind = "container" => Piece(LastOf(n)).typed
    BY <1>1, LastIs DEF Regular, LiveBoxes
  <1>5. kept = Content
    BY <1>2, <1>4 DEF Content
  <1>6. \A n \in Content : n \in Defined
    BY DEF Content
  <1> HIDE DEF kept
  <1> QED BY <1>2, <1>3, <1>5, <1>6 DEF Restrict

\* A number in a container has one container, which is the last of its own number.
LEMMA BoxIs ==
    ASSUME IsInput(input), Regular, NEW n \in PackedOnly
    PROVE  /\ BoxOf(n) \in LiveBoxes /\ n \in Piece(BoxOf(n)).holds
           /\ \A o \in LiveBoxes : n \in Piece(o).holds => o = BoxOf(n)
           /\ Piece(BoxOf(n)).num \in Defined /\ LastOf(Piece(BoxOf(n)).num) = BoxOf(n)
           /\ Piece(BoxOf(n)).typed
  <1>1. \E o \in LiveBoxes : n \in Piece(o).holds
    BY DEF PackedOnly
  <1>2. BoxOf(n) \in LiveBoxes /\ n \in Piece(BoxOf(n)).holds
    BY <1>1 DEF BoxOf
  <1>3. \A o \in LiveBoxes : n \in Piece(o).holds => o = BoxOf(n)
    BY <1>2 DEF Regular
  <1>4. Piece(BoxOf(n)).num \in Defined /\ LastOf(Piece(BoxOf(n)).num) = BoxOf(n)
    BY <1>2 DEF LiveBoxes, Live, Defined
  <1>5. Piece(BoxOf(n)).typed
    BY <1>2 DEF Regular
  <1> QED BY <1>2, <1>3, <1>4, <1>5

LEMMA PackedIs ==
    ASSUME LadderInv, stage = "done", Regular, TableTrue
    PROVE  /\ packed = [n \in DOMAIN packed |-> packed[n]]
           /\ \A n \in DOMAIN packed : n \in PackedOnly /\ packed[n] = Piece(BoxOf(n)).num
           /\ \A n \in PackedOnly \ DOMAIN packed : Piece(BoxOf(n)).num \in undecoded \cup skipped
  <1>1. IsInput(input) /\ UnpackInv
    BY DEF LadderInv, LocatedInv
  <1>2. LoadedTop = [n \in Defined |-> LastOf(n)] /\ Outside = Defined \cup {0}
    BY LoadedWhole DEF Outside
  <1>3. packed = [n \in DOMAIN packed |-> packed[n]]
    BY <1>1 DEF UnpackInv
  <1>4. CASE ~rebuilt
    <2>1. located.placed = [n \in PackedOnly |-> Piece(BoxOf(n)).num]
      BY <1>4, LoadedWhole
    <2>2. PackedOnly \ Outside = PackedOnly
      BY <1>2 DEF PackedOnly
    <2>3. /\ DOMAIN packed \subseteq DOMAIN located.placed \ Outside
          /\ \A n \in DOMAIN packed : packed[n] = located.placed[n]
          /\ \A n \in DOMAIN located.placed \ (Outside \cup DOMAIN packed) :
                located.placed[n] \in undecoded \cup skipped
      BY <1>1, <1>4 DEF UnpackInv
    <2> QED BY <1>3, <2>1, <2>2, <2>3
  <1>5. CASE rebuilt
    <2>1. /\ \A n \in DOMAIN packed : /\ n \notin Outside /\ packed[n] \in Boxes
                                      /\ n \in Piece(LoadedTop[packed[n]]).holds
          /\ \A c \in Boxes : \A n \in Piece(LoadedTop[c]).holds \ (Outside \cup DOMAIN packed) :
                \E d \in Boxes \cap (undecoded \cup skipped) : n \in Piece(LoadedTop[d]).holds
      BY <1>1, <1>5 DEF UnpackInv
    <2>2. \A c \in Boxes : /\ c \in Defined /\ LoadedTop[c] = LastOf(c) /\ LastOf(c) \in LiveBoxes
                           /\ Piece(LastOf(c)).num = c
      BY <1>1, <1>2, LastIs DEF Boxes, LiveBoxes
    <2>3. ASSUME NEW n \in DOMAIN packed
          PROVE  n \in PackedOnly /\ packed[n] = Piece(BoxOf(n)).num
      <3>1. /\ n \notin Outside /\ packed[n] \in Boxes /\ n \in Piece(LastOf(packed[n])).holds
            /\ LastOf(packed[n]) \in LiveBoxes /\ Piece(LastOf(packed[n])).num = packed[n]
        BY <2>1, <2>2
      <3>2. n \in PackedOnly
        BY <1>2, <3>1 DEF PackedOnly
      <3> QED BY <1>1, <3>1, <3>2, BoxIs
    <2>4. ASSUME NEW n \in PackedOnly \ DOMAIN packed
          PROVE  Piece(BoxOf(n)).num \in undecoded \cup skipped
      <3> DEFINE c == Piece(BoxOf(n)).num
      <3>1. /\ BoxOf(n) \in LiveBoxes /\ n \in Piece(BoxOf(n)).holds /\ c \in Defined /\ LastOf(c) = BoxOf(n)
            /\ Piece(BoxOf(n)).typed
        BY <1>1, BoxIs
      <3>2. c \in Boxes /\ LoadedTop[c] = BoxOf(n)
        BY <1>2, <3>1 DEF Boxes, LiveBoxes
      <3>3. n \notin Outside
        BY <1>2 DEF PackedOnly
      <3>4. PICK d \in Boxes \cap (undecoded \cup skipped) : n \in Piece(LoadedTop[d]).holds
        BY <2>1, <3>1, <3>2, <3>3
      <3>5. LastOf(d) = BoxOf(n) /\ Piece(LastOf(d)).num = d
        BY <1>1, <2>2, <3>4, BoxIs
      <3> QED BY <3>4, <3>5
    <2> QED BY <1>3, <2>3, <2>4
  <1> QED BY <1>4, <1>5

-----------------------------------------------------------------------------
(* The theorems.                                                            *)

\* Every stage of a read has made of the file what it should.
THEOREM ReadsOn == LadderSpec => []LadderInv
  <1>1. LadderInv /\ [LadderNext]_ladderVars => LadderInv'
    BY LadderTableStep, TrailerStep, LoadStep, LayerStep, UnpackStep DEF LadderInv
  <1> QED BY <1>1, LadderInitInv, PTL DEF LadderSpec

\* Read by its table, or by a scan of it, a file gives the same document.
THEOREM Recovers == LadderSpec => []RecoversSame
  <1>1. LadderInv => RecoversSame
    <2> SUFFICES ASSUME LadderInv, stage = "done", Regular, TableTrue, Trailers # {}, undecoded \cup skipped = {}
                 PROVE  /\ top    = [n \in Content |-> LastOf(n)]
                        /\ packed = [n \in PackedOnly |-> Piece(BoxOf(n)).num]
                        /\ root   = Piece(Max(Trailers)).root
                        /\ encrypted = input.enc
      BY DEF RecoversSame
    <2>1. packed = [n \in PackedOnly |-> Piece(BoxOf(n)).num]
      <3>1. DOMAIN packed = PackedOnly
        BY PackedIs
      <3> QED BY <3>1, PackedIs
    <2>2. LocatedInv /\ TrailerInv /\ Going /\ IsInput(input)
      BY DEF LadderInv, LocatedInv, Going
    <2>3. Max(Trailers) \in Trailers
      BY <2>2, MaxIs DEF IsInput, Trailers
    <2>4. Piece(Max(Trailers)).root # 0
      BY <2>3 DEF Trailers
    <2>5. CASE trailerScanned
      BY <2>1, <2>2, <2>5, TopIsContent DEF TrailerInv
    <2>6. CASE ~trailerScanned
      <3>1. input.chain.root = Piece(Max(Trailers)).root
        BY <2>2, <2>6 DEF LocatedInv, TableTrue
      <3> QED BY <2>1, <2>2, <2>4, <2>6, <3>1, TopIsContent DEF TrailerInv
    <2> QED BY <2>5, <2>6
  <1> QED BY <1>1, ReadsOn, PTL

\* What is in a document is in the clear, set down as a failure, or as the file
\* has it, whichever way it was read, but for what has nothing to tell by: damage
\* under RC4, a shared array, and a value under another number's key.
THEOREM Layered == LadderSpec => []LayersAgree
  <1>1. LadderInv => LayersAgree
    <2> SUFFICES ASSUME LadderInv, stage = "done", Trailers # {}, NEW n \in DOMAIN top
                 PROVE  CASE handler = "open"   -> Told(n)
                          [] handler = "locked" -> layer[n] = Enciphered(input)[top[n]]
                          [] handler = "none"   -> layer[n] = {}
      BY DEF LayersAgree
    <2>1. LocatedInv /\ TrailerInv /\ LoadInv /\ LayerInv /\ Going /\ IsInput(input)
      BY DEF LadderInv, LocatedInv, Going
    <2>2. top[n] \in DOMAIN input.at
      BY <2>1, LoadedIs DEF LoadInv, Restrict
    <2>3. CASE handler = "open"
      BY <2>1, <2>3 DEF LayerInv
    <2>4. CASE handler = "locked"
      BY <2>1, <2>4 DEF LayerInv
    <2>5. CASE handler = "none"
      <3>1. ~encrypted /\ layer[n] = Enciphered(input)[top[n]]
        BY <2>1, <2>5 DEF LayerInv
      <3>2. ~input.enc
        BY <2>1, <3>1 DEF TrailerInv
      <3>3. Enciphered(input)[top[n]] = {}
        BY <2>2, <3>2 DEF Enciphered
      <3> QED BY <2>5, <3>1, <3>3
    <2>6. handler \in {"none", "open", "locked"}
      BY <2>1 DEF LayerInv
    <2> QED BY <2>3, <2>4, <2>5, <2>6
  <1> QED BY <1>1, ReadsOn, PTL

\* Nothing of the file is left out of the document without a record of it.
THEOREM ToldOf == LadderSpec => []MissingTold
  <1>1. LadderInv => MissingTold
    <2> SUFFICES ASSUME LadderInv, stage = "done", Regular, TableTrue \/ input.chain.cut # "none",
                        reasons = {}, input.chain.cut # "malformed"
                 PROVE  \A n \in (Content \cup PackedOnly) \ (DOMAIN top \cup DOMAIN packed) :
                            n \in PackedOnly /\ Piece(BoxOf(n)).num \in undecoded \cup skipped
      BY DEF MissingTold
    <2>1. IsInput(input) /\ reasons = {input.chain.outcome, input.chain.cut} \cap DeclinedFor
      BY DEF LadderInv, LocatedInv, Going, Reason
    <2>2. input.chain.cut = "none"
      BY <2>1 DEF IsInput
    <2>3. TableTrue
      BY <2>2
    <2>4. DOMAIN top = Content
      BY <2>3, TopIsContent
    <2> QED BY <2>3, <2>4, PackedIs
  <1> QED BY <1>1, ReadsOn, PTL
=============================================================================
