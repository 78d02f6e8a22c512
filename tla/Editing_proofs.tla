--------------------------- MODULE Editing_proofs ---------------------------
(***************************************************************************)
(* What is put into a document that is being edited.                       *)
(*                                                                         *)
(* Numbers: for every set of files whose numbers are counted, every limit  *)
(* and every size of object stream, the allocator never hands out a number *)
(* the file has used, a written file states a /Size above all it uses, and *)
(* the program implements the plain numbered store.                        *)
(*                                                                         *)
(* Structure trees: for every set of trees, pages, forms and annotations,  *)
(* nothing is refused once writing has begun, every type written means     *)
(* something, and every mark leads to the element it was given to.         *)
(***************************************************************************)
EXTENDS IncrementalUpdate, StructureTree, FiniteSetTheorems, WellFoundedInduction, TLAPS

-----------------------------------------------------------------------------
(* Smallest and greatest numbers.                                          *)

\* What is not empty has a smallest number.
LEMMA LeastIs ==
    ASSUME NEW S \in SUBSET Nat, S # {}
    PROVE  Least(S) \in S /\ \A y \in S : Least(S) <= y
  <1> DEFINE R == {ss \in Nat \X Nat : ss[1] < ss[2]}
  <1>1. R = OpToRel(<, Nat)
    BY DEF OpToRel
  <1>2. IsWellFoundedOn(R, Nat)
    BY <1>1, NatLessThanWellFounded
  <1>3. \A x, y \in Nat : <<y, x>> \in R <=> y < x
    OBVIOUS
  <1> HIDE DEF R
  <1>4. PICK x \in S : \A y \in S : ~(<<y, x>> \in R)
    BY <1>2, WFMin
  <1>5. \A y \in S : x <= y
    <2> TAKE y \in S
    <2>1. ~(y < x)
      BY <1>3, <1>4
    <2> QED BY <2>1
  <1> QED BY <1>5 DEF Least

\* And, when a number bounds it, a greatest one.
LEMMA TopIs ==
    ASSUME NEW S \in SUBSET Nat, S # {}, NEW k \in Nat, \A y \in S : y <= k
    PROVE  Top(S) \in S /\ \A y \in S : y <= Top(S)
  <1> DEFINE B == {b \in Nat : \A y \in S : y <= b}
             b == Least(B)
  <1>1. B \in SUBSET Nat /\ B # {}
    OBVIOUS
  <1>2. b \in B /\ \A y \in B : b <= y
    <2> HIDE DEF B
    <2> QED BY <1>1, LeastIs
  <1>3. b \in Nat /\ \A y \in S : y <= b
    BY <1>2
  <1>4. b \in S
    <2> HIDE DEF b
    <2> SUFFICES ASSUME b \notin S PROVE FALSE
      OBVIOUS
    <2>1. PICK s \in S : TRUE
      OBVIOUS
    <2>2. b # 0
      BY <1>3, <2>1
    <2>3. b - 1 \in B
      <3>1. \A y \in S : y <= b - 1
        BY <1>3
      <3> QED BY <1>3, <2>2, <3>1
    <2> QED BY <1>2, <1>3, <2>3
  <1>5. \E i \in S : \A j \in S : j <= i
    BY <1>3, <1>4
  <1> HIDE DEF b
  <1> QED BY <1>5 DEF Top

\* Two and three numbers have a greatest one.
LEMMA TopOfTwo ==
    ASSUME NEW x \in Nat, NEW y \in Nat
    PROVE  Top({x, y}) \in {x, y} /\ x <= Top({x, y}) /\ y <= Top({x, y})
  <1>1. {x, y} \in SUBSET Nat /\ {x, y} # {} /\ \A z \in {x, y} : z <= x + y
    OBVIOUS
  <1> QED BY <1>1, x + y \in Nat, TopIs

LEMMA TopOfThree ==
    ASSUME NEW x \in Nat, NEW y \in Nat, NEW z \in Nat
    PROVE  /\ Top({x, y, z}) \in {x, y, z}
           /\ x <= Top({x, y, z}) /\ y <= Top({x, y, z}) /\ z <= Top({x, y, z})
  <1>1. /\ {x, y, z} \in SUBSET Nat /\ {x, y, z} # {}
        /\ \A u \in {x, y, z} : u <= x + y + z
    OBVIOUS
  <1> QED BY <1>1, x + y + z \in Nat, TopIs

\* The greatest number of a set that may be empty.
LEMMA TopOrZero ==
    ASSUME NEW S \in SUBSET Nat, NEW k \in Nat, \A y \in S : y <= k
    PROVE  /\ Top(S \union {0}) \in S \union {0}
           /\ Top(S \union {0}) \in 0..k
           /\ \A y \in S : y <= Top(S \union {0})
  <1>1. S \union {0} \in SUBSET Nat /\ S \union {0} # {} /\ \A y \in S \union {0} : y <= k
    OBVIOUS
  <1> DEFINE z == Top(S \union {0})
  <1>2. z \in S \union {0} /\ \A y \in S \union {0} : y <= z
    BY <1>1, TopIs
  <1>3. z \in Nat /\ z <= k
    BY <1>1, <1>2
  <1> HIDE DEF z
  <1>4. z \in 0..k
    BY <1>3
  <1>5. \A y \in S : y <= z
    BY <1>2
  <1> QED BY <1>2, <1>4, <1>5 DEF z

-----------------------------------------------------------------------------
(* What is read from a file.                                               *)

\* The sections of a file of the right shape.
LEMMA Sections ==
    ASSUME NEW f, FileOK(f)
    PROVE  /\ Len(f.secs) \in Nat /\ f.cut \in 0..Len(f.secs)
           /\ DOMAIN f.secs = 1..Len(f.secs)
           /\ \A i \in 1..Len(f.secs) : SectionOK(f.secs[i])
           /\ (f.cut + 1)..Len(f.secs) \subseteq 1..Len(f.secs)
  <1>1. /\ Len(f.secs) \in Nat /\ f.cut \in 0..Len(f.secs)
        /\ f.secs = [i \in 1..Len(f.secs) |-> f.secs[i]]
        /\ \A i \in 1..Len(f.secs) : SectionOK(f.secs[i])
    BY DEF FileOK
  <1> QED BY <1>1

\* The four uses of a number: a section mentions it, is itself written under it,
\* packs objects into it, or holds it in an object stream.
UsedBy(sec, n) ==
    \/ n \in Mentions(sec) \/ n \in Own(sec)
    \/ \E m \in DOMAIN sec.entries : sec.entries[m].kind = "packed" /\ n = sec.entries[m].in
    \/ \E c \in DOMAIN sec.entries :
         sec.entries[c].kind = "objstm" /\ n \in DOMAIN sec.entries[c].holds

LEMMA UsedMeans ==
    ASSUME NEW f, FileOK(f), NEW n
    PROVE  n \in EverUsed(f) <=> \E i \in 1..Len(f.secs) : UsedBy(f.secs[i], n)
  <1>1. DOMAIN f.secs = 1..Len(f.secs)
    BY Sections
  <1> QED BY <1>1 DEF EverUsed, UsedBy, PackedIn

\* The numbers used are numbers.
LEMMA UsedAreNumbers ==
    ASSUME NEW sec, SectionOK(sec), NEW n, UsedBy(sec, n)
    PROVE  n \in Num
  <1>1. CASE n \in Mentions(sec)
    BY <1>1 DEF Mentions, SectionOK
  <1>2. CASE n \in Own(sec)
    BY <1>2 DEF Own, SectionOK
  <1>3. ASSUME NEW m \in DOMAIN sec.entries, sec.entries[m].kind = "packed",
               n = sec.entries[m].in
        PROVE  n \in Num
    BY <1>3 DEF SectionOK, IsPiece, Object, XRefStream
  <1>4. ASSUME NEW c \in DOMAIN sec.entries, sec.entries[c].kind = "objstm",
               n \in DOMAIN sec.entries[c].holds
        PROVE  n \in Num
    BY <1>4 DEF SectionOK, IsPiece, Object, XRefStream
  <1> QED BY <1>1, <1>2, <1>3, <1>4 DEF UsedBy

\* The entry of a number is the one of the newest section that mentions it.
LEMMA MergedAt ==
    ASSUME NEW f, FileOK(f), NEW n, NEW i \in Mentioning(f, n),
           \A j \in Mentioning(f, n) : j <= i
    PROVE  /\ n \in DOMAIN Merged(f) <=> n \in DOMAIN f.secs[i].entries
           /\ n \in DOMAIN Merged(f) => Merged(f)[n] = f.secs[i].entries[n]
           /\ n \in Num
  <1>1. Mentioning(f, n) \subseteq Nat
    BY Sections DEF Mentioning
  <1>2. Top(Mentioning(f, n)) = i
    BY <1>1 DEF Top
  <1>3. n \in Num
    BY Sections DEF Mentioning, Mentions, SectionOK
  <1>4. Mentioning(f, n) # {}
    OBVIOUS
  <1> QED BY <1>2, <1>3, <1>4 DEF Merged

\* A number that has an entry has a newest section that mentions it.
LEMMA MergedFrom ==
    ASSUME NEW f, FileOK(f)
    PROVE  /\ DOMAIN Merged(f) \subseteq Num
           /\ \A n \in DOMAIN Merged(f) : Mentioning(f, n) # {}
           /\ Merged(f) = [n \in DOMAIN Merged(f) |-> Merged(f)[n]]
  BY DEF Merged

LEMMA NewestMention ==
    ASSUME NEW f, FileOK(f), NEW n, Mentioning(f, n) # {}
    PROVE  \E i \in Mentioning(f, n) : \A j \in Mentioning(f, n) : j <= i
  <1>1. /\ Mentioning(f, n) \in SUBSET Nat
        /\ \A j \in Mentioning(f, n) : j <= Len(f.secs)
        /\ Len(f.secs) \in Nat
    BY Sections DEF Mentioning
  <1> QED BY <1>1, TopIs

\* What an entry in force leads to is an entry of some section.
LEMMA EntryInForce ==
    ASSUME NEW f, FileOK(f), NEW n \in DOMAIN Merged(f)
    PROVE  /\ \E i \in (f.cut + 1)..Len(f.secs) :
                /\ n \in DOMAIN f.secs[i].entries
                /\ Merged(f)[n] = f.secs[i].entries[n]
           /\ IsPiece(Merged(f)[n])
           /\ n \in Num
  <1>1. PICK i \in Mentioning(f, n) : \A j \in Mentioning(f, n) : j <= i
    BY MergedFrom, NewestMention
  <1>2. /\ i \in (f.cut + 1)..Len(f.secs)
        /\ n \in DOMAIN f.secs[i].entries
        /\ Merged(f)[n] = f.secs[i].entries[n] /\ n \in Num
    BY <1>1, MergedAt DEF Mentioning
  <1>3. SectionOK(f.secs[i])
    BY <1>2, Sections
  <1> QED BY <1>2, <1>3 DEF SectionOK

\* A section that is read is one of the file's.
LEMMA ReadableOnes ==
    ASSUME NEW f, FileOK(f), NEW sec \in Readable(f)
    PROVE  /\ \E i \in (f.cut + 1)..Len(f.secs) : sec = f.secs[i]
           /\ \E i \in 1..Len(f.secs) : sec = f.secs[i]
           /\ SectionOK(sec)
  BY Sections DEF Readable

\* What Source.finish counts was put to a use.
LEMMA NotedWasUsed ==
    ASSUME NEW f, FileOK(f), NEW n \in Noted(f)
    PROVE  n \in EverUsed(f)
  <1> DEFINE t == Merged(f)
  <1>1. ASSUME NEW sec \in Readable(f),
               n \in Mentions(sec) \union Own(sec) \union PackedIn(sec.entries)
        PROVE  n \in EverUsed(f)
    <2>1. UsedBy(sec, n)
      BY <1>1 DEF UsedBy, PackedIn
    <2> QED BY <2>1, ReadableOnes, UsedMeans
  <1>2. ASSUME NEW c \in DOMAIN t, t[c].kind = "objstm", n \in DOMAIN t[c].holds
        PROVE  n \in EverUsed(f)
    <2>1. PICK i \in (f.cut + 1)..Len(f.secs) :
            c \in DOMAIN f.secs[i].entries /\ t[c] = f.secs[i].entries[c]
      BY EntryInForce
    <2>2. UsedBy(f.secs[i], n) /\ i \in 1..Len(f.secs)
      BY <1>2, <2>1, Sections DEF UsedBy
    <2> QED BY <2>2, UsedMeans
  <1>3. ASSUME n \in Scanned(f)
        PROVE  n \in EverUsed(f)
    BY <1>3 DEF Scanned, EverUsed, Mentions
  <1> HIDE DEF t
  <1>4. \/ \E sec \in Readable(f) :
             n \in Mentions(sec) \union Own(sec) \union PackedIn(sec.entries)
        \/ \E c \in DOMAIN t : t[c].kind = "objstm" /\ n \in DOMAIN t[c].holds
        \/ n \in Scanned(f)
    BY DEF Noted, Opens, t
  <1> QED BY <1>1, <1>2, <1>3, <1>4

\* What the source record says of its file.
LEMMA SourceOf ==
    ASSUME NEW f, FileOK(f)
    PROVE  /\ Source(f).file = f
           /\ Source(f).merged = Merged(f)
           /\ Source(f).containers =
                PackedIn(Merged(f)) \union
                  {n \in DOMAIN Merged(f) : Merged(f)[n].kind = "objstm"}
           /\ Source(f).objects = Shown(f)
           /\ Source(f).everUsed = EverUsed(f)
           /\ Source(f).maxNum \in 0..MaxObjectNumber
           /\ \A n \in Noted(f) : n <= MaxObjectNumber => n <= Source(f).maxNum
           /\ Source(f).size \in 0..(MaxObjectNumber + 1)
           /\ \A sec \in Readable(f) : sec.size <= Source(f).size
  <1>1. MaxObjectNumber \in Nat /\ MaxObjectNumber + 1 \in Nat
    BY BoundsAssumption
  <1> DEFINE N == {n \in Noted(f) : n <= MaxObjectNumber}
             Z == {sec.size : sec \in Readable(f)}
  <1>2. N \in SUBSET Nat /\ \A n \in N : n <= MaxObjectNumber
    BY NotedWasUsed, UsedMeans, UsedAreNumbers, Sections DEF Num
  <1>3. Z \in SUBSET Nat /\ \A n \in Z : n <= MaxObjectNumber + 1
    BY ReadableOnes DEF SectionOK
  <1>4. Source(f).maxNum = Top(N \union {0}) /\ Source(f).size = Top(Z \union {0})
    BY DEF Source
  <1>5. \A n \in Noted(f) : n <= MaxObjectNumber => n \in N
    OBVIOUS
  <1>6. \A sec \in Readable(f) : sec.size \in Z
    OBVIOUS
  <1> HIDE DEF N, Z
  <1>7. /\ Top(N \union {0}) \in 0..MaxObjectNumber /\ \A n \in N : n <= Top(N \union {0})
        /\ Top(Z \union {0}) \in 0..(MaxObjectNumber + 1) /\ \A n \in Z : n <= Top(Z \union {0})
    BY <1>1, <1>2, <1>3, TopOrZero
  <1>8. /\ Source(f).maxNum \in 0..MaxObjectNumber
        /\ \A n \in Noted(f) : n <= MaxObjectNumber => n <= Source(f).maxNum
        /\ Source(f).size \in 0..(MaxObjectNumber + 1)
        /\ \A sec \in Readable(f) : sec.size <= Source(f).size
    BY <1>4, <1>5, <1>6, <1>7
  <1>9. /\ Source(f).file = f
        /\ Source(f).merged = Merged(f)
        /\ Source(f).containers =
             PackedIn(Merged(f)) \union
               {n \in DOMAIN Merged(f) : Merged(f)[n].kind = "objstm"}
        /\ Source(f).objects = Shown(f)
        /\ Source(f).everUsed = EverUsed(f)
    BY DEF Source, Shown
  <1> QED BY <1>8, <1>9

\* The file the document was read from, as the source record has it.
SourceOK == FileOK(src.file) /\ Counted(src.file) /\ src = Source(src.file)

\* Everything the file has used is below the first free number.
LEMMA FreeAbove ==
    ASSUME SourceOK
    PROVE  /\ nextFree \in 1..(MaxObjectNumber + 1)
           /\ \A n \in src.everUsed : n \in Num /\ n < nextFree
           /\ \A sec \in Readable(src.file) : sec.size <= nextFree
  <1> DEFINE f == src.file
  <1>1. FileOK(f) /\ Counted(f) /\ src = Source(f)
    BY DEF SourceOK
  <1> HIDE DEF f
  <1>2. /\ src.everUsed = EverUsed(f) /\ src.maxNum \in 0..MaxObjectNumber /\ src.size \in 0..(MaxObjectNumber + 1)
        /\ \A n \in Noted(f) : n <= MaxObjectNumber => n <= src.maxNum
        /\ \A sec \in Readable(f) : sec.size <= src.size
    BY <1>1, SourceOf
  <1>3. MaxObjectNumber \in Nat
    BY BoundsAssumption
  <1>4. /\ nextFree \in {src.maxNum + 1, src.size}
        /\ src.maxNum + 1 <= nextFree /\ src.size <= nextFree
    BY <1>2, <1>3, TopOfTwo DEF nextFree
  <1>5. nextFree \in 1..(MaxObjectNumber + 1)
    BY <1>2, <1>3, <1>4
  <1>6. \A sec \in Readable(f) : sec.size <= nextFree /\ sec.size \in Nat
    <2> TAKE sec \in Readable(f)
    <2>1. sec.size \in 0..(MaxObjectNumber + 1)
      BY <1>1, ReadableOnes DEF SectionOK
    <2> QED BY <1>2, <1>3, <1>4, <1>5, <2>1
  <1>7. ASSUME NEW n \in EverUsed(f) PROVE n \in Num /\ n < nextFree
    <2>1. n \in Num
      BY <1>1, UsedMeans, UsedAreNumbers, Sections
    <2>2. n \in Nat
      BY <2>1 DEF Num
    <2>3. CASE n \in Noted(f) /\ n <= MaxObjectNumber
      BY <1>2, <1>3, <1>4, <1>5, <2>1, <2>2, <2>3
    <2>4. ASSUME NEW sec \in Readable(f), n < sec.size PROVE n < nextFree
      BY <1>3, <1>5, <1>6, <2>2, <2>4
    <2> QED BY <1>1, <2>1, <2>3, <2>4 DEF Counted
  <1> QED BY <1>2, <1>5, <1>6, <1>7 DEF f

-----------------------------------------------------------------------------
(* The allocator.                                                          *)

\* The first free number of a document within the allocator's bound is above
\* what the file used, new to the graph, and not below the numbers given out.
LEMMA Allocates ==
    ASSUME NEW d, NEW k \in (MaxObjectNumber + 2)..(MaxObjectNumber + 7), nextFree \in 1..(MaxObjectNumber + 1),
           DOMAIN d.objs \subseteq 1..k, d.next \in 0..(k + 1),
           d.next # 0 => d.next >= nextFree
    PROVE  /\ allocObjNum(d) \in 1..(k + 1)
           /\ allocObjNum(d) >= nextFree /\ allocObjNum(d) >= d.next
           /\ allocObjNum(d) \notin DOMAIN d.objs
  <1>1. MaxObjectNumber \in Nat /\ AllocTop = MaxObjectNumber + 8 /\ k + 1 \in Nat /\ k + 1 <= AllocTop
    BY BoundsAssumption DEF AllocTop
  <1> DEFINE B == {n \in nextFree..AllocTop : \A m \in DOMAIN d.objs : m < n}
  <1>2. k + 1 \in B /\ B \in SUBSET Nat
    BY <1>1
  <1>3. FirstNumber(d) \in B /\ FirstNumber(d) <= k + 1
    <2>1. FirstNumber(d) = Least(B)
      BY DEF FirstNumber
    <2> HIDE DEF B
    <2> QED BY <1>2, <2>1, LeastIs
  <1>4. AllocFrom(d) \in nextFree..(k + 1) /\ AllocFrom(d) >= d.next
    <2>1. CASE d.next = 0
      BY <1>1, <1>3, <2>1 DEF AllocFrom
    <2>2. CASE d.next # 0
      BY <1>1, <2>2 DEF AllocFrom
    <2> QED BY <2>1, <2>2
  <1> DEFINE A == {n \in AllocFrom(d)..AllocTop : n \notin DOMAIN d.objs}
  <1>5. k + 1 \in A /\ A \in SUBSET Nat
    BY <1>1, <1>4
  <1>6. allocObjNum(d) \in A /\ allocObjNum(d) <= k + 1
    <2>1. allocObjNum(d) = Least(A)
      BY DEF allocObjNum
    <2> HIDE DEF A
    <2> QED BY <1>5, <2>1, LeastIs
  <1> QED BY <1>1, <1>4, <1>6

-----------------------------------------------------------------------------
(* A file with one section more.                                           *)

Extended(f, sec) == [f EXCEPT !.secs = Append(@, sec)]

LEMMA ExtendedFile ==
    ASSUME NEW s, NEW c, NEW sec
    PROVE  Extended(File(s, c), sec) = File(Append(s, sec), c)
  BY DEF Extended, File

LEMMA ExtendedSections ==
    ASSUME NEW f, FileOK(f), NEW sec, SectionOK(sec)
    PROVE  /\ FileOK(Extended(f, sec))
           /\ Extended(f, sec).cut = f.cut
           /\ Len(Extended(f, sec).secs) = Len(f.secs) + 1
           /\ Extended(f, sec).secs[Len(f.secs) + 1] = sec
           /\ \A i \in 1..Len(f.secs) : Extended(f, sec).secs[i] = f.secs[i]
           /\ Newest(Extended(f, sec)) = sec
  <1> DEFINE q == Append(f.secs, sec)
             e == Extended(f, sec)
  <1>1. /\ Len(f.secs) \in Nat /\ f.cut \in 0..Len(f.secs)
        /\ f.secs = [i \in 1..Len(f.secs) |-> f.secs[i]]
        /\ \A i \in 1..Len(f.secs) : SectionOK(f.secs[i])
        /\ f = File(f.secs, f.cut)
    BY DEF FileOK
  <1>2. e.secs = q /\ e.cut = f.cut /\ e = File(q, f.cut)
    <2>1. e = File(q, f.cut)
      BY <1>1, ExtendedFile
    <2> HIDE DEF e, q
    <2> QED BY <2>1 DEF File
  <1>3. /\ Len(q) = Len(f.secs) + 1 /\ q[Len(f.secs) + 1] = sec
        /\ \A i \in 1..Len(f.secs) : q[i] = f.secs[i]
        /\ q = [i \in 1..Len(q) |-> q[i]]
    BY <1>1
  <1> HIDE DEF q
  <1>4. \A i \in 1..Len(q) : SectionOK(q[i])
    <2> TAKE i \in 1..Len(q)
    <2>1. i = Len(f.secs) + 1 \/ i \in 1..Len(f.secs)
      BY <1>1, <1>3
    <2> QED BY <1>1, <1>3, <2>1
  <1>5. FileOK(e)
    <2>1. Len(q) \in Nat /\ f.cut \in 0..Len(q)
      BY <1>1, <1>3
    <2> HIDE DEF e
    <2> QED BY <1>2, <1>3, <1>4, <2>1 DEF FileOK
  <1> QED BY <1>2, <1>3, <1>5 DEF Newest

LEMMA ExtendedReadable ==
    ASSUME NEW f, FileOK(f), NEW sec, SectionOK(sec)
    PROVE  /\ sec \in Readable(Extended(f, sec))
           /\ \A s \in Readable(Extended(f, sec)) : s \in Readable(f) \/ s = sec
           /\ \A s \in Readable(f) : s \in Readable(Extended(f, sec))
  <1> DEFINE e == Extended(f, sec)
  <1>1. /\ Len(f.secs) \in Nat /\ f.cut \in 0..Len(f.secs)
        /\ e.cut = f.cut /\ Len(e.secs) = Len(f.secs) + 1
        /\ e.secs[Len(f.secs) + 1] = sec
        /\ \A i \in 1..Len(f.secs) : e.secs[i] = f.secs[i]
    BY Sections, ExtendedSections
  <1> HIDE DEF e
  <1>2. sec \in Readable(e)
    <2>1. Len(f.secs) + 1 \in (e.cut + 1)..Len(e.secs)
      BY <1>1
    <2> QED BY <1>1, <2>1 DEF Readable
  <1>3. ASSUME NEW s \in Readable(e) PROVE s \in Readable(f) \/ s = sec
    <2>1. PICK i \in (e.cut + 1)..Len(e.secs) : s = e.secs[i]
      BY DEF Readable
    <2>2. i \in (f.cut + 1)..(Len(f.secs) + 1)
      BY <1>1
    <2>3. \/ i = Len(f.secs) + 1
          \/ i \in (f.cut + 1)..Len(f.secs) /\ i \in 1..Len(f.secs)
      BY <1>1, <2>2
    <2> QED BY <1>1, <2>1, <2>3 DEF Readable
  <1>4. ASSUME NEW s \in Readable(f) PROVE s \in Readable(e)
    <2>1. PICK i \in (f.cut + 1)..Len(f.secs) : s = f.secs[i]
      BY DEF Readable
    <2>2. i \in (e.cut + 1)..Len(e.secs) /\ i \in 1..Len(f.secs)
      BY <1>1
    <2> QED BY <1>1, <2>1, <2>2 DEF Readable
  <1> QED BY <1>2, <1>3, <1>4 DEF e

\* A section that packs nothing uses the numbers it mentions and its own.
Unpacking(sec) == \A n \in DOMAIN sec.entries : sec.entries[n].kind \notin {"packed", "objstm"}

LEMMA ExtendedUses ==
    ASSUME NEW f, FileOK(f), NEW sec, SectionOK(sec), Unpacking(sec),
           NEW n \in EverUsed(Extended(f, sec))
    PROVE  n \in EverUsed(f) \/ n \in Mentions(sec) \union Own(sec)
  <1> DEFINE e == Extended(f, sec)
  <1>1. /\ FileOK(e) /\ Len(f.secs) \in Nat /\ Len(e.secs) = Len(f.secs) + 1
        /\ e.secs[Len(f.secs) + 1] = sec
        /\ \A i \in 1..Len(f.secs) : e.secs[i] = f.secs[i]
    BY Sections, ExtendedSections
  <1> HIDE DEF e
  <1>2. PICK i \in 1..Len(e.secs) : UsedBy(e.secs[i], n)
    BY <1>1, UsedMeans DEF e
  <1>3. CASE i \in 1..Len(f.secs)
    BY <1>1, <1>2, <1>3, UsedMeans
  <1>4. CASE i = Len(f.secs) + 1
    BY <1>1, <1>2, <1>4 DEF UsedBy, Unpacking
  <1> QED BY <1>1, <1>3, <1>4

\* The new section's entries are in force, and those of the numbers it does
\* not mention stay as they were.
LEMMA ExtendedMerge ==
    ASSUME NEW f, FileOK(f), NEW sec, SectionOK(sec), NEW n
    PROVE  /\ n \in Mentions(sec) =>
                /\ n \in DOMAIN Merged(Extended(f, sec)) <=> n \in DOMAIN sec.entries
                /\ n \in DOMAIN sec.entries =>
                     Merged(Extended(f, sec))[n] = sec.entries[n]
           /\ n \notin Mentions(sec) =>
                /\ n \in DOMAIN Merged(Extended(f, sec)) <=> n \in DOMAIN Merged(f)
                /\ n \in DOMAIN Merged(f) =>
                     Merged(Extended(f, sec))[n] = Merged(f)[n]
  <1> DEFINE e == Extended(f, sec)
             last == Len(f.secs) + 1
  <1>1. /\ FileOK(e) /\ Len(f.secs) \in Nat /\ Len(e.secs) = last
        /\ e.cut = f.cut /\ f.cut \in 0..Len(f.secs)
        /\ e.secs[last] = sec
        /\ \A i \in 1..Len(f.secs) : e.secs[i] = f.secs[i]
    BY Sections, ExtendedSections
  <1> HIDE DEF e
  <1>2. Mentioning(e, n) =
          Mentioning(f, n) \union (IF n \in Mentions(sec) THEN {last} ELSE {})
    <2>1. (e.cut + 1)..Len(e.secs) = ((f.cut + 1)..Len(f.secs)) \union {last}
      BY <1>1
    <2>2. \A i \in (f.cut + 1)..Len(f.secs) : e.secs[i] = f.secs[i]
      BY <1>1
    <2> QED BY <1>1, <2>1, <2>2 DEF Mentioning
  <1>3. CASE n \in Mentions(sec)
    <2>1. last \in Mentioning(e, n) /\ \A j \in Mentioning(e, n) : j <= last
      BY <1>1, <1>2, <1>3 DEF Mentioning
    <2> HIDE DEF last
    <2>2. /\ n \in DOMAIN Merged(e) <=> n \in DOMAIN e.secs[last].entries
          /\ n \in DOMAIN Merged(e) => Merged(e)[n] = e.secs[last].entries[n]
      BY <1>1, <2>1, MergedAt
    <2> QED BY <1>1, <1>3, <2>2 DEF e
  <1>4. CASE n \notin Mentions(sec)
    <2>1. Mentioning(e, n) = Mentioning(f, n)
      BY <1>2, <1>4
    <2>2. CASE Mentioning(f, n) = {}
      BY <1>1, <1>4, <2>1, <2>2, MergedFrom DEF e
    <2>3. CASE Mentioning(f, n) # {}
      <3>1. PICK i \in Mentioning(f, n) : \A j \in Mentioning(f, n) : j <= i
        BY <2>3, NewestMention
      <3>2. /\ n \in DOMAIN Merged(f) <=> n \in DOMAIN f.secs[i].entries
            /\ n \in DOMAIN Merged(f) => Merged(f)[n] = f.secs[i].entries[n]
        BY <3>1, MergedAt
      <3>3. /\ n \in DOMAIN Merged(e) <=> n \in DOMAIN e.secs[i].entries
            /\ n \in DOMAIN Merged(e) => Merged(e)[n] = e.secs[i].entries[n]
        BY <1>1, <2>1, <3>1, MergedAt
      <3>4. e.secs[i] = f.secs[i]
        BY <1>1, <3>1, Sections DEF Mentioning
      <3> QED BY <1>4, <3>2, <3>3, <3>4 DEF e
    <2> QED BY <2>2, <2>3
  <1> QED BY <1>3, <1>4

-----------------------------------------------------------------------------
(* The section an update adds.                                             *)

\* A document, or the copy of one that is signed, with its numbers within k.
Holds(d, k) ==
    /\ k \in (MaxObjectNumber + 2)..(MaxObjectNumber + 7)
    /\ DOMAIN d.objs \subseteq 1..k
    /\ \A n \in DOMAIN d.objs : d.objs[n] \in Object
    /\ d.next \in 0..(k + 1)
    /\ d.next # 0 => d.next >= nextFree

\* A freed number's generation is one a file can state.
LEMMA FreedGenIs ==
    ASSUME SourceOK, NEW n
    PROVE  FreedGen(n) \in Gens
  <1>1. src.merged = Merged(src.file) /\ FileOK(src.file)
    BY SourceOf DEF SourceOK
  <1>2. ASSUME n \in DOMAIN src.merged, src.merged[n].kind # "packed"
        PROVE  src.merged[n].gen \in 0..MaxGen
    <2>1. IsPiece(src.merged[n])
      BY <1>1, <1>2, EntryInForce
    <2> QED BY <1>2, <2>1, BoundsAssumption
            DEF IsPiece, Object, XRefStream, Container, Gens
  <1> QED BY <1>2, BoundsAssumption DEF FreedGen, Gens

LEMMA OwnNumber ==
    ASSUME SourceOK, NEW d, NEW k, Holds(d, k), XRefNumberLeft(d), InStreamForm
    PROVE  /\ allocObjNum(d) \in 1..MaxObjectNumber
           /\ allocObjNum(d) \notin DOMAIN d.objs
           /\ allocObjNum(d) \notin src.everUsed
  <1>1. nextFree \in 1..(MaxObjectNumber + 1) /\ \A n \in src.everUsed : n \in Num /\ n < nextFree
    BY FreeAbove
  <1>2. /\ allocObjNum(d) \in 1..(k + 1) /\ allocObjNum(d) >= nextFree
        /\ allocObjNum(d) \notin DOMAIN d.objs
    BY <1>1, Allocates DEF Holds
  <1>3. allocObjNum(d) <= MaxObjectNumber
    BY DEF XRefNumberLeft
  <1> QED BY <1>1, <1>2, <1>3, BoundsAssumption DEF Holds, Num

LEMMA UpdateShape ==
    ASSUME SourceOK, NEW d, NEW k, Holds(d, k), XRefNumberLeft(d),
           NEW changed \in SUBSET Num, MayChange(changed),
           NEW sec, sec = UpdateSection(d, changed)
    PROVE  /\ SectionOK(sec) /\ Unpacking(sec)
           /\ Mentions(sec) = changed \union Own(sec)
           /\ DOMAIN sec.entries = (changed \intersect DOMAIN d.objs) \union Own(sec)
           /\ \A n \in changed \intersect DOMAIN d.objs : sec.entries[n] = d.objs[n]
           /\ \A n \in Own(sec) : /\ sec.entries[n] = XRefStream
                                  /\ n \notin DOMAIN d.objs /\ n \notin src.everUsed
           /\ sec.size >= nextFree
           /\ \A n \in Mentions(sec) : n < sec.size
           /\ InStreamForm => Own(sec) = {allocObjNum(d)}
           /\ ~InStreamForm => Own(sec) = {}
  <1> DEFINE written == changed \intersect DOMAIN d.objs
             own == IF InStreamForm THEN allocObjNum(d) ELSE 0
             taken == IF InStreamForm THEN {own} ELSE {}
             entries == [n \in written \union taken |->
                           IF n \in taken THEN XRefStream ELSE d.objs[n]]
             free == [n \in changed \ (written \union taken) |-> FreedGen(n)]
             size == UpdateSize(Top(changed), own)
             form == IF InStreamForm THEN "stream" ELSE "table"
  <1>1. sec = [form |-> form, entries |-> entries, free |-> free, own |-> own, size |-> size]
    BY DEF UpdateSection, Section
  <1>2. /\ sec.form = form /\ sec.entries = entries /\ sec.free = free
        /\ sec.own = own /\ sec.size = size
    <2> HIDE DEF form, entries, free, own, size
    <2> QED BY <1>1
  <1>3. MaxObjectNumber \in Nat /\ nextFree \in 1..(MaxObjectNumber + 1)
    BY FreeAbove, BoundsAssumption
  <1>4. InStreamForm => /\ own \in 1..MaxObjectNumber /\ own \notin DOMAIN d.objs
                        /\ own \notin src.everUsed
    BY OwnNumber
  <1>5. own \in 0..MaxObjectNumber /\ taken \subseteq 1..MaxObjectNumber /\ taken \subseteq {own}
    BY <1>3, <1>4
  <1>6. Own(sec) = taken
    BY <1>2, <1>4 DEF Own
  <1>7. changed \in SUBSET Nat /\ changed # {} /\ \A n \in changed : n <= MaxObjectNumber
    BY DEF MayChange, Num
  <1>8. Top(changed) \in 0..MaxObjectNumber /\ \A n \in changed : n <= Top(changed)
    <2>1. Top(changed) \in changed /\ \A n \in changed : n <= Top(changed)
      BY <1>3, <1>7, TopIs
    <2>2. Top(changed) \in Nat /\ Top(changed) <= MaxObjectNumber
      BY <1>7, <2>1
    <2> QED BY <1>3, <2>1, <2>2
  <1>9. /\ size \in 0..(MaxObjectNumber + 1) /\ size >= nextFree
        /\ size >= Top(changed) + 1 /\ size >= own + 1
    <2> HIDE DEF own
    <2>1. nextFree \in Nat /\ Top(changed) + 1 \in Nat /\ own + 1 \in Nat
      BY <1>3, <1>5, <1>8
    <2>2. /\ size \in {nextFree, Top(changed) + 1, own + 1}
          /\ nextFree <= size /\ Top(changed) + 1 <= size /\ own + 1 <= size
      BY <2>1, TopOfThree DEF UpdateSize
    <2> QED BY <1>3, <1>5, <1>8, <2>1, <2>2
  <1>10. DOMAIN sec.entries = written \union taken
    BY <1>2
  <1>11. DOMAIN sec.free = changed \ (written \union taken)
    BY <1>2
  <1>12. Mentions(sec) = changed \union taken
    BY <1>10, <1>11 DEF Mentions
  <1>13. \A n \in written : n \notin taken /\ sec.entries[n] = d.objs[n]
    BY <1>2, <1>4
  <1>14. \A n \in taken : sec.entries[n] = XRefStream
    BY <1>2
  <1>15. \A n \in DOMAIN sec.entries : IsPiece(sec.entries[n])
    BY <1>10, <1>13, <1>14 DEF Holds, IsPiece
  <1>16. Unpacking(sec)
    BY <1>10, <1>13, <1>14 DEF Holds, Unpacking, Object, XRefStream
  <1>17. SectionOK(sec)
    <2>1. sec = Section(sec.form, sec.entries, sec.free, sec.own, sec.size)
      <3> HIDE DEF form, entries, free, own, size
      <3> QED BY <1>1 DEF Section
    <2>2. IsMap(sec.entries)
      BY <1>2 DEF IsMap
    <2>3. taken \subseteq Num
      BY <1>3, <1>5 DEF Num
    <2>4. sec.free \in [DOMAIN sec.free -> Gens]
      BY <1>2, FreedGenIs
    <2>5. sec.own \in Num \union {0} /\ sec.size \in 0..(MaxObjectNumber + 1)
      BY <1>2, <1>3, <1>5, <1>9 DEF Num
    <2>6. written \union taken \subseteq Num /\ changed \ (written \union taken) \subseteq Num
      BY <2>3
    <2> HIDE DEF taken, written, own
    <2> QED BY <1>10, <1>11, <1>15, <2>1, <2>2, <2>4, <2>5, <2>6 DEF SectionOK
  <1>18. \A n \in Mentions(sec) : n < sec.size
    <2> TAKE n \in Mentions(sec)
    <2>1. CASE n \in changed
      BY <1>2, <1>3, <1>7, <1>8, <1>9, <2>1
    <2>2. CASE n \in taken
      <3> HIDE DEF size
      <3> QED BY <1>2, <1>3, <1>4, <1>5, <1>9, <2>2
    <2> QED BY <1>12, <2>1, <2>2
  <1> QED BY <1>2, <1>4, <1>6, <1>9, <1>10, <1>12, <1>13, <1>14, <1>16, <1>17, <1>18

\* The updated file: its newest section states a /Size above every number used.
LEMMA UpdatedFile ==
    ASSUME SourceOK, NEW d, NEW k, Holds(d, k), XRefNumberLeft(d),
           NEW changed \in SUBSET Num, MayChange(changed),
           NEW f, f = Updated(d, changed)
    PROVE  /\ FileOK(f) /\ f.cut < Len(f.secs) /\ Counted(f)
           /\ \A n \in EverUsed(f) : n < Newest(f).size
           /\ \A sec \in Readable(f) : sec.size <= Newest(f).size
  <1> DEFINE new == UpdateSection(d, changed)
  <1>1. f = Extended(src.file, new)
    BY DEF Updated, Extended
  <1>2. FileOK(src.file) /\ src.everUsed = EverUsed(src.file)
    BY SourceOf DEF SourceOK
  <1>3. /\ SectionOK(new) /\ Unpacking(new) /\ new.size >= nextFree
        /\ Mentions(new) = changed \union Own(new)
        /\ \A n \in Mentions(new) : n < new.size
    BY UpdateShape
  <1>4. /\ nextFree \in 1..(MaxObjectNumber + 1)
        /\ \A n \in src.everUsed : n \in Num /\ n < nextFree
        /\ \A sec \in Readable(src.file) : sec.size <= nextFree
    BY FreeAbove
  <1>5. new.size \in 0..(MaxObjectNumber + 1) /\ MaxObjectNumber \in Nat
    BY <1>3, BoundsAssumption DEF SectionOK
  <1> HIDE DEF new
  <1>6. FileOK(f) /\ Newest(f) = new /\ f.cut < Len(f.secs)
    <2>1. /\ FileOK(f) /\ Newest(f) = new /\ f.cut = src.file.cut
          /\ Len(f.secs) = Len(src.file.secs) + 1
      BY <1>1, <1>2, <1>3, ExtendedSections
    <2>2. Len(src.file.secs) \in Nat /\ src.file.cut \in 0..Len(src.file.secs)
      BY <1>2, Sections
    <2> QED BY <2>1, <2>2
  <1>7. ASSUME NEW n \in EverUsed(f) PROVE n < new.size
    <2>1. n \in EverUsed(src.file) \/ n \in Mentions(new)
      BY <1>1, <1>2, <1>3, ExtendedUses
    <2>2. CASE n \in EverUsed(src.file)
      <3>1. n \in Nat /\ n < nextFree
        BY <1>2, <1>4, <2>2 DEF Num
      <3> QED BY <1>3, <1>4, <1>5, <3>1
    <2> QED BY <1>3, <2>1, <2>2
  <1>8. ASSUME NEW sec \in Readable(f) PROVE sec.size <= new.size
    <2>1. sec \in Readable(src.file) \/ sec = new
      BY <1>1, <1>2, <1>3, ExtendedReadable
    <2>2. CASE sec \in Readable(src.file)
      <3>1. sec.size \in 0..(MaxObjectNumber + 1) /\ sec.size <= nextFree
        BY <1>2, <1>4, <2>2, ReadableOnes DEF SectionOK
      <3> QED BY <1>3, <1>4, <1>5, <3>1
    <2> QED BY <1>5, <2>1, <2>2
  <1>9. Counted(f)
    <2>1. new \in Readable(f)
      BY <1>1, <1>2, <1>3, ExtendedReadable
    <2> QED BY <1>7, <2>1 DEF Counted
  <1> QED BY <1>6, <1>7, <1>8, <1>9

\* What a table leads to, in one place.
LEMMA LoadedMeans ==
    ASSUME NEW t
    PROVE  /\ \A n : n \in DOMAIN Loaded(t) <=>
                    n \in DOMAIN t /\ \/ t[n].kind = "object"
                                      \/ t[n].kind = "packed" /\ Supplied(t, n)
           /\ \A n \in DOMAIN Loaded(t) :
                Loaded(t)[n] = IF t[n].kind = "object" THEN t[n]
                               ELSE Obj(0, t[t[n].in].holds[n])
           /\ Loaded(t) = [n \in DOMAIN Loaded(t) |-> Loaded(t)[n]]
  BY DEF Loaded

\* An object shown is at a number the file uses, and an object.
LEMMA ShownIsUsed ==
    ASSUME NEW f, FileOK(f), NEW n \in DOMAIN Shown(f)
    PROVE  n \in EverUsed(f) /\ n \in Num /\ Shown(f)[n] \in Object
  <1> DEFINE t == Merged(f)
  <1>1. /\ n \in DOMAIN t
        /\ t[n].kind = "object" \/ (t[n].kind = "packed" /\ Supplied(t, n))
        /\ Shown(f)[n] = IF t[n].kind = "object" THEN t[n]
                         ELSE Obj(0, t[t[n].in].holds[n])
    <2>1. Shown(f) = Loaded(t)
      BY DEF Shown
    <2> HIDE DEF t
    <2> QED BY <2>1, LoadedMeans
  <1>2. n \in Num /\ IsPiece(t[n])
    BY <1>1, EntryInForce
  <1>3. PICK i \in (f.cut + 1)..Len(f.secs) : n \in DOMAIN f.secs[i].entries
    BY <1>1, EntryInForce
  <1>4. n \in EverUsed(f)
    <2>1. i \in 1..Len(f.secs) /\ UsedBy(f.secs[i], n)
      BY <1>3, Sections DEF UsedBy, Mentions
    <2> QED BY <2>1, UsedMeans
  <1>5. CASE t[n].kind = "object"
    <2>1. t[n] \in Object
      BY <1>2, <1>5 DEF IsPiece, XRefStream
    <2> QED BY <1>1, <1>2, <1>4, <1>5, <2>1
  <1>6. CASE t[n].kind # "object"
    <2>1. /\ t[n].in \in DOMAIN t /\ t[t[n].in].kind = "objstm"
          /\ n \in DOMAIN t[t[n].in].holds
      BY <1>1, <1>6 DEF Supplied, Opens
    <2>2. IsPiece(t[t[n].in])
      BY <2>1, EntryInForce
    <2>3. t[t[n].in].holds[n] \in Plain
      BY <2>1, <2>2 DEF IsPiece, Object, XRefStream
    <2>4. Obj(0, t[t[n].in].holds[n]) \in Object
      BY <2>3, BoundsAssumption DEF Obj, Object, Gens, Values
    <2> QED BY <1>1, <1>2, <1>4, <1>6, <2>4
  <1> QED BY <1>5, <1>6

\* The objects an updated file shows: those listed are the document's, the
\* others stay as they were.
LEMMA UpdatedShows ==
    ASSUME SourceOK, NEW d, NEW k, Holds(d, k), XRefNumberLeft(d),
           NEW changed \in SUBSET Num, MayChange(changed)
    PROVE  Shown(Updated(d, changed)) = Store!Override(src.objects, changed, d.objs)
  <1> DEFINE new == UpdateSection(d, changed)
             e == Extended(src.file, new)
             t == Merged(src.file)
             u == Merged(e)
             over == Store!Override(src.objects, changed, d.objs)
  <1>1. Updated(d, changed) = e
    BY DEF Updated, Extended
  <1>2. /\ FileOK(src.file) /\ src.everUsed = EverUsed(src.file)
        /\ src.objects = Shown(src.file) /\ src.merged = t
        /\ PackedIn(t) \subseteq src.containers
    BY SourceOf DEF SourceOK
  <1>3. /\ SectionOK(new) /\ Mentions(new) = changed \union Own(new)
        /\ DOMAIN new.entries = (changed \intersect DOMAIN d.objs) \union Own(new)
        /\ \A n \in changed \intersect DOMAIN d.objs : new.entries[n] = d.objs[n]
        /\ \A n \in Own(new) : /\ new.entries[n] = XRefStream
                               /\ n \notin DOMAIN d.objs /\ n \notin src.everUsed
    BY UpdateShape
  <1> HIDE DEF new
  <1>4. \A n : n \in Mentions(new) =>
               /\ n \in DOMAIN u <=> n \in DOMAIN new.entries
               /\ n \in DOMAIN new.entries => u[n] = new.entries[n]
    BY <1>2, <1>3, ExtendedMerge
  <1>5. \A n : n \notin Mentions(new) =>
               /\ n \in DOMAIN u <=> n \in DOMAIN t
               /\ n \in DOMAIN t => u[n] = t[n]
    BY <1>2, <1>3, ExtendedMerge
  <1>6. FileOK(e)
    BY <1>2, <1>3, ExtendedSections
  <1> HIDE DEF e, u, t
  <1>7. /\ \A n : n \in DOMAIN Loaded(u) <=>
                 n \in DOMAIN u /\ \/ u[n].kind = "object"
                                   \/ u[n].kind = "packed" /\ Supplied(u, n)
        /\ \A n \in DOMAIN Loaded(u) :
             Loaded(u)[n] = IF u[n].kind = "object" THEN u[n]
                            ELSE Obj(0, u[u[n].in].holds[n])
    BY LoadedMeans
  <1>8. /\ \A n : n \in DOMAIN Loaded(t) <=>
                 n \in DOMAIN t /\ \/ t[n].kind = "object"
                                   \/ t[n].kind = "packed" /\ Supplied(t, n)
        /\ \A n \in DOMAIN Loaded(t) :
             Loaded(t)[n] = IF t[n].kind = "object" THEN t[n]
                            ELSE Obj(0, t[t[n].in].holds[n])
    BY LoadedMeans
  <1>9. src.objects = Loaded(t)
    BY <1>2 DEF Shown, t
  <1>10. ASSUME NEW n \in changed
         PROVE  /\ n \in DOMAIN Loaded(u) <=> n \in DOMAIN d.objs
                /\ n \in DOMAIN d.objs => Loaded(u)[n] = d.objs[n]
    <2>1. n \in Mentions(new)
      BY <1>3
    <2>2. CASE n \in DOMAIN d.objs
      <3>1. n \in DOMAIN u /\ u[n] = d.objs[n] /\ u[n].kind = "object"
        BY <1>3, <1>4, <2>1, <2>2 DEF Holds, Object
      <3> QED BY <1>7, <2>2, <3>1
    <2>3. CASE n \notin DOMAIN d.objs
      <3>1. n \in DOMAIN u => u[n] = XRefStream
        BY <1>3, <1>4, <2>1, <2>3
      <3>2. n \notin DOMAIN Loaded(u)
        BY <1>7, <3>1 DEF XRefStream
      <3> QED BY <2>3, <3>2
    <2> QED BY <2>2, <2>3
  <1>11. ASSUME NEW n, n \notin changed
         PROVE  /\ n \in DOMAIN Loaded(u) <=> n \in DOMAIN Loaded(t)
                /\ n \in DOMAIN Loaded(t) => Loaded(u)[n] = Loaded(t)[n]
    <2>1. CASE n \in Own(new)
      <3>1. n \in DOMAIN u /\ u[n] = XRefStream /\ n \notin src.everUsed
        BY <1>3, <1>4, <2>1
      <3>2. n \notin DOMAIN Loaded(u)
        BY <1>7, <3>1 DEF XRefStream
      <3>3. n \notin DOMAIN Loaded(t)
        <4> SUFFICES ASSUME n \in DOMAIN Loaded(t) PROVE FALSE
          OBVIOUS
        <4>1. n \in DOMAIN Shown(src.file)
          BY <1>2, <1>9
        <4>2. n \in EverUsed(src.file)
          BY <1>2, <4>1, ShownIsUsed
        <4> QED BY <1>2, <3>1, <4>2
      <3> QED BY <3>2, <3>3
    <2>2. CASE n \notin Own(new) /\ n \in DOMAIN t
      <3>1. n \in DOMAIN u /\ u[n] = t[n]
        BY <1>3, <1>5, <1>11, <2>2
      <3>2. CASE t[n].kind # "packed"
        BY <1>7, <1>8, <3>1, <3>2, <2>2
      <3>3. CASE t[n].kind = "packed"
        <4> DEFINE c == t[n].in
        <4>1. c \in PackedIn(t)
          BY <2>2, <3>3 DEF PackedIn
        <4>2. c \notin changed
          BY <1>2, <4>1 DEF MayChange
        <4>3. c \in src.everUsed
          <5>1. PICK i \in (src.file.cut + 1)..Len(src.file.secs) :
                  /\ n \in DOMAIN src.file.secs[i].entries
                  /\ t[n] = src.file.secs[i].entries[n]
            BY <1>2, <2>2, EntryInForce DEF t
          <5>2. i \in 1..Len(src.file.secs) /\ UsedBy(src.file.secs[i], c)
            BY <1>2, <3>3, <5>1, Sections DEF UsedBy
          <5> QED BY <1>2, <5>2, UsedMeans
        <4>4. c \notin Mentions(new)
          BY <1>3, <4>2, <4>3
        <4> HIDE DEF c
        <4>5. (c \in DOMAIN u <=> c \in DOMAIN t) /\ (c \in DOMAIN t => u[c] = t[c])
          BY <1>5, <4>4
        <4>6. t[n].in = c /\ u[n].in = c
          BY <3>1 DEF c
        <4>7. Supplied(u, n) <=> Supplied(t, n)
          BY <4>5, <4>6 DEF Supplied, Opens
        <4>8. Supplied(t, n) => u[c] = t[c]
          BY <4>5, <4>6 DEF Supplied, Opens
        <4> QED BY <1>7, <1>8, <2>2, <3>1, <3>3, <4>6, <4>7, <4>8
      <3> QED BY <3>2, <3>3
    <2>3. CASE n \notin Own(new) /\ n \notin DOMAIN t
      <3>1. n \notin DOMAIN u
        BY <1>3, <1>5, <1>11, <2>3
      <3> QED BY <1>7, <1>8, <2>3, <3>1
    <2> QED BY <2>1, <2>2, <2>3
  <1>12. /\ \A n : n \in DOMAIN over <=> IF n \in changed THEN n \in DOMAIN d.objs
                                         ELSE n \in DOMAIN Loaded(t)
         /\ \A n \in DOMAIN over : over[n] = IF n \in changed THEN d.objs[n]
                                            ELSE Loaded(t)[n]
         /\ over = [n \in DOMAIN over |-> over[n]]
    BY <1>9 DEF Store!Override
  <1> HIDE DEF over
  <1>13. \A n : n \in DOMAIN Loaded(u) <=> n \in DOMAIN over
    BY <1>10, <1>11, <1>12
  <1>14. \A n \in DOMAIN over : Loaded(u)[n] = over[n]
    BY <1>10, <1>11, <1>12
  <1>15. Loaded(u) = [n \in DOMAIN Loaded(u) |-> Loaded(u)[n]]
    BY LoadedMeans
  <1>16. Loaded(u) = over
    <2>1. DOMAIN Loaded(u) = DOMAIN over
      BY <1>13
    <2> QED BY <1>12, <1>14, <1>15, <2>1
  <1>17. Shown(e) = Loaded(u)
    BY DEF Shown, u
  <1> QED BY <1>1, <1>16, <1>17 DEF over

-----------------------------------------------------------------------------
(* The section a full write makes.                                         *)

\* The objects of a document are at numbers a program can choose.
IsGraph(objs) == /\ DOMAIN objs \subseteq Num
                 /\ objs = [n \in DOMAIN objs |-> objs[n]]
                 /\ \A n \in DOMAIN objs : objs[n] \in Object

\* The highest number of a graph is above every one it has.
LEMMA HighestIs ==
    ASSUME NEW objs, NEW k \in Nat, DOMAIN objs \subseteq 1..k
    PROVE  /\ MaxObj(objs) \in 0..k /\ MaxObj(objs) \in DOMAIN objs \union {0}
           /\ \A n \in DOMAIN objs : n <= MaxObj(objs)
  <1>1. DOMAIN objs \in SUBSET Nat /\ \A n \in DOMAIN objs : n <= k
    OBVIOUS
  <1> QED BY <1>1, TopOrZero DEF MaxObj

\* Containers are numbered past every object.
LEMMA ContainerPast ==
    ASSUME NEW d, IsGraph(d.objs), NEW n
    PROVE  /\ ContainerOf(d, n) \in 1..(2 * MaxObjectNumber + 5)
           /\ \A m \in DOMAIN d.objs : m < ContainerOf(d, n)
  <1>1. MaxObjectNumber \in Nat /\ MaxObjectNumber + 2 \in Nat /\ ChunkSize \in Nat \ {0}
    BY BoundsAssumption
  <1>2. DOMAIN d.objs \subseteq 1..(MaxObjectNumber + 2)
    BY DEF IsGraph, Num
  <1>3. /\ MaxObj(d.objs) \in 0..(MaxObjectNumber + 2)
        /\ \A m \in DOMAIN d.objs : m <= MaxObj(d.objs) /\ m \in Nat
    BY <1>1, <1>2, HighestIs
  <1> DEFINE P == {m \in Packable(d) : m < n}
  <1>4. Cardinality(P) \in 0..(MaxObjectNumber + 2)
    <2>1. P \subseteq 1..(MaxObjectNumber + 2)
      BY <1>2 DEF Packable
    <2>2. IsFiniteSet(1..(MaxObjectNumber + 2)) /\ Cardinality(1..(MaxObjectNumber + 2)) = MaxObjectNumber + 2
      BY <1>1, FS_Interval
    <2> HIDE DEF P
    <2>3. /\ IsFiniteSet(P) /\ Cardinality(P) <= Cardinality(1..(MaxObjectNumber + 2))
      BY <2>1, <2>2, FS_Subset
    <2>4. Cardinality(P) \in Nat
      BY <2>3, FS_CardinalityType
    <2> QED BY <1>1, <2>2, <2>3, <2>4
  <1>5. ContainerOf(d, n) = MaxObj(d.objs) + 1 + (Cardinality(P) \div ChunkSize)
    BY DEF ContainerOf
  <1> HIDE DEF P
  <1>6. Cardinality(P) \div ChunkSize \in 0..(MaxObjectNumber + 2)
    <2> DEFINE x == Cardinality(P)
    <2>1. x \in Nat /\ x <= MaxObjectNumber + 2
      BY <1>1, <1>4
    <2> HIDE DEF x
    <2>2. x \div ChunkSize \in Nat /\ x \div ChunkSize <= x
      BY <1>1, <2>1
    <2> QED BY <1>1, <2>1, <2>2 DEF x
  <1> DEFINE q == Cardinality(P) \div ChunkSize
  <1>7. q \in 0..(MaxObjectNumber + 2) /\ ContainerOf(d, n) = MaxObj(d.objs) + 1 + q
    BY <1>5, <1>6
  <1> HIDE DEF q
  <1> QED BY <1>1, <1>3, <1>7

\* What the entries of a full write lead to.
LEMMA EntriesWritten ==
    ASSUME NEW d, IsGraph(d.objs)
    PROVE  LET body == WriteEntries(d)
               packed == IF Packs(d) THEN Packable(d) ELSE {}
           IN  /\ body = [n \in DOMAIN body |-> body[n]]
               /\ DOMAIN body \subseteq 1..(2 * MaxObjectNumber + 5)
               /\ packed \subseteq DOMAIN d.objs
               /\ \A n \in packed : d.objs[n].gen = 0 /\ d.objs[n].val \in Plain
               /\ DOMAIN d.objs \subseteq DOMAIN body
               /\ \A n \in packed :
                    /\ body[n] = Packed(ContainerOf(d, n))
                    /\ ContainerOf(d, n) \in DOMAIN body \ DOMAIN d.objs
               /\ \A n \in DOMAIN d.objs \ packed : body[n] = d.objs[n]
               /\ \A c \in DOMAIN body \ DOMAIN d.objs :
                    body[c] = Container([n \in {m \in packed : ContainerOf(d, m) = c} |->
                                          d.objs[n].val])
  <1> DEFINE body == WriteEntries(d)
             packed == IF Packs(d) THEN Packable(d) ELSE {}
             cs == {ContainerOf(d, n) : n \in packed}
             holds(c) == [n \in {m \in packed : ContainerOf(d, m) = c} |-> d.objs[n].val]
  <1>1. body = [n \in DOMAIN d.objs \union cs |->
                 CASE n \in packed -> Packed(ContainerOf(d, n))
                   [] n \in cs -> Container(holds(n))
                   [] OTHER -> d.objs[n]]
    BY DEF WriteEntries
  <1>2. packed \subseteq DOMAIN d.objs
    BY DEF Packable
  <1>3. \A n \in packed : d.objs[n].gen = 0 /\ d.objs[n].val \in Plain
    BY DEF Packable
  <1>4. \A n \in packed : ContainerOf(d, n) \in cs
    OBVIOUS
  <1>5. cs \subseteq 1..(2 * MaxObjectNumber + 5) /\ \A c \in cs : c \notin DOMAIN d.objs
    <2> SUFFICES ASSUME NEW n \in packed
                 PROVE  /\ ContainerOf(d, n) \in 1..(2 * MaxObjectNumber + 5)
                        /\ ContainerOf(d, n) \notin DOMAIN d.objs
      OBVIOUS
    <2>1. /\ ContainerOf(d, n) \in 1..(2 * MaxObjectNumber + 5)
          /\ \A m \in DOMAIN d.objs : m < ContainerOf(d, n)
      BY ContainerPast
    <2> QED BY <2>1
  <1>6. DOMAIN d.objs \subseteq 1..(2 * MaxObjectNumber + 5)
    BY BoundsAssumption DEF IsGraph, Num
  <1> HIDE DEF packed, cs, body
  <1>7. DOMAIN body = DOMAIN d.objs \union cs /\ body = [n \in DOMAIN body |-> body[n]]
    BY <1>1
  <1>8. \A n \in packed : body[n] = Packed(ContainerOf(d, n))
    <2> TAKE n \in packed
    <2>1. n \in DOMAIN d.objs \union cs /\ n \notin cs
      BY <1>2, <1>5
    <2> HIDE DEF holds
    <2> QED BY <1>1, <2>1
  <1>9. \A n \in DOMAIN d.objs \ packed : body[n] = d.objs[n]
    BY <1>1, <1>5
  <1>10. \A c \in DOMAIN body \ DOMAIN d.objs : body[c] = Container(holds(c))
    <2> TAKE c \in DOMAIN body \ DOMAIN d.objs
    <2>1. c \in cs /\ c \notin packed
      BY <1>2, <1>7
    <2> HIDE DEF holds
    <2> QED BY <1>1, <2>1
  <1>11. \A n \in packed : ContainerOf(d, n) \in DOMAIN body \ DOMAIN d.objs
    BY <1>4, <1>5, <1>7
  <1>12. DOMAIN body \subseteq 1..(2 * MaxObjectNumber + 5) /\ DOMAIN d.objs \subseteq DOMAIN body
    BY <1>5, <1>6, <1>7
  <1> QED BY <1>2, <1>3, <1>7, <1>8, <1>9, <1>10, <1>11, <1>12 DEF body, packed

\* The section lists what is written and its own stream, below its /Size.
LEMMA WrittenShape ==
    ASSUME NEW d, IsGraph(d.objs), d.stream \in BOOLEAN,
           NEW sec, sec = WriteSection(d),
           NEW body, body = WriteEntries(d)
    PROVE  /\ sec = Section(sec.form, sec.entries, sec.free, sec.own, sec.size)
           /\ IsMap(sec.entries) /\ DOMAIN sec.entries = DOMAIN body \union Own(sec)
           /\ sec.free = << >> /\ DOMAIN sec.free = {}
           /\ \A n \in DOMAIN body : sec.entries[n] = body[n]
           /\ \A n \in Own(sec) : n \notin DOMAIN body /\ sec.entries[n] = XRefStream
           /\ Mentions(sec) = DOMAIN sec.entries
           /\ sec.own \in Nat /\ sec.size \in Nat
           /\ \A n \in Mentions(sec) : n >= 1 /\ n \in Nat /\ n < sec.size
           /\ \E n \in Mentions(sec) \union {0} : sec.size = n + 1
  <1> DEFINE top == MaxObj(body)
             own == IF d.stream THEN top + 1 ELSE 0
             form == IF d.stream THEN "stream" ELSE "table"
             entries == IF d.stream THEN Put(body, own, XRefStream) ELSE body
             size == top + (IF d.stream THEN 2 ELSE 1)
  <1>1. sec = [form |-> form, entries |-> entries, free |-> << >>, own |-> own, size |-> size]
    BY DEF WriteSection, Section
  <1>2. /\ sec.form = form /\ sec.entries = entries /\ sec.free = << >>
        /\ sec.own = own /\ sec.size = size
    <2> HIDE DEF form, entries, own, size
    <2> QED BY <1>1
  <1>3. DOMAIN body \subseteq 1..(2 * MaxObjectNumber + 5) /\ body = [n \in DOMAIN body |-> body[n]]
    BY EntriesWritten
  <1>4. 2 * MaxObjectNumber + 5 \in Nat
    BY BoundsAssumption
  <1>5. /\ top \in Nat /\ top \in DOMAIN body \union {0}
        /\ \A n \in DOMAIN body : n <= top /\ n \in Nat /\ n >= 1
    <2> DEFINE k == 2 * MaxObjectNumber + 5
    <2>1. k \in Nat /\ DOMAIN body \subseteq 1..k
      BY <1>3, <1>4
    <2> HIDE DEF k
    <2>2. /\ top \in 0..k /\ top \in DOMAIN body \union {0}
          /\ \A n \in DOMAIN body : n <= top
      BY <2>1, HighestIs
    <2> QED BY <2>1, <2>2
  <1> HIDE DEF top
  <1>6. Own(sec) = IF d.stream THEN {own} ELSE {}
    BY <1>2, <1>5 DEF Own
  <1>7. d.stream => own = top + 1 /\ own \notin DOMAIN body
    BY <1>5
  <1>8. DOMAIN sec.entries = DOMAIN body \union Own(sec)
    BY <1>2, <1>6 DEF Put
  <1>9. IsMap(sec.entries)
    BY <1>2, <1>3 DEF IsMap, Put
  <1>10. DOMAIN sec.free = {}
    BY <1>2
  <1>11. Mentions(sec) = DOMAIN sec.entries
    BY <1>10 DEF Mentions
  <1>12. \A n \in DOMAIN body : sec.entries[n] = body[n]
    BY <1>2, <1>7 DEF Put
  <1>13. \A n \in Own(sec) : n \notin DOMAIN body /\ sec.entries[n] = XRefStream
    BY <1>2, <1>6, <1>7 DEF Put
  <1>14. \A n \in Mentions(sec) : n >= 1 /\ n \in Nat /\ n < sec.size
    BY <1>2, <1>5, <1>6, <1>7, <1>8, <1>11
  <1>15. \E n \in Mentions(sec) \union {0} : sec.size = n + 1
    <2>1. CASE d.stream
      BY <1>2, <1>5, <1>6, <1>7, <1>8, <1>11, <2>1
    <2>2. CASE ~d.stream
      BY <1>2, <1>5, <1>6, <1>8, <1>11, <2>2
    <2> QED BY <2>1, <2>2
  <1>16. sec = Section(sec.form, sec.entries, sec.free, sec.own, sec.size)
    <2> HIDE DEF form, entries, own, size
    <2> QED BY <1>1, <1>2 DEF Section
  <1>17. sec.own \in Nat /\ sec.size \in Nat
    BY <1>2, <1>5
  <1> QED BY <1>2, <1>8, <1>9, <1>10, <1>11, <1>12, <1>13, <1>14, <1>15, <1>16, <1>17

LEMMA WrittenSection ==
    ASSUME NEW d, IsGraph(d.objs), d.stream \in BOOLEAN,
           NEW sec, sec = WriteSection(d), Writable(sec)
    PROVE  /\ SectionOK(sec)
           /\ \A n : UsedBy(sec, n) => n < sec.size
           /\ Loaded(sec.entries) = d.objs
           /\ DOMAIN sec.free = {}
  <1> DEFINE body == WriteEntries(d)
             packed == IF Packs(d) THEN Packable(d) ELSE {}
             t == sec.entries
             holds(c) == [n \in {m \in packed : ContainerOf(d, m) = c} |-> d.objs[n].val]
  <1>1. /\ packed \subseteq DOMAIN d.objs
        /\ \A n \in packed : d.objs[n].gen = 0 /\ d.objs[n].val \in Plain
        /\ DOMAIN d.objs \subseteq DOMAIN body
        /\ \A n \in packed : /\ body[n] = Packed(ContainerOf(d, n))
                            /\ ContainerOf(d, n) \in DOMAIN body \ DOMAIN d.objs
        /\ \A n \in DOMAIN d.objs \ packed : body[n] = d.objs[n]
        /\ \A c \in DOMAIN body \ DOMAIN d.objs : body[c] = Container(holds(c))
    BY EntriesWritten
  <1>2. /\ sec = Section(sec.form, t, sec.free, sec.own, sec.size)
        /\ IsMap(t) /\ DOMAIN t = DOMAIN body \union Own(sec)
        /\ sec.free = << >> /\ DOMAIN sec.free = {}
        /\ \A n \in DOMAIN body : t[n] = body[n]
        /\ \A n \in Own(sec) : n \notin DOMAIN body /\ t[n] = XRefStream
        /\ Mentions(sec) = DOMAIN t
        /\ sec.own \in Nat /\ sec.size \in Nat
        /\ \A n \in Mentions(sec) : n >= 1 /\ n \in Nat /\ n < sec.size
        /\ \E n \in Mentions(sec) \union {0} : sec.size = n + 1
    BY WrittenShape
  <1> HIDE DEF body, packed, t
  <1>3. \A c : /\ DOMAIN holds(c) = {m \in packed : ContainerOf(d, m) = c}
               /\ \A m \in DOMAIN holds(c) : holds(c)[m] = d.objs[m].val
    OBVIOUS
  <1> HIDE DEF holds
  <1>4. MaxObjectNumber \in Nat /\ \A n \in DOMAIN t : n \in Num /\ n <= MaxObjectNumber
    BY <1>2, BoundsAssumption DEF Writable, Num
  <1>5. ASSUME NEW n \in DOMAIN t
        PROVE  \/ n \in packed /\ t[n] = Packed(ContainerOf(d, n))
               \/ n \in DOMAIN d.objs \ packed /\ t[n] = d.objs[n] /\ t[n] \in Object
               \/ n \in DOMAIN body \ DOMAIN d.objs /\ t[n] = Container(holds(n))
               \/ n \in Own(sec) /\ t[n] = XRefStream
    BY <1>1, <1>2 DEF IsGraph
  <1>6. ASSUME NEW n \in packed
        PROVE  /\ ContainerOf(d, n) \in DOMAIN t /\ n \in DOMAIN t
               /\ t[ContainerOf(d, n)] = Container(holds(ContainerOf(d, n)))
    BY <1>1, <1>2
  <1>7. ASSUME NEW n \in DOMAIN t PROVE IsPiece(t[n])
    <2>1. CASE n \in packed /\ t[n] = Packed(ContainerOf(d, n))
      <3>1. ContainerOf(d, n) \in Num
        BY <1>4, <1>6, <2>1
      <3> QED BY <2>1, <3>1 DEF IsPiece, Packed
    <2>2. CASE t[n] \in Object
      BY <2>2 DEF IsPiece
    <2>3. CASE t[n] = Container(holds(n))
      <3>1. t[n].kind = "objstm" /\ t[n].holds = holds(n) /\ t[n] = Container(t[n].holds)
        BY <2>3 DEF Container
      <3>2. \A m \in DOMAIN holds(n) : m \in packed
        BY <1>3
      <3>3. DOMAIN holds(n) \subseteq Num
        BY <1>1, <3>2 DEF IsGraph
      <3>4. \A m \in DOMAIN holds(n) : holds(n)[m] \in Plain
        BY <1>1, <1>3, <3>2
      <3> QED BY <3>1, <3>3, <3>4 DEF IsPiece
    <2>4. CASE t[n] = XRefStream
      BY <2>4 DEF IsPiece
    <2> QED BY <1>5, <2>1, <2>2, <2>3, <2>4
  <1>8. sec.size \in 0..(MaxObjectNumber + 1)
    <2>1. PICK n \in Mentions(sec) \union {0} : sec.size = n + 1
      BY <1>2
    <2> QED BY <1>2, <1>4, <2>1
  <1>9. Own(sec) \subseteq DOMAIN t /\ sec.own \in Num \union {0}
    BY <1>2, <1>4 DEF Own
  <1>10. SectionOK(sec)
    <2>1. sec.free \in [DOMAIN sec.free -> Gens]
      BY <1>2
    <2> QED BY <1>2, <1>4, <1>7, <1>8, <1>9, <2>1 DEF SectionOK, t
  <1>11. ASSUME NEW n, UsedBy(sec, n) PROVE n \in DOMAIN t
    <2>1. CASE n \in Mentions(sec) \union Own(sec)
      BY <1>2, <1>9, <2>1
    <2>2. ASSUME NEW m \in DOMAIN t, t[m].kind = "packed", n = t[m].in
          PROVE  n \in DOMAIN t
      <3>1. m \in packed /\ t[m] = Packed(ContainerOf(d, m))
        BY <1>5, <2>2 DEF Object, Container, XRefStream
      <3> QED BY <1>6, <2>2, <3>1 DEF Packed
    <2>3. ASSUME NEW c \in DOMAIN t, t[c].kind = "objstm", n \in DOMAIN t[c].holds
          PROVE  n \in DOMAIN t
      <3>1. t[c] = Container(holds(c))
        BY <1>5, <2>3 DEF Object, Packed, XRefStream
      <3>2. t[c].holds = holds(c)
        BY <3>1 DEF Container
      <3>3. n \in DOMAIN holds(c)
        BY <2>3, <3>2
      <3>4. n \in packed
        BY <1>3, <3>3
      <3> QED BY <1>6, <3>4
    <2> QED BY <1>11, <2>1, <2>2, <2>3 DEF UsedBy, t
  <1>12. Loaded(t) = d.objs
    <2> DEFINE l == Loaded(t)
    <2>1. /\ \A n : n \in DOMAIN l <=>
                    n \in DOMAIN t /\ \/ t[n].kind = "object"
                                      \/ t[n].kind = "packed" /\ Supplied(t, n)
          /\ \A n \in DOMAIN l : l[n] = IF t[n].kind = "object" THEN t[n]
                                       ELSE Obj(0, t[t[n].in].holds[n])
          /\ l = [n \in DOMAIN l |-> l[n]]
      BY LoadedMeans
    <2> HIDE DEF l
    <2>2. ASSUME NEW n \in packed
          PROVE  n \in DOMAIN l /\ l[n] = d.objs[n]
      <3> DEFINE c == ContainerOf(d, n)
      <3>1. n \in DOMAIN t /\ t[n].kind = "packed" /\ t[n].in = c
        <4>1. n \in DOMAIN t /\ t[n] = Packed(c)
          BY <1>1, <1>2
        <4> QED BY <4>1 DEF Packed
      <3>2. c \in DOMAIN t /\ t[c].kind = "objstm" /\ t[c].holds = holds(c)
        <4>1. c \in DOMAIN t /\ t[c] = Container(holds(c))
          BY <1>6
        <4> QED BY <4>1 DEF Container
      <3>3. n \in DOMAIN holds(c) /\ holds(c)[n] = d.objs[n].val
        BY <1>3
      <3> HIDE DEF c
      <3>4. Supplied(t, n) /\ t[t[n].in].holds[n] = d.objs[n].val
        BY <3>1, <3>2, <3>3 DEF Supplied, Opens
      <3>5. n \in DOMAIN l /\ l[n] = Obj(0, d.objs[n].val)
        BY <2>1, <3>1, <3>4
      <3>6. d.objs[n] \in Object /\ d.objs[n].gen = 0
        BY <1>1 DEF IsGraph
      <3> QED BY <3>5, <3>6 DEF Obj, Object
    <2>3. ASSUME NEW n \in DOMAIN d.objs \ packed
          PROVE  n \in DOMAIN l /\ l[n] = d.objs[n]
      <3>1. n \in DOMAIN t /\ t[n] = d.objs[n] /\ t[n].kind = "object"
        BY <1>1, <1>2 DEF IsGraph, Object
      <3> QED BY <2>1, <3>1
    <2>4. ASSUME NEW n \in DOMAIN l PROVE n \in DOMAIN d.objs
      <3>1. n \in DOMAIN t /\ t[n].kind \in {"object", "packed"}
        BY <2>1
      <3> QED BY <1>1, <1>5, <3>1 DEF Container, XRefStream
    <2>5. DOMAIN l = DOMAIN d.objs
      BY <2>2, <2>3, <2>4
    <2>6. \A n \in DOMAIN l : l[n] = d.objs[n]
      BY <2>2, <2>3, <2>5
    <2>7. d.objs = [n \in DOMAIN d.objs |-> d.objs[n]]
      BY DEF IsGraph
    <2>8. l = d.objs
      BY <2>1, <2>5, <2>6, <2>7
    <2> QED BY <2>8 DEF l
  <1>13. \A n : UsedBy(sec, n) => n < sec.size
    BY <1>2, <1>11
  <1> QED BY <1>2, <1>10, <1>12, <1>13 DEF t

\* A file that holds one section shows what was written.
LEMMA WrittenFile ==
    ASSUME NEW d, IsGraph(d.objs), d.stream \in BOOLEAN,
           NEW sec, sec = WriteSection(d), Writable(sec),
           NEW f, f = File(<<sec>>, 0)
    PROVE  /\ FileOK(f) /\ f.cut < Len(f.secs) /\ Counted(f)
           /\ \A n \in EverUsed(f) : n < Newest(f).size
           /\ \A s \in Readable(f) : s.size <= Newest(f).size
           /\ Shown(f) = d.objs
  <1>1. /\ SectionOK(sec)
        /\ \A n : UsedBy(sec, n) => n < sec.size
        /\ Loaded(sec.entries) = d.objs
        /\ DOMAIN sec.free = {}
    BY WrittenSection
  <1>2. /\ f.secs = <<sec>> /\ f.cut = 0 /\ f = File(f.secs, f.cut)
        /\ Len(f.secs) = 1 /\ f.secs[1] = sec
        /\ f.secs = [i \in 1..Len(f.secs) |-> f.secs[i]]
    <2> DEFINE q == <<sec>>
    <2>1. Len(q) = 1 /\ q[1] = sec /\ q = [i \in 1..Len(q) |-> q[i]]
      OBVIOUS
    <2> HIDE DEF q
    <2>2. f.secs = q /\ f.cut = 0
      BY DEF File, q
    <2>3. f = File(f.secs, f.cut)
      BY <2>2 DEF q
    <2> QED BY <2>1, <2>2, <2>3 DEF q
  <1>3. 1 \in 1..Len(f.secs) /\ \A i \in 1..Len(f.secs) : i = 1
    BY <1>2
  <1>4. FileOK(f)
    <2>1. \A i \in 1..Len(f.secs) : SectionOK(f.secs[i])
      BY <1>1, <1>2, <1>3
    <2>2. Len(f.secs) \in Nat /\ f.cut \in 0..Len(f.secs)
      BY <1>2
    <2> QED BY <1>2, <2>1, <2>2 DEF FileOK
  <1>5. Newest(f) = sec /\ f.cut < Len(f.secs)
    BY <1>2 DEF Newest
  <1>6. (f.cut + 1)..Len(f.secs) = {1}
    BY <1>2
  <1>7. Readable(f) = {sec}
    BY <1>2, <1>6 DEF Readable
  <1>8. \A n \in EverUsed(f) : n < sec.size
    BY <1>1, <1>2, <1>3, <1>4, UsedMeans
  <1>9. sec.size \in Nat
    BY <1>1 DEF SectionOK
  <1>10. \A s \in Readable(f) : s.size <= sec.size
    BY <1>7, <1>9
  <1>11. Counted(f)
    BY <1>7, <1>8 DEF Counted
  <1>12. Merged(f) = sec.entries
    <2>1. ASSUME NEW n
          PROVE  /\ n \in DOMAIN Merged(f) <=> n \in DOMAIN sec.entries
                 /\ n \in DOMAIN sec.entries => Merged(f)[n] = sec.entries[n]
      <3>1. Mentioning(f, n) = IF n \in DOMAIN sec.entries THEN {1} ELSE {}
        BY <1>1, <1>2, <1>6 DEF Mentioning, Mentions
      <3>2. CASE n \in DOMAIN sec.entries
        <4>1. 1 \in Mentioning(f, n) /\ \A j \in Mentioning(f, n) : j <= 1
          BY <3>1, <3>2
        <4>2. /\ n \in DOMAIN Merged(f) <=> n \in DOMAIN f.secs[1].entries
              /\ n \in DOMAIN Merged(f) => Merged(f)[n] = f.secs[1].entries[n]
          BY <1>4, <4>1, MergedAt
        <4> QED BY <1>2, <3>2, <4>2
      <3>3. CASE n \notin DOMAIN sec.entries
        BY <1>4, <3>1, <3>3, MergedFrom
      <3> QED BY <3>2, <3>3
    <2>2. Merged(f) = [n \in DOMAIN Merged(f) |-> Merged(f)[n]]
      BY <1>4, MergedFrom
    <2>3. sec.entries = [n \in DOMAIN sec.entries |-> sec.entries[n]]
      BY <1>1 DEF SectionOK, IsMap
    <2>4. DOMAIN Merged(f) = DOMAIN sec.entries
      BY <2>1
    <2> QED BY <2>1, <2>2, <2>3, <2>4
  <1>13. Shown(f) = d.objs
    BY <1>1, <1>12 DEF Shown
  <1> QED BY <1>4, <1>5, <1>8, <1>10, <1>11, <1>13

-----------------------------------------------------------------------------
(* The document in memory.                                                 *)

Docs(o) == [objs : {o}, next : Nat, handed : SUBSET Nat, stream : BOOLEAN]

LEMMA TakenIs ==
    ASSUME NEW o, NEW d \in Docs(o), NEW n \in Nat
    PROVE  /\ Taken(d, n) \in Docs(o) /\ Taken(d, n).objs = o
           /\ Taken(d, n).next = n + 1 /\ Taken(d, n).stream = d.stream
  <1> DEFINE next == n + 1
             handed == d.handed \union {n}
  <1>1. next \in Nat /\ handed \in SUBSET Nat
    BY DEF Docs
  <1>2. Taken(d, n) = [d EXCEPT !.next = next, !.handed = handed]
    BY DEF Taken
  <1> HIDE DEF next, handed
  <1>3. /\ Taken(d, n) \in Docs(o) /\ Taken(d, n).objs = o
        /\ Taken(d, n).next = next /\ Taken(d, n).stream = d.stream
    BY <1>1, <1>2 DEF Docs
  <1> QED BY <1>3 DEF next

LEMMA TakenHands ==
    ASSUME NEW o, NEW d \in Docs(o), NEW n
    PROVE  Taken(d, n).handed = d.handed \union {n}
  <1>1. PICK next, handed : next = n + 1 /\ handed = d.handed \union {n}
    OBVIOUS
  <1>2. Taken(d, n) = [d EXCEPT !.next = next, !.handed = handed]
    BY <1>1 DEF Taken
  <1>3. Taken(d, n).handed = handed
    BY <1>2 DEF Docs
  <1> QED BY <1>1, <1>3

LEMMA WithObjects ==
    ASSUME NEW o, NEW d \in Docs(o), NEW x
    PROVE  /\ [d EXCEPT !.objs = x] \in Docs(x)
           /\ [d EXCEPT !.objs = x].objs = x
           /\ [d EXCEPT !.objs = x].next = d.next
           /\ [d EXCEPT !.objs = x].handed = d.handed
           /\ [d EXCEPT !.objs = x].stream = d.stream
  BY DEF Docs

\* One more object, under the number taken for it.
LEMMA AddedIs ==
    ASSUME NEW o, NEW d \in Docs(o), NEW v, NEW n \in Nat, n = allocObjNum(d)
    PROVE  /\ Added(d, v) \in Docs(Put(o, n, Obj(0, v)))
           /\ Added(d, v).objs = Put(o, n, Obj(0, v))
           /\ Added(d, v).next = n + 1 /\ Added(d, v).stream = d.stream
           /\ Added(d, v).handed = d.handed \union {n}
  <1>1. PICK t : t = Taken(d, n)
    OBVIOUS
  <1>2. /\ t \in Docs(o) /\ t.objs = o /\ t.next = n + 1 /\ t.stream = d.stream
        /\ t.handed = d.handed \union {n}
    <2>1. /\ Taken(d, n) \in Docs(o) /\ Taken(d, n).objs = o
          /\ Taken(d, n).next = n + 1 /\ Taken(d, n).stream = d.stream
      BY TakenIs
    <2>2. Taken(d, n).handed = d.handed \union {n}
      BY TakenHands
    <2> QED BY <1>1, <2>1, <2>2
  <1>3. Added(d, v) = [t EXCEPT !.objs = Put(t.objs, n, Obj(0, v))]
    BY <1>1 DEF Added
  <1>4. Added(d, v) = [t EXCEPT !.objs = Put(o, n, Obj(0, v))]
    BY <1>2, <1>3
  <1>5. PICK x : x = Put(o, n, Obj(0, v))
    OBVIOUS
  <1>6. PICK e : e = [t EXCEPT !.objs = x]
    OBVIOUS
  <1>7. /\ e \in Docs(x) /\ e.objs = x /\ e.next = t.next
        /\ e.handed = t.handed /\ e.stream = t.stream
    BY <1>2, <1>6, WithObjects
  <1> QED BY <1>2, <1>4, <1>5, <1>6, <1>7

\* What Put does.
LEMMA PutIs ==
    ASSUME NEW o, NEW n, NEW x
    PROVE  /\ DOMAIN Put(o, n, x) = DOMAIN o \union {n}
           /\ Put(o, n, x)[n] = x
           /\ \A m \in DOMAIN o : m # n => Put(o, n, x)[m] = o[m]
           /\ Put(o, n, x) = [m \in DOMAIN Put(o, n, x) |-> Put(o, n, x)[m]]
  BY DEF Put

\* What the invariant says of the document, as the lemmas above ask for it.
LEMMA DocumentIs ==
    ASSUME IInv
    PROVE  /\ SourceOK /\ Holds(doc, MaxObjectNumber + 2) /\ doc \in Docs(doc.objs) /\ IsGraph(doc.objs)
           /\ doc.stream \in BOOLEAN /\ MaxObjectNumber \in Nat /\ nextFree \in 1..(MaxObjectNumber + 1)
           /\ \A n \in doc.handed : n \in Nat /\ n < doc.next
           /\ \A n \in src.everUsed : n \in Num /\ n < nextFree
  <1>1. SourceOK
    BY DEF IInv, TypeOK, SourceOK
  <1>2. MaxObjectNumber \in Nat /\ Num = 1..(MaxObjectNumber + 2)
    BY BoundsAssumption DEF Num
  <1>3. nextFree \in 1..(MaxObjectNumber + 1) /\ \A n \in src.everUsed : n \in Num /\ n < nextFree
    BY <1>1, FreeAbove
  <1>4. /\ doc \in [objs : {doc.objs}, next : 0..(MaxObjectNumber + 3),
                   handed : SUBSET Num, stream : BOOLEAN]
        /\ DOMAIN doc.objs \subseteq Num
        /\ doc.objs \in [DOMAIN doc.objs -> Object]
        /\ doc.next # 0 => doc.next >= nextFree
        /\ \A n \in doc.handed : n < doc.next
    BY DEF IInv, TypeOK, DocOK
  <1>5. /\ doc.next \in 0..(MaxObjectNumber + 3) /\ doc.handed \subseteq Num /\ doc.stream \in BOOLEAN
        /\ \A n \in DOMAIN doc.objs : doc.objs[n] \in Object
        /\ doc.objs = [n \in DOMAIN doc.objs |-> doc.objs[n]]
    BY <1>4
  <1>6. doc \in Docs(doc.objs)
    <2>1. 0..(MaxObjectNumber + 3) \subseteq Nat /\ Num \subseteq Nat
      BY <1>2
    <2> QED BY <1>4, <2>1 DEF Docs
  <1>7. Holds(doc, MaxObjectNumber + 2)
    <2>1. /\ MaxObjectNumber + 2 \in (MaxObjectNumber + 2)..(MaxObjectNumber + 7)
          /\ (MaxObjectNumber + 2) + 1 = MaxObjectNumber + 3
      BY <1>2
    <2> QED BY <1>2, <1>4, <1>5, <2>1 DEF Holds
  <1>8. \A n \in doc.handed : n \in Nat
    BY <1>2, <1>5
  <1> QED BY <1>1, <1>2, <1>3, <1>4, <1>5, <1>6, <1>7, <1>8 DEF IsGraph

\* An object more leaves room for the next.
LEMMA AddStep ==
    ASSUME nextFree \in 1..(MaxObjectNumber + 1), NEW d,
           NEW k \in (MaxObjectNumber + 2)..(MaxObjectNumber + 6), Holds(d, k),
           d \in Docs(d.objs), NEW v \in Values,
           NEW e, e = Added(d, v), NEW n, n = allocObjNum(d)
    PROVE  /\ n \in 1..(k + 1) /\ n >= nextFree /\ n >= d.next /\ n \notin DOMAIN d.objs
           /\ e \in Docs(e.objs) /\ e.objs = Put(d.objs, n, Obj(0, v))
           /\ e.next = n + 1 /\ e.handed = d.handed \union {n} /\ e.stream = d.stream
           /\ Holds(e, k + 1)
  <1>1. MaxObjectNumber \in Nat /\ MaxGen \in Nat
    BY BoundsAssumption
  <1>2. n \in 1..(k + 1) /\ n >= nextFree /\ n >= d.next /\ n \notin DOMAIN d.objs
    <2>1. k \in (MaxObjectNumber + 2)..(MaxObjectNumber + 7)
      BY <1>1
    <2> QED BY <2>1, Allocates DEF Holds
  <1>3. n \in Nat /\ k \in Nat
    BY <1>1, <1>2
  <1>4. PICK o : o = d.objs
    OBVIOUS
  <1>5. /\ e \in Docs(Put(o, n, Obj(0, v))) /\ e.objs = Put(o, n, Obj(0, v))
        /\ e.next = n + 1 /\ e.stream = d.stream /\ e.handed = d.handed \union {n}
    BY <1>3, <1>4, AddedIs
  <1>6. /\ DOMAIN e.objs = DOMAIN o \union {n} /\ e.objs[n] = Obj(0, v)
        /\ \A m \in DOMAIN o : m # n => e.objs[m] = o[m]
    BY <1>5 DEF Put
  <1>7. Obj(0, v) \in Object
    BY <1>1 DEF Obj, Object, Gens
  <1>8. \A m \in DOMAIN e.objs : e.objs[m] \in Object
    BY <1>4, <1>6, <1>7 DEF Holds
  <1>9. Holds(e, k + 1)
    <2>1. k + 1 \in (MaxObjectNumber + 2)..(MaxObjectNumber + 7) /\ 1..k \subseteq 1..(k + 1)
      BY <1>1
    <2>2. e.next \in 0..((k + 1) + 1) /\ e.next >= nextFree
      BY <1>1, <1>2, <1>3, <1>5
    <2>3. DOMAIN e.objs \subseteq 1..(k + 1)
      BY <1>2, <1>4, <1>6, <2>1 DEF Holds
    <2> QED BY <1>8, <2>1, <2>2, <2>3 DEF Holds
  <1> QED BY <1>2, <1>4, <1>5, <1>9

\* The copy of a document that is signed has new objects, under fresh numbers.
LEMMA CloneIs ==
    ASSUME nextFree \in 1..(MaxObjectNumber + 1), NEW d, Holds(d, MaxObjectNumber + 2), d \in Docs(d.objs),
           NEW k \in 2..3, NEW rewritten, rewritten \subseteq DOMAIN d.objs, NEW v \in Plain,
           NEW c, c = Clone(d, k, rewritten, v)
    PROVE  /\ Holds(c, MaxObjectNumber + 5)
           /\ DOMAIN d.objs \subseteq DOMAIN c.objs
           /\ \A n \in c.handed \ d.handed :
                /\ n \in DOMAIN c.objs /\ n \notin DOMAIN d.objs
                /\ n \in Nat /\ n >= 1 /\ n >= nextFree /\ n >= d.next
  <1>1. MaxObjectNumber \in Nat /\ v \in Values /\ MaxGen \in Nat
    BY BoundsAssumption DEF Values
  <1>2. PICK x, e : x = allocObjNum(d) /\ e = Added(d, v)
    OBVIOUS
  <1>3. PICK y, g : y = allocObjNum(e) /\ g = Added(e, v)
    OBVIOUS
  <1>4. PICK z, h : z = allocObjNum(g) /\ h = Added(g, v)
    OBVIOUS
  <1>5. d.next \in Nat
    BY DEF Docs
  <1>6. /\ x \in 1..(MaxObjectNumber + 3) /\ x >= nextFree /\ x >= d.next /\ x \notin DOMAIN d.objs
        /\ e \in Docs(e.objs) /\ DOMAIN e.objs = DOMAIN d.objs \union {x}
        /\ e.next = x + 1 /\ e.handed = d.handed \union {x} /\ Holds(e, MaxObjectNumber + 3)
    <2>1. /\ MaxObjectNumber + 2 \in (MaxObjectNumber + 2)..(MaxObjectNumber + 6)
          /\ (MaxObjectNumber + 2) + 1 = MaxObjectNumber + 3
      BY <1>1
    <2>2. /\ x \in 1..((MaxObjectNumber + 2) + 1) /\ x >= nextFree /\ x >= d.next /\ x \notin DOMAIN d.objs
          /\ e \in Docs(e.objs) /\ e.objs = Put(d.objs, x, Obj(0, v))
          /\ e.next = x + 1 /\ e.handed = d.handed \union {x} /\ Holds(e, (MaxObjectNumber + 2) + 1)
      BY <1>1, <1>2, <2>1, AddStep
    <2>3. DOMAIN e.objs = DOMAIN d.objs \union {x}
      BY <2>2 DEF Put
    <2> QED BY <2>1, <2>2, <2>3
  <1>7. /\ y \in 1..(MaxObjectNumber + 4) /\ y >= nextFree /\ y >= e.next /\ y \notin DOMAIN e.objs
        /\ g \in Docs(g.objs) /\ DOMAIN g.objs = DOMAIN e.objs \union {y}
        /\ g.next = y + 1 /\ g.handed = e.handed \union {y} /\ Holds(g, MaxObjectNumber + 4)
    <2>1. /\ MaxObjectNumber + 3 \in (MaxObjectNumber + 2)..(MaxObjectNumber + 6)
          /\ (MaxObjectNumber + 3) + 1 = MaxObjectNumber + 4
      BY <1>1
    <2>2. /\ y \in 1..((MaxObjectNumber + 3) + 1) /\ y >= nextFree /\ y >= e.next /\ y \notin DOMAIN e.objs
          /\ g \in Docs(g.objs) /\ g.objs = Put(e.objs, y, Obj(0, v))
          /\ g.next = y + 1 /\ g.handed = e.handed \union {y} /\ Holds(g, (MaxObjectNumber + 3) + 1)
      BY <1>1, <1>3, <1>6, <2>1, AddStep
    <2>3. DOMAIN g.objs = DOMAIN e.objs \union {y}
      BY <2>2 DEF Put
    <2> QED BY <2>1, <2>2, <2>3
  <1>8. /\ z \in 1..(MaxObjectNumber + 5) /\ z >= nextFree /\ z >= g.next /\ z \notin DOMAIN g.objs
        /\ h \in Docs(h.objs) /\ DOMAIN h.objs = DOMAIN g.objs \union {z}
        /\ h.next = z + 1 /\ h.handed = g.handed \union {z} /\ Holds(h, MaxObjectNumber + 5)
    <2>1. /\ MaxObjectNumber + 4 \in (MaxObjectNumber + 2)..(MaxObjectNumber + 6)
          /\ (MaxObjectNumber + 4) + 1 = MaxObjectNumber + 5
      BY <1>1
    <2>2. /\ z \in 1..((MaxObjectNumber + 4) + 1) /\ z >= nextFree /\ z >= g.next /\ z \notin DOMAIN g.objs
          /\ h \in Docs(h.objs) /\ h.objs = Put(g.objs, z, Obj(0, v))
          /\ h.next = z + 1 /\ h.handed = g.handed \union {z} /\ Holds(h, (MaxObjectNumber + 4) + 1)
      BY <1>1, <1>4, <1>7, <2>1, AddStep
    <2>3. DOMAIN h.objs = DOMAIN g.objs \union {z}
      BY <2>2 DEF Put
    <2> QED BY <2>1, <2>2, <2>3
  <1>9. PICK all : all = IF k = 3 THEN h ELSE g
    OBVIOUS
  <1>10. /\ all \in Docs(all.objs) /\ DOMAIN d.objs \subseteq DOMAIN all.objs
         /\ all.handed \subseteq d.handed \union {x, y, z}
         /\ \A n \in all.handed \ d.handed : n \in {x, y, z} /\ n \in DOMAIN all.objs
    BY <1>6, <1>7, <1>8, <1>9
  <1>11. Holds(all, MaxObjectNumber + 5)
    <2>1. Holds(g, MaxObjectNumber + 5)
      <3>1. /\ MaxObjectNumber + 5 \in (MaxObjectNumber + 2)..(MaxObjectNumber + 7)
            /\ 1..(MaxObjectNumber + 4) \subseteq 1..(MaxObjectNumber + 5)
            /\ 0..((MaxObjectNumber + 4) + 1) \subseteq 0..((MaxObjectNumber + 5) + 1)
        BY <1>1
      <3> QED BY <1>7, <3>1 DEF Holds
    <2> QED BY <1>8, <1>9, <2>1
  <1>12. PICK o : o = [n \in DOMAIN all.objs |-> IF n \in rewritten THEN Obj(0, v) ELSE all.objs[n]]
    OBVIOUS
  <1>13. c = [all EXCEPT !.objs = o]
    BY <1>2, <1>3, <1>4, <1>9, <1>12 DEF Clone
  <1>14. c.objs = o /\ c.next = all.next /\ c.handed = all.handed
    BY <1>10, <1>13, WithObjects
  <1>15. DOMAIN c.objs = DOMAIN all.objs
    BY <1>12, <1>14
  <1>16. \A n \in DOMAIN c.objs : c.objs[n] \in Object
    <2>1. Obj(0, v) \in Object
      BY <1>1 DEF Obj, Object, Gens
    <2> QED BY <1>11, <1>12, <1>14, <2>1 DEF Holds
  <1>17. Holds(c, MaxObjectNumber + 5)
    BY <1>11, <1>14, <1>15, <1>16 DEF Holds
  <1>18. /\ \A n \in {x, y, z} : n \in Nat /\ n >= 1 /\ n >= nextFree /\ n >= d.next
         /\ x \notin DOMAIN d.objs /\ y \notin DOMAIN d.objs /\ z \notin DOMAIN d.objs
    <2>1. x \in Nat /\ y \in Nat /\ z \in Nat /\ d.next \in Nat
      BY <1>1, <1>5, <1>6, <1>7, <1>8
    <2>2. x >= d.next /\ y >= x + 1 /\ z >= y + 1
      BY <1>6, <1>7, <1>8
    <2>3. y >= d.next /\ z >= d.next
      BY <2>1, <2>2
    <2>4. x >= 1 /\ y >= 1 /\ z >= 1 /\ x >= nextFree /\ y >= nextFree /\ z >= nextFree
      BY <1>1, <1>6, <1>7, <1>8
    <2>5. x \notin DOMAIN d.objs /\ y \notin DOMAIN d.objs /\ z \notin DOMAIN d.objs
      BY <1>6, <1>7, <1>8
    <2> QED BY <2>1, <2>2, <2>3, <2>4, <2>5
  <1> QED BY <1>10, <1>14, <1>15, <1>17, <1>18

-----------------------------------------------------------------------------
(* The inductive invariant.                                                *)

LEMMA DocOKIs ==
    ASSUME NEW d, d \in Docs(d.objs), IsGraph(d.objs),
           d.next \in 0..(MaxObjectNumber + 3), d.handed \subseteq Num
    PROVE  DocOK(d)
  <1>1. d \in [objs : {d.objs}, next : 0..(MaxObjectNumber + 3), handed : SUBSET Num, stream : BOOLEAN]
    BY DEF Docs
  <1> QED BY <1>1 DEF DocOK, IsGraph

\* What every step but Read keeps: the source record, and with it the allocator's
\* floor.
LEMMA SameSource ==
    ASSUME IInv, UNCHANGED src, DocOK(doc'), steps' \in 0..MaxSteps,
           FileOK(disk'), disk'.cut < Len(disk'.secs), Counted(disk'), shown' = Shown(disk'),
           doc'.next = 0 => doc'.handed = {},
           doc'.next # 0 => doc'.next >= nextFree,
           \A n \in doc'.handed : n < doc'.next
    PROVE  IInv'
  <1>1. nextFree' = nextFree
    BY DEF nextFree
  <1> QED BY <1>1 DEF IInv, TypeOK

\* A number taken keeps the document in order.
LEMMA TakingKeeps ==
    ASSUME IInv, doc' = Taken(doc, allocObjNum(doc)), allocObjNum(doc) \in Num
    PROVE  /\ DocOK(doc') /\ doc'.next # 0 /\ doc'.next >= nextFree
           /\ \A n \in doc'.handed : n < doc'.next
           /\ doc'.handed = doc.handed \union {allocObjNum(doc)}
           /\ doc'.objs = doc.objs
  <1>1. /\ Holds(doc, MaxObjectNumber + 2) /\ doc \in Docs(doc.objs) /\ IsGraph(doc.objs)
        /\ MaxObjectNumber \in Nat /\ nextFree \in 1..(MaxObjectNumber + 1)
        /\ \A n \in doc.handed : n \in Nat /\ n < doc.next
    BY DocumentIs
  <1>2. PICK n : n = allocObjNum(doc)
    OBVIOUS
  <1>3. n \in Nat /\ n >= nextFree /\ n >= doc.next /\ n \in 1..(MaxObjectNumber + 2)
    <2>1. n >= nextFree /\ n >= doc.next
      BY <1>1, <1>2, Allocates DEF Holds
    <2> QED BY <1>1, <1>2, <2>1 DEF Num
  <1>4. PICK o : o = doc.objs
    OBVIOUS
  <1>5. /\ doc' \in Docs(o) /\ doc'.objs = o /\ doc'.next = n + 1
        /\ doc'.handed = doc.handed \union {n}
    <2>1. doc' = Taken(doc, n) /\ doc \in Docs(o)
      BY <1>1, <1>2, <1>4
    <2>2. /\ Taken(doc, n) \in Docs(o) /\ Taken(doc, n).objs = o
          /\ Taken(doc, n).next = n + 1
      <3>1. n \in Nat /\ doc \in Docs(o)
        BY <1>3, <2>1
      <3> QED BY <3>1, TakenIs
    <2>3. Taken(doc, n).handed = doc.handed \union {n}
      BY <2>1, TakenHands
    <2> QED BY <2>1, <2>2, <2>3
  <1>6. doc'.next \in 0..(MaxObjectNumber + 3) /\ doc'.next # 0 /\ doc'.next >= nextFree
    BY <1>1, <1>3, <1>5
  <1>7. doc.handed \subseteq Num
    BY DEF IInv, TypeOK, DocOK
  <1>8. doc'.handed \subseteq Num
    BY <1>2, <1>5, <1>7
  <1>9. \A m \in doc'.handed : m < doc'.next
    <2> TAKE m \in doc'.handed
    <2>1. CASE m = n
      BY <1>3, <1>5, <2>1
    <2>2. CASE m \in doc.handed
      <3>1. m \in Nat /\ m < doc.next /\ doc.next \in Nat
        BY <1>1, <2>2 DEF Docs
      <3> QED BY <1>3, <1>5, <3>1
    <2> QED BY <1>5, <2>1, <2>2
  <1>10. DocOK(doc')
    BY <1>1, <1>4, <1>5, <1>6, <1>8, DocOKIs
  <1> QED BY <1>2, <1>4, <1>5, <1>6, <1>9, <1>10

\* An object more, taken under a fresh number.
LEMMA AddingKeeps ==
    ASSUME IInv, NEW v \in Values, doc' = Added(doc, v), allocObjNum(doc) \in Num
    PROVE  /\ DocOK(doc') /\ doc'.next # 0 /\ doc'.next >= nextFree
           /\ \A n \in doc'.handed : n < doc'.next
           /\ doc'.handed = doc.handed \union {allocObjNum(doc)}
           /\ doc'.objs = Put(doc.objs, allocObjNum(doc), Obj(0, v))
  <1>1. /\ Holds(doc, MaxObjectNumber + 2) /\ doc \in Docs(doc.objs) /\ IsGraph(doc.objs)
        /\ MaxObjectNumber \in Nat /\ nextFree \in 1..(MaxObjectNumber + 1)
        /\ \A n \in doc.handed : n \in Nat /\ n < doc.next
    BY DocumentIs
  <1>2. PICK n : n = allocObjNum(doc)
    OBVIOUS
  <1>3. PICK e : e = Added(doc, v)
    OBVIOUS
  <1>4. /\ n >= nextFree /\ n >= doc.next
        /\ e \in Docs(e.objs) /\ e.objs = Put(doc.objs, n, Obj(0, v))
        /\ e.next = n + 1 /\ e.handed = doc.handed \union {n} /\ Holds(e, (MaxObjectNumber + 2) + 1)
    <2>1. MaxObjectNumber + 2 \in (MaxObjectNumber + 2)..(MaxObjectNumber + 6)
      BY <1>1
    <2> QED BY <1>1, <1>2, <1>3, <2>1, AddStep
  <1>5. n \in Num /\ n \in Nat /\ n \in 1..(MaxObjectNumber + 2)
    BY <1>1, <1>2 DEF Num
  <1>6. e.next \in 0..(MaxObjectNumber + 3) /\ e.next # 0 /\ e.next >= nextFree
    BY <1>1, <1>4, <1>5
  <1>7. doc.handed \subseteq Num
    BY DEF IInv, TypeOK, DocOK
  <1>8. e.handed \subseteq Num
    BY <1>4, <1>5, <1>7
  <1>9. \A m \in e.handed : m < e.next
    <2> TAKE m \in e.handed
    <2>1. CASE m = n
      BY <1>4, <1>5, <2>1
    <2>2. CASE m \in doc.handed
      <3>1. m \in Nat /\ m < doc.next /\ doc.next \in Nat
        BY <1>1, <2>2 DEF Docs
      <3> QED BY <1>4, <1>5, <3>1
    <2> QED BY <1>4, <2>1, <2>2
  <1>10. IsGraph(e.objs)
    <2>1. e.objs = [m \in DOMAIN e.objs |-> e.objs[m]] /\ DOMAIN e.objs = DOMAIN doc.objs \union {n}
      BY <1>4 DEF Put
    <2> QED BY <1>1, <1>4, <1>5, <2>1 DEF IsGraph, Holds
  <1>11. DocOK(e)
    BY <1>4, <1>6, <1>8, <1>10, DocOKIs
  <1> QED BY <1>2, <1>3, <1>4, <1>6, <1>9, <1>11

\* One object is altered, and the allocator stays.
Edited(n) ==
    /\ doc' \in Docs(doc'.objs) /\ IsGraph(doc'.objs)
    /\ doc'.next = doc.next /\ doc'.handed = doc.handed
    /\ \A m : m # n => /\ m \in DOMAIN doc'.objs <=> m \in DOMAIN doc.objs
                       /\ m \in DOMAIN doc.objs => doc'.objs[m] = doc.objs[m]

LEMMA InsertEdits ==
    ASSUME IInv, NEW n \in Num, NEW v \in Values, Insert(n, v)
    PROVE  Edited(n)
  <1>1. doc \in Docs(doc.objs) /\ IsGraph(doc.objs)
    BY DocumentIs
  <1>2. PICK o : o = Put(doc.objs, n, Obj(0, v))
    OBVIOUS
  <1>3. doc' = [doc EXCEPT !.objs = o]
    BY <1>2 DEF Insert
  <1>4. /\ doc' \in Docs(o) /\ doc'.objs = o
        /\ doc'.next = doc.next /\ doc'.handed = doc.handed
    BY <1>1, <1>3, WithObjects
  <1>5. /\ DOMAIN o = DOMAIN doc.objs \union {n} /\ o = [m \in DOMAIN o |-> o[m]]
        /\ o[n] = Obj(0, v) /\ \A m \in DOMAIN doc.objs : m # n => o[m] = doc.objs[m]
    BY <1>2 DEF Put
  <1>6. Obj(0, v) \in Object
    BY BoundsAssumption DEF Obj, Object, Gens
  <1>7. IsGraph(o)
    BY <1>1, <1>5, <1>6 DEF IsGraph
  <1> QED BY <1>4, <1>5, <1>7 DEF Edited

LEMMA SetValueEdits ==
    ASSUME IInv, NEW n \in Num, NEW v \in Values, SetValue(n, v)
    PROVE  Edited(n)
  <1>1. doc \in Docs(doc.objs) /\ IsGraph(doc.objs) /\ n \in DOMAIN doc.objs
    BY DocumentIs DEF SetValue
  <1>2. PICK e : e = [doc.objs[n] EXCEPT !.val = v]
    OBVIOUS
  <1>3. e \in Object
    <2>1. doc.objs[n] \in Object
      BY <1>1 DEF IsGraph
    <2> QED BY <1>2, <2>1 DEF Object
  <1>4. PICK o : o = [doc.objs EXCEPT ![n] = e]
    OBVIOUS
  <1>5. doc' = [doc EXCEPT !.objs = o]
    BY <1>2, <1>4 DEF SetValue
  <1>6. /\ doc' \in Docs(o) /\ doc'.objs = o
        /\ doc'.next = doc.next /\ doc'.handed = doc.handed
    BY <1>1, <1>5, WithObjects
  <1>7. /\ DOMAIN o = DOMAIN doc.objs /\ o[n] = e
        /\ \A m \in DOMAIN doc.objs : m # n => o[m] = doc.objs[m]
        /\ o = [m \in DOMAIN o |-> o[m]]
    BY <1>1, <1>4 DEF IsGraph
  <1>8. IsGraph(o)
    BY <1>1, <1>3, <1>7 DEF IsGraph
  <1> QED BY <1>6, <1>7, <1>8 DEF Edited

LEMMA DeleteEdits ==
    ASSUME IInv, NEW n \in Num, Delete(n)
    PROVE  Edited(n)
  <1>1. doc \in Docs(doc.objs) /\ IsGraph(doc.objs)
    BY DocumentIs
  <1>2. PICK o : o = [m \in DOMAIN doc.objs \ {n} |-> doc.objs[m]]
    OBVIOUS
  <1>3. doc' = [doc EXCEPT !.objs = o]
    BY <1>2 DEF Delete
  <1>4. /\ doc' \in Docs(o) /\ doc'.objs = o
        /\ doc'.next = doc.next /\ doc'.handed = doc.handed
    BY <1>1, <1>3, WithObjects
  <1>5. /\ DOMAIN o = DOMAIN doc.objs \ {n} /\ o = [m \in DOMAIN o |-> o[m]]
        /\ \A m \in DOMAIN o : o[m] = doc.objs[m]
    BY <1>2
  <1>6. IsGraph(o)
    BY <1>1, <1>5 DEF IsGraph
  <1> QED BY <1>4, <1>5, <1>6 DEF Edited

LEMMA EditingKeeps ==
    ASSUME IInv, NEW n, Edited(n)
    PROVE  /\ DocOK(doc')
           /\ doc'.next = 0 => doc'.handed = {}
           /\ doc'.next # 0 => doc'.next >= nextFree
           /\ \A m \in doc'.handed : m < doc'.next
  <1>1. /\ doc' \in Docs(doc'.objs) /\ IsGraph(doc'.objs)
        /\ doc'.next = doc.next /\ doc'.handed = doc.handed
    BY DEF Edited
  <1>2. /\ doc.next \in 0..(MaxObjectNumber + 3) /\ doc.handed \subseteq Num
        /\ doc.next = 0 => doc.handed = {}
        /\ doc.next # 0 => doc.next >= nextFree
        /\ \A m \in doc.handed : m < doc.next
    BY DEF IInv, TypeOK, DocOK
  <1>3. DocOK(doc')
    BY <1>1, <1>2, DocOKIs
  <1> QED BY <1>1, <1>2, <1>3

\* The signed copy, and the numbers its update lists.
LEMMA SignedUpdates ==
    ASSUME IInv, NEW k \in 2..3, NEW rewritten, rewritten \subseteq DOMAIN doc.objs,
           NEW v \in Plain, WriteSignedIncremental(k, rewritten, v)
    PROVE  \E c : \E changed \in SUBSET Num :
             /\ Holds(c, MaxObjectNumber + 5) /\ XRefNumberLeft(c) /\ MayChange(changed)
             /\ changed \subseteq DOMAIN c.objs
             /\ \A n \in changed : n \in DOMAIN doc.objs \/ (n >= nextFree /\ n >= doc.next)
             /\ disk' = Updated(c, changed) /\ shown' = Shown(disk') /\ listed' = changed
             /\ UNCHANGED <<src, doc>>
  <1>1. /\ Holds(doc, MaxObjectNumber + 2) /\ doc \in Docs(doc.objs) /\ IsGraph(doc.objs)
        /\ MaxObjectNumber \in Nat /\ nextFree \in 1..(MaxObjectNumber + 1)
    BY DocumentIs
  <1>2. PICK c : c = Clone(doc, k, rewritten, v)
    OBVIOUS
  <1>3. PICK changed : changed = rewritten \union (c.handed \ doc.handed)
    OBVIOUS
  <1>4. /\ MayChange(changed) /\ XRefNumberLeft(c)
        /\ disk' = Updated(c, changed) /\ shown' = Shown(disk') /\ listed' = changed
        /\ UNCHANGED <<src, doc>>
    BY <1>2, <1>3 DEF WriteSignedIncremental
  <1>5. /\ Holds(c, MaxObjectNumber + 5) /\ DOMAIN doc.objs \subseteq DOMAIN c.objs
        /\ \A n \in c.handed \ doc.handed :
             /\ n \in DOMAIN c.objs /\ n \notin DOMAIN doc.objs
             /\ n \in Nat /\ n >= 1 /\ n >= nextFree /\ n >= doc.next
    BY <1>1, <1>2, CloneIs
  <1>6. changed \subseteq DOMAIN c.objs
    BY <1>3, <1>5
  <1>7. \A n \in changed : n \in DOMAIN doc.objs \/ (n >= nextFree /\ n >= doc.next)
    BY <1>3, <1>5
  <1>8. changed \in SUBSET Num
    <2> SUFFICES ASSUME NEW n \in changed PROVE n \in Num
      OBVIOUS
    <2>1. CASE n \in rewritten
      BY <1>1, <2>1 DEF IsGraph
    <2>2. CASE n \in c.handed \ doc.handed
      <3>1. n \in Nat /\ n >= 1 /\ n <= MaxObjectNumber
        BY <1>4, <1>5, <2>2 DEF MayChange
      <3> QED BY <1>1, <3>1 DEF Num
    <2> QED BY <1>3, <2>1, <2>2
  <1>9. /\ Holds(c, MaxObjectNumber + 5) /\ XRefNumberLeft(c) /\ MayChange(changed)
        /\ changed \subseteq DOMAIN c.objs
        /\ \A n \in changed : n \in DOMAIN doc.objs \/ (n >= nextFree /\ n >= doc.next)
        /\ disk' = Updated(c, changed) /\ shown' = Shown(disk') /\ listed' = changed
        /\ UNCHANGED <<src, doc>>
    BY <1>4, <1>5, <1>6, <1>7
  <1> WITNESS c
  <1> WITNESS changed \in SUBSET Num
  <1> QED BY <1>9

LEMMA NoFileIs ==
    FileOK(NoFile) /\ Counted(NoFile) /\ EverUsed(NoFile) = {}
  <1>1. /\ NoFile.secs = << >> /\ NoFile.cut = 0 /\ NoFile = File(NoFile.secs, NoFile.cut)
        /\ Len(NoFile.secs) = 0 /\ NoFile.secs = [i \in 1..0 |-> NoFile.secs[i]]
    BY DEF NoFile, File
  <1>2. 1..0 = {}
    OBVIOUS
  <1>3. FileOK(NoFile)
    BY <1>1, <1>2 DEF FileOK
  <1>4. EverUsed(NoFile) = {}
    BY <1>1, <1>2 DEF EverUsed
  <1> QED BY <1>3, <1>4 DEF Counted

\* Files, source and allocator agree at the start.
LEMMA AtFirst == Init => IInv
  <1> SUFFICES ASSUME Init PROVE IInv
    OBVIOUS
  <1>1. FileOK(disk) /\ disk.cut < Len(disk.secs) /\ Counted(disk)
    BY FilesAssumption DEF Init
  <1>2. src.file = NoFile /\ src = Source(NoFile)
    BY NoFileIs, SourceOf DEF Init, NoSource
  <1>3. DocOK(doc) /\ doc.next = 0 /\ doc.handed = {}
    <2>1. doc = EmptyDoc
      BY DEF Init
    <2>2. doc.objs = << >> /\ DOMAIN doc.objs = {} /\ doc.next = 0 /\ doc.handed = {}
      BY <2>1 DEF EmptyDoc
    <2>3. doc.objs \in [DOMAIN doc.objs -> Object]
      BY <2>2
    <2>4. doc \in [objs : {doc.objs}, next : 0..(MaxObjectNumber + 3), handed : SUBSET Num, stream : BOOLEAN]
      BY <2>1, BoundsAssumption DEF EmptyDoc
    <2> QED BY <2>2, <2>3, <2>4 DEF DocOK
  <1>4. steps \in 0..MaxSteps
    BY BoundsAssumption DEF Init
  <1> QED BY <1>1, <1>2, <1>3, <1>4, NoFileIs DEF Init, IInv, TypeOK

\* Every step keeps them so.
LEMMA EveryStep == IInv /\ [Next]_vars => IInv'
  <1> SUFFICES ASSUME IInv, [Next]_vars PROVE IInv'
    OBVIOUS
  <1>1. /\ SourceOK /\ Holds(doc, MaxObjectNumber + 2) /\ doc \in Docs(doc.objs) /\ IsGraph(doc.objs)
        /\ doc.stream \in BOOLEAN /\ MaxObjectNumber \in Nat /\ nextFree \in 1..(MaxObjectNumber + 1)
    BY DocumentIs
  <1>2. /\ FileOK(disk) /\ disk.cut < Len(disk.secs) /\ Counted(disk) /\ shown = Shown(disk)
        /\ DocOK(doc) /\ steps \in 0..MaxSteps
        /\ doc.next = 0 => doc.handed = {}
        /\ doc.next # 0 => doc.next >= nextFree
        /\ \A n \in doc.handed : n < doc.next
    BY DEF IInv, TypeOK
  <1>3. Spend => steps' \in 0..MaxSteps
    BY <1>2, BoundsAssumption DEF Spend
  <1>4. CASE Read
    <2>1. /\ src' = Source(disk) /\ UNCHANGED <<disk, shown, steps>>
          /\ doc' = [EmptyDoc EXCEPT !.objs = src'.objects,
                                     !.stream = Newest(disk).form = "stream"]
      BY <1>4 DEF Read
    <2>2. src'.file = disk /\ src'.objects = Shown(disk)
      BY <1>2, <2>1, SourceOf
    <2>3. PICK x, y : x = Shown(disk) /\ y = (Newest(disk).form = "stream") /\ y \in BOOLEAN
      OBVIOUS
    <2>4. /\ doc' \in Docs(x) /\ doc'.objs = x /\ doc'.next = 0 /\ doc'.handed = {}
      <3>1. doc' = [EmptyDoc EXCEPT !.objs = x, !.stream = y]
        BY <2>1, <2>2, <2>3
      <3> QED BY <2>3, <3>1 DEF EmptyDoc, Docs
    <2>5. IsGraph(x)
      <3>1. x = [n \in DOMAIN x |-> x[n]]
        BY <2>3, LoadedMeans DEF Shown
      <3>2. \A n \in DOMAIN x : n \in Num /\ x[n] \in Object
        BY <1>2, <2>3, ShownIsUsed
      <3> QED BY <3>1, <3>2 DEF IsGraph
    <2>6. DocOK(doc')
      <3>1. doc'.next \in 0..(MaxObjectNumber + 3) /\ doc'.handed \subseteq Num
        BY <1>1, <2>4
      <3> QED BY <2>4, <2>5, <3>1, DocOKIs
    <2>7. /\ doc'.next = 0 /\ doc'.handed = {}
          /\ src' = Source(src'.file) /\ src'.file = disk
      BY <2>1, <2>2, <2>4
    <2> QED BY <1>2, <2>1, <2>6, <2>7 DEF IInv, TypeOK
  <1>5. CASE Write
    <2>1. /\ Writable(WriteSection(doc)) /\ disk' = File(<<WriteSection(doc)>>, 0)
          /\ shown' = Shown(disk') /\ UNCHANGED <<src, doc>> /\ Spend
      BY <1>5 DEF Write
    <2>2. FileOK(disk') /\ disk'.cut < Len(disk'.secs) /\ Counted(disk')
      BY <1>1, <2>1, WrittenFile
    <2> QED BY <1>2, <1>3, <2>1, <2>2, SameSource
  <1>6. CASE UpdateExhausted
    <2>1. /\ doc' = Taken(doc, allocObjNum(doc)) /\ allocObjNum(doc) \in Num
          /\ UNCHANGED <<disk, src, shown>> /\ Spend
      BY <1>6 DEF UpdateExhausted
    <2>2. /\ DocOK(doc') /\ doc'.next # 0 /\ doc'.next >= nextFree
          /\ \A n \in doc'.handed : n < doc'.next
      BY <2>1, TakingKeeps
    <2> QED BY <1>2, <1>3, <2>1, <2>2, SameSource
  <1>7. ASSUME NEW v \in Values, Add(v) PROVE IInv'
    <2>1. /\ doc' = Added(doc, v) /\ allocObjNum(doc) \in Num
          /\ UNCHANGED <<disk, src, shown>> /\ Spend
      BY <1>7 DEF Add
    <2>2. /\ DocOK(doc') /\ doc'.next # 0 /\ doc'.next >= nextFree
          /\ \A n \in doc'.handed : n < doc'.next
      BY <2>1, AddingKeeps
    <2> QED BY <1>2, <1>3, <2>1, <2>2, SameSource
  <1>8. ASSUME NEW n \in Num, Edited(n), Spend, UNCHANGED <<disk, src, shown>>
        PROVE  IInv'
    <2>1. /\ DocOK(doc')
          /\ doc'.next = 0 => doc'.handed = {}
          /\ doc'.next # 0 => doc'.next >= nextFree
          /\ \A m \in doc'.handed : m < doc'.next
      BY <1>8, EditingKeeps
    <2> QED BY <1>2, <1>3, <1>8, <2>1, SameSource
  <1>9. ASSUME NEW n \in Num, NEW v \in Values, Insert(n, v) PROVE IInv'
    <2>1. Edited(n)
      BY <1>9, InsertEdits
    <2>2. Spend /\ UNCHANGED <<disk, src, shown>>
      BY <1>9 DEF Insert
    <2> QED BY <1>8, <2>1, <2>2
  <1>10. ASSUME NEW n \in Num, NEW v \in Values, SetValue(n, v) PROVE IInv'
    <2>1. Edited(n)
      BY <1>10, SetValueEdits
    <2>2. Spend /\ UNCHANGED <<disk, src, shown>>
      BY <1>10 DEF SetValue
    <2> QED BY <1>8, <2>1, <2>2
  <1>11. ASSUME NEW n \in Num, Delete(n) PROVE IInv'
    <2>1. Edited(n)
      BY <1>11, DeleteEdits
    <2>2. Spend /\ UNCHANGED <<disk, src, shown>>
      BY <1>11 DEF Delete
    <2> QED BY <1>8, <2>1, <2>2
  <1>12. ASSUME NEW changed \in SmallSets(Num), WriteIncremental(changed) PROVE IInv'
    <2>1. /\ MayChange(changed) /\ XRefNumberLeft(doc) /\ disk' = Updated(doc, changed)
          /\ shown' = Shown(disk') /\ UNCHANGED src /\ Spend
          /\ doc' = IF InStreamForm THEN Taken(doc, allocObjNum(doc)) ELSE doc
      BY <1>12 DEF WriteIncremental
    <2>2. changed \in SUBSET Num
      BY DEF SmallSets
    <2>3. FileOK(disk') /\ disk'.cut < Len(disk'.secs) /\ Counted(disk')
      BY <1>1, <2>1, <2>2, UpdatedFile
    <2>4. CASE InStreamForm
      <3>1. allocObjNum(doc) \in Num
        BY <1>1, <2>1, <2>4, OwnNumber DEF Num
      <3>2. /\ DocOK(doc') /\ doc'.next # 0 /\ doc'.next >= nextFree
            /\ \A n \in doc'.handed : n < doc'.next
        BY <2>1, <2>4, <3>1, TakingKeeps
      <3> QED BY <1>3, <2>1, <2>3, <3>2, SameSource
    <2>5. CASE ~InStreamForm
      <3>1. doc' = doc
        BY <2>1, <2>5
      <3> QED BY <1>2, <1>3, <2>1, <2>3, <3>1, SameSource
    <2> QED BY <2>4, <2>5
  <1>13. ASSUME NEW k \in 2..3, NEW rewritten \in Pairs(DOMAIN doc.objs), NEW v \in Plain,
                WriteSignedIncremental(k, rewritten, v)
         PROVE  IInv'
    <2>1. rewritten \subseteq DOMAIN doc.objs /\ Spend
      BY <1>13 DEF WriteSignedIncremental
    <2>2. PICK c : \E changed \in SUBSET Num :
            /\ Holds(c, MaxObjectNumber + 5) /\ XRefNumberLeft(c) /\ MayChange(changed)
            /\ disk' = Updated(c, changed) /\ shown' = Shown(disk')
            /\ UNCHANGED <<src, doc>>
      BY <1>13, <2>1, SignedUpdates
    <2>3. PICK changed \in SUBSET Num :
            /\ Holds(c, MaxObjectNumber + 5) /\ XRefNumberLeft(c) /\ MayChange(changed)
            /\ disk' = Updated(c, changed) /\ shown' = Shown(disk')
            /\ UNCHANGED <<src, doc>>
      BY <2>2
    <2>4. FileOK(disk') /\ disk'.cut < Len(disk'.secs) /\ Counted(disk')
      BY <1>1, <2>3, UpdatedFile
    <2> QED BY <1>2, <1>3, <2>1, <2>3, <2>4, SameSource
  <1>14. CASE UNCHANGED vars
    <2>1. UNCHANGED <<disk, src, doc, shown, steps>>
      BY <1>14 DEF vars
    <2> QED BY <1>2, <2>1, SameSource
  <1> QED BY <1>4, <1>5, <1>6, <1>7, <1>9, <1>10, <1>11, <1>12, <1>13, <1>14 DEF Next

\* The files, the source record and the allocator agree in every reachable state.
THEOREM Agreement == Spec => []IInv
  <1> QED BY AtFirst, EveryStep, PTL DEF Spec

-----------------------------------------------------------------------------
(* What the allocator hands out.                                           *)

\* A number the allocator gives the document is one nothing has had.
LEMMA Unused ==
    ASSUME IInv
    PROVE  allocObjNum(doc) \notin src.everUsed \union doc.handed \union DOMAIN doc.objs
  <1>1. /\ Holds(doc, MaxObjectNumber + 2) /\ MaxObjectNumber \in Nat /\ nextFree \in 1..(MaxObjectNumber + 1)
        /\ \A n \in doc.handed : n \in Nat /\ n < doc.next
        /\ \A n \in src.everUsed : n \in Num /\ n < nextFree
    BY DocumentIs
  <1>2. PICK n : n = allocObjNum(doc)
    OBVIOUS
  <1>3. /\ n \in 1..((MaxObjectNumber + 2) + 1) /\ n >= nextFree /\ n >= doc.next
        /\ n \notin DOMAIN doc.objs /\ doc.next \in Nat
    BY <1>1, <1>2, Allocates DEF Holds
  <1>4. n \notin src.everUsed
    BY <1>1, <1>3 DEF Num
  <1>5. n \notin doc.handed
    BY <1>1, <1>3
  <1> QED BY <1>2, <1>3, <1>4, <1>5

\* A step hands out the allocator's number, or none.
LEMMA HandedBy ==
    ASSUME IInv, [Next]_vars
    PROVE  doc'.handed \subseteq doc.handed \union {allocObjNum(doc)}
  <1>1. CASE Read
    BY <1>1 DEF Read, EmptyDoc
  <1>2. CASE Write
    BY <1>2 DEF Write
  <1>3. CASE UpdateExhausted
    BY <1>3, TakingKeeps DEF UpdateExhausted
  <1>4. ASSUME NEW v \in Values, Add(v)
        PROVE  doc'.handed \subseteq doc.handed \union {allocObjNum(doc)}
    BY <1>4, AddingKeeps DEF Add
  <1>5. ASSUME NEW n, Edited(n)
        PROVE  doc'.handed \subseteq doc.handed \union {allocObjNum(doc)}
    BY <1>5 DEF Edited
  <1>6. ASSUME NEW n \in Num, NEW v \in Values, Insert(n, v) \/ SetValue(n, v)
        PROVE  doc'.handed \subseteq doc.handed \union {allocObjNum(doc)}
    BY <1>5, <1>6, InsertEdits, SetValueEdits
  <1>7. ASSUME NEW n \in Num, Delete(n)
        PROVE  doc'.handed \subseteq doc.handed \union {allocObjNum(doc)}
    BY <1>5, <1>7, DeleteEdits
  <1>8. ASSUME NEW changed \in SmallSets(Num), WriteIncremental(changed)
        PROVE  doc'.handed \subseteq doc.handed \union {allocObjNum(doc)}
    <2>1. /\ XRefNumberLeft(doc)
          /\ doc' = IF InStreamForm THEN Taken(doc, allocObjNum(doc)) ELSE doc
      BY <1>8 DEF WriteIncremental
    <2>2. CASE InStreamForm
      <3>1. SourceOK /\ Holds(doc, MaxObjectNumber + 2) /\ MaxObjectNumber \in Nat
        BY DocumentIs
      <3>2. allocObjNum(doc) \in Num
        BY <2>1, <2>2, <3>1, OwnNumber DEF Num
      <3> QED BY <2>1, <2>2, <3>2, TakingKeeps
    <2>3. CASE ~InStreamForm
      BY <2>1, <2>3
    <2> QED BY <2>2, <2>3
  <1>9. ASSUME NEW k \in 2..3, NEW rewritten \in Pairs(DOMAIN doc.objs), NEW v \in Plain,
               WriteSignedIncremental(k, rewritten, v)
        PROVE  doc'.handed \subseteq doc.handed \union {allocObjNum(doc)}
    BY <1>9 DEF WriteSignedIncremental
  <1>10. CASE UNCHANGED vars
    BY <1>10 DEF vars
  <1> QED BY <1>1, <1>2, <1>3, <1>4, <1>6, <1>7, <1>8, <1>9, <1>10 DEF Next

\* allocObjNum hands out no number a section of the file has used, and none an
\* object of the graph has, whatever was edited, inserted and deleted before.
THEOREM HandsOutFresh == Spec => NumbersFresh
  <1>1. IInv /\ [Next]_vars =>
          [\A n \in doc'.handed \ doc.handed : n \notin src.everUsed \union DOMAIN doc.objs]_vars
    BY HandedBy, Unused
  <1> QED BY <1>1, Agreement, PTL DEF Spec, NumbersFresh

\* A file the program writes states a /Size above all its numbers.
LEMMA WritesSize ==
    ASSUME IInv, [Next]_vars, disk' # disk
    PROVE  /\ \A n \in EverUsed(disk') : n < Newest(disk').size
           /\ \A sec \in Readable(disk') : sec.size <= Newest(disk').size
  <1>1. SourceOK /\ Holds(doc, MaxObjectNumber + 2) /\ IsGraph(doc.objs) /\ doc.stream \in BOOLEAN
    BY DocumentIs
  <1>2. CASE Write
    <2>1. Writable(WriteSection(doc)) /\ disk' = File(<<WriteSection(doc)>>, 0)
      BY <1>2 DEF Write
    <2> QED BY <1>1, <2>1, WrittenFile
  <1>3. ASSUME NEW changed \in SmallSets(Num), WriteIncremental(changed)
        PROVE  /\ \A n \in EverUsed(disk') : n < Newest(disk').size
               /\ \A sec \in Readable(disk') : sec.size <= Newest(disk').size
    <2>1. /\ MayChange(changed) /\ XRefNumberLeft(doc) /\ disk' = Updated(doc, changed)
          /\ changed \in SUBSET Num
      BY <1>3 DEF WriteIncremental, SmallSets
    <2> QED BY <1>1, <2>1, UpdatedFile
  <1>4. ASSUME NEW k \in 2..3, NEW rewritten \in Pairs(DOMAIN doc.objs), NEW v \in Plain,
               WriteSignedIncremental(k, rewritten, v)
        PROVE  /\ \A n \in EverUsed(disk') : n < Newest(disk').size
               /\ \A sec \in Readable(disk') : sec.size <= Newest(disk').size
    <2>1. rewritten \subseteq DOMAIN doc.objs
      BY DEF Pairs
    <2>2. PICK c : \E changed \in SUBSET Num :
            /\ Holds(c, MaxObjectNumber + 5) /\ XRefNumberLeft(c) /\ MayChange(changed)
            /\ disk' = Updated(c, changed)
      BY <1>4, <2>1, SignedUpdates
    <2>3. PICK changed \in SUBSET Num :
            /\ Holds(c, MaxObjectNumber + 5) /\ XRefNumberLeft(c) /\ MayChange(changed)
            /\ disk' = Updated(c, changed)
      BY <2>2
    <2> QED BY <1>1, <2>3, UpdatedFile
  <1> QED BY <1>2, <1>3, <1>4
          DEF Next, vars, Read, UpdateExhausted, Add, Insert, SetValue, Delete

\* The /Size of a written file's trailer is above every number its readable
\* sections count, and no smaller than that of any section below it.
THEOREM StatesItsSize == Spec => SizeCovers
  <1>1. ASSUME IInv, [Next]_vars
        PROVE  [disk' # disk =>
                 /\ \A n \in Noted(disk') : n < Newest(disk').size
                 /\ \A sec \in Readable(disk') : sec.size <= Newest(disk').size]_vars
    <2>1. IInv' /\ FileOK(disk')
      BY <1>1, EveryStep DEF IInv, TypeOK
    <2>2. \A n \in Noted(disk') : n \in EverUsed(disk')
      BY <2>1, NotedWasUsed
    <2> QED BY <1>1, <2>2, WritesSize
  <1> QED BY <1>1, Agreement, PTL DEF Spec, SizeCovers

-----------------------------------------------------------------------------
(* The plain numbered store, step by step.                                 *)

Used == src.everUsed \union doc.handed

LEMMA StartsAsStore == Init => Store!Init
  <1> SUFFICES ASSUME Init PROVE Store!Init
    OBVIOUS
  <1>1. IInv
    BY AtFirst
  <1>2. FileOK(disk) /\ shown = Shown(disk)
    BY <1>1 DEF IInv, TypeOK
  <1>3. Store!IsStore(shown)
    BY <1>2, ShownIsUsed DEF Store!IsStore
  <1>4. src = Source(NoFile) /\ src.everUsed = {} /\ src.objects = Shown(NoFile)
    BY NoFileIs, SourceOf DEF Init, NoSource
  <1>5. Shown(NoFile) = << >>
    <2>1. PICK f : f = Shown(NoFile)
      OBVIOUS
    <2>2. DOMAIN f = {}
      BY <2>1, NoFileIs, ShownIsUsed
    <2>3. f = [n \in DOMAIN f |-> f[n]]
      BY <2>1, LoadedMeans DEF Shown
    <2>4. f = << >>
      BY <2>2, <2>3
    <2> QED BY <2>1, <2>4
  <1>6. doc.objs = << >> /\ doc.handed = {} /\ listed = {}
    BY DEF Init, EmptyDoc
  <1> QED BY <1>3, <1>4, <1>5, <1>6 DEF Store!Init

\* The allocator's number is fresh in the store.
LEMMA FreshIs ==
    ASSUME IInv, allocObjNum(doc) \in Num
    PROVE  allocObjNum(doc) \in Store!Fresh
  BY Unused DEF Store!Fresh

\* Reading takes from the file exactly what it shows.
LEMMA ReadsStore ==
    ASSUME IInv, Read
    PROVE  Store!Read
  <1>1. FileOK(disk) /\ shown = Shown(disk)
    BY DEF IInv, TypeOK
  <1>2. /\ src' = Source(disk) /\ shown' = shown /\ listed' = {}
        /\ doc' = [EmptyDoc EXCEPT !.objs = src'.objects,
                                   !.stream = Newest(disk).form = "stream"]
    BY DEF Read
  <1>3. src'.objects = shown /\ src'.everUsed = EverUsed(disk)
    BY <1>1, <1>2, SourceOf
  <1>4. doc'.objs = shown /\ doc'.handed = {}
    BY <1>2, <1>3 DEF EmptyDoc
  <1>5. \A n \in DOMAIN shown : n \in EverUsed(disk)
    BY <1>1, ShownIsUsed
  <1>6. \A n \in EverUsed(disk) : n \in Num
    BY <1>1, UsedMeans, UsedAreNumbers, Sections
  <1> QED BY <1>2, <1>3, <1>4, <1>5, <1>6 DEF Store!Read, Store!NoUpdate

\* Adding an object takes a fresh number for it.
LEMMA AddsToStore ==
    ASSUME IInv, NEW v \in Values, Add(v)
    PROVE  Store!Add
  <1>1. /\ doc' = Added(doc, v) /\ allocObjNum(doc) \in Num
        /\ listed' = {} /\ UNCHANGED <<src, shown>>
    BY DEF Add
  <1>2. PICK n : n = allocObjNum(doc)
    OBVIOUS
  <1>3. /\ DocOK(doc') /\ doc'.handed = doc.handed \union {n}
        /\ doc'.objs = Put(doc.objs, n, Obj(0, v))
    BY <1>1, <1>2, AddingKeeps
  <1>4. n \in Store!Fresh
    BY <1>1, <1>2, FreshIs
  <1>5. /\ DOMAIN doc'.objs = DOMAIN doc.objs \union {n}
        /\ \A m \in DOMAIN doc.objs : m # n => doc'.objs[m] = doc.objs[m]
    BY <1>3 DEF Put
  <1>6. \A m \in Num \ {n} : Store!Same(doc'.objs, doc.objs, m)
    BY <1>5 DEF Store!Same
  <1>7. Store!IsStore(doc'.objs)
    BY <1>3 DEF DocOK, Store!IsStore
  <1>8. Store!Edit(n)
    BY <1>1, <1>6, <1>7 DEF Store!Edit, Store!NoUpdate
  <1>9. Used' = Used \union {n}
    BY <1>1, <1>3 DEF Used
  <1>10. n \in DOMAIN doc'.objs
    BY <1>5
  <1> QED BY <1>4, <1>8, <1>9, <1>10 DEF Store!Add, Used

\* An edit changes one number and takes none.
LEMMA ChangesStore ==
    ASSUME IInv, NEW n \in Num, Edited(n), listed' = {}, UNCHANGED <<src, shown>>
    PROVE  Store!Change
  <1>1. /\ doc'.handed = doc.handed /\ IsGraph(doc'.objs)
        /\ \A m : m # n => /\ m \in DOMAIN doc'.objs <=> m \in DOMAIN doc.objs
                           /\ m \in DOMAIN doc.objs => doc'.objs[m] = doc.objs[m]
    BY DEF Edited
  <1>2. \A m \in Num \ {n} : Store!Same(doc'.objs, doc.objs, m)
    BY <1>1 DEF Store!Same
  <1>3. Store!IsStore(doc'.objs)
    BY <1>1 DEF IsGraph, Store!IsStore
  <1>4. Store!Edit(n)
    BY <1>2, <1>3 DEF Store!Edit, Store!NoUpdate
  <1> QED BY <1>1, <1>4 DEF Store!Change

\* An update changes what it lists, and takes at most one fresh number.
LEMMA UpdatesStore ==
    ASSUME IInv, NEW changed \in SmallSets(Num), WriteIncremental(changed)
    PROVE  Store!ListedUpdate
  <1>1. /\ MayChange(changed) /\ XRefNumberLeft(doc) /\ disk' = Updated(doc, changed)
        /\ shown' = Shown(disk') /\ listed' = changed /\ UNCHANGED src
        /\ doc' = IF InStreamForm THEN Taken(doc, allocObjNum(doc)) ELSE doc
        /\ changed \in SUBSET Num /\ changed # {}
    BY DEF WriteIncremental, SmallSets, MayChange
  <1>2. SourceOK /\ Holds(doc, MaxObjectNumber + 2) /\ MaxObjectNumber \in Nat
    BY DocumentIs
  <1>3. shown' = Store!Override(src.objects, listed', doc.objs)
    BY <1>1, <1>2, UpdatedShows
  <1>4. /\ doc'.objs = doc.objs
        /\ Used' = Used \/ \E n \in Store!Fresh : Used' = Used \union {n}
    <2>1. CASE InStreamForm
      <3>1. allocObjNum(doc) \in Num
        BY <1>1, <1>2, <2>1, OwnNumber DEF Num
      <3>2. doc'.handed = doc.handed \union {allocObjNum(doc)} /\ doc'.objs = doc.objs
        BY <1>1, <2>1, <3>1, TakingKeeps
      <3>3. allocObjNum(doc) \in Store!Fresh
        BY <3>1, FreshIs
      <3>4. Used' = Used \union {allocObjNum(doc)}
        BY <1>1, <3>2 DEF Used
      <3> QED BY <3>2, <3>3, <3>4
    <2>2. CASE ~InStreamForm
      BY <1>1, <2>2 DEF Used
    <2> QED BY <2>1, <2>2
  <1> QED BY <1>1, <1>3, <1>4 DEF Store!ListedUpdate, Used

\* A signature's update lists objects the copy has, new ones under fresh numbers.
LEMMA SignsStore ==
    ASSUME IInv, NEW k \in 2..3, NEW rewritten \in Pairs(DOMAIN doc.objs), NEW v \in Plain,
           WriteSignedIncremental(k, rewritten, v)
    PROVE  Store!SignedUpdate
  <1>1. rewritten \subseteq DOMAIN doc.objs
    BY DEF Pairs
  <1>2. PICK c : \E changed \in SUBSET Num :
          /\ Holds(c, MaxObjectNumber + 5) /\ XRefNumberLeft(c) /\ MayChange(changed)
          /\ changed \subseteq DOMAIN c.objs
          /\ \A n \in changed : n \in DOMAIN doc.objs \/ (n >= nextFree /\ n >= doc.next)
          /\ disk' = Updated(c, changed) /\ shown' = Shown(disk') /\ listed' = changed
          /\ UNCHANGED <<src, doc>>
    BY <1>1, SignedUpdates
  <1>3. PICK changed \in SUBSET Num :
          /\ Holds(c, MaxObjectNumber + 5) /\ XRefNumberLeft(c) /\ MayChange(changed)
          /\ changed \subseteq DOMAIN c.objs
          /\ \A n \in changed : n \in DOMAIN doc.objs \/ (n >= nextFree /\ n >= doc.next)
          /\ disk' = Updated(c, changed) /\ shown' = Shown(disk') /\ listed' = changed
          /\ UNCHANGED <<src, doc>>
    BY <1>2
  <1>4. /\ SourceOK /\ doc \in Docs(doc.objs) /\ nextFree \in 1..(MaxObjectNumber + 1)
        /\ \A n \in doc.handed : n \in Nat /\ n < doc.next
        /\ \A n \in src.everUsed : n \in Num /\ n < nextFree
    BY DocumentIs
  <1>5. shown' = Store!Override(src.objects, changed, c.objs)
    BY <1>3, <1>4, UpdatedShows
  <1>6. PICK base, g : base = src.objects /\ g = c.objs
    OBVIOUS
  <1>7. /\ DOMAIN shown' = (DOMAIN base \ changed) \union changed
        /\ \A n \in changed : shown'[n] = g[n]
        /\ \A n \in DOMAIN base \ changed : shown'[n] = base[n]
        /\ shown' = [n \in DOMAIN shown' |-> shown'[n]]
    <2>1. DOMAIN g \intersect changed = changed
      BY <1>3, <1>6
    <2>2. shown' = [n \in (DOMAIN base \ changed) \union changed |->
                     IF n \in changed THEN g[n] ELSE base[n]]
      BY <1>5, <1>6, <2>1 DEF Store!Override
    <2> QED BY <2>2
  <1>8. shown' = Store!Override(src.objects, listed', shown')
    <2>1. PICK s : s = shown'
      OBVIOUS
    <2>2. DOMAIN s \intersect changed = changed
      BY <1>7, <2>1
    <2>3. Store!Override(base, changed, s) =
            [n \in (DOMAIN base \ changed) \union changed |->
              IF n \in changed THEN s[n] ELSE base[n]]
      BY <2>2 DEF Store!Override
    <2>4. s = [n \in (DOMAIN base \ changed) \union changed |->
                IF n \in changed THEN s[n] ELSE base[n]]
      BY <1>7, <2>1
    <2> QED BY <1>3, <1>6, <2>1, <2>3, <2>4
  <1>9. listed' \ DOMAIN doc.objs \subseteq Store!Fresh
    <2> SUFFICES ASSUME NEW n \in changed, n \notin DOMAIN doc.objs
                 PROVE  n \in Store!Fresh
      BY <1>3
    <2>1. n \in Num /\ n \in Nat /\ n >= nextFree /\ n >= doc.next /\ doc.next \in Nat
      BY <1>3, <1>4 DEF Num, Docs
    <2>2. n \notin src.everUsed
      BY <1>4, <2>1 DEF Num
    <2>3. n \notin doc.handed
      BY <1>4, <2>1
    <2> QED BY <2>1, <2>2, <2>3 DEF Store!Fresh
  <1>10. listed' # {} /\ listed' \subseteq DOMAIN shown'
    BY <1>3, <1>7 DEF MayChange
  <1>11. UNCHANGED <<doc.objs, src.objects, src.everUsed \union doc.handed>>
    BY <1>3
  <1> QED BY <1>8, <1>9, <1>10, <1>11 DEF Store!SignedUpdate

\* Every step of the program is a step of the store, or none.
LEMMA StepsAsStore ==
    ASSUME IInv, [Next]_vars
    PROVE  [Store!Next]_(Store!vars)
  <1>1. CASE Read
    BY <1>1, ReadsStore DEF Store!Next
  <1>2. CASE Write
    <2>1. IsGraph(doc.objs) /\ doc.stream \in BOOLEAN
      BY DocumentIs
    <2>2. /\ Writable(WriteSection(doc)) /\ disk' = File(<<WriteSection(doc)>>, 0)
          /\ shown' = Shown(disk') /\ listed' = {} /\ UNCHANGED <<src, doc>>
      BY <1>2 DEF Write
    <2>3. shown' = doc.objs
      BY <2>1, <2>2, WrittenFile
    <2>4. Store!Write
      BY <2>2, <2>3 DEF Store!Write, Store!NoUpdate
    <2> QED BY <2>4 DEF Store!Next
  <1>3. CASE UpdateExhausted
    <2>1. /\ doc' = Taken(doc, allocObjNum(doc)) /\ allocObjNum(doc) \in Num
          /\ listed' = {} /\ UNCHANGED <<disk, src, shown>>
      BY <1>3 DEF UpdateExhausted
    <2>2. doc'.handed = doc.handed \union {allocObjNum(doc)} /\ doc'.objs = doc.objs
      BY <2>1, TakingKeeps
    <2>3. allocObjNum(doc) \in Store!Fresh
      BY <2>1, FreshIs
    <2>4. Used' = Used \union {allocObjNum(doc)}
      BY <2>1, <2>2 DEF Used
    <2>5. Store!Spend
      BY <2>1, <2>2, <2>3, <2>4 DEF Store!Spend, Store!NoUpdate, Used
    <2> QED BY <2>5 DEF Store!Next
  <1>4. ASSUME NEW v \in Values, Add(v) PROVE Store!Next
    BY <1>4, AddsToStore DEF Store!Next
  <1>5. ASSUME NEW n \in Num, NEW v \in Values, Insert(n, v) PROVE Store!Next
    BY <1>5, InsertEdits, ChangesStore DEF Insert, Store!Next
  <1>6. ASSUME NEW n \in Num, NEW v \in Values, SetValue(n, v) PROVE Store!Next
    BY <1>6, SetValueEdits, ChangesStore DEF SetValue, Store!Next
  <1>7. ASSUME NEW n \in Num, Delete(n) PROVE Store!Next
    BY <1>7, DeleteEdits, ChangesStore DEF Delete, Store!Next
  <1>8. ASSUME NEW changed \in SmallSets(Num), WriteIncremental(changed) PROVE Store!Next
    BY <1>8, UpdatesStore DEF Store!Next
  <1>9. ASSUME NEW k \in 2..3, NEW rewritten \in Pairs(DOMAIN doc.objs), NEW v \in Plain,
               WriteSignedIncremental(k, rewritten, v)
        PROVE  Store!Next
    BY <1>9, SignsStore DEF Store!Next
  <1>10. CASE UNCHANGED vars
    BY <1>10 DEF vars, Store!vars
  <1> QED BY <1>1, <1>2, <1>3, <1>4, <1>5, <1>6, <1>7, <1>8, <1>9, <1>10 DEF Next

\* Reading, editing, writing, updating and signing do to the objects what a plain
\* numbered store does: a full write stores the document, an update what it lists
\* and nothing else, and no number is given out twice.
THEOREM KeepsTheStore == Spec => ImplementsStore
  <1>1. IInv /\ [Next]_vars => [Store!Next]_(Store!vars)
    BY StepsAsStore
  <1> QED BY <1>1, StartsAsStore, Agreement, PTL DEF Spec, ImplementsStore, Store!Spec

-----------------------------------------------------------------------------
(* Trees.                                                                   *)

\* An element's page is one some element states, or none.
LEMMA PageOfIs ==
    ASSUME NEW t \in Trees, NEW i \in DOMAIN t.elems
    PROVE  \/ PageOf[t][i] = None
           \/ \E j \in DOMAIN t.elems : PageOf[t][i] = t.elems[j].page
  <1> DEFINE stated  == {j \in Line(t, i) : t.elems[j].page # None}
             nearest == {j \in stated : \A other \in stated : other <= j}
  <1>1. PageOf[t][i] = IF nearest = {} THEN None ELSE t.elems[CHOOSE j \in nearest : TRUE].page
    BY DEF PageOf
  <1>2. nearest \subseteq DOMAIN t.elems
    BY DEF Line
  <1> HIDE DEF nearest
  <1>3. CASE nearest = {}
    BY <1>1, <1>3
  <1>4. CASE nearest # {}
    <2>1. (CHOOSE j \in nearest : TRUE) \in nearest
      BY <1>4
    <2> QED BY <1>1, <1>2, <1>4, <2>1
  <1> QED BY <1>3, <1>4

\* A claim is made by a kid, on what the kid names.
LEMMA ClaimIs ==
    ASSUME NEW t \in Trees, NEW c \in Claims[t]
    PROVE  /\ c.owner \in DOMAIN t.elems
           /\ \E k \in KidsOf(t, c.owner) :
                 /\ k.kind = c.kind
                 /\ \/ c.kind = "mcid" /\ c.on = PageOf[t][c.owner]
                    \/ c.kind = "form" /\ c.on = k.form
                    \/ c.kind = "annot" /\ c.on = k.annot /\ c.mcid = 0
  <1>1. PICK i \in DOMAIN t.elems : c \in UNION {Claim(t, i, n) : n \in DOMAIN t.elems[i].kids}
    BY DEF Claims
  <1>2. PICK n \in DOMAIN t.elems[i].kids : c \in Claim(t, i, n)
    BY <1>1
  <1> DEFINE k == t.elems[i].kids[n]
  <1>3. k \in KidsOf(t, i)
    BY DEF KidsOf, ToSet
  <1>4. \/ k.kind = "mcid" /\ c = [kind |-> k.kind, on |-> PageOf[t][i], mcid |-> k.mcid, owner |-> i, at |-> n]
        \/ k.kind = "form" /\ c = [kind |-> k.kind, on |-> k.form, mcid |-> k.mcid, owner |-> i, at |-> n]
        \/ k.kind = "annot" /\ c = [kind |-> k.kind, on |-> k.annot, mcid |-> 0, owner |-> i, at |-> n]
    BY <1>2 DEF Claim
  <1> HIDE DEF k
  <1>5. c.owner = i
    BY <1>4
  <1> QED BY <1>3, <1>4, <1>5

\* In an accepted tree the claims are on pages, on forms and on annotations of
\* this document that are there.
ClaimsPlaced(t) ==
    \A c \in Claims[t] :
        /\ c.kind \in {"mcid", "form", "annot"}
        /\ c.kind = "mcid"  => c.on \in ToSet(pages)
        /\ c.kind = "form"  => c.on \in Forms
        /\ c.kind = "annot" => c.mcid = 0 /\ c.on \notin Gone /\ \E p \in ToSet(pages) : c.on \in annots[p]

\* And so on one kind of object each.
ClaimsTyped(t) ==
    \A c \in Claims[t] :
        \/ c.kind = "mcid" /\ c.on \in Pages
        \/ c.kind = "form" /\ c.on \in Forms
        \/ c.kind = "annot" /\ c.on \in Annots \ Gone /\ c.mcid = 0

LEMMA AcceptedPlaces ==
    ASSUME NEW t \in Trees, Accepted(t)
    PROVE  ClaimsPlaced(t) /\ \A c \in Claims[t] : PageOf[t][c.owner] \in ToSet(pages)
  <1>1. PageStated(t) /\ OnItsPages(t)
    BY DEF Accepted
  <1> SUFFICES ASSUME NEW c \in Claims[t]
               PROVE  /\ c.kind \in {"mcid", "form", "annot"}
                      /\ c.kind = "mcid"  => c.on \in ToSet(pages)
                      /\ c.kind = "form"  => c.on \in Forms
                      /\ c.kind = "annot" => /\ c.mcid = 0 /\ c.on \notin Gone
                                             /\ \E p \in ToSet(pages) : c.on \in annots[p]
                      /\ PageOf[t][c.owner] \in ToSet(pages)
    BY DEF ClaimsPlaced
  <1> DEFINE i == c.owner
  <1>2. i \in DOMAIN t.elems
    BY ClaimIs
  <1>3. PICK k \in KidsOf(t, i) :
            /\ k.kind = c.kind
            /\ \/ c.kind = "mcid" /\ c.on = PageOf[t][i]
               \/ c.kind = "form" /\ c.on = k.form
               \/ c.kind = "annot" /\ c.on = k.annot /\ c.mcid = 0
    BY ClaimIs
  <1> HIDE DEF i
  <1>4. PageOf[t][i] # None
    BY <1>1, <1>2, <1>3 DEF PageStated
  <1>5. PageOf[t][i] \in ToSet(pages)
    <2>1. PICK j \in DOMAIN t.elems : PageOf[t][i] = t.elems[j].page
      BY <1>2, <1>4, PageOfIs
    <2> QED BY <1>1, <1>4, <2>1 DEF OnItsPages
  <1>6. /\ k.kind = "annot" => k.annot \in annots[PageOf[t][i]] \ Gone
        /\ k.kind = "form" => k.form \in Forms
    BY <1>1, <1>2 DEF OnItsPages
  <1>7. c.kind = "annot" => /\ c.mcid = 0 /\ c.on \notin Gone
                            /\ \E p \in ToSet(pages) : c.on \in annots[p]
    BY <1>3, <1>5, <1>6
  <1>8. c.kind = "form" => c.on \in Forms
    BY <1>3, <1>6
  <1>9. c.kind \in {"mcid", "form", "annot"} /\ (c.kind = "mcid" => c.on \in ToSet(pages))
    BY <1>3, <1>5
  <1> QED BY <1>5, <1>7, <1>8, <1>9 DEF i

LEMMA AcceptedIsTyped ==
    ASSUME NEW t \in Trees, Accepted(t), StructureTypes
    PROVE  ClaimsTyped(t)
  <1>1. ClaimsPlaced(t)
    BY AcceptedPlaces
  <1>2. ToSet(pages) \subseteq Pages
    BY DEF StructureTypes, ToSet
  <1>3. \A p \in ToSet(pages) : annots[p] \subseteq Annots
    BY <1>2 DEF StructureTypes
  <1> QED BY <1>1, <1>2, <1>3 DEF ClaimsPlaced, ClaimsTyped

\* "Nothing past this point can be refused."
LEMMA AcceptedIsWritten ==
    ASSUME NEW t \in Trees, Accepted(t), StructureTypes
    PROVE  ~Trips(t)
  <1>1. ClaimsTyped(t)
    BY AcceptedIsTyped
  <1>2. ClaimsOnce(t)
    BY DEF Accepted
  <1>3. \A c \in Claims[t] : c.on # None /\ c.on \notin Gone
    BY <1>1, StructureAssumption DEF ClaimsTyped
  <1>4. \A c, d \in Claims[t] : c # d => Mark(c) # Mark(d)
    BY <1>2 DEF ClaimsOnce
  <1>5. \A c \in Claims[t] : c.kind = "form" => c.on \in Forms
    BY <1>1 DEF ClaimsTyped
  <1> QED BY <1>3, <1>4, <1>5 DEF Trips

-----------------------------------------------------------------------------
(* Keys.                                                                    *)

\* A list of a set names each of its members once.
IsListOf(s, S) == s \in Seq(S) /\ ToSet(s) = S /\ IsInjective(s)

\* A finite set is listed once each.
LEMMA ListedOnce ==
    ASSUME NEW S, IsFiniteSet(S)
    PROVE  IsListOf(SetToSeq(S), S)
  <1> DEFINE m == Cardinality(S)
             s == SetToSeq(S)
  <1>1. m \in Nat /\ ExistsBijection(1..m, S)
    BY FS_CardinalityType
  <1>2. \E f \in [1..m -> S] : IsInjective(f)
    BY <1>1 DEF ExistsBijection, Bijection, Injection
  <1>3. s \in [1..m -> S] /\ IsInjective(s)
    BY <1>2 DEF SetToSeq
  <1>4. s \in Surjection(1..m, S)
    <2>1. s \in Injection(1..m, S)
      BY <1>3 DEF Injection
    <2>2. IsFiniteSet(1..m) /\ Cardinality(1..m) = m
      BY <1>1, FS_Interval
    <2> HIDE DEF s
    <2> QED BY <2>1, <2>2, FS_Injection
  <1> HIDE DEF s, m
  <1>5. ToSet(s) = S
    BY <1>3, <1>4 DEF Surjection, ToSet
  <1>6. s \in Seq(S)
    BY <1>1, <1>3
  <1> QED BY <1>3, <1>5, <1>6 DEF s, IsListOf

\* Two lists that share nothing make one.
LEMMA ListedTogether ==
    ASSUME NEW S, NEW T, S \cap T = {},
           NEW s, NEW u, IsListOf(s, S), IsListOf(u, T)
    PROVE  IsListOf(s \o u, S \cup T)
  <1>0. s \in Seq(S) /\ u \in Seq(T) /\ ToSet(s) = S /\ ToSet(u) = T /\ IsInjective(s) /\ IsInjective(u)
    BY DEF IsListOf
  <1> DEFINE su == s \o u
  <1>1. su \in Seq(S \cup T) /\ Len(su) = Len(s) + Len(u)
    BY <1>0
  <1>2. \A n \in 1..Len(s) : su[n] = s[n] /\ s[n] \in S
    BY <1>0
  <1>3. \A n \in 1..Len(u) : su[Len(s) + n] = u[n] /\ u[n] \in T
    BY <1>0
  <1>4. DOMAIN su = 1..(Len(s) + Len(u)) /\ DOMAIN s = 1..Len(s) /\ DOMAIN u = 1..Len(u)
    BY <1>1
  <1>5. Len(s) \in Nat /\ Len(u) \in Nat
    BY <1>0
  <1>6. \A n \in DOMAIN su : n \in 1..Len(s) \/ \E k \in 1..Len(u) : n = Len(s) + k
    <2> TAKE n \in DOMAIN su
    <2>1. CASE n <= Len(s)
      BY <1>4, <1>5, <2>1
    <2>2. CASE n > Len(s)
      <3>1. n - Len(s) \in 1..Len(u) /\ n = Len(s) + (n - Len(s))
        BY <1>4, <1>5, <2>2
      <3> QED BY <3>1
    <2> QED BY <1>4, <1>5, <2>1, <2>2
  <1> HIDE DEF su
  <1>7. ToSet(su) = ToSet(s) \cup ToSet(u)
    <2>1. \A n \in DOMAIN su : su[n] \in ToSet(s) \cup ToSet(u)
      <3> TAKE n \in DOMAIN su
      <3>1. CASE n \in 1..Len(s)
        BY <1>2, <1>4, <3>1 DEF ToSet
      <3>2. CASE \E k \in 1..Len(u) : n = Len(s) + k
        BY <1>3, <1>4, <3>2 DEF ToSet
      <3> QED BY <1>6, <3>1, <3>2
    <2>2. \A n \in 1..Len(s) : s[n] \in ToSet(su)
      <3> TAKE n \in 1..Len(s)
      <3>1. n \in DOMAIN su /\ su[n] = s[n]
        BY <1>2, <1>4, <1>5
      <3> QED BY <3>1 DEF ToSet
    <2>3. \A n \in 1..Len(u) : u[n] \in ToSet(su)
      <3> TAKE n \in 1..Len(u)
      <3>1. Len(s) + n \in DOMAIN su /\ su[Len(s) + n] = u[n]
        BY <1>3, <1>4, <1>5
      <3> QED BY <3>1 DEF ToSet
    <2> QED BY <1>4, <2>1, <2>2, <2>3 DEF ToSet
  <1>8. IsInjective(su)
    <2> SUFFICES ASSUME NEW a \in DOMAIN su, NEW b \in DOMAIN su, su[a] = su[b] PROVE a = b
      BY DEF IsInjective
    <2>1. CASE a \in 1..Len(s) /\ b \in 1..Len(s)
      BY <1>0, <1>2, <1>4, <2>1 DEF IsInjective
    <2>2. CASE a \in 1..Len(s) /\ \E k \in 1..Len(u) : b = Len(s) + k
      BY <1>2, <1>3, <2>2
    <2>3. CASE b \in 1..Len(s) /\ \E k \in 1..Len(u) : a = Len(s) + k
      BY <1>2, <1>3, <2>3
    <2>4. CASE (\E k \in 1..Len(u) : a = Len(s) + k) /\ \E k \in 1..Len(u) : b = Len(s) + k
      BY <1>0, <1>3, <1>4, <2>4 DEF IsInjective
    <2> QED BY <1>6, <2>1, <2>2, <2>3, <2>4
  <1> QED BY <1>0, <1>1, <1>7, <1>8 DEF su, IsListOf

\* A page that is not on the list is put at its end.
LEMMA AppendedOnce ==
    ASSUME NEW S, NEW s \in Seq(S), NEW p \in S, IsInjective(s), p \notin ToSet(s)
    PROVE  /\ Append(s, p) \in Seq(S) /\ IsInjective(Append(s, p))
           /\ ToSet(Append(s, p)) = ToSet(s) \cup {p}
  <1> DEFINE sp == Append(s, p)
  <1>1. sp \in Seq(S) /\ DOMAIN sp = 1..(Len(s) + 1) /\ DOMAIN s = 1..Len(s) /\ Len(s) \in Nat
    OBVIOUS
  <1>2. sp[Len(s) + 1] = p /\ \A n \in 1..Len(s) : sp[n] = s[n]
    OBVIOUS
  <1> HIDE DEF sp
  <1>3. \A n \in 1..(Len(s) + 1) : n = Len(s) + 1 \/ n \in 1..Len(s)
    BY <1>1
  <1>4. IsInjective(sp)
    BY <1>1, <1>2, <1>3 DEF IsInjective, ToSet
  <1>5. \A n \in DOMAIN s : n \in DOMAIN sp
    BY <1>1
  <1>6. Len(s) + 1 \in DOMAIN sp
    BY <1>1
  <1>7. ToSet(sp) = ToSet(s) \cup {p}
    BY <1>1, <1>2, <1>3, <1>5, <1>6 DEF ToSet
  <1> QED BY <1>1, <1>4, <1>7 DEF sp

\* The keys of an accepted tree are of what it claims content on.
LEMMA KeyIs ==
    ASSUME NEW t \in Trees, ClaimsTyped(t)
    PROVE  /\ ToSet(Stamped[t]) = {c.on : c \in Claims[t]}
           /\ \A x \in ToSet(Stamped[t]) :
                 /\ Key(t, x) \in Nat
                 /\ Key(t, x) + 1 \in DOMAIN Stamped[t]
                 /\ Stamped[t][Key(t, x) + 1] = x
           /\ IsInjective(Stamped[t])
  <1> DEFINE On(kind) == {c.on : c \in {d \in Claims[t] : d.kind = kind}}
             P == On("mcid")
             F == On("form")
             A == On("annot")
             ps == SetToSeq(P)
             fs == SetToSeq(F)
             as == SetToSeq(A)
  <1>1. Stamped[t] = ps \o fs \o as
    BY DEF Stamped
  <1>2. P \subseteq Pages /\ F \subseteq Forms /\ A \subseteq Annots
    BY DEF ClaimsTyped
  <1>3. {c.on : c \in Claims[t]} = P \cup F \cup A
    BY DEF ClaimsTyped
  <1> HIDE DEF P, F, A
  <1>4. IsFiniteSet(P) /\ IsFiniteSet(F) /\ IsFiniteSet(A)
    BY <1>2, FS_Subset, StructureAssumption
  <1>5. P \cap F = {} /\ (P \cup F) \cap A = {}
    BY <1>2, StructureAssumption
  <1>6. IsListOf(ps, P) /\ IsListOf(fs, F) /\ IsListOf(as, A)
    BY <1>4, ListedOnce
  <1> HIDE DEF ps, fs, as
  <1>7. IsListOf(ps \o fs, P \cup F)
    BY <1>5, <1>6, ListedTogether
  <1>8. IsListOf(ps \o fs \o as, P \cup F \cup A)
    BY <1>5, <1>6, <1>7, ListedTogether
  <1> DEFINE keys == Stamped[t]
             U    == P \cup F \cup A
  <1>9. keys \in Seq(U) /\ ToSet(keys) = {c.on : c \in Claims[t]} /\ IsInjective(keys)
    BY <1>1, <1>3, <1>8 DEF IsListOf
  <1>10. ASSUME NEW x \in ToSet(keys)
         PROVE  Key(t, x) \in Nat /\ Key(t, x) + 1 \in DOMAIN keys /\ keys[Key(t, x) + 1] = x
    <2> DEFINE n == CHOOSE n \in DOMAIN keys : keys[n] = x
    <2>1. Key(t, x) = n - 1
      BY DEF Key
    <2> HIDE DEF keys
    <2>2. n \in DOMAIN keys /\ keys[n] = x
      BY <1>10 DEF ToSet
    <2> HIDE DEF n
    <2>3. n \in Nat /\ n >= 1
      BY <1>9, <2>2
    <2>4. (n - 1) + 1 = n /\ n - 1 \in Nat
      BY <2>3
    <2> QED BY <2>1, <2>2, <2>4
  <1> QED BY <1>9, <1>10

-----------------------------------------------------------------------------
(* The types.                                                               *)

\* The variables keep their types, and no call fails after it began to write.
LEMMA TypesHold == StructureSpec => [](StructureTypes /\ ~broken)
  <1> DEFINE Inv == StructureTypes /\ ~broken
  <1>1. StructureInit => Inv
    <2> SUFFICES ASSUME StructureInit PROVE Inv
      OBVIOUS
    <2>1. PICK f \in Starts :
              /\ pages = f.pages /\ annots = f.annots /\ index = f.index
              /\ tree = IF \A x \in DOMAIN f.index : f.index[x] = None THEN NoTree ELSE Foreign
              /\ version = f.version
      BY DEF StructureInit
    <2>2. /\ f.pages \in Seq(Pages) /\ IsInjective(f.pages)
          /\ f.annots \in [Pages -> SUBSET Annots]
          /\ f.index \in [Pages \cup Forms \cup Annots -> Nat \cup {None}]
          /\ f.version \in {"1.7", "2.0"}
      BY StartsAssumption
    <2>3. pages \in Seq(Pages)
      BY <2>1, <2>2
    <2>4. tree.kind \in {"none", "foreign", "written"}
      BY <2>1 DEF NoTree, Foreign
    <2>5. IsInjective(pages) /\ annots \in [Pages -> SUBSET Annots] /\ version \in {"1.7", "2.0"}
      BY <2>1, <2>2
    <2>6. DOMAIN index = Pages \cup Forms \cup Annots /\ \A x \in DOMAIN index : index[x] \in Nat \cup {None}
      BY <2>1, <2>2
    <2>7. writable \in BOOLEAN /\ declared = 0 /\ broken = FALSE
      BY DEF StructureInit
    <2>8. declared \in 0..2
      BY <2>7
    <2> QED BY <2>3, <2>4, <2>5, <2>6, <2>7, <2>8 DEF StructureTypes
  <1>2. Inv /\ [StructureNext]_structureVars => Inv'
    <2> SUFFICES ASSUME Inv, [StructureNext]_structureVars PROVE Inv'
      OBVIOUS
    <2>1. CASE RemoveTree
      BY <2>1 DEF RemoveTree, StructureTypes, ClearedIndex, NoTree
    <2>2. ASSUME NEW t \in Trees, SetStructureTree(t) PROVE Inv'
      <3>1. ~Trips(t)
        BY <2>2, AcceptedIsWritten DEF SetStructureTree
      <3>2. /\ index' = [x \in DOMAIN index |->
                   IF x \in ToSet(Stamped[t]) THEN Key(t, x) ELSE ClearedIndex[x]]
            /\ tree' = IF declared = 2 THEN Placed(WrittenTree(t)) ELSE WrittenTree(t)
            /\ UNCHANGED <<writable, pages, annots, version, declared, broken>>
        BY <2>2, <3>1 DEF SetStructureTree
      <3>3. \A x \in DOMAIN index : ClearedIndex[x] \in Nat \cup {None}
        BY DEF ClearedIndex, StructureTypes
      <3>4. \A x \in ToSet(Stamped[t]) : Key(t, x) \in Nat
        BY <2>2, AcceptedIsTyped, KeyIs DEF SetStructureTree
      <3>5. tree'.kind = "written"
        BY <3>2 DEF Placed, WrittenTree
      <3> QED BY <3>2, <3>3, <3>4, <3>5 DEF StructureTypes
    <2>3. ASSUME NEW part \in {1, 2}, DeclarePDFUA(part) PROVE Inv'
      <3>1. tree'.kind \in {"none", "foreign", "written"}
        BY <2>3 DEF DeclarePDFUA, StructureTypes, Placed
      <3>2. declared' \in 0..2
        BY <2>3 DEF DeclarePDFUA
      <3> QED BY <2>3, <3>1, <3>2 DEF DeclarePDFUA, StructureTypes
    <2>4. ASSUME NEW p \in Pages, AddPage(p) PROVE Inv'
      <3>1. p \notin ToSet(pages) /\ pages' = Append(pages, p)
        BY <2>4 DEF AddPage
      <3>2. pages' \in Seq(Pages) /\ IsInjective(pages')
        BY <2>4, <3>1, AppendedOnce DEF StructureTypes
      <3> QED BY <2>4, <3>2 DEF AddPage, StructureTypes
    <2>5. ASSUME NEW p \in Pages, NEW a \in Annots \ Gone, AddAnnotation(p, a) PROVE Inv'
      BY <2>5 DEF AddAnnotation, StructureTypes
    <2>6. ASSUME NEW v \in {"1.7", "2.0"}, SetVersion(v) PROVE Inv'
      BY <2>6 DEF SetVersion, StructureTypes
    <2>7. CASE UNCHANGED structureVars
      BY <2>7 DEF structureVars, StructureTypes
    <2> QED BY <2>1, <2>2, <2>3, <2>4, <2>5, <2>6, <2>7 DEF StructureNext
  <1> QED BY <1>1, <1>2, PTL DEF StructureSpec

\* "Nothing past this point can be refused": what the checks of SetStructureTree
\* let through, the writer has a page, a free identifier and an object for,
\* whatever the tree and the document.
THEOREM NeverRefusedLate == StructureSpec => []RefusedBeforeWriting
  <1>1. StructureTypes /\ ~broken => RefusedBeforeWriting
    BY DEF RefusedBeforeWriting
  <1> QED BY <1>1, TypesHold, PTL

-----------------------------------------------------------------------------
(* What is written.                                                         *)

\* A tree as it is written, some of its top Documents put in the namespace.
IsWritten(s, t) ==
    /\ DOMAIN s = {"kind", "elems", "root", "roles", "marked", "nums", "ids", "namespaces"}
    /\ s.kind = "written" /\ s.root = ToSet(t.root) /\ s.roles = t.roles
    /\ s.nums = WrittenTree(t).nums /\ s.ids = WrittenTree(t).ids
    /\ s.elems = [i \in DOMAIN t.elems |-> [tag |-> t.elems[i].tag, ns |-> s.elems[i].ns]]
    /\ \A i \in DOMAIN t.elems :
          /\ s.elems[i].ns \in BOOLEAN
          /\ s.elems[i].ns => t.elems[i].tag \in Only20 \cup {"Document"}
          /\ t.elems[i].tag \in Only20 \ Standard => s.elems[i].ns
          /\ s.elems[i].ns => s.namespaces = 1
    /\ s.namespaces \in {0, 1}

TopsPlaced(s) == \A i \in s.root \cap DOMAIN s.elems : s.elems[i].tag = "Document" => s.elems[i].ns

\* A tree is written as it is.
LEMMA AsWritten ==
    ASSUME NEW t \in Trees
    PROVE  IsWritten(WrittenTree(t), t)
  <1> DEFINE w == WrittenTree(t)
  <1>1. w.elems = [i \in DOMAIN t.elems |->
                     [tag |-> t.elems[i].tag, ns |-> t.elems[i].tag \in Only20 \ Standard]]
    BY DEF WrittenTree, Written
  <1>2. w.namespaces = IF \E i \in DOMAIN t.elems : Written(t)[i].ns THEN 1 ELSE 0
    BY DEF WrittenTree
  <1>3. \A i \in DOMAIN t.elems : w.elems[i].ns = Written(t)[i].ns
    BY DEF WrittenTree
  <1>4. /\ DOMAIN w = {"kind", "elems", "root", "roles", "marked", "nums", "ids", "namespaces"}
        /\ w.kind = "written" /\ w.root = ToSet(t.root) /\ w.roles = t.roles
    BY DEF WrittenTree
  <1> HIDE DEF w
  <1>5. \A i \in DOMAIN t.elems : /\ w.elems[i].tag = t.elems[i].tag
                                 /\ w.elems[i].ns = (t.elems[i].tag \in Only20 \ Standard)
    BY <1>1
  <1>6. w.elems = [i \in DOMAIN t.elems |-> [tag |-> t.elems[i].tag, ns |-> w.elems[i].ns]]
    BY <1>1, <1>5
  <1>7. w.namespaces \in {0, 1}
    BY <1>2
  <1>8. \A i \in DOMAIN t.elems : w.elems[i].ns => w.namespaces = 1
    BY <1>2, <1>3
  <1>9. \A i \in DOMAIN t.elems :
          /\ w.elems[i].ns \in BOOLEAN
          /\ w.elems[i].ns => t.elems[i].tag \in Only20 \cup {"Document"}
          /\ t.elems[i].tag \in Only20 \ Standard => w.elems[i].ns
    <2> TAKE i \in DOMAIN t.elems
    <2> DEFINE only == t.elems[i].tag \in Only20 \ Standard
    <2>1. w.elems[i].ns = only
      BY <1>5
    <2>2. only \in BOOLEAN
      OBVIOUS
    <2>3. only => t.elems[i].tag \in Only20 \cup {"Document"}
      OBVIOUS
    <2> QED BY <2>1, <2>2, <2>3
  <1> QED BY <1>4, <1>6, <1>7, <1>8, <1>9 DEF IsWritten, w

\* Placing it leaves a tree as it is written, with every top Document moved.
LEMMA AsPlaced ==
    ASSUME NEW t \in Trees, NEW s, IsWritten(s, t)
    PROVE  IsWritten(Placed(s), t) /\ TopsPlaced(Placed(s))
  <1> DEFINE moved == {i \in s.root : s.elems[i].tag = "Document" /\ ~s.elems[i].ns}
             w == Placed(s)
  <1>1. /\ DOMAIN s = {"kind", "elems", "root", "roles", "marked", "nums", "ids", "namespaces"}
        /\ s.kind = "written" /\ s.root = ToSet(t.root) /\ s.roles = t.roles
        /\ s.nums = WrittenTree(t).nums /\ s.ids = WrittenTree(t).ids
        /\ s.elems = [i \in DOMAIN t.elems |-> [tag |-> t.elems[i].tag, ns |-> s.elems[i].ns]]
        /\ s.namespaces \in {0, 1}
    BY DEF IsWritten
  <1>2. \A i \in DOMAIN t.elems :
          /\ s.elems[i].ns \in BOOLEAN
          /\ s.elems[i].ns => t.elems[i].tag \in Only20 \cup {"Document"}
          /\ t.elems[i].tag \in Only20 \ Standard => s.elems[i].ns
          /\ s.elems[i].ns => s.namespaces = 1
    BY DEF IsWritten
  <1>3. w = [s EXCEPT !.elems = [i \in DOMAIN s.elems |-> [s.elems[i] EXCEPT !.ns = @ \/ i \in moved]],
                      !.namespaces = IF moved = {} \/ @ > 0 THEN @ ELSE @ + 1]
    BY DEF Placed
  <1>4. DOMAIN s.elems = DOMAIN t.elems /\ \A i \in DOMAIN t.elems : s.elems[i].tag = t.elems[i].tag
    BY <1>1
  <1> HIDE DEF moved, w
  <1>5. /\ DOMAIN w = {"kind", "elems", "root", "roles", "marked", "nums", "ids", "namespaces"}
        /\ w.kind = "written" /\ w.root = ToSet(t.root) /\ w.roles = t.roles
        /\ w.nums = WrittenTree(t).nums /\ w.ids = WrittenTree(t).ids
        /\ w.elems = [i \in DOMAIN t.elems |-> [s.elems[i] EXCEPT !.ns = @ \/ i \in moved]]
        /\ w.namespaces = IF moved = {} \/ s.namespaces > 0 THEN s.namespaces ELSE s.namespaces + 1
    <2> DEFINE e == [i \in DOMAIN t.elems |-> [s.elems[i] EXCEPT !.ns = @ \/ i \in moved]]
               m == IF moved = {} \/ s.namespaces > 0 THEN s.namespaces ELSE s.namespaces + 1
    <2>1. w = [s EXCEPT !.elems = e, !.namespaces = m]
      BY <1>3, <1>4
    <2> HIDE DEF e, m
    <2>2. DOMAIN w = DOMAIN s /\ w.elems = e /\ w.namespaces = m
      BY <1>1, <2>1
    <2>3. w.kind = s.kind /\ w.root = s.root /\ w.roles = s.roles /\ w.nums = s.nums /\ w.ids = s.ids
      BY <1>1, <2>1
    <2> QED BY <1>1, <2>2, <2>3 DEF e, m
  <1>6. \A i \in DOMAIN t.elems : /\ w.elems[i].tag = t.elems[i].tag
                                 /\ w.elems[i].ns = (s.elems[i].ns \/ i \in moved)
                                 /\ w.elems[i] = [tag |-> t.elems[i].tag, ns |-> w.elems[i].ns]
    <2> TAKE i \in DOMAIN t.elems
    <2>1. w.elems[i] = [s.elems[i] EXCEPT !.ns = @ \/ i \in moved]
      BY <1>5
    <2>2. s.elems[i] = [tag |-> t.elems[i].tag, ns |-> s.elems[i].ns]
      BY <1>1
    <2> DEFINE either == s.elems[i].ns \/ i \in moved
    <2>3. w.elems[i] = [s.elems[i] EXCEPT !.ns = either]
      BY <2>1
    <2> HIDE DEF either
    <2>4. w.elems[i] = [tag |-> t.elems[i].tag, ns |-> either]
      BY <2>2, <2>3
    <2>5. w.elems[i].tag = t.elems[i].tag /\ w.elems[i].ns = either
      BY <2>4
    <2> QED BY <2>4, <2>5 DEF either
  <1>7. w.namespaces \in {0, 1} /\ (moved # {} => w.namespaces = 1) /\ (s.namespaces = 1 => w.namespaces = 1)
    BY <1>1, <1>5
  <1>8. \A i \in DOMAIN t.elems : i \in moved => t.elems[i].tag = "Document"
    BY <1>4 DEF moved
  <1>9. \A i \in DOMAIN t.elems :
          /\ w.elems[i].ns \in BOOLEAN
          /\ w.elems[i].ns => t.elems[i].tag \in Only20 \cup {"Document"}
          /\ t.elems[i].tag \in Only20 \ Standard => w.elems[i].ns
          /\ w.elems[i].ns => w.namespaces = 1
    <2> TAKE i \in DOMAIN t.elems
    <2> DEFINE had == s.elems[i].ns
               has == w.elems[i].ns
               tag == t.elems[i].tag
    <2>1. has = (had \/ i \in moved)
      BY <1>6
    <2>2. /\ had \in BOOLEAN
          /\ had => tag \in Only20 \cup {"Document"}
          /\ tag \in Only20 \ Standard => had
          /\ had => s.namespaces = 1
      BY <1>2
    <2>3. i \in moved => tag = "Document" /\ moved # {}
      BY <1>8
    <2> HIDE DEF had, has, tag
    <2>4. has \in BOOLEAN /\ (has <=> had \/ i \in moved)
      BY <2>1, <2>2
    <2>5. /\ has \in BOOLEAN
          /\ has => tag \in Only20 \cup {"Document"}
          /\ tag \in Only20 \ Standard => has
          /\ has => w.namespaces = 1
      BY <1>7, <2>2, <2>3, <2>4
    <2> QED BY <2>5 DEF has, tag
  <1>10. TopsPlaced(w)
    <2> SUFFICES ASSUME NEW i \in w.root \cap DOMAIN w.elems, w.elems[i].tag = "Document" PROVE w.elems[i].ns
      BY DEF TopsPlaced
    <2>1. i \in DOMAIN t.elems /\ i \in s.root
      <3>1. w.root = ToSet(t.root)
        BY <1>5
      <3>2. s.root = ToSet(t.root)
        BY <1>1
      <3> QED BY <1>5, <3>1, <3>2
    <2>2. s.elems[i].tag = "Document" /\ w.elems[i].ns = (s.elems[i].ns \/ i \in moved)
      BY <1>4, <1>6, <2>1
    <2>3. s.elems[i].ns \/ i \in moved
      BY <2>1, <2>2 DEF moved
    <2> QED BY <2>2, <2>3
  <1> QED BY <1>5, <1>6, <1>7, <1>9, <1>10 DEF IsWritten, w

\* What was asked of a tree when it was set, as far as its types go.
Explained(t) ==
    /\ \A i \in DOMAIN t.elems : t.elems[i].tag \in Standard \cup Only20 \cup DOMAIN t.roles
    /\ RolesStandard(t) /\ IDsUnique(t)
    /\ \A i \in DOMAIN t.elems : t.elems[i].headers \subseteq {t.elems[j].id : j \in DOMAIN t.elems} \ {None}

TreeInv ==
    /\ tree.kind = "written" =>
          /\ asked \in Trees /\ Explained(asked) /\ ClaimsOnce(asked) /\ ClaimsTyped(asked)
          /\ IsWritten(tree, asked)
          /\ declared = 2 => TopsPlaced(tree)
    /\ tree.kind # "written" => asked = None /\ tree \in {NoTree, Foreign}

LEMMA AcceptedIsExplained ==
    ASSUME NEW t \in Trees, Accepted(t)
    PROVE  Explained(t)
  <1>1. \A i \in DOMAIN t.elems : TagKnown(t.elems[i].tag, t.roles)
    BY DEF Accepted
  <1>2. AttributesTold(t) /\ RolesStandard(t) /\ IDsUnique(t)
    BY DEF Accepted
  <1>3. \A i \in DOMAIN t.elems : t.elems[i].tag \in Standard \cup Only20 \cup DOMAIN t.roles
    BY <1>1 DEF TagKnown
  <1> QED BY <1>2, <1>3 DEF AttributesTold, Explained

\* The tree in the document is the one asked for.
LEMMA TreeHolds == StructureSpec => []TreeInv
  <1>1. StructureInit => TreeInv
    BY DEF StructureInit, TreeInv, NoTree, Foreign
  <1>2. TreeInv /\ StructureTypes /\ [StructureNext]_structureVars => TreeInv'
    <2> SUFFICES ASSUME TreeInv, StructureTypes, [StructureNext]_structureVars PROVE TreeInv'
      OBVIOUS
    <2>1. CASE RemoveTree
      BY <2>1 DEF RemoveTree, TreeInv, NoTree
    <2>2. ASSUME NEW t \in Trees, SetStructureTree(t) PROVE TreeInv'
      <3>1. Accepted(t) /\ ~Trips(t)
        BY <2>2, AcceptedIsWritten DEF SetStructureTree
      <3>2. /\ tree' = IF declared = 2 THEN Placed(WrittenTree(t)) ELSE WrittenTree(t)
            /\ asked' = t /\ declared' = declared
        BY <2>2, <3>1 DEF SetStructureTree
      <3>3. IsWritten(tree', t) /\ (declared = 2 => TopsPlaced(tree'))
        BY <3>2, AsWritten, AsPlaced
      <3>4. Explained(t) /\ ClaimsOnce(t) /\ ClaimsTyped(t)
        BY <3>1, AcceptedIsExplained, AcceptedIsTyped DEF Accepted
      <3>5. tree'.kind = "written"
        BY <3>3 DEF IsWritten
      <3>6. IsWritten(tree', asked') /\ Explained(asked') /\ ClaimsOnce(asked') /\ ClaimsTyped(asked')
        BY <3>2, <3>3, <3>4
      <3> QED BY <3>2, <3>3, <3>5, <3>6 DEF TreeInv
    <2>3. ASSUME NEW part \in {1, 2}, DeclarePDFUA(part) PROVE TreeInv'
      <3>1. /\ declared' = part /\ asked' = asked
            /\ tree' = IF part = 2 /\ tree.kind = "written" THEN Placed(tree) ELSE tree
        BY <2>3 DEF DeclarePDFUA
      <3>2. CASE part = 2 /\ tree.kind = "written"
        <4>1. IsWritten(tree, asked) /\ asked \in Trees
          BY <3>2 DEF TreeInv
        <4>2. IsWritten(tree', asked) /\ TopsPlaced(tree')
          BY <3>1, <3>2, <4>1, AsPlaced
        <4>3. tree'.kind = "written"
          BY <4>2 DEF IsWritten
        <4> QED BY <3>1, <3>2, <4>2, <4>3 DEF TreeInv
      <3>3. CASE ~(part = 2 /\ tree.kind = "written")
        BY <3>1, <3>3 DEF TreeInv
      <3> QED BY <3>2, <3>3
    <2>4. ASSUME UNCHANGED <<tree, asked, declared>> PROVE TreeInv'
      BY <2>4 DEF TreeInv
    <2>5. ASSUME NEW p \in Pages, AddPage(p) PROVE TreeInv'
      BY <2>4, <2>5 DEF AddPage
    <2>6. ASSUME NEW p \in Pages, NEW a \in Annots \ Gone, AddAnnotation(p, a) PROVE TreeInv'
      BY <2>4, <2>6 DEF AddAnnotation
    <2>7. ASSUME NEW v \in {"1.7", "2.0"}, SetVersion(v) PROVE TreeInv'
      BY <2>4, <2>7 DEF SetVersion
    <2>8. CASE UNCHANGED structureVars
      BY <2>4, <2>8 DEF structureVars
    <2> QED BY <2>1, <2>2, <2>3, <2>5, <2>6, <2>7, <2>8 DEF StructureNext
  <1> QED BY <1>1, <1>2, TypesHold, PTL DEF StructureSpec

\* Every type written is one its namespace has or the role map explains, the
\* namespace is listed once, and every header named is one cell, whichever of the
\* tree, the version and the declaration of PDF/UA came first.
THEOREM TypesStayDefined == StructureSpec => []TypesDefined
  <1>1. TreeInv => TypesDefined
    <2> SUFFICES ASSUME TreeInv, tree.kind = "written"
                 PROVE  /\ \A i \in DOMAIN tree.elems : LET e == tree.elems[i] IN
                              /\ e.ns => e.tag \in Only20 \cup {"Document"}
                              /\ ~e.ns => e.tag \in Standard
                                              \cup {tag \in DOMAIN tree.roles : tree.roles[tag] \in Standard}
                              /\ (declared = 2 /\ i \in tree.root /\ e.tag = "Document") => e.ns
                        /\ (\E i \in DOMAIN tree.elems : tree.elems[i].ns) => tree.namespaces = 1
                        /\ \A i \in DOMAIN asked.elems : \A h \in asked.elems[i].headers :
                              Cardinality({e \in tree.ids : e[1] = h}) = 1
      BY DEF TypesDefined
    <2>1. /\ asked \in Trees /\ Explained(asked) /\ IsWritten(tree, asked)
          /\ declared = 2 => TopsPlaced(tree)
      BY DEF TreeInv
    <2>2. /\ tree.elems = [i \in DOMAIN asked.elems |-> [tag |-> asked.elems[i].tag, ns |-> tree.elems[i].ns]]
          /\ tree.root = ToSet(asked.root) /\ tree.roles = asked.roles
          /\ tree.nums = WrittenTree(asked).nums /\ tree.ids = WrittenTree(asked).ids
      BY <2>1 DEF IsWritten
    <2>3. \A i \in DOMAIN asked.elems :
            /\ tree.elems[i].ns => asked.elems[i].tag \in Only20 \cup {"Document"}
            /\ asked.elems[i].tag \in Only20 \ Standard => tree.elems[i].ns
            /\ tree.elems[i].ns => tree.namespaces = 1
      BY <2>1 DEF IsWritten
    <2>4. /\ DOMAIN tree.elems = DOMAIN asked.elems
          /\ \A i \in DOMAIN asked.elems : tree.elems[i].tag = asked.elems[i].tag
      BY <2>2
    <2>5. tree.roles = asked.roles /\ tree.ids = WrittenTree(asked).ids
      BY <2>2
    <2>6. ASSUME NEW i \in DOMAIN asked.elems
          PROVE  ~tree.elems[i].ns => asked.elems[i].tag
                   \in Standard \cup {tag \in DOMAIN tree.roles : tree.roles[tag] \in Standard}
      BY <2>1, <2>3, <2>5 DEF Explained, RolesStandard
    <2>7. ASSUME NEW i \in DOMAIN asked.elems
          PROVE  (declared = 2 /\ i \in tree.root /\ tree.elems[i].tag = "Document") => tree.elems[i].ns
      BY <2>1, <2>4 DEF TopsPlaced
    <2>8. ASSUME NEW i \in DOMAIN asked.elems, NEW h \in asked.elems[i].headers
          PROVE  Cardinality({e \in tree.ids : e[1] = h}) = 1
      <3>1. PICK j \in DOMAIN asked.elems : asked.elems[j].id = h /\ h # None
        BY <2>1, <2>8 DEF Explained
      <3>2. tree.ids = {<<asked.elems[n].id, n>> : n \in {m \in DOMAIN asked.elems : asked.elems[m].id # None}}
        BY <2>5 DEF WrittenTree
      <3>3. \A n \in DOMAIN asked.elems : asked.elems[n].id = h => n = j
        BY <2>1, <3>1 DEF Explained, IDsUnique
      <3>4. {e \in tree.ids : e[1] = h} = {<<h, j>>}
        BY <3>1, <3>2, <3>3
      <3> QED BY <3>4, FS_Singleton
    <2>9. (\E i \in DOMAIN tree.elems : tree.elems[i].ns) => tree.namespaces = 1
      BY <2>3, <2>4
    <2>10. \A i \in DOMAIN tree.elems : LET e == tree.elems[i] IN
             /\ e.ns => e.tag \in Only20 \cup {"Document"}
             /\ ~e.ns => e.tag \in Standard \cup {tag \in DOMAIN tree.roles : tree.roles[tag] \in Standard}
             /\ (declared = 2 /\ i \in tree.root /\ e.tag = "Document") => e.ns
      BY <2>3, <2>4, <2>6, <2>7
    <2> QED BY <2>8, <2>9, <2>10
  <1> QED BY <1>1, TreeHolds, PTL

-----------------------------------------------------------------------------
(* The indices.                                                             *)

\* An index is only on what is on the pages, and is the key of what the tree
\* claims content on and of nothing else.
IndexInv ==
    /\ \A x \in DOMAIN index : index[x] # None => x \in OnThePages(pages, annots)
    /\ tree.kind = "none" => \A x \in DOMAIN index : index[x] = None
    /\ tree.kind = "written" =>
          \A x \in DOMAIN index :
              index[x] = IF x \in ToSet(Stamped[asked]) THEN Key(asked, x) ELSE None

LEMMA OnThePagesIs ==
    ASSUME NEW list, NEW carried, NEW x
    PROVE  x \in OnThePages(list, carried) <=>
             x \notin Gone /\ \E p \in ToSet(list) : x = p \/ x \in Drawn(p) \/ x \in carried[p]
  <1> DEFINE at(p) == {p} \cup Drawn(p) \cup carried[p]
             all   == UNION {at(p) : p \in ToSet(list)}
  <1>1. OnThePages(list, carried) = all \ Gone
    BY DEF OnThePages
  <1>2. \A p : x \in at(p) <=> x = p \/ x \in Drawn(p) \/ x \in carried[p]
    OBVIOUS
  <1> HIDE DEF at
  <1>3. x \in all <=> \E p \in ToSet(list) : x \in at(p)
    OBVIOUS
  <1> HIDE DEF all
  <1> QED BY <1>1, <1>2, <1>3

LEMMA OnThePagesTyped ==
    ASSUME StructureTypes, NEW x \in OnThePages(pages, annots)
    PROVE  x \in DOMAIN index
  <1>1. PICK p \in ToSet(pages) : x = p \/ x \in Drawn(p) \/ x \in annots[p]
    BY OnThePagesIs
  <1>2. p \in Pages /\ annots[p] \subseteq Annots
    BY DEF StructureTypes, ToSet
  <1>3. Drawn(p) \subseteq Forms
    BY DEF Drawn
  <1> QED BY <1>1, <1>2, <1>3 DEF StructureTypes

\* What is on the pages stays there as pages are added, and annotations to them.
LEMMA StaysOnThePages ==
    ASSUME NEW l1, NEW l2, NEW a1, NEW a2,
           ToSet(l1) \subseteq ToSet(l2), \A p \in ToSet(l1) : a1[p] \subseteq a2[p]
    PROVE  OnThePages(l1, a1) \subseteq OnThePages(l2, a2)
  <1> SUFFICES ASSUME NEW x \in OnThePages(l1, a1) PROVE x \in OnThePages(l2, a2)
    OBVIOUS
  <1>1. x \notin Gone /\ \E p \in ToSet(l1) : x = p \/ x \in Drawn(p) \/ x \in a1[p]
    BY OnThePagesIs
  <1>2. PICK p \in ToSet(l1) : x = p \/ x \in Drawn(p) \/ x \in a1[p]
    BY <1>1
  <1>3. p \in ToSet(l2) /\ (x = p \/ x \in Drawn(p) \/ x \in a2[p])
    BY <1>2
  <1> QED BY <1>1, <1>3, OnThePagesIs

\* clearStructureIndices leaves no index at all.
LEMMA NothingLeft ==
    ASSUME StructureTypes, IndexInv, WalkFindsAll
    PROVE  \A x \in DOMAIN index : ClearedIndex[x] = None
  <1>1. ASSUME NEW p \in ToSet(pages) PROVE Drawn(p) \subseteq ReachedForms
    <2> DEFINE n == Len(pages)
    <2>1. n \in Nat /\ pages \in [1..n -> Pages] /\ IsInjective(pages)
      BY DEF StructureTypes
    <2>2. pages \in Injection(1..n, Pages)
      BY <2>1 DEF Injection
    <2>3. IsFiniteSet(Pages)
      BY StructureAssumption
    <2>4. Cardinality(1..n) <= Cardinality(Pages) /\ Cardinality(Pages) \in Nat
      BY <2>2, <2>3, FS_Injection, FS_CardinalityType
    <2>5. Cardinality(1..n) = n
      BY <2>1, FS_Interval
    <2>6. n \in 0..Cardinality(Pages)
      BY <2>1, <2>4, <2>5
    <2> HIDE DEF n
    <2>7. \A q \in ToSet(pages) : Drawn(q) \subseteq FormsCleared(pages)
      BY <2>1, <2>6 DEF WalkFindsAll
    <2> QED BY <2>7 DEF ReachedForms
  <1> SUFFICES ASSUME NEW x \in DOMAIN index, index[x] # None PROVE ClearedIndex[x] = None
    BY DEF ClearedIndex
  <1>2. x \in OnThePages(pages, annots)
    BY DEF IndexInv
  <1>3. x \notin Gone /\ \E p \in ToSet(pages) : x = p \/ x \in Drawn(p) \/ x \in annots[p]
    BY <1>2, OnThePagesIs
  <1>4. PICK p \in ToSet(pages) : x = p \/ x \in Drawn(p) \/ x \in annots[p]
    BY <1>3
  <1>5. CASE x \in annots[p]
    <2>1. x \in ReachedAnnots
      <3> DEFINE all == UNION {annots[q] : q \in ToSet(pages)}
      <3>1. x \in all
        BY <1>5
      <3>2. ReachedAnnots = all \ Gone
        BY DEF ReachedAnnots
      <3> HIDE DEF all
      <3> QED BY <1>3, <3>1, <3>2
    <2> QED BY <2>1 DEF ClearedIndex
  <1>6. CASE x = p
    BY <1>6 DEF ClearedIndex
  <1>7. CASE x \in Drawn(p)
    <2>1. x \in ReachedForms
      BY <1>1, <1>7
    <2> QED BY <2>1 DEF ClearedIndex
  <1> QED BY <1>4, <1>5, <1>6, <1>7

\* What a tree claims content on is on the pages.
LEMMA ClaimedOnThePages ==
    ASSUME NEW t \in Trees, Accepted(t), DrawnWhereNamed(t), StructureTypes, NEW c \in Claims[t]
    PROVE  c.on \in OnThePages(pages, annots)
  <1> DEFINE own == PageOf[t][c.owner]
  <1>1. ClaimsPlaced(t) /\ ClaimsTyped(t) /\ own \in ToSet(pages)
    BY AcceptedPlaces, AcceptedIsTyped
  <1>2. own \in Pages
    BY <1>1 DEF StructureTypes, ToSet
  <1>3. c.on \notin Gone
    BY <1>1, StructureAssumption DEF ClaimsTyped
  <1>4. CASE c.kind = "mcid"
    <2>1. c.on \in ToSet(pages)
      BY <1>1, <1>4 DEF ClaimsPlaced
    <2> QED BY <1>3, <2>1, OnThePagesIs
  <1>5. CASE c.kind = "annot"
    <2>1. \E p \in ToSet(pages) : c.on \in annots[p]
      BY <1>1, <1>5 DEF ClaimsPlaced
    <2> QED BY <1>3, <2>1, OnThePagesIs
  <1>6. CASE c.kind = "form"
    <2>1. c.owner \in DOMAIN t.elems /\ \E k \in KidsOf(t, c.owner) : k.kind = "form" /\ k.form = c.on
      BY <1>6, ClaimIs
    <2>2. c.on \in Forms
      BY <1>1, <1>6 DEF ClaimsPlaced
    <2>3. c.on \in Drawn(own)
      BY <1>2, <2>1, <2>2 DEF DrawnWhereNamed
    <2> HIDE DEF own
    <2> QED BY <1>1, <1>3, <2>3, OnThePagesIs
  <1> QED BY <1>1, <1>4, <1>5, <1>6 DEF ClaimsPlaced

\* And the indices are its keys.
LEMMA IndexHolds == ASSUME WalkFindsAll PROVE StructureSpec => []IndexInv
  <1>1. StructureInit => IndexInv
    <2> SUFFICES ASSUME StructureInit PROVE IndexInv
      OBVIOUS
    <2>1. PICK f \in Starts :
              /\ pages = f.pages /\ annots = f.annots /\ index = f.index
              /\ tree = IF \A x \in DOMAIN f.index : f.index[x] = None THEN NoTree ELSE Foreign
      BY DEF StructureInit
    <2>2. \A x \in DOMAIN f.index : f.index[x] # None => x \in OnThePages(f.pages, f.annots)
      BY StartsAssumption
    <2>3. \A x \in DOMAIN index : index[x] # None => x \in OnThePages(pages, annots)
      BY <2>1, <2>2
    <2>4. tree.kind # "written" /\ (tree.kind = "none" => \A x \in DOMAIN index : index[x] = None)
      BY <2>1 DEF NoTree, Foreign
    <2> QED BY <2>3, <2>4 DEF IndexInv
  <1>2. IndexInv /\ StructureTypes /\ StructureTypes' /\ TreeInv /\ [StructureNext]_structureVars => IndexInv'
    <2> SUFFICES ASSUME IndexInv, StructureTypes, StructureTypes', TreeInv, [StructureNext]_structureVars
                 PROVE  IndexInv'
      OBVIOUS
    <2>1. CASE RemoveTree
      <3>1. \A x \in DOMAIN index : ClearedIndex[x] = None
        BY NothingLeft
      <3>2. index' = ClearedIndex /\ tree' = NoTree
        BY <2>1 DEF RemoveTree
      <3>3. \A x \in DOMAIN index' : index'[x] = None
        BY <3>1, <3>2 DEF ClearedIndex
      <3> QED BY <3>2, <3>3 DEF IndexInv, NoTree
    <2>2. ASSUME NEW t \in Trees, DrawnWhereNamed(t), SetStructureTree(t) PROVE IndexInv'
      <3>1. Accepted(t) /\ ~Trips(t)
        BY <2>2, AcceptedIsWritten DEF SetStructureTree
      <3>2. /\ index' = [x \in DOMAIN index |->
                   IF x \in ToSet(Stamped[t]) THEN Key(t, x) ELSE ClearedIndex[x]]
            /\ tree' = IF declared = 2 THEN Placed(WrittenTree(t)) ELSE WrittenTree(t)
            /\ asked' = t /\ pages' = pages /\ annots' = annots
        BY <2>2, <3>1 DEF SetStructureTree
      <3>3. \A x \in DOMAIN index' :
              index'[x] = IF x \in ToSet(Stamped[t]) THEN Key(t, x) ELSE None
        BY <3>2, NothingLeft
      <3>4. tree'.kind = "written"
        BY <3>2 DEF Placed, WrittenTree
      <3>5. ToSet(Stamped[t]) = {c.on : c \in Claims[t]}
        BY <3>1, AcceptedIsTyped, KeyIs
      <3>6. \A x \in ToSet(Stamped[t]) : x \in OnThePages(pages, annots)
        BY <2>2, <3>1, <3>5, ClaimedOnThePages
      <3>7. \A x \in DOMAIN index' : index'[x] # None => x \in OnThePages(pages', annots')
        BY <3>2, <3>3, <3>6
      <3> QED BY <3>2, <3>3, <3>4, <3>7 DEF IndexInv
    <2>3. ASSUME NEW part \in {1, 2}, DeclarePDFUA(part) PROVE IndexInv'
      <3>1. /\ tree'.kind = tree.kind
            /\ index' = index /\ pages' = pages /\ annots' = annots /\ asked' = asked
        BY <2>3 DEF DeclarePDFUA, Placed
      <3> QED BY <3>1 DEF IndexInv
    <2>4. ASSUME NEW p \in Pages, AddPage(p) PROVE IndexInv'
      <3>1. p \notin ToSet(pages) /\ pages' = Append(pages, p) /\ UNCHANGED <<annots, index, tree, asked>>
        BY <2>4 DEF AddPage
      <3>2. ToSet(pages) \subseteq ToSet(pages')
        BY <3>1, AppendedOnce DEF StructureTypes
      <3>3. \A q \in ToSet(pages) : annots[q] \subseteq annots'[q]
        BY <3>1
      <3>4. OnThePages(pages, annots) \subseteq OnThePages(pages', annots')
        BY <3>2, <3>3, StaysOnThePages
      <3> QED BY <3>1, <3>4 DEF IndexInv
    <2>5. ASSUME NEW p \in Pages, NEW a \in Annots \ Gone, AddAnnotation(p, a) PROVE IndexInv'
      <3>1. annots' = [annots EXCEPT ![p] = @ \cup {a}] /\ UNCHANGED <<pages, index, tree, asked>>
        BY <2>5 DEF AddAnnotation
      <3>2. \A q \in ToSet(pages) : annots[q] \subseteq annots'[q]
        BY <3>1 DEF StructureTypes, ToSet
      <3>3. OnThePages(pages, annots) \subseteq OnThePages(pages', annots')
        <4>1. ToSet(pages) \subseteq ToSet(pages')
          BY <3>1
        <4> QED BY <3>2, <4>1, StaysOnThePages
      <3> QED BY <3>1, <3>3 DEF IndexInv
    <2>6. ASSUME NEW v \in {"1.7", "2.0"}, SetVersion(v) PROVE IndexInv'
      BY <2>6 DEF SetVersion, IndexInv
    <2>7. CASE UNCHANGED structureVars
      BY <2>7 DEF structureVars, IndexInv
    <2> QED BY <2>1, <2>2, <2>3, <2>4, <2>5, <2>6, <2>7 DEF StructureNext
  <1> QED BY <1>1, <1>2, TypesHold, TreeHolds, PTL DEF StructureSpec

-----------------------------------------------------------------------------
(* What a reader finds.                                                     *)

\* A mark of a written tree has one owner at most, and its index leads there.
LEMMA LeadsToOwner ==
    ASSUME StructureTypes, TreeInv, IndexInv, tree.kind # "foreign", NEW x \in DOMAIN index
    PROVE  ReadsRight(x)
  <1> SUFFICES ASSUME NEW mcid \in IF x \in Annots THEN {0} ELSE 0..MaxMCID
               PROVE  OwnersAsked(x, mcid) = {Lookup(x, mcid)} \ {0}
    BY DEF ReadsRight
  <1>1. CASE tree.kind # "written"
    <2>1. asked = None /\ index[x] = None
      <3>1. tree.kind = "none"
        BY <1>1 DEF StructureTypes
      <3> QED BY <1>1, <3>1 DEF TreeInv, IndexInv
    <2> QED BY <2>1 DEF OwnersAsked, Lookup
  <1>2. CASE tree.kind = "written"
    <2>1. asked \in Trees /\ ClaimsOnce(asked) /\ ClaimsTyped(asked) /\ IsWritten(tree, asked)
      BY <1>2 DEF TreeInv
    <2>2. asked # None
      BY <2>1, StructureAssumption
    <2>3. index[x] = IF x \in ToSet(Stamped[asked]) THEN Key(asked, x) ELSE None
      BY <1>2 DEF IndexInv
    <2>4. /\ ToSet(Stamped[asked]) = {c.on : c \in Claims[asked]}
          /\ \A y \in ToSet(Stamped[asked]) :
                 /\ Key(asked, y) \in Nat
                 /\ Key(asked, y) + 1 \in DOMAIN Stamped[asked]
                 /\ Stamped[asked][Key(asked, y) + 1] = y
      BY <2>1, KeyIs
    <2>5. OwnersAsked(x, mcid) = {c.owner : c \in {d \in Claims[asked] : d.on = x /\ d.mcid = mcid}}
      BY <2>2 DEF OwnersAsked
    <2>6. CASE x \notin ToSet(Stamped[asked])
      <3>1. \A c \in Claims[asked] : c.on # x
        BY <2>4, <2>6
      <3>2. Lookup(x, mcid) = 0
        BY <2>3, <2>6 DEF Lookup
      <3> QED BY <2>5, <3>1, <3>2
    <2>7. CASE x \in ToSet(Stamped[asked])
      <3> DEFINE e      == Entry(asked, x)
                 on     == {c \in Claims[asked] : c.on = x}
                 here   == {c \in on : c.mcid = mcid}
                 owner  == IF here = {} THEN 0 ELSE (CHOOSE c \in here : TRUE).owner
      <3>1. /\ index[x] \in Nat /\ index[x] # None
            /\ index[x] + 1 \in DOMAIN tree.nums /\ tree.nums[index[x] + 1] = e
        <4>1. tree.nums = [n \in DOMAIN Stamped[asked] |-> Entry(asked, Stamped[asked][n])]
          BY <2>1 DEF IsWritten, WrittenTree
        <4>2. index[x] = Key(asked, x)
          BY <2>3, <2>7
        <4>3. index[x] # None
          BY <2>4, <2>7, <4>2, StructureAssumption
        <4> QED BY <2>4, <2>7, <4>1, <4>2, <4>3
      <3>2. Lookup(x, mcid) = IF x \in Annots THEN (IF e.of = "object" THEN e.owner ELSE 0)
                              ELSE IF e.of = "stream" /\ mcid \in DOMAIN e.owners THEN e.owners[mcid] ELSE 0
        BY <1>2, <3>1 DEF Lookup
      <3>3. OwnersAsked(x, mcid) = {c.owner : c \in here}
        BY <2>5
      <3>4. \A c \in on : c.kind = "annot" <=> x \in Annots
        BY <2>1, StructureAssumption DEF ClaimsTyped
      <3>5. on # {}
        BY <2>4, <2>7
      <3>6. Lookup(x, mcid) = owner
        <4>1. CASE x \in Annots
          <5>1. mcid = 0
            BY <4>1
          <5>2. \E c \in on : c.kind = "annot"
            BY <3>4, <3>5, <4>1
          <5>3. e = [of |-> "object", owner |-> owner]
            BY <5>1, <5>2 DEF Entry
          <5> HIDE DEF e, owner
          <5>4. e.of = "object" /\ e.owner = owner
            BY <5>3
          <5> QED BY <3>2, <4>1, <5>4
        <4>2. CASE x \notin Annots
          <5> DEFINE marks == {m \in 0..MaxMCID : \E c \in on : m <= c.mcid}
                     named == [m \in marks |->
                                 LET at == {c \in on : c.mcid = m}
                                 IN  IF at = {} THEN 0 ELSE (CHOOSE c \in at : TRUE).owner]
          <5>1. ~\E c \in on : c.kind = "annot"
            BY <3>4, <4>2
          <5>2. e = [of |-> "stream", owners |-> named]
            BY <5>1 DEF Entry
          <5>3. mcid \in marks => named[mcid] = owner
            OBVIOUS
          <5>4. DOMAIN named = marks
            OBVIOUS
          <5>5. mcid \notin marks => here = {}
            <6> SUFFICES ASSUME NEW c \in here PROVE mcid \in marks
              OBVIOUS
            <6>1. c \in on /\ c.mcid = mcid /\ mcid \in 0..MaxMCID
              BY <4>2
            <6> QED BY <6>1
          <5> HIDE DEF e, named, marks
          <5>6. e.of = "stream" /\ e.owners = named
            BY <5>2
          <5>7. Lookup(x, mcid) = IF mcid \in marks THEN named[mcid] ELSE 0
            BY <3>2, <4>2, <5>4, <5>6
          <5> QED BY <5>3, <5>5, <5>7
        <4> QED BY <4>1, <4>2
      <3>7. \A c, d \in here : c = d
        <4> TAKE c, d \in here
        <4>1. c \in Claims[asked] /\ d \in Claims[asked] /\ c.on = d.on /\ c.mcid = d.mcid
          OBVIOUS
        <4>2. c.kind = d.kind
          BY <2>1, <4>1, StructureAssumption DEF ClaimsTyped
        <4>3. Mark(c) = Mark(d)
          BY <4>1, <4>2 DEF Mark
        <4> QED BY <2>1, <4>1, <4>3 DEF ClaimsOnce
      <3>8. \A c \in here : c.owner # 0
        <4> TAKE c \in here
        <4>1. c.owner \in DOMAIN asked.elems
          BY <2>1, ClaimIs
        <4>2. DOMAIN asked.elems = 1..Len(asked.elems)
          BY <2>1, StructureAssumption
        <4> HIDE DEF here
        <4> QED BY <4>1, <4>2
      <3> HIDE DEF here
      <3>9. CASE here = {}
        BY <3>3, <3>6, <3>9
      <3>10. CASE here # {}
        <4>1. PICK c \in here : TRUE
          BY <3>10
        <4>2. here = {c}
          BY <3>7
        <4>3. owner = c.owner
          BY <4>2
        <4> QED BY <3>3, <3>6, <3>8, <4>2, <4>3
      <3> QED BY <3>9, <3>10
    <2> QED BY <2>6, <2>7
  <1> QED BY <1>1, <1>2

\* From any mark a reader meets on the pages it finds the element that owns it,
\* and from one the tree does not name it finds none, whatever trees were set
\* before and whatever was added since: where the walk that clears the indices
\* meets every form the pages draw.
THEOREM MarksAlwaysLead == ASSUME WalkFindsAll PROVE StructureSpec => []MarksLeadToOwners
  <1>1. StructureTypes /\ TreeInv /\ IndexInv => MarksLeadToOwners
    <2> SUFFICES ASSUME StructureTypes, TreeInv, IndexInv, tree.kind # "foreign",
                        NEW x \in OnThePages(pages, annots)
                 PROVE  ReadsRight(x) /\ (index[x] # None => tree # NoTree)
      BY DEF MarksLeadToOwners
    <2>1. x \in DOMAIN index
      BY OnThePagesTyped
    <2>2. ReadsRight(x)
      BY <2>1, LeadsToOwner
    <2>3. index[x] # None => tree # NoTree
      BY <2>1 DEF IndexInv, NoTree
    <2> QED BY <2>2, <2>3
  <1> QED BY <1>1, TypesHold, TreeHolds, IndexHolds, PTL
==============================================================================
