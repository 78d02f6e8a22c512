------------------------- MODULE IncrementalUpdate -------------------------
(***************************************************************************)
(* A PDF file as a chain of cross-reference sections, the Document read    *)
(* from it, and the writers that extend the chain: what Read takes from a  *)
(* chain (mergeSections, loadCompressedObjects, normalizeStructure), what  *)
(* the source record keeps of it (Source.finish), the one allocator of     *)
(* object numbers (allocObjNum), Write, which starts a new chain, and      *)
(* WriteIncremental and the signing writers, which add a section to it.    *)
(*                                                                         *)
(* Encryption, signatures at risk and the objects Read could not recover   *)
(* are DocLifecycle's; here every document may be written, and what can go *)
(* wrong is numbering: an object's number reused, hidden or orphaned.      *)
(***************************************************************************)
EXTENDS Integers, Sequences, FiniteSets

CONSTANTS
  MaxObjectNumber,   \* of the syntax package
  MaxGen,       \* syntax.MaxGeneration
  Plain,        \* values an object stream can hold
  Streams,      \* values that are streams: never packed
  ChunkSize,    \* objects that fit one object stream (limits.objStmMaxRaw)
  Files,        \* the files Read may be given
  MaxSteps,     \* bound: edits and writes of one behaviour
  MaxChanged    \* bound: numbers passed to one WriteIncremental

ASSUME BoundsAssumption == /\ MaxObjectNumber \in Nat
                           /\ MaxGen \in Nat
                           /\ ChunkSize \in Nat \ {0}
                           /\ MaxSteps \in Nat

(* Numbers a program can put in Document.Objects; those above             *)
(* MaxObjectNumber cannot be written.                                      *)
Num == 1..(MaxObjectNumber + 2)
Gens == 0..MaxGen
Values == Plain \union Streams

(***************************************************************************)
(* What a cross-reference entry leads to: an object, an object stream with *)
(* the objects it holds, a cross-reference stream, or (a type-2 entry) a   *)
(* place in the object stream numbered `in'.                               *)
(***************************************************************************)
Object == [kind : {"object"}, gen : Gens, val : Values]
Obj(g, v) == [kind |-> "object", gen |-> g, val |-> v]
Container(holds) == [kind |-> "objstm", gen |-> 0, holds |-> holds]
XRefStream == [kind |-> "xref", gen |-> 0]
Packed(c) == [kind |-> "packed", in |-> c]

(* A section: its in-use entries, its free entries with their generations, *)
(* the number of its own cross-reference stream (0: it has none), which    *)
(* its entries may not list, and the /Size of its trailer.                 *)
Section(form, entries, free, own, size) ==
  [form |-> form, entries |-> entries, free |-> free, own |-> own, size |-> size]

(* A file: its sections, oldest first; the `cut' oldest of them cannot be  *)
(* read (the /Prev chain breaks before them).                              *)
File(secs, cut) == [secs |-> secs, cut |-> cut]
NoFile == File(<< >>, 0)

Newest(f) == f.secs[Len(f.secs)]
Readable(f) == {f.secs[i] : i \in (f.cut + 1)..Len(f.secs)}

Mentions(sec) == DOMAIN sec.entries \union DOMAIN sec.free
Own(sec) == {sec.own} \ {0}

VARIABLES
  disk,   \* the file the program last wrote or was given
  src,    \* Document.source: the record of the file the document was read from
  doc,    \* the Document: objects, allocator, form it is written in
  listed, \* the numbers the last step asked an update to write
  shown,  \* the objects disk shows to whoever reads it
  steps   \* the edits and writes so far

vars == <<disk, src, doc, listed, shown, steps>>

Top(S) == CHOOSE i \in S : \A j \in S : j <= i
Least(S) == CHOOSE i \in S : \A j \in S : i <= j

-----------------------------------------------------------------------------
(***************************************************************************)
(* What Read takes from a file.                                            *)
(***************************************************************************)

(* mergeSections: a number takes the entry of the newest section that      *)
(* mentions it, and none when that section lists it as free.               *)
Mentioning(f, n) == {i \in (f.cut + 1)..Len(f.secs) : n \in Mentions(f.secs[i])}

(* Faulty: a free entry hides nothing.                                     *)
MergedUnhidden(f) ==
  LET using(n) == {i \in Mentioning(f, n) : n \in DOMAIN f.secs[i].entries}
  IN [n \in {m \in Num : using(m) # {}} |-> f.secs[Top(using(n))].entries[n]]

Merged(f) ==
  LET newest == [n \in {m \in Num : Mentioning(f, m) # {}} |-> Top(Mentioning(f, n))]
      inUse == {n \in DOMAIN newest : n \in DOMAIN f.secs[newest[n]].entries}
  IN [n \in inUse |-> f.secs[newest[n]].entries[n]]

(* loadCompressedObjects finds an object in the object stream its entry    *)
(* names, when the table leads to one and it holds the object.             *)
Opens(t, c) == c \in DOMAIN t /\ t[c].kind = "objstm"
Supplied(t, n) == Opens(t, t[n].in) /\ n \in DOMAIN t[t[n].in].holds

(* The objects of the document read through table t: cross-reference and   *)
(* object streams are dropped (normalizeStructure), compressed objects     *)
(* have generation 0.                                                      *)
Loaded(t) ==
  LET live == {m \in DOMAIN t : \/ t[m].kind = "object"
                                \/ t[m].kind = "packed" /\ Supplied(t, m)}
  IN [n \in live |->
       IF t[n].kind = "object" THEN t[n] ELSE Obj(0, t[t[n].in].holds[n])]

Shown(f) == Loaded(Merged(f))

PackedIn(t) == {t[n].in : n \in {m \in DOMAIN t : t[m].kind = "packed"}}

(* rebuildXRefByScan finds the header of every top-level object.           *)
Scanned(f) ==
  UNION {{n \in DOMAIN f.secs[i].entries : f.secs[i].entries[n].kind # "packed"}
           \union Own(f.secs[i]) : i \in DOMAIN f.secs}

(* The numbers Source.finish and the object-stream loaders count.          *)
Noted(f) ==
  LET t == Merged(f)
  IN UNION ({Mentions(sec) \union Own(sec) \union PackedIn(sec.entries) : sec \in Readable(f)}
              \union {DOMAIN t[c].holds : c \in {x \in PackedIn(t) : Opens(t, x)}}
              \union {IF f.cut > 0 THEN Scanned(f) ELSE {}})

(* Every number any section of a file has put to a use, read or not.       *)
EverUsed(f) ==
  UNION {LET e == f.secs[i].entries
         IN Mentions(f.secs[i]) \union Own(f.secs[i]) \union PackedIn(e)
              \union UNION {DOMAIN e[c].holds : c \in {x \in DOMAIN e : e[x].kind = "objstm"}}
         : i \in DOMAIN f.secs}

(* Source: the file, its effective table, its object streams, and the      *)
(* highest number and largest /Size found in it.  `objects' and `everUsed' *)
(* are not in the code: they keep what the file showed when it was read.   *)
Source(f) ==
  LET t == Merged(f)
  IN [file |-> f,
      merged |-> t,
      containers |-> PackedIn(t) \union {n \in DOMAIN t : t[n].kind = "objstm"},
      maxNum |-> Top({n \in Noted(f) : n <= MaxObjectNumber} \union {0}),
      size |-> Top({sec.size : sec \in Readable(f)} \union {0}),
      objects |-> Loaded(t),
      everUsed |-> EverUsed(f)]

NoSource == Source(NoFile)

(* Faulty: the highest number counted is handed out again.                 *)
nextFreeAtHighest == Top({src.maxNum, src.size})

(* The lowest number above everything the file is known to use.            *)
nextFree == Top({src.maxNum + 1, src.size})

-----------------------------------------------------------------------------
(***************************************************************************)
(* The allocator.  A document's `next' is 0 until the first number is      *)
(* taken; `handed' only remembers the numbers taken.                       *)
(***************************************************************************)
AllocTop == MaxObjectNumber + 8     \* bound: above every number a document can hold

FirstNumber(d) ==
  Least({n \in nextFree..AllocTop : \A m \in DOMAIN d.objs : m < n})

AllocFrom(d) == IF d.next = 0 THEN FirstNumber(d) ELSE d.next

allocObjNum(d) == Least({n \in AllocFrom(d)..AllocTop : n \notin DOMAIN d.objs})

Taken(d, n) == [d EXCEPT !.next = n + 1, !.handed = @ \union {n}]

Put(objs, n, o) == [m \in DOMAIN objs \union {n} |-> IF m = n THEN o ELSE objs[m]]

(* Document.Add *)
Added(d, v) ==
  LET n == allocObjNum(d) IN [Taken(d, n) EXCEPT !.objs = Put(@, n, Obj(0, v))]

-----------------------------------------------------------------------------
(***************************************************************************)
(* incrementalUpdate: the section it appends to the file d was read from.  *)
(***************************************************************************)

(* Faulty: without the bound.                                              *)
FreedGenUnbounded(n) ==
  IF n \in DOMAIN src.merged /\ src.merged[n].kind # "packed"
  THEN src.merged[n].gen + 1 ELSE 1

(* A freed number's generation is one above its current entry's, at most   *)
(* MaxGen; a number with no entry in use, or a compressed one, counts as 0.*)
FreedGen(n) ==
  LET t == src.merged
      gen == IF n \in DOMAIN t /\ t[n].kind # "packed" THEN t[n].gen ELSE 0
  IN IF gen < MaxGen THEN gen + 1 ELSE gen

InStreamForm == Newest(src.file).form = "stream"

(* Faulty: only the update's own numbers count.                            *)
UpdateSizeOwn(top, own) == Top({top + 1, own + 1})

(* The /Size of an update whose highest listed number is `top'.            *)
UpdateSize(top, own) == Top({nextFree, top + 1, own + 1})

UpdateSection(d, changed) ==
  LET written == changed \intersect DOMAIN d.objs
      own == IF InStreamForm THEN allocObjNum(d) ELSE 0
      taken == IF InStreamForm THEN {own} ELSE {}
  IN Section(IF InStreamForm THEN "stream" ELSE "table",
             [n \in written \union taken |-> IF n \in taken THEN XRefStream ELSE d.objs[n]],
             [n \in changed \ (written \union taken) |-> FreedGen(n)],
             own,
             UpdateSize(Top(changed), own))

(* Faulty: object streams are not refused.                                 *)
MayChangeAny(changed) == changed # {} /\ \A n \in changed : n <= MaxObjectNumber

(* The numbers an update may redefine or free.                             *)
MayChange(changed) ==
  /\ changed # {}
  /\ \A n \in changed : n <= MaxObjectNumber /\ n \notin src.containers

XRefNumberLeft(d) == InStreamForm => allocObjNum(d) <= MaxObjectNumber

Updated(d, changed) ==
  [src.file EXCEPT !.secs = Append(@, UpdateSection(d, changed))]

-----------------------------------------------------------------------------
(***************************************************************************)
(* serialize: one new section with everything.  A document read from a     *)
(* cross-reference stream packs its objects (buildWriteSet).               *)
(***************************************************************************)
Packable(d) == {n \in DOMAIN d.objs : d.objs[n].gen = 0 /\ d.objs[n].val \in Plain}
Packs(d) == d.stream /\ Cardinality(Packable(d)) >= 2

MaxObj(objs) == Top(DOMAIN objs \union {0})

(* Faulty: counted from 1, so the first container has the number of the    *)
(* document's last object.                                                 *)
ContainerOfEarly(d, n) ==
  MaxObj(d.objs) + (Cardinality({m \in Packable(d) : m <= n}) \div ChunkSize)

(* Packed objects go, in number order, into containers numbered from       *)
(* maxObj + 1.                                                             *)
ContainerOf(d, n) ==
  MaxObj(d.objs) + 1
    + (Cardinality({m \in Packable(d) : m < n}) \div ChunkSize)

WriteEntries(d) ==
  LET packed == IF Packs(d) THEN Packable(d) ELSE {}
      cs == {ContainerOf(d, n) : n \in packed}
      holds(c) == [n \in {m \in packed : ContainerOf(d, m) = c} |-> d.objs[n].val]
  IN [n \in DOMAIN d.objs \union cs |->
       CASE n \in packed -> Packed(ContainerOf(d, n))
         [] n \in cs -> Container(holds(n))
         [] OTHER -> d.objs[n]]

WriteSection(d) ==
  LET body == WriteEntries(d)
      own == IF d.stream THEN MaxObj(body) + 1 ELSE 0
  IN Section(IF d.stream THEN "stream" ELSE "table",
             IF d.stream THEN Put(body, own, XRefStream) ELSE body,
             << >>, own, MaxObj(body) + (IF d.stream THEN 2 ELSE 1))

Writable(sec) == \A n \in Mentions(sec) \union Own(sec) : n <= MaxObjectNumber

-----------------------------------------------------------------------------
EmptyDoc == [objs |-> << >>, next |-> 0, handed |-> {}, stream |-> FALSE]

(* A program starts with a file to read and an empty Document.             *)
Init == /\ disk \in Files
        /\ src = NoSource
        /\ doc = EmptyDoc
        /\ listed = {}
        /\ shown = Shown(disk)
        /\ steps = 0

Read == /\ src' = Source(disk)
        /\ doc' = [EmptyDoc EXCEPT !.objs = src'.objects,
                                   !.stream = Newest(disk).form = "stream"]
        /\ listed' = {}
        /\ UNCHANGED <<disk, shown, steps>>

(* Every edit and every write spends one of MaxSteps.                      *)
Spend == steps < MaxSteps /\ steps' = steps + 1

Add(v) == /\ Spend
          /\ allocObjNum(doc) \in Num
          /\ doc' = Added(doc, v)
          /\ listed' = {}
          /\ UNCHANGED <<disk, src, shown>>

(* The caller stores a value under a number of its own choice.             *)
Insert(n, v) == /\ Spend
                /\ n \notin DOMAIN doc.objs
                /\ doc' = [doc EXCEPT !.objs = Put(@, n, Obj(0, v))]
                /\ listed' = {}
                /\ UNCHANGED <<disk, src, shown>>

SetValue(n, v) == /\ Spend
                  /\ n \in DOMAIN doc.objs
                  /\ doc.objs[n].val # v
                  /\ doc' = [doc EXCEPT !.objs[n].val = v]
                  /\ listed' = {}
                  /\ UNCHANGED <<disk, src, shown>>

Delete(n) == /\ Spend
             /\ n \in DOMAIN doc.objs
             /\ doc' = [doc EXCEPT !.objs = [m \in DOMAIN @ \ {n} |-> @[m]]]
             /\ listed' = {}
             /\ UNCHANGED <<disk, src, shown>>

Write == /\ Spend
         /\ Writable(WriteSection(doc))
         /\ disk' = File(<<WriteSection(doc)>>, 0)
         /\ shown' = Shown(disk')
         /\ listed' = {}
         /\ UNCHANGED <<src, doc>>

HasSource == src.file.secs # << >>

WriteIncremental(changed) ==
  /\ Spend
  /\ HasSource
  /\ MayChange(changed)
  /\ XRefNumberLeft(doc)
  /\ disk' = Updated(doc, changed)
  /\ shown' = Shown(disk')
  /\ doc' = IF InStreamForm THEN Taken(doc, allocObjNum(doc)) ELSE doc
  /\ listed' = changed
  /\ UNCHANGED src

(* With no number left for the cross-reference stream nothing is written,  *)
(* but the number is spent.                                                *)
UpdateExhausted ==
  /\ Spend
  /\ HasSource
  /\ ~XRefNumberLeft(doc)
  /\ allocObjNum(doc) \in Num
  /\ doc' = Taken(doc, allocObjNum(doc))
  /\ listed' = {}
  /\ UNCHANGED <<disk, src, shown>>

(* withSignatureField and WriteSignedIncremental: a clone of the document  *)
(* gets the signature and its field, the page is rewritten, and either the *)
(* form is rewritten or a new one is added and the catalog rewritten.  The *)
(* rewritten objects are new ones of generation 0.                         *)
Clone(d, k, rewritten, v) ==
  LET two == Added(Added(d, v), v)
      all == IF k = 3 THEN Added(two, v) ELSE two
  IN [all EXCEPT !.objs = [n \in DOMAIN @ |->
                             IF n \in rewritten THEN Obj(0, v) ELSE @[n]]]

WriteSignedIncremental(k, rewritten, v) ==
  LET clone == Clone(doc, k, rewritten, v)
      changed == rewritten \union (clone.handed \ doc.handed)
  IN /\ Spend
     /\ HasSource
     /\ rewritten \subseteq DOMAIN doc.objs
     /\ MayChange(changed)
     /\ XRefNumberLeft(clone)
     /\ disk' = Updated(clone, changed)
     /\ shown' = Shown(disk')
     /\ listed' = changed
     /\ UNCHANGED <<src, doc>>

Pairs(S) == {p \in SUBSET S : Cardinality(p) = 2}
SmallSets(S) == {c \in SUBSET S : Cardinality(c) \in 1..MaxChanged}

Next == \/ Read
        \/ Write
        \/ UpdateExhausted
        \/ \E v \in Values : Add(v)
        \/ \E n \in Num, v \in Values : Insert(n, v) \/ SetValue(n, v)
        \/ \E n \in Num : Delete(n)
        \/ \E changed \in SmallSets(Num) : WriteIncremental(changed)
        \/ \E k \in 2..3, rewritten \in Pairs(DOMAIN doc.objs), v \in Plain :
             WriteSignedIncremental(k, rewritten, v)

Spec == Init /\ [][Next]_vars

-----------------------------------------------------------------------------
(***************************************************************************)
(* Properties.                                                             *)
(***************************************************************************)

IsPiece(e) == \/ e \in Object
              \/ e = XRefStream
              \/ e.kind = "packed" /\ e = Packed(e.in) /\ e.in \in Num
              \/ /\ e.kind = "objstm"
                 /\ e = Container(e.holds)
                 /\ DOMAIN e.holds \subseteq Num
                 /\ \A n \in DOMAIN e.holds : e.holds[n] \in Plain

(* The shapes of the file and of the document.                             *)
IsMap(f) == f = [n \in DOMAIN f |-> f[n]]

SectionOK(sec) ==
  /\ sec = Section(sec.form, sec.entries, sec.free, sec.own, sec.size)
  /\ IsMap(sec.entries) /\ DOMAIN sec.entries \subseteq Num
  /\ \A n \in DOMAIN sec.entries : IsPiece(sec.entries[n])
  /\ DOMAIN sec.free \subseteq Num /\ sec.free \in [DOMAIN sec.free -> Gens]
  /\ sec.own \in Num \union {0}
  /\ sec.size \in 0..(MaxObjectNumber + 1)

FileOK(f) == /\ f = File(f.secs, f.cut)
             /\ Len(f.secs) \in Nat
             /\ f.secs = [i \in 1..Len(f.secs) |-> f.secs[i]]
             /\ f.cut \in 0..Len(f.secs)
             /\ \A i \in 1..Len(f.secs) : SectionOK(f.secs[i])

DocOK(d) == /\ d \in [objs : {d.objs}, next : 0..(MaxObjectNumber + 3),
                      handed : SUBSET Num, stream : BOOLEAN]
            /\ DOMAIN d.objs \subseteq Num
            /\ d.objs \in [DOMAIN d.objs -> Object]

TypeOK == /\ FileOK(disk)
          /\ FileOK(src.file)
          /\ DocOK(doc)
          /\ steps \in 0..MaxSteps

(* What keeps the allocator clear of a file: every number the file has     *)
(* used is one Source.finish counts or is below the /Size of a section it  *)
(* reads.  A file whose unread sections used a number only a compressed    *)
(* object had, and which no /Size covers, is not such a file, and no       *)
(* allocator can tell.                                                     *)
Counted(f) == \A n \in EverUsed(f) : \/ n \in Noted(f) /\ n <= MaxObjectNumber
                                    \/ \E sec \in Readable(f) : n < sec.size

ASSUME FilesAssumption ==
  \A f \in Files : FileOK(f) /\ f.cut < Len(f.secs) /\ Counted(f)

(* The inductive invariant: the source record is the one of its file, the  *)
(* files count their numbers, and the allocator stands above them and      *)
(* above every number it has handed out.                                   *)
IInv == /\ TypeOK
        /\ disk.cut < Len(disk.secs)
        /\ Counted(disk)
        /\ Counted(src.file)
        /\ src = Source(src.file)
        /\ shown = Shown(disk)
        /\ doc.next = 0 => doc.handed = {}
        /\ doc.next # 0 => doc.next >= nextFree
        /\ \A n \in doc.handed : n < doc.next

(* The program implements the plain numbered store: what a file shows is   *)
(* what the writes put there, an update changes what it lists and nothing  *)
(* else, and a number taken is one no use of the file has claimed.         *)
Store == INSTANCE ObjectStore
           WITH stored <- shown, base <- src.objects, edit <- doc.objs,
                used <- src.everUsed \union doc.handed

ImplementsStore == Store!Spec

(* No compressed object is orphaned: its entry's container is in the file, *)
(* is an object stream and holds it (incrementalUpdate's refusal of        *)
(* isContainer numbers, and Write's packing).                              *)
NoOrphan(f) ==
  LET t == Merged(f)
  IN \A n \in DOMAIN t : t[n].kind = "packed" => Supplied(t, n)

NoOrphans == NoOrphan(disk)

(* allocObjNum hands out a number no section of the file uses, no object   *)
(* of the graph has, and it has not handed out before.                     *)
NumbersFresh ==
  [][\A n \in doc'.handed \ doc.handed :
       n \notin src.everUsed \union DOMAIN doc.objs]_vars

(* A written file's trailer states a /Size above every number its readable *)
(* sections use, and never a smaller one than the file it updates had.     *)
SizeCovers ==
  [][disk' # disk =>
       /\ \A n \in Noted(disk') : n < Newest(disk').size
       /\ \A sec \in Readable(disk') : sec.size <= Newest(disk').size]_vars

(* MaxObjectNumber's promise: "No object the file already defines has a    *)
(* higher number."                                                         *)
MaxNumberHighest == \A n \in src.everUsed : n <= src.maxNum

(* An update writes an object under the generation the document gives it,  *)
(* so that it supersedes the one references lead to.                       *)
UpdateSupersedes ==
  [][listed' # {} =>
       \A n \in listed' \intersect DOMAIN doc.objs :
         Newest(disk').entries[n].gen = doc.objs[n].gen]_vars
=============================================================================
