------------------------------ MODULE FileWriter ------------------------------
(***************************************************************************)
(* How a document becomes a file: what write refuses before its first      *)
(* byte, which objects are packed into object streams, the objects written *)
(* one at a time under the caller's context to a writer that may fail, and *)
(* the cross-reference section that ends the file; and Save, which writes  *)
(* a document that claims a conformance only after reading the file back   *)
(* and checking it.                                                        *)
(***************************************************************************)
EXTENDS Integers, Sequences, SequencesExt, FiniteSetsExt

CONSTANTS
    Docs,           \* the documents a caller may write
    ContainerMax,   \* objStmMaxRaw: the bytes one object stream may hold
    IndexCost,      \* the bytes an object costs there besides its body
    Padding         \* what encrypting a stream adds to it

ASSUME SizesAssumption == {ContainerMax, IndexCost, Padding} \subseteq Nat

\* objStmMaxRaw is half of what a reader lets a stream decode to, and that is
\* more than a line of an index.
ASSUME RoomAssumption == IndexCost <= ContainerMax

\* An object: what it is, the bytes of its body (for an integer, its value), the
\* object its stream's /Length refers to (0 when it is direct), and the objects
\* it refers to.
Kinds == {"value", "integer", "stream", "signature", "unserializable", "no filter"}
IsObject(o) ==
    /\ o.kind \in Kinds
    /\ o.gen \in Nat /\ o.size \in Nat
    /\ o.lengthAt \in Nat
    /\ o.refs \subseteq Nat

\* A document: its objects, what became of them while it was read, what it says
\* of encryption (with the number of its /Encrypt dictionary, 0 when it is direct
\* and refers to nothing),
\* and what it claims to conform to.
IsDoc(d) ==
    /\ DOMAIN d.objects \subseteq Nat /\ IsFiniteSet(DOMAIN d.objects)
    /\ \A n \in DOMAIN d.objects : IsObject(d.objects[n])
    /\ d.lost \subseteq Nat \ DOMAIN d.objects      \* in streams not unpacked
    /\ d.undecrypted \subseteq DOMAIN d.objects
    /\ d.xrefStream \in BOOLEAN
    /\ d.security \in {"none", "key", "locked", "unresolvable"}
    /\ d.encryptAt \in {0} \cup DOMAIN d.objects
    /\ d.atRisk \in BOOLEAN                         \* signatures a rewrite ruins
    /\ d.claim \in {"none", "level", "no such level", "unreadable"}
    /\ d.conforms \in BOOLEAN
    /\ d.checkable \in BOOLEAN                      \* within the limits of a run

ASSUME DocsAssumption == \A d \in Docs : IsDoc(d)

VARIABLES
    doc,        \* the document
    entry,      \* Write or Save
    phase,      \* where the write is
    canceled,   \* the caller's context is done
    todo,       \* the objects still to be written
    out,        \* what has been serialized
    dest,       \* what the caller's writer has
    outcome     \* what the call returned

vars == <<doc, entry, phase, canceled, todo, out, dest, outcome>>

-----------------------------------------------------------------------------
(* What is written: the write set.                                          *)

Object(n) == doc.objects[n]
Numbers == DOMAIN doc.objects
Highest == Max({0} \cup Numbers)
Locked == doc.security \in {"locked", "unresolvable"}

\* encryptReachable: what the /Encrypt dictionary refers to, itself included, in
\* at most k references.
Reach[k \in 0..(Cardinality(Numbers) + 3)] ==
    IF k = 0 THEN {doc.encryptAt} \cap Numbers
    ELSE Reach[k - 1] \cup UNION {Object(n).refs \cap Numbers : n \in Reach[k - 1]}

\* With the /Encrypt dictionary alone kept out.
EncryptObjectOnly == {doc.encryptAt} \cap Numbers

EncryptReachable ==
    IF doc.security = "none" THEN {} ELSE Reach[Cardinality(Numbers)]

\* encryptValueObjects: the objects that hold values of the /Encrypt dictionary,
\* of its /CF and of the filters there, which are not themselves encrypted.
EncryptValues == IF doc.security = "none" THEN {} ELSE Reach[3]

Streams == {n \in Numbers : Object(n).kind \in {"stream", "no filter"}}
LengthTargets == {Object(n).lengthAt : n \in Streams} \ {0}

\* What the format, encryption, signing and the patching of lengths let into an
\* object stream.
Packable ==
    {n \in Numbers \ (Streams \cup LengthTargets \cup EncryptReachable) :
        Object(n).gen = 0 /\ Object(n).kind # "signature"}

Cost(n) == Object(n).size + IndexCost

\* One more object is added to the chunk, or begins the next; one that fills a
\* container by itself is left out.
Chunked(acc, n) ==
    IF Object(n).size >= ContainerMax THEN acc
    ELSE IF acc.bytes + Cost(n) >= ContainerMax /\ acc.chunk # <<>>
         THEN [full |-> Append(acc.full, acc.chunk), chunk |-> <<n>>, bytes |-> Cost(n)]
    ELSE [acc EXCEPT !.chunk = Append(@, n), !.bytes = @ + Cost(n)]

\* The packable objects numbered up to k, in number order.
Chunking[k \in 0..Highest] ==
    IF k = 0 THEN [full |-> <<>>, chunk |-> <<>>, bytes |-> 0]
    ELSE IF k \in Packable THEN Chunked(Chunking[k - 1], k)
    ELSE Chunking[k - 1]

Chunks ==
    IF ~doc.xrefStream \/ Locked \/ Cardinality(Packable) < 2 THEN <<>>
    ELSE LET all == Chunking[Highest]
         IN  IF all.chunk = <<>> THEN all.full ELSE Append(all.full, all.chunk)

Packed == UNION {ToSet(Chunks[c]) : c \in 1..Len(Chunks)}

\* Containers are numbered past every object of the document.
ContainerNum(c) == Highest + c
Containers == {ContainerNum(c) : c \in 1..Len(Chunks)}
ChunkOf(num) == Chunks[num - Highest]

WriteSet == (Numbers \ Packed) \cup Containers

\* EncryptCopy, or the ciphertext as it was read.
Ciphered(n) == doc.security # "none" /\ n \notin EncryptValues

\* The bytes of a stream's data as they are written.
DataLength(n) == Object(n).size + (IF doc.security = "key" THEN Padding ELSE 0)

\* The lengths that the streams whose /Length refers to n would give it.
LengthsFor(n) == {DataLength(s) : s \in {t \in Streams : Object(t).lengthAt = n}}

-----------------------------------------------------------------------------
(* What is refused before the first byte.                                   *)

\* Packing serializes what it packs, so what does not serialize is met early.
Refused ==
    \/ doc.atRisk
    \/ doc.security = "unresolvable"
    \/ 0 \in Numbers
    \/ doc.lost # {}
    \/ doc.undecrypted # {}
    \/ doc.xrefStream /\ ~Locked /\ Cardinality(Packable) >= 2
         /\ \E n \in Packable : Object(n).kind = "unserializable"
    \/ doc.security = "key" /\ \E n \in Numbers : Object(n).kind = "no filter"
    \/ \E n \in LengthTargets : Cardinality(LengthsFor(n)) > 1

-----------------------------------------------------------------------------
Init ==
    /\ doc \in Docs
    /\ entry \in {"write", "save"}
    /\ phase = "begin"
    /\ canceled = FALSE
    /\ todo = {}
    /\ out = <<>>
    /\ dest = <<>>
    /\ outcome = "none"

Cancel ==
    /\ outcome = "none" /\ ~canceled
    /\ canceled' = TRUE
    /\ UNCHANGED <<doc, entry, phase, todo, out, dest, outcome>>

Ends(what) == outcome' = what /\ phase' = "over"

\* With every document written straight to the caller's writer.
DirectAlways == TRUE

\* A document with a claim to check is serialized to memory first.
Direct == entry = "write" \/ doc.claim = "none"

\* Save does not write a document whose claim it cannot read or cannot check.
RefuseClaim ==
    /\ phase = "begin"
    /\ entry = "save" /\ doc.claim \in {"unreadable", "no such level"}
    /\ Ends("refused")
    /\ UNCHANGED <<doc, entry, canceled, todo, out, dest>>

Beginning ==
    phase = "begin" /\ ~(entry = "save" /\ doc.claim \in {"unreadable", "no such level"})

Refuse ==
    /\ Beginning /\ Refused
    /\ Ends("refused")
    /\ UNCHANGED <<doc, entry, canceled, todo, out, dest>>

\* With what a short write took sent again.
EmitAgain(item) ==
    /\ out' = Append(out, item)
    /\ dest' = IF Direct THEN dest \o <<item, item>> ELSE dest

\* Some bytes reach the writer, which may be the caller's; and it may fail.
Emit(item) ==
    /\ out' = Append(out, item)
    /\ dest' = IF Direct THEN out' ELSE dest

WriteHeader ==
    /\ Beginning /\ ~Refused
    /\ Emit([what |-> "header"])
    /\ phase' = "objects"
    /\ todo' = WriteSet
    /\ UNCHANGED <<doc, entry, canceled, outcome>>

\* The caller's writer returns an error.
WriterFails ==
    /\ phase \in {"objects", "end"} /\ Direct
    /\ Ends("failed")
    /\ UNCHANGED <<doc, entry, canceled, todo, out, dest>>

Least(s) == {x \in s : \A y \in s : x <= y}

\* What the bodies in a container come to, with their index.
ContainerSize(chunk) ==
    LET upTo[i \in 0..Len(chunk)] == IF i = 0 THEN 0 ELSE upTo[i - 1] + Cost(chunk[i])
    IN  upTo[Len(chunk)]

\* An object as it is written: a container holds those of its chunk, and the
\* integer a stream's /Length refers to is corrected.
Written(n) ==
    IF n \in Containers
    THEN [what |-> "object", num |-> n, gen |-> 0, cipher |-> doc.security # "none",
          size |-> ContainerSize(ChunkOf(n)), holds |-> ChunkOf(n)]
    ELSE [what |-> "object", num |-> n, gen |-> Object(n).gen, cipher |-> Ciphered(n),
          size |-> IF n \in Streams THEN DataLength(n)
                   ELSE IF Object(n).kind = "integer" /\ LengthsFor(n) # {}
                        THEN Max(LengthsFor(n))
                   ELSE Object(n).size,
          holds |-> <<n>>]

\* One object, in number order; the context is looked at before each.
WriteObject ==
    /\ phase = "objects" /\ todo # {} /\ ~canceled
    /\ \E n \in Least(todo) :
         \/ /\ n \in Numbers /\ Object(n).kind = "unserializable"
            /\ Ends("failed")
            /\ UNCHANGED <<todo, out, dest>>
         \/ /\ ~(n \in Numbers /\ Object(n).kind = "unserializable")
            /\ Emit(Written(n))
            /\ todo' = todo \ {n}
            /\ UNCHANGED <<phase, outcome>>
    /\ UNCHANGED <<doc, entry, canceled>>

\* With the section written for what a cancellation left done.
StopAndClose ==
    /\ phase = "objects" /\ todo # {} /\ canceled
    /\ out' = out \o <<[what |-> "xref", size |-> 1, entries |-> <<>>],
                      [what |-> "startxref", at |-> Len(out) + 1]>>
    /\ dest' = IF Direct THEN out' ELSE dest
    /\ Ends("canceled")
    /\ UNCHANGED <<doc, entry, canceled, todo>>

Stop ==
    /\ phase = "objects" /\ todo # {} /\ canceled
    /\ Ends("canceled")
    /\ UNCHANGED <<doc, entry, canceled, todo, out, dest>>

MaxObj == Max({0} \cup WriteSet)

\* The offset at which object n was written.
OffsetOf(n) == CHOOSE i \in 1..Len(out) : out[i].what = "object" /\ out[i].num = n

\* The section: each object written and each object packed; a cross-reference
\* stream is an object too, with the next number.
Section ==
    [what |-> "xref",
     size |-> IF doc.xrefStream THEN MaxObj + 2 ELSE MaxObj + 1,
     entries |-> [n \in WriteSet \cup Packed |->
                    IF n \in WriteSet
                    THEN [type |-> 1, at |-> OffsetOf(n),
                          field3 |-> IF n \in Numbers THEN Object(n).gen ELSE 0]
                    ELSE LET c == CHOOSE c \in 1..Len(Chunks) : n \in ToSet(Chunks[c])
                         IN  [type |-> 2, at |-> ContainerNum(c),
                              field3 |-> (CHOOSE i \in 1..Len(Chunks[c]) :
                                            Chunks[c][i] = n) - 1]]]

WriteXRef ==
    /\ phase = "objects" /\ todo = {}
    /\ Emit(Section)
    /\ phase' = "end"
    /\ UNCHANGED <<doc, entry, canceled, todo, outcome>>

WriteStartXRef ==
    /\ phase = "end"
    /\ Emit([what |-> "startxref", at |-> Len(out)])
    /\ IF Direct THEN Ends("ok") ELSE phase' = "read back" /\ UNCHANGED outcome
    /\ UNCHANGED <<doc, entry, canceled, todo>>

-----------------------------------------------------------------------------
(* Save: the file read back and checked.                                     *)

\* With a file that could not be checked to the end written all the same.
VerdictOnViolations ==
    IF ~doc.conforms THEN "does not conform" ELSE "written"

\* saveVerdict: the context first, then what the file does not conform in, then
\* what was not checked.
SaveVerdict ==
    IF canceled THEN "canceled"
    ELSE IF ~doc.conforms THEN "does not conform"
    ELSE IF ~doc.checkable THEN "not checked"
    ELSE "written"

\* The document read back may be one that its own limits let be written and not
\* be read.
ReadBack ==
    /\ phase = "read back"
    /\ IF canceled THEN Ends("canceled")
       ELSE \/ Ends("not read back")
            \/ phase' = "verdict" /\ UNCHANGED outcome
    /\ UNCHANGED <<doc, entry, canceled, todo, out, dest>>

Verify ==
    /\ phase = "verdict"
    /\ IF SaveVerdict = "written" THEN phase' = "copy" /\ UNCHANGED outcome
       ELSE Ends(SaveVerdict)
    /\ UNCHANGED <<doc, entry, canceled, todo, out, dest>>

\* The buffer goes to the caller's writer in one call, which may take part of it.
Copy ==
    /\ phase = "copy"
    /\ \/ dest' = out /\ Ends("ok")
       \/ \E i \in 0..Len(out) - 1 : dest' = SubSeq(out, 1, i) /\ Ends("failed")
    /\ UNCHANGED <<doc, entry, canceled, todo, out>>

-----------------------------------------------------------------------------
Step ==
    \/ RefuseClaim \/ Refuse \/ WriteHeader \/ WriteObject \/ Stop \/ WriteXRef
    \/ WriteStartXRef \/ ReadBack \/ Verify \/ Copy

Over == outcome # "none" /\ UNCHANGED vars

Next == Step \/ Cancel \/ WriterFails \/ Over

Spec == Init /\ [][Next]_vars
-----------------------------------------------------------------------------
(* The file as a reader finds it.                                            *)

\* It ends with a startxref that leads to a section.
Whole(f) == f # <<>> /\ Last(f).what = "startxref"

Entries(f) == f[Last(f).at].entries

\* Object n is at the offset its entry names.
AtOffset(f, n) ==
    /\ n \in DOMAIN Entries(f) /\ n < f[Last(f).at].size
    /\ Entries(f)[n].type = 1
    /\ f[Entries(f)[n].at].num = n
    /\ f[Entries(f)[n].at].gen = Entries(f)[n].field3

Found(f, n) == f[Entries(f)[n].at]

\* The security handler is built before any object stream is unpacked.
HandlerBuilt(f) == \A n \in EncryptValues : AtOffset(f, n) /\ ~Found(f, n).cipher

Deciphered(f, n) ==
    IF doc.security # "none" /\ n \notin EncryptValues
    THEN Found(f, n).cipher /\ HandlerBuilt(f)
    ELSE ~Found(f, n).cipher

\* A stream's data ends where its /Length says, which is looked up as the
\* stream is parsed; one that leads to no integer is not gone by: the end is
\* searched for.
Delimited(f, n) ==
    (n \in Streams /\ Object(n).lengthAt \in Numbers
        /\ Object(Object(n).lengthAt).kind = "integer") =>
        /\ AtOffset(f, Object(n).lengthAt)
        /\ Found(f, Object(n).lengthAt).size = Found(f, n).size

\* Object n of the document is in the file, as it was in the document.
InFile(f, n) ==
    \/ /\ AtOffset(f, n) /\ Deciphered(f, n) /\ Delimited(f, n)
       /\ (Object(n).kind = "integer" /\ n \notin LengthTargets) =>
            Found(f, n).size = Object(n).size
    \/ /\ n \in DOMAIN Entries(f) /\ n < f[Last(f).at].size
       /\ Entries(f)[n].type = 2
       /\ Object(n).gen = 0 /\ Object(n).kind \notin {"stream", "signature"}
       /\ LET c == Entries(f)[n].at
          IN  /\ AtOffset(f, c) /\ Deciphered(f, c)
              /\ Found(f, c).size <= 2 * ContainerMax
              /\ Found(f, c).holds[Entries(f)[n].field3 + 1] = n

-----------------------------------------------------------------------------
(* Properties.                                                               *)

\* Every variable holds a value of its kind.
TypeOK ==
    /\ IsDoc(doc)
    /\ entry \in {"write", "save"}
    /\ phase \in {"begin", "objects", "end", "read back", "verdict", "copy", "over"}
    /\ canceled \in BOOLEAN
    /\ todo \subseteq WriteSet
    /\ \A i \in 1..Len(out) : out[i].what \in {"header", "object", "xref", "startxref"}
    /\ Len(dest) <= Len(out)
    /\ outcome \in {"none", "ok", "refused", "failed", "canceled",
                    "not read back", "does not conform", "not checked"}

\* A write that reports no error wrote the document: every object it had when it
\* was read, those it could not unpack included, reads back as it was, whatever
\* was packed, encrypted or renumbered, and no signature was ruined.
NilMeansWritten ==
    outcome = "ok" =>
        /\ Whole(dest) /\ ~doc.atRisk /\ doc.undecrypted = {}
        /\ \A n \in Numbers \cup doc.lost : n \in Numbers /\ InFile(dest, n)

\* A write that reports an error never leaves what looks like a whole file.
ErrorNeverWhole == outcome \notin {"none", "ok"} => ~Whole(dest)

\* Save of a document that claims a level is one step: nothing, then the whole
\* file, and the whole file only once it was checked.
Claiming == entry = "save" /\ doc.claim = "level"
Promise == INSTANCE SavePromise WITH
    sound  <- doc.conforms /\ doc.checkable,
    file   <- IF ~Claiming \/ dest = <<>> THEN "nothing"
              ELSE IF Whole(dest) THEN "whole" ELSE "part",
    answer <- IF Claiming THEN outcome ELSE "none"
SaveKeepsPromise == Promise!Spec

\* What SaveContext says: "note that a cancelled Save writes nothing at all".
CanceledSaveWritesNothing ==
    entry = "save" /\ outcome = "canceled" => dest = <<>>
=============================================================================
