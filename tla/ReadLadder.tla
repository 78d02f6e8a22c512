------------------------------ MODULE ReadLadder ------------------------------
(***************************************************************************)
(* What Read does between the cross-reference chain and the Document: it    *)
(* loads the objects the table places, falls back on a scan of the file     *)
(* when the chain or an object of it does not read, chooses the trailer,    *)
(* decrypts, unpacks the object streams and finds the catalog.  XRefChain   *)
(* models the walk, whose outcome is part of the file here, and ObjStmLoad  *)
(* the budget of the object streams, left out here.  The caller's context   *)
(* may be canceled at any moment.                                           *)
(*                                                                         *)
(* A file is the sequence of what the scanner tells apart in it: objects,   *)
(* runs that look like the header of one, and trailer keywords.             *)
(***************************************************************************)
EXTENDS Integers, Sequences, FiniteSetsExt, Functions

CONSTANT Inputs     \* the files Read may be given

ObjectKinds == {"dict", "array", "string", "stream", "container", "xref", "encrypt"}
DeclinedFor == {"limit", "unsupported"}
Ciphers     == {"RC4", "AESV2", "AESV3"}

\* What can stand between the bytes of a value and its text: a key, which is a
\* number's or, in AESV3, the file's; and damage, which no key takes off.
FileKey == 0
Damage  == -1

\* holds: the numbers in a container.  typed: it says /Type /ObjStm.  root: the
\* /Root of a trailer or cross-reference stream, 0 without one and elsewhere.
\* intact: its ciphertext is as it was written, which AES can tell by its padding.
IsPiece(p) ==
    /\ p.kind \in ObjectKinds \cup {"trailer"}
    /\ p.num \in Nat /\ (p.num = 0) = (p.kind = "trailer")
    /\ p.parses \in BOOLEAN /\ p.intact \in BOOLEAN /\ p.typed \in BOOLEAN
    /\ p.holds \subseteq Nat
    /\ p.root \in Nat /\ (p.root # 0 => p.kind \in {"trailer", "xref"})

\* chain: what walkXRefChain made of the file, with the table it merged (top,
\* number -> offset; placed, number -> container), the newest section's /Root
\* and why an older section cut the chain.
IsInput(f) ==
    /\ Len(f.at) \in Nat /\ DOMAIN f.at = 1..Len(f.at)
    /\ \A i \in DOMAIN f.at : IsPiece(f.at[i])
    /\ f.enc \in BOOLEAN /\ f.cipher \in Ciphers
    /\ f.opens \in BOOLEAN
    /\ f.catalogs \subseteq Nat
    /\ f.chain.outcome \in {"read", "malformed"} \cup DeclinedFor
    /\ f.chain.top \in [DOMAIN f.chain.top -> Int]
    /\ DOMAIN f.chain.top \subseteq Nat /\ IsFiniteSet(DOMAIN f.chain.top)
    /\ f.chain.placed \in [DOMAIN f.chain.placed -> Nat]
    /\ f.chain.root \in Nat
    /\ f.chain.cut \in {"none", "malformed"} \cup DeclinedFor

ASSUME InputsAssumption == \A f \in Inputs : IsInput(f)

VARIABLES
    input,          \* the file being read
    stage,          \* where readDocument is
    contextDone,    \* the caller's context is done
    located,        \* the entries to load: top and placed
    rebuilt,        \* the table was reconstructed by scanning
    trailerScanned, \* and the trailer with it
    root,           \* /Root of the document's trailer, 0 for none
    trailerAt,      \* where the scanned trailer is, 0 for none
    encrypted,      \* the trailer has /Encrypt
    top,            \* number -> offset of each object loaded
    packed,         \* number -> container of each object unpacked
    layer,          \* number -> the keys, and damage, on the value held under it
    handler,        \* "none", "open", or "locked"
    failures,       \* numbers that did not decrypt
    undecoded,      \* containers the file got wrong
    skipped,        \* containers that are ciphertext
    reasons,        \* reasons recorded in the read limits
    cutShort        \* a loop ended because the context was done

trailerVars == <<root, trailerAt, encrypted, trailerScanned>>
graphVars   == <<top, packed, layer>>
cryptVars   == <<handler, failures>>
containerVars == <<undecoded, skipped>>
ladderVars == <<input, stage, contextDone, located, rebuilt, trailerVars, graphVars, cryptVars,
                containerVars, reasons, cutShort>>

Ends == {"done", "failed", "stopped"}

Empty == [n \in {} |-> 0]
Piece(o) == input.at[o]

\* The key of an object: its number is part of it, but in AESV3.
Key(f, n) == IF f.cipher = "AESV3" THEN FileKey ELSE n

\* What a file has on each piece, under the number the piece gives itself.
\* Cross-reference streams and the /Encrypt dictionary are never enciphered.
Enciphered(f) ==
    [o \in DOMAIN f.at |->
        IF f.enc /\ f.at[o].kind \notin {"xref", "encrypt", "trailer"}
        THEN {Key(f, f.at[o].num)} \cup (IF f.at[o].intact THEN {} ELSE {Damage})
        ELSE {}]

LadderInit ==
    /\ input \in Inputs
    /\ stage = "walk"
    /\ contextDone = FALSE
    /\ located = [top |-> Empty, placed |-> Empty]
    /\ rebuilt = FALSE /\ trailerScanned = FALSE
    /\ root = 0 /\ trailerAt = 0 /\ encrypted = FALSE
    /\ top = Empty /\ packed = Empty /\ layer = Empty
    /\ handler = "none" /\ failures = {}
    /\ undecoded = {} /\ skipped = {}
    /\ reasons = {}
    /\ cutShort = FALSE

EndContext ==
    /\ ~contextDone /\ stage \notin Ends
    /\ contextDone' = TRUE
    /\ UNCHANGED <<input, stage, located, rebuilt, trailerVars, graphVars, cryptVars,
                   containerVars, reasons, cutShort>>

\* A look at the context that ends the read with the context's own error.
Stop(at) ==
    /\ stage = at /\ contextDone
    /\ stage' = "stopped"
    /\ cutShort' = TRUE
    /\ UNCHANGED <<input, contextDone, located, rebuilt, trailerVars, graphVars, cryptVars,
                   containerVars, reasons>>

-----------------------------------------------------------------------------
(* Finding the table and the trailer.                                       *)

\* With the first header of each number kept.
ScannedTableOldest ==
    LET headers == {o \in DOMAIN input.at : Piece(o).kind # "trailer"}
    IN  [top |-> [n \in {Piece(o).num : o \in headers} |->
                    Min({o \in headers : Piece(o).num = n})],
         placed |-> Empty]

\* What a scan for object headers finds: the last header of each number wins,
\* whether or not an object follows it.  Nothing packed is seen.
ScannedTable ==
    LET headers == {o \in DOMAIN input.at : Piece(o).kind # "trailer"}
    IN  [top |-> [n \in {Piece(o).num : o \in headers} |->
                    Max({o \in headers : Piece(o).num = n})],
         placed |-> Empty]

\* The last trailer keyword whose dictionary has /Root.
TrailerByScan ==
    LET usable == {o \in DOMAIN input.at : Piece(o).kind = "trailer" /\ Piece(o).root # 0}
    IN  IF usable = {} THEN 0 ELSE Max(usable)

\* Every trailer of an enciphered file names the same /Encrypt.
TakeTrailer(o) ==
    /\ trailerAt' = o
    /\ root' = IF o = 0 THEN 0 ELSE Piece(o).root
    /\ encrypted' = (o # 0 /\ input.enc)

\* With the reason dropped when the chain was only cut.
ReasonNewest == {input.chain.outcome} \cap DeclinedFor

\* Only a section pdf0 declined, the newest or an older one, is recorded.
Reason == {input.chain.outcome, input.chain.cut} \cap DeclinedFor

ChainRead ==
    /\ stage = "walk" /\ ~contextDone
    /\ input.chain.outcome = "read"
    /\ located' = [top |-> input.chain.top, placed |-> input.chain.placed]
    /\ root' = input.chain.root
    /\ encrypted' = input.enc
    /\ reasons' = Reason
    /\ stage' = "load"
    /\ UNCHANGED <<input, contextDone, rebuilt, trailerAt, trailerScanned, graphVars,
                   cryptVars, containerVars, cutShort>>

ChainFailed ==
    /\ stage = "walk" /\ ~contextDone
    /\ input.chain.outcome # "read"
    /\ IF DOMAIN ScannedTable.top = {}
       THEN /\ stage' = "failed"
            /\ UNCHANGED <<located, rebuilt, trailerVars, reasons>>
       ELSE /\ located' = ScannedTable
            /\ rebuilt' = TRUE
            /\ trailerScanned' = TRUE
            /\ TakeTrailer(TrailerByScan)
            /\ reasons' = Reason
            /\ stage' = "load"
    /\ UNCHANGED <<input, contextDone, graphVars, cryptVars, containerVars, cutShort>>

-----------------------------------------------------------------------------
(* Loading the objects of the top level.                                    *)

Entries   == DOMAIN located.top \ {0}
Parses(n) ==
    LET o == located.top[n]
    IN  o \in DOMAIN input.at /\ Piece(o).kind \in ObjectKinds /\ Piece(o).parses

\* What the loop loads when it is not cut short.
LoadedTop == [n \in {m \in Entries : Parses(m)} |-> located.top[n]]

\* The whole loop over the table.  A context that ends while it runs ends the
\* loop, and what it had loaded is dropped, wherever the loop was.
LoadObjects(next) ==
    /\ top' = LoadedTop
    /\ layer' = [n \in DOMAIN LoadedTop |-> Enciphered(input)[LoadedTop[n]]]
    /\ stage' = next
    /\ UNCHANGED <<input, contextDone, located, rebuilt, trailerVars, packed,
                   cryptVars, containerVars, reasons, cutShort>>

Load ==
    /\ stage = "load"
    /\ contextDone => Entries = {}
    /\ rebuilt \/ \A n \in Entries : Parses(n)
    /\ LoadObjects("trailer")

LoadStopped == Entries # {} /\ Stop("load")

\* An entry of the file's own table that does not load is a broken table,
\* unless the context is done.
LoadFailed ==
    /\ stage = "load" /\ ~contextDone
    /\ ~rebuilt /\ \E n \in Entries : ~Parses(n)
    /\ stage' = "again"
    /\ UNCHANGED <<input, contextDone, located, rebuilt, trailerVars, graphVars, cryptVars,
                   containerVars, reasons, cutShort>>

\* The scan leaves the trailer the chain gave.
RebuildTable ==
    /\ stage = "again" /\ ~contextDone
    /\ IF DOMAIN ScannedTable.top = {}
       THEN stage' = "failed" /\ UNCHANGED <<located, rebuilt>>
       ELSE stage' = "reload" /\ located' = ScannedTable /\ rebuilt' = TRUE
    /\ UNCHANGED <<input, contextDone, trailerVars, graphVars, cryptVars, containerVars,
                   reasons, cutShort>>

Reload == stage = "reload" /\ ~contextDone /\ LoadObjects("trailer")

\* The second loop ends only because the context is done, and the error
\* returned is that of the first.
ReloadStopped ==
    /\ stage = "reload" /\ contextDone
    /\ stage' = "failed"
    /\ cutShort' = TRUE
    /\ UNCHANGED <<input, contextDone, located, rebuilt, trailerVars, graphVars, cryptVars,
                   containerVars, reasons>>

-----------------------------------------------------------------------------
(* The trailer of a file without trailer keywords, and decryption.          *)

Loaded(kind) == {n \in DOMAIN top : Piece(top[n]).kind = kind}

\* The cross-reference stream latest in the file, of those loaded, with /Root.
XRefStreamTrailer ==
    LET usable == {top[n] : n \in {m \in Loaded("xref") : Piece(top[m]).root # 0}}
    IN  IF usable = {} THEN 0 ELSE Max(usable)

ChooseTrailer ==
    /\ stage = "trailer"
    /\ IF trailerScanned /\ XRefStreamTrailer > trailerAt
       THEN TakeTrailer(XRefStreamTrailer)
       ELSE UNCHANGED <<trailerAt, root, encrypted>>
    /\ stage' = "decrypt"
    /\ UNCHANGED <<input, contextDone, located, rebuilt, trailerScanned, graphVars, cryptVars,
                   containerVars, reasons, cutShort>>

\* The numbers under which what was parsed at o is held, and the one that
\* decryption meets it under.
Aliases(o) == {n \in DOMAIN top : top[n] = o}
FirstAlias(o) == Min(Aliases(o))

\* The table says what a container is, and so does its dictionary.
IsContainer(o) == \/ FirstAlias(o) \in Range(located.placed)
                  \/ Piece(o).kind = "container" /\ Piece(o).typed

\* A body decrypted with the strings is not left for Finish.
DecryptedNow(o) == Piece(o).kind \notin {"stream", "container"} \/ IsContainer(o)

Exempt(n) == Piece(top[n]).kind \in {"xref", "encrypt"}

\* The number with whose key the value under n is decrypted: the first it is met
\* under, except that a string is held under each of its numbers apart.
Under(n) == IF Piece(top[n]).kind = "string" THEN n ELSE FirstAlias(top[n])

\* With every number decrypted on its own.
PassesPerNumber(n) == IF Exempt(n) THEN {} ELSE Aliases(top[n])

\* The numbers with whose keys DecryptDocument decrypts the value under n, the
\* least first: one, except that an array is not remembered.
Passes(n) ==
    CASE Exempt(n)                      -> {}
      [] Piece(top[n]).kind = "array"   -> Aliases(top[n])
      [] OTHER                          -> {Under(n)}

\* The passes that AES cannot undo: with another key, of a value in the clear
\* already, or of a damaged one.
Wrong(n) ==
    {k \in Passes(n) : input.cipher # "RC4" /\ (k # Under(n) \/ layer[n] # {Key(input, k)})}

\* RC4 puts on the key it does not take off, and cannot tell.
Undone(n) ==
    IF input.cipher = "RC4" THEN (layer[n] \ Passes(n)) \cup (Passes(n) \ layer[n])
    ELSE IF Passes(n) = {} THEN layer[n]
    ELSE IF Wrong(n) = {} THEN {}
    ELSE {Damage}

\* The handler needs the /Encrypt dictionary among the objects loaded so far.
Opens == input.opens /\ Loaded("encrypt") # {}

\* Of the values under some numbers.  What cannot be undone is noticed by its
\* padding and left empty, which is then noticed at every pass to come; with a
\* key that is not its own the padding may happen to be one.
Peel(numbers, kept) ==
    \E noticed \in SUBSET UNION {Wrong(n) : n \in numbers} :
        /\ \A n \in numbers : \A k \in Wrong(n) :
              \/ k = Under(n) /\ Key(input, k) \in layer[n]
              \/ \E j \in noticed \cap Wrong(n) : j < k
              => k \in noticed
        /\ layer' = [n \in kept |-> IF n \in numbers THEN Undone(n) ELSE layer[n]]
        /\ failures' = failures \cup noticed

Decrypt ==
    /\ stage = "decrypt"
    /\ IF ~encrypted
       THEN UNCHANGED <<handler, failures, layer>>
       ELSE IF ~Opens
       THEN handler' = "locked" /\ UNCHANGED <<failures, layer>>
       ELSE handler' = "open" /\ Peel({n \in DOMAIN top : DecryptedNow(top[n])}, DOMAIN top)
    /\ stage' = "unpack"
    /\ UNCHANGED <<input, contextDone, located, rebuilt, trailerVars, top, packed,
                   containerVars, reasons, cutShort>>

-----------------------------------------------------------------------------
(* Object streams.  What is put in them is not enciphered itself.           *)

IsStream(c) == c \in DOMAIN top /\ Piece(top[c]).kind \in {"stream", "container", "xref"}

Ciphertext(c) == handler = "locked" \/ (handler = "open" /\ c \in failures)

\* What a container still enciphered holds does not parse.
Readable(c) == Piece(top[c]).kind = "container" /\ layer[c] = {}

\* Visits the containers, each of which gives its objects, or is set down as
\* skipped or broken.
Visit(containers, given) ==
    LET streams   == {c \in containers : IsStream(c)}
        locked    == {c \in streams : Ciphertext(c)}
        opened    == {c \in streams \ locked : Readable(c)}
        supplied  == {n \in DOMAIN given : given[n] \in opened /\ n \in Piece(top[given[n]]).holds}
        failing  == (containers \ opened) \cup {given[n] : n \in DOMAIN given \ supplied}
    IN  /\ packed' = [n \in DOMAIN packed \cup supplied |->
                        IF n \in supplied THEN given[n] ELSE packed[n]]
        /\ skipped' = skipped \cup locked
        /\ undecoded' = undecoded \cup (failing \ locked)

Wanted == DOMAIN located.placed \ (DOMAIN top \cup {0})

\* The objects the table places in containers.
Unpack ==
    /\ stage = "unpack"
    /\ contextDone => Wanted = {}
    /\ LET given == Restrict(located.placed, Wanted)
       IN  Visit(Range(given), given)
    /\ stage' = IF rebuilt THEN "materialize" ELSE "root"
    /\ UNCHANGED <<input, contextDone, located, rebuilt, trailerVars, top, layer, cryptVars,
                   reasons, cutShort>>

UnpackStopped == Wanted # {} /\ Stop("unpack")

Scanned == {c \in Loaded("container") : Piece(top[c]).typed}

\* Of a number in several containers the lowest container gives it, and one
\* that was defined outside them keeps its definition.
Materialize ==
    /\ stage = "materialize"
    /\ contextDone => Scanned = {}
    /\ LET numbers == UNION {Piece(top[c]).holds : c \in {d \in Scanned : Readable(d)}}
           given   == [n \in numbers \ (DOMAIN top \cup DOMAIN packed \cup {0}) |->
                         Min({c \in Scanned : Readable(c) /\ n \in Piece(top[c]).holds})]
       IN  Visit(Scanned, given)
    /\ stage' = "root"
    /\ UNCHANGED <<input, contextDone, located, rebuilt, trailerVars, top, layer, cryptVars,
                   reasons, cutShort>>

MaterializeStopped == Scanned # {} /\ Stop("materialize")

-----------------------------------------------------------------------------
(* The catalog, the other streams, and the end.                             *)

Catalogs == input.catalogs \cap (DOMAIN top \cup DOMAIN packed)

\* A rebuilt file whose trailer names no catalog gets the lowest-numbered one.
FindRoot ==
    /\ stage = "root"
    /\ IF ~rebuilt \/ root # 0
       THEN stage' = "finish" /\ UNCHANGED root
       ELSE IF Catalogs = {}
       THEN stage' = "failed" /\ UNCHANGED root
       ELSE stage' = "finish" /\ root' = Min(Catalogs)
    /\ UNCHANGED <<input, contextDone, located, rebuilt, trailerAt, trailerScanned, encrypted,
                   graphVars, cryptVars, containerVars, reasons, cutShort>>

\* Cross-reference streams and containers leave the document.
Plumbing == {n \in DOMAIN top : \/ Piece(top[n]).kind = "xref"
                                \/ Piece(top[n]).kind = "container" /\ Piece(top[n]).typed}

Finish ==
    /\ stage = "finish"
    /\ IF handler = "open"
       THEN Peel({n \in DOMAIN top : ~DecryptedNow(top[n])}, DOMAIN top \ Plumbing)
       ELSE layer' = Restrict(layer, DOMAIN top \ Plumbing) /\ UNCHANGED failures
    /\ top' = Restrict(top, DOMAIN top \ Plumbing)
    /\ stage' = "done"
    /\ UNCHANGED <<input, contextDone, located, rebuilt, trailerVars, packed, handler,
                   containerVars, reasons, cutShort>>

Ended == stage \in Ends /\ UNCHANGED ladderVars

LadderNext ==
    \/ EndContext
    \/ Stop("walk") \/ ChainRead \/ ChainFailed
    \/ Load \/ LoadStopped \/ LoadFailed
    \/ Stop("again") \/ RebuildTable \/ Reload \/ ReloadStopped
    \/ ChooseTrailer \/ Decrypt
    \/ Unpack \/ UnpackStopped
    \/ Materialize \/ MaterializeStopped
    \/ FindRoot \/ Finish
    \/ Ended

LadderSpec == LadderInit /\ [][LadderNext]_ladderVars

-----------------------------------------------------------------------------
(* What the file holds, found without a cross-reference table: the last     *)
(* definition of each number outside the containers, then the containers.   *)

Defined      == {Piece(o).num : o \in {p \in DOMAIN input.at : Piece(p).kind # "trailer"}}
LastOf(n)    == Max({o \in DOMAIN input.at : Piece(o).num = n})
Live         == {o \in DOMAIN input.at : Piece(o).kind # "trailer" /\ o = LastOf(Piece(o).num)}
LiveBoxes    == {o \in Live : Piece(o).kind = "container"}
Content      == {n \in Defined : Piece(LastOf(n)).kind \notin {"xref", "container"}}
PackedOnly   == (UNION {Piece(o).holds : o \in LiveBoxes}) \ (Defined \cup {0})
BoxOf(n)     == CHOOSE o \in LiveBoxes : n \in Piece(o).holds
Trailers     == {o \in DOMAIN input.at : /\ Piece(o).root # 0
                                         /\ Piece(o).kind = "xref" => o \in Live /\ Piece(o).parses}

\* Nothing in the file looks like an object and is not one, and no container is
\* newer than a definition outside it, or holds what another holds.
Regular ==
    /\ \A o \in DOMAIN input.at : Piece(o).kind = "trailer" \/ Piece(o).parses
    /\ \A o \in LiveBoxes : Piece(o).typed /\ \A n \in Piece(o).holds \cap Defined : LastOf(n) > o
    /\ \A o, p \in LiveBoxes : o # p => Piece(o).holds \cap Piece(p).holds = {}

\* The chain, when it reads, names the latest trailer's catalog, and its table is
\* that of the file, or misses an object it places.
TableTrue ==
    input.chain.outcome = "read" =>
        /\ Trailers # {} => input.chain.root = Piece(Max(Trailers)).root
        /\ \/ \E n \in DOMAIN input.chain.top \ {0} : LET o == input.chain.top[n] IN
                  o \notin DOMAIN input.at \/ Piece(o).kind = "trailer" \/ ~Piece(o).parses
           \/ /\ Restrict(input.chain.top, DOMAIN input.chain.top \ {0}) = [n \in Defined |-> LastOf(n)]
              /\ input.chain.placed = [n \in PackedOnly |-> Piece(BoxOf(n)).num]

-----------------------------------------------------------------------------
(* Properties.                                                              *)

\* Whichever way a file is read (by its table, by a scan since the chain did not
\* read, or by a scan since an object of the table did not load), the document
\* has the same objects, the same catalog and the same verdict on encryption.
RecoversSame ==
    stage = "done" /\ Regular /\ TableTrue /\ input.chain.cut = "none"
        /\ Trailers # {} /\ undecoded \cup skipped = {}
    => /\ top    = [n \in Content |-> LastOf(n)]
       /\ packed = [n \in PackedOnly |-> Piece(BoxOf(n)).num]
       /\ root   = Piece(Max(Trailers)).root
       /\ encrypted = input.enc

Shared(o) == Cardinality(Aliases(o)) > 1

\* The key the value under n is decrypted with is the one it was enciphered with.
OwnKey(n) == Key(input, Under(n)) = Key(input, Piece(top[n]).num)

\* The value under n is in the clear, or among the failures, or is one of those
\* nobody can tell: RC4 has no padding to show damage, an array that numbers
\* share is decrypted for each, and a value whose place the table gives to a
\* number not its own, before its own, is decrypted with that number's key.
Told(n) ==
    \/ layer[n] = {}
    \/ Under(n) \in failures
    \/ input.cipher = "RC4" /\ ~Piece(top[n]).intact
    \/ Shared(top[n]) /\ Piece(top[n]).kind = "array"
    \/ ~OwnKey(n)

\* In a decrypted document everything is in the clear or among the failures,
\* under however many numbers it is held, when the first is its own or the key is
\* the file's; in a Locked one everything is as the file has it; and no ciphertext
\* is in a document said to be unencrypted, whichever way the read went.  Shared
\* arrays are SharedOnce's, and values under another's number EmptyNotNoise's.
LayersAgree ==
    stage = "done" /\ Trailers # {} =>
        \A n \in DOMAIN top :
            CASE handler = "open"   -> Told(n)
              [] handler = "locked" -> layer[n] = Enciphered(input)[top[n]]
              [] handler = "none"   -> layer[n] = {}

\* What the file defines and the document lacks is accounted for: its container
\* is recorded as broken or skipped, or the reason pdf0 declined a section is
\* noted, or an older section is malformed (which Source reports).
MissingTold ==
    stage = "done" /\ Regular /\ (TableTrue \/ input.chain.cut # "none") =>
        \/ Content \cup PackedOnly \subseteq DOMAIN top \cup DOMAIN packed
        \/ \A n \in (Content \cup PackedOnly) \ (DOMAIN top \cup DOMAIN packed) :
              n \in PackedOnly /\ Piece(BoxOf(n)).num \in undecoded \cup skipped
        \/ reasons # {}
        \/ input.chain.cut = "malformed"

\* What is true half-way, and makes the three true at the end: the table is the
\* chain's until the file is scanned, and then the scan's; the trailer is the
\* latest that can be used; what was loaded is all of the table that parses; a
\* value has been decrypted or is as the file has it; and every container
\* visited gave what it holds or is recorded.
Going == stage \notin {"walk", "failed", "stopped"}
Later == {"unpack", "materialize", "root", "finish"}

LocatedInv ==
    /\ IsInput(input)
    /\ stage \in {"walk", "load", "again", "reload", "trailer", "decrypt", "done",
                  "failed", "stopped"} \cup Later
    /\ stage = "walk" => rebuilt = FALSE /\ trailerScanned = FALSE
    /\ stage \in {"reload", "materialize"} => rebuilt
    /\ Going => /\ reasons = Reason
                /\ located = IF rebuilt THEN ScannedTable
                             ELSE [top |-> input.chain.top, placed |-> input.chain.placed]
                /\ trailerScanned = (input.chain.outcome # "read")
                /\ trailerScanned => rebuilt

TrailerInv ==
    /\ Going /\ ~trailerScanned =>
         encrypted = input.enc /\ (input.chain.root # 0 => root = input.chain.root)
    /\ encrypted => input.enc
    /\ trailerScanned /\ stage \in {"load", "again", "reload", "trailer"} =>
         /\ trailerAt = TrailerByScan
         /\ trailerAt # 0 => root = Piece(trailerAt).root /\ encrypted = input.enc
    /\ trailerScanned /\ stage \in {"decrypt", "done"} \cup Later /\ Trailers # {} =>
         root = Piece(Max(Trailers)).root /\ encrypted = input.enc

LoadInv ==
    /\ stage \in {"trailer", "decrypt"} \cup Later => top = LoadedTop
    /\ stage = "done" =>
         top = Restrict(LoadedTop, {n \in DOMAIN LoadedTop :
                  LET p == Piece(LoadedTop[n]) IN
                      p.kind # "xref" /\ ~(p.kind = "container" /\ p.typed)})
    /\ stage \in {"trailer", "decrypt", "done"} \cup Later /\ ~rebuilt =>
         \A n \in Entries : Parses(n)

LayerInv ==
    /\ stage \in {"walk", "load", "again", "reload", "trailer", "decrypt"} => handler = "none"
    /\ stage \in {"trailer", "decrypt", "done"} \cup Later => DOMAIN layer = DOMAIN top
    /\ stage \in {"trailer", "decrypt"} => \A n \in DOMAIN top : layer[n] = Enciphered(input)[top[n]]
    /\ stage \in {"done"} \cup Later =>
         /\ handler \in {"none", "open", "locked"} /\ (handler = "none" <=> ~encrypted)
         /\ handler # "open" => \A n \in DOMAIN top : layer[n] = Enciphered(input)[top[n]]
    /\ stage \in Later /\ handler = "open" =>
         \A n \in DOMAIN top : IF DecryptedNow(top[n]) THEN Told(n)
                               ELSE layer[n] = Enciphered(input)[top[n]]
    /\ stage = "done" /\ handler = "open" => \A n \in DOMAIN top : Told(n)

Boxes == {c \in DOMAIN LoadedTop : Piece(LoadedTop[c]).kind = "container" /\ Piece(LoadedTop[c]).typed}
Outside == DOMAIN LoadedTop \cup {0}

UnpackInv ==
    /\ stage \in {"walk", "load", "again", "reload", "trailer", "decrypt", "unpack", "materialize"}
         => packed = Empty
    /\ stage \in {"root", "finish", "done"} =>
         /\ packed = [n \in DOMAIN packed |-> packed[n]]
         /\ ~rebuilt => /\ DOMAIN packed \subseteq DOMAIN located.placed \ Outside
                        /\ \A n \in DOMAIN packed : packed[n] = located.placed[n]
                        /\ \A n \in DOMAIN located.placed \ (Outside \cup DOMAIN packed) :
                              located.placed[n] \in undecoded \cup skipped
         /\ rebuilt => /\ \A n \in DOMAIN packed : /\ n \notin Outside /\ packed[n] \in Boxes
                                                   /\ n \in Piece(LoadedTop[packed[n]]).holds
                       /\ \A c \in Boxes : \A n \in Piece(LoadedTop[c]).holds \ (Outside \cup DOMAIN packed) :
                             \E d \in Boxes \cap (undecoded \cup skipped) : n \in Piece(LoadedTop[d]).holds

LadderInv == LocatedInv /\ TrailerInv /\ LoadInv /\ LayerInv /\ UnpackInv

\* "A cancelled read returns a nil Document and an error wrapping ctx.Err()"
\* (ReadContext): a read that gave up because the context was done says so.
CanceledReadTold == cutShort => stage = "stopped"

\* "A parsed value shared by several object numbers ... must be decrypted at
\* most once" (DecryptDocument).
SharedOnce ==
    stage = "done" /\ handler = "open" =>
        \A n \in DOMAIN top :
            Shared(top[n]) /\ OwnKey(n) /\ Piece(top[n]).intact => layer[n] = {}

\* "Their strings and stream bodies are empty rather than noise" (Finish), said
\* of what could not be decrypted.
EmptyNotNoise ==
    stage = "done" /\ handler = "open" =>
        \A n \in DOMAIN top :
            \/ layer[n] = {} \/ Under(n) \in failures
            \/ ~Piece(top[n]).intact \/ Shared(top[n])
=============================================================================
