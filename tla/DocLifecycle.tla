---------------------------- MODULE DocLifecycle ----------------------------
(***************************************************************************)
(* The life of one pdf0 Document and of the file it is read from and       *)
(* written to: Read, the edits, the encryption calls of crypt_api.go, the  *)
(* refusals of Write, Save, WriteIncremental and the signing writers, and  *)
(* the reading back of what they wrote.                                    *)
(*                                                                         *)
(* What is abstracted.  An object's value is a member of Val; what the     *)
(* properties tell apart is how many times, and under which file key, its  *)
(* bytes are enciphered, so a piece of content carries the sequence of     *)
(* keys applied to it.  A file key is a model value; PasswordOf gives the  *)
(* password that opens it and BoundId the first /ID string it was derived  *)
(* from (revisions 2-4 mix the /ID into the key, revision 6 does not:      *)
(* AnyId).  The objects a file packs in object streams share one           *)
(* container, `box' being the keys applied to that container.              *)
(***************************************************************************)
EXTENDS Naturals, Sequences

CONSTANTS
    Obj,           \* content object numbers
    Packable,      \* those buildWriteSet may pack: not streams, generation 0
    Page,          \* the page the signing writers rewrite (signingTarget)
    Val,           \* the values an object may hold
    Key,           \* file encryption keys
    Password,      \* passwords a caller may give Read; EmptyPassword is one
    EmptyPassword,
    PasswordOf,    \* [Key -> ...]: outside Password when no caller knows it,
                   \* which also stands for a scheme pdf0 does not implement
    Id,            \* first /ID strings
    BoundId,       \* [Key -> Id \cup {NoId, AnyId}]
    Sig,           \* signatures and document time-stamps
    ForeignFiles,  \* the files the program may be handed
    Absent, Hollow, NoKey, Dangling, NoId, AnyId, NoFile, NoDoc

(***************************************************************************)
(* Data.                                                                   *)
(***************************************************************************)
Ids      == Id \cup {NoId}
Encrypts == Key \cup {NoKey, Dangling}   \* what a trailer's /Encrypt may be

\* layers: the file keys the bytes are enciphered under, innermost first;
\* filter: the /Encrypt dictionary whose crypt filter the stream names in a
\* /Crypt filter, if any; intact: FALSE when the ciphertext is corrupt.
Piece == [val : Val \cup {Hollow}, layers : Seq(Key),
          filter : Key \cup {NoKey}, intact : BOOLEAN]

\* Only streams name crypt filters, and no stream is packed.
Content == {c \in [Obj -> Piece \cup {Absent}] :
               \A o \in Packable : c[o] # Absent => c[o].filter = NoKey}

File == [content    : Content,
         packed     : SUBSET Obj,          \* stored in the object stream
         box        : Seq(Key),            \* the layers of that container
         boxIntact  : BOOLEAN,
         enc        : Encrypts,            \* /Encrypt of the newest trailer
         dicts      : SUBSET Key,          \* encryption dictionaries held
         id         : Ids,
         sigs       : SUBSET Sig,          \* those covering the file's bytes
         stale      : SUBSET Sig,          \* dictionaries covering other bytes
         chain      : BOOLEAN,             \* the xref chain is usable
         xrefStream : BOOLEAN]             \* the newest section is a stream

Doc == [content    : Content,
        enc        : Encrypts,             \* Trailer /Encrypt
        dicts      : SUBSET Key,
        security   : Key \cup {NoKey},     \* the security handler
        encrypted  : BOOLEAN,              \* Document.Encrypted
        id         : Ids,
        source     : File \cup {NoFile},   \* Source: the file as it was read
        missing    : SUBSET Obj,           \* objects of broken or skipped
                                           \* object streams
        failed     : SUBSET Obj,           \* decryptFailures
        graphSigs  : SUBSET Sig,           \* signature dictionaries in Objects
        consent    : BOOLEAN,              \* invalidatesSignatures
        xrefStream : BOOLEAN]              \* usedXRefStream

ASSUME ConstantsAssumption ==
    /\ Page \in Obj /\ Packable \subseteq Obj
    /\ EmptyPassword \in Password
    /\ DOMAIN PasswordOf = Key
    /\ BoundId \in [Key -> Id \cup {NoId, AnyId}]

ASSUME DistinctAssumption ==
    /\ NoKey \notin Key /\ Dangling \notin Key \cup {NoKey}
    /\ NoId \notin Id /\ AnyId \notin Id \cup {NoId}
    /\ Hollow \notin Val
    /\ Absent \notin Piece /\ NoFile \notin File /\ NoDoc \notin Doc

VARIABLES
    file,   \* the file the application keeps
    doc     \* the Document in memory, or NoDoc

vars == <<file, doc>>

Present(c)   == {o \in Obj : c[o] # Absent}
Layer(k)     == IF k \in Key THEN <<k>> ELSE <<>>
Plain(v)     == [val |-> v, layers |-> <<>>, filter |-> NoKey, intact |-> TRUE]
HollowPiece  == [val |-> Hollow, layers |-> <<>>, filter |-> NoKey, intact |-> TRUE]

\* Handler.Encrypt and EncryptCopy: one more layer, whatever is underneath.
Enciphered(p, k) == [p EXCEPT !.layers = Append(@, k)]

\* crypt.Open: the handler exists only for a resolvable /Encrypt whose
\* password validates under the file's /ID.
\* Faulty: an /Encrypt that resolves to nothing counts as opened.
OpensUnresolved(k, id, pw) ==
    k = Dangling \/ (k \in Key /\ PasswordOf[k] = pw /\ BoundId[k] \in {AnyId, id})

Opens(k, id, pw) ==
    k \in Key /\ PasswordOf[k] = pw /\ BoundId[k] \in {AnyId, id}

\* Handler.Decrypt and streamMethod: one layer comes off, and a stream that
\* names a crypt filter this /Encrypt does not define cannot be deciphered.
Decipherable(p, k) ==
    /\ p.intact
    /\ p.filter \in {NoKey, k}
    /\ p.layers # <<>>
    /\ p.layers[Len(p.layers)] = k

Deciphered(p, k) ==
    IF Decipherable(p, k)
    THEN [p EXCEPT !.layers = SubSeq(@, 1, Len(@) - 1)]
    ELSE HollowPiece

Locked(d) == (d.encrypted \/ d.enc # NoKey) /\ d.security = NoKey

(***************************************************************************)
(* Read.  `skip' is Read's choice not to unpack the object stream: a       *)
(* resource limit, or a filter pdf0 does not implement.                    *)
(***************************************************************************)
Unpacks(f, k, skip) ==
    /\ ~skip
    /\ f.boxIntact
    /\ f.box = Layer(k)

ReadContent(f, k, unpacked) ==
    [o \in Obj |->
        IF f.content[o] = Absent THEN Absent
        ELSE IF o \in f.packed
             THEN IF unpacked THEN f.content[o] ELSE Absent
        ELSE IF k \in Key THEN Deciphered(f.content[o], k)
        ELSE f.content[o]]

ReadOf(f, pw, skip) ==
    LET k        == IF Opens(f.enc, f.id, pw) THEN f.enc ELSE NoKey
        locked   == f.enc # NoKey /\ k = NoKey
        unpacked == ~locked /\ Unpacks(f, k, skip)
    IN  [content    |-> ReadContent(f, k, unpacked),
         enc        |-> f.enc,
         dicts      |-> f.dicts,
         security   |-> k,
         encrypted  |-> f.enc # NoKey,
         id         |-> f.id,
         source     |-> f,
         missing    |-> IF unpacked THEN {} ELSE f.packed,
         failed     |-> {o \in Present(f.content) \ f.packed :
                            k \in Key /\ ~Decipherable(f.content[o], k)},
         graphSigs  |-> f.sigs \cup f.stale,
         consent    |-> FALSE,
         xrefStream |-> f.xrefStream]

EmptyDoc ==
    [content |-> [o \in Obj |-> Absent], enc |-> NoKey, dicts |-> {},
     security |-> NoKey, encrypted |-> FALSE, id |-> NoId, source |-> NoFile,
     missing |-> {}, failed |-> {}, graphSigs |-> {}, consent |-> FALSE,
     xrefStream |-> FALSE]

\* Faulty: the consent outlives the document it was given for.
ReadKeepingConsent(pw, skip) ==
    /\ doc' = [ReadOf(file, pw, skip) EXCEPT !.consent = doc # NoDoc /\ doc.consent]
    /\ UNCHANGED file

Read(pw, skip) ==
    /\ doc' = ReadOf(file, pw, skip)
    /\ UNCHANGED file

NewDocument ==
    /\ doc' = EmptyDoc
    /\ UNCHANGED file

(***************************************************************************)
(* Edits.  Every builder of the package refuses a Locked document          *)
(* (errLockedTarget); Document.Add does not ask, and RawSpec lets it.      *)
(***************************************************************************)
Stored(o, v) ==
    /\ doc' = [doc EXCEPT !.content[o] = Plain(v)]
    /\ UNCHANGED file

Store(o, v) ==
    /\ doc # NoDoc
    /\ ~Locked(doc)
    /\ Stored(o, v)

Add(o, v) ==
    /\ doc # NoDoc
    /\ doc.content[o] = Absent
    /\ o \notin doc.missing           \* allocObjNum: a number nothing uses
    /\ Stored(o, v)

Delete(o) ==
    /\ doc # NoDoc
    /\ doc' = [doc EXCEPT !.content[o] = Absent]
    /\ UNCHANGED file

\* The caller removes a signature dictionary from the object graph.
DeleteSignature(s) ==
    /\ doc # NoDoc
    /\ doc' = [doc EXCEPT !.graphSigs = @ \ {s}]
    /\ UNCHANGED file

AllowInvalidatingSignatures ==
    /\ doc # NoDoc
    /\ doc' = [doc EXCEPT !.consent = TRUE]
    /\ UNCHANGED file

(***************************************************************************)
(* Encryption.                                                             *)
(***************************************************************************)
SourceSigs(d) ==
    IF d.source = NoFile THEN {} ELSE d.source.sigs \cup d.source.stale

SignaturesAtRisk(d) == ~d.consent /\ SourceSigs(d) # {}

StripCryptFilters(c) ==
    [o \in Obj |-> IF c[o] = Absent THEN Absent ELSE [c[o] EXCEPT !.filter = NoKey]]

\* Faulty: the dictionary stays in Objects.
DropEncryptionKeepingDict(d) ==
    IF d.enc = NoKey THEN d
    ELSE [d EXCEPT !.enc = NoKey, !.content = StripCryptFilters(@)]

DropEncryption(d) ==
    IF d.enc = NoKey THEN d
    ELSE [d EXCEPT !.enc = NoKey,
                   !.dicts = @ \ {d.enc},
                   !.content = StripCryptFilters(@)]

\* The key is the fresh random one of crypt.NewAES256: no file, document or
\* earlier dictionary holds it.
Fresh(k) ==
    /\ k \notin {file.enc, doc.enc}
    /\ k \notin file.dicts \cup doc.dicts
    /\ doc.source # NoFile => k # doc.source.enc
    /\ PasswordOf[k] \in Password \ {EmptyPassword}
    /\ BoundId[k] = AnyId

WithId(d, id) == IF d.id = NoId THEN [d EXCEPT !.id = id] ELSE d

InstallEncryption(d, k, id) ==
    [WithId(DropEncryption(d), id) EXCEPT
        !.enc = k, !.dicts = @ \cup {k}, !.security = k, !.encrypted = TRUE]

SetEncryption(k, id) ==
    /\ doc # NoDoc
    /\ ~Locked(doc)
    /\ ~SignaturesAtRisk(doc)
    /\ Fresh(k)
    /\ doc' = InstallEncryption(doc, k, id)
    /\ UNCHANGED file

Decrypted(d) ==
    IF d.security = NoKey THEN d
    ELSE [DropEncryption(d) EXCEPT !.security = NoKey, !.encrypted = FALSE]

RemoveEncryption ==
    /\ doc # NoDoc
    /\ doc' = Decrypted(doc)
    /\ UNCHANGED file

\* Repair's changes to the encryption and the trailer; what it prunes from
\* the objects are edits.
Repair(id) ==
    /\ doc # NoDoc
    /\ ~Locked(doc)
    /\ doc' = WithId(Decrypted(doc), id)
    /\ UNCHANGED file

(***************************************************************************)
(* Whole-document writers.  A writer that returns an error may have left   *)
(* part of a file in its io.Writer; the application keeps an output only   *)
(* when the call returned nil (WriteContext's advice), so a refusal, a     *)
(* cancellation or a failed output stream leaves `file' alone.             *)
(***************************************************************************)
\* Faulty: objects Read could not decrypt, or could not unpack, are no reason
\* to refuse.
SerializableWithFailures(d) ==
    /\ Locked(d) => d.enc \in Key
    /\ d.missing = {}

SerializableWithMissing(d) ==
    /\ Locked(d) => d.enc \in Key
    /\ d.failed = {}

Serializable(d) ==
    /\ Locked(d) => d.enc \in Key      \* a dangling /Encrypt is refused
    /\ d.missing = {}
    /\ d.failed = {}

\* buildWriteSet packs nothing in a Locked document, one read from a
\* cross-reference table, or one of a single candidate, which Obj does not
\* settle: a document has other objects; and one larger than the per-stream
\* limit stays an object of its own.
PackSets(d) ==
    IF d.xrefStream /\ ~Locked(d) THEN SUBSET (Packable \cap Present(d.content)) ELSE {{}}

Serialized(d, packed, signature) ==
    [content |->
        [o \in Obj |->
            IF d.content[o] = Absent \/ d.security = NoKey \/ o \in packed
            THEN d.content[o]
            ELSE Enciphered(d.content[o], d.security)],
     packed     |-> packed,
     box        |-> IF packed = {} THEN <<>> ELSE Layer(d.security),
     boxIntact  |-> TRUE,
     enc        |-> d.enc,
     dicts      |-> d.dicts,
     id         |-> d.id,
     sigs       |-> signature,
     stale      |-> d.graphSigs \ signature,
     chain      |-> TRUE,
     xrefStream |-> d.xrefStream]

\* With the signatures at risk taken to be those of the object graph.
WriteByGraph ==
    /\ doc # NoDoc
    /\ doc.consent \/ doc.graphSigs = {}
    /\ Serializable(doc)
    /\ \E packed \in PackSets(doc) : file' = Serialized(doc, packed, {})
    /\ UNCHANGED doc

Write ==
    /\ doc # NoDoc
    /\ ~SignaturesAtRisk(doc)
    /\ Serializable(doc)
    /\ \E packed \in PackSets(doc) : file' = Serialized(doc, packed, {})
    /\ UNCHANGED doc

\* Save of a document claiming PDF/A: the bytes are read back without a
\* password and checked before any of them is written.  A read-back that is
\* Locked or incomplete yields checker findings, so it is never written.
Verifiable(f) ==
    LET back == ReadOf(f, EmptyPassword, FALSE)
    IN  ~Locked(back) /\ back.missing = {} /\ back.failed = {} /\ back.enc = NoKey

SaveClaimed ==
    /\ doc # NoDoc
    /\ ~SignaturesAtRisk(doc)
    /\ Serializable(doc)
    /\ \E packed \in PackSets(doc) :
          LET out == Serialized(doc, packed, {})
          IN  Verifiable(out) /\ file' = out
    /\ UNCHANGED doc

Signable(d) == ~Locked(d) /\ ~d.encrypted /\ d.security = NoKey

NewSig(s) == s \notin file.sigs \cup file.stale \cup doc.graphSigs \cup SourceSigs(doc)

\* invalidate: the InvalidatingExistingSignatures option.
WriteSigned(s, invalidate) ==
    /\ doc # NoDoc
    /\ Signable(doc)
    /\ ~invalidate => ~SignaturesAtRisk(doc)
    /\ NewSig(s)
    /\ Serializable(doc)
    /\ \E packed \in PackSets(doc) : file' = Serialized(doc, packed, {s})
    /\ UNCHANGED doc

(***************************************************************************)
(* Incremental writers: the source file's bytes, then the changed objects. *)
(***************************************************************************)
\* With the document's own encryption asked about, and not the source file's.
UpdatableInClear(d) ==
    /\ d.source # NoFile
    /\ d.source.chain
    /\ d.security = NoKey /\ ~d.encrypted
    /\ d.missing = {}

Updatable(d) ==
    /\ d.source # NoFile
    /\ d.source.chain
    /\ d.security = NoKey /\ ~d.encrypted
    /\ d.source.enc = NoKey              \* Source.fileEncrypted
    /\ d.missing = {}

Updated(d, changed, signature) ==
    [d.source EXCEPT
        !.content = [o \in Obj |-> IF o \in changed THEN d.content[o] ELSE @[o]],
        !.packed  = @ \ changed,
        !.enc     = d.enc,
        !.id      = d.id,
        !.sigs    = @ \cup signature]

WriteIncremental(changed) ==
    /\ doc # NoDoc
    /\ Updatable(doc)
    /\ changed # {}
    /\ file' = Updated(doc, changed, {})
    /\ UNCHANGED doc

\* WriteSignedIncremental and WriteArchivalTimestamp: the update holds the
\* signature's own objects and the page it is hung on, as the Document in
\* memory has it.
WriteSignedIncremental(s) ==
    /\ doc # NoDoc
    /\ Signable(doc)
    /\ Updatable(doc)
    /\ doc.content[Page] # Absent        \* signingTarget
    /\ NewSig(s)
    /\ file' = Updated(doc, {Page}, {s})
    /\ UNCHANGED doc

-----------------------------------------------------------------------------
Init ==
    /\ file \in ForeignFiles
    /\ doc = NoDoc

Edit ==
    \/ \E o \in Obj, v \in Val : Store(o, v)
    \/ \E o \in Obj : Delete(o)
    \/ \E s \in Sig : DeleteSignature(s)
    \/ AllowInvalidatingSignatures

Protect ==
    \/ \E k \in Key, id \in Id : SetEncryption(k, id)
    \/ RemoveEncryption
    \/ \E id \in Id : Repair(id)

Output ==
    \/ Write
    \/ SaveClaimed
    \/ \E s \in Sig, invalidate \in BOOLEAN : WriteSigned(s, invalidate)
    \/ \E changed \in SUBSET Obj : WriteIncremental(changed)
    \/ \E s \in Sig : WriteSignedIncremental(s)

Next ==
    \/ \E pw \in Password, skip \in BOOLEAN : Read(pw, skip)
    \/ NewDocument
    \/ Edit
    \/ Protect
    \/ Output

Spec == Init /\ [][Next]_vars

\* The same with a caller who adds objects to a Locked document.
RawSpec == Init /\ [][Next \/ \E o \in Obj, v \in Val : Add(o, v)]_vars
-----------------------------------------------------------------------------
(***************************************************************************)
(* Properties.                                                             *)
(***************************************************************************)

\* Every variable has its type: the records are those Read and the writers
\* build, and a Document's handler is never a key its trailer does not name.
TypeOK ==
    /\ file \in File
    /\ doc \in Doc \cup {NoDoc}

\* A file is coherent when every piece of it is enciphered exactly once under
\* the key its trailer declares, or not at all when it declares none.
\* A dangling /Encrypt says nothing about the content.
Layered(f) ==
    \A o \in Present(f.content) :
        IF o \in f.packed
        THEN f.content[o].layers = <<>> /\ f.content[o].filter = NoKey
        ELSE f.content[o].layers = Layer(f.enc) /\ f.content[o].filter \in {NoKey, f.enc}

Coherent(f) ==
    f.enc # Dangling =>
        /\ Layered(f)
        /\ f.packed # {} => f.box = Layer(f.enc)
        /\ f.enc \in Key => BoundId[f.enc] \in {AnyId, f.id}

\* The file on disk is always coherent: no history of reads with right and
\* wrong passwords, edits, SetEncryption, RemoveEncryption, Repair and writers
\* leaves plaintext under an /Encrypt, ciphertext in the clear, content
\* enciphered twice or under two keys (installEncryption, dropEncryption,
\* serialize, buildWriteSet, and the refusals of each), nor a key its /ID does
\* not derive.
FileCoherent == Coherent(file)

\* No writer replaces content Read could not recover by an empty value: the
\* objects decryptFailures lists reach no file.
NoHollowWritten ==
    \A o \in Present(file.content) : file.content[o].val # Hollow

\* The /Encrypt dictionary of an encryption that was replaced or removed is
\* not left behind as an orphan, which would publish the old /O and /U
\* (dropEncryption's candidates).
NoStaleEncryptDict == file.dicts \subseteq {file.enc}

\* All three: whatever the calls that led to it, the file is one that every
\* reader with a password gets the whole document from, and nobody more.
FileSound == FileCoherent /\ NoHollowWritten /\ NoStaleEncryptDict

\* What a file is known to be, wherever a copy of it is held.
Sound(f) ==
    /\ Coherent(f)
    /\ \A o \in Present(f.content) : f.content[o].val # Hollow
    /\ f.dicts \subseteq {f.enc}

\* What is known of a Document: its flag agrees with its trailer, its handler
\* is the trailer's and its /ID is the one the handler's key was derived with;
\* unless it is Locked nothing in memory is enciphered, and when it is every
\* piece still has its file's one layer; an empty piece is a recorded failure,
\* and only a document read from an encrypted file has any.
DocSound(d) ==
    /\ d.encrypted <=> d.enc # NoKey
    /\ d.security # NoKey => d.security = d.enc
    /\ d.enc \in Key => BoundId[d.enc] \in {AnyId, d.id}
    /\ d.source # NoFile => Sound(d.source)
    /\ d.failed # {} => d.source # NoFile /\ d.source.enc # NoKey
    /\ d.dicts \subseteq {d.enc}
    /\ \A o \in Present(d.content) :
          /\ ~Locked(d) => /\ d.content[o].layers = <<>>
                           /\ d.content[o].filter \in {NoKey, d.security}
          /\ Locked(d) /\ d.enc # Dangling =>
                /\ d.content[o].layers = Layer(d.enc)
                /\ d.content[o].filter \in {NoKey, d.enc}
          /\ d.content[o].val = Hollow => d.failed # {}

\* The files the program is handed are sound: a file whose pieces disagree
\* with its own trailer is outside what any reader can do right.
ASSUME ForeignFilesAssumption ==
    \A f \in ForeignFiles : f \in File /\ Sound(f)

\* The inductive invariant behind FileCoherent, NoHollowWritten and
\* NoStaleEncryptDict: what a writer writes is right because what Read built
\* and the edits and encryption calls left in memory is.
IInv ==
    /\ TypeOK
    /\ Sound(file)
    /\ doc # NoDoc => DocSound(doc)

\* A step that replaces the file by a rewrite of a document keeps every
\* signature that covered the file that document was read from, unless the
\* caller consented, for good with AllowInvalidatingSignatures or for one
\* call with InvalidatingExistingSignatures; reading a file back never carries
\* a consent over.
SignaturesKept ==
    [][/\ file' # file =>
            \/ doc.source = NoFile
            \/ doc.source.sigs \subseteq file'.sigs
            \/ doc.consent
            \/ \E s \in Sig : WriteSigned(s, TRUE)
       /\ \A pw \in Password, skip \in BOOLEAN : Read(pw, skip) => ~doc'.consent]_vars

\* What a writer makes of a Locked document is its ciphertext, under the
\* file's own /Encrypt: every piece of it still has that one layer.
LockedCarriedThrough ==
    [][doc # NoDoc /\ Locked(doc) /\ file' # file => Layered(file')]_vars

\* Signing a file incrementally appends the signature and changes no content
\* of the file: what the caller edited in memory is not in the update.
OnlySignatureAppended ==
    [][\A s \in Sig : WriteSignedIncremental(s) =>
          file'.content = doc.source.content]_vars

-----------------------------------------------------------------------------
(***************************************************************************)
(* The document implements DocPromise.  The value of a piece is the one a  *)
(* reader who holds the key gets; an object Read could not unpack has the  *)
(* value the source file gives it, whatever is stored over it, since no    *)
(* writer takes the document any more.                                     *)
(***************************************************************************)
ValueOf(p, layers, k) ==
    IF p.intact /\ p.layers = layers /\ p.filter \in {NoKey, k} THEN p.val ELSE Hollow

KeyKnown(k, id) == k \in Key => BoundId[k] \in {AnyId, id}

FileVals(f) ==
    [o \in Obj |->
        IF f.content[o] = Absent THEN Absent
        ELSE IF f.enc = Dangling \/ ~KeyKnown(f.enc, f.id) THEN Hollow
        ELSE IF o \in f.packed
             THEN IF f.boxIntact /\ f.box = Layer(f.enc)
                  THEN ValueOf(f.content[o], <<>>, NoKey) ELSE Hollow
        ELSE ValueOf(f.content[o], Layer(f.enc), f.enc)]

DocVals(d) ==
    [o \in Obj |->
        IF o \in d.missing THEN FileVals(d.source)[o]
        ELSE IF d.content[o] = Absent THEN Absent
        ELSE IF ~Locked(d) THEN ValueOf(d.content[o], <<>>, d.security)
        ELSE IF d.enc = Dangling \/ ~KeyKnown(d.enc, d.id) THEN Hollow
        ELSE ValueOf(d.content[o], Layer(d.enc), d.enc)]

AbstractFile(f) == [vals |-> FileVals(f), key |-> f.enc, sigs |-> f.sigs]

AbstractDoc(d) ==
    IF d = NoDoc THEN NoDoc
    ELSE [vals |-> DocVals(d), key |-> d.enc, consent |-> d.consent,
          base |-> IF d.source = NoFile THEN NoDoc ELSE AbstractFile(d.source)]

Promise == INSTANCE DocPromise WITH
    disk <- AbstractFile(file), mem <- AbstractDoc(doc), Lost <- Hollow, Nothing <- NoDoc

\* No document is not one.
ASSUME NothingAssumption == NoDoc \notin Promise!Mem \cup Promise!Disk

\* Whatever its state, a Document does what DocPromise says or refuses:
\* reading a file back gives the values the writer was asked to write, under
\* the key the document had, for decrypted, re-encrypted and Locked documents,
\* and with objects packed in object streams that Read may or may not unpack.
ImplementsPromise == Promise!Spec
=============================================================================
