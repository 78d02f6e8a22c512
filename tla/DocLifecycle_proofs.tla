------------------------ MODULE DocLifecycle_proofs ------------------------
(***************************************************************************)
(* FileSound, SignaturesKept and ImplementsPromise for every set of objects,*)
(* keys, passwords, signatures and files, by the inductive invariant IInv.  *)
(***************************************************************************)
EXTENDS DocLifecycle, TLAPS

\* One layer put on plain bytes is the layer of the key, and takes off again.
LEMMA LayerFacts ==
    ASSUME NEW k \in Key
    PROVE  /\ Layer(k) = <<k>> /\ Layer(k) \in Seq(Key)
           /\ Append(<<>>, k) = Layer(k)
           /\ Len(Layer(k)) = 1 /\ Layer(k)[1] = k
           /\ SubSeq(Layer(k), 1, Len(Layer(k)) - 1) = <<>>
           /\ Layer(k) # <<>>
  <1>1. Layer(k) = <<k>> BY DEF Layer
  <1>2. Append(<<>>, k) = <<k>> OBVIOUS
  <1>3. SubSeq(<<k>>, 1, 0) = <<>> OBVIOUS
  <1>4. Len(<<k>>) = 1 /\ <<k>> \in Seq(Key) OBVIOUS
  <1> QED BY <1>1, <1>2, <1>3, <1>4

LEMMA LayerNone == Layer(NoKey) = <<>> /\ Layer(NoKey) \in Seq(Key)
  BY DistinctAssumption DEF Layer

\* Deciphering always leaves a piece without layers that names no other
\* crypt filter, and marks it empty only when it could not be deciphered.
LEMMA DecipheredPlain ==
    ASSUME NEW k \in Key, NEW p \in Piece, p.layers = Layer(k)
    PROVE  /\ Deciphered(p, k) \in Piece
           /\ Deciphered(p, k).layers = <<>>
           /\ Deciphered(p, k).filter \in {NoKey, k}
           /\ p.filter = NoKey => Deciphered(p, k).filter = NoKey
           /\ Deciphered(p, k) # Absent
           /\ Deciphered(p, k).val = Hollow =>
                 p.val = Hollow \/ ~Decipherable(p, k)
  <1>1. HollowPiece \in Piece
    BY DEF HollowPiece, Piece
  <1>2. CASE Decipherable(p, k)
    <2>1. Deciphered(p, k) = [p EXCEPT !.layers = <<>>]
      BY <1>2, LayerFacts DEF Deciphered
    <2>2. <<>> \in Seq(Key)
      OBVIOUS
    <2>3. [p EXCEPT !.layers = <<>>] \in Piece
      BY <2>2 DEF Piece
    <2> QED BY <1>2, <2>1, <2>3, DistinctAssumption DEF Decipherable, Piece
  <1>3. CASE ~Decipherable(p, k)
    <2>1. Deciphered(p, k) = HollowPiece
      BY <1>3 DEF Deciphered
    <2>2. HollowPiece.layers = <<>> /\ HollowPiece.filter = NoKey
      BY DEF HollowPiece
    <2>3. HollowPiece # Absent
      BY <1>1, DistinctAssumption
    <2> QED BY <1>1, <1>3, <2>1, <2>2, <2>3
  <1> QED BY <1>2, <1>3

\* A document just read from a sound file is sound, whatever the password
\* and whether or not the object stream was unpacked.
LEMMA ReadSound ==
    ASSUME NEW f \in File, Sound(f), NEW pw, NEW skip \in BOOLEAN
    PROVE  ReadOf(f, pw, skip) \in Doc /\ DocSound(ReadOf(f, pw, skip))
  <1> DEFINE k == IF Opens(f.enc, f.id, pw) THEN f.enc ELSE NoKey
             locked == f.enc # NoKey /\ k = NoKey
             unpacked == ~locked /\ Unpacks(f, k, skip)
             d == ReadOf(f, pw, skip)
  <1>1. /\ d.content = ReadContent(f, k, unpacked)
        /\ d.enc = f.enc /\ d.dicts = f.dicts /\ d.security = k
        /\ d.encrypted = (f.enc # NoKey) /\ d.id = f.id /\ d.source = f
        /\ d.failed = {o \in Present(f.content) \ f.packed :
                          k \in Key /\ ~Decipherable(f.content[o], k)}
    BY DEF ReadOf
  <1>2. /\ k \in Key \cup {NoKey}
        /\ k # NoKey => k \in Key /\ k = f.enc /\ BoundId[k] \in {AnyId, f.id}
        /\ k \in Key <=> k # NoKey
    BY DistinctAssumption DEF Opens
  <1>3. Locked(d) <=> locked
    BY <1>1 DEF Locked
  <1>4. ASSUME NEW o \in Obj
        PROVE  /\ d.content[o] \in Piece \cup {Absent}
               /\ o \in Packable /\ d.content[o] # Absent => d.content[o].filter = NoKey
               /\ d.content[o] # Absent =>
                     /\ ~locked => /\ d.content[o].layers = <<>>
                                   /\ d.content[o].filter \in {NoKey, k}
                     /\ locked /\ f.enc # Dangling =>
                           /\ d.content[o].layers = Layer(f.enc)
                           /\ d.content[o].filter \in {NoKey, f.enc}
                     /\ d.content[o].val = Hollow => d.failed # {}
    <2> DEFINE p == f.content[o]
    <2>1. /\ p \in Piece \cup {Absent}
          /\ o \in Packable /\ p # Absent => p.filter = NoKey
          /\ p # Absent => p \in Piece /\ p.val # Hollow
          /\ p # Absent /\ f.enc # Dangling /\ o \in f.packed =>
                p.layers = <<>> /\ p.filter = NoKey
          /\ p # Absent /\ f.enc # Dangling /\ o \notin f.packed =>
                p.layers = Layer(f.enc) /\ p.filter \in {NoKey, f.enc}
      BY DEF File, Content, Sound, Coherent, Layered, Present
    <2>2. d.content[o] = IF p = Absent THEN Absent
                         ELSE IF o \in f.packed
                              THEN IF unpacked THEN p ELSE Absent
                         ELSE IF k \in Key THEN Deciphered(p, k)
                         ELSE p
      BY <1>1 DEF ReadContent
    <2>3. CASE p = Absent
      BY <2>2, <2>3
    <2>4. CASE p # Absent /\ o \in f.packed
      <3>1. CASE unpacked
        <4>1. f.enc # Dangling
          BY <3>1, <1>2, DistinctAssumption
        <4> QED BY <2>1, <2>2, <2>4, <3>1, <4>1
      <3>2. CASE ~unpacked
        BY <2>2, <2>4, <3>2
      <3> QED BY <3>1, <3>2
    <2>5. CASE p # Absent /\ o \notin f.packed /\ k \in Key
      <3>1. d.content[o] = Deciphered(p, k)
        BY <2>2, <2>5
      <3>2. /\ f.enc = k /\ f.enc # Dangling /\ p \in Piece /\ p.layers = Layer(k)
            /\ ~locked
        BY <2>1, <2>5, <1>2, DistinctAssumption
      <3>3. d.content[o].val = Hollow => o \in d.failed
        BY <1>1, <2>1, <2>5, <3>1, <3>2, DecipheredPlain DEF Present
      <3>4. /\ d.content[o] \in Piece /\ d.content[o] # Absent
            /\ d.content[o].layers = <<>>
            /\ d.content[o].filter \in {NoKey, k}
            /\ p.filter = NoKey => d.content[o].filter = NoKey
        BY <2>5, <3>1, <3>2, DecipheredPlain
      <3> QED BY <2>1, <2>5, <3>2, <3>3, <3>4
    <2>6. CASE p # Absent /\ o \notin f.packed /\ k \notin Key
      <3>1. d.content[o] = p /\ k = NoKey
        BY <2>2, <2>6, <1>2
      <3>2. CASE locked
        BY <2>1, <2>6, <3>1, <3>2
      <3>3. CASE ~locked
        <4>1. f.enc = NoKey
          BY <3>1, <3>3
        <4> QED BY <2>1, <2>6, <3>1, <3>3, <4>1, LayerNone, DistinctAssumption
      <3> QED BY <3>2, <3>3
    <2> QED BY <2>3, <2>4, <2>5, <2>6
  <1>5. d \in Doc
    <2>1. d.content \in Content
      <3>1. d.content = [o \in Obj |-> d.content[o]]
        BY <1>1 DEF ReadContent
      <3>2. d.content \in [Obj -> Piece \cup {Absent}]
        BY <1>4, <3>1
      <3>3. \A o \in Packable : d.content[o] # Absent => d.content[o].filter = NoKey
        BY <1>4, ConstantsAssumption
      <3> QED BY <3>2, <3>3 DEF Content
    <2>2. d.failed \subseteq Obj
      BY <1>1 DEF Present
    <2>3. d.content = ReadContent(f, k, unpacked) /\ d.failed \in SUBSET Obj
      BY <1>1, <2>2
    <2>4. /\ f.packed \in SUBSET Obj /\ f.enc \in Encrypts /\ f.dicts \in SUBSET Key
          /\ f.id \in Ids /\ f.sigs \cup f.stale \in SUBSET Sig /\ f.xrefStream \in BOOLEAN
      BY DEF File
    <2> QED BY <1>1, <1>2, <2>1, <2>3, <2>4 DEF ReadOf, Doc
  <1>6. DocSound(d)
    <2>1. d.encrypted <=> d.enc # NoKey
      BY <1>1
    <2>2. d.security # NoKey => d.security = d.enc
      BY <1>1, <1>2
    <2>3. d.enc \in Key => BoundId[d.enc] \in {AnyId, d.id}
      BY <1>1, DistinctAssumption DEF Sound, Coherent
    <2>4. (d.source # NoFile => Sound(d.source)) /\ d.dicts \subseteq {d.enc}
      BY <1>1 DEF Sound
    <2>5. d.failed # {} => d.source.enc # NoKey
      BY <1>1, <1>2
    <2>6. d.source # NoFile
      BY <1>1, DistinctAssumption
    <2> QED BY <1>1, <1>3, <1>4, <2>1, <2>2, <2>3, <2>4, <2>5, <2>6 DEF DocSound, Present
  <1> QED BY <1>5, <1>6

\* What dropEncryption leaves of a document that is in the clear: no /Encrypt,
\* no encryption dictionary and no crypt filter, and everything else.
LEMMA DropSound ==
    ASSUME NEW d \in Doc, DocSound(d), ~Locked(d)
    PROVE  LET e == DropEncryption(d) IN
           /\ e \in Doc
           /\ e.enc = NoKey /\ e.dicts = {}
           /\ e.id = d.id /\ e.source = d.source /\ e.failed = d.failed
           /\ d.security = NoKey => e.security = NoKey /\ ~e.encrypted
           /\ \A o \in Present(e.content) :
                 /\ e.content[o].layers = <<>> /\ e.content[o].filter = NoKey
                 /\ e.content[o].val = Hollow => e.failed # {}
  <1> DEFINE e == DropEncryption(d)
             stripped == StripCryptFilters(d.content)
  <1>1. CASE d.enc = NoKey
    <2>1. e = d
      BY <1>1 DEF DropEncryption
    <2>2. d.dicts = {}
      BY <1>1, DistinctAssumption DEF DocSound, Doc
    <2>3. d.security = NoKey
      BY <1>1 DEF DocSound
    <2> QED BY <1>1, <2>1, <2>2, <2>3 DEF DocSound
  <1>2. CASE d.enc # NoKey
    <2>1. e = [d EXCEPT !.enc = NoKey, !.dicts = @ \ {d.enc}, !.content = stripped]
      BY <1>2 DEF DropEncryption
    <2>2. /\ d.content \in [Obj -> Piece \cup {Absent}]
          /\ d.dicts \subseteq {d.enc}
          /\ d.security # NoKey
      BY <1>2 DEF Doc, Content, DocSound, Locked
    <2>3. ASSUME NEW o \in Obj
          PROVE  /\ stripped[o] \in Piece \cup {Absent}
                 /\ stripped[o] # Absent =>
                       /\ d.content[o] # Absent
                       /\ stripped[o].filter = NoKey
                       /\ stripped[o].layers = d.content[o].layers
                       /\ stripped[o].val = d.content[o].val
      <3>1. CASE d.content[o] = Absent
        BY <3>1 DEF StripCryptFilters
      <3>2. CASE d.content[o] # Absent
        <4>1. d.content[o] \in Piece
          BY <2>2, <3>2
        <4>2. stripped[o] = [d.content[o] EXCEPT !.filter = NoKey]
          BY <3>2 DEF StripCryptFilters
        <4> QED BY <3>2, <4>1, <4>2 DEF Piece
      <3> QED BY <3>1, <3>2
    <2>4. stripped \in Content
      <3>1. stripped \in [Obj -> Piece \cup {Absent}]
        BY <2>3 DEF StripCryptFilters
      <3> QED BY <2>3, <3>1, ConstantsAssumption DEF Content
    <2>5. e \in Doc
      BY <2>1, <2>4 DEF Doc, Encrypts
    <2>6. /\ e.enc = NoKey /\ e.dicts = {} /\ e.content = stripped
          /\ e.id = d.id /\ e.source = d.source /\ e.failed = d.failed
      BY <2>1, <2>2 DEF Doc
    <2> QED BY <2>2, <2>3, <2>5, <2>6 DEF DocSound, Present
  <1> QED BY <1>1, <1>2

LEMMA WithIdFacts ==
    ASSUME NEW d \in Doc, NEW id \in Id
    PROVE  LET e == WithId(d, id) IN
           /\ e \in Doc
           /\ d.id # NoId => e.id = d.id
           /\ \A a \in {"content", "enc", "dicts", "security", "encrypted", "source",
                        "missing", "failed", "graphSigs", "consent", "xrefStream"} :
                 e[a] = d[a]
  BY DEF WithId, Doc, Ids

\* RemoveEncryption leaves a sound document that is not Locked and has no
\* encryption left, unless it had no handler: then it changes nothing.
LEMMA DecryptedSound ==
    ASSUME NEW d \in Doc, DocSound(d)
    PROVE  /\ Decrypted(d) \in Doc /\ DocSound(Decrypted(d))
           /\ ~Locked(d) => Decrypted(d).enc = NoKey
  <1>1. CASE d.security = NoKey
    BY <1>1 DEF Decrypted, Locked
  <1>2. CASE d.security # NoKey
    <2> DEFINE e == DropEncryption(d)
               f == [e EXCEPT !.security = NoKey, !.encrypted = FALSE]
    <2>1. Decrypted(d) = f /\ ~Locked(d)
      BY <1>2 DEF Decrypted, Locked
    <2>2. /\ e \in Doc /\ e.enc = NoKey /\ e.dicts = {} /\ e.source = d.source
          /\ e.failed = d.failed
          /\ \A o \in Present(e.content) :
                /\ e.content[o].layers = <<>> /\ e.content[o].filter = NoKey
                /\ e.content[o].val = Hollow => e.failed # {}
      BY <2>1, DropSound
    <2> HIDE DEF e
    <2>3. /\ f \in Doc /\ f.enc = NoKey /\ f.dicts = {} /\ f.security = NoKey
          /\ ~f.encrypted /\ f.source = d.source /\ f.content = e.content
          /\ f.failed = e.failed
      BY <2>2 DEF Doc
    <2>4. ~Locked(f)
      BY <2>3 DEF Locked
    <2>5. DocSound(f)
      BY <2>2, <2>3, <2>4, DistinctAssumption DEF DocSound
    <2> QED BY <2>1, <2>3, <2>5
  <1> QED BY <1>1, <1>2

\* Repair may add an /ID: the document has no key left that one could spoil.
LEMMA RepairSound ==
    ASSUME NEW d \in Doc, DocSound(d), ~Locked(d), NEW id \in Id
    PROVE  WithId(Decrypted(d), id) \in Doc /\ DocSound(WithId(Decrypted(d), id))
  <1> DEFINE e == Decrypted(d)
             f == WithId(e, id)
  <1>1. e \in Doc /\ DocSound(e) /\ e.enc = NoKey
    BY DecryptedSound
  <1> HIDE DEF e
  <1>2. /\ f \in Doc /\ f.content = e.content /\ f.enc = e.enc /\ f.dicts = e.dicts
        /\ f.security = e.security /\ f.encrypted = e.encrypted
        /\ f.source = e.source /\ f.failed = e.failed
    BY <1>1, WithIdFacts
  <1> HIDE DEF f
  <1>3. DocSound(f)
    BY <1>1, <1>2, DistinctAssumption DEF DocSound, Locked
  <1> QED BY <1>2, <1>3 DEF e, f

\* SetEncryption installs its key over a document with no other encryption
\* left, and the key depends on no /ID.
LEMMA InstallSound ==
    ASSUME NEW d \in Doc, DocSound(d), ~Locked(d), NEW id \in Id,
           NEW k \in Key, BoundId[k] = AnyId
    PROVE  InstallEncryption(d, k, id) \in Doc /\ DocSound(InstallEncryption(d, k, id))
  <1> DEFINE e == DropEncryption(d)
             w == WithId(e, id)
             f == [w EXCEPT !.enc = k, !.dicts = @ \cup {k}, !.security = k,
                            !.encrypted = TRUE]
  <1>1. InstallEncryption(d, k, id) = f
    BY DEF InstallEncryption
  <1>2. /\ e \in Doc /\ e.dicts = {} /\ e.source = d.source
        /\ e.failed = d.failed
        /\ \A o \in Present(e.content) :
              /\ e.content[o].layers = <<>> /\ e.content[o].filter = NoKey
              /\ e.content[o].val = Hollow => e.failed # {}
    BY DropSound
  <1> HIDE DEF e
  <1>3. /\ w \in Doc /\ w.content = e.content /\ w.dicts = {}
        /\ w.source = d.source /\ w.failed = e.failed
    BY <1>2, WithIdFacts
  <1> HIDE DEF w
  <1>4. /\ f \in Doc /\ f.enc = k /\ f.dicts = {k} /\ f.security = k /\ f.encrypted
        /\ f.source = d.source /\ f.content = e.content /\ f.failed = e.failed
    BY <1>3 DEF Doc, Encrypts
  <1> HIDE DEF f
  <1>5. ~Locked(f) /\ k # NoKey
    BY <1>4, DistinctAssumption DEF Locked
  <1>6. DocSound(f)
    BY <1>2, <1>4, <1>5 DEF DocSound
  <1> QED BY <1>1, <1>4, <1>6

\* The enciphering of plain bytes is one layer.
LEMMA EncipheredOnce ==
    ASSUME NEW k \in Key, NEW p \in Piece, p.layers = <<>>
    PROVE  /\ Enciphered(p, k) \in Piece
           /\ Enciphered(p, k).layers = Layer(k)
           /\ Enciphered(p, k).filter = p.filter
           /\ Enciphered(p, k).val = p.val
           /\ Enciphered(p, k).intact = p.intact
  <1>1. Enciphered(p, k) = [p EXCEPT !.layers = Layer(k)]
    BY LayerFacts DEF Enciphered
  <1> QED BY <1>1, LayerFacts DEF Piece

\* A whole-document writer writes a sound file from a sound document: each
\* piece goes out as it is, which for a Locked document is under its file's
\* one layer, or gets exactly one layer when there is a handler.
LEMMA SerializedSound ==
    ASSUME NEW d \in Doc, DocSound(d), Serializable(d),
           NEW packed \in PackSets(d), NEW signature \in SUBSET Sig
    PROVE  Serialized(d, packed, signature) \in File
           /\ Sound(Serialized(d, packed, signature))
  <1> DEFINE f == Serialized(d, packed, signature)
             k == d.security
  <1>1. /\ f.packed = packed /\ f.box = (IF packed = {} THEN <<>> ELSE Layer(k))
        /\ f.boxIntact = TRUE /\ f.enc = d.enc /\ f.dicts = d.dicts /\ f.id = d.id
        /\ f.sigs = signature /\ f.stale = d.graphSigs \ signature
        /\ f.chain = TRUE /\ f.xrefStream = d.xrefStream
        /\ f.content = [o \in Obj |->
              IF d.content[o] = Absent \/ k = NoKey \/ o \in packed
              THEN d.content[o] ELSE Enciphered(d.content[o], k)]
    BY DEF Serialized
  <1>2. /\ packed \subseteq Packable /\ packed \subseteq Present(d.content)
        /\ Locked(d) => packed = {}
    BY DEF PackSets
  <1>3. /\ k \in Key \cup {NoKey} /\ d.enc \in Encrypts
        /\ k # NoKey => k \in Key /\ d.enc = k /\ ~Locked(d)
        /\ Locked(d) => d.enc \in Key /\ d.enc # Dangling /\ k = NoKey
        /\ k = NoKey /\ ~Locked(d) => d.enc = NoKey
        /\ d.failed = {}
    BY DistinctAssumption DEF Doc, DocSound, Locked, Serializable
  <1>4. ASSUME NEW o \in Obj
        PROVE  /\ f.content[o] \in Piece \cup {Absent}
               /\ o \in Packable /\ f.content[o] # Absent => f.content[o].filter = NoKey
               /\ f.content[o] # Absent =>
                     /\ f.content[o].val # Hollow
                     /\ o \in packed => /\ f.content[o].layers = <<>>
                                        /\ f.content[o].filter = NoKey
                     /\ o \notin packed => /\ f.content[o].layers = Layer(d.enc)
                                           /\ f.content[o].filter \in {NoKey, d.enc}
    <2> DEFINE p == d.content[o]
    <2>1. /\ p \in Piece \cup {Absent}
          /\ o \in Packable /\ p # Absent => p.filter = NoKey
      BY DEF Doc, Content
    <2>2. p # Absent =>
             /\ p.val # Hollow
             /\ ~Locked(d) => p.layers = <<>> /\ p.filter \in {NoKey, k}
             /\ Locked(d) => p.layers = Layer(d.enc) /\ p.filter \in {NoKey, d.enc}
      BY <1>3 DEF DocSound, Present
    <2>3. f.content[o] = IF p = Absent \/ k = NoKey \/ o \in packed
                         THEN p ELSE Enciphered(p, k)
      BY <1>1
    <2>4. CASE p = Absent
      BY <2>3, <2>4
    <2>5. CASE p # Absent /\ o \in packed
      <3>1. ~Locked(d) /\ o \in Packable /\ f.content[o] = p
        BY <1>2, <2>3, <2>5
      <3> QED BY <2>1, <2>2, <2>5, <3>1
    <2>6. CASE p # Absent /\ o \notin packed /\ k = NoKey
      <3>1. f.content[o] = p
        BY <2>3, <2>6
      <3>2. CASE Locked(d)
        BY <2>1, <2>2, <2>6, <3>1, <3>2
      <3>3. CASE ~Locked(d)
        BY <1>3, <2>1, <2>2, <2>6, <3>1, <3>3, LayerNone
      <3> QED BY <3>2, <3>3
    <2>7. CASE p # Absent /\ o \notin packed /\ k # NoKey
      <3>1. f.content[o] = Enciphered(p, k) /\ p \in Piece
        BY <2>1, <2>3, <2>7
      <3>2. k \in Key /\ d.enc = k /\ p.layers = <<>> /\ p.filter \in {NoKey, k}
        BY <1>3, <2>2, <2>7
      <3>3. /\ Enciphered(p, k) \in Piece /\ Enciphered(p, k).layers = Layer(k)
            /\ Enciphered(p, k).filter = p.filter /\ Enciphered(p, k).val = p.val
        BY <3>1, <3>2, EncipheredOnce
      <3> QED BY <2>1, <2>2, <2>7, <3>1, <3>2, <3>3
    <2> QED BY <2>4, <2>5, <2>6, <2>7
  <1>5. f \in File
    <2>1. f.content \in Content
      <3>1. f.content = [o \in Obj |-> f.content[o]]
        BY <1>1
      <3>2. f.content \in [Obj -> Piece \cup {Absent}]
        BY <1>4, <3>1
      <3> QED BY <1>4, <3>2, ConstantsAssumption DEF Content
    <2>2. f.box \in Seq(Key)
      <3>1. <<>> \in Seq(Key)
        OBVIOUS
      <3> QED BY <1>1, <1>3, <3>1, LayerNone, LayerFacts
    <2>3. /\ packed \in SUBSET Obj /\ d.dicts \in SUBSET Key /\ d.id \in Ids
          /\ d.graphSigs \ signature \in SUBSET Sig /\ d.xrefStream \in BOOLEAN
      BY <1>2, ConstantsAssumption DEF Doc
    <2>4. /\ f.content \in Content /\ f.box \in Seq(Key)
      BY <2>1, <2>2
    <2> QED BY <1>1, <1>3, <2>3, <2>4 DEF Serialized, File
  <1>6. Sound(f)
    <2>1. Layered(f)
      BY <1>1, <1>4 DEF Layered, Present
    <2>2. f.packed # {} => f.box = Layer(f.enc)
      BY <1>1, <1>2, <1>3
    <2>3. f.enc \in Key => BoundId[f.enc] \in {AnyId, f.id}
      BY <1>1 DEF DocSound
    <2>4. \A o \in Present(f.content) : f.content[o].val # Hollow
      BY <1>4 DEF Present
    <2>5. f.dicts \subseteq {f.enc}
      BY <1>1 DEF DocSound
    <2> QED BY <2>1, <2>2, <2>3, <2>4, <2>5 DEF Sound, Coherent
  <1> QED BY <1>5, <1>6

\* An incremental update of a sound plaintext file with pieces of a sound
\* plaintext document is sound.
LEMMA UpdatedSound ==
    ASSUME NEW d \in Doc, DocSound(d), Updatable(d), NEW changed \in SUBSET Obj,
           NEW signature \in SUBSET Sig
    PROVE  Updated(d, changed, signature) \in File
           /\ Sound(Updated(d, changed, signature))
  <1> DEFINE g == d.source
             f == Updated(d, changed, signature)
             c == [o \in Obj |-> IF o \in changed THEN d.content[o] ELSE g.content[o]]
  <1>1. /\ g \in File /\ Sound(g) /\ g.enc = NoKey /\ d.enc = NoKey
        /\ d.security = NoKey /\ ~Locked(d) /\ d.failed = {}
    BY DEF Updatable, DocSound, Doc, Locked
  <1>2. f = [g EXCEPT !.content = c, !.packed = @ \ changed, !.enc = NoKey,
                      !.id = d.id, !.sigs = @ \cup signature]
    BY <1>1 DEF Updated
  <1>3. /\ f.content = c /\ f.packed = g.packed \ changed /\ f.enc = NoKey
        /\ f.box = g.box /\ f.dicts = g.dicts
    BY <1>1, <1>2 DEF File
  <1>4. ASSUME NEW o \in Obj
        PROVE  /\ c[o] \in Piece \cup {Absent}
               /\ o \in Packable /\ c[o] # Absent => c[o].filter = NoKey
               /\ c[o] # Absent => c[o].layers = <<>> /\ c[o].filter = NoKey
                                   /\ c[o].val # Hollow
    <2>1. CASE o \in changed
      BY <1>1, <2>1 DEF Doc, Content, DocSound, Present
    <2>2. CASE o \notin changed
      <3>1. c[o] = g.content[o]
        BY <2>2
      <3>2. /\ g.content[o] \in Piece \cup {Absent}
            /\ o \in Packable /\ g.content[o] # Absent => g.content[o].filter = NoKey
        BY <1>1 DEF File, Content
      <3>3. g.content[o] # Absent =>
                /\ g.content[o].val # Hollow
                /\ g.content[o].layers = <<>> /\ g.content[o].filter = NoKey
        BY <1>1, LayerNone, DistinctAssumption DEF Sound, Coherent, Layered, Present
      <3> QED BY <3>1, <3>2, <3>3
    <2> QED BY <2>1, <2>2
  <1> HIDE DEF c
  <1>5. f \in File
    <2>1. c \in Content
      <3>1. c \in [Obj -> Piece \cup {Absent}]
        BY <1>4 DEF c
      <3> QED BY <1>4, <3>1, ConstantsAssumption DEF Content
    <2>2. d.id \in Ids /\ NoKey \in Encrypts
      BY DEF Doc, Encrypts
    <2>3. /\ g.packed \ changed \in SUBSET Obj /\ g.sigs \cup signature \in SUBSET Sig
      BY <1>1 DEF File
    <2> QED BY <1>1, <1>2, <2>1, <2>2, <2>3 DEF File
  <1>6. Sound(f)
    <2>1. Layered(f)
      BY <1>3, <1>4, LayerNone DEF Layered, Present
    <2>2. f.packed # {} => f.box = Layer(f.enc)
      BY <1>1, <1>3, DistinctAssumption DEF Sound, Coherent
    <2>3. f.enc \notin Key
      BY <1>3, DistinctAssumption
    <2>4. \A o \in Present(f.content) : f.content[o].val # Hollow
      BY <1>3, <1>4 DEF Present
    <2>5. f.dicts \subseteq {f.enc}
      BY <1>1, <1>3 DEF Sound
    <2> QED BY <2>1, <2>2, <2>3, <2>4, <2>5 DEF Sound, Coherent
  <1> QED BY <1>5, <1>6

-----------------------------------------------------------------------------
LEMMA InitIInv == Init => IInv
  BY ForeignFilesAssumption, DistinctAssumption DEF Init, IInv, TypeOK

\* Steps that change only the document.
LEMMA ReadStep ==
    ASSUME IInv, NEW pw \in Password, NEW skip \in BOOLEAN, Read(pw, skip)
    PROVE  IInv'
  <1>1. file' = file /\ doc' = ReadOf(file, pw, skip)
    BY DEF Read
  <1>2. file \in File /\ Sound(file)
    BY DEF IInv, TypeOK
  <1> QED BY <1>1, <1>2, ReadSound DEF IInv, TypeOK

LEMMA EmptyDocSound == EmptyDoc \in Doc /\ DocSound(EmptyDoc)
  <1>1. EmptyDoc.content \in Content
    BY ConstantsAssumption DEF EmptyDoc, Content
  <1>2. EmptyDoc \in Doc
    BY <1>1 DEF EmptyDoc, Doc, Encrypts, Ids
  <1>3. Present(EmptyDoc.content) = {} /\ EmptyDoc.enc \notin Key
    BY DistinctAssumption DEF EmptyDoc, Present
  <1> QED BY <1>2, <1>3 DEF EmptyDoc, DocSound

LEMMA NewDocumentStep == IInv /\ NewDocument => IInv'
  BY EmptyDocSound DEF IInv, TypeOK, NewDocument

LEMMA StoreStep ==
    ASSUME IInv, NEW o \in Obj, NEW v \in Val, Store(o, v)
    PROVE  IInv' /\ doc' \in Doc /\ DocSound(doc')
  <1>1. /\ doc \in Doc /\ DocSound(doc) /\ ~Locked(doc)
        /\ doc' = [doc EXCEPT !.content[o] = Plain(v)] /\ file' = file
    BY DEF IInv, TypeOK, Store, Stored
  <1>2. /\ Plain(v) \in Piece /\ Plain(v).layers = <<>> /\ Plain(v).filter = NoKey
        /\ Plain(v).val # Hollow
    BY DistinctAssumption DEF Plain, Piece
  <1>3. /\ doc.content \in [Obj -> Piece \cup {Absent}]
        /\ doc'.content = [doc.content EXCEPT ![o] = Plain(v)]
    BY <1>1 DEF Doc, Content
  <1>4. doc'.content \in Content
    BY ConstantsAssumption, <1>1, <1>2, <1>3 DEF Doc, Content
  <1>5. doc' \in Doc
    BY <1>1, <1>3, <1>4 DEF Doc
  <1>6. /\ doc'.enc = doc.enc /\ doc'.security = doc.security /\ doc'.id = doc.id
        /\ doc'.encrypted = doc.encrypted /\ doc'.source = doc.source
        /\ doc'.dicts = doc.dicts /\ doc'.failed = doc.failed
    BY <1>1 DEF Doc
  <1>7. DocSound(doc')
    BY <1>1, <1>2, <1>3, <1>6 DEF DocSound, Locked, Present
  <1> QED BY <1>1, <1>5, <1>7 DEF IInv, TypeOK

LEMMA DeleteStep ==
    ASSUME IInv, NEW o \in Obj, Delete(o)
    PROVE  IInv' /\ doc' \in Doc /\ DocSound(doc')
  <1>1. /\ doc \in Doc /\ DocSound(doc)
        /\ doc' = [doc EXCEPT !.content[o] = Absent] /\ file' = file
    BY DEF IInv, TypeOK, Delete
  <1>2. /\ doc.content \in [Obj -> Piece \cup {Absent}]
        /\ doc'.content = [doc.content EXCEPT ![o] = Absent]
    BY <1>1 DEF Doc, Content
  <1>3. doc'.content \in Content
    BY ConstantsAssumption, <1>1, <1>2 DEF Doc, Content
  <1>4. doc' \in Doc
    BY <1>1, <1>2, <1>3 DEF Doc
  <1>5. /\ doc'.enc = doc.enc /\ doc'.security = doc.security /\ doc'.id = doc.id
        /\ doc'.encrypted = doc.encrypted /\ doc'.source = doc.source
        /\ doc'.dicts = doc.dicts /\ doc'.failed = doc.failed
    BY <1>1 DEF Doc
  <1>6. DocSound(doc')
    BY <1>1, <1>2, <1>5 DEF DocSound, Locked, Present
  <1> QED BY <1>1, <1>4, <1>6 DEF IInv, TypeOK

\* Neither the graph's signature dictionaries nor the consent is part of what
\* the invariant says of a document.
LEMMA SignatureEditStep ==
    ASSUME IInv, NEW s \in Sig, DeleteSignature(s)
    PROVE  IInv' /\ doc' \in Doc /\ DocSound(doc')
  <1>1. /\ doc \in Doc /\ DocSound(doc) /\ file' = file
        /\ doc' = [doc EXCEPT !.graphSigs = @ \ {s}]
    BY DEF IInv, TypeOK, DeleteSignature
  <1>2. /\ doc' \in Doc
        /\ doc'.enc = doc.enc /\ doc'.security = doc.security /\ doc'.id = doc.id
        /\ doc'.encrypted = doc.encrypted /\ doc'.source = doc.source
        /\ doc'.dicts = doc.dicts /\ doc'.failed = doc.failed
        /\ doc'.content = doc.content
    BY <1>1 DEF Doc
  <1>3. DocSound(doc')
    BY <1>1, <1>2 DEF DocSound, Locked
  <1> QED BY <1>1, <1>2, <1>3 DEF IInv, TypeOK

LEMMA ConsentStep == IInv /\ AllowInvalidatingSignatures => IInv'
  <1> SUFFICES ASSUME IInv, AllowInvalidatingSignatures PROVE IInv'
    OBVIOUS
  <1>1. /\ doc \in Doc /\ DocSound(doc) /\ file' = file
        /\ doc' = [doc EXCEPT !.consent = TRUE]
    BY DEF IInv, TypeOK, AllowInvalidatingSignatures
  <1>2. /\ doc' \in Doc
        /\ doc'.enc = doc.enc /\ doc'.security = doc.security /\ doc'.id = doc.id
        /\ doc'.encrypted = doc.encrypted /\ doc'.source = doc.source
        /\ doc'.dicts = doc.dicts /\ doc'.failed = doc.failed
        /\ doc'.content = doc.content
    BY <1>1 DEF Doc
  <1>3. DocSound(doc')
    BY <1>1, <1>2 DEF DocSound, Locked
  <1> QED BY <1>1, <1>2, <1>3 DEF IInv, TypeOK

LEMMA ProtectStep == IInv /\ Protect => IInv'
  <1> SUFFICES ASSUME IInv, Protect PROVE IInv'
    OBVIOUS
  <1>1. doc # NoDoc /\ file' = file /\ doc \in Doc /\ DocSound(doc)
    BY DEF IInv, TypeOK, Protect, SetEncryption, RemoveEncryption, Repair
  <1>2. doc' \in Doc /\ DocSound(doc')
    <2>1. ASSUME NEW k \in Key, NEW id \in Id, SetEncryption(k, id)
          PROVE  doc' \in Doc /\ DocSound(doc')
      <3>1. /\ ~Locked(doc) /\ BoundId[k] = AnyId
            /\ doc' = InstallEncryption(doc, k, id)
        BY <2>1 DEF SetEncryption, Fresh
      <3> QED BY <1>1, <3>1, InstallSound
    <2>2. ASSUME RemoveEncryption
          PROVE  doc' \in Doc /\ DocSound(doc')
      BY <1>1, <2>2, DecryptedSound DEF RemoveEncryption
    <2>3. ASSUME NEW id \in Id, Repair(id)
          PROVE  doc' \in Doc /\ DocSound(doc')
      BY <1>1, <2>3, RepairSound DEF Repair
    <2> QED BY <2>1, <2>2, <2>3 DEF Protect
  <1> QED BY <1>1, <1>2 DEF IInv, TypeOK

\* Steps that change only the file.
LEMMA OutputStep == IInv /\ Output => IInv'
  <1> SUFFICES ASSUME IInv, Output PROVE IInv'
    OBVIOUS
  <1>1. doc # NoDoc /\ doc' = doc /\ doc \in Doc /\ DocSound(doc)
    BY DEF IInv, TypeOK, Output, Write, SaveClaimed, WriteSigned, WriteIncremental,
           WriteSignedIncremental
  <1>2. file' \in File /\ Sound(file')
    <2>1. CASE Write
      BY <1>1, <2>1, SerializedSound DEF Write
    <2>2. CASE SaveClaimed
      BY <1>1, <2>2, SerializedSound DEF SaveClaimed
    <2>3. ASSUME NEW s \in Sig, NEW invalidate \in BOOLEAN, WriteSigned(s, invalidate)
          PROVE  file' \in File /\ Sound(file')
      BY <1>1, <2>3, SerializedSound DEF WriteSigned
    <2>4. ASSUME NEW changed \in SUBSET Obj, WriteIncremental(changed)
          PROVE  file' \in File /\ Sound(file')
      BY <1>1, <2>4, UpdatedSound DEF WriteIncremental
    <2>5. ASSUME NEW s \in Sig, WriteSignedIncremental(s)
          PROVE  file' \in File /\ Sound(file')
      <3>1. /\ Updatable(doc) /\ file' = Updated(doc, {Page}, {s})
            /\ {Page} \in SUBSET Obj /\ {s} \in SUBSET Sig
        BY <2>5, ConstantsAssumption DEF WriteSignedIncremental
      <3> QED BY <1>1, <3>1, UpdatedSound
    <2> QED BY <2>1, <2>2, <2>3, <2>4, <2>5 DEF Output
  <1> QED BY <1>1, <1>2 DEF IInv, TypeOK

LEMMA NextIInv == IInv /\ [Next]_vars => IInv'
  <1> SUFFICES ASSUME IInv, [Next]_vars PROVE IInv'
    OBVIOUS
  <1>1. CASE UNCHANGED vars
    BY <1>1 DEF IInv, TypeOK, vars
  <1>2. ASSUME NEW pw \in Password, NEW skip \in BOOLEAN, Read(pw, skip) PROVE IInv'
    BY <1>2, ReadStep
  <1>3. CASE NewDocument
    BY <1>3, NewDocumentStep
  <1>4. CASE Edit
    BY <1>4, StoreStep, DeleteStep, SignatureEditStep, ConsentStep DEF Edit
  <1>5. CASE Protect
    BY <1>5, ProtectStep
  <1>6. CASE Output
    BY <1>6, OutputStep
  <1> QED BY <1>1, <1>2, <1>3, <1>4, <1>5, <1>6 DEF Next

\* The inductive invariant holds in every reachable state: in particular the
\* records of `file' and `doc' have their types.
THEOREM TypeCorrect == Spec => []IInv
  BY InitIInv, NextIInv, PTL DEF Spec

\* No history of calls makes the file unsound: every piece is enciphered exactly
\* once under the key its trailer declares, or not at all (the refusals of
\* serialize, SetEncryption and Repair, buildWriteSet); what Read could not
\* decrypt is in no file as an empty value (serialize's decryptFailures refusal,
\* incrementalUpdate's fileEncrypted); and no file holds the dictionary of an
\* encryption it no longer uses (dropEncryption).
THEOREM FileStaysSound == Spec => []FileSound
  <1>1. IInv => FileSound
    BY DEF IInv, Sound, FileSound, FileCoherent, NoHollowWritten, NoStaleEncryptDict
  <1> QED BY <1>1, TypeCorrect, PTL

\* No step discards a signature of the document's file without the caller's
\* consent (signaturesAtRisk and its callers).
THEOREM KeepsSignatures == Spec => SignaturesKept
  <1> DEFINE Kept == /\ file' # file =>
                           \/ doc.source = NoFile
                           \/ doc.source.sigs \subseteq file'.sigs
                           \/ doc.consent
                           \/ \E s \in Sig : WriteSigned(s, TRUE)
                     /\ \A pw \in Password, skip \in BOOLEAN :
                           Read(pw, skip) => ~doc'.consent
  <1>1. ASSUME IInv, Next PROVE Kept
    <2>1. \A pw \in Password, skip \in BOOLEAN : Read(pw, skip) => ~doc'.consent
      BY DEF Read, ReadOf
    <2>2. ASSUME file' # file
          PROVE  \/ doc.source = NoFile
                 \/ doc.source.sigs \subseteq file'.sigs
                 \/ doc.consent
                 \/ \E s \in Sig : WriteSigned(s, TRUE)
      <3>1. Output
        BY <1>1, <2>2 DEF Next, Edit, Protect, Read, NewDocument, Store, Delete,
              Stored, DeleteSignature, AllowInvalidatingSignatures,
              SetEncryption, RemoveEncryption, Repair
      <3>2. CASE Write \/ SaveClaimed
        BY <3>2 DEF Write, SaveClaimed, SignaturesAtRisk, SourceSigs
      <3>3. ASSUME NEW s \in Sig, NEW invalidate \in BOOLEAN,
                   WriteSigned(s, invalidate)
            PROVE  \/ doc.source = NoFile
                   \/ doc.source.sigs \subseteq file'.sigs
                   \/ doc.consent
                   \/ \E t \in Sig : WriteSigned(t, TRUE)
        BY <3>3 DEF WriteSigned, SignaturesAtRisk, SourceSigs
      <3>4. ASSUME NEW changed \in SUBSET Obj, NEW signature,
                   doc # NoDoc, Updatable(doc),
                   file' = Updated(doc, changed, signature)
            PROVE  doc.source.sigs \subseteq file'.sigs
        <4>1. doc.source \in File
          BY <1>1, <3>4 DEF IInv, TypeOK, Doc, Updatable
        <4> QED BY <3>4, <4>1 DEF Updated, File
      <3>5. CASE \E changed \in SUBSET Obj : WriteIncremental(changed)
        BY <3>4, <3>5 DEF WriteIncremental
      <3>6. CASE \E s \in Sig : WriteSignedIncremental(s)
        <4>1. {Page} \in SUBSET Obj
          BY ConstantsAssumption
        <4> QED BY <3>4, <3>6, <4>1 DEF WriteSignedIncremental
      <3> QED BY <3>1, <3>2, <3>3, <3>5, <3>6 DEF Output
    <2> QED BY <2>1, <2>2
  <1>2. IInv /\ [Next]_vars => [Kept]_vars
    BY <1>1
  <1> QED BY <1>2, TypeCorrect, PTL DEF Spec, SignaturesKept

-----------------------------------------------------------------------------
(* The promise: what the values of a file and of a document are.            *)

\* A piece read with its layers is its value, or lost.
LEMMA ValueKinds ==
    ASSUME NEW p \in Piece, NEW l, NEW k
    PROVE  ValueOf(p, l, k) \in Val \cup {Hollow}
  BY DEF ValueOf, Piece

\* The abstraction of a file is a file of the promise, and not the absence of one.
LEMMA FileValsKind ==
    ASSUME NEW f \in File
    PROVE  /\ FileVals(f) \in [Obj -> Val \cup {Absent, Hollow}]
           /\ AbstractFile(f) \in Promise!Disk /\ AbstractFile(f) # NoDoc
           /\ AbstractFile(f).vals = FileVals(f) /\ AbstractFile(f).key = f.enc
           /\ AbstractFile(f).sigs = f.sigs
  <1>1. \A o \in Obj : f.content[o] \in Piece \cup {Absent}
    BY DEF File, Content
  <1>2. \A o \in Obj : FileVals(f)[o] \in Val \cup {Absent, Hollow}
    <2> TAKE o \in Obj
    <2>1. f.content[o] # Absent =>
            \A l, k : ValueOf(f.content[o], l, k) \in Val \cup {Hollow}
      BY <1>1, ValueKinds
    <2> QED BY <2>1 DEF FileVals
  <1>3. FileVals(f) \in [Obj -> Val \cup {Absent, Hollow}]
    BY <1>2 DEF FileVals
  <1>4. f.enc \in Key \cup {NoKey, Dangling} /\ f.sigs \in SUBSET Sig
    BY DEF File, Encrypts
  <1>5. AbstractFile(f) \in Promise!Disk
    BY <1>3, <1>4 DEF AbstractFile, Promise!Disk, Promise!Vals
  <1> QED BY <1>3, <1>5, NothingAssumption DEF AbstractFile

\* What Read did not unpack is in the file it was read from.
Sourced(d) == d.missing # {} => d.source # NoFile

\* The abstraction of a document, field by field.
LEMMA DocValsKind ==
    ASSUME NEW d \in Doc, Sourced(d)
    PROVE  /\ AbstractDoc(d) # NoDoc /\ d # NoDoc
           /\ DocVals(d) \in [Obj -> Val \cup {Absent, Hollow}]
           /\ AbstractDoc(d) = [vals |-> DocVals(d), key |-> d.enc, consent |-> d.consent,
                                base |-> IF d.source = NoFile THEN NoDoc
                                         ELSE AbstractFile(d.source)]
  <1>1. \A o \in Obj : d.content[o] \in Piece \cup {Absent}
    BY DEF Doc, Content
  <1>2. d.source # NoFile => d.source \in File
    BY DEF Doc
  <1>3. \A o \in Obj : DocVals(d)[o] \in Val \cup {Absent, Hollow}
    <2> TAKE o \in Obj
    <2>1. d.content[o] # Absent =>
            \A l, k : ValueOf(d.content[o], l, k) \in Val \cup {Hollow}
      BY <1>1, ValueKinds
    <2>2. o \in d.missing => FileVals(d.source)[o] \in Val \cup {Absent, Hollow}
      BY <1>2, FileValsKind DEF Sourced
    <2> QED BY <2>1, <2>2 DEF DocVals
  <1>4. DocVals(d) \in [Obj -> Val \cup {Absent, Hollow}]
    BY <1>3 DEF DocVals
  <1>5. d # NoDoc
    BY DistinctAssumption
  <1> DEFINE a == [vals |-> DocVals(d), key |-> d.enc, consent |-> d.consent,
                   base |-> IF d.source = NoFile THEN NoDoc ELSE AbstractFile(d.source)]
  <1>6. AbstractDoc(d) = a
    BY <1>5 DEF AbstractDoc
  <1>7. a \in Promise!Mem
    <2>1. d.enc \in Key \cup {NoKey, Dangling} /\ d.consent \in BOOLEAN
      BY DEF Doc, Encrypts
    <2>2. (IF d.source = NoFile THEN NoDoc ELSE AbstractFile(d.source))
            \in Promise!Disk \cup {NoDoc}
      BY <1>2, FileValsKind
    <2> QED BY <1>4, <2>1, <2>2 DEF Promise!Mem, Promise!Vals
  <1> QED BY <1>4, <1>5, <1>6, <1>7, NothingAssumption

\* Reading a sound file gives its values, whatever the password and whether or
\* not the object stream was unpacked.
LEMMA ReadsValues ==
    ASSUME NEW f \in File, Sound(f), NEW pw, NEW skip \in BOOLEAN
    PROVE  DocVals(ReadOf(f, pw, skip)) = FileVals(f)
  <1> DEFINE k == IF Opens(f.enc, f.id, pw) THEN f.enc ELSE NoKey
             locked == f.enc # NoKey /\ k = NoKey
             unpacked == ~locked /\ Unpacks(f, k, skip)
             d == ReadOf(f, pw, skip)
  <1>1. /\ d.content = ReadContent(f, k, unpacked)
        /\ d.enc = f.enc /\ d.security = k /\ d.encrypted = (f.enc # NoKey)
        /\ d.id = f.id /\ d.source = f
        /\ d.missing = IF unpacked THEN {} ELSE f.packed
    BY DEF ReadOf
  <1>2. /\ k \in Key \cup {NoKey}
        /\ k # NoKey => k \in Key /\ k = f.enc /\ BoundId[k] \in {AnyId, f.id}
        /\ k \in Key <=> k # NoKey
    BY DistinctAssumption DEF Opens
  <1>3. Locked(d) <=> locked
    BY <1>1 DEF Locked
  <1> HIDE DEF d, locked, unpacked, k
  <1>4. ASSUME NEW o \in Obj PROVE DocVals(d)[o] = FileVals(f)[o]
    <2> DEFINE p == f.content[o]
    <2>1. /\ p \in Piece \cup {Absent}
          /\ p # Absent => p \in Piece
          /\ p # Absent /\ f.enc # Dangling /\ o \in f.packed =>
                p.layers = <<>> /\ p.filter = NoKey
          /\ p # Absent /\ f.enc # Dangling /\ o \notin f.packed =>
                p.layers = Layer(f.enc) /\ p.filter \in {NoKey, f.enc}
      BY DEF File, Content, Sound, Coherent, Layered, Present
    <2>2. d.content[o] = IF p = Absent THEN Absent
                         ELSE IF o \in f.packed
                              THEN IF unpacked THEN p ELSE Absent
                         ELSE IF k \in Key THEN Deciphered(p, k)
                         ELSE p
      BY <1>1 DEF ReadContent
    <2>3. DocVals(d)[o] =
            IF o \in d.missing THEN FileVals(f)[o]
            ELSE IF d.content[o] = Absent THEN Absent
            ELSE IF ~locked THEN ValueOf(d.content[o], <<>>, k)
            ELSE IF f.enc = Dangling \/ ~KeyKnown(f.enc, f.id) THEN Hollow
            ELSE ValueOf(d.content[o], Layer(f.enc), f.enc)
      BY <1>1, <1>3 DEF DocVals
    <2>4. FileVals(f)[o] =
            IF p = Absent THEN Absent
            ELSE IF f.enc = Dangling \/ ~KeyKnown(f.enc, f.id) THEN Hollow
            ELSE IF o \in f.packed
                 THEN IF f.boxIntact /\ f.box = Layer(f.enc)
                      THEN ValueOf(p, <<>>, NoKey) ELSE Hollow
            ELSE ValueOf(p, Layer(f.enc), f.enc)
      BY DEF FileVals
    <2> HIDE DEF p
    <2>5. CASE o \in d.missing
      BY <2>3, <2>5
    <2>6. CASE p = Absent /\ o \notin d.missing
      BY <2>2, <2>3, <2>4, <2>6
    <2>7. CASE p # Absent /\ o \notin d.missing /\ o \in f.packed
      <3>1. unpacked
        BY <1>1, <2>7
      <3>2. ~locked /\ f.boxIntact /\ f.box = Layer(k) /\ k = f.enc
        BY <3>1, <1>2 DEF unpacked, Unpacks, locked
      <3>3. f.enc # Dangling /\ KeyKnown(f.enc, f.id)
        BY <3>2, <1>2, DistinctAssumption DEF KeyKnown
      <3>4. d.content[o] = p /\ p.filter = NoKey
        BY <2>1, <2>2, <2>7, <3>1, <3>3
      <3>5. ValueOf(p, <<>>, k) = ValueOf(p, <<>>, NoKey)
        BY <3>4 DEF ValueOf
      <3> QED BY <2>3, <2>4, <2>7, <3>2, <3>3, <3>4, <3>5
    <2>8. CASE p # Absent /\ o \notin d.missing /\ o \notin f.packed /\ k \in Key
      <3>1. /\ d.content[o] = Deciphered(p, k) /\ k = f.enc /\ ~locked
            /\ f.enc # Dangling /\ KeyKnown(f.enc, f.id)
        BY <1>2, <2>2, <2>8, DistinctAssumption DEF locked, KeyKnown
      <3>2. p \in Piece /\ p.layers = Layer(k) /\ p.filter \in {NoKey, k}
        BY <2>1, <2>8, <3>1
      <3>3. d.content[o] # Absent
        BY <2>8, <3>1, <3>2, DecipheredPlain
      <3>4. ValueOf(Deciphered(p, k), <<>>, k) = ValueOf(p, Layer(k), k)
        <4>1. p.layers # <<>> /\ p.layers[Len(p.layers)] = k
          BY <2>8, <3>2, LayerFacts
        <4>2. Decipherable(p, k) <=> p.intact
          BY <3>2, <4>1 DEF Decipherable
        <4>3. CASE p.intact
          <5>1. Deciphered(p, k) = [p EXCEPT !.layers = <<>>]
            BY <2>8, <3>2, <4>2, <4>3, LayerFacts DEF Deciphered
          <5>2. [p EXCEPT !.layers = <<>>].layers = <<>>
                /\ [p EXCEPT !.layers = <<>>].filter = p.filter
                /\ [p EXCEPT !.layers = <<>>].val = p.val
                /\ [p EXCEPT !.layers = <<>>].intact = p.intact
            BY <3>2 DEF Piece
          <5> QED BY <3>2, <4>3, <5>1, <5>2 DEF ValueOf
        <4>4. CASE ~p.intact
          <5>1. Deciphered(p, k) = HollowPiece
            BY <4>2, <4>4 DEF Deciphered
          <5>2. HollowPiece.val = Hollow
            BY DEF HollowPiece
          <5> QED BY <4>4, <5>1, <5>2 DEF ValueOf
        <4> QED BY <4>3, <4>4
      <3> QED BY <2>3, <2>4, <2>8, <3>1, <3>3, <3>4
    <2>9. CASE p # Absent /\ o \notin d.missing /\ o \notin f.packed /\ k \notin Key
      <3>1. d.content[o] = p /\ k = NoKey
        BY <1>2, <2>2, <2>9
      <3>2. CASE locked
        BY <2>3, <2>4, <2>9, <3>1, <3>2
      <3>3. CASE ~locked
        <4>1. f.enc = NoKey
          BY <3>1, <3>3 DEF locked
        <4>2. f.enc # Dangling /\ KeyKnown(f.enc, f.id) /\ Layer(f.enc) = <<>>
          BY <4>1, LayerNone, DistinctAssumption DEF KeyKnown
        <4> QED BY <2>3, <2>4, <2>9, <3>1, <3>3, <4>1, <4>2
      <3> QED BY <3>2, <3>3
    <2> QED BY <2>5, <2>6, <2>7, <2>8, <2>9
  <1>5. DocVals(d) = [o \in Obj |-> DocVals(d)[o]] /\ FileVals(f) = [o \in Obj |-> FileVals(f)[o]]
    BY DEF DocVals, FileVals
  <1>6. [o \in Obj |-> DocVals(d)[o]] = [o \in Obj |-> FileVals(f)[o]]
    BY <1>4, Zenon
  <1>7. DocVals(d) = FileVals(f)
    BY <1>5, <1>6
  <1> QED BY <1>7 DEF d

\* The values of a document in memory that is not Locked: nothing is enciphered.
ClearVal(p) == IF p.intact THEN p.val ELSE Hollow

LEMMA ClearVals ==
    ASSUME NEW d \in Doc, DocSound(d), ~Locked(d), NEW o \in Obj
    PROVE  /\ DocVals(d)[o] = IF o \in d.missing THEN FileVals(d.source)[o]
                              ELSE IF d.content[o] = Absent THEN Absent
                              ELSE ClearVal(d.content[o])
           /\ d.content[o] # Absent =>
                 ValueOf(d.content[o], <<>>, d.security) = ClearVal(d.content[o])
  <1>1. d.content[o] # Absent =>
            d.content[o].layers = <<>> /\ d.content[o].filter \in {NoKey, d.security}
    BY DEF DocSound, Present
  <1>2. d.content[o] # Absent =>
            ValueOf(d.content[o], <<>>, d.security) = ClearVal(d.content[o])
    BY <1>1 DEF ValueOf, ClearVal
  <1> QED BY <1>2 DEF DocVals

\* Two documents in the clear that agree on what their objects hold have the
\* same values.
LEMMA SameVals ==
    ASSUME NEW d \in Doc, DocSound(d), ~Locked(d),
           NEW e \in Doc, DocSound(e), ~Locked(e),
           e.missing = d.missing, e.source = d.source,
           \A o \in Obj :
              /\ e.content[o] = Absent <=> d.content[o] = Absent
              /\ d.content[o] # Absent => ClearVal(e.content[o]) = ClearVal(d.content[o])
    PROVE  DocVals(e) = DocVals(d)
  <1>1. ASSUME NEW o \in Obj PROVE DocVals(e)[o] = DocVals(d)[o]
    <2>1. DocVals(d)[o] = IF o \in d.missing THEN FileVals(d.source)[o]
                          ELSE IF d.content[o] = Absent THEN Absent
                          ELSE ClearVal(d.content[o])
      BY ClearVals
    <2>2. DocVals(e)[o] = IF o \in e.missing THEN FileVals(e.source)[o]
                          ELSE IF e.content[o] = Absent THEN Absent
                          ELSE ClearVal(e.content[o])
      BY ClearVals
    <2> QED BY <2>1, <2>2
  <1>2. DocVals(d) = [o \in Obj |-> DocVals(d)[o]] /\ DocVals(e) = [o \in Obj |-> DocVals(e)[o]]
    BY DEF DocVals
  <1>3. [o \in Obj |-> DocVals(d)[o]] = [o \in Obj |-> DocVals(e)[o]]
    BY <1>1, Zenon
  <1> QED BY <1>2, <1>3

\* dropEncryption takes crypt filters off and touches no byte of an object.
LEMMA DropKeeps ==
    ASSUME NEW d \in Doc
    PROVE  LET e == DropEncryption(d) IN
           /\ e.missing = d.missing /\ e.source = d.source /\ e.consent = d.consent
           /\ \A o \in Obj :
                 /\ e.content[o] = Absent <=> d.content[o] = Absent
                 /\ d.content[o] # Absent => ClearVal(e.content[o]) = ClearVal(d.content[o])
  <1> DEFINE e == DropEncryption(d)
             stripped == StripCryptFilters(d.content)
  <1>1. CASE d.enc = NoKey
    BY <1>1 DEF DropEncryption
  <1>2. CASE d.enc # NoKey
    <2>1. e = [d EXCEPT !.enc = NoKey, !.dicts = @ \ {d.enc}, !.content = stripped]
      BY <1>2 DEF DropEncryption
    <2>2. /\ e.missing = d.missing /\ e.source = d.source /\ e.consent = d.consent
          /\ e.content = stripped
      BY <2>1 DEF Doc
    <2>3. ASSUME NEW o \in Obj
          PROVE  /\ stripped[o] = Absent <=> d.content[o] = Absent
                 /\ d.content[o] # Absent => ClearVal(stripped[o]) = ClearVal(d.content[o])
      <3>1. CASE d.content[o] = Absent
        BY <3>1 DEF StripCryptFilters
      <3>2. CASE d.content[o] # Absent
        <4>1. d.content[o] \in Piece
          BY <3>2 DEF Doc, Content
        <4>2. stripped[o] = [d.content[o] EXCEPT !.filter = NoKey]
          BY <3>2 DEF StripCryptFilters
        <4>3. /\ stripped[o] \in Piece /\ stripped[o].val = d.content[o].val
              /\ stripped[o].intact = d.content[o].intact
          BY <4>1, <4>2 DEF Piece
        <4>4. stripped[o] # Absent
          BY <4>3, DistinctAssumption
        <4> QED BY <3>2, <4>3, <4>4 DEF ClearVal
      <3> QED BY <3>1, <3>2
    <2> HIDE DEF e, stripped
    <2>4. \A o \in Obj :
                 /\ e.content[o] = Absent <=> d.content[o] = Absent
                 /\ d.content[o] # Absent => ClearVal(e.content[o]) = ClearVal(d.content[o])
      BY <2>2, <2>3
    <2> QED BY <2>2, <2>4 DEF e
  <1> QED BY <1>1, <1>2

\* RemoveEncryption, and Repair after it, change the key and no value.
LEMMA DecryptedKeeps ==
    ASSUME NEW d \in Doc, DocSound(d), ~Locked(d)
    PROVE  LET e == Decrypted(d) IN
           /\ e \in Doc /\ DocSound(e) /\ ~Locked(e) /\ e.enc = NoKey
           /\ e.missing = d.missing /\ e.source = d.source /\ e.consent = d.consent
           /\ DocVals(e) = DocVals(d)
  <1> DEFINE e == Decrypted(d)
             b == DropEncryption(d)
  <1>1. e \in Doc /\ DocSound(e) /\ e.enc = NoKey
    BY DecryptedSound
  <1>2. ~Locked(e)
    BY <1>1 DEF DocSound, Locked
  <1>3. CASE d.security = NoKey
    <2>1. e = d
      BY <1>3 DEF Decrypted
    <2> QED BY <1>1, <1>2, <2>1
  <1>4. CASE d.security # NoKey
    <2>1. e = [b EXCEPT !.security = NoKey, !.encrypted = FALSE]
      BY <1>4 DEF Decrypted
    <2>2. b \in Doc
      BY DropSound
    <2>3. /\ b.missing = d.missing /\ b.source = d.source /\ b.consent = d.consent
          /\ \A o \in Obj :
                 /\ b.content[o] = Absent <=> d.content[o] = Absent
                 /\ d.content[o] # Absent => ClearVal(b.content[o]) = ClearVal(d.content[o])
      BY DropKeeps
    <2> HIDE DEF b
    <2>4. /\ e.missing = d.missing /\ e.source = d.source /\ e.consent = d.consent
          /\ e.content = b.content
      BY <2>1, <2>2, <2>3 DEF Doc
    <2> HIDE DEF e
    <2>5. DocVals(e) = DocVals(d)
      BY <1>1, <1>2, <2>3, <2>4, SameVals
    <2> QED BY <1>1, <1>2, <2>4, <2>5 DEF e
  <1> QED BY <1>3, <1>4

\* Repair drops the encryption and may add an /ID: no value changes.
LEMMA RepairKeeps ==
    ASSUME NEW d \in Doc, DocSound(d), ~Locked(d), NEW id \in Id
    PROVE  LET e == WithId(Decrypted(d), id) IN
           /\ e \in Doc /\ e.enc = NoKey
           /\ e.missing = d.missing /\ e.source = d.source /\ e.consent = d.consent
           /\ DocVals(e) = DocVals(d)
  <1> DEFINE b == Decrypted(d)
             e == WithId(b, id)
  <1>1. /\ b \in Doc /\ DocSound(b) /\ ~Locked(b) /\ b.enc = NoKey
        /\ b.missing = d.missing /\ b.source = d.source /\ b.consent = d.consent
        /\ DocVals(b) = DocVals(d)
    BY DecryptedKeeps
  <1>2. e \in Doc /\ DocSound(e)
    BY RepairSound
  <1> HIDE DEF b
  <1>3. /\ e.missing = b.missing /\ e.source = b.source /\ e.consent = b.consent
        /\ e.enc = NoKey /\ e.content = b.content
    BY <1>1, WithIdFacts
  <1> HIDE DEF e
  <1>4. ~Locked(e)
    BY <1>2, <1>3 DEF DocSound, Locked
  <1>5. DocVals(e) = DocVals(b)
    BY <1>1, <1>2, <1>3, <1>4, SameVals
  <1> QED BY <1>1, <1>2, <1>3, <1>5 DEF e, b

\* SetEncryption changes the key and no value.
LEMMA InstallKeeps ==
    ASSUME NEW d \in Doc, DocSound(d), ~Locked(d), NEW id \in Id,
           NEW k \in Key, BoundId[k] = AnyId
    PROVE  LET e == InstallEncryption(d, k, id) IN
           /\ e \in Doc /\ e.enc = k
           /\ e.missing = d.missing /\ e.source = d.source /\ e.consent = d.consent
           /\ DocVals(e) = DocVals(d)
  <1> DEFINE b == DropEncryption(d)
             w == WithId(b, id)
             e == InstallEncryption(d, k, id)
  <1>1. e = [w EXCEPT !.enc = k, !.dicts = @ \cup {k}, !.security = k, !.encrypted = TRUE]
    BY DEF InstallEncryption
  <1>2. e \in Doc /\ DocSound(e)
    BY InstallSound
  <1>3. b \in Doc
    BY DropSound
  <1>4. /\ b.missing = d.missing /\ b.source = d.source /\ b.consent = d.consent
        /\ \A o \in Obj :
                 /\ b.content[o] = Absent <=> d.content[o] = Absent
                 /\ d.content[o] # Absent => ClearVal(b.content[o]) = ClearVal(d.content[o])
    BY DropKeeps
  <1> HIDE DEF b
  <1>5. /\ w \in Doc /\ w.missing = b.missing /\ w.source = b.source
        /\ w.consent = b.consent /\ w.content = b.content
    BY <1>3, WithIdFacts
  <1> HIDE DEF w
  <1>6. /\ e.enc = k /\ e.security = k /\ e.content = b.content
        /\ e.missing = d.missing /\ e.source = d.source /\ e.consent = d.consent
    BY <1>1, <1>4, <1>5 DEF Doc
  <1> HIDE DEF e
  <1>7. ~Locked(e)
    BY <1>6, DistinctAssumption DEF Locked
  <1>8. DocVals(e) = DocVals(d)
    BY <1>2, <1>4, <1>6, <1>7, SameVals
  <1> QED BY <1>2, <1>6, <1>8 DEF e

\* What a whole-document writer writes has the values of the document it was
\* given, whether they are packed, enciphered or carried through Locked.
LEMMA SerializedVals ==
    ASSUME NEW d \in Doc, DocSound(d), Serializable(d),
           NEW packed \in PackSets(d), NEW signature \in SUBSET Sig
    PROVE  LET f == Serialized(d, packed, signature) IN
           FileVals(f) = DocVals(d) /\ f.enc = d.enc /\ f.sigs = signature
  <1> DEFINE f == Serialized(d, packed, signature)
             k == d.security
  <1>1. /\ \A o \in Obj : f.content[o] =
              IF d.content[o] = Absent \/ k = NoKey \/ o \in packed
              THEN d.content[o] ELSE Enciphered(d.content[o], k)
        /\ f.packed = packed /\ f.box = IF packed = {} THEN <<>> ELSE Layer(k)
        /\ f.boxIntact /\ f.enc = d.enc /\ f.id = d.id /\ f.sigs = signature
    BY DEF Serialized
  <1>2. /\ d.missing = {} /\ (Locked(d) => d.enc \in Key)
        /\ packed \subseteq Packable /\ (Locked(d) => packed = {})
    BY DEF Serializable, PackSets
  <1>3. /\ k # NoKey => k = d.enc /\ k \in Key
        /\ ~Locked(d) => k = d.enc
        /\ Locked(d) => k = NoKey
        /\ d.enc # Dangling
        /\ KeyKnown(d.enc, d.id)
    <2>1. k \in Key \cup {NoKey}
      BY DEF Doc
    <2>2. d.encrypted <=> d.enc # NoKey
      BY DEF DocSound
    <2>3. k # NoKey => k = d.enc
      BY DEF DocSound
    <2>4. d.enc \in Key => BoundId[d.enc] \in {AnyId, d.id}
      BY DEF DocSound
    <2>5. ~Locked(d) => k = d.enc
      BY <2>2, <2>3 DEF Locked
    <2>6. Locked(d) => k = NoKey
      BY DEF Locked
    <2> QED BY <1>2, <2>1, <2>3, <2>4, <2>5, <2>6, DistinctAssumption DEF KeyKnown
  <1> HIDE DEF f, k
  <1>4. ASSUME NEW o \in Obj PROVE FileVals(f)[o] = DocVals(d)[o]
    <2> DEFINE p == d.content[o]
    <2>1. /\ p # Absent => p \in Piece
          /\ p # Absent /\ o \in Packable => p.filter = NoKey
          /\ p # Absent /\ ~Locked(d) => p.layers = <<>> /\ p.filter \in {NoKey, k}
      BY DEF Doc, Content, DocSound, Present, k
    <2>2. f.content[o] = IF p = Absent \/ k = NoKey \/ o \in packed THEN p
                         ELSE Enciphered(p, k)
      BY <1>1
    <2>3. DocVals(d)[o] = IF p = Absent THEN Absent
                          ELSE IF ~Locked(d) THEN ValueOf(p, <<>>, k)
                          ELSE ValueOf(p, Layer(d.enc), d.enc)
      BY <1>2, <1>3 DEF DocVals, k
    <2>4. FileVals(f)[o] =
            IF f.content[o] = Absent THEN Absent
            ELSE IF o \in packed
                 THEN IF f.box = Layer(d.enc)
                      THEN ValueOf(f.content[o], <<>>, NoKey) ELSE Hollow
            ELSE ValueOf(f.content[o], Layer(d.enc), d.enc)
      BY <1>1, <1>3 DEF FileVals
    <2> HIDE DEF p
    <2>5. CASE p = Absent
      BY <2>2, <2>3, <2>4, <2>5
    <2>6. CASE p # Absent /\ Locked(d)
      <3>1. o \notin packed /\ k = NoKey
        BY <1>2, <1>3, <2>6
      <3> QED BY <2>2, <2>3, <2>4, <2>6, <3>1
    <2>7. CASE p # Absent /\ ~Locked(d) /\ o \in packed
      <3>1. f.box = Layer(d.enc)
        BY <1>1, <1>3, <2>7
      <3>2. f.content[o] = p /\ p.filter = NoKey
        BY <1>2, <2>1, <2>2, <2>7
      <3>3. ValueOf(p, <<>>, k) = ValueOf(p, <<>>, NoKey)
        BY <3>2 DEF ValueOf
      <3> QED BY <2>3, <2>4, <2>7, <3>1, <3>2, <3>3
    <2>8. CASE p # Absent /\ ~Locked(d) /\ o \notin packed /\ k = NoKey
      <3>1. d.enc = k /\ Layer(d.enc) = <<>> /\ f.content[o] = p
        BY <1>3, <2>2, <2>8, LayerNone
      <3> QED BY <2>3, <2>4, <2>8, <3>1
    <2>9. CASE p # Absent /\ ~Locked(d) /\ o \notin packed /\ k # NoKey
      <3>1. d.enc = k /\ k \in Key /\ f.content[o] = Enciphered(p, k)
        BY <1>3, <2>2, <2>9
      <3>2. /\ Enciphered(p, k) \in Piece /\ Enciphered(p, k).layers = Layer(k)
            /\ Enciphered(p, k).filter = p.filter /\ Enciphered(p, k).val = p.val
            /\ Enciphered(p, k).intact = p.intact
        BY <2>1, <2>9, <3>1, EncipheredOnce
      <3>3. Enciphered(p, k) # Absent
        BY <3>2, DistinctAssumption
      <3>4. ValueOf(Enciphered(p, k), Layer(k), k) = ValueOf(p, <<>>, k)
        BY <2>1, <2>9, <3>2 DEF ValueOf
      <3> QED BY <2>3, <2>4, <2>9, <3>1, <3>3, <3>4
    <2> QED BY <2>5, <2>6, <2>7, <2>8, <2>9
  <1>5. FileVals(f) = [o \in Obj |-> FileVals(f)[o]] /\ DocVals(d) = [o \in Obj |-> DocVals(d)[o]]
    BY DEF FileVals, DocVals
  <1>6. [o \in Obj |-> FileVals(f)[o]] = [o \in Obj |-> DocVals(d)[o]]
    BY <1>4, Zenon
  <1> QED BY <1>1, <1>5, <1>6 DEF f

\* An update has the document's values where it lists an object and the
\* source file's everywhere else.
LEMMA UpdatedVals ==
    ASSUME NEW d \in Doc, DocSound(d), Updatable(d), NEW changed \in SUBSET Obj,
           NEW signature \in SUBSET Sig
    PROVE  LET f == Updated(d, changed, signature) IN
           /\ FileVals(f) = [o \in Obj |-> IF o \in changed THEN DocVals(d)[o]
                                           ELSE FileVals(d.source)[o]]
           /\ f.enc = NoKey /\ f.sigs = d.source.sigs \cup signature
           /\ d.enc = NoKey /\ d.source.enc = NoKey /\ d.source # NoFile
  <1> DEFINE g == d.source
             f == Updated(d, changed, signature)
             c == [o \in Obj |-> IF o \in changed THEN d.content[o] ELSE g.content[o]]
  <1>1. /\ g \in File /\ g.enc = NoKey /\ d.enc = NoKey /\ g # NoFile
        /\ d.security = NoKey /\ ~Locked(d) /\ d.missing = {}
    BY DEF Updatable, DocSound, Doc, Locked
  <1>2. f = [g EXCEPT !.content = c, !.packed = @ \ changed, !.enc = NoKey,
                      !.id = d.id, !.sigs = @ \cup signature]
    BY <1>1 DEF Updated
  <1>3. /\ f.content = c /\ f.packed = g.packed \ changed /\ f.enc = NoKey
        /\ f.box = g.box /\ f.boxIntact = g.boxIntact /\ f.sigs = g.sigs \cup signature
    BY <1>1, <1>2 DEF File
  <1>4. NoKey # Dangling /\ (\A id : KeyKnown(NoKey, id)) /\ Layer(NoKey) = <<>>
    BY DistinctAssumption, LayerNone DEF KeyKnown
  <1>5. ASSUME NEW o \in Obj
        PROVE  FileVals(f)[o] = IF o \in changed THEN DocVals(d)[o] ELSE FileVals(g)[o]
    <2>1. FileVals(f)[o] =
            IF c[o] = Absent THEN Absent
            ELSE IF o \in g.packed \ changed
                 THEN IF g.boxIntact /\ g.box = <<>>
                      THEN ValueOf(c[o], <<>>, NoKey) ELSE Hollow
            ELSE ValueOf(c[o], <<>>, NoKey)
      BY <1>3, <1>4 DEF FileVals
    <2>2. FileVals(g)[o] =
            IF g.content[o] = Absent THEN Absent
            ELSE IF o \in g.packed
                 THEN IF g.boxIntact /\ g.box = <<>>
                      THEN ValueOf(g.content[o], <<>>, NoKey) ELSE Hollow
            ELSE ValueOf(g.content[o], <<>>, NoKey)
      BY <1>1, <1>4 DEF FileVals
    <2>3. DocVals(d)[o] = IF d.content[o] = Absent THEN Absent
                          ELSE ValueOf(d.content[o], <<>>, NoKey)
      BY <1>1 DEF DocVals
    <2>4. c[o] = IF o \in changed THEN d.content[o] ELSE g.content[o]
      OBVIOUS
    <2> HIDE DEF c, f, g
    <2> QED BY <2>1, <2>2, <2>3, <2>4
  <1>6. FileVals(f) = [o \in Obj |-> FileVals(f)[o]]
    BY DEF FileVals
  <1>7. [o \in Obj |-> FileVals(f)[o]] =
        [o \in Obj |-> IF o \in changed THEN DocVals(d)[o] ELSE FileVals(g)[o]]
    BY <1>5, Zenon
  <1> QED BY <1>1, <1>3, <1>6, <1>7

-----------------------------------------------------------------------------
(* The steps of the promise.                                                *)

\* What is needed besides the inductive invariant.
PromiseInv == IInv /\ (doc # NoDoc => Sourced(doc))

\* What each step has to keep of it.
StaysSourced == doc' # NoDoc => Sourced(doc')

\* What the invariant says of the document in memory and of its abstraction.
LEMMA PromiseTypes ==
    ASSUME PromiseInv, doc # NoDoc
    PROVE  /\ doc \in Doc /\ DocSound(doc) /\ Sourced(doc) /\ file \in File /\ Sound(file)
           /\ doc.source # NoFile => doc.source \in File
           /\ AbstractDoc(doc) # NoDoc
           /\ AbstractDoc(doc).vals = DocVals(doc) /\ AbstractDoc(doc).key = doc.enc
           /\ AbstractDoc(doc).consent = doc.consent
           /\ AbstractDoc(doc).base = IF doc.source = NoFile THEN NoDoc
                                      ELSE AbstractFile(doc.source)
  <1>1. doc \in Doc /\ DocSound(doc) /\ Sourced(doc) /\ file \in File /\ Sound(file)
    BY DEF PromiseInv, IInv, TypeOK
  <1>2. doc.source # NoFile => doc.source \in File
    BY <1>1 DEF Doc
  <1> QED BY <1>1, <1>2, DocValsKind

\* A refusal for a signature at risk covers what the promise calls at risk.
LEMMA RiskTold ==
    ASSUME PromiseInv, doc # NoDoc, ~SignaturesAtRisk(doc)
    PROVE  ~Promise!AtRisk
  <1>1. /\ AbstractDoc(doc).consent = doc.consent
        /\ AbstractDoc(doc).base = IF doc.source = NoFile THEN NoDoc
                                   ELSE AbstractFile(doc.source)
        /\ doc.source # NoFile => doc.source \in File
    BY PromiseTypes
  <1>2. doc.source # NoFile => AbstractFile(doc.source).sigs = doc.source.sigs
    BY <1>1, FileValsKind
  <1> QED BY <1>1, <1>2 DEF SignaturesAtRisk, SourceSigs, Promise!AtRisk

\* Reading opens the file; NewDocument starts over.
LEMMA ReadKeepsPromise ==
    ASSUME PromiseInv, NEW pw \in Password, NEW skip \in BOOLEAN, Read(pw, skip)
    PROVE  Promise!Open /\ StaysSourced
  <1> DEFINE d == ReadOf(file, pw, skip)
  <1>1. file \in File /\ Sound(file) /\ file' = file /\ doc' = d
    BY DEF PromiseInv, IInv, TypeOK, Read
  <1>2. d \in Doc /\ DocVals(d) = FileVals(file)
    BY <1>1, ReadSound, ReadsValues
  <1>3. d.enc = file.enc /\ d.consent = FALSE /\ d.source = file
    BY DEF ReadOf
  <1>4. file # NoFile
    BY <1>1, DistinctAssumption
  <1> HIDE DEF d
  <1>5. Sourced(d)
    BY <1>3, <1>4 DEF Sourced
  <1>6. AbstractDoc(d) = [vals |-> FileVals(file), key |-> file.enc, consent |-> FALSE,
                          base |-> AbstractFile(file)]
    BY <1>2, <1>3, <1>4, <1>5, DocValsKind
  <1>7. AbstractFile(file).vals = FileVals(file) /\ AbstractFile(file).key = file.enc
    BY <1>1, FileValsKind
  <1>8. AbstractFile(file)' = AbstractFile(file)
    BY <1>1 DEF AbstractFile, FileVals, ValueOf, KeyKnown, Layer
  <1>9. AbstractDoc(doc)' = AbstractDoc(d)
    BY <1>1
  <1> QED BY <1>1, <1>5, <1>6, <1>7, <1>8, <1>9 DEF Promise!Open, StaysSourced

LEMMA NewKeepsPromise ==
    ASSUME PromiseInv, NewDocument
    PROVE  Promise!New /\ StaysSourced
  <1>1. file' = file /\ doc' = EmptyDoc /\ EmptyDoc \in Doc
    BY EmptyDocSound DEF NewDocument
  <1>2. /\ EmptyDoc.content = [o \in Obj |-> Absent] /\ EmptyDoc.missing = {}
        /\ EmptyDoc.enc = NoKey /\ EmptyDoc.source = NoFile /\ EmptyDoc.consent = FALSE
    BY DEF EmptyDoc
  <1> HIDE DEF EmptyDoc
  <1>3. Sourced(EmptyDoc)
    BY <1>2 DEF Sourced
  <1>4. DocVals(EmptyDoc) = [o \in Obj |-> Absent]
    BY <1>2 DEF DocVals
  <1>5. AbstractDoc(EmptyDoc) = [vals |-> [o \in Obj |-> Absent], key |-> NoKey,
                                 consent |-> FALSE, base |-> NoDoc]
    BY <1>1, <1>2, <1>3, <1>4, DocValsKind
  <1>8. AbstractFile(file)' = AbstractFile(file)
    BY <1>1 DEF AbstractFile, FileVals, ValueOf, KeyKnown, Layer
  <1>9. AbstractDoc(doc)' = AbstractDoc(EmptyDoc)
    BY <1>1
  <1> QED BY <1>1, <1>3, <1>5, <1>8, <1>9 DEF Promise!New, StaysSourced

\* Storing a value over an object, or deleting one, changes that object alone;
\* an object Read could not unpack keeps the source file's value, and no writer
\* takes the document any more.
LEMMA EditKeepsPromise ==
    ASSUME PromiseInv, doc # NoDoc, NEW o \in Obj, file' = file,
           NEW c, doc' = [doc EXCEPT !.content[o] = c], doc' \in Doc, DocSound(doc'),
           c = Absent \/ (~Locked(doc) /\ \E v \in Val : c = Plain(v))
    PROVE  (Promise!Next \/ UNCHANGED Promise!vars) /\ StaysSourced
  <1> DEFINE v == IF c = Absent THEN Absent ELSE c.val
  <1>1. doc \in Doc /\ DocSound(doc) /\ Sourced(doc)
    BY PromiseTypes
  <1>2. /\ doc'.missing = doc.missing /\ doc'.source = doc.source
        /\ doc'.enc = doc.enc /\ doc'.security = doc.security
        /\ doc'.encrypted = doc.encrypted /\ doc'.id = doc.id
        /\ doc'.consent = doc.consent
        /\ doc'.content = [doc.content EXCEPT ![o] = c]
    BY <1>1 DEF Doc
  <1>3. doc.content \in [Obj -> Piece \cup {Absent}]
    BY <1>1 DEF Doc, Content
  <1>4. Locked(doc') <=> Locked(doc)
    BY <1>2 DEF Locked
  <1>5. /\ v \in Val \cup {Absent}
        /\ c # Absent => ValueOf(c, <<>>, doc.security) = v
    <2>1. \A w \in Val : /\ Plain(w).val = w /\ Plain(w).layers = <<>>
                         /\ Plain(w).filter = NoKey /\ Plain(w).intact
      BY DEF Plain
    <2> QED BY <2>1 DEF ValueOf
  <1> HIDE DEF v
  <1>6. ASSUME NEW p \in Obj
        PROVE  DocVals(doc')[p] = IF p = o /\ o \notin doc.missing THEN v
                                  ELSE DocVals(doc)[p]
    <2>1. DocVals(doc)[p] =
            IF p \in doc.missing THEN FileVals(doc.source)[p]
            ELSE IF doc.content[p] = Absent THEN Absent
            ELSE IF ~Locked(doc) THEN ValueOf(doc.content[p], <<>>, doc.security)
            ELSE IF doc.enc = Dangling \/ ~KeyKnown(doc.enc, doc.id) THEN Hollow
            ELSE ValueOf(doc.content[p], Layer(doc.enc), doc.enc)
      BY DEF DocVals
    <2>2. DocVals(doc')[p] =
            IF p \in doc.missing THEN FileVals(doc.source)[p]
            ELSE IF doc'.content[p] = Absent THEN Absent
            ELSE IF ~Locked(doc) THEN ValueOf(doc'.content[p], <<>>, doc.security)
            ELSE IF doc.enc = Dangling \/ ~KeyKnown(doc.enc, doc.id) THEN Hollow
            ELSE ValueOf(doc'.content[p], Layer(doc.enc), doc.enc)
      BY <1>2, <1>4 DEF DocVals
    <2>3. doc'.content[p] = IF p = o THEN c ELSE doc.content[p]
      BY <1>2, <1>3
    <2> QED BY <1>5, <2>1, <2>2, <2>3 DEF v
  <1>7. Sourced(doc')
    BY <1>1, <1>2 DEF Sourced
  <1>8. AbstractFile(file)' = AbstractFile(file)
    BY DEF AbstractFile, FileVals, ValueOf, KeyKnown, Layer
  <1> DEFINE base == IF doc.source = NoFile THEN NoDoc ELSE AbstractFile(doc.source)
  <1>9. /\ AbstractDoc(doc) # NoDoc
        /\ AbstractDoc(doc) = [vals |-> DocVals(doc), key |-> doc.enc,
                               consent |-> doc.consent, base |-> base]
        /\ DocVals(doc) \in [Obj -> Val \cup {Absent, Hollow}]
    BY <1>1, DocValsKind
  <1>10. /\ AbstractDoc(doc') = [vals |-> DocVals(doc'), key |-> doc.enc,
                                 consent |-> doc.consent, base |-> base]
         /\ DocVals(doc') \in [Obj -> Val \cup {Absent, Hollow}]
    BY <1>2, <1>7, DocValsKind
  <1>11. AbstractDoc(doc)' = AbstractDoc(doc')
    OBVIOUS
  <1> HIDE DEF base
  <1>12. CASE o \in doc.missing
    <2>1. DocVals(doc') = DocVals(doc)
      BY <1>6, <1>9, <1>10, <1>12
    <2> QED BY <1>7, <1>8, <1>9, <1>10, <1>11, <2>1 DEF Promise!vars, StaysSourced
  <1>13. CASE o \notin doc.missing
    <2>1. DocVals(doc') = [DocVals(doc) EXCEPT ![o] = v]
      BY <1>6, <1>9, <1>10, <1>13
    <2>2. AbstractDoc(doc') = [AbstractDoc(doc) EXCEPT !.vals[o] = v]
      BY <1>9, <1>10, <2>1
    <2>3. Promise!Edit(o, v)
      BY <1>8, <1>9, <1>11, <2>2 DEF Promise!Edit
    <2> QED BY <1>5, <1>7, <2>3 DEF Promise!Next, StaysSourced
  <1> QED BY <1>12, <1>13

\* What the promise calls the base of a document: the file it was read from.
BaseOf(d) == IF d.source = NoFile THEN NoDoc ELSE AbstractFile(d.source)

\* A step that leaves the values and the source file of the document alone,
\* and the file, changes at most the key and the consent.
LEMMA SameDocument ==
    ASSUME PromiseInv, doc # NoDoc, file' = file, doc' \in Doc,
           DocVals(doc') = DocVals(doc), doc'.missing = doc.missing,
           doc'.source = doc.source
    PROVE  /\ StaysSourced
           /\ AbstractFile(file)' = AbstractFile(file)
           /\ AbstractDoc(doc) # NoDoc
           /\ doc'.consent = doc.consent =>
                 AbstractDoc(doc)' = [AbstractDoc(doc) EXCEPT !.key = doc'.enc]
           /\ doc'.enc = doc.enc =>
                 AbstractDoc(doc)' = [AbstractDoc(doc) EXCEPT !.consent = doc'.consent]
           /\ doc'.enc = doc.enc /\ doc'.consent = doc.consent =>
                 AbstractDoc(doc)' = AbstractDoc(doc)
  <1>1. doc \in Doc /\ Sourced(doc)
    BY PromiseTypes
  <1>2. Sourced(doc')
    BY <1>1 DEF Sourced
  <1> DEFINE base == BaseOf(doc)
  <1>3. /\ AbstractDoc(doc) # NoDoc
        /\ AbstractDoc(doc) = [vals |-> DocVals(doc), key |-> doc.enc,
                               consent |-> doc.consent, base |-> base]
    BY <1>1, DocValsKind DEF BaseOf
  <1>4. AbstractDoc(doc') = [vals |-> DocVals(doc), key |-> doc'.enc,
                             consent |-> doc'.consent, base |-> base]
    BY <1>2, DocValsKind DEF BaseOf
  <1>5. AbstractFile(file)' = AbstractFile(file)
    BY DEF AbstractFile, FileVals, ValueOf, KeyKnown, Layer
  <1>6. AbstractDoc(doc)' = AbstractDoc(doc')
    OBVIOUS
  <1> HIDE DEF base
  <1>7. doc'.consent = doc.consent =>
            AbstractDoc(doc') = [AbstractDoc(doc) EXCEPT !.key = doc'.enc]
    BY <1>3, <1>4
  <1>8. doc'.enc = doc.enc =>
            AbstractDoc(doc') = [AbstractDoc(doc) EXCEPT !.consent = doc'.consent]
    BY <1>3, <1>4
  <1>9. doc'.enc = doc.enc /\ doc'.consent = doc.consent =>
            AbstractDoc(doc') = AbstractDoc(doc)
    BY <1>3, <1>4
  <1> QED BY <1>2, <1>3, <1>5, <1>6, <1>7, <1>8, <1>9 DEF StaysSourced

\* The edits: a signature dictionary is no value, the consent is the caller's.
LEMMA EditsKeepPromise ==
    ASSUME PromiseInv, Edit
    PROVE  (Promise!Next \/ UNCHANGED Promise!vars) /\ StaysSourced
  <1>1. doc # NoDoc /\ file' = file /\ IInv
    BY DEF PromiseInv, Edit, Store, Stored, Delete, DeleteSignature,
           AllowInvalidatingSignatures
  <1>2. doc \in Doc /\ DocSound(doc)
    BY <1>1, PromiseTypes
  <1>3. ASSUME NEW o \in Obj, NEW v \in Val, Store(o, v)
        PROVE  (Promise!Next \/ UNCHANGED Promise!vars) /\ StaysSourced
    <2>1. doc' = [doc EXCEPT !.content[o] = Plain(v)] /\ ~Locked(doc)
      BY <1>3 DEF Store, Stored
    <2>2. doc' \in Doc /\ DocSound(doc')
      BY <1>1, <1>3, StoreStep
    <2> QED BY <1>1, <2>1, <2>2, EditKeepsPromise
  <1>4. ASSUME NEW o \in Obj, Delete(o)
        PROVE  (Promise!Next \/ UNCHANGED Promise!vars) /\ StaysSourced
    <2>1. doc' = [doc EXCEPT !.content[o] = Absent]
      BY <1>4 DEF Delete
    <2>2. doc' \in Doc /\ DocSound(doc')
      BY <1>1, <1>4, DeleteStep
    <2> QED BY <1>1, <2>1, <2>2, EditKeepsPromise
  <1>5. ASSUME NEW s \in Sig, DeleteSignature(s)
        PROVE  UNCHANGED Promise!vars /\ StaysSourced
    <2>1. doc' = [doc EXCEPT !.graphSigs = @ \ {s}] /\ doc' \in Doc
      BY <1>1, <1>5, SignatureEditStep DEF DeleteSignature
    <2>2. /\ doc'.content = doc.content /\ doc'.missing = doc.missing
          /\ doc'.source = doc.source /\ doc'.enc = doc.enc /\ doc'.id = doc.id
          /\ doc'.security = doc.security /\ doc'.encrypted = doc.encrypted
          /\ doc'.consent = doc.consent
      BY <1>2, <2>1 DEF Doc
    <2>3. DocVals(doc') = DocVals(doc)
      BY <2>2 DEF DocVals, Locked
    <2>4. /\ AbstractDoc(doc)' = AbstractDoc(doc)
          /\ AbstractFile(file)' = AbstractFile(file) /\ StaysSourced
      BY <1>1, <2>1, <2>2, <2>3, SameDocument
    <2> QED BY <2>4 DEF Promise!vars
  <1>6. CASE AllowInvalidatingSignatures
    <2>1. doc' = [doc EXCEPT !.consent = TRUE]
      BY <1>6 DEF AllowInvalidatingSignatures
    <2>2. /\ doc'.content = doc.content /\ doc'.missing = doc.missing
          /\ doc'.source = doc.source /\ doc'.enc = doc.enc /\ doc'.id = doc.id
          /\ doc'.security = doc.security /\ doc'.encrypted = doc.encrypted
          /\ doc'.consent = TRUE /\ doc' \in Doc
      BY <1>2, <2>1 DEF Doc
    <2>3. DocVals(doc') = DocVals(doc)
      BY <2>2 DEF DocVals, Locked
    <2>4. /\ AbstractDoc(doc)' = [AbstractDoc(doc) EXCEPT !.consent = TRUE]
          /\ AbstractFile(file)' = AbstractFile(file) /\ StaysSourced /\ AbstractDoc(doc) # NoDoc
      BY <1>1, <2>2, <2>3, SameDocument
    <2> QED BY <2>4 DEF Promise!Consent, Promise!Next
  <1> QED BY <1>3, <1>4, <1>5, <1>6 DEF Edit

\* SetEncryption, RemoveEncryption and Repair change the key alone.
LEMMA ProtectKeepsPromise ==
    ASSUME PromiseInv, Protect
    PROVE  (Promise!Next \/ UNCHANGED Promise!vars) /\ StaysSourced
  <1>1. doc # NoDoc /\ file' = file
    BY DEF Protect, SetEncryption, RemoveEncryption, Repair
  <1>2. doc \in Doc /\ DocSound(doc) /\ Sourced(doc)
    BY <1>1, PromiseTypes
  <1>3. ASSUME NEW k \in Key \cup {NoKey}, k \in Key => ~Promise!AtRisk,
               doc' \in Doc, DocVals(doc') = DocVals(doc), doc'.missing = doc.missing,
               doc'.source = doc.source, doc'.consent = doc.consent, doc'.enc = k
        PROVE  Promise!Next /\ StaysSourced
    <2>1. /\ AbstractDoc(doc)' = [AbstractDoc(doc) EXCEPT !.key = k]
          /\ AbstractFile(file)' = AbstractFile(file) /\ StaysSourced /\ AbstractDoc(doc) # NoDoc
      BY <1>1, <1>3, SameDocument
    <2>2. Promise!Rekey(k)
      BY <1>3, <2>1 DEF Promise!Rekey
    <2> QED BY <2>1, <2>2 DEF Promise!Next
  <1>4. ASSUME NEW k \in Key, NEW id \in Id, SetEncryption(k, id)
        PROVE  Promise!Next /\ StaysSourced
    <2>1. /\ ~Locked(doc) /\ BoundId[k] = AnyId /\ ~SignaturesAtRisk(doc)
          /\ doc' = InstallEncryption(doc, k, id)
      BY <1>4 DEF SetEncryption, Fresh
    <2>2. ~Promise!AtRisk
      BY <1>1, <2>1, RiskTold
    <2>3. /\ doc' \in Doc /\ DocVals(doc') = DocVals(doc) /\ doc'.missing = doc.missing
          /\ doc'.source = doc.source /\ doc'.consent = doc.consent /\ doc'.enc = k
      BY <1>2, <2>1, InstallKeeps
    <2> QED BY <1>3, <2>2, <2>3
  <1>5. NoKey \notin Key
    BY DistinctAssumption
  <1>6. CASE RemoveEncryption
    <2>1. doc' = Decrypted(doc)
      BY <1>6 DEF RemoveEncryption
    <2>2. CASE doc.security = NoKey
      <3>1. doc' = doc
        BY <2>1, <2>2 DEF Decrypted
      <3>2. DocVals(doc') = DocVals(doc)
        BY <3>1 DEF DocVals
      <3>3. AbstractDoc(doc)' = AbstractDoc(doc) /\ AbstractFile(file)' = AbstractFile(file)
            /\ StaysSourced
        BY <1>1, <1>2, <3>1, <3>2, SameDocument
      <3> QED BY <3>3 DEF Promise!vars
    <2>3. CASE doc.security # NoKey
      <3>1. ~Locked(doc)
        BY <2>3 DEF Locked
      <3>2. /\ doc' \in Doc /\ DocVals(doc') = DocVals(doc) /\ doc'.missing = doc.missing
            /\ doc'.source = doc.source /\ doc'.consent = doc.consent /\ doc'.enc = NoKey
        BY <1>2, <2>1, <3>1, DecryptedKeeps
      <3> QED BY <1>3, <1>5, <3>2
    <2> QED BY <2>2, <2>3
  <1>7. ASSUME NEW id \in Id, Repair(id)
        PROVE  Promise!Next /\ StaysSourced
    <2>1. ~Locked(doc) /\ doc' = WithId(Decrypted(doc), id)
      BY <1>7 DEF Repair
    <2>2. /\ doc' \in Doc /\ DocVals(doc') = DocVals(doc) /\ doc'.missing = doc.missing
          /\ doc'.source = doc.source /\ doc'.consent = doc.consent /\ doc'.enc = NoKey
      BY <1>2, <2>1, RepairKeeps
    <2> QED BY <1>3, <1>5, <2>2
  <1> QED BY <1>4, <1>6, <1>7 DEF Protect

\* The writers: a whole file is a rewrite, an update an update.
LEMMA OutputKeepsPromise ==
    ASSUME PromiseInv, Output
    PROVE  Promise!Next /\ StaysSourced
  <1>1. doc # NoDoc /\ doc' = doc
    BY DEF Output, Write, SaveClaimed, WriteSigned, WriteIncremental,
           WriteSignedIncremental
  <1>2. /\ doc \in Doc /\ DocSound(doc) /\ Sourced(doc)
        /\ doc.source # NoFile => doc.source \in File
        /\ AbstractDoc(doc) # NoDoc
        /\ AbstractDoc(doc).vals = DocVals(doc) /\ AbstractDoc(doc).key = doc.enc
        /\ AbstractDoc(doc).base = IF doc.source = NoFile THEN NoDoc
                                   ELSE AbstractFile(doc.source)
    BY <1>1, PromiseTypes
  <1>3. StaysSourced
    BY <1>1, <1>2 DEF StaysSourced, Sourced
  <1>4. AbstractDoc(doc)' = AbstractDoc(doc)
    BY <1>1 DEF AbstractDoc, DocVals, AbstractFile, FileVals, ValueOf, KeyKnown, Layer,
                Locked
  <1>5. AbstractFile(file)' = [vals |-> FileVals(file'), key |-> file'.enc,
                               sigs |-> file'.sigs]
    BY DEF AbstractFile
  <1>6. ASSUME NEW packed \in PackSets(doc), NEW T \in Promise!Signatures,
               NEW discard \in BOOLEAN, Serializable(doc), T \in SUBSET Sig,
               file' = Serialized(doc, packed, T),
               discard => T # {}, ~discard => ~SignaturesAtRisk(doc)
        PROVE  Promise!Next
    <2>1. FileVals(file') = DocVals(doc) /\ file'.enc = doc.enc /\ file'.sigs = T
      BY <1>2, <1>6, SerializedVals
    <2>2. Promise!AtRisk => discard
      BY <1>1, <1>6, RiskTold
    <2>3. AbstractFile(file)' = [vals |-> AbstractDoc(doc).vals,
                                 key |-> AbstractDoc(doc).key, sigs |-> T]
      BY <1>2, <1>5, <2>1
    <2>4. Promise!Rewrite(T, discard)
      BY <1>2, <1>4, <1>6, <2>2, <2>3 DEF Promise!Rewrite
    <2> QED BY <2>4 DEF Promise!Next
  <1>7. ASSUME NEW changed \in SUBSET Obj, NEW T \in Promise!Signatures,
               T \in SUBSET Sig, Updatable(doc), file' = Updated(doc, changed, T)
        PROVE  Promise!Next
    <2>1. /\ FileVals(file') = [o \in Obj |-> IF o \in changed THEN DocVals(doc)[o]
                                              ELSE FileVals(doc.source)[o]]
          /\ file'.enc = NoKey /\ file'.sigs = doc.source.sigs \cup T
          /\ doc.enc = NoKey /\ doc.source.enc = NoKey /\ doc.source # NoFile
      BY <1>2, <1>7, UpdatedVals
    <2>2. /\ AbstractFile(doc.source).vals = FileVals(doc.source)
          /\ AbstractFile(doc.source).key = doc.source.enc
          /\ AbstractFile(doc.source).sigs = doc.source.sigs
          /\ AbstractFile(doc.source) # NoDoc
      BY <1>2, <2>1, FileValsKind
    <2>3. /\ AbstractDoc(doc).base # NoDoc /\ AbstractDoc(doc).key = NoKey
          /\ AbstractDoc(doc).base.key = NoKey
          /\ AbstractDoc(doc).base.vals = FileVals(doc.source)
          /\ AbstractDoc(doc).base.sigs = doc.source.sigs
      BY <1>2, <2>1, <2>2
    <2>4. AbstractFile(file)' =
             [vals |-> [o \in Obj |-> IF o \in changed THEN AbstractDoc(doc).vals[o]
                                      ELSE AbstractDoc(doc).base.vals[o]],
              key  |-> NoKey,
              sigs |-> AbstractDoc(doc).base.sigs \cup T]
      BY <1>2, <1>5, <2>1, <2>3
    <2>5. Promise!Update(changed, T)
      BY <1>2, <1>4, <2>3, <2>4 DEF Promise!Update
    <2> QED BY <2>5 DEF Promise!Next
  <1>8. {} \in Promise!Signatures /\ \A s \in Sig : {s} \in Promise!Signatures
    BY DEF Promise!Signatures
  <1>9. CASE Write \/ SaveClaimed
    <2>1. PICK packed \in PackSets(doc) : file' = Serialized(doc, packed, {})
      BY <1>9 DEF Write, SaveClaimed
    <2>2. Serializable(doc) /\ ~SignaturesAtRisk(doc)
      BY <1>9 DEF Write, SaveClaimed
    <2> QED BY <1>3, <1>6, <1>8, <2>1, <2>2
  <1>10. ASSUME NEW s \in Sig, NEW invalidate \in BOOLEAN, WriteSigned(s, invalidate)
         PROVE  Promise!Next
    <2>1. PICK packed \in PackSets(doc) : file' = Serialized(doc, packed, {s})
      BY <1>10 DEF WriteSigned
    <2>2. Serializable(doc) /\ (~invalidate => ~SignaturesAtRisk(doc))
      BY <1>10 DEF WriteSigned
    <2>3. {s} # {} /\ {s} \in SUBSET Sig
      OBVIOUS
    <2> QED BY <1>6, <1>8, <2>1, <2>2, <2>3
  <1>11. ASSUME NEW changed \in SUBSET Obj, WriteIncremental(changed)
         PROVE  Promise!Next
    BY <1>7, <1>8, <1>11 DEF WriteIncremental
  <1>12. ASSUME NEW s \in Sig, WriteSignedIncremental(s)
         PROVE  Promise!Next
    <2>1. /\ Updatable(doc) /\ file' = Updated(doc, {Page}, {s})
          /\ {Page} \in SUBSET Obj /\ {s} \in SUBSET Sig
      BY <1>12, ConstantsAssumption DEF WriteSignedIncremental
    <2> QED BY <1>7, <1>8, <2>1
  <1> QED BY <1>3, <1>9, <1>10, <1>11, <1>12 DEF Output

LEMMA NextKeepsPromise ==
    ASSUME PromiseInv, [Next]_vars
    PROVE  (Promise!Next \/ UNCHANGED Promise!vars) /\ StaysSourced
  <1>1. CASE UNCHANGED vars
    <2>1. UNCHANGED Promise!vars
      BY <1>1 DEF vars, Promise!vars, AbstractDoc, DocVals, AbstractFile, FileVals,
                  ValueOf, KeyKnown, Layer, Locked
    <2> QED BY <1>1, <2>1 DEF vars, PromiseInv, StaysSourced, Sourced
  <1>2. ASSUME NEW pw \in Password, NEW skip \in BOOLEAN, Read(pw, skip)
        PROVE  Promise!Next /\ StaysSourced
    BY <1>2, ReadKeepsPromise DEF Promise!Next
  <1>3. CASE NewDocument
    BY <1>3, NewKeepsPromise DEF Promise!Next
  <1>4. CASE Edit
    BY <1>4, EditsKeepPromise
  <1>5. CASE Protect
    BY <1>5, ProtectKeepsPromise
  <1>6. CASE Output
    BY <1>6, OutputKeepsPromise
  <1> QED BY <1>1, <1>2, <1>3, <1>4, <1>5, <1>6 DEF Next

\* The document does what DocPromise says: every step of it is one of the
\* promise's, or none (Read, Write, WriteSigned, WriteIncremental and the calls
\* of crypt_api.go).
THEOREM KeepsPromise == Spec => ImplementsPromise
  <1>1. Init => Promise!Init /\ PromiseInv
    <2> SUFFICES ASSUME Init PROVE Promise!Init /\ PromiseInv
      OBVIOUS
    <2>1. PromiseInv /\ file \in File /\ doc = NoDoc
      BY InitIInv DEF PromiseInv, Init, IInv, TypeOK
    <2>2. AbstractFile(file) \in Promise!Disk /\ AbstractDoc(doc) = NoDoc
      BY <2>1, FileValsKind DEF AbstractDoc
    <2> QED BY <2>1, <2>2 DEF Promise!Init
  <1>2. PromiseInv /\ [Next]_vars => PromiseInv' /\ [Promise!Next]_(Promise!vars)
    BY NextIInv, NextKeepsPromise DEF PromiseInv, StaysSourced
  <1> QED BY <1>1, <1>2, PTL DEF Spec, ImplementsPromise, Promise!Spec
=============================================================================
