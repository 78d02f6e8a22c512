--------------------------- MODULE MCDocLifecycle ---------------------------
EXTENDS DocLifecycle, TLC

CONSTANTS o1, o2, v1, v2, kForeign, kNew, kNew2, pForeign, pNew, pEmpty, pNobody, id1, s1, s2

MCPasswordOf == [k \in Key |-> IF k = kForeign THEN pForeign ELSE pNew]
MCBoundId    == [k \in Key |-> IF k = kForeign THEN NoId ELSE AnyId]

Original(k, filtered, intact) ==
    [val |-> v1, layers |-> Layer(k), filter |-> IF filtered THEN k ELSE NoKey,
     intact |-> intact]

\* A file of one page and one other object, packed or not, under an encryption
\* made elsewhere or none; possibly damaged, signed, or without a usable
\* cross-reference chain.
FileWith(k, packed, boxIntact, filtered, intact, sigs, chain) ==
    [content    |-> [o \in Obj |-> IF o \in packed THEN Plain(v1)
                                   ELSE Original(k, filtered /\ o = o2, intact \/ o # o2)],
     packed     |-> packed,
     box        |-> IF packed = {} THEN <<>> ELSE Layer(k),
     boxIntact  |-> boxIntact,
     enc        |-> k,
     dicts      |-> {k} \cap Key,
     id         |-> NoId,
     sigs       |-> sigs,
     stale      |-> {},
     chain      |-> chain,
     xrefStream |-> packed # {}]

\* Files enciphered by another program, one of them damaged, one with a stream
\* under a /Crypt filter, and one whose /Encrypt does not resolve.
EncryptedFiles ==
    {FileWith(kForeign, {}, TRUE, TRUE, TRUE, {}, TRUE),
     FileWith(kForeign, {}, TRUE, FALSE, FALSE, {}, TRUE),
     FileWith(Dangling, {}, TRUE, FALSE, TRUE, {}, TRUE)}

\* Files that carry a signature: in the clear, enciphered, and rebuilt by scan.
SignedFiles ==
    UNION {{FileWith(NoKey, {}, TRUE, FALSE, TRUE, {s}, TRUE),
            FileWith(NoKey, {}, TRUE, FALSE, TRUE, {s}, FALSE),
            FileWith(kForeign, {}, TRUE, FALSE, TRUE, {s}, TRUE)} : s \in Sig}

\* Files that pack their objects: in the clear, enciphered, and with a
\* container that does not decode; and one that has a cross-reference stream
\* and packs nothing.
PackedFiles ==
    {FileWith(NoKey, Packable, TRUE, FALSE, TRUE, {}, TRUE),
     FileWith(NoKey, Packable, FALSE, FALSE, TRUE, {}, TRUE),
     FileWith(kForeign, Packable, TRUE, FALSE, TRUE, {}, TRUE),
     [FileWith(kForeign, {}, TRUE, FALSE, TRUE, {}, TRUE) EXCEPT !.xrefStream = TRUE]}

AllFiles == EncryptedFiles \cup SignedFiles \cup PackedFiles

\* Which signature is which makes no difference to any call.
Signatures == Permutations(Sig)
=============================================================================
