CONSTANTS
    o1 = o1
    o2 = o2
    v1 = v1
    v2 = v2
    kForeign = kForeign
    kNew = kNew
    kNew2 = kNew2
    pForeign = pForeign
    pNew = pNew
    pEmpty = pEmpty
    pNobody = pNobody
    id1 = id1
    s1 = s1
    s2 = s2
    Obj = {o1}
    Packable = {o1}
    Page = o1
    Val = {v1, v2}
    Key = {kForeign, kNew}
    Password = {pForeign, pNew, pEmpty}
    EmptyPassword = pEmpty
    PasswordOf <- MCPasswordOf
    Id = {id1}
    BoundId <- MCBoundId
    Sig = {s1, s2}
    ForeignFiles <- SignedFiles
    Absent = Absent
    Hollow = Hollow
    NoKey = NoKey
    Dangling = Dangling
    NoId = NoId
    AnyId = AnyId
    NoFile = NoFile
    NoDoc = NoDoc
SPECIFICATION Spec
PROPERTIES OnlySignatureAppended
