--------------------------- MODULE SignatureReview ---------------------------
(***************************************************************************)
(* VerifySignatures: a file is written, update after update, and then its   *)
(* signatures are verified: each over the bytes it covers, and then, the    *)
(* latest revision first, each against the changes made after the revision  *)
(* it covers (judgeChanges, changesAfter, disallowedChanges).               *)
(***************************************************************************)
EXTENDS SourceRevisions

CONSTANTS
    Bases,          \* the files that are updated: [part, content]
    MaxUpdates      \* bound: the updates appended to a base, one less with two
                    \* odd ones

-----------------------------------------------------------------------------
(* The objects the review tells apart. An object is named by its kind and the *)
(* part that made it.                                                         *)

Kinds       == {"form", "cat", "page", "field", "sig", "dss", "body", "ap", "cert", "other", "con"}
Name        == Kinds \X Int
Named(kind) == {kind} \X Int
Ref(kind)   == Named(kind) \union {None}

FormObject == [kind : {"form"}, rest : {0, 1}, flags : Nat, fields : Seq(Named("field"))]
CatObject  == [kind : {"cat"}, rest : {0, 1}, form : Ref("form"), inline : FormObject \union {None},
               dss : Ref("dss"), perms : Ref("sig")]
PageObject == [kind : {"page"}, rest : {0, 1}, annots : Seq(Named("field"))]
FieldObject == [kind : {"field"}, rest : {0, 1}, v : Ref("sig"), area : BOOLEAN, ap : Ref("ap")]
SigObject  == [kind : {"sig"}, rest : {0, 1}, type : {"Sig", "DocTimeStamp"}, by : Nat,
               good : BOOLEAN, mdp : 0..2, locks : SUBSET Named("field")]
DssObject  == [kind : {"dss"}, rest : {0, 1}, certs : Seq(Named("cert"))]
LeafObject == [kind : {"body", "ap", "cert", "other"}, rest : {0, 1}]

\* What an object stream may hold, and an object stream.
PlainObject  == FormObject \union CatObject \union PageObject \union FieldObject
                \union SigObject \union DssObject \union LeafObject
StreamObject == [kind : {"con"}, rest : {0, 1}, members : Seq([number : Name, value : PlainObject])]

Cat   == <<"cat", 0>>
Page  == <<"page", 0>>
Slot  == <<"field", 0>>     \* a signature field with no value yet

Val(c, o)       == IF o \in DOMAIN c THEN c[o] ELSE None
IsA(c, o, kind) == Val(c, o) \notin {None, Unreadable} /\ c[o].kind = kind

VARIABLES
    parts,           \* the parts of the file
    content,        \* what a reader of its first k parts finds, for each k
    odd,            \* the updates that did not sign, stamp or archive, or that
                    \* a signature before them forbade
    stage,          \* "writing", "judging", "judged", or "panicked"
    results,        \* the result for each signature dictionary
    diff,           \* the comparison made for the signature being judged
    asked,          \* the objects the newest state was asked for
    spent           \* the work budget is gone, or the call is cancelled

written  == <<parts, content, odd>>
verdicts == <<results, diff, asked, spent>>
reviewVars     == <<written, stage, verdicts>>

Now == Last(content)
New == Len(parts) + 1        \* the part an update makes

ASSUME ConstantsAssumption ==
    /\ None # Unreadable
    /\ {None, Unreadable} \intersect (PlainObject \union StreamObject \union Name) = {}

\* An object a reader of k parts may find.
IsObject(o, v, k) ==
    /\ o \in Kinds \X (-k..k)
    /\ v \in PlainObject \union StreamObject /\ v.kind = o[1]
    /\ o[1] = "sig" => v.by \in 2..k /\ (o[2] > 0 => v.by = o[2])
    /\ o[1] = "field" => /\ v.ap \in {None} \union {"ap"} \X (0..k)
                         /\ IF v.v = None THEN v.ap = None ELSE v.v[2] \in 2..k

\* What it may find in all.
IsContent(c, k) ==
    /\ IsFiniteSet(DOMAIN c) /\ {Cat, Page} \subseteq DOMAIN c
    /\ {c[Cat].form, c[Cat].dss} \subseteq {None} \union DOMAIN c
    /\ \A o \in DOMAIN c : IsObject(o, c[o], k)

\* An entry of a section of part k: an object of the part, or one in a stream.
IsEntry(part, k, o, e) ==
    IF e.con = None THEN e.part = k /\ o \in DOMAIN part.objects
    ELSE e.con \in {"con"} \X (0..k) /\ o[1] # "con"

IsSection(part, k, sec) ==
    /\ sec.at \in Start(k)..End(k) - 1
    /\ \A o \in DOMAIN sec.table : o \in Name /\ IsEntry(part, k, o, sec.table[o])

\* A file that is updated: not signed yet, and what is read in it is its content.
IsBase(b) ==
    LET f     == <<b.part>>
        table == MergeSections(f, Chain(f))
    IN  /\ DOMAIN b.part.sections \subseteq Nat
        /\ \A j \in DOMAIN b.part.sections : IsSection(b.part, 1, b.part.sections[j])
        /\ \A m \in b.part.markers : m.at \in 1..End(1) /\ m.states \in 0..End(1) - 1
        /\ IsContent(b.content, 1)
        /\ \A o \in DOMAIN table \union DOMAIN b.content :
              Val(b.content, o) = LET v == Object(f, End(1), table, o) IN IF v = Unreadable THEN None ELSE v

ASSUME BasesAssumption == \A b \in Bases : IsBase(b)

\* The interactive form: an object of its own, or in the catalog, or neither.
NoForm    == [kind |-> "form", rest |-> 0, flags |-> 0, fields |-> <<>>]
FormOf(c) == IF c[Cat].form # None THEN c[c[Cat].form]
             ELSE IF c[Cat].inline # None THEN c[Cat].inline ELSE NoForm

\* A base with nothing damaged, not certified, whose form lists no field under
\* a number still to be given.
IsSound(b) ==
    LET f     == <<b.part>>
        c     == b.content
        table == MergeSections(f, Chain(f))
    IN  /\ c = [o \in DOMAIN c |-> c[o]]
        /\ \A o \in DOMAIN table : /\ Object(f, End(1), table, o) # Unreadable
                                   /\ table[o].con \in {None} \union DOMAIN c
        /\ c[Cat].perms = None
        /\ \A n \in ToSet(FormOf(c).fields) : n[2] <= 1

ASSUME SoundAssumption == \A b \in Bases : IsSound(b)

-----------------------------------------------------------------------------
(* The file grows.                                                          *)

At(k) == [part |-> k, con |-> None, index |-> 0]

Counted(ordinary) ==
    /\ odd' = odd + (IF ordinary THEN 0 ELSE 1)
    /\ Len(parts) + odd' <= MaxUpdates + 1
    /\ Len(parts) <= MaxUpdates

\* An update: its objects, the entries of its section, the numbers it frees.
Update(objects, table, gone, closed, after) ==
    LET sec == [at |-> Start(New) + 5, table |-> table, free |-> gone]
        mark == [states |-> sec.at, at |-> End(New)]
    IN  /\ parts' = Append(parts, [objects |-> objects, sections |-> <<sec>>,
                                 markers |-> IF closed THEN {mark} ELSE {}])
        /\ content' = Append(content, after)
        /\ UNCHANGED <<stage, verdicts>>

\* c with v for the object o.
Put(c, o, v) == [x \in DOMAIN c \union {o} |-> IF x = o THEN v ELSE c[x]]

\* The changed objects one by one, or all but signatures in an object stream.
Write(after, packed, closed) ==
    LET changed == {o \in DOMAIN after : Val(Now, o) # after[o]}
        inside  == IF packed THEN {o \in changed : after[o].kind # "sig"} ELSE {}
        order   == SetToSeq(inside)
        con     == <<"con", New>>
        stream  == [kind |-> "con", rest |-> 0,
                    members |-> [i \in DOMAIN order |-> [number |-> order[i], value |-> after[order[i]]]]]
        with(c) == IF packed THEN Put(c, con, stream) ELSE c
        outside == with([o \in changed \ inside |-> after[o]])
        entry(o) == IF o \in inside
                    THEN [part |-> 0, con |-> con, index |-> CHOOSE i \in DOMAIN order : order[i] = o]
                    ELSE At(New)
    IN  Update(outside, [o \in inside \union DOMAIN outside |-> entry(o)],
               DOMAIN Now \ DOMAIN after, closed, with(after))

Signature(type, good, mdp, locks) ==
    [kind |-> "sig", rest |-> 0, type |-> type, by |-> New, good |-> good, mdp |-> mdp, locks |-> locks]

\* How a signature looks: no appearance, one with no area to draw in, or one
\* that is seen.
Looks == {"none", "hidden", "seen"}

\* A new field with its value, at the end of the form's fields and the page's
\* annotations. A form in the catalog, or none, becomes an object of its own.
Attach(c, sig, look) ==
    LET f    == <<"field", New>>
        s    == <<"sig", New>>
        a    == <<"ap", New>>
        n    == IF c[Cat].form # None THEN c[Cat].form ELSE <<"form", New>>
        form == FormOf(c)
        signed == Put(Put(c, s, sig), f, [kind |-> "field", rest |-> 0, v |-> s, area |-> look = "seen",
                                          ap |-> IF look = "none" THEN None ELSE a])
        drawn  == IF look = "none" THEN signed ELSE Put(signed, a, [kind |-> "ap", rest |-> 0])
        placed == Put(drawn, Page, [c[Page] EXCEPT !.annots = Append(@, f)])
        listed == Put(placed, n, [form EXCEPT !.fields = Append(@, f), !.flags = 3])
    IN  Put(listed, Cat, [c[Cat] EXCEPT !.form = n, !.inline = None])

\* The certification signature's level: 0 with none, else the changes it allows.
Certified(c) == IF c[Cat].perms = None THEN 0
                ELSE IF IsA(c, c[Cat].perms, "sig") THEN c[c[Cat].perms].mdp ELSE 1

Signed(c)  == \E o \in DOMAIN c : c[o].kind = "sig"
Locked(c, f) ==
    \E g \in ToSet(FormOf(c).fields) :
        /\ IsA(c, g, "field")
        /\ IsA(c, c[g].v, "sig")
        /\ f \in c[c[g].v].locks

\* WriteSignedIncremental, and the signers that also draw the signature, lock a
\* field, or leave a value that does not verify.
Sign(look, good, locks, packed, closed) ==
    /\ Counted(good /\ closed /\ Certified(Now) # 1)
    /\ Write(Attach(Now, Signature("Sig", good, 0, locks), look), packed, closed)

\* A certification signature, that names itself in the catalog.
Certify(mdp) ==
    LET c == Attach(Now, Signature("Sig", TRUE, mdp, {}), "none")
    IN  /\ Counted(~Signed(Now))
        /\ Now[Cat].perms = None
        /\ Write([c EXCEPT ![Cat].perms = <<"sig", New>>], FALSE, TRUE)

\* A value for the field that has none.
Filled(c, sig) ==
    LET s == <<"sig", New>>
        a == <<"ap", New>>
    IN  Put(Put(Put(c, s, sig), a, [kind |-> "ap", rest |-> 0]), Slot, [c[Slot] EXCEPT !.v = s, !.ap = a])

Fill(good, stamp) ==
    /\ Counted(good /\ ~stamp /\ Certified(Now) # 1 /\ ~Locked(Now, Slot))
    /\ IsA(Now, Slot, "field") /\ Now[Slot].v = None
    /\ Write(Filled(Now, Signature(IF stamp THEN "DocTimeStamp" ELSE "Sig", good, 0, {})), FALSE, TRUE)

\* WriteArchivalTimestamp: more in the security store, and a time-stamp, which
\* others may also draw, or leave out.
Archived(c) ==
    LET d == IF c[Cat].dss = None THEN <<"dss", New>> ELSE c[Cat].dss
        l == <<"cert", New>>
        held == IF c[Cat].dss = None THEN <<>> ELSE c[d].certs
        store == [kind |-> "dss", rest |-> 0, certs |-> Append(held, l)]
    IN  Put(Put(Put(c, l, [kind |-> "cert", rest |-> 0]), d, store), Cat, [c[Cat] EXCEPT !.dss = d])

Archive(look) ==
    /\ Counted(look # "seen")
    /\ Write(Attach(Archived(Now), Signature("DocTimeStamp", TRUE, 0, {}), look), FALSE, TRUE)

AddStore ==
    /\ Counted(TRUE)
    /\ Write(Archived(Now), FALSE, TRUE)

\* Any other change, to any object; to the page, in an update left open too.
Alter(closed) ==
    \E o \in {x \in DOMAIN Now : Now[x].kind \notin {"con", "dss", "cert", "form"} /\ Now[x].rest = 0} :
        /\ closed \/ o = Page
        /\ Counted(FALSE)
        /\ Write([Now EXCEPT ![o].rest = 1], FALSE, closed)

\* The annotations or the fields in another order, or the signature bits off.
Reorder ==
    /\ Counted(FALSE)
    /\ \/ /\ Len(Now[Page].annots) > 1
          /\ Write([Now EXCEPT ![Page].annots = Reverse(@)], FALSE, TRUE)
       \/ /\ Now[Cat].form # None /\ FormOf(Now).flags = 3
          /\ \/ Write([Now EXCEPT ![Now[Cat].form].flags = 0], FALSE, TRUE)
             \/ /\ Len(FormOf(Now).fields) > 1
                /\ Write([Now EXCEPT ![Now[Cat].form].fields = Reverse(@)], FALSE, TRUE)

\* An object nothing needs; a signature dictionary once more.
AddOther ==
    /\ Counted(FALSE)
    /\ \/ Write(Put(Now, <<"other", New>>, [kind |-> "other", rest |-> 0]), FALSE, TRUE)
       \/ \E s \in {x \in DOMAIN Now : Now[x].kind = "sig"} :
             Write(Put(Now, <<"sig", -New>>, Now[s]), FALSE, TRUE)

Delete ==
    \E o \in {x \in DOMAIN Now : Now[x].kind \in {"body", "field", "sig", "ap", "cert"}} :
        /\ Counted(FALSE)
        /\ Write([x \in DOMAIN Now \ {o} |-> Now[x]], FALSE, TRUE)

\* An object stream freed or written over, and nothing said of what it holds:
\* one value is another, or the last object is no longer there. (Not one that
\* holds what the file cannot be read without.)
TouchContainer ==
    LET table == MergeSections(parts, Chain(parts))
    IN  \E con \in {x \in DOMAIN Now : Now[x].kind = "con"} :
        LET members == Now[con].members
            held    == {o \in DOMAIN table \intersect DOMAIN Now : table[o].con = con}
            rewrite(ms) ==
                LET value == [Now[con] EXCEPT !.members = ms]
                IN  Update([o \in {con} |-> value], [o \in {con} |-> At(New)], {}, TRUE,
                           [o \in {x \in DOMAIN Now : x \in held => table[x].index \in DOMAIN ms} |->
                               IF o = con THEN value
                               ELSE IF o \in held THEN ms[table[o].index].value ELSE Now[o]])
        IN  /\ Counted(FALSE)
            /\ held # {} /\ \A o \in held : Now[o].kind \notin {"cat", "page", "form", "dss"}
            /\ \/ Update(<<>>, <<>>, {con}, TRUE, [o \in DOMAIN Now \ ({con} \union held) |-> Now[o]])
               \/ rewrite([members EXCEPT ![1].value.rest = 1])
               \/ rewrite(Front(members))

-----------------------------------------------------------------------------
(* The signatures, and the bytes they cover.                                *)

RangeEnd(s) == End(Now[s].by)
GapStart(s) == Start(Now[s].by) + 2

\* revisionOf: the revision that ends with the signed bytes and that holds the
\* signature's value; -1 when there is none.
RevisionOf(ends, s) ==
    LET at    == Min({e \in ends : e >= RangeEnd(s)})
        start == Max({0} \union {e \in ends : e < at})
    IN  IF /\ \E e \in ends : e >= RangeEnd(s)
           /\ at = RangeEnd(s)
           /\ GapStart(s) >= start
        THEN at ELSE -1

Covers(s) == RangeEnd(s) = Length(parts)

documentSignatures == {o \in DOMAIN Now : Now[o].kind = "sig"}

\* verifyAll: of several signatures over the same bytes none is valid.
VerifyAll ==
    LET ends   == RevisionEnds(parts)
        ranged == {s \in documentSignatures : RevisionOf(ends, s) # -1 \/ Covers(s)}
        valid(s) == /\ s \in ranged
                    /\ \A t \in ranged \ {s} : RangeEnd(t) # RangeEnd(s)
                    /\ Now[s].good
    IN  /\ Signed(Now)
        /\ stage' = "judging"
        /\ results' = [s \in documentSignatures |->
                          [valid |-> valid(s), revision |-> RevisionOf(ends, s), whole |-> Covers(s),
                           judged |-> ~valid(s), allowed |-> FALSE, visible |-> {}, changed |-> None]]
        /\ UNCHANGED <<written, diff, asked, spent>>

-----------------------------------------------------------------------------
(* The changes after a signature. A comparison d holds both states and the   *)
(* objects that differ.                                                      *)

Intact(s) == results[s].valid /\ results[s].allowed

IsNew(d, o) == o \in d.changes /\ Val(d.was, o) = None /\ Val(d.is, o) # None

\* With a later signature vouched for by its presence.
VouchedByPresence(v) == v \in DOMAIN results

\* vouch: a later signature is one when it is intact itself.
Vouched(v) == v \in DOMAIN results /\ Intact(v)

MaySign(d) == Certified(d.was) # 1

\* A new field whose value is a new signature, or a time-stamp not to be seen.
AddedSignatureField(d, n) ==
    /\ IsNew(d, n) /\ IsA(d.is, n, "field")
    /\ LET f == d.is[n]
       IN  /\ IsNew(d, f.v) /\ IsA(d.is, f.v, "sig")
           /\ IF d.is[f.v].type = "DocTimeStamp" THEN ~(f.area /\ f.ap # None) ELSE MaySign(d)
           /\ Vouched(f.v)

FieldsAdded(d) ==
    {n \in ToSet(FormOf(d.is).fields) \ ToSet(FormOf(d.was).fields) : AddedSignatureField(d, n)}

\* A field the signed revision left empty, given a signature.
SignedExistingField(d, n) ==
    /\ n \in d.changes /\ IsA(d.was, n, "field") /\ IsA(d.is, n, "field")
    /\ d.was[n].v = None
    /\ MaySign(d) /\ ~Locked(d.was, n)
    /\ d.is[n] = [d.was[n] EXCEPT !.v = d.is[n].v, !.ap = d.is[n].ap]
    /\ IsNew(d, d.is[n].v) /\ IsA(d.is, d.is[n].v, "sig")
    /\ d.is[d.is[n].v].type = "Sig"
    /\ Vouched(d.is[n].v)

LaterFields(d) == FieldsAdded(d) \union {n \in d.changes : SignedExistingField(d, n)}

AppendedOnly(before, after, allowed) ==
    /\ IsPrefix(before, after)
    /\ \A i \in (Len(before) + 1)..Len(after) : after[i] \in allowed

FormEdit(d, before, after) ==
    /\ after.rest = before.rest
    /\ after.flags \in {before.flags, 3}
    /\ AppendedOnly(before.fields, after.fields, FieldsAdded(d))

\* A form the catalog holds, or did not have, may become an object of its own.
CatalogFormEdit(d) ==
    /\ d.is[Cat].form # None \/ d.is[Cat].inline # None
    /\ FormEdit(d, FormOf(d.was), FormOf(d.is))

CatalogEdit(d) ==
    LET was == d.was[Cat]  is == d.is[Cat]
    IN  /\ is.rest = was.rest /\ is.perms = was.perms
        /\ (is.form # was.form \/ is.inline # was.inline) => CatalogFormEdit(d)

PageEdit(d) ==
    /\ d.is[Page].rest = d.was[Page].rest
    /\ AppendedOnly(d.was[Page].annots, d.is[Page].annots, FieldsAdded(d))

\* dssObjects: the store, and what it lists.
Store(c)  == {c[Cat].dss} \ {None}
Leaves(c) == UNION {IF IsA(c, n, "dss") THEN ToSet(c[n].certs) ELSE {} : n \in Store(c)}

DssChanges(d) ==
    {n \in Leaves(d.is) : IsNew(d, n)}
    \union {n \in Store(d.is) : Val(d.was, n) = None \/ n \in Store(d.was)}

StructuralAdditions(d) == {n \in d.changes : IsNew(d, n) /\ IsA(d.is, n, "con")}

\* What the review reads whether it changed or not.
Consulted(c) == Store(c) \union ToSet(FormOf(c).fields)

\* classify: the changes that are permitted.
Explained(d) ==
    (UNION {{n, d.is[n].v} \union {a \in {d.is[n].ap} : IsNew(d, a)} : n \in LaterFields(d)})
    \union DssChanges(d)
    \union StructuralAdditions(d)
    \union (IF CatalogEdit(d) THEN {Cat} ELSE {})
    \union (IF d.is[Cat].form # d.was[Cat].form
            THEN {n \in {d.is[Cat].form} : IsNew(d, n) /\ CatalogFormEdit(d)}
            ELSE {n \in {d.is[Cat].form} : FormEdit(d, FormOf(d.was), FormOf(d.is))})
    \union (IF PageEdit(d) THEN {Page} ELSE {})

\* visibleWidget.
Seen(c, n) == c[n].area /\ Val(c, c[n].ap) # None

Visible(d) == {d.is[n].v : n \in {m \in LaterFields(d) : Seen(d.is, m)}}

-----------------------------------------------------------------------------
(* judgeChanges.                                                            *)

\* With every signature of an older revision judged before.
OldestFirst(s, t) == ~results[s].whole /\ (results[t].whole \/ results[s].revision <= results[t].revision)

\* The order: what covers the whole file, then the latest revision.
LatestFirst(s, t) == results[s].whole \/ (~results[t].whole /\ results[s].revision >= results[t].revision)

Waiting == {s \in DOMAIN results : ~results[s].judged}
IsNext(s) == s \in Waiting /\ \A t \in Waiting \ {s} : LatestFirst(s, t)

Conclude(s, allowed, visible, changed) ==
    results' = [results EXCEPT ![s].judged = TRUE, ![s].allowed = allowed,
                               ![s].visible = visible, ![s].changed = changed]

JudgeWhole ==
    \E s \in {x \in Waiting : IsNext(x) /\ results[x].whole} :
        /\ Conclude(s, TRUE, {}, None)
        /\ UNCHANGED <<written, stage, diff, asked, spent>>

\* Diff: the revision's state against the newest.
Compare ==
    \E s \in {x \in Waiting : IsNext(x) /\ ~results[x].whole} :
        LET end      == results[s].revision
            secs     == SectionsBefore(parts, end)
            old      == MergeSections(parts, secs)
            new      == MergeSections(parts, Chain(parts))
            compared == Compared(old, new, end)
            was      == StateOf(parts, end, old)
            is       == StateOf(parts, Length(parts), new)
            nil      == \/ NilContainer(parts, end, old, compared)
                        \/ NilContainer(parts, Length(parts), new, asked \union compared)
            fails    == \/ \E o \in compared : Unreadable \in {Val(was, o), Val(is, o)}
                        \/ ~Closed(parts, secs, end)
        IN  /\ diff = None /\ ~spent
            /\ \/ /\ nil = TRUE
                  /\ stage' = "panicked" /\ results' = <<>>
                  /\ UNCHANGED diff
               \/ /\ fails = TRUE
                  /\ Conclude(s, FALSE, {}, None)
                  /\ UNCHANGED <<stage, diff>>
               \/ /\ fails = FALSE /\ nil = FALSE
                  /\ diff' = [of |-> s, was |-> was, is |-> is,
                              changes |-> {o \in compared : Val(was, o) # Val(is, o)}]
                  /\ UNCHANGED <<stage, results>>
            /\ asked' = asked \union compared
            /\ UNCHANGED <<written, spent>>

\* trailingBytes.
Trailing == LET ends == RevisionEnds(parts) IN ends # {} /\ Max(ends) < Length(parts)

\* disallowedChanges. What is read and cannot be fails it.
Judge ==
    /\ diff # None
    /\ LET allowed == /\ diff.changes \subseteq Explained(diff)
                      /\ ~Trailing
                      /\ \A o \in Consulted(diff.was) \union Consulted(diff.is) :
                            Unreadable \notin {Val(diff.was, o), Val(diff.is, o)}
       IN  Conclude(diff.of, allowed, Visible(diff), diff.changes)
    /\ diff' = None
    /\ UNCHANGED <<written, stage, asked, spent>>

\* The comparison's budget runs out, or the call is cancelled: in this
\* comparison, in what is read to judge it, or before.
GiveUp ==
    \E s \in {x \in Waiting : IsNext(x) /\ ~results[x].whole} :
        /\ diff = None
        /\ Conclude(s, FALSE, {}, None)
        /\ spent' = TRUE
        /\ UNCHANGED <<written, stage, diff, asked>>

Done ==
    /\ stage = "judging" /\ Waiting = {}
    /\ stage' = "judged"
    /\ UNCHANGED <<written, verdicts>>

ReviewInit ==
    /\ \E b \in Bases : parts = <<b.part>> /\ content = <<b.content>>
    /\ odd = 0
    /\ stage = "writing" /\ results = <<>>
    /\ diff = None /\ asked = {} /\ spent = FALSE

Grow ==
    \/ \E closed \in BOOLEAN : Sign("none", TRUE, {}, FALSE, closed)
    \/ Sign("none", TRUE, {}, TRUE, TRUE)
    \/ \E good \in BOOLEAN : Sign("seen", good, {}, FALSE, TRUE)
    \/ Sign("none", TRUE, {Slot}, FALSE, TRUE)
    \/ \E mdp \in 1..2 : Certify(mdp)
    \/ \E good \in BOOLEAN : Fill(good, FALSE)
    \/ Fill(TRUE, TRUE)
    \/ \E look \in Looks : Archive(look)
    \/ AddStore
    \/ \E closed \in BOOLEAN : Alter(closed)
    \/ Reorder \/ AddOther \/ Delete \/ TouchContainer

ReviewNext ==
    \/ stage = "writing" /\ (Grow \/ VerifyAll)
    \/ JudgeWhole \/ Compare \/ Judge \/ GiveUp
    \/ Done

ReviewSpec == ReviewInit /\ [][ReviewNext]_reviewVars

-----------------------------------------------------------------------------
(* Properties.                                                              *)

\* The revision of a result, as its reader found it, and as it stands.
Then(s) == content[results[s].revision \div Span]

\* The comparison misses nothing and invents nothing: what it found to differ
\* is what a reader of the file as it was when the revision ended, and a reader
\* of it now, find different, whatever the sections, containers and markers in
\* between (signedFile.Diff).
EveryChangeSeen ==
    \A s \in DOMAIN results : results[s].changed # None =>
        results[s].changed =
            {o \in DOMAIN Then(s) \union DOMAIN Now : Val(Then(s), o) # Val(Now, o)}

\* What a widget shows on the page.
Shown(c, n) == IF IsA(c, n, "field") /\ c[n].area THEN Val(c, c[n].ap) ELSE None

\* An intact signature means its reader sees what the signer did, and beside
\* that only what later signatures drew that are intact themselves, drawn as
\* they were when those were made, and listed (Result.Intact,
\* LaterVisibleSignatures).
WhatIsSeenIsSigned ==
    stage = "judged" => \A s \in DOMAIN results :
        Intact(s) /\ ~results[s].whole =>
            /\ Now[Page].rest = Then(s)[Page].rest
            /\ \A o \in DOMAIN Then(s) : Then(s)[o].kind \in {"body", "ap"} => Val(Now, o) = Then(s)[o]
            /\ IsPrefix(Then(s)[Page].annots, Now[Page].annots)
            /\ \A n \in ToSet(Now[Page].annots) :
                  \/ Shown(Now, n) = Shown(Then(s), n)
                  \/ \E t \in results[s].visible :
                        /\ Intact(t) /\ Now[n].v = t
                        /\ results[t].whole \/ Shown(Now, n) = Shown(Then(t), n)

\* Signing, time-stamping and archiving never cost an earlier signature its
\* verdict: in a file only they updated every signature is intact, unless the
\* comparison was given up.
OrdinaryKeepsIntact ==
    (stage = "judged" /\ odd = 0 /\ ~spent) => \A s \in DOMAIN results : Intact(s)

\* Verification comes to a verdict on every signature: an object stream the
\* state does not define holds nothing, however often it is asked for (objStm).
MissingContainerHoldsNothing == stage # "panicked"
=============================================================================
