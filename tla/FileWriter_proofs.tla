-------------------------- MODULE FileWriter_proofs --------------------------
(***************************************************************************)
(* For every set of documents and every size of container: what a caller's  *)
(* writer may be left with, that Save keeps its promise, and that a write   *)
(* that reports no error wrote the document.                                *)
(***************************************************************************)
EXTENDS FileWriter, FiniteSetTheorems, WellFoundedInduction, TLAPS

IsSequence(s) == \E S : s \in Seq(S)

\* What was serialized does not end as a file does.
Open(s) == \A i \in 1..Len(s) : s[i].what # "startxref"

\* It does, and no part of it does.
Closed(s) ==
    /\ Whole(s)
    /\ \A i \in 1..(Len(s) - 1) : s[i].what # "startxref"

Phases == {"begin", "objects", "end", "read back", "verdict", "copy", "over"}

\* What is in the buffer, and in the caller's writer, at each phase: a document
\* with a claim to check leaves the writer alone until it was checked.
Inv ==
    /\ doc \in Docs /\ entry \in {"write", "save"} /\ phase \in Phases
    /\ outcome = "none" <=> phase # "over"
    /\ IsSequence(out)
    /\ outcome = "none" => dest = IF Direct THEN out ELSE <<>>
    /\ phase = "begin" => out = <<>>
    /\ phase \in {"begin", "objects", "end"} => Open(out)
    /\ phase \in {"read back", "verdict", "copy"} => ~Direct /\ Closed(out)
    /\ phase = "copy" => doc.conforms /\ doc.checkable
    /\ outcome \notin {"none", "ok"} => ~Whole(dest)

\* One more item keeps a sequence a sequence; it is the last.
LEMMA Appended ==
    ASSUME NEW s, NEW e, IsSequence(s)
    PROVE  /\ IsSequence(Append(s, e))
           /\ Len(s) \in Nat /\ Len(Append(s, e)) = Len(s) + 1
           /\ \A i \in 1..Len(s) : Append(s, e)[i] = s[i]
           /\ Append(s, e)[Len(s) + 1] = e
           /\ Append(s, e) # <<>>
  <1>1. PICK S : s \in Seq(S)
    BY DEF IsSequence
  <1>2. s \in Seq(S \cup {e})
    BY <1>1
  <1>3. Append(s, e) \in Seq(S \cup {e})
    BY <1>2
  <1> QED BY <1>2, <1>3 DEF IsSequence

\* What is not the end of a file, added to what does not end as one.
LEMMA StaysOpen ==
    ASSUME NEW s, NEW e, IsSequence(s), Open(s), e.what # "startxref"
    PROVE  Open(Append(s, e))
  BY Appended DEF Open

\* The end of a file closes what was open.
LEMMA Closes ==
    ASSUME NEW s, NEW e, IsSequence(s), Open(s), e.what = "startxref"
    PROVE  Closed(Append(s, e))
  <1> DEFINE t == Append(s, e)
  <1>1. /\ Len(s) \in Nat /\ Len(t) = Len(s) + 1
        /\ \A i \in 1..Len(s) : t[i] = s[i]
        /\ t[Len(s) + 1] = e
        /\ t # <<>>
    BY Appended
  <1> HIDE DEF t
  <1>2. Whole(t)
    BY <1>1 DEF Whole, Last
  <1>3. \A i \in 1..(Len(t) - 1) : t[i].what # "startxref"
    BY <1>1 DEF Open
  <1> QED BY <1>2, <1>3 DEF Closed, t

\* What is open is not a whole file.
LEMMA OpenNotWhole ==
    ASSUME NEW s, IsSequence(s), Open(s) PROVE ~Whole(s)
  <1>1. PICK S : s \in Seq(S)
    BY DEF IsSequence
  <1> QED BY <1>1 DEF Open, Whole, Last

\* Nor is a part of a whole one.
LEMMA PartNotWhole ==
    ASSUME NEW s, NEW i \in 0..(Len(s) - 1), IsSequence(s), Closed(s)
    PROVE  ~Whole(SubSeq(s, 1, i))
  <1>1. PICK S : s \in Seq(S)
    BY DEF IsSequence
  <1>2. Len(SubSeq(s, 1, i)) = i /\ \A j \in 1..i : SubSeq(s, 1, i)[j] = s[j]
    BY <1>1
  <1>3. CASE i = 0
    BY <1>1, <1>3 DEF Whole
  <1>4. CASE i # 0
    BY <1>1, <1>2, <1>4 DEF Closed, Whole, Last
  <1> QED BY <1>3, <1>4

\* A write begins with nothing written.
LEMMA Begins == Init => Inv
  BY DEF Init, Inv, Phases, IsSequence, Open, Direct

\* What an item put out leaves, when it does not end the file.
LEMMA Emitted ==
    ASSUME Inv, NEW e, e.what # "startxref", Emit(e),
           phase \in {"begin", "objects", "end"}, phase' \in {"objects", "end"},
           UNCHANGED <<doc, entry, outcome>>
    PROVE  Inv'
  <1>1. Open(out') /\ IsSequence(out')
    BY Appended, StaysOpen DEF Inv, Emit
  <1>2. dest' = IF Direct' THEN out' ELSE <<>>
    BY DEF Inv, Emit, Direct, Phases
  <1> QED BY <1>1, <1>2 DEF Inv, Phases

\* A write that ends in an error before the file does.
LEMMA EndsOpen ==
    ASSUME Inv, NEW what, what # "none", Ends(what),
           phase \in {"begin", "objects", "end"}, UNCHANGED <<doc, entry, out, dest>>
    PROVE  Inv'
  <1>1. ~Whole(<<>>)
    BY DEF Whole
  <1>2. ~Whole(dest)
    BY <1>1, OpenNotWhole DEF Inv
  <1> QED BY <1>2 DEF Inv, Ends, Phases, Direct

\* Or once the file was serialized, with nothing given to the writer.
LEMMA EndsUnwritten ==
    ASSUME Inv, NEW what, what # "none", Ends(what),
           phase \in {"read back", "verdict", "copy"}, UNCHANGED <<doc, entry, out, dest>>
    PROVE  Inv'
  <1>1. ~Whole(dest)
    BY DEF Whole, Inv
  <1> QED BY <1>1 DEF Inv, Ends, Phases, Direct

\* Every step keeps the invariant.
LEMMA Keeps == Inv /\ [Next]_vars => Inv'
  <1> SUFFICES ASSUME Inv, [Next]_vars PROVE Inv'
    OBVIOUS
  <1>1. CASE RefuseClaim
    BY <1>1, EndsOpen DEF RefuseClaim
  <1>2. CASE Refuse
    BY <1>2, EndsOpen DEF Refuse, Beginning
  <1>3. CASE WriteHeader
    <2>1. [what |-> "header"].what # "startxref"
      OBVIOUS
    <2> QED BY <1>3, <2>1, Emitted DEF WriteHeader, Beginning
  <1>4. CASE WriterFails
    BY <1>4, EndsOpen DEF WriterFails
  <1>5. CASE WriteObject
    <2>1. PICK n \in Least(todo) :
            \/ Ends("failed") /\ UNCHANGED <<out, dest>>
            \/ Emit(Written(n)) /\ UNCHANGED <<phase, outcome>>
      BY <1>5 DEF WriteObject
    <2>2. Written(n).what # "startxref"
      BY DEF Written
    <2>3. phase = "objects" /\ UNCHANGED <<doc, entry>>
      BY <1>5 DEF WriteObject
    <2> QED BY <2>1, <2>2, <2>3, EndsOpen, Emitted
  <1>6. CASE Stop
    BY <1>6, EndsOpen DEF Stop
  <1>7. CASE WriteXRef
    <2>1. Section.what # "startxref"
      BY DEF Section
    <2> QED BY <1>7, <2>1, Emitted DEF WriteXRef
  <1>8. CASE WriteStartXRef
    <2> DEFINE e == [what |-> "startxref", at |-> Len(out)]
    <2>1. Emit(e) /\ e.what = "startxref" /\ phase = "end"
          /\ UNCHANGED <<doc, entry>>
      BY <1>8 DEF WriteStartXRef
    <2>2. Closed(out') /\ IsSequence(out')
      BY <2>1, Appended, Closes DEF Inv, Emit
    <2>3. dest' = IF Direct' THEN out' ELSE <<>>
      BY <2>1 DEF Inv, Emit, Direct, Phases
    <2>4. CASE Direct
      BY <1>8, <2>1, <2>2, <2>4 DEF WriteStartXRef, Ends, Inv, Phases, Direct
    <2>5. CASE ~Direct
      BY <1>8, <2>1, <2>2, <2>3, <2>5 DEF WriteStartXRef, Inv, Phases, Direct
    <2> QED BY <2>4, <2>5
  <1>9. CASE ReadBack
    <2>1. CASE canceled
      BY <1>9, <2>1, EndsUnwritten DEF ReadBack
    <2>2. CASE Ends("not read back")
      BY <1>9, <2>2, EndsUnwritten DEF ReadBack
    <2>3. CASE phase' = "verdict" /\ UNCHANGED outcome
      BY <1>9, <2>3 DEF ReadBack, Inv, Phases, Direct
    <2> QED BY <1>9, <2>1, <2>2, <2>3 DEF ReadBack
  <1>10. CASE Verify
    <2>1. CASE SaveVerdict = "written"
      BY <1>10, <2>1 DEF Verify, SaveVerdict, Inv, Phases, Direct
    <2>2. CASE SaveVerdict # "written"
      <3>1. SaveVerdict # "none"
        BY DEF SaveVerdict
      <3> QED BY <1>10, <2>2, <3>1, EndsUnwritten DEF Verify
    <2> QED BY <2>1, <2>2
  <1>11. CASE Copy
    <2>1. CASE dest' = out /\ Ends("ok")
      BY <1>11, <2>1 DEF Copy, Ends, Inv, Phases, Direct
    <2>2. ASSUME NEW i \in 0..(Len(out) - 1), dest' = SubSeq(out, 1, i), Ends("failed")
          PROVE  Inv'
      <3>1. ~Whole(dest')
        BY <1>11, <2>2, PartNotWhole DEF Copy, Inv
      <3> QED BY <1>11, <2>2, <3>1 DEF Copy, Ends, Inv, Phases, Direct
    <2> QED BY <1>11, <2>1, <2>2 DEF Copy
  <1>12. CASE Cancel
    BY <1>12 DEF Cancel, Inv, Direct
  <1>13. CASE UNCHANGED vars
    BY <1>13 DEF vars, Inv, Direct
  <1> QED
    BY <1>1, <1>2, <1>3, <1>4, <1>5, <1>6, <1>7, <1>8, <1>9, <1>10, <1>11, <1>12, <1>13
    DEF Next, Step, Over

\* In every state of a write the buffer and the writer hold what Inv says.
THEOREM Invariance == Spec => []Inv
  BY Begins, Keeps, PTL DEF Spec

\* A write that reports an error never leaves what looks like a whole file: the
\* startxref is the last thing written, and nothing can fail after it.
THEOREM NeverWhole == Spec => []ErrorNeverWhole
  <1>1. Inv => ErrorNeverWhole
    BY DEF Inv, ErrorNeverWhole
  <1> QED BY <1>1, Invariance, PTL

\* Save's promise has the file and the conformance Save goes by.
LEMMA PromiseBegins == Init => Promise!Init
  <1> SUFFICES ASSUME Init PROVE Promise!Init
    OBVIOUS
  <1>1. IsDoc(doc)
    BY DocsAssumption DEF Init
  <1> QED BY <1>1 DEF Init, IsDoc, Promise!Init

\* A step that answers nothing yet leaves the promise where it was.
LEMMA NothingYet ==
    ASSUME Inv, Inv', UNCHANGED <<doc, entry, outcome>>,
           \/ outcome = "none"
           \/ UNCHANGED dest
    PROVE  UNCHANGED Promise!vars
  <1>1. CASE ~Claiming
    BY <1>1 DEF Promise!vars, Claiming
  <1>2. CASE Claiming /\ outcome = "none"
    <2>1. dest = <<>> /\ dest' = <<>>
      BY <1>2 DEF Inv, Claiming, Direct
    <2> QED BY <2>1, <1>2 DEF Promise!vars, Claiming
  <1>3. CASE UNCHANGED dest
    BY <1>3 DEF Promise!vars, Claiming, Whole, Last
  <1> QED BY <1>1, <1>2, <1>3

\* A call that ends in an error, with nothing more given to the writer, is
\* declined.
LEMMA Declines ==
    ASSUME Inv, NEW what, Ends(what), outcome = "none",
           what \in {"refused", "failed", "canceled", "not read back", "does not conform",
                    "not checked"},
           UNCHANGED <<doc, entry, dest>>
    PROVE  [Promise!Next]_(Promise!vars)
  <1>1. CASE ~Claiming
    BY <1>1 DEF Promise!vars, Claiming
  <1>2. CASE Claiming
    <2>1. dest = <<>> /\ dest' = <<>>
      BY <1>2 DEF Inv, Claiming, Direct
    <2> QED BY <2>1, <1>2 DEF Promise!Next, Promise!Decline, Claiming, Ends
  <1> QED BY <1>1, <1>2

\* A step of a Save that claims a level is one of the promise's, or none; of
\* anything else, none.
LEMMA PromiseKept ==
    ASSUME Inv, Inv', [Next]_vars
    PROVE  [Promise!Next]_(Promise!vars)
  <1>1. CASE RefuseClaim
    <2>1. outcome = "none"
      BY <1>1 DEF RefuseClaim, Inv
    <2> QED BY <1>1, <2>1, Declines DEF RefuseClaim
  <1>2. CASE Refuse
    <2>1. outcome = "none"
      BY <1>2 DEF Refuse, Beginning, Inv
    <2> QED BY <1>2, <2>1, Declines DEF Refuse
  <1>3. CASE WriteHeader
    BY <1>3, NothingYet DEF WriteHeader, Beginning, Inv
  <1>4. CASE WriterFails
    <2>1. ~Claiming /\ ~Claiming'
      BY <1>4 DEF WriterFails, Direct, Claiming
    <2> QED BY <1>4, <2>1 DEF WriterFails, Promise!vars
  <1>5. CASE WriteObject
    <2>1. outcome = "none" /\ UNCHANGED <<doc, entry>>
      BY <1>5 DEF WriteObject, Inv
    <2>2. \/ Ends("failed") /\ UNCHANGED dest
          \/ UNCHANGED outcome
      BY <1>5 DEF WriteObject
    <2> QED BY <2>1, <2>2, NothingYet, Declines
  <1>6. CASE Stop
    <2>1. outcome = "none"
      BY <1>6 DEF Stop, Inv
    <2> QED BY <1>6, <2>1, Declines DEF Stop
  <1>7. CASE WriteXRef
    BY <1>7, NothingYet DEF WriteXRef, Inv
  <1>8. CASE WriteStartXRef
    <2>1. CASE Direct
      <3>1. ~Claiming /\ ~Claiming'
        BY <1>8, <2>1 DEF WriteStartXRef, Direct, Claiming
      <3> QED BY <1>8, <3>1 DEF WriteStartXRef, Promise!vars
    <2>2. CASE ~Direct
      BY <1>8, <2>2, NothingYet DEF WriteStartXRef, Inv
    <2> QED BY <2>1, <2>2
  <1>9. CASE ReadBack
    <2>1. outcome = "none" /\ UNCHANGED <<doc, entry, dest>>
      BY <1>9 DEF ReadBack, Inv
    <2>2. Ends("canceled") \/ Ends("not read back") \/ UNCHANGED outcome
      BY <1>9 DEF ReadBack
    <2> QED BY <2>1, <2>2, NothingYet, Declines
  <1>10. CASE Verify
    <2>1. outcome = "none" /\ UNCHANGED <<doc, entry, dest>>
      BY <1>10 DEF Verify, Inv
    <2>2. \/ SaveVerdict # "written" /\ Ends(SaveVerdict)
          \/ UNCHANGED outcome
      BY <1>10 DEF Verify
    <2>3. SaveVerdict # "written" =>
            SaveVerdict \in {"refused", "failed", "canceled", "not read back", "does not conform",
                    "not checked"}
      BY DEF SaveVerdict
    <2> QED BY <2>1, <2>2, <2>3, NothingYet, Declines
  <1>11. CASE Copy
    <2>1. CASE ~Claiming
      BY <1>11, <2>1 DEF Copy, Claiming, Promise!vars
    <2>2. CASE Claiming
      <3>1. /\ doc.conforms /\ doc.checkable /\ outcome = "none" /\ dest = <<>>
            /\ UNCHANGED <<doc, entry>> /\ Closed(out)
        BY <1>11, <2>2 DEF Copy, Inv, Claiming, Direct
      <3>2. CASE dest' = out /\ Ends("ok")
        <4>1. Whole(dest') /\ dest' # <<>>
          BY <3>1, <3>2 DEF Closed, Whole
        <4>2. Promise!Write
          BY <2>2, <3>1, <3>2, <4>1 DEF Promise!Write, Claiming, Ends, Whole, Last
        <4> QED BY <4>2 DEF Promise!Next
      <3>3. CASE Ends("failed")
        <4>1. ~Whole(dest')
          BY <3>3 DEF Inv, Ends
        <4>2. Promise!WriterFails
          BY <2>2, <3>1, <3>3, <4>1 DEF Promise!WriterFails, Claiming, Ends, Whole, Last
        <4> QED BY <4>2 DEF Promise!Next
      <3> QED BY <1>11, <3>2, <3>3 DEF Copy
    <2> QED BY <2>1, <2>2
  <1>12. CASE Cancel
    BY <1>12, NothingYet DEF Cancel
  <1>13. CASE UNCHANGED vars
    BY <1>13, NothingYet DEF vars
  <1> QED
    BY <1>1, <1>2, <1>3, <1>4, <1>5, <1>6, <1>7, <1>8, <1>9, <1>10, <1>11, <1>12, <1>13
    DEF Next, Step, Over

\* Save of a document that claims a level implements its promise: the caller's
\* writer gets the whole file, once, and only after the file was checked, or what
\* a writer that fails took of it.
THEOREM SavePromised == Spec => SaveKeepsPromise
  <1>1. Spec => []Inv
    BY Invariance
  <1>2. Init => Promise!Init
    BY PromiseBegins
  <1>3. Inv /\ Inv' /\ [Next]_vars => [Promise!Next]_(Promise!vars)
    BY PromiseKept
  <1> QED BY <1>1, <1>2, <1>3, PTL DEF Spec, SaveKeepsPromise, Promise!Spec

-----------------------------------------------------------------------------
(* Steps that are taken one after the other, and what they add up to.        *)

\* What is not empty has a smallest number.
LEMMA Smallest ==
    ASSUME NEW S \in SUBSET Nat, S # {}
    PROVE  \E x \in S : \A y \in S : x <= y
  <1> DEFINE R == {ss \in Nat \X Nat : ss[1] < ss[2]}
  <1>1. R = OpToRel(<, Nat)
    BY DEF OpToRel
  <1>2. IsWellFoundedOn(R, Nat)
    BY <1>1, NatLessThanWellFounded
  <1>3. \A x, y \in Nat : <<y, x>> \in R <=> y < x
    OBVIOUS
  <1> HIDE DEF R
  <1>4. PICK x \in S : \A y \in S : ~(<<y, x>> \in R)
    BY <1>2, WFMin
  <1>5. \A y \in S : x <= y
    <2> TAKE y \in S
    <2>1. ~(y < x)
      BY <1>3, <1>4
    <2> QED BY <2>1
  <1> QED BY <1>5

\* And, when it is finite, a greatest one.
LEMMA Greatest ==
    ASSUME NEW S \in SUBSET Nat, S # {}, IsFiniteSet(S)
    PROVE  Max(S) \in S /\ \A y \in S : Max(S) >= y
  <1> DEFINE R == StrictSubsetOrdering(S)
             Has(V) == \E x \in V : \A y \in V : x >= y
             T == {V \in FiniteSubsetsOf(S) : V # {} /\ ~Has(V)}
  <1>1. IsWellFoundedOn(R, FiniteSubsetsOf(S))
    BY FS_StrictSubsetOrderingWellFounded
  <1>2. CASE T # {}
    <2>1. PICK V \in T : \A W \in T : ~ (<<W, V>> \in R)
      <3>1. T \subseteq FiniteSubsetsOf(S)
        OBVIOUS
      <3> HIDE DEF R, T
      <3> QED BY <1>1, <1>2, <3>1, WFMin
    <2>2. V \subseteq S /\ IsFiniteSet(V) /\ V # {} /\ ~Has(V)
      BY <2>1 DEF FiniteSubsetsOf
    <2>3. PICK v \in V : TRUE
      BY <2>2
    <2>4. /\ V \ {v} \in FiniteSubsetsOf(S)
          /\ <<V \ {v}, V>> \in R
      BY <2>2, FS_Subset DEF FiniteSubsetsOf, StrictSubsetOrdering
    <2>5. CASE V = {v}
      <3>1. Has({v})
        <4>1. v \in Nat
          BY <2>2
        <4> QED BY <4>1
      <3> QED BY <2>2, <2>5, <3>1
    <2>6. CASE V # {v}
      <3>1. Has(V \ {v})
        BY <2>1, <2>3, <2>4, <2>6
      <3>2. PICK x \in V \ {v} : \A y \in V \ {v} : x >= y
        BY <3>1
      <3>3. x \in Nat /\ v \in Nat
        BY <2>2
      <3>4. \A y \in V : y \in Nat
        BY <2>2
      <3>5. CASE x >= v
        BY <2>2, <3>2, <3>5
      <3>6. CASE v >= x
        <4>1. \A y \in V : v >= y
          <5> TAKE y \in V
          <5>1. y = v \/ x >= y
            BY <3>2
          <5> QED BY <3>3, <3>4, <3>6, <5>1
        <4> QED BY <2>2, <4>1
      <3> QED BY <3>3, <3>5, <3>6
    <2> QED BY <2>5, <2>6
  <1>3. CASE T = {}
    <2>1. S \in FiniteSubsetsOf(S)
      BY DEF FiniteSubsetsOf
    <2>2. Has(S)
      BY <1>3, <2>1
    <2> QED BY <2>2 DEF Max
  <1> QED BY <1>2, <1>3

\* A finite set has finitely many images.
LEMMA FiniteImage ==
    ASSUME NEW S, IsFiniteSet(S), NEW f
    PROVE  IsFiniteSet({f[s] : s \in S})
  <1> DEFINE T == {f[s] : s \in S}
             g == [s \in S |-> f[s]]
  <1>1. g \in Surjection(S, T)
    BY DEF Surjection
  <1> HIDE DEF T, g
  <1>2. IsFiniteSet(T)
    BY <1>1, FS_Surjection
  <1> QED BY <1>2 DEF T

\* What begins in a set and is taken on by steps within it ...
LEMMA StaysWithin ==
    ASSUME NEW m \in Nat, NEW A, NEW f, f[0] \in A,
           \A k \in 1..m : f[k - 1] \in A => f[k] \in A
    PROVE  \A k \in 0..m : f[k] \in A
  <1> DEFINE S == {k \in 0..m : f[k] \notin A}
  <1>1. CASE S = {}
    BY <1>1
  <1>2. CASE S # {}
    <2>1. PICK k \in S : \A j \in S : k <= j
      <3>1. S \in SUBSET Nat
        OBVIOUS
      <3> HIDE DEF S
      <3> QED BY <1>2, <3>1, Smallest
    <2>2. k # 0 /\ k \in 0..m
      BY <2>1
    <2>3. k - 1 \notin S /\ k - 1 \in 0..m /\ k \in 1..m
      BY <2>1, <2>2
    <2> QED BY <2>1, <2>3
  <1> QED BY <1>1, <1>2

\* ... can be taken on as many steps as one wants.
Within(m, A, step) == \A k \in 1..m : step[k] \in [A -> A]
Iterates(m, A, base, step, g) ==
    /\ g \in [0..m -> A]
    /\ g[0] = base /\ \A k \in 1..m : g[k] = step[k][g[k - 1]]

LEMMA Iterated ==
    ASSUME NEW m, m \in Nat, NEW A, NEW base, base \in A, NEW step, Within(m, A, step)
    PROVE  \E g : Iterates(m, A, base, step, g)
  <1> USE DEF Within, Iterates
  <1> DEFINE Up(j, g) == g[0] = base /\ \A k \in 1..j : g[k] = step[k][g[k - 1]]
             S == {j \in 0..m : ~\E g \in [0..j -> A] : Up(j, g)}
  <1>1. 0 \notin S
    <2>1. [k \in 0..0 |-> base] \in [0..0 -> A] /\ Up(0, [k \in 0..0 |-> base])
      <3>1. 1..0 = {} /\ 0 \in 0..0
        OBVIOUS
      <3> QED BY <3>1
    <2> QED BY <2>1
  <1>2. CASE S # {}
    <2>1. PICK j \in S : \A i \in S : j <= i
      <3>1. S \in SUBSET Nat
        OBVIOUS
      <3> HIDE DEF S
      <3> QED BY <1>2, <3>1, Smallest
    <2>2. j # 0 /\ j \in 1..m /\ j - 1 \in 0..m /\ j - 1 \notin S
      <3>1. j \in 0..m
        OBVIOUS
      <3> HIDE DEF S
      <3>2. j # 0
        BY <1>1, <2>1
      <3>3. ~(j <= j - 1)
        BY <3>1
      <3>4. j - 1 \notin S
        BY <2>1, <3>3
      <3> QED BY <3>1, <3>2, <3>4
    <2>3. PICK g \in [0..(j - 1) -> A] : Up(j - 1, g)
      BY <2>2
    <2> DEFINE h == [k \in 0..j |-> IF k = j THEN step[j][g[j - 1]] ELSE g[k]]
    <2>4. g[j - 1] \in A /\ step[j][g[j - 1]] \in A
      BY <2>2, <2>3
    <2>5. h \in [0..j -> A]
      BY <2>2, <2>3, <2>4
    <2>6. h[0] = base /\ h[j] = step[j][h[j - 1]]
      BY <2>2, <2>3
    <2>7. \A k \in 1..(j - 1) : h[k] = step[k][h[k - 1]]
      <3> TAKE k \in 1..(j - 1)
      <3>1. h[k] = g[k] /\ h[k - 1] = g[k - 1]
        BY <2>2
      <3>2. g[k] = step[k][g[k - 1]]
        BY <2>3
      <3> QED BY <3>1, <3>2, Zenon
    <2>8. \A k \in 1..j : k = j \/ k \in 1..(j - 1)
      BY <2>2
    <2> HIDE DEF h
    <2>9. Up(j, h)
      BY <2>6, <2>7, <2>8, Zenon
    <2>10. j \notin S
      BY <2>5, <2>9
    <2> QED BY <2>1, <2>10
  <1>3. CASE S = {}
    <2>1. m \in 0..m
      OBVIOUS
    <2>2. PICK g \in [0..m -> A] : Up(m, g)
      BY <1>3, <2>1
    <2>3. Iterates(m, A, base, step, g)
      BY <2>2
    <2> QED BY <2>3
  <1> QED BY <1>2, <1>3

\* A document's objects are finitely many, and have sizes.
LEMMA DocFacts ==
    ASSUME IsDoc(doc)
    PROVE  /\ Numbers \subseteq Nat /\ IsFiniteSet(Numbers)
           /\ \A n \in Numbers : /\ Object(n).size \in Nat /\ Object(n).gen \in Nat
                                 /\ Object(n).lengthAt \in Nat
                                 /\ Object(n).refs \subseteq Nat
           /\ Padding \in Nat /\ IndexCost \in Nat /\ ContainerMax \in Nat
           /\ Highest \in Nat /\ \A n \in Numbers : n <= Highest
  <1>1. Numbers \subseteq Nat /\ IsFiniteSet(Numbers)
    BY DEF IsDoc, Numbers
  <1>2. \A n \in Numbers : IsObject(doc.objects[n])
    BY DEF IsDoc, Numbers
  <1>3. IsFiniteSet({0} \cup Numbers)
    <2>1. IsFiniteSet(Numbers \cup {0})
      BY <1>1, FS_AddElement
    <2>2. Numbers \cup {0} = {0} \cup Numbers
      OBVIOUS
    <2> QED BY <2>1, <2>2, Zenon
  <1>4. {0} \cup Numbers \in SUBSET Nat /\ {0} \cup Numbers # {}
    BY <1>1
  <1>5. /\ Max({0} \cup Numbers) \in {0} \cup Numbers
        /\ \A y \in {0} \cup Numbers : Max({0} \cup Numbers) >= y
    <2> DEFINE S == {0} \cup Numbers
    <2>1. S \in SUBSET Nat /\ S # {} /\ IsFiniteSet(S)
      BY <1>3, <1>4, Zenon
    <2> HIDE DEF S
    <2>2. Max(S) \in S /\ \A y \in S : Max(S) >= y
      BY <2>1, Greatest
    <2> QED BY <2>2, Zenon DEF S
  <1>6. Highest \in Nat /\ \A n \in Numbers : n <= Highest
    <2>1. Highest \in Nat
      BY <1>4, <1>5 DEF Highest
    <2>2. \A n \in Numbers : Highest >= n
      BY <1>5 DEF Highest
    <2> QED BY <1>1, <2>1, <2>2
  <1> QED BY <1>1, <1>2, <1>6, SizesAssumption DEF IsObject, Object

-----------------------------------------------------------------------------
(* What is packed, and what is kept out of the containers.                  *)

\* What is referred to from s, and s.
Further(s) == s \cup UNION {Object(n).refs \cap Numbers : n \in s}
Steps == Cardinality(Numbers) + 3
Reaches(f) ==
    f = [k \in 0..Steps |-> IF k = 0 THEN {doc.encryptAt} \cap Numbers ELSE Further(f[k - 1])]

\* Reach is what its definition says of it, from one reference to the next.
LEMMA ReachFacts ==
    ASSUME IsDoc(doc)
    PROVE  /\ Cardinality(Numbers) \in Nat
           /\ Reach[0] = {doc.encryptAt} \cap Numbers
           /\ \A k \in 1..Steps : Reach[k] = Further(Reach[k - 1])
           /\ \A k \in 0..Steps : Reach[k] \subseteq Numbers
  <1> DEFINE A == SUBSET Numbers
             base == {doc.encryptAt} \cap Numbers
             onward == [s \in A |-> Further(s)]
             step == [k \in 1..Steps |-> onward]
  <1>1. Cardinality(Numbers) \in Nat /\ Steps \in Nat
    <2>1. IsFiniteSet(Numbers)
      BY DocFacts
    <2>2. Cardinality(Numbers) \in Nat
      BY <2>1, FS_CardinalityType
    <2> QED BY <2>2 DEF Steps
  <1>2. base \in A
    OBVIOUS
  <1>3. \A s \in A : Further(s) \in A
    BY DEF Further
  <1>4. \A k \in 1..Steps : step[k] \in [A -> A]
    BY <1>3
  <1>5. \A s \in A : onward[s] = Further(s)
    OBVIOUS
  <1>6. \A k \in 1..Steps : step[k] = onward
    OBVIOUS
  <1> HIDE DEF A, base, step, onward
  <1>7. PICK g \in [0..Steps -> A] :
          g[0] = base /\ \A k \in 1..Steps : g[k] = step[k][g[k - 1]]
    <2>1. Within(Steps, A, step)
      BY <1>4 DEF Within
    <2>2. \E g : Iterates(Steps, A, base, step, g)
      BY <1>1, <1>2, <2>1, Iterated
    <2> QED BY <2>2 DEF Iterates
  <1>8. \A k \in 0..Steps : g[k] = IF k = 0 THEN base ELSE Further(g[k - 1])
    <2> TAKE k \in 0..Steps
    <2>1. CASE k = 0
      BY <1>7, <2>1
    <2>2. CASE k # 0
      <3>1. k \in 1..Steps /\ k - 1 \in 0..Steps
        BY <1>1, <2>2
      <3>2. g[k - 1] \in A
        BY <3>1, <1>7
      <3>3. g[k] = onward[g[k - 1]]
        BY <3>1, <1>6, <1>7
      <3> QED BY <2>2, <3>2, <3>3, <1>5
    <2> QED BY <2>1, <2>2
  <1>9. Reaches(g)
    <2>1. g = [k \in 0..Steps |-> g[k]]
      BY <1>7
    <2>2. [k \in 0..Steps |-> g[k]] =
            [k \in 0..Steps |-> IF k = 0 THEN base ELSE Further(g[k - 1])]
      BY <1>8, Zenon
    <2> QED BY <2>1, <2>2, Zenon DEF Reaches, base
  <1>10. Reach = CHOOSE f : Reaches(f)
    BY DEF Reach, Reaches, Steps, Further
  <1>11. Reaches(Reach)
    BY <1>9, <1>10, Zenon
  <1>12. \A k \in 0..Steps : Reach[k] = IF k = 0 THEN base ELSE Further(Reach[k - 1])
    BY <1>11, Zenon DEF Reaches, base
  <1>13. Reach[0] = base
    BY <1>1, <1>12
  <1>14. \A k \in 1..Steps : Reach[k] = Further(Reach[k - 1])
    <2> TAKE k \in 1..Steps
    <2>1. k \in 0..Steps /\ k # 0
      BY <1>1
    <2> QED BY <2>1, <1>12
  <1>15. \A k \in 0..Steps : Reach[k] \in A
    <2>1. Reach[0] \in A
      BY <1>13, <1>2
    <2>2. \A k \in 1..Steps : Reach[k - 1] \in A => Reach[k] \in A
      BY <1>14, <1>3
    <2> DEFINE f == Reach
    <2> HIDE DEF f
    <2>3. f[0] \in A /\ \A k \in 1..Steps : f[k - 1] \in A => f[k] \in A
      BY <2>1, <2>2 DEF f
    <2>4. \A k \in 0..Steps : f[k] \in A
      BY <2>3, <1>1, StaysWithin
    <2> QED BY <2>4 DEF f
  <1> QED BY <1>1, <1>13, <1>14, <1>15 DEF base, A

\* The references the security handler follows as it is built are among those
\* that keep an object out of the containers, however few objects there are.
LEMMA HandlersReach ==
    ASSUME IsDoc(doc)
    PROVE  EncryptValues \subseteq EncryptReachable /\ EncryptReachable \subseteq Numbers
  <1> DEFINE K == Cardinality(Numbers)
  <1>1. K \in Nat /\ Steps = K + 3
    BY ReachFacts DEF Steps
  <1> DEFINE R(k) == Reach[k]
  <1>2. R(0) = {doc.encryptAt} \cap Numbers
    BY ReachFacts
  <1>3. \A k \in 1..Steps : R(k) = Further(R(k - 1))
    BY ReachFacts
  <1>4. \A k \in 0..Steps : R(k) \subseteq Numbers
    BY ReachFacts
  <1>5. R(K) \subseteq Numbers
    <2>1. K \in 0..Steps
      BY <1>1
    <2> QED BY <1>4, <2>1
  <1>6. IsFiniteSet(Numbers)
    BY DocFacts
  <1> HIDE DEF K, R
  <1>7. R(3) \subseteq R(K)
    <2>1. /\ 1 \in 1..Steps /\ 2 \in 1..Steps /\ 3 \in 1..Steps
          /\ 0 \in 0..Steps /\ 1 \in 0..Steps /\ 2 \in 0..Steps
      BY <1>1
    <2>2. R(1) = Further(R(0)) /\ R(2) = Further(R(1)) /\ R(3) = Further(R(2))
      <3>1. 1 - 1 = 0 /\ 2 - 1 = 1 /\ 3 - 1 = 2
        OBVIOUS
      <3> QED BY <1>3, <2>1, <3>1
    <2>3. \A s : s \subseteq Further(s)
      BY DEF Further
    <2>4. CASE K >= 3
      <3>1. \A k \in 0..(K - 3) : R(3) \subseteq R(k + 3)
        <4> DEFINE f == [k \in 0..(K - 3) |-> R(k + 3)]
                   A == {s \in SUBSET Numbers : R(3) \subseteq s}
        <4>1. K - 3 \in Nat
          BY <1>1, <2>4
        <4>2. f[0] \in A
          BY <4>1, <1>4, <1>1
        <4>3. \A k \in 1..(K - 3) : f[k - 1] \in A => f[k] \in A
          <5> TAKE k \in 1..(K - 3)
          <5>1. f[k - 1] = R(k + 2) /\ f[k] = R(k + 3)
            BY <4>1
          <5>2. k + 3 \in 1..Steps /\ k + 3 \in 0..Steps /\ (k + 3) - 1 = k + 2
            BY <1>1, <2>4
          <5>3. R(k + 3) = Further(R(k + 2))
            BY <1>3, <5>2
          <5>4. R(k + 3) \subseteq Numbers
            BY <1>4, <5>2
          <5> HIDE DEF f
          <5> QED BY <5>1, <5>3, <5>4, <2>3
        <4>4. \A k \in 0..(K - 3) : f[k] = R(k + 3)
          OBVIOUS
        <4> HIDE DEF f, A
        <4>5. \A k \in 0..(K - 3) : f[k] \in A
          BY <4>1, <4>2, <4>3, StaysWithin
        <4> QED BY <4>4, <4>5 DEF A
      <3>2. K - 3 \in 0..(K - 3) /\ (K - 3) + 3 = K
        BY <1>1, <2>4
      <3> QED BY <3>1, <3>2
    <2>5. CASE K = 0
      <3>1. Numbers = {}
        BY <1>6, <2>5, FS_EmptySet DEF K
      <3> QED BY <3>1, <1>4, <1>1
    <2> DEFINE e == doc.encryptAt
    <2>6. CASE R(0) = {}
      <3>1. Further({}) = {}
        BY DEF Further
      <3> QED BY <2>2, <2>6, <3>1
    <2>7. CASE K = 1 /\ R(0) # {}
      <3>1. e \in Numbers /\ R(0) = {e}
        BY <1>2, <2>7
      <3>2. Numbers = {e}
        <4>1. IsFiniteSet({e}) /\ Cardinality({e}) = 1 /\ {e} \in SUBSET Numbers
          BY <3>1, FS_Singleton
        <4> QED BY <4>1, <1>6, <2>7, FS_Subset DEF K
      <3>3. R(3) \subseteq {e} /\ R(1) = {e}
        BY <1>4, <2>1, <2>2, <2>3, <3>1, <3>2, <1>1
      <3> QED BY <3>3, <2>7
    <2>8. CASE K = 2 /\ R(0) # {}
      <3>1. R(0) \subseteq R(1) /\ R(1) \subseteq R(2) /\ R(2) \subseteq R(3)
        BY <2>2, <2>3
      <3>2. CASE R(1) = R(0)
        <4>1. R(2) = R(1) /\ R(3) = R(2)
          BY <2>2, <3>2
        <4> QED BY <4>1, <2>8
      <3>3. CASE R(1) # R(0)
        <4>1. PICK b \in R(1) : b \notin R(0)
          BY <3>1, <3>3
        <4>2. e \in Numbers /\ R(0) = {e} /\ b # e /\ b \in Numbers
          BY <1>2, <2>8, <4>1, <1>4, <2>1
        <4>3. Numbers = {e, b}
          <5>1. IsFiniteSet({e}) /\ Cardinality({e}) = 1
            BY FS_Singleton
          <5>2. IsFiniteSet({e} \cup {b}) /\ Cardinality({e} \cup {b}) = Cardinality({e}) + 1
            BY <5>1, <4>2, FS_AddElement
          <5>3. {e} \cup {b} = {e, b} /\ {e, b} \in SUBSET Numbers
            BY <4>2
          <5>4. IsFiniteSet({e, b}) /\ Cardinality({e, b}) = Cardinality(Numbers)
            BY <5>1, <5>2, <5>3, <2>8 DEF K
          <5> QED BY <5>3, <5>4, <1>6, FS_Subset
        <4>4. {e, b} \subseteq R(1)
          BY <4>1, <4>2, <3>1
        <4> QED BY <2>8, <3>1, <4>3, <4>4, <1>4, <2>1, <1>1
      <3> QED BY <3>2, <3>3
    <2>9. K >= 3 \/ K = 0 \/ K = 1 \/ K = 2
      BY <1>1
    <2> QED BY <2>4, <2>5, <2>6, <2>7, <2>8, <2>9
  <1> QED BY <1>5, <1>7 DEF R, K, EncryptValues, EncryptReachable

\* What is packed, in bytes, object by object.
Sums(chunk, u) ==
    u = [i \in 0..Len(chunk) |-> IF i = 0 THEN 0 ELSE u[i - 1] + Cost(chunk[i])]

LEMMA SumsFacts ==
    ASSUME IsDoc(doc), NEW chunk \in Seq(Numbers), NEW u, Sums(chunk, u)
    PROVE  /\ u[0] = 0
           /\ \A i \in 1..Len(chunk) : u[i] = u[i - 1] + Cost(chunk[i])
           /\ \A i \in 0..Len(chunk) : u[i] \in Nat
  <1>1. \A i \in 0..Len(chunk) : u[i] = IF i = 0 THEN 0 ELSE u[i - 1] + Cost(chunk[i])
    BY Zenon DEF Sums
  <1>2. Len(chunk) \in Nat /\ \A i \in 1..Len(chunk) : chunk[i] \in Numbers
    OBVIOUS
  <1>3. \A n \in Numbers : Cost(n) \in Nat
    BY DocFacts DEF Cost
  <1>4. u[0] = 0
    BY <1>1, <1>2
  <1>5. \A i \in 1..Len(chunk) : u[i] = u[i - 1] + Cost(chunk[i])
    BY <1>1, <1>2
  <1>6. \A i \in 1..Len(chunk) : Cost(chunk[i]) \in Nat
    BY <1>2, <1>3
  <1>7. \A i \in 1..Len(chunk) : u[i - 1] \in Nat => u[i] \in Nat
    BY <1>5, <1>6
  <1>8. \A i \in 0..Len(chunk) : u[i] \in Nat
    <2> DEFINE m == Len(chunk)
               A == Nat
    <2>1. m \in Nat /\ u[0] \in A /\ \A i \in 1..m : u[i - 1] \in A => u[i] \in A
      BY <1>2, <1>4, <1>7
    <2> HIDE DEF m, A
    <2>2. \A i \in 0..m : u[i] \in A
      BY <2>1, StaysWithin
    <2> QED BY <2>2 DEF m, A
  <1> QED BY <1>4, <1>5, <1>8

\* A container has the size its objects add up to.
LEMMA SizeFacts ==
    ASSUME IsDoc(doc), NEW chunk \in Seq(Numbers)
    PROVE  \E u : Sums(chunk, u) /\ ContainerSize(chunk) = u[Len(chunk)]
  <1> DEFINE m == Len(chunk)
             adding(i) == [x \in Nat |-> x + Cost(chunk[i])]
             step == [i \in 1..m |-> adding(i)]
  <1>1. m \in Nat /\ \A i \in 1..m : chunk[i] \in Numbers
    OBVIOUS
  <1>2. \A i \in 1..m : Cost(chunk[i]) \in Nat
    BY <1>1, DocFacts DEF Cost
  <1> HIDE DEF m
  <1>3. \A i \in 1..m : step[i] = adding(i)
    OBVIOUS
  <1>4. \A i \in 1..m : adding(i) \in [Nat -> Nat]
    BY <1>2
  <1>5. \A i \in 1..m : \A x \in Nat : step[i][x] = x + Cost(chunk[i])
    BY <1>3
  <1>6. Within(m, Nat, step)
    BY <1>3, <1>4 DEF Within
  <1> HIDE DEF step, adding
  <1>7. PICK g : Iterates(m, Nat, 0, step, g)
    <2>1. 0 \in Nat
      OBVIOUS
    <2> QED BY <1>1, <1>6, <2>1, Iterated
  <1>8. \A i \in 0..m : g[i] = IF i = 0 THEN 0 ELSE g[i - 1] + Cost(chunk[i])
    <2> TAKE i \in 0..m
    <2>1. CASE i = 0
      BY <1>7, <2>1 DEF Iterates
    <2>2. CASE i # 0
      <3>1. i \in 1..m /\ i - 1 \in 0..m
        BY <1>1, <2>2
      <3>2. g[i - 1] \in Nat /\ g[i] = step[i][g[i - 1]]
        BY <1>7, <3>1 DEF Iterates
      <3> QED BY <1>5, <2>2, <3>1, <3>2
    <2> QED BY <2>1, <2>2
  <1>9. Sums(chunk, g)
    <2>1. g = [i \in 0..m |-> g[i]]
      BY <1>7 DEF Iterates
    <2>2. [i \in 0..m |-> g[i]] =
            [i \in 0..m |-> IF i = 0 THEN 0 ELSE g[i - 1] + Cost(chunk[i])]
      BY <1>8, Zenon
    <2> QED BY <2>1, <2>2, Zenon DEF Sums, m
  <1>10. ContainerSize(chunk) = (CHOOSE u : Sums(chunk, u))[Len(chunk)]
    BY DEF ContainerSize, Sums
  <1> QED BY <1>9, <1>10, Zenon

\* One more object adds what it costs.
LEMMA SizeOfOneMore ==
    ASSUME IsDoc(doc), NEW chunk \in Seq(Numbers), NEW n \in Numbers
    PROVE  /\ ContainerSize(Append(chunk, n)) = ContainerSize(chunk) + Cost(n)
           /\ ContainerSize(chunk) \in Nat
           /\ chunk = <<>> => ContainerSize(chunk) = 0
  <1> DEFINE more == Append(chunk, n)
             m == Len(chunk)
  <1>1. /\ m \in Nat /\ more \in Seq(Numbers) /\ Len(more) = m + 1
        /\ more[m + 1] = n /\ \A i \in 1..m : more[i] = chunk[i]
        /\ chunk = <<>> => m = 0
    OBVIOUS
  <1>2. PICK u : Sums(chunk, u) /\ ContainerSize(chunk) = u[m]
    BY SizeFacts
  <1>3. PICK v : Sums(more, v) /\ ContainerSize(more) = v[Len(more)]
    BY <1>1, SizeFacts
  <1>4. /\ u[0] = 0 /\ \A i \in 1..m : u[i] = u[i - 1] + Cost(chunk[i])
        /\ \A i \in 0..m : u[i] \in Nat
    BY <1>2, SumsFacts
  <1>5. v[0] = 0 /\ \A i \in 1..Len(more) : v[i] = v[i - 1] + Cost(more[i])
    BY <1>1, <1>3, SumsFacts
  <1> HIDE DEF more, m
  <1>6. \A i \in 0..m : v[i] = u[i]
    <2> DEFINE f == [i \in 0..m |-> IF v[i] = u[i] THEN 1 ELSE 2]
               A == {1}
    <2>1. f[0] \in A
      BY <1>1, <1>4, <1>5
    <2>2. \A i \in 1..m : f[i - 1] \in A => f[i] \in A
      <3> TAKE i \in 1..m
      <3>1. i - 1 \in 0..m /\ i \in 0..m /\ i \in 1..Len(more)
        BY <1>1
      <3>2. v[i] = v[i - 1] + Cost(chunk[i]) /\ u[i] = u[i - 1] + Cost(chunk[i])
        BY <1>1, <1>4, <1>5, <3>1
      <3>3. f[i - 1] = (IF v[i - 1] = u[i - 1] THEN 1 ELSE 2)
            /\ f[i] = (IF v[i] = u[i] THEN 1 ELSE 2)
        BY <3>1
      <3> QED BY <3>2, <3>3
    <2>3. \A i \in 0..m : f[i] = IF v[i] = u[i] THEN 1 ELSE 2
      OBVIOUS
    <2> HIDE DEF f, A
    <2>4. \A i \in 0..m : f[i] \in A
      BY <1>1, <2>1, <2>2, StaysWithin
    <2> QED BY <2>3, <2>4 DEF A
  <1>7. v[m + 1] = v[m] + Cost(n)
    <2>1. m + 1 \in 1..Len(more) /\ (m + 1) - 1 = m
      BY <1>1
    <2> QED BY <1>1, <1>5, <2>1
  <1>8. m \in 0..m /\ (m = 0 => u[m] = 0)
    BY <1>1, <1>4
  <1> QED BY <1>1, <1>2, <1>3, <1>4, <1>6, <1>7, <1>8 DEF more

\* A container, or a part of one, that a reader can decode.
Fits(chunk) == chunk \in Seq(Packable) /\ ContainerSize(chunk) <= 2 * ContainerMax

\* How far the packing has come.
Packing ==
    {acc \in [full : Seq(Seq(Packable)), chunk : Seq(Packable), bytes : Nat] :
        /\ \A c \in 1..Len(acc.full) : Fits(acc.full[c])
        /\ Fits(acc.chunk) /\ acc.bytes = ContainerSize(acc.chunk)}

PackingStarts == [full |-> <<>>, chunk |-> <<>>, bytes |-> 0]

LEMMA PackableFacts ==
    ASSUME IsDoc(doc)
    PROVE  /\ Packable \subseteq Numbers
           /\ Packable \cap (Streams \cup LengthTargets \cup EncryptReachable) = {}
           /\ \A n \in Packable : Object(n).gen = 0 /\ Object(n).kind # "signature"
           /\ Streams \subseteq Numbers
           /\ \A n \in Packable : Cost(n) \in Nat /\ Cost(n) = Object(n).size + IndexCost
                                  /\ Object(n).size \in Nat
  <1>1. Packable \subseteq Numbers
        /\ Packable \cap (Streams \cup LengthTargets \cup EncryptReachable) = {}
        /\ \A n \in Packable : Object(n).gen = 0 /\ Object(n).kind # "signature"
    BY DEF Packable
  <1>2. Streams \subseteq Numbers
    BY DEF Streams
  <1>3. \A n \in Packable : Cost(n) \in Nat /\ Cost(n) = Object(n).size + IndexCost
                            /\ Object(n).size \in Nat
    BY <1>1, DocFacts DEF Cost
  <1> QED BY <1>1, <1>2, <1>3

\* A container with nothing in it fits.
LEMMA EmptyFits ==
    ASSUME IsDoc(doc), Packable # {}
    PROVE  Fits(<<>>) /\ ContainerSize(<<>>) = 0
  <1>1. PICK n \in Packable : TRUE
    OBVIOUS
  <1>2. n \in Numbers /\ <<>> \in Seq(Numbers) /\ <<>> \in Seq(Packable)
    BY <1>1, PackableFacts
  <1>3. ContainerSize(<<>>) = 0
    BY <1>2, SizeOfOneMore
  <1>4. ContainerMax \in Nat
    BY DocFacts
  <1>5. 0 <= 2 * ContainerMax
    BY <1>4
  <1> QED BY <1>2, <1>3, <1>5 DEF Fits

\* One object more leaves what fits fitting: what would be too much goes into the
\* next container, and a container of one object fits with its index.
LEMMA PacksOne ==
    ASSUME IsDoc(doc), NEW acc \in Packing, NEW n \in Packable
    PROVE  Chunked(acc, n) \in Packing
  <1> DEFINE c == Cost(n)
             s == Object(n).size
  <1>1. /\ acc \in [full : Seq(Seq(Packable)), chunk : Seq(Packable), bytes : Nat]
        /\ \A i \in 1..Len(acc.full) : Fits(acc.full[i])
        /\ Fits(acc.chunk) /\ acc.bytes = ContainerSize(acc.chunk)
    BY DEF Packing
  <1>2. /\ n \in Numbers /\ c \in Nat /\ s \in Nat /\ c = s + IndexCost
        /\ IndexCost \in Nat /\ ContainerMax \in Nat
        /\ Seq(Packable) \subseteq Seq(Numbers)
    BY PackableFacts, DocFacts
  <1>3. IndexCost <= ContainerMax
    BY RoomAssumption
  <1> HIDE DEF c, s
  <1>4. CASE s >= ContainerMax
    BY <1>4 DEF Chunked, s
  <1>5. CASE ~(s >= ContainerMax) /\ acc.bytes + c >= ContainerMax /\ acc.chunk # <<>>
    <2> DEFINE f == Append(acc.full, acc.chunk)
               new == [full |-> f, chunk |-> <<n>>, bytes |-> c]
    <2>1. Chunked(acc, n) = new
      BY <1>5 DEF Chunked, s, c
    <2>2. f \in Seq(Seq(Packable)) /\ \A i \in 1..Len(f) : Fits(f[i])
      <3>1. acc.full \in Seq(Seq(Packable)) /\ acc.chunk \in Seq(Packable)
        BY <1>1
      <3>2. \A i \in 1..Len(f) : f[i] = IF i <= Len(acc.full) THEN acc.full[i] ELSE acc.chunk
        BY <3>1
      <3>3. f \in Seq(Seq(Packable)) /\ Len(acc.full) \in Nat
        BY <3>1
      <3>4. Len(f) \in Nat
        BY <3>3
      <3> HIDE DEF f
      <3> QED BY <1>1, <3>2, <3>3, <3>4
    <2>3. ContainerSize(<<n>>) = c
      <3>1. <<>> \in Seq(Numbers) /\ Append(<<>>, n) = <<n>>
        OBVIOUS
      <3>2. ContainerSize(Append(<<>>, n)) = ContainerSize(<<>>) + c
            /\ ContainerSize(<<>>) = 0
        BY <1>2, <3>1, SizeOfOneMore DEF c
      <3> QED BY <1>2, <3>1, <3>2
    <2>4. Fits(<<n>>)
      <3>1. c <= 2 * ContainerMax
        BY <1>2, <1>3, <1>5
      <3>2. <<n>> \in Seq(Packable)
        OBVIOUS
      <3> QED BY <2>3, <3>1, <3>2 DEF Fits
    <2>5. new \in [full : Seq(Seq(Packable)), chunk : Seq(Packable), bytes : Nat]
      <3>1. <<n>> \in Seq(Packable)
        OBVIOUS
      <3> HIDE DEF f
      <3> QED BY <1>2, <2>2, <3>1
    <2>6. new.full = f /\ new.chunk = <<n>> /\ new.bytes = c
      OBVIOUS
    <2> HIDE DEF new, f
    <2>7. new \in Packing
      BY <2>2, <2>3, <2>4, <2>5, <2>6 DEF Packing
    <2> QED BY <2>1, <2>7
  <1>6. CASE ~(s >= ContainerMax) /\ ~(acc.bytes + c >= ContainerMax /\ acc.chunk # <<>>)
    <2> DEFINE f == Append(acc.chunk, n)
               new == [acc EXCEPT !.chunk = f, !.bytes = acc.bytes + c]
    <2>1. Chunked(acc, n) = new
      BY <1>6 DEF Chunked, s, c
    <2>2. f \in Seq(Packable) /\ acc.chunk \in Seq(Numbers) /\ acc.bytes \in Nat
      BY <1>1, <1>2
    <2>3. /\ ContainerSize(f) = acc.bytes + c
          /\ acc.chunk = <<>> => acc.bytes = 0
      BY <1>1, <1>2, <2>2, SizeOfOneMore DEF c
    <2> HIDE DEF f
    <2>4. acc.bytes + c <= 2 * ContainerMax
      <3>1. acc.bytes + c < ContainerMax \/ acc.bytes = 0
        BY <1>2, <1>6, <2>2, <2>3
      <3> DEFINE b == acc.bytes
      <3> HIDE DEF b
      <3>2. b \in Nat /\ (b + c < ContainerMax \/ b = 0)
        BY <2>2, <3>1 DEF b
      <3>3. b + c <= 2 * ContainerMax
        BY <1>2, <1>3, <1>6, <3>2
      <3> QED BY <3>3 DEF b
    <2>5. Fits(f)
      BY <2>2, <2>3, <2>4 DEF Fits
    <2>6. /\ new \in [full : Seq(Seq(Packable)), chunk : Seq(Packable), bytes : Nat]
          /\ new.full = acc.full /\ new.chunk = f /\ new.bytes = acc.bytes + c
      <3> DEFINE F == Seq(Seq(Packable))
                 C == Seq(Packable)
                 b == acc.bytes + c
      <3>1. acc \in [full : F, chunk : C, bytes : Nat] /\ f \in C /\ b \in Nat
        BY <1>1, <1>2, <2>2
      <3> HIDE DEF F, C, b
      <3>2. new = [acc EXCEPT !.chunk = f, !.bytes = b]
        BY DEF b
      <3> HIDE DEF new
      <3>3. new \in [full : F, chunk : C, bytes : Nat]
        BY <3>1, <3>2
      <3>4. new.full = acc.full /\ new.chunk = f /\ new.bytes = b
        BY <3>1, <3>2
      <3> QED BY <3>3, <3>4 DEF F, C, b
    <2> HIDE DEF new
    <2>7. new \in Packing
      BY <1>1, <2>3, <2>5, <2>6 DEF Packing
    <2> QED BY <2>1, <2>7
  <1> QED BY <1>4, <1>5, <1>6

Packs(f) ==
    f = [k \in 0..Highest |->
            IF k = 0 THEN PackingStarts
            ELSE IF k \in Packable THEN Chunked(f[k - 1], k)
            ELSE f[k - 1]]

\* Every container of a document fits, and holds what may be packed.
LEMMA ChunksFit ==
    ASSUME IsDoc(doc)
    PROVE  Chunks \in Seq(Seq(Packable)) /\ \A c \in 1..Len(Chunks) : Fits(Chunks[c])
  <1> DEFINE none == <<>>
  <1>1. CASE ~doc.xrefStream \/ Locked \/ Cardinality(Packable) < 2
    <2>1. Chunks = none
      BY <1>1 DEF Chunks
    <2>2. none \in Seq(Seq(Packable)) /\ Len(none) = 0
      OBVIOUS
    <2> QED BY <2>1, <2>2
  <1>2. CASE ~(~doc.xrefStream \/ Locked \/ Cardinality(Packable) < 2)
    <2>1. Packable # {}
      <3>1. SUFFICES ASSUME Packable = {} PROVE FALSE
        OBVIOUS
      <3>2. Cardinality({}) = 0
        BY FS_EmptySet
      <3> QED BY <1>2, <3>1, <3>2
    <2>2. PackingStarts \in Packing
      <3>1. Fits(<<>>) /\ ContainerSize(<<>>) = 0
        BY <2>1, EmptyFits
      <3>2. /\ PackingStarts \in [full : Seq(Seq(Packable)), chunk : Seq(Packable), bytes : Nat]
            /\ PackingStarts.full = <<>> /\ PackingStarts.chunk = <<>>
            /\ PackingStarts.bytes = 0 /\ Len(PackingStarts.full) = 0
        BY DEF PackingStarts
      <3> QED BY <3>1, <3>2 DEF Packing
    <2> DEFINE on(k) == [acc \in Packing |-> IF k \in Packable THEN Chunked(acc, k) ELSE acc]
               step == [k \in 1..Highest |-> on(k)]
    <2>3. Highest \in Nat
      BY DocFacts
    <2>4. \A k \in 1..Highest : step[k] = on(k)
      OBVIOUS
    <2>5. \A k \in 1..Highest : on(k) \in [Packing -> Packing]
      BY PacksOne
    <2>6. Within(Highest, Packing, step)
      BY <2>4, <2>5 DEF Within
    <2>7. \A k \in 1..Highest : \A acc \in Packing :
            step[k][acc] = IF k \in Packable THEN Chunked(acc, k) ELSE acc
      BY <2>4
    <2> HIDE DEF step, on
    <2>8. PICK g : Iterates(Highest, Packing, PackingStarts, step, g)
      BY <2>2, <2>3, <2>6, Iterated
    <2>9. \A k \in 0..Highest :
            g[k] = IF k = 0 THEN PackingStarts
                   ELSE IF k \in Packable THEN Chunked(g[k - 1], k) ELSE g[k - 1]
      <3> TAKE k \in 0..Highest
      <3>1. CASE k = 0
        BY <2>8, <3>1 DEF Iterates
      <3>2. CASE k # 0
        <4>1. k \in 1..Highest /\ k - 1 \in 0..Highest
          BY <2>3, <3>2
        <4>2. g[k - 1] \in Packing /\ g[k] = step[k][g[k - 1]]
          BY <2>8, <4>1 DEF Iterates
        <4> QED BY <2>7, <3>2, <4>1, <4>2
      <3> QED BY <3>1, <3>2
    <2>10. Packs(g)
      <3>1. g = [k \in 0..Highest |-> g[k]]
        BY <2>8 DEF Iterates
      <3>2. [k \in 0..Highest |-> g[k]] =
              [k \in 0..Highest |-> IF k = 0 THEN PackingStarts
                   ELSE IF k \in Packable THEN Chunked(g[k - 1], k) ELSE g[k - 1]]
        BY <2>9, Zenon
      <3> QED BY <3>1, <3>2, Zenon DEF Packs
    <2>11. Chunking = CHOOSE f : Packs(f)
      BY DEF Chunking, Packs, PackingStarts
    <2>12. Packs(Chunking)
      BY <2>10, <2>11, Zenon
    <2>13. \A k \in 0..Highest :
             Chunking[k] = IF k = 0 THEN PackingStarts
                           ELSE IF k \in Packable THEN Chunked(Chunking[k - 1], k)
                           ELSE Chunking[k - 1]
      BY <2>12, Zenon DEF Packs
    <2>14. Chunking[Highest] \in Packing
      <3> DEFINE f == Chunking
                 A == Packing
                 m == Highest
      <3>1. f[0] \in A
        BY <2>2, <2>3, <2>13
      <3>2. \A k \in 1..m : f[k - 1] \in A => f[k] \in A
        <4> TAKE k \in 1..m
        <4>1. k \in 0..Highest /\ k # 0
          BY <2>3
        <4>2. f[k] = IF k \in Packable THEN Chunked(f[k - 1], k) ELSE f[k - 1]
          BY <2>13, <4>1
        <4> HIDE DEF f
        <4> QED BY <4>2, PacksOne
      <3>3. m \in Nat /\ m \in 0..m
        BY <2>3
      <3> HIDE DEF f, A, m
      <3>4. \A k \in 0..m : f[k] \in A
        BY <3>1, <3>2, <3>3, StaysWithin
      <3>5. f[m] \in A
        BY <3>3, <3>4
      <3> QED BY <3>5 DEF f, A, m
    <2> DEFINE all == Chunking[Highest]
    <2>15. Chunks = IF all.chunk = <<>> THEN all.full ELSE Append(all.full, all.chunk)
      BY <1>2 DEF Chunks
    <2>16. all \in Packing
      BY <2>14
    <2> HIDE DEF all
    <2>17. /\ all.full \in Seq(Seq(Packable)) /\ all.chunk \in Seq(Packable)
           /\ \A c \in 1..Len(all.full) : Fits(all.full[c])
           /\ Fits(all.chunk)
      BY <2>16 DEF Packing
    <2> DEFINE f == all.full
               e == all.chunk
    <2>18. /\ f \in Seq(Seq(Packable)) /\ e \in Seq(Packable)
           /\ \A c \in 1..Len(f) : Fits(f[c])
           /\ Fits(e)
           /\ Chunks = f \/ Chunks = Append(f, e)
      BY <2>15, <2>17
    <2> HIDE DEF f, e
    <2>19. /\ Append(f, e) \in Seq(Seq(Packable)) /\ Len(f) \in Nat
           /\ Len(Append(f, e)) = Len(f) + 1
           /\ \A c \in 1..(Len(f) + 1) : Append(f, e)[c] = IF c <= Len(f) THEN f[c] ELSE e
      BY <2>18
    <2>20. CASE Chunks = f
      BY <2>18, <2>20
    <2>21. CASE Chunks = Append(f, e)
      BY <2>18, <2>19, <2>21
    <2> QED BY <2>18, <2>20, <2>21
  <1> QED BY <1>1, <1>2

-----------------------------------------------------------------------------
(* The numbers of what is written.                                           *)

\* Containers have numbers of their own, past the objects'; what is packed may
\* be, and what the security handler reads, the streams and their lengths are not.
LEMMA WriteSetFacts ==
    ASSUME IsDoc(doc)
    PROVE  /\ Len(Chunks) \in Nat
           /\ \A c \in 1..Len(Chunks) : /\ ContainerNum(c) \in Nat \ Numbers
                                        /\ ContainerNum(c) > Highest
                                        /\ ChunkOf(ContainerNum(c)) = Chunks[c]
           /\ Packed \subseteq Packable /\ Packed \cap WriteSet = {}
           /\ Numbers \subseteq WriteSet \cup Packed
           /\ WriteSet \subseteq Nat /\ IsFiniteSet(WriteSet)
           /\ EncryptValues \subseteq Numbers \cap WriteSet
           /\ Streams \subseteq WriteSet
           /\ Numbers \cap LengthTargets \subseteq WriteSet
           /\ MaxObj \in Nat /\ \A n \in WriteSet \cup Packed : n <= MaxObj
  <1> USE DocFacts, PackableFacts
  <1>1. Chunks \in Seq(Seq(Packable)) /\ \A c \in 1..Len(Chunks) : Fits(Chunks[c])
    BY ChunksFit
  <1>2. Len(Chunks) \in Nat /\ \A c \in 1..Len(Chunks) : Chunks[c] \in Seq(Packable)
    BY <1>1
  <1>3. ASSUME NEW c \in 1..Len(Chunks)
        PROVE  /\ ContainerNum(c) \in Nat \ Numbers
               /\ ContainerNum(c) > Highest
               /\ ChunkOf(ContainerNum(c)) = Chunks[c]
    <2>1. Highest \in Nat /\ c \in Nat /\ c > 0
      BY <1>2
    <2>2. ContainerNum(c) = Highest + c /\ ContainerNum(c) \in Nat /\ ContainerNum(c) > Highest
      BY <2>1 DEF ContainerNum
    <2>3. ContainerNum(c) \notin Numbers
      BY <2>1, <2>2
    <2>4. ContainerNum(c) - Highest = c
      BY <2>1, <2>2
    <2> QED BY <2>2, <2>3, <2>4 DEF ChunkOf
  <1>4. Packed \subseteq Packable
    <2> SUFFICES ASSUME NEW n \in Packed PROVE n \in Packable
      OBVIOUS
    <2>1. PICK c \in 1..Len(Chunks) : n \in ToSet(Chunks[c])
      BY DEF Packed
    <2>2. Chunks[c] \in Seq(Packable)
      BY <1>2
    <2> DEFINE s == Chunks[c]
    <2>3. s \in Seq(Packable) /\ n \in ToSet(s)
      BY <2>1, <2>2
    <2> HIDE DEF s
    <2> QED BY <2>3 DEF ToSet
  <1>5. \A n \in Containers : n \in Nat \ Numbers /\ n > Highest
    BY <1>3 DEF Containers
  <1>6. Packed \cap WriteSet = {}
    BY <1>4, <1>5 DEF WriteSet
  <1>7. Numbers \subseteq WriteSet \cup Packed
    BY DEF WriteSet
  <1>8. WriteSet \subseteq Nat
    BY <1>5 DEF WriteSet
  <1>9. IsFiniteSet(WriteSet)
    <2>1. IsFiniteSet(Numbers \ Packed)
      <3>1. Numbers \ Packed \in SUBSET Numbers
        OBVIOUS
      <3> QED BY <3>1, FS_Subset
    <2>2. IsFiniteSet(Containers)
      <3>1. IsFiniteSet(1..Len(Chunks))
        BY <1>2, FS_Interval
      <3> DEFINE I == 1..Len(Chunks)
                 f == [c \in I |-> ContainerNum(c)]
      <3>2. IsFiniteSet({f[c] : c \in I})
        BY <3>1, FiniteImage
      <3>3. {f[c] : c \in I} = Containers
        BY DEF Containers
      <3> QED BY <3>2, <3>3, Zenon
    <2> QED BY <2>1, <2>2, FS_Union DEF WriteSet
  <1>10. EncryptValues \subseteq Numbers \cap WriteSet
    <2>1. EncryptValues \subseteq EncryptReachable /\ EncryptReachable \subseteq Numbers
      BY HandlersReach
    <2> QED BY <2>1, <1>4, <1>7
  <1>11. Streams \subseteq WriteSet
    BY <1>4, <1>7
  <1>12. Numbers \cap LengthTargets \subseteq WriteSet
    BY <1>4, <1>7
  <1>13. MaxObj \in Nat /\ \A n \in WriteSet : n <= MaxObj
    <2> DEFINE S == {0} \cup WriteSet
    <2>1. S \in SUBSET Nat /\ S # {}
      BY <1>8
    <2>2. IsFiniteSet(S)
      <3>1. IsFiniteSet(WriteSet \cup {0})
        BY <1>9, FS_AddElement
      <3>2. WriteSet \cup {0} = S
        OBVIOUS
      <3> QED BY <3>1, <3>2, Zenon
    <2> HIDE DEF S
    <2>3. Max(S) \in S /\ \A y \in S : Max(S) >= y
      BY <2>1, <2>2, Greatest
    <2>4. MaxObj = Max(S)
      BY DEF MaxObj, S
    <2>5. MaxObj \in Nat /\ \A y \in S : y \in Nat /\ MaxObj >= y
      BY <2>1, <2>3, <2>4
    <2>6. \A y \in S : y <= MaxObj
      BY <2>5
    <2> QED BY <2>5, <2>6 DEF S
  <1>14. \A n \in Packed : n <= MaxObj
    <2> TAKE n \in Packed
    <2>1. PICK c \in 1..Len(Chunks) : n \in ToSet(Chunks[c])
      BY DEF Packed
    <2>2. ContainerNum(c) \in WriteSet
      BY DEF WriteSet, Containers
    <2>3. ContainerNum(c) <= MaxObj /\ ContainerNum(c) \in Nat /\ ContainerNum(c) > Highest
      BY <1>3, <1>13, <2>2
    <2>4. n \in Numbers /\ n \in Nat /\ n <= Highest /\ Highest \in Nat
      BY <1>4
    <2> QED BY <1>13, <2>3, <2>4
  <1> QED
    BY <1>2, <1>3, <1>4, <1>6, <1>7, <1>8, <1>9, <1>10, <1>11, <1>12, <1>13, <1>14

\* A document that is not refused is whole, and tells one length of each stream.
LEMMA NotRefused ==
    ASSUME IsDoc(doc), ~Refused
    PROVE  /\ ~doc.atRisk /\ 0 \notin Numbers /\ doc.lost = {} /\ doc.undecrypted = {}
           /\ \A n \in Streams : LET t == Object(n).lengthAt
                                 IN  t \in Numbers => LengthsFor(t) = {DataLength(n)}
           /\ \A n \in Streams : DataLength(n) \in Nat
           /\ \A n \in Numbers \ LengthTargets : LengthsFor(n) = {}
  <1>1. /\ ~doc.atRisk /\ 0 \notin Numbers /\ doc.lost = {} /\ doc.undecrypted = {}
        /\ \A n \in LengthTargets : ~(Cardinality(LengthsFor(n)) > 1)
    BY DEF Refused
  <1>2. \A n \in Streams : DataLength(n) \in Nat
    <2> TAKE n \in Streams
    <2>1. n \in Numbers
      BY PackableFacts
    <2>2. Object(n).size \in Nat /\ Padding \in Nat
      BY <2>1, DocFacts
    <2> QED BY <2>2 DEF DataLength
  <1>3. ASSUME NEW n \in Streams, Object(n).lengthAt \in Numbers
        PROVE  LengthsFor(Object(n).lengthAt) = {DataLength(n)}
    <2> DEFINE t == Object(n).lengthAt
               S == LengthsFor(t)
               T == {s \in Streams : Object(s).lengthAt = t}
    <2>1. t \in LengthTargets
      BY <1>1, <1>3 DEF LengthTargets
    <2>2. DataLength(n) \in S
      BY DEF LengthsFor
    <2>3. IsFiniteSet(S)
      <3>1. IsFiniteSet(T)
        <4>1. IsFiniteSet(Numbers) /\ T \in SUBSET Numbers
          BY DocFacts, PackableFacts
        <4> HIDE DEF T
        <4> QED BY <4>1, FS_Subset
      <3> DEFINE f == [s \in T |-> DataLength(s)]
      <3>2. IsFiniteSet({f[s] : s \in T})
        <4> HIDE DEF T
        <4> QED BY <3>1, FiniteImage
      <3>3. {f[s] : s \in T} = S
        BY DEF LengthsFor
      <3> QED BY <3>2, <3>3, Zenon
    <2>4. ~(Cardinality(S) > 1)
      BY <1>1, <2>1
    <2> HIDE DEF S
    <2>5. Cardinality(S) \in Nat
      BY <2>3, FS_CardinalityType
    <2> DEFINE d == DataLength(n)
    <2> HIDE DEF d
    <2>6. IsFiniteSet({d}) /\ Cardinality({d}) = 1 /\ {d} \in SUBSET S
      BY <2>2, FS_Singleton DEF d
    <2>7. Cardinality({d}) <= Cardinality(S) /\ (Cardinality(S) = Cardinality({d}) => S = {d})
      BY <2>3, <2>6, FS_Subset
    <2> QED BY <2>4, <2>5, <2>6, <2>7 DEF S, d
  <1>4. ASSUME NEW n \in Numbers \ LengthTargets
        PROVE  LengthsFor(n) = {}
    <2>1. \A s \in Streams : Object(s).lengthAt # n
      BY <1>1 DEF LengthTargets
    <2> QED BY <2>1 DEF LengthsFor
  <1> QED BY <1>1, <1>2, <1>3, <1>4

-----------------------------------------------------------------------------
(* What the section of a file leads to.                                      *)

\* Item i of f is a section that leads to every object written, and to what is
\* packed.
Describes(f, i) ==
    /\ f[i].size \in Nat /\ f[i].size > MaxObj
    /\ DOMAIN f[i].entries = WriteSet \cup Packed
    /\ \A n \in WriteSet :
         /\ f[i].entries[n].type = 1 /\ f[i].entries[n].field3 = Written(n).gen
         /\ f[i].entries[n].at \in 1..(i - 1) /\ f[f[i].entries[n].at] = Written(n)
    /\ \A n \in Packed :
         /\ f[i].entries[n].type = 2
         /\ \E c \in 1..Len(Chunks) :
              /\ f[i].entries[n].at = ContainerNum(c)
              /\ f[i].entries[n].field3 + 1 \in 1..Len(Chunks[c])
              /\ Chunks[c][f[i].entries[n].field3 + 1] = n

\* It ends with where its section is.
Complete(f) ==
    /\ f # <<>> /\ Len(f) \in Nat /\ Len(f) - 1 \in 1..Len(f)
    /\ f[Len(f)] = [what |-> "startxref", at |-> Len(f) - 1]
    /\ Describes(f, Len(f) - 1)

\* A complete file has the objects written where its entries say.
LEMMA Finds ==
    ASSUME IsDoc(doc), NEW f, Complete(f), NEW n \in WriteSet
    PROVE  AtOffset(f, n) /\ Found(f, n) = Written(n)
  <1> DEFINE i == Len(f) - 1
  <1>1. Last(f) = [what |-> "startxref", at |-> i]
    BY DEF Complete, Last
  <1>2. Last(f).at = i
    BY <1>1
  <1>3. Describes(f, i)
    BY DEF Complete
  <1> HIDE DEF i
  <1>4. Entries(f) = f[i].entries
    BY <1>2 DEF Entries
  <1>5. /\ Entries(f)[n].type = 1 /\ Entries(f)[n].field3 = Written(n).gen
        /\ f[Entries(f)[n].at] = Written(n)
        /\ n \in DOMAIN Entries(f)
    BY <1>3, <1>4 DEF Describes
  <1>6. Found(f, n) = Written(n)
    BY <1>5 DEF Found
  <1>7. Written(n).num = n
    BY DEF Written
  <1>8. n < f[i].size
    <2>1. n \in Nat /\ MaxObj \in Nat /\ n <= MaxObj
      BY WriteSetFacts
    <2>2. f[i].size \in Nat /\ f[i].size > MaxObj
      BY <1>3 DEF Describes
    <2> DEFINE s == f[i].size
    <2> HIDE DEF s
    <2>3. s \in Nat /\ s > MaxObj
      BY <2>2 DEF s
    <2>4. n < s
      BY <2>1, <2>3
    <2> QED BY <2>4 DEF s
  <1> QED BY <1>2, <1>5, <1>6, <1>7, <1>8 DEF AtOffset

\* What is written of an object, and of a container.
LEMMA WrittenFacts ==
    ASSUME IsDoc(doc)
    PROVE  /\ \A n \in Numbers \cap WriteSet :
                /\ Written(n).cipher = Ciphered(n) /\ Written(n).gen = Object(n).gen
                /\ n \in Streams => Written(n).size = DataLength(n)
                /\ n \notin Streams =>
                     Written(n).size = IF Object(n).kind = "integer" /\ LengthsFor(n) # {}
                                       THEN Max(LengthsFor(n)) ELSE Object(n).size
           /\ \A c \in 1..Len(Chunks) :
                LET w == Written(ContainerNum(c))
                IN  /\ ContainerNum(c) \in WriteSet
                    /\ w.cipher = (doc.security # "none")
                    /\ w.size = ContainerSize(Chunks[c]) /\ w.holds = Chunks[c]
  <1>1. ASSUME NEW n \in Numbers \cap WriteSet
        PROVE  /\ Written(n).cipher = Ciphered(n) /\ Written(n).gen = Object(n).gen
               /\ n \in Streams => Written(n).size = DataLength(n)
               /\ n \notin Streams =>
                     Written(n).size = IF Object(n).kind = "integer" /\ LengthsFor(n) # {}
                                       THEN Max(LengthsFor(n)) ELSE Object(n).size
    <2>1. n \notin Containers
      BY WriteSetFacts DEF Containers
    <2> QED BY <2>1 DEF Written
  <1>2. ASSUME NEW c \in 1..Len(Chunks)
        PROVE  LET w == Written(ContainerNum(c))
               IN  /\ ContainerNum(c) \in WriteSet
                   /\ w.cipher = (doc.security # "none")
                   /\ w.size = ContainerSize(Chunks[c]) /\ w.holds = Chunks[c]
    <2>1. ContainerNum(c) \in Containers /\ ContainerNum(c) \in WriteSet
      BY DEF Containers, WriteSet
    <2>2. ChunkOf(ContainerNum(c)) = Chunks[c]
      BY WriteSetFacts
    <2> QED BY <2>1, <2>2 DEF Written
  <1> QED BY <1>1, <1>2

\* A complete file of a document that was not refused is the document: each
\* object can be found, deciphered and delimited.
LEMMA CompleteReadsBack ==
    ASSUME IsDoc(doc), ~Refused, NEW f, Complete(f)
    PROVE  /\ Whole(f) /\ ~doc.atRisk /\ doc.undecrypted = {}
           /\ \A n \in Numbers \cup doc.lost : n \in Numbers /\ InFile(f, n)
  <1>1. Whole(f)
    BY DEF Complete, Whole, Last
  <1>2. /\ ~doc.atRisk /\ 0 \notin Numbers /\ doc.lost = {} /\ doc.undecrypted = {}
        /\ \A n \in Streams : DataLength(n) \in Nat
        /\ \A n \in Numbers \ LengthTargets : LengthsFor(n) = {}
    BY NotRefused
  <1>3. \A n \in WriteSet : AtOffset(f, n) /\ Found(f, n) = Written(n)
    BY Finds
  <1>4. HandlerBuilt(f)
    <2> SUFFICES ASSUME NEW n \in EncryptValues PROVE AtOffset(f, n) /\ ~Found(f, n).cipher
      BY DEF HandlerBuilt
    <2>1. n \in Numbers \cap WriteSet
      BY WriteSetFacts
    <2>2. Written(n).cipher = Ciphered(n)
      BY <2>1, WrittenFacts
    <2> QED BY <1>3, <2>1, <2>2 DEF Ciphered
  <1>5. ASSUME NEW n \in Numbers, n \in WriteSet
        PROVE  InFile(f, n)
    <2>1. AtOffset(f, n) /\ Found(f, n) = Written(n)
      BY <1>3, <1>5
    <2>2. Deciphered(f, n)
      <3>1. Written(n).cipher = Ciphered(n)
        BY <1>5, WrittenFacts
      <3> QED BY <1>4, <2>1, <3>1 DEF Deciphered, Ciphered
    <2>3. Delimited(f, n)
      <3> DEFINE t == Object(n).lengthAt
      <3> SUFFICES ASSUME n \in Streams, t \in Numbers, Object(t).kind = "integer"
                   PROVE  AtOffset(f, t) /\ Found(f, t).size = Found(f, n).size
        BY DEF Delimited
      <3>1. t \in LengthTargets
        BY <1>2 DEF LengthTargets
      <3>2. t \in WriteSet
        BY <3>1, WriteSetFacts
      <3>3. t \notin Streams
        BY DEF Streams
      <3>4. LengthsFor(t) = {DataLength(n)}
        BY NotRefused
      <3>5. Max({DataLength(n)}) = DataLength(n)
        <4> DEFINE d == DataLength(n)
        <4>1. d \in Nat
          BY <1>2
        <4> HIDE DEF d
        <4>2. \A y \in {d} : d >= y
          BY <4>1
        <4>3. Max({d}) \in {d}
          BY <4>2 DEF Max
        <4> QED BY <4>3 DEF d
      <3>6. Written(t).size = DataLength(n)
        BY <3>2, <3>3, <3>4, <3>5, WrittenFacts
      <3>7. Written(n).size = DataLength(n)
        BY <1>5, WrittenFacts
      <3> QED BY <1>3, <2>1, <3>2, <3>6, <3>7
    <2>4. ASSUME Object(n).kind = "integer", n \notin LengthTargets
          PROVE  Found(f, n).size = Object(n).size
      <3>1. n \notin Streams /\ LengthsFor(n) = {}
        BY <1>2, <2>4 DEF Streams
      <3> QED BY <1>5, <2>1, <3>1, WrittenFacts
    <2> QED BY <2>1, <2>2, <2>3, <2>4 DEF InFile
  <1>6. ASSUME NEW n \in Numbers, n \in Packed
        PROVE  InFile(f, n)
    <2> DEFINE i == Len(f) - 1
    <2>1. Last(f).at = i
      <3>1. Last(f) = [what |-> "startxref", at |-> i]
        BY DEF Complete, Last
      <3> QED BY <3>1
    <2>2. Describes(f, i)
      BY DEF Complete
    <2> HIDE DEF i
    <2>3. Entries(f) = f[i].entries
      BY <2>1 DEF Entries
    <2>4. n \in DOMAIN Entries(f) /\ Entries(f)[n].type = 2
      BY <1>6, <2>2, <2>3 DEF Describes
    <2>5. n < f[i].size
      <3>1. n \in Nat /\ MaxObj \in Nat /\ n <= MaxObj
        BY <1>6, WriteSetFacts, DocFacts
      <3> DEFINE s == f[i].size
      <3>2. s \in Nat /\ s > MaxObj
        BY <2>2 DEF Describes
      <3> HIDE DEF s
      <3>3. n < s
        BY <3>1, <3>2
      <3> QED BY <3>3 DEF s
    <2>6. Object(n).gen = 0 /\ Object(n).kind \notin {"stream", "signature"}
      <3>1. n \in Packable
        BY <1>6, WriteSetFacts
      <3>2. n \notin Streams /\ Object(n).gen = 0 /\ Object(n).kind # "signature"
        BY <3>1, PackableFacts
      <3> QED BY <3>2 DEF Streams
    <2>7. PICK c \in 1..Len(Chunks) :
            /\ Entries(f)[n].at = ContainerNum(c)
            /\ Chunks[c][Entries(f)[n].field3 + 1] = n
      BY <1>6, <2>2, <2>3 DEF Describes
    <2> DEFINE b == ContainerNum(c)
    <2>8. /\ b \in WriteSet /\ b \notin Numbers
          /\ Written(b).cipher = (doc.security # "none")
          /\ Written(b).size = ContainerSize(Chunks[c]) /\ Written(b).holds = Chunks[c]
      BY WrittenFacts, WriteSetFacts
    <2>9. ContainerSize(Chunks[c]) <= 2 * ContainerMax
      BY ChunksFit DEF Fits
    <2> HIDE DEF b
    <2>10. AtOffset(f, b) /\ Found(f, b) = Written(b)
      BY <1>3, <2>8
    <2>11. Deciphered(f, b)
      BY <1>4, WriteSetFacts, <2>8, <2>10 DEF Deciphered
    <2>12. Found(f, b).size <= 2 * ContainerMax
      BY <2>8, <2>9, <2>10
    <2>13. Found(f, b).holds[Entries(f)[n].field3 + 1] = n
      BY <2>7, <2>8, <2>10
    <2>14. Entries(f)[n].at = b
      BY <2>7 DEF b
    <2> QED BY <2>1, <2>4, <2>5, <2>6, <2>10, <2>11, <2>12, <2>13, <2>14 DEF InFile
  <1> QED BY <1>1, <1>2, <1>5, <1>6, WriteSetFacts

-----------------------------------------------------------------------------
(* What a write has come to.                                                 *)

\* Every object that is no longer to be written was serialized, as it should be.
Serialized ==
    /\ todo \subseteq WriteSet
    /\ \A i \in 1..Len(out) : out[i].what = "object" => out[i] = Written(out[i].num)
    /\ \A n \in WriteSet \ todo : \E i \in 1..Len(out) : out[i] = Written(n)

Later == phase \in {"read back", "verdict", "copy"}

\* Only a document that was not refused is written; before the section everything
\* that was to be is there, the section leads to it, and startxref to the section.
WriteInv ==
    /\ phase \in {"objects", "end"} \/ Later \/ outcome = "ok" => ~Refused
    /\ phase = "objects" => Serialized
    /\ phase = "end" => Len(out) > 0 /\ Describes(out, Len(out))
    /\ Later => Complete(out)
    /\ outcome = "ok" => Complete(dest)

\* The document is not touched by its being written: what it comes to stays what
\* it is.
LEMMA DocStays ==
    ASSUME doc' = doc
    PROVE  /\ WriteSet' = WriteSet /\ Packed' = Packed /\ MaxObj' = MaxObj
           /\ Chunks' = Chunks /\ Refused' = Refused
           /\ \A c : ContainerNum(c)' = ContainerNum(c)
           /\ \A n : Written(n)' = Written(n)
  <1>1. Numbers' = Numbers /\ Streams' = Streams /\ LengthTargets' = LengthTargets
        /\ Locked' = Locked /\ Highest' = Highest
    BY DEF Numbers, Streams, LengthTargets, Object, Locked, Highest
  <1>2. Reach' = Reach
    BY SMT DEF Reach, Object, Numbers
  <1>3. EncryptReachable' = EncryptReachable /\ EncryptValues' = EncryptValues
    BY <1>1, <1>2 DEF EncryptReachable, EncryptValues
  <1>4. Packable' = Packable
    BY <1>1, <1>3 DEF Packable, Object
  <1>5. Chunking' = Chunking
    BY <1>1, <1>4 DEF Chunking, Chunked, Object, Cost
  <1>6. Chunks' = Chunks
    BY <1>1, <1>4, <1>5 DEF Chunks
  <1>7. Packed' = Packed /\ \A c : ContainerNum(c)' = ContainerNum(c)
    BY <1>1, <1>6 DEF Packed, ContainerNum
  <1>8. Containers' = Containers /\ WriteSet' = WriteSet
    BY <1>1, <1>6, <1>7 DEF Containers, WriteSet, ContainerNum
  <1>9. MaxObj' = MaxObj
    BY <1>8 DEF MaxObj
  <1>10. \A n : Written(n)' = Written(n)
    BY <1>1, <1>3, <1>6, <1>8 DEF Written, ChunkOf, ContainerSize, Cost, Object, DataLength,
       LengthsFor, Ciphered
  <1>11. Refused' = Refused
    BY <1>1, <1>4 DEF Refused, LengthsFor, DataLength, Object
  <1> QED BY <1>6, <1>7, <1>8, <1>9, <1>10, <1>11

\* Once everything is serialized, the section leads to it all.
LEMMA SectionDescribes ==
    ASSUME IsDoc(doc), IsSequence(out), Serialized, todo = {}
    PROVE  Describes(Append(out, Section), Len(out) + 1)
  <1> DEFINE i == Len(out) + 1
             f == Append(out, Section)
             e == Section.entries
  <1>1. /\ Len(out) \in Nat /\ f[i] = Section
        /\ \A j \in 1..Len(out) : f[j] = out[j]
    BY Appended
  <1>2. Section.size \in Nat /\ Section.size > MaxObj
    <2>1. Section.size = MaxObj + 2 \/ Section.size = MaxObj + 1
      BY DEF Section
    <2>2. MaxObj \in Nat
      BY WriteSetFacts
    <2> QED BY <2>1, <2>2
  <1>3. DOMAIN e = WriteSet \cup Packed
    BY DEF Section
  <1>4. ASSUME NEW n \in WriteSet
        PROVE  /\ e[n].type = 1 /\ e[n].field3 = Written(n).gen
               /\ e[n].at \in 1..Len(out) /\ out[e[n].at] = Written(n)
    <2>1. e[n] = [type |-> 1, at |-> OffsetOf(n),
                  field3 |-> IF n \in Numbers THEN Object(n).gen ELSE 0]
      BY DEF Section
    <2>2. e[n].type = 1 /\ e[n].at = OffsetOf(n)
          /\ e[n].field3 = IF n \in Numbers THEN Object(n).gen ELSE 0
      BY <2>1
    <2>3. Written(n).what = "object" /\ Written(n).num = n
          /\ Written(n).gen = IF n \in Numbers THEN Object(n).gen ELSE 0
      <3>1. n \in Containers => n \notin Numbers
        BY WriteSetFacts DEF Containers
      <3>2. n \notin Containers => n \in Numbers
        BY DEF WriteSet
      <3> QED BY <3>1, <3>2 DEF Written
    <2>4. \E j \in 1..Len(out) : out[j].what = "object" /\ out[j].num = n
      <3>1. PICK j \in 1..Len(out) : out[j] = Written(n)
        BY DEF Serialized
      <3> QED BY <2>3, <3>1
    <2>5. OffsetOf(n) \in 1..Len(out) /\ out[OffsetOf(n)].what = "object"
          /\ out[OffsetOf(n)].num = n
      BY <2>4, Zenon DEF OffsetOf
    <2>6. out[OffsetOf(n)] = Written(n)
      BY <2>5 DEF Serialized
    <2> QED BY <2>2, <2>3, <2>5, <2>6
  <1>5. ASSUME NEW n \in Packed
        PROVE  /\ e[n].type = 2
               /\ \E c \in 1..Len(Chunks) :
                     /\ e[n].at = ContainerNum(c)
                     /\ e[n].field3 + 1 \in 1..Len(Chunks[c])
                     /\ Chunks[c][e[n].field3 + 1] = n
    <2> DEFINE c == CHOOSE c \in 1..Len(Chunks) : n \in ToSet(Chunks[c])
               k == CHOOSE k \in 1..Len(Chunks[c]) : Chunks[c][k] = n
    <2>1. n \notin WriteSet
      BY WriteSetFacts
    <2>2. e[n] = [type |-> 2, at |-> ContainerNum(c), field3 |-> k - 1]
      BY <2>1 DEF Section
    <2>3. \E x \in 1..Len(Chunks) : n \in ToSet(Chunks[x])
      BY DEF Packed
    <2>4. c \in 1..Len(Chunks) /\ n \in ToSet(Chunks[c])
      BY <2>3, Zenon
    <2>5. e[n].type = 2 /\ e[n].at = ContainerNum(c) /\ e[n].field3 = k - 1
      BY <2>2
    <2> HIDE DEF c
    <2>6. Chunks[c] \in Seq(Packable)
      BY <2>4, ChunksFit DEF Fits
    <2> DEFINE s == Chunks[c]
    <2>7. s \in Seq(Packable) /\ n \in ToSet(s)
      BY <2>4, <2>6
    <2>8. \E x \in 1..Len(s) : s[x] = n
      <3> HIDE DEF s
      <3> QED BY <2>7 DEF ToSet
    <2>9. k \in 1..Len(s) /\ s[k] = n
      BY <2>8, Zenon
    <2> HIDE DEF k
    <2>10. k \in Int /\ (k - 1) + 1 = k
      BY <2>7, <2>9
    <2> QED BY <2>4, <2>5, <2>9, <2>10
  <1>6. f[i].entries = e /\ f[i].size = Section.size /\ i - 1 = Len(out)
    BY <1>1
  <1>7. \A n \in WriteSet :
          /\ f[i].entries[n].type = 1 /\ f[i].entries[n].field3 = Written(n).gen
          /\ f[i].entries[n].at \in 1..(i - 1) /\ f[f[i].entries[n].at] = Written(n)
    <2> TAKE n \in WriteSet
    <2>1. /\ e[n].type = 1 /\ e[n].field3 = Written(n).gen
          /\ e[n].at \in 1..Len(out) /\ out[e[n].at] = Written(n)
      BY <1>4
    <2> HIDE DEF e, f, i
    <2> QED BY <1>1, <1>6, <2>1
  <1> HIDE DEF e, f, i
  <1>8. \A n \in Packed :
          /\ f[i].entries[n].type = 2
          /\ \E c \in 1..Len(Chunks) :
               /\ f[i].entries[n].at = ContainerNum(c)
               /\ f[i].entries[n].field3 + 1 \in 1..Len(Chunks[c])
               /\ Chunks[c][f[i].entries[n].field3 + 1] = n
    BY <1>5, <1>6
  <1>9. Describes(f, i)
    BY <1>2, <1>3, <1>6, <1>7, <1>8 DEF Describes
  <1> QED BY <1>9 DEF f, i

\* Where the section is ends the file.
LEMMA StartXRefCompletes ==
    ASSUME IsSequence(out), Describes(out, Len(out)), Len(out) > 0
    PROVE  Complete(Append(out, [what |-> "startxref", at |-> Len(out)]))
  <1> DEFINE m == Len(out)
             last == [what |-> "startxref", at |-> m]
             f == Append(out, last)
  <1>1. /\ m \in Nat /\ Len(f) = m + 1 /\ f[m + 1] = last /\ f # <<>>
        /\ \A j \in 1..m : f[j] = out[j]
    BY Appended
  <1>2. Describes(out, m) /\ m > 0
    OBVIOUS
  <1> HIDE DEF m, f, last
  <1>3. m \in 1..m /\ f[m] = out[m]
    BY <1>1, <1>2
  <1>4. \A n \in WriteSet : f[f[m].entries[n].at] = Written(n)
    <2> TAKE n \in WriteSet
    <2>1. out[m].entries[n].at \in 1..(m - 1) /\ out[out[m].entries[n].at] = Written(n)
      BY <1>2 DEF Describes
    <2> DEFINE j == out[m].entries[n].at
    <2>2. j \in 1..(m - 1) /\ out[j] = Written(n)
      BY <2>1
    <2> HIDE DEF j
    <2>3. j \in 1..m
      BY <1>1, <2>2
    <2>4. f[j] = Written(n)
      BY <1>1, <2>2, <2>3
    <2> QED BY <1>3, <2>4 DEF j
  <1>5. Describes(f, m)
    BY <1>2, <1>3, <1>4 DEF Describes
  <1>6. Len(f) - 1 = m /\ m \in 1..Len(f) /\ Len(f) \in Nat
    BY <1>1, <1>2
  <1>7. f[Len(f)] = [what |-> "startxref", at |-> Len(f) - 1]
    BY <1>1, <1>6 DEF last
  <1>8. Complete(f)
    BY <1>1, <1>5, <1>6, <1>7 DEF Complete
  <1> QED BY <1>8 DEF f, last, m

\* What a step leaves of it that serializes nothing.
LEMMA WriteStays ==
    ASSUME WriteInv, UNCHANGED <<doc, out, todo, dest>>,
           \/ UNCHANGED <<phase, outcome>>
           \/ phase' = "over" /\ outcome' # "ok"
           \/ Later /\ Later' /\ phase' # "objects" /\ phase' # "end" /\ UNCHANGED outcome
    PROVE  WriteInv'
  <1>1. /\ WriteSet' = WriteSet /\ Packed' = Packed /\ MaxObj' = MaxObj
        /\ Chunks' = Chunks /\ Refused' = Refused
        /\ \A c : ContainerNum(c)' = ContainerNum(c)
        /\ \A n : Written(n)' = Written(n)
    BY DocStays
  <1>2. Serialized => Serialized'
    BY <1>1 DEF Serialized
  <1>3. \A f, i : Describes(f, i) => Describes(f, i)'
    BY <1>1 DEF Describes
  <1>4. \A f : Complete(f) => Complete(f)'
    BY <1>3 DEF Complete
  <1> QED BY <1>1, <1>2, <1>3, <1>4 DEF WriteInv, Later

\* A write begins with nothing to show.
LEMMA WriteBegins == Init => WriteInv
  BY DEF Init, WriteInv, Later

\* Every step keeps it.
LEMMA WriteKeeps ==
    ASSUME Inv, Inv', WriteInv, [Next]_vars
    PROVE  WriteInv'
  <1>1. IsDoc(doc)
    BY DocsAssumption DEF Inv
  <1>2. CASE RefuseClaim
    BY <1>2, WriteStays DEF RefuseClaim, Ends
  <1>3. CASE Refuse
    BY <1>3, WriteStays DEF Refuse, Ends
  <1>4. CASE WriteHeader
    <2>1. /\ ~Refused /\ out' = Append(out, [what |-> "header"]) /\ out = <<>>
          /\ phase' = "objects" /\ todo' = WriteSet /\ UNCHANGED <<doc, outcome>>
          /\ outcome = "none"
      BY <1>4 DEF WriteHeader, Beginning, Emit, Inv
    <2>2. /\ WriteSet' = WriteSet /\ Refused' = Refused
      BY <2>1, DocStays
    <2>3. out'[1].what = "header" /\ Len(out') = 1
      BY <2>1
    <2>4. Serialized'
      BY <2>1, <2>2, <2>3 DEF Serialized
    <2> QED BY <2>1, <2>2, <2>4 DEF WriteInv, Later
  <1>5. CASE WriterFails
    BY <1>5, WriteStays DEF WriterFails, Ends
  <1>6. CASE WriteObject
    <2>1. phase = "objects" /\ UNCHANGED doc /\ Serialized /\ ~Refused /\ outcome = "none"
      BY <1>6 DEF WriteObject, WriteInv, Inv
    <2>2. PICK n \in Least(todo) :
            \/ Ends("failed") /\ UNCHANGED <<todo, out, dest>>
            \/ Emit(Written(n)) /\ todo' = todo \ {n} /\ UNCHANGED <<phase, outcome>>
      BY <1>6 DEF WriteObject
    <2>3. CASE Ends("failed") /\ UNCHANGED <<todo, out, dest>>
      BY <2>1, <2>3, WriteStays DEF Ends
    <2>4. CASE Emit(Written(n)) /\ todo' = todo \ {n} /\ UNCHANGED <<phase, outcome>>
      <3> DEFINE w == Written(n)
                 m == Len(out)
      <3>1. /\ m \in Nat /\ Len(out') = m + 1 /\ out'[m + 1] = w
            /\ \A i \in 1..m : out'[i] = out[i]
        <4>1. out' = Append(out, w) /\ IsSequence(out)
          BY <2>4 DEF Emit, Inv
        <4> HIDE DEF w
        <4>2. /\ Len(out) \in Nat /\ Len(Append(out, w)) = Len(out) + 1
              /\ \A i \in 1..Len(out) : Append(out, w)[i] = out[i]
              /\ Append(out, w)[Len(out) + 1] = w
          BY <4>1, Appended
        <4> QED BY <4>1, <4>2
      <3>2. w.num = n /\ w.what = "object"
        BY DEF Written
      <3>3. /\ WriteSet' = WriteSet /\ Refused' = Refused /\ \A x : Written(x)' = Written(x)
        BY <2>1, DocStays
      <3>4. \A i \in 1..m : out[i].what = "object" => out[i] = Written(out[i].num)
        BY <2>1 DEF Serialized
      <3>5. \A x \in WriteSet \ todo : \E i \in 1..m : out[i] = Written(x)
        BY <2>1 DEF Serialized
      <3>6. todo' \subseteq WriteSet /\ \A x \in WriteSet \ todo' : x = n \/ x \in WriteSet \ todo
        BY <2>1, <2>4 DEF Serialized
      <3> HIDE DEF m
      <3>7. \A i \in 1..(m + 1) : out'[i].what = "object" => out'[i] = Written(out'[i].num)
        <4> TAKE i \in 1..(m + 1)
        <4>1. CASE i = m + 1
          BY <3>1, <3>2, <4>1
        <4>2. CASE i \in 1..m
          BY <3>1, <3>4, <4>2
        <4> QED BY <3>1, <4>1, <4>2
      <3>8. \A x \in WriteSet \ todo' : \E i \in 1..(m + 1) : out'[i] = Written(x)
        <4> TAKE x \in WriteSet \ todo'
        <4>1. CASE x = n
          BY <3>1, <4>1
        <4>2. CASE x \in WriteSet \ todo
          <5>1. PICK i \in 1..m : out[i] = Written(x)
            BY <3>5, <4>2
          <5>2. i \in 1..(m + 1) /\ out'[i] = Written(x)
            BY <3>1, <5>1
          <5> QED BY <5>2
        <4> QED BY <3>6, <4>1, <4>2
      <3>9. Serialized'
        BY <3>1, <3>3, <3>6, <3>7, <3>8 DEF Serialized
      <3> QED BY <2>1, <2>4, <3>3, <3>9 DEF WriteInv, Later
    <2> QED BY <2>2, <2>3, <2>4
  <1>7. CASE Stop
    BY <1>7, WriteStays DEF Stop, Ends
  <1>8. CASE WriteXRef
    <2>1. /\ phase = "objects" /\ todo = {} /\ out' = Append(out, Section) /\ phase' = "end"
          /\ UNCHANGED <<doc, outcome>> /\ outcome = "none" /\ IsSequence(out)
          /\ Serialized /\ ~Refused
      BY <1>8 DEF WriteXRef, Emit, Inv, WriteInv
    <2>2. /\ Len(out') = Len(out) + 1 /\ Len(out) \in Nat
      BY <2>1, Appended
    <2>3. Describes(Append(out, Section), Len(out) + 1)
      BY <1>1, <2>1, SectionDescribes
    <2>4. Describes(out', Len(out'))
      BY <2>1, <2>2, <2>3
    <2>5. /\ WriteSet' = WriteSet /\ Packed' = Packed /\ MaxObj' = MaxObj
          /\ Chunks' = Chunks /\ Refused' = Refused
          /\ \A c : ContainerNum(c)' = ContainerNum(c)
          /\ \A n : Written(n)' = Written(n)
      BY <2>1, DocStays
    <2>6. Describes(out, Len(out))'
      BY <2>4, <2>5 DEF Describes
    <2>7. Len(out') > 0
      BY <2>2
    <2> QED BY <2>1, <2>5, <2>6, <2>7 DEF WriteInv, Later
  <1>9. CASE WriteStartXRef
    <2> DEFINE last == [what |-> "startxref", at |-> Len(out)]
    <2>1. /\ phase = "end" /\ out' = Append(out, last) /\ IsSequence(out)
          /\ dest' = IF Direct THEN out' ELSE dest
          /\ UNCHANGED doc /\ ~Refused /\ Len(out) > 0 /\ Describes(out, Len(out))
      BY <1>9 DEF WriteStartXRef, Emit, Inv, WriteInv
    <2>2. Complete(Append(out, last))
      BY <2>1, StartXRefCompletes
    <2>3. /\ WriteSet' = WriteSet /\ Packed' = Packed /\ MaxObj' = MaxObj
          /\ Chunks' = Chunks /\ Refused' = Refused
          /\ \A c : ContainerNum(c)' = ContainerNum(c)
          /\ \A n : Written(n)' = Written(n)
      BY <2>1, DocStays
    <2>4. Complete(out')
      BY <2>1, <2>2
    <2>5. Complete(out)'
      BY <2>3, <2>4 DEF Complete, Describes
    <2>6. CASE Direct
      <3>1. phase' = "over" /\ dest' = out'
        BY <1>9, <2>1, <2>6 DEF WriteStartXRef, Ends
      <3>2. Complete(dest)'
        BY <2>3, <2>4, <3>1 DEF Complete, Describes
      <3> QED BY <2>1, <2>3, <3>1, <3>2 DEF WriteInv, Later
    <2>7. CASE ~Direct
      <3>1. phase' = "read back" /\ UNCHANGED outcome /\ outcome # "ok"
        BY <1>9, <2>1, <2>7 DEF WriteStartXRef, Inv
      <3> QED BY <2>1, <2>3, <2>5, <3>1 DEF WriteInv, Later
    <2> QED BY <2>6, <2>7
  <1>10. CASE ReadBack
    <2>1. phase = "read back" /\ UNCHANGED <<doc, out, todo, dest>>
      BY <1>10 DEF ReadBack
    <2>2. \/ phase' = "over" /\ outcome' # "ok"
          \/ phase' = "verdict" /\ UNCHANGED outcome
      BY <1>10 DEF ReadBack, Ends
    <2> QED BY <2>1, <2>2, WriteStays DEF Later
  <1>11. CASE Verify
    <2>1. phase = "verdict" /\ UNCHANGED <<doc, out, todo, dest>>
      BY <1>11 DEF Verify
    <2>2. \/ phase' = "over" /\ outcome' # "ok"
          \/ phase' = "copy" /\ UNCHANGED outcome
      <3>1. SaveVerdict # "ok"
        BY DEF SaveVerdict
      <3> QED BY <1>11, <3>1 DEF Verify, Ends
    <2> QED BY <2>1, <2>2, WriteStays DEF Later
  <1>12. CASE Copy
    <2>1. phase = "copy" /\ phase' = "over" /\ UNCHANGED <<doc, out>> /\ ~Refused
          /\ Complete(out)
      BY <1>12 DEF Copy, Ends, WriteInv, Later
    <2>2. \/ outcome' = "ok" /\ dest' = out
          \/ outcome' = "failed"
      BY <1>12 DEF Copy, Ends
    <2>3. /\ WriteSet' = WriteSet /\ Packed' = Packed /\ MaxObj' = MaxObj
          /\ Chunks' = Chunks /\ Refused' = Refused
          /\ \A c : ContainerNum(c)' = ContainerNum(c)
          /\ \A n : Written(n)' = Written(n)
      BY <2>1, DocStays
    <2>4. dest' = out => Complete(dest)'
      BY <2>1, <2>3 DEF Complete, Describes
    <2> QED BY <2>1, <2>2, <2>3, <2>4 DEF WriteInv, Later
  <1>13. CASE Cancel
    BY <1>13, WriteStays DEF Cancel
  <1>14. CASE UNCHANGED vars
    BY <1>14, WriteStays DEF vars
  <1> QED
    BY <1>2, <1>3, <1>4, <1>5, <1>6, <1>7, <1>8, <1>9, <1>10, <1>11, <1>12, <1>13, <1>14
    DEF Next, Step, Over

\* A write that reports no error wrote the document: what is packed was allowed to
\* be and fits, what the security handler and the streams' lengths need is not
\* packed, and the section leads to everything.
THEOREM WhatNilMeans == Spec => []NilMeansWritten
  <1>1. Inv /\ WriteInv => NilMeansWritten
    <2> SUFFICES ASSUME Inv, WriteInv, outcome = "ok"
                 PROVE  /\ Whole(dest) /\ ~doc.atRisk /\ doc.undecrypted = {}
                        /\ \A n \in Numbers \cup doc.lost : n \in Numbers /\ InFile(dest, n)
      BY DEF NilMeansWritten
    <2>1. IsDoc(doc)
      BY DocsAssumption DEF Inv
    <2>2. ~Refused /\ Complete(dest)
      BY DEF WriteInv
    <2> QED BY <2>1, <2>2, CompleteReadsBack
  <1>2. Inv /\ WriteInv /\ Inv' /\ [Next]_vars => WriteInv'
    BY WriteKeeps
  <1> QED BY <1>1, <1>2, WriteBegins, Invariance, PTL DEF Spec
=============================================================================
