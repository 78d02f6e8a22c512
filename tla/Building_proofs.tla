--------------------------- MODULE Building_proofs ---------------------------
(***************************************************************************)
(* What is built: for every nesting limit and every set of names, a stream  *)
(* the Builder writes is one a reader follows; and for every source, target *)
(* and request, what ExtractPages and AppendPages copy leads where it led.  *)
(***************************************************************************)
EXTENDS ContentBuilder, PageImport, FiniteSetTheorems, SequenceTheorems, WellFoundedInduction, TLAPS

Spans == {"TJ", "BDC", "EMC"}

\* The types of the Builder's fields.
TypeInv ==
    /\ err \in BOOLEAN /\ colorOp \in BOOLEAN
    /\ depth \in Nat /\ marked \in Nat /\ textFloor \in Nat
    /\ inText \in BOOLEAN /\ inPath \in BOOLEAN /\ clipped \in BOOLEAN
    /\ state \in Tracked
    /\ saved \in Seq(Tracked)
    /\ spans \in Seq(Spans)

\* How the flags go together: what was saved is what q nested, a clip belongs to
\* a path, there is no path in a text object, and what was open before a text
\* object still is.
Together ==
    /\ Len(saved) = depth /\ depth <= MaxNestingDepth
    /\ clipped => inPath
    /\ ~(inText /\ inPath)
    /\ inText => textFloor <= marked

Inv == TypeInv /\ Together

\* A step the reader takes, or none.
Follows == Reader!RNext \/ UNCHANGED Reader!reader

\* The Builder begins with nothing open.
LEMMA Begins == Init => Inv /\ Reader!RInit
  <1> SUFFICES ASSUME Init PROVE Inv /\ Reader!RInit
    OBVIOUS
  <1>1. Together
    BY BuilderAssumption DEF Init, Together, BuilderAssumption
  <1>2. state \in Tracked
    BY DEF Init, Tracked
  <1>3. saved \in Seq(Tracked) /\ spans \in Seq(Spans)
    BY DEF Init
  <1>4. depth \in Nat /\ marked \in Nat /\ textFloor \in Nat
    BY DEF Init
  <1>5. err \in BOOLEAN /\ colorOp \in BOOLEAN /\ inText \in BOOLEAN /\ inPath \in BOOLEAN /\ clipped \in BOOLEAN
    BY DEF Init
  <1>6. TypeInv
    BY <1>2, <1>3, <1>4, <1>5 DEF TypeInv
  <1>7. Reader!RInit
    BY DEF Init, Reader!RInit, Place, Around, Within
  <1> QED BY <1>1, <1>6, <1>7 DEF Inv

\* A refused call changes nothing a reader sees.
LEMMA FailKeeps == ASSUME Inv, Fail PROVE Inv' /\ Follows
  BY DEF Inv, TypeInv, Together, Fail, flags, Follows, Reader!reader, Place, Around, Within

\* The reader pushes what Save saves.
LEMMA SaveFollows == ASSUME Inv, Save PROVE Inv' /\ Follows
  <1>1. CASE Fail
    BY <1>1, FailKeeps
  <1>2. CASE ~Fail
    <2>1. /\ out' = Named("q") /\ ~inText /\ ~inPath /\ depth # MaxNestingDepth
          /\ depth' = depth + 1 /\ saved' = Append(saved, state)
          /\ UNCHANGED <<err, spans, inText, inPath, clipped, marked, textFloor, state>>
          /\ colorOp' \in BOOLEAN
      BY <1>2 DEF Save, Call, Named, Writes, Inv, TypeInv
    <2>2. TypeInv'
      BY <2>1 DEF Inv, TypeInv, Together
    <2>3. Together'
      BY <2>1, BuilderAssumption DEF Inv, TypeInv, Together, BuilderAssumption
    <2>4. Reader!Push(out')
      BY <2>1, BuilderAssumption
        DEF Reader!Push, Reader!Reads, Inv, TypeInv, Together, Place, Around, Within, Named,
            BuilderAssumption
    <2> QED BY <2>2, <2>3, <2>4 DEF Inv, Follows, Reader!RNext, Reader!Read
  <1> QED BY <1>1, <1>2

\* and pops what Restore restores.
LEMMA RestoreFollows == ASSUME Inv, Restore PROVE Inv' /\ Follows
  <1>1. CASE Fail
    BY <1>1, FailKeeps
  <1>2. CASE ~Fail
    <2>1. /\ out' = Named("Q") /\ ~inText /\ ~inPath /\ depth # 0
          /\ depth' = depth - 1 /\ state' = saved[Len(saved)] /\ saved' = SubSeq(saved, 1, Len(saved) - 1)
          /\ UNCHANGED <<err, spans, inText, inPath, clipped, marked, textFloor>>
          /\ colorOp' \in BOOLEAN
      BY <1>2 DEF Restore, Call, Named, Writes, Inv, TypeInv
    <2>2. TypeInv'
      BY <2>1 DEF Inv, TypeInv, Together
    <2>3. Together'
      BY <2>1, BuilderAssumption DEF Inv, TypeInv, Together, BuilderAssumption
    <2>4. Reader!Pop(out')
      BY <2>1, BuilderAssumption
        DEF Reader!Pop, Reader!Reads, Inv, TypeInv, Together, Place, Around, Within, Named,
            BuilderAssumption
    <2> QED BY <2>2, <2>3, <2>4 DEF Inv, Follows, Reader!RNext, Reader!Read
  <1> QED BY <1>1, <1>2

LEMMA PageLevelFollows == ASSUME Inv, NEW name, PageLevel(name) PROVE Inv' /\ Follows
  <1>1. CASE Fail
    BY <1>1, FailKeeps
  <1>2. CASE ~Fail
    <2>1. /\ out' = Named(name) /\ ~inText /\ ~inPath /\ name \in {"cm", "sh", "Do"}
          /\ UNCHANGED <<err, spans, depth, inText, inPath, clipped, marked, textFloor, state, saved>>
          /\ colorOp' \in BOOLEAN
      BY <1>2
        DEF PageLevel, Call, Named, Writes, Inv, TypeInv, OutOfPath, pathOps, paintingOps,
            flags
    <2>2. TypeInv'
      BY <2>1 DEF Inv, TypeInv, Together
    <2>3. Together'
      BY <2>1, BuilderAssumption DEF Inv, TypeInv, Together, BuilderAssumption
    <2>4. Reader!Page(out')
      BY <2>1, BuilderAssumption
        DEF Reader!Page, Reader!Reads, Inv, TypeInv, Together, Place, Around, Within, Named,
            BuilderAssumption, Reader!PageOnly, Reader!Keeping
    <2> QED BY <2>2, <2>3, <2>4 DEF Inv, Follows, Reader!RNext, Reader!Read
  <1> QED BY <1>1, <1>2

LEMMA AnywhereFollows == ASSUME Inv, NEW name, Anywhere(name) PROVE Inv' /\ Follows
  <1>1. CASE Fail
    BY <1>1, FailKeeps
  <1>2. CASE ~Fail
    <2>1. /\ out' = Named(name) /\ ~inPath /\ name \in {"w", "gs", "ri", "MP"}
          /\ UNCHANGED <<err, spans, depth, inText, inPath, clipped, marked, textFloor, state, saved>>
          /\ colorOp' \in BOOLEAN
      BY <1>2
        DEF Anywhere, Call, Named, Writes, Inv, TypeInv, OutOfPath, pathOps, paintingOps,
            flags
    <2>2. TypeInv'
      BY <2>1 DEF Inv, TypeInv, Together
    <2>3. Together'
      BY <2>1, BuilderAssumption DEF Inv, TypeInv, Together, BuilderAssumption
    <2>4. Reader!General(out')
      BY <2>1, BuilderAssumption
        DEF Reader!General, Reader!Reads, Inv, TypeInv, Together, Place, Around, Within,
            Named, BuilderAssumption, Reader!Anywhere, Reader!Keeping
    <2> QED BY <2>2, <2>3, <2>4 DEF Inv, Follows, Reader!RNext, Reader!Read
  <1> QED BY <1>1, <1>2

LEMMA BeginPathFollows == ASSUME Inv, NEW name, BeginPath(name) PROVE Inv' /\ Follows
  <1>1. CASE Fail
    BY <1>1, FailKeeps
  <1>2. CASE ~Fail
    <2>1. /\ out' = Named(name) /\ ~inText /\ ~clipped /\ name \in {"m", "re"}
          /\ inPath' = TRUE
          /\ UNCHANGED <<err, spans, depth, inText, clipped, marked, textFloor, state, saved>>
          /\ colorOp' \in BOOLEAN
      BY <1>2 DEF BeginPath, Writes, Inv, TypeInv, OutOfPath, pathOps, paintingOps, Named
    <2>2. TypeInv'
      BY <2>1 DEF Inv, TypeInv, Together
    <2>3. Together'
      BY <2>1, BuilderAssumption DEF Inv, TypeInv, Together, BuilderAssumption
    <2>4. Reader!BeginPath(out')
      BY <2>1, BuilderAssumption
        DEF Reader!BeginPath, Reader!Reads, Inv, TypeInv, Together, Place, Around, Within,
            Named, BuilderAssumption, Reader!Keeping
    <2> QED BY <2>2, <2>3, <2>4 DEF Inv, Follows, Reader!RNext, Reader!Read
  <1> QED BY <1>1, <1>2

LEMMA SegmentFollows == ASSUME Inv, NEW name, Segment(name) PROVE Inv' /\ Follows
  <1>1. CASE Fail
    BY <1>1, FailKeeps
  <1>2. CASE ~Fail
    <2>1. /\ out' = Named(name) /\ ~clipped /\ inPath /\ name \in {"l", "h"}
          /\ UNCHANGED <<err, spans, depth, inText, inPath, clipped, marked, textFloor, state, saved>>
          /\ colorOp' \in BOOLEAN
      BY <1>2
        DEF Segment, Call, Named, Writes, Inv, TypeInv, OutOfPath, pathOps, paintingOps,
            flags
    <2>2. TypeInv'
      BY <2>1 DEF Inv, TypeInv, Together
    <2>3. Together'
      BY <2>1, BuilderAssumption DEF Inv, TypeInv, Together, BuilderAssumption
    <2>4. Reader!Segment(out')
      BY <2>1, BuilderAssumption
        DEF Reader!Segment, Reader!Reads, Inv, TypeInv, Together, Place, Around, Within,
            Named, BuilderAssumption, Reader!Keeping
    <2> QED BY <2>2, <2>3, <2>4 DEF Inv, Follows, Reader!RNext, Reader!Read
  <1> QED BY <1>1, <1>2

LEMMA ClipFollows == ASSUME Inv, Clip PROVE Inv' /\ Follows
  <1>1. CASE Fail
    BY <1>1, FailKeeps
  <1>2. CASE ~Fail
    <2>1. /\ out' = Named("W") /\ ~clipped /\ inPath
          /\ clipped' = TRUE
          /\ UNCHANGED <<err, spans, depth, inText, inPath, marked, textFloor, state, saved>>
          /\ colorOp' \in BOOLEAN
      BY <1>2 DEF Clip, Call, Named, Writes, Inv, TypeInv, OutOfPath, pathOps, paintingOps
    <2>2. TypeInv'
      BY <2>1 DEF Inv, TypeInv, Together
    <2>3. Together'
      BY <2>1, BuilderAssumption DEF Inv, TypeInv, Together, BuilderAssumption
    <2>4. Reader!ClipPath(out')
      BY <2>1, BuilderAssumption
        DEF Reader!ClipPath, Reader!Reads, Inv, TypeInv, Together, Place, Around, Within,
            Named, BuilderAssumption, Reader!Keeping
    <2> QED BY <2>2, <2>3, <2>4 DEF Inv, Follows, Reader!RNext, Reader!Read
  <1> QED BY <1>1, <1>2

LEMMA PaintFollows == ASSUME Inv, NEW name, Paint(name) PROVE Inv' /\ Follows
  <1>1. CASE Fail
    BY <1>1, FailKeeps
  <1>2. CASE ~Fail
    <2>1. /\ out' = Named(name) /\ inPath /\ name \in paintingOps
          /\ inPath' = FALSE /\ clipped' = FALSE
          /\ UNCHANGED <<err, spans, depth, inText, marked, textFloor, state, saved>>
          /\ colorOp' \in BOOLEAN
      BY <1>2 DEF Paint, Writes, Inv, TypeInv, paintingOps
    <2>2. TypeInv'
      BY <2>1 DEF Inv, TypeInv, Together
    <2>3. Together'
      BY <2>1, BuilderAssumption DEF Inv, TypeInv, Together, BuilderAssumption
    <2>4. Reader!Paint(out')
      BY <2>1, BuilderAssumption
        DEF Reader!Paint, Reader!Reads, Inv, TypeInv, Together, Place, Around, Within,
            Named, BuilderAssumption, Reader!Keeping, Reader!Painting, paintingOps
    <2> QED BY <2>2, <2>3, <2>4 DEF Inv, Follows, Reader!RNext, Reader!Read
  <1> QED BY <1>1, <1>2

\* The colour operators.
LEMMA SetFillFollows ==
    ASSUME Inv, NEW name \in {"g", "cs"}, NEW fill \in Fill, SetFill(name, fill)
    PROVE  Inv' /\ Follows
  <1>1. CASE Fail
    BY <1>1, FailKeeps
  <1>2. CASE ~Fail
    <2>1. /\ out' = [name |-> name, fill |-> fill] /\ ~inPath
          /\ state' = [state EXCEPT !.fill = fill]
          /\ UNCHANGED <<err, spans, depth, inText, inPath, clipped, marked, textFloor, saved>>
          /\ colorOp' \in BOOLEAN
      BY <1>2
        DEF SetFill, Call, Named, Writes, Inv, TypeInv, OutOfPath, pathOps, paintingOps,
            Track
    <2>2. TypeInv'
      BY <2>1 DEF Inv, TypeInv, Together, Tracked
    <2>3. Together'
      BY <2>1, BuilderAssumption DEF Inv, TypeInv, Together, BuilderAssumption
    <2>4. Reader!SetSpace(out')
      BY <2>1, BuilderAssumption
        DEF Reader!SetSpace, Reader!Reads, Inv, TypeInv, Together, Place, Around, Within,
            Named, BuilderAssumption, Reader!Sets
    <2> QED BY <2>2, <2>3, <2>4 DEF Inv, Follows, Reader!RNext, Reader!Read
  <1> QED BY <1>1, <1>2

LEMMA SetStrokeFollows ==
    ASSUME Inv, NEW name \in {"G", "CS"}, NEW space \in {"other", "Uncoloured"}, SetStroke(name, space)
    PROVE  Inv' /\ Follows
  <1>1. CASE Fail
    BY <1>1, FailKeeps
  <1>2. CASE ~Fail
    <2>1. /\ out' = [name |-> name, space |-> space] /\ ~inPath
          /\ state' = [state EXCEPT !.stroke = space]
          /\ UNCHANGED <<err, spans, depth, inText, inPath, clipped, marked, textFloor, saved>>
          /\ colorOp' \in BOOLEAN
      BY <1>2
        DEF SetStroke, Call, Named, Writes, Inv, TypeInv, OutOfPath, pathOps, paintingOps,
            Track
    <2>2. TypeInv'
      BY <2>1 DEF Inv, TypeInv, Together, Tracked
    <2>3. Together'
      BY <2>1, BuilderAssumption DEF Inv, TypeInv, Together, BuilderAssumption
    <2>4. Reader!SetSpace(out')
      BY <2>1, BuilderAssumption
        DEF Reader!SetSpace, Reader!Reads, Inv, TypeInv, Together, Place, Around, Within,
            Named, BuilderAssumption, Reader!Sets
    <2> QED BY <2>2, <2>3, <2>4 DEF Inv, Follows, Reader!RNext, Reader!Read
  <1> QED BY <1>1, <1>2

LEMMA SetStrokeColorFollows ==
    ASSUME Inv, NEW comps, NEW pattern, SetStrokeColor(comps, pattern)
    PROVE  Inv' /\ Follows
  <1>1. CASE Fail
    BY <1>1, FailKeeps
  <1>2. CASE ~Fail
    <2>1. /\ out' = [name |-> "SCN", comps |-> comps, pattern |-> pattern]
          /\ ~inPath
          /\ (state.stroke = "Uncoloured") = (comps # "none" /\ pattern # "none")
          /\ UNCHANGED <<err, spans, depth, inText, inPath, clipped, marked, textFloor, state, saved>>
          /\ colorOp' \in BOOLEAN
      BY <1>2
        DEF SetStrokeColor, Call, Named, Writes, Inv, TypeInv, OutOfPath, pathOps,
            paintingOps, flags
    <2>2. TypeInv'
      BY <2>1 DEF Inv, TypeInv, Together
    <2>3. Together'
      BY <2>1, BuilderAssumption DEF Inv, TypeInv, Together, BuilderAssumption
    <2>4. Reader!SetStrokeColor(out')
      BY <2>1, BuilderAssumption
        DEF Reader!SetStrokeColor, Reader!Reads, Inv, TypeInv, Together, Place, Around,
            Within, Named, BuilderAssumption, Reader!Sets, Reader!Operands
    <2> QED BY <2>2, <2>3, <2>4 DEF Inv, Follows, Reader!RNext, Reader!Read
  <1> QED BY <1>1, <1>2

\* The text operators and marked content.
LEMMA BeginTextFollows == ASSUME Inv, BeginText PROVE Inv' /\ Follows
  <1>1. CASE Fail
    BY <1>1, FailKeeps
  <1>2. CASE ~Fail
    <2>1. /\ out' = Named("BT") /\ ~inText /\ ~inPath
          /\ inText' = TRUE /\ textFloor' = marked
          /\ UNCHANGED <<err, spans, depth, inPath, clipped, marked, state, saved>>
          /\ colorOp' \in BOOLEAN
      BY <1>2 DEF BeginText, Call, Named, Writes, Inv, TypeInv
    <2>2. TypeInv'
      BY <2>1 DEF Inv, TypeInv, Together
    <2>3. Together'
      BY <2>1, BuilderAssumption DEF Inv, TypeInv, Together, BuilderAssumption
    <2>4. Reader!BeginText(out')
      BY <2>1, BuilderAssumption
        DEF Reader!BeginText, Reader!Reads, Inv, TypeInv, Together, Place, Around, Within,
            Named, BuilderAssumption, Reader!Keeping
    <2> QED BY <2>2, <2>3, <2>4 DEF Inv, Follows, Reader!RNext, Reader!Read
  <1> QED BY <1>1, <1>2

LEMMA EndTextFollows == ASSUME Inv, EndText PROVE Inv' /\ Follows
  <1>1. CASE Fail
    BY <1>1, FailKeeps
  <1>2. CASE ~Fail
    <2>1. /\ out' = Named("ET") /\ ~inPath /\ inText /\ ~(marked > textFloor)
          /\ inText' = FALSE
          /\ UNCHANGED <<err, spans, depth, inPath, clipped, marked, textFloor, state, saved>>
          /\ colorOp' \in BOOLEAN
      BY <1>2
        DEF EndText, Call, Named, Writes, Inv, TypeInv, OutOfPath, pathOps, paintingOps
    <2>2. TypeInv'
      BY <2>1 DEF Inv, TypeInv, Together
    <2>3. Together'
      BY <2>1, BuilderAssumption DEF Inv, TypeInv, Together, BuilderAssumption
    <2>4. Reader!EndText(out')
      BY <2>1, BuilderAssumption
        DEF Reader!EndText, Reader!Reads, Inv, TypeInv, Together, Place, Around, Within,
            Named, BuilderAssumption, Reader!Keeping
    <2> QED BY <2>2, <2>3, <2>4 DEF Inv, Follows, Reader!RNext, Reader!Read
  <1> QED BY <1>1, <1>2

LEMMA TextOpFollows == ASSUME Inv, NEW name, TextOp(name) PROVE Inv' /\ Follows
  <1>1. CASE Fail
    BY <1>1, FailKeeps
  <1>2. CASE ~Fail
    <2>1. /\ out' = Named(name) /\ ~inPath /\ inText /\ name \in {"Td", "Tj"}
          /\ UNCHANGED <<err, spans, depth, inText, inPath, clipped, marked, textFloor, state, saved>>
          /\ colorOp' \in BOOLEAN
      BY <1>2
        DEF TextOp, Call, Named, Writes, Inv, TypeInv, OutOfPath, pathOps, paintingOps,
            flags
    <2>2. TypeInv'
      BY <2>1 DEF Inv, TypeInv, Together
    <2>3. Together'
      BY <2>1, BuilderAssumption DEF Inv, TypeInv, Together, BuilderAssumption
    <2>4. Reader!Text(out')
      BY <2>1, BuilderAssumption
        DEF Reader!Text, Reader!Reads, Inv, TypeInv, Together, Place, Around, Within, Named,
            BuilderAssumption, Reader!Keeping, Reader!TextOnly
    <2> QED BY <2>2, <2>3, <2>4 DEF Inv, Follows, Reader!RNext, Reader!Read
  <1> QED BY <1>1, <1>2

LEMMA SetFontFollows == ASSUME Inv, NEW f \in Fonts, SetFont(f) PROVE Inv' /\ Follows
  <1>1. CASE Fail
    BY <1>1, FailKeeps
  <1>2. CASE ~Fail
    <2>1. /\ out' = [name |-> "Tf", font |-> f] /\ ~inPath /\ inText
          /\ state' = [state EXCEPT !.font = f]
          /\ UNCHANGED <<err, spans, depth, inText, inPath, clipped, marked, textFloor, saved>>
          /\ colorOp' \in BOOLEAN
      BY <1>2
        DEF SetFont, Call, Named, Writes, Inv, TypeInv, OutOfPath, pathOps, paintingOps,
            Track
    <2>2. TypeInv'
      BY <2>1 DEF Inv, TypeInv, Together, Tracked
    <2>3. Together'
      BY <2>1, BuilderAssumption DEF Inv, TypeInv, Together, BuilderAssumption
    <2>4. Reader!SetFont(out')
      BY <2>1, BuilderAssumption
        DEF Reader!SetFont, Reader!Reads, Inv, TypeInv, Together, Place, Around, Within,
            Named, BuilderAssumption, Reader!Sets
    <2> QED BY <2>2, <2>3, <2>4 DEF Inv, Follows, Reader!RNext, Reader!Read
  <1> QED BY <1>1, <1>2

LEMMA BeginMarkedFollows == ASSUME Inv, BeginMarked PROVE Inv' /\ Follows
  <1>1. CASE Fail
    BY <1>1, FailKeeps
  <1>2. CASE ~Fail
    <2>1. /\ out' = Named("BDC") /\ ~inPath
          /\ marked' = marked + 1
          /\ UNCHANGED <<err, spans, depth, inText, inPath, clipped, textFloor, state, saved>>
          /\ colorOp' \in BOOLEAN
      BY <1>2
        DEF BeginMarked, Call, Named, Writes, Inv, TypeInv, OutOfPath, pathOps, paintingOps,
            Begun
    <2>2. TypeInv'
      BY <2>1 DEF Inv, TypeInv, Together
    <2>3. Together'
      BY <2>1, BuilderAssumption DEF Inv, TypeInv, Together, BuilderAssumption
    <2>4. Reader!BeginMarked(out')
      BY <2>1, BuilderAssumption
        DEF Reader!BeginMarked, Reader!Reads, Inv, TypeInv, Together, Place, Around, Within,
            Named, BuilderAssumption
    <2> QED BY <2>2, <2>3, <2>4 DEF Inv, Follows, Reader!RNext, Reader!Read
  <1> QED BY <1>1, <1>2

LEMMA EndMarkedFollows == ASSUME Inv, EndMarked PROVE Inv' /\ Follows
  <1>1. CASE Fail
    BY <1>1, FailKeeps
  <1>2. CASE ~Fail
    <2>1. /\ out' = Named("EMC") /\ ~inPath /\ marked # 0 /\ ~(inText /\ marked = textFloor)
          /\ marked' = marked - 1
          /\ UNCHANGED <<err, spans, depth, inText, inPath, clipped, textFloor, state, saved>>
          /\ colorOp' \in BOOLEAN
      BY <1>2
        DEF EndMarked, Call, Named, Writes, Inv, TypeInv, OutOfPath, pathOps, paintingOps,
            Ended, NotOpen
    <2>2. TypeInv'
      BY <2>1 DEF Inv, TypeInv, Together
    <2>3. Together'
      BY <2>1, BuilderAssumption DEF Inv, TypeInv, Together, BuilderAssumption
    <2>4. Reader!EndMarked(out')
      BY <2>1, BuilderAssumption
        DEF Reader!EndMarked, Reader!Reads, Inv, TypeInv, Together, Place, Around, Within,
            Named, BuilderAssumption
    <2> QED BY <2>2, <2>3, <2>4 DEF Inv, Follows, Reader!RNext, Reader!Read
  <1> QED BY <1>1, <1>2

\* scn: the tracked space decides which operands it may have.
LEMMA SetColorFollows == ASSUME Inv, NEW c \in Comps, SetColor(c) PROVE Inv' /\ Follows
  <1>1. CASE Fail
    BY <1>1, FailKeeps
  <1>2. CASE ~Fail
    <2>1. /\ out' = Scn(c, "none") /\ ~inPath /\ ~Uncoloured
          /\ state' = IF state.fill = Unset THEN state
                       ELSE [state EXCEPT !.fill = FillOf(state.fill.space, c, "none")]
          /\ UNCHANGED <<err, spans, depth, inText, inPath, clipped, marked, textFloor, saved>>
          /\ colorOp' \in BOOLEAN
      BY <1>2
        DEF SetColor, Call, Named, Writes, Inv, TypeInv, OutOfPath, pathOps, paintingOps,
            Track, flags, Scn
    <2>2. state' \in Tracked
      <3>1. CASE state.fill = Unset
        BY <3>1, <2>1 DEF Inv, TypeInv
      <3>2. CASE state.fill # Unset
        <4>1. state.fill \in Fill
          BY <3>2 DEF Inv, TypeInv, Tracked
        <4>2. FillOf(state.fill.space, c, "none") \in Fill
          BY <4>1 DEF Fill, FillOf
        <4> QED BY <3>2, <4>2, <2>1 DEF Inv, TypeInv, Tracked
      <3> QED BY <3>1, <3>2
    <2>3. TypeInv'
      BY <2>1, <2>2, Zenon DEF Inv, TypeInv
    <2>4. Together'
      BY <2>1, BuilderAssumption DEF Inv, TypeInv, Together, BuilderAssumption
    <2>5. Reader!SetColor(out')
      BY <2>1, BuilderAssumption
        DEF Reader!SetColor, Reader!Reads, Inv, TypeInv, Together, Place, Around, Within,
            Named, BuilderAssumption, Reader!Sets, Reader!Operands, Scn, FillOf, Uncoloured
    <2> QED BY <2>3, <2>4, <2>5 DEF Inv, Follows, Reader!RNext, Reader!Read
  <1> QED BY <1>1, <1>2

LEMMA SetPatternFollows == ASSUME Inv, NEW p \in Patterns, SetPattern(p) PROVE Inv' /\ Follows
  <1>1. CASE Fail
    BY <1>1, FailKeeps
  <1>2. CASE ~Fail
    <2>1. /\ out' = Scn("none", p) /\ ~inPath /\ ~Uncoloured
          /\ state' = [state EXCEPT !.fill = FillOf("Pattern", "none", p)]
          /\ UNCHANGED <<err, spans, depth, inText, inPath, clipped, marked, textFloor, saved>>
          /\ colorOp' \in BOOLEAN
      BY <1>2
        DEF SetPattern, Call, Named, Writes, Inv, TypeInv, OutOfPath, pathOps, paintingOps,
            Track, flags, Scn
    <2>2. TypeInv'
      BY <2>1 DEF Inv, TypeInv, Together, Tracked, Fill, FillOf, Spaces
    <2>3. Together'
      BY <2>1, BuilderAssumption DEF Inv, TypeInv, Together, BuilderAssumption
    <2>4. Reader!SetColor(out')
      BY <2>1, BuilderAssumption
        DEF Reader!SetColor, Reader!Reads, Inv, TypeInv, Together, Place, Around, Within,
            Named, BuilderAssumption, Reader!Sets, Reader!Operands, Scn, FillOf, Uncoloured
    <2> QED BY <2>2, <2>3, <2>4 DEF Inv, Follows, Reader!RNext, Reader!Read
  <1> QED BY <1>1, <1>2

LEMMA SetUncoloredFollows ==
    ASSUME Inv, NEW c \in Comps, NEW p \in Patterns, SetUncoloredPattern(c, p)
    PROVE  Inv' /\ Follows
  <1>1. CASE Fail
    BY <1>1, FailKeeps
  <1>2. CASE ~Fail
    <2>1. /\ out' = Scn(c, p) /\ ~inPath /\ Uncoloured
          /\ state' = [state EXCEPT !.fill = FillOf(state.fill.space, c, p)]
          /\ UNCHANGED <<err, spans, depth, inText, inPath, clipped, marked, textFloor, saved>>
          /\ colorOp' \in BOOLEAN
      BY <1>2
        DEF SetUncoloredPattern, Call, Named, Writes, Inv, TypeInv, OutOfPath, pathOps,
            paintingOps, Track, flags, Scn
    <2>2. TypeInv'
      BY <2>1 DEF Inv, TypeInv, Together, Tracked, Fill, FillOf, Uncoloured
    <2>3. Together'
      BY <2>1, BuilderAssumption DEF Inv, TypeInv, Together, BuilderAssumption
    <2>4. Reader!SetColor(out')
      BY <2>1, BuilderAssumption
        DEF Reader!SetColor, Reader!Reads, Inv, TypeInv, Together, Place, Around, Within,
            Named, BuilderAssumption, Reader!Sets, Reader!Operands, Scn, FillOf, Uncoloured
    <2> QED BY <2>2, <2>3, <2>4 DEF Inv, Follows, Reader!RNext, Reader!Read
  <1> QED BY <1>1, <1>2

\* ShowTextAdjusted writes nothing itself.
LEMMA ShowFollows == ASSUME Inv, NEW list \in SpanLists, ShowTextAdjusted(list) PROVE Inv' /\ Follows
  <1>1. "TJ" \in Spans /\ "BDC" \in Spans /\ "EMC" \in Spans
    BY DEF Spans
  <1>2. /\ <<"TJ">> \in Seq(Spans)
        /\ <<"BDC", "EMC">> \in Seq(Spans)
        /\ <<"TJ", "BDC", "TJ", "EMC", "TJ">> \in Seq(Spans)
    BY <1>1
  <1>3. list \in Seq(Spans)
    BY <1>2 DEF SpanLists
  <1>4. UNCHANGED <<out, err, flags, colorOp>> /\ spans' = list
    BY DEF ShowTextAdjusted
  <1>5. Inv'
    BY <1>3, <1>4 DEF Inv, TypeInv, Together, flags
  <1>6. UNCHANGED Reader!reader
    BY <1>4 DEF flags, Reader!reader, Place, Around, Within
  <1> QED BY <1>5, <1>6 DEF Follows

\* and each stretch is an operator a reader takes there.
LEMMA SpanFollows == ASSUME Inv, WriteSpan PROVE Inv' /\ Follows
  <1> DEFINE name == Head(spans)
  <1>1. CASE Fail
    BY <1>1, FailKeeps
  <1>2. CASE ~Fail
    <2>1. name \in Spans /\ spans' \in Seq(Spans)
      <3>1. spans # <<>> /\ spans' = Tail(spans)
        BY <1>2 DEF WriteSpan
      <3> QED BY <3>1 DEF Inv, TypeInv
    <2>2. /\ out' = Named(name) /\ ~inPath
          /\ UNCHANGED <<err, colorOp>>
      BY <1>2, <2>1 DEF WriteSpan, OutOfPath, pathOps, paintingOps, Spans, Inv, TypeInv
    <2>3. CASE name = "TJ"
      <3>1. inText /\ UNCHANGED flags
        BY <1>2, <2>3 DEF WriteSpan
      <3>2. Inv'
        BY <2>1, <2>2, <3>1 DEF Inv, TypeInv, Together, flags
      <3>3. Reader!Text(out')
        BY <2>2, <2>3, <3>1
          DEF Reader!Text, Reader!TextOnly, Reader!Keeping, Reader!Reads, Place, Around,
              Within, Named, flags
      <3> QED BY <3>2, <3>3 DEF Follows, Reader!RNext, Reader!Read
    <2>4. CASE name = "BDC"
      <3>1. Begun
        BY <1>2, <2>4 DEF WriteSpan
      <3>2. Inv'
        BY <2>1, <2>2, <3>1 DEF Inv, TypeInv, Together, Begun
      <3>3. Reader!BeginMarked(out')
        BY <2>2, <2>4, <3>1
          DEF Reader!BeginMarked, Reader!Reads, Inv, TypeInv, Together, Place, Around,
              Within, Named, Begun
      <3> QED BY <3>2, <3>3 DEF Follows, Reader!RNext, Reader!Read
    <2>5. CASE name = "EMC"
      <3>1. Ended /\ ~NotOpen
        BY <1>2, <2>5 DEF WriteSpan
      <3>2. Inv'
        BY <2>1, <2>2, <3>1 DEF Inv, TypeInv, Together, Ended, NotOpen
      <3>3. Reader!EndMarked(out')
        BY <2>2, <2>5, <3>1
          DEF Reader!EndMarked, Reader!Reads, Inv, TypeInv, Together, Place, Around, Within,
              Named, Ended, NotOpen
      <3> QED BY <3>2, <3>3 DEF Follows, Reader!RNext, Reader!Read
    <2> QED BY <2>1, <2>3, <2>4, <2>5 DEF Spans
  <1> QED BY <1>1, <1>2

-----------------------------------------------------------------------------

\* One step of Builder is one of the reader, or none.
LEMMA Step == ASSUME Inv, [Next]_vars PROVE Inv' /\ Follows
  <1>1. CASE GraphicsCall
    BY <1>1, SaveFollows, RestoreFollows, PageLevelFollows, AnywhereFollows,
       BeginPathFollows, SegmentFollows, ClipFollows, PaintFollows
      DEF GraphicsCall
  <1>2. CASE ColourCall
    <2>1. ASSUME NEW c \in Comps, SetDevice(c) PROVE Inv' /\ Follows
      <3>1. FillOf("Device", c, "none") \in Fill
        BY DEF FillOf, Fill, Spaces
      <3> QED BY <2>1, <3>1, SetFillFollows DEF SetDevice
    <2>2. ASSUME NEW s \in Spaces, SetSpace(s) PROVE Inv' /\ Follows
      <3>1. PICK c \in Comps \cup {"none"} : SetFill("cs", FillOf(s, c, "none"))
        BY <2>2 DEF SetSpace
      <3>2. FillOf(s, c, "none") \in Fill
        BY DEF FillOf, Fill
      <3> QED BY <3>1, <3>2, SetFillFollows
    <2> QED BY <1>2, <2>1, <2>2, SetStrokeFollows, SetColorFollows, SetPatternFollows,
               SetUncoloredFollows, SetStrokeColorFollows
              DEF ColourCall
  <1>3. CASE TextCall
    BY <1>3, BeginTextFollows, EndTextFollows, TextOpFollows, SetFontFollows,
       BeginMarkedFollows, EndMarkedFollows, ShowFollows, SpanFollows
      DEF TextCall
  <1>4. CASE BadOperand
    BY <1>4, FailKeeps DEF BadOperand
  <1>5. CASE UNCHANGED vars
    BY <1>5
      DEF vars, flags, Inv, TypeInv, Together, Follows, Reader!reader, Place, Around, Within
  <1> QED BY <1>1, <1>2, <1>3, <1>4, <1>5 DEF Next, AfterError

\* The flags keep together: whatever is called, what the Builder saved is what
\* its q operators nested, and a text object never loses what was open before it.
THEOREM FlagsTogether == Spec => []Inv
  <1>1. Init => Inv
    BY Begins
  <1>2. Inv /\ [Next]_vars => Inv'
    BY Step
  <1> QED BY <1>1, <1>2, PTL DEF Spec

\* Every stream is one a reader follows, to any nesting depth and with any
\* number of names: the Builder refuses every operator out of place.
THEOREM Followed == Spec => ReaderFollows
  <1>1. Init => Reader!RInit
    BY Begins
  <1>2. Inv /\ [Next]_vars => [Reader!RNext]_Reader!reader
    BY Step DEF Follows
  <1> QED BY <1>1, <1>2, FlagsTogether, PTL DEF Spec, ReaderFollows, Reader!RSpec

\* A stream that Bytes gives out is a complete one.
THEOREM GivenComplete == Spec => []BytesComplete
  <1>1. Inv => BytesComplete
    BY
      DEF Inv, TypeInv, Together, BytesComplete, Finished, Reader!Complete, Place, Around,
          Within
  <1> QED BY <1>1, FlagsTogether, PTL

-----------------------------------------------------------------------------
(* Importing pages: facts about sequences and finite sets.                  *)

\* Some numbers have a least one.
LEMMA LeastIs ==
    ASSUME NEW S, S \subseteq Nat, S # {}
    PROVE  \E x \in S : \A y \in S : x <= y
  <1> DEFINE R == {ss \in Nat \X Nat : ss[1] < ss[2]}
  <1>1. R = OpToRel(<, Nat)
    BY DEF OpToRel
  <1>2. IsWellFoundedOn(R, Nat)
    BY <1>1, NatLessThanWellFounded
  <1>3. \A x, y \in Nat : <<y, x>> \in R <=> y < x
    OBVIOUS
  <1> HIDE DEF R
  <1>4. PICK x \in S : \A y \in S : ~(<<y, x>> \in R)
    BY <1>2, WFMin
  <1>5. \A y \in S : x <= y
    <2> TAKE y \in S
    <2>1. ~(y < x) /\ x \in Nat /\ y \in Nat
      BY <1>3, <1>4
    <2> QED BY <2>1
  <1> QED BY <1>5

\* How many of some places come up to one of them.
LEMMA RankIs ==
    ASSUME NEW n \in Nat, NEW S, S \subseteq 1..n
    PROVE  LET rank(k) == Cardinality({j \in S : j <= k})
           IN  /\ Cardinality(S) \in Nat /\ IsFiniteSet(S)
               /\ \A k \in S : rank(k) \in 1..Cardinality(S)
               /\ \A k, l \in S : rank(k) = rank(l) => k = l
               /\ \A i \in 1..Cardinality(S) : \E k \in S : rank(k) = i
  <1> DEFINE upto(k) == {j \in S : j <= k}
             rank(k) == Cardinality(upto(k))
             m == Cardinality(S)
  <1>1. IsFiniteSet(S) /\ m \in Nat
    <2>1. IsFiniteSet(1..n)
      BY FS_Interval
    <2> QED BY <2>1, FS_Subset, FS_CardinalityType
  <1>2. \A k : IsFiniteSet(upto(k)) /\ rank(k) \in Nat /\ rank(k) <= m
    <2> TAKE k
    <2>1. upto(k) \in SUBSET S
      OBVIOUS
    <2> HIDE DEF upto
    <2> QED BY <1>1, <2>1, FS_Subset, FS_CardinalityType
  <1>3. \A k \in S : rank(k) \in 1..m
    <2> TAKE k \in S
    <2>1. k \in upto(k)
      BY DEF upto
    <2>2. upto(k) # {}
      BY <2>1
    <2>3. rank(k) # 0
      <3> HIDE DEF upto
      <3> QED BY <1>2, <2>2, FS_EmptySet
    <2>4. rank(k) \in Nat /\ rank(k) <= m
      BY <1>2
    <2> HIDE DEF rank, m, upto
    <2> QED BY <1>1, <2>3, <2>4
  <1>4. \A k, l \in S : k < l => rank(k) # rank(l)
    <2> TAKE k, l \in S
    <2> HAVE k < l
    <2>3. k \in Int /\ l \in Int /\ \A j \in S : j \in Int
      OBVIOUS
    <2>4. \A j \in S : j <= k => j <= l
      BY <2>3
    <2>5. l \in S /\ l <= l /\ ~(l <= k)
      BY <2>3
    <2>1. upto(k) \in SUBSET upto(l) /\ l \in upto(l) /\ l \notin upto(k)
      BY <2>4, <2>5
    <2> HIDE DEF upto
    <2>2. rank(k) = rank(l) => upto(k) = upto(l)
      BY <1>2, <2>1, FS_Subset
    <2> HIDE DEF rank
    <2> QED BY <2>1, <2>2
  <1>5. \A k, l \in S : rank(k) = rank(l) => k = l
    <2> TAKE k, l \in S
    <2>1. k \in Int /\ l \in Int
      OBVIOUS
    <2>2. k < l \/ l < k \/ k = l
      BY <2>1
    <2> HIDE DEF rank
    <2> QED BY <1>4, <2>2
  <1>6. \A i \in 1..m : \E k \in S : rank(k) = i
    <2> DEFINE f == [k \in S |-> rank(k)]
    <2> HIDE DEF rank, m
    <2>1. f \in Injection(S, 1..m)
      BY <1>3, <1>5 DEF Injection, IsInjective
    <2>2. IsFiniteSet(1..m) /\ Cardinality(1..m) = m
      BY <1>1, FS_Interval
    <2>3. f \in Surjection(S, 1..m)
      BY <2>1, <2>2, FS_Injection DEF m
    <2> QED BY <2>3 DEF Surjection
  <1> QED BY <1>1, <1>3, <1>5, <1>6

\* Only keeps what is in the set, and nothing else.
LEMMA OnlyIs ==
    ASSUME NEW n \in Nat, NEW s, DOMAIN s = 1..n, NEW S
    PROVE  /\ ToSet(Only(s, S)) = ToSet(s) \cap S
           /\ \E m \in Nat : DOMAIN Only(s, S) = 1..m
  <1> DEFINE K == {k \in DOMAIN s : s[k] \in S}
             rank(k) == Cardinality({j \in K : j <= k})
             m == Cardinality(K)
             T == Only(s, S)
  <1>1. T = [i \in 1..m |-> s[CHOOSE k \in K : rank(k) = i]]
    BY DEF Only, Picked
  <1>2. /\ m \in Nat
        /\ \A k \in K : rank(k) \in 1..m
        /\ \A k, l \in K : rank(k) = rank(l) => k = l
        /\ \A i \in 1..m : \E k \in K : rank(k) = i
    <2>1. K \subseteq 1..n
      OBVIOUS
    <2> HIDE DEF K
    <2> QED BY <2>1, RankIs
  <1>3. \A k \in K : k \in DOMAIN s /\ s[k] \in S
    OBVIOUS
  <1>4. \A k \in DOMAIN s : s[k] \in S => k \in K
    OBVIOUS
  <1> HIDE DEF K, rank, m
  <1>5. \A x \in ToSet(T) : x \in ToSet(s) \cap S
    <2> SUFFICES ASSUME NEW i \in 1..m PROVE T[i] \in ToSet(s) \cap S
      BY <1>1 DEF ToSet
    <2>1. PICK k \in K : T[i] = s[k]
      BY <1>1, <1>2
    <2> QED BY <1>3, <2>1 DEF ToSet
  <1>6. \A x \in ToSet(s) \cap S : x \in ToSet(T)
    <2> SUFFICES ASSUME NEW k \in DOMAIN s, s[k] \in S PROVE s[k] \in ToSet(T)
      BY DEF ToSet
    <2>1. k \in K /\ rank(k) \in 1..m
      BY <1>2, <1>4
    <2>2. (CHOOSE l \in K : rank(l) = rank(k)) = k
      BY <1>2, <2>1
    <2>3. T[rank(k)] = s[k]
      BY <1>1, <2>1, <2>2
    <2> QED BY <1>1, <2>1, <2>3 DEF ToSet
  <1> QED BY <1>1, <1>2, <1>5, <1>6

\* A finite set as a sequence.
LEMMA SetToSeqIs ==
    ASSUME NEW S, IsFiniteSet(S)
    PROVE  /\ ToSet(SetToSeq(S)) = S
           /\ \E m \in Nat : SetToSeq(S) \in [1..m -> S]
  <1> DEFINE m == Cardinality(S)
             s == SetToSeq(S)
  <1>1. m \in Nat /\ ExistsBijection(1..m, S)
    BY FS_CardinalityType
  <1>2. \E f \in [1..m -> S] : IsInjective(f)
    BY <1>1 DEF ExistsBijection, Bijection, Injection
  <1>3. s \in [1..m -> S] /\ IsInjective(s)
    BY <1>2 DEF SetToSeq
  <1>4. s \in Surjection(1..m, S)
    <2>1. s \in Injection(1..m, S)
      BY <1>3 DEF Injection
    <2>2. IsFiniteSet(1..m) /\ Cardinality(1..m) = m
      BY <1>1, FS_Interval
    <2> HIDE DEF s
    <2> QED BY <2>1, <2>2, FS_Injection
  <1> HIDE DEF s
  <1>5. ToSet(s) = S
    BY <1>3, <1>4 DEF Surjection, ToSet
  <1> QED BY <1>1, <1>3, <1>5 DEF s

LEMMA SequenceIs ==
    ASSUME NEW s, IsSequence(s)
    PROVE  Len(s) \in Nat /\ DOMAIN s = 1..Len(s)
  BY DEF IsSequence

-----------------------------------------------------------------------------
(* What is imported.                                                        *)

\* The first copy of a page asked for.
LEMMA FirstCopy ==
    ASSUME IsRequest(ask, src), NEW p \in ToSet(ask)
    PROVE  [of |-> p, ord |-> 0] \in Instances
  <1> DEFINE S == {i \in DOMAIN ask : ask[i] = p}
  <1>1. S \subseteq Nat /\ S # {} /\ DOMAIN ask = 1..Len(ask) /\ Len(ask) \in Nat
    <2>1. Len(ask) \in Nat /\ DOMAIN ask = 1..Len(ask)
      BY SequenceIs DEF IsRequest
    <2> QED BY <2>1 DEF ToSet
  <1>2. PICK i \in S : \A j \in S : i <= j
    <2> HIDE DEF S
    <2> QED BY <1>1, LeastIs
  <1>3. i \in DOMAIN ask /\ ask[i] = p /\ i \in Nat
    BY <1>1
  <1>4. {j \in 1..(i - 1) : ask[j] = ask[i]} = {}
    <2> SUFFICES ASSUME NEW j \in 1..(i - 1), ask[j] = ask[i] PROVE FALSE
      OBVIOUS
    <2>1. j \in DOMAIN ask /\ j \in Nat /\ j < i
      BY <1>1, <1>3
    <2>2. j \in S
      BY <1>3, <2>1
    <2> QED BY <1>2, <1>3, <2>1, <2>2
  <1>5. Instance(i) = [of |-> p, ord |-> 0]
    BY <1>3, <1>4, FS_EmptySet DEF Instance
  <1> QED BY <1>3, <1>5 DEF Instances

\* A repetition is of a page asked for.
LEMMA InstanceIs ==
    ASSUME NEW i \in DOMAIN ask
    PROVE  /\ Instance(i) \in Instances
           /\ Instance(i).of = ask[i]
           /\ Instance(i) = [of |-> ask[i], ord |-> Instance(i).ord]
  BY DEF Instance, Instances

\* What a document's shape says of one object.
LEMMA ObjectIs ==
    ASSUME IsDocument(src), NEW n \in Nodes
    PROVE  LET o == src.object[n] IN
           /\ o.type # "null"
           /\ \A k \in Keys : Len(o.ref[k]) \in Nat /\ DOMAIN o.ref[k] = 1..Len(o.ref[k])
           /\ o.dest # None => o.type \in {"Link", "GoTo"}
           /\ Len(o.ref["A"]) <= 1
           /\ \A a \in ToSet(o.ref["A"]) \cap Nodes : src.object[a].type \notin {"page", "Link"}
           /\ \A a \in ToSet(o.ref["Annots"]) :
                /\ o.type = "page"
                /\ a \in Nodes => src.object[a].type \notin {"page", "GoTo", "Thread"}
           /\ o.type = "page" => \A r \in ToSet(o.ref["Refs"]), m \in Nodes :
                r \notin ToSet(src.object[m].ref["Annots"]) \cup ToSet(src.object[m].ref["Parent"])
  BY SequenceIs DEF IsDocument, Nodes

\* A link drops out by itself or by its action, which is no link.
LEMMA DropsOutIs ==
    ASSUME IsDocument(src), NEW n \in Nodes
    PROVE  LET o == src.object[n]
           IN  dropsOut[n] <=>
                 \/ o.type = "GoTo" /\ ~Imported(o.dest)
                 \/ o.type = "Thread"
                 \/ o.type = "Link" /\ o.dest # None /\ ~Imported(o.dest)
                 \/ /\ o.type = "Link" /\ o.dest = None
                    /\ \E a \in ToSet(o.ref["A"]) : a \in Nodes /\ dropsOut[a]
  <1> DEFINE base(m) == LET o == src.object[m] IN
                 \/ o.type = "GoTo" /\ ~Imported(o.dest)
                 \/ o.type = "Thread"
                 \/ o.type = "Link" /\ o.dest # None /\ ~Imported(o.dest)
             link(m) == src.object[m].type = "Link" /\ src.object[m].dest = None
             acts(m) == ToSet(src.object[m].ref["A"])
             body(f, m) == LET o == src.object[m]
                           IN  \/ o.type = "GoTo" /\ ~Imported(o.dest)
                               \/ o.type = "Thread"
                               \/ o.type = "Link" /\ o.dest # None /\ ~Imported(o.dest)
                               \/ /\ o.type = "Link" /\ o.dest = None
                                  /\ \E a \in ToSet(o.ref["A"]) : a \in Nodes /\ f[a]
             F(f) == [m \in Nodes |-> body(f, m)]
             G == [m \in Nodes |-> base(m) \/ (link(m) /\ \E a \in acts(m) : a \in Nodes /\ base(a))]
  <1>1. \A m \in Nodes, a \in Nodes : a \in acts(m) => ~link(a)
    BY ObjectIs
  <1>2. dropsOut = CHOOSE f : f = F(f)
    BY Zenon DEF dropsOut
  <1>3. \A f : \A m \in Nodes :
           body(f, m) = (base(m) \/ (link(m) /\ \E a \in acts(m) : a \in Nodes /\ f[a]))
    <2> TAKE f
    <2> TAKE m \in Nodes
    <2>1. body(f, m) <=> (base(m) \/ (link(m) /\ \E a \in acts(m) : a \in Nodes /\ f[a]))
      OBVIOUS
    <2> QED BY <2>1
  <1> HIDE DEF base, link, acts, body
  <1>4. G = F(G)
    <2>1. \A a \in Nodes : G[a] = (base(a) \/ (link(a) /\ \E b \in acts(a) : b \in Nodes /\ base(b)))
      BY Zenon
    <2>2. \A m \in Nodes : G[m] = body(G, m)
      <3> HIDE DEF G
      <3>1. \A m \in Nodes, a \in Nodes : a \in acts(m) => (G[a] <=> base(a))
        <4> TAKE m \in Nodes, a \in Nodes
        <4> HAVE a \in acts(m)
        <4>1. ~link(a)
          BY <1>1
        <4>2. G[a] = (base(a) \/ (link(a) /\ \E b \in acts(a) : b \in Nodes /\ base(b)))
          BY <2>1
        <4> QED BY <4>1, <4>2
      <3> TAKE m \in Nodes
      <3> DEFINE one == base(m) \/ (link(m) /\ \E a \in acts(m) : a \in Nodes /\ base(a))
                 all == base(m) \/ (link(m) /\ \E a \in acts(m) : a \in Nodes /\ G[a])
      <3>2. one <=> all
        BY <3>1
      <3>3. one = all
        BY <3>2
      <3>4. G[m] = one /\ body(G, m) = all
        BY <1>3, <2>1, Zenon
      <3> HIDE DEF one, all
      <3> QED BY <3>3, <3>4
    <2>3. G = [m \in Nodes |-> G[m]]
      BY Zenon
    <2> HIDE DEF G
    <2> QED BY <2>2, <2>3, Zenon
  <1>5. dropsOut = F(dropsOut)
    <2> HIDE DEF F, G
    <2> QED BY <1>2, <1>4, Zenon
  <1>6. dropsOut[n] = body(dropsOut, n)
    <2> DEFINE d == dropsOut
    <2>1. d = F(d)
      BY <1>5
    <2> HIDE DEF d
    <2>2. d[n] = body(d, n)
      BY <2>1, Zenon
    <2> QED BY <2>2 DEF d
  <1> QED BY <1>6, Zenon DEF body

-----------------------------------------------------------------------------
(* What a copy refers to.                                                   *)

\* A sequence has finitely many elements.
LEMMA FiniteElements ==
    ASSUME NEW n \in Nat, NEW s, DOMAIN s = 1..n, s = [i \in 1..n |-> s[i]]
    PROVE  IsFiniteSet(ToSet(s))
  <1>1. s \in Surjection(1..n, ToSet(s))
    BY DEF Surjection, ToSet
  <1>2. IsFiniteSet(1..n)
    BY FS_Interval
  <1> QED BY <1>1, <1>2, FS_Surjection

\* The copied references are those of what is carried.
LEMMA CopiedRefs ==
    ASSUME NEW n \in Nat, NEW refs, DOMAIN refs = 1..n, NEW ord
    PROVE  LET copied == CopyRefs(refs, ord)
           IN  /\ \A m \in ToSet(refs) : Carried(m) => CopyOf(m, ord) \in ToSet(copied)
               /\ \A r \in ToSet(copied) : \E m \in ToSet(refs) : Carried(m) /\ r = CopyOf(m, ord)
               /\ IsFiniteSet(ToSet(copied))
  <1> DEFINE S == {m \in ToSet(refs) : Carried(m)}
             kept == Only(refs, S)
             copied == CopyRefs(refs, ord)
  <1>1. copied = [k \in DOMAIN kept |-> CopyOf(kept[k], ord)]
    BY DEF CopyRefs
  <1> HIDE DEF copied
  <1>2. ToSet(kept) = S /\ \E m \in Nat : DOMAIN kept = 1..m
    <2>1. ToSet(refs) \cap S = S
      OBVIOUS
    <2> HIDE DEF S
    <2> QED BY <2>1, OnlyIs
  <1> HIDE DEF kept
  <1>3. PICK m \in Nat : DOMAIN kept = 1..m
    BY <1>2
  <1>4. IsFiniteSet(ToSet(copied))
    <2>1. DOMAIN copied = 1..m /\ copied = [k \in 1..m |-> copied[k]]
      BY <1>1, <1>3
    <2> QED BY <2>1, FiniteElements
  <1>5. \A x \in S : CopyOf(x, ord) \in ToSet(copied)
    <2> TAKE x \in S
    <2>1. PICK k \in DOMAIN kept : kept[k] = x
      BY <1>2 DEF ToSet
    <2> QED BY <1>1, <2>1 DEF ToSet
  <1>6. \A r \in ToSet(copied) : \E x \in S : r = CopyOf(x, ord)
    <2> TAKE r \in ToSet(copied)
    <2>1. PICK k \in DOMAIN kept : r = CopyOf(kept[k], ord)
      BY <1>1 DEF ToSet
    <2>2. kept[k] \in S
      BY <1>2, <2>1 DEF ToSet
    <2> QED BY <2>1, <2>2
  <1>7. \A x \in ToSet(refs) : Carried(x) => x \in S
    OBVIOUS
  <1>8. \A x \in S : x \in ToSet(refs) /\ Carried(x)
    OBVIOUS
  <1> HIDE DEF S
  <1> QED BY <1>4, <1>5, <1>6, <1>7, <1>8 DEF copied

\* Two repetitions of a page refer to the same of what no annotation is.
LEMMA SameRefs ==
    ASSUME NEW n \in Nat, NEW refs, DOMAIN refs = 1..n, NEW a, NEW b,
           \A m \in ToSet(refs) : CopyOf(m, a) = CopyOf(m, b)
    PROVE  CopyRefs(refs, a) = CopyRefs(refs, b)
  <1> DEFINE S == {m \in ToSet(refs) : Carried(m)}
             kept == Only(refs, S)
  <1>1. ToSet(kept) = S
    <2>1. ToSet(refs) \cap S = S
      OBVIOUS
    <2> HIDE DEF S
    <2> QED BY <2>1, OnlyIs
  <1>2. S \subseteq ToSet(refs)
    OBVIOUS
  <1>3. /\ CopyRefs(refs, a) = [k \in DOMAIN kept |-> CopyOf(kept[k], a)]
        /\ CopyRefs(refs, b) = [k \in DOMAIN kept |-> CopyOf(kept[k], b)]
    BY DEF CopyRefs
  <1> HIDE DEF kept, S
  <1>4. \A k \in DOMAIN kept : kept[k] \in ToSet(refs)
    BY <1>1, <1>2 DEF ToSet
  <1> QED BY <1>3, <1>4

\* Before a copy is made, the pages asked for are there.
Prepared == IsDocument(src) /\ IsRequest(ask, src) /\ \A i \in DOMAIN ask : ask[i] \in Pages

\* What is carried and what is a page asked for are all that is reached.
LEMMA CarriedReached ==
    ASSUME Prepared, NEW n, Carried(n), NEW ord
    PROVE  Reached(CopyOf(n, ord))
  <1>1. CASE n \in Pages
    <2>1. n \in ToSet(ask) /\ CopyOf(n, ord) = [of |-> n, ord |-> 0]
      BY <1>1 DEF Carried, Imported, CopyOf
    <2> QED BY <2>1, FirstCopy DEF Reached, Prepared
  <1>2. CASE n \notin Pages
    <2>1. PICK x : x = IF ~IsBound(n) THEN 0 ELSE ord
      OBVIOUS
    <2>2. CopyOf(n, ord) = [of |-> n, ord |-> x]
      BY <1>2, <2>1 DEF CopyOf
    <2> QED BY <1>2, <2>2 DEF Reached
  <1> QED BY <1>1, <1>2

\* The references of a copied value are finitely many, and all reached.
LEMMA ValueRefs ==
    ASSUME Prepared, NEW n \in Nodes, NEW ord
    PROVE  LET value == CopyDict(n, ord)
           IN  /\ IsFiniteSet(RefsOf(value))
               /\ \A r \in RefsOf(value) : Reached(r)
  <1> DEFINE value == CopyDict(n, ord)
             o == src.object[n]
  <1>1. \A k \in Keys : Len(o.ref[k]) \in Nat /\ DOMAIN o.ref[k] = 1..Len(o.ref[k])
    BY ObjectIs DEF Prepared
  <1>2. \A k \in Keys : value.ref[k] = IF k = "Kids" /\ n \in bound.nodes
                                       THEN KeptKids(o.ref[k], ord)
                                       ELSE CopyRefs(o.ref[k], ord)
    BY DEF CopyDict
  <1> HIDE DEF value, o
  <1>3. \A k \in Keys : \E m \in Nat : \E refs : DOMAIN refs = 1..m /\ value.ref[k] = CopyRefs(refs, ord)
    <2> TAKE k \in Keys
    <2>1. CASE k = "Kids" /\ n \in bound.nodes
      <3> DEFINE S == {x.of : x \in {b \in bound.keep : b.ord = ord}}
                 only == Only(o.ref[k], S)
      <3>1. value.ref[k] = CopyRefs(only, ord)
        BY <1>2, <2>1 DEF KeptKids
      <3> HIDE DEF S
      <3>2. \E m \in Nat : DOMAIN only = 1..m
        BY <1>1, OnlyIs
      <3> HIDE DEF only
      <3> QED BY <3>1, <3>2
    <2>2. CASE ~(k = "Kids" /\ n \in bound.nodes)
      BY <1>1, <1>2, <2>2
    <2> QED BY <2>1, <2>2
  <1>4. \A k \in Keys : /\ IsFiniteSet(ToSet(value.ref[k]))
                        /\ \A r \in ToSet(value.ref[k]) : Reached(r)
    <2> TAKE k \in Keys
    <2>3. PICK m \in Nat : \E refs : DOMAIN refs = 1..m /\ value.ref[k] = CopyRefs(refs, ord)
      BY <1>3
    <2>1. PICK refs : DOMAIN refs = 1..m /\ value.ref[k] = CopyRefs(refs, ord)
      BY <2>3
    <2>2. /\ IsFiniteSet(ToSet(CopyRefs(refs, ord)))
          /\ \A r \in ToSet(CopyRefs(refs, ord)) : \E x \in ToSet(refs) : Carried(x) /\ r = CopyOf(x, ord)
      BY <2>1, CopiedRefs
    <2> QED BY <2>1, <2>2, CarriedReached
  <1>5. \A r \in RefsOf(value) : Reached(r)
    BY <1>4 DEF RefsOf
  <1>6. IsFiniteSet(RefsOf(value))
    <2> DEFINE part(k) == ToSet(value.ref[k])
    <2>1. RefsOf(value) = part("Annots") \cup (part("Kids") \cup (part("Parent") \cup
                            (part("A") \cup (part("Next") \cup part("Refs")))))
      BY DEF RefsOf, Keys
    <2>2. /\ IsFiniteSet(part("Annots")) /\ IsFiniteSet(part("Kids")) /\ IsFiniteSet(part("Parent"))
          /\ IsFiniteSet(part("A")) /\ IsFiniteSet(part("Next")) /\ IsFiniteSet(part("Refs"))
      BY <1>4 DEF Keys
    <2> HIDE DEF part
    <2>3. IsFiniteSet(part("Next") \cup part("Refs"))
      BY <2>2, FS_Union
    <2>4. IsFiniteSet(part("A") \cup (part("Next") \cup part("Refs")))
      BY <2>2, <2>3, FS_Union
    <2>5. IsFiniteSet(part("Parent") \cup (part("A") \cup (part("Next") \cup part("Refs"))))
      BY <2>2, <2>4, FS_Union
    <2>6. IsFiniteSet(part("Kids") \cup (part("Parent") \cup (part("A") \cup (part("Next") \cup part("Refs")))))
      BY <2>2, <2>5, FS_Union
    <2>7. IsFiniteSet(part("Annots") \cup (part("Kids") \cup (part("Parent") \cup
                        (part("A") \cup (part("Next") \cup part("Refs"))))))
      BY <2>2, <2>6, FS_Union
    <2> QED BY <2>1, <2>7
  <1> QED BY <1>5, <1>6 DEF value

-----------------------------------------------------------------------------
(* The steps that copy.                                                     *)

\* dropsOut, of the document and of what is asked for.
DropsOutOf(document, asked) ==
    CHOOSE f : f =
      [n \in DOMAIN document.object |->
         LET o == document.object[n]
         IN  \/ o.type = "GoTo" /\ ~(o.dest \in ToSet(asked))
             \/ o.type = "Thread"
             \/ o.type = "Link" /\ o.dest # None /\ ~(o.dest \in ToSet(asked))
             \/ /\ o.type = "Link" /\ o.dest = None
                /\ \E a \in ToSet(o.ref["A"]) : a \in DOMAIN document.object /\ f[a]]

LEMMA DropsOutOfThem == dropsOut = DropsOutOf(src, ask)
  BY Zenon DEF dropsOut, DropsOutOf, Imported, Nodes

\* What is copied does not change while the import goes on.
LEMMA Unmoved ==
    ASSUME UNCHANGED <<given, bound>>
    PROVE  /\ Nodes' = Nodes /\ Pages' = Pages /\ Instances' = Instances
           /\ \A i : Instance(i)' = Instance(i)
           /\ \A n : Carried(n)' = Carried(n)
           /\ \A n, ord : CopyOf(n, ord)' = CopyOf(n, ord)
           /\ \A n, ord : CopyDict(n, ord)' = CopyDict(n, ord)
           /\ \A c : Reached(c)' = Reached(c)
  <1>1. src' = src /\ ask' = ask /\ dst' = dst /\ bound' = bound
    BY DEF given
  <1>2. Nodes' = Nodes /\ Pages' = Pages /\ Instances' = Instances
    BY <1>1 DEF Nodes, Pages, Instances, Instance
  <1>3. \A i : Instance(i)' = Instance(i)
    BY <1>1 DEF Instance
  <1>4. dropsOut' = dropsOut
    <2>1. (dropsOut = DropsOutOf(src, ask))'
      BY DropsOutOfThem, PTL
    <2>2. dropsOut' = DropsOutOf(src', ask')
      BY <2>1
    <2> QED BY <1>1, <2>2, DropsOutOfThem
  <1>5. \A n : Carried(n)' = Carried(n)
    BY <1>1, <1>2, <1>4 DEF Carried, Imported
  <1>6. \A n, ord : CopyOf(n, ord)' = CopyOf(n, ord)
    BY <1>1, <1>2 DEF CopyOf, IsBound
  <1>7. \A refs, ord : CopyRefs(refs, ord)' = CopyRefs(refs, ord)
    BY <1>5, <1>6 DEF CopyRefs
  <1>8. \A kids, ord : KeptKids(kids, ord)' = KeptKids(kids, ord)
    BY <1>1, <1>7 DEF KeptKids
  <1>9. \A p : remapDest(p)' = remapDest(p)
    BY <1>1 DEF remapDest, Imported
  <1>10. \A n, ord : CopyDict(n, ord)' = CopyDict(n, ord)
    BY <1>1, <1>7, <1>8, <1>9 DEF CopyDict
  <1>11. \A c : Reached(c)' = Reached(c)
    BY <1>2, <1>5 DEF Reached
  <1> QED BY <1>2, <1>3, <1>5, <1>6, <1>10, <1>11

\* A number is kept from one step to the next.
Blank(c) == "type" \in DOMAIN copies[c] /\ copies[c].type = "null"
Sound == \A c \in DOMAIN copies : Reached(c) /\ (Filled(c) \/ Blank(c))

\* Writing one value: it is the one of the source, and what it is first to refer
\* to is on the list.
LEMMA FillStep ==
    ASSUME Prepared, Sound, UNCHANGED <<given, bound>>,
           NEW c \in DOMAIN copies, c.of \in Nodes,
           NEW m \in Nat, NEW rest, rest \in [1..m -> ToSet(rest)],
           FillIn(c, rest)
    PROVE  /\ DOMAIN copies \subseteq DOMAIN copies'
           /\ Sound'
           /\ copies'[c].type # "null" /\ copies'[c].turn = src.object[c.of].turn
           /\ copies'[c].name = src.object[c.of].name
           /\ \A d \in DOMAIN copies' \ DOMAIN copies : copies'[d] = Empty
           /\ \A d \in DOMAIN copies \ {c} : copies'[d] = copies[d]
           /\ \A d \in DOMAIN copies' \ DOMAIN copies : d \in ToSet(pending') \/ d.of \notin Nodes
           /\ pending' \in Seq(ToSet(pending'))
           /\ \A d \in ToSet(pending') : \/ d \in ToSet(rest)
                                         \/ d \in DOMAIN copies' \ DOMAIN copies /\ d.of \in Nodes
           /\ ToSet(rest) \subseteq ToSet(pending')
  <1> DEFINE value == CopyDict(c.of, c.ord)
             refs == RefsOf(value)
             new == {d \in refs \ DOMAIN copies : d.of \in Nodes}
             list == SetToSeq(new)
  <1>1. /\ copies' = [[d \in refs \cup DOMAIN copies |-> IF d \in DOMAIN copies THEN copies[d] ELSE Empty]
                         EXCEPT ![c] = value]
        /\ pending' = list \o rest
    BY DEF FillIn, Numbered, ToFill
  <1>2. IsFiniteSet(refs) /\ \A r \in refs : Reached(r)
    BY ValueRefs
  <1>3. /\ value.type = src.object[c.of].type /\ value.turn = src.object[c.of].turn
        /\ value.name = src.object[c.of].name
        /\ DOMAIN value = {"type", "name", "turn", "dest", "p", "ref"}
    BY DEF CopyDict
  <1>4. src.object[c.of].type # "null"
    BY ObjectIs DEF Prepared
  <1> HIDE DEF value, refs
  <1>5. /\ DOMAIN copies' = refs \cup DOMAIN copies
        /\ copies'[c] = value
        /\ \A d \in DOMAIN copies \ {c} : copies'[d] = copies[d]
        /\ \A d \in refs \ DOMAIN copies : copies'[d] = Empty
    <2> DEFINE g == [d \in refs \cup DOMAIN copies |-> IF d \in DOMAIN copies THEN copies[d] ELSE Empty]
    <2>2. /\ DOMAIN g = refs \cup DOMAIN copies
          /\ \A d \in DOMAIN copies : g[d] = copies[d]
          /\ \A d \in refs \ DOMAIN copies : g[d] = Empty
      OBVIOUS
    <2>3. copies' = [g EXCEPT ![c] = value]
      BY <1>1
    <2> HIDE DEF g
    <2> QED BY <2>2, <2>3
  <1>6. UNCHANGED <<Nodes>> /\ (\A d : Reached(d)' = Reached(d)) /\ \A n, ord : CopyDict(n, ord)' = CopyDict(n, ord)
    BY Unmoved
  <1>7. Sound'
    <2> SUFFICES ASSUME NEW d \in DOMAIN copies'
                 PROVE  Reached(d)' /\ (Filled(d)' \/ Blank(d)')
      BY DEF Sound
    <2>1. Reached(d)'
      BY <1>2, <1>5, <1>6 DEF Sound
    <2>2. CASE d = c
      <3>1. RefsOf(CopyDict(d.of, d.ord)) \subseteq DOMAIN copies'
        BY <1>5, <2>2 DEF refs, value
      <3>2. /\ copies'[d] = CopyDict(d.of, d.ord)
            /\ DOMAIN copies'[d] = {"type", "name", "turn", "dest", "p", "ref"}
        BY <1>3, <1>5, <2>2 DEF value
      <3>3. CopyDict(d.of, d.ord)' = CopyDict(d.of, d.ord) /\ d.of \in Nodes'
        BY <1>6, <2>2
      <3>4. Filled(d)'
        BY <3>1, <3>2, <3>3 DEF Filled, RefsOf
      <3> QED BY <2>1, <3>4
    <2>3. CASE d # c /\ d \in DOMAIN copies
      <3>1. copies'[d] = copies[d] /\ DOMAIN copies \subseteq DOMAIN copies'
        BY <1>5, <2>3
      <3>2. CopyDict(d.of, d.ord)' = CopyDict(d.of, d.ord) /\ Nodes' = Nodes
        BY <1>6
      <3>3. Filled(d) => Filled(d)'
        BY <3>1, <3>2 DEF Filled, RefsOf
      <3>4. Blank(d) => Blank(d)'
        BY <3>1 DEF Blank
      <3> QED BY <2>1, <2>3, <3>3, <3>4 DEF Sound
    <2>4. CASE d \notin DOMAIN copies
      <3>1. copies'[d] = Empty
        BY <1>5, <2>4
      <3>2. Blank(d)'
        BY <3>1 DEF Blank, Empty
      <3> QED BY <2>1, <3>2
    <2> QED BY <2>2, <2>3, <2>4
  <1>8. ToSet(list) = new /\ \E l \in Nat : list \in [1..l -> new]
    <2>1. IsFiniteSet(new)
      <3>1. new \in SUBSET refs
        OBVIOUS
      <3> HIDE DEF new
      <3> QED BY <1>2, <3>1, FS_Subset
    <2> HIDE DEF new
    <2> QED BY <2>1, SetToSeqIs
  <1>9. PICK l \in Nat : list \in [1..l -> new]
    BY <1>8
  <1> HIDE DEF list, new
  <1>10. /\ pending' \in Seq(ToSet(pending'))
         /\ Len(pending') = l + m /\ DOMAIN pending' = 1..(l + m)
         /\ \A k \in 1..(l + m) : pending'[k] = IF k <= l THEN list[k] ELSE rest[k - l]
    <2> DEFINE T == new \cup ToSet(rest)
    <2>1. new \subseteq T /\ ToSet(rest) \subseteq T
      OBVIOUS
    <2> HIDE DEF T
    <2>2. list \in [1..l -> T] /\ rest \in [1..m -> T]
      BY <1>9, <2>1
    <2>3. list \in Seq(T) /\ rest \in Seq(T) /\ Len(list) = l /\ Len(rest) = m
      BY <2>2
    <2>4. list \o rest \in Seq(T) /\ Len(list \o rest) = l + m
      BY <2>3
    <2>5. \A k \in 1..(l + m) : (list \o rest)[k] = IF k <= l THEN list[k] ELSE rest[k - l]
      BY <2>3
    <2>6. pending' \in Seq(ToSet(pending'))
      <3>1. pending' = [k \in 1..(l + m) |-> pending'[k]] /\ l + m \in Nat
        <4>1. pending' \in [1..(l + m) -> T]
          BY <1>1, <2>4, LenProperties
        <4> QED BY <4>1
      <3>2. \A k \in 1..(l + m) : pending'[k] \in ToSet(pending')
        BY <3>1 DEF ToSet
      <3> QED BY <3>1, <3>2
    <2> QED BY <1>1, <2>4, <2>5, <2>6
  <1>11. \A d \in ToSet(pending') : d \in new \/ d \in ToSet(rest)
    <2> SUFFICES ASSUME NEW k \in 1..(l + m) PROVE pending'[k] \in new \/ pending'[k] \in ToSet(rest)
      BY <1>10 DEF ToSet
    <2>1. CASE k <= l
      <3>1. k \in 1..l
        BY <2>1
      <3> QED BY <1>9, <1>10, <2>1, <3>1
    <2>2. CASE ~(k <= l)
      <3>1. k - l \in 1..m
        BY <2>2
      <3> QED BY <1>10, <2>2, <3>1
    <2> QED BY <2>1, <2>2
  <1>12. new \subseteq ToSet(pending')
    <2> SUFFICES ASSUME NEW k \in 1..l PROVE list[k] \in ToSet(pending')
      BY <1>8, <1>9 DEF ToSet
    <2>1. k \in 1..(l + m) /\ k <= l
      OBVIOUS
    <2> QED BY <1>10, <2>1 DEF ToSet
  <1>13. ToSet(rest) \subseteq ToSet(pending')
    <2> SUFFICES ASSUME NEW k \in 1..m PROVE rest[k] \in ToSet(pending')
      BY DEF ToSet
    <2>1. k + l \in 1..(l + m) /\ ~(k + l <= l) /\ (k + l) - l = k
      OBVIOUS
    <2>2. pending'[k + l] = rest[k]
      BY <1>10, <2>1
    <2> QED BY <1>10, <2>1, <2>2 DEF ToSet
  <1>14. \A d \in DOMAIN copies' \ DOMAIN copies : d \in new \/ d.of \notin Nodes
    BY <1>5 DEF new
  <1>15. \A d \in new : d \in DOMAIN copies' \ DOMAIN copies /\ d.of \in Nodes
    BY <1>5 DEF new
  <1>16. \A d \in DOMAIN copies' \ DOMAIN copies : copies'[d] = Empty
    BY <1>5
  <1> QED BY <1>3, <1>4, <1>5, <1>7, <1>10, <1>11, <1>12, <1>13, <1>14, <1>15, <1>16
-----------------------------------------------------------------------------
(* Every step keeps what is true half-way.                                  *)

LEMMA IsReady ==
    ASSUME GivenInv, step \notin {"check", "refused"}
    PROVE  Prepared
  BY DEF GivenInv, Prepared

\* What is given and what is bound stay, so a copy that had its value has it.
LEMMA BoundStays ==
    ASSUME GivenInv, BoundInv, UNCHANGED <<given, bound>>, Copying' => Copying,
           step' \in {"check", "refused", "bind", "copy", "form", "catalog", "finish", "done"},
           step' \notin {"check", "refused"} => step \notin {"check", "refused"}
    PROVE  GivenInv' /\ BoundInv'
  <1>1. src' = src /\ ask' = ask /\ dst' = dst /\ bound' = bound
    BY DEF given
  <1>2. Pages' = Pages /\ (\A i : Instance(i)' = Instance(i)) /\ Drawn' = Drawn
    BY <1>1, Unmoved DEF Drawn
  <1>3. (\A i : Annots(i)' = Annots(i)) /\ \A i : Lists(i)' = Lists(i)
    BY <1>1, <1>2 DEF Annots, Lists
  <1>4. IsDocument(src)' /\ IsTarget(dst)' /\ OwnLayers(dst, src)' /\ IsRequest(ask, src)'
    BY <1>1 DEF GivenInv, IsDocument, IsTarget, OwnLayers, IsRequest
  <1>5. GivenInv'
    BY <1>1, <1>2, <1>4 DEF GivenInv
  <1>6. BoundInv'
    BY <1>1, <1>2, <1>3 DEF BoundInv
  <1> QED BY <1>5, <1>6

\* Every step after the numbers are given is between two of these.
LEMMA SoundIs ==
    ASSUME CopyInv, Copying
    PROVE  Sound
  BY DEF CopyInv, Sound, Blank

LEMMA InitInv ==
    ASSUME ImportInit
    PROVE  ImportInv
  <1>1. /\ src \in Documents /\ ask \in Requests /\ dst \in Targets /\ step = "check"
        /\ pending = <<>> /\ layers = dst.oc
    BY DEF ImportInit
  <1>2. IsDocument(src) /\ IsTarget(dst) /\ OwnLayers(dst, src) /\ IsRequest(ask, src)
    BY <1>1, ImportAssumption
  <1>3. GivenInv
    BY <1>1, <1>2 DEF GivenInv
  <1>4. ~Copying /\ ~Hung
    BY <1>1 DEF Copying, Hung
  <1> QED BY <1>1, <1>3, <1>4 DEF ImportInv, BoundInv, CopyInv, TurnInv, JoinInv

LEMMA BeginStep ==
    ASSUME ImportInv, Begin
    PROVE  ImportInv'
  <1>1. /\ step = "check" /\ UNCHANGED <<given, bound, pending, tree, layers>>
        /\ \/ step' = "refused"
           \/ step' = "bind" /\ ~Refused /\ copies' = [c \in Instances |-> Empty]
    BY DEF Begin
  <1>2. src' = src /\ ask' = ask /\ dst' = dst /\ layers' = layers /\ pending' = pending
    BY <1>1 DEF given
  <1>3. Pages' = Pages /\ Instances' = Instances
    BY <1>1, Unmoved
  <1>4. IsDocument(src)' /\ IsTarget(dst)' /\ OwnLayers(dst, src)' /\ IsRequest(ask, src)'
    BY <1>2 DEF ImportInv, GivenInv, IsDocument, IsTarget, OwnLayers, IsRequest
  <1>5. ~Refused => \A i \in DOMAIN ask : ask[i] \in Pages
    BY DEF Refused, ImportInv, GivenInv, IsRequest, Pages, Nodes
  <1>6. GivenInv'
    BY <1>1, <1>2, <1>3, <1>4, <1>5 DEF GivenInv
  <1>7. ~Copying' /\ ~Hung'
    BY <1>1 DEF Copying, Hung
  <1>8. pending = <<>> /\ layers = dst.oc
    BY <1>1 DEF ImportInv, CopyInv, JoinInv
  <1>9. BoundInv' /\ TurnInv'
    BY <1>7 DEF BoundInv, TurnInv
  <1>10. CopyInv'
    BY <1>1, <1>2, <1>3, <1>7, <1>8 DEF CopyInv, Empty
  <1>11. JoinInv'
    BY <1>1, <1>2, <1>7, <1>8 DEF JoinInv
  <1> QED BY <1>6, <1>9, <1>10, <1>11 DEF ImportInv

\* A field is above something: it is named by a /Parent.
LEMMA AboveIs ==
    ASSUME NEW n \in Nodes, NEW m \in Above(n)
    PROVE  \E y \in Nodes : m \in ToSet(src.object[y].ref["Parent"])
  <1> DEFINE S == {x \in Nodes : \E y \in Nodes : x \in Parent(y)}
  <1>1. \A x \in S \cup {n} : Parent(x) \subseteq S
    BY DEF Parent
  <1>2. S \in SUBSET Nodes
    OBVIOUS
  <1> HIDE DEF S
  <1>3. m \in S
    BY <1>1, <1>2 DEF Above
  <1> QED BY <1>3 DEF S, Parent

LEMMA BindStep ==
    ASSUME ImportInv, collectBound
    PROVE  ImportInv'
  <1> DEFINE keys == UNION {Lists(i) : i \in DOMAIN ask}
             widgets == {k \in keys : Widget(k.of)}
             fields == UNION {{[of |-> f, ord |-> w.ord] : f \in Above(w.of)} : w \in widgets}
             first(k) == CHOOSE i \in DOMAIN ask : k \in Lists(i) /\ \A j \in 1..(i - 1) : k \notin Lists(j)
  <1>1. /\ step = "bind" /\ step' = "copy" /\ at' = 1
        /\ UNCHANGED <<given, copies, pending, tree, layers>>
        /\ bound'.annots = {k.of : k \in keys}
        /\ bound'.nodes = {k.of : k \in fields}
        /\ bound'.owner = [k \in keys |-> Instance(first(k))]
    BY DEF collectBound
  <1>2. src' = src /\ ask' = ask /\ dst' = dst /\ copies' = copies /\ pending' = pending /\ layers' = layers
    BY <1>1 DEF given
  <1>3. Prepared
    BY <1>1, IsReady DEF ImportInv
  <1>4. /\ Pages' = Pages /\ Nodes' = Nodes /\ Instances' = Instances /\ Drawn' = Drawn
        /\ \A i : Instance(i)' = Instance(i) /\ Annots(i)' = Annots(i) /\ Lists(i)' = Lists(i)
    BY <1>2 DEF Pages, Nodes, Instances, Instance, Drawn, Annots, Lists
  <1>5. IsDocument(src)' /\ IsTarget(dst)' /\ OwnLayers(dst, src)' /\ IsRequest(ask, src)'
    BY <1>2 DEF ImportInv, GivenInv, IsDocument, IsTarget, OwnLayers, IsRequest
  <1>6. GivenInv'
    BY <1>1, <1>2, <1>3, <1>4, <1>5 DEF GivenInv, Prepared
  <1>7. \A k \in keys : \E i \in DOMAIN ask : k \in Lists(i)
    OBVIOUS
  <1>8. \A i \in DOMAIN ask : Lists(i) \subseteq keys
    OBVIOUS
  <1>9. bound'.annots = UNION {ToSet(Annots(i)) : i \in DOMAIN ask}
    <2>1. \A k \in keys : \E i \in DOMAIN ask : k.of \in ToSet(Annots(i))
      BY DEF Lists
    <2>2. \A i \in DOMAIN ask : \A a \in ToSet(Annots(i)) : \E k \in keys : k.of = a
      <3> SUFFICES ASSUME NEW i \in DOMAIN ask, NEW a \in ToSet(Annots(i)) PROVE \E k \in keys : k.of = a
        OBVIOUS
      <3>1. PICK k : k = [of |-> a, ord |-> Instance(i).ord]
        OBVIOUS
      <3>2. k \in Lists(i) /\ k.of = a
        BY <3>1 DEF Lists
      <3> HIDE DEF keys
      <3> QED BY <1>8, <3>2
    <2> HIDE DEF keys
    <2> QED BY <1>1, <2>1, <2>2
  <1>10. bound'.nodes \cap Drawn = {}
    <2>1. \A k \in fields : \E y \in Nodes : k.of \in ToSet(src.object[y].ref["Parent"])
      <3> SUFFICES ASSUME NEW w \in widgets, NEW f \in Above(w.of)
                   PROVE  \E y \in Nodes : f \in ToSet(src.object[y].ref["Parent"])
        OBVIOUS
      <3>1. w.of \in Nodes
        BY DEF Widget
      <3> QED BY <3>1, AboveIs
    <2>2. \A i \in DOMAIN ask, y \in Nodes :
            ToSet(src.object[ask[i]].ref["Refs"]) \cap ToSet(src.object[y].ref["Parent"]) = {}
      <3> TAKE i \in DOMAIN ask, y \in Nodes
      <3>1. ask[i] \in Nodes /\ src.object[ask[i]].type = "page"
        BY <1>3 DEF Prepared, Pages
      <3> QED BY <1>3, <3>1, ObjectIs DEF Prepared
    <2> HIDE DEF fields
    <2>3. ASSUME NEW k \in fields, k.of \in Drawn PROVE FALSE
      <3>1. PICK i \in DOMAIN ask : k.of \in ToSet(src.object[ask[i]].ref["Refs"])
        BY <2>3 DEF Drawn
      <3>2. PICK y \in Nodes : k.of \in ToSet(src.object[y].ref["Parent"])
        BY <2>1, <2>3
      <3> QED BY <2>2, <3>1, <3>2
    <2> QED BY <1>1, <2>3
  <1>11. DOMAIN bound'.owner = keys
    BY <1>1
  <1>12. \A k \in keys : \E i \in DOMAIN ask : k \in Lists(i) /\ bound'.owner[k] = Instance(i)
    <2> TAKE k \in keys
    <2> DEFINE S == {i \in DOMAIN ask : k \in Lists(i)}
    <2>1. DOMAIN ask = 1..Len(ask) /\ Len(ask) \in Nat
      BY <1>3, SequenceIs DEF Prepared, IsRequest
    <2>2. S \subseteq Nat /\ S # {}
      BY <1>7, <2>1
    <2>3. PICK i \in S : \A j \in S : i <= j
      <3> HIDE DEF S
      <3> QED BY <2>2, LeastIs
    <2>4. i \in DOMAIN ask /\ k \in Lists(i) /\ i \in Nat /\ \A j \in DOMAIN ask : k \in Lists(j) => i <= j
      BY <2>2, <2>3
    <2>5. \A j \in 1..(i - 1) : k \notin Lists(j)
      <3> TAKE j \in 1..(i - 1)
      <3>1. j \in DOMAIN ask /\ ~(i <= j)
        BY <2>1, <2>4
      <3> QED BY <2>4, <3>1
    <2>6. first(k) \in DOMAIN ask /\ k \in Lists(first(k))
      BY <2>4, <2>5
    <2>7. bound'.owner[k] = Instance(first(k))
      <3> HIDE DEF keys, first
      <3> QED BY <1>1
    <2> HIDE DEF first
    <2> QED BY <2>6, <2>7
  <1>13. BoundInv'
    <2> HIDE DEF keys, fields
    <2> QED BY <1>2, <1>4, <1>9, <1>10, <1>11, <1>12 DEF BoundInv, keys
  <1>14. copies = [c \in Instances |-> Empty] /\ pending = <<>> /\ layers = dst.oc
    BY <1>1 DEF ImportInv, CopyInv, JoinInv
  <1>15. CopyInv'
    <2>1. Len(ask) \in Nat /\ DOMAIN ask = 1..Len(ask)
      BY <1>3, SequenceIs DEF Prepared, IsRequest
    <2>2. \A c \in Instances : Reached(c)' /\ ToCome(c)'
      <3> SUFFICES ASSUME NEW i \in DOMAIN ask PROVE Reached(Instance(i))' /\ ToCome(Instance(i))'
        BY <1>4 DEF Instances
      <3>1. Instance(i) \in Instances
        BY InstanceIs
      <3>2. Reached(Instance(i))'
        BY <1>4, <3>1 DEF Reached
      <3> QED BY <1>1, <1>2, <1>4, <2>1, <3>2 DEF ToCome
    <2>3. pending' \in Seq({c \in DOMAIN copies \ Instances : c.of \in Nodes}) /\ pending' = <<>>
      BY <1>2, <1>14
    <2>4. at' \in 1..(Len(ask) + 1)
      BY <1>1, <2>1
    <2>5. \A c \in DOMAIN copies' : copies'[c] = Empty /\ c \in Instances
      BY <1>2, <1>14
    <2>6. \A c \in DOMAIN copies' : /\ Reached(c)' /\ ToCome(c)'
                                    /\ "type" \in DOMAIN copies'[c] /\ copies'[c].type = "null"
      BY <2>2, <2>5 DEF Empty
    <2> QED BY <1>1, <1>2, <1>4, <1>14, <2>3, <2>4, <2>6 DEF CopyInv
  <1>16. TurnInv'
    BY <1>2, <1>4, <1>14 DEF TurnInv, Empty
  <1>17. JoinInv'
    BY <1>1, <1>2, <1>14 DEF JoinInv, Hung
  <1> QED BY <1>6, <1>13, <1>15, <1>16, <1>17 DEF ImportInv

\* Writing a value keeps what is true half-way, of whatever is written.
LEMMA Written ==
    ASSUME GivenInv, BoundInv, CopyInv, TurnInv, Copying, UNCHANGED <<given, bound, step>>,
           at' \in 1..(Len(ask) + 1) \/ step # "copy",
           NEW c \in DOMAIN copies, c.of \in Nodes,
           NEW rest, rest \in Seq({d \in DOMAIN copies \ Instances : d.of \in Nodes}),
           \A d \in ToSet(pending) : d = c \/ d \in ToSet(rest),
           FillIn(c, rest), c \in Instances => ~Hung,
           \A d : ToCome(d) => d = c \/ ToCome(d)',
           step \in {"copy", "finish"}
    PROVE  CopyInv' /\ TurnInv'
  <1> DEFINE rests == {d \in DOMAIN copies \ Instances : d.of \in Nodes}
             m == Len(rest)
  <1>1. Prepared /\ Sound
    BY IsReady, SoundIs DEF Copying
  <1>2. m \in Nat /\ rest \in [1..m -> rests]
    BY LenProperties
  <1>3. rest \in [1..m -> ToSet(rest)]
    BY <1>2 DEF ToSet
  <1>4. ToSet(rest) \subseteq rests
    BY <1>2 DEF ToSet
  <1> HIDE DEF m, rests
  <1>5. /\ DOMAIN copies \subseteq DOMAIN copies'
        /\ Sound'
        /\ copies'[c].type # "null" /\ copies'[c].turn = src.object[c.of].turn
        /\ \A d \in DOMAIN copies \ {c} : copies'[d] = copies[d]
        /\ \A d \in DOMAIN copies' \ DOMAIN copies : d \in ToSet(pending') \/ d.of \notin Nodes
        /\ pending' \in Seq(ToSet(pending'))
        /\ \A d \in ToSet(pending') : \/ d \in ToSet(rest)
                                      \/ d \in DOMAIN copies' \ DOMAIN copies /\ d.of \in Nodes
        /\ ToSet(rest) \subseteq ToSet(pending')
    BY <1>1, <1>2, <1>3, FillStep
  <1>6. Nodes' = Nodes /\ Instances' = Instances /\ src' = src /\ dst' = dst /\ ask' = ask /\ step' = step
    BY Unmoved DEF given
  <1>7. Instances \subseteq DOMAIN copies
    BY DEF CopyInv
  <1>8. pending' \in Seq({d \in DOMAIN copies' \ Instances' : d.of \in Nodes'})
    <2>1. ToSet(pending') \subseteq {d \in DOMAIN copies' \ Instances' : d.of \in Nodes'}
      BY <1>4, <1>5, <1>6, <1>7 DEF rests
    <2> QED BY <1>5, <2>1, SeqMonotonic
  <1>9. \A d \in DOMAIN copies' : copies'[d].type = "null" =>
           d \in ToSet(pending') \/ ToCome(d)' \/ d.of \notin Nodes
    <2> SUFFICES ASSUME NEW d \in DOMAIN copies', copies'[d].type = "null", d.of \in Nodes
                 PROVE  d \in ToSet(pending') \/ ToCome(d)'
      OBVIOUS
    <2>1. CASE d \in DOMAIN copies
      <3>1. d # c /\ copies[d].type = "null"
        BY <1>5, <2>1
      <3>2. d \in ToSet(pending) \/ ToCome(d)
        BY <2>1, <3>1 DEF CopyInv
      <3> QED BY <1>5, <3>1, <3>2
    <2>2. CASE d \notin DOMAIN copies
      BY <1>5, <2>2
    <2> QED BY <2>1, <2>2
  <1>10. CopyInv'
    <2>1. Instances' \subseteq DOMAIN copies'
      BY <1>5, <1>6, <1>7
    <2>2. \A d \in DOMAIN copies' :
             /\ Reached(d)'
             /\ Filled(d)' \/ ("type" \in DOMAIN copies'[d] /\ copies'[d].type = "null")
      BY <1>5 DEF Sound, Blank
    <2>3. step' = "copy" => at' \in 1..(Len(ask') + 1)
      BY <1>6
    <2>4. step' \notin {"check", "refused", "bind", "form", "catalog", "done"}
      BY <1>6
    <2> QED BY <1>6, <1>8, <1>9, <2>1, <2>2, <2>3, <2>4 DEF CopyInv
  <1>11. TurnInv'
    <2> SUFFICES ASSUME NEW d \in Instances, copies'[d].type # "null"
                 PROVE  copies'[d].turn = IF Hung /\ src.object[d.of].turn = None /\ dst.turn # None
                                          THEN 0 ELSE src.object[d.of].turn
      BY <1>6 DEF TurnInv, Hung
    <2>1. CASE d = c
      BY <1>5, <2>1
    <2>2. CASE d # c
      BY <1>5, <1>7, <2>2 DEF TurnInv
    <2> QED BY <2>1, <2>2
  <1> QED BY <1>10, <1>11

LEMMA CopyPageStep ==
    ASSUME ImportInv, CopyPage
    PROVE  ImportInv'
  <1>1. /\ step = "copy" /\ pending = <<>> /\ at <= Len(ask) /\ at' = at + 1
        /\ FillIn(Instance(at), <<>>)
        /\ UNCHANGED <<given, step, bound, tree, layers>>
    BY DEF CopyPage
  <1>2. Copying /\ ~Hung /\ Prepared
    BY <1>1, IsReady DEF Copying, Hung, ImportInv
  <1>3. Len(ask) \in Nat /\ DOMAIN ask = 1..Len(ask) /\ at \in 1..(Len(ask) + 1)
    BY <1>1, <1>2, SequenceIs DEF Prepared, IsRequest, ImportInv, CopyInv
  <1>4. at \in DOMAIN ask /\ at' \in 1..(Len(ask) + 1)
    BY <1>1, <1>3
  <1>5. Instance(at) \in Instances /\ Instance(at) \in DOMAIN copies /\ Instance(at).of \in Nodes
    BY <1>2, <1>4, InstanceIs DEF ImportInv, CopyInv, Prepared, Pages
  <1>6. src' = src /\ ask' = ask /\ dst' = dst /\ tree' = tree /\ layers' = layers /\ step' = step
    BY <1>1 DEF given
  <1>7. GivenInv' /\ BoundInv'
    <2>1. Copying' => Copying
      BY <1>2
    <2> QED BY <1>1, <1>6, <2>1, BoundStays DEF ImportInv
  <1>8. \A d : ToCome(d) => d = Instance(at) \/ ToCome(d)'
    <2> TAKE d
    <2> HAVE ToCome(d)
    <2>0. PICK i \in at..Len(ask) : d = Instance(i)
      BY <1>1 DEF ToCome
    <2>1. CASE i = at
      BY <2>0, <2>1
    <2>2. CASE i # at
      <3>1. i \in (at')..Len(ask)
        BY <1>1, <1>3, <2>2
      <3>2. Instance(i)' = Instance(i)
        BY <1>1, Unmoved
      <3> QED BY <1>1, <1>6, <2>0, <3>1, <3>2 DEF ToCome
    <2> QED BY <2>1, <2>2
  <1>9. <<>> \in Seq({d \in DOMAIN copies \ Instances : d.of \in Nodes}) /\ \A d \in ToSet(pending) : FALSE
    BY <1>1 DEF ToSet
  <1>10. CopyInv' /\ TurnInv'
    BY <1>1, <1>2, <1>4, <1>5, <1>8, <1>9, Written DEF ImportInv
  <1>11. JoinInv'
    BY <1>1, <1>2, <1>6 DEF ImportInv, JoinInv, Hung
  <1> QED BY <1>7, <1>10, <1>11 DEF ImportInv

LEMMA DrainStep ==
    ASSUME ImportInv, drain
    PROVE  ImportInv'
  <1> DEFINE rests == {d \in DOMAIN copies \ Instances : d.of \in Nodes}
             c == Head(pending)
             rest == Tail(pending)
  <1>1. /\ pending # <<>>
        /\ FillIn(c, rest)
        /\ UNCHANGED <<given, step, at, bound, tree, layers>>
    BY DEF drain
  <1>2. step \in {"copy", "finish"}
    BY <1>1 DEF ImportInv, GivenInv, CopyInv
  <1>3. Copying /\ Prepared /\ (step = "copy" => at \in 1..(Len(ask) + 1))
    BY <1>2, IsReady DEF Copying, ImportInv, CopyInv
  <1>4. pending \in Seq(rests)
    BY <1>3 DEF ImportInv, CopyInv
  <1>5. /\ c \in rests /\ rest \in Seq(rests)
        /\ \A d \in ToSet(pending) : d = c \/ d \in ToSet(rest)
    <2> HIDE DEF rests
    <2>1. /\ c \in rests /\ rest \in Seq(rests) /\ Len(rest) = Len(pending) - 1
          /\ \A i \in 1..Len(rest) : rest[i] = pending[i + 1]
      BY <1>1, <1>4, HeadTailProperties
    <2>2. /\ Len(pending) \in Nat /\ DOMAIN pending = 1..Len(pending)
          /\ DOMAIN rest = 1..Len(rest)
      BY <1>4, <2>1, LenProperties
    <2>3. c = pending[1]
      BY <1>1, <1>4
    <2> HIDE DEF c, rest
    <2>4. ASSUME NEW k \in DOMAIN pending PROVE pending[k] = c \/ pending[k] \in ToSet(rest)
      <3>1. CASE k = 1
        BY <2>3, <3>1
      <3>2. CASE k # 1
        <4>1. k - 1 \in 1..Len(rest) /\ (k - 1) + 1 = k
          BY <2>1, <2>2, <3>2
        <4>2. rest[k - 1] = pending[k]
          BY <2>1, <4>1
        <4> QED BY <2>2, <4>1, <4>2 DEF ToSet
      <3> QED BY <3>1, <3>2
    <2> QED BY <2>1, <2>4 DEF ToSet
  <1>6. src' = src /\ ask' = ask /\ dst' = dst /\ tree' = tree /\ layers' = layers /\ step' = step /\ at' = at
    BY <1>1 DEF given
  <1>7. GivenInv' /\ BoundInv'
    <2>1. Copying' => Copying
      BY <1>3
    <2>2. step \in {"check", "refused", "bind", "copy", "form", "catalog", "finish", "done"}
      BY <1>2
    <2> QED BY <1>1, <1>6, <2>1, <2>2, BoundStays DEF ImportInv
  <1>8. \A d : ToCome(d) => ToCome(d)'
    <2>1. \A i : Instance(i)' = Instance(i)
      BY <1>1, Unmoved
    <2> QED BY <1>6, <2>1 DEF ToCome
  <1>9. CopyInv' /\ TurnInv'
    <2>1. c \in DOMAIN copies /\ c \notin Instances /\ c.of \in Nodes
      BY <1>5
    <2> HIDE DEF c, rest
    <2>2. at' \in 1..(Len(ask) + 1) \/ step # "copy"
      BY <1>3, <1>6
    <2> QED BY <1>1, <1>2, <1>3, <1>5, <1>8, <2>1, <2>2, Written DEF ImportInv
  <1>10. JoinInv'
    <2>1. Hung' = Hung /\ \A i : Instance(i)' = Instance(i)
      BY <1>1, <1>6, Unmoved DEF Hung
    <2>2. \A l : CopyOf(l, 0)' = CopyOf(l, 0)
      BY <1>1, Unmoved
    <2> QED BY <1>6, <2>1, <2>2 DEF ImportInv, JoinInv, Off
  <1> QED BY <1>7, <1>9, <1>10 DEF ImportInv

\* A step that rewrites of a value only what no copy is known by.
LEMMA Rewritten ==
    ASSUME GivenInv, CopyInv, Copying, UNCHANGED <<given, bound>>,
           DOMAIN copies' = DOMAIN copies,
           \A c \in DOMAIN copies : /\ DOMAIN copies'[c] = DOMAIN copies[c]
                                    /\ \A k \in DOMAIN copies[c] \cap {"type", "dest", "p", "ref"} :
                                          copies'[c][k] = copies[c][k]
    PROVE  /\ Nodes' = Nodes /\ Instances' = Instances
           /\ \A c \in DOMAIN copies' :
                 /\ Reached(c)'
                 /\ Filled(c)' \/ ("type" \in DOMAIN copies'[c] /\ copies'[c].type = "null")
                 /\ copies'[c].type = copies[c].type
  <1>1. /\ Nodes' = Nodes /\ Instances' = Instances
        /\ (\A c : Reached(c)' = Reached(c)) /\ \A n, ord : CopyDict(n, ord)' = CopyDict(n, ord)
    BY Unmoved
  <1>2. ASSUME NEW c \in DOMAIN copies'
        PROVE  /\ Reached(c)'
               /\ Filled(c)' \/ ("type" \in DOMAIN copies'[c] /\ copies'[c].type = "null")
               /\ copies'[c].type = copies[c].type
    <2>2. Reached(c) /\ (Filled(c) \/ ("type" \in DOMAIN copies[c] /\ copies[c].type = "null"))
      BY <1>2 DEF CopyInv
    <2>1. /\ DOMAIN copies'[c] = DOMAIN copies[c] /\ copies'[c].type = copies[c].type
          /\ Filled(c) => /\ copies'[c].dest = copies[c].dest /\ copies'[c].p = copies[c].p
                           /\ copies'[c].ref = copies[c].ref
      BY <1>2, <2>2 DEF Filled
    <2>3. Filled(c) => Filled(c)'
      BY <1>1, <2>1 DEF Filled, RefsOf
    <2> QED BY <1>1, <2>1, <2>2, <2>3
  <1> QED BY <1>1, <1>2

\* With no page to come and nothing on the list, every page has its value.
LEMMA PagesFilled ==
    ASSUME GivenInv, CopyInv, Copying, pending = <<>>, \A c : ~ToCome(c), NEW c \in Instances
    PROVE  /\ c \in DOMAIN copies /\ copies[c].type # "null" /\ Filled(c)
           /\ c.of \in Pages
  <1>1. Prepared
    BY IsReady DEF Copying
  <1>2. PICK i \in DOMAIN ask : c = Instance(i)
    BY DEF Instances
  <1>3. c.of \in Pages /\ c.of \in Nodes
    BY <1>1, <1>2, InstanceIs DEF Prepared, Pages
  <1>4. c \in DOMAIN copies /\ copies[c].type # "null"
    BY <1>3 DEF CopyInv, ToSet
  <1> QED BY <1>3, <1>4 DEF CopyInv

LEMMA HangStep ==
    ASSUME ImportInv, Hang
    PROVE  ImportInv'
  <1>1. /\ step = "copy" /\ pending = <<>> /\ at > Len(ask) /\ step' = "form"
        /\ copies' = [c \in DOMAIN copies |->
                        IF c \in Instances /\ copies[c].turn = None /\ dst.turn # None
                        THEN [copies[c] EXCEPT !.turn = 0] ELSE copies[c]]
        /\ tree' = [kids |-> [i \in DOMAIN ask |-> Instance(i)],
                    count |-> (IF dst.count = None \/ dst.count < 0 THEN dst.held ELSE dst.count) + Len(ask)]
        /\ UNCHANGED <<given, at, bound, pending, layers>>
    BY DEF Hang
  <1>2. src' = src /\ ask' = ask /\ dst' = dst /\ layers' = layers /\ pending' = pending
    BY <1>1 DEF given
  <1>3. Copying /\ Copying' /\ ~Hung /\ Hung' /\ Prepared
    BY <1>1, IsReady DEF Copying, Hung, ImportInv
  <1>4. \A c : ~ToCome(c)
    <2>1. Len(ask) \in Nat /\ at \in 1..(Len(ask) + 1)
      BY <1>1, <1>3, SequenceIs DEF Prepared, IsRequest, ImportInv, CopyInv
    <2>2. at..Len(ask) = {}
      BY <1>1, <2>1
    <2> QED BY <1>1, <2>2 DEF ToCome
  <1>5. GivenInv' /\ BoundInv'
    BY <1>1, <1>3, BoundStays DEF ImportInv
  <1>6. \A c \in DOMAIN copies : /\ DOMAIN copies'[c] = DOMAIN copies[c]
                                 /\ \A k \in {"type", "dest", "p", "ref"} : copies'[c][k] = copies[c][k]
    <2> TAKE c \in DOMAIN copies
    <2> DEFINE v == copies[c]
    <2>1. copies'[c] = [v EXCEPT !.turn = 0] \/ copies'[c] = v
      BY <1>1
    <2>2. DOMAIN v = {"type", "name", "turn", "dest", "p", "ref"} \/ copies'[c] = v
      BY <1>1, <1>3, <1>4, PagesFilled DEF ImportInv, Filled
    <2> HIDE DEF v
    <2> QED BY <2>1, <2>2 DEF v
  <1>7. /\ Nodes' = Nodes /\ Instances' = Instances
        /\ \A c \in DOMAIN copies' :
              /\ Reached(c)'
              /\ Filled(c)' \/ ("type" \in DOMAIN copies'[c] /\ copies'[c].type = "null")
              /\ copies'[c].type = copies[c].type
    BY <1>1, <1>3, <1>6, Rewritten DEF ImportInv
  <1>8. DOMAIN copies' = DOMAIN copies /\ Instances \subseteq DOMAIN copies
    BY <1>1, <1>3 DEF ImportInv, CopyInv
  <1>9. CopyInv'
    <2>1. pending' \in Seq({c \in DOMAIN copies' \ Instances' : c.of \in Nodes'}) /\ pending' = <<>>
      BY <1>1
    <2>2. \A c \in DOMAIN copies' : copies'[c].type = "null" => c.of \notin Nodes'
      BY <1>1, <1>3, <1>4, <1>7, <1>8 DEF ImportInv, CopyInv, ToSet
    <2> QED BY <1>1, <1>7, <1>8, <2>1, <2>2 DEF CopyInv
  <1>10. TurnInv'
    <2> SUFFICES ASSUME NEW c \in Instances
                 PROVE  copies'[c].turn = IF src.object[c.of].turn = None /\ dst.turn # None
                                          THEN 0 ELSE src.object[c.of].turn
      BY <1>2, <1>3, <1>7 DEF TurnInv
    <2> DEFINE v == copies[c]
    <2>1. c \in DOMAIN copies /\ v.type # "null" /\ DOMAIN v = {"type", "name", "turn", "dest", "p", "ref"}
      BY <1>1, <1>3, <1>4, PagesFilled DEF ImportInv, Filled
    <2>2. v.turn = src.object[c.of].turn
      BY <1>3, <2>1 DEF ImportInv, TurnInv
    <2>3. copies'[c] = IF v.turn = None /\ dst.turn # None THEN [v EXCEPT !.turn = 0] ELSE v
      BY <1>1, <2>1
    <2> HIDE DEF v
    <2> QED BY <2>1, <2>2, <2>3
  <1>11. JoinInv'
    <2>1. tree' = [kids |-> [i \in DOMAIN ask |-> Instance(i)], count |-> dst.held + Len(ask)]
      <3>1. (IF dst.count = None \/ dst.count < 0 THEN dst.held ELSE dst.count) = dst.held
        BY DEF ImportInv, GivenInv, IsTarget
      <3> QED BY <1>1, <3>1
    <2>2. \A i : Instance(i)' = Instance(i)
      BY <1>1, Unmoved
    <2>3. layers = dst.oc
      BY <1>1 DEF ImportInv, JoinInv
    <2> QED BY <1>1, <1>2, <2>1, <2>2, <2>3 DEF JoinInv
  <1> QED BY <1>5, <1>9, <1>10, <1>11 DEF ImportInv

LEMMA MergeStep ==
    ASSUME ImportInv, MergeForm
    PROVE  ImportInv'
  <1>1. /\ step = "form" /\ step' = "catalog" /\ UNCHANGED <<given, at, bound, pending, tree, layers>>
        /\ DOMAIN copies' = DOMAIN copies
        /\ \A c \in DOMAIN copies :
              \/ copies'[c] = copies[c]
              \/ \E name : copies'[c] = [copies[c] EXCEPT !.name = name]
    BY DEF MergeForm
  <1>2. src' = src /\ ask' = ask /\ dst' = dst /\ layers' = layers /\ pending' = pending /\ tree' = tree
    BY <1>1 DEF given
  <1>3. Copying /\ Copying' /\ Hung /\ Hung' /\ Prepared
    BY <1>1, IsReady DEF Copying, Hung, ImportInv
  <1>4. (\A c : ~ToCome(c)) /\ pending = <<>>
    BY <1>1 DEF ToCome, ImportInv, CopyInv
  <1>5. GivenInv' /\ BoundInv'
    BY <1>1, <1>3, BoundStays DEF ImportInv
  <1>6. ASSUME NEW c \in DOMAIN copies
        PROVE  /\ DOMAIN copies'[c] = DOMAIN copies[c]
               /\ \A k \in DOMAIN copies[c] : k # "name" => copies'[c][k] = copies[c][k]
    <2> DEFINE v == copies[c]
    <2>1. CASE copies'[c] = v
      BY <2>1
    <2>2. CASE \E name : copies'[c] = [v EXCEPT !.name = name]
      <3>1. PICK name : copies'[c] = [v EXCEPT !.name = name]
        BY <2>2
      <3> HIDE DEF v
      <3>2. DOMAIN copies'[c] = DOMAIN v /\ \A k \in DOMAIN v : k # "name" => copies'[c][k] = v[k]
        BY <3>1
      <3> QED BY <3>2 DEF v
    <2> QED BY <1>1, <1>6, <2>1, <2>2
  <1>7. /\ Nodes' = Nodes /\ Instances' = Instances
        /\ \A c \in DOMAIN copies' :
              /\ Reached(c)'
              /\ Filled(c)' \/ ("type" \in DOMAIN copies'[c] /\ copies'[c].type = "null")
              /\ copies'[c].type = copies[c].type
    <2>1. \A c \in DOMAIN copies : /\ DOMAIN copies'[c] = DOMAIN copies[c]
                                   /\ \A k \in DOMAIN copies[c] \cap {"type", "dest", "p", "ref"} :
                                         copies'[c][k] = copies[c][k]
      BY <1>6
    <2> QED BY <1>1, <1>3, <2>1, Rewritten DEF ImportInv
  <1>8. Instances \subseteq DOMAIN copies
    BY <1>3 DEF ImportInv, CopyInv
  <1>9. CopyInv'
    <2>1. pending' \in Seq({c \in DOMAIN copies' \ Instances' : c.of \in Nodes'}) /\ pending' = <<>>
      BY <1>2, <1>4
    <2>2. \A c \in DOMAIN copies' : copies'[c].type = "null" => c.of \notin Nodes'
      BY <1>1, <1>3, <1>4, <1>7, <1>8 DEF ImportInv, CopyInv, ToSet
    <2> QED BY <1>1, <1>7, <1>8, <2>1, <2>2 DEF CopyInv
  <1>10. TurnInv'
    <2> SUFFICES ASSUME NEW c \in Instances
                 PROVE  copies'[c].turn = IF src.object[c.of].turn = None /\ dst.turn # None
                                          THEN 0 ELSE src.object[c.of].turn
      BY <1>2, <1>3, <1>7 DEF TurnInv
    <2>1. /\ c \in DOMAIN copies /\ copies[c].type # "null"
          /\ DOMAIN copies[c] = {"type", "name", "turn", "dest", "p", "ref"}
      BY <1>3, <1>4, PagesFilled DEF ImportInv, Filled
    <2>2. copies'[c].turn = copies[c].turn
      BY <1>6, <2>1
    <2> QED BY <1>3, <2>1, <2>2 DEF ImportInv, TurnInv
  <1>11. JoinInv'
    <2>1. \A i : Instance(i)' = Instance(i)
      BY <1>1, Unmoved
    <2> QED BY <1>1, <1>2, <1>3, <2>1 DEF ImportInv, JoinInv
  <1> QED BY <1>5, <1>9, <1>10, <1>11 DEF ImportInv

\* A layer is carried as itself: it is neither a page nor a link.
LEMMA LayerIs ==
    ASSUME IsDocument(src), NEW l \in src.oc.groups
    PROVE  CopyOf(l, 0) = [of |-> l, ord |-> 0] /\ Carried(l) /\ l \notin Pages
  <1>1. CopyOf(l, 0) = [of |-> l, ord |-> 0]
    BY DEF CopyOf
  <1>2. l \in Nodes => src.object[l].type = "layer"
    BY DEF IsDocument, Nodes
  <1>3. l \in Nodes => ~dropsOut[l]
    BY <1>2, DropsOutIs
  <1> QED BY <1>1, <1>2, <1>3 DEF Carried, Pages

LEMMA CarryStep ==
    ASSUME ImportInv, CarryLayers
    PROVE  ImportInv'
  <1> DEFINE Refs(s) == {CopyOf(l, 0) : l \in s}
             groups == Refs(src.oc.groups)
  <1>1. /\ step = "catalog" /\ step' = "finish" /\ UNCHANGED <<given, at, bound, tree>>
        /\ ~src.oc.has => UNCHANGED <<layers, copies, pending>>
        /\ src.oc.has =>
             /\ layers' = IF ~layers.has
                          THEN [has |-> TRUE, base |-> src.oc.base, groups |-> groups,
                                on |-> Refs(src.oc.on), off |-> Refs(src.oc.off)]
                          ELSE [layers EXCEPT
                                  !.groups = @ \cup groups,
                                  !.off = IF layers.base = "OFF" THEN @ ELSE @ \cup Refs(Away),
                                  !.on  = IF layers.base = "OFF" THEN @ \cup Refs(src.oc.groups \ Away) ELSE @]
             /\ copies' = Numbered(groups)
             /\ pending' = ToFill(groups)
    BY DEF CarryLayers
  <1>2. src' = src /\ ask' = ask /\ dst' = dst /\ tree' = tree
    BY <1>1 DEF given
  <1>3. Copying /\ Copying' /\ Hung /\ Hung' /\ Prepared
    BY <1>1, IsReady DEF Copying, Hung, ImportInv
  <1>4. (\A c : ~ToCome(c)) /\ pending = <<>> /\ layers = dst.oc
    BY <1>1 DEF ToCome, ImportInv, CopyInv, JoinInv
  <1>5. GivenInv' /\ BoundInv'
    BY <1>1, <1>3, BoundStays DEF ImportInv
  <1>6. /\ Nodes' = Nodes /\ Instances' = Instances /\ (\A i : Instance(i)' = Instance(i))
        /\ (\A c : Reached(c)' = Reached(c)) /\ (\A n, ord : CopyDict(n, ord)' = CopyDict(n, ord))
        /\ \A n, ord : CopyOf(n, ord)' = CopyOf(n, ord)
    BY <1>1, Unmoved
  <1>7. \A l \in src.oc.groups : CopyOf(l, 0) = [of |-> l, ord |-> 0] /\ Carried(l) /\ l \notin Pages
    BY <1>3, LayerIs DEF Prepared
  <1>8. src.oc.on \subseteq src.oc.groups /\ src.oc.off \subseteq src.oc.groups /\ IsFiniteSet(src.oc.groups)
    BY <1>3 DEF Prepared, IsDocument
  <1>9. Instances \subseteq DOMAIN copies
    BY <1>3 DEF ImportInv, CopyInv
  <1>10. CASE ~src.oc.has
    <2>1. layers' = layers /\ copies' = copies /\ pending' = pending
      BY <1>1, <1>10
    <2>2. CopyInv'
      <3>1. pending' \in Seq({c \in DOMAIN copies' \ Instances' : c.of \in Nodes'}) /\ pending' = <<>>
        BY <1>4, <2>1
      <3>2. \A c \in DOMAIN copies : Filled(c) => Filled(c)'
        BY <1>6, <2>1 DEF Filled, RefsOf
      <3>3. \A c \in DOMAIN copies' :
               /\ Reached(c)'
               /\ Filled(c)' \/ ("type" \in DOMAIN copies'[c] /\ copies'[c].type = "null")
               /\ copies'[c].type = "null" => c.of \notin Nodes'
        BY <1>3, <1>4, <1>6, <2>1, <3>2 DEF ImportInv, CopyInv, ToSet
      <3> QED BY <1>1, <1>6, <1>9, <2>1, <3>1, <3>3 DEF CopyInv
    <2>3. TurnInv'
      BY <1>2, <1>3, <1>6, <2>1 DEF ImportInv, TurnInv
    <2>4. JoinInv'
      BY <1>1, <1>2, <1>3, <1>6, <1>10, <2>1 DEF ImportInv, JoinInv
    <2> QED BY <1>5, <2>2, <2>3, <2>4 DEF ImportInv
  <1>11. CASE src.oc.has
    <2> DEFINE new == {c \in groups \ DOMAIN copies : c.of \in Nodes}
    <2>1. /\ DOMAIN copies' = groups \cup DOMAIN copies
          /\ \A c \in DOMAIN copies : copies'[c] = copies[c]
          /\ \A c \in groups \ DOMAIN copies : copies'[c] = Empty
          /\ pending' = SetToSeq(new)
      <3> HIDE DEF groups
      <3> QED BY <1>1, <1>11 DEF Numbered, ToFill
    <2>2. ToSet(pending') = new /\ pending' \in Seq(new)
      <3>1. IsFiniteSet(groups)
        <4> DEFINE f == [l \in src.oc.groups |-> CopyOf(l, 0)]
        <4>1. f \in Surjection(src.oc.groups, groups)
          BY DEF Surjection
        <4> QED BY <1>8, <4>1, FS_Surjection
      <3>2. IsFiniteSet(new)
        <4>1. new \in SUBSET groups
          OBVIOUS
        <4> HIDE DEF new, groups
        <4> QED BY <3>1, <4>1, FS_Subset
      <3> HIDE DEF new
      <3>3. ToSet(SetToSeq(new)) = new /\ \E m \in Nat : SetToSeq(new) \in [1..m -> new]
        BY <3>2, SetToSeqIs
      <3> QED BY <2>1, <3>3
    <2>3. CopyInv'
      <3>1. pending' \in Seq({c \in DOMAIN copies' \ Instances' : c.of \in Nodes'})
        <4>1. new \subseteq {c \in DOMAIN copies' \ Instances' : c.of \in Nodes'}
          <5> HIDE DEF groups
          <5> QED BY <1>6, <1>9, <2>1
        <4> HIDE DEF new
        <4> QED BY <2>2, <4>1, SeqMonotonic
      <3>2. ASSUME NEW c \in DOMAIN copies
            PROVE  /\ Reached(c)'
                   /\ Filled(c)' \/ ("type" \in DOMAIN copies'[c] /\ copies'[c].type = "null")
                   /\ copies'[c].type = "null" => c.of \notin Nodes'
        <4>1. copies'[c] = copies[c] /\ DOMAIN copies \subseteq DOMAIN copies'
          BY <2>1
        <4>2. Filled(c) => Filled(c)'
          BY <1>6, <4>1 DEF Filled, RefsOf
        <4> QED BY <1>3, <1>4, <1>6, <4>1, <4>2 DEF ImportInv, CopyInv, ToSet
      <3>3. ASSUME NEW c \in groups \ DOMAIN copies
            PROVE  /\ Reached(c)' /\ copies'[c] = Empty
                   /\ c \in ToSet(pending') \/ c.of \notin Nodes'
        <4>1. PICK l \in src.oc.groups : c = [of |-> l, ord |-> 0] /\ Carried(l) /\ l \notin Pages
          BY <1>7
        <4>2. Reached(c)
          BY <4>1 DEF Reached
        <4>3. c \in new \/ c.of \notin Nodes
          OBVIOUS
        <4> HIDE DEF new, groups
        <4> QED BY <1>6, <2>1, <2>2, <4>2, <4>3
      <3> HIDE DEF groups
      <3>4. \A c \in DOMAIN copies' :
               /\ Reached(c)'
               /\ Filled(c)' \/ ("type" \in DOMAIN copies'[c] /\ copies'[c].type = "null")
               /\ copies'[c].type = "null" => c \in ToSet(pending') \/ c.of \notin Nodes'
        BY <2>1, <3>2, <3>3 DEF Empty
      <3> QED BY <1>1, <1>6, <1>9, <2>1, <3>1, <3>4 DEF CopyInv
    <2>4. TurnInv'
      BY <1>2, <1>3, <1>6, <1>9, <2>1 DEF ImportInv, TurnInv
    <2>5. ASSUME NEW l \in src.oc.groups
          PROVE  /\ CopyOf(l, 0) \in layers'.groups
                 /\ Off(layers', CopyOf(l, 0)) = Off(src.oc, l)
      <3> DEFINE g == CopyOf(l, 0)
      <3>1. \A s : s \subseteq src.oc.groups => (g \in Refs(s) <=> l \in s)
        <4> TAKE s
        <4> HAVE s \subseteq src.oc.groups
        <4>1. \A k \in s : CopyOf(k, 0) = g => k = l
          BY <1>7
        <4> QED BY <4>1
      <3>2. /\ layers.has \in BOOLEAN
            /\ DOMAIN layers = {"has", "base", "groups", "on", "off"}
            /\ g \notin layers.on \cup layers.off
        BY <1>3, <1>4, <1>7 DEF ImportInv, GivenInv, IsTarget, OwnLayers
      <3>3. g \in groups /\ (g \in Refs(src.oc.on) <=> l \in src.oc.on)
            /\ (g \in Refs(src.oc.off) <=> l \in src.oc.off)
        BY <1>8, <3>1
      <3>4. /\ g \in Refs(Away) <=> Off(src.oc, l)
            /\ g \in Refs(src.oc.groups \ Away) <=> ~Off(src.oc, l)
        <4>1. Away \subseteq src.oc.groups /\ src.oc.groups \ Away \subseteq src.oc.groups
          BY DEF Away
        <4>2. l \in Away <=> Off(src.oc, l)
          BY DEF Away
        <4> HIDE DEF Refs, g
        <4> QED BY <3>1, <4>1, <4>2
      <3> HIDE DEF g, Refs
      <3>5. CASE ~layers.has
        <4>1. /\ layers'.groups = groups /\ layers'.on = Refs(src.oc.on) /\ layers'.off = Refs(src.oc.off)
              /\ layers'.base = src.oc.base
          BY <1>1, <1>11, <3>5
        <4>2. Off(layers', g) <=> Off(src.oc, l)
          BY <3>3, <4>1 DEF Off
        <4>3. Off(layers', g) = Off(src.oc, l)
          BY <4>2 DEF Off
        <4> QED BY <3>3, <4>1, <4>3 DEF g
      <3>6. CASE layers.has /\ layers.base = "OFF"
        <4>1. /\ layers'.groups = layers.groups \cup groups /\ layers'.off = layers.off /\ layers'.base = "OFF"
              /\ layers'.on = layers.on \cup Refs(src.oc.groups \ Away)
          BY <1>1, <1>11, <3>2, <3>6
        <4>2. Off(layers', g) <=> Off(src.oc, l)
          <5> DEFINE off == Off(src.oc, l)
          <5> HIDE DEF off
          <5> QED BY <3>2, <3>4, <4>1 DEF Off, off
        <4>3. Off(layers', g) = Off(src.oc, l)
          BY <4>2 DEF Off
        <4> QED BY <3>3, <4>1, <4>3 DEF g
      <3>7. CASE layers.has /\ layers.base # "OFF"
        <4>1. /\ layers'.groups = layers.groups \cup groups /\ layers'.on = layers.on /\ layers'.base = layers.base
              /\ layers'.off = layers.off \cup Refs(Away)
          BY <1>1, <1>11, <3>2, <3>7
        <4>2. Off(layers', g) <=> Off(src.oc, l)
          BY <3>2, <3>4, <3>7, <4>1 DEF Off
        <4>3. Off(layers', g) = Off(src.oc, l)
          BY <4>2 DEF Off
        <4> QED BY <3>3, <4>1, <4>3 DEF g
      <3> QED BY <3>2, <3>5, <3>6, <3>7 DEF g
    <2>6. JoinInv'
      <3>1. \A l \in src'.oc.groups : /\ CopyOf(l, 0)' \in layers'.groups
                                     /\ Off(layers', CopyOf(l, 0)') = Off(src'.oc, l)
        BY <1>2, <1>6, <2>5
      <3>2. tree' = [kids |-> [i \in DOMAIN ask' |-> Instance(i)'], count |-> dst'.held + Len(ask')]
        BY <1>2, <1>3, <1>6 DEF ImportInv, JoinInv
      <3> QED BY <1>1, <3>1, <3>2 DEF JoinInv, Off
    <2> QED BY <1>5, <2>3, <2>4, <2>6 DEF ImportInv
  <1> QED BY <1>10, <1>11

\* The end, and what comes after it.
LEMMA FinishStep ==
    ASSUME ImportInv, (Finish \/ UNCHANGED importVars)
    PROVE  ImportInv'
  <1>1. /\ UNCHANGED <<given, at, bound, copies, pending, tree, layers>>
        /\ step' = step \/ (step = "finish" /\ step' = "done" /\ pending = <<>>)
    BY DEF Finish, importVars
  <1>2. /\ src' = src /\ ask' = ask /\ dst' = dst /\ at' = at /\ bound' = bound
        /\ copies' = copies /\ pending' = pending /\ tree' = tree /\ layers' = layers
    BY <1>1 DEF given
  <1>3. Copying' = Copying /\ Hung' = Hung
    BY <1>1 DEF Copying, Hung
  <1>4. GivenInv' /\ BoundInv'
    <2>1. UNCHANGED <<given, bound>>
      BY <1>1
    <2>2. step' \in {"check", "refused", "bind", "copy", "form", "catalog", "finish", "done"}
      BY <1>1 DEF ImportInv, GivenInv
    <2> QED BY <1>1, <1>3, <2>1, <2>2, BoundStays DEF ImportInv
  <1>5. /\ Nodes' = Nodes /\ Instances' = Instances /\ (\A i : Instance(i)' = Instance(i))
        /\ (\A c : Reached(c)' = Reached(c)) /\ (\A n, ord : CopyDict(n, ord)' = CopyDict(n, ord))
        /\ \A n, ord : CopyOf(n, ord)' = CopyOf(n, ord)
    BY <1>1, Unmoved
  <1>6. CopyInv'
    <2>1. \A c : Filled(c)' = Filled(c)
      BY <1>2, <1>5 DEF Filled, RefsOf
    <2>2. \A c : ToCome(c) => ToCome(c)'
      BY <1>1, <1>2, <1>5 DEF ToCome
    <2> QED BY <1>1, <1>2, <1>3, <1>5, <2>1, <2>2 DEF ImportInv, CopyInv
  <1>7. TurnInv'
    BY <1>2, <1>3, <1>5 DEF ImportInv, TurnInv
  <1>8. JoinInv'
    BY <1>1, <1>2, <1>3, <1>5 DEF ImportInv, JoinInv, Off
  <1> QED BY <1>4, <1>6, <1>7, <1>8 DEF ImportInv

\* Half-way through an import, and at its end, what has a number is carried, what
\* has a value has its own, and what has none is still on the list.
THEOREM ImportSound == ImportSpec => []ImportInv
  <1>1. ImportInit => ImportInv
    BY InitInv
  <1>2. ImportInv /\ [ImportNext]_importVars => ImportInv'
    BY BeginStep, BindStep, CopyPageStep, DrainStep, HangStep, MergeStep, CarryStep,
       FinishStep
      DEF ImportNext, Returned
  <1> QED BY <1>1, <1>2, PTL DEF ImportSpec

-----------------------------------------------------------------------------
(* What an import ends with.                                                *)

\* When nothing is on the list, and no page is to come.
Settled == Copying /\ pending = <<>> /\ \A c : ~ToCome(c)

\* Then every number with a source has its value.
LEMMA SettledIs ==
    ASSUME ImportInv, Settled
    PROVE  /\ Prepared
           /\ \A c \in DOMAIN copies : /\ Reached(c)
                                       /\ copies[c].type = "null" => c.of \notin Nodes
                                       /\ copies[c].type # "null" => Filled(c)
  <1>1. Prepared
    BY IsReady DEF Settled, Copying, ImportInv
  <1>2. \A c \in DOMAIN copies : /\ Reached(c)
                                 /\ copies[c].type = "null" => c.of \notin Nodes
                                 /\ copies[c].type # "null" => Filled(c)
    BY DEF Settled, ImportInv, CopyInv, ToSet
  <1> QED BY <1>1, <1>2

\* And so it is at the end.
LEMMA EndIs ==
    ASSUME ImportInv, Done
    PROVE  /\ Settled /\ Prepared /\ Copying /\ Hung /\ pending = <<>> /\ (\A c : ~ToCome(c))
           /\ \A c \in DOMAIN copies : /\ Reached(c)
                                       /\ copies[c].type = "null" => c.of \notin Nodes
                                       /\ copies[c].type # "null" => Filled(c)
  <1>1. step = "done" /\ Copying /\ Hung
    BY DEF Done, Copying, Hung
  <1>2. pending = <<>> /\ \A c : ~ToCome(c)
    BY <1>1 DEF ImportInv, CopyInv, ToCome
  <1>3. Settled
    BY <1>1, <1>2 DEF Settled
  <1> QED BY <1>1, <1>2, <1>3, SettledIs

\* An annotation listed for a page, when carried, is shown as that repetition's.
LEMMA AnnotIs ==
    ASSUME ImportInv, Settled, NEW i \in DOMAIN ask
    PROVE  /\ \A a \in ToSet(Annots(i)) : CopyOf(a, Instance(i).ord) = [of |-> a, ord |-> Instance(i).ord]
           /\ \A a \in ToSet(Annots(i)) :
                 Carried(a) => CopyOf(a, Instance(i).ord) \in ToSet(copies[Instance(i)].ref["Annots"])
           /\ \A c \in ToSet(copies[Instance(i)].ref["Annots"]) :
                 /\ c \in DOMAIN copies
                 /\ \E a \in ToSet(Annots(i)) : Carried(a) /\ c = [of |-> a, ord |-> Instance(i).ord]
  <1> DEFINE c == Instance(i)
  <1>1. Prepared /\ c \in Instances /\ c.of = ask[i] /\ c.of \in Pages /\ Filled(c)
    BY SettledIs, PagesFilled, InstanceIs DEF ImportInv, Settled
  <1>2. c.of \in Nodes /\ src.object[c.of].type = "page"
    BY <1>1 DEF Pages
  <1>3. ASSUME NEW a \in ToSet(Annots(i))
        PROVE  CopyOf(a, c.ord) = [of |-> a, ord |-> c.ord]
    <2>1. a \notin Pages
      BY <1>1, <1>2, ObjectIs DEF Prepared, Annots, Pages
    <2>2. a \in bound.annots
      BY DEF Settled, ImportInv, BoundInv
    <2> QED BY <2>1, <2>2 DEF CopyOf, IsBound
  <1>4. Len(Annots(i)) \in Nat /\ DOMAIN Annots(i) = 1..Len(Annots(i))
    BY <1>1, <1>2, ObjectIs DEF Prepared, Annots, Keys
  <1>5. /\ copies[c].ref["Annots"] = CopyRefs(Annots(i), c.ord)
        /\ ToSet(copies[c].ref["Annots"]) \subseteq DOMAIN copies
    <2>1. /\ copies[c].ref = CopyDict(c.of, c.ord).ref
          /\ RefsOf(CopyDict(c.of, c.ord)) \subseteq DOMAIN copies
      BY <1>1 DEF Filled
    <2>2. CopyDict(c.of, c.ord).ref["Annots"] = CopyRefs(Annots(i), c.ord)
      BY <1>1 DEF CopyDict, Keys, Annots
    <2>3. ToSet(CopyDict(c.of, c.ord).ref["Annots"]) \subseteq RefsOf(CopyDict(c.of, c.ord))
      BY DEF RefsOf, Keys
    <2> QED BY <2>1, <2>2, <2>3
  <1> HIDE DEF c
  <1>6. /\ \A a \in ToSet(Annots(i)) : Carried(a) => CopyOf(a, c.ord) \in ToSet(copies[c].ref["Annots"])
        /\ \A r \in ToSet(copies[c].ref["Annots"]) : \E a \in ToSet(Annots(i)) : Carried(a) /\ r = CopyOf(a, c.ord)
    BY <1>4, <1>5, CopiedRefs
  <1> QED BY <1>3, <1>5, <1>6 DEF c

LEMMA PagesEnd ==
    ASSUME ImportInv
    PROVE  PagesApart
  <1> SUFFICES ASSUME Done PROVE PagesApart
    BY DEF PagesApart
  <1>0. Settled
    BY EndIs
  <1>1. /\ Prepared /\ Copying /\ Hung /\ pending = <<>> /\ (\A c : ~ToCome(c))
        /\ \A c \in DOMAIN copies : /\ Reached(c)
                                    /\ copies[c].type = "null" => c.of \notin Nodes
                                    /\ copies[c].type # "null" => Filled(c)
    BY EndIs
  <1>2. \A c \in Instances : c \in DOMAIN copies /\ copies[c].type # "null" /\ Filled(c) /\ c.of \in Pages
    BY <1>1, PagesFilled DEF ImportInv
  <1>3. \A c \in DOMAIN copies : copies[c].type # "null" => copies[c].type = src.object[c.of].type
    BY <1>1 DEF Filled, CopyDict
  <1>4. Copied("page") = Instances
    <2>1. \A c \in Instances : c \in DOMAIN copies /\ copies[c].type = "page"
      BY <1>2, <1>3 DEF Pages
    <2>2. \A c \in DOMAIN copies : copies[c].type = "page" => c \in Instances
      BY <1>1, <1>3 DEF Reached, Filled, Pages
    <2> QED BY <2>1, <2>2 DEF Copied
  <1>5. ASSUME NEW c \in Instances
        PROVE  LET own == copies[c].turn
               IN  (IF own # None THEN own ELSE IF dst.turn # None THEN dst.turn ELSE 0)
                     = (IF src.object[c.of].turn = None THEN 0 ELSE src.object[c.of].turn)
    <2>1. copies[c].turn = IF src.object[c.of].turn = None /\ dst.turn # None THEN 0 ELSE src.object[c.of].turn
      BY <1>1, <1>2 DEF ImportInv, TurnInv
    <2>2. 0 # None
      BY ImportAssumption
    <2> QED BY <2>1, <2>2
  <1>6. ASSUME NEW c \in Instances, NEW d \in Instances, c # d, c.of = d.of
        PROVE  copies[c].ref["Refs"] = copies[d].ref["Refs"]
    <2> DEFINE refs == src.object[c.of].ref["Refs"]
    <2>1. /\ copies[c].ref["Refs"] = CopyRefs(refs, c.ord)
          /\ copies[d].ref["Refs"] = CopyRefs(refs, d.ord)
      <3>1. copies[c].ref = CopyDict(c.of, c.ord).ref /\ copies[d].ref = CopyDict(d.of, d.ord).ref
        BY <1>2 DEF Filled
      <3>2. \A n, ord : CopyDict(n, ord).ref["Refs"] = CopyRefs(src.object[n].ref["Refs"], ord)
        BY DEF CopyDict, Keys
      <3> QED BY <1>6, <3>1, <3>2
    <2>2. c.of \in Nodes /\ src.object[c.of].type = "page"
      BY <1>2 DEF Pages
    <2>3. Len(refs) \in Nat /\ DOMAIN refs = 1..Len(refs)
      BY <1>1, <2>2, ObjectIs DEF Prepared, Keys
    <2>4. ASSUME NEW r \in ToSet(refs) PROVE ~IsBound(r)
      <3>1. r \notin bound.annots
        <4>1. \A i \in DOMAIN ask : r \notin ToSet(Annots(i))
          BY <1>1, <2>2, ObjectIs DEF Prepared, Annots, Pages
        <4> QED BY <1>1, <4>1 DEF ImportInv, BoundInv
      <3>2. r \notin bound.nodes
        <4>1. PICK i \in DOMAIN ask : c = Instance(i)
          BY DEF Instances
        <4>2. r \in Drawn
          BY <4>1, InstanceIs DEF Drawn
        <4> QED BY <1>1, <4>2 DEF ImportInv, BoundInv
      <3> QED BY <3>1, <3>2 DEF IsBound
    <2>5. \A r \in ToSet(refs) : CopyOf(r, c.ord) = CopyOf(r, d.ord)
      BY <2>4 DEF CopyOf
    <2> HIDE DEF refs
    <2> QED BY <2>1, <2>3, <2>5, SameRefs
  <1>7. ASSUME NEW c \in Instances, NEW d \in Instances, c # d, c.of = d.of
        PROVE  ToSet(copies[c].ref["Annots"]) \cap ToSet(copies[d].ref["Annots"]) = {}
    <2>1. PICK i \in DOMAIN ask, j \in DOMAIN ask : c = Instance(i) /\ d = Instance(j)
      BY DEF Instances
    <2>2. c = [of |-> c.of, ord |-> c.ord] /\ d = [of |-> d.of, ord |-> d.ord]
      BY <2>1, InstanceIs
    <2>3. c.ord # d.ord
      BY <1>7, <2>2
    <2>4. /\ \A a \in ToSet(copies[c].ref["Annots"]) : a.ord = c.ord
          /\ \A a \in ToSet(copies[d].ref["Annots"]) : a.ord = d.ord
      BY <1>0, <2>1, AnnotIs
    <2> QED BY <2>3, <2>4
  <1>8. ASSUME NEW a \in Shown \ Copied("null"), copies[a].p # None
        PROVE  copies[a].p \in Instances /\ a \in ToSet(copies[copies[a].p].ref["Annots"])
    <2>1. PICK i \in DOMAIN ask : a \in ToSet(copies[Instance(i)].ref["Annots"])
      BY DEF Shown, Instances
    <2>2. a \in DOMAIN copies
      BY <1>0, <2>1, AnnotIs
    <2>3. PICK n \in ToSet(Annots(i)) : Carried(n) /\ a = [of |-> n, ord |-> Instance(i).ord]
      BY <1>0, <2>1, AnnotIs
    <2>4. Filled(a)
      BY <1>1, <1>8, <2>2 DEF Copied
    <2>5. /\ n \in bound.annots
          /\ a \in DOMAIN bound.owner
          /\ \E j \in DOMAIN ask : a \in Lists(j) /\ bound.owner[a] = Instance(j)
      <3>1. a \in Lists(i)
        BY <2>3 DEF Lists
      <3> QED BY <1>1, <2>3, <3>1 DEF ImportInv, BoundInv
    <2>6. copies[a].p = IF src.object[n].p # None THEN bound.owner[a] ELSE remapDest(src.object[n].p)
      <3>1. copies[a].p = CopyDict(a.of, a.ord).p /\ a.of = n /\ a = [of |-> a.of, ord |-> a.ord]
        BY <2>3, <2>4 DEF Filled
      <3>2. CopyDict(n, a.ord).p = IF n \in bound.annots /\ src.object[n].p # None
                                       /\ [of |-> n, ord |-> a.ord] \in DOMAIN bound.owner
                                   THEN bound.owner[[of |-> n, ord |-> a.ord]]
                                   ELSE remapDest(src.object[n].p)
        BY DEF CopyDict
      <3> QED BY <2>5, <3>1, <3>2
    <2>7. copies[a].p = bound.owner[a]
      BY <1>8, <2>6 DEF remapDest
    <2>8. PICK j \in DOMAIN ask : a \in Lists(j) /\ bound.owner[a] = Instance(j)
      BY <2>5
    <2>9. PICK x \in ToSet(Annots(j)) : a = [of |-> x, ord |-> Instance(j).ord]
      BY <2>8 DEF Lists
    <2>10. x = n
      BY <2>3, <2>9
    <2>11. a \in ToSet(copies[Instance(j)].ref["Annots"])
      BY <1>0, <2>3, <2>9, <2>10, AnnotIs
    <2> QED BY <2>7, <2>8, <2>11, InstanceIs
  <1>9. \A c \in Copied("null") : c.of \notin Nodes
    BY <1>1 DEF Copied
  <1>10. tree = [kids |-> [i \in DOMAIN ask |-> Instance(i)], count |-> dst.held + Len(ask)]
    BY <1>1 DEF ImportInv, JoinInv
  <1>11. \A c, d \in Instances : c # d /\ c.of = d.of =>
            /\ copies[c].ref["Refs"] = copies[d].ref["Refs"]
            /\ ToSet(copies[c].ref["Annots"]) \cap ToSet(copies[d].ref["Annots"]) = {}
    BY <1>6, <1>7
  <1>12. \A a \in Shown \ Copied("null") : copies[a].p # None =>
            copies[a].p \in Instances /\ a \in ToSet(copies[copies[a].p].ref["Annots"])
    BY <1>8
  <1> QED BY <1>4, <1>5, <1>9, <1>10, <1>11, <1>12, Zenon DEF PagesApart

LEMMA LinksEnd ==
    ASSUME ImportInv
    PROVE  LinksLead
  <1> SUFFICES ASSUME Done PROVE LinksLead
    BY DEF LinksLead
  <1>0. Settled
    BY EndIs
  <1>1. /\ Prepared
        /\ \A c \in DOMAIN copies : /\ Reached(c)
                                    /\ copies[c].type # "null" => Filled(c)
    BY EndIs
  <1>2. \A i \in DOMAIN ask : Instance(i) \in Instances /\ Instance(i).of = ask[i] /\ ask[i] \in Pages
    BY <1>1, InstanceIs DEF Prepared
  <1>3. \A n \in ToSet(ask) : n \in Pages
    BY <1>1 DEF Prepared, ToSet
  <1>4. \A n \in ToSet(ask) : [of |-> n, ord |-> 0] \in Instances /\ [of |-> n, ord |-> 0] # None /\ n # None
    BY <1>1, <1>3, FirstCopy DEF Prepared, IsDocument, Pages, Nodes
  <1>5. \A n : n # None /\ Imported(n) <=> remapDest(n) # None
    BY <1>4 DEF remapDest, Imported
  <1>6. \A n : remapDest(n) # None => remapDest(n) \in Instances
    BY <1>4 DEF remapDest, Imported
  <1>7. ASSUME NEW c \in DOMAIN copies \ Copied("null")
        PROVE  /\ copies[c].dest # None => copies[c].dest \in Instances
               /\ src.object[c.of].dest # None \/ copies[c].type = "GoTo" => copies[c].dest # None
               /\ copies[c].type = "Link" /\ src.object[c.of].ref["A"] # <<>> /\ copies[c].dest = None
                     => copies[c].ref["A"] # <<>>
    <2> DEFINE o == src.object[c.of]
    <2>1. Filled(c) /\ Reached(c)
      BY <1>1, <1>7 DEF Copied
    <2>2. c.of \in Nodes /\ copies[c].type = o.type /\ copies[c].dest = remapDest(o.dest)
      BY <2>1 DEF Filled, CopyDict
    <2>3. copies[c].ref["A"] = CopyRefs(o.ref["A"], c.ord)
      BY <2>1 DEF Filled, CopyDict, Keys
    <2>4. c.of \notin Pages => ~dropsOut[c.of]
      BY <2>1, <2>2, <1>2 DEF Reached, Carried, Instances
    <2>5. o.type = "page" <=> c.of \in Pages
      BY <2>2 DEF Pages
    <2>6. o.dest # None => o.type \in {"Link", "GoTo"}
      BY <1>1, <2>2, ObjectIs DEF Prepared
    <2>7. /\ o.type = "GoTo" => Imported(o.dest)
          /\ o.type = "Link" /\ o.dest # None => Imported(o.dest)
          /\ o.type = "Link" /\ o.dest = None => \A a \in ToSet(o.ref["A"]) : a \in Nodes => ~dropsOut[a]
      BY <1>1, <2>2, <2>4, <2>5, DropsOutIs DEF Prepared
    <2>8. /\ copies[c].dest # None => copies[c].dest \in Instances
          /\ o.dest # None \/ o.type = "GoTo" => copies[c].dest # None
      BY <1>4, <1>5, <1>6, <2>2, <2>6, <2>7 DEF Imported
    <2>9. ASSUME o.type = "Link", o.ref["A"] # <<>>, copies[c].dest = None
          PROVE  copies[c].ref["A"] # <<>>
      <3>1. o.dest = None
        BY <2>8, <2>9
      <3>2. o.ref["A"] \in Seq(ToSet(o.ref["A"]))
            /\ Len(o.ref["A"]) \in Nat /\ DOMAIN o.ref["A"] = 1..Len(o.ref["A"])
        BY <1>1, <2>2, SequenceIs DEF Prepared, IsDocument, IsSequence, Nodes, Keys
      <3>3. PICK a \in ToSet(o.ref["A"]) : TRUE
        <4>1. Len(o.ref["A"]) # 0
          BY <2>9, <3>2, EmptySeq
        <4>2. 1 \in DOMAIN o.ref["A"]
          BY <3>2, <4>1
        <4> QED BY <4>2 DEF ToSet
      <3>4. a \in Nodes => src.object[a].type # "page"
        BY <1>1, <2>2, <3>3, ObjectIs DEF Prepared
      <3>5. Carried(a)
        BY <2>7, <2>9, <3>1, <3>3, <3>4 DEF Carried, Pages
      <3>6. CopyOf(a, c.ord) \in ToSet(CopyRefs(o.ref["A"], c.ord))
        BY <3>2, <3>3, <3>5, CopiedRefs
      <3>7. \A x : x \notin ToSet(<<>>)
        BY DEF ToSet
      <3> QED BY <2>3, <3>6, <3>7
    <2> QED BY <2>2, <2>8, <2>9
  <1>8. ASSUME NEW i \in DOMAIN ask, NEW a \in ToSet(src.object[ask[i]].ref["Annots"]),
               CopyOf(a, Instance(i).ord) \notin Shown
        PROVE  LET o == src.object[a]
                   ends == IF o.dest # None THEN {o.dest} ELSE {src.object[x].dest : x \in ToSet(o.ref["A"])}
               IN  o.type = "Link" /\ ends \cap ToSet(ask) = {}
    <2> DEFINE o == src.object[a]
    <2>1. ~Carried(a)
      <3>1. a \in ToSet(Annots(i))
        BY DEF Annots
      <3> QED BY <1>0, <1>2, <1>8, <3>1, AnnotIs DEF Shown
    <2>2. ask[i] \in Nodes /\ (a \in Nodes => o.type \notin {"page", "GoTo", "Thread"})
      BY <1>1, <1>2, ObjectIs DEF Pages, Prepared
    <2>3. a \in Nodes /\ dropsOut[a]
      BY <2>1, <2>2 DEF Carried, Pages
    <2>4. /\ o.type = "Link"
          /\ \/ o.dest # None /\ ~Imported(o.dest)
             \/ o.dest = None /\ \E x \in ToSet(o.ref["A"]) : x \in Nodes /\ dropsOut[x]
      BY <1>1, <2>2, <2>3, DropsOutIs DEF Prepared
    <2>5. CASE o.dest # None
      BY <2>4, <2>5 DEF Imported
    <2>6. CASE o.dest = None
      <3>1. PICK x \in ToSet(o.ref["A"]) : x \in Nodes /\ dropsOut[x]
        BY <2>4, <2>6
      <3>2. src.object[x].type \notin {"page", "Link"} /\ (src.object[x].dest # None => src.object[x].type = "GoTo")
        BY <1>1, <2>3, <3>1, ObjectIs DEF Prepared
      <3>3. ~Imported(src.object[x].dest)
        BY <1>1, <1>4, <3>1, <3>2, DropsOutIs DEF Prepared, Imported
      <3>4. \A y \in ToSet(o.ref["A"]) : y = x
        <4>1. Len(o.ref["A"]) \in Nat /\ Len(o.ref["A"]) <= 1 /\ DOMAIN o.ref["A"] = 1..Len(o.ref["A"])
          BY <1>1, <2>3, ObjectIs DEF Prepared, Keys
        <4>2. \A k \in DOMAIN o.ref["A"] : k = 1
          BY <4>1
        <4> QED BY <3>1, <4>2 DEF ToSet
      <3> QED BY <2>4, <2>6, <3>3, <3>4 DEF Imported
    <2> QED BY <2>5, <2>6
  <1> QED BY <1>7, <1>8 DEF LinksLead

\* A page asked for twice is two pages, each with annotations of its own.
THEOREM PagesKeptApart == ImportSpec => []PagesApart
  BY ImportSound, PagesEnd, PTL

\* No link is left leading nowhere, and none that leads somewhere is left out.
THEOREM LinksKept == ImportSpec => []LinksLead
  BY ImportSound, LinksEnd, PTL

\* A layer is in the target as visible as it was.
THEOREM LayersKept == ImportSpec => []HiddenStays
  <1>1. ImportInv => HiddenStays
    BY DEF ImportInv, JoinInv, HiddenStays, Done
  <1> QED BY <1>1, ImportSound, PTL

-----------------------------------------------------------------------------
(* The form of a source.                                                    *)

\* What is picked of a sequence.
LEMMA PickedIs ==
    ASSUME NEW n \in Nat, NEW s, DOMAIN s = 1..n, NEW W, W \subseteq 1..n
    PROVE  /\ Cardinality(W) \in Nat /\ DOMAIN Picked(s, W) = 1..Cardinality(W) /\ IsSequence(Picked(s, W))
           /\ \A x \in ToSet(Picked(s, W)) : \E k \in W : x = s[k]
           /\ \A k \in W : s[k] \in ToSet(Picked(s, W))
           /\ (\A k, l \in W : s[k] = s[l] => k = l) => IsInjective(Picked(s, W))
  <1> DEFINE rank(k) == Cardinality({j \in W : j <= k})
             m == Cardinality(W)
             nth(i) == CHOOSE k \in W : rank(k) = i
             T == Picked(s, W)
  <1>1. T = [i \in 1..m |-> s[nth(i)]]
    BY DEF Picked
  <1>2. /\ m \in Nat
        /\ \A k \in W : rank(k) \in 1..m
        /\ \A k, l \in W : rank(k) = rank(l) => k = l
        /\ \A i \in 1..m : \E k \in W : rank(k) = i
    BY RankIs
  <1> HIDE DEF m, rank
  <1>3. \A i \in 1..m : nth(i) \in W /\ rank(nth(i)) = i
    BY <1>2
  <1>4. \A k \in W : nth(rank(k)) = k
    BY <1>2
  <1> HIDE DEF T, nth
  <1>5. \A x \in ToSet(T) : \E k \in W : x = s[k]
    BY <1>1, <1>3 DEF ToSet
  <1>6. ASSUME NEW k \in W PROVE s[k] \in ToSet(T)
    <2>1. rank(k) \in DOMAIN T /\ T[rank(k)] = s[k]
      BY <1>1, <1>2, <1>4
    <2> QED BY <2>1 DEF ToSet
  <1>7. ASSUME \A k, l \in W : s[k] = s[l] => k = l
        PROVE  IsInjective(T)
    <2> SUFFICES ASSUME NEW i \in 1..m, NEW j \in 1..m, T[i] = T[j] PROVE i = j
      BY <1>1 DEF IsInjective
    <2>1. nth(i) = nth(j)
      BY <1>1, <1>3, <1>7
    <2> QED BY <1>3, <2>1
  <1>8. DOMAIN T = 1..m
    BY <1>1
  <1>9. T \in Seq(ToSet(T))
    <2>1. T = [i \in 1..m |-> T[i]]
      BY <1>1
    <2>2. \A i \in 1..m : T[i] \in ToSet(T)
      BY <1>8 DEF ToSet
    <2>3. T \in [1..m -> ToSet(T)]
      BY <2>1, <2>2
    <2> QED BY <1>2, <2>3
  <1> QED BY <1>2, <1>5, <1>6, <1>7, <1>8, <1>9 DEF T, m, IsSequence

\* Each once, where it is first.
LEMMA FirstsAre ==
    ASSUME NEW n \in Nat, NEW s, DOMAIN s = 1..n, NEW Unwanted, NEW W, W \subseteq 1..n,
           \A k \in 1..n : k \in W <=> s[k] \notin Unwanted /\ \A j \in 1..(k - 1) : s[j] # s[k]
    PROVE  /\ \A x : (\E k \in W : x = s[k]) <=> x \in ToSet(s) /\ x \notin Unwanted
           /\ \A k, l \in W : s[k] = s[l] => k = l
  <1>1. ASSUME NEW k \in DOMAIN s, s[k] \notin Unwanted
        PROVE  \E l \in W : s[l] = s[k]
    <2> DEFINE S == {l \in DOMAIN s : s[l] = s[k]}
    <2>1. S \subseteq Nat /\ S # {}
      OBVIOUS
    <2>2. PICK l \in S : \A j \in S : l <= j
      <3> HIDE DEF S
      <3> QED BY <2>1, LeastIs
    <2>3. l \in DOMAIN s /\ s[l] = s[k] /\ l \in Nat /\ \A j \in DOMAIN s : s[j] = s[k] => l <= j
      BY <2>2
    <2>4. ASSUME NEW j \in 1..(l - 1), s[j] = s[l]
          PROVE  FALSE
      <3>1. j \in DOMAIN s /\ ~(l <= j)
        BY <2>3
      <3> QED BY <2>3, <2>4, <3>1
    <2>5. l \in W
      BY <1>1, <2>3, <2>4
    <2> QED BY <2>3, <2>5
  <1>2. ASSUME NEW k \in W, NEW l \in W, s[k] = s[l]
        PROVE  k = l
    <2>1. k \in 1..n /\ l \in 1..n
      OBVIOUS
    <2>2. ~(k < l)
      <3>1. k < l => k \in 1..(l - 1)
        BY <2>1
      <3> QED BY <1>2, <3>1
    <2>3. ~(l < k)
      <3>1. l < k => l \in 1..(k - 1)
        BY <2>1
      <3> QED BY <1>2, <3>1
    <2> QED BY <2>1, <2>2, <2>3
  <1>3. \A k \in W : k \in DOMAIN s /\ s[k] \notin Unwanted
    OBVIOUS
  <1>4. \A x : (\E k \in W : x = s[k]) <=> x \in ToSet(s) /\ x \notin Unwanted
    BY <1>1, <1>3 DEF ToSet
  <1> QED BY <1>2, <1>4

\* Numbers counted up to: what holds of the first and of the next holds of all.
LEMMA Counting ==
    ASSUME NEW n \in Nat, NEW S, n >= 1 => 1 \in S,
           \A k \in 1..(n - 1) : k \in S => k + 1 \in S
    PROVE  1..n \subseteq S
  <1> SUFFICES ASSUME NEW x \in 1..n, x \notin S PROVE FALSE
    OBVIOUS
  <1> DEFINE R == 1..n \ S
  <1>1. R \subseteq Nat /\ R # {}
    OBVIOUS
  <1>2. PICK k \in R : \A y \in R : k <= y
    <2> HIDE DEF R
    <2> QED BY <1>1, LeastIs
  <1>3. k \in 1..n /\ k \notin S
    BY <1>2
  <1>4. CASE k = 1
    BY <1>3, <1>4
  <1>5. CASE k # 1
    <2>1. k - 1 \in 1..(n - 1) /\ (k - 1) + 1 = k /\ ~(k <= k - 1) /\ k - 1 \in 1..n
      BY <1>3, <1>5
    <2>2. k - 1 \in S
      BY <1>2, <2>1
    <2> QED BY <1>3, <2>1, <2>2
  <1> QED BY <1>4, <1>5

\* Sequences one after the other: what is in one of them.
LEMMA FlattenIs ==
    ASSUME NEW n \in Nat, NEW X, NEW s \in [1..n -> Seq(X)]
    PROVE  /\ FlattenSeq(s) \in Seq(X)
           /\ ToSet(FlattenSeq(s)) = UNION {ToSet(s[i]) : i \in 1..n}
  <1>1. Len(s) = n /\ DOMAIN s = 1..n
    OBVIOUS
  <1>2. CASE n = 0
    <2>1. FlattenSeq(s) = s /\ s = <<>>
      BY <1>1, <1>2 DEF FlattenSeq
    <2> QED BY <1>2, <2>1 DEF ToSet
  <1>3. CASE n # 0
    <2> DEFINE body(f, i) == IF i = 1 THEN s[i] ELSE f[i - 1] \o s[i]
               F(f) == [i \in 1..n |-> body(f, i)]
               G == CHOOSE f : f = F(f)
               upto(k) == \E f \in [1..k -> Seq(X)] : f = [i \in 1..k |-> body(f, i)]
    <2>1. FlattenSeq(s) = G[n]
      BY <1>1, <1>3 DEF FlattenSeq
    <2>2. \E f \in [1..n -> Seq(X)] : f = F(f)
      <3> DEFINE S == {k \in 1..n : upto(k)}
      <3>1. upto(1)
        <4> DEFINE f == [i \in 1..1 |-> s[1]]
        <4>1. f \in [1..1 -> Seq(X)]
          BY <1>3
        <4>2. \A i \in 1..1 : body(f, i) = s[1]
          OBVIOUS
        <4>3. f = [i \in 1..1 |-> body(f, i)]
          BY <4>2
        <4> QED BY <4>1, <4>3
      <3>2. ASSUME NEW k \in 1..(n - 1), upto(k)
            PROVE  upto(k + 1)
        <4>1. PICK f \in [1..k -> Seq(X)] : f = [i \in 1..k |-> body(f, i)]
          BY <3>2
        <4> DEFINE g == [i \in 1..(k + 1) |-> IF i = k + 1 THEN f[k] \o s[k + 1] ELSE f[i]]
        <4>2. k \in Nat /\ k \in 1..k /\ k + 1 \in 1..n /\ k + 1 # 1
          OBVIOUS
        <4>3. g \in [1..(k + 1) -> Seq(X)]
          <5>1. f[k] \o s[k + 1] \in Seq(X)
            BY <4>2, ConcatProperties
          <5> QED BY <4>2, <5>1
        <4>4. ASSUME NEW i \in 1..(k + 1) PROVE g[i] = body(g, i)
          <5>1. CASE i = k + 1
            <6>1. g[i] = f[k] \o s[k + 1] /\ g[k] = f[k] /\ i - 1 = k /\ i # 1
              BY <4>2, <5>1
            <6> QED BY <5>1, <6>1
          <5>2. CASE i # k + 1
            <6>1. i \in 1..k /\ g[i] = f[i] /\ (i # 1 => i - 1 \in 1..k /\ g[i - 1] = f[i - 1])
              BY <4>2, <5>2
            <6>2. f[i] = body(f, i)
              BY <4>1, <6>1
            <6> HIDE DEF g
            <6> QED BY <6>1, <6>2
          <5> QED BY <5>1, <5>2
        <4>5. g = [i \in 1..(k + 1) |-> body(g, i)]
          <5>1. g = [i \in 1..(k + 1) |-> g[i]]
            OBVIOUS
          <5> HIDE DEF g, body
          <5> QED BY <4>4, <5>1
        <4> HIDE DEF g, body
        <4> QED BY <4>3, <4>5
      <3>3. 1 \in S /\ \A k \in 1..(n - 1) : k \in S => k + 1 \in S
        <4>1. 1 \in 1..n /\ \A k \in 1..(n - 1) : k + 1 \in 1..n
          BY <1>3
        <4> HIDE DEF upto
        <4> QED BY <3>1, <3>2, <4>1
      <3>4. upto(n)
        <4> HIDE DEF upto
        <4>1. n \in S
          <5> HIDE DEF S
          <5>1. 1..n \subseteq S
            BY <3>3, Counting
          <5>2. n \in 1..n
            BY <1>3
          <5> QED BY <5>1, <5>2
        <4> QED BY <4>1
      <3> QED BY <3>4
    <2>3. G = F(G)
      <3> HIDE DEF F
      <3> QED BY <2>2
    <2> HIDE DEF G
    <2>4. \A i \in 1..n : G[i] = body(G, i)
      BY <2>3
    <2> DEFINE S == {k \in 1..n : G[k] \in Seq(X) /\ ToSet(G[k]) = UNION {ToSet(s[i]) : i \in 1..k}}
    <2>5. 1 \in S
      <3>1. G[1] = s[1] /\ 1 \in 1..n
        BY <1>3, <2>4
      <3>2. UNION {ToSet(s[i]) : i \in 1..1} = ToSet(s[1])
        OBVIOUS
      <3> QED BY <3>1, <3>2
    <2>6. ASSUME NEW k \in 1..(n - 1), k \in S
          PROVE  k + 1 \in S
      <3>1. k + 1 \in 1..n /\ k + 1 # 1 /\ (k + 1) - 1 = k
        OBVIOUS
      <3>2. G[k + 1] = G[k] \o s[k + 1]
        BY <2>4, <3>1
      <3>3. G[k] \in Seq(X) /\ s[k + 1] \in Seq(X)
        BY <2>6, <3>1
      <3>4. G[k + 1] \in Seq(X) /\ ToSet(G[k + 1]) = ToSet(G[k]) \cup ToSet(s[k + 1])
        <4> DEFINE a == G[k]
                   b == s[k + 1]
        <4> HIDE DEF a, b
        <4>1. a \in Seq(X) /\ b \in Seq(X)
          BY <3>3 DEF a, b
        <4>2. /\ a \o b \in Seq(X) /\ Len(a \o b) = Len(a) + Len(b)
              /\ \A i \in 1..Len(a) + Len(b) : (a \o b)[i] = IF i <= Len(a) THEN a[i] ELSE b[i - Len(a)]
          BY <4>1, ConcatProperties
        <4>3. /\ Len(a) \in Nat /\ Len(b) \in Nat /\ DOMAIN a = 1..Len(a) /\ DOMAIN b = 1..Len(b)
              /\ DOMAIN (a \o b) = 1..(Len(a) + Len(b))
          BY <4>1, <4>2, LenProperties
        <4>4. ToSet(a \o b) \subseteq ToSet(a) \cup ToSet(b)
          <5> SUFFICES ASSUME NEW i \in 1..(Len(a) + Len(b)) PROVE (a \o b)[i] \in ToSet(a) \cup ToSet(b)
            BY <4>3 DEF ToSet
          <5>1. CASE i <= Len(a)
            <6>1. i \in DOMAIN a /\ (a \o b)[i] = a[i]
              BY <4>2, <4>3, <5>1
            <6> QED BY <6>1 DEF ToSet
          <5>2. CASE ~(i <= Len(a))
            <6>1. i - Len(a) \in DOMAIN b /\ (a \o b)[i] = b[i - Len(a)]
              BY <4>2, <4>3, <5>2
            <6> QED BY <6>1 DEF ToSet
          <5> QED BY <5>1, <5>2
        <4>5. ToSet(a) \subseteq ToSet(a \o b)
          <5> SUFFICES ASSUME NEW i \in 1..Len(a) PROVE a[i] \in ToSet(a \o b)
            BY <4>3 DEF ToSet
          <5>1. i \in 1..(Len(a) + Len(b)) /\ i <= Len(a)
            BY <4>3
          <5> QED BY <4>2, <4>3, <5>1 DEF ToSet
        <4>6. ToSet(b) \subseteq ToSet(a \o b)
          <5> SUFFICES ASSUME NEW i \in 1..Len(b) PROVE b[i] \in ToSet(a \o b)
            BY <4>3 DEF ToSet
          <5>1. Len(a) + i \in 1..(Len(a) + Len(b)) /\ ~(Len(a) + i <= Len(a)) /\ (Len(a) + i) - Len(a) = i
            BY <4>3
          <5> QED BY <4>2, <4>3, <5>1 DEF ToSet
        <4>7. G[k + 1] = a \o b
          BY <3>2 DEF a, b
        <4> QED BY <4>2, <4>4, <4>5, <4>6, <4>7 DEF a, b
      <3>5. UNION {ToSet(s[i]) : i \in 1..(k + 1)} = (UNION {ToSet(s[i]) : i \in 1..k}) \cup ToSet(s[k + 1])
        <4>1. 1..(k + 1) = 1..k \cup {k + 1}
          OBVIOUS
        <4> HIDE DEF G
        <4> QED BY <4>1
      <3> QED BY <2>6, <3>1, <3>4, <3>5
    <2>7. n \in S
      <3> HIDE DEF S
      <3>1. \A k \in 1..(n - 1) : k \in S => k + 1 \in S
        BY <2>6
      <3>2. 1..n \subseteq S
        BY <2>5, <3>1, Counting
      <3>3. n \in 1..n
        BY <1>3
      <3> QED BY <3>2, <3>3
    <2> QED BY <2>1, <2>7
  <1> QED BY <1>2, <1>3

-----------------------------------------------------------------------------
(* What is over a node of a source.                                         *)

IsPart(n) == src.object[n].type \in {"widget", "field"}

\* A node of a well formed source.
LEMMA FormedIs ==
    ASSUME IsFormed(src), IsDocument(src), NEW n \in Nodes
    PROVE  LET o == src.object[n]
           IN  /\ \/ Parent(n) = {} /\ o.ref["Parent"] = <<>>
                  \/ \E p \in Nodes : Parent(n) = {p} /\ o.ref["Parent"] = <<p>>
               /\ \A p \in Parent(n) : IF IsPart(n) THEN src.object[p].type = "field" /\ n \in ToSet(src.object[p].ref["Kids"])
                                       ELSE ~IsPart(p)
               /\ ~IsPart(n) => o.ref["Kids"] = <<>>
               /\ o.type = "widget" => o.ref["Kids"] = <<>>
               /\ \A kid \in ToSet(o.ref["Kids"]) \cap Nodes :
                     IsPart(kid) /\ src.object[kid].ref["Parent"] = <<n>>
  <1> DEFINE o  == src.object[n]
             up == o.ref["Parent"]
  <1>1. /\ Len(up) <= 1 /\ ToSet(up) \subseteq Nodes
        /\ \A p \in ToSet(up) : IF IsPart(n) THEN src.object[p].type = "field" /\ n \in ToSet(src.object[p].ref["Kids"])
                                ELSE ~IsPart(p)
        /\ o.ref["Kids"] # <<>> => o.type = "field"
        /\ \A kid \in ToSet(o.ref["Kids"]) \cap Nodes : IsPart(kid) /\ src.object[kid].ref["Parent"] = <<n>>
    BY DEF IsFormed, Nodes, IsPart
  <1>2. up \in Seq(ToSet(up))
    BY DEF IsDocument, IsSequence, Nodes, Keys
  <1>3. Parent(n) = ToSet(up)
    BY <1>1 DEF Parent
  <1> HIDE DEF up
  <1>4. \/ ToSet(up) = {} /\ up = <<>>
        \/ \E p \in Nodes : ToSet(up) = {p} /\ up = <<p>>
    <2>1. CASE Len(up) = 0
      <3>1. up = <<>>
        BY <1>2, <2>1
      <3> QED BY <3>1 DEF ToSet
    <2>2. CASE Len(up) = 1
      <3>1. up = <<up[1]>> /\ DOMAIN up = {1}
        BY <1>2, <2>2
      <3>2. ToSet(up) = {up[1]}
        <4>1. ToSet(up) = {up[k] : k \in {1}}
          BY <3>1 DEF ToSet
        <4> QED BY <4>1
      <3>3. up[1] \in Nodes
        BY <1>1, <3>2 DEF up
      <3> QED BY <3>1, <3>2, <3>3
    <2>3. Len(up) \in Nat
      BY <1>2
    <2>4. Len(up) <= 1
      BY <1>1 DEF up
    <2>5. Len(up) = 0 \/ Len(up) = 1
      <3>1. PICK k \in Nat : k = Len(up)
        BY <2>3
      <3>2. k <= 1
        BY <2>4, <3>1
      <3>3. k = 0 \/ k = 1
        BY <3>2
      <3> QED BY <3>1, <3>3
    <2> QED BY <2>1, <2>2, <2>5
  <1> QED BY <1>1, <1>3, <1>4 DEF up, IsPart

\* In every set of nodes one has nothing over it.
LEMMA LowestIs ==
    ASSUME IsFormed(src), NEW S \in SUBSET Nodes, S # {}
    PROVE  \E n \in S : Parent(n) \cap S = {}
  <1>1. PICK n \in S : ToSet(src.object[n].ref["Parent"]) \cap S = {}
    BY DEF IsFormed, Nodes
  <1> QED BY <1>1 DEF Parent

\* What is over a node has what is over it over the node.
LEMMA AboveClosed ==
    ASSUME NEW n \in Nodes
    PROVE  /\ Above(n) \subseteq Nodes
           /\ \A x \in Above(n) \cup {n} : Parent(x) \subseteq Above(n)
  <1>1. ASSUME NEW x \in Above(n) \cup {n}, NEW p \in Parent(x)
        PROVE  p \in Above(n)
    <2> SUFFICES ASSUME NEW S \in SUBSET Nodes, \A y \in S \cup {n} : Parent(y) \subseteq S
                 PROVE  p \in S
      BY DEF Above, Parent
    <2>1. x \in S \cup {n}
      BY DEF Above
    <2> QED BY <1>1, <2>1
  <1> QED BY <1>1 DEF Above

\* And nothing else is.
LEMMA AboveLeast ==
    ASSUME NEW n \in Nodes, NEW S, S \subseteq Nodes,
           \A x \in S \cup {n} : Parent(x) \subseteq S
    PROVE  Above(n) \subseteq S
  BY DEF Above

\* There is one node over all others.
LEMMA TopIs ==
    ASSUME IsFormed(src), IsDocument(src), NEW n \in Nodes
    PROVE  /\ Above(n) = {} <=> Parent(n) = {}
           /\ Above(n) # {} => /\ TopOf(n) \in Above(n) /\ Parent(TopOf(n)) = {}
                               /\ \A m \in Above(n) : Parent(m) = {} => m = TopOf(n)
  <1>1. Parent(n) \subseteq Above(n)
    BY AboveClosed
  <1>2. Parent(n) = {} => Above(n) = {}
    <2> HAVE Parent(n) = {}
    <2>1. Above(n) \subseteq {}
      BY AboveLeast
    <2> QED BY <2>1
  <1>3. ASSUME Above(n) # {}
        PROVE  \E m \in Above(n) : Parent(m) = {}
    <2>1. PICK m \in Above(n) : Parent(m) \cap Above(n) = {}
      BY <1>3, AboveClosed, LowestIs
    <2>2. Parent(m) \subseteq Above(n)
      BY AboveClosed
    <2> QED BY <2>1, <2>2
  <1>4. ASSUME NEW l \in Above(n), NEW m \in Above(n), Parent(l) = {}, Parent(m) = {}
        PROVE  l = m
    <2> DEFINE Bad == {x \in Nodes : \E y, z \in Above(x) : Parent(y) = {} /\ Parent(z) = {} /\ y # z}
    <2> SUFFICES ASSUME l # m PROVE FALSE
      OBVIOUS
    <2>1. n \in Bad
      BY <1>4
    <2>2. PICK x \in Bad : Parent(x) \cap Bad = {}
      <3>1. Bad \in SUBSET Nodes /\ Bad # {}
        BY <2>1
      <3> HIDE DEF Bad
      <3> QED BY <3>1, LowestIs
    <2>3. PICK y \in Above(x), z \in Above(x) : Parent(y) = {} /\ Parent(z) = {} /\ y # z
      BY <2>2
    <2>4. x \in Nodes
      BY <2>2
    <2>5. Parent(x) # {}
      <3>1. ASSUME Parent(x) = {} PROVE FALSE
        <4>1. Above(x) \subseteq {}
          BY <2>4, <3>1, AboveLeast
        <4> QED BY <2>3, <4>1
      <3> QED BY <3>1
    <2>6. PICK p \in Nodes : Parent(x) = {p}
      BY <2>4, <2>5, FormedIs
    <2>7. Above(x) \subseteq {p} \cup Above(p)
      <3> DEFINE S == {p} \cup Above(p)
      <3>1. \A w \in S \cup {x} : Parent(w) \subseteq S
        BY <2>6, AboveClosed
      <3>2. S \subseteq Nodes
        BY <2>6, AboveClosed
      <3> HIDE DEF S
      <3>3. Above(x) \subseteq S
        BY <2>4, <3>1, <3>2, AboveLeast
      <3> QED BY <3>3 DEF S
    <2>8. CASE Parent(p) = {}
      <3>1. Above(p) \subseteq {}
        BY <2>6, <2>8, AboveLeast
      <3> QED BY <2>3, <2>7, <3>1
    <2>9. CASE Parent(p) # {}
      <3>1. y \in Above(p) /\ z \in Above(p)
        BY <2>3, <2>7, <2>9
      <3>2. p \in Bad
        BY <2>3, <2>6, <3>1
      <3> QED BY <2>2, <2>6, <3>2
    <2> QED BY <2>8, <2>9
  <1>5. ASSUME Above(n) # {}
        PROVE  /\ TopOf(n) \in Above(n) /\ Parent(TopOf(n)) = {}
               /\ \A m \in Above(n) : Parent(m) = {} => m = TopOf(n)
    <2>1. TopOf(n) = CHOOSE m \in Above(n) : Parent(m) = {}
      BY <1>5 DEF TopOf
    <2>2. TopOf(n) \in Above(n) /\ Parent(TopOf(n)) = {}
      BY <1>3, <1>5, <2>1
    <2> QED BY <1>4, <2>2
  <1> QED BY <1>1, <1>2, <1>5

\* Over a widget or a field are fields, and over anything else is neither.
LEMMA AboveAre ==
    ASSUME IsFormed(src), IsDocument(src), NEW n \in Nodes
    PROVE  \A m \in Above(n) : IF IsPart(n) THEN src.object[m].type = "field" ELSE ~IsPart(m)
  <1> DEFINE S == {m \in Nodes : IF IsPart(n) THEN src.object[m].type = "field" ELSE ~IsPart(m)}
  <1>1. ASSUME NEW x \in S \cup {n}, NEW p \in Parent(x) PROVE p \in S
    <2>1. x \in Nodes /\ p \in Nodes /\ (IsPart(x) <=> IsPart(n))
      BY <1>1 DEF IsPart, Parent
    <2>2. IF IsPart(x) THEN src.object[p].type = "field" ELSE ~IsPart(p)
      BY <1>1, <2>1, FormedIs
    <2> QED BY <2>1, <2>2
  <1>2. Above(n) \subseteq S
    <2>1. \A x \in S \cup {n} : Parent(x) \subseteq S
      BY <1>1
    <2>2. S \subseteq Nodes
      OBVIOUS
    <2> HIDE DEF S
    <2> QED BY <2>1, <2>2, AboveLeast
  <1> QED BY <1>2

-----------------------------------------------------------------------------
(* What is bound.                                                           *)

\* What a document's form is made of stays.
LEMMA FormSame ==
    ASSUME IsFormed(src), IsDocument(src), UNCHANGED given
    PROVE  /\ Borne' = Borne /\ FieldsOver' = FieldsOver
           /\ TopsOver' = TopsOver /\ IsFormed(src)' = IsFormed(src)
  <1>1. src' = src /\ ask' = ask /\ dst' = dst
    BY DEF given
  <1>2. Nodes' = Nodes /\ \A i : Lists(i)' = Lists(i)
    BY <1>1 DEF Nodes, Lists, Annots, Instance
  <1>3. \A n : Parent(n)' = Parent(n)
    BY <1>1, <1>2 DEF Parent
  <1>4. \A n : Above(n)' = Above(n)
    BY <1>2, <1>3 DEF Above
  <1>5. ASSUME NEW n \in Nodes PROVE TopOf(n)' = TopOf(n)
    <2>1. src.object[n]' = src.object[n] /\ Above(n)' = Above(n)
      BY <1>1, <1>4
    <2>2. CASE Above(n) = {}
      BY <2>1, <2>2 DEF TopOf
    <2>3. CASE Above(n) # {}
      <3>1. TopOf(n) \in Above(n) /\ Parent(TopOf(n)) = {} /\ \A m \in Above(n) : Parent(m) = {} => m = TopOf(n)
        BY <2>3, TopIs
      <3>2. TopOf(n)' = (CHOOSE m \in Above(n) : Parent(m) = {})'
        BY <2>1, <2>3 DEF TopOf
      <3>3. \E m \in Above(n)' : Parent(m)' = {}
        BY <1>3, <2>1, <3>1
      <3>4. PICK t : t = TopOf(n)' /\ t \in Above(n)' /\ Parent(t)' = {}
        BY <3>2, <3>3
      <3> QED BY <1>3, <2>1, <3>1, <3>4
    <2> QED BY <2>2, <2>3
  <1>6. Borne' = Borne
    BY <1>1, <1>2 DEF Borne, Widget
  <1>7. FieldsOver' = FieldsOver
    BY <1>4, <1>6 DEF FieldsOver
  <1>8. IsFormed(src)' = IsFormed(src)
    BY <1>1 DEF IsFormed
  <1>9. TopsOver' = TopsOver
    <2>1. \A w \in Borne : TopOf(w.of)' = TopOf(w.of)
      BY <1>5 DEF Borne, Widget
    <2>2. TopsOver' \subseteq TopsOver
      BY <1>6, <2>1 DEF TopsOver
    <2>3. TopsOver \subseteq TopsOver'
      BY <1>6, <2>1 DEF TopsOver
    <2> QED BY <2>2, <2>3
  <1> QED BY <1>6, <1>7, <1>8, <1>9

\* The roots bound, each once.
LEMMA RootsBound ==
    ASSUME ImportInv, IsFormed(src), collectBound
    PROVE  RootsInv'
  <1> DEFINE keys == UNION {Lists(i) : i \in DOMAIN ask}
             row(i) == [k \in DOMAIN Annots(i) |-> [of |-> Annots(i)[k], ord |-> Instance(i).ord]]
             shown == Only(Listed, Borne)
             tops == [k \in DOMAIN shown |-> [of |-> TopOf(shown[k].of), ord |-> shown[k].ord]]
             W == {k \in DOMAIN tops : tops[k].of # None /\ \A j \in 1..(k - 1) : tops[j] # tops[k]}
  <1>1. /\ step = "bind" /\ UNCHANGED given
        /\ bound'.nodes = {k.of : k \in FieldsOver} /\ bound'.keep = FieldsOver \cup Borne
        /\ bound'.roots = Picked(tops, W)
    BY DEF collectBound, FieldsOver, Borne
  <1>2. Prepared
    BY <1>1, IsReady DEF ImportInv
  <1>3. Len(ask) \in Nat /\ DOMAIN ask = 1..Len(ask)
    BY <1>2, SequenceIs DEF Prepared, IsRequest
  <1>4. ASSUME NEW i \in DOMAIN ask
        PROVE  row(i) \in Seq(keys) /\ ToSet(row(i)) = Lists(i)
    <2>1. Len(Annots(i)) \in Nat /\ DOMAIN Annots(i) = 1..Len(Annots(i))
      BY <1>2, ObjectIs DEF Prepared, Annots, Keys, Pages
    <2>2. ToSet(row(i)) = Lists(i)
      BY DEF ToSet, Lists
    <2>3. ToSet(row(i)) \subseteq keys
      BY <2>2
    <2>4. row(i) = [k \in 1..Len(Annots(i)) |-> row(i)[k]]
      BY <2>1
    <2>5. \A k \in 1..Len(Annots(i)) : row(i)[k] \in ToSet(row(i))
      BY <2>1 DEF ToSet
    <2> HIDE DEF row, keys
    <2>6. row(i) \in [1..Len(Annots(i)) -> keys]
      BY <2>3, <2>4, <2>5
    <2> QED BY <2>1, <2>2, <2>6
  <1>5. Listed \in Seq(keys) /\ ToSet(Listed) = keys
    <2> DEFINE s == [i \in 1..Len(ask) |-> row(i)]
    <2>1. Listed = FlattenSeq(s)
      BY <1>3 DEF Listed
    <2>2. s \in [1..Len(ask) -> Seq(keys)]
      <3> HIDE DEF row, keys
      <3> QED BY <1>3, <1>4
    <2>3. \A i \in 1..Len(ask) : ToSet(s[i]) = Lists(i)
      <3> HIDE DEF row, keys
      <3> QED BY <1>3, <1>4
    <2> HIDE DEF s
    <2>4. Listed \in Seq(keys) /\ ToSet(Listed) = UNION {ToSet(s[i]) : i \in 1..Len(ask)}
      <3> HIDE DEF keys
      <3> QED BY <1>3, <2>1, <2>2, FlattenIs
    <2>5. UNION {ToSet(s[i]) : i \in 1..Len(ask)} = keys
      BY <1>3, <2>3
    <2> QED BY <2>4, <2>5
  <1>6. ToSet(shown) = Borne /\ \E m \in Nat : DOMAIN shown = 1..m
    <2>1. Len(Listed) \in Nat /\ DOMAIN Listed = 1..Len(Listed)
      <3> HIDE DEF keys
      <3> QED BY <1>5, LenProperties
    <2>2. Borne \subseteq keys
      BY DEF Borne
    <2>3. ToSet(shown) = ToSet(Listed) \cap Borne /\ \E m \in Nat : DOMAIN shown = 1..m
      BY <2>1, OnlyIs
    <2> QED BY <1>5, <2>2, <2>3
  <1> HIDE DEF shown
  <1>7. PICK m \in Nat : DOMAIN shown = 1..m
    BY <1>6
  <1>8. DOMAIN tops = 1..m
    BY <1>7
  <1>9. ToSet(tops) = {[of |-> TopOf(w.of), ord |-> w.ord] : w \in Borne}
    BY <1>6 DEF ToSet
  <1> DEFINE Unwanted == {x \in ToSet(tops) : x.of = None}
  <1>10. W = {k \in DOMAIN tops : tops[k] \notin Unwanted /\ \A j \in 1..(k - 1) : tops[j] # tops[k]}
    <2>1. \A k \in DOMAIN tops : tops[k] \notin Unwanted <=> tops[k].of # None
      BY DEF ToSet
    <2> HIDE DEF tops, Unwanted
    <2> QED BY <2>1
  <1>11. ToSet(tops) \ Unwanted = TopsOver
    <2>1. ToSet(tops) \ Unwanted = {x \in ToSet(tops) : x.of # None}
      OBVIOUS
    <2> HIDE DEF tops, Unwanted
    <2> QED BY <1>9, <2>1 DEF TopsOver
  <1> HIDE DEF tops, W, Unwanted
  <1>12. /\ \A x : (\E k \in W : x = tops[k]) <=> x \in ToSet(tops) /\ x \notin Unwanted
         /\ \A k, l \in W : tops[k] = tops[l] => k = l
         /\ W \subseteq 1..m
    <2>1. W \subseteq 1..m
      BY <1>8, <1>10
    <2>2. \A k \in 1..m : k \in W <=> tops[k] \notin Unwanted /\ \A j \in 1..(k - 1) : tops[j] # tops[k]
      BY <1>8, <1>10
    <2> QED BY ONLY m \in Nat, <1>8, <2>1, <2>2, FirstsAre
  <1>13. /\ ToSet(bound'.roots) = ToSet(tops) \ Unwanted
         /\ IsInjective(bound'.roots) /\ IsSequence(bound'.roots)
    <2>0. W \subseteq 1..m /\ (\A k, l \in W : tops[k] = tops[l] => k = l) /\ m \in Nat
      BY <1>12
    <2>1. IsSequence(Picked(tops, W))
      BY ONLY <2>0, <1>8, PickedIs
    <2>2. IsInjective(Picked(tops, W))
      BY ONLY <2>0, <1>8, PickedIs
    <2>3. /\ \A x \in ToSet(Picked(tops, W)) : \E k \in W : x = tops[k]
          /\ \A k \in W : tops[k] \in ToSet(Picked(tops, W))
      BY ONLY <2>0, <1>8, PickedIs
    <2> QED BY <1>1, <1>12, <2>1, <2>2, <2>3
  <1>14. Borne' = Borne /\ FieldsOver' = FieldsOver /\ TopsOver' = TopsOver
    BY <1>1, <1>2, FormSame DEF Prepared
  <1> QED BY <1>1, <1>11, <1>13, <1>14 DEF RootsInv

-----------------------------------------------------------------------------
(* The copies of what is bound.                                             *)

\* The copy of one reference, or of none.
LEMMA OneRef ==
    ASSUME NEW ord
    PROVE  /\ \A S : Only(<<>>, S) = <<>>
           /\ CopyRefs(<<>>, ord) = <<>>
           /\ \A p : CopyRefs(<<p>>, ord) = IF Carried(p) THEN <<CopyOf(p, ord)>> ELSE <<>>
  <1>1. \A s, S : {k \in DOMAIN s : s[k] \in S} = {} => Only(s, S) = <<>>
    <2> TAKE s, S
    <2> DEFINE W == {k \in DOMAIN s : s[k] \in S}
               g(i) == s[CHOOSE k \in W : Cardinality({j \in W : j <= k}) = i]
    <2> HAVE W = {}
    <2>1. Cardinality(W) = 0
      BY FS_EmptySet
    <2>2. Picked(s, W) = [i \in 1..Cardinality(W) |-> g(i)]
      BY DEF Picked
    <2> HIDE DEF W, g
    <2>3. Picked(s, W) = <<>>
      BY <2>1, <2>2
    <2> QED BY <2>3 DEF Only, W
  <1>2. \A p, S : p \in S => Only(<<p>>, S) = <<p>>
    <2> TAKE p, S
    <2> HAVE p \in S
    <2>1. {k \in DOMAIN <<p>> : <<p>>[k] \in S} = {1}
      OBVIOUS
    <2>2. Cardinality({1}) = 1 /\ {j \in {1} : j <= 1} = {1}
      BY FS_Singleton
    <2>3. (CHOOSE k \in {1} : Cardinality({j \in {1} : j <= k}) = 1) = 1
      BY <2>2
    <2> DEFINE g(i) == <<p>>[CHOOSE k \in {1} : Cardinality({j \in {1} : j <= k}) = i]
    <2>4. Picked(<<p>>, {1}) = [i \in 1..1 |-> g(i)]
      BY <2>2 DEF Picked
    <2>5. Picked(<<p>>, {1}) = [i \in 1..1 |-> p]
      <3>1. g(1) = <<p>>[1]
        BY <2>3, Zenon
      <3> HIDE DEF g
      <3> QED BY <2>4, <3>1
    <2>6. [i \in 1..1 |-> p] = <<p>>
      OBVIOUS
    <2> QED BY <2>1, <2>5, <2>6 DEF Only
  <1>3. (\A S : Only(<<>>, S) = <<>>) /\ CopyRefs(<<>>, ord) = <<>>
    <2> DEFINE S == {n \in ToSet(<<>>) : Carried(n)}
    <2>1. \A Q : {k \in DOMAIN <<>> : <<>>[k] \in Q} = {}
      OBVIOUS
    <2> HIDE DEF S
    <2>2. \A Q : Only(<<>>, Q) = <<>>
      BY <1>1, <2>1
    <2>3. CopyRefs(<<>>, ord) = [k \in DOMAIN Only(<<>>, S) |-> CopyOf(Only(<<>>, S)[k], ord)]
      BY DEF CopyRefs, S
    <2>4. CopyRefs(<<>>, ord) = <<>>
      BY <2>2, <2>3
    <2> QED BY <2>2, <2>4
  <1>4. ASSUME NEW p
        PROVE  CopyRefs(<<p>>, ord) = IF Carried(p) THEN <<CopyOf(p, ord)>> ELSE <<>>
    <2> DEFINE S == {n \in ToSet(<<p>>) : Carried(n)}
    <2>1. p \in S <=> Carried(p)
      BY DEF ToSet
    <2>2. {k \in DOMAIN <<p>> : <<p>>[k] \in S} = IF p \in S THEN {1} ELSE {}
      OBVIOUS
    <2> HIDE DEF S
    <2>3. Only(<<p>>, S) = IF Carried(p) THEN <<p>> ELSE <<>>
      <3>1. CASE Carried(p)
        BY <1>2, <2>1, <3>1
      <3>2. CASE ~Carried(p)
        BY <1>1, <2>1, <2>2, <3>2
      <3> QED BY <3>1, <3>2
    <2>4. CopyRefs(<<p>>, ord) = [k \in DOMAIN Only(<<p>>, S) |-> CopyOf(Only(<<p>>, S)[k], ord)]
      BY DEF CopyRefs, S
    <2>5. CASE Carried(p)
      BY <2>3, <2>4, <2>5
    <2>6. CASE ~Carried(p)
      BY <2>3, <2>4, <2>6
    <2> QED BY <2>5, <2>6
  <1> QED BY <1>3, <1>4

\* A field or a widget never drops out.
LEMMA PartIs ==
    ASSUME IsDocument(src), NEW n \in Nodes, IsPart(n)
    PROVE  Carried(n) /\ n \notin Pages
  <1>1. src.object[n].type \notin {"page", "GoTo", "Thread", "Link"}
    BY DEF IsPart
  <1>2. ~dropsOut[n]
    BY <1>1, DropsOutIs
  <1> QED BY <1>1, <1>2 DEF Carried, Pages

\* One level up, of any copy with a value.
LEMMA UpIs ==
    ASSUME IsFormed(src), IsDocument(src), NEW c \in DOMAIN copies, Filled(c)
    PROVE  LET up == copies[c].ref["Parent"]
           IN  /\ up = <<>> \/ \E p \in Parent(c.of) : Carried(p) /\ up = <<CopyOf(p, c.ord)>> /\ CopyOf(p, c.ord) \in DOMAIN copies
               /\ \A p \in Parent(c.of) : Carried(p) => up = <<CopyOf(p, c.ord)>>
  <1> DEFINE up == copies[c].ref["Parent"]
             over == src.object[c.of].ref["Parent"]
  <1>1. /\ c.of \in Nodes /\ copies[c].ref = CopyDict(c.of, c.ord).ref
        /\ RefsOf(CopyDict(c.of, c.ord)) \subseteq DOMAIN copies
    BY DEF Filled
  <1>2. up = CopyRefs(over, c.ord)
    BY <1>1 DEF CopyDict, Keys
  <1>3. ToSet(up) \subseteq DOMAIN copies
    BY <1>1 DEF RefsOf, Keys
  <1>4. \/ Parent(c.of) = {} /\ over = <<>>
        \/ \E p \in Nodes : Parent(c.of) = {p} /\ over = <<p>>
    BY <1>1, FormedIs
  <1> HIDE DEF up, over
  <1>5. CASE Parent(c.of) = {} /\ over = <<>>
    BY <1>2, <1>5, OneRef DEF up
  <1>6. ASSUME NEW p \in Nodes, Parent(c.of) = {p}, over = <<p>>
        PROVE  /\ up = <<>> \/ (Carried(p) /\ up = <<CopyOf(p, c.ord)>> /\ CopyOf(p, c.ord) \in DOMAIN copies)
               /\ Carried(p) => up = <<CopyOf(p, c.ord)>>
    <2>1. up = IF Carried(p) THEN <<CopyOf(p, c.ord)>> ELSE <<>>
      BY <1>2, <1>6, OneRef
    <2>2. Carried(p) => CopyOf(p, c.ord) \in ToSet(up)
      BY <2>1 DEF ToSet
    <2> QED BY <1>3, <2>1, <2>2
  <1> QED BY <1>4, <1>5, <1>6 DEF up

\* What is bound for a repetition of a page.
LEMMA BoundIs ==
    ASSUME Prepared, BoundInv, RootsInv, Copying, IsFormed(src), NEW k \in bound.keep
    PROVE  /\ k = [of |-> k.of, ord |-> k.ord] /\ k.of \in Nodes /\ IsPart(k.of)
           /\ CopyOf(k.of, k.ord) = k
           /\ \E w \in Borne : k.ord = w.ord /\ k.of \in Above(w.of) \cup {w.of}
           /\ \A p \in Parent(k.of) : [of |-> p, ord |-> k.ord] \in FieldsOver
           /\ src.object[k.of].type = "widget" => k \in Borne
  <1>1. bound.keep = FieldsOver \cup Borne /\ bound.nodes = {f.of : f \in FieldsOver}
    BY DEF RootsInv
  <1>2. IsDocument(src)
    BY DEF Prepared
  <1>3. ASSUME NEW w \in Borne
        PROVE  /\ w.of \in Nodes /\ src.object[w.of].type = "widget" /\ w = [of |-> w.of, ord |-> w.ord]
               /\ w.of \in bound.annots
    <2>1. PICK i \in DOMAIN ask : w \in Lists(i) /\ Widget(w.of)
      BY DEF Borne
    <2>2. PICK a \in ToSet(Annots(i)) : w = [of |-> a, ord |-> Instance(i).ord]
      BY <2>1 DEF Lists
    <2> QED BY <2>1, <2>2 DEF Widget, BoundInv
  <1>4. PICK w \in Borne : k.ord = w.ord /\ k = [of |-> k.of, ord |-> k.ord] /\ k.of \in Above(w.of) \cup {w.of}
                           /\ (k \in FieldsOver \/ k = w)
    BY <1>1, <1>3 DEF FieldsOver
  <1>5. Above(w.of) \subseteq Nodes /\ (\A x \in Above(w.of) \cup {w.of} : Parent(x) \subseteq Above(w.of))
    BY <1>3, AboveClosed
  <1>6. \A m \in Above(w.of) : src.object[m].type = "field"
    BY <1>2, <1>3, AboveAre DEF IsPart
  <1>7. k.of \in Nodes /\ IsPart(k.of)
    BY <1>3, <1>4, <1>5, <1>6 DEF IsPart
  <1>8. CopyOf(k.of, k.ord) = k
    <2>1. k.of \notin Pages
      BY <1>2, <1>7, PartIs
    <2>2. IsBound(k.of)
      BY <1>1, <1>3, <1>4 DEF IsBound
    <2> QED BY <1>4, <2>1, <2>2 DEF CopyOf
  <1>9. \A p \in Parent(k.of) : [of |-> p, ord |-> k.ord] \in FieldsOver
    BY <1>4, <1>5 DEF FieldsOver
  <1>10. src.object[k.of].type = "widget" => k \in Borne
    <2> HAVE src.object[k.of].type = "widget"
    <2>1. k.of \notin Above(w.of)
      BY <1>6
    <2> QED BY <1>3, <1>4, <2>1
  <1> QED BY <1>4, <1>7, <1>8, <1>9, <1>10

\* What is bound has its copy, under the copy of what it is under.
LEMMA HeldIs ==
    ASSUME ImportInv, RootsInv, IsFormed(src), Settled, NEW k \in bound.keep
    PROVE  /\ k \in DOMAIN copies /\ copies[k].type = src.object[k.of].type /\ Filled(k)
           /\ copies[k].type # "null"
           /\ \/ Parent(k.of) = {} /\ copies[k].ref["Parent"] = <<>>
              \/ \E p \in Nodes : Parent(k.of) = {p} /\ copies[k].ref["Parent"] = <<[of |-> p, ord |-> k.ord]>>
           /\ k \in Borne => k \in Shown
  <1>1. Prepared /\ BoundInv /\ Copying /\ IsDocument(src)
    BY SettledIs DEF ImportInv, Settled, Prepared
  <1>2. \A c \in DOMAIN copies : c.of \in Nodes => Filled(c) /\ copies[c].type # "null"
    BY SettledIs
  <1>3. bound.keep = FieldsOver \cup Borne
    BY <1>1 DEF RootsInv
  <1>4. ASSUME NEW w \in Borne
        PROVE  w \in Shown /\ w \in DOMAIN copies
    <2>1. PICK i \in DOMAIN ask : w \in Lists(i) /\ Widget(w.of)
      BY DEF Borne
    <2>2. PICK a \in ToSet(Annots(i)) : w = [of |-> a, ord |-> Instance(i).ord]
      BY <2>1 DEF Lists
    <2>3. Carried(a)
      BY <1>1, <2>1, <2>2, PartIs DEF Widget, IsPart
    <2>4. w \in ToSet(copies[Instance(i)].ref["Annots"])
      BY <2>2, <2>3, AnnotIs
    <2>5. w \in DOMAIN copies
      BY <2>4, AnnotIs
    <2> QED BY <2>4, <2>5, InstanceIs DEF Shown
  <1>5. ASSUME NEW x \in bound.keep, x \in DOMAIN copies
        PROVE  /\ Filled(x) /\ copies[x].type # "null"
               /\ \A p \in Parent(x.of) : /\ copies[x].ref["Parent"] = <<[of |-> p, ord |-> x.ord]>>
                                          /\ [of |-> p, ord |-> x.ord] \in DOMAIN copies
    <2>1. x.of \in Nodes /\ IsPart(x.of) /\ \A p \in Parent(x.of) : [of |-> p, ord |-> x.ord] \in FieldsOver
      BY <1>1, BoundIs
    <2>2. Filled(x) /\ copies[x].type # "null"
      BY <1>2, <1>5, <2>1
    <2>3. ASSUME NEW p \in Parent(x.of)
          PROVE  copies[x].ref["Parent"] = <<[of |-> p, ord |-> x.ord]>> /\ [of |-> p, ord |-> x.ord] \in DOMAIN copies
      <3> DEFINE q == [of |-> p, ord |-> x.ord]
      <3>1. q \in bound.keep
        BY <1>3, <2>1
      <3>2. CopyOf(p, x.ord) = q /\ p \in Nodes /\ IsPart(p)
        BY <1>1, <3>1, BoundIs
      <3>3. Carried(p)
        BY <1>1, <3>2, PartIs
      <3>4. copies[x].ref["Parent"] = <<CopyOf(p, x.ord)>>
        BY <1>1, <1>5, <2>2, <3>3, UpIs
      <3>5. CopyOf(p, x.ord) \in DOMAIN copies
        <4> DEFINE up == copies[x].ref["Parent"]
        <4>1. up = <<>> \/ \E z \in Parent(x.of) : Carried(z) /\ up = <<CopyOf(z, x.ord)>> /\ CopyOf(z, x.ord) \in DOMAIN copies
          BY <1>1, <1>5, <2>2, UpIs
        <4> QED BY <3>4, <4>1
      <3> QED BY <3>2, <3>4, <3>5
    <2> QED BY <2>2, <2>3
  <1>6. PICK w \in Borne : k.ord = w.ord /\ k.of \in Above(w.of) \cup {w.of}
    BY <1>1, BoundIs
  <1>7. w = [of |-> w.of, ord |-> w.ord] /\ w.of \in Nodes /\ k = [of |-> k.of, ord |-> k.ord]
    BY <1>1, <1>3, BoundIs
  <1>8. k \in DOMAIN copies
    <2> DEFINE S == {x \in Above(w.of) : [of |-> x, ord |-> w.ord] \in DOMAIN copies}
    <2>1. ASSUME NEW x \in S \cup {w.of}, NEW p \in Parent(x) PROVE p \in S
      <3>1. [of |-> x, ord |-> w.ord] \in DOMAIN copies /\ [of |-> x, ord |-> w.ord] \in bound.keep
        <4>1. CASE x \in S
          BY <1>3, <4>1 DEF FieldsOver
        <4>2. CASE x = w.of
          BY <1>3, <1>4, <1>7, <4>2
        <4> QED BY <4>1, <4>2
      <3>2. [of |-> p, ord |-> w.ord] \in DOMAIN copies
        BY <1>5, <3>1
      <3>3. p \in Above(w.of)
        BY <1>7, <2>1, AboveClosed
      <3> QED BY <3>2, <3>3
    <2>2. S \subseteq Nodes
      BY <1>7, AboveClosed
    <2>3. Above(w.of) \subseteq S
      <3>1. \A x \in S \cup {w.of} : Parent(x) \subseteq S
        BY <2>1
      <3> HIDE DEF S
      <3> QED BY <1>7, <2>2, <3>1, AboveLeast
    <2> QED BY <1>4, <1>6, <1>7, <2>3
  <1>9. copies[k].type = src.object[k.of].type
    BY <1>5, <1>8 DEF Filled, CopyDict
  <1>10. \/ Parent(k.of) = {} /\ src.object[k.of].ref["Parent"] = <<>>
         \/ \E p \in Nodes : Parent(k.of) = {p}
    BY <1>1, BoundIs, FormedIs
  <1>11. Parent(k.of) = {} => copies[k].ref["Parent"] = <<>>
    BY <1>1, <1>5, <1>8, UpIs
  <1> QED BY <1>4, <1>5, <1>8, <1>9, <1>10, <1>11

\* And over the copies of what it is over.
LEMMA KidsAre ==
    ASSUME ImportInv, RootsInv, IsFormed(src), Settled, NEW k \in bound.keep
    PROVE  /\ \A r \in ToSet(copies[k].ref["Kids"]) : r \in bound.keep /\ copies[r].ref["Parent"] = <<k>>
           /\ \A b \in bound.keep : copies[b].ref["Parent"] = <<k>> => b \in ToSet(copies[k].ref["Kids"])
  <1> DEFINE kids == src.object[k.of].ref["Kids"]
             S == {b.of : b \in {x \in bound.keep : x.ord = k.ord}}
             kept == Only(kids, S)
  <1>1. Prepared /\ BoundInv /\ Copying /\ IsDocument(src)
    BY SettledIs DEF ImportInv, Settled, Prepared
  <1>2. bound.keep = FieldsOver \cup Borne /\ bound.nodes = {f.of : f \in FieldsOver}
    BY <1>1 DEF RootsInv
  <1>3. k = [of |-> k.of, ord |-> k.ord] /\ k.of \in Nodes /\ IsPart(k.of)
    BY <1>1, BoundIs
  <1>4. copies[k].ref["Kids"] = IF k.of \in bound.nodes THEN CopyRefs(kept, k.ord) ELSE CopyRefs(kids, k.ord)
    <2>1. copies[k].ref = CopyDict(k.of, k.ord).ref
      BY HeldIs DEF Filled
    <2>2. CopyDict(k.of, k.ord).ref["Kids"] = IF k.of \in bound.nodes THEN KeptKids(kids, k.ord) ELSE CopyRefs(kids, k.ord)
      BY DEF CopyDict, Keys
    <2> QED BY <2>1, <2>2 DEF KeptKids
  <1>5. Len(kids) \in Nat /\ DOMAIN kids = 1..Len(kids)
    BY <1>1, <1>3, ObjectIs DEF Keys
  <1>6. ToSet(kept) = ToSet(kids) \cap S /\ \E m \in Nat : DOMAIN kept = 1..m
    <2> HIDE DEF kids, S
    <2> QED BY <1>5, OnlyIs
  <1>7. src.object[k.of].type = "field" => k.of \in bound.nodes
    <2>1. k \in Borne => src.object[k.of].type = "widget"
      BY DEF Borne, Widget
    <2> QED BY <1>2, <2>1
  <1>8. src.object[k.of].type # "field" => kids = <<>>
    BY <1>1, <1>3, FormedIs DEF IsPart
  <1> HIDE DEF kids, kept
  <1>9. ASSUME NEW r \in ToSet(copies[k].ref["Kids"])
        PROVE  r \in bound.keep /\ copies[r].ref["Parent"] = <<k>>
    <2>1. PICK x \in ToSet(kids) : Carried(x) /\ r = CopyOf(x, k.ord) /\ (src.object[k.of].type = "field" => x \in S)
      <3>1. CASE src.object[k.of].type = "field"
        <4>1. copies[k].ref["Kids"] = CopyRefs(kept, k.ord)
          BY <1>4, <1>7, <3>1
        <4>2. PICK m \in Nat : DOMAIN kept = 1..m
          BY <1>6
        <4>3. \E x \in ToSet(kept) : Carried(x) /\ r = CopyOf(x, k.ord)
          BY <1>9, <4>1, <4>2, CopiedRefs
        <4> HIDE DEF S
        <4> QED BY <1>6, <4>3
      <3>2. CASE src.object[k.of].type # "field"
        <4>1. copies[k].ref["Kids"] = <<>>
          <5>1. \A Q : Only(<<>>, Q) = <<>>
            BY OneRef
          <5> QED BY <1>4, <1>8, <3>2, <5>1, OneRef DEF kept
        <4> QED BY <1>9, <4>1 DEF ToSet
      <3> QED BY <3>1, <3>2
    <2>2. src.object[k.of].type = "field"
      BY <1>8, <2>1 DEF ToSet
    <2>3. PICK b \in bound.keep : b.ord = k.ord /\ x = b.of
      BY <2>1, <2>2
    <2>4. CopyOf(b.of, b.ord) = b /\ b.of \in Nodes
      BY <1>1, BoundIs
    <2>5. r = b
      BY <2>1, <2>3, <2>4
    <2>6. src.object[x].ref["Parent"] = <<k.of>>
      BY <1>1, <1>3, <2>1, <2>3, <2>4, FormedIs DEF kids
    <2>7. k.of \in Parent(x)
      BY <1>3, <2>6 DEF Parent, ToSet
    <2>8. copies[b].ref["Parent"] = <<[of |-> k.of, ord |-> b.ord]>>
      <3>1. \/ Parent(b.of) = {} /\ copies[b].ref["Parent"] = <<>>
            \/ \E p \in Nodes : Parent(b.of) = {p} /\ copies[b].ref["Parent"] = <<[of |-> p, ord |-> b.ord]>>
        BY HeldIs
      <3> QED BY <2>3, <2>7, <3>1
    <2> QED BY <1>3, <2>3, <2>5, <2>8
  <1>10. ASSUME NEW b \in bound.keep, copies[b].ref["Parent"] = <<k>>
         PROVE  b \in ToSet(copies[k].ref["Kids"])
    <2>1. PICK p \in Nodes : Parent(b.of) = {p} /\ <<k>> = <<[of |-> p, ord |-> b.ord]>>
      <3>1. \/ Parent(b.of) = {} /\ copies[b].ref["Parent"] = <<>>
            \/ \E p \in Nodes : Parent(b.of) = {p} /\ copies[b].ref["Parent"] = <<[of |-> p, ord |-> b.ord]>>
        BY HeldIs
      <3>2. <<>> # <<k>>
        OBVIOUS
      <3> QED BY <1>10, <3>1, <3>2
    <2>2. k = [of |-> p, ord |-> b.ord]
      BY <2>1
    <2>3. k.of = p /\ k.ord = b.ord
      BY <2>2
    <2>4. CopyOf(b.of, b.ord) = b /\ b.of \in Nodes /\ IsPart(b.of)
      BY <1>1, BoundIs
    <2>5. src.object[p].type = "field" /\ b.of \in ToSet(src.object[p].ref["Kids"])
      BY <1>1, <2>1, <2>4, FormedIs
    <2>6. b.of \in ToSet(kept)
      BY <1>6, <2>3, <2>5 DEF kids
    <2>7. PICK m \in Nat : DOMAIN kept = 1..m
      BY <1>6
    <2>8. Carried(b.of)
      BY <1>1, <2>4, PartIs
    <2>9. CopyOf(b.of, k.ord) \in ToSet(CopyRefs(kept, k.ord))
      BY <2>6, <2>7, <2>8, CopiedRefs
    <2> QED BY <1>4, <1>7, <2>3, <2>4, <2>5, <2>9
  <1> QED BY <1>9, <1>10

-----------------------------------------------------------------------------
(* Names of their own.                                                      *)

\* The name chosen is none of those taken.
LEMMA UniqueIs ==
    ASSUME NEW name, name = [text |-> name.text, suffix |-> name.suffix], IsSequence(name.suffix),
           NEW taken, IsFiniteSet(taken)
    PROVE  UniqueName(name, taken) \notin taken
  <1> DEFINE with(k) == [name EXCEPT !.suffix = Append(@, k)]
             unused(k) == with(k) \notin taken
             C == Cardinality(taken)
             n == CHOOSE k \in 2..(C + 2) : unused(k) /\ \A j \in 2..(k - 1) : ~unused(j)
  <1>1. UniqueName(name, taken) = IF name \notin taken THEN name ELSE with(n)
    BY DEF UniqueName
  <1>2. C \in Nat
    BY FS_CardinalityType
  <1>3. \A k, l \in Nat : with(k) = with(l) => k = l
    <2> TAKE k \in Nat, l \in Nat
    <2> HAVE with(k) = with(l)
    <2>1. \A j : with(j) = [text |-> name.text, suffix |-> Append(name.suffix, j)]
      <3>1. \A t, s, v : [[text |-> t, suffix |-> s] EXCEPT !.suffix = v] = [text |-> t, suffix |-> v]
        OBVIOUS
      <3>2. \A v : [name EXCEPT !.suffix = v] = [text |-> name.text, suffix |-> v]
        BY <3>1
      <3> QED BY <3>2
    <2>2. Append(name.suffix, k) = Append(name.suffix, l)
      <3>1. with(k).suffix = Append(name.suffix, k) /\ with(l).suffix = Append(name.suffix, l)
        BY <2>1
      <3> HIDE DEF with
      <3> QED BY <3>1
    <2>3. name.suffix \in Seq(ToSet(name.suffix) \cup Nat)
      BY SeqMonotonic DEF IsSequence
    <2>4. \A j \in Nat : Append(name.suffix, j)[Len(name.suffix) + 1] = j
      BY <2>3
    <2> HIDE DEF with
    <2> QED BY <2>2, <2>4
  <1> HIDE DEF with, C
  <1>4. \E k \in 2..(C + 2) : unused(k)
    <2> SUFFICES ASSUME \A k \in 2..(C + 2) : with(k) \in taken PROVE FALSE
      OBVIOUS
    <2> DEFINE f == [k \in 2..(C + 2) |-> with(k)]
    <2>1. IsFiniteSet(2..(C + 2)) /\ Cardinality(2..(C + 2)) = C + 1
      <3> DEFINE b == C + 2
      <3>1. 2 \in Int /\ b \in Int /\ ~(2 > b) /\ b - 2 + 1 = C + 1
        BY <1>2
      <3> HIDE DEF b, f, unused
      <3>2. IsFiniteSet(2..b) /\ Cardinality(2..b) = IF 2 > b THEN 0 ELSE b - 2 + 1
        BY <3>1, FS_Interval
      <3>3. IsFiniteSet(2..b) /\ Cardinality(2..b) = C + 1
        BY <3>1, <3>2
      <3> QED BY <3>3 DEF b
    <2>2. f \in [2..(C + 2) -> taken]
      OBVIOUS
    <2>3. C < C + 1
      BY <1>2
    <2>4. \E k, l \in 2..(C + 2) : k # l /\ f[k] = f[l]
      <3> HIDE DEF f
      <3> QED BY <2>1, <2>2, <2>3, FS_PigeonHole DEF C
    <2>5. PICK k \in 2..(C + 2), l \in 2..(C + 2) : k # l /\ with(k) = with(l)
      BY <2>4
    <2> QED BY <1>2, <1>3, <2>5
  <1>5. \E k \in 2..(C + 2) : unused(k) /\ \A j \in 2..(k - 1) : ~unused(j)
    <2> DEFINE S == {k \in 2..(C + 2) : unused(k)}
    <2>1. S \subseteq Nat /\ S # {}
      BY <1>4
    <2>2. PICK k \in S : \A j \in S : k <= j
      <3> HIDE DEF S
      <3> QED BY <2>1, LeastIs
    <2>3. \A j \in 2..(k - 1) : j \in 2..(C + 2) /\ ~(k <= j)
      BY <1>2, <2>1, <2>2
    <2> QED BY <2>2, <2>3
  <1>6. unused(n)
    <2> HIDE DEF unused
    <2> QED BY <1>5
  <1> QED BY <1>1, <1>6

\* The name of the k-th to join, where those before it have theirs.
NameOf(k, others) ==
    LET name == copies[Joining[k]].name
    IN  IF name = None THEN None
        ELSE UniqueName(name, ToSet(dst.names) \cup ({others[j] : j \in 1..(k - 1)} \ {None}))

\* Those who join do so under names of their own.
LEMMA RenamedIs ==
    ASSUME NEW n \in Nat, DOMAIN Joining = 1..n
    PROVE  DOMAIN Renamed = 1..n /\ \A k \in 1..n : Renamed[k] = NameOf(k, Renamed)
  <1> DEFINE F(f) == [k \in 1..n |-> NameOf(k, f)]
             upto(k) == \E f : f = [i \in 1..k |-> NameOf(i, f)]
             S == {k \in 1..n : upto(k)}
  <1>1. Renamed = CHOOSE f : f = [k \in DOMAIN Joining |-> NameOf(k, f)]
    BY Zenon DEF Renamed, NameOf
  <1>2. ASSUME NEW f, NEW g, NEW k \in Nat, NEW i \in 1..(k + 1), \A j \in 1..k : f[j] = g[j]
        PROVE  NameOf(i, f) = NameOf(i, g)
    <2>1. \A j \in 1..(i - 1) : f[j] = g[j]
      BY <1>2
    <2>2. {f[j] : j \in 1..(i - 1)} = {g[j] : j \in 1..(i - 1)}
      BY <2>1
    <2> QED BY <2>2, Zenon DEF NameOf
  <1>3. ASSUME NEW k \in Nat, upto(k)
        PROVE  upto(k + 1)
    <2>1. PICK f : f = [i \in 1..k |-> NameOf(i, f)]
      BY <1>3
    <2> DEFINE g == [i \in 1..(k + 1) |-> IF i = k + 1 THEN NameOf(k + 1, f) ELSE f[i]]
    <2>2. \A j \in 1..k : g[j] = f[j] /\ f[j] = NameOf(j, f)
      <3>1. \A j \in 1..k : j \in 1..(k + 1) /\ j # k + 1
        OBVIOUS
      <3>2. \A j \in 1..k : f[j] = NameOf(j, f)
        BY <2>1
      <3> QED BY <3>1, <3>2
    <2>3. g[k + 1] = NameOf(k + 1, f)
      OBVIOUS
    <2>4. \A i \in 1..(k + 1) : NameOf(i, g) = NameOf(i, f)
      <3> HIDE DEF g
      <3> QED BY <1>2, <2>2
    <2>5. \A i \in 1..(k + 1) : i = k + 1 \/ i \in 1..k
      OBVIOUS
    <2>6. g = [i \in 1..(k + 1) |-> g[i]]
      OBVIOUS
    <2> HIDE DEF g
    <2>7. \A i \in 1..(k + 1) : g[i] = NameOf(i, g)
      BY <2>2, <2>3, <2>4, <2>5
    <2> QED BY <2>6, <2>7
  <1>4. upto(0)
    <2> DEFINE f == [i \in 1..0 |-> 0]
    <2>1. f = [i \in 1..0 |-> NameOf(i, f)]
      OBVIOUS
    <2> QED BY <2>1
  <1> HIDE DEF upto
  <1>5. upto(n)
    <2>1. n >= 1 => 1 \in S
      <3>1. upto(0 + 1)
        BY <1>3, <1>4
      <3> QED BY <3>1
    <2>2. \A k \in 1..(n - 1) : k \in S => k + 1 \in S
      BY <1>3
    <2> HIDE DEF S
    <2>3. 1..n \subseteq S
      BY <2>1, <2>2, Counting
    <2>4. n = 0 \/ n \in S
      BY <2>3
    <2> QED BY <1>4, <2>4 DEF S
  <1>6. \E f : f = F(f)
    BY <1>5 DEF upto
  <1>7. Renamed = F(Renamed)
    <2> HIDE DEF F
    <2>1. \A f : [k \in DOMAIN Joining |-> NameOf(k, f)] = F(f)
      BY DEF F
    <2>2. Renamed = CHOOSE f : f = F(f)
      BY <1>1, <2>1, Zenon DEF F
    <2> QED BY <1>6, <2>2, Zenon
  <1> HIDE DEF S
  <1> QED BY <1>7

-----------------------------------------------------------------------------
(* Every step keeps what is true of the forms half-way.                     *)

\* Every root is bound, and so has its copy.
LEMMA RootsKept ==
    ASSUME Prepared, RootsInv, Copying, IsFormed(src)
    PROVE  TopsOver \subseteq bound.keep
  <1> SUFFICES ASSUME NEW w \in Borne, TopOf(w.of) # None
               PROVE  [of |-> TopOf(w.of), ord |-> w.ord] \in bound.keep
    BY DEF TopsOver
  <1>1. bound.keep = FieldsOver \cup Borne
    BY DEF RootsInv
  <1>2. w.of \in Nodes /\ w = [of |-> w.of, ord |-> w.ord]
    <2>1. PICK i \in DOMAIN ask : w \in Lists(i) /\ Widget(w.of)
      BY DEF Borne
    <2>2. PICK a \in ToSet(Annots(i)) : w = [of |-> a, ord |-> Instance(i).ord]
      BY <2>1 DEF Lists
    <2> QED BY <2>1, <2>2 DEF Widget
  <1>3. CASE Above(w.of) # {}
    <2>1. TopOf(w.of) \in Above(w.of)
      BY <1>2, <1>3, TopIs DEF Prepared
    <2>2. [of |-> TopOf(w.of), ord |-> w.ord] \in FieldsOver
      <3>1. \A f \in Above(w.of) : [of |-> f, ord |-> w.ord] \in FieldsOver
        BY DEF FieldsOver
      <3> QED BY <2>1, <3>1
    <2> QED BY <1>1, <2>2
  <1>4. CASE Above(w.of) = {}
    <2>1. TopOf(w.of) = w.of
      BY <1>4 DEF TopOf
    <2> QED BY <1>1, <1>2, <2>1
  <1> QED BY <1>3, <1>4

\* Joining the target's form: every root, each under a name of its own.
LEMMA JoinForms ==
    ASSUME ImportInv, TreeInv, MergeForm
    PROVE  FormInv'
  <1> DEFINE W == {k \in DOMAIN bound.roots : bound.roots[k] \in DOMAIN copies}
             m == Cardinality(W)
             name(k) == copies[Joining[k]].name
             taken(k) == ToSet(dst.names) \cup ({Renamed[j] : j \in 1..(k - 1)} \ {None})
  <1>1. /\ step = "form" /\ step' = "catalog" /\ form' = Joining
        /\ UNCHANGED <<given, bound, pending>>
        /\ copies' = [c \in DOMAIN copies |->
                        IF c \in ToSet(Joining)
                        THEN [copies[c] EXCEPT !.name = Renamed[CHOOSE k \in DOMAIN Joining : Joining[k] = c]]
                        ELSE copies[c]]
    BY DEF MergeForm
  <1>2. Copying /\ Settled /\ Prepared /\ pending = <<>>
    <2>1. Copying /\ pending = <<>> /\ \A c : ~ToCome(c)
      BY <1>1 DEF Copying, ToCome, ImportInv, CopyInv
    <2> QED BY <2>1, SettledIs DEF Settled
  <1>3. /\ IsFormed(src) /\ RootsInv /\ ToSet(bound.roots) = TopsOver
        /\ IsInjective(bound.roots) /\ IsSequence(bound.roots)
    BY <1>2 DEF TreeInv, RootsInv
  <1>4. TopsOver \subseteq bound.keep
    BY <1>2, <1>3, RootsKept
  <1>5. \A c \in TopsOver : c \in DOMAIN copies /\ Filled(c) /\ copies[c].type # "null" /\ c.of \in Nodes
    <2>1. \A c \in TopsOver : c \in DOMAIN copies /\ Filled(c) /\ copies[c].type # "null"
      BY <1>2, <1>3, <1>4, HeldIs
    <2> QED BY <2>1 DEF Filled
  <1>6. Len(bound.roots) \in Nat /\ DOMAIN bound.roots = 1..Len(bound.roots)
    BY <1>3, SequenceIs
  <1>7. /\ m \in Nat /\ DOMAIN Joining = 1..m /\ IsInjective(Joining)
        /\ ToSet(Joining) = TopsOver
    <2>1. W \subseteq 1..Len(bound.roots)
      BY <1>6
    <2>2. Joining = Picked(bound.roots, W)
      BY DEF Joining, Only
    <2>3. \A k, l \in W : bound.roots[k] = bound.roots[l] => k = l
      BY <1>3 DEF IsInjective
    <2>4. ToSet(Joining) = ToSet(bound.roots) \cap DOMAIN copies
      BY <1>6, OnlyIs DEF Joining
    <2> HIDE DEF W
    <2>5. m \in Nat /\ DOMAIN Picked(bound.roots, W) = 1..m
      BY <1>6, <2>1, PickedIs
    <2>6. IsInjective(Picked(bound.roots, W))
      BY <1>6, <2>1, <2>3, PickedIs
    <2> QED BY <1>3, <1>5, <2>2, <2>4, <2>5, <2>6
  <1> HIDE DEF W, m
  <1>8. DOMAIN Renamed = 1..m /\ \A k \in 1..m : Renamed[k] = IF name(k) = None THEN None ELSE UniqueName(name(k), taken(k))
    BY <1>7, RenamedIs DEF NameOf
  <1>9. \A k \in 1..m : Joining[k] \in TopsOver
    BY <1>7 DEF ToSet
  <1>10. ASSUME NEW k \in 1..m, Renamed[k] # None
         PROVE  Renamed[k] \notin taken(k)
    <2>1. Renamed[k] = UniqueName(name(k), taken(k)) /\ name(k) # None
      BY <1>8, <1>10
    <2> DEFINE c == Joining[k]
    <2>2. c \in TopsOver /\ c \in DOMAIN copies /\ copies[c].type # "null" /\ c.of \in Nodes
      BY <1>5, <1>9
    <2>3. name(k) = src.object[c.of].name
      BY <1>1, <2>2 DEF TreeInv, NamesInv
    <2>4. name(k) = [text |-> name(k).text, suffix |-> name(k).suffix] /\ IsSequence(name(k).suffix)
      <3>1. LET n == src.object[c.of].name IN n # None => n = [text |-> n.text, suffix |-> n.suffix] /\ IsSequence(n.suffix)
        BY <1>3, <2>2 DEF IsFormed, Nodes
      <3> HIDE DEF name, c
      <3> QED BY <2>1, <2>3, <3>1
    <2>5. IsFiniteSet(taken(k))
      <3>1. IsFiniteSet(ToSet(dst.names))
        <4>1. dst.names = [i \in 1..Len(dst.names) |-> dst.names[i]] /\ Len(dst.names) \in Nat /\ DOMAIN dst.names = 1..Len(dst.names)
          BY DEF ImportInv, GivenInv, IsTarget, IsSequence
        <4> QED BY <4>1, FiniteElements
      <3> DEFINE s == [j \in 1..(k - 1) |-> Renamed[j]]
      <3>2. k - 1 \in Nat /\ DOMAIN s = 1..(k - 1) /\ s = [j \in 1..(k - 1) |-> s[j]]
        BY <1>7
      <3>3. ToSet(s) = {Renamed[j] : j \in 1..(k - 1)}
        BY DEF ToSet
      <3>4. IsFiniteSet(ToSet(s))
        <4> HIDE DEF s
        <4> QED BY <3>2, FiniteElements
      <3>5. IsFiniteSet({Renamed[j] : j \in 1..(k - 1)} \ {None})
        <4>1. {Renamed[j] : j \in 1..(k - 1)} \ {None} \in SUBSET {Renamed[j] : j \in 1..(k - 1)}
          OBVIOUS
        <4> QED BY <3>3, <3>4, <4>1, FS_Subset
      <3> QED BY <3>1, <3>5, FS_Union
    <2> HIDE DEF name, taken
    <2> QED BY <2>1, <2>4, <2>5, UniqueIs
  <1>11. \A k \in 1..m : copies'[Joining[k]].name = Renamed[k]
    <2> TAKE k \in 1..m
    <2>1. Joining[k] \in DOMAIN copies /\ "name" \in DOMAIN copies[Joining[k]] /\ Joining[k] \in ToSet(Joining)
      BY <1>5, <1>7, <1>9 DEF Filled
    <2>2. (CHOOSE l \in DOMAIN Joining : Joining[l] = Joining[k]) = k
      BY <1>7 DEF IsInjective
    <2>3. copies'[Joining[k]] = [copies[Joining[k]] EXCEPT !.name = Renamed[CHOOSE l \in DOMAIN Joining : Joining[l] = Joining[k]]]
      BY <1>1, <2>1
    <2> QED BY <2>1, <2>2, <2>3
  <1>12. NoNameTwice'
    <2>1. \A k \in 1..m : Renamed[k] # None => Renamed[k] \notin ToSet(dst.names)
      BY <1>10
    <2>2. ASSUME NEW i \in 1..m, NEW j \in 1..m, i < j, Renamed[i] # None, Renamed[j] # None
          PROVE  Renamed[i] # Renamed[j]
      <3>1. i \in 1..(j - 1)
        BY <1>7, <2>2
      <3>2. Renamed[i] \in taken(j)
        BY <2>2, <3>1
      <3> QED BY <1>10, <2>2, <3>2
    <2>3. \A k \in 1..m : \A j \in (1..m) \ {k} : j < k \/ k < j
      BY <1>7
    <2>4. \A k \in 1..m : \A j \in (1..m) \ {k} : Renamed[k] # None => Renamed[j] # Renamed[k]
      BY <2>2, <2>3
    <2>5. form' = Joining /\ DOMAIN form' = 1..m /\ ToSet(dst.names)' = ToSet(dst.names)
      BY <1>1, <1>7 DEF given
    <2>6. \A k \in DOMAIN form' : copies'[form'[k]].name = Renamed[k]
      BY <1>11, <2>5
    <2> HIDE DEF taken, name
    <2> QED BY <2>1, <2>4, <2>5, <2>6 DEF NoNameTwice
  <1>13. ToSet(form)' = ToSet(bound.roots)' /\ ToSet(form)' \subseteq DOMAIN copies' \ ToSet(pending')
    <2>1. ToSet(form)' = TopsOver /\ ToSet(bound.roots)' = TopsOver /\ DOMAIN copies' = DOMAIN copies /\ ToSet(pending') = {}
      BY <1>1, <1>2, <1>3, <1>7 DEF ToSet
    <2> QED BY <1>5, <2>1
  <1> QED BY <1>12, <1>13 DEF FormInv

\* What is bound stays, and with it what is true of it.
LEMMA FormStays ==
    ASSUME ImportInv, TreeInv, UNCHANGED <<given, bound>>, Copying' => Copying
    PROVE  IsFormed(src)' /\ RootsInv'
  <1>1. GivenInv /\ IsDocument(src) /\ IsFormed(src)
    BY DEF ImportInv, GivenInv, TreeInv
  <1>2. /\ Borne' = Borne /\ FieldsOver' = FieldsOver /\ TopsOver' = TopsOver
        /\ IsFormed(src)' = IsFormed(src) /\ bound' = bound
    BY <1>1, FormSame
  <1> QED BY <1>1, <1>2 DEF TreeInv, RootsInv

\* Writing a value: its name is the source's, and no field that has joined the
\* target's form is written.
LEMMA FillTree ==
    ASSUME ImportInv, TreeInv, step \in {"copy", "finish"}, UNCHANGED <<given, bound, step, form>>,
           NEW c \in DOMAIN copies, c.of \in Nodes,
           NEW rest, rest \in Seq({d \in DOMAIN copies \ Instances : d.of \in Nodes}),
           ToSet(rest) \subseteq ToSet(pending), step = "finish" => c \in ToSet(pending),
           FillIn(c, rest)
    PROVE  TreeInv'
  <1> DEFINE rests == {d \in DOMAIN copies \ Instances : d.of \in Nodes}
             m == Len(rest)
  <1>1. Copying /\ Prepared /\ Sound
    BY IsReady, SoundIs DEF ImportInv, Copying
  <1>2. m \in Nat /\ rest \in [1..m -> rests]
    BY LenProperties
  <1>3. rest \in [1..m -> ToSet(rest)]
    BY <1>2 DEF ToSet
  <1> HIDE DEF m, rests
  <1>4. /\ DOMAIN copies \subseteq DOMAIN copies'
        /\ copies'[c].name = src.object[c.of].name
        /\ \A d \in DOMAIN copies' \ DOMAIN copies : copies'[d] = Empty
        /\ \A d \in DOMAIN copies \ {c} : copies'[d] = copies[d]
        /\ \A d \in ToSet(pending') : d \in ToSet(rest) \/ d \in DOMAIN copies' \ DOMAIN copies
    BY <1>1, <1>2, <1>3, FillStep
  <1>5. src' = src /\ dst' = dst /\ step' = step /\ form' = form /\ bound' = bound
    BY DEF given
  <1>6. IsFormed(src)' /\ RootsInv'
    BY <1>1, FormStays
  <1>7. NamesInv'
    <2> SUFFICES ASSUME step = "copy", NEW d \in DOMAIN copies', copies'[d].type # "null"
                 PROVE  copies'[d].name = src.object[d.of].name
      BY <1>5 DEF NamesInv
    <2>1. d \in DOMAIN copies
      BY <1>4 DEF Empty
    <2> QED BY <1>4, <2>1 DEF TreeInv, NamesInv
  <1>8. FormInv'
    <2> SUFFICES ASSUME step = "finish"
                 PROVE  FormInv'
      BY <1>5 DEF FormInv
    <2>1. /\ ToSet(form) = ToSet(bound.roots) /\ ToSet(form) \subseteq DOMAIN copies \ ToSet(pending) /\ NoNameTwice
          /\ c \notin ToSet(form)
      BY DEF TreeInv, FormInv
    <2>2. \A k \in DOMAIN form : copies'[form[k]] = copies[form[k]]
      BY <1>4, <2>1 DEF ToSet
    <2>3. NoNameTwice'
      BY <1>5, <2>1, <2>2 DEF NoNameTwice
    <2>4. ToSet(form') \subseteq DOMAIN copies' \ ToSet(pending')
      BY <1>4, <1>5, <2>1
    <2> QED BY <1>5, <2>1, <2>3, <2>4 DEF FormInv
  <1> QED BY <1>6, <1>7, <1>8 DEF TreeInv

\* Before the first step nothing is bound and no form has been joined.
LEMMA TreeInit == ASSUME ImportInit PROVE TreeInv
  BY FormAssumption DEF ImportInit, TreeInv, RootsInv, NamesInv, FormInv, Copying

\* Every step of an import keeps what is true of the forms half-way.
LEMMA TreeStep ==
    ASSUME ImportInv, TreeInv, [ImportNext]_importVars
    PROVE  TreeInv'
  <1>1. ASSUME Begin PROVE TreeInv'
    <2>1. UNCHANGED <<given, bound>> /\ step' \in {"refused", "bind"}
      BY <1>1 DEF Begin
    <2>2. Copying' => Copying
      BY <2>1 DEF Copying
    <2>3. IsFormed(src)' /\ RootsInv'
      BY <2>1, <2>2, FormStays
    <2> QED BY <2>1, <2>3 DEF TreeInv, NamesInv, FormInv
  <1>2. ASSUME collectBound PROVE TreeInv'
    <2>1. UNCHANGED <<given, copies>> /\ step = "bind" /\ step' = "copy"
      BY <1>2 DEF collectBound
    <2>2. RootsInv'
      BY <1>2, RootsBound DEF TreeInv
    <2>3. IsFormed(src)'
      BY <2>1, FormSame DEF TreeInv, ImportInv, GivenInv
    <2>4. \A c \in DOMAIN copies : copies[c].type = "null"
      BY <2>1 DEF ImportInv, CopyInv, Empty
    <2>5. NamesInv'
      BY <2>1, <2>4 DEF NamesInv
    <2> QED BY <2>1, <2>2, <2>3, <2>5 DEF TreeInv, FormInv
  <1>3. ASSUME CopyPage PROVE TreeInv'
    <2>1. /\ step = "copy" /\ pending = <<>> /\ at <= Len(ask) /\ FillIn(Instance(at), <<>>)
          /\ UNCHANGED <<given, bound, step, form>>
      BY <1>3 DEF CopyPage
    <2>2. Copying /\ Prepared
      BY <2>1, IsReady DEF Copying, ImportInv
    <2>3. at \in DOMAIN ask
      BY <2>1, <2>2, SequenceIs DEF Prepared, IsRequest, ImportInv, CopyInv
    <2>4. Instance(at) \in DOMAIN copies /\ Instance(at).of \in Nodes
      BY <2>2, <2>3, InstanceIs DEF ImportInv, CopyInv, Prepared, Pages
    <2>5. <<>> \in Seq({d \in DOMAIN copies \ Instances : d.of \in Nodes}) /\ ToSet(<<>>) \subseteq ToSet(pending)
      BY DEF ToSet
    <2> QED BY <2>1, <2>4, <2>5, FillTree
  <1>4. ASSUME drain PROVE TreeInv'
    <2> DEFINE rests == {d \in DOMAIN copies \ Instances : d.of \in Nodes}
               c == Head(pending)
               rest == Tail(pending)
    <2>1. pending # <<>> /\ FillIn(c, rest) /\ UNCHANGED <<given, bound, step, form>>
      BY <1>4 DEF drain
    <2>2. step \in {"copy", "finish"}
      BY <2>1 DEF ImportInv, GivenInv, CopyInv
    <2>3. pending \in Seq(rests)
      BY <2>2 DEF ImportInv, CopyInv, Copying
    <2>4. c \in rests /\ rest \in Seq(rests) /\ ToSet(rest) \subseteq ToSet(pending) /\ c \in ToSet(pending)
      <3> HIDE DEF rests
      <3>1. /\ c \in rests /\ rest \in Seq(rests) /\ Len(rest) = Len(pending) - 1
            /\ \A i \in 1..Len(rest) : rest[i] = pending[i + 1]
        BY <2>1, <2>3, HeadTailProperties
      <3>2. /\ Len(pending) \in Nat /\ DOMAIN pending = 1..Len(pending) /\ DOMAIN rest = 1..Len(rest)
        BY <2>3, <3>1, LenProperties
      <3>3. c = pending[1] /\ 1 \in DOMAIN pending
        BY <2>1, <2>3, <3>1
      <3> HIDE DEF c, rest
      <3>4. \A i \in 1..Len(rest) : i + 1 \in DOMAIN pending
        BY <3>1, <3>2
      <3> QED BY <3>1, <3>2, <3>3, <3>4 DEF ToSet
    <2>5. c \in DOMAIN copies /\ c.of \in Nodes
      BY <2>4
    <2> HIDE DEF c, rest
    <2> QED BY <2>1, <2>2, <2>4, <2>5, FillTree
  <1>5. ASSUME Hang PROVE TreeInv'
    <2>1. /\ UNCHANGED <<given, bound>> /\ step = "copy" /\ step' = "form" /\ DOMAIN copies' = DOMAIN copies
          /\ \A c \in DOMAIN copies : copies'[c] = copies[c] \/ copies'[c] = [copies[c] EXCEPT !.turn = 0]
      BY <1>5 DEF Hang
    <2>2. IsFormed(src)' /\ RootsInv'
      BY <2>1, FormStays DEF Copying
    <2>3. ASSUME NEW c \in DOMAIN copies
          PROVE  /\ copies'[c].type # "null" => copies[c].type # "null" /\ copies'[c].name = copies[c].name
      <3> DEFINE v == copies[c]
      <3>1. \/ "type" \in DOMAIN v /\ v.type = "null"
            \/ DOMAIN v = {"type", "name", "turn", "dest", "p", "ref"}
        BY <2>1 DEF ImportInv, CopyInv, Copying, Filled
      <3>2. copies'[c] = v \/ copies'[c] = [v EXCEPT !.turn = 0]
        BY <2>1
      <3> HIDE DEF v
      <3>3. copies'[c].type # "null" => v.type # "null" /\ copies'[c].name = v.name
        BY <3>1, <3>2
      <3> QED BY <3>3 DEF v
    <2>4. NamesInv'
      BY <2>1, <2>3 DEF TreeInv, NamesInv, given
    <2> QED BY <2>1, <2>2, <2>4 DEF TreeInv, FormInv
  <1>6. ASSUME MergeForm PROVE TreeInv'
    <2>1. UNCHANGED <<given, bound>> /\ step = "form" /\ step' = "catalog"
      BY <1>6 DEF MergeForm
    <2>2. IsFormed(src)' /\ RootsInv'
      BY <2>1, FormStays DEF Copying
    <2> QED BY <1>6, <2>1, <2>2, JoinForms DEF TreeInv, NamesInv
  <1>7. ASSUME CarryLayers PROVE TreeInv'
    <2> DEFINE refs == {CopyOf(l, 0) : l \in src.oc.groups}
               new == {c \in refs \ DOMAIN copies : c.of \in Nodes}
    <2>1. /\ UNCHANGED <<given, bound, form>> /\ step = "catalog" /\ step' = "finish"
          /\ \/ UNCHANGED <<copies, pending>>
             \/ copies' = Numbered(refs) /\ pending' = ToFill(refs)
      BY <1>7 DEF CarryLayers
    <2>2. IsFormed(src)' /\ RootsInv'
      BY <2>1, FormStays DEF Copying
    <2>3. ToSet(form) = ToSet(bound.roots) /\ ToSet(form) \subseteq DOMAIN copies \ ToSet(pending) /\ NoNameTwice
      BY <2>1 DEF TreeInv, FormInv
    <2>4. /\ \A c \in DOMAIN copies : c \in DOMAIN copies' /\ copies'[c] = copies[c]
          /\ \A c \in ToSet(pending') : c \in ToSet(pending) \/ c \notin DOMAIN copies
      <3>1. IsFiniteSet(new)
        <4> DEFINE f == [l \in src.oc.groups |-> CopyOf(l, 0)]
        <4>1. f \in Surjection(src.oc.groups, refs)
          BY DEF Surjection
        <4>2. IsFiniteSet(src.oc.groups)
          BY DEF ImportInv, GivenInv, IsDocument
        <4>3. IsFiniteSet(refs)
          BY <4>1, <4>2, FS_Surjection
        <4>4. new \in SUBSET refs
          OBVIOUS
        <4> HIDE DEF new, refs
        <4> QED BY <4>3, <4>4, FS_Subset
      <3>2. ToSet(SetToSeq(new)) = new
        <4> HIDE DEF new
        <4> QED BY <3>1, SetToSeqIs
      <3> HIDE DEF refs
      <3> QED BY <2>1, <3>2 DEF Numbered, ToFill
    <2>5. \A k \in DOMAIN form : form[k] \in ToSet(form)
      BY DEF ToSet
    <2>6. NoNameTwice'
      BY <2>1, <2>3, <2>4, <2>5 DEF NoNameTwice, given
    <2>7. ToSet(form') \subseteq DOMAIN copies' \ ToSet(pending')
      BY <2>1, <2>3, <2>4
    <2> QED BY <2>1, <2>2, <2>3, <2>6, <2>7 DEF TreeInv, NamesInv, FormInv
  <1>8. ASSUME Finish \/ UNCHANGED importVars PROVE TreeInv'
    <2>1. /\ UNCHANGED <<given, bound, copies, pending, form>>
          /\ step' = step \/ (step = "finish" /\ step' = "done")
      BY <1>8 DEF Finish, importVars
    <2>2. IsFormed(src)' /\ RootsInv'
      BY <2>1, FormStays DEF Copying
    <2>3. NamesInv' /\ FormInv'
      BY <2>1 DEF TreeInv, NamesInv, FormInv, NoNameTwice, given
    <2> QED BY <2>2, <2>3 DEF TreeInv
  <1> QED BY <1>1, <1>2, <1>3, <1>4, <1>5, <1>6, <1>7, <1>8 DEF ImportNext, Returned

\* What is true of the forms half-way.
THEOREM FormsSound == ImportSpec => []TreeInv
  <1>1. ImportInit => TreeInv
    BY TreeInit
  <1>2. ImportInv /\ TreeInv /\ [ImportNext]_importVars => TreeInv'
    BY TreeStep
  <1> QED BY <1>1, <1>2, ImportSound, PTL DEF ImportSpec

-----------------------------------------------------------------------------
(* What is over a copy.                                                     *)

Highest(c) == copies[c].type = "null" \/ copies[c].ref["Parent"] = <<>>
Next1(c)   == copies[c].ref["Parent"][1]

\* The copies over one, from the next to the highest.
IsLine(c, s) ==
    /\ s \in Seq(DOMAIN copies)
    /\ IF Highest(c) THEN s = <<>> ELSE Len(s) # 0 /\ s[1] = Next1(c)
    /\ \A i \in 1..Len(s) : IF i = Len(s) THEN Highest(s[i]) ELSE ~Highest(s[i]) /\ s[i + 1] = Next1(s[i])

\* The next over a copy is a copy of what its source is under.
LEMMA NextIs ==
    ASSUME ImportInv, TreeInv, Settled, NEW c \in DOMAIN copies, ~Highest(c)
    PROVE  /\ copies[c].ref["Parent"] = <<Next1(c)>> /\ Next1(c) \in DOMAIN copies
           /\ Filled(c) /\ c.of \in Nodes /\ Next1(c).of \in Parent(c.of)
  <1>1. Filled(c) /\ IsDocument(src) /\ IsFormed(src)
    BY SettledIs DEF Highest, Prepared, TreeInv
  <1>2. copies[c].ref["Parent"] # <<>>
    BY DEF Highest
  <1>3. PICK p \in Parent(c.of) : copies[c].ref["Parent"] = <<CopyOf(p, c.ord)>> /\ CopyOf(p, c.ord) \in DOMAIN copies
    BY <1>1, <1>2, UpIs
  <1>4. Next1(c) = CopyOf(p, c.ord)
    BY <1>3 DEF Next1
  <1>5. CopyOf(p, c.ord).of = p
    BY DEF CopyOf
  <1> QED BY <1>1, <1>3, <1>4, <1>5 DEF Filled

\* In every set of copies one has none of them next over it.
LEMMA LowestCopy ==
    ASSUME ImportInv, TreeInv, Settled, NEW B \in SUBSET DOMAIN copies, B # {}
    PROVE  \E c \in B : Highest(c) \/ Next1(c) \notin B
  <1> SUFFICES ASSUME \A c \in B : ~Highest(c) /\ Next1(c) \in B PROVE FALSE
    OBVIOUS
  <1> DEFINE S == {c.of : c \in B}
  <1>1. \A c \in B : c.of \in Nodes /\ Next1(c).of \in Parent(c.of) /\ Next1(c) \in B
    BY NextIs
  <1>2. S \in SUBSET Nodes /\ S # {}
    BY <1>1
  <1>3. PICK n \in S : Parent(n) \cap S = {}
    <2> HIDE DEF S
    <2> QED BY <1>2, LowestIs DEF TreeInv
  <1>4. PICK c \in B : c.of = n
    BY <1>3
  <1> QED BY <1>1, <1>3, <1>4

\* A line goes on from the next: before it, and after it.
LEMMA LineUp ==
    ASSUME ImportInv, TreeInv, Settled, NEW c \in DOMAIN copies, ~Highest(c), NEW r, IsLine(Next1(c), r)
    PROVE  IsLine(c, <<Next1(c)>> \o r)
  <1> DEFINE p == Next1(c)
             s == <<p>> \o r
             n == Len(r)
  <1>1. p \in DOMAIN copies
    BY NextIs
  <1> HIDE DEF p
  <1>2. r \in Seq(DOMAIN copies) /\ n \in Nat
    BY DEF IsLine
  <1>3. s \in Seq(DOMAIN copies) /\ Len(s) = n + 1 /\ s[1] = p /\ \A i \in 1..n : s[i + 1] = r[i]
    BY <1>1, <1>2
  <1> HIDE DEF s
  <1>4. ASSUME NEW i \in 1..(n + 1)
        PROVE  IF i = n + 1 THEN Highest(s[i]) ELSE ~Highest(s[i]) /\ s[i + 1] = Next1(s[i])
    <2>1. CASE i = 1
      <3>1. CASE n = 0
        BY <1>3, <2>1, <3>1 DEF IsLine, p
      <3>2. CASE n # 0
        <4>1. 1 \in 1..n /\ i # n + 1
          BY <1>2, <2>1, <3>2
        <4>2. ~Highest(p) /\ r[1] = Next1(p)
          BY <1>2, <3>2 DEF IsLine, p
        <4> QED BY <1>3, <2>1, <4>1, <4>2
      <3> QED BY <3>1, <3>2
    <2>2. CASE i # 1
      <3>1. i - 1 \in 1..n /\ (i - 1) + 1 = i /\ (i = n + 1 <=> i - 1 = n) /\ s[i] = r[i - 1]
        BY <1>2, <1>3, <2>2
      <3>2. IF i - 1 = n THEN Highest(r[i - 1]) ELSE ~Highest(r[i - 1]) /\ r[i] = Next1(r[i - 1])
        BY <3>1 DEF IsLine
      <3>3. i - 1 # n => i \in 1..n
        BY <1>2, <3>1
      <3> QED BY <1>3, <3>1, <3>2, <3>3
    <2> QED BY <2>1, <2>2
  <1>5. Len(s) = n + 1 /\ n + 1 # 0
    BY <1>2, <1>3
  <1>6. \A i \in 1..Len(s) : IF i = Len(s) THEN Highest(s[i]) ELSE ~Highest(s[i]) /\ s[i + 1] = Next1(s[i])
    BY <1>4, <1>5
  <1> HIDE DEF n
  <1>7. IsLine(c, s)
    BY <1>3, <1>5, <1>6 DEF IsLine, p
  <1> QED BY <1>7 DEF s, p

\* What a copy's line begins with is next over it, and the rest is that one's line.
LEMMA LineDown ==
    ASSUME ImportInv, TreeInv, Settled, NEW c \in DOMAIN copies, ~Highest(c), NEW s, IsLine(c, s)
    PROVE  IsLine(Next1(c), Tail(s)) /\ s = <<Next1(c)>> \o Tail(s)
  <1> DEFINE p == Next1(c)
             r == Tail(s)
             n == Len(s)
  <1>1. s \in Seq(DOMAIN copies) /\ n \in Nat /\ n # 0 /\ s[1] = p
    BY DEF IsLine
  <1>2. r \in Seq(DOMAIN copies) /\ Len(r) = n - 1 /\ \A i \in 1..(n - 1) : r[i] = s[i + 1]
    BY <1>1
  <1>3. s = <<p>> \o r
    <2> HIDE DEF p
    <2> QED BY <1>1
  <1>4. \A i \in 1..n : IF i = n THEN Highest(s[i]) ELSE ~Highest(s[i]) /\ s[i + 1] = Next1(s[i])
    BY DEF IsLine
  <1>8. n = Len(s)
    OBVIOUS
  <1> HIDE DEF p, r, n
  <1>5. IF Highest(p) THEN r = <<>> ELSE Len(r) # 0 /\ r[1] = Next1(p)
    <2>1. IF 1 = n THEN Highest(p) ELSE ~Highest(p) /\ s[2] = Next1(p)
      <3>1. 1 \in 1..n /\ 1 + 1 = 2
        BY <1>1
      <3> QED BY <1>1, <1>4, <3>1
    <2>2. CASE n = 1
      BY <1>2, <2>1, <2>2
    <2>3. CASE n # 1
      <3>1. 1 \in 1..(n - 1)
        BY <1>1, <2>3
      <3> QED BY <1>1, <1>2, <2>1, <2>3, <3>1
    <2> QED BY <2>2, <2>3
  <1>6. ASSUME NEW i \in 1..(n - 1)
        PROVE  IF i = n - 1 THEN Highest(r[i]) ELSE ~Highest(r[i]) /\ r[i + 1] = Next1(r[i])
    <2>1. i + 1 \in 1..n /\ (i = n - 1 <=> i + 1 = n) /\ (i # n - 1 => i + 1 \in 1..(n - 1))
      BY <1>1
    <2>2. IF i + 1 = n THEN Highest(s[i + 1]) ELSE ~Highest(s[i + 1]) /\ s[(i + 1) + 1] = Next1(s[i + 1])
      BY <1>4, <2>1
    <2> QED BY <1>2, <2>1, <2>2
  <1>7. IsLine(p, r)
    BY <1>2, <1>5, <1>6 DEF IsLine
  <1> QED BY <1>3, <1>7 DEF p, r

\* Over is the line.
LEMMA OverIs ==
    ASSUME ImportInv, TreeInv, Settled
    PROVE  \A c \in DOMAIN copies : IsLine(c, Over[c])
  <1> DEFINE body(f, c) == IF Highest(c) THEN <<>> ELSE copies[c].ref["Parent"] \o f[copies[c].ref["Parent"][1]]
             F(f) == [c \in DOMAIN copies |-> body(f, c)]
             G == [c \in DOMAIN copies |-> CHOOSE s : IsLine(c, s)]
  <1>1. Over = CHOOSE f : f = F(f)
    BY Zenon DEF Over, Highest
  <1>2. \A c \in DOMAIN copies : Highest(c) => IsLine(c, <<>>)
    BY DEF IsLine
  <1>3. \A f : \A c \in DOMAIN copies : body(f, c) = IF Highest(c) THEN <<>> ELSE <<Next1(c)>> \o f[Next1(c)]
    <2> TAKE f
    <2> TAKE c \in DOMAIN copies
    <2>1. ~Highest(c) => copies[c].ref["Parent"] = <<Next1(c)>> /\ copies[c].ref["Parent"][1] = Next1(c)
      BY NextIs DEF Next1
    <2> QED BY <2>1
  <1> HIDE DEF body
  <1>4. \A c \in DOMAIN copies : \E s : IsLine(c, s)
    <2> DEFINE B == {c \in DOMAIN copies : ~\E s : IsLine(c, s)}
    <2> SUFFICES ASSUME B # {} PROVE FALSE
      OBVIOUS
    <2>1. B \in SUBSET DOMAIN copies
      OBVIOUS
    <2>2. PICK c \in B : Highest(c) \/ Next1(c) \notin B
      <3> HIDE DEF B
      <3> QED BY <2>1, LowestCopy
    <2>3. c \in DOMAIN copies /\ (~Highest(c) => Next1(c) \in DOMAIN copies)
      BY <2>2, NextIs
    <2> QED BY <1>2, <2>2, <2>3, LineUp
  <1>5. \A c \in DOMAIN copies : \A s, t : IsLine(c, s) /\ IsLine(c, t) => s = t
    <2> DEFINE B == {c \in DOMAIN copies : \E s, t : IsLine(c, s) /\ IsLine(c, t) /\ s # t}
    <2> SUFFICES ASSUME B # {} PROVE FALSE
      OBVIOUS
    <2>1. B \in SUBSET DOMAIN copies
      OBVIOUS
    <2>2. PICK c \in B : Highest(c) \/ Next1(c) \notin B
      <3> HIDE DEF B
      <3> QED BY <2>1, LowestCopy
    <2>3. PICK s, t : IsLine(c, s) /\ IsLine(c, t) /\ s # t
      BY <2>2
    <2>4. CASE Highest(c)
      BY <2>3, <2>4 DEF IsLine
    <2>5. CASE ~Highest(c)
      <3>1. /\ IsLine(Next1(c), Tail(s)) /\ s = <<Next1(c)>> \o Tail(s)
            /\ IsLine(Next1(c), Tail(t)) /\ t = <<Next1(c)>> \o Tail(t)
        BY <2>2, <2>3, <2>5, LineDown
      <3>2. Next1(c) \in DOMAIN copies /\ Next1(c) \notin B
        BY <2>2, <2>5, NextIs
      <3>3. Tail(s) = Tail(t)
        BY <3>1, <3>2
      <3> QED BY <2>3, <3>1, <3>3
    <2> QED BY <2>4, <2>5
  <1>6. \A c \in DOMAIN copies : IsLine(c, G[c])
    <2> TAKE c \in DOMAIN copies
    <2>1. G[c] = CHOOSE s : IsLine(c, s)
      OBVIOUS
    <2> QED BY <1>4, <2>1
  <1>7. G = F(G)
    <2>1. DOMAIN G = DOMAIN copies /\ G = [c \in DOMAIN copies |-> G[c]]
      OBVIOUS
    <2> HIDE DEF G
    <2>2. ASSUME NEW c \in DOMAIN copies PROVE G[c] = body(G, c)
      <3>1. CASE Highest(c)
        BY <1>2, <1>3, <1>5, <1>6, <3>1
      <3>2. CASE ~Highest(c)
        <4>1. Next1(c) \in DOMAIN copies
          BY <3>2, NextIs
        <4>2. IsLine(c, <<Next1(c)>> \o G[Next1(c)])
          BY <1>6, <3>2, <4>1, LineUp
        <4> QED BY <1>3, <1>5, <1>6, <3>2, <4>2
      <3> QED BY <3>1, <3>2
    <2> QED BY <2>1, <2>2
  <1>8. Over = F(Over)
    <2> HIDE DEF F, G
    <2> QED BY <1>1, <1>7, Zenon
  <1>9. \A c \in DOMAIN copies : Over[c] = IF Highest(c) THEN <<>> ELSE <<Next1(c)>> \o Over[Next1(c)]
    BY <1>3, <1>8
  <1> DEFINE B == {c \in DOMAIN copies : ~IsLine(c, Over[c])}
  <1> SUFFICES ASSUME B # {} PROVE FALSE
    OBVIOUS
  <1>10. B \in SUBSET DOMAIN copies
    OBVIOUS
  <1>11. PICK c \in B : Highest(c) \/ Next1(c) \notin B
    <2> HIDE DEF B
    <2> QED BY <1>10, LowestCopy
  <1>12. c \in DOMAIN copies /\ ~IsLine(c, Over[c]) /\ (~Highest(c) => Next1(c) \in DOMAIN copies /\ IsLine(Next1(c), Over[Next1(c)]))
    BY <1>11, NextIs
  <1> HIDE DEF B
  <1> QED BY <1>2, <1>9, <1>12, LineUp

\* The line over what is bound is bound.
LEMMA LineBound ==
    ASSUME ImportInv, TreeInv, Settled, NEW k \in bound.keep
    PROVE  LET s == Over[k]
           IN  /\ Len(s) \in Nat /\ DOMAIN s = 1..Len(s)
               /\ \A i \in 1..Len(s) : s[i] \in bound.keep /\ s[i] = [of |-> s[i].of, ord |-> k.ord] /\ s[i].of \in Above(k.of)
               /\ s = <<>> => Parent(k.of) = {}
               /\ s # <<>> => Len(s) # 0 /\ s[1] = Next1(k) /\ ~Highest(k) /\ Parent(s[Len(s)].of) = {}
               /\ \A i \in 1..(Len(s) - 1) : ~Highest(s[i]) /\ s[i + 1] = Next1(s[i])
  <1> DEFINE s == Over[k]
             n == Len(s)
             S == {i \in 1..n : s[i] \in bound.keep /\ s[i] = [of |-> s[i].of, ord |-> k.ord] /\ s[i].of \in Above(k.of)}
  <1>1. Prepared /\ IsDocument(src) /\ IsFormed(src) /\ RootsInv /\ BoundInv /\ Copying
    BY SettledIs DEF Prepared, TreeInv, ImportInv, Settled
  <1>2. bound.keep = FieldsOver \cup Borne
    BY <1>1 DEF RootsInv
  <1>3. \A x \in bound.keep : /\ Highest(x) <=> Parent(x.of) = {}
                              /\ ~Highest(x) => \E p \in Parent(x.of) : Next1(x) = [of |-> p, ord |-> x.ord] /\ Next1(x) \in bound.keep
    <2> TAKE x \in bound.keep
    <2>1. /\ copies[x].type # "null"
          /\ \/ Parent(x.of) = {} /\ copies[x].ref["Parent"] = <<>>
             \/ \E p \in Nodes : Parent(x.of) = {p} /\ copies[x].ref["Parent"] = <<[of |-> p, ord |-> x.ord]>>
      BY <1>1, HeldIs
    <2>2. \A p \in Parent(x.of) : [of |-> p, ord |-> x.ord] \in FieldsOver
      BY <1>1, BoundIs
    <2>3. CASE Parent(x.of) = {} /\ copies[x].ref["Parent"] = <<>>
      BY <2>3 DEF Highest
    <2>4. ASSUME NEW p \in Nodes, Parent(x.of) = {p}, copies[x].ref["Parent"] = <<[of |-> p, ord |-> x.ord]>>
          PROVE  ~Highest(x) /\ Next1(x) = [of |-> p, ord |-> x.ord]
      <3>1. <<[of |-> p, ord |-> x.ord]>> # <<>> /\ <<[of |-> p, ord |-> x.ord]>>[1] = [of |-> p, ord |-> x.ord]
        OBVIOUS
      <3> QED BY <2>1, <2>4, <3>1 DEF Highest, Next1
    <2> QED BY <1>2, <2>1, <2>2, <2>3, <2>4
  <1>4. k \in DOMAIN copies /\ k.of \in Nodes
    BY <1>1, HeldIs, BoundIs
  <1>5. IsLine(k, s)
    BY <1>4, OverIs
  <1> HIDE DEF s
  <1>6. /\ n \in Nat /\ DOMAIN s = 1..n /\ (n = 0 => s = <<>>)
        /\ IF Highest(k) THEN s = <<>> ELSE n # 0 /\ s[1] = Next1(k)
        /\ \A i \in 1..n : IF i = n THEN Highest(s[i]) ELSE ~Highest(s[i]) /\ s[i + 1] = Next1(s[i])
    BY <1>5 DEF IsLine
  <1>7. Above(k.of) \subseteq Nodes /\ \A x \in Above(k.of) \cup {k.of} : Parent(x) \subseteq Above(k.of)
    BY <1>4, AboveClosed
  <1> HIDE DEF n
  <1>8. s = <<>> => n = 0
    BY DEF n
  <1>9. n >= 1 => 1 \in S
    <2> HAVE n >= 1
    <2>1. ~Highest(k) /\ s[1] = Next1(k) /\ 1 \in 1..n
      BY <1>6, <1>8
    <2>2. PICK p \in Parent(k.of) : Next1(k) = [of |-> p, ord |-> k.ord] /\ Next1(k) \in bound.keep
      BY <1>3, <2>1
    <2> QED BY <1>7, <2>1, <2>2
  <1>10. ASSUME NEW i \in 1..(n - 1), i \in S
         PROVE  i + 1 \in S
    <2>1. i \in 1..n /\ i # n /\ i + 1 \in 1..n
      BY <1>6
    <2>2. ~Highest(s[i]) /\ s[i + 1] = Next1(s[i])
      BY <1>6, <2>1
    <2>3. s[i] \in bound.keep /\ s[i].ord = k.ord /\ s[i].of \in Above(k.of)
      BY <1>10
    <2>4. PICK p \in Parent(s[i].of) : Next1(s[i]) = [of |-> p, ord |-> s[i].ord] /\ Next1(s[i]) \in bound.keep
      BY <1>3, <2>2, <2>3
    <2> QED BY <1>7, <2>1, <2>2, <2>3, <2>4
  <1>11. \A i \in 1..n : s[i] \in bound.keep /\ s[i] = [of |-> s[i].of, ord |-> k.ord] /\ s[i].of \in Above(k.of)
    <2>1. 1..n \subseteq S
      <3> HIDE DEF S
      <3> QED BY <1>6, <1>9, <1>10, Counting
    <2> QED BY <2>1
  <1>12. s # <<>> => n # 0 /\ n \in 1..n /\ ~Highest(k)
    BY <1>6
  <1>13. s = <<>> => Parent(k.of) = {}
    BY <1>3, <1>6, <1>8
  <1>14. s # <<>> => Parent(s[n].of) = {}
    BY <1>3, <1>6, <1>11, <1>12
  <1>15. \A i \in 1..(n - 1) : i \in 1..n /\ i # n
    BY <1>6
  <1>16. \A i \in 1..(n - 1) : ~Highest(s[i]) /\ s[i + 1] = Next1(s[i])
    BY <1>6, <1>15
  <1> QED BY <1>6, <1>11, <1>12, <1>13, <1>14, <1>16 DEF n, s

\* What is neither a field nor a widget has no kids.
LEMMA KidsNone ==
    ASSUME IsFormed(src), IsDocument(src), NEW c \in DOMAIN copies, Filled(c), ~IsPart(c.of)
    PROVE  copies[c].ref["Kids"] = <<>>
  <1>1. c.of \in Nodes /\ copies[c].ref = CopyDict(c.of, c.ord).ref
    BY DEF Filled
  <1>2. src.object[c.of].ref["Kids"] = <<>>
    BY <1>1, FormedIs
  <1>3. copies[c].ref["Kids"] = CopyRefs(<<>>, c.ord)
    <2>1. \A S : Only(<<>>, S) = <<>>
      BY OneRef
    <2>2. copies[c].ref["Kids"] = IF c.of \in bound.nodes THEN KeptKids(<<>>, c.ord) ELSE CopyRefs(<<>>, c.ord)
      BY <1>1, <1>2 DEF CopyDict, Keys
    <2> QED BY <2>1, <2>2 DEF KeptKids
  <1> QED BY <1>3, OneRef

\* When an import is over, what is true of the forms half-way is FormTree.
LEMMA FormsEnd ==
    ASSUME ImportInv, TreeInv
    PROVE  FormTree
  <1> SUFFICES ASSUME Done PROVE FormTree
    BY DEF FormTree
  <1>1. /\ Settled /\ Prepared /\ Copying /\ IsDocument(src) /\ IsFormed(src) /\ RootsInv /\ BoundInv
        /\ \A c \in DOMAIN copies : /\ copies[c].type = "null" => c.of \notin Nodes
                                    /\ copies[c].type # "null" => Filled(c)
    BY EndIs DEF Prepared, TreeInv, ImportInv
  <1>2. bound.keep = FieldsOver \cup Borne
    BY <1>1 DEF RootsInv
  <1>3. ToSet(form) = TopsOver /\ NoNameTwice
    BY <1>1 DEF TreeInv, FormInv, Done, RootsInv
  <1>4. ToSet(form) \subseteq bound.keep
    BY <1>1, <1>3, RootsKept
  <1>5. ASSUME NEW w \in Shown
        PROVE  /\ w \in DOMAIN copies
               /\ copies[w].type # "null" => w.of \in Nodes /\ (IsPart(w.of) => w \in bound.keep /\ w \in Borne)
    <2>1. PICK i \in DOMAIN ask : w \in ToSet(copies[Instance(i)].ref["Annots"])
      BY DEF Shown, Instances
    <2>2. w \in DOMAIN copies
      BY <1>1, <2>1, AnnotIs
    <2>3. PICK a \in ToSet(Annots(i)) : w = [of |-> a, ord |-> Instance(i).ord]
      BY <1>1, <2>1, AnnotIs
    <2>4. ASSUME copies[w].type # "null", IsPart(w.of)
          PROVE  w \in Borne
      <3>1. w.of \in Nodes /\ a \in Nodes /\ ask[i] \in Nodes
        BY <1>1, <2>2, <2>3, <2>4 DEF Filled, Prepared, Pages
      <3>2. src.object[a].type # "field"
        BY <1>1, <2>3, <3>1 DEF IsFormed, Nodes, Annots
      <3>3. Widget(w.of)
        BY <2>3, <2>4, <3>1, <3>2 DEF IsPart, Widget
      <3>4. w \in Lists(i)
        BY <2>3 DEF Lists
      <3> QED BY <3>3, <3>4 DEF Borne
    <2> QED BY <1>1, <1>2, <2>2, <2>4 DEF Filled
  <1>6. ASSUME NEW w \in Shown \cap Copied("widget"), src.object[w.of].name # None \/ Over[w] # <<>>
        PROVE  /\ (IF Over[w] = <<>> THEN w ELSE Last(Over[w])) \in ToSet(form)
               /\ LET line == <<w>> \o Over[w]
                  IN  \A k \in 2..Len(line) : line[k - 1] \in ToSet(copies[line[k]].ref["Kids"])
    <2> DEFINE s == Over[w]
               n == Len(s)
    <2>1. w \in Borne /\ w \in bound.keep /\ w.of \in Nodes
      <3>1. copies[w].type = "widget" /\ w \in DOMAIN copies
        BY DEF Copied
      <3>2. src.object[w.of].type = "widget"
        BY <1>1, <3>1 DEF Filled, CopyDict
      <3> QED BY <1>5, <3>1, <3>2 DEF IsPart
    <2>2. /\ n \in Nat /\ DOMAIN s = 1..n
          /\ \A i \in 1..n : s[i] \in bound.keep /\ s[i] = [of |-> s[i].of, ord |-> w.ord] /\ s[i].of \in Above(w.of)
          /\ s = <<>> => Parent(w.of) = {}
          /\ s # <<>> => n # 0 /\ s[1] = Next1(w) /\ ~Highest(w) /\ Parent(s[n].of) = {}
          /\ \A i \in 1..(n - 1) : ~Highest(s[i]) /\ s[i + 1] = Next1(s[i])
      BY <1>1, <2>1, LineBound
    <2> HIDE DEF s
    <2>3. w = [of |-> w.of, ord |-> w.ord]
      BY <1>1, <2>1, BoundIs
    <2>4. \A m \in Nodes : m # None
      BY <1>1 DEF IsDocument, Nodes
    <2>5. \A m \in Nodes : TopOf(w.of) = m => [of |-> m, ord |-> w.ord] \in TopsOver
      BY <2>1, <2>4 DEF TopsOver
    <2>6. (IF s = <<>> THEN w ELSE Last(s)) \in ToSet(form)
      <3>1. CASE s = <<>>
        <4>1. Above(w.of) = {}
          BY <1>1, <2>1, <2>2, <3>1, TopIs
        <4>2. TopOf(w.of) = w.of
          BY <1>6, <3>1, <4>1 DEF TopOf, s
        <4> QED BY <1>3, <2>1, <2>3, <2>5, <3>1, <4>2
      <3>2. CASE s # <<>>
        <4>1. n \in 1..n
          BY <2>2, <3>2
        <4>2. s[n].of \in Above(w.of) /\ Parent(s[n].of) = {} /\ s[n] = [of |-> s[n].of, ord |-> w.ord]
          BY <2>2, <3>2, <4>1
        <4>3. s[n].of \in Nodes /\ TopOf(w.of) = s[n].of
          BY <1>1, <2>1, <4>2, TopIs, AboveClosed
        <4>4. Last(s) = s[n]
          BY DEF Last
        <4> QED BY <1>3, <2>5, <3>2, <4>2, <4>3, <4>4
      <3> QED BY <3>1, <3>2
    <2>7. \A x, y \in bound.keep : ~Highest(x) /\ y = Next1(x) => x \in ToSet(copies[y].ref["Kids"])
      <3> TAKE x \in bound.keep, y \in bound.keep
      <3> HAVE ~Highest(x) /\ y = Next1(x)
      <3>1. x \in DOMAIN copies
        BY <1>1, HeldIs
      <3>2. copies[x].ref["Parent"] = <<y>>
        BY <1>1, <3>1, NextIs DEF TreeInv
      <3> QED BY <1>1, <3>2, KidsAre
    <2> DEFINE line == <<w>> \o s
    <2>8. Len(line) = n + 1 /\ line[1] = w /\ \A i \in 1..n : line[i + 1] = s[i]
      <3>1. s \in Seq(bound.keep)
        <4>1. s = [i \in 1..n |-> s[i]]
          <5>1. IsLine(w, s)
            BY <1>1, <1>5, OverIs DEF s
          <5> QED BY <5>1 DEF IsLine
        <4> HIDE DEF n
        <4> QED BY <2>2, <4>1
      <3>2. <<w>> \in Seq(bound.keep)
        BY <2>1
      <3> QED BY <3>1, <3>2
    <2> HIDE DEF line, n
    <2>9. ASSUME NEW k \in 2..(n + 1)
          PROVE  line[k - 1] \in ToSet(copies[line[k]].ref["Kids"])
      <3>1. k - 1 \in 1..n /\ (k - 1) + 1 = k /\ line[k] = s[k - 1]
        BY <2>2, <2>8
      <3>2. s # <<>>
        BY <3>1 DEF n
      <3>3. CASE k = 2
        BY <2>1, <2>2, <2>7, <2>8, <3>1, <3>2, <3>3
      <3>4. CASE k # 2
        <4>1. k - 2 \in 1..(n - 1) /\ k - 2 \in 1..n /\ (k - 2) + 1 = k - 1
          BY <2>2, <3>4
        <4>2. line[k - 1] = s[k - 2] /\ s[k - 1] = Next1(s[k - 2]) /\ ~Highest(s[k - 2])
          BY <2>2, <2>8, <4>1
        <4> QED BY <2>2, <2>7, <3>1, <4>1, <4>2
      <3> QED BY <3>3, <3>4
    <2> QED BY <2>6, <2>8, <2>9 DEF line, s
  <1>7. ASSUME NEW f \in bound.keep, NEW kid \in ToSet(copies[f].ref["Kids"])
        PROVE  copies[kid].ref["Parent"] = <<f>> /\ (copies[kid].type = "widget" => kid \in Shown)
    <2>1. kid \in bound.keep /\ copies[kid].ref["Parent"] = <<f>>
      BY <1>1, KidsAre
    <2>2. copies[kid].type = src.object[kid.of].type /\ (kid \in Borne => kid \in Shown)
      BY <1>1, <2>1, HeldIs
    <2>3. src.object[kid.of].type = "widget" => kid \in Borne
      BY <1>1, <2>1, BoundIs
    <2> QED BY <2>1, <2>2, <2>3
  <1>8. ASSUME NEW w \in Shown, NEW f \in ToSet(Over[w])
        PROVE  f \in bound.keep \/ copies[f].ref["Kids"] = <<>>
    <2> DEFINE s == Over[w]
               n == Len(s)
               S == {i \in 1..n : s[i].of \in Nodes /\ ~IsPart(s[i].of)}
    <2>1. w \in DOMAIN copies /\ IsLine(w, s)
      BY <1>1, <1>5, OverIs
    <2> HIDE DEF s
    <2>2. /\ n \in Nat /\ DOMAIN s = 1..n /\ (\A i \in 1..n : s[i] \in DOMAIN copies)
          /\ IF Highest(w) THEN n = 0 ELSE s[1] = Next1(w)
          /\ \A i \in 1..n : i # n => ~Highest(s[i]) /\ s[i + 1] = Next1(s[i])
      BY <2>1 DEF IsLine
    <2> HIDE DEF n
    <2>3. PICK i \in 1..n : f = s[i]
      BY <1>8, <2>2 DEF ToSet, s
    <2>4. ~Highest(w)
      BY <2>2, <2>3
    <2>5. w.of \in Nodes /\ (IsPart(w.of) => w \in bound.keep)
      BY <1>5, <2>4 DEF Highest
    <2>6. CASE IsPart(w.of)
      <3>1. \A j \in 1..n : s[j] \in bound.keep
        BY <1>1, <2>5, <2>6, LineBound DEF s, n
      <3> QED BY <2>3, <3>1
    <2>7. CASE ~IsPart(w.of)
      <3>1. \A c \in DOMAIN copies : ~Highest(c) /\ ~IsPart(c.of) => Next1(c).of \in Nodes /\ ~IsPart(Next1(c).of)
        <4> TAKE c \in DOMAIN copies
        <4> HAVE ~Highest(c) /\ ~IsPart(c.of)
        <4>1. c.of \in Nodes /\ Next1(c).of \in Parent(c.of)
          BY <1>1, NextIs DEF TreeInv
        <4>2. Next1(c).of \in Nodes
          BY <4>1 DEF Parent
        <4> QED BY <1>1, <4>1, <4>2, FormedIs
      <3>2. n >= 1 => 1 \in S
        <4>1. n >= 1 => 1 \in 1..n
          BY <2>2
        <4> QED BY <2>1, <2>2, <2>4, <2>7, <3>1, <4>1
      <3>3. \A j \in 1..(n - 1) : j \in S => j + 1 \in S
        <4> TAKE j \in 1..(n - 1)
        <4> HAVE j \in S
        <4>1. j \in 1..n /\ j # n /\ j + 1 \in 1..n
          BY <2>2
        <4> QED BY <2>2, <3>1, <4>1
      <3>4. 1..n \subseteq S
        <4> HIDE DEF S
        <4> QED BY <2>2, <3>2, <3>3, Counting
      <3>5. f \in DOMAIN copies /\ f.of \in Nodes /\ ~IsPart(f.of)
        BY <2>2, <2>3, <3>4
      <3>6. Filled(f)
        BY <1>1, <3>5
      <3> QED BY <1>1, <3>5, <3>6, KidsNone
    <2> QED BY <2>6, <2>7
  <1>9. ASSUME NEW f \in ToSet(form) \cup UNION {ToSet(Over[w]) : w \in Shown}, NEW kid \in ToSet(copies[f].ref["Kids"])
        PROVE  copies[kid].ref["Parent"] = <<f>> /\ (copies[kid].type = "widget" => kid \in Shown)
    <2>1. copies[f].ref["Kids"] # <<>>
      BY <1>9 DEF ToSet
    <2>2. f \in bound.keep
      BY <1>4, <1>8, <2>1
    <2> QED BY <1>7, <2>2
  <1> QED BY <1>3, <1>6, <1>9 DEF FormTree

\* In the target every widget shown hangs from a field of its form, what those
\* fields list is shown, and no two have one name.
THEOREM FormsKept == ImportSpec => []FormTree
  BY ImportSound, FormsSound, FormsEnd, PTL
=============================================================================
