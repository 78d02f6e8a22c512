---------------------------- MODULE ContentBuilder ----------------------------
(***************************************************************************)
(* content.Builder: the calls that draw a content stream, each of which     *)
(* writes an operator or records the first error, after which nothing more  *)
(* is written.  The flags the Builder keeps are the variables; of the       *)
(* buffer, only the operator written last is kept.                          *)
(***************************************************************************)
EXTENDS Naturals, Sequences

CONSTANTS
    MaxNestingDepth,    \* q/Q nesting: 28
    MarkedMax,          \* bound: marked-content sequences a caller has open
    Fonts, Patterns, Comps,     \* what a caller names: fonts, patterns, colours
    Unset               \* no font or colour set in this stream yet

ASSUME BuilderAssumption ==
    /\ MaxNestingDepth \in Nat /\ MarkedMax \in Nat
    /\ Unset \notin Fonts
    /\ "none" \notin Patterns \cup Comps

VARIABLES
    out,            \* the operator last written to buf
    err,            \* the stream's first error is recorded
    depth, inText, inPath, clipped,
    marked, textFloor,
    colorOp,        \* an operator an uncoloured pattern ignores was written
    state, saved,   \* the tracked font and colour, and what each q saved
    spans           \* what ShowTextAdjusted has still to write

flags == <<depth, inText, inPath, clipped, marked, textFloor, state, saved>>
vars  == <<out, err, flags, colorOp, spans>>

\* A tracked colour; "Uncoloured" is a space SetUncoloredPatternSpace selected.
Spaces == {"Device", "Named", "Pattern", "Uncoloured"}
Fill   == [space : Spaces, comps : Comps \cup {"none"}, pattern : Patterns \cup {"none"}]
Tracked == [font : Fonts \cup {Unset}, fill : Fill \cup {Unset}, stroke : {"other", "Uncoloured"}]

Init ==
    /\ out = [name |-> "none"]
    /\ err = FALSE
    /\ depth = 0 /\ inText = FALSE /\ inPath = FALSE /\ clipped = FALSE
    /\ marked = 0 /\ textFloor = 0
    /\ colorOp = FALSE
    /\ state = [font |-> Unset, fill |-> Unset, stroke |-> "other"]
    /\ saved = <<>>
    /\ spans = <<>>

-----------------------------------------------------------------------------
(* op: every operator goes through it.                                      *)

paintingOps == {"f", "S", "B", "n"}
pathOps     == {"m", "l", "h", "re", "W"} \cup paintingOps
Coloured    == {"g", "G", "cs", "CS", "scn", "SCN", "ri", "sh"}

\* With the clip forgotten: any path operator may follow it.
OutOfPathUnclipped(name, path) == path /\ name \notin pathOps

\* Inside a path only path operators, and after a clip only the painting one.
OutOfPath(name, path) ==
    path /\ (name \notin pathOps \/ (clipped /\ name \notin paintingOps))

\* No call draws after the first error, or while another is under way.
Ready == ~err /\ spans = <<>>

Fail == err' = TRUE /\ spans' = <<>> /\ UNCHANGED <<out, flags, colorOp>>

Writes(o) == /\ out' = o
             /\ colorOp' = (colorOp \/ o.name \in Coloured)
             /\ UNCHANGED <<err, spans>>

Named(name) == [name |-> name]

\* A call that is refused, or writes o and does what effect says of the flags.
Call(o, refused, effect) ==
    /\ Ready
    /\ IF refused \/ OutOfPath(o.name, inPath)
       THEN Fail
       ELSE Writes(o) /\ effect

\* A number that is not finite, an empty name, a value out of range: any call
\* that takes one is refused for it.  Fail does the same.
BadOperand == ~err /\ Fail

-----------------------------------------------------------------------------
(* Graphics state and paths.                                                *)

Save ==
    Call(Named("q"), inText \/ inPath \/ depth = MaxNestingDepth,
         /\ depth' = depth + 1
         /\ saved' = Append(saved, state)
         /\ UNCHANGED <<inText, inPath, clipped, marked, textFloor, state>>)

Restore ==
    Call(Named("Q"), inText \/ inPath \/ depth = 0,
         /\ depth' = depth - 1
         /\ state' = saved[Len(saved)]
         /\ saved' = SubSeq(saved, 1, Len(saved) - 1)
         /\ UNCHANGED <<inText, inPath, clipped, marked, textFloor>>)

\* Concat, Shading and Draw, which a text object does not admit.
PageLevel(name) == name \in {"cm", "sh", "Do"} /\ Call(Named(name), inText, UNCHANGED flags)

\* Line, flatness, intent and ExtGState calls, and marked-content points.
Anywhere(name) == name \in {"w", "gs", "ri", "MP"} /\ Call(Named(name), FALSE, UNCHANGED flags)

\* MoveTo and Rect begin a path before op looks at it.
BeginPath(name) ==
    /\ name \in {"m", "re"} /\ Ready
    /\ IF inText \/ OutOfPath(name, TRUE)
       THEN Fail
       ELSE /\ Writes(Named(name))
            /\ inPath' = TRUE
            /\ UNCHANGED <<depth, inText, clipped, marked, textFloor, state, saved>>

Segment(name) == name \in {"l", "h"} /\ Call(Named(name), ~inPath, UNCHANGED flags)

Clip == Call(Named("W"), ~inPath,
             clipped' = TRUE /\ UNCHANGED <<depth, inText, inPath, marked, textFloor, state, saved>>)

\* The path ends before op looks at the painting operator.
Paint(name) ==
    /\ name \in paintingOps /\ Ready
    /\ IF ~inPath
       THEN Fail
       ELSE /\ Writes(Named(name))
            /\ inPath' = FALSE /\ clipped' = FALSE
            /\ UNCHANGED <<depth, inText, marked, textFloor, state, saved>>

-----------------------------------------------------------------------------
(* Colour.                                                                  *)

Track(s) == state' = s /\ UNCHANGED <<depth, inText, inPath, clipped, marked, textFloor, saved>>
FillOf(space, comps, pattern) == [space |-> space, comps |-> comps, pattern |-> pattern]
Uncoloured == state.fill # Unset /\ state.fill.space = "Uncoloured"

\* SetGray, SetRGB, SetCMYK; SetColorSpace, SetUncoloredPatternSpace.
SetFill(name, fill) ==
    Call([name |-> name, fill |-> fill], FALSE, Track([state EXCEPT !.fill = fill]))

SetDevice(c)  == SetFill("g", FillOf("Device", c, "none"))
SetSpace(s)   == \E c \in Comps \cup {"none"} :
                    /\ (c # "none") = (s = "Device")
                    /\ SetFill("cs", FillOf(s, c, "none"))

SetStroke(name, space) ==
    Call([name |-> name, space |-> space], FALSE, Track([state EXCEPT !.stroke = space]))

Scn(comps, pattern) == [name |-> "scn", comps |-> comps, pattern |-> pattern]

\* Nobody looks whether the space takes components.
SetColor(c) ==
    Call(Scn(c, "none"), Uncoloured,
         IF state.fill = Unset THEN UNCHANGED flags
         ELSE Track([state EXCEPT !.fill = FillOf(@.space, c, "none")]))

\* Nor whether it takes a pattern: it is /Pattern from then on.
SetPattern(p) ==
    Call(Scn("none", p), Uncoloured, Track([state EXCEPT !.fill = FillOf("Pattern", "none", p)]))

SetUncoloredPattern(c, p) ==
    Call(Scn(c, p), ~Uncoloured, Track([state EXCEPT !.fill = FillOf(@.space, c, p)]))

\* SetStrokeColor, SetStrokePattern and SetStrokeUncoloredPattern.
SetStrokeColor(comps, pattern) ==
    /\ comps # "none" \/ pattern # "none"
    /\ Call([name |-> "SCN", comps |-> comps, pattern |-> pattern],
            (state.stroke = "Uncoloured") # (comps # "none" /\ pattern # "none"),
            UNCHANGED flags)

-----------------------------------------------------------------------------
(* Text and marked content.                                                 *)

BeginText ==
    Call(Named("BT"), inText \/ inPath,
         /\ inText' = TRUE
         /\ textFloor' = marked
         /\ UNCHANGED <<depth, inPath, clipped, marked, state, saved>>)

EndText ==
    Call(Named("ET"), ~inText \/ marked > textFloor,
         inText' = FALSE /\ UNCHANGED <<depth, inPath, clipped, marked, textFloor, state, saved>>)

\* Positioning, and showing in one operator.
TextOp(name) == name \in {"Td", "Tj"} /\ Call(Named(name), ~inText, UNCHANGED flags)

SetFont(f) ==
    Call([name |-> "Tf", font |-> f], ~inText, Track([state EXCEPT !.font = f]))

Begun  == marked' = marked + 1
          /\ UNCHANGED <<depth, inText, inPath, clipped, textFloor, state, saved>>
Ended  == marked' = marked - 1
          /\ UNCHANGED <<depth, inText, inPath, clipped, textFloor, state, saved>>
NotOpen == marked = 0 \/ (inText /\ marked = textFloor)

\* BeginMarked, BeginTagged and BeginActualText.
BeginMarked == marked < MarkedMax /\ Call(Named("BDC"), FALSE, Begun)
EndMarked   == Call(Named("EMC"), NotOpen, Ended)

\* ShowTextAdjusted: its spans are looked through before anything is written,
\* and a stretch with its own text takes operators of its own.
ShowTextAdjusted(list) ==
    /\ Ready /\ marked < MarkedMax
    /\ spans' = list
    /\ UNCHANGED <<out, err, flags, colorOp>>

WriteSpan ==
    /\ ~err /\ spans # <<>>
    /\ LET name    == Head(spans)
           refused == \/ OutOfPath(name, inPath)
                      \/ name = "TJ" /\ ~inText
                      \/ name = "EMC" /\ NotOpen
       IN  IF refused THEN Fail
           ELSE /\ out' = Named(name)
                /\ spans' = Tail(spans)
                /\ CASE name = "TJ"  -> UNCHANGED flags
                     [] name = "BDC" -> Begun
                     [] name = "EMC" -> Ended
                /\ UNCHANGED <<err, colorOp>>

SpanLists == {<<"TJ">>, <<"TJ", "BDC", "TJ", "EMC", "TJ">>, <<"BDC", "EMC">>}

-----------------------------------------------------------------------------

GraphicsCall ==
    \/ Save \/ Restore
    \/ \E name \in {"cm", "sh", "Do"} : PageLevel(name)
    \/ \E name \in {"w", "gs", "ri", "MP"} : Anywhere(name)
    \/ \E name \in {"m", "re"} : BeginPath(name)
    \/ \E name \in {"l", "h"} : Segment(name)
    \/ Clip
    \/ \E name \in paintingOps : Paint(name)

ColourCall ==
    \/ \E c \in Comps : SetDevice(c) \/ SetColor(c)
    \/ \E s \in Spaces : SetSpace(s)
    \/ SetStroke("G", "other") \/ SetStroke("CS", "other") \/ SetStroke("CS", "Uncoloured")
    \/ \E p \in Patterns : SetPattern(p) \/ \E c \in Comps : SetUncoloredPattern(c, p)
    \/ \E c \in Comps \cup {"none"}, p \in Patterns \cup {"none"} : SetStrokeColor(c, p)

TextCall ==
    \/ BeginText \/ EndText
    \/ \E name \in {"Td", "Tj"} : TextOp(name)
    \/ \E f \in Fonts : SetFont(f)
    \/ BeginMarked \/ EndMarked
    \/ \E list \in SpanLists : ShowTextAdjusted(list)
    \/ WriteSpan

\* Later calls become no-ops, and the caller checks once at the end.
AfterError == err /\ UNCHANGED vars

Next == GraphicsCall \/ ColourCall \/ TextCall \/ BadOperand \/ AfterError

Spec == Init /\ [][Next]_vars

\* With marked content not asked about.
FinishedMarked == Ready /\ depth = 0 /\ ~inText /\ ~inPath

\* Bytes gives the stream out.
Finished == Ready /\ depth = 0 /\ ~inText /\ ~inPath /\ marked = 0

-----------------------------------------------------------------------------
(* Properties.                                                              *)

\* The graphics object the flags say the stream is in, and the marked-content
\* sequences open around a text object and in it.
Place   == IF inText THEN "text" ELSE IF clipped THEN "clip" ELSE IF inPath THEN "path" ELSE "page"
Around  == IF inText THEN textFloor ELSE marked
Within  == IF inText THEN marked - textFloor ELSE 0

\* What the Builder keeps is what a reader of the stream so far is in.
Reader == INSTANCE ContentReader WITH
    MaxDepth <- MaxNestingDepth, op <- out, at <- Place,
    gs <- state, stack <- saved, outer <- Around, inner <- Within

\* Whatever is called in whatever order, every operator written is one a reader
\* takes there, and the font and colours the Builder reports are the reader's,
\* through q and Q.
ReaderFollows == Reader!RSpec

\* A stream Bytes gives out leaves the reader with nothing open: no state saved,
\* no path, no text object, no marked content.
BytesComplete == Finished => Reader!Complete
=============================================================================
