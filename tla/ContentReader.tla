---------------------------- MODULE ContentReader ----------------------------
(***************************************************************************)
(* What a reader makes of a content stream, an operator at a time: the      *)
(* graphics objects of ISO 32000-2 Figure 9, the graphics state, and the    *)
(* marked-content sequences.  It has a step for every operator that may     *)
(* come next, and none for one that may not.                                *)
(***************************************************************************)
EXTENDS Naturals, Sequences

CONSTANTS
    MaxDepth,       \* the deepest q/Q nesting a PDF/A reader accepts
    Unset           \* a font or colour inherited from whatever draws the stream

VARIABLES
    op,             \* the operator just read
    at,             \* the graphics object it is in
    gs, stack,      \* the graphics state, and those saved
    outer, inner    \* marked-content sequences open: begun before the text
                    \* object, and in it

reader == <<op, at, gs, stack, outer, inner>>

Painting   == {"f", "S", "B", "n"}
TextOnly   == {"Td", "Tj", "TJ"}
Anywhere   == {"w", "gs", "ri", "MP"}       \* at page level and in a text object
PageOnly   == {"cm", "sh", "Do"}

RInit ==
    /\ op = [name |-> "none"]
    /\ at = "page"
    /\ gs = [font |-> Unset, fill |-> Unset, stroke |-> "other"]
    /\ stack = <<>>
    /\ outer = 0 /\ inner = 0

Reads(o, place) == op' = o /\ at' = place
Keeping == UNCHANGED <<gs, stack, outer, inner>>

General(o) == at \in {"page", "text"} /\ o.name \in Anywhere /\ Reads(o, at) /\ Keeping
Page(o)    == at = "page" /\ o.name \in PageOnly /\ Reads(o, at) /\ Keeping
Text(o)    == at = "text" /\ o.name \in TextOnly /\ Reads(o, at) /\ Keeping

Push(o) ==
    /\ at = "page" /\ o.name = "q" /\ Len(stack) < MaxDepth
    /\ stack' = Append(stack, gs)
    /\ Reads(o, at) /\ UNCHANGED <<gs, outer, inner>>

Pop(o) ==
    /\ at = "page" /\ o.name = "Q" /\ stack # <<>>
    /\ gs' = stack[Len(stack)]
    /\ stack' = SubSeq(stack, 1, Len(stack) - 1)
    /\ Reads(o, at) /\ UNCHANGED <<outer, inner>>

BeginPath(o) == at \in {"page", "path"} /\ o.name \in {"m", "re"} /\ Reads(o, "path") /\ Keeping
Segment(o)   == at = "path" /\ o.name \in {"l", "h"} /\ Reads(o, at) /\ Keeping
ClipPath(o)  == at = "path" /\ o.name = "W" /\ Reads(o, "clip") /\ Keeping
Paint(o)     == at \in {"path", "clip"} /\ o.name \in Painting /\ Reads(o, "page") /\ Keeping

BeginText(o) ==
    /\ at = "page" /\ o.name = "BT" /\ Reads(o, "text")
    /\ Keeping

\* A sequence begun in a text object ends in it.
EndText(o) ==
    /\ at = "text" /\ inner = 0 /\ o.name = "ET" /\ Reads(o, "page")
    /\ Keeping

BeginMarked(o) ==
    /\ at \in {"page", "text"} /\ o.name = "BDC"
    /\ IF at = "text"
       THEN inner' = inner + 1 /\ UNCHANGED outer
       ELSE outer' = outer + 1 /\ UNCHANGED inner
    /\ Reads(o, at) /\ UNCHANGED <<gs, stack>>

\* One begun before a text object does not end in it.
EndMarked(o) ==
    /\ o.name = "EMC"
    /\ \/ at = "text" /\ inner > 0 /\ inner' = inner - 1 /\ UNCHANGED outer
       \/ at = "page" /\ outer > 0 /\ outer' = outer - 1 /\ UNCHANGED inner
    /\ Reads(o, at) /\ UNCHANGED <<gs, stack>>

Sets(o, state) ==
    /\ at \in {"page", "text"}
    /\ gs' = state
    /\ Reads(o, at) /\ UNCHANGED <<stack, outer, inner>>

SetFont(o) == at = "text" /\ o.name = "Tf" /\ Sets(o, [gs EXCEPT !.font = o.font])

\* g, rg and k, and cs, select a space and a colour in it.
SetSpace(o) ==
    \/ o.name \in {"g", "cs"} /\ Sets(o, [gs EXCEPT !.fill = o.fill])
    \/ o.name \in {"G", "CS"} /\ Sets(o, [gs EXCEPT !.stroke = o.space])

\* scn has components, the name of a pattern, or, in an uncoloured pattern
\* space and nowhere else, both.
Operands(o, uncoloured) == uncoloured = (o.comps # "none" /\ o.pattern # "none")

SetColor(o) ==
    /\ o.name = "scn"
    /\ Operands(o, gs.fill # Unset /\ gs.fill.space = "Uncoloured")
    /\ Sets(o, IF gs.fill = Unset /\ o.pattern = "none"
               THEN gs
               ELSE [gs EXCEPT !.fill =
                        [space |-> IF o.comps = "none" THEN "Pattern" ELSE gs.fill.space,
                         comps |-> o.comps, pattern |-> o.pattern]])

SetStrokeColor(o) ==
    /\ o.name = "SCN"
    /\ Operands(o, gs.stroke = "Uncoloured")
    /\ Sets(o, gs)

Read(o) ==
    \/ General(o) \/ Page(o) \/ Text(o)
    \/ Push(o) \/ Pop(o)
    \/ BeginPath(o) \/ Segment(o) \/ ClipPath(o) \/ Paint(o)
    \/ BeginText(o) \/ EndText(o) \/ BeginMarked(o) \/ EndMarked(o)
    \/ SetFont(o) \/ SetSpace(o) \/ SetColor(o) \/ SetStrokeColor(o)

\* The operator read is the next value of op.
RNext == Read(op')

RSpec == RInit /\ [][RNext]_reader

\* The stream may end here.
Complete == at = "page" /\ stack = <<>> /\ outer = 0 /\ inner = 0
=============================================================================
