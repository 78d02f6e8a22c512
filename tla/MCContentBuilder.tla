--------------------------- MODULE MCContentBuilder ---------------------------
(***************************************************************************)
(* One name of each kind, one colour, and room for a sequence of marked     *)
(* content outside a text object and one in it.                             *)
(***************************************************************************)
EXTENDS ContentBuilder

CONSTANTS F1, P1, c1

MCFonts == {F1}
MCPatterns == {P1}
MCComps == {c1}
=============================================================================
