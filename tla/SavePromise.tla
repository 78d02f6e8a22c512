----------------------------- MODULE SavePromise -----------------------------
(***************************************************************************)
(* What Save promises of a document that claims a conformance: the caller's *)
(* writer gets the whole file, once, and only when the file was found to   *)
(* conform; a Save that answers anything else leaves the writer untouched, *)
(* unless it is the writer that failed.                                    *)
(***************************************************************************)
VARIABLES
    sound,      \* the file conforms, and could be checked to the end
    file,       \* "nothing", "part" of the file or the "whole" of it
    answer      \* what Save answered

Init ==
    /\ sound \in BOOLEAN
    /\ file = "nothing"
    /\ answer = "none"

Write ==
    /\ answer = "none" /\ sound
    /\ file' = "whole" /\ answer' = "ok"
    /\ UNCHANGED sound

WriterFails ==
    /\ answer = "none" /\ sound
    /\ file' \in {"nothing", "part"} /\ answer' = "failed"
    /\ UNCHANGED sound

Decline ==
    /\ answer = "none"
    /\ answer' \in {"refused", "failed", "canceled", "not read back", "does not conform",
                     "not checked"}
    /\ UNCHANGED <<sound, file>>

vars == <<sound, file, answer>>

Next == Write \/ WriterFails \/ Decline

Spec == Init /\ [][Next]_vars
=============================================================================
