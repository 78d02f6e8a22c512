----------------------------- MODULE DocPromise -----------------------------
(***************************************************************************)
(* What a Document promises its caller, without layers of ciphertext,      *)
(* object streams or security handlers: a document is a set of values and  *)
(* a key, and a file is the same with the signatures that cover it.        *)
(*   - reading gives the values the file holds, under the file's key;      *)
(*   - a whole-document writer that succeeds writes exactly the values of  *)
(*     the document, under the document's key, whether pdf0 could decrypt  *)
(*     them or not;                                                        *)
(*   - an update changes the values it lists and keeps all the others of   *)
(*     the file the document was read from, and that file's signatures;    *)
(*   - nothing but the caller's consent lets a rewrite discard them.       *)
(* Lost is the value of an object whose bytes no reader can recover.       *)
(***************************************************************************)
CONSTANTS Obj, Val, Key, Sig, Absent, Lost, NoKey, Dangling, Nothing

VARIABLES
    disk,   \* [vals, key, sigs]
    mem     \* Nothing, or [vals, key, base, consent]

vars == <<disk, mem>>

Vals == [Obj -> Val \cup {Absent, Lost}]
Disk == [vals : Vals, key : Key \cup {NoKey, Dangling}, sigs : SUBSET Sig]
Mem  == [vals : Vals, key : Key \cup {NoKey, Dangling},
         base : Disk \cup {Nothing}, consent : BOOLEAN]

\* Whether a rewrite of mem would discard a signature nobody gave up.
AtRisk == mem.base # Nothing /\ mem.base.sigs # {} /\ ~mem.consent

Init == disk \in Disk /\ mem = Nothing

Open ==
    /\ mem' = [vals |-> disk.vals, key |-> disk.key, base |-> disk, consent |-> FALSE]
    /\ UNCHANGED disk

New ==
    /\ mem' = [vals |-> [o \in Obj |-> Absent], key |-> NoKey,
               base |-> Nothing, consent |-> FALSE]
    /\ UNCHANGED disk

Edit(o, v) ==
    /\ mem # Nothing
    /\ mem' = [mem EXCEPT !.vals[o] = v]
    /\ UNCHANGED disk

Consent ==
    /\ mem # Nothing
    /\ mem' = [mem EXCEPT !.consent = TRUE]
    /\ UNCHANGED disk

\* Encrypting changes the key and not one value.
Rekey(k) ==
    /\ mem # Nothing
    /\ k \in Key => ~AtRisk
    /\ mem' = [mem EXCEPT !.key = k]
    /\ UNCHANGED disk

Rewrite(signature, discard) ==
    /\ mem # Nothing
    /\ discard => signature # {}
    /\ AtRisk => discard
    /\ disk' = [vals |-> mem.vals, key |-> mem.key, sigs |-> signature]
    /\ UNCHANGED mem

Update(changed, signature) ==
    /\ mem # Nothing
    /\ mem.base # Nothing
    /\ mem.key = NoKey /\ mem.base.key = NoKey
    /\ disk' = [vals |-> [o \in Obj |-> IF o \in changed THEN mem.vals[o]
                                        ELSE mem.base.vals[o]],
                key  |-> NoKey,
                sigs |-> mem.base.sigs \cup signature]
    /\ UNCHANGED mem

Signatures == {{}} \cup {{s} : s \in Sig}

Next ==
    \/ Open
    \/ New
    \/ \E o \in Obj, v \in Val \cup {Absent} : Edit(o, v)
    \/ Consent
    \/ \E k \in Key \cup {NoKey} : Rekey(k)
    \/ \E T \in Signatures, discard \in BOOLEAN : Rewrite(T, discard)
    \/ \E changed \in SUBSET Obj, T \in Signatures : Update(changed, T)

Spec == Init /\ [][Next]_vars
=============================================================================
