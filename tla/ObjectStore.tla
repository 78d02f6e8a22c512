---------------------------- MODULE ObjectStore ----------------------------
(***************************************************************************)
(* What an editing program needs from the file format, with no byte of     *)
(* the format in it: a numbered store that is read into memory, edited     *)
(* there, and written back either whole or as a list of changed numbers.   *)
(* IncrementalUpdate is shown to implement it.                             *)
(*                                                                         *)
(*   stored   the objects the file on disk shows to whoever reads it       *)
(*   base     the objects the file showed when the document was read       *)
(*   edit     the objects of the document in memory                        *)
(*   used     the numbers the program must not hand out: those the file it *)
(*            read has ever used, and those handed out since               *)
(*   listed   the numbers the last update was asked to write               *)
(***************************************************************************)
EXTENDS Naturals

CONSTANTS Num,          \* object numbers
          Object        \* what an object can be

VARIABLES stored, base, edit, used, listed
vars == <<stored, base, edit, used, listed>>

IsStore(f) == DOMAIN f \subseteq Num /\ \A n \in DOMAIN f : f[n] \in Object

(* `f' with the numbers of `changed' taken from `g': a number `g' lacks is  *)
(* deleted.                                                                *)
Override(f, changed, g) ==
  [n \in (DOMAIN f \ changed) \union (DOMAIN g \intersect changed) |->
     IF n \in changed THEN g[n] ELSE f[n]]

Same(f, g, n) == \/ n \notin DOMAIN f \union DOMAIN g
                 \/ n \in DOMAIN f \intersect DOMAIN g /\ f[n] = g[n]

Fresh == Num \ (used \union DOMAIN edit)

Init == /\ IsStore(stored)
        /\ base = << >>
        /\ edit = << >>
        /\ used = {}
        /\ listed = {}

NoUpdate == listed' = {}

(* Reading shows exactly what is stored, and no number stored is free.     *)
Read == /\ NoUpdate
        /\ edit' = stored
        /\ base' = stored
        /\ DOMAIN stored \subseteq used'
        /\ used' \subseteq Num
        /\ UNCHANGED stored

(* One object is replaced, inserted or deleted.                            *)
Edit(n) == /\ NoUpdate
           /\ \A m \in Num \ {n} : Same(edit', edit, m)
           /\ IsStore(edit')
           /\ UNCHANGED <<base, stored>>

Add == \E n \in Fresh : n \in DOMAIN edit' /\ used' = used \union {n} /\ Edit(n)

Change == UNCHANGED used /\ \E n \in Num : Edit(n)

Write == NoUpdate /\ UNCHANGED <<edit, base, used>> /\ stored' = edit

(* An update replaces the listed numbers of the file read, and only those. *)
(* The writer may take a fresh number for its own bookkeeping.             *)
ListedUpdate == /\ listed' # {}
                /\ UNCHANGED <<edit, base>>
                /\ used' = used \/ \E n \in Fresh : used' = used \union {n}
                /\ stored' = Override(base, listed', edit)

(* Signing updates the file from a copy of the document that has some      *)
(* fresh objects more and some objects altered; the document itself stays. *)
SignedUpdate == /\ listed' # {}
                /\ UNCHANGED <<edit, base, used>>
                /\ listed' \ DOMAIN edit \subseteq Fresh
                /\ listed' \subseteq DOMAIN stored'
                /\ stored' = Override(base, listed', stored')

(* A number taken for an update that then fails is spent.                  *)
Spend == /\ NoUpdate
         /\ UNCHANGED <<edit, base, stored>>
         /\ \E n \in Fresh : used' = used \union {n}

Next == Read \/ Add \/ Change \/ Write \/ ListedUpdate \/ SignedUpdate \/ Spend

Spec == Init /\ [][Next]_vars
=============================================================================
