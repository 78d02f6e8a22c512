------------------------------ MODULE ObjStmLoad ------------------------------
(***************************************************************************)
(* How Read unpacks object streams: loadCompressedObjects takes from each  *)
(* container the objects the cross-reference table places in it, and       *)
(* materializeScannedObjStms, when the table was rebuilt by a scan, takes  *)
(* whatever the containers hold.  Both work under one meter, and what they *)
(* cannot unpack is recorded as broken, the file's fault, or skipped,      *)
(* pdf0's own choice.  The caller's context may be canceled at any moment. *)
(***************************************************************************)
EXTENDS Integers, Sequences, FiniteSetsExt

CONSTANTS
    Files,      \* the files Read may be given, as loaded so far
    Top         \* where an object that is in no object stream was found

ASSUME TopAssumption == Top \notin Nat \X Nat

\* An object stream: what its data is to the reader, the bytes it decodes to,
\* and its index: the number each entry names, the memory the object takes,
\* and whether it parses.
Data == {"decodes", "malformed", "unsupported", "ciphertext", "no stream"}
IsContainer(c) ==
    /\ c.data \in Data
    /\ c.size \in Nat
    /\ c.index \in Seq([num : Nat, cost : Nat, parses : BOOLEAN])

\* What the read has loaded when it comes to the object streams: the objects of
\* its own top level, the containers among them, the table's compressed entries
\* (none in a rebuilt table), and the limits it reads under.
IsFile(f) ==
    /\ f.rebuilt \in BOOLEAN
    /\ f.top \subseteq Nat /\ IsFiniteSet(f.top)
    /\ DOMAIN f.containers \subseteq f.top
    /\ \A c \in DOMAIN f.containers : IsContainer(f.containers[c])
    /\ DOMAIN f.placed \subseteq Nat \ f.top /\ IsFiniteSet(DOMAIN f.placed)
    /\ \A n \in DOMAIN f.placed : f.placed[n] \in [container : Nat, index : Nat]
    /\ f.rebuilt => DOMAIN f.placed = {}
    /\ f.total \in Nat /\ f.perStream \in Nat
    /\ f.position \in [f.top -> Nat]

ASSUME FilesAssumption == \A f \in Files : IsFile(f)

VARIABLES
    file,       \* what has been loaded
    phase,      \* "next" container, "unpack" the open one, or how it ended
    canceled,   \* the caller's context is done
    todo,       \* the containers not yet visited
    open,       \* the container being unpacked
    pending,    \* the numbers, or index entries, of it still to take
    bad,        \* it could not supply one of them
    left,       \* what the meter has left
    objects,    \* number -> Top, or the container and index entry it came from
    broken,     \* containers the file got wrong
    skipped,    \* containers pdf0 did not unpack, with the reason
    noted       \* numbers counted toward the high-water mark

vars == <<file, phase, canceled, todo, open, pending, bad, left, objects,
          broken, skipped, noted>>

Final == {"loaded", "refused", "stopped"}

Least(s) == {x \in s : \A y \in s : x <= y}

\* The numbers the table places in container c; entry 0 is never an object.
PlacedIn(c) == {n \in DOMAIN file.placed \ {0} : file.placed[n].container = c}

Init ==
    /\ file \in Files
    /\ phase = "next"
    /\ canceled = FALSE
    /\ todo = IF file.rebuilt
              THEN {c \in DOMAIN file.containers :
                        file.containers[c].data # "no stream"}
              ELSE {file.placed[n].container : n \in DOMAIN file.placed \ {0}}
    /\ open = 0
    /\ pending = {}
    /\ bad = FALSE
    /\ left = file.total
    /\ objects = [n \in file.top |-> Top]
    /\ broken = {}
    /\ skipped = {}
    /\ noted = {}

Cancel ==
    /\ ~canceled
    /\ phase \notin Final
    /\ canceled' = TRUE
    /\ UNCHANGED <<file, phase, todo, open, pending, bad, left, objects, broken,
                   skipped, noted>>

-----------------------------------------------------------------------------
(* Opening a container.                                                     *)

\* With the decode held to the per-stream limit alone.
ReachPerStream == file.perStream

\* The most a container may decode to: what the meter has left, when that is
\* less than the per-stream limit.
Reach == IF left < file.perStream THEN left ELSE file.perStream

\* What openObjStm makes of container c, in the order it looks.
Verdict(c) ==
    IF c \notin DOMAIN file.containers THEN "broken"
    ELSE LET s == file.containers[c]
         IN  CASE s.data = "no stream"  -> "broken"
               [] s.data = "ciphertext" -> "locked"
               [] OTHER ->
                    IF left <= 0 THEN "total"
                    ELSE IF s.data = "unsupported" THEN "unsupported"
                    ELSE IF s.size > Reach
                         THEN IF left < file.perStream THEN "total" ELSE "perStream"
                    ELSE IF s.data = "malformed" THEN "broken"
                    ELSE "opened"

\* The next container in number order, one per turn of the loop.  The numbers
\* its index lists are noted before any of them is parsed; the scan notes each
\* as it comes to it.
OpenObjStm ==
    /\ phase = "next" /\ ~canceled
    /\ \E c \in Least(todo) :
         /\ todo' = todo \ {c}
         /\ \/ /\ Verdict(c) = "opened"
               /\ phase' = "unpack"
               /\ open' = c
               /\ pending' = IF file.rebuilt
                             THEN 1..Len(file.containers[c].index)
                             ELSE PlacedIn(c)
               /\ left' = left - file.containers[c].size
               /\ noted' = IF file.rebuilt
                           THEN noted
                           ELSE noted \cup {file.containers[c].index[i].num :
                                              i \in 1..Len(file.containers[c].index)}
               /\ UNCHANGED <<broken, skipped>>
            \/ /\ Verdict(c) = "broken"
               /\ broken' = broken \cup {c}
               /\ UNCHANGED <<phase, open, pending, left, skipped, noted>>
            \/ /\ Verdict(c) \notin {"opened", "broken"}
               /\ skipped' = skipped \cup {[num |-> c, reason |-> Verdict(c)]}
               /\ UNCHANGED <<phase, open, pending, left, broken, noted>>
    /\ UNCHANGED <<file, canceled, bad, objects>>

\* A done context is looked for before each container and as one decodes.
Stop ==
    /\ phase = "next" /\ canceled
    /\ todo # {}
    /\ phase' = "stopped"
    /\ UNCHANGED <<file, canceled, todo, open, pending, bad, left, objects,
                   broken, skipped, noted>>

-----------------------------------------------------------------------------
(* Taking the objects out of the open one.                                  *)

Index == file.containers[open].index

\* With an object past the budget held against the file.
OverBudgetBroken ==
    /\ pending' = {}
    /\ bad' = TRUE
    /\ UNCHANGED <<skipped, objects>>

\* An object past the budget ends the container, which is then skipped: its
\* objects are missing by pdf0's choice.
OverBudget ==
    /\ pending' = {}
    /\ skipped' = skipped \cup {[num |-> open, reason |-> "total"]}
    /\ UNCHANGED <<bad, objects>>

\* The object at index entry i, taken as number n.  The meter is charged for
\* what the parse builds, whether or not it comes to an object.
ParseObjStmObject(n, i, x) ==
    /\ left' = left - Index[i].cost
    /\ \/ Index[i].cost > left /\ OverBudget
       \/ /\ Index[i].cost <= left /\ Index[i].parses
          /\ objects' = [m \in DOMAIN objects \cup {n} |->
                            IF m = n THEN <<open, i>> ELSE objects[m]]
          /\ pending' = pending \ {x}
          /\ UNCHANGED <<bad, skipped>>
       \/ /\ Index[i].cost <= left /\ ~Index[i].parses
          /\ bad' = (bad \/ ~file.rebuilt)
          /\ pending' = pending \ {x}
          /\ UNCHANGED <<objects, skipped>>

\* With the number an index entry states not looked at.
DisagreesNever(n, i) == FALSE

\* The table and the container disagree about which object is object n.
Disagrees(n, i) == Index[i].num # n

\* One object the table places in the container.
TakePlaced ==
    /\ phase = "unpack" /\ ~file.rebuilt
    /\ \E n \in Least(pending) :
         LET i == file.placed[n].index
         IN  \/ /\ i \notin 1..Len(Index)
                /\ bad' = TRUE
                /\ pending' = pending \ {n}
                /\ UNCHANGED <<phase, left, objects, skipped>>
             \/ /\ i \in 1..Len(Index) /\ Disagrees(n, i)
                /\ phase' = "refused"
                /\ UNCHANGED <<pending, bad, left, objects, skipped>>
             \/ /\ i \in 1..Len(Index) /\ ~Disagrees(n, i)
                /\ ParseObjStmObject(n, i, n)
                /\ UNCHANGED phase
    /\ UNCHANGED <<file, canceled, todo, open, broken, noted>>

Defined(n) == n \in DOMAIN objects

\* One entry of the container's index; a number already defined keeps its
\* definition.
TakeScanned ==
    /\ phase = "unpack" /\ file.rebuilt
    /\ \E i \in Least(pending) :
         LET n == Index[i].num
         IN  /\ noted' = noted \cup {n}
             /\ \/ /\ n = 0 \/ Defined(n)
                   /\ pending' = pending \ {i}
                   /\ UNCHANGED <<bad, left, objects, skipped>>
                \/ /\ n # 0 /\ ~Defined(n)
                   /\ ParseObjStmObject(n, i, i)
    /\ UNCHANGED <<file, phase, canceled, todo, open, broken>>

\* With the decoded bytes never returned.
ReturnedNever == 0

\* The decoded bytes are not kept: the meter has them back.
Returned == file.containers[open].size

\* With a container that supplied something let off.
BlamedWhenBarren == {c \in {open} : bad /\ \A n \in DOMAIN objects :
                        objects[n] = Top \/ objects[n][1] # c}

\* A container that could not supply one of its objects is broken.
Blamed == {c \in {open} : bad}

\* With one container's failure carried over to the next.
ForgottenNever == bad

Forgotten == FALSE

CloseObjStm ==
    /\ phase = "unpack" /\ pending = {}
    /\ left' = left + Returned
    /\ broken' = broken \cup Blamed
    /\ bad' = Forgotten
    /\ open' = 0
    /\ phase' = "next"
    /\ UNCHANGED <<file, canceled, todo, pending, objects, skipped, noted>>

Finish ==
    /\ phase = "next" /\ todo = {}
    /\ phase' = "loaded"
    /\ UNCHANGED <<file, canceled, todo, open, pending, bad, left, objects,
                   broken, skipped, noted>>

-----------------------------------------------------------------------------
Loader ==
    \/ OpenObjStm \/ Stop \/ TakePlaced \/ TakeScanned \/ CloseObjStm \/ Finish

\* A load that is over does nothing more.
Over == phase \in Final /\ UNCHANGED vars

Next == Loader \/ Cancel \/ Over

Spec == Init /\ [][Next]_vars

-----------------------------------------------------------------------------
(* Properties.                                                               *)

\* Every variable holds a value of its kind.
TypeOK ==
    /\ IsFile(file)
    /\ phase \in {"next", "unpack"} \cup Final
    /\ canceled \in BOOLEAN /\ bad \in BOOLEAN
    /\ todo \subseteq Nat /\ pending \subseteq Nat /\ open \in Nat
    /\ phase \in {"unpack", "refused"} => open \in DOMAIN file.containers
    /\ phase = "next" => open = 0 /\ pending = {} /\ ~bad
    /\ left \in Int
    /\ DOMAIN objects \subseteq Nat
    /\ \A n \in DOMAIN objects : objects[n] \in {Top} \cup (Nat \X Nat)
    /\ broken \subseteq Nat /\ noted \subseteq Nat
    /\ \A s \in skipped : s.num \in Nat
                          /\ s.reason \in {"locked", "total", "perStream", "unsupported"}

Entry(o) == file.containers[o[1]].index[o[2]]
Unpacked == {n \in DOMAIN objects : objects[n] # Top}

\* What the read holds of object streams, the container being unpacked
\* included, is never past the limit its caller set, however many containers
\* there are and whichever of them fail.
CostOf(entries) == MapThenSumSet(LAMBDA e : Entry(e).cost, entries)
Held ==
    CostOf({objects[n] : n \in Unpacked})
        + (IF phase = "unpack" THEN file.containers[open].size ELSE 0)
MemoryBounded == Held <= file.total

\* Whatever the table and the containers say, a number is only ever given the
\* object that an index names it.
RightObject ==
    \A n \in Unpacked : Entry(objects[n]).num = n

\* A loaded document lacks a compressed object only when the container that
\* holds it is on record as broken or skipped, which is what makes Write refuse
\* to emit a file without it.
NothingSilentlyMissing ==
    phase = "loaded" =>
        \A n \in DOMAIN file.placed \ {0} :
            n \in DOMAIN objects
            \/ file.placed[n].container \in broken \cup {s.num : s \in skipped}

\* A container is called broken only for what the file itself got wrong, never
\* for a limit of this read: a rule reports a broken one as malformed.
FilesFault(c) ==
    \/ c \notin DOMAIN file.containers
    \/ file.containers[c].data \in {"no stream", "malformed"}
    \/ \E n \in PlacedIn(c) :
         \/ file.placed[n].index \notin 1..Len(file.containers[c].index)
         \/ ~file.containers[c].index[file.placed[n].index].parses
BrokenIsFilesFault == \A c \in broken : FilesFault(c)

\* No object the read has is replaced by one it unpacks later.
DefinitionsKept ==
    [][\A n \in DOMAIN objects :
          n \in DOMAIN objects' /\ objects'[n] = objects[n]]_vars

\* The meter is for what is kept: when the objects and any one container fit
\* the limit together, nothing is skipped for want of room.
Material ==
    UNION {{<<c, i>> : i \in 1..Len(file.containers[c].index)} :
             c \in DOMAIN file.containers}
RoomIsEnough ==
    (\A c \in DOMAIN file.containers :
        CostOf(Material) + file.containers[c].size < file.total)
    => \A s \in skipped : s.reason # "total"

\* What makes these hold of every step: the objects still to take are the open
\* container's and not yet defined, no container is opened twice, a container in
\* trouble is so by the file's fault, and an object the table places is defined,
\* still to be taken, or accounted for by its container.
Supplying(n) ==
    /\ phase \in {"unpack", "refused"}
    /\ open = file.placed[n].container
    /\ n \in pending \/ bad

Accounted(n) ==
    \/ n \in DOMAIN objects
    \/ file.placed[n].container \in todo \cup broken \cup {s.num : s \in skipped}
    \/ Supplying(n)

LoadInv ==
    /\ bad => FilesFault(open)
    /\ phase = "unpack" =>
         /\ open \notin todo
         /\ pending \subseteq IF file.rebuilt
                              THEN 1..Len(Index)
                              ELSE PlacedIn(open) \ DOMAIN objects
    /\ \A c \in todo : PlacedIn(c) \cap DOMAIN objects = {}
    /\ phase = "loaded" => todo = {}
    /\ \A n \in DOMAIN file.placed \ {0} : Accounted(n)

\* The inductive invariant.
IInv == TypeOK /\ RightObject /\ BrokenIsFilesFault /\ LoadInv

\* The meter's account: what the read holds and what the meter has left are
\* together within the limit, and each object unpacked is an entry of an index.
Positioned(o) ==
    /\ o[1] \in DOMAIN file.containers
    /\ o[2] \in 1..Len(file.containers[o[1]].index)

MeterInv ==
    /\ IsFiniteSet(DOMAIN objects)
    /\ \A n \in Unpacked : Positioned(objects[n])
    /\ Held + left <= file.total
    /\ MemoryBounded

\* What materializeScannedObjStms says of the definitions it keeps: "a
\* top-level definition found by the scan is newer or equal in authority to a
\* compressed one".
TopLevelNewer ==
    phase = "loaded" /\ file.rebuilt =>
        \A n \in file.top : \A c \in DOMAIN file.containers :
            (\E i \in 1..Len(file.containers[c].index) :
                file.containers[c].index[i].num = n /\ n \in noted)
            => file.position[n] >= file.position[c]

=============================================================================
