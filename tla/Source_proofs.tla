------------------------------ MODULE Source_proofs ------------------------------
(***************************************************************************)
(* Proofs about what is read in the source file. First the object-stream    *)
(* loader of ObjStmLoad, for every set of files: any containers, any table, *)
(* any limits, and a context canceled at any moment. Then the revisions of  *)
(* SourceRevisions and the signatures of SignatureReview, for every base    *)
(* and any number of updates.                                               *)
(***************************************************************************)
EXTENDS ObjStmLoad, SignatureReview, FiniteSetTheorems, WellFoundedInduction, TLAPS

\* The table places no object the top level has, and places objects only in
\* numbers.
LEMMA FileFacts ==
    ASSUME IsFile(file)
    PROVE  /\ file.top \subseteq Nat
           /\ DOMAIN file.containers \subseteq Nat
           /\ DOMAIN file.placed \subseteq Nat \ file.top
           /\ \A n \in DOMAIN file.placed : file.placed[n].container \in Nat
           /\ \A c : PlacedIn(c) \subseteq DOMAIN file.placed
           /\ file.rebuilt => DOMAIN file.placed = {}
           /\ file.total \in Nat
BY DEF IsFile, PlacedIn

\* A container's verdict: opened only if it is there, broken only for the
\* file's fault, and otherwise one of the reasons a skip is recorded with.
LEMMA Verdicts ==
    ASSUME NEW c
    PROVE  /\ Verdict(c) = "opened" => c \in DOMAIN file.containers
           /\ Verdict(c) = "broken" => FilesFault(c)
           /\ Verdict(c) \notin {"opened", "broken"} =>
                Verdict(c) \in {"locked", "total", "perStream", "unsupported"}
BY DEF Verdict, FilesFault

\* An index entry is a record of the container's index.
LEMMA EntryType ==
    ASSUME IsFile(file), NEW c \in DOMAIN file.containers,
           NEW i \in 1..Len(file.containers[c].index)
    PROVE  /\ file.containers[c].index[i].num \in Nat
           /\ file.containers[c].index[i].cost \in Nat
           /\ i \in Nat
<1> DEFINE Item == [num : Nat, cost : Nat, parses : BOOLEAN]
<1>1. file.containers[c].index \in Seq(Item)
  BY DEF IsFile, IsContainer
<1>2. /\ file.containers[c].index[i] \in Item
      /\ i \in Nat
  <2> HIDE DEF Item
  <2>1. PICK idx \in Seq(Item) : idx = file.containers[c].index
    BY <1>1
  <2> QED
    BY <2>1
<1> QED
  BY <1>2

-----------------------------------------------------------------------------
(* The objects of one container.                                            *)

\* What taking one object changes: number n, at entry i of the open container,
\* becomes an object, or the container is in trouble.
LEMMA TakeOne ==
    ASSUME IInv, phase = "unpack",
           NEW n \in Nat, NEW i \in 1..Len(Index), NEW x,
           Index[i].num = n,
           ParseObjStmObject(n, i, x)
    PROVE  /\ left' \in Int
           /\ pending' \subseteq pending
           /\ bad' \in BOOLEAN
           /\ \/ objects' = objects
              \/ objects' = [m \in DOMAIN objects \cup {n} |->
                                IF m = n THEN <<open, i>> ELSE objects[m]]
           /\ \/ skipped' = skipped
              \/ skipped' = skipped \cup {[num |-> open, reason |-> "total"]}
           /\ bad' => bad \/ (~file.rebuilt /\ ~Index[i].parses)
           /\ bad => bad'
           /\ pending \ pending' \subseteq {x} \/ open \in {s.num : s \in skipped'}
           /\ x \in pending \ pending' =>
                \/ n \in DOMAIN objects'
                \/ open \in {s.num : s \in skipped'}
                \/ bad' \/ file.rebuilt
<1>1. /\ Index[i].cost \in Nat /\ left \in Int /\ bad \in BOOLEAN
      /\ open \in DOMAIN file.containers
  BY EntryType DEF IInv, TypeOK, Index
<1>2. file.rebuilt \in BOOLEAN
  BY DEF IInv, TypeOK, IsFile
<1>3. left' \in Int
  BY <1>1 DEF ParseObjStmObject
<1>4. CASE Index[i].cost > left /\ OverBudget
  <2>1. [num |-> open, reason |-> "total"].num = open
    OBVIOUS
  <2>2. open \in {s.num : s \in skipped'}
    BY <1>4, <2>1 DEF OverBudget
  <2> QED
    BY <1>1, <1>3, <1>4, <2>2 DEF OverBudget
<1>5. CASE /\ Index[i].parses
           /\ objects' = [m \in DOMAIN objects \cup {n} |->
                            IF m = n THEN <<open, i>> ELSE objects[m]]
           /\ pending' = pending \ {x}
           /\ UNCHANGED <<bad, skipped>>
  BY <1>1, <1>3, <1>5
<1>6. CASE /\ ~Index[i].parses
           /\ bad' = (bad \/ ~file.rebuilt)
           /\ pending' = pending \ {x}
           /\ UNCHANGED <<objects, skipped>>
  BY <1>1, <1>2, <1>3, <1>6
<1> QED
  BY <1>4, <1>5, <1>6 DEF ParseObjStmObject

-----------------------------------------------------------------------------
(* The invariant, one action at a time.                                     *)

LEMMA InitInv == Init => IInv
<1> SUFFICES ASSUME Init PROVE IInv
  OBVIOUS
<1>1. IsFile(file)
  BY FilesAssumption DEF Init
<1>2. \A n \in DOMAIN file.placed : file.placed[n].container \in Nat
  BY <1>1, FileFacts
<1>3. Unpacked = {} /\ broken = {} /\ skipped = {} /\ ~bad /\ phase = "next"
  BY DEF Init, Unpacked
<1>4. TypeOK
  <2>1. todo \subseteq Nat
    BY <1>1, <1>2, FileFacts DEF Init
  <2>2. DOMAIN objects \subseteq Nat /\ \A n \in DOMAIN objects : objects[n] = Top
    BY <1>1, FileFacts DEF Init
  <2>3. left \in Int
    <3>1. file.total \in Nat
      BY <1>1, FileFacts
    <3>2. left = file.total
      BY DEF Init
    <3> QED
      BY <3>1, <3>2
  <2>4. open = 0 /\ pending = {} /\ noted = {} /\ canceled = FALSE /\ bad = FALSE
    BY DEF Init
  <2> QED
    BY <1>1, <1>3, <2>1, <2>2, <2>3, <2>4 DEF TypeOK
<1>5. RightObject /\ BrokenIsFilesFault
  BY <1>3 DEF RightObject, BrokenIsFilesFault
<1>6. \A c : PlacedIn(c) \cap DOMAIN objects = {}
  BY <1>1, FileFacts DEF Init
<1>7. \A n \in DOMAIN file.placed \ {0} : file.placed[n].container \in todo
  BY <1>1, FileFacts DEF Init
<1>8. LoadInv
  BY <1>3, <1>6, <1>7 DEF LoadInv, Accounted
<1> QED
  BY <1>4, <1>5, <1>8 DEF IInv

\* Nothing but the phase, and whether the context is done, changes.
LEMMA Quiet ==
    ASSUME IInv,
           UNCHANGED <<file, todo, open, pending, bad, left, objects, broken,
                       skipped, noted>>,
           canceled' \in BOOLEAN,
           \/ phase' = phase
           \/ phase = "next" /\ phase' = "stopped"
           \/ phase = "next" /\ phase' = "loaded" /\ todo = {}
    PROVE  IInv'
<1>1. TypeOK'
  BY DEF IInv, TypeOK, Final
<1>2. RightObject'
  BY DEF IInv, RightObject, Unpacked, Entry
<1>3. BrokenIsFilesFault'
  BY DEF IInv, BrokenIsFilesFault, FilesFault, PlacedIn
<1>4. phase = "next" => ~bad
  BY DEF IInv, TypeOK
<1>5. \A n \in DOMAIN file.placed \ {0} : Accounted(n) => Accounted(n)'
  <2> SUFFICES ASSUME NEW n \in DOMAIN file.placed \ {0}, Accounted(n)
               PROVE  Accounted(n)'
    OBVIOUS
  <2>1. CASE Supplying(n)
    BY <2>1 DEF Supplying, Accounted
  <2>2. CASE ~Supplying(n)
    BY <2>2 DEF Accounted
  <2> QED
    BY <2>1, <2>2
<1>6. LoadInv'
  BY <1>4, <1>5 DEF IInv, LoadInv, FilesFault, PlacedIn, Index
<1> QED
  BY <1>1, <1>2, <1>3, <1>6 DEF IInv

LEMMA OpenInv == ASSUME IInv, OpenObjStm PROVE IInv'
<1> PICK c \in Least(todo) :
        /\ todo' = todo \ {c}
        /\ \/ /\ Verdict(c) = "opened"
              /\ phase' = "unpack"
              /\ open' = c
              /\ pending' = IF file.rebuilt
                            THEN 1..Len(file.containers[c].index)
                            ELSE PlacedIn(c)
              /\ left' = left - file.containers[c].size
              /\ noted' = IF file.rebuilt
                          THEN noted
                          ELSE noted \cup {file.containers[c].index[i].num :
                                             i \in 1..Len(file.containers[c].index)}
              /\ UNCHANGED <<broken, skipped>>
           \/ /\ Verdict(c) = "broken"
              /\ broken' = broken \cup {c}
              /\ UNCHANGED <<phase, open, pending, left, skipped, noted>>
           \/ /\ Verdict(c) \notin {"opened", "broken"}
              /\ skipped' = skipped \cup {[num |-> c, reason |-> Verdict(c)]}
              /\ UNCHANGED <<phase, open, pending, left, broken, noted>>
  BY DEF OpenObjStm
<1>1. /\ phase = "next" /\ ~bad /\ open = 0 /\ pending = {}
      /\ UNCHANGED <<file, canceled, bad, objects>>
      /\ c \in todo /\ c \in Nat
      /\ IsFile(file)
  BY DEF OpenObjStm, IInv, TypeOK, Least
<1>2. RightObject'
  BY <1>1 DEF IInv, RightObject, Unpacked, Entry
<1>3. \A d : PlacedIn(d)' = PlacedIn(d) /\ (FilesFault(d)' <=> FilesFault(d))
  BY <1>1 DEF PlacedIn, FilesFault
<1>4. \A n \in DOMAIN file.placed \ {0} :
         \/ n \in DOMAIN objects
         \/ file.placed[n].container \in todo \cup broken \cup {s.num : s \in skipped}
  BY <1>1 DEF IInv, LoadInv, Accounted, Supplying
<1>5. CASE Verdict(c) = "opened" /\ phase' = "unpack" /\ open' = c
           /\ pending' = (IF file.rebuilt
                            THEN 1..Len(file.containers[c].index)
                            ELSE PlacedIn(c))
           /\ left' = left - file.containers[c].size
           /\ noted' = (IF file.rebuilt
                          THEN noted
                          ELSE noted \cup {file.containers[c].index[i].num :
                                             i \in 1..Len(file.containers[c].index)})
           /\ UNCHANGED <<broken, skipped>>
  <2>1. c \in DOMAIN file.containers /\ IsContainer(file.containers[c])
    BY <1>1, <1>5, Verdicts DEF IsFile
  <2>2. \A i \in 1..Len(file.containers[c].index) :
           file.containers[c].index[i].num \in Nat
    BY <1>1, <2>1, EntryType
  <2>3. PlacedIn(c) \subseteq Nat
    BY <1>1, FileFacts
  <2>4. left \in Int /\ left' \in Int
    BY <1>5, <2>1 DEF IInv, TypeOK, IsContainer
  <2>5. pending' \subseteq Nat /\ noted' \subseteq Nat
    <3>1. 1..Len(file.containers[c].index) \subseteq Nat
      OBVIOUS
    <3>2. pending' \subseteq Nat
      BY <1>5, <2>3, <3>1
    <3>3. noted \subseteq Nat
      BY DEF IInv, TypeOK
    <3> QED
      BY <1>5, <2>2, <3>2, <3>3
  <2>6. TypeOK'
    BY <1>1, <1>5, <2>1, <2>4, <2>5 DEF IInv, TypeOK, Final
  <2>7. BrokenIsFilesFault'
    BY <1>3, <1>5 DEF IInv, BrokenIsFilesFault
  <2>8. \A n \in DOMAIN file.placed \ {0} : Accounted(n)'
    <3> SUFFICES ASSUME NEW n \in DOMAIN file.placed \ {0} PROVE Accounted(n)'
      OBVIOUS
    <3>1. CASE file.placed[n].container = c
      <4>1. n \in PlacedIn(c) /\ ~file.rebuilt
        BY <1>1, <3>1, FileFacts DEF PlacedIn
      <4> QED
        BY <1>1, <1>5, <3>1, <4>1 DEF Accounted, Supplying
    <3>2. CASE file.placed[n].container # c
      BY <1>1, <1>4, <1>5, <3>2 DEF Accounted
    <3> QED
      BY <3>1, <3>2
  <2>9. LoadInv'
    BY <1>1, <1>3, <1>5, <2>8 DEF IInv, LoadInv, Index
  <2> QED
    BY <1>2, <2>6, <2>7, <2>9 DEF IInv
<1>6. CASE Verdict(c) = "broken" /\ broken' = broken \cup {c}
           /\ UNCHANGED <<phase, open, pending, left, skipped, noted>>
  <2>1. TypeOK'
    BY <1>1, <1>6 DEF IInv, TypeOK, Final
  <2>2. BrokenIsFilesFault'
    BY <1>3, <1>6, Verdicts DEF IInv, BrokenIsFilesFault
  <2>3. \A n \in DOMAIN file.placed \ {0} : Accounted(n)'
    BY <1>1, <1>4, <1>6 DEF Accounted
  <2>4. LoadInv'
    BY <1>1, <1>3, <1>6, <2>3 DEF IInv, LoadInv
  <2> QED
    BY <1>2, <2>1, <2>2, <2>4 DEF IInv
<1>7. CASE Verdict(c) \notin {"opened", "broken"}
           /\ skipped' = skipped \cup {[num |-> c, reason |-> Verdict(c)]}
           /\ UNCHANGED <<phase, open, pending, left, broken, noted>>
  <2> DEFINE r == [num |-> c, reason |-> Verdict(c)]
  <2>1. r.num = c /\ r.reason \in {"locked", "total", "perStream", "unsupported"}
    BY <1>7, Verdicts
  <2>2. TypeOK'
    BY <1>1, <1>7, <2>1 DEF IInv, TypeOK, Final
  <2>3. BrokenIsFilesFault'
    BY <1>3, <1>7 DEF IInv, BrokenIsFilesFault
  <2>4. {s.num : s \in skipped'} = {s.num : s \in skipped} \cup {c}
    BY <1>7, <2>1
  <2>5. \A n \in DOMAIN file.placed \ {0} : Accounted(n)'
    BY <1>1, <1>4, <1>7, <2>4 DEF Accounted
  <2>6. LoadInv'
    BY <1>1, <1>3, <1>7, <2>5 DEF IInv, LoadInv
  <2> QED
    BY <1>2, <2>2, <2>3, <2>6 DEF IInv
<1> QED
  BY <1>5, <1>6, <1>7

LEMMA CloseInv == ASSUME IInv, CloseObjStm PROVE IInv'
<1>1. /\ phase = "unpack" /\ pending = {} /\ open \in DOMAIN file.containers
      /\ IsFile(file) /\ IsContainer(file.containers[open])
      /\ open \in Nat /\ left \in Int
      /\ bad' = FALSE /\ open' = 0 /\ phase' = "next"
      /\ broken' = broken \cup {c \in {open} : bad}
      /\ left' = left + file.containers[open].size
      /\ UNCHANGED <<file, canceled, todo, pending, objects, skipped, noted>>
  BY DEF CloseObjStm, IInv, TypeOK, IsFile, Blamed, Forgotten, Returned
<1>2. left' \in Int
  BY <1>1 DEF IsContainer
<1>3. TypeOK'
  BY <1>1, <1>2 DEF IInv, TypeOK, Final
<1>4. RightObject'
  BY <1>1 DEF IInv, RightObject, Unpacked, Entry
<1>5. \A d : PlacedIn(d)' = PlacedIn(d) /\ (FilesFault(d)' <=> FilesFault(d))
  BY <1>1 DEF PlacedIn, FilesFault
<1>6. BrokenIsFilesFault'
  BY <1>1, <1>5 DEF IInv, BrokenIsFilesFault, LoadInv
<1>7. \A n \in DOMAIN file.placed \ {0} : Accounted(n)'
  BY <1>1 DEF IInv, LoadInv, Accounted, Supplying
<1>8. LoadInv'
  BY <1>1, <1>5, <1>7 DEF IInv, LoadInv
<1> QED
  BY <1>3, <1>4, <1>6, <1>8 DEF IInv

\* What taking an object of the open container keeps, whichever loader does it.
LEMMA TakeKeeps ==
    ASSUME IInv, phase = "unpack",
           NEW n \in Nat, NEW i \in 1..Len(Index), NEW x,
           Index[i].num = n,
           ParseObjStmObject(n, i, x),
           ~file.rebuilt => x = n /\ n \in PlacedIn(open) /\ file.placed[n].index = i,
           UNCHANGED <<file, phase, canceled, todo, open, broken>>,
           noted' \subseteq Nat
    PROVE  IInv'
<1>1. /\ left' \in Int
      /\ pending' \subseteq pending
      /\ bad' \in BOOLEAN
      /\ \/ objects' = objects
         \/ objects' = [m \in DOMAIN objects \cup {n} |->
                           IF m = n THEN <<open, i>> ELSE objects[m]]
      /\ \/ skipped' = skipped
         \/ skipped' = skipped \cup {[num |-> open, reason |-> "total"]}
      /\ bad' => bad \/ (~file.rebuilt /\ ~Index[i].parses)
      /\ bad => bad'
      /\ pending \ pending' \subseteq {x} \/ open \in {s.num : s \in skipped'}
      /\ x \in pending \ pending' =>
           \/ n \in DOMAIN objects'
           \/ open \in {s.num : s \in skipped'}
           \/ bad' \/ file.rebuilt
  BY TakeOne
<1>2. /\ IsFile(file) /\ open \in Nat /\ i \in Nat
      /\ open \in DOMAIN file.containers
      /\ file.rebuilt => DOMAIN file.placed = {}
  BY FileFacts DEF IInv, TypeOK
<1>3. \A d : PlacedIn(d)' = PlacedIn(d) /\ (FilesFault(d)' <=> FilesFault(d))
  BY DEF PlacedIn, FilesFault
<1>4. /\ DOMAIN objects \subseteq DOMAIN objects'
      /\ \A m \in DOMAIN objects' :
           m = n \/ (m \in DOMAIN objects /\ objects'[m] = objects[m])
  BY <1>1
<1>5. DOMAIN objects' \subseteq DOMAIN objects \cup {n}
  BY <1>1
<1>6. TypeOK'
  <2>1. \A m \in DOMAIN objects' : objects'[m] \in {Top} \cup (Nat \X Nat)
    BY <1>1, <1>2 DEF IInv, TypeOK
  <2>2. DOMAIN objects' \subseteq Nat
    BY <1>1 DEF IInv, TypeOK
  <2>3. \A s \in skipped' : s.num \in Nat
                 /\ s.reason \in {"locked", "total", "perStream", "unsupported"}
    BY <1>1, <1>2 DEF IInv, TypeOK
  <2>4. phase' = "unpack" /\ pending' \subseteq Nat
    BY <1>1 DEF IInv, TypeOK
  <2> QED
    BY <1>1, <1>2, <2>1, <2>2, <2>3, <2>4 DEF IInv, TypeOK, Final
<1>7. RightObject'
  <2> SUFFICES ASSUME NEW m \in Unpacked' PROVE Entry(objects[m])'.num = m
    BY DEF RightObject
  <2>1. CASE objects' = objects
    BY <2>1 DEF IInv, RightObject, Unpacked, Entry
  <2>2. CASE objects' # objects /\ m = n
    BY <1>1, <2>2 DEF Entry, Index
  <2>3. CASE m # n
    <3>1. m \in DOMAIN objects' /\ objects'[m] # Top
      BY DEF Unpacked
    <3>2. m \in DOMAIN objects /\ objects'[m] = objects[m]
      BY <1>4, <2>3, <3>1
    <3>3. m \in Unpacked
      BY <3>1, <3>2 DEF Unpacked
    <3>4. Entry(objects[m]).num = m
      BY <3>3 DEF IInv, RightObject
    <3> QED
      BY <3>2, <3>4 DEF Entry
  <2> QED
    BY <2>1, <2>2, <2>3
<1>8. BrokenIsFilesFault'
  BY <1>3 DEF IInv, BrokenIsFilesFault
<1>9. bad' => FilesFault(open)
  <2>1. CASE bad
    BY <2>1 DEF IInv, LoadInv
  <2>2. CASE ~file.rebuilt /\ ~Index[i].parses
    BY <2>2 DEF FilesFault, Index
  <2> QED
    BY <1>1, <2>1, <2>2
<1>10. open \notin todo /\ \A c \in todo : n \notin PlacedIn(c) \/ file.rebuilt
  BY DEF IInv, LoadInv, PlacedIn
<1>11. ~file.rebuilt => pending' \subseteq PlacedIn(open) \ DOMAIN objects'
  <2> SUFFICES ASSUME ~file.rebuilt, NEW m \in pending'
               PROVE  m \in PlacedIn(open) /\ m \notin DOMAIN objects'
    OBVIOUS
  <2>1. m \in PlacedIn(open) /\ m \notin DOMAIN objects
    BY <1>1 DEF IInv, LoadInv
  <2>2. n \notin pending' \/ objects' = objects
    BY DEF ParseObjStmObject, OverBudget
  <2> QED
    BY <1>5, <2>1, <2>2
<1>12. \A c \in todo : PlacedIn(c) \cap DOMAIN objects' = {}
  <2>1. file.rebuilt => \A c : PlacedIn(c) = {}
    BY <1>2, FileFacts
  <2> QED
    BY <1>5, <1>10, <2>1 DEF IInv, LoadInv
<1>13. \A m \in DOMAIN file.placed \ {0} : Accounted(m)'
  <2> SUFFICES ASSUME NEW m \in DOMAIN file.placed \ {0} PROVE Accounted(m)'
    OBVIOUS
  <2>1. Accounted(m) /\ ~file.rebuilt
    BY <1>2 DEF IInv, LoadInv
  <2>2. {s.num : s \in skipped} \subseteq {s.num : s \in skipped'}
    BY <1>1
  <2>3. CASE \/ m \in DOMAIN objects
             \/ file.placed[m].container \in todo \cup broken \cup {s.num : s \in skipped}
    BY <1>4, <2>2, <2>3 DEF Accounted
  <2>4. CASE Supplying(m)
    <3>1. open = file.placed[m].container /\ (m \in pending \/ bad)
      BY <2>4 DEF Supplying
    <3>2. CASE bad \/ m \in pending'
      BY <1>1, <3>1, <3>2 DEF Accounted, Supplying
    <3>3. CASE m \in pending \ pending'
      <4>1. m = n \/ open \in {s.num : s \in skipped'}
        BY <1>1, <2>1, <3>3
      <4> QED
        BY <1>1, <2>1, <3>1, <3>3, <4>1 DEF Accounted, Supplying
    <3> QED
      BY <3>1, <3>2, <3>3
  <2> QED
    BY <2>1, <2>3, <2>4 DEF Accounted
<1>14. file.rebuilt => pending' \subseteq 1..Len(Index)
  BY <1>1 DEF IInv, LoadInv
<1>15. LoadInv'
  BY <1>3, <1>9, <1>10, <1>11, <1>12, <1>13, <1>14 DEF LoadInv, Index
<1> QED
  BY <1>6, <1>7, <1>8, <1>15 DEF IInv

\* What passing over one object of the open container keeps: it is already
\* defined, or it is past the end of the index.
LEMMA PassKeeps ==
    ASSUME IInv, phase = "unpack",
           UNCHANGED <<file, phase, canceled, todo, open, broken, left, objects,
                       skipped>>,
           noted' \subseteq Nat, pending' \subseteq pending, bad' \in BOOLEAN,
           bad => bad',
           bad' => FilesFault(open),
           file.rebuilt \/ pending' = pending \/ bad'
    PROVE  IInv'
<1>1. TypeOK'
  BY DEF IInv, TypeOK, Final
<1>2. RightObject'
  BY DEF IInv, RightObject, Unpacked, Entry
<1>3. \A d : PlacedIn(d)' = PlacedIn(d) /\ (FilesFault(d)' <=> FilesFault(d))
  BY DEF PlacedIn, FilesFault
<1>4. BrokenIsFilesFault'
  BY <1>3 DEF IInv, BrokenIsFilesFault
<1>5. file.rebuilt => DOMAIN file.placed = {}
  BY FileFacts DEF IInv, TypeOK
<1>6. \A n \in DOMAIN file.placed \ {0} : Accounted(n)'
  BY <1>5 DEF IInv, LoadInv, Accounted, Supplying
<1>7. LoadInv'
  BY <1>3, <1>6 DEF IInv, LoadInv, Index
<1> QED
  BY <1>1, <1>2, <1>4, <1>7 DEF IInv

LEMMA TakeScannedInv == ASSUME IInv, TakeScanned PROVE IInv'
<1> PICK i \in Least(pending) :
        LET n == Index[i].num
        IN  /\ noted' = noted \cup {n}
            /\ \/ /\ n = 0 \/ Defined(n)
                  /\ pending' = pending \ {i}
                  /\ UNCHANGED <<bad, left, objects, skipped>>
               \/ /\ n # 0 /\ ~Defined(n)
                  /\ ParseObjStmObject(n, i, i)
  BY DEF TakeScanned
<1> DEFINE n == Index[i].num
<1>1. /\ phase = "unpack" /\ file.rebuilt
      /\ UNCHANGED <<file, phase, canceled, todo, open, broken>>
  BY DEF TakeScanned
<1>2. /\ IsFile(file) /\ open \in DOMAIN file.containers
      /\ i \in 1..Len(Index)
  BY <1>1 DEF IInv, TypeOK, LoadInv, Least
<1>3. n \in Nat
  BY <1>2, EntryType DEF Index
<1>4. noted' \subseteq Nat
  BY <1>3 DEF IInv, TypeOK
<1>5. CASE pending' = pending \ {i} /\ UNCHANGED <<bad, left, objects, skipped>>
  <2>1. bad \in BOOLEAN /\ (bad => FilesFault(open))
    BY DEF IInv, TypeOK, LoadInv
  <2> QED
    BY <1>1, <1>4, <1>5, <2>1, PassKeeps
<1>6. CASE ParseObjStmObject(n, i, i)
  BY <1>1, <1>2, <1>3, <1>4, <1>6, TakeKeeps
<1> QED
  BY <1>5, <1>6

LEMMA TakePlacedInv == ASSUME IInv, TakePlaced PROVE IInv'
<1> PICK n \in Least(pending) :
        LET i == file.placed[n].index
        IN  \/ /\ i \notin 1..Len(Index)
               /\ bad' = TRUE
               /\ pending' = pending \ {n}
               /\ UNCHANGED <<phase, left, objects, skipped>>
            \/ /\ i \in 1..Len(Index) /\ Disagrees(n, i)
               /\ phase' = "refused"
               /\ UNCHANGED <<pending, bad, left, objects, skipped>>
            \/ /\ i \in 1..Len(Index) /\ ~Disagrees(n, i)
               /\ ParseObjStmObject(n, i, n)
               /\ UNCHANGED phase
  BY DEF TakePlaced
<1> DEFINE i == file.placed[n].index
<1>1. /\ phase = "unpack" /\ ~file.rebuilt
      /\ UNCHANGED <<file, canceled, todo, open, broken, noted>>
  BY DEF TakePlaced
<1>2. /\ IsFile(file) /\ open \in DOMAIN file.containers /\ noted \subseteq Nat
      /\ n \in pending /\ n \in Nat /\ n \in PlacedIn(open)
  BY <1>1 DEF IInv, TypeOK, LoadInv, Least
<1>3. CASE /\ i \notin 1..Len(Index)
           /\ bad' = TRUE
           /\ pending' = pending \ {n}
           /\ UNCHANGED <<phase, left, objects, skipped>>
  <2>1. FilesFault(open)
    BY <1>2, <1>3 DEF FilesFault, Index
  <2> QED
    BY <1>1, <1>2, <1>3, <2>1, PassKeeps
<1>4. CASE phase' = "refused" /\ UNCHANGED <<pending, bad, left, objects, skipped>>
  <2>1. TypeOK'
    BY <1>1, <1>4 DEF IInv, TypeOK, Final
  <2>2. RightObject'
    BY <1>1, <1>4 DEF IInv, RightObject, Unpacked, Entry
  <2>3. BrokenIsFilesFault'
    BY <1>1, <1>4 DEF IInv, BrokenIsFilesFault, FilesFault, PlacedIn
  <2>4. \A m \in DOMAIN file.placed \ {0} : Accounted(m)'
    BY <1>1, <1>4 DEF IInv, LoadInv, Accounted, Supplying
  <2>5. LoadInv'
    BY <1>1, <1>4, <2>4 DEF IInv, LoadInv, FilesFault, PlacedIn
  <2> QED
    BY <2>1, <2>2, <2>3, <2>5 DEF IInv
<1>5. CASE /\ i \in 1..Len(Index) /\ ~Disagrees(n, i)
           /\ ParseObjStmObject(n, i, n)
           /\ UNCHANGED phase
  <2>1. Index[i].num = n
    BY <1>5 DEF Disagrees
  <2> QED
    BY <1>1, <1>2, <1>5, <2>1, TakeKeeps
<1> QED
  BY <1>3, <1>4, <1>5

LEMMA NextInv == ASSUME IInv, [Next]_vars PROVE IInv'
<1>1. canceled \in BOOLEAN
  BY DEF IInv, TypeOK
<1>2. CASE Cancel
  BY <1>2, Quiet DEF Cancel
<1>3. CASE Stop
  BY <1>1, <1>3, Quiet DEF Stop
<1>4. CASE Finish
  BY <1>1, <1>4, Quiet DEF Finish
<1>5. CASE Over \/ UNCHANGED vars
  BY <1>1, <1>5, Quiet DEF Over, vars
<1>6. CASE OpenObjStm
  BY <1>6, OpenInv
<1>7. CASE TakePlaced
  BY <1>7, TakePlacedInv
<1>8. CASE TakeScanned
  BY <1>8, TakeScannedInv
<1>9. CASE CloseObjStm
  BY <1>9, CloseInv
<1> QED
  BY <1>2, <1>3, <1>4, <1>5, <1>6, <1>7, <1>8, <1>9 DEF Next, Loader

-----------------------------------------------------------------------------
(* Sums over finite sets, by induction.                                      *)

\* What holds of the empty set, and of a set when it holds of it without one of
\* its elements, holds of every finite set.
LEMMA FiniteInduction ==
    ASSUME NEW U, IsFiniteSet(U), NEW G, {} \in G,
           \A V \in SUBSET U :
              V # {} /\ (\A v \in V : V \ {v} \in G) => V \in G
    PROVE  U \in G
<1> SUFFICES ASSUME U \notin G PROVE FALSE
  OBVIOUS
<1> DEFINE R == StrictSubsetOrdering(U)
           T == {V \in FiniteSubsetsOf(U) : V \notin G}
<1>1. IsWellFoundedOn(R, FiniteSubsetsOf(U))
  BY FS_StrictSubsetOrderingWellFounded
<1>2. U \in T /\ T \subseteq FiniteSubsetsOf(U)
  BY DEF FiniteSubsetsOf
<1>3. PICK V \in T : \A W \in T : ~ (<<W, V>> \in R)
  <2> HIDE DEF R, T
  <2> QED
    BY <1>1, <1>2, WFMin
<1>4. /\ V \subseteq U /\ IsFiniteSet(V) /\ V \notin G
  BY <1>3 DEF FiniteSubsetsOf
<1>5. ASSUME NEW v \in V
      PROVE  V \ {v} \in G
  <2>1. V \ {v} \in FiniteSubsetsOf(U)
    BY <1>4, FS_Subset DEF FiniteSubsetsOf
  <2>2. <<V \ {v}, V>> \in R
    BY <1>4 DEF StrictSubsetOrdering
  <2> QED
    BY <1>3, <2>1, <2>2
<1>6. V # {}
  BY <1>4
<1> QED
  BY <1>4, <1>5, <1>6

\* g gives every subset of V the sum of the weights of its elements.
Sums(g, w, V) ==
    /\ g \in [SUBSET V -> Nat]
    /\ g[{}] = 0
    /\ \A T \in SUBSET V : \A x \in T : g[T] = w[x] + g[T \ {x}]

\* The elements of a finite set can be added up in any order.
LEMMA SumsExist ==
    ASSUME NEW U, IsFiniteSet(U), NEW w \in [U -> Nat]
    PROVE  \E g : Sums(g, w, U)
<1> DEFINE G == {V \in SUBSET U : \E g : Sums(g, w, V)}
<1>1. {} \in G
  <2>1. Sums([T \in SUBSET {} |-> 0], w, {})
    BY DEF Sums
  <2> QED
    BY <2>1
<1>2. ASSUME NEW V \in SUBSET U, V # {}, \A v \in V : V \ {v} \in G
      PROVE  V \in G
  <2> PICK v \in V : V \ {v} \in G
    BY <1>2
  <2>1. PICK g : Sums(g, w, V \ {v})
    BY <1>2
  <2> DEFINE h == [T \in SUBSET V |-> IF v \in T THEN w[v] + g[T \ {v}] ELSE g[T]]
  <2>2. w[v] \in Nat /\ g \in [SUBSET (V \ {v}) -> Nat] /\ g[{}] = 0
    BY <2>1 DEF Sums
  <2>3. \A T \in SUBSET V : T \ {v} \in SUBSET (V \ {v}) /\ (v \notin T => T \in SUBSET (V \ {v}))
    OBVIOUS
  <2>4. \A T \in SUBSET V : h[T] \in Nat
    BY <2>2, <2>3
  <2>5. ASSUME NEW T \in SUBSET V, NEW x \in T
        PROVE  h[T] = w[x] + h[T \ {x}]
    <3>1. T \ {x} \in SUBSET V
      OBVIOUS
    <3>2. CASE x = v
      BY <3>1, <3>2
    <3>3. CASE x # v /\ v \in T
      <4>1. T \ {v} \in SUBSET (V \ {v}) /\ x \in T \ {v}
        BY <3>3
      <4>2. g[T \ {v}] = w[x] + g[(T \ {v}) \ {x}]
        BY <2>1, <4>1 DEF Sums
      <4>3. (T \ {v}) \ {x} = (T \ {x}) \ {v}
        OBVIOUS
      <4>4. h[T] = w[v] + g[T \ {v}] /\ h[T \ {x}] = w[v] + g[(T \ {x}) \ {v}]
        BY <3>1, <3>3
      <4>5. g[(T \ {x}) \ {v}] \in Nat /\ w[x] \in Nat
        BY <2>2, <3>1, <4>1
      <4>6. h[T] = w[v] + (w[x] + g[(T \ {x}) \ {v}])
        BY <4>2, <4>3, <4>4
      <4> HIDE DEF h
      <4> QED
        BY <2>2, <4>4, <4>5, <4>6
    <3>4. CASE v \notin T
      <4>1. h[T] = g[T] /\ h[T \ {x}] = g[T \ {x}]
        BY <3>1, <3>4
      <4> QED
        BY <2>1, <3>4, <4>1 DEF Sums
    <3> QED
      BY <3>2, <3>3, <3>4
  <2>6. Sums(h, w, V)
    <3>1. h \in [SUBSET V -> Nat]
      BY <2>4
    <3>2. h[{}] = 0
      BY <2>2
    <3> HIDE DEF h
    <3> QED
      BY <2>5, <3>1, <3>2 DEF Sums
  <2> QED
    BY <2>6
<1>3. U \in G
  <2> HIDE DEF G
  <2> QED
    BY <1>1, <1>2, FiniteInduction
<1> QED
  BY <1>3

\* The fold CostOf stands for.
Fold(S) ==
    CHOOSE f : f = [s \in SUBSET S |->
                       IF s = {} THEN 0
                       ELSE Entry(CHOOSE x \in s : TRUE).cost
                              + f[s \ {CHOOSE x \in s : TRUE}]]

\* CostOf adds up the costs of the entries it is given.
LEMMA CostIsSum ==
    ASSUME NEW U, IsFiniteSet(U), NEW g, Sums(g, [e \in U |-> Entry(e).cost], U)
    PROVE  \A E \in SUBSET U : CostOf(E) = g[E]
<1> SUFFICES ASSUME NEW E \in SUBSET U PROVE CostOf(E) = g[E]
  OBVIOUS
<1> DEFINE one(s) == CHOOSE x \in s : TRUE
           F(f) == [s \in SUBSET E |->
                       IF s = {} THEN 0 ELSE Entry(one(s)).cost + f[s \ {one(s)}]]
           h == [s \in SUBSET E |-> g[s]]
           f0 == Fold(E)
<1>1. IsFiniteSet(E)
  BY FS_Subset
<1>2. \A s \in SUBSET E : s # {} => one(s) \in s /\ s \ {one(s)} \in SUBSET E
  OBVIOUS
<1>3. h = F(h)
  <2>1. ASSUME NEW s \in SUBSET E, s # {}
        PROVE  h[s] = Entry(one(s)).cost + h[s \ {one(s)}]
    <3>1. one(s) \in s /\ one(s) \in U /\ s \in SUBSET U /\ s \ {one(s)} \in SUBSET E
      BY <1>2, <2>1
    <3> HIDE DEF one
    <3>2. g[s] = [e \in U |-> Entry(e).cost][one(s)] + g[s \ {one(s)}]
      BY <3>1 DEF Sums
    <3> QED
      BY <3>1, <3>2
  <2>2. h[{}] = 0
    BY DEF Sums
  <2> HIDE DEF one
  <2> QED
    BY <2>1, <2>2
<1>4. f0 = F(f0)
  BY <1>3 DEF Fold
<1>5. CostOf(E) = f0[E]
  BY DEF CostOf, MapThenSumSet, MapThenFoldSet, Fold
<1> DEFINE G == {s \in SUBSET E : f0[s] = h[s]}
<1>6. {} \in G
  <2> HIDE DEF f0, h
  <2> QED BY <1>3, <1>4
<1>7. ASSUME NEW s \in SUBSET E, s # {}, \A x \in s : s \ {x} \in G
      PROVE  s \in G
  <2> HIDE DEF f0, h
  <2>1. s # {} /\ one(s) \in s /\ s \ {one(s)} \in G
    BY <1>2, <1>7
  <2> HIDE DEF one
  <2>2. f0[s] = Entry(one(s)).cost + f0[s \ {one(s)}]
    BY <1>4, <2>1
  <2>3. h[s] = Entry(one(s)).cost + h[s \ {one(s)}]
    BY <1>3, <2>1
  <2> QED
    BY <2>1, <2>2, <2>3
<1>8. E \in G
  <2> HIDE DEF G
  <2> QED
    BY <1>1, <1>6, <1>7, FiniteInduction
<1> QED
  BY <1>5, <1>8

-----------------------------------------------------------------------------
(* The meter's account.                                                      *)

\* An entry an object came from has a cost.
LEMMA PositionedCosts ==
    ASSUME IsFile(file), NEW e, Positioned(e)
    PROVE  Entry(e).cost \in Nat
BY EntryType DEF Positioned, Entry

\* An object more costs at most what its entry does.
LEMMA CostGrows ==
    ASSUME IsFile(file), NEW E, IsFiniteSet(E), \A x \in E : Positioned(x),
           NEW e, Positioned(e)
    PROVE  /\ CostOf(E) \in Nat
           /\ CostOf(E \cup {e}) \in Nat
           /\ CostOf(E \cup {e}) <= CostOf(E) + Entry(e).cost
<1> DEFINE U == E \cup {e}
           w == [x \in U |-> Entry(x).cost]
<1>1. IsFiniteSet(U)
  BY FS_AddElement
<1>2. w \in [U -> Nat]
  BY PositionedCosts
<1>3. PICK g : Sums(g, w, U)
  <2> HIDE DEF U, w
  <2> QED
    BY <1>1, <1>2, SumsExist
<1>4. \A T \in SUBSET U : CostOf(T) = g[T]
  <2> HIDE DEF U
  <2> QED
    BY <1>1, <1>3, CostIsSum
<1>5. /\ CostOf(E) = g[E] /\ CostOf(U) = g[U]
      /\ g[E] \in Nat /\ g[U] \in Nat
  BY <1>3, <1>4 DEF Sums
<1>6. CASE e \in E
  <2>1. E \cup {e} = E
    BY <1>6
  <2>2. CostOf(E) \in Nat /\ Entry(e).cost \in Nat
    BY <1>5, PositionedCosts
  <2>3. CostOf(E \cup {e}) = CostOf(E)
    BY <2>1, Zenon
  <2> QED
    BY <2>2, <2>3
<1>7. CASE e \notin E
  <2>1. U \ {e} = E /\ e \in U
    BY <1>7
  <2>2. g[U] = w[e] + g[U \ {e}]
    BY <1>3, <2>1 DEF Sums
  <2>3. w[e] = Entry(e).cost /\ Entry(e).cost \in Nat
    BY PositionedCosts
  <2> HIDE DEF U, w
  <2> QED
    BY <1>5, <2>1, <2>2, <2>3
<1> QED
  BY <1>6, <1>7

\* What a finite set of entries costs is a number, and none cost nothing.
LEMMA CostIsNat ==
    ASSUME IsFile(file), NEW E, IsFiniteSet(E), \A x \in E : Positioned(x)
    PROVE  CostOf(E) \in Nat
<1> DEFINE w == [x \in E |-> Entry(x).cost]
<1>1. w \in [E -> Nat]
  BY PositionedCosts
<1>2. PICK g : Sums(g, w, E)
  <2> HIDE DEF w
  <2> QED
    BY <1>1, SumsExist
<1>3. CostOf(E) = g[E]
  BY <1>2, CostIsSum
<1> QED
  BY <1>2, <1>3 DEF Sums

LEMMA NothingCosts == CostOf({}) = 0
<1>1. PICK g : Sums(g, [x \in {} |-> Entry(x).cost], {})
  <2>1. [x \in {} |-> Entry(x).cost] \in [{} -> Nat]
    OBVIOUS
  <2> QED
    BY <2>1, FS_EmptySet, SumsExist
<1>2. g[{}] = 0
  BY <1>1 DEF Sums
<1>3. \A E \in SUBSET {} : CostOf(E) = g[E]
  BY <1>1, FS_EmptySet, CostIsSum
<1> QED
  BY <1>2, <1>3

\* The entries the unpacked objects came from.
UnpackedEntries == {objects[n] : n \in Unpacked}

\* What is held costs the same as long as neither it nor the file changes.
LEMMA HeldStays ==
    ASSUME UNCHANGED <<file, objects>>
    PROVE  CostOf(UnpackedEntries)' = CostOf(UnpackedEntries)
BY DEF CostOf, MapThenSumSet, MapThenFoldSet, Entry, UnpackedEntries, Unpacked


\* They are finitely many.
LEMMA EntriesFinite ==
    ASSUME MeterInv
    PROVE  IsFiniteSet(UnpackedEntries)
<1>1. IsFiniteSet(Unpacked)
  BY FS_Subset DEF MeterInv, Unpacked
<1>2. IsFiniteSet({objects[m] : m \in Unpacked})
  <2> DEFINE f == [m \in Unpacked |-> objects[m]]
  <2>1. f \in [Unpacked -> {objects[m] : m \in Unpacked}]
    OBVIOUS
  <2>2. \A o \in {objects[m] : m \in Unpacked} : \E m \in Unpacked : f[m] = o
    OBVIOUS
  <2> HIDE DEF f
  <2> QED
    BY <1>1, <2>1, <2>2, FS_Surjection DEF Surjection
<1> QED
  BY <1>2 DEF UnpackedEntries

\* The account of one object taken, whichever loader takes it.
LEMMA TakeAccount ==
    ASSUME IInv, MeterInv, phase = "unpack",
           NEW n \in Nat, NEW i \in 1..Len(Index), NEW x,
           ParseObjStmObject(n, i, x),
           n \notin DOMAIN objects,
           UNCHANGED <<file, phase, open>>
    PROVE  MeterInv'
<1> DEFINE cost == Index[i].cost
           size == file.containers[open].size
           E == UnpackedEntries
<1>1. /\ IsFile(file) /\ open \in DOMAIN file.containers
      /\ left \in Int /\ file.total \in Nat
  BY FileFacts DEF IInv, TypeOK
<1>2. cost \in Nat /\ size \in Nat /\ i \in Nat
  BY <1>1, EntryType DEF Index, IsFile, IsContainer
<1>3. left' = left - cost
  BY DEF ParseObjStmObject
<1>4. IsFiniteSet(E) /\ \A o \in E : Positioned(o)
  <2> QED
    BY EntriesFinite DEF MeterInv, UnpackedEntries
<1>5. Held = CostOf(E) + size
  BY DEF Held, UnpackedEntries
<1>6. CostOf(E) \in Nat
  BY <1>1, <1>4, NothingCosts, CostIsNat
<1>10. Held \in Nat /\ Held + left <= file.total
  BY <1>2, <1>5, <1>6 DEF MeterInv
<1>7. CASE objects' = objects
  <2>1. Held' = Held
    BY <1>5, <1>7, HeldStays DEF Held, UnpackedEntries
  <2>2. Held + left' <= file.total
    <3> HIDE DEF E, cost, size
    <3> QED
      BY <1>1, <1>2, <1>3, <1>10
  <2>3. \A m \in Unpacked' : Positioned(objects[m])'
    BY <1>7 DEF MeterInv, Unpacked, Positioned
  <2> QED
    BY <1>7, <2>1, <2>2, <2>3 DEF MeterInv, MemoryBounded
<1>8. CASE /\ cost <= left
           /\ objects' = [m \in DOMAIN objects \cup {n} |->
                            IF m = n THEN <<open, i>> ELSE objects[m]]
  <2> DEFINE e == <<open, i>>
  <2>1. e # Top
    BY <1>1, <1>2, FileFacts, TopAssumption
  <2>2. Unpacked' = Unpacked \cup {n}
    BY <1>8, <2>1 DEF Unpacked
  <2>3. UnpackedEntries' = E \cup {e}
    <3>1. \A m \in Unpacked : objects'[m] = objects[m]
      BY <1>8 DEF Unpacked
    <3>2. objects'[n] = e
      BY <1>8
    <3>3. UnpackedEntries' = {objects'[m] : m \in Unpacked'}
      BY DEF UnpackedEntries
    <3> QED
      BY <2>2, <3>1, <3>2, <3>3 DEF UnpackedEntries
  <2>4. Positioned(e) /\ Entry(e).cost = cost
    BY <1>1 DEF Positioned, Entry, Index
  <2>5. /\ CostOf(E \cup {e}) \in Nat
        /\ CostOf(E \cup {e}) <= CostOf(E) + cost
    <3> HIDE DEF e, E, cost
    <3> QED
      BY <1>1, <1>4, <2>4, CostGrows
  <2>6. CostOf(UnpackedEntries)' = CostOf(E \cup {e})
    BY <2>3 DEF CostOf, MapThenSumSet, MapThenFoldSet, Entry
  <2>7. Held' = CostOf(E \cup {e}) + size
    BY <2>6 DEF Held, UnpackedEntries
  <2>8. Held' + left' <= file.total /\ Held' <= file.total
    <3> DEFINE c0 == CostOf(E)
               c1 == CostOf(E \cup {e})
    <3>1. /\ c0 \in Nat /\ c1 \in Nat /\ c1 <= c0 + cost
          /\ Held = c0 + size /\ Held' = c1 + size
          /\ cost <= left
      BY <1>5, <1>6, <1>8, <2>5, <2>7
    <3> HIDE DEF c0, c1, e, E, cost, size
    <3> QED
      BY <1>1, <1>2, <1>3, <1>10, <3>1
  <2>9. IsFiniteSet(DOMAIN objects')
    BY <1>8, FS_AddElement DEF MeterInv
  <2>10. \A m \in Unpacked' : Positioned(objects[m])'
    BY <1>8, <2>2, <2>4 DEF MeterInv, Unpacked, Positioned
  <2> QED
    BY <2>8, <2>9, <2>10 DEF MeterInv, MemoryBounded
<1> QED
  BY <1>7, <1>8 DEF ParseObjStmObject, OverBudget

LEMMA MeterInit == Init => MeterInv
<1> SUFFICES ASSUME Init PROVE MeterInv
  OBVIOUS
<1>1. IsFile(file) /\ Unpacked = {} /\ phase = "next" /\ left = file.total
  BY FilesAssumption DEF Init, Unpacked
<1>2. UnpackedEntries = {}
  BY <1>1 DEF UnpackedEntries
<1>3. CostOf(UnpackedEntries) = 0
  BY <1>2, NothingCosts, Zenon
<1>4. IsFiniteSet(DOMAIN objects) /\ file.total \in Nat
  BY <1>1 DEF Init, IsFile
<1> QED
  BY <1>1, <1>3, <1>4 DEF MeterInv, MemoryBounded, Held, UnpackedEntries

LEMMA MeterNext == ASSUME IInv, MeterInv, [Next]_vars PROVE MeterInv'
<1>1. /\ IsFile(file) /\ left \in Int /\ file.total \in Nat
      /\ phase = "unpack" => open \in DOMAIN file.containers
  BY FileFacts DEF IInv, TypeOK
<1>2. CostOf(UnpackedEntries) \in Nat
  <2>1. IsFiniteSet(UnpackedEntries) /\ \A o \in UnpackedEntries : Positioned(o)
    BY EntriesFinite DEF MeterInv, UnpackedEntries
  <2> QED
    BY <1>1, <2>1, CostIsNat
<1>3. \A c \in DOMAIN file.containers : file.containers[c].size \in Nat
  BY <1>1 DEF IsFile, IsContainer
<1>4. ASSUME UNCHANGED <<file, objects>>,
             Held' + left' <= file.total, Held' <= file.total
      PROVE  MeterInv'
  BY <1>4 DEF MeterInv, MemoryBounded, Unpacked, Positioned
<1>5. ASSUME UNCHANGED <<file, objects>>
      PROVE  Held' = CostOf(UnpackedEntries)
                 + (IF phase' = "unpack" THEN file.containers[open'].size ELSE 0)
  BY <1>5, HeldStays DEF Held, UnpackedEntries
<1>6. /\ Held = CostOf(UnpackedEntries)
                 + (IF phase = "unpack" THEN file.containers[open].size ELSE 0)
      /\ Held + left <= file.total /\ Held <= file.total
  BY DEF Held, UnpackedEntries, MeterInv, MemoryBounded
<1>7. ASSUME UNCHANGED <<file, objects, left>>,
             UNCHANGED <<phase, open>> \/ phase' # "unpack"
      PROVE  MeterInv'
  BY <1>1, <1>2, <1>3, <1>4, <1>5, <1>6, <1>7
<1>8. CASE Cancel \/ Stop \/ Finish \/ Over \/ UNCHANGED vars
  BY <1>7, <1>8 DEF Cancel, Stop, Finish, Over, vars
<1>9. CASE OpenObjStm
  <2> PICK c \in Least(todo) :
         \/ /\ Verdict(c) = "opened"
            /\ phase' = "unpack"
            /\ open' = c
            /\ left' = left - file.containers[c].size
         \/ UNCHANGED <<phase, open, left>>
    BY <1>9 DEF OpenObjStm
  <2>1. UNCHANGED <<file, objects>> /\ phase = "next"
    BY <1>9 DEF OpenObjStm
  <2>2. CASE UNCHANGED <<phase, open, left>>
    BY <1>7, <2>1, <2>2
  <2>3. CASE /\ Verdict(c) = "opened" /\ phase' = "unpack" /\ open' = c
             /\ left' = left - file.containers[c].size
    <3>1. c \in DOMAIN file.containers
      BY <2>3, Verdicts
    <3>2. ~(file.containers[c].size > Reach)
      BY <2>3, <3>1 DEF Verdict
    <3>3. file.perStream \in Nat /\ file.containers[c].size \in Nat
      BY <1>1, <1>3, <3>1 DEF IsFile
    <3>4. file.containers[c].size <= left
      BY <1>1, <3>2, <3>3 DEF Reach
    <3> QED
      BY <1>1, <1>2, <1>3, <1>4, <1>5, <1>6, <2>1, <2>3, <3>1, <3>4
  <2> QED
    BY <2>2, <2>3
<1>10. CASE CloseObjStm
  <2>1. /\ UNCHANGED <<file, objects>> /\ phase = "unpack" /\ phase' = "next"
        /\ left' = left + file.containers[open].size
    BY <1>10 DEF CloseObjStm, Returned
  <2> QED
    BY <1>1, <1>2, <1>3, <1>4, <1>5, <1>6, <2>1
<1>11. CASE TakePlaced
  <2> PICK n \in Least(pending) :
        LET i == file.placed[n].index
        IN  \/ UNCHANGED <<phase, left, objects>>
            \/ phase' = "refused" /\ UNCHANGED <<left, objects>>
            \/ /\ i \in 1..Len(Index)
               /\ ParseObjStmObject(n, i, n)
               /\ UNCHANGED phase
    BY <1>11 DEF TakePlaced
  <2>1. UNCHANGED <<file, open>> /\ phase = "unpack" /\ ~file.rebuilt
    BY <1>11 DEF TakePlaced
  <2>2. n \in Nat /\ n \notin DOMAIN objects
    BY <2>1 DEF Least, IInv, TypeOK, LoadInv
  <2> QED
    BY <1>7, <2>1, <2>2, TakeAccount
<1>12. CASE TakeScanned
  <2> PICK i \in Least(pending) :
        \/ UNCHANGED <<left, objects>>
        \/ ~Defined(Index[i].num) /\ ParseObjStmObject(Index[i].num, i, i)
    BY <1>12 DEF TakeScanned
  <2>1. UNCHANGED <<file, phase, open>> /\ phase = "unpack" /\ file.rebuilt
    BY <1>12 DEF TakeScanned
  <2>2. i \in 1..Len(Index) /\ Index[i].num \in Nat
    BY <1>1, <2>1, EntryType DEF IInv, LoadInv, Least, Index
  <2> QED
    BY <1>7, <2>1, <2>2, TakeAccount DEF Defined
<1> QED
  BY <1>8, <1>9, <1>10, <1>11, <1>12 DEF Next, Loader

-----------------------------------------------------------------------------
(* The theorems.                                                            *)

\* IInv holds of every load, whatever the file and whenever it is canceled.
THEOREM Invariance == Spec => []IInv
BY InitInv, NextInv, PTL DEF Spec

\* A number is only ever given the object that an index names it.
THEOREM NumbersAgree == Spec => []RightObject
<1>1. IInv => RightObject
  BY DEF IInv
<1> QED
  BY <1>1, Invariance, PTL

\* A container is called broken only for what the file itself got wrong.
THEOREM BlameIsJust == Spec => []BrokenIsFilesFault
<1>1. IInv => BrokenIsFilesFault
  BY DEF IInv
<1> QED
  BY <1>1, Invariance, PTL

\* A loaded document lacks an object only with its container on record.
THEOREM MissingIsRecorded == Spec => []NothingSilentlyMissing
<1>1. IInv => NothingSilentlyMissing
  BY DEF IInv, LoadInv, Accounted, Supplying, NothingSilentlyMissing
<1> QED
  BY <1>1, Invariance, PTL

\* Unpacking a container never replaces an object the read already has.
THEOREM FirstDefinitionStays == Spec => DefinitionsKept
<1>1. ASSUME IInv, [Next]_vars
      PROVE  \A n \in DOMAIN objects : n \in DOMAIN objects' /\ objects'[n] = objects[n]
  <2>1. CASE objects' = objects
    BY <2>1
  <2>2. CASE TakePlaced
    <3>1. \A n \in Least(pending) : n \notin DOMAIN objects
      BY <1>1, <2>2 DEF TakePlaced, IInv, LoadInv, Least
    <3> QED
      BY <2>2, <3>1 DEF TakePlaced, ParseObjStmObject, OverBudget
  <2>3. CASE TakeScanned
    BY <2>3 DEF TakeScanned, ParseObjStmObject, OverBudget, Defined
  <2> QED
    BY <1>1, <2>1, <2>2, <2>3
       DEF Next, Loader, Cancel, Stop, Finish, Over, OpenObjStm, CloseObjStm, vars
<1> QED
  BY <1>1, Invariance, PTL DEF Spec, DefinitionsKept

\* Whatever the containers hold and whichever of them fail, what the read holds
\* of them is within the limit its caller set.
THEOREM WithinTheLimit == Spec => []MemoryBounded
<1>1. MeterInv => MemoryBounded
  BY DEF MeterInv
<1> QED
  BY <1>1, InitInv, NextInv, MeterInit, MeterNext, PTL DEF Spec

-----------------------------------------------------------------------------
(* The revisions of the source file: sections merged.                       *)

\* Sections are told apart by part and place.
Pairs == Nat \X Nat

\* The sections of the file, each by its part and place.
LEMMA ChainIs ==
    ASSUME NEW f
    PROVE  \A a : a \in Chain(f) <=> \E k \in DOMAIN f : \E j \in DOMAIN f[k].sections : a = <<k, j>>
BY DEF Chain

\* Of two sections one is older.
LEMMA OneIsOlder ==
    ASSUME NEW a \in Pairs, NEW b \in Pairs
    PROVE  /\ a = b \/ Older(a, b) \/ Older(b, a)
           /\ ~(Older(a, b) /\ Older(b, a))
           /\ ~Older(a, a)
BY DEF Older, Pairs

\* What is merged: each object by the latest section that mentions it.
LEMMA MergeIs ==
    ASSUME NEW f, NEW secs, secs \subseteq Pairs, NEW o
    PROVE  /\ o \in DOMAIN MergeSections(f, secs) <=> \E a \in secs : Places(f, secs, a, o)
           /\ \A a \in secs : Places(f, secs, a, o) =>
                MergeSections(f, secs)[o] = SectionOf(f, a).table[o]
<1> DEFINE placed == UNION {{x \in DOMAIN SectionOf(f, a).table : Places(f, secs, a, x)} : a \in secs}
<1>1. o \in placed <=> \E a \in secs : Places(f, secs, a, o)
  <2>1. ASSUME NEW a \in secs, Places(f, secs, a, o)
        PROVE  o \in {x \in DOMAIN SectionOf(f, a).table : Places(f, secs, a, x)}
    BY <2>1 DEF Places
  <2> QED
    BY <2>1
<1>2. MergeSections(f, secs)
        = [x \in placed |-> SectionOf(f, CHOOSE a \in secs : Places(f, secs, a, x)).table[x]]
  BY DEF MergeSections
<1>3. ASSUME NEW a \in secs, Places(f, secs, a, o)
      PROVE  (CHOOSE x \in secs : Places(f, secs, x, o)) = a
  <2>1. ASSUME NEW b \in secs, Places(f, secs, b, o)
        PROVE  a = b
    <3>1. Mentions(SectionOf(f, a), o) /\ Mentions(SectionOf(f, b), o)
      BY <1>3, <2>1 DEF Places, Mentions
    <3>2. ~Older(a, b) /\ ~Older(b, a)
      BY <1>3, <2>1, <3>1 DEF Places
    <3> QED
      BY <3>2, OneIsOlder
  <2> DEFINE Here(x) == Places(f, secs, x, o)
  <2> HIDE DEF Here
  <2>2. \A x \in secs : Here(x) => x = a
    BY <2>1 DEF Here
  <2>3. Here(a)
    BY <1>3 DEF Here
  <2>4. (CHOOSE x \in secs : Here(x)) = a
    BY <2>2, <2>3
  <2> QED
    BY <2>4 DEF Here
<1> HIDE DEF placed
<1>4. DOMAIN MergeSections(f, secs) = placed
  BY <1>2
<1>5. ASSUME NEW a \in secs, Places(f, secs, a, o)
      PROVE  MergeSections(f, secs)[o] = SectionOf(f, a).table[o]
  <2>1. o \in placed
    BY <1>1, <1>5
  <2> QED
    BY <1>2, <1>3, <1>5, <2>1
<1> QED
  BY <1>1, <1>4, <1>5

\* The table depends on the sections merged alone.
LEMMA MergeSame ==
    ASSUME NEW f, NEW g, NEW secs, \A a \in secs : SectionOf(f, a) = SectionOf(g, a)
    PROVE  MergeSections(f, secs) = MergeSections(g, secs)
<1>1. ASSUME NEW a \in secs, NEW o
      PROVE  Places(f, secs, a, o) = Places(g, secs, a, o)
  BY DEF Places
<1> DEFINE P1(x) == UNION {{o \in DOMAIN SectionOf(x, a).table : Places(x, secs, a, o)} : a \in secs}
           V(x, o) == SectionOf(x, CHOOSE a \in secs : Places(x, secs, a, o)).table[o]
<1>2. P1(f) = P1(g)
  <2>1. \A a \in secs : {o \in DOMAIN SectionOf(f, a).table : Places(f, secs, a, o)}
                         = {o \in DOMAIN SectionOf(g, a).table : Places(g, secs, a, o)}
    BY <1>1
  <2> QED
    BY <2>1
<1>3. ASSUME NEW o \in P1(f)
      PROVE  V(f, o) = V(g, o)
  <2>1. (CHOOSE a \in secs : Places(f, secs, a, o)) = (CHOOSE a \in secs : Places(g, secs, a, o))
    BY <1>1
  <2>2. PICK a \in secs : Places(f, secs, a, o)
    BY DEF P1
  <2>3. (CHOOSE x \in secs : Places(f, secs, x, o)) \in secs
    BY <2>2
  <2> QED
    BY <2>1, <2>3
<1> HIDE DEF P1, V
<1>4. [o \in P1(f) |-> V(f, o)] = [o \in P1(g) |-> V(g, o)]
  BY <1>2, <1>3
<1> QED
  BY <1>4 DEF MergeSections, P1, V

\* new: the table old with the section sec before it.
Adds(old, sec, new) ==
    /\ \A o : o \in DOMAIN new <=> (o \in DOMAIN sec.table \/ (o \in DOMAIN old /\ o \notin sec.free))
    /\ \A o \in DOMAIN sec.table : new[o] = sec.table[o]
    /\ \A o \in DOMAIN new : o \notin DOMAIN sec.table => new[o] = old[o]

AllOlder(secs, c) == \A a \in secs : Older(a, c)

\* With one section more, newer than the others: its entries, and the others'
\* for what it does not mention.
LEMMA MergeNewer ==
    ASSUME NEW f, NEW secs, secs \subseteq Pairs, NEW c \in Pairs, AllOlder(secs, c)
    PROVE  Adds(MergeSections(f, secs), SectionOf(f, c), MergeSections(f, secs \union {c}))
<1> DEFINE both == secs \union {c}
           sec == SectionOf(f, c)
<1>1. both \subseteq Pairs
  OBVIOUS
<1>2. ASSUME NEW a \in secs
      PROVE  Older(a, c) /\ ~Older(c, a) /\ a # c
  BY OneIsOlder DEF AllOlder
<1>3. ASSUME NEW o
      PROVE  Places(f, both, c, o) <=> o \in DOMAIN sec.table
  <2>1. \A b \in both : ~Older(c, b)
    BY <1>2, OneIsOlder
  <2> QED
    BY <2>1 DEF Places
<1>4. ASSUME NEW o, NEW a \in secs
      PROVE  Places(f, both, a, o) <=> (Places(f, secs, a, o) /\ ~Mentions(sec, o))
  BY <1>2 DEF Places
<1> HIDE DEF both
<1>5. c \in both /\ (\A a : a \in both <=> (a \in secs \/ a = c))
  BY DEF both
<1>6. ASSUME NEW o \in DOMAIN sec.table
      PROVE  o \in DOMAIN MergeSections(f, both) /\ MergeSections(f, both)[o] = sec.table[o]
  BY <1>1, <1>3, <1>5, MergeIs
<1>7. ASSUME NEW o, o \notin DOMAIN sec.table
      PROVE  /\ o \in DOMAIN MergeSections(f, both)
                  <=> (o \in DOMAIN MergeSections(f, secs) /\ o \notin sec.free)
             /\ o \in DOMAIN MergeSections(f, both)
                  => MergeSections(f, both)[o] = MergeSections(f, secs)[o]
  <2>1. Mentions(sec, o) <=> o \in sec.free
    BY <1>7 DEF Mentions
  <2>2. \A a \in both : Places(f, both, a, o) <=> (a \in secs /\ Places(f, secs, a, o) /\ o \notin sec.free)
    BY <1>3, <1>4, <1>5, <1>7, <2>1, <1>2
  <2>3. o \in DOMAIN MergeSections(f, both) <=> \E a \in both : Places(f, both, a, o)
    BY <1>1, MergeIs
  <2>4. o \in DOMAIN MergeSections(f, secs) <=> \E a \in secs : Places(f, secs, a, o)
    BY MergeIs
  <2>5. ASSUME NEW a \in both, Places(f, both, a, o)
        PROVE  MergeSections(f, both)[o] = MergeSections(f, secs)[o]
    <3>1. a \in secs /\ Places(f, secs, a, o)
      BY <2>2, <2>5
    <3> QED
      BY <1>1, <2>5, <3>1, MergeIs
  <2> QED
    BY <1>5, <2>2, <2>3, <2>4, <2>5
<1>8. \A o : o \in DOMAIN MergeSections(f, both) <=> (o \in DOMAIN sec.table \/ (o \in DOMAIN MergeSections(f, secs) /\ o \notin sec.free))
  BY <1>6, <1>7
<1> QED
  BY <1>6, <1>7, <1>8 DEF both, Adds

-----------------------------------------------------------------------------
(* Files that grow.                                                         *)

IsSequence(s) == s \in Seq({s[i] : i \in DOMAIN s})

\* A part added is the last, and the others are as they were.
LEMMA AppendIs ==
    ASSUME NEW s, IsSequence(s), NEW x
    PROVE  /\ IsSequence(Append(s, x))
           /\ Len(s) \in Nat /\ Len(Append(s, x)) = Len(s) + 1
           /\ DOMAIN s = 1..Len(s) /\ DOMAIN Append(s, x) = 1..(Len(s) + 1)
           /\ \A i \in 1..Len(s) : Append(s, x)[i] = s[i]
           /\ Append(s, x)[Len(s) + 1] = x
<1> DEFINE S == {s[i] : i \in DOMAIN s}
           t == Append(s, x)
           T == {t[i] : i \in DOMAIN t}
<1>1. s \in Seq(S)
  BY DEF IsSequence
<1> HIDE DEF S
<1>2. s \in Seq(S \union {x})
  BY <1>1
<1>3. /\ Len(s) \in Nat /\ Len(t) = Len(s) + 1
      /\ DOMAIN s = 1..Len(s) /\ DOMAIN t = 1..(Len(s) + 1)
      /\ \A i \in 1..Len(s) : t[i] = s[i]
      /\ t[Len(s) + 1] = x
      /\ t \in Seq(S \union {x})
  BY <1>2
<1> HIDE DEF t
<1>4. t \in Seq(T)
  BY <1>3
<1> QED
  BY <1>3, <1>4 DEF t, IsSequence

\* Part k of a file: its sections, its markers.
IsPart(p, k) ==
    /\ DOMAIN p.sections \subseteq Nat
    /\ \A j \in DOMAIN p.sections : IsSection(p, k, p.sections[j])
    /\ k = 1 => \A m \in p.markers : m.at \in 1..End(1) /\ m.states \in 0..End(1) - 1
    /\ k > 1 => /\ DOMAIN p.sections = {1}
                /\ p.sections[1].at = Start(k) + 5
                /\ p.markers \subseteq {[states |-> Start(k) + 5, at |-> End(k)]}

IsGrown(f) ==
    /\ IsSequence(f) /\ Len(f) > 0
    /\ \A k \in 1..Len(f) : IsPart(f[k], k)

UpTo(f, k)    == {a \in Chain(f) : a[1] <= k}
TableAt(f, k) == MergeSections(f, UpTo(f, k))

\* A file has parts.
LEMMA FileIs ==
    ASSUME NEW f, IsGrown(f)
    PROVE  Len(f) \in Nat \ {0} /\ DOMAIN f = 1..Len(f)
BY DEF IsGrown, IsSequence

\* The sections of a file lie in its parts.
LEMMA ChainOfFile ==
    ASSUME NEW f, IsGrown(f), NEW a \in Chain(f)
    PROVE  /\ a \in Pairs /\ a = <<a[1], a[2]>>
           /\ a[1] \in 1..Len(f) /\ a[2] \in DOMAIN f[a[1]].sections
           /\ IsSection(f[a[1]], a[1], SectionOf(f, a))
<1>1. PICK k \in DOMAIN f : \E j \in DOMAIN f[k].sections : a = <<k, j>>
  BY ChainIs
<1>2. PICK j \in DOMAIN f[k].sections : a = <<k, j>>
  BY <1>1
<1>3. k \in 1..Len(f) /\ Len(f) \in Nat
  BY FileIs
<1>4. IsPart(f[k], k)
  BY <1>3 DEF IsGrown
<1>5. j \in Nat /\ IsSection(f[k], k, f[k].sections[j])
  BY <1>2, <1>4 DEF IsPart
<1> QED
  BY <1>2, <1>3, <1>5 DEF Pairs, SectionOf

\* The sections up to a part.
LEMMA InUpTo ==
    ASSUME NEW f, IsGrown(f), NEW k \in 1..Len(f)
    PROVE  \A a : a \in UpTo(f, k) <=>
                    \E i \in 1..k : \E j \in DOMAIN f[i].sections : a = <<i, j>>
<1>1. DOMAIN f = 1..Len(f) /\ Len(f) \in Nat
  BY FileIs
<1>2. \A a : a \in Chain(f) <=> \E i \in 1..Len(f) : \E j \in DOMAIN f[i].sections : a = <<i, j>>
  BY <1>1, ChainIs
<1>3. ASSUME NEW a, a \in UpTo(f, k)
      PROVE  \E i \in 1..k : \E j \in DOMAIN f[i].sections : a = <<i, j>>
  <2>1. a \in Chain(f) /\ a[1] <= k
    BY <1>3 DEF UpTo
  <2>2. PICK i \in 1..Len(f) : \E j \in DOMAIN f[i].sections : a = <<i, j>>
    BY <1>2, <2>1
  <2>3. a[1] = i
    BY <2>2
  <2>4. i \in 1..k
    BY <1>1, <2>1, <2>3
  <2> QED
    BY <2>2, <2>4
<1>4. ASSUME NEW i \in 1..k, NEW j \in DOMAIN f[i].sections
      PROVE  <<i, j>> \in UpTo(f, k)
  <2>1. i \in 1..Len(f)
    BY <1>1
  <2>2. <<i, j>> \in Chain(f)
    BY <1>2, <2>1
  <2> QED
    BY <2>2 DEF UpTo
<1> QED
  BY <1>3, <1>4

\* f with one part more.
Extends(f, g, p) == IsGrown(f) /\ IsGrown(g) /\ g = Append(f, p)

\* A file that another extends has the same parts, and one more.
LEMMA ExtendsIs ==
    ASSUME NEW f, NEW g, NEW p, Extends(f, g, p)
    PROVE  /\ IsGrown(f) /\ IsGrown(g)
           /\ Len(f) \in Nat \ {0} /\ Len(g) = Len(f) + 1
           /\ \A k \in 1..Len(f) : g[k] = f[k] /\ UpTo(g, k) = UpTo(f, k) /\ TableAt(g, k) = TableAt(f, k)
           /\ g[Len(g)] = p
<1>1. IsGrown(f) /\ IsGrown(g) /\ g = Append(f, p) /\ IsSequence(f)
  BY DEF Extends, IsGrown
<1>2. /\ Len(f) \in Nat \ {0} /\ Len(g) = Len(f) + 1
      /\ \A k \in 1..Len(f) : g[k] = f[k]
      /\ g[Len(g)] = p
  BY <1>1, FileIs, AppendIs
<1>3. ASSUME NEW k \in 1..Len(f)
      PROVE  UpTo(g, k) = UpTo(f, k) /\ TableAt(g, k) = TableAt(f, k)
  <2>1. k \in 1..Len(g)
    BY <1>2
  <2>2. \A i \in 1..k : g[i] = f[i]
    BY <1>2
  <2>8. \A a : a \in UpTo(f, k) <=> \E i \in 1..k : \E j \in DOMAIN f[i].sections : a = <<i, j>>
    BY <1>1, InUpTo
  <2>9. \A a : a \in UpTo(g, k) <=> \E i \in 1..k : \E j \in DOMAIN g[i].sections : a = <<i, j>>
    <3>1. IsGrown(g)
      BY <1>1
    <3> QED
      BY <2>1, <3>1, InUpTo
  <2>3. \A a : a \in UpTo(g, k) <=> a \in UpTo(f, k)
    BY <2>2, <2>8, <2>9
  <2>4. UpTo(g, k) = UpTo(f, k)
    BY <2>3
  <2>5. \A a \in UpTo(f, k) : SectionOf(g, a) = SectionOf(f, a)
    <3>1. ASSUME NEW a \in UpTo(f, k)
          PROVE  a[1] \in 1..k
      BY <1>1, InUpTo
    <3> QED
      BY <2>2, <3>1 DEF SectionOf
  <2>6. MergeSections(g, UpTo(f, k)) = MergeSections(f, UpTo(f, k))
    BY <2>5, MergeSame
  <2> QED
    BY <2>4, <2>6 DEF TableAt
<1>4. IsGrown(f) /\ IsGrown(g)
  BY <1>1
<1> QED
  BY <1>2, <1>3, <1>4

\* The table after the new part: its entries, and those before it that it
\* neither replaces nor frees.
LEMMA NextTable ==
    ASSUME NEW f, NEW g, NEW p, Extends(f, g, p)
    PROVE  Adds(TableAt(f, Len(f)), p.sections[1], TableAt(g, Len(g)))
<1> DEFINE n == Len(f)
           c == <<n + 1, 1>>
<1>1. /\ n \in Nat \ {0} /\ Len(g) = n + 1
      /\ UpTo(g, n) = UpTo(f, n) /\ TableAt(g, n) = TableAt(f, n)
      /\ g[n + 1] = p
  <2>1. n \in Nat \ {0} /\ Len(g) = n + 1 /\ g[Len(g)] = p
    BY ExtendsIs
  <2>2. n \in 1..Len(f)
    BY <2>1
  <2> QED
    BY <2>1, <2>2, ExtendsIs
<1>2. IsGrown(g)
  BY DEF Extends
<1>3. IsPart(p, n + 1)
  BY <1>1, <1>2 DEF IsGrown
<1>4. DOMAIN p.sections = {1}
  BY <1>1, <1>3 DEF IsPart
<1> HIDE DEF n
<1>5. \A a : a \in UpTo(g, n) => (a \in Pairs /\ Older(a, c))
  <2>1. n \in 1..Len(g)
    BY <1>1
  <2>2. ASSUME NEW a \in UpTo(g, n)
        PROVE  a \in Pairs /\ Older(a, c)
    <3>1. a \in Chain(g) /\ a[1] <= n
      BY DEF UpTo
    <3>2. a \in Pairs
      BY <1>2, <3>1, ChainOfFile
    <3> QED
      BY <1>1, <3>1, <3>2 DEF Older, Pairs
  <2> QED
    BY <2>2
<1>6. UpTo(g, n + 1) = UpTo(g, n) \union {c}
  <2>1. n \in 1..Len(g) /\ n + 1 \in 1..Len(g) /\ 1..(n + 1) = 1..n \union {n + 1}
    BY <1>1
  <2>2. \A a : a \in UpTo(g, n) <=> \E i \in 1..n : \E j \in DOMAIN g[i].sections : a = <<i, j>>
    BY <1>2, <2>1, InUpTo
  <2>3. \A a : a \in UpTo(g, n + 1) <=> \E i \in 1..(n + 1) : \E j \in DOMAIN g[i].sections : a = <<i, j>>
    BY <1>2, <2>1, InUpTo
  <2>4. ASSUME NEW a, a \in UpTo(g, n + 1), a \notin UpTo(g, n)
        PROVE  a = c
    <3>1. PICK i \in 1..(n + 1) : \E j \in DOMAIN g[i].sections : a = <<i, j>>
      BY <2>3, <2>4
    <3>2. i = n + 1
      BY <2>1, <2>2, <2>4, <3>1
    <3> QED
      BY <1>1, <1>4, <3>1, <3>2
  <2>5. c \in UpTo(g, n + 1)
    BY <1>1, <1>4, <2>1, <2>3
  <2>6. \A a : a \in UpTo(g, n) => a \in UpTo(g, n + 1)
    BY <2>1, <2>2, <2>3
  <2> QED
    BY <2>4, <2>5, <2>6
<1>7. SectionOf(g, c) = p.sections[1]
  BY <1>1 DEF SectionOf
<1>8. c \in Pairs
  BY <1>1 DEF Pairs
<1> DEFINE M == MergeSections(g, UpTo(g, n) \union {c})
           B == MergeSections(g, UpTo(g, n))
<1>9. UpTo(g, n) \subseteq Pairs /\ \A a \in UpTo(g, n) : Older(a, c)
  BY <1>5
<1> HIDE DEF c
<1>10. Adds(B, p.sections[1], M)
  BY <1>7, <1>8, <1>9, MergeNewer DEF AllOlder
<1>11. M = TableAt(g, Len(g)) /\ B = TableAt(f, Len(f))
  BY <1>1, <1>6 DEF TableAt, n
<1> QED
  BY <1>10, <1>11

-----------------------------------------------------------------------------
(* What is read in a state of the file.                                     *)

ReadOf(f, k, o) == Object(f, End(k), TableAt(f, k), o)

\* Where an entry of the table of the first k parts leads.
IsPlaced(f, k, o, e) ==
    /\ o \in Name
    /\ e.con = None => e.part \in 1..k /\ o \in DOMAIN f[e.part].objects
    /\ e.con # None => e.con \in {"con"} \X (0..k) /\ o[1] # "con"

\* What a table places lies in a part it was read from.
LEMMA EntryIsPlaced ==
    ASSUME NEW f, IsGrown(f), NEW k \in 1..Len(f), NEW o \in DOMAIN TableAt(f, k)
    PROVE  IsPlaced(f, k, o, TableAt(f, k)[o])
<1> DEFINE secs == UpTo(f, k)
<1>1. ASSUME NEW a \in secs
      PROVE  a \in Pairs /\ a \in Chain(f) /\ a[1] \in 1..k
  <2>1. a \in Chain(f) /\ a[1] <= k
    BY DEF UpTo
  <2>2. a \in Pairs /\ a[1] \in 1..Len(f)
    BY <2>1, ChainOfFile
  <2>3. Len(f) \in Nat
    BY FileIs
  <2> QED
    BY <2>1, <2>2, <2>3
<1>2. secs \subseteq Pairs
  BY <1>1
<1> HIDE DEF secs
<1>3. PICK a \in secs : Places(f, secs, a, o)
  BY <1>2, MergeIs DEF TableAt, secs
<1>4. TableAt(f, k)[o] = SectionOf(f, a).table[o]
  BY <1>2, <1>3, MergeIs DEF TableAt, secs
<1>5. IsSection(f[a[1]], a[1], SectionOf(f, a)) /\ o \in DOMAIN SectionOf(f, a).table
  BY <1>1, <1>3, ChainOfFile DEF Places
<1> DEFINE e == SectionOf(f, a).table[o]
           i == a[1]
<1>6. o \in Name /\ IsEntry(f[i], i, o, e) /\ i \in 1..k
  BY <1>1, <1>5 DEF IsSection
<1> HIDE DEF e, i
<1>7. ASSUME e.con = None PROVE IsPlaced(f, k, o, e)
  BY <1>6, <1>7 DEF IsEntry, IsPlaced
<1>8. ASSUME e.con # None PROVE IsPlaced(f, k, o, e)
  <2>1. e.con \in {"con"} \X (0..i) /\ o[1] # "con"
    BY <1>6, <1>8 DEF IsEntry
  <2>2. e.con \in {"con"} \X (0..k)
    <3>1. PICK y \in 0..i : e.con = <<"con", y>>
      BY <2>1
    <3>2. y \in 0..k
      BY <1>6
    <3> QED
      BY <3>1, <3>2
  <2> QED
    BY <1>6, <1>8, <2>1, <2>2 DEF IsPlaced
<1>9. IsPlaced(f, k, o, e)
  BY <1>7, <1>8
<1> QED
  BY <1>4, <1>9 DEF e

\* A container's own entry is not compressed.
LEMMA ContainerIsPlaced ==
    ASSUME NEW f, IsGrown(f), NEW k \in 1..Len(f), NEW o \in DOMAIN TableAt(f, k),
           TableAt(f, k)[o].con # None, TableAt(f, k)[o].con \in DOMAIN TableAt(f, k)
    PROVE  LET con == TableAt(f, k)[o].con
               e == TableAt(f, k)[con]
           IN  ~Compressed(e) /\ e.part \in 1..k /\ con \in DOMAIN f[e.part].objects
<1> DEFINE con == TableAt(f, k)[o].con
           e == TableAt(f, k)[con]
<1>1. con \in {"con"} \X (0..k)
  BY EntryIsPlaced DEF IsPlaced
<1>2. IsPlaced(f, k, con, e)
  BY EntryIsPlaced
<1>3. con[1] = "con"
  BY <1>1
<1> HIDE DEF con, e
<1>4. e.con = None
  BY <1>2, <1>3 DEF IsPlaced
<1>5. e.part \in 1..k /\ con \in DOMAIN f[e.part].objects
  BY <1>2, <1>4 DEF IsPlaced
<1> QED
  BY <1>4, <1>5 DEF Compressed, con, e

\* What is inside the bytes of a state is read as it is.
LEMMA ParseIs ==
    ASSUME NEW f, NEW k \in Nat, NEW e, e.part \in 1..k, NEW o
    PROVE  ParseAt(f, End(k), e, o) = f[e.part].objects[o]
BY DEF ParseAt, End, Start, Span

\* An object is the same where its entry, and its container's, lead to the
\* same bytes.
LEMMA ObjectSame ==
    ASSUME NEW f, NEW g, NEW x, NEW y, NEW T, NEW U, NEW o,
           o \in DOMAIN T <=> o \in DOMAIN U,
           o \in DOMAIN T => T[o] = U[o],
           o \in DOMAIN T /\ ~Compressed(T[o]) => ParseAt(f, x, T[o], o) = ParseAt(g, y, T[o], o),
           o \in DOMAIN T /\ Compressed(T[o]) =>
                LET con == T[o].con
                IN  /\ con \in DOMAIN T <=> con \in DOMAIN U
                    /\ con \in DOMAIN T => /\ T[con] = U[con]
                                           /\ ParseAt(f, x, T[con], con) = ParseAt(g, y, T[con], con)
    PROVE  Object(f, x, T, o) = Object(g, y, U, o)
<1>1. CASE o \notin DOMAIN T
  BY <1>1 DEF Object
<1>2. CASE o \in DOMAIN T /\ ~Compressed(T[o])
  BY <1>2 DEF Object
<1>3. CASE o \in DOMAIN T /\ Compressed(T[o])
  <2> DEFINE con == T[o].con
  <2>1. CASE con \notin DOMAIN T
    BY <1>3, <2>1 DEF Object, ContainerMissing
  <2>2. CASE con \in DOMAIN T
    <3>1. T[con] = U[con] /\ U[o] = T[o] /\ ParseAt(f, x, T[con], con) = ParseAt(g, y, U[con], con)
      BY <1>3, <2>2
    <3>2. ContainerMissing(f, x, T, con) = ContainerMissing(g, y, U, con)
      BY <2>2, <3>1, <1>3 DEF ContainerMissing
    <3>3. Unpack(f, x, T, o) = Unpack(g, y, U, o)
      BY <3>1 DEF Unpack
    <3> QED
      BY <1>3, <3>1, <3>2, <3>3 DEF Object
  <2> QED
    BY <2>1, <2>2
<1> QED
  BY <1>1, <1>2, <1>3

\* What was read is read when the file has grown.
LEMMA OldRead ==
    ASSUME NEW f, NEW g, NEW p, Extends(f, g, p), NEW k \in 1..Len(f), NEW o
    PROVE  ReadOf(g, k, o) = ReadOf(f, k, o)
<1> DEFINE T == TableAt(f, k)
<1>1. /\ TableAt(g, k) = T /\ Len(f) \in Nat /\ IsGrown(f)
      /\ \A i \in 1..k : g[i] = f[i]
  BY ExtendsIs
<1>2. ASSUME NEW x, NEW e, e.part \in 1..k
      PROVE  ParseAt(f, End(k), e, x) = ParseAt(g, End(k), e, x)
  BY <1>1, <1>2, ParseIs
<1>3. ASSUME NEW x \in DOMAIN T
      PROVE  IsPlaced(f, k, x, T[x])
  BY <1>1, EntryIsPlaced
<1> HIDE DEF T
<1>4. o \in DOMAIN T /\ ~Compressed(T[o]) => ParseAt(f, End(k), T[o], o) = ParseAt(g, End(k), T[o], o)
  BY <1>2, <1>3 DEF IsPlaced, Compressed
<1>5. ASSUME o \in DOMAIN T, Compressed(T[o]), T[o].con \in DOMAIN T
      PROVE  ParseAt(f, End(k), T[T[o].con], T[o].con) = ParseAt(g, End(k), T[T[o].con], T[o].con)
  <2>1. T[T[o].con].part \in 1..k
    BY <1>1, <1>5, ContainerIsPlaced DEF Compressed, T
  <2> QED
    BY <1>2, <2>1
<1>6. Object(f, End(k), T, o) = Object(g, End(k), T, o)
  BY <1>4, <1>5, ObjectSame
<1> QED
  BY <1>1, <1>6 DEF ReadOf, T

\* What is read after the new part: an object of its own; one in its object
\* stream; nothing, of what it frees; and what was read before, of what it does
\* not mention and whose object stream it leaves alone.
LEMMA NextRead ==
    ASSUME NEW f, NEW g, NEW p, Extends(f, g, p), NEW o
    PROVE  LET sec == p.sections[1]
               T   == TableAt(f, Len(f))
               read == ReadOf(g, Len(g), o)
           IN  /\ o \in DOMAIN sec.table /\ sec.table[o] = At(Len(g)) => read = p.objects[o]
               /\ o \notin DOMAIN sec.table /\ o \in sec.free => read = None
               /\ o \notin DOMAIN sec.table /\ o \notin DOMAIN T => read = None
               /\ (/\ o \notin DOMAIN sec.table /\ o \notin sec.free
                   /\ o \in DOMAIN T /\ Compressed(T[o]) =>
                        T[o].con \notin DOMAIN sec.table /\ T[o].con \notin sec.free)
                  => read = ReadOf(f, Len(f), o)
               /\ (/\ o \notin DOMAIN sec.table /\ o \in DOMAIN T /\ Compressed(T[o])
                   /\ T[o].con \notin DOMAIN sec.table /\ T[o].con \in sec.free) => read = None
<1> DEFINE n == Len(f)
           m == Len(g)
           sec == p.sections[1]
           T == TableAt(f, n)
           U == TableAt(g, m)
           read == ReadOf(g, m, o)
<1>1. /\ IsGrown(f) /\ IsGrown(g) /\ n \in Nat \ {0} /\ m = n + 1 /\ g[m] = p
      /\ \A i \in 1..n : g[i] = f[i]
      /\ n \in 1..Len(f)
  BY ExtendsIs
<1>2. Adds(T, sec, U)
  BY NextTable
<1>3. ASSUME NEW x \in DOMAIN T
      PROVE  IsPlaced(f, n, x, T[x])
  BY <1>1, EntryIsPlaced
<1>4. ASSUME NEW x, NEW e, e.part \in 1..n
      PROVE  ParseAt(g, End(m), e, x) = ParseAt(f, End(n), e, x)
  <2>1. e.part \in 1..m /\ m \in Nat /\ n \in Nat /\ g[e.part] = f[e.part]
    BY <1>1, <1>4
  <2> QED
    BY <1>4, <2>1, ParseIs
<1>5. ASSUME NEW x \in DOMAIN T, Compressed(T[x]), T[x].con \in DOMAIN T
      PROVE  T[T[x].con].part \in 1..n
  BY <1>1, <1>5, ContainerIsPlaced DEF Compressed
<1>6. read = Object(g, End(m), U, o)
  BY DEF ReadOf
<1>7. ReadOf(f, n, o) = Object(f, End(n), T, o)
  BY DEF ReadOf
<1> HIDE DEF T, U, read, n, m, sec
<1>8. ASSUME o \in DOMAIN sec.table, sec.table[o] = At(m)
      PROVE  read = p.objects[o]
  <2>1. o \in DOMAIN U /\ U[o] = At(m)
    BY <1>2, <1>8 DEF Adds
  <2>2. ~Compressed(At(m)) /\ At(m).part = m
    BY DEF Compressed, At
  <2>3. m \in Nat /\ m \in 1..m
    BY <1>1
  <2>4. ParseAt(g, End(m), At(m), o) = p.objects[o]
    BY <1>1, <2>2, <2>3, ParseIs
  <2> QED
    BY <1>6, <2>1, <2>2, <2>4 DEF Object
<1>9. ASSUME o \notin DOMAIN sec.table, o \in sec.free \/ o \notin DOMAIN T
      PROVE  read = None
  <2>1. o \notin DOMAIN U
    BY <1>2, <1>9 DEF Adds
  <2> QED
    BY <1>6, <2>1 DEF Object
<1>10. ASSUME o \notin DOMAIN sec.table, o \notin sec.free,
              o \in DOMAIN T /\ Compressed(T[o]) => T[o].con \notin DOMAIN sec.table /\ T[o].con \notin sec.free
       PROVE  read = ReadOf(f, n, o)
  <2>1. (o \in DOMAIN T <=> o \in DOMAIN U) /\ (o \in DOMAIN T => T[o] = U[o])
    BY <1>2, <1>10 DEF Adds
  <2>2. ASSUME o \in DOMAIN T, ~Compressed(T[o])
        PROVE  ParseAt(f, End(n), T[o], o) = ParseAt(g, End(m), T[o], o)
    BY <1>3, <1>4, <2>2 DEF IsPlaced, Compressed
  <2> DEFINE con == T[o].con
  <2>3. ASSUME o \in DOMAIN T, Compressed(T[o])
        PROVE  /\ con \in DOMAIN T <=> con \in DOMAIN U
               /\ con \in DOMAIN T => T[con] = U[con]
    BY <1>2, <1>10, <2>3 DEF Adds
  <2>4. ASSUME o \in DOMAIN T, Compressed(T[o]), con \in DOMAIN T
        PROVE  ParseAt(f, End(n), T[con], con) = ParseAt(g, End(m), T[con], con)
    BY <1>4, <1>5, <2>4
  <2>5. Object(f, End(n), T, o) = Object(g, End(m), U, o)
    BY <2>1, <2>2, <2>3, <2>4, ObjectSame
  <2> QED
    BY <1>6, <1>7, <2>5
<1>11. ASSUME o \notin DOMAIN sec.table, o \in DOMAIN T, Compressed(T[o]),
              T[o].con \notin DOMAIN sec.table, T[o].con \in sec.free
       PROVE  read = None
  <2>1. CASE o \in sec.free
    BY <1>9, <1>11, <2>1
  <2>2. CASE o \notin sec.free
    <3>1. o \in DOMAIN U /\ U[o] = T[o] /\ T[o].con \notin DOMAIN U
      BY <1>2, <1>11, <2>2 DEF Adds
    <3> QED
      BY <1>6, <1>11, <3>1 DEF Object, ContainerMissing
  <2> QED
    BY <2>1, <2>2
<1>12. /\ o \in DOMAIN sec.table /\ sec.table[o] = At(m) => read = p.objects[o]
       /\ o \notin DOMAIN sec.table /\ o \in sec.free => read = None
       /\ o \notin DOMAIN sec.table /\ o \notin DOMAIN T => read = None
  BY <1>8, <1>9
<1> QED
  BY <1>10, <1>11, <1>12 DEF T, read, n, m, sec

\* An object is at one place of an object stream: the section says so, or the
\* table before it.
LeadsTo(sec, T, o, con, i) ==
    IF o \in DOMAIN sec.table THEN sec.table[o].con = con /\ sec.table[o].index = i
    ELSE o \notin sec.free /\ o \in DOMAIN T /\ T[o].con = con /\ T[o].index = i

\* In an object stream that the new part writes: its member.
Unpacks(f, g, p, o, con, s, i) ==
    /\ Extends(f, g, p) /\ con # None
    /\ con \in DOMAIN p.sections[1].table /\ p.sections[1].table[con] = At(Len(g))
    /\ p.objects[con] = s /\ s # None /\ s.kind = "con"
    /\ LeadsTo(p.sections[1], TableAt(f, Len(f)), o, con, i)

\* After an update the objects in streams are read as they are kept.
LEMMA NextUnpacked ==
    ASSUME NEW f, NEW g, NEW p, NEW o, NEW con, NEW s, NEW i, Unpacks(f, g, p, o, con, s, i)
    PROVE  ReadOf(g, Len(g), o) = IF i \in DOMAIN s.members /\ s.members[i].number = o THEN s.members[i].value
                                  ELSE Unreadable
<1> DEFINE m == Len(g)
           sec == p.sections[1]
           T == TableAt(f, Len(f))
           U == TableAt(g, m)
<1>0. /\ Extends(f, g, p) /\ con # None
      /\ con \in DOMAIN sec.table /\ sec.table[con] = At(m)
      /\ p.objects[con] = s /\ s # None /\ s.kind = "con"
      /\ LeadsTo(sec, T, o, con, i)
  BY DEF Unpacks
<1>1. m \in Nat \ {0} /\ g[m] = p
  BY <1>0, ExtendsIs
<1>2. Adds(T, sec, U)
  BY <1>0, NextTable
<1>3. ReadOf(g, m, o) = Object(g, End(m), U, o)
  BY DEF ReadOf
<1> HIDE DEF T, U, m, sec
<1>4. con \in DOMAIN U /\ U[con] = At(m)
  BY <1>0, <1>2 DEF Adds, sec, m
<1>5. o \in DOMAIN U /\ U[o].con = con /\ U[o].index = i
  BY <1>0, <1>2 DEF Adds, LeadsTo
<1>6. ~Compressed(At(m)) /\ At(m).part = m /\ Compressed(U[o])
  BY <1>0, <1>5 DEF Compressed, At
<1>7. ParseAt(g, End(m), At(m), con) = s
  <2>1. m \in Nat /\ m \in 1..m
    BY <1>1
  <2> QED
    BY <1>0, <1>1, <1>6, <2>1, ParseIs
<1>9. Object(g, End(m), U, o) = Unpack(g, End(m), U, o)
  BY <1>0, <1>4, <1>5, <1>6, <1>7 DEF Object, ContainerMissing
<1>10. Unpack(g, End(m), U, o) = IF i \in DOMAIN s.members /\ s.members[i].number = o THEN s.members[i].value
                                 ELSE Unreadable
  BY <1>0, <1>4, <1>5, <1>6, <1>7 DEF Unpack
<1> QED
  BY <1>3, <1>9, <1>10 DEF m

-----------------------------------------------------------------------------
(* The revisions of the file.                                               *)

\* A bounded set of numbers has a least one.
LEMMA LeastOf ==
    ASSUME NEW S \in SUBSET Nat, S # {}
    PROVE  \E x \in S : \A y \in S : x <= y
<1> DEFINE R == {ss \in Nat \X Nat : ss[1] < ss[2]}
<1>1. R = OpToRel(<, Nat)
  BY DEF OpToRel
<1>2. IsWellFoundedOn(R, Nat)
  BY <1>1, NatLessThanWellFounded
<1>3. \A x, y \in Nat : <<y, x>> \in R <=> y < x
  OBVIOUS
<1> HIDE DEF R
<1>4. PICK x \in S : \A y \in S : ~(<<y, x>> \in R)
  BY <1>2, WFMin
<1>5. ASSUME NEW y \in S PROVE x <= y
  <2>1. x \in Nat /\ y \in Nat /\ ~(y < x)
    BY <1>3, <1>4
  <2> QED
    BY <2>1
<1> QED
  BY <1>5

\* Min finds it.
LEMMA MinIs ==
    ASSUME NEW n \in Nat, NEW S \in SUBSET (-1..n), S # {}
    PROVE  Min(S) \in S /\ \A y \in S : Min(S) <= y
<1> DEFINE T == {y + 1 : y \in S}
<1>1. T \in SUBSET Nat /\ T # {}
  <2>1. \A y \in S : y + 1 \in Nat
    OBVIOUS
  <2> QED
    BY <2>1
<1> HIDE DEF T
<1>2. PICK t \in T : \A y \in T : t <= y
  BY <1>1, LeastOf
<1>3. PICK x \in S : t = x + 1
  BY DEF T
<1>4. ASSUME NEW y \in S PROVE x <= y
  <2>1. y + 1 \in T
    BY DEF T
  <2>2. t <= y + 1
    BY <1>2, <2>1
  <2> QED
    BY <1>3, <2>2
<1> QED
  BY <1>4 DEF Min

\* And Max the greatest.
LEMMA MaxIs ==
    ASSUME NEW n \in Nat, NEW S \in SUBSET (-1..n), S # {}
    PROVE  Max(S) \in S /\ \A y \in S : y <= Max(S)
<1> DEFINE T == {n - y : y \in S}
<1>1. T \in SUBSET Nat /\ T # {}
  OBVIOUS
<1> HIDE DEF T
<1>2. PICK t \in T : \A y \in T : t <= y
  BY <1>1, LeastOf
<1>3. PICK x \in S : t = n - x
  BY DEF T
<1>4. ASSUME NEW y \in S PROVE x >= y
  <2>1. n - y \in T
    BY DEF T
  <2>2. t <= n - y
    BY <1>2, <2>1
  <2> QED
    BY <1>3, <2>2
<1>5. Max(S) \in S /\ \A y \in S : Max(S) >= y
  BY <1>4 DEF Max
<1> QED
  BY <1>5

\* A marker lies in its part, and states a section of it.
LEMMA MarkersAre ==
    ASSUME NEW f, IsGrown(f), NEW m \in Markers(f)
    PROVE  \E j \in 1..Len(f) : /\ m \in f[j].markers
                                /\ m.at \in (Start(j) + 1)..End(j)
                                /\ m.states \in Start(j)..(End(j) - 1)
<1>1. PICK j \in DOMAIN f : m \in f[j].markers
  BY DEF Markers
<1>2. j \in 1..Len(f) /\ j \in Nat /\ j > 0
  BY FileIs
<1>3. IsPart(f[j], j)
  BY <1>2 DEF IsGrown
<1>4. CASE j = 1
  <2>1. m.at \in 1..End(1) /\ m.states \in 0..End(1) - 1
    BY <1>1, <1>3, <1>4 DEF IsPart
  <2> QED
    BY <1>1, <1>2, <1>4, <2>1 DEF Start, End, Span
<1>5. CASE j > 1
  <2>1. m = [states |-> Start(j) + 5, at |-> End(j)]
    BY <1>1, <1>3, <1>5 DEF IsPart
  <2>2. m.at = End(j) /\ m.states = Start(j) + 5
    BY <2>1
  <2> QED
    <3> DEFINE at == m.at
               states == m.states
    <3> HIDE DEF at, states
    <3>1. at = End(j) /\ states = Start(j) + 5
      BY <2>2 DEF at, states
    <3>2. at \in (Start(j) + 1)..End(j) /\ states \in Start(j)..(End(j) - 1)
      BY <1>2, <3>1 DEF Start, End, Span
    <3> QED
      BY <1>1, <1>2, <3>2 DEF at, states
<1> QED
  BY <1>2, <1>4, <1>5

\* Part k ends at a marker.
EndsMarked(f, k) == \E m \in f[k].markers : m.at = End(k)

\* A section ends at the first marker after it that points to it.
LEMMA SectionEndIs ==
    ASSUME NEW f, IsGrown(f), NEW a \in Chain(f)
    PROVE  /\ SectionEnd(f, a) \in -1..Length(f)
           /\ SectionEnd(f, a) # -1 => \E m \in Markers(f) : m.at = SectionEnd(f, a)
           /\ \A k \in 1..Len(f) : EndsMarked(f, k) /\ a[1] <= k => SectionEnd(f, a) <= End(k)
<1> DEFINE at == SectionOf(f, a).at
           naming == {m.at : m \in {x \in Markers(f) : x.states = at}}
           after  == {m.at : m \in {x \in Markers(f) : x.at > at}}
           i == a[1]
           n == Length(f)
<1>1. i \in 1..Len(f) /\ at \in Start(i)..End(i) - 1
  BY ChainOfFile DEF IsSection
<1>2. Len(f) \in Nat
  BY FileIs
<1>3. n \in Nat /\ n = End(Len(f))
  BY <1>2 DEF Length, End, Span
<1>4. ASSUME NEW m \in Markers(f)
      PROVE  /\ m.at \in -1..n
             /\ m.states = at => m.at <= End(i)
  <2>1. PICK j \in 1..Len(f) : m.at \in (Start(j) + 1)..End(j) /\ m.states \in Start(j)..(End(j) - 1)
    BY MarkersAre
  <2> HIDE DEF at, i
  <2> QED
    BY <1>1, <1>2, <1>3, <2>1 DEF Start, End, Span
<1>5. naming \in SUBSET (-1..n) /\ after \in SUBSET (-1..n)
  BY <1>4
<1>6. SectionEnd(f, a) = IF naming # {} THEN Max(naming) ELSE IF after # {} THEN Min(after) ELSE -1
  BY DEF SectionEnd
<1>7. \A y \in naming : y <= End(i)
  BY <1>4
<1>8. \A y \in naming \union after : \E m \in Markers(f) : m.at = y
  OBVIOUS
<1>9. ASSUME NEW k \in 1..Len(f), EndsMarked(f, k), i <= k
      PROVE  End(k) \in after
  <2>1. PICK m \in f[k].markers : m.at = End(k)
    BY <1>9 DEF EndsMarked
  <2>2. m \in Markers(f)
    BY FileIs DEF Markers
  <2>3. End(k) > at
    <3> HIDE DEF at, i
    <3> QED
      BY <1>1, <1>2, <1>9 DEF Start, End, Span
  <2> QED
    BY <2>1, <2>2, <2>3
<1>10. ASSUME NEW k \in 1..Len(f), i <= k
       PROVE  End(i) <= End(k)
  <2> HIDE DEF i
  <2> QED
    BY <1>1, <1>10 DEF End, Span
<1>11. End(i) \in Int /\ \A k \in 1..Len(f) : End(k) \in Int
  <2> HIDE DEF i
  <2> QED
    BY <1>1 DEF End, Span
<1> HIDE DEF naming, after, n, i
<1>12. CASE naming # {}
  <2>1. SectionEnd(f, a) = Max(naming) /\ Max(naming) \in naming
    BY <1>3, <1>5, <1>6, <1>12, MaxIs
  <2>2. SectionEnd(f, a) \in -1..n /\ SectionEnd(f, a) <= End(i)
    BY <1>5, <1>7, <2>1
  <2>3. \A k \in 1..Len(f) : i <= k => SectionEnd(f, a) <= End(k)
    BY <1>3, <1>10, <1>11, <2>2
  <2> QED
    BY <1>8, <2>1, <2>2, <2>3 DEF n, i
<1>13. CASE naming = {} /\ after # {}
  <2>1. SectionEnd(f, a) = Min(after) /\ Min(after) \in after /\ \A y \in after : Min(after) <= y
    BY <1>3, <1>5, <1>6, <1>13, MinIs
  <2>2. SectionEnd(f, a) \in -1..n
    BY <1>5, <2>1
  <2>3. \A k \in 1..Len(f) : EndsMarked(f, k) /\ i <= k => SectionEnd(f, a) <= End(k)
    BY <1>9, <2>1
  <2> QED
    BY <1>8, <2>1, <2>2, <2>3 DEF n, i
<1>14. CASE naming = {} /\ after = {}
  <2>1. SectionEnd(f, a) = -1 /\ -1 \in -1..n
    BY <1>3, <1>6, <1>14
  <2>2. \A k \in 1..Len(f) : -1 <= End(k)
    BY DEF End, Span
  <2> QED
    BY <2>1, <2>2 DEF n
<1> QED
  BY <1>12, <1>13, <1>14

\* The sections that end with a part are those of the parts up to it.
LEMMA RevisionIs ==
    ASSUME NEW f, IsGrown(f), NEW a \in Chain(f)
    PROVE  /\ \E b \in Chain(f) : (b = a \/ Older(b, a)) /\ RevisionOfSection(f, a) = SectionEnd(f, b)
           /\ \A k \in 1..Len(f) : EndsMarked(f, k) /\ a[1] <= k => RevisionOfSection(f, a) <= End(k)
<1> DEFINE S == {SectionEnd(f, b) : b \in {x \in Chain(f) : x = a \/ Older(x, a)}}
           n == Length(f)
<1>1. n \in Nat
  BY FileIs DEF Length, End, Span
<1>2. S \in SUBSET (-1..n)
  BY SectionEndIs
<1>3. S # {}
  OBVIOUS
<1>4. RevisionOfSection(f, a) = Max(S)
  BY DEF RevisionOfSection
<1>5. Max(S) \in S
  <2> HIDE DEF S, n
  <2> QED
    BY <1>1, <1>2, <1>3, MaxIs
<1>6. PICK b \in Chain(f) : (b = a \/ Older(b, a)) /\ RevisionOfSection(f, a) = SectionEnd(f, b)
  BY <1>4, <1>5
<1>7. b[1] <= a[1]
  <2>1. a \in Pairs /\ b \in Pairs
    BY ChainOfFile
  <2> QED
    BY <1>6, <2>1 DEF Pairs, Older
<1>8. \A k \in 1..Len(f) : EndsMarked(f, k) /\ a[1] <= k => SectionEnd(f, b) <= End(k)
  <2>1. a[1] \in 1..Len(f) /\ b[1] \in 1..Len(f)
    BY ChainOfFile
  <2>2. \A k \in 1..Len(f) : a[1] <= k => b[1] <= k
    BY <1>7, <2>1, FileIs
  <2> QED
    BY <2>2, SectionEndIs
<1> QED
  BY <1>6, <1>8

\* The sections before the end of a part that a marker closes are those of the
\* parts up to it.
LEMMA BeforeIs ==
    ASSUME NEW f, IsGrown(f), NEW k \in 1..Len(f), EndsMarked(f, k)
    PROVE  SectionsBefore(f, End(k)) = UpTo(f, k)
<1>1. ASSUME NEW a \in Chain(f)
      PROVE  /\ a[1] <= k <=> SectionOf(f, a).at < End(k)
             /\ a[1] <= k => RevisionOfSection(f, a) <= End(k)
  <2>1. SectionOf(f, a).at \in Start(a[1])..End(a[1]) - 1 /\ a[1] \in 1..Len(f)
    BY ChainOfFile DEF IsSection
  <2> DEFINE i == a[1]
             at == SectionOf(f, a).at
  <2> HIDE DEF i, at
  <2>2. at \in Start(i)..End(i) - 1 /\ i \in 1..Len(f)
    BY <2>1 DEF i, at
  <2>3. i <= k <=> at < End(k)
    BY <2>2, FileIs DEF Start, End, Span
  <2> QED
    BY <2>3, RevisionIs DEF i, at
<1> QED
  BY <1>1 DEF SectionsBefore, UpTo

\* A revision ends at a marker.
LEMMA EndsAre ==
    ASSUME NEW f, IsGrown(f)
    PROVE  /\ RevisionEnds(f) \in SUBSET (-1..Length(f))
           /\ \A e \in RevisionEnds(f) : \E m \in Markers(f) : m.at = e
<1>1. ASSUME NEW e \in RevisionEnds(f)
      PROVE  e \in -1..Length(f) /\ \E m \in Markers(f) : m.at = e
  <2>1. e # -1 /\ e \in {RevisionOfSection(f, a) : a \in Chain(f)}
    BY DEF RevisionEnds
  <2>2. PICK a \in Chain(f) : e = RevisionOfSection(f, a)
    BY <2>1
  <2>3. PICK b \in Chain(f) : e = SectionEnd(f, b)
    BY <2>2, RevisionIs
  <2> QED
    BY <2>1, <2>3, SectionEndIs
<1> QED
  BY <1>1

\* One that ends where part k does ends at a marker of it.
LEMMA EndIsMarked ==
    ASSUME NEW f, IsGrown(f), NEW k \in Nat, End(k) \in RevisionEnds(f)
    PROVE  k \in 1..Len(f) /\ EndsMarked(f, k)
<1>1. PICK m \in Markers(f) : m.at = End(k)
  BY EndsAre
<1>2. PICK j \in 1..Len(f) : m \in f[j].markers /\ m.at \in (Start(j) + 1)..End(j)
  BY MarkersAre
<1>3. j = k
  BY <1>1, <1>2, FileIs DEF Start, End, Span
<1> QED
  BY <1>1, <1>2, <1>3 DEF EndsMarked

-----------------------------------------------------------------------------
(* What a reader finds, and edits of it.                                    *)

\* The kind of an object is its type.
LEMMA KindIs ==
    ASSUME NEW v, v \in PlainObject \union StreamObject
    PROVE  /\ v.kind = "form" => v \in FormObject
           /\ v.kind = "cat" => v \in CatObject
           /\ v.kind = "page" => v \in PageObject
           /\ v.kind = "field" => v \in FieldObject
           /\ v.kind = "sig" => v \in SigObject
           /\ v.kind = "dss" => v \in DssObject
           /\ v.kind = "con" => v \in StreamObject
           /\ v.kind \in {"body", "ap", "cert", "other"} => v \in LeafObject
           /\ v.kind # "con" => v \in PlainObject
           /\ v.kind \in {"form", "cat", "page", "field", "sig", "dss", "con", "body", "ap", "cert", "other"}
           /\ v # None /\ v # Unreadable
<1>1. v # None /\ v # Unreadable
  BY ConstantsAssumption
<1>2. v \in FormObject => v.kind = "form"
  BY DEF FormObject
<1>3. v \in CatObject => v.kind = "cat"
  BY DEF CatObject
<1>4. v \in PageObject => v.kind = "page"
  BY DEF PageObject
<1>5. v \in FieldObject => v.kind = "field"
  BY DEF FieldObject
<1>6. v \in SigObject => v.kind = "sig"
  BY DEF SigObject
<1>7. v \in DssObject => v.kind = "dss"
  BY DEF DssObject
<1>8. v \in LeafObject => v.kind \in {"body", "ap", "cert", "other"}
  BY DEF LeafObject
<1>9. v \in StreamObject => v.kind = "con"
  BY DEF StreamObject
<1> QED
  BY <1>1, <1>2, <1>3, <1>4, <1>5, <1>6, <1>7, <1>8, <1>9 DEF PlainObject

\* An object found has a name and the kind its name says.
LEMMA ContentIs ==
    ASSUME NEW k \in Nat, NEW c, IsContent(c, k), NEW o \in DOMAIN c
    PROVE  /\ o \in Name /\ IsObject(o, c[o], k)
           /\ c[o] \in PlainObject \union StreamObject /\ c[o].kind = o[1]
           /\ c[o] # None /\ c[o] # Unreadable
<1>1. IsObject(o, c[o], k)
  BY DEF IsContent
<1>2. c[o] \in PlainObject \union StreamObject /\ c[o].kind = o[1]
  BY <1>1 DEF IsObject
<1>3. o \in Name
  BY <1>1 DEF IsObject, Name
<1> QED
  BY <1>1, <1>2, <1>3, KindIs

\* A content has a catalog and a page, and the form and the store they name.
LEMMA CatAndPage ==
    ASSUME NEW k \in Nat, NEW c, IsContent(c, k)
    PROVE  /\ Cat \in DOMAIN c /\ Page \in DOMAIN c
           /\ c[Cat] \in CatObject /\ c[Page] \in PageObject
           /\ c[Cat].form # None => /\ c[Cat].form \in DOMAIN c /\ c[Cat].form[1] = "form"
                                    /\ c[c[Cat].form] \in FormObject
           /\ c[Cat].dss # None => /\ c[Cat].dss \in DOMAIN c /\ c[Cat].dss[1] = "dss"
                                   /\ c[c[Cat].dss] \in DssObject
           /\ FormOf(c) \in FormObject
<1>1. Cat \in DOMAIN c /\ Page \in DOMAIN c /\ {c[Cat].form, c[Cat].dss} \subseteq {None} \union DOMAIN c
  BY DEF IsContent
<1>2. c[Cat] \in CatObject /\ c[Page] \in PageObject
  <2>1. c[Cat].kind = "cat" /\ c[Page].kind = "page"
    BY <1>1, ContentIs DEF Cat, Page
  <2> QED
    BY <1>1, <2>1, ContentIs, KindIs
<1>3. c[Cat].form \in Ref("form") /\ c[Cat].dss \in Ref("dss") /\ c[Cat].inline \in FormObject \union {None}
  BY <1>2 DEF CatObject
<1>4. ASSUME c[Cat].form # None
      PROVE  c[Cat].form \in DOMAIN c /\ c[Cat].form[1] = "form" /\ c[c[Cat].form] \in FormObject
  <2>1. c[Cat].form \in DOMAIN c /\ c[Cat].form[1] = "form"
    BY <1>1, <1>3, <1>4 DEF Ref, Named
  <2> QED
    BY <2>1, ContentIs, KindIs
<1>5. ASSUME c[Cat].dss # None
      PROVE  c[Cat].dss \in DOMAIN c /\ c[Cat].dss[1] = "dss" /\ c[c[Cat].dss] \in DssObject
  <2>1. c[Cat].dss \in DOMAIN c /\ c[Cat].dss[1] = "dss"
    BY <1>1, <1>3, <1>5 DEF Ref, Named
  <2> QED
    BY <2>1, ContentIs, KindIs
<1>6. NoForm \in FormObject
  BY DEF NoForm, FormObject
<1>7. FormOf(c) \in FormObject
  BY <1>3, <1>4, <1>6 DEF FormOf
<1> QED
  BY <1>1, <1>2, <1>4, <1>5, <1>7

\* What Put gives.
LEMMA PutIs ==
    ASSUME NEW c, NEW o, NEW v
    PROVE  /\ DOMAIN Put(c, o, v) = DOMAIN c \union {o}
           /\ Put(c, o, v)[o] = v
           /\ \A x \in DOMAIN c : x # o => Put(c, o, v)[x] = c[x]
BY DEF Put

\* d, of a reader of part k: an edit of c, before that part, that leaves the
\* object streams as they are and makes only objects of part k.
IsEdit(c, d, k) ==
    /\ IsContent(d, k)
    /\ \A o \in Named("con") : Val(d, o) = Val(c, o)
    /\ \A o \in DOMAIN d : o \in DOMAIN c \/ o[2] \in {-k, k}
    /\ \A o \in DOMAIN d : o[1] = "field" /\ d[o].v # None =>
          (o \in DOMAIN c /\ c[o].v = d[o].v) \/ d[o].v = <<"sig", k>>

\* A content of some parts can be one of more.
LEMMA Widens ==
    ASSUME NEW k \in Nat, NEW c, IsContent(c, k)
    PROVE  IsContent(c, k + 1) /\ IsEdit(c, c, k + 1)
<1>1. ASSUME NEW o \in DOMAIN c PROVE IsObject(o, c[o], k + 1)
  <2>1. IsObject(o, c[o], k)
    BY DEF IsContent
  <2>2. o \in Kinds \X (-(k + 1)..(k + 1))
    <3>3. o \in Kinds \X (-k..k)
      BY <2>1 DEF IsObject
    <3> DEFINE A == -k..k
               B == -(k + 1)..(k + 1)
    <3>1. A \subseteq B
      OBVIOUS
    <3> HIDE DEF A, B
    <3>2. o \in Kinds \X B
      BY <3>1, <3>3 DEF A
    <3> QED
      BY <3>2 DEF B
  <2>3. o[1] = "sig" => c[o].by \in 2..(k + 1) /\ (o[2] > 0 => c[o].by = o[2])
    BY <2>1 DEF IsObject
  <2>4. ASSUME o[1] = "field"
        PROVE  c[o].ap \in {None} \union {"ap"} \X (0..(k + 1))
    <3>1. CASE c[o].ap = None
      BY <3>1
    <3>2. CASE c[o].ap \in {"ap"} \X (0..k)
      <4>1. PICK i \in 0..k : c[o].ap = <<"ap", i>>
        BY <3>2
      <4>2. i \in 0..(k + 1)
        OBVIOUS
      <4> QED
        BY <4>1, <4>2
    <3> QED
      BY <2>1, <2>4, <3>1, <3>2 DEF IsObject
  <2>5. ASSUME o[1] = "field"
        PROVE  IF c[o].v = None THEN c[o].ap = None ELSE c[o].v[2] \in 2..(k + 1)
    BY <2>1, <2>5 DEF IsObject
  <2>6. c[o] \in PlainObject \union StreamObject /\ c[o].kind = o[1]
    BY <2>1 DEF IsObject
  <2> QED
    BY <2>2, <2>3, <2>4, <2>5, <2>6 DEF IsObject
<1>2. IsContent(c, k + 1)
  BY <1>1 DEF IsContent
<1> QED
  BY <1>2 DEF IsEdit

\* One object more, or another value for one.
LEMMA EditPut ==
    ASSUME NEW k \in Nat, NEW c, NEW d, IsEdit(c, d, k), NEW o, NEW v, IsObject(o, v, k),
           o[1] # "con", o \in DOMAIN d \/ o[2] \in {-k, k},
           o = Cat => v.form \in {None} \union DOMAIN d /\ v.dss \in {None} \union DOMAIN d,
           o[1] = "field" => \/ v.v = None \/ v.v = <<"sig", k>>
                             \/ o \in DOMAIN c /\ c[o].v = v.v
    PROVE  IsEdit(c, Put(d, o, v), k)
<1> DEFINE e == Put(d, o, v)
<1>1. /\ DOMAIN e = DOMAIN d \union {o} /\ e[o] = v
      /\ \A x \in DOMAIN d : x # o => e[x] = d[x]
  BY DEF Put
<1> HIDE DEF e
<1>2. IsContent(d, k)
  BY DEF IsEdit
<1>3. IsFiniteSet(DOMAIN e)
  BY <1>1, <1>2, FS_AddElement DEF IsContent
<1>4. {Cat, Page} \subseteq DOMAIN e
  BY <1>1, <1>2 DEF IsContent
<1>5. {e[Cat].form, e[Cat].dss} \subseteq {None} \union DOMAIN e
  <2>1. CASE o = Cat
    BY <1>1, <2>1
  <2>2. CASE o # Cat
    <3>1. e[Cat] = d[Cat] /\ {d[Cat].form, d[Cat].dss} \subseteq {None} \union DOMAIN d
      BY <1>1, <1>2, <2>2 DEF IsContent
    <3> QED
      BY <1>1, <3>1
  <2> QED
    BY <2>1, <2>2
<1>6. \A x \in DOMAIN e : IsObject(x, e[x], k)
  BY <1>1, <1>2 DEF IsContent
<1>7. IsContent(e, k)
  BY <1>3, <1>4, <1>5, <1>6 DEF IsContent
<1>8. \A x \in Named("con") : Val(e, x) = Val(c, x)
  <2>1. ASSUME NEW x \in Named("con")
        PROVE  Val(e, x) = Val(d, x)
    <3>1. x # o
      BY DEF Named
    <3> QED
      BY <1>1, <3>1 DEF Val
  <2> QED
    BY <2>1 DEF IsEdit
<1>9. \A x \in DOMAIN e : x \in DOMAIN c \/ x[2] \in {-k, k}
  BY <1>1 DEF IsEdit
<1>10. \A x \in DOMAIN e : x[1] = "field" /\ e[x].v # None =>
          (x \in DOMAIN c /\ c[x].v = e[x].v) \/ e[x].v = <<"sig", k>>
  BY <1>1 DEF IsEdit
<1>11. IsEdit(c, e, k)
  BY <1>7, <1>8, <1>9, <1>10 DEF IsEdit
<1> QED
  BY <1>11 DEF e

-----------------------------------------------------------------------------
(* The file and its contents.                                               *)

Kept(v) == IF v = Unreadable THEN None ELSE v

\* c is what is read in the first k parts.
Reads(f, k, c) ==
    \A o \in DOMAIN TableAt(f, k) \union DOMAIN c : Val(c, o) = Kept(ReadOf(f, k, o))

FileInv ==
    /\ IsGrown(parts)
    /\ IsSequence(content) /\ Len(content) = Len(parts)
    /\ \A k \in 1..Len(parts) : IsContent(content[k], k) /\ Reads(parts, k, content[k])

\* A reader finds an object, or nothing, under every name.
LEMMA ReadsAll ==
    ASSUME NEW f, NEW k, NEW c, Reads(f, k, c), NEW o
    PROVE  Val(c, o) = Kept(ReadOf(f, k, o))
<1>1. CASE o \in DOMAIN TableAt(f, k) \union DOMAIN c
  BY <1>1 DEF Reads
<1>2. CASE o \notin DOMAIN TableAt(f, k) /\ o \notin DOMAIN c
  <2>1. ReadOf(f, k, o) = None
    BY <1>2 DEF ReadOf, Object
  <2> QED
    BY <1>2, <2>1, ConstantsAssumption DEF Val, Kept
<1> QED
  BY <1>1, <1>2

\* What is there now is what a reader of all the parts finds.
LEMMA NowIs ==
    ASSUME FileInv
    PROVE  /\ Len(parts) \in Nat \ {0} /\ New = Len(parts) + 1
           /\ Now = content[Len(parts)]
           /\ IsContent(Now, Len(parts)) /\ IsContent(Now, New) /\ IsEdit(Now, Now, New)
           /\ Reads(parts, Len(parts), Now)
           /\ \A o : Val(Now, o) = Kept(ReadOf(parts, Len(parts), o))
<1>1. IsGrown(parts) /\ Len(content) = Len(parts) /\ Len(parts) \in Nat \ {0}
  BY FileIs DEF FileInv
<1>2. Len(parts) \in 1..Len(parts) /\ New = Len(parts) + 1 /\ Now = content[Len(parts)]
  BY <1>1 DEF New, Now, Last
<1>3. IsContent(Now, Len(parts)) /\ Reads(parts, Len(parts), Now)
  BY <1>2 DEF FileInv
<1> QED
  BY <1>1, <1>2, <1>3, ReadsAll, Widens

\* An update makes one part more.
LEMMA UpdateExtends ==
    ASSUME FileInv, NEW given, NEW table, NEW gone, NEW closed \in BOOLEAN, NEW after,
           Update(given, table, gone, closed, after),
           \A o \in DOMAIN table : o \in Name /\ IsEntry([objects |-> given], New, o, table[o])
    PROVE  \E p : /\ Extends(parts, parts', p) /\ p.objects = given
                  /\ p.sections[1].table = table /\ p.sections[1].free = gone
                  /\ closed => \E m \in p.markers : m.at = End(New)
<1> DEFINE sec == [at |-> Start(New) + 5, table |-> table, free |-> gone]
           mark == [states |-> Start(New) + 5, at |-> End(New)]
           p == [objects |-> given, sections |-> <<sec>>, markers |-> IF closed THEN {mark} ELSE {}]
           f == parts
           n == Len(parts)
<1>1. parts' = Append(parts, p)
  BY DEF Update
<1>2. IsGrown(parts) /\ n \in Nat \ {0} /\ New = n + 1
  BY NowIs DEF FileInv
<1>3. IsPart(p, n + 1)
  <2>1. DOMAIN p.sections = {1} /\ p.sections[1] = sec
    OBVIOUS
  <2>2. sec.at \in Start(New)..(End(New) - 1) /\ sec.at = Start(n + 1) + 5
    BY <1>2 DEF Start, End, Span
  <2>3. ASSUME NEW o \in DOMAIN table
        PROVE  o \in Name /\ IsEntry(p, New, o, table[o])
    BY DEF IsEntry
  <2>4. IsSection(p, New, sec)
    BY <2>2, <2>3 DEF IsSection
  <2>5. p.markers \subseteq {[states |-> Start(n + 1) + 5, at |-> End(n + 1)]}
    BY <1>2
  <2>6. DOMAIN p.sections \subseteq Nat
    BY <2>1
  <2>7. \A j \in DOMAIN p.sections : IsSection(p, n + 1, p.sections[j])
    BY <1>2, <2>1, <2>4
  <2>8. p.sections[1].at = Start(n + 1) + 5
    BY <2>1, <2>2
  <2> HIDE DEF p, sec
  <2> QED
    BY <1>2, <2>1, <2>5, <2>6, <2>7, <2>8 DEF IsPart
<1>4. p.objects = given /\ p.sections[1].table = table /\ p.sections[1].free = gone
  OBVIOUS
<1>7. closed => \E m \in p.markers : m.at = End(New)
  <2>1. mark.at = End(New)
    OBVIOUS
  <2>2. closed => mark \in p.markers
    OBVIOUS
  <2> HIDE DEF mark, p
  <2> QED
    BY <2>1, <2>2
<1> HIDE DEF p
<1>5. IsGrown(Append(parts, p))
  <2>1. IsSequence(parts)
    BY <1>2 DEF IsGrown
  <2>2. /\ IsSequence(Append(parts, p)) /\ Len(Append(parts, p)) = n + 1
        /\ \A i \in 1..n : Append(parts, p)[i] = parts[i]
        /\ Append(parts, p)[n + 1] = p
    BY <2>1, AppendIs
  <2> DEFINE g == Append(parts, p)
  <2> HIDE DEF g
  <2>3. ASSUME NEW k \in 1..Len(g)
        PROVE  IsPart(g[k], k)
    <3>1. k \in 1..n \/ k = n + 1
      BY <1>2, <2>2 DEF g
    <3> QED
      BY <1>2, <1>3, <2>2, <3>1 DEF g, IsGrown
  <2>4. IsSequence(g) /\ Len(g) > 0
    BY <1>2, <2>2 DEF g
  <2>5. IsGrown(g)
    BY <2>3, <2>4 DEF IsGrown
  <2> QED
    BY <2>5 DEF g
<1>6. Extends(parts, parts', p)
  BY <1>1, <1>2, <1>5 DEF Extends
<1> QED
  BY <1>4, <1>6, <1>7

\* And what was read in the others is read in them still.
LEMMA UpdateKeeps ==
    ASSUME FileInv, NEW given, NEW table, NEW gone, NEW closed \in BOOLEAN, NEW after,
           Update(given, table, gone, closed, after),
           NEW p, Extends(parts, parts', p),
           IsContent(after, New), Reads(parts', New, after)
    PROVE  /\ FileInv' /\ Now' = after
           /\ Len(parts') = New /\ \A k \in 1..Len(parts) : content'[k] = content[k]
<1> DEFINE n == Len(parts)
<1>1. /\ IsGrown(parts') /\ n \in Nat \ {0} /\ Len(parts') = n + 1 /\ New = n + 1
      /\ \A k \in 1..n : TableAt(parts', k) = TableAt(parts, k)
  BY ExtendsIs, NowIs
<1>2. content' = Append(content, after)
  BY DEF Update
<1>3. IsSequence(content) /\ Len(content) = n
  BY DEF FileInv
<1>4. /\ IsSequence(content') /\ Len(content') = n + 1
      /\ \A k \in 1..n : content'[k] = content[k]
      /\ content'[n + 1] = after
  BY <1>2, <1>3, AppendIs
<1>5. ASSUME NEW k \in 1..n
      PROVE  IsContent(content'[k], k) /\ Reads(parts', k, content'[k])
  <2>1. IsContent(content[k], k) /\ Reads(parts, k, content[k])
    BY DEF FileInv
  <2>2. \A o : ReadOf(parts', k, o) = ReadOf(parts, k, o)
    BY OldRead
  <2>3. Reads(parts', k, content[k])
    BY <1>1, <2>1, <2>2 DEF Reads
  <2> QED
    BY <1>4, <2>1, <2>3
<1>6. FileInv'
  <2>1. ASSUME NEW k \in 1..Len(parts')
        PROVE  IsContent(content'[k], k) /\ Reads(parts', k, content'[k])
    <3>1. k \in 1..n \/ k = n + 1
      BY <1>1
    <3> QED
      BY <1>1, <1>4, <1>5, <3>1
  <2> QED
    BY <1>1, <1>4, <2>1 DEF FileInv
<1>7. Now' = after
  BY <1>1, <1>4 DEF Now, Last
<1> QED
  BY <1>1, <1>4, <1>6, <1>7

\* A finite set is listed: each of its members is somewhere in the list.
LEMMA Listed ==
    ASSUME NEW S, IsFiniteSet(S)
    PROVE  /\ SetToSeq(S) \in Seq(S)
           /\ \A o \in S : \E i \in DOMAIN SetToSeq(S) : SetToSeq(S)[i] = o
<1> DEFINE m == Cardinality(S)
           s == SetToSeq(S)
<1>1. m \in Nat /\ ExistsBijection(1..m, S)
  BY FS_CardinalityType
<1>2. \E f \in [1..m -> S] : IsInjective(f)
  BY <1>1 DEF ExistsBijection, Bijection, Injection
<1>3. s \in [1..m -> S] /\ IsInjective(s)
  BY <1>2 DEF SetToSeq
<1>4. s \in Surjection(1..m, S)
  <2>1. s \in Injection(1..m, S)
    BY <1>3 DEF Injection
  <2>2. IsFiniteSet(1..m) /\ Cardinality(1..m) = m
    BY <1>1, FS_Interval
  <2> HIDE DEF s
  <2> QED
    BY <2>1, <2>2, FS_Injection
<1> HIDE DEF s, m
<1>5. \A o \in S : \E i \in DOMAIN s : s[i] = o
  BY <1>3, <1>4 DEF Surjection
<1>6. s \in Seq(S)
  BY <1>1, <1>3
<1> QED
  BY <1>5, <1>6 DEF s

\* What Write makes of an edit: with the object stream, if there is one.
Written(after, k, d) ==
    \/ d = after
    \/ \E st \in StreamObject : d = Put(after, <<"con", k>>, st)

\* What part p, the k-th, says of the objects: it frees those that are gone, and
\* places others of d in itself, or in an object stream that is part of it too.
Lists(p, k, d, gone, closed) ==
    LET sec == p.sections[1]
        con == <<"con", k>>
    IN  /\ sec.free = gone
        /\ DOMAIN sec.table \subseteq DOMAIN d
        /\ \A o \in DOMAIN sec.table : /\ o[1] = "con" => o = con
                                       /\ sec.table[o].con # None => sec.table[o].con = con /\ con \in DOMAIN d
        /\ closed => \E m \in p.markers : m.at = End(k)

\* An update written: what a reader finds is what was meant, and the object
\* stream it came in.
LEMMA WriteIs ==
    ASSUME FileInv, NEW after, NEW packed \in BOOLEAN, NEW closed \in BOOLEAN,
           IsEdit(Now, after, New), Write(after, packed, closed)
    PROVE  /\ FileInv' /\ Len(parts') = New /\ \A k \in 1..Len(parts) : content'[k] = content[k]
           /\ Written(after, New, Now')
           /\ \E p : Extends(parts, parts', p) /\ Lists(p, New, Now', DOMAIN Now \ DOMAIN after, closed)
           /\ UNCHANGED <<stage, verdicts>>
<1> DEFINE n == Len(parts)
           changed == {o \in DOMAIN after : Val(Now, o) # after[o]}
           inside  == IF packed THEN {o \in changed : after[o].kind # "sig"} ELSE {}
           order   == SetToSeq(inside)
           con     == <<"con", New>>
           stream  == [kind |-> "con", rest |-> 0,
                       members |-> [i \in DOMAIN order |-> [number |-> order[i], value |-> after[order[i]]]]]
           with(c) == IF packed THEN Put(c, con, stream) ELSE c
           alone   == [o \in changed \ inside |-> after[o]]
           outside == with(alone)
           entry(o) == IF o \in inside
                       THEN [part |-> 0, con |-> con, index |-> CHOOSE i \in DOMAIN order : order[i] = o]
                       ELSE At(New)
           D == inside \union DOMAIN outside
           table == [o \in D |-> entry(o)]
           gone == DOMAIN Now \ DOMAIN after
           d == with(after)
<1>1. Update(outside, table, gone, closed, d)
  BY DEF Write
<1>2. /\ n \in Nat \ {0} /\ New = n + 1
      /\ IsContent(Now, n) /\ IsContent(after, New)
      /\ Reads(parts, n, Now)
      /\ \A o : Val(Now, o) = Kept(ReadOf(parts, n, o))
      /\ IsGrown(parts)
  BY NowIs DEF FileInv, IsEdit
<1>3. \A o \in DOMAIN after : /\ o \in Name /\ after[o] # None /\ after[o] # Unreadable
                              /\ after[o] \in PlainObject \union StreamObject /\ after[o].kind = o[1]
  BY <1>2, ContentIs
<1>4. \A o \in Named("con") : Val(after, o) = Val(Now, o)
  BY DEF IsEdit
<1>5. con \in Named("con") /\ con \in Name /\ con # None
  <2>1. New \in Int
    BY <1>2
  <2>2. con \in Named("con") /\ con \in Name
    <3> DEFINE num == New
    <3>1. num \in Int
      BY <2>1
    <3> HIDE DEF num
    <3>2. <<"con", num>> \in {"con"} \X Int
      BY <3>1
    <3>3. <<"con", num>> \in Kinds \X Int
      BY <3>1 DEF Kinds
    <3> QED
      BY <3>2, <3>3 DEF Named, Name, num
  <2>3. None \notin Name
    BY ConstantsAssumption
  <2> QED
    BY <2>2, <2>3
<1>6. con \notin DOMAIN after
  <2>1. con \notin DOMAIN Now
    <3>1. ASSUME con \in DOMAIN Now PROVE FALSE
      <4>1. IsObject(con, Now[con], n)
        BY <1>2, <3>1 DEF IsContent
      <4>2. con \in Kinds \X (-n..n)
        BY <4>1 DEF IsObject
      <4> QED
        BY <1>2, <4>2
    <3> QED
      BY <3>1
  <2>2. Val(after, con) = None
    BY <1>4, <1>5, <2>1 DEF Val
  <2> QED
    BY <1>3, <2>2 DEF Val
<1>7. \A o \in changed : o \notin Named("con") /\ o[1] # "con"
  <2>1. \A o \in changed : o \notin Named("con")
    BY <1>4 DEF Val
  <2>2. \A o \in changed : o \in Name
    BY <1>3
  <2>3. \A o \in Name : o[1] = "con" => o \in Named("con")
    BY DEF Name, Named
  <2> QED
    BY <2>1, <2>2, <2>3
<1>8. inside \subseteq changed /\ changed \subseteq DOMAIN after /\ con \notin changed
  BY <1>6
<1>9. /\ order \in Seq(inside)
      /\ \A o \in inside : \E i \in DOMAIN order : order[i] = o
  <2>1. IsFiniteSet(inside)
    <3>1. IsFiniteSet(DOMAIN after)
      BY <1>2 DEF IsContent
    <3>2. inside \subseteq DOMAIN after
      BY <1>8
    <3> QED
      BY <3>1, <3>2, FS_Subset
  <2> HIDE DEF inside
  <2> QED
    BY <2>1, Listed
<1>10. stream \in StreamObject
  <2> DEFINE members == [i \in DOMAIN order |-> [number |-> order[i], value |-> after[order[i]]]]
             Member == [number : Name, value : PlainObject]
  <2>1. \A o \in inside : o \in Name /\ after[o] \in PlainObject
    <3>1. ASSUME NEW o \in inside
          PROVE  o \in Name /\ after[o] \in PlainObject
      <4>1. o \in DOMAIN after /\ o[1] # "con"
        BY <1>7, <1>8
      <4> QED
        BY <1>3, <4>1, KindIs
    <3> QED
      BY <3>1
  <2> HIDE DEF inside, order
  <2>2. /\ DOMAIN order = 1..Len(order) /\ Len(order) \in Nat
        /\ \A i \in 1..Len(order) : order[i] \in inside
    BY <1>9
  <2>3. members \in [1..Len(order) -> Member]
    <3> HIDE DEF Member
    <3>1. \A i \in 1..Len(order) : [number |-> order[i], value |-> after[order[i]]] \in Member
      BY <2>1, <2>2 DEF Member
    <3> QED
      BY <2>2, <3>1
  <2>4. members \in Seq(Member)
    BY <2>2, <2>3
  <2> HIDE DEF members, Member
  <2>5. [kind |-> "con", rest |-> 0, members |-> members] \in StreamObject
    BY <2>4 DEF StreamObject, Member
  <2> QED
    BY <2>5 DEF members
<1>11. /\ stream.kind = "con" /\ stream # None /\ stream # Unreadable
       /\ DOMAIN stream.members = DOMAIN order
       /\ \A i \in DOMAIN order : /\ stream.members[i].number = order[i]
                                  /\ stream.members[i].value = after[order[i]]
  BY <1>10, KindIs
<1> DEFINE held == IF packed THEN {con} ELSE {}
<1>12. /\ DOMAIN outside = (changed \ inside) \union held
       /\ \A o \in changed \ inside : outside[o] = after[o]
       /\ packed => outside[con] = stream
       /\ DOMAIN d = DOMAIN after \union held
       /\ \A o \in DOMAIN after : d[o] = after[o]
       /\ packed => d[con] = stream
  <2> HIDE DEF changed, inside, stream, con
  <2>1. CASE packed
    <3>1. con \notin DOMAIN alone
      BY <1>8
    <3> QED
      BY <1>6, <2>1, <3>1 DEF Put
  <2>2. CASE ~packed
    BY <2>2
  <2> QED
    BY <2>1, <2>2
<1>13. D = changed \union held /\ con \notin inside
  BY <1>8, <1>12
<1>14. Written(after, New, d)
  BY <1>10 DEF Written
<1>15. /\ DOMAIN table = D
       /\ \A o \in DOMAIN outside : table[o] = At(New)
       /\ \A o \in inside : table[o].con = con /\ table[o].index \in DOMAIN order /\ order[table[o].index] = o
  <2>1. \A o \in DOMAIN outside : o \notin inside
    <3> HIDE DEF inside, changed, outside
    <3> QED
      BY <1>8, <1>12
  <2>2. \A o \in inside : LET i == CHOOSE i \in DOMAIN order : order[i] = o
                          IN  i \in DOMAIN order /\ order[i] = o
    <3> HIDE DEF inside, order
    <3> QED
      BY <1>9
  <2> HIDE DEF inside, order, outside, con
  <2> QED
    BY <2>1, <2>2
<1> HIDE DEF changed, inside, order, stream, with, alone, outside, entry, D, table, gone, d
<1>16. PICK p : /\ Extends(parts, parts', p) /\ p.objects = outside
                /\ p.sections[1].table = table /\ p.sections[1].free = gone
                /\ closed => \E m \in p.markers : m.at = End(New)
  <2>1. ASSUME NEW o \in DOMAIN table
        PROVE  o \in Name /\ IsEntry([objects |-> outside], New, o, table[o])
    <3>1. o \in inside \/ o \in DOMAIN outside
      BY <1>12, <1>13, <1>15
    <3>2. CASE o \in inside
      <4>1. o \in Name /\ o[1] # "con" /\ table[o].con = con
        BY <1>3, <1>7, <1>8, <1>15, <3>2
      <4>2. con \in {"con"} \X (0..New)
        BY <1>2
      <4> QED
        BY <1>5, <4>1, <4>2 DEF IsEntry
    <3>3. CASE o \in DOMAIN outside
      <4>1. o \in Name
        BY <1>3, <1>5, <1>8, <1>12, <3>3
      <4>2. table[o].con = None /\ table[o].part = New
        BY <1>15, <3>3 DEF At
      <4> QED
        BY <3>3, <4>1, <4>2 DEF IsEntry
    <3> QED
      BY <3>1, <3>2, <3>3
  <2> QED
    BY <1>1, <2>1, UpdateExtends
<1>17. Len(parts') = New /\ New = n + 1
  BY <1>2, <1>16, ExtendsIs
<1> DEFINE T == TableAt(parts, n)
<1>18. \A o \in DOMAIN T : Compressed(T[o]) => /\ T[o].con \in {"con"} \X (0..n)
                                               /\ T[o].con \in Named("con") /\ T[o].con # con
  <2>1. ASSUME NEW o \in DOMAIN T, Compressed(T[o])
        PROVE  T[o].con \in {"con"} \X (0..n)
    <3>1. n \in 1..Len(parts)
      BY <1>2
    <3>2. IsPlaced(parts, n, o, T[o])
      BY <1>2, <3>1, EntryIsPlaced
    <3> QED
      BY <2>1, <3>2 DEF IsPlaced, Compressed
  <2>2. \A x \in {"con"} \X (0..n) : x \in Named("con") /\ x # con
    BY <1>2 DEF Named
  <2> QED
    BY <2>1, <2>2
<1> HIDE DEF n, T, con
<1>19. ASSUME NEW o
       PROVE  Val(d, o) = Kept(ReadOf(parts', New, o))
  <2>1. CASE o \in DOMAIN outside
    <3>1. o \in DOMAIN table /\ table[o] = At(Len(parts'))
      BY <1>12, <1>13, <1>15, <1>17, <2>1
    <3>2. ReadOf(parts', New, o) = outside[o]
      BY <1>16, <1>17, <3>1, NextRead
    <3>3. CASE packed /\ o = con
      BY <1>11, <1>12, <3>2, <3>3 DEF Val, Kept
    <3>4. CASE ~(packed /\ o = con)
      <4>1. o \in changed \ inside /\ o \in DOMAIN after
        BY <1>8, <1>12, <2>1, <3>4
      <4>2. o \in DOMAIN d /\ d[o] = outside[o] /\ outside[o] # Unreadable
        BY <1>3, <1>12, <4>1
      <4> QED
        BY <3>2, <4>2 DEF Val, Kept
    <3> QED
      BY <3>3, <3>4
  <2>2. CASE o \in inside
    <3>1. packed
      BY <2>2 DEF inside
    <3>2. con \in DOMAIN table /\ table[con] = At(Len(parts')) /\ o \in DOMAIN table /\ table[o].con = con
      <4>1. con \in DOMAIN outside /\ con \in D
        BY <1>12, <1>13, <3>1
      <4>2. o \in D
        BY <1>8, <1>13, <2>2
      <4>3. con \in DOMAIN table /\ table[con] = At(New)
        BY <1>15, <4>1
      <4>4. o \in DOMAIN table /\ table[o].con = con
        BY <1>15, <2>2, <4>2
      <4> QED
        BY <1>17, <4>3, <4>4
    <3>3. p.objects[con] = stream
      BY <1>12, <1>16, <3>1
    <3> DEFINE i == table[o].index
    <3>4. i \in DOMAIN stream.members /\ stream.members[i].number = o /\ stream.members[i].value = after[o]
      BY <1>11, <1>15, <2>2
    <3>5. ReadOf(parts', New, o) = after[o]
      <4>1. LeadsTo(p.sections[1], TableAt(parts, Len(parts)), o, con, i)
        BY <1>16, <3>2 DEF LeadsTo
      <4>2. con \in DOMAIN p.sections[1].table /\ p.sections[1].table[con] = At(Len(parts'))
        BY <1>16, <3>2
      <4> HIDE DEF i
      <4>5. Extends(parts, parts', p) /\ con # None /\ stream # None /\ stream.kind = "con"
        BY <1>5, <1>11, <1>16
      <4> HIDE DEF stream
      <4>3. ReadOf(parts', Len(parts'), o)
              = IF i \in DOMAIN stream.members /\ stream.members[i].number = o THEN stream.members[i].value
                ELSE Unreadable
        <5>1. Unpacks(parts, parts', p, o, con, stream, i)
          BY <3>3, <4>1, <4>2, <4>5 DEF Unpacks
        <5> QED
          BY <5>1, NextUnpacked
      <4> QED
        BY <1>17, <3>4, <4>3
    <3>6. o \in DOMAIN d /\ d[o] = after[o] /\ after[o] # Unreadable
      BY <1>3, <1>8, <1>12, <2>2
    <3> QED
      BY <3>5, <3>6 DEF Val, Kept
  <2>3. CASE o \notin D
    <3>1. o \notin DOMAIN table /\ o \notin changed /\ (packed => o # con)
      BY <1>13, <1>15, <2>3
    <3>2. Val(d, o) = Val(after, o)
      BY <1>12, <3>1 DEF Val
    <3>3. CASE o \in gone
      <4>1. ReadOf(parts', New, o) = None
        BY <1>16, <1>17, <3>1, <3>3, NextRead
      <4>2. Val(after, o) = None
        BY <3>3 DEF Val, gone
      <4> QED
        BY <3>2, <4>1, <4>2, ConstantsAssumption DEF Kept
    <3>4. CASE o \notin gone
      <4>1. ASSUME o \in DOMAIN T, Compressed(T[o])
            PROVE  T[o].con \notin DOMAIN table /\ T[o].con \notin gone
        <5>1. T[o].con \in Named("con") /\ T[o].con # con
          BY <1>18, <4>1
        <5>2. T[o].con \notin DOMAIN table
          BY <1>7, <1>13, <1>15, <5>1
        <5>3. Val(after, T[o].con) = Val(Now, T[o].con)
          BY <1>4, <5>1
        <5>4. T[o].con \notin gone
          <6>1. ASSUME T[o].con \in gone PROVE FALSE
            <7>1. T[o].con \in DOMAIN Now /\ T[o].con \notin DOMAIN after
              BY <6>1 DEF gone
            <7>2. Now[T[o].con] # None
              BY <1>2, <7>1, ContentIs
            <7> QED
              BY <5>3, <7>1, <7>2 DEF Val
          <6> QED
            BY <6>1
        <5> QED
          BY <5>2, <5>4
      <4>2. ReadOf(parts', New, o) = ReadOf(parts, n, o)
        BY <1>16, <1>17, <3>1, <3>4, <4>1, NextRead DEF T, n
      <4>3. Val(Now, o) = Val(after, o)
        <5>1. CASE o \in DOMAIN after
          BY <3>1, <5>1 DEF changed, Val
        <5>2. CASE o \notin DOMAIN after
          BY <3>4, <5>2 DEF gone, Val
        <5> QED
          BY <5>1, <5>2
      <4> QED
        BY <1>2, <3>2, <4>2, <4>3
    <3> QED
      BY <3>3, <3>4
  <2> QED
    BY <1>12, <1>13, <2>1, <2>2, <2>3
<1>20. IsContent(d, New)
  <2>1. CASE ~packed
    <3>1. d = after
      BY <2>1 DEF d, with
    <3> QED
      BY <1>2, <3>1
  <2>2. CASE packed
    <3>1. DOMAIN d = DOMAIN after \union {con} /\ d[con] = stream
      BY <1>12, <2>2
    <3>2. IsObject(con, stream, New)
      <4>1. con \in Kinds \X (-New..New) /\ con[1] = "con"
        <5> DEFINE S == -New..New
        <5>1. New \in S
          BY <1>2
        <5> HIDE DEF S
        <5>2. <<"con", New>> \in Kinds \X S
          BY <5>1 DEF Kinds
        <5> QED
          BY <5>2 DEF con, S
      <4> QED
        BY <1>10, <1>11, <4>1 DEF IsObject
    <3>3. con # Cat /\ con # Page
      BY DEF con, Cat, Page
    <3>4. IsFiniteSet(DOMAIN d)
      BY <1>2, <3>1, FS_AddElement DEF IsContent
    <3>5. d[Cat] = after[Cat] /\ {Cat, Page} \subseteq DOMAIN after
          /\ {after[Cat].form, after[Cat].dss} \subseteq {None} \union DOMAIN after
      BY <1>2, <1>12 DEF IsContent
    <3>6. \A o \in DOMAIN d : IsObject(o, d[o], New)
      BY <1>2, <1>12, <3>1, <3>2 DEF IsContent
    <3> QED
      BY <3>1, <3>4, <3>5, <3>6 DEF IsContent
  <2> QED
    BY <2>1, <2>2
<1>21. Reads(parts', New, d)
  BY <1>19 DEF Reads
<1>22. FileInv' /\ Now' = d /\ Len(parts') = New /\ \A k \in 1..Len(parts) : content'[k] = content[k]
  BY <1>1, <1>16, <1>20, <1>21, UpdateKeeps
<1>23. UNCHANGED <<stage, verdicts>>
  BY <1>1 DEF Update
<1>24. Lists(p, New, d, gone, closed)
  <2>1. DOMAIN table \subseteq DOMAIN d
    BY <1>8, <1>12, <1>13, <1>15
  <2>2. \A o \in DOMAIN table : o[1] = "con" => o = con
    BY <1>7, <1>13, <1>15
  <2>3. ASSUME NEW o \in DOMAIN table, table[o].con # None
        PROVE  table[o].con = con /\ con \in DOMAIN d
    <3>1. o \in inside
      BY <1>12, <1>13, <1>15, <2>3 DEF At
    <3>2. packed
      BY <3>1 DEF inside
    <3> QED
      BY <1>12, <1>15, <3>1, <3>2
  <2>4. con = <<"con", New>>
    BY DEF con
  <2> QED
    BY <1>16, <2>1, <2>2, <2>3, <2>4 DEF Lists
<1> QED
  BY <1>14, <1>16, <1>22, <1>23, <1>24 DEF gone

-----------------------------------------------------------------------------
(* The edits an update makes.                                               *)

\* The names an update may give.
LEMMA NewName ==
    ASSUME NEW k \in Nat, NEW kind \in Kinds
    PROVE  /\ <<kind, k>> \in Kinds \X (-k..k) /\ <<kind, -k>> \in Kinds \X (-k..k)
           /\ <<kind, k>> \in Named(kind) /\ <<kind, k>> \in Name
<1> DEFINE S == -k..k
<1>1. k \in S /\ -k \in S /\ k \in Int
  OBVIOUS
<1> HIDE DEF S
<1>2. <<kind, k>> \in Kinds \X S /\ <<kind, -k>> \in Kinds \X S
  BY <1>1
<1>3. <<kind, k>> \in Named(kind) /\ <<kind, k>> \in Name
  BY <1>1 DEF Named, Name
<1> QED
  BY <1>2, <1>3 DEF S

\* Of an object that is neither a signature nor a field only its kind is asked.
LEMMA ObjectIs ==
    ASSUME NEW k, NEW o, NEW v, o \in Kinds \X (-k..k), v.kind = o[1],
           v \in FormObject \union CatObject \union PageObject \union DssObject \union LeafObject
    PROVE  IsObject(o, v, k)
<1>1. v \in PlainObject
  BY DEF PlainObject
<1>2. v.kind # "sig" /\ v.kind # "field"
  BY KindIs DEF FormObject, CatObject, PageObject, DssObject, LeafObject
<1> QED
  BY <1>1, <1>2 DEF IsObject

\* No object is named None.
LEMMA NoneApart ==
    \A o \in Name : o # None /\ o # Unreadable
BY ConstantsAssumption

\* A signature made is an object of its kind.
LEMMA SignatureIs ==
    ASSUME NEW k \in Nat, k > 1, k = New, NEW type \in {"Sig", "DocTimeStamp"}, NEW good \in BOOLEAN,
           NEW mdp \in 0..2, NEW locks \in SUBSET Named("field")
    PROVE  IsObject(<<"sig", k>>, Signature(type, good, mdp, locks), k)
<1> DEFINE v == Signature(type, good, mdp, locks)
           s == <<"sig", k>>
<1>1. v \in SigObject
  BY DEF Signature, SigObject
<1>2. v.kind = "sig" /\ v.by = k
  BY DEF Signature
<1>3. v \in PlainObject
  BY <1>1 DEF PlainObject
<1>4. s \in Kinds \X (-k..k)
  BY NewName DEF Kinds
<1>5. s[1] = "sig" /\ s[2] = k
  OBVIOUS
<1> HIDE DEF s, v
<1>6. IsObject(s, v, k)
  BY <1>2, <1>3, <1>4, <1>5 DEF IsObject
<1> QED
  BY <1>6 DEF s, v

\* A field with a value made now.
LEMMA FieldIs ==
    ASSUME NEW k \in Nat, k > 1, NEW o \in Kinds \X (-k..k), o[1] = "field", NEW v \in FieldObject,
           v.v = <<"sig", k>>, v.ap \in {None, <<"ap", k>>}
    PROVE  IsObject(o, v, k)
<1>1. v \in PlainObject /\ v.kind = "field"
  BY DEF PlainObject, FieldObject
<1>2. v.ap \in {None} \union {"ap"} \X (0..k)
  <2>1. <<"ap", k>> \in {"ap"} \X (0..k)
    OBVIOUS
  <2> QED
    BY <2>1
<1>3. v.v # None
  <2>1. <<"sig", k>> \in Name
    BY NewName DEF Kinds
  <2> QED
    BY <2>1, NoneApart
<1>4. v.v[2] \in 2..k
  OBVIOUS
<1> QED
  BY <1>1, <1>2, <1>3, <1>4 DEF IsObject

\* A new object that is not a field.
LEMMA EditNew ==
    ASSUME NEW k \in Nat, k > 1, NEW c, NEW d, IsEdit(c, d, k), NEW kind \in Kinds \ {"con", "field"},
           NEW v, IsObject(<<kind, k>>, v, k)
    PROVE  IsEdit(c, Put(d, <<kind, k>>, v), k)
<1> DEFINE o == <<kind, k>>
<1>1. o[1] = kind /\ o[2] = k /\ o # Cat
  BY DEF Cat
<1>2. IsObject(o, v, k)
  OBVIOUS
<1> HIDE DEF o
<1>3. IsEdit(c, Put(d, o, v), k)
  BY <1>1, <1>2, EditPut
<1> QED
  BY <1>3 DEF o

\* What an edited object keeps, so that the edit is one.
Fits(c, d, o, v, k) ==
    /\ o \in DOMAIN d /\ o[1] # "con" /\ IsObject(o, v, k)
    /\ o = Cat => v.form \in {None} \union DOMAIN d /\ v.dss \in {None} \union DOMAIN d
    /\ o[1] = "field" => v.v = None \/ v.v = <<"sig", k>> \/ (o \in DOMAIN c /\ c[o].v = v.v)

\* An object written over one of its kind.
LEMMA EditOver ==
    ASSUME NEW k \in Nat, NEW c, NEW d, IsEdit(c, d, k), NEW o, NEW v, Fits(c, d, o, v, k)
    PROVE  IsEdit(c, Put(d, o, v), k) /\ IsEdit(c, [d EXCEPT ![o] = v], k)
<1>1. IsEdit(c, Put(d, o, v), k)
  BY EditPut DEF Fits
<1>2. Put(d, o, v) = [d EXCEPT ![o] = v]
  BY DEF Put, Fits
<1> QED
  BY <1>1, <1>2

\* One more in a list of fields.
LEMMA PageWith ==
    ASSUME NEW r \in PageObject, NEW f \in Named("field")
    PROVE  [r EXCEPT !.annots = Append(@, f)] \in PageObject
<1> DEFINE l == Append(r.annots, f)
           F == Named("field")
<1>1. f \in F /\ r \in [kind : {"page"}, rest : {0, 1}, annots : Seq(F)]
  BY DEF PageObject
<1> HIDE DEF F
<1>2. l \in Seq(F)
  BY <1>1
<1> HIDE DEF l
<1>3. [r EXCEPT !.annots = l] \in [kind : {"page"}, rest : {0, 1}, annots : Seq(F)]
  BY <1>1, <1>2
<1> QED
  BY <1>3 DEF l, F, PageObject

\* A form with one field more.
LEMMA FormWith ==
    ASSUME NEW r \in FormObject, NEW f \in Named("field")
    PROVE  [r EXCEPT !.fields = Append(@, f), !.flags = 3] \in FormObject
<1> DEFINE l == Append(r.fields, f)
           F == Named("field")
<1>1. f \in F /\ r \in [kind : {"form"}, rest : {0, 1}, flags : Nat, fields : Seq(F)]
  BY DEF FormObject
<1> HIDE DEF F
<1>2. l \in Seq(F)
  BY <1>1
<1> HIDE DEF l
<1>3. [r EXCEPT !.fields = l, !.flags = 3] \in [kind : {"form"}, rest : {0, 1}, flags : Nat, fields : Seq(F)]
  BY <1>1, <1>2
<1> QED
  BY <1>3 DEF l, F, FormObject

\* A signature attached to what is otherwise an edit already.
LEMMA AttachIs ==
    ASSUME NEW k \in Nat, k > 1, k = New, NEW b, NEW c, IsEdit(b, c, k), NEW sig, IsObject(<<"sig", k>>, sig, k),
           NEW look \in Looks
    PROVE  IsEdit(b, Attach(c, sig, look), k)
<1> DEFINE f    == <<"field", k>>
           s    == <<"sig", k>>
           a    == <<"ap", k>>
           n    == IF c[Cat].form # None THEN c[Cat].form ELSE <<"form", k>>
           form == FormOf(c)
           field == [kind |-> "field", rest |-> 0, v |-> s, area |-> look = "seen",
                     ap |-> IF look = "none" THEN None ELSE a]
           begun  == Put(c, s, sig)
           signed == Put(begun, f, field)
           drawn  == IF look = "none" THEN signed ELSE Put(signed, a, [kind |-> "ap", rest |-> 0])
           page   == [c[Page] EXCEPT !.annots = Append(@, f)]
           placed == Put(drawn, Page, page)
           form1  == [form EXCEPT !.fields = Append(@, f), !.flags = 3]
           listed == Put(placed, n, form1)
           cat    == [c[Cat] EXCEPT !.form = n, !.inline = None]
<1>1. Attach(c, sig, look) = Put(listed, Cat, cat)
  BY DEF Attach
<1>2. IsContent(c, k)
  BY DEF IsEdit
<1>3. /\ Cat \in DOMAIN c /\ Page \in DOMAIN c
      /\ c[Cat] \in CatObject /\ c[Page] \in PageObject
      /\ c[Cat].form # None => c[Cat].form \in DOMAIN c /\ c[Cat].form[1] = "form"
      /\ c[Cat].dss # None => c[Cat].dss \in DOMAIN c
      /\ form \in FormObject
  BY <1>2, CatAndPage
<1>4. f \in Named("field") /\ s \in Named("sig") /\ f \in Kinds \X (-k..k) /\ f[1] = "field"
  BY NewName DEF Kinds
<1>5. field \in FieldObject /\ field.v = <<"sig", k>> /\ field.ap \in {None, <<"ap", k>>}
  <2>1. a \in Named("ap")
    BY NewName DEF Kinds
  <2> QED
    BY <1>4, <2>1 DEF FieldObject, Ref
<1> HIDE DEF f
<1>6. page \in PageObject
  BY <1>3, <1>4, PageWith
<1>7. form1 \in FormObject
  BY <1>3, <1>4, FormWith
<1>8. n \in Named("form")
  <2>1. c[Cat].form \in Ref("form")
    BY <1>3 DEF CatObject
  <2>2. <<"form", k>> \in Named("form")
    BY NewName DEF Kinds
  <2> QED
    BY <2>1, <2>2 DEF Ref
<1>9. /\ cat \in CatObject /\ cat.form = n /\ cat.dss = c[Cat].dss
  BY <1>3, <1>8 DEF CatObject, Ref
<1>10. /\ Page[1] = "page" /\ Cat[1] = "cat" /\ Page # Cat
  BY DEF Page, Cat
<1>11. page.kind = "page" /\ form1.kind = "form" /\ cat.kind = "cat" /\ n[1] = "form"
  BY <1>6, <1>7, <1>8, <1>9 DEF PageObject, FormObject, CatObject, Named
<1>12. /\ Page \in Kinds \X (-k..k) /\ Cat \in Kinds \X (-k..k)
       /\ n \in Kinds \X (-k..k)
  <2>1. \A o \in DOMAIN c : o \in Kinds \X (-k..k)
    BY <1>2 DEF IsContent, IsObject
  <2>2. <<"form", k>> \in Kinds \X (-k..k)
    BY NewName DEF Kinds
  <2> QED
    BY <1>3, <2>1, <2>2
<1>21. a[1] = "ap" /\ f[2] = k /\ f # Cat
  BY DEF Cat, f
<1> DEFINE leaf == [kind |-> "ap", rest |-> 0]
<1>22. IsObject(a, leaf, k)
  <2>1. leaf \in LeafObject /\ leaf.kind = "ap"
    BY DEF LeafObject
  <2>2. a \in Kinds \X (-k..k)
    BY NewName DEF Kinds
  <2> HIDE DEF leaf
  <2> QED
    BY <1>21, <2>1, <2>2, ObjectIs
<1> HIDE DEF field, begun, signed, drawn, page, placed, form, form1, listed, cat, leaf
<1>13. IsEdit(b, begun, k) /\ DOMAIN begun = DOMAIN c \union {s}
  BY EditNew, PutIs DEF begun, Kinds
<1>14. IsEdit(b, signed, k) /\ DOMAIN signed = DOMAIN begun \union {f}
  <2>1. IsObject(f, field, k)
    BY <1>4, <1>5, FieldIs
  <2> HIDE DEF a, s, n
  <2>2. IsEdit(b, Put(begun, f, field), k)
    BY <1>4, <1>5, <1>13, <1>21, <2>1, EditPut
  <2> QED
    BY <2>2 DEF signed, Put
<1>15. IsEdit(b, drawn, k) /\ DOMAIN signed \subseteq DOMAIN drawn
  <2>1. IsEdit(b, Put(signed, a, leaf), k)
    BY <1>14, <1>22, EditNew DEF Kinds
  <2>2. DOMAIN signed \subseteq DOMAIN Put(signed, a, leaf)
    BY DEF Put
  <2>3. drawn = signed \/ drawn = Put(signed, a, leaf)
    BY DEF drawn, leaf
  <2> HIDE DEF a
  <2> QED
    BY <1>14, <2>1, <2>2, <2>3
<1>16. DOMAIN c \subseteq DOMAIN drawn
  BY <1>13, <1>14, <1>15
<1>17. IsEdit(b, placed, k) /\ DOMAIN c \subseteq DOMAIN placed
  <2>1. IsObject(Page, page, k)
    BY <1>6, <1>10, <1>11, <1>12, ObjectIs
  <2>2. Fits(b, drawn, Page, page, k)
    BY <1>3, <1>10, <1>16, <2>1 DEF Fits
  <2>3. IsEdit(b, Put(drawn, Page, page), k)
    BY <1>15, <2>2, EditOver
  <2> QED
    BY <1>16, <2>3 DEF placed, Put
<1>18. IsEdit(b, listed, k) /\ DOMAIN c \subseteq DOMAIN listed /\ n \in DOMAIN listed
  <2>1. IsObject(n, form1, k)
    <3> HIDE DEF n
    <3> QED
      BY <1>7, <1>11, <1>12, ObjectIs
  <2>2. IsEdit(b, Put(placed, n, form1), k)
    <3>1. CASE c[Cat].form # None
      <4>1. n # Cat /\ n[1] # "con" /\ n[1] # "field" /\ n \in DOMAIN placed
        BY <1>3, <1>10, <1>11, <1>17, <3>1
      <4> HIDE DEF n
      <4>2. Fits(b, placed, n, form1, k)
        BY <2>1, <4>1 DEF Fits
      <4> QED
        BY <1>17, <4>2, EditOver
    <3>2. CASE c[Cat].form = None
      <4>1. n = <<"form", k>>
        BY <3>2
      <4>2. IsObject(<<"form", k>>, form1, k)
        BY <2>1, <4>1
      <4>3. IsEdit(b, Put(placed, <<"form", k>>, form1), k)
        BY <1>17, <4>2, EditNew DEF Kinds
      <4> QED
        BY <4>1, <4>3
    <3> QED
      BY <3>1, <3>2
  <2> HIDE DEF n
  <2> QED
    BY <1>17, <2>2 DEF listed, Put
<1>19. Fits(b, listed, Cat, cat, k)
  <2>1. IsObject(Cat, cat, k)
    BY <1>9, <1>10, <1>11, <1>12, ObjectIs
  <2>2. cat.dss \in {None} \union DOMAIN listed
    BY <1>3, <1>9, <1>18
  <2> QED
    BY <1>3, <1>9, <1>10, <1>18, <2>1, <2>2 DEF Fits
<1>20. IsEdit(b, Put(listed, Cat, cat), k)
  BY <1>18, <1>19, EditOver
<1> QED
  BY <1>1, <1>20

\* A store made or lengthened in what is otherwise an edit already.
LEMMA ArchivedIs ==
    ASSUME NEW k \in Nat, k > 1, k = New, NEW b, NEW c, IsEdit(b, c, k)
    PROVE  IsEdit(b, Archived(c), k)
<1> DEFINE d == IF c[Cat].dss = None THEN <<"dss", k>> ELSE c[Cat].dss
           l == <<"cert", k>>
           held == IF c[Cat].dss = None THEN <<>> ELSE c[d].certs
           leaf == [kind |-> "cert", rest |-> 0]
           store == [kind |-> "dss", rest |-> 0, certs |-> Append(held, l)]
           cat == [c[Cat] EXCEPT !.dss = d]
           begun == Put(c, l, leaf)
           kept == Put(begun, d, store)
<1>1. Archived(c) = Put(kept, Cat, cat)
  BY DEF Archived
<1>2. IsContent(c, k)
  BY DEF IsEdit
<1>3. /\ Cat \in DOMAIN c /\ c[Cat] \in CatObject
      /\ c[Cat].form # None => c[Cat].form \in DOMAIN c
      /\ c[Cat].dss # None => c[Cat].dss \in DOMAIN c /\ c[Cat].dss[1] = "dss" /\ c[c[Cat].dss] \in DssObject
  BY <1>2, CatAndPage
<1>4. IsObject(l, leaf, k)
  <2>1. leaf \in LeafObject /\ leaf.kind = "cert"
    BY DEF LeafObject
  <2>2. l \in Kinds \X (-k..k) /\ l[1] = "cert"
    BY NewName DEF Kinds
  <2> HIDE DEF leaf, l
  <2> QED
    BY <2>1, <2>2, ObjectIs
<1>5. d \in Named("dss")
  <2>1. c[Cat].dss \in Ref("dss")
    BY <1>3 DEF CatObject
  <2>2. <<"dss", k>> \in Named("dss")
    BY NewName DEF Kinds
  <2> QED
    BY <2>1, <2>2 DEF Ref
<1>6. d \in Kinds \X (-k..k) /\ Cat \in Kinds \X (-k..k)
  <2>1. \A o \in DOMAIN c : o \in Kinds \X (-k..k)
    BY <1>2 DEF IsContent, IsObject
  <2>2. <<"dss", k>> \in Kinds \X (-k..k)
    BY NewName DEF Kinds
  <2> QED
    BY <1>3, <2>1, <2>2
<1>7. d[1] = "dss"
  BY <1>5 DEF Named
<1>8. store \in DssObject /\ store.kind = "dss"
  <2> DEFINE F == Named("cert")
             list == Append(held, l)
  <2>1. held \in Seq(F)
    BY <1>3 DEF DssObject
  <2>2. l \in F
    BY NewName DEF Kinds
  <2> HIDE DEF F, held, l
  <2>3. list \in Seq(F)
    BY <2>1, <2>2
  <2> HIDE DEF list
  <2>4. [kind |-> "dss", rest |-> 0, certs |-> list] \in [kind : {"dss"}, rest : {0, 1}, certs : Seq(F)]
    BY <2>3
  <2> QED
    BY <2>4 DEF DssObject, list, F
<1>9. /\ cat \in CatObject /\ cat.form = c[Cat].form /\ cat.dss = d /\ cat.kind = "cat"
  BY <1>3, <1>5 DEF CatObject, Ref
<1>10. Cat[1] = "cat"
  BY DEF Cat
<1> HIDE DEF begun, kept, leaf, store, cat, held
<1>11. IsEdit(b, begun, k) /\ DOMAIN c \subseteq DOMAIN begun
  <2>1. IsEdit(b, Put(c, l, leaf), k)
    BY <1>4, EditNew DEF Kinds
  <2> QED
    BY <2>1 DEF begun, Put
<1>12. IsEdit(b, kept, k) /\ DOMAIN c \subseteq DOMAIN kept /\ d \in DOMAIN kept
  <2>1. IsObject(d, store, k)
    <3> HIDE DEF d
    <3> QED
      BY <1>6, <1>7, <1>8, ObjectIs
  <2>2. IsEdit(b, Put(begun, d, store), k)
    <3>1. CASE c[Cat].dss # None
      <4>1. d # Cat /\ d[1] # "con" /\ d[1] # "field" /\ d \in DOMAIN begun
        BY <1>3, <1>7, <1>10, <1>11, <3>1
      <4> HIDE DEF d
      <4>2. Fits(b, begun, d, store, k)
        BY <2>1, <4>1 DEF Fits
      <4> QED
        BY <1>11, <4>2, EditOver
    <3>2. CASE c[Cat].dss = None
      <4>1. d = <<"dss", k>>
        BY <3>2
      <4>2. IsObject(<<"dss", k>>, store, k)
        BY <2>1, <4>1
      <4>3. IsEdit(b, Put(begun, <<"dss", k>>, store), k)
        BY <1>11, <4>2, EditNew DEF Kinds
      <4> QED
        BY <4>1, <4>3
    <3> QED
      BY <3>1, <3>2
  <2> HIDE DEF d
  <2> QED
    BY <1>11, <2>2 DEF kept, Put
<1>13. Fits(b, kept, Cat, cat, k)
  <2>1. IsObject(Cat, cat, k)
    BY <1>6, <1>9, <1>10, ObjectIs
  <2> HIDE DEF d
  <2> QED
    BY <1>3, <1>9, <1>10, <1>12, <2>1 DEF Fits
<1>14. IsEdit(b, Put(kept, Cat, cat), k)
  BY <1>12, <1>13, EditOver
<1> QED
  BY <1>1, <1>14

\* An object that is another value in nothing the review tells apart.
Touched(v) == [v EXCEPT !.rest = 1]

\* An object altered is one of its kind, and refers to the same.
LEMMA TouchedIs ==
    ASSUME NEW v \in PlainObject
    PROVE  /\ Touched(v) \in PlainObject /\ Touched(v).kind = v.kind
           /\ v.kind = "field" => Touched(v).v = v.v /\ Touched(v).ap = v.ap
           /\ v.kind = "sig" => Touched(v).by = v.by
           /\ v.kind = "cat" => Touched(v).form = v.form /\ Touched(v).dss = v.dss
<1> DEFINE w == Touched(v)
<1>1. CASE v \in FormObject
  <2>1. w \in FormObject /\ w.kind = "form" /\ v.kind = "form"
    BY <1>1 DEF FormObject, Touched
  <2> QED
    BY <2>1 DEF PlainObject
<1>2. CASE v \in CatObject
  <2>1. w \in CatObject /\ w.kind = "cat" /\ v.kind = "cat" /\ w.form = v.form /\ w.dss = v.dss
    BY <1>2 DEF CatObject, Touched
  <2> QED
    BY <2>1 DEF PlainObject
<1>3. CASE v \in PageObject
  <2>1. w \in PageObject /\ w.kind = "page" /\ v.kind = "page"
    BY <1>3 DEF PageObject, Touched
  <2> QED
    BY <2>1 DEF PlainObject
<1>4. CASE v \in FieldObject
  <2>1. w \in FieldObject /\ w.kind = "field" /\ v.kind = "field" /\ w.v = v.v /\ w.ap = v.ap
    BY <1>4 DEF FieldObject, Touched
  <2> QED
    BY <2>1 DEF PlainObject
<1>5. CASE v \in SigObject
  <2>1. w \in SigObject /\ w.kind = "sig" /\ v.kind = "sig" /\ w.by = v.by
    BY <1>5 DEF SigObject, Touched
  <2> QED
    BY <2>1 DEF PlainObject
<1>6. CASE v \in DssObject
  <2>1. w \in DssObject /\ w.kind = "dss" /\ v.kind = "dss"
    BY <1>6 DEF DssObject, Touched
  <2> QED
    BY <2>1 DEF PlainObject
<1>7. CASE v \in LeafObject
  <2>1. w \in LeafObject /\ w.kind = v.kind /\ v.kind \in {"body", "ap", "cert", "other"}
    BY <1>7 DEF LeafObject, Touched
  <2> QED
    BY <2>1 DEF PlainObject
<1> QED
  BY <1>1, <1>2, <1>3, <1>4, <1>5, <1>6, <1>7 DEF PlainObject

\* And may stand where it stood.
LEMMA TouchedObject ==
    ASSUME NEW k, NEW o, NEW v, IsObject(o, v, k), o[1] # "con"
    PROVE  IsObject(o, Touched(v), k) /\ v \in PlainObject
<1>1. v \in PlainObject \union StreamObject /\ v.kind = o[1]
  BY DEF IsObject
<1>2. v \in PlainObject
  BY <1>1, KindIs
<1>3. /\ Touched(v) \in PlainObject /\ Touched(v).kind = o[1]
      /\ o[1] = "field" => Touched(v).v = v.v /\ Touched(v).ap = v.ap
      /\ o[1] = "sig" => Touched(v).by = v.by
  BY <1>1, <1>2, TouchedIs
<1> HIDE DEF Touched
<1> QED
  BY <1>2, <1>3 DEF IsObject

-----------------------------------------------------------------------------
(* What the file's growth keeps.                                            *)

\* Between one part and the next, objects are made under new numbers, and a
\* field's value is the new signature if it is not what it was.
Evolves(c, d, k) ==
    /\ \A o \in DOMAIN d : o \in DOMAIN c \/ o[2] \in {-k, k}
    /\ \A o \in DOMAIN d : o[1] = "field" /\ d[o].v # None =>
          (o \in DOMAIN c /\ c[o].v = d[o].v) \/ d[o].v = <<"sig", k>>

Grows ==
    /\ FileInv' /\ Len(parts') = New
    /\ \A k \in 1..Len(parts) : content'[k] = content[k]
    /\ Evolves(Now, Now', New)
    /\ UNCHANGED <<stage, verdicts>>

\* Every edit written makes the file grow as it should.
LEMMA EditGrows ==
    ASSUME FileInv, NEW after, NEW packed \in BOOLEAN, NEW closed \in BOOLEAN,
           IsEdit(Now, after, New), Write(after, packed, closed)
    PROVE  Grows
<1>1. /\ FileInv' /\ Len(parts') = New /\ \A k \in 1..Len(parts) : content'[k] = content[k]
      /\ Written(after, New, Now')
      /\ UNCHANGED <<stage, verdicts>>
  BY WriteIs
<1>2. Evolves(Now, after, New)
  BY DEF IsEdit, Evolves
<1>3. Evolves(Now, Now', New)
  <2>1. CASE Now' = after
    BY <1>2, <2>1
  <2>2. ASSUME NEW st, Now' = Put(after, <<"con", New>>, st)
        PROVE  Evolves(Now, Now', New)
    <3> DEFINE con == <<"con", New>>
    <3>1. con[1] = "con" /\ con[2] = New
      OBVIOUS
    <3> HIDE DEF con
    <3>2. /\ DOMAIN Now' = DOMAIN after \union {con}
          /\ \A o \in DOMAIN after : o # con => Now'[o] = after[o]
      BY <2>2 DEF Put, con
    <3> QED
      BY <1>2, <3>1, <3>2 DEF Evolves
  <2> QED
    BY <1>1, <2>1, <2>2 DEF Written
<1> QED
  BY <1>1, <1>3 DEF Grows

\* The part an update makes is a new one, and to change nothing is an edit.
LEMMA NewPart ==
    ASSUME FileInv
    PROVE  New \in Nat /\ New > 1 /\ IsEdit(Now, Now, New) /\ IsContent(Now, New)
BY NowIs

\* Signing.
LEMMA SignGrows ==
    ASSUME FileInv, NEW look \in Looks, NEW good \in BOOLEAN, NEW locks \in SUBSET Named("field"),
           NEW packed \in BOOLEAN, NEW closed \in BOOLEAN, Sign(look, good, locks, packed, closed)
    PROVE  Grows
<1> DEFINE sig == Signature("Sig", good, 0, locks)
<1>1. New \in Nat /\ New > 1 /\ IsEdit(Now, Now, New)
  BY NewPart
<1>2. IsObject(<<"sig", New>>, sig, New)
  BY <1>1, SignatureIs
<1> HIDE DEF sig
<1>3. IsEdit(Now, Attach(Now, sig, look), New)
  BY <1>1, <1>2, AttachIs
<1> QED
  BY <1>3, EditGrows DEF Sign, sig

\* A certification is an edit.
LEMMA CertifyIs ==
    ASSUME FileInv, NEW mdp \in 1..2
    PROVE  LET c == Attach(Now, Signature("Sig", TRUE, mdp, {}), "none")
           IN  IsEdit(Now, c, New) /\ IsEdit(Now, [c EXCEPT ![Cat].perms = <<"sig", New>>], New)
<1> DEFINE sig == Signature("Sig", TRUE, mdp, {})
           c == Attach(Now, sig, "none")
           cat == [c[Cat] EXCEPT !.perms = <<"sig", New>>]
<1>1. New \in Nat /\ New > 1 /\ IsEdit(Now, Now, New)
  BY NewPart
<1>2. IsObject(<<"sig", New>>, sig, New)
  <2>1. mdp \in 0..2
    OBVIOUS
  <2> QED
    BY <1>1, <2>1, SignatureIs
<1>3. [c EXCEPT ![Cat].perms = <<"sig", New>>] = [c EXCEPT ![Cat] = cat]
  OBVIOUS
<1> HIDE DEF sig
<1>4. IsEdit(Now, c, New)
  BY <1>1, <1>2, AttachIs DEF Looks
<1> HIDE DEF c
<1>5. IsContent(c, New)
  BY <1>4 DEF IsEdit
<1>6. /\ Cat \in DOMAIN c /\ c[Cat] \in CatObject
      /\ {c[Cat].form, c[Cat].dss} \subseteq {None} \union DOMAIN c
      /\ Cat \in Kinds \X (-New..New)
  <2>1. Cat \in DOMAIN c /\ c[Cat] \in CatObject
    BY <1>1, <1>5, CatAndPage
  <2>2. IsObject(Cat, c[Cat], New) /\ {c[Cat].form, c[Cat].dss} \subseteq {None} \union DOMAIN c
    BY <1>5, <2>1 DEF IsContent
  <2> QED
    BY <2>1, <2>2 DEF IsObject
<1>7. cat \in CatObject /\ cat.kind = "cat" /\ cat.form = c[Cat].form /\ cat.dss = c[Cat].dss
  <2>1. <<"sig", New>> \in Named("sig")
    BY <1>1, NewName DEF Kinds
  <2> QED
    BY <1>6, <2>1 DEF CatObject, Ref
<1>8. Cat[1] = "cat"
  BY DEF Cat
<1> HIDE DEF cat
<1>9. IsObject(Cat, cat, New)
  BY <1>6, <1>7, <1>8, ObjectIs
<1>10. Fits(Now, c, Cat, cat, New)
  BY <1>6, <1>7, <1>8, <1>9 DEF Fits
<1>11. IsEdit(Now, [c EXCEPT ![Cat] = cat], New)
  BY <1>1, <1>4, <1>10, EditOver
<1> QED
  BY <1>3, <1>4, <1>11 DEF c, sig

\* Certifying.
LEMMA CertifyGrows ==
    ASSUME FileInv, NEW mdp \in 1..2, Certify(mdp)
    PROVE  Grows
<1>1. IsEdit(Now, [Attach(Now, Signature("Sig", TRUE, mdp, {}), "none") EXCEPT ![Cat].perms = <<"sig", New>>], New)
  BY CertifyIs
<1> QED
  BY <1>1, EditGrows DEF Certify

\* A field filled is an edit.
LEMMA FillIs ==
    ASSUME FileInv, NEW sig, IsObject(<<"sig", New>>, sig, New), IsA(Now, Slot, "field")
    PROVE  IsEdit(Now, Filled(Now, sig), New)
<1> DEFINE s == <<"sig", New>>
           a == <<"ap", New>>
           leaf == [kind |-> "ap", rest |-> 0]
           b == Put(Now, s, sig)
           c == Put(b, a, leaf)
           field == [Now[Slot] EXCEPT !.v = s, !.ap = a]
<1>1. New \in Nat /\ New > 1 /\ IsEdit(Now, Now, New)
  BY NewPart
<1>2. Filled(Now, sig) = Put(c, Slot, field)
  BY DEF Filled
<1>3. IsObject(s, sig, New)
  OBVIOUS
<1>4. IsObject(a, leaf, New)
  <2>1. leaf \in LeafObject /\ leaf.kind = "ap"
    BY DEF LeafObject
  <2>2. a \in Kinds \X (-New..New) /\ a[1] = "ap"
    BY <1>1, NewName DEF Kinds
  <2> HIDE DEF leaf, a
  <2> QED
    BY <2>1, <2>2, ObjectIs
<1>5. Slot \in DOMAIN Now /\ Now[Slot].kind = "field" /\ Slot[1] = "field" /\ Slot # Cat
  BY DEF IsA, Val, Slot, Cat
<1>6. Now[Slot] \in FieldObject /\ Slot \in Kinds \X (-New..New)
  <2>1. IsObject(Slot, Now[Slot], New)
    BY <1>5, NewPart DEF IsContent
  <2> QED
    BY <1>5, <2>1, KindIs DEF IsObject
<1>7. field \in FieldObject /\ field.v = s /\ field.ap = a
  <2>1. s \in Ref("sig") /\ a \in Ref("ap")
    BY <1>1, NewName DEF Kinds, Ref
  <2> HIDE DEF s, a
  <2> QED
    BY <1>6, <2>1 DEF FieldObject
<1> HIDE DEF leaf, b, c, field
<1>8. IsEdit(Now, b, New)
  BY <1>1, <1>3, EditNew DEF Kinds, b
<1>9. IsEdit(Now, c, New) /\ DOMAIN Now \subseteq DOMAIN c
  <2>1. IsEdit(Now, Put(b, a, leaf), New)
    BY <1>1, <1>4, <1>8, EditNew DEF Kinds
  <2> QED
    BY <2>1 DEF c, b, Put
<1>10. IsObject(Slot, field, New)
  BY <1>1, <1>5, <1>6, <1>7, FieldIs
<1>11. Fits(Now, c, Slot, field, New)
  BY <1>5, <1>7, <1>9, <1>10 DEF Fits
<1>12. IsEdit(Now, Put(c, Slot, field), New)
  BY <1>1, <1>9, <1>11, EditOver
<1> QED
  BY <1>2, <1>12

\* Signing a field that is there.
LEMMA FillGrows ==
    ASSUME FileInv, NEW good \in BOOLEAN, NEW stamp \in BOOLEAN, Fill(good, stamp)
    PROVE  Grows
<1> DEFINE sig == Signature(IF stamp THEN "DocTimeStamp" ELSE "Sig", good, 0, {})
<1>1. IsObject(<<"sig", New>>, sig, New)
  BY NewPart, SignatureIs
<1> HIDE DEF sig
<1>2. IsEdit(Now, Filled(Now, sig), New)
  BY <1>1, FillIs DEF Fill
<1> QED
  BY <1>2, EditGrows DEF Fill, sig

\* Archiving: the store, and a time-stamp.
LEMMA ArchiveGrows ==
    ASSUME FileInv, NEW look \in Looks, Archive(look)
    PROVE  Grows
<1> DEFINE sig == Signature("DocTimeStamp", TRUE, 0, {})
<1>1. New \in Nat /\ New > 1 /\ IsEdit(Now, Now, New)
  BY NewPart
<1>2. IsObject(<<"sig", New>>, sig, New)
  <2>1. "DocTimeStamp" \in {"Sig", "DocTimeStamp"} /\ TRUE \in BOOLEAN /\ 0 \in 0..2
    OBVIOUS
  <2>2. {} \in SUBSET Named("field")
    OBVIOUS
  <2> QED
    BY <1>1, <2>1, <2>2, SignatureIs
<1>3. IsEdit(Now, Archived(Now), New)
  BY <1>1, ArchivedIs
<1> HIDE DEF sig
<1>4. IsEdit(Now, Attach(Archived(Now), sig, look), New)
  BY <1>1, <1>2, <1>3, AttachIs
<1> QED
  BY <1>4, EditGrows DEF Archive, sig

\* The store alone.
LEMMA AddStoreGrows ==
    ASSUME FileInv, AddStore
    PROVE  Grows
<1>1. IsEdit(Now, Archived(Now), New)
  BY NewPart, ArchivedIs
<1> QED
  BY <1>1, EditGrows DEF AddStore

\* One object edited in place.
LEMMA OverGrows ==
    ASSUME FileInv, NEW o, NEW v, Fits(Now, Now, o, v, New), NEW closed \in BOOLEAN,
           Write([Now EXCEPT ![o] = v], FALSE, closed)
    PROVE  Grows
<1>1. IsEdit(Now, [Now EXCEPT ![o] = v], New)
  BY NewPart, EditOver
<1> QED
  BY <1>1, EditGrows

\* Any other change.
LEMMA AlterGrows ==
    ASSUME FileInv, NEW closed \in BOOLEAN, Alter(closed)
    PROVE  Grows
<1>1. PICK o \in {x \in DOMAIN Now : Now[x].kind \notin {"con", "dss", "cert", "form"} /\ Now[x].rest = 0} :
          Write([Now EXCEPT ![o].rest = 1], FALSE, closed)
  BY DEF Alter
<1>2. New \in Nat /\ IsContent(Now, New)
  BY NewPart
<1>3. IsObject(o, Now[o], New) /\ Now[o].kind = o[1] /\ o[1] # "con" /\ o \in DOMAIN Now
  BY <1>1, <1>2, ContentIs
<1>4. IsObject(o, Touched(Now[o]), New) /\ Now[o] \in PlainObject
  BY <1>3, TouchedObject
<1>5. /\ o[1] = "field" => Touched(Now[o]).v = Now[o].v
      /\ o[1] = "cat" => Touched(Now[o]).form = Now[o].form /\ Touched(Now[o]).dss = Now[o].dss
  BY <1>3, <1>4, TouchedIs
<1>6. Write([Now EXCEPT ![o] = Touched(Now[o])], FALSE, closed)
  BY <1>1 DEF Touched
<1> HIDE DEF Touched
<1>7. Fits(Now, Now, o, Touched(Now[o]), New)
  BY <1>2, <1>3, <1>4, <1>5 DEF Fits, IsContent, Cat
<1> QED
  BY <1>6, <1>7, OverGrows

\* A list turned round lists the same.
LEMMA ReverseIs ==
    ASSUME NEW F, NEW s \in Seq(F)
    PROVE  Reverse(s) \in Seq(F)
BY DEF Reverse

\* Another order.
LEMMA ReorderGrows ==
    ASSUME FileInv, Reorder
    PROVE  Grows
<1> DEFINE F == Named("field")
           page == [Now[Page] EXCEPT !.annots = Reverse(Now[Page].annots)]
           form == Now[Cat].form
           off == [Now[form] EXCEPT !.flags = 0]
           turned == [Now[form] EXCEPT !.fields = Reverse(Now[form].fields)]
<1>1. New \in Nat /\ IsContent(Now, New)
  BY NewPart
<1>2. /\ Page \in DOMAIN Now /\ Now[Page] \in PageObject
      /\ form # None => form \in DOMAIN Now /\ form[1] = "form" /\ Now[form] \in FormObject
  BY <1>1, CatAndPage
<1>3. \A o \in DOMAIN Now : o \in Kinds \X (-New..New)
  BY <1>1 DEF IsContent, IsObject
<1>4. CASE Write([Now EXCEPT ![Page] = page], FALSE, TRUE)
  <2>1. page \in PageObject /\ page.kind = "page"
    <3> DEFINE l == Reverse(Now[Page].annots)
    <3>1. PageObject = [kind : {"page"}, rest : {0, 1}, annots : Seq(F)]
      BY DEF PageObject
    <3> HIDE DEF F
    <3>2. l \in Seq(F)
      BY <1>2, <3>1, ReverseIs
    <3> HIDE DEF l
    <3>3. [Now[Page] EXCEPT !.annots = l] \in [kind : {"page"}, rest : {0, 1}, annots : Seq(F)]
      BY <1>2, <3>1, <3>2
    <3> QED
      BY <3>1, <3>3 DEF l
  <2>2. Page[1] = "page" /\ Page # Cat
    BY DEF Page, Cat
  <2> HIDE DEF page
  <2>3. IsObject(Page, page, New)
    BY <1>2, <1>3, <2>1, <2>2, ObjectIs
  <2>4. Fits(Now, Now, Page, page, New)
    BY <1>2, <2>2, <2>3 DEF Fits
  <2> QED
    BY <1>4, <2>4, OverGrows
<1>5. ASSUME form # None, NEW v \in FormObject, Write([Now EXCEPT ![form] = v], FALSE, TRUE)
      PROVE  Grows
  <2>1. v.kind = "form"
    BY DEF FormObject
  <2>2. form \in DOMAIN Now /\ form[1] = "form" /\ form # Cat
    BY <1>2, <1>5 DEF Cat
  <2>3. IsObject(form, v, New)
    BY <1>3, <2>1, <2>2, ObjectIs
  <2> HIDE DEF form
  <2>4. Fits(Now, Now, form, v, New)
    BY <2>2, <2>3 DEF Fits
  <2> QED
    BY <1>5, <2>4, OverGrows
<1>6. form # None => off \in FormObject /\ turned \in FormObject
  <2> DEFINE l == Reverse(Now[form].fields)
  <2>1. FormObject = [kind : {"form"}, rest : {0, 1}, flags : Nat, fields : Seq(F)]
    BY DEF FormObject
  <2> HIDE DEF F, form
  <2>2. ASSUME form # None
        PROVE  off \in FormObject /\ turned \in FormObject
    <3>1. Now[form] \in FormObject
      BY <1>2, <2>2
    <3>2. l \in Seq(F)
      BY <2>1, <3>1, ReverseIs
    <3> HIDE DEF l
    <3>3. [Now[form] EXCEPT !.fields = l] \in [kind : {"form"}, rest : {0, 1}, flags : Nat, fields : Seq(F)]
      BY <2>1, <3>1, <3>2
    <3>4. off \in [kind : {"form"}, rest : {0, 1}, flags : Nat, fields : Seq(F)]
      BY <2>1, <3>1
    <3> QED
      BY <2>1, <3>3, <3>4 DEF l
  <2> QED
    BY <2>2
<1>7. \/ Write([Now EXCEPT ![Page] = page], FALSE, TRUE)
      \/ form # None /\ (Write([Now EXCEPT ![form] = off], FALSE, TRUE)
                         \/ Write([Now EXCEPT ![form] = turned], FALSE, TRUE))
  BY DEF Reorder
<1> HIDE DEF page, form, off, turned
<1> QED
  BY <1>4, <1>5, <1>6, <1>7

\* One object more.
LEMMA AddOtherGrows ==
    ASSUME FileInv, AddOther
    PROVE  Grows
<1>1. New \in Nat /\ New > 1 /\ IsEdit(Now, Now, New) /\ IsContent(Now, New)
  BY NewPart
<1>2. CASE Write(Put(Now, <<"other", New>>, [kind |-> "other", rest |-> 0]), FALSE, TRUE)
  <2> DEFINE leaf == [kind |-> "other", rest |-> 0]
             o == <<"other", New>>
  <2>1. leaf \in LeafObject /\ leaf.kind = "other"
    BY DEF LeafObject
  <2>2. o \in Kinds \X (-New..New) /\ o[1] = "other"
    BY <1>1, NewName DEF Kinds
  <2>3. IsObject(o, leaf, New)
    <3> HIDE DEF leaf, o
    <3> QED
      BY <2>1, <2>2, ObjectIs
  <2> HIDE DEF leaf
  <2>4. IsEdit(Now, Put(Now, o, leaf), New)
    BY <1>1, <2>3, EditNew DEF Kinds
  <2> QED
    BY <1>2, <2>4, EditGrows DEF leaf
<1>3. ASSUME NEW s \in DOMAIN Now, Now[s].kind = "sig",
             Write(Put(Now, <<"sig", -New>>, Now[s]), FALSE, TRUE)
      PROVE  Grows
  <2> DEFINE o == <<"sig", -New>>
             v == Now[s]
  <2>1. s[1] = "sig" /\ IsObject(s, v, New) /\ v \in PlainObject \union StreamObject /\ v.kind = "sig"
    BY <1>1, <1>3, ContentIs
  <2>2. o \in Kinds \X (-New..New) /\ o[1] = "sig" /\ o[2] = -New /\ ~(-New > 0)
    <3>1. "sig" \in Kinds
      BY DEF Kinds
    <3>2. o \in Kinds \X (-New..New)
      BY <1>1, <3>1, NewName
    <3> QED
      BY <1>1, <3>2
  <2>3. v.by \in 2..New
    BY <2>1 DEF IsObject
  <2> HIDE DEF o, v
  <2>4. IsObject(o, v, New)
    BY <2>1, <2>2, <2>3 DEF IsObject
  <2>5. o # Cat /\ o[1] # "con" /\ o[1] # "field" /\ o[2] \in {-New, New}
    BY <2>2 DEF Cat
  <2>6. IsEdit(Now, Put(Now, o, v), New)
    BY <1>1, <2>4, <2>5, EditPut
  <2> QED
    BY <1>3, <2>6, EditGrows DEF o, v
<1> QED
  BY <1>2, <1>3 DEF AddOther

\* One object fewer.
LEMMA DeleteGrows ==
    ASSUME FileInv, Delete
    PROVE  Grows
<1>1. PICK o \in {x \in DOMAIN Now : Now[x].kind \in {"body", "field", "sig", "ap", "cert"}} :
          Write([x \in DOMAIN Now \ {o} |-> Now[x]], FALSE, TRUE)
  BY DEF Delete
<1> DEFINE d == [x \in DOMAIN Now \ {o} |-> Now[x]]
<1>2. New \in Nat /\ New > 1 /\ IsEdit(Now, Now, New) /\ IsContent(Now, New)
  BY NewPart
<1>3. o \in DOMAIN Now /\ o[1] \in {"body", "field", "sig", "ap", "cert"}
  BY <1>1, <1>2, ContentIs
<1>4. /\ Cat \in DOMAIN Now /\ Page \in DOMAIN Now
      /\ Now[Cat].form # None => Now[Cat].form \in DOMAIN Now /\ Now[Cat].form[1] = "form"
      /\ Now[Cat].dss # None => Now[Cat].dss \in DOMAIN Now /\ Now[Cat].dss[1] = "dss"
  BY <1>2, CatAndPage
<1>5. /\ DOMAIN d = DOMAIN Now \ {o}
      /\ \A x \in DOMAIN d : d[x] = Now[x]
  OBVIOUS
<1> HIDE DEF d
<1>6. IsContent(d, New)
  <2>1. IsFiniteSet(DOMAIN d)
    BY <1>2, <1>5, FS_Subset DEF IsContent
  <2>2. {Cat, Page} \subseteq DOMAIN d
    BY <1>3, <1>4, <1>5 DEF Cat, Page
  <2>3. {d[Cat].form, d[Cat].dss} \subseteq {None} \union DOMAIN d
    BY <1>3, <1>4, <1>5, <2>2
  <2>4. \A x \in DOMAIN d : IsObject(x, d[x], New)
    BY <1>2, <1>5 DEF IsContent
  <2> QED
    BY <2>1, <2>2, <2>3, <2>4 DEF IsContent
<1>7. \A x \in Named("con") : Val(d, x) = Val(Now, x)
  <2>1. ASSUME NEW x \in Named("con")
        PROVE  x # o
    BY <1>3 DEF Named
  <2> QED
    BY <1>5, <2>1 DEF Val
<1>8. IsEdit(Now, d, New)
  BY <1>5, <1>6, <1>7 DEF IsEdit
<1> QED
  BY <1>1, <1>8, EditGrows DEF d

-----------------------------------------------------------------------------
(* An object stream freed or written over.                                  *)

\* The whole chain is the chain up to the last part.
LEMMA ChainAll ==
    ASSUME NEW f, IsGrown(f)
    PROVE  TableAt(f, Len(f)) = MergeSections(f, Chain(f))
<1>1. \A a \in Chain(f) : a[1] <= Len(f)
  BY ChainOfFile, FileIs
<1>2. UpTo(f, Len(f)) = Chain(f)
  BY <1>1 DEF UpTo
<1> QED
  BY <1>2 DEF TableAt

\* What is read out of an object stream.
LEMMA ReadUnpacked ==
    ASSUME NEW f, IsGrown(f), NEW k \in 1..Len(f), NEW con, con # None, NEW s, s # None, s.kind = "con",
           ReadOf(f, k, con) = s, NEW o \in DOMAIN TableAt(f, k), TableAt(f, k)[o].con = con
    PROVE  LET i == TableAt(f, k)[o].index
           IN  ReadOf(f, k, o) = IF i \in DOMAIN s.members /\ s.members[i].number = o THEN s.members[i].value
                                 ELSE Unreadable
<1> DEFINE T == TableAt(f, k)
           e == T[con]
<1>1. ReadOf(f, k, o) = Object(f, End(k), T, o) /\ Object(f, End(k), T, con) = s
  BY DEF ReadOf
<1>2. con \in DOMAIN T
  BY <1>1 DEF Object
<1>3. ~Compressed(e) /\ Compressed(T[o])
  BY <1>2, ContainerIsPlaced DEF Compressed
<1> HIDE DEF T
<1>4. ParseAt(f, End(k), e, con) = s
  BY <1>1, <1>2, <1>3 DEF Object
<1>5. T[o].con = con /\ o \in DOMAIN T
  BY DEF T
<1>6. ReadOf(f, k, o) = Unpack(f, End(k), T, o)
  BY <1>1, <1>2, <1>3, <1>4, <1>5 DEF Object, ContainerMissing
<1>7. Unpack(f, End(k), T, o) = IF T[o].index \in DOMAIN s.members /\ s.members[T[o].index].number = o
                                THEN s.members[T[o].index].value ELSE Unreadable
  BY <1>3, <1>4, <1>5 DEF Unpack
<1> QED
  BY <1>6, <1>7 DEF T

\* A member of a sequence is of its set.
LEMMA SeqMember ==
    ASSUME NEW S, NEW s \in Seq(S)
    PROVE  \A i \in DOMAIN s : s[i] \in S
OBVIOUS

\* The members of an object stream, some fewer or of another value.
Worn(members, ms) ==
    /\ ms \in Seq([number : Name, value : PlainObject])
    /\ DOMAIN ms \subseteq DOMAIN members
    /\ \A i \in DOMAIN ms : /\ ms[i].number = members[i].number
                            /\ ms[i].value \in {members[i].value, Touched(members[i].value)}

\* What a container written over holds.
LEMMA WornIs ==
    ASSUME NEW members \in Seq([number : Name, value : PlainObject]), members # <<>>
    PROVE  /\ Worn(members, [members EXCEPT ![1].value.rest = 1])
           /\ Worn(members, Front(members))
<1> DEFINE Member == [number : Name, value : PlainObject]
           m == members[1]
           touched == [number |-> m.number, value |-> Touched(m.value)]
           ms == [members EXCEPT ![1] = touched]
<1>1. members \in Seq(Member) /\ \A r \in Member : r.number \in Name /\ r.value \in PlainObject
  OBVIOUS
<1>2. m \in Member /\ m = [number |-> m.number, value |-> m.value] /\ 1 \in DOMAIN members
  <2>1. 1 \in DOMAIN members /\ members[1] \in Member
    <3> HIDE DEF Member
    <3> QED
      BY <1>1
  <2>2. \A r \in Member : r = [number |-> r.number, value |-> r.value]
    OBVIOUS
  <2> HIDE DEF Member
  <2> QED
    BY <2>1, <2>2
<1>3. touched \in Member
  BY <1>2, TouchedIs
<1>4. [members EXCEPT ![1].value.rest = 1] = ms
  <2>1. [members EXCEPT ![1].value.rest = 1] = [members EXCEPT ![1] = [m EXCEPT !.value = [m.value EXCEPT !.rest = 1]]]
    OBVIOUS
  <2>2. [m EXCEPT !.value = [m.value EXCEPT !.rest = 1]] = touched
    <3> DEFINE w == [m.value EXCEPT !.rest = 1]
    <3> HIDE DEF w, m
    <3>1. [m EXCEPT !.value = w] = [number |-> m.number, value |-> w]
      BY <1>2
    <3> QED
      BY <3>1 DEF w, Touched
  <2> HIDE DEF m, touched
  <2> QED
    BY <2>1, <2>2
<1>5. Worn(members, ms)
  <2>1. touched.number = members[1].number /\ touched.value = Touched(members[1].value)
    OBVIOUS
  <2> HIDE DEF touched, Member, m
  <2>2. ms \in Seq(Member) /\ DOMAIN ms = DOMAIN members
    BY <1>1, <1>3
  <2>3. \A i \in DOMAIN ms : ms[i] = IF i = 1 THEN touched ELSE members[i]
    BY <1>1
  <2> HIDE DEF ms
  <2> QED
    BY <2>1, <2>2, <2>3 DEF Worn, Member
<1>6. Worn(members, Front(members))
  <2> DEFINE fs == Front(members)
  <2> HIDE DEF Member
  <2>1. fs \in Seq(Member) /\ DOMAIN fs \subseteq DOMAIN members /\ \A i \in DOMAIN fs : fs[i] = members[i]
    BY <1>1 DEF Front
  <2> HIDE DEF fs
  <2> QED
    BY <2>1 DEF Worn, Member, fs
<1> QED
  BY <1>4, <1>5, <1>6

\* A container freed or written over: the others in it go with it.
LEMMA TouchGrows ==
    ASSUME FileInv, TouchContainer
    PROVE  Grows
<1> DEFINE n == Len(parts)
           T == MergeSections(parts, Chain(parts))
           T0 == TableAt(parts, n)
<1>1. PICK con \in {x \in DOMAIN Now : Now[x].kind = "con"} :
        LET members == Now[con].members
            held    == {o \in DOMAIN T \intersect DOMAIN Now : T[o].con = con}
            rewrite(ms) ==
                LET value == [Now[con] EXCEPT !.members = ms]
                IN  Update([o \in {con} |-> value], [o \in {con} |-> At(New)], {}, TRUE,
                           [o \in {x \in DOMAIN Now : x \in held => T[x].index \in DOMAIN ms} |->
                               IF o = con THEN value
                               ELSE IF o \in held THEN ms[T[o].index].value ELSE Now[o]])
        IN  /\ held # {} /\ \A o \in held : Now[o].kind \notin {"cat", "page", "form", "dss"}
            /\ \/ Update(<<>>, <<>>, {con}, TRUE, [o \in DOMAIN Now \ ({con} \union held) |-> Now[o]])
               \/ rewrite([members EXCEPT ![1].value.rest = 1])
               \/ rewrite(Front(members))
  BY DEF TouchContainer
<1> DEFINE members == Now[con].members
           held    == {o \in DOMAIN T \intersect DOMAIN Now : T[o].con = con}
           without == [o \in DOMAIN Now \ ({con} \union held) |-> Now[o]]
           value(ms) == [Now[con] EXCEPT !.members = ms]
           stays(ms) == {x \in DOMAIN Now : x \in held => T[x].index \in DOMAIN ms}
           after(ms) == [o \in stays(ms) |-> IF o = con THEN value(ms)
                                             ELSE IF o \in held THEN ms[T[o].index].value ELSE Now[o]]
           rewrite(ms) == Update([o \in {con} |-> value(ms)], [o \in {con} |-> At(New)], {}, TRUE, after(ms))
<1>2. /\ held # {} /\ \A o \in held : Now[o].kind \notin {"cat", "page", "form", "dss"}
      /\ \/ Update(<<>>, <<>>, {con}, TRUE, without)
         \/ rewrite([members EXCEPT ![1].value.rest = 1])
         \/ rewrite(Front(members))
  BY <1>1
<1> HIDE DEF without, value, stays, after, rewrite, held
<1>3. /\ n \in Nat \ {0} /\ New = n + 1 /\ New \in Nat /\ n \in 1..Len(parts) /\ IsGrown(parts)
      /\ IsContent(Now, New)
      /\ \A o : Val(Now, o) = Kept(ReadOf(parts, n, o))
      /\ T = T0
  BY NowIs, ChainAll DEF FileInv
<1>4. \A o \in DOMAIN Now : /\ o \in Name /\ IsObject(o, Now[o], New)
                            /\ Now[o] \in PlainObject \union StreamObject /\ Now[o].kind = o[1]
                            /\ Now[o] # None /\ Now[o] # Unreadable
  BY <1>3, ContentIs
<1>5. /\ con \in DOMAIN Now /\ con[1] = "con" /\ con \in Name /\ con # None
      /\ Now[con] \in StreamObject /\ Now[con].kind = "con" /\ Now[con] # None
  BY <1>1, <1>4, KindIs, NoneApart
<1>6. ReadOf(parts, n, con) = Now[con]
  BY <1>3, <1>5 DEF Val, Kept
<1>7. /\ Cat \in DOMAIN Now /\ Page \in DOMAIN Now /\ Cat[1] = "cat" /\ Page[1] = "page"
      /\ Now[Cat].form # None => Now[Cat].form \in DOMAIN Now /\ Now[Cat].form[1] = "form"
      /\ Now[Cat].dss # None => Now[Cat].dss \in DOMAIN Now /\ Now[Cat].dss[1] = "dss"
  BY <1>3, CatAndPage DEF Cat, Page
<1>8. \A o : o \in held <=> o \in DOMAIN T0 /\ o \in DOMAIN Now /\ T0[o].con = con
  BY <1>3 DEF held
<1>9. \A o \in held : o[1] \notin {"cat", "page", "form", "dss", "con"} /\ o # con
  <2>1. \A o \in held : o[1] \notin {"cat", "page", "form", "dss"}
    BY <1>2, <1>4, <1>8
  <2>2. \A o \in held : o[1] # "con"
    <3>1. \A o \in DOMAIN T0 : IsPlaced(parts, n, o, T0[o])
      BY <1>3, EntryIsPlaced
    <3> HIDE DEF T0
    <3> QED
      BY <1>5, <1>8, <3>1 DEF IsPlaced
  <2> QED
    BY <1>5, <2>1, <2>2
<1>10. members \in Seq([number : Name, value : PlainObject])
  BY <1>5 DEF StreamObject
<1>11. ASSUME NEW o \in DOMAIN T0, T0[o].con = con
       PROVE  LET i == T0[o].index
              IN  ReadOf(parts, n, o) = IF i \in DOMAIN members /\ members[i].number = o THEN members[i].value
                                        ELSE Unreadable
  BY <1>3, <1>5, <1>6, <1>11, ReadUnpacked
<1> HIDE DEF n, T, T0, members
<1>12. \A i \in DOMAIN members : /\ members[i].number \in Name /\ members[i].value \in PlainObject
                                 /\ members[i].value # None /\ members[i].value # Unreadable
  <2>1. \A i \in DOMAIN members : members[i] \in [number : Name, value : PlainObject]
    BY <1>10, SeqMember
  <2>2. \A v \in PlainObject : v # None /\ v # Unreadable
    BY ConstantsAssumption
  <2> QED
    BY <2>1, <2>2
<1>13. \A o \in held : /\ T0[o].index \in DOMAIN members /\ members[T0[o].index].number = o
                       /\ Now[o] = members[T0[o].index].value
  <2>1. ASSUME NEW o \in held
        PROVE  /\ T0[o].index \in DOMAIN members /\ members[T0[o].index].number = o
               /\ Now[o] = members[T0[o].index].value
    <3>1. o \in DOMAIN T0 /\ T0[o].con = con /\ o \in DOMAIN Now
      BY <1>8
    <3>2. Now[o] = Kept(ReadOf(parts, n, o)) /\ Now[o] # None /\ Now[o] # Unreadable
      BY <1>3, <1>4, <3>1 DEF Val
    <3>3. ReadOf(parts, n, o) # Unreadable /\ Now[o] = ReadOf(parts, n, o)
      BY <3>2 DEF Kept
    <3> QED
      BY <1>11, <3>1, <3>3
  <2> QED
    BY <2>1
<1>14. members # <<>>
  BY <1>2, <1>13
<1>15. CASE Update(<<>>, <<>>, {con}, TRUE, without)
  <2>1. PICK p : /\ Extends(parts, parts', p) /\ p.objects = <<>>
                 /\ p.sections[1].table = <<>> /\ p.sections[1].free = {con}
    <3> DEFINE yes == TRUE
               nil == <<>>
               free == {con}
    <3>1. \A o \in DOMAIN nil : o \in Name /\ IsEntry([objects |-> nil], New, o, nil[o])
      OBVIOUS
    <3>2. Update(nil, nil, free, yes, without) /\ yes \in BOOLEAN
      BY <1>15
    <3> HIDE DEF yes, nil, free
    <3>3. \E p : /\ Extends(parts, parts', p) /\ p.objects = nil
                 /\ p.sections[1].table = nil /\ p.sections[1].free = free
      BY <3>1, <3>2, UpdateExtends
    <3> QED
      BY <3>3 DEF nil, free
  <2>2. DOMAIN p.sections[1].table = {}
    BY <2>1
  <2>3. Len(parts') = New
    BY <1>3, <2>1, ExtendsIs DEF n
  <2>4. /\ DOMAIN without = {o \in DOMAIN Now : o # con /\ o \notin held}
        /\ \A o \in DOMAIN without : without[o] = Now[o]
    BY DEF without
  <2>5. ASSUME NEW o
        PROVE  Val(without, o) = Kept(ReadOf(parts', New, o))
    <3>1. CASE o = con
      <4>1. ReadOf(parts', New, o) = None
        BY <2>1, <2>2, <2>3, <3>1, NextRead
      <4> QED
        BY <2>4, <3>1, <4>1 DEF Val, Kept
    <3>2. CASE o # con /\ o \in DOMAIN T0 /\ T0[o].con = con
      <4>1. ReadOf(parts', New, o) = None
        BY <1>5, <2>1, <2>2, <2>3, <3>2, NextRead DEF Compressed, T0, n
      <4>2. o \notin DOMAIN without
        BY <1>8, <2>4, <3>2
      <4> QED
        BY <4>1, <4>2 DEF Val, Kept
    <3>3. CASE o # con /\ ~(o \in DOMAIN T0 /\ T0[o].con = con)
      <4>1. ReadOf(parts', New, o) = ReadOf(parts, n, o)
        BY <2>1, <2>2, <2>3, <3>3, NextRead DEF T0, n
      <4>2. Val(without, o) = Val(Now, o)
        BY <1>8, <2>4, <3>3 DEF Val
      <4> QED
        BY <1>3, <4>1, <4>2
    <3> QED
      BY <3>1, <3>2, <3>3
  <2>6. IsContent(without, New)
    <3>1. IsFiniteSet(DOMAIN without)
      BY <1>3, <2>4, FS_Subset DEF IsContent
    <3>2. \A o \in DOMAIN Now : o[1] \in {"cat", "page", "form", "dss"} => o \in DOMAIN without
      BY <1>5, <1>9, <2>4
    <3>3. {Cat, Page} \subseteq DOMAIN without
      BY <1>7, <3>2
    <3>4. {without[Cat].form, without[Cat].dss} \subseteq {None} \union DOMAIN without
      BY <1>7, <2>4, <3>2, <3>3
    <3>5. \A o \in DOMAIN without : IsObject(o, without[o], New)
      BY <1>4, <2>4
    <3> QED
      BY <3>1, <3>3, <3>4, <3>5 DEF IsContent
  <2>7. Reads(parts', New, without)
    BY <2>5 DEF Reads
  <2>8. /\ FileInv' /\ Now' = without
        /\ Len(parts') = New /\ \A k \in 1..Len(parts) : content'[k] = content[k]
    BY <1>15, <2>1, <2>6, <2>7, UpdateKeeps
  <2>9. Evolves(Now, without, New)
    BY <2>4 DEF Evolves
  <2>10. UNCHANGED <<stage, verdicts>>
    BY <1>15 DEF Update
  <2> QED
    BY <2>8, <2>9, <2>10 DEF Grows
<1>16. ASSUME NEW ms, Worn(members, ms), rewrite(ms)
       PROVE  Grows
  <2> DEFINE v == value(ms)
             a == after(ms)
             given == [o \in {con} |-> v]
             table == [o \in {con} |-> At(New)]
  <2>1. Update(given, table, {}, TRUE, a)
    BY <1>16 DEF rewrite
  <2>2. v \in StreamObject /\ v.kind = "con" /\ v.members = ms /\ v # None
    <3>1. Now[con] \in [kind : {"con"}, rest : {0, 1}, members : Seq([number : Name, value : PlainObject])]
      BY <1>5 DEF StreamObject
    <3>2. ms \in Seq([number : Name, value : PlainObject])
      BY <1>16 DEF Worn
    <3> DEFINE S == Seq([number : Name, value : PlainObject])
    <3> HIDE DEF S
    <3>3. /\ v \in [kind : {"con"}, rest : {0, 1}, members : S]
          /\ v.kind = "con" /\ v.members = ms
      BY <3>1, <3>2 DEF value, S
    <3>4. v \in StreamObject
      BY <3>3 DEF S, StreamObject
    <3> HIDE DEF v
    <3> QED
      BY <3>3, <3>4, KindIs
  <2> HIDE DEF v, a
  <2>3. PICK p : /\ Extends(parts, parts', p) /\ p.objects = given
                 /\ p.sections[1].table = table /\ p.sections[1].free = {}
    <3>1. \A o \in DOMAIN table : o \in Name /\ IsEntry([objects |-> given], New, o, table[o])
      BY <1>5 DEF IsEntry, At
    <3> DEFINE yes == TRUE
               free == {}
    <3>2. Update(given, table, free, yes, a) /\ yes \in BOOLEAN
      BY <2>1
    <3> HIDE DEF given, table, yes, free
    <3>3. \E p : /\ Extends(parts, parts', p) /\ p.objects = given
                 /\ p.sections[1].table = table /\ p.sections[1].free = free
      BY <3>1, <3>2, UpdateExtends
    <3> QED
      BY <3>3 DEF free
  <2>4. /\ DOMAIN table = {con} /\ table[con] = At(New) /\ given[con] = v
    OBVIOUS
  <2> HIDE DEF given, table
  <2>5. Len(parts') = New
    BY <1>3, <2>3, ExtendsIs DEF n
  <2>6. /\ DOMAIN a = {o \in DOMAIN Now : o \in held => T0[o].index \in DOMAIN ms}
        /\ con \in DOMAIN a /\ a[con] = v
        /\ \A o \in DOMAIN a : o # con => a[o] = IF o \in held THEN ms[T0[o].index].value ELSE Now[o]
    <3>1. DOMAIN a = stays(ms) /\ \A o \in stays(ms) : a[o] = IF o = con THEN v
                                             ELSE IF o \in held THEN ms[T[o].index].value ELSE Now[o]
      BY DEF a, after, v
    <3>2. stays(ms) = {o \in DOMAIN Now : o \in held => T0[o].index \in DOMAIN ms}
      BY <1>3 DEF stays
    <3>3. con \in stays(ms)
      BY <1>5, <1>9, <3>2
    <3> QED
      BY <1>3, <3>1, <3>2, <3>3
  <2>7. \A i \in DOMAIN ms : /\ i \in DOMAIN members /\ ms[i].number = members[i].number
                             /\ ms[i].value \in {members[i].value, Touched(members[i].value)}
                             /\ ms[i].value \in PlainObject
                             /\ ms[i].value # None /\ ms[i].value # Unreadable
    <3>1. \A i \in DOMAIN ms : ms[i] \in [number : Name, value : PlainObject]
      <4>1. ms \in Seq([number : Name, value : PlainObject])
        BY <1>16 DEF Worn
      <4> QED
        BY <4>1, SeqMember
    <3>2. \A w \in PlainObject : w # None /\ w # Unreadable
      BY ConstantsAssumption
    <3>3. \A i \in DOMAIN ms : ms[i].value \in PlainObject
      BY <3>1
    <3> HIDE DEF Touched
    <3> QED
      BY <1>16, <3>2, <3>3 DEF Worn
  <2>8. ASSUME NEW o
        PROVE  Val(a, o) = Kept(ReadOf(parts', New, o))
    <3>1. CASE o = con
      <4>1. ReadOf(parts', New, o) = v
        BY <2>3, <2>4, <2>5, <3>1, NextRead
      <4>2. v # Unreadable
        BY <2>2, KindIs
      <4> QED
        BY <2>6, <3>1, <4>1, <4>2 DEF Val, Kept
    <3>2. CASE o # con /\ o \in DOMAIN T0 /\ T0[o].con = con
      <4> DEFINE i == T0[o].index
      <4>1. Unpacks(parts, parts', p, o, con, v, i)
        <5>1. LeadsTo(p.sections[1], TableAt(parts, Len(parts)), o, con, i)
          BY <2>3, <2>4, <3>2 DEF LeadsTo, T0, n
        <5>2. con \in DOMAIN p.sections[1].table /\ p.sections[1].table[con] = At(Len(parts'))
          BY <2>3, <2>4, <2>5
        <5> HIDE DEF i
        <5> QED
          BY <1>5, <2>2, <2>3, <2>4, <5>1, <5>2 DEF Unpacks
      <4>2. ReadOf(parts', New, o) = IF i \in DOMAIN ms /\ ms[i].number = o THEN ms[i].value ELSE Unreadable
        <5> HIDE DEF i
        <5> QED
          BY <2>2, <2>5, <4>1, NextUnpacked
      <4>3. ReadOf(parts, n, o) = IF i \in DOMAIN members /\ members[i].number = o THEN members[i].value
                                  ELSE Unreadable
        BY <1>11, <3>2
      <4>4. CASE o \in held
        <5>1. i \in DOMAIN members /\ members[i].number = o
          BY <1>13, <4>4
        <5>2. CASE i \in DOMAIN ms
          <6>1. ReadOf(parts', New, o) = ms[i].value /\ ms[i].value # Unreadable
            BY <2>7, <4>2, <5>1, <5>2
          <6>2. o \in DOMAIN a /\ a[o] = ms[i].value
            BY <1>8, <2>6, <3>2, <4>4, <5>2
          <6> QED
            BY <6>1, <6>2 DEF Val, Kept
        <5>3. CASE i \notin DOMAIN ms
          <6>1. o \notin DOMAIN a
            BY <2>6, <4>4, <5>3
          <6> QED
            BY <4>2, <5>3, <6>1 DEF Val, Kept
        <5> QED
          BY <5>2, <5>3
      <4>5. CASE o \notin held
        <5>1. o \notin DOMAIN Now /\ o \notin DOMAIN a
          BY <1>8, <2>6, <3>2, <4>5
        <5>2. Kept(ReadOf(parts, n, o)) = None
          BY <1>3, <5>1 DEF Val
        <5>3. ~(i \in DOMAIN members /\ members[i].number = o)
          BY <1>12, <4>3, <5>2 DEF Kept
        <5>4. ReadOf(parts', New, o) = Unreadable
          BY <2>7, <4>2, <5>3
        <5> QED
          BY <5>1, <5>4 DEF Val, Kept
      <4> QED
        BY <4>4, <4>5
    <3>3. CASE o # con /\ ~(o \in DOMAIN T0 /\ T0[o].con = con)
      <4>1. ReadOf(parts', New, o) = ReadOf(parts, n, o)
        BY <2>3, <2>4, <2>5, <3>3, NextRead DEF T0, n
      <4>2. Val(a, o) = Val(Now, o)
        BY <1>8, <2>6, <3>3 DEF Val
      <4> QED
        BY <1>3, <4>1, <4>2
    <3> QED
      BY <3>1, <3>2, <3>3
  <2>9. \A o \in DOMAIN a : /\ o \in DOMAIN Now
                            /\ o \in held => T0[o].index \in DOMAIN ms /\ a[o] \in {Now[o], Touched(Now[o])}
                            /\ o \notin held /\ o # con => a[o] = Now[o]
    <3> HIDE DEF Touched
    <3> QED
      BY <1>9, <1>13, <2>6, <2>7
  <2>10. IsContent(a, New)
    <3>1. IsFiniteSet(DOMAIN a)
      <4>1. DOMAIN a \subseteq DOMAIN Now
        BY <2>9
      <4> QED
        BY <1>3, <4>1, FS_Subset DEF IsContent
    <3>2. \A o \in DOMAIN Now : o[1] \in {"cat", "page", "form", "dss"} => o \in DOMAIN a /\ a[o] = Now[o]
      BY <1>5, <1>9, <2>6
    <3>3. {Cat, Page} \subseteq DOMAIN a
      BY <1>7, <3>2
    <3>4. {a[Cat].form, a[Cat].dss} \subseteq {None} \union DOMAIN a
      BY <1>7, <3>2
    <3>5. IsObject(con, v, New)
      <4>1. con \in Kinds \X (-New..New)
        BY <1>4, <1>5 DEF IsObject
      <4> QED
        BY <1>5, <2>2, <4>1 DEF IsObject
    <3>6. \A o \in DOMAIN a : IsObject(o, a[o], New)
      <4>1. ASSUME NEW o \in held
            PROVE  IsObject(o, Now[o], New) /\ IsObject(o, Touched(Now[o]), New)
        BY <1>4, <1>8, <1>9, TouchedObject
      <4> HIDE DEF Touched
      <4> QED
        BY <1>4, <2>6, <2>9, <3>5, <4>1
    <3> QED
      BY <3>1, <3>3, <3>4, <3>6 DEF IsContent
  <2>11. Reads(parts', New, a)
    BY <2>8 DEF Reads
  <2>12. /\ FileInv' /\ Now' = a
         /\ Len(parts') = New /\ \A k \in 1..Len(parts) : content'[k] = content[k]
    BY <2>1, <2>3, <2>10, <2>11, UpdateKeeps
  <2>13. Evolves(Now, a, New)
    <3>1. ASSUME NEW o \in DOMAIN a, o[1] = "field"
          PROVE  Now[o].v = a[o].v
      <4>1. o # con /\ o \in DOMAIN Now
        BY <1>5, <2>9, <3>1
      <4>2. CASE o \in held
        <5>1. Now[o] \in PlainObject /\ Now[o].kind = "field"
          BY <1>4, <3>1, <4>1, TouchedObject
        <5>2. Touched(Now[o]).v = Now[o].v
          BY <5>1, TouchedIs
        <5> HIDE DEF Touched
        <5> QED
          BY <2>9, <4>2, <5>2
      <4>3. CASE o \notin held
        BY <2>9, <4>1, <4>3
      <4> QED
        BY <4>2, <4>3
    <3> QED
      BY <2>9, <3>1 DEF Evolves
  <2>14. UNCHANGED <<stage, verdicts>>
    BY <2>1 DEF Update
  <2> QED
    BY <2>12, <2>13, <2>14 DEF Grows
<1>17. Worn(members, [members EXCEPT ![1].value.rest = 1]) /\ Worn(members, Front(members))
  BY <1>10, <1>14, WornIs
<1> QED
  BY <1>2, <1>15, <1>16, <1>17

\* Every update makes the file grow as it should.
LEMMA GrowGrows ==
    ASSUME FileInv, Grow
    PROVE  Grows
<1>1. Slot \in Named("field")
  BY DEF Slot, Named
<1>2. "none" \in Looks /\ "seen" \in Looks /\ TRUE \in BOOLEAN /\ FALSE \in BOOLEAN
  BY DEF Looks
<1>3. {} \in SUBSET Named("field") /\ {Slot} \in SUBSET Named("field")
  BY <1>1
<1> DEFINE yes == TRUE
           no == FALSE
           nothing == {}
<1>4. yes \in BOOLEAN /\ no \in BOOLEAN /\ nothing \in SUBSET Named("field")
  OBVIOUS
<1>5. \/ \E closed \in BOOLEAN : Sign("none", yes, nothing, no, closed)
      \/ Sign("none", yes, nothing, yes, yes)
      \/ \E good \in BOOLEAN : Sign("seen", good, nothing, no, yes)
      \/ Sign("none", yes, {Slot}, no, yes)
      \/ \E mdp \in 1..2 : Certify(mdp)
      \/ \E good \in BOOLEAN : Fill(good, no)
      \/ Fill(yes, yes)
      \/ \E look \in Looks : Archive(look)
      \/ AddStore
      \/ \E closed \in BOOLEAN : Alter(closed)
      \/ Reorder \/ AddOther \/ Delete \/ TouchContainer
  BY DEF Grow
<1> HIDE DEF yes, no, nothing
<1>6. CASE \E closed \in BOOLEAN : Sign("none", yes, nothing, no, closed)
  BY <1>2, <1>4, <1>6, SignGrows
<1>7. CASE Sign("none", yes, nothing, yes, yes)
  BY <1>2, <1>4, <1>7, SignGrows
<1>8. CASE \E good \in BOOLEAN : Sign("seen", good, nothing, no, yes)
  BY <1>2, <1>4, <1>8, SignGrows
<1>9. CASE Sign("none", yes, {Slot}, no, yes)
  BY <1>2, <1>3, <1>4, <1>9, SignGrows
<1>10. CASE \E mdp \in 1..2 : Certify(mdp)
  BY <1>10, CertifyGrows
<1>11. CASE \E good \in BOOLEAN : Fill(good, no)
  BY <1>4, <1>11, FillGrows
<1>12. CASE Fill(yes, yes)
  BY <1>4, <1>12, FillGrows
<1>13. CASE \E look \in Looks : Archive(look)
  BY <1>13, ArchiveGrows
<1>14. CASE AddStore
  BY <1>14, AddStoreGrows
<1>15. CASE \E closed \in BOOLEAN : Alter(closed)
  BY <1>15, AlterGrows
<1>16. CASE Reorder
  BY <1>16, ReorderGrows
<1>17. CASE AddOther
  BY <1>17, AddOtherGrows
<1>18. CASE Delete
  BY <1>18, DeleteGrows
<1>19. CASE TouchContainer
  BY <1>19, TouchGrows
<1> QED
  BY <1>5, <1>6, <1>7, <1>8, <1>9, <1>10, <1>11, <1>12, <1>13, <1>14, <1>15, <1>16, <1>17, <1>18, <1>19

\* A base is read as its content says.
LEMMA BaseInv ==
    ASSUME NEW b \in Bases, parts = <<b.part>>, content = <<b.content>>
    PROVE  FileInv
<1> DEFINE f == <<b.part>>
           table == MergeSections(f, Chain(f))
<1>1. IsBase(b)
  BY BasesAssumption
<1>2. IsPart(b.part, 1)
  BY <1>1 DEF IsBase, IsPart
<1>3. IsSequence(f) /\ Len(f) = 1 /\ f[1] = b.part
  <2>1. f \in Seq({f[i] : i \in DOMAIN f})
    OBVIOUS
  <2> QED
    BY <2>1 DEF IsSequence
<1>4. IsGrown(f)
  BY <1>2, <1>3 DEF IsGrown
<1>5. TableAt(f, 1) = table
  <2>1. TableAt(f, Len(f)) = table
    BY <1>4, ChainAll
  <2> QED
    BY <1>3, <2>1
<1>6. /\ IsContent(b.content, 1)
      /\ \A o \in DOMAIN table \union DOMAIN b.content : Val(b.content, o) = Kept(Object(f, End(1), table, o))
  BY <1>1 DEF IsBase, Kept
<1> HIDE DEF table, f
<1>7. Reads(f, 1, b.content)
  BY <1>5, <1>6 DEF Reads, ReadOf
<1>8. IsSequence(content) /\ Len(content) = 1 /\ content[1] = b.content
  <2>1. content \in Seq({content[i] : i \in DOMAIN content})
    OBVIOUS
  <2> QED
    BY <2>1 DEF IsSequence
<1>9. parts = f
  BY DEF f
<1> QED
  BY <1>3, <1>4, <1>6, <1>7, <1>8, <1>9 DEF FileInv



\* A step that writes nothing keeps the file and its contents.
LEMMA Unwritten ==
    ASSUME FileInv, UNCHANGED <<parts, content>>
    PROVE  FileInv' /\ Now' = Now
BY DEF FileInv, Now, Last, Reads

\* However the file grows, a reader of its first k parts finds content[k], every
\* object by its latest section, alone or in a stream (the merge of the xref
\* sections and signedFile's reading of a revision).
THEOREM ContentsAreRead == ReviewSpec => []FileInv
<1>1. ReviewInit => FileInv
  BY BaseInv DEF ReviewInit
<1>2. FileInv /\ [ReviewNext]_reviewVars => FileInv'
  <2> SUFFICES ASSUME FileInv, [ReviewNext]_reviewVars
               PROVE  FileInv'
    OBVIOUS
  <2>1. CASE stage = "writing" /\ Grow
    BY <2>1, GrowGrows DEF Grows
  <2>2. CASE UNCHANGED <<parts, content>>
    BY <2>2, Unwritten
  <2> QED
    BY <2>1, <2>2 DEF ReviewNext, VerifyAll, JudgeWhole, Compare, Judge, GiveUp, Done, written, reviewVars
<1> QED
  BY <1>1, <1>2, PTL DEF ReviewSpec

-----------------------------------------------------------------------------
(* The comparison.                                                          *)

\* The objects that two readers find different.
Differ(c, d) == {o \in DOMAIN c \union DOMAIN d : Val(c, o) # Val(d, o)}

\* The state a comparison holds is what is read.
LEMMA StateIs ==
    ASSUME NEW f, NEW end, NEW T, NEW o
    PROVE  Val(StateOf(f, end, T), o) = Object(f, end, T, o)
<1> DEFINE read == [x \in DOMAIN T |-> Object(f, end, T, x)]
           S == StateOf(f, end, T)
<1>1. /\ DOMAIN S = {x \in DOMAIN T : read[x] # None}
      /\ \A x \in DOMAIN S : S[x] = read[x]
  BY DEF StateOf
<1>2. \A x \in DOMAIN T : read[x] = Object(f, end, T, x)
  OBVIOUS
<1>3. o \notin DOMAIN T => Object(f, end, T, o) = None
  BY DEF Object
<1> HIDE DEF S, read
<1> QED
  BY <1>1, <1>2, <1>3 DEF Val, S

\* An entry that both tables have, and whose bytes lie before the end of the
\* older, leads to the same object.
LEMMA SameBytes ==
    ASSUME NEW f, IsGrown(f), NEW k \in 1..Len(f), NEW m \in 1..Len(f), k <= m, NEW o,
           o \notin Compared(TableAt(f, k), TableAt(f, m), End(k))
    PROVE  ReadOf(f, k, o) = ReadOf(f, m, o)
<1> DEFINE T == TableAt(f, k)
           U == TableAt(f, m)
<1>0. ReadOf(f, k, o) = Object(f, End(k), T, o) /\ ReadOf(f, m, o) = Object(f, End(m), U, o)
  BY DEF ReadOf
<1>1. CASE o \notin DOMAIN T \union DOMAIN U
  <2> HIDE DEF T, U
  <2> QED
    BY <1>0, <1>1 DEF Object
<1>2. CASE o \in DOMAIN T \union DOMAIN U
  <2>1. o \in DOMAIN T /\ o \in DOMAIN U /\ T[o] = U[o] /\ SameBytesBefore(U[o], T, U, End(k))
    BY <1>2 DEF Compared
  <2>2. ASSUME NEW e, e.part \in 1..k, NEW x
        PROVE  ParseAt(f, End(k), e, x) = ParseAt(f, End(m), e, x)
    <3>1. e.part \in 1..m /\ k \in Nat /\ m \in Nat
      BY <2>2, FileIs
    <3> QED
      BY <2>2, <3>1, ParseIs
  <2>3. ~Compressed(T[o]) => T[o].part \in 1..k
    BY <2>1, EntryIsPlaced DEF IsPlaced, Compressed
  <2>4. Compressed(T[o]) => T[o].con \in DOMAIN T /\ T[o].con \in DOMAIN U /\ T[T[o].con] = U[T[o].con]
    <3> HIDE DEF T, U
    <3> QED
      BY <2>1 DEF SameBytesBefore
  <2>5. Compressed(T[o]) => T[T[o].con].part \in 1..k
    BY <2>1, <2>4, ContainerIsPlaced DEF Compressed
  <2> HIDE DEF T, U
  <2>6. Object(f, End(k), T, o) = Object(f, End(m), U, o)
    BY <2>1, <2>2, <2>3, <2>4, <2>5, ObjectSame
  <2> QED
    BY <1>0, <2>6
<1> QED
  BY <1>1, <1>2

\* What was found to differ is what the readers of both find different.
Compares(d, c) ==
    /\ \A o : Val(c, o) = Kept(Val(d.was, o)) /\ Val(Now, o) = Kept(Val(d.is, o))
    /\ d.changes = Differ(c, Now)
    /\ \A o \in d.changes : Unreadable \notin {Val(d.was, o), Val(d.is, o)}

\* A comparison that fails on nothing is exact.
LEMMA CompareIs ==
    ASSUME FileInv, NEW k \in 1..Len(parts), EndsMarked(parts, k), NEW s,
           LET end  == End(k)
               old  == MergeSections(parts, SectionsBefore(parts, end))
               new  == MergeSections(parts, Chain(parts))
               compared == Compared(old, new, end)
               was  == StateOf(parts, end, old)
               is   == StateOf(parts, Length(parts), new)
           IN  /\ ~ \E o \in compared : Unreadable \in {Val(was, o), Val(is, o)}
               /\ diff' = [of |-> s, was |-> was, is |-> is,
                           changes |-> {o \in compared : Val(was, o) # Val(is, o)}]
    PROVE  diff'.of = s /\ Compares(diff', content[k])
<1> DEFINE n == Len(parts)
           T == TableAt(parts, k)
           U == TableAt(parts, n)
           compared == Compared(T, U, End(k))
           was == StateOf(parts, End(k), T)
           is == StateOf(parts, End(n), U)
           d == [of |-> s, was |-> was, is |-> is, changes |-> {o \in compared : Val(was, o) # Val(is, o)}]
<1>1. /\ IsGrown(parts) /\ n \in 1..Len(parts) /\ k <= n /\ Reads(parts, k, content[k])
      /\ \A o : Val(Now, o) = Kept(ReadOf(parts, n, o))
  BY NowIs DEF FileInv
<1>2. /\ MergeSections(parts, SectionsBefore(parts, End(k))) = T
      /\ MergeSections(parts, Chain(parts)) = U
      /\ Length(parts) = End(n)
  <2>1. SectionsBefore(parts, End(k)) = UpTo(parts, k)
    BY <1>1, BeforeIs
  <2> QED
    BY <1>1, <2>1, ChainAll DEF TableAt, Length
<1>3. /\ \A o \in compared : Unreadable \notin {Val(was, o), Val(is, o)}
      /\ diff' = d
  BY <1>2
<1>4. \A o : Val(was, o) = ReadOf(parts, k, o) /\ Val(is, o) = ReadOf(parts, n, o)
  BY StateIs DEF ReadOf
<1>5. \A o : o \notin compared => Val(was, o) = Val(is, o)
  BY <1>1, <1>4, SameBytes
<1>6. \A o : Val(content[k], o) = Kept(Val(was, o)) /\ Val(Now, o) = Kept(Val(is, o))
  BY <1>1, <1>4, ReadsAll
<1>7. d.of = s /\ d.was = was /\ d.is = is /\ d.changes = {o \in compared : Val(was, o) # Val(is, o)}
  OBVIOUS
<1> HIDE DEF d, was, is, compared
<1>8. \A o \in d.changes : Unreadable \notin {Val(was, o), Val(is, o)}
  BY <1>3, <1>7
<1>9. d.changes = Differ(content[k], Now)
  <2> DEFINE c == content[k]
  <2> HIDE DEF c
  <2>0. \A o : Val(c, o) = Kept(Val(was, o))
    BY <1>6 DEF c
  <2>1. ASSUME NEW o \in d.changes
        PROVE  o \in DOMAIN c \union DOMAIN Now /\ Val(c, o) # Val(Now, o)
    <3>1. Val(was, o) # Val(is, o) /\ Unreadable \notin {Val(was, o), Val(is, o)}
      BY <1>7, <1>8
    <3>2. Val(c, o) = Val(was, o) /\ Val(Now, o) = Val(is, o)
      BY <1>6, <2>0, <3>1 DEF Kept
    <3> QED
      BY <3>1, <3>2 DEF Val
  <2>2. ASSUME NEW o, Val(c, o) # Val(Now, o)
        PROVE  o \in d.changes
    <3>1. Val(was, o) # Val(is, o)
      BY <1>6, <2>0, <2>2
    <3> QED
      BY <1>5, <1>7, <3>1
  <2>3. d.changes = Differ(c, Now)
    BY <2>1, <2>2 DEF Differ
  <2> QED
    BY <2>3 DEF c
<1> QED
  BY <1>3, <1>6, <1>7, <1>8, <1>9 DEF Compares

-----------------------------------------------------------------------------
(* The results.                                                             *)

IsResult(r) ==
    /\ r = [valid |-> r.valid, revision |-> r.revision, whole |-> r.whole, judged |-> r.judged,
            allowed |-> r.allowed, visible |-> r.visible, changed |-> r.changed]
    /\ r.valid \in BOOLEAN /\ r.judged \in BOOLEAN /\ r.allowed \in BOOLEAN

\* The result of a signature: its revision is the part that made it, and ends at
\* a marker; it is judged if it is not valid; what was found to differ does.
Reviewed(s) ==
    LET r == results[s]
    IN  /\ IsResult(r)
        /\ s \in documentSignatures
        /\ r.revision \in {-1, RangeEnd(s)}
        /\ r.revision # -1 => \E k \in 1..Len(parts) : r.revision = End(k) /\ EndsMarked(parts, k)
        /\ r.valid \/ r.judged
        /\ r.valid /\ ~r.whole => r.revision # -1
        /\ r.allowed => r.judged
        /\ r.changed # None => r.revision # -1 /\ r.changed = Differ(Then(s), Now)

ReviewInv ==
    /\ FileInv
    /\ stage = "writing" => results = <<>> /\ diff = None
    /\ \A s \in DOMAIN results : Reviewed(s)
    /\ diff # None => /\ diff.of \in Waiting /\ ~results[diff.of].whole
                      /\ Compares(diff, Then(diff.of))

\* A verdict is on one signature.
LEMMA ConcludeIs ==
    ASSUME NEW s \in DOMAIN results, IsResult(results[s]), NEW allowed, NEW visible, NEW changed,
           Conclude(s, allowed, visible, changed)
    PROVE  /\ DOMAIN results' = DOMAIN results
           /\ \A t \in DOMAIN results : t # s => results'[t] = results[t]
           /\ results'[s] = [valid |-> results[s].valid, revision |-> results[s].revision,
                             whole |-> results[s].whole, judged |-> TRUE, allowed |-> allowed,
                             visible |-> visible, changed |-> changed]
<1> DEFINE r == results[s]
           a == [r EXCEPT !.judged = TRUE, !.allowed = allowed, !.visible = visible, !.changed = changed]
           b == [valid |-> r.valid, revision |-> r.revision, whole |-> r.whole, judged |-> TRUE,
                 allowed |-> allowed, visible |-> visible, changed |-> changed]
<1>1. results' = [results EXCEPT ![s] = a]
  BY DEF Conclude
<1>2. a = b
  <2>1. DOMAIN r = {"valid", "revision", "whole", "judged", "allowed", "visible", "changed"}
    BY DEF IsResult
  <2> HIDE DEF r
  <2>2. DOMAIN a = {"valid", "revision", "whole", "judged", "allowed", "visible", "changed"}
    BY <2>1
  <2>3. DOMAIN b = {"valid", "revision", "whole", "judged", "allowed", "visible", "changed"}
    OBVIOUS
  <2>4. a = [x \in DOMAIN a |-> a[x]] /\ b = [x \in DOMAIN b |-> b[x]]
    OBVIOUS
  <2>5. /\ a.valid = r.valid /\ a.revision = r.revision /\ a.whole = r.whole /\ a.judged = TRUE
    BY <2>1
  <2>6. a.allowed = allowed /\ a.visible = visible /\ a.changed = changed
    BY <2>1
  <2>7. /\ b.valid = r.valid /\ b.revision = r.revision /\ b.whole = r.whole /\ b.judged = TRUE
        /\ b.allowed = allowed /\ b.visible = visible /\ b.changed = changed
    OBVIOUS
  <2> HIDE DEF a, b
  <2>8. \A x \in DOMAIN a : a[x] = b[x]
    BY <2>2, <2>5, <2>6, <2>7
  <2>9. DOMAIN a = DOMAIN b
    BY <2>2, <2>3
  <2> QED
    BY <2>4, <2>8, <2>9
<1> HIDE DEF a, b
<1> QED
  BY <1>1, <1>2 DEF b

\* Every result is as it was, or is judged now.
LEMMA JudgedKeeps ==
    ASSUME ReviewInv, NEW s \in Waiting, NEW allowed \in BOOLEAN, NEW visible, NEW changed,
           Conclude(s, allowed, visible, changed), UNCHANGED <<parts, content, stage>>,
           changed # None => results[s].revision # -1 /\ changed = Differ(Then(s), Now),
           stage # "writing"
    PROVE  /\ \A t \in DOMAIN results' : Reviewed(t)'
           /\ stage' = "writing" => results' = <<>>
           /\ FileInv' /\ Now' = Now
<1>1. s \in DOMAIN results /\ ~results[s].judged /\ IsResult(results[s]) /\ Reviewed(s)
  BY DEF Waiting, ReviewInv, Reviewed
<1>2. /\ DOMAIN results' = DOMAIN results
      /\ \A t \in DOMAIN results : t # s => results'[t] = results[t]
      /\ results'[s] = [valid |-> results[s].valid, revision |-> results[s].revision,
                        whole |-> results[s].whole, judged |-> TRUE, allowed |-> allowed,
                        visible |-> visible, changed |-> changed]
  BY <1>1, ConcludeIs
<1>3. FileInv' /\ Now' = Now /\ parts' = parts /\ content' = content
  BY Unwritten DEF ReviewInv
<1>4. documentSignatures' = documentSignatures /\ \A t : RangeEnd(t)' = RangeEnd(t)
  BY <1>3 DEF documentSignatures, RangeEnd
<1>5. ASSUME NEW t \in DOMAIN results, t # s
      PROVE  Reviewed(t)'
  <2>1. Reviewed(t) /\ results'[t] = results[t]
    BY <1>2, <1>5 DEF ReviewInv
  <2>2. Then(t)' = Then(t)
    BY <1>3, <2>1 DEF Then
  <2>3. RangeEnd(t)' = RangeEnd(t)
    BY <1>4
  <2> QED
    BY <1>3, <1>4, <2>1, <2>2, <2>3 DEF Reviewed, IsResult
<1>6. Reviewed(s)'
  <2> DEFINE r == results'[s]
  <2>1. /\ r.valid = results[s].valid /\ r.revision = results[s].revision /\ r.whole = results[s].whole
        /\ r.judged = TRUE /\ r.allowed = allowed /\ r.visible = visible /\ r.changed = changed
        /\ r = [valid |-> results[s].valid, revision |-> results[s].revision,
                whole |-> results[s].whole, judged |-> TRUE, allowed |-> allowed,
                visible |-> visible, changed |-> changed]
    BY <1>2
  <2>2. Then(s)' = Then(s)
    BY <1>3, <2>1 DEF Then
  <2>3. RangeEnd(s)' = RangeEnd(s)
    BY <1>4
  <2> HIDE DEF r
  <2>4. IsResult(r)
    BY <1>1, <2>1 DEF IsResult
  <2>5. /\ s \in documentSignatures' /\ r.revision \in {-1, RangeEnd(s)'}
        /\ r.revision # -1 => \E k \in 1..Len(parts') : r.revision = End(k) /\ EndsMarked(parts', k)
        /\ r.valid \/ r.judged
        /\ r.valid /\ ~r.whole => r.revision # -1
        /\ r.allowed => r.judged
    BY <1>1, <1>3, <1>4, <2>1, <2>3 DEF Reviewed
  <2>6. r.changed # None => r.revision # -1 /\ r.changed = Differ(Then(s)', Now')
    BY <1>3, <2>1, <2>2
  <2> QED
    BY <2>4, <2>5, <2>6 DEF Reviewed, r
<1> QED
  BY <1>2, <1>3, <1>5, <1>6

\* A signature's revision is the part that made it, closed by a marker.
LEMMA RevisionOfIs ==
    ASSUME FileInv, NEW s \in documentSignatures
    PROVE  LET r == RevisionOf(RevisionEnds(parts), s)
           IN  /\ r \in {-1, RangeEnd(s)}
               /\ r # -1 => \E k \in 1..Len(parts) : r = End(k) /\ EndsMarked(parts, k)
<1> DEFINE r == RevisionOf(RevisionEnds(parts), s)
           ends == RevisionEnds(parts)
           above == {e \in ends : e >= RangeEnd(s)}
           n == Length(parts)
           by == Now[s].by
<1>1. IsGrown(parts) /\ IsContent(Now, Len(parts)) /\ Len(parts) \in Nat
  BY NowIs DEF FileInv
<1>2. by \in Nat
  <2>1. s \in DOMAIN Now /\ Now[s].kind = "sig"
    BY DEF documentSignatures
  <2>2. IsObject(s, Now[s], Len(parts)) /\ Now[s].kind = s[1]
    BY <1>1, <2>1, ContentIs
  <2> QED
    BY <2>1, <2>2 DEF IsObject
<1>3. ends \in SUBSET (-1..n) /\ n \in Nat
  BY <1>1, EndsAre DEF Length, End, Span
<1>4. RangeEnd(s) = End(by)
  BY DEF RangeEnd
<1>5. \/ r = -1
      \/ above # {} /\ Min(above) = RangeEnd(s) /\ r = Min(above)
  BY DEF RevisionOf
<1> HIDE DEF r, ends, n, by
<1>6. ASSUME above # {}, Min(above) = RangeEnd(s)
      PROVE  \E k \in 1..Len(parts) : RangeEnd(s) = End(k) /\ EndsMarked(parts, k)
  <2>1. above \in SUBSET (-1..n)
    BY <1>3
  <2> HIDE DEF above
  <2>2. Min(above) \in above
    BY <1>3, <1>6, <2>1, MinIs
  <2>3. End(by) \in RevisionEnds(parts)
    BY <1>4, <1>6, <2>2 DEF above, ends
  <2>4. by \in 1..Len(parts) /\ EndsMarked(parts, by)
    BY <1>1, <1>2, <2>3, EndIsMarked
  <2> QED
    BY <1>4, <2>4
<1> QED
  BY <1>5, <1>6 DEF r

\* The signatures are found, and those over the same bytes thrown out.
LEMMA VerifyKeeps ==
    ASSUME ReviewInv, VerifyAll, stage = "writing"
    PROVE  ReviewInv'
<1> DEFINE ends   == RevisionEnds(parts)
           ranged == {s \in documentSignatures : RevisionOf(ends, s) # -1 \/ Covers(s)}
           valid(s) == /\ s \in ranged
                       /\ \A t \in ranged \ {s} : RangeEnd(t) # RangeEnd(s)
                       /\ Now[s].good
           result(s) == [valid |-> valid(s), revision |-> RevisionOf(ends, s), whole |-> Covers(s),
                         judged |-> ~valid(s), allowed |-> FALSE, visible |-> {}, changed |-> None]
<1>1. /\ stage' = "judging"
      /\ results' = [s \in documentSignatures |-> result(s)]
      /\ parts' = parts /\ content' = content /\ diff' = diff
  BY DEF VerifyAll, written
<1>2. FileInv' /\ Now' = Now /\ diff' = None
  BY <1>1, Unwritten DEF ReviewInv
<1>3. documentSignatures' = documentSignatures /\ \A t : RangeEnd(t)' = RangeEnd(t)
  BY <1>2 DEF documentSignatures, RangeEnd
<1>4. ASSUME NEW s \in documentSignatures
      PROVE  Reviewed(s)'
  <2> DEFINE r == results'[s]
  <2>1. r = result(s)
    BY <1>1
  <2>2. Now[s].good \in BOOLEAN
    <3>1. s \in DOMAIN Now /\ Now[s].kind = "sig"
      BY DEF documentSignatures
    <3>2. Now[s] \in SigObject
      <4>1. FileInv
        BY DEF ReviewInv
      <4>2. IsContent(Now, Len(parts)) /\ Len(parts) \in Nat
        BY <4>1, NowIs
      <4>3. Now[s] \in PlainObject \union StreamObject
        BY <3>1, <4>2, ContentIs
      <4> QED
        BY <3>1, <4>3, KindIs
    <3> QED
      BY <3>2 DEF SigObject
  <2>3. valid(s) \in BOOLEAN /\ (valid(s) => RevisionOf(ends, s) # -1 \/ Covers(s))
    OBVIOUS
  <2>4. /\ r.valid = valid(s) /\ r.revision = RevisionOf(ends, s) /\ r.whole = Covers(s)
        /\ r.judged = ~valid(s) /\ r.allowed = FALSE /\ r.visible = {} /\ r.changed = None
        /\ r = [valid |-> valid(s), revision |-> RevisionOf(ends, s), whole |-> Covers(s),
                judged |-> ~valid(s), allowed |-> FALSE, visible |-> {}, changed |-> None]
    BY <2>1
  <2> HIDE DEF valid, r
  <2>5. IsResult(r)
    BY <2>3, <2>4 DEF IsResult
  <2>6. /\ r.revision \in {-1, RangeEnd(s)}
        /\ r.revision # -1 => \E k \in 1..Len(parts) : r.revision = End(k) /\ EndsMarked(parts, k)
    <3>1. FileInv
      BY DEF ReviewInv
    <3> HIDE DEF ends
    <3> QED
      BY <2>4, <3>1, RevisionOfIs DEF ends
  <2>7. (r.valid \/ r.judged) /\ (r.valid /\ ~r.whole => r.revision # -1) /\ (r.allowed => r.judged)
    BY <2>3, <2>4
  <2>8. RangeEnd(s)' = RangeEnd(s)
    BY <1>3
  <2> QED
    BY <1>1, <1>3, <2>4, <2>5, <2>6, <2>7, <2>8 DEF Reviewed, r
<1>5. DOMAIN results' = documentSignatures
  BY <1>1
<1> QED
  BY <1>1, <1>2, <1>4, <1>5 DEF ReviewInv

\* What waits is valid and not yet allowed, and has a revision or covers the
\* whole file.
LEMMA WaitingIs ==
    ASSUME ReviewInv, NEW s \in Waiting
    PROVE  /\ s \in DOMAIN results /\ stage # "writing" /\ Reviewed(s)
           /\ results[s].valid /\ ~results[s].judged /\ ~results[s].allowed
           /\ ~results[s].whole => results[s].revision # -1
<1>1. s \in DOMAIN results /\ ~results[s].judged
  BY DEF Waiting
<1>2. Reviewed(s)
  BY <1>1 DEF ReviewInv
<1>3. stage # "writing"
  BY <1>1 DEF ReviewInv
<1> QED
  BY <1>1, <1>2, <1>3 DEF Reviewed, IsResult

\* The comparison is between the revision of a result and the file as it stands.
LEMMA ThenIs ==
    ASSUME ReviewInv, NEW s \in DOMAIN results, results[s].revision # -1
    PROVE  \E k \in 1..Len(parts) : /\ results[s].revision = End(k) /\ EndsMarked(parts, k)
                                    /\ Then(s) = content[k] /\ IsContent(content[k], k)
                                    /\ results[s].revision = RangeEnd(s)
<1>1. PICK k \in 1..Len(parts) : results[s].revision = End(k) /\ EndsMarked(parts, k)
  BY DEF ReviewInv, Reviewed
<1>2. k \in Nat /\ IsContent(content[k], k)
  BY FileIs DEF ReviewInv, FileInv
<1>3. End(k) \div Span = k
  BY <1>2 DEF End, Span
<1>4. results[s].revision = RangeEnd(s)
  BY DEF ReviewInv, Reviewed
<1> QED
  BY <1>1, <1>2, <1>3, <1>4 DEF Then

\* A comparison made is of the file as it stands, while it stands.
LEMMA StillCompares ==
    ASSUME Now' = Now, NEW d, NEW c
    PROVE  Compares(d, c) <=> Compares(d, c)'
BY DEF Compares

\* The verdict on what covers the whole file.
LEMMA JudgeWholeKeeps ==
    ASSUME ReviewInv, JudgeWhole
    PROVE  ReviewInv'
<1>1. PICK s \in Waiting : Conclude(s, TRUE, {}, None) /\ results[s].whole
  BY DEF JudgeWhole
<1>2. UNCHANGED <<parts, content, stage, diff>>
  BY DEF JudgeWhole, written
<1> DEFINE yes == TRUE
           none == {}
<1>3. yes \in BOOLEAN /\ Conclude(s, yes, none, None)
  BY <1>1
<1> HIDE DEF yes, none
<1>4. stage # "writing" /\ s \in DOMAIN results /\ IsResult(results[s])
  BY WaitingIs DEF Reviewed
<1>5. /\ \A t \in DOMAIN results' : Reviewed(t)'
      /\ stage' = "writing" => results' = <<>>
      /\ FileInv' /\ Now' = Now
  BY <1>2, <1>3, <1>4, JudgedKeeps
<1>6. ASSUME diff # None
      PROVE  diff.of \in Waiting' /\ ~results'[diff.of].whole /\ Compares(diff, Then(diff.of))'
  <2>1. diff.of \in Waiting /\ ~results[diff.of].whole /\ Compares(diff, Then(diff.of))
    BY <1>6 DEF ReviewInv
  <2>2. diff.of # s /\ diff.of \in DOMAIN results
    BY <1>1, <2>1 DEF Waiting
  <2>3. results'[diff.of] = results[diff.of] /\ diff.of \in DOMAIN results'
    BY <1>3, <1>4, <2>2, ConcludeIs
  <2>4. Then(diff.of)' = Then(diff.of)
    BY <1>2, <2>3 DEF Then
  <2> QED
    BY <1>2, <1>5, <2>1, <2>3, <2>4, StillCompares DEF Waiting
<1> QED
  BY <1>2, <1>4, <1>5, <1>6 DEF ReviewInv

\* The verdict when the budget is gone.
LEMMA GiveUpKeeps ==
    ASSUME ReviewInv, GiveUp
    PROVE  ReviewInv'
<1>1. PICK s \in Waiting : Conclude(s, FALSE, {}, None)
  BY DEF GiveUp
<1>2. UNCHANGED <<parts, content, stage, diff>> /\ diff = None
  BY DEF GiveUp, written
<1> DEFINE no == FALSE
           none == {}
<1>3. no \in BOOLEAN /\ Conclude(s, no, none, None)
  BY <1>1
<1> HIDE DEF no, none
<1>4. stage # "writing"
  BY WaitingIs
<1>5. /\ \A t \in DOMAIN results' : Reviewed(t)'
      /\ stage' = "writing" => results' = <<>>
      /\ FileInv'
  BY <1>2, <1>3, <1>4, JudgedKeeps
<1> QED
  BY <1>2, <1>4, <1>5 DEF ReviewInv

\* The verdict on the changes.
LEMMA JudgeKeeps ==
    ASSUME ReviewInv, Judge
    PROVE  ReviewInv'
<1> DEFINE s == diff.of
           allowed == /\ diff.changes \subseteq Explained(diff)
                      /\ ~Trailing
                      /\ \A o \in Consulted(diff.was) \union Consulted(diff.is) :
                            Unreadable \notin {Val(diff.was, o), Val(diff.is, o)}
           visible == Visible(diff)
           changed == diff.changes
<1>1. Conclude(s, allowed, visible, changed) /\ allowed \in BOOLEAN /\ diff # None /\ diff' = None
  BY DEF Judge
<1>2. UNCHANGED <<parts, content, stage>>
  BY DEF Judge, written
<1>3. s \in Waiting /\ ~results[s].whole /\ changed = Differ(Then(s), Now)
  BY <1>1 DEF ReviewInv, Compares
<1> HIDE DEF allowed, visible, changed, s
<1>4. stage # "writing" /\ results[s].revision # -1
  BY <1>3, WaitingIs
<1>5. /\ \A t \in DOMAIN results' : Reviewed(t)'
      /\ stage' = "writing" => results' = <<>>
      /\ FileInv'
  BY <1>1, <1>2, <1>3, <1>4, JudgedKeeps
<1> QED
  BY <1>1, <1>2, <1>4, <1>5 DEF ReviewInv

\* A comparison is made, or fails.
LEMMA CompareKeeps ==
    ASSUME ReviewInv, Compare
    PROVE  ReviewInv'
<1>1. PICK s \in {x \in Waiting : IsNext(x) /\ ~results[x].whole} :
        LET end      == results[s].revision
            secs     == SectionsBefore(parts, end)
            old      == MergeSections(parts, secs)
            new      == MergeSections(parts, Chain(parts))
            compared == Compared(old, new, end)
            was      == StateOf(parts, end, old)
            is       == StateOf(parts, Length(parts), new)
            nil      == \/ NilContainer(parts, end, old, compared)
                        \/ NilContainer(parts, Length(parts), new, asked \union compared)
            fails    == \/ \E o \in compared : Unreadable \in {Val(was, o), Val(is, o)}
                        \/ ~Closed(parts, secs, end)
        IN  /\ diff = None /\ ~spent
            /\ \/ /\ nil = TRUE
                  /\ stage' = "panicked" /\ results' = <<>>
                  /\ UNCHANGED diff
               \/ /\ fails = TRUE
                  /\ Conclude(s, FALSE, {}, None)
                  /\ UNCHANGED <<stage, diff>>
               \/ /\ fails = FALSE /\ nil = FALSE
                  /\ diff' = [of |-> s, was |-> was, is |-> is,
                              changes |-> {o \in compared : Val(was, o) # Val(is, o)}]
                  /\ UNCHANGED <<stage, results>>
            /\ asked' = asked \union compared
            /\ UNCHANGED <<written, spent>>
  BY DEF Compare
<1> DEFINE end      == results[s].revision
           secs     == SectionsBefore(parts, end)
           old      == MergeSections(parts, secs)
           new      == MergeSections(parts, Chain(parts))
           compared == Compared(old, new, end)
           was      == StateOf(parts, end, old)
           is       == StateOf(parts, Length(parts), new)
           unread   == \E o \in compared : Unreadable \in {Val(was, o), Val(is, o)}
           d        == [of |-> s, was |-> was, is |-> is,
                        changes |-> {o \in compared : Val(was, o) # Val(is, o)}]
<1>2. /\ diff = None /\ UNCHANGED <<parts, content>>
      /\ \/ stage' = "panicked" /\ results' = <<>> /\ diff' = diff
         \/ Conclude(s, FALSE, {}, None) /\ stage' = stage /\ diff' = diff
         \/ ~unread /\ diff' = d /\ stage' = stage /\ results' = results
  <2> HIDE DEF was, is, compared
  <2> QED
    BY <1>1 DEF written, was, is, compared
<1>3. s \in Waiting /\ ~results[s].whole
  BY <1>1
<1>4. s \in DOMAIN results /\ stage # "writing" /\ results[s].revision # -1
  BY <1>3, WaitingIs
<1>5. FileInv' /\ Now' = Now /\ FileInv
  BY <1>2, Unwritten DEF ReviewInv
<1>6. CASE stage' = "panicked" /\ results' = <<>> /\ diff' = diff
  BY <1>2, <1>5, <1>6 DEF ReviewInv
<1>7. CASE Conclude(s, FALSE, {}, None) /\ stage' = stage /\ diff' = diff
  <2> DEFINE no == FALSE
             none == {}
  <2>1. no \in BOOLEAN /\ Conclude(s, no, none, None)
    BY <1>7
  <2> HIDE DEF no, none
  <2>2. UNCHANGED <<parts, content, stage>>
    BY <1>2, <1>7
  <2>3. \A t \in DOMAIN results' : Reviewed(t)'
    BY <1>3, <1>4, <2>1, <2>2, JudgedKeeps
  <2> QED
    BY <1>2, <1>4, <1>5, <1>7, <2>3 DEF ReviewInv
<1>8. CASE ~unread /\ diff' = d /\ stage' = stage /\ results' = results
  <2>1. PICK k \in 1..Len(parts) : end = End(k) /\ EndsMarked(parts, k) /\ Then(s) = content[k]
    BY <1>4, ThenIs
  <2>2. LET old1  == MergeSections(parts, SectionsBefore(parts, End(k)))
            new1  == MergeSections(parts, Chain(parts))
            compared1 == Compared(old1, new1, End(k))
            was1  == StateOf(parts, End(k), old1)
            is1   == StateOf(parts, Length(parts), new1)
        IN  /\ ~ \E o \in compared1 : Unreadable \in {Val(was1, o), Val(is1, o)}
            /\ diff' = [of |-> s, was |-> was1, is |-> is1,
                        changes |-> {o \in compared1 : Val(was1, o) # Val(is1, o)}]
    BY <1>8, <2>1
  <2>3. diff'.of = s /\ Compares(diff', content[k])
    BY <1>5, <2>1, <2>2, CompareIs
  <2> HIDE DEF unread, d
  <2>4. Then(diff.of)' = content[k]
    <3>1. Then(s) = content[k]
      BY <2>1
    <3>2. Then(diff.of)' = content[results[s].revision \div Span]
      BY <1>2, <1>8, <2>3 DEF Then
    <3> QED
      BY <3>1, <3>2 DEF Then
  <2>5. Compares(diff, Then(diff.of))'
    BY <1>5, <2>3, <2>4 DEF Compares
  <2>6. ASSUME NEW t \in DOMAIN results'
        PROVE  Reviewed(t)'
    <3>1. Reviewed(t)
      BY <1>8 DEF ReviewInv
    <3>2. Then(t)' = Then(t) /\ RangeEnd(t)' = RangeEnd(t) /\ documentSignatures' = documentSignatures
      BY <1>2, <1>5, <1>8 DEF Then, RangeEnd, documentSignatures
    <3> QED
      BY <1>2, <1>5, <1>8, <3>1, <3>2 DEF Reviewed
  <2>7. diff'.of \in Waiting' /\ ~results'[diff'.of].whole
    BY <1>3, <1>8, <2>3 DEF Waiting
  <2>8. stage' # "writing"
    BY <1>4, <1>8
  <2> QED
    BY <1>5, <2>5, <2>6, <2>7, <2>8 DEF ReviewInv
<1> HIDE DEF unread, d
<1> QED
  BY <1>2, <1>6, <1>7, <1>8

\* Nothing is judged while the file is written.
LEMMA GrowKeepsReview ==
    ASSUME ReviewInv, stage = "writing", Grow
    PROVE  ReviewInv'
<1>1. Grows
  BY GrowGrows DEF ReviewInv
<1>2. FileInv' /\ results' = <<>> /\ diff' = None /\ stage' = "writing"
  BY <1>1 DEF Grows, ReviewInv, verdicts
<1> QED
  BY <1>2 DEF ReviewInv

\* A step that judges nothing.
LEMMA DoneKeeps ==
    ASSUME ReviewInv, UNCHANGED <<parts, content, results, diff>>, stage' = "writing" => stage = "writing"
    PROVE  ReviewInv'
<1>1. FileInv' /\ Now' = Now
  BY Unwritten DEF ReviewInv
<1>2. ASSUME NEW s \in DOMAIN results'
      PROVE  Reviewed(s)'
  <2>1. Reviewed(s)
    BY <1>2 DEF ReviewInv
  <2>2. Then(s)' = Then(s) /\ RangeEnd(s)' = RangeEnd(s) /\ documentSignatures' = documentSignatures
    BY <1>1 DEF Then, RangeEnd, documentSignatures
  <2> QED
    BY <1>1, <2>1, <2>2 DEF Reviewed
<1>3. Waiting' = Waiting
  BY DEF Waiting
<1>4. Compares(diff, Then(diff.of)) <=> Compares(diff, Then(diff.of))'
  BY <1>1 DEF Compares, Then
<1> QED
  BY <1>1, <1>2, <1>3, <1>4 DEF ReviewInv

\* Every step.
LEMMA StepKeepsReview ==
    ASSUME ReviewInv, [ReviewNext]_reviewVars
    PROVE  ReviewInv'
<1>1. CASE stage = "writing" /\ Grow
  BY <1>1, GrowKeepsReview
<1>2. CASE stage = "writing" /\ VerifyAll
  BY <1>2, VerifyKeeps
<1>3. CASE JudgeWhole
  BY <1>3, JudgeWholeKeeps
<1>4. CASE Compare
  BY <1>4, CompareKeeps
<1>5. CASE Judge
  BY <1>5, JudgeKeeps
<1>6. CASE GiveUp
  BY <1>6, GiveUpKeeps
<1>7. CASE Done
  BY <1>7, DoneKeeps DEF Done, written, verdicts
<1>8. CASE UNCHANGED reviewVars
  BY <1>8, DoneKeeps DEF reviewVars, written, verdicts
<1> QED
  BY <1>1, <1>2, <1>3, <1>4, <1>5, <1>6, <1>7, <1>8 DEF ReviewNext

\* And the start.
LEMMA InitReview ==
    ASSUME ReviewInit
    PROVE  ReviewInv
<1>1. FileInv
  BY BaseInv DEF ReviewInit
<1> QED
  BY <1>1 DEF ReviewInit, ReviewInv

\* What the comparison found to differ is what readers of both states do.
THEOREM ComparisonIsExact == ReviewSpec => []EveryChangeSeen
<1>1. ReviewInit => ReviewInv
  BY InitReview
<1>2. ReviewInv /\ [ReviewNext]_reviewVars => ReviewInv'
  BY StepKeepsReview
<1>3. ReviewInv => EveryChangeSeen
  BY DEF ReviewInv, Reviewed, EveryChangeSeen, Differ
<1> QED
  BY <1>1, <1>2, <1>3, PTL DEF ReviewSpec

-----------------------------------------------------------------------------
(* What the changes that are permitted may be.                              *)

\* Of a state compared: what a reader finds is what is there.
LEMMA ComparedIs ==
    ASSUME NEW d, NEW c, Compares(d, c), NEW k \in Nat, IsContent(c, k), NEW m \in Nat, IsContent(Now, m)
    PROVE  /\ \A o \in DOMAIN c : o \in DOMAIN d.was /\ d.was[o] = c[o]
           /\ \A o \in DOMAIN Now : o \in DOMAIN d.is /\ d.is[o] = Now[o]
           /\ \A o, kind : IsA(d.was, o, kind) => o \in DOMAIN c /\ o[1] = kind
           /\ \A o, kind : IsA(d.is, o, kind) => o \in DOMAIN Now /\ o[1] = kind
           /\ \A o \in d.changes : /\ o \in Name
                                   /\ Val(d.was, o) = Val(c, o) /\ Val(d.is, o) = Val(Now, o)
           /\ \A o : o \notin d.changes => Val(c, o) = Val(Now, o)
<1>1. \A o : Val(c, o) = Kept(Val(d.was, o)) /\ Val(Now, o) = Kept(Val(d.is, o))
  BY DEF Compares
<1>2. \A o \in DOMAIN c : o \in Name /\ c[o] # None /\ c[o] # Unreadable /\ c[o].kind = o[1]
  BY ContentIs
<1>3. \A o \in DOMAIN Now : o \in Name /\ Now[o] # None /\ Now[o] # Unreadable /\ Now[o].kind = o[1]
  BY ContentIs
<1>4. ASSUME NEW o \in DOMAIN c
      PROVE  o \in DOMAIN d.was /\ d.was[o] = c[o]
  <2>1. Kept(Val(d.was, o)) = c[o] /\ c[o] # None
    BY <1>1, <1>2 DEF Val
  <2>2. Val(d.was, o) = c[o]
    BY <2>1 DEF Kept
  <2> QED
    BY <2>1, <2>2 DEF Val
<1>5. ASSUME NEW o \in DOMAIN Now
      PROVE  o \in DOMAIN d.is /\ d.is[o] = Now[o]
  <2>1. Kept(Val(d.is, o)) = Now[o] /\ Now[o] # None
    BY <1>1, <1>3 DEF Val
  <2>2. Val(d.is, o) = Now[o]
    BY <2>1 DEF Kept
  <2> QED
    BY <2>1, <2>2 DEF Val
<1>6. ASSUME NEW o, NEW kind, IsA(d.was, o, kind)
      PROVE  o \in DOMAIN c /\ o[1] = kind
  <2>1. Val(d.was, o) \notin {None, Unreadable} /\ d.was[o].kind = kind
    BY <1>6 DEF IsA
  <2>2. Val(c, o) = Val(d.was, o) /\ Val(c, o) # None
    BY <1>1, <2>1 DEF Kept
  <2>3. o \in DOMAIN c /\ d.was[o] = c[o]
    BY <1>4, <2>2 DEF Val
  <2> QED
    BY <1>2, <2>1, <2>3
<1>7. ASSUME NEW o, NEW kind, IsA(d.is, o, kind)
      PROVE  o \in DOMAIN Now /\ o[1] = kind
  <2>1. Val(d.is, o) \notin {None, Unreadable} /\ d.is[o].kind = kind
    BY <1>7 DEF IsA
  <2>2. Val(Now, o) = Val(d.is, o) /\ Val(Now, o) # None
    BY <1>1, <2>1 DEF Kept
  <2>3. o \in DOMAIN Now /\ d.is[o] = Now[o]
    BY <1>5, <2>2 DEF Val
  <2> QED
    BY <1>3, <2>1, <2>3
<1>8. ASSUME NEW o \in d.changes
      PROVE  o \in Name /\ Val(d.was, o) = Val(c, o) /\ Val(d.is, o) = Val(Now, o)
  <2>1. Unreadable \notin {Val(d.was, o), Val(d.is, o)} /\ o \in DOMAIN c \union DOMAIN Now
    BY DEF Compares, Differ
  <2>2. o \in Name
    BY <1>2, <1>3, <2>1
  <2> QED
    BY <1>1, <2>1, <2>2 DEF Kept
<1>9. ASSUME NEW o, o \notin d.changes
      PROVE  Val(c, o) = Val(Now, o)
  <2>1. o \notin Differ(c, Now)
    BY <1>9 DEF Compares
  <2> QED
    BY <2>1 DEF Differ, Val
<1> QED
  BY <1>4, <1>5, <1>6, <1>7, <1>8, <1>9

\* A later signature's field: it is new, or had no value, and its value is new
\* and vouched for.
LEMMA LaterFieldIs ==
    ASSUME NEW d, NEW n \in LaterFields(d)
    PROVE  /\ n \in d.changes /\ IsA(d.is, n, "field")
           /\ IsA(d.is, d.is[n].v, "sig") /\ IsNew(d, d.is[n].v) /\ Vouched(d.is[n].v)
           /\ IsNew(d, n) \/ (IsA(d.was, n, "field") /\ d.was[n].v = None)
<1>1. CASE AddedSignatureField(d, n)
  BY <1>1 DEF AddedSignatureField, IsNew
<1>2. CASE SignedExistingField(d, n)
  BY <1>2 DEF SignedExistingField
<1> QED
  BY <1>1, <1>2 DEF LaterFields, FieldsAdded

\* A change that is permitted: of a field, only a signature's; of an appearance,
\* only a new one; of the page, only its list of annotations; of a page's
\* content, none.
LEMMA PermittedIs ==
    ASSUME NEW d, NEW c, Compares(d, c), NEW k \in Nat, IsContent(c, k), NEW m \in Nat, IsContent(Now, m),
           NEW o \in d.changes, o \in Explained(d)
    PROVE  /\ o[1] # "body"
           /\ o[1] = "field" => o \in LaterFields(d)
           /\ o[1] = "ap" => IsNew(d, o)
           /\ o[1] = "page" => PageEdit(d)
<1>1. /\ \A x \in DOMAIN Now : x \in DOMAIN d.is /\ d.is[x] = Now[x]
      /\ \A x, kind : IsA(d.is, x, kind) => x \in DOMAIN Now /\ x[1] = kind
      /\ o \in Name /\ o # None
  BY ComparedIs, NoneApart
<1>2. /\ Cat \in DOMAIN Now /\ d.is[Cat] = Now[Cat]
      /\ Now[Cat] \in CatObject
      /\ Now[Cat].form # None => Now[Cat].form[1] = "form"
      /\ Now[Cat].dss # None => Now[Cat].dss[1] = "dss"
  BY <1>1, CatAndPage
<1>3. CASE \E n \in LaterFields(d) : o \in {n, d.is[n].v} \union {a \in {d.is[n].ap} : IsNew(d, a)}
  <2>1. PICK n \in LaterFields(d) : o \in {n, d.is[n].v} \union {a \in {d.is[n].ap} : IsNew(d, a)}
    BY <1>3
  <2>2. /\ n \in DOMAIN Now /\ n[1] = "field" /\ d.is[n] = Now[n]
        /\ d.is[n].v \in DOMAIN Now /\ d.is[n].v[1] = "sig"
    BY <1>1, LaterFieldIs
  <2>3. CASE o = n
    BY <2>2, <2>3
  <2>4. CASE o = d.is[n].v
    BY <2>2, <2>4
  <2>5. CASE o = d.is[n].ap /\ IsNew(d, o)
    <3>1. IsObject(n, Now[n], m)
      BY <2>2 DEF IsContent
    <3>2. Now[n].ap \in {None} \union {"ap"} \X (0..m)
      BY <2>2, <3>1 DEF IsObject
    <3>3. o[1] = "ap"
      BY <1>1, <2>2, <2>5, <3>2
    <3> QED
      BY <2>5, <3>3
  <2> QED
    BY <2>1, <2>3, <2>4, <2>5
<1>4. CASE o \in DssChanges(d)
  <2>1. CASE o \in Leaves(d.is)
    <3>1. PICK n \in Store(d.is) : IsA(d.is, n, "dss") /\ o \in ToSet(d.is[n].certs)
      BY <2>1 DEF Leaves
    <3>2. n \in DOMAIN Now /\ n[1] = "dss" /\ d.is[n] = Now[n]
      BY <1>1, <3>1
    <3>3. Now[n] \in DssObject
      BY <3>2, ContentIs, KindIs
    <3>4. Now[n].certs \in Seq(Named("cert")) /\ o \in ToSet(Now[n].certs)
      BY <3>1, <3>2, <3>3 DEF DssObject
    <3>5. o \in Named("cert")
      BY <3>4, SeqMember DEF ToSet
    <3>6. o[1] = "cert"
      BY <3>5 DEF Named
    <3> QED
      BY <3>6
  <2>2. CASE o \in Store(d.is)
    <3>1. o = Now[Cat].dss /\ o # None
      BY <1>2, <2>2 DEF Store
    <3> QED
      BY <1>2, <3>1
  <2> QED
    BY <1>4, <2>1, <2>2 DEF DssChanges
<1>5. CASE o \in StructuralAdditions(d)
  <2>1. o[1] = "con"
    BY <1>1, <1>5 DEF StructuralAdditions
  <2> QED
    BY <2>1
<1>6. CASE o = Cat
  BY <1>6 DEF Cat
<1>7. CASE o = d.is[Cat].form
  <2>1. o[1] = "form"
    BY <1>1, <1>2, <1>7
  <2> QED
    BY <2>1
<1>8. CASE o = Page /\ PageEdit(d)
  BY <1>8 DEF Page
<1>9. \/ \E n \in LaterFields(d) : o \in {n, d.is[n].v} \union {a \in {d.is[n].ap} : IsNew(d, a)}
      \/ o \in DssChanges(d) \/ o \in StructuralAdditions(d)
      \/ o = Cat \/ o = d.is[Cat].form \/ (o = Page /\ PageEdit(d))
  <2>1. \/ o \in UNION {{n, d.is[n].v} \union {a \in {d.is[n].ap} : IsNew(d, a)} : n \in LaterFields(d)}
        \/ o \in DssChanges(d) \/ o \in StructuralAdditions(d)
        \/ o \in (IF CatalogEdit(d) THEN {Cat} ELSE {})
        \/ o \in (IF d.is[Cat].form # d.was[Cat].form
                  THEN {n \in {d.is[Cat].form} : IsNew(d, n) /\ CatalogFormEdit(d)}
                  ELSE {n \in {d.is[Cat].form} : FormEdit(d, FormOf(d.was), FormOf(d.is))})
        \/ o \in (IF PageEdit(d) THEN {Page} ELSE {})
    BY DEF Explained
  <2> QED
    BY <2>1
<1> QED
  BY <1>3, <1>4, <1>5, <1>6, <1>7, <1>8, <1>9

-----------------------------------------------------------------------------
(* What is seen.                                                            *)

\* A number once given is not given again: what is there now under a number an
\* earlier part had was there then.
NoneAgain ==
    \A m \in 1..Len(parts) : \A i \in 1..m : \A o \in DOMAIN content[m] :
        o[2] \in -i..i => o \in DOMAIN content[i]

\* Between the revision of s and now, the page and its content, and what a field
\* shows, are the same, but for what an intact signature in visible drew.
SeenAs(s, visible) ==
    /\ Now[Page].rest = Then(s)[Page].rest
    /\ \A o \in DOMAIN Then(s) : Then(s)[o].kind \in {"body", "ap"} => Val(Now, o) = Then(s)[o]
    /\ IsPrefix(Then(s)[Page].annots, Now[Page].annots)
    /\ \A n \in ToSet(Now[Page].annots) :
          \/ Shown(Now, n) = Shown(Then(s), n)
          \/ \E t \in visible \intersect DOMAIN results :
                /\ Intact(t) /\ Now[n].v = t
                /\ results[t].whole \/ Shown(Now, n) = Shown(Then(t), n)

AllSeen == \A s \in DOMAIN results : Intact(s) /\ ~results[s].whole => SeenAs(s, results[s].visible)

SeenInv == ReviewInv /\ NoneAgain /\ AllSeen

\* What a field shows that no change is about is what it showed.
LEMMA SameField ==
    ASSUME ReviewInv, NoneAgain, diff # None, diff.changes \subseteq Explained(diff),
           NEW n, n \notin diff.changes, n \in Named("field")
    PROVE  Shown(Now, n) = Shown(Then(diff.of), n)
<1> DEFINE C == Then(diff.of)
           m == Len(parts)
<1>1. /\ diff.of \in Waiting /\ ~results[diff.of].whole /\ Compares(diff, C)
      /\ FileInv
  BY DEF ReviewInv
<1>2. PICK k \in 1..m : C = content[k] /\ IsContent(content[k], k)
  BY <1>1, WaitingIs, ThenIs
<1>3. m \in Nat /\ k \in Nat /\ k <= m /\ m \in 1..m /\ IsContent(Now, m) /\ IsContent(C, k) /\ Now = content[m]
  BY <1>1, <1>2, NowIs
<1>4. Val(C, n) = Val(Now, n)
  BY <1>1, <1>3, ComparedIs
<1>5. ASSUME IsA(C, n, "field"), IsA(Now, n, "field")
      PROVE  Val(C, C[n].ap) = Val(Now, Now[n].ap)
  <2>1. n \in DOMAIN C /\ n \in DOMAIN Now /\ C[n] = Now[n]
    BY <1>4, <1>5 DEF IsA, Val
  <2> DEFINE a == C[n].ap
  <2>2. a \in {None} \union {"ap"} \X (0..k)
    <3>1. IsObject(n, C[n], k) /\ n[1] = "field"
      BY <1>3, <2>1, ContentIs DEF Named
    <3> QED
      BY <3>1 DEF IsObject
  <2> HIDE DEF a
  <2>3. ASSUME a \in diff.changes
        PROVE  FALSE
    <3>1. a \in Name /\ a # None /\ Val(diff.was, a) = Val(C, a) /\ Val(diff.is, a) = Val(Now, a)
      BY <1>1, <1>3, <2>3, ComparedIs, NoneApart
    <3>2. a[1] = "ap" /\ a[2] \in 0..k
      BY <2>2, <3>1
    <3>3. IsNew(diff, a)
      BY <1>1, <1>3, <2>3, <3>2, PermittedIs
    <3>4. Val(C, a) = None /\ Val(Now, a) # None
      BY <3>1, <3>3 DEF IsNew
    <3>5. a \in DOMAIN Now
      BY <3>4 DEF Val
    <3>6. a[2] \in -k..k
      BY <1>3, <3>2
    <3>7. a \in DOMAIN C
      BY <1>2, <1>3, <3>5, <3>6 DEF NoneAgain
    <3>8. C[a] # None
      BY <1>3, <3>7, ContentIs
    <3> QED
      BY <3>4, <3>7, <3>8 DEF Val
  <2>4. Val(C, a) = Val(Now, a)
    BY <1>1, <1>3, <2>3, ComparedIs
  <2> QED
    BY <2>1, <2>4 DEF a
<1>6. IsA(C, n, "field") <=> IsA(Now, n, "field")
  BY <1>4 DEF IsA, Val
<1>7. IsA(C, n, "field") => C[n] = Now[n]
  BY <1>4, <1>6 DEF IsA, Val
<1> HIDE DEF C
<1>8. Shown(Now, n) = Shown(C, n)
  BY <1>5, <1>6, <1>7 DEF Shown
<1> QED
  BY <1>8 DEF C

\* What a later signature's field shows is nothing, as before, or what that
\* signature drew.
LEMMA LaterFieldSeen ==
    ASSUME ReviewInv, AllSeen, diff # None, NEW n \in LaterFields(diff), n \in ToSet(Now[Page].annots)
    PROVE  \/ Shown(Now, n) = Shown(Then(diff.of), n)
           \/ \E t \in Visible(diff) \intersect DOMAIN results :
                /\ Intact(t) /\ Now[n].v = t
                /\ results[t].whole \/ Shown(Now, n) = Shown(Then(t), n)
<1> DEFINE C == Then(diff.of)
           m == Len(parts)
           t == Now[n].v
<1>1. /\ diff.of \in Waiting /\ ~results[diff.of].whole /\ Compares(diff, C)
      /\ FileInv
  BY DEF ReviewInv
<1>2. PICK k \in 1..m : C = content[k] /\ IsContent(content[k], k)
  BY <1>1, WaitingIs, ThenIs
<1>3. m \in Nat /\ k \in Nat /\ IsContent(Now, m) /\ IsContent(C, k)
  BY <1>1, <1>2, NowIs
<1>4. /\ n \in diff.changes /\ IsA(diff.is, n, "field") /\ Vouched(diff.is[n].v)
      /\ IsNew(diff, n) \/ (IsA(diff.was, n, "field") /\ diff.was[n].v = None)
  BY LaterFieldIs
<1>9. /\ \A o \in DOMAIN C : o \in DOMAIN diff.was /\ diff.was[o] = C[o]
      /\ \A o \in DOMAIN Now : o \in DOMAIN diff.is /\ diff.is[o] = Now[o]
      /\ \A o \in diff.changes : Val(diff.was, o) = Val(C, o)
      /\ IsA(diff.was, n, "field") => n \in DOMAIN C
      /\ IsA(diff.is, n, "field") => n \in DOMAIN Now /\ n[1] = "field"
  <2> DEFINE kind == "field"
  <2> HIDE DEF C, m, t, kind
  <2>1. /\ \A o \in DOMAIN C : o \in DOMAIN diff.was /\ diff.was[o] = C[o]
        /\ \A o \in DOMAIN Now : o \in DOMAIN diff.is /\ diff.is[o] = Now[o]
        /\ \A o \in diff.changes : Val(diff.was, o) = Val(C, o)
    BY <1>1, <1>3, ComparedIs
  <2>2. /\ IsA(diff.was, n, kind) => n \in DOMAIN C /\ n[1] = kind
        /\ IsA(diff.is, n, kind) => n \in DOMAIN Now /\ n[1] = kind
    BY <1>1, <1>3, ComparedIs
  <2> QED
    BY <2>1, <2>2 DEF kind
<1>5. n \in DOMAIN Now /\ diff.is[n] = Now[n] /\ n \in Name /\ Now[n].kind = "field" /\ n[1] = "field"
  <2>1. n \in DOMAIN Now /\ diff.is[n] = Now[n] /\ n[1] = "field"
    BY <1>4, <1>9
  <2> QED
    BY <1>3, <2>1, ContentIs
<1>6. t \in DOMAIN results /\ Intact(t)
  BY <1>4, <1>5 DEF Vouched
<1> HIDE DEF C
<1>7. CASE Seen(diff.is, n)
  <2>1. t \in Visible(diff)
    BY <1>5, <1>7 DEF Visible
  <2>2. results[t].whole \/ Shown(Now, n) = Shown(Then(t), n)
    <3>1. CASE results[t].whole
      BY <3>1
    <3>2. CASE ~results[t].whole
      <4>1. SeenAs(t, results[t].visible)
        BY <1>6, <3>2 DEF AllSeen
      <4> QED
        BY <4>1 DEF SeenAs
    <3> QED
      BY <3>1, <3>2
  <2> QED
    BY <1>6, <2>1, <2>2
<1>8. CASE ~Seen(diff.is, n)
  <2>1. Shown(Now, n) = None
    <3>1. ~Now[n].area \/ Val(diff.is, Now[n].ap) = None
      BY <1>5, <1>8 DEF Seen
    <3>2. Val(diff.is, Now[n].ap) = None => Val(Now, Now[n].ap) = None
      BY <1>1 DEF Compares, Kept, C
    <3> QED
      BY <3>1, <3>2 DEF Shown
  <2>2. Shown(C, n) = None
    <3>1. CASE IsNew(diff, n)
      <4>1. Val(C, n) = None
        BY <1>9, <1>4, <3>1 DEF IsNew
      <4> QED
        BY <4>1 DEF Shown, IsA
    <3>2. CASE IsA(diff.was, n, "field") /\ diff.was[n].v = None
      <4>1. n \in DOMAIN C /\ diff.was[n] = C[n]
        BY <1>9, <3>2
      <4>2. C[n].ap = None
        <5>1. IsObject(n, C[n], k)
          BY <1>3, <4>1, ContentIs
        <5> QED
          BY <1>5, <3>2, <4>1, <5>1 DEF IsObject
      <4>3. Val(C, None) = None
        BY <1>3, ContentIs, NoneApart DEF Val
      <4> QED
        BY <4>2, <4>3 DEF Shown
    <3> QED
      BY <1>4, <3>1, <3>2
  <2> QED
    BY <2>1, <2>2 DEF C
<1> QED
  BY <1>7, <1>8

\* A list starts with itself.
LEMMA PrefixOfItself ==
    ASSUME NEW p
    PROVE  IsPrefix(p, p)
BY DEF IsPrefix

\* With every change permitted, what is seen is what was signed, and what intact
\* later signatures drew.
LEMMA PermittedSeen ==
    ASSUME SeenInv, diff # None, diff.changes \subseteq Explained(diff)
    PROVE  SeenAs(diff.of, Visible(diff))
<1> DEFINE C == Then(diff.of)
           m == Len(parts)
<1>1. /\ ReviewInv /\ NoneAgain /\ AllSeen
      /\ diff.of \in Waiting /\ ~results[diff.of].whole /\ Compares(diff, C)
      /\ FileInv
  BY DEF SeenInv, ReviewInv
<1>2. PICK k \in 1..m : C = content[k] /\ IsContent(content[k], k)
  BY <1>1, WaitingIs, ThenIs
<1>3. m \in Nat /\ k \in Nat /\ k <= m /\ m \in 1..m /\ IsContent(Now, m) /\ IsContent(C, k) /\ Now = content[m]
  BY <1>1, <1>2, NowIs
<1>4. /\ \A o : o \notin diff.changes => Val(C, o) = Val(Now, o)
      /\ \A o \in diff.changes : o \in Name /\ Val(diff.was, o) = Val(C, o) /\ Val(diff.is, o) = Val(Now, o)
      /\ \A o \in DOMAIN C : o \in DOMAIN diff.was /\ diff.was[o] = C[o]
      /\ \A o \in DOMAIN Now : o \in DOMAIN diff.is /\ diff.is[o] = Now[o]
  BY <1>1, <1>3, ComparedIs
<1>5. ASSUME NEW o \in DOMAIN C, C[o].kind \in {"body", "ap"}
      PROVE  Val(Now, o) = C[o]
  <2>1. o[1] \in {"body", "ap"} /\ C[o] # None
    BY <1>3, <1>5, ContentIs
  <2>2. CASE o \in diff.changes
    <3>1. IsNew(diff, o)
      BY <1>1, <1>3, <2>1, <2>2, PermittedIs
    <3>2. Val(C, o) = None
      BY <1>4, <2>2, <3>1 DEF IsNew
    <3> QED
      BY <2>1, <3>2 DEF Val
  <2>3. CASE o \notin diff.changes
    BY <1>4, <2>3 DEF Val
  <2> QED
    BY <2>2, <2>3
<1>6. Page \in DOMAIN C /\ Page \in DOMAIN Now /\ Now[Page] \in PageObject
  BY <1>3, CatAndPage
<1>7. Now[Page].rest = C[Page].rest /\ IsPrefix(C[Page].annots, Now[Page].annots)
  <2>1. CASE Page \in diff.changes
    <3>1. PageEdit(diff)
      BY <1>1, <1>3, <2>1, PermittedIs DEF Page
    <3>2. diff.is[Page] = Now[Page] /\ diff.was[Page] = C[Page]
      BY <1>4, <1>6
    <3> QED
      BY <3>1, <3>2 DEF PageEdit, AppendedOnly
  <2>2. CASE Page \notin diff.changes
    <3>1. C[Page] = Now[Page]
      BY <1>4, <1>6, <2>2 DEF Val
    <3> QED
      BY <3>1, PrefixOfItself
  <2> QED
    BY <2>1, <2>2
<1>8. ASSUME NEW n \in ToSet(Now[Page].annots)
      PROVE  \/ Shown(Now, n) = Shown(C, n)
             \/ \E t \in Visible(diff) \intersect DOMAIN results :
                  /\ Intact(t) /\ Now[n].v = t
                  /\ results[t].whole \/ Shown(Now, n) = Shown(Then(t), n)
  <2>1. n \in Named("field")
    BY <1>6, SeqMember DEF PageObject, ToSet
  <2>2. CASE n \in diff.changes
    <3>1. n[1] = "field"
      BY <2>1 DEF Named
    <3>2. n \in LaterFields(diff)
      BY <1>1, <1>3, <2>2, <3>1, PermittedIs
    <3> QED
      BY <1>1, <3>2, LaterFieldSeen
  <2>3. CASE n \notin diff.changes
    BY <1>1, <2>1, <2>3, SameField
  <2> QED
    BY <2>2, <2>3
<1> HIDE DEF C
<1> QED
  BY <1>5, <1>7, <1>8 DEF SeenAs, C

\* An update gives new numbers only.
LEMMA GrowsNoneAgain ==
    ASSUME FileInv, NoneAgain, Grows
    PROVE  NoneAgain'
<1>1. /\ Len(parts') = New /\ \A k \in 1..Len(parts) : content'[k] = content[k]
      /\ Evolves(Now, Now', New) /\ FileInv'
  BY DEF Grows
<1>2. /\ Len(parts) \in Nat \ {0} /\ New = Len(parts) + 1 /\ Now = content[Len(parts)]
      /\ IsContent(Now', New) /\ Now' = content'[New]
  <2>1. Len(parts) \in Nat \ {0} /\ New = Len(parts) + 1 /\ Now = content[Len(parts)]
    BY NowIs
  <2>2. Now' = content'[New] /\ IsContent(Now', New)
    <3>1. Len(content') = New /\ New \in 1..New
      BY <1>1, <2>1 DEF FileInv
    <3>2. Now' = content'[New]
      BY <3>1 DEF Now, Last
    <3> QED
      BY <1>1, <3>1, <3>2 DEF FileInv
  <2> QED
    BY <1>1, <2>1, <2>2
<1>3. ASSUME NEW m \in 1..New, NEW i \in 1..m, NEW o \in DOMAIN content'[m], o[2] \in -i..i
      PROVE  o \in DOMAIN content'[i]
  <2>1. CASE m \in 1..Len(parts)
    <3>1. i \in 1..Len(parts) /\ content'[i] = content[i] /\ content'[m] = content[m]
      BY <1>1, <1>2, <2>1
    <3> QED
      BY <1>3, <2>1, <3>1 DEF NoneAgain
  <2>2. CASE m = New /\ i # New
    <3>1. i \in 1..Len(parts) /\ Len(parts) \in 1..Len(parts)
      BY <1>2, <2>2
    <3>2. o \notin DOMAIN Now => o[2] \in {-New, New}
      BY <1>1, <1>2, <2>2 DEF Evolves
    <3>3. o \in DOMAIN Now
      BY <1>2, <1>3, <3>1, <3>2
    <3>4. o \in DOMAIN content[i]
      BY <1>2, <1>3, <3>1, <3>3 DEF NoneAgain
    <3> QED
      BY <1>1, <3>1, <3>4
  <2>3. CASE m = New /\ i = New
    BY <2>3
  <2> QED
    BY <1>2, <2>1, <2>2, <2>3
<1> QED
  BY <1>1, <1>3 DEF NoneAgain

\* And nothing else gives any.
LEMMA StillNoneAgain ==
    ASSUME NoneAgain, UNCHANGED <<parts, content>>
    PROVE  NoneAgain'
BY DEF NoneAgain

\* What was seen is still what is seen: the file is as it was, and what is intact
\* stays so.
LEMMA StillSeen ==
    ASSUME NEW s \in DOMAIN results, NEW visible, SeenAs(s, visible), Now' = Now, content' = content,
           s \in DOMAIN results', results'[s].revision = results[s].revision,
           \A t \in DOMAIN results : Intact(t) => t \in DOMAIN results' /\ results'[t] = results[t]
    PROVE  SeenAs(s, visible)'
<1>1. Then(s)' = Then(s)
  BY DEF Then
<1>2. ASSUME NEW n \in ToSet(Now[Page].annots),
             NEW t \in visible \intersect DOMAIN results, Intact(t), Now[n].v = t,
             results[t].whole \/ Shown(Now, n) = Shown(Then(t), n)
      PROVE  /\ t \in visible \intersect DOMAIN results'
             /\ Intact(t)' /\ Now'[n].v = t
             /\ results'[t].whole \/ Shown(Now', n) = Shown(Then(t)', n)
  <2>1. t \in DOMAIN results' /\ results'[t] = results[t] /\ Now' = Now
    BY <1>2
  <2>2. Intact(t)' /\ Then(t)' = Then(t)
    BY <1>2, <2>1 DEF Intact, Then
  <2> QED
    BY <1>2, <2>1, <2>2
<1>3. \A n \in ToSet(Now[Page].annots) :
        \/ Shown(Now, n) = Shown(Then(s), n)
        \/ \E t \in visible \intersect DOMAIN results' :
              /\ Intact(t)' /\ Now'[n].v = t
              /\ results'[t].whole \/ Shown(Now', n) = Shown(Then(t)', n)
  BY <1>2 DEF SeenAs
<1> QED
  BY <1>1, <1>3 DEF SeenAs, Shown

\* A signature is judged: what is intact stays so, and what is seen beside it.
LEMMA JudgedSeen ==
    ASSUME ReviewInv, AllSeen, NEW s \in Waiting, NEW allowed \in BOOLEAN, NEW visible, NEW changed,
           Conclude(s, allowed, visible, changed), UNCHANGED <<parts, content>>,
           allowed /\ ~results[s].whole => SeenAs(s, visible)
    PROVE  AllSeen'
<1>1. s \in DOMAIN results /\ ~results[s].allowed /\ IsResult(results[s])
  BY WaitingIs DEF Reviewed
<1>2. /\ DOMAIN results' = DOMAIN results
      /\ \A t \in DOMAIN results : t # s => results'[t] = results[t]
      /\ results'[s] = [valid |-> results[s].valid, revision |-> results[s].revision,
                        whole |-> results[s].whole, judged |-> TRUE, allowed |-> allowed,
                        visible |-> visible, changed |-> changed]
  BY <1>1, ConcludeIs
<1>3. Now' = Now /\ content' = content
  BY Unwritten DEF ReviewInv
<1>4. \A t \in DOMAIN results : Intact(t) => t # s /\ results'[t] = results[t]
  BY <1>1, <1>2 DEF Intact
<1>5. ASSUME NEW t \in DOMAIN results', Intact(t)', ~results'[t].whole
      PROVE  SeenAs(t, results[t].visible)'
  <2>1. CASE t = s
    <3>1. /\ results'[s].allowed = allowed /\ results'[s].whole = results[s].whole
          /\ results'[s].visible = visible /\ results'[s].revision = results[s].revision
      BY <1>2
    <3>2. SeenAs(s, visible)
      BY <1>5, <2>1, <3>1 DEF Intact
    <3>3. SeenAs(s, visible)'
      BY <1>1, <1>2, <1>3, <1>4, <3>1, <3>2, StillSeen
    <3> QED
      BY <2>1, <3>1, <3>3 DEF SeenAs
  <2>2. CASE t # s
    <3>1. t \in DOMAIN results /\ results'[t] = results[t]
      BY <1>2, <2>2
    <3>2. Intact(t) /\ ~results[t].whole
      BY <1>5, <3>1 DEF Intact
    <3>3. PICK seen : seen = results[t].visible /\ SeenAs(t, seen)
      BY <3>1, <3>2 DEF AllSeen
    <3>4. SeenAs(t, seen)'
      BY <1>2, <1>3, <1>4, <3>1, <3>3, StillSeen
    <3> QED
      BY <3>1, <3>3, <3>4 DEF SeenAs
  <2> QED
    BY <2>1, <2>2
<1> QED
  BY <1>5 DEF AllSeen

\* Nothing is intact while the file is written.
LEMMA GrowSeen ==
    ASSUME SeenInv, stage = "writing", Grow
    PROVE  SeenInv'
<1>1. Grows /\ ReviewInv'
  BY GrowGrows, GrowKeepsReview DEF SeenInv, ReviewInv
<1>2. results' = <<>>
  BY <1>1 DEF Grows, SeenInv, ReviewInv, verdicts
<1>3. NoneAgain'
  BY <1>1, GrowsNoneAgain DEF SeenInv, ReviewInv
<1>4. AllSeen'
  BY <1>2 DEF AllSeen
<1> QED
  BY <1>1, <1>3, <1>4 DEF SeenInv

\* Nothing is allowed before it is judged.
LEMMA VerifySeen ==
    ASSUME VerifyAll
    PROVE  AllSeen'
<1>1. \A s \in DOMAIN results' : results'[s].allowed = FALSE
  BY DEF VerifyAll
<1> QED
  BY <1>1 DEF AllSeen, Intact

\* The verdict on what covers the whole file.
LEMMA JudgeWholeSeen ==
    ASSUME ReviewInv, AllSeen, JudgeWhole
    PROVE  AllSeen'
<1> DEFINE yes == TRUE
           none == {}
<1>1. PICK s \in Waiting : Conclude(s, yes, none, None) /\ results[s].whole
  BY DEF JudgeWhole
<1>2. UNCHANGED <<parts, content>> /\ yes \in BOOLEAN
  BY DEF JudgeWhole, written
<1> HIDE DEF yes, none
<1> QED
  BY <1>1, <1>2, JudgedSeen

\* The verdict when the budget is gone.
LEMMA GiveUpSeen ==
    ASSUME ReviewInv, AllSeen, GiveUp
    PROVE  AllSeen'
<1> DEFINE no == FALSE
           none == {}
<1>1. PICK s \in Waiting : Conclude(s, no, none, None)
  BY DEF GiveUp
<1>2. UNCHANGED <<parts, content>> /\ no \in BOOLEAN /\ ~no
  BY DEF GiveUp, written
<1> HIDE DEF no, none
<1> QED
  BY <1>1, <1>2, JudgedSeen

\* The verdict on the changes: what they leave to be seen is what was signed.
LEMMA JudgeSeen ==
    ASSUME SeenInv, Judge
    PROVE  AllSeen'
<1> DEFINE s == diff.of
           allowed == /\ diff.changes \subseteq Explained(diff)
                      /\ ~Trailing
                      /\ \A o \in Consulted(diff.was) \union Consulted(diff.is) :
                            Unreadable \notin {Val(diff.was, o), Val(diff.is, o)}
           visible == Visible(diff)
           changed == diff.changes
<1>1. Conclude(s, allowed, visible, changed) /\ allowed \in BOOLEAN /\ diff # None
  BY DEF Judge
<1>2. UNCHANGED <<parts, content>>
  BY DEF Judge, written
<1>3. s \in Waiting /\ ReviewInv /\ AllSeen
  BY <1>1 DEF SeenInv, ReviewInv
<1>4. allowed => SeenAs(s, visible)
  BY <1>1, PermittedSeen
<1> HIDE DEF allowed, visible, changed, s
<1> QED
  BY <1>1, <1>2, <1>3, <1>4, JudgedSeen

\* A step that judges nothing.
LEMMA SameSeen ==
    ASSUME ReviewInv, AllSeen, UNCHANGED <<parts, content, results>>
    PROVE  AllSeen'
<1>1. Now' = Now
  BY Unwritten DEF ReviewInv
<1>2. ASSUME NEW s \in DOMAIN results', Intact(s)', ~results'[s].whole
      PROVE  SeenAs(s, results[s].visible)'
  <2>1. Intact(s) /\ ~results[s].whole /\ s \in DOMAIN results
    BY <1>2 DEF Intact
  <2>2. PICK seen : seen = results[s].visible /\ SeenAs(s, seen)
    BY <2>1 DEF AllSeen
  <2>3. SeenAs(s, seen)'
    BY <1>1, <2>1, <2>2, StillSeen
  <2> QED
    BY <2>2, <2>3 DEF SeenAs
<1> QED
  BY <1>2 DEF AllSeen

\* A comparison is made, or fails.
LEMMA CompareSeen ==
    ASSUME ReviewInv, AllSeen, Compare
    PROVE  AllSeen'
<1>1. PICK s \in Waiting : /\ \/ results' = <<>>
                              \/ Conclude(s, FALSE, {}, None)
                              \/ results' = results
                           /\ UNCHANGED <<parts, content>>
  BY DEF Compare, written
<1>2. CASE results' = <<>>
  BY <1>2 DEF AllSeen
<1>3. CASE results' = results
  BY <1>1, <1>3, SameSeen
<1>4. CASE Conclude(s, FALSE, {}, None)
  <2> DEFINE no == FALSE
             none == {}
  <2>1. Conclude(s, no, none, None) /\ no \in BOOLEAN /\ ~no
    BY <1>4
  <2> HIDE DEF no, none
  <2> QED
    BY <1>1, <2>1, JudgedSeen
<1> QED
  BY <1>1, <1>2, <1>3, <1>4

\* Every step.
LEMMA StepKeepsSeen ==
    ASSUME SeenInv, [ReviewNext]_reviewVars
    PROVE  SeenInv'
<1>1. ReviewInv /\ NoneAgain /\ AllSeen /\ ReviewInv'
  BY StepKeepsReview DEF SeenInv
<1>2. CASE stage = "writing" /\ Grow
  BY <1>2, GrowSeen
<1>3. CASE UNCHANGED <<parts, content>> /\ AllSeen'
  BY <1>1, <1>3, StillNoneAgain DEF SeenInv
<1>4. CASE VerifyAll
  BY <1>3, <1>4, VerifySeen DEF VerifyAll, written
<1>5. CASE JudgeWhole
  BY <1>1, <1>3, <1>5, JudgeWholeSeen DEF JudgeWhole, written
<1>6. CASE Compare
  BY <1>1, <1>3, <1>6, CompareSeen DEF Compare, written
<1>7. CASE Judge
  BY <1>3, <1>7, JudgeSeen DEF Judge, written
<1>8. CASE GiveUp
  BY <1>1, <1>3, <1>8, GiveUpSeen DEF GiveUp, written
<1>9. CASE Done
  BY <1>1, <1>3, <1>9, SameSeen DEF Done, written, verdicts
<1>10. CASE UNCHANGED reviewVars
  BY <1>1, <1>3, <1>10, SameSeen DEF reviewVars, written, verdicts
<1> QED
  BY <1>2, <1>4, <1>5, <1>6, <1>7, <1>8, <1>9, <1>10 DEF ReviewNext

\* And the start.
LEMMA InitSeen ==
    ASSUME ReviewInit
    PROVE  SeenInv
<1>1. ReviewInv
  BY InitReview
<1>2. Len(parts) = 1 /\ results = <<>>
  BY DEF ReviewInit
<1> QED
  BY <1>1, <1>2 DEF SeenInv, NoneAgain, AllSeen

\* An intact signature means that its reader sees what its signer did, and beside
\* that only what later signatures drew that are intact themselves.
THEOREM SeenIsSigned == ReviewSpec => []WhatIsSeenIsSigned
<1>1. ReviewInit => SeenInv
  BY InitSeen
<1>2. SeenInv /\ [ReviewNext]_reviewVars => SeenInv'
  BY StepKeepsSeen
<1>3. SeenInv => WhatIsSeenIsSigned
  BY DEF SeenInv, AllSeen, SeenAs, WhatIsSeenIsSigned
<1> QED
  BY <1>1, <1>2, <1>3, PTL DEF ReviewSpec

-----------------------------------------------------------------------------
(* What the updates of this library leave different, and what they add.     *)

\* A signature's own field: its value is the signature of its number, and a
\* time-stamp is not to be seen.
NewField(c, n) ==
    LET s == <<"sig", n[2]>>
    IN  /\ n \in ToSet(FormOf(c).fields)
        /\ c[n].v = s /\ s \in DOMAIN c
        /\ c[n].ap \in {None, <<"ap", n[2]>>}
        /\ c[s].type = "DocTimeStamp" => ~(c[n].area /\ c[n].ap # None)

\* An object an update made is reached from the catalog, each kind in its way.
Rooted(c, o) ==
    /\ o[1] \notin {"cat", "page", "body", "other"}
    /\ o[1] = "form" => o = c[Cat].form
    /\ o[1] = "dss" => o = c[Cat].dss
    /\ o[1] = "cert" => o \in Leaves(c)
    /\ o[1] = "field" => NewField(c, o)
    /\ o[1] \in {"sig", "ap"} =>
          \E n \in {<<"field", o[2]>>, Slot} :
              n \in DOMAIN c /\ c[n].v = <<"sig", o[2]>> /\ o \in {c[n].v, c[n].ap}

\* What is read after k parts, in a file only this library has updated.
Ordinary(c, k) ==
    /\ c = [o \in DOMAIN c |-> c[o]]
    /\ \A o \in DOMAIN c : o[1] = "sig" => c[o].good /\ o[2] > 1
    /\ \A o \in DOMAIN c : o[2] \in -1..1 \/ (o[2] > 1 /\ Rooted(c, o))
    /\ c[Cat].perms \in {None} \union DOMAIN c
    /\ \A n \in ToSet(FormOf(c).fields) : n[2] <= k

\* The objects that may differ.
Moved(c) == {Cat, Page, Slot, c[Cat].form, c[Cat].dss}

\* A list of what c has, and then of what was made after part i.
Longer(s, t, d, i) ==
    /\ IsPrefix(s, t)
    /\ \A p \in (Len(s) + 1)..Len(t) : t[p] \in DOMAIN d /\ t[p][2] > i

CatLater(c, d, i) ==
    LET was == c[Cat]  is == d[Cat]
    IN  /\ is.rest = was.rest /\ is.perms = was.perms
        /\ is.form # was.form => was.form = None /\ is.form[2] > i
        /\ is.dss # was.dss => was.dss = None /\ is.dss[2] > i
        /\ is.inline # was.inline => is.form # None

FormLater(c, d, i) ==
    LET was == FormOf(c)  is == FormOf(d)
    IN  /\ is.rest = was.rest /\ is.flags \in {was.flags, 3}
        /\ Longer(was.fields, is.fields, d, i)

\* The empty field is empty still, or signed, and no signature locked it.
SlotLater(c, d) ==
    Slot \in DOMAIN c /\ d[Slot] # c[Slot] =>
        LET s == d[Slot].v
        IN  /\ c[Slot].kind = "field" /\ c[Slot].v = None
            /\ d[Slot] = [c[Slot] EXCEPT !.v = s, !.ap = d[Slot].ap]
            /\ s \in DOMAIN d \ DOMAIN c /\ d[s].type = "Sig"
            /\ ~Locked(c, Slot)

\* From c, read after part i, to d, after some updates of this library's.
Later(c, d, i) ==
    /\ DOMAIN c \subseteq DOMAIN d /\ \A o \in DOMAIN d \ DOMAIN c : o[2] > i
    /\ \A o \in DOMAIN c \ Moved(c) : d[o] = c[o]
    /\ d[Page].rest = c[Page].rest /\ Longer(c[Page].annots, d[Page].annots, d, i)
    /\ CatLater(c, d, i)
    /\ FormLater(c, d, i)
    /\ SlotLater(c, d)
    /\ Leaves(c) \subseteq Leaves(d)
    /\ \A o \in DOMAIN d \ DOMAIN c : o[1] = "sig" /\ d[o].type = "Sig" => Certified(c) # 1

-----------------------------------------------------------------------------
(* One after the other.                                                     *)

\* The sequence starts with the other's members.
LEMMA PrefixIs ==
    ASSUME NEW F, NEW s \in Seq(F), NEW t \in Seq(F)
    PROVE  IsPrefix(s, t) <=> Len(s) <= Len(t) /\ \A p \in 1..Len(s) : s[p] = t[p]
BY DEF IsPrefix

\* A longer list of a longer list is longer.
LEMMA LongerTrans ==
    ASSUME NEW F, NEW s \in Seq(F), NEW t \in Seq(F), NEW u \in Seq(F), NEW d, NEW e,
           NEW i \in Nat, NEW j \in Nat, i <= j, \A x \in F : x[2] \in Int,
           Longer(s, t, d, i), Longer(t, u, e, j), DOMAIN d \subseteq DOMAIN e
    PROVE  Longer(s, u, e, i)
<1>1. Len(s) <= Len(t) /\ \A p \in 1..Len(s) : s[p] = t[p]
  BY PrefixIs DEF Longer
<1>2. Len(t) <= Len(u) /\ \A p \in 1..Len(t) : t[p] = u[p]
  BY PrefixIs DEF Longer
<1>3. Len(s) \in Nat /\ Len(t) \in Nat /\ Len(u) \in Nat
  OBVIOUS
<1>4. IsPrefix(s, u)
  <2>1. Len(s) <= Len(u) /\ \A p \in 1..Len(s) : s[p] = u[p]
    BY <1>1, <1>2, <1>3
  <2> QED
    BY <2>1, PrefixIs
<1>5. ASSUME NEW p \in (Len(s) + 1)..Len(u)
      PROVE  u[p] \in DOMAIN e /\ u[p][2] > i
  <2>1. CASE p <= Len(t)
    <3>1. p \in (Len(s) + 1)..Len(t) /\ p \in 1..Len(t)
      BY <1>3, <2>1
    <3>2. t[p] \in DOMAIN d /\ t[p][2] > i /\ u[p] = t[p]
      BY <1>2, <3>1 DEF Longer
    <3> QED
      BY <3>2
  <2>2. CASE p > Len(t)
    <3>1. p \in (Len(t) + 1)..Len(u) /\ p \in 1..Len(u)
      BY <1>3, <2>2
    <3>2. u[p] \in DOMAIN e /\ u[p][2] > j /\ u[p] \in F
      BY <3>1 DEF Longer
    <3> QED
      BY <3>2
  <2> QED
    BY <1>3, <2>1, <2>2
<1> QED
  BY <1>4, <1>5 DEF Longer

\* A list is as long as itself.
LEMMA LongerSelf ==
    ASSUME NEW F, NEW s \in Seq(F), NEW d, NEW i
    PROVE  Longer(s, s, d, i)
<1>1. Len(s) \in Nat
  OBVIOUS
<1>2. IsPrefix(s, s)
  BY PrefixOfItself
<1> QED
  BY <1>1, <1>2 DEF Longer

\* And one longer with one more that is new.
LEMMA LongerAppend ==
    ASSUME NEW F, NEW s \in Seq(F), NEW x \in F, NEW d, NEW i, x \in DOMAIN d, x[2] > i
    PROVE  Longer(s, Append(s, x), d, i)
<1> DEFINE t == Append(s, x)
<1>1. t \in Seq(F) /\ Len(t) = Len(s) + 1 /\ Len(s) \in Nat /\ t[Len(s) + 1] = x
      /\ \A p \in 1..Len(s) : s[p] = t[p]
  OBVIOUS
<1> HIDE DEF t
<1>2. IsPrefix(s, t)
  BY <1>1, PrefixIs
<1>3. ASSUME NEW p \in (Len(s) + 1)..Len(t)
      PROVE  t[p] \in DOMAIN d /\ t[p][2] > i
  <2>1. p = Len(s) + 1
    BY <1>1
  <2> QED
    BY <1>1, <2>1
<1>4. Longer(s, t, d, i)
  BY <1>2, <1>3 DEF Longer
<1> QED
  BY <1>4 DEF t

\* Its members.
LEMMA LongerHas ==
    ASSUME NEW F, NEW s \in Seq(F), NEW t \in Seq(F), NEW d, NEW i, Longer(s, t, d, i)
    PROVE  /\ ToSet(s) \subseteq ToSet(t)
           /\ \A x \in ToSet(t) : x \in ToSet(s) \/ (x \in DOMAIN d /\ x[2] > i)
<1>1. Len(s) <= Len(t) /\ \A p \in 1..Len(s) : s[p] = t[p]
  BY PrefixIs DEF Longer
<1>2. Len(s) \in Nat /\ Len(t) \in Nat /\ DOMAIN s = 1..Len(s) /\ DOMAIN t = 1..Len(t)
  OBVIOUS
<1>3. ASSUME NEW x \in ToSet(s)
      PROVE  x \in ToSet(t)
  <2>1. PICK p \in 1..Len(s) : s[p] = x
    BY <1>2 DEF ToSet
  <2>2. p \in DOMAIN t /\ t[p] = x
    BY <1>1, <1>2, <2>1
  <2> QED
    BY <2>2 DEF ToSet
<1>4. ASSUME NEW x \in ToSet(t)
      PROVE  x \in ToSet(s) \/ (x \in DOMAIN d /\ x[2] > i)
  <2>1. PICK p \in 1..Len(t) : t[p] = x
    BY <1>2 DEF ToSet
  <2>2. CASE p <= Len(s)
    <3>1. p \in DOMAIN s /\ s[p] = x
      BY <1>1, <1>2, <2>1, <2>2
    <3> QED
      BY <3>1 DEF ToSet
  <2>3. CASE p > Len(s)
    <3>1. p \in (Len(s) + 1)..Len(t)
      BY <1>2, <2>3
    <3> QED
      BY <2>1, <3>1 DEF Longer
  <2> QED
    BY <1>2, <2>2, <2>3
<1> QED
  BY <1>3, <1>4

\* Only the catalog, the page, the form, the store and the empty field may move.
LEMMA Unmoved ==
    ASSUME NEW i \in Nat, NEW c, IsContent(c, i), NEW o \in DOMAIN c,
           o[1] \notin {"cat", "page", "form", "dss"}, o # Slot
    PROVE  o \notin Moved(c)
<1>1. o # Cat /\ o # Page
  BY DEF Cat, Page
<1>2. o # None
  BY ContentIs, NoneApart
<1>3. o # c[Cat].form /\ o # c[Cat].dss
  BY <1>2, CatAndPage
<1> QED
  BY <1>1, <1>3 DEF Moved

\* What is found under a number is none that is still to be given.
LEMMA NumberIs ==
    ASSUME NEW i \in Nat, NEW c, IsContent(c, i), NEW o \in DOMAIN c
    PROVE  o \in Name /\ o # None /\ o[2] \in -i..i /\ o[2] <= i /\ o[1] = c[o].kind /\ c[o] # None
<1>1. o \in Kinds \X (-i..i)
  BY DEF IsContent, IsObject
<1>2. o[2] \in -i..i
  BY <1>1
<1>3. o[2] <= i
  BY <1>2
<1> QED
  BY <1>2, <1>3, ContentIs, NoneApart

\* An object of a kind is found as one.
LEMMA KindFound ==
    ASSUME NEW i \in Nat, NEW c, IsContent(c, i), NEW o, NEW kind, IsA(c, o, kind)
    PROVE  o \in DOMAIN c /\ o[1] = kind
<1>1. o \in DOMAIN c /\ c[o].kind = kind
  BY DEF IsA, Val
<1> QED
  BY <1>1, ContentIs

\* The lists of a content.
LEMMA ListsIs ==
    ASSUME NEW i \in Nat, NEW c, IsContent(c, i)
    PROVE  /\ c[Page].annots \in Seq(Named("field")) /\ FormOf(c).fields \in Seq(Named("field"))
           /\ \A n \in ToSet(FormOf(c).fields) : n \in Named("field")
           /\ \A x \in Named("field") : x[2] \in Int
<1> DEFINE F == Named("field")
<1>1. c[Page] \in [kind : {"page"}, rest : {0, 1}, annots : Seq(F)]
  BY CatAndPage DEF PageObject
<1>2. FormOf(c) \in [kind : {"form"}, rest : {0, 1}, flags : Nat, fields : Seq(F)]
  BY CatAndPage DEF FormObject
<1>3. \A x \in F : x[2] \in Int
  BY DEF Named
<1> HIDE DEF F
<1>4. c[Page].annots \in Seq(F) /\ FormOf(c).fields \in Seq(F)
  BY <1>1, <1>2
<1>5. \A n \in ToSet(FormOf(c).fields) : n \in F
  BY <1>4, SeqMember DEF ToSet
<1> QED
  BY <1>3, <1>4, <1>5 DEF F

\* A certified file stays so, and one that is not too.
LEMMA CertifiedSame ==
    ASSUME NEW i \in Nat, NEW j \in Nat, NEW k, NEW c, NEW d, IsContent(c, i), IsContent(d, j),
           c[Cat].perms \in {None} \union DOMAIN c, Later(c, d, k)
    PROVE  Certified(d) = Certified(c)
<1> DEFINE p == c[Cat].perms
<1>1. d[Cat].perms = p
  BY DEF Later, CatLater
<1>2. CASE p = None
  BY <1>1, <1>2 DEF Certified
<1>3. CASE p # None
  <2>1. p \in DOMAIN c /\ p \in Named("sig")
    BY <1>3, CatAndPage DEF CatObject, Ref
  <2>2. p[1] = "sig" /\ p # Slot
    BY <2>1 DEF Named, Slot
  <2>3. p \notin Moved(c)
    BY <2>1, <2>2, Unmoved
  <2>4. p \in DOMAIN d /\ d[p] = c[p]
    BY <2>1, <2>3 DEF Later
  <2>5. Val(d, p) = Val(c, p)
    BY <2>1, <2>4 DEF Val
  <2> HIDE DEF p
  <2>6. IsA(d, p, "sig") <=> IsA(c, p, "sig")
    BY <2>4, <2>5 DEF IsA
  <2> QED
    BY <1>1, <1>3, <2>4, <2>6 DEF Certified, p
<1> QED
  BY <1>2, <1>3

\* What a signature locked stays locked.
LEMMA LockedKept ==
    ASSUME NEW i \in Nat, NEW j \in Nat, NEW k, NEW c, NEW d, IsContent(c, i), IsContent(d, j), Later(c, d, k),
           NEW f, Locked(c, f)
    PROVE  Locked(d, f)
<1>1. PICK g \in ToSet(FormOf(c).fields) : /\ IsA(c, g, "field")
                                           /\ IsA(c, c[g].v, "sig")
                                           /\ f \in c[c[g].v].locks
  BY DEF Locked
<1>2. g \in ToSet(FormOf(d).fields)
  BY ListsIs, LongerHas DEF Later, FormLater
<1> DEFINE v == c[g].v
<1>3. g \in DOMAIN c /\ g[1] = "field" /\ v \in DOMAIN c /\ v[1] = "sig" /\ v # None
  <2>1. IsA(c, v, "sig")
    BY <1>1
  <2> HIDE DEF v
  <2>2. v \in DOMAIN c /\ v[1] = "sig"
    BY <2>1, KindFound
  <2>3. v # None
    BY <2>2, NumberIs
  <2>4. g \in DOMAIN c /\ g[1] = "field"
    BY <1>1, KindFound
  <2> QED
    BY <2>2, <2>3, <2>4
<1> HIDE DEF v
<1>4. d[v] = c[v] /\ v \in DOMAIN d
  <2>1. v # Slot
    BY <1>3 DEF Slot
  <2>2. v \notin Moved(c)
    BY <1>3, <2>1, Unmoved
  <2> QED
    BY <1>3, <2>2 DEF Later
<1>5. d[g] = c[g] /\ g \in DOMAIN d
  <2>1. CASE g = Slot
    BY <1>3, <2>1 DEF Later, SlotLater, v
  <2>2. CASE g # Slot
    <3>1. g \notin Moved(c)
      BY <1>3, <2>2, Unmoved
    <3> QED
      BY <1>3, <3>1 DEF Later
  <2> QED
    BY <2>1, <2>2
<1>6. IsA(d, g, "field") /\ IsA(d, v, "sig") /\ f \in d[v].locks /\ d[g].v = v
  <2>1. Val(d, g) = Val(c, g) /\ Val(d, v) = Val(c, v)
    BY <1>3, <1>4, <1>5 DEF Val
  <2>2. IsA(c, v, "sig")
    BY <1>1 DEF v
  <2>3. f \in c[v].locks
    BY <1>1 DEF v
  <2>4. d[g].v = v
    BY <1>5 DEF v
  <2>5. IsA(d, g, "field")
    BY <1>1, <1>5, <2>1 DEF IsA
  <2>6. IsA(d, v, "sig")
    BY <1>4, <2>1, <2>2 DEF IsA
  <2> QED
    BY <1>4, <2>3, <2>4, <2>5, <2>6
<1> QED
  BY <1>2, <1>6 DEF Locked

\* Nothing is a later state of itself.
LEMMA LaterSelf ==
    ASSUME NEW i \in Nat, NEW c, IsContent(c, i), NEW k
    PROVE  Later(c, c, k)
<1>1. Longer(c[Page].annots, c[Page].annots, c, k)
  BY ListsIs, LongerSelf
<1>2. FormLater(c, c, k)
  BY ListsIs, LongerSelf DEF FormLater
<1>3. CatLater(c, c, k) /\ SlotLater(c, c)
  BY DEF CatLater, SlotLater
<1> QED
  BY <1>1, <1>2, <1>3 DEF Later

\* Of three states, the last is a later one of the first.
LEMMA LaterTrans ==
    ASSUME NEW i \in Nat, NEW j \in Nat, NEW m \in Nat, NEW a \in Nat, NEW b \in Nat, a <= b, i <= a, i <= j, j <= m,
           NEW c, NEW d, NEW e, IsContent(c, i), IsContent(d, j), IsContent(e, m),
           c[Cat].perms \in {None} \union DOMAIN c,
           Later(c, d, a), Later(d, e, b)
    PROVE  Later(c, e, a)
<1>1. /\ DOMAIN c \subseteq DOMAIN d /\ DOMAIN d \subseteq DOMAIN e
      /\ \A o \in DOMAIN d \ DOMAIN c : o[2] > a
      /\ \A o \in DOMAIN e \ DOMAIN d : o[2] > b
  BY DEF Later
<1>2. \A o \in DOMAIN e : o[2] \in Int
  BY NumberIs
<1>3. DOMAIN c \subseteq DOMAIN e /\ \A o \in DOMAIN e \ DOMAIN c : o[2] > a
  BY <1>1, <1>2
<1>4. CatLater(c, d, a) /\ CatLater(d, e, b)
  BY DEF Later
<1>5. /\ d[Cat].form # c[Cat].form => c[Cat].form = None /\ d[Cat].form[2] > a
      /\ d[Cat].dss # c[Cat].dss => c[Cat].dss = None /\ d[Cat].dss[2] > a
      /\ e[Cat].form # d[Cat].form => d[Cat].form = None /\ e[Cat].form[2] > b
      /\ e[Cat].dss # d[Cat].dss => d[Cat].dss = None /\ e[Cat].dss[2] > b
  BY <1>4 DEF CatLater
<1>6. ASSUME NEW o \in DOMAIN c \ Moved(c)
      PROVE  e[o] = c[o]
  <2>1. d[o] = c[o] /\ o \in DOMAIN d
    BY <1>1 DEF Later
  <2>2. o[2] <= i /\ o[2] \in Int
    BY NumberIs
  <2>3. ~(o[2] > a)
    BY <2>2
  <2>4. o # d[Cat].form /\ o # d[Cat].dss
    BY <1>5, <2>3 DEF Moved
  <2>5. o \notin Moved(d)
    BY <2>4 DEF Moved
  <2> QED
    BY <2>1, <2>5 DEF Later
<1>7. e[Page].rest = c[Page].rest /\ Longer(c[Page].annots, e[Page].annots, e, a)
  <2>1. /\ Longer(c[Page].annots, d[Page].annots, d, a) /\ Longer(d[Page].annots, e[Page].annots, e, b)
        /\ d[Page].rest = c[Page].rest /\ e[Page].rest = d[Page].rest
    BY DEF Later
  <2> QED
    BY <1>1, <2>1, ListsIs, LongerTrans
<1>8. CatLater(c, e, a)
  <2>1. e[Cat].rest = c[Cat].rest /\ e[Cat].perms = c[Cat].perms
    BY <1>4 DEF CatLater
  <2>2. ASSUME e[Cat].form # c[Cat].form
        PROVE  c[Cat].form = None /\ e[Cat].form[2] > a
    <3>1. CASE d[Cat].form # c[Cat].form
      BY <1>5, <3>1
    <3>2. CASE d[Cat].form = c[Cat].form
      <4>1. c[Cat].form = None /\ e[Cat].form[2] > b /\ e[Cat].form # None
        BY <1>5, <2>2, <3>2
      <4>2. e[Cat].form \in DOMAIN e
        BY <4>1, CatAndPage
      <4> QED
        BY <1>2, <4>1, <4>2
    <3> QED
      BY <3>1, <3>2
  <2>3. ASSUME e[Cat].dss # c[Cat].dss
        PROVE  c[Cat].dss = None /\ e[Cat].dss[2] > a
    <3>1. CASE d[Cat].dss # c[Cat].dss
      BY <1>5, <3>1
    <3>2. CASE d[Cat].dss = c[Cat].dss
      <4>1. c[Cat].dss = None /\ e[Cat].dss[2] > b /\ e[Cat].dss # None
        BY <1>5, <2>3, <3>2
      <4>2. e[Cat].dss \in DOMAIN e
        BY <4>1, CatAndPage
      <4> QED
        BY <1>2, <4>1, <4>2
    <3> QED
      BY <3>1, <3>2
  <2>4. ASSUME e[Cat].inline # c[Cat].inline
        PROVE  e[Cat].form # None
    <3>1. CASE e[Cat].inline # d[Cat].inline
      BY <1>4, <3>1 DEF CatLater
    <3>2. CASE e[Cat].inline = d[Cat].inline
      <4>1. d[Cat].form # None
        BY <1>4, <2>4, <3>2 DEF CatLater
      <4> QED
        BY <1>5, <4>1
    <3> QED
      BY <3>1, <3>2
  <2> QED
    BY <2>1, <2>2, <2>3, <2>4 DEF CatLater
<1>9. FormLater(c, e, a)
  <2>1. FormLater(c, d, a) /\ FormLater(d, e, b)
    BY DEF Later
  <2>2. Longer(FormOf(c).fields, FormOf(e).fields, e, a)
    <3>1. Longer(FormOf(c).fields, FormOf(d).fields, d, a) /\ Longer(FormOf(d).fields, FormOf(e).fields, e, b)
      BY <2>1 DEF FormLater
    <3> QED
      BY <1>1, <3>1, ListsIs, LongerTrans
  <2>3. FormOf(e).rest = FormOf(c).rest /\ FormOf(e).flags \in {FormOf(c).flags, 3}
    BY <2>1 DEF FormLater
  <2> QED
    BY <2>2, <2>3 DEF FormLater
<1>10. Certified(d) = Certified(c)
  BY CertifiedSame
<1>11. ASSUME NEW s \in DOMAIN d, s[1] = "sig"
       PROVE  s \in DOMAIN e /\ e[s] = d[s]
  <2>1. s # Slot
    BY <1>11 DEF Slot
  <2>2. s \notin Moved(d)
    BY <1>11, <2>1, Unmoved
  <2> QED
    BY <2>2 DEF Later
<1>12. SlotLater(c, e)
  <2>1. SlotLater(c, d) /\ SlotLater(d, e)
    BY DEF Later
  <2>2. ASSUME Slot \in DOMAIN c, e[Slot] # c[Slot]
        PROVE  LET s == e[Slot].v
               IN  /\ c[Slot].kind = "field" /\ c[Slot].v = None
                   /\ e[Slot] = [c[Slot] EXCEPT !.v = s, !.ap = e[Slot].ap]
                   /\ s \in DOMAIN e \ DOMAIN c /\ e[s].type = "Sig"
                   /\ ~Locked(c, Slot)
    <3>1. CASE d[Slot] = c[Slot]
      <4>1. Slot \in DOMAIN d /\ e[Slot] # d[Slot]
        BY <1>1, <2>2, <3>1
      <4>2. ~Locked(d, Slot)
        BY <2>1, <4>1 DEF SlotLater
      <4>3. ~Locked(c, Slot)
        BY <4>2, LockedKept
      <4> QED
        BY <1>1, <2>1, <3>1, <4>1, <4>3 DEF SlotLater
    <3>2. CASE d[Slot] # c[Slot]
      <4> DEFINE s == d[Slot].v
      <4>1. /\ c[Slot].kind = "field" /\ c[Slot].v = None
            /\ d[Slot] = [c[Slot] EXCEPT !.v = s, !.ap = d[Slot].ap]
            /\ s \in DOMAIN d \ DOMAIN c /\ d[s].type = "Sig"
            /\ ~Locked(c, Slot)
        BY <2>1, <2>2, <3>2 DEF SlotLater
      <4>2. s # None /\ Slot \in DOMAIN d
        BY <1>1, <2>2, <4>1, NumberIs
      <4>3. e[Slot] = d[Slot]
        BY <2>1, <4>2 DEF SlotLater
      <4>4. s[1] = "sig"
        <5>1. Slot[1] = "field"
          BY DEF Slot
        <5>2. d[Slot] \in FieldObject
          BY <4>2, <5>1, ContentIs, KindIs
        <5>3. s \in Ref("sig")
          BY <5>2 DEF FieldObject
        <5> HIDE DEF s
        <5> QED
          BY <4>2, <5>3 DEF Ref, Named
      <4>5. s \in DOMAIN e /\ e[s] = d[s]
        BY <1>11, <4>1, <4>4
      <4> QED
        BY <4>1, <4>3, <4>5
    <3> QED
      BY <3>1, <3>2
  <2> QED
    BY <2>2 DEF SlotLater
<1>13. ASSUME NEW o \in DOMAIN e \ DOMAIN c, o[1] = "sig", e[o].type = "Sig"
       PROVE  Certified(c) # 1
  <2>1. CASE o \in DOMAIN d
    <3>1. e[o] = d[o]
      BY <1>11, <1>13, <2>1
    <3> QED
      BY <1>13, <2>1, <3>1 DEF Later
  <2>2. CASE o \notin DOMAIN d
    BY <1>10, <1>13, <2>2 DEF Later
  <2> QED
    BY <2>1, <2>2
<1>14. Leaves(c) \subseteq Leaves(e)
  BY DEF Later
<1> QED
  BY <1>3, <1>6, <1>7, <1>8, <1>9, <1>12, <1>13, <1>14 DEF Later

\* What was reached is reached still.
LEMMA RootedKept ==
    ASSUME NEW i \in Nat, NEW j \in Nat, NEW a, NEW c, NEW d, IsContent(c, i), IsContent(d, j), Later(c, d, a),
           NEW o \in DOMAIN c, o[2] > 1, Rooted(c, o)
    PROVE  Rooted(d, o)
<1>1. /\ DOMAIN c \subseteq DOMAIN d /\ CatLater(c, d, a) /\ SlotLater(c, d) /\ FormLater(c, d, a)
      /\ Leaves(c) \subseteq Leaves(d)
  BY DEF Later
<1>2. o \in Name /\ o # None /\ o[2] \in Int
  BY NumberIs
<1>3. o[1] = "form" => o = d[Cat].form
  BY <1>1, <1>2 DEF Rooted, CatLater
<1>4. o[1] = "dss" => o = d[Cat].dss
  BY <1>1, <1>2 DEF Rooted, CatLater
<1>5. ASSUME NEW x \in DOMAIN c, x[1] \in {"field", "sig", "ap"}, x # Slot
      PROVE  x \in DOMAIN d /\ d[x] = c[x]
  <2>1. x \notin Moved(c)
    BY <1>5, Unmoved
  <2> QED
    BY <1>1, <2>1 DEF Later
<1>6. o # Slot
  BY DEF Slot
<1>7. ASSUME o[1] = "field"
      PROVE  NewField(d, o)
  <2> DEFINE s == <<"sig", o[2]>>
  <2>1. NewField(c, o) /\ s[1] = "sig" /\ s # Slot
    BY <1>7 DEF Rooted, Slot
  <2>2. d[o] = c[o]
    BY <1>5, <1>6, <1>7
  <2> HIDE DEF s
  <2>3. s \in DOMAIN c
    BY <2>1 DEF NewField, s
  <2>4. s \in DOMAIN d /\ d[s] = c[s]
    BY <1>5, <2>1, <2>3
  <2>5. o \in ToSet(FormOf(d).fields)
    BY <1>1, <2>1, ListsIs, LongerHas DEF FormLater, NewField
  <2> QED
    BY <2>1, <2>2, <2>4, <2>5 DEF NewField, s
<1>8. ASSUME o[1] \in {"sig", "ap"}
      PROVE  \E n \in {<<"field", o[2]>>, Slot} :
                n \in DOMAIN d /\ d[n].v = <<"sig", o[2]>> /\ o \in {d[n].v, d[n].ap}
  <2>1. PICK n \in {<<"field", o[2]>>, Slot} :
                n \in DOMAIN c /\ c[n].v = <<"sig", o[2]>> /\ o \in {c[n].v, c[n].ap}
    BY <1>8 DEF Rooted
  <2>2. n \in DOMAIN d /\ d[n] = c[n]
    <3>1. CASE n = Slot
      <4>1. <<"sig", o[2]>> # None
        <5>1. <<"sig", o[2]>> \in Name
          BY <1>2 DEF Name, Kinds
        <5> QED
          BY <5>1, NoneApart
      <4> QED
        BY <1>1, <2>1, <3>1, <4>1 DEF SlotLater
    <3>2. CASE n # Slot
      <4>1. n[1] = "field"
        BY <3>2
      <4> QED
        BY <1>5, <2>1, <3>2, <4>1
    <3> QED
      BY <3>1, <3>2
  <2> QED
    BY <2>1, <2>2
<1> QED
  BY <1>1, <1>3, <1>4, <1>7, <1>8 DEF Rooted

\* A later state in which what is new is reached is an ordinary one.
LEMMA LaterOrdinary ==
    ASSUME NEW i \in Nat, NEW k \in Nat, NEW a \in Nat, a >= 1, NEW c, NEW d, IsContent(c, i), IsContent(d, k),
           Ordinary(c, k), Later(c, d, a), d = [o \in DOMAIN d |-> d[o]],
           \A o \in DOMAIN d \ DOMAIN c : Rooted(d, o) /\ (o[1] = "sig" => d[o].good)
    PROVE  Ordinary(d, k)
<1>1. DOMAIN c \subseteq DOMAIN d /\ \A o \in DOMAIN d \ DOMAIN c : o[2] > a
  BY DEF Later
<1>2. ASSUME NEW o \in DOMAIN d, o[1] = "sig"
      PROVE  d[o].good /\ o[2] > 1
  <2>1. CASE o \in DOMAIN c
    <3>1. o # Slot
      BY <1>2 DEF Slot
    <3>2. o \notin Moved(c)
      BY <1>2, <2>1, <3>1, Unmoved
    <3>3. d[o] = c[o]
      BY <2>1, <3>2 DEF Later
    <3> QED
      BY <1>2, <2>1, <3>3 DEF Ordinary
  <2>2. CASE o \notin DOMAIN c
    <3>1. o[2] \in Int
      BY NumberIs
    <3> QED
      BY <1>1, <1>2, <2>2, <3>1
  <2> QED
    BY <2>1, <2>2
<1>3. ASSUME NEW o \in DOMAIN d
      PROVE  o[2] \in -1..1 \/ (o[2] > 1 /\ Rooted(d, o))
  <2>1. CASE o \in DOMAIN c
    <3>1. o[2] \in -1..1 \/ (o[2] > 1 /\ Rooted(c, o))
      BY <2>1 DEF Ordinary
    <3> QED
      BY <2>1, <3>1, RootedKept
  <2>2. CASE o \notin DOMAIN c
    <3>1. o[2] \in Int
      BY NumberIs
    <3> QED
      BY <1>1, <2>2, <3>1
  <2> QED
    BY <2>1, <2>2
<1>4. d[Cat].perms \in {None} \union DOMAIN d
  BY <1>1 DEF Ordinary, Later, CatLater
<1>5. ASSUME NEW n \in ToSet(FormOf(d).fields)
      PROVE  n[2] <= k
  <2>1. n \in ToSet(FormOf(c).fields) \/ n \in DOMAIN d
    BY ListsIs, LongerHas DEF Later, FormLater
  <2> QED
    BY <2>1, NumberIs DEF Ordinary
<1> QED
  BY <1>2, <1>3, <1>4, <1>5 DEF Ordinary

\* The store lists no less when the catalog names the same.
LEMMA LeavesSame ==
    ASSUME NEW c, NEW d, d[Cat].dss = c[Cat].dss, Val(d, c[Cat].dss) = Val(c, c[Cat].dss),
           c[Cat].dss # None => c[Cat].dss \in DOMAIN c /\ c[Cat].dss \in DOMAIN d
    PROVE  Leaves(c) \subseteq Leaves(d)
<1>1. Store(c) = Store(d)
  BY DEF Store
<1>2. ASSUME NEW n \in Store(c)
      PROVE  (IsA(d, n, "dss") <=> IsA(c, n, "dss")) /\ d[n] = c[n]
  <2>1. n = c[Cat].dss /\ n # None
    BY DEF Store
  <2>2. d[n] = c[n]
    BY <2>1 DEF Val
  <2> QED
    BY <2>1, <2>2 DEF IsA
<1> QED
  BY <1>1, <1>2 DEF Leaves

\* The object stream an update is written in.
LEMMA StreamLater ==
    ASSUME NEW k \in Nat, k > 1, NEW c, NEW st, IsContent(c, k), IsContent(Put(c, <<"con", k>>, st), k),
           Ordinary(c, k), <<"con", k>> \notin DOMAIN c
    PROVE  Later(c, Put(c, <<"con", k>>, st), k - 1) /\ Ordinary(Put(c, <<"con", k>>, st), k)
<1> DEFINE o == <<"con", k>>
           d == Put(c, o, st)
<1>1. o[1] = "con" /\ o[2] = k /\ o # Cat /\ o # Page /\ o # Slot
  BY DEF Cat, Page, Slot
<1> HIDE DEF o
<1>2. /\ DOMAIN d = DOMAIN c \union {o}
      /\ \A x \in DOMAIN c : d[x] = c[x]
      /\ d = [x \in DOMAIN d |-> d[x]]
  BY DEF Put, o
<1> HIDE DEF d
<1>3. Cat \in DOMAIN c /\ Page \in DOMAIN c /\ d[Cat] = c[Cat] /\ d[Page] = c[Page]
  BY <1>2, CatAndPage
<1>4. c[Cat].form # None => c[Cat].form \in DOMAIN c /\ d[c[Cat].form] = c[c[Cat].form]
  BY <1>2, CatAndPage
<1>5. FormOf(d) = FormOf(c)
  BY <1>3, <1>4 DEF FormOf
<1>6. Leaves(c) \subseteq Leaves(d)
  <2>1. c[Cat].dss # None => c[Cat].dss \in DOMAIN c /\ c[Cat].dss \in DOMAIN d
    BY <1>2, CatAndPage
  <2>2. c[Cat].dss = None => c[Cat].dss \notin DOMAIN c /\ c[Cat].dss \notin DOMAIN d
    <3>1. IsContent(d, k)
      BY DEF d, o
    <3> QED
      BY <3>1, NumberIs
  <2>3. Val(d, c[Cat].dss) = Val(c, c[Cat].dss)
    BY <1>2, <2>1, <2>2 DEF Val
  <2> QED
    BY <1>3, <2>1, <2>3, LeavesSame
<1>7. Longer(c[Page].annots, d[Page].annots, d, k - 1) /\ FormLater(c, d, k - 1)
  BY <1>3, <1>5, ListsIs, LongerSelf DEF FormLater
<1>8. CatLater(c, d, k - 1) /\ SlotLater(c, d)
  BY <1>2, <1>3 DEF CatLater, SlotLater
<1>9. \A x \in DOMAIN d \ DOMAIN c : x[2] > k - 1 /\ x[1] # "sig"
  BY <1>1, <1>2
<1>10. Later(c, d, k - 1)
  BY <1>2, <1>3, <1>6, <1>7, <1>8, <1>9 DEF Later
<1>11. Rooted(d, o)
  BY <1>1 DEF Rooted
<1>12. Ordinary(d, k)
  <2>1. \A x \in DOMAIN d \ DOMAIN c : Rooted(d, x) /\ (x[1] = "sig" => d[x].good)
    BY <1>2, <1>9, <1>11
  <2>2. IsContent(d, k) /\ k - 1 \in Nat /\ k - 1 >= 1
    BY DEF d, o
  <2> QED
    BY <1>2, <1>10, <2>1, <2>2, LaterOrdinary
<1> QED
  BY <1>10, <1>12 DEF d, o

\* A list with one more.
LEMMA AppendHas ==
    ASSUME NEW F, NEW s \in Seq(F), NEW x \in F
    PROVE  ToSet(s) \subseteq ToSet(Append(s, x)) /\ x \in ToSet(Append(s, x))
<1> DEFINE t == Append(s, x)
<1>1. /\ DOMAIN s = 1..Len(s) /\ DOMAIN t = 1..(Len(s) + 1) /\ Len(s) \in Nat
      /\ \A p \in 1..Len(s) : t[p] = s[p]
      /\ t[Len(s) + 1] = x
  OBVIOUS
<1> HIDE DEF t
<1>2. Len(s) + 1 \in DOMAIN t /\ DOMAIN s \subseteq DOMAIN t
  BY <1>1
<1>3. x \in ToSet(t)
  BY <1>1, <1>2 DEF ToSet
<1>4. ASSUME NEW y \in ToSet(s)
      PROVE  y \in ToSet(t)
  <2>1. PICK p \in DOMAIN s : s[p] = y
    BY DEF ToSet
  <2>2. p \in DOMAIN t /\ t[p] = y
    BY <1>1, <1>2, <2>1
  <2> QED
    BY <2>2 DEF ToSet
<1> QED
  BY <1>3, <1>4 DEF t

\* More in the store.
LEMMA ArchivedLater ==
    ASSUME NEW k \in Nat, k > 1, k = New, NEW c, IsContent(c, k), IsContent(Archived(c), k), Ordinary(c, k),
           <<"dss", k>> \notin DOMAIN c, <<"cert", k>> \notin DOMAIN c
    PROVE  /\ Later(c, Archived(c), k - 1) /\ Ordinary(Archived(c), k)
           /\ \A o \in DOMAIN Archived(c) : o \in DOMAIN c \/ o[1] \in {"dss", "cert"}
<1> DEFINE t == IF c[Cat].dss = None THEN <<"dss", k>> ELSE c[Cat].dss
           l == <<"cert", k>>
           held == IF c[Cat].dss = None THEN <<>> ELSE c[t].certs
           leaf == [kind |-> "cert", rest |-> 0]
           store == [kind |-> "dss", rest |-> 0, certs |-> Append(held, l)]
           cat == [c[Cat] EXCEPT !.dss = t]
           d == Archived(c)
<1>1. d = Put(Put(Put(c, l, leaf), t, store), Cat, cat)
  BY DEF Archived
<1>2. /\ Cat \in DOMAIN c /\ Page \in DOMAIN c /\ c[Cat] \in CatObject
      /\ c[Cat].form # None => c[Cat].form \in DOMAIN c /\ c[Cat].form[1] = "form"
      /\ c[Cat].dss # None => c[Cat].dss \in DOMAIN c /\ c[Cat].dss[1] = "dss" /\ c[c[Cat].dss] \in DssObject
  BY CatAndPage
<1>3. /\ l[1] = "cert" /\ l[2] = k /\ t[1] = "dss" /\ (c[Cat].dss = None => t[2] = k)
      /\ t \notin {Cat, Page, Slot, l} /\ l \notin {Cat, Page, Slot}
  BY <1>2 DEF Cat, Page, Slot
<1>4. Cat # Page /\ Cat # Slot /\ Cat[1] = "cat" /\ Page[1] = "page" /\ Slot[1] = "field"
  BY DEF Cat, Page, Slot
<1>5. /\ cat.dss = t /\ cat.form = c[Cat].form /\ cat.inline = c[Cat].inline /\ cat.rest = c[Cat].rest
      /\ cat.perms = c[Cat].perms
  BY <1>2 DEF CatObject
<1>6. t # None /\ l # None
  <2>1. <<"dss", k>> \in Name /\ l \in Name
    BY NewName DEF Kinds
  <2> QED
    BY <2>1, NoneApart
<1>7. store.kind = "dss" /\ store.certs = Append(held, l) /\ store # None /\ store # Unreadable
  <2>1. IsObject(t, d[t], k)
    <3>1. t \in DOMAIN d
      BY <1>1 DEF Put
    <3> QED
      BY <3>1 DEF IsContent
  <2>2. d[t] = store
    BY <1>1, <1>3 DEF Put
  <2>3. store \in PlainObject \union StreamObject
    BY <2>1, <2>2 DEF IsObject
  <2> QED
    BY <2>3, KindIs
<1>8. held \in Seq(Named("cert")) /\ l \in Named("cert")
  <2>1. l \in Named("cert")
    BY NewName DEF Kinds
  <2> QED
    BY <1>2, <2>1 DEF DssObject
<1>9. (c[Cat].dss = None => t \notin DOMAIN c) /\ l \notin DOMAIN c
  OBVIOUS
<1> HIDE DEF leaf, store, cat, held, t, l
<1>10. /\ DOMAIN d = DOMAIN c \union {l, t}
       /\ d[l] = leaf /\ d[t] = store /\ d[Cat] = cat
       /\ \A o \in DOMAIN c : o \notin {l, t, Cat} => d[o] = c[o]
       /\ d = [o \in DOMAIN d |-> d[o]]
  BY <1>1, <1>2, <1>3 DEF Put
<1>11. IsContent(d, k)
  OBVIOUS
<1>12. t = c[Cat].dss \/ (c[Cat].dss = None /\ t[2] = k)
  BY <1>3 DEF t
<1> HIDE DEF d
<1>13. ASSUME NEW o \in DOMAIN c \ Moved(c)
       PROVE  d[o] = c[o]
  BY <1>9, <1>10, <1>12 DEF Moved
<1>14. d[Page] = c[Page]
  BY <1>2, <1>3, <1>4, <1>9, <1>10
<1>15. FormOf(d) = FormOf(c)
  <2>1. c[Cat].form # None => d[c[Cat].form] = c[c[Cat].form]
    BY <1>2, <1>3, <1>4, <1>10
  <2> QED
    BY <1>5, <1>10, <2>1 DEF FormOf
<1>16. ToSet(held) \subseteq Leaves(d) /\ l \in Leaves(d)
  <2>1. Store(d) = {t}
    BY <1>5, <1>6, <1>10 DEF Store
  <2>2. IsA(d, t, "dss")
    BY <1>7, <1>10 DEF IsA, Val
  <2>3. Leaves(d) = ToSet(Append(held, l))
    BY <1>7, <1>10, <2>1, <2>2 DEF Leaves
  <2> QED
    BY <1>8, <2>3, AppendHas
<1>17. Leaves(c) \subseteq ToSet(held)
  <2>1. CASE c[Cat].dss = None
    <3>1. Store(c) = {}
      BY <2>1 DEF Store
    <3> QED
      BY <3>1 DEF Leaves
  <2>2. CASE c[Cat].dss # None
    <3>1. Store(c) = {c[Cat].dss} /\ held = c[c[Cat].dss].certs
      BY <2>2 DEF Store, held, t
    <3>2. \A n \in Store(c) : (IF IsA(c, n, "dss") THEN ToSet(c[n].certs) ELSE {}) \subseteq ToSet(held)
      BY <3>1
    <3> QED
      BY <3>2 DEF Leaves
  <2> QED
    BY <2>1, <2>2
<1>18. Longer(c[Page].annots, d[Page].annots, d, k - 1) /\ FormLater(c, d, k - 1)
  BY <1>14, <1>15, ListsIs, LongerSelf DEF FormLater
<1>19. CatLater(c, d, k - 1)
  BY <1>5, <1>10, <1>12 DEF CatLater
<1>20. SlotLater(c, d)
  BY <1>3, <1>4, <1>10 DEF SlotLater
<1>21. \A x \in DOMAIN d \ DOMAIN c : x[2] > k - 1 /\ x[1] \in {"dss", "cert"} /\ x \in {l, t}
  BY <1>2, <1>3, <1>10, <1>12
<1>22. Later(c, d, k - 1)
  BY <1>10, <1>13, <1>14, <1>16, <1>17, <1>18, <1>19, <1>20, <1>21 DEF Later
<1>23. Rooted(d, l) /\ Rooted(d, t)
  <2>1. d[Cat].dss = t
    BY <1>5, <1>10
  <2> QED
    BY <1>3, <1>16, <2>1 DEF Rooted
<1>24. Ordinary(d, k)
  <2>1. \A x \in DOMAIN d \ DOMAIN c : Rooted(d, x) /\ (x[1] = "sig" => d[x].good)
    BY <1>21, <1>23
  <2>2. k - 1 \in Nat /\ k - 1 >= 1
    OBVIOUS
  <2> QED
    BY <1>10, <1>11, <1>22, <2>1, <2>2, LaterOrdinary
<1>25. \A o \in DOMAIN d : o \in DOMAIN c \/ o[1] \in {"dss", "cert"}
  BY <1>21
<1> QED
  BY <1>22, <1>24, <1>25 DEF d

\* What a signature may be that this library makes: good, and a time-stamp not to
\* be seen, or any where the certification allows signing.
MaySignWith(c, sig, look) ==
    /\ sig.good /\ sig.type \in {"Sig", "DocTimeStamp"}
    /\ sig.type = "DocTimeStamp" => look # "seen"
    /\ sig.type = "Sig" => Certified(c) # 1

\* A new field with its signature.
LEMMA AttachLater ==
    ASSUME NEW k \in Nat, k > 1, k = New, NEW c, NEW sig, NEW look \in Looks,
           IsContent(c, k), IsContent(Attach(c, sig, look), k), Ordinary(c, k), MaySignWith(c, sig, look),
           \A o \in DOMAIN c : o[1] \in {"sig", "field", "ap", "form"} => o[2] # k
    PROVE  /\ Later(c, Attach(c, sig, look), k - 1) /\ Ordinary(Attach(c, sig, look), k)
           /\ \A o \in DOMAIN Attach(c, sig, look) : o \in DOMAIN c \/ o[1] \in {"sig", "field", "ap", "form"}
<1> DEFINE f    == <<"field", k>>
           s    == <<"sig", k>>
           a    == <<"ap", k>>
           n    == IF c[Cat].form # None THEN c[Cat].form ELSE <<"form", k>>
           form == FormOf(c)
           drawn == look # "none"
           field == [kind |-> "field", rest |-> 0, v |-> s, area |-> look = "seen",
                     ap |-> IF look = "none" THEN None ELSE a]
           leaf == [kind |-> "ap", rest |-> 0]
           page   == [c[Page] EXCEPT !.annots = Append(@, f)]
           form1  == [form EXCEPT !.fields = Append(@, f), !.flags = 3]
           cat    == [c[Cat] EXCEPT !.form = n, !.inline = None]
           d      == Attach(c, sig, look)
<1>1. d = Put(Put(Put(IF look = "none" THEN Put(Put(c, s, sig), f, field)
                      ELSE Put(Put(Put(c, s, sig), f, field), a, leaf), Page, page), n, form1), Cat, cat)
  BY DEF Attach
<1>2. /\ Cat \in DOMAIN c /\ Page \in DOMAIN c /\ c[Cat] \in CatObject /\ c[Page] \in PageObject
      /\ c[Cat].form # None => c[Cat].form \in DOMAIN c /\ c[Cat].form[1] = "form"
      /\ c[Cat].dss # None => c[Cat].dss \in DOMAIN c /\ c[Cat].dss[1] = "dss"
      /\ form \in FormObject
  BY CatAndPage
<1>3. /\ f[1] = "field" /\ s[1] = "sig" /\ a[1] = "ap" /\ f[2] = k /\ s[2] = k /\ a[2] = k
      /\ n[1] = "form" /\ (c[Cat].form = None => n[2] = k)
  BY <1>2
<1>4. /\ Cat[1] = "cat" /\ Page[1] = "page" /\ Slot[1] = "field" /\ Slot[2] = 0
  BY DEF Cat, Page, Slot
<1>5. /\ cat.form = n /\ cat.dss = c[Cat].dss /\ cat.rest = c[Cat].rest /\ cat.perms = c[Cat].perms
      /\ cat.inline = None
  BY <1>2 DEF CatObject
<1>6. /\ page.rest = c[Page].rest /\ page.annots = Append(c[Page].annots, f)
  BY <1>2 DEF PageObject
<1>7. /\ form1.rest = form.rest /\ form1.flags = 3 /\ form1.fields = Append(form.fields, f)
  BY <1>2 DEF FormObject
<1>8. /\ field.v = s /\ field.ap \in {None, a} /\ field.area = (look = "seen")
      /\ drawn => field.ap = a
  OBVIOUS
<1>9. n # None /\ f \in Named("field")
  <2>1. <<"form", k>> \in Name /\ f \in Named("field")
    BY NewName DEF Kinds
  <2> QED
    BY <2>1, NoneApart
<1>10. /\ s \notin DOMAIN c /\ f \notin DOMAIN c /\ a \notin DOMAIN c
       /\ c[Cat].form = None => n \notin DOMAIN c
  BY <1>3
<1>11. n = c[Cat].form \/ (c[Cat].form = None /\ n[2] = k)
  BY <1>3
<1>12. f = <<"field", k>> /\ s = <<"sig", k>> /\ a = <<"ap", k>>
  OBVIOUS
<1> DEFINE more == {s, f, n} \union (IF look = "none" THEN {} ELSE {a})
<1> HIDE DEF f, s, a, n, form, field, leaf, page, form1, cat
<1>13. /\ DOMAIN d = DOMAIN c \union more
       /\ d[s] = sig /\ d[f] = field /\ d[n] = form1 /\ d[Page] = page /\ d[Cat] = cat
       /\ \A o \in DOMAIN c : o \notin {s, f, a, n, Page, Cat} => d[o] = c[o]
       /\ d = [o \in DOMAIN d |-> d[o]]
  BY <1>1, <1>2, <1>3, <1>4 DEF Put
<1>14. IsContent(d, k)
  OBVIOUS
<1> HIDE DEF d
<1>15. FormOf(d) = form1
  BY <1>5, <1>9, <1>13 DEF FormOf
<1>16. ASSUME NEW o \in DOMAIN c \ Moved(c)
       PROVE  d[o] = c[o]
  BY <1>10, <1>11, <1>13 DEF Moved
<1>17. f \in DOMAIN d /\ f[2] > k - 1
  BY <1>3, <1>13
<1>18. Longer(c[Page].annots, d[Page].annots, d, k - 1)
  <2>1. c[Page].annots \in Seq(Named("field"))
    BY ListsIs
  <2>2. Longer(c[Page].annots, Append(c[Page].annots, f), d, k - 1)
    BY <1>9, <1>17, <2>1, LongerAppend
  <2> QED
    BY <1>6, <1>13, <2>2
<1>19. FormLater(c, d, k - 1)
  <2>1. form.fields \in Seq(Named("field"))
    BY ListsIs DEF form
  <2>2. Longer(form.fields, Append(form.fields, f), d, k - 1)
    BY <1>9, <1>17, <2>1, LongerAppend
  <2> QED
    BY <1>7, <1>15, <2>2 DEF FormLater, form
<1>20. CatLater(c, d, k - 1)
  BY <1>5, <1>9, <1>11, <1>13 DEF CatLater
<1>21. SlotLater(c, d)
  <2>1. Slot \in DOMAIN c => d[Slot] = c[Slot]
    BY <1>3, <1>4, <1>10, <1>13
  <2> QED
    BY <2>1 DEF SlotLater
<1>22. Leaves(c) \subseteq Leaves(d)
  <2>1. c[Cat].dss # None => /\ c[Cat].dss \in DOMAIN c /\ c[Cat].dss \in DOMAIN d
                             /\ d[c[Cat].dss] = c[c[Cat].dss]
    BY <1>2, <1>3, <1>4, <1>13
  <2>2. c[Cat].dss = None => c[Cat].dss \notin DOMAIN c /\ c[Cat].dss \notin DOMAIN d
    BY <1>14, NumberIs
  <2>3. Val(d, c[Cat].dss) = Val(c, c[Cat].dss)
    BY <2>1, <2>2 DEF Val
  <2> QED
    BY <1>5, <1>13, <2>1, <2>3, LeavesSame
<1>23. \A x \in DOMAIN d \ DOMAIN c : x \in {s, f, n} \/ (drawn /\ x = a)
  BY <1>13
<1>24. \A x \in DOMAIN d \ DOMAIN c : x[2] > k - 1
  BY <1>2, <1>3, <1>11, <1>23
<1>25. \A x \in DOMAIN d \ DOMAIN c : x[1] = "sig" /\ d[x].type = "Sig" => Certified(c) # 1
  BY <1>3, <1>13, <1>23 DEF MaySignWith
<1>26. Later(c, d, k - 1)
  BY <1>6, <1>13, <1>16, <1>18, <1>19, <1>20, <1>21, <1>22, <1>24, <1>25 DEF Later
<1>27. NewField(d, f)
  <2>1. f \in ToSet(FormOf(d).fields)
    <3>1. form.fields \in Seq(Named("field"))
      BY ListsIs DEF form
    <3> QED
      BY <1>7, <1>9, <1>15, <3>1, AppendHas
  <2>2. s \in DOMAIN d /\ d[f] = field /\ d[s] = sig
    BY <1>13
  <2>3. sig.type = "DocTimeStamp" => field.area = FALSE
    BY <1>8 DEF MaySignWith
  <2> QED
    BY <1>3, <1>8, <1>12, <2>1, <2>2, <2>3 DEF NewField
<1>28. Rooted(d, f) /\ Rooted(d, n)
  BY <1>3, <1>5, <1>13, <1>27 DEF Rooted
<1>29. /\ Rooted(d, s)
       /\ drawn => Rooted(d, a)
  <2>1. f \in DOMAIN d /\ d[f].v = s /\ (drawn => d[f].ap = a)
    BY <1>8, <1>13
  <2> QED
    BY <1>3, <1>12, <2>1 DEF Rooted
<1>30. Ordinary(d, k)
  <2>1. \A x \in DOMAIN d \ DOMAIN c : Rooted(d, x) /\ (x[1] = "sig" => d[x].good)
    BY <1>3, <1>13, <1>23, <1>28, <1>29 DEF MaySignWith
  <2>2. k - 1 \in Nat /\ k - 1 >= 1
    OBVIOUS
  <2> QED
    BY <1>13, <1>14, <1>26, <2>1, <2>2, LaterOrdinary
<1>31. \A x \in DOMAIN d : x \in DOMAIN c \/ x[1] \in {"sig", "field", "ap", "form"}
  BY <1>3, <1>23
<1> QED
  BY <1>26, <1>30, <1>31 DEF d

\* The empty field signed.
LEMMA FilledLater ==
    ASSUME NEW k \in Nat, k > 1, k = New, NEW c, NEW sig,
           IsContent(c, k), IsContent(Filled(c, sig), k), Ordinary(c, k),
           sig.good, sig.type = "Sig", Certified(c) # 1, ~Locked(c, Slot),
           Slot \in DOMAIN c, c[Slot].v = None,
           \A o \in DOMAIN c : o[1] \in {"sig", "ap"} => o[2] # k
    PROVE  Later(c, Filled(c, sig), k - 1) /\ Ordinary(Filled(c, sig), k)
<1> DEFINE s == <<"sig", k>>
           a == <<"ap", k>>
           leaf == [kind |-> "ap", rest |-> 0]
           field == [c[Slot] EXCEPT !.v = s, !.ap = a]
           d == Filled(c, sig)
<1>1. d = Put(Put(Put(c, s, sig), a, leaf), Slot, field)
  BY DEF Filled
<1>2. /\ Cat \in DOMAIN c /\ Page \in DOMAIN c
      /\ c[Cat].form # None => c[Cat].form \in DOMAIN c /\ c[Cat].form[1] = "form"
      /\ c[Cat].dss # None => c[Cat].dss \in DOMAIN c /\ c[Cat].dss[1] = "dss"
  BY CatAndPage
<1>3. /\ s[1] = "sig" /\ a[1] = "ap" /\ s[2] = k /\ a[2] = k
  OBVIOUS
<1>4. /\ Cat[1] = "cat" /\ Page[1] = "page" /\ Slot[1] = "field" /\ Slot[2] = 0
  BY DEF Cat, Page, Slot
<1>5. c[Slot] \in FieldObject /\ c[Slot].kind = "field"
  BY <1>4, ContentIs, KindIs
<1>6. field.v = s /\ field.ap = a /\ field = [c[Slot] EXCEPT !.v = field.v, !.ap = field.ap]
  BY <1>5 DEF FieldObject
<1>7. s \notin DOMAIN c /\ a \notin DOMAIN c
  BY <1>3
<1>8. s = <<"sig", k>> /\ a = <<"ap", k>>
  OBVIOUS
<1> HIDE DEF s, a, leaf, field
<1>9. /\ DOMAIN d = DOMAIN c \union {s, a}
      /\ d[s] = sig /\ d[Slot] = field
      /\ \A o \in DOMAIN c : o # Slot => d[o] = c[o]
      /\ d = [o \in DOMAIN d |-> d[o]]
  BY <1>1, <1>3, <1>4, <1>7 DEF Put
<1>10. IsContent(d, k)
  OBVIOUS
<1> HIDE DEF d
<1>11. d[Cat] = c[Cat] /\ d[Page] = c[Page]
  BY <1>2, <1>4, <1>9
<1>12. FormOf(d) = FormOf(c)
  <2>1. c[Cat].form # None => d[c[Cat].form] = c[c[Cat].form]
    BY <1>2, <1>4, <1>9
  <2> QED
    BY <1>11, <2>1 DEF FormOf
<1>13. Leaves(c) \subseteq Leaves(d)
  <2>1. c[Cat].dss # None => /\ c[Cat].dss \in DOMAIN c /\ c[Cat].dss \in DOMAIN d
                             /\ d[c[Cat].dss] = c[c[Cat].dss]
    BY <1>2, <1>4, <1>9
  <2>2. c[Cat].dss = None => c[Cat].dss \notin DOMAIN c /\ c[Cat].dss \notin DOMAIN d
    BY <1>10, NumberIs
  <2>3. Val(d, c[Cat].dss) = Val(c, c[Cat].dss)
    BY <2>1, <2>2 DEF Val
  <2> QED
    BY <1>11, <2>1, <2>3, LeavesSame
<1>14. Longer(c[Page].annots, d[Page].annots, d, k - 1) /\ FormLater(c, d, k - 1)
  BY <1>11, <1>12, ListsIs, LongerSelf DEF FormLater
<1>15. CatLater(c, d, k - 1)
  BY <1>11 DEF CatLater
<1>16. SlotLater(c, d)
  BY <1>5, <1>6, <1>7, <1>9 DEF SlotLater
<1>17. \A x \in DOMAIN d \ DOMAIN c : x \in {s, a} /\ x[2] > k - 1
  BY <1>3, <1>9
<1>18. Later(c, d, k - 1)
  <2>1. \A o \in DOMAIN c \ Moved(c) : d[o] = c[o]
    BY <1>9 DEF Moved
  <2> QED
    BY <1>9, <1>11, <1>13, <1>14, <1>15, <1>16, <1>17, <2>1 DEF Later
<1>19. Rooted(d, s) /\ Rooted(d, a)
  <2>1. Slot \in DOMAIN d /\ d[Slot].v = s /\ d[Slot].ap = a
    BY <1>6, <1>9
  <2> QED
    BY <1>3, <1>8, <2>1 DEF Rooted
<1>20. Ordinary(d, k)
  <2>1. \A x \in DOMAIN d \ DOMAIN c : Rooted(d, x) /\ (x[1] = "sig" => d[x].good)
    BY <1>3, <1>9, <1>17, <1>19
  <2>2. k - 1 \in Nat /\ k - 1 >= 1
    OBVIOUS
  <2> QED
    BY <1>9, <1>10, <1>18, <2>1, <2>2, LaterOrdinary
<1> QED
  BY <1>18, <1>20 DEF d

-----------------------------------------------------------------------------
(* A file that only this library has updated.                               *)

\* In the first k parts nothing is damaged, and every object stream is there.
WellRead(f, k) ==
    /\ \A o \in DOMAIN TableAt(f, k) : ReadOf(f, k, o) # Unreadable
    /\ \A o \in DOMAIN TableAt(f, k) :
          LET con == TableAt(f, k)[o].con IN con # None => ReadOf(f, k, con) # None

OrdinaryFile ==
    /\ \A k \in 1..Len(parts) : WellRead(parts, k) /\ Ordinary(content[k], k)
    /\ \A k \in 2..Len(parts) : EndsMarked(parts, k)
    /\ \A k \in 1..Len(parts) : Signed(content[k]) => Later(content[k], Now, k)

\* In such a file what is read is what is there.
LEMMA WellReadIs ==
    ASSUME NEW f, IsGrown(f), NEW k \in 1..Len(f), NEW c, IsContent(c, k), Reads(f, k, c), WellRead(f, k)
    PROVE  /\ \A o : ReadOf(f, k, o) # Unreadable /\ Val(c, o) = ReadOf(f, k, o)
           /\ \A o : ReadOf(f, k, o) # None <=> o \in DOMAIN c
<1>1. k \in Nat
  BY FileIs
<1>2. ASSUME NEW o
      PROVE  ReadOf(f, k, o) # Unreadable /\ Val(c, o) = ReadOf(f, k, o)
  <2>1. ReadOf(f, k, o) # Unreadable
    <3>1. CASE o \in DOMAIN TableAt(f, k)
      BY <3>1 DEF WellRead
    <3>2. CASE o \notin DOMAIN TableAt(f, k)
      BY <3>2, ConstantsAssumption DEF ReadOf, Object
    <3> QED
      BY <3>1, <3>2
  <2>2. Val(c, o) = Kept(ReadOf(f, k, o))
    BY ReadsAll
  <2> QED
    BY <2>1, <2>2 DEF Kept
<1>3. \A o : Val(c, o) # None <=> o \in DOMAIN c
  BY <1>1, NumberIs DEF Val
<1> QED
  BY <1>2, <1>3

\* And after an update that takes nothing away it is too.
LEMMA WroteWell ==
    ASSUME FileInv, FileInv', Len(parts') = New, WellRead(parts, Len(parts)), DOMAIN Now \subseteq DOMAIN Now',
           NEW p, Extends(parts, parts', p), NEW closed, NEW gone, Lists(p, New, Now', gone, closed), gone = {}
    PROVE  WellRead(parts', New)
<1> DEFINE n == Len(parts)
           k == New
           g == parts'
           d == Now'
           T == TableAt(parts, n)
           U == TableAt(g, k)
           sec == p.sections[1]
           con == <<"con", k>>
<1>1. /\ n \in Nat \ {0} /\ n \in 1..Len(parts) /\ k = n + 1 /\ IsGrown(parts)
      /\ IsContent(Now, n) /\ Reads(parts, n, Now)
  BY NowIs DEF FileInv
<1>2. IsGrown(g) /\ k \in 1..Len(g) /\ IsContent(d, k) /\ Reads(g, k, d) /\ Len(g) = k
  <2>1. IsGrown(g) /\ Len(content') = k /\ k \in 1..k
    BY <1>1 DEF FileInv
  <2>2. Now' = content'[k]
    BY <2>1 DEF Now, Last
  <2> QED
    BY <2>1, <2>2 DEF FileInv
<1>3. /\ \A o : ReadOf(parts, n, o) # Unreadable
      /\ \A o : ReadOf(parts, n, o) # None <=> o \in DOMAIN Now
  BY <1>1, WellReadIs
<1>4. Adds(T, sec, U)
  BY <1>2, NextTable
<1>5. /\ sec.free = {} /\ DOMAIN sec.table \subseteq DOMAIN d
      /\ \A o \in DOMAIN sec.table : /\ o[1] = "con" => o = con
                                     /\ sec.table[o].con # None => sec.table[o].con = con /\ con \in DOMAIN d
  <2>1. Lists(p, k, d, gone, closed)
    OBVIOUS
  <2> HIDE DEF k, d, g, n, T, U
  <2>2. sec.free = gone /\ DOMAIN sec.table \subseteq DOMAIN d
    BY <2>1 DEF Lists
  <2>3. ASSUME NEW o \in DOMAIN sec.table
        PROVE  /\ o[1] = "con" => o = con
               /\ sec.table[o].con # None => sec.table[o].con = con /\ con \in DOMAIN d
    BY <2>1, <2>3 DEF Lists
  <2> QED
    BY <2>2, <2>3
<1>6. ASSUME NEW o \in DOMAIN T, Compressed(T[o])
      PROVE  T[o].con \notin DOMAIN sec.table /\ T[o].con # None
  <2>1. IsPlaced(parts, n, o, T[o])
    BY <1>1, EntryIsPlaced
  <2>2. T[o].con \in {"con"} \X (0..n) /\ T[o].con # None
    BY <1>6, <2>1 DEF IsPlaced, Compressed
  <2>3. \A x \in {"con"} \X (0..n) : x[1] = "con" /\ x # con
    BY <1>1
  <2> QED
    BY <1>5, <2>2, <2>3
<1>7. \A o \in DOMAIN d : ReadOf(g, k, o) # None /\ ReadOf(g, k, o) # Unreadable
  <2>1. ASSUME NEW o \in DOMAIN d
        PROVE  ReadOf(g, k, o) # None /\ ReadOf(g, k, o) # Unreadable
    <3>1. Val(d, o) = Kept(ReadOf(g, k, o))
      BY <1>2, ReadsAll
    <3>2. Val(d, o) # None
      BY <1>1, <1>2, NumberIs DEF Val
    <3> QED
      BY <3>1, <3>2 DEF Kept
  <2> QED
    BY <2>1
<1> HIDE DEF d, con, g, k, U, T, sec, n
<1>8. ASSUME NEW o \in DOMAIN U
      PROVE  ReadOf(g, k, o) # Unreadable
  <2>1. CASE o \in DOMAIN d
    BY <1>7, <2>1
  <2>2. CASE o \notin DOMAIN d
    <3>1. o \notin DOMAIN sec.table /\ o \notin sec.free
      BY <1>5, <2>2
    <3>2. o \in DOMAIN T
      BY <1>4, <1>8, <3>1 DEF Adds
    <3>3. Compressed(T[o]) => T[o].con \notin DOMAIN sec.table /\ T[o].con \notin sec.free
      BY <1>5, <1>6, <3>2
    <3>4. ReadOf(g, Len(g), o) = ReadOf(parts, n, o)
      BY <3>1, <3>2, <3>3, NextRead DEF g, T, sec, n
    <3> QED
      BY <1>2, <1>3, <3>4
  <2> QED
    BY <2>1, <2>2
<1>9. ASSUME NEW o \in DOMAIN U, U[o].con # None
      PROVE  ReadOf(g, k, U[o].con) # None
  <2>1. U[o].con \in DOMAIN d
    <3>1. CASE o \in DOMAIN sec.table
      <4>1. U[o] = sec.table[o]
        BY <1>4, <3>1 DEF Adds
      <4> QED
        BY <1>5, <1>9, <3>1, <4>1
    <3>2. CASE o \notin DOMAIN sec.table
      <4>1. U[o] = T[o] /\ o \in DOMAIN T
        BY <1>4, <1>9, <3>2 DEF Adds
      <4>2. ReadOf(parts, n, T[o].con) # None
        BY <1>9, <4>1 DEF WellRead, T, n
      <4>3. T[o].con \in DOMAIN Now
        BY <1>3, <4>2
      <4> QED
        BY <4>1, <4>3 DEF d
    <3> QED
      BY <3>1, <3>2
  <2> QED
    BY <1>7, <2>1
<1> QED
  BY <1>8, <1>9 DEF WellRead, U, g, k

\* Once signed, always.
LEMMA SignedKept ==
    ASSUME NEW i \in Nat, NEW c, NEW d, NEW a, IsContent(c, i), Later(c, d, a), Signed(c),
           NEW j \in Nat, IsContent(d, j)
    PROVE  Signed(d)
<1>1. PICK s \in DOMAIN c : c[s].kind = "sig"
  BY DEF Signed
<1>2. s[1] = "sig" /\ s # Slot
  BY <1>1, ContentIs DEF Slot
<1>3. s \notin Moved(c)
  BY <1>2, Unmoved
<1>4. s \in DOMAIN d /\ d[s] = c[s]
  BY <1>3 DEF Later
<1> QED
  BY <1>1, <1>4 DEF Signed

\* What an ordinary update leaves.
OrdinaryEdit(after) ==
    /\ IsEdit(Now, after, New) /\ Ordinary(after, New)
    /\ DOMAIN Now \subseteq DOMAIN after
    /\ Signed(Now) => Later(Now, after, Len(parts))

\* An ordinary update written leaves a file as it was before, one part longer.
LEMMA OrdinaryWrite ==
    ASSUME FileInv, OrdinaryFile, NEW after, OrdinaryEdit(after), NEW packed \in BOOLEAN, Write(after, packed, TRUE)
    PROVE  OrdinaryFile'
<1> DEFINE n == Len(parts)
           k == New
           con == <<"con", k>>
           closed == TRUE
           gone == DOMAIN Now \ DOMAIN after
<1>1. /\ n \in Nat \ {0} /\ n \in 1..Len(parts) /\ k = n + 1 /\ IsGrown(parts)
      /\ IsContent(Now, n) /\ Now = content[n] /\ k \in Nat /\ k > 1 /\ n <= k
  BY NowIs DEF FileInv
<1>2. closed \in BOOLEAN /\ Write(after, packed, closed) /\ closed
  OBVIOUS
<1> HIDE DEF closed
<1>3. IsEdit(Now, after, New) /\ IsContent(after, k) /\ Ordinary(after, k) /\ DOMAIN Now \subseteq DOMAIN after
  BY DEF OrdinaryEdit, IsEdit
<1>4. /\ FileInv' /\ Len(parts') = k /\ \A i \in 1..n : content'[i] = content[i]
      /\ Written(after, k, Now')
      /\ \E p : Extends(parts, parts', p) /\ Lists(p, k, Now', gone, closed)
  <2>1. IsEdit(Now, after, New)
    BY <1>3
  <2> QED
    BY <1>2, <2>1, WriteIs
<1>5. PICK p : Extends(parts, parts', p) /\ Lists(p, k, Now', gone, closed)
  BY <1>4
<1>6. gone = {}
  BY <1>3
<1> HIDE DEF gone
<1>7. con \notin DOMAIN after
  <2>1. con \in Named("con") /\ con \in Name
    BY <1>1, NewName DEF Kinds
  <2>2. con \notin DOMAIN Now
    <3>1. \A o \in DOMAIN Now : o[2] <= n
      BY <1>1, NumberIs
    <3> QED
      BY <1>1, <3>1
  <2>3. Val(after, con) = None
    <3> HIDE DEF con
    <3> QED
      BY <1>3, <2>1, <2>2 DEF IsEdit, Val
  <2> HIDE DEF con
  <2> QED
    BY <1>1, <1>3, <2>3, NumberIs DEF Val
<1>8. IsContent(Now', k) /\ Now' = content'[k] /\ Len(content') = k
  <2>1. Len(content') = k /\ k \in 1..k
    BY <1>1, <1>4 DEF FileInv
  <2>2. Now' = content'[k]
    BY <2>1 DEF Now, Last
  <2> QED
    BY <1>4, <2>1, <2>2 DEF FileInv
<1>9. PICK d : d = Now'
  OBVIOUS
<1>10. Later(after, d, n) /\ Ordinary(d, k) /\ DOMAIN after \subseteq DOMAIN d /\ IsContent(d, k)
  <2>1. IsContent(d, k)
    BY <1>8, <1>9
  <2>2. CASE d = after
    BY <1>1, <1>3, <2>1, <2>2, LaterSelf
  <2>3. CASE d # after
    <3>1. PICK st : d = Put(after, con, st)
      BY <1>4, <1>9, <2>3 DEF Written
    <3>2. k - 1 = n
      BY <1>1
    <3> HIDE DEF k, n
    <3>3. Later(after, d, k - 1) /\ Ordinary(d, k)
      BY <1>1, <1>3, <1>7, <2>1, <3>1, StreamLater DEF con
    <3>4. DOMAIN after \subseteq DOMAIN d
      BY <3>3 DEF Later
    <3> QED
      BY <2>1, <3>2, <3>3, <3>4
  <2> QED
    BY <2>2, <2>3
<1> HIDE DEF con
<1>11. Signed(Now) => Later(Now, d, n)
  <2>1. ASSUME Signed(Now)
        PROVE  Later(Now, d, n)
    <3>1. Later(Now, after, n)
      BY <2>1 DEF OrdinaryEdit
    <3>2. Now[Cat].perms \in {None} \union DOMAIN Now
      BY <1>1 DEF OrdinaryFile, Ordinary
    <3> HIDE DEF n, k
    <3> QED
      BY <1>1, <1>3, <1>10, <3>1, <3>2, LaterTrans
  <2> QED
    BY <2>1
<1>12. ASSUME NEW i \in 1..n, Signed(content[i])
       PROVE  Later(content[i], d, i)
  <2>1. Later(content[i], Now, i) /\ Ordinary(content[i], i)
    BY <1>12 DEF OrdinaryFile
  <2>2. IsContent(content[i], i) /\ i \in Nat /\ i <= n
    BY <1>1 DEF FileInv
  <2>3. Signed(Now)
    BY <1>1, <1>12, <2>1, <2>2, SignedKept
  <2>4. content[i][Cat].perms \in {None} \union DOMAIN content[i]
    BY <2>1 DEF Ordinary
  <2> HIDE DEF n, k
  <2>5. Later(Now, d, n)
    BY <1>11, <2>3
  <2> QED
    BY <1>1, <1>10, <2>1, <2>2, <2>4, <2>5, LaterTrans
<1>13. ASSUME NEW i \in 1..k
       PROVE  WellRead(parts', i) /\ Ordinary(content'[i], i)
  <2>1. CASE i = k
    <3>1. WellRead(parts', k)
      <4>1. DOMAIN Now \subseteq DOMAIN Now'
        BY <1>3, <1>9, <1>10
      <4>2. WellRead(parts, Len(parts))
        BY <1>1 DEF OrdinaryFile
      <4> QED
        BY <1>4, <1>5, <1>6, <4>1, <4>2, WroteWell
    <3> QED
      BY <1>8, <1>9, <1>10, <2>1, <3>1
  <2>2. CASE i # k
    <3>1. i \in 1..n
      BY <1>1, <2>2
    <3>2. WellRead(parts, i) /\ Ordinary(content[i], i)
      BY <3>1 DEF OrdinaryFile
    <3>3. TableAt(parts', i) = TableAt(parts, i)
      BY <1>5, <3>1, ExtendsIs
    <3>4. \A o : ReadOf(parts', i, o) = ReadOf(parts, i, o)
      BY <1>5, <3>1, OldRead
    <3> QED
      BY <1>4, <3>1, <3>2, <3>3, <3>4 DEF WellRead
  <2> QED
    BY <2>1, <2>2
<1>14. ASSUME NEW i \in 2..k
       PROVE  EndsMarked(parts', i)
  <2>1. CASE i = k
    <3>1. parts'[k] = p
      BY <1>4, <1>5, ExtendsIs
    <3>2. \E m \in p.markers : m.at = End(k)
      BY <1>2, <1>5 DEF Lists
    <3> QED
      BY <2>1, <3>1, <3>2 DEF EndsMarked
  <2>2. CASE i # k
    <3>1. i \in 1..n /\ i \in 2..n
      BY <1>1, <2>2
    <3>2. parts'[i] = parts[i]
      BY <1>5, <3>1, ExtendsIs
    <3> QED
      BY <3>1, <3>2 DEF OrdinaryFile, EndsMarked
  <2> QED
    BY <2>1, <2>2
<1>15. ASSUME NEW i \in 1..k, Signed(content'[i])
       PROVE  Later(content'[i], d, i)
  <2>1. CASE i = k
    <3>1. content'[i] = d
      BY <1>8, <1>9, <2>1
    <3> HIDE DEF k
    <3> QED
      BY <1>1, <1>10, <3>1, LaterSelf
  <2>2. CASE i # k
    <3>1. i \in 1..n
      BY <1>1, <2>2
    <3> QED
      BY <1>4, <1>12, <1>15, <3>1
  <2> QED
    BY <2>1, <2>2
<1> QED
  BY <1>4, <1>9, <1>13, <1>14, <1>15 DEF OrdinaryFile

\* What there is before an ordinary update.
LEMMA OrdinaryNow ==
    ASSUME FileInv, OrdinaryFile
    PROVE  /\ New \in Nat /\ New > 1 /\ Len(parts) = New - 1 /\ New - 1 \in Nat
           /\ IsEdit(Now, Now, New) /\ IsContent(Now, New) /\ Ordinary(Now, New)
           /\ Now[Cat].perms \in {None} \union DOMAIN Now
           /\ \A o \in DOMAIN Now : o[2] # New
<1>1. New \in Nat /\ New > 1 /\ IsEdit(Now, Now, New) /\ IsContent(Now, New)
  BY NewPart
<1>2. Len(parts) \in Nat \ {0} /\ Len(parts) \in 1..Len(parts) /\ IsContent(Now, Len(parts)) /\ Now = content[Len(parts)]
  BY NowIs DEF FileInv
<1>3. Ordinary(Now, Len(parts))
  BY <1>2 DEF OrdinaryFile
<1> DEFINE n == Len(parts)
           k == New
<1>4. n \in Nat /\ k = n + 1
  BY <1>2 DEF New
<1>5. \A o \in DOMAIN Now : o[2] <= n /\ o[2] \in Int
  BY <1>2, NumberIs
<1>6. \A x \in ToSet(FormOf(Now).fields) : x[2] <= n /\ x[2] \in Int
  BY <1>1, <1>3, ListsIs DEF Ordinary
<1> HIDE DEF n, k
<1>7. \A o \in DOMAIN Now : o[2] # k
  BY <1>4, <1>5
<1>8. \A x \in ToSet(FormOf(Now).fields) : x[2] <= k
  BY <1>4, <1>6
<1>9. Ordinary(Now, k)
  BY <1>3, <1>8 DEF Ordinary, n
<1>10. k - 1 = n
  BY <1>4
<1> QED
  BY <1>1, <1>3, <1>4, <1>7, <1>9, <1>10 DEF n, k, Ordinary

\* An update written.
LEMMA OrdinaryUpdate ==
    ASSUME FileInv, OrdinaryFile, NEW after, NEW packed \in BOOLEAN, NEW closed \in BOOLEAN, closed,
           IsEdit(Now, after, New), Later(Now, after, New - 1), Ordinary(after, New), Write(after, packed, closed)
    PROVE  OrdinaryFile'
<1>1. Len(parts) = New - 1
  BY OrdinaryNow
<1>2. OrdinaryEdit(after)
  BY <1>1 DEF OrdinaryEdit, Later
<1>3. closed = TRUE
  OBVIOUS
<1>4. Write(after, packed, TRUE)
  BY <1>3
<1> QED
  BY <1>2, <1>4, OrdinaryWrite

\* Signing.
LEMMA SignOrdinary ==
    ASSUME FileInv, OrdinaryFile, odd = 0, odd' = 0,
           NEW look \in Looks, NEW good \in BOOLEAN, NEW locks \in SUBSET Named("field"),
           NEW packed \in BOOLEAN, NEW closed \in BOOLEAN, Sign(look, good, locks, packed, closed)
    PROVE  OrdinaryFile'
<1> DEFINE sig == Signature("Sig", good, 0, locks)
           k == New
<1>1. good /\ closed /\ Certified(Now) # 1
  BY DEF Sign, Counted
<1>2. k \in Nat /\ k > 1 /\ IsEdit(Now, Now, k) /\ IsContent(Now, k) /\ Ordinary(Now, k) /\ \A o \in DOMAIN Now : o[2] # k
  BY OrdinaryNow
<1>3. IsObject(<<"sig", k>>, sig, k)
  BY <1>2, SignatureIs
<1>4. MaySignWith(Now, sig, look)
  BY <1>1 DEF MaySignWith, Signature
<1> HIDE DEF sig
<1>5. IsEdit(Now, Attach(Now, sig, look), k)
  BY <1>2, <1>3, AttachIs
<1>6. IsContent(Attach(Now, sig, look), k)
  BY <1>5 DEF IsEdit
<1>7. Later(Now, Attach(Now, sig, look), k - 1) /\ Ordinary(Attach(Now, sig, look), k)
  BY <1>2, <1>4, <1>6, AttachLater
<1>8. Write(Attach(Now, sig, look), packed, closed)
  BY DEF Sign, sig
<1> QED
  BY <1>1, <1>5, <1>7, <1>8, OrdinaryUpdate

\* The certification named in the catalog.
LEMMA NamedOrdinary ==
    ASSUME NEW k \in Nat, NEW c, IsContent(c, k), Ordinary(c, k), NEW s \in DOMAIN c
    PROVE  /\ DOMAIN [c EXCEPT ![Cat].perms = s] = DOMAIN c
           /\ Ordinary([c EXCEPT ![Cat].perms = s], k)
<1> DEFINE d == [c EXCEPT ![Cat].perms = s]
<1>1. /\ Cat \in DOMAIN c /\ c[Cat] \in CatObject
      /\ c[Cat].form # None => c[Cat].form \in DOMAIN c /\ c[Cat].form[1] = "form"
      /\ c[Cat].dss # None => c[Cat].dss \in DOMAIN c /\ c[Cat].dss[1] = "dss"
  BY CatAndPage
<1>2. /\ DOMAIN d = DOMAIN c /\ d = [o \in DOMAIN d |-> d[o]]
      /\ \A o \in DOMAIN c : o # Cat => d[o] = c[o]
      /\ d[Cat] = [c[Cat] EXCEPT !.perms = s]
  BY <1>1
<1>3. d[Cat].form = c[Cat].form /\ d[Cat].dss = c[Cat].dss /\ d[Cat].inline = c[Cat].inline /\ d[Cat].perms = s
  BY <1>1, <1>2 DEF CatObject
<1>4. Cat[1] = "cat"
  BY DEF Cat
<1> HIDE DEF d
<1>5. FormOf(d) = FormOf(c)
  BY <1>1, <1>2, <1>3, <1>4 DEF FormOf
<1>6. Leaves(c) \subseteq Leaves(d)
  <2>1. Val(d, c[Cat].dss) = Val(c, c[Cat].dss)
    <3>1. c[Cat].dss # Cat
      <4>1. CASE c[Cat].dss = None
        BY <1>1, <4>1, NumberIs
      <4>2. CASE c[Cat].dss # None
        BY <1>1, <1>4, <4>2
      <4> QED
        BY <4>1, <4>2
    <3> QED
      BY <1>2, <3>1 DEF Val
  <2> QED
    BY <1>1, <1>2, <1>3, <2>1, LeavesSame
<1>7. ASSUME NEW o \in DOMAIN c, o[1] = "sig" \/ o[1] = "field"
      PROVE  d[o] = c[o]
  BY <1>2, <1>4, <1>7
<1>8. ASSUME NEW o \in DOMAIN d
      PROVE  o[2] \in -1..1 \/ (o[2] > 1 /\ Rooted(d, o))
  <2>1. CASE o[2] \in -1..1
    BY <2>1
  <2>2. CASE o[2] > 1 /\ Rooted(c, o)
    <3>1. o[1] = "field" => NewField(d, o)
      <4>1. ASSUME o[1] = "field"
            PROVE  NewField(d, o)
        <5>1. NewField(c, o) /\ <<"sig", o[2]>> \in DOMAIN c
          BY <2>2, <4>1 DEF Rooted, NewField
        <5>2. d[o] = c[o] /\ d[<<"sig", o[2]>>] = c[<<"sig", o[2]>>]
          BY <1>2, <1>7, <4>1, <5>1
        <5> QED
          BY <1>2, <1>5, <5>1, <5>2 DEF NewField
      <4> QED
        BY <4>1
    <3>2. o[1] \in {"sig", "ap"} =>
             \E n \in {<<"field", o[2]>>, Slot} :
                 n \in DOMAIN d /\ d[n].v = <<"sig", o[2]>> /\ o \in {d[n].v, d[n].ap}
      <4>1. \A n \in {<<"field", o[2]>>, Slot} : n \in DOMAIN c => d[n] = c[n]
        BY <1>2 DEF Cat, Slot
      <4> QED
        BY <1>2, <2>2, <4>1 DEF Rooted
    <3> QED
      BY <1>3, <1>6, <2>2, <3>1, <3>2 DEF Rooted
  <2> QED
    BY <1>2, <2>1, <2>2 DEF Ordinary
<1>9. Ordinary(d, k)
  BY <1>2, <1>3, <1>5, <1>7, <1>8 DEF Ordinary
<1> QED
  BY <1>2, <1>9 DEF d

\* A certification, that only a file not signed is given.
LEMMA CertifyOrdinary ==
    ASSUME FileInv, OrdinaryFile, odd = 0, odd' = 0, NEW mdp \in 1..2, Certify(mdp)
    PROVE  OrdinaryFile'
<1> DEFINE sig == Signature("Sig", TRUE, mdp, {})
           k == New
           look == "none"
           s == <<"sig", k>>
           c == Attach(Now, sig, look)
           d == [c EXCEPT ![Cat].perms = s]
           no == FALSE
<1>1. ~Signed(Now)
  BY DEF Certify, Counted
<1>2. Now[Cat].perms = None /\ Write(d, no, TRUE) /\ no \in BOOLEAN
  BY DEF Certify
<1>3. k \in Nat /\ k > 1 /\ IsContent(Now, k) /\ Ordinary(Now, k) /\ \A o \in DOMAIN Now : o[2] # k
  BY OrdinaryNow
<1>4. MaySignWith(Now, sig, look)
  <2>1. sig.good /\ sig.type = "Sig"
    BY DEF Signature
  <2>2. Certified(Now) = 0
    BY <1>2 DEF Certified
  <2> HIDE DEF sig
  <2> QED
    BY <2>1, <2>2 DEF MaySignWith
<1>5. IsEdit(Now, c, k) /\ IsEdit(Now, d, k)
  BY CertifyIs
<1>6. look \in Looks
  BY DEF Looks
<1>7. s \in DOMAIN c /\ DOMAIN Now \subseteq DOMAIN c
  BY DEF Attach, Put
<1> HIDE DEF sig, look, no
<1>8. IsContent(c, k) /\ Ordinary(c, k)
  <2>1. IsContent(Attach(Now, sig, look), k)
    BY <1>5 DEF IsEdit
  <2> QED
    BY <1>3, <1>4, <1>6, <2>1, AttachLater
<1> HIDE DEF c, s
<1>9. Ordinary(d, k) /\ DOMAIN d = DOMAIN c
  BY <1>3, <1>7, <1>8, NamedOrdinary
<1> HIDE DEF d, k
<1>10. OrdinaryEdit(d)
  BY <1>1, <1>5, <1>7, <1>9 DEF OrdinaryEdit, k
<1> QED
  BY <1>2, <1>10, OrdinaryWrite

\* The empty field signed.
LEMMA FillOrdinary ==
    ASSUME FileInv, OrdinaryFile, odd = 0, odd' = 0, NEW good \in BOOLEAN, NEW stamp \in BOOLEAN, Fill(good, stamp)
    PROVE  OrdinaryFile'
<1> DEFINE sig == Signature(IF stamp THEN "DocTimeStamp" ELSE "Sig", good, 0, {})
           k == New
           no == FALSE
<1>1. good /\ ~stamp /\ Certified(Now) # 1 /\ ~Locked(Now, Slot)
  BY DEF Fill, Counted
<1>2. IsA(Now, Slot, "field") /\ Now[Slot].v = None /\ Write(Filled(Now, sig), no, TRUE) /\ no \in BOOLEAN
  BY DEF Fill
<1>3. k \in Nat /\ k > 1 /\ IsContent(Now, k) /\ Ordinary(Now, k) /\ \A o \in DOMAIN Now : o[2] # k
  BY OrdinaryNow
<1>4. IsObject(<<"sig", k>>, sig, k)
  BY <1>3, SignatureIs
<1>5. sig.good /\ sig.type = "Sig"
  BY <1>1 DEF Signature
<1> HIDE DEF sig, no
<1>6. IsEdit(Now, Filled(Now, sig), k)
  BY <1>2, <1>4, FillIs
<1>7. Slot \in DOMAIN Now /\ IsContent(Filled(Now, sig), k)
  BY <1>2, <1>3, <1>6, KindFound DEF IsEdit
<1>8. Later(Now, Filled(Now, sig), k - 1) /\ Ordinary(Filled(Now, sig), k)
  BY <1>1, <1>2, <1>3, <1>5, <1>7, FilledLater
<1>9. OrdinaryEdit(Filled(Now, sig))
  <2>1. Len(parts) = New - 1
    BY OrdinaryNow
  <2> QED
    BY <1>6, <1>8, <2>1 DEF OrdinaryEdit, Later
<1> QED
  BY <1>2, <1>9, OrdinaryWrite

\* The store.
LEMMA StoreOrdinary ==
    ASSUME FileInv, OrdinaryFile
    PROVE  /\ IsEdit(Now, Archived(Now), New) /\ IsContent(Archived(Now), New)
           /\ Later(Now, Archived(Now), New - 1) /\ Ordinary(Archived(Now), New)
           /\ \A o \in DOMAIN Archived(Now) : o[1] \in {"sig", "field", "ap", "form"} => o[2] # New
<1> DEFINE k == New
<1>1. /\ k \in Nat /\ k > 1 /\ IsEdit(Now, Now, k) /\ IsContent(Now, k) /\ Ordinary(Now, k)
      /\ \A o \in DOMAIN Now : o[2] # k
  BY OrdinaryNow
<1>2. IsEdit(Now, Archived(Now), k)
  BY <1>1, ArchivedIs
<1>3. IsContent(Archived(Now), k)
  BY <1>2 DEF IsEdit
<1>4. <<"dss", k>> \notin DOMAIN Now /\ <<"cert", k>> \notin DOMAIN Now
  BY <1>1
<1>5. /\ Later(Now, Archived(Now), k - 1) /\ Ordinary(Archived(Now), k)
      /\ \A o \in DOMAIN Archived(Now) : o \in DOMAIN Now \/ o[1] \in {"dss", "cert"}
  BY <1>1, <1>3, <1>4, ArchivedLater
<1> QED
  BY <1>1, <1>2, <1>3, <1>5

\* The store alone.
LEMMA AddStoreOrdinary ==
    ASSUME FileInv, OrdinaryFile, AddStore
    PROVE  OrdinaryFile'
<1> DEFINE no == FALSE
<1>1. Write(Archived(Now), no, TRUE) /\ no \in BOOLEAN
  BY DEF AddStore
<1> HIDE DEF no
<1>2. OrdinaryEdit(Archived(Now))
  <2>1. Len(parts) = New - 1
    BY OrdinaryNow
  <2> QED
    BY <2>1, StoreOrdinary DEF OrdinaryEdit, Later
<1> QED
  BY <1>1, <1>2, OrdinaryWrite

\* A time-stamp over the store.
LEMMA ArchiveOrdinary ==
    ASSUME FileInv, OrdinaryFile, odd = 0, odd' = 0, NEW look \in Looks, Archive(look)
    PROVE  OrdinaryFile'
<1> DEFINE sig == Signature("DocTimeStamp", TRUE, 0, {})
           k == New
           c == Archived(Now)
           no == FALSE
<1>1. look # "seen"
  BY DEF Archive, Counted
<1>2. Write(Attach(c, sig, look), no, TRUE) /\ no \in BOOLEAN
  BY DEF Archive
<1>3. k \in Nat /\ k > 1 /\ k - 1 \in Nat /\ Len(parts) = k - 1 /\ IsContent(Now, k)
      /\ Now[Cat].perms \in {None} \union DOMAIN Now
  BY OrdinaryNow
<1>4. /\ IsEdit(Now, c, k) /\ IsContent(c, k) /\ Later(Now, c, k - 1) /\ Ordinary(c, k)
      /\ \A o \in DOMAIN c : o[1] \in {"sig", "field", "ap", "form"} => o[2] # k
  BY StoreOrdinary
<1>5. IsObject(<<"sig", k>>, sig, k)
  <2>1. "DocTimeStamp" \in {"Sig", "DocTimeStamp"} /\ TRUE \in BOOLEAN /\ 0 \in 0..2
    OBVIOUS
  <2>2. {} \in SUBSET Named("field")
    OBVIOUS
  <2> QED
    BY <1>3, <2>1, <2>2, SignatureIs
<1>6. MaySignWith(c, sig, look)
  <2>1. sig.good /\ sig.type = "DocTimeStamp"
    BY DEF Signature
  <2> HIDE DEF sig
  <2> QED
    BY <1>1, <2>1 DEF MaySignWith
<1> HIDE DEF sig, no, c
<1>7. IsEdit(Now, Attach(c, sig, look), k)
  BY <1>3, <1>4, <1>5, AttachIs
<1>8. IsContent(Attach(c, sig, look), k)
  BY <1>7 DEF IsEdit
<1>9. Later(c, Attach(c, sig, look), k - 1) /\ Ordinary(Attach(c, sig, look), k)
  BY <1>3, <1>4, <1>6, <1>8, AttachLater
<1> DEFINE d == Attach(c, sig, look)
<1> HIDE DEF d
<1>10. IsContent(d, k) /\ Later(c, d, k - 1)
  BY <1>8, <1>9 DEF d
<1>11. IsContent(Now, k - 1)
  BY <1>3, NowIs
<1> DEFINE n == k - 1
<1>12. n \in Nat /\ n <= n /\ n <= k /\ k <= k
  BY <1>3
<1> HIDE DEF n, k
<1>13. Later(Now, d, n)
  <2>1. Later(Now, c, n) /\ Later(c, d, n) /\ IsContent(Now, n)
    BY <1>4, <1>10, <1>11 DEF n
  <2> QED
    BY <1>3, <1>4, <1>10, <1>12, <2>1, LaterTrans
<1>14. OrdinaryEdit(d)
  BY <1>3, <1>7, <1>9, <1>13 DEF OrdinaryEdit, Later, d, n, k
<1> QED
  BY <1>2, <1>14, OrdinaryWrite DEF d

\* Whatever ordinary update the file gets, it is such a file.
LEMMA GrowOrdinary ==
    ASSUME FileInv, OrdinaryFile, odd = 0, odd' = 0, Grow
    PROVE  OrdinaryFile'
<1>1. Slot \in Named("field")
  BY DEF Slot, Named
<1>2. "none" \in Looks /\ "seen" \in Looks /\ {Slot} \in SUBSET Named("field")
  BY <1>1 DEF Looks
<1> DEFINE yes == TRUE
           no == FALSE
           nothing == {}
<1>3. yes \in BOOLEAN /\ no \in BOOLEAN /\ nothing \in SUBSET Named("field")
  OBVIOUS
<1>4. ~Counted(no)
  BY DEF Counted
<1>5. \/ \E closed \in BOOLEAN : Sign("none", yes, nothing, no, closed)
      \/ Sign("none", yes, nothing, yes, yes)
      \/ \E good \in BOOLEAN : Sign("seen", good, nothing, no, yes)
      \/ Sign("none", yes, {Slot}, no, yes)
      \/ \E mdp \in 1..2 : Certify(mdp)
      \/ \E good \in BOOLEAN : Fill(good, no)
      \/ Fill(yes, yes)
      \/ \E look \in Looks : Archive(look)
      \/ AddStore
  <2> HIDE DEF yes, nothing
  <2>1. ~(\E closed \in BOOLEAN : Alter(closed)) /\ ~Reorder /\ ~AddOther /\ ~Delete /\ ~TouchContainer
    BY <1>4 DEF Alter, Reorder, AddOther, Delete, TouchContainer
  <2> QED
    BY <2>1 DEF Grow, yes, nothing
<1> HIDE DEF yes, no, nothing
<1>6. CASE \E closed \in BOOLEAN : Sign("none", yes, nothing, no, closed)
  BY <1>2, <1>3, <1>6, SignOrdinary
<1>7. CASE Sign("none", yes, nothing, yes, yes)
  BY <1>2, <1>3, <1>7, SignOrdinary
<1>8. CASE \E good \in BOOLEAN : Sign("seen", good, nothing, no, yes)
  BY <1>2, <1>3, <1>8, SignOrdinary
<1>9. CASE Sign("none", yes, {Slot}, no, yes)
  BY <1>2, <1>3, <1>9, SignOrdinary
<1>10. CASE \E mdp \in 1..2 : Certify(mdp)
  BY <1>10, CertifyOrdinary
<1>11. CASE \E good \in BOOLEAN : Fill(good, no)
  BY <1>3, <1>11, FillOrdinary
<1>12. CASE Fill(yes, yes)
  BY <1>3, <1>12, FillOrdinary
<1>13. CASE \E look \in Looks : Archive(look)
  BY <1>13, ArchiveOrdinary
<1>14. CASE AddStore
  BY <1>14, AddStoreOrdinary
<1> QED
  BY <1>5, <1>6, <1>7, <1>8, <1>9, <1>10, <1>11, <1>12, <1>13, <1>14

\* A sound base is such a file.
LEMMA BaseOrdinary ==
    ASSUME NEW b \in Bases, parts = <<b.part>>, content = <<b.content>>
    PROVE  OrdinaryFile
<1> DEFINE f == <<b.part>>
           c == b.content
           table == MergeSections(f, Chain(f))
<1>1. FileInv
  BY BaseInv
<1>2. IsSound(b)
  BY SoundAssumption
<1>3. Len(parts) = 1 /\ parts = f /\ content[1] = c /\ Now = c /\ Len(content) = 1
  BY DEF Now, Last
<1>4. IsGrown(parts) /\ IsContent(c, 1) /\ Reads(parts, 1, c)
  BY <1>1, <1>3 DEF FileInv
<1>5. TableAt(f, 1) = table
  <2>1. TableAt(f, Len(f)) = table
    BY <1>3, <1>4, ChainAll
  <2> QED
    BY <1>3, <2>1
<1>6. /\ c = [o \in DOMAIN c |-> c[o]] /\ c[Cat].perms = None
      /\ \A n \in ToSet(FormOf(c).fields) : n[2] <= 1
      /\ \A o \in DOMAIN table : /\ Object(f, End(1), table, o) # Unreadable
                                 /\ table[o].con \in {None} \union DOMAIN c
  BY <1>2 DEF IsSound
<1> HIDE DEF f, c, table
<1>7. \A o \in DOMAIN c : /\ o[2] \in -1..1 /\ o[1] # "sig" /\ c[o] # None
                          /\ ReadOf(f, 1, o) # None
  <2>1. ASSUME NEW o \in DOMAIN c
        PROVE  o[2] \in -1..1 /\ o[1] # "sig" /\ c[o] # None /\ ReadOf(f, 1, o) # None
    <3>1. o[2] \in -1..1 /\ c[o] # None
      BY <1>4, NumberIs
    <3>2. o[1] # "sig"
      <4>1. IsObject(o, c[o], 1)
        BY <1>4 DEF IsContent
      <4>2. o[1] = "sig" => c[o].by \in 2..1
        BY <4>1 DEF IsObject
      <4> QED
        BY <4>2
    <3>3. Val(c, o) = Kept(ReadOf(f, 1, o))
      BY <1>3, <1>4, ReadsAll
    <3> QED
      BY <3>1, <3>2, <3>3 DEF Val, Kept
  <2> QED
    BY <2>1
<1>8. Ordinary(c, 1)
  BY <1>6, <1>7 DEF Ordinary
<1>9. WellRead(f, 1)
  BY <1>5, <1>6, <1>7 DEF WellRead, ReadOf
<1>10. Later(c, c, 1)
  BY <1>4, LaterSelf
<1>11. \A k \in 1..Len(parts) : k = 1
  BY <1>3
<1>12. \A k \in 2..Len(parts) : FALSE
  BY <1>3
<1> QED
  BY <1>3, <1>8, <1>9, <1>10, <1>11, <1>12 DEF OrdinaryFile

-----------------------------------------------------------------------------
(* The revisions of such a file, and its verdicts.                          *)

\* What no marker states yet, the marker after it closes.
LEMMA SectionClosed ==
    ASSUME NEW f, IsGrown(f), EndsMarked(f, Len(f)), NEW a \in Chain(f)
    PROVE  SectionEnd(f, a) > 0
<1> DEFINE at == SectionOf(f, a).at
           naming == {m.at : m \in {x \in Markers(f) : x.states = at}}
           after  == {m.at : m \in {x \in Markers(f) : x.at > at}}
           n == Len(f)
           i == a[1]
<1>1. i \in 1..n /\ at \in Start(i)..End(i) - 1
  BY ChainOfFile DEF IsSection
<1>2. n \in Nat /\ n \in 1..n /\ Length(f) = End(n) /\ End(n) \in Nat
  BY FileIs DEF Length, End, Span
<1>3. ASSUME NEW m \in Markers(f)
      PROVE  m.at \in 1..End(n)
  <2>1. PICK j \in 1..n : m.at \in (Start(j) + 1)..End(j)
    BY MarkersAre
  <2> HIDE DEF n
  <2> QED
    BY <1>2, <2>1 DEF Start, End, Span
<1>4. naming \in SUBSET (-1..End(n)) /\ after \in SUBSET (-1..End(n))
      /\ \A y \in naming \union after : y > 0
  BY <1>2, <1>3
<1>5. after # {}
  <2>1. PICK m \in f[n].markers : m.at = End(n)
    BY DEF EndsMarked
  <2>2. m \in Markers(f)
    BY <1>2, FileIs DEF Markers
  <2>3. End(n) > at
    <3> HIDE DEF at, i, n
    <3> QED
      BY <1>1, <1>2 DEF Start, End, Span
  <2> QED
    BY <2>1, <2>2, <2>3
<1>6. SectionEnd(f, a) = IF naming # {} THEN Max(naming) ELSE IF after # {} THEN Min(after) ELSE -1
  BY DEF SectionEnd
<1> HIDE DEF naming, after, n, i
<1>7. CASE naming # {}
  <2>1. Max(naming) \in naming
    BY <1>2, <1>4, <1>7, MaxIs
  <2> QED
    BY <1>4, <1>6, <1>7, <2>1
<1>8. CASE naming = {}
  <2>1. Min(after) \in after
    BY <1>2, <1>4, <1>5, MinIs
  <2> QED
    BY <1>4, <1>5, <1>6, <1>8, <2>1
<1> QED
  BY <1>7, <1>8

\* An update that its marker closes ends there.
LEMMA UpdateEnds ==
    ASSUME NEW f, IsGrown(f), NEW k \in 2..Len(f), EndsMarked(f, k)
    PROVE  LET a == <<k, 1>>
           IN  a \in Chain(f) /\ a \in UpTo(f, k) /\ SectionEnd(f, a) = End(k)
<1> DEFINE a == <<k, 1>>
           at == SectionOf(f, a).at
           naming == {m.at : m \in {x \in Markers(f) : x.states = at}}
<1>1. k \in Nat /\ k > 1 /\ k \in 1..Len(f) /\ Len(f) \in Nat /\ k \in 1..k
  BY FileIs
<1>2. IsPart(f[k], k)
  BY <1>1 DEF IsGrown
<1>3. /\ DOMAIN f[k].sections = {1} /\ f[k].sections[1].at = Start(k) + 5
      /\ \A m \in f[k].markers : m.states = Start(k) + 5 /\ m.at = End(k)
  <2>1. f[k].markers \subseteq {[states |-> Start(k) + 5, at |-> End(k)]}
    BY <1>1, <1>2 DEF IsPart
  <2>2. \A m \in f[k].markers : m = [states |-> Start(k) + 5, at |-> End(k)]
    BY <2>1
  <2> QED
    BY <1>1, <1>2, <2>2 DEF IsPart
<1>4. a \in UpTo(f, k) /\ a \in Chain(f)
  <2>1. a \in UpTo(f, k)
    BY <1>1, <1>3, InUpTo
  <2> QED
    BY <2>1 DEF UpTo
<1>5. at = Start(k) + 5
  BY <1>3 DEF SectionOf
<1>6. ASSUME NEW m \in Markers(f), m.states = at
      PROVE  m.at = End(k)
  <2>1. PICK j \in 1..Len(f) : m \in f[j].markers /\ m.states \in Start(j)..(End(j) - 1)
    BY MarkersAre
  <2>2. j = k
    <3>1. Start(k) + 5 \in Start(j)..(End(j) - 1)
      BY <1>5, <1>6, <2>1
    <3> QED
      BY <1>1, <3>1 DEF Start, End, Span
  <2> QED
    BY <1>3, <2>1, <2>2
<1>7. PICK m \in f[k].markers : m.at = End(k)
  BY DEF EndsMarked
<1>8. m \in Markers(f) /\ m.states = at
  BY <1>1, <1>3, <1>5, <1>7, FileIs DEF Markers
<1>9. naming # {} /\ \A y \in naming : y = End(k)
  BY <1>6, <1>8
<1>10. SectionEnd(f, a) = Max(naming)
  BY <1>9 DEF SectionEnd
<1>11. End(k) \in Nat /\ naming \in SUBSET (-1..End(k))
  <2>1. End(k) \in Nat
    BY <1>1 DEF End, Span
  <2> HIDE DEF naming
  <2> QED
    BY <1>9, <2>1
<1> HIDE DEF naming
<1>12. Max(naming) \in naming
  BY <1>9, <1>11, MaxIs
<1> QED
  BY <1>4, <1>9, <1>10, <1>12

\* The revisions of such a file.
LEMMA OrdinaryEnds ==
    ASSUME FileInv, OrdinaryFile, NEW k \in 2..Len(parts)
    PROVE  End(k) \in RevisionEnds(parts) /\ ~Trailing
<1> DEFINE f == parts
           n == Len(parts)
           ends == {RevisionOfSection(f, a) : a \in Chain(f)}
<1>1. IsGrown(f) /\ n \in Nat /\ n \in 2..n /\ k \in 1..n /\ n \in 1..n
  BY NowIs DEF FileInv
<1>2. EndsMarked(f, k) /\ EndsMarked(f, n)
  BY <1>1 DEF OrdinaryFile
<1>3. ASSUME NEW a \in Chain(f)
      PROVE  /\ RevisionOfSection(f, a) > 0
             /\ RevisionOfSection(f, a) >= SectionEnd(f, a)
             /\ RevisionOfSection(f, a) \in -1..Length(f)
  <2> DEFINE S == {SectionEnd(f, b) : b \in {x \in Chain(f) : x = a \/ Older(x, a)}}
             m == Length(f)
  <2>1. m \in Nat
    BY <1>1 DEF Length, End, Span
  <2>2. S \in SUBSET (-1..m) /\ SectionEnd(f, a) \in S
    BY <1>1, SectionEndIs
  <2>3. RevisionOfSection(f, a) = Max(S)
    BY DEF RevisionOfSection
  <2>4. SectionEnd(f, a) > 0
    BY <1>1, <1>2, SectionClosed
  <2> HIDE DEF S, m
  <2>5. Max(S) \in S /\ \A y \in S : y <= Max(S)
    BY <2>1, <2>2, MaxIs
  <2>6. SectionEnd(f, a) <= Max(S) /\ Max(S) \in -1..m /\ SectionEnd(f, a) \in -1..m
    BY <2>2, <2>5
  <2> QED
    BY <2>1, <2>3, <2>4, <2>6 DEF m
<1>4. -1 \notin ends
  BY <1>3
<1>5. RevisionEnds(f) = ends
  BY <1>4 DEF RevisionEnds
<1>6. ASSUME NEW j \in 2..n
      PROVE  End(j) \in ends
  <2> DEFINE a == <<j, 1>>
  <2>1. j \in 1..n /\ j \in Nat
    BY <1>1
  <2>2. EndsMarked(f, j)
    BY DEF OrdinaryFile
  <2>3. a \in Chain(f) /\ SectionEnd(f, a) = End(j)
    BY <1>1, <2>2, UpdateEnds
  <2>4. a[1] <= j
    BY <2>1
  <2> HIDE DEF a
  <2>5. RevisionOfSection(f, a) <= End(j)
    BY <1>1, <2>1, <2>2, <2>3, <2>4, RevisionIs
  <2>6. RevisionOfSection(f, a) >= End(j) /\ RevisionOfSection(f, a) \in Int
    BY <1>3, <2>3
  <2>7. End(j) \in Int
    BY <2>1 DEF End, Span
  <2>8. RevisionOfSection(f, a) = End(j)
    BY <2>5, <2>6, <2>7
  <2> QED
    BY <2>3, <2>8
<1>7. ends \in SUBSET (-1..Length(f)) /\ Length(f) \in Nat /\ Length(f) = End(n)
  BY <1>1, <1>3 DEF Length, End, Span
<1>8. End(n) \in ends /\ End(k) \in ends
  BY <1>1, <1>6
<1> DEFINE len == Length(f)
<1> HIDE DEF ends, len, n, f
<1>9. ~(Max(ends) < len)
  <2>1. ends \in SUBSET (-1..len) /\ len \in Nat /\ len \in ends
    BY <1>7, <1>8 DEF len
  <2>2. Max(ends) \in ends /\ \A y \in ends : y <= Max(ends)
    BY <2>1, MaxIs
  <2>3. len <= Max(ends) /\ Max(ends) \in -1..len
    BY <2>1, <2>2
  <2> QED
    BY <2>1, <2>3
<1>10. RevisionEnds(parts) = ends /\ Length(parts) = len
  BY <1>5 DEF f, len
<1> QED
  BY <1>8, <1>9, <1>10 DEF Trailing

\* A signature of it.
LEMMA OrdinarySignature ==
    ASSUME FileInv, OrdinaryFile, NEW s \in documentSignatures
    PROVE  /\ s[1] = "sig" /\ s = <<"sig", s[2]>> /\ s[2] \in 2..Len(parts) /\ Now[s].by = s[2] /\ Now[s].good
           /\ RangeEnd(s) = End(s[2]) /\ s \in DOMAIN Now
<1> DEFINE n == Len(parts)
<1>1. n \in Nat /\ n \in 1..n /\ IsContent(Now, n) /\ Now = content[n]
  BY NowIs DEF FileInv
<1>2. s \in DOMAIN Now /\ Now[s].kind = "sig"
  BY DEF documentSignatures
<1>3. IsObject(s, Now[s], n) /\ s[1] = "sig" /\ s \in Name
  BY <1>1, <1>2, ContentIs
<1>4. Ordinary(Now, n)
  BY <1>1 DEF OrdinaryFile
<1>5. Now[s].good /\ s[2] > 1
  BY <1>2, <1>3, <1>4 DEF Ordinary
<1>6. s = <<"sig", s[2]>> /\ s[2] \in Int
  BY <1>3 DEF Name
<1>7. Now[s].by \in 2..n /\ Now[s].by = s[2]
  BY <1>3, <1>5, <1>6 DEF IsObject
<1> QED
  BY <1>2, <1>3, <1>5, <1>6, <1>7 DEF RangeEnd

\* Its revision is the update that made it.
LEMMA OrdinaryRevision ==
    ASSUME FileInv, OrdinaryFile, NEW s \in documentSignatures
    PROVE  RevisionOf(RevisionEnds(parts), s) = RangeEnd(s)
<1> DEFINE ends == RevisionEnds(parts)
           above == {e \in ends : e >= RangeEnd(s)}
           below == {0} \union {e \in ends : e < RangeEnd(s)}
           by == s[2]
           n == Length(parts)
<1>1. by \in 2..Len(parts) /\ RangeEnd(s) = End(by) /\ GapStart(s) = Start(by) + 2
  BY OrdinarySignature DEF GapStart
<1>2. IsGrown(parts) /\ Len(parts) \in Nat
  BY NowIs DEF FileInv
<1>3. End(by) \in ends
  BY <1>1, OrdinaryEnds
<1>4. ends \in SUBSET (-1..n) /\ n \in Nat /\ \A e \in ends : \E m \in Markers(parts) : m.at = e
  BY <1>2, EndsAre DEF Length, End, Span
<1> HIDE DEF ends, n, by
<1>5. End(by) \in -1..n
  BY <1>3, <1>4
<1>6. End(by) \in above
  <2>1. End(by) >= End(by)
    BY <1>5
  <2> QED
    BY <1>1, <1>3, <2>1
<1>7. above \in SUBSET (-1..n) /\ above # {} /\ \A y \in above : y >= End(by)
  <2>1. \A y \in above : y \in ends /\ y >= End(by)
    BY <1>1
  <2> HIDE DEF above
  <2> QED
    BY <1>4, <1>6, <2>1
<1>8. Min(above) = End(by)
  <2> HIDE DEF above
  <2>1. Min(above) \in above /\ \A y \in above : Min(above) <= y
    BY <1>4, <1>7, MinIs
  <2>2. Min(above) <= End(by) /\ Min(above) >= End(by) /\ Min(above) \in -1..n
    BY <1>6, <1>7, <2>1
  <2> QED
    BY <1>5, <2>2
<1>9. ASSUME NEW e \in below
      PROVE  e <= Start(by) + 2 /\ e \in -1..n
  <2>1. CASE e = 0
    BY <1>1, <1>4, <2>1 DEF Start, Span
  <2>2. CASE e \in ends /\ e < End(by)
    <3>1. PICK m \in Markers(parts) : m.at = e
      BY <1>4, <2>2
    <3>2. PICK j \in 1..Len(parts) : m \in parts[j].markers /\ m.at \in (Start(j) + 1)..End(j)
      BY <1>2, MarkersAre
    <3>3. j # by
      <4>1. by \in 1..Len(parts) /\ by > 1
        BY <1>1, <1>2
      <4>2. IsPart(parts[by], by)
        BY <1>2, <4>1 DEF IsGrown
      <4>3. parts[by].markers \subseteq {[states |-> Start(by) + 5, at |-> End(by)]}
        BY <4>1, <4>2 DEF IsPart
      <4>4. \A x \in parts[by].markers : x = [states |-> Start(by) + 5, at |-> End(by)]
        BY <4>3
      <4>5. \A x \in parts[by].markers : x.at = End(by)
        BY <4>4
      <4>6. e # End(by)
        BY <1>4, <1>5, <2>2
      <4> QED
        BY <3>1, <3>2, <4>5, <4>6
    <3>4. e \in (Start(j) + 1)..End(j)
      BY <3>1, <3>2
    <3> QED
      BY <1>1, <1>2, <1>4, <2>2, <3>3, <3>4 DEF Start, End, Span
  <2> QED
    BY <1>1, <1>9, <2>1, <2>2
<1>10. Max(below) <= Start(by) + 2
  <2>1. below \in SUBSET (-1..n) /\ below # {}
    BY <1>9
  <2> HIDE DEF below
  <2>2. Max(below) \in below
    BY <1>4, <2>1, MaxIs
  <2> QED
    BY <1>9, <2>2
<1>11. GapStart(s) >= Max(below)
  <2>1. below \in SUBSET (-1..n) /\ below # {}
    BY <1>9
  <2>2. Start(by) \in Int
    BY <1>1 DEF Start, Span
  <2> HIDE DEF below
  <2>3. Max(below) \in -1..n
    BY <1>4, <2>1, MaxIs
  <2> QED
    BY <1>1, <1>10, <2>2, <2>3
<1>12. \E e \in ends : e >= RangeEnd(s)
  BY <1>7
<1> QED
  BY <1>1, <1>8, <1>11, <1>12 DEF RevisionOf, ends

\* The verdicts so far: every signature is valid, over the update that made it,
\* and allowed once it is judged; a comparison is of the one to be judged next.
OrdinaryVerdicts ==
    /\ results # <<>> => DOMAIN results = documentSignatures
    /\ \A s \in DOMAIN results :
          /\ results[s].valid /\ results[s].revision = RangeEnd(s)
          /\ results[s].judged /\ ~spent => results[s].allowed
    /\ diff # None => IsNext(diff.of) /\ diff.was = Then(diff.of) /\ diff.is = Now

\* When verification starts.
LEMMA VerifyOrdinary ==
    ASSUME ReviewInv, OrdinaryFile, VerifyAll, stage = "writing"
    PROVE  OrdinaryVerdicts'
<1> DEFINE ends   == RevisionEnds(parts)
           ranged == {s \in documentSignatures : RevisionOf(ends, s) # -1 \/ Covers(s)}
           valid(s) == /\ s \in ranged
                       /\ \A t \in ranged \ {s} : RangeEnd(t) # RangeEnd(s)
                       /\ Now[s].good
           result(s) == [valid |-> valid(s), revision |-> RevisionOf(ends, s), whole |-> Covers(s),
                         judged |-> ~valid(s), allowed |-> FALSE, visible |-> {}, changed |-> None]
<1>1. /\ results' = [s \in documentSignatures |-> result(s)]
      /\ parts' = parts /\ content' = content /\ diff' = diff
  BY DEF VerifyAll, written
<1>2. FileInv /\ Now' = Now /\ diff' = None
  BY <1>1, Unwritten DEF ReviewInv
<1>3. documentSignatures' = documentSignatures /\ \A t : RangeEnd(t)' = RangeEnd(t)
  BY <1>2 DEF documentSignatures, RangeEnd
<1>4. ASSUME NEW s \in documentSignatures
      PROVE  results'[s].valid /\ results'[s].revision = RangeEnd(s) /\ ~results'[s].judged
  <2>1. /\ s = <<"sig", s[2]>> /\ s[2] \in 2..Len(parts) /\ Now[s].good /\ RangeEnd(s) = End(s[2])
    BY <1>2, OrdinarySignature
  <2>2. RevisionOf(ends, s) = RangeEnd(s)
    BY <1>2, OrdinaryRevision
  <2>3. RangeEnd(s) # -1
    BY <2>1 DEF End, Span
  <2>4. ASSUME NEW t \in documentSignatures, t # s
        PROVE  RangeEnd(t) # RangeEnd(s)
    <3>1. t = <<"sig", t[2]>> /\ t[2] \in 2..Len(parts) /\ RangeEnd(t) = End(t[2])
      BY <1>2, OrdinarySignature
    <3>2. t[2] # s[2]
      BY <2>1, <2>4, <3>1
    <3>3. End(t[2]) # End(s[2])
      BY <2>1, <3>1, <3>2 DEF End, Span
    <3> QED
      BY <2>1, <3>1, <3>3
  <2> HIDE DEF ends
  <2>5. valid(s)
    BY <2>1, <2>2, <2>3, <2>4
  <2>6. results'[s] = result(s)
    BY <1>1
  <2> HIDE DEF valid
  <2>7. /\ results'[s].valid = valid(s) /\ results'[s].revision = RevisionOf(ends, s)
        /\ results'[s].judged = ~valid(s)
    BY <2>6
  <2> QED
    BY <2>2, <2>5, <2>7
<1>5. DOMAIN results' = documentSignatures
  BY <1>1
<1> HIDE DEF result
<1> QED
  BY <1>2, <1>3, <1>4, <1>5 DEF OrdinaryVerdicts

-----------------------------------------------------------------------------
(* What ordinary updates change is explained.                               *)

\* A comparison of c, read after part i, with what some ordinary updates made of
\* it after part n, every new signature vouched for.
Ordinarily(d, c, e, i, n) ==
    /\ i \in Nat /\ n \in Nat /\ i >= 1
    /\ IsContent(c, i) /\ IsContent(e, n) /\ Ordinary(c, i) /\ Ordinary(e, n) /\ Later(c, e, i)
    /\ d.was = c /\ d.is = e /\ d.changes = Differ(c, e)
    /\ \A v \in DOMAIN e \ DOMAIN c : v[1] = "sig" => Vouched(v)

\* What is new since is an object of its kind that was not there, and no other
\* kind than its name says.
LEMMA OrdinaryNew ==
    ASSUME NEW d, NEW c, NEW e, NEW i, NEW n, Ordinarily(d, c, e, i, n), NEW o \in DOMAIN e \ DOMAIN c
    PROVE  /\ o[2] > i /\ o[2] \in Int /\ Rooted(e, o) /\ IsNew(d, o) /\ o \in Name /\ o # None
           /\ e[o].kind = o[1] /\ IsA(e, o, o[1])
<1>1. i \in Nat /\ n \in Nat /\ i >= 1 /\ IsContent(e, n) /\ Ordinary(e, n) /\ Later(c, e, i)
      /\ d.was = c /\ d.is = e /\ d.changes = Differ(c, e)
  BY DEF Ordinarily
<1>2. o \in Name /\ o # None /\ o[1] = e[o].kind /\ e[o] # None /\ o[2] \in Int
  BY <1>1, NumberIs
<1>3. o[2] > i /\ o[2] \notin -1..1
  BY <1>1, <1>2 DEF Later
<1>4. Rooted(e, o)
  BY <1>1, <1>3 DEF Ordinary
<1>5. Val(c, o) = None /\ Val(e, o) = e[o]
  BY DEF Val
<1>6. IsNew(d, o)
  BY <1>1, <1>2, <1>5 DEF IsNew, Differ
<1>7. e[o] # Unreadable
  <2>1. e[o] \in PlainObject \union StreamObject
    BY <1>1, ContentIs
  <2> QED
    BY <2>1, ConstantsAssumption
<1> QED
  BY <1>2, <1>3, <1>4, <1>5, <1>6, <1>7 DEF IsA

\* A signature made since.
LEMMA OrdinaryValue ==
    ASSUME NEW d, NEW c, NEW e, NEW i, NEW n, Ordinarily(d, c, e, i, n), NEW s \in DOMAIN e \ DOMAIN c, s[1] = "sig"
    PROVE  /\ IsNew(d, s) /\ IsA(e, s, "sig") /\ Vouched(s)
           /\ e[s].type \in {"Sig", "DocTimeStamp"}
           /\ e[s].type = "Sig" => MaySign(d)
<1>1. IsContent(e, n) /\ n \in Nat /\ Later(c, e, i) /\ d.was = c
  BY DEF Ordinarily
<1>2. IsNew(d, s) /\ IsA(e, s, "sig") /\ e[s].kind = "sig"
  BY OrdinaryNew
<1>3. Vouched(s)
  BY DEF Ordinarily
<1>4. e[s].type \in {"Sig", "DocTimeStamp"}
  <2>1. e[s] \in SigObject
    <3>1. e[s] \in PlainObject \union StreamObject
      BY <1>1, ContentIs
    <3> QED
      BY <1>2, <3>1, KindIs
  <2> QED
    BY <2>1 DEF SigObject
<1>5. e[s].type = "Sig" => Certified(c) # 1
  BY <1>1 DEF Later
<1> QED
  BY <1>1, <1>2, <1>3, <1>4, <1>5 DEF MaySign

\* A field made since is a signature's.
LEMMA OrdinaryField ==
    ASSUME NEW d, NEW c, NEW e, NEW i, NEW n, Ordinarily(d, c, e, i, n),
           NEW o \in DOMAIN e \ DOMAIN c, o[1] = "field"
    PROVE  o \in FieldsAdded(d) /\ o \in LaterFields(d)
<1> DEFINE s == <<"sig", o[2]>>
<1>1. i \in Nat /\ IsContent(c, i) /\ Ordinary(c, i) /\ d.was = c /\ d.is = e
  BY DEF Ordinarily
<1>2. o[2] > i /\ o[2] \in Int /\ NewField(e, o) /\ IsNew(d, o) /\ IsA(e, o, "field")
  <2>1. o[2] > i /\ o[2] \in Int /\ Rooted(e, o) /\ IsNew(d, o) /\ IsA(e, o, o[1])
    BY OrdinaryNew
  <2>2. NewField(e, o)
    BY <2>1 DEF Rooted
  <2> QED
    BY <2>1, <2>2
<1>3. s[1] = "sig" /\ s[2] = o[2]
  OBVIOUS
<1> HIDE DEF s
<1>4. /\ o \in ToSet(FormOf(e).fields) /\ e[o].v = s /\ s \in DOMAIN e
      /\ e[s].type = "DocTimeStamp" => ~(e[o].area /\ e[o].ap # None)
  BY <1>2 DEF NewField, s
<1>5. s \notin DOMAIN c
  <2>1. \A x \in DOMAIN c : x[2] <= i /\ x[2] \in -i..i
    BY <1>1, NumberIs
  <2> QED
    BY <1>1, <1>2, <1>3, <2>1
<1>6. /\ IsNew(d, s) /\ IsA(e, s, "sig") /\ Vouched(s)
      /\ e[s].type \in {"Sig", "DocTimeStamp"}
      /\ e[s].type = "Sig" => MaySign(d)
  BY <1>3, <1>4, <1>5, OrdinaryValue
<1>7. AddedSignatureField(d, o)
  BY <1>1, <1>2, <1>4, <1>6 DEF AddedSignatureField
<1>8. o \notin ToSet(FormOf(c).fields)
  <2>1. \A x \in ToSet(FormOf(c).fields) : x[2] <= i /\ x[2] \in Int
    BY <1>1, ListsIs DEF Ordinary
  <2> QED
    BY <1>1, <1>2, <2>1
<1> QED
  BY <1>1, <1>4, <1>7, <1>8 DEF FieldsAdded, LaterFields

\* A list has only such fields more.
LEMMA OrdinaryList ==
    ASSUME NEW d, NEW c, NEW e, NEW i, NEW n, Ordinarily(d, c, e, i, n),
           NEW s \in Seq(Named("field")), NEW t \in Seq(Named("field")), Longer(s, t, e, i)
    PROVE  AppendedOnly(s, t, FieldsAdded(d))
<1>1. i \in Nat /\ IsContent(c, i)
  BY DEF Ordinarily
<1>2. IsPrefix(s, t) /\ Len(s) \in Nat /\ Len(t) \in Nat
  BY DEF Longer
<1>3. ASSUME NEW p \in (Len(s) + 1)..Len(t)
      PROVE  t[p] \in FieldsAdded(d)
  <2>1. t[p] \in DOMAIN e /\ t[p][2] > i
    BY DEF Longer
  <2>2. t[p] \in Named("field")
    <3>1. p \in 1..Len(t)
      BY <1>2
    <3> QED
      BY <3>1
  <2>3. t[p][1] = "field"
    BY <2>2 DEF Named
  <2>4. t[p] \notin DOMAIN c
    <3>1. \A x \in DOMAIN c : x[2] <= i /\ x[2] \in -i..i
      BY <1>1, NumberIs
    <3> QED
      BY <1>1, <2>1, <3>1
  <2> QED
    BY <2>1, <2>3, <2>4, OrdinaryField
<1> QED
  BY <1>2, <1>3 DEF AppendedOnly

\* The form and the page were only added to.
LEMMA OrdinaryForm ==
    ASSUME NEW d, NEW c, NEW e, NEW i, NEW n, Ordinarily(d, c, e, i, n)
    PROVE  FormEdit(d, FormOf(d.was), FormOf(d.is)) /\ PageEdit(d)
<1>1. i \in Nat /\ n \in Nat /\ IsContent(c, i) /\ IsContent(e, n) /\ Later(c, e, i) /\ d.was = c /\ d.is = e
  BY DEF Ordinarily
<1>2. /\ c[Page].annots \in Seq(Named("field")) /\ FormOf(c).fields \in Seq(Named("field"))
      /\ e[Page].annots \in Seq(Named("field")) /\ FormOf(e).fields \in Seq(Named("field"))
  BY <1>1, ListsIs
<1>3. FormLater(c, e, i) /\ e[Page].rest = c[Page].rest /\ Longer(c[Page].annots, e[Page].annots, e, i)
  BY <1>1 DEF Later
<1>4. AppendedOnly(c[Page].annots, e[Page].annots, FieldsAdded(d))
  BY <1>2, <1>3, OrdinaryList
<1>5. AppendedOnly(FormOf(c).fields, FormOf(e).fields, FieldsAdded(d))
  BY <1>2, <1>3, OrdinaryList DEF FormLater
<1> QED
  BY <1>1, <1>3, <1>4, <1>5 DEF FormEdit, PageEdit, FormLater

\* The empty field, signed since.
LEMMA OrdinarySlot ==
    ASSUME NEW d, NEW c, NEW e, NEW i, NEW n, Ordinarily(d, c, e, i, n), Slot \in DOMAIN c, e[Slot] # c[Slot]
    PROVE  Slot \in LaterFields(d)
<1> DEFINE s == e[Slot].v
<1>1. /\ i \in Nat /\ n \in Nat /\ IsContent(c, i) /\ IsContent(e, n) /\ Later(c, e, i)
      /\ d.was = c /\ d.is = e /\ d.changes = Differ(c, e)
  BY DEF Ordinarily
<1>2. /\ c[Slot].kind = "field" /\ c[Slot].v = None
      /\ e[Slot] = [c[Slot] EXCEPT !.v = s, !.ap = e[Slot].ap]
      /\ s \in DOMAIN e \ DOMAIN c /\ e[s].type = "Sig"
      /\ ~Locked(c, Slot) /\ Slot \in DOMAIN e
  BY <1>1 DEF Later, SlotLater
<1>3. c[Slot] \in FieldObject /\ e[Slot] \in FieldObject /\ Slot[1] = "field"
  <2>1. Slot[1] = "field"
    BY DEF Slot
  <2>2. c[Slot] \in PlainObject \union StreamObject /\ e[Slot] \in PlainObject \union StreamObject /\ e[Slot].kind = "field"
    BY <1>1, <1>2, <2>1, ContentIs
  <2> QED
    BY <1>2, <2>1, <2>2, KindIs
<1> HIDE DEF s
<1>4. s[1] = "sig"
  <2>1. s \in Ref("sig")
    BY <1>3 DEF FieldObject, s
  <2>2. s # None
    BY <1>1, <1>2, NumberIs
  <2> QED
    BY <2>1, <2>2 DEF Ref, Named
<1>5. IsNew(d, s) /\ IsA(e, s, "sig") /\ Vouched(s) /\ MaySign(d)
  BY <1>2, <1>4, OrdinaryValue
<1>6. /\ IsA(c, Slot, "field") /\ IsA(e, Slot, "field") /\ Slot \in d.changes
  <2>1. /\ c[Slot] # None /\ c[Slot] # Unreadable /\ e[Slot] # None /\ e[Slot] # Unreadable
    BY <1>3, ConstantsAssumption DEF PlainObject
  <2>2. e[Slot].kind = "field"
    BY <1>3 DEF FieldObject
  <2> QED
    BY <1>1, <1>2, <2>1, <2>2 DEF IsA, Val, Differ
<1>7. SignedExistingField(d, Slot)
  BY <1>1, <1>2, <1>5, <1>6 DEF SignedExistingField, s
<1> QED
  BY <1>6, <1>7 DEF LaterFields

\* A signature made since, or what it draws, is its field's.
LEMMA OrdinaryDrawn ==
    ASSUME NEW d, NEW c, NEW e, NEW i, NEW n, Ordinarily(d, c, e, i, n),
           NEW o \in DOMAIN e \ DOMAIN c, o[1] \in {"sig", "ap"}
    PROVE  \E m \in LaterFields(d) : o \in {d.is[m].v} \union {a \in {d.is[m].ap} : IsNew(d, a)}
<1>1. /\ i \in Nat /\ n \in Nat /\ i >= 1 /\ IsContent(c, i) /\ IsContent(e, n) /\ Later(c, e, i)
      /\ d.was = c /\ d.is = e
  BY DEF Ordinarily
<1>2. o[2] > i /\ o[2] \in Int /\ Rooted(e, o) /\ IsNew(d, o)
  BY OrdinaryNew
<1>3. PICK m \in {<<"field", o[2]>>, Slot} : m \in DOMAIN e /\ e[m].v = <<"sig", o[2]>> /\ o \in {e[m].v, e[m].ap}
  BY <1>2 DEF Rooted
<1>4. m \in LaterFields(d)
  <2>1. CASE m \notin DOMAIN c
    <3>1. m[1] = "field"
      BY <1>3 DEF Slot
    <3> QED
      BY <1>3, <2>1, <3>1, OrdinaryField
  <2>2. CASE m \in DOMAIN c
    <3>1. m = Slot
      <4>1. \A x \in DOMAIN c : x[2] <= i /\ x[2] \in -i..i
        BY <1>1, NumberIs
      <4>2. <<"field", o[2]>>[2] = o[2]
        OBVIOUS
      <4> QED
        BY <1>1, <1>2, <1>3, <2>2, <4>1, <4>2
    <3>2. e[Slot] # c[Slot]
      <4>1. IsObject(Slot, c[Slot], i)
        BY <1>1, <2>2, <3>1 DEF IsContent
      <4>2. Slot[1] = "field"
        BY DEF Slot
      <4>3. <<"sig", o[2]>> # None
        <5>1. <<"sig", o[2]>> \in Name
          BY <1>2 DEF Name, Kinds
        <5> QED
          BY <5>1, NoneApart
      <4>4. c[Slot].v = None \/ c[Slot].v[2] \in 2..i
        BY <4>1, <4>2 DEF IsObject
      <4> QED
        BY <1>1, <1>2, <1>3, <3>1, <4>3, <4>4
    <3> QED
      BY <2>2, <3>1, <3>2, OrdinarySlot
  <2> QED
    BY <2>1, <2>2
<1>5. o \in {d.is[m].v} \union {a \in {d.is[m].ap} : IsNew(d, a)}
  BY <1>1, <1>2, <1>3
<1> QED
  BY <1>4, <1>5

\* All of it is explained.
LEMMA OrdinaryExplained ==
    ASSUME NEW d, NEW c, NEW e, NEW i, NEW n, Ordinarily(d, c, e, i, n)
    PROVE  d.changes \subseteq Explained(d)
<1>1. /\ i \in Nat /\ n \in Nat /\ i >= 1 /\ IsContent(c, i) /\ IsContent(e, n) /\ Later(c, e, i)
      /\ d.was = c /\ d.is = e /\ d.changes = Differ(c, e)
  BY DEF Ordinarily
<1>2. /\ DOMAIN c \subseteq DOMAIN e /\ CatLater(c, e, i)
      /\ \A o \in DOMAIN c \ Moved(c) : e[o] = c[o]
  BY <1>1 DEF Later
<1>3. FormEdit(d, FormOf(d.was), FormOf(d.is)) /\ PageEdit(d)
  BY OrdinaryForm
<1>4. /\ Cat \in DOMAIN c /\ Page \in DOMAIN c
      /\ c[Cat].form # None => c[Cat].form \in DOMAIN c /\ c[Cat].form[1] = "form"
      /\ c[Cat].dss # None => c[Cat].dss \in DOMAIN c /\ c[Cat].dss[1] = "dss"
  BY <1>1, CatAndPage
<1>5. \A o \in DOMAIN c : o # None
  BY <1>1, NumberIs
<1> DEFINE A == UNION {{m, d.is[m].v} \union {a \in {d.is[m].ap} : IsNew(d, a)} : m \in LaterFields(d)}
           B == DssChanges(d)
           C == StructuralAdditions(d)
           D == IF CatalogEdit(d) THEN {Cat} ELSE {}
           E == IF d.is[Cat].form # d.was[Cat].form
                THEN {m \in {d.is[Cat].form} : IsNew(d, m) /\ CatalogFormEdit(d)}
                ELSE {m \in {d.is[Cat].form} : FormEdit(d, FormOf(d.was), FormOf(d.is))}
           G == IF PageEdit(d) THEN {Page} ELSE {}
<1>6. Explained(d) = A \union B \union C \union D \union E \union G
  BY DEF Explained
<1>7. ASSUME NEW m \in LaterFields(d)
      PROVE  {m, d.is[m].v} \union {a \in {d.is[m].ap} : IsNew(d, a)} \subseteq A
  OBVIOUS
<1>8. CatalogEdit(d) /\ (e[Cat].form # None => CatalogFormEdit(d))
  BY <1>1, <1>2, <1>3 DEF CatalogEdit, CatalogFormEdit, CatLater
<1>9. ASSUME NEW o \in DOMAIN e \ DOMAIN c
      PROVE  o \in A \union B \union C \union D \union E \union G
  <2>1. Rooted(e, o) /\ IsNew(d, o) /\ IsA(e, o, o[1]) /\ o \in Name /\ o # None
    BY OrdinaryNew
  <2>2. o[1] \in {"form", "field", "sig", "dss", "ap", "cert", "con"}
    BY <2>1 DEF Rooted, Name, Kinds
  <2>3. CASE o[1] = "field"
    <3>1. o \in LaterFields(d)
      BY <2>3, OrdinaryField
    <3>2. o \in A
      BY <1>7, <3>1
    <3> QED
      BY <3>2
  <2>4. CASE o[1] \in {"sig", "ap"}
    <3>1. PICK m \in LaterFields(d) : o \in {d.is[m].v} \union {a \in {d.is[m].ap} : IsNew(d, a)}
      BY <2>4, OrdinaryDrawn
    <3>2. o \in A
      BY <1>7, <3>1
    <3> QED
      BY <3>2
  <2>5. CASE o[1] = "con"
    <3>1. o \in C
      BY <1>1, <2>1, <2>5 DEF StructuralAdditions, IsNew
    <3> QED
      BY <3>1
  <2>6. CASE o[1] = "cert"
    <3>1. o \in Leaves(e)
      BY <2>1, <2>6 DEF Rooted
    <3>2. o \in B
      BY <1>1, <2>1, <3>1 DEF DssChanges
    <3> QED
      BY <3>2
  <2>7. CASE o[1] = "dss"
    <3>1. o = e[Cat].dss
      BY <2>1, <2>7 DEF Rooted
    <3>2. o \in Store(e)
      BY <2>1, <3>1 DEF Store
    <3>3. Val(c, o) = None
      BY DEF Val
    <3>4. o \in B
      BY <1>1, <3>2, <3>3 DEF DssChanges
    <3> QED
      BY <3>4
  <2>8. CASE o[1] = "form"
    <3>1. o = e[Cat].form
      BY <2>1, <2>8 DEF Rooted
    <3>2. o # c[Cat].form
      BY <1>4, <2>1
    <3>3. CatalogFormEdit(d)
      BY <1>8, <2>1, <3>1
    <3>4. o \in E
      BY <1>1, <2>1, <3>1, <3>2, <3>3
    <3> QED
      BY <3>4
  <2> HIDE DEF A, B, C, D, E, G
  <2> QED
    BY <2>2, <2>3, <2>4, <2>5, <2>6, <2>7, <2>8
<1>10. ASSUME NEW o \in DOMAIN c, e[o] # c[o]
       PROVE  o \in A \union B \union C \union D \union E \union G
  <2>1. o \in {Cat, Page, Slot, c[Cat].form, c[Cat].dss} /\ o # None
    BY <1>2, <1>5, <1>10 DEF Moved
  <2>2. CASE o = Cat
    <3>1. o \in D
      BY <1>8, <2>2
    <3> QED
      BY <3>1
  <2>3. CASE o = Page
    <3>1. o \in G
      BY <1>3, <2>3
    <3> QED
      BY <3>1
  <2>4. CASE o = Slot
    <3>1. o \in LaterFields(d)
      BY <1>10, <2>4, OrdinarySlot
    <3>2. o \in A
      BY <1>7, <3>1
    <3> QED
      BY <3>2
  <2>5. CASE o = c[Cat].form
    <3>1. e[Cat].form = c[Cat].form
      BY <1>2, <2>1, <2>5 DEF CatLater
    <3>2. o \in E
      BY <1>1, <1>3, <2>5, <3>1
    <3> QED
      BY <3>2
  <2>6. CASE o = c[Cat].dss
    <3>1. e[Cat].dss = c[Cat].dss
      BY <1>2, <2>1, <2>6 DEF CatLater
    <3>2. o \in Store(e) /\ o \in Store(c)
      BY <2>1, <2>6, <3>1 DEF Store
    <3>3. o \in B
      BY <1>1, <3>2 DEF DssChanges
    <3> QED
      BY <3>3
  <2> HIDE DEF A, B, C, D, E, G
  <2> QED
    BY <2>1, <2>2, <2>3, <2>4, <2>5, <2>6
<1>11. \A o \in Differ(c, e) : o \in DOMAIN e \ DOMAIN c \/ (o \in DOMAIN c /\ e[o] # c[o])
  BY <1>2 DEF Differ, Val
<1> HIDE DEF A, B, C, D, E, G
<1> QED
  BY <1>1, <1>6, <1>9, <1>10, <1>11

-----------------------------------------------------------------------------
(* The verdicts, step by step.                                              *)

\* With a comparison at hand or another still to make, what is left to judge.
LEMMA OrdinaryWaiting ==
    ASSUME SeenInv, OrdinaryFile, OrdinaryVerdicts, NEW s \in Waiting
    PROVE  /\ s = <<"sig", s[2]>> /\ s[1] = "sig" /\ s[2] \in 2..Len(parts) /\ results[s].revision = End(s[2])
           /\ EndsMarked(parts, s[2]) /\ DOMAIN results = documentSignatures
           /\ Then(s) = content[s[2]] /\ s \in DOMAIN content[s[2]] /\ Signed(content[s[2]])
<1>1. ReviewInv /\ FileInv /\ NoneAgain
  BY DEF SeenInv, ReviewInv
<1>2. s \in DOMAIN results /\ Reviewed(s)
  BY <1>1, WaitingIs
<1>3. DOMAIN results = documentSignatures
  <2>1. results # <<>>
    BY <1>2
  <2> QED
    BY <2>1 DEF OrdinaryVerdicts
<1>4. /\ s[1] = "sig" /\ s = <<"sig", s[2]>> /\ s[2] \in 2..Len(parts) /\ s \in DOMAIN Now /\ RangeEnd(s) = End(s[2])
  BY <1>1, <1>2, <1>3, OrdinarySignature
<1>5. results[s].revision = End(s[2])
  BY <1>2, <1>4 DEF OrdinaryVerdicts
<1> DEFINE k == s[2]
<1>6. k \in 2..Len(parts) /\ Len(parts) \in Nat /\ Len(parts) \in 1..Len(parts) /\ Now = content[Len(parts)]
  BY <1>1, <1>4, NowIs
<1> HIDE DEF k
<1>7. k \in 1..Len(parts) /\ k \in Nat /\ End(k) \div Span = k
  BY <1>6 DEF End, Span
<1>8. Then(s) = content[k]
  BY <1>5, <1>7 DEF Then, k
<1>9. s \in DOMAIN content[k]
  <2>1. s[2] \in -k..k
    BY <1>7 DEF k
  <2> QED
    BY <1>1, <1>4, <1>6, <1>7, <2>1 DEF NoneAgain
<1>10. Signed(content[k])
  <2>1. IsContent(content[k], k)
    BY <1>1, <1>7 DEF FileInv
  <2>2. PICK c : c = content[k]
    OBVIOUS
  <2>3. c[s].kind = s[1] /\ s \in DOMAIN c
    BY <1>7, <1>9, <2>1, <2>2, NumberIs
  <2> QED
    BY <1>4, <2>2, <2>3 DEF Signed
<1>11. EndsMarked(parts, k)
  BY <1>6 DEF OrdinaryFile
<1> QED
  BY <1>3, <1>4, <1>5, <1>8, <1>9, <1>10, <1>11 DEF k

\* A state as its reader finds it, and no container of it is missing.
LEMMA OrdinaryState ==
    ASSUME FileInv, OrdinaryFile, NEW k \in 1..Len(parts)
    PROVE  LET T == TableAt(parts, k)
               was == StateOf(parts, End(k), T)
           IN  /\ was = content[k] /\ \A o : Val(was, o) # Unreadable
               /\ \A some : ~NilContainer(parts, End(k), T, some)
<1> DEFINE T == TableAt(parts, k)
           c == content[k]
           read == [o \in DOMAIN T |-> Object(parts, End(k), T, o)]
           was == StateOf(parts, End(k), T)
<1>1. IsGrown(parts) /\ IsContent(c, k) /\ Reads(parts, k, c) /\ WellRead(parts, k) /\ Ordinary(c, k)
  BY DEF FileInv, OrdinaryFile
<1>2. /\ \A o : ReadOf(parts, k, o) # Unreadable /\ Val(c, o) = ReadOf(parts, k, o)
      /\ \A o : ReadOf(parts, k, o) # None <=> o \in DOMAIN c
  BY <1>1, WellReadIs
<1>3. /\ was = [o \in {x \in DOMAIN T : read[x] # None} |-> read[o]]
      /\ \A o \in DOMAIN T : read[o] = ReadOf(parts, k, o)
  BY DEF StateOf, ReadOf
<1>4. \A o : ReadOf(parts, k, o) = Object(parts, End(k), T, o)
  BY DEF ReadOf
<1>5. \A o : Val(was, o) = ReadOf(parts, k, o)
  BY <1>4, StateIs
<1>6. \A o \in DOMAIN c : o \in DOMAIN T
  <2>1. \A o : o \notin DOMAIN T => Object(parts, End(k), T, o) = None
    BY DEF Object
  <2> QED
    BY <1>2, <1>4, <2>1
<1>7. c = [o \in DOMAIN c |-> c[o]]
  BY <1>1 DEF Ordinary
<1>8. was = c
  <2> HIDE DEF T, read, was, c
  <2>1. DOMAIN was = DOMAIN c
    BY <1>2, <1>3, <1>6
  <2>2. \A o \in DOMAIN c : was[o] = c[o]
    BY <1>2, <1>5, <2>1 DEF Val
  <2>3. was = [o \in DOMAIN was |-> was[o]]
    BY <1>3
  <2> QED
    BY <1>7, <2>1, <2>2, <2>3
<1>9. ASSUME NEW o \in DOMAIN T, Compressed(T[o])
      PROVE  ~ContainerMissing(parts, End(k), T, T[o].con)
  <2> DEFINE con == T[o].con
  <2>1. con # None
    BY <1>9 DEF Compressed
  <2>2. ReadOf(parts, k, con) # None
    BY <1>1, <2>1 DEF WellRead
  <2> HIDE DEF con
  <2>3. con \in DOMAIN T
    BY <1>4, <2>2 DEF Object
  <2>4. ~Compressed(T[con])
    BY <1>1, <1>9, <2>1, <2>3, ContainerIsPlaced DEF con
  <2>5. ParseAt(parts, End(k), T[con], con) # None
    BY <1>4, <2>2, <2>3, <2>4 DEF Object
  <2>6. ~ContainerMissing(parts, End(k), T, con)
    BY <2>3, <2>5 DEF ContainerMissing
  <2> QED
    BY <2>6 DEF con
<1> HIDE DEF T, was
<1>10. \A some : ~NilContainer(parts, End(k), T, some)
  BY <1>9 DEF NilContainer
<1> QED
  BY <1>2, <1>5, <1>8, <1>10 DEF T, was

\* What is concluded, and of what.
LEMMA ConcludeOrdinary ==
    ASSUME ReviewInv, OrdinaryVerdicts, NEW s \in Waiting, NEW allowed \in BOOLEAN, NEW visible, NEW changed,
           Conclude(s, allowed, visible, changed), UNCHANGED <<parts, content>>, spent' \/ allowed, spent => spent',
           diff' = None
    PROVE  OrdinaryVerdicts'
<1>1. s \in DOMAIN results /\ IsResult(results[s])
  BY WaitingIs DEF Reviewed
<1>2. /\ DOMAIN results' = DOMAIN results
      /\ \A t \in DOMAIN results : t # s => results'[t] = results[t]
      /\ results'[s] = [valid |-> results[s].valid, revision |-> results[s].revision,
                        whole |-> results[s].whole, judged |-> TRUE, allowed |-> allowed,
                        visible |-> visible, changed |-> changed]
  BY <1>1, ConcludeIs
<1>3. Now' = Now /\ documentSignatures' = documentSignatures /\ \A t : RangeEnd(t)' = RangeEnd(t)
  BY Unwritten DEF ReviewInv, documentSignatures, RangeEnd
<1>4. results # <<>>
  BY <1>1
<1>5. results'[s].valid = results[s].valid /\ results'[s].revision = results[s].revision /\ results'[s].allowed = allowed
  BY <1>2
<1>6. ASSUME NEW t \in DOMAIN results
      PROVE  /\ results'[t].valid /\ results'[t].revision = RangeEnd(t)
             /\ results'[t].judged /\ ~spent' => results'[t].allowed
  <2>1. CASE t = s
    BY <1>5, <2>1 DEF OrdinaryVerdicts
  <2>2. CASE t # s
    BY <1>2, <2>2 DEF OrdinaryVerdicts
  <2> QED
    BY <2>1, <2>2
<1> QED
  BY <1>2, <1>3, <1>4, <1>6 DEF OrdinaryVerdicts

\* The verdict on what covers the whole file.
LEMMA JudgeWholeOrdinary ==
    ASSUME ReviewInv, OrdinaryVerdicts, JudgeWhole
    PROVE  OrdinaryVerdicts'
<1> DEFINE yes == TRUE
           none == {}
<1>1. PICK s \in Waiting : Conclude(s, yes, none, None) /\ results[s].whole
  BY DEF JudgeWhole
<1>2. UNCHANGED <<parts, content, diff, spent>> /\ yes \in BOOLEAN /\ yes
  BY DEF JudgeWhole, written
<1> HIDE DEF yes, none
<1>3. diff = None
  <2>1. ASSUME diff # None
        PROVE  FALSE
    <3>1. IsNext(diff.of) /\ ~results[diff.of].whole
      BY <2>1 DEF OrdinaryVerdicts, ReviewInv
    <3> QED
      BY <1>1, <3>1 DEF IsNext, LatestFirst
  <2> QED
    BY <2>1
<1> QED
  BY <1>1, <1>2, <1>3, ConcludeOrdinary

\* The verdict when the budget is gone.
LEMMA GiveUpOrdinary ==
    ASSUME ReviewInv, OrdinaryVerdicts, GiveUp
    PROVE  OrdinaryVerdicts'
<1> DEFINE no == FALSE
           none == {}
<1>1. PICK s \in Waiting : Conclude(s, no, none, None)
  BY DEF GiveUp
<1>2. UNCHANGED <<parts, content, diff>> /\ diff = None /\ spent' /\ no \in BOOLEAN
  BY DEF GiveUp, written
<1> HIDE DEF no, none
<1> QED
  BY <1>1, <1>2, ConcludeOrdinary

\* A comparison that is made is made in full.
LEMMA CompareOrdinary ==
    ASSUME SeenInv, OrdinaryFile, OrdinaryVerdicts, Compare
    PROVE  OrdinaryVerdicts'
<1>1. PICK s \in {x \in Waiting : IsNext(x) /\ ~results[x].whole} :
        LET end      == results[s].revision
            secs     == SectionsBefore(parts, end)
            old      == MergeSections(parts, secs)
            new      == MergeSections(parts, Chain(parts))
            compared == Compared(old, new, end)
            was      == StateOf(parts, end, old)
            is       == StateOf(parts, Length(parts), new)
            nil      == \/ NilContainer(parts, end, old, compared)
                        \/ NilContainer(parts, Length(parts), new, asked \union compared)
            fails    == \/ \E o \in compared : Unreadable \in {Val(was, o), Val(is, o)}
                        \/ ~Closed(parts, secs, end)
        IN  /\ diff = None /\ ~spent
            /\ \/ /\ nil = TRUE
                  /\ stage' = "panicked" /\ results' = <<>>
                  /\ UNCHANGED diff
               \/ /\ fails = TRUE
                  /\ Conclude(s, FALSE, {}, None)
                  /\ UNCHANGED <<stage, diff>>
               \/ /\ fails = FALSE /\ nil = FALSE
                  /\ diff' = [of |-> s, was |-> was, is |-> is,
                              changes |-> {o \in compared : Val(was, o) # Val(is, o)}]
                  /\ UNCHANGED <<stage, results>>
            /\ asked' = asked \union compared
            /\ UNCHANGED <<written, spent>>
  BY DEF Compare
<1> DEFINE end      == results[s].revision
           secs     == SectionsBefore(parts, end)
           old      == MergeSections(parts, secs)
           new      == MergeSections(parts, Chain(parts))
           compared == Compared(old, new, end)
           was      == StateOf(parts, end, old)
           is       == StateOf(parts, Length(parts), new)
           nil      == \/ NilContainer(parts, end, old, compared)
                       \/ NilContainer(parts, Length(parts), new, asked \union compared)
           fails    == \/ \E o \in compared : Unreadable \in {Val(was, o), Val(is, o)}
                       \/ ~Closed(parts, secs, end)
           k == s[2]
           n == Len(parts)
<1>2. ReviewInv /\ FileInv /\ IsNext(s) /\ s \in Waiting
  BY <1>1 DEF SeenInv, ReviewInv
<1>3. /\ k \in 2..n /\ end = End(k) /\ EndsMarked(parts, k) /\ Then(s) = content[k]
  BY <1>2, OrdinaryWaiting
<1>4. n \in 1..n /\ IsGrown(parts) /\ Now = content[n] /\ k \in 1..n /\ Length(parts) = End(n)
  BY <1>2, <1>3, NowIs DEF FileInv, Length
<1>5. secs = UpTo(parts, k) /\ old = TableAt(parts, k)
  <2>1. SectionsBefore(parts, End(k)) = UpTo(parts, k)
    BY <1>3, <1>4, BeforeIs
  <2> QED
    BY <1>3, <2>1 DEF TableAt
<1>6. new = TableAt(parts, n)
  BY <1>4, ChainAll
<1>7. was = content[k] /\ (\A o : Val(was, o) # Unreadable) /\ \A some : ~NilContainer(parts, end, old, some)
  <2> HIDE DEF old, k, end
  <2> QED
    BY <1>2, <1>3, <1>4, <1>5, OrdinaryState
<1>8. /\ is = content[n] /\ \A o : Val(is, o) # Unreadable
      /\ \A some : ~NilContainer(parts, Length(parts), new, some)
  <2> HIDE DEF new, n, old, was, compared, end, secs, nil, fails, is
  <2>1. LET T == TableAt(parts, n)
        IN  /\ StateOf(parts, End(n), T) = content[n] /\ \A o : Val(StateOf(parts, End(n), T), o) # Unreadable
            /\ \A some : ~NilContainer(parts, End(n), T, some)
    BY <1>2, <1>4, OrdinaryState DEF n
  <2>2. is = StateOf(parts, End(n), new)
    BY <1>4 DEF is
  <2> QED
    BY <1>4, <1>6, <2>1, <2>2
<1>9. Closed(parts, secs, end)
  <2>1. <<k, 1>> \in UpTo(parts, k) /\ SectionEnd(parts, <<k, 1>>) = End(k)
    BY <1>3, <1>4, UpdateEnds
  <2> HIDE DEF secs, end
  <2> QED
    BY <1>3, <1>5, <2>1 DEF Closed
<1> HIDE DEF old, new, was, is, compared, end, secs
<1>10. ~nil /\ ~fails
  BY <1>7, <1>8, <1>9
<1> HIDE DEF nil, fails
<1>11. /\ \/ nil \/ fails
          \/ diff' = [of |-> s, was |-> was, is |-> is, changes |-> {o \in compared : Val(was, o) # Val(is, o)}]
             /\ UNCHANGED results
       /\ UNCHANGED <<parts, content, spent>>
  BY <1>1 DEF nil, fails, is, was, compared, old, new, secs, end, written
<1>12. /\ diff'.of = s /\ diff'.was = was /\ diff'.is = is
       /\ UNCHANGED <<parts, content, results, spent>>
  BY <1>10, <1>11
<1>13. Now' = Now /\ documentSignatures' = documentSignatures /\ \A t : RangeEnd(t)' = RangeEnd(t)
  BY <1>2, <1>12, Unwritten DEF documentSignatures, RangeEnd
<1>14. Then(diff.of)' = Then(s) /\ IsNext(diff.of)'
  <2>1. IsNext(diff.of)' <=> IsNext(s)
    BY <1>12 DEF IsNext, Waiting, LatestFirst
  <2>2. Then(diff.of)' = content[results[s].revision \div Span]
    BY <1>12 DEF Then
  <2> QED
    BY <1>2, <2>1, <2>2 DEF Then
<1> QED
  BY <1>3, <1>4, <1>7, <1>8, <1>12, <1>13, <1>14 DEF OrdinaryVerdicts

\* A signature judged is allowed all that came after it.
LEMMA JudgeOrdinary ==
    ASSUME SeenInv, OrdinaryFile, OrdinaryVerdicts, Judge
    PROVE  OrdinaryVerdicts'
<1> DEFINE s == diff.of
           allowed == /\ diff.changes \subseteq Explained(diff)
                      /\ ~Trailing
                      /\ \A o \in Consulted(diff.was) \union Consulted(diff.is) :
                            Unreadable \notin {Val(diff.was, o), Val(diff.is, o)}
           visible == Visible(diff)
           changed == diff.changes
           k == s[2]
           n == Len(parts)
<1>1. Conclude(s, allowed, visible, changed) /\ allowed \in BOOLEAN /\ diff # None /\ diff' = None
  BY DEF Judge
<1>2. UNCHANGED <<parts, content, spent>>
  BY DEF Judge, written
<1>3. /\ ReviewInv /\ FileInv /\ s \in Waiting /\ ~results[s].whole /\ IsNext(s)
      /\ diff.changes = Differ(Then(s), Now) /\ diff.was = Then(s) /\ diff.is = Now
  BY <1>1 DEF SeenInv, ReviewInv, Compares, OrdinaryVerdicts
<1>4. /\ s = <<"sig", k>> /\ k \in 2..n /\ results[s].revision = End(k) /\ DOMAIN results = documentSignatures
      /\ Then(s) = content[k] /\ Signed(content[k])
  BY <1>3, OrdinaryWaiting
<1>5. /\ n \in Nat /\ k \in Nat /\ k >= 1 /\ k \in 1..n /\ n \in 1..n /\ Now = content[n]
      /\ IsContent(content[k], k) /\ IsContent(Now, n)
  BY <1>3, <1>4, NowIs DEF FileInv
<1>6. Ordinary(content[k], k) /\ Ordinary(Now, n) /\ Later(content[k], Now, k)
  BY <1>4, <1>5 DEF OrdinaryFile
<1> HIDE DEF s, k, n
<1>7. ASSUME ~spent, NEW v \in DOMAIN Now \ DOMAIN content[k], v[1] = "sig"
      PROVE  Vouched(v)
  <2>1. Now[v].kind = "sig"
    BY <1>5, <1>7, NumberIs
  <2>2. v \in DOMAIN results /\ v \in documentSignatures
    BY <1>4, <1>7, <2>1 DEF documentSignatures
  <2>3. /\ v[2] \in 2..n /\ RangeEnd(v) = End(v[2])
    BY <1>3, <2>2, OrdinarySignature DEF n
  <2>4. v[2] > k
    BY <1>6, <1>7 DEF Later
  <2>5. results[v].revision = End(v[2]) /\ results[v].valid /\ (results[v].judged => results[v].allowed)
    BY <1>7, <2>2, <2>3 DEF OrdinaryVerdicts
  <2>6. ~(End(k) >= End(v[2]))
    BY <1>5, <2>3, <2>4 DEF End, Span
  <2>7. v # s
    BY <1>4, <2>4, <1>5
  <2>8. v \notin Waiting
    BY <1>3, <1>4, <2>5, <2>6, <2>7 DEF IsNext, LatestFirst
  <2> QED
    BY <2>2, <2>5, <2>8 DEF Vouched, Intact, Waiting
<1>8. ~spent => allowed
  <2>1. ASSUME ~spent
        PROVE  diff.changes \subseteq Explained(diff)
    <3>1. PICK c : c = content[k]
      OBVIOUS
    <3>2. PICK e : e = Now
      OBVIOUS
    <3>3. PICK d : d = diff
      OBVIOUS
    <3>4. Ordinarily(d, c, e, k, n)
      BY <1>3, <1>4, <1>5, <1>6, <1>7, <2>1, <3>1, <3>2, <3>3 DEF Ordinarily
    <3>5. d.changes \subseteq Explained(d)
      BY <3>4, OrdinaryExplained
    <3> QED
      BY <3>3, <3>5
  <2>2. ~Trailing
    BY <1>3, <1>4, OrdinaryEnds DEF n
  <2>3. \A o : Val(content[k], o) # Unreadable /\ Val(content[n], o) # Unreadable
    <3>1. ASSUME NEW m \in 1..n, NEW o
          PROVE  Val(content[m], o) # Unreadable
      <4>1. \A x : Val(StateOf(parts, End(m), TableAt(parts, m)), x) # Unreadable
        BY <1>3, OrdinaryState DEF n
      <4>2. StateOf(parts, End(m), TableAt(parts, m)) = content[m]
        BY <1>3, OrdinaryState DEF n
      <4> QED
        BY <4>1, <4>2
    <3> QED
      BY <1>5, <3>1
  <2>4. Unreadable # None
    BY ConstantsAssumption
  <2> QED
    BY <1>3, <1>4, <1>5, <2>1, <2>2, <2>3, <2>4
<1> HIDE DEF allowed, visible, changed
<1> QED
  BY <1>1, <1>2, <1>3, <1>8, ConcludeOrdinary

-----------------------------------------------------------------------------
(* No update this library makes costs a signature its verdict.              *)

OrdinaryInv ==
    /\ SeenInv
    /\ odd \in Nat
    /\ stage = "judged" => Waiting = {}
    /\ odd = 0 => OrdinaryFile /\ OrdinaryVerdicts

\* An update that is not ordinary is counted for good.
LEMMA OddCounts ==
    ASSUME odd \in Nat, Grow
    PROVE  odd' \in Nat /\ (odd' = 0 => odd = 0)
<1>1. \E ordinary \in BOOLEAN : Counted(ordinary)
  <2>1. ASSUME NEW look, NEW good \in BOOLEAN, NEW locks, NEW packed, NEW closed \in BOOLEAN,
               Sign(look, good, locks, packed, closed)
        PROVE  \E ordinary \in BOOLEAN : Counted(ordinary)
    BY <2>1 DEF Sign
  <2>2. ASSUME NEW mdp, Certify(mdp)
        PROVE  \E ordinary \in BOOLEAN : Counted(ordinary)
    BY <2>2 DEF Certify
  <2>3. ASSUME NEW good \in BOOLEAN, NEW stamp \in BOOLEAN, Fill(good, stamp)
        PROVE  \E ordinary \in BOOLEAN : Counted(ordinary)
    BY <2>3 DEF Fill
  <2>4. ASSUME NEW look, Archive(look)
        PROVE  \E ordinary \in BOOLEAN : Counted(ordinary)
    BY <2>4 DEF Archive
  <2>5. ASSUME AddStore \/ (\E closed : Alter(closed)) \/ Reorder \/ AddOther \/ Delete \/ TouchContainer
        PROVE  \E ordinary \in BOOLEAN : Counted(ordinary)
    BY <2>5 DEF AddStore, Alter, Reorder, AddOther, Delete, TouchContainer
  <2> QED
    BY <2>1, <2>2, <2>3, <2>4, <2>5 DEF Grow
<1> QED
  BY <1>1 DEF Counted

\* While the file is written.
LEMMA GrowKeepsOrdinary ==
    ASSUME OrdinaryInv, stage = "writing", Grow
    PROVE  OrdinaryInv'
<1>1. SeenInv' /\ FileInv /\ Grows
  BY GrowSeen, GrowGrows DEF OrdinaryInv, SeenInv, ReviewInv
<1>2. stage' = "writing" /\ results' = <<>> /\ diff' = None
  BY <1>1 DEF Grows, OrdinaryInv, SeenInv, ReviewInv, verdicts
<1>3. odd' \in Nat /\ (odd' = 0 => odd = 0)
  BY OddCounts DEF OrdinaryInv
<1>4. odd' = 0 => OrdinaryFile'
  BY <1>1, <1>3, GrowOrdinary DEF OrdinaryInv
<1>5. OrdinaryVerdicts'
  BY <1>2 DEF OrdinaryVerdicts
<1> QED
  BY <1>1, <1>2, <1>3, <1>4, <1>5 DEF OrdinaryInv

\* A file not written is as ordinary as before.
LEMMA StillOrdinary ==
    ASSUME OrdinaryFile, FileInv, UNCHANGED <<parts, content>>
    PROVE  OrdinaryFile'
<1>1. Now' = Now
  BY Unwritten
<1> QED
  BY <1>1 DEF OrdinaryFile, EndsMarked, WellRead

\* With nothing more concluded the verdicts stand.
LEMMA SameOrdinary ==
    ASSUME OrdinaryVerdicts, FileInv, UNCHANGED <<parts, content, results, diff, spent>>
    PROVE  OrdinaryVerdicts'
<1>1. Now' = Now /\ documentSignatures' = documentSignatures /\ \A t : RangeEnd(t)' = RangeEnd(t)
  BY Unwritten DEF documentSignatures, RangeEnd
<1>2. Waiting' = Waiting /\ (IsNext(diff.of)' <=> IsNext(diff.of)) /\ Then(diff.of)' = Then(diff.of)
  BY DEF Waiting, IsNext, LatestFirst, Then
<1> QED
  BY <1>1, <1>2 DEF OrdinaryVerdicts

\* Every step.
LEMMA StepKeepsOrdinary ==
    ASSUME OrdinaryInv, [ReviewNext]_reviewVars
    PROVE  OrdinaryInv'
<1>1. SeenInv /\ SeenInv' /\ ReviewInv /\ FileInv
  BY StepKeepsSeen DEF OrdinaryInv, SeenInv, ReviewInv
<1>2. CASE stage = "writing" /\ Grow
  BY <1>2, GrowKeepsOrdinary
<1>3. ASSUME UNCHANGED <<parts, content, odd>>, stage' = "judged" => Waiting' = {}, odd = 0 => OrdinaryVerdicts'
      PROVE  OrdinaryInv'
  BY <1>1, <1>3, StillOrdinary DEF OrdinaryInv
<1>4. CASE stage = "writing" /\ VerifyAll
  <2>1. UNCHANGED <<parts, content, odd>> /\ stage' = "judging"
    BY <1>4 DEF VerifyAll, written
  <2>2. odd = 0 => OrdinaryVerdicts'
    BY <1>1, <1>4, VerifyOrdinary DEF OrdinaryInv
  <2> QED
    BY <1>3, <2>1, <2>2
<1>5. CASE JudgeWhole
  <2>1. UNCHANGED <<parts, content, odd, stage>> /\ Waiting # {}
    BY <1>5 DEF JudgeWhole, written
  <2>2. odd = 0 => OrdinaryVerdicts'
    BY <1>1, <1>5, JudgeWholeOrdinary DEF OrdinaryInv
  <2> QED
    BY <1>3, <2>1, <2>2 DEF OrdinaryInv
<1>6. CASE Compare
  <2>1. UNCHANGED <<parts, content, odd>> /\ Waiting # {} /\ stage' \in {stage, "panicked"}
    BY <1>6 DEF Compare, written
  <2>2. odd = 0 => OrdinaryVerdicts'
    BY <1>1, <1>6, CompareOrdinary DEF OrdinaryInv
  <2> QED
    BY <1>3, <2>1, <2>2 DEF OrdinaryInv
<1>7. CASE Judge
  <2>1. UNCHANGED <<parts, content, odd, stage>> /\ Waiting # {}
    BY <1>1, <1>7 DEF Judge, written, ReviewInv
  <2>2. odd = 0 => OrdinaryVerdicts'
    BY <1>1, <1>7, JudgeOrdinary DEF OrdinaryInv
  <2> QED
    BY <1>3, <2>1, <2>2 DEF OrdinaryInv
<1>8. CASE GiveUp
  <2>1. UNCHANGED <<parts, content, odd, stage>> /\ Waiting # {}
    BY <1>8 DEF GiveUp, written
  <2>2. odd = 0 => OrdinaryVerdicts'
    BY <1>1, <1>8, GiveUpOrdinary DEF OrdinaryInv
  <2> QED
    BY <1>3, <2>1, <2>2 DEF OrdinaryInv
<1>9. CASE Done
  <2>1. UNCHANGED <<parts, content, odd, results, diff, spent>> /\ Waiting = {}
    BY <1>9 DEF Done, written, verdicts
  <2>2. Waiting' = {}
    BY <2>1 DEF Waiting
  <2>3. odd = 0 => OrdinaryVerdicts'
    BY <1>1, <2>1, SameOrdinary DEF OrdinaryInv
  <2> QED
    BY <1>3, <2>1, <2>2, <2>3
<1>10. CASE UNCHANGED reviewVars
  <2>1. UNCHANGED <<parts, content, odd, results, diff, spent, stage>>
    BY <1>10 DEF reviewVars, written, verdicts
  <2>2. Waiting' = Waiting
    BY <2>1 DEF Waiting
  <2>3. odd = 0 => OrdinaryVerdicts'
    BY <1>1, <2>1, SameOrdinary DEF OrdinaryInv
  <2> QED
    BY <1>3, <2>1, <2>2, <2>3 DEF OrdinaryInv
<1> QED
  BY <1>2, <1>4, <1>5, <1>6, <1>7, <1>8, <1>9, <1>10 DEF ReviewNext

\* And the start.
LEMMA InitOrdinary ==
    ASSUME ReviewInit
    PROVE  OrdinaryInv
<1>1. SeenInv
  BY InitSeen
<1>2. OrdinaryFile
  BY BaseOrdinary DEF ReviewInit
<1>3. results = <<>> /\ diff = None /\ odd = 0 /\ stage = "writing"
  BY DEF ReviewInit
<1> QED
  BY <1>1, <1>2, <1>3 DEF OrdinaryInv, OrdinaryVerdicts

\* However often a file is signed, certified, time-stamped, archived or given a
\* store, as far as its certification allows, and in whatever order, every
\* signature in it is intact when it is verified (VerifySignatures, of what
\* WriteSignedIncremental, WriteArchivalTimestamp and the signers wrote).
THEOREM OrdinaryIsIntact == ReviewSpec => []OrdinaryKeepsIntact
<1>1. ReviewInit => OrdinaryInv
  BY InitOrdinary
<1>2. OrdinaryInv /\ [ReviewNext]_reviewVars => OrdinaryInv'
  BY StepKeepsOrdinary
<1>3. OrdinaryInv => OrdinaryKeepsIntact
  BY DEF OrdinaryInv, OrdinaryVerdicts, OrdinaryKeepsIntact, Intact, Waiting
<1> QED
  BY <1>1, <1>2, <1>3, PTL DEF ReviewSpec
=============================================================================
