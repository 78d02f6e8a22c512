------------------------- MODULE CommandOutput_proofs -------------------------
(***************************************************************************)
(* For any names, links, commands and other programs, and however often any  *)
(* of them is cut short: what a command was told to read it leaves alone,    *)
(* what it decrypted is private, and its output is what was promised.        *)
(***************************************************************************)
EXTENDS CommandOutput, TLAPS

Places == {"ready", "read", "stat", "work", "emit", "resolve", "create", "write",
           "sync", "link", "look", "rename", "unlink", "tidy", "report", "over"}
Early == {"ready", "read", "stat", "work", "emit", "resolve", "create"}
Holding == {"write", "sync", "link", "look", "rename"}
FileRecords ==
    [doc : Documents \cup {None}, torn : BOOLEAN, synced : BOOLEAN, private : BOOLEAN]

\* A directory of files F, where what a command in P wrote may have a name.
DirOk(d, F, P) ==
    /\ d \in [DOMAIN d -> F \cup {Symlink}] /\ DOMAIN d \subseteq Names \cup Procs
    /\ \A n \in DOMAIN d : d[n] = Symlink => n \in DOMAIN Links
    /\ \A p \in Procs \cap DOMAIN d : d[p] = p
    /\ \A n \in Names \cap DOMAIN d : d[n] \in Procs => d[n] \in P

FilesOk(fs) == fs \in [DOMAIN fs -> FileRecords] /\ DOMAIN fs \subseteq Names \cup Procs \cup Others

TypeOK ==
    /\ linkable \in BOOLEAN
    /\ FilesOk(files)
    /\ DirOk(dir, DOMAIN files, placed) /\ DirOk(disk, DOMAIN files, placed)
    /\ asked \in [Procs -> CommandLines \cup {None}]
    /\ fds \in [Procs -> [stdin : DOMAIN files \cup {None}, stdout : DOMAIN files \cup {None}]]
    /\ pc \in [Procs -> Places]
    /\ got \in [Procs -> Seq(Documents \cup {None})]
    /\ ids \in [Procs -> Seq(DOMAIN files \cup {None})]
    /\ claimed \subseteq Procs /\ placed \subseteq Procs
    /\ result \in [Procs -> Documents \cup {None}]
    /\ target \in [Procs -> Names \cup {None}]
    /\ code \in [Procs -> 0..3 \cup {None, Killed}]

\* The inputs a command knows the identity of.
Known(p) == ToSet(ids[p]) \ {None}

Whole(f) == f \in DOMAIN files /\ files[f].synced /\ ~files[f].torn

\* What a command's place says of its output and of its exit code.
Progress(p) ==
    /\ pc[p] = "ready" <=> asked[p] = None
    /\ pc[p] = "over" => code[p] # None
    /\ pc[p] = "tidy" => code[p] \in {2, 3}
    /\ pc[p] \in Early => p \notin DOMAIN files
    /\ pc[p] \in Holding => p \in DOMAIN files
    /\ pc[p] = "sync" => ~files[p].torn
    /\ pc[p] \in {"link", "look", "rename"} => Whole(p)
    /\ p \in placed => pc[p] \in {"unlink", "report", "over"}
    /\ pc[p] \in {"unlink", "report"} => p \in placed
    /\ p \in placed \cap DOMAIN files => Whole(p)
    /\ pc[p] = "report" => p \notin DOMAIN dir

\* Where it is to go, and whether what is there may go.
Aimed(p) ==
    /\ pc[p] = "emit" => asked[p].out = Stdout
    /\ pc[p] = "resolve" => asked[p].out \in Names
    /\ pc[p] \in {"create"} \cup Holding =>
         /\ target[p] \in Names
         /\ \/ target[p] = asked[p].out
            \/ asked[p].out \in DOMAIN Links /\ target[p] = Links[asked[p].out]
    /\ pc[p] = "look" => ~linkable
    /\ pc[p] = "rename" => asked[p].force \/ ~linkable

\* Whether it is for its owner only.
Guarded(p) ==
    /\ pc[p] \in {"resolve", "create"} =>
         result[p] \in Documents /\ (result[p].clear => Private(p))
    /\ pc[p] \in {"write", "sync"} => result[p] \in Documents
    /\ p \in DOMAIN files => (result[p].clear => files[p].private)

\* Its inputs are not where it is to write.
Apart(p) ==
    /\ pc[p] = "ready" => ids[p] = <<>>
    /\ pc[p] = "stat" => Len(got[p]) \in DOMAIN asked[p].inputs /\ asked[p].inputs[Len(got[p])] \in Names
    /\ p \notin Known(p)
    /\ fds[p].stdin \in Procs => fds[p].stdin \in placed
    /\ Known(p) \cap Procs \subseteq placed
    /\ pc[p] \in {"work", "emit"} /\ asked[p].out = Stdout => fds[p].stdout \notin Known(p)
    /\ pc[p] \in {"work", "resolve"} /\ asked[p].out # Stdout => Leads(dir, asked[p].out) \notin Known(p)
    /\ pc[p] \in {"create"} \cup Holding /\ target[p] \in DOMAIN dir => dir[target[p]] \notin Known(p)

CommandInv(p) == Progress(p) /\ Aimed(p) /\ Guarded(p) /\ Apart(p)
Inv == TypeOK /\ \A p \in Procs : CommandInv(p)
-----------------------------------------------------------------------------
\* What is told apart.
LEMMA Distinct ==
    /\ \A p \in Procs : p \notin Names /\ p \notin Others /\ p # Symlink /\ p # None
    /\ \A n \in Names : n \notin Others /\ n # Symlink /\ n # None
    /\ \A f \in Others : f # Symlink /\ f # None
  BY NamesAssumption

\* More files, and more outputs that have a name, disturb no directory.
LEMMA DirGrows ==
    ASSUME NEW d, NEW F, NEW P, NEW F2, NEW P2, DirOk(d, F, P), F \subseteq F2, P \subseteq P2
    PROVE  DirOk(d, F2, P2)
  BY DEF DirOk

LEMMA PutOk ==
    ASSUME NEW d, NEW F, NEW P, NEW n \in Names, NEW v \in F, DirOk(d, F, P),
           v # Symlink, v \in Procs => v \in P
    PROVE  DirOk(Put(d, n, v), F, P)
  <1> DEFINE e == Put(d, n, v)
  <1>1. /\ DOMAIN e = DOMAIN d \cup {n} /\ e[n] = v
        /\ \A m \in DOMAIN d : m # n => e[m] = d[m]
        /\ e = [m \in DOMAIN e |-> e[m]]
    BY DEF Put
  <1> HIDE DEF e
  <1>2. \A m \in DOMAIN e : m = n \/ (m # n /\ m \in DOMAIN d /\ e[m] = d[m])
    BY <1>1
  <1>3. \A m \in DOMAIN e : e[m] \in F \cup {Symlink}
    BY <1>1, <1>2 DEF DirOk
  <1>4. e \in [DOMAIN e -> F \cup {Symlink}]
    BY <1>1, <1>3
  <1>5. DirOk(e, F, P)
    BY <1>1, <1>2, <1>4, NamesAssumption DEF DirOk
  <1> QED BY <1>5 DEF e

LEMMA PutTempOk ==
    ASSUME NEW d, NEW F, NEW P, NEW p \in Procs, p \in F, DirOk(d, F, P)
    PROVE  DirOk(Put(d, p, p), F, P)
  <1> DEFINE e == Put(d, p, p)
  <1>1. /\ DOMAIN e = DOMAIN d \cup {p} /\ e[p] = p
        /\ \A m \in DOMAIN d : m # p => e[m] = d[m]
        /\ e = [m \in DOMAIN e |-> e[m]]
    BY DEF Put
  <1> HIDE DEF e
  <1>2. \A m \in DOMAIN e : m = p \/ (m # p /\ m \in DOMAIN d /\ e[m] = d[m])
    BY <1>1
  <1>3. \A m \in DOMAIN e : e[m] \in F \cup {Symlink}
    BY <1>1, <1>2 DEF DirOk
  <1>4. e \in [DOMAIN e -> F \cup {Symlink}]
    BY <1>1, <1>3
  <1>5. DirOk(e, F, P)
    BY <1>1, <1>2, <1>4, NamesAssumption DEF DirOk
  <1> QED BY <1>5 DEF e

LEMMA WithoutOk ==
    ASSUME NEW d, NEW F, NEW P, NEW n, DirOk(d, F, P)
    PROVE  DirOk(Without(d, n), F, P)
  <1> DEFINE e == Without(d, n)
  <1>1. /\ DOMAIN e = DOMAIN d \ {n}
        /\ \A m \in DOMAIN d \ {n} : e[m] = d[m]
        /\ e = [m \in DOMAIN e |-> e[m]]
    BY DEF Without
  <1> HIDE DEF e
  <1>2. e \in [DOMAIN e -> F \cup {Symlink}]
    BY <1>1 DEF DirOk
  <1>3. DirOk(e, F, P)
    BY <1>1, <1>2 DEF DirOk
  <1> QED BY <1>3 DEF e

\* A name leads to a file, and to a command's only once it is where it belongs.
LEMMA LeadsOk ==
    ASSUME NEW d, NEW F, NEW P, NEW n \in Names, DirOk(d, F, P)
    PROVE  /\ Leads(d, n) \in F \cup {None}
           /\ Leads(d, n) \in Procs => Leads(d, n) \in P
  BY NamesAssumption, CommandsAssumption DEF DirOk, Leads

\* What may be at a name that was taken or free.
Adds(d, e, New) ==
    \A n \in DOMAIN e : (n \in DOMAIN d /\ e[n] = d[n]) \/ e[n] \in New

\* A name does not come to lead to a file that nothing was put at.
LEMMA LeadsStays ==
    ASSUME NEW d, NEW e, NEW F, NEW P, NEW G, NEW Q, NEW New, NEW I, NEW n \in Names,
           DirOk(d, F, P), DirOk(e, G, Q),
           Adds(d, e, New), New \cap (I \cup {Symlink}) = {}, None \notin I,
           Leads(d, n) \notin I
    PROVE  Leads(e, n) \notin I
  <1>1. CASE n \in DOMAIN e /\ e[n] # Symlink
    <2>1. CASE e[n] \in New
      BY <1>1, <2>1 DEF Leads
    <2>2. CASE n \in DOMAIN d /\ e[n] = d[n]
      BY <1>1, <2>2 DEF Leads
    <2> QED BY <1>1, <2>1, <2>2 DEF Adds
  <1>2. CASE n \in DOMAIN e /\ e[n] = Symlink
    <2> DEFINE m == Links[n]
    <2>1. n \in DOMAIN d /\ d[n] = Symlink
      BY <1>2 DEF Adds
    <2>2. CASE m \notin DOMAIN e
      BY <1>2, <2>2 DEF Leads
    <2>3. CASE m \in DOMAIN e /\ e[m] \in New
      BY <1>2, <2>3 DEF Leads
    <2>4. CASE m \in DOMAIN d /\ m \in DOMAIN e /\ e[m] = d[m]
      BY <1>2, <2>1, <2>4 DEF Leads
    <2> QED BY <2>2, <2>3, <2>4 DEF Adds
  <1>3. CASE n \notin DOMAIN e
    BY <1>3 DEF Leads
  <1> QED BY <1>1, <1>2, <1>3

LEMMA AppendSet ==
    ASSUME NEW S, NEW s \in Seq(S), NEW e
    PROVE  ToSet(Append(s, e)) = ToSet(s) \cup {e}
  <1>1. s \in Seq(S \cup {e})
    OBVIOUS
  <1>2. /\ DOMAIN s = 1..Len(s) /\ DOMAIN Append(s, e) = 1..(Len(s) + 1) /\ Len(s) \in Nat
        /\ \A i \in 1..Len(s) : Append(s, e)[i] = s[i]
        /\ Append(s, e)[Len(s) + 1] = e
    BY <1>1
  <1> QED BY <1>2 DEF ToSet

-----------------------------------------------------------------------------
\* Two files are as torn, as synced and as private.
SameMarks(r, s) == r.torn = s.torn /\ r.synced = s.synced /\ r.private = s.private

\* Another document in a file.
LEMMA DocChanged ==
    ASSUME NEW fs, NEW f \in DOMAIN fs, NEW v \in Documents \cup {None}, FilesOk(fs)
    PROVE  /\ FilesOk([fs EXCEPT ![f].doc = v])
           /\ DOMAIN [fs EXCEPT ![f].doc = v] = DOMAIN fs
           /\ \A g \in DOMAIN fs : SameMarks([fs EXCEPT ![f].doc = v][g], fs[g])
           /\ \A g \in DOMAIN fs : g # f => [fs EXCEPT ![f].doc = v][g] = fs[g]
  <1> DEFINE gs == [fs EXCEPT ![f].doc = v]
  <1>1. DOMAIN gs = DOMAIN fs /\ \A g \in DOMAIN fs : g # f => gs[g] = fs[g]
    OBVIOUS
  <1>2. gs[f] = [fs[f] EXCEPT !.doc = v] /\ fs[f] \in FileRecords
    BY DEF FilesOk
  <1>3. gs[f] \in FileRecords /\ SameMarks(gs[f], fs[f])
    BY <1>2 DEF FileRecords, SameMarks
  <1>4. gs = [g \in DOMAIN gs |-> gs[g]]
    BY DEF FilesOk
  <1> HIDE DEF gs
  <1>5. FilesOk(gs)
    BY <1>1, <1>3, <1>4 DEF FilesOk
  <1>6. \A g \in DOMAIN fs : SameMarks(gs[g], fs[g])
    BY <1>1, <1>3 DEF SameMarks
  <1> QED BY <1>1, <1>5, <1>6 DEF gs

\* A new file.
LEMMA FileAdded ==
    ASSUME NEW fs, NEW f \in Names \cup Procs \cup Others, NEW r \in FileRecords, FilesOk(fs)
    PROVE  /\ FilesOk(Put(fs, f, r))
           /\ DOMAIN Put(fs, f, r) = DOMAIN fs \cup {f}
           /\ Put(fs, f, r)[f] = r
           /\ \A g \in DOMAIN fs : g # f => Put(fs, f, r)[g] = fs[g]
  <1> DEFINE gs == Put(fs, f, r)
  <1>1. /\ DOMAIN gs = DOMAIN fs \cup {f} /\ gs[f] = r
        /\ \A g \in DOMAIN fs : g # f => gs[g] = fs[g]
        /\ gs = [g \in DOMAIN gs |-> gs[g]]
    BY DEF Put
  <1> HIDE DEF gs
  <1>2. \A g \in DOMAIN gs : gs[g] \in FileRecords
    BY <1>1 DEF FilesOk
  <1>3. FilesOk(gs)
    BY <1>1, <1>2 DEF FilesOk
  <1> QED BY <1>1, <1>3 DEF gs
-----------------------------------------------------------------------------
Same(q) ==
    /\ asked'[q] = asked[q] /\ fds'[q] = fds[q] /\ pc'[q] = pc[q] /\ got'[q] = got[q]
    /\ ids'[q] = ids[q] /\ result'[q] = result[q] /\ target'[q] = target[q]
    /\ code'[q] = code[q]

\* What a step of p does that the other commands may notice: it may make its own
\* file, put it where it belongs, and put others' files, all new, at names.
Gentle(p, New) ==
    /\ linkable' = linkable
    /\ DOMAIN files \subseteq DOMAIN files' /\ DOMAIN files' \cap Procs \subseteq DOMAIN files \cup {p}
    /\ \A q \in DOMAIN files \cap Procs : q # p => SameMarks(files'[q], files[q])
    /\ placed \subseteq placed' /\ placed' \subseteq placed \cup {p}
    /\ DOMAIN dir' \cap Procs \subseteq DOMAIN dir \cup {p}
    /\ Adds(dir, dir', New) /\ Symlink \notin New /\ New \cap DOMAIN files \subseteq Procs \ placed
    /\ \A q \in Procs \ {p} : Same(q)

\* A command another one's step leaves where it is keeps what holds of it.
LEMMA OthersKept ==
    ASSUME TypeOK, TypeOK', NEW p, NEW New, Gentle(p, New),
           NEW q \in Procs, q # p, CommandInv(q)
    PROVE  CommandInv(q)'
  <1>0. Same(q)
    BY DEF Gentle
  <1>1. (Whole(q) => Whole(q)') /\ (q \in DOMAIN files => files'[q].torn = files[q].torn)
    BY DEF Gentle, Whole, SameMarks
  <1>2. Progress(q)'
    BY <1>0, <1>1 DEF CommandInv, Progress, Holding, Same, Gentle
  <1>3. Aimed(q)'
    BY <1>0 DEF CommandInv, Aimed, Same, Gentle
  <1>4. Private(q)' = Private(q)
    BY <1>0 DEF Private, Some, Same
  <1>5. Guarded(q)'
    <2>1. q \in DOMAIN files' => q \in DOMAIN files /\ files'[q].private = files[q].private
      BY DEF Gentle, SameMarks
    <2> QED BY <1>0, <1>4, <2>1 DEF CommandInv, Guarded, Same
  <1>6. Apart(q)'
    <2>1. Known(q)' = Known(q) /\ None \notin Known(q)
      BY <1>0 DEF Known, Same
    <2>2. Known(q) \subseteq DOMAIN files
      BY DEF TypeOK, Known, ToSet
    <2>3. New \cap (Known(q) \cup {Symlink}) = {}
      BY <2>2 DEF Gentle, CommandInv, Apart
    <2>4. ASSUME asked[q].out \in Names, Leads(dir, asked[q].out) \notin Known(q)
          PROVE  Leads(dir', asked[q].out) \notin Known(q)
      BY <2>1, <2>3, <2>4, LeadsStays DEF Gentle, TypeOK
    <2>5. ASSUME target[q] \in DOMAIN dir', target[q] \in DOMAIN dir => dir[target[q]] \notin Known(q)
          PROVE  dir'[target[q]] \notin Known(q)
      BY <2>3, <2>5 DEF Gentle, Adds
    <2>6. pc[q] \in {"work", "resolve"} /\ asked[q].out # Stdout => asked[q].out \in Names
      <3> SUFFICES ASSUME pc[q] \in {"work", "resolve"}, asked[q].out # Stdout
                   PROVE  asked[q].out \in Names
        OBVIOUS
      <3>1. asked[q] \in CommandLines
        BY DEF TypeOK, CommandInv, Progress
      <3> QED BY <3>1, CommandsAssumption DEF IsCommand
    <2> HIDE DEF Known
    <2>7. pc[q] \in {"work", "resolve"} /\ asked[q].out # Stdout
              => Leads(dir', asked[q].out) \notin Known(q)
      BY <2>4, <2>6 DEF CommandInv, Apart
    <2>8. pc[q] \in {"create"} \cup Holding /\ target[q] \in DOMAIN dir'
              => dir'[target[q]] \notin Known(q)
      BY <2>5 DEF CommandInv, Apart
    <2> QED BY <1>0, <2>1, <2>7, <2>8 DEF CommandInv, Apart, Same, Gentle
  <1> QED BY <1>2, <1>3, <1>5, <1>6 DEF CommandInv

\* So it is enough to look at the command that takes the step.
LEMMA StepKeeps ==
    ASSUME Inv, TypeOK', NEW p, NEW New, Gentle(p, New), p \in Procs => CommandInv(p)'
    PROVE  Inv'
  BY OthersKept DEF Inv

\* Nothing has been run.
LEMMA Starts == Init => Inv
  <1> SUFFICES ASSUME Init PROVE Inv
    OBVIOUS
  <1>1. FilesOk(files)
    BY DirectoriesAssumption DEF Init, FilesOk, FileRecords
  <1>2. DOMAIN files = DOMAIN Contents /\ DOMAIN Contents \subseteq Names /\ placed = {}
    BY DirectoriesAssumption DEF Init
  <1>3. DirOk(dir, DOMAIN files, placed)
    <2>1. DirOk(dir, DOMAIN Contents, {})
      <3>1. /\ DOMAIN dir \subseteq Names /\ dir \in [DOMAIN dir -> DOMAIN Contents \cup {Symlink}]
            /\ \A n \in DOMAIN dir : dir[n] = Symlink => n \in DOMAIN Links
        BY DirectoriesAssumption DEF Init
      <3>2. \A n \in DOMAIN dir : dir[n] \notin Procs
        BY <1>2, <3>1, Distinct
      <3> QED BY <3>1, <3>2, Distinct DEF DirOk
    <2> QED BY <1>2, <2>1
  <1>4. TypeOK
    BY <1>1, <1>3 DEF Init, TypeOK, Places
  <1>5. ASSUME NEW p \in Procs PROVE CommandInv(p)
    <2>1. p \notin DOMAIN files /\ ids[p] = <<>> /\ pc[p] = "ready" /\ asked[p] = None /\ fds[p].stdin = None /\ placed = {}
      BY DirectoriesAssumption, NamesAssumption DEF Init
    <2>2. Known(p) = {}
      BY <2>1 DEF Known, ToSet
    <2> QED BY <2>1, <2>2, NamesAssumption DEF CommandInv, Progress, Aimed, Guarded, Apart, Early, Holding
  <1> QED BY <1>4, <1>5 DEF Inv
-----------------------------------------------------------------------------
\* A command that runs was asked for something.
LEMMA AskedOk ==
    ASSUME Inv, NEW p \in Procs, pc[p] # "ready"
    PROVE  asked[p] \in CommandLines /\ IsCommand(asked[p])
  BY CommandsAssumption DEF Inv, TypeOK, CommandInv, Progress

\* A step that leaves the files and the directory alone disturbs no one.
LEMMA Quiet ==
    ASSUME NEW p, UNCHANGED <<linkable, dir, files, placed>>, \A q \in Procs \ {p} : Same(q)
    PROVE  Gentle(p, {})
  BY DEF Gentle, Adds, SameMarks

\* So a command may end, or be killed, anywhere.
LEMMA EndKeeps ==
    ASSUME Inv, NEW p \in Procs, NEW c \in 0..3 \cup {Killed}, pc[p] # "ready",
           pc' = [pc EXCEPT ![p] = "over"], code' = [code EXCEPT ![p] = c],
           claimed' \subseteq Procs,
           UNCHANGED <<linkable, dir, disk, files, asked, fds, got, ids, result, target, placed>>
    PROVE  Inv'
  <1>1. TypeOK'
    BY DEF Inv, TypeOK, Places
  <1>2. CommandInv(p)'
    <2>1. pc'[p] = "over" /\ code'[p] # None /\ Known(p)' = Known(p) /\ (Whole(p) => Whole(p)')
      BY NamesAssumption DEF Inv, TypeOK, Known, Whole
    <2> QED BY <2>1 DEF Inv, CommandInv, Progress, Aimed, Guarded, Apart, Early, Holding
  <1>3. Gentle(p, {})
    BY Quiet DEF Same, Inv, TypeOK
  <1> QED BY <1>1, <1>2, <1>3, StepKeeps

LEMMA FailKeeps ==
    ASSUME Inv, NEW p \in Procs, NEW c \in 0..3, pc[p] # "ready", Fails(p, c),
           claimed' \subseteq Procs,
           UNCHANGED <<linkable, dir, disk, files, asked, fds, got, ids, result, target, placed>>
    PROVE  Inv'
  BY EndKeeps DEF Fails

\* What it knows of one more input.
LEMMA KnowsMore ==
    ASSUME Inv, NEW p \in Procs, NEW f, Knows(p, f)
    PROVE  Known(p)' = (Known(p) \cup {f}) \ {None}
  <1>1. ids[p] \in Seq(DOMAIN files \cup {None}) /\ ids'[p] = Append(ids[p], f)
    BY DEF Inv, TypeOK, Knows
  <1> QED BY <1>1, AppendSet DEF Known

\* One lemma for each system call: it keeps Inv.
LEMMA ReadStdinKeeps ==
    ASSUME Inv, NEW p \in Procs, ReadStdin(p) PROVE Inv'
  <1>0. pc[p] = "read" /\ claimed \subseteq Procs
    BY DEF ReadStdin, Reading, Inv, TypeOK
  <1>1. CASE p \in claimed /\ Fails(p, 2) /\ UNCHANGED <<got, ids, claimed>>
    BY <1>0, <1>1, FailKeeps DEF ReadStdin
  <1>2. CASE claimed' = claimed \cup {p} /\ Fails(p, 3) /\ UNCHANGED <<got, ids>>
    BY <1>0, <1>2, FailKeeps DEF ReadStdin
  <1>3. CASE /\ claimed' = claimed \cup {p} /\ Knows(p, fds[p].stdin) /\ UNCHANGED <<pc, code>>
             /\ \E d \in Documents \cup {None} : Takes(p, d)
    <2> DEFINE f == fds[p].stdin
    <2>1. f \in DOMAIN files \cup {None}
      BY DEF Inv, TypeOK
    <2>2. UNCHANGED <<linkable, dir, disk, files, asked, fds, result, target, placed>>
      BY DEF ReadStdin
    <2>3. TypeOK'
      <3>1. got' \in [Procs -> Seq(Documents \cup {None})]
        BY <1>3 DEF Inv, TypeOK, Takes
      <3>2. ids' \in [Procs -> Seq(DOMAIN files \cup {None})]
        BY <1>3, <2>1 DEF Inv, TypeOK, Knows
      <3> QED BY <1>3, <2>2, <3>1, <3>2 DEF Inv, TypeOK
    <2>4. Known(p)' = (Known(p) \cup {f}) \ {None}
      BY <1>3, KnowsMore
    <2>5. f # p /\ (f \in Procs => f \in placed)
      BY <1>0, <2>1, Distinct DEF Inv, CommandInv, Progress, Apart, Early
    <2>6. pc'[p] = "read" /\ (Whole(p) => Whole(p)')
      BY <1>0, <1>3, <2>2 DEF Whole
    <2>7. Progress(p)' /\ Aimed(p)' /\ Guarded(p)'
      BY <1>0, <1>3, <2>2, <2>6 DEF Inv, CommandInv, Progress, Aimed, Guarded, Early, Holding
    <2>8. Apart(p)'
      BY <1>0, <2>2, <2>4, <2>5, <2>6 DEF Inv, CommandInv, Apart, Holding
    <2>9. Gentle(p, {})
      BY <1>3, <2>2, Quiet DEF Same, Knows, Takes, Inv, TypeOK
    <2> QED BY <2>3, <2>7, <2>8, <2>9, StepKeeps DEF CommandInv
  <1>4. ASSUME Takes(p, files[fds[p].stdin].doc), fds[p].stdin # None
        PROVE  \E d \in Documents \cup {None} : Takes(p, d)
    <2>1. fds[p].stdin \in DOMAIN files
      BY <1>4 DEF Inv, TypeOK
    <2>2. files[fds[p].stdin] \in FileRecords
      BY <2>1 DEF Inv, TypeOK, FilesOk
    <2> QED BY <1>4, <2>2 DEF FileRecords
  <1>5. ASSUME NEW f \in DOMAIN Contents, Takes(p, Contents[f])
        PROVE  \E d \in Documents \cup {None} : Takes(p, d)
    BY <1>5, DirectoriesAssumption
  <1> QED BY <1>1, <1>2, <1>3, <1>4, <1>5 DEF ReadStdin

LEMMA ReadFileKeeps ==
    ASSUME Inv, NEW p \in Procs, ReadFile(p) PROVE Inv'
  <1> DEFINE n == NextInput(p)  f == Leads(dir, n)
  <1>0. pc[p] = "read" /\ n # Stdin /\ Len(got[p]) < Len(asked[p].inputs)
    BY DEF ReadFile, Reading
  <1>1. CASE Fails(p, 3) /\ UNCHANGED got
    <2>1. claimed' \subseteq Procs
      BY DEF ReadFile, Inv, TypeOK
    <2> QED BY <1>0, <1>1, <2>1, FailKeeps DEF ReadFile
  <1>2. CASE /\ f # None /\ Takes(p, files[f].doc)
             /\ pc' = [pc EXCEPT ![p] = "stat"] /\ UNCHANGED code
    <2>1. UNCHANGED <<linkable, dir, disk, files, asked, fds, ids, claimed, result, target, placed, code>>
      BY <1>2 DEF ReadFile
    <2>2. /\ asked[p].inputs \in Seq(Names \cup {Stdin}) /\ got[p] \in Seq(Documents \cup {None})
      BY <1>0, AskedOk DEF IsCommand, Inv, TypeOK
    <2>3. Len(got[p]) + 1 \in DOMAIN asked[p].inputs /\ n \in Names
      BY <1>0, <2>2 DEF NextInput
    <2>4. files[f].doc \in Documents \cup {None}
      <3>1. f \in DOMAIN files
        BY <1>2, <2>3, LeadsOk DEF Inv, TypeOK
      <3>2. files[f] \in FileRecords
        BY <3>1 DEF Inv, TypeOK, FilesOk
      <3> QED BY <3>2 DEF FileRecords
    <2>5. got' = [got EXCEPT ![p] = Append(@, files[f].doc)] /\ Len(got'[p]) = Len(got[p]) + 1
      BY <1>2, <2>2, <2>4 DEF Takes, Inv, TypeOK
    <2>6. TypeOK'
      <3>1. got' \in [Procs -> Seq(Documents \cup {None})]
        BY <2>4, <2>5 DEF Inv, TypeOK
      <3>2. pc' \in [Procs -> Places]
        BY <1>2 DEF Inv, TypeOK, Places
      <3> QED BY <2>1, <3>1, <3>2 DEF Inv, TypeOK
    <2>7. pc'[p] = "stat" /\ Known(p)' = Known(p) /\ (Whole(p) => Whole(p)')
      BY <1>2, <2>1 DEF Whole, Known, Inv, TypeOK
    <2>8. Progress(p)' /\ Aimed(p)' /\ Guarded(p)'
      BY <1>0, <2>1, <2>7 DEF Inv, CommandInv, Progress, Aimed, Guarded, Early, Holding
    <2>9. Len(got'[p]) \in DOMAIN asked'[p].inputs /\ asked'[p].inputs[Len(got'[p])] \in Names
      BY <2>1, <2>3, <2>5 DEF NextInput
    <2>10. Apart(p)'
      BY <1>0, <2>1, <2>7, <2>9 DEF Inv, CommandInv, Apart, Holding
    <2>11. Gentle(p, {})
      BY <1>2, <2>1, <2>5, Quiet DEF Same, Inv, TypeOK
    <2> QED BY <2>6, <2>8, <2>10, <2>11, StepKeeps DEF CommandInv
  <1> QED BY <1>1, <1>2 DEF ReadFile

LEMMA StatKeeps ==
    ASSUME Inv, NEW p \in Procs, Stat(p) PROVE Inv'
  <1> DEFINE n == asked[p].inputs[Len(got[p])]  f == Leads(dir, n)
  <1>0. pc[p] = "stat" /\ n \in Names
    BY DEF Stat, Inv, CommandInv, Apart
  <1>1. CASE Fails(p, 3) /\ UNCHANGED ids
    <2>1. claimed' \subseteq Procs
      BY DEF Stat, Inv, TypeOK
    <2> QED BY <1>0, <1>1, <2>1, FailKeeps DEF Stat
  <1>2. CASE f # None /\ Knows(p, f) /\ pc' = [pc EXCEPT ![p] = "read"] /\ UNCHANGED code
    <2>1. UNCHANGED <<linkable, dir, disk, files, asked, fds, got, claimed, result, target, placed, code>>
      BY <1>2 DEF Stat
    <2>2. f \in DOMAIN files /\ (f \in Procs => f \in placed)
      BY <1>0, <1>2, LeadsOk DEF Inv, TypeOK
    <2>3. TypeOK'
      <3>1. ids' \in [Procs -> Seq(DOMAIN files \cup {None})]
        BY <1>2, <2>2 DEF Inv, TypeOK, Knows
      <3>2. pc' \in [Procs -> Places]
        BY <1>2 DEF Inv, TypeOK, Places
      <3> QED BY <2>1, <3>1, <3>2 DEF Inv, TypeOK
    <2>4. Known(p)' = (Known(p) \cup {f}) \ {None}
      BY <1>2, KnowsMore
    <2>5. f # p
      BY <1>0, <2>2 DEF Inv, CommandInv, Progress, Early
    <2>6. pc'[p] = "read" /\ (Whole(p) => Whole(p)')
      BY <1>2, <2>1 DEF Whole, Inv, TypeOK
    <2>7. Progress(p)' /\ Aimed(p)' /\ Guarded(p)'
      BY <1>0, <2>1, <2>6 DEF Inv, CommandInv, Progress, Aimed, Guarded, Early, Holding
    <2>8. Apart(p)'
      BY <1>0, <2>1, <2>2, <2>4, <2>5, <2>6 DEF Inv, CommandInv, Apart, Holding
    <2>9. Gentle(p, {})
      BY <1>2, <2>1, Quiet DEF Same, Knows, Inv, TypeOK
    <2> QED BY <2>3, <2>7, <2>8, <2>9, StepKeeps DEF CommandInv
  <1> QED BY <1>1, <1>2 DEF Stat

LEMMA CheckOutputKeeps ==
    ASSUME Inv, NEW p \in Procs, CheckOutput(p) PROVE Inv'
  <1>0. pc[p] = "read" /\ claimed \subseteq Procs
    BY DEF CheckOutput, Inv, TypeOK
  <1>1. CASE Fails(p, 2)
    BY <1>0, <1>1, FailKeeps DEF CheckOutput, commandVars
  <1>2. CASE ~Destructive(p) /\ pc' = [pc EXCEPT ![p] = "work"] /\ UNCHANGED code
    <2>1. UNCHANGED <<linkable, dir, disk, files, asked, fds, got, ids, claimed, result, target, placed, code>>
      BY <1>2 DEF CheckOutput, commandVars
    <2>2. TypeOK'
      BY <1>2, <2>1 DEF Inv, TypeOK, Places
    <2>3. pc'[p] = "work" /\ Known(p)' = Known(p) /\ (Whole(p) => Whole(p)')
      BY <1>2, <2>1 DEF Whole, Known, Inv, TypeOK
    <2>4. Progress(p)' /\ Aimed(p)' /\ Guarded(p)'
      BY <1>0, <2>1, <2>3 DEF Inv, CommandInv, Progress, Aimed, Guarded, Early, Holding
    <2>5. asked[p].out = Stdout => fds[p].stdout \notin Known(p)
      BY <1>2 DEF Destructive, SameAsInput, Known
    <2>6. asked[p].out # Stdout => Leads(dir, asked[p].out) \notin Known(p)
      BY <1>2 DEF Destructive, SameAsInput, Known, Leads
    <2>7. Apart(p)'
      BY <1>0, <2>1, <2>3, <2>5, <2>6 DEF Inv, CommandInv, Apart, Holding
    <2>8. Gentle(p, {})
      BY <1>2, <2>1, Quiet DEF Same, Inv, TypeOK
    <2> QED BY <2>2, <2>4, <2>7, <2>8, StepKeeps DEF CommandInv
  <1> QED BY <1>1, <1>2 DEF CheckOutput

\* What a command makes is a document, and private if it was decrypted.
LEMMA MadePrivate ==
    ASSUME NEW p, Accepts(p), asked[p].op \in {"decrypt", "encrypt", "repair", "merge"}
    PROVE  Made(p) \in Documents /\ (Made(p).clear => Private(p))
  <1>1. Made(p) \in Documents
    BY DEF Made, Documents, Some
  <1>2. Made(p).clear => asked[p].op # "encrypt" /\ Some(p, "encrypted")
    BY DEF Made
  <1>3. Made(p).clear => Private(p)
    BY <1>2 DEF Accepts, Private
  <1> QED BY <1>1, <1>3

LEMMA WorkKeeps ==
    ASSUME Inv, NEW p \in Procs, Work(p) PROVE Inv'
  <1>0. pc[p] = "work" /\ claimed \subseteq Procs
    BY DEF Work, Inv, TypeOK
  <1>1. CASE UNCHANGED result /\ \E c \in {2, 3} : Ends(p, "work", c)
    <2>1. PICK c \in {2, 3} : Ends(p, "work", c)
      BY <1>1
    <2>2. UNCHANGED <<linkable, dir, disk, files, asked, fds, got, ids, claimed, result, target, placed>>
      BY <1>1 DEF Work
    <2>3. /\ c \in 0..3 \cup {Killed} /\ claimed' \subseteq Procs /\ pc[p] # "ready"
          /\ pc' = [pc EXCEPT ![p] = "over"] /\ code' = [code EXCEPT ![p] = c]
      BY <1>0, <2>1, <2>2 DEF Ends, Goes
    <2> QED BY <2>2, <2>3, EndKeeps
  <1>2. CASE /\ Accepts(p)
             /\ result' = [result EXCEPT ![p] = Made(p)]
             /\ Goes(p, "work", IF asked[p].out = Stdout THEN "emit" ELSE "resolve")
             /\ UNCHANGED code
    <2>1. UNCHANGED <<linkable, dir, disk, files, asked, fds, got, ids, claimed, target, placed, code>>
      BY <1>2 DEF Work
    <2>2. Made(p) \in Documents /\ (Made(p).clear => Private(p))
      <3>1. asked[p].op \in {"decrypt", "encrypt", "repair", "merge"}
        BY <1>0, AskedOk DEF IsCommand
      <3> QED BY <1>2, <3>1, MadePrivate
    <2>3. TypeOK'
      BY <1>2, <2>1, <2>2 DEF Inv, TypeOK, Places, Goes
    <2>4. /\ pc'[p] = IF asked[p].out = Stdout THEN "emit" ELSE "resolve"
          /\ result'[p] = Made(p) /\ Known(p)' = Known(p) /\ (Whole(p) => Whole(p)')
          /\ Private(p)' = Private(p)
      BY <1>2, <2>1 DEF Whole, Known, Inv, TypeOK, Goes, Private, Some
    <2>5. asked[p].out \in Names \cup {Stdout}
      BY <1>0, AskedOk DEF IsCommand
    <2>6. p \notin DOMAIN files
      BY <1>0 DEF Inv, CommandInv, Progress, Early
    <2>7. Progress(p)' /\ Aimed(p)' /\ Guarded(p)'
      BY <1>0, <2>1, <2>2, <2>4, <2>5, <2>6 DEF Inv, CommandInv, Progress, Aimed, Guarded, Early, Holding
    <2>8. Apart(p)'
      BY <1>0, <2>1, <2>4 DEF Inv, CommandInv, Apart, Holding
    <2>9. Gentle(p, {})
      BY <1>2, <2>1, Quiet DEF Same, Goes, Inv, TypeOK
    <2> QED BY <2>3, <2>7, <2>8, <2>9, StepKeeps DEF CommandInv
  <1> QED BY <1>1, <1>2 DEF Work

LEMMA EvalSymlinksKeeps ==
    ASSUME Inv, NEW p \in Procs, EvalSymlinks(p) PROVE Inv'
  <1> DEFINE out == asked[p].out
             t == IF out \in DOMAIN dir /\ dir[out] = Symlink /\ Links[out] \in DOMAIN dir
                  THEN Links[out] ELSE out
  <1>0. pc[p] = "resolve" /\ out \in Names /\ out # Stdout
    BY NamesAssumption DEF EvalSymlinks, Goes, Inv, CommandInv, Aimed
  <1>1. UNCHANGED <<linkable, dir, disk, files, asked, fds, got, ids, claimed, result, placed, code>>
    BY DEF EvalSymlinks
  <1>2. /\ t \in Names /\ (t = out \/ (out \in DOMAIN Links /\ t = Links[out]))
        /\ t \in DOMAIN dir => dir[t] \notin Known(p)
    <2>1. Leads(dir, out) \notin Known(p) /\ Known(p) \subseteq DOMAIN files
      BY <1>0 DEF Inv, TypeOK, CommandInv, Apart, Known, ToSet
    <2>2. Symlink \notin Known(p)
      BY <2>1, Distinct DEF Inv, TypeOK, FilesOk
    <2>3. \A n \in DOMAIN dir : dir[n] = Symlink => n \in DOMAIN Links
      BY DEF Inv, TypeOK, DirOk
    <2> HIDE DEF Known
    <2>4. CASE out \in DOMAIN dir /\ dir[out] = Symlink /\ Links[out] \in DOMAIN dir
      BY <2>1, <2>3, <2>4, CommandsAssumption DEF Leads
    <2>5. CASE ~(out \in DOMAIN dir /\ dir[out] = Symlink /\ Links[out] \in DOMAIN dir)
      BY <1>0, <2>1, <2>2, <2>5 DEF Leads
    <2> QED BY <2>4, <2>5
  <1>3. target' = [target EXCEPT ![p] = t] /\ pc' = [pc EXCEPT ![p] = "create"]
    BY DEF EvalSymlinks, Goes
  <1> HIDE DEF t
  <1>4. TypeOK'
    BY <1>1, <1>2, <1>3 DEF Inv, TypeOK, Places
  <1>5. /\ pc'[p] = "create" /\ target'[p] = t /\ Known(p)' = Known(p)
        /\ (Whole(p) => Whole(p)') /\ Private(p)' = Private(p)
    BY <1>1, <1>3 DEF Inv, TypeOK, Known, Whole, Private, Some
  <1>6. Progress(p)' /\ Aimed(p)' /\ Guarded(p)'
    BY <1>0, <1>1, <1>2, <1>5 DEF Inv, CommandInv, Progress, Aimed, Guarded, Early, Holding
  <1>7. Apart(p)'
    BY <1>0, <1>1, <1>2, <1>5 DEF Inv, CommandInv, Apart, Holding
  <1>8. Gentle(p, {})
    BY <1>1, <1>3, Quiet DEF Same, Inv, TypeOK
  <1> QED BY <1>4, <1>6, <1>7, <1>8, StepKeeps DEF CommandInv

\* A command that put nothing where it belongs may give up what it was writing.
LEMMA GiveUpKeeps ==
    ASSUME Inv, NEW p \in Procs, NEW from \in Holding, NEW c \in {2, 3}, GivesUp(p, from, c),
           FilesOk(files'), DOMAIN files' = DOMAIN files,
           \A q \in DOMAIN files : q # p => files'[q] = files[q],
           files'[p].private = files[p].private,
           UNCHANGED <<linkable, dir, disk, placed, commandVars>>
    PROVE  Inv'
  <1>0. pc[p] = from /\ pc' = [pc EXCEPT ![p] = "tidy"] /\ code' = [code EXCEPT ![p] = c]
    BY DEF GivesUp, Goes
  <1>1. TypeOK'
    BY <1>0 DEF Inv, TypeOK, Places, commandVars
  <1>2. pc'[p] = "tidy" /\ code'[p] = c /\ Known(p)' = Known(p)
    BY <1>0 DEF Inv, TypeOK, Known, commandVars
  <1>3. Progress(p)' /\ Aimed(p)' /\ Guarded(p)' /\ Apart(p)'
    BY <1>0, <1>2, NamesAssumption
    DEF Inv, CommandInv, Progress, Aimed, Guarded, Apart, Early, Holding, commandVars
  <1>4. Gentle(p, {})
    <2>1. \A q \in Procs \ {p} : Same(q)
      BY <1>0 DEF Same, Inv, TypeOK, commandVars
    <2> QED BY <2>1 DEF Gentle, Adds, SameMarks
  <1> QED BY <1>1, <1>3, <1>4, StepKeeps DEF CommandInv

\* Or go on to where the next step is taken with its file whole.
LEMMA LstatKeeps ==
    ASSUME Inv, NEW p \in Procs, Lstat(p) PROVE Inv'
  <1>0. FilesOk(files) /\ UNCHANGED <<linkable, dir, disk, files, placed, commandVars>>
    BY DEF Lstat, Inv, TypeOK
  <1>1. CASE GivesUp(p, "look", 2)
    BY <1>0, <1>1, GiveUpKeeps DEF Holding
  <1>2. CASE Goes(p, "look", "rename") /\ UNCHANGED code
    <2>0. pc[p] = "look" /\ pc' = [pc EXCEPT ![p] = "rename"]
      BY <1>2 DEF Goes
    <2>1. TypeOK'
      BY <1>0, <1>2, <2>0 DEF Inv, TypeOK, Places, commandVars
    <2>2. pc'[p] = "rename" /\ Known(p)' = Known(p) /\ (Whole(p) => Whole(p)')
      BY <1>0, <2>0 DEF Inv, TypeOK, Known, Whole, commandVars
    <2>3. Progress(p)' /\ Aimed(p)' /\ Guarded(p)' /\ Apart(p)'
      BY <1>0, <1>2, <2>0, <2>2
      DEF Inv, CommandInv, Progress, Aimed, Guarded, Apart, Early, Holding, commandVars
    <2>4. Gentle(p, {})
      BY <1>0, <1>2, <2>0, Quiet DEF Same, Inv, TypeOK, commandVars
    <2> QED BY <2>1, <2>3, <2>4, StepKeeps DEF CommandInv
  <1> QED BY <1>1, <1>2 DEF Lstat

LEMMA ReportKeeps ==
    ASSUME Inv, NEW p \in Procs, Report(p) PROVE Inv'
  <1>1. PICK c \in 0..3 : Ends(p, "report", c)
    BY DEF Report
  <1>2. UNCHANGED <<linkable, dir, disk, files, placed, commandVars>> /\ claimed \subseteq Procs
    BY DEF Report, Inv, TypeOK
  <1> QED BY <1>1, <1>2, EndKeeps DEF Ends, Goes, commandVars

LEMMA KillKeeps ==
    ASSUME Inv, NEW p \in Procs, Kill(p) PROVE Inv'
  <1>1. UNCHANGED <<linkable, dir, disk, files, placed, commandVars>> /\ claimed \subseteq Procs
    BY DEF Kill, Inv, TypeOK
  <1> QED BY <1>1, EndKeeps DEF Kill, Busy, commandVars

LEMMA EmitKeeps ==
    ASSUME Inv, NEW p \in Procs, Emit(p) PROVE Inv'
  <1> DEFINE f == fds[p].stdout
  <1>0. pc[p] = "emit" /\ p \notin DOMAIN files /\ f \in DOMAIN files \cup {None}
    BY DEF Emit, Ends, Goes, Inv, TypeOK, CommandInv, Progress, Early
  <1>1. UNCHANGED <<linkable, dir, disk, commandVars>>
    BY DEF Emit
  <1>2. PICK all \in BOOLEAN :
          /\ IF all THEN Goes(p, "emit", "report") /\ UNCHANGED code ELSE Ends(p, "emit", 3)
          /\ placed' = IF all THEN placed \cup {p} ELSE placed
          /\ files' = IF f = None THEN files
                      ELSE [files EXCEPT ![f].doc = IF all /\ ~asked[p].append THEN result[p] ELSE None]
    BY DEF Emit
  <1>3. /\ FilesOk(files') /\ DOMAIN files' = DOMAIN files
        /\ \A g \in DOMAIN files : SameMarks(files'[g], files[g])
    <2> DEFINE v == IF all /\ ~asked[p].append THEN result[p] ELSE None
    <2>1. v \in Documents \cup {None} /\ FilesOk(files)
      BY DEF Inv, TypeOK
    <2> HIDE DEF v
    <2>2. CASE f = None
      BY <1>2, <2>1, <2>2 DEF SameMarks
    <2>3. CASE f # None
      BY <1>0, <1>2, <2>1, <2>3, DocChanged DEF v
    <2> QED BY <2>2, <2>3
  <1>4. placed \subseteq placed' /\ placed' \subseteq placed \cup {p}
    BY <1>2
  <1>5. /\ pc' = [pc EXCEPT ![p] = IF all THEN "report" ELSE "over"]
        /\ code' = IF all THEN code ELSE [code EXCEPT ![p] = 3]
    BY <1>2 DEF Goes, Ends
  <1>6. TypeOK'
    <2>1. DirOk(dir', DOMAIN files', placed') /\ DirOk(disk', DOMAIN files', placed')
      BY <1>1, <1>3, <1>4, DirGrows DEF Inv, TypeOK
    <2>2. pc' \in [Procs -> Places] /\ code' \in [Procs -> 0..3 \cup {None, Killed}] /\ placed' \subseteq Procs
      BY <1>4, <1>5 DEF Inv, TypeOK, Places
    <2> QED BY <1>1, <1>3, <2>1, <2>2 DEF Inv, TypeOK, commandVars
  <1>7. /\ pc'[p] = IF all THEN "report" ELSE "over"
        /\ Known(p)' = Known(p) /\ p \notin DOMAIN files' /\ (~all => code'[p] = 3)
        /\ p \notin placed /\ p \notin DOMAIN dir
    <2>1. p \notin DOMAIN dir
      BY <1>0, Distinct DEF Inv, TypeOK, DirOk
    <2>2. p \notin placed
      BY <1>0 DEF Inv, CommandInv, Progress
    <2> QED BY <1>0, <1>1, <1>3, <1>5, <2>1, <2>2 DEF Inv, TypeOK, Known, commandVars
  <1>8. Progress(p)'
    BY <1>0, <1>1, <1>2, <1>7, NamesAssumption DEF Inv, CommandInv, Progress, Early, Holding, commandVars
  <1>9. Aimed(p)' /\ Guarded(p)' /\ Apart(p)'
    BY <1>0, <1>1, <1>4, <1>7 DEF Inv, CommandInv, Aimed, Guarded, Apart, Holding, commandVars
  <1>10. Gentle(p, {})
    <2>1. \A q \in Procs \ {p} : Same(q)
      BY <1>1, <1>5 DEF Same, Inv, TypeOK, commandVars
    <2> QED BY <1>1, <1>3, <1>4, <2>1 DEF Gentle, Adds
  <1> QED BY <1>6, <1>8, <1>9, <1>10, StepKeeps DEF CommandInv

LEMMA CreateTempKeeps ==
    ASSUME Inv, NEW p \in Procs, CreateTemp(p) PROVE Inv'
  <1>0. UNCHANGED <<linkable, disk, placed, commandVars>> /\ claimed \subseteq Procs
    BY DEF CreateTemp, Inv, TypeOK
  <1>1. CASE Ends(p, "create", 3) /\ UNCHANGED <<dir, files>>
    <2>1. /\ 3 \in 0..3 \cup {Killed} /\ claimed' \subseteq Procs /\ pc[p] # "ready"
          /\ pc' = [pc EXCEPT ![p] = "over"] /\ code' = [code EXCEPT ![p] = 3]
          /\ UNCHANGED <<linkable, dir, disk, files, asked, fds, got, ids, result, target, placed>>
      BY <1>0, <1>1 DEF Ends, Goes, commandVars
    <2> QED BY <2>1, EndKeeps
  <1>2. CASE /\ Goes(p, "create", "write") /\ UNCHANGED code
             /\ dir' = Put(dir, p, p)
             /\ files' = Put(files, p, [doc |-> None, torn |-> TRUE,
                                         synced |-> FALSE, private |-> Private(p)])
    <2> DEFINE r == [doc |-> None, torn |-> TRUE, synced |-> FALSE, private |-> Private(p)]
    <2>1. r \in FileRecords /\ r.private = Private(p)
      BY DEF FileRecords, Private, Some
    <2> HIDE DEF r
    <2>2. pc[p] = "create" /\ pc' = [pc EXCEPT ![p] = "write"] /\ p \notin DOMAIN files
      BY <1>2 DEF Goes, Inv, CommandInv, Progress, Early
    <2>3. /\ FilesOk(files') /\ DOMAIN files' = DOMAIN files \cup {p} /\ files'[p] = r
          /\ \A g \in DOMAIN files : g # p => files'[g] = files[g]
      <3>1. files' = Put(files, p, r)
        BY <1>2, Zenon DEF r
      <3>2. FilesOk(files)
        BY DEF Inv, TypeOK
      <3>3. p \in Names \cup Procs \cup Others
        OBVIOUS
      <3>4. /\ FilesOk(Put(files, p, r))
            /\ DOMAIN Put(files, p, r) = DOMAIN files \cup {p}
            /\ Put(files, p, r)[p] = r
            /\ \A g \in DOMAIN files : g # p => Put(files, p, r)[g] = files[g]
        BY <2>1, <3>2, <3>3, FileAdded
      <3> QED BY <3>1, <3>4
    <2>4. /\ DirOk(dir', DOMAIN files', placed') /\ DirOk(disk', DOMAIN files', placed')
      <3>1. DirOk(dir, DOMAIN files', placed) /\ DirOk(disk, DOMAIN files', placed)
        BY <2>3, DirGrows DEF Inv, TypeOK
      <3> QED BY <1>0, <1>2, <2>3, <3>1, PutTempOk
    <2>5. DOMAIN dir' = DOMAIN dir \cup {p} /\ \A n \in DOMAIN dir : n # p => dir'[n] = dir[n]
      BY <1>2 DEF Put
    <2>6. dir'[p] = p
      BY <1>2 DEF Put
    <2>7. TypeOK'
      <3>1. pc' \in [Procs -> Places] /\ code' = code
        BY <1>2, <2>2 DEF Inv, TypeOK, Places
      <3>2. fds' \in [Procs -> [stdin : DOMAIN files' \cup {None}, stdout : DOMAIN files' \cup {None}]]
        BY <1>0, <2>3 DEF Inv, TypeOK, commandVars
      <3>3. ids' \in [Procs -> Seq(DOMAIN files' \cup {None})]
        BY <1>0, <2>3 DEF Inv, TypeOK, commandVars
      <3> QED BY <1>0, <2>3, <2>4, <3>1, <3>2, <3>3 DEF Inv, TypeOK, commandVars
    <2>8. pc'[p] = "write" /\ Known(p)' = Known(p) /\ p \notin placed
      BY <1>0, <2>2 DEF Inv, TypeOK, Known, commandVars, CommandInv, Progress
    <2>9. Progress(p)' /\ Aimed(p)' /\ Guarded(p)'
      BY <1>0, <1>2, <2>1, <2>2, <2>3, <2>8
      DEF Inv, CommandInv, Progress, Aimed, Guarded, Early, Holding, commandVars
    <2>10. Apart(p)'
      <3>1. target[p] \in Names /\ target[p] # p
        BY <2>2, Distinct DEF Inv, CommandInv, Aimed
      <3>2. target[p] \in DOMAIN dir' => dir'[target[p]] \notin Known(p)
        BY <2>2, <2>5, <3>1 DEF Inv, CommandInv, Apart
      <3> QED BY <1>0, <2>2, <2>8, <3>2 DEF Inv, CommandInv, Apart, Holding, commandVars
    <2>11. Gentle(p, {p})
      <3>1. \A q \in Procs \ {p} : Same(q)
        BY <1>0, <1>2, <2>2 DEF Same, Inv, TypeOK, commandVars
      <3>2. Adds(dir, dir', {p})
        BY <2>5, <2>6 DEF Adds
      <3> QED BY <1>0, <2>2, <2>3, <2>5, <3>1, <3>2, Distinct DEF Gentle, SameMarks
    <2> QED BY <2>7, <2>9, <2>10, <2>11, StepKeeps DEF CommandInv
  <1> QED BY <1>1, <1>2 DEF CreateTemp

\* A step on its own file alone, from one place to another.
LEMMA OwnFileKeeps ==
    ASSUME Inv, NEW p \in Procs, NEW from \in {"write", "sync"}, NEW to \in {"sync", "link", "rename"},
           Goes(p, from, to), UNCHANGED code, FilesOk(files'), DOMAIN files' = DOMAIN files,
           \A q \in DOMAIN files : q # p => files'[q] = files[q],
           files'[p].private = files[p].private,
           ~files'[p].torn, to # "sync" => files'[p].synced,
           to = "rename" => asked[p].force,
           UNCHANGED <<linkable, dir, disk, placed, commandVars>>
    PROVE  Inv'
  <1>0. pc[p] = from /\ pc' = [pc EXCEPT ![p] = to]
    BY DEF Goes
  <1>1. TypeOK'
    BY <1>0 DEF Inv, TypeOK, Places, commandVars
  <1>2. pc'[p] = to /\ Known(p)' = Known(p) /\ p \in DOMAIN files /\ p \notin placed
    BY <1>0 DEF Inv, TypeOK, Known, commandVars, CommandInv, Progress, Holding
  <1>3. Progress(p)'
    BY <1>0, <1>2 DEF Inv, CommandInv, Progress, Early, Holding, Whole, commandVars
  <1>4. Aimed(p)' /\ Guarded(p)' /\ Apart(p)'
    BY <1>0, <1>2 DEF Inv, CommandInv, Aimed, Guarded, Apart, Holding, commandVars
  <1>5. Gentle(p, {})
    <2>1. \A q \in Procs \ {p} : Same(q)
      BY <1>0 DEF Same, Inv, TypeOK, commandVars
    <2> QED BY <2>1 DEF Gentle, Adds, SameMarks
  <1> QED BY <1>1, <1>3, <1>4, <1>5, StepKeeps DEF CommandInv

\* The document of a command's own file is written, whole or not.
LEMMA Written ==
    ASSUME Inv, NEW p \in Procs, pc[p] = "write", NEW t \in BOOLEAN,
           files' = [files EXCEPT ![p].doc = result[p], ![p].torn = t]
    PROVE  /\ FilesOk(files') /\ DOMAIN files' = DOMAIN files
           /\ \A q \in DOMAIN files : q # p => files'[q] = files[q]
           /\ files'[p].private = files[p].private /\ files'[p].torn = t
  <1>1. p \in DOMAIN files /\ FilesOk(files) /\ result[p] \in Documents
    BY DEF Inv, TypeOK, CommandInv, Progress, Holding, Guarded
  <1>2. files[p] \in FileRecords
    BY <1>1 DEF FilesOk
  <1> DEFINE r == [[files[p] EXCEPT !.doc = result[p]] EXCEPT !.torn = t]
  <1>3. r \in FileRecords /\ r.private = files[p].private /\ r.torn = t
    BY <1>1, <1>2 DEF FileRecords
  <1>4. files' = [files EXCEPT ![p] = r]
    BY <1>1 DEF FilesOk
  <1> HIDE DEF r
  <1> QED BY <1>1, <1>3, <1>4 DEF FilesOk

LEMMA WriteKeeps ==
    ASSUME Inv, NEW p \in Procs, Write(p) PROVE Inv'
  <1>1. PICK all \in BOOLEAN :
          /\ IF all THEN Goes(p, "write", "sync") /\ UNCHANGED code ELSE GivesUp(p, "write", 3)
          /\ files' = [files EXCEPT ![p].doc = result[p], ![p].torn = ~all]
    BY DEF Write
  <1>2. UNCHANGED <<linkable, dir, disk, placed, commandVars>> /\ pc[p] = "write"
    BY <1>1 DEF Write, Goes, GivesUp
  <1>3. /\ FilesOk(files') /\ DOMAIN files' = DOMAIN files
        /\ \A q \in DOMAIN files : q # p => files'[q] = files[q]
        /\ files'[p].private = files[p].private /\ files'[p].torn = ~all
    BY <1>1, <1>2, Written
  <1>4. CASE all
    BY <1>1, <1>2, <1>3, <1>4, OwnFileKeeps
  <1>5. CASE ~all
    BY <1>1, <1>2, <1>3, <1>5, GiveUpKeeps DEF Holding
  <1> QED BY <1>4, <1>5

LEMMA SyncKeeps ==
    ASSUME Inv, NEW p \in Procs, Sync(p) PROVE Inv'
  <1>0. UNCHANGED <<linkable, dir, disk, placed, commandVars>> /\ FilesOk(files)
    BY DEF Sync, Inv, TypeOK
  <1>1. CASE GivesUp(p, "sync", 3) /\ UNCHANGED files
    BY <1>0, <1>1, GiveUpKeeps DEF Holding
  <1>2. CASE /\ Goes(p, "sync", IF asked[p].force THEN "rename" ELSE "link")
             /\ files' = [files EXCEPT ![p].synced = TRUE] /\ UNCHANGED code
    <2>1. pc[p] = "sync" /\ p \in DOMAIN files /\ ~files[p].torn
      BY <1>2 DEF Goes, Inv, CommandInv, Progress, Holding
    <2>2. files[p] \in FileRecords
      BY <1>0, <2>1 DEF FilesOk
    <2> DEFINE r == [files[p] EXCEPT !.synced = TRUE]
               to == IF asked[p].force THEN "rename" ELSE "link"
    <2>3. r \in FileRecords /\ r.private = files[p].private /\ r.torn = files[p].torn /\ r.synced
      BY <2>2 DEF FileRecords
    <2>4. files' = [files EXCEPT ![p] = r]
      BY <1>2
    <2> HIDE DEF r
    <2>5. /\ FilesOk(files') /\ DOMAIN files' = DOMAIN files /\ files'[p] = r
          /\ \A q \in DOMAIN files : q # p => files'[q] = files[q]
      BY <1>0, <2>1, <2>3, <2>4 DEF FilesOk
    <2>6. to \in {"link", "rename"} /\ (to = "rename" => asked[p].force) /\ Goes(p, "sync", to)
      BY <1>2
    <2> HIDE DEF to
    <2> QED BY <1>0, <1>2, <2>1, <2>3, <2>5, <2>6, OwnFileKeeps
  <1> QED BY <1>1, <1>2 DEF Sync

\* A command's file gets the name it is to have, by a link or a rename; d is the
\* directory it then is.
LEMMA PlaceKeeps ==
    ASSUME Inv, NEW p \in Procs, NEW from \in {"link", "rename"},
           Goes(p, from, IF from = "link" THEN "unlink" ELSE "report"), UNCHANGED code,
           dir' = IF from = "link" THEN Put(dir, target[p], p)
                                   ELSE Without(Put(dir, target[p], p), p),
           placed' = placed \cup {p},
           UNCHANGED <<linkable, disk, files, commandVars>>
    PROVE  Inv'
  <1>0. /\ pc[p] = from /\ pc' = [pc EXCEPT ![p] = IF from = "link" THEN "unlink" ELSE "report"]
        /\ target[p] \in Names /\ target[p] # p /\ p # Symlink
    BY Distinct DEF Goes, Inv, CommandInv, Aimed, Holding
  <1>1. p \in DOMAIN files /\ Whole(p) /\ p \notin placed
    BY <1>0 DEF Inv, CommandInv, Progress, Holding
  <1>2. DirOk(dir', DOMAIN files', placed') /\ DirOk(disk', DOMAIN files', placed')
    <2>1. DirOk(dir, DOMAIN files, placed') /\ DirOk(disk, DOMAIN files, placed')
      BY DirGrows DEF Inv, TypeOK
    <2>2. DirOk(Put(dir, target[p], p), DOMAIN files, placed')
      BY <1>0, <1>1, <2>1, PutOk
    <2>3. DirOk(Without(Put(dir, target[p], p), p), DOMAIN files, placed')
      BY <2>2, WithoutOk
    <2> QED BY <2>1, <2>2, <2>3
  <1>3. TypeOK'
    <2>1. pc' \in [Procs -> Places]
      BY <1>0 DEF Inv, TypeOK, Places
    <2> QED BY <1>2, <2>1 DEF Inv, TypeOK, commandVars
  <1>4. /\ DOMAIN dir' \subseteq DOMAIN dir \cup {target[p]}
        /\ from = "rename" => p \notin DOMAIN dir'
        /\ \A n \in DOMAIN dir' : (n \in DOMAIN dir /\ dir'[n] = dir[n]) \/ dir'[n] = p
    BY DEF Put, Without
  <1>5. pc'[p] = IF from = "link" THEN "unlink" ELSE "report"
    BY <1>0 DEF Inv, TypeOK
  <1>6. Known(p)' = Known(p) /\ Whole(p)'
    BY <1>1 DEF Known, Whole, commandVars
  <1>7. Progress(p)' /\ Aimed(p)' /\ Guarded(p)'
    BY <1>0, <1>1, <1>4, <1>5, <1>6
    DEF Inv, CommandInv, Progress, Aimed, Guarded, Early, Holding, commandVars
  <1>8. Apart(p)'
    BY <1>0, <1>5, <1>6 DEF Inv, CommandInv, Apart, Holding, commandVars
  <1>9. Gentle(p, {p})
    <2>1. \A q \in Procs \ {p} : Same(q)
      BY <1>0 DEF Same, Inv, TypeOK, commandVars
    <2>2. DOMAIN dir' \cap Procs \subseteq DOMAIN dir \cup {p}
      BY <1>0, <1>4, Distinct
    <2> QED BY <1>0, <1>1, <1>4, <2>1, <2>2 DEF Gentle, Adds, SameMarks
  <1> QED BY <1>3, <1>7, <1>8, <1>9, StepKeeps DEF CommandInv

LEMMA LinkKeeps ==
    ASSUME Inv, NEW p \in Procs, Link(p) PROVE Inv'
  <1>0. UNCHANGED <<linkable, disk, files, commandVars>> /\ FilesOk(files)
    BY DEF Link, Inv, TypeOK
  <1>1. CASE GivesUp(p, "link", 2) /\ UNCHANGED <<dir, placed>>
    BY <1>0, <1>1, GiveUpKeeps DEF Holding
  <1>2. CASE /\ Goes(p, "link", "unlink") /\ UNCHANGED code
             /\ dir' = Put(dir, target[p], p) /\ placed' = placed \cup {p}
    BY <1>0, <1>2, PlaceKeeps
  <1>3. CASE ~linkable /\ Goes(p, "link", "look") /\ UNCHANGED <<dir, code, placed>>
    <2>0. pc[p] = "link" /\ pc' = [pc EXCEPT ![p] = "look"]
      BY <1>3 DEF Goes
    <2>1. TypeOK'
      BY <1>0, <1>3, <2>0 DEF Inv, TypeOK, Places, commandVars
    <2>2. pc'[p] = "look" /\ Known(p)' = Known(p) /\ (Whole(p) => Whole(p)')
      BY <1>0, <2>0 DEF Inv, TypeOK, Known, Whole, commandVars
    <2>3. Progress(p)' /\ Aimed(p)' /\ Guarded(p)' /\ Apart(p)'
      BY <1>0, <1>3, <2>0, <2>2
      DEF Inv, CommandInv, Progress, Aimed, Guarded, Apart, Early, Holding, commandVars
    <2>4. Gentle(p, {})
      BY <1>0, <1>3, <2>0, Quiet DEF Same, Inv, TypeOK, commandVars
    <2> QED BY <2>1, <2>3, <2>4, StepKeeps DEF CommandInv
  <1> QED BY <1>1, <1>2, <1>3 DEF Link

LEMMA RenameKeeps ==
    ASSUME Inv, NEW p \in Procs, Rename(p) PROVE Inv'
  <1>0. UNCHANGED <<linkable, disk, files, commandVars>> /\ FilesOk(files)
    BY DEF Rename, Inv, TypeOK
  <1>1. CASE GivesUp(p, "rename", 3) /\ UNCHANGED <<dir, placed>>
    BY <1>0, <1>1, GiveUpKeeps DEF Holding
  <1>2. CASE /\ Goes(p, "rename", "report") /\ UNCHANGED code
             /\ dir' = Without(Put(dir, target[p], p), p) /\ placed' = placed \cup {p}
    BY <1>0, <1>2, PlaceKeeps
  <1> QED BY <1>1, <1>2 DEF Rename

LEMMA UnlinkKeeps ==
    ASSUME Inv, NEW p \in Procs, Unlink(p) PROVE Inv'
  <1>0. UNCHANGED <<linkable, disk, files, code, placed, commandVars>> /\ dir' = Without(dir, p)
    BY DEF Unlink
  <1> DEFINE to == IF pc[p] = "unlink" THEN "report" ELSE "over"
  <1>1. pc[p] \in {"unlink", "tidy"} /\ pc' = [pc EXCEPT ![p] = to]
    BY DEF Unlink, Goes
  <1>2. /\ p \notin DOMAIN dir' /\ DOMAIN dir' \subseteq DOMAIN dir
        /\ \A n \in DOMAIN dir' : dir'[n] = dir[n]
    BY <1>0 DEF Without
  <1>3. TypeOK'
    <2>1. DirOk(dir', DOMAIN files', placed')
      BY <1>0, WithoutOk DEF Inv, TypeOK
    <2>2. pc' \in [Procs -> Places]
      BY <1>1 DEF Inv, TypeOK, Places
    <2> QED BY <1>0, <2>1, <2>2 DEF Inv, TypeOK, commandVars
  <1>4. pc'[p] = to /\ Known(p)' = Known(p) /\ (Whole(p) => Whole(p)')
    BY <1>0, <1>1 DEF Inv, TypeOK, Known, Whole, commandVars
  <1>5. Progress(p)' /\ Aimed(p)' /\ Guarded(p)' /\ Apart(p)'
    BY <1>0, <1>1, <1>2, <1>4, NamesAssumption
    DEF Inv, CommandInv, Progress, Aimed, Guarded, Apart, Early, Holding, commandVars
  <1>6. Gentle(p, {})
    <2>1. \A q \in Procs \ {p} : Same(q)
      BY <1>0, <1>1 DEF Same, Inv, TypeOK, commandVars
    <2> QED BY <1>0, <1>2, <2>1 DEF Gentle, Adds, SameMarks
  <1> QED BY <1>3, <1>5, <1>6, StepKeeps DEF CommandInv

\* Another program's new file, at a name that was free.
LEMMA NewFileOk ==
    ASSUME Inv, NEW f \in Others \ DOMAIN files, NEW n \in Names,
           files' = Put(files, f, [doc |-> None, torn |-> FALSE, synced |-> TRUE, private |-> FALSE]),
           dir' = Put(dir, n, f)
    PROVE  /\ FilesOk(files') /\ DOMAIN files \subseteq DOMAIN files'
           /\ DOMAIN files' \cap Procs \subseteq DOMAIN files
           /\ \A g \in DOMAIN files : SameMarks(files'[g], files[g])
           /\ DirOk(dir', DOMAIN files', placed)
           /\ DOMAIN dir' \cap Procs \subseteq DOMAIN dir
           /\ Adds(dir, dir', {f}) /\ Symlink \notin {f} /\ {f} \cap DOMAIN files = {}
           /\ f \in DOMAIN files'
  <1> DEFINE r == [doc |-> None, torn |-> FALSE, synced |-> TRUE, private |-> FALSE]
  <1>1. r \in FileRecords
    BY DEF FileRecords
  <1>2. files' = Put(files, f, r)
    OBVIOUS
  <1> HIDE DEF r
  <1>3. /\ FilesOk(files') /\ DOMAIN files' = DOMAIN files \cup {f}
        /\ \A g \in DOMAIN files : g # f => files'[g] = files[g]
    <2>1. FilesOk(files) /\ f \in Names \cup Procs \cup Others
      BY DEF Inv, TypeOK
    <2>2. /\ FilesOk(Put(files, f, r))
          /\ DOMAIN Put(files, f, r) = DOMAIN files \cup {f}
          /\ \A g \in DOMAIN files : g # f => Put(files, f, r)[g] = files[g]
      BY <1>1, <2>1, FileAdded
    <2> QED BY <1>2, <2>2
  <1>4. f \notin Procs /\ f # Symlink /\ n \notin Procs
    BY Distinct
  <1>5. DirOk(dir, DOMAIN files', placed)
    BY <1>3, DirGrows DEF Inv, TypeOK
  <1>6. DirOk(dir', DOMAIN files', placed)
    BY <1>3, <1>4, <1>5, PutOk
  <1>7. DOMAIN dir' = DOMAIN dir \cup {n} /\ \A m \in DOMAIN dir' : (m \in DOMAIN dir /\ dir'[m] = dir[m]) \/ dir'[m] = f
    BY DEF Put
  <1> QED BY <1>3, <1>4, <1>6, <1>7 DEF Adds, SameMarks

\* The shell opens files that are there, or makes one.
LEMMA LaunchKeeps ==
    ASSUME Inv, NEW p \in Procs, Launch(p) PROVE Inv'
  <1> DEFINE in(c) == IF c.stdin = Pipe THEN None ELSE Leads(dir, c.stdin)
             out(c) == IF c.stdout \in Names THEN Leads(dir, c.stdout) ELSE None
  <1>0. /\ pc[p] = "ready" /\ pc' = [pc EXCEPT ![p] = "read"]
        /\ UNCHANGED <<linkable, disk, got, ids, result, target, placed, code>>
    BY DEF Launch, Goes
  <1>1. PICK c \in CommandLines :
          /\ c.stdin # Pipe => in(c) # None
          /\ asked' = [asked EXCEPT ![p] = c]
          /\ claimed' = IF c.secret THEN claimed \cup {p} ELSE claimed
          /\ \/ /\ fds' = [fds EXCEPT ![p] = [stdin |-> in(c), stdout |-> out(c)]]
                /\ files' = IF out(c) = None \/ c.append THEN files
                            ELSE [files EXCEPT ![out(c)].doc = None]
                /\ UNCHANGED dir
             \/ \E f \in Others \ DOMAIN files :
                  /\ c.stdout \in Names
                  /\ fds' = [fds EXCEPT ![p] = [stdin |-> in(c), stdout |-> f]]
                  /\ files' = Put(files, f, [doc |-> None, torn |-> FALSE,
                                              synced |-> TRUE, private |-> FALSE])
                  /\ dir' = Put(dir, c.stdout, f)
    BY DEF Launch
  <1>2. /\ in(c) \in DOMAIN files \cup {None} /\ (in(c) \in Procs => in(c) \in placed)
        /\ out(c) \in DOMAIN files \cup {None}
    <2>1. c.stdin \in Names \cup {Pipe}
      BY CommandsAssumption DEF IsCommand
    <2>2. DirOk(dir, DOMAIN files, placed)
      BY DEF Inv, TypeOK
    <2>3. /\ in(c) \in DOMAIN files \cup {None} /\ (in(c) \in Procs => in(c) \in placed)
      BY <2>1, <2>2, LeadsOk, Distinct
    <2>4. out(c) \in DOMAIN files \cup {None}
      BY <2>2, LeadsOk
    <2> QED BY <2>3, <2>4
  <1> HIDE DEF in, out
  <1>3. p \notin DOMAIN files /\ p \notin placed /\ Known(p) = {} /\ ids[p] = <<>>
    BY <1>0 DEF Inv, CommandInv, Progress, Apart, Early, Known, ToSet
  <1>4. PICK New :
          /\ FilesOk(files') /\ DOMAIN files \subseteq DOMAIN files'
          /\ DOMAIN files' \cap Procs \subseteq DOMAIN files
          /\ \A g \in DOMAIN files : SameMarks(files'[g], files[g])
          /\ DirOk(dir', DOMAIN files', placed)
          /\ DOMAIN dir' \cap Procs \subseteq DOMAIN dir
          /\ Adds(dir, dir', New) /\ Symlink \notin New /\ New \cap DOMAIN files = {}
          /\ \E f \in DOMAIN files' \cup {None} :
                fds' = [fds EXCEPT ![p] = [stdin |-> in(c), stdout |-> f]]
    <2>0. FilesOk(files) /\ DirOk(dir, DOMAIN files, placed)
      BY DEF Inv, TypeOK
    <2>1. CASE /\ fds' = [fds EXCEPT ![p] = [stdin |-> in(c), stdout |-> out(c)]]
               /\ files' = IF out(c) = None \/ c.append THEN files
                           ELSE [files EXCEPT ![out(c)].doc = None]
               /\ UNCHANGED dir
      <3>1. /\ FilesOk(files') /\ DOMAIN files' = DOMAIN files
            /\ \A g \in DOMAIN files : SameMarks(files'[g], files[g])
        <4>1. CASE out(c) = None \/ c.append
          BY <2>0, <2>1, <4>1 DEF SameMarks
        <4>2. CASE ~(out(c) = None \/ c.append)
          BY <1>2, <2>0, <2>1, <4>2, DocChanged
        <4> QED BY <4>1, <4>2
      <3>2. Adds(dir, dir', {})
        BY <2>1 DEF Adds
      <3> QED BY <1>2, <2>0, <2>1, <3>1, <3>2
    <2>2. ASSUME NEW f \in Others \ DOMAIN files, c.stdout \in Names,
                 fds' = [fds EXCEPT ![p] = [stdin |-> in(c), stdout |-> f]],
                 files' = Put(files, f, [doc |-> None, torn |-> FALSE,
                                          synced |-> TRUE, private |-> FALSE]),
                 dir' = Put(dir, c.stdout, f)
          PROVE  /\ FilesOk(files') /\ DOMAIN files \subseteq DOMAIN files'
                 /\ DOMAIN files' \cap Procs \subseteq DOMAIN files
                 /\ \A g \in DOMAIN files : SameMarks(files'[g], files[g])
                 /\ DirOk(dir', DOMAIN files', placed)
                 /\ DOMAIN dir' \cap Procs \subseteq DOMAIN dir
                 /\ Adds(dir, dir', {f}) /\ Symlink \notin {f} /\ {f} \cap DOMAIN files = {}
                 /\ f \in DOMAIN files'
      BY <2>0, <2>2, NewFileOk
    <2> QED BY <1>1, <2>1, <2>2
  <1>5. TypeOK'
    <2>1. DirOk(disk', DOMAIN files', placed)
      BY <1>0, <1>4, DirGrows DEF Inv, TypeOK
    <2>2. fds' \in [Procs -> [stdin : DOMAIN files' \cup {None}, stdout : DOMAIN files' \cup {None}]]
      BY <1>2, <1>4 DEF Inv, TypeOK
    <2>3. ids' \in [Procs -> Seq(DOMAIN files' \cup {None})]
      BY <1>0, <1>4 DEF Inv, TypeOK
    <2>4. pc' \in [Procs -> Places] /\ claimed' \subseteq Procs /\ asked' \in [Procs -> CommandLines \cup {None}]
      BY <1>0, <1>1 DEF Inv, TypeOK, Places
    <2> QED BY <1>0, <1>4, <2>1, <2>2, <2>3, <2>4 DEF Inv, TypeOK
  <1>6. /\ pc'[p] = "read" /\ asked'[p] = c /\ c # None /\ fds'[p].stdin = in(c)
        /\ Known(p)' = {} /\ p \notin DOMAIN files'
    <2>1. fds'[p].stdin = in(c)
      BY <1>4 DEF Inv, TypeOK
    <2> QED BY <1>0, <1>1, <1>3, <1>4, <2>1, NamesAssumption DEF Inv, TypeOK, Known
  <1>7. Progress(p)' /\ Aimed(p)' /\ Guarded(p)' /\ Apart(p)'
    BY <1>0, <1>2, <1>3, <1>6 DEF Progress, Aimed, Guarded, Apart, Early, Holding
  <1>8. Gentle(p, New)
    <2>1. \A q \in Procs \ {p} : Same(q)
      BY <1>0, <1>1, <1>4 DEF Same, Inv, TypeOK
    <2> QED BY <1>0, <1>4, <2>1 DEF Gentle
  <1> QED BY <1>5, <1>7, <1>8, StepKeeps DEF CommandInv

\* What happens to the directory besides.
LEMMA OtherProgramKeeps ==
    ASSUME Inv, OtherProgram PROVE Inv'
  <1> DEFINE Fine(New) ==
               /\ FilesOk(files') /\ DOMAIN files \subseteq DOMAIN files'
               /\ DOMAIN files' \cap Procs \subseteq DOMAIN files
               /\ \A g \in DOMAIN files : SameMarks(files'[g], files[g])
               /\ DirOk(dir', DOMAIN files', placed)
               /\ DOMAIN dir' \cap Procs \subseteq DOMAIN dir
               /\ Adds(dir, dir', New) /\ Symlink \notin New /\ New \cap DOMAIN files = {}
  <1>0. UNCHANGED <<linkable, disk, pc, code, placed, commandVars>>
    BY DEF OtherProgram
  <1>1. \E New : Fine(New)
    <2>1. ASSUME NEW n \in Names, NEW f \in Others \ DOMAIN files, dir' = Put(dir, n, f),
                 files' = Put(files, f, [doc |-> None, torn |-> FALSE,
                                          synced |-> TRUE, private |-> FALSE])
          PROVE  Fine({f})
      BY <2>1, NewFileOk
    <2>2. ASSUME NEW n \in Names, dir' = Without(dir, n), UNCHANGED files
          PROVE  Fine({})
      <3>1. DirOk(dir', DOMAIN files', placed)
        BY <2>2, WithoutOk DEF Inv, TypeOK
      <3>2. DOMAIN dir' \subseteq DOMAIN dir /\ Adds(dir, dir', {})
        BY <2>2 DEF Without, Adds
      <3> QED BY <2>2, <3>1, <3>2 DEF Inv, TypeOK, SameMarks
    <2> HIDE DEF Fine
    <2> QED BY <2>1, <2>2 DEF OtherProgram
  <1>2. PICK New : Fine(New)
    BY <1>1
  <1>3. TypeOK'
    <2>1. DirOk(disk', DOMAIN files', placed)
      BY <1>0, <1>2, DirGrows DEF Inv, TypeOK
    <2>2. fds' \in [Procs -> [stdin : DOMAIN files' \cup {None}, stdout : DOMAIN files' \cup {None}]]
      BY <1>0, <1>2 DEF Inv, TypeOK, commandVars
    <2>3. ids' \in [Procs -> Seq(DOMAIN files' \cup {None})]
      BY <1>0, <1>2 DEF Inv, TypeOK, commandVars
    <2> QED BY <1>0, <1>2, <2>1, <2>2, <2>3 DEF Inv, TypeOK, commandVars
  <1>4. Gentle(None, New)
    <2>1. \A q \in Procs : Same(q)
      BY <1>0 DEF Same, commandVars
    <2> QED BY <1>0, <1>2, <2>1 DEF Gentle
  <1>5. None \notin Procs
    BY Distinct
  <1> QED BY <1>3, <1>4, <1>5, StepKeeps

LEMMA FlushKeeps ==
    ASSUME Inv, Flush PROVE Inv'
  <1>1. TypeOK'
    BY DEF Inv, TypeOK, Flush, commandVars
  <1>2. \A q \in Procs : Same(q)
    BY DEF Flush, Same, commandVars
  <1>3. Gentle(None, {})
    BY <1>2, Quiet DEF Flush
  <1> QED BY <1>1, <1>3, StepKeeps, Distinct

\* A loss of power ends every command that runs.
LEMMA PowerLossKeeps ==
    ASSUME Inv, PowerLoss PROVE Inv'
  <1>1. PICK lost \in SUBSET {f \in DOMAIN files : ~files[f].synced} :
          files' = [f \in DOMAIN files |->
                      IF f \in lost THEN [files[f] EXCEPT !.doc = None, !.torn = TRUE] ELSE files[f]]
    BY DEF PowerLoss
  <1>2. /\ dir' = disk /\ UNCHANGED <<linkable, disk, placed, commandVars>>
        /\ pc' = [p \in Procs |-> IF Busy(p) THEN "over" ELSE pc[p]]
        /\ code' = [p \in Procs |-> IF Busy(p) THEN Killed ELSE code[p]]
    BY DEF PowerLoss
  <1>3. FilesOk(files) /\ \A f \in DOMAIN files : files[f] \in FileRecords
    BY DEF Inv, TypeOK, FilesOk
  <1>4. /\ DOMAIN files' = DOMAIN files
        /\ \A f \in DOMAIN files :
             /\ files'[f] \in FileRecords /\ files'[f].private = files[f].private
             /\ files[f].synced => files'[f] = files[f]
    <2>1. ASSUME NEW f \in DOMAIN files
          PROVE  LET r == [files[f] EXCEPT !.doc = None, !.torn = TRUE]
                 IN  r \in FileRecords /\ r.private = files[f].private
      BY <1>3 DEF FileRecords
    <2> QED BY <1>1, <1>3, <2>1
  <1>5. FilesOk(files')
    <2>1. files' = [f \in DOMAIN files' |-> files'[f]]
      BY <1>1
    <2> QED BY <1>3, <1>4, <2>1 DEF FilesOk
  <1>6. TypeOK'
    <2>1. pc' \in [Procs -> Places] /\ code' \in [Procs -> 0..3 \cup {None, Killed}]
      BY <1>2 DEF Inv, TypeOK, Places
    <2>2. DirOk(dir', DOMAIN files', placed') /\ DirOk(disk', DOMAIN files', placed')
      BY <1>2, <1>4 DEF Inv, TypeOK
    <2> QED BY <1>2, <1>4, <1>5, <2>1, <2>2 DEF Inv, TypeOK, commandVars
  <1>7. ASSUME NEW p \in Procs PROVE CommandInv(p)'
    <2>0. CommandInv(p)
      BY DEF Inv
    <2>1. /\ pc'[p] = IF Busy(p) THEN "over" ELSE pc[p]
          /\ code'[p] = IF Busy(p) THEN Killed ELSE code[p]
          /\ pc'[p] \in {"ready", "over"}
      BY <1>2 DEF Busy
    <2>2. Known(p)' = Known(p) /\ (Whole(p) => Whole(p)')
      BY <1>2, <1>4 DEF Known, Whole, commandVars
    <2>3. Progress(p)'
      BY <1>2, <1>4, <2>0, <2>1, <2>2, NamesAssumption
      DEF CommandInv, Progress, Early, Holding, Busy, commandVars
    <2>4. Aimed(p)'
      BY <2>1 DEF Aimed, Holding
    <2>5. Guarded(p)'
      BY <1>2, <1>4, <2>0, <2>1 DEF CommandInv, Guarded, commandVars
    <2>6. Apart(p)'
      BY <1>2, <2>0, <2>1, <2>2 DEF CommandInv, Apart, Holding, Busy, commandVars
    <2> QED BY <2>3, <2>4, <2>5, <2>6 DEF CommandInv
  <1> QED BY <1>6, <1>7 DEF Inv

LEMMA NextKeeps == Inv /\ [Next]_vars => Inv'
  <1> SUFFICES ASSUME Inv, [Next]_vars PROVE Inv'
    OBVIOUS
  <1>1. ASSUME NEW p \in Procs, Step(p) PROVE Inv'
    BY <1>1, LaunchKeeps, ReadStdinKeeps, ReadFileKeeps, StatKeeps, CheckOutputKeeps, WorkKeeps,
       EmitKeeps, EvalSymlinksKeeps, CreateTempKeeps, WriteKeeps, SyncKeeps, LinkKeeps,
       LstatKeeps, RenameKeeps, UnlinkKeeps, ReportKeeps DEF Step
  <1>2. CASE UNCHANGED vars
    <2>1. TypeOK'
      BY <1>2 DEF Inv, TypeOK, vars
    <2>2. \A q \in Procs : Same(q)
      BY <1>2 DEF Same, vars
    <2>3. Gentle(None, {})
      BY <1>2, <2>2, Quiet DEF vars
    <2> QED BY <2>1, <2>3, StepKeeps, Distinct
  <1> QED BY <1>1, <1>2, KillKeeps, OtherProgramKeeps, FlushKeeps, PowerLossKeeps DEF Next

\* Where each command is, what it holds, and what it knows of its inputs.
THEOREM Invariance == Spec => []Inv
  BY Starts, NextKeeps, PTL DEF Spec

\* What was decrypted is in no file that others may read (permPlaintext).
THEOREM PrivateAlways == Spec => []DecryptedPrivate
  <1>1. Inv => DecryptedPrivate
    BY DEF Inv, CommandInv, Guarded, DecryptedPrivate
  <1> QED BY <1>1, Invariance, PTL

-----------------------------------------------------------------------------
\* A name that is taken stays as it is, or was not an input's.
Spares(p) ==
    \A f \in Known(p) :
       /\ files'[f].doc = files[f].doc
       /\ \A n \in DOMAIN dir : dir[n] = f => n \in DOMAIN dir' /\ dir'[n] = f

\* A command spares its inputs in every step: what it writes to is not one.
LEMMA StepSpares ==
    ASSUME Inv, NEW p \in Procs, Step(p) PROVE Spares(p)
  <1>0. CommandInv(p) /\ Known(p) \subseteq DOMAIN files /\ p \notin Known(p) /\ None \notin Known(p)
    BY DEF Inv, CommandInv, Apart, TypeOK, Known, ToSet
  <1>1. ASSUME UNCHANGED <<dir, files>> PROVE Spares(p)
    BY <1>0, <1>1 DEF Spares
  <1>2. CASE Launch(p)
    <2>1. Known(p) = {}
      BY <1>0, <1>2 DEF Launch, Goes, CommandInv, Apart, Known, ToSet
    <2> QED BY <2>1 DEF Spares
  <1>3. CASE Emit(p)
    <2>1. UNCHANGED dir /\ fds[p].stdout \notin Known(p)
      BY <1>0, <1>3 DEF Emit, Goes, Ends, CommandInv, Aimed, Apart
    <2>2. \A f \in DOMAIN files : f # fds[p].stdout => files'[f] = files[f]
      BY <1>3 DEF Emit
    <2> QED BY <1>0, <2>1, <2>2 DEF Spares
  <1>4. CASE CreateTemp(p)
    <2>1. \A f \in DOMAIN files : f # p => files'[f] = files[f]
      BY <1>4 DEF CreateTemp, Put
    <2>2. \A n \in DOMAIN dir : n # p => n \in DOMAIN dir' /\ dir'[n] = dir[n]
      BY <1>4 DEF CreateTemp, Put
    <2>3. \A n \in DOMAIN dir : n = p => dir[n] = p
      BY DEF Inv, TypeOK, DirOk
    <2> QED BY <1>0, <2>1, <2>2, <2>3 DEF Spares
  <1>5. CASE Write(p) \/ Sync(p)
    <2>1. UNCHANGED dir /\ FilesOk(files)
      BY <1>5 DEF Write, Sync, Inv, TypeOK
    <2>2. \A f \in DOMAIN files : f # p => files'[f] = files[f]
      <3>1. CASE Write(p)
        <4>1. PICK all \in BOOLEAN : files' = [files EXCEPT ![p].doc = result[p], ![p].torn = ~all]
          BY <3>1 DEF Write
        <4> QED BY <4>1
      <3>2. CASE Sync(p)
        BY <3>2 DEF Sync
      <3> QED BY <1>5, <3>1, <3>2
    <2> QED BY <1>0, <2>1, <2>2 DEF Spares
  <1>6. CASE Link(p)
    <2>1. UNCHANGED files
      BY <1>6 DEF Link
    <2>2. \A n \in DOMAIN dir : n \in DOMAIN dir' /\ dir'[n] = dir[n]
      BY <1>6 DEF Link, Put
    <2> QED BY <1>0, <2>1, <2>2 DEF Spares
  <1>7. CASE Rename(p)
    <2>1. UNCHANGED files
      BY <1>7 DEF Rename
    <2>2. \A n \in DOMAIN dir : n \notin {p, target[p]} => n \in DOMAIN dir' /\ dir'[n] = dir[n]
      BY <1>7 DEF Rename, Put, Without
    <2>3. \A n \in DOMAIN dir : n \in {p, target[p]} => dir[n] \notin Known(p)
      <3>1. p \in DOMAIN dir => dir[p] = p
        BY DEF Inv, TypeOK, DirOk
      <3>2. target[p] \in DOMAIN dir => dir[target[p]] \notin Known(p)
        BY <1>0, <1>7 DEF Rename, GivesUp, Goes, CommandInv, Apart, Holding
      <3> QED BY <1>0, <3>1, <3>2
    <2> QED BY <1>0, <2>1, <2>2, <2>3 DEF Spares
  <1>8. CASE Unlink(p)
    <2>1. UNCHANGED files
      BY <1>8 DEF Unlink
    <2>2. \A n \in DOMAIN dir : n # p => n \in DOMAIN dir' /\ dir'[n] = dir[n]
      BY <1>8 DEF Unlink, Without
    <2>3. p \in DOMAIN dir => dir[p] = p
      BY DEF Inv, TypeOK, DirOk
    <2> QED BY <1>0, <2>1, <2>2, <2>3 DEF Spares
  <1>9. CASE ReadStdin(p) \/ ReadFile(p) \/ Stat(p) \/ CheckOutput(p) \/ Work(p)
             \/ EvalSymlinks(p) \/ Lstat(p) \/ Report(p)
    BY <1>1, <1>9 DEF ReadStdin, ReadFile, Stat, CheckOutput, Work, EvalSymlinks, Lstat, Report
  <1> QED BY <1>2, <1>3, <1>4, <1>5, <1>6, <1>7, <1>8, <1>9 DEF Step

\* Only its own step moves a command, unless it is cut short.
LEMMA MovesItself ==
    ASSUME Inv, Next, NEW p \in Procs, pc'[p] # pc[p], code'[p] # Killed
    PROVE  Step(p)
  <1>1. ASSUME NEW q \in Procs, Step(q) PROVE q = p
    <2>1. \E to : pc' = [pc EXCEPT ![q] = to] \/ pc' = pc
      BY <1>1 DEF Step, Launch, ReadStdin, ReadFile, Stat, CheckOutput, Work, Emit, EvalSymlinks,
         CreateTemp, Write, Sync, Link, Lstat, Rename, Unlink, Report, Goes, Fails, Ends, GivesUp
    <2> QED BY <2>1 DEF Inv, TypeOK
  <1>2. ASSUME NEW q \in Procs, Kill(q) PROVE FALSE
    <2>1. pc' = [pc EXCEPT ![q] = "over"] /\ code' = [code EXCEPT ![q] = Killed]
      BY <1>2 DEF Kill
    <2> QED BY <2>1 DEF Inv, TypeOK
  <1>3. ~OtherProgram /\ ~Flush
    BY DEF OtherProgram, Flush
  <1>4. ~PowerLoss
    BY DEF PowerLoss, Busy
  <1> QED BY <1>1, <1>2, <1>3, <1>4 DEF Next

\* No command changes or displaces an input of its own (checkOutput, sameAsInput).
THEOREM InputsSpared == Spec => InputsKept
  <1> DEFINE Spared == \A p \in Procs : pc'[p] # pc[p] /\ code'[p] # Killed => Spares(p)
  <1>1. ASSUME Inv, [Next]_vars PROVE [Spared]_vars
    BY <1>1, StepSpares, MovesItself
  <1>2. ASSUME [Spared]_vars
        PROVE  [\A p \in Procs : pc'[p] # pc[p] /\ code'[p] # Killed =>
                  \A f \in ToSet(ids[p]) \ {None} :
                     /\ files'[f].doc = files[f].doc
                     /\ \A n \in DOMAIN dir : dir[n] = f => n \in DOMAIN dir' /\ dir'[n] = f]_vars
    BY <1>2 DEF Spares, Known
  <1> HIDE DEF Spared
  <1> QED BY <1>1, <1>2, Invariance, PTL DEF Spec, InputsKept

-----------------------------------------------------------------------------
\* What is at a name, to one who knows that a command's output has one only when
\* it is whole.
Tag(d, n) ==
    IF n \notin DOMAIN d THEN None
    ELSE IF d[n] = Symlink THEN Symlink
    ELSE IF d[n] \notin Procs THEN Other ELSE d[n]
Tags(d) == [n \in Names |-> Tag(d, n)]
Exits == [p \in Procs |-> IF pc[p] = "over" THEN code[p] ELSE None]

LEMMA TagIs ==
    ASSUME NEW d, NEW fs, NEW P, NEW n \in Names, DirOk(d, DOMAIN fs, P),
           \A p \in Procs : p \in P \cap DOMAIN fs => ~fs[p].torn
    PROVE  (IF n \notin DOMAIN d THEN None
            ELSE IF d[n] = Symlink THEN Symlink
            ELSE IF d[n] \notin Procs THEN Other
            ELSE IF fs[d[n]].torn THEN "torn" ELSE d[n]) = Tag(d, n)
  <1>1. n \in DOMAIN d /\ d[n] # Symlink /\ d[n] \in Procs => ~fs[d[n]].torn
    BY DEF DirOk
  <1> QED BY <1>1 DEF Tag

LEMMA Seen ==
    ASSUME Inv
    PROVE  /\ [n \in Names |-> Occupant(dir, n)] = Tags(dir)
           /\ [n \in Names |-> Occupant(disk, n)] = Tags(disk)
  <1>1. DirOk(dir, DOMAIN files, placed) /\ DirOk(disk, DOMAIN files, placed)
    BY DEF Inv, TypeOK
  <1>2. \A p \in Procs : p \in placed \cap DOMAIN files => ~files[p].torn
    BY DEF Inv, CommandInv, Progress, Whole
  <1>3. ASSUME NEW n \in Names
        PROVE  Occupant(dir, n) = Tag(dir, n) /\ Occupant(disk, n) = Tag(disk, n)
    BY <1>1, <1>2, TagIs DEF Occupant
  <1> QED BY <1>3 DEF Tags

LEMMA SeenNext ==
    ASSUME Inv'
    PROVE  /\ [n \in Names |-> Occupant(dir, n)]' = Tags(dir')
           /\ [n \in Names |-> Occupant(disk, n)]' = Tags(disk')
  <1>1. DirOk(dir', DOMAIN files', placed') /\ DirOk(disk', DOMAIN files', placed')
    BY DEF Inv, TypeOK
  <1>2. \A p \in Procs : p \in placed' \cap DOMAIN files' => ~files'[p].torn
    BY DEF Inv, CommandInv, Progress, Whole
  <1> QED BY <1>1, <1>2, TagIs DEF Occupant, Tags

LEMMA PromiseBegins == Init => Promise!Init
  <1> SUFFICES ASSUME Init PROVE Promise!Init
    OBVIOUS
  <1>1. [n \in Names |-> Occupant(dir, n)] \in [Names -> {None, Other, Symlink}]
    <2>1. \A n \in DOMAIN dir : dir[n] \notin Procs
      <3>1. dir \in [DOMAIN dir -> DOMAIN Contents \cup {Symlink}] /\ DOMAIN Contents \subseteq Names
        BY DirectoriesAssumption DEF Init
      <3> QED BY <3>1, Distinct
    <2> QED BY <2>1 DEF Occupant
  <1>2. Procs \cap DOMAIN dir = {}
    BY DirectoriesAssumption, Distinct DEF Init
  <1> QED BY <1>1, <1>2 DEF Init, Promise!Init

\* The steps of the promise, in terms of the directory and of Exits.
LEMMA Stays ==
    ASSUME Inv, Inv', Tags(dir') = Tags(dir), Procs \cap DOMAIN dir' = Procs \cap DOMAIN dir,
           Exits' = Exits, UNCHANGED <<linkable, disk, asked, placed>>
    PROVE  UNCHANGED Promise!vars
  BY Seen, SeenNext DEF Promise!vars, Exits

LEMMA Tells ==
    ASSUME Inv, Inv', NEW p \in Procs, pc[p] \notin {"ready", "over"}, NEW c \in 0..3,
           Exits' = [Exits EXCEPT ![p] = c], Tags(dir') = Tags(dir),
           Procs \cap DOMAIN dir' = (Procs \cap DOMAIN dir) \ {p},
           c \in {0, 1} => p \in placed, c = 2 => p \notin placed,
           c = 3 /\ p \in placed => asked[p].op = "repair",
           UNCHANGED <<linkable, disk, asked, placed>>
    PROVE  Promise!Tell(p)
  <1>1. asked[p] # None
    BY DEF Inv, CommandInv, Progress
  <1> QED BY <1>1, Seen, SeenNext DEF Promise!Tell, Promise!Running, Exits

LEMMA Scratches ==
    ASSUME Inv, Inv', NEW p \in Procs, pc[p] \notin {"ready", "over"},
           Exits' = Exits, Tags(dir') = Tags(dir),
           DOMAIN dir' \ {p} = DOMAIN dir \ {p},
           UNCHANGED <<linkable, disk, asked, placed>>
    PROVE  Promise!Scratch(p)
  <1>1. asked[p] # None
    BY DEF Inv, CommandInv, Progress
  <1>2. \E left \in SUBSET {p} : Procs \cap DOMAIN dir' = ((Procs \cap DOMAIN dir) \ {p}) \cup left
    <2>1. Procs \cap DOMAIN dir' = ((Procs \cap DOMAIN dir) \ {p}) \cup ({p} \cap DOMAIN dir')
      OBVIOUS
    <2> QED BY <2>1
  <1> QED BY <1>1, <1>2, Seen, SeenNext DEF Promise!Scratch, Promise!Running, Exits

LEMMA Puts ==
    ASSUME Inv, Inv', NEW p \in Procs, pc[p] \notin {"ready", "over"}, p \notin placed,
           placed' = placed \cup {p}, Exits' = Exits,
           DOMAIN dir' \cap Procs \subseteq DOMAIN dir \cup {p}, DOMAIN dir \cap Procs \subseteq DOMAIN dir' \cup {p},
           \/ asked[p].out = Stdout /\ Tags(dir') = Tags(dir)
           \/ \E n \in Names :
                /\ \/ n = asked[p].out
                   \/ asked[p].out \in DOMAIN Links /\ n = Links[asked[p].out]
                /\ n \in DOMAIN dir => asked[p].force \/ ~linkable
                /\ Tags(dir') = [Tags(dir) EXCEPT ![n] = p],
           UNCHANGED <<linkable, disk, asked>>
    PROVE  Promise!Put(p)
  <1>1. asked[p] # None
    BY DEF Inv, CommandInv, Progress
  <1>2. \E left \in SUBSET {p} : Procs \cap DOMAIN dir' = ((Procs \cap DOMAIN dir) \ {p}) \cup left
    <2>1. Procs \cap DOMAIN dir' = ((Procs \cap DOMAIN dir) \ {p}) \cup ({p} \cap DOMAIN dir')
      OBVIOUS
    <2> QED BY <2>1
  <1>3. CASE asked[p].out = Stdout /\ Tags(dir') = Tags(dir)
    BY <1>1, <1>2, <1>3, Seen, SeenNext DEF Promise!Put, Promise!Running, Exits
  <1>4. ASSUME NEW n \in Names,
               \/ n = asked[p].out
               \/ asked[p].out \in DOMAIN Links /\ n = Links[asked[p].out],
               n \in DOMAIN dir => asked[p].force \/ ~linkable,
               Tags(dir') = [Tags(dir) EXCEPT ![n] = p]
        PROVE  Promise!Put(p)
    <2>1. Tags(dir)[n] # None => n \in DOMAIN dir
      BY DEF Tags, Tag
    <2>2. Promise!Place(p, n)
      BY <1>4, <2>1, Seen, SeenNext DEF Promise!Place
    <2> QED BY <1>1, <1>2, <2>2, Seen, SeenNext DEF Promise!Put, Promise!Running, Exits
  <1> QED BY <1>3, <1>4

\* What a step leaves of Exits.
LEMMA ExitsStay ==
    ASSUME Inv, NEW p \in Procs, NEW to, to # "over", pc[p] # "over",
           pc' = [pc EXCEPT ![p] = to], \A q \in Procs \ {p} : code'[q] = code[q]
    PROVE  Exits' = Exits
  BY DEF Exits, Inv, TypeOK

LEMMA ExitsTell ==
    ASSUME Inv, NEW p \in Procs, NEW c, pc' = [pc EXCEPT ![p] = "over"], code'[p] = c,
           \A q \in Procs \ {p} : code'[q] = code[q]
    PROVE  Exits' = [Exits EXCEPT ![p] = c]
  BY DEF Exits, Inv, TypeOK

\* A command that ends with nothing placed, and no temporary file.
LEMMA FailTells ==
    ASSUME Inv, Inv', NEW p \in Procs, NEW c \in {2, 3}, pc[p] \in Early, pc[p] # "ready",
           pc' = [pc EXCEPT ![p] = "over"], code' = [code EXCEPT ![p] = c],
           UNCHANGED <<linkable, dir, disk, asked, placed>>
    PROVE  Promise!Tell(p)
  <1>1. p \notin placed /\ p \notin DOMAIN dir
    <2>1. p \notin placed /\ p \notin DOMAIN files
      BY DEF Inv, CommandInv, Progress, Early
    <2>2. p \in DOMAIN dir => p \in DOMAIN files \cup {Symlink}
      BY DEF Inv, TypeOK, DirOk
    <2> QED BY <2>1, <2>2, Distinct
  <1>2. Exits' = [Exits EXCEPT ![p] = c]
    BY ExitsTell DEF Inv, TypeOK
  <1>3. pc[p] \notin {"ready", "over"} /\ c \in 0..3 /\ c \notin {0, 1}
    BY DEF Early
  <1>4. Procs \cap DOMAIN dir' = (Procs \cap DOMAIN dir) \ {p}
    BY <1>1
  <1> QED BY <1>1, <1>2, <1>3, <1>4, Tells

\* One that goes on, its file and the directory alone.
LEMMA GoesOn ==
    ASSUME Inv, Inv', NEW p \in Procs, NEW to, to # "over", pc[p] # "over",
           pc' = [pc EXCEPT ![p] = to], \A q \in Procs \ {p} : code'[q] = code[q],
           UNCHANGED <<linkable, dir, disk, asked, placed>>
    PROVE  UNCHANGED Promise!vars
  BY ExitsStay, Stays

\* What each system call is in the promise.
LEMMA ReadingKept ==
    ASSUME Inv, Inv', NEW p \in Procs,
           ReadStdin(p) \/ ReadFile(p) \/ Stat(p) \/ CheckOutput(p) \/ Work(p)
    PROVE  [Promise!Next]_(Promise!vars)
  <1>1. /\ UNCHANGED <<linkable, dir, disk, asked, placed>>
        /\ pc[p] \in Early \ {"ready"} /\ pc[p] # "over"
    BY DEF ReadStdin, Reading, ReadFile, Stat, CheckOutput, Work, commandVars, Ends, Goes, Early
  <1>2. \/ \E c \in {2, 3} : pc' = [pc EXCEPT ![p] = "over"] /\ code' = [code EXCEPT ![p] = c]
        \/ \E to : to # "over" /\ pc' = [pc EXCEPT ![p] = to] /\ UNCHANGED code
    <2>1. CASE ReadStdin(p)
      BY <2>1 DEF ReadStdin, Reading, Fails, Inv, TypeOK
    <2>2. CASE ReadFile(p)
      BY <2>2 DEF ReadFile, Fails
    <2>3. CASE Stat(p)
      BY <2>3 DEF Stat, Fails
    <2>4. CASE CheckOutput(p)
      BY <2>4 DEF CheckOutput, Fails
    <2>5. CASE Work(p)
      BY <2>5 DEF Work, Ends, Goes
    <2> QED BY <2>1, <2>2, <2>3, <2>4, <2>5
  <1>3. ASSUME NEW c \in {2, 3}, pc' = [pc EXCEPT ![p] = "over"], code' = [code EXCEPT ![p] = c]
        PROVE  [Promise!Next]_(Promise!vars)
    <2>1. Promise!Tell(p)
      BY <1>1, <1>3, FailTells
    <2> QED BY <2>1 DEF Promise!Next
  <1>4. ASSUME NEW to, to # "over", pc' = [pc EXCEPT ![p] = to], UNCHANGED code
        PROVE  [Promise!Next]_(Promise!vars)
    BY <1>1, <1>4, GoesOn
  <1> QED BY <1>2, <1>3, <1>4

\* A name that is taken, given up, or out of sight.
LEMMA OtherTagged ==
    ASSUME NEW d, NEW n \in Names, NEW f \in Others
    PROVE  /\ Tags(Put(d, n, f)) = [Tags(d) EXCEPT ![n] = Other]
           /\ Procs \cap DOMAIN Put(d, n, f) = Procs \cap DOMAIN d
  BY Distinct DEF Tags, Tag, Put

LEMMA PlacedTagged ==
    ASSUME NEW d, NEW n \in Names, NEW p \in Procs
    PROVE  Tags(Put(d, n, p)) = [Tags(d) EXCEPT ![n] = p]
  BY Distinct DEF Tags, Tag, Put

LEMMA RemovedTagged ==
    ASSUME NEW d, NEW n \in Names
    PROVE  /\ Tags(Without(d, n)) = [Tags(d) EXCEPT ![n] = None]
           /\ Procs \cap DOMAIN Without(d, n) = Procs \cap DOMAIN d
  BY Distinct DEF Tags, Tag, Without

LEMMA TempTagged ==
    ASSUME NEW d, NEW p \in Procs
    PROVE  Tags(Put(d, p, p)) = Tags(d) /\ Tags(Without(d, p)) = Tags(d)
  BY Distinct DEF Tags, Tag, Put, Without

LEMMA LaunchKept ==
    ASSUME Inv, Inv', NEW p \in Procs, Launch(p)
    PROVE  Promise!Launch(p)
  <1>0. /\ pc[p] = "ready" /\ asked[p] = None /\ pc' = [pc EXCEPT ![p] = "read"]
        /\ UNCHANGED <<linkable, disk, placed, code>>
    BY DEF Launch, Goes, Inv, CommandInv, Progress
  <1>1. PICK c \in CommandLines :
          /\ asked' = [asked EXCEPT ![p] = c]
          /\ \/ UNCHANGED dir
             \/ \E f \in Others : /\ c.stdout \in Names \ DOMAIN dir
                                  /\ dir' = Put(dir, c.stdout, f)
    BY DEF Launch
  <1>2. Exits' = Exits
    BY <1>0, ExitsStay
  <1>3. CASE UNCHANGED dir
    BY <1>0, <1>1, <1>2, <1>3, Seen, SeenNext DEF Promise!Launch, Exits
  <1>4. ASSUME NEW f \in Others, c.stdout \in Names \ DOMAIN dir, dir' = Put(dir, c.stdout, f)
        PROVE  Promise!Launch(p)
    <2> DEFINE n == c.stdout
    <2>1. n \in Names /\ Tags(dir)[n] = None
      BY <1>4 DEF Tags, Tag
    <2>2. Tags(dir') = [Tags(dir) EXCEPT ![n] = Other] /\ Procs \cap DOMAIN dir' = Procs \cap DOMAIN dir
      BY <1>4, OtherTagged
    <2> HIDE DEF n
    <2> QED BY <1>0, <1>1, <1>2, <2>1, <2>2, Seen, SeenNext DEF Promise!Launch, Exits
  <1> QED BY <1>1, <1>3, <1>4

LEMMA OtherProgramKept ==
    ASSUME Inv, Inv', OtherProgram PROVE Promise!OtherProgram
  <1>0. UNCHANGED <<linkable, disk, pc, code, placed, asked>>
    BY DEF OtherProgram, commandVars
  <1>1. Exits' = Exits
    BY <1>0 DEF Exits
  <1>2. ASSUME NEW n \in Names, NEW f \in Others, n \notin DOMAIN dir, dir' = Put(dir, n, f)
        PROVE  Promise!OtherProgram
    <2>1. Tags(dir)[n] = None
      BY <1>2 DEF Tags, Tag
    <2>2. Tags(dir') = [Tags(dir) EXCEPT ![n] = Other] /\ Procs \cap DOMAIN dir' = Procs \cap DOMAIN dir
      BY <1>2, OtherTagged
    <2> QED BY <1>0, <1>1, <2>1, <2>2, Seen, SeenNext DEF Promise!OtherProgram, Exits
  <1>3. ASSUME NEW n \in Names, n \in DOMAIN dir, dir' = Without(dir, n)
        PROVE  Promise!OtherProgram
    <2>1. Tags(dir)[n] # None
      BY <1>3, NamesAssumption, Distinct DEF Tags, Tag
    <2>2. Tags(dir') = [Tags(dir) EXCEPT ![n] = None] /\ Procs \cap DOMAIN dir' = Procs \cap DOMAIN dir
      BY <1>3, RemovedTagged
    <2> QED BY <1>0, <1>1, <2>1, <2>2, Seen, SeenNext DEF Promise!OtherProgram, Exits
  <1> QED BY <1>2, <1>3 DEF OtherProgram

LEMMA EmitKept ==
    ASSUME Inv, Inv', NEW p \in Procs, Emit(p) PROVE [Promise!Next]_(Promise!vars)
  <1>0. UNCHANGED <<linkable, dir, disk, asked>> /\ pc[p] = "emit" /\ asked[p].out = Stdout
    BY DEF Emit, Goes, Ends, commandVars, Inv, CommandInv, Aimed
  <1>1. CASE Goes(p, "emit", "report") /\ UNCHANGED code /\ placed' = placed \cup {p}
    <2>1. Exits' = Exits
      BY <1>0, <1>1, ExitsStay DEF Goes
    <2>2. p \notin placed
      BY <1>0 DEF Inv, CommandInv, Progress
    <2>3. Promise!Put(p)
      BY <1>0, <1>1, <2>1, <2>2, Puts
    <2> QED BY <2>3 DEF Promise!Next
  <1>2. CASE Ends(p, "emit", 3) /\ placed' = placed
    <2>1. Promise!Tell(p)
      BY <1>0, <1>2, FailTells DEF Ends, Goes, Early
    <2> QED BY <2>1 DEF Promise!Next
  <1> QED BY <1>1, <1>2 DEF Emit

LEMMA CreateTempKept ==
    ASSUME Inv, Inv', NEW p \in Procs, CreateTemp(p) PROVE [Promise!Next]_(Promise!vars)
  <1>0. UNCHANGED <<linkable, disk, placed, asked>> /\ pc[p] = "create"
    BY DEF CreateTemp, Goes, Ends, commandVars
  <1>1. CASE Ends(p, "create", 3) /\ UNCHANGED dir
    <2>1. Promise!Tell(p)
      BY <1>0, <1>1, FailTells DEF Ends, Goes, Early
    <2> QED BY <2>1 DEF Promise!Next
  <1>2. CASE Goes(p, "create", "write") /\ UNCHANGED code /\ dir' = Put(dir, p, p)
    <2>1. Exits' = Exits
      BY <1>0, <1>2, ExitsStay DEF Goes
    <2>2. DOMAIN dir' \ {p} = DOMAIN dir \ {p} /\ Tags(dir') = Tags(dir)
      BY <1>2, TempTagged DEF Put
    <2>3. Promise!Scratch(p)
      BY <1>0, <2>1, <2>2, Scratches
    <2> QED BY <2>3 DEF Promise!Next
  <1> QED BY <1>1, <1>2 DEF CreateTemp

\* A step of the writing that neither places the output nor ends the command.
LEMMA WritingKept ==
    ASSUME Inv, Inv', NEW p \in Procs,
           \/ EvalSymlinks(p) \/ Write(p) \/ Sync(p) \/ Lstat(p)
           \/ Link(p) /\ UNCHANGED dir
           \/ Rename(p) /\ UNCHANGED <<dir, placed>>
    PROVE  UNCHANGED Promise!vars
  <1>1. /\ UNCHANGED <<linkable, dir, disk, asked, placed>> /\ pc[p] # "over"
        /\ \A q \in Procs \ {p} : code'[q] = code[q]
        /\ \E to : to # "over" /\ pc' = [pc EXCEPT ![p] = to]
    <2>1. CASE EvalSymlinks(p)
      BY <2>1 DEF EvalSymlinks, Goes
    <2>2. CASE Write(p)
      BY <2>2 DEF Write, Goes, GivesUp, commandVars, Inv, TypeOK
    <2>3. CASE Sync(p)
      BY <2>3 DEF Sync, Goes, GivesUp, commandVars, Inv, TypeOK
    <2>4. CASE Lstat(p)
      BY <2>4 DEF Lstat, Goes, GivesUp, commandVars, Inv, TypeOK
    <2>5. CASE Link(p) /\ UNCHANGED dir
      <3>1. ~(/\ linkable /\ target[p] \notin DOMAIN dir /\ dir' = Put(dir, target[p], p))
        BY <2>5 DEF Put
      <3> QED BY <2>5, <3>1 DEF Link, Goes, GivesUp, commandVars, Inv, TypeOK
    <2>6. CASE Rename(p) /\ UNCHANGED <<dir, placed>>
      BY <2>6 DEF Rename, Goes, GivesUp, commandVars, Inv, TypeOK
    <2> QED BY <2>1, <2>2, <2>3, <2>4, <2>5, <2>6
  <1> QED BY <1>1, GoesOn

LEMMA PlacingKept ==
    ASSUME Inv, Inv', NEW p \in Procs, Link(p) \/ Rename(p)
    PROVE  [Promise!Next]_(Promise!vars)
  <1> DEFINE n == target[p]
  <1>0. /\ UNCHANGED <<linkable, disk, asked>> /\ pc[p] \in {"link", "rename"}
        /\ n \in Names /\ n # p /\ p \notin placed
        /\ n = asked[p].out \/ (asked[p].out \in DOMAIN Links /\ n = Links[asked[p].out])
        /\ pc[p] = "rename" => asked[p].force \/ ~linkable
    <2>1. UNCHANGED <<linkable, disk, asked>> /\ pc[p] \in {"link", "rename"}
      BY DEF Link, Rename, Goes, GivesUp, commandVars
    <2>2. Aimed(p) /\ Progress(p)
      BY DEF Inv, CommandInv
    <2> QED BY <2>1, <2>2, Distinct DEF Aimed, Progress, Holding
  <1> HIDE DEF n
  <1>1. CASE /\ Goes(p, "link", "unlink") /\ UNCHANGED code /\ linkable /\ n \notin DOMAIN dir
             /\ dir' = Put(dir, n, p) /\ placed' = placed \cup {p}
    <2>1. Exits' = Exits
      BY <1>0, <1>1, ExitsStay DEF Goes
    <2>2. DOMAIN dir' = DOMAIN dir \cup {n} /\ Tags(dir') = [Tags(dir) EXCEPT ![n] = p] /\ n \notin Procs
      BY <1>0, <1>1, PlacedTagged, Distinct DEF Put
    <2>3. Promise!Put(p)
      BY <1>0, <1>1, <2>1, <2>2, Puts
    <2> QED BY <2>3 DEF Promise!Next
  <1>2. CASE /\ Goes(p, "rename", "report") /\ UNCHANGED code
             /\ dir' = Without(Put(dir, n, p), p) /\ placed' = placed \cup {p}
    <2>1. Exits' = Exits
      BY <1>0, <1>2, ExitsStay DEF Goes
    <2>2. DOMAIN dir' = (DOMAIN dir \cup {n}) \ {p} /\ n \notin Procs
      BY <1>0, <1>2, Distinct DEF Put, Without
    <2>3. Tags(dir') = [Tags(dir) EXCEPT ![n] = p]
      <3>1. Tags(Put(dir, n, p)) = [Tags(dir) EXCEPT ![n] = p]
        BY <1>0, PlacedTagged
      <3> DEFINE d == Put(dir, n, p)
      <3> HIDE DEF d
      <3>2. Tags(Without(d, p)) = Tags(d)
        BY TempTagged
      <3> QED BY <1>2, <3>1, <3>2 DEF d
    <2>4. pc[p] = "rename"
      BY <1>2 DEF Goes
    <2>5. /\ DOMAIN dir' \cap Procs \subseteq DOMAIN dir \cup {p}
          /\ DOMAIN dir \cap Procs \subseteq DOMAIN dir' \cup {p}
      BY <2>2
    <2>6. asked[p].force \/ ~linkable
      BY <1>0, <2>4
    <2>7. placed' = placed \cup {p} /\ pc[p] \notin {"ready", "over"}
      BY <1>2, <2>4
    <2>8. Promise!Put(p)
      BY <1>0, <2>1, <2>3, <2>5, <2>6, <2>7, Puts
    <2> QED BY <2>8 DEF Promise!Next
  <1>3. CASE (Link(p) /\ UNCHANGED dir) \/ (Rename(p) /\ UNCHANGED <<dir, placed>>)
    <2>1. UNCHANGED Promise!vars
      BY <1>3, WritingKept
    <2> QED BY <2>1
  <1> QED BY <1>1, <1>2, <1>3 DEF Link, Rename, n

LEMMA EndingKept ==
    ASSUME Inv, Inv', NEW p \in Procs, Unlink(p) \/ Report(p) \/ Kill(p)
    PROVE  [Promise!Next]_(Promise!vars)
  <1>1. CASE Unlink(p)
    <2>0. /\ UNCHANGED <<linkable, disk, asked, code, placed>> /\ dir' = Without(dir, p)
          /\ pc[p] \in {"unlink", "tidy"}
      BY <1>1 DEF Unlink, Goes, commandVars
    <2>1. Tags(dir') = Tags(dir) /\ DOMAIN dir' = DOMAIN dir \ {p}
      BY <2>0, TempTagged DEF Without
    <2>2. CASE Goes(p, "unlink", "report")
      <3>1. Exits' = Exits
        BY <2>0, <2>2, ExitsStay DEF Goes
      <3>2. Promise!Scratch(p)
        BY <2>0, <2>1, <3>1, Scratches
      <3> QED BY <3>2 DEF Promise!Next
    <2>3. CASE Goes(p, "tidy", "over")
      <3>1. code[p] \in {2, 3} /\ p \notin placed
        BY <2>3 DEF Goes, Inv, CommandInv, Progress
      <3>2. Exits' = [Exits EXCEPT ![p] = code[p]]
        BY <2>0, <2>3, ExitsTell DEF Goes
      <3>3. /\ code[p] \in 0..3 /\ code[p] \notin {0, 1} /\ pc[p] \notin {"ready", "over"}
            /\ Procs \cap DOMAIN dir' = (Procs \cap DOMAIN dir) \ {p}
        BY <2>0, <2>1, <3>1
      <3>4. Promise!Tell(p)
        BY <2>0, <2>1, <3>1, <3>2, <3>3, Tells
      <3> QED BY <3>4 DEF Promise!Next
    <2> QED BY <1>1, <2>2, <2>3 DEF Unlink
  <1>2. CASE Report(p)
    <2>1. PICK c \in (IF asked[p].op = "repair" THEN {0, 1, 3} ELSE {0}) : Ends(p, "report", c)
      BY <1>2 DEF Report
    <2>2. UNCHANGED <<linkable, dir, disk, asked, placed>> /\ pc[p] = "report" /\ c \in {0, 1, 3}
      BY <1>2, <2>1 DEF Report, commandVars
    <2>3. p \in placed /\ p \notin DOMAIN dir
      BY <2>2 DEF Inv, CommandInv, Progress
    <2>4. Exits' = [Exits EXCEPT ![p] = c]
      BY <2>1, ExitsTell DEF Ends, Goes, Inv, TypeOK
    <2>5. Promise!Tell(p)
      <3>1. c \in 0..3 /\ c # 2 /\ (c = 3 => asked[p].op = "repair") /\ pc[p] \notin {"ready", "over"}
        BY <2>1, <2>2
      <3>2. Procs \cap DOMAIN dir' = (Procs \cap DOMAIN dir) \ {p} /\ Tags(dir') = Tags(dir)
        BY <2>2, <2>3
      <3> QED BY <2>2, <2>3, <2>4, <3>1, <3>2, Tells
    <2> QED BY <2>5 DEF Promise!Next
  <1>3. CASE Kill(p)
    <2>1. /\ UNCHANGED <<linkable, dir, disk, asked, placed>> /\ pc[p] \notin {"ready", "over"}
          /\ pc' = [pc EXCEPT ![p] = "over"] /\ code' = [code EXCEPT ![p] = Killed]
      BY <1>3 DEF Kill, Busy, commandVars
    <2>2. Exits' = [Exits EXCEPT ![p] = Killed]
      BY <2>1, ExitsTell DEF Inv, TypeOK
    <2>3. asked[p] # None
      BY <2>1 DEF Inv, CommandInv, Progress
    <2>4. Promise!Kill(p)
      BY <2>1, <2>2, <2>3, Seen, SeenNext DEF Promise!Kill, Promise!Running, Exits
    <2> QED BY <2>4 DEF Promise!Next
  <1> QED BY <1>1, <1>2, <1>3

LEMMA DiskKept ==
    ASSUME Inv, Inv', Flush \/ PowerLoss PROVE [Promise!Next]_(Promise!vars)
  <1>1. CASE Flush
    <2>1. Exits' = Exits /\ UNCHANGED <<linkable, dir, asked, placed>> /\ disk' = dir
      BY <1>1 DEF Flush, Exits, commandVars
    <2>2. Promise!Flush
      BY <2>1, Seen, SeenNext DEF Promise!Flush, Exits
    <2> QED BY <2>2 DEF Promise!Next
  <1>2. CASE PowerLoss
    <2>1. /\ UNCHANGED <<linkable, disk, asked, placed>> /\ dir' = disk
          /\ pc' = [p \in Procs |-> IF Busy(p) THEN "over" ELSE pc[p]]
          /\ code' = [p \in Procs |-> IF Busy(p) THEN Killed ELSE code[p]]
      BY <1>2 DEF PowerLoss, commandVars
    <2>2. \A p \in Procs : /\ pc[p] = "ready" <=> asked[p] = None
                           /\ pc[p] = "over" => code[p] # None
      BY DEF Inv, CommandInv, Progress
    <2>3. Exits' = [p \in Procs |-> IF asked[p] # None /\ Exits[p] = None THEN Killed ELSE Exits[p]]
      BY <2>1, <2>2 DEF Exits, Busy
    <2>4. Promise!PowerLoss
      BY <2>1, <2>3, Seen, SeenNext DEF Promise!PowerLoss, Promise!Running, Exits
    <2> QED BY <2>4 DEF Promise!Next
  <1> QED BY <1>1, <1>2

LEMMA PromiseKept ==
    ASSUME Inv, Inv', [Next]_vars PROVE [Promise!Next]_(Promise!vars)
  <1>1. ASSUME NEW p \in Procs, Step(p) PROVE [Promise!Next]_(Promise!vars)
    <2>1. CASE Launch(p)
      BY <2>1, LaunchKept DEF Promise!Next
    <2>2. CASE Link(p) \/ Rename(p)
      BY <2>2, PlacingKept
    <2>3. CASE EvalSymlinks(p) \/ Write(p) \/ Sync(p) \/ Lstat(p)
      BY <2>3, WritingKept
    <2> QED BY <1>1, <2>1, <2>2, <2>3, ReadingKept, EmitKept, CreateTempKept, EndingKept DEF Step
  <1>2. ASSUME NEW p \in Procs, Kill(p) PROVE [Promise!Next]_(Promise!vars)
    BY <1>2, EndingKept
  <1>3. CASE OtherProgram
    BY <1>3, OtherProgramKept DEF Promise!Next
  <1>4. CASE UNCHANGED vars
    BY <1>4, Stays DEF vars, Exits
  <1> QED BY <1>1, <1>2, <1>3, <1>4, DiskKept DEF Next

\* The commands keep what docs/cli.md promises of an output: whole or not at all,
\* nothing replaced without -force, and an exit code that is true.
THEOREM OutputPromised == Spec => ImplementsOutput
  <1>1. Init => Promise!Init
    BY PromiseBegins
  <1>2. Inv /\ Inv' /\ [Next]_vars => [Promise!Next]_(Promise!vars)
    BY PromiseKept
  <1> QED BY <1>1, <1>2, Invariance, PTL DEF Spec, ImplementsOutput, Promise!Spec
===============================================================================
