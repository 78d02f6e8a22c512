---------------------------- MODULE CommandOutput ----------------------------
(***************************************************************************)
(* The commands of cmd/pdf0 that write a file (decrypt, encrypt, repair and *)
(* merge), several at a time in one directory, from the reading of their    *)
(* inputs to their exit code: readInput, checkOutput, the refusals of each  *)
(* command, writeOutput.  One action is one system call, since what it saw   *)
(* may have changed by the next; a command may be killed and the power lost  *)
(* between any two.  What a document contains is whether it is encrypted,    *)
(* signed, or decrypted by the command that wrote it.                       *)
(***************************************************************************)
EXTENDS Naturals, Sequences, FiniteSets, SequencesExt
CONSTANTS
    Names,        \* the names of the directory; a command's temporary name is the command
    Links,        \* where the names that are symbolic links lead
    Procs,        \* the commands run in it
    CommandLines, \* what each may be asked
    Directories,  \* what the directory may hold at first: a file or Symlink at a name
    Contents,     \* the document in a file that is there at first
    Others,       \* the files other programs create
    MaxTroubles,  \* bound: kills, losses of power and acts of other programs
    Stdin, Stdout, \* the input and the output "-"
    Pipe, Terminal, \* a standard input or output that is no file
    Symlink, None, Other,
    Killed        \* the exit code of a command a signal ended

Documents == [encrypted : BOOLEAN, signed : BOOLEAN, clear : BOOLEAN]

\* A command line: opens is whether the password it is given opens what it reads,
\* secret whether that password comes from the standard input, and stdin and
\* stdout are what the shell makes of them (appended to, when append).
IsCommand(c) ==
    /\ c.op \in {"decrypt", "encrypt", "repair", "merge"}
    /\ c.inputs \in Seq(Names \cup {Stdin}) /\ c.inputs # <<>>
    /\ c.out \in Names \cup {Stdout}
    /\ {c.force, c.invalidate, c.opens, c.secret, c.append} \subseteq BOOLEAN
    /\ c.stdin \in Names \cup {Pipe} /\ c.stdout \in Names \cup {Pipe, Terminal}

ASSUME CommandsAssumption ==
    /\ \A c \in CommandLines : IsCommand(c)
    /\ \A n \in DOMAIN Links : n \in Names /\ Links[n] \in Names \ DOMAIN Links
ASSUME NamesAssumption ==
    /\ Procs \cap Names = {} /\ Stdout \notin Names /\ Stdin \notin Names
    /\ {Pipe, Terminal, Symlink, None, Other} \cap (Names \cup Procs) = {}
    /\ Symlink # None /\ Symlink # Other /\ None # Other
    /\ Others \cap (Names \cup Procs \cup {Symlink, None}) = {}
    /\ None \notin CommandLines /\ None \notin 0..3 /\ None # Killed
ASSUME DirectoriesAssumption ==
    /\ \A d \in Directories :
         /\ DOMAIN d \subseteq Names /\ d \in [DOMAIN d -> DOMAIN Contents \cup {Symlink}]
         /\ \A n \in DOMAIN d : d[n] = Symlink => n \in DOMAIN Links
    /\ DOMAIN Contents \subseteq Names
    /\ \A f \in DOMAIN Contents : Contents[f] \in Documents

VARIABLES
    linkable, \* whether the file system has hard links
    dir,      \* the file, or Symlink, at each name taken
    disk,     \* the directory a loss of power would leave
    files,    \* of each file: its document (None when it is no PDF), whether it is a
              \* command's output cut short, whether it is on disk and private
    asked,    \* the command line of each command, None before it is run
    fds,      \* the files its standard input and output are, None when they are none
    pc,       \* where it is
    got,      \* the documents it read so far
    ids,      \* the identity of each of them, None for a pipe
    claimed,  \* the commands whose standard input is taken
    result,   \* the document each is to write
    target,   \* the name it resolved its output to
    placed,   \* the commands whose output is where it belongs
    code,     \* its exit code once it is decided
    troubles  \* how many of what MaxTroubles bounds
commandVars == <<asked, fds, got, ids, claimed, result, target>>
vars == <<linkable, dir, disk, files, asked, fds, pc, got, ids, claimed, result, target, placed, code, troubles>>

Init ==
    /\ linkable \in BOOLEAN
    /\ dir \in Directories /\ disk = dir
    /\ files = [f \in DOMAIN Contents |->
                  [doc |-> Contents[f], torn |-> FALSE, synced |-> TRUE, private |-> FALSE]]
    /\ asked = [p \in Procs |-> None]
    /\ fds = [p \in Procs |-> [stdin |-> None, stdout |-> None]]
    /\ pc = [p \in Procs |-> "ready"]
    /\ got = [p \in Procs |-> <<>>] /\ ids = [p \in Procs |-> <<>>]
    /\ claimed = {}
    /\ result = [p \in Procs |-> None] /\ target = [p \in Procs |-> None]
    /\ placed = {}
    /\ code = [p \in Procs |-> None]
    /\ troubles = 0
-----------------------------------------------------------------------------
\* The file a name leads to in d, through a link (os.Stat); None when to none.
Leads(d, n) ==
    IF n \notin DOMAIN d THEN None
    ELSE IF d[n] # Symlink THEN d[n]
    ELSE IF Links[n] \in DOMAIN d THEN d[Links[n]] ELSE None

Put(f, n, v) == [m \in DOMAIN f \cup {n} |-> IF m = n THEN v ELSE f[m]]
Without(f, n) == [m \in DOMAIN f \ {n} |-> f[m]]

Goes(p, from, to) == pc[p] = from /\ pc' = [pc EXCEPT ![p] = to]

\* The command ends without having made a file, or having removed it.
Ends(p, from, c) == Goes(p, from, "over") /\ code' = [code EXCEPT ![p] = c]

\* It is to end once its temporary file is removed (the deferred os.Remove).
GivesUp(p, from, c) == Goes(p, from, "tidy") /\ code' = [code EXCEPT ![p] = c]
-----------------------------------------------------------------------------
\* The shell runs a command: it opens the file its standard input is, and opens
\* or creates the one its standard output is, cutting it short unless it is to be
\* appended to.  First of all the command resolves its password, which may take
\* the standard input (secretFlags.resolve).
Launch(p) ==
    /\ Goes(p, "ready", "read")
    /\ \E c \in CommandLines :
         LET in  == IF c.stdin = Pipe THEN None ELSE Leads(dir, c.stdin)
             out == IF c.stdout \in Names THEN Leads(dir, c.stdout) ELSE None
             free == c.stdout \in Names \ DOMAIN dir
         IN  /\ c.stdin # Pipe => in # None
             /\ c.stdout \in Names => out # None \/ free
             /\ asked' = [asked EXCEPT ![p] = c]
             /\ claimed' = IF c.secret THEN claimed \cup {p} ELSE claimed
             /\ \/ /\ ~free /\ fds' = [fds EXCEPT ![p] = [stdin |-> in, stdout |-> out]]
                   /\ files' = IF out = None \/ c.append THEN files
                               ELSE [files EXCEPT ![out].doc = None]
                   /\ UNCHANGED dir
                \/ \E f \in Others \ DOMAIN files :
                     /\ free /\ fds' = [fds EXCEPT ![p] = [stdin |-> in, stdout |-> f]]
                     /\ files' = Put(files, f, [doc |-> None, torn |-> FALSE,
                                                 synced |-> TRUE, private |-> FALSE])
                     /\ dir' = Put(dir, c.stdout, f)
    /\ UNCHANGED <<linkable, disk, got, ids, result, target, placed, code, troubles>>

NextInput(p) == asked[p].inputs[Len(got[p]) + 1]
Reading(p) == pc[p] = "read" /\ Len(got[p]) < Len(asked[p].inputs)
Takes(p, doc) == got' = [got EXCEPT ![p] = Append(@, doc)]
Knows(p, id) == ids' = [ids EXCEPT ![p] = Append(@, id)]
Fails(p, c) == pc' = [pc EXCEPT ![p] = "over"] /\ code' = [code EXCEPT ![p] = c]

\* readInput of "-", which only one part of the command line may be.
ReadStdin(p) ==
    /\ Reading(p) /\ NextInput(p) = Stdin
    /\ \/ p \in claimed /\ Fails(p, 2) /\ UNCHANGED <<got, ids, claimed>>
       \/ /\ p \notin claimed /\ claimed' = claimed \cup {p}
          /\ \/ Fails(p, 3) /\ UNCHANGED <<got, ids>>
             \/ /\ Knows(p, fds[p].stdin) /\ UNCHANGED <<pc, code>>
                /\ \/ fds[p].stdin # None /\ Takes(p, files[fds[p].stdin].doc)
                   \/ fds[p].stdin = None /\ \E f \in DOMAIN Contents : Takes(p, Contents[f])
    /\ UNCHANGED <<linkable, dir, disk, files, asked, fds, result, target, placed, troubles>>

\* readInput of a name: its bytes, and then, by another call, its identity.
ReadFile(p) ==
    /\ Reading(p) /\ NextInput(p) # Stdin
    /\ LET f == Leads(dir, NextInput(p))
       IN  \/ Fails(p, 3) /\ UNCHANGED got
           \/ /\ f # None /\ Takes(p, files[f].doc)
              /\ pc' = [pc EXCEPT ![p] = "stat"] /\ UNCHANGED code
    /\ UNCHANGED <<linkable, dir, disk, files, asked, fds, ids, claimed, result, target, placed, troubles>>

Stat(p) ==
    /\ pc[p] = "stat"
    /\ LET f == Leads(dir, asked[p].inputs[Len(got[p])])
       IN  \/ Fails(p, 3) /\ UNCHANGED ids
           \/ f # None /\ Knows(p, f) /\ pc' = [pc EXCEPT ![p] = "read"] /\ UNCHANGED code
    /\ UNCHANGED <<linkable, dir, disk, files, asked, fds, got, claimed, result, target, placed, troubles>>

SameAsInput(p, f) == f # None /\ f \in ToSet(ids[p])

\* Faulty: an output that is a link is taken for the link and not for its file.
DestructiveLink(p) ==
    LET out == asked[p].out
    IN  IF out = Stdout
        THEN asked[p].stdout = Terminal \/ SameAsInput(p, fds[p].stdout)
        ELSE out \in DOMAIN dir /\ (~asked[p].force \/ SameAsInput(p, dir[out]))

\* checkOutput's refusals, in one step: what decides is the file found there.
Destructive(p) ==
    LET out == asked[p].out
    IN  IF out = Stdout
        THEN asked[p].stdout = Terminal \/ SameAsInput(p, fds[p].stdout)
        ELSE out \in DOMAIN dir /\ (~asked[p].force \/ SameAsInput(p, Leads(dir, out)))

CheckOutput(p) ==
    /\ pc[p] = "read" /\ ~Reading(p)
    /\ \/ Destructive(p) /\ Fails(p, 2)
       \/ ~Destructive(p) /\ pc' = [pc EXCEPT ![p] = "work"] /\ UNCHANGED code
    /\ UNCHANGED <<linkable, dir, disk, files, placed, commandVars, troubles>>
-----------------------------------------------------------------------------
Parsed(p) == None \notin ToSet(got[p])
Some(p, field) == \E d \in ToSet(got[p]) : d[field]

\* Whether the command does what it is asked to the documents read.  All but
\* encrypt, which takes no password, and merge refuse only what stays Locked.
Accepts(p) ==
    /\ Parsed(p)
    /\ CASE asked[p].op = "decrypt" -> Some(p, "encrypted") /\ asked[p].opens
         [] asked[p].op = "repair"  -> Some(p, "encrypted") => asked[p].opens
         [] asked[p].op \in {"encrypt", "merge"} -> ~Some(p, "encrypted")
    /\ Some(p, "signed") => asked[p].invalidate

\* Faulty: repair decides after it removed the encryption.
PrivateDecrypt(p) == asked[p].op = "decrypt"

\* What it writes, and whether that is for its owner only (permPlaintext).
Made(p) == [encrypted |-> asked[p].op = "encrypt",
            signed    |-> Some(p, "signed"),
            clear     |-> asked[p].op # "encrypt" /\ Some(p, "encrypted")]
Private(p) == asked[p].op = "decrypt" \/ (asked[p].op = "repair" /\ Some(p, "encrypted"))

\* Parsing, the command's own work, and Write to a buffer, any of which may fail;
\* encrypt may be refused for want of a password it can use.
Work(p) ==
    /\ pc[p] = "work"
    /\ \/ /\ UNCHANGED result
          /\ \E c \in IF asked[p].op = "encrypt" THEN {2, 3} ELSE {3} : Ends(p, "work", c)
       \/ /\ Accepts(p)
          /\ result' = [result EXCEPT ![p] = Made(p)]
          /\ Goes(p, "work", IF asked[p].out = Stdout THEN "emit" ELSE "resolve")
          /\ UNCHANGED code
    /\ UNCHANGED <<linkable, dir, disk, files, asked, fds, got, ids, claimed, target, placed, troubles>>
-----------------------------------------------------------------------------
\* writeOutput to the standard output, whatever it is; resultWriter remembers an
\* error, which is then the exit code.
Emit(p) ==
    /\ \E all \in BOOLEAN :
         /\ IF all THEN Goes(p, "emit", "report") /\ UNCHANGED code ELSE Ends(p, "emit", 3)
         /\ placed' = IF all THEN placed \cup {p} ELSE placed
         /\ files' = IF fds[p].stdout = None THEN files
                     ELSE [files EXCEPT ![fds[p].stdout].doc =
                             IF all /\ ~asked[p].append THEN result[p] ELSE None]
    /\ UNCHANGED <<linkable, dir, disk, commandVars, troubles>>

\* filepath.EvalSymlinks: a link that leads nowhere is the target itself.
EvalSymlinks(p) ==
    /\ Goes(p, "resolve", "create")
    /\ LET out == asked[p].out
       IN  target' = [target EXCEPT ![p] =
                        IF out \in DOMAIN dir /\ dir[out] = Symlink /\ Links[out] \in DOMAIN dir
                        THEN Links[out] ELSE out]
    /\ UNCHANGED <<linkable, dir, disk, files, asked, fds, got, ids, claimed, result, placed, code, troubles>>

\* createTemp: a name no one else has, private from the start if it has to be.
CreateTemp(p) ==
    /\ \/ Ends(p, "create", 3) /\ UNCHANGED <<dir, files>>
       \/ /\ Goes(p, "create", "write") /\ UNCHANGED code
          /\ dir' = Put(dir, p, p)
          /\ files' = Put(files, p, [doc |-> None, torn |-> TRUE,
                                      synced |-> FALSE, private |-> Private(p)])
    /\ UNCHANGED <<linkable, disk, placed, commandVars, troubles>>

Write(p) ==
    /\ \E all \in BOOLEAN :
         /\ IF all THEN Goes(p, "write", "sync") /\ UNCHANGED code ELSE GivesUp(p, "write", 3)
         /\ files' = [files EXCEPT ![p].doc = result[p], ![p].torn = ~all]
    /\ UNCHANGED <<linkable, dir, disk, placed, commandVars, troubles>>

\* Faulty: the file is closed but not synced.
SyncForgotten(p) ==
    /\ \/ GivesUp(p, "sync", 3)
       \/ Goes(p, "sync", IF asked[p].force THEN "rename" ELSE "link") /\ UNCHANGED code
    /\ UNCHANGED <<linkable, dir, disk, files, placed, commandVars, troubles>>

\* Sync and Close.
Sync(p) ==
    /\ \/ GivesUp(p, "sync", 3) /\ UNCHANGED files
       \/ /\ Goes(p, "sync", IF asked[p].force THEN "rename" ELSE "link")
          /\ files' = [files EXCEPT ![p].synced = TRUE] /\ UNCHANGED code
    /\ UNCHANGED <<linkable, dir, disk, placed, commandVars, troubles>>

\* Faulty: the target is looked for and then renamed to, hard links or not.
LinkAfterLook(p) ==
    /\ \/ /\ target[p] \in DOMAIN dir /\ GivesUp(p, "link", 2)
          /\ UNCHANGED <<dir, placed>>
       \/ Goes(p, "link", "look") /\ UNCHANGED <<dir, code, placed>>
    /\ UNCHANGED <<linkable, disk, files, commandVars, troubles>>

\* os.Link to the target, which fails if the name exists, and fails for another
\* reason where there are no hard links.
Link(p) ==
    /\ \/ /\ target[p] \in DOMAIN dir /\ GivesUp(p, "link", 2)
          /\ UNCHANGED <<dir, placed>>
       \/ /\ linkable /\ target[p] \notin DOMAIN dir
          /\ Goes(p, "link", "unlink") /\ UNCHANGED code
          /\ dir' = Put(dir, target[p], p) /\ placed' = placed \cup {p}
       \/ ~linkable /\ Goes(p, "link", "look") /\ UNCHANGED <<dir, code, placed>>
    /\ UNCHANGED <<linkable, disk, files, commandVars, troubles>>

Lstat(p) ==
    /\ \/ target[p] \in DOMAIN dir /\ GivesUp(p, "look", 2)
       \/ target[p] \notin DOMAIN dir /\ Goes(p, "look", "rename") /\ UNCHANGED code
    /\ UNCHANGED <<linkable, dir, disk, files, placed, commandVars, troubles>>

Rename(p) ==
    /\ \/ GivesUp(p, "rename", 3) /\ UNCHANGED <<dir, placed>>
       \/ /\ Goes(p, "rename", "report") /\ UNCHANGED code
          /\ dir' = Without(Put(dir, target[p], p), p) /\ placed' = placed \cup {p}
    /\ UNCHANGED <<linkable, disk, files, commandVars, troubles>>

\* The temporary name goes once the file has its own, or the command gave up.
Unlink(p) ==
    /\ \/ Goes(p, "unlink", "report")
       \/ Goes(p, "tidy", "over")
    /\ dir' = Without(dir, p)
    /\ UNCHANGED <<linkable, disk, files, code, placed, commandVars, troubles>>

\* repair reports what remains, which may be unknown, and may fail to say so.
Report(p) ==
    /\ pc[p] = "report"
    /\ \E c \in IF asked[p].op = "repair" THEN {0, 1, 3} ELSE {0} : Ends(p, "report", c)
    /\ UNCHANGED <<linkable, dir, disk, files, placed, commandVars, troubles>>

Step(p) ==
    \/ Launch(p) \/ ReadStdin(p) \/ ReadFile(p) \/ Stat(p)
    \/ CheckOutput(p) \/ Work(p) \/ Emit(p) \/ EvalSymlinks(p) \/ CreateTemp(p)
    \/ Write(p) \/ Sync(p) \/ Link(p) \/ Lstat(p) \/ Rename(p) \/ Unlink(p) \/ Report(p)
-----------------------------------------------------------------------------
Trouble == troubles < MaxTroubles /\ troubles' = troubles + 1
Busy(p) == pc[p] \notin {"ready", "over"}

\* A signal: the program catches none.
Kill(p) ==
    /\ Trouble /\ Busy(p)
    /\ pc' = [pc EXCEPT ![p] = "over"] /\ code' = [code EXCEPT ![p] = Killed]
    /\ UNCHANGED <<linkable, dir, disk, files, placed, commandVars>>

\* Another program makes a file, or removes one.
OtherProgram ==
    /\ Trouble
    /\ \E n \in Names :
         \/ \E f \in Others \ DOMAIN files :
              /\ n \notin DOMAIN dir /\ dir' = Put(dir, n, f)
              /\ files' = Put(files, f, [doc |-> None, torn |-> FALSE,
                                          synced |-> TRUE, private |-> FALSE])
         \/ n \in DOMAIN dir /\ dir' = Without(dir, n) /\ UNCHANGED files
    /\ UNCHANGED <<linkable, disk, pc, code, placed, commandVars>>

\* The directory reaches the disk when the system sees fit.
Flush ==
    /\ disk # dir /\ troubles < MaxTroubles /\ disk' = dir
    /\ UNCHANGED <<linkable, dir, files, pc, code, placed, troubles, commandVars>>

\* What was not synced may be lost, whatever names it.
PowerLoss ==
    /\ Trouble /\ \E p \in Procs : Busy(p)
    /\ dir' = disk
    /\ \E lost \in SUBSET {f \in DOMAIN files : ~files[f].synced} :
         files' = [f \in DOMAIN files |->
                     IF f \in lost THEN [files[f] EXCEPT !.doc = None, !.torn = TRUE] ELSE files[f]]
    /\ pc' = [p \in Procs |-> IF Busy(p) THEN "over" ELSE pc[p]]
    /\ code' = [p \in Procs |-> IF Busy(p) THEN Killed ELSE code[p]]
    /\ UNCHANGED <<linkable, disk, placed, commandVars>>

Next == (\E p \in Procs : Step(p) \/ Kill(p)) \/ OtherProgram \/ Flush \/ PowerLoss
Spec == Init /\ [][Next]_vars
-----------------------------------------------------------------------------
\* No command changes a file it was told is one of its inputs, by whatever name,
\* nor takes a name of it: the file it was when its identity was asked for.
InputsKept ==
    [][\A p \in Procs : pc'[p] # pc[p] /\ code'[p] # Killed =>
         \A f \in ToSet(ids[p]) \ {None} :
            /\ files'[f].doc = files[f].doc
            /\ \A n \in DOMAIN dir : dir[n] = f => n \in DOMAIN dir' /\ dir'[n] = f]_vars

\* What a command decrypted is never in a file others may read, not while it is
\* being written, nor in what is left of it by a crash.
DecryptedPrivate ==
    \A p \in Procs \cap DOMAIN files : result[p].clear => files[p].private

\* The promise, of what is at each name: a command's file is its whole output.
Occupant(d, n) ==
    IF n \notin DOMAIN d THEN None
    ELSE IF d[n] = Symlink THEN Symlink
    ELSE IF d[n] \notin Procs THEN Other
    ELSE IF files[d[n]].torn THEN "torn" ELSE d[n]
Promise == INSTANCE OutputPromise WITH
    names  <- [n \in Names |-> Occupant(dir, n)],
    kept   <- [n \in Names |-> Occupant(disk, n)],
    done   <- placed,
    litter <- Procs \cap DOMAIN dir,
    exit   <- [p \in Procs |-> IF pc[p] = "over" THEN code[p] ELSE None]
ImplementsOutput == Promise!Spec

\* "Through a symlink, -force replaces the file the link points to and keeps the
\* link" (docs/cli.md): also of a link that leads nowhere.
LinksStay ==
    [][\A p \in Procs, n \in Names \cap DOMAIN dir :
          pc'[p] # pc[p] /\ code'[p] # Killed /\ dir[n] = Symlink =>
              n \in DOMAIN dir' /\ dir'[n] = Symlink]_vars
=============================================================================
