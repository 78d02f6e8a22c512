---------------------------- MODULE OutputPromise ----------------------------
(***************************************************************************)
(* What docs/cli.md promises of the commands that write a file: an output   *)
(* appears whole or not at all, an existing file is replaced only with      *)
(* -force, and the exit code tells which happened, however many commands    *)
(* and other programs work in a directory and wherever they are cut short.  *)
(***************************************************************************)
EXTENDS Naturals
CONSTANTS
    Names,      \* the names of the directory
    Links,      \* where the names that are symbolic links lead
    Procs,      \* the commands run in it
    CommandLines, \* what each may be asked: [op, out, force, ...]
    Stdout,     \* the output "-"
    None,       \* what is at a name that is free
    Other,      \* a file no command wrote
    Symlink,    \* what is at a name that is a link
    Killed      \* the exit code of a command a signal ended
VARIABLES
    linkable,   \* whether the file system has hard links
    names,      \* what is at each name: the command whose output it is, or one of the above
    kept,       \* what a loss of power would leave there
    asked,      \* the command line of each command; None before it is run
    done,       \* the commands whose output was put where it belongs
    litter,     \* the commands of which a temporary file is left
    exit        \* the exit code of each; None while it runs
vars == <<linkable, names, kept, asked, done, litter, exit>>

Init ==
    /\ linkable \in BOOLEAN
    /\ names \in [Names -> {None, Other, Symlink}] /\ kept = names
    /\ asked = [p \in Procs |-> None]
    /\ done = {} /\ litter = {}
    /\ exit = [p \in Procs |-> None]

Running(p) == asked[p] # None /\ exit[p] = None

\* The shell may create the file the command's output is redirected to.
Launch(p) ==
    /\ asked[p] = None
    /\ \E c \in CommandLines : asked' = [asked EXCEPT ![p] = c]
    /\ \/ UNCHANGED names
       \/ \E n \in Names : names[n] = None /\ names' = [names EXCEPT ![n] = Other]
    /\ UNCHANGED <<linkable, kept, done, litter, exit>>

Place(p, n) ==
    /\ \/ n = asked[p].out
       \/ asked[p].out \in DOMAIN Links /\ n = Links[asked[p].out]
    /\ names[n] # None => asked[p].force \/ ~linkable
    /\ names' = [names EXCEPT ![n] = p]

\* The whole output, to its name or to the standard output.
Put(p) ==
    /\ Running(p) /\ p \notin done /\ done' = done \cup {p}
    /\ \/ \E n \in Names : Place(p, n)
       \/ asked[p].out = Stdout /\ UNCHANGED names
    /\ \E left \in SUBSET {p} : litter' = (litter \ {p}) \cup left
    /\ UNCHANGED <<linkable, kept, asked, exit>>

Scratch(p) ==
    /\ Running(p)
    /\ \E left \in SUBSET {p} : litter' = (litter \ {p}) \cup left
    /\ UNCHANGED <<linkable, names, kept, asked, done, exit>>

\* 0 and 1 are said of a written file, 2 only when nothing was; 3 can be said of
\* a repaired file, or of one whose report was not delivered.
Tell(p) ==
    /\ Running(p)
    /\ \E code \in 0..3 :
         /\ exit' = [exit EXCEPT ![p] = code]
         /\ code \in {0, 1} => p \in done
         /\ code = 2 => p \notin done
         /\ code = 3 /\ p \in done => asked[p].op = "repair"
    /\ litter' = litter \ {p}
    /\ UNCHANGED <<linkable, names, kept, asked, done>>

Kill(p) ==
    /\ Running(p) /\ exit' = [exit EXCEPT ![p] = Killed]
    /\ UNCHANGED <<linkable, names, kept, asked, done, litter>>

OtherProgram ==
    /\ \E n \in Names :
         \/ names[n] = None /\ names' = [names EXCEPT ![n] = Other]
         \/ names[n] # None /\ names' = [names EXCEPT ![n] = None]
    /\ UNCHANGED <<linkable, kept, asked, done, litter, exit>>

Flush == kept' = names /\ UNCHANGED <<linkable, names, asked, done, litter, exit>>

PowerLoss ==
    /\ names' = kept
    /\ exit' = [p \in Procs |-> IF Running(p) THEN Killed ELSE exit[p]]
    /\ litter' \in SUBSET Procs
    /\ UNCHANGED <<linkable, kept, asked, done>>

Next ==
    \/ \E p \in Procs : Launch(p) \/ Put(p) \/ Scratch(p) \/ Tell(p) \/ Kill(p)
    \/ OtherProgram \/ Flush \/ PowerLoss
Spec == Init /\ [][Next]_vars
=============================================================================
