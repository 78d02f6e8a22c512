--------------------------- MODULE MCCommandOutput ---------------------------
EXTENDS CommandOutput

CONSTANTS a, b, y, p, q, o

MCNames == {a, b, y}
MCLinks == [n \in {y} |-> b]
MCProcs == {p, q}
Alike == Permutations(MCProcs)
MCOthers == {o}

MCContents ==
    [n \in {a, b} |-> [encrypted |-> n = b, signed |-> FALSE, clear |-> FALSE]]

\* Only the plain file; the encrypted one besides, with a link to it; the plain
\* one under two names, with a link to one of them; a link that leads nowhere.
MCDirectories ==
    {[n \in {a} |-> a],
     [n \in {a, b, y} |-> IF n = y THEN Symlink ELSE n],
     [n \in {a, b, y} |-> IF n = y THEN Symlink ELSE a],
     [n \in {a, y} |-> IF n = y THEN Symlink ELSE a]}

Command(op, inputs, out, force) ==
    [op |-> op, inputs |-> inputs, out |-> out, force |-> force, invalidate |-> FALSE,
     opens |-> TRUE, secret |-> FALSE, stdin |-> Pipe, stdout |-> Pipe, append |-> FALSE]

MCCommandLines ==
    {Command("repair", <<a>>, b, FALSE),
     Command("encrypt", <<a>>, y, TRUE),
     Command("repair", <<b>>, a, TRUE),
     [Command("merge", <<Stdin, a>>, b, TRUE) EXCEPT !.stdin = b],
     [Command("decrypt", <<Stdin>>, a, FALSE) EXCEPT !.stdin = b, !.secret = TRUE],
     [Command("decrypt", <<b>>, Stdout, FALSE) EXCEPT !.stdout = a],
     [Command("repair", <<a>>, Stdout, FALSE) EXCEPT !.stdout = b, !.append = TRUE]}
=============================================================================
