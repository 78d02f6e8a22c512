SPECIFICATION Spec
CONSTANTS
    a = a
    b = b
    y = y
    p = p
    q = q
    o = o
    Names <- MCNames
    Links <- MCLinks
    Procs <- MCProcs
    CommandLines <- MCCommandLines
    Directories <- MCDirectories
    Contents <- MCContents
    Others <- MCOthers
    MaxTroubles = 1
    Stdin = Stdin
    Stdout = Stdout
    Pipe = Pipe
    Terminal = Terminal
    Symlink = Symlink
    None = None
    Other = Other
    Killed = Killed
PROPERTY LinksStay
CHECK_DEADLOCK FALSE
