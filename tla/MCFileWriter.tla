---------------------------- MODULE MCFileWriter ----------------------------
(***************************************************************************)
(* Documents of a few objects: a stream with its length, what /Encrypt      *)
(* refers to, what may be packed, and what read or claim goes with them.   *)
(***************************************************************************)
EXTENDS FileWriter

Thing(kind, size) == [kind |-> kind, gen |-> 0, size |-> size, lengthAt |-> 0, refs |-> {}]

\* Objects 1 and 2 may be packed, or one of them only, or make two containers, or
\* do not serialize; 3 is the length of the stream 4, and of the stream 5; 6 is
\* an encryption dictionary that refers to 7.
Firsts == {<<Thing("value", 1), Thing("value", 1)>>,
           <<Thing("value", 3), Thing("integer", 2)>>,
           <<Thing("value", 1), Thing("signature", 1)>>,
           <<Thing("value", 5), [Thing("value", 1) EXCEPT !.gen = 1]>>,
           <<Thing("value", 1), Thing("unserializable", 1)>>}
Streams2 == {<<>>,
             <<[Thing("stream", 2) EXCEPT !.lengthAt = 3]>>,
             <<[Thing("stream", 2) EXCEPT !.lengthAt = 3],
               [Thing("stream", 3) EXCEPT !.lengthAt = 3]>>,
             <<[Thing("no filter", 2) EXCEPT !.lengthAt = 3], Thing("stream", 1)>>}

Objects(first, streams) ==
    [n \in {1, 2, 3, 6, 7} \cup {3 + i : i \in 1..Len(streams)} |->
        IF n \in {1, 2} THEN first[n]
        ELSE IF n = 3 THEN Thing("integer", 9)
        ELSE IF n \in {4, 5} THEN streams[n - 3]
        ELSE IF n = 6 THEN [Thing("value", 1) EXCEPT !.refs = {7}]
        ELSE Thing("value", 1)]

Doc(objects, xrefStream, security, at) ==
    [objects |-> objects, lost |-> {}, undecrypted |-> {}, xrefStream |-> xrefStream,
     security |-> security, encryptAt |-> at, atRisk |-> FALSE,
     claim |-> "none", conforms |-> TRUE, checkable |-> TRUE]

Sound == {Doc(Objects(f, s), x, e, IF e \in {"none", "unresolvable"} THEN 0 ELSE 6) :
                f \in Firsts, s \in Streams2, x \in BOOLEAN,
                e \in {"none", "key", "locked", "unresolvable"}}

Simple == Objects(<<Thing("value", 1), Thing("value", 1)>>, <<>>)
Troubled ==
    UNION {{[Doc(Simple, x, e, 6) EXCEPT !.lost = {8}],
            [Doc(Simple, x, e, 6) EXCEPT !.undecrypted = {2}],
            [Doc(Simple, x, e, 6) EXCEPT !.atRisk = TRUE],
            Doc([n \in {0} \cup DOMAIN Simple |-> Thing("value", 1)], x, e, 6)} :
                x \in BOOLEAN, e \in {"key", "locked"}}
Claims ==
    {[Doc(Simple, x, "none", 0) EXCEPT !.claim = c, !.conforms = f, !.checkable = k] :
        x \in BOOLEAN, c \in {"level", "no such level", "unreadable"},
        f \in BOOLEAN, k \in BOOLEAN}

AllDocs == Sound \cup Troubled \cup Claims
=============================================================================
