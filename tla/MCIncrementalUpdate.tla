------------------------ MODULE MCIncrementalUpdate ------------------------
(* Small files for IncrementalUpdate: each is one the readers of the       *)
(* package's tests meet.                                                   *)
EXTENDS IncrementalUpdate, TLC

CONSTANTS a, b, s       \* two plain values and a stream

OnePlain == {a}
TwoPlain == {a, b}
OneStream == {s}

(* A file with one table.                                                  *)
TableFile ==
  File(<<Section("table", 1 :> Obj(0, a) @@ 2 :> Obj(2, s), << >>, 0, 3)>>, 0)

(* A file with a cross-reference stream, not listed in its own entries,    *)
(* whose objects are in an object stream.                                  *)
StreamFile ==
  File(<<Section("stream",
                 1 :> Packed(3) @@ 2 :> Packed(3)
                   @@ 3 :> Container(1 :> a @@ 2 :> a), << >>, 4, 4)>>, 0)

(* A table updated by a section that frees a number, hides an object and   *)
(* states a /Size below the first one's.                                   *)
UpdatedFile ==
  File(<<Section("table", 1 :> Obj(0, a) @@ 2 :> Obj(2, a), 3 :> 1, 0, 5),
         Section("table", 1 :> Obj(0, a), 2 :> 2, 0, 3)>>, 0)

(* A hybrid file: the stream of its newest section holds what its table    *)
(* lists as free; its own number is past the /Size it states.              *)
HybridFile ==
  File(<<Section("table", 1 :> Obj(0, a) @@ 2 :> Obj(0, s), << >>, 0, 3),
         Section("hybrid", 3 :> Container(4 :> a) @@ 4 :> Packed(3), << >>, 5, 5)>>, 0)

(* The older section cannot be read, and the newer one counts only what it *)
(* adds; the objects of the older one's object stream are out of sight.    *)
BrokenFile ==
  File(<<Section("stream",
                 3 :> Packed(2) @@ 2 :> Container(3 :> a), << >>, 4, 5),
         Section("table", 1 :> Obj(0, a), << >>, 0, 5)>>, 1)

UnseenFile ==
  File(<<Section("stream",
                 5 :> Packed(2) @@ 2 :> Container(5 :> a), << >>, 3, 6),
         Section("table", 1 :> Obj(0, a), << >>, 0, 6)>>, 1)

AllFiles == {TableFile, StreamFile, UpdatedFile, HybridFile, BrokenFile}
UnseenFiles == {UnseenFile}
OneTable == {TableFile}
=============================================================================
