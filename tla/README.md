# A TLA+ model of pdf0

pdf0 is a Go library that reads, edits, signs, encrypts, validates and writes
PDF files. This directory models the parts of it whose correctness depends on
order, on history, on a limit being reached, or on what an earlier step left
behind; the state-free parts (decoders, font programs, conformance rules) are
listed and left out.

Line numbers below and in `PROJECT.json` are those of the files under `src/`.
A *section* is one cross-reference table or cross-reference stream of a PDF
file; a *container* is an object stream, which packs other objects; a *marker*
is the `%%EOF` that closes an update; a Document is *Locked* when it is
encrypted and no key of it is known (`Document.Locked`).

## 1. The system

### Components with state

| component | source | state | operations | interacts with |
|---|---|---|---|---|
| Document lifecycle | `document.go` `crypt_api.go` `save.go` `sign.go` `incremental.go` `preflight.go` `create.go` | the `Document`: object graph, trailer, security handler, decrypt failures, missing containers, consent to invalidate signatures; its `Source`: the bytes as read | `Read*`, `NewDocument`, `Add` and the builders, `SetEncryption`, `RemoveEncryption`, `Repair`, `AllowInvalidatingSignatures`, `Write`, `Save`, `WriteSigned`, `WriteIncremental`, `WriteSignedIncremental`, `WriteArchivalTimestamp` | the caller, through the files it keeps |
| Numbering and update | `source.go` `incremental.go` `objstm_write.go` `document.go` `sign.go` | `Source` (merged table, sections, containers, highest number, `/Size`), `nextObjNum` | `allocObjNum`, `incrementalUpdate`, `buildWriteSet`, `withSignatureField` | the sections of the file it extends |
| Chain reader | `document.go` `xref.go` | the walk: visited offsets, sections, entry budget | `locateXRef`, `walkXRefChain`, `mergeSections`, `rebuildXRefByScan` | the caller's context, which may end at any moment |
| Container loader | `objstm.go` | the byte meter, the objects so far, broken and skipped containers | `loadCompressedObjects`, `materializeScannedObjStms`, `openObjStm` | the merged table; the refusals of the writers |
| Read ladder | `document.go` 210-435, `internal/crypt/crypt.go` | which table, which trailer, rebuilt or not, what is still enciphered | `readDocument`, `DecryptDocument`, `Pending.Finish` | the two above; the context |
| File writer and Save | `document.go` 1140-1300, `objstm_write.go`, `save.go` | the write set, offsets, the output so far | `write`, `serialize`, `buildWriteSet`, `SaveContext`, `saveVerdict` | the `io.Writer`, the context, a read and a validation of its own output |
| Revisions | `source.go` 498-600, `signedfile.go` | the revision of each section; one table per revision, memoised objects and containers, a work budget | `assignRevisions`, `RevisionEnds`, `Diff` | signature verification |
| Signature verification | `sign/verify.go` `sign/changes.go` | the results, in the order they are judged | `verifyAll`, `judgeChanges`, `disallowedChanges` | the revisions |
| Validation run | `internal/core/meter.go` `internal/core/core.go` `limits_report.go` `runcache.go` | one meter, one recorder of trips, one budget of embedded documents | `Charge`, `Contain`, `Note`, `runLimitTrips` | the context; the runs nested in it |
| Page import | `pageimport.go` `pagetree.go` | the numbers of the copies, the list still to fill, the target's tree, form and layers | `ExtractPages`, `AppendPages` | two object graphs |
| Structure tree | `structure.go` `pdfua_declare.go` | the elements, the parent tree, the index of each page, form and annotation into it, the namespaces | `SetStructureTree`, `DeclarePDFUA` | the pages, resources and annotations of the document; the identifiers of the content builder |
| Command line | `cmd/pdf0/{main,files,commands,repair,secret}.go` | the directory a command shares with the rest of the system, its temporary file, its exit code | `decrypt`, `encrypt`, `repair`, `merge`: `readInput`, `checkOutput`, `writeOutput` | the shell, other commands and programs, the disk |
| Content builder | `content/*.go` | nesting flags and counters, the tracked font and colours, those saved | every operator, `Bytes` | the caller; the readers of the stream |

Nothing in the library locks a Document, and its edits store into a plain map, so
the calls that change one are a sequence; validation, which changes nothing, may
run concurrently (`doc.go` 72). The concurrency that matters in the library is
the caller cancelling the context, and every module that models a call with a
context interleaves it. The commands of `cmd/pdf0` do run side by side, in a
directory.

### What is hard, and what makes each part correct

* **Lifecycle.** Any order of reads (with any password), edits, encryption
  calls and writers is legal. A file must never disagree with the encryption
  its trailer declares; what a reader could not decrypt or unpack must never be
  written as if it were empty or deleted; a signature must not be destroyed
  without consent; a writer either writes what the document holds or refuses.
* **Numbering.** A number once used, in a section Read never merged, by a
  container, by a cross-reference stream that lists itself nowhere, by a deleted
  object, must not be given to something else, and `/Size` must cover them all.
  An update must change exactly the numbers it lists.
* **Chain.** `/Prev` may cycle, leave the file, or be a little off; a section
  may be malformed or declined because of a limit; the context may end inside a
  parse, which then fails like a malformed one. The table must come of the
  chain the file states, newest first, and from no interrupted walk.
* **Containers.** One meter bounds what all of them materialise, and what does
  not fit must be recorded as a choice of the reader, not as a defect of the
  file. Whatever is missing must be on record, since the writers refuse by it.
* **Ladder.** A file can be read by its table, or by a scan because the chain
  or an object did not read; the document has to be the same, down to the
  catalog and to what is enciphered, and what is not must be accounted for.
* **Writer.** An object may fail, the context may end, the `io.Writer` may
  refuse, at any byte; nil has to mean that the document was written and can be
  read back, and an error must not leave what looks like a file.
* **Revisions and signatures.** A signature is judged by what was changed after
  the bytes it covers, and what may change after it (a later signature, a
  time-stamp, more validation material) may carry other changes along.
* **Validation.** A check cut short, by the meter, by the context, by a nested
  document that was not read, must accuse nobody, and the report must say so.
* **Import.** Page-bound objects are copied once per copy of the page, all else
  once, and what refers to a page that was not asked for must not drag it along
  or dangle.
* **Structure tree.** A mark leads to its element by way of an index, and a new
  tree uses the keys of the old one: what indexes must be cleared wherever it is,
  on pages, on forms in forms, on annotations; nothing may be refused once that is
  done; and the tree and the declaration of PDF/UA come in either order.
* **Command line.** What a system call saw of a name may have changed by the
  next; a signal or a loss of power comes between any two. An output must appear
  whole or not at all, replace a file only under `-force`, never be one of its
  own inputs under another name, and not leave what was decrypted to be read by
  others; the exit code must say which of these happened.
* **Builder.** Four kinds of nesting, each with its own rules, called in any
  order by somebody else's code.

Parsing, filters, fonts, images, text extraction, HTML rendering, XMP, the
conformance rules have no state that outlives a call; they are listed in `PROJECT.json` with the reason each is left out.

## 2. The modules

    DocPromise          <- DocLifecycle      <- MCDocLifecycle
      (abstract)             +-- DocLifecycle_proofs
    ObjectStore         <- IncrementalUpdate <- MCIncrementalUpdate
      (abstract)             +-- Editing_proofs (and of StructureTree)
                           XRefChain         <- MCXRefChain
                             +-- Reading_proofs (and of ReadLadder)
                           ObjStmLoad        <- MCObjStmLoad
                             +-- Source_proofs (and of SignatureReview)
                           ReadLadder        <- MCReadLadder
    SavePromise         <- FileWriter        <- MCFileWriter
      (abstract)             +-- FileWriter_proofs
                           ValidationRun     <- MCValidationRun
                             +-- ValidationRun_proofs
    SourceRevisions     <- SignatureReview   <- MCSignatureReview
      (extended)             +-- Source_proofs (and of ObjStmLoad)
                           PageImport        <- MCPageImport
                             +-- Building_proofs (and of ContentBuilder)
                           StructureTree     <- MCStructureTree
    OutputPromise       <- CommandOutput     <- MCCommandOutput
      (abstract)             +-- CommandOutput_proofs
    ContentReader       <- ContentBuilder    <- MCContentBuilder
      (abstract)             +-- Building_proofs

`PROJECT.json` "map" names, for every definition, the lines it models. A
definition whose comment begins *Faulty* or *With* is the next definition with
a plausible bug; it is used by no specification. Each property of a passing run
is paired in "mutants" with one of them that violates it.

### DocLifecycle and DocPromise

Two variables: `file`, the file the application keeps, and `doc`, the Document.
What an object's bytes went through is all that is kept of them: a value, the
sequence of file keys it was enciphered under, the crypt filter it names, and
whether the ciphertext is intact. A file has in addition its trailer's
`/Encrypt` (a key, none, or one that resolves to nothing), the encryption
dictionaries it holds, its `/ID`, the packed objects with the layers of their
container, and the signatures that cover its bytes. A Document has the same
plus its handler, its `Source` (the file as read), the objects that could not
be decrypted (`failed`) or unpacked (`missing`), and the consent.

One action per call: `Read`, `NewDocument`, `Store` (any builder), `Delete`,
`DeleteSignature`, `AllowInvalidatingSignatures`, `SetEncryption`,
`RemoveEncryption`, `Repair`, `Write`, `SaveClaimed` (`Save` of a document that
claims PDF/A), `WriteSigned`, `WriteIncremental`, `WriteSignedIncremental`
(`WriteArchivalTimestamp` follows the same path). `Add` is `Document.Add`, the
one call that does not ask whether the document is Locked; only `RawSpec` has
it (section 5).

The application keeps an output only when the writer returned nil, so a writer
that refuses, fails or is cancelled leaves `file` alone. That is the advice of
`WriteContext`'s documentation; the partial output itself is `FileWriter`'s.

`DocPromise` is what a user of the library assumes: a file and a document are
each a map from objects to values with a key and signatures; reading copies one
to the other, or gives a document that can only be carried through; a writer
puts exactly the document's values in the file, or an update of the listed
ones. It knows nothing of layers, containers, handlers or dictionaries.
`ImplementsPromise` maps a concrete piece to the value a reader who holds the
key gets, and to `Hollow` when that reader gets nothing.

### IncrementalUpdate and ObjectStore

`disk` is a sequence of sections, the oldest `cut` of which are unreachable (a
broken chain); a section has in-use entries (objects, containers with what they
hold, places in containers), free entries, its own cross-reference stream's
number and its `/Size`. `src` is the `Source` record computed from it (merged
table, containers, highest number noted, largest `/Size`), `doc` the objects,
the allocator and the form the document is written in. Actions: `Read`; the
edits `Add` (through the allocator), `Insert` (straight into `Objects`),
`SetValue`, `Delete`; `Write` (one new section, with containers for what can be
packed); `WriteIncremental` of any small set of numbers; `UpdateExhausted`, the
update that fails for want of a number after the allocator moved;
`WriteSignedIncremental`, whose clone takes two or three fresh objects and
rewrites some existing ones.

`ObjectStore` is a numbered store with no format in it: read, edit, write
whole, write the listed numbers, and a set of numbers that must never be handed
out again. `ImplementsStore` is the refinement.

### XRefChain

A file is what lies at each byte offset as far as a cross-reference parse can
tell: whether an `xref` keyword or a stream begins there, how a parse there
ends (a section, malformed, over a limit, an unsupported filter), its in-use
and free numbers, its `/Prev`. The steps are `LocateXRef`, then for each
section `Enter` (the top of `walkXRefChain`'s loop), `Parse` and, when that
fails, `Relocate` to the nearest `xref` keyword in the window before; then
`UseChain`, `MergeSection` for each section, or `Rebuild`. `Cancel` may happen
between any two of them: a parse that decodes a stream may then fail, which is
how a cancellation inside a filter shows up in the code.

### ObjStmLoad

Containers are visited in number order. `OpenObjStm` is `openObjStm`'s checks in
their order; `TakePlaced` takes one object that the table places in the open
container, `TakeScanned` one entry of its index when the table was rebuilt;
`CloseObjStm` returns the decoded bytes to the meter and settles the blame.
`Cancel` and `Stop` are the context. A container is described by the bytes it
decodes to and its index; each entry has the memory its object takes.

### ReadLadder

`readDocument` after the chain has been walked. A file is the sequence of what
the scanner tells apart in it (objects, noise that looks like an object's
header, trailer keywords) and what the walk made of it (`chain`). The steps are
the function's: `ChainRead` or `ChainFailed` (a scan, with its trailer), `Load`
or `LoadFailed`, then `RebuildTable` and `Reload` (a scan, with the trailer the chain
gave), `ChooseTrailer` (section 4.1 of the function), `Decrypt` (strings, and
the bodies of containers), `Unpack`, `Materialize`, `FindRoot` and `Finish` (the
bodies left). Each loop under the context has its `Stop`.

`layer` says what stands between the value held under a number and its text: the
keys it is under, and `Damage`, which no key takes off. The key is the one of a
number (`Key`: RC4 and AESV2 derive it from the number, AESV3 does not). The file
has a value under the number written before it (`Enciphered`); the reader decrypts
it under the number that the table gives (`Under`), and two numbers at one offset
share what was parsed there, which is what `Passes` is about. What a pass leaves
is `Undone`: RC4 with another key puts that key on and cannot tell, while AES
finds the padding wrong, leaves the value empty and records the failure (`Peel`).

### FileWriter and SavePromise

`RefuseClaim` is what `Save` refuses of a claim and `Refuse` what `write` refuses
before its first byte, with the write set it computes (`Packable`, `Chunks` by
size, `Containers` numbered after the highest object); `WriteHeader`,
`WriteObject`, `WriteXRef` and `WriteStartXRef` are the output, with every
object's serialization, its encryption and the `/Length` object it corrects
(`Written`); `Cancel` and `WriterFails` may come between any two. `dest` is what
the caller's writer has got, `out` what has been produced: `Save` produces a
buffer, `ReadBack` reads it (or cannot, which refuses it), `Verify` judges it
(`SaveVerdict`) and `Copy` hands it over.
What is in `dest` is then read by the definitions at the end of the module as a
reader would, from the last `startxref`. `SavePromise` is `Save` in one step.

### ValidationRun

A stack of runs, the caller's and those nested in it for embedded PDF files, one
meter, one budget of embedded documents and bytes, and for each run its findings
and its recorded trips. A check is a search through items or the rule that
follows embedded files; a `Charge` that passes the limit, or a poll that finds
the context done, unwinds the check to its `Contain`, and every later check ends
at its first charge. `Noted` is the recorder with its maximum; `Report` adds
what `runLimitTrips` adds. `Sound` says, with no meter, no limit and no
cancellation in it, what is true of a file.

### SourceRevisions and SignatureReview

`SourceRevisions` has no variables. A file is a sequence of parts (a base and
its updates), each with objects, one or two sections and a marker or none; the
operators are `assignRevisions`, `RevisionEnds`, `mergeSections` and the parts of
`signedFile.Diff`: the sections before a revision's end, the entries that need
no comparison (`SameBytesBefore`), and what a state makes of an entry, through
containers that are missing, misnumbered or themselves compressed.

`SignatureReview` first lets a file grow: `Sign` and `Archive` are this
library's `WriteSignedIncremental` and `WriteArchivalTimestamp`, and what other
programs do is a set of external actions (`Certify`, `Fill` an empty field,
`AddStore`, `Alter`, `Reorder`, `AddOther`, `Delete`, `TouchContainer`). `content`
has, for each part, what its reader found when it was the last: no definition of
the verifier reads it. `VerifyAll` then gives each signature its revision, and
`judgeChanges` takes them latest first: `JudgeWhole`, or `Compare` (the
comparison) and `Judge` (every rule of `changes.go`), or `GiveUp` when the
budget or the context ends. `stage` says which of the two is under way. What a
file is made of is stated once, for the proofs and for TLC: `IsBase` is a file
before its first update (`BasesAssumption`), `IsSound` one with nothing damaged
in it (`SoundAssumption`), and `IsContent` what a reader of it may find.

### PageImport

`Begin` is what the call refuses and the numbers of the page copies;
`collectBound` walks the pages' annotations and the fields above them;
`CopyPage` copies one page, `drain` one object of the list (what it refers to is
numbered and put on the list, or dropped: `Carried`, `KeptKids`, `remapDest`);
`Hang`, `MergeForm` and `CarryLayers` join the copies to the target. An object is
a kind, a name, a rotation, the page a destination names, and its references by
the entries that matter to the code.

### StructureTree

`SetStructureTree(t)` is the whole call: `Accepted` is the checks that come before
anything is written (`structureCheck`, `checkStructurePages`), `ClearedIndex` is
`clearStructureIndices` with the walk of `clearXObjectStructParents` (`Entered`),
`Stamped` and `Entry` are the keys and the entries of the parent tree, `Trips` the
errors the writer itself can return, and `Placed` puts Documents in PDF 2.0's
namespace. `RemoveTree` is the call without a tree; `DeclarePDFUA`, `AddPage`,
`AddAnnotation` and `SetVersion` come between. `index` is what the objects of the
document say, `tree` what the file would hold, `asked` what the caller described:
`MarksLeadToOwners` compares what a reader finds by the first two with the last.
A tree is numbered elements, so that what depends on ancestors is a set of
numbers (`Line`) and what a tree claims is a set (`Claims`); which of two pages
gets the lower key is left open.

### ContentBuilder and ContentReader

`ContentBuilder` has the Builder's flags and counters as variables, and one
action for each kind of call; `out` is the operator last written, `spans` what
`ShowTextAdjusted` has still to write. `ContentReader` is the graphics objects
of ISO 32000-2 Figure 9 as a reader goes through them: it has a step for each
operator that may come next, with its effect on the state, and none for the
others. `ReaderFollows` maps one to the other: every operator is one a reader
takes, and what the Builder reports is the reader's.

### CommandOutput and OutputPromise

Several commands in one directory. An action is one system call of a command, in
the order the code makes them: `Launch` (the shell, with its redirections, and
the password that may take the standard input), `ReadStdin`, `ReadFile` and
`Stat` (the bytes of an input and then, by name again, its identity),
`CheckOutput`, `Work` (parsing, the refusals of each command, `Write` to a
buffer), `Emit` to the standard output, or `EvalSymlinks`, `CreateTemp`, `Write`,
`Sync`, then `Link` and `Unlink`, or `Rename`, or `Lstat` and `Rename` where there
are no hard links; `Report` decides the exit code. `dir` is what is at each name
(a temporary name is the command that made it), `disk` what a loss of power would
leave of it, `files` what is in each file, whether it is a command's output cut
short, whether it was synced, and whether only its owner may read it. `Kill`,
`Flush`, `PowerLoss` and `OtherProgram` (which makes or removes a file) come
between any two. `OutputPromise` puts a whole output where it belongs in one step
and tells what it did by one exit code, with no temporary file but as `litter`.

## 3. What is checked

| run | question | distinct states |
|---|---|---|
| `lifecycle` | files encrypted elsewhere, damaged, unresolvable, signed, packed, under any history of calls: `FileSound`, `SignaturesKept`, `ImplementsPromise` | 128,000 |
| `update_files` | five kinds of chains under edits, writes, updates, signatures and re-reads: `NumbersFresh`, `SizeCovers`, `ImplementsStore` | 282,577 |
| `chains` | every file of three places and chains of four, cancelled anywhere: `ChainLinks`, `UnbrokenComplete`, `NothingInterrupted`, `NewestWins`, `Terminates` | 316,187 |
| `object_streams` | two containers in any state, any table, three budgets, cancelled anywhere: `MemoryBounded`, `RightObject`, `NothingSilentlyMissing`, `BrokenIsFilesFault` | 193,419 |
| `read_ladder` | sixteen files and their updates, under three ciphers, with every outcome of the walk each, cancelled anywhere: `RecoversSame`, `LayersAgree`, `MissingTold` | 84,709 |
| `writing` | documents to write and to save, a writer that fails and a context that ends anywhere: `NilMeansWritten`, `ErrorNeverWhole`, `SaveKeepsPromise` | 7,264 |
| `validation` | files of up to three checks that embed one another and themselves, four budgets, cancelled anywhere: `NoFalseAccusation`, `CompleteUnlessTold`, `StopsInTime`, `Terminates` | 9,753 |
| `review` | three files under up to three updates by this library and by others, then verified: `EveryChangeSeen`, `WhatIsSeenIsSigned`, `OrdinaryKeepsIntact` | 156,939 |
| `import` | sources of two pages with links, a form or layers, six requests, five targets: `PagesApart`, `LinksLead`, `FormTree`, `HiddenStays` | 45,102 |
| `content` | every sequence of Builder calls: `BytesComplete`, `ReaderFollows` | 1,002,297 |
| `command_output` | two commands of seven, in four directories, cut short once anywhere: `DecryptedPrivate`, `InputsKept`, `ImplementsOutput` | 329,711 |
| `structure` | trees of up to four elements set, replaced and removed over three documents, in any order with new pages and annotations, versions and declarations: `MarksLeadToOwners`, `TypesDefined`, `RefusedBeforeWriting` | 4,058 |

Deadlock is checked in every run but `review`, where a judged file is the
end, and `command_output`, where all commands may be over; elsewhere a document always has a next call, and a call that has returned
stutters. The type invariants of `DocLifecycle`, `IncrementalUpdate`, `XRefChain`,
`ObjStmLoad` and `ContentBuilder` are proved (section 4).

### Bounds, and why they are enough

* **DocLifecycle** has no counter: its state space is finite once the sets are,
  and the run explores all of it, so histories are of any length. Two objects
  are enough for a packed one next to an unpacked one and for an update that
  lists one and not the other; two keys for an encryption made elsewhere and
  one by this program; two signatures for one the file has and one that is
  added. Which objects a writer packs is left open among those it may pack:
  that it packs none when there is a single candidate depends on objects the
  model does not have. The number of layers is not bounded: that it never
  passes one is what the invariant says.
* **IncrementalUpdate**: `MaxSteps = 3` edits and writes, with a `Read` between
  any two, from files that are already chains; `MaxObjectNumber = 6` is one
  or two above what the files use, so running out is met; numbers up to two
  above it can be put in the graph to meet the refusals; `MaxGen = 2` stands for 65535; `ChunkSize = 2`
  lets one write need two containers; `MaxChanged = 2` allows an update that
  both writes and frees. An update after an update after a delete is three
  steps.
* **XRefChain**: three places, each leading anywhere (itself, either other,
  outside) or one of five unreadable things, are enough for a cycle, a cycle
  through a relocation, and a chain that breaks in the middle; `Window = 2` of
  three leaves keywords both inside and outside the window. The four-place
  files are for the merge and the budget: a number defined, redefined, freed and
  defined again over four sections, with budgets at, below and above the sum.
* **ObjStmLoad**: two containers are enough for one to use what the other
  leaves; sizes of 1, 3 and 4 against a per-stream limit of 3 and totals of 3, 5
  and 9 put every limit on both sides of each container.
* **ReadLadder** is a straight line; its bound is the files: both kinds of
  trailer in either order and none at all, containers typed and untyped, intact
  and not, noise, an object in two places, under each cipher, and after each of
  them one more update of four kinds; and for each of these the walk reading,
  missing an object, giving the place of any object to a second number or to it
  alone, cut off, or failing for each reason. The second number is below some of
  the file's and above others, so that it is met first and last.
* **FileWriter**: `ContainerMax = 5` with objects of 1 to 5 bytes makes zero, one
  or two containers, and one object too large for any; two streams may share
  their length. The documents the writers refuse are there for each reason.
* **ValidationRun**: `MaxTrips = 1` makes the recorder overflow at the second;
  `Poll = 2` and costs of up to 2 put a poll inside every search; budgets of 1, 6
  and 14 end in the first check, in a nested run and after it, and 90 never; a
  file that embeds itself meets `MaxDepth = 2`, and four embedded documents the
  other budget.
* **SignatureReview**: `MaxUpdates = 3` updates, at most two of which are *odd*
  (neither this library's nor permitted by every signature before them), over a
  base with two sections and two markers, one or none. A signature, a change and
  a second signature that would excuse it is three updates; what takes four is a
  third signature that would excuse the second.
* **PageImport**: a page asked for twice with another between, and destinations
  at each page or none, meet every order of first copies; three levels of
  fields, two layers in every state.
* **CommandOutput**: two commands, since what can go wrong at a name is between
  two that use it; `MaxTroubles = 1` kill, loss of power or act of another
  program, which may come at any point of both. The directories have an encrypted
  file and a plain one, a file under two names, a link, and a link that leads
  nowhere; the seven command lines read each other's outputs, write with and
  without `-force`, through the link, and to a standard output that is an input.
  The commands are alike, so the run takes them as symmetric; it has no liveness.
* **ContentBuilder**: `MaxNestingDepth = 1` for 28 (one level saved and the
  refusal of the next) and `MarkedMax = 2` (one sequence around a text object and
  one in it) bound the only counters; there is a font, a pattern and a colour
  beside none. The proofs have no bound.

* **StructureTree** has no counter: documents and trees are finite sets and the
  run explores every history of calls. Two pages share a form that draws another,
  at `MaxNestingDepth = 1` for 28, so that what a form draws is the last level
  cleared; `MaxMCID = 2` and `MaxStructureDepth = 3` are met from both sides. The
  trees are every element with one kid, valid or not; every two claims that may be
  one; an element between the marks of its parent, with a page of its own or
  without; types with and without a namespace or a role; cells and their headers.
  The first document is new and takes pages and annotations; two were tagged by
  another program, whose tree counts as unknown until it is replaced.

### Fairness

`XRefChain` and `ValidationRun` state it: `WF_vars(Reader)` and
`WF_vars(Running)`. Both calls run on the caller's goroutine and wait for
nothing, so each enabled step is taken; nothing is assumed of `Cancel`. `Terminates`
of each needs it and nothing else does. A caller need never make another call,
so the other modules have no liveness.

## 4. What is proved

The TLA+ proof system checks these for every value of the constants.

`DocLifecycle_proofs`: `TypeCorrect` (`Spec => []IInv`), `FileStaysSound`
(`[]FileSound`: coherent, nothing hollow, no stale dictionary),
`KeepsSignatures` (`SignaturesKept`). From
`ConstantsAssumption` (the page is an object, the empty password is a password,
every key has one password and one `/ID` binding), `DistinctAssumption` (the
sentinels differ from the things they stand beside) and
`ForeignFilesAssumption` (the files handed to the program agree with their own
trailers). None of the properties about `file` is inductive: a writer's output
is right because of what is in memory. `IInv` therefore adds `DocSound(doc)`:
the `Encrypted` flag agrees with the trailer; a handler is the trailer's and
its `/ID` the one its key was derived with; what is in memory has no layer
unless the document is Locked, and then exactly its file's; an empty piece is a
recorded failure; and the `Source` record is itself a sound file, which is what
an update relies on. One lemma per writer, encryption call and edit shows that
it keeps the part of `IInv` it touches.

`KeepsPromise` (`Spec => ImplementsPromise`, the refinement of `DocPromise`)
follows, with one lemma for each step that names the step of the promise it is,
or shows that it is none. `IInv` is what makes an update of a few objects one:
the ones it does not list are still in the file under the key the trailer
declares. It has to be strengthened by `Sourced`, that a document with objects
it could not unpack has a `Source`: an update of such a document carries them
along in the source's bytes, a full write refuses. `NothingAssumption` says that
what stands for no document is not the record of one.

`Editing_proofs`, of `IncrementalUpdate`: `Agreement` (`Spec => []IInv`), `HandsOutFresh`
(`NumbersFresh`), `StatesItsSize` (`SizeCovers`) and `KeepsTheStore`
(`ImplementsStore`, the refinement of `ObjectStore`), for files of any sections
and any highest number, from `BoundsAssumption` and `FilesAssumption`: a file has
a section that can be read, and each number it has ever used is one
`Source.finish` counts or is below the `/Size` of a section that is read. A file
whose unread section used a number that only a compressed object had, and that no
`/Size` covers, is left out, since nothing in what is read tells of that number.
`IInv` says that `src` is the record of its file, that both files count their
numbers, and that the allocator is above the file and above all it has handed
out; that a written file counts its numbers is what makes it inductive. For
the refinement, a full write numbers its containers and its cross-reference
stream past every object, so that no object is hidden by them; an update leaves
every container where it was, since it refuses a container's number
(`isContainer`), and so what is packed is still supplied.

Of `StructureTree`: `NeverRefusedLate` (`RefusedBeforeWriting`),
`TypesStayDefined` (`TypesDefined`) and `MarksAlwaysLead` (`MarksLeadToOwners`), for any
trees over any pages, forms and annotations, from `StructureAssumption` (these are
finite sets apart, the elements of a tree numbered from 1) and `StartsAssumption`
(a document is read with indices only on what is on its pages: an index on an
annotation that no page lists would never be cleared). `TreeInv` says that the tree in
the document is the one asked for, with no more than some top Documents moved
into the namespace, and keeps of `Accepted` what outlives a change of version.
`IndexInv` says that an index is the key of what the tree claims content on and
that nothing else has one; to clear it needs that an index is only ever on what
is on the pages, which grow. That clearing leaves none is where the walk of the
resources must meet every form a page draws, and `MarksAlwaysLead` has that as its
hypothesis, `WalkFindsAll`, on the constants alone; the module of the run evaluates
it for its documents (`NestedIsWalked`). It fails for a page that inherits its
resources (`StructureInherited.cfg`, section 5), and for one whose dictionary is
first met at the nesting limit.

`Reading_proofs`, of `XRefChain`: `TypeCorrect` (in particular the entry budget is never
overdrawn), `ReadsTheChain` (`ChainLinks`), `WholeChain` (`UnbrokenComplete`),
`TrailerThere` (`NewestPresent`: the walk that is used has a section, whose
trailer is taken without asking), `CancelEndsRead` (`NothingInterrupted`), for
every set of files of any size and every window, from `WindowAssumption` and
`FilesAssumption`. The strengthening is `WalkInv`: where the next section is
stated to be is where the last one's `/Prev` leads; every visited place is
accounted for by a section read (as stated or as relocated to), which is what
makes "already visited" mean "leads back into the chain"; a walk that returns
nothing has a reason; an interrupted parse means the context is done.
`NewestEntry` (`NewestWins`) and `ReasonKept` (`DeclineKept`) rest on `TableInv`
as well: a chain given up keeps the reason it was given up for, and in the table
built so far every number the sections merged mention, in use or free, has what
the newest of them says of it. No run checks `DeclineKept`, nor `DefinitionsKept`
below.

`Reading_proofs`, of `ReadLadder` (which shares no name with `XRefChain`, so
that one module can extend both): `ReadsOn` (`LadderSpec => []LadderInv`),
`Recovers` (`RecoversSame`), `Layered` (`LayersAgree`) and `ToldOf`
(`MissingTold`), for files of any number of objects, numbers, containers and
trailers, that are of the shape `IsInput` states: the offsets are those of a
finite sequence, the chain places finitely many numbers, and only a trailer or a
cross-reference stream has a `/Root`. The five parts of `LadderInv` say what is
true half-way: the table is the chain's until the file is scanned, and then the
scan's (`LocatedInv`); the trailer is the latest that can be used
(`TrailerInv`); what is loaded is all of the table that parses (`LoadInv`); a
value has been decrypted or is as the file has it (`LayerInv`); and every
container visited gave what it holds outside the table or is recorded
(`UnpackInv`). That the scan gives the table a true chain gives is
`TopIsContent` and `PackedIs`, which rest on the latest definition of a number
being the greatest of its offsets (`MaxIs`). The proofs asked two things of the
hypotheses that no file of the run had shown: a chain that reads must name the
catalog of the latest trailer (`TableTrue`), and a cross-reference stream that
is superseded or does not parse is no trailer a scan could take (`Trailers`).
`Layered` says of a decrypted document what `Told` does: each value is in the
clear, or the number it was decrypted under is among the failures (`PeelTells`),
for each cipher and however many numbers share what. `Told` makes three
exceptions, where the code has nothing to tell by: a damaged value under RC4, an
array that numbers share, and a value decrypted with a key not its own because
the table gives its place first to another number. The last two are in section 5.

`Source_proofs`, of `ObjStmLoad`: `Invariance` (`Spec => []IInv`), `NumbersAgree`
(`RightObject`), `BlameIsJust` (`BrokenIsFilesFault`), `MissingIsRecorded`
(`NothingSilentlyMissing`), `FirstDefinitionStays` (`DefinitionsKept`) and
`WithinTheLimit` (`MemoryBounded`), for any
number of containers of any content and any budgets, from `TopAssumption` and
`FilesAssumption`. None of them is inductive: the objects of the open container
are neither defined nor reported until they are taken. `LoadInv` says what is
in between: an object still to be taken belongs to the open container and is
not defined, no container is opened twice, a container in trouble is so by the
file's fault, and every object the table places in a container that was visited
is defined, still to be taken, or accounted for by that container's trouble.
`WithinTheLimit` needs `MeterInv`: what the objects unpacked so far cost and what
the meter has left are together no more than the limit. The cost is a fold over
a set that grows, and that one more object adds its own cost to it is proved by
induction on finite sets.

`Source_proofs`, of `SignatureReview`: `ContentsAreRead` (`ReviewSpec =>
[]FileInv`), `ComparisonIsExact` (`EveryChangeSeen`) and `SeenIsSigned`
(`WhatIsSeenIsSigned`), for any files that satisfy `BasesAssumption` and any
number of updates, in any order, by this library and by others.

* `FileInv` ties the two accounts of a file together: the bytes, part by part,
  and what a reader of the first `k` parts finds. For every `k`, merging the
  sections of those parts and reading each entry (through its container when it
  has one) gives `content[k]`, and an entry two states share leads to the same
  bytes. Each way a file grows has a lemma that it writes an edit of what is there
  (`IsEdit`), and one lemma, `WriteIs`, says that an edit written, packed or not,
  is read back.
* `ReviewInv` adds what a comparison finds. That nothing can differ where the
  code looks no further (`SameBytesBefore`) rests on a file being only appended
  to: what ends before the revision does was there when it was made. That
  nothing else is compared amiss rests on `SectionsBefore` being the sections of
  the revision's parts, which is where the markers come in: the end of a section
  is never before the section.
* `SeenInv` is `ReviewInv` with two facts about time. No number is given again
  (`NoneAgain`), so that a field is signed once and its value stays the signature
  it was given; and of a signature judged intact, what the signer saw is what is
  there, but for what later signatures drew (`AllSeen`), and those were judged
  before it and are intact themselves. The second is why the order of judging
  matters: with `OldestFirst` a signature could vouch before it was judged.

`OrdinaryIsIntact` is the converse (`ReviewSpec => []OrdinaryKeepsIntact`): in a
file that only signing, time-stamping and archiving updated, in any number and
order and as far as its certification and its locks allow, every signature is
intact once all are judged, unless the comparison was given up. It alone takes
`SoundAssumption`: nothing in a base is damaged, it is not certified, and its
form lists no field under a number still to be given. `OrdinaryInv` is `SeenInv`
with two more parts that hold while no update was odd.

* `OrdinaryFile`: every object of every part is read, every update is closed by
  its marker, and what is there now is `Later` than what any signer saw. `Later`
  is what such updates may leave different between two states: the catalog gained
  a form or a store, the form and the page gained fields made since, an empty
  field no signature locked was signed, and all else that is new hangs from a new
  number. It is transitive (`LaterTrans`), so each update need only be shown to be
  one step of it.
* `OrdinaryVerdicts`: every signature found is valid, has a revision, and once
  judged is allowed. The latest are judged first, so when one is judged those
  after it vouch for what they drew and referred to; and every rule of
  `changes.go` then admits what `Later` leaves different (`Ordinarily`), so that
  `Explained` is all of it.

`Building_proofs`, of `ContentBuilder`: `Followed` (`ReaderFollows`, the refinement of
`ContentReader`), `FlagsTogether` (`Spec => []Inv`) and `GivenComplete`
(`[]BytesComplete`), for any nesting depth, any bound on marked content and any
fonts, patterns and colours, from `BuilderAssumption`. `ReaderFollows` needs
`Inv`: `q` is refused at the depth the Builder counts, so that count has to be
the length of what it saved; `ET` is refused by `marked` and `textFloor`, so the
floor has to be below what is open; a span still to be written is inside a text
object that no call may end meanwhile. One lemma for each kind of call shows that
it keeps `Inv` and that the reader takes the operator it wrote, or that it wrote
none.

`Building_proofs`, of `PageImport`: `ImportSound` (`ImportSpec => []ImportInv`),
`PagesKeptApart` (`PagesApart`), `LinksKept` (`LinksLead`) and `LayersKept`
(`HiddenStays`), for sources of any objects and layers, any targets and any
requests, from `ImportAssumption`. It states the shape of a source
(`IsDocument`): only a link or an action has a destination, `/A` is one action
and no link, an annotation is no page and no action, and what a page draws with
is nobody's annotation or parent (the case at the end of section 5 is where it
is); and that a target's layers are objects of its own, and its `/Count` is its
pages or visibly wrong, as `appendToPageTree` takes it. None of the three
properties is inductive, since all are about the end. `ImportInv` says what is
true half-way: what `collectBound` found is what the pages list, each key with a
page that lists it, and no field among what pages draw with (`BoundInv`); a
number is given only to what is carried, and a page's only to one asked for; a copy with a value has the
one `copyDict` makes and all its references have numbers; and one without is on
the list, is a page still to come, or is nothing in the source (`CopyInv`). That
an annotation is shown for one repetition of its page only is then a matter of
what its number is made of; that a link is left out only when it leads nowhere
is the definition of `dropsOut`, which one step of unfolding settles because an
action is no link (`DropsOutIs`). `Only`, `Numbered` and `Above` are written as
they are so that they can be reasoned about: a function with a rank for an
index, one function for both kinds of number, and the least closed set.

`FormsSound` (`ImportSpec => []TreeInv`) and `FormsKept` (`FormTree`) are the same
for the form, with fields nested to any height. They rest on `FormAssumption` as
well: in a source (`IsFormed`) a field and its kids name each other both ways, no
node is over itself, nothing else has kids or is under a field, and a page lists
no field that is not a widget. `collectBound` gives up after 64 levels, which
the model does not count: sources are taken to nest less. `TreeInv`, checked by
TLC in the run's bounds before it was proved, adds to `ImportInv` what is true of
the form half-way: what is bound is the widgets the pages asked for list and all
that is over them, and the roots are the highest of those, each once
(`RootsInv`); a copy keeps the name of its source until the form is joined
(`NamesInv`), so that the name `uniqueFieldName` starts from is the source's;
and once it is joined every root is in it under a name of its own and has its
value already, so no later step writes it over (`FormInv`). At the end, since
what is bound is closed upwards, every bound field has its copy, under the copy
of what it was under (`HeldIs`) and with the copies of its bound kids (`KidsAre`);
`Over` is then the line of copies from a widget to its root (`OverIs`, by
taking a highest copy for which it would not be), all of it bound
(`LineBound`). That `uniqueFieldName` ends at a name nobody has is a count: one
suffix more than there are names taken (`UniqueIs`).

`FileWriter_proofs`: `Invariance` (`Spec => []Inv`), `NeverWhole`
(`ErrorNeverWhole`) and `SavePromised` (`SaveKeepsPromise`, the refinement of
`SavePromise`), for any documents and any size of container, from
`DocsAssumption`. `Inv` ties the buffer to the phase: nothing that ends a file is
serialized before the last step, which nothing can follow; `Save` of a document
with a claim leaves the caller's writer empty up to the verdict, and what it
copies after it is a whole file no proper part of which ends as one. That last
fact is why a writer that fails half-way never leaves a whole file.
`WhatNilMeans` (`NilMeansWritten`) is about what was written: every object the
document had when it was read is found by the section and reads back, packed only
where a reader can undo it. It adds `SizesAssumption` and
`RoomAssumption`, that a container has room for a line of its index
(`objStmMaxRaw` is half of what a reader lets a stream decode to); the set of
objects a write reaches and the cutting of candidates into containers are
recursive functions, reasoned about by well-founded induction.

`ValidationRun_proofs`: `Invariance` (`Spec => []Inv`) and `StopsWhereTold`
(`StopsInTime`: within one budget, and within a poll of the context's end), for
files that embed each other to any depth or in a circle, any budget and any poll
interval, from `FileAssumption` and `BoundsAssumption`. Neither part is inductive, because a run goes
on after the budget is gone: what is left must do no charged work. `MeterInv`
says that a meter that is not spent is within the budget and that its next look
at the context is less than a poll away; `StackInv` that every run below the last
waits in an embedded-file check, and that the last is in no search once the meter
is spent.

`Truth` (`Spec => []FullInv`) is about what a run says: `AccusesOfWhatIs`
(`NoFalseAccusation`), `SaysAllUnlessTold` (`CompleteUnlessTold`) and
`SaysWhatStoppedIt` (`StopTold`, which no run checks). A finding so far is a
failing of its file, and a failing of a check that is over is found or some trip
is on record that says why not; of a run that waits for a nested one, this is said
up to the step at which it waits. What a file that embeds files is guilty of is
recursive in the depth they are read to, and the run that follows them is one
level of it.

`CommandOutput_proofs`: `Invariance` (`Spec => []Inv`), `PrivateAlways`
(`DecryptedPrivate`), `InputsSpared` (`InputsKept`) and `OutputPromised`
(`ImplementsOutput`, the refinement of `OutputPromise`), for any number of
commands, names, links to files and acts of other programs, from
`CommandsAssumption`, `NamesAssumption` and `DirectoriesAssumption`. `Inv` says
for each place of a command what is true of its temporary file (`Progress`), of
the name it is bound for (`Aimed`), of its mode (`Guarded`) and of its inputs
(`Apart`). The last is the delicate one: what the output's name leads to was
compared with the inputs once, and stays apart from them because all that is put
at a name meanwhile is a new file or the output of a command that had none, and
an output that is an input was read when it already had its name. One lemma,
`OthersKept`, shows that no step disturbs what holds of another command; the
others look only at the command that takes the step.

Every invariant and every action property of the runs is a theorem. Only
model-checked:

* `Terminates`, of `XRefChain` and of `ValidationRun`: liveness under fairness is
  outside what the prover does.

## 5. Where the code and its documentation part

These were met while modelling. TLC finds a short counterexample to each, with
the configuration named, which is to be run by hand (`tlc -config <cfg>
<module>`), or with a run's own configuration once the property named replaces
its properties; the runs of section 3 check what does hold.

* `StructureInherited.cfg`, `FormsLetGo`: `clearStructureIndices` looks for forms
  in the page's own `/Resources` (`structure.go` 856) and not in those it inherits
  from the page tree, as a page of a file that was read may. Such a form keeps its
  `/StructParents`, and its marks are attributed "to whichever element now has that
  slot" (`structure.go` 170), which clearing "every XObject its resources reach"
  (`structure.go` 167) is there to prevent. Two calls are enough: the tree that
  tags the form (or a file that has one) and one that does not.
* `Review.cfg` with `MissingContainerHoldsNothing`: an object stream that a
  state does not define is remembered as nil, and the second object looked up in it
  dereferences that nil (`signedfile.go` 354); `VerifySignatures` recovers and
  returns an error and no result. An update that frees an object stream and leaves
  the entries of two objects in it is enough.
* `LinksStay.cfg`, `LinksStay`: under `-force`, an output that is a symbolic link
  leading nowhere is replaced itself (`cmd/pdf0/files.go` 146: `EvalSymlinks`
  fails, so the link's own name is the target), where `docs/cli.md` 207 says
  that `-force` "replaces the file the link points to and keeps the link".
* `Ladder.cfg` with `SharedOnce`: an array that two object numbers share, by two
  entries with one offset, is decrypted once for each (`internal/crypt/crypt.go`
  936), where "a parsed value shared by several object numbers" (893) "must be
  decrypted at most once" and a dictionary or a stream is remembered as done. Under
  RC4 the second pass leaves noise and records nothing.
* `Ladder.cfg` with `EmptyNotNoise`: a value whose place the table gives to a
  number not its own, alone or before its own, takes that number (`document.go`
  688, 707), and is decrypted with the key derived from it (`internal/crypt/crypt.go`
  394 to 408, 905). Under RC4 what comes out is noise and no failure is recorded
  (429 to 436), where what could not be decrypted is to be "empty rather than
  noise" (`Pending.Finish`, 949); under AESV2 the padding tells, unless it happens
  to be one. Under AESV3 the key is the file's and the value comes out right.
* `LifecycleRawAdd.cfg`, `LockedCarriedThrough`: `Document.Add` (`document.go`
  1575) puts plaintext in a Locked document, and `Write` sends it out under the
  file's `/Encrypt`. The builders refuse (`pagetree.go` 34).
* `LifecycleSignedUpdate.cfg`, `OnlySignatureAppended`:
  `WriteSignedIncremental` appends the page as it is in memory (`sign.go` 425),
  so an edit to that page enters the signed update while other edits do not
  ("those bytes are preserved verbatim and only the" signature objects are
  appended, `sign.go` 248).
* `UpdateMaxNumber.cfg`, `MaxNumberHighest`: with a broken chain, an object
  that an unread section keeps in a container is not counted (`document.go`
  770), so `MaxObjectNumber` can be below a number the file defines
  (`source.go` 160).
* `UpdateSignedGeneration.cfg`, `UpdateSupersedes`: a form, page or catalog of
  a generation above 0 is rewritten as generation 0 by the signing update
  (`sign.go` 425, 449).
* `ScanStale.cfg`, `TopLevelNewer`: in a rebuilt file a top-level definition is
  kept over a later one in a container (`objstm.go` 248, 284).
* `Writing.cfg` with `CanceledSaveWritesNothing`: the context is not asked
  once `Save` copies its buffer to the caller's writer, and a document that
  claims nothing is written as `Write` writes it, so a cancelled `Save` may have
  written part of a file ("a cancelled Save writes nothing at all", `save.go`).
* `Ladder.cfg` with `CanceledReadTold`: a context that ends while the objects
  are loaded again by a scan makes `Read` return the first loading's error
  (`document.go` 336) and not the context's.

And one that no configuration here meets, since its inputs are left out of
`MCPageImport`: an annotation of a page asked for once, which a page asked for
twice refers to as its own, is copied a second time for a page that is not
there (`pageimport.go` 422), though a copy is bound to "a page" by `boundKey`
(`pageimport.go` 132).

## 6. Not modelled, and what comes next

Limits of the modules there are:

* `SignatureReview`: kids of a new field, `/Fields` or `/Annots` in an array of
  their own (`annotsArray`), `/VRI` in the security store, the hidden and
  no-view flags, a trailer whose `/Root`, `/Encrypt` or `/Info` changes, files
  read by a scan (for which there is no comparison), a `/Length` held in another
  object, and the checks that a byte range leaves out its own `/Contents` and
  nothing more. Trust, revocation and time-stamps do not take part in the
  verdict on changes. The comparison's budget is not counted: it may run out at
  any signature, and stays spent.
* `PageImport`: a document appended to itself, `/DR`, `/CO` and
  `/NeedAppearances`, annotations written inside their page, resources promoted
  from a direct dictionary, named destinations, cycles of `/Parent` or of actions,
  and the counts of the report. `NewPage` and the page builders add a page whole
  and are `Store` in `DocLifecycle`.
* `StructureTree`: a direct `/Annots` entry, generations, `/Tabs`, the content of
  attributes; a refused or Locked target is a call that does nothing. A form a
  tree names is taken to be one its page draws, as `FormMCIDKid` asks, and no
  dictionary of resources is first met at the nesting limit and again above it
  (`clearXObjectStructParents` would not enter it a second time).
* `ReadLadder`: the generation, which takes part in a key as the number does; a
  file has one cipher, so no stream has a crypt filter of its own.
* `ContentBuilder`: whether the operands of `scn` suit the space: `SetColor` and
  `SetPattern` do not look (`content/graphics.go` 368, 415), and neither does the
  reader, except in an uncoloured pattern space.
* `FileWriter`: the digits of a section and the syntax of an object; that what
  is packed is parsed back is taken from the parser.
* `ValidationRun`: what a check looks for; the cache of a run
  (`runcache.go`), which memoises values of a document that does not change.
* `CommandOutput`: under `-force` the output is compared with the inputs once,
  before the work, so another program that moves an input onto the output's name
  meanwhile would see it replaced; `OtherProgram` only makes and removes files.
  Links lead to files, not to links; directories as outputs, the terminal
  prompts and a failing `os.Remove` of the command's own temporary file are left
  out, and so are the commands that write nothing or many files.
* `XRefChain`: the parsing of one section, a pure function over bytes.

Not modelled at all: the lexer, the filters and the image decoders, fonts and
shaping, images, text extraction and HTML rendering are sequential functions of
their input whose states are not worth enumerating; the conformance rules are
several hundred predicates over a document that does not change, whose only
reference is the text of the standards; CMS, certificates and revocation are
parsing and cryptography. They are most of the repository's lines, which is why
the lines the map covers are a small part of it.

Next, in order of weight: the free ranges of a section (`xref.go`: `addFree`,
`normalizeFree`, `IsFree`) against the set they stand for; the 64 levels of
`collectBound`, and forms that are not well formed, in `PageImport`.
