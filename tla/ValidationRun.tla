---------------------------- MODULE ValidationRun ----------------------------
(***************************************************************************)
(* A PDF/A validation run: the checks it runs one after the other, each    *)
(* behind a boundary of its own, the work meter they all charge, which ends *)
(* a check by unwinding it, and the runs nested in it, one for every       *)
(* embedded PDF, which share that meter, the caller's context and one      *)
(* budget of embedded documents.  The context may end at any moment.       *)
(***************************************************************************)
EXTENDS Integers, Sequences, FiniteSetsExt

CONSTANTS
    File,           \* file name -> what the file is, embedded ones included
    Tops,           \* the files a caller validates
    WorkLimits,     \* the work budgets a caller may set
    MaxCost,        \* the most one charge takes
    Poll,           \* meterPoll: the units between two polls of the context
    MaxDepth,       \* MaxEmbeddedDepth: the levels of embedding followed
    MaxTrips,       \* MaxRecordedTrips: the trips one recorder keeps
    EmbeddedDocs,   \* maxEmbeddedPDFADocs: the embedded documents of a run
    EmbeddedBytes   \* and their bytes together

\* What an embedded file's stream comes to for the rule that follows it; only a
\* "document" can be validated.
Data == {"document", "declined", "malformed", "not PDF", "unreadable",
         "over a limit", "no claim", "metadata limit"}

\* A step of a check.  Of a search: an item that is what the check looks for or
\* is not, one pdf0 declined to read, one nested too deep, one the check fails
\* on.  Of the embedded-file rule: the name of an embedded file.
Items == {"good", "other", "declined", "deep", "fault"}
IsCheck(c) ==
    /\ c.kind \in {"search", "embedded"} /\ c.byte \in BOOLEAN
    /\ c.steps \in Seq([item : IF c.kind = "search" THEN Items ELSE DOMAIN File,
                        cost : 0..MaxCost])

IsFile(f) ==
    /\ f.data \in Data
    /\ f.size \in Nat
    /\ f.part \in {1, 2, 3}
    /\ f.read \in BOOLEAN            \* it has a source file to judge
    /\ f.limited \in BOOLEAN         \* a guard tripped while it was read
    /\ Len(f.checks) \in Nat
    /\ \A i \in 1..Len(f.checks) : IsCheck(f.checks[i])

ASSUME FileAssumption ==
    /\ \A n \in DOMAIN File : IsFile(File[n])
    /\ Tops \subseteq {n \in DOMAIN File : File[n].data = "document"}

ASSUME BoundsAssumption ==
    /\ WorkLimits \subseteq Nat \ {0}
    /\ Poll \in Nat \ {0} /\ MaxCost \in Nat
    /\ MaxDepth \in Nat
    /\ MaxTrips \in Nat \ {0}
    /\ EmbeddedDocs \in Nat
    /\ EmbeddedBytes \in Nat

VARIABLES
    top,        \* the file the caller validates
    lowered,    \* the caller's limits are not the defaults
    canceledAt, \* the work done when the context ended, or -1
    meter,      \* the work meter of the outermost run
    budget,     \* embeddedBudget: documents and bytes still to be taken
    stack,      \* the runs in progress, the outermost first
    report      \* what the outermost run returned

vars == <<top, lowered, canceledAt, meter, budget, stack, report>>

Canceled == canceledAt >= 0

-----------------------------------------------------------------------------
(* The meter and the recorder.                                              *)

Smaller(a, b) == IF a < b THEN a ELSE b

\* With the budget alone looked at, and the context not before it is spent.
NewMeterUnpolled(limit) ==
    [limit |-> limit, used |-> 0, dead |-> "no", nextPoll |-> limit + 1]

NewMeter(limit) ==
    [limit |-> limit, used |-> 0, dead |-> "no", nextPoll |-> Smaller(Poll, limit + 1)]

Spent(why) == [meter EXCEPT !.dead = why, !.nextPoll = 0]

\* With the budget looked at only when the context is not done.
ChargedPollOnly(n) ==
    LET m == [meter EXCEPT !.used = @ + n]
    IN  IF m.used < m.nextPoll \/ m.dead # "no" THEN m
        ELSE IF Canceled THEN [m EXCEPT !.dead = "canceled", !.nextPoll = 0]
        ELSE [m EXCEPT !.nextPoll = m.used + Poll]

\* Charge: n units are taken, and past the next poll the budget and then the
\* context are looked at.
Charged(n) ==
    LET m == [meter EXCEPT !.used = @ + n]
    IN  IF m.used < m.nextPoll \/ m.dead # "no" THEN m
        ELSE IF m.used > m.limit THEN [m EXCEPT !.dead = "work", !.nextPoll = 0]
        ELSE IF Canceled THEN [m EXCEPT !.dead = "canceled", !.nextPoll = 0]
        ELSE [m EXCEPT !.nextPoll = Smaller(m.used + Poll, m.limit + 1)]

\* The charge does not return.
Unwinds(n) == meter.used + n >= meter.nextPoll /\ Charged(n).dead # "no"

\* Canceler.Stopped, for the loops.
Stopped == meter.dead # "no" \/ Canceled

\* With the trips past the cap forgotten.
NotedUpTo(r, trip) ==
    IF Cardinality(r.trips) >= MaxTrips THEN r
    ELSE [r EXCEPT !.trips = @ \cup {trip}]

\* Recorder.Note: a repeat is ignored, and past the cap trips are only counted.
Noted(r, trip) ==
    IF trip \in r.trips THEN r
    ELSE IF Cardinality(r.trips) >= MaxTrips THEN [r EXCEPT !.dropped = TRUE]
    ELSE [r EXCEPT !.trips = @ \cup {trip}]

Snapshot(r) == r.trips \cup IF r.dropped THEN {<<"overflow", 0>>} ELSE {}

-----------------------------------------------------------------------------
(* The runs in progress.                                                    *)

NotNested == [state |-> "none", refusable |-> FALSE, sound |-> FALSE, complete |-> FALSE]

\* A run over file n: the check and the step of it the run is at (no step
\* between checks), what the check has found so far, what the run has, and what
\* it waits to learn of an embedded document.
NewRun(n) ==
    [file |-> n, at |-> 1, step |-> 0,
     good |-> FALSE, declined |-> FALSE, found |-> FALSE,
     errs |-> {}, limits |-> [trips |-> {}, dropped |-> FALSE],
     nested |-> NotNested]

Depth == Len(stack) - 1
Run == stack[Len(stack)]
Checks(r) == File[r.file].checks
Check == Checks(Run)[Run.at]
Step == Check.steps[Run.step]

Init ==
    /\ lowered \in BOOLEAN
    /\ canceledAt = -1
    /\ \E limit \in WorkLimits : meter = NewMeter(limit)
    /\ budget = [docs |-> EmbeddedDocs, bytes |-> EmbeddedBytes]
    /\ top \in Tops
    /\ stack = <<NewRun(top)>>
    /\ report = {}

Becomes(r) == stack' = [stack EXCEPT ![Len(stack)] = r]

\* The next check, whatever became of this one.
Past(r) ==
    [r EXCEPT !.at = @ + 1, !.step = 0, !.good = FALSE, !.declined = FALSE,
              !.found = FALSE, !.nested = NotNested]

\* With an unwound check asserting what its partial walk suggests.
UnwoundKeeping(r) ==
    Past(IF ~r.good THEN [r EXCEPT !.errs = @ \cup {<<"violation", r.at>>}] ELSE r)

\* With a check that failed run again.
UnwoundRetried(r) == [Past(r) EXCEPT !.at = r.at]

\* An unwound check reports nothing.
Unwound(r) == Past(r)

\* With the trip noted by the nested run that met it.
StoppedForNested(why) ==
    LET s == [stack EXCEPT ![Len(stack)] = Unwound(@)]
    IN  stack' = IF why = "canceled" THEN s
                 ELSE [s EXCEPT ![Len(stack)].limits = Noted(@, <<why, 0>>)]

\* The meter stopped the run: the trip is noted where the meter began, in the
\* outermost run, unless it is the context that ended.
StoppedFor(why) ==
    LET s == [stack EXCEPT ![Len(stack)] = Unwound(@)]
    IN  stack' = IF why = "canceled" THEN s
                 ELSE [s EXCEPT ![1].limits = Noted(@, <<why, 0>>)]

\* One charge of n units, and what the check does when it returns.
Charge(n, r) ==
    /\ meter' = Charged(n)
    /\ IF ~Unwinds(n) THEN Becomes(r)
       ELSE IF meter.dead = "no" THEN StoppedFor(meter'.dead)
       ELSE Becomes(Unwound(Run))

-----------------------------------------------------------------------------
(* validateView: the loop over the checks.                                  *)

Working == stack # <<>>
Between == Working /\ Run.step = 0 /\ Run.at <= Len(Checks(Run)) /\ ~Stopped
Within(kind) ==
    /\ Working /\ Run.step # 0 /\ Run.nested.state = "none"
    /\ Check.kind = kind

\* The byte-level rules need a source file; without one the run says so.
BeginCheck ==
    /\ Between
    /\ Check.byte => File[Run.file].read
    /\ Becomes([Run EXCEPT !.step = 1])
    /\ UNCHANGED <<top, lowered, canceledAt, meter, budget, report>>

NoSourceFile ==
    /\ Between
    /\ Check.byte /\ ~File[Run.file].read
    /\ Becomes([Run EXCEPT !.at = Len(Checks(Run)) + 1,
                           !.limits = Noted(@, <<"no source file", 0>>)])
    /\ UNCHANGED <<top, lowered, canceledAt, meter, budget, report>>

-----------------------------------------------------------------------------
(* runCheck: a check that searches what it walks.                            *)

Advanced == [Run EXCEPT !.step = @ + 1]

\* An item is visited: it may be what the check is looking for, or one pdf0
\* declined to read, which is noted and leaves the check nothing to assert.
Visit ==
    /\ Within("search") /\ Run.step <= Len(Check.steps)
    /\ Step.item \in {"good", "other", "declined"}
    /\ Charge(Step.cost,
              CASE Step.item = "good" -> [Advanced EXCEPT !.good = TRUE]
                [] Step.item = "declined" ->
                     [Advanced EXCEPT !.declined = TRUE,
                                      !.limits = Noted(@, <<"declined", Run.at>>)]
                [] OTHER -> Advanced)
    /\ UNCHANGED <<top, lowered, canceledAt, budget, report>>

\* Descend: a walk past the depth guard stops the run as a spent budget does.
TooDeep ==
    /\ Within("search") /\ Run.step <= Len(Check.steps)
    /\ Step.item = "deep"
    /\ meter' = Spent("walk-depth")
    /\ StoppedFor("walk-depth")
    /\ UNCHANGED <<top, lowered, canceledAt, budget, report>>

\* A check that fails costs its own rule and no other.
Fault ==
    /\ Within("search") /\ Run.step <= Len(Check.steps)
    /\ Step.item = "fault"
    /\ Becomes([Unwound(Run) EXCEPT !.errs = @ \cup {<<"internal", Run.at>>}])
    /\ UNCHANGED <<top, lowered, canceledAt, meter, budget, report>>

\* With a walk that missed something asserting all the same.
AssertsAlways(r) == ~r.good

\* What the check asserts once its walk is over.
Asserts(r) == ~r.good /\ ~r.declined

EndCheck ==
    /\ Within("search") /\ Run.step > Len(Check.steps)
    /\ Becomes(Past(IF Asserts(Run)
                    THEN [Run EXCEPT !.errs = @ \cup {<<"violation", Run.at>>}]
                    ELSE Run))
    /\ UNCHANGED <<top, lowered, canceledAt, meter, budget, report>>

-----------------------------------------------------------------------------
(* checkEmbeddedPDFA: the rule that validates what is embedded.              *)

Embedded == File[Step.item]

\* The loop ends with the last file, or as soon as the run is stopped.
EndEmbedded ==
    /\ Within("embedded")
    /\ Run.step > Len(Check.steps) \/ Stopped
    /\ Becomes(Past(IF Run.found
                    THEN [Run EXCEPT !.errs = @ \cup {<<"violation", Run.at>>}]
                    ELSE Run))
    /\ UNCHANGED <<top, lowered, canceledAt, meter, budget, report>>

\* With the depth of the embedding not looked at.
NestedNever == FALSE

TooNested == Depth >= MaxDepth

Following ==
    Within("embedded") /\ Run.step <= Len(Check.steps) /\ ~Stopped

\* A stream pdf0 declined to decode is noted where it was declined; one that is
\* malformed, or no PDF, is a finding; one too deep is noted.
NotFollowed ==
    /\ Following
    /\ \/ /\ Embedded.data = "declined"
          /\ Becomes([Advanced EXCEPT !.limits = Noted(@, <<"declined", Run.at>>)])
       \/ /\ Embedded.data \in {"malformed", "not PDF"}
          /\ Becomes([Advanced EXCEPT !.found = TRUE])
       \/ /\ Embedded.data \notin {"declined", "malformed", "not PDF"}
          /\ TooNested
          /\ Becomes([Advanced EXCEPT !.limits = Noted(@, <<"embedded", Run.at>>)])
    /\ UNCHANGED <<top, lowered, canceledAt, meter, budget, report>>

\* With a document the budget does not cover called non-compliant.
JudgedOverBudget == [NotNested EXCEPT !.state = "judged", !.complete = TRUE]

\* The verdict on a document the budget does not cover.
OverBudget == [NotNested EXCEPT !.state = "judged"]

\* The embedded document is charged to the budget of the whole tree, and
\* whether a failure to read it could be the checker's doing is decided before
\* the read.
TakeEmbedded ==
    /\ Following
    /\ Embedded.data \notin {"declined", "malformed", "not PDF"}
    /\ ~TooNested
    /\ \/ /\ budget.docs > 0 /\ Embedded.size <= budget.bytes
          /\ budget' = [docs |-> budget.docs - 1, bytes |-> budget.bytes - Embedded.size]
          /\ Becomes([Run EXCEPT !.nested =
                        [NotNested EXCEPT !.state = "reading",
                                          !.refusable = (Canceled \/ lowered)]])
       \/ /\ ~(budget.docs > 0 /\ Embedded.size <= budget.bytes)
          /\ Becomes([Run EXCEPT !.nested = OverBudget])
          /\ UNCHANGED budget
    /\ UNCHANGED <<top, lowered, canceledAt, meter, report>>

\* With a failed read always held against the file.
FailedReadFound == [NotNested EXCEPT !.state = "judged", !.complete = TRUE]

\* The verdict when the document was not read, or claims no level.
FailedRead == [NotNested EXCEPT !.state = "judged", !.complete = ~Run.nested.refusable]

\* The read, under the same context, meter and limits.  A limit the caller
\* lowered may be what a document exceeds that is otherwise sound.
ReadEmbedded ==
    /\ Working /\ Run.nested.state = "reading"
    /\ \/ /\ Stopped
          /\ Becomes([Run EXCEPT !.nested = FailedRead])
          /\ UNCHANGED meter
       \/ /\ ~Stopped
          /\ \/ /\ Unwinds(Step.cost)
                /\ Charge(Step.cost, Run)
             \/ /\ ~Unwinds(Step.cost)
                /\ meter' = Charged(Step.cost)
                /\ \/ /\ \/ Embedded.data = "document"
                         \/ Embedded.data = "over a limit" /\ ~lowered
                      /\ stack' = Append(stack, NewRun(Step.item))
                   \/ /\ Embedded.data = "metadata limit"
                      /\ Becomes([Run EXCEPT !.nested = OverBudget])
                   \/ /\ \/ Embedded.data \in {"unreadable", "no claim"}
                         \/ Embedded.data = "over a limit" /\ lowered
                      /\ Becomes([Run EXCEPT !.nested = FailedRead])
    /\ UNCHANGED <<top, lowered, canceledAt, budget, report>>

\* With the verdict believed whatever has happened since.
StoppedNever == FALSE

\* CheckStopped: the run was stopped while the document was validated.
StoppedMeanwhile == Stopped

\* PDF/A-2 admits only documents of parts 1 and 2.
Admits(outer, inner) == outer.part = 2 => inner.part \in {1, 2}

\* The verdict comes back: unless the run was stopped meanwhile, a complete one
\* is a finding and an incomplete one is noted.
Judge ==
    /\ Working /\ Run.nested.state = "judged"
    /\ \/ /\ StoppedMeanwhile
          /\ meter' = IF meter.dead = "no" THEN Spent("canceled") ELSE Spent(meter.dead)
          /\ Becomes(Unwound(Run))
       \/ /\ ~StoppedMeanwhile
          /\ Becomes([Advanced EXCEPT
                        !.nested = NotNested,
                        !.found  = @ \/ (Run.nested.complete
                                         /\ ~(Run.nested.sound
                                              /\ Admits(File[Run.file], Embedded))),
                        !.limits = IF Run.nested.complete THEN @
                                   ELSE Noted(@, <<"embedded", Run.at>>)])
          /\ UNCHANGED meter
    /\ UNCHANGED <<top, lowered, canceledAt, budget, report>>

-----------------------------------------------------------------------------
(* The end of a run.                                                         *)

\* With the trips of the read left out.
ReadTripsNever(r) == {}

ReadTrips(r) == IF File[r.file].limited THEN {<<"read", 0>>} ELSE {}

\* runLimitTrips: the trips of the read, the run's own, and the context's, looked
\* at now.
Findings(r) ==
    r.errs \cup {<<"limit", t>> : t \in ReadTrips(r) \cup Snapshot(r.limits)
                                      \cup IF Canceled THEN {<<"canceled", 0>>} ELSE {}}

CheckerFindings(fs) == {f \in fs : f[1] \in {"limit", "internal"}}

\* With a nested run's findings counted one and all.
VerdictOnAny(fs) == [NotNested EXCEPT !.state = "judged", !.complete = TRUE, !.sound = fs = {}]

\* What the embedded-file rule makes of a nested run's report.
Verdict(fs) ==
    [NotNested EXCEPT !.state    = "judged",
                      !.complete = (CheckerFindings(fs) = {}),
                      !.sound    = (fs \ CheckerFindings(fs) = {})]

Report ==
    /\ Working /\ Run.step = 0
    /\ Run.at > Len(Checks(Run)) \/ Stopped
    /\ LET rest == SubSeq(stack, 1, Depth)
       IN  IF Depth = 0
           THEN stack' = rest /\ report' = Findings(Run)
           ELSE /\ stack' = [rest EXCEPT ![Depth].nested = Verdict(Findings(Run))]
                /\ UNCHANGED report
    /\ UNCHANGED <<top, lowered, canceledAt, meter, budget>>

-----------------------------------------------------------------------------
Cancel ==
    /\ Working /\ ~Canceled
    /\ canceledAt' = meter.used
    /\ UNCHANGED <<top, lowered, meter, budget, stack, report>>

Running ==
    \/ BeginCheck \/ NoSourceFile \/ Visit \/ TooDeep \/ Fault \/ EndCheck
    \/ EndEmbedded \/ NotFollowed \/ TakeEmbedded \/ ReadEmbedded \/ Judge
    \/ Report

Over == ~Working /\ UNCHANGED vars

Next == Running \/ Cancel \/ Over

\* A run is one goroutine that nothing else can block.
Spec == Init /\ [][Next]_vars /\ WF_vars(Running)
-----------------------------------------------------------------------------
(* Properties.                                                               *)

\* Every variable holds a value of its kind.
IsRun(r) ==
    /\ r.file \in DOMAIN File
    /\ r.at \in Nat \ {0} /\ r.step \in Nat
    /\ r.step # 0 => r.at <= Len(Checks(r))
    /\ {r.good, r.declined, r.found} \subseteq BOOLEAN
    /\ r.nested.state \in {"none", "reading", "judged"}
    /\ r.nested.state # "none" => r.step # 0
TypeOK ==
    /\ top \in Tops /\ lowered \in BOOLEAN
    /\ canceledAt \in Int /\ canceledAt >= -1 /\ canceledAt <= meter.used
    /\ meter.limit \in WorkLimits /\ meter.used \in Nat /\ meter.nextPoll \in Nat
    /\ meter.dead \in {"no", "work", "canceled", "walk-depth"}
    /\ budget.docs \in Nat /\ budget.bytes \in Nat
    /\ Len(stack) <= MaxDepth + 1
    /\ \A i \in 1..Len(stack) : IsRun(stack[i])

\* What is true of a file, whatever was or was not read of it: whether check i
\* holds of file n, when the documents embedded in it are judged by sound.
CheckHolds(n, i, sound) ==
    LET c == File[n].checks[i]
    IN  IF c.kind = "search" THEN \E j \in 1..Len(c.steps) : c.steps[j].item = "good"
        ELSE \A j \in 1..Len(c.steps) :
               LET e == File[c.steps[j].item]
               IN  /\ e.data \notin {"malformed", "not PDF", "unreadable", "no claim"}
                   /\ e.data \in {"document", "over a limit"} =>
                         sound[c.steps[j].item] /\ Admits(File[n], e)

\* The soundness of every file when what is embedded in it is followed for k
\* levels, itself included.
Sound[k \in 0..MaxDepth] ==
    [n \in DOMAIN File |->
        k = 0 \/ \A i \in 1..Len(File[n].checks) : CheckHolds(n, i, Sound[k - 1])]

Violated(n, depth) ==
    {<<"violation", i>> : i \in {j \in 1..Len(File[n].checks) :
                                    ~CheckHolds(n, j, Sound[MaxDepth - depth])}}

Accusations(fs) == {f \in fs : f[1] = "violation"}

\* No run, whatever stopped it and wherever, asserts a violation the file does
\* not have: nothing is concluded from a walk that was cut short, from a stream
\* that was not decoded, or from an embedded document that was not read.
NoFalseAccusation ==
    /\ Accusations(report) \subseteq Violated(top, 0)
    /\ \A d \in 1..Len(stack) :
         Accusations(stack[d].errs) \subseteq Violated(stack[d].file, d - 1)

\* A report with no checker finding in it is the whole truth: every check ran to
\* its end, at every level of embedding, and each violation is there.
CompleteUnlessTold ==
    ~Working /\ CheckerFindings(report) = {} => report = Violated(top, 0)

\* A run its meter stopped says which bound stopped it, however many other trips
\* were recorded first and however deep the run that reached it.
StopTold ==
    ~Working /\ meter.dead \in {"work", "walk-depth"} =>
        \E t \in {<<meter.dead, 0>>, <<"overflow", 0>>} : <<"limit", t>> \in report

\* All the work of a run and of the runs nested in it, together, is within the
\* budget of one, up to the charge that went past it.
WorkBounded == meter.used <= meter.limit + MaxCost

\* Once the context has ended, the run and those nested in it do no more work
\* than fits between two polls.
PromptStop == Canceled => meter.used < canceledAt + Poll + MaxCost

\* However deep the nesting, a run stops in time: for its budget and for its caller.
StopsInTime == WorkBounded /\ PromptStop

\* Every run ends, even over a file that embeds itself.
Terminates == <>~Working
=============================================================================
