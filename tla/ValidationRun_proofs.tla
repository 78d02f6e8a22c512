------------------------ MODULE ValidationRun_proofs ------------------------
(***************************************************************************)
(* For every set of files and every bound: the work of a run and of all the *)
(* runs nested in it is what one budget allows, and no more once the context *)
(* has ended; and what a run says of its file is true, whatever stopped it,  *)
(* and the whole truth unless it says why not.                             *)
(***************************************************************************)
EXTENDS ValidationRun, WellFoundedInduction, TLAPS

Endings == {"no", "work", "canceled", "walk-depth"}
Meters == [limit : Nat, used : Nat, dead : Endings, nextPoll : Nat]
Words == Endings \cup {"declined", "embedded", "no source file", "violation", "internal"}
Trips == Words \X Nat
Nested == [state : {"none", "reading", "judged"}, refusable : BOOLEAN,
           sound : BOOLEAN, complete : BOOLEAN]
Runs == [file : DOMAIN File, at : Nat \ {0}, step : Nat,
         good : BOOLEAN, declined : BOOLEAN, found : BOOLEAN,
         errs : SUBSET Trips,
         limits : [trips : SUBSET Trips, dropped : BOOLEAN],
         nested : Nested]

\* The meter: while it is not spent it is within the budget, and the next look at
\* the budget and at the context is less than one poll away.
MeterInv ==
    /\ meter \in Meters
    /\ canceledAt \in Nat \cup {-1}
    /\ meter.dead = "no" =>
         /\ meter.used < meter.nextPoll
         /\ meter.nextPoll <= meter.limit + 1
         /\ meter.nextPoll <= meter.used + Poll
         /\ Canceled => meter.nextPoll <= canceledAt + Poll

\* A run is inside a check or between two, and waits for a document only at a
\* step of an embedded-file check.
RunInv(r) ==
    /\ r \in Runs
    /\ r.step # 0 => r.at \in 1..Len(Checks(r))
    /\ r.nested.state # "none" =>
         /\ r.step # 0 /\ r.step <= Len(Checks(r)[r.at].steps)
         /\ Checks(r)[r.at].kind = "embedded"

NotSearching(r) == r.step = 0 \/ Checks(r)[r.at].kind = "embedded"

\* The runs: those below the last wait for the document they embed, and the last
\* is in no search once the meter is spent.
StackInv ==
    /\ stack \in Seq(Runs)
    /\ \A i \in 1..Len(stack) : RunInv(stack[i])
    /\ \A i \in 1..(Len(stack) - 1) : stack[i].nested.state # "none"
    /\ meter.dead # "no" /\ Working => NotSearching(Run)

Inv == MeterInv /\ StackInv /\ WorkBounded /\ PromptStop

-----------------------------------------------------------------------------
\* What a run is at is a check of its file.
LEMMA CheckTyped ==
    ASSUME NEW r, RunInv(r), r.step # 0
    PROVE  IsCheck(Checks(r)[r.at])
  <1>1. r.file \in DOMAIN File /\ r.at \in 1..Len(File[r.file].checks)
    BY DEF RunInv, Runs, Checks
  <1>2. IsFile(File[r.file])
    BY <1>1, FileAssumption
  <1> QED BY <1>1, <1>2 DEF IsFile, Checks

\* And a step of it has a cost, and names a file when the check follows files.
LEMMA StepTyped ==
    ASSUME NEW r, RunInv(r), r.step # 0, r.step <= Len(Checks(r)[r.at].steps)
    PROVE  /\ Checks(r)[r.at].steps[r.step].cost \in 0..MaxCost
           /\ Checks(r)[r.at].kind = "embedded" =>
                Checks(r)[r.at].steps[r.step].item \in DOMAIN File
  <1> DEFINE c == Checks(r)[r.at]
  <1>1. IsCheck(c)
    BY CheckTyped
  <1>2. r.step \in Nat
    BY DEF RunInv, Runs
  <1> HIDE DEF c
  <1> DEFINE Names == IF c.kind = "search" THEN Items ELSE DOMAIN File
             Steps == [item : Names, cost : 0..MaxCost]
  <1>3. c.steps \in Seq(Steps)
    BY <1>1 DEF IsCheck
  <1>4. c.kind = "embedded" => Names = DOMAIN File
    OBVIOUS
  <1> HIDE DEF Steps
  <1>5. r.step \in 1..Len(c.steps)
    BY <1>2, <1>3 DEF c
  <1>6. c.steps[r.step] \in Steps
    BY <1>3, <1>5
  <1> HIDE DEF Names
  <1>7. c.steps[r.step].item \in Names /\ c.steps[r.step].cost \in 0..MaxCost
    BY <1>6 DEF Steps
  <1> QED BY <1>4, <1>7 DEF c

\* The recorder keeps what it is given, or counts it.
LEMMA NotedTyped ==
    ASSUME NEW l \in [trips : SUBSET Trips, dropped : BOOLEAN], NEW trip \in Trips
    PROVE  Noted(l, trip) \in [trips : SUBSET Trips, dropped : BOOLEAN]
  BY DEF Noted

\* The run in progress.
LEMMA LastRun ==
    ASSUME StackInv, Working
    PROVE  Len(stack) \in Nat \ {0} /\ RunInv(Run) /\ Run \in Runs
  BY DEF StackInv, Working, Run, RunInv

\* What ending a meter leaves of it.
LEMMA Ended ==
    ASSUME NEW m \in Meters, NEW why \in Endings
    PROVE  LET k == [m EXCEPT !.dead = why, !.nextPoll = 0]
           IN  k \in Meters /\ k.dead = why /\ k.used = m.used /\ k.limit = m.limit
  BY DEF Meters

\* One charge of an unspent meter.
LEMMA ChargeKeeps ==
    ASSUME MeterInv, WorkBounded, PromptStop, meter.dead = "no",
           NEW n \in 0..MaxCost, meter' = Charged(n), UNCHANGED canceledAt
    PROVE  /\ MeterInv' /\ WorkBounded' /\ PromptStop'
           /\ Unwinds(n) <=> meter'.dead # "no"
  <1> DEFINE m == [meter EXCEPT !.used = @ + n]
  <1>1. /\ Poll \in Nat \ {0} /\ MaxCost \in Nat /\ n \in Nat /\ n <= MaxCost
    BY BoundsAssumption
  <1>2. /\ meter.limit \in Nat /\ meter.used \in Nat /\ meter.nextPoll \in Nat
        /\ meter.used < meter.nextPoll /\ meter.nextPoll <= meter.limit + 1
        /\ meter.nextPoll <= meter.used + Poll
        /\ canceledAt \in Nat \cup {-1}
        /\ Canceled => meter.nextPoll <= canceledAt + Poll
    BY DEF MeterInv, Meters
  <1>3. /\ m \in Meters
        /\ m.limit = meter.limit /\ m.used = meter.used + n /\ m.dead = "no"
        /\ m.nextPoll = meter.nextPoll
    BY <1>1 DEF MeterInv, Meters
  <1> HIDE DEF m
  <1> /\ "work" \in Endings /\ "work" # "no"
      /\ "canceled" \in Endings /\ "canceled" # "no"
    BY DEF Endings
  <1>4. Charged(n) =
          IF m.used < m.nextPoll \/ m.dead # "no" THEN m
          ELSE IF m.used > m.limit THEN [m EXCEPT !.dead = "work", !.nextPoll = 0]
          ELSE IF Canceled THEN [m EXCEPT !.dead = "canceled", !.nextPoll = 0]
          ELSE [m EXCEPT !.nextPoll = Smaller(m.used + Poll, m.limit + 1)]
    BY DEF Charged, m
  <1>5. meter'.used = meter.used + n /\ meter'.limit = meter.limit
    <2>1. Charged(n).used = m.used /\ Charged(n).limit = m.limit
      BY <1>3, <1>4
    <2> QED BY <1>3, <2>1
  <1>6. Canceled' = Canceled
    BY DEF Canceled
  <1>7. WorkBounded' /\ PromptStop'
    BY <1>1, <1>2, <1>5, <1>6 DEF WorkBounded, PromptStop, Canceled
  <1>8. CASE m.used < m.nextPoll
    <2>1. meter' = m
      BY <1>3, <1>4, <1>8
    <2>2. MeterInv'
      BY <1>1, <1>2, <1>3, <1>6, <1>8, <2>1 DEF MeterInv
    <2> QED BY <1>2, <1>3, <1>7, <1>8, <2>1, <2>2 DEF Unwinds
  <1>9. CASE ~(m.used < m.nextPoll) /\ m.used > m.limit
    <2>1. meter' = [m EXCEPT !.dead = "work", !.nextPoll = 0]
      BY <1>3, <1>4, <1>9
    <2>2. meter' \in Meters /\ meter'.dead # "no"
      BY <1>3, <2>1, Ended
    <2>3. MeterInv'
      BY <1>2, <2>2 DEF MeterInv, Meters
    <2> QED BY <1>2, <1>3, <1>7, <1>9, <2>2, <2>3 DEF Unwinds
  <1>10. CASE ~(m.used < m.nextPoll) /\ ~(m.used > m.limit) /\ Canceled
    <2>1. meter' = [m EXCEPT !.dead = "canceled", !.nextPoll = 0]
      BY <1>3, <1>4, <1>10
    <2>2. meter' \in Meters /\ meter'.dead # "no"
      BY <1>3, <2>1, Ended
    <2>3. MeterInv'
      BY <1>2, <2>2 DEF MeterInv, Meters
    <2> QED BY <1>2, <1>3, <1>7, <1>10, <2>2, <2>3 DEF Unwinds
  <1>11. CASE ~(m.used < m.nextPoll) /\ ~(m.used > m.limit) /\ ~Canceled
    <2>1. meter' = [m EXCEPT !.nextPoll = Smaller(m.used + Poll, m.limit + 1)]
      BY <1>3, <1>4, <1>11
    <2>2. /\ Smaller(m.used + Poll, m.limit + 1) \in Nat
          /\ Smaller(m.used + Poll, m.limit + 1) <= m.used + Poll
          /\ Smaller(m.used + Poll, m.limit + 1) <= m.limit + 1
          /\ m.used < Smaller(m.used + Poll, m.limit + 1)
      BY <1>1, <1>3, <1>11 DEF Smaller, Meters
    <2>3. MeterInv'
      BY <1>2, <1>3, <1>6, <1>11, <2>1, <2>2 DEF MeterInv, Meters
    <2> QED BY <1>2, <1>3, <1>7, <1>11, <2>1, <2>3 DEF Unwinds
  <1> QED BY <1>8, <1>9, <1>10, <1>11

\* A step that charges nothing.
LEMMA MeterKept ==
    ASSUME Inv, UNCHANGED <<meter, canceledAt>>
    PROVE  MeterInv' /\ WorkBounded' /\ PromptStop'
  BY DEF Inv, MeterInv, WorkBounded, PromptStop, Canceled

\* A meter that is spent stays where it is.
LEMMA SpentKeeps ==
    ASSUME Inv, NEW why \in Endings \ {"no"}, meter' = Spent(why), UNCHANGED canceledAt
    PROVE  MeterInv' /\ WorkBounded' /\ PromptStop' /\ meter'.dead = why
  <1>1. /\ meter' \in Meters
        /\ meter'.dead = why /\ meter'.used = meter.used /\ meter'.limit = meter.limit
    BY Ended DEF Inv, MeterInv, Spent
  <1> QED BY <1>1 DEF Inv, MeterInv, WorkBounded, PromptStop, Canceled

-----------------------------------------------------------------------------
\* A run past its check is between two.
LEMMA PastTyped ==
    ASSUME NEW r \in Runs
    PROVE  RunInv(Past(r)) /\ NotSearching(Past(r)) /\ Past(r).nested.state = "none"
  <1>1. NotNested \in Nested /\ NotNested.state = "none"
    BY DEF NotNested, Nested
  <1> DEFINE p1 == [r EXCEPT !.at = @ + 1]
             p2 == [p1 EXCEPT !.step = 0]
             p3 == [p2 EXCEPT !.good = FALSE]
             p4 == [p3 EXCEPT !.declined = FALSE]
             p5 == [p4 EXCEPT !.found = FALSE]
             p6 == [p5 EXCEPT !.nested = NotNested]
  <1>2. Past(r) = p6
    BY DEF Past
  <1>3. p2 \in Runs /\ p2.step = 0
    <2>1. p1 \in Runs
      BY DEF Runs
    <2> HIDE DEF p1
    <2> QED BY <2>1 DEF Runs
  <1> HIDE DEF p2
  <1>4. p5 \in Runs /\ p5.step = 0
    BY <1>3 DEF Runs
  <1> HIDE DEF p5
  <1>5. p6 \in Runs /\ p6.step = 0 /\ p6.nested = NotNested
    BY <1>1, <1>4 DEF Runs
  <1> QED BY <1>1, <1>2, <1>5 DEF RunInv, NotSearching

\* A run over a file begins between checks.
LEMMA NewRunTyped ==
    ASSUME NEW n \in DOMAIN File PROVE RunInv(NewRun(n)) /\ NotSearching(NewRun(n))
  <1>1. NotNested \in Nested /\ NotNested.state = "none"
    BY DEF NotNested, Nested
  <1>2. NewRun(n) \in Runs /\ NewRun(n).step = 0 /\ NewRun(n).nested = NotNested
    BY <1>1 DEF NewRun, Runs
  <1> QED BY <1>1, <1>2 DEF RunInv, NotSearching

\* The run in progress moves, alone.
LEMMA BecomesKeeps ==
    ASSUME StackInv, Working, NEW r, RunInv(r), Becomes(r),
           meter'.dead # "no" => NotSearching(r)
    PROVE  StackInv'
  <1>1. Len(stack) \in Nat \ {0} /\ r \in Runs
    BY LastRun DEF RunInv
  <1>2. /\ stack' \in Seq(Runs) /\ Len(stack') = Len(stack)
        /\ stack'[Len(stack)] = r
        /\ \A i \in 1..(Len(stack) - 1) : stack'[i] = stack[i]
    BY <1>1 DEF Becomes, StackInv
  <1>3. \A i \in 1..Len(stack') : RunInv(stack'[i])
    BY <1>1, <1>2 DEF StackInv
  <1>4. \A i \in 1..(Len(stack') - 1) : stack'[i].nested.state # "none"
    BY <1>1, <1>2 DEF StackInv
  <1>5. Run' = r
    BY <1>2 DEF Run
  <1> QED BY <1>2, <1>3, <1>4, <1>5 DEF StackInv

\* The run in progress is unwound, and the outermost notes why.
LEMMA StoppedForKeeps ==
    ASSUME StackInv, Working, NEW why \in Endings, StoppedFor(why)
    PROVE  StackInv'
  <1> DEFINE L == Len(stack)
             s == [stack EXCEPT ![L] = Unwound(@)]
             t == [s EXCEPT ![1].limits = Noted(@, <<why, 0>>)]
  <1>1. L \in Nat \ {0} /\ stack[L] \in Runs /\ stack \in Seq(Runs)
    BY LastRun DEF Run, StackInv
  <1>2. RunInv(Unwound(stack[L])) /\ NotSearching(Unwound(stack[L]))
    BY <1>1, PastTyped DEF Unwound
  <1>3. /\ s \in Seq(Runs) /\ Len(s) = L /\ s[L] = Unwound(stack[L])
        /\ \A i \in 1..(L - 1) : s[i] = stack[i]
    BY <1>1, <1>2 DEF RunInv
  <1>4. /\ \A i \in 1..L : RunInv(s[i])
        /\ \A i \in 1..(L - 1) : s[i].nested.state # "none"
        /\ NotSearching(s[L])
    <2> HIDE DEF s
    <2>1. \A i \in 1..(L - 1) : RunInv(stack[i]) /\ stack[i].nested.state # "none"
      BY <1>1 DEF StackInv
    <2>2. \A i \in 1..L : i = L \/ i \in 1..(L - 1)
      BY <1>1
    <2> HIDE DEF L
    <2> QED BY <1>2, <1>3, <2>1, <2>2
  <1> HIDE DEF s
  <1>5. <<why, 0>> \in Trips
    BY DEF Words, Trips
  <1>6. s[1] \in Runs
    BY <1>1, <1>4 DEF RunInv
  <1> DEFINE l == Noted(s[1].limits, <<why, 0>>)
             first == [s[1] EXCEPT !.limits = l]
  <1>7. l \in [trips : SUBSET Trips, dropped : BOOLEAN]
    BY <1>5, <1>6, NotedTyped DEF Runs
  <1>8. t = [s EXCEPT ![1] = first]
    OBVIOUS
  <1> HIDE DEF l
  <1>9. /\ first \in Runs /\ first.file = s[1].file /\ first.at = s[1].at
        /\ first.step = s[1].step /\ first.nested = s[1].nested
    BY <1>6, <1>7 DEF Runs
  <1> HIDE DEF first
  <1>10. /\ RunInv(s[1]) => RunInv(first)
         /\ NotSearching(s[1]) => NotSearching(first)
    BY <1>9 DEF RunInv, NotSearching, Checks
  <1>11. /\ t \in Seq(Runs) /\ Len(t) = L
         /\ t[1] = first
         /\ \A i \in 2..L : t[i] = s[i]
    <2> HIDE DEF t, L
    <2>1. 1 \in 1..Len(s)
      BY <1>1, <1>3
    <2> QED BY <1>1, <1>3, <1>8, <1>9, <2>1
  <1> HIDE DEF t
  <1>12. /\ \A i \in 1..L : RunInv(t[i])
         /\ \A i \in 1..(L - 1) : t[i].nested.state # "none"
         /\ NotSearching(t[L])
    <2>1. RunInv(s[1])
      BY <1>1, <1>4
    <2> QED BY <1>1, <1>4, <1>9, <1>10, <1>11, <2>1
  <1>13. stack' = s \/ stack' = t
    BY DEF StoppedFor, s, t
  <1>14. CASE stack' = s
    BY <1>3, <1>4, <1>14 DEF StackInv, Run
  <1>15. CASE stack' = t
    BY <1>11, <1>12, <1>15 DEF StackInv, Run
  <1> QED BY <1>13, <1>14, <1>15

\* One charge, whether it returns or unwinds the check.
LEMMA ChargeOf ==
    ASSUME Inv, Working, meter.dead = "no", NEW n \in 0..MaxCost,
           NEW r, RunInv(r), Charge(n, r), UNCHANGED canceledAt
    PROVE  Inv'
  <1>1. /\ MeterInv' /\ WorkBounded' /\ PromptStop'
        /\ Unwinds(n) <=> meter'.dead # "no"
    BY ChargeKeeps DEF Inv, Charge
  <1>2. CASE ~Unwinds(n)
    <2>1. Becomes(r) /\ meter'.dead = "no"
      BY <1>1, <1>2 DEF Charge
    <2>2. StackInv'
      BY <2>1, BecomesKeeps DEF Inv
    <2> QED BY <1>1, <2>2 DEF Inv
  <1>3. CASE Unwinds(n)
    <2>1. StoppedFor(meter'.dead) /\ meter'.dead \in Endings
      BY <1>1, <1>3 DEF Charge, MeterInv, Meters
    <2>2. StackInv'
      BY <2>1, StoppedForKeeps DEF Inv
    <2> QED BY <1>1, <2>2 DEF Inv
  <1> QED BY <1>2, <1>3

\* The run in progress moves and charges nothing.
LEMMA MovesFree ==
    ASSUME Inv, Working, NEW r, RunInv(r), Becomes(r), UNCHANGED <<meter, canceledAt>>,
           meter.dead # "no" => NotSearching(r)
    PROVE  Inv'
  <1>1. StackInv'
    BY BecomesKeeps DEF Inv
  <1> QED BY <1>1, MeterKept DEF Inv

-----------------------------------------------------------------------------
\* A step further in the same check, whatever else was noted.
LEMMA FurtherTyped ==
    ASSUME RunInv(Run), Run.step # 0, NEW q \in Runs, q.file = Run.file,
           q.at = Run.at, q.step # 0, q.nested.state = "none"
    PROVE  RunInv(q) /\ (Check.kind = "embedded" => NotSearching(q))
  BY DEF RunInv, NotSearching, Check, Checks

\* The run one step further.
LEMMA AdvancedTyped ==
    ASSUME Run \in Runs
    PROVE  /\ Advanced \in Runs /\ Advanced.file = Run.file /\ Advanced.at = Run.at
           /\ Advanced.step = Run.step + 1 /\ Advanced.step # 0
           /\ Advanced.nested = Run.nested
           /\ Advanced.limits = Run.limits /\ Advanced.found = Run.found
  BY DEF Advanced, Runs

\* A run that noted a trip, on the way.
LEMMA NotingTyped ==
    ASSUME NEW q \in Runs, NEW trip \in Trips
    PROVE  LET p == [q EXCEPT !.limits = Noted(@, trip)]
           IN  /\ p \in Runs /\ p.file = q.file /\ p.at = q.at /\ p.step = q.step
               /\ p.nested = q.nested
  <1> DEFINE l == Noted(q.limits, trip)
  <1>1. l \in [trips : SUBSET Trips, dropped : BOOLEAN]
    BY NotedTyped DEF Runs
  <1> HIDE DEF l
  <1>2. LET p == [q EXCEPT !.limits = l]
        IN  /\ p \in Runs /\ p.file = q.file /\ p.at = q.at /\ p.step = q.step
            /\ p.nested = q.nested
    BY <1>1 DEF Runs
  <1> QED BY <1>2 DEF l

\* A search holds an unspent meter.
LEMMA SearchUnspent ==
    ASSUME Inv, Within("search")
    PROVE  /\ Working /\ meter.dead = "no" /\ RunInv(Run) /\ Run \in Runs
           /\ Run.step # 0 /\ Run.nested.state = "none"
  BY LastRun DEF Inv, StackInv, Within, NotSearching, Check

\* Between two checks the next begins.
LEMMA BeginKeeps == ASSUME Inv, BeginCheck PROVE Inv'
  <1> DEFINE r == [Run EXCEPT !.step = 1]
  <1>1. /\ Working /\ meter.dead = "no" /\ RunInv(Run) /\ Run \in Runs
        /\ Run.step = 0 /\ Run.at <= Len(Checks(Run))
    BY LastRun DEF Inv, BeginCheck, Between, Stopped
  <1>2. /\ r \in Runs /\ r.file = Run.file /\ r.at = Run.at /\ r.step = 1
        /\ r.nested = Run.nested
    BY <1>1 DEF Runs
  <1>3. Run.at \in 1..Len(Checks(Run))
    <2>1. File[Run.file] = File[Run.file] /\ Run.file \in DOMAIN File /\ Run.at \in Nat \ {0}
      BY <1>1 DEF Runs
    <2>2. Len(Checks(Run)) \in Nat
      BY <2>1, FileAssumption DEF IsFile, Checks
    <2> QED BY <1>1, <2>1, <2>2
  <1>4. RunInv(r)
    BY <1>1, <1>2, <1>3 DEF RunInv, Checks
  <1> QED BY <1>1, <1>4, MovesFree DEF BeginCheck

\* Or the checks of the bytes are left out, the file having none.
LEMMA NoSourceKeeps == ASSUME Inv, NoSourceFile PROVE Inv'
  <1> DEFINE n == Len(Checks(Run)) + 1
             q == [Run EXCEPT !.at = n]
             r == [q EXCEPT !.limits = Noted(@, <<"no source file", 0>>)]
  <1>1. /\ Working /\ meter.dead = "no" /\ RunInv(Run) /\ Run \in Runs
        /\ Run.step = 0
    BY LastRun DEF Inv, NoSourceFile, Between, Stopped
  <1>2. n \in Nat \ {0}
    <2>1. Run.file \in DOMAIN File
      BY <1>1 DEF Runs
    <2> QED BY <2>1, FileAssumption DEF IsFile, Checks
  <1> HIDE DEF n
  <1>3. q \in Runs /\ q.step = 0 /\ q.nested = Run.nested
    BY <1>1, <1>2 DEF Runs
  <1>4. Becomes(r)
    BY DEF NoSourceFile, n
  <1> HIDE DEF q
  <1>5. <<"no source file", 0>> \in Trips
    BY DEF Trips, Words
  <1>6. r \in Runs /\ r.step = 0 /\ r.nested = Run.nested
    BY <1>3, <1>5, NotingTyped
  <1> HIDE DEF r
  <1>7. RunInv(r)
    BY <1>1, <1>6 DEF RunInv
  <1> QED BY <1>1, <1>4, <1>7, MovesFree DEF NoSourceFile

\* An item of a search is visited.
LEMMA VisitKeeps == ASSUME Inv, Visit PROVE Inv'
  <1>1. /\ Working /\ meter.dead = "no" /\ RunInv(Run) /\ Run \in Runs
        /\ Run.step # 0 /\ Run.nested.state = "none"
    BY SearchUnspent DEF Visit
  <1>2. Step.cost \in 0..MaxCost
    BY <1>1, StepTyped DEF Visit, Step, Check
  <1>3. /\ Advanced \in Runs /\ Advanced.file = Run.file /\ Advanced.at = Run.at
        /\ Advanced.step # 0 /\ Advanced.nested = Run.nested
    BY <1>1, AdvancedTyped
  <1>4. CASE Step.item = "good"
    <2> DEFINE r == [Advanced EXCEPT !.good = TRUE]
    <2>1. /\ r \in Runs /\ r.file = Run.file /\ r.at = Run.at /\ r.step # 0
          /\ r.nested = Run.nested
      BY <1>3 DEF Runs
    <2>2. Charge(Step.cost, r)
      BY <1>4 DEF Visit
    <2> HIDE DEF r
    <2>3. RunInv(r)
      BY <1>1, <2>1, FurtherTyped
    <2> QED BY <1>1, <1>2, <2>2, <2>3, ChargeOf DEF Visit
  <1>5. CASE Step.item = "declined"
    <2> DEFINE q == [Advanced EXCEPT !.declined = TRUE]
               r == [q EXCEPT !.limits = Noted(@, <<"declined", Run.at>>)]
    <2>1. /\ q \in Runs /\ q.file = Run.file /\ q.at = Run.at /\ q.step # 0
          /\ q.nested = Run.nested
      BY <1>3 DEF Runs
    <2>2. Charge(Step.cost, r)
      BY <1>5 DEF Visit
    <2> HIDE DEF q
    <2>3. <<"declined", Run.at>> \in Trips
      BY <1>1 DEF Trips, Words, Runs
    <2>4. /\ r \in Runs /\ r.file = Run.file /\ r.at = Run.at /\ r.step # 0
          /\ r.nested = Run.nested
      BY <2>1, <2>3, NotingTyped
    <2> HIDE DEF r
    <2>5. RunInv(r)
      BY <1>1, <2>4, FurtherTyped
    <2> QED BY <1>1, <1>2, <2>2, <2>5, ChargeOf DEF Visit
  <1>6. CASE Step.item = "other"
    <2>1. Charge(Step.cost, Advanced)
      BY <1>6 DEF Visit
    <2>2. RunInv(Advanced)
      BY <1>1, <1>3, FurtherTyped
    <2> QED BY <1>1, <1>2, <2>1, <2>2, ChargeOf DEF Visit
  <1> QED BY <1>4, <1>5, <1>6 DEF Visit

\* A walk too deep ends the run.
LEMMA TooDeepKeeps == ASSUME Inv, TooDeep PROVE Inv'
  <1>1. "walk-depth" \in Endings \ {"no"}
    BY DEF Endings
  <1>2. MeterInv' /\ WorkBounded' /\ PromptStop'
    BY <1>1, SpentKeeps DEF TooDeep
  <1>3. StackInv'
    BY <1>1, StoppedForKeeps DEF TooDeep, Within, Inv
  <1> QED BY <1>2, <1>3 DEF Inv

\* A finding of a run.
LEMMA FoundTyped ==
    ASSUME NEW q \in Runs, NEW f \in Trips
    PROVE  LET p == [q EXCEPT !.errs = @ \cup {f}]
           IN  p \in Runs /\ p.file = q.file /\ p.at = q.at /\ p.step = q.step /\ p.nested = q.nested
  BY DEF Runs

\* A run that ends its check, whatever it found.
LEMMA PastKeeps ==
    ASSUME Inv, Working, NEW q \in Runs, Becomes(Past(q)), UNCHANGED <<meter, canceledAt>>
    PROVE  Inv'
  BY PastTyped, MovesFree

\* A check that fails ends.
LEMMA FaultKeeps == ASSUME Inv, Fault PROVE Inv'
  <1>1. Working /\ Run \in Runs
    BY SearchUnspent DEF Fault
  <1> DEFINE q == Past(Run)
             r == [q EXCEPT !.errs = @ \cup {<<"internal", Run.at>>}]
  <1>2. q \in Runs /\ RunInv(q) /\ q.step = 0 /\ q.nested.state = "none"
    BY <1>1, PastTyped DEF RunInv, Past, Runs
  <1>3. Becomes(r)
    BY DEF Fault, Unwound
  <1> HIDE DEF q
  <1>4. <<"internal", Run.at>> \in Trips
    BY <1>1 DEF Trips, Words, Runs
  <1>5. r \in Runs /\ r.step = 0 /\ r.nested.state = "none"
    BY <1>2, <1>4, FoundTyped
  <1> HIDE DEF r
  <1>6. RunInv(r) /\ NotSearching(r)
    BY <1>5 DEF RunInv, NotSearching
  <1> QED BY <1>1, <1>3, <1>6, MovesFree DEF Fault

\* A check that ends asserts what it asserts, or nothing.
LEMMA EndKeeps ==
    ASSUME Inv, Working, UNCHANGED <<meter, canceledAt>>, NEW asserts \in BOOLEAN,
           Becomes(Past(IF asserts THEN [Run EXCEPT !.errs = @ \cup {<<"violation", Run.at>>}]
                        ELSE Run))
    PROVE  Inv'
  <1>1. Run \in Runs
    BY LastRun DEF Inv
  <1>2. <<"violation", Run.at>> \in Trips
    BY <1>1 DEF Trips, Words, Runs
  <1>3. [Run EXCEPT !.errs = @ \cup {<<"violation", Run.at>>}] \in Runs
    BY <1>1, <1>2, FoundTyped
  <1>4. CASE asserts
    BY <1>3, <1>4, PastKeeps
  <1>5. CASE ~asserts
    BY <1>1, <1>5, PastKeeps
  <1> QED BY <1>4, <1>5

\* A search that ends.
LEMMA EndCheckKeeps == ASSUME Inv, EndCheck PROVE Inv'
  <1>1. Asserts(Run) \in BOOLEAN
    BY DEF Asserts
  <1> QED BY <1>1, EndKeeps DEF EndCheck, Within

\* The embedded-file rule, at its end.
LEMMA EndEmbeddedKeeps == ASSUME Inv, EndEmbedded PROVE Inv'
  <1>1. Run.found \in BOOLEAN
    BY LastRun DEF Inv, EndEmbedded, Within, Runs
  <1> QED BY <1>1, EndKeeps DEF EndEmbedded, Within

\* A run that follows embedded files.
LEMMA FollowingTyped ==
    ASSUME Inv, Following
    PROVE  /\ Working /\ meter.dead = "no" /\ RunInv(Run) /\ Run \in Runs
           /\ Run.step # 0 /\ Run.step <= Len(Check.steps)
           /\ Run.nested.state = "none" /\ Check.kind = "embedded"
  BY LastRun DEF Inv, Following, Within, Stopped

\* An embedded file that is not followed is passed.
LEMMA NotFollowedKeeps == ASSUME Inv, NotFollowed PROVE Inv'
  <1>1. /\ Working /\ meter.dead = "no" /\ RunInv(Run) /\ Run \in Runs
        /\ Run.step # 0 /\ Run.nested.state = "none"
    BY FollowingTyped DEF NotFollowed
  <1>2. /\ Advanced \in Runs /\ Advanced.file = Run.file /\ Advanced.at = Run.at
        /\ Advanced.step # 0 /\ Advanced.nested = Run.nested
    BY <1>1, AdvancedTyped
  <1>3. /\ <<"declined", Run.at>> \in Trips
        /\ <<"embedded", Run.at>> \in Trips
    BY <1>1 DEF Trips, Words, Runs
  <1>4. ASSUME NEW trip \in Trips, Becomes([Advanced EXCEPT !.limits = Noted(@, trip)])
        PROVE  Inv'
    <2> DEFINE r == [Advanced EXCEPT !.limits = Noted(@, trip)]
    <2>1. /\ r \in Runs /\ r.file = Run.file /\ r.at = Run.at /\ r.step # 0
          /\ r.nested = Run.nested
      BY <1>2, NotingTyped
    <2>2. Becomes(r)
      BY <1>4
    <2> HIDE DEF r
    <2>3. RunInv(r)
      BY <1>1, <2>1, FurtherTyped
    <2> QED BY <1>1, <2>2, <2>3, MovesFree DEF NotFollowed
  <1>5. ASSUME Becomes([Advanced EXCEPT !.found = TRUE]) PROVE Inv'
    <2> DEFINE r == [Advanced EXCEPT !.found = TRUE]
    <2>1. /\ r \in Runs /\ r.file = Run.file /\ r.at = Run.at /\ r.step # 0
          /\ r.nested = Run.nested
      BY <1>2 DEF Runs
    <2>2. Becomes(r)
      BY <1>5
    <2> HIDE DEF r
    <2>3. RunInv(r)
      BY <1>1, <2>1, FurtherTyped
    <2> QED BY <1>1, <2>2, <2>3, MovesFree DEF NotFollowed
  <1> QED BY <1>3, <1>4, <1>5 DEF NotFollowed

\* What a run waits for, or has learnt, of the document it is at.
LEMMA WaitingKeeps ==
    ASSUME Inv, Working, NEW w \in Nested, Becomes([Run EXCEPT !.nested = w]),
           Check.kind = "embedded", Run.step # 0, Run.step <= Len(Check.steps),
           UNCHANGED <<meter, canceledAt>>
    PROVE  Inv'
  <1> DEFINE r == [Run EXCEPT !.nested = w]
  <1>1. RunInv(Run) /\ Run \in Runs
    BY LastRun DEF Inv
  <1>2. r \in Runs /\ r.file = Run.file /\ r.at = Run.at /\ r.step = Run.step
    BY <1>1 DEF Runs
  <1>3. Becomes(r)
    OBVIOUS
  <1> HIDE DEF r
  <1>4. RunInv(r) /\ NotSearching(r)
    BY <1>1, <1>2 DEF RunInv, NotSearching, Check, Checks
  <1> QED BY <1>3, <1>4, MovesFree

\* An embedded document is taken from the budget, or is over it.
LEMMA TakeKeeps == ASSUME Inv, TakeEmbedded PROVE Inv'
  <1> DEFINE w == [NotNested EXCEPT !.state = "reading", !.refusable = (Canceled \/ lowered)]
  <1>1. w \in Nested /\ OverBudget \in Nested
    BY DEF NotNested, Nested, OverBudget
  <1>2. Becomes([Run EXCEPT !.nested = w]) \/ Becomes([Run EXCEPT !.nested = OverBudget])
    BY DEF TakeEmbedded
  <1> HIDE DEF w
  <1> QED BY <1>1, <1>2, FollowingTyped, WaitingKeeps DEF TakeEmbedded

\* A run over the embedded document begins, and what embeds it waits.
LEMMA NestsKeeps ==
    ASSUME Inv, Working, meter'.dead = "no", MeterInv', WorkBounded', PromptStop',
           NEW n \in DOMAIN File, stack' = Append(stack, NewRun(n)),
           Run.nested.state # "none"
    PROVE  Inv'
  <1>1. Len(stack) \in Nat \ {0} /\ stack \in Seq(Runs)
    BY LastRun DEF Inv, StackInv
  <1>2. RunInv(NewRun(n)) /\ NewRun(n) \in Runs
    BY NewRunTyped DEF RunInv
  <1>3. /\ stack' \in Seq(Runs) /\ Len(stack') = Len(stack) + 1
        /\ stack'[Len(stack) + 1] = NewRun(n)
        /\ \A i \in 1..Len(stack) : stack'[i] = stack[i]
    BY <1>1, <1>2
  <1>4. \A i \in 1..Len(stack') : RunInv(stack'[i])
    BY <1>1, <1>2, <1>3 DEF Inv, StackInv
  <1>5. \A i \in 1..(Len(stack') - 1) : stack'[i].nested.state # "none"
    BY <1>1, <1>3 DEF Inv, StackInv, Run
  <1> QED BY <1>3, <1>4, <1>5 DEF Inv, StackInv

\* The read of the embedded document: it is charged, and it begins a run, or
\* fails.
LEMMA ReadKeeps == ASSUME Inv, ReadEmbedded PROVE Inv'
  <1>1. /\ Working /\ RunInv(Run) /\ Run \in Runs
        /\ Run.nested.state = "reading" /\ Run.nested.state # "none"
    BY LastRun DEF Inv, ReadEmbedded
  <1>2. Check.kind = "embedded" /\ Run.step # 0 /\ Run.step <= Len(Check.steps)
    BY <1>1 DEF RunInv, Check
  <1>3. Step.cost \in 0..MaxCost /\ Step.item \in DOMAIN File
    BY <1>1, <1>2, StepTyped DEF Step, Check
  <1>4. FailedRead \in Nested /\ OverBudget \in Nested
    BY <1>1 DEF NotNested, Nested, OverBudget, FailedRead, Runs
  <1>5. CASE Stopped
    BY <1>1, <1>2, <1>4, <1>5, WaitingKeeps DEF ReadEmbedded
  <1>6. CASE ~Stopped /\ Unwinds(Step.cost)
    <2>1. Charge(Step.cost, Run) /\ meter.dead = "no"
      BY <1>6 DEF ReadEmbedded, Stopped
    <2> QED BY <1>1, <1>3, <2>1, ChargeOf DEF ReadEmbedded
  <1>7. CASE ~Stopped /\ ~Unwinds(Step.cost)
    <2>1. meter' = Charged(Step.cost) /\ meter.dead = "no" /\ UNCHANGED canceledAt
      BY <1>7 DEF ReadEmbedded, Stopped
    <2>2. MeterInv' /\ WorkBounded' /\ PromptStop' /\ meter'.dead = "no"
      BY <1>3, <1>7, <2>1, ChargeKeeps DEF Inv
    <2>3. CASE stack' = Append(stack, NewRun(Step.item))
      BY <1>1, <1>3, <2>2, <2>3, NestsKeeps
    <2>4. ASSUME NEW w \in Nested, Becomes([Run EXCEPT !.nested = w]) PROVE Inv'
      <3> DEFINE r == [Run EXCEPT !.nested = w]
      <3>1. r \in Runs /\ r.file = Run.file /\ r.at = Run.at /\ r.step = Run.step
        BY <1>1 DEF Runs
      <3>2. Becomes(r)
        BY <2>4
      <3> HIDE DEF r
      <3>3. RunInv(r) /\ NotSearching(r)
        BY <1>1, <1>2, <3>1 DEF RunInv, NotSearching, Check, Checks
      <3>4. StackInv'
        BY <1>1, <3>2, <3>3, BecomesKeeps DEF Inv
      <3> QED BY <2>2, <3>4 DEF Inv
    <2> QED BY <1>4, <1>7, <2>3, <2>4 DEF ReadEmbedded
  <1> QED BY <1>5, <1>6, <1>7

\* The verdict on the embedded document is believed, or the run is over.
LEMMA JudgeKeeps == ASSUME Inv, Judge PROVE Inv'
  <1>1. /\ Working /\ RunInv(Run) /\ Run \in Runs
        /\ Run.nested.state = "judged" /\ Run.nested.state # "none"
    BY LastRun DEF Inv, Judge
  <1>2. Check.kind = "embedded" /\ Run.step # 0
    BY <1>1 DEF RunInv, Check
  <1>3. CASE StoppedMeanwhile
    <2>1. PICK why \in Endings \ {"no"} : meter' = Spent(why)
      <3>1. "canceled" \in Endings \ {"no"} /\ meter.dead \in Endings
        BY DEF Endings, Inv, MeterInv, Meters
      <3> QED BY <1>3, <3>1 DEF Judge
    <2>2. MeterInv' /\ WorkBounded' /\ PromptStop'
      BY <2>1, SpentKeeps DEF Judge
    <2>3. StackInv'
      BY <1>1, <1>3, PastTyped, BecomesKeeps DEF Judge, Unwound, Inv
    <2> QED BY <2>2, <2>3 DEF Inv
  <1>4. CASE ~StoppedMeanwhile
    <2> DEFINE finding == Run.found \/ (Run.nested.complete
                             /\ ~(Run.nested.sound /\ Admits(File[Run.file], Embedded)))
               l == IF Run.nested.complete THEN Run.limits
                    ELSE Noted(Run.limits, <<"embedded", Run.at>>)
               p == [Advanced EXCEPT !.nested = NotNested]
               q == [p EXCEPT !.found = finding]
               r == [q EXCEPT !.limits = l]
    <2>1. NotNested \in Nested /\ NotNested.state = "none" /\ finding \in BOOLEAN
      BY <1>1 DEF NotNested, Nested, Runs
    <2>2. l \in [trips : SUBSET Trips, dropped : BOOLEAN]
      <3>1. /\ <<"embedded", Run.at>> \in Trips
            /\ Run.limits \in [trips : SUBSET Trips, dropped : BOOLEAN]
        BY <1>1 DEF Trips, Words, Runs
      <3> QED BY <3>1, NotedTyped
    <2>3. Becomes(r)
      <3>1. Advanced.found = Run.found /\ Advanced.limits = Run.limits
            /\ Advanced \in Runs
        BY <1>1, AdvancedTyped
      <3>2. p.found = Run.found /\ p.limits = Run.limits /\ q.limits = Run.limits
        BY <3>1 DEF Runs
      <3> QED BY <1>4, <3>1, <3>2 DEF Judge
    <2> HIDE DEF finding, l
    <2>4. /\ p \in Runs /\ p.file = Run.file /\ p.at = Run.at /\ p.step # 0
          /\ p.nested = NotNested
      BY <1>1, <2>1, AdvancedTyped DEF Runs
    <2> HIDE DEF p
    <2>5. /\ q \in Runs /\ q.file = Run.file /\ q.at = Run.at /\ q.step # 0
          /\ q.nested = NotNested
      BY <2>1, <2>4 DEF Runs
    <2> HIDE DEF q
    <2>6. /\ r \in Runs /\ r.file = Run.file /\ r.at = Run.at /\ r.step # 0
          /\ r.nested = NotNested
      BY <2>2, <2>5 DEF Runs
    <2> HIDE DEF r
    <2>7. RunInv(r) /\ NotSearching(r)
      BY <1>1, <1>2, <2>1, <2>6, FurtherTyped
    <2> QED BY <1>1, <1>4, <2>3, <2>7, MovesFree DEF Judge
  <1> QED BY <1>3, <1>4

\* A run reports: to the one that waits for it, or to the caller.
LEMMA ReportKeeps == ASSUME Inv, Report PROVE Inv'
  <1> DEFINE rest == SubSeq(stack, 1, Depth)
             v == Verdict(Findings(Run))
  <1>1. Len(stack) \in Nat \ {0} /\ stack \in Seq(Runs) /\ Depth = Len(stack) - 1
    BY LastRun DEF Inv, StackInv, Report, Depth
  <1>2. /\ rest \in Seq(Runs) /\ Len(rest) = Depth
        /\ \A i \in 1..Depth : rest[i] = stack[i]
    BY <1>1
  <1>3. MeterInv' /\ WorkBounded' /\ PromptStop'
    BY MeterKept DEF Report
  <1> HIDE DEF rest
  <1>4. CASE Depth = 0
    <2>1. stack' = rest /\ rest = <<>>
      BY <1>2, <1>4 DEF Report, rest
    <2>2. StackInv'
      BY <2>1 DEF StackInv, Working
    <2> QED BY <1>3, <2>2 DEF Inv
  <1>5. CASE Depth # 0
    <2>1. v \in Nested /\ v.state = "judged" /\ v.state # "none"
      BY DEF Verdict, NotNested, Nested
    <2>2. stack' = [rest EXCEPT ![Depth].nested = v]
      BY <1>5 DEF Report, rest
    <2> HIDE DEF v
    <2> DEFINE r == [rest[Depth] EXCEPT !.nested = v]
    <2>3. /\ Depth \in 1..Len(rest) /\ rest[Depth] = stack[Depth]
          /\ RunInv(stack[Depth]) /\ stack[Depth] \in Runs
          /\ stack[Depth].nested.state # "none"
      BY <1>1, <1>2, <1>5 DEF Inv, StackInv, RunInv
    <2>4. /\ r \in Runs /\ r.file = stack[Depth].file /\ r.at = stack[Depth].at
          /\ r.step = stack[Depth].step /\ r.nested = v
      BY <2>1, <2>3 DEF Runs
    <2>5. stack' = [rest EXCEPT ![Depth] = r]
      BY <2>2
    <2> HIDE DEF r
    <2>6. RunInv(r) /\ NotSearching(r)
      BY <2>1, <2>3, <2>4 DEF RunInv, NotSearching, Checks
    <2>7. /\ stack' \in Seq(Runs) /\ Len(stack') = Depth /\ stack'[Depth] = r
          /\ \A i \in 1..(Depth - 1) : stack'[i] = stack[i]
      <3>1. Depth \in Nat \ {0}
        BY <1>1, <1>5
      <3>2. stack' \in Seq(Runs) /\ Len(stack') = Len(rest)
        BY <1>2, <2>3, <2>4, <2>5
      <3>3. stack'[Depth] = r
        BY <1>2, <2>3, <2>5
      <3>4. \A i \in 1..(Depth - 1) : i \in 1..Depth /\ i # Depth
        BY <3>1
      <3>5. \A i \in 1..(Depth - 1) : stack'[i] = rest[i]
        BY <1>2, <2>3, <2>5, <3>4
      <3> QED BY <1>2, <3>2, <3>3, <3>4, <3>5
    <2>8. \A i \in 1..Len(stack') : RunInv(stack'[i])
      <3>1. Depth \in Nat \ {0} /\ \A i \in 1..(Depth - 1) : i \in 1..Len(stack)
        BY <1>1, <1>5
      <3>2. \A i \in 1..(Depth - 1) : RunInv(stack'[i])
        BY <2>7, <3>1 DEF Inv, StackInv
      <3>3. \A i \in 1..Depth : i = Depth \/ i \in 1..(Depth - 1)
        BY <3>1
      <3> QED BY <2>6, <2>7, <3>2, <3>3
    <2>9. \A i \in 1..(Len(stack') - 1) : stack'[i].nested.state # "none"
      BY <1>1, <2>7 DEF Inv, StackInv
    <2>10. Run' = r
      BY <2>7 DEF Run
    <2> QED BY <1>3, <2>6, <2>7, <2>8, <2>9, <2>10 DEF Inv, StackInv
  <1> QED BY <1>4, <1>5

\* The context ends: what is left is less than a poll.
LEMMA CancelKeeps == ASSUME Inv, Cancel PROVE Inv'
  <1>1. StackInv'
    BY DEF Inv, StackInv, Cancel, Working, Run
  <1>2. meter.used \in Nat /\ Poll \in Nat \ {0} /\ MaxCost \in Nat
    BY BoundsAssumption DEF Inv, MeterInv, Meters
  <1>3. MeterInv' /\ WorkBounded' /\ PromptStop'
    BY <1>2 DEF Inv, MeterInv, WorkBounded, PromptStop, Canceled, Cancel
  <1> QED BY <1>1, <1>3 DEF Inv

\* A run begins with a meter that was not charged.
LEMMA Begins == Init => Inv
  <1> SUFFICES ASSUME Init PROVE Inv
    OBVIOUS
  <1>1. PICK limit \in WorkLimits : meter = NewMeter(limit)
    BY DEF Init
  <1>2. limit \in Nat \ {0} /\ Poll \in Nat \ {0} /\ MaxCost \in Nat
    BY BoundsAssumption
  <1>3. /\ meter \in Meters /\ meter.dead = "no" /\ meter.used = 0
        /\ meter.limit = limit
        /\ 0 < meter.nextPoll /\ meter.nextPoll <= limit + 1 /\ meter.nextPoll <= Poll
    BY <1>1, <1>2 DEF NewMeter, Smaller, Meters, Endings
  <1>4. MeterInv /\ WorkBounded /\ PromptStop
    BY <1>2, <1>3 DEF Init, MeterInv, WorkBounded, PromptStop, Canceled
  <1>5. top \in DOMAIN File
    BY FileAssumption DEF Init
  <1>6. stack = <<NewRun(top)>> /\ RunInv(NewRun(top)) /\ NewRun(top) \in Runs
    BY <1>5, NewRunTyped DEF Init, RunInv
  <1>7. StackInv
    BY <1>3, <1>6 DEF StackInv
  <1> QED BY <1>4, <1>7 DEF Inv

\* Every step keeps the invariant.
LEMMA Keeps == Inv /\ [Next]_vars => Inv'
  <1> SUFFICES ASSUME Inv, [Next]_vars PROVE Inv'
    OBVIOUS
  <1>1. CASE UNCHANGED vars
    BY <1>1 DEF vars, Inv, MeterInv, StackInv, WorkBounded, PromptStop, Canceled, Working, Run
  <1>2. CASE Running
    BY <1>2, BeginKeeps, NoSourceKeeps, VisitKeeps, TooDeepKeeps, FaultKeeps,
       EndCheckKeeps, EndEmbeddedKeeps, NotFollowedKeeps, TakeKeeps, ReadKeeps,
       JudgeKeeps, ReportKeeps DEF Running
  <1> QED BY <1>1, <1>2, CancelKeeps DEF Next, Over

\* In every state the meter and the runs in progress are as Inv says.
THEOREM Invariance == Spec => []Inv
  BY Begins, Keeps, PTL DEF Spec

\* All the work of a run and of the runs nested in it is within the budget of
\* one, up to the charge that went past it, since a run that waits for a nested
\* one is in no search; and once the context has ended, what is left to do is
\* less than a poll and a charge, at whatever depth the run was (meter.check).
THEOREM StopsWhereTold == Spec => []StopsInTime
  <1>1. Inv => StopsInTime
    BY DEF Inv, StopsInTime
  <1> QED BY <1>1, Invariance, PTL

-----------------------------------------------------------------------------
(* What is true of a file is defined by recursion on the levels of embedding, *)
(* and that definition means what it says.                                  *)

\* Every set of levels has a least one.
LEMMA Least ==
    ASSUME NEW S \in SUBSET Nat, S # {}
    PROVE  \E x \in S : \A y \in S : x <= y
  <1> DEFINE R == {ss \in Nat \X Nat : ss[1] < ss[2]}
  <1>1. R = OpToRel(<, Nat)
    BY DEF OpToRel
  <1>2. IsWellFoundedOn(R, Nat)
    BY <1>1, NatLessThanWellFounded
  <1>3. \A x, y \in Nat : <<y, x>> \in R <=> y < x
    OBVIOUS
  <1> HIDE DEF R
  <1>4. PICK x \in S : \A y \in S : ~(<<y, x>> \in R)
    BY <1>2, WFMin
  <1>5. \A y \in S : x <= y
    <2> TAKE y \in S
    <2>1. x \in Nat /\ y \in Nat
      OBVIOUS
    <2>2. ~(y < x)
      BY <1>3, <1>4, <2>1
    <2> QED BY <2>1, <2>2
  <1> QED BY <1>5

\* What holds of no level, and of one more than any it holds of, holds of all.
LEMMA LevelInduction ==
    ASSUME NEW S, 0 \in S, \A n \in Nat : n \in S => n + 1 \in S
    PROVE  Nat \subseteq S
  <1> SUFFICES ASSUME ~(Nat \subseteq S) PROVE FALSE
    OBVIOUS
  <1> DEFINE T == Nat \ S
  <1>1. T \in SUBSET Nat /\ T # {}
    OBVIOUS
  <1>2. PICK x \in T : \A y \in T : x <= y
    <2> HIDE DEF T
    <2> QED BY <1>1, Least
  <1>3. x # 0
    BY <1>2
  <1>4. x - 1 \in Nat /\ x - 1 \notin T
    BY <1>2, <1>3
  <1> QED BY <1>2, <1>4

\* The soundness of the files at one level, from that at the level below.
Level(k, below) ==
    [n \in DOMAIN File |->
        k = 0 \/ \A i \in 1..Len(File[n].checks) : CheckHolds(n, i, below)]

Levels(m, f) == f = [k \in 0..m |-> Level(k, f[k - 1])]

LEMMA LevelsExist == \A m \in Nat : \E f : Levels(m, f)
  <1> DEFINE S == {m \in Nat : \E f : Levels(m, f)}
  <1>1. 0 \in S
    <2> DEFINE f == [k \in 0..0 |-> Level(0, 0)]
    <2>1. \A k \in 0..0 : Level(k, f[k - 1]) = Level(0, 0)
      <3> TAKE k \in 0..0
      <3>1. k = 0
        OBVIOUS
      <3> QED BY <3>1 DEF Level
    <2>2. f = [k \in 0..0 |-> Level(k, f[k - 1])]
      <3> HIDE DEF f
      <3>1. f = [k \in 0..0 |-> Level(0, 0)]
        BY DEF f
      <3> QED BY <2>1, <3>1
    <2>3. Levels(0, f)
      BY <2>2 DEF Levels
    <2> QED BY <2>3
  <1>2. ASSUME NEW m \in Nat, m \in S PROVE m + 1 \in S
    <2>1. PICK f : Levels(m, f)
      BY <1>2
    <2> DEFINE g == [k \in 0..(m + 1) |-> IF k \in 0..m THEN f[k] ELSE Level(m + 1, f[m])]
    <2>2. \A k \in 0..(m + 1) : g[k] = Level(k, g[k - 1])
      <3> TAKE k \in 0..(m + 1)
      <3>1. CASE k = m + 1
        <4>1. g[k] = Level(m + 1, f[m])
          BY <3>1
        <4>2. g[k - 1] = f[m]
          BY <3>1
        <4> QED BY <3>1, <4>1, <4>2, Zenon
      <3>2. CASE k \in 1..m
        <4>1. g[k] = f[k] /\ g[k - 1] = f[k - 1]
          BY <3>2
        <4>2. f[k] = Level(k, f[k - 1])
          <5>1. k \in 0..m
            BY <3>2
          <5> QED BY <2>1, <5>1, Zenon DEF Levels
        <4> QED BY <4>1, <4>2, Zenon
      <3>3. CASE k = 0
        <4>1. g[0] = f[0] /\ 0 \in 0..m
          OBVIOUS
        <4>2. f[0] = Level(0, f[0 - 1])
          BY <2>1, <4>1, Zenon DEF Levels
        <4>3. Level(0, f[0 - 1]) = Level(0, g[0 - 1])
          BY DEF Level
        <4> QED BY <3>3, <4>1, <4>2, <4>3, Zenon
      <3> QED BY <3>1, <3>2, <3>3
    <2>3. g = [k \in 0..(m + 1) |-> g[k]]
      OBVIOUS
    <2> HIDE DEF g
    <2>4. [k \in 0..(m + 1) |-> g[k]] = [k \in 0..(m + 1) |-> Level(k, g[k - 1])]
      BY <2>2, Zenon
    <2>5. Levels(m + 1, g)
      BY <2>3, <2>4, Zenon DEF Levels
    <2> QED BY <2>5
  <1>3. Nat \subseteq S
    <2> HIDE DEF S
    <2> QED BY <1>1, <1>2, LevelInduction
  <1> QED BY <1>3

\* The soundness of a file whose embedded ones are followed a level further.
LEMMA SoundAt ==
    ASSUME NEW k \in 1..MaxDepth, NEW n \in DOMAIN File
    PROVE  Sound[k][n] <=>
             \A i \in 1..Len(File[n].checks) : CheckHolds(n, i, Sound[k - 1])
  <1>1. MaxDepth \in Nat
    BY BoundsAssumption
  <1>2. PICK f : Levels(MaxDepth, f)
    BY <1>1, LevelsExist
  <1>3. Sound = CHOOSE g : Levels(MaxDepth, g)
    BY DEF Sound, Levels, Level
  <1>4. Levels(MaxDepth, Sound)
    BY <1>2, <1>3, Zenon
  <1>5. Sound[k] = Level(k, Sound[k - 1])
    <2>1. k \in 0..MaxDepth
      BY <1>1
    <2> HIDE DEF Level
    <2> QED BY <1>4, <2>1, Zenon DEF Levels
  <1>6. k # 0
    BY <1>1
  <1> QED BY <1>5, <1>6, Zenon DEF Level

-----------------------------------------------------------------------------
(* What a run has found, against what is true of its file.                  *)

\* Something was said that leaves a report less than the whole truth.
Told(r) == Snapshot(r.limits) # {} \/ \E f \in r.errs : f[1] = "internal"

\* What embedded documents are judged by in the run at place d of the stack.
Under(d) == Sound[MaxDepth - (d - 1)]

\* An embedded file that can be read under some limits.
Opens(m) == File[m].data \in {"document", "over a limit"}

\* An embedded file that is a violation of the file that holds it.
ItemBad(n, m, sound) ==
    \/ File[m].data \in {"malformed", "not PDF", "unreadable", "no claim"}
    \/ Opens(m) /\ ~(sound[m] /\ Admits(File[n], File[m]))

Steps(r) == Checks(r)[r.at].steps
Waited(r) == Steps(r)[r.step].item

\* Every violation reported is one; and they are all there, for the checks that
\* are over, unless something was said or the run is being stopped.
ErrsTrue(r, d) ==
    \A f \in r.errs : /\ f[1] \in {"violation", "internal"}
                      /\ f[1] = "violation" => f \in Violated(r.file, d - 1)
ErrsWhole(r, d) == \A f \in Violated(r.file, d - 1) : f[2] < r.at => f \in r.errs

\* A search has seen what it says it saw.
GoodTrue(r) ==
    /\ r.good <=> \E j \in 1..Len(Steps(r)) : j < r.step /\ Steps(r)[j].item = "good"
    /\ r.declined => Told(r)

\* So has the rule that follows what is embedded.
BadBefore(r, d) ==
    \E j \in 1..Len(Steps(r)) : j < r.step /\ ItemBad(r.file, Steps(r)[j].item, Under(d))

\* A document that is waited for may be followed from here, and a verdict on it
\* that counts is the right one.
WaitTrue(r, d, over) ==
    /\ File[Waited(r)].data \notin {"declined", "malformed", "not PDF"}
    /\ d <= MaxDepth
    /\ r.nested.state = "judged" /\ r.nested.complete /\ ~over =>
         (ItemBad(r.file, Waited(r), Under(d)) <=>
            ~(r.nested.sound /\ Admits(File[r.file], File[Waited(r)])))

RunTruth(r, d, over) ==
    /\ ErrsTrue(r, d)
    /\ over \/ Told(r) \/ ErrsWhole(r, d)
    /\ r.step = 0 => ~r.good /\ ~r.declined /\ ~r.found
    /\ r.step # 0 /\ Checks(r)[r.at].kind = "search" => GoodTrue(r)
    /\ r.step # 0 /\ Checks(r)[r.at].kind = "embedded" =>
         /\ r.found => BadBefore(r, d)
         /\ over \/ Told(r) \/ (BadBefore(r, d) => r.found)
    /\ r.nested.state # "none" => WaitTrue(r, d, over)

\* A run below the last waits for the last's verdict on the file it embeds.
Waits(i) ==
    /\ stack[i].nested.state = "reading"
    /\ stack[i + 1].file = Waited(stack[i])
    /\ Opens(stack[i + 1].file)

\* What the outermost run says once the meter is spent.
SpentTold ==
    /\ meter.dead = "canceled" => Canceled
    /\ meter.dead \in {"work", "walk-depth"} /\ Working =>
         \/ <<meter.dead, 0>> \in stack[1].limits.trips
         \/ stack[1].limits.dropped

TruthInv ==
    /\ \A i \in 1..Len(stack) : RunTruth(stack[i], i, Stopped)
    /\ \A i \in 1..Len(stack) :
         stack[i].nested.state = "reading" /\ lowered => stack[i].nested.refusable
    /\ \A i \in 1..(Len(stack) - 1) : Waits(i)
    /\ SpentTold
    /\ Working => stack[1].file = top /\ report = {}
    /\ ~Working => NoFalseAccusation /\ CompleteUnlessTold /\ StopTold

FullInv == Inv /\ TruthInv

LimitsKept(a, b) == a.trips \subseteq b.trips /\ (a.dropped => b.dropped)

\* A violation of a file is a check of it that does not hold.
LEMMA ViolatedIs ==
    ASSUME NEW n, NEW d, NEW f
    PROVE  f \in Violated(n, d - 1) <=>
             \E i \in 1..Len(File[n].checks) :
               f = <<"violation", i>> /\ ~CheckHolds(n, i, Under(d))
  BY DEF Violated, Under

\* The rule that follows what is embedded fails on an item, and on no other.
LEMMA EmbeddedFails ==
    ASSUME NEW n, NEW i, NEW sound, File[n].checks[i].kind = "embedded"
    PROVE  ~CheckHolds(n, i, sound) <=>
             \E j \in 1..Len(File[n].checks[i].steps) :
               ItemBad(n, File[n].checks[i].steps[j].item, sound)
  BY Zenon DEF CheckHolds, ItemBad, Opens

\* Noting leaves something noted, and loses nothing.
LEMMA NotedTold ==
    ASSUME NEW l \in [trips : SUBSET Trips, dropped : BOOLEAN], NEW trip \in Trips
    PROVE  /\ Snapshot(Noted(l, trip)) # {} /\ LimitsKept(l, Noted(l, trip))
           /\ trip \in Noted(l, trip).trips \/ Noted(l, trip).dropped
  <1>1. CASE trip \in l.trips
    BY <1>1 DEF Noted, Snapshot, LimitsKept
  <1>2. CASE trip \notin l.trips /\ Cardinality(l.trips) >= MaxTrips
    <2>1. Noted(l, trip) = [l EXCEPT !.dropped = TRUE]
      BY <1>2 DEF Noted
    <2>2. Noted(l, trip).dropped = TRUE /\ Noted(l, trip).trips = l.trips
      BY <2>1
    <2> QED BY <2>2 DEF Snapshot, LimitsKept
  <1>3. CASE trip \notin l.trips /\ ~(Cardinality(l.trips) >= MaxTrips)
    <2>1. Noted(l, trip) = [l EXCEPT !.trips = @ \cup {trip}]
      BY <1>3 DEF Noted
    <2>2. Noted(l, trip).dropped = l.dropped /\ Noted(l, trip).trips = l.trips \cup {trip}
      BY <2>1
    <2> QED BY <2>2 DEF Snapshot, LimitsKept
  <1> QED BY <1>1, <1>2, <1>3

\* What was said stays said.
LEMMA ToldKept ==
    ASSUME NEW q, NEW r, LimitsKept(q.limits, r.limits), q.errs \subseteq r.errs, Told(q)
    PROVE  Told(r)
  BY DEF LimitsKept, Told, Snapshot

\* A stopped run claims less.
LEMMA OverMore ==
    ASSUME NEW r, NEW d, NEW a \in BOOLEAN, NEW b \in BOOLEAN, RunTruth(r, d, a), a => b
    PROVE  RunTruth(r, d, b)
  BY DEF RunTruth, WaitTrue

\* Between two checks only what is reported counts.
LEMMA BetweenTruth ==
    ASSUME NEW r, NEW d, NEW over \in BOOLEAN, r.step = 0, r.nested.state = "none",
           ~r.good, ~r.declined, ~r.found, ErrsTrue(r, d), over \/ Told(r) \/ ErrsWhole(r, d)
    PROVE  RunTruth(r, d, over)
  BY DEF RunTruth

\* Another trip noted changes nothing else.
LEMMA NotingTruth ==
    ASSUME NEW q, NEW r, NEW d, NEW over \in BOOLEAN, RunTruth(q, d, over),
           r.file = q.file, r.at = q.at, r.step = q.step, r.good = q.good,
           r.declined = q.declined, r.found = q.found, r.errs = q.errs,
           r.nested = q.nested, LimitsKept(q.limits, r.limits)
    PROVE  RunTruth(r, d, over)
  <1>1. Told(q) => Told(r)
    BY ToldKept
  <1>2. Checks(r) = Checks(q) /\ Steps(r) = Steps(q) /\ Waited(r) = Waited(q)
    BY DEF Checks, Steps, Waited
  <1>3. ErrsTrue(r, d) /\ (ErrsWhole(q, d) => ErrsWhole(r, d))
    BY DEF RunTruth, ErrsTrue, ErrsWhole
  <1>4. GoodTrue(q) => GoodTrue(r)
    BY <1>1, <1>2 DEF GoodTrue
  <1>5. BadBefore(r, d) <=> BadBefore(q, d)
    BY <1>2 DEF BadBefore
  <1>6. WaitTrue(q, d, over) => WaitTrue(r, d, over)
    BY <1>2 DEF WaitTrue
  <1> QED BY <1>1, <1>2, <1>3, <1>4, <1>5, <1>6 DEF RunTruth

\* What is left of a run past its check.
LEMMA PastFields ==
    ASSUME NEW r \in Runs
    PROVE  /\ Past(r).file = r.file /\ Past(r).at = r.at + 1 /\ Past(r).step = 0
           /\ Past(r).errs = r.errs /\ Past(r).limits = r.limits
           /\ Past(r).nested.state = "none" /\ Past(r) \in Runs
           /\ ~Past(r).good /\ ~Past(r).declined /\ ~Past(r).found
  <1>1. Past(r) \in Runs /\ Past(r).nested.state = "none"
    BY PastTyped DEF RunInv
  <1>2. /\ Past(r).file = r.file /\ Past(r).at = r.at + 1 /\ Past(r).step = 0
        /\ Past(r).errs = r.errs /\ Past(r).limits = r.limits
        /\ ~Past(r).good /\ ~Past(r).declined /\ ~Past(r).found
    BY DEF Past, Runs
  <1> QED BY <1>1, <1>2

\* A run past a check whose verdict is in.
LEMMA PastTruth ==
    ASSUME NEW q \in Runs, NEW d, NEW over \in BOOLEAN, ErrsTrue(q, d),
           \/ over \/ Told(q)
           \/ /\ ErrsWhole(q, d)
              /\ <<"violation", q.at>> \in Violated(q.file, d - 1) =>
                    <<"violation", q.at>> \in q.errs
    PROVE  RunTruth(Past(q), d, over)
  <1>1. /\ Past(q).file = q.file /\ Past(q).at = q.at + 1 /\ Past(q).step = 0
        /\ Past(q).errs = q.errs /\ Past(q).limits = q.limits
        /\ Past(q).nested.state = "none" /\ Past(q) \in Runs
        /\ ~Past(q).good /\ ~Past(q).declined /\ ~Past(q).found
    BY PastFields
  <1>2. ErrsTrue(Past(q), d)
    BY <1>1 DEF ErrsTrue
  <1>3. Told(q) => Told(Past(q))
    BY <1>1 DEF Told
  <1>4. ASSUME ErrsWhole(q, d),
               <<"violation", q.at>> \in Violated(q.file, d - 1) =>
                  <<"violation", q.at>> \in q.errs
        PROVE  ErrsWhole(Past(q), d)
    <2> SUFFICES ASSUME NEW f \in Violated(q.file, d - 1), f[2] < q.at + 1
                 PROVE  f \in q.errs
      BY <1>1 DEF ErrsWhole
    <2>1. PICK i \in 1..Len(File[q.file].checks) : f = <<"violation", i>>
      BY ViolatedIs
    <2>2. i \in Nat /\ q.at \in Nat
      <3>1. Len(File[q.file].checks) \in Nat
        BY FileAssumption DEF Runs, IsFile
      <3> QED BY <3>1 DEF Runs
    <2>3. i < q.at \/ i = q.at
      BY <2>1, <2>2
    <2> QED BY <1>4, <2>1, <2>3 DEF ErrsWhole
  <1> QED BY <1>1, <1>2, <1>3, <1>4, BetweenTruth

\* A run that begins has said nothing.
LEMMA NewRunTruth ==
    ASSUME NEW n \in DOMAIN File, NEW d, NEW over \in BOOLEAN
    PROVE  RunTruth(NewRun(n), d, over) /\ NewRun(n).nested.state = "none"
  <1>1. /\ NewRun(n).step = 0 /\ NewRun(n).nested.state = "none" /\ NewRun(n).errs = {}
        /\ NewRun(n).at = 1 /\ NewRun(n).file = n
        /\ ~NewRun(n).good /\ ~NewRun(n).declined /\ ~NewRun(n).found
    BY DEF NewRun, NotNested
  <1>2. ErrsTrue(NewRun(n), d)
    BY <1>1 DEF ErrsTrue
  <1>3. ErrsWhole(NewRun(n), d)
    <2> SUFFICES ASSUME NEW f \in Violated(n, d - 1), f[2] < 1 PROVE FALSE
      BY <1>1 DEF ErrsWhole
    <2>1. PICK i \in 1..Len(File[n].checks) : f = <<"violation", i>>
      BY ViolatedIs
    <2>2. Len(File[n].checks) \in Nat
      BY FileAssumption DEF IsFile
    <2> QED BY <2>1, <2>2
  <1> QED BY <1>1, <1>2, <1>3, BetweenTruth

\* The run in progress moves, and what it then says is true.
LEMMA TruthMoves ==
    ASSUME FullInv, Working, NEW r \in Runs, Becomes(r), r.file = Run.file,
           LimitsKept(Run.limits, r.limits), UNCHANGED <<top, lowered, report>>,
           RunTruth(r, Len(stack), Stopped'),
           r.nested.state = "reading" /\ lowered => r.nested.refusable,
           Stopped => Stopped',
           \/ meter'.dead = meter.dead /\ (Canceled => Canceled')
           \/ meter'.dead = "canceled" /\ Canceled'
    PROVE  TruthInv'
  <1> DEFINE L == Len(stack)
  <1>1. L \in Nat \ {0} /\ stack \in Seq(Runs)
    BY LastRun DEF FullInv, Inv, StackInv
  <1>2. /\ stack' \in Seq(Runs) /\ Len(stack') = L /\ stack'[L] = r
        /\ \A i \in 1..(L - 1) : stack'[i] = stack[i]
    BY <1>1 DEF Becomes
  <1>3. stack'[1].file = stack[1].file /\ LimitsKept(stack[1].limits, stack'[1].limits)
    <2>1. CASE L = 1
      BY <1>2, <2>1 DEF Run
    <2>2. CASE L # 1
      <3>1. stack'[1] = stack[1]
        BY <1>1, <1>2, <2>2
      <3> QED BY <3>1 DEF LimitsKept
    <2> QED BY <2>1, <2>2
  <1> HIDE DEF L
  <1>4. Stopped \in BOOLEAN /\ Stopped' \in BOOLEAN
    BY DEF Stopped
  <1>5. ASSUME NEW i \in 1..L
        PROVE  /\ RunTruth(stack'[i], i, Stopped')
               /\ stack'[i].nested.state = "reading" /\ lowered => stack'[i].nested.refusable
    <2>1. CASE i = L
      BY <1>2, <2>1 DEF L
    <2>2. CASE i # L
      <3>1. i \in 1..(L - 1) /\ i \in 1..Len(stack)
        BY <1>1, <2>2 DEF L
      <3>2. stack'[i] = stack[i]
        BY <1>2, <3>1
      <3>3. /\ RunTruth(stack[i], i, Stopped)
            /\ stack[i].nested.state = "reading" /\ lowered => stack[i].nested.refusable
        BY <3>1 DEF FullInv, TruthInv
      <3>4. RunTruth(stack[i], i, Stopped')
        BY <1>4, <3>3, OverMore
      <3> QED BY <3>2, <3>3, <3>4
    <2> QED BY <2>1, <2>2
  <1>6. ASSUME NEW i \in 1..(L - 1) PROVE Waits(i)'
    <2>1. Waits(i) /\ stack'[i] = stack[i]
      BY <1>2 DEF FullInv, TruthInv, L
    <2>2. stack'[i + 1].file = stack[i + 1].file
      <3>1. CASE i + 1 = L
        BY <1>2, <3>1 DEF Run, L
      <3>2. CASE i + 1 # L
        <4>1. i + 1 \in 1..(L - 1)
          BY <1>1, <3>2
        <4> QED BY <1>2, <4>1
      <3> QED BY <3>1, <3>2
    <2> QED BY <2>1, <2>2 DEF Waits, Waited, Steps, Checks
  <1>7. Working'
    BY <1>1, <1>2 DEF Working
  <1>8. SpentTold'
    <2>1. SpentTold
      BY DEF FullInv, TruthInv
    <2>2. CASE meter'.dead = meter.dead /\ (Canceled => Canceled')
      BY <1>3, <1>7, <2>1, <2>2 DEF SpentTold, LimitsKept
    <2>3. CASE meter'.dead = "canceled" /\ Canceled'
      BY <2>3 DEF SpentTold
    <2> QED BY <2>2, <2>3
  <1>9. stack'[1].file = top' /\ report' = {}
    BY <1>3 DEF FullInv, TruthInv
  <1> QED BY <1>2, <1>5, <1>6, <1>7, <1>8, <1>9 DEF TruthInv

\* The run in progress is unwound: it concludes nothing from where it was.
LEMMA UnwoundTruth ==
    ASSUME FullInv, Working
    PROVE  /\ RunTruth(Unwound(Run), Len(stack), TRUE)
           /\ Unwound(Run) \in Runs /\ Unwound(Run).file = Run.file
           /\ Unwound(Run).limits = Run.limits
           /\ Unwound(Run).nested.state = "none"
  <1>1. Run \in Runs /\ Len(stack) \in Nat \ {0}
    BY LastRun DEF FullInv, Inv
  <1>2. RunTruth(Run, Len(stack), Stopped)
    BY <1>1 DEF FullInv, TruthInv, Run
  <1>3. ErrsTrue(Run, Len(stack))
    BY <1>2 DEF RunTruth
  <1> QED BY <1>1, <1>3, PastTruth, PastFields DEF Unwound

\* The meter stops the run, and the outermost says so unless it is canceled.
LEMMA TruthStops ==
    ASSUME FullInv, Working, NEW why \in Endings \ {"no"}, StoppedFor(why),
           meter'.dead = why, why = "canceled" => Canceled,
           UNCHANGED <<canceledAt, top, lowered, report>>
    PROVE  TruthInv'
  <1> DEFINE L == Len(stack)
             u == Unwound(stack[L])
             s == [stack EXCEPT ![L] = u]
             t == [s EXCEPT ![1].limits = Noted(@, <<why, 0>>)]
  <1>1. L \in Nat \ {0} /\ stack[L] \in Runs /\ stack \in Seq(Runs)
    BY LastRun DEF Run, StackInv, FullInv, Inv
  <1>2. /\ RunTruth(u, L, TRUE) /\ u \in Runs /\ u.file = stack[L].file
        /\ u.limits = stack[L].limits /\ u.nested.state = "none"
    BY UnwoundTruth DEF Run
  <1>3. stack' = s \/ (why # "canceled" /\ stack' = t)
    BY DEF StoppedFor, s, t
  <1> HIDE DEF u
  <1>4. /\ s \in Seq(Runs) /\ Len(s) = L /\ s[L] = u
        /\ \A i \in 1..(L - 1) : s[i] = stack[i]
    BY <1>1, <1>2
  <1>5. (why = "canceled" => Canceled) /\ stack' = s => Canceled \/ why # "canceled"
    OBVIOUS
  <1> HIDE DEF s
  <1>6. s[1] \in Runs
    BY <1>1, <1>4
  <1> DEFINE l == Noted(s[1].limits, <<why, 0>>)
             first == [s[1] EXCEPT !.limits = l]
  <1>7. /\ l \in [trips : SUBSET Trips, dropped : BOOLEAN]
        /\ LimitsKept(s[1].limits, l)
        /\ <<why, 0>> \in l.trips \/ l.dropped
    <2>1. <<why, 0>> \in Trips /\ s[1].limits \in [trips : SUBSET Trips, dropped : BOOLEAN]
      BY <1>6 DEF Words, Trips, Runs
    <2> QED BY <2>1, NotedTyped, NotedTold
  <1>8. t = [s EXCEPT ![1] = first]
    OBVIOUS
  <1> HIDE DEF l
  <1>9. /\ first \in Runs /\ first.file = s[1].file /\ first.at = s[1].at
        /\ first.step = s[1].step /\ first.nested = s[1].nested
        /\ first.good = s[1].good /\ first.declined = s[1].declined
        /\ first.found = s[1].found /\ first.errs = s[1].errs /\ first.limits = l
    BY <1>6, <1>7 DEF Runs
  <1> HIDE DEF first
  <1>10. /\ t \in Seq(Runs) /\ Len(t) = L /\ t[1] = first
         /\ \A i \in 2..L : t[i] = s[i]
    <2> HIDE DEF t, L
    <2>1. 1 \in 1..Len(s)
      BY <1>1, <1>4
    <2> QED BY <1>1, <1>4, <1>8, <1>9, <2>1
  <1> HIDE DEF t
  <1>11. Stopped \in BOOLEAN
    BY DEF Stopped
  <1>12. ASSUME NEW i \in 1..L
         PROVE  /\ RunTruth(s[i], i, TRUE)
                /\ s[i].nested.state = "reading" /\ lowered => s[i].nested.refusable
                /\ s[i].file = stack[i].file
    <2>1. CASE i = L
      BY <1>2, <1>4, <2>1
    <2>2. CASE i # L
      <3>1. i \in 1..(L - 1) /\ s[i] = stack[i]
        BY <1>1, <1>4, <2>2
      <3>2. /\ RunTruth(stack[i], i, Stopped)
            /\ stack[i].nested.state = "reading" /\ lowered => stack[i].nested.refusable
        BY DEF FullInv, TruthInv
      <3>3. RunTruth(stack[i], i, TRUE)
        BY <1>11, <3>2, OverMore
      <3> QED BY <3>1, <3>2, <3>3
    <2> QED BY <2>1, <2>2
  <1>13. RunTruth(first, 1, TRUE)
    <2>1. 1 \in 1..L
      BY <1>1
    <2>2. RunTruth(s[1], 1, TRUE)
      BY <1>12, <2>1
    <2> QED BY <1>7, <1>9, <2>2, NotingTruth
  <1>14. ASSUME NEW i \in 1..L
         PROVE  /\ RunTruth(stack'[i], i, TRUE)
                /\ stack'[i].nested = s[i].nested /\ stack'[i].file = stack[i].file
                /\ stack'[i].at = s[i].at /\ stack'[i].step = s[i].step
    <2>1. CASE stack' = s
      BY <1>12, <2>1
    <2>2. CASE stack' = t /\ i = 1
      BY <1>9, <1>10, <1>12, <1>13, <2>2
    <2>3. CASE stack' = t /\ i # 1
      <3>1. stack'[i] = s[i]
        BY <1>1, <1>10, <2>3
      <3> QED BY <1>12, <3>1
    <2> QED BY <1>3, <2>1, <2>2, <2>3
  <1>15. Len(stack') = L
    BY <1>3, <1>4, <1>10
  <1>16. Working' /\ Stopped' = TRUE
    BY <1>1, <1>15 DEF Working, Stopped
  <1>17. ASSUME NEW i \in 1..(L - 1) PROVE Waits(i)'
    <2>1. Waits(i) /\ i \in 1..L /\ i + 1 \in 1..L
      BY <1>1 DEF FullInv, TruthInv
    <2>2. s[i] = stack[i]
      BY <1>4
    <2>3. stack'[i + 1].file = stack[i + 1].file
      BY <1>14, <2>1
    <2>4. /\ stack'[i].nested = stack[i].nested /\ stack'[i].file = stack[i].file
          /\ stack'[i].at = stack[i].at /\ stack'[i].step = stack[i].step
      BY <1>14, <2>1, <2>2
    <2> QED BY <2>1, <2>3, <2>4 DEF Waits, Waited, Steps, Checks
  <1>18. SpentTold'
    <2>1. CASE why = "canceled"
      BY <2>1 DEF SpentTold, Canceled
    <2>2. CASE why # "canceled" /\ stack' = t
      BY <1>7, <1>9, <1>10, <2>2 DEF SpentTold
    <2>3. CASE why # "canceled" /\ stack' # t
      BY <2>3 DEF StoppedFor, t, s, u
    <2> QED BY <2>1, <2>2, <2>3
  <1>19. stack'[1].file = top' /\ report' = {}
    <2>1. 1 \in 1..L
      BY <1>1
    <2>2. stack'[1].file = stack[1].file
      BY <1>14, <2>1
    <2> QED BY <2>2 DEF FullInv, TruthInv
  <1>20. \A i \in 1..L : stack'[i].nested.state = "reading" /\ lowered => stack'[i].nested.refusable
    BY <1>12, <1>14
  <1> QED BY <1>14, <1>15, <1>16, <1>17, <1>18, <1>19, <1>20 DEF TruthInv

\* Why a charge ends the meter.
LEMMA ChargedWhy ==
    ASSUME meter \in Meters, meter.dead = "no", NEW n \in Nat
    PROVE  Charged(n).dead \in {"no", "work"} \/ (Charged(n).dead = "canceled" /\ Canceled)
  <1> DEFINE m == [meter EXCEPT !.used = @ + n]
  <1>1. m \in Meters /\ m.dead = "no"
    BY DEF Meters
  <1>2. Charged(n) =
          IF m.used < m.nextPoll \/ m.dead # "no" THEN m
          ELSE IF m.used > m.limit THEN [m EXCEPT !.dead = "work", !.nextPoll = 0]
          ELSE IF Canceled THEN [m EXCEPT !.dead = "canceled", !.nextPoll = 0]
          ELSE [m EXCEPT !.nextPoll = Smaller(m.used + Poll, m.limit + 1)]
    BY DEF Charged
  <1> HIDE DEF m
  <1>3. /\ [m EXCEPT !.dead = "work", !.nextPoll = 0].dead = "work"
        /\ [m EXCEPT !.dead = "canceled", !.nextPoll = 0].dead = "canceled"
        /\ [m EXCEPT !.nextPoll = Smaller(m.used + Poll, m.limit + 1)].dead = "no"
    BY <1>1 DEF Meters
  <1> QED BY <1>1, <1>2, <1>3

\* One charge: what the check does when it returns says no more than is true.
LEMMA TruthCharges ==
    ASSUME FullInv, Working, meter.dead = "no", NEW n \in 0..MaxCost,
           NEW r \in Runs, Charge(n, r), UNCHANGED <<canceledAt, top, lowered, report>>,
           r.file = Run.file, LimitsKept(Run.limits, r.limits),
           RunTruth(r, Len(stack), Stopped),
           r.nested.state = "reading" /\ lowered => r.nested.refusable
    PROVE  TruthInv'
  <1>1. /\ MeterInv' /\ (Unwinds(n) <=> meter'.dead # "no")
        /\ meter' = Charged(n) /\ n \in Nat /\ meter \in Meters
    BY ChargeKeeps, BoundsAssumption DEF FullInv, Inv, Charge, MeterInv
  <1>2. CASE ~Unwinds(n)
    <2>1. Becomes(r) /\ meter'.dead = meter.dead
      BY <1>1, <1>2 DEF Charge
    <2>2. Canceled' = Canceled /\ Stopped' = Stopped
      BY <2>1 DEF Canceled, Stopped
    <2> QED BY <2>1, <2>2, TruthMoves
  <1>3. CASE Unwinds(n)
    <2>1. StoppedFor(meter'.dead) /\ meter'.dead \in Endings \ {"no"}
      BY <1>1, <1>3 DEF Charge, MeterInv, Meters
    <2>2. meter'.dead = "canceled" => Canceled
      BY <1>1, ChargedWhy
    <2> QED BY <2>1, <2>2, TruthStops
  <1> QED BY <1>2, <1>3

\* The run in progress moves and charges nothing.
LEMMA TruthFree ==
    ASSUME FullInv, Working, NEW r \in Runs, Becomes(r), r.file = Run.file,
           LimitsKept(Run.limits, r.limits), UNCHANGED <<meter, canceledAt, top, lowered, report>>,
           RunTruth(r, Len(stack), Stopped),
           r.nested.state = "reading" /\ lowered => r.nested.refusable
    PROVE  TruthInv'
  <1>1. Canceled' = Canceled /\ Stopped' = Stopped
    BY DEF Canceled, Stopped
  <1> QED BY <1>1, TruthMoves

-----------------------------------------------------------------------------
(* Every step says what is true, one action at a time.                      *)

\* The run in progress says what is true.
LEMMA RunNow ==
    ASSUME FullInv, Working
    PROVE  /\ RunTruth(Run, Len(stack), Stopped) /\ Stopped \in BOOLEAN
           /\ RunInv(Run) /\ Run \in Runs /\ Len(stack) \in Nat \ {0}
           /\ Run.nested.state = "reading" /\ lowered => Run.nested.refusable
  <1>1. RunInv(Run) /\ Run \in Runs /\ Len(stack) \in Nat \ {0}
    BY LastRun DEF FullInv, Inv
  <1> QED BY <1>1 DEF FullInv, TruthInv, Run, Stopped

\* A check has steps that can be counted.
LEMMA StepsCounted ==
    ASSUME NEW r, RunInv(r), r.step # 0
    PROVE  Len(Steps(r)) \in Nat /\ r.step \in Nat \ {0}
  <1>1. IsCheck(Checks(r)[r.at])
    BY CheckTyped
  <1>2. Len(Checks(r)[r.at].steps) \in Nat
    <2> DEFINE c == Checks(r)[r.at]
               S == [item : IF c.kind = "search" THEN Items ELSE DOMAIN File, cost : 0..MaxCost]
    <2>1. c.steps \in Seq(S)
      BY <1>1 DEF IsCheck
    <2> HIDE DEF S, c
    <2> QED BY <2>1 DEF c
  <1>3. r.step \in Nat
    BY DEF RunInv, Runs
  <1> QED BY <1>2, <1>3 DEF Steps

\* The next check begins with nothing seen of it.
LEMMA BeginTruth == ASSUME FullInv, BeginCheck PROVE TruthInv'
  <1> DEFINE r == [Run EXCEPT !.step = 1]
  <1>1. /\ Working /\ Run.step = 0 /\ Run \in Runs
        /\ RunTruth(Run, Len(stack), Stopped) /\ RunInv(Run)
        /\ Run.nested.state = "reading" /\ lowered => Run.nested.refusable
    BY RunNow DEF BeginCheck, Between
  <1>2. Run.nested.state = "none"
    BY <1>1 DEF RunInv
  <1>3. /\ r \in Runs /\ r.file = Run.file /\ r.at = Run.at /\ r.step = 1
        /\ r.nested = Run.nested /\ r.limits = Run.limits /\ r.errs = Run.errs
        /\ ~r.good /\ ~r.declined /\ ~r.found
    BY <1>1 DEF Runs, RunTruth
  <1>4. Becomes(r)
    BY DEF BeginCheck
  <1> HIDE DEF r
  <1>5. \A j \in 1..Len(Steps(r)) : ~(j < r.step)
    BY <1>3
  <1>6. GoodTrue(r) /\ ~BadBefore(r, Len(stack))
    BY <1>3, <1>5 DEF GoodTrue, BadBefore
  <1>7. ErrsTrue(r, Len(stack)) /\ (ErrsWhole(Run, Len(stack)) => ErrsWhole(r, Len(stack)))
        /\ (Told(Run) => Told(r)) /\ LimitsKept(Run.limits, r.limits)
    BY <1>1, <1>3 DEF RunTruth, ErrsTrue, ErrsWhole, Told, LimitsKept
  <1>8. RunTruth(r, Len(stack), Stopped)
    BY <1>1, <1>2, <1>3, <1>6, <1>7 DEF RunTruth
  <1> QED BY <1>1, <1>2, <1>3, <1>4, <1>7, <1>8, TruthFree DEF BeginCheck

\* A run without its source says so.
LEMMA NoSourceTruth == ASSUME FullInv, NoSourceFile PROVE TruthInv'
  <1> DEFINE n == Len(Checks(Run)) + 1
             l == Noted(Run.limits, <<"no source file", 0>>)
             r == [Run EXCEPT !.at = n, !.limits = l]
  <1>1. /\ Working /\ Run.step = 0 /\ Run \in Runs
        /\ RunTruth(Run, Len(stack), Stopped) /\ RunInv(Run) /\ Stopped \in BOOLEAN
    BY RunNow DEF NoSourceFile, Between
  <1>2. Run.nested.state = "none" /\ ~Run.good /\ ~Run.declined /\ ~Run.found
    BY <1>1 DEF RunInv, RunTruth
  <1>3. n \in Nat \ {0}
    BY <1>1, FileAssumption DEF IsFile, Checks, Runs
  <1>4. /\ l \in [trips : SUBSET Trips, dropped : BOOLEAN]
        /\ Snapshot(l) # {} /\ LimitsKept(Run.limits, l)
    <2>1. <<"no source file", 0>> \in Trips /\ Run.limits \in [trips : SUBSET Trips, dropped : BOOLEAN]
      BY <1>1 DEF Trips, Words, Runs
    <2> QED BY <2>1, NotedTyped, NotedTold
  <1>5. Becomes(r)
    <2>1. [Run EXCEPT !.at = n].limits = Run.limits
      BY <1>1 DEF Runs
    <2> QED BY <2>1 DEF NoSourceFile
  <1> HIDE DEF n, l
  <1>6. /\ r \in Runs /\ r.file = Run.file /\ r.step = 0 /\ r.limits = l
        /\ r.nested = Run.nested /\ r.errs = Run.errs
        /\ r.good = Run.good /\ r.declined = Run.declined /\ r.found = Run.found
    BY <1>1, <1>3, <1>4 DEF Runs
  <1> HIDE DEF r
  <1>7. Told(r) /\ ErrsTrue(r, Len(stack))
    BY <1>1, <1>4, <1>6 DEF Told, RunTruth, ErrsTrue
  <1>8. RunTruth(r, Len(stack), Stopped)
    BY <1>1, <1>2, <1>6, <1>7, BetweenTruth
  <1> QED BY <1>1, <1>2, <1>4, <1>5, <1>6, <1>8, TruthFree DEF NoSourceFile

\* A search one item further has seen that item too.
LEMMA SearchFurther ==
    ASSUME FullInv, Within("search"), NEW q \in Runs,
           q.file = Run.file, q.at = Run.at, q.step = Run.step + 1, q.errs = Run.errs,
           q.nested = Run.nested, LimitsKept(Run.limits, q.limits),
           Run.step <= Len(Steps(Run)),
           q.good <=> Run.good \/ Steps(Run)[Run.step].item = "good",
           q.declined => Told(q)
    PROVE  RunTruth(q, Len(stack), Stopped)
  <1>1. /\ RunTruth(Run, Len(stack), Stopped) /\ RunInv(Run) /\ Run.step # 0
        /\ Run.nested.state = "none" /\ Checks(Run)[Run.at].kind = "search"
    BY RunNow DEF Within, Check
  <1>2. Len(Steps(Run)) \in Nat /\ Run.step \in Nat \ {0}
    BY <1>1, StepsCounted
  <1>3. Steps(q) = Steps(Run) /\ Checks(q) = Checks(Run)
    BY DEF Steps, Checks
  <1>4. GoodTrue(q)
    <2>1. GoodTrue(Run)
      BY <1>1 DEF RunTruth
    <2>2. \A j \in 1..Len(Steps(Run)) : j < q.step <=> j < Run.step \/ j = Run.step
      BY <1>2
    <2>3. Run.step \in 1..Len(Steps(Run))
      BY <1>2
    <2> QED BY <1>3, <2>1, <2>2, <2>3 DEF GoodTrue
  <1>5. /\ ErrsTrue(q, Len(stack)) /\ (ErrsWhole(Run, Len(stack)) => ErrsWhole(q, Len(stack)))
        /\ Told(Run) => Told(q)
    BY <1>1, ToldKept DEF RunTruth, ErrsTrue, ErrsWhole
  <1>6. q.step # 0
    BY <1>2
  <1> QED BY <1>1, <1>3, <1>4, <1>5, <1>6 DEF RunTruth

\* The rule of embedded files, one file further, has judged that file too.
LEMMA FollowFurther ==
    ASSUME FullInv, Working, Run.step # 0, Check.kind = "embedded", NEW q \in Runs,
           q.file = Run.file, q.at = Run.at, q.step = Run.step + 1, q.errs = Run.errs,
           q.nested.state = "none", LimitsKept(Run.limits, q.limits),
           Run.step <= Len(Steps(Run)),
           q.found => Run.found \/ ItemBad(Run.file, Waited(Run), Under(Len(stack))),
           \/ Stopped \/ Told(q)
           \/ Run.found \/ ItemBad(Run.file, Waited(Run), Under(Len(stack))) => q.found
    PROVE  RunTruth(q, Len(stack), Stopped)
  <1> DEFINE d == Len(stack)
  <1>1. /\ RunTruth(Run, d, Stopped) /\ RunInv(Run)
        /\ Checks(Run)[Run.at].kind = "embedded"
    BY RunNow DEF Check
  <1>2. Len(Steps(Run)) \in Nat /\ Run.step \in Nat \ {0}
    BY <1>1, StepsCounted
  <1>3. Steps(q) = Steps(Run) /\ Checks(q) = Checks(Run)
    BY DEF Steps, Checks
  <1>4. BadBefore(q, d) <=> BadBefore(Run, d) \/ ItemBad(Run.file, Waited(Run), Under(d))
    <2>1. \A j \in 1..Len(Steps(Run)) : j < q.step <=> j < Run.step \/ j = Run.step
      BY <1>2
    <2>2. Run.step \in 1..Len(Steps(Run))
      BY <1>2
    <2> QED BY <1>3, <2>1, <2>2 DEF BadBefore, Waited
  <1>5. /\ ErrsTrue(q, d) /\ (ErrsWhole(Run, d) => ErrsWhole(q, d))
        /\ Told(Run) => Told(q)
    BY <1>1, ToldKept DEF RunTruth, ErrsTrue, ErrsWhole
  <1>6. q.step # 0
    BY <1>2
  <1>7. /\ Run.found => BadBefore(Run, d)
        /\ Stopped \/ Told(Run) \/ (BadBefore(Run, d) => Run.found)
        /\ Stopped \/ Told(Run) \/ ErrsWhole(Run, d)
    BY <1>1 DEF RunTruth
  <1>8. Checks(q)[q.at].kind # "search"
    BY <1>1, <1>3
  <1> HIDE DEF d
  <1>9. RunTruth(q, d, Stopped)
    BY <1>3, <1>4, <1>5, <1>6, <1>7, <1>8 DEF RunTruth, d
  <1> QED BY <1>9 DEF d

\* An item of a search is visited.
LEMMA VisitTruth == ASSUME FullInv, Visit PROVE TruthInv'
  <1>1. /\ Working /\ meter.dead = "no" /\ RunInv(Run) /\ Run \in Runs
        /\ Run.step # 0 /\ Run.nested.state = "none" /\ Within("search")
    BY SearchUnspent DEF Visit, FullInv
  <1>2. Step.cost \in 0..MaxCost
    BY <1>1, StepTyped DEF Visit, Step, Check
  <1>3. /\ Advanced \in Runs /\ Advanced.file = Run.file /\ Advanced.at = Run.at
        /\ Advanced.step = Run.step + 1 /\ Advanced.nested = Run.nested
        /\ Advanced.limits = Run.limits /\ Advanced.errs = Run.errs
        /\ Advanced.good = Run.good /\ Advanced.declined = Run.declined
    BY <1>1 DEF Advanced, Runs
  <1>4. /\ Step = Steps(Run)[Run.step] /\ Run.step <= Len(Steps(Run))
        /\ Check.kind = "search"
    BY <1>1 DEF Visit, Step, Steps, Check, Within
  <1>5. Run.declined => Told(Run)
    BY <1>1, <1>4, RunNow DEF RunTruth, GoodTrue, Check
  <1>6. CASE Step.item = "good"
    <2> DEFINE r == [Advanced EXCEPT !.good = TRUE]
    <2>1. /\ r \in Runs /\ r.file = Run.file /\ r.at = Run.at /\ r.step = Run.step + 1
          /\ r.nested = Run.nested /\ r.limits = Run.limits /\ r.errs = Run.errs
          /\ r.good = TRUE /\ r.declined = Run.declined
      BY <1>3 DEF Runs
    <2>2. Charge(Step.cost, r)
      BY <1>6 DEF Visit
    <2> HIDE DEF r
    <2>3. LimitsKept(Run.limits, r.limits) /\ (r.declined => Told(r))
      BY <1>5, <2>1 DEF LimitsKept, Told
    <2>4. RunTruth(r, Len(stack), Stopped)
      BY <1>1, <1>4, <1>6, <2>1, <2>3, SearchFurther
    <2> QED BY <1>1, <1>2, <2>1, <2>2, <2>3, <2>4, TruthCharges DEF Visit
  <1>7. CASE Step.item = "declined"
    <2> DEFINE l == Noted(Run.limits, <<"declined", Run.at>>)
               r == [Advanced EXCEPT !.declined = TRUE, !.limits = l]
    <2>1. /\ l \in [trips : SUBSET Trips, dropped : BOOLEAN]
          /\ Snapshot(l) # {} /\ LimitsKept(Run.limits, l)
      <3>1. <<"declined", Run.at>> \in Trips /\ Run.limits \in [trips : SUBSET Trips, dropped : BOOLEAN]
        BY <1>1 DEF Trips, Words, Runs
      <3> QED BY <3>1, NotedTyped, NotedTold
    <2>2. Charge(Step.cost, r)
      <3>1. [Advanced EXCEPT !.declined = TRUE].limits = Run.limits
        BY <1>3 DEF Runs
      <3> QED BY <1>7, <3>1 DEF Visit
    <2> HIDE DEF l
    <2>3. /\ r \in Runs /\ r.file = Run.file /\ r.at = Run.at /\ r.step = Run.step + 1
          /\ r.nested = Run.nested /\ r.limits = l /\ r.errs = Run.errs
          /\ r.good = Run.good
      BY <1>3, <2>1 DEF Runs
    <2> HIDE DEF r
    <2>4. Told(r)
      BY <2>1, <2>3 DEF Told
    <2>5. RunTruth(r, Len(stack), Stopped)
      BY <1>1, <1>4, <1>7, <2>1, <2>3, <2>4, SearchFurther
    <2> QED BY <1>1, <1>2, <2>1, <2>2, <2>3, <2>5, TruthCharges DEF Visit
  <1>8. CASE Step.item = "other"
    <2>1. Charge(Step.cost, Advanced)
      BY <1>8 DEF Visit
    <2>2. LimitsKept(Run.limits, Advanced.limits) /\ (Advanced.declined => Told(Advanced))
      BY <1>3, <1>5 DEF LimitsKept, Told
    <2>3. RunTruth(Advanced, Len(stack), Stopped)
      BY <1>1, <1>3, <1>4, <1>8, <2>2, SearchFurther
    <2> QED BY <1>1, <1>2, <1>3, <2>1, <2>2, <2>3, TruthCharges DEF Visit
  <1> QED BY <1>6, <1>7, <1>8 DEF Visit

\* A walk too deep: the run is told, and nothing is concluded.
LEMMA TooDeepTruth == ASSUME FullInv, TooDeep PROVE TruthInv'
  <1>1. "walk-depth" \in Endings \ {"no"} /\ meter \in Meters
    BY DEF Endings, FullInv, Inv, MeterInv
  <1>2. meter'.dead = "walk-depth"
    BY <1>1, Ended DEF TooDeep, Spent
  <1> QED BY <1>1, <1>2, TruthStops DEF TooDeep, Within

\* A check that failed says so.
LEMMA FaultTruth == ASSUME FullInv, Fault PROVE TruthInv'
  <1> DEFINE u == Unwound(Run)
             r == [u EXCEPT !.errs = @ \cup {<<"internal", Run.at>>}]
  <1>1. Working /\ Run \in Runs /\ Run.nested.state = "none"
    BY SearchUnspent DEF Fault, FullInv
  <1>2. /\ RunTruth(u, Len(stack), TRUE) /\ u \in Runs /\ u.file = Run.file
        /\ u.limits = Run.limits /\ u.nested.state = "none" /\ u.step = 0
        /\ ~u.good /\ ~u.declined /\ ~u.found
    BY <1>1, UnwoundTruth, PastFields DEF Unwound
  <1>3. Becomes(r)
    BY DEF Fault
  <1> HIDE DEF u
  <1>4. <<"internal", Run.at>> \in Trips
    BY <1>1 DEF Trips, Words, Runs
  <1>5. /\ r \in Runs /\ r.file = Run.file /\ r.step = 0 /\ r.nested.state = "none"
        /\ r.errs = u.errs \cup {<<"internal", Run.at>>} /\ r.limits = Run.limits
        /\ ~r.good /\ ~r.declined /\ ~r.found
    BY <1>2, <1>4 DEF Runs
  <1> HIDE DEF r
  <1>6. ErrsTrue(r, Len(stack))
    BY <1>2, <1>5 DEF RunTruth, ErrsTrue
  <1>7. Told(r)
    <2> DEFINE f == <<"internal", Run.at>>
    <2>1. f \in r.errs /\ f[1] = "internal"
      BY <1>5
    <2> HIDE DEF f
    <2> QED BY <2>1 DEF Told
  <1>8. RunTruth(r, Len(stack), Stopped) /\ LimitsKept(Run.limits, r.limits)
    BY <1>5, <1>6, <1>7, BetweenTruth DEF LimitsKept, Stopped
  <1> QED BY <1>1, <1>3, <1>5, <1>8, TruthFree DEF Fault

\* A check that is over says whether it holds, unless something was said.
LEMMA EndTruth ==
    ASSUME FullInv, Working, UNCHANGED <<meter, canceledAt, top, lowered, report>>,
           NEW asserts \in BOOLEAN, Run.step # 0,
           Becomes(Past(IF asserts THEN [Run EXCEPT !.errs = @ \cup {<<"violation", Run.at>>}]
                        ELSE Run)),
           asserts => ~CheckHolds(Run.file, Run.at, Under(Len(stack))),
           \/ Stopped \/ Told(Run)
           \/ ~CheckHolds(Run.file, Run.at, Under(Len(stack))) => asserts
    PROVE  TruthInv'
  <1> DEFINE v == <<"violation", Run.at>>
             q == IF asserts THEN [Run EXCEPT !.errs = @ \cup {v}] ELSE Run
             d == Len(stack)
  <1>1. RunTruth(Run, d, Stopped) /\ Run \in Runs /\ RunInv(Run) /\ Stopped \in BOOLEAN
    BY RunNow
  <1>2. v \in Trips /\ v[1] = "violation"
    BY <1>1 DEF Trips, Words, Runs
  <1>3. v \in Violated(Run.file, d - 1) <=> ~CheckHolds(Run.file, Run.at, Under(d))
    <2>1. Run.at \in 1..Len(File[Run.file].checks)
      BY <1>1 DEF RunInv, Checks
    <2>2. \A i : v = <<"violation", i>> => i = Run.at
      OBVIOUS
    <2> HIDE DEF d, v
    <2> QED BY <2>1, <2>2, ViolatedIs DEF v
  <1> HIDE DEF v, d
  <1>4. /\ q \in Runs /\ q.file = Run.file /\ q.at = Run.at /\ q.limits = Run.limits
        /\ q.errs = IF asserts THEN Run.errs \cup {v} ELSE Run.errs
    BY <1>1, <1>2 DEF Runs
  <1>5. Becomes(Past(q))
    BY DEF v
  <1> HIDE DEF q
  <1>6. asserts => v \in Violated(Run.file, d - 1)
    BY <1>3 DEF d
  <1>7. ErrsTrue(q, d)
    BY <1>1, <1>2, <1>4, <1>6 DEF RunTruth, ErrsTrue
  <1>8. Told(Run) => Told(q)
    BY <1>4, ToldKept DEF LimitsKept
  <1>9. ErrsWhole(Run, d) => ErrsWhole(q, d)
    BY <1>4 DEF ErrsWhole
  <1>10. \/ Stopped \/ Told(q)
         \/ /\ ErrsWhole(q, d)
            /\ v \in Violated(q.file, d - 1) => v \in q.errs
    <2>1. Stopped \/ Told(Run) \/ ErrsWhole(Run, d)
      BY <1>1 DEF RunTruth
    <2>2. Stopped \/ Told(Run) \/ (v \in Violated(Run.file, d - 1) => asserts)
      BY <1>3 DEF d
    <2> QED BY <1>4, <1>8, <1>9, <2>1, <2>2
  <1>11. RunTruth(Past(q), d, Stopped)
    BY <1>1, <1>4, <1>7, <1>10, PastTruth DEF v
  <1>12. /\ Past(q) \in Runs /\ Past(q).file = Run.file
         /\ LimitsKept(Run.limits, Past(q).limits) /\ Past(q).nested.state = "none"
    BY <1>4, PastFields DEF LimitsKept
  <1> QED BY <1>5, <1>11, <1>12, TruthFree DEF d

\* A search that ends found what it looked for, or asserts.
LEMMA EndCheckTruth == ASSUME FullInv, EndCheck PROVE TruthInv'
  <1>1. /\ Working /\ RunTruth(Run, Len(stack), Stopped) /\ RunInv(Run) /\ Run.step # 0
        /\ Checks(Run)[Run.at].kind = "search" /\ Run \in Runs
    BY RunNow DEF EndCheck, Within, Check
  <1>2. Len(Steps(Run)) \in Nat /\ Run.step \in Nat /\ Run.step > Len(Steps(Run))
    BY <1>1, StepsCounted DEF EndCheck, Check, Steps
  <1>3. \A j \in 1..Len(Steps(Run)) : j < Run.step
    BY <1>2
  <1>4. GoodTrue(Run)
    BY <1>1 DEF RunTruth
  <1>5. Run.good <=> CheckHolds(Run.file, Run.at, Under(Len(stack)))
    <2>1. Run.good <=> \E j \in 1..Len(Steps(Run)) : Steps(Run)[j].item = "good"
      BY <1>3, <1>4 DEF GoodTrue
    <2> QED BY <1>1, <2>1 DEF CheckHolds, Steps, Checks
  <1>6. /\ Asserts(Run) \in BOOLEAN
        /\ Asserts(Run) => ~CheckHolds(Run.file, Run.at, Under(Len(stack)))
        /\ Told(Run) \/ (~CheckHolds(Run.file, Run.at, Under(Len(stack))) => Asserts(Run))
    BY <1>4, <1>5 DEF Asserts, GoodTrue
  <1> QED BY <1>1, <1>6, EndTruth DEF EndCheck

\* The rule of embedded files, at its end or where it was stopped.
LEMMA EndEmbeddedTruth == ASSUME FullInv, EndEmbedded PROVE TruthInv'
  <1> DEFINE d == Len(stack)
  <1>1. /\ Working /\ RunTruth(Run, d, Stopped) /\ RunInv(Run) /\ Run.step # 0
        /\ Checks(Run)[Run.at].kind = "embedded" /\ Run \in Runs /\ Run.found \in BOOLEAN
    BY RunNow DEF EndEmbedded, Within, Check, Runs
  <1>2. Len(Steps(Run)) \in Nat /\ Run.step \in Nat
    BY <1>1, StepsCounted
  <1>3. ~CheckHolds(Run.file, Run.at, Under(d)) <=>
          \E j \in 1..Len(Steps(Run)) : ItemBad(Run.file, Steps(Run)[j].item, Under(d))
    BY <1>1, EmbeddedFails DEF Steps, Checks
  <1>4. /\ Run.found => BadBefore(Run, d)
        /\ Stopped \/ Told(Run) \/ (BadBefore(Run, d) => Run.found)
    BY <1>1 DEF RunTruth
  <1> HIDE DEF d
  <1>5. Run.found => ~CheckHolds(Run.file, Run.at, Under(d))
    BY <1>3, <1>4 DEF BadBefore
  <1>6. \/ Stopped \/ Told(Run)
        \/ ~CheckHolds(Run.file, Run.at, Under(d)) => Run.found
    <2>1. CASE Stopped
      BY <2>1
    <2>2. CASE Run.step > Len(Steps(Run))
      <3>1. \A j \in 1..Len(Steps(Run)) : j < Run.step
        BY <1>2, <2>2
      <3> QED BY <1>3, <1>4, <3>1 DEF BadBefore
    <2> QED BY <2>1, <2>2 DEF EndEmbedded, Check, Steps
  <1> QED BY <1>1, <1>5, <1>6, EndTruth DEF EndEmbedded, d

\* What the rule is at, while it follows.
LEMMA FollowingNow ==
    ASSUME FullInv, Following
    PROVE  /\ Working /\ RunInv(Run) /\ Run \in Runs /\ Run.step # 0
           /\ Check.kind = "embedded" /\ Run.nested.state = "none"
           /\ Run.step <= Len(Steps(Run)) /\ Run.step <= Len(Check.steps)
           /\ Embedded = File[Waited(Run)] /\ Len(stack) \in Nat \ {0}
           /\ Run.found => BadBefore(Run, Len(stack))
           /\ ~Stopped
           /\ Advanced \in Runs /\ Advanced.file = Run.file /\ Advanced.at = Run.at
           /\ Advanced.step = Run.step + 1 /\ Advanced.nested = Run.nested
           /\ Advanced.limits = Run.limits /\ Advanced.errs = Run.errs
           /\ Advanced.found = Run.found
  <1>1. /\ Working /\ RunInv(Run) /\ Run \in Runs /\ Run.step # 0
        /\ Check.kind = "embedded" /\ Run.nested.state = "none" /\ ~Stopped
        /\ Run.step <= Len(Check.steps) /\ Len(stack) \in Nat \ {0}
        /\ RunTruth(Run, Len(stack), Stopped)
    BY RunNow DEF Following, Within
  <1>2. /\ Advanced \in Runs /\ Advanced.file = Run.file /\ Advanced.at = Run.at
        /\ Advanced.step = Run.step + 1 /\ Advanced.nested = Run.nested
        /\ Advanced.limits = Run.limits /\ Advanced.errs = Run.errs
        /\ Advanced.found = Run.found
    BY <1>1 DEF Advanced, Runs
  <1>3. Embedded = File[Waited(Run)] /\ Run.step <= Len(Steps(Run))
    BY <1>1 DEF Embedded, Step, Waited, Steps, Check
  <1>4. Run.found => BadBefore(Run, Len(stack))
    BY <1>1 DEF RunTruth, Check
  <1> QED BY <1>1, <1>2, <1>3, <1>4

\* A file that is not followed is told, or is itself what is wrong.
LEMMA NotFollowedTruth == ASSUME FullInv, NotFollowed PROVE TruthInv'
  <1>1. Following
    BY DEF NotFollowed
  <1>2. ASSUME NEW trip \in Trips, Becomes([Advanced EXCEPT !.limits = Noted(@, trip)])
        PROVE  TruthInv'
    <2> DEFINE l == Noted(Run.limits, trip)
               r == [Advanced EXCEPT !.limits = l]
    <2>1. /\ l \in [trips : SUBSET Trips, dropped : BOOLEAN]
          /\ Snapshot(l) # {} /\ LimitsKept(Run.limits, l)
      <3>1. Run.limits \in [trips : SUBSET Trips, dropped : BOOLEAN]
        BY <1>1, FollowingNow DEF Runs
      <3> QED BY <3>1, NotedTyped, NotedTold
    <2>2. Becomes(r)
      BY <1>1, <1>2, FollowingNow
    <2> HIDE DEF l
    <2>3. /\ r \in Runs /\ r.file = Run.file /\ r.at = Run.at /\ r.step = Run.step + 1
          /\ r.nested = Run.nested /\ r.limits = l /\ r.errs = Run.errs
          /\ r.found = Run.found
      BY <1>1, <2>1, FollowingNow DEF Runs
    <2> HIDE DEF r
    <2>4. Told(r)
      BY <2>1, <2>3 DEF Told
    <2>5. RunTruth(r, Len(stack), Stopped)
      BY <1>1, <2>1, <2>3, <2>4, FollowingNow, FollowFurther
    <2>6. Working /\ r.nested.state = "none"
      BY <1>1, <2>3, FollowingNow
    <2> QED BY <2>1, <2>2, <2>3, <2>5, <2>6, TruthFree DEF NotFollowed
  <1>3. ASSUME Embedded.data \in {"malformed", "not PDF"}, Becomes([Advanced EXCEPT !.found = TRUE])
        PROVE  TruthInv'
    <2> DEFINE r == [Advanced EXCEPT !.found = TRUE]
    <2>1. /\ r \in Runs /\ r.file = Run.file /\ r.at = Run.at /\ r.step = Run.step + 1
          /\ r.nested = Run.nested /\ r.limits = Run.limits /\ r.errs = Run.errs
          /\ r.found = TRUE
      BY <1>1, FollowingNow DEF Runs
    <2>2. Becomes(r)
      BY <1>3
    <2> HIDE DEF r
    <2>3. ItemBad(Run.file, Waited(Run), Under(Len(stack)))
      BY <1>1, <1>3, FollowingNow DEF ItemBad
    <2>4. LimitsKept(Run.limits, r.limits)
      BY <2>1 DEF LimitsKept
    <2>5. RunTruth(r, Len(stack), Stopped)
      BY <1>1, <2>1, <2>3, <2>4, FollowingNow, FollowFurther
    <2>6. Working /\ r.nested.state = "none"
      BY <1>1, <2>1, FollowingNow
    <2> QED BY <2>1, <2>2, <2>4, <2>5, <2>6, TruthFree DEF NotFollowed
  <1>4. <<"declined", Run.at>> \in Trips /\ <<"embedded", Run.at>> \in Trips
    BY <1>1, FollowingNow DEF Trips, Words, Runs
  <1> QED BY <1>2, <1>3, <1>4 DEF NotFollowed

\* The rule waits for a document, or has a verdict on it that counts for what it
\* should.
LEMMA WaitingTruth ==
    ASSUME FullInv, Working, NEW w \in Nested, Becomes([Run EXCEPT !.nested = w]),
           UNCHANGED <<canceledAt, top, lowered, report>>, meter'.dead = meter.dead,
           Run.step # 0, Check.kind = "embedded",
           File[Waited(Run)].data \notin {"declined", "malformed", "not PDF"},
           Len(stack) <= MaxDepth,
           w.state = "reading" /\ lowered => w.refusable,
           w.state = "judged" /\ w.complete /\ ~Stopped =>
              (ItemBad(Run.file, Waited(Run), Under(Len(stack))) <=>
                 ~(w.sound /\ Admits(File[Run.file], File[Waited(Run)])))
    PROVE  TruthInv'
  <1> DEFINE r == [Run EXCEPT !.nested = w]
             d == Len(stack)
  <1>1. RunTruth(Run, d, Stopped) /\ Run \in Runs /\ Stopped \in BOOLEAN
        /\ Checks(Run)[Run.at].kind = "embedded"
    BY RunNow DEF Check
  <1>2. /\ r \in Runs /\ r.file = Run.file /\ r.at = Run.at /\ r.step = Run.step
        /\ r.nested = w /\ r.errs = Run.errs /\ r.limits = Run.limits
        /\ r.found = Run.found
    BY <1>1 DEF Runs
  <1>3. Becomes(r)
    OBVIOUS
  <1> HIDE DEF r, d
  <1>4. Steps(r) = Steps(Run) /\ Checks(r) = Checks(Run) /\ Waited(r) = Waited(Run)
    BY <1>2 DEF Steps, Checks, Waited
  <1>5. WaitTrue(r, d, Stopped)
    BY <1>2, <1>4 DEF WaitTrue, d
  <1>6. BadBefore(r, d) <=> BadBefore(Run, d)
    BY <1>2, <1>4 DEF BadBefore
  <1>7. /\ ErrsTrue(r, d) /\ (ErrsWhole(Run, d) => ErrsWhole(r, d))
        /\ Told(Run) => Told(r)
        /\ LimitsKept(Run.limits, r.limits)
    BY <1>1, <1>2 DEF RunTruth, ErrsTrue, ErrsWhole, Told, LimitsKept
  <1>8. /\ Run.found => BadBefore(Run, d)
        /\ Stopped \/ Told(Run) \/ (BadBefore(Run, d) => Run.found)
        /\ Stopped \/ Told(Run) \/ ErrsWhole(Run, d)
    BY <1>1 DEF RunTruth
  <1>9. Checks(r)[r.at].kind # "search" /\ r.step # 0
    BY <1>1, <1>2, <1>4
  <1>10. RunTruth(r, d, Stopped)
    BY <1>2, <1>4, <1>5, <1>6, <1>7, <1>8, <1>9 DEF RunTruth
  <1>11. Stopped' = Stopped /\ Canceled' = Canceled
    BY DEF Stopped, Canceled
  <1> QED BY <1>2, <1>3, <1>7, <1>10, <1>11, TruthMoves DEF d

\* The embedded document is one the run may follow.
LEMMA TakeTruth == ASSUME FullInv, TakeEmbedded PROVE TruthInv'
  <1> DEFINE w == [NotNested EXCEPT !.state = "reading", !.refusable = (Canceled \/ lowered)]
  <1>1. /\ w \in Nested /\ w.state = "reading" /\ (lowered => w.refusable)
        /\ OverBudget \in Nested /\ OverBudget.state = "judged" /\ ~OverBudget.complete
    BY DEF NotNested, Nested, OverBudget
  <1>2. Becomes([Run EXCEPT !.nested = w]) \/ Becomes([Run EXCEPT !.nested = OverBudget])
    BY DEF TakeEmbedded
  <1> HIDE DEF w
  <1>3. Following /\ Embedded.data \notin {"declined", "malformed", "not PDF"} /\ ~TooNested
    BY DEF TakeEmbedded
  <1>4. Len(stack) <= MaxDepth
    <2>1. Len(stack) \in Nat /\ MaxDepth \in Nat
      BY <1>3, FollowingNow, BoundsAssumption
    <2>2. ~(Len(stack) - 1 >= MaxDepth)
      BY <1>3 DEF TooNested, Depth
    <2> QED BY <2>1, <2>2
  <1>5. File[Waited(Run)].data \notin {"declined", "malformed", "not PDF"}
    BY <1>3, FollowingNow
  <1> QED BY <1>1, <1>2, <1>3, <1>4, <1>5, FollowingNow, WaitingTruth DEF TakeEmbedded

\* The run over the embedded document begins, and what embeds it waits.
LEMMA NestsTruth ==
    ASSUME FullInv, Working, meter'.dead = meter.dead, UNCHANGED <<canceledAt, top, lowered, report>>,
           Run.nested.state = "reading", Waited(Run) \in DOMAIN File,
           Opens(Waited(Run)),
           Len(stack') = Len(stack) + 1,
           stack'[Len(stack) + 1] = NewRun(Waited(Run)),
           \A i \in 1..Len(stack) : stack'[i] = stack[i]
    PROVE  TruthInv'
  <1> DEFINE L == Len(stack)
             new == NewRun(Waited(Run))
  <1>1. L \in Nat \ {0} /\ stack \in Seq(Runs)
    BY LastRun DEF FullInv, Inv, StackInv
  <1>2. /\ new \in Runs /\ new.file = Waited(Run) /\ new.nested.state = "none"
        /\ RunTruth(new, L + 1, Stopped)
    BY NewRunTyped, NewRunTruth DEF RunInv, NewRun, Stopped
  <1> HIDE DEF L
  <1>4. /\ Len(stack') = L + 1 /\ stack'[L + 1] = new
        /\ \A i \in 1..L : stack'[i] = stack[i]
    BY DEF L
  <1> HIDE DEF new
  <1>5. Stopped' = Stopped /\ Canceled' = Canceled /\ Working'
    BY <1>1, <1>4 DEF Stopped, Canceled, Working
  <1>6. ASSUME NEW i \in 1..(L + 1)
        PROVE  /\ RunTruth(stack'[i], i, Stopped')
               /\ stack'[i].nested.state = "reading" /\ lowered => stack'[i].nested.refusable
    <2>1. CASE i = L + 1
      BY <1>2, <1>4, <1>5, <2>1
    <2>2. CASE i # L + 1
      <3>1. i \in 1..L
        BY <1>1, <2>2
      <3> QED BY <1>4, <1>5, <3>1 DEF FullInv, TruthInv, L
    <2> QED BY <2>1, <2>2
  <1>7. ASSUME NEW i \in 1..L PROVE Waits(i)'
    <2>1. CASE i = L
      <3>1. stack'[i] = Run /\ stack'[i + 1] = new
        BY <1>4, <2>1 DEF Run, L
      <3> QED BY <1>2, <3>1 DEF Waits
    <2>2. CASE i # L
      <3>1. i \in 1..(L - 1) /\ i + 1 \in 1..L
        BY <1>1, <2>2
      <3>2. Waits(i) /\ stack'[i] = stack[i] /\ stack'[i + 1] = stack[i + 1]
        BY <1>4, <3>1 DEF FullInv, TruthInv, L
      <3> QED BY <3>2 DEF Waits
    <2> QED BY <2>1, <2>2
  <1>8. stack'[1] = stack[1]
    BY <1>1, <1>4
  <1>9. SpentTold' /\ stack'[1].file = top' /\ report' = {}
    BY <1>5, <1>8 DEF FullInv, TruthInv, SpentTold
  <1>10. \A i \in 1..(Len(stack') - 1) : Waits(i)'
    <2>1. Len(stack') - 1 = L
      BY <1>1, <1>4
    <2> QED BY <1>7, <2>1
  <1> QED BY <1>4, <1>5, <1>6, <1>9, <1>10 DEF TruthInv

\* The read begins a run, or fails for a reason that is told from the file's.
LEMMA ReadTruth == ASSUME FullInv, ReadEmbedded PROVE TruthInv'
  <1>1. /\ Working /\ RunInv(Run) /\ Run \in Runs /\ Run.nested.state = "reading"
        /\ RunTruth(Run, Len(stack), Stopped) /\ (lowered => Run.nested.refusable)
        /\ Run.step # 0 /\ Check.kind = "embedded" /\ Run.step <= Len(Check.steps)
        /\ Run.nested.refusable \in BOOLEAN
    BY RunNow DEF ReadEmbedded, RunInv, Check, Runs, Nested
  <1>2. Step.cost \in 0..MaxCost /\ Waited(Run) \in DOMAIN File /\ Step.item = Waited(Run)
        /\ Embedded = File[Waited(Run)]
    <2>1. Step = Steps(Run)[Run.step]
      BY DEF Step, Steps, Check
    <2> QED BY <1>1, <2>1, StepTyped DEF Steps, Check, Waited, Embedded
  <1>3. /\ File[Waited(Run)].data \notin {"declined", "malformed", "not PDF"}
        /\ Len(stack) <= MaxDepth
    BY <1>1 DEF RunTruth, WaitTrue
  <1>4. /\ FailedRead \in Nested /\ FailedRead.state = "judged" /\ FailedRead.sound = FALSE
        /\ FailedRead.complete = ~Run.nested.refusable
        /\ OverBudget \in Nested /\ OverBudget.state = "judged" /\ ~OverBudget.complete
    BY <1>1 DEF NotNested, Nested, OverBudget, FailedRead
  <1>5. CASE Stopped
    BY <1>1, <1>3, <1>4, <1>5, WaitingTruth DEF ReadEmbedded
  <1>6. CASE ~Stopped /\ Unwinds(Step.cost)
    <2>1. Charge(Step.cost, Run) /\ meter.dead = "no"
      BY <1>6 DEF ReadEmbedded, Stopped
    <2>2. LimitsKept(Run.limits, Run.limits)
      BY DEF LimitsKept
    <2> QED BY <1>1, <1>2, <2>1, <2>2, TruthCharges DEF ReadEmbedded
  <1>7. CASE ~Stopped /\ ~Unwinds(Step.cost)
    <2>1. meter' = Charged(Step.cost) /\ meter.dead = "no" /\ UNCHANGED canceledAt
      BY <1>7 DEF ReadEmbedded, Stopped
    <2>2. meter'.dead = meter.dead
      BY <1>2, <1>7, <2>1, ChargeKeeps DEF FullInv, Inv
    <2>3. CASE stack' = Append(stack, NewRun(Step.item))
               /\ Opens(Waited(Run))
      <3>1. stack \in Seq(Runs) /\ NewRun(Waited(Run)) \in Runs
        BY <1>2, NewRunTyped DEF FullInv, Inv, StackInv, RunInv
      <3>2. /\ Len(stack') = Len(stack) + 1
            /\ stack'[Len(stack) + 1] = NewRun(Waited(Run))
            /\ \A i \in 1..Len(stack) : stack'[i] = stack[i]
        BY <1>2, <2>3, <3>1
      <3> QED BY <1>1, <1>2, <2>2, <2>3, <3>2, NestsTruth DEF ReadEmbedded
    <2>4. CASE Becomes([Run EXCEPT !.nested = OverBudget])
      BY <1>1, <1>3, <1>4, <2>2, <2>4, WaitingTruth DEF ReadEmbedded
    <2>5. CASE /\ Becomes([Run EXCEPT !.nested = FailedRead])
               /\ \/ Embedded.data \in {"unreadable", "no claim"}
                  \/ Embedded.data = "over a limit" /\ lowered
      <3>1. FailedRead.complete => ItemBad(Run.file, Waited(Run), Under(Len(stack)))
        BY <1>1, <1>2, <1>4, <2>5 DEF ItemBad, Opens
      <3> QED BY <1>1, <1>3, <1>4, <2>2, <2>5, <3>1, WaitingTruth DEF ReadEmbedded
    <2> QED BY <1>2, <1>7, <2>3, <2>4, <2>5 DEF ReadEmbedded, Opens
  <1> QED BY <1>5, <1>6, <1>7

\* The verdict is believed only while nothing has stopped the run.
LEMMA JudgeTruth == ASSUME FullInv, Judge PROVE TruthInv'
  <1>1. /\ Working /\ RunInv(Run) /\ Run \in Runs
        /\ Run.nested.state = "judged"
        /\ RunTruth(Run, Len(stack), Stopped)
        /\ Run.step # 0 /\ Check.kind = "embedded" /\ Run.step <= Len(Steps(Run))
    BY RunNow DEF Judge, RunInv, Check, Steps
  <1>2. CASE StoppedMeanwhile
    <2>1. meter \in Meters
      BY DEF FullInv, Inv, MeterInv
    <2>2. /\ meter.dead = "no" => meter'.dead = "canceled" /\ Canceled
          /\ meter.dead # "no" => meter'.dead = meter.dead
      <3>1. "canceled" \in Endings /\ meter.dead \in Endings
        BY <2>1 DEF Endings, Meters
      <3>2. Spent("canceled").dead = "canceled" /\ Spent(meter.dead).dead = meter.dead
        BY <2>1, <3>1, Ended DEF Spent
      <3> QED BY <1>2, <3>2 DEF Judge, StoppedMeanwhile, Stopped
    <2>3. Canceled' = Canceled /\ Stopped' = TRUE
      BY <1>2, <2>2 DEF Judge, Canceled, StoppedMeanwhile, Stopped
    <2>4. Becomes(Unwound(Run))
      BY <1>2 DEF Judge
    <2>5. LimitsKept(Run.limits, Unwound(Run).limits)
      BY <1>1, UnwoundTruth DEF LimitsKept
    <2> QED BY <1>1, <2>2, <2>3, <2>4, <2>5, UnwoundTruth, TruthMoves DEF Judge
  <1>3. CASE ~StoppedMeanwhile
    <2> DEFINE finding == Run.found \/ (Run.nested.complete
                             /\ ~(Run.nested.sound /\ Admits(File[Run.file], Embedded)))
               l == IF Run.nested.complete THEN Run.limits
                    ELSE Noted(Run.limits, <<"embedded", Run.at>>)
               r == [Advanced EXCEPT !.nested = NotNested, !.found = finding, !.limits = l]
    <2>1. /\ NotNested \in Nested /\ NotNested.state = "none" /\ finding \in BOOLEAN
          /\ Embedded = File[Waited(Run)]
      BY <1>1 DEF NotNested, Nested, Runs, Embedded, Step, Check, Waited, Steps
    <2>2. /\ l \in [trips : SUBSET Trips, dropped : BOOLEAN]
          /\ LimitsKept(Run.limits, l)
          /\ ~Run.nested.complete => Snapshot(l) # {}
      <3>1. /\ <<"embedded", Run.at>> \in Trips
            /\ Run.limits \in [trips : SUBSET Trips, dropped : BOOLEAN]
        BY <1>1 DEF Trips, Words, Runs
      <3> QED BY <3>1, NotedTyped, NotedTold DEF LimitsKept
    <2>3. /\ Advanced \in Runs /\ Advanced.file = Run.file /\ Advanced.at = Run.at
          /\ Advanced.step = Run.step + 1 /\ Advanced.errs = Run.errs
          /\ Advanced.found = Run.found /\ Advanced.limits = Run.limits
      BY <1>1 DEF Advanced, Runs
    <2>4. Becomes(r)
      <3>1. /\ [Advanced EXCEPT !.nested = NotNested].found = Run.found
            /\ [Advanced EXCEPT !.nested = NotNested, !.found = finding].limits = Run.limits
        BY <2>3 DEF Runs
      <3> QED BY <1>3, <3>1 DEF Judge
    <2>5. finding <=> \/ Run.found
                      \/ /\ Run.nested.complete
                         /\ ~(Run.nested.sound /\ Admits(File[Run.file], File[Waited(Run)]))
      BY <2>1
    <2> HIDE DEF finding, l
    <2>6. /\ r \in Runs /\ r.file = Run.file /\ r.at = Run.at /\ r.step = Run.step + 1
          /\ r.errs = Run.errs /\ r.nested.state = "none" /\ r.found = finding
          /\ r.limits = l
      BY <2>1, <2>2, <2>3 DEF Runs
    <2> HIDE DEF r
    <2>7. ~Stopped /\ UNCHANGED meter
      BY <1>3 DEF Judge, StoppedMeanwhile
    <2>8. Run.nested.complete =>
            (ItemBad(Run.file, Waited(Run), Under(Len(stack))) <=>
               ~(Run.nested.sound /\ Admits(File[Run.file], File[Waited(Run)])))
      BY <1>1, <2>7 DEF RunTruth, WaitTrue
    <2>9. ~Run.nested.complete => Told(r)
      BY <2>2, <2>6 DEF Told
    <2>10. RunTruth(r, Len(stack), Stopped)
      BY <1>1, <2>2, <2>5, <2>6, <2>8, <2>9, FollowFurther
    <2> QED BY <1>1, <2>2, <2>4, <2>6, <2>7, <2>10, TruthFree DEF Judge
  <1> QED BY <1>2, <1>3

\* The accusations of a report are the run's; and one with no checker finding
\* says that nothing was told, and holds nothing else.
LEMMA FindingsSay ==
    ASSUME NEW r \in Runs, NEW d, ErrsTrue(r, d)
    PROVE  /\ Accusations(Findings(r)) \subseteq Violated(r.file, d - 1)
           /\ CheckerFindings(Findings(r)) = {} =>
                ~Told(r) /\ ~Canceled /\ Findings(r) = r.errs
  <1> DEFINE ts == ReadTrips(r) \cup Snapshot(r.limits)
                     \cup IF Canceled THEN {<<"canceled", 0>>} ELSE {}
             ls == {<<"limit", t>> : t \in ts}
  <1>1. Findings(r) = r.errs \cup ls
    BY DEF Findings
  <1>2. \A f \in ls : f[1] = "limit"
    OBVIOUS
  <1>3. \A t \in ts : <<"limit", t>> \in ls
    OBVIOUS
  <1>4. Snapshot(r.limits) \subseteq ts /\ (Canceled => <<"canceled", 0>> \in ts)
    OBVIOUS
  <1> HIDE DEF ts, ls
  <1>5. Accusations(Findings(r)) \subseteq Violated(r.file, d - 1)
    BY <1>1, <1>2 DEF Accusations, ErrsTrue
  <1>6. ASSUME CheckerFindings(Findings(r)) = {}
        PROVE  ~Told(r) /\ ~Canceled /\ Findings(r) = r.errs
    <2>1. \A f \in r.errs : f[1] # "internal"
      BY <1>1, <1>6 DEF CheckerFindings
    <2>2. ls = {}
      BY <1>1, <1>2, <1>6 DEF CheckerFindings
    <2>3. ts = {}
      BY <1>3, <2>2
    <2> QED BY <1>1, <1>4, <2>1, <2>2, <2>3 DEF Told
  <1> QED BY <1>5, <1>6

\* A report with no checker finding, of a run that ran to its end, is the truth.
LEMMA ReportWhole ==
    ASSUME NEW r \in Runs, NEW d, RunTruth(r, d, Stopped), ~Stopped,
           r.at > Len(Checks(r)), CheckerFindings(Findings(r)) = {}
    PROVE  Findings(r) = Violated(r.file, d - 1)
  <1>1. ErrsTrue(r, d)
    BY DEF RunTruth
  <1>2. ~Told(r) /\ Findings(r) = r.errs
    BY <1>1, FindingsSay
  <1>3. ErrsWhole(r, d)
    BY <1>2 DEF RunTruth
  <1>4. \A f \in r.errs : f \in Violated(r.file, d - 1)
    BY <1>1, <1>2 DEF ErrsTrue, Told
  <1>5. ASSUME NEW f \in Violated(r.file, d - 1) PROVE f \in r.errs
    <2>1. PICK i \in 1..Len(File[r.file].checks) : f = <<"violation", i>>
      BY ViolatedIs
    <2>2. Len(File[r.file].checks) \in Nat /\ r.at \in Nat
      BY FileAssumption DEF Runs, IsFile
    <2>3. f[2] < r.at
      BY <2>1, <2>2 DEF Checks
    <2> QED BY <1>3, <2>3 DEF ErrsWhole
  <1> QED BY <1>2, <1>4, <1>5

\* The verdict on an embedded document is the one that is true of it.
LEMMA VerdictTrue ==
    ASSUME NEW r \in Runs, NEW i \in 1..MaxDepth, NEW n, RunTruth(r, i + 1, Stopped), ~Stopped,
           r.at > Len(Checks(r)), Opens(r.file), CheckerFindings(Findings(r)) = {}
    PROVE  ItemBad(n, r.file, Under(i)) <=>
             ~(Verdict(Findings(r)).sound /\ Admits(File[n], File[r.file]))
  <1> DEFINE k == MaxDepth - (i - 1)
  <1>1. MaxDepth \in Nat
    BY BoundsAssumption
  <1>2. k \in 1..MaxDepth /\ k - 1 = MaxDepth - ((i + 1) - 1)
    BY <1>1
  <1>3. Findings(r) = Violated(r.file, (i + 1) - 1)
    BY ReportWhole
  <1>4. r.file \in DOMAIN File
    BY DEF Runs
  <1> HIDE DEF k
  <1>5. Sound[k][r.file] <=>
          \A j \in 1..Len(File[r.file].checks) : CheckHolds(r.file, j, Sound[k - 1])
    BY <1>2, <1>4, SoundAt
  <1>6. Under(i + 1) = Sound[k - 1]
    BY <1>2, Zenon DEF Under
  <1>7. Sound[k][r.file] <=> Violated(r.file, (i + 1) - 1) = {}
    <2> HIDE DEF Verdict
    <2>1. \A f : f \in Violated(r.file, (i + 1) - 1) <=>
             \E j \in 1..Len(File[r.file].checks) :
               f = <<"violation", j>> /\ ~CheckHolds(r.file, j, Under(i + 1))
      BY ViolatedIs
    <2>2. \A j \in 1..Len(File[r.file].checks) :
            CheckHolds(r.file, j, Sound[k - 1]) <=> CheckHolds(r.file, j, Under(i + 1))
      BY <1>6, Zenon
    <2> QED BY <1>5, <2>1, <2>2, Zenon
  <1>8. Verdict(Findings(r)).sound <=> Findings(r) = {}
    BY DEF Verdict, NotNested
  <1>9. Under(i) = Sound[k]
    BY DEF Under, k
  <1>10. File[r.file].data \notin {"malformed", "not PDF", "unreadable", "no claim"}
    BY Zenon DEF Opens
  <1> QED BY <1>3, <1>7, <1>8, <1>9, <1>10, Zenon DEF ItemBad

\* A run reports: to the caller the truth, and to the run that waits for it a
\* verdict that counts only when nothing has stopped them.
LEMMA ReportTruth == ASSUME FullInv, Report PROVE TruthInv'
  <1> DEFINE rest == SubSeq(stack, 1, Depth)
             v == Verdict(Findings(Run))
  <1>1. /\ Len(stack) \in Nat \ {0} /\ stack \in Seq(Runs) /\ Depth = Len(stack) - 1
        /\ Run \in Runs /\ RunTruth(Run, Len(stack), Stopped) /\ Working
        /\ ErrsTrue(Run, Len(stack))
    BY RunNow DEF FullInv, Inv, StackInv, Report, Depth, RunTruth
  <1>2. /\ rest \in Seq(Runs) /\ Len(rest) = Depth
        /\ \A i \in 1..Depth : rest[i] = stack[i]
    BY <1>1
  <1>3. Stopped' = Stopped /\ Canceled' = Canceled /\ UNCHANGED <<meter, canceledAt, top, lowered>>
    BY DEF Report, Stopped, Canceled
  <1>4. Run.at > Len(Checks(Run)) \/ Stopped
    BY DEF Report
  <1>5. SpentTold /\ stack[1].file = top /\ report = {}
    BY <1>1 DEF FullInv, TruthInv
  <1> HIDE DEF rest
  <1>6. CASE Depth = 0
    <2>1. stack' = rest /\ report' = Findings(Run) /\ Run = stack[1] /\ Len(stack) = 1
      <3>1. Len(stack) = 1
        BY <1>1, <1>6
      <3>2. stack' = rest /\ report' = Findings(Run)
        BY <1>6 DEF Report, rest
      <3> QED BY <3>1, <3>2, Zenon DEF Run
    <2>2. stack' = <<>> /\ Len(stack') = 0 /\ ~Working'
      BY <1>2, <1>6, <2>1 DEF Working
    <2>3. Accusations(report') \subseteq Violated(top', 0)
      <3>1. Accusations(Findings(Run)) \subseteq Violated(Run.file, Len(stack) - 1)
        BY <1>1, FindingsSay
      <3>2. Len(stack) - 1 = 0
        BY <2>1
      <3> QED BY <1>3, <1>5, <2>1, <3>1, <3>2, Zenon
    <2>4. ASSUME CheckerFindings(report') = {} PROVE report' = Violated(top', 0)
      <3>1. ~Told(Run) /\ ~Canceled
        BY <1>1, <2>1, <2>4, FindingsSay
      <3>2. meter.dead \notin {"work", "walk-depth"}
        BY <1>1, <1>5, <2>1, <3>1 DEF SpentTold, Told, Snapshot
      <3>3. ~Stopped
        <4>1. meter.dead \in Endings
          BY DEF FullInv, Inv, MeterInv, Meters
        <4> QED BY <1>5, <3>1, <3>2, <4>1 DEF SpentTold, Stopped, Endings
      <3>4. Findings(Run) = Violated(Run.file, Len(stack) - 1)
        BY <1>1, <1>4, <2>1, <2>4, <3>3, ReportWhole
      <3>5. Len(stack) - 1 = 0
        BY <2>1
      <3> QED BY <1>3, <1>5, <2>1, <3>4, <3>5, Zenon
    <2>5. ASSUME meter.dead \in {"work", "walk-depth"}
          PROVE  \E t \in {<<meter.dead, 0>>, <<"overflow", 0>>} : <<"limit", t>> \in Findings(Run)
      <3>1. <<meter.dead, 0>> \in Snapshot(Run.limits) \/ <<"overflow", 0>> \in Snapshot(Run.limits)
        BY <1>1, <1>5, <2>1, <2>5 DEF SpentTold, Snapshot
      <3>2. \A t \in Snapshot(Run.limits) : <<"limit", t>> \in Findings(Run)
        BY DEF Findings
      <3> QED BY <3>1, <3>2
    <2>6. NoFalseAccusation'
      BY <2>2, <2>3 DEF NoFalseAccusation
    <2>7. CompleteUnlessTold' /\ StopTold'
      BY <1>3, <2>1, <2>4, <2>5 DEF CompleteUnlessTold, StopTold
    <2>8. SpentTold'
      BY <1>3, <1>5, <2>2 DEF SpentTold
    <2> QED BY <2>2, <2>6, <2>7, <2>8 DEF TruthInv
  <1>7. CASE Depth # 0
    <2>1. /\ v \in Nested /\ v.state = "judged" /\ v.state # "none"
          /\ v.complete <=> CheckerFindings(Findings(Run)) = {}
      BY DEF Verdict, NotNested, Nested
    <2>2. stack' = [rest EXCEPT ![Depth].nested = v] /\ report' = {}
      BY <1>5, <1>7 DEF Report, rest
    <2>3. ~Stopped /\ v.complete =>
            \A i \in 1..MaxDepth : \A n : i + 1 = Len(stack) /\ Opens(Run.file) =>
              (ItemBad(n, Run.file, Under(i)) <=> ~(v.sound /\ Admits(File[n], File[Run.file])))
      BY <1>1, <1>4, <2>1, VerdictTrue, Zenon
    <2> HIDE DEF v
    <2> DEFINE r == [rest[Depth] EXCEPT !.nested = v]
    <2>4. /\ Depth \in Nat \ {0} /\ Depth \in 1..Len(rest) /\ rest[Depth] = stack[Depth]
          /\ RunInv(stack[Depth]) /\ stack[Depth] \in Runs
          /\ Depth \in 1..(Len(stack) - 1) /\ Depth + 1 = Len(stack) /\ Depth \in 1..Len(stack)
      BY <1>1, <1>2, <1>7 DEF FullInv, Inv, StackInv, RunInv
    <2>5. Waits(Depth) /\ RunTruth(stack[Depth], Depth, Stopped)
      BY <2>4 DEF FullInv, TruthInv
    <2>6. /\ r \in Runs /\ r.file = stack[Depth].file /\ r.at = stack[Depth].at
          /\ r.step = stack[Depth].step /\ r.nested = v /\ r.errs = stack[Depth].errs
          /\ r.limits = stack[Depth].limits /\ r.good = stack[Depth].good
          /\ r.declined = stack[Depth].declined /\ r.found = stack[Depth].found
      BY <2>1, <2>4 DEF Runs
    <2>7. stack' = [rest EXCEPT ![Depth] = r]
      BY <2>2
    <2> HIDE DEF r
    <2>8. /\ Len(stack') = Depth /\ stack'[Depth] = r
          /\ \A i \in 1..(Depth - 1) : stack'[i] = stack[i]
      <3>1. Len(stack') = Len(rest) /\ stack'[Depth] = r
        BY <1>2, <2>4, <2>6, <2>7
      <3>2. \A i \in 1..(Depth - 1) : i \in 1..Depth /\ i # Depth
        BY <2>4
      <3>3. \A i \in 1..(Depth - 1) : stack'[i] = rest[i]
        BY <1>2, <2>4, <2>7, <3>2
      <3> QED BY <1>2, <3>1, <3>2, <3>3
    <2>9. Steps(r) = Steps(stack[Depth]) /\ Checks(r) = Checks(stack[Depth])
          /\ Waited(r) = Waited(stack[Depth])
      BY <2>6 DEF Steps, Checks, Waited
    <2>10. WaitTrue(r, Depth, Stopped)
      <3>1. WaitTrue(stack[Depth], Depth, Stopped)
        BY <2>5 DEF RunTruth, Waits
      <3>2. Run.file = Waited(r) /\ Opens(Run.file)
        BY <2>4, <2>5, <2>9 DEF Waits, Run
      <3>3. Depth \in 1..MaxDepth
        <4>1. Depth <= MaxDepth
          BY <3>1, Zenon DEF WaitTrue
        <4> QED BY <2>4, <4>1, BoundsAssumption
      <3>4. v.complete /\ ~Stopped =>
              (ItemBad(r.file, Waited(r), Under(Depth)) <=>
                 ~(v.sound /\ Admits(File[r.file], File[Waited(r)])))
        BY <2>3, <2>4, <3>2, <3>3, Zenon
      <3> QED BY <2>6, <2>9, <3>1, <3>4 DEF WaitTrue
    <2>11. RunTruth(r, Depth, Stopped)
      <3>1. Stopped \in BOOLEAN /\ LimitsKept(r.limits, r.limits)
        BY DEF Stopped, LimitsKept
      <3>2. r.errs = stack[Depth].errs /\ (Told(stack[Depth]) <=> Told(r))
        BY <2>6 DEF Told
      <3>3. /\ ErrsTrue(r, Depth) <=> ErrsTrue(stack[Depth], Depth)
            /\ ErrsWhole(r, Depth) <=> ErrsWhole(stack[Depth], Depth)
            /\ BadBefore(r, Depth) <=> BadBefore(stack[Depth], Depth)
            /\ GoodTrue(r) <=> GoodTrue(stack[Depth])
        BY <2>6, <2>9, <3>2 DEF ErrsTrue, ErrsWhole, BadBefore, GoodTrue
      <3> QED BY <2>5, <2>6, <2>9, <2>10, <3>2, <3>3 DEF RunTruth
    <2>12. ASSUME NEW i \in 1..Depth
           PROVE  /\ RunTruth(stack'[i], i, Stopped')
                  /\ stack'[i].nested.state = "reading" /\ lowered => stack'[i].nested.refusable
      <3>1. CASE i = Depth
        BY <1>3, <2>1, <2>6, <2>8, <2>11, <3>1
      <3>2. CASE i # Depth
        <4>1. i \in 1..(Depth - 1) /\ i \in 1..Len(stack)
          BY <1>1, <2>4, <3>2
        <4>2. stack'[i] = stack[i]
          BY <2>8, <4>1
        <4> QED BY <1>3, <4>1, <4>2 DEF FullInv, TruthInv
      <3> QED BY <3>1, <3>2
    <2>13. ASSUME NEW i \in 1..(Depth - 1) PROVE Waits(i)'
      <3>1. Waits(i) /\ stack'[i] = stack[i]
        <4>1. i \in 1..(Len(stack) - 1)
          BY <1>1, <2>4
        <4> QED BY <2>8, <4>1 DEF FullInv, TruthInv
      <3>2. stack'[i + 1].file = stack[i + 1].file
        <4>1. CASE i + 1 = Depth
          BY <2>6, <2>8, <4>1
        <4>2. CASE i + 1 # Depth
          <5>1. i + 1 \in 1..(Depth - 1)
            BY <2>4, <4>2
          <5> QED BY <2>8, <5>1
        <4> QED BY <4>1, <4>2
      <3> QED BY <3>1, <3>2 DEF Waits, Waited, Steps, Checks
    <2>14. Working'
      BY <2>4, <2>8 DEF Working
    <2>15. stack'[1].file = stack[1].file /\ stack'[1].limits = stack[1].limits
      <3>1. CASE Depth = 1
        BY <2>6, <2>8, <3>1
      <3>2. CASE Depth # 1
        <4>1. 1 \in 1..(Depth - 1)
          BY <2>4, <3>2
        <4> QED BY <2>8, <4>1
      <3> QED BY <3>1, <3>2
    <2>16. SpentTold' /\ stack'[1].file = top'
      BY <1>1, <1>3, <1>5, <2>14, <2>15 DEF SpentTold
    <2>17. Len(stack') = Depth /\ report' = {}
      BY <2>2, <2>8
    <2>18. \A i \in 1..(Len(stack') - 1) : Waits(i)'
      BY <2>13, <2>17, Zenon
    <2>19. \A i \in 1..Len(stack') :
             /\ RunTruth(stack'[i], i, Stopped')
             /\ stack'[i].nested.state = "reading" /\ lowered' => stack'[i].nested.refusable
      BY <1>3, <2>12, <2>17
    <2> QED BY <2>14, <2>16, <2>17, <2>18, <2>19, Zenon DEF TruthInv
  <1> QED BY <1>6, <1>7

\* The context ends: what is said until the run has stopped is still true.
LEMMA CancelTruth == ASSUME FullInv, Cancel PROVE TruthInv'
  <1>1. /\ UNCHANGED <<top, lowered, meter, stack, report>> /\ Working /\ ~Canceled
        /\ Stopped \in BOOLEAN
    BY DEF Cancel, Stopped
  <1>2. Canceled' /\ Stopped' = TRUE
    <2>1. canceledAt' = meter.used /\ meter.used \in Nat
      BY DEF Cancel, FullInv, Inv, MeterInv, Meters
    <2> QED BY <2>1 DEF Canceled, Stopped
  <1>3. \A i \in 1..Len(stack) : RunTruth(stack[i], i, TRUE)
    BY <1>1, OverMore DEF FullInv, TruthInv
  <1>4. SpentTold'
    BY <1>1, <1>2 DEF FullInv, TruthInv, SpentTold, Working
  <1> QED BY <1>1, <1>2, <1>3, <1>4 DEF FullInv, TruthInv, Waits, Working

\* A run begins with nothing said.
LEMMA BeginsTrue == Init => FullInv
  <1> SUFFICES ASSUME Init PROVE FullInv
    OBVIOUS
  <1>1. Inv
    BY Begins
  <1>2. /\ top \in DOMAIN File /\ stack = <<NewRun(top)>> /\ report = {}
        /\ Stopped \in BOOLEAN
    BY FileAssumption DEF Init, Stopped
  <1>3. RunTruth(NewRun(top), 1, Stopped) /\ NewRun(top).nested.state = "none"
    BY <1>2, NewRunTruth
  <1>4. Len(stack) = 1 /\ stack[1] = NewRun(top) /\ Working
    BY <1>2 DEF Working
  <1>5. stack[1].file = top
    BY <1>4 DEF NewRun
  <1>6. meter.dead = "no"
    BY DEF Init, NewMeter
  <1>7. TruthInv
    BY <1>2, <1>3, <1>4, <1>5, <1>6 DEF TruthInv, SpentTold
  <1> QED BY <1>1, <1>7 DEF FullInv

\* Every step keeps what is said true.
LEMMA KeepsTrue == FullInv /\ [Next]_vars => FullInv'
  <1> SUFFICES ASSUME FullInv, [Next]_vars PROVE FullInv'
    OBVIOUS
  <1>1. Inv'
    BY Keeps DEF FullInv
  <1>2. CASE UNCHANGED vars
    <2>1. TruthInv'
      BY <1>2 DEF vars, FullInv, TruthInv, Waits, SpentTold, Working, Stopped, Canceled,
         NoFalseAccusation, CompleteUnlessTold, StopTold
    <2> QED BY <1>1, <2>1 DEF FullInv
  <1>3. CASE Running
    <2>1. TruthInv'
      BY <1>3, BeginTruth, NoSourceTruth, VisitTruth, TooDeepTruth, FaultTruth,
         EndCheckTruth, EndEmbeddedTruth, NotFollowedTruth, TakeTruth, ReadTruth,
         JudgeTruth, ReportTruth DEF Running
    <2> QED BY <1>1, <2>1 DEF FullInv
  <1>4. CASE Cancel
    BY <1>1, <1>4, CancelTruth DEF FullInv
  <1> QED BY <1>2, <1>3, <1>4 DEF Next, Over

\* In every state each run in progress has said only what is true of its file,
\* and all of it unless it said why not.
THEOREM Truth == Spec => []FullInv
  BY BeginsTrue, KeepsTrue, PTL DEF Spec

\* No run asserts a violation its file does not have, wherever and by whatever it
\* was stopped, and however deep the documents embedded in it: a check that was
\* unwound says nothing, and the rule of embedded files believes a verdict only
\* while nothing has stopped the run (runCheck, checkEmbeddedPDFA).
THEOREM AccusesOfWhatIs == Spec => []NoFalseAccusation
  <1>1. ASSUME FullInv PROVE NoFalseAccusation
    <2>1. CASE Working
      <3>1. ASSUME NEW d \in 1..Len(stack)
            PROVE  Accusations(stack[d].errs) \subseteq Violated(stack[d].file, d - 1)
        BY <1>1 DEF FullInv, TruthInv, RunTruth, ErrsTrue, Accusations
      <3>2. Accusations(report) = {}
        BY <1>1, <2>1 DEF FullInv, TruthInv, Accusations
      <3> QED BY <3>1, <3>2 DEF NoFalseAccusation
    <2> QED BY <1>1, <2>1 DEF FullInv, TruthInv
  <1> QED BY <1>1, Truth, PTL

\* A report that names no limit and no failure of the checker is the whole truth
\* about the file and what is embedded in it (runLimitTrips).
THEOREM SaysAllUnlessTold == Spec => []CompleteUnlessTold
  <1>1. FullInv => CompleteUnlessTold
    BY DEF FullInv, TruthInv, CompleteUnlessTold
  <1> QED BY <1>1, Truth, PTL

\* A run the work or the depth of a walk stopped says so in its report, however
\* deep the run that was stopped (Recorder.Note, at the outermost).
THEOREM SaysWhatStoppedIt == Spec => []StopTold
  <1>1. FullInv => StopTold
    BY DEF FullInv, TruthInv, StopTold
  <1> QED BY <1>1, Truth, PTL
=============================================================================
