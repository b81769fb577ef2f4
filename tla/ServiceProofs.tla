---------------------------- MODULE ServiceProofs ----------------------------
(***************************************************************************)
(* What every service guarantees beside its work: a restart request is     *)
(* good for one restart, for every spacing, delay, clock and number of     *)
(* faults; a line of its log taken for the panel's table is there, on its  *)
(* way or counted, for any lines and any buffer; and one in a file of the  *)
(* tree is kept for its time, wherever a pass over the files is stopped.   *)
(*                                                                         *)
(* The argument about restarts is about what is left of a request once a   *)
(* process has exited for it and the clock has not been set back since:    *)
(* the request lies no later than any start still to be measured           *)
(* (Settled).  Setting the clock back undoes that, and raises the number   *)
(* of exits allowed by one in the same step.                               *)
(***************************************************************************)
EXTENDS RestartRequest, LogSink, LogTree, WellFoundedInduction, FiniteSetTheorems, TLAPS

-----------------------------------------------------------------------------
(* Restart requests.                                                       *)

\* The elapsed time a beat carries is no more than the process's age, and a
\* process that is down has none.
Ages ==
  /\ beat # None => beat <= age
  /\ proc = "down" => age = 0

StepsCounted == stepped + budget.step <= MaxSteps

\* No start of this process or of a later one can lie before the request.
Settled ==
  request \in Int =>
    /\ request <= clock
    /\ proc = "up" =>
         /\ known => request <= startedDB
         /\ ~known => request <= clock - age

ExitsCounted ==
  /\ exits <= 1 + stepped
  /\ exits = 1 + stepped => Settled

RestartInv == TypeOK /\ Ages /\ StepsCounted /\ ExitsCounted

\* The first process has exited for nothing.
LEMMA RestartStarts == Init => RestartInv
<1> SUFFICES ASSUME Init PROVE RestartInv
  OBVIOUS
<1> USE RestartAssumption
<1>1. TypeOK
  <2>1. granted \in BOOLEAN /\ known \in BOOLEAN
    BY DEF Init
  <2>2. budget \in [crash : 0..MaxCrashes, step : 0..MaxSteps, write : 0..MaxWrites]
    BY DEF Init
  <2> QED
    BY <2>1, <2>2 DEF Init, TypeOK, Times
<1>2. Ages /\ StepsCounted /\ ExitsCounted
  BY DEF Init, Ages, StepsCounted, ExitsCounted, Settled
<1> QED
  BY <1>1, <1>2 DEF RestartInv

\* Every step keeps the types, and leaves nothing of a process that ended.
LEMMA NextRestartTypes == RestartInv /\ [Next]_vars => TypeOK'
<1> SUFFICES ASSUME RestartInv, [Next]_vars PROVE TypeOK'
  OBVIOUS
<1> USE RestartAssumption DEF RestartInv, TypeOK, Times
<1>1. CASE RequestRestart
  BY <1>1 DEF RequestRestart, procVars
<1>2. ASSUME NEW v \in Times \union {Junk}, SetRow(v) PROVE TypeOK'
  BY <1>2 DEF SetRow, procVars
<1>3. CASE Regrant
  BY <1>3 DEF Regrant, procVars
<1>4. CASE Tick
  BY <1>4 DEF Tick, rowVars
<1>5. ASSUME NEW t \in Times, StepBack(t) PROVE TypeOK'
  BY <1>5 DEF StepBack, rowVars, StepsCounted
<1>6. CASE BeatSend
  BY <1>6 DEF BeatSend, rowVars
<1>7. CASE BeatDone
  BY <1>7 DEF BeatDone, rowVars, BeatStored, Measured
<1>8. CASE BeatUnheard
  BY <1>8 DEF BeatUnheard, rowVars, BeatStored, Measured
<1>9. CASE AskPrivilege
  BY <1>9 DEF AskPrivilege, rowVars
<1>10. CASE ReadRefused
  BY <1>10 DEF ReadRefused, rowVars
<1>11. CASE Exit
  BY <1>11 DEF Exit, rowVars
<1>12. CASE Exited
  <2>1. known' \in BOOLEAN /\ ~known' /\ granted' \in BOOLEAN
    BY <1>12, Zenon DEF Exited, Down, rowVars
  <2> QED
    BY <1>12, <2>1 DEF Exited, Down, rowVars
<1>13. CASE Crash
  <2>1. known' \in BOOLEAN /\ ~known' /\ granted' \in BOOLEAN
    BY <1>13, Zenon DEF Crash, Down, rowVars
  <2> QED
    BY <1>13, <2>1 DEF Crash, Down, rowVars
<1>14. CASE Start
  BY <1>14 DEF Start, rowVars
<1>15. CASE UNCHANGED vars
  BY <1>15 DEF vars, rowVars, procVars
<1> HIDE DEF RestartInv, TypeOK
<1> QED
  BY <1>1, <1>2, <1>3, <1>4, <1>5, <1>6, <1>7, <1>8, <1>9, <1>10, <1>11, <1>12, <1>13,
     <1>14, <1>15 DEF Next

\* An exit happens only while the request is not settled, and settles it.
LEMMA NextCounted ==
  RestartInv /\ [Next]_vars => Ages' /\ StepsCounted' /\ ExitsCounted'
<1> SUFFICES ASSUME RestartInv, [Next]_vars PROVE Ages' /\ StepsCounted' /\ ExitsCounted'
  OBVIOUS
<1> DEFINE Goal == Ages' /\ StepsCounted' /\ ExitsCounted'
<1> USE RestartAssumption DEF RestartInv, TypeOK, Times, Ages, StepsCounted, ExitsCounted, Settled
<1>1. CASE RequestRestart
  BY <1>1 DEF RequestRestart, procVars
<1>2. ASSUME NEW v \in Times \union {Junk}, SetRow(v) PROVE Goal
  BY <1>2 DEF SetRow, procVars
<1>3. CASE Regrant
  BY <1>3 DEF Regrant, procVars
<1>4. CASE Tick
  BY <1>4 DEF Tick, rowVars
<1>5. ASSUME NEW t \in Times, StepBack(t) PROVE Goal
  BY <1>5 DEF StepBack, rowVars
<1>6. CASE BeatSend
  BY <1>6 DEF BeatSend, rowVars
<1>7. CASE BeatDone
  BY <1>7 DEF BeatDone, rowVars, BeatStored, Measured
<1>8. CASE BeatUnheard
  BY <1>8 DEF BeatUnheard, rowVars
<1>9. CASE AskPrivilege
  BY <1>9 DEF AskPrivilege, rowVars
<1>10. CASE ReadRefused
  BY <1>10 DEF ReadRefused, rowVars
<1>11. CASE Exit
  BY <1>11 DEF Exit, rowVars, Obeyed, Satisfied
<1>12. CASE Exited
  BY <1>12 DEF Exited, Down, rowVars
<1>13. CASE Crash
  BY <1>13 DEF Crash, Down, rowVars
<1>14. CASE Start
  BY <1>14 DEF Start, rowVars
<1>15. CASE UNCHANGED vars
  BY <1>15 DEF vars, rowVars, procVars
<1> HIDE DEF RestartInv, Goal
<1> QED
  BY <1>1, <1>2, <1>3, <1>4, <1>5, <1>6, <1>7, <1>8, <1>9, <1>10, <1>11, <1>12, <1>13,
     <1>14, <1>15 DEF Next, Goal

\* The inductive invariant holds.
LEMMA RestartInvariance == Spec => []RestartInv
<1>1. RestartInv /\ [Next]_vars => RestartInv'
  BY NextRestartTypes, NextCounted DEF RestartInv
<1> QED
  BY <1>1, RestartStarts, PTL DEF Spec

\* The types, and that nothing of a process outlives it.
THEOREM TypeCorrect == Spec => []TypeOK
<1>1. RestartInv => TypeOK
  BY DEF RestartInv
<1> QED
  BY <1>1, RestartInvariance, PTL

\* restartreq's "no loop": a request is good for one exit of the service, and
\* for one more each time the database's clock is set back under it.
THEOREM NoLoop == Spec => []NoRestartLoop
<1>1. RestartInv => NoRestartLoop
  BY DEF RestartInv, ExitsCounted, NoRestartLoop
<1> QED
  BY <1>1, RestartInvariance, PTL

-----------------------------------------------------------------------------
(* The log sink.                                                           *)

\* What the channel and the writer hold comes from the service's own lines,
\* and the channel is closed by a main that is ending.
SinkTypeOK ==
  /\ records \in Seq(LogLines)
  /\ shut \in BOOLEAN /\ panicked \in BOOLEAN
  /\ process \in {"up", "closing", "gone"}
  /\ shut => process # "up"

SinkInv == SinkTypeOK /\ LinesAccounted

\* A line put into the channel is in it with those that were.
LEMMA SentIsThere ==
  ASSUME NEW S, NEW s \in Seq(S), NEW x \in S
  PROVE  ToSet(Append(s, x)) = ToSet(s) \union {x}
<1> DEFINE t == Append(s, x)
<1>1. /\ Len(t) = Len(s) + 1 /\ DOMAIN t = 1..Len(t) /\ DOMAIN s = 1..Len(s)
      /\ t[Len(s) + 1] = x /\ \A i \in 1..Len(s) : t[i] = s[i]
  OBVIOUS
<1>2. Len(s) \in Nat
  OBVIOUS
<1> HIDE DEF t
<1> SUFFICES ToSet(t) = ToSet(s) \union {x}
  BY DEF t
<1>3. ASSUME NEW y \in ToSet(t) PROVE y \in ToSet(s) \union {x}
  <2>1. PICK i \in 1..(Len(s) + 1) : y = t[i]
    BY <1>1, <1>2 DEF ToSet
  <2> QED
    BY <1>1, <1>2, <2>1 DEF ToSet
<1>4. ASSUME NEW y \in ToSet(s) PROVE y \in ToSet(t)
  <2>1. PICK i \in 1..Len(s) : y = s[i]
    BY <1>1 DEF ToSet
  <2>2. i \in DOMAIN t /\ t[i] = y
    BY <1>1, <1>2, <2>1
  <2> QED
    BY <2>2 DEF ToSet
<1>5. x \in ToSet(t)
  <2>1. Len(s) + 1 \in DOMAIN t
    BY <1>1, <1>2
  <2> QED
    BY <1>1, <2>1 DEF ToSet
<1> QED
  BY <1>3, <1>4, <1>5

\* The line received was in the channel, with those still in it.
LEMMA ReceivedWasThere ==
  ASSUME NEW S, NEW s \in Seq(S), s # <<>>
  PROVE  /\ Tail(s) \in Seq(S)
         /\ ToSet(s) = {Head(s)} \union ToSet(Tail(s))
<1> DEFINE t == Tail(s)
<1>1. /\ Len(s) \in Nat /\ Len(s) > 0 /\ Len(t) = Len(s) - 1
      /\ DOMAIN t = 1..Len(t) /\ DOMAIN s = 1..Len(s) /\ t \in Seq(S)
      /\ Head(s) = s[1] /\ \A i \in 1..Len(t) : t[i] = s[i + 1]
  OBVIOUS
<1> HIDE DEF t
<1> SUFFICES t \in Seq(S) /\ ToSet(s) = {s[1]} \union ToSet(t)
  BY <1>1 DEF t
<1>2. ASSUME NEW y \in ToSet(s) PROVE y \in {s[1]} \union ToSet(t)
  <2>1. PICK i \in 1..Len(s) : y = s[i]
    BY <1>1 DEF ToSet
  <2>2. CASE i > 1
    <3>1. i - 1 \in 1..Len(t) /\ t[i - 1] = y
      BY <1>1, <2>1, <2>2
    <3> QED
      BY <1>1, <3>1 DEF ToSet
  <2>3. CASE i = 1
    BY <2>1, <2>3
  <2> QED
    BY <2>2, <2>3
<1>3. ASSUME NEW y \in ToSet(t) PROVE y \in ToSet(s)
  <2>1. PICK i \in 1..Len(t) : y = t[i]
    BY <1>1 DEF ToSet
  <2>2. i + 1 \in DOMAIN s /\ s[i + 1] = y
    BY <1>1, <2>1
  <2> QED
    BY <2>2 DEF ToSet
<1>4. s[1] \in ToSet(s)
  BY <1>1 DEF ToSet
<1> QED
  BY <1>1, <1>2, <1>3, <1>4

\* Nothing is copied before the first line.
LEMMA SinkStarts == SinkInit => SinkInv
<1> SUFFICES ASSUME SinkInit PROVE SinkInv
  OBVIOUS
<1>1. ToSet(records) = {}
  <2>1. DOMAIN records = {}
    BY DEF SinkInit
  <2> QED
    BY <2>1 DEF ToSet
<1>2. LinesAccounted
  BY <1>1 DEF SinkInit, LinesAccounted
<1>3. SinkTypeOK
  <2>1. records \in Seq(LogLines)
    BY DEF SinkInit
  <2>2. shut \in BOOLEAN /\ panicked \in BOOLEAN /\ process = "up" /\ ~shut
    BY Zenon DEF SinkInit
  <2> QED
    BY <2>1, <2>2 DEF SinkTypeOK
<1> QED
  BY <1>2, <1>3 DEF SinkInv

\* Every step moves a line to where it is accounted for, and what a closed
\* channel still holds is written before the process ends.
LEMMA SinkKeeps == SinkInv /\ [SinkNext]_sinkVars => SinkInv'
<1> SUFFICES ASSUME SinkInv, [SinkNext]_sinkVars PROVE SinkInv'
  OBVIOUS
<1> USE DEF SinkInv, SinkTypeOK, LinesAccounted
<1>1. ASSUME NEW c \in Levels, NEW v \in BOOLEAN, Apply(c, v) PROVE SinkInv'
  BY <1>1 DEF Apply
<1>2. CASE SetLevel
  BY <1>2 DEF SetLevel
<1>3. ASSUME NEW l \in LogLines, NEW v \in Levels, HandleLine(l, v) PROVE SinkInv'
  <2>1. CASE shut
    BY <1>3, <2>1 DEF HandleLine
  <2>2. CASE ~shut /\ Len(records) < LogBuffer
    <3>1. records' = Append(records, l)
      BY <1>3, <2>2 DEF HandleLine
    <3>2. records' \in Seq(LogLines) /\ ToSet(records') = ToSet(records) \union {l}
      BY <3>1, SentIsThere
    <3> QED
      BY <1>3, <2>2, <3>2 DEF HandleLine
  <2>3. CASE ~shut /\ ~(Len(records) < LogBuffer)
    BY <1>3, <2>3 DEF HandleLine
  <2> QED
    BY <2>1, <2>2, <2>3
<1>4. CASE Receive
  <2>1. /\ Tail(records) \in Seq(LogLines)
        /\ ToSet(records) = {Head(records)} \union ToSet(Tail(records))
    BY <1>4, ReceivedWasThere DEF Receive
  <2> QED
    BY <1>4, <2>1 DEF Receive
<1>5. CASE WriteOK
  BY <1>5 DEF WriteOK, Written
<1>6. CASE WriteFails
  BY <1>6 DEF WriteFails, Written
<1>7. CASE Close
  BY <1>7 DEF Close
<1>8. CASE Closed
  BY <1>8 DEF Closed
<1>9. CASE ExitFailed
  BY <1>9 DEF ExitFailed
<1>10. CASE UNCHANGED sinkVars
  BY <1>10 DEF sinkVars
<1> HIDE DEF SinkInv
<1> QED
  BY <1>1, <1>2, <1>3, <1>4, <1>5, <1>6, <1>7, <1>8, <1>9, <1>10 DEF SinkNext

\* logsink's Handle, run and Close: whichever lines are logged, dropped and
\* failed, and whenever main ends, no copied line is lost without a trace.
THEOREM LinesAreAccounted == SinkSpec => []LinesAccounted
<1>1. SinkInv => LinesAccounted
  BY DEF SinkInv
<1> QED
  BY <1>1, SinkStarts, SinkKeeps, PTL DEF SinkSpec

-----------------------------------------------------------------------------
(* The log files.                                                          *)

LogFiles ==
  [day : Nat, cat : Categories, n : Nat, form : {"plain", "gz", "tmp"}, lines : SUBSET TreeLines]

SameFile(f, g) == f.day = g.day /\ f.cat = g.cat /\ f.n = g.n

TreeTypeOK ==
  /\ today \in Nat
  /\ files \in SUBSET LogFiles /\ IsFiniteSet(files)
  /\ maintain \in [todo : SUBSET LogFiles, tmp : SUBSET LogFiles]
  /\ wrote \in SUBSET [line : TreeLines, cat : Categories, day : Nat]

\* A name is one file's: what is moved aside takes a number no other has.
Once(fs) ==
  \A f, g \in fs : f.form = "plain" /\ g.form = "plain" /\ SameFile(f, g) => f = g

\* Nothing of today is compressed, so what is compressed is not written to.
DaysPast == \A f \in files : f.day <= today /\ (f.form = "gz" => f.day < today)

\* A compressed file beside its original is all of it.
CopiesAgree ==
  \A f, g \in files :
    f.form = "plain" /\ g.form = "gz" /\ SameFile(f, g) => g.lines = f.lines

\* A pass looks at files of earlier days, and once the temporary file of the
\* one it compresses is gone, the compressed one is in its place.
Passing ==
  /\ serving # "maintaining" => maintain = Nothing
  /\ \A f \in maintain.todo : f.day < today /\ (f.form = "plain" => f \in files)
  /\ \A f, g \in maintain.tmp : f = g
  /\ \A f \in maintain.tmp :
       /\ f \in maintain.todo /\ f.form = "plain"
       /\ SameName(f, "tmp") = {} => [f EXCEPT !.form = "gz"] \in files

TreeInv == TreeTypeOK /\ Once(files) /\ DaysPast /\ CopiesAgree /\ Passing /\ KeptForItsTime

\* A set of numbers has a least one.
LEMMA LeastNumber ==
  ASSUME NEW S \in SUBSET Nat, S # {}
  PROVE  Min(S) \in S
<1>1. PICK m \in S : \A k \in S : ~(<<k, m>> \in OpToRel(<, Nat))
  BY NatLessThanWellFounded, WFMin
<1>2. \A k \in S : ~(k < m)
  BY <1>1 DEF OpToRel
<1>3. \A k \in S : m <= k
  BY <1>2
<1> QED
  BY <1>3 DEF Min

\* The number a file is moved to is free: there are not as many files as
\* numbers to choose from.
LEMMA FreeNumber ==
  ASSUME TreeTypeOK, NEW d, NEW c
  PROVE  /\ NextNumber(d, c) \in Nat \ {0}
         /\ Numbered(d, c, NextNumber(d, c)) = {}
<1> DEFINE N == 1..(Cardinality(files) + 1)
           Free == {n \in N : Numbered(d, c, n) = {}}
<1>1. Cardinality(files) \in Nat
  BY FS_CardinalityType DEF TreeTypeOK
<1>2. Free # {}
  <2> SUFFICES ASSUME Free = {} PROVE FALSE
    OBVIOUS
  <2> DEFINE file[n \in N] == CHOOSE f \in files : f.n = n
  <2>1. ASSUME NEW n \in N PROVE file[n] \in files /\ file[n].n = n
    <3>1. \E f \in files : f.n = n
      BY DEF Numbered
    <3> QED
      BY <3>1
  <2> HIDE DEF file
  <2>2. file \in [N -> files]
    <3>1. file = [n \in N |-> file[n]]
      BY DEF file
    <3> QED
      BY <2>1, <3>1
  <2>3. file \in Injection(N, files)
    BY <2>1, <2>2 DEF Injection, IsInjective
  <2>4. Cardinality(N) <= Cardinality(files)
    BY <2>3, FS_Injection DEF TreeTypeOK
  <2>5. Cardinality(N) = Cardinality(files) + 1
    BY <1>1, FS_Interval
  <2> QED
    BY <1>1, <2>4, <2>5
<1>3. NextNumber(d, c) \in Free
  <2>1. Free \subseteq Nat
    BY <1>1
  <2> QED
    BY <1>2, <2>1, LeastNumber DEF NextNumber
<1> QED
  BY <1>1, <1>3

\* A line appended: nothing written before is lost, a name is still one
\* file's, and only plain files of that day and category change.
LEMMA AppendKeeps ==
  ASSUME TreeTypeOK, NEW fs \in SUBSET LogFiles, IsFiniteSet(fs), Once(fs),
         NEW d \in Nat, NEW c \in Categories, NEW now, NEW l \in TreeLines,
         \A f \in fs : ~(f.form = "plain" /\ f.day = d /\ f.cat = c /\ f.n = NextNumber(d, c)),
         NEW G, G = Append1(fs, d, c, now, l)
  PROVE  /\ G \in SUBSET LogFiles /\ IsFiniteSet(G) /\ Once(G)
         /\ \A g \in G : g \in fs \/ (g.form = "plain" /\ g.day = d /\ g.cat = c)
         /\ \A f \in fs : f.form # "plain" \/ f.day # d \/ f.cat # c => f \in G
         /\ \A f \in fs : f.form = "plain" =>
              \E g \in G : /\ g.form = "plain" /\ g.day = f.day /\ g.cat = f.cat
                           /\ f.lines \subseteq g.lines
         /\ \E g \in G : g.form = "plain" /\ g.day = d /\ g.cat = c /\ l \in g.lines
<1> DEFINE old == {f \in fs : f.day = d /\ f.cat = c /\ f.n = 0 /\ f.form = "plain"}
           full == c \in now /\ \E f \in old : Cardinality(f.lines) >= FileLines
           moved == IF full THEN {[f EXCEPT !.n = NextNumber(d, c)] : f \in old} ELSE {}
           before == IF full THEN {} ELSE UNION {f.lines : f \in old}
           new == [day |-> d, cat |-> c, n |-> 0, form |-> "plain", lines |-> before \union {l}]
<1>1. G = (fs \ old) \union moved \union {new}
  BY DEF Append1
<1>2. NextNumber(d, c) \in Nat \ {0}
  BY FreeNumber
<1>3. new \in LogFiles
  <2>1. before \subseteq TreeLines
    BY DEF LogFiles
  <2> HIDE DEF before
  <2> QED
    BY <2>1 DEF LogFiles
<1>4. ASSUME NEW g \in moved
      PROVE  /\ full /\ g \in LogFiles
             /\ \E f \in old : g = [f EXCEPT !.n = NextNumber(d, c)] /\ f.lines = g.lines
             /\ g.form = "plain" /\ g.day = d /\ g.cat = c /\ g.n = NextNumber(d, c)
  <2> HIDE DEF full
  <2>1. full
    OBVIOUS
  <2>2. PICK f \in old : g = [f EXCEPT !.n = NextNumber(d, c)]
    BY <2>1
  <2>3. f \in LogFiles
    OBVIOUS
  <2> QED
    BY <1>2, <2>1, <2>2, <2>3 DEF LogFiles
<1>5. \A f, g \in old : f = g
  BY DEF Once, SameFile
<1>6. \A f, g \in moved : f = g
  BY <1>4, <1>5
<1>7. full => \A f \in old : [f EXCEPT !.n = NextNumber(d, c)] \in moved
  OBVIOUS
<1>8. ASSUME NEW f \in old, ~full PROVE f.lines \subseteq new.lines
  <2> HIDE DEF old, full
  <2>1. f.lines \subseteq UNION {g.lines : g \in old}
    OBVIOUS
  <2>2. before = UNION {g.lines : g \in old}
    BY <1>8
  <2>3. new.lines = before \union {l}
    OBVIOUS
  <2> HIDE DEF before, new
  <2> QED
    BY <2>1, <2>2, <2>3
<1>9. new.form = "plain" /\ new.day = d /\ new.cat = c /\ new.n = 0 /\ l \in new.lines
  OBVIOUS
<1>10. \A f \in fs : f \in LogFiles
  OBVIOUS
<1>11. IsFiniteSet(fs \ old)
  BY FS_Subset
<1>12. old = {f \in fs : f.day = d /\ f.cat = c /\ f.n = 0 /\ f.form = "plain"}
  OBVIOUS
<1> HIDE DEF old, full, moved, new
<1>13. G \in SUBSET LogFiles
  BY <1>1, <1>3, <1>4
<1>14. IsFiniteSet(G)
  <2>1. IsFiniteSet(moved)
    <3>1. CASE moved = {}
      BY <3>1, FS_EmptySet
    <3>2. CASE moved # {}
      <4>1. PICK m \in moved : moved = {m}
        BY <1>6, <3>2
      <4> QED
        BY <4>1, FS_Singleton
    <3> QED
      BY <3>1, <3>2
  <2>2. IsFiniteSet((fs \ old) \union moved)
    BY <1>11, <2>1, FS_Union
  <2> QED
    BY <1>1, <2>2, FS_AddElement
<1>15. Once(G)
  <2> SUFFICES ASSUME NEW f \in G, NEW g \in G, f.form = "plain", g.form = "plain", SameFile(f, g)
               PROVE  f = g
    BY DEF Once
  <2>1. CASE f \in fs \ old /\ g \in fs \ old
    BY <2>1 DEF Once
  <2>2. CASE f \in moved /\ g \in moved
    BY <1>6, <2>2
  <2>3. ASSUME NEW h \in G, h.form = "plain", SameFile(h, new) PROVE h = new
    <3>1. h \notin moved
      BY <1>2, <1>4, <1>9, <2>3 DEF SameFile
    <3>2. h \notin fs \ old
      BY <1>9, <1>12, <2>3 DEF SameFile
    <3> QED
      BY <1>1, <3>1, <3>2
  <2>4. CASE (f \in fs \ old /\ g \in moved) \/ (f \in moved /\ g \in fs \ old)
    <3>1. \A h \in fs : ~(h.form = "plain" /\ h.day = d /\ h.cat = c /\ h.n = NextNumber(d, c))
      OBVIOUS
    <3>2. \A h \in moved : h.day = d /\ h.cat = c /\ h.n = NextNumber(d, c)
      BY <1>4
    <3> QED
      BY <2>4, <3>1, <3>2, SMTT(30) DEF SameFile
  <2>5. CASE f = new
    BY <2>3, <2>5 DEF SameFile
  <2>6. CASE g = new
    <3>1. SameFile(f, new)
      BY <2>6
    <3> QED
      BY <2>3, <2>6, <3>1
  <2>7. /\ f \in fs \ old \/ f \in moved \/ f = new
        /\ g \in fs \ old \/ g \in moved \/ g = new
    BY <1>1
  <2> QED
    BY <2>1, <2>2, <2>4, <2>5, <2>6, <2>7
<1>16. \A g \in G : g \in fs \/ (g.form = "plain" /\ g.day = d /\ g.cat = c)
  BY <1>1, <1>4, <1>9
<1>17. \A f \in fs : f.form # "plain" \/ f.day # d \/ f.cat # c => f \in G
  BY <1>1, <1>12
<1>18. ASSUME NEW f \in fs, f.form = "plain"
       PROVE  \E g \in G : /\ g.form = "plain" /\ g.day = f.day /\ g.cat = f.cat
                            /\ f.lines \subseteq g.lines
  <2>1. CASE f \notin old
    BY <1>1, <1>18, <2>1
  <2>2. CASE f \in old /\ full
    <3> DEFINE m == [f EXCEPT !.n = NextNumber(d, c)]
    <3>1. m \in moved
      BY <1>7, <2>2
    <3>2. m.form = f.form /\ m.day = f.day /\ m.cat = f.cat /\ m.lines = f.lines
      BY <1>10 DEF LogFiles
    <3> QED
      BY <1>1, <1>18, <3>1, <3>2
  <2>3. CASE f \in old /\ ~full
    BY <1>1, <1>8, <1>9, <1>12, <2>3
  <2> QED
    BY <2>1, <2>2, <2>3
<1>19. \E g \in G : g.form = "plain" /\ g.day = d /\ g.cat = c /\ l \in g.lines
  BY <1>1, <1>9
<1> QED
  BY <1>13, <1>14, <1>15, <1>16, <1>17, <1>18, <1>19

\* Before the first start there is nothing to keep.
LEMMA TreeStarts == TreeInit => TreeInv
<1> SUFFICES ASSUME TreeInit PROVE TreeInv
  OBVIOUS
<1>1. TreeTypeOK
  BY FS_EmptySet DEF TreeInit, TreeTypeOK, Nothing
<1> QED
  BY <1>1 DEF TreeInit, TreeInv, Once, DaysPast, CopiesAgree, Passing, Nothing, KeptForItsTime

\* What Handle does to the files, said of the line or lines it writes.
LEMMA WritingKeeps ==
  ASSUME TreeInv, serving = "up", UNCHANGED <<today, maintain, serving>>,
         files' \in SUBSET LogFiles, IsFiniteSet(files'), Once(files'),
         \A g \in files' : g \in files \/ (g.form = "plain" /\ g.day = today),
         \A f \in files : f.form # "plain" => f \in files',
         \A f \in files : f.form = "plain" =>
           \E g \in files' : /\ g.form = "plain" /\ g.day = f.day /\ g.cat = f.cat
                             /\ f.lines \subseteq g.lines,
         NEW W, W \subseteq [line : TreeLines, cat : Categories, day : {today}],
         wrote' = wrote \union W,
         \A w \in W : \E g \in files' : /\ g.form = "plain" /\ g.day = today /\ g.cat = w.cat
                                        /\ w.line \in g.lines
  PROVE  TreeInv'
<1> USE DEF TreeInv, TreeTypeOK
<1>1. TreeTypeOK'
  OBVIOUS
<1>2. Once(files)'
  BY DEF Once
<1>3. DaysPast'
  BY DEF DaysPast
<1>4. CopiesAgree'
  <2> SUFFICES ASSUME NEW f \in files', NEW g \in files', f.form = "plain", g.form = "gz",
                      SameFile(f, g)
               PROVE  g.lines = f.lines
    BY DEF CopiesAgree, SameFile
  <2>1. g \in files /\ g.day < today
    BY DEF DaysPast
  <2>2. f \in files
    BY <2>1 DEF SameFile
  <2> QED
    BY <2>1, <2>2 DEF CopiesAgree
<1>5. Passing'
  BY DEF Passing, Nothing, SameName
<1>6. KeptForItsTime'
  <2> SUFFICES ASSUME NEW w \in wrote',
                      retentionFor(w.cat) <= 0 \/ today - w.day < retentionFor(w.cat)
               PROVE  \E f \in files' : /\ f.form # "tmp" /\ f.day = w.day /\ f.cat = w.cat
                                        /\ w.line \in f.lines
    BY DEF KeptForItsTime, retentionFor
  <2>1. CASE w \in W
    BY <2>1
  <2>2. CASE w \in wrote
    <3>1. PICK f \in files : /\ f.form # "tmp" /\ f.day = w.day /\ f.cat = w.cat
                             /\ w.line \in f.lines
      BY <2>2 DEF KeptForItsTime
    <3> QED
      BY <3>1
  <2> QED
    BY <2>1, <2>2
<1> QED
  BY <1>1, <1>2, <1>3, <1>4, <1>5, <1>6 DEF TreeInv

\* Handle: a line below WARN.
LEMMA HandleKeeps ==
  ASSUME TreeInv, NEW l \in TreeLines, NEW c \in Categories, Handle(l, c)
  PROVE  TreeInv'
<1> DEFINE W == {[line |-> l, cat |-> c, day |-> today]}
           G == Append1(files, today, c, Open, l)
<1>1. /\ today \in Nat /\ files \in SUBSET LogFiles /\ IsFiniteSet(files) /\ Once(files)
      /\ TreeTypeOK
  BY DEF TreeInv, TreeTypeOK
<1>2. \A f \in files : ~(/\ f.form = "plain" /\ f.day = today /\ f.cat = c
                         /\ f.n = NextNumber(today, c))
  BY <1>1, FreeNumber DEF Numbered
<1>3. /\ serving = "up" /\ files' = G /\ wrote' = wrote \union W
      /\ UNCHANGED <<today, maintain, serving>>
  BY DEF Handle
<1>4. /\ G \in SUBSET LogFiles /\ IsFiniteSet(G) /\ Once(G)
      /\ \A g \in G : g \in files \/ (g.form = "plain" /\ g.day = today /\ g.cat = c)
      /\ \A f \in files : f.form # "plain" \/ f.day # today \/ f.cat # c => f \in G
      /\ \A f \in files : f.form = "plain" =>
           \E g \in G : /\ g.form = "plain" /\ g.day = f.day /\ g.cat = f.cat
                        /\ f.lines \subseteq g.lines
      /\ \E g \in G : g.form = "plain" /\ g.day = today /\ g.cat = c /\ l \in g.lines
  <2> HIDE DEF G
  <2> DEFINE H == Append1(files, today, c, Open, l)
  <2>1. G = H
    BY DEF G
  <2> HIDE DEF H
  <2> QED
    BY <1>1, <1>2, <2>1, AppendKeeps DEF H
<1>5. W \subseteq [line : TreeLines, cat : Categories, day : {today}]
  OBVIOUS
<1>6. \A w \in W : w.cat = c /\ w.line = l
  OBVIOUS
<1> HIDE DEF W, G
<1> QED
  BY <1>3, <1>4, <1>5, <1>6, WritingKeeps

\* Handle: a line at WARN or above, in two files.
LEMMA HandleLoudKeeps ==
  ASSUME TreeInv, NEW l \in TreeLines, NEW c \in Categories, HandleLoud(l, c)
  PROVE  TreeInv'
<1> DEFINE W == {[line |-> l, cat |-> k, day |-> today] : k \in {c, "error"}}
           F == Append1(files, today, c, Open, l)
           G == Append1(F, today, "error", Open, l)
<1>1. /\ today \in Nat /\ files \in SUBSET LogFiles /\ IsFiniteSet(files) /\ Once(files)
      /\ TreeTypeOK
  BY DEF TreeInv, TreeTypeOK
<1>2. \A k \in Categories : \A f \in files :
        ~(f.form = "plain" /\ f.day = today /\ f.cat = k /\ f.n = NextNumber(today, k))
  BY <1>1, FreeNumber DEF Numbered
<1>3. /\ serving = "up" /\ files' = G /\ wrote' = wrote \union W
      /\ UNCHANGED <<today, maintain, serving>> /\ c # "error"
  BY DEF HandleLoud
<1>4. "error" \in Categories
  BY LogTreeAssumption
<1>5. W \subseteq [line : TreeLines, cat : Categories, day : {today}]
  BY <1>4
<1>6. \A w \in W : w.cat \in {c, "error"} /\ w.line = l
  OBVIOUS
<1>7. /\ F = Append1(files, today, c, Open, l)
      /\ G = Append1(F, today, "error", Open, l)
  OBVIOUS
<1> HIDE DEF W, F, G
<1>8. /\ F \in SUBSET LogFiles /\ IsFiniteSet(F) /\ Once(F)
      /\ \A g \in F : g \in files \/ (g.form = "plain" /\ g.day = today /\ g.cat = c)
      /\ \A f \in files : f.form # "plain" \/ f.day # today \/ f.cat # c => f \in F
      /\ \A f \in files : f.form = "plain" =>
           \E g \in F : /\ g.form = "plain" /\ g.day = f.day /\ g.cat = f.cat
                        /\ f.lines \subseteq g.lines
      /\ \E g \in F : g.form = "plain" /\ g.day = today /\ g.cat = c /\ l \in g.lines
  BY <1>1, <1>2, <1>7, AppendKeeps
<1>9. \A f \in F : ~(/\ f.form = "plain" /\ f.day = today /\ f.cat = "error"
                     /\ f.n = NextNumber(today, "error"))
  BY <1>2, <1>3, <1>4, <1>8
<1>10. /\ G \in SUBSET LogFiles /\ IsFiniteSet(G) /\ Once(G)
       /\ \A g \in G : g \in F \/ (g.form = "plain" /\ g.day = today /\ g.cat = "error")
       /\ \A f \in F : f.form # "plain" \/ f.day # today \/ f.cat # "error" => f \in G
       /\ \A f \in F : f.form = "plain" =>
            \E g \in G : /\ g.form = "plain" /\ g.day = f.day /\ g.cat = f.cat
                         /\ f.lines \subseteq g.lines
       /\ \E g \in G : g.form = "plain" /\ g.day = today /\ g.cat = "error" /\ l \in g.lines
  BY <1>1, <1>4, <1>7, <1>8, <1>9, AppendKeeps
<1>11. \A f \in files : f.form = "plain" =>
         \E g \in G : /\ g.form = "plain" /\ g.day = f.day /\ g.cat = f.cat
                      /\ f.lines \subseteq g.lines
  <2> SUFFICES ASSUME NEW f \in files, f.form = "plain"
               PROVE  \E g \in G : /\ g.form = "plain" /\ g.day = f.day /\ g.cat = f.cat
                                   /\ f.lines \subseteq g.lines
    OBVIOUS
  <2>1. PICK e \in F : /\ e.form = "plain" /\ e.day = f.day /\ e.cat = f.cat
                       /\ f.lines \subseteq e.lines
    BY <1>8
  <2>2. PICK g \in G : /\ g.form = "plain" /\ g.day = e.day /\ g.cat = e.cat
                       /\ e.lines \subseteq g.lines
    BY <1>10, <2>1
  <2> QED
    BY <2>1, <2>2
<1>12. \A w \in W : \E g \in G : /\ g.form = "plain" /\ g.day = today /\ g.cat = w.cat
                                 /\ w.line \in g.lines
  <2>1. \E g \in G : g.form = "plain" /\ g.day = today /\ g.cat = c /\ l \in g.lines
    BY <1>3, <1>8, <1>10
  <2> QED
    BY <1>6, <1>10, <2>1
<1>13. \A g \in G : g \in files \/ (g.form = "plain" /\ g.day = today)
  BY <1>8, <1>10
<1>14. \A f \in files : f.form # "plain" => f \in G
  BY <1>8, <1>10
<1> QED
  BY <1>3, <1>5, <1>10, <1>11, <1>12, <1>13, <1>14, WritingKeeps

\* The first step of a pass takes files of earlier days.
LEMMA StartServiceKeeps == ASSUME TreeInv, StartService PROVE TreeInv'
<1> USE DEF TreeInv, TreeTypeOK, StartService, Nothing
<1>1. TreeTypeOK'
  OBVIOUS
<1>2. Passing'
  BY DEF Passing, DaysPast, LogFiles
<1> QED
  BY <1>1, <1>2 DEF Once, DaysPast, CopiesAgree, KeptForItsTime, retentionFor

\* A file is deleted when each line in it has had its time.
LEMMA DeleteKeeps ==
  ASSUME TreeInv, NEW f \in maintain.todo, Delete(f) PROVE TreeInv'
<1> USE DEF TreeInv, TreeTypeOK, Delete, Handled
<1>1. TreeTypeOK'
  BY FS_RemoveElement
<1>2. Once(files)' /\ DaysPast' /\ CopiesAgree'
  BY DEF Once, DaysPast, CopiesAgree
<1>3. Passing'
  BY DEF Passing, Nothing
<1>4. KeptForItsTime'
  <2>1. retentionFor(f.cat) > 0 /\ ~(today - f.day < retentionFor(f.cat))
    BY LogTreeAssumption DEF Expired, Age, retentionFor, LogFiles
  <2>2. /\ retentionFor(f.cat) \in Int /\ today - f.day \in Int
        /\ \A w \in wrote : retentionFor(w.cat)' = retentionFor(w.cat)
    BY LogTreeAssumption DEF retentionFor, LogFiles
  <2> HIDE DEF retentionFor
  <2>3. \A w \in wrote : retentionFor(w.cat) <= 0 \/ today - w.day < retentionFor(w.cat)
                         => w.day # f.day \/ w.cat # f.cat
    BY <2>1, <2>2
  <2> QED
    BY <2>2, <2>3 DEF KeptForItsTime
<1> QED
  BY <1>1, <1>2, <1>3, <1>4

\* A file is left as it is.
LEMMA LeaveKeeps ==
  ASSUME TreeInv, NEW f \in maintain.todo, Leave(f) PROVE TreeInv'
<1> USE DEF TreeInv, TreeTypeOK, Leave, Handled
<1>1. TreeTypeOK'
  OBVIOUS
<1>2. Passing'
  BY DEF Passing, Nothing
<1> QED
  BY <1>1, <1>2 DEF Once, DaysPast, CopiesAgree, KeptForItsTime, retentionFor

\* A copy begins under a temporary name.
LEMMA CompressKeeps ==
  ASSUME TreeInv, NEW f \in maintain.todo, Compress(f) PROVE TreeInv'
<1> DEFINE t == [f EXCEPT !.form = "tmp", !.lines = {}]
<1> USE DEF TreeInv, TreeTypeOK
<1>1. f \in LogFiles /\ f.form = "plain" /\ f \in files /\ f.day < today
  BY DEF Compress, Archivable, Passing
<1>2. /\ t \in LogFiles /\ t.form = "tmp" /\ t.day = f.day /\ SameFile(t, f)
  BY <1>1 DEF LogFiles, SameFile
<1>3. /\ files' = (files \ SameName(f, "tmp")) \union {t}
      /\ maintain' = [maintain EXCEPT !.tmp = {f}]
      /\ serving = "maintaining" /\ maintain.tmp = {}
      /\ UNCHANGED <<today, serving, wrote>>
  BY DEF Compress
<1> HIDE DEF t
<1>4. /\ \A g \in files : g.form # "tmp" => g \in files'
      /\ \A g \in files' : g.form # "tmp" => g \in files
      /\ \A g \in files' : g \in files \/ g = t
  BY <1>2, <1>3 DEF SameName
<1>5. TreeTypeOK'
  <2>1. IsFiniteSet(files \ SameName(f, "tmp"))
    BY FS_Subset
  <2>2. IsFiniteSet(files')
    BY <1>3, <2>1, FS_AddElement
  <2> QED
    BY <1>2, <1>3, <2>2
<1>6. Once(files)' /\ DaysPast' /\ CopiesAgree'
  BY <1>1, <1>2, <1>3, <1>4 DEF Once, DaysPast, CopiesAgree
<1>7. Passing'
  <2>1. t \in SameName(f, "tmp")'
    BY <1>2, <1>3 DEF SameName, SameFile
  <2> QED
    BY <1>1, <1>3, <1>4, <2>1 DEF Passing
<1>8. KeptForItsTime'
  BY <1>3, <1>4 DEF KeptForItsTime, retentionFor
<1> QED
  BY <1>5, <1>6, <1>7, <1>8

\* The copy takes the place of an earlier one, which was of the same file.
LEMMA RenameKeeps ==
  ASSUME TreeInv, NEW f \in maintain.todo, Rename(f) PROVE TreeInv'
<1> DEFINE z == [f EXCEPT !.form = "gz"]
<1> USE DEF TreeInv, TreeTypeOK
<1>1. f \in LogFiles /\ f.form = "plain" /\ f \in files /\ f.day < today /\ f \in maintain.tmp
  BY DEF Rename, Passing
<1>2. /\ z \in LogFiles /\ z.form = "gz" /\ z.day = f.day /\ z.cat = f.cat /\ z.n = f.n
      /\ z.lines = f.lines /\ z = [f EXCEPT !.form = "gz"]
  BY <1>1 DEF LogFiles
<1>3. /\ files' = (files \ (SameName(f, "tmp") \union SameName(f, "gz"))) \union {z}
      /\ serving = "maintaining"
      /\ UNCHANGED <<today, serving, maintain, wrote>>
  BY DEF Rename
<1> HIDE DEF z
<1>4. /\ \A g \in files : g.form = "plain" => g \in files'
      /\ \A g \in files' : g.form = "plain" => g \in files
      /\ \A g \in files' : g \in files \/ g = z
      /\ \A g \in files : g.form # "tmp" => g \in files' \/ (g.form = "gz" /\ SameFile(f, g))
      /\ z \in files'
  BY <1>2, <1>3 DEF SameName, SameFile
<1>5. TreeTypeOK'
  <2>1. IsFiniteSet(files \ (SameName(f, "tmp") \union SameName(f, "gz")))
    BY FS_Subset
  <2>2. IsFiniteSet(files')
    BY <1>3, <2>1, FS_AddElement
  <2> QED
    BY <1>2, <1>3, <2>2
<1>6. Once(files)' /\ DaysPast'
  BY <1>1, <1>2, <1>3, <1>4 DEF Once, DaysPast
<1>7. CopiesAgree'
  <2> SUFFICES ASSUME NEW p \in files', NEW g \in files', p.form = "plain", g.form = "gz",
                      SameFile(p, g)
               PROVE  g.lines = p.lines
    BY DEF CopiesAgree, SameFile
  <2>1. p \in files
    BY <1>4
  <2>2. CASE g \in files
    BY <2>1, <2>2 DEF CopiesAgree
  <2>3. CASE g = z
    BY <1>1, <1>2, <2>1, <2>3 DEF Once, SameFile
  <2> QED
    BY <1>4, <2>2, <2>3
<1>8. Passing'
  BY <1>1, <1>2, <1>3, <1>4 DEF Passing
<1>9. KeptForItsTime'
  <2>1. \A g \in files : g.form # "tmp" =>
          \E h \in files' : /\ h.form # "tmp" /\ h.day = g.day /\ h.cat = g.cat
                            /\ h.lines = g.lines
    <3> SUFFICES ASSUME NEW g \in files, g.form # "tmp", g \notin files'
                 PROVE  g.day = z.day /\ g.cat = z.cat /\ g.lines = z.lines
      BY <1>2, <1>4
    <3>1. g.form = "gz" /\ SameFile(f, g)
      BY <1>4
    <3> QED
      BY <1>1, <1>2, <3>1 DEF CopiesAgree, SameFile
  <2> QED
    BY <1>3, <2>1 DEF KeptForItsTime, retentionFor
<1> QED
  BY <1>5, <1>6, <1>7, <1>8, <1>9

\* The original goes when the whole of it is in the compressed file.
LEMMA RemoveOriginalKeeps ==
  ASSUME TreeInv, NEW f \in maintain.todo, RemoveOriginal(f) PROVE TreeInv'
<1> DEFINE z == [f EXCEPT !.form = "gz"]
<1> USE DEF TreeInv, TreeTypeOK
<1>1. f \in LogFiles /\ f.form = "plain" /\ z \in files
  BY DEF RemoveOriginal, Passing
<1>2. z.form = "gz" /\ z.day = f.day /\ z.cat = f.cat /\ z.lines = f.lines /\ z # f
  BY <1>1 DEF LogFiles
<1>3. /\ files' = files \ {f} /\ serving = "maintaining"
      /\ maintain' = [todo |-> maintain.todo \ {f}, tmp |-> {}]
      /\ UNCHANGED <<today, serving, wrote>>
  BY DEF RemoveOriginal
<1> HIDE DEF z
<1>4. TreeTypeOK'
  BY <1>3, FS_RemoveElement
<1>5. Once(files)' /\ DaysPast' /\ CopiesAgree'
  BY <1>3 DEF Once, DaysPast, CopiesAgree
<1>6. Passing'
  BY <1>3 DEF Passing
<1>7. KeptForItsTime'
  <2>1. \A g \in files : \E h \in files' : /\ g.form # "tmp" => h.form # "tmp"
                                           /\ h.day = g.day /\ h.cat = g.cat
                                           /\ h.lines = g.lines
    BY <1>1, <1>2, <1>3
  <2> QED
    BY <1>3, <2>1 DEF KeptForItsTime, retentionFor
<1> QED
  BY <1>4, <1>5, <1>6, <1>7

\* The pass ends, and only temporary files go.
LEMMA MaintainedKeeps == ASSUME TreeInv, Maintained PROVE TreeInv'
<1> USE DEF TreeInv, TreeTypeOK
<1>1. /\ files' \subseteq files /\ \A g \in files : g.form # "tmp" => g \in files'
      /\ serving' = "up" /\ maintain' = Nothing /\ UNCHANGED <<today, wrote>>
  BY DEF Maintained, SameName
<1>2. TreeTypeOK'
  BY <1>1, FS_Subset DEF Nothing
<1>3. Once(files)' /\ DaysPast' /\ CopiesAgree'
  BY <1>1 DEF Once, DaysPast, CopiesAgree
<1>4. Passing'
  BY <1>1 DEF Passing, Nothing
<1>5. KeptForItsTime'
  BY <1>1 DEF KeptForItsTime, retentionFor
<1> QED
  BY <1>2, <1>3, <1>4, <1>5

\* Every step of the tree.
LEMMA TreeKeeps == TreeInv /\ [TreeNext]_treeVars => TreeInv'
<1> SUFFICES ASSUME TreeInv, [TreeNext]_treeVars PROVE TreeInv'
  OBVIOUS
<1>1. ASSUME NEW l \in TreeLines, NEW c \in Categories, Handle(l, c) \/ HandleLoud(l, c)
      PROVE  TreeInv'
  BY <1>1, HandleKeeps, HandleLoudKeeps
<1>2. ASSUME NEW l \in TreeLines, HandleFails(l) PROVE TreeInv'
  BY <1>2 DEF HandleFails, TreeInv, TreeTypeOK, Once, DaysPast, CopiesAgree, Passing, Nothing,
              KeptForItsTime, retentionFor, SameName
<1>3. ASSUME NEW f \in maintain.todo, MaintainFile(f) PROVE TreeInv'
  BY <1>3, DeleteKeeps, LeaveKeeps, CompressKeeps, RenameKeeps, RemoveOriginalKeeps
     DEF MaintainFile
<1>4. CASE StartService
  BY <1>4, StartServiceKeeps
<1>5. CASE Maintained
  BY <1>5, MaintainedKeeps
<1>6. CASE Stop
  <2>1. TreeTypeOK' /\ Passing'
    BY <1>6 DEF Stop, TreeInv, TreeTypeOK, Passing, Nothing
  <2> QED
    BY <1>6, <2>1 DEF Stop, TreeInv, Once, DaysPast, CopiesAgree, KeptForItsTime, retentionFor
<1>7. CASE NextDay
  <2>1. /\ today \in Nat /\ today' = today + 1
        /\ UNCHANGED <<files, maintain, serving, wrote>>
    BY <1>7 DEF NextDay, TreeInv, TreeTypeOK
  <2>2. TreeTypeOK' /\ Once(files)' /\ DaysPast' /\ CopiesAgree'
    BY <2>1 DEF TreeInv, TreeTypeOK, Once, DaysPast, CopiesAgree, LogFiles
  <2>3. Passing'
    <3>1. \A f \in maintain.todo : f.day \in Nat
      BY DEF TreeInv, TreeTypeOK, LogFiles
    <3> QED
      BY <2>1, <3>1 DEF TreeInv, Passing, SameName
  <2>4. KeptForItsTime'
    <3>1. \A w \in wrote : w.day \in Nat /\ retentionFor(w.cat) \in Int
      BY LogTreeAssumption DEF TreeInv, TreeTypeOK, retentionFor
    <3> HIDE DEF retentionFor
    <3>2. \A w \in wrote : retentionFor(w.cat)' = retentionFor(w.cat)
      BY DEF retentionFor
    <3> QED
      BY <2>1, <3>1, <3>2 DEF TreeInv, KeptForItsTime
  <2> QED
    BY <2>2, <2>3, <2>4 DEF TreeInv
<1>8. CASE UNCHANGED treeVars
  BY <1>8 DEF treeVars, TreeInv, TreeTypeOK, Once, DaysPast, CopiesAgree, Passing, Nothing,
              KeptForItsTime, retentionFor, SameName
<1> QED
  BY <1>1, <1>2, <1>3, <1>4, <1>5, <1>6, <1>7, <1>8 DEF TreeNext

\* tree.go and lifecycle.go: for any lines, categories, file size and retention,
\* whenever a file is moved aside and wherever a pass over the files is stopped,
\* a line written can be read for its category's retention.
THEOREM LinesAreKept == TreeSpec => []KeptForItsTime
<1>1. TreeInv => KeptForItsTime
  BY DEF TreeInv
<1> QED
  BY <1>1, TreeStarts, TreeKeeps, PTL DEF TreeSpec
=============================================================================
