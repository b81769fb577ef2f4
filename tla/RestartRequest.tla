--------------------------- MODULE RestartRequest ----------------------------
(***************************************************************************)
(* A restart pressed in the panel: internal/panel/restartrequest.go writes *)
(* the request, internal/restartreq watches for it inside the service, and *)
(* internal/heartbeat measures the start it is compared with, all in the   *)
(* database's clock.  The supervisor starts whatever has exited.           *)
(*                                                                         *)
(* One service.  A query that fails without effect is a step not taken.    *)
(* Time is in ticks of the database's clock, which an administrator may    *)
(* set back; the process counts its age by a clock nobody sets.            *)
(***************************************************************************)
EXTENDS Integers

CONSTANTS
  Spacing,    \* RestartSpacing
  MaxLag,     \* the longest trip of a heartbeat's statement to the database
  MaxTime,    \* bound on the clock
  MaxCrashes, \* bound on the exits nobody asked for
  MaxSteps,   \* bound on the times the clock is set back
  MaxWrites,  \* bound on the writes of the row that are not the panel's
  Junk,       \* a value that holds no time
  None        \* no row, no statement

ASSUME RestartAssumption ==
  /\ Spacing \in Nat /\ MaxLag \in Nat /\ MaxTime \in Nat
  /\ MaxCrashes \in Nat /\ MaxSteps \in Nat /\ MaxWrites \in Nat
  /\ Junk \notin Int /\ None \notin Int /\ Junk # None

VARIABLES
  clock,     \* the database's now()
  request,   \* the request row's value
  updatedAt, \* its updated_at
  granted,   \* the service's role may read panel_settings
  startedAt, \* started_at of the service's heartbeat row
  proc,      \* "up", "exiting" or "down"
  age,       \* how long the process has been up, by its own clock
  known,     \* Reporter.startedKnown
  startedDB, \* Reporter.startedDB
  beat,      \* the elapsed time in the heartbeat statement under way
  lag,       \* for how long that has been under way
  permitted, \* what the watcher has learned of granted; "ask" at first
  budget,    \* crashes, steps and writes left
  \* History, for the properties.
  realStart, \* the clock when the process started, moved as the clock is
  exits,     \* processes that have exited for the request in the row
  stepped    \* times the clock has been set back under it

rowVars == <<request, updatedAt, granted>>
procVars == <<proc, age, known, startedDB, beat, lag, permitted, realStart>>
vars == <<clock, rowVars, startedAt, procVars, budget, exits, stepped>>

Times == 0..MaxTime

TypeOK ==
  /\ clock \in Times
  /\ request \in Times \union {Junk, None}
  /\ updatedAt \in Times
  /\ granted \in BOOLEAN
  /\ startedAt \in Int \union {None}
  /\ proc \in {"up", "exiting", "down"}
  /\ age \in Nat /\ known \in BOOLEAN
  /\ startedDB \in Int
  /\ beat \in Nat \union {None} /\ lag \in 0..MaxLag
  /\ permitted \in {"ask", "yes", "no"}
  /\ budget \in [crash : 0..MaxCrashes, step : 0..MaxSteps, write : 0..MaxWrites]
  /\ realStart \in Int /\ exits \in Nat /\ stepped \in 0..MaxSteps
  \* Nothing of a process outlives it.
  /\ proc = "down" => beat = None /\ ~known /\ permitted = "ask"

\* The service's first process has just started.
Init ==
  /\ clock = 0
  /\ request = None /\ updatedAt = 0
  /\ granted = TRUE
  /\ startedAt = None
  /\ proc = "up" /\ age = 0 /\ known = FALSE /\ startedDB = 0
  /\ beat = None /\ lag = 0 /\ permitted = "ask"
  /\ budget = [crash |-> MaxCrashes, step |-> MaxSteps, write |-> MaxWrites]
  /\ realStart = 0 /\ exits = 0 /\ stepped = 0

-----------------------------------------------------------------------------
(* The panel and the database.                                             *)

\* RequestRestart, past the entitlement and the password: the spacing is
\* decided by the statement that writes.
RequestRestart ==
  /\ granted /\ startedAt # None
  /\ request = None \/ updatedAt <= clock - Spacing
  /\ request' = clock /\ updatedAt' = clock
  /\ exits' = 0 /\ stepped' = 0
  /\ UNCHANGED <<clock, granted, startedAt, procVars, budget>>

\* The row is a value others who hold the panel's role can set too, to a time
\* to come or to no time at all.
SetRow(v) ==
  /\ budget.write > 0 /\ v # request
  /\ budget' = [budget EXCEPT !.write = @ - 1]
  /\ request' = v
  /\ exits' = 0 /\ stepped' = 0
  /\ UNCHANGED <<clock, updatedAt, granted, startedAt, procVars>>

\* A schema upgrade grants the privilege, or somebody revokes it.
Regrant ==
  /\ granted' = ~granted
  /\ UNCHANGED <<clock, request, updatedAt, startedAt, procVars, budget, exits, stepped>>

Tick ==
  /\ clock < MaxTime
  /\ beat # None => lag < MaxLag
  /\ clock' = clock + 1
  /\ age' = IF proc = "down" THEN age ELSE age + 1
  /\ lag' = IF beat # None THEN lag + 1 ELSE lag
  /\ UNCHANGED <<rowVars, startedAt, proc, known, startedDB, beat, permitted, realStart,
                 budget, exits, stepped>>

\* The clock is set back to t.
StepBack(t) ==
  /\ budget.step > 0 /\ t < clock
  /\ budget' = [budget EXCEPT !.step = @ - 1]
  /\ clock' = t
  /\ realStart' = IF proc = "down" THEN realStart ELSE realStart - (clock - t)
  /\ stepped' = stepped + 1
  /\ UNCHANGED <<rowVars, startedAt, proc, age, known, startedDB, beat, lag, permitted, exits>>

-----------------------------------------------------------------------------
(* heartbeat.Reporter.                                                     *)

\* The elapsed time is taken and the statement goes out; once the start is
\* known it is what every beat carries.
BeatSend ==
  /\ proc # "down" /\ beat = None
  /\ beat' = age /\ lag' = 0
  /\ UNCHANGED <<clock, rowVars, startedAt, proc, age, known, startedDB, permitted,
                 realStart, budget, exits, stepped>>

\* now() - make_interval(secs => elapsed).
Measured == clock - beat

\* The started_at the statement stores.
BeatStored == IF known THEN startedDB ELSE Measured

\* The row is written, and the reporter hears of it.
BeatDone ==
  /\ beat # None
  /\ startedAt' = BeatStored
  /\ startedDB' = IF known THEN startedDB ELSE BeatStored
  /\ known' = TRUE
  /\ beat' = None /\ lag' = 0
  /\ UNCHANGED <<clock, rowVars, proc, age, permitted, realStart, budget, exits, stepped>>

\* The row is written, and the deadline passes before the answer comes.
BeatUnheard ==
  /\ beat # None
  /\ startedAt' = BeatStored
  /\ beat' = None /\ lag' = 0
  /\ UNCHANGED <<clock, rowVars, proc, age, known, startedDB, permitted, realStart,
                 budget, exits, stepped>>

-----------------------------------------------------------------------------
(* restartreq.Watcher.                                                     *)

\* Mutant of AskPrivilege: the privilege is asked for once.
AskPrivilegeOnce ==
  /\ proc = "up" /\ permitted = "ask"
  /\ permitted' = IF granted THEN "yes" ELSE "no"
  /\ UNCHANGED <<clock, rowVars, startedAt, proc, age, known, startedDB, beat, lag,
                 realStart, budget, exits, stepped>>

\* whoAndMay, at the first step and again while the answer has been no.
AskPrivilege ==
  /\ proc = "up" /\ permitted \in {"ask", "no"}
  /\ permitted' = IF granted THEN "yes" ELSE "no"
  /\ UNCHANGED <<clock, rowVars, startedAt, proc, age, known, startedDB, beat, lag,
                 realStart, budget, exits, stepped>>

\* The read fails: the grant went away under the running service.
ReadRefused ==
  /\ proc = "up" /\ permitted = "yes" /\ known /\ ~granted
  /\ permitted' = "no"
  /\ UNCHANGED <<clock, rowVars, startedAt, proc, age, known, startedDB, beat, lag,
                 realStart, budget, exits, stepped>>

\* Satisfied(requested, started).
Satisfied(requested, started) == requested <= started

\* Mutant of Obeyed: a request ahead of the clock is acted on at once.
ObeyedEarly(v) == v \in Int /\ ~Satisfied(v, startedDB)

\* What step makes of the row's value: a time, due, and newer than the start.
Obeyed(v) == v \in Int /\ v <= clock /\ ~Satisfied(v, startedDB)

\* The request is read with the database's clock, and obeyed.
Exit ==
  /\ proc = "up" /\ permitted = "yes" /\ known /\ granted
  /\ Obeyed(request)
  /\ proc' = "exiting"
  /\ exits' = exits + 1
  /\ UNCHANGED <<clock, rowVars, startedAt, age, known, startedDB, beat, lag, permitted,
                 realStart, budget, stepped>>

\* The process is gone, and all it knew.
Down ==
  /\ proc' = "down"
  /\ age' = 0 /\ known' = FALSE /\ startedDB' = 0
  /\ beat' = None /\ lag' = 0 /\ permitted' = "ask" /\ realStart' = 0

\* The clean shutdown ends, or the backstop ends it.
Exited ==
  /\ proc = "exiting"
  /\ Down
  /\ UNCHANGED <<clock, rowVars, startedAt, budget, exits, stepped>>

Crash ==
  /\ proc # "down" /\ budget.crash > 0
  /\ Down
  /\ budget' = [budget EXCEPT !.crash = @ - 1]
  /\ UNCHANGED <<clock, rowVars, startedAt, exits, stepped>>

\* The supervisor: Restart=always.
Start ==
  /\ proc = "down"
  /\ proc' = "up" /\ realStart' = clock
  /\ UNCHANGED <<clock, rowVars, startedAt, age, known, startedDB, beat, lag, permitted,
                 budget, exits, stepped>>

-----------------------------------------------------------------------------
Next ==
  \/ RequestRestart
  \/ \E v \in Times \union {Junk} : SetRow(v)
  \/ Regrant \/ Tick
  \/ \E t \in Times : StepBack(t)
  \/ BeatSend \/ BeatDone \/ BeatUnheard
  \/ AskPrivilege \/ ReadRefused \/ Exit \/ Exited \/ Crash \/ Start

Spec == Init /\ [][Next]_vars

\* Tickers tick, answered statements are heard in the end, the supervisor
\* restarts, and time passes.
FairSpec ==
  /\ Spec
  /\ WF_vars(Tick) /\ WF_vars(BeatSend) /\ SF_vars(BeatDone)
  /\ WF_vars(AskPrivilege) /\ WF_vars(Exit)
  /\ WF_vars(Exited) /\ WF_vars(Start)

-----------------------------------------------------------------------------
(* Properties.                                                             *)

\* A request makes the service exit once, and once more only for each time
\* the database's clock is set back under it; a request ahead of the clock,
\* crashes, lost answers and slow starts add none (restartreq.go:36-48, "the
\* whole argument for 'no loop'").
NoRestartLoop == exits <= 1 + stepped

\* restartStateOf says "restarted".
RestartDone == request \in Int /\ startedAt \in Int /\ Satisfied(request, startedAt)

\* Unless it is withdrawn, a request is honoured and the page says so, as
\* long as the service is in the end allowed to read it.
Honoured ==
  <>[]granted => (request \in Int ~> request \notin Int \/ RestartDone)
=============================================================================
