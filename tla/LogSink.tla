------------------------------ MODULE LogSink -------------------------------
(***************************************************************************)
(* The panel's copy of a service's log: internal/logsink, and the order in *)
(* which a service's main ends it (cmd/*/main.go).                         *)
(*                                                                         *)
(* A line is logged by some goroutine at some moment; the goroutines that  *)
(* beat and watch for restart requests are not waited for, so a line may   *)
(* come after the sink is closed.  What a line says is left out, but for   *)
(* its level.                                                              *)
(***************************************************************************)
EXTENDS Integers, Sequences, FiniteSets, SequencesExt

CONSTANTS
  LogLines,  \* lines, each logged at most once
  LogBuffer  \* Config.Buffer

LogSinkAssumption == LogBuffer \in Nat \ {0}

\* slog's levels.
Levels == {"debug", "info", "warn", "error"}
Rank == [l \in Levels |-> CASE l = "debug" -> 0 [] l = "info" -> 1
                            [] l = "warn" -> 2 [] l = "error" -> 3]

VARIABLES
  inForce,   \* Controls: [level, base], and the level Apply has yet to set
  records,   \* Sink.records, the channel
  shut,      \* the channel is closed
  writing,   \* the lines run is writing: none or one
  logged,    \* the lines logged so far
  copied,    \* of these, the ones Handle took for the table
  tabled,    \* panel_logs
  lineDropped, lineFailed,
  lastError, \* Sink.lastError
  process,   \* main: "up", "failed" (to serve), "closing", "gone"
  panicked   \* a send on the closed channel

sinkVars == <<inForce, records, shut, writing, logged, copied, tabled, lineDropped,
              lineFailed, lastError, process, panicked>>

SinkInit ==
  /\ inForce = [level |-> "info", base |-> "info", next |-> "info"]
  /\ records = <<>> /\ shut = FALSE /\ writing = {}
  /\ logged = {} /\ copied = {}
  /\ tabled = {} /\ lineDropped = {} /\ lineFailed = {} /\ lastError = {}
  /\ process = "up" /\ panicked = FALSE

-----------------------------------------------------------------------------
(* Levels (logging.Controls, PanelLevel).                                  *)

Lower(a, b) == IF Rank[a] < Rank[b] THEN a ELSE b

\* Controls.Apply: a configured level, and detail asked for until later.
\* base is a plain field, set before the level.
Apply(configured, verbose) ==
  /\ process = "up" /\ inForce.next = inForce.level
  /\ inForce' = [inForce EXCEPT !.base = configured,
                 !.next = IF verbose THEN Lower("debug", configured) ELSE configured]
  /\ UNCHANGED <<records, shut, writing, logged, copied, tabled, lineDropped,
                 lineFailed, lastError, process, panicked>>

SetLevel ==
  /\ process = "up" /\ inForce.next # inForce.level
  /\ inForce' = [inForce EXCEPT !.level = inForce.next]
  /\ UNCHANGED <<records, shut, writing, logged, copied, tabled, lineDropped,
                 lineFailed, lastError, process, panicked>>

\* panelLevel.Level: WARN, a temporary raise, or a tree quieter than WARN.
PanelLevel ==
  IF Rank[inForce.level] < Rank[inForce.base] THEN inForce.level
  ELSE IF Rank[inForce.base] > Rank["warn"] THEN inForce.base ELSE "warn"

-----------------------------------------------------------------------------
(* Lines.                                                                  *)

\* teeHandler.Handle and handler.Handle: the tree and the table each look at
\* the level for themselves.
HandleLine(l, level) ==
  /\ process # "gone" /\ l \notin logged
  /\ logged' = logged \union {l}
  /\ Rank[level] >= Rank[PanelLevel]
  /\ copied' = copied \union {l}
  /\ lastError' = IF level = "error" THEN {l} ELSE lastError
  /\ IF shut
     THEN /\ panicked' = TRUE /\ process' = "gone"
          /\ UNCHANGED <<records, lineDropped>>
     ELSE /\ IF Len(records) < LogBuffer
             THEN records' = Append(records, l) /\ UNCHANGED lineDropped
             ELSE lineDropped' = lineDropped \union {l} /\ UNCHANGED records
          /\ UNCHANGED <<process, panicked>>
  /\ UNCHANGED <<inForce, shut, writing, tabled, lineFailed>>

\* run.
Receive ==
  /\ process # "gone" /\ records # <<>> /\ writing = {}
  /\ writing' = {Head(records)} /\ records' = Tail(records)
  /\ UNCHANGED <<inForce, shut, logged, copied, tabled, lineDropped, lineFailed, lastError,
                 process, panicked>>

Written ==
  /\ process # "gone" /\ writing # {} /\ writing' = {}
  /\ UNCHANGED <<inForce, records, shut, logged, copied, lineDropped, lastError, process,
                 panicked>>

WriteOK == Written /\ tabled' = tabled \union writing /\ UNCHANGED lineFailed

\* (mutant) A line that cannot be written leaves no trace.
FailsUncounted == Written /\ UNCHANGED <<tabled, lineFailed>>

\* write: the role's name cannot be read, or the insert fails.
WriteFails == Written /\ lineFailed' = lineFailed \union writing /\ UNCHANGED tabled

-----------------------------------------------------------------------------
(* The end of main.                                                        *)

\* main returns: the deferred Close closes the channel.
Close ==
  /\ process = "up" /\ process' = "closing" /\ shut' = TRUE
  /\ UNCHANGED <<inForce, records, writing, logged, copied, tabled, lineDropped, lineFailed,
                 lastError, panicked>>

\* Close returns when run has ended, and the process ends.
Closed ==
  /\ process = "closing" /\ records = <<>> /\ writing = {} /\ process' = "gone"
  /\ UNCHANGED <<inForce, records, shut, writing, logged, copied, tabled, lineDropped,
                 lineFailed, lastError, panicked>>

\* The server ended with an error: main logs it and calls os.Exit, which runs
\* no deferred function.
ExitFailed ==
  /\ process = "up" /\ process' = "gone"
  /\ lastError # {}
  /\ UNCHANGED <<inForce, records, shut, writing, logged, copied, tabled, lineDropped,
                 lineFailed, lastError, panicked>>

SinkNext ==
  \/ \E c \in Levels, v \in BOOLEAN : Apply(c, v)
  \/ SetLevel
  \/ \E l \in LogLines, v \in Levels : HandleLine(l, v)
  \/ Receive \/ WriteOK \/ WriteFails
  \/ Close \/ Closed \/ ExitFailed

SinkSpec == SinkInit /\ [][SinkNext]_sinkVars

-----------------------------------------------------------------------------
(* Properties.                                                             *)

\* A line taken for the table is in it, on its way, or in Lost, the figure the
\* health page shows (Lost, logsink.go:279); and once main has returned and
\* Close with it, none is on its way any more (Attach: "so the buffer drains
\* rather than being dropped on the floor").  An error exit and a line logged
\* after Close are the exceptions.
LinesAccounted ==
  /\ ~panicked => copied = (tabled \union lineDropped \union lineFailed \union writing
                               \union ToSet(records))
  /\ process = "gone" /\ shut /\ ~panicked => writing = {} /\ records = <<>>
=============================================================================
