------------------------------- MODULE LogTree -------------------------------
(***************************************************************************)
(* A service's log files: internal/logging's tree.go, handler.go and       *)
(* lifecycle.go.  A file is <day>/<category>[.<n>].log, compressed or not, *)
(* and what matters of it is the lines in it.                              *)
(*                                                                         *)
(* Every operation on open files holds Tree.mu, and Maintain runs once, at *)
(* start, before the first line; a crash may stop it between any two       *)
(* operations on the file system.                                          *)
(***************************************************************************)
EXTENDS Integers, FiniteSets, FiniteSetsExt

CONSTANTS
  TreeLines,    \* lines, each logged at most once
  Categories,   \* log streams, with "error" and "app" among them
  Important,    \* the ones kept longer
  FileLines,    \* TreeConfig.MaxFileBytes, in lines
  ArchiveAfter, Retention, ImportantRetention, \* Lifecycle, in days
  MaxDay,       \* bound: the calendar
  MaxStarts     \* bound: starts of the service

ASSUME LogTreeAssumption ==
  /\ {"error", "app"} \subseteq Categories /\ Important \subseteq Categories
  /\ FileLines \in Nat \ {0} /\ ArchiveAfter \in Int
  /\ Retention \in Int /\ ImportantRetention \in Int

VARIABLES
  today,     \* the UTC date
  day,       \* Tree.day
  open,      \* the categories with an open file
  files,     \* [day, cat, n, form, lines]; n = 0 is the file written to
  maintain,  \* Maintain: the files it has read the names of and not handled,
             \* and the one it is compressing
  serving,   \* "down", "maintaining", "up"
  starts,
  wrote,     \* [line, cat, day] for each line written to a file
  fallen     \* lines that went to stderr because a file could not be written

treeVars == <<today, day, open, files, maintain, serving, starts, wrote, fallen>>

Nothing == [todo |-> {}, tmp |-> {}]

TreeInit ==
  /\ today = 0 /\ day = 0 /\ open = {} /\ files = {} /\ maintain = Nothing
  /\ serving = "down" /\ starts = 0 /\ wrote = {} /\ fallen = {}

-----------------------------------------------------------------------------
(* Writing.                                                                *)

Numbered(d, c, n) == {f \in files : f.day = d /\ f.cat = c /\ f.n = n /\ f.form = "plain"}

\* rotateLocked: the first number no plain file of the day has.
NextNumber(d, c) ==
  Min({n \in 1..(Cardinality(files) + 1) : Numbered(d, c, n) = {}})

\* Write and fileLocked: the files after line l is appended to category c on
\* day d, by a tree whose open files are `now'.
Append1(fs, d, c, now, l) ==
  LET old == {f \in fs : f.day = d /\ f.cat = c /\ f.n = 0 /\ f.form = "plain"}
      full == c \in now /\ \E f \in old : Cardinality(f.lines) >= FileLines
      moved == IF full THEN {[f EXCEPT !.n = NextNumber(d, c)] : f \in old} ELSE {}
      before == IF full THEN {} ELSE UNION {f.lines : f \in old}
  IN (fs \ old) \union moved
     \union {[day |-> d, cat |-> c, n |-> 0, form |-> "plain", lines |-> before \union {l}]}

Logged(l) == l \in fallen \/ \E w \in wrote : w.line = l

\* A later line on a new day rolls to the day's directory first.
Open == IF today = day THEN open ELSE {}

\* Handle: a line below WARN, or one of category "error".
Handle(l, c) ==
  /\ serving = "up" /\ ~Logged(l)
  /\ files' = Append1(files, today, c, Open, l)
  /\ day' = today /\ open' = Open \union {c}
  /\ wrote' = wrote \union {[line |-> l, cat |-> c, day |-> today]}
  /\ UNCHANGED <<today, maintain, serving, starts, fallen>>

\* Handle: a line at WARN or above goes to error.log as well.
HandleLoud(l, c) ==
  /\ serving = "up" /\ ~Logged(l) /\ c # "error"
  /\ files' = Append1(Append1(files, today, c, Open, l), today, "error", Open, l)
  /\ day' = today /\ open' = Open \union {c, "error"}
  /\ wrote' = wrote \union {[line |-> l, cat |-> k, day |-> today] : k \in {c, "error"}}
  /\ UNCHANGED <<today, maintain, serving, starts, fallen>>

\* reportFallback: the file cannot be opened or written.
HandleFails(l) ==
  /\ serving = "up" /\ ~Logged(l)
  /\ fallen' = fallen \union {l}
  /\ day' = today /\ open' = Open
  /\ UNCHANGED <<today, files, maintain, serving, starts, wrote>>

-----------------------------------------------------------------------------
(* Maintain.                                                               *)

Age(f) == today - f.day
retentionFor(c) == IF c \in Important THEN ImportantRetention ELSE Retention

\* (mutant) Every category is kept for as long as an ordinary one.
ExpiredAlike(f) == Retention > 0 /\ Age(f) >= Retention

Expired(f) == retentionFor(f.cat) > 0 /\ Age(f) >= retentionFor(f.cat)
Archivable(f) == ArchiveAfter > 0 /\ Age(f) >= ArchiveAfter /\ f.form = "plain"

\* Setup: the tree of today, then one pass.  A temporary file has no category
\* and is passed over.
StartService ==
  /\ serving = "down" /\ starts < MaxStarts
  /\ serving' = "maintaining" /\ starts' = starts + 1
  /\ day' = today /\ open' = {}
  /\ maintain' = [Nothing EXCEPT !.todo = {f \in files : f.day # today /\ f.form # "tmp"}]
  /\ UNCHANGED <<today, files, wrote, fallen>>

Handled(f) == maintain' = [maintain EXCEPT !.todo = @ \ {f}]

Delete(f) ==
  /\ serving = "maintaining" /\ maintain.tmp = {} /\ f \in maintain.todo
  /\ Expired(f)
  /\ files' = files \ {f}
  /\ Handled(f)
  /\ UNCHANGED <<today, day, open, serving, starts, wrote, fallen>>

Leave(f) ==
  /\ serving = "maintaining" /\ maintain.tmp = {} /\ f \in maintain.todo
  /\ ~Expired(f) /\ ~Archivable(f)
  /\ Handled(f)
  /\ UNCHANGED <<today, day, open, files, serving, starts, wrote, fallen>>

SameName(f, form) == {g \in files : g.day = f.day /\ g.cat = f.cat /\ g.n = f.n /\ g.form = form}

\* compressInPlace, up to the end of the copy: a partial file under a
\* temporary name.
Compress(f) ==
  /\ serving = "maintaining" /\ maintain.tmp = {} /\ f \in maintain.todo
  /\ ~Expired(f) /\ Archivable(f)
  /\ files' = (files \ SameName(f, "tmp")) \union {[f EXCEPT !.form = "tmp", !.lines = {}]}
  /\ maintain' = [maintain EXCEPT !.tmp = {f}]
  /\ UNCHANGED <<today, day, open, serving, starts, wrote, fallen>>

\* The copy is complete and takes its place, over an earlier one.
Rename(f) ==
  /\ serving = "maintaining" /\ f \in maintain.tmp /\ SameName(f, "tmp") # {}
  /\ files' = (files \ (SameName(f, "tmp") \union SameName(f, "gz")))
              \union {[f EXCEPT !.form = "gz"]}
  /\ UNCHANGED <<today, day, open, maintain, serving, starts, wrote, fallen>>

RemoveOriginal(f) ==
  /\ serving = "maintaining" /\ f \in maintain.tmp /\ SameName(f, "tmp") = {}
  /\ files' = files \ {f}
  /\ maintain' = [todo |-> maintain.todo \ {f}, tmp |-> {}]
  /\ UNCHANGED <<today, day, open, serving, starts, wrote, fallen>>

\* The pass is over, or an operation of it has failed: the service goes on.  A
\* failed compression removes its temporary file.
Maintained ==
  /\ serving = "maintaining"
  /\ serving' = "up" /\ maintain' = Nothing
  /\ files' = files \ UNION {SameName(f, "tmp") : f \in maintain.tmp}
  /\ UNCHANGED <<today, day, open, starts, wrote, fallen>>

\* A kill or a clean stop.
Stop ==
  /\ serving # "down" /\ serving' = "down" /\ open' = {} /\ maintain' = Nothing
  /\ UNCHANGED <<today, day, files, starts, wrote, fallen>>

NextDay ==
  /\ today < MaxDay /\ today' = today + 1
  /\ UNCHANGED <<day, open, files, maintain, serving, starts, wrote, fallen>>

MaintainFile(f) == Delete(f) \/ Leave(f) \/ Compress(f) \/ Rename(f) \/ RemoveOriginal(f)

TreeNext ==
  \/ \E l \in TreeLines, c \in Categories : Handle(l, c) \/ HandleLoud(l, c)
  \/ \E l \in TreeLines : HandleFails(l)
  \/ \E f \in maintain.todo : MaintainFile(f)
  \/ StartService \/ Maintained \/ Stop \/ NextDay

TreeSpec == TreeInit /\ [][TreeNext]_treeVars

-----------------------------------------------------------------------------
(* Properties.                                                             *)

\* A line written to a category's file can be read there for the category's
\* retention, whole: neither rotation, nor a compression stopped anywhere, nor
\* the next start's pass over what it left loses it (compressInPlace).
KeptForItsTime ==
  \A w \in wrote :
    (retentionFor(w.cat) <= 0 \/ today - w.day < retentionFor(w.cat)) =>
      \E f \in files : /\ f.form # "tmp" /\ f.day = w.day /\ f.cat = w.cat
                       /\ w.line \in f.lines
=============================================================================
