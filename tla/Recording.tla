------------------------------ MODULE Recording ------------------------------
(***************************************************************************)
(* From a request to a row: the rate store, internal/storage/flusher.go    *)
(* (Flusher and Pause), the settings poll that moves the pause, and the    *)
(* order in which cmd/collector/main.go takes them down.                   *)
(*                                                                         *)
(* The flusher, the request handlers, the settings goroutine and main run  *)
(* concurrently.  What a row contains besides its address and last-seen    *)
(* time, and whether its write succeeds (Run goes on alike), is left out.  *)
(***************************************************************************)
EXTENDS RateStore

VARIABLES
  fpc,        \* where the flusher is
  since,      \* Run's lastFlush; -1 is the zero time
  flushNow,   \* the clock as this flush read it
  final,      \* this is the flush after ctx.Done
  batch,      \* snapshots not yet held against the pause
  kept,       \* snapshots the pause let through
  pauseFrom,  \* Pause.from
  pauseUntil, \* Pause.until
  heard,      \* the clock as applySettings last read it
  cancelled,  \* the collector's ctx is done
  serve,      \* ListenAndServe: "running", "returned" (drained) or "failed"
  \* History, for the properties.
  paused,     \* the instants the site is paused at, by what has been applied
  begun,      \* when the latest of these pauses began
  fresh,      \* addresses with a recorded request that no flush has taken
  late,       \* of these, the ones recorded after the flush due to take them
  verdicts    \* what the pause decided for the rows of this flush, and why

flushVars == <<fpc, since, flushNow, final, batch, kept>>
pauseVars == <<pauseFrom, pauseUntil, heard, paused, begun>>
stopVars == <<cancelled, serve>>
vars == <<storeVars, flushVars, pauseVars, stopVars, fresh, late, verdicts>>

StoredRows == [addr : Addrs, seen : 0..MaxTime]

TypeOK ==
  /\ StoreTypeOK
  /\ fpc \in {"select", "snap", "check", "write", "done"}
  /\ since \in -1..MaxTime /\ flushNow \in 0..MaxTime
  /\ since <= flushNow
  /\ final \in BOOLEAN
  /\ batch \subseteq StoredRows /\ kept \subseteq StoredRows
  /\ pauseFrom \in 0..MaxTime /\ pauseUntil \in 0..(MaxTime + 1)
  /\ pauseFrom <= pauseUntil
  /\ heard \in 0..MaxTime
  /\ cancelled \in BOOLEAN /\ serve \in {"running", "returned", "failed"}
  /\ paused \subseteq 0..MaxTime /\ begun \in 0..MaxTime
  /\ late \subseteq fresh /\ fresh \subseteq Addrs
  /\ verdicts \subseteq [held : BOOLEAN, paused : BOOLEAN, superseded : BOOLEAN]

Init ==
  /\ StoreInit
  /\ fpc = "select" /\ since = -1 /\ flushNow = 0 /\ final = FALSE
  /\ batch = {} /\ kept = {}
  /\ pauseFrom = 0 /\ pauseUntil = 0 /\ heard = 0 /\ paused = {} /\ begun = 0
  /\ cancelled = FALSE /\ serve = "running"
  /\ fresh = {} /\ late = {} /\ verdicts = {}

-----------------------------------------------------------------------------
(* Requests.                                                               *)

\* The snapshot of the flush in progress, if any, has been taken.
Taken == fpc \in {"check", "write"}

\* The flush now due will take an address last seen at t.
Due(t) ==
  /\ fpc # "done"
  /\ ~(final /\ Taken)
  /\ t >= (IF Taken THEN flushNow ELSE since)

\* A connection reaches RecordRequest until the server has drained; one that
\* failed leaves the connections it had accepted running.
Arrive(r) ==
  /\ serve # "returned"
  /\ Stamp(r)
  /\ UNCHANGED <<flushVars, pauseVars, stopVars, fresh, late, verdicts>>

Recorded(r) ==
  /\ Record(r)
  /\ fresh' = fresh \union {from[r]}
  /\ late' = IF Due(at[r]) THEN late ELSE late \union {from[r]}
  /\ UNCHANGED <<flushVars, pauseVars, stopVars, verdicts>>

-----------------------------------------------------------------------------
(* Flusher.Run.                                                            *)

\* A tick of the flush ticker.  Once ctx is done, select picks either case.
FlushTick ==
  /\ fpc = "select"
  /\ flushNow' = clock
  /\ fpc' = "snap"
  /\ UNCHANGED <<storeVars, since, final, batch, kept, pauseVars, stopVars, fresh, late, verdicts>>

FinalFlush ==
  /\ fpc = "select"
  /\ cancelled
  /\ flushNow' = clock
  /\ final' = TRUE
  /\ fpc' = "snap"
  /\ UNCHANGED <<storeVars, since, batch, kept, pauseVars, stopVars, fresh, late, verdicts>>

\* flushOnce takes the store's snapshot.
TakeSnapshot ==
  /\ fpc = "snap"
  /\ batch' = {[addr |-> a, seen |-> states[a].lastSeen] : a \in Snapshot(since)}
  /\ fresh' = fresh \ Snapshot(since)
  /\ late' = late \ Snapshot(since)
  /\ fpc' = "check"
  /\ UNCHANGED <<storeVars, since, flushNow, final, kept, pauseVars, stopVars, verdicts>>

\* Mutant of Holds: the first version, which asked whether the flush itself
\* ran paused.
HoldsTheFlush(seen) == pauseFrom <= flushNow /\ flushNow < pauseUntil

\* Pause.Holds.
Holds(seen) == pauseFrom <= seen /\ seen < pauseUntil

\* One row is held against the pause, under the pause's lock.
CheckRow(row) ==
  /\ fpc = "check"
  /\ row \in batch
  /\ batch' = batch \ {row}
  /\ kept' = IF Holds(row.seen) THEN kept ELSE kept \union {row}
  /\ verdicts' = verdicts \union
       {[held |-> Holds(row.seen), paused |-> row.seen \in paused,
         superseded |-> row.seen < begun]}
  /\ UNCHANGED <<storeVars, fpc, since, flushNow, final, pauseVars, stopVars, fresh, late>>

\* Every row has been checked; nothing left is nothing to write.
StartWrite ==
  /\ fpc = "check"
  /\ batch = {}
  /\ fpc' = "write"
  /\ UNCHANGED <<storeVars, since, flushNow, final, batch, kept, pauseVars, stopVars, fresh, late, verdicts>>

\* Mutant of FlushDone: lastFlush is read again after the write.
FlushDoneRereads ==
  /\ fpc = "write"
  /\ kept' = {} /\ verdicts' = {}
  /\ since' = clock
  /\ flushNow' = clock
  /\ fpc' = IF final THEN "done" ELSE "select"
  /\ UNCHANGED <<storeVars, final, batch, pauseVars, stopVars, fresh, late>>

\* WriteRows has answered, well or badly: lastFlush advances either way.
FlushDone ==
  /\ fpc = "write"
  /\ kept' = {} /\ verdicts' = {}
  /\ since' = flushNow
  /\ fpc' = IF final THEN "done" ELSE "select"
  /\ UNCHANGED <<storeVars, flushNow, final, batch, pauseVars, stopVars, fresh, late>>

-----------------------------------------------------------------------------
(* The pause, as a settings poll applies it.                               *)

\* Pause.SetUntil(end, n): moved, begun, lifted, or nothing.
SetSpan(end, n) ==
  \/ /\ end > n /\ n < pauseUntil
     /\ pauseUntil' = end /\ UNCHANGED pauseFrom
  \/ /\ end > n /\ n >= pauseUntil
     /\ pauseFrom' = n /\ pauseUntil' = end
  \/ /\ end <= n /\ n < pauseUntil
     /\ pauseUntil' = n /\ UNCHANGED pauseFrom
  \/ /\ end <= n /\ n >= pauseUntil
     /\ UNCHANGED <<pauseFrom, pauseUntil>>

\* applySettings: the clock was read a moment before.  From n on, the site
\* is paused exactly until end.
SetUntil(end, n) ==
  /\ serve = "running"
  /\ n \in heard..clock /\ clock - n <= MaxLag
  /\ SetSpan(end, n)
  /\ heard' = n
  /\ paused' = {t \in paused : t < n} \union {t \in 0..MaxTime : n <= t /\ t < end}
  /\ begun' = IF end > n /\ n \notin paused THEN n ELSE begun
  /\ UNCHANGED <<storeVars, flushVars, stopVars, fresh, late, verdicts>>

-----------------------------------------------------------------------------
(* main.                                                                   *)

\* The signal: the flusher and the server are told by the same ctx.
Cancel ==
  /\ ~cancelled
  /\ cancelled' = TRUE
  /\ UNCHANGED <<storeVars, flushVars, pauseVars, serve, fresh, late, verdicts>>

\* Serve drains its connections before it returns.
ServerReturns ==
  /\ cancelled /\ serve = "running"
  /\ \A r \in Requests : phase[r] # "stamped"
  /\ serve' = "returned"
  /\ UNCHANGED <<storeVars, flushVars, pauseVars, cancelled, fresh, late, verdicts>>

\* The listener cannot be bound, or Accept fails for good: ListenAndServe
\* returns the error at once, and ctx is as it was.
ServeFails ==
  /\ serve = "running"
  /\ serve' = "failed"
  /\ UNCHANGED <<storeVars, flushVars, pauseVars, cancelled, fresh, late, verdicts>>

\* main has waited for the server and for the flusher: writer.Close and
\* store.Close, and then it returns, or logs the server's error and exits.
Exit ==
  /\ serve # "running" /\ fpc = "done"
  /\ Close
  /\ UNCHANGED <<flushVars, pauseVars, stopVars, fresh, late, verdicts>>

SweepIdle ==
  /\ \E t \in 0..MaxTime : Sweep(t)
  /\ UNCHANGED <<flushVars, pauseVars, stopVars, fresh, late, verdicts>>

ClockTick ==
  /\ Tick
  /\ UNCHANGED <<flushVars, pauseVars, stopVars, fresh, late, verdicts>>

FlusherStep ==
  \/ FlushTick \/ FinalFlush \/ TakeSnapshot
  \/ \E row \in batch : CheckRow(row)
  \/ StartWrite \/ FlushDone

Next ==
  \/ \E r \in Requests : Arrive(r) \/ Recorded(r)
  \/ FlusherStep
  \/ \E end \in 0..(MaxTime + 1), n \in 0..MaxTime : SetUntil(end, n)
  \/ Cancel \/ ServerReturns \/ ServeFails \/ Exit
  \/ SweepIdle \/ ClockTick

Spec == Init /\ [][Next]_vars

-----------------------------------------------------------------------------
(* Properties.                                                             *)

\* An address with a request no flush has taken will be taken by the flush
\* now due, unless its latest request was recorded after that flush had
\* passed it, or the sweep has forgotten it, with every request of it older
\* than the TTL: the since-filter, the first flush, failed writes and early
\* returns lose nothing else (flusher.go:203-208).
SkippedOnlyIfLate ==
  \A a \in fresh :
    \/ a \in late
    \/ a \in DOMAIN states /\ Due(states[a].lastSeen)
    \/ a \notin DOMAIN states /\ RecordedSince(a, clock - (IdleTTL - MaxLag)) = {}

\* A row is held back only if its address was last seen at a paused instant,
\* and then always, whenever the flush runs and however the pause was moved or
\* lifted since (flusher.go:83-95) - with one exception: one span is all the
\* code keeps, so what was seen in a pause that another has replaced before
\* the flush is written after all.
PauseIsExact ==
  \A v \in verdicts :
    /\ v.held => v.paused
    /\ v.paused /\ ~v.superseded => v.held

\* cmd/collector/main.go:645-647, main waits for the flusher's last flush
\* "so the last partial interval's activity isn't lost".
LastIntervalIsFlushed == ~sweeper => fresh = {}
=============================================================================
