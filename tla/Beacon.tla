------------------------------- MODULE Beacon -------------------------------
(***************************************************************************)
(* The visitor beacon: internal/beacon's request handler (server.go), the  *)
(* visitor salts (visitor.go), the buffered writer (writer.go), and the    *)
(* order in which cmd/beacon/main.go applies settings and stops.           *)
(*                                                                         *)
(* Every request has its goroutine; the settings poll, the writer and main *)
(* have one each.  A request is one event of one visitor.  What a row      *)
(* holds besides its visitor ID is left out, and so is the limiter, which  *)
(* is the Limiter of its own module: here it lets a request pass, degrades *)
(* it or refuses it.  In admit the slot is given back before the event is  *)
(* read, so nothing below happens while a slot is held.                    *)
(***************************************************************************)
EXTENDS Integers, Sequences, FiniteSets, SequencesExt

CONSTANTS
  Reqs,       \* requests
  Sites,      \* site identifiers an event may name
  NoSite,     \* before a request has named one
  Configured, \* the sites of the configuration file
  BufferSize, \* the capacity of the channel
  BatchSize,  \* rows of one COPY
  Period,     \* VisitorIDs.SaltPeriod
  LooksUp,    \* whether addresses are looked up, which ends with the context
  MaxTime,    \* bound: the clock
  MaxPolls    \* bound: settings polls that find a change

ASSUME BeaconAssumption ==
  /\ Configured \subseteq Sites
  /\ BufferSize \in Nat \ {0} /\ BatchSize \in 1..BufferSize /\ LooksUp \in BOOLEAN
  /\ Period \in Nat \ {0} /\ MaxTime \in Nat /\ MaxPolls \in Nat

VARIABLES
  clock,
  liveSites,  \* Server.liveSites
  livePaused, \* Server.livePaused: when each site's pause ends, 0 for none
  poll,       \* the settings goroutine: [at, paused], see ApplySites
  polls,
  req,        \* each request: where it is, the site its event names, the clock
              \* as ID read it, and the salt its visitor ID is made with
  salt,       \* VisitorIDs.salt: the number of salts drawn since the start
  rotatedAt,  \* VisitorIDs.rotatedAt
  events,     \* Writer.events, the channel
  batch,      \* the writer's batch
  wpc,        \* where the writer is
  main,       \* where main is
  shutdown,   \* how ListenAndServe returned: "none", "clean", "error", or
              \* "failed" while nobody has told the process to stop
  \* Counters, as the set of the requests each has counted.
  accepted, dropped, rejected, held, written, writerDropped,
  \* History.
  drawn       \* when each salt was drawn

cfgVars == <<liveSites, livePaused, poll, polls>>
saltVars == <<salt, rotatedAt, drawn>>
writerVars == <<batch, wpc, written>>
mainVars == <<main, shutdown>>
countVars == <<accepted, dropped, rejected, held>>
beaconVars == <<clock, cfgVars, saltVars, req, events, writerVars, writerDropped,
          mainVars, countVars>>

\* A request nothing is known of.
Unread == [at |-> "idle", site |-> NoSite, now |-> 0, id |-> -1]

BeaconInit ==
  /\ clock = 0
  /\ liveSites = {} /\ livePaused = [s \in Sites |-> 0]
  /\ poll = [at |-> "wait", paused |-> [s \in Sites |-> 0]] /\ polls = 0
  /\ req = [r \in Reqs |-> Unread]
  /\ salt = 0 /\ rotatedAt = 0 /\ drawn = <<0>>
  /\ events = <<>> /\ batch = {} /\ wpc = "select"
  /\ main = "serving" /\ shutdown = "none"
  /\ accepted = {} /\ dropped = {} /\ rejected = {} /\ held = {}
  /\ written = {} /\ writerDropped = {}

-----------------------------------------------------------------------------
(* Server.handleEvent.                                                     *)

\* An empty live list means the file's (Server.sites).
SitesInForce == IF liveSites = {} THEN Configured ELSE liveSites

\* The request goes on to `at', or ends.
At(r, at) == main # "exited" /\ req[r].at = at
Go(r, at) == req' = [req EXCEPT ![r].at = at]
BeaconEnd(r) == req' = [req EXCEPT ![r] = [Unread EXCEPT !.at = "done"]]

\* The listener accepts, the limiter lets the request pass and the event is
\* well formed.
Arrive(r) ==
  /\ main = "serving" /\ At(r, "idle")
  /\ \E s \in Sites : req' = [req EXCEPT ![r] = [@ EXCEPT !.at = "site", !.site = s]]
  /\ UNCHANGED <<clock, cfgVars, saltVars, events, writerVars, writerDropped,
                 mainVars, countVars>>

\* The limiter degrades it: 204, and a drop of the server's own.
Shed(r) ==
  /\ main = "serving" /\ At(r, "idle")
  /\ BeaconEnd(r)
  /\ dropped' = dropped \union {r}
  /\ UNCHANGED <<clock, cfgVars, saltVars, events, writerVars, writerDropped,
                 mainVars, accepted, rejected, held>>

\* The limiter refuses it, its address cannot be resolved, or its event is
\* malformed or invalid.
BeaconRefuse(r) ==
  /\ main = "serving" /\ At(r, "idle")
  /\ BeaconEnd(r)
  /\ rejected' = rejected \union {r}
  /\ UNCHANGED <<clock, cfgVars, saltVars, events, writerVars, writerDropped,
                 mainVars, accepted, dropped, held>>

\* allowsSite.
CheckSite(r) ==
  /\ At(r, "site")
  /\ IF req[r].site \in SitesInForce
     THEN Go(r, "pause") /\ UNCHANGED rejected
     ELSE BeaconEnd(r) /\ rejected' = rejected \union {r}
  /\ UNCHANGED <<clock, cfgVars, saltVars, events, writerVars, writerDropped,
                 mainVars, accepted, dropped, held>>

\* pausedSite.
CheckPause(r) ==
  /\ At(r, "pause")
  /\ IF clock < livePaused[req[r].site]
     THEN BeaconEnd(r) /\ held' = held \union {r}
     ELSE Go(r, "salt") /\ UNCHANGED held
  /\ UNCHANGED <<clock, cfgVars, saltVars, events, writerVars, writerDropped,
                 mainVars, accepted, dropped, rejected>>

\* (mutant) A salt is used for one moment more than its period.
FreshToTheEnd(t) == t - rotatedAt <= Period

\* The salt may still be used at t.
Fresh(t) == t - rotatedAt < Period

\* currentSalt, up to its first unlock: the clock, then salt and rotatedAt.
ReadSalt(r) ==
  /\ At(r, "salt")
  /\ req' = [req EXCEPT ![r] =
       IF Fresh(clock)
       THEN [Unread EXCEPT !.at = "enqueue", !.now = clock, !.id = salt]
       ELSE [Unread EXCEPT !.at = "rotate", !.now = clock]]
  /\ UNCHANGED <<clock, cfgVars, saltVars, events, writerVars, writerDropped,
                 mainVars, countVars>>

\* rotate.  It does not look again at what another request has drawn since.
Rotate(r) ==
  /\ At(r, "rotate") /\ Go(r, "reread")
  /\ salt' = salt + 1 /\ rotatedAt' = req[r].now /\ drawn' = Append(drawn, clock)
  /\ UNCHANGED <<clock, cfgVars, events, writerVars, writerDropped, mainVars,
                 countVars>>

\* The randomness source fails: 503.
RotateFails(r) ==
  /\ At(r, "rotate")
  /\ BeaconEnd(r)
  /\ rejected' = rejected \union {r}
  /\ UNCHANGED <<clock, cfgVars, saltVars, events, writerVars, writerDropped,
                 mainVars, accepted, dropped, held>>

\* currentSalt's second lock.
Reread(r) ==
  /\ At(r, "reread")
  /\ req' = [req EXCEPT ![r] = [@ EXCEPT !.at = "enqueue", !.id = salt]]
  /\ UNCHANGED <<clock, cfgVars, saltVars, events, writerVars, writerDropped,
                 mainVars, countVars>>

\* Writer.Enqueue, and what handleEvent counts of its answer.
Enqueue(r) ==
  /\ At(r, "enqueue")
  /\ BeaconEnd(r)
  /\ IF Len(events) < BufferSize
     THEN /\ events' = Append(events, r)
          /\ accepted' = accepted \union {r}
          /\ UNCHANGED <<dropped, writerDropped>>
     ELSE /\ writerDropped' = writerDropped \union {r}
          /\ dropped' = dropped \union {r}
          /\ UNCHANGED <<events, accepted>>
  /\ UNCHANGED <<clock, cfgVars, saltVars, writerVars, mainVars, rejected, held>>

-----------------------------------------------------------------------------
(* applySettings, in the settings goroutine.                               *)

\* A refresh reads a list of sites and the pauses of the sites in it that
\* have not ended, and the list goes to the server first.
ApplySites ==
  /\ poll.at = "wait" /\ main \in {"serving", "stopping"} /\ polls < MaxPolls
  /\ polls' = polls + 1
  /\ \E S \in SUBSET Sites, p \in [Sites -> {0} \union (clock + 1)..(MaxTime + 1)] :
       /\ \A s \in Sites \ (IF S = {} THEN Configured ELSE S) : p[s] = 0
       /\ liveSites' = S
       /\ poll' = [at |-> "sites", paused |-> p]
  /\ UNCHANGED <<clock, livePaused, saltVars, req, events, writerVars,
                 writerDropped, mainVars, countVars>>

ApplyPaused ==
  /\ poll.at = "sites"
  /\ livePaused' = poll.paused
  /\ poll' = [poll EXCEPT !.at = "wait"]
  /\ UNCHANGED <<clock, liveSites, polls, saltVars, req, events, writerVars,
                 writerDropped, mainVars, countVars>>

-----------------------------------------------------------------------------
(* Writer.Run.                                                             *)

\* A row leaves the channel; a full batch goes out.
Receive ==
  /\ wpc \in {"select", "drain"} /\ events # <<>>
  /\ events' = Tail(events)
  /\ batch' = batch \union {Head(events)}
  /\ wpc' = IF Cardinality(batch') < BatchSize THEN wpc
            ELSE IF wpc = "select" THEN "write" ELSE "drainWrite"
  /\ UNCHANGED <<clock, cfgVars, saltVars, req, written,
                 writerDropped, mainVars, countVars>>

\* The ticker: flush what there is.
FlushTick ==
  /\ wpc = "select" /\ batch # {}
  /\ wpc' = "write"
  /\ UNCHANGED <<clock, cfgVars, saltVars, req, events, batch, written,
                 writerDropped, mainVars, countVars>>

\* ctx.Done: the drain begins, from select, so after any write under way.
Draining ==
  /\ wpc = "select" /\ main = "draining"
  /\ wpc' = "drain"
  /\ UNCHANGED <<clock, cfgVars, saltVars, req, events, batch, written,
                 writerDropped, mainVars, countVars>>

\* The channel is empty: the last flush.
Drained ==
  /\ wpc = "drain" /\ events = <<>>
  /\ wpc' = IF batch = {} THEN "done" ELSE "lastWrite"
  /\ UNCHANGED <<clock, cfgVars, saltVars, req, events, batch, written,
                 writerDropped, mainVars, countVars>>

Flushed ==
  /\ batch' = {}
  /\ \/ wpc = "write" /\ wpc' = "select"
     \/ wpc = "drainWrite" /\ wpc' = "drain"
     \/ wpc = "lastWrite" /\ wpc' = "done"
  /\ UNCHANGED <<clock, cfgVars, saltVars, req, events, mainVars, countVars>>

\* flush: the COPY is detached from cancellation and bounded by a timeout.
WriteOK ==
  /\ Flushed
  /\ written' = written \union batch
  /\ UNCHANGED writerDropped

\* (mutant) A batch that failed is left out of dropped.
FailsUncounted ==
  /\ Flushed
  /\ UNCHANGED <<written, writerDropped>>

\* A COPY that fails is not retried.
WriteFails ==
  /\ Flushed
  /\ writerDropped' = writerDropped \union batch
  /\ UNCHANGED written

-----------------------------------------------------------------------------
(* main.                                                                   *)

InFlight == {r \in Reqs : req[r].at \notin {"idle", "done"}}

\* A signal or a restart request: Serve closes the listener and waits.
Cancel ==
  /\ \/ main = "serving" /\ main' = "stopping" /\ UNCHANGED shutdown
     \/ shutdown = "failed" /\ main # "exited" /\ shutdown' = "error" /\ UNCHANGED main
  /\ UNCHANGED <<clock, cfgVars, saltVars, req, events, writerVars, writerDropped, countVars>>

\* http.Server.Shutdown returns once no request is being served.
ServeReturns ==
  /\ main = "stopping" /\ InFlight = {}
  /\ main' = "returned" /\ shutdown' = "clean"
  /\ UNCHANGED <<clock, cfgVars, saltVars, req, events, writerVars,
                 writerDropped, countVars>>

\* The listener fails, or the ten seconds pass with a request still served
\* (reading its body may take fifteen).  Requests go on.
ServeFails ==
  /\ \/ main = "serving" /\ shutdown' = "failed"
     \/ main = "stopping" /\ InFlight # {} /\ shutdown' = "error"
  /\ main' = "returned"
  /\ UNCHANGED <<clock, cfgVars, saltVars, req, events, writerVars,
                 writerDropped, countVars>>

\* stopSettings, and the goroutines that use the settings have ended.
SettingsEnd ==
  /\ main = "returned" /\ poll.at = "wait"
  /\ main' = "settled" /\ poll' = [poll EXCEPT !.at = "done"]
  /\ UNCHANGED <<clock, liveSites, livePaused, polls, saltVars, req, events,
                 writerVars, writerDropped, shutdown, countVars>>

StopWriter ==
  /\ main = "settled" /\ main' = "draining"
  /\ UNCHANGED <<clock, cfgVars, saltVars, req, events, writerVars,
                 writerDropped, shutdown, countVars>>

\* The writer is done and the lookup has ended, which a listener that fails
\* does not end: the pool is closed and the process ends.
Exit ==
  /\ main = "draining" /\ wpc = "done" /\ main' = "exited"
  /\ LooksUp => shutdown # "failed"
  /\ UNCHANGED <<clock, cfgVars, saltVars, req, events, writerVars,
                 writerDropped, shutdown, countVars>>

Tick ==
  /\ main # "exited" /\ clock < MaxTime /\ clock' = clock + 1
  /\ UNCHANGED <<cfgVars, saltVars, req, events, writerVars, writerDropped,
                 mainVars, countVars>>

Write == WriteOK \/ WriteFails
Handle(r) ==
  \/ Arrive(r) \/ Shed(r) \/ BeaconRefuse(r) \/ CheckSite(r) \/ CheckPause(r)
  \/ ReadSalt(r) \/ Rotate(r) \/ RotateFails(r) \/ Reread(r) \/ Enqueue(r)
Stopping == ServeReturns \/ ServeFails \/ SettingsEnd \/ StopWriter \/ Exit

BeaconNext ==
  \/ \E r \in Reqs : Handle(r)
  \/ ApplySites \/ ApplyPaused
  \/ Receive \/ FlushTick \/ Draining \/ Drained \/ Write
  \/ Cancel \/ Stopping
  \/ Tick

BeaconSpec == BeaconInit /\ [][BeaconNext]_beaconVars
-----------------------------------------------------------------------------
(* Properties.                                                             *)

\* Every request that ended is counted once (handleEvent), and an event that
\* was accepted is in the table, on its way there, or in the writer's dropped:
\* no batch vanishes between the channel and the COPY (Writer.Run, flush).  And
\* "a clean shutdown loses nothing" (writer.go:189): when Shutdown returned
\* without an error and the process ended, nothing is on its way any more and
\* no request is half way.
Accounted ==
  /\ \A r \in Reqs : req[r].at = "done" =>
       Cardinality({c \in 1..4 : r \in <<accepted, dropped, rejected, held>>[c]}) = 1
  /\ accepted = (written \union (writerDropped \ dropped)
                 \union batch \union ToSet(events))
  /\ main = "exited" /\ shutdown = "clean" =>
       batch = {} /\ events = <<>> /\ InFlight = {}

\* A visitor ID is never made with a salt that was drawn a period or more
\* before the request: IDs cannot be joined across a period (VisitorIDs),
\* whatever requests rotate at once.
SaltsExpire ==
  \A r \in Reqs : req[r].at = "enqueue" => req[r].now - drawn[req[r].id + 1] < Period
=============================================================================
