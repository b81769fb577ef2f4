# A TLA+ model of Crucible Analytics

Crucible Analytics is a bot-aware web analytics collector written in Go.  A
*collector* stands in front of a site's web server and watches connections; a
*beacon* receives page views from browsers; both write to TimescaleDB, a
read-only *API* serves the rows back and a *panel* manages the deployment.
Three services that hold more rights than the panel (the upgrader, the release
updater and the supervisor) act on requests the panel leaves in the database.

This directory models the parts of it that decide something while other parts
are running, and the parts whose answers have to agree with each other: it says
what they promise, checks the promises with TLC on small instances, and proves
the safety properties with TLAPS for every instance.

1. [Inventory](#1-inventory)
2. [Modules and the code they model](#2-modules-and-the-code-they-model)
3. [Runs](#3-runs): what is checked, on which instance, and why it is enough
4. [Fairness](#4-fairness)
5. [Proofs](#5-proofs)
6. [What the code does and its comments do not say](#6-findings)
7. [Plan](#7-plan)
8. [What stays out](#8-what-stays-out)

Run a model with `tlc -config MCUpkeep.cfg MCUpkeep` and a proof with
`tlapm UpkeepProofs.tla`.  `PROJECT.json` lists, for every definition that
models code, the lines it stands for.

## 1. Inventory

| Component | State it keeps | Hard behaviour | What makes it correct |
|---|---|---|---|
| Load limiter, `internal/limiter` | published `Config`; atomics `current` and `waiting`; a two-window rate counter | lock-free counters; the configuration replaced while a decision is being made; waiters that poll | the cap is never exceeded, no slot leaks, the queue is bounded and drains |
| Rate store, `internal/ratestore` | per address: two window counters, window start, last seen | a request is stamped before it takes the lock | counts bracket the truth; an active address is not forgotten |
| Flusher, pause, shutdown, `internal/storage`, `cmd/collector` | `lastFlush`; the pause's span; one context | flushes, pauses, requests and the shutdown overlap | no flush skips an address; the pause holds back what was seen while it was in force |
| Passthrough proxy, `internal/proxy` | live connections and their sockets | handlers, a drain and its deadline race at every stage of a connection | slots follow handlers; a shutdown ends and leaves no splice |
| Full-mode proxy, `internal/fullproxy` | captured greeting per connection; per-request admission | requests of one connection are served while it is captured, refused, shut down | each request is recorded under its own connection's fingerprint |
| Restart requests and heartbeat, `internal/restartreq`, `internal/heartbeat` | one row per service | two clocks; a lost answer; a clock set back | one restart per request, never a loop |
| Log sink and log tree, `internal/logsink`, `internal/logging` | bounded buffer; files by day | logging after the close; a crash while a file is compressed | a line is stored, on its way or counted; a file is kept whole for its time |
| Backups, `internal/backup`, `cmd/upgrader` | request queue, catalogue, directory | two upgraders, crashes, files removed by hand, a directory that is away | every request ends once; catalogue follows disk |
| Restores, `internal/backup/restore.go` | side database and its marker | a restore that stops half way | only its own leftovers are wiped; what a backup says is so |
| Release and schema updates, `internal/relupdate`, `internal/upgrade`, `internal/applier` | queues, binaries, checkpoint, schema files | killed between two renames; two versions of panel and upgrader | the last good release stays; a success is one |
| Address ranges, `internal/asnlookup`, `internal/rangerefresh` | queue, tables in memory and in the database, LRU cache | two services claim; a family that fails; lookups during a swap | no table is taken away; answers no older than the TTL |
| Bot fingerprints, `internal/botdata` | one file | overlapping updates, loss of power | the file can be read |
| Summaries, `storage/rollup.go`, `storage/sketch.go` and their readers | watermark, buckets, sketches | late rows, kills, retention, a reader between two statements | the answer is the raw rows' |
| Retention, `internal/retention` | two policies, trims | two services, two sites, errors | no row goes before its site's days |
| Read API, `internal/api` | none of its own | one figure computed by two statements | figures of a page add up |
| Beacon, `internal/beacon` | salts, bounded queue, batch | rotation races, a full queue, a close beside late handlers | a visitor cannot be joined across a period; an accepted event is accounted for |
| Members, invitations, claims, `internal/panel` | memberships, links | posts that meet under row locks | a site keeps an owner; roles come from above |
| Sign-in, second factor, recovery | failure budget, last step, codes | comparisons take a second; guesses sent at once | a bounded number of guesses; a code once |
| Developer access and sessions | links, policy, sessions in flight | a session is saved back after the decision | only within what an owner granted, in time, once |
| Developer gate, `internal/devgate` | slot, queue, failures, authorizations | many forms at once | the budget holds |
| Settings, pages, migration, live copies | rows, audit, operation records | a preview minutes old, statements that fail | shown before made; recorded as made; behind the password |
| Buttons of the health page | operation record, audit, queue | each statement can fail after the last took effect | told as it was |
| Mail, `internal/mail` | account row, one conversation per job | a server that offers less the second time | no password in clear; no false "sent" |
| Setup checks, health page | none of their own | the deployment changes between two checks | ready only when it was |
| Fingerprints and scoring; panel pages; sealing and keys | none | pure functions, rendering, cryptography | not modelled |

They meet in four ways.  *Calls in one process*: a proxy handler calls
`Admit`, then `RecordRequest`, and defers the release.  *Shared memory*: the
flusher reads the store the handlers write; the settings poll replaces the
limits and the pause under both.  *A context*: a signal cancels the flusher and
the server at once.  *Rows*: the panel, the upgrader, the updater and the
services talk only through rows of the database, each side at its own time,
and each side may die between two statements.

`PROJECT.json` lists under `hazards` what can go wrong at which line and which
property would show it.

## 2. Modules and the code they model

| Module | Models | Builds on |
|---|---|---|
| `Admission` | what the limiter promises: one decision per caller, a slot from decision to release, a cap | – |
| `Limiter` | `internal/limiter/limiter.go`; implements `Admission` through `Gate` | – |
| `Passthrough` | `internal/proxy`: accept loop, handlers, drain | `Admission` |
| `FullProxy` | `internal/fullproxy`: connections, capture, requests, shutdown | `Admission` |
| `IdleRule` | `view.idle` (`drain.go`, `drain_linux.go`) over one socket's life | – |
| `RateStore` | `internal/ratestore/memory.go` | – |
| `Recording` | flusher, pause and `main`'s order of shutdown | `RateStore` |
| `Rollup` | `storage/rollup.go`, `storage/sketch.go`, `api/rollup.go`, `api/sketch.go` | – |
| `Retention` | `internal/retention` | – |
| `RangeTable` | rows to tables, the search, the LRU cache of `internal/asnlookup` | – |
| `BotData` | `internal/botdata`: an update and the load at start | – |
| `ReadApi` | the queries of `internal/api/store*.go` as operators | – |
| `RestartRequest` | `internal/restartreq`, `internal/heartbeat`, the panel's press | – |
| `LogSink`, `LogTree` | `internal/logsink`; `internal/logging` | – |
| `Backup` | `internal/backup`'s queue and catalogue and the pass of `cmd/upgrader` | – |
| `Ranges` | the refresh queue and the fetchers that answer it | – |
| `Restore` | snapshot, sealed configuration, check and restore of a backup | – |
| `Release` | `internal/relupdate` and `release/restart.sh` | – |
| `SchemaUpgrade` | `internal/upgrade`, `internal/applier`, the upgrader's whole pass | `Release` |
| `Beacon` | `internal/beacon` and the order of `cmd/beacon/main.go` | – |
| `Members` | memberships, invitations, owner claims and their pages | – |
| `Login` | failure budget, second factor, recovery, account | – |
| `DevAccess` | developer links, policy, sessions in flight | – |
| `Gate` | `internal/devgate` | – |
| `Settings` | registry, pages, preview, records, migration, live copies | `Gate` |
| `Asking` | the buttons of the health page | – |
| `Mail` | the account, the conversation, the jobs | – |
| `Preflight`, `HealthPage` | the setup checks and who believes them; the disk section | – |
| `MC…` | instances for TLC, most of them of several modules | see below |
| `…Proofs` | theorems | the modules they are about |

`Recording` composes the flusher with the store; the proxies compose handlers
with the limiter: since `Limiter` is proved to implement `Admission`, they use
the promise and not the counters.  `Settings` composes the pages with the gate
in front of them, `SchemaUpgrade` the schema with the release that brings it.

**Limiter.**  A caller is one `Admit` and its release.  Each atomic operation
is an action: the load of the configuration (`Admit`), reading the clock
(`Stamp`), the two critical sections of the rate counter (`Record`, `Look`), the
load and the compare-and-swap of `tryAcquire` (`Load`, `Cas`), the policy
(`Over`), `throttleWait`'s add (`Join`), its ticker and its context (`Poll`,
`CtxDone`), its deferred add (`Leave`), and `Release`.  `snap[c]` is the
configuration `c` loaded once; `SetConfig` may replace `cfg` between any two
steps.  Time is relative to the window's start, which keeps the model finite:
past four windows the age wraps by one window, which no reading can tell apart
because every reading past two windows clears both counters.

**RateStore and Recording.**  `Stamp` is `time.Now()` in the handler, `Record`
the critical section of `RecordRequest`; `MaxLag` is the longest a handler
stands between the two.  The flusher is a loop with the program counter `fpc`:
`select`, the snapshot, one `Holds` per row (each takes the pause's lock, so the
pause can move between two rows), the write.  `SetUntil` is `Pause.SetUntil` as
`applySettings` calls it with a clock read a moment earlier.  `Cancel`,
`ServerReturns`, `ServeFails` and `Exit` are `main`.

**Passthrough and FullProxy.**  `stage[c]` is where a handler is; the gate's
state comes from `Admission`.  `tracked.close` is two actions because the mark
is set under a lock and the sockets are closed after it (`LookIdle` or
`CutConn`, then `CloseSockets`), and `tracked.attach` is one.  Whether a socket
is idle, when a peer speaks or closes, and whether a dial succeeds are free
choices; a panic can unwind a handler wherever its own code runs.  In the full
mode the callers of the gate are the requests; a connection speaks HTTP/1.1, one
request after another, or HTTP/2, whose handlers run side by side and may
outlive their client (`GiveUp`, `Leave`).

**IdleRule.**  The kernel's answer for one socket: two timers, two byte counts
and whether something is unacknowledged.  The requests on the connection are
history: the proxy cannot see them, nor tell them from what else a client and a
backend send (`Chat`, `Begin`).

**RestartRequest.**  One service.  `clock` is the database's; the process
counts its own `age`.  A beat carries the age, the statement computes
`now() - age`, and the time under way (`lag`) ends up in the start.
`BeatUnheard` is a beat that is written and not heard.  `SetRow` is a value
put there by something else that holds the panel's role; `StepBack` sets the
clock back.

**Backup, Release, SchemaUpgrade, Restore.**  A pass of the upgrader is a
sequence of single statements and file operations, and `Crash` can come between
any two.  Statements fail, or are carried out and their answer lost; an
operator with a shell removes files; a directory cannot be read.  A restore is
the same at the scale of one side database: probe, wipe, marker, tables, rows.
In `Release` a version is a number, 0 where there is no file or no process;
`restart.sh` is an actor of its own that answers the doorbell, and a service
reports under the version of the process that runs (`told`), an old one too.
In `SchemaUpgrade` every host that shares the database has an applier with a
pass of its own; claims go stale while theirs are at work (`swept`), and
`inside` is the advisory lock that keeps two out of the schema.

**Ranges, RangeTable, BotData.**  `Ranges` knows of a table which families it
has; `RangeTable` what a family's rows answer and how long the cache keeps it.
`BotData` has the page cache and the disk apart, so that a loss of power can
come between `write`, `fsync` and `rename`.

**Rollup and ReadApi.**  A bucket is the set of rows it sums up, so that an
answer is right when it is the set a scan would give; the reader's watermark
and its query are two steps.  `ReadApi` is almost all operators: the two
writers are its only actions, and its properties compare queries.

**Members.**  A post is a goroutine with a transaction of its own at
PostgreSQL's default isolation: `lockMembership` is one step that chooses the
rows and one step for each row it locks, in the order of the scan, and a row it
had to wait for is read again while rows that came later are not found.  A
redemption is three steps: the link is used up, its author is asked about
without a lock (`AskInviter`), and the membership is written.

**Login, DevAccess, Gate.**  Each statement of a request is a step, and the
comparison of a password is the long one between reading and writing.  Times
are ticks left, which makes a budget a sequence whose head runs out first.  A
failure is counted after the comparison, and the statement that counts it may
fail.  In `DevAccess` a request holds the copy of the session it loaded and writes it
back at its end, as the idle timeout of scs makes every request do.

**Settings, Asking, Mail, Preflight, HealthPage.**  A request is made once and
each statement it sends may fail.  A value is whatever the registry tells
apart: a number, a choice, a set of rules, or `Bad`.  Conditions of the
deployment are a set, and may change between two checks of one page.  A
blocklist's preview is the rules it lists and, of those, the ones whose effect
it could count.  On the health page the directories are measured after the
catalogue was read, and a filesystem may hold backups and no directory
(`Devices`, `DeviceOf`).

**Beacon.**  A handler's checks, its visitor ID and its place in the buffer are
steps; the writer's batch, its failure and the drain are others.  With a range
lookup configured (`LooksUp`) the program's end also waits for the lookup's
goroutine, which only a signal ends.

Variables that only properties read (what was begun, held, shown, met, opened)
are marked as history where they are declared.

## 3. Runs

Several components share a run when they belong to one process or one queue and
share no state of the models.  The variable `part` of the `MC` module then says
which of them a behaviour runs, the others stand still, and the state space is
the sum of the parts'.

| Run | Parts | Instance | Why it is enough |
|---|---|---|---|
| `limiter_cap` | the limiter, against `Admission` | 3 callers, 4 configurations swapped at any time, symmetric callers | two race for a slot while a third waits, is degraded or releases; queues of 1 and 2 are overfilled |
| `traffic` | passthrough, idle rule, full mode, limiter's rate and queue | 2 connections and one slot; 2 requests of one connection, a greeting that fits and one that does not; 5 ms, quiet time 2; rate window 2 | every pair of stages, one waiting for the other's slot, against every point of the drain; ties of the idle timers; one holds the rate up, the other waits |
| `collection` | flusher and pause, store, summaries, retention, tables and cache, bot file, read API | 2 requests and 2 ticks with the flusher; 4 requests and 9 ticks without; 2 rows, 1 kill, 2 thresholds; 2 sites, 4 days; 2 lookups, 2 swaps, a cache of 1; 2 updates, 1 power cut; 3 rows or events | an address on both sides of a flush with pauses begun, moved, lifted and run out; less than one, one, two and more windows apart; a row before and after its bucket's seam; a session over two buckets, a list of more than one page |
| `service` | restart requests and heartbeat, log sink, log files | 3 ticks, one crash, one step back, one foreign write; 3 lines through a buffer of 1; 2 lines, 3 days, 3 starts | each fault before, between and after the others; a line that finds the buffer full, and one after the close; each file compressed, then expired, with a crash between |
| `upkeep` | backups, address ranges | 2 upgraders, 1 request, 2 files, 1 fault; 2 fetchers, 1 refresh, 1 fault (a restart, a file that does not come, a row of the fetch log that is not written) | both claimants in every pair of steps, an older and a newer file, the fault anywhere |
| `access` | members, sign-in, developer access, settings with the gate | 4 people, 2 posts, 1 invitation, 1 claim; 2 attempts, 1 failure that is not recorded; 1 link, 2 visits, 2 tokens; 2 requests, 5 keys, 2 operators, 2 rules and a preview's limit of 1 | an owner, an administrator, a stranger with an account and one without, in every pair of requests; the last guess of a budget by two at once |
| `operations` | buttons, mail, setup checks, health page, restores, beacon, release and schema | 2 presses at one queue, 1 fault; 1 job, 2 saves; 2 pages, 1 change, at most 2 conditions; 2 filesystems, one with directories, of 6 units, 2 backups; 2 sets of 1 and 1 tables, 1 transaction, 1 fault; 3 requests, buffer 2, batch 2; 2 binaries, 2 versions, 1 kill and 2 schema files at one host; 2 hosts that upgrade one older schema | each statement's failure against another press; a change before, within and after a page's checks; a full buffer and a batch that fails; a kill before every file operation of two updates; a claim that goes stale while its applier is inside |
| `recording_shutdown` | flusher and shutdown | 1 request | finding 1 |
| `backup_newest` | backups | 1 upgrader, 2 requests, 2 files, 1 fault | finding 2 |
| `login_rehash` | sign-in | 1 browser, 2 attempts | finding 3 |
| `retention_shared` | retention | 2 collectors with different days | finding 4 |
| `ranges_failure` | address ranges | 2 fetchers, 1 refresh | finding 5 |

What the properties say, and what would break them:

*`limiter_cap`.*  `ImplementsAdmission`: every step of the lock-free code is
one step of the atomic gate or none, which holds the cap however often it is
replaced.  Loading the configuration twice in one decision breaks it.
`SlotsAccounted`: the counter is what it counts, on every way out.

*`traffic`.*  `NoSpliceSurvives`: a dial that ends after the drain closed its
connection does not start a splice.  `Returns`: a shutdown ends whatever the
peers do.  `IdleCutsOnly`: which connections the idle rule takes for idle;
the first of its earlier versions violates it.  `RequestsAreFollowed`: a block
holds for the next request of a connection that was open before, and when
`Shutdown` returns nil what still runs, or holds a slot, is an HTTP/2 request
whose own client has gone.  `QueueDrains`: waiters do not keep the rate over the limit
by looking, which the code's first version got wrong (`limiter.go:222-234`).

*`collection`.*  `SkippedOnlyIfLate`: what a flush misses was stamped before it
and recorded after it passed the address, or had been idle for the TTL.
`PauseIsExact`: a row is held back only if its address was last seen at a
paused instant, and then always, except where a second pause replaced that one
before the flush: the code keeps one span.  `StoreRemembers`: the two counters
contain every request of the last two windows and none older by more than a
request can be late, and the sweep forgets nobody active.  `SummaryIsExact`: summary and rows together are the
rows, none missing at a seam and none twice.  `AnswersAreRecent`: the cache
gives no answer that has been out of date longer than its TTL.
`FileCanBeRead`, `EventsAreKept`, `FiguresAddUp`: see their comments.

*`service`.*  `NoRestartLoop`: a request costs one exit, and one more for each
time the clock is set back.  `Honoured`: a request that stays is obeyed if the
service may read it in the end.  `LinesAccounted`: a line is in the table, on
its way or in the figure shown, and nothing is on its way after a close.
`KeptForItsTime`: no rotation or compression, stopped anywhere, loses a line
within its retention.

*`upkeep`.*  `OneClaimant`: a request is in one upgrader's hands.
`NoLostFile`: expiring leaves no file the catalogue does not know but those
whose row was never written and those that were out of sight.  `RequestsEnd`:
requests of both queues end, whoever dies holding them.  `LookupsSurvive`: a
refresh that fails takes no table away.

*`access`.*  `OwnerRemains`: a site that has an owner keeps one, save in the one
way the code leaves open: a post writes over the row of the last owner, which
was not there when the post read the rows it locked.  `RolesComeFromAbove`: a
role is given by who could give it when the transaction that gives it asked.
`PasswordsAreGuarded`: the budget at the login, from one completed sign-in to the
next, and the one at the gate, from one right password to the next, for guesses
sent at once; a right password that still owes the factor must not start it
again, and a failure that could not be recorded allows one guess more.
`CodesAreSpent`: no code twice, unless a recovery cleared the factor.
`DeveloperActsWithin`: nobody is taken for the developer outside of what a link
granted.  `ChangesAreHonest`: a rule on a blocklist was on a page that showed
what it refuses, or said that it could not or that the rule was past the
limit; a change recorded as a success is one, and a refusal changed nothing.
`GuardedNeedsPassword`: a guarded setting changes only for the one who typed the
password for it.

*`operations`.*  `PressesAreHonest`: "succeeded" and an audit entry only of a
request that is queued, "refused" only of one that is not, and "failed" of a
queued one in two cases alone (the section could not be read again; the answer
to the insert was lost).  `MailIsGuarded`: no password in clear, no false
"sent".  `ReadyWhenSaid`: "ready" only if each obstacle was absent at some
moment of that page; three pass unseen, by name (section 6).  `BytesAreHonest`:
every byte of the backups on a filesystem the page draws, or on none, exactly
once, and no bar that flatters.  `BackupsAreTrue`: an intact backup is of one
moment, opens when it has been checked, and a restore that succeeds has put back
every row of the manifest but those of tables the archive lacks.
`OnlyOursIsWiped`: what a restore empties.  `Accounted`, `SaltsExpire`: events
and visitor IDs.  `LastGoodKept`: the binaries of a version under which every
service has reported are on the disk, or of one that was kept on the word of an
old process.  `UpgradesAreTrue`: a schema is run by one applier at a time, for a
request for it, after the backup, under a claim that is held or was slow enough
to be lost; what is recorded is whole, and a success is there in full unless an
applier that had lost its claim went in after it.

The bounds are constants with `Max…` in their names and guards in the actions;
those of the code (buffer, queue and window sizes, lifetimes) are constants as
well, at the smallest value that can be reached and overrun.

Deadlock is checked where the modelled system never stops (`limiter_cap`,
`backup_newest`).  The other instances stop: a process exits, the last request
is answered, the clock ends.  Each property has a mutant of the code beside the
definition it mutates, and is violated by it.

## 4. Fairness

Only the liveness properties use it, and each assumption is one the Go runtime,
the kernel or systemd gives.

- `Limiter`: a goroutine that can run runs, a connection ends, the clock
  advances.  No context need end and no configuration change.
- `Passthrough`: handlers run, and none has to panic; a read of a socket closed
  on this side returns;
  a wait under a cancelled context ends; the deadline's case is strongly fair
  against the poll's, because Go's `select` chooses at random between ready
  cases.  Nothing is assumed of clients and backends: a client may never
  speak, a peer never close, a slot never come free.
- `RestartRequest`: tickers tick, the supervisor restarts (`Restart=always`),
  and of infinitely many beats one is heard (strong fairness of `BeatDone`).
  `Honoured` assumes in its own text that the privilege is there in the end.
- `Backup`: the timer starts passes, a pass goes on unless it is killed, time
  passes.  Faults are finitely many (`MaxFaults`); the next pass after the last
  of them is what the liveness properties rest on.
- `Ranges`: the services' tickers tick and a refresh that has begun goes on;
  that a claim is taken is strongly fair, since the other service's claim
  disables it.
- `Login` and `Settings` state that time passes and that live copies are read
  again; no property of the runs rests on it.

## 5. Proofs

| Module | Theorems | State |
|---|---|---|
| `LimiterProofs` | `TypeCorrect`, `SlotsAreAccounted`, `QueueIsAccounted`, `QueueIsBounded`, `CapIsRespected`, `Implements` | the counters are what they count, the cap holds, and `Limiter` implements `Admission` |
| `TrafficProofs` | `TypeCorrect`, `SlotsAreHeldByHandlers`, `NoSpliceOutlivesDrain`, `CutsAreShapes`, `RequestsAreAccounted` | `NoSpliceSurvives`, slots held exactly by handlers, `IdleCutsOnly`, `RequestsAreFollowed` |
| `ServiceProofs` | `TypeCorrect`, `NoLoop`, `LinesAreAccounted`, `LinesAreKept` | `NoRestartLoop`, `LinesAccounted`, `KeptForItsTime` |
| `UpkeepProofs` | `OneClaimantOnly`, `EndedOnce`, `NewestIsKept`, `NoFileIsLost`, `LookupsAreKept`, `SuccessesAreReal` | `OneClaimant`, `NoLostFile`, `LookupsSurvive`, and what a refresh's success and an ended request mean |
| `CollectionProofs` | `NoEventIsLostEarly`, `FileIsReadable`, `TheActiveAreKept`, `CountersBracket`, `OnlyTheLateAreSkipped`, `HeldWhenPaused`, `CachedAnswersAreRecent`, `SummariesAreExact` | `EventsAreKept`, `FileCanBeRead`, both halves of `StoreRemembers`, `SkippedOnlyIfLate`, `PauseIsExact`, `AnswersAreRecent`, `SummaryIsExact` |
| `OperationsProofs` | `SaltsDoExpire`, `EveryEventIsAccounted`, `PasswordsGoEncrypted`, `PressesAreTold`, `OnlyOursAreWiped`, `BackupsTellTheTruth`, `TheLastGoodIsKept`, `UpgradesDoTellTheTruth`, `ReadyIsSeen` | `SaltsExpire`, `Accounted`, `MailIsGuarded`, `PressesAreHonest`, `OnlyOursIsWiped`, `BackupsAreTrue`, `LastGoodKept`, `UpgradesAreTrue`, `ReadyWhenSaid` |
| `FigureProofs` | `BytesAreSaidRight`, `FiguresDoAddUp` | `BytesAreHonest`, `FiguresAddUp` |
| `AccessProofs` | `AnOwnerRemains`, `RolesDoComeFromAbove`, `CodesAreSpentOnce`, `GuessesAreBounded`, `DevelopersActWithin`, `TheGateHolds`, `PasswordsAreKept`, `GuardedDoNeedThePassword`, `ChangesAreAlwaysHonest` | `OwnerRemains`, `RolesComeFromAbove`, `CodesAreSpent`, `PasswordsAreGuarded` and each half of it, `DeveloperActsWithin`, `GuardedNeedsPassword`, `ChangesAreHonest` |

They are theorems about the components' own specifications (`Spec`,
`MembersSpec`, `DevSpec` …), for any sets of callers, connections, people,
requests, links, tables, versions and files and any values of the bounds; a
part of a run's composite is that specification with everything else standing
still (`PasswordsAreKept` is about the composite itself, whose login and gate
are two parts).  The assumptions are the `ASSUME`s of the modules: sets that are counted
are finite, sizes, windows and lifetimes are natural numbers (positive where
the code divides by them or makes a buffer of them), rows start in a state the
pages can make, and the model values that mark absence are distinct from what
they stand apart from.  Those with content:
- `RateStore`: a handler is not delayed for longer than a window, and the TTL is
  longer than two windows and that delay (the defaults are 60 s and 300 s).
- `Rollup`: no row is later than the settling, the hour that `rollup.go:28-49`
  takes for a margin and not for a bound (past it a bucket may stay short, see
  section 6), and the recheck and the span are whole buckets, as 1 h and 30 days
  are of 15 min and of days.
- `RangeTable`: the ranges of one file are disjoint, as `newRangeTable` takes for
  granted.
- `ReadApi`: a row that is flagged as a known bot's has a fingerprint, since it is
  the fingerprint that is known.

*Limiter.*  The counters alone are not inductive: that `Leave` takes back an add
that was made depends on where a caller can be when it has been queued.
`Control` says, for each caller, which steps go with which decision and which
with the queue, and that a caller at its compare-and-swap has seen fewer slots
than its cap.  `Inv` is the types, `Control` and the two equations; each step
moves one caller in or out of one set (`CountUp`, `CountDown`).  `QueueBounded`
can only be broken by `Join`, which has looked at a count that includes
everyone in the queue.  For the refinement, a successful `Cas` has
`current = seen[c] < snap[c].max` and `current` is the number of holders, which
is `Proceed`'s guard; `CapRespected` follows for the gate.

*Proxies.*  `NoSpliceSurvives` needs three facts: a splice has its backend
attached (`Attachment`), a marked connection that is not being closed at this
moment has its sockets closed (`MarkedClosed`, which is where `Attach` looking
at the mark comes in), and after the last round everything live is marked
(`AllMarked`, because no more is accepted).  For the idle rule, a request in
none of the three shapes was the last to move data (`LastToSpeak`).  In full
mode a handler runs on an open connection or for an HTTP/2 client that gave its
request up (`BusyOpen`), and a request that has been under a block ever since it
was made has not passed `geoBlocked` (`BarredOut`).

*Services.*  Once a process has exited for a request and the clock has not been
set back since, the request lies no later than any start still to be measured
(`Settled`).  Setting the clock back undoes that, and allows one more exit in
the same step.  For the log files: a name is one file's (`Once`), nothing of
today is compressed, so nothing compressed is still written to (`DaysPast`), a
compressed file beside its original is all of it (`CopiesAgree`), and once the
temporary file of a pass has gone, the compressed one is in its place
(`Passing`): whichever file a killed pass leaves, it has the lines.

*Upkeep.*  `OneClaimant` is inductive together with `ClaimedOK`: what is in
hand is running or has been failed by `ExpireStale`, never pending.  The
catalogue's part rests on `OutdoneOK` (what is being expired has a newer data
backup on record, however old the list it was read from) and on `GoneOK` (what
is marked missing, was listed as missing or is about to be forgotten has no
file that can be seen); both survive other upgraders because a file being
written has a number that is nobody else's (`WritersOK`).

*Collection.*  Retention needs that the policy in force covers every site at
each point of a pass (`PolicyCovers`); the bot file that the name on the disk
points at what has been synced (`FileOK`).  The flusher's two invariants share
the store's: a request is stamped at most `MaxLag` before it is recorded
(`StampsOK`), no recorded request of an address is newer than its entry by more
than that (`EntriesOK`), and an address without an entry has had none for the
TTL (`ForgottenOK`).  From there `DueOrLate` says of every recorded request which
flush will take it, and `SpanIsExact` of the pause that its span and its history
agree although polls move it between two rows of a flush.  The counters are
cardinalities of sets of recorded requests: `EntryCounts` bounds each of them
from both sides, by the requests of its window and by those that can be late
into it, and a rotation moves both bounds by one window.

An entry of the lookup cache was set one TTL before it expires and says what a
file in force then said (`EntryOK`); what a lookup has found before it sets the
entry was said in this tick (`UnderOK`), and an entry is replaced, never doubled
(`OncePerKey`).  For the summaries `SummaryInv` says of every watermark, the
stored one, the one a request has read and those a refresh works between, that
up to it the buckets are exactly the rows (`RolledUpTo`, `CountedUpTo`) and that
no row comes before it any more (`Quiet`); beyond it a bucket has no more than
the rows (`NoMore`).  An answer is then two sets that meet at an aligned seam.

*Operations.*  For the salts, the salt in use was drawn no earlier than the time
its period counts from, and a request that has been through a rotation, its own
or another's, finds one drawn no earlier than its clock (`SaltsOK`).  For the
events, every event is in exactly one of channel, batch, table and the counts
(`RowsBalance`), and the shutdown's steps come in their order (`StopOrder`).
For the presses, the stage a handler has reached says which statements have
taken effect, so that what it will record is what happened (`PressShapes`).
For a restore, a database that is not ours keeps all its tables, is never marked
and never reaches the steps that rebuild (`TargetsOK`), and a file that is as it
was written holds data for exactly the tables of its manifest, of one moment
(`FileOK`, `RowsOK`).  For a release, each
file is moved aside before anything is copied in, and what is put back leaves
the checkpoint only when it is back (`GoodOK`); the files are those of the
request's version once they have been copied (`NewOK`); and the version kept
last is one that all services have reported under, or one an old process spoke
for (`WitnessOK`).  For the schema, a claim is of the newest request or an older
one, is lost only to a sweep, and is nobody else's (`ClaimOK`, `Sole`); whoever
holds the lock has asked, compared and backed up, and the files it has done are
of its schema (`LockOK`); so what it records is whole, and stays so as long as
nobody enters with a claim that was lost (`AppliedOK`, `SuccessOK`).  For the
setup, the answers on a page were given during it, and each that does not block
says what was absent at some moment of it or passes unseen (`PreflightInv`), so
that nothing blocks only if each obstacle was.

*Figures.*  A sum over a finite set is a fold over members in an order that is
not known, and induction over sets is out of the prover's reach: what is said of
all subsets is proved by taking a least one that lacks it (`LeastBad`), which
finiteness gives.  So `SumUnfolds`, and from it that parts told apart by where
their members go add up to the whole (`PartsAddUp`, `GroupsAddUp`), that an
order has a first member (`FirstOf`), and that the ranks of an order are the
numbers from nought on (`RanksAreDistinct`), which makes pages full and whole
(`PagesOfRanks`).  On the health page what is drawn is the sum over the
filesystems drawn, each once, of what was read of the catalogue
(`HealthPageInv`), and a bar rounds by less than a point (`BarOK`).  For the read
API the only thing to keep is that what is stored has ids of its own, so that
times and ids are an order (`ReadInv`); everything else holds of any rows and
events.  Each breakdown is shown to be groups of the addresses, rows, events or
sessions it is of, sessions to part the events, and the two-step grouping of the
crossover to lose nothing: a maximum of maxima, a sum of cardinalities.

*Access.*
- Members: while a request holds a row, the row is what the request read
  (`PostOK`), so an owner among the rows it locked is still one when it
  writes; the write over a row that came later is the named exception.
- Sign-in: guesses and failures are two sequences of ticks left, which never
  rise from the front; every guess after those compared before a lock was
  lifted has a failure that counts as long, or is one of the newest whose
  failure is still to be recorded, or was not recorded (`Covers`, `BudgetInv`),
  and a tick cuts a prefix of both (`Aged`, by a minimal-element argument).  A
  code that was accepted lies at or behind the last step recorded
  (`SpentIsBehind`).
- Developer access: an approval has a reason (`LinksInv`), a session ends no
  later than its link's row says, whatever copy of it is in flight
  (`SessionsInv`), and a link that was redeemed opened one visit
  (`OpenedInv`).
- Gate and settings: only the holder of the slot touches the failures, and it
  found room when it had the slot (`GateInv`).  A request in the gate's queue is
  standing at the gate (`Waiting`); the row of the operation, the request's
  stage and what was written agree (`RecordInv`); the rules a list is about to
  gain were told of by a page (`ShownInv`).

*Only model-checked.*  The liveness properties `Returns`, `QueueDrains`,
`RequestsEnd` and `Honoured`: the prover does not reach liveness under fairness
or `ENABLED`.  `StoreRemembers` is checked of an instance of `RateStore` with
times of its own; its two halves are proved of `RateStore`
(`CountersBracket`, `TheActiveAreKept`) for every instance.  Every other
invariant and action property of a passing run is proved.

## 6. Findings

1. **The last interval** (`recording_shutdown`).  The flusher and the server
   stop by the same context, so the final flush runs while connections are
   still draining.  What they record afterwards is in no row, although
   `main.go:645-647` waits for the flusher "so the last partial interval's
   activity isn't lost".
2. **The last backup** (`backup_newest`).  `Expire` spares the newest *row*.
   When its file has been removed by hand, every older file past the limit is
   deleted and no backup is left on the disk, which `runner.go:567-574` says it
   prevents.
3. **The changed password** (`login_rehash`).  A sign-in that verified an old
   hash rewrites it under new parameters, asking for nothing
   (`web/auth.go:195`): a password changed or recovered between the read and
   the write is put back to the old one.
4. **The shared table** (`retention_shared`).  A collector passes its own
   file's days to `manager.Apply` (`main.go:368`), and the policy is the
   table's: of two collectors the one that starts last decides for both,
   although `retention.go:27-29` says the policy "can never remove data a site
   still wants".
5. **The beacon's refresh** (`ranges_failure`).  A refresh is judged by
   `ip_range_fetches`, which the beacon does not write; one that the beacon
   claims is recorded failed ("Not one file arrived", `onrequest.go:95-97`)
   although every file did.

Smaller things seen while modelling.  The properties state the code as it is,
so where one of these bears on a property it is a named exception there.

*Traffic and collection*
- `drain.go:52-54` names two shapes in which the idle rule takes a waiting
  request for idle; an answer that has begun and pauses for longer than
  `DrainIdle` is a third.
- When `ListenAndServe` fails nothing cancels the context and `main` waits at
  `<-flusherDone` (`main.go:650`) for ever.
- An address idle for the TTL before a flush takes it is swept and in no row.
- In the full mode, `Shutdown` waits for connections, not for handlers: an
  HTTP/2 request whose client has reset the stream or gone is still in its
  handler, with its slot, when `Serve` returns nil.  Hijacked connections are
  not waited for, and handlers go on running when the grace has expired.
- What an HTTP/2 client sends without asking for anything (a PING, a
  WINDOW_UPDATE) makes its connection busy for `view.idle`: such a connection
  is waited for until the deadline, though no request is.
- Rows that arrive later than settle and recheck allow are never summed up
  (`rollup.go:43-48` says so), `Prune` removes buckets whose raw chunk is
  still there, and two concurrent refreshes may leave the older one's figures.
- `AnswersAddUp`'s pages are those without ties: `BeaconRaw` and `Snapshots`
  leave ties in their order (`store_beacon.go:793-795`), and `SilentIPs` and
  `JSBots` sort by columns that several groups can share.
- A JA4 that the archive gives to a browser and to a bot stays flagged.
- A persisted table loses the family that failed (`asnlookup.go:457-464`),
  while memory keeps it.  A row of the fetch log that cannot be written is only
  warned of (`fetchlog.go:143-160`), so a refresh can be recorded failed though
  its file came.

*Services*
- Drops for a full buffer are counted by `Writer.Enqueue` (`writer.go:180`)
  and again by `handleEvent` (`server.go:517`), and the heartbeat adds both.
- `admit`'s deferred release gives the slot back before the event is read
  (`server.go:534-537`).
- `Shutdown`'s ten seconds are shorter than the read timeout of fifteen, so
  late handlers may enqueue after the drain; a line logged after
  `panelLog.Close` panics (`logsink.go:460`).
- A beacon whose listener fails while a range lookup is configured drains its
  buffer and then waits for the lookup (`cmd/beacon/main.go:519`), which only a
  signal ends, before it reports the failure.
- One failure of `detectColumns` fails every later beat until a restart
  (`heartbeat.go:818-846`).
- A leftover `.gz.tmp` is never deleted, four-digit rotation numbers parse as a
  year (`lifecycle.go:188`), and a service that is never restarted never runs
  `Maintain`.

*Upkeep*
- `Sweep` takes any error of `Stat` for a missing file and nothing takes the
  mark back; a slow claimant's `Finish` can turn a swept "failed" into
  "succeeded"; a killed upgrader leaves a temporary file under a name no later
  run uses (`dump.go:129-131` says one removes it).
- A restore wipes what an earlier one made before it has read the file's
  manifest (`restore.go:246`), and does not notice a table that the manifest
  names and the archive lacks (`read.go:133-178`), although `read.go:106-111`
  says it refuses rather than half-finish.  One stopped before it has written
  its marker (`restore.go:237-242`) is refused by the next, where
  `restore.go:418-423` counts on the marker of the one before.
- Backups on a filesystem that the health page does not draw are in no bar, and
  `UnplacedBackupBytes`, which `disk.go:124-133` gives them to, is what is
  recorded on no filesystem (`queue.go:645-669`).
- `restart.sh`'s verdict takes any heartbeat after `since`
  (`restart.go:198-220`): an old process that writes its minute's row before it
  is restarted lets the checkpoint go, although `restart.go:54-60` and
  `install.go:515-518` take the row for the new version's.
- An applier asks for its claim before the backup and not after it: one that was
  slow enough to lose the claim goes in when the lock is free
  (`dblock.go:61-65`), one at a time but not in the order of the claims.  The
  release queues of other hosts are not modelled.
- A rollback ignores the errors of its renames (`install.go:342`); a kill
  between moving `bin/upgrader` aside and copying the new one leaves no
  upgrader to start.

*Access*
- Two concurrent invitations leave two live links (`memberinvite.go:185`) and
  may exceed the open invitations allowed; one minted under a developer's
  session can never be redeemed.
- `RevokeMemberInvitesBy`, `RevokeOwnerClaim`, `SetDisabled`,
  `SetDevAccessPolicy` and `Tree.Prune` have no callers.
- The lock order of `members.go:462-477` does not exclude a deadlock, which
  PostgreSQL ends by failing one of the two.
- A site can be left without an owner: a post about somebody who has no
  membership reads the owners, an owner claim makes that person the owner,
  another post removes the owner there was, and the first then writes its own
  role over the new owner's row, which it never locked.  `members.go:369-370`,
  `376-382` and `462-477` and `web/members.go:29-33` say it cannot happen.
- An administrator who is demoted between the question and the commit, of a post
  or of a redemption (`memberinvite.go:316-397` asks about the inviter without a
  lock), still grants.
- A failure that cannot be recorded is only warned of (`auth.go:244-248`,
  `web/recovery.go:122-124`), and the guess is answered.  Both budgets begin
  again with a success: four wrong developer passwords, a right one and four
  wrong ones fit in one window (`devgate.go:373`, `427`), and a restart of the
  panel forgets the gate's failures.
- A list's preview counts the rules up to a limit and says only how many more
  there are, and one that cannot be read offers the save all the same
  (`blocklistpreview.go:34-39`, `122-126`, `138-152`): such a rule goes into
  force though nobody saw what it refuses.  A change recorded as failed may have
  been written.
- A recovery that clears the factor while a sign-in is comparing lets a spent
  code be accepted again; a request in flight writes a logged-out session back
  (`session.go:172`).
- The developer access policy is read as two settings
  (`devaccesspolicy.go:45-67`); a link whose token cannot be renewed is spent.
- A refusal on the settings page is recorded with `rolledBack=false`, and an
  audit entry that fails leaves a changed setting recorded as failed.
- A queued request whose status cannot be read again is recorded failed
  (`web/backup.go:253-257` and four others), against `backuprequest.go:175-178`.
- A blank password with a new host keeps the old password; failures of a link's
  delivery overwrite the account's verification (`mailaccount.go:307-315`).
- `Complete` blocks on a required check that "failed or could not run"
  (`preflight.go:247`, `254-256`) and lets a warning pass, but that of
  `schema.analytics` only warns when the hypertables could not be read
  (`360-362`): plain tables pass unseen, unless `db.no_background_jobs`, which
  reads the same views, cannot look either and blocks.  Services are not checked on the
  health page, nor in the setup where no addresses are given.
- A misspelled role passes the check of grants and only warns
  (`preflight.go:1020-1027`); the retention check passes with one policy of
  two; a failure to attach the retention is shown as no policy.

## 7. Plan

What the plan began with is modelled, and what can be proved of it is.  What
remains, in this order:

1. A `RequestQueue` promise that the four queues (backup, release, schema,
   ranges) implement, by refinement.
2. `internal/api`'s raw exports and lists of sites beside what `ReadApi` has,
   and the ties in their orders.
3. The rest of the panel's pages as readers of the rows, as `HealthPage` is.

## 8. What stays out

- **Data**: what a fingerprint, a score, a row or a backup file contains, log
  lines and pages.  No property here is about them, and what they are computed
  from is in the model.
- **SQL**: a statement is one atomic action with its `WHERE` as the guard.
  Where a transaction's isolation decides (`Members`), its row locks are
  modelled; where one query's order decides (`ReadApi`, `Rollup`), so is the
  order.
- **`net/http`, the kernel, systemd, cron and the database's jobs** are what the
  code relies on them for: a closed socket ends a read, a context ends a dial,
  an exited service is started again, a policy drops whole chunks.
- **Fingerprints and scoring, hashing and sealing, rendering**: functions of one
  input.
- In modelled components: `SetIPMode` and `SetKnownBotASNs` (read once per
  flush), the heartbeat's counters, the backup's verdict columns, routing and
  parameters of the API, the address budget of the sign-in (which only refuses
  more), the wording of every page.
