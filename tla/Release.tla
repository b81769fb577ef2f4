------------------------------- MODULE Release -------------------------------
(***************************************************************************)
(* A release update asked for from the panel and carried out by the        *)
(* upgrader (internal/relupdate, panel/releaserequest.go, web/release.go): *)
(* the queue of one, the binaries moved aside, copied in and put back, the *)
(* doorbell that a root-owned unit answers by restarting the services      *)
(* (release/restart.sh), and the heartbeats that decide whether the        *)
(* release stays.                                                          *)
(*                                                                         *)
(* One upgrader, started by a timer from the directory it replaces.  Every *)
(* file operation is a step, and the process may be killed before any of   *)
(* them.  A version is a number; 0 where there is no file or no process.   *)
(***************************************************************************)
EXTENDS Naturals, FiniteSets

CONSTANTS
  Binaries,   \* what a package holds, the upgrader's own among them
  Services,   \* the ones that report a heartbeat
  Versions,
  BadVersion, \* what ValidVersion refuses
  Restarter,  \* whether /run/crucible-analytic is there (Doorbell.Configured)
  ReleaseStale,      \* StaleAfter, in ticks
  MaxAsks,    \* (bound) requests ever made
  MaxCrashes  \* (bound) times the upgrader is killed

ASSUME ReleaseAssumption ==
  /\ Services \subseteq Binaries /\ {"upgrader", "panel"} \subseteq Binaries /\ "panel" \in Services
  /\ Versions \subseteq Nat \ {0} /\ 1 \in Versions /\ BadVersion \notin Versions
  /\ ReleaseStale \in Nat \ {0} /\ Restarter \in BOOLEAN /\ MaxAsks \in Nat /\ MaxCrashes \in Nat

VARIABLES
  rel,     \* the newest row of panel_release_requests; older ones have ended
  bin,     \* the files of <prefix>/bin
  keep,    \* the checkpoint of the update under way
  kept,    \* what checkpoints that were left behind hold
  running,     \* the version of each service's process
  beat,    \* the services with a heartbeat newer than the last Since
  told,    \* history: the version whose process wrote each service's last one
  bell,    \* restart-please is there
  ringing, \* restart.sh: the services it has stopped and not yet started,
  waiting, \* ... and the ones it has still to stop
  upgrader,      \* the upgrader: where it is and what it holds
  releasesAsked, crashes,
  proven,  \* history: the versions every service has reported under at once
  trusted, \* history: the versions kept though a process of another reported
  good     \* history: the version the upgrader kept last

onDisk == <<bin, keep, kept>>
installation == <<running, beat, bell, ringing, waiting>>
witnesses == <<told, proven, trusted, good>>
rvars == <<rel, onDisk, installation, upgrader, releasesAsked, crashes, witnesses>>

NoBinaries == [b \in Binaries |-> 0]
UpgraderOff == [at |-> "off", ver |-> 0, carry |-> 0, todo |-> {}, blind |-> FALSE, failed |-> FALSE,
        outcome |-> "none", rolled |-> FALSE]
NoRelease == [st |-> "none", to |-> 0, age |-> 0, rolled |-> FALSE]

ReleaseInit ==
  /\ rel = NoRelease
  /\ bin = [b \in Binaries |-> 1] /\ keep = NoBinaries /\ kept = {}
  /\ running = [s \in Services |-> 1] /\ beat = {} /\ bell = FALSE /\ ringing = {} /\ waiting = {}
  /\ upgrader = UpgraderOff /\ releasesAsked = 0 /\ crashes = 0
  /\ told = [s \in Services |-> 1] /\ proven = {1} /\ trusted = {} /\ good = 1

UpgraderAt(p) == upgrader.at = p
UpgraderGoes(p) == upgrader' = [upgrader EXCEPT !.at = p]

-----------------------------------------------------------------------------
(* The queue.                                                              *)

Pending(r) == r.st \in {"pending", "running"}

\* One row in flight, which a unique index sees to.
AskRelease(v) ==
  /\ ~Pending(rel) /\ releasesAsked < MaxAsks
  /\ rel' = [NoRelease EXCEPT !.st = "pending", !.to = v]
  /\ releasesAsked' = releasesAsked + 1
  /\ UNCHANGED <<onDisk, installation, upgrader, crashes, witnesses>>

\* The button, on a panel that runs, pressed by somebody it is open to.
QueueRelease(v) == running["panel"] # 0 /\ v \in Versions /\ AskRelease(v)

\* A row that something else wrote, which the upgrader has to refuse.
AskByHand == AskRelease(BadVersion)

UpgraderStart ==
  /\ UpgraderAt("off") /\ bin["upgrader"] # 0
  /\ upgrader' = [UpgraderOff EXCEPT !.at = "expire", !.carry = bin["upgrader"]]
  /\ UNCHANGED <<rel, onDisk, installation, releasesAsked, crashes, witnesses>>

Expirable(r) == r.st = "running" /\ r.age >= ReleaseStale

\* The statement may fail; the pass goes on.
ExpireStale ==
  /\ UpgraderAt("expire") /\ UpgraderGoes("claim")
  /\ rel' \in {rel, IF Expirable(rel) THEN [rel EXCEPT !.st = "failed"] ELSE rel}
  /\ UNCHANGED <<onDisk, installation, releasesAsked, crashes, witnesses>>

ClaimRelease ==
  /\ UpgraderAt("claim") /\ rel.st = "pending"
  /\ rel' = [rel EXCEPT !.st = "running", !.age = 0]
  /\ upgrader' = IF rel.to \in Versions THEN [upgrader EXCEPT !.at = "fetch", !.ver = rel.to]
           ELSE [upgrader EXCEPT !.at = "schema"]
  /\ UNCHANGED <<onDisk, installation, releasesAsked, crashes, witnesses>>

NothingAsked ==
  /\ UpgraderAt("claim") /\ rel.st # "pending" /\ UpgraderGoes("schema")
  /\ UNCHANGED <<rel, onDisk, installation, releasesAsked, crashes, witnesses>>

Concludes(outcome, rolled) ==
  upgrader' = [upgrader EXCEPT !.at = "finish", !.outcome = outcome, !.rolled = rolled]

\* The checkpoint stays on disk unless Forget has emptied it.  The row may
\* not take the answer, and then it goes stale.
Left == {<<b, keep[b]>> : b \in {x \in Binaries : keep[x] # 0}}

FinishRelease ==
  /\ UpgraderAt("finish") /\ upgrader' = [upgrader EXCEPT !.at = "schema"]
  /\ rel' \in {rel, [rel EXCEPT !.st = upgrader.outcome, !.rolled = upgrader.rolled]}
  /\ keep' = NoBinaries /\ kept' = kept \union Left
  /\ UNCHANGED <<bin, installation, releasesAsked, crashes, witnesses>>

-----------------------------------------------------------------------------
(* Installing.                                                             *)

\* Not configured, not writable, not fetched, not signed, or a binary of the
\* package that does not run here: nothing was changed.
CarryOutFails ==
  /\ UpgraderAt("fetch") /\ Concludes("failed", FALSE)
  /\ UNCHANGED <<rel, onDisk, installation, releasesAsked, crashes, witnesses>>

Fetched ==
  /\ UpgraderAt("fetch") /\ upgrader' = [upgrader EXCEPT !.at = "aside", !.todo = Binaries]
  /\ UNCHANGED <<rel, onDisk, installation, releasesAsked, crashes, witnesses>>

\* A rename into the checkpoint, or nothing where there was no such file.
MoveAside(b) ==
  /\ UpgraderAt("aside") /\ b \in upgrader.todo
  /\ keep' = [keep EXCEPT ![b] = bin[b]] /\ bin' = [bin EXCEPT ![b] = 0]
  /\ upgrader' = IF upgrader.todo = {b} THEN [upgrader EXCEPT !.at = "copy", !.todo = Binaries]
           ELSE [upgrader EXCEPT !.todo = @ \ {b}]
  /\ UNCHANGED <<rel, kept, installation, releasesAsked, crashes, witnesses>>

CopyFails(b) == upgrader' = [upgrader EXCEPT !.at = "undo", !.todo = Binaries, !.rolled = TRUE]

\* copyExecutable: a temporary name and a rename over the real one.
CopyIn(b) ==
  /\ UpgraderAt("copy") /\ b \in upgrader.todo
  /\ \/ /\ bin' = [bin EXCEPT ![b] = upgrader.ver]
        /\ upgrader' = [upgrader EXCEPT !.todo = @ \ {b}, !.at = IF upgrader.todo = {b} THEN "verify" ELSE @]
     \/ CopyFails(b) /\ UNCHANGED bin
  /\ UNCHANGED <<rel, keep, kept, installation, releasesAsked, crashes, witnesses>>

\* What was installed is run once where it now is.
VerifyInstall ==
  /\ UpgraderAt("verify")
  /\ \/ Restarter /\ UpgraderGoes("since")
     \/ ~Restarter /\ Concludes("succeeded", FALSE)
     \/ upgrader' = [upgrader EXCEPT !.at = "undo", !.todo = Binaries, !.rolled = TRUE]
  /\ UNCHANGED <<rel, onDisk, installation, releasesAsked, crashes, witnesses>>

\* A rename that fails is the other way into rollback.
AsideFails ==
  /\ UpgraderAt("aside") /\ upgrader' = [upgrader EXCEPT !.at = "undo", !.todo = Binaries]
  /\ UNCHANGED <<rel, onDisk, installation, releasesAsked, crashes, witnesses>>

\* rollback, a file at a time: removed, and the saved one renamed back.  Both
\* errors are ignored.  After a failed move what was not reached is still there.
rollback(b) ==
  /\ UpgraderAt("undo") /\ b \in upgrader.todo
  /\ \/ /\ keep[b] # 0 /\ bin' = [bin EXCEPT ![b] = keep[b]] /\ keep' = [keep EXCEPT ![b] = 0]
     \/ /\ keep[b] # 0 /\ bin' = [bin EXCEPT ![b] = 0] /\ UNCHANGED keep
     \/ /\ keep[b] = 0 /\ bin' = [bin EXCEPT ![b] = IF upgrader.rolled THEN 0 ELSE @] /\ UNCHANGED keep
  /\ upgrader' = IF upgrader.todo = {b} THEN [upgrader EXCEPT !.at = "finish", !.todo = {}, !.outcome = "failed"]
           ELSE [upgrader EXCEPT !.todo = @ \ {b}]
  /\ UNCHANGED <<rel, kept, installation, releasesAsked, crashes, witnesses>>

-----------------------------------------------------------------------------
(* Restarting and asking whether the services came back; a second time     *)
(* with the binaries that were put back.                                   *)

\* The database's clock is read before the bell is rung.
Since(from, to) ==
  /\ UpgraderAt(from)
  /\ \/ beat' = {} /\ upgrader' = [upgrader EXCEPT !.at = to, !.blind = FALSE]
     \/ UNCHANGED beat /\ upgrader' = [upgrader EXCEPT !.at = to, !.blind = TRUE]
  /\ UNCHANGED <<rel, onDisk, running, bell, ringing, waiting, releasesAsked, crashes, witnesses>>

\* The path unit sees an edge.  While restart.sh runs, the edge may be lost.
Rings == bell' \in IF ringing \union waiting = {} THEN {TRUE} ELSE {TRUE, bell}

RingFor(from, to, rolled) ==
  /\ UpgraderAt(from)
  /\ \/ ~upgrader.blind /\ Rings /\ UpgraderGoes(to)
     \/ upgrader.blind /\ Rings /\ Concludes("failed", rolled)
     \/ UNCHANGED bell /\ Concludes("failed", rolled)
  /\ UNCHANGED <<rel, onDisk, running, beat, ringing, waiting, releasesAsked, crashes, witnesses>>

\* (mutant) The checkpoint goes as soon as the bell has been rung.
ForgetsAtOnce == keep' = NoBinaries

Forgets == IF beat = Services THEN keep' \in {NoBinaries, keep} ELSE keep' = keep

\* A heartbeat newer than Since is believed whichever process wrote it: one
\* that the restart has not reached yet writes the row of a new one.
Believes(v) ==
  trusted' = IF \A s \in Services : told[s] = v THEN trusted ELSE trusted \union {v}

Healthy ==
  /\ UpgraderAt("wait") /\ Forgets
  /\ \/ /\ beat = Services /\ Concludes("succeeded", FALSE) /\ good' = upgrader.ver
        /\ Believes(upgrader.ver)
     \/ /\ beat # Services /\ UNCHANGED <<good, trusted>>
        /\ \/ upgrader' = [upgrader EXCEPT !.at = "restore", !.todo = Binaries]
           \/ Concludes("failed", FALSE)
  /\ UNCHANGED <<rel, bin, kept, installation, releasesAsked, crashes, told, proven>>

\* Restore copies each file of the checkpoint back, and goes on past one that
\* fails.
Restore(b) ==
  /\ UpgraderAt("restore") /\ b \in upgrader.todo
  /\ LET rest == [upgrader EXCEPT !.todo = @ \ {b}] IN
     \/ /\ keep[b] # 0 /\ bin' = [bin EXCEPT ![b] = keep[b]] /\ upgrader' = rest
     \/ /\ keep[b] # 0 /\ UNCHANGED bin /\ upgrader' = [rest EXCEPT !.failed = TRUE]
     \/ /\ keep[b] = 0 /\ UNCHANGED bin /\ upgrader' = rest
  /\ UNCHANGED <<rel, keep, kept, installation, releasesAsked, crashes, witnesses>>

BinariesRestored ==
  /\ UpgraderAt("restore") /\ upgrader.todo = {}
  /\ IF upgrader.failed \/ keep = NoBinaries THEN Concludes("failed", FALSE) ELSE UpgraderGoes("since2")
  /\ UNCHANGED <<rel, onDisk, installation, releasesAsked, crashes, witnesses>>

HealthyAgain ==
  /\ UpgraderAt("wait2") /\ Concludes("failed", TRUE)
  /\ UNCHANGED <<rel, onDisk, installation, releasesAsked, crashes, witnesses>>

\* restart.sh: the file is removed, then each unit is stopped and started.
RestartScript ==
  /\ bell /\ ringing \union waiting = {}
  /\ bell' = FALSE /\ waiting' = Services
  /\ UNCHANGED <<rel, onDisk, running, beat, ringing, upgrader, releasesAsked, crashes, witnesses>>

ServiceStops(s) ==
  /\ s \in waiting /\ waiting' = waiting \ {s} /\ ringing' = ringing \union {s}
  /\ running' = [running EXCEPT ![s] = 0]
  /\ UNCHANGED <<rel, onDisk, beat, bell, upgrader, releasesAsked, crashes, witnesses>>

StartUnit(s) ==
  /\ s \in ringing /\ waiting = {} /\ ringing' = ringing \ {s}
  /\ running' = [running EXCEPT ![s] = bin[s]]
  /\ UNCHANGED <<rel, onDisk, beat, bell, waiting, upgrader, releasesAsked, crashes, witnesses>>

\* A row at the start and every minute after.
Beat(s) ==
  /\ running[s] # 0 /\ (s \notin beat \/ told[s] # running[s]) /\ beat' = beat \union {s}
  /\ told' = [told EXCEPT ![s] = running[s]]
  /\ proven' = IF \A t \in Services : told'[t] = running[s] THEN proven \union {running[s]} ELSE proven
  /\ UNCHANGED <<rel, onDisk, running, bell, ringing, waiting, upgrader, releasesAsked, crashes,
                 trusted, good>>

-----------------------------------------------------------------------------

\* The process is killed; what it had moved aside stays there.
Killed ==
  /\ upgrader' = UpgraderOff /\ keep' = NoBinaries /\ kept' = kept \union Left
  /\ crashes < MaxCrashes /\ crashes' = crashes + 1
  /\ UNCHANGED <<rel, bin, installation, releasesAsked, witnesses>>

InstallStep ==
  \/ ExpireStale \/ ClaimRelease \/ NothingAsked \/ FinishRelease \/ CarryOutFails \/ Fetched \/ AsideFails \/ VerifyInstall
  \/ \E b \in Binaries : MoveAside(b) \/ CopyIn(b) \/ rollback(b) \/ Restore(b)
  \/ Since("since", "ring") \/ RingFor("ring", "wait", FALSE) \/ Healthy
  \/ BinariesRestored \/ Since("since2", "ring2") \/ RingFor("ring2", "wait2", TRUE) \/ HealthyAgain

WorldStep == RestartScript \/ \E s \in Services : ServiceStops(s) \/ StartUnit(s) \/ Beat(s)

-----------------------------------------------------------------------------
(* Properties.                                                             *)

OnDiskWhole(v) == \A b \in Binaries : bin[b] = v \/ keep[b] = v \/ <<b, v>> \in kept

\* Whatever fails, and whenever the upgrader is killed, every binary of some
\* version under which all services have reported is still on the disk: in the
\* directory or in a checkpoint (install.go: the old binaries are moved, not
\* deleted, and forgotten only when the new version has been seen to work).
\* Or of one that was kept on the word of a process of another version, which
\* wrote its minute's heartbeat between Since and its own restart
\* (restart.go:214).
LastGoodKept == \E v \in proven \union trusted : OnDiskWhole(v)
==============================================================================
